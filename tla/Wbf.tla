-------------------------------- MODULE Wbf --------------------------------
(***************************************************************************)
(* A scanner of the Windows Biometric Framework (vendors/wbf/mod.rs): its  *)
(* session with the service and what the service allocated for it.  A      *)
(* capture blocks in WinBioIdentify until the service answers, whatever    *)
(* timeout the caller gave.                                                *)
(***************************************************************************)
EXTENDS Naturals

CONSTANTS
  WbfSampleArgs,   \* values of enroll's argument `samples`
  MaxOps           \* operations on one scanner (bound)

ASSUME WbfAssumption == WbfSampleArgs \subseteq 0..255 /\ MaxOps \in Nat

VARIABLES
  at,         \* where the scanner is
  schemas,    \* unit schemas allocated by the service
  sessions,   \* sessions open at the service
  state,      \* WbfScanner::state is Some
  strategy,   \* index into session_configs
  todo,       \* captures that the operation has still to make
  ops,        \* operations begun
  result      \* of the last operation

wvars == <<at, schemas, sessions, state, strategy, todo, ops, result>>

Strategies == 4

WbfTypeOK ==
  /\ at \in {"new", "enumerated", "opening", "failed", "idle", "capturing", "closed"}
  /\ schemas \in 0..1 /\ sessions \in 0..Strategies
  /\ state \in BOOLEAN
  /\ strategy \in 1..Strategies
  /\ todo \in 0..255
  /\ ops \in 0..MaxOps
  /\ result \in {"none", "ok", "DEVICE_NOT_FOUND", "SDK_ERROR"}

WbfInit ==
  /\ at = "new" /\ schemas = 0 /\ sessions = 0 /\ state = FALSE
  /\ strategy = 1 /\ todo = 0 /\ ops = 0 /\ result = "none"

-----------------------------------------------------------------------------
(* WinBioEnumBiometricUnits: a failure, or no unit; a schema may come with *)
(* either, and is freed.                                                   *)
NoUnit ==
  /\ at = "new"
  /\ at' = "failed" /\ result' = "DEVICE_NOT_FOUND"
  /\ UNCHANGED <<schemas, sessions, state, strategy, todo, ops>>

Enumerate ==
  /\ at = "new"
  /\ at' = "enumerated" /\ schemas' = 1
  /\ UNCHANGED <<sessions, state, strategy, todo, ops, result>>

(* The first unit is read and the schema freed.                            *)
ReadUnit ==
  /\ at = "enumerated"
  /\ at' = "opening" /\ schemas' = 0
  /\ UNCHANGED <<sessions, state, strategy, todo, ops, result>>

(* Mutant of OpenSession: the loop goes on after a session was opened.     *)
OpenSessionAll ==
  /\ at = "opening"
  /\ \/ sessions' = sessions + 1 /\ state' = TRUE
     \/ UNCHANGED <<sessions, state>>
  /\ IF strategy < Strategies
       THEN strategy' = strategy + 1 /\ UNCHANGED <<at, result>>
       ELSE /\ UNCHANGED strategy
            /\ at' = IF state' THEN "idle" ELSE "failed"
            /\ result' = IF state' THEN "ok" ELSE "SDK_ERROR"
  /\ UNCHANGED <<schemas, todo, ops>>

(* WinBioOpenSession with one strategy after another until one works.      *)
OpenSession ==
  /\ at = "opening"
  /\ \/ /\ sessions' = sessions + 1 /\ state' = TRUE
        /\ at' = "idle" /\ result' = "ok" /\ UNCHANGED strategy
     \/ /\ strategy < Strategies
        /\ strategy' = strategy + 1 /\ UNCHANGED <<at, sessions, state, result>>
     \/ /\ strategy = Strategies
        /\ at' = "failed" /\ result' = "SDK_ERROR" /\ UNCHANGED <<sessions, state, strategy>>
  /\ UNCHANGED <<schemas, todo, ops>>

-----------------------------------------------------------------------------
(* capture takes one sample, enroll as many as it is told to.              *)
BeginWbfCapture ==
  /\ at = "idle" /\ ops < MaxOps
  /\ at' = "capturing" /\ ops' = ops + 1
  /\ todo' \in {1} \cup {IF n = 0 THEN 3 ELSE n : n \in WbfSampleArgs}
  /\ UNCHANGED <<schemas, sessions, state, strategy, result>>

(* verify, identify and get_quality.                                       *)
Unsupported ==
  /\ at = "idle" /\ ops < MaxOps
  /\ ops' = ops + 1 /\ result' = "SDK_ERROR"
  /\ UNCHANGED <<at, schemas, sessions, state, strategy, todo>>

(* The finger is recognised, and its quality is 100: of equal samples      *)
(* enroll keeps the first.                                                 *)
Recognised ==
  /\ at = "capturing"
  /\ todo' = todo - 1
  /\ IF todo > 1
       THEN UNCHANGED <<at, result>>
       ELSE at' = "idle" /\ result' = "ok"
  /\ UNCHANGED <<schemas, sessions, state, strategy, ops>>

(* No match, a bad capture or another error ends the operation.            *)
NotRecognised ==
  /\ at = "capturing"
  /\ at' = "idle" /\ todo' = 0 /\ result' = "SDK_ERROR"
  /\ UNCHANGED <<schemas, sessions, state, strategy, ops>>

(* disconnect, or Drop, which does the same.  A scanner whose init failed  *)
(* is dropped.                                                             *)
WbfDisconnect ==
  /\ at \in {"idle", "failed"}
  /\ at' = "closed" /\ state' = FALSE
  /\ sessions' = IF state THEN sessions - 1 ELSE sessions
  /\ UNCHANGED <<schemas, strategy, todo, ops, result>>

WbfNext ==
  \/ NoUnit \/ Enumerate \/ ReadUnit \/ OpenSession
  \/ BeginWbfCapture \/ Unsupported \/ Recognised \/ NotRecognised
  \/ WbfDisconnect

-----------------------------------------------------------------------------
(* Whichever of its calls fails: a scanner has at most one session, the    *)
(* one that disconnect will close, operations run in it, and nothing that  *)
(* the service gave is left when init has failed or the scanner is closed. *)
WbfSessionOwned ==
  /\ sessions = IF state THEN 1 ELSE 0
  /\ at \in {"idle", "capturing"} => state
  /\ at \in {"failed", "closed"} => sessions = 0 /\ schemas = 0
=============================================================================
