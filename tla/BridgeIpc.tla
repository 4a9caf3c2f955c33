----------------------------- MODULE BridgeIpc -----------------------------
(***************************************************************************)
(* The host's end of the bridge (sdk/src/vendors/secugen/bridge.rs)        *)
(* composed with the bridge process.  The host serialises its commands     *)
(* (the backend's mutex): it writes one line and waits, without a timeout, *)
(* for one reply, which it matches by its type alone.  A backend that is   *)
(* dropped kills its process.                                              *)
(***************************************************************************)
EXTENDS Bridge

CONSTANT MaxCommands    \* commands sent to one bridge process (bound)

(* A session is at least its init and its disconnect.                      *)
ASSUME IpcAssumption == MaxCommands \in Nat /\ MaxCommands >= 2

VARIABLES
  hpc,      \* where the host is; "none": no backend; "exited": no host process
  cmd,      \* kind of the command being sent
  sent      \* commands written to this bridge process

vars == <<bridgeVars, hpc, cmd, sent>>

HostPCs == {"none", "idle", "sending", "blocked", "reading", "killing", "exited"}

TypeOK ==
  /\ BridgeTypeOK
  /\ hpc \in HostPCs
  /\ cmd \in CommandKinds \cup {"bulk"}
  /\ sent \in 0..MaxCommands

Init ==
  /\ hpc = "none" /\ cmd = "disconnect" /\ sent = 0
  /\ toBridge = <<>> /\ toHost = <<>> /\ stdinOpen = FALSE
  /\ bpc = "gone" /\ line = NoLine /\ ready = FALSE /\ held = 0

-----------------------------------------------------------------------------
(* SecuGenScanner::init: a new process with new pipes, then the init       *)
(* command.  (A spawn that fails leaves everything as it was.)             *)
Spawn ==
  /\ hpc = "none"
  /\ toBridge' = <<>> /\ toHost' = <<>> /\ stdinOpen' = TRUE
  /\ bpc' = "reading" /\ line' = NoLine /\ ready' = FALSE /\ held' = 0
  /\ hpc' = "sending" /\ cmd' = "init" /\ sent' = 0

(* An operation, on a backend whose init has succeeded.                    *)
Ask(k) ==
  /\ hpc = "idle" /\ sent + 1 < MaxCommands
  /\ hpc' = "sending" /\ cmd' = k
  /\ UNCHANGED <<bridgeVars, sent>>

(* shutdown consumes the backend: disconnect is its last command.          *)
Shutdown ==
  /\ hpc = "idle"
  /\ hpc' = "sending" /\ cmd' = "disconnect"
  /\ UNCHANGED <<bridgeVars, sent>>

(* Mutant of Failed: a failed init keeps its backend.                      *)
FailedKeeps == hpc' = IF cmd = "disconnect" THEN "killing" ELSE "idle"

(* What send_inner's Err or Ok leads to: a failed init drops the backend,  *)
(* a disconnect kills whatever it got, any other command keeps the backend.*)
Failed == hpc' = IF cmd \in {"init", "disconnect"} THEN "killing" ELSE "idle"
Succeeded == hpc' = IF cmd = "disconnect" THEN "killing" ELSE "idle"

(* writeln and flush.  A line over the limit does not fit in the pipe: the *)
(* host stays in the write until the bridge has read its share.            *)
WriteCommand ==
  /\ hpc = "sending"
  /\ IF bpc = "gone"
       THEN Failed /\ UNCHANGED <<toBridge, sent>>
       ELSE /\ toBridge' = Append(toBridge, [id |-> sent + 1, kind |-> cmd])
            /\ sent' = sent + 1
            /\ hpc' = IF cmd = "bulk" THEN "blocked" ELSE "reading"
  /\ UNCHANGED <<toHost, stdinOpen, bpc, line, ready, held, cmd>>

(* What the bridge leaves of the long line just fits in the pipe, or keeps *)
(* the host waiting until the bridge is gone and the pipe breaks.          *)
FinishWrite ==
  /\ hpc = "blocked"
  /\ \/ toBridge = <<>> /\ hpc' = "reading"
     \/ bpc = "gone" /\ Failed
  /\ UNCHANGED <<bridgeVars, cmd, sent>>

(* One bounded read_line.  Every text is an error but a reply of the type  *)
(* that the command expects; what the limit cuts off stays in the pipe.    *)
ReadReply ==
  /\ hpc = "reading" /\ toHost # <<>>
  /\ toHost' = Tail(toHost)
  /\ IF Head(toHost).type = OkType(cmd) THEN Succeeded ELSE Failed
  /\ UNCHANGED <<toBridge, stdinOpen, bpc, line, ready, held, cmd, sent>>

(* Mutants of ReadEmpty: a timeout that leaves the reply to come in the    *)
(* pipe; an end of file that is taken for an empty line.                   *)
ReadTimesOut ==
  /\ hpc = "reading" /\ toHost = <<>>
  /\ Failed
  /\ UNCHANGED <<bridgeVars, cmd, sent>>

ReadEmptyAgain ==
  /\ hpc = "reading" /\ toHost = <<>> /\ bpc = "gone"
  /\ UNCHANGED vars

(* "Bridge process returned empty response (may have crashed)".            *)
ReadEmpty ==
  /\ hpc = "reading" /\ toHost = <<>> /\ bpc = "gone"
  /\ Failed
  /\ UNCHANGED <<bridgeVars, cmd, sent>>

(* Mutant of Kill: the backend has no Drop.                                *)
KillForgets ==
  /\ hpc = "killing"
  /\ hpc' = "none"
  /\ UNCHANGED <<bridgeVars, cmd, sent>>

(* shutdown's kill and wait, or Drop's.                                    *)
Kill ==
  /\ hpc = "killing"
  /\ hpc' = "none"
  /\ Vanish /\ stdinOpen' = FALSE /\ toHost' = <<>>
  /\ UNCHANGED <<cmd, sent>>

(* The Node.js process ends in the middle of anything: no Drop runs, its   *)
(* ends of the pipes close.                                                *)
HostExits ==
  /\ hpc # "exited"
  /\ hpc' = "exited"
  /\ stdinOpen' = FALSE
  /\ UNCHANGED <<toBridge, toHost, bpc, line, ready, held, cmd, sent>>

HostStep == WriteCommand \/ FinishWrite \/ ReadReply \/ ReadEmpty \/ Kill

Process == BridgeStep /\ UNCHANGED <<hpc, cmd, sent>>

Done == hpc = "exited" /\ bpc = "gone" /\ UNCHANGED vars

Next ==
  \/ Spawn \/ Shutdown \/ HostStep \/ HostExits
  \/ \E k \in UseKinds \cup {"bulk"} : Ask(k)
  \/ Process
  \/ Crash /\ UNCHANGED <<hpc, cmd, sent>>
  \/ Done

Spec == Init /\ [][Next]_vars

(* Both processes are scheduled and every vendor call returns.             *)
FairSpec == Spec /\ WF_vars(HostStep) /\ WF_vars(Process)

-----------------------------------------------------------------------------
Accepts == ReadReply /\ Head(toHost).type = OkType(cmd)

(* A result handed to the caller is the result of its own command.  The    *)
(* host has only the type to go by, so a verify whose reply is left in the *)
(* pipe would be taken for the answer about another user.                  *)
AnswersOwnCommand == [][Accepts => Head(toHost).id = sent]_vars

(* With replies within the limit, between commands nothing is left in      *)
(* either pipe, and during one at most the line or its reply.              *)
InStep ==
  /\ hpc \in {"idle", "sending"} /\ bpc # "gone" =>
       toBridge = <<>> /\ toHost = <<>> /\ bpc # "handling"
  /\ Len(toBridge) + Len(toHost) + (IF bpc = "handling" THEN 1 ELSE 0) <= 1
  /\ hpc \in {"blocked", "reading"} =>
       /\ \A i \in 1..Len(toHost) : toHost[i].id = sent
       /\ \A i \in 1..Len(toBridge) : toBridge[i].id = sent
       /\ bpc = "handling" => line.id = sent

(* The device is opened at most once by a bridge process, though           *)
(* handle_init would open it again and forget the first handle; a host     *)
(* without a backend has no process and holds no device, whatever failed.  *)
OneHandle ==
  /\ held <= 1
  /\ hpc = "none" => bpc = "gone" /\ held = 0

(* Every operation finds the session its init opened: the bridge never     *)
(* answers NOT_INITIALIZED to this host, even around failures.             *)
NeverNotInitialized ==
  \A i \in 1..Len(toHost) : toHost[i].type # "not_initialized"

(* No send hangs, whenever the bridge dies or refuses a line.              *)
SendReturns ==
  hpc \in {"sending", "blocked", "reading", "killing"} ~> hpc \in {"idle", "none", "exited"}

(* A host that ends, even in the middle of a command, leaves no bridge     *)
(* process behind that keeps the device.                                   *)
DeviceReleased == hpc = "exited" ~> bpc = "gone" /\ held = 0
=============================================================================
