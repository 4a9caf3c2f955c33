------------------------------ MODULE Bridge ------------------------------
(***************************************************************************)
(* The 32-bit bridge process (bridge/src/main.rs): one loop that reads a   *)
(* JSON line from stdin, runs its handler, and writes one reply line to    *)
(* stdout.  A line is represented by its number and by the kind of text it *)
(* is; a reply carries the number of the line it answers, which the        *)
(* program does not send and only the properties read.                     *)
(***************************************************************************)
EXTENDS Naturals, Sequences

CONSTANT OversizeReplies  \* may a reply exceed the host's MAX_IPC_LINE?

ASSUME BridgeAssumption == OversizeReplies \in BOOLEAN

VARIABLES
  toBridge,   \* lines in the bridge's stdin pipe
  toHost,     \* reply lines, or pieces of one, in its stdout pipe
  stdinOpen,  \* does anybody hold the writing end of stdin?
  bpc,        \* where the main loop is; "gone": there is no process
  line,       \* the line being handled
  ready,      \* is `state` Some?
  held        \* device handles the process has open in the vendor library

bridgeVars == <<toBridge, toHost, stdinOpen, bpc, line, ready, held>>

(* identify carries the whole gallery in one line; "bulk" is an identify   *)
(* whose line exceeds MAX_IPC_LINE.                                        *)
UseKinds == {"capture", "enroll", "verify", "identify", "get_quality"}
CommandKinds == UseKinds \cup {"init", "disconnect"}
LineKinds == CommandKinds \cup {"bulk", "blank", "malformed"}

(* The variant of ResponseData that a command's Ok reply carries.          *)
OkType(k) ==
  CASE k = "init" -> "device_info"
    [] k = "capture" -> "scan_result"
    [] k = "enroll" -> "template"
    [] k \in {"verify", "identify", "bulk"} -> "match_result"
    [] k = "get_quality" -> "quality"
    [] OTHER -> "void"

(* "head" is the first MAX_IPC_LINE bytes of a reply that is longer, and   *)
(* "tail" what is left of it up to its newline.                            *)
ReplyTypes == {"device_info", "scan_result", "template", "match_result", "quality",
               "void", "not_initialized", "error", "head", "tail"}

NoLine == [id |-> 0, kind |-> "blank"]

BridgePCs == {"reading", "handling", "leaving", "gone"}

BridgeTypeOK ==
  /\ toBridge \in Seq([id : Nat, kind : LineKinds])
  /\ toHost \in Seq([id : Nat, type : ReplyTypes])
  /\ stdinOpen \in BOOLEAN
  /\ bpc \in BridgePCs
  /\ line \in [id : Nat, kind : LineKinds]
  /\ ready \in BOOLEAN
  /\ held \in Nat

-----------------------------------------------------------------------------
Reply(t) == toHost' = Append(toHost, [id |-> line.id, type |-> t])

(* The next line; a blank one is skipped.                                  *)
ReadLine ==
  /\ bpc = "reading" /\ toBridge # <<>>
  /\ toBridge' = Tail(toBridge)
  /\ IF Head(toBridge).kind = "blank"
       THEN UNCHANGED <<bpc, line>>
       ELSE bpc' = "handling" /\ line' = Head(toBridge)
  /\ UNCHANGED <<toHost, stdinOpen, ready, held>>

(* Mutant of ReadEof: the end of the input is read again like an empty line. *)
ReadEofAgain ==
  /\ bpc = "reading" /\ toBridge = <<>> /\ ~stdinOpen
  /\ UNCHANGED bridgeVars

ReadEof ==
  /\ bpc = "reading" /\ toBridge = <<>> /\ ~stdinOpen
  /\ bpc' = "leaving"
  /\ UNCHANGED <<toBridge, toHost, stdinOpen, line, ready, held>>

(* A line over the limit: "We can't safely resync the stream".             *)
RefuseOversize ==
  /\ bpc = "handling" /\ line.kind = "bulk"
  /\ Reply("error")
  /\ bpc' = "leaving"
  /\ UNCHANGED <<toBridge, stdinOpen, line, ready, held>>

(* Mutant of RefuseMalformed: it goes on without a reply.                  *)
RefuseSilently ==
  /\ bpc = "handling" /\ line.kind = "malformed"
  /\ bpc' = "reading"
  /\ UNCHANGED <<toBridge, toHost, stdinOpen, line, ready, held>>

RefuseMalformed ==
  /\ bpc = "handling" /\ line.kind = "malformed"
  /\ Reply("error")
  /\ bpc' = "reading"
  /\ UNCHANGED <<toBridge, stdinOpen, line, ready, held>>

(* Mutant of HandleInit: a failed init clears the state.                   *)
HandleInitClears ==
  /\ bpc = "handling" /\ line.kind = "init"
  /\ \/ Reply("error") /\ ready' = FALSE /\ UNCHANGED held
     \/ Reply("device_info") /\ held' = held + 1 /\ ready' = TRUE
  /\ bpc' = "reading"
  /\ UNCHANGED <<toBridge, stdinOpen, line>>

(* handle_init neither looks at an earlier state nor closes what it opened *)
(* when a later vendor call fails.                                         *)
HandleInit ==
  /\ bpc = "handling" /\ line.kind = "init"
  /\ \/ Reply("error") /\ UNCHANGED <<ready, held>>
     \/ Reply("error") /\ held' = held + 1 /\ UNCHANGED ready
     \/ Reply("device_info") /\ held' = held + 1 /\ ready' = TRUE
  /\ bpc' = "reading"
  /\ UNCHANGED <<toBridge, stdinOpen, line>>

(* capture, enroll, verify, identify and get_quality as the pipe sees them.*)
HandleUse ==
  /\ bpc = "handling" /\ line.kind \in UseKinds
  /\ IF ~ready
       THEN Reply("not_initialized")
       ELSE \/ Reply("error")
            \/ Reply(OkType(line.kind))
            \/ /\ OversizeReplies
               /\ toHost' = toHost \o <<[id |-> line.id, type |-> "head"],
                                        [id |-> line.id, type |-> "tail"]>>
  /\ bpc' = "reading"
  /\ UNCHANGED <<toBridge, stdinOpen, line, ready, held>>

(* Mutant of CloseState: it closes without asking whether there is a state. *)
CloseAlways == ready' = FALSE /\ held' = held - 1

(* state.take(): the handle it holds is closed, if it holds one.           *)
CloseState ==
  /\ ready' = FALSE
  /\ held' = IF ready THEN held - 1 ELSE held

HandleDisconnect ==
  /\ bpc = "handling" /\ line.kind = "disconnect"
  /\ CloseState
  /\ Reply("void")
  /\ bpc' = "reading"
  /\ UNCHANGED <<toBridge, stdinOpen, line>>

(* The end of the process, clean or not: its handles and pipe ends close;  *)
(* what it has written can still be read.                                  *)
Vanish ==
  /\ bpc' = "gone"
  /\ toBridge' = <<>>
  /\ line' = NoLine
  /\ ready' = FALSE
  /\ held' = 0

(* After the loop main closes its device and returns.                      *)
Leave == bpc = "leaving" /\ Vanish /\ UNCHANGED <<toHost, stdinOpen>>

(* The process dies in the vendor library, or is killed from outside.      *)
Crash == bpc # "gone" /\ Vanish /\ UNCHANGED <<toHost, stdinOpen>>

BridgeStep ==
  \/ ReadLine \/ ReadEof \/ RefuseOversize \/ RefuseMalformed
  \/ HandleInit \/ HandleUse \/ HandleDisconnect \/ Leave

(* A process just spawned, with empty pipes.                               *)
Started ==
  /\ toBridge = <<>> /\ toHost = <<>> /\ stdinOpen = TRUE
  /\ bpc = "reading" /\ line = NoLine /\ ready = FALSE /\ held = 0
=============================================================================
