--------------------------- MODULE BridgeClient ---------------------------
(***************************************************************************)
(* The bridge alone, against a client that writes any lines without        *)
(* waiting for replies, as the end-to-end tests of bridge/tests/ipc.rs do. *)
(* The client reads nothing, so toHost is the list of all replies.         *)
(***************************************************************************)
EXTENDS Bridge

CONSTANT MaxLines     \* lines the client writes (bound)

ASSUME ClientAssumption == MaxLines \in Nat

VARIABLE written      \* kinds of the lines written so far

vars == <<bridgeVars, written>>

TypeOK == BridgeTypeOK /\ written \in Seq(LineKinds) /\ Len(written) <= MaxLines

Init == Started /\ written = <<>>

Write(k) ==
  /\ stdinOpen /\ bpc # "gone" /\ Len(written) < MaxLines
  /\ written' = Append(written, k)
  /\ toBridge' = Append(toBridge, [id |-> Len(written) + 1, kind |-> k])
  /\ UNCHANGED <<toHost, stdinOpen, bpc, line, ready, held>>

CloseStdin ==
  /\ stdinOpen /\ stdinOpen' = FALSE
  /\ UNCHANGED <<toBridge, toHost, bpc, line, ready, held, written>>

Done == bpc = "gone" /\ UNCHANGED vars

Next ==
  \/ \E k \in LineKinds : Write(k)
  \/ CloseStdin
  \/ BridgeStep /\ UNCHANGED written
  \/ Crash /\ UNCHANGED written
  \/ Done

(* The client closes its end at last; handlers return.                     *)
Spec == Init /\ [][Next]_vars
             /\ WF_vars(BridgeStep /\ UNCHANGED written) /\ WF_vars(CloseStdin)

-----------------------------------------------------------------------------
Deserves(i) == i \in 1..Len(written) /\ written[i] # "blank"
Answered(i) == \E j \in 1..Len(toHost) : toHost[j].id = i

(* bridge/tests/ipc.rs: "each should get its own response and they must    *)
(* arrive in send order", blank lines get none and a malformed one is      *)
(* answered and survived.  Nothing is answered twice, or left out by a     *)
(* later answer, and a bridge that waits for input has answered it all.    *)
RepliesInOrder ==
  /\ \A i \in 1..Len(toHost) : Deserves(toHost[i].id)
  /\ \A i, j \in 1..Len(toHost) : i < j => toHost[i].id < toHost[j].id
  /\ \A i \in 1..Len(toHost) : \A n \in 1..toHost[i].id : Deserves(n) => Answered(n)
  /\ bpc = "reading" /\ toBridge = <<>> => \A n \in 1..Len(written) : Deserves(n) => Answered(n)

(* The replies that opened and closed a session, and those between.        *)
Opens(i) == toHost[i].type = "device_info"
Closes(i) == toHost[i].type = "void"

(* An operation is refused as NOT_INITIALIZED exactly when the last init   *)
(* that succeeded has been followed by a disconnect, or there was none: a  *)
(* failed second init does not lose the session.                           *)
OpsNeedSession ==
  \A i \in 1..Len(toHost) :
    written[toHost[i].id] \in UseKinds =>
      (toHost[i].type = "not_initialized" <=>
         ~\E j \in 1..(i - 1) : Opens(j) /\ ~\E k \in (j + 1)..(i - 1) : Closes(k))

(* When its stdin closes the bridge answers what it has read, closes the   *)
(* device and ends.                                                        *)
EofEndsBridge == ~stdinOpen ~> bpc = "gone" /\ held = 0
=============================================================================
