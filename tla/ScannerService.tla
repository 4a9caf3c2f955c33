-------------------------- MODULE ScannerService --------------------------
(***************************************************************************)
(* What the Node.js addon promises its callers, whatever the threads, the  *)
(* locks and the vendor libraries behind it do: one scanner is connected   *)
(* or none is, and every call takes its effect at one instant between its  *)
(* invocation and its answer.                                              *)
(***************************************************************************)
CONSTANT Callers        \* the promises a JavaScript program can have in flight

VARIABLES
  connected,            \* is a scanner installed?
  pending,              \* [Callers -> the operation invoked and not answered, or "none"]
  answer                \* [Callers -> the last answer]

vars == <<connected, pending, answer>>

Ops == {"init", "use", "disconnect", "status"}

(* A vendor operation may also fail, or panic, without any effect.         *)
Answers(o) ==
  CASE o = "init"       -> {"ok", "exists", "unsupported", "failed", "panicked"}
    [] o = "use"        -> {"ok", "not_initialized", "failed", "panicked"}
    [] o = "disconnect" -> {"ok"}
    [] o = "status"     -> {"connected", "disconnected"}

TypeOK ==
  /\ connected \in BOOLEAN
  /\ pending \in [Callers -> Ops \cup {"none"}]
  /\ answer \in [Callers -> UNION {Answers(o) : o \in Ops} \cup {"none"}]

Init ==
  /\ connected = FALSE
  /\ pending = [c \in Callers |-> "none"]
  /\ answer = [c \in Callers |-> "none"]

Invoke(c, o) ==
  /\ pending[c] = "none"
  /\ pending' = [pending EXCEPT ![c] = o]
  /\ UNCHANGED <<connected, answer>>

Reply(c, o, a) ==
  /\ pending[c] = o
  /\ pending' = [pending EXCEPT ![c] = "none"]
  /\ answer' = [answer EXCEPT ![c] = a]

Initialise(c) ==
  \/ ~connected /\ connected' = TRUE /\ Reply(c, "init", "ok")
  \/ connected /\ Reply(c, "init", "exists") /\ UNCHANGED connected
  \/ /\ \E a \in {"unsupported", "failed", "panicked"} : Reply(c, "init", a)
     /\ UNCHANGED connected

Use(c) ==
  /\ IF connected
       THEN \E a \in {"ok", "failed", "panicked"} : Reply(c, "use", a)
       ELSE Reply(c, "use", "not_initialized")
  /\ UNCHANGED connected

Disconnect(c) == connected' = FALSE /\ Reply(c, "disconnect", "ok")

Status(c) ==
  /\ Reply(c, "status", IF connected THEN "connected" ELSE "disconnected")
  /\ UNCHANGED connected

Respond(c) == Initialise(c) \/ Use(c) \/ Disconnect(c) \/ Status(c)

Next == \E c \in Callers : Respond(c) \/ \E o \in Ops : Invoke(c, o)

(* No call is answered in a way the promise does not allow ...             *)
Atomic == Init /\ [][Next]_vars

(* ... and each is answered.                                               *)
Spec == Atomic /\ \A c \in Callers : WF_vars(Respond(c))
=============================================================================
