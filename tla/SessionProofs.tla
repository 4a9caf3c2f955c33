--------------------------- MODULE SessionProofs ---------------------------
(***************************************************************************)
(* Proofs about Session, for any number of callers, scanner objects,       *)
(* workers and threads.                                                    *)
(*                                                                         *)
(* The inductive invariant is the conjunction of the checked invariants:   *)
(* who owns a scanner (SingleOwner) depends on the slot changing only      *)
(* under the lock (LockDiscipline), and a running operation keeps its      *)
(* scanner (NoUseAfterDisconnect) because only the lock's holder can take  *)
(* or drop the installed one.  With it, each step is a step of             *)
(* ScannerService, or changes nothing that a caller can tell.              *)
(***************************************************************************)
EXTENDS Session, TLAPS

IInv == TypeOK /\ LockDiscipline /\ SingleOwner /\ NoUseAfterDisconnect

(* Every state of the session is well typed initially.                     *)
LEMMA InitTypeOK == Init => TypeOK
BY SessionAssumption DEF Init, TypeOK, DevStates, PCs, Ops, Answers, OnBlockingThread

(* No step of a caller, of JavaScript or of the device leaves the types.   *)
LEMMA NextTypeOK == TypeOK /\ [Next]_vars => TypeOK'
<1> SUFFICES ASSUME TypeOK, [Next]_vars PROVE TypeOK'
  OBVIOUS
<1> USE SessionAssumption DEF TypeOK, Goto, Finish, DropMine, DevStates, PCs, Ops,
        Answers, OnBlockingThread
<1>1. ASSUME NEW c \in Callers, NEW o \in Ops, Call(c, o) PROVE TypeOK'
  BY <1>1 DEF Call
<1>2. ASSUME NEW c \in Callers, Poll(c) PROVE TypeOK'
  BY <1>2 DEF Poll
<1>3. ASSUME NEW c \in Callers, StartBlocking(c) PROVE TypeOK'
  BY <1>3 DEF StartBlocking
<1>4. ASSUME NEW c \in Callers, Resume(c) PROVE TypeOK'
  BY <1>4 DEF Resume
<1>5. ASSUME NEW c \in Callers, GetStatus(c) PROVE TypeOK'
  BY <1>5 DEF GetStatus
<1>6. ASSUME NEW c \in Callers, InitCheck(c) PROVE TypeOK'
  BY <1>6 DEF InitCheck
<1>7. ASSUME NEW c \in Callers, InitCreate(c) PROVE TypeOK'
  BY <1>7 DEF InitCreate
<1>8. ASSUME NEW c \in Callers, InitSpawn(c) PROVE TypeOK'
  BY <1>8 DEF InitSpawn
<1>9. ASSUME NEW c \in Callers, InitOpen(c) PROVE TypeOK'
  BY <1>9 DEF InitOpen
<1>10. ASSUME NEW c \in Callers, InitInstall(c) PROVE TypeOK'
  BY <1>10 DEF InitInstall
<1>11. ASSUME NEW c \in Callers, InitDiscard(c) PROVE TypeOK'
  BY <1>11 DEF InitDiscard
<1>12. ASSUME NEW c \in Callers, UseLock(c) PROVE TypeOK'
  BY <1>12 DEF UseLock
<1>13. ASSUME NEW c \in Callers, UseFinish(c) PROVE TypeOK'
  BY <1>13 DEF UseFinish
<1>14. ASSUME NEW c \in Callers, DisconnectTake(c) PROVE TypeOK'
  BY <1>14 DEF DisconnectTake
<1>15. ASSUME NEW c \in Callers, DisconnectClose(c) PROVE TypeOK'
  BY <1>15 DEF DisconnectClose
<1>16. ASSUME NEW s \in Scanners, Die(s) PROVE TypeOK'
  BY <1>16 DEF Die
<1>17. CASE UNCHANGED vars
  BY <1>17 DEF vars
<1> HIDE DEF TypeOK, Goto, Finish, DropMine, DevStates, PCs, Answers, OnBlockingThread
<1> QED
  BY <1>1, <1>2, <1>3, <1>4, <1>5, <1>6, <1>7, <1>8, <1>9, <1>10, <1>11, <1>12,
     <1>13, <1>14, <1>15, <1>16, <1>17 DEF Next, Step, AllAnswered

(* Type correctness of the session.                                        *)
THEOREM SessionTypes == Spec => []TypeOK
BY InitTypeOK, NextTypeOK, PTL DEF Spec
(* The lock is taken by exactly the steps that enter a vendor call under   *)
(* it, and freed by the steps that leave one.                              *)
LEMMA NextLockDiscipline == IInv /\ [Next]_vars => LockDiscipline'
<1> SUFFICES ASSUME IInv, [Next]_vars PROVE LockDiscipline'
  OBVIOUS
<1>0. TypeOK'
  BY NextTypeOK DEF IInv
<1> USE SessionAssumption DEF IInv, TypeOK, LockDiscipline, SingleOwner, NoUseAfterDisconnect,
        Holds, OwnsScanner, LockFree, Goto, Finish, DropMine, DevStates, PCs, Ops, Answers,
        OnBlockingThread
<1>1. ASSUME NEW c \in Callers, NEW o \in Ops, Call(c, o) PROVE LockDiscipline'
  BY <1>0, <1>1 DEF Call
<1>2. ASSUME NEW c \in Callers, Poll(c) PROVE LockDiscipline'
  BY <1>0, <1>2 DEF Poll
<1>3. ASSUME NEW c \in Callers, StartBlocking(c) PROVE LockDiscipline'
  BY <1>0, <1>3 DEF StartBlocking
<1>4. ASSUME NEW c \in Callers, Resume(c) PROVE LockDiscipline'
  BY <1>0, <1>4 DEF Resume
<1>5. ASSUME NEW c \in Callers, GetStatus(c) PROVE LockDiscipline'
  BY <1>0, <1>5 DEF GetStatus
<1>6. ASSUME NEW c \in Callers, InitCheck(c) PROVE LockDiscipline'
  BY <1>0, <1>6 DEF InitCheck
<1>7. ASSUME NEW c \in Callers, InitCreate(c) PROVE LockDiscipline'
  BY <1>0, <1>7 DEF InitCreate
<1>8. ASSUME NEW c \in Callers, InitSpawn(c) PROVE LockDiscipline'
  BY <1>0, <1>8 DEF InitSpawn
<1>9. ASSUME NEW c \in Callers, InitOpen(c) PROVE LockDiscipline'
  BY <1>0, <1>9 DEF InitOpen
<1>10. ASSUME NEW c \in Callers, InitInstall(c) PROVE LockDiscipline'
  BY <1>0, <1>10 DEF InitInstall
<1>11. ASSUME NEW c \in Callers, InitDiscard(c) PROVE LockDiscipline'
  BY <1>0, <1>11 DEF InitDiscard
<1>12. ASSUME NEW c \in Callers, UseLock(c) PROVE LockDiscipline'
  BY <1>0, <1>12 DEF UseLock
<1>13. ASSUME NEW c \in Callers, UseFinish(c) PROVE LockDiscipline'
  BY <1>0, <1>13 DEF UseFinish
<1>14. ASSUME NEW c \in Callers, DisconnectTake(c) PROVE LockDiscipline'
  BY <1>0, <1>14 DEF DisconnectTake
<1>15. ASSUME NEW c \in Callers, DisconnectClose(c) PROVE LockDiscipline'
  BY <1>0, <1>15 DEF DisconnectClose
<1>16. ASSUME NEW s \in Scanners, Die(s) PROVE LockDiscipline'
  BY <1>0, <1>16 DEF Die
<1>17. CASE UNCHANGED vars
  BY <1>17 DEF vars
<1> HIDE DEF IInv, TypeOK, LockDiscipline, SingleOwner, NoUseAfterDisconnect,
         Holds, OwnsScanner, LockFree, Goto, Finish, DropMine, DevStates, PCs, Answers,
         OnBlockingThread
<1> QED
  BY <1>1, <1>2, <1>3, <1>4, <1>5, <1>6, <1>7, <1>8, <1>9, <1>10,
     <1>11, <1>12, <1>13, <1>14, <1>15, <1>16, <1>17 DEF Next, Step, AllAnswered

(* Ownership of scanner objects moves between the slot and one frame.      *)
LEMMA NextSingleOwner == IInv /\ [Next]_vars => SingleOwner'
<1> SUFFICES ASSUME IInv, [Next]_vars PROVE SingleOwner'
  OBVIOUS
<1>0. TypeOK'
  BY NextTypeOK DEF IInv
<1> USE SessionAssumption DEF IInv, TypeOK, LockDiscipline, SingleOwner, NoUseAfterDisconnect,
        Holds, OwnsScanner, LockFree, Goto, Finish, DropMine, DevStates, PCs, Ops, Answers,
        OnBlockingThread
<1>1. ASSUME NEW c \in Callers, NEW o \in Ops, Call(c, o) PROVE SingleOwner'
  BY <1>0, <1>1 DEF Call
<1>2. ASSUME NEW c \in Callers, Poll(c) PROVE SingleOwner'
  BY <1>0, <1>2 DEF Poll
<1>3. ASSUME NEW c \in Callers, StartBlocking(c) PROVE SingleOwner'
  BY <1>0, <1>3 DEF StartBlocking
<1>4. ASSUME NEW c \in Callers, Resume(c) PROVE SingleOwner'
  BY <1>0, <1>4 DEF Resume
<1>5. ASSUME NEW c \in Callers, GetStatus(c) PROVE SingleOwner'
  BY <1>0, <1>5 DEF GetStatus
<1>6. ASSUME NEW c \in Callers, InitCheck(c) PROVE SingleOwner'
  BY <1>0, <1>6 DEF InitCheck
<1>7. ASSUME NEW c \in Callers, InitCreate(c) PROVE SingleOwner'
  BY <1>0, <1>7 DEF InitCreate
<1>8. ASSUME NEW c \in Callers, InitSpawn(c) PROVE SingleOwner'
  BY <1>0, <1>8 DEF InitSpawn
<1>9. ASSUME NEW c \in Callers, InitOpen(c) PROVE SingleOwner'
  BY <1>0, <1>9 DEF InitOpen
<1>10. ASSUME NEW c \in Callers, InitInstall(c) PROVE SingleOwner'
  BY <1>0, <1>10 DEF InitInstall
<1>11. ASSUME NEW c \in Callers, InitDiscard(c) PROVE SingleOwner'
  BY <1>0, <1>11 DEF InitDiscard
<1>12. ASSUME NEW c \in Callers, UseLock(c) PROVE SingleOwner'
  BY <1>0, <1>12 DEF UseLock
<1>13. ASSUME NEW c \in Callers, UseFinish(c) PROVE SingleOwner'
  BY <1>0, <1>13 DEF UseFinish
<1>14. ASSUME NEW c \in Callers, DisconnectTake(c) PROVE SingleOwner'
  BY <1>0, <1>14 DEF DisconnectTake
<1>15. ASSUME NEW c \in Callers, DisconnectClose(c) PROVE SingleOwner'
  BY <1>0, <1>15 DEF DisconnectClose
<1>16. ASSUME NEW s \in Scanners, Die(s) PROVE SingleOwner'
  BY <1>0, <1>16 DEF Die
<1>17. CASE UNCHANGED vars
  BY <1>17 DEF vars
<1> HIDE DEF IInv, TypeOK, LockDiscipline, SingleOwner, NoUseAfterDisconnect,
         Holds, OwnsScanner, LockFree, Goto, Finish, DropMine, DevStates, PCs, Answers,
         OnBlockingThread
<1> QED
  BY <1>1, <1>2, <1>3, <1>4, <1>5, <1>6, <1>7, <1>8, <1>9, <1>10,
     <1>11, <1>12, <1>13, <1>14, <1>15, <1>16, <1>17 DEF Next, Step, AllAnswered

(* Only the lock's holder changes the slot or drops an installed scanner.  *)
LEMMA NextNoUseAfterDisconnect == IInv /\ [Next]_vars => NoUseAfterDisconnect'
<1> SUFFICES ASSUME IInv, [Next]_vars PROVE NoUseAfterDisconnect'
  OBVIOUS
<1>0. TypeOK'
  BY NextTypeOK DEF IInv
<1> USE SessionAssumption DEF IInv, TypeOK, LockDiscipline, SingleOwner, NoUseAfterDisconnect,
        Holds, OwnsScanner, LockFree, Goto, Finish, DropMine, DevStates, PCs, Ops, Answers,
        OnBlockingThread
<1>1. ASSUME NEW c \in Callers, NEW o \in Ops, Call(c, o) PROVE NoUseAfterDisconnect'
  BY <1>0, <1>1 DEF Call
<1>2. ASSUME NEW c \in Callers, Poll(c) PROVE NoUseAfterDisconnect'
  BY <1>0, <1>2 DEF Poll
<1>3. ASSUME NEW c \in Callers, StartBlocking(c) PROVE NoUseAfterDisconnect'
  BY <1>0, <1>3 DEF StartBlocking
<1>4. ASSUME NEW c \in Callers, Resume(c) PROVE NoUseAfterDisconnect'
  BY <1>0, <1>4 DEF Resume
<1>5. ASSUME NEW c \in Callers, GetStatus(c) PROVE NoUseAfterDisconnect'
  BY <1>0, <1>5 DEF GetStatus
<1>6. ASSUME NEW c \in Callers, InitCheck(c) PROVE NoUseAfterDisconnect'
  BY <1>0, <1>6 DEF InitCheck
<1>7. ASSUME NEW c \in Callers, InitCreate(c) PROVE NoUseAfterDisconnect'
  BY <1>0, <1>7 DEF InitCreate
<1>8. ASSUME NEW c \in Callers, InitSpawn(c) PROVE NoUseAfterDisconnect'
  BY <1>0, <1>8 DEF InitSpawn
<1>9. ASSUME NEW c \in Callers, InitOpen(c) PROVE NoUseAfterDisconnect'
  <2>1. slot' = slot /\ mine[c] \in Scanners /\ mine[c] # slot
    BY <1>9 DEF InitOpen
  <2>2. \A d \in Callers : pc'[d] = "use_run" => pc[d] = "use_run"
    BY <1>9 DEF InitOpen
  <2>3. \A s \in Scanners : s # mine[c] => dev'[s] = dev[s]
    BY <1>9 DEF InitOpen
  <2>4. \A d \in Callers : pc'[d] = "init_install" => dev'[mine'[d]] \in {"ready", "dead"}
    <3> SUFFICES ASSUME NEW d \in Callers, pc'[d] = "init_install"
                 PROVE  dev'[mine'[d]] \in {"ready", "dead"}
      OBVIOUS
    <3>1. CASE d = c
      BY <1>9, <3>1 DEF InitOpen
    <3>2. CASE d # c
      <4>1. pc[d] = "init_install" /\ mine'[d] = mine[d]
        BY <1>9, <3>2 DEF InitOpen
      <4>2. mine[d] \in Scanners /\ mine[d] # mine[c] /\ dev[mine[d]] \in {"ready", "dead"}
        BY <1>9, <3>2, <4>1 DEF InitOpen
      <4> QED
        BY <2>3, <4>1, <4>2
    <3> QED
      BY <3>1, <3>2
  <2>5. slot # NoScanner => dev'[slot] \in {"ready", "dead"}
    BY <2>1, <2>3
  <2> QED
    BY <2>1, <2>2, <2>4, <2>5
<1>10. ASSUME NEW c \in Callers, InitInstall(c) PROVE NoUseAfterDisconnect'
  BY <1>0, <1>10 DEF InitInstall
<1>11. ASSUME NEW c \in Callers, InitDiscard(c) PROVE NoUseAfterDisconnect'
  BY <1>0, <1>11 DEF InitDiscard
<1>12. ASSUME NEW c \in Callers, UseLock(c) PROVE NoUseAfterDisconnect'
  BY <1>0, <1>12 DEF UseLock
<1>13. ASSUME NEW c \in Callers, UseFinish(c) PROVE NoUseAfterDisconnect'
  BY <1>0, <1>13 DEF UseFinish
<1>14. ASSUME NEW c \in Callers, DisconnectTake(c) PROVE NoUseAfterDisconnect'
  BY <1>0, <1>14 DEF DisconnectTake
<1>15. ASSUME NEW c \in Callers, DisconnectClose(c) PROVE NoUseAfterDisconnect'
  BY <1>0, <1>15 DEF DisconnectClose
<1>16. ASSUME NEW s \in Scanners, Die(s) PROVE NoUseAfterDisconnect'
  BY <1>0, <1>16 DEF Die
<1>17. CASE UNCHANGED vars
  BY <1>17 DEF vars
<1> HIDE DEF IInv, TypeOK, LockDiscipline, SingleOwner, NoUseAfterDisconnect,
         Holds, OwnsScanner, LockFree, Goto, Finish, DropMine, DevStates, PCs, Answers,
         OnBlockingThread
<1> QED
  BY <1>1, <1>2, <1>3, <1>4, <1>5, <1>6, <1>7, <1>8, <1>9, <1>10,
     <1>11, <1>12, <1>13, <1>14, <1>15, <1>16, <1>17 DEF Next, Step, AllAnswered

(* The mutex excludes, every scanner object has one owner, and no          *)
(* operation runs on a scanner that another call has disconnected.         *)
THEOREM SessionSafety ==
  Spec => [](LockDiscipline /\ SingleOwner /\ NoUseAfterDisconnect)
<1>1. Init => IInv
  BY InitTypeOK, SessionAssumption
  DEF Init, IInv, LockDiscipline, SingleOwner, NoUseAfterDisconnect, Holds, OwnsScanner
<1>2. IInv /\ [Next]_vars => IInv'
  BY NextTypeOK, NextLockDiscipline, NextSingleOwner, NextNoUseAfterDisconnect DEF IInv
<1>3. IInv => LockDiscipline /\ SingleOwner /\ NoUseAfterDisconnect
  BY DEF IInv
<1> QED
  BY <1>1, <1>2, <1>3, PTL DEF Spec

(* The mutex is held exactly by the call that is inside a vendor call made *)
(* under it, which is never one that has already answered.                 *)
THEOREM SessionLockDiscipline == Spec => []LockDiscipline
BY SessionSafety, PTL

(* No operation runs on a scanner that another call has disconnected.      *)
THEOREM SessionNoUseAfterDisconnect == Spec => []NoUseAfterDisconnect
BY SessionSafety, PTL

(* An installed scanner leaves the slot only through a disconnect.  With   *)
(* the invariants: a call that finds the slot occupied after its own       *)
(* hardware init discards its own scanner and touches nothing else.        *)
THEOREM SessionNeverOverwrites == Spec => NeverOverwritten
<1>1. ASSUME [Next]_vars
      PROVE  [slot # NoScanner =>
               \/ slot' = slot
               \/ slot' = NoScanner /\ \E c \in Callers : DisconnectTake(c)]_vars
  <2>1. CASE UNCHANGED vars
    BY <2>1
  <2>2. ASSUME NEW c \in Callers, Step(c), slot # NoScanner, slot' # slot
        PROVE  slot' = NoScanner /\ DisconnectTake(c)
    BY <2>2 DEF Step, Poll, StartBlocking, Resume, GetStatus, InitCheck, InitCreate,
       InitSpawn, InitOpen, InitInstall, InitDiscard, UseLock, UseFinish,
       DisconnectTake, DisconnectClose
  <2>3. ASSUME NEW c \in Callers, NEW o \in Ops, Call(c, o) PROVE slot' = slot
    BY <2>3 DEF Call
  <2>4. ASSUME NEW s \in Scanners, Die(s) PROVE slot' = slot
    BY <2>4 DEF Die
  <2> QED
    BY <1>1, <2>1, <2>2, <2>3, <2>4 DEF Next, AllAnswered, vars
<1> QED
  BY <1>1, PTL DEF Spec, NeverOverwritten

-----------------------------------------------------------------------------
(* Session implements ScannerService.  What the abstract steps need beyond *)
(* the invariant: a call runs the code of its operation, the branch of     *)
(* init that discards still sees its rival installed, and the slot stays   *)
(* empty until a disconnect has closed the scanner it took.                *)
CallMatches ==
  \A c \in Callers :
    /\ pc[c] = "status_lock" => op[c] = "status"
    /\ pc[c] = "spawned" => op[c] # "status"
    /\ pc[c] \in {"init_check", "init_create", "init_spawn", "init_open", "init_install",
                  "init_discard"} => op[c] = "init"
    /\ pc[c] \in {"use_lock", "use_run"} => op[c] = "use"
    /\ pc[c] \in {"disc_lock", "disc_run"} => op[c] = "disconnect"
    /\ pc[c] = "init_discard" => slot # NoScanner
    /\ pc[c] = "disc_run" => slot = NoScanner

Connected == slot # NoScanner \/ \E c \in Callers : pc[c] = "disc_run"
Unanswered == [c \in Callers |-> IF pc[c] \in {"idle", "joining"} THEN "none" ELSE op[c]]

LEMMA ServiceInit == Init => Service!Init
BY DEF Init, Service!Init

(* A call that returns answers in the abstract service.                    *)
LEMMA ServiceReplies ==
  ASSUME TypeOK, NEW c \in Callers, NEW a, NEW l \in {"idle", "joining"},
         pc[c] \notin {"idle", "joining"},
         pc' = [pc EXCEPT ![c] = l], ret' = [ret EXCEPT ![c] = a], UNCHANGED op
  PROVE  Service!Reply(c, op[c], a)
BY DEF TypeOK, Service!Reply

(* A call keeps its operation to its end, and nobody but the lock's holder *)
(* touches the slot while a rival is discarded or a scanner is closed.     *)
LEMMA NextCallMatches == IInv /\ CallMatches /\ [Next]_vars => CallMatches'
<1> SUFFICES ASSUME IInv, CallMatches, [Next]_vars PROVE CallMatches'
  OBVIOUS
<1>0. TypeOK /\ LockDiscipline
  BY DEF IInv
<1> USE SessionAssumption DEF TypeOK, LockDiscipline, CallMatches, Holds, LockFree, Goto,
        Finish, DropMine, Ops
<1>1. ASSUME NEW c \in Callers, NEW o \in Ops, Call(c, o) PROVE CallMatches'
  BY <1>0, <1>1 DEF Call
<1>2. ASSUME NEW c \in Callers, Poll(c) PROVE CallMatches'
  BY <1>0, <1>2 DEF Poll
<1>3. ASSUME NEW c \in Callers, StartBlocking(c) PROVE CallMatches'
  BY <1>0, <1>3 DEF StartBlocking
<1>4. ASSUME NEW c \in Callers, Resume(c) PROVE CallMatches'
  BY <1>0, <1>4 DEF Resume
<1>5. ASSUME NEW c \in Callers, GetStatus(c) PROVE CallMatches'
  BY <1>0, <1>5 DEF GetStatus
<1>6. ASSUME NEW c \in Callers, InitCheck(c) PROVE CallMatches'
  BY <1>0, <1>6 DEF InitCheck
<1>7. ASSUME NEW c \in Callers, InitCreate(c) PROVE CallMatches'
  BY <1>0, <1>7 DEF InitCreate
<1>8. ASSUME NEW c \in Callers, InitSpawn(c) PROVE CallMatches'
  BY <1>0, <1>8 DEF InitSpawn
<1>9. ASSUME NEW c \in Callers, InitOpen(c) PROVE CallMatches'
  BY <1>0, <1>9 DEF InitOpen
<1>10. ASSUME NEW c \in Callers, InitInstall(c) PROVE CallMatches'
  BY <1>0, <1>10 DEF InitInstall
<1>11. ASSUME NEW c \in Callers, InitDiscard(c) PROVE CallMatches'
  BY <1>0, <1>11 DEF InitDiscard
<1>12. ASSUME NEW c \in Callers, UseLock(c) PROVE CallMatches'
  BY <1>0, <1>12 DEF UseLock
<1>13. ASSUME NEW c \in Callers, UseFinish(c) PROVE CallMatches'
  BY <1>0, <1>13 DEF UseFinish
<1>14. ASSUME NEW c \in Callers, DisconnectTake(c) PROVE CallMatches'
  BY <1>0, <1>14 DEF DisconnectTake
<1>15. ASSUME NEW c \in Callers, DisconnectClose(c) PROVE CallMatches'
  BY <1>0, <1>15 DEF DisconnectClose
<1>16. ASSUME NEW s \in Scanners, Die(s) PROVE CallMatches'
  BY <1>0, <1>16 DEF Die
<1>17. CASE UNCHANGED vars
  BY <1>17 DEF vars
<1> HIDE DEF TypeOK, LockDiscipline, CallMatches, Holds, LockFree, Goto, Finish, DropMine
<1> QED
  BY <1>1, <1>2, <1>3, <1>4, <1>5, <1>6, <1>7, <1>8, <1>9, <1>10, <1>11, <1>12,
     <1>13, <1>14, <1>15, <1>16, <1>17 DEF Next, Step, AllAnswered

(* A step that neither changes who is connected, nor answers, nor invokes, *)
(* is no step of the service.                                              *)
LEMMA ServiceStutters ==
  ASSUME TypeOK, UNCHANGED <<ret, op>>, Connected' = Connected, pc' \in [Callers -> PCs],
         \A d \in Callers : pc'[d] \in {"idle", "joining"} <=> pc[d] \in {"idle", "joining"}
  PROVE  UNCHANGED Service!vars
BY DEF TypeOK, Connected, Service!vars

(* While nobody closes a scanner, connected means installed.               *)
LEMMA ConnectedInstalled ==
  ASSUME LockDiscipline, CallMatches, NEW c \in Callers, LockFree \/ Holds(c), pc[c] # "disc_run"
  PROVE  Connected <=> slot # NoScanner
BY SessionAssumption DEF LockDiscipline, LockFree, Holds, Connected

(* Steps of a call that keep the slot, and neither begin nor end a close.  *)
LEMMA ConnectedKept ==
  ASSUME TypeOK, NEW c \in Callers, NEW l, pc[c] # "disc_run", l # "disc_run",
         pc' = [pc EXCEPT ![c] = l], UNCHANGED slot
  PROVE  Connected' = Connected
BY DEF TypeOK, Connected

(* Every step of the session is a step of the service, or none.            *)
LEMMA ServiceStep ==
  IInv /\ CallMatches /\ [Next]_vars => [Service!Next]_(Service!vars)
<1> SUFFICES ASSUME IInv, CallMatches, [Next]_vars
             PROVE  Service!Next \/ UNCHANGED Service!vars
  OBVIOUS
<1>0. TypeOK /\ LockDiscipline /\ TypeOK' /\ pc' \in [Callers -> PCs]
  <2>1. TypeOK /\ LockDiscipline /\ TypeOK'
    BY NextTypeOK DEF IInv
  <2> QED
    BY <2>1 DEF TypeOK
(* what JavaScript and the executor do *)
<1>1. ASSUME NEW c \in Callers, NEW o \in Ops, Call(c, o) PROVE Service!Invoke(c, o)
  BY <1>0, <1>1 DEF Call, Goto, TypeOK, Service!Invoke
<1>2. ASSUME NEW c \in Callers, Poll(c) \/ StartBlocking(c) \/ Resume(c)
      PROVE  UNCHANGED Service!vars
  <2>1. PICK l \in PCs \ {"disc_run"} :
          /\ pc' = [pc EXCEPT ![c] = l]
          /\ l \in {"idle", "joining"} <=> pc[c] \in {"idle", "joining"}
          /\ pc[c] # "disc_run" /\ UNCHANGED <<slot, ret, op>>
    <3>1. CASE Poll(c)
      BY <1>0, <3>1 DEF Poll, Goto, PCs
    <3>2. CASE StartBlocking(c)
      <4> DEFINE l == CASE op[c] = "init" -> "init_check" [] op[c] = "use" -> "use_lock"
                        [] OTHER -> "disc_lock"
      <4>1. l \in {"init_check", "use_lock", "disc_lock"}
        BY Zenon
      <4>2. pc[c] = "spawned" /\ pc' = [pc EXCEPT ![c] = l] /\ UNCHANGED <<slot, ret, op>>
        BY <3>2, Zenon DEF StartBlocking, Goto
      <4> HIDE DEF l
      <4> QED
        BY <4>1, <4>2 DEF PCs, OnBlockingThread
    <3>3. CASE Resume(c)
      BY <1>0, <3>3 DEF Resume, Goto, PCs
    <3> QED
      BY <1>2, <3>1, <3>2, <3>3
  <2>2. Connected' = Connected
    BY <1>0, <2>1, ConnectedKept
  <2>3. \A d \in Callers : pc'[d] \in {"idle", "joining"} <=> pc[d] \in {"idle", "joining"}
    BY <1>0, <2>1 DEF TypeOK
  <2> QED
    BY <1>0, <2>1, <2>2, <2>3, ServiceStutters
<1>3. ASSUME NEW s \in Scanners, Die(s) PROVE UNCHANGED Service!vars
  <2>1. UNCHANGED <<slot, pc, op, ret>>
    BY <1>3 DEF Die
  <2>2. Connected' = Connected
    BY <2>1 DEF Connected
  <2> QED
    BY <1>0, <2>1, <2>2, ServiceStutters
(* status and use look at the slot under the lock *)
<1>4. ASSUME NEW c \in Callers, GetStatus(c) PROVE Service!Status(c)
  <2>1. pc[c] = "status_lock" /\ op[c] = "status" /\ LockFree /\ UNCHANGED <<slot, op>>
    BY <1>4 DEF GetStatus, CallMatches
  <2>2. Connected' = Connected
    BY <1>0, <1>4, <2>1, ConnectedKept DEF GetStatus
  <2>3. Connected <=> slot # NoScanner
    BY <1>0, <2>1, ConnectedInstalled
  <2>4. CASE slot # NoScanner
    <3>1. ret' = [ret EXCEPT ![c] = "connected"] /\ pc' = [pc EXCEPT ![c] = "idle"]
      BY <1>4, <2>4 DEF GetStatus
    <3>2. Service!Reply(c, "status", "connected")
      BY <1>0, <2>1, <3>1, ServiceReplies
    <3> QED
      BY <2>2, <2>3, <2>4, <3>2 DEF Service!Status, Service!Reply, Connected
  <2>5. CASE slot = NoScanner
    <3>1. ret' = [ret EXCEPT ![c] = "disconnected"] /\ pc' = [pc EXCEPT ![c] = "idle"]
      BY <1>4, <2>5 DEF GetStatus
    <3>2. Service!Reply(c, "status", "disconnected")
      BY <1>0, <2>1, <3>1, ServiceReplies
    <3> QED
      BY <2>2, <2>3, <2>5, <3>2 DEF Service!Status, Service!Reply, Connected
  <2> QED
    BY <2>4, <2>5
<1>5. ASSUME NEW c \in Callers, UseLock(c) PROVE Service!Use(c) \/ UNCHANGED Service!vars
  <2>1. pc[c] = "use_lock" /\ op[c] = "use" /\ LockFree /\ UNCHANGED <<slot, op>>
    BY <1>5 DEF UseLock, CallMatches
  <2>2. Connected <=> slot # NoScanner
    BY <1>0, <2>1, ConnectedInstalled
  <2>3. CASE slot = NoScanner
    <3>1. Service!Reply(c, "use", "not_initialized")
      BY <1>0, <1>5, <2>1, <2>3, ServiceReplies DEF UseLock, Finish
    <3>2. Connected' = Connected
      BY <1>0, <1>5, <2>1, <2>3, ConnectedKept DEF UseLock, Finish
    <3> QED
      BY <2>2, <2>3, <3>1, <3>2 DEF Service!Use, Connected
  <2>4. CASE slot # NoScanner
    <3>1. pc' = [pc EXCEPT ![c] = "use_run"] /\ UNCHANGED ret
      BY <1>5, <2>4 DEF UseLock, Goto
    <3>2. Connected' = Connected
      BY <1>0, <2>1, <3>1, ConnectedKept
    <3>3. \A d \in Callers : pc'[d] \in {"idle", "joining"} <=> pc[d] \in {"idle", "joining"}
      BY <1>0, <2>1, <3>1 DEF TypeOK
    <3> QED
      BY <1>0, <2>1, <3>1, <3>2, <3>3, ServiceStutters
  <2> QED
    BY <2>3, <2>4
<1>6. ASSUME NEW c \in Callers, UseFinish(c) PROVE Service!Use(c)
  <2>1. pc[c] = "use_run" /\ op[c] = "use" /\ Holds(c) /\ UNCHANGED <<slot, op>>
    BY <1>6 DEF UseFinish, CallMatches, Holds
  <2>2. PICK a \in {"ok", "failed", "panicked"} : Finish(c, a)
    BY <1>6 DEF UseFinish
  <2>3. Service!Reply(c, "use", a)
    BY <1>0, <2>1, <2>2, ServiceReplies DEF Finish
  <2>4. Connected' = Connected
    BY <1>0, <2>1, <2>2, ConnectedKept DEF Finish
  <2>5. slot # NoScanner
    BY <2>1 DEF IInv, NoUseAfterDisconnect
  <2> QED
    BY <2>3, <2>4, <2>5 DEF Service!Use, Connected
(* init answers where it fails, where it finds a rival, or where it installs *)
<1>7. ASSUME NEW c \in Callers, InitCheck(c)
      PROVE  Service!Initialise(c) \/ UNCHANGED Service!vars
  <2>1. pc[c] = "init_check" /\ op[c] = "init" /\ LockFree /\ UNCHANGED <<slot, op>>
    BY <1>7 DEF InitCheck, CallMatches
  <2>2. CASE slot # NoScanner
    <3>1. Service!Reply(c, "init", "exists")
      BY <1>0, <1>7, <2>1, <2>2, ServiceReplies DEF InitCheck, Finish
    <3>2. Connected' = Connected
      BY <1>0, <1>7, <2>1, <2>2, ConnectedKept DEF InitCheck, Finish
    <3> QED
      BY <2>2, <3>1, <3>2 DEF Service!Initialise, Connected
  <2>3. CASE slot = NoScanner
    <3>1. pc' = [pc EXCEPT ![c] = "init_create"] /\ UNCHANGED ret
      BY <1>7, <2>3 DEF InitCheck, Goto
    <3>2. Connected' = Connected
      BY <1>0, <2>1, <3>1, ConnectedKept
    <3>3. \A d \in Callers : pc'[d] \in {"idle", "joining"} <=> pc[d] \in {"idle", "joining"}
      BY <1>0, <2>1, <3>1 DEF TypeOK
    <3> QED
      BY <1>0, <2>1, <3>1, <3>2, <3>3, ServiceStutters
  <2> QED
    BY <2>2, <2>3
<1>8. ASSUME NEW c \in Callers, InitCreate(c) \/ InitSpawn(c) \/ InitOpen(c)
      PROVE  Service!Initialise(c) \/ UNCHANGED Service!vars
  <2>1. /\ pc[c] \in {"init_create", "init_spawn", "init_open"} /\ op[c] = "init"
        /\ UNCHANGED <<slot, op>>
    BY <1>8 DEF InitCreate, InitSpawn, InitOpen, CallMatches
  <2>2. \/ \E a \in {"unsupported", "failed", "panicked"} : Finish(c, a)
        \/ \E l \in {"init_spawn", "init_open", "init_install"} : Goto(c, l)
    BY <1>8 DEF InitCreate, InitSpawn, InitOpen
  <2>3. ASSUME NEW a \in {"unsupported", "failed", "panicked"}, Finish(c, a)
        PROVE  Service!Initialise(c)
    <3>1. Service!Reply(c, "init", a)
      BY <1>0, <2>1, <2>3, ServiceReplies DEF Finish
    <3>2. Connected' = Connected
      BY <1>0, <2>1, <2>3, ConnectedKept DEF Finish
    <3> QED
      BY <3>1, <3>2 DEF Service!Initialise, Connected
  <2>4. ASSUME NEW l \in {"init_spawn", "init_open", "init_install"}, Goto(c, l)
        PROVE  UNCHANGED Service!vars
    <3>1. pc' = [pc EXCEPT ![c] = l] /\ UNCHANGED ret
      BY <2>4 DEF Goto
    <3>2. Connected' = Connected
      BY <1>0, <2>1, <3>1, ConnectedKept
    <3>3. \A d \in Callers : pc'[d] \in {"idle", "joining"} <=> pc[d] \in {"idle", "joining"}
      BY <1>0, <2>1, <3>1 DEF TypeOK
    <3> QED
      BY <1>0, <2>1, <3>1, <3>2, <3>3, ServiceStutters
  <2> QED
    BY <2>2, <2>3, <2>4
<1>9. ASSUME NEW c \in Callers, InitInstall(c)
      PROVE  Service!Initialise(c) \/ UNCHANGED Service!vars
  <2>1. pc[c] = "init_install" /\ op[c] = "init" /\ LockFree /\ UNCHANGED op
    BY <1>9 DEF InitInstall, CallMatches
  <2>2. CASE slot = NoScanner
    <3>1. slot' # NoScanner /\ Finish(c, "ok")
      BY <1>9, <2>1, <2>2 DEF InitInstall, IInv, SingleOwner, OwnsScanner
    <3>2. Service!Reply(c, "init", "ok")
      BY <1>0, <2>1, <3>1, ServiceReplies DEF Finish
    <3>3. ~Connected
      BY <1>0, <2>1, <2>2, ConnectedInstalled
    <3> QED
      BY <3>1, <3>2, <3>3 DEF Service!Initialise, Connected
  <2>3. CASE slot # NoScanner
    <3>1. pc' = [pc EXCEPT ![c] = "init_discard"] /\ UNCHANGED <<slot, ret>>
      BY <1>9, <2>3 DEF InitInstall, Goto
    <3>2. Connected' = Connected
      BY <1>0, <2>1, <3>1, ConnectedKept
    <3>3. \A d \in Callers : pc'[d] \in {"idle", "joining"} <=> pc[d] \in {"idle", "joining"}
      BY <1>0, <2>1, <3>1 DEF TypeOK
    <3> QED
      BY <1>0, <2>1, <3>1, <3>2, <3>3, ServiceStutters
  <2> QED
    BY <2>2, <2>3
<1>10. ASSUME NEW c \in Callers, InitDiscard(c) PROVE Service!Initialise(c)
  <2>1. /\ pc[c] = "init_discard" /\ op[c] = "init" /\ slot # NoScanner
        /\ Finish(c, "exists") /\ UNCHANGED <<slot, op>>
    BY <1>10 DEF InitDiscard, CallMatches
  <2>2. Service!Reply(c, "init", "exists")
    BY <1>0, <2>1, ServiceReplies DEF Finish
  <2>3. Connected' = Connected
    BY <1>0, <2>1, ConnectedKept DEF Finish
  <2> QED
    BY <2>1, <2>2, <2>3 DEF Service!Initialise, Connected
(* a disconnect takes effect when the scanner is closed *)
<1>11. ASSUME NEW c \in Callers, DisconnectTake(c)
       PROVE  Service!Disconnect(c) \/ UNCHANGED Service!vars
  <2>1. pc[c] = "disc_lock" /\ op[c] = "disconnect" /\ LockFree /\ UNCHANGED op
    BY <1>11 DEF DisconnectTake, CallMatches
  <2>2. CASE slot = NoScanner
    <3>1. Finish(c, "ok") /\ UNCHANGED slot
      BY <1>11, <2>2 DEF DisconnectTake
    <3>2. Service!Reply(c, "disconnect", "ok")
      BY <1>0, <2>1, <3>1, ServiceReplies DEF Finish
    <3>3. Connected' = Connected /\ ~Connected
      BY <1>0, <2>1, <2>2, <3>1, ConnectedInstalled, ConnectedKept DEF Finish
    <3> QED
      BY <3>2, <3>3 DEF Service!Disconnect, Connected
  <2>3. CASE slot # NoScanner
    <3>1. pc' = [pc EXCEPT ![c] = "disc_run"] /\ UNCHANGED ret
      BY <1>11, <2>3 DEF DisconnectTake, Goto
    <3>2. pc'[c] = "disc_run"
      BY <1>0, <3>1 DEF TypeOK
    <3>3. Connected' = Connected
      BY <2>3, <3>2 DEF Connected
    <3>4. \A d \in Callers : pc'[d] \in {"idle", "joining"} <=> pc[d] \in {"idle", "joining"}
      BY <1>0, <2>1, <3>1 DEF TypeOK
    <3> QED
      BY <1>0, <2>1, <3>1, <3>3, <3>4, ServiceStutters
  <2> QED
    BY <2>2, <2>3
<1>12. ASSUME NEW c \in Callers, DisconnectClose(c) PROVE Service!Disconnect(c)
  <2>1. /\ pc[c] = "disc_run" /\ op[c] = "disconnect" /\ slot = NoScanner
        /\ Finish(c, "ok") /\ UNCHANGED <<slot, op>>
    BY <1>12 DEF DisconnectClose, CallMatches
  <2>2. Service!Reply(c, "disconnect", "ok")
    BY <1>0, <2>1, ServiceReplies DEF Finish
  <2>3. \A d \in Callers : pc[d] = "disc_run" => d = c
    BY <1>0, <2>1, SessionAssumption DEF LockDiscipline, Holds
  <2>4. ~Connected'
    BY <1>0, <2>1, <2>3 DEF Connected, Finish, TypeOK
  <2> QED
    BY <2>2, <2>4 DEF Service!Disconnect, Connected
<1>13. CASE UNCHANGED vars
  <2>1. UNCHANGED <<slot, pc, op, ret>>
    BY <1>13 DEF vars
  <2>2. Connected' = Connected
    BY <2>1 DEF Connected
  <2> QED
    BY <1>0, <2>1, <2>2, ServiceStutters
<1>14. ASSUME NEW c \in Callers, Step(c) PROVE Service!Respond(c) \/ UNCHANGED Service!vars
  BY <1>2, <1>4, <1>5, <1>6, <1>7, <1>8, <1>9, <1>10, <1>11, <1>12, <1>14
     DEF Step, Service!Respond
<1>15. Service!Ops = Ops
  BY DEF Service!Ops, Ops
<1> QED
  BY <1>1, <1>3, <1>13, <1>14, <1>15 DEF Next, AllAnswered, Service!Next

(* The calls are linearizable: whatever the threads and the vendor do,     *)
(* every call answers as if it had run alone at one instant between its    *)
(* invocation and its answer, on a slot that a disconnect empties when the *)
(* scanner it took is closed.                                              *)
THEOREM SessionServesAtomically == Spec => ServesAtomically
<1>1. Init => IInv /\ CallMatches /\ Service!Init
  BY InitTypeOK, ServiceInit, SessionAssumption DEF Init, IInv, LockDiscipline, SingleOwner,
     NoUseAfterDisconnect, CallMatches, Holds, OwnsScanner
<1>2. IInv /\ CallMatches /\ [Next]_vars => (IInv /\ CallMatches)'
  BY NextTypeOK, NextLockDiscipline, NextSingleOwner, NextNoUseAfterDisconnect,
     NextCallMatches DEF IInv
<1> QED
  BY <1>1, <1>2, ServiceStep, PTL DEF Spec, ServesAtomically, Service!Atomic
=============================================================================
