-------------------------- MODULE BridgeIpcProofs --------------------------
(***************************************************************************)
(* Proofs about BridgeIpc, for a session of any length.  Types, the one    *)
(* handle and the session of every operation need no hypothesis; that the  *)
(* pipes are in step is proved for replies within MAX_IPC_LINE, the case   *)
(* in which the code keeps them so (run bridge_oversize shows the other).  *)
(***************************************************************************)
EXTENDS BridgeIpc, BridgeProofs

(* The bound leaves room for the disconnect.                               *)
RoomToShutDown ==
  /\ hpc \in {"idle", "sending"} => sent < MaxCommands
  /\ hpc = "sending" /\ cmd # "disconnect" => sent + 1 < MaxCommands
  /\ hpc \in {"blocked", "reading"} /\ cmd # "disconnect" => sent < MaxCommands

TypeInv == TypeOK /\ RoomToShutDown /\ ReadyHolds

(* A command on its way to its handler, or in it.                          *)
Pending == toBridge # <<>> \/ bpc = "handling"

(* The pipes carry one thing at a time.                                    *)
OneInFlight ==
  /\ toBridge # <<>> => Len(toBridge) = 1 /\ toHost = <<>> /\ bpc # "handling"
  /\ toHost # <<>> => Len(toHost) = 1 /\ bpc # "handling"

(* A process that has ended has nothing left but what it wrote.            *)
GoneIsEmpty == bpc = "gone" => toBridge = <<>> /\ ready = FALSE /\ held = 0

(* The host's first command is its one init, alone in the pipes; its last  *)
(* is its one disconnect, behind whatever is still in them.                *)
Order ==
  /\ \A i \in 1..Len(toBridge) :
       /\ toBridge[i].kind = "init" <=> cmd = "init"
       /\ toBridge[i].kind = "disconnect" =>
            i = Len(toBridge) /\ cmd = "disconnect" /\ hpc \notin {"idle", "sending"}
  /\ bpc = "handling" =>
       /\ line.kind = "init" <=> cmd = "init"
       /\ line.kind = "disconnect" =>
            toBridge = <<>> /\ cmd = "disconnect" /\ hpc \notin {"idle", "sending"}
  /\ cmd = "init" => OneInFlight
  /\ cmd = "init" /\ hpc \in {"idle", "sending"} => ~Pending
  /\ cmd = "init" /\ hpc = "sending" => toHost = <<>>
  /\ hpc = "blocked" => cmd = "bulk"
  /\ hpc = "idle" => cmd # "disconnect"

(* The bridge holds no device before its init, and one device when the     *)
(* host believes so: when it is idle, and as long as it asks.              *)
Closed == ready = FALSE /\ held = 0
Opened == ready = TRUE /\ held = 1
SessionMatches ==
  /\ held <= 1
  /\ hpc = "none" => bpc = "gone"
  /\ Pending => IF cmd = "init" THEN Closed ELSE Opened
  /\ hpc = "sending" /\ bpc # "gone" => IF cmd = "init" THEN Closed ELSE Opened
  /\ hpc = "idle" /\ bpc # "gone" => Opened
  /\ hpc \in {"blocked", "reading"} /\ bpc # "gone" /\ cmd \notin {"init", "disconnect"} => Opened
  /\ hpc = "reading" /\ bpc # "gone" /\ cmd = "init" /\ toHost # <<>> =>
       (toHost[1].type = "device_info" => Opened)

SessionInv == GoneIsEmpty /\ Order /\ SessionMatches /\ NeverNotInitialized
IInv == TypeInv /\ SessionInv

(* With replies within the limit, whatever is in the pipes is the last     *)
(* command that the host wrote, or the reply to it, ...                    *)
FlightIsCommand ==
  /\ \A i \in 1..Len(toBridge) : toBridge[i].id = sent
  /\ bpc = "handling" => line.id = sent
  /\ \A i \in 1..Len(toHost) : toHost[i].id = sent

(* ... and nothing between two commands.                                   *)
Quiet == hpc \in {"idle", "sending"} /\ bpc # "gone" => ~Pending /\ toHost = <<>>

StepInv == OneInFlight /\ FlightIsCommand /\ Quiet

-----------------------------------------------------------------------------
LEMMA InitTypes == Init => TypeInv
<1> SUFFICES ASSUME Init PROVE TypeInv
  OBVIOUS
<1>1. BridgeTypeOK
  BY Empty DEF Init, BridgeTypeOK, Lines, Replies, BridgePCs
<1> QED
  BY <1>1, IpcAssumption DEF Init, TypeInv, TypeOK, RoomToShutDown, ReadyHolds, HostPCs,
     CommandKinds

LEMMA HostTypes ==
  ASSUME TypeInv,
         \/ Spawn \/ Shutdown \/ HostStep \/ HostExits
         \/ \E k \in UseKinds \cup {"bulk"} : Ask(k)
  PROVE  TypeInv'
<1> USE IpcAssumption DEF TypeInv, TypeOK, RoomToShutDown, HostPCs, Failed, Succeeded
<1>1. CASE Spawn
  <2>1. BridgeTypeOK'
    BY <1>1, Empty DEF Spawn, BridgeTypeOK, BridgePCs, Lines, Replies
  <2> QED
    BY <1>1, <2>1 DEF Spawn, ReadyHolds, CommandKinds
<1>2. CASE Shutdown \/ HostExits \/ FinishWrite \/ ReadEmpty
  BY <1>2 DEF Shutdown, HostExits, FinishWrite, ReadEmpty, BridgeTypeOK, ReadyHolds,
     CommandKinds, bridgeVars
<1>3. CASE \E k \in UseKinds \cup {"bulk"} : Ask(k)
  BY <1>3 DEF Ask, BridgeTypeOK, ReadyHolds, CommandKinds, bridgeVars
<1>4. CASE WriteCommand
  <2>1. [id |-> sent + 1, kind |-> cmd] \in Lines
    BY DEF Lines, LineKinds
  <2>2. Append(toBridge, [id |-> sent + 1, kind |-> cmd]) \in Seq(Lines)
    BY <2>1, Appended DEF BridgeTypeOK, Lines
  <2>3. BridgeTypeOK' /\ ReadyHolds'
    BY <1>4, <2>2 DEF WriteCommand, BridgeTypeOK, Lines, ReadyHolds
  <2> QED
    BY <1>4, <2>3 DEF WriteCommand
<1>5. CASE ReadReply
  <2>1. Tail(toHost) \in Seq(Replies)
    BY <1>5, Removed DEF ReadReply, BridgeTypeOK, Replies
  <2>2. BridgeTypeOK' /\ ReadyHolds'
    BY <1>5, <2>1 DEF ReadReply, BridgeTypeOK, Replies, ReadyHolds
  <2>3. hpc' = "killing" \/ (hpc' = "idle" /\ cmd # "disconnect")
    BY <1>5 DEF ReadReply
  <2> QED
    BY <1>5, <2>2, <2>3 DEF ReadReply
<1>6. CASE Kill
  <2>1. BridgeTypeOK'
    BY <1>6, Empty DEF Kill, Vanish, BridgeTypeOK, BridgePCs, Lines, Replies
  <2> QED
    BY <1>6, <2>1 DEF Kill, Vanish, ReadyHolds
<1> QED
  BY <1>1, <1>2, <1>3, <1>4, <1>5, <1>6 DEF HostStep

LEMMA NextTypes == TypeInv /\ [Next]_vars => TypeInv'
<1> SUFFICES ASSUME TypeInv, [Next]_vars PROVE TypeInv'
  OBVIOUS
<1>1. CASE (BridgeStep \/ Crash) /\ UNCHANGED <<hpc, cmd, sent>>
  BY <1>1, BridgeTypes DEF TypeInv, TypeOK, RoomToShutDown
<1>2. CASE UNCHANGED vars
  BY <1>2 DEF TypeInv, TypeOK, BridgeTypeOK, RoomToShutDown, ReadyHolds, vars, bridgeVars
<1> QED
  BY <1>1, <1>2, HostTypes DEF Next, Process, Done

-----------------------------------------------------------------------------
(* One session per process.                                                *)

LEMMA InitSession == Init => SessionInv
BY DEF Init, SessionInv, GoneIsEmpty, Order, SessionMatches, NeverNotInitialized, Pending,
   OneInFlight

LEMMA ReadLineSession ==
  ASSUME TypeOK, BridgeTypeOK, SessionInv, ReadLine, UNCHANGED <<hpc, cmd, sent>>
  PROVE  SessionInv'
<1>1. /\ Len(toBridge) \in Nat \ {0} /\ toBridge # <<>> /\ bpc = "reading"
      /\ UNCHANGED <<toHost, ready, held, hpc, cmd>>
  BY LineTaken DEF ReadLine
<1>2. Pending /\ bpc' # "gone"
  BY <1>1, LineTaken DEF Pending
<1>3. ASSUME cmd = "init"
      PROVE  OneInFlight' /\ hpc \notin {"idle", "sending"}
  <2>1. Len(toBridge) = 1 /\ toHost = <<>> /\ hpc \notin {"idle", "sending"}
    BY <1>1, <1>2, <1>3 DEF SessionInv, Order, OneInFlight
  <2>2. toBridge' = <<>>
    BY <2>1, LineTaken
  <2> QED
    BY <1>1, <2>1, <2>2 DEF OneInFlight
<1>4. \A i \in 1..Len(toBridge') :
        /\ toBridge'[i].kind = "init" <=> cmd = "init"
        /\ toBridge'[i].kind = "disconnect" =>
             i = Len(toBridge') /\ cmd = "disconnect" /\ hpc \notin {"idle", "sending"}
  <2> TAKE i \in 1..Len(toBridge')
  <2>1. /\ i + 1 \in 1..Len(toBridge) /\ toBridge'[i] = toBridge[i + 1]
        /\ i + 1 = Len(toBridge) => i = Len(toBridge')
    BY LineTaken
  <2> QED
    BY <2>1 DEF SessionInv, Order
<1>5. bpc' = "handling" =>
        /\ line'.kind = "init" <=> cmd = "init"
        /\ line'.kind = "disconnect" =>
             toBridge' = <<>> /\ cmd = "disconnect" /\ hpc \notin {"idle", "sending"}
  <2>1. 1 \in 1..Len(toBridge) /\ (1 = Len(toBridge) => toBridge' = <<>>)
    BY LineTaken
  <2> QED
    BY <2>1, LineTaken DEF SessionInv, Order
<1>6. Order'
  BY <1>1, <1>3, <1>4, <1>5 DEF SessionInv, Order
<1> QED
  BY <1>1, <1>2, <1>6 DEF SessionInv, GoneIsEmpty, SessionMatches, NeverNotInitialized,
     Opened, Closed

LEMMA ReplyKeepsOut ==
  ASSUME TypeOK, BridgeTypeOK, NeverNotInitialized, NEW t \in ReplyTypes \ {"not_initialized"}, Reply(t)
  PROVE  NeverNotInitialized'
<1>1. /\ Len(toHost) \in Nat /\ Len(toHost') = Len(toHost) + 1
      /\ toHost'[Len(toHost) + 1] = [id |-> line.id, type |-> t]
      /\ \A i \in 1..Len(toHost) : toHost'[i] = toHost[i]
  BY Replied, PipeFacts
<1>2. ASSUME NEW i \in 1..Len(toHost') PROVE toHost'[i].type # "not_initialized"
  <2>1. i \in 1..Len(toHost) \/ i = Len(toHost) + 1
    BY <1>1
  <2> QED
    BY <1>1, <2>1 DEF NeverNotInitialized
<1> QED
  BY <1>2 DEF NeverNotInitialized

(* The init is handled alone in the pipes, on a process without a device.  *)
LEMMA HandleInitSession ==
  ASSUME TypeOK, BridgeTypeOK, SessionInv, HandleInit, UNCHANGED <<hpc, cmd, sent>>
  PROVE  SessionInv'
<1>1. /\ bpc = "handling" /\ line.kind = "init" /\ bpc' = "reading" /\ Pending
      /\ UNCHANGED <<toBridge, line, hpc, cmd>>
  BY DEF HandleInit, Pending
<1>2. /\ cmd = "init" /\ toBridge = <<>> /\ toHost = <<>> /\ Closed
      /\ hpc \notin {"idle", "sending", "none"}
  BY <1>1 DEF SessionInv, Order, OneInFlight, SessionMatches
<1>3. PICK t \in {"error", "device_info"} :
        Reply(t) /\ held' <= 1 /\ (t = "device_info" => Opened')
  <2>1. held = 0
    BY <1>2 DEF Closed
  <2>2. CASE Reply("error") /\ held' \in {held, held + 1}
    BY <2>1, <2>2
  <2>3. CASE Reply("device_info") /\ held' = held + 1 /\ ready' = TRUE
    BY <2>1, <2>3 DEF Opened
  <2> QED
    BY <2>2, <2>3 DEF HandleInit
<1>4. t \in ReplyTypes \ {"not_initialized"}
  BY DEF ReplyTypes
<1>5. /\ NeverNotInitialized' /\ toHost' # <<>> /\ Len(toHost') = 1
      /\ toHost'[1].type = t
  <2>1. Len(toHost) = 0
    BY <1>2
  <2>2. Len(toHost') = 1 /\ toHost'[1] = [id |-> line.id, type |-> t] /\ toHost' # <<>>
    BY <1>3, <1>4, <2>1, Replied
  <2> QED
    BY <1>3, <1>4, <2>2, ReplyKeepsOut DEF SessionInv
<1>6. ~Pending' /\ Len(toBridge') = 0 /\ toBridge' = <<>>
  BY <1>1, <1>2 DEF Pending
<1>7. Order'
  BY <1>1, <1>2, <1>5, <1>6 DEF SessionInv, Order, OneInFlight
<1> QED
  BY <1>1, <1>2, <1>3, <1>5, <1>6, <1>7 DEF SessionInv, GoneIsEmpty, SessionMatches

(* Every other command finds the device open, whatever is left in the      *)
(* pipes, and leaves it open unless it is the last.                        *)
LEMMA HandleOtherSession ==
  ASSUME TypeOK, BridgeTypeOK, SessionInv, UNCHANGED <<hpc, cmd, sent>>,
         RefuseOversize \/ RefuseMalformed \/ HandleUse \/ HandleDisconnect
  PROVE  SessionInv'
<1>1. /\ bpc = "handling" /\ line.kind # "init" /\ bpc' \in {"reading", "leaving"} /\ Pending
      /\ UNCHANGED <<toBridge, line, hpc, cmd>>
  BY DEF RefuseOversize, RefuseMalformed, HandleUse, HandleDisconnect, Pending, UseKinds
<1>2. cmd # "init" /\ Opened /\ hpc # "none"
  BY <1>1 DEF SessionInv, Order, SessionMatches
<1>3. NeverNotInitialized'
  <2>1. CASE \E t \in ReplyTypes \ {"not_initialized"} : Reply(t)
    BY <2>1, ReplyKeepsOut DEF SessionInv
  <2>2. CASE toHost' = toHost \o <<[id |-> line.id, type |-> "head"],
                                   [id |-> line.id, type |-> "tail"]>>
    <3> DEFINE h == [id |-> line.id, type |-> "head"]
               t == [id |-> line.id, type |-> "tail"]
    <3>1. h \in Replies /\ t \in Replies
      BY DEF TypeOK, BridgeTypeOK, Replies, ReplyTypes
    <3>2. <<h, t>> \in Seq(Replies) /\ Len(<<h, t>>) = 2 /\ <<h, t>>[1] = h /\ <<h, t>>[2] = t
      BY <3>1
    <3>3. /\ Len(toHost') = Len(toHost) + 2
          /\ \A i \in 1..Len(toHost) + 2 :
               toHost'[i] = IF i <= Len(toHost) THEN toHost[i] ELSE <<h, t>>[i - Len(toHost)]
      BY <2>2, <3>2, PipeFacts, ConcatProperties
    <3>4. \A i \in 1..Len(toHost') : toHost'[i].type # "not_initialized"
      <4> TAKE i \in 1..Len(toHost')
      <4>1. CASE i <= Len(toHost)
        <5>1. i \in 1..Len(toHost) /\ toHost'[i] = toHost[i]
          BY <3>3, <4>1, PipeFacts
        <5> QED
          BY <5>1 DEF SessionInv, NeverNotInitialized
      <4>2. CASE ~(i <= Len(toHost))
        <5>1. i - Len(toHost) \in {1, 2} /\ toHost'[i] = <<h, t>>[i - Len(toHost)]
          BY <3>3, <4>2, PipeFacts
        <5>2. toHost'[i] = h \/ toHost'[i] = t
          BY <3>2, <5>1
        <5> QED
          BY <5>2
      <4> QED
        BY <4>1, <4>2
    <3> QED
      BY <3>4 DEF NeverNotInitialized
  <2>3. OkType(line.kind) \in ReplyTypes \ {"not_initialized"}
    <3>1. line.kind \in LineKinds
      BY DEF TypeOK, BridgeTypeOK
    <3> QED
      BY <3>1, Zenon DEF OkType, ReplyTypes, LineKinds, CommandKinds, UseKinds
  <2>4. {"error", "void"} \subseteq ReplyTypes \ {"not_initialized"}
    BY DEF ReplyTypes
  <2> QED
    BY <1>2, <2>1, <2>2, <2>3, <2>4
       DEF RefuseOversize, RefuseMalformed, HandleUse, HandleDisconnect, Opened
<1>4. Order'
  BY <1>1, <1>2 DEF SessionInv, Order, Pending
<1>5. CASE RefuseOversize \/ RefuseMalformed \/ HandleUse
  <2>1. UNCHANGED <<ready, held>>
    BY <1>5 DEF RefuseOversize, RefuseMalformed, HandleUse
  <2> QED
    BY <1>1, <1>2, <1>3, <1>4, <2>1 DEF SessionInv, GoneIsEmpty, SessionMatches, Opened
<1>6. CASE HandleDisconnect
  <2>1. /\ toBridge = <<>> /\ cmd = "disconnect" /\ hpc \notin {"idle", "sending"}
        /\ bpc' = "reading"
    BY <1>1, <1>6 DEF HandleDisconnect, SessionInv, Order
  <2>2. held' = 0
    <3>1. held' = held - 1
      BY <1>2, <1>6, Zenon DEF HandleDisconnect, CloseState, Opened
    <3> QED
      BY <1>2, <3>1 DEF Opened
  <2>3. ~Pending'
    BY <1>1, <2>1 DEF Pending
  <2> QED
    BY <1>1, <1>2, <1>3, <1>4, <2>1, <2>2, <2>3 DEF SessionInv, GoneIsEmpty, SessionMatches
<1> QED
  BY <1>5, <1>6

LEMMA EndSession ==
  ASSUME TypeOK, BridgeTypeOK, SessionInv, ReadEof \/ Leave \/ Crash, UNCHANGED <<hpc, cmd, sent>>
  PROVE  SessionInv'
<1>1. CASE ReadEof
  BY <1>1 DEF ReadEof, SessionInv, GoneIsEmpty, Order, OneInFlight, SessionMatches,
     NeverNotInitialized, Pending, Opened, Closed
<1>2. CASE Leave \/ Crash
  <2>1. Vanish /\ UNCHANGED toHost
    BY <1>2 DEF Leave, Crash
  <2>2. bpc' = "gone" /\ toBridge' = <<>> /\ Len(toBridge') = 0 /\ ready' = FALSE /\ held' = 0
    BY <2>1 DEF Vanish
  <2>3. (~Pending)' /\ Order'
    BY <2>1, <2>2 DEF SessionInv, Order, OneInFlight, Pending
  <2> QED
    BY <2>1, <2>2, <2>3 DEF SessionInv, GoneIsEmpty, SessionMatches, NeverNotInitialized
<1> QED
  BY <1>1, <1>2

-----------------------------------------------------------------------------
(* The host.                                                               *)

(* Its steps around a command: none changes the bridge or a pipe.          *)
HostControl ==
  \/ Shutdown \/ HostExits \/ FinishWrite \/ ReadEmpty
  \/ \E k \in UseKinds \cup {"bulk"} : Ask(k)

LEMMA ControlLeaves ==
  ASSUME HostControl
  PROVE  /\ UNCHANGED <<toBridge, toHost, bpc, line, ready, held, sent>>
         /\ \/ /\ hpc = "idle" /\ hpc' = "sending"
               /\ cmd' \in UseKinds \cup {"bulk", "disconnect"}
            \/ hpc' = "exited" /\ UNCHANGED cmd
            \/ /\ UNCHANGED cmd
               /\ \/ hpc = "blocked" /\ toBridge = <<>> /\ hpc' = "reading"
                  \/ /\ bpc = "gone" /\ hpc \in {"blocked", "reading"}
                     /\ Failed
BY DEF HostControl, Shutdown, HostExits, FinishWrite, ReadEmpty, Ask, bridgeVars

LEMMA ControlSession ==
  ASSUME TypeOK, BridgeTypeOK, SessionInv, HostControl
  PROVE  SessionInv'
<1>1. UNCHANGED <<toBridge, toHost, bpc, line, ready, held>>
  BY ControlLeaves
<1>2. GoneIsEmpty' /\ NeverNotInitialized'
  BY <1>1 DEF SessionInv, GoneIsEmpty, NeverNotInitialized
<1>3. CASE hpc = "idle" /\ hpc' = "sending" /\ cmd' \in UseKinds \cup {"bulk", "disconnect"}
  <2>1. cmd' # "init" /\ cmd # "disconnect"
    BY <1>3 DEF UseKinds, SessionInv, Order
  <2>2. \A i \in 1..Len(toBridge) : toBridge[i].kind \notin {"init", "disconnect"}
    <3> TAKE i \in 1..Len(toBridge)
    <3>1. cmd # "init"
      <4>1. Len(toBridge) # 0
        OBVIOUS
      <4> QED
        BY <1>3, <4>1, PipeFacts DEF SessionInv, Order, Pending
    <3> QED
      BY <1>3, <2>1, <3>1 DEF SessionInv, Order
  <2>3. bpc = "handling" => line.kind \notin {"init", "disconnect"}
    BY <1>3, <2>1 DEF SessionInv, Order, Pending
  <2>4. Order'
    BY <1>1, <1>3, <2>1, <2>2, <2>3 DEF Order
  <2>5. bpc # "gone" => Opened
    BY <1>3 DEF SessionInv, SessionMatches
  <2>6. Pending => bpc # "gone"
    BY DEF Pending, SessionInv, GoneIsEmpty
  <2>7. Pending' <=> Pending
    BY <1>1 DEF Pending
  <2>8. SessionMatches'
    BY <1>1, <1>3, <2>1, <2>5, <2>6, <2>7 DEF SessionInv, SessionMatches, Opened
  <2> QED
    BY <1>2, <2>4, <2>8 DEF SessionInv
<1>4. CASE hpc' = "exited" /\ UNCHANGED cmd
  BY <1>1, <1>2, <1>4 DEF SessionInv, Order, OneInFlight, SessionMatches, Pending, Opened, Closed
<1>5. CASE UNCHANGED cmd /\ hpc = "blocked" /\ toBridge = <<>> /\ hpc' = "reading"
  <2>1. cmd = "bulk"
    BY <1>5 DEF SessionInv, Order
  <2> QED
    BY <1>1, <1>2, <1>5, <2>1 DEF SessionInv, Order, SessionMatches, Pending, Opened, Closed
<1>6. CASE UNCHANGED cmd /\ bpc = "gone" /\ Failed
  <2>1. /\ toBridge = <<>> /\ Len(toBridge) = 0 /\ ~Pending /\ ~Pending'
        /\ \/ hpc' = "killing"
           \/ hpc' = "idle" /\ cmd \notin {"init", "disconnect"}
    BY <1>1, <1>6 DEF SessionInv, GoneIsEmpty, Failed, Pending
  <2> QED
    BY <1>1, <1>2, <1>6, <2>1 DEF SessionInv, Order, SessionMatches, OneInFlight
<1> QED
  BY <1>3, <1>4, <1>5, <1>6, ControlLeaves

LEMMA SpawnKillSession ==
  ASSUME Spawn \/ Kill
  PROVE  SessionInv'
<1>1. /\ toBridge' = <<>> /\ toHost' = <<>> /\ ready' = FALSE /\ held' = 0
      /\ \/ bpc' = "reading" /\ hpc' = "sending" /\ cmd' = "init"
         \/ bpc' = "gone" /\ hpc' = "none"
  BY DEF Spawn, Kill, Vanish
<1>2. Len(toBridge') = 0 /\ Len(toHost') = 0
  BY <1>1
<1> QED
  BY <1>1, <1>2 DEF SessionInv, GoneIsEmpty, Order, OneInFlight, SessionMatches,
     NeverNotInitialized, Pending, Opened, Closed

(* A command joins what is in the pipe, or nobody is there to read it.     *)
LEMMA WriteSession ==
  ASSUME TypeOK, BridgeTypeOK, SessionInv, WriteCommand
  PROVE  SessionInv'
<1>1. /\ hpc = "sending" /\ hpc' \notin {"sending", "none"}
      /\ UNCHANGED <<toHost, bpc, line, ready, held, cmd>>
  BY DEF WriteCommand, Failed
<1>2. NeverNotInitialized'
  BY <1>1 DEF SessionInv, NeverNotInitialized
<1>3. CASE bpc = "gone"
  <2>1. /\ toBridge = <<>> /\ Len(toBridge) = 0 /\ UNCHANGED toBridge /\ ~Pending /\ ~Pending'
        /\ \/ hpc' = "killing"
           \/ hpc' = "idle" /\ cmd \notin {"init", "disconnect"}
    BY <1>1, <1>3 DEF WriteCommand, SessionInv, GoneIsEmpty, Failed, Pending
  <2> QED
    BY <1>1, <1>2, <1>3, <2>1 DEF SessionInv, GoneIsEmpty, Order, SessionMatches, OneInFlight
<1>4. CASE bpc # "gone"
  <2> DEFINE l == [id |-> sent + 1, kind |-> cmd]
  <2>1. /\ toBridge' = Append(toBridge, l)
        /\ hpc' = IF cmd = "bulk" THEN "blocked" ELSE "reading"
    BY <1>4 DEF WriteCommand
  <2>2. hpc' \in {"blocked", "reading"} /\ (hpc' = "blocked" => cmd = "bulk")
    BY <2>1
  <2>3. l \in Lines /\ l.kind = cmd
    BY DEF TypeOK, Lines, LineKinds
  <2>4. /\ Len(toBridge) \in Nat /\ Len(toBridge') = Len(toBridge) + 1 /\ toBridge' # <<>>
        /\ toBridge'[Len(toBridge) + 1] = l
        /\ \A i \in 1..Len(toBridge) : toBridge'[i] = toBridge[i]
    BY <2>1, <2>3, PipeFacts, Appended
  <2>5. /\ \A i \in 1..Len(toBridge) : toBridge[i].kind # "disconnect"
        /\ bpc = "handling" => line.kind # "disconnect"
    BY <1>1 DEF SessionInv, Order
  <2>6. \A i \in 1..Len(toBridge') :
          /\ toBridge'[i].kind = "init" <=> cmd = "init"
          /\ toBridge'[i].kind = "disconnect" => i = Len(toBridge') /\ cmd = "disconnect"
    <3> TAKE i \in 1..Len(toBridge')
    <3>1. i \in 1..Len(toBridge) \/ i = Len(toBridge')
      BY <2>4
    <3>2. CASE i \in 1..Len(toBridge)
      BY <2>4, <2>5, <3>2 DEF SessionInv, Order
    <3> QED
      BY <2>3, <2>4, <3>1, <3>2
  <2>7. cmd = "init" => OneInFlight'
    <3>1. cmd = "init" => toBridge = <<>> /\ toHost = <<>> /\ bpc # "handling" /\ Len(toBridge) = 0
      BY <1>1 DEF SessionInv, Order, Pending
    <3> QED
      BY <1>1, <2>4, <3>1 DEF OneInFlight
  <2>8. Order'
    BY <1>1, <2>2, <2>5, <2>6, <2>7 DEF SessionInv, Order
  <2>9. SessionMatches' /\ GoneIsEmpty'
    <3>1. IF cmd = "init" THEN Closed ELSE Opened
      BY <1>1, <1>4 DEF SessionInv, SessionMatches
    <3>2. cmd = "init" => toHost = <<>>
      BY <1>1 DEF SessionInv, Order
    <3> QED
      BY <1>1, <1>4, <2>2, <3>1, <3>2 DEF SessionInv, SessionMatches, GoneIsEmpty, Opened, Closed
  <2> QED
    BY <1>2, <2>8, <2>9 DEF SessionInv
<1> QED
  BY <1>3, <1>4

(* What a reply says decides whether the host keeps its backend, and it    *)
(* keeps one only whose device is open.                                    *)
LEMMA ReadSession ==
  ASSUME TypeOK, BridgeTypeOK, SessionInv, ReadReply
  PROVE  SessionInv'
<1>1. /\ hpc = "reading" /\ toHost # <<>> /\ toHost' = Tail(toHost)
      /\ UNCHANGED <<toBridge, bpc, line, ready, held, cmd>>
  BY DEF ReadReply
<1>2. /\ Len(toHost) \in Nat \ {0} /\ Len(toHost') = Len(toHost) - 1
      /\ Head(toHost) = toHost[1] /\ toHost' \in Seq(Replies)
      /\ \A i \in 1..Len(toHost') : toHost'[i] = toHost[i + 1]
  BY <1>1, PipeFacts, Removed
<1>3. NeverNotInitialized'
  <2>1. \A i \in 1..Len(toHost') : i + 1 \in 1..Len(toHost)
    BY <1>2
  <2> QED
    BY <1>2, <2>1 DEF SessionInv, NeverNotInitialized
<1>4. \/ hpc' = "killing"
      \/ /\ hpc' = "idle" /\ cmd # "disconnect"
         /\ cmd = "init" => toHost[1].type = "device_info"
  <2>1. OkType("init") = "device_info"
    BY DEF OkType
  <2>2. CASE toHost[1].type = OkType(cmd)
    BY <1>2, <2>1, <2>2 DEF ReadReply, Succeeded
  <2>3. CASE toHost[1].type # OkType(cmd)
    BY <1>2, <2>3 DEF ReadReply, Failed
  <2> QED
    BY <2>2, <2>3
<1>5. cmd = "init" => Len(toHost) = 1 /\ ~Pending /\ toBridge = <<>> /\ bpc # "handling"
  BY <1>1 DEF SessionInv, Order, OneInFlight, Pending
<1>6. cmd = "init" => OneInFlight' /\ ~Pending'
  <2>1. cmd = "init" => Len(toHost') = 0
    <3>1. /\ Len(toHost) \in Nat \ {0} /\ Len(toHost') = Len(toHost) - 1
          /\ cmd = "init" => Len(toHost) = 1
      BY <1>2, <1>5
    <3>2. Len(toHost) = 1 => Len(toHost') = 0
      BY <3>1
    <3> QED
      BY <3>1, <3>2
  <2>2. Len(toHost') = 0 => toHost' = <<>>
    BY <1>2, EmptySeq
  <2> QED
    BY <1>1, <1>5, <2>1, <2>2 DEF OneInFlight, Pending
<1>7. /\ \A i \in 1..Len(toBridge) : toBridge[i].kind = "disconnect" => hpc' # "idle"
      /\ bpc = "handling" /\ line.kind = "disconnect" => hpc' # "idle"
  BY <1>4 DEF SessionInv, Order
<1>8. Order'
  BY <1>1, <1>4, <1>6, <1>7 DEF SessionInv, Order
<1>9. SessionMatches'
  BY <1>1, <1>4 DEF SessionInv, SessionMatches, Pending, Opened, Closed
<1> QED
  BY <1>1, <1>3, <1>8, <1>9 DEF SessionInv, GoneIsEmpty

LEMMA InitIInv == Init => IInv
BY InitTypes, InitSession DEF IInv

LEMMA NextIInv == IInv /\ [Next]_vars => IInv'
<1> SUFFICES ASSUME IInv, [Next]_vars PROVE IInv'
  OBVIOUS
<1>1. TypeOK /\ BridgeTypeOK /\ SessionInv /\ TypeInv'
  BY NextTypes DEF IInv, TypeInv, TypeOK
<1>2. CASE (BridgeStep \/ Crash) /\ UNCHANGED <<hpc, cmd, sent>>
  <2>1. SessionInv'
    BY <1>1, <1>2, ReadLineSession, HandleInitSession, HandleOtherSession, EndSession
       DEF BridgeStep
  <2> QED
    BY <1>1, <2>1 DEF IInv
<1>3. CASE Spawn \/ Kill
  BY <1>1, <1>3, SpawnKillSession DEF IInv
<1>4. CASE HostControl
  BY <1>1, <1>4, ControlSession DEF IInv
<1>5. CASE WriteCommand
  BY <1>1, <1>5, WriteSession DEF IInv
<1>6. CASE ReadReply
  BY <1>1, <1>6, ReadSession DEF IInv
<1>7. CASE UNCHANGED vars
  <2>1. SessionInv'
    BY <1>1, <1>7 DEF SessionInv, GoneIsEmpty, Order, OneInFlight, SessionMatches,
       NeverNotInitialized, Opened, Closed, Pending, vars, bridgeVars
  <2> QED
    BY <1>1, <2>1 DEF IInv
<1> QED
  BY <1>2, <1>3, <1>4, <1>5, <1>6, <1>7 DEF Next, Process, HostStep, HostControl, Done

LEMMA Invariance == Spec => []IInv
BY InitIInv, NextIInv, PTL DEF Spec

-----------------------------------------------------------------------------
(* One command at a time, and its reply.                                   *)

LEMMA InitStepInv == Init => StepInv
BY DEF Init, StepInv, OneInFlight, FlightIsCommand, Quiet, Pending

LEMMA ProcessInStep ==
  ASSUME OversizeReplies = FALSE, TypeOK, BridgeTypeOK, StepInv, SessionInv,
         BridgeStep \/ Crash, UNCHANGED <<hpc, cmd, sent>>
  PROVE  StepInv'
<1>1. CASE ReadLine
  <2>1. toBridge # <<>> /\ toHost = <<>> /\ bpc' # "gone" /\ toBridge[1].id = sent
    <3>1. 1 \in 1..Len(toBridge)
      BY <1>1, LineTaken
    <3> QED
      BY <1>1, <3>1, LineTaken DEF ReadLine, StepInv, OneInFlight, FlightIsCommand
  <2>2. toBridge' = <<>> /\ toHost' = <<>> /\ Len(toBridge') = 0 /\ Len(toHost') = 0
    BY <1>1, <2>1, LineTaken DEF StepInv, OneInFlight
  <2>3. bpc' = "handling" => line'.id = sent
    BY <1>1, <2>1, LineTaken
  <2>4. hpc \notin {"idle", "sending"}
    BY <1>1, <2>1 DEF StepInv, Quiet, Pending, ReadLine
  <2> QED
    BY <2>2, <2>3, <2>4 DEF StepInv, OneInFlight, FlightIsCommand, Quiet
<1>2. CASE RefuseOversize \/ RefuseMalformed \/ HandleInit \/ HandleUse \/ HandleDisconnect
  <2>1. /\ bpc = "handling" /\ bpc' \in {"reading", "leaving"} /\ Pending
        /\ UNCHANGED <<toBridge, line>>
    BY <1>2 DEF RefuseOversize, RefuseMalformed, HandleInit, HandleUse, HandleDisconnect,
       Pending
  <2>2. toHost = <<>> /\ toBridge = <<>> /\ line.id = sent /\ hpc \notin {"idle", "sending"}
    BY <2>1 DEF StepInv, OneInFlight, FlightIsCommand, Quiet
  <2>3. PICK t \in ReplyTypes : Reply(t)
    <3>1. OkType(line.kind) \in ReplyTypes
      BY OkTypes DEF TypeOK, BridgeTypeOK
    <3>2. {"error", "void", "device_info", "not_initialized"} \subseteq ReplyTypes
      BY DEF ReplyTypes
    <3> QED
      BY <1>2, <3>1, <3>2
         DEF RefuseOversize, RefuseMalformed, HandleInit, HandleUse, HandleDisconnect
  <2>4. toHost' = <<[id |-> sent, type |-> t]>>
    BY <2>2, <2>3 DEF Reply
  <2>5. Len(toHost') = 1 /\ toHost'[1].id = sent
    BY <2>4
  <2> QED
    BY <2>1, <2>2, <2>5 DEF StepInv, OneInFlight, FlightIsCommand, Quiet
<1>3. CASE ReadEof
  BY <1>3 DEF ReadEof, StepInv, OneInFlight, FlightIsCommand, Quiet, Pending
<1>4. CASE Leave \/ Crash
  <2>1. bpc' = "gone" /\ toBridge' = <<>> /\ UNCHANGED toHost
    BY <1>4 DEF Leave, Crash, Vanish
  <2> QED
    BY <2>1 DEF StepInv, OneInFlight, FlightIsCommand, Quiet
<1> QED
  BY <1>1, <1>2, <1>3, <1>4 DEF BridgeStep

LEMMA HostInStep ==
  ASSUME TypeOK, BridgeTypeOK, StepInv, SessionInv,
         Spawn \/ Kill \/ HostControl \/ WriteCommand \/ ReadReply
  PROVE  StepInv'
<1>1. CASE Spawn \/ Kill
  <2>1. /\ toBridge' = <<>> /\ toHost' = <<>> /\ Len(toBridge') = 0 /\ Len(toHost') = 0
        /\ bpc' # "handling" /\ hpc' # "blocked"
    BY <1>1 DEF Spawn, Kill, Vanish
  <2> QED
    BY <2>1 DEF StepInv, OneInFlight, FlightIsCommand, Quiet, Pending
<1>2. CASE HostControl
  <2>1. /\ UNCHANGED <<toBridge, toHost, bpc, line, sent>>
        /\ hpc' \in {"idle", "sending"} => hpc = "idle" \/ bpc = "gone"
    BY <1>2, ControlLeaves DEF Failed
  <2> QED
    BY <2>1 DEF StepInv, OneInFlight, FlightIsCommand, Quiet, Pending
<1>3. CASE WriteCommand
  <2>1. CASE bpc = "gone"
    BY <1>3, <2>1 DEF WriteCommand, Failed, StepInv, OneInFlight, FlightIsCommand, Quiet,
       SessionInv, GoneIsEmpty
  <2>2. CASE bpc # "gone"
    <3>1. /\ toBridge = <<>> /\ toHost = <<>> /\ bpc # "handling"
          /\ UNCHANGED <<toHost, bpc, line>> /\ hpc' \notin {"idle", "sending"}
      BY <1>3, <2>2 DEF WriteCommand, StepInv, Quiet, Pending
    <3>2. toBridge' = <<[id |-> sent + 1, kind |-> cmd]>> /\ sent' = sent + 1
      BY <1>3, <2>2, <3>1 DEF WriteCommand
    <3>3. Len(toBridge') = 1 /\ toBridge'[1].id = sent'
      BY <3>2
    <3> QED
      BY <3>1, <3>3 DEF StepInv, OneInFlight, FlightIsCommand, Quiet
  <2> QED
    BY <2>1, <2>2
<1>4. CASE ReadReply
  <2>1. /\ UNCHANGED <<toBridge, bpc, line, sent>> /\ toHost' = Tail(toHost) /\ toHost # <<>>
    BY <1>4 DEF ReadReply
  <2>2. Len(toHost) = 1 /\ toBridge = <<>> /\ bpc # "handling"
    BY <2>1 DEF StepInv, OneInFlight
  <2>3. toHost' \in Seq(Replies) /\ Len(toHost') = 0
    BY <2>1, <2>2, PipeFacts, Removed
  <2>4. toHost' = <<>>
    BY <2>3, EmptySeq
  <2> QED
    BY <2>1, <2>2, <2>4 DEF StepInv, OneInFlight, FlightIsCommand, Quiet, Pending
<1> QED
  BY <1>1, <1>2, <1>3, <1>4

LEMMA NextStepInv ==
  OversizeReplies = FALSE /\ IInv /\ StepInv /\ [Next]_vars => StepInv'
<1> SUFFICES ASSUME OversizeReplies = FALSE, IInv, StepInv, [Next]_vars PROVE StepInv'
  OBVIOUS
<1>1. TypeOK /\ BridgeTypeOK /\ SessionInv
  BY DEF IInv, TypeInv, TypeOK
<1>2. CASE UNCHANGED vars
  BY <1>2 DEF StepInv, OneInFlight, FlightIsCommand, Quiet, Pending, vars, bridgeVars
<1> QED
  BY <1>1, <1>2, ProcessInStep, HostInStep DEF Next, Process, HostStep, HostControl, Done

LEMMA StepInvariance == OversizeReplies = FALSE => (Spec => [](IInv /\ StepInv))
<1> SUFFICES ASSUME OversizeReplies = FALSE PROVE Spec => [](IInv /\ StepInv)
  OBVIOUS
<1>1. IInv /\ StepInv /\ [Next]_vars => StepInv'
  BY NextStepInv
<1> QED
  BY <1>1, InitIInv, NextIInv, InitStepInv, PTL DEF Spec

LEMMA InStepFromInv == IInv /\ StepInv => InStep
<1> SUFFICES ASSUME IInv, StepInv PROVE InStep
  OBVIOUS
<1>1. BridgeTypeOK /\ OneInFlight /\ FlightIsCommand /\ Quiet
  BY DEF IInv, StepInv, TypeInv, TypeOK
<1>2. Len(toBridge) + Len(toHost) + (IF bpc = "handling" THEN 1 ELSE 0) <= 1
  <2>1. CASE bpc = "handling"
    <3>1. toBridge = <<>> /\ toHost = <<>>
      BY <1>1, <2>1 DEF OneInFlight
    <3>2. Len(toBridge) = 0 /\ Len(toHost) = 0
      BY <3>1
    <3> QED
      BY <2>1, <3>2
  <2>2. CASE bpc # "handling"
    <3>1. /\ Len(toBridge) \in {0, 1} /\ Len(toHost) \in {0, 1}
          /\ Len(toBridge) = 0 \/ Len(toHost) = 0
      BY <1>1, PipeFacts DEF OneInFlight
    <3>2. Len(toBridge) + Len(toHost) + 0 <= 1
      BY <3>1
    <3> QED
      BY <2>2, <3>2
  <2> QED
    BY <2>1, <2>2
<1> QED
  BY <1>1, <1>2 DEF InStep, FlightIsCommand, Quiet, Pending

-----------------------------------------------------------------------------
(* The pipes carry lines and replies, handles are counted from zero, and a *)
(* session keeps within its bound.                                         *)
THEOREM BridgeIpcTypes == Spec => []TypeOK
<1>1. IInv => TypeOK
  BY DEF IInv, TypeInv
<1> QED
  BY <1>1, Invariance, PTL

(* A bridge process opens its device at most once, and a host without a    *)
(* backend has no process and no device, whatever is in the pipes          *)
(* (bridge.rs, init, shutdown and Drop).                                   *)
THEOREM BridgeOneHandle == Spec => []OneHandle
<1>1. IInv => OneHandle
  BY DEF IInv, SessionInv, SessionMatches, GoneIsEmpty, OneHandle
<1> QED
  BY <1>1, Invariance, PTL

(* No command of this host is refused for want of an init, even when it    *)
(* runs ahead of its replies (main.rs, the NOT_INITIALIZED replies).       *)
THEOREM BridgeNeverNotInitialized == Spec => []NeverNotInitialized
<1>1. IInv => NeverNotInitialized
  BY DEF IInv, SessionInv
<1> QED
  BY <1>1, Invariance, PTL

(* With replies within MAX_IPC_LINE the two ends stay in step: between two *)
(* commands the pipes are empty, and during one they hold at most its line *)
(* or its reply, through every crash, refusal and exit (bridge.rs,         *)
(* send_inner and with_backend; main.rs, the loop).                        *)
THEOREM BridgeInStep == OversizeReplies = FALSE => (Spec => []InStep)
<1> SUFFICES ASSUME OversizeReplies = FALSE PROVE Spec => []InStep
  OBVIOUS
<1>1. Spec => [](IInv /\ StepInv)
  BY StepInvariance
<1> QED
  BY <1>1, InStepFromInv, PTL

(* Then whatever reply send_inner accepts, by its type alone, is the reply *)
(* to the command it wrote.                                                *)
THEOREM BridgeAnswersOwnCommand == OversizeReplies = FALSE => (Spec => AnswersOwnCommand)
<1> SUFFICES ASSUME OversizeReplies = FALSE PROVE Spec => AnswersOwnCommand
  OBVIOUS
<1>1. ASSUME IInv, StepInv, Accepts PROVE Head(toHost).id = sent
  <2>1. toHost # <<>> /\ BridgeTypeOK
    BY <1>1 DEF IInv, TypeInv, TypeOK, Accepts, ReadReply
  <2>2. Len(toHost) = 1 /\ Head(toHost) = toHost[1]
    BY <1>1, <2>1, PipeFacts, Removed DEF StepInv, OneInFlight
  <2> QED
    BY <1>1, <2>2 DEF StepInv, FlightIsCommand
<1>2. IInv /\ StepInv /\ [Next]_vars => [Accepts => Head(toHost).id = sent]_vars
  BY <1>1
<1>3. Spec => [](IInv /\ StepInv)
  BY StepInvariance
<1> QED
  BY <1>2, <1>3, PTL DEF Spec, AnswersOwnCommand
=============================================================================
