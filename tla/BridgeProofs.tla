---------------------------- MODULE BridgeProofs ----------------------------
(***************************************************************************)
(* Lemmas about the bridge process and its pipes, for the two systems of   *)
(* which it is a part (BridgeIpcProofs and BridgeClientProofs).            *)
(***************************************************************************)
EXTENDS Bridge, SequenceTheorems, TLAPS

Lines == [id : Nat, kind : LineKinds]
Replies == [id : Nat, type : ReplyTypes]

LEMMA Appended ==
  ASSUME NEW S, NEW s \in Seq(S), NEW e \in S
  PROVE  /\ Append(s, e) \in Seq(S) /\ Len(Append(s, e)) = Len(s) + 1 /\ Append(s, e) # <<>>
         /\ Append(s, e)[Len(s) + 1] = e
         /\ \A i \in 1..Len(s) : Append(s, e)[i] = s[i]
BY AppendProperties

LEMMA Removed ==
  ASSUME NEW S, NEW s \in Seq(S), s # <<>>
  PROVE  /\ Tail(s) \in Seq(S) /\ Len(Tail(s)) = Len(s) - 1
         /\ Len(s) \in Nat \ {0} /\ Head(s) = s[1] /\ Head(s) \in S
         /\ \A i \in 1..Len(Tail(s)) : Tail(s)[i] = s[i + 1]
BY HeadTailProperties, EmptySeq, ElementOfSeq

LEMMA OkTypes == \A k \in LineKinds : OkType(k) \in ReplyTypes
<1> SUFFICES ASSUME NEW k \in LineKinds PROVE OkType(k) \in ReplyTypes
  OBVIOUS
<1> QED
  BY Zenon DEF OkType, ReplyTypes, LineKinds, CommandKinds, UseKinds

LEMMA Empty ==
  /\ <<>> \in Seq(Lines) /\ <<>> \in Seq(Replies)
  /\ NoLine \in Lines
BY EmptySeq DEF NoLine, Lines, LineKinds

-----------------------------------------------------------------------------
(* A device is closed only after it was opened.                            *)
ReadyHolds == ready = TRUE => held >= 1

(* What a step of the bridge process writes is a reply to its line.        *)
LEMMA BridgeTypes ==
  ASSUME BridgeTypeOK, ReadyHolds, BridgeStep \/ Crash
  PROVE  BridgeTypeOK' /\ ReadyHolds'
<1> USE DEF BridgeTypeOK, ReadyHolds, Lines, Replies, BridgePCs
<1>1. ASSUME NEW t \in ReplyTypes, Reply(t) PROVE toHost' \in Seq(Replies)
  BY <1>1, Appended DEF Reply
<1>2. "error" \in ReplyTypes /\ "device_info" \in ReplyTypes /\ "void" \in ReplyTypes
      /\ "not_initialized" \in ReplyTypes /\ "head" \in ReplyTypes /\ "tail" \in ReplyTypes
  BY DEF ReplyTypes
<1>3. CASE ReadLine
  <2>1. Tail(toBridge) \in Seq(Lines) /\ Head(toBridge) \in Lines
    BY <1>3, Removed DEF ReadLine
  <2> QED
    BY <1>3, <2>1 DEF ReadLine
<1>4. CASE ReadEof
  BY <1>4 DEF ReadEof
<1>5. CASE RefuseOversize \/ RefuseMalformed
  BY <1>5, <1>1, <1>2 DEF RefuseOversize, RefuseMalformed
<1>6. CASE HandleInit
  <2>1. /\ toHost' \in Seq(Replies)
        /\ UNCHANGED <<toBridge, stdinOpen, line>> /\ bpc' = "reading"
    BY <1>6, <1>1, <1>2 DEF HandleInit
  <2>2. /\ held' \in {held, held + 1}
        /\ UNCHANGED ready \/ (ready' = TRUE /\ held' = held + 1)
    BY <1>6 DEF HandleInit
  <2>3. held' \in Nat /\ (held >= 1 => held' >= 1) /\ held + 1 >= 1
    BY <2>2
  <2>4. ready' \in BOOLEAN /\ (ready' = TRUE => held' >= 1)
    BY <2>2, <2>3
  <2> QED
    BY <2>1, <2>3, <2>4
<1>7. CASE HandleUse
  <2>1. toHost' \in Seq(Replies)
    <3>1. CASE Reply("error") \/ Reply("not_initialized") \/ Reply(OkType(line.kind))
      BY <3>1, <1>1, <1>2, OkTypes
    <3>2. CASE toHost' = toHost \o <<[id |-> line.id, type |-> "head"],
                                     [id |-> line.id, type |-> "tail"]>>
      <4>1. <<[id |-> line.id, type |-> "head"], [id |-> line.id, type |-> "tail"]>>
              \in Seq(Replies)
        BY <1>2
      <4> QED
        BY <3>2, <4>1, ConcatProperties
    <3> QED
      BY <1>7, <3>1, <3>2 DEF HandleUse
  <2> QED
    BY <1>7, <2>1 DEF HandleUse
<1>8. CASE HandleDisconnect
  <2>1. toHost' \in Seq(Replies)
    BY <1>8, <1>1, <1>2 DEF HandleDisconnect
  <2>2. ready' = FALSE /\ held' \in Nat
    BY <1>8 DEF HandleDisconnect, CloseState
  <2> QED
    BY <1>8, <2>1, <2>2 DEF HandleDisconnect
<1>9. CASE Leave \/ Crash
  <2>1. Vanish /\ UNCHANGED <<toHost, stdinOpen>>
    BY <1>9 DEF Leave, Crash
  <2>2. /\ toBridge' = <<>> /\ line' = NoLine /\ bpc' = "gone"
        /\ ready' = FALSE /\ held' = 0
    BY <2>1 DEF Vanish
  <2>3. BridgeTypeOK'
    BY <2>1, <2>2, Empty
  <2> QED
    BY <2>2, <2>3
<1> QED
  BY <1>3, <1>4, <1>5, <1>6, <1>7, <1>8, <1>9 DEF BridgeStep

-----------------------------------------------------------------------------
(* The lengths of the two pipes are what the types say.                    *)
LEMMA PipeFacts ==
  ASSUME BridgeTypeOK
  PROVE  /\ toBridge \in Seq(Lines) /\ toHost \in Seq(Replies)
         /\ Len(toBridge) \in Nat /\ Len(toHost) \in Nat
         /\ toBridge = <<>> <=> Len(toBridge) = 0
         /\ toHost = <<>> <=> Len(toHost) = 0
BY EmptySeq, LenProperties DEF BridgeTypeOK, Lines, Replies

(* Taking up a line moves the others forward.                              *)
LEMMA LineTaken ==
  ASSUME BridgeTypeOK, ReadLine
  PROVE  /\ Len(toBridge) \in Nat \ {0} /\ Len(toBridge') = Len(toBridge) - 1
         /\ toBridge' = <<>> <=> Len(toBridge) = 1
         /\ \A i \in 1..Len(toBridge') : toBridge'[i] = toBridge[i + 1]
         /\ bpc = "reading" /\ bpc' \in {"reading", "handling"}
         /\ bpc' = "handling" => line' = toBridge[1]
         /\ bpc' = "handling" <=> toBridge[1].kind # "blank"
         /\ UNCHANGED <<toHost, stdinOpen, ready, held>>
<1>1. /\ Tail(toBridge) \in Seq(Lines) /\ Len(Tail(toBridge)) = Len(toBridge) - 1
      /\ Len(toBridge) \in Nat \ {0} /\ Head(toBridge) = toBridge[1]
      /\ \A i \in 1..Len(Tail(toBridge)) : Tail(toBridge)[i] = toBridge[i + 1]
  BY PipeFacts, Removed DEF ReadLine
<1>2. Tail(toBridge) = <<>> <=> Len(Tail(toBridge)) = 0
  BY <1>1, EmptySeq
<1>3. Tail(toBridge) = <<>> <=> Len(toBridge) = 1
  BY <1>1, <1>2
<1>4. toBridge' = Tail(toBridge) /\ bpc = "reading" /\ UNCHANGED <<toHost, stdinOpen, ready, held>>
  BY DEF ReadLine
<1>5. /\ bpc' \in {"reading", "handling"}
      /\ bpc' = "handling" => line' = toBridge[1]
      /\ bpc' = "handling" <=> toBridge[1].kind # "blank"
  BY <1>1, <1>4 DEF ReadLine
<1> QED
  BY <1>1, <1>3, <1>4, <1>5

(* What a reply adds to the pipe.                                          *)
LEMMA Replied ==
  ASSUME BridgeTypeOK, NEW t \in ReplyTypes, Reply(t)
  PROVE  /\ Len(toHost') = Len(toHost) + 1 /\ toHost' # <<>>
         /\ toHost'[Len(toHost) + 1] = [id |-> line.id, type |-> t]
         /\ \A i \in 1..Len(toHost) : toHost'[i] = toHost[i]
<1>1. [id |-> line.id, type |-> t] \in Replies
  BY DEF BridgeTypeOK, Replies
<1> QED
  BY <1>1, PipeFacts, Appended DEF Reply
=============================================================================
