------------------------- MODULE BridgeClientProofs -------------------------
(***************************************************************************)
(* Proofs about BridgeClient: whatever lines a client writes, in whatever  *)
(* number, it can tell by counting which reply answers which line, and the *)
(* replies say whether the bridge has a session.                           *)
(***************************************************************************)
EXTENDS BridgeClient, BridgeProofs

(* Lines that the bridge has taken from its pipe.                          *)
Read == Len(written) - Len(toBridge)

(* The pipe holds the last lines written, and the one being handled is the *)
(* one before them.                                                        *)
LinesInv ==
  /\ \A i \in 1..Len(toHost) : toHost[i].id \in 1..Len(written)
  /\ bpc # "gone" =>
       /\ Len(toBridge) <= Len(written)
       /\ \A i \in 1..Len(toBridge) :
            toBridge[i].id = Read + i /\ toBridge[i].kind = written[Read + i]
  /\ bpc = "handling" =>
       line.id = Read /\ Read >= 1 /\ line.kind = written[Read] /\ line.kind # "blank"

(* After the first n replies h the bridge has a session.                   *)
OpenAfter(h, n) ==
  \E j \in 1..n : h[j].type = "device_info" /\ ~\E k \in (j + 1)..n : h[k].type = "void"

(* Reply i of h to the lines w refuses an operation for want of a session  *)
(* and only then.                                                          *)
Refuses(h, w, i) ==
  w[h[i].id] \in UseKinds => (h[i].type = "not_initialized" <=> ~OpenAfter(h, i - 1))

SessionInv ==
  /\ bpc # "gone" => (ready = TRUE <=> OpenAfter(toHost, Len(toHost)))
  /\ \A i \in 1..Len(toHost) : Refuses(toHost, written, i)

IInv == TypeOK /\ ReadyHolds /\ LinesInv /\ SessionInv

(* The replies so far answer the first r lines.                            *)
AnsweredUpTo(r) ==
  /\ \A i \in 1..Len(toHost) : toHost[i].id \in 1..r /\ written[toHost[i].id] # "blank"
  /\ \A i, j \in 1..Len(toHost) : i < j => toHost[i].id < toHost[j].id
  /\ \A n \in 1..r : written[n] # "blank" => Answered(n)

(* A line over the limit and the end of the bridge leave lines unanswered, *)
(* never one before an answered one.                                       *)
AnswersInv ==
  /\ bpc = "gone" => \E r \in 0..Len(written) : AnsweredUpTo(r)
  /\ bpc = "handling" => AnsweredUpTo(Read - 1)
  /\ bpc \in {"reading", "leaving"} => AnsweredUpTo(Read)

-----------------------------------------------------------------------------
(* Lists of replies.                                                       *)

(* One more reply: what it opens or closes, and nothing changes before it. *)
LEMMA OneMore ==
  ASSUME NEW h \in Seq(Replies), NEW r \in Replies, NEW g, g = Append(h, r)
  PROVE  /\ g \in Seq(Replies) /\ Len(g) = Len(h) + 1 /\ Len(h) \in Nat
         /\ g[Len(h) + 1] = r
         /\ \A i \in 1..Len(h) : g[i] = h[i]
         /\ \A n \in 0..Len(h) : OpenAfter(g, n) <=> OpenAfter(h, n)
         /\ r.type = "device_info" => OpenAfter(g, Len(g))
         /\ r.type = "void" => ~OpenAfter(g, Len(g))
         /\ r.type \notin {"device_info", "void"} =>
              (OpenAfter(g, Len(g)) <=> OpenAfter(h, Len(h)))
<1>1. /\ g \in Seq(Replies) /\ Len(g) = Len(h) + 1 /\ Len(h) \in Nat
      /\ g[Len(h) + 1] = r
      /\ \A i \in 1..Len(h) : g[i] = h[i]
  BY Appended, LenProperties
<1>2. ASSUME NEW n \in 0..Len(h) PROVE OpenAfter(g, n) <=> OpenAfter(h, n)
  <2>1. \A j \in 1..n : g[j] = h[j] /\ \A k \in (j + 1)..n : g[k] = h[k]
    BY <1>1
  <2> QED
    BY <2>1 DEF OpenAfter
<1>3. ASSUME r.type = "device_info" PROVE OpenAfter(g, Len(g))
  <2>1. Len(g) \in 1..Len(g) /\ g[Len(g)].type = "device_info" /\ (Len(g) + 1)..Len(g) = {}
    BY <1>1, <1>3
  <2> QED
    BY <2>1 DEF OpenAfter
<1>4. ASSUME r.type = "void" PROVE ~OpenAfter(g, Len(g))
  <2> SUFFICES ASSUME NEW j \in 1..Len(g), g[j].type = "device_info"
               PROVE  \E k \in (j + 1)..Len(g) : g[k].type = "void"
    BY DEF OpenAfter
  <2>1. j # Len(g)
    BY <1>1, <1>4
  <2>2. Len(g) \in (j + 1)..Len(g) /\ g[Len(g)].type = "void"
    BY <1>1, <1>4, <2>1
  <2> QED
    BY <2>2
<1>5. ASSUME r.type \notin {"device_info", "void"}
      PROVE  OpenAfter(g, Len(g)) <=> OpenAfter(h, Len(h))
  <2>1. ASSUME NEW j \in 1..Len(h), \A k \in (j + 1)..Len(h) : h[k].type # "void"
        PROVE  \A k \in (j + 1)..Len(g) : g[k].type # "void"
    <3> TAKE k \in (j + 1)..Len(g)
    <3>1. (k \in (j + 1)..Len(h) /\ k \in 1..Len(h)) \/ k = Len(h) + 1
      BY <1>1
    <3> QED
      BY <1>1, <1>5, <2>1, <3>1
  <2>2. ASSUME NEW j \in 1..Len(g), g[j].type = "device_info",
               \A k \in (j + 1)..Len(g) : g[k].type # "void"
        PROVE  /\ j \in 1..Len(h) /\ h[j].type = "device_info"
               /\ \A k \in (j + 1)..Len(h) : h[k].type # "void"
    <3>1. j \in 1..Len(h)
      BY <1>1, <1>5, <2>2
    <3>2. \A k \in (j + 1)..Len(h) : k \in (j + 1)..Len(g) /\ g[k] = h[k]
      BY <1>1, <3>1
    <3> QED
      BY <1>1, <2>2, <3>1, <3>2
  <2>3. OpenAfter(g, Len(g)) => OpenAfter(h, Len(h))
    BY <2>2 DEF OpenAfter
  <2>4. OpenAfter(h, Len(h)) => OpenAfter(g, Len(g))
    <3> SUFFICES ASSUME NEW j \in 1..Len(h), h[j].type = "device_info",
                        \A k \in (j + 1)..Len(h) : h[k].type # "void"
                 PROVE  OpenAfter(g, Len(g))
      BY DEF OpenAfter
    <3>1. \A k \in (j + 1)..Len(g) : g[k].type # "void"
      BY <2>1
    <3>2. j \in 1..Len(g) /\ g[j].type = "device_info"
      BY <1>1
    <3> QED
      BY <3>1, <3>2 DEF OpenAfter
  <2> QED
    BY <2>3, <2>4
<1> QED
  BY <1>1, <1>2, <1>3, <1>4, <1>5

LEMMA OneMoreRefuses ==
  ASSUME NEW h \in Seq(Replies), NEW r \in Replies, NEW g, g = Append(h, r),
         NEW w, \A i \in 1..Len(h) : Refuses(h, w, i),
         w[r.id] \in UseKinds => (r.type = "not_initialized" <=> ~OpenAfter(h, Len(h)))
  PROVE  \A i \in 1..Len(g) : Refuses(g, w, i)
<1>0. \A n \in 0..Len(h) : OpenAfter(g, n) <=> OpenAfter(h, n)
  BY OneMore, Zenon
<1> TAKE i \in 1..Len(g)
<1>1. /\ Len(g) = Len(h) + 1 /\ Len(h) \in Nat /\ g[Len(h) + 1] = r
      /\ \A n \in 1..Len(h) : g[n] = h[n]
  BY Appended, LenProperties
<1>2. OpenAfter(g, i - 1) <=> OpenAfter(h, i - 1)
  <2>1. i - 1 \in 0..Len(h)
    BY <1>1
  <2> QED
    BY <1>0, <2>1
<1>3. CASE i \in 1..Len(h)
  BY <1>1, <1>2, <1>3 DEF Refuses
<1>4. CASE i = Len(h) + 1
  <2>1. i - 1 = Len(h) /\ g[i] = r
    BY <1>1, <1>4
  <2> QED
    BY <1>2, <2>1 DEF Refuses
<1> QED
  BY <1>1, <1>3, <1>4

-----------------------------------------------------------------------------
(* The client's steps.                                                     *)

LEMMA InitIInv == Init => IInv
<1> SUFFICES ASSUME Init PROVE IInv
  OBVIOUS
<1>1. BridgeTypeOK /\ ReadyHolds
  BY Empty DEF Init, Started, BridgeTypeOK, ReadyHolds, Lines, Replies, BridgePCs
<1>2. written \in Seq(LineKinds) /\ Len(written) = 0
  BY EmptySeq DEF Init
<1>3. TypeOK
  BY <1>1, <1>2, ClientAssumption DEF TypeOK
<1>4. LinesInv /\ SessionInv
  BY DEF Init, Started, LinesInv, SessionInv, Read, OpenAfter
<1> QED
  BY <1>1, <1>3, <1>4 DEF IInv

(* What a new line leaves as it was.                                       *)
LEMMA Written ==
  ASSUME TypeOK, NEW k \in LineKinds, Write(k)
  PROVE  /\ TypeOK' /\ Len(written) \in Nat /\ Len(written') = Len(written) + 1
         /\ \A n \in 1..Len(written) : written'[n] = written[n]
         /\ written'[Len(written) + 1] = k
         /\ Len(toBridge) \in Nat /\ Len(toBridge') = Len(toBridge) + 1
         /\ \A n \in 1..Len(toBridge) : toBridge'[n] = toBridge[n]
         /\ toBridge'[Len(toBridge) + 1] = [id |-> Len(written) + 1, kind |-> k]
         /\ Read \in Int /\ Read' = Read
         /\ bpc # "gone" /\ UNCHANGED <<toHost, stdinOpen, bpc, line, ready, held>>
<1> DEFINE l == [id |-> Len(written) + 1, kind |-> k]
<1>1. /\ bpc # "gone" /\ UNCHANGED <<toHost, stdinOpen, bpc, line, ready, held>>
      /\ Len(written) < MaxLines /\ written' = Append(written, k)
      /\ toBridge' = Append(toBridge, l)
  BY DEF Write
<1>2. written \in Seq(LineKinds) /\ Len(written) \in Nat
  BY LenProperties DEF TypeOK
<1>3. l \in Lines /\ toBridge \in Seq(Lines) /\ Len(toBridge) \in Nat
  BY <1>2, PipeFacts DEF Lines, TypeOK
<1>4. /\ written' \in Seq(LineKinds) /\ Len(written') = Len(written) + 1
      /\ \A n \in 1..Len(written) : written'[n] = written[n]
      /\ written'[Len(written) + 1] = k
  BY <1>1, <1>2, Appended
<1>5. /\ toBridge' \in Seq(Lines) /\ Len(toBridge') = Len(toBridge) + 1
      /\ \A n \in 1..Len(toBridge) : toBridge'[n] = toBridge[n]
      /\ toBridge'[Len(toBridge) + 1] = l
  BY <1>1, <1>3, Appended
<1>6. BridgeTypeOK'
  BY <1>1, <1>5 DEF TypeOK, BridgeTypeOK, Lines
<1>7. TypeOK'
  BY <1>1, <1>2, <1>4, <1>6, ClientAssumption DEF TypeOK
<1>8. Read \in Int /\ Read' = Read
  BY <1>2, <1>3, <1>4, <1>5 DEF Read
<1> QED
  BY <1>1, <1>2, <1>3, <1>4, <1>5, <1>7, <1>8

LEMMA WriteKeeps ==
  ASSUME IInv, NEW k \in LineKinds, Write(k)
  PROVE  IInv'
<1>0. TypeOK
  BY DEF IInv
<1>1. TypeOK' /\ ReadyHolds'
  BY <1>0, Written DEF IInv, ReadyHolds
<1>2. /\ Len(written) \in Nat /\ Len(written') = Len(written) + 1
      /\ \A n \in 1..Len(written) : written'[n] = written[n]
      /\ written'[Len(written) + 1] = k
      /\ Len(toBridge) \in Nat /\ Len(toBridge') = Len(toBridge) + 1
      /\ \A n \in 1..Len(toBridge) : toBridge'[n] = toBridge[n]
      /\ toBridge'[Len(toBridge) + 1] = [id |-> Len(written) + 1, kind |-> k]
      /\ Read \in Int /\ Read' = Read
      /\ bpc # "gone" /\ UNCHANGED <<toHost, bpc, line, ready>>
  BY <1>0, Written
<1>3. Read = Len(written) - Len(toBridge) /\ Len(toBridge) <= Len(written)
  BY <1>2 DEF Read, IInv, LinesInv
<1>4. \A i \in 1..Len(toHost') : toHost'[i].id \in 1..Len(written) /\ toHost'[i] = toHost[i]
  BY <1>2 DEF IInv, LinesInv
<1>5. \A i \in 1..Len(toBridge') :
        toBridge'[i].id = Read' + i /\ toBridge'[i].kind = written'[Read' + i]
  <2> TAKE i \in 1..Len(toBridge')
  <2>1. CASE i \in 1..Len(toBridge)
    <3>1. Read + i \in 1..Len(written)
      BY <1>2, <1>3, <2>1
    <3>2. toBridge[i].id = Read + i /\ toBridge[i].kind = written[Read + i]
      BY <1>2, <2>1 DEF IInv, LinesInv
    <3> QED
      BY <1>2, <2>1, <3>1, <3>2
  <2>2. CASE i = Len(toBridge) + 1
    <3>1. Read + i = Len(written) + 1
      BY <1>2, <1>3, <2>2
    <3> QED
      BY <1>2, <2>2, <3>1
  <2> QED
    BY <1>2, <2>1, <2>2
<1>6. bpc' = "handling" =>
        line'.id = Read' /\ Read' >= 1 /\ line'.kind = written'[Read'] /\ line'.kind # "blank"
  <2>1. Read >= 1 => Read \in 1..Len(written)
    BY <1>2, <1>3
  <2> QED
    BY <1>2, <2>1 DEF IInv, LinesInv
<1>7. LinesInv'
  <2>1. \A i \in 1..Len(toHost') : toHost'[i].id \in 1..Len(written')
    BY <1>2, <1>4
  <2>2. Len(toBridge') <= Len(written')
    BY <1>2, <1>3
  <2> QED
    BY <1>5, <1>6, <2>1, <2>2 DEF LinesInv
<1>8. SessionInv'
  <2>1. \A i \in 1..Len(toHost) : Refuses(toHost, written, i) => Refuses(toHost, written', i)
    BY <1>2, <1>4 DEF Refuses
  <2> QED
    BY <1>2, <2>1 DEF IInv, SessionInv
<1> QED
  BY <1>1, <1>7, <1>8 DEF IInv

-----------------------------------------------------------------------------
(* The bridge's steps.                                                     *)

LEMMA Numbers ==
  ASSUME TypeOK
  PROVE  Len(written) \in Nat /\ Len(toBridge) \in Nat /\ Len(toHost) \in Nat /\ Read \in Int
<1>1. BridgeTypeOK /\ written \in Seq(LineKinds)
  BY DEF TypeOK
<1>2. Len(written) \in Nat /\ Len(toBridge) \in Nat /\ Len(toHost) \in Nat
  BY <1>1, LenProperties, PipeFacts
<1> QED
  BY <1>2 DEF Read

LEMMA ReadLineKeeps ==
  ASSUME IInv, ReadLine, UNCHANGED written
  PROVE  LinesInv' /\ SessionInv' /\ Read' = Read + 1
<1>0. TypeOK /\ BridgeTypeOK
  BY DEF IInv, TypeOK
<1>1. /\ Len(toBridge) \in Nat \ {0} /\ Len(toBridge') = Len(toBridge) - 1
      /\ \A i \in 1..Len(toBridge') : toBridge'[i] = toBridge[i + 1]
      /\ bpc = "reading" /\ bpc' \in {"reading", "handling"}
      /\ bpc' = "handling" => line' = toBridge[1] /\ toBridge[1].kind # "blank"
      /\ UNCHANGED <<toHost, ready, written>>
  BY <1>0, LineTaken
<1>2. Read' = Read + 1 /\ Read \in Int /\ Read >= 0 /\ Len(toBridge) <= Len(written)
  <2>1. Len(written) \in Nat /\ Len(toBridge) <= Len(written)
    BY <1>0, <1>1, Numbers DEF IInv, LinesInv
  <2> QED
    BY <1>1, <2>1 DEF Read
<1>3. \A i \in 1..Len(toBridge') :
        toBridge'[i].id = Read' + i /\ toBridge'[i].kind = written[Read' + i]
  <2> TAKE i \in 1..Len(toBridge')
  <2>1. i + 1 \in 1..Len(toBridge) /\ Read + (i + 1) = Read' + i
    BY <1>1, <1>2
  <2>2. toBridge[i + 1].id = Read + (i + 1) /\ toBridge[i + 1].kind = written[Read + (i + 1)]
    BY <1>1, <2>1 DEF IInv, LinesInv
  <2> QED
    BY <1>1, <2>1, <2>2
<1>4. bpc' = "handling" =>
        line'.id = Read' /\ Read' >= 1 /\ line'.kind = written[Read'] /\ line'.kind # "blank"
  <2>1. 1 \in 1..Len(toBridge)
    BY <1>1
  <2>2. toBridge[1].id = Read + 1 /\ toBridge[1].kind = written[Read + 1]
    BY <1>1, <2>1 DEF IInv, LinesInv
  <2> QED
    BY <1>1, <1>2, <2>2
<1>5. LinesInv'
  <2>1. Len(toBridge') <= Len(written')
    BY <1>0, <1>1, <1>2, Numbers
  <2> QED
    BY <1>1, <1>3, <1>4, <2>1 DEF LinesInv, IInv
<1>6. SessionInv'
  BY <1>1 DEF SessionInv, IInv
<1> QED
  BY <1>2, <1>5, <1>6

(* The line that a handler answers.                                        *)
LEMMA Handled ==
  ASSUME IInv, bpc = "handling"
  PROVE  /\ line.id = Read /\ Read \in 1..Len(written) /\ written[line.id] = line.kind
         /\ line.kind # "blank"
<1>1. Len(written) \in Nat /\ Len(toBridge) \in Nat
  BY Numbers DEF IInv
<1>2. Read \in Int /\ Read <= Len(written) /\ Read >= 1
  BY <1>1 DEF Read, IInv, LinesInv
<1> QED
  BY <1>1, <1>2 DEF IInv, LinesInv

(* One reply, and whether it may follow those there are.                   *)
Fits(t) ==
  /\ line.kind \in UseKinds => (t = "not_initialized" <=> ready = FALSE)
  /\ t = "device_info" => ready' = TRUE
  /\ t = "void" => ready' = FALSE
  /\ t \notin {"device_info", "void"} => UNCHANGED ready

LEMMA ReplyKeeps ==
  ASSUME IInv, bpc = "handling", bpc' \in {"reading", "leaving"},
         UNCHANGED <<toBridge, written>>,
         NEW t \in ReplyTypes, Reply(t), Fits(t)
  PROVE  LinesInv' /\ SessionInv'
<1>0. TypeOK /\ BridgeTypeOK /\ ready \in BOOLEAN /\ toHost \in Seq(Replies)
  BY PipeFacts DEF IInv, TypeOK, BridgeTypeOK
<1>1. PICK r \in Replies : r.id = line.id /\ r.type = t /\ toHost' = Append(toHost, r)
  BY <1>0 DEF Replies, Reply, BridgeTypeOK
<1>2. /\ Len(toHost) \in Nat /\ Len(toHost') = Len(toHost) + 1
      /\ toHost'[Len(toHost) + 1] = r /\ \A i \in 1..Len(toHost) : toHost'[i] = toHost[i]
  BY <1>1, <1>0, Appended, LenProperties
<1>3. Read' = Read /\ Len(written') = Len(written)
  BY DEF Read
<1>4. r.id \in 1..Len(written) /\ written[r.id] = line.kind
  BY <1>1, Handled
<1>5. LinesInv'
  <2>1. \A i \in 1..Len(toHost') : toHost'[i].id \in 1..Len(written')
    <3> TAKE i \in 1..Len(toHost')
    <3>1. i \in 1..Len(toHost) \/ i = Len(toHost) + 1
      BY <1>2
    <3> QED
      BY <1>2, <1>3, <1>4, <3>1 DEF IInv, LinesInv
  <2> QED
    BY <1>3, <2>1 DEF LinesInv, IInv
<1>6. ready = TRUE <=> OpenAfter(toHost, Len(toHost))
  BY DEF IInv, SessionInv
<1>7. ready' = TRUE <=> OpenAfter(toHost', Len(toHost'))
  <2>1. /\ r.type = "device_info" => OpenAfter(toHost', Len(toHost'))
        /\ r.type = "void" => ~OpenAfter(toHost', Len(toHost'))
        /\ r.type \notin {"device_info", "void"} =>
             (OpenAfter(toHost', Len(toHost')) <=> OpenAfter(toHost, Len(toHost)))
    BY <1>1, <1>0, OneMore, Zenon
  <2> QED
    BY <1>1, <1>6, <2>1 DEF Fits
<1>8. \A i \in 1..Len(toHost') : Refuses(toHost', written, i)
  <2>1. \A i \in 1..Len(toHost) : Refuses(toHost, written, i)
    BY DEF IInv, SessionInv
  <2>2. written[r.id] \in UseKinds =>
          (r.type = "not_initialized" <=> ~OpenAfter(toHost, Len(toHost)))
    BY <1>0, <1>1, <1>4, <1>6 DEF Fits
  <2> QED
    BY <1>1, <1>0, <2>1, <2>2, OneMoreRefuses, Zenon
<1>9. SessionInv'
  BY <1>7, <1>8 DEF SessionInv
<1> QED
  BY <1>5, <1>9

LEMMA UseTypes ==
  \A k \in UseKinds : OkType(k) \in ReplyTypes \ {"not_initialized", "device_info", "void"}
<1> SUFFICES ASSUME NEW k \in UseKinds
             PROVE  OkType(k) \in ReplyTypes \ {"not_initialized", "device_info", "void"}
  OBVIOUS
<1> QED
  BY Zenon DEF OkType, ReplyTypes, UseKinds

(* Every handler answers with one reply that fits, or with a reply too     *)
(* long for the host.                                                      *)
LEMMA HandlersReply ==
  ASSUME TypeOK,
         RefuseOversize \/ RefuseMalformed \/ HandleInit \/ HandleUse \/ HandleDisconnect
  PROVE  \/ \E t \in ReplyTypes : Reply(t) /\ Fits(t)
         \/ /\ OversizeReplies = TRUE /\ line.kind \in UseKinds /\ ready = TRUE /\ UNCHANGED ready
            /\ toHost' = toHost \o <<[id |-> line.id, type |-> "head"],
                                     [id |-> line.id, type |-> "tail"]>>
<1>0. /\ {"error", "device_info", "void", "not_initialized"} \subseteq ReplyTypes
      /\ UseKinds \cap {"init", "disconnect", "bulk", "malformed"} = {}
  BY DEF ReplyTypes, UseKinds
<1>1. ready \in BOOLEAN /\ OversizeReplies \in BOOLEAN
  BY BridgeAssumption DEF TypeOK, BridgeTypeOK
<1>2. CASE RefuseOversize \/ RefuseMalformed
  <2>1. Fits("error") /\ Reply("error")
    BY <1>0, <1>2 DEF RefuseOversize, RefuseMalformed, Fits
  <2> QED
    BY <1>0, <2>1
<1>3. CASE HandleInit
  <2>1. CASE Reply("error") /\ UNCHANGED ready
    <3>1. Fits("error")
      BY <1>0, <1>3, <2>1 DEF HandleInit, Fits
    <3> QED
      BY <1>0, <2>1, <3>1
  <2>2. CASE Reply("device_info") /\ ready' = TRUE
    <3>1. Fits("device_info")
      BY <1>0, <1>3, <2>2 DEF HandleInit, Fits
    <3> QED
      BY <1>0, <2>2, <3>1
  <2> QED
    BY <1>3, <2>1, <2>2 DEF HandleInit
<1>4. CASE HandleUse
  <2>1. line.kind \in UseKinds /\ UNCHANGED ready
    BY <1>4 DEF HandleUse
  <2>2. CASE ready = FALSE
    <3>1. Reply("not_initialized") /\ Fits("not_initialized")
      BY <1>4, <2>1, <2>2 DEF HandleUse, Fits
    <3> QED
      BY <1>0, <3>1
  <2>3. CASE ready = TRUE
    <3>1. \A t \in {"error", OkType(line.kind)} : t \in ReplyTypes /\ Fits(t)
      BY <1>0, <2>1, <2>3, UseTypes DEF Fits
    <3>2. \/ \E t \in {"error", OkType(line.kind)} : Reply(t)
          \/ /\ OversizeReplies
             /\ toHost' = toHost \o <<[id |-> line.id, type |-> "head"],
                                      [id |-> line.id, type |-> "tail"]>>
      BY <1>4, <2>3 DEF HandleUse
    <3> QED
      BY <1>1, <2>1, <2>3, <3>1, <3>2
  <2> QED
    BY <1>1, <2>2, <2>3
<1>5. CASE HandleDisconnect
  <2>1. Reply("void") /\ Fits("void")
    BY <1>0, <1>5 DEF HandleDisconnect, CloseState, Fits
  <2> QED
    BY <1>0, <2>1
<1> QED
  BY <1>2, <1>3, <1>4, <1>5

(* The two pieces of a long reply are neither refusals nor boundaries.     *)
LEMMA PiecesKeep ==
  ASSUME IInv, bpc = "handling", bpc' \in {"reading", "leaving"},
         UNCHANGED <<toBridge, written, ready>>, ready = TRUE,
         toHost' = toHost \o <<[id |-> line.id, type |-> "head"],
                               [id |-> line.id, type |-> "tail"]>>
  PROVE  LinesInv' /\ SessionInv'
<1>0. TypeOK /\ BridgeTypeOK /\ toHost \in Seq(Replies)
  BY PipeFacts DEF IInv, TypeOK, BridgeTypeOK
<1>1. PICK h \in Replies : h = [id |-> line.id, type |-> "head"]
  BY <1>0 DEF BridgeTypeOK, Replies, ReplyTypes
<1>2. PICK t \in Replies : t = [id |-> line.id, type |-> "tail"]
  BY <1>0 DEF BridgeTypeOK, Replies, ReplyTypes
<1>3. PICK m \in Seq(Replies) : m = Append(toHost, h)
  BY <1>0, <1>1, Appended
<1>4. /\ Len(m) = Len(toHost) + 1 /\ m[Len(toHost) + 1] = h /\ Len(toHost) \in Nat
      /\ \A i \in 1..Len(toHost) : m[i] = toHost[i]
  BY <1>0, <1>3, Appended, LenProperties
<1>5. PICK g \in Seq(Replies) : g = Append(m, t)
  BY <1>2, <1>3, Appended
<1>6. /\ Len(g) = Len(toHost) + 2 /\ g[Len(toHost) + 2] = t /\ g[Len(toHost) + 1] = h
      /\ \A i \in 1..Len(toHost) : g[i] = toHost[i]
  <2>1. /\ Len(g) = Len(m) + 1 /\ g[Len(m) + 1] = t
        /\ \A i \in 1..Len(m) : g[i] = m[i]
    BY <1>5, Appended
  <2> QED
    BY <1>4, <2>1
<1>7. toHost' = g
  <2>1. /\ <<h, t>> \in Seq(Replies) /\ Len(<<h, t>>) = 2 /\ <<h, t>>[1] = h /\ <<h, t>>[2] = t
        /\ toHost' = toHost \o <<h, t>>
    BY <1>1, <1>2
  <2>2. /\ toHost' \in Seq(Replies) /\ Len(toHost') = Len(toHost) + 2
        /\ \A i \in 1..Len(toHost) + 2 :
             toHost'[i] = IF i <= Len(toHost) THEN toHost[i] ELSE <<h, t>>[i - Len(toHost)]
    BY <1>0, <2>1, ConcatProperties
  <2>3. \A i \in 1..Len(toHost') : toHost'[i] = g[i]
    <3> TAKE i \in 1..Len(toHost')
    <3>1. CASE i \in 1..Len(toHost)
      BY <1>4, <1>6, <2>2, <3>1
    <3>2. CASE i = Len(toHost) + 1
      <4>1. ~(i <= Len(toHost)) /\ i - Len(toHost) = 1 /\ i \in 1..Len(toHost) + 2
        BY <1>4, <3>2
      <4> QED
        BY <1>6, <2>1, <2>2, <3>2, <4>1
    <3>3. CASE i = Len(toHost) + 2
      <4>1. ~(i <= Len(toHost)) /\ i - Len(toHost) = 2 /\ i \in 1..Len(toHost) + 2
        BY <1>4, <3>3
      <4> QED
        BY <1>6, <2>1, <2>2, <3>3, <4>1
    <3> QED
      BY <1>4, <2>2, <3>1, <3>2, <3>3
  <2> QED
    BY <1>6, <2>2, <2>3, SeqEqual
<1>8. line.id \in 1..Len(written)
  BY Handled
<1>9. ready = TRUE <=> OpenAfter(toHost, Len(toHost))
  BY DEF IInv, SessionInv
<1>10. OpenAfter(m, Len(m))
  <2>1. h.type \notin {"device_info", "void"}
    BY <1>1
  <2>2. OpenAfter(m, Len(m)) <=> OpenAfter(toHost, Len(toHost))
    BY <1>0, <1>3, <2>1, OneMore, Zenon
  <2> QED
    BY <1>9, <2>2
<1>11. OpenAfter(toHost', Len(toHost'))
  <2>1. t.type \notin {"device_info", "void"}
    BY <1>2
  <2>2. OpenAfter(toHost', Len(toHost')) <=> OpenAfter(m, Len(m))
    BY <1>5, <1>7, <2>1, OneMore, Zenon
  <2> QED
    BY <1>10, <2>2
<1>12. \A i \in 1..Len(m) : Refuses(m, written, i)
  <2>1. \A i \in 1..Len(toHost) : Refuses(toHost, written, i)
    BY DEF IInv, SessionInv
  <2>2. written[h.id] \in UseKinds =>
          (h.type = "not_initialized" <=> ~OpenAfter(toHost, Len(toHost)))
    BY <1>1, <1>9
  <2> QED
    BY <1>0, <1>3, <2>1, <2>2, OneMoreRefuses, Zenon
<1>13. \A i \in 1..Len(toHost') : Refuses(toHost', written, i)
  <2>1. written[t.id] \in UseKinds => (t.type = "not_initialized" <=> ~OpenAfter(m, Len(m)))
    BY <1>2, <1>10
  <2> QED
    BY <1>5, <1>7, <1>12, <2>1, OneMoreRefuses, Zenon
<1>14. \A i \in 1..Len(toHost') : toHost'[i].id \in 1..Len(written)
  <2> TAKE i \in 1..Len(toHost')
  <2>1. i \in 1..Len(toHost) \/ i = Len(toHost) + 1 \/ i = Len(toHost) + 2
    BY <1>4, <1>6, <1>7
  <2>2. CASE i \in 1..Len(toHost)
    BY <1>6, <1>7, <2>2 DEF IInv, LinesInv
  <2>3. CASE toHost'[i] \in {h, t}
    BY <1>1, <1>2, <1>8, <2>3
  <2> QED
    BY <1>6, <1>7, <2>1, <2>2, <2>3
<1>15. LinesInv'
  BY <1>14 DEF LinesInv, IInv, Read
<1> QED
  BY <1>11, <1>13, <1>15 DEF SessionInv

Handlers == RefuseOversize \/ RefuseMalformed \/ HandleInit \/ HandleUse \/ HandleDisconnect

LEMMA HandlersLeave ==
  ASSUME Handlers
  PROVE  bpc = "handling" /\ bpc' \in {"reading", "leaving"} /\ UNCHANGED <<toBridge, line>>
BY DEF Handlers, RefuseOversize, RefuseMalformed, HandleInit, HandleUse, HandleDisconnect

(* The steps that neither take a line nor answer one.                      *)
LEMMA OtherSteps ==
  ASSUME ReadEof \/ Leave \/ Crash \/ CloseStdin \/ UNCHANGED vars,
         CloseStdin \/ UNCHANGED written
  PROVE  /\ UNCHANGED <<toHost, written>>
         /\ \/ bpc' = "gone" /\ toBridge' = <<>>
            \/ /\ UNCHANGED <<toBridge, line, ready>>
               /\ \/ UNCHANGED bpc
                  \/ bpc = "reading" /\ bpc' = "leaving"
BY DEF ReadEof, Leave, Crash, Vanish, CloseStdin, vars, bridgeVars

LEMMA NextIInv == IInv /\ [Next]_vars => IInv'
<1> SUFFICES ASSUME IInv, [Next]_vars PROVE IInv'
  OBVIOUS
<1>1. CASE \E k \in LineKinds : Write(k)
  BY <1>1, WriteKeeps
<1>2. CASE (BridgeStep \/ Crash) /\ UNCHANGED written
  <2>1. TypeOK' /\ ReadyHolds'
    BY <1>2, BridgeTypes DEF IInv, TypeOK
  <2>2. CASE ReadLine
    BY <1>2, <2>1, <2>2, ReadLineKeeps DEF IInv
  <2>3. CASE Handlers
    <3>1. TypeOK /\ bpc = "handling" /\ bpc' \in {"reading", "leaving"} /\ UNCHANGED <<toBridge, written>>
      BY <1>2, <2>3, HandlersLeave DEF IInv
    <3>2. CASE \E t \in ReplyTypes : Reply(t) /\ Fits(t)
      BY <2>1, <3>1, <3>2, ReplyKeeps DEF IInv
    <3>3. CASE /\ ready = TRUE /\ UNCHANGED ready
               /\ toHost' = toHost \o <<[id |-> line.id, type |-> "head"],
                                        [id |-> line.id, type |-> "tail"]>>
      BY <2>1, <3>1, <3>3, PiecesKeep DEF IInv
    <3> QED
      BY <2>3, <3>1, <3>2, <3>3, HandlersReply DEF Handlers
  <2>4. CASE ReadEof \/ Leave \/ Crash
    <3>1. LinesInv' /\ SessionInv'
      BY <1>2, <2>4, OtherSteps DEF IInv, LinesInv, SessionInv, Read
    <3> QED
      BY <2>1, <3>1 DEF IInv
  <2> QED
    BY <1>2, <2>2, <2>3, <2>4 DEF BridgeStep, Handlers
<1>3. CASE CloseStdin \/ UNCHANGED vars
  <2>1. TypeOK' /\ ReadyHolds'
    BY <1>3 DEF IInv, TypeOK, BridgeTypeOK, ReadyHolds, CloseStdin, vars, bridgeVars
  <2>2. LinesInv' /\ SessionInv'
    BY <1>3 DEF IInv, LinesInv, SessionInv, Read, CloseStdin, vars, bridgeVars
  <2> QED
    BY <2>1, <2>2 DEF IInv
<1> QED
  BY <1>1, <1>2, <1>3 DEF Next, Done

LEMMA Invariance == Spec => []IInv
BY InitIInv, NextIInv, PTL DEF Spec

-----------------------------------------------------------------------------
(* Answers, one for each line.                                             *)

LEMMA InitAnswers == Init => AnswersInv
BY DEF Init, Started, AnswersInv, AnsweredUpTo, Read

LEMMA WriteAnswers ==
  ASSUME IInv, AnswersInv, NEW k \in LineKinds, Write(k)
  PROVE  AnswersInv'
<1>1. /\ Len(written) \in Nat /\ Read' = Read /\ UNCHANGED <<toHost, bpc>> /\ bpc # "gone"
      /\ \A n \in 1..Len(written) : written'[n] = written[n]
  BY Written DEF IInv
<1>2. Read \in Int /\ Read <= Len(written)
  BY Numbers DEF Read, IInv
<1>3. ASSUME NEW r \in Int, r <= Len(written), AnsweredUpTo(r)
      PROVE  AnsweredUpTo(r)'
  <2>1. 1..r \subseteq 1..Len(written)
    BY <1>1, <1>3
  <2> QED
    BY <1>1, <1>3, <2>1 DEF AnsweredUpTo, Answered
<1>4. Read - 1 \in Int /\ Read - 1 <= Len(written)
  BY <1>1, <1>2
<1> QED
  BY <1>1, <1>2, <1>3, <1>4 DEF AnswersInv

(* A blank line needs no answer.                                           *)
LEMMA ReadLineAnswers ==
  ASSUME IInv, AnswersInv, ReadLine, UNCHANGED written
  PROVE  AnswersInv'
<1>1. /\ bpc = "reading" /\ bpc' \in {"reading", "handling"} /\ UNCHANGED toHost
      /\ Read' = Read + 1 /\ Read \in Int
      /\ bpc' = "reading" => written[Read + 1] = "blank"
  <2>1. BridgeTypeOK /\ TypeOK
    BY DEF IInv, TypeOK
  <2>2. /\ Len(toBridge) \in Nat \ {0} /\ bpc = "reading" /\ bpc' \in {"reading", "handling"}
        /\ bpc' = "handling" <=> toBridge[1].kind # "blank"
        /\ UNCHANGED toHost
    BY <2>1, LineTaken
  <2>3. 1 \in 1..Len(toBridge)
    BY <2>2
  <2>4. toBridge[1].kind = written[Read + 1]
    BY <2>2, <2>3 DEF IInv, LinesInv
  <2> QED
    BY <2>1, <2>2, <2>4, ReadLineKeeps, Numbers
<1>2. AnsweredUpTo(Read)
  BY <1>1 DEF AnswersInv
<1>3. CASE bpc' = "handling"
  <2>1. Read' - 1 = Read
    BY <1>1
  <2>2. AnsweredUpTo(Read - 1)'
    BY <1>1, <1>2, <2>1 DEF AnsweredUpTo, Answered
  <2> QED
    BY <1>3, <2>1, <2>2 DEF AnswersInv
<1>4. CASE bpc' = "reading"
  <2>1. \A n \in 1..Read' : n \in 1..Read \/ written[n] = "blank"
    BY <1>1, <1>4
  <2>2. 1..Read \subseteq 1..Read'
    BY <1>1
  <2>3. AnsweredUpTo(Read)'
    BY <1>1, <1>2, <2>1, <2>2 DEF AnsweredUpTo, Answered
  <2> QED
    BY <1>4, <2>3 DEF AnswersInv
<1> QED
  BY <1>1, <1>3, <1>4

LEMMA HandlersAnswer ==
  ASSUME OversizeReplies = FALSE, IInv, AnswersInv, Handlers, UNCHANGED written
  PROVE  AnswersInv'
<1>1. /\ bpc = "handling" /\ bpc' \in {"reading", "leaving"} /\ Read' = Read
      /\ UNCHANGED written
  BY HandlersLeave DEF Read
<1>2. /\ line.id = Read /\ Read \in 1..Len(written) /\ written[Read] # "blank"
      /\ Len(written) \in Nat
  BY <1>1, Handled, Numbers DEF IInv
<1>3. PICK t \in ReplyTypes : Reply(t)
  BY HandlersReply DEF IInv, Handlers
<1>4. PICK e \in Replies : e.id = Read /\ toHost' = Append(toHost, e)
  BY <1>2, <1>3 DEF Reply, IInv, TypeOK, BridgeTypeOK, Replies
<1>5. /\ Len(toHost) \in Nat /\ Len(toHost') = Len(toHost) + 1
      /\ toHost'[Len(toHost) + 1] = e /\ \A i \in 1..Len(toHost) : toHost'[i] = toHost[i]
  <2>1. toHost \in Seq(Replies)
    BY PipeFacts DEF IInv, TypeOK
  <2> QED
    BY <1>4, <2>1, Appended, LenProperties
<1>6. AnsweredUpTo(Read - 1)
  BY <1>1 DEF AnswersInv
<1>7. ASSUME NEW i \in 1..Len(toHost')
      PROVE  /\ toHost'[i].id \in 1..Read /\ written[toHost'[i].id] # "blank"
             /\ i # Len(toHost') => i \in 1..Len(toHost) /\ toHost'[i].id < Read
  <2>1. CASE i \in 1..Len(toHost)
    <3>1. toHost'[i] = toHost[i] /\ toHost[i].id \in 1..(Read - 1)
          /\ written[toHost[i].id] # "blank"
      BY <1>5, <1>6, <2>1 DEF AnsweredUpTo
    <3> QED
      BY <1>2, <2>1, <3>1
  <2>2. CASE i = Len(toHost) + 1
    BY <1>2, <1>4, <1>5, <2>2
  <2> QED
    BY <1>5, <2>1, <2>2
<1>8. \A i, j \in 1..Len(toHost') : i < j => toHost'[i].id < toHost'[j].id
  <2> SUFFICES ASSUME NEW i \in 1..Len(toHost'), NEW j \in 1..Len(toHost'), i < j
               PROVE  toHost'[i].id < toHost'[j].id
    OBVIOUS
  <2>1. i \in 1..Len(toHost) /\ toHost'[i].id < Read
    BY <1>5, <1>7
  <2>2. CASE j = Len(toHost')
    BY <1>4, <1>5, <2>1, <2>2
  <2>3. CASE j # Len(toHost')
    <3>1. j \in 1..Len(toHost)
      BY <1>7, <2>3
    <3> QED
      BY <1>5, <1>6, <2>1, <3>1 DEF AnsweredUpTo
  <2> QED
    BY <2>2, <2>3
<1>9. \A n \in 1..Read : written[n] # "blank" => Answered(n)'
  <2> SUFFICES ASSUME NEW n \in 1..Read, written[n] # "blank"
               PROVE  \E j \in 1..Len(toHost') : toHost'[j].id = n
    BY DEF Answered
  <2>1. CASE n = Read
    <3>1. Len(toHost) + 1 \in 1..Len(toHost')
      BY <1>5
    <3> QED
      BY <1>4, <1>5, <2>1, <3>1
  <2>2. CASE n # Read
    <3>1. n \in 1..(Read - 1)
      BY <1>2, <2>2
    <3>2. PICK j \in 1..Len(toHost) : toHost[j].id = n
      BY <1>6, <3>1 DEF AnsweredUpTo, Answered
    <3>3. j \in 1..Len(toHost') /\ toHost'[j].id = n
      BY <1>5, <3>2
    <3> QED
      BY <3>3
  <2> QED
    BY <2>1, <2>2
<1>10. AnsweredUpTo(Read)'
  BY <1>1, <1>7, <1>8, <1>9 DEF AnsweredUpTo
<1> QED
  BY <1>1, <1>10 DEF AnswersInv

LEMMA NextAnswers ==
  OversizeReplies = FALSE /\ IInv /\ AnswersInv /\ [Next]_vars => AnswersInv'
<1> SUFFICES ASSUME OversizeReplies = FALSE, IInv, AnswersInv, [Next]_vars PROVE AnswersInv'
  OBVIOUS
<1>1. CASE \E k \in LineKinds : Write(k)
  BY <1>1, WriteAnswers
<1>2. CASE ReadLine /\ UNCHANGED written
  BY <1>2, ReadLineAnswers
<1>3. CASE Handlers /\ UNCHANGED written
  BY <1>3, HandlersAnswer
<1>4. CASE /\ ReadEof \/ Leave \/ Crash \/ CloseStdin \/ UNCHANGED vars
           /\ CloseStdin \/ UNCHANGED written
  <2>1. /\ UNCHANGED <<toHost, written>>
        /\ \/ bpc' = "gone" /\ toBridge' = <<>>
           \/ /\ Read' = Read
              /\ \/ UNCHANGED bpc
                 \/ bpc = "reading" /\ bpc' = "leaving"
    BY <1>4, OtherSteps DEF Read
  <2>2. \A r : AnsweredUpTo(r) => AnsweredUpTo(r)'
    BY <2>1 DEF AnsweredUpTo, Answered
  <2>3. CASE bpc' = "gone"
    <3>1. \E r \in 0..Len(written) : AnsweredUpTo(r)
      <4>1. Len(written) \in Nat /\ Len(toBridge) \in Nat /\ Read \in Int
        BY Numbers DEF IInv
      <4>2. bpc # "gone" => Read \in 0..Len(written)
        BY <4>1 DEF Read, IInv, LinesInv
      <4>3. bpc = "handling" => Read - 1 \in 0..Len(written)
        BY <4>1, <4>2 DEF IInv, LinesInv
      <4>4. bpc \in {"reading", "handling", "leaving", "gone"}
        BY DEF IInv, TypeOK, BridgeTypeOK, BridgePCs
      <4> QED
        BY <4>2, <4>3, <4>4 DEF AnswersInv
    <3> QED
      BY <2>1, <2>2, <2>3, <3>1 DEF AnswersInv
  <2>4. CASE bpc' # "gone" /\ Read' = Read
    <3>1. bpc' = "handling" => AnsweredUpTo(Read - 1)'
      BY <2>1, <2>4 DEF AnswersInv, AnsweredUpTo, Answered
    <3>2. bpc' \in {"reading", "leaving"} => AnsweredUpTo(Read)'
      BY <2>1, <2>4 DEF AnswersInv, AnsweredUpTo, Answered
    <3> QED
      BY <2>4, <3>1, <3>2 DEF AnswersInv
  <2> QED
    BY <2>1, <2>3, <2>4
<1>5. \/ \E k \in LineKinds : Write(k)
      \/ (ReadLine \/ Handlers \/ ReadEof \/ Leave \/ Crash) /\ UNCHANGED written
      \/ CloseStdin \/ UNCHANGED vars
  BY DEF Next, BridgeStep, Handlers, Done
<1>6. UNCHANGED vars => UNCHANGED written
  BY DEF vars
<1> QED
  BY <1>1, <1>2, <1>3, <1>4, <1>5, <1>6

LEMMA AnswersInOrder == IInv /\ AnswersInv => RepliesInOrder
<1> SUFFICES ASSUME IInv, AnswersInv PROVE RepliesInOrder
  OBVIOUS
<1>1. Len(written) \in Nat /\ Len(toBridge) \in Nat /\ Len(toHost) \in Nat /\ Read \in Int
  BY Numbers DEF IInv
<1>2. PICK r \in 0..Len(written) : AnsweredUpTo(r)
  <2>1. bpc # "gone" => Read \in 0..Len(written)
    BY <1>1 DEF Read, IInv, LinesInv
  <2>2. bpc = "handling" => Read - 1 \in 0..Len(written)
    BY <1>1, <2>1 DEF IInv, LinesInv
  <2>3. bpc \in {"reading", "handling", "leaving", "gone"}
    BY DEF IInv, TypeOK, BridgeTypeOK, BridgePCs
  <2> QED
    BY <2>1, <2>2, <2>3 DEF AnswersInv
<1>3. \A i \in 1..Len(toHost) : Deserves(toHost[i].id)
  <2> TAKE i \in 1..Len(toHost)
  <2>1. toHost[i].id \in 1..r /\ written[toHost[i].id] # "blank"
    BY <1>2 DEF AnsweredUpTo
  <2>2. toHost[i].id \in 1..Len(written)
    BY <1>1, <2>1
  <2> QED
    BY <2>1, <2>2 DEF Deserves
<1>4. \A i, j \in 1..Len(toHost) : i < j => toHost[i].id < toHost[j].id
  BY <1>2 DEF AnsweredUpTo
<1>5. \A i \in 1..Len(toHost) : \A n \in 1..toHost[i].id : Deserves(n) => Answered(n)
  <2> SUFFICES ASSUME NEW i \in 1..Len(toHost), NEW n \in 1..toHost[i].id, Deserves(n)
               PROVE  Answered(n)
    OBVIOUS
  <2>1. toHost[i].id \in 1..r
    BY <1>2 DEF AnsweredUpTo
  <2>2. n \in 1..r
    BY <2>1
  <2> QED
    BY <1>2, <2>2 DEF AnsweredUpTo, Deserves
<1>6. bpc = "reading" /\ toBridge = <<>> =>
        \A n \in 1..Len(written) : Deserves(n) => Answered(n)
  <2> SUFFICES ASSUME bpc = "reading", toBridge = <<>>
               PROVE  \A n \in 1..Len(written) : Deserves(n) => Answered(n)
    OBVIOUS
  <2>1. Len(toBridge) = 0
    OBVIOUS
  <2>2. Read = Len(written)
    BY <1>1, <2>1 DEF Read
  <2>3. AnsweredUpTo(Len(written))
    BY <2>2 DEF AnswersInv
  <2> QED
    BY <2>3 DEF AnsweredUpTo, Deserves
<1> QED
  BY <1>3, <1>4, <1>5, <1>6 DEF RepliesInOrder

-----------------------------------------------------------------------------
(* The pipes carry lines and replies, and handles are counted from zero.   *)
THEOREM BridgeClientTypes == Spec => []TypeOK
<1>1. IInv => TypeOK
  BY DEF IInv
<1> QED
  BY <1>1, Invariance, PTL

(* Whatever a client writes, an operation is refused as NOT_INITIALIZED    *)
(* exactly when the replies before it leave no session open (main.rs,      *)
(* handle_init, handle_disconnect and the operations' handlers).           *)
THEOREM BridgeOpsNeedSession == Spec => []OpsNeedSession
<1>1. IInv => OpsNeedSession
  <2> SUFFICES ASSUME IInv, NEW i \in 1..Len(toHost), written[toHost[i].id] \in UseKinds
               PROVE  toHost[i].type = "not_initialized" <=>
                        ~\E j \in 1..(i - 1) : Opens(j) /\ ~\E k \in (j + 1)..(i - 1) : Closes(k)
    BY DEF OpsNeedSession
  <2>1. Refuses(toHost, written, i)
    BY DEF IInv, SessionInv
  <2> QED
    BY <2>1 DEF Refuses, OpenAfter, Opens, Closes
<1> QED
  BY <1>1, Invariance, PTL

(* With replies within the host's limit every line that deserves a reply   *)
(* gets one, in the order the lines were written, up to where the bridge   *)
(* gives up (main.rs, the loop).                                           *)
THEOREM BridgeRepliesInOrder == OversizeReplies = FALSE => (Spec => []RepliesInOrder)
<1> SUFFICES ASSUME OversizeReplies = FALSE PROVE Spec => []RepliesInOrder
  OBVIOUS
<1>1. IInv /\ AnswersInv /\ [Next]_vars => AnswersInv'
  BY NextAnswers
<1>2. Spec => [](IInv /\ AnswersInv)
  BY <1>1, InitIInv, NextIInv, InitAnswers, PTL DEF Spec
<1> QED
  BY <1>2, AnswersInOrder, PTL
=============================================================================
