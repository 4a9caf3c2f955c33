--------------------------- MODULE NeurotecProofs ---------------------------
(***************************************************************************)
(* Proofs about Neurotec, for any names, ids and capacity.                 *)
(*                                                                         *)
(* That the templates handed out stay good is inductive only together      *)
(* with two facts: ids are unique in the file (UniqueIds), so that an id   *)
(* says whose entry it is, and the entry that a capture removes, the last  *)
(* one, is the one it made (OperationState), because nothing else changes  *)
(* the file before the mutex is released.                                  *)
(***************************************************************************)
EXTENDS Neurotec, SequenceTheorems, TLAPS

UniqueIds == \A i, j \in DOMAIN users : users[i].id = users[j].id => i = j

(* What an operation under way relies on.                                  *)
OperationState ==
  /\ pc \in {"image", "remove"} => owner = Temp
  /\ pc = "get_id" => owner \in Names
  /\ pc \in {"image", "remove", "get_id"} =>
       users # <<>> /\ users[Len(users)].owner = owner
  /\ pc \in {"search", "verify"} => template \in given
  /\ IF pc = "verify"
       THEN found # 0 /\ (template.id # 0 => users[found].id = template.id)
       ELSE found = 0

IInv == TypeOK /\ UniqueIds /\ EnrolledStay /\ OperationState

(* A template's entry is found by its id, and ids are unique.              *)
LEMMA Verifies == IInv => VerifiesOwner
BY NeurotecAssumption
   DEF IInv, TypeOK, UniqueIds, EnrolledStay, OperationState, VerifiesOwner, Entries, Templates

(* The initial state satisfies the invariant.                              *)
LEMMA InitIInv == Init => IInv
<1> SUFFICES ASSUME Init PROVE IInv
  OBVIOUS
<1>1. users \in Seq(Entries) /\ Len(users) = 0 /\ DOMAIN users = {}
  BY EmptySeq DEF Init
<1>2. Len(users) <= Slots /\ found \in 0..Len(users) /\ opened \in 0..MaxOpened
  BY <1>1, NeurotecAssumption DEF Init
<1>3. given \subseteq Templates /\ template \in [user : Names \cup {Temp}, id : Ids \cup {0}]
  BY DEF Init
<1>4. TypeOK
  BY <1>1, <1>2, <1>3 DEF Init, TypeOK
<1> QED
  BY <1>1, <1>4 DEF Init, IInv, UniqueIds, EnrolledStay, OperationState

(* What the library does to its file: a new entry, and the last one gone.  *)
LEMMA Appended ==
  ASSUME NEW S, NEW s \in Seq(S), NEW e \in S
  PROVE  /\ Append(s, e) \in Seq(S) /\ Len(Append(s, e)) = Len(s) + 1
         /\ DOMAIN Append(s, e) = DOMAIN s \cup {Len(s) + 1}
         /\ Append(s, e)[Len(s) + 1] = e
         /\ \A i \in DOMAIN s : Append(s, e)[i] = s[i]
BY AppendProperties

LEMMA LastRemoved ==
  ASSUME NEW S, NEW s \in Seq(S), s # <<>>, NEW r, r = SubSeq(s, 1, Len(s) - 1)
  PROVE  /\ r \in Seq(S) /\ Len(r) = Len(s) - 1
         /\ DOMAIN r = DOMAIN s \ {Len(s)}
         /\ \A i \in DOMAIN r : r[i] = s[i]
<1>1. Len(s) \in Nat \ {0} /\ DOMAIN s = 1..Len(s)
  BY EmptySeq, LenProperties
<1>2. /\ r \in Seq(S) /\ Len(r) = Len(s) - 1
      /\ \A i \in 1..Len(s) - 1 : r[i] = s[i]
  BY <1>1, SubSeqProperties
<1>3. DOMAIN r = 1..Len(s) - 1
  BY <1>1, <1>2
<1> QED
  BY <1>1, <1>2, <1>3

(* Most steps leave file and templates alone.                              *)
LEMMA FileUnchanged ==
  ASSUME IInv, UNCHANGED <<users, given>> PROVE UniqueIds' /\ EnrolledStay'
BY DEF IInv, UniqueIds, EnrolledStay

(* The steps of capture, enroll and verify that leave file and templates   *)
(* alone, and those of the session.                                        *)
LEMMA OtherSteps ==
  ASSUME IInv,
         \/ Initialise \/ Install \/ DiscardRival \/ Disconnect \/ Restart
         \/ BeginCapture \/ SetThreshold \/ GetImage \/ Verify
         \/ (\E n \in Names : BeginEnroll(n)) \/ (\E t \in given : BeginVerify(t))
         \/ UNCHANGED vars
  PROVE  IInv'
<1>1. UNCHANGED <<users, given>>
  BY DEF Initialise, Install, DiscardRival, Disconnect, Restart, BeginCapture, SetThreshold,
         GetImage, Verify, BeginEnroll, BeginVerify, vars
<1>2. Len(users) \in Nat
  BY LenProperties DEF IInv, TypeOK
<1>3. UniqueIds' /\ EnrolledStay'
  BY <1>1, FileUnchanged
<1> USE <1>1, <1>2 DEF IInv, TypeOK, OperationState, Templates, Return
<1>4. ASSUME Initialise \/ Install \/ DiscardRival \/ Disconnect \/ Restart
      PROVE  TypeOK' /\ OperationState'
  <2>1. opened \in 0..MaxOpened /\ opened' \in 0..MaxOpened
    BY <1>4, NeurotecAssumption DEF Initialise, Install, DiscardRival, Disconnect, Restart
  <2>2. found' \in 0..Len(users)
    BY <1>4 DEF Initialise, Install, DiscardRival, Disconnect, Restart
  <2>3. TypeOK'
    BY <1>4, <2>1, <2>2 DEF Initialise, Install, DiscardRival, Disconnect, Restart
  <2>4. OperationState'
    BY <1>4 DEF Initialise, Install, DiscardRival, Disconnect, Restart
  <2> QED
    BY <2>3, <2>4
<1>5. ASSUME BeginCapture \/ SetThreshold \/ GetImage \/ Verify
      PROVE  TypeOK' /\ OperationState'
  BY <1>5 DEF BeginCapture, SetThreshold, GetImage, Verify
<1>6. ASSUME NEW n \in Names, BeginEnroll(n)
      PROVE  TypeOK' /\ OperationState'
  BY <1>6 DEF BeginEnroll
<1>7. ASSUME NEW t \in given, BeginVerify(t)
      PROVE  TypeOK' /\ OperationState'
  BY <1>7 DEF BeginVerify
<1>8. ASSUME UNCHANGED vars
      PROVE  TypeOK' /\ OperationState'
  BY <1>8 DEF vars
<1> HIDE DEF TypeOK, OperationState
<1> QED
  BY <1>3, <1>4, <1>5, <1>6, <1>7, <1>8

(* enroll hands out the entry it has just made, or zero.                   *)
LEMMA GetIdStep ==
  ASSUME IInv, GetId PROVE IInv'
<1>1. Len(users) \in DOMAIN users /\ users[Len(users)] \in Entries
  BY LenProperties, EmptySeq, ElementOfSeq DEF IInv, TypeOK, OperationState, GetId
<1>2. users[Len(users)].id \in Ids
  BY <1>1 DEF Entries
<1>3. PICK id \in {users[Len(users)].id, 0} : given' = given \cup {[user |-> owner, id |-> id]}
  BY DEF GetId
<1>4. TypeOK' /\ OperationState'
  BY <1>2, <1>3 DEF IInv, TypeOK, OperationState, Templates, GetId, Return
<1>5. UniqueIds'
  BY DEF IInv, UniqueIds, GetId
<1>6. EnrolledStay'
  BY <1>1, <1>3 DEF IInv, EnrolledStay, OperationState, GetId
<1> QED
  BY <1>4, <1>5, <1>6 DEF IInv

(* verify settles on an entry whose id is the template's, unless that is   *)
(* zero: zero is also what an unreadable id looks like.                    *)
LEMMA SearchStep ==
  ASSUME IInv, Search PROVE IInv'
<1>1. Len(users) \in Nat /\ DOMAIN users = 1..Len(users)
  BY LenProperties DEF IInv, TypeOK
<1>2. UniqueIds' /\ EnrolledStay'
  BY FileUnchanged DEF Search
<1>3. pc = "search" /\ UNCHANGED <<users, session, opened, installed, given, owner, template>>
  BY DEF Search
<1>4. \/ Return /\ UNCHANGED found
      \/ /\ pc' = "verify" /\ found' \in DOMAIN users
         /\ template.id # 0 => users[found'].id = template.id
  BY DEF Search, IsFound, IdRead
<1>5. TypeOK'
  BY <1>1, <1>3, <1>4 DEF IInv, TypeOK, OperationState, Return
<1>6. OperationState'
  BY <1>1, <1>3, <1>4 DEF IInv, TypeOK, OperationState, Return
<1> QED
  BY <1>2, <1>5, <1>6 DEF IInv

(* An entry is made for an operation under way, with an id of its own.     *)
LEMMA EnrollStep ==
  ASSUME IInv, Enroll PROVE IInv'
<1>1. CASE Return /\ UNCHANGED users
  <2>1. UniqueIds' /\ EnrolledStay'
    BY <1>1, FileUnchanged DEF Enroll
  <2>2. TypeOK' /\ OperationState'
    BY <1>1 DEF IInv, TypeOK, OperationState, Enroll, Return
  <2> QED
    BY <2>1, <2>2 DEF IInv
<1>2. CASE /\ Len(users) < Slots
           /\ \E id \in Ids \ {users[i].id : i \in DOMAIN users} :
                users' = Append(users, [id |-> id, owner |-> owner])
           /\ pc' = IF owner = Temp THEN "image" ELSE "get_id"
  <2>1. PICK id \in Ids \ {users[i].id : i \in DOMAIN users} :
               users' = Append(users, [id |-> id, owner |-> owner])
    BY <1>2
  <2> DEFINE e == [id |-> id, owner |-> owner]
  <2>2. users \in Seq(Entries) /\ e \in Entries
    BY <2>1 DEF IInv, TypeOK, Entries
  <2>3. /\ users' \in Seq(Entries) /\ Len(users') = Len(users) + 1
        /\ DOMAIN users' = DOMAIN users \cup {Len(users')}
        /\ users'[Len(users')] = e
        /\ \A i \in DOMAIN users : users'[i] = users[i]
    BY <2>1, <2>2, Appended
  <2>4. Len(users) \in Nat /\ Len(users) + 1 <= Slots
    BY <1>2, <2>2, LenProperties, NeurotecAssumption
  <2>5. TypeOK'
    BY <1>2, <2>3, <2>4 DEF IInv, TypeOK, Enroll
  <2>6. UniqueIds'
    <3>1. \A i \in DOMAIN users : users[i].id # e.id
      BY <2>1
    <3> HIDE DEF e
    <3> QED
      BY <2>3, <3>1 DEF IInv, UniqueIds
  <2>7. EnrolledStay'
    BY <2>3 DEF IInv, EnrolledStay, Enroll
  <2>8. users' # <<>>
    BY <2>3, <2>4, EmptySeq
  <2>9. users'[Len(users')].owner = owner
    BY <2>3
  <2>10. OperationState'
    BY <1>2, <2>8, <2>9 DEF IInv, TypeOK, OperationState, Enroll
  <2> QED
    BY <2>5, <2>6, <2>7, <2>10 DEF IInv
<1> QED
  BY <1>1, <1>2 DEF Enroll

(* The entry that goes is the one of the capture under way, which is the   *)
(* last one, and no template was handed out for it.                        *)
LEMMA RemoveTempStep ==
  ASSUME IInv, RemoveTemp PROVE IInv'
<1>1. CASE UNCHANGED users
  <2>1. UniqueIds' /\ EnrolledStay'
    BY <1>1, FileUnchanged DEF RemoveTemp
  <2>2. TypeOK' /\ OperationState'
    BY <1>1 DEF IInv, TypeOK, OperationState, RemoveTemp, Return
  <2> QED
    BY <2>1, <2>2 DEF IInv
<1>2. CASE users' = SubSeq(users, 1, Len(users) - 1)
  <2>1. users \in Seq(Entries) /\ users # <<>> /\ users[Len(users)].owner = Temp
    BY DEF IInv, TypeOK, OperationState, RemoveTemp
  <2>2. /\ users' \in Seq(Entries) /\ Len(users') = Len(users) - 1
        /\ DOMAIN users' = DOMAIN users \ {Len(users)}
        /\ \A i \in DOMAIN users' : users'[i] = users[i]
    BY <1>2, <2>1, LastRemoved
  <2>3. Len(users) \in Nat /\ Len(users') \in Nat
    BY <2>1, <2>2, LenProperties
  <2>4. found = 0 /\ found' = 0
    BY DEF IInv, OperationState, RemoveTemp
  <2>5. TypeOK'
    BY <2>2, <2>3, <2>4, NeurotecAssumption DEF IInv, TypeOK, RemoveTemp, Return
  <2>6. UniqueIds'
    BY <2>2 DEF IInv, UniqueIds
  <2>7. EnrolledStay'
    <3> SUFFICES ASSUME NEW t \in given, t.id # 0
                 PROVE  \E i \in DOMAIN users' : users'[i].id = t.id /\ users'[i].owner = t.user
      BY DEF EnrolledStay, RemoveTemp
    <3>1. PICK i \in DOMAIN users : users[i].id = t.id /\ users[i].owner = t.user
      BY DEF IInv, EnrolledStay
    <3>2. t.user # Temp
      BY NeurotecAssumption DEF IInv, TypeOK, Templates
    <3> QED
      BY <2>1, <2>2, <3>1, <3>2
  <2>8. OperationState'
    BY <2>4 DEF IInv, OperationState, RemoveTemp, Return
  <2> QED
    BY <2>5, <2>6, <2>7, <2>8 DEF IInv
<1> QED
  BY <1>1, <1>2 DEF RemoveTemp

(* Every step keeps the invariant.                                         *)
LEMMA NextIInv == IInv /\ [Next]_vars => IInv'
BY OtherSteps, GetIdStep, SearchStep, EnrollStep, RemoveTempStep DEF Next, Operations

(* Type correctness of the Neurotec backend.                               *)
THEOREM NeurotecTypes == Spec => []TypeOK
<1>1. IInv => TypeOK
  BY DEF IInv
<1> QED
  BY <1>1, InitIInv, NextIInv, PTL DEF Spec

(* Templates handed out stay good, and a finger is compared with the entry *)
(* of the template's own user, whatever vendor calls fail, sessions are    *)
(* lost and processes end.                                                 *)
THEOREM NeurotecSafety == Spec => [](EnrolledStay /\ VerifiesOwner)
<1>1. IInv => EnrolledStay /\ VerifiesOwner
  BY Verifies DEF IInv
<1> QED
  BY <1>1, InitIInv, NextIInv, PTL DEF Spec

(* A finger is never compared with another user's entry, but for templates *)
(* whose own id could not be read.                                         *)
THEOREM NeurotecVerifiesOwner == Spec => []VerifiesOwner
BY NeurotecSafety, PTL
=============================================================================
