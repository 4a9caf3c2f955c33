------------------------------ MODULE Neurotec ------------------------------
(***************************************************************************)
(* The Neurotec backend (sdk/src/vendors/neurotec/mod.rs).  Its library    *)
(* keeps the fingers itself, in a file with room for a few users, and      *)
(* captures only by enrolling; a template is the id of a user in that      *)
(* file.  The library's session belongs to the process, not to a scanner   *)
(* object: the drop of an object that lost the race of two inits ends it   *)
(* for the one that won.                                                   *)
(*                                                                         *)
(* Operations are serialised by the session's mutex (module Session).      *)
(* Every vendor call may fail; a failure whose code the program ignores    *)
(* leaves the output parameter at its initial zero.                        *)
(***************************************************************************)
EXTENDS Naturals, Sequences

CONSTANTS
  Names,      \* user ids of the application
  Temp,       \* the owner of an entry made by a capture
  Ids,        \* ids that the library may assign
  Slots,      \* capacity of the library's file
  MaxOpened   \* concurrent inits that are past NffvInitialize (bound)

ASSUME NeurotecAssumption ==
  /\ Temp \notin Names
  /\ Ids \subseteq Nat
  /\ Slots \in Nat
  /\ MaxOpened \in Nat

VARIABLES
  users,      \* entries of the file, in the order of their indices
  session,    \* has the process initialised the library?
  opened,     \* number of inits that initialised it and are not in the slot yet
  installed,  \* is there a Neurotec scanner in the slot, with its library loaded?
  given,      \* templates handed to the application, which keeps them
  pc,         \* where the operation that holds the mutex is
  owner,      \* for whom an operation enrolls
  template,   \* the template that an operation verifies
  found       \* the entry that verify's search has settled on, or 0

vars == <<users, session, opened, installed, given, pc, owner, template, found>>

Entries == [id : Ids, owner : Names \cup {Temp}]
Templates == [user : Names, id : Ids \cup {0}]

TypeOK ==
  /\ users \in Seq(Entries) /\ Len(users) <= Slots
  /\ session \in BOOLEAN
  /\ opened \in 0..MaxOpened
  /\ installed \in BOOLEAN
  /\ given \subseteq Templates
  /\ pc \in {"idle", "threshold", "enroll", "image", "remove", "get_id", "search", "verify"}
  /\ owner \in Names \cup {Temp}
  /\ template \in [user : Names \cup {Temp}, id : Ids \cup {0}]
  /\ found \in 0..Len(users)
  /\ pc # "idle" => installed

Init ==
  /\ users = <<>> /\ session = FALSE /\ opened = 0 /\ installed = FALSE /\ given = {}
  /\ pc = "idle" /\ owner = Temp
  /\ template = [user |-> Temp, id |-> 0] /\ found = 0

-----------------------------------------------------------------------------
(* init, in a call that found the slot empty, perhaps long ago; it holds   *)
(* no mutex that an operation waits for.                                   *)
Initialise ==
  /\ opened < MaxOpened
  /\ opened' = opened + 1 /\ session' = TRUE
  /\ UNCHANGED <<users, installed, given, pc, owner, template, found>>

(* The scanner goes into the slot if that is still empty.                  *)
Install ==
  /\ pc = "idle" /\ opened > 0 /\ ~installed
  /\ opened' = opened - 1 /\ installed' = TRUE
  /\ UNCHANGED <<users, session, given, pc, owner, template, found>>

(* Else it is dropped, which ends the session of the process.              *)
DiscardRival ==
  /\ pc = "idle" /\ opened > 0 /\ installed
  /\ opened' = opened - 1 /\ session' = FALSE
  /\ UNCHANGED <<users, installed, given, pc, owner, template, found>>

(* Mutant of Disconnect: it does not wait for the operation under way.     *)
DisconnectAtOnce ==
  /\ installed
  /\ installed' = FALSE /\ session' = FALSE
  /\ UNCHANGED <<users, opened, given, pc, owner, template, found>>

(* disconnect: uninitialize, whatever it answers.                          *)
Disconnect ==
  /\ pc = "idle" /\ installed
  /\ installed' = FALSE /\ session' = FALSE
  /\ UNCHANGED <<users, opened, given, pc, owner, template, found>>

(* The process ends, in the middle of anything, and a new one starts.      *)
Restart ==
  /\ session' = FALSE /\ opened' = 0 /\ installed' = FALSE
  /\ pc' = "idle" /\ found' = 0
  /\ UNCHANGED <<users, given, owner, template>>

-----------------------------------------------------------------------------
Return == pc' = "idle"

(* capture enrolls a temporary user.                                       *)
BeginCapture ==
  /\ pc = "idle" /\ installed
  /\ pc' = "threshold" /\ owner' = Temp
  /\ UNCHANGED <<users, session, opened, installed, given, template, found>>

SetThreshold ==
  /\ pc = "threshold"
  /\ \/ session /\ pc' = "enroll"
     \/ Return
  /\ UNCHANGED <<users, session, opened, installed, given, owner, template, found>>

BeginEnroll(n) ==
  /\ pc = "idle" /\ installed
  /\ pc' = "enroll" /\ owner' = n
  /\ UNCHANGED <<users, session, opened, installed, given, template, found>>

(* NffvEnroll makes an entry, or none: an error, no finger, poor quality,  *)
(* no room.                                                                *)
Enroll ==
  /\ pc = "enroll"
  /\ \/ /\ session /\ Len(users) < Slots
        /\ \E id \in Ids \ {users[i].id : i \in DOMAIN users} :
             users' = Append(users, [id |-> id, owner |-> owner])
        /\ pc' = IF owner = Temp THEN "image" ELSE "get_id"
     \/ Return /\ UNCHANGED users
  /\ UNCHANGED <<session, opened, installed, given, owner, template, found>>

(* Two calls for the image of the temporary user; an error of either one   *)
(* is returned at once.                                                    *)
GetImage ==
  /\ pc = "image"
  /\ pc' = "remove" \/ Return
  /\ UNCHANGED <<users, session, opened, installed, given, owner, template, found>>

(* Mutant of RemoveTemp: the first user instead of the last one.           *)
RemoveOldest ==
  /\ pc = "remove"
  /\ users' = Tail(users) \/ UNCHANGED users
  /\ Return
  /\ UNCHANGED <<session, opened, installed, given, owner, template, found>>

(* "Remove the temp user to not consume the 10-slot limit": the last one,  *)
(* by the count, if both calls succeed.                                    *)
RemoveTemp ==
  /\ pc = "remove"
  /\ users' = SubSeq(users, 1, Len(users) - 1) \/ UNCHANGED users
  /\ Return
  /\ UNCHANGED <<session, opened, installed, given, owner, template, found>>

(* enroll's template carries the entry's id, or zero.                      *)
GetId ==
  /\ pc = "get_id"
  /\ \E id \in {users[Len(users)].id, 0} : given' = given \cup {[user |-> owner, id |-> id]}
  /\ Return
  /\ UNCHANGED <<users, session, opened, installed, owner, template, found>>

-----------------------------------------------------------------------------
BeginVerify(t) ==
  /\ pc = "idle" /\ installed
  /\ pc' = "search" /\ template' = t /\ found' = 0
  /\ UNCHANGED <<users, session, opened, installed, given, owner>>

(* What the search may read as the ids of the entries it can get at, when  *)
(* the calls that ask for an id fail on the entries of unread.             *)
IdRead(i, unread) == IF i \in unread THEN 0 ELSE users[i].id

(* Mutant of IsFound: the id is taken for an index.                        *)
IsIndex(i, unread) == i = template.id

IsFound(i, unread) == IdRead(i, unread) = template.id

(* The first entry whose id is the template's.  Entries whose handle the   *)
(* library refuses are skipped, and nothing is found without a session.    *)
Search ==
  /\ pc = "search"
  /\ \E skipped, unread \in SUBSET DOMAIN users :
       LET hits == {i \in (DOMAIN users) \ skipped : IsFound(i, unread)} IN
         \/ /\ ~session \/ hits = {}
            /\ Return /\ UNCHANGED found
         \/ /\ session /\ pc' = "verify"
            /\ found' \in hits /\ \A i \in hits : found' <= i
  /\ UNCHANGED <<users, session, opened, installed, given, owner, template>>

(* NffvVerify compares a finger with the entry found, or fails; a positive *)
(* score is answered with the template's user.                             *)
Verify ==
  /\ pc = "verify"
  /\ Return /\ found' = 0
  /\ UNCHANGED <<users, session, opened, installed, given, owner, template>>

-----------------------------------------------------------------------------
Operations ==
  \/ Initialise \/ Install \/ DiscardRival \/ Disconnect
  \/ BeginCapture \/ SetThreshold \/ Enroll \/ GetImage \/ RemoveTemp
  \/ (\E n \in Names : BeginEnroll(n)) \/ GetId
  \/ (\E t \in given : BeginVerify(t)) \/ Search \/ Verify

Next == Operations \/ Restart

Spec == Init /\ [][Next]_vars

(* The process never ends.                                                 *)
Uninterrupted == Init /\ [][Operations]_vars

-----------------------------------------------------------------------------
(* A template that was handed out stays good, across captures, failures,   *)
(* lost sessions and restarts: no capture ever removes another user than   *)
(* its own, and the entry with the template's id is its owner's.  (Zero is *)
(* what enroll hands out when it could not read the id.)                   *)
EnrolledStay ==
  \A t \in given : t.id # 0 =>
    \E i \in DOMAIN users : users[i].id = t.id /\ users[i].owner = t.user

(* A finger is compared with the entry of the template's own user, though  *)
(* ids may be unreadable and handles refused in any pattern meanwhile.     *)
VerifiesOwner ==
  pc = "verify" /\ template.id # 0 => users[found].owner = template.user

(* "Remove the temp user to not consume the 10-slot limit": no entry of a  *)
(* capture outlives it, whatever calls fail.                               *)
TempRemoved == pc = "idle" => \A i \in DOMAIN users : users[i].owner # Temp
=============================================================================
