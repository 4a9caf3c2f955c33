----------------------------- MODULE ApplyProofs -----------------------------
(***************************************************************************)
(* The version installed when an update began can be recovered, a rollback *)
(* that reports success is whole and an update that does is exact, for any *)
(* files, releases and number of invocations: under the conditions that    *)
(* only the update's own file operations fail (the process may die between *)
(* any two operations), and that no release lists a file twice.  Both are  *)
(* needed, see README.md.                                                  *)
(***************************************************************************)
EXTENDS Apply, FiniteSetTheorems, SequenceTheorems, WellFoundedInduction, TLAPS

Distinct(files) == \A i, j \in 1..Len(files) : files[i] = files[j] => i = j

Conditions ==
  /\ Faulty \subseteq {"update"}
  /\ \A release \in Releases : Distinct(release)

-----------------------------------------------------------------------------
(* Operations on the directories.                                          *)
Disks == [Dirs -> [Files -> Contents]]

LEMMA DirsDistinct ==
  /\ Install \in Dirs /\ Staging \in Dirs /\ Tmp \in Dirs
  /\ Install # Staging /\ Install # Tmp /\ Staging # Tmp
  /\ \A n \in 1..MaxRuns : /\ Backup(n) \in Dirs
                           /\ Backup(n) # Install /\ Backup(n) # Staging /\ Backup(n) # Tmp
  /\ \A m, n \in 1..MaxRuns : Backup(m) = Backup(n) => m = n
BY DEF Dirs, Install, Staging, Tmp, Backup

LEMMA NoneIsContent == None \in Contents /\ Partial \in Contents
BY DEF Contents

LEMMA Renamed ==
  ASSUME disk \in Disks, NEW from \in Dirs, NEW to \in Dirs, from # to, NEW f \in Files,
         Rename(from, to, f)
  PROVE  /\ disk' \in Disks
         /\ disk'[from][f] = None /\ disk'[to][f] = disk[from][f]
         /\ \A d \in Dirs, g \in Files :
              d \notin {from, to} \/ g # f => disk'[d][g] = disk[d][g]
BY NoneIsContent DEF Rename, Disks

LEMMA Written ==
  ASSUME disk \in Disks, NEW d \in Dirs, NEW f \in Files, NEW c \in Contents,
         disk' = [disk EXCEPT ![d][f] = c]
  PROVE  /\ disk' \in Disks
         /\ disk'[d][f] = c
         /\ \A e \in Dirs, g \in Files : e # d \/ g # f => disk'[e][g] = disk[e][g]
BY DEF Disks

(* Trees whose removal does not fail.                                      *)
LEMMA Removed ==
  ASSUME disk \in Disks, NEW dirs, RemoveDirs(dirs, {})
  PROVE  /\ disk' \in Disks
         /\ \A d \in Dirs, f \in Files :
              disk'[d][f] = IF d \in dirs THEN None ELSE disk[d][f]
         /\ backups' = {n \in backups : Backup(n) \notin dirs}
BY NoneIsContent DEF RemoveDirs, Disks

(* An order of a directory's files lists each of them once.                *)
LEMMA ListedOnce ==
  ASSUME NEW files, IsFiniteSet(files), NEW list \in SetToSeqs(files)
  PROVE  /\ list \in Seq(files) /\ Len(list) = Cardinality(files)
         /\ Distinct(list)
         /\ \A f \in files : \E i \in 1..Len(list) : list[i] = f
<1>1. Cardinality(files) \in Nat
  BY FS_CardinalityType
<1> DEFINE D == 1..Cardinality(files)
<1>2. list \in [D -> files] /\ \A i, j \in D : i # j => list[i] # list[j]
  BY DEF SetToSeqs
<1>3. list \in Seq(files) /\ Len(list) = Cardinality(files)
  BY <1>1, <1>2
<1>4. Distinct(list)
  BY <1>2, <1>3 DEF Distinct
<1>5. list \in Injection(D, files)
  BY <1>2 DEF Injection, IsInjective
<1>6. IsFiniteSet(D) /\ Cardinality(D) = Cardinality(files)
  BY <1>1, FS_Interval
<1>7. list \in Surjection(D, files)
  BY <1>5, <1>6, FS_Injection
<1>8. \A f \in files : \E i \in D : list[i] = f
  BY <1>7 DEF Surjection
<1> QED
  BY <1>3, <1>4, <1>8

(* A set of numbers has a least one, and the latest of some backups is one *)
(* of them.                                                                *)
LEMMA Least ==
  ASSUME NEW T \in SUBSET Nat, T # {}
  PROVE  \E m \in T : \A n \in T : m <= n
<1>1. PICK x \in T : \A y \in T : ~(<<y, x>> \in OpToRel(<, Nat))
  BY NatLessThanWellFounded, WFMin
<1>2. \A a, b \in Nat : a < b => <<a, b>> \in OpToRel(<, Nat)
  BY DEF OpToRel
<1>3. \A y \in T : ~(y < x)
  BY <1>1, <1>2, Zenon
<1> QED
  BY <1>3

LEMMA LatestIsBackup ==
  ASSUME backups \subseteq 1..MaxRuns, backups # {}
  PROVE  Latest \in backups
<1> DEFINE T == {MaxRuns - n : n \in backups}
<1>1. T \in SUBSET Nat /\ T # {}
  <2>1. \A n \in backups : MaxRuns - n \in Nat
    BY ApplyAssumption
  <2> QED
    BY <2>1
<1> HIDE DEF T
<1>2. PICK t \in T : \A u \in T : t <= u
  BY <1>1, Least
<1>3. PICK n \in backups : t = MaxRuns - n
  BY DEF T
<1>4. \A m \in backups : m <= n
  <2> SUFFICES ASSUME NEW m \in backups PROVE m <= n
    OBVIOUS
  <2>1. t <= MaxRuns - m
    BY <1>2 DEF T
  <2> QED
    BY <1>3, <2>1, ApplyAssumption
<1> QED
  BY <1>3, <1>4 DEF Latest

-----------------------------------------------------------------------------
(* Types, whatever fails: a run that is not over has a number, and the     *)
(* file that it is at is one of its order.                                 *)
AtFile == pc \in {"backup", "move", "copy", "copying", "unlink", "putback"}

Control ==
  /\ pc # "idle" => run \in 1..MaxRuns
  /\ AtFile => at \in 1..Len(order)

TInv == TypeOK /\ Control

LEMMA InitTInv == Init => TInv
BY DirsDistinct, NoneIsContent, ApplyAssumption
   DEF Init, TInv, TypeOK, Control, AtFile, PCs, Empty, Contents

LEMMA RenamedType ==
  ASSUME disk \in Disks, NEW from \in Dirs, NEW to \in Dirs, NEW f \in Files,
         Rename(from, to, f)
  PROVE  disk' \in Disks
BY NoneIsContent DEF Rename, Disks

LEMMA RemovedType ==
  ASSUME TypeOK, NEW dirs, NEW locked, RemoveDirs(dirs, locked)
  PROVE  disk' \in Disks /\ backups' \subseteq 1..MaxRuns
BY NoneIsContent DEF TypeOK, RemoveDirs, Disks

(* A plan for any files, and a rollback of any backup.                     *)
LEMMA PlanTypes ==
  ASSUME TInv, NEW release \in Seq(Files), PlanUpdate(release)
  PROVE  TInv'
<1>1. run \in 1..MaxRuns /\ run + 1 \in Contents
  BY ApplyAssumption DEF TInv, Control, PlanUpdate, Contents
<1>2. disk' \in Disks /\ backups' \subseteq 1..MaxRuns /\ disk[Install] \in [Files -> Contents]
  BY <1>1, DirsDistinct, NoneIsContent DEF TInv, TypeOK, PlanUpdate, Disks
<1>3. release = <<>> \/ 1 \in 1..Len(release)
  BY EmptySeq
<1>4. at' \in 0..Len(order') /\ pc' \in {"record", "backup"} /\ (pc' = "backup" => at' \in 1..Len(order'))
  BY <1>3 DEF PlanUpdate
<1> QED
  BY <1>1, <1>2, <1>4 DEF TInv, TypeOK, Control, AtFile, PlanUpdate, Disks, PCs

LEMMA RollbackTypes == TInv /\ BeginRollback => TInv'
<1> SUFFICES ASSUME TInv, BeginRollback PROVE TInv'
  OBVIOUS
<1> DEFINE files == IF backups = {} THEN {}
                    ELSE {f \in Files : disk[Backup(Latest)][f] # None}
<1>1. run' \in 1..MaxRuns
  BY ApplyAssumption DEF TInv, TypeOK, BeginRollback
<1>2. CASE files = {}
  BY <1>1, <1>2 DEF BeginRollback, Finish, TInv, TypeOK, Control, AtFile, PCs
<1>3. CASE files # {}
  <2>1. Latest \in backups
    BY <1>3, LatestIsBackup DEF TInv, TypeOK
  <2>2. /\ files \subseteq Files
        /\ source' = Backup(Latest) /\ order' \in SetToSeqs(files)
        /\ at' = 1 /\ pc' = "backup" /\ UNCHANGED outcome
    BY <1>3, <2>1 DEF BeginRollback
  <2>3. order' \in Seq(files) /\ \A f \in files : \E i \in 1..Len(order') : order'[i] = f
    BY <2>2, ListedOnce, FS_Subset, ApplyAssumption
  <2>4. order' \in Seq(Files) /\ 1 \in 1..Len(order')
    BY <1>3, <2>2, <2>3
  <2>5. source' \in Dirs
    BY <2>1, <2>2, DirsDistinct DEF TInv, TypeOK
  <2> QED
    BY <1>1, <2>2, <2>4, <2>5 DEF BeginRollback, TInv, TypeOK, Control, AtFile, PCs
<1> QED
  BY <1>2, <1>3

(* The steps on a file write contents of some directory to another.        *)
LEMMA FileTypes ==
  ASSUME TInv,
         \/ MoveOldAside \/ MoveNewIn \/ BeginCopy \/ EndCopy \/ RemoveSource
         \/ RestoreRemove \/ RestoreMove
  PROVE  TInv'
<1>1. /\ Install \in Dirs /\ source \in Dirs /\ Saved \in Dirs
      /\ disk \in Disks /\ None \in Contents /\ Partial \in Contents
  BY DirsDistinct, NoneIsContent DEF TInv, TypeOK, Control, Saved, Disks, AtFile,
     MoveOldAside, MoveNewIn, BeginCopy, EndCopy, RemoveSource, RestoreRemove, RestoreMove
<1>2. /\ at \in 1..Len(order) /\ File \in Files
  BY DEF TInv, TypeOK, Control, AtFile, File,
     MoveOldAside, MoveNewIn, BeginCopy, EndCopy, RemoveSource, RestoreRemove, RestoreMove
<1>3. \A from, to \in Dirs : Rename(from, to, File) => disk' \in Disks
  BY <1>1, <1>2, RenamedType
<1>4. \A d \in Dirs, c \in Contents :
        disk' = [disk EXCEPT ![d][File] = c] => disk' \in Disks
  BY <1>1, <1>2 DEF Disks
<1>5. disk[source][File] \in Contents
  BY <1>1, <1>2 DEF Disks
<1>6. disk' \in Disks
  BY <1>1, <1>3, <1>4, <1>5 DEF MoveOldAside, MoveNewIn, BeginCopy, EndCopy, RemoveSource,
     RestoreRemove, RestoreMove
<1>7. /\ pc' \in PCs /\ at' \in 0..Len(order)
      /\ pc' \notin {"idle", "restore", "record", "tidy"} => at' \in 1..Len(order)
  BY <1>2 DEF TInv, TypeOK, PCs, Proceed, GiveUp, MoveOldAside, MoveNewIn, BeginCopy, EndCopy,
     RemoveSource, RestoreRemove, RestoreMove
<1>8. /\ UNCHANGED <<backups, run, mode, source, order, outcome, before, old>>
      /\ pc # "idle"
  BY DEF MoveOldAside, MoveNewIn, BeginCopy, EndCopy, RemoveSource, RestoreRemove, RestoreMove
<1> QED
  BY <1>6, <1>7, <1>8 DEF TInv, TypeOK, Control, AtFile, Disks

LEMMA NextTInv == TInv /\ [Next]_vars => TInv'
<1> SUFFICES ASSUME TInv, [Next]_vars PROVE TInv'
  OBVIOUS
<1>1. CASE BeginUpdate
  <2>1. disk' \in Disks /\ backups' \subseteq 1..MaxRuns
    BY <1>1, RemovedType DEF BeginUpdate, TInv
  <2>2. run' \in 1..MaxRuns /\ old' \in [Files -> Contents] /\ source' \in Dirs
    BY <1>1, DirsDistinct, ApplyAssumption DEF BeginUpdate, TInv, TypeOK
  <2> QED
    BY <1>1, <2>1, <2>2 DEF BeginUpdate, TInv, TypeOK, Control, AtFile, PCs, Disks
<1>2. CASE RefuseRelease \/ EndRestore \/ WriteRecord \/ Die \/ UNCHANGED vars
  BY <1>2 DEF RefuseRelease, EndRestore, WriteRecord, Die, vars, Finish, TInv, TypeOK, Control,
     AtFile, PCs
<1>3. CASE BeginRollback
  BY <1>3, RollbackTypes
<1>4. ASSUME NEW release \in Releases, PlanUpdate(release) PROVE TInv'
  BY <1>4, PlanTypes, ApplyAssumption
<1>5. CASE MoveOldAside \/ MoveNewIn \/ BeginCopy \/ EndCopy \/ RemoveSource
           \/ RestoreRemove \/ RestoreMove
  BY <1>5, FileTypes
<1>6. CASE Tidy
  <2>1. disk' \in Disks /\ backups' \subseteq 1..MaxRuns
    BY <1>6, RemovedType DEF Tidy, TInv
  <2> QED
    BY <1>6, <2>1 DEF Tidy, Finish, TInv, TypeOK, Control, AtFile, PCs, Disks
<1> QED
  BY <1>1, <1>2, <1>3, <1>4, <1>5, <1>6 DEF Next, Done

(* Type correctness of the updater's work on disk, whichever of its file   *)
(* operations fail: no step works on a file beyond its plan, and a         *)
(* rollback finds the backup it looks for.                                 *)
THEOREM ApplyTypes == Spec => []TypeOK
<1>1. TInv => TypeOK
  BY DEF TInv
<1> QED
  BY <1>1, InitTInv, NextTInv, PTL DEF Spec

-----------------------------------------------------------------------------
(* There is one backup directory at most, which holds nothing but files of *)
(* the version that the last update found; that version's files are in     *)
(* place or there.                                                         *)
OneBackup == \A m, n \in backups : m = n

OthersEmpty == \A n \in 1..MaxRuns, f \in Files : n \notin backups => disk[Backup(n)][f] = None

KeepsOld ==
  \A n \in backups, f \in Files :
    disk[Backup(n)][f] # None => disk[Backup(n)][f] = old[f]

Safe ==
  \A f \in Files : old[f] # None /\ disk[Install][f] # old[f] =>
    \E n \in backups : disk[Backup(n)][f] = old[f]

Backed == OneBackup /\ OthersEmpty /\ KeepsOld /\ Safe

(* Where an update is, and what that says of the files it has still to     *)
(* replace, and of the one it is replacing.                                *)
Fetching ==
  pc = "fetch" =>
    /\ mode = "update" /\ source = Staging /\ run \in 1..MaxRuns
    /\ backups = {} /\ disk[Install] = old

Replacing == pc \in {"backup", "move", "copy", "copying", "unlink"}

Updating ==
  mode = "update" /\ pc \notin {"idle", "fetch"} =>
    /\ run \in backups /\ source = Staging /\ Distinct(order) /\ pc # "tidy"
    /\ Replacing =>
         /\ at \in 1..Len(order)
         /\ \A i \in 1..Len(order) : i > at \/ (i = at /\ pc = "backup") =>
              disk[Install][order[i]] = old[order[i]]
         /\ pc # "backup" /\ old[File] # None => disk[Backup(run)][File] = old[File]
    /\ pc = "putback" => at \in 1..Len(order) /\ disk[Backup(run)][File] # None

(* A rollback, none of whose operations fails, moves the backup's files    *)
(* back one by one.                                                        *)
RollingBack ==
  mode = "rollback" /\ pc # "idle" =>
    /\ pc \in {"backup", "move", "tidy"}
    /\ \E n \in backups : source = Backup(n)
    /\ Distinct(order)
    /\ pc # "tidy" => /\ at \in 1..Len(order)
                      /\ \A i \in at..Len(order) : disk[source][order[i]] # None
    /\ \A f \in Files : disk[source][f] # None =>
         pc # "tidy" /\ \E i \in at..Len(order) : order[i] = f

AInv == TypeOK /\ Conditions /\ Backed /\ Fetching /\ Updating /\ RollingBack

-----------------------------------------------------------------------------
LEMMA InitAInv == Conditions /\ Init => AInv
<1> SUFFICES ASSUME Conditions, Init PROVE AInv
  OBVIOUS
<1>1. TypeOK
  BY DirsDistinct, NoneIsContent, ApplyAssumption DEF Init, TypeOK, PCs, Empty, Contents
<1>2. Backed
  BY DirsDistinct DEF Init, Backed, OneBackup, OthersEmpty, KeepsOld, Safe, Empty
<1>3. Fetching /\ Updating /\ RollingBack
  BY DEF Init, Fetching, Updating, RollingBack
<1> QED
  BY <1>1, <1>2, <1>3 DEF AInv

(* Directories are as they were, for all that the invariant says of them.  *)
LEMMA BackedUnchanged == Backed /\ UNCHANGED <<disk, backups, old>> => Backed'
BY DEF Backed, OneBackup, OthersEmpty, KeepsOld, Safe

(* The removal of trees fails under neither condition.                     *)
LEMMA NothingLocked ==
  ASSUME Conditions, NEW dirs
  PROVE  Locked("cleanup", dirs) = {{}} /\ Locked("rollback", dirs) = {{}}
BY DEF Conditions, Locked

(* An update begins with no backup at all.                                 *)
LEMMA BeginUpdateStep == AInv /\ BeginUpdate => AInv'
<1> SUFFICES ASSUME AInv, BeginUpdate PROVE AInv'
  OBVIOUS
<1> DEFINE stale == {Backup(n) : n \in backups}
<1>1. RemoveDirs(stale, {})
  BY NothingLocked DEF AInv, BeginUpdate
<1>2. disk \in Disks
  BY DEF AInv, TypeOK, Disks
<1>3. /\ disk' \in Disks
      /\ \A d \in Dirs, f \in Files :
           disk'[d][f] = IF d \in stale THEN None ELSE disk[d][f]
      /\ backups' = {n \in backups : Backup(n) \notin stale}
  BY <1>1, <1>2, Removed
<1>4. backups' = {}
  BY <1>3
<1>5. Install \in Dirs /\ Install \notin stale
  BY DirsDistinct DEF AInv, TypeOK
<1>6. disk'[Install] = disk[Install]
  BY <1>2, <1>3, <1>5 DEF Disks
<1>7. TypeOK'
  BY <1>2, <1>3, <1>4, <1>5, DirsDistinct, ApplyAssumption DEF AInv, TypeOK, BeginUpdate, Disks, PCs
<1>8. OthersEmpty'
  BY <1>3, <1>4, DirsDistinct DEF AInv, Backed, OthersEmpty
<1>9. Backed'
  BY <1>4, <1>6, <1>8 DEF Backed, OneBackup, KeepsOld, Safe, BeginUpdate
<1>10. Fetching' /\ Updating' /\ RollingBack'
  BY <1>4, <1>6, ApplyAssumption DEF BeginUpdate, AInv, TypeOK, Fetching, Updating, RollingBack
<1> QED
  BY <1>7, <1>9, <1>10 DEF AInv, Conditions

(* A plan starts with an empty backup of its own.                          *)
LEMMA PlanStep == ASSUME AInv, NEW release \in Releases, PlanUpdate(release) PROVE AInv'
<1>1. disk \in Disks /\ release \in Seq(Files) /\ Distinct(release)
  BY ApplyAssumption DEF AInv, TypeOK, Disks, Conditions
<1>2. run \in 1..MaxRuns /\ mode = "update" /\ source = Staging /\ backups = {}
      /\ disk[Install] = old
  BY DEF AInv, Fetching, PlanUpdate
<1>3. run + 1 \in Contents
  BY <1>2, ApplyAssumption DEF Contents
<1>4. /\ disk' \in Disks
      /\ \A d \in Dirs : d # Staging => disk'[d] = disk[d]
  BY <1>1, <1>3, NoneIsContent DEF PlanUpdate, Disks
<1>5. backups' = {run}
  BY <1>2 DEF PlanUpdate
<1>6. TypeOK'
  BY <1>1, <1>2, <1>4, <1>5, DirsDistinct DEF AInv, TypeOK, PlanUpdate, Disks, PCs
<1>7. disk'[Install] = old' /\ \A f \in Files : disk'[Backup(run)][f] = None
  BY <1>2, <1>4, DirsDistinct DEF PlanUpdate, AInv, Backed, OthersEmpty
<1>8. OthersEmpty'
  BY <1>4, <1>5, <1>2, DirsDistinct DEF AInv, Backed, OthersEmpty
<1>9. Backed'
  BY <1>5, <1>7, <1>8 DEF Backed, OneBackup, KeepsOld, Safe
<1>10. Updating'
  BY <1>1, <1>2, <1>5, <1>7 DEF PlanUpdate, Updating, Replacing, File
<1>11. Fetching' /\ RollingBack'
  BY <1>2 DEF PlanUpdate, Fetching, RollingBack
<1> QED
  BY <1>6, <1>9, <1>10, <1>11 DEF AInv, Conditions

(* The latest backup is the only one.                                      *)
LEMMA LatestBackup == AInv /\ backups # {} => Latest \in backups
<1> SUFFICES ASSUME AInv, backups # {} PROVE Latest \in backups
  OBVIOUS
<1>1. PICK n \in backups : TRUE
  OBVIOUS
<1>2. \A m \in backups : m <= n
  BY DEF AInv, TypeOK, Backed, OneBackup
<1> QED
  BY <1>1, <1>2 DEF Latest

LEMMA BeginRollbackStep == AInv /\ BeginRollback => AInv'
<1> SUFFICES ASSUME AInv, BeginRollback PROVE AInv'
  OBVIOUS
<1> DEFINE files == IF backups = {} THEN {}
                    ELSE {f \in Files : disk[Backup(Latest)][f] # None}
<1>1. Backed'
  BY BackedUnchanged DEF AInv, BeginRollback
<1>2. CASE files = {}
  <2>1. pc' = "idle" /\ outcome' = "error" /\ UNCHANGED <<source, order, at>>
    BY <1>2 DEF BeginRollback, Finish
  <2>2. TypeOK'
    BY <2>1, ApplyAssumption DEF BeginRollback, AInv, TypeOK, PCs
  <2> QED
    BY <2>1, <2>2, <1>1 DEF AInv, Conditions, Fetching, Updating, RollingBack
<1>3. CASE files # {}
  <2>1. Latest \in backups
    BY <1>3, LatestBackup
  <2>2. /\ files = {f \in Files : disk[Backup(Latest)][f] # None}
        /\ source' = Backup(Latest) /\ order' \in SetToSeqs(files)
        /\ at' = 1 /\ pc' = "backup" /\ UNCHANGED outcome
    BY <1>3, <2>1 DEF BeginRollback
  <2>3. IsFiniteSet(files)
    BY <2>2, ApplyAssumption, FS_Subset
  <2>4. /\ order' \in Seq(files) /\ Distinct(order')
        /\ \A f \in files : \E i \in 1..Len(order') : order'[i] = f
    BY <2>2, <2>3, ListedOnce
  <2>5. order' \in Seq(Files) /\ 1 <= Len(order') /\ \A i \in 1..Len(order') : order'[i] \in files
    BY <1>3, <2>2, <2>4
  <2>6. TypeOK'
    BY <2>1, <2>2, <2>5, DirsDistinct, ApplyAssumption DEF BeginRollback, AInv, TypeOK, PCs
  <2>7. RollingBack'
    BY <2>1, <2>2, <2>4, <2>5 DEF BeginRollback, RollingBack, Distinct
  <2>8. Fetching' /\ Updating'
    BY <2>2 DEF BeginRollback, Fetching, Updating
  <2> QED
    BY <1>1, <2>6, <2>7, <2>8 DEF AInv, Conditions
<1> QED
  BY <1>2, <1>3

(* An invocation that ends leaves things as they are.                      *)
LEMMA EndStep == AInv /\ (RefuseRelease \/ WriteRecord \/ EndRestore \/ Die \/ Done) => AInv'
<1> SUFFICES ASSUME AInv, RefuseRelease \/ WriteRecord \/ EndRestore \/ Die \/ Done PROVE AInv'
  OBVIOUS
<1>1. /\ UNCHANGED <<disk, backups, run, mode, source, order, at, before, old>>
      /\ pc' = "idle" /\ outcome' \in {"none", "ok", "error", "died"}
  BY DEF RefuseRelease, WriteRecord, EndRestore, Die, Done, vars, Finish, AInv, TypeOK
<1>2. TypeOK'
  BY <1>1 DEF AInv, TypeOK, PCs
<1>3. Backed'
  BY <1>1, BackedUnchanged DEF AInv
<1> QED
  BY <1>1, <1>2, <1>3 DEF AInv, Conditions, Fetching, Updating, RollingBack

-----------------------------------------------------------------------------
(* The file in work and the directories it moves between.                  *)
LEMMA InWork ==
  ASSUME AInv, Replacing \/ pc = "putback"
  PROVE  /\ at \in 1..Len(order) /\ Len(order) \in Nat /\ File \in Files
         /\ \A i \in 1..Len(order) : order[i] \in Files
         /\ source \in Dirs /\ Saved \in Dirs /\ Install \in Dirs
         /\ Install # source /\ Install # Saved /\ source # Saved
         /\ mode = "update" => run \in backups /\ source = Staging /\ Saved = Backup(run)
         /\ mode = "rollback" => Saved = Tmp /\ ~MayFail /\ \E n \in backups : source = Backup(n)
<1>1. at \in 1..Len(order)
  BY DEF AInv, TypeOK, Updating, RollingBack, Replacing
<1>2. Len(order) \in Nat /\ File \in Files /\ \A i \in 1..Len(order) : order[i] \in Files
  BY <1>1 DEF AInv, TypeOK, File
<1>3. CASE mode = "update"
  <2>1. run \in backups /\ source = Staging /\ Saved = Backup(run) /\ run \in 1..MaxRuns
    BY <1>3 DEF AInv, Updating, Replacing, Saved, TypeOK
  <2> QED
    BY <1>1, <1>2, <1>3, <2>1, DirsDistinct
<1>4. CASE mode = "rollback"
  <2>1. Saved = Tmp /\ ~MayFail
    BY <1>4 DEF Saved, AInv, Conditions, MayFail
  <2>2. PICK n \in backups : source = Backup(n) /\ n \in 1..MaxRuns
    BY <1>4 DEF AInv, RollingBack, Replacing, TypeOK
  <2> QED
    BY <1>1, <1>2, <1>4, <2>1, <2>2, DirsDistinct
<1> QED
  BY <1>3, <1>4 DEF AInv, TypeOK

Kept == UNCHANGED <<backups, run, mode, source, order, outcome, before, old>>

LEMMA TypeKept ==
  ASSUME AInv, Kept, disk' \in Disks, at' \in 0..Len(order), pc' \in PCs PROVE TypeOK'
BY DEF AInv, TypeOK, Kept, Disks

(* The one backup of an update under way keeps what it must.               *)
LEMMA BackedKept ==
  ASSUME AInv, Kept,
         \A n \in 1..MaxRuns, f \in Files :
           n \notin backups => disk'[Backup(n)][f] = disk[Backup(n)][f],
         \A n \in backups, f \in Files :
           disk'[Backup(n)][f] # None => disk'[Backup(n)][f] = old[f],
         \A f \in Files : old[f] # None /\ disk'[Install][f] # old[f] =>
           \E n \in backups : disk'[Backup(n)][f] = old[f]
  PROVE  Backed'
BY DEF AInv, Backed, OneBackup, OthersEmpty, KeepsOld, Safe, Kept, TypeOK

(* An update that has lost a file starts to restore.                       *)
LEMMA GiveUpStep ==
  ASSUME AInv, Replacing, mode = "update", GiveUp, UNCHANGED disk, Kept PROVE AInv'
<1>1. TypeOK'
  BY InWork, TypeKept DEF GiveUp, PCs, AInv, TypeOK, Disks
<1>2. Backed'
  BY BackedUnchanged DEF AInv, Kept
<1>3. Fetching' /\ Updating' /\ RollingBack'
  BY InWork DEF GiveUp, Kept, AInv, Fetching, Updating, RollingBack, Replacing
<1> QED
  BY <1>1, <1>2, <1>3 DEF AInv, Conditions

(* What an update does not touch: the files after the one in work.         *)
Ahead == \A i \in 1..Len(order) : i > at => disk'[Install][order[i]] = old[order[i]]

LEMMA AheadKept ==
  ASSUME AInv, Replacing, mode = "update",
         \A f \in Files : f # File => disk'[Install][f] = disk[Install][f]
  PROVE  Ahead
BY InWork DEF AInv, Updating, Replacing, Distinct, File, Ahead

LEMMA ProceedStep ==
  ASSUME AInv, Replacing, mode = "update", Proceed, Kept, disk' \in Disks, Backed', Ahead
  PROVE  AInv'
<1>1. at \in 1..Len(order) /\ Len(order) \in Nat /\ run \in backups /\ source = Staging
  BY InWork
<1>2. TypeOK'
  BY <1>1, TypeKept DEF Proceed, PCs
<1>3. Updating'
  BY <1>1 DEF Proceed, Kept, AInv, Updating, Replacing, Ahead, Distinct
<1>4. Fetching' /\ RollingBack'
  BY <1>1 DEF Proceed, Kept, Fetching, RollingBack
<1> QED
  BY <1>2, <1>3, <1>4 DEF AInv, Conditions

-----------------------------------------------------------------------------
LEMMA MoveOldAsideStep == AInv /\ MoveOldAside => AInv'
<1> SUFFICES ASSUME AInv, MoveOldAside PROVE AInv'
  OBVIOUS
<1>1. Replacing /\ Kept /\ disk \in Disks
  BY DEF MoveOldAside, Replacing, Kept, AInv, TypeOK, Disks
<1>2. CASE disk[Install][File] # None /\ Rename(Install, Saved, File) /\ pc' = "move" /\ UNCHANGED at
  <2>1. /\ disk' \in Disks
        /\ disk'[Install][File] = None /\ disk'[Saved][File] = disk[Install][File]
        /\ \A d \in Dirs, g \in Files :
             d \notin {Install, Saved} \/ g # File => disk'[d][g] = disk[d][g]
    BY <1>1, <1>2, InWork, Renamed
  <2>2. TypeOK'
    BY <1>1, <1>2, <2>1, InWork, TypeKept DEF PCs
  <2>3. CASE mode = "update"
    <3>1. disk[Install][File] = old[File]
      BY <1>1, <2>3, InWork DEF AInv, Updating, Replacing, MoveOldAside, File
    <3>2. Backed'
      <4>1. run \in backups /\ Saved = Backup(run) /\ \A n \in backups : n = run
        BY <1>1, <2>3, InWork DEF AInv, Backed, OneBackup
      <4>2. \A n \in 1..MaxRuns, f \in Files :
              n \notin backups => disk'[Backup(n)][f] = disk[Backup(n)][f]
        BY <2>1, <4>1, DirsDistinct DEF AInv, TypeOK
      <4>3. \A f \in Files : disk'[Backup(run)][f] # None => disk'[Backup(run)][f] = old[f]
        BY <2>1, <3>1, <4>1, InWork, <1>1 DEF AInv, Backed, KeepsOld
      <4>4. \A f \in Files : old[f] # None /\ disk'[Install][f] # old[f] =>
              disk'[Backup(run)][f] = old[f]
        BY <2>1, <3>1, <4>1, InWork, <1>1 DEF AInv, Backed, Safe
      <4> QED
        BY <1>1, <4>1, <4>2, <4>3, <4>4, BackedKept
    <3>3. Ahead
      BY <1>1, <2>1, <2>3, InWork, AheadKept
    <3>4. Updating'
      BY <1>1, <1>2, <2>1, <2>3, <3>1, <3>3, InWork
      DEF Updating, AInv, Kept, Replacing, Ahead, File, Distinct
    <3>5. Fetching' /\ RollingBack'
      BY <1>1, <1>2, <2>3 DEF Fetching, RollingBack, Kept
    <3> QED
      BY <2>2, <3>2, <3>4, <3>5 DEF AInv, Conditions
  <2>4. CASE mode = "rollback"
    <3>1. /\ Saved = Tmp /\ \E n \in backups : source = Backup(n)
          /\ disk[source][File] # None
      BY <1>1, <2>4, InWork DEF AInv, RollingBack, Replacing, File
    <3>2. PICK n \in backups : source = Backup(n)
      BY <3>1
    <3>3. \A m \in 1..MaxRuns : disk'[Backup(m)] = disk[Backup(m)]
      BY <1>1, <2>1, <3>1, DirsDistinct DEF Disks
    <3>4. disk'[Backup(n)][File] = old[File]
      BY <3>1, <3>2, <3>3, <1>1, InWork DEF AInv, Backed, KeepsOld, TypeOK
    <3>5. Backed'
      <4>1. \A m \in backups, f \in Files :
              disk'[Backup(m)][f] # None => disk'[Backup(m)][f] = old[f]
        BY <3>3 DEF AInv, Backed, KeepsOld, TypeOK
      <4>2. \A f \in Files : old[f] # None /\ disk'[Install][f] # old[f] =>
              \E m \in backups : disk'[Backup(m)][f] = old[f]
        <5> SUFFICES ASSUME NEW f \in Files, f # File, old[f] # None, disk'[Install][f] # old[f]
                     PROVE  \E m \in backups : disk'[Backup(m)][f] = old[f]
          BY <3>2, <3>4
        <5>1. disk[Install][f] # old[f]
          BY <2>1, <1>1, InWork
        <5>2. PICK m \in backups : disk[Backup(m)][f] = old[f]
          BY <5>1 DEF AInv, Backed, Safe
        <5> QED
          BY <5>2, <3>3 DEF AInv, TypeOK
      <4> QED
        BY <1>1, <3>3, <4>1, <4>2, BackedKept
    <3>6. disk'[source] = disk[source]
      BY <3>2, <3>3 DEF AInv, TypeOK
    <3>7. RollingBack'
      BY <1>1, <1>2, <2>4, <3>6 DEF AInv, RollingBack, Kept, Replacing, MoveOldAside, Distinct
    <3>8. Fetching' /\ Updating'
      BY <1>1, <1>2, <2>4 DEF Fetching, Updating, Kept
    <3> QED
      BY <2>2, <3>5, <3>7, <3>8 DEF AInv, Conditions
  <2> QED
    BY <2>3, <2>4 DEF AInv, TypeOK
<1>3. CASE disk[Install][File] = None /\ pc' = "move" /\ UNCHANGED <<disk, at>>
  <2>1. TypeOK'
    BY <1>1, <1>3, InWork, TypeKept DEF PCs
  <2>2. Backed'
    BY <1>1, <1>3, BackedUnchanged DEF AInv, Kept
  <2>3. Updating'
    BY <1>1, <1>3, InWork DEF AInv, Updating, Kept, Replacing, MoveOldAside, File, Distinct
  <2>4. Fetching' /\ RollingBack'
    BY <1>1, <1>3 DEF AInv, Fetching, RollingBack, Kept, MoveOldAside, Distinct
  <2> QED
    BY <2>1, <2>2, <2>3, <2>4 DEF AInv, Conditions
<1>4. CASE MayFail /\ GiveUp /\ UNCHANGED disk
  BY <1>1, <1>4, InWork, GiveUpStep DEF AInv, TypeOK
<1> QED
  BY <1>2, <1>3, <1>4 DEF MoveOldAside

LEMMA MoveNewInStep == AInv /\ MoveNewIn => AInv'
<1> SUFFICES ASSUME AInv, MoveNewIn PROVE AInv'
  OBVIOUS
<1>1. Replacing /\ Kept /\ disk \in Disks /\ pc = "move"
  BY DEF MoveNewIn, Replacing, Kept, AInv, TypeOK, Disks
<1>2. CASE Rename(source, Install, File) /\ Proceed
  <2>1. /\ disk' \in Disks
        /\ disk'[source][File] = None /\ disk'[Install][File] = disk[source][File]
        /\ \A d \in Dirs, g \in Files :
             d \notin {source, Install} \/ g # File => disk'[d][g] = disk[d][g]
    BY <1>1, <1>2, InWork, Renamed
  <2>2. CASE mode = "update"
    <3>1. /\ run \in backups /\ source = Staging /\ \A n \in backups : n = run
          /\ old[File] # None => disk[Backup(run)][File] = old[File]
      BY <1>1, <2>2, InWork DEF AInv, Backed, OneBackup, Updating, Replacing
    <3>2. \A n \in 1..MaxRuns : disk'[Backup(n)] = disk[Backup(n)]
      BY <1>1, <2>1, <3>1, DirsDistinct DEF Disks
    <3>3. \A f \in Files : old[f] # None /\ disk'[Install][f] # old[f] =>
            disk'[Backup(run)][f] = old[f]
      BY <1>1, <2>1, <3>1, <3>2, InWork DEF AInv, Backed, Safe, TypeOK
    <3>4. Backed'
      BY <1>1, <3>1, <3>2, <3>3, BackedKept DEF AInv, Backed, KeepsOld, TypeOK
    <3>5. Ahead
      BY <1>1, <2>1, <2>2, InWork, AheadKept
    <3> QED
      BY <1>1, <1>2, <2>1, <2>2, <3>4, <3>5, ProceedStep
  <2>3. CASE mode = "rollback"
    <3>1. PICK n \in backups : source = Backup(n)
      BY <1>1, <2>3, InWork
    <3>2. /\ disk[source][File] # None /\ disk[source][File] = old[File]
          /\ \A m \in backups : m = n
      BY <1>1, <2>3, <3>1, InWork
      DEF AInv, RollingBack, Replacing, File, Backed, KeepsOld, OneBackup
    <3>3. \A m \in 1..MaxRuns, f \in Files :
            m \notin backups => disk'[Backup(m)][f] = disk[Backup(m)][f]
      BY <2>1, <3>1, DirsDistinct DEF AInv, TypeOK
    <3>4. \A f \in Files :
            disk'[source][f] # None => f # File /\ disk'[source][f] = old[f]
      BY <2>1, <3>1, InWork, <1>1 DEF AInv, Backed, KeepsOld
    <3>5. \A f \in Files : old[f] # None /\ disk'[Install][f] # old[f] =>
            disk'[source][f] = old[f]
      BY <2>1, <3>1, <3>2, InWork, <1>1 DEF AInv, Backed, Safe
    <3>6. Backed'
      BY <1>1, <3>1, <3>2, <3>3, <3>4, <3>5, BackedKept
    <3>7. at \in 1..Len(order) /\ Len(order) \in Nat /\ \A i \in 1..Len(order) : order[i] \in Files
      BY <1>1, InWork
    <3>8. TypeOK'
      BY <1>1, <1>2, <2>1, <3>7, TypeKept DEF Proceed, PCs
    <3>9. \A i \in at + 1..Len(order) : disk'[source][order[i]] # None
      BY <1>1, <2>1, <2>3, <3>7, InWork DEF AInv, RollingBack, Distinct, File
    <3>10. \A f \in Files : disk'[source][f] # None => \E i \in at + 1..Len(order) : order[i] = f
      BY <1>1, <2>1, <2>3, <3>4, <3>7, InWork DEF AInv, RollingBack, File
    <3>11. RollingBack'
      <4>1. CASE at < Len(order)
        BY <1>1, <1>2, <2>3, <3>1, <3>7, <3>9, <3>10, <4>1
        DEF Proceed, AInv, RollingBack, Kept, Distinct
      <4>2. CASE ~(at < Len(order))
        <5>1. pc' = "tidy" /\ at + 1..Len(order) = {}
          BY <1>2, <2>3, <3>7, <4>2 DEF Proceed
        <5> QED
          BY <1>1, <2>3, <3>1, <3>10, <5>1 DEF AInv, RollingBack, Kept, Distinct
      <4> QED
        BY <4>1, <4>2
    <3>12. Fetching' /\ Updating'
      BY <1>1, <1>2, <2>3 DEF Fetching, Updating, Kept, Proceed
    <3> QED
      BY <3>6, <3>8, <3>11, <3>12 DEF AInv, Conditions
  <2> QED
    BY <2>2, <2>3 DEF AInv, TypeOK
<1>3. CASE /\ disk[source][File] = None \/ mode = "update" \/ MayFail
           /\ pc' = "copy" /\ UNCHANGED <<disk, at>>
  <2>1. mode = "update"
    BY <1>1, <1>3, InWork DEF AInv, TypeOK, RollingBack, File
  <2>2. TypeOK'
    BY <1>1, <1>3, InWork, TypeKept DEF PCs
  <2>3. Backed'
    BY <1>1, <1>3, BackedUnchanged DEF AInv, Kept
  <2>4. Updating'
    BY <1>1, <1>3, <2>1 DEF AInv, Updating, Kept, Replacing, File, Distinct
  <2>5. Fetching' /\ RollingBack'
    BY <1>1, <1>3, <2>1 DEF Fetching, RollingBack, Kept
  <2> QED
    BY <2>2, <2>3, <2>4, <2>5 DEF AInv, Conditions
<1> QED
  BY <1>2, <1>3 DEF MoveNewIn

(* Only an update gets as far as a copy, or as restoring files.            *)
LEMMA OnlyUpdates ==
  AInv /\ pc \in {"copy", "copying", "unlink", "restore", "putback"} => mode = "update"
BY DEF AInv, TypeOK, RollingBack

(* A copy writes the file in work, whose old version is in the backup.     *)
LEMMA CopyStep ==
  ASSUME AInv, pc \in {"copy", "copying"}, Kept, UNCHANGED at, pc' \in {"copying", "unlink"},
         NEW c \in Contents, disk' = [disk EXCEPT ![Install][File] = c]
  PROVE  AInv'
<1>1. Replacing /\ disk \in Disks /\ mode = "update"
  BY OnlyUpdates DEF Replacing, AInv, TypeOK, Disks
<1>2. /\ disk' \in Disks
      /\ \A d \in Dirs, g \in Files : d # Install \/ g # File => disk'[d][g] = disk[d][g]
  <2>1. Install \in Dirs /\ File \in Files
    BY <1>1, InWork
  <2> QED
    BY <1>1, <2>1, Written
<1>3. /\ run \in backups /\ \A n \in backups : n = run
      /\ old[File] # None => disk[Backup(run)][File] = old[File]
  BY <1>1, InWork DEF AInv, Backed, OneBackup, Updating
<1>4. \A n \in 1..MaxRuns : disk'[Backup(n)] = disk[Backup(n)]
  BY <1>1, <1>2, DirsDistinct DEF Disks
<1>5. \A f \in Files : old[f] # None /\ disk'[Install][f] # old[f] =>
        disk'[Backup(run)][f] = old[f]
  BY <1>1, <1>2, <1>3, <1>4, InWork DEF AInv, Backed, Safe, TypeOK
<1>6. Backed'
  BY <1>3, <1>4, <1>5, BackedKept DEF AInv, Backed, KeepsOld, TypeOK
<1>7. Ahead
  BY <1>1, <1>2, InWork, AheadKept
<1>8. TypeOK'
  BY <1>1, <1>2, InWork, TypeKept DEF PCs
<1>9. Updating'
  BY <1>1, <1>3, <1>4, <1>7, InWork
  DEF AInv, TypeOK, Updating, Kept, Replacing, Ahead, File, Distinct
<1>10. Fetching' /\ RollingBack'
  BY <1>1 DEF Fetching, RollingBack, Kept
<1> QED
  BY <1>6, <1>8, <1>9, <1>10 DEF AInv, Conditions

LEMMA BeginCopyStep == AInv /\ BeginCopy => AInv'
<1> SUFFICES ASSUME AInv, BeginCopy PROVE AInv'
  OBVIOUS
<1>1. Replacing /\ Kept /\ pc = "copy" /\ mode = "update"
  BY OnlyUpdates DEF BeginCopy, Replacing, Kept
<1>2. CASE disk' = [disk EXCEPT ![Install][File] = Partial] /\ pc' = "copying" /\ UNCHANGED at
  BY <1>1, <1>2, CopyStep, NoneIsContent
<1>3. CASE GiveUp /\ UNCHANGED disk
  BY <1>1, <1>3, GiveUpStep
<1> QED
  BY <1>2, <1>3 DEF BeginCopy

LEMMA EndCopyStep == AInv /\ EndCopy => AInv'
<1> SUFFICES ASSUME AInv, EndCopy PROVE AInv'
  OBVIOUS
<1>1. Replacing /\ Kept /\ pc = "copying" /\ mode = "update"
  BY OnlyUpdates DEF EndCopy, Replacing, Kept
<1>2. CASE /\ disk' = [disk EXCEPT ![Install][File] = disk[source][File]]
           /\ pc' = "unlink" /\ UNCHANGED at
  <2>1. disk[source][File] \in Contents
    BY <1>1, InWork DEF AInv, TypeOK
  <2> QED
    BY <1>1, <1>2, <2>1, CopyStep
<1>3. CASE GiveUp /\ UNCHANGED disk
  BY <1>1, <1>3, GiveUpStep
<1> QED
  BY <1>2, <1>3 DEF EndCopy

LEMMA RemoveSourceStep == AInv /\ RemoveSource => AInv'
<1> SUFFICES ASSUME AInv, RemoveSource PROVE AInv'
  OBVIOUS
<1>1. Replacing /\ Kept /\ pc = "unlink" /\ mode = "update" /\ disk \in Disks
  BY OnlyUpdates DEF RemoveSource, Replacing, Kept, AInv, TypeOK, Disks
<1>2. CASE disk' = [disk EXCEPT ![source][File] = None] /\ Proceed
  <2>1. /\ disk' \in Disks
        /\ \A d \in Dirs, g \in Files : d # source \/ g # File => disk'[d][g] = disk[d][g]
    <3>1. source \in Dirs /\ File \in Files
      BY <1>1, InWork
    <3> QED
      BY <1>1, <1>2, <3>1, NoneIsContent, Written
  <2>2. /\ \A n \in 1..MaxRuns : disk'[Backup(n)] = disk[Backup(n)]
        /\ disk'[Install] = disk[Install]
    BY <1>1, <2>1, InWork, DirsDistinct DEF Disks
  <2>3. Backed'
    BY <1>1, <2>2, BackedKept DEF AInv, Backed, KeepsOld, Safe, TypeOK
  <2>4. Ahead
    BY <1>1, <2>2, AheadKept
  <2> QED
    BY <1>1, <1>2, <2>1, <2>3, <2>4, ProceedStep
<1>3. CASE GiveUp /\ UNCHANGED disk
  BY <1>1, <1>3, GiveUpStep
<1> QED
  BY <1>2, <1>3 DEF RemoveSource

-----------------------------------------------------------------------------
LEMMA RestoreRemoveStep == AInv /\ RestoreRemove => AInv'
<1> SUFFICES ASSUME AInv, RestoreRemove PROVE AInv'
  OBVIOUS
<1>1. /\ Kept /\ disk \in Disks /\ pc = "restore" /\ mode = "update"
      /\ at \in 1..Len(order) /\ Len(order) \in Nat /\ File \in Files
  BY OnlyUpdates DEF RestoreRemove, Kept, AInv, TypeOK, Disks, File
<1>2. run \in backups /\ Saved = Backup(run) /\ \A n \in backups : n = run
  BY <1>1 DEF AInv, Updating, Saved, Backed, OneBackup
<1>3. CASE at' = at - 1 /\ UNCHANGED <<disk, pc>>
  <2>1. TypeOK'
    BY <1>1, <1>3, TypeKept DEF PCs
  <2>2. Backed'
    BY <1>1, <1>3, BackedUnchanged DEF AInv, Kept
  <2> QED
    BY <1>1, <1>3, <2>1, <2>2
    DEF AInv, Conditions, Fetching, Updating, RollingBack, Kept, Replacing, Distinct
<1>4. CASE disk[Saved][File] # None /\ pc' = "putback" /\ UNCHANGED <<at, disk>>
  <2>1. TypeOK'
    BY <1>1, <1>4, TypeKept DEF PCs
  <2>2. Backed'
    BY <1>1, <1>4, BackedUnchanged DEF AInv, Kept
  <2>3. Updating'
    BY <1>1, <1>2, <1>4 DEF AInv, Updating, Kept, Replacing, Distinct, File
  <2> QED
    BY <1>1, <1>4, <2>1, <2>2, <2>3 DEF AInv, Conditions, Fetching, RollingBack, Kept
<1>5. CASE /\ disk[Saved][File] # None /\ pc' = "putback" /\ UNCHANGED at
           /\ disk' = [disk EXCEPT ![Install][File] = None]
  <2>1. /\ disk' \in Disks
        /\ \A d \in Dirs, g \in Files : d # Install \/ g # File => disk'[d][g] = disk[d][g]
    BY <1>1, <1>5, DirsDistinct, NoneIsContent, Written
  <2>2. \A n \in 1..MaxRuns : disk'[Backup(n)] = disk[Backup(n)]
    BY <1>1, <2>1, DirsDistinct DEF Disks
  <2>3. disk[Backup(run)][File] = old[File]
    BY <1>1, <1>2, <1>5 DEF AInv, Backed, KeepsOld
  <2>4. \A f \in Files : old[f] # None /\ disk'[Install][f] # old[f] =>
          disk'[Backup(run)][f] = old[f]
    BY <1>2, <2>1, <2>2, <2>3, DirsDistinct DEF AInv, TypeOK, Backed, Safe
  <2>5. Backed'
    BY <1>1, <1>2, <2>2, <2>4, BackedKept DEF AInv, Backed, KeepsOld, TypeOK
  <2>6. TypeOK'
    BY <1>1, <1>5, <2>1, TypeKept DEF PCs
  <2>7. Updating'
    BY <1>1, <1>2, <1>5, <2>2 DEF AInv, TypeOK, Updating, Kept, Replacing, Distinct, File
  <2> QED
    BY <1>1, <1>5, <2>5, <2>6, <2>7 DEF AInv, Conditions, Fetching, RollingBack, Kept
<1> QED
  BY <1>3, <1>4, <1>5 DEF RestoreRemove

LEMMA RestoreMoveStep == AInv /\ RestoreMove => AInv'
<1> SUFFICES ASSUME AInv, RestoreMove PROVE AInv'
  OBVIOUS
<1>1. /\ Kept /\ disk \in Disks /\ pc = "putback" /\ mode = "update"
      /\ at' = at - 1 /\ pc' = "restore"
  BY OnlyUpdates DEF RestoreMove, Kept, AInv, TypeOK, Disks
<1>2. /\ run \in backups /\ Saved = Backup(run) /\ \A n \in backups : n = run
      /\ at \in 1..Len(order) /\ Len(order) \in Nat /\ File \in Files
      /\ disk[Saved][File] # None
  BY <1>1, InWork DEF AInv, Backed, OneBackup, Updating
<1>3. TypeOK' <=> disk' \in Disks
  BY <1>1, <1>2, TypeKept DEF PCs, TypeOK, Disks
<1>4. Fetching' /\ Updating' /\ RollingBack'
  BY <1>1, <1>2 DEF AInv, Fetching, Updating, RollingBack, Kept, Replacing, Distinct
<1>5. CASE UNCHANGED disk
  BY <1>1, <1>3, <1>4, <1>5, BackedUnchanged DEF AInv, Conditions, Kept
<1>6. CASE Rename(Saved, Install, File)
  <2>1. /\ disk' \in Disks
        /\ disk'[Saved][File] = None /\ disk'[Install][File] = disk[Saved][File]
        /\ \A d \in Dirs, g \in Files :
             d \notin {Saved, Install} \/ g # File => disk'[d][g] = disk[d][g]
    BY <1>1, <1>6, InWork, Renamed
  <2>2. disk'[Install][File] = old[File]
    BY <1>2, <2>1 DEF AInv, Backed, KeepsOld
  <2>3. \A n \in 1..MaxRuns, f \in Files :
          n \notin backups => disk'[Backup(n)][f] = disk[Backup(n)][f]
    BY <1>2, <2>1, DirsDistinct DEF AInv, TypeOK
  <2>4. \A f \in Files : disk'[Backup(run)][f] # None => disk'[Backup(run)][f] = old[f]
    BY <1>1, <1>2, <2>1, InWork DEF AInv, Backed, KeepsOld
  <2>5. \A f \in Files : old[f] # None /\ disk'[Install][f] # old[f] =>
          disk'[Backup(run)][f] = old[f]
    BY <1>1, <1>2, <2>1, <2>2, InWork DEF AInv, Backed, Safe
  <2>6. Backed'
    BY <1>1, <1>2, <2>3, <2>4, <2>5, BackedKept
  <2> QED
    BY <1>3, <1>4, <2>1, <2>6 DEF AInv, Conditions
<1> QED
  BY <1>5, <1>6 DEF RestoreMove

(* The backup that a rollback removes is empty by then.                    *)
LEMMA TidyStep == AInv /\ Tidy => AInv'
<1> SUFFICES ASSUME AInv, Tidy PROVE AInv'
  OBVIOUS
<1>1. /\ pc' = "idle" /\ outcome' = "ok" /\ pc = "tidy" /\ mode = "rollback"
      /\ UNCHANGED <<run, mode, source, order, at, before, old>>
  BY DEF Tidy, Finish, AInv, TypeOK, Updating
<1>2. RemoveDirs({Tmp, source}, {}) /\ disk \in Disks
  BY NothingLocked DEF AInv, Tidy, TypeOK, Disks
<1>3. /\ disk' \in Disks
      /\ \A d \in Dirs, f \in Files :
           disk'[d][f] = IF d \in {Tmp, source} THEN None ELSE disk[d][f]
      /\ backups' = {n \in backups : Backup(n) \notin {Tmp, source}}
  BY <1>2, Removed
<1>4. PICK n \in backups : source = Backup(n)
  BY <1>1 DEF AInv, RollingBack
<1>5. backups' = {} /\ n \in 1..MaxRuns /\ \A m \in backups : m = n
  BY <1>3, <1>4 DEF AInv, TypeOK, Backed, OneBackup
<1>6. \A f \in Files : disk[source][f] = None
  BY <1>1 DEF AInv, RollingBack
<1>7. disk'[Install] = disk[Install]
  BY <1>2, <1>3, <1>4, <1>5, DirsDistinct DEF Disks
<1>8. \A f \in Files : old[f] # None => disk[Install][f] = old[f]
  BY <1>4, <1>5, <1>6 DEF AInv, Backed, Safe
<1>9. \A m \in 1..MaxRuns, f \in Files : disk'[Backup(m)][f] = None
  BY <1>3, <1>4, <1>5, DirsDistinct DEF AInv, Backed, OthersEmpty
<1>10. Backed'
  BY <1>1, <1>5, <1>7, <1>8, <1>9 DEF Backed, OneBackup, OthersEmpty, KeepsOld, Safe
<1>11. TypeOK'
  BY <1>1, <1>3, <1>5 DEF AInv, TypeOK, PCs, Disks
<1> QED
  BY <1>1, <1>10, <1>11 DEF AInv, Conditions, Fetching, Updating, RollingBack

-----------------------------------------------------------------------------
LEMMA NextAInv == AInv /\ [Next]_vars => AInv'
<1> SUFFICES ASSUME AInv, [Next]_vars PROVE AInv'
  OBVIOUS
<1>1. CASE UNCHANGED vars
  <2>1. TypeOK'
    BY <1>1 DEF vars, AInv, TypeOK
  <2>2. Backed'
    BY <1>1, BackedUnchanged DEF vars, AInv
  <2>3. Fetching' /\ Updating' /\ RollingBack'
    BY <1>1 DEF vars, AInv, Fetching, Updating, RollingBack, Replacing, Distinct, File
  <2> QED
    BY <2>1, <2>2, <2>3 DEF AInv, Conditions
<1>2. CASE \E release \in Releases : PlanUpdate(release)
  BY <1>2, PlanStep
<1>3. CASE RefuseRelease \/ WriteRecord \/ EndRestore \/ Die \/ Done
  BY <1>3, EndStep
<1> QED
  BY <1>1, <1>2, <1>3, BeginUpdateStep, BeginRollbackStep, MoveOldAsideStep, MoveNewInStep,
     BeginCopyStep, EndCopyStep, RemoveSourceStep, RestoreRemoveStep, RestoreMoveStep, TidyStep
  DEF Next

(* Where the invariant finds a file is where perform_rollback looks.       *)
LEMMA AInvRecoverable == AInv => Recoverable
<1> SUFFICES ASSUME AInv, NEW f \in Files, old[f] # None, disk[Install][f] # old[f]
             PROVE  backups # {} /\ disk[Backup(Latest)][f] = old[f]
  BY DEF Recoverable
<1>1. PICK n \in backups : disk[Backup(n)][f] = old[f]
  BY DEF AInv, Backed, Safe
<1>2. Latest = n
  BY <1>1, LatestBackup DEF AInv, Backed, OneBackup
<1> QED
  BY <1>1, <1>2

(* However an update fails, and after whichever operation the process      *)
(* dies, the removal of a tree being one: each file of                     *)
(* the version installed when it began is in place or in the latest        *)
(* backup, which is the one a rollback takes, for any number of files,     *)
(* releases and invocations.                                               *)
THEOREM ApplyRecoverable == Conditions /\ Spec => []Recoverable
<1>1. Conditions /\ Init => AInv
  BY InitAInv
<1>2. AInv /\ [Next]_vars => AInv'
  BY NextAInv
<1>3. AInv => Recoverable
  BY AInvRecoverable
<1> QED
  BY <1>1, <1>2, <1>3, PTL DEF Spec

-----------------------------------------------------------------------------
(* While there is a backup, the version that the last plan replaces is the *)
(* one that the last update found: the two differ after an update that     *)
(* made no plan, but such an update leaves no backup.                      *)
BackupOfBefore == backups # {} => before = old

RInv == AInv /\ BackupOfBefore /\ RollbackRestores

LEMMA TidyRestores == AInv /\ BackupOfBefore /\ Tidy => RollbackRestores'
<1> SUFFICES ASSUME AInv, BackupOfBefore, Tidy PROVE RollbackRestores'
  OBVIOUS
<1>1. AInv' /\ UNCHANGED <<before, old>> /\ pc = "tidy" /\ mode = "rollback"
  BY TidyStep DEF Tidy, AInv, TypeOK, Updating
<1>2. PICK n \in backups : source = Backup(n)
  BY <1>1 DEF AInv, RollingBack
<1>3. backups' = {} /\ before = old
  <2>1. RemoveDirs({Tmp, source}, {})
    BY NothingLocked DEF AInv, Tidy
  <2> QED
    BY <1>2, <2>1 DEF RemoveDirs, AInv, Backed, OneBackup, BackupOfBefore
<1> QED
  BY <1>1, <1>3 DEF AInv, Backed, Safe, RollbackRestores

LEMMA NextRInv == RInv /\ [Next]_vars => RInv'
<1> SUFFICES ASSUME RInv, [Next]_vars PROVE RInv'
  OBVIOUS
<1>1. AInv /\ AInv' /\ BackupOfBefore /\ RollbackRestores
  BY NextAInv DEF RInv
<1>2. CASE BeginUpdate
  <2>1. pc' = "fetch" /\ backups' = {}
    BY <1>1, <1>2 DEF BeginUpdate, AInv, Fetching
  <2> QED
    BY <1>1, <2>1 DEF RInv, BackupOfBefore, RollbackRestores
<1>3. CASE \E release \in Releases : PlanUpdate(release)
  BY <1>1, <1>3 DEF PlanUpdate, AInv, Fetching, RInv, BackupOfBefore, RollbackRestores
<1>4. CASE BeginRollback
  BY <1>1, <1>4 DEF BeginRollback, Finish, RInv, BackupOfBefore, RollbackRestores
<1>5. CASE Tidy
  <2>1. backups' \subseteq backups /\ UNCHANGED <<before, old>>
    BY <1>5 DEF Tidy, RemoveDirs
  <2> QED
    BY <1>1, <1>5, <2>1, TidyRestores DEF RInv, BackupOfBefore
<1>6. CASE RefuseRelease \/ WriteRecord \/ EndRestore \/ Die
  <2>1. UNCHANGED <<backups, before, old>>
    BY <1>6 DEF RefuseRelease, WriteRecord, EndRestore, Die
  <2>2. mode' = "update" \/ outcome' # "ok"
    BY <1>1, <1>6 DEF RefuseRelease, WriteRecord, EndRestore, Die, Finish, AInv, TypeOK, RollingBack
  <2> QED
    BY <1>1, <2>1, <2>2 DEF RInv, BackupOfBefore, RollbackRestores
<1>7. CASE MoveOldAside \/ MoveNewIn \/ BeginCopy \/ EndCopy \/ RemoveSource
           \/ RestoreRemove \/ RestoreMove
  <2>1. UNCHANGED <<backups, before, old>> /\ pc' # "idle"
    BY <1>7 DEF MoveOldAside, MoveNewIn, BeginCopy, EndCopy, RemoveSource, RestoreRemove,
       RestoreMove, Proceed, GiveUp
  <2> QED
    BY <1>1, <2>1 DEF RInv, BackupOfBefore, RollbackRestores
<1>8. CASE Done \/ UNCHANGED vars
  BY <1>1, <1>8 DEF Done, vars, RInv, BackupOfBefore, RollbackRestores
<1> QED
  BY <1>2, <1>3, <1>4, <1>5, <1>6, <1>7, <1>8 DEF Next

(* A rollback that reports success has put back every file of the version  *)
(* that the last update replaced, whatever failed and died before it.      *)
THEOREM ApplyRollbackRestores == Conditions /\ Spec => []RollbackRestores
<1>1. Conditions /\ Init => RInv
  BY InitAInv DEF Init, RInv, BackupOfBefore, RollbackRestores
<1>2. RInv /\ [Next]_vars => RInv'
  BY NextRInv
<1>3. RInv => RollbackRestores
  BY DEF RInv
<1> QED
  BY <1>1, <1>2, <1>3, PTL DEF Spec

-----------------------------------------------------------------------------
(* What an update under way has installed, and from where.                 *)
Installing ==
  mode = "update" /\ pc \notin {"idle", "fetch"} =>
    /\ \A f \in Files : disk[Staging][f] \in {None, run + 1}
    /\ \A f \in Files : (\A i \in 1..Len(order) : order[i] # f) => disk[Install][f] = before[f]
    /\ Replacing => \A i \in 1..Len(order) : i < at => disk[Install][order[i]] = run + 1
    /\ pc = "copying" => disk[Staging][File] # None
    /\ pc = "unlink" => disk[Install][File] = run + 1
    /\ pc = "record" => \A i \in 1..Len(order) : disk[Install][order[i]] = run + 1

UInv == AInv /\ Installing /\ UpdateInstallsAll

(* The list's names, which Range gives by the list's domain.               *)
LEMMA InOrder ==
  ASSUME order \in Seq(Files), NEW f
  PROVE  f \in Range(order) <=> \E i \in 1..Len(order) : order[i] = f
BY DEF Range

LEMMA PlanInstalling ==
  ASSUME AInv, NEW release \in Releases, PlanUpdate(release) PROVE Installing'
<1>1. disk \in Disks /\ release \in Seq(Files) /\ run \in Nat /\ mode = "update"
  BY ApplyAssumption DEF AInv, TypeOK, Disks, Fetching, PlanUpdate
<1>2. /\ \A f \in Files : disk'[Staging][f] \in {None, run + 1}
      /\ disk'[Install] = disk[Install]
  BY <1>1, DirsDistinct DEF PlanUpdate, Disks
<1>3. release = <<>> => Len(release) = 0
  OBVIOUS
<1> QED
  BY <1>1, <1>2, <1>3 DEF PlanUpdate, Installing, Replacing

(* A step on the file in work leaves the others, and those not listed.     *)
LEMMA OthersStay ==
  ASSUME AInv, Installing, mode = "update", pc \notin {"idle", "fetch"}, Kept,
         at \in 1..Len(order),
         \A f \in Files : f # File => disk'[Install][f] = disk[Install][f],
         \A f \in Files : disk'[Staging][f] \in {None, disk[Staging][f]}
  PROVE  /\ \A f \in Files : disk'[Staging][f] \in {None, run + 1}
         /\ \A f \in Files :
              (\A i \in 1..Len(order) : order[i] # f) => disk'[Install][f] = before[f]
         /\ Replacing =>
              \A i \in 1..Len(order) : i < at => disk'[Install][order[i]] = run + 1
<1>1. order \in Seq(Files) /\ Distinct(order)
  BY DEF AInv, TypeOK, Updating
<1>2. \A f \in Files : disk'[Staging][f] \in {None, run + 1}
  BY DEF Installing
<1>3. \A f \in Files : (\A i \in 1..Len(order) : order[i] # f) => disk'[Install][f] = before[f]
  BY DEF Installing, File
<1>4. ASSUME Replacing, NEW i \in 1..Len(order), i < at
      PROVE  disk'[Install][order[i]] = run + 1
  <2>1. order[i] \in Files /\ order[i] # File
    BY <1>1, <1>4 DEF Distinct, File
  <2> QED
    BY <1>4, <2>1 DEF Installing
<1> QED
  BY <1>2, <1>3, <1>4

LEMMA ProceedInstalling ==
  ASSUME AInv, Replacing, mode = "update", Proceed, Kept,
         \A f \in Files : disk'[Staging][f] \in {None, run + 1},
         \A f \in Files :
           (\A i \in 1..Len(order) : order[i] # f) => disk'[Install][f] = before[f],
         \A i \in 1..Len(order) : i < at => disk'[Install][order[i]] = run + 1,
         disk'[Install][File] = run + 1
  PROVE  Installing'
<1>1. at \in 1..Len(order) /\ Len(order) \in Nat
  BY InWork
<1>2. \A i \in 1..Len(order) : i <= at => disk'[Install][order[i]] = run + 1
  BY <1>1 DEF File
<1>3. CASE at < Len(order)
  BY <1>1, <1>2, <1>3 DEF Proceed, Kept, Installing, Replacing
<1>4. CASE ~(at < Len(order))
  BY <1>1, <1>2, <1>4 DEF Proceed, Kept, Installing, Replacing
<1> QED
  BY <1>3, <1>4

(* An update's step on a file: aside, in, or by a copy.                    *)
LEMMA FileInstalling ==
  ASSUME AInv, Installing, mode = "update",
         MoveOldAside \/ MoveNewIn \/ BeginCopy \/ EndCopy \/ RemoveSource
  PROVE  Installing'
<1>1. Replacing /\ Kept /\ disk \in Disks /\ pc \notin {"idle", "fetch"}
  BY DEF MoveOldAside, MoveNewIn, BeginCopy, EndCopy, RemoveSource, Replacing, Kept,
     AInv, TypeOK, Disks
<1>2. /\ at \in 1..Len(order) /\ File \in Files /\ Saved \in Dirs
      /\ source = Staging /\ Install # Staging /\ Saved # Install /\ Saved # Staging
      /\ Install \in Dirs /\ Staging \in Dirs
  BY <1>1, InWork, DirsDistinct
<1>3. disk[Staging][File] # None => disk[Staging][File] = run + 1
  BY <1>1, <1>2 DEF Installing
<1>4. CASE GiveUp /\ UNCHANGED disk
  BY <1>1, <1>4 DEF GiveUp, Installing, Kept, Replacing
<1>5. CASE UNCHANGED <<disk, at>> /\ pc' \in {"move", "copy"}
  BY <1>1, <1>5 DEF Installing, Kept, Replacing
<1>6. CASE Rename(Install, Saved, File) /\ pc' = "move" /\ UNCHANGED at
  <2>1. \A d \in Dirs, g \in Files :
          d \notin {Install, Saved} \/ g # File => disk'[d][g] = disk[d][g]
    BY <1>1, <1>2, <1>6, Renamed
  <2> QED
    BY <1>1, <1>2, <1>6, <2>1, OthersStay DEF Installing, Kept, Replacing
<1>7. CASE disk[source][File] # None /\ Rename(source, Install, File) /\ Proceed
  <2>1. /\ disk'[Staging][File] = None /\ disk'[Install][File] = run + 1
        /\ \A d \in Dirs, g \in Files :
             d \notin {Staging, Install} \/ g # File => disk'[d][g] = disk[d][g]
    BY <1>1, <1>2, <1>3, <1>7, Renamed
  <2>2. /\ \A f \in Files : f # File => disk'[Install][f] = disk[Install][f]
        /\ \A f \in Files : disk'[Staging][f] \in {None, disk[Staging][f]}
    BY <1>2, <2>1
  <2> QED
    BY <1>1, <1>2, <1>7, <2>1, <2>2, OthersStay, ProceedInstalling
<1>8. CASE /\ pc = "copy" /\ disk[source][File] # None
           /\ disk' = [disk EXCEPT ![Install][File] = Partial]
           /\ pc' = "copying" /\ UNCHANGED at
  <2>1. \A d \in Dirs, g \in Files : d # Install \/ g # File => disk'[d][g] = disk[d][g]
    BY <1>1, <1>2, <1>8, NoneIsContent, Written
  <2> QED
    BY <1>1, <1>2, <1>8, <2>1, OthersStay DEF Installing, Kept, Replacing, File
<1>9. CASE /\ pc = "copying"
           /\ disk' = [disk EXCEPT ![Install][File] = disk[source][File]]
           /\ pc' = "unlink" /\ UNCHANGED at
  <2>1. disk[source][File] = run + 1 /\ disk[source][File] \in Contents
    BY <1>1, <1>2, <1>3, <1>9 DEF Installing, Disks
  <2>2. /\ disk'[Install][File] = run + 1
        /\ \A d \in Dirs, g \in Files : d # Install \/ g # File => disk'[d][g] = disk[d][g]
    <3>1. disk' = [disk EXCEPT ![Install][File] = run + 1] /\ run + 1 \in Contents
      BY <1>9, <2>1
    <3>2. disk \in Disks /\ Install \in Dirs /\ File \in Files
      BY <1>1, <1>2
    <3> QED
      BY <3>1, <3>2 DEF Disks
  <2> QED
    BY <1>1, <1>2, <1>9, <2>2, OthersStay DEF Installing, Kept, Replacing, File
<1>10. CASE /\ pc = "unlink" /\ disk' = [disk EXCEPT ![source][File] = None] /\ Proceed
  <2>1. /\ disk'[Staging][File] = None
        /\ \A d \in Dirs, g \in Files : d # Staging \/ g # File => disk'[d][g] = disk[d][g]
    <3>1. disk' = [disk EXCEPT ![Staging][File] = None]
      BY <1>2, <1>10
    <3>2. disk \in Disks /\ Staging \in Dirs /\ File \in Files
      BY <1>1, <1>2
    <3> QED
      BY <3>1, <3>2 DEF Disks
  <2>2. /\ \A f \in Files : disk'[Install][f] = disk[Install][f]
        /\ \A f \in Files : disk'[Staging][f] \in {None, disk[Staging][f]}
        /\ disk'[Install][File] = run + 1
    BY <1>1, <1>2, <1>10, <2>1 DEF Installing
  <2> QED
    BY <1>1, <1>2, <1>10, <2>2, OthersStay, ProceedInstalling
<1> QED
  BY <1>4, <1>5, <1>6, <1>7, <1>8, <1>9, <1>10, <1>2
  DEF MoveOldAside, MoveNewIn, BeginCopy, EndCopy, RemoveSource

(* Restoring touches listed files only, and leaves the staging directory.  *)
LEMMA RestoreInstalling ==
  ASSUME AInv, Installing, RestoreRemove \/ RestoreMove PROVE Installing'
<1>1. /\ Kept /\ disk \in Disks /\ mode = "update" /\ pc \in {"restore", "putback"}
      /\ pc' \in {"restore", "putback"} /\ at \in 1..Len(order) /\ File \in Files
  BY OnlyUpdates, InWork DEF RestoreRemove, RestoreMove, Kept, AInv, TypeOK, Disks, File
<1>2. /\ Saved \in Dirs /\ Saved # Install /\ Saved # Staging
      /\ Install \in Dirs /\ Staging \in Dirs /\ Install # Staging
  BY <1>1, DirsDistinct DEF AInv, TypeOK, Updating, Saved
<1>3. \A d \in Dirs, g \in Files :
        d \notin {Install, Saved} \/ g # File => disk'[d][g] = disk[d][g]
  <2>1. CASE UNCHANGED disk
    BY <2>1
  <2>2. CASE disk' = [disk EXCEPT ![Install][File] = None]
    BY <1>1, <1>2, <2>2, NoneIsContent, Written
  <2>3. CASE Rename(Saved, Install, File)
    BY <1>1, <1>2, <2>3, Renamed
  <2> QED
    BY <2>1, <2>2, <2>3 DEF RestoreRemove, RestoreMove
<1>4. /\ \A f \in Files : disk'[Staging][f] \in {None, run + 1}
      /\ \A f \in Files :
           (\A i \in 1..Len(order) : order[i] # f) => disk'[Install][f] = before[f]
  BY <1>1, <1>2, <1>3, OthersStay
<1> QED
  BY <1>1, <1>4 DEF Installing, Kept, Replacing

LEMMA NextUInv == UInv /\ [Next]_vars => UInv'
<1> SUFFICES ASSUME UInv, [Next]_vars PROVE UInv'
  OBVIOUS
<1>1. AInv /\ AInv' /\ Installing /\ UpdateInstallsAll
  BY NextAInv DEF UInv
<1>2. CASE BeginUpdate \/ BeginRollback \/ RefuseRelease \/ EndRestore \/ Die
  <2>1. mode' = "rollback" \/ pc' \in {"idle", "fetch"}
    BY <1>2 DEF BeginUpdate, BeginRollback, RefuseRelease, EndRestore, Die, Finish
  <2>2. mode' = "rollback" \/ pc' # "idle" \/ outcome' # "ok"
    BY <1>2 DEF BeginUpdate, BeginRollback, RefuseRelease, EndRestore, Die, Finish
  <2> QED
    BY <1>1, <2>1, <2>2 DEF UInv, Installing, UpdateInstallsAll
<1>3. CASE \E release \in Releases : PlanUpdate(release)
  <2>1. Installing'
    BY <1>1, <1>3, PlanInstalling
  <2>2. pc' # "idle"
    BY <1>3 DEF PlanUpdate
  <2> QED
    BY <1>1, <2>1, <2>2 DEF UInv, UpdateInstallsAll
<1>4. CASE MoveOldAside \/ MoveNewIn \/ BeginCopy \/ EndCopy \/ RemoveSource
  <2>1. UNCHANGED mode /\ pc' # "idle"
    BY <1>4 DEF MoveOldAside, MoveNewIn, BeginCopy, EndCopy, RemoveSource, Proceed, GiveUp
  <2>2. Installing'
    BY <1>1, <1>4, <2>1, FileInstalling DEF Installing
  <2> QED
    BY <1>1, <2>1, <2>2 DEF UInv, UpdateInstallsAll
<1>5. CASE RestoreRemove \/ RestoreMove
  <2>1. pc' # "idle"
    BY <1>5 DEF RestoreRemove, RestoreMove
  <2> QED
    BY <1>1, <1>5, <2>1, RestoreInstalling DEF UInv, UpdateInstallsAll
<1>6. CASE WriteRecord
  <2>1. pc = "record" /\ pc' = "idle" /\ UNCHANGED <<disk, run, mode, order, before>>
    BY <1>6 DEF WriteRecord, Finish
  <2>2. mode = "update" /\ order \in Seq(Files)
    BY <1>1, <2>1 DEF AInv, TypeOK, RollingBack
  <2>3. ASSUME NEW f \in Files
        PROVE  disk[Install][f] = IF f \in Range(order) THEN run + 1 ELSE before[f]
    <3>1. CASE f \in Range(order)
      BY <1>1, <2>1, <2>2, <3>1, InOrder DEF Installing
    <3>2. CASE f \notin Range(order)
      BY <1>1, <2>1, <2>2, <3>2, InOrder DEF Installing
    <3> QED
      BY <3>1, <3>2
  <2>4. UpdateInstallsAll'
    BY <2>1, <2>3 DEF UpdateInstallsAll
  <2> QED
    BY <1>1, <2>1, <2>4 DEF UInv, Installing
<1>7. CASE Tidy
  <2>1. mode' = "rollback"
    BY <1>1, <1>7 DEF Tidy, AInv, TypeOK, Updating
  <2> QED
    BY <1>1, <2>1 DEF UInv, Installing, UpdateInstallsAll
<1>8. CASE Done \/ UNCHANGED vars
  BY <1>1, <1>8 DEF Done, vars, UInv, Installing, UpdateInstallsAll, Replacing, File
<1> QED
  BY <1>2, <1>3, <1>4, <1>5, <1>6, <1>7, <1>8 DEF Next

(* An update that reports success has installed every file of its release  *)
(* and touched no other, by renames or copies, whatever was left behind by *)
(* the runs before it.                                                     *)
THEOREM ApplyInstallsAll == Conditions /\ Spec => []UpdateInstallsAll
<1>1. Conditions /\ Init => UInv
  BY InitAInv DEF Init, UInv, Installing, UpdateInstallsAll
<1>2. UInv /\ [Next]_vars => UInv'
  BY NextUInv
<1>3. UInv => UpdateInstallsAll
  BY DEF UInv
<1> QED
  BY <1>1, <1>2, <1>3, PTL DEF Spec
=============================================================================
