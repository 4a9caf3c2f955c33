------------------------------- MODULE Apply -------------------------------
(***************************************************************************)
(* The updater's work on disk (updater/src/apply.rs and the parts of       *)
(* perform_update and perform_rollback in updater/src/lib.rs that touch    *)
(* the install directory): one process at a time, whose every file         *)
(* operation may fail, and which may die between any two of them.  (The    *)
(* removal of a directory tree is one operation; its failure half way, and *)
(* a death in the middle of it, are the faults "cleanup" and "rollback".)  *)
(*                                                                         *)
(* A directory is a function from file names to contents, and a content is *)
(* the number of the release it belongs to.                                *)
(***************************************************************************)
EXTENDS Naturals, Sequences, FiniteSets, SequencesExt

CONSTANTS
  Files,       \* names of the program's files
  Original,    \* the files of the installed release, which is release 1
  Releases,    \* orders in which a zip can list its files (version.json aside)
  Faulty,      \* parts whose file operations may fail: "cleanup", "update", "rollback"
               \* (the removal of a directory tree fails, or ends, half way)
  MaxRuns,     \* invocations of the updater (bound)
  None,        \* no such file
  Partial      \* a file that a copy has not finished

ASSUME ApplyAssumption ==
  /\ IsFiniteSet(Files) /\ Original \subseteq Files
  /\ Releases \subseteq Seq(Files)
  /\ Faulty \subseteq {"cleanup", "update", "rollback"}
  /\ MaxRuns \in Nat
  /\ None \notin Nat /\ Partial \notin Nat /\ None # Partial

VARIABLES
  disk,      \* [directories -> [Files -> contents]]
  backups,   \* the .update-backup-<secs> directories, by the run that made them
  run,       \* number of this invocation; run n installs release n + 1
  mode,      \* "update" or "rollback"
  source,    \* the plan's staging_dir
  order,     \* the plan's files
  at,        \* index of the file in work
  pc,
  outcome,   \* result of the last invocation
  before,    \* install directory when the last update made its plan
  old        \* install directory when the last update was invoked

vars == <<disk, backups, run, mode, source, order, at, pc, outcome, before, old>>

Install == <<"install", 0>>
Staging == <<"staging", 0>>
Tmp == <<".rollback-tmp", 0>>
Backup(n) == <<".update-backup", n>>
Dirs == {Install, Staging, Tmp} \cup {Backup(n) : n \in 1..MaxRuns}

Contents == 1..(MaxRuns + 1) \cup {None, Partial}
Empty == [f \in Files |-> None]

PCs == {"idle", "fetch", "backup", "move", "copy", "copying", "unlink",
        "restore", "putback", "record", "tidy"}

TypeOK ==
  /\ disk \in [Dirs -> [Files -> Contents]]
  /\ backups \subseteq 1..MaxRuns
  /\ run \in 0..MaxRuns
  /\ mode \in {"update", "rollback"}
  /\ source \in Dirs
  /\ order \in Seq(Files)
  /\ at \in 0..Len(order)
  /\ pc \in PCs
  /\ outcome \in {"none", "ok", "error", "died"}
  /\ before \in [Files -> Contents]
  /\ old \in [Files -> Contents]

Init ==
  /\ disk = [d \in Dirs |->
               IF d = Install THEN [f \in Files |-> IF f \in Original THEN 1 ELSE None]
                              ELSE Empty]
  /\ backups = {}
  /\ run = 0 /\ mode = "update" /\ source = Staging
  /\ order = <<>> /\ at = 0
  /\ pc = "idle" /\ outcome = "none"
  /\ before = disk[Install] /\ old = disk[Install]

-----------------------------------------------------------------------------
(* The plan's backup_dir.                                                  *)
Saved == IF mode = "update" THEN Backup(run) ELSE Tmp

File == order[at]

MayFail == mode \in Faulty

Rename(from, to, f) ==
  disk' = [disk EXCEPT ![from][f] = None, ![to][f] = disk[from][f]]

Finish(result) == pc' = "idle" /\ outcome' = result

(* Directory trees are removed, but for the files that are locked, whose   *)
(* errors every caller ignores, or to which a removal did not come because *)
(* the process died.                                                       *)
RemoveDirs(dirs, locked) ==
  /\ \A e \in locked : disk[e[1]][e[2]] # None
  /\ disk' = [d \in Dirs |-> [f \in Files |->
                IF d \in dirs /\ <<d, f>> \notin locked THEN None ELSE disk[d][f]]]
  /\ backups' = {n \in backups :
                   Backup(n) \in dirs => \E f \in Files : <<Backup(n), f>> \in locked}

Locked(part, dirs) == IF part \in Faulty THEN SUBSET (dirs \X Files) ELSE {{}}

Latest == CHOOSE n \in backups : \A m \in backups : m <= n

-----------------------------------------------------------------------------
(* perform_update starts: cleanup_old_files removes all backup             *)
(* directories, the latest one too, before anything else is known.         *)
BeginUpdate ==
  /\ pc = "idle" /\ run < MaxRuns
  /\ run' = run + 1
  /\ mode' = "update" /\ source' = Staging
  /\ LET stale == {Backup(n) : n \in backups} IN
       \E locked \in Locked("cleanup", stale) : RemoveDirs(stale, locked)
  /\ pc' = "fetch"
  /\ old' = disk[Install]
  /\ UNCHANGED <<order, at, outcome, before>>

(* Already up to date, no network, a bad signature, checksum or manifest.  *)
RefuseRelease ==
  /\ pc = "fetch"
  /\ Finish("error")
  /\ UNCHANGED <<disk, backups, run, mode, source, order, at, before, old>>

(* The plan for the files of a release, with a new backup directory.       *)
PlanUpdate(release) ==
  /\ pc = "fetch"
  /\ disk' = [disk EXCEPT ![Staging] = [f \in Files |->
                IF f \in Range(release) THEN run + 1 ELSE None]]
  /\ order' = release
  /\ pc' = IF release = <<>> THEN "record" ELSE "backup"
  /\ at' = IF release = <<>> THEN 0 ELSE 1
  /\ backups' = backups \cup {run}
  /\ before' = disk[Install]
  /\ UNCHANGED <<run, mode, source, outcome, old>>

(* perform_rollback: the files of the latest backup directory, in the      *)
(* order in which the directory lists them.                                *)
BeginRollback ==
  /\ pc = "idle" /\ run < MaxRuns
  /\ run' = run + 1
  /\ mode' = "rollback"
  /\ LET files == IF backups = {} THEN {}
                  ELSE {f \in Files : disk[Backup(Latest)][f] # None}
     IN  IF files = {}
           THEN Finish("error") /\ UNCHANGED <<source, order, at>>
           ELSE /\ source' = Backup(Latest)
                /\ order' \in SetToSeqs(files)
                /\ at' = 1 /\ pc' = "backup"
                /\ UNCHANGED outcome
  /\ UNCHANGED <<disk, backups, before, old>>

-----------------------------------------------------------------------------
(* Mutant of Proceed: the loop stops one file early.                       *)
ProceedShort ==
  IF at + 1 < Len(order)
    THEN at' = at + 1 /\ pc' = "backup"
    ELSE UNCHANGED at /\ pc' = IF mode = "update" THEN "record" ELSE "tidy"

(* apply_update's loop: replace_file on each file of the plan in turn.     *)
Proceed ==
  IF at < Len(order)
    THEN at' = at + 1 /\ pc' = "backup"
    ELSE UNCHANGED at /\ pc' = IF mode = "update" THEN "record" ELSE "tidy"

(* Mutant of GiveUp: one restored too few.                                 *)
GiveUpShort == at' = at - 2 /\ pc' = "restore"

(* The error of one file: those before it are restored, last one first.    *)
GiveUp == at' = at - 1 /\ pc' = "restore"

MoveOldAside ==
  /\ pc = "backup"
  /\ \/ /\ disk[Install][File] # None
        /\ Rename(Install, Saved, File)
        /\ pc' = "move" /\ UNCHANGED at
     \/ /\ disk[Install][File] = None
        /\ pc' = "move" /\ UNCHANGED <<disk, at>>
     \/ /\ disk[Install][File] # None /\ MayFail
        /\ GiveUp /\ UNCHANGED disk
  /\ UNCHANGED <<backups, run, mode, source, order, outcome, before, old>>

(* The staging directory of an update may be on another device.            *)
MoveNewIn ==
  /\ pc = "move"
  /\ \/ /\ disk[source][File] # None
        /\ Rename(source, Install, File)
        /\ Proceed
     \/ /\ disk[source][File] = None \/ mode = "update" \/ MayFail
        /\ pc' = "copy" /\ UNCHANGED <<disk, at>>
  /\ UNCHANGED <<backups, run, mode, source, order, outcome, before, old>>

BeginCopy ==
  /\ pc = "copy"
  /\ \/ /\ disk[source][File] # None
        /\ disk' = [disk EXCEPT ![Install][File] = Partial]
        /\ pc' = "copying" /\ UNCHANGED at
     \/ /\ disk[source][File] = None \/ MayFail
        /\ GiveUp /\ UNCHANGED disk
  /\ UNCHANGED <<backups, run, mode, source, order, outcome, before, old>>

EndCopy ==
  /\ pc = "copying"
  /\ \/ /\ disk' = [disk EXCEPT ![Install][File] = disk[source][File]]
        /\ pc' = "unlink" /\ UNCHANGED at
     \/ MayFail /\ GiveUp /\ UNCHANGED disk
  /\ UNCHANGED <<backups, run, mode, source, order, outcome, before, old>>

RemoveSource ==
  /\ pc = "unlink"
  /\ \/ disk' = [disk EXCEPT ![source][File] = None] /\ Proceed
     \/ MayFail /\ GiveUp /\ UNCHANGED disk
  /\ UNCHANGED <<backups, run, mode, source, order, outcome, before, old>>

(* restore_file, on a file that was applied.  One without a backup stays   *)
(* as it is; an error is logged and the next file is tried.                *)
RestoreRemove ==
  /\ pc = "restore" /\ at > 0
  /\ IF disk[Saved][File] = None
       THEN at' = at - 1 /\ UNCHANGED <<disk, pc>>
       ELSE /\ \/ disk' = [disk EXCEPT ![Install][File] = None]
               \/ MayFail /\ UNCHANGED disk
            /\ pc' = "putback" /\ UNCHANGED at
  /\ UNCHANGED <<backups, run, mode, source, order, outcome, before, old>>

RestoreMove ==
  /\ pc = "putback"
  /\ \/ Rename(Saved, Install, File)
     \/ MayFail /\ UNCHANGED disk
  /\ at' = at - 1 /\ pc' = "restore"
  /\ UNCHANGED <<backups, run, mode, source, order, outcome, before, old>>

(* Mutant of EndRestore: the backup directory is removed, being restored.  *)
EndRestoreCleans ==
  /\ pc = "restore" /\ at = 0
  /\ Finish("error")
  /\ backups' = backups \ {run}
  /\ UNCHANGED <<disk, run, mode, source, order, at, before, old>>

EndRestore ==
  /\ pc = "restore" /\ at = 0
  /\ Finish("error")
  /\ UNCHANGED <<disk, backups, run, mode, source, order, at, before, old>>

-----------------------------------------------------------------------------
(* write_update_record: an error there is the update's, too.               *)
WriteRecord ==
  /\ pc = "record"
  /\ Finish("ok") \/ (MayFail /\ Finish("error"))
  /\ UNCHANGED <<disk, backups, run, mode, source, order, at, before, old>>

(* A rollback that succeeded removes .rollback-tmp and the backup used.    *)
Tidy ==
  /\ pc = "tidy"
  /\ \E locked \in Locked("rollback", {Tmp, source}) : RemoveDirs({Tmp, source}, locked)
  /\ Finish("ok")
  /\ UNCHANGED <<run, mode, source, order, at, before, old>>

(* The process is killed, or the machine stops.                            *)
Die ==
  /\ pc # "idle"
  /\ Finish("died")
  /\ UNCHANGED <<disk, backups, run, mode, source, order, at, before, old>>

Done == pc = "idle" /\ run = MaxRuns /\ UNCHANGED vars

Next ==
  \/ BeginUpdate \/ RefuseRelease \/ BeginRollback
  \/ \E release \in Releases : PlanUpdate(release)
  \/ MoveOldAside \/ MoveNewIn \/ BeginCopy \/ EndCopy \/ RemoveSource
  \/ RestoreRemove \/ RestoreMove \/ EndRestore
  \/ WriteRecord \/ Tidy \/ Die \/ Done

Spec == Init /\ [][Next]_vars

-----------------------------------------------------------------------------
(* However an update or the rollback after it fails or dies, and whichever *)
(* file it was at: a file of the version installed when the update began   *)
(* is in place, or is where perform_rollback looks for it.                 *)
Recoverable ==
  \A f \in Files : old[f] # None /\ disk[Install][f] # old[f] =>
    backups # {} /\ disk[Backup(Latest)][f] = old[f]

(* "Roll back to the previous version using the latest backup": a rollback *)
(* that reports success has put back every file of the version that the    *)
(* last update replaced, after whatever failed and died before it.  (As    *)
(* long as what is removed as a whole is removed as a whole, and no        *)
(* operation of a rollback fails: the faults "cleanup" and "rollback" are  *)
(* where it goes wrong.)                                                   *)
RollbackRestores ==
  pc = "idle" /\ mode = "rollback" /\ outcome = "ok" =>
    \A f \in Files : before[f] # None => disk[Install][f] = before[f]

(* An update that reports success has installed every file of the release  *)
(* and touched no other, whatever earlier runs left behind.                *)
UpdateInstallsAll ==
  pc = "idle" /\ mode = "update" /\ outcome = "ok" =>
    \A f \in Files : disk[Install][f] =
      IF f \in Range(order) THEN run + 1 ELSE before[f]

(* apply_update: "On any failure, automatically rolls back".               *)
FailureRollsBack ==
  mode = "update" /\ pc = "restore" /\ at = 0 => disk[Install] = before
=============================================================================
