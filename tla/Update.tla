------------------------------- MODULE Update -------------------------------
(***************************************************************************)
(* The updater as a whole: Release, which fetches, verifies and extracts,  *)
(* is what happens in Apply's state "fetch", and hands its list of files   *)
(* to the plan.  The commands are those of updater/src/main.rs; check and  *)
(* version leave nothing behind.                                           *)
(***************************************************************************)
EXTENDS Apply, Release

(* A zip lists the program's files, manifests, and entries that are no     *)
(* files.                                                                  *)
EntryTypes ==
  [name : Files \cup {Manifest, Directory, Nameless}, claimed : Nat, size : Nat]

ASSUME UpdateAssumption ==
  /\ {Manifest, Directory, Nameless} \cap Files = {}
  /\ \A z \in Zips : z.entries \in Seq(EntryTypes)

uvars == <<vars, rvars>>

(* What the command check answers; it leaves nothing behind.               *)
Check(list, current, pre) == CheckForUpdate(list, current, pre).found

UpdateInit == Init /\ ReleaseInit

(* The command update, with or without --allow-unsigned.                   *)
StartUpdate ==
  /\ BeginUpdate
  /\ stage' = "lookup" /\ unsigned' \in BOOLEAN
  /\ UNCHANGED <<urls, zip, entry, staged, total, extracted>>

(* No release, no network, no zip, a check or a file operation that fails: *)
(* the temporary directory goes, and so does what was fetched.             *)
Abandon == RefuseRelease /\ Clear

(* Mutant of Plan: the manifest is installed with the files.               *)
PlanAll == stage = "plan" /\ PlanUpdate(extracted) /\ Clear

Plan == stage = "plan" /\ PlanUpdate(InstallFiles) /\ Clear

(* The command rollback.                                                   *)
StartRollback == BeginRollback /\ UNCHANGED rvars

Kill == Die /\ Clear

Fetch == ReleaseNext /\ UNCHANGED vars

ReplaceFiles ==
  \/ MoveOldAside \/ MoveNewIn \/ BeginCopy \/ EndCopy \/ RemoveSource
  \/ RestoreRemove \/ RestoreMove \/ EndRestore \/ WriteRecord \/ Tidy

UpdateNext ==
  \/ StartUpdate \/ Fetch \/ Abandon \/ Plan
  \/ StartRollback
  \/ ReplaceFiles /\ UNCHANGED rvars
  \/ Kill
  \/ Done /\ UNCHANGED rvars

UpdateSpec == UpdateInit /\ [][UpdateNext]_uvars

-----------------------------------------------------------------------------
(* Both components are well typed, and something is being fetched exactly  *)
(* while an update has not made its plan.                                  *)
UpdateTypeOK ==
  /\ TypeOK
  /\ ReleaseTypeOK
  /\ pc = "fetch" <=> stage # "none"

(* "In production this MUST be false; otherwise an attacker who can        *)
(* replace the release zip can ship arbitrary code": whatever the server   *)
(* hands out, and whenever it changes its mind, no plan is made for a zip  *)
(* that the publisher did not sign, unless --allow-unsigned was given and  *)
(* there was nothing to verify it with; nor for one that does not match    *)
(* the checksum offered with it, or its own manifest.                      *)
PlansOnlyVerified ==
  [][pc = "fetch" /\ backups' # backups =>
       /\ zip \in Signed \/ (unsigned /\ ~(HasKey /\ "sig" \in urls))
       /\ "sum" \in urls => zip \in Published
       /\ Manifest \in DOMAIN staged => zip.readable /\ zip.wrong \cap DOMAIN staged = {}]_uvars

(* Zip bombs: whatever sizes the entries claim, the staging directory      *)
(* never holds more than a file over the limits, and what is installed is  *)
(* within them.                                                            *)
StagedWithinLimits ==
  LET bytes == SumFunction(staged) IN
  /\ bytes <= Total + PerFile + 1
  /\ stage = "plan" => bytes <= Total /\ \A f \in DOMAIN staged : staged[f] <= PerFile

(* Whatever the server lists while an update looks for its release: the    *)
(* addon, the command check and the update look at the same one, and there *)
(* is one way only in which they differ.  check and update find exactly    *)
(* what the addon announces and that has its zip.  They fail exactly when  *)
(* the addon fails, on a tag that is no version, or when it announces a    *)
(* release that lacks its zip, at which it does not look: an update that   *)
(* is announced and cannot be installed.  --force finds whatever update    *)
(* finds.                                                                  *)
ChecksAgree ==
  stage = "lookup" =>
    \A list \in Listings, current \in Versions :
      LET addon == AddonCheck(list, current)
          check == Check(list, current, FALSE)
          complete == \A r \in LatestStable(list) : "zip" \in r.assets
      IN  /\ check = "info" <=> addon.available /\ complete
          /\ check = "error" <=> addon.error \/ (addon.available /\ ~complete)
          /\ check = "info" =>
               ForcedLookup(list, FALSE) = CheckForUpdate(list, current, FALSE)

(* The updater installs releases as Apply describes them: however a        *)
(* download is built and however it fails, what reaches the installation   *)
(* is one of the lists of files that a zip may install.                    *)
InstallsReleases == Spec
=============================================================================
