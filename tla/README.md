# TLA+ models and proofs of the fingerprint library

The library is a Node.js addon written in Rust (`sdk/`), a 32-bit helper
process that hosts the SecuGen driver on Windows (`bridge/`, with the wire
format in `protocol/`), and a command line self-updater (`updater/`). This
directory models the parts whose correctness depends on the order of events:
threads that share one scanner, two processes that share two pipes, a sequence of
vendor calls each of which may fail, and file operations that may fail or be
cut short. TLC checks the models on small instances. TLAPS proves, for every value
of the constants, every safety property that a passing run checks: of the addon's
scanner slot and the atomic service it offers, of the two ends of the bridge, of the
Neurotec backend's database, of the biometric commands and of the devices they run
on, of what an update looks up, verifies and extracts, and of what it does to the
installation. Liveness is model-checked only.

Paths of source files are relative to the repository's root.

## 1. Inventory

| Component | State | Operations | Interacts with |
|---|---|---|---|
| Scanner session, `sdk/src/lib.rs`, `sdk/src/vendors/mod.rs` | `SCANNER`: one mutex, one slot | `init_scanner`, `capture_fingerprint`, `enroll_user`, `verify_user`, `identify_user`, `disconnect_scanner`, `get_scanner_status` | JavaScript promises above; tokio's async workers and blocking pool; one scanner object below |
| SecuGen scanner, `sdk/src/vendors/secugen/mod.rs` | `backend`: a mutex and an optional backend | `init`, four operations, `get_quality`, `disconnect`, `Drop` | owns a bridge host (Windows) or a native backend |
| Bridge host, `.../secugen/bridge.rs` | child process, buffered reader of its stdout | `spawn`, `send`, `shutdown`, `Drop` | two pipes to the bridge process |
| Bridge process, `bridge/src/main.rs` | `state`: library, handle, sizes | the loop of `main`, seven handlers | stdin and stdout; vendor library |
| Native backend, `.../secugen/native.rs`, `library_path.rs` | loaded library, handle, `closed` | `init`, five operations, `shutdown`, `cleanup`, `Drop` | vendor library, in process |
| Updater on disk, `updater/src/apply.rs`, `updater/src/lib.rs` | install directory, staging directory, `.update-backup-<secs>`, `.rollback-tmp` | `perform_update`, `perform_rollback`, `cleanup_old_files` | file system; runs of itself |
| Release lookup and verification, `updater/src/github.rs`, `assets.rs`, `version.rs` | none that outlives a run | fetch, download, signature, checksum, extraction, manifest | GitHub; hands a staging directory to the updater |
| Neurotec backend, `sdk/src/vendors/neurotec/mod.rs` | library; a session and a database of ten users that are global to the process | as SecuGen | vendor library |
| WBF backend, `sdk/src/vendors/wbf/mod.rs` | session handle | as SecuGen; capture blocks | Windows Biometric Framework |
| Choice of a vendor, `sdk/src/vendors/mod.rs` | none | `get_scanner` | makes one of the scanner objects above |
| Updater command line, update check, `updater/src/main.rs`, `sdk/src/update_check.rs` | none | `check`, `update`, `rollback`, `version`; `checkForUpdate` | GitHub; the updater |
| Others | none | vendor template, foreign function declarations, signing tools, JavaScript loader | |

What is hard in this code:

- **Threads.** All exported functions but the status run on threads of the
  blocking pool and meet at one mutex. `init_scanner` looks at the slot, opens the
  device *without* the mutex, and looks again. A vendor library may panic while
  the mutex is held. The status call blocks an async worker on the same mutex.
- **Processes.** Host and bridge exchange one line for one line, without
  identifiers and without timeouts; either may die at any moment, and a line may
  exceed the limit that both sides impose.
- **Shared vendor state.** The Neurotec library has one session and one database
  for the whole process, whichever scanner object uses it, and it captures only by
  enrolling.
- **Partial failure.** A biometric operation is a series of vendor calls with
  buffers that must be wiped on every way out; opening a device is another, each of
  whose failures must give back what the calls before it took, to a library that
  must still be mapped. An update is a series of renames with a rollback that may
  itself fail, in a process that may be killed.
- **A server that changes.** Zip, signature, checksum and the release they belong to
  are fetched one after the other, and a zip may claim any sizes and names.

What makes each component correct:

- session: calls are atomic, an installed scanner is never overwritten, every
  scanner object is owned once and closed once, no operation runs on a closed
  scanner, every promise settles;
- bridge: every line has its reply, in order; a session exists exactly between a
  successful init and a disconnect; the host never takes one command's reply for
  another's, opens the device once, never hangs, and leaves no process behind;
- handlers: the best sample and the best match are the ones reported, and
  biometric buffers are wiped;
- devices: no call to a library that is unmapped or on a handle given back, nothing
  left open by an init that failed, one WBF session per scanner;
- release pipeline: what is installed passed every check that could be made of it,
  extraction stays within its limits, addon and updater see the same release and
  differ only in what they say of one without its zip;
- Neurotec: captures leave the enrolled fingers and nothing of their own, and a
  finger is compared with that of the template's user;
- updater: the previous version can be recovered from any failure or death, a
  rollback that reports success is whole, and an update that reports success is
  exactly the release.

## 2. Modules

| Module | What it is |
|---|---|
| `ScannerService` | what the addon promises, as one atomic service |
| `Session` (`MCSession`) | the slot, the mutex, the threads and the scanner objects |
| `SessionProofs` | theorems about `Session` |
| `Bridge` | the bridge process, with its pipes; no specification of its own |
| `BridgeClient` | `Bridge` and a client that pipelines arbitrary lines |
| `BridgeIpc` | `Bridge` and the host's end of it |
| `BridgeProofs` | lemmas about the pipes and the types of `Bridge`, for the two modules below |
| `BridgeClientProofs`, `BridgeIpcProofs` | theorems about `BridgeClient` and `BridgeIpc` |
| `Handlers` | one biometric command, vendor call by vendor call |
| `Device` | `Handlers` and the life of the SecuGen device around it: library, handle, session |
| `Wbf` | a scanner of the Windows Biometric Framework |
| `Vendors` | `get_scanner`: a `Device` or a `Wbf` scanner, by name and platform |
| `VendorsProofs` | theorems about `Vendors`, and so about `Handlers`, `Device` and `Wbf` |
| `Neurotec` | the Neurotec backend, its library's session and database |
| `NeurotecProofs` | theorems about `Neurotec` |
| `Release` | lookup, download, verification and extraction of a release |
| `Apply` (`MCApply`) | the updater's work on disk |
| `Update` (`MCUpdate`) | the whole updater: `Release` as what happens before `Apply`'s plan |
| `ApplyProofs`, `UpdateProofs` | theorems about `Apply` and `Update` |

`PROJECT.json` maps every definition to the lines it stands for.

### Session

One caller is one JavaScript promise at a time. `pc[c]` is where its call is:
`queued` (the future is not polled yet), `spawned` (its closure waits for a
thread of the blocking pool), the steps of the closure, `joining` (the closure is
done and the future waits to be polled again). `WorkerFree` and `ThreadFree`
count who occupies the two pools: a status call occupies an async worker while
it waits for the mutex, and a closure occupies a blocking thread until it
returns. The mutex is one variable, `lock`, the caller that holds it *across a
vendor call*. A critical section without such a call is one action, guarded by
`LockFree`; this is what the code does between two calls that another thread
can observe. Recovery from poisoning is the absence of any difference: a panic
(`panicked` answers) releases the lock and the next holder goes on.

`dev[s]` is the life of a scanner object and of the backend it owns: `new`,
`opening` (process spawned or handle created), `ready`, `dead` (the action
`Die`, at any time) and `free`. `mine[c]` is the object that the frame of call `c`
owns: the local `scanner` of `init_scanner`, or what `guard.take()` moved out of
the slot. `DropMine` is Rust's drop of it. The four operations of the scanner are
one action pair, `UseLock` and `UseFinish`, because they take the same way
through `with_scanner`; what they do inside is `Handlers` and `BridgeIpc`.

`ScannerService` is the specification a JavaScript program would like to see:
`connected`, the pending calls and their answers, each call taking effect at one
instant. `Session` implements it under the mapping `Service`: a scanner counts as
connected until the disconnect that took it has closed it, because until then
the mutex is held and nobody can tell. `ServesAtomically` is the safety part of this
(`Service!Atomic`), `ImplementsService` all of it.

### Bridge, BridgeClient, BridgeIpc

A line is a record of its number and the kind of text it is; texts that `main`
treats alike are one kind. `bulk` is an identify command over `MAX_IPC_LINE`,
which `read_ipc_line` refuses. Replies carry the number of the line they answer.
The program does not send it: no action reads it and properties do. `held`
counts the device handles the process has open, which `handle_init` may
increase more than once and also when it fails late. `Vanish` is the end of the
process, when the operating system takes back its handles and its ends of the
pipes, but what it wrote can still be read.

`BridgeIpc` adds the host: `Ask`, `WriteCommand`, `FinishWrite` (a line too
long for the pipe), `ReadReply` (one bounded `read_line`, whose text is accepted
if it is a reply of the type the command expects), `ReadEmpty` (end of file),
`Kill` (`shutdown`'s kill, or `Drop`'s), and `HostExits` (the Node.js process ends
without any `Drop`). With `OversizeReplies` a reply may exceed the host's limit and
arrives as a head and a tail.

### Handlers, Device, Wbf, Vendors

`Handlers` is one command from its first vendor call to its reply, for both backends
(`backend`). Every vendor call may fail. A buffer is only whether
it still holds biometric data: `held` are the live ones, `residue` those freed
without being wiped. The long that the library returns as a quality goes through
`AsU8`, which is the cast's truncation. Of the sizes that the device reports, `sane`
are those with which the backend goes on. `native.rs` refuses the operation for all that
are not positive (`RefuseSize`); the bridge converts them to `usize` and allocates, and
dies (`Panic`, which ends its process) of a negative one, but goes on with zero and with
a width and a height that are both negative.

`Device` puts the device's life around it. `next` is the vendor call that the code
makes next, from `load` over the five calls of init to `close`, `terminate` and the
`drop` of the backend, or an end. `InitFails` is the difference between the two
hosts: the in-process backend gives back exactly what the calls before it took, call
by call (`UndoOpen`, `UndoCreate`, `Unload`), the bridge leaves it to the end of its
process (`ProcessEnds`). The library search
is `FindLibrary`, an order of precedence that ends in the bare file name; with that
name the native loader's `dlopen` may still succeed, the bridge's cannot
(`LoadBridge`).

`Wbf` is the enumeration of units (with the array that the service allocates for
it), the four session strategies, capture, enroll and disconnect. `Vendors` has the
caller's vendor name and the platform choose which of them runs; the others stay
where they started (a Neurotec scanner is a module of its own), so that one specification holds all and its states are the sum
of theirs and not the product.

### Neurotec

`users` is the library's file, a sequence because the code addresses entries by
index; it survives the process. A template is the id of an entry. An operation
runs under the slot's mutex, so that one `pc` suffices, but an init does not:
`Initialise` may happen at any step of an operation, and `opened` counts the
scanners that are past it and not in the slot. `Install` and `DiscardRival` are
`init_scanner`'s second look at the slot (`InitInstall` and `InitDiscard` of
`Session`); the drop of a rival ends the session for everybody. Failures that the
code ignores are modelled by what they leave behind: an id that cannot be read is
zero (`IdRead`), a handle that is refused is skipped, a count or a removal that
fails removes nothing.

### Apply

Directories are functions from names to the number of the release a file
belongs to. `run` counts invocations: run *n* installs release *n + 1* and makes
backup directory *n*, whose order is that of the timestamps in their names. One
action is one file operation of `replace_file`, `restore_file`,
`cleanup_old_files` or `perform_rollback`; `Faulty` says in which part of the program
operations may fail, and `Die` ends the process between any two. In the middle of
a copy the target is `Partial`. `remove_dir_all` is one operation: that it stops half
way, because a file is locked or because the process dies in the middle of it, is the
fault `"cleanup"` (of `cleanup_old_files`) or `"rollback"` (at the end of
`perform_rollback`), and is a step only of runs that name it. Everything before the plan (lookup, download,
verification) is the choice between `RefuseRelease` and `PlanUpdate`.

### Release, Update

`Release` is that choice in detail. `stage` is where `perform_update` is; an error
has no action, because whatever fails leads to `Abandon`, which removes the temporary
directory and all that `Release` knows. A listing is what the server answers to the
lookup: releases with a version or a tag that is none, prereleases, and the assets
they have; `CheckForUpdate`, `ForcedLookup` and the addon's `AddonCheck` are functions
of it. A zip is a sequence of entries with the size each claims and the size it has,
and what its manifest says (`readable`, and the files whose hash it has wrong).
`Published` and `Signed` are the zips that the checksum and the signature which the
server hands out at that moment are about: that `verify_signature` accepts no others
is the cryptography's promise, not a result. `staged` is the staging directory,
`extracted` the list that `extract_zip` returns, and `CopyEntry` writes at most one
byte over the limit, as `Read::take` does. `Without`, which drops the manifest from that
list, is a recursive function and not an operator of the community modules, so that it
can be reasoned about.

`Update` composes the two. `Release` runs exactly while `Apply` is in `fetch`; its
stage `plan` hands `InstallFiles` to `PlanUpdate`. The property `InstallsReleases` is
`Apply`'s own specification: the pipeline refines it.

## 3. Runs

| Run | Question | Bounds and why they suffice |
|---|---|---|
| `session_safety` | Mutual exclusion, ownership, no use after disconnect, no overwriting; is every step one of the atomic service, or invisible? | three callers: a winner, a loser and one that uses or disconnects meanwhile; two calls each, so that each can follow an init by another operation; three objects, because an object in the slot and one in each frame are never more at once (a fourth adds no state; 1.5 million states, about 80 s) |
| `session_service` | Does it implement the atomic service, and does every promise settle? | three concurrent calls; one async worker and two blocking threads, so that both pools run out |
| `session_vendor` | *violated:* is the vendor library entered by one thread at a time? | two callers |
| `bridge_client` | Replies in order, sessions, end of input | four pipelined lines of all ten kinds: init, failed or repeated init, disconnect and an operation fit in any order |
| `bridge_ipc` | Request and reply stay matched; one handle; no hang; device released | five commands per process, any number of processes; both sides die anywhere |
| `bridge_oversize` | *violated:* the same when a reply exceeds the limit | the same |
| `handlers` | Which scanner a name gives; from search to last close: best sample, best match, wiping on success; no call without library, handle or device; nothing left open; one WBF session | all commands on both backends; up to three samples and three templates, qualities around the threshold and beyond a byte, scores with ties and zero, sane and negative sizes; five names on two platforms; three places for the library; every call may fail (10088 states) |
| `neurotec` | Do captures leave the enrolled fingers, and is a finger compared with the right one? | two users, room for three entries and four ids, so that the file fills up while ids are free and ids are reused; two inits past the library's; failures and restarts anywhere |
| `neurotec_temp` | *violated:* does a capture remove its temporary user? | the same, and the process does not end |
| `apply_faults` | The whole updater: is only verified code installed, within the limits? Where do addon and updater differ on what there is? Is the old version recoverable, a rollback whole, an update exact? Does the pipeline refine `Apply`? | three invocations (update, update or rollback, rollback), three files of which one is new, releases of any of them in any order; ten zips (sound, altered, unreadable or incomplete manifest, too large, lying about a size, many small lies, a nameless entry, a directory), six listings, with and without `--allow-unsigned`; update's operations fail and the process dies between any two file operations (1.6 million states, about 100 s) |
| `apply_auto_rollback` | *violated:* does a failed update roll back? | one invocation |
| `apply_retry` | *violated:* is a rollback whole after one that failed? | three invocations |

All passing runs check deadlock. Each specification has a step for a
legitimate end (`AllAnswered`, `Done`, `Idle`); everything else that stops is an error.
The property `ImplementsService` includes the fairness of the abstract service.

Each property was also checked against a mutated program: operators whose
comment begins with "Mutant of" replace the definition they are named after, and
TLC then reports the property violated. `PROJECT.json` lists which mutation
breaks which property.

**Fairness.** `Session!FairSpec`: threads are scheduled and vendor calls return,
one weak fairness condition for the steps of each caller. Nothing is assumed of
the order in which the mutex serves its waiters; three callers of one call each
cannot starve one another for ever, and calls that repeat without end are not
claimed to be served fairly. `BridgeClient!Spec`: handlers return and the client
closes its end at last. `BridgeIpc!FairSpec`: both processes are scheduled and
vendor calls return, which is what the absence of timeouts in the code relies on.

**What the violated runs show.**

1. `session_vendor`: `native.rs:64-66` justifies sharing vendor library code
   among threads by a mutex, but devices are opened outside of it.
2. `bridge_oversize`: the host goes on with a stream that it cannot resynchronise
   (`bridge.rs:233`), while the bridge ends in the same case. An enroll's reply is
   then accepted for the next enroll.
3. `apply_auto_rollback`: the file at which an update fails is not restored
   (`apply.rs:59`); `apply.rs:54` says that an update rolls back on any failure. Its
   old version is in the backup directory, so that an explicit rollback recovers it.
4. `apply_retry`: a rollback that fails loses files from the only backup
   (`apply.rs:134`), and the next one reports success for what is left.
   With `Faulty = {"cleanup"}` in `MCApplyRetry.cfg` the same property fails for another
   cause. Errors of `remove_dir_all` are ignored (`apply.rs:177`), and what a removal that
   stopped half way has left, because a file in the backup is that of a loaded library or
   because the process died, passes for a backup: an update dies, the next one cleans up
   in part and finds nothing new, and a rollback reports success without one of the
   program's files.
5. `neurotec_temp`: `capture` returns early when the image cannot be read
   (`sdk/src/vendors/neurotec/mod.rs:383` and `:403`), before the removal that line 414
   says keeps the ten slots free. No operation of the addon removes such an entry
   later.

More disagreements have no run of their own:

- On the bridge's early returns buffers are freed unwiped (`main.rs:247`, `:312`),
  against the README's section on biometric data; `SuccessLeavesNothing` fails without
  its condition `Answered`.
- The host turns CAPTURE_TIMEOUT and LOW_QUALITY into SDK_ERROR (`bridge.rs:258`),
  against the README's table of codes.
- A Neurotec template or entry whose id could not be read counts as zero, so that a
  template of id zero may be compared with somebody else's entry; `VerifiesOwner` fails
  without its condition `template.id # 0`.
- `apply.rs:174` says that cleanup keeps the latest backup; `cleanup_old_files` removes
  all, before the update knows whether there is a release at all. An `update` that
  finds nothing new thus makes a rollback impossible, and one that follows an update
  which failed or died removes the only copy of a file that was moved aside. As a formula
  for `MCApply`: `mode = "update" =>` for every file `f` with `before[f] # None` and
  `disk[Install][f] # before[f]`, `backups # {}` and `disk[Backup(Latest)][f] = before[f]`.
  TLC finds it violated after one death, and holding once `BeginUpdate` leaves the latest
  directory out of `stale`.
- `sdk/src/vendors/mod.rs:23` says of `auto` "try WBF first (any biometric device), fall
  back to SecuGen"; there is no fallback, neither in `get_scanner` nor in `init_scanner`.
- `find_dll_path` of the bridge ends with a bare file name for the loader's search, and
  `SgfpLib::load` adds the directory of that name, which is empty, to the search path
  and returns the error (`ffi.rs:135`): `LoadBridge` has no success for it.

And some behaviour that no document contradicts but a reader should know: the addon
announces a release that lacks its zip (`update_check.rs:63`), on which `check` and
`update` fail with MissingAsset (`github.rs:88`), and `ChecksAgree` says that this is the
only difference between them; two paths of
a zip with one base name become one file that the plan lists twice, and the second
replacement moves the new file over the backup of the old one (`apply.rs:36`); a
negative size from the device ends the bridge (`main.rs:235`), zero does not; `--pre-release` takes the
first release of the list, whatever its version, and the manifest's own `version` is
compared with nothing; a rollback leaves the files that an update added
(`updater/src/lib.rs:200`); status answers Connected for a scanner whose bridge or device
is dead (`sdk/src/lib.rs:147`); a symbol that the library lacks leaves it mapped
(`native.rs:499`, `leaked` in `Device`).

## 4. Proofs

### Session

`SessionProofs` proves, from `SessionAssumption` alone (distinct placeholders,
pools of at least one thread, any sets of callers and scanners, finite or not):

- `SessionTypes`: `Spec => []TypeOK`;
- `SessionSafety`: `Spec => [](LockDiscipline /\ SingleOwner /\ NoUseAfterDisconnect)`;
- `SessionNeverOverwrites`: `Spec => NeverOverwritten`;
- `SessionLockDiscipline`, `SessionNoUseAfterDisconnect`: two of the conjuncts alone;
- `SessionServesAtomically`: `Spec => ServesAtomically`, the refinement of
  `ScannerService` without its fairness.

The inductive invariant `IInv` is the conjunction of the type invariant and the
three safety invariants; none of the three is inductive alone. An operation is
safe on the installed scanner because disconnect needs the lock that the
operation holds (`LockDiscipline`); a loser's drop leaves the installed scanner
alone because the two have different owners (`SingleOwner`); and `SingleOwner` needs
`LockDiscipline` to know that the scanner a disconnect moved out is not the one an init
installs meanwhile. There is one lemma per conjunct (`NextLockDiscipline`,
`NextSingleOwner`, `NextNoUseAfterDisconnect`), each by cases on the actions.

The refinement goes step by step (`ServiceStep`): an action in which a call gets its
answer is that call's `Respond`, beginning a call is `Invoke`, and everything else
leaves the mapped state alone (`ServiceStutters`). It needs `CallMatches`, that where a
call is and what it does belong together, and the two facts that make the mapping of
`connected` right: a scanner that an operation runs on is the installed one
(`ConnectedInstalled`), and it stays connected whatever the others do meanwhile
(`ConnectedKept`), because a disconnect under way holds the lock until its end.

### Bridge, host and client

`BridgeProofs` has what the two specifications of the bridge share: what a line taken,
a line written and a reply do to the pipes, and types. A loaded session has a handle
(`ReadyHolds`).

`BridgeClientProofs` proves, for any number of lines and of all kinds:

- `BridgeClientTypes`: `Spec => []TypeOK`;
- `BridgeOpsNeedSession`: `Spec => []OpsNeedSession`;
- `BridgeRepliesInOrder`: `OversizeReplies = FALSE => (Spec => []RepliesInOrder)`.

The invariant relates the pipe to what was written: it holds the last lines, and the
line in its handler is the one before them (`LinesInv`). `SessionInv` says that the
bridge's `ready` is what the replies so far tell (`OpenAfter`, whose lemma `OneMore` says
what one more reply does to it), and `AnswersInv` how far the lines are answered at each
place of the loop. (With `OversizeReplies` a reply is two pieces, and order is not what
the property states of them.)

`BridgeIpcProofs` proves, for any number of commands (`MaxCommands` of at least two: an
init and a disconnect):

- `BridgeIpcTypes`, `BridgeOneHandle`, `BridgeNeverNotInitialized`: `Spec` implies
  `[]TypeOK`, `[]OneHandle` and `[]NeverNotInitialized`, whatever the size of replies;
- `BridgeInStep`, `BridgeAnswersOwnCommand`: under `OversizeReplies = FALSE`, `Spec`
  implies `[]InStep` and `AnswersOwnCommand`.

The hypothesis is needed: the run `bridge_oversize` is the counterexample without it.
The handle is opened once although the two ends may be out of step: `Order` says that
the init, the first command, is alone in the pipes and the disconnect, the last, is
behind everything else; `SessionMatches` that the bridge has its one session from the
answer of the one to that of the other. `NeverNotInitialized` is inductive with these.
In step the pipes hold at most the last command or its reply (`OneInFlight`,
`FlightIsCommand`), and nothing between two commands (`Quiet`).

### Neurotec

`NeurotecProofs` proves, from `NeurotecAssumption` (the temporary owner is not a
user's name, ids are naturals):

- `NeurotecTypes`: `Spec => []TypeOK`;
- `NeurotecSafety`: `Spec => [](EnrolledStay /\ VerifiesOwner)`, and
  `NeurotecVerifiesOwner` the second alone.

`EnrolledStay` alone is not inductive: that the entry which a capture removes is its
own needs `OperationState` (from the enroll to the removal the last entry is the
temporary one), and that an id leads to its owner's entry needs `UniqueIds`.
`VerifiesOwner` follows from the invariant without being part of it. The lemmas
`Appended` and `LastRemoved` say what the two changes do to a sequence; there is
one lemma for each action that touches file, templates or the search
(`EnrollStep`, `RemoveTempStep`, `GetIdStep`, `SearchStep`) and one for the others.

### Handlers, Device, Wbf

`VendorsProofs` proves of `VendorsSpec`, from the assumptions on the constants (argument
ranges, qualities and scores that are naturals), one theorem for each invariant of the
run `handlers`: `VendorsEnrollKeepsBest`,
`VendorsIdentifyNamesBest`, `VendorsSuccessLeavesNothing`, `VendorsCallsOnLiveHandle`,
`VendorsNothingLeftOpen`, `VendorsWbfSessionOwned`, `VendorsTypes`. Sample counts,
galleries, thresholds and places of the library are arbitrary.

The invariant has three parts. `HInv` is about a command: how
far it is, that `best` and `bestValue` are the first maximum of what was compared so
far (which is everything but the image being made into a template), and which buffers
are live at each step. `DInv` says that `next` decides what the device holds, and
`WInv` the same of `at` for the WBF session; the undoing of an init that fails is part
of it, call by call (`UndoStep`). `Command` steps keep `DInv` because no
step of a command changes its backend (`BackendStays`). The type invariant takes one
conjunct more, that a WBF scanner counts down what it began with (`TodoInv`), and
`VendorsOfPlatforms`, which scanners `get_scanner` makes where.

### Update

`ApplyProofs` proves, for any finite set of files, any releases and any number of
invocations:

- `ApplyTypes`: `Spec => []TypeOK`;
- `ApplyRecoverable`: `Conditions /\ Spec => []Recoverable`;
- `ApplyRollbackRestores`: `Conditions /\ Spec => []RollbackRestores`;
- `ApplyInstallsAll`: `Conditions /\ Spec => []UpdateInstallsAll`.

`Conditions` are two, and both are needed. Only the update's own file operations fail,
not the removal of whole trees nor a rollback (with `"cleanup"`, what is left of an old
backup is taken for the latest; with `"rollback"`, see the run `apply_retry`). And no
release lists a file twice (else the second replacement overwrites the backup). The
process may die between any two file operations; a death within the removal of a tree is
one of the faults excluded.

The invariant `AInv` says that there is at most one backup directory (`OneBackup`),
that it holds nothing but old versions (`KeepsOld`), and that a file is in place or
there (`Safe`). To keep `Safe` when a file is replaced, `Updating` says that files
the update has not come to are untouched and that the one in work is in the backup;
`Distinct` is what makes the first of these last. `RollingBack` says that a rollback
moves back exactly the files still in the backup, so that what `Tidy` removes is empty.
There is one lemma per action, on top of `Renamed`, `Written` and `Removed`, which say
what a file operation does to the directories. The two other theorems add little:
that the version a plan replaces is the one its update found, as long as there is a
backup (`BackupOfBefore`), and what of the release has been installed and what still
waits in the staging directory (`Installing`).

`UpdateProofs` proves of `UpdateSpec`, from the assumptions on the constants (entries
of zips have names and sizes, the special names are no files, the assets of a release are
of three kinds):

- `UpdateTypes`: `[]UpdateTypeOK`. The pipeline runs while an update has no plan
  (`PInv`), and never beyond the entries of the zip (`EInv`).
- `UpdatePlansOnlyVerified`: `PlansOnlyVerified`. The invariant `VInv` says at each stage
  which checks of the downloaded zip lie behind, and nothing is downloaded after its check.
- `UpdateChecksAgree`: `[]ChecksAgree`, for all listings: what the updater finds is what
  the addon announces and that has its zip, and it fails exactly on a tag that is no
  version and on an announced release without its zip. `OneStable`: there is at most one
  latest release.
- `UpdateStagedWithinLimits`: `[]StagedWithinLimits`, for any limits, zips and claims. The
  sum of the staged sizes is at most `total`, or exceeds it by the file just copied
  (`Limited`); a name that is written twice counts twice in `total`, never too little
  (`SumWritten`).
- `UpdateInstallsReleases`: `AnyRelease /\ ZipsListOnce /\ UpdateSpec => InstallsReleases`,
  the refinement of `Apply`; and `UpdateRecoverable`: with `Faulty \subseteq {"update"}`
  besides, `[](Recoverable /\ RollbackRestores /\ UpdateInstallsAll)` of the whole updater,
  whatever the server sends.

`AnyRelease` says that `Apply` knows all lists of files without repetition, as in the run;
`ZipsListOnce`, that no zip lists a name twice, is the condition that `Apply` needs (above)
traced back to its source: extraction then lists nothing twice (`KeepOnce`), and dropping
the manifest keeps that (`WithoutIsPart`, `InstallOnce`).

Two recursive definitions are behind these: the function in `Without` and the sum of the
community modules. The induction theorems of the library are out of reach, as they take
an operator; `UpTo` and `Subsets` are inductions on a *set* instead, which the least
element of a set of naturals gives (`Least`). `KeptExists` and `SumExists` build
the function that a recursive definition chooses, so that its equation may be used.

### Only model-checked

Liveness (`CallsReturn`, `SendReturns`, `DeviceReleased`, `EofEndsBridge`) and the fairness
in the refinement `ImplementsService` are checked by TLC only, as liveness and ENABLED are
out of the prover's reach, and so is the absence of deadlock. The violated properties
are counterexamples, not theorems. Every other property of a run is a theorem, under the
hypotheses named above.

## 5. Not modelled

- Contents of images, templates and JSON, except for what the properties tell
  apart (kinds of lines, qualities, scores, whether a buffer was wiped); the numbers of
  the error codes.
- The vendor libraries themselves: each call has every outcome its signature allows;
  the foreign function declarations and wrappers are those outcomes.
- The cryptography and HTTP: a signature or checksum is right or not, a request is
  answered or not.
- Which directories libraries and executables are searched in (no property depends on
  the order of precedence in `FindLibrary`), parsing of arguments and
  configuration, printing.
- Functions that nothing calls (`try_capture_sample` and `extract_bir_data` of the WBF
  backend), the vendor template, the signing tools (sequential command line programs
  around the cryptographic library), the examples and the generated JavaScript.
- Two updaters at once (the code has no lock), and zips that list one base name twice:
  hazards without a property.

## 6. Plan

1. Done: `Session` with its abstract service; the bridge with its client and its host;
   `Handlers`, `Device`, `Wbf` and `Vendors`; `Neurotec`; `Release`, `Apply` and `Update`;
   a proof of every safety property that a passing run checks.
2. Two updaters, and updates within one second, in `Apply`.
3. Proofs: what the code keeps when a rollback or a cleanup fails in part (the cases that
   `Conditions` excludes), and of the bridge when a reply exceeds the limit.
