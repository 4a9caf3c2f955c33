------------------------------ MODULE Session ------------------------------
(***************************************************************************)
(* The addon's global scanner slot (sdk/src/lib.rs) under concurrent       *)
(* calls, and the life of the scanner objects the calls create.            *)
(*                                                                         *)
(* Every exported function is an async fn.  All but getScannerStatus hand  *)
(* their body to a thread of tokio's blocking pool and resume on an async  *)
(* worker when it has finished; getScannerStatus takes the same mutex on   *)
(* the async worker itself.  initScanner tests the slot, opens the device  *)
(* WITHOUT the lock, and tests the slot again before installing.           *)
(***************************************************************************)
EXTENDS Naturals, FiniteSets

CONSTANTS
  Callers,          \* the promises in flight; one JavaScript call each at a time
  Scanners,         \* the boxed scanner objects the allocator hands out, reused once dropped
  NoScanner,        \* an empty slot; a stack frame that owns no scanner
  NoCaller,         \* the mutex is free
  AsyncWorkers,     \* threads of the tokio runtime that poll futures
  BlockingThreads,  \* threads of its blocking pool
  MaxCalls          \* calls one caller makes (bound)

ASSUME SessionAssumption ==
  /\ NoScanner \notin Scanners
  /\ NoCaller \notin Callers
  /\ AsyncWorkers \in Nat \ {0}
  /\ BlockingThreads \in Nat \ {0}
  /\ MaxCalls \in Nat

VARIABLES
  slot,    \* content of SCANNER: an installed scanner or NoScanner
  lock,    \* the caller whose thread holds SCANNER's mutex across a vendor call
  dev,     \* [Scanners -> state of the object and of the device behind it]
  mine,    \* [Callers -> the scanner its stack frame owns, or NoScanner]
  pc,      \* [Callers -> where its call is]
  op,      \* [Callers -> its call]
  ret,     \* [Callers -> the answer of its last call]
  made     \* [Callers -> number of calls made]

vars == <<slot, lock, dev, mine, pc, op, ret, made>>

Ops == {"init", "use", "disconnect", "status"}

(* "free": no such object; "new": built, no backend; "opening": a backend  *)
(* is being opened (bridge process running, or native handle created);     *)
(* "ready": backend stored; "dead": stored, but the bridge has died or the *)
(* device is unplugged.                                                    *)
DevStates == {"free", "new", "opening", "ready", "dead"}

(* Program counters whose frame runs on a thread of the blocking pool.     *)
OnBlockingThread ==
  {"init_check", "init_create", "init_spawn", "init_open", "init_install",
   "init_discard", "use_lock", "use_run", "disc_lock", "disc_run"}

PCs == OnBlockingThread \cup {"idle", "queued", "spawned", "status_lock", "joining"}

Answers == {"none", "ok", "exists", "unsupported", "failed", "panicked",
            "not_initialized", "connected", "disconnected"}

TypeOK ==
  /\ slot \in Scanners \cup {NoScanner}
  /\ lock \in Callers \cup {NoCaller}
  /\ dev \in [Scanners -> DevStates]
  /\ mine \in [Callers -> Scanners \cup {NoScanner}]
  /\ pc \in [Callers -> PCs]
  /\ op \in [Callers -> Ops]
  /\ ret \in [Callers -> Answers]
  /\ made \in [Callers -> 0..MaxCalls]

Init ==
  /\ slot = NoScanner
  /\ lock = NoCaller
  /\ dev = [s \in Scanners |-> "free"]
  /\ mine = [c \in Callers |-> NoScanner]
  /\ pc = [c \in Callers |-> "idle"]
  /\ op = [c \in Callers |-> "status"]
  /\ ret = [c \in Callers |-> "none"]
  /\ made = [c \in Callers |-> 0]

-----------------------------------------------------------------------------
(* A future that is polled needs an async worker; only a status call keeps *)
(* one, for as long as it waits for the mutex.                             *)
WorkerFree == Cardinality({c \in Callers : pc[c] = "status_lock"}) < AsyncWorkers

ThreadFree ==
  Cardinality({c \in Callers : pc[c] \in OnBlockingThread}) < BlockingThreads

(* lock_scanner: a panic of an earlier holder poisons the mutex, and the   *)
(* guard is recovered all the same.                                        *)
LockFree == lock = NoCaller

Goto(c, l) == pc' = [pc EXCEPT ![c] = l] /\ UNCHANGED ret

(* The blocking closure returns: its JoinHandle is ready.                  *)
Finish(c, a) ==
  /\ pc' = [pc EXCEPT ![c] = "joining"]
  /\ ret' = [ret EXCEPT ![c] = a]

(* Mutant of DropMine: a scanner whose type has no Drop.                   *)
DropMineForgets(c) ==
  /\ mine' = [mine EXCEPT ![c] = NoScanner]
  /\ UNCHANGED dev

(* The scanner of c's frame is dropped; its Drop disconnects, which shuts  *)
(* the backend down if there is one.                                       *)
DropMine(c) ==
  /\ dev' = [dev EXCEPT ![mine[c]] = "free"]
  /\ mine' = [mine EXCEPT ![c] = NoScanner]

(* JavaScript calls an exported function.                                  *)
Call(c, o) ==
  /\ pc[c] = "idle" /\ made[c] < MaxCalls
  /\ made' = [made EXCEPT ![c] = @ + 1]
  /\ op' = [op EXCEPT ![c] = o]
  /\ Goto(c, "queued")
  /\ UNCHANGED <<slot, lock, dev, mine>>

(* The future is polled: a status call goes for the mutex right there, any *)
(* other call hands its closure to the blocking pool.                      *)
Poll(c) ==
  /\ pc[c] = "queued" /\ WorkerFree
  /\ Goto(c, IF op[c] = "status" THEN "status_lock" ELSE "spawned")
  /\ UNCHANGED <<slot, lock, dev, mine, op, made>>

StartBlocking(c) ==
  /\ pc[c] = "spawned" /\ ThreadFree
  /\ Goto(c, CASE op[c] = "init" -> "init_check"
               [] op[c] = "use" -> "use_lock"
               [] OTHER -> "disc_lock")
  /\ UNCHANGED <<slot, lock, dev, mine, op, made>>

(* The JoinHandle's result (or the panic it caught) settles the promise.   *)
Resume(c) ==
  /\ pc[c] = "joining" /\ WorkerFree
  /\ Goto(c, "idle")
  /\ UNCHANGED <<slot, lock, dev, mine, op, made>>

(* Mutant of GetStatus: it does not wait, and says so of a busy scanner.   *)
GetStatusBusy(c) ==
  /\ pc[c] = "status_lock"
  /\ pc' = [pc EXCEPT ![c] = "idle"]
  /\ ret' = [ret EXCEPT ![c] = IF LockFree THEN "connected" ELSE "capturing"]
  /\ UNCHANGED <<slot, lock, dev, mine, op, made>>

GetStatus(c) ==
  /\ pc[c] = "status_lock" /\ LockFree
  /\ pc' = [pc EXCEPT ![c] = "idle"]
  /\ ret' = [ret EXCEPT ![c] = IF slot # NoScanner THEN "connected" ELSE "disconnected"]
  /\ UNCHANGED <<slot, lock, dev, mine, op, made>>

-----------------------------------------------------------------------------
(* initScanner.  The guard of the first test is a temporary: the lock is   *)
(* free again before the vendor is asked for anything.                     *)
InitCheck(c) ==
  /\ pc[c] = "init_check" /\ LockFree
  /\ IF slot # NoScanner THEN Finish(c, "exists") ELSE Goto(c, "init_create")
  /\ UNCHANGED <<slot, lock, dev, mine, op, made>>

InitCreate(c) ==
  /\ pc[c] = "init_create"
  /\ \/ Finish(c, "unsupported") /\ UNCHANGED <<dev, mine>>
     \/ \E s \in Scanners :
          /\ dev[s] = "free"
          /\ dev' = [dev EXCEPT ![s] = "new"]
          /\ mine' = [mine EXCEPT ![c] = s]
          /\ Goto(c, "init_spawn")
  /\ UNCHANGED <<slot, lock, op, made>>

(* SecuGenScanner::init, first half: the bridge process is spawned, or the *)
(* vendor library loaded and a handle created.                             *)
InitSpawn(c) ==
  /\ pc[c] = "init_spawn"
  /\ \/ dev' = [dev EXCEPT ![mine[c]] = "opening"] /\ Goto(c, "init_open")
        /\ UNCHANGED mine
     \/ DropMine(c) /\ Finish(c, "failed")
  /\ UNCHANGED <<slot, lock, op, made>>

(* Second half: the device answers and the backend is stored; or it fails  *)
(* or panics, and the backend (a local) and the scanner are dropped.       *)
InitOpen(c) ==
  /\ pc[c] = "init_open"
  /\ \/ dev' = [dev EXCEPT ![mine[c]] = "ready"] /\ Goto(c, "init_install")
        /\ UNCHANGED mine
     \/ DropMine(c) /\ \E a \in {"failed", "panicked"} : Finish(c, a)
  /\ UNCHANGED <<slot, lock, op, made>>

(* Mutant of InitInstall: no second look at the slot.                      *)
InitInstallBlindly(c) ==
  /\ pc[c] = "init_install" /\ LockFree
  /\ slot' = mine[c]
  /\ mine' = [mine EXCEPT ![c] = NoScanner]
  /\ Finish(c, "ok")
  /\ UNCHANGED <<lock, dev, op, made>>

(* The re-check: install, or keep the lock and drop the scanner.           *)
InitInstall(c) ==
  /\ pc[c] = "init_install" /\ LockFree
  /\ IF slot # NoScanner
       THEN /\ lock' = c
            /\ Goto(c, "init_discard")
            /\ UNCHANGED <<slot, mine>>
       ELSE /\ slot' = mine[c]
            /\ mine' = [mine EXCEPT ![c] = NoScanner]
            /\ Finish(c, "ok")
            /\ UNCHANGED lock
  /\ UNCHANGED <<dev, op, made>>

InitDiscard(c) ==
  /\ pc[c] = "init_discard"
  /\ DropMine(c)
  /\ lock' = NoCaller
  /\ Finish(c, "exists")
  /\ UNCHANGED <<slot, op, made>>

-----------------------------------------------------------------------------
(* Mutant of UseLock: the guard is gone before the operation begins.       *)
UseLockBriefly(c) ==
  /\ pc[c] = "use_lock" /\ LockFree
  /\ IF slot = NoScanner THEN Finish(c, "not_initialized") ELSE Goto(c, "use_run")
  /\ UNCHANGED <<slot, lock, dev, mine, op, made>>

(* with_scanner: capture, enroll, verify and identify keep the lock while  *)
(* the vendor works.                                                       *)
UseLock(c) ==
  /\ pc[c] = "use_lock" /\ LockFree
  /\ IF slot = NoScanner
       THEN Finish(c, "not_initialized") /\ UNCHANGED lock
       ELSE lock' = c /\ Goto(c, "use_run")
  /\ UNCHANGED <<slot, dev, mine, op, made>>

(* Mutant of UseFinish: the unwinding of a panic forgets the guard.        *)
UseFinishKeepsLock(c) ==
  /\ pc[c] = "use_run"
  /\ \/ \E a \in {"ok", "failed"} : Finish(c, a) /\ lock' = NoCaller
     \/ Finish(c, "panicked") /\ UNCHANGED lock
  /\ UNCHANGED <<slot, dev, mine, op, made>>

(* The vendor returns or panics; the guard is released either way.  A dead *)
(* device gives no result.                                                 *)
UseFinish(c) ==
  /\ pc[c] = "use_run"
  /\ \/ dev[slot] = "ready" /\ Finish(c, "ok")
     \/ \E a \in {"failed", "panicked"} : Finish(c, a)
  /\ lock' = NoCaller
  /\ UNCHANGED <<slot, dev, mine, op, made>>

DisconnectTake(c) ==
  /\ pc[c] = "disc_lock" /\ LockFree
  /\ IF slot = NoScanner
       THEN Finish(c, "ok") /\ UNCHANGED <<slot, lock, mine>>
       ELSE /\ lock' = c
            /\ slot' = NoScanner
            /\ mine' = [mine EXCEPT ![c] = slot]
            /\ Goto(c, "disc_run")
  /\ UNCHANGED <<dev, op, made>>

(* scanner.disconnect() shuts the backend down, then the scanner's Drop    *)
(* finds none; the guard is released last.                                 *)
DisconnectClose(c) ==
  /\ pc[c] = "disc_run"
  /\ DropMine(c)
  /\ lock' = NoCaller
  /\ Finish(c, "ok")
  /\ UNCHANGED <<slot, op, made>>

(* The bridge process dies or the device is unplugged.                     *)
Die(s) ==
  /\ dev[s] = "ready"
  /\ dev' = [dev EXCEPT ![s] = "dead"]
  /\ UNCHANGED <<slot, lock, mine, pc, op, ret, made>>

-----------------------------------------------------------------------------
Step(c) ==
  \/ Poll(c) \/ StartBlocking(c) \/ Resume(c) \/ GetStatus(c)
  \/ InitCheck(c) \/ InitCreate(c) \/ InitSpawn(c) \/ InitOpen(c)
  \/ InitInstall(c) \/ InitDiscard(c)
  \/ UseLock(c) \/ UseFinish(c) \/ DisconnectTake(c) \/ DisconnectClose(c)

(* The JavaScript program has made all its calls and has all its answers.  *)
AllAnswered ==
  /\ \A c \in Callers : pc[c] = "idle" /\ made[c] = MaxCalls
  /\ UNCHANGED vars

Next ==
  \/ \E c \in Callers : Step(c) \/ \E o \in Ops : Call(c, o)
  \/ \E s \in Scanners : Die(s)
  \/ AllAnswered

Spec == Init /\ [][Next]_vars

(* Threads are scheduled and vendor calls return; nothing is assumed of    *)
(* the order in which the mutex serves its waiters.                        *)
FairSpec == Spec /\ \A c \in Callers : WF_vars(Step(c))

-----------------------------------------------------------------------------
Holds(c) == pc[c] \in {"init_discard", "use_run", "disc_run"}

OwnsScanner(c) ==
  pc[c] \in {"init_spawn", "init_open", "init_install", "init_discard", "disc_run"}

(* Mutual exclusion: the mutex is held exactly by the thread that is       *)
(* inside a vendor call on behalf of with_scanner, of disconnect, or of    *)
(* the discarding branch of init.                                          *)
LockDiscipline == \A c \in Callers : Holds(c) <=> lock = c

(* Every scanner object has exactly one owner, the slot or one frame, and  *)
(* an object without an owner is gone with its device: no init that failed,*)
(* lost the race or panicked, and no disconnect, leaves a bridge process   *)
(* or an open device behind, and none is dropped twice.                    *)
SingleOwner ==
  /\ \A c \in Callers : OwnsScanner(c) <=> mine[c] # NoScanner
  /\ \A s \in Scanners :
       dev[s] # "free" <=> (slot = s \/ \E c \in Callers : mine[c] = s)
  /\ \A c \in Callers : mine[c] # NoScanner =>
       /\ mine[c] # slot
       /\ \A d \in Callers : mine[d] = mine[c] => c = d

(* The scanner an operation runs on stays installed, with its backend, for *)
(* as long as the operation runs (with_scanner borrows it from the guard): *)
(* only a scanner that was opened is installed, and none is closed in the  *)
(* slot.                                                                   *)
NoUseAfterDisconnect ==
  /\ \A c \in Callers :
       /\ pc[c] = "use_run" => slot # NoScanner
       /\ pc[c] = "init_install" => dev[mine[c]] \in {"ready", "dead"}
  /\ slot # NoScanner => dev[slot] \in {"ready", "dead"}

(* "L-4: refuse to overwrite an existing scanner": an installed scanner    *)
(* leaves the slot only through a disconnect, whichever inits race.        *)
NeverOverwritten ==
  [][slot # NoScanner =>
       \/ slot' = slot
       \/ slot' = NoScanner /\ \E c \in Callers : DisconnectTake(c)]_vars

(* Every promise settles, if the vendor calls return: neither a status     *)
(* call that blocks a worker, nor a full blocking pool, nor a panic while  *)
(* the mutex is held makes the others wait for ever.                       *)
CallsReturn == \A c \in Callers : pc[c] # "idle" ~> pc[c] = "idle"

(* The atomic service: a scanner counts as connected until the disconnect  *)
(* that took it has closed it.                                             *)
Service == INSTANCE ScannerService WITH
  connected <- slot # NoScanner \/ \E c \in Callers : pc[c] = "disc_run",
  pending <- [c \in Callers |-> IF pc[c] \in {"idle", "joining"} THEN "none" ELSE op[c]],
  answer <- ret

(* Calls are linearizable: init, use, disconnect and status answer as if   *)
(* each had run alone, at one instant between its call and its answer.     *)
ServesAtomically == Service!Atomic

(* And each is answered, as ScannerService says.                           *)
ImplementsService == Service!Spec

(* Threads that are inside vendor code: opening a device, working on one,  *)
(* or closing one.                                                         *)
InVendor(c) == pc[c] \in {"init_open", "init_discard", "use_run", "disc_run"}

(* native.rs: vendor library code is safe to share among threads "because  *)
(* the surrounding Mutex serialises all access".  No two threads are       *)
(* inside the vendor library at once.                                      *)
VendorCallsSerialised ==
  \A c, d \in Callers : InVendor(c) /\ InVendor(d) => c = d
=============================================================================
