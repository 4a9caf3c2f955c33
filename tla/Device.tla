------------------------------- MODULE Device -------------------------------
(***************************************************************************)
(* The life of a SecuGen device around the command of Handlers: the vendor *)
(* library is searched and loaded, a handle is created, initialised and    *)
(* opened, and all of it is given back -- by the in-process backend        *)
(* (native.rs), which takes care of every error, and by the bridge process *)
(* (handle_init, handle_disconnect), which leaves what an init that fails  *)
(* has opened to the end of its process.                                   *)
(*                                                                         *)
(* `next` is the call to the library that the code makes next.             *)
(***************************************************************************)
EXTENDS Handlers, FiniteSetsExt

CONSTANT Places   \* where a library is looked for, in order of precedence

ASSUME DeviceAssumption == Places \subseteq Nat \ {0} /\ IsFiniteSet(Places)

VARIABLES
  next,     \* the next call, or where the device's life ended
  loaded,   \* the library is mapped into the process
  handle,   \* a handle was created and not terminated
  opened,   \* the device was opened and not closed
  closed    \* NativeBackend::closed

dvars == <<next, loaded, handle, opened, closed>>

InitCalls == {"load", "create", "init", "open", "info", "size"}

(* What a native init that fails still does before it returns the error.   *)
UndoCalls == {"undo open", "undo create", "unload"}

(* "leaked": a symbol was missing.  "gone": the bridge process has ended.  *)
Ends == {"failed", "leaked", "closed", "gone"}

DeviceTypeOK ==
  /\ next \in InitCalls \cup UndoCalls \cup {"command", "close", "terminate", "drop"} \cup Ends
  /\ loaded \in BOOLEAN /\ handle \in BOOLEAN /\ opened \in BOOLEAN /\ closed \in BOOLEAN
  /\ next # "command" => pc \in {"start", "done", "dead"}

DeviceInit ==
  /\ Init
  /\ next = "load"
  /\ loaded = FALSE /\ handle = FALSE /\ opened = FALSE /\ closed = FALSE

-----------------------------------------------------------------------------
(* The bare file name, which is left to the loader's own search.           *)
Bare == 0

(* The first place that has a library, whether or not it can be loaded.    *)
FindLibrary(present) == IF present = {} THEN Bare ELSE Min(present)

(* The loader finds all symbols, or misses one, or finds no library.       *)
Loads == next' \in {"create", "leaked"} /\ loaded' = TRUE
LoadFails == next' = "failed" /\ UNCHANGED loaded

(* LoadedLib::load, on whatever was found: dlopen searches by itself for a *)
(* bare name.                                                              *)
LoadNative ==
  /\ backend = "native" /\ next = "load"
  /\ Loads \/ LoadFails
  /\ UNCHANGED <<vars, handle, opened, closed>>

(* SgfpLib::load: the directory of a bare name is none, and refused by     *)
(* AddDllDirectory.                                                        *)
LoadBridge ==
  /\ backend = "bridge" /\ next = "load"
  /\ \E present \in SUBSET Places :
       (FindLibrary(present) # Bare /\ Loads) \/ LoadFails
  /\ UNCHANGED <<vars, handle, opened, closed>>

(* A call of init fails: a native init has to undo what the calls before   *)
(* it did, beginning with the last.                                        *)
InitFails(undo) ==
  /\ next' = IF backend = "native" THEN undo ELSE "failed"
  /\ UNCHANGED <<loaded, handle, opened>>

UndoOpen ==
  /\ next = "undo open"
  /\ next' = "undo create" /\ opened' = FALSE
  /\ UNCHANGED <<vars, loaded, handle, closed>>

UndoCreate ==
  /\ next = "undo create"
  /\ next' = "unload" /\ handle' = FALSE
  /\ UNCHANGED <<vars, loaded, opened, closed>>

(* init returns, and drops the LoadedLib.                                  *)
Unload ==
  /\ next = "unload"
  /\ next' = "failed" /\ loaded' = FALSE
  /\ UNCHANGED <<vars, handle, opened, closed>>

Create ==
  /\ next = "create"
  /\ \/ next' = "init" /\ handle' = TRUE /\ UNCHANGED <<loaded, opened>>
     \/ InitFails("unload")
  /\ UNCHANGED <<vars, closed>>

InitDevice ==
  /\ next = "init"
  /\ \/ next' = "open" /\ UNCHANGED <<loaded, handle, opened>>
     \/ InitFails("undo create")
  /\ UNCHANGED <<vars, closed>>

OpenDevice ==
  /\ next = "open"
  /\ \/ next' = "info" /\ opened' = TRUE /\ UNCHANGED <<loaded, handle>>
     \/ InitFails("undo create")
  /\ UNCHANGED <<vars, closed>>

(* Mutant of GetDeviceInfo: the device stays open when the call fails.     *)
GetDeviceInfoOnly ==
  /\ next = "info"
  /\ \/ next' = "size" /\ UNCHANGED <<loaded, handle, opened>>
     \/ InitFails("undo create")
  /\ UNCHANGED <<vars, closed>>

GetDeviceInfo ==
  /\ next = "info"
  /\ \/ next' = "size" /\ UNCHANGED <<loaded, handle, opened>>
     \/ InitFails("undo open")
  /\ UNCHANGED <<vars, closed>>

GetMaxTemplateSize ==
  /\ next = "size"
  /\ \/ next' = "command" /\ UNCHANGED <<loaded, handle, opened>>
     \/ InitFails("undo open")
  /\ UNCHANGED <<vars, closed>>

-----------------------------------------------------------------------------
(* A step of the command; a bridge that panics takes everything with it.   *)
Command ==
  /\ next = "command"
  /\ Handle
  /\ IF pc' = "dead"
       THEN next' = "gone" /\ loaded' = FALSE /\ handle' = FALSE /\ opened' = FALSE
       ELSE UNCHANGED <<next, loaded, handle, opened>>
  /\ UNCHANGED closed

(* disconnect, or the drop of the backend without one.                     *)
Shutdown ==
  /\ next = "command" /\ pc \in {"start", "done"}
  /\ next' = "close"
  /\ UNCHANGED <<vars, loaded, handle, opened, closed>>

CloseDevice ==
  /\ next = "close"
  /\ opened' = FALSE /\ next' = "terminate"
  /\ UNCHANGED <<vars, loaded, handle, closed>>

(* The end of cleanup, after which shutdown drops the backend.             *)
Terminate ==
  /\ next = "terminate"
  /\ handle' = FALSE
  /\ IF backend = "native"
       THEN next' = "drop" /\ closed' = TRUE
       ELSE next' = "closed" /\ UNCHANGED closed
  /\ UNCHANGED <<vars, loaded, opened>>

(* Mutant of DropBackend: Drop cleans up whatever shutdown did.            *)
DropBackendAgain ==
  /\ next = "drop"
  /\ next' = "close"
  /\ UNCHANGED <<vars, loaded, handle, opened, closed>>

(* Drop::drop cleans up unless that was done; then the fields are dropped, *)
(* and with them the library.                                              *)
DropBackend ==
  /\ next = "drop"
  /\ IF closed
       THEN next' = "closed" /\ loaded' = FALSE
       ELSE next' = "close" /\ UNCHANGED loaded
  /\ UNCHANGED <<vars, handle, opened, closed>>

(* The bridge ends, or is killed, with what it left open.                  *)
ProcessEnds ==
  /\ backend = "bridge" /\ next \in Ends \ {"gone"}
  /\ next' = "gone" /\ loaded' = FALSE /\ handle' = FALSE /\ opened' = FALSE
  /\ UNCHANGED <<vars, closed>>

DeviceNext ==
  \/ LoadNative \/ LoadBridge
  \/ Create \/ InitDevice \/ OpenDevice \/ GetDeviceInfo \/ GetMaxTemplateSize
  \/ UndoOpen \/ UndoCreate \/ Unload
  \/ Command \/ Shutdown \/ CloseDevice \/ Terminate \/ DropBackend
  \/ ProcessEnds

-----------------------------------------------------------------------------
(* "`self.lib` MUST still be live when cleanup runs": whatever fails and   *)
(* however often cleanup is reached, a function of the library is called   *)
(* only while it is mapped, with a handle that was not terminated, and on  *)
(* a device that is open if it is one that needs it.                       *)
CallsOnLiveHandle ==
  /\ next \in {"create", "drop", "unload"} => loaded
  /\ next \in {"init", "open", "info", "size", "command", "close", "terminate",
               "undo open", "undo create"} => loaded /\ handle
  /\ next \in {"info", "size", "command", "close", "undo open"} => opened

(* When an init has failed at any of its calls, or the device was closed,  *)
(* no handle and no device is left open, nor the library but for one that  *)
(* misses a symbol -- in the bridge, once its process has ended.           *)
NothingLeftOpen ==
  next \in (IF backend = "native" THEN Ends ELSE {"gone"}) =>
    ~handle /\ ~opened /\ (loaded <=> next = "leaked")
=============================================================================
