------------------------------ MODULE Vendors ------------------------------
(***************************************************************************)
(* get_scanner (sdk/src/vendors/mod.rs): the name that initScanner was     *)
(* given, and the platform, decide whose scanner lives: a SecuGen device   *)
(* behind the bridge, one in this process, or the Windows Biometric        *)
(* Framework's.  (A Neurotec scanner has a module of its own, and takes    *)
(* no step here.)                                                          *)
(***************************************************************************)
EXTENDS Device, Wbf

CONSTANT Names   \* names that a caller may give; "auto" is none

VARIABLES platform, vendor

allvars == <<vars, dvars, wvars, platform, vendor>>

Vendor(name) ==
  CASE name = "secugen" -> "secugen"
    [] name = "auto" -> IF platform = "windows" THEN "wbf" ELSE "secugen"
    [] name \in {"wbf", "windows"} /\ platform = "windows" -> "wbf"
    [] name \in {"neurotec", "neurotechnology"} /\ platform = "windows" -> "neurotec"
    [] OTHER -> "unsupported"

VendorsInit ==
  /\ DeviceInit /\ WbfInit
  /\ platform \in {"windows", "other"}
  /\ backend = IF platform = "windows" THEN "bridge" ELSE "native"
  /\ vendor \in {Vendor(name) : name \in Names}
  /\ vendor # "secugen" => kind = "capture" /\ min = DEFAULT_MIN_QUALITY /\ sane = Sizes

Idle ==
  /\ CASE vendor = "secugen" -> next \in Ends /\ (backend = "bridge" => next = "gone")
       [] vendor = "wbf" -> at = "closed"
       [] OTHER -> TRUE
  /\ UNCHANGED allvars

VendorsNext ==
  \/ vendor = "secugen" /\ DeviceNext /\ UNCHANGED <<wvars, platform, vendor>>
  \/ vendor = "wbf" /\ WbfNext /\ UNCHANGED <<vars, dvars, platform, vendor>>
  \/ Idle

VendorsSpec == VendorsInit /\ [][VendorsNext]_allvars

-----------------------------------------------------------------------------
(* Every component is well typed, and only the chosen one has begun; a     *)
(* scanner that exists on Windows only is not made elsewhere, nor another  *)
(* host for the SecuGen device than the platform's.                        *)
VendorsTypeOK ==
  /\ TypeOK /\ DeviceTypeOK /\ WbfTypeOK
  /\ vendor \in {"secugen", "wbf", "neurotec", "unsupported"}
  /\ vendor \in {"wbf", "neurotec"} => platform = "windows"
  /\ backend = "bridge" <=> platform = "windows"
  /\ vendor # "secugen" => next = "load" /\ pc = "start"
  /\ vendor # "wbf" => at = "new"
=============================================================================
