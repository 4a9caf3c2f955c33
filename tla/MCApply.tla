------------------------------ MODULE MCApply ------------------------------
(* Instances of Apply for TLC: two installed files and one that a release  *)
(* may add.                                                                *)
EXTENDS Apply

CONSTANTS exe, dll, extra

MCFiles == {exe, dll, extra}
MCOriginal == {exe, dll}
MCReleases == {<<exe, dll>>, <<extra, dll, exe>>, <<dll>>}
=============================================================================
