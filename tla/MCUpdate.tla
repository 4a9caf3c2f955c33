------------------------------ MODULE MCUpdate ------------------------------
(* An instance of Update for TLC: the files and releases of MCApply, in    *)
(* zips that are sound or flawed in one way each.  Sizes are in units of   *)
(* which a file may have 2 and a zip 3.                                    *)
EXTENDS Update

CONSTANTS exe, dll, extra, NoVersion

MCFiles == {exe, dll, extra}
MCOriginal == {exe, dll}

(* A zip may list any files, in any order.                                 *)
MCReleases == UNION {SetToSeqs(files) : files \in SUBSET MCFiles}

Honest(name, size) == [name |-> name, claimed |-> size, size |-> size]

ZipOf(entries) == [entries |-> entries, readable |-> TRUE, wrong |-> {}]

Plain == ZipOf(<<Honest(exe, 1), Honest(dll, 1), Honest(Manifest, 1)>>)
Wide == ZipOf(<<Honest(extra, 1), Honest(Directory, 0), Honest(dll, 1), Honest(exe, 1)>>)
Old == ZipOf(<<Honest(dll, 2)>>)

(* The manifest has another hash for a file, or does not parse; names a    *)
(* file that is not there.                                                 *)
Altered == [Plain EXCEPT !.wrong = {dll}]
Garbled == [Plain EXCEPT !.readable = FALSE]
Missing == [ZipOf(<<Honest(Manifest, 0), Honest(dll, 1)>>) EXCEPT !.wrong = {extra}]

(* Entries that are too large, and that lie about it.                      *)
Large == ZipOf(<<Honest(exe, 1), Honest(dll, 3)>>)
Bomb == ZipOf(<<Honest(exe, 2), [name |-> dll, claimed |-> 1, size |-> 9]>>)
Swarm == ZipOf(<<[name |-> dll, claimed |-> 0, size |-> 2], [name |-> exe, claimed |-> 0, size |-> 2]>>)
Odd == ZipOf(<<Honest(Nameless, 1)>>)

MCZips == {Plain, Wide, Old, Altered, Garbled, Missing, Large, Bomb, Swarm, Odd}
MCPublished == {Plain, Wide, Missing, Bomb, Altered}
MCSigned == {Plain, Missing, Altered}

Listed(tag, pre, assets) == [tag |-> tag, pre |-> pre, assets |-> assets]

Full == {"zip", "sum", "sig"}

MCListings ==
  { <<>>,
    <<Listed(1, FALSE, {"zip"})>>,
    <<Listed(2, FALSE, {"zip", "sum"}), Listed(1, FALSE, {"zip"})>>,
    <<Listed(3, FALSE, {"zip", "sig"}), Listed(1, FALSE, {"zip"})>>,
    <<Listed(3, TRUE, Full), Listed(2, FALSE, {"sum"})>>,
    <<Listed(NoVersion, FALSE, Full)>> }
=============================================================================
