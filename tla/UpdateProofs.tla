---------------------------- MODULE UpdateProofs ----------------------------
(***************************************************************************)
(* What Update fetches and installs, for every server, every set of zips   *)
(* and every limit: its types, its limits, its checks, and that it         *)
(* installs what it fetched as Apply says.                                 *)
(***************************************************************************)
EXTENDS Update, ApplyProofs

(* The checks that lie behind a stage, of what was downloaded before it.   *)
SignatureChecked == zip \in Signed \/ (unsigned /\ ~(HasKey /\ "sig" \in urls))

ChecksumChecked == "sum" \in urls => zip \in Published

ManifestChecked ==
  Manifest \in DOMAIN staged => zip.readable /\ zip.wrong \cap DOMAIN staged = {}

(* Nothing is downloaded or copied after its check.                        *)
VInv ==
  /\ stage \in {"checksum", "extract", "copied", "manifest", "plan"} => SignatureChecked
  /\ stage \in {"extract", "copied", "manifest", "plan"} => ChecksumChecked
  /\ stage = "plan" => ManifestChecked

LEMMA InitVInv == UpdateInit => VInv
BY DEF UpdateInit, ReleaseInit, VInv

(* A step of the release pipeline keeps what was checked.                  *)
LEMMA ReleaseStep == VInv /\ ReleaseNext => VInv'
<1> SUFFICES ASSUME VInv, ReleaseNext PROVE VInv'
  OBVIOUS
<1> USE DEF VInv, SignatureChecked, ChecksumChecked, ManifestChecked
<1>1. CASE Lookup
  BY <1>1 DEF Lookup
<1>2. CASE DownloadZip
  BY <1>2 DEF DownloadZip
<1>3. CASE VerifySignature
  BY <1>3 DEF VerifySignature, SignatureVerifies
<1>4. CASE VerifyChecksum
  BY <1>4 DEF VerifyChecksum, ChecksumMatches
<1>5. CASE SkipDirectory
  BY <1>5 DEF SkipDirectory
<1>6. CASE CopyEntry
  BY <1>6 DEF CopyEntry
<1>7. CASE KeepEntry
  BY <1>7 DEF KeepEntry
<1>8. CASE EndExtract
  BY <1>8 DEF EndExtract
<1>9. CASE VerifyManifest
  BY <1>9 DEF VerifyManifest
<1> QED
  BY <1>1, <1>2, <1>3, <1>4, <1>5, <1>6, <1>7, <1>8, <1>9 DEF ReleaseNext

(* Every step of the updater does.                                         *)
LEMMA NextVInv == VInv /\ [UpdateNext]_uvars => VInv'
<1> SUFFICES ASSUME VInv, [UpdateNext]_uvars PROVE VInv'
  OBVIOUS
<1>1. CASE StartUpdate
  BY <1>1 DEF StartUpdate, VInv
<1>2. CASE Fetch
  BY <1>2, ReleaseStep DEF Fetch
<1>3. CASE Abandon \/ Plan \/ Kill
  BY <1>3 DEF Abandon, Plan, Kill, Clear, VInv
<1>4. CASE UNCHANGED rvars
  BY <1>4 DEF rvars, VInv, SignatureChecked, ChecksumChecked, ManifestChecked
<1> QED
  BY <1>1, <1>2, <1>3, <1>4 DEF UpdateNext, StartRollback, uvars

(* A backup directory is made, while a release is fetched, only by a plan. *)
LEMMA OnlyPlans ==
  ASSUME UpdateNext, pc = "fetch", backups' # backups
  PROVE  Plan
<1>1. CASE StartUpdate
  BY <1>1 DEF StartUpdate, BeginUpdate
<1>2. CASE Fetch
  BY <1>2 DEF Fetch, vars
<1>3. CASE Abandon
  BY <1>3 DEF Abandon, RefuseRelease
<1>4. CASE StartRollback
  BY <1>4 DEF StartRollback, BeginRollback
<1>5. CASE ReplaceFiles
  BY <1>5 DEF ReplaceFiles, MoveOldAside, MoveNewIn, BeginCopy, EndCopy, RemoveSource,
     RestoreRemove, RestoreMove, EndRestore, WriteRecord, Tidy
<1>6. CASE Kill
  BY <1>6 DEF Kill, Die
<1>7. CASE Done
  BY <1>7 DEF Done
<1> QED
  BY <1>1, <1>2, <1>3, <1>4, <1>5, <1>6, <1>7 DEF UpdateNext

(* Whatever the server hands out and however it changes its mind between   *)
(* two requests: no plan is made for a zip that was not signed by the      *)
(* publisher, unless there was nothing to verify it with and the caller    *)
(* allowed that, nor for one that differs from the checksum offered with   *)
(* it or from its own manifest.                                            *)
THEOREM UpdatePlansOnlyVerified == UpdateSpec => PlansOnlyVerified
<1>1. VInv /\ [UpdateNext]_uvars =>
        [pc = "fetch" /\ backups' # backups =>
          /\ zip \in Signed \/ (unsigned /\ ~(HasKey /\ "sig" \in urls))
          /\ "sum" \in urls => zip \in Published
          /\ Manifest \in DOMAIN staged =>
               zip.readable /\ zip.wrong \cap DOMAIN staged = {}]_uvars
  BY OnlyPlans DEF Plan, VInv, SignatureChecked, ChecksumChecked, ManifestChecked
<1> QED
  BY <1>1, InitVInv, NextVInv, PTL DEF UpdateSpec, PlansOnlyVerified

-----------------------------------------------------------------------------
(* releases/latest names one release, or none, of those that are listed.   *)
LEMMA OneStable ==
  ASSUME NEW list \in Listings
  PROVE  /\ LatestStable(list) = {} \/ \E r : LatestStable(list) = {r}
         /\ LatestStable(list) \subseteq Range(list)
<1> DEFINE stable(j) == ~list[j].pre /\ \A k \in 1..(j - 1) : list[k].pre
<1>1. list \in Seq(Range(list))
  BY ReleaseAssumption
<1>2. ASSUME NEW i \in DOMAIN list, NEW j \in DOMAIN list, stable(i), stable(j)
      PROVE  i = j
  <2>1. i \in Nat \ {0} /\ j \in Nat \ {0}
    BY <1>1
  <2>2. ~(i < j) /\ ~(j < i)
    BY <1>2, <2>1
  <2> QED
    BY <2>1, <2>2
<1>3. LatestStable(list) \subseteq Range(list)
  BY DEF LatestStable, Range
<1> QED
  BY <1>2, <1>3 DEF LatestStable

(* The three lookups see the same release and judge its tag alike; its zip *)
(* is asked for by the updater's only.                                     *)
LEMMA LookupsAgree ==
  ASSUME NEW list \in Listings, NEW current \in Versions
  PROVE  LET addon == AddonCheck(list, current)
             check == Check(list, current, FALSE)
             complete == \A r \in LatestStable(list) : "zip" \in r.assets
         IN  /\ check = "info" <=> addon.available /\ complete
             /\ check = "error" <=> addon.error \/ (addon.available /\ ~complete)
             /\ check = "info" =>
                  ForcedLookup(list, FALSE) = CheckForUpdate(list, current, FALSE)
<1> DEFINE stable == LatestStable(list)
           Newer(r) == r.tag \notin Versions \/ r.tag > current
<1>1. FetchLatestRelease(list, FALSE) = stable
  BY DEF FetchLatestRelease
<1>2. /\ AddonCheck(list, current).error = \E r \in stable : r.tag \notin Versions
      /\ AddonCheck(list, current).available = \E r \in stable : r.tag \in Versions /\ r.tag > current
  BY DEF AddonCheck
<1>0. Nothing.found = "nothing"
  BY DEF Nothing
<1>3. CASE stable = {}
  <2>1. CheckForUpdate(list, current, FALSE) = Nothing
    BY <1>1, <1>3 DEF CheckForUpdate
  <2>2. Check(list, current, FALSE) = "nothing"
    BY <1>0, <2>1, Zenon DEF Check
  <2>3. ~AddonCheck(list, current).error /\ ~AddonCheck(list, current).available
    BY <1>2, <1>3, Zenon
  <2> QED
    BY <2>2, <2>3
<1>4. ASSUME NEW r, stable = {r}
      PROVE  LET addon == AddonCheck(list, current)
                 check == Check(list, current, FALSE)
                 complete == \A q \in stable : "zip" \in q.assets
             IN  /\ check = "info" <=> addon.available /\ complete
                 /\ check = "error" <=> addon.error \/ (addon.available /\ ~complete)
                 /\ check = "info" =>
                      ForcedLookup(list, FALSE) = CheckForUpdate(list, current, FALSE)
  <2>1. (CHOOSE q \in stable : TRUE) = r /\ stable # {}
    BY <1>4
  <2>2. ForcedLookup(list, FALSE) = Info(r)
    BY <1>1, <2>1 DEF ForcedLookup
  <2>3. CheckForUpdate(list, current, FALSE) = IF Newer(r) THEN Info(r) ELSE Nothing
    <3> DEFINE release == FetchLatestRelease(list, FALSE)
    <3>1. release = {r}
      BY <1>1, <1>4
    <3>2. (\E q \in release : Newer(q)) <=> Newer(r)
      BY <3>1, Zenon
    <3>3. (CHOOSE q \in release : TRUE) = r
      BY <3>1
    <3> QED
      BY <3>2, <3>3, Zenon DEF CheckForUpdate
  <2>4. AddonCheck(list, current).error <=> r.tag \notin Versions
    BY <1>2, <1>4, Zenon
  <2>5. AddonCheck(list, current).available <=> r.tag \in Versions /\ r.tag > current
    BY <1>2, <1>4, Zenon
  <2>6. /\ r.tag \in Versions /\ "zip" \in r.assets => Info(r).found = "info"
        /\ ~(r.tag \in Versions /\ "zip" \in r.assets) => Info(r).found = "error"
    BY DEF Info, Bad
  <2>9. (\A q \in stable : "zip" \in q.assets) <=> "zip" \in r.assets
    BY <1>4, Zenon
  <2>7. CASE Newer(r)
    <3>1. CheckForUpdate(list, current, FALSE) = Info(r)
      BY <2>3, <2>7
    <3>2. Check(list, current, FALSE) = Info(r).found
      BY <3>1 DEF Check
    <3> QED
      BY <2>2, <2>4, <2>5, <2>6, <2>7, <2>9, <3>1, <3>2
  <2>8. CASE ~Newer(r)
    <3>1. CheckForUpdate(list, current, FALSE) = Nothing
      BY <2>3, <2>8
    <3>2. Check(list, current, FALSE) = "nothing"
      BY <1>0, <3>1, Zenon DEF Check
    <3> QED
      BY <2>4, <2>5, <2>8, <3>2
  <2> QED
    BY <2>7, <2>8
<1> QED
  BY <1>3, <1>4, OneStable

(* Whatever the server lists, releases in any order, with any tags and     *)
(* assets: check and update find what the addon announces, unless it lacks *)
(* its zip, and fail in that case and on a tag that is no version.         *)
THEOREM UpdateChecksAgree == UpdateSpec => []ChecksAgree
<1>1. ChecksAgree
  BY LookupsAgree DEF ChecksAgree
<1> QED
  BY <1>1, PTL

-----------------------------------------------------------------------------
(* Induction up to a bound, on a set.                                      *)
LEMMA UpTo ==
  ASSUME NEW n \in Nat, NEW T, 0 \in T, \A i \in 0..n : i < n /\ i \in T => i + 1 \in T
  PROVE  \A i \in 0..n : i \in T
<1> SUFFICES ASSUME {i \in 0..n : i \notin T} # {} PROVE FALSE
  OBVIOUS
<1>1. PICK m \in 0..n : m \notin T /\ \A i \in 0..n : i \notin T => m <= i
  <2> DEFINE Out == {i \in 0..n : i \notin T}
  <2>1. Out \in SUBSET Nat /\ Out # {}
    OBVIOUS
  <2> HIDE DEF Out
  <2>2. PICK m \in Out : \A i \in Out : m <= i
    BY <2>1, Least
  <2> QED
    BY <2>2 DEF Out
<1>2. m # 0 /\ m - 1 \in 0..n /\ m - 1 < n /\ m - 1 \in T
  BY <1>1
<1> QED
  BY <1>1, <1>2

(* The recursive function of Without, on the first n elements of a list.   *)
KeepsTo(kept, list, dropped, n) ==
  kept = [i \in 0..n |-> IF i = 0 THEN <<>>
                         ELSE IF list[i] = dropped THEN kept[i - 1]
                         ELSE Append(kept[i - 1], list[i])]

(* There is such a function, which is built one element at a time.         *)
LEMMA KeptExists ==
  ASSUME NEW list, NEW dropped, NEW n \in Nat
  PROVE  \E kept : KeepsTo(kept, list, dropped, n)
<1> DEFINE T == {i \in 0..n : \E kept : KeepsTo(kept, list, dropped, i)}
<1>1. 0 \in T
  <2>1. KeepsTo([i \in 0..0 |-> <<>>], list, dropped, 0)
    BY DEF KeepsTo
  <2> QED
    BY <2>1
<1>2. ASSUME NEW m \in 0..n, m < n, m \in T PROVE m + 1 \in T
  <2>1. PICK kept : KeepsTo(kept, list, dropped, m)
    BY <1>2
  <2> DEFINE next == [i \in 0..(m + 1) |->
                        IF i <= m THEN kept[i]
                        ELSE IF list[i] = dropped THEN kept[i - 1]
                        ELSE Append(kept[i - 1], list[i])]
  <2>2. \A i \in 0..m : kept[i] = IF i = 0 THEN <<>>
                                  ELSE IF list[i] = dropped THEN kept[i - 1]
                                  ELSE Append(kept[i - 1], list[i])
    BY <2>1 DEF KeepsTo
  <2>3. KeepsTo(next, list, dropped, m + 1)
    BY <2>2 DEF KeepsTo
  <2> HIDE DEF next
  <2>4. \E f : KeepsTo(f, list, dropped, m + 1)
    BY <2>3
  <2>5. m + 1 \in 0..n
    BY <1>2
  <2> QED
    BY <2>4, <2>5
<1>3. n \in T
  <2> HIDE DEF T
  <2> QED
    BY <1>1, <1>2, UpTo
<1> QED
  BY <1>3

(* rest is what an increasing choice of positions up to n leaves of a list *)
(* in order, and the dropped element is not in it.                         *)
PartOf(rest, list, dropped, n) ==
  \E from \in [1..Len(rest) -> 1..n] :
    /\ \A j \in 1..Len(rest) : rest[j] = list[from[j]] /\ rest[j] # dropped
    /\ \A j, k \in 1..Len(rest) : k < j => from[k] < from[j]

(* Without drops one element, wherever it is, and nothing else moves.      *)
LEMMA WithoutIsPart ==
  ASSUME NEW S, NEW list \in Seq(S), NEW dropped
  PROVE  /\ Without(list, dropped) \in Seq(S)
         /\ PartOf(Without(list, dropped), list, dropped, Len(list))
<1> DEFINE n == Len(list)
           kept == CHOOSE f : KeepsTo(f, list, dropped, n)
           T == {i \in 0..n : kept[i] \in Seq(S) /\ PartOf(kept[i], list, dropped, i)}
<1>0. n \in Nat
  OBVIOUS
<1>1. KeepsTo(kept, list, dropped, n)
  BY <1>0, KeptExists
<1>2. Without(list, dropped) = kept[n]
  BY DEF Without, KeepsTo
<1> HIDE DEF kept
<1>3. /\ kept[0] = <<>>
      /\ \A i \in 1..n : kept[i] = IF list[i] = dropped THEN kept[i - 1]
                                   ELSE Append(kept[i - 1], list[i])
  <2>1. \A i \in 0..n : kept[i] = IF i = 0 THEN <<>>
                                 ELSE IF list[i] = dropped THEN kept[i - 1]
                                 ELSE Append(kept[i - 1], list[i])
    BY <1>1 DEF KeepsTo
  <2> QED
    BY <1>0, <2>1
<1>4. 0 \in T
  <2>1. kept[0] \in Seq(S) /\ Len(kept[0]) = 0
    BY <1>3
  <2>2. PartOf(kept[0], list, dropped, 0)
    <3>1. [j \in 1..0 |-> 1] \in [1..Len(kept[0]) -> 1..0]
      BY <2>1
    <3> QED
      BY <2>1, <3>1 DEF PartOf
  <2> QED
    BY <1>0, <2>1, <2>2
<1>5. ASSUME NEW i \in 0..n, i < n, i \in T PROVE i + 1 \in T
  <2>1. i + 1 \in 1..n /\ kept[i] \in Seq(S) /\ list[i + 1] \in S
    BY <1>0, <1>5
  <2>2. PICK from \in [1..Len(kept[i]) -> 1..i] :
          /\ \A j \in 1..Len(kept[i]) : kept[i][j] = list[from[j]] /\ kept[i][j] # dropped
          /\ \A j, k \in 1..Len(kept[i]) : k < j => from[k] < from[j]
    BY <1>5 DEF PartOf
  <2>3. CASE list[i + 1] = dropped
    <3>1. kept[i + 1] = kept[i]
      BY <1>3, <2>1, <2>3
    <3>2. from \in [1..Len(kept[i]) -> 1..(i + 1)]
      BY <1>0, <2>1, <2>2
    <3>3. PartOf(kept[i], list, dropped, i + 1)
      BY <2>2, <3>2 DEF PartOf
    <3> QED
      BY <2>1, <3>1, <3>3
  <2>4. CASE list[i + 1] # dropped
    <3> DEFINE m == Len(kept[i])
               next == [j \in 1..(m + 1) |-> IF j = m + 1 THEN i + 1 ELSE from[j]]
    <3>1. kept[i + 1] = Append(kept[i], list[i + 1])
      <4>1. (i + 1) - 1 = i /\ i + 1 \in 1..n
        BY <1>0, <1>5
      <4> QED
        BY <1>3, <2>4, <4>1
    <3>2. /\ m \in Nat /\ kept[i + 1] \in Seq(S) /\ Len(kept[i + 1]) = m + 1
          /\ kept[i + 1][m + 1] = list[i + 1]
          /\ \A j \in 1..m : kept[i + 1][j] = kept[i][j]
      BY <2>1, <3>1
    <3> HIDE DEF m
    <3>3. next \in [1..(m + 1) -> 1..(i + 1)]
      BY <1>0, <2>2, <3>2 DEF m
    <3>4. \A j \in 1..(m + 1) : kept[i + 1][j] = list[next[j]] /\ kept[i + 1][j] # dropped
      <4> SUFFICES ASSUME NEW j \in 1..(m + 1)
                   PROVE  kept[i + 1][j] = list[next[j]] /\ kept[i + 1][j] # dropped
        OBVIOUS
      <4>1. CASE j = m + 1
        BY <2>4, <3>2, <4>1
      <4>2. CASE j # m + 1
        <5>1. j \in 1..m /\ next[j] = from[j] /\ kept[i + 1][j] = kept[i][j]
          BY <3>2, <4>2
        <5> QED
          BY <2>2, <5>1 DEF m
      <4> QED
        BY <4>1, <4>2
    <3>5. \A j, k \in 1..(m + 1) : k < j => next[k] < next[j]
      <4> SUFFICES ASSUME NEW j \in 1..(m + 1), NEW k \in 1..(m + 1), k < j
                   PROVE  next[k] < next[j]
        OBVIOUS
      <4>1. k \in 1..m /\ next[k] = from[k]
        BY <3>2
      <4>2. from[k] \in 1..i
        BY <2>2, <4>1 DEF m
      <4>3. CASE j = m + 1
        BY <1>0, <4>1, <4>2, <4>3
      <4>4. CASE j # m + 1
        <5>1. j \in 1..m /\ next[j] = from[j]
          BY <3>2, <4>4
        <5> QED
          BY <2>2, <4>1, <5>1 DEF m
      <4> QED
        BY <4>3, <4>4
    <3> HIDE DEF next
    <3>6. PartOf(kept[i + 1], list, dropped, i + 1)
      BY <3>2, <3>3, <3>4, <3>5 DEF PartOf
    <3> QED
      BY <2>1, <3>2, <3>6
  <2> QED
    BY <2>3, <2>4
<1>6. n \in T
  <2> HIDE DEF T, n
  <2>1. \A i \in 0..n : i < n /\ i \in T => i + 1 \in T
    BY <1>5
  <2>2. \A i \in 0..n : i \in T
    BY <1>0, <1>4, <2>1, UpTo
  <2> QED
    BY <1>0, <2>2
<1> QED
  BY <1>2, <1>6

-----------------------------------------------------------------------------
(* Where the pipeline is: nothing was fetched before the download, an      *)
(* entry that was copied is in the staging directory, and extracted lists  *)
(* files of entries that were passed.                                      *)
Fresh ==
  stage \in {"none", "lookup", "download"} =>
    zip = NoZip /\ entry = 1 /\ staged = <<>> /\ total = 0 /\ extracted = <<>>

Copied == stage = "copied" => entry \in 1..Len(zip.entries) /\ Entry.name \in DOMAIN staged

Extracting ==
  /\ DOMAIN staged \subseteq Files \cup {Manifest}
  /\ extracted \in Seq(DOMAIN staged)
  /\ \A i \in 1..Len(extracted) : \E k \in 1..Len(zip.entries) :
       k < entry /\ zip.entries[k].name = extracted[i]

EInv == ReleaseTypeOK /\ Fresh /\ Copied /\ Extracting

LEMMA ZipTypes ==
  ASSUME zip \in Zips \cup {NoZip}
  PROVE  zip.entries \in Seq(EntryTypes) /\ Len(zip.entries) \in Nat
<1>1. NoZip.entries \in Seq(EntryTypes)
  BY DEF NoZip
<1>2. zip.entries \in Seq(EntryTypes)
  BY <1>1, UpdateAssumption
<1> QED
  BY <1>2

(* The entry that the pipeline is at.                                      *)
LEMMA EntryType ==
  ASSUME zip \in Zips \cup {NoZip}, entry \in 1..Len(zip.entries)
  PROVE  /\ Entry.name \in Files \cup {Manifest, Directory, Nameless}
         /\ Entry.claimed \in Nat /\ Entry.size \in Nat
         /\ Entry.name \in {e.name : e \in Range(zip.entries)}
<1>1. zip.entries \in Seq(EntryTypes) /\ Entry \in EntryTypes
  BY ZipTypes DEF Entry
<1>2. Entry \in Range(zip.entries)
  BY <1>1 DEF Entry, Range
<1> QED
  BY <1>1, <1>2 DEF EntryTypes

LEMMA NothingFetched ==
  ASSUME stage \in Stages, stage = "none" => ~unsigned /\ urls = {},
         unsigned \in BOOLEAN, urls \subseteq {"sum", "sig"},
         zip = NoZip, entry = 1, staged = <<>>, total = 0, extracted = <<>>, stage # "copied"
  PROVE  EInv
<1>1. Len(NoZip.entries) = 0
  BY DEF NoZip
<1>2. DOMAIN staged = {} /\ extracted \in Seq(DOMAIN staged) /\ Len(extracted) = 0
      /\ DOMAIN extracted = {}
  OBVIOUS
<1> QED
  BY <1>1, <1>2 DEF EInv, ReleaseTypeOK, Fresh, Copied, Extracting

LEMMA ClearEInv == Clear => EInv'
<1> SUFFICES ASSUME Clear PROVE EInv'
  OBVIOUS
<1>1. stage' = "none" /\ zip' = NoZip /\ Len(zip'.entries) = 0
  BY DEF Clear, NoZip
<1>2. DOMAIN staged' = {} /\ extracted' \in Seq(DOMAIN staged') /\ Len(extracted') = 0
      /\ DOMAIN extracted' = {}
  BY DEF Clear
<1>3. ReleaseTypeOK'
  <2>1. entry' \in 1..(Len(zip'.entries) + 1) /\ total' \in Nat /\ stage' \in Stages
    BY <1>1 DEF Clear, Stages
  <2>2. unsigned' = FALSE /\ urls' = {}
    BY DEF Clear
  <2>3. /\ \A f \in DOMAIN staged' :
             f \in {e.name : e \in Range(zip'.entries)} /\ staged'[f] \in Nat
        /\ \A i \in DOMAIN extracted' : extracted'[i] \in DOMAIN staged'
    BY <1>2
  <2> QED
    BY <1>1, <2>1, <2>2, <2>3, Zenon DEF ReleaseTypeOK
<1>4. Fresh' /\ Copied' /\ Extracting'
  BY <1>1, <1>2 DEF Clear, Fresh, Copied, Extracting
<1> QED
  BY <1>3, <1>4 DEF EInv

(* A release that is found offers assets beside its zip.                   *)
LEMMA FoundUrls ==
  ASSUME NEW list \in Listings, NEW current, NEW pre, NEW info,
         info = ForcedLookup(list, pre) \/ info = CheckForUpdate(list, current, pre),
         info.found = "info"
  PROVE  info.urls \subseteq {"sum", "sig"}
<1>1. FetchLatestRelease(list, pre) \subseteq Range(list)
  <2>1. First(list) \subseteq Range(list)
    <3>1. list \in Seq(Range(list)) /\ (list # <<>> => Head(list) = list[1] /\ 1 \in DOMAIN list)
      BY ReleaseAssumption, EmptySeq
    <3> QED
      BY <3>1 DEF First, Range
  <2> QED
    BY <2>1, OneStable DEF FetchLatestRelease
<1>2. Nothing.found # "info" /\ Bad.found # "info"
  BY DEF Nothing, Bad
<1>3. PICK r \in FetchLatestRelease(list, pre) : info = Info(r)
  BY <1>2, Zenon DEF ForcedLookup, CheckForUpdate
<1>4. r.assets \subseteq {"zip", "sum", "sig"}
  BY <1>1, ReleaseAssumption
<1>5. info.urls = r.assets \ {"zip"}
  BY <1>2, <1>3 DEF Info
<1> QED
  BY <1>4, <1>5

(* The steps that look at what was fetched, and fetch nothing.             *)
LEMMA StageStep ==
  ASSUME EInv, stage' \in Stages \ {"none", "lookup", "copied"},
         stage' = "download" => stage = "lookup",
         urls' \subseteq {"sum", "sig"}, UNCHANGED <<unsigned, zip, entry, staged, total, extracted>>
  PROVE  EInv'
BY DEF EInv, ReleaseTypeOK, Fresh, Copied, Extracting

(* Whatever the zip holds: the pipeline stays within it.                   *)
LEMMA FetchStep == EInv /\ ReleaseNext => EInv'
<1> SUFFICES ASSUME EInv, ReleaseNext PROVE EInv'
  OBVIOUS
<1>0. zip.entries \in Seq(EntryTypes) /\ Len(zip.entries) \in Nat
  BY ZipTypes DEF EInv, ReleaseTypeOK
<1>1. CASE Lookup
  <2>1. urls' \subseteq {"sum", "sig"}
    BY <1>1, FoundUrls DEF Lookup
  <2> QED
    BY <1>1, <2>1, StageStep DEF Lookup, Stages
<1>2. CASE DownloadZip
  <2>1. /\ zip' \in Zips /\ entry' = 1 /\ staged' = <<>> /\ total' = 0 /\ extracted' = <<>>
        /\ stage' = "signature" /\ UNCHANGED <<unsigned, urls>>
    BY <1>2 DEF DownloadZip, EInv, Fresh
  <2>2. Len(zip'.entries) \in Nat
    BY <2>1, UpdateAssumption
  <2>3. DOMAIN staged' = {} /\ extracted' \in Seq(DOMAIN staged') /\ Len(extracted') = 0
        /\ DOMAIN extracted' = {}
    BY <2>1
  <2>4. ReleaseTypeOK'
    BY <2>1, <2>2, <2>3 DEF EInv, ReleaseTypeOK, Stages
  <2>5. Fresh' /\ Copied' /\ Extracting'
    BY <2>1, <2>3 DEF Fresh, Copied, Extracting
  <2> QED
    BY <2>4, <2>5 DEF EInv
<1>3. CASE VerifySignature \/ VerifyChecksum \/ EndExtract \/ VerifyManifest
  <2>1. urls \subseteq {"sum", "sig"}
    BY DEF EInv, ReleaseTypeOK
  <2> QED
    BY <1>3, <2>1, StageStep
    DEF VerifySignature, VerifyChecksum, EndExtract, VerifyManifest, Stages
<1>4. CASE SkipDirectory
  <2>1. /\ entry \in 1..Len(zip.entries) /\ entry' = entry + 1 /\ stage = "extract"
        /\ UNCHANGED <<stage, unsigned, urls, zip, staged, total, extracted>>
    BY <1>0, <1>4 DEF SkipDirectory, EInv, ReleaseTypeOK
  <2> QED
    BY <1>0, <2>1 DEF EInv, ReleaseTypeOK, Fresh, Copied, Extracting
<1>5. CASE CopyEntry
  <2> DEFINE written == IF Entry.size > PerFile THEN PerFile + 1 ELSE Entry.size
  <2>1. /\ entry \in 1..Len(zip.entries) /\ stage = "extract" /\ stage' = "copied"
        /\ Entry.name \notin {Directory, Nameless}
        /\ UNCHANGED <<unsigned, urls, zip, entry, total, extracted>>
    BY <1>0, <1>5 DEF CopyEntry, EInv, ReleaseTypeOK
  <2>2. /\ Entry.name \in Files \cup {Manifest} /\ written \in Nat
        /\ Entry.name \in {e.name : e \in Range(zip.entries)}
    BY <2>1, EntryType, ReleaseAssumption DEF EInv, ReleaseTypeOK
  <2>3. staged' = [f \in DOMAIN staged \cup {Entry.name} |->
                     IF f = Entry.name THEN written ELSE staged[f]]
    BY <1>5 DEF CopyEntry
  <2> HIDE DEF written
  <2>4. /\ DOMAIN staged' = DOMAIN staged \cup {Entry.name}
        /\ \A f \in DOMAIN staged' : staged'[f] = IF f = Entry.name THEN written ELSE staged[f]
    BY <2>3
  <2>5. ReleaseTypeOK'
    BY <2>1, <2>2, <2>4 DEF EInv, ReleaseTypeOK, Stages
  <2>6. extracted' \in Seq(DOMAIN staged')
    BY <2>1, <2>4 DEF EInv, Extracting
  <2>7. Fresh' /\ Copied' /\ Extracting'
    BY <2>1, <2>2, <2>4, <2>6 DEF EInv, Fresh, Copied, Extracting, Entry
  <2> QED
    BY <2>5, <2>7 DEF EInv
<1>6. CASE KeepEntry
  <2>1. /\ entry \in 1..Len(zip.entries) /\ Entry.name \in DOMAIN staged
        /\ stage' = "extract" /\ entry' = entry + 1
        /\ total' = total + staged[Entry.name] /\ extracted' = Append(extracted, Entry.name)
        /\ UNCHANGED <<unsigned, urls, zip, staged>>
    BY <1>6 DEF KeepEntry, EInv, Copied
  <2>2. /\ extracted' \in Seq(DOMAIN staged) /\ Len(extracted) \in Nat
        /\ Len(extracted') = Len(extracted) + 1
        /\ DOMAIN extracted' = 1..(Len(extracted) + 1)
        /\ extracted'[Len(extracted) + 1] = Entry.name
        /\ \A i \in 1..Len(extracted) : extracted'[i] = extracted[i]
    BY <2>1 DEF EInv, Extracting
  <2>3. ReleaseTypeOK'
    BY <1>0, <2>1, <2>2 DEF EInv, ReleaseTypeOK, Stages
  <2>4. \A i \in 1..Len(extracted') : \E k \in 1..Len(zip.entries) :
          k < entry + 1 /\ zip.entries[k].name = extracted'[i]
    <3> SUFFICES ASSUME NEW i \in 1..Len(extracted')
                 PROVE  \E k \in 1..Len(zip.entries) :
                          k < entry + 1 /\ zip.entries[k].name = extracted'[i]
      OBVIOUS
    <3>1. CASE i = Len(extracted) + 1
      BY <1>0, <2>1, <2>2, <3>1 DEF Entry
    <3>2. CASE i # Len(extracted) + 1
      <4>1. i \in 1..Len(extracted) /\ extracted'[i] = extracted[i]
        BY <2>2, <3>2
      <4>2. PICK k \in 1..Len(zip.entries) : k < entry /\ zip.entries[k].name = extracted[i]
        BY <4>1 DEF EInv, Extracting
      <4> QED
        BY <1>0, <2>1, <4>1, <4>2
    <3> QED
      BY <3>1, <3>2
  <2>5. Fresh' /\ Copied' /\ Extracting'
    BY <2>1, <2>2, <2>4 DEF EInv, Fresh, Copied, Extracting
  <2> QED
    BY <2>3, <2>5 DEF EInv
<1> QED
  BY <1>1, <1>2, <1>3, <1>4, <1>5, <1>6 DEF ReleaseNext

-----------------------------------------------------------------------------
(* The pipeline runs exactly while Apply waits for it.                     *)
PInv == EInv /\ TInv /\ (pc = "fetch" <=> stage # "none")

LEMMA InitPInv == UpdateInit => PInv
<1> SUFFICES ASSUME UpdateInit PROVE PInv
  OBVIOUS
<1>1. TInv
  BY InitTInv DEF UpdateInit
<1>2. EInv
  BY NothingFetched DEF UpdateInit, ReleaseInit, Stages
<1> QED
  BY <1>1, <1>2 DEF PInv, UpdateInit, Init, ReleaseInit

(* The manifest is not among the files to install, and these are files.    *)
LEMMA InstallTypes == EInv => InstallFiles \in Seq(Files)
<1> SUFFICES ASSUME EInv PROVE InstallFiles \in Seq(Files)
  OBVIOUS
<1> DEFINE rest == Without(extracted, Manifest)
<1>1. extracted \in Seq(Files \cup {Manifest})
  BY DEF EInv, Extracting
<1>2. rest \in Seq(Files \cup {Manifest}) /\ PartOf(rest, extracted, Manifest, Len(extracted))
  BY <1>1, WithoutIsPart
<1> HIDE DEF rest
<1>3. \A j \in 1..Len(rest) : rest[j] \in Files
  BY <1>2 DEF PartOf
<1>4. rest \in Seq(Files)
  BY <1>2, <1>3
<1> QED
  BY <1>4 DEF rest, InstallFiles

LEMMA NextPInv == PInv /\ [UpdateNext]_uvars => PInv'
<1> SUFFICES ASSUME PInv, [UpdateNext]_uvars PROVE PInv'
  OBVIOUS
<1>1. CASE StartUpdate
  <2>1. stage = "none" /\ zip = NoZip /\ urls = {} /\ pc' = "fetch" /\ stage' = "lookup"
    BY <1>1 DEF StartUpdate, BeginUpdate, PInv, EInv, ReleaseTypeOK
  <2>2. EInv'
    BY <1>1, <2>1 DEF StartUpdate, PInv, EInv, ReleaseTypeOK, Fresh, Copied, Extracting, Stages
  <2> QED
    BY <1>1, <2>1, <2>2, NextTInv DEF StartUpdate, PInv, Next
<1>2. CASE Fetch
  <2>1. EInv' /\ UNCHANGED vars
    BY <1>2, FetchStep DEF Fetch, PInv
  <2>2. stage # "none" /\ stage' # "none"
    BY <1>2 DEF Fetch, ReleaseNext, Lookup, DownloadZip, VerifySignature, VerifyChecksum,
       SkipDirectory, CopyEntry, KeepEntry, EndExtract, VerifyManifest
  <2> QED
    BY <2>1, <2>2, NextTInv DEF PInv, vars
<1>3. CASE Abandon \/ Kill
  <2>1. TInv' /\ pc' = "idle"
    BY <1>3, NextTInv DEF Abandon, Kill, RefuseRelease, Die, Finish, Next, PInv
  <2> QED
    BY <1>3, <2>1, ClearEInv DEF Abandon, Kill, Clear, PInv
<1>4. CASE Plan
  <2>1. TInv'
    BY <1>4, InstallTypes, PlanTypes DEF Plan, PInv
  <2>2. pc' # "fetch"
    BY <1>4 DEF Plan, PlanUpdate
  <2> QED
    BY <1>4, <2>1, <2>2, ClearEInv DEF Plan, Clear, PInv
<1>5. CASE StartRollback \/ (ReplaceFiles /\ UNCHANGED rvars) \/ (Done /\ UNCHANGED rvars)
           \/ UNCHANGED uvars
  <2>1. UNCHANGED rvars /\ [Next]_vars
    BY <1>5 DEF StartRollback, ReplaceFiles, Next, uvars
  <2>2. TInv'
    BY <2>1, NextTInv DEF PInv
  <2>3. pc = "fetch" <=> pc' = "fetch"
    BY <1>5 DEF StartRollback, BeginRollback, Finish, Done, vars, uvars, ReplaceFiles, MoveOldAside,
       MoveNewIn, BeginCopy, EndCopy, RemoveSource, RestoreRemove, RestoreMove, EndRestore,
       WriteRecord, Tidy, Proceed, GiveUp
  <2>4. EInv'
    BY <2>1 DEF rvars, PInv, EInv, ReleaseTypeOK, Fresh, Copied, Extracting, Entry
  <2> QED
    BY <2>1, <2>2, <2>3, <2>4 DEF PInv, rvars
<1> QED
  BY <1>1, <1>2, <1>3, <1>4, <1>5 DEF UpdateNext

(* Type correctness of the updater, for every server and every zip: the    *)
(* pipeline never reads past a zip's entries, hands out only files that    *)
(* are in the staging directory, and works exactly while an update has not *)
(* made its plan.                                                          *)
THEOREM UpdateTypes == UpdateSpec => []UpdateTypeOK
<1>1. PInv => UpdateTypeOK
  BY DEF PInv, EInv, TInv, UpdateTypeOK
<1> QED
  BY <1>1, InitPInv, NextPInv, PTL DEF UpdateSpec

-----------------------------------------------------------------------------
(* No zip lists a name twice (directories aside), and a release may list   *)
(* any files in any order.                                                 *)
ZipsListOnce ==
  \A z \in Zips : \A i, j \in 1..Len(z.entries) :
    z.entries[i].name = z.entries[j].name /\ z.entries[i].name # Directory => i = j

AnyRelease == Releases = {list \in Seq(Files) : Distinct(list)}

(* Then nothing is extracted twice ...                                     *)
LEMMA KeepOnce == ZipsListOnce /\ EInv /\ Distinct(extracted) /\ KeepEntry => Distinct(extracted')
<1> SUFFICES ASSUME ZipsListOnce, EInv, Distinct(extracted), KeepEntry
             PROVE  Distinct(extracted')
  OBVIOUS
<1>1. /\ entry \in 1..Len(zip.entries) /\ Entry.name \in DOMAIN staged
      /\ extracted' = Append(extracted, Entry.name)
  BY DEF KeepEntry, EInv, Copied
<1>2. /\ Len(extracted) \in Nat /\ Len(extracted') = Len(extracted) + 1
      /\ extracted'[Len(extracted) + 1] = Entry.name
      /\ \A i \in 1..Len(extracted) : extracted'[i] = extracted[i]
  BY <1>1 DEF EInv, Extracting
<1>3. Entry.name # Directory
  BY <1>1, UpdateAssumption, ReleaseAssumption DEF EInv, Extracting
<1>4. zip \in Zips
  <2>1. Len(NoZip.entries) = 0
    BY DEF NoZip
  <2> QED
    BY <1>1, <2>1 DEF EInv, ReleaseTypeOK
<1>5. \A i \in 1..Len(extracted) : extracted[i] # Entry.name
  <2> SUFFICES ASSUME NEW i \in 1..Len(extracted) PROVE extracted[i] # Entry.name
    OBVIOUS
  <2>1. PICK k \in 1..Len(zip.entries) : k < entry /\ zip.entries[k].name = extracted[i]
    BY DEF EInv, Extracting
  <2>2. k # entry
    BY <1>1, <2>1
  <2> QED
    BY <1>1, <1>3, <1>4, <2>1, <2>2 DEF ZipsListOnce, Entry
<1> QED
  BY <1>2, <1>5 DEF Distinct

(* ... and nothing is planned twice.                                       *)
LEMMA InstallOnce ==
  ASSUME EInv, Distinct(extracted) PROVE Distinct(InstallFiles)
<1> DEFINE rest == Without(extracted, Manifest)
<1>1. extracted \in Seq(Files \cup {Manifest})
  BY DEF EInv, Extracting
<1>2. rest \in Seq(Files \cup {Manifest}) /\ PartOf(rest, extracted, Manifest, Len(extracted))
  BY <1>1, WithoutIsPart
<1> HIDE DEF rest
<1>3. PICK from \in [1..Len(rest) -> 1..Len(extracted)] :
        /\ \A j \in 1..Len(rest) : rest[j] = extracted[from[j]] /\ rest[j] # Manifest
        /\ \A j, k \in 1..Len(rest) : k < j => from[k] < from[j]
  BY <1>2 DEF PartOf
<1>4. ASSUME NEW j \in 1..Len(rest), NEW k \in 1..Len(rest), rest[j] = rest[k] PROVE j = k
  <2>1. from[j] = from[k] /\ from[j] \in 1..Len(extracted)
    BY <1>3, <1>4 DEF Distinct
  <2>2. ~(from[j] < from[k]) /\ ~(from[k] < from[j])
    BY <1>1, <2>1
  <2>3. Len(rest) \in Nat /\ ~(j < k) /\ ~(k < j)
    BY <1>2, <1>3, <2>2
  <2> QED
    BY <2>3
<1> QED
  BY <1>4 DEF Distinct, rest, InstallFiles

QInv == AnyRelease /\ ZipsListOnce /\ PInv /\ Distinct(extracted)

LEMMA NextQInv == QInv /\ [UpdateNext]_uvars => QInv'
<1> SUFFICES ASSUME QInv, [UpdateNext]_uvars PROVE QInv'
  OBVIOUS
<1>1. PInv' /\ ZipsListOnce' /\ AnyRelease'
  BY NextPInv DEF QInv, ZipsListOnce, AnyRelease, Distinct
<1>2. CASE KeepEntry
  BY <1>1, <1>2, KeepOnce DEF QInv, PInv
<1>3. CASE Clear
  <2>1. Len(extracted') = 0
    BY <1>3 DEF Clear
  <2> QED
    BY <1>1, <2>1 DEF QInv, Distinct
<1>4. CASE UNCHANGED extracted
  BY <1>1, <1>4 DEF QInv, Distinct
<1> QED
  BY <1>2, <1>3, <1>4 DEF UpdateNext, StartUpdate, Fetch, ReleaseNext, Lookup, DownloadZip,
     VerifySignature, VerifyChecksum, SkipDirectory, CopyEntry, EndExtract, VerifyManifest,
     Abandon, Plan, StartRollback, Kill, uvars, rvars

LEMMA UpdateStepIsApplyStep == QInv /\ [UpdateNext]_uvars => [Next]_vars
<1> SUFFICES ASSUME QInv, [UpdateNext]_uvars PROVE [Next]_vars
  OBVIOUS
<1>1. CASE StartUpdate \/ StartRollback \/ Abandon \/ Kill
  BY <1>1 DEF StartUpdate, StartRollback, Abandon, Kill, Next
<1>2. CASE Plan
  <2>1. InstallFiles \in Releases
    BY InstallTypes, InstallOnce DEF QInv, PInv, AnyRelease
  <2> QED
    BY <1>2, <2>1 DEF Plan, Next
<1>3. CASE Fetch \/ UNCHANGED uvars
  BY <1>3 DEF Fetch, uvars
<1>4. CASE ReplaceFiles \/ Done
  BY <1>4 DEF ReplaceFiles, Next
<1> QED
  BY <1>1, <1>2, <1>3, <1>4 DEF UpdateNext

(* The pipeline that finds, verifies and extracts releases refines Apply,  *)
(* in which a release is one choice: a step of the pipeline changes        *)
(* nothing on disk, and its last one is the plan, for a list without       *)
(* repetitions of files that the zip holds.                                *)
THEOREM UpdateInstallsReleases ==
  AnyRelease /\ ZipsListOnce /\ UpdateSpec => InstallsReleases
<1>1. UpdateInit => Init
  BY DEF UpdateInit
<1>2. AnyRelease /\ ZipsListOnce /\ UpdateInit => QInv
  BY InitPInv DEF QInv, UpdateInit, ReleaseInit, Distinct
<1> QED
  BY <1>1, <1>2, NextQInv, UpdateStepIsApplyStep, PTL DEF UpdateSpec, InstallsReleases, Spec

(* So whatever the server sends, and however the update that it led to     *)
(* fails or dies: the installed version can be recovered, a rollback that  *)
(* reports success is whole, and an update that does is exact.             *)
THEOREM UpdateRecoverable ==
  Faulty \subseteq {"update"} /\ AnyRelease /\ ZipsListOnce /\ UpdateSpec =>
    [](Recoverable /\ RollbackRestores /\ UpdateInstallsAll)
<1>1. Faulty \subseteq {"update"} /\ AnyRelease => Conditions
  BY DEF Conditions, AnyRelease
<1> QED
  BY <1>1, UpdateInstallsReleases, ApplyRecoverable, ApplyRollbackRestores, ApplyInstallsAll, PTL
     DEF InstallsReleases

-----------------------------------------------------------------------------
(* Induction over the subsets of a finite set, on a set of them.           *)
LEMMA Subsets ==
  ASSUME NEW S, IsFiniteSet(S), NEW T,
         \A s \in SUBSET S : (\A x \in s : s \ {x} \in T) => s \in T
  PROVE  \A s \in SUBSET S : s \in T
<1> DEFINE Out == {s \in SUBSET S : s \notin T}
           Sizes == {Cardinality(s) : s \in Out}
<1> SUFFICES ASSUME Out # {} PROVE FALSE
  OBVIOUS
<1>1. \A s \in SUBSET S : IsFiniteSet(s) /\ Cardinality(s) \in Nat
  BY FS_Subset, FS_CardinalityType
<1>2. Sizes \in SUBSET Nat /\ Sizes # {}
  BY <1>1
<1>3. PICK m \in Sizes : \A n \in Sizes : m <= n
  <2> HIDE DEF Sizes
  <2> QED
    BY <1>2, Least
<1>4. PICK s \in Out : Cardinality(s) = m
  BY <1>3
<1>5. PICK x \in s : s \ {x} \notin T
  BY <1>4
<1>6. Cardinality(s \ {x}) = m - 1 /\ m \in Nat
  BY <1>1, <1>4, <1>5, FS_RemoveElement
<1>7. s \ {x} \in Out
  BY <1>4, <1>5
<1> QED
  BY <1>3, <1>6, <1>7

-----------------------------------------------------------------------------
(* Sums: what SumFunction says, whichever element its CHOOSE takes first.  *)
SumsTo(sum, f, S) ==
  sum = [s \in SUBSET S |-> IF s = {} THEN 0
                            ELSE f[CHOOSE x \in s : TRUE] + sum[s \ {CHOOSE x \in s : TRUE}]]

LEMMA SumIs ==
  ASSUME NEW f
  PROVE  SumFunction(f) = (CHOOSE sum : SumsTo(sum, f, DOMAIN f))[DOMAIN f]
BY Zenon DEF SumFunction, SumFunctionOnSet, FoldFunctionOnSet, MapThenFoldSet, SumsTo

LEMMA SumExists ==
  ASSUME NEW S, IsFiniteSet(S), NEW f
  PROVE  \E sum : SumsTo(sum, f, S)
<1> DEFINE c(s) == CHOOSE x \in s : TRUE
           Rec(g, s) == IF s = {} THEN 0 ELSE f[c(s)] + g[s \ {c(s)}]
           T == {n \in Nat : \E g : \A s \in SUBSET S : Cardinality(s) <= n => g[s] = Rec(g, s)}
<1>1. \A s \in SUBSET S : /\ IsFiniteSet(s) /\ Cardinality(s) \in Nat
                          /\ Cardinality(s) <= Cardinality(S)
                          /\ Cardinality(s) = 0 => s = {}
                          /\ s # {} => c(s) \in s /\ Cardinality(s \ {c(s)}) = Cardinality(s) - 1
  BY FS_Subset, FS_CardinalityType, FS_EmptySet, FS_RemoveElement
<1>2. Cardinality(S) \in Nat
  BY FS_CardinalityType
<1>3. 0 \in T
  <2> DEFINE g == [s \in SUBSET S |-> 0]
  <2>1. \A s \in SUBSET S : Cardinality(s) <= 0 => g[s] = Rec(g, s)
    BY <1>1
  <2> QED
    BY <2>1
<1>4. ASSUME NEW n \in Nat, n \in T PROVE n + 1 \in T
  <2>1. PICK g : \A s \in SUBSET S : Cardinality(s) <= n => g[s] = Rec(g, s)
    BY <1>4
  <2> DEFINE h == [s \in SUBSET S |-> IF Cardinality(s) <= n THEN g[s] ELSE Rec(g, s)]
  <2>2. ASSUME NEW s \in SUBSET S, Cardinality(s) <= n + 1 PROVE h[s] = Rec(h, s)
    <3>1. h[s] = Rec(g, s)
      BY <2>1
    <3>2. CASE s = {}
      BY <3>1, <3>2
    <3>3. CASE s # {}
      <4>1. s \ {c(s)} \in SUBSET S /\ Cardinality(s \ {c(s)}) <= n
        BY <1>1, <2>2, <3>3
      <4>2. h[s \ {c(s)}] = g[s \ {c(s)}]
        BY <4>1
      <4> QED
        BY <3>1, <3>3, <4>2
    <3> QED
      BY <3>2, <3>3
  <2> HIDE DEF h
  <2>3. \E g2 : \A s \in SUBSET S : Cardinality(s) <= n + 1 => g2[s] = Rec(g2, s)
    BY <2>2
  <2>4. n + 1 \in Nat
    OBVIOUS
  <2> HIDE DEF Rec, c
  <2> QED
    BY <2>3, <2>4
<1>5. Cardinality(S) \in T
  <2> HIDE DEF T
  <2> QED
    BY <1>2, <1>3, <1>4, UpTo
<1>6. PICK g : \A s \in SUBSET S : g[s] = Rec(g, s)
  BY <1>1, <1>5
<1> DEFINE h == [s \in SUBSET S |-> g[s]]
<1>7. SumsTo(h, f, S)
  <2>1. \A s \in SUBSET S : g[s] = Rec(h, s)
    BY <1>6
  <2> QED
    BY <2>1 DEF SumsTo
<1> QED
  BY <1>7

(* A sum function on the subsets of S: order does not matter.              *)
Sized(f, S) == \A x \in S : f[x] \in Nat

Adds(sum, f, S) ==
  /\ \A s \in SUBSET S : sum[s] \in Nat
  /\ \A s \in SUBSET S : \A x \in s : sum[s] = f[x] + sum[s \ {x}]

LEMMA SumAdds ==
  ASSUME NEW S, IsFiniteSet(S), NEW f, Sized(f, S), NEW sum, SumsTo(sum, f, S)
  PROVE  Adds(sum, f, S)
<1> DEFINE c(s) == CHOOSE x \in s : TRUE
           Added == {s \in SUBSET S : \A x \in s : sum[s] = f[x] + sum[s \ {x}]}
           Nats == {s \in SUBSET S : sum[s] \in Nat}
<1>0. \A x \in S : f[x] \in Nat
  BY DEF Sized
<1>1. \A s \in SUBSET S : sum[s] = IF s = {} THEN 0 ELSE f[c(s)] + sum[s \ {c(s)}]
  BY DEF SumsTo
<1>2. \A s \in SUBSET S : s # {} => c(s) \in s
  OBVIOUS
<1> HIDE DEF c
<1>3. sum[{}] = 0
  BY <1>1
<1>4. \A s \in SUBSET S : s \in Nats
  <2>1. ASSUME NEW s \in SUBSET S, \A x \in s : s \ {x} \in Nats PROVE s \in Nats
    <3>1. CASE s = {}
      BY <1>3, <3>1
    <3>2. CASE s # {}
      <4>1. c(s) \in s /\ f[c(s)] \in Nat /\ sum[s] = f[c(s)] + sum[s \ {c(s)}]
        BY <1>0, <1>1, <1>2, <3>2
      <4>2. sum[s \ {c(s)}] \in Nat
        BY <2>1, <4>1
      <4>3. sum[s] \in Nat
        BY <4>1, <4>2
      <4> QED
        BY <4>3
    <3> QED
      BY <3>1, <3>2
  <2> HIDE DEF Nats
  <2> QED
    BY <2>1, Subsets
<1>5. \A s \in SUBSET S : s \in Added
  <2>1. ASSUME NEW s \in SUBSET S, \A x \in s : s \ {x} \in Added PROVE s \in Added
    <3> SUFFICES ASSUME NEW x \in s PROVE sum[s] = f[x] + sum[s \ {x}]
      OBVIOUS
    <3>1. c(s) \in s /\ sum[s] = f[c(s)] + sum[s \ {c(s)}]
      BY <1>1, <1>2
    <3>2. CASE x = c(s)
      BY <3>1, <3>2
    <3>3. CASE x # c(s)
      <4> DEFINE rest == sum[(s \ {x}) \ {c(s)}]
      <4>1. s \ {c(s)} \in Added /\ s \ {x} \in Added /\ x \in s \ {c(s)} /\ c(s) \in s \ {x}
        BY <2>1, <3>1, <3>3
      <4>2. (s \ {c(s)}) \ {x} = (s \ {x}) \ {c(s)}
        OBVIOUS
      <4>3. sum[s \ {c(s)}] = f[x] + rest /\ sum[s \ {x}] = f[c(s)] + rest
        BY <4>1, <4>2
      <4>4. rest \in Nat /\ f[x] \in Nat /\ f[c(s)] \in Nat
        BY <1>0, <1>4, <3>1
      <4> HIDE DEF rest
      <4> QED
        BY <3>1, <4>3, <4>4
    <3> QED
      BY <3>2, <3>3
  <2> HIDE DEF Added
  <2> QED
    BY <2>1, Subsets
<1> QED
  BY <1>4, <1>5 DEF Adds

(* Functions that agree on a set have the same sum over it.                *)
Alike(f, g, D) == \A x \in D : f[x] = g[x]

LEMMA SumLocal ==
  ASSUME NEW D, IsFiniteSet(D), NEW S, D \subseteq S, NEW R, D \subseteq R,
         NEW f, NEW g, Alike(f, g, D),
         NEW sum, NEW tot, SumsTo(sum, f, S), SumsTo(tot, g, R)
  PROVE  sum[D] = tot[D]
<1> DEFINE Same == {s \in SUBSET D : sum[s] = tot[s]}
           c(s) == CHOOSE x \in s : TRUE
<1>1. \A s \in SUBSET D :
        /\ sum[s] = IF s = {} THEN 0 ELSE f[c(s)] + sum[s \ {c(s)}]
        /\ tot[s] = IF s = {} THEN 0 ELSE g[c(s)] + tot[s \ {c(s)}]
  BY DEF SumsTo
<1>2. \A s \in SUBSET D : s # {} => c(s) \in s
  OBVIOUS
<1> HIDE DEF c
<1>3. ASSUME NEW s \in SUBSET D, \A x \in s : s \ {x} \in Same PROVE s \in Same
  <2>1. CASE s = {}
    BY <1>1, <2>1
  <2>2. CASE s # {}
    <3>1. c(s) \in s /\ f[c(s)] = g[c(s)]
      BY <1>2, <2>2 DEF Alike
    <3>2. sum[s \ {c(s)}] = tot[s \ {c(s)}]
      BY <1>3, <3>1
    <3>3. sum[s] = f[c(s)] + sum[s \ {c(s)}] /\ tot[s] = g[c(s)] + tot[s \ {c(s)}]
      BY <1>1, <2>2
    <3> QED
      BY <3>1, <3>2, <3>3
  <2> QED
    BY <2>1, <2>2
<1>5. \A s \in SUBSET D : s \in Same
  <2> HIDE DEF Same
  <2> QED
    BY <1>3, Subsets
<1> QED
  BY <1>5

(* What SumFunction of a function with sizes is made of.                   *)
LEMMA SumParts ==
  ASSUME NEW D, IsFiniteSet(D), NEW f, DOMAIN f = D, Sized(f, D)
  PROVE  \E sum : SumsTo(sum, f, D) /\ SumFunction(f) = sum[D] /\ Adds(sum, f, D)
<1> DEFINE sum == CHOOSE s : SumsTo(s, f, D)
<1>1. SumsTo(sum, f, D)
  BY SumExists
<1>2. SumFunction(f) = sum[D]
  BY SumIs
<1> HIDE DEF sum
<1>3. Adds(sum, f, D)
  BY <1>1, SumAdds
<1> QED
  BY <1>1, <1>2, <1>3

(* A file that is written anew adds its own size to the sum of the others, *)
(* and so at most its own size to the sum.                                 *)
LEMMA SumWritten ==
  ASSUME NEW D, IsFiniteSet(D), NEW f, DOMAIN f = D, Sized(f, D),
         NEW x, NEW w \in Nat,
         NEW g, DOMAIN g = D \cup {x}, g[x] = w, Alike(f, g, D \ {x})
  PROVE  /\ SumFunction(f) \in Nat
         /\ SumFunction(g) \in Nat /\ SumFunction(g) <= SumFunction(f) + w
<1> DEFINE R == D \cup {x}
           Others == D \ {x}
<1>1. /\ IsFiniteSet(R) /\ DOMAIN g = R /\ Sized(g, R)
      /\ x \in R /\ R \ {x} = Others /\ Others \subseteq R /\ Others \subseteq D
  BY FS_AddElement DEF Sized, Alike
<1>2. IsFiniteSet(Others)
  BY FS_Subset
<1> HIDE DEF R
<1>3. PICK sum : SumsTo(sum, f, D) /\ SumFunction(f) = sum[D] /\ Adds(sum, f, D)
  BY SumParts
<1>4. PICK tot : SumsTo(tot, g, R) /\ SumFunction(g) = tot[R] /\ Adds(tot, g, R)
  BY <1>1, SumParts
<1>5. tot[R] \in Nat /\ tot[R] = w + tot[Others] /\ tot[Others] \in Nat
  <2> HIDE DEF Others
  <2>1. \A s \in SUBSET R : tot[s] \in Nat
    BY <1>4, Zenon DEF Adds
  <2>2. \A y \in R : tot[R] = g[y] + tot[R \ {y}]
    BY <1>4, Zenon DEF Adds
  <2>3. tot[R] = g[x] + tot[R \ {x}]
    BY <1>1, <2>2, Zenon
  <2>4. tot[R] \in Nat /\ tot[Others] \in Nat
    BY <1>1, <2>1
  <2> QED
    BY <1>1, <2>3, <2>4
<1>6. /\ sum[D] \in Nat /\ sum[Others] \in Nat
      /\ x \in D => f[x] \in Nat /\ sum[D] = f[x] + sum[Others]
  BY <1>3 DEF Adds, Sized
<1>8. sum[Others] = tot[Others]
  <2> HIDE DEF Others
  <2>1. Alike(f, g, Others)
    BY DEF Others
  <2> QED
    BY <1>1, <1>2, <1>3, <1>4, <2>1, SumLocal
<1>7. sum[Others] <= sum[D]
  <2>1. CASE x \in D
    BY <1>6, <2>1
  <2>2. CASE x \notin D
    <3>1. Others = D
      BY <2>2
    <3> QED
      BY <1>6, <3>1
  <2> QED
    BY <2>1, <2>2
<1> HIDE DEF Others
<1> QED
  BY <1>3, <1>4, <1>5, <1>6, <1>7, <1>8

LEMMA SumNothing == SumFunction(<<>>) = 0
<1> DEFINE D == {}
<1>1. DOMAIN <<>> = D
  OBVIOUS
<1>2. PICK sum : SumsTo(sum, <<>>, D) /\ SumFunction(<<>>) = sum[D]
  BY <1>1, SumIs, SumExists, FS_EmptySet
<1> QED
  BY <1>2 DEF SumsTo

-----------------------------------------------------------------------------
(* What extract_zip writes: the files that it has checked are within the   *)
(* limits and in its count, and the one that it has not is a byte over the *)
(* limit of a file at most.                                                *)
Limited ==
  /\ IsFiniteSet(DOMAIN staged)
  /\ total <= Total
  /\ \A f \in DOMAIN staged : staged[f] <= PerFile \/ (stage = "copied" /\ f = Entry.name)
  /\ IF stage = "copied"
       THEN SumFunction(staged) <= total + staged[Entry.name] /\ staged[Entry.name] <= PerFile + 1
       ELSE SumFunction(staged) <= total

LInv == PInv /\ Limited

LEMMA NothingLimited ==
  ASSUME staged = <<>>, total = 0, stage # "copied" PROVE Limited
<1>1. DOMAIN staged = {} /\ SumFunction(staged) = 0
  BY SumNothing
<1> QED
  BY <1>1, FS_EmptySet, ReleaseAssumption DEF Limited

(* An overwritten file counts twice in total, and never too little.        *)
LEMMA CopyLimited == EInv /\ Limited /\ CopyEntry => Limited'
<1> SUFFICES ASSUME EInv, Limited, CopyEntry PROVE Limited'
  OBVIOUS
<1> DEFINE written == IF Entry.size > PerFile THEN PerFile + 1 ELSE Entry.size
           name == Entry.name
<1>1. /\ entry \in 1..Len(zip.entries) /\ stage = "extract" /\ stage' = "copied"
      /\ UNCHANGED <<zip, entry, total>> /\ total \in Nat
  BY ZipTypes DEF CopyEntry, EInv, ReleaseTypeOK
<1>2. written \in Nat /\ written <= PerFile + 1
  BY <1>1, EntryType, ReleaseAssumption DEF EInv, ReleaseTypeOK
<1>3. staged' = [f \in DOMAIN staged \cup {name} |-> IF f = name THEN written ELSE staged[f]]
  BY DEF CopyEntry
<1>4. Entry' = Entry
  BY <1>1 DEF Entry
<1> HIDE DEF written, name
<1>5. /\ DOMAIN staged' = DOMAIN staged \cup {name} /\ staged'[name] = written
      /\ \A f \in DOMAIN staged \ {name} : staged'[f] = staged[f]
  BY <1>3
<1>6. Sized(staged, DOMAIN staged) /\ Alike(staged, staged', DOMAIN staged \ {name})
  BY <1>5 DEF EInv, ReleaseTypeOK, Sized, Alike
<1>7. IsFiniteSet(DOMAIN staged) /\ IsFiniteSet(DOMAIN staged')
  BY <1>5, FS_AddElement DEF Limited
<1>8. /\ SumFunction(staged) \in Nat /\ SumFunction(staged') \in Nat
      /\ SumFunction(staged') <= SumFunction(staged) + written
  BY <1>2, <1>5, <1>6, <1>7, SumWritten
<1>9. SumFunction(staged) <= total
  BY <1>1 DEF Limited
<1>10. SumFunction(staged') <= total + written
  BY <1>1, <1>2, <1>8, <1>9
<1>11. \A f \in DOMAIN staged' : staged'[f] <= PerFile \/ f = name
  BY <1>1, <1>5 DEF Limited
<1>12. Entry'.name = name
  BY <1>4 DEF name
<1> QED
  BY <1>1, <1>2, <1>5, <1>7, <1>10, <1>11, <1>12 DEF Limited

LEMMA KeepLimited == EInv /\ Limited /\ KeepEntry => Limited'
<1> SUFFICES ASSUME EInv, Limited, KeepEntry PROVE Limited'
  OBVIOUS
<1> DEFINE written == staged[Entry.name]
<1>1. /\ stage = "copied" /\ stage' = "extract" /\ UNCHANGED staged
      /\ written <= PerFile /\ total + written <= Total /\ total' = total + written
  BY DEF KeepEntry
<1>2. SumFunction(staged) <= total + written /\ IsFiniteSet(DOMAIN staged)
      /\ \A f \in DOMAIN staged : staged[f] <= PerFile
  BY <1>1 DEF Limited
<1> HIDE DEF written
<1> QED
  BY <1>1, <1>2 DEF Limited

LEMMA NextLInv == LInv /\ [UpdateNext]_uvars => LInv'
<1> SUFFICES ASSUME LInv, [UpdateNext]_uvars PROVE LInv'
  OBVIOUS
<1>1. PInv' /\ EInv
  BY NextPInv DEF LInv, PInv
<1>2. CASE CopyEntry
  BY <1>1, <1>2, CopyLimited DEF LInv
<1>3. CASE KeepEntry
  BY <1>1, <1>3, KeepLimited DEF LInv
<1>4. CASE Clear
  <2>1. staged' = <<>> /\ total' = 0 /\ stage' # "copied"
    BY <1>4 DEF Clear
  <2>2. DOMAIN staged' = {} /\ SumFunction(staged') = 0
    BY <2>1, SumNothing
  <2>3. Limited'
    BY <2>1, <2>2, FS_EmptySet, ReleaseAssumption DEF Limited
  <2> QED
    BY <1>1, <2>3 DEF LInv
<1>5. CASE stage # "copied" /\ stage' # "copied" /\ UNCHANGED <<staged, total>>
  BY <1>1, <1>5 DEF LInv, Limited
<1>6. CASE UNCHANGED rvars
  BY <1>1, <1>6 DEF LInv, Limited, rvars, Entry
<1>7. CASE StartUpdate
  <2>1. stage = "none"
    BY <1>7 DEF StartUpdate, BeginUpdate, LInv, PInv
  <2> QED
    BY <1>5, <1>7, <2>1 DEF StartUpdate
<1> QED
  BY <1>2, <1>3, <1>4, <1>5, <1>6, <1>7 DEF UpdateNext, Fetch, ReleaseNext, Lookup, DownloadZip,
     VerifySignature, VerifyChecksum, SkipDirectory, EndExtract, VerifyManifest,
     Abandon, Plan, StartRollback, Kill, uvars

(* Zip bombs, whatever the entries claim and however many there are: the   *)
(* staging directory never holds more than one file over the limits, and   *)
(* what is installed is within them.                                       *)
THEOREM UpdateStagedWithinLimits == UpdateSpec => []StagedWithinLimits
<1>1. LInv => StagedWithinLimits
  <2> SUFFICES ASSUME LInv PROVE StagedWithinLimits
    OBVIOUS
  <2> DEFINE bytes == SumFunction(staged)
  <2>1. EInv /\ total \in Nat /\ (stage = "copied" => staged[Entry.name] \in Nat)
    BY DEF LInv, PInv, EInv, ReleaseTypeOK, Copied
  <2>2. bytes \in Nat
    <3>1. Sized(staged, DOMAIN staged) /\ IsFiniteSet(DOMAIN staged)
      BY <2>1 DEF EInv, ReleaseTypeOK, Sized, LInv, Limited
    <3>2. DOMAIN staged \in SUBSET DOMAIN staged
      OBVIOUS
    <3> QED
      BY <3>1, <3>2, SumParts DEF Adds
  <2> HIDE DEF bytes
  <2>3. bytes <= Total + PerFile + 1
    BY <2>1, <2>2, ReleaseAssumption DEF LInv, Limited, bytes
  <2>4. stage = "plan" => bytes <= Total /\ \A f \in DOMAIN staged : staged[f] <= PerFile
    BY <2>1, <2>2, ReleaseAssumption DEF LInv, Limited, bytes
  <2> QED
    BY <2>3, <2>4 DEF StagedWithinLimits, bytes
<1>2. UpdateInit => LInv
  BY InitPInv, NothingLimited DEF UpdateInit, ReleaseInit, LInv
<1> QED
  BY <1>1, <1>2, NextLInv, PTL DEF UpdateSpec
=============================================================================
