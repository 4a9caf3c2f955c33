------------------------------ MODULE Release ------------------------------
(***************************************************************************)
(* What the updater does before it touches the program's files: it looks a *)
(* release up (updater/src/github.rs), downloads its zip, verifies the     *)
(* zip's signature and checksum, extracts it within limits                 *)
(* (updater/src/assets.rs) and holds the files against the manifest        *)
(* (perform_update in updater/src/lib.rs).                                 *)
(*                                                                         *)
(* The server is asked anew for every asset, and may have changed what it  *)
(* hands out since it was asked for the release.                           *)
(***************************************************************************)
EXTENDS Naturals, Sequences, FiniteSetsExt, SequencesExt

CONSTANTS
  Versions,    \* versions of releases; a release may have a tag that is none
  Listings,    \* what the server may list: sequences of releases, latest first
  Zips,        \* what a download may bring
  Published,   \* the zips that checksum assets are about
  Signed,      \* the zips that signature assets are about
  HasKey,      \* whether the updater was built with UPDATE_PUBKEY_HEX
  PerFile,     \* ZIP_PER_FILE_LIMIT, in units of the model
  Total,       \* ZIP_TOTAL_LIMIT
  Manifest,    \* the name version.json
  Directory,   \* the "name" of an entry that is a directory
  Nameless     \* the "name" of an entry whose path ends in no file name

ASSUME ReleaseAssumption ==
  /\ Versions \subseteq Nat
  /\ Signed \subseteq Published /\ Published \subseteq Zips
  /\ HasKey \in BOOLEAN
  /\ PerFile \in Nat /\ Total \in Nat
  /\ Manifest # Directory /\ Manifest # Nameless /\ Directory # Nameless
  /\ \A list \in Listings :
       /\ list \in Seq(Range(list))
       /\ \A r \in Range(list) : r.assets \subseteq {"zip", "sum", "sig"}

VARIABLES
  stage,      \* where perform_update is
  unsigned,   \* --allow-unsigned
  urls,       \* UpdateInfo: which of the optional assets "sum" and "sig" it has
  zip,        \* what was downloaded
  entry,      \* index of the entry that extract_zip is at
  staged,     \* the staging directory: names and sizes of its files
  total,      \* total_written
  extracted   \* names that extract_zip returns

rvars == <<stage, unsigned, urls, zip, entry, staged, total, extracted>>

NoZip == [entries |-> <<>>, readable |-> FALSE, wrong |-> {}]

Stages == {"none", "lookup", "download", "signature", "checksum", "extract",
           "copied", "manifest", "plan"}

ReleaseTypeOK ==
  /\ stage \in Stages
  /\ unsigned \in BOOLEAN
  /\ urls \subseteq {"sum", "sig"}
  /\ zip \in Zips \cup {NoZip}
  /\ entry \in 1..(Len(zip.entries) + 1)
  /\ \A f \in DOMAIN staged : f \in {e.name : e \in Range(zip.entries)} /\ staged[f] \in Nat
  /\ total \in Nat
  /\ \A i \in DOMAIN extracted : extracted[i] \in DOMAIN staged
  /\ stage = "none" => zip = NoZip /\ ~unsigned /\ urls = {}

(* No release is being fetched.                                            *)
Clear ==
  /\ stage' = "none" /\ unsigned' = FALSE /\ urls' = {} /\ zip' = NoZip
  /\ entry' = 1 /\ staged' = <<>> /\ total' = 0 /\ extracted' = <<>>

ReleaseInit ==
  /\ stage = "none" /\ unsigned = FALSE /\ urls = {} /\ zip = NoZip
  /\ entry = 1 /\ staged = <<>> /\ total = 0 /\ extracted = <<>>

-----------------------------------------------------------------------------
(* The server's answers.  A listing is a sequence of [tag, pre, assets].   *)
First(list) == IF list = <<>> THEN {} ELSE {Head(list)}

(* releases/latest: the first that is no prerelease, or 404.               *)
LatestStable(list) ==
  {list[i] : i \in {j \in DOMAIN list : ~list[j].pre /\ \A k \in 1..(j - 1) : list[k].pre}}

FetchLatestRelease(list, pre) == IF pre THEN First(list) ELSE LatestStable(list)

Nothing == [found |-> "nothing", urls |-> {}]
Bad == [found |-> "error", urls |-> {}]

(* A release whose tag is no version, or that lacks its zip, is an error.  *)
Info(r) ==
  IF r.tag \in Versions /\ "zip" \in r.assets
    THEN [found |-> "info", urls |-> r.assets \ {"zip"}]
    ELSE Bad

(* Mutant of CheckForUpdate: the installed version is an update, too.      *)
CheckForUpdateOrSame(list, current, pre) ==
  LET release == FetchLatestRelease(list, pre) IN
  IF \E r \in release : r.tag \notin Versions \/ r.tag >= current
    THEN Info(CHOOSE r \in release : TRUE)
    ELSE Nothing

CheckForUpdate(list, current, pre) ==
  LET release == FetchLatestRelease(list, pre) IN
  IF \E r \in release : r.tag \notin Versions \/ r.tag > current
    THEN Info(CHOOSE r \in release : TRUE)
    ELSE Nothing

(* perform_update with --force: any version will do.                       *)
ForcedLookup(list, pre) ==
  LET release == FetchLatestRelease(list, pre) IN
  IF release = {} THEN Bad ELSE Info(CHOOSE r \in release : TRUE)

(* The addon's own checkForUpdate, which looks at no asset.                *)
AddonCheck(list, current) ==
  LET release == LatestStable(list) IN
  [error |-> \E r \in release : r.tag \notin Versions,
   available |-> \E r \in release : r.tag \in Versions /\ r.tag > current]

-----------------------------------------------------------------------------
Lookup ==
  /\ stage = "lookup"
  /\ \E list \in Listings, current \in Versions, pre, force \in BOOLEAN :
       LET info == IF force THEN ForcedLookup(list, pre)
                            ELSE CheckForUpdate(list, current, pre)
       IN  info.found = "info" /\ urls' = info.urls
  /\ stage' = "download"
  /\ UNCHANGED <<unsigned, zip, entry, staged, total, extracted>>

DownloadZip ==
  /\ stage = "download"
  /\ zip' \in Zips
  /\ stage' = "signature"
  /\ UNCHANGED <<unsigned, urls, entry, staged, total, extracted>>

(* verify_signature, on the signature asset as it is served now: it is the *)
(* publisher's for these bytes, or it fails.                               *)
SignatureVerifies == zip \in Signed

(* download_checksum and verify_checksum.                                  *)
ChecksumMatches == zip \in Published

(* Mutant of VerifySignature: --allow-unsigned skips what could be done.   *)
VerifySignatureOrSkip ==
  /\ stage = "signature"
  /\ unsigned \/ (HasKey /\ "sig" \in urls /\ SignatureVerifies)
  /\ stage' = "checksum"
  /\ UNCHANGED <<unsigned, urls, zip, entry, staged, total, extracted>>

(* With a key in the updater and a signature among the assets the zip is   *)
(* verified, --allow-unsigned or not.                                      *)
VerifySignature ==
  /\ stage = "signature"
  /\ IF HasKey /\ "sig" \in urls THEN SignatureVerifies ELSE unsigned
  /\ stage' = "checksum"
  /\ UNCHANGED <<unsigned, urls, zip, entry, staged, total, extracted>>

VerifyChecksum ==
  /\ stage = "checksum"
  /\ "sum" \in urls => ChecksumMatches
  /\ stage' = "extract"
  /\ UNCHANGED <<unsigned, urls, zip, entry, staged, total, extracted>>

-----------------------------------------------------------------------------
Entry == zip.entries[entry]

(* extract_zip on an entry: what it claims is checked, and no more than a  *)
(* byte over the limit is copied, whatever it claims.                      *)
SkipDirectory ==
  /\ stage = "extract" /\ entry <= Len(zip.entries)
  /\ Entry.name = Directory
  /\ entry' = entry + 1
  /\ UNCHANGED <<stage, unsigned, urls, zip, staged, total, extracted>>

(* Mutant of CopyEntry: the entry's word is taken for its size.            *)
CopyEntryTrusting ==
  /\ stage = "extract" /\ entry <= Len(zip.entries)
  /\ Entry.name \notin {Directory, Nameless}
  /\ Entry.claimed <= PerFile /\ total + Entry.claimed <= Total
  /\ staged' = [f \in DOMAIN staged \cup {Entry.name} |->
                  IF f = Entry.name THEN Entry.size ELSE staged[f]]
  /\ stage' = "copied"
  /\ UNCHANGED <<unsigned, urls, zip, entry, total, extracted>>

CopyEntry ==
  /\ stage = "extract" /\ entry <= Len(zip.entries)
  /\ Entry.name \notin {Directory, Nameless}
  /\ Entry.claimed <= PerFile /\ total + Entry.claimed <= Total
  /\ LET written == IF Entry.size > PerFile THEN PerFile + 1 ELSE Entry.size IN
       staged' = [f \in DOMAIN staged \cup {Entry.name} |->
                    IF f = Entry.name THEN written ELSE staged[f]]
  /\ stage' = "copied"
  /\ UNCHANGED <<unsigned, urls, zip, entry, total, extracted>>

(* What was written is checked in its turn.  Over a limit, the file goes,  *)
(* and so does the update: no step here lets it pass.                      *)
KeepEntry ==
  /\ stage = "copied"
  /\ LET written == staged[Entry.name] IN
       /\ written <= PerFile /\ total + written <= Total
       /\ total' = total + written
  /\ extracted' = Append(extracted, Entry.name)
  /\ entry' = entry + 1
  /\ stage' = "extract"
  /\ UNCHANGED <<unsigned, urls, zip, staged>>

EndExtract ==
  /\ stage = "extract" /\ entry > Len(zip.entries)
  /\ stage' = "manifest"
  /\ UNCHANGED <<unsigned, urls, zip, entry, staged, total, extracted>>

(* version.json, when there is one: every file that it names and that was  *)
(* extracted has the hash it gives.                                        *)
VerifyManifest ==
  /\ stage = "manifest"
  /\ Manifest \in DOMAIN staged => zip.readable /\ zip.wrong \cap DOMAIN staged = {}
  /\ stage' = "plan"
  /\ UNCHANGED <<unsigned, urls, zip, entry, staged, total, extracted>>

(* What is left of a list without one name.  (A recursive function, and    *)
(* not SequencesExt!Remove, for the proofs' sake.)                         *)
Without(list, dropped) ==
  LET kept[i \in 0..Len(list)] ==
        IF i = 0 THEN <<>>
        ELSE IF list[i] = dropped THEN kept[i - 1]
        ELSE Append(kept[i - 1], list[i])
  IN  kept[Len(list)]

(* The files to install.                                                   *)
InstallFiles == Without(extracted, Manifest)

ReleaseNext ==
  \/ Lookup \/ DownloadZip \/ VerifySignature \/ VerifyChecksum
  \/ SkipDirectory \/ CopyEntry \/ KeepEntry \/ EndExtract
  \/ VerifyManifest
=============================================================================
