----------------------------- MODULE Handlers -----------------------------
(***************************************************************************)
(* One biometric command on an open SecuGen device, call by call into the  *)
(* vendor library, any of which may fail: the handlers of the bridge       *)
(* process (bridge/src/main.rs), or the same operations of the in-process  *)
(* backend of Linux and macOS (native.rs).                                 *)
(*                                                                         *)
(* A buffer is only whether it still holds biometric data.  Of the sizes   *)
(* that the device reports, only whether they are sane, that is, whether   *)
(* the backend goes on with them.  native.rs refuses all that are not      *)
(* positive.  The bridge allocates what they become as a usize, and dies   *)
(* of one that is negative -- but not of zero, nor of a width and a height *)
(* that are both negative, whose product is not.                           *)
(***************************************************************************)
EXTENDS Integers, Sequences

CONSTANTS
  Kinds,        \* commands issued, of capture, enroll, verify, identify, get_quality
  SampleArgs,   \* values of enroll's argument `samples`
  Qualities,    \* what the library may say of an image
  MinQualities, \* values of capture's argument `min_quality`
  Scores,       \* what it may say of two templates
  MaxGallery    \* largest gallery given to identify (bound)

ASSUME HandlersAssumption ==
  /\ Kinds \subseteq {"capture", "enroll", "verify", "identify", "get_quality"}
  /\ SampleArgs \subseteq 0..255
  /\ Qualities \subseteq Nat
  /\ MinQualities \subseteq 0..255
  /\ Scores \subseteq Nat
  /\ MaxGallery \in Nat

VARIABLES
  backend,   \* "bridge" or "native"
  kind,      \* the command
  min,       \* threshold that capture_image applies
  samples,   \* images that enroll will take
  gallery,   \* number of templates given; users are numbered in that order
  sane,      \* sizes reported by the device that the backend goes on with
  pc,
  seen,      \* qualities of the images that passed, in order
  scores,    \* scores obtained, in the gallery's order
  best,      \* best_template's sample, or best_user_id: an index, 0 for None
  bestValue, \* best_quality or best_score
  held,      \* buffers in use that hold biometric data
  residue,   \* buffers given back to the allocator with their data
  reply      \* what the operation answers

vars == <<backend, kind, min, samples, gallery, sane, pc, seen, scores, best, bestValue,
          held, residue, reply>>

arguments == <<backend, kind, min, samples, gallery, sane>>

Sizes == {"image", "template"}

Buffers == {"image", "template", "best", "command"}

NoReply == [result |-> "none", chosen |-> 0, matched |-> FALSE]

TypeOK ==
  /\ backend \in {"bridge", "native"}
  /\ kind \in Kinds
  /\ min \in 0..255
  /\ samples \in 1..255
  /\ gallery \in 0..MaxGallery
  /\ sane \subseteq Sizes
  /\ pc \in {"start", "image", "quality", "template", "score", "match", "answered",
             "done", "dead"}
  /\ seen \in Seq(0..255) /\ Len(seen) <= samples
  /\ scores \in Seq(Scores) /\ Len(scores) <= gallery
  /\ best \in Nat
  /\ bestValue \in Int
  /\ held \subseteq Buffers
  /\ residue \subseteq Buffers
  /\ reply \in [result : {"none", "ok", "error"}, chosen : Nat, matched : BOOLEAN]

DEFAULT_ENROLL_SAMPLES == 3
DEFAULT_MIN_QUALITY == 60

(* Templates and images that came with a command are the bridge's to wipe; *)
(* those given to the native backend belong to its caller.                 *)
CommandBuffers ==
  IF backend = "bridge" /\ kind \in {"verify", "identify", "get_quality"}
    THEN {"command"} ELSE {}

Init ==
  /\ backend \in {"bridge", "native"}
  /\ kind \in Kinds
  /\ IF kind = "capture" THEN min \in MinQualities ELSE min = DEFAULT_MIN_QUALITY
  /\ IF kind = "enroll"
       THEN \E n \in SampleArgs : samples = IF n = 0 THEN DEFAULT_ENROLL_SAMPLES ELSE n
       ELSE samples = 1
  /\ \/ kind = "identify" /\ gallery \in 0..MaxGallery
     \/ kind = "verify" /\ gallery \in {1} \cap 0..MaxGallery
     \/ kind \notin {"identify", "verify"} /\ gallery = 0
  /\ sane \in SUBSET Sizes
  /\ pc = "start"
  /\ seen = <<>> /\ scores = <<>> /\ best = 0
  /\ bestValue = IF kind = "enroll" THEN -1 ELSE 0
  /\ held = CommandBuffers /\ residue = {} /\ reply = NoReply

-----------------------------------------------------------------------------
(* Mutant of AsU8: no truncation.                                          *)
AsLong(q) == q

(* quality as u8                                                           *)
AsU8(q) == q % 256

(* Mutant of Better: the later of equals wins.                             *)
NotWorse(value) == value >= bestValue

Better(value) == value > bestValue

(* Mutant of ResponseBuffers: an enrolled template is forgotten.           *)
ScanResultBuffers == IF kind = "capture" THEN {"image", "template"} ELSE {}

(* What the response owns: zeroize_response wipes it once it is written,   *)
(* and the native backend gives it to its caller.                          *)
ResponseBuffers ==
  {b \in Buffers : \/ kind = "capture" /\ b \in {"image", "template"}
                   \/ kind = "enroll" /\ b = "best"}

(* An early return: what is wiped is wiped, all else but the command is    *)
(* dropped as it is.                                                       *)
ReturnError(wiped) ==
  /\ reply' = [NoReply EXCEPT !.result = "error"]
  /\ residue' = residue \cup (held \ (wiped \cup CommandBuffers))
  /\ held' = CommandBuffers
  /\ pc' = "answered"

(* The bridge panics; its memory goes back to the system.                  *)
Panic ==
  /\ pc' = "dead" /\ held' = {}
  /\ reply' = [NoReply EXCEPT !.result = "error"]
  /\ UNCHANGED residue

(* A buffer is allocated whose size the backend does not go on with.       *)
RefuseSize == IF backend = "native" THEN ReturnError({}) ELSE Panic

ReturnOk(chosen, matched) ==
  /\ reply' = [result |-> "ok", chosen |-> chosen, matched |-> matched]
  /\ pc' = "answered"
  /\ UNCHANGED residue

(* identify refuses an empty gallery before it touches the device.         *)
Begin ==
  /\ pc = "start" /\ kind # "get_quality"
  /\ IF kind = "identify" /\ gallery = 0
       THEN ReturnError({})
       ELSE pc' = "image" /\ UNCHANGED <<held, residue, reply>>
  /\ UNCHANGED <<arguments, seen, scores, best, bestValue>>

(* get_quality looks at an image that came with the command.               *)
ScoreImage ==
  /\ pc = "start" /\ kind = "get_quality"
  /\ ReturnError({}) \/ (ReturnOk(0, FALSE) /\ UNCHANGED held)
  /\ UNCHANGED <<arguments, seen, scores, best, bestValue>>

(* capture_image: get_image_ex, the image's quality, the threshold.        *)
GetImage ==
  /\ pc = "image"
  /\ IF "image" \notin sane THEN RefuseSize
     ELSE \/ pc' = "quality" /\ held' = held \cup {"image"} /\ UNCHANGED <<residue, reply>>
          \/ ReturnError({})
  /\ UNCHANGED <<arguments, seen, scores, best, bestValue>>

GetQuality ==
  /\ pc = "quality"
  /\ \/ /\ ReturnError({})
        /\ UNCHANGED seen
     \/ \E q \in Qualities :
          IF AsU8(q) < min
            THEN ReturnError({}) /\ UNCHANGED seen
            ELSE /\ seen' = Append(seen, AsU8(q))
                 /\ pc' = "template" /\ UNCHANGED <<held, residue, reply>>
  /\ UNCHANGED <<arguments, scores, best, bestValue>>

(* Which buffers a failed create_template wipes: the native backend none,  *)
(* the bridge the image, except in capture.                                *)
WipedOnTemplateError ==
  IF backend = "bridge" /\ kind # "capture" THEN {"image"} ELSE {}

TemplateFails ==
  /\ pc = "template"
  /\ IF "template" \notin sane /\ backend = "bridge"
       THEN Panic
       ELSE ReturnError(WipedOnTemplateError)
  /\ UNCHANGED <<arguments, seen, scores, best, bestValue>>

TemplateMade == pc = "template" /\ "template" \in sane

(* capture hands image and template over to the response.                  *)
CaptureTemplate ==
  /\ TemplateMade /\ kind = "capture"
  /\ held' = held \cup {"template"}
  /\ ReturnOk(1, FALSE)
  /\ UNCHANGED <<arguments, seen, scores, best, bestValue>>

(* enroll keeps the better of the best template so far and this one, wipes *)
(* the other and the image, and goes on to the next sample.                *)
EnrollTemplate ==
  /\ TemplateMade /\ kind = "enroll"
  /\ LET better == Better(seen[Len(seen)])
         chosen == IF better THEN Len(seen) ELSE best
     IN  /\ best' = chosen
         /\ bestValue' = IF better THEN seen[Len(seen)] ELSE bestValue
         /\ held' = {"best"}
         /\ IF Len(seen) < samples
              THEN pc' = "image" /\ UNCHANGED <<residue, reply>>
              ELSE ReturnOk(chosen, FALSE)
  /\ UNCHANGED <<arguments, seen, scores>>

MatchTemplate ==
  /\ TemplateMade /\ kind \in {"verify", "identify"}
  /\ held' = CommandBuffers \cup
              (IF backend = "native" THEN {"template"} ELSE {"image", "template"})
  /\ pc' = "score"
  /\ UNCHANGED <<arguments, seen, scores, best, bestValue, residue, reply>>

(* One template of the gallery is scored.  verify goes on with its only    *)
(* one, identify with the best one if any scored above zero.               *)
Score ==
  /\ pc = "score" /\ Len(scores) < gallery
  /\ \/ /\ ReturnError(held)
        /\ UNCHANGED <<scores, best, bestValue>>
     \/ /\ \E s \in Scores :
             /\ scores' = Append(scores, s)
             /\ IF Better(s) \/ kind = "verify"
                  THEN best' = Len(scores) + 1 /\ bestValue' = s
                  ELSE UNCHANGED <<best, bestValue>>
        /\ UNCHANGED <<pc, held, residue, reply>>
  /\ UNCHANGED <<arguments, seen>>

EndOfGallery ==
  /\ pc = "score" /\ Len(scores) = gallery
  /\ IF best = 0
       THEN held' = CommandBuffers /\ ReturnOk(0, FALSE)
       ELSE pc' = "match" /\ UNCHANGED <<held, residue, reply>>
  /\ UNCHANGED <<arguments, seen, scores, best, bestValue>>

(* match_template decides; the user is named only if it says yes.          *)
Match ==
  /\ pc = "match"
  /\ \/ ReturnError(held)
     \/ /\ \E matched \in BOOLEAN : ReturnOk(IF matched THEN best ELSE 0, matched)
        /\ held' = CommandBuffers
  /\ UNCHANGED <<arguments, seen, scores, best, bestValue>>

(* The reply is written, or returned; it is wiped, and so is the command,  *)
(* and what is neither is dropped.                                         *)
AfterReply ==
  /\ pc = "answered"
  /\ pc' = "done" /\ held' = {}
  /\ residue' = residue \cup (held \ (ResponseBuffers \cup CommandBuffers))
  /\ UNCHANGED <<arguments, seen, scores, best, bestValue, reply>>

Handle ==
  \/ Begin \/ ScoreImage \/ GetImage \/ GetQuality \/ TemplateFails \/ CaptureTemplate
  \/ EnrollTemplate \/ MatchTemplate \/ Score \/ EndOfGallery \/ Match
  \/ AfterReply

-----------------------------------------------------------------------------
Answered == pc = "done" /\ reply.result = "ok"

(* enroll answers with the best sample of all it took, the earliest of     *)
(* equals, and took as many as it was told to.                             *)
EnrollKeepsBest ==
  Answered /\ kind = "enroll" =>
    /\ Len(seen) = samples
    /\ reply.chosen \in 1..samples
    /\ \A i \in 1..samples :
         /\ seen[i] <= seen[reply.chosen]
         /\ i < reply.chosen => seen[i] < seen[reply.chosen]

(* identify names a user only after all templates were scored, and then    *)
(* the first with the highest score, which is not zero; nobody is named    *)
(* whom the library did not match.                                         *)
IdentifyNamesBest ==
  Answered /\ kind = "identify" =>
    /\ Len(scores) = gallery
    /\ reply.matched <=> reply.chosen # 0
    /\ reply.matched =>
         /\ scores[reply.chosen] > 0
         /\ \A i \in 1..gallery :
              /\ scores[i] <= scores[reply.chosen]
              /\ i < reply.chosen => scores[i] < scores[reply.chosen]

(* An operation that succeeds leaves no biometric buffer behind: samples   *)
(* that lost, images and live templates are wiped, and the response and    *)
(* the command after the reply was written.                                *)
SuccessLeavesNothing == Answered => residue = {}
=============================================================================
