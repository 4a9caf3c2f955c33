---------------------------- MODULE VendorsProofs ----------------------------
(***************************************************************************)
(* Theorems about the scanners of Vendors: every command of Handlers       *)
(* reports the best and wipes what it held, for any number of samples and  *)
(* any gallery, and whatever a scanner holds of a vendor library or of     *)
(* Windows is used while it is there, and given back.                      *)
(***************************************************************************)
EXTENDS Vendors, SequenceTheorems, TLAPS

-----------------------------------------------------------------------------
(* A command: an invariant that each of its steps keeps.                   *)

Underway == pc \notin {"answered", "done", "dead"}

(* Arguments, and what holds of the samples and scores taken so far.       *)
Arguments ==
  /\ kind \in {"capture", "enroll", "verify", "identify", "get_quality"}
  /\ samples \in Nat \ {0}
  /\ gallery \in Nat

Progress ==
  /\ seen \in Seq(Nat) /\ scores \in Seq(Nat)
  /\ Len(seen) <= samples /\ Len(scores) <= gallery
  /\ best \in Nat /\ bestValue \in Int
  /\ pc \in {"start", "image", "quality"} => Len(seen) < samples
  /\ pc = "template" => Len(seen) >= 1
  /\ pc \in {"start", "image", "quality", "template"} => scores = <<>>
  /\ pc = "match" => Len(scores) = gallery
  /\ pc \in {"score", "match"} => kind \in {"verify", "identify"}
  /\ Underway => reply = NoReply
  /\ reply.result \in {"none", "ok", "error"}
  /\ pc = "answered" => reply.result # "none"

(* Samples that enroll has compared: not the one it has just scored.       *)
Compared == IF pc = "template" THEN Len(seen) - 1 ELSE Len(seen)

BestSample ==
  kind = "enroll" /\ Underway =>
    /\ best \in 0..Compared
    /\ best = 0 => Compared = 0 /\ bestValue = -1
    /\ best # 0 => bestValue = seen[best]
    /\ \A i \in 1..Compared : /\ seen[i] <= bestValue
                              /\ i < best => seen[i] < bestValue

BestScore ==
  kind = "identify" /\ Underway =>
    /\ best \in 0..Len(scores)
    /\ best = 0 => bestValue = 0
    /\ best # 0 => bestValue = scores[best] /\ bestValue > 0
    /\ \A i \in 1..Len(scores) : /\ scores[i] <= bestValue
                                 /\ i < best => scores[i] < bestValue
    /\ pc = "match" => best # 0

(* What is true of a reply is so from the moment it is made.               *)
Replied == ~Underway /\ reply.result = "ok"

EnrollReply ==
  Replied /\ kind = "enroll" =>
    /\ Len(seen) = samples
    /\ reply.chosen \in 1..samples
    /\ \A i \in 1..samples :
         /\ seen[i] <= seen[reply.chosen]
         /\ i < reply.chosen => seen[i] < seen[reply.chosen]

IdentifyReply ==
  Replied /\ kind = "identify" =>
    /\ Len(scores) = gallery
    /\ reply.matched <=> reply.chosen # 0
    /\ reply.matched =>
         /\ scores[reply.chosen] > 0
         /\ \A i \in 1..gallery :
              /\ scores[i] <= scores[reply.chosen]
              /\ i < reply.chosen => scores[i] < scores[reply.chosen]

(* Nothing is dropped unwiped but on the way to an error.                  *)
Wiped ==
  /\ reply.result # "error" => residue = {}
  /\ pc = "start" => held = CommandBuffers
  /\ kind = "capture" /\ Underway => held \subseteq {"image"}
  /\ pc = "answered" /\ reply.result = "ok" => held \subseteq ResponseBuffers \cup CommandBuffers

HInv ==
  /\ Arguments /\ Progress
  /\ BestSample /\ BestScore
  /\ EnrollReply /\ IdentifyReply
  /\ Wiped

LEMMA InitHInv == Init => HInv
<1> SUFFICES ASSUME Init PROVE HInv
  OBVIOUS
<1> USE HandlersAssumption DEF Init, Underway, NoReply
<1>1. Arguments
  <2>1. samples \in Nat \ {0}
    BY DEF DEFAULT_ENROLL_SAMPLES
  <2>2. gallery \in Nat
    OBVIOUS
  <2> QED
    BY <2>1, <2>2 DEF Arguments
<1>2. Progress
  BY <1>1 DEF Progress, Arguments
<1>3. BestSample /\ BestScore
  BY DEF BestSample, BestScore, Compared
<1>4. EnrollReply /\ IdentifyReply
  BY DEF EnrollReply, IdentifyReply, Replied
<1>5. Wiped
  BY DEF Wiped, CommandBuffers
<1> QED
  BY <1>1, <1>2, <1>3, <1>4, <1>5 DEF HInv

(* The invariant says all that is wanted of a command.                     *)
LEMMA HInvSuffices == HInv => EnrollKeepsBest /\ IdentifyNamesBest /\ SuccessLeavesNothing
BY DEF HInv, EnrollReply, IdentifyReply, Replied, Underway, Wiped, Answered,
   EnrollKeepsBest, IdentifyNamesBest, SuccessLeavesNothing

(* A step that neither samples nor scores, and is not a success, has only  *)
(* its buffers to care for.                                                *)
LEMMA Refused ==
  ASSUME HInv, NEW wiped, ReturnError(wiped), UNCHANGED <<arguments, scores>>,
         seen' \in Seq(Nat), Len(seen') <= samples, best' \in Nat, bestValue' \in Int
  PROVE  HInv'
<1> USE DEF HInv, arguments, ReturnError, Underway, NoReply
<1>1. Arguments'
  BY DEF Arguments
<1>2. Progress'
  BY DEF Progress
<1>3. BestSample' /\ BestScore'
  BY DEF BestSample, BestScore
<1>4. EnrollReply' /\ IdentifyReply'
  BY DEF EnrollReply, IdentifyReply, Replied
<1>5. Wiped'
  BY DEF Wiped
<1> QED
  BY <1>1, <1>2, <1>3, <1>4, <1>5

(* The bridge's panic ends everything.                                     *)
LEMMA Panicked ==
  ASSUME HInv, Panic, UNCHANGED <<arguments, seen, scores, best, bestValue>>
  PROVE  HInv'
<1> USE DEF HInv, arguments, Panic, Underway, NoReply
<1>1. Arguments'
  BY DEF Arguments
<1>2. Progress'
  BY DEF Progress
<1>3. BestSample' /\ BestScore'
  BY DEF BestSample, BestScore
<1>4. EnrollReply' /\ IdentifyReply'
  BY DEF EnrollReply, IdentifyReply, Replied
<1>5. Wiped'
  BY DEF Wiped
<1> QED
  BY <1>1, <1>2, <1>3, <1>4, <1>5

-----------------------------------------------------------------------------
LEMMA BeginStep == HInv /\ Begin => HInv'
<1> SUFFICES ASSUME HInv, Begin PROVE HInv'
  OBVIOUS
<1>1. CASE ReturnError({})
  BY <1>1, Refused DEF Begin, HInv, Progress
<1>2. CASE pc' = "image" /\ UNCHANGED <<held, residue, reply>>
  <2> USE <1>2 DEF Begin, HInv, arguments, Underway
  <2>1. Arguments'
    BY DEF Arguments
  <2>2. Progress'
    BY DEF Progress
  <2>3. BestSample' /\ BestScore'
    BY DEF BestSample, BestScore, Compared
  <2>4. EnrollReply' /\ IdentifyReply'
    BY DEF EnrollReply, IdentifyReply, Replied
  <2>5. Wiped'
    BY DEF Wiped, CommandBuffers
  <2> QED
    BY <2>1, <2>2, <2>3, <2>4, <2>5
<1> QED
  BY <1>1, <1>2 DEF Begin

LEMMA ScoreImageStep == HInv /\ ScoreImage => HInv'
<1> SUFFICES ASSUME HInv, ScoreImage PROVE HInv'
  OBVIOUS
<1>1. CASE ReturnError({})
  BY <1>1, Refused DEF ScoreImage, HInv, Progress
<1>2. CASE ReturnOk(0, FALSE) /\ UNCHANGED held
  <2> USE <1>2 DEF ScoreImage, ReturnOk, HInv, arguments, Underway
  <2>1. Arguments'
    BY DEF Arguments
  <2>2. Progress'
    BY DEF Progress
  <2>3. BestSample' /\ BestScore'
    BY DEF BestSample, BestScore
  <2>4. EnrollReply' /\ IdentifyReply'
    BY DEF EnrollReply, IdentifyReply
  <2>5. Wiped'
    BY DEF Wiped, CommandBuffers, Progress, NoReply
  <2> QED
    BY <2>1, <2>2, <2>3, <2>4, <2>5
<1> QED
  BY <1>1, <1>2 DEF ScoreImage

LEMMA GetImageStep == HInv /\ GetImage => HInv'
<1> SUFFICES ASSUME HInv, GetImage PROVE HInv'
  OBVIOUS
<1>1. CASE ReturnError({})
  BY <1>1, Refused DEF GetImage, HInv, Progress
<1>2. CASE Panic
  BY <1>2, Panicked DEF GetImage
<1>3. CASE pc' = "quality" /\ held' = held \cup {"image"} /\ UNCHANGED <<residue, reply>>
  <2> USE <1>3 DEF GetImage, HInv, arguments, Underway
  <2>1. Arguments'
    BY DEF Arguments
  <2>2. Progress'
    BY DEF Progress
  <2>3. BestSample' /\ BestScore'
    BY DEF BestSample, BestScore, Compared
  <2>4. EnrollReply' /\ IdentifyReply'
    BY DEF EnrollReply, IdentifyReply, Replied
  <2>5. Wiped'
    BY DEF Wiped, CommandBuffers
  <2> QED
    BY <2>1, <2>2, <2>3, <2>4, <2>5
<1> QED
  BY <1>1, <1>2, <1>3 DEF GetImage, RefuseSize

LEMMA GetQualityStep == HInv /\ GetQuality => HInv'
<1> SUFFICES ASSUME HInv, GetQuality PROVE HInv'
  OBVIOUS
<1>1. CASE ReturnError({}) /\ UNCHANGED seen
  BY <1>1, Refused DEF GetQuality, HInv, Progress
<1>2. ASSUME NEW q \in Qualities, seen' = Append(seen, AsU8(q)), pc' = "template",
             UNCHANGED <<held, residue, reply>>
      PROVE  HInv'
  <2>1. AsU8(q) \in Nat
    BY <1>2, HandlersAssumption, SMT DEF AsU8
  <2>2. /\ seen \in Seq(Nat) /\ Len(seen) < samples
        /\ seen' \in Seq(Nat) /\ Len(seen') = Len(seen) + 1
        /\ \A i \in 1..Len(seen) : seen'[i] = seen[i]
    BY <1>2, <2>1 DEF GetQuality, HInv, Progress
  <2> USE <1>2, <2>2 DEF GetQuality, HInv, arguments, Underway
  <2>3. Arguments'
    BY DEF Arguments
  <2>4. Progress'
    BY DEF Progress, Arguments
  <2>5. BestSample' /\ BestScore'
    BY DEF BestSample, BestScore, Compared, Progress
  <2>6. EnrollReply' /\ IdentifyReply'
    BY DEF EnrollReply, IdentifyReply, Replied
  <2>7. Wiped'
    BY DEF Wiped, CommandBuffers
  <2> QED
    BY <2>3, <2>4, <2>5, <2>6, <2>7
<1> QED
  BY <1>1, <1>2 DEF GetQuality

LEMMA TemplateFailsStep == HInv /\ TemplateFails => HInv'
<1> SUFFICES ASSUME HInv, TemplateFails PROVE HInv'
  OBVIOUS
<1>1. CASE ReturnError(WipedOnTemplateError)
  BY <1>1, Refused DEF TemplateFails, HInv, Progress
<1>2. CASE Panic
  BY <1>2, Panicked DEF TemplateFails
<1> QED
  BY <1>1, <1>2 DEF TemplateFails

LEMMA CaptureTemplateStep == HInv /\ CaptureTemplate => HInv'
<1> SUFFICES ASSUME HInv, CaptureTemplate PROVE HInv'
  OBVIOUS
<1> USE DEF CaptureTemplate, TemplateMade, ReturnOk, HInv, arguments, Underway
<1>1. Arguments'
  BY DEF Arguments
<1>2. Progress'
  BY DEF Progress
<1>3. BestSample' /\ BestScore'
  BY DEF BestSample, BestScore
<1>4. EnrollReply' /\ IdentifyReply'
  BY DEF EnrollReply, IdentifyReply
<1>5. Wiped'
  <2>1. held' \subseteq ResponseBuffers
    BY DEF Wiped, ResponseBuffers, Buffers
  <2>2. ResponseBuffers' = ResponseBuffers /\ CommandBuffers' = CommandBuffers
    BY DEF ResponseBuffers, CommandBuffers
  <2>3. residue' = {} /\ pc' = "answered"
    BY DEF Wiped, Progress, NoReply
  <2> QED
    BY <2>1, <2>2, <2>3 DEF Wiped
<1> QED
  BY <1>1, <1>2, <1>3, <1>4, <1>5

(* The sample just taken is compared with the best of those before it.     *)
LEMMA EnrollTemplateStep == HInv /\ EnrollTemplate => HInv'
<1> SUFFICES ASSUME HInv, EnrollTemplate PROVE HInv'
  OBVIOUS
<1> USE DEF EnrollTemplate, TemplateMade, HInv, arguments, Underway
<1> DEFINE n == Len(seen)
           better == Better(seen[n])
           chosen == IF better THEN n ELSE best
<1>1. /\ n \in 1..samples /\ samples \in Nat \ {0} /\ seen \in Seq(Nat) /\ seen[n] \in Nat
      /\ kind = "enroll" /\ pc = "template"
      /\ residue = {} /\ reply.result = "none"
  BY DEF Arguments, Progress, Wiped, NoReply
<1>2. /\ best' = chosen /\ bestValue' = IF better THEN seen[n] ELSE bestValue
      /\ held' = {"best"} /\ UNCHANGED <<arguments, seen, scores>>
      /\ residue' = {}
      /\ \/ n < samples /\ pc' = "image" /\ reply' = reply
         \/ n = samples /\ pc' = "answered"
              /\ reply' = [result |-> "ok", chosen |-> chosen, matched |-> FALSE]
  BY <1>1 DEF ReturnOk
<1>3. /\ best \in 0..(n - 1) /\ bestValue \in Int
      /\ best = 0 => n = 1 /\ bestValue = -1
      /\ best # 0 => bestValue = seen[best]
      /\ \A i \in 1..(n - 1) : seen[i] <= bestValue /\ (i < best => seen[i] < bestValue)
  BY <1>1 DEF BestSample, Compared, Progress
<1>4. /\ chosen \in 1..n /\ bestValue' = seen[chosen]
      /\ \A i \in 1..n : seen[i] <= seen[chosen] /\ (i < chosen => seen[i] < seen[chosen])
  <2>1. \A i \in 1..n : seen[i] \in Nat
    BY <1>1
  <2>2. CASE better
    BY <1>1, <1>2, <1>3, <2>1, <2>2 DEF Better
  <2>3. CASE ~better
    BY <1>1, <1>2, <1>3, <2>1, <2>3 DEF Better
  <2> QED
    BY <2>2, <2>3
<1> HIDE DEF chosen, better
<1>5. Arguments'
  BY <1>2 DEF Arguments
<1>6. Progress'
  BY <1>1, <1>2, <1>4 DEF Progress
<1>7. BestSample'
  BY <1>1, <1>2, <1>4 DEF BestSample, Compared
<1>8. BestScore'
  BY <1>1, <1>2 DEF BestScore
<1>9. EnrollReply' /\ IdentifyReply'
  BY <1>1, <1>2, <1>4 DEF EnrollReply, IdentifyReply, Replied
<1>10. Wiped'
  <2>1. kind' = "enroll" /\ "best" \in ResponseBuffers'
    BY <1>1, <1>2 DEF ResponseBuffers, Buffers
  <2> QED
    BY <1>2, <2>1 DEF Wiped
<1> QED
  BY <1>5, <1>6, <1>7, <1>8, <1>9, <1>10

LEMMA MatchTemplateStep == HInv /\ MatchTemplate => HInv'
<1> SUFFICES ASSUME HInv, MatchTemplate PROVE HInv'
  OBVIOUS
<1> USE DEF MatchTemplate, TemplateMade, HInv, arguments, Underway
<1>1. Arguments'
  BY DEF Arguments
<1>2. Progress'
  BY DEF Progress
<1>3. BestSample' /\ BestScore'
  BY DEF BestSample, BestScore
<1>4. EnrollReply' /\ IdentifyReply'
  BY DEF EnrollReply, IdentifyReply, Replied
<1>5. Wiped'
  BY DEF Wiped
<1> QED
  BY <1>1, <1>2, <1>3, <1>4, <1>5

(* The score just obtained is compared with the best of those before it.   *)
LEMMA ScoreStep == HInv /\ Score => HInv'
<1> SUFFICES ASSUME HInv, Score PROVE HInv'
  OBVIOUS
<1>1. CASE ReturnError(held) /\ UNCHANGED <<scores, best, bestValue>>
  BY <1>1, Refused DEF Score, HInv, Progress
<1>2. ASSUME NEW s \in Scores,
             scores' = Append(scores, s),
             IF Better(s) \/ kind = "verify"
               THEN best' = Len(scores) + 1 /\ bestValue' = s
               ELSE UNCHANGED <<best, bestValue>>,
             UNCHANGED <<pc, held, residue, reply>>
      PROVE  HInv'
  <2> USE DEF HInv, arguments, Underway
  <2> DEFINE n == Len(scores)
  <2>1. /\ s \in Nat /\ n \in Nat /\ scores \in Seq(Nat)
        /\ pc = "score" /\ n < gallery /\ gallery \in Nat
        /\ UNCHANGED <<arguments, seen>>
    BY <1>2, HandlersAssumption DEF Score, Progress, Arguments
  <2>2. /\ scores' \in Seq(Nat) /\ Len(scores') = n + 1
        /\ \A i \in 1..n : scores'[i] = scores[i] /\ scores[i] \in Nat
        /\ scores'[n + 1] = s
    BY <1>2, <2>1
  <2>3. Arguments'
    BY <2>1 DEF Arguments
  <2>4. Progress'
    BY <1>2, <2>1, <2>2 DEF Progress
  <2>5. BestSample'
    BY <2>1 DEF BestSample, Progress
  <2>6. BestScore'
    <3> SUFFICES ASSUME kind = "identify" PROVE BestScore'
      BY <2>1 DEF BestScore
    <3>1. /\ best \in 0..n /\ bestValue \in Int
          /\ best = 0 => bestValue = 0
          /\ best # 0 => bestValue = scores[best] /\ bestValue > 0
          /\ \A i \in 1..n : scores[i] <= bestValue /\ (i < best => scores[i] < bestValue)
      BY <2>1 DEF BestScore, Progress
    <3>2. CASE Better(s)
      BY <1>2, <2>1, <2>2, <3>1, <3>2 DEF BestScore, Better
    <3>3. CASE ~Better(s)
      BY <1>2, <2>1, <2>2, <3>1, <3>3 DEF BestScore, Better
    <3> QED
      BY <3>2, <3>3
  <2>7. EnrollReply' /\ IdentifyReply'
    BY <1>2, <2>1 DEF EnrollReply, IdentifyReply, Replied
  <2>8. Wiped'
    <3>1. UNCHANGED <<pc, held, residue, reply>> /\ pc' = "score"
      BY <1>2, <2>1
    <3>2. kind' = kind /\ kind # "capture"
      BY <2>1 DEF Progress
    <3> QED
      BY <3>1, <3>2 DEF Wiped
  <2> QED
    BY <2>3, <2>4, <2>5, <2>6, <2>7, <2>8
<1> QED
  BY <1>1, <1>2 DEF Score

LEMMA EndOfGalleryStep == HInv /\ EndOfGallery => HInv'
<1> SUFFICES ASSUME HInv, EndOfGallery PROVE HInv'
  OBVIOUS
<1> USE DEF EndOfGallery, ReturnOk, HInv, arguments, Underway
<1>1. Arguments'
  BY DEF Arguments
<1>2. Progress'
  BY DEF Progress
<1>3. BestSample' /\ BestScore'
  BY DEF BestSample, BestScore, Compared
<1>4. EnrollReply' /\ IdentifyReply'
  <2>1. kind' # "enroll"
    BY DEF Progress
  <2> QED
    BY <2>1 DEF EnrollReply, IdentifyReply, Replied, Progress, NoReply
<1>5. Wiped'
  BY DEF Wiped, Progress, NoReply, CommandBuffers
<1> QED
  BY <1>1, <1>2, <1>3, <1>4, <1>5

LEMMA MatchStep == HInv /\ Match => HInv'
<1> SUFFICES ASSUME HInv, Match PROVE HInv'
  OBVIOUS
<1>1. CASE ReturnError(held)
  BY <1>1, Refused DEF Match, HInv, Progress
<1>2. ASSUME NEW matched \in BOOLEAN,
             ReturnOk(IF matched THEN best ELSE 0, matched),
             held' = CommandBuffers
      PROVE  HInv'
  <2> USE <1>2 DEF Match, ReturnOk, HInv, arguments, Underway
  <2>1. Arguments'
    BY DEF Arguments
  <2>2. Progress'
    BY DEF Progress
  <2>3. BestSample' /\ BestScore'
    BY DEF BestSample, BestScore
  <2>4. EnrollReply' /\ IdentifyReply'
    BY DEF EnrollReply, IdentifyReply, Replied, BestScore, Progress
  <2>5. Wiped'
    <3>1. residue' = {} /\ pc' = "answered"
      BY DEF Wiped, Progress, NoReply
    <3>2. held' = CommandBuffers'
      BY DEF CommandBuffers
    <3> QED
      BY <3>1, <3>2 DEF Wiped
  <2> QED
    BY <2>1, <2>2, <2>3, <2>4, <2>5
<1> QED
  BY <1>1, <1>2 DEF Match

LEMMA AfterReplyStep == HInv /\ AfterReply => HInv'
<1> SUFFICES ASSUME HInv, AfterReply PROVE HInv'
  OBVIOUS
<1> USE DEF AfterReply, HInv, arguments, Underway
<1>1. Arguments'
  BY DEF Arguments
<1>2. Progress'
  BY DEF Progress
<1>3. BestSample' /\ BestScore'
  BY DEF BestSample, BestScore
<1>4. EnrollReply' /\ IdentifyReply'
  BY DEF EnrollReply, IdentifyReply, Replied
<1>5. Wiped'
  BY DEF Wiped, Progress
<1> QED
  BY <1>1, <1>2, <1>3, <1>4, <1>5

(* Every step of a command keeps the invariant.                            *)
LEMMA HandleStep == HInv /\ Handle => HInv'
BY BeginStep, ScoreImageStep, GetImageStep, GetQualityStep, TemplateFailsStep,
   CaptureTemplateStep, EnrollTemplateStep, MatchTemplateStep, ScoreStep,
   EndOfGalleryStep, MatchStep, AfterReplyStep
DEF Handle

LEMMA HInvUnchanged == HInv /\ UNCHANGED vars => HInv'
BY DEF vars, arguments, HInv, Arguments, Progress, BestSample, BestScore, Compared,
   EnrollReply, IdentifyReply, Replied, Underway, Wiped, CommandBuffers, ResponseBuffers

-----------------------------------------------------------------------------
(* The scanners.                                                           *)

(* What a device holds is decided by the call it makes next.               *)
Holds(l, h, o) == loaded = l /\ handle = h /\ opened = o

DInv ==
  /\ backend \in {"bridge", "native"}
  /\ next \in {"load", "create", "init", "open", "info", "size", "command", "close",
               "terminate", "drop", "failed", "leaked", "closed", "gone",
               "undo open", "undo create", "unload"}
  /\ loaded \in BOOLEAN /\ handle \in BOOLEAN /\ opened \in BOOLEAN
  /\ next = "load" => Holds(FALSE, FALSE, FALSE)
  /\ next \in {"create", "unload"} => Holds(TRUE, FALSE, FALSE)
  /\ next \in {"init", "open", "terminate", "undo create"} => Holds(TRUE, TRUE, FALSE)
  /\ next \in {"info", "size", "command", "close", "undo open"} => Holds(TRUE, TRUE, TRUE)
  /\ next = "drop" => Holds(TRUE, FALSE, FALSE) /\ closed = TRUE
  /\ next = "leaked" => Holds(TRUE, FALSE, FALSE)
  /\ backend = "native" /\ next \in {"failed", "closed"} => Holds(FALSE, FALSE, FALSE)
  /\ next = "gone" => Holds(FALSE, FALSE, FALSE)

(* What a WBF scanner holds is decided by where it is.                     *)
WInv ==
  /\ state \in BOOLEAN
  /\ state = TRUE => sessions = 1
  /\ state = FALSE => sessions = 0
  /\ at \in {"new", "enumerated", "opening", "failed", "idle", "capturing", "closed"}
  /\ at \in {"new", "enumerated", "opening", "failed", "closed"} => state = FALSE
  /\ at \in {"idle", "capturing"} => state = TRUE
  /\ at # "enumerated" => schemas = 0

IInv == HInv /\ DInv /\ WInv

LEMMA InitIInv == VendorsInit => IInv
<1> SUFFICES ASSUME VendorsInit PROVE IInv
  OBVIOUS
<1>1. HInv
  BY InitHInv DEF VendorsInit, DeviceInit
<1>2. DInv
  BY DEF VendorsInit, DeviceInit, Init, DInv, Holds
<1>3. WInv
  BY DEF VendorsInit, WbfInit, WInv
<1> QED
  BY <1>1, <1>2, <1>3 DEF IInv

(* No step of a command changes which backend it runs on.                  *)
LEMMA BackendStays == Handle => UNCHANGED backend
BY DEF Handle, arguments, Begin, ScoreImage, GetImage, GetQuality, TemplateFails,
   CaptureTemplate, EnrollTemplate, MatchTemplate, Score, EndOfGallery, Match, AfterReply

LEMMA LoadStep == DInv /\ (LoadNative \/ LoadBridge) => DInv'
BY DEF DInv, LoadNative, LoadBridge, Loads, LoadFails, vars, arguments, Holds

(* A call of init succeeds, or what was taken before it is given back.     *)
LEMMA InitStep ==
  DInv /\ (Create \/ InitDevice \/ OpenDevice \/ GetDeviceInfo \/ GetMaxTemplateSize) => DInv'
<1> SUFFICES ASSUME DInv,
                    Create \/ InitDevice \/ OpenDevice \/ GetDeviceInfo \/ GetMaxTemplateSize
             PROVE  DInv'
  OBVIOUS
<1> USE DEF DInv, InitFails, vars, arguments, Holds
<1>1. CASE Create
  BY <1>1 DEF Create
<1>2. CASE InitDevice
  BY <1>2 DEF InitDevice
<1>3. CASE OpenDevice
  BY <1>3 DEF OpenDevice
<1>4. CASE GetDeviceInfo
  BY <1>4 DEF GetDeviceInfo
<1>5. CASE GetMaxTemplateSize
  BY <1>5 DEF GetMaxTemplateSize
<1> QED
  BY <1>1, <1>2, <1>3, <1>4, <1>5

LEMMA CommandStep == DInv /\ Command => DInv'
BY BackendStays DEF DInv, Command, Holds

(* What a native init that fails gives back, the last thing taken first.   *)
LEMMA UndoStep == DInv /\ (UndoOpen \/ UndoCreate \/ Unload) => DInv'
BY DEF DInv, UndoOpen, UndoCreate, Unload, vars, arguments, Holds

(* The calls of shutdown and Drop, each once.                              *)
LEMMA CloseStep ==
  DInv /\ (Shutdown \/ CloseDevice \/ Terminate \/ DropBackend \/ ProcessEnds) => DInv'
<1> SUFFICES ASSUME DInv,
                    Shutdown \/ CloseDevice \/ Terminate \/ DropBackend \/ ProcessEnds
             PROVE  DInv'
  OBVIOUS
<1> USE DEF DInv, vars, arguments, Holds
<1>1. CASE Shutdown
  BY <1>1 DEF Shutdown
<1>2. CASE CloseDevice
  BY <1>2 DEF CloseDevice
<1>3. CASE Terminate
  BY <1>3 DEF Terminate
<1>4. CASE DropBackend
  BY <1>4 DEF DropBackend
<1>5. CASE ProcessEnds
  BY <1>5 DEF ProcessEnds
<1> QED
  BY <1>1, <1>2, <1>3, <1>4, <1>5

LEMMA DeviceStep == HInv /\ DInv /\ DeviceNext => HInv' /\ DInv'
<1> SUFFICES ASSUME HInv, DInv, DeviceNext PROVE HInv' /\ DInv'
  OBVIOUS
<1>1. DInv'
  BY LoadStep, InitStep, UndoStep, CommandStep, CloseStep DEF DeviceNext
<1>2. HInv'
  <2>1. Handle \/ UNCHANGED vars
    BY DEF DeviceNext, LoadNative, LoadBridge, Create, InitDevice, OpenDevice,
       GetDeviceInfo, GetMaxTemplateSize, UndoOpen, UndoCreate, Unload, Command, Shutdown,
       CloseDevice, Terminate, DropBackend, ProcessEnds
  <2> QED
    BY <2>1, HandleStep, HInvUnchanged
<1> QED
  BY <1>1, <1>2

LEMMA WbfStep == WInv /\ WbfNext => WInv'
<1> SUFFICES ASSUME WInv, WbfNext PROVE WInv'
  OBVIOUS
<1> USE DEF WInv
<1>1. CASE NoUnit \/ Enumerate \/ ReadUnit
  BY <1>1 DEF NoUnit, Enumerate, ReadUnit
<1>2. CASE OpenSession
  <2>1. state = FALSE /\ sessions = 0 /\ schemas' = 0
    BY <1>2 DEF OpenSession
  <2>2. CASE at' = "idle"
    <3>1. state' = TRUE /\ sessions' = 1
      BY <1>2, <2>1, <2>2 DEF OpenSession
    <3> QED
      BY <2>1, <2>2, <3>1
  <2>3. CASE at' # "idle"
    <3>1. UNCHANGED <<state, sessions>> /\ at' \in {"opening", "failed"}
      BY <1>2, <2>3 DEF OpenSession
    <3> QED
      BY <2>1, <3>1
  <2> QED
    BY <2>2, <2>3
<1>3. CASE BeginWbfCapture \/ Unsupported \/ Recognised \/ NotRecognised
  BY <1>3 DEF BeginWbfCapture, Unsupported, Recognised, NotRecognised
<1>4. CASE WbfDisconnect
  <2>1. at' = "closed" /\ state' = FALSE /\ schemas' = 0
    BY <1>4 DEF WbfDisconnect
  <2>2. sessions' = 0
    <3>1. CASE state = TRUE
      <4>1. sessions' = sessions - 1 /\ sessions = 1
        BY <1>4, <3>1, Zenon DEF WbfDisconnect
      <4> QED
        BY <4>1
    <3>2. CASE state = FALSE
      BY <1>4, <3>2, Zenon DEF WbfDisconnect
    <3> QED
      BY <3>1, <3>2
  <2> QED
    BY <2>1, <2>2
<1> QED
  BY <1>1, <1>2, <1>3, <1>4 DEF WbfNext

LEMMA NextIInv == IInv /\ [VendorsNext]_allvars => IInv'
<1> SUFFICES ASSUME IInv, [VendorsNext]_allvars PROVE IInv'
  OBVIOUS
<1>1. CASE DeviceNext /\ UNCHANGED wvars
  <2>1. WInv'
    BY <1>1 DEF IInv, WInv, wvars
  <2> QED
    BY <1>1, <2>1, DeviceStep DEF IInv
<1>2. CASE WbfNext /\ UNCHANGED <<vars, dvars>>
  <2>1. DInv'
    BY <1>2 DEF IInv, DInv, Holds, vars, dvars
  <2> QED
    BY <1>2, <2>1, WbfStep, HInvUnchanged DEF IInv
<1>3. CASE UNCHANGED allvars
  <2>1. WInv' /\ DInv'
    BY <1>3 DEF IInv, WInv, DInv, Holds, allvars, vars, dvars, wvars
  <2> QED
    BY <1>3, <2>1, HInvUnchanged DEF IInv, allvars
<1> QED
  BY <1>1, <1>2, <1>3 DEF VendorsNext, Idle

-----------------------------------------------------------------------------
LEMMA Consequences ==
  IInv => CallsOnLiveHandle /\ NothingLeftOpen /\ WbfSessionOwned
<1> SUFFICES ASSUME IInv PROVE CallsOnLiveHandle /\ NothingLeftOpen /\ WbfSessionOwned
  OBVIOUS
<1>1. CallsOnLiveHandle
  BY DEF IInv, DInv, Holds, CallsOnLiveHandle
<1>2. NothingLeftOpen
  BY DEF IInv, DInv, Holds, NothingLeftOpen, Ends
<1>3. WbfSessionOwned
  <2>1. CASE state = TRUE
    BY <2>1 DEF IInv, WInv, WbfSessionOwned
  <2>2. CASE state = FALSE
    BY <2>2 DEF IInv, WInv, WbfSessionOwned
  <2> QED
    BY <2>1, <2>2 DEF IInv, WInv
<1> QED
  BY <1>1, <1>2, <1>3

-----------------------------------------------------------------------------
(* Types.  What the invariant says of lengths and of the best so far is    *)
(* not repeated; what is left is what each step writes.                    *)
LEMMA InitTypes == Init => TypeOK
<1> SUFFICES ASSUME Init PROVE TypeOK
  OBVIOUS
<1>1. min \in 0..255 /\ samples \in 1..255
  <2>1. min \in 0..255
    <3>1. min \in MinQualities \/ min = DEFAULT_MIN_QUALITY
      BY Zenon DEF Init
    <3>2. MinQualities \subseteq 0..255 /\ DEFAULT_MIN_QUALITY \in 0..255
      BY HandlersAssumption DEF DEFAULT_MIN_QUALITY
    <3> QED
      BY <3>1, <3>2, Zenon
  <2>2. ASSUME NEW n \in SampleArgs, samples = IF n = 0 THEN DEFAULT_ENROLL_SAMPLES ELSE n
        PROVE  samples \in 1..255
    <3>1. n \in 0..255
      BY HandlersAssumption
    <3> QED
      BY <2>2, <3>1 DEF DEFAULT_ENROLL_SAMPLES
  <2>3. (\E n \in SampleArgs : samples = IF n = 0 THEN DEFAULT_ENROLL_SAMPLES ELSE n) \/ samples = 1
    BY Zenon DEF Init
  <2> QED
    BY <2>1, <2>2, <2>3
<1>2. gallery \in 0..MaxGallery
  BY HandlersAssumption DEF Init
<1>3. /\ seen \in Seq(0..255) /\ scores \in Seq(Scores) /\ Len(seen) = 0 /\ Len(scores) = 0
  BY DEF Init
<1>4. held \subseteq Buffers /\ residue \subseteq Buffers
  BY DEF Init, CommandBuffers, Buffers
<1>5. reply \in [result : {"none", "ok", "error"}, chosen : Nat, matched : BOOLEAN]
  BY DEF Init, NoReply
<1> QED
  BY <1>1, <1>2, <1>3, <1>4, <1>5 DEF Init, TypeOK

(* Where a command is, what it holds and what it answers.                  *)
Answers == [result : {"none", "ok", "error"}, chosen : Nat, matched : BOOLEAN]

Outcome ==
  /\ pc \in {"start", "image", "quality", "template", "score", "match", "answered",
             "done", "dead"}
  /\ held \subseteq Buffers /\ residue \subseteq Buffers
  /\ reply \in Answers

LEMMA ErrorOutcome ==
  ASSUME Outcome, (\E wiped : ReturnError(wiped)) \/ Panic
  PROVE  Outcome'
<1>1. [NoReply EXCEPT !.result = "error"] \in Answers
  BY DEF NoReply, Answers
<1>2. CommandBuffers \subseteq Buffers
  BY DEF CommandBuffers, Buffers
<1> QED
  BY <1>1, <1>2 DEF Outcome, ReturnError, Panic

LEMMA OkOutcome ==
  ASSUME Outcome, NEW chosen \in Nat, NEW matched \in BOOLEAN, ReturnOk(chosen, matched),
         held' \subseteq Buffers
  PROVE  Outcome'
<1>1. [result |-> "ok", chosen |-> chosen, matched |-> matched] \in Answers
  BY DEF Answers
<1> QED
  BY <1>1 DEF Outcome, ReturnOk

LEMMA HandleOutcome == HInv /\ Outcome /\ Handle => Outcome'
<1> SUFFICES ASSUME HInv, Outcome, Handle PROVE Outcome'
  OBVIOUS
<1>1. best \in Nat /\ seen \in Seq(Nat) /\ CommandBuffers \subseteq Buffers
      /\ {"image", "template", "best"} \subseteq Buffers
  BY DEF HInv, Progress, CommandBuffers, Buffers
<1>2. CASE (\E wiped : ReturnError(wiped)) \/ Panic
  BY <1>2, ErrorOutcome
<1>3. CASE Begin
  BY <1>2, <1>3 DEF Begin, Outcome
<1>4. CASE ScoreImage
  BY <1>2, <1>4, OkOutcome DEF ScoreImage, Outcome
<1>5. CASE GetImage
  BY <1>1, <1>2, <1>5 DEF GetImage, RefuseSize, Outcome
<1>6. CASE GetQuality
  BY <1>2, <1>6 DEF GetQuality, Outcome
<1>7. CASE TemplateFails
  BY <1>2, <1>7 DEF TemplateFails
<1>8. CASE CaptureTemplate
  BY <1>1, <1>8, OkOutcome DEF CaptureTemplate, Outcome
<1>9. CASE EnrollTemplate
  <2>1. Len(seen) \in Nat /\ held' \subseteq Buffers
    BY <1>1, <1>9 DEF EnrollTemplate
  <2> DEFINE chosen == IF Better(seen[Len(seen)]) THEN Len(seen) ELSE best
  <2>2. chosen \in Nat
    BY <1>1, <2>1
  <2>3. (pc' = "image" /\ UNCHANGED <<residue, reply>>) \/ ReturnOk(chosen, FALSE)
    BY <1>9 DEF EnrollTemplate
  <2> HIDE DEF chosen
  <2> QED
    BY <2>1, <2>2, <2>3, OkOutcome DEF Outcome
<1>10. CASE MatchTemplate
  BY <1>1, <1>10 DEF MatchTemplate, Outcome
<1>11. CASE Score
  BY <1>2, <1>11 DEF Score, Outcome
<1>12. CASE EndOfGallery
  BY <1>1, <1>12, OkOutcome DEF EndOfGallery, Outcome
<1>13. CASE Match
  <2>1. ASSUME NEW matched \in BOOLEAN, ReturnOk(IF matched THEN best ELSE 0, matched),
               held' = CommandBuffers
        PROVE  Outcome'
    <3> DEFINE chosen == IF matched THEN best ELSE 0
    <3>1. chosen \in Nat
      BY <1>1
    <3>2. ReturnOk(chosen, matched)
      BY <2>1
    <3> HIDE DEF chosen
    <3> QED
      BY <1>1, <2>1, <3>1, <3>2, OkOutcome
  <2> QED
    BY <1>2, <1>13, <2>1 DEF Match
<1>14. CASE AfterReply
  BY <1>14 DEF AfterReply, Outcome
<1> QED
  BY <1>3, <1>4, <1>5, <1>6, <1>7, <1>8, <1>9, <1>10, <1>11, <1>12, <1>13, <1>14 DEF Handle

LEMMA HandleTypes == HInv /\ TypeOK /\ Handle => TypeOK'
<1> SUFFICES ASSUME HInv, TypeOK, Handle PROVE TypeOK'
  OBVIOUS
<1>1. Outcome'
  BY HandleOutcome DEF TypeOK, Outcome, Answers
<1>2. UNCHANGED arguments
  BY DEF Handle, Begin, ScoreImage, GetImage, GetQuality, TemplateFails,
     CaptureTemplate, EnrollTemplate, MatchTemplate, Score, EndOfGallery, Match, AfterReply
<1>3. seen' \in Seq(0..255)
  <2>1. ASSUME NEW q \in Qualities, seen' = Append(seen, AsU8(q)) PROVE seen' \in Seq(0..255)
    <3>1. AsU8(q) \in 0..255
      BY <2>1, HandlersAssumption DEF AsU8
    <3> QED
      BY <2>1, <3>1 DEF TypeOK
  <2>2. CASE GetQuality
    BY <2>1, <2>2 DEF GetQuality, TypeOK
  <2> QED
    BY <2>2 DEF TypeOK, Handle, Begin, ScoreImage, GetImage, TemplateFails,
       CaptureTemplate, EnrollTemplate, MatchTemplate, Score, EndOfGallery, Match, AfterReply
<1>4. scores' \in Seq(Scores)
  <2>1. CASE Score
    BY <2>1 DEF Score, TypeOK
  <2> QED
    BY <2>1 DEF TypeOK, Handle, Begin, ScoreImage, GetImage, GetQuality, TemplateFails,
       CaptureTemplate, EnrollTemplate, MatchTemplate, EndOfGallery, Match, AfterReply
<1>5. Len(seen') <= samples' /\ Len(scores') <= gallery' /\ best' \in Nat /\ bestValue' \in Int
  BY HandleStep DEF HInv, Progress
<1> QED
  BY <1>1, <1>2, <1>3, <1>4, <1>5 DEF TypeOK, Outcome, Answers, arguments

(* A WBF scanner counts its captures down from what it began with.         *)
TodoInv == IF at = "capturing" THEN todo \in 1..255 ELSE todo = 0

LEMMA WbfTypes == WInv /\ TodoInv /\ WbfTypeOK /\ WbfNext => TodoInv' /\ WbfTypeOK'
<1> SUFFICES ASSUME WInv, TodoInv, WbfTypeOK, WbfNext PROVE TodoInv' /\ WbfTypeOK'
  OBVIOUS
<1>0. WInv'
  BY WbfStep
<1>1. TodoInv'
  BY WbfAssumption DEF TodoInv, WbfNext, NoUnit, Enumerate, ReadUnit, OpenSession, BeginWbfCapture,
     Unsupported, Recognised, NotRecognised, WbfDisconnect
<1>2. todo' \in 0..255
  BY <1>1 DEF TodoInv
<1>3. state' \in BOOLEAN /\ sessions' \in 0..Strategies
  BY <1>0 DEF WInv, Strategies
<1>4. schemas' \in 0..1
  BY DEF WbfTypeOK, WbfNext, NoUnit, Enumerate, ReadUnit, OpenSession, BeginWbfCapture,
     Unsupported, Recognised, NotRecognised, WbfDisconnect
<1>5. strategy' \in 1..Strategies
  BY DEF WbfTypeOK, WbfNext, NoUnit, Enumerate, ReadUnit, OpenSession, BeginWbfCapture,
     Unsupported, Recognised, NotRecognised, WbfDisconnect, Strategies
<1>6. ops' \in 0..MaxOps
  BY WbfAssumption DEF WbfTypeOK, WbfNext, NoUnit, Enumerate, ReadUnit, OpenSession,
     BeginWbfCapture, Unsupported, Recognised, NotRecognised, WbfDisconnect
<1>7. at' \in {"new", "enumerated", "opening", "failed", "idle", "capturing", "closed"}
  BY <1>0 DEF WInv
<1>8. result' \in {"none", "ok", "DEVICE_NOT_FOUND", "SDK_ERROR"}
  BY DEF WbfTypeOK, WbfNext, NoUnit, Enumerate, ReadUnit, OpenSession, BeginWbfCapture,
     Unsupported, Recognised, NotRecognised, WbfDisconnect
<1> QED
  BY <1>1, <1>2, <1>3, <1>4, <1>5, <1>6, <1>7, <1>8 DEF WbfTypeOK

LEMMA DeviceTypes ==
  HInv /\ TypeOK /\ DeviceTypeOK /\ DInv /\ DeviceNext => TypeOK' /\ DeviceTypeOK'
<1> SUFFICES ASSUME HInv, TypeOK, DeviceTypeOK, DInv, DeviceNext PROVE TypeOK' /\ DeviceTypeOK'
  OBVIOUS
<1>1. TypeOK'
  <2>1. Handle \/ UNCHANGED vars
    BY DEF DeviceNext, LoadNative, LoadBridge, Create, InitDevice, OpenDevice,
       GetDeviceInfo, GetMaxTemplateSize, UndoOpen, UndoCreate, Unload, Command, Shutdown,
       CloseDevice, Terminate, DropBackend, ProcessEnds
  <2>2. CASE UNCHANGED vars
    BY <2>2 DEF TypeOK, vars, arguments
  <2> QED
    BY <2>1, <2>2, HandleTypes
<1>2. DInv' /\ closed' \in BOOLEAN
  <2>1. closed' \in BOOLEAN
    BY DEF DeviceTypeOK, DeviceNext, LoadNative, LoadBridge, Create, InitDevice, OpenDevice,
       GetDeviceInfo, GetMaxTemplateSize, UndoOpen, UndoCreate, Unload, Command, Shutdown,
       CloseDevice, Terminate, DropBackend, ProcessEnds
  <2> QED
    BY <2>1, DeviceStep
<1>3. next' # "command" => pc' \in {"start", "done", "dead"}
  <2>1. CASE Command
    BY <2>1 DEF Command
  <2>2. CASE Shutdown
    BY <2>2 DEF Shutdown, vars
  <2>3. CASE next # "command" /\ pc' = pc
    BY <2>3 DEF DeviceTypeOK
  <2> QED
    BY <2>1, <2>2, <2>3 DEF DeviceNext, LoadNative, LoadBridge, Create, InitDevice, OpenDevice,
       GetDeviceInfo, GetMaxTemplateSize, UndoOpen, UndoCreate, Unload, CloseDevice, Terminate,
       DropBackend, ProcessEnds, vars, Ends
<1> QED
  BY <1>1, <1>2, <1>3 DEF DInv, DeviceTypeOK, InitCalls, UndoCalls, Ends

TInv == IInv /\ VendorsTypeOK /\ TodoInv

(* What get_scanner makes on which platform.                               *)
LEMMA VendorsOfPlatforms ==
  VendorsInit =>
    /\ vendor \in {"secugen", "wbf", "neurotec", "unsupported"}
    /\ vendor \in {"wbf", "neurotec"} => platform = "windows"
    /\ backend = "bridge" <=> platform = "windows"
BY DEF VendorsInit, Vendor

LEMMA InitTInv == VendorsInit => TInv
<1> SUFFICES ASSUME VendorsInit PROVE TInv
  OBVIOUS
<1>1. IInv /\ TypeOK
  BY InitIInv, InitTypes DEF VendorsInit, DeviceInit
<1>2. DeviceTypeOK /\ next = "load" /\ pc = "start"
  BY DEF VendorsInit, DeviceInit, Init, DeviceTypeOK, InitCalls
<1>3. WbfTypeOK /\ TodoInv /\ at = "new"
  <2>1. /\ at = "new" /\ schemas = 0 /\ sessions = 0 /\ state = FALSE
        /\ strategy = 1 /\ todo = 0 /\ ops = 0 /\ result = "none"
    BY DEF VendorsInit, WbfInit
  <2>2. ops \in 0..MaxOps /\ strategy \in 1..Strategies /\ sessions \in 0..Strategies
    BY <2>1, WbfAssumption DEF Strategies
  <2>3. todo \in 0..255 /\ schemas \in 0..1
    BY <2>1
  <2>4. state \in BOOLEAN
    BY <2>1, Zenon
  <2> QED
    BY <2>1, <2>2, <2>3, <2>4 DEF WbfTypeOK, TodoInv
<1> QED
  BY <1>1, <1>2, <1>3, VendorsOfPlatforms DEF TInv, VendorsTypeOK

LEMMA NextTInv == TInv /\ [VendorsNext]_allvars => TInv'
<1> SUFFICES ASSUME TInv, [VendorsNext]_allvars PROVE TInv'
  OBVIOUS
<1>0. IInv'
  BY NextIInv DEF TInv
<1>1. CASE vendor = "secugen" /\ DeviceNext /\ UNCHANGED <<wvars, platform, vendor>>
  <2>1. TypeOK' /\ DeviceTypeOK'
    BY <1>1, DeviceTypes DEF TInv, IInv, VendorsTypeOK
  <2>3. UNCHANGED backend
    <3>1. Handle \/ UNCHANGED vars
      BY <1>1 DEF DeviceNext, LoadNative, LoadBridge, Create, InitDevice, OpenDevice,
         GetDeviceInfo, GetMaxTemplateSize, UndoOpen, UndoCreate, Unload, Command, Shutdown,
         CloseDevice, Terminate, DropBackend, ProcessEnds
    <3> QED
      BY <3>1, BackendStays DEF vars, arguments
  <2>2. WbfTypeOK' /\ TodoInv'
    BY <1>1 DEF TInv, VendorsTypeOK, WbfTypeOK, TodoInv, wvars
  <2> QED
    BY <1>0, <1>1, <2>1, <2>2, <2>3 DEF TInv, VendorsTypeOK, wvars
<1>2. CASE vendor = "wbf" /\ WbfNext /\ UNCHANGED <<vars, dvars, platform, vendor>>
  <2>1. WbfTypeOK' /\ TodoInv'
    BY <1>2, WbfTypes DEF TInv, IInv, VendorsTypeOK
  <2>2. TypeOK' /\ DeviceTypeOK'
    BY <1>2 DEF TInv, VendorsTypeOK, TypeOK, DeviceTypeOK, vars, dvars, arguments
  <2> QED
    BY <1>0, <1>2, <2>1, <2>2 DEF TInv, VendorsTypeOK, vars, dvars, arguments
<1>3. CASE UNCHANGED allvars
  <2>1. TypeOK' /\ DeviceTypeOK'
    BY <1>3 DEF TInv, VendorsTypeOK, TypeOK, DeviceTypeOK, vars, dvars, arguments, allvars
  <2>2. WbfTypeOK' /\ TodoInv'
    BY <1>3 DEF TInv, VendorsTypeOK, WbfTypeOK, TodoInv, wvars, allvars
  <2> QED
    BY <1>0, <1>3, <2>1, <2>2 DEF TInv, VendorsTypeOK, allvars, vars, dvars, wvars, arguments
<1> QED
  BY <1>1, <1>2, <1>3 DEF VendorsNext, Idle

(* Type correctness of the scanners: counters stay within a byte, whatever *)
(* the library says; a command is under way only on an open device; and    *)
(* the backend that was not chosen never begins.                           *)
THEOREM VendorsTypes == VendorsSpec => []VendorsTypeOK
<1>1. TInv => VendorsTypeOK
  BY DEF TInv
<1> QED
  BY <1>1, InitTInv, NextTInv, PTL DEF VendorsSpec

(* An enroll of any number of samples answers with the best of them.       *)
THEOREM VendorsEnrollKeepsBest == VendorsSpec => []EnrollKeepsBest
<1>1. IInv => EnrollKeepsBest
  BY HInvSuffices DEF IInv
<1> QED
  BY <1>1, InitIInv, NextIInv, PTL DEF VendorsSpec

(* An identify on a gallery of any size names the first of those that      *)
(* scored highest, and nobody whom the library did not match.              *)
THEOREM VendorsIdentifyNamesBest == VendorsSpec => []IdentifyNamesBest
<1>1. IInv => IdentifyNamesBest
  BY HInvSuffices DEF IInv
<1> QED
  BY <1>1, InitIInv, NextIInv, PTL DEF VendorsSpec

(* A command that succeeds leaves no biometric buffer unwiped.             *)
THEOREM VendorsSuccessLeavesNothing == VendorsSpec => []SuccessLeavesNothing
<1>1. IInv => SuccessLeavesNothing
  BY HInvSuffices DEF IInv
<1> QED
  BY <1>1, InitIInv, NextIInv, PTL DEF VendorsSpec

(* However often cleanup is reached, no function of a vendor library is    *)
(* called after the library was unmapped, or on a handle given back.       *)
THEOREM VendorsCallsOnLiveHandle == VendorsSpec => []CallsOnLiveHandle
<1>1. IInv => CallsOnLiveHandle
  BY Consequences
<1> QED
  BY <1>1, InitIInv, NextIInv, PTL DEF VendorsSpec

(* Whichever call of an init fails, what the calls before it took is given *)
(* back, by the native backend at once and by the bridge's end otherwise.  *)
THEOREM VendorsNothingLeftOpen == VendorsSpec => []NothingLeftOpen
<1>1. IInv => NothingLeftOpen
  BY Consequences
<1> QED
  BY <1>1, InitIInv, NextIInv, PTL DEF VendorsSpec

(* The session that a WBF scanner closes is the only one it ever opened.   *)
THEOREM VendorsWbfSessionOwned == VendorsSpec => []WbfSessionOwned
<1>1. IInv => WbfSessionOwned
  BY Consequences
<1> QED
  BY <1>1, InitIInv, NextIInv, PTL DEF VendorsSpec
=============================================================================
