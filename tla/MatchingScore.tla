------------------------------ MODULE MatchingScore ------------------------------
(* How one listing gets its scores: the answer of the language model, the free   *)
(* local comparison of the pictures, and the paid one (Vision), one after the    *)
(* other.                                                                        *)
(* ai/ai.service.ts (matchListing), ai/matching-vision.util.ts and               *)
(* ai/local-image/. Scores are integers of 0..100; what an image engine returns  *)
(* is in tenths, since the engines round to one decimal.                         *)
EXTENDS Integers, FiniteSets

CONSTANTS ColorReject,      \* AI_LOCAL_COLOR_REJECT_THRESHOLD, in tenths
          PHashReject,      \* AI_LOCAL_PHASH_REJECT_THRESHOLD, in tenths
          PHashPass, SsimPass, SsimVision, LooksSameVision, OpenCvVision,
          Answers,          \* what the language model may answer
          EngineResults,    \* what the image engines may return
          Similarities      \* what Vision may return

Score   == 0..100
Tenths  == 0..1000
Skipped == -1               \* an engine that threw: { similarity: 0, skipped: true }
Missing == -1000            \* a number the model's answer does not have

Items == {"brand", "model", "productName", "price", "option", "color", "image",
          "description", "ocr"}

(* The environment may set any threshold. *)
ASSUME ThresholdAssumption ==
    /\ {ColorReject, PHashReject, PHashPass, SsimPass, SsimVision, LooksSameVision,
        OpenCvVision} \subseteq Int
    /\ Answers \subseteq [items : [Items -> Int], matching : Int, ai : Int]
    /\ EngineResults \subseteq [{"color", "pHash", "ssim", "looksSame", "openCv"} -> Tenths \cup {Skipped}]
    /\ Similarities \subseteq Score

Least(a, b)    == IF a <= b THEN a ELSE b
Greatest(a, b) == IF a >= b THEN a ELSE b

(* Math.round(n / d) for d > 0: halves go up, for negative n too. *)
Round(n, d) == (2 * n + d) \div (2 * d)

(* clampScore(n / d). *)
Clamp(n, d) == Greatest(0, Least(100, Round(n, d)))

-----------------------------------------------------------------------------
(* The language model's answer. *)

(* normalizeItemScores: an item it does not have counts 0. *)
ItemScores(answer) ==
    [i \in Items |-> IF answer[i] = Missing THEN 0 ELSE Clamp(answer[i], 1)]

(* weightedAverage, in hundredths: the weights are percents that add up to 100. *)
Weighted(s) == 15 * s["brand"] + 15 * s["model"] + 20 * s["productName"]
             + 10 * s["price"] + 8 * s["option"] + 7 * s["color"] + 15 * s["image"]
             + 5 * s["description"] + 5 * s["ocr"]

(* computeAiScoreFromItems, clamped: 55 % the score given, 45 % the items. *)
Blend(matching, s) == Clamp(5500 * matching + 45 * Weighted(s), 10000)

(* The scores before any picture is looked at. *)
TextScores(answer) ==
    LET s == ItemScores(answer.items)
        m == IF answer.matching = Missing THEN Clamp(Weighted(s), 100)
                                          ELSE Clamp(answer.matching, 1)
    IN  [scores |-> s, matching |-> m,
         ai |-> IF answer.ai = Missing THEN Blend(m, s) ELSE Clamp(answer.ai, 1)]

(* shouldRunVisionCompare, both pictures being there. *)
WorthComparing(t) ==
    \/ t.matching >= 50
    \/ \E i \in {"brand", "productName", "model"} : t.scores[i] >= 60

(* applyVisionToMatching, also what applyLocalToMatching does with a local       *)
(* similarity.                                                                   *)
ApplyVision(t, similarity) ==
    LET s == [t.scores EXCEPT !["image"] = similarity]
        capped == Least(t.matching, Greatest(similarity + 15, 25))
        near   == Least(t.matching, similarity + 25)
        agreed == Blend(t.matching, s)
    IN  CASE similarity < 40 ->
               [scores |-> s, matching |-> capped,
                ai |-> Least(Least(t.ai, capped), Greatest(similarity + 10, 20))]
          [] similarity >= 40 /\ similarity < 60 ->
               [scores |-> s, matching |-> near,
                ai |-> Least(Least(t.ai, similarity + 20), near)]
          [] similarity >= 60 ->
               [scores |-> s, matching |-> agreed, ai |-> Blend(agreed, s)]

-----------------------------------------------------------------------------
(* The local gate. An engine's result is a similarity in tenths, or Skipped. *)

Below(e, threshold)   == e # Skipped /\ e < threshold
AtLeast(e, threshold) == e # Skipped /\ e >= threshold

(* decideEarlyLocalGate: colour, then perceptual hash. *)
EarlyGate(color, pHash) ==
    CASE Below(color, ColorReject) ->
           [action |-> "block", local |-> Round(color, 10)]
      [] ~Below(color, ColorReject) /\ Below(pHash, PHashReject) ->
           [action |-> "block",
            local |-> Round(IF color = Skipped THEN pHash ELSE Least(pHash, color), 10)]
      [] ~Below(color, ColorReject) /\ ~Below(pHash, PHashReject)
                                    /\ AtLeast(pHash, PHashPass) ->
           [action |-> "same", local |-> Round(pHash, 10)]
      [] OTHER -> [action |-> "continue", local |-> 0]

(* decideLocalVisionGate: near duplicates need no Vision; all heavy engines      *)
(* failed leaves it to Vision; otherwise one engine must find them alike. The     *)
(* similarity handed on is the highest any engine gave.                          *)
FinalGate(e) ==
    LET results == {e[n] : n \in {"color", "pHash", "ssim", "looksSame", "openCv"}} \ {Skipped}
        best    == IF results = {} THEN 0
                   ELSE Round(CHOOSE r \in results : \A o \in results : r >= o, 10)
        failed  == \A n \in {"ssim", "looksSame", "openCv"} : e[n] = Skipped
        alike   == \/ AtLeast(e["looksSame"], LooksSameVision)
                   \/ AtLeast(e["openCv"], OpenCvVision)
                   \/ AtLeast(e["ssim"], SsimVision)
    IN  CASE AtLeast(e["ssim"], SsimPass) ->
               [action |-> "same", local |-> Round(e["ssim"], 10)]
          [] ~AtLeast(e["ssim"], SsimPass) /\ (failed \/ alike) ->
               [action |-> "vision", local |-> best]
          [] OTHER -> [action |-> "block", local |-> best]

(* MatchingLocalImageService.evaluate once both pictures are downloaded. *)
LocalGate(e) ==
    LET early == EarlyGate(e["color"], e["pHash"])
    IN  IF early.action = "continue" THEN FinalGate(e) ELSE early

-----------------------------------------------------------------------------
(* matchListing. *)

VARIABLES stage,      \* "asked", "scored", "gated" or "done"
          scores,     \* the scores so far
          seen        \* the similarity of the pictures that was applied, or Missing

vars == <<stage, scores, seen>>

None == [scores |-> [i \in Items |-> 0], matching |-> 0, ai |-> 0]

Init == stage = "asked" /\ scores = None /\ seen = Missing

Answered(answer) ==
    /\ stage = "asked"
    /\ scores' = TextScores(answer) /\ stage' = "scored"
    /\ UNCHANGED seen

(* The comparison is not wanted, a picture is missing, or it is not worth it; or  *)
(* the local comparison throws, which leaves what the text gave.                  *)
KeepText ==
    /\ stage = "scored" /\ stage' = "done"
    /\ UNCHANGED <<scores, seen>>

(* A slip of Applied: the similarity becomes the image's score and no more. *)
OnlyTheImage(t, similarity) == [t EXCEPT !.scores["image"] = similarity]

Applied(t, similarity) == ApplyVision(t, similarity)

(* The local gate compares both pictures. *)
Gate(e) ==
    /\ stage = "scored" /\ WorthComparing(scores)
    /\ IF LocalGate(e).action = "vision"
       THEN stage' = "gated" /\ UNCHANGED <<scores, seen>>
       ELSE /\ scores' = Applied(scores, LocalGate(e).local)
            /\ seen' = LocalGate(e).local /\ stage' = "done"

(* The gate is off, or a picture could not be downloaded. *)
NoGate ==
    /\ stage = "scored" /\ WorthComparing(scores)
    /\ stage' = "gated" /\ UNCHANGED <<scores, seen>>

Look(similarity) ==
    /\ stage = "gated"
    /\ scores' = Applied(scores, similarity)
    /\ seen' = similarity /\ stage' = "done"

(* Vision is not configured, or fails. *)
NoLook ==
    /\ stage = "gated" /\ stage' = "done"
    /\ UNCHANGED <<scores, seen>>

Next ==
    \/ \E answer \in Answers : Answered(answer)
    \/ \E e \in EngineResults : Gate(e)
    \/ \E similarity \in Similarities : Look(similarity)
    \/ KeepText \/ NoGate \/ NoLook

Spec == Init /\ [][Next]_vars

-----------------------------------------------------------------------------
(* Every score a listing has is one of 0..100, whatever the model answers. *)
TypeOK ==
    /\ stage \in {"asked", "scored", "gated", "done"}
    /\ scores \in [scores : [Items -> Score], matching : Score, ai : Score]
    /\ seen \in Score \cup {Missing}

(* Pictures that were compared and are unlike keep a listing out, however sure the  *)
(* text was: below 40 its score is under the 50 at which the default rules exclude *)
(* it, and below 60 it is more than ten under the 90 at which they make a case.     *)
UnlikeKeptOut ==
    seen # Missing =>
        /\ seen < 40 => scores.ai < 50
        /\ seen < 60 => scores.ai < 80

=============================================================================
