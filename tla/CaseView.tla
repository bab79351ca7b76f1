-------------------------------- MODULE CaseView --------------------------------
(* From the scores of a listing and the answers of the AI service to a case on the     *)
(* dashboard: createCaseFromResult writes them into a row and its timeline, toDto reads *)
(* them back for the API, and mapServerCase of the dashboard reads the answer, with     *)
(* fallbacks of its own.  Scores are percents; 0..1 of the code is 0..100 here.        *)
EXTENDS Integers, Sequences, SequencesExt

CONSTANTS Missing,
          Scores, Measures,   \* a listing's final scores, and the measures they are made of
          Opinions,           \* the service's analyses: a summary and its reasons
          Advices             \* ... and its recommendations

ViewAssumption == /\ Missing \in Int /\ Scores \subseteq Int /\ Measures \subseteq Int
                  /\ \A o \in Opinions : o.summary \notin {"", " "} /\ " " \notin ToSet(o.reasons)
                  /\ \A a \in Advices : a.headline \notin {"", " "} /\ a.stars \in 1..5

VARIABLES listing, answers,   \* what the case is made of
          case,               \* the row
          view                \* the case on the dashboard

caseVars == <<listing, answers, case, view>>


(* The service did not answer. *)
NoOpinion == [summary |-> "", reasons |-> << >>]
NoAdvice  == [headline |-> "", stars |-> 0]
NoCase == [status |-> "none"]
NotShown == [shown |-> FALSE]

-----------------------------------------------------------------------------
(* InvestigationService, when the case is created. *)
AtMost(n, x)  == IF x > n THEN n ELSE x
AtLeast(n, x) == IF x < n THEN n ELSE x
Clamp01(n) == AtLeast(0, AtMost(100, n))

Known(n) == IF n = Missing THEN 0 ELSE n

(* The first score there is, else the better of the two likenesses. *)
ComputeAiScore(l) ==
    IF l.aiScore # Missing THEN Clamp01(l.aiScore)
    ELSE IF l.matchingScore # Missing THEN Clamp01(l.matchingScore)
    ELSE Clamp01(AtLeast(Known(l.title), Known(l.image)))

PriorityFromScore(s) == IF s >= 80 THEN "High" ELSE IF s >= 60 THEN "Medium" ELSE "Low"

(* A slip of BuildAiAnalysis: the measures are taken as they are. *)
Unclamped(l, s) ==
    [titleSimilarity |-> Known(l.title), imageSimilarity |-> Known(l.image), brandMatch |-> Known(l.brand)]

(* Of the matching, or of the likenesses and shares of the score (in hundredths). *)
BuildAiAnalysis(l, s) ==
    IF l.brand # Missing
    THEN [titleSimilarity |-> Clamp01(Known(l.title)), imageSimilarity |-> Clamp01(Known(l.image)),
          brandMatch |-> Clamp01(l.brand)]
    ELSE [titleSimilarity |-> Clamp01(IF l.title = Missing THEN (s * 96) \div 100 ELSE l.title),
          imageSimilarity |-> Clamp01(IF l.image = Missing THEN (s * 70) \div 100 ELSE l.image),
          brandMatch |-> Clamp01((s * 90) \div 100)]

Event(kind, detail) == [kind |-> kind, detail |-> detail]

(* The timeline at the creation: the analysis, the reasons it has, and the advice that   *)
(* is asked for only after it.                                                      *)
Timeline(a) ==
    <<Event("search_run", "keyword"), Event("ai_analysis", "score"), Event("investigation_created", "no")>>
    \o (IF a.opinion = NoOpinion THEN << >>
        ELSE <<Event("investigation_summary", a.opinion.summary)>>
             \o (IF a.opinion.reasons = << >> THEN << >>
                 ELSE <<Event("judgment_reasons", a.opinion.reasons)>>)
             \o (IF a.advice = NoAdvice THEN << >> ELSE <<Event("ai_recommendation", a.advice)>>))

CreateCase(l, a) ==
    LET s == ComputeAiScore(l)
    IN  [status |-> "Open", aiScore |-> s, priority |-> PriorityFromScore(s),
         aiAnalysis |-> BuildAiAnalysis(l, s), decision |-> "none", timeline |-> Timeline(a)]

-----------------------------------------------------------------------------
(* toDto. *)
OfKind(tl, k) == {i \in DOMAIN tl : tl[i].kind = k}

(* extractAiOpinion takes the last ones, extractAiRecommendation the first. *)
LastOf(tl, k)  == tl[CHOOSE i \in OfKind(tl, k) : \A j \in OfKind(tl, k) : j <= i].detail
FirstOf(tl, k) == tl[CHOOSE i \in OfKind(tl, k) : \A j \in OfKind(tl, k) : i <= j].detail

ExtractSummary(tl) == IF OfKind(tl, "investigation_summary") = {} THEN ""
                      ELSE LastOf(tl, "investigation_summary")
ExtractReasons(tl) == IF OfKind(tl, "judgment_reasons") = {} THEN << >>
                      ELSE LastOf(tl, "judgment_reasons")
ExtractAdvice(tl)  == IF OfKind(tl, "ai_recommendation") = {} THEN NoAdvice
                      ELSE FirstOf(tl, "ai_recommendation")

ToDto(c) ==
    [status |-> c.status, aiScore |-> c.aiScore, priority |-> c.priority, aiAnalysis |-> c.aiAnalysis,
     finalDecision |-> c.decision, timeline |-> c.timeline, summary |-> ExtractSummary(c.timeline),
     reasons |-> ExtractReasons(c.timeline), advice |-> ExtractAdvice(c.timeline)]

-----------------------------------------------------------------------------
(* mapServerCase.  A score above 1 is taken for a percentage. *)
NormalizeAiScore(n) == IF n > 100 /\ n <= 10000 THEN Clamp01(n \div 100) ELSE Clamp01(n)

NormalizeStatus(s) ==
    IF s \in {"Open", "Investigating", "Review", "Completed", "Archived"} THEN s
    ELSE IF s = "Cancelled" THEN "Archived" ELSE "Open"

NormalizePriority(p, s) ==
    IF p \in {"Critical", "High"} THEN "High" ELSE IF p \in {"Low", "Medium"} THEN p
    ELSE PriorityFromScore(s)

MapAnalysis(a) == [k \in DOMAIN a |-> NormalizeAiScore(a[k])]
MapDecision(d) == IF d \in {"resale_confirmed", "further_investigation", "false_positive", "excluded"}
                  THEN d ELSE "none"

(* The advice is shown in the timeline by its headline. *)
MapTimeline(tl) == [i \in DOMAIN tl |-> IF tl[i].kind = "ai_recommendation"
                                       THEN [tl[i] EXCEPT !.detail = tl[i].detail.headline] ELSE tl[i]]

(* What the API leaves empty is looked for in the timeline again. *)
MapServerCase(dto) ==
    [shown |-> TRUE, status |-> NormalizeStatus(dto.status), aiScore |-> NormalizeAiScore(dto.aiScore),
     priority |-> NormalizePriority(dto.priority, dto.aiScore), aiAnalysis |-> MapAnalysis(dto.aiAnalysis),
     decision |-> MapDecision(dto.finalDecision), timeline |-> MapTimeline(dto.timeline),
     summary |-> IF dto.summary # "" THEN dto.summary ELSE ExtractSummary(dto.timeline),
     reasons |-> IF dto.reasons # << >> THEN dto.reasons ELSE ExtractReasons(dto.timeline),
     advice  |-> IF dto.advice # NoAdvice THEN dto.advice ELSE ExtractAdvice(dto.timeline)]

-----------------------------------------------------------------------------
Init ==
    /\ listing \in [aiScore : Scores, matchingScore : Scores, title : Measures, image : Measures,
                    brand : Measures]
    /\ answers \in [opinion : Opinions \cup {NoOpinion}, advice : Advices \cup {NoAdvice}]
    /\ case = NoCase /\ view = NotShown

Create ==
    /\ case = NoCase /\ case' = CreateCase(listing, answers)
    /\ UNCHANGED <<listing, answers, view>>

(* updateStatus and applyFinalDecision write into the timeline too. *)
Advance ==
    /\ case.status = "Open"
    /\ \E d \in {"none", "excluded"} :
          case' = [case EXCEPT !.status = IF d = "none" THEN "Investigating" ELSE "Completed",
                               !.decision = d,
                               !.timeline = Append(@, Event("status_changed", d))]
    /\ UNCHANGED <<listing, answers, view>>

Show ==
    /\ case # NoCase /\ view' = MapServerCase(ToDto(case)) /\ view' # view
    /\ UNCHANGED <<listing, answers, case>>

Next == Create \/ Advance \/ Show

-----------------------------------------------------------------------------
(* What the dashboard shows of a case is what it was made of: the opinion and the advice  *)
(* of the AI service when it gave them and nothing when it did not, and measures that     *)
(* the listing has, none of them mistaken for another scale.                         *)
ShownAsMade ==
    view # NotShown =>
       /\ view.aiScore = case.aiScore /\ view.priority = case.priority
       /\ view.aiAnalysis = case.aiAnalysis
       /\ view.summary = answers.opinion.summary /\ view.reasons = answers.opinion.reasons
       /\ view.advice = IF answers.opinion = NoOpinion THEN NoAdvice ELSE answers.advice
       /\ listing.brand # Missing /\ listing.title # Missing =>
             view.aiAnalysis.titleSimilarity = Clamp01(listing.title)
=============================================================================
