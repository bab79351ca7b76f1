------------------------------- MODULE AiAnswers -------------------------------
(* What the AI service makes of a language model's answer: the parsing and the    *)
(* defaults of keywords, OCR, analysis, recommendation and report in              *)
(* ai/ai.service.ts, and of compared pictures in the vision provider.  A field of  *)
(* an answer is what the first of its alternative names holds; an answer that is   *)
(* no JSON object ends in an error (AiMatching).                                  *)
EXTENDS Integers, Selections

CONSTANTS MaxKeywords,      \* KEYWORD_MAX_COUNT
          MaxItems,         \* actions and reasons a recommendation keeps
          KeyOf(_),         \* a keyword in lower case
          IsShort(_),       \* of less than two characters
          Words             \* the keywords an answer may hold

AnswerAssumption == MaxKeywords \in Nat \ {0} /\ MaxItems \in Nat \ {0}

(* Text: none at all (null, or no string), blank, only Markdown that is removed,  *)
(* the word "null" or "-", or something that can be read.                         *)
Blank  == {"none", "blank"}
Text   == Blank \cup {"fenced", "dash", "plain"}
Empty  == ""                \* null, or empty
Number == -1..130
NoNumber == -1              \* toNumber: undefined

Round2(n) == (n + 1) \div 2                \* Math.round(n / 2)
Within(n, low, high) == IF n < low THEN low ELSE IF n > high THEN high ELSE n

(* toPlainText and nullableString. *)
Plain(v)    == IF v \in {"plain", "dash"} THEN v ELSE Empty
Nullable(v) == IF v \in {"plain", "fenced"} THEN v ELSE Empty

(* a || b || c. *)
Or(a, b) == IF a # Empty THEN a ELSE b

(* The items of a list that are strings, in plain text, without the empty ones. *)
PlainItems(list) == Where([i \in DOMAIN list |-> Plain(list[i])], Text)

-----------------------------------------------------------------------------
(* normalizeKeywords. *)

Fresh(out, w) == \A i \in DOMAIN out : KeyOf(out[i]) # KeyOf(w)

KeywordsOf(answer) ==
    FoldLeft(LAMBDA out, w : IF ~IsShort(w) /\ Fresh(out, w) /\ Len(out) < MaxKeywords
                             THEN Append(out, w) ELSE out,
             << >>, answer)

(* analyzeOcr: the fields, and the text, which falls back on the product's name   *)
(* and the text that was given.                                                   *)
Ocr(answer) ==
    [fields |-> [f \in DOMAIN answer.fields |-> Nullable(answer.fields[f])],
     text   |-> Or(IF answer.text \in Blank THEN Empty ELSE answer.text,
                   Or(Nullable(answer.fields["productName"]), "given"))]

(* normalizeRiskLevel: anything that is not high or low is medium. *)
Risk(v) == IF v \in {"high", "low"} THEN v ELSE "medium"

Investigation(answer) ==
    [summary |-> Or(Plain(answer.summary), "no summary"),
     reasons |-> PlainItems(answer.reasons), risk |-> Risk(answer.risk)]

-----------------------------------------------------------------------------
(* generateRecommendation. The stars of an answer are in halves. *)

Stars(n) == IF n = NoNumber THEN 3 ELSE Within(Round2(n), 1, 5)

Headline(stars) == <<"low", "fair", "check", "high", "very high">>[stars]

(* A slip of Kept: what was asked for is looked at before its Markdown is removed. *)
KeptAsGiven(list) == IF list # << >> THEN PlainItems(list) ELSE <<"usual">>

(* At most MaxItems, and the usual advice when nothing is left. *)
Kept(list) ==
    LET items == PlainItems(list)
    IN  IF items = << >> THEN <<"usual">>
        ELSE SubSeq(items, 1, IF Len(items) < MaxItems THEN Len(items) ELSE MaxItems)

Recommendation(answer) ==
    [stars |-> Stars(answer.stars),
     headline |-> Or(Plain(answer.headline), Headline(Stars(answer.stars))),
     actions |-> Kept(answer.actions), reasons |-> Kept(answer.reasons)]

-----------------------------------------------------------------------------
(* buildReportDocument, from the case it is about and the answer. *)

(* a ?? b for numbers. *)
Given(a, b) == IF a # NoNumber THEN a ELSE b

(* The answer's list if it has items, the case's otherwise. *)
Items(a, b) == IF a # << >> THEN a ELSE b

(* parseEvidenceList, parseTimelineList: items without a title are left out. *)
Titled(list) == Where(list, Text \ Blank)

(* The decision somebody made of the case, or none. *)
HumanDecision(about, answer) == about.decided

(* The summary of a case without one: its findings in one text, which is empty when *)
(* none of them can be read, or a word that there is none.                          *)
Findings(list) == IF list = << >> THEN "no summary"
                  ELSE IF PlainItems(list) # << >> THEN "findings" ELSE Empty

Report(about, answer) ==
    LET rated == Given(answer.stars, about.stars)
        stars == IF rated = NoNumber THEN 0 ELSE Within(Round2(rated), 1, 5)
    IN  [title     |-> Or(Plain(answer.title), "usual"),
         summary   |-> Or(Plain(answer.summary), Or(Plain(about.summary), Findings(about.findings))),
         aiScore   |-> Within(Given(answer.aiScore, Given(about.aiScore, 0)), 0, 100),
         evidence  |-> Items(Titled(answer.evidence), about.evidence),
         timeline  |-> Items(Titled(answer.timeline), about.timeline),
         stars     |-> stars,          \* 0: null
         headline  |-> Or(Plain(answer.headline),
                          Or(Plain(about.headline), Headline(IF stars = 0 THEN 3 ELSE stars))),
         actions   |-> PlainItems(Items(answer.actions, about.actions)),
         suggested |-> Or(answer.code, "pending"),
         human     |-> HumanDecision(about, answer)]

-----------------------------------------------------------------------------
(* parseImageCompareContent of the vision provider: how alike two pictures are, as  *)
(* the model says, or else the weighted mean of how alike their parts are; both      *)
(* within 0..100, and nothing is 0.                                                 *)

Weights == [furnitureLayout |-> 35, color |-> 20, composition |-> 15, texture |-> 15,
            logo |-> 10, background |-> 5, damage |-> 0]

(* clamp(num(n)) *)
Percent(n) == IF n = NoNumber THEN 0 ELSE Within(n, 0, 100)

(* Math.round of the sum of the weighted scores. *)
Mean(scores) == (SumFunction([p \in DOMAIN Weights |-> Weights[p] * scores[p]]) + 50) \div 100

Compared(answer) ==
    LET scores == [p \in DOMAIN Weights |-> Percent(answer.scores[p])]
    IN  [scores |-> scores, similarity |-> Percent(Given(answer.similarity, Mean(scores)))]

-----------------------------------------------------------------------------
(* What was asked, and what was made of the answer. *)
VARIABLE made

NotAsked == [kind |-> "none"]

Texts(n) == SeqOf(Text, n)

AskKeywords == \E answer \in SeqOf(Words, MaxKeywords + 2) :
    made' = [kind |-> "keywords", words |-> answer, kept |-> KeywordsOf(answer)]

AskOcr == \E text \in Text, fields \in [{"productName", "price"} -> Text] :
    made' = [kind |-> "ocr", ocr |-> Ocr([text |-> text, fields |-> fields])]

AskInvestigation == \E summary \in Text, reasons \in Texts(2), risk \in {"high", "low", "none", "severe"} :
    made' = [kind |-> "analysis", risk |-> risk,
             analysis |-> Investigation([summary |-> summary, reasons |-> reasons, risk |-> risk])]

AskRecommendation ==
    \E stars \in {NoNumber, 0, 1, 5, 9, 10, 40}, headline \in Text,
       actions \in Texts(MaxItems + 1), reasons \in Texts(1) :
        made' = [kind |-> "recommendation",
                 advice |-> Recommendation([stars |-> stars, headline |-> headline,
                                         actions |-> actions, reasons |-> reasons])]

(* A case has texts somebody or an earlier answer gave it, or notes instead. *)
AskReport ==
    \E about \in [decided : {Empty, "excluded"}, stars : {NoNumber, 8}, summary : {"none", "plain"},
                  aiScore : {NoNumber, 95}, headline : {"none", "plain"},
                  findings : {<< >>, <<"fenced">>, <<"blank", "plain">>},
                  evidence : {<< >>, <<"plain">>}, timeline : {<< >>}, actions : {<<"plain">>}],
       answer \in [title : {"none", "fenced"}, summary : {"none", "plain"}, aiScore : {NoNumber, 130},
                   stars : {NoNumber, 1}, headline : {"none", "fenced"}, evidence : Texts(1),
                   timeline : {<<"blank">>}, actions : {<< >>, <<"fenced">>}, code : {Empty, "resale_confirmed"}] :
        made' = [kind |-> "report", decided |-> about.decided, findings |-> about.findings,
                 report |-> Report(about, answer)]

(* Parts that look alike to the same degree are told apart by their weights only. *)
AskImages ==
    \E similarity \in {NoNumber, -20, 55, 130}, scores \in [DOMAIN Weights -> {NoNumber, 40, 130}] :
        made' = [kind |-> "images", said |-> similarity,
                 compared |-> Compared([similarity |-> similarity, scores |-> scores])]

Init == made = NotAsked

Next == /\ made = NotAsked
        /\ AskKeywords \/ AskOcr \/ AskInvestigation \/ AskRecommendation \/ AskReport
           \/ AskImages

-----------------------------------------------------------------------------
(* Every document an answer becomes can be used: no keyword twice whatever its      *)
(* case, scores and stars in their ranges, no empty text where one is needed but   *)
(* the summary of a report on findings that cannot be read, advice in every         *)
(* recommendation, no decision in a report but a person's, and pictures as alike as *)
(* the model says, or somewhere between their parts.                                *)
Complete ==
    /\ made.kind = "keywords" =>
         /\ IsInjective([i \in DOMAIN made.kept |-> KeyOf(made.kept[i])])
         /\ Len(made.kept) <= MaxKeywords
    /\ made.kind = "recommendation" =>
         /\ made.advice.stars \in 1..5 /\ made.advice.headline # Empty
         /\ Len(made.advice.actions) \in 1..MaxItems /\ Empty \notin ToSet(made.advice.actions)
         /\ Len(made.advice.reasons) \in 1..MaxItems
    /\ made.kind = "report" =>
         /\ made.report.stars \in 0..5 /\ made.report.aiScore \in 0..100
         /\ Empty \notin {made.report.title, made.report.headline, made.report.suggested}
         /\ made.report.summary = Empty => made.findings # << >> /\ PlainItems(made.findings) = << >>
         /\ made.report.human = made.decided
         /\ ToSet(made.report.evidence) \cap Blank = {}
    /\ made.kind = "ocr" => made.ocr.text # Empty
    /\ made.kind = "analysis" => /\ made.analysis.summary # Empty
                                  /\ made.analysis.risk \in {"medium", made.risk}
    /\ made.kind = "images" =>
         LET alike == made.compared.similarity
             parts == {made.compared.scores[p] : p \in DOMAIN Weights \ {"damage"}}
         IN  /\ parts \cup {alike} \subseteq 0..100
             /\ IF made.said = NoNumber THEN /\ \E n \in parts : n <= alike
                                            /\ \E n \in parts : n >= alike
                ELSE made.said \in 0..100 => alike = made.said

=============================================================================
