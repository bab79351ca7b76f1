------------------------------ MODULE JobOutcome ------------------------------
(* What a search job does once it has its verdict: triggerAutoInvestigation of      *)
(* modules/search-job/search-job.service.ts goes through the histories that         *)
(* succeeded, has the AI match their listings, stores the scores, opens cases and   *)
(* reports to the back office, while the workers open cases for the same listings   *)
(* at the end of their crawls and operators take cases up.                          *)
(*                                                                                 *)
(* The reads and writes of one case are single steps here, except that a creation   *)
(* waits for the AI's analysis; InvestigationCase has their races.                  *)
EXTENDS Integers, FiniteSets

CONSTANTS Histories, Representative,  \* the searches of the job, and the one its row names
          Crawled,                    \* those whose worker is not done when the verdict is given
          Listings,
          Similarities, AiScores,     \* scores there may be, in percent
          ExcludeBelow, WatchFrom,    \* thresholds of the rules and of the watch list
          Batch,                      \* listings that getSearch returns
          MaxFaults                   \* bound on the errors of the job's loop

VARIABLES success,   \* the histories that ended well in time
          canMatch,  \* the AI is configured
          row,       \* of each history and listing: similarity and stored AI score
          case,      \* the case of each listing, or NoCase
          actor,     \* the loop over the listings, of the job and of each worker
          targets,   \* histories that the job has still to go through
          matched,   \* the job's history: its listings with the scores in memory
          told,      \* the callback's count of cases, or -1
          faults,    \* errors of the job's loop so far
          judged, mine  \* listings found worth a case by the job; those whose case it wrote

outcomeVars == <<success, canMatch, row, case, actor, targets, matched, told, faults, judged, mine>>

Missing == -1
Job     == "job"
Actors  == Histories \cup {Job}
NoCase  == [job |-> "none", score |-> Missing, open |-> FALSE]
HasCase(l) == case[l] # NoCase

OutcomeAssumption ==
    /\ Representative \in Histories /\ Crawled \subseteq Histories /\ Job \notin Histories
    /\ {ExcludeBelow, WatchFrom, Batch, MaxFaults} \subseteq Nat
    /\ Similarities \subseteq 0..100 /\ AiScores \subseteq 0..100
    /\ IsFiniteSet(Listings)

Idle == [pc |-> "idle", todo |-> {}, at |-> "none", new |-> "none", score |-> Missing]

Init ==
    /\ success \in SUBSET Histories \ {{}} /\ canMatch \in BOOLEAN
    /\ row \in [Histories \X Listings ->
                  [similarity : Similarities \cup {Missing}, ai : {Missing}]]
    /\ case = [l \in Listings |-> NoCase]
    /\ actor = [a \in Actors |-> IF a = Job THEN [Idle EXCEPT !.pc = "next"] ELSE Idle]
    /\ targets = success
    /\ matched = [l \in Listings |-> Missing]
    /\ told = -1 /\ faults = 0 /\ judged = {} /\ mine = {}

-----------------------------------------------------------------------------
(* The score and what it is worth. *)

Linked(h) == {l \in Listings : row[<<h, l>>].similarity # Missing}

(* computeAiScore: the AI's score, or else the similarity. *)
Score(r) == IF r.ai # Missing THEN r.ai ELSE r.similarity

Excluded(n) == n < ExcludeBelow
Worth(n)    == ~Excluded(n) /\ n >= WatchFrom

(* The first ones of a search by age, at most Batch. *)
Batches(h) == {b \in SUBSET Linked(h) :
                 Cardinality(b) = IF Cardinality(Linked(h)) <= Batch THEN Cardinality(Linked(h))
                                  ELSE Batch}

-----------------------------------------------------------------------------
(* triggerAutoInvestigation and investigateOneHistory *)

Fault  == faults < MaxFaults /\ faults' = faults + 1
At(pc) == [actor EXCEPT ![Job].pc = pc]

NextHistory(h) ==
    /\ actor[Job].pc = "next" /\ h \in targets
    /\ targets' = targets \ {h}
    /\ \E b \in Batches(h) :
          /\ actor' = [actor EXCEPT ![Job] = [Idle EXCEPT !.at = h, !.todo = b,
                          !.pc = IF canMatch /\ b # {} THEN "match" ELSE "each"]]
          /\ matched' = [l \in Listings |-> IF l \in b THEN row[<<h, l>>].ai ELSE Missing]
    /\ UNCHANGED <<success, canMatch, row, case, told, faults, judged, mine>>

(* matchSearchResults: some listings get a score, which replaces the stored one. *)
Match ==
    /\ actor[Job].pc = "match"
    /\ \E got \in [actor[Job].todo -> AiScores \cup {Missing}] :
          matched' = [l \in Listings |-> IF l \in actor[Job].todo /\ got[l] # Missing THEN got[l]
                                         ELSE matched[l]]
    /\ actor' = At("persist")
    /\ UNCHANGED <<success, canMatch, row, case, targets, told, faults, judged, mine>>

(* Its error, or that of the writes, is skipped; in the second case the scores in   *)
(* memory are used though not all are stored.                                       *)
Stored(h, ls) == [p \in DOMAIN row |-> IF p[1] = h /\ p[2] \in ls /\ matched[p[2]] # Missing
                                       THEN [row[p] EXCEPT !.ai = matched[p[2]]] ELSE row[p]]

MatchFails ==
    /\ actor[Job].pc = "match"
    /\ actor' = At("each") /\ Fault
    /\ UNCHANGED <<success, canMatch, row, case, targets, matched, told, judged, mine>>

PersistMatchingScores ==
    /\ actor[Job].pc = "persist"
    /\ row' = Stored(actor[Job].at, actor[Job].todo)
    /\ actor' = At("each")
    /\ UNCHANGED <<success, canMatch, case, targets, matched, told, faults, judged, mine>>

PersistFails ==
    /\ actor[Job].pc = "persist"
    /\ \E ls \in SUBSET actor[Job].todo : row' = Stored(actor[Job].at, ls)
    /\ actor' = At("each") /\ Fault
    /\ UNCHANGED <<success, canMatch, case, targets, matched, told, judged, mine>>

(* The job's loop over a history ends. *)
HistoryDone ==
    /\ actor[Job].pc = "each" /\ actor[Job].todo = {}
    /\ actor' = [actor EXCEPT ![Job] = [Idle EXCEPT !.pc = "next"]]
    /\ matched' = [l \in Listings |-> Missing]
    /\ UNCHANGED <<success, canMatch, row, case, targets, told, faults, judged, mine>>

-----------------------------------------------------------------------------
(* autoCreateFromSearch, called by the job, and by a worker at the end of a crawl   *)
(* that brought something, in time or not.                                          *)

StartWorker(h) ==
    /\ h \in Crawled /\ actor[h] = Idle /\ Linked(h) # {}
    /\ actor' = [actor EXCEPT ![h] = [Idle EXCEPT !.pc = "each", !.todo = Linked(h), !.at = h]]
    /\ UNCHANGED <<success, canMatch, row, case, targets, matched, told, faults, judged, mine>>

(* The job that a case is opened for: a worker looks for a job that names its       *)
(* history, and finds none but for the representative.                              *)
JobOf(a) == IF a \in {Job, Representative} THEN Job ELSE "none"

Result(a, l) == [row[<<actor[a].at, l>>] EXCEPT !.ai = IF a = Job THEN matched[l] ELSE @]

Considers(a, l) == actor[a].pc = "each" /\ l \in actor[a].todo
Passed(a, l)    == [actor EXCEPT ![a].todo = @ \ {l}]

(* Excluded: an AI result is noted in the case there is, which becomes the job's.   *)
(* Not worth a case: skipped.                                                       *)
Skip(a, l) ==
    /\ Considers(a, l)
    /\ LET r == Result(a, l)
           n == Score(r)
           noted == Excluded(n) /\ r.ai # Missing /\ HasCase(l) /\ JobOf(a) = Job
       IN  /\ ~Worth(n)
           /\ case' = [case EXCEPT ![l].job = IF noted THEN Job ELSE @]
           /\ mine' = IF noted /\ a = Job THEN mine \cup {l} ELSE mine
    /\ actor' = Passed(a, l)
    /\ UNCHANGED <<success, canMatch, row, targets, matched, told, faults, judged>>

Judged(a, l) == IF a = Job THEN judged \cup {l} ELSE judged

(* The listing has a case: an AI result brings an open one up to date. *)
Update(a, l) ==
    /\ Considers(a, l) /\ HasCase(l)
    /\ LET r == Result(a, l)
           updated == r.ai # Missing /\ case[l].open
       IN  /\ Worth(Score(r))
           /\ case' = IF updated
                      THEN [case EXCEPT ![l].score = Score(r),
                                        ![l].job = IF JobOf(a) = Job THEN Job ELSE @]
                      ELSE case
           /\ mine' = IF updated /\ a = Job THEN mine \cup {l} ELSE mine
    /\ judged' = Judged(a, l) /\ actor' = Passed(a, l)
    /\ UNCHANGED <<success, canMatch, row, targets, matched, told, faults>>

(* It has none: createCaseFromResult has the AI analyse the listing first. *)
Analyse(a, l) ==
    /\ Considers(a, l) /\ ~HasCase(l)
    /\ LET n == Score(Result(a, l))
       IN  /\ Worth(n)
           /\ actor' = [actor EXCEPT ![a].pc = "insert", ![a].todo = @ \ {l}, ![a].new = l,
                                     ![a].score = n]
    /\ judged' = Judged(a, l)
    /\ UNCHANGED <<success, canMatch, row, case, targets, matched, told, faults, mine>>

Insert(a) ==
    /\ actor[a].pc = "insert" /\ ~HasCase(actor[a].new)
    /\ LET l == actor[a].new
       IN  /\ case' = [case EXCEPT ![l] = [job |-> JobOf(a), score |-> actor[a].score, open |-> TRUE]]
           /\ mine' = IF a = Job THEN mine \cup {l} ELSE mine
    /\ actor' = [actor EXCEPT ![a].pc = "each", ![a].new = "none", ![a].score = Missing]
    /\ UNCHANGED <<success, canMatch, row, targets, matched, told, faults, judged>>

(* A case opened in the meantime, or another error: the loop ends, that of the job  *)
(* over its other histories too, and nobody is told.                                *)
InvestigationFails(a) ==
    /\ actor[a].pc \in {"each", "insert"}
    /\ IF a = Job
       THEN /\ actor' = [actor EXCEPT ![a] = [Idle EXCEPT !.pc = "next"]]
            /\ targets' = {} /\ Fault
       ELSE /\ actor' = [actor EXCEPT ![a] = [Idle EXCEPT !.pc = "over"]]
            /\ UNCHANGED <<targets, faults>>
    /\ UNCHANGED <<success, canMatch, row, case, matched, told, judged, mine>>

WorkerDone(h) ==
    /\ actor[h].pc = "each" /\ actor[h].todo = {}
    /\ actor' = [actor EXCEPT ![h] = [Idle EXCEPT !.pc = "over"]]
    /\ UNCHANGED <<success, canMatch, row, case, targets, matched, told, faults, judged, mine>>

(* An operator moves a case on. *)
TakeUp(l) ==
    /\ case[l].open /\ case' = [case EXCEPT ![l].open = FALSE]
    /\ UNCHANGED <<success, canMatch, row, actor, targets, matched, told, faults, judged, mine>>

-----------------------------------------------------------------------------
(* A slip of Reportable: the callback does not wait for the histories. *)
AtOnce == TRUE

(* The callback is sent after the loop, however that ended. *)
Reportable == targets = {}

(* countBySearchJobId *)
Counted == {l \in Listings : case[l].job = Job}

Report ==
    /\ actor[Job].pc = "next" /\ Reportable
    /\ told' = Cardinality(Counted)
    /\ actor' = At("over")
    /\ UNCHANGED <<success, canMatch, row, case, targets, matched, faults, judged, mine>>

Next ==
    \/ \E h \in Histories : NextHistory(h) \/ StartWorker(h) \/ WorkerDone(h)
    \/ Match \/ MatchFails \/ PersistMatchingScores \/ PersistFails \/ HistoryDone \/ Report
    \/ \E a \in Actors : Insert(a) \/ InvestigationFails(a)
    \/ \E a \in Actors, l \in Listings : Skip(a, l) \/ Update(a, l) \/ Analyse(a, l)
    \/ \E l \in Listings : TakeUp(l)

-----------------------------------------------------------------------------
(* When the back office is told, and nothing went wrong in the job's own loop,      *)
(* every listing of a history that succeeded has a case if its stored score is      *)
(* worth one, whoever opened it; and the cases that the job opened or brought up to *)
(* date are all in the count, one for each listing however many keywords found it.  *)
ReportedInFull ==
    told >= 0 /\ faults = 0 =>
      /\ \A h \in success : Cardinality(Linked(h)) <= Batch =>
            \A l \in Linked(h) : Worth(Score(row[<<h, l>>])) => HasCase(l)
      /\ judged \subseteq {l \in Listings : HasCase(l)}
      /\ mine \subseteq Counted /\ told >= Cardinality(mine)

=============================================================================
