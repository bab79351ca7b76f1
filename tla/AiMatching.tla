----------------------------- MODULE AiMatching -----------------------------
(***************************************************************************)
(* The calls of AI providers made for one search: matchSearchResults of    *)
(* ai/ai.service.ts with its two passes and chunks, matchListing with its  *)
(* OCR, matching and vision calls, and the other requests (keywords,       *)
(* analysis, recommendation, report), each of one call.                    *)
(*                                                                         *)
(* Every call goes through one retry loop, complete() or compareImages(),  *)
(* and asks for one row in ai_usage_logs.  A provider's answer, an error     *)
(* that may be retried and one that may not are choices; what an answer    *)
(* says is the subject of MatchingScore and AiAnswers.                     *)
(***************************************************************************)
EXTENDS Naturals, FiniteSets, Sequences, SequencesExt

CONSTANTS
  Ranking,       \* the listings, those most similar to the order first
  Requests,      \* requests of one call
  Promising,     \* listings similar enough in title for the second pass
  Limit,         \* AI_MATCH_BATCH_LIMIT: listings of the first pass
  SecondLimit,   \* listings of the second pass
  Concurrency,   \* MATCH_CONCURRENCY
  MaxRetries,    \* AI_MAX_RETRIES
  Lossy          \* tasks whose rows the database may refuse (a bound)

Listings == ToSet(Ranking)

MatchingAssumption ==
  /\ Ranking \in Seq(Listings) /\ IsInjective(Ranking)
  /\ Promising \subseteq Listings /\ Listings \cap Requests = {}
  /\ Limit \in 1..50 /\ SecondLimit \in 0..20
  /\ Concurrency \in Nat \ {0} /\ MaxRetries \in Nat

Tasks == Listings \cup Requests

VARIABLES
  phase,     \* the pass: "one", "two" or "over"
  queue,     \* listings of the pass whose chunk has not come
  chunk,     \* listings evaluated at once
  task,      \* the call each listing or request is at, with its attempt
  results,   \* listings evaluated, in the order they are returned
  sent,      \* requests sent to a provider for each task (history variable)
  rows,      \* rows of ai_usage_logs about each task
  retried,   \* the sum of their retry counts
  lost       \* requests sent whose row was lost (history variable)

vars == <<phase, queue, chunk, task, results, sent, rows, retried, lost>>
ledger == <<sent, rows, retried, lost>>

Idle == [pc |-> "idle", attempt |-> 0]
Calling(kind) == [pc |-> kind, attempt |-> 0]
Calls == {"ocr", "matching", "vision", "request"}

Init ==
  /\ phase = "one" /\ chunk = {} /\ results = <<>>
  /\ queue = SubSeq(Ranking, 1, IF Len(Ranking) < Limit THEN Len(Ranking) ELSE Limit)
  /\ task = [t \in Tasks |-> Idle]
  /\ sent = [t \in Tasks |-> 0] /\ rows = [t \in Tasks |-> 0] /\ retried = [t \in Tasks |-> 0]
  /\ lost = [t \in Tasks |-> 0]

-----------------------------------------------------------------------------
(* The retry loop of complete() and compareImages() *)

MayRetry(n) == n < MaxRetries

NextAttempt(n) == n + 1

\* A slip: the row names the attempts left.
RetriesLeft(n) == MaxRetries - n

\* The retry count of the row.
RetryCount(n) == n

\* The provider is asked.
Asked(t) == sent' = [sent EXCEPT ![t] = @ + 1]

\* record(): the answer or the last error is written as a row, or an error of the database is
\* logged and the row is lost.  Nobody waits for the write, and nothing here reads the table:
\* rows are those that will be there when the writes are over.
Saved(t) ==
  /\ rows' = [rows EXCEPT ![t] = @ + 1]
  /\ retried' = [retried EXCEPT ![t] = @ + RetryCount(task[t].attempt)]
  /\ UNCHANGED lost

Lost(t) ==
  /\ t \in Lossy
  /\ lost' = [lost EXCEPT ![t] = @ + task[t].attempt + 1]
  /\ UNCHANGED <<rows, retried>>

Recorded(t) == Saved(t) \/ Lost(t)

\* The call is over and the task goes on with the next.
Ends(t, next) == Asked(t) /\ Recorded(t) /\ task' = [task EXCEPT ![t] = next]

\* An error that may be retried (isRetryable): the loop sleeps and asks again.
Again(t) ==
  /\ task[t].pc \in Calls /\ MayRetry(task[t].attempt)
  /\ Asked(t)
  /\ task' = [task EXCEPT ![t].attempt = NextAttempt(@)]
  /\ UNCHANGED <<phase, queue, chunk, results, rows, retried, lost>>

-----------------------------------------------------------------------------
(* matchListing *)

\* The OCR text is analysed first; an error is ignored.
Read(l) ==
  /\ task[l].pc = "ocr"
  /\ Ends(l, Calling("matching"))
  /\ UNCHANGED <<phase, queue, chunk, results>>

\* The provider scores the listing.  Its images are compared when the scores
\* are worth it, unless the local comparison blocks that or throws.
Score(l) ==
  /\ task[l].pc = "matching"
  /\ \E next \in {Calling("vision"), Calling("scored")} : Ends(l, next)
  /\ UNCHANGED <<phase, queue, chunk, results>>

\* The images are compared; an error is ignored.
Compare(l) ==
  /\ task[l].pc = "vision"
  /\ Ends(l, Calling("scored"))
  /\ UNCHANGED <<phase, queue, chunk, results>>

\* The last error of the matching call, or an answer that cannot be parsed.
Fail(l) ==
  /\ task[l].pc = "matching"
  /\ Ends(l, Calling("failed"))
  /\ UNCHANGED <<phase, queue, chunk, results>>

-----------------------------------------------------------------------------
(* matchSearchResults *)

\* matchListingsBatch: the next listings of the pass.
StartChunk ==
  /\ phase # "over" /\ chunk = {} /\ queue # <<>>
  /\ LET n == IF Len(queue) < Concurrency THEN Len(queue) ELSE Concurrency
     IN /\ chunk' = ToSet(SubSeq(queue, 1, n))
        /\ queue' = SubSeq(queue, n + 1, Len(queue))
  /\ \E withText \in SUBSET chunk' :
       task' = [t \in Tasks |-> IF t \notin chunk' THEN task[t]
                                ELSE Calling(IF t \in withText THEN "ocr" ELSE "matching")]
  /\ UNCHANGED <<phase, results, sent, rows, retried, lost>>

\* Listings in the order of the ranking, those most similar first.
Place(l) == CHOOSE i \in DOMAIN Ranking : Ranking[i] = l
InOrder(S) == {q \in [1..Cardinality(S) -> S] : \A i, j \in 1..Cardinality(S) : i < j => Place(q[i]) < Place(q[j])}

\* A slip: a listing that failed is waited for.
AllScored == \A l \in chunk : task[l].pc = "scored"

Settled == \A l \in chunk : task[l].pc \in {"scored", "failed"}

\* allSettled: what was evaluated is kept.
Fulfilled == {l \in chunk : task[l].pc = "scored"}

EndChunk ==
  /\ chunk # {} /\ Settled
  /\ \E more \in InOrder(Fulfilled) : results' = results \o more
  /\ chunk' = {}
  /\ task' = [t \in Tasks |-> IF t \in chunk THEN Idle ELSE task[t]]
  /\ UNCHANGED <<phase, queue, sent, rows, retried, lost>>

\* A slip: everything past the limit is remaining, and what failed is not.
Untried == {l \in Listings : \A i \in 1..Limit : i \in DOMAIN Ranking => Ranking[i] # l} \cup ToSet(results)

\* Listings without a result: those that the first pass did not come to, and
\* those that it failed to evaluate.
Remaining == Listings \ ToSet(results)

\* A slip: the second pass has no limit.
AllPromising == SUBSET (Remaining \cap Promising)

\* selectSecondPassTargets: at most SecondLimit of those with a similar title,
\* the best by local comparison of their images; one whose comparison throws
\* is left out.  (The pool is cut at 40 before.)
SecondTargets == {targets \in SUBSET (Remaining \cap Promising) : Cardinality(targets) <= SecondLimit}

StartSecond ==
  /\ phase = "one" /\ chunk = {} /\ queue = <<>>
  /\ phase' = "two"
  /\ \E targets \in SecondTargets : queue' \in InOrder(targets)
  /\ UNCHANGED <<chunk, task, results, ledger>>

EndMatching ==
  /\ phase = "two" /\ chunk = {} /\ queue = <<>>
  /\ phase' = "over"
  /\ UNCHANGED <<queue, chunk, task, results, ledger>>

-----------------------------------------------------------------------------
(* generateKeywords, analyzeInvestigation, generateRecommendation, generateReport *)

StartRequest(r) ==
  /\ task[r].pc = "idle"
  /\ task' = [task EXCEPT ![r] = Calling("request")]
  /\ UNCHANGED <<phase, queue, chunk, results, ledger>>

\* An answer, parsed; or the last error, or an answer that cannot be parsed, thrown to the caller.
EndRequest(r) ==
  /\ task[r].pc = "request"
  /\ Ends(r, Calling("answered")) \/ Ends(r, Calling("failed"))
  /\ UNCHANGED <<phase, queue, chunk, results>>

-----------------------------------------------------------------------------
Match(l) == Read(l) \/ Score(l) \/ Compare(l) \/ Fail(l)
Passes == StartChunk \/ EndChunk \/ StartSecond \/ EndMatching

SearchStep == Passes \/ \E l \in Listings : Match(l) \/ Again(l)
RequestStep == \E r \in Requests : StartRequest(r) \/ EndRequest(r) \/ Again(r)

Next == SearchStep \/ RequestStep

Spec == Init /\ [][Next]_vars

\* Every request to a provider is answered or times out, and the loops go on;
\* nothing obliges a provider to answer without error.
Fairness ==
  /\ WF_vars(Passes)
  /\ \A l \in Listings : WF_vars(Match(l) \/ Again(l))
  /\ \A r \in Requests : WF_vars(EndRequest(r) \/ Again(r))

FairSpec == Spec /\ Fairness

-----------------------------------------------------------------------------
TypeOK ==
  /\ phase \in {"one", "two", "over"}
  /\ queue \in Seq(Listings) /\ chunk \subseteq Listings /\ results \in Seq(Listings)
  /\ task \in [Tasks -> [pc : Calls \cup {"idle", "scored", "failed", "answered"}, attempt : 0..MaxRetries]]
  /\ sent \in [Tasks -> Nat] /\ rows \in [Tasks -> Nat] /\ retried \in [Tasks -> Nat]
  /\ lost \in [Tasks -> Nat]

\* A listing waits for its evaluation, is under it or has a result, but only one
\* of these and once: neither pass evaluates one beside itself or again after
\* success; the second takes again only what the first failed to evaluate.
OncePerListing ==
  /\ IsInjective(queue) /\ IsInjective(results)
  /\ ToSet(queue) \cap ToSet(results) = {}
  /\ chunk \cap (ToSet(queue) \cup ToSet(results)) = {}

\* The usage table accounts for every request sent: each call has one row, with
\* the number of its retries, unless the row was lost; the table is short of
\* just the lost calls with their retries, and names no request that was not
\* sent, once no call of the task is under way.
LedgerAccounts ==
  \A t \in Tasks : task[t].pc \notin Calls => sent[t] = rows[t] + retried[t] + lost[t]

\* What a search may cost: no more than Limit and SecondLimit evaluations, of at
\* most three calls each, every one asked at most MaxRetries times again.
SentUpTo[i \in 0..Len(Ranking)] == IF i = 0 THEN 0 ELSE SentUpTo[i - 1] + sent[Ranking[i]]

SpendBounded ==
  /\ \A t \in Tasks : sent[t] <= (IF t \in Requests THEN 1 ELSE 6) * (MaxRetries + 1)
  /\ SentUpTo[Len(Ranking)] <= 3 * (Limit + SecondLimit) * (MaxRetries + 1)

\* Matching ends, whatever errors the provider returns.
MatchingEnds == <>(phase = "over")
=============================================================================
