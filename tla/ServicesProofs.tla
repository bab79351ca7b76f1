----------------------------- MODULE ServicesProofs -----------------------------
(***************************************************************************)
(* Proofs about Services: the queue of crawls with its DLQ, for any number  *)
(* of searches, moves, attempts and worker slots; the calls of AI           *)
(* providers, for any listings, limits and retries; and the rules and the   *)
(* prompts, by way of RuleEngineProofs and PromptVersionsProofs.            *)
(***************************************************************************)
EXTENDS Services, FiniteSetTheorems, WellFoundedInduction, TLAPS


-----------------------------------------------------------------------------
(* Types *)

\* A job the queue still tries has an attempt left.
AttemptsBounded == \A s \in Searches : queue[s] \in {"waiting", "active"} => made[s] < Attempts

\* A call under way is about a search.
CallsHaveSearches ==
  /\ \A m \in Movers : mover[m].pc # "idle" => mover[m].search \in Searches
  /\ \A r \in Retries : retry[r].pc # "idle" => retry[r].search \in Searches

TypeInv == TypeOK /\ AttemptsBounded /\ CallsHaveSearches

LEMMA TypeInit == ASSUME QueueAssumption, Init PROVE TypeInv
  BY DEF QueueAssumption, Init, TypeInv, TypeOK, AttemptsBounded, CallsHaveSearches, Idle

LEMMA TypeNext ==
  ASSUME QueueAssumption, TypeInv, [Next]_vars
  PROVE  TypeInv'
<1> USE DEF QueueAssumption, TypeInv, TypeOK, AttemptsBounded, CallsHaveSearches
<1>1. ASSUME NEW s \in Searches, Submit(s) PROVE TypeInv'
  BY <1>1 DEF Submit
<1>2. ASSUME NEW s \in Searches, Enqueue(s) PROVE TypeInv'
  BY <1>2 DEF Enqueue, AddJob
<1>3. ASSUME NEW s \in Searches, Take(s) PROVE TypeInv'
  BY <1>3 DEF Take
<1>4. ASSUME NEW s \in Searches, Finish(s) \/ Complete(s) \/ Forget(s) PROVE TypeInv'
  BY <1>4 DEF Finish, Complete, Forget
<1>5. ASSUME NEW s \in Searches, Throw(s) PROVE TypeInv'
  <2>1. made' \in [Searches -> 0..Attempts] /\ AttemptsBounded'
    BY <1>5 DEF Throw, AttemptLeft
  <2>2. /\ mover' \in [Movers -> [pc : {"idle", "check", "add", "remove"}, search : Searches \cup {"none"}]]
        /\ CallsHaveSearches'
    <3>1. /\ At("check", s) \in [pc : {"idle", "check", "add", "remove"}, search : Searches \cup {"none"}]
          /\ At("check", s).search = s
      BY DEF At
    <3>2. /\ UNCHANGED retry
          /\ \/ UNCHANGED mover
             \/ \E m \in Movers : mover' = [mover EXCEPT ![m] = At("check", s)]
      BY <1>5 DEF Throw
    <3> QED BY <3>1, <3>2
  <2> QED BY <1>5, <2>1, <2>2 DEF Throw
<1>6. ASSUME NEW m \in Movers, Mover(m) PROVE TypeInv'
  <2>1. CASE MoveCheck(m)
    BY <2>1 DEF MoveCheck
  <2>2. CASE MoveAdd(m)
    BY <2>2 DEF MoveAdd
  <2>3. CASE MoveRemove(m)
    BY <2>3 DEF MoveRemove, Idle
  <2>4. CASE MoveFails(m)
    BY <2>4 DEF MoveFails, Idle
  <2> QED BY <1>6, <2>1, <2>2, <2>3, <2>4 DEF Mover
<1>7. ASSUME NEW r \in Retries, NEW s \in Searches, RetryStart(r, s) PROVE TypeInv'
  BY <1>7 DEF RetryStart, At
<1>8. ASSUME NEW r \in Retries, RetryEnqueue(r) PROVE TypeInv'
  <2>2. queue' \in [Searches -> {"none", "waiting", "active", "completed"}]
    BY <1>8 DEF RetryEnqueue, AddJob
  <2>3. made' \in [Searches -> 0..Attempts] /\ AttemptsBounded'
    BY <1>8 DEF RetryEnqueue, AddJob
  <2>4. /\ retry' \in [Retries -> [pc : {"idle", "enqueue", "remove"}, search : Searches \cup {"none"}]]
        /\ CallsHaveSearches'
    BY <1>8 DEF RetryEnqueue
  <2> QED BY <1>8, <2>2, <2>3, <2>4 DEF RetryEnqueue
<1>9. ASSUME NEW r \in Retries, RetryRemove(r) PROVE TypeInv'
  BY <1>9 DEF RetryRemove, Idle
<1>10. CASE CrashWorker \/ CrashApi
  BY <1>10 DEF CrashWorker, CrashApi, Idle
<1>11. CASE UNCHANGED vars
  BY <1>11 DEF vars
<1> QED
  BY <1>1, <1>2, <1>3, <1>4, <1>5, <1>6, <1>7, <1>8, <1>9, <1>10, <1>11 DEF Next, Retry

-----------------------------------------------------------------------------
(* Nothing is lost while nothing crashes and nobody retries *)

\* Only a finished search has a completed job, an unsaved one has none, and a
\* move removes a job only once the DLQ has it.
MovesKeep ==
  /\ \A s \in Searches : submit[s] = "idle" => queue[s] = "none"
  /\ \A s \in Searches : queue[s] = "completed" => history[s] = "over"
  /\ \A m \in Movers : mover[m].pc = "remove" => mover[m].search \in dlq

\* Before the first retry no call of it is under way.
Calm == crashes = 0 /\ retried = {}
NoRetry == retried = {} => \A r \in Retries : retry[r].pc = "idle"
CalmInv == NoRetry /\ (Calm => NothingLost /\ MovesKeep)

LEMMA LostInit == ASSUME Init PROVE CalmInv
  BY DEF Init, CalmInv, NoRetry, NothingLost, MovesKeep, Idle

LEMMA NoRetryNext == ASSUME TypeInv, NoRetry, [Next]_vars PROVE NoRetry'
<1> USE DEF NoRetry, TypeInv, TypeOK
<1>1. CASE UNCHANGED <<retry, retried>>
  BY <1>1
<1>2. CASE \E r \in Retries : (\E s \in Searches : RetryStart(r, s)) \/ RetryEnqueue(r) \/ RetryRemove(r)
  BY <1>2 DEF RetryStart, RetryEnqueue, RetryRemove, Idle
<1>3. CASE CrashApi
  BY <1>3 DEF CrashApi, Idle
<1> QED BY <1>1, <1>2, <1>3 DEF Next, vars, Submit, Enqueue, Take, Finish, Complete, Forget, Throw, Mover,
     MoveCheck, MoveAdd, MoveRemove, MoveFails, Retry, CrashWorker

LEMMA CalmBefore == ASSUME TypeInv, Calm', [Next]_vars PROVE
    Calm /\ ~CrashWorker /\ ~CrashApi /\ \A r \in Retries, s \in Searches : ~RetryStart(r, s)
<1>1. crashes \in Nat /\ crashes' = 0 /\ retried' = {}
  BY DEF TypeInv, TypeOK, Calm
<1>2. ~CrashWorker /\ ~CrashApi /\ \A m \in Movers : ~MoveFails(m)
  BY <1>1 DEF CrashWorker, CrashApi, MoveFails
<1>3. \A r \in Retries, s \in Searches : ~RetryStart(r, s)
  BY <1>1 DEF RetryStart
<1>4. UNCHANGED <<crashes, retried>>
  BY <1>2, <1>3 DEF Next, vars, Submit, Enqueue, Take, Finish, Complete, Forget, Throw, Mover,
     MoveCheck, MoveAdd, MoveRemove, Retry, RetryEnqueue, RetryRemove
<1> QED BY <1>1, <1>2, <1>3, <1>4 DEF Calm

LEMMA LostNext ==
  ASSUME QueueAssumption, TypeInv, Calm', NoRetry, Calm => NothingLost /\ MovesKeep, [Next]_vars
  PROVE  NothingLost' /\ MovesKeep'
<1>0. Calm /\ NothingLost /\ MovesKeep
  BY CalmBefore
<1>10. \A r \in Retries : ~Retry(r)
  BY <1>0, CalmBefore DEF Calm, NoRetry, Retry, RetryEnqueue, RetryRemove
<1> USE <1>0 DEF TypeInv, TypeOK, NothingLost, MovesKeep, Moving
<1>1. ASSUME NEW s \in Searches, Submit(s) PROVE NothingLost' /\ MovesKeep'
  <2>1. \A t \in Searches : submit'[t] = "done" => submit[t] = "done" /\ history'[t] = history[t]
    BY <1>1 DEF Submit
  <2>2. queue[s] = "none" /\ \A t \in Searches \ {s} : history'[t] = history[t] /\ submit'[t] = submit[t]
    BY <1>1 DEF Submit
  <2>3. submit'[s] = "saved"
    BY <1>1 DEF Submit
  <2> QED BY <1>1, <2>1, <2>2, <2>3 DEF Submit
<1>2. ASSUME NEW s \in Searches, Enqueue(s) PROVE NothingLost' /\ MovesKeep'
  BY <1>2 DEF Enqueue, AddJob
<1>3. ASSUME NEW s \in Searches, Take(s) \/ Finish(s) PROVE NothingLost' /\ MovesKeep'
  <2>1. \A t \in Searches : queue'[t] # "none" => queue'[t] = queue[t] \/ queue'[t] = "active"
    BY <1>3 DEF Take, Finish
  <2>2. \A t \in Searches : history[t] = "over" => history'[t] = "over" \/ queue'[t] = "active"
    BY <1>3 DEF Take, Finish
  <2>3. /\ UNCHANGED <<submit, mover, dlq>>
        /\ \A t \in Searches : queue[t] # "none" => queue'[t] # "none"
        /\ \A t \in Searches : queue[t] = "none" => queue'[t] = "none"
    BY <1>3 DEF Take, Finish
  <2> QED BY <2>1, <2>2, <2>3
<1>8. ASSUME NEW s \in Searches, Complete(s) PROVE NothingLost' /\ MovesKeep'
  BY <1>8 DEF Complete
<1>9. ASSUME NEW s \in Searches, Forget(s) PROVE NothingLost' /\ MovesKeep'
  BY <1>9 DEF Forget
<1>4. ASSUME NEW s \in Searches, Throw(s) PROVE NothingLost' /\ MovesKeep'
  <2>1. CASE Exhausted(made'[s])
    <3>1. PICK m \in Movers : mover[m] = Idle /\ mover' = [mover EXCEPT ![m] = At("check", s)]
      BY <1>4, <2>1 DEF Throw
    <3>2. MovesKeep'
      BY <1>4, <3>1 DEF Throw, At
    <3>3. mover'[m].pc = "check" /\ mover'[m].search = s
      BY <3>1 DEF At
    <3>4. \A n \in Movers \ {m} : mover'[n] = mover[n]
      BY <3>1
    <3>5. \A t \in Searches \ {s} : queue'[t] = queue[t]
      BY <1>4 DEF Throw
    <3>6. mover[m].pc = "idle"
      BY <3>1 DEF Idle
    <3>7. \A t \in Searches : Moving(t, {"check", "add"}) => \E n \in Movers :
              mover'[n].pc \in {"check", "add"} /\ mover'[n].search = t
      BY <3>4, <3>6
    <3>8. \E n \in Movers : mover'[n].pc \in {"check", "add"} /\ mover'[n].search = s
      BY <3>3
    <3>9. UNCHANGED <<history, submit, dlq>>
      BY <1>4 DEF Throw
    <3> QED BY <3>2, <3>5, <3>7, <3>8, <3>9
  <2>2. CASE ~Exhausted(made'[s])
    <3>1. queue' = [queue EXCEPT ![s] = "waiting"] /\ UNCHANGED <<history, submit, mover, dlq>>
      <4>1. made'[s] = made[s] + 1 /\ made[s] \in Nat
        BY <1>4 DEF Throw
      <4>2. AttemptLeft(made'[s])
        BY <2>2, <4>1 DEF Exhausted, AttemptLeft, QueueAssumption
      <4> QED BY <1>4, <2>2, <4>2 DEF Throw
    <3> QED BY <1>4, <3>1 DEF Throw
  <2> QED BY <2>1, <2>2
<1>5. ASSUME NEW m \in Movers, Mover(m) PROVE NothingLost' /\ MovesKeep'
  <2>1. \A n \in Movers \ {m} : mover'[n] = mover[n]
    BY <1>5 DEF Mover, MoveCheck, MoveAdd, MoveRemove, MoveFails
  <2>2. ~MoveFails(m)
    BY DEF MoveFails, Calm
  <2>3. UNCHANGED <<history, submit>> /\ dlq \subseteq dlq'
    BY <1>5, <2>2 DEF Mover, MoveCheck, MoveAdd, MoveRemove
  <2>4. CASE MoveCheck(m)
    <3>1. /\ mover'[m].search = mover[m].search /\ UNCHANGED <<queue, dlq>>
          /\ (mover[m].search \in dlq /\ mover'[m].pc = "remove") \/ mover'[m].pc = "add"
      BY <2>4 DEF MoveCheck
    <3>2. MovesKeep'
      BY <2>1, <2>3, <3>1
    <3>3. ASSUME NEW t \in Searches, Moving(t, {"check", "add"})
          PROVE  Moving(t, {"check", "add"})' \/ t \in dlq
      BY <2>1, <3>1, <3>3
    <3> QED BY <2>3, <3>1, <3>2, <3>3
  <2>5. CASE MoveAdd(m)
    <3>1. /\ mover'[m].search = mover[m].search /\ mover[m].search \in dlq' /\ UNCHANGED queue
      BY <2>5 DEF MoveAdd
    <3>2. MovesKeep'
      BY <2>1, <2>3, <3>1
    <3>3. ASSUME NEW t \in Searches, Moving(t, {"check", "add"})
          PROVE  Moving(t, {"check", "add"})' \/ t \in dlq'
      BY <2>1, <3>1, <3>3
    <3> QED BY <2>3, <3>1, <3>2, <3>3
  <2>6. CASE MoveRemove(m)
    <3>1. /\ mover'[m].pc = "idle" /\ mover[m].pc = "remove" /\ mover[m].search \in dlq
          /\ \A t \in Searches \ {mover[m].search} : queue'[t] = queue[t]
          /\ \A t \in Searches : queue'[t] \in {queue[t], "none"}
      BY <2>6 DEF MoveRemove, Idle
    <3>2. MovesKeep'
      <4>1. \A t \in Searches : (submit'[t] = "idle" => queue'[t] = "none")
                                 /\ (queue'[t] = "completed" => history'[t] = "over")
        BY <2>3, <3>1
      <4>2. \A n \in Movers : mover'[n].pc = "remove" => mover'[n].search \in dlq'
        BY <2>1, <2>3, <3>1
      <4> QED BY <4>1, <4>2
    <3>3. ASSUME NEW t \in Searches, Moving(t, {"check", "add"})
          PROVE  Moving(t, {"check", "add"})'
      BY <2>1, <3>1, <3>3
    <3> QED BY <2>3, <3>1, <3>2, <3>3
  <2> QED BY <1>5, <2>2, <2>4, <2>5, <2>6 DEF Mover
<1>6. ~CrashWorker /\ ~CrashApi
  BY CalmBefore
<1>7. CASE UNCHANGED vars
  BY <1>7 DEF vars
<1> QED
  BY <1>1, <1>2, <1>3, <1>4, <1>5, <1>6, <1>7, <1>8, <1>9, <1>10 DEF Next

-----------------------------------------------------------------------------
(* One operator at a time *)

OneOperator == \A q, r \in Retries : q = r

\* A retry is about a search of the DLQ until it removes it itself.
RetriesListed == \A r \in Retries : retry[r].pc # "idle" => retry[r].search \in dlq

\* A move that has not added its search yet is the only one, its search has no
\* job, and the DLQ lists it only if the retry of it is still to remove it.
MovesAlone ==
  \A m \in Movers : mover[m].pc \in {"check", "add"} =>
    /\ submit[mover[m].search] = "done" /\ queue[mover[m].search] = "none"
    /\ mover[m].search \in dlq => mover[m].pc = "check" /\ Retrying(mover[m].search, {"remove"})
    /\ \A n \in Movers : mover[n].pc \in {"check", "add"} /\ mover[n].search = mover[m].search => n = m

\* Nothing is known of a search that is not submitted yet.
UnsubmittedUnknown ==
  \A s \in Searches : submit[s] # "done" => queue[s] = "none" /\ s \notin dlq

Home == OneHome /\ RetriesListed /\ MovesAlone /\ UnsubmittedUnknown

HomeInv == crashes = 0 => Home

LEMMA HomeInit == ASSUME Init PROVE HomeInv
  BY DEF Init, HomeInv, Home, OneHome, RetriesListed, MovesAlone, UnsubmittedUnknown, Idle

LEMMA HomeNext ==
  ASSUME QueueAssumption, OneOperator, TypeInv, HomeInv, [Next]_vars
  PROVE  HomeInv'
<1>0. SUFFICES ASSUME crashes' = 0 PROVE Home'
  BY DEF HomeInv
<1>11. ~CrashWorker /\ ~CrashApi /\ \A m \in Movers : ~MoveFails(m)
  BY <1>0 DEF CrashWorker, CrashApi, MoveFails, TypeInv, TypeOK
<1>12. crashes = 0
  BY <1>0, <1>11 DEF Next, vars, Submit, Enqueue, Take, Finish, Complete, Forget, Throw, Mover,
     MoveCheck, MoveAdd, MoveRemove, Retry, RetryStart, RetryEnqueue, RetryRemove
<1>13. Home
  BY <1>12 DEF HomeInv
<1> USE <1>0, <1>12, <1>13 DEF TypeInv, TypeOK, CallsHaveSearches, Home, OneHome, RetriesListed, MovesAlone,
            UnsubmittedUnknown, Retrying
<1>1. ASSUME NEW s \in Searches, Submit(s) PROVE Home'
  BY <1>1 DEF Submit
<1>2. ASSUME NEW s \in Searches, Enqueue(s) PROVE Home'
  BY <1>2 DEF Enqueue, AddJob
<1>3. ASSUME NEW s \in Searches, Take(s) \/ Finish(s) \/ Complete(s) \/ Forget(s) PROVE Home'
  BY <1>3 DEF Take, Finish, Complete, Forget
<1>4. ASSUME NEW s \in Searches, Throw(s) PROVE Home'
  <2>1. /\ queue[s] = "active" /\ UNCHANGED <<submit, dlq, retry>>
        /\ \A t \in Searches \ {s} : queue'[t] = queue[t]
    BY <1>4 DEF Throw
  <2>2. CASE Exhausted(made'[s])
    <3>1. PICK m \in Movers : mover[m] = Idle /\ mover' = [mover EXCEPT ![m] = At("check", s)]
      BY <1>4, <2>2 DEF Throw
    <3>2. mover[m].pc = "idle" /\ mover'[m].pc = "check" /\ mover'[m].search = s
      BY <3>1 DEF Idle, At
    <3>3. \A n \in Movers \ {m} : mover'[n] = mover[n]
      BY <3>1
    <3>4. queue'[s] = "none"
      BY <1>4, <2>2 DEF Throw, Exhausted, AttemptLeft, QueueAssumption
    <3>5. OneHome' /\ RetriesListed' /\ UnsubmittedUnknown'
      BY <2>1, <3>4
    <3>6. submit[s] = "done" /\ (s \in dlq => Retrying(s, {"remove"}))
      BY <2>1
    <3>7. \A n \in Movers \ {m} : mover[n].pc \in {"check", "add"} => mover[n].search # s
      BY <2>1
    <3>8. MovesAlone'
      BY <2>1, <3>2, <3>3, <3>4, <3>6, <3>7
    <3> QED BY <3>5, <3>8
  <2>3. CASE ~Exhausted(made'[s])
    <3>1. UNCHANGED mover
      BY <1>4, <2>3 DEF Throw
    <3> QED BY <2>1, <3>1
  <2> QED BY <2>2, <2>3
<1>5. ASSUME NEW m \in Movers, Mover(m) PROVE Home'
  <2>1. /\ \A n \in Movers \ {m} : mover'[n] = mover[n]
        /\ UNCHANGED <<submit, retry>>
    BY <1>5 DEF Mover, MoveCheck, MoveAdd, MoveRemove, MoveFails
  <2>2. CASE MoveCheck(m)
    <3>1. /\ mover'[m].search = mover[m].search /\ mover[m].pc = "check" /\ UNCHANGED <<queue, dlq>>
          /\ mover'[m].pc = IF mover[m].search \in dlq THEN "remove" ELSE "add"
      BY <2>2 DEF MoveCheck
    <3> QED BY SMTT(30), <2>1, <3>1
  <2>3. CASE MoveAdd(m)
    <3>1. /\ mover'[m].search = mover[m].search /\ mover[m].pc = "add" /\ mover'[m].pc = "remove"
          /\ dlq' = dlq \cup {mover[m].search} /\ UNCHANGED queue
      BY <2>3 DEF MoveAdd
    <3> QED BY <2>1, <3>1
  <2>4. CASE MoveRemove(m)
    <3>1. /\ mover'[m].pc = "idle" /\ UNCHANGED dlq
          /\ \A t \in Searches : queue'[t] \in {queue[t], "none"}
      BY <2>4 DEF MoveRemove, Idle
    <3>2. OneHome' /\ RetriesListed' /\ UnsubmittedUnknown'
      BY <2>1, <3>1
    <3>3. \A n \in Movers : mover'[n].pc \in {"check", "add"} => mover'[n] = mover[n]
      BY <2>1, <3>1
    <3>4. MovesAlone'
      BY <2>1, <3>1, <3>3
    <3> QED BY <3>2, <3>4
  <2> QED BY <1>5, <1>11, <2>2, <2>3, <2>4 DEF Mover
<1>6. ASSUME NEW r \in Retries, NEW s \in Searches, RetryStart(r, s) PROVE Home'
  BY <1>6 DEF RetryStart, At, OneOperator
<1>7. ASSUME NEW r \in Retries, RetryEnqueue(r) PROVE Home'
  BY <1>7 DEF RetryEnqueue, AddJob, OneOperator
<1>8. ASSUME NEW r \in Retries, RetryRemove(r) PROVE Home'
  BY <1>8 DEF RetryRemove, Idle, OneOperator
<1>10. CASE UNCHANGED vars
  BY <1>10 DEF vars
<1> QED
  BY <1>1, <1>2, <1>3, <1>4, <1>5, <1>6, <1>7, <1>8, <1>10, <1>11 DEF Next, Retry

-----------------------------------------------------------------------------
(* The calls of a search *)

TaskKind == {"ocr", "matching", "vision", "request", "idle", "scored", "failed", "answered"}

CallTypes ==
  /\ todo \in Seq(Matching!Listings) /\ chunk \subseteq Matching!Listings
  /\ results \in Seq(Matching!Listings)
  /\ task \in [Matching!Tasks -> [pc : TaskKind, attempt : Nat]]
  /\ sent \in [Matching!Tasks -> Nat] /\ rows \in [Matching!Tasks -> Nat]
  /\ recounted \in [Matching!Tasks -> Nat] /\ lost \in [Matching!Tasks -> Nat]

\* A listing has a call only in the chunk under evaluation.
CallsInChunk == \A l \in Matching!Listings \ chunk : task[l].pc = "idle"

\* The ledger, with the attempts of a call that has no row yet.
Balanced ==
  \A t \in Matching!Tasks :
    sent[t] = rows[t] + recounted[t] + lost[t] + IF task[t].pc \in Matching!Calls THEN task[t].attempt ELSE 0

Elements(q) == {q[i] : i \in 1..Len(q)}
Distinct(q) == \A i, j \in 1..Len(q) : q[i] = q[j] => i = j

\* A listing waits, is evaluated or has a result, but only one of these, and once.
OnePlace ==
  /\ Distinct(todo) /\ Distinct(results)
  /\ Elements(todo) \cap chunk = {} /\ Elements(todo) \cap Elements(results) = {}
  /\ chunk \cap Elements(results) = {}

CallInv == CallTypes /\ CallsInChunk /\ Balanced /\ OnePlace

LEMMA ListFacts ==
  ASSUME NEW S, NEW q \in Seq(S)
  PROVE  /\ DOMAIN q = 1..Len(q)
         /\ Matching!ToSet(q) = Elements(q) /\ Elements(q) \subseteq S
         /\ Matching!IsInjective(q) <=> Distinct(q)
<1>1. DOMAIN q = 1..Len(q) /\ \A i \in 1..Len(q) : q[i] \in S
  OBVIOUS
<1>2. Matching!ToSet(q) = Elements(q) /\ Elements(q) \subseteq S
  BY <1>1 DEF Matching!ToSet, Elements
<1>3. Matching!IsInjective(q) <=> Distinct(q)
  BY <1>1 DEF Matching!IsInjective, Distinct
<1> QED BY <1>1, <1>2, <1>3

\* A part of a list without repetition.
LEMMA PartOf ==
  ASSUME NEW S, NEW q \in Seq(S), Distinct(q), NEW a \in Nat, NEW b \in Nat, a >= 1, b <= Len(q)
  PROVE  /\ SubSeq(q, a, b) \in Seq(S) /\ Distinct(SubSeq(q, a, b))
         /\ Elements(SubSeq(q, a, b)) = {q[i] : i \in a..b}
<1>1. CASE a > b
  <2>1. SubSeq(q, a, b) \in Seq(S) /\ Len(SubSeq(q, a, b)) = 0
    BY <1>1
  <2>2. 1..0 = {} /\ a..b = {}
    BY <1>1
  <2> QED BY <2>1, <2>2 DEF Distinct, Elements
<1>2. CASE a <= b
  <2> DEFINE p == SubSeq(q, a, b)
  <2>1. p \in Seq(S) /\ Len(p) = b - a + 1 /\ \A i \in 1..(b - a + 1) : p[i] = q[a + i - 1]
    BY <1>2
  <2> HIDE DEF p
  <2>2. Distinct(p)
    BY <1>2, <2>1 DEF Distinct
  <2>3. \A i \in a..b : i - a + 1 \in 1..Len(p) /\ p[i - a + 1] = q[i]
    BY <1>2, <2>1
  <2>4. Elements(p) = {q[i] : i \in a..b}
    BY <1>2, <2>1, <2>3 DEF Elements
  <2> QED BY <2>1, <2>2, <2>4 DEF p
<1> QED BY <1>1, <1>2

\* Two lists without a common element.
LEMMA Joined ==
  ASSUME NEW S, NEW p \in Seq(S), NEW q \in Seq(S), Distinct(p), Distinct(q), Elements(p) \cap Elements(q) = {}
  PROVE  /\ p \o q \in Seq(S) /\ Distinct(p \o q)
         /\ Elements(p \o q) = Elements(p) \cup Elements(q)
<1> DEFINE r == p \o q
<1>1. /\ r \in Seq(S) /\ Len(r) = Len(p) + Len(q)
      /\ \A i \in 1..Len(p) : r[i] = p[i]
      /\ \A i \in (Len(p) + 1)..Len(r) : r[i] = q[i - Len(p)] /\ i - Len(p) \in 1..Len(q)
      /\ \A i \in 1..Len(q) : r[i + Len(p)] = q[i]
  OBVIOUS
<1> HIDE DEF r
<1>2. Len(p) \in Nat /\ Len(q) \in Nat
  OBVIOUS
<1>3. \A i \in 1..Len(r) : i \in 1..Len(p) \/ i \in (Len(p) + 1)..Len(r)
  BY <1>2, <1>1
<1>4. Elements(r) = Elements(p) \cup Elements(q)
  <2>1. \A i \in 1..Len(r) : r[i] \in Elements(p) \cup Elements(q)
    BY <1>1, <1>3 DEF Elements
  <2>2. \A i \in 1..Len(p) : i \in 1..Len(r) /\ r[i] = p[i]
    BY <1>1, <1>2
  <2>3. \A i \in 1..Len(q) : i + Len(p) \in 1..Len(r) /\ r[i + Len(p)] = q[i]
    BY <1>1, <1>2
  <2>4. \A i \in 1..Len(p) : p[i] \in Elements(r)
    BY <2>2 DEF Elements
  <2>5. \A i \in 1..Len(q) : q[i] \in Elements(r)
    BY <2>3 DEF Elements
  <2>6. Elements(p) \subseteq Elements(r) /\ Elements(q) \subseteq Elements(r)
    BY <2>4, <2>5 DEF Elements
  <2>7. Elements(r) \subseteq Elements(p) \cup Elements(q)
    BY <2>1 DEF Elements
  <2> QED BY <2>6, <2>7
<1>5. Distinct(r)
  <2> SUFFICES ASSUME NEW i \in 1..Len(r), NEW j \in 1..Len(r), r[i] = r[j] PROVE i = j
    BY DEF Distinct
  <2>1. CASE i \in 1..Len(p) /\ j \in 1..Len(p)
    BY <2>1, <1>1 DEF Distinct
  <2>2. CASE i \notin 1..Len(p) /\ j \notin 1..Len(p)
    <3>1. q[i - Len(p)] = q[j - Len(p)] /\ i - Len(p) \in 1..Len(q) /\ j - Len(p) \in 1..Len(q)
      BY <2>2, <1>1, <1>3
    <3>2. i - Len(p) = j - Len(p)
      BY <3>1 DEF Distinct
    <3> QED BY <3>2, <1>2
  <2>3. \A x \in 1..Len(r), y \in 1..Len(r) : x \in 1..Len(p) /\ y \notin 1..Len(p) => r[x] # r[y]
    <3>1. \A x \in 1..Len(p) : r[x] \in Elements(p)
      BY <1>1 DEF Elements
    <3>2. \A y \in (Len(p) + 1)..Len(r) : r[y] \in Elements(q)
      BY <1>1 DEF Elements
    <3> QED BY <1>3, <3>1, <3>2
  <2> QED BY <2>1, <2>2, <2>3
<1> QED BY <1>1, <1>4, <1>5 DEF r

LEMMA ListingsFinite == ASSUME ServicesAssumption PROVE IsFiniteSet(Matching!Listings)
<1>1. Ranking \in Seq(Matching!Listings)
  BY DEF ServicesAssumption, Matching!MatchingAssumption
<1>2. Ranking \in [1..Len(Ranking) -> Matching!Listings] /\ Len(Ranking) \in Nat
  BY <1>1
<1>3. \A l \in Matching!Listings : \E i \in 1..Len(Ranking) : Ranking[i] = l
  BY <1>2 DEF Matching!Listings, Matching!ToSet
<1>4. Ranking \in Surjection(1..Len(Ranking), Matching!Listings)
  BY <1>2, <1>3 DEF Surjection
<1>5. IsFiniteSet(1..Len(Ranking))
  BY <1>2, FS_Interval
<1> QED BY <1>4, <1>5, FS_Surjection

\* Listings in the order of the ranking are without repetition.
LEMMA Arranged ==
  ASSUME ServicesAssumption, NEW S, S \subseteq Matching!Listings, NEW q \in Matching!InOrder(S)
  PROVE  q \in Seq(Matching!Listings) /\ Distinct(q) /\ Elements(q) \subseteq S
<1>0. Cardinality(S) \in Nat /\ Matching!Cardinality(S) = Cardinality(S)
  <2>1. Cardinality(S) \in Nat
    BY ListingsFinite, FS_Subset, FS_CardinalityType
  <2>2. Matching!Cardinality(S) = Cardinality(S)
    BY DEF Matching!Cardinality, Cardinality
  <2> QED BY <2>1, <2>2
<1>1. q \in [1..Cardinality(S) -> S] /\ Cardinality(S) \in Nat
  BY <1>0 DEF Matching!InOrder
<1>2. q \in Seq(S) /\ Len(q) = Cardinality(S)
  BY <1>1
<1>3. \A l \in S : Matching!Place(l) \in Nat
  <2>1. Ranking \in Seq(Matching!Listings)
    BY DEF ServicesAssumption, Matching!MatchingAssumption
  <2>2. \A l \in S : \E i \in DOMAIN Ranking : Ranking[i] = l
    BY DEF Matching!Listings, Matching!ToSet
  <2>3. DOMAIN Ranking \subseteq Nat
    BY <2>1
  <2> QED BY <2>2, <2>3 DEF Matching!Place
<1>4. \A i, j \in 1..Cardinality(S) : i < j => Matching!Place(q[i]) < Matching!Place(q[j])
  BY <1>0 DEF Matching!InOrder
<1>5. Distinct(q)
  <2> SUFFICES ASSUME NEW i \in 1..Len(q), NEW j \in 1..Len(q), q[i] = q[j] PROVE i = j
    BY DEF Distinct
  <2>1. q[i] \in S
    BY <1>1, <1>2
  <2>2. Matching!Place(q[i]) \in Nat /\ Matching!Place(q[i]) = Matching!Place(q[j])
    BY <2>1, <1>3
  <2>3. ~(i < j) /\ ~(j < i)
    BY <2>2, <1>2, <1>4
  <2> QED BY <2>3, <1>1
<1>6. q \in Seq(Matching!Listings) /\ Elements(q) \subseteq S
  BY <1>1, <1>2 DEF Elements
<1> QED BY <1>5, <1>6

-----------------------------------------------------------------------------
LEMMA CallInit == ASSUME ServicesAssumption, Matching!Init PROVE CallInv
<1>1. /\ Ranking \in Seq(Matching!Listings) /\ Matching!IsInjective(Ranking)
      /\ Limit \in Nat /\ Limit >= 1
  BY DEF ServicesAssumption, Matching!MatchingAssumption
<1>2. Distinct(Ranking) /\ Len(Ranking) \in Nat
  BY <1>1, ListFacts
<1> DEFINE n == IF Len(Ranking) < Limit THEN Len(Ranking) ELSE Limit
<1>3. n \in Nat /\ n <= Len(Ranking)
  BY <1>1, <1>2
<1>4. todo = SubSeq(Ranking, 1, n) /\ results = <<>> /\ chunk = {}
  BY DEF Matching!Init
<1>5. todo \in Seq(Matching!Listings) /\ Distinct(todo)
  <2> HIDE DEF n
  <2> QED BY <1>1, <1>2, <1>3, <1>4, PartOf
<1>6. results \in Seq(Matching!Listings) /\ Distinct(results) /\ Elements(results) = {}
  BY <1>4 DEF Distinct, Elements
<1>7. /\ task = [t \in Matching!Tasks |-> [pc |-> "idle", attempt |-> 0]]
      /\ sent = [t \in Matching!Tasks |-> 0] /\ rows = [t \in Matching!Tasks |-> 0]
      /\ recounted = [t \in Matching!Tasks |-> 0] /\ lost = [t \in Matching!Tasks |-> 0]
  BY DEF Matching!Init, Matching!Idle
<1>8. CallTypes
  BY <1>4, <1>5, <1>6, <1>7 DEF CallTypes, TaskKind
<1>9. CallsInChunk /\ Balanced
  BY <1>4, <1>7 DEF CallsInChunk, Balanced, Matching!Calls, Matching!Tasks
<1>10. OnePlace
  BY <1>4, <1>5, <1>6 DEF OnePlace
<1> QED BY <1>8, <1>9, <1>10 DEF CallInv

\* A call ends with its row, or with its row lost, and the task goes on.
LEMMA EndsKeeps ==
  ASSUME CallTypes, Balanced, NEW t \in Matching!Tasks, NEW kind \in TaskKind,
         task[t].pc \in Matching!Calls, Matching!Ends(t, Matching!Calling(kind))
  PROVE  /\ Balanced'
         /\ sent' \in [Matching!Tasks -> Nat] /\ rows' \in [Matching!Tasks -> Nat]
         /\ recounted' \in [Matching!Tasks -> Nat] /\ lost' \in [Matching!Tasks -> Nat]
         /\ task' = [task EXCEPT ![t] = [pc |-> kind, attempt |-> 0]]
         /\ task' \in [Matching!Tasks -> [pc : TaskKind, attempt : Nat]]
<1>1. /\ sent' = [sent EXCEPT ![t] = @ + 1]
      /\ task' = [task EXCEPT ![t] = [pc |-> kind, attempt |-> 0]]
      /\ Matching!Saved(t) \/ Matching!Lost(t)
  BY DEF Matching!Ends, Matching!Asked, Matching!Recorded, Matching!Calling
<1>2. /\ task[t].attempt \in Nat /\ sent[t] \in Nat /\ rows[t] \in Nat
      /\ recounted[t] \in Nat /\ lost[t] \in Nat
  BY DEF CallTypes
<1>3. [pc |-> kind, attempt |-> 0] \in [pc : TaskKind, attempt : Nat]
  OBVIOUS
<1>4. /\ sent' \in [Matching!Tasks -> Nat]
      /\ task' \in [Matching!Tasks -> [pc : TaskKind, attempt : Nat]]
  BY <1>1, <1>2, <1>3 DEF CallTypes
<1>5. sent[t] = rows[t] + recounted[t] + lost[t] + task[t].attempt
  BY DEF Balanced
<1>6. sent'[t] = sent[t] + 1 /\ task'[t].attempt = 0
  BY <1>1 DEF CallTypes
<1>7. /\ rows' \in [Matching!Tasks -> Nat] /\ recounted' \in [Matching!Tasks -> Nat]
      /\ lost' \in [Matching!Tasks -> Nat]
      /\ rows'[t] + recounted'[t] + lost'[t] = rows[t] + recounted[t] + lost[t] + task[t].attempt + 1
      /\ \A u \in Matching!Tasks \ {t} :
           rows'[u] = rows[u] /\ recounted'[u] = recounted[u] /\ lost'[u] = lost[u]
  <2>1. CASE Matching!Saved(t)
    <3>1. /\ rows' = [rows EXCEPT ![t] = @ + 1] /\ lost' = lost
          /\ recounted' = [recounted EXCEPT ![t] = @ + task[t].attempt]
      BY <2>1 DEF Matching!Saved, Matching!RetryCount
    <3> QED BY <1>2, <3>1 DEF CallTypes
  <2>2. CASE Matching!Lost(t)
    <3>1. /\ rows' = rows /\ recounted' = recounted
          /\ lost' = [lost EXCEPT ![t] = @ + task[t].attempt + 1]
      BY <2>2 DEF Matching!Lost
    <3>2. lost[t] + task[t].attempt + 1 \in Nat
      BY <1>2
    <3>3. /\ lost' \in [Matching!Tasks -> Nat] /\ lost'[t] = lost[t] + task[t].attempt + 1
          /\ \A u \in Matching!Tasks \ {t} : lost'[u] = lost[u]
      BY <3>1, <3>2 DEF CallTypes
    <3> QED BY <1>2, <3>1, <3>3 DEF CallTypes
  <2> QED BY <1>1, <2>1, <2>2
<1>8. rows'[t] \in Nat /\ recounted'[t] \in Nat /\ lost'[t] \in Nat
  BY <1>7
<1>9. sent'[t] = rows'[t] + recounted'[t] + lost'[t] + 0
  BY <1>2, <1>5, <1>6, <1>7, <1>8
<1>10. ASSUME NEW u \in Matching!Tasks, u # t PROVE sent'[u] = sent[u] /\ task'[u] = task[u]
  BY <1>1, <1>10 DEF CallTypes
<1>11. Balanced'
  BY <1>6, <1>7, <1>8, <1>9, <1>10 DEF Balanced
<1> QED BY <1>1, <1>4, <1>7, <1>11

LEMMA AgainKeeps ==
  ASSUME CallInv, NEW t \in Matching!Tasks, Matching!Again(t)
  PROVE  CallInv'
<1>1. /\ sent' = [sent EXCEPT ![t] = @ + 1] /\ task[t].pc \in Matching!Calls
      /\ task' = [task EXCEPT ![t].attempt = @ + 1]
      /\ UNCHANGED <<phase, todo, chunk, results, rows, recounted, lost>>
  BY DEF Matching!Again, Matching!Asked, Matching!NextAttempt
<1>2. CallTypes /\ CallsInChunk /\ Balanced /\ OnePlace
  BY DEF CallInv
<1>3. /\ task'[t].pc = task[t].pc /\ task'[t].attempt = task[t].attempt + 1 /\ sent'[t] = sent[t] + 1
      /\ \A u \in Matching!Tasks \ {t} : task'[u] = task[u] /\ sent'[u] = sent[u]
  BY <1>1, <1>2 DEF CallTypes
<1>4. CallTypes'
  <2>1. task[t] \in [pc : TaskKind, attempt : Nat] /\ sent[t] + 1 \in Nat
    BY <1>2 DEF CallTypes
  <2>2. [task[t] EXCEPT !.attempt = @ + 1] \in [pc : TaskKind, attempt : Nat]
    BY <2>1
  <2>3. task' = [task EXCEPT ![t] = [task[t] EXCEPT !.attempt = @ + 1]]
    BY <1>1
  <2>4. task' \in [Matching!Tasks -> [pc : TaskKind, attempt : Nat]]
    <3> DEFINE next == [task[t] EXCEPT !.attempt = @ + 1]
    <3>1. next \in [pc : TaskKind, attempt : Nat] /\ task' = [task EXCEPT ![t] = next]
      BY <2>2, <2>3
    <3> HIDE DEF next
    <3> QED BY <3>1, <1>2 DEF CallTypes
  <2>5. sent' \in [Matching!Tasks -> Nat]
    BY <1>1, <1>2, <2>1 DEF CallTypes
  <2> QED BY <1>1, <1>2, <2>4, <2>5 DEF CallTypes
<1>5. CallsInChunk'
  BY <1>1, <1>2, <1>3 DEF CallsInChunk, Matching!Tasks
<1>6. Balanced'
  <2>1. task[t].attempt \in Nat /\ rows[t] \in Nat /\ recounted[t] \in Nat /\ lost[t] \in Nat /\ sent[t] \in Nat
    BY <1>2 DEF CallTypes
  <2>3. sent[t] = rows[t] + recounted[t] + lost[t] + task[t].attempt
    BY <1>1, <1>2 DEF Balanced
  <2>2. sent'[t] = rows'[t] + recounted'[t] + lost'[t] + task'[t].attempt
    BY <1>1, <1>3, <2>1, <2>3
  <2> QED BY <1>1, <1>2, <1>3, <2>2 DEF Balanced
<1>7. OnePlace'
  BY <1>1, <1>2 DEF OnePlace
<1> QED BY <1>4, <1>5, <1>6, <1>7 DEF CallInv

\* One call of a listing, whatever the provider answers.
LEMMA MatchKeeps ==
  ASSUME CallInv, NEW l \in Matching!Listings, Matching!Match(l)
  PROVE  CallInv'
<1>1. /\ UNCHANGED <<todo, chunk, results>> /\ task[l].pc \in Matching!Calls
      /\ \E kind \in TaskKind : Matching!Ends(l, Matching!Calling(kind))
  BY DEF Matching!Match, Matching!Read, Matching!Score, Matching!Compare, Matching!Fail, Matching!Calls, TaskKind
<1>2. CallTypes /\ CallsInChunk /\ Balanced /\ OnePlace
  BY DEF CallInv
<1>3. l \in Matching!Tasks
  BY DEF Matching!Tasks
<1>4. PICK kind \in TaskKind : Matching!Ends(l, Matching!Calling(kind))
  BY <1>1
<1>5. /\ Balanced'
      /\ sent' \in [Matching!Tasks -> Nat] /\ rows' \in [Matching!Tasks -> Nat]
      /\ recounted' \in [Matching!Tasks -> Nat] /\ lost' \in [Matching!Tasks -> Nat]
      /\ task' = [task EXCEPT ![l] = [pc |-> kind, attempt |-> 0]]
      /\ task' \in [Matching!Tasks -> [pc : TaskKind, attempt : Nat]]
  BY <1>1, <1>2, <1>3, <1>4, EndsKeeps
<1>6. CallTypes'
  BY <1>1, <1>2, <1>5 DEF CallTypes
<1>7. l \in chunk
  BY <1>1, <1>2 DEF CallsInChunk, Matching!Calls
<1>8. CallsInChunk'
  BY <1>1, <1>2, <1>5, <1>7 DEF CallsInChunk, CallTypes, Matching!Tasks
<1>9. OnePlace'
  BY <1>1, <1>2 DEF OnePlace
<1> QED BY <1>5, <1>6, <1>8, <1>9 DEF CallInv

LEMMA RequestKeeps ==
  ASSUME ServicesAssumption, CallInv, NEW r \in Requests, Matching!StartRequest(r) \/ Matching!EndRequest(r)
  PROVE  CallInv'
<1>1. UNCHANGED <<todo, chunk, results>>
  BY DEF Matching!StartRequest, Matching!EndRequest
<1>2. CallTypes /\ CallsInChunk /\ Balanced /\ OnePlace
  BY DEF CallInv
<1>3. r \in Matching!Tasks /\ r \notin Matching!Listings
  BY DEF Matching!Tasks, ServicesAssumption, Matching!MatchingAssumption
<1>4. /\ Balanced' /\ CallTypes'
      /\ \A l \in Matching!Listings : task'[l] = task[l]
  <2>1. CASE Matching!StartRequest(r)
    <3>1. /\ task' = [task EXCEPT ![r] = [pc |-> "request", attempt |-> 0]] /\ task[r].pc = "idle"
          /\ UNCHANGED <<sent, rows, recounted, lost>>
      BY <2>1 DEF Matching!StartRequest, Matching!Calling, Matching!ledger
    <3>2. [pc |-> "request", attempt |-> 0] \in [pc : TaskKind, attempt : Nat]
      BY DEF TaskKind
    <3>3. task' \in [Matching!Tasks -> [pc : TaskKind, attempt : Nat]]
      BY <1>2, <3>1, <3>2 DEF CallTypes
    <3>4. CallTypes'
      BY <1>1, <1>2, <3>1, <3>3 DEF CallTypes
    <3>5. task'[r].attempt = 0 /\ \A t \in Matching!Tasks \ {r} : task'[t] = task[t]
      BY <1>2, <1>3, <3>1 DEF CallTypes
    <3>6. sent[r] = rows[r] + recounted[r] + lost[r] + 0
      BY <1>2, <1>3, <3>1 DEF Balanced, Matching!Calls
    <3>7. Balanced'
      BY <1>2, <3>1, <3>5, <3>6 DEF Balanced
    <3> QED BY <1>3, <3>4, <3>5, <3>7 DEF Matching!Tasks
  <2>2. CASE Matching!EndRequest(r)
    <3>1. PICK kind \in TaskKind : Matching!Ends(r, Matching!Calling(kind))
      BY <2>2 DEF Matching!EndRequest, TaskKind
    <3>2. task[r].pc \in Matching!Calls
      BY <2>2 DEF Matching!EndRequest, Matching!Calls
    <3>3. /\ Balanced'
          /\ sent' \in [Matching!Tasks -> Nat] /\ rows' \in [Matching!Tasks -> Nat]
          /\ recounted' \in [Matching!Tasks -> Nat] /\ lost' \in [Matching!Tasks -> Nat]
          /\ task' = [task EXCEPT ![r] = [pc |-> kind, attempt |-> 0]]
          /\ task' \in [Matching!Tasks -> [pc : TaskKind, attempt : Nat]]
      BY <1>2, <1>3, <3>1, <3>2, EndsKeeps
    <3>4. CallTypes'
      BY <1>1, <1>2, <3>3 DEF CallTypes
    <3> QED BY <1>2, <1>3, <3>3, <3>4 DEF CallTypes, Matching!Tasks
  <2> QED BY <2>1, <2>2
<1>5. CallsInChunk'
  BY <1>1, <1>2, <1>4 DEF CallsInChunk
<1>6. OnePlace'
  BY <1>1, <1>2 DEF OnePlace
<1> QED BY <1>4, <1>5, <1>6 DEF CallInv

LEMMA StartChunkKeeps ==
  ASSUME ServicesAssumption, CallInv, Matching!StartChunk
  PROVE  CallInv'
<1>1. CallTypes /\ CallsInChunk /\ Balanced /\ OnePlace
  BY DEF CallInv
<1>2. chunk = {} /\ UNCHANGED <<results, sent, rows, recounted, lost>>
  BY DEF Matching!StartChunk
<1>3. todo \in Seq(Matching!Listings) /\ Len(todo) \in Nat /\ MatchConcurrency \in Nat
  BY <1>1 DEF CallTypes, ServicesAssumption, Matching!MatchingAssumption
<1> DEFINE n == IF Len(todo) < MatchConcurrency THEN Len(todo) ELSE MatchConcurrency
<1>4. /\ n \in 0..Len(todo)
      /\ chunk' = Matching!ToSet(SubSeq(todo, 1, n)) /\ todo' = SubSeq(todo, n + 1, Len(todo))
  BY <1>3 DEF Matching!StartChunk
<1>5. PICK withText \in SUBSET chunk' :
        task' = [t \in Matching!Tasks |-> IF t \notin chunk' THEN task[t]
                   ELSE Matching!Calling(IF t \in withText THEN "ocr" ELSE "matching")]
  BY DEF Matching!StartChunk
<1> HIDE DEF n
<1>6. /\ SubSeq(todo, 1, n) \in Seq(Matching!Listings)
      /\ Elements(SubSeq(todo, 1, n)) = {todo[i] : i \in 1..n}
      /\ todo' \in Seq(Matching!Listings) /\ Distinct(todo')
      /\ Elements(todo') = {todo[i] : i \in (n + 1)..Len(todo)}
  <2>1. Distinct(todo) /\ n \in Nat /\ n + 1 \in Nat /\ n + 1 >= 1 /\ n <= Len(todo)
    BY <1>1, <1>3, <1>4 DEF OnePlace
  <2>2. /\ SubSeq(todo, 1, n) \in Seq(Matching!Listings)
        /\ Elements(SubSeq(todo, 1, n)) = {todo[i] : i \in 1..n}
    BY <1>3, <2>1, PartOf
  <2>3. /\ SubSeq(todo, n + 1, Len(todo)) \in Seq(Matching!Listings)
        /\ Distinct(SubSeq(todo, n + 1, Len(todo)))
        /\ Elements(SubSeq(todo, n + 1, Len(todo))) = {todo[i] : i \in (n + 1)..Len(todo)}
    BY <1>3, <2>1, PartOf
  <2> QED BY <1>4, <2>2, <2>3, Zenon
<1>7. chunk' = {todo[i] : i \in 1..n} /\ chunk' \subseteq Matching!Listings
  <2> DEFINE first == SubSeq(todo, 1, n)
  <2>1. first \in Seq(Matching!Listings) /\ chunk' = Matching!ToSet(first)
        /\ Elements(first) = {todo[i] : i \in 1..n}
    BY <1>4, <1>6
  <2> HIDE DEF first
  <2> QED BY <2>1, ListFacts
<1>8. CallTypes'
  <2>1. \A t \in chunk' : Matching!Calling(IF t \in withText THEN "ocr" ELSE "matching")
                            \in [pc : TaskKind, attempt : Nat]
    BY DEF Matching!Calling, TaskKind
  <2>2. task' \in [Matching!Tasks -> [pc : TaskKind, attempt : Nat]]
    BY <1>1, <1>5, <2>1 DEF CallTypes
  <2> QED BY <1>1, <1>2, <1>6, <1>7, <2>2 DEF CallTypes
<1>9. CallsInChunk'
  BY <1>1, <1>2, <1>5 DEF CallsInChunk, Matching!Tasks
<1>10. Balanced'
  <2> SUFFICES ASSUME NEW t \in Matching!Tasks
               PROVE  (sent[t] = rows[t] + recounted[t] + lost[t] +
                         IF task[t].pc \in Matching!Calls THEN task[t].attempt ELSE 0)'
    BY DEF Balanced
  <2>1. CASE t \notin chunk'
    <3>1. task'[t] = task[t]
      BY <1>5, <2>1
    <3> QED BY <1>1, <1>2, <3>1 DEF Balanced
  <2>2. CASE t \in chunk'
    <3>1. task[t].pc = "idle"
      BY <1>1, <1>2, <1>7, <2>2 DEF CallsInChunk
    <3>2. sent[t] = rows[t] + recounted[t] + lost[t] + 0 /\ rows[t] \in Nat /\ recounted[t] \in Nat /\ lost[t] \in Nat
      BY <1>1, <3>1 DEF Balanced, CallTypes, Matching!Calls
    <3>3. task'[t].attempt = 0
      BY <1>5, <2>2 DEF Matching!Calling
    <3> QED BY <1>2, <3>2, <3>3
  <2> QED BY <2>1, <2>2
<1>11. OnePlace'
  <2>1. /\ Distinct(results') /\ Elements(todo) \cap Elements(results) = {} /\ Distinct(todo)
    BY <1>1, <1>2 DEF OnePlace
  <2>2. chunk' \subseteq Elements(todo) /\ Elements(todo') \subseteq Elements(todo)
    BY <1>3, <1>4, <1>6, <1>7 DEF Elements
  <2>3. Elements(todo') \cap chunk' = {}
    BY <1>3, <1>4, <1>6, <1>7, <2>1 DEF Distinct
  <2>4. Elements(results') = Elements(results)
    BY <1>2 DEF Elements
  <2> QED BY <1>6, <2>1, <2>2, <2>3, <2>4 DEF OnePlace
<1> QED BY <1>8, <1>9, <1>10, <1>11 DEF CallInv

\* The listings that were evaluated get their result, the others may be taken again.
LEMMA EndChunkKeeps ==
  ASSUME ServicesAssumption, CallInv, Matching!EndChunk
  PROVE  CallInv'
<1>1. CallTypes /\ CallsInChunk /\ Balanced /\ OnePlace
  BY DEF CallInv
<1>2. /\ UNCHANGED <<todo, sent, rows, recounted, lost>> /\ chunk' = {}
      /\ task' = [t \in Matching!Tasks |-> IF t \in chunk THEN [pc |-> "idle", attempt |-> 0] ELSE task[t]]
      /\ \A l \in chunk : task[l].pc \in {"scored", "failed"}
  BY DEF Matching!EndChunk, Matching!Settled, Matching!Idle
<1>3. PICK more \in Matching!InOrder(Matching!Fulfilled) : results' = results \o more
  BY DEF Matching!EndChunk
<1>4. Matching!Fulfilled \subseteq chunk /\ chunk \subseteq Matching!Listings
  BY <1>1 DEF CallTypes, Matching!Fulfilled
<1>5. more \in Seq(Matching!Listings) /\ Distinct(more) /\ Elements(more) \subseteq chunk
  BY <1>3, <1>4, Arranged
<1>6. /\ results' \in Seq(Matching!Listings) /\ Distinct(results')
      /\ Elements(results') = Elements(results) \cup Elements(more)
  <2>1. /\ results \in Seq(Matching!Listings) /\ Distinct(results)
        /\ Elements(results) \cap Elements(more) = {}
    BY <1>1, <1>5 DEF CallTypes, OnePlace
  <2> QED BY <1>3, <1>5, <2>1, Joined
<1>7. CallTypes'
  <2>1. [pc |-> "idle", attempt |-> 0] \in [pc : TaskKind, attempt : Nat]
    BY DEF TaskKind
  <2>2. task' \in [Matching!Tasks -> [pc : TaskKind, attempt : Nat]]
    BY <1>1, <1>2, <2>1 DEF CallTypes
  <2> QED BY <1>1, <1>2, <1>6, <2>2 DEF CallTypes
<1>8. CallsInChunk'
  BY <1>1, <1>2 DEF CallsInChunk, Matching!Tasks
<1>9. Balanced'
  <2> SUFFICES ASSUME NEW t \in Matching!Tasks
               PROVE  (sent[t] = rows[t] + recounted[t] + lost[t] +
                         IF task[t].pc \in Matching!Calls THEN task[t].attempt ELSE 0)'
    BY DEF Balanced
  <2>1. CASE t \notin chunk
    <3>1. task'[t] = task[t]
      BY <1>2, <2>1
    <3> QED BY <1>1, <1>2, <3>1 DEF Balanced
  <2>2. CASE t \in chunk
    <3>1. task[t].pc \notin Matching!Calls
      BY <1>2, <2>2 DEF Matching!Calls
    <3>2. sent[t] = rows[t] + recounted[t] + lost[t] + 0 /\ rows[t] \in Nat /\ recounted[t] \in Nat /\ lost[t] \in Nat
      BY <1>1, <3>1 DEF Balanced, CallTypes
    <3>3. task'[t].attempt = 0
      BY <1>2, <2>2
    <3> QED BY <1>2, <3>2, <3>3
  <2> QED BY <2>1, <2>2
<1>10. OnePlace'
  <2>1. Elements(todo') = Elements(todo) /\ Distinct(todo')
    BY <1>1, <1>2 DEF OnePlace, Elements
  <2>2. Elements(todo) \cap chunk = {} /\ Elements(todo) \cap Elements(results) = {}
    BY <1>1 DEF OnePlace
  <2> QED BY <1>2, <1>5, <1>6, <2>1, <2>2 DEF OnePlace
<1> QED BY <1>7, <1>8, <1>9, <1>10 DEF CallInv

\* The second pass takes only listings without a result.
LEMMA SecondKeeps ==
  ASSUME ServicesAssumption, CallInv, Matching!StartSecond \/ Matching!EndMatching
  PROVE  CallInv'
<1>1. CallTypes /\ CallsInChunk /\ Balanced /\ OnePlace
  BY DEF CallInv
<1>2. UNCHANGED <<chunk, task, results, sent, rows, recounted, lost>> /\ chunk = {}
  BY DEF Matching!StartSecond, Matching!EndMatching, Matching!ledger
<1>3. /\ todo' \in Seq(Matching!Listings) /\ Distinct(todo')
      /\ Elements(todo') \cap Elements(results) = {}
  <2>1. CASE Matching!StartSecond
    <3>1. PICK targets \in Matching!SecondTargets : todo' \in Matching!InOrder(targets)
      BY <2>1 DEF Matching!StartSecond
    <3>2. Matching!ToSet(results) = Elements(results)
      BY <1>1, ListFacts DEF CallTypes
    <3>3. targets \subseteq Matching!Listings /\ targets \cap Elements(results) = {}
      BY <3>1, <3>2 DEF Matching!SecondTargets, Matching!Remaining
    <3> QED BY <3>1, <3>3, Arranged
  <2>2. CASE Matching!EndMatching
    BY <1>1, <2>2 DEF Matching!EndMatching, CallTypes, OnePlace
  <2> QED BY <2>1, <2>2
<1>4. CallTypes' /\ CallsInChunk' /\ Balanced'
  BY <1>1, <1>2, <1>3 DEF CallTypes, CallsInChunk, Balanced
<1>5. OnePlace'
  BY <1>1, <1>2, <1>3 DEF OnePlace, Elements
<1> QED BY <1>4, <1>5 DEF CallInv

LEMMA CallNext ==
  ASSUME ServicesAssumption, CallInv, [Matching!Next]_matchingVars
  PROVE  CallInv'
<1>1. CASE Matching!Passes
  BY <1>1, StartChunkKeeps, EndChunkKeeps, SecondKeeps DEF Matching!Passes
<1>2. ASSUME NEW l \in Matching!Listings, Matching!Match(l) \/ Matching!Again(l) PROVE CallInv'
  <2>1. l \in Matching!Tasks
    BY DEF Matching!Tasks
  <2> QED BY <1>2, <2>1, MatchKeeps, AgainKeeps
<1>3. ASSUME NEW r \in Requests,
             Matching!StartRequest(r) \/ Matching!EndRequest(r) \/ Matching!Again(r)
      PROVE  CallInv'
  <2>1. r \in Matching!Tasks
    BY DEF Matching!Tasks
  <2> QED BY <1>3, <2>1, RequestKeeps, AgainKeeps
<1>4. CASE UNCHANGED matchingVars
  BY <1>4 DEF matchingVars, CallInv, CallTypes, CallsInChunk, Balanced, OnePlace
<1> QED
  BY <1>1, <1>2, <1>3, <1>4 DEF Matching!Next, Matching!SearchStep, Matching!RequestStep

LEMMA CallMeans == ASSUME CallInv PROVE OncePerListing /\ LedgerAccounts
<1>1. OncePerListing
  <2>1. /\ Matching!ToSet(todo) = Elements(todo) /\ Matching!ToSet(results) = Elements(results)
        /\ Matching!IsInjective(todo) <=> Distinct(todo)
        /\ Matching!IsInjective(results) <=> Distinct(results)
    BY ListFacts DEF CallInv, CallTypes
  <2> QED BY <2>1 DEF CallInv, OnePlace, OncePerListing, Matching!OncePerListing
<1>2. LedgerAccounts
  <2>1. \A t \in Matching!Tasks : rows[t] \in Nat /\ recounted[t] \in Nat /\ lost[t] \in Nat
    BY DEF CallInv, CallTypes
  <2> QED BY <2>1 DEF CallInv, Balanced, LedgerAccounts, Matching!LedgerAccounts
<1> QED BY <1>1, <1>2

-----------------------------------------------------------------------------
(* What a search costs *)

\* A set of natural numbers has a least one; so what holds of 0, and of a number after any of which
\* it holds, holds of all.
LEMMA Least == ASSUME NEW T, T \subseteq Nat, T # {} PROVE \E x \in T : \A y \in T : x <= y
<1>1. \E R : /\ \E x \in T : \A y \in T : ~ (<<y, x>> \in R)
             /\ \A x, y \in Nat : <<y, x>> \in R <=> y < x
  <2>1. \E x \in T : \A y \in T : ~ (<<y, x>> \in OpToRel(<, Nat))
    BY WFMin, NatLessThanWellFounded, Zenon
  <2>2. \A x, y \in Nat : <<y, x>> \in OpToRel(<, Nat) <=> y < x
    BY DEF OpToRel
  <2> QED BY <2>1, <2>2, Zenon
<1>2. PICK R : /\ \E x \in T : \A y \in T : ~ (<<y, x>> \in R)
               /\ \A x, y \in Nat : <<y, x>> \in R <=> y < x
  BY <1>1, Zenon
<1>3. PICK x \in T : \A y \in T : ~ (<<y, x>> \in R)
  BY <1>2, Zenon
<1>4. ASSUME NEW y \in T PROVE x <= y
  <2>1. x \in Nat /\ y \in Nat
    OBVIOUS
  <2>2. ~(y < x)
    BY <1>2, <1>3, <2>1, Zenon
  <2> QED BY <2>1, <2>2
<1> QED BY <1>4

LEMMA Induction ==
  ASSUME NEW T, T \subseteq Nat, 0 \in T, \A n \in T : n + 1 \in T
  PROVE  T = Nat
<1>1. SUFFICES ASSUME Nat \ T # {} PROVE FALSE
  OBVIOUS
<1>2. PICK x \in Nat \ T : \A y \in Nat \ T : x <= y
  BY <1>1, Least
<1>3. x - 1 \in T
  BY <1>2
<1> QED BY <1>2, <1>3

\* A sum along a list is what its recursive definition says.
Summed(g, a, n) == g = [i \in 0..n |-> IF i = 0 THEN 0 ELSE g[i - 1] + a[i]]

LEMMA SumExists == ASSUME NEW a, NEW m \in Nat PROVE \E g : Summed(g, a, m)
<1> DEFINE T == {n \in Nat : \E g : Summed(g, a, n)}
<1>1. 0 \in T
  <2>1. Summed([i \in 0..0 |-> 0], a, 0)
    BY DEF Summed
  <2> QED BY <2>1
<1>2. ASSUME NEW n \in T PROVE n + 1 \in T
  <2>1. PICK g : Summed(g, a, n)
    OBVIOUS
  <2> DEFINE h == [i \in 0..(n + 1) |-> IF i = n + 1 THEN g[n] + a[n + 1] ELSE g[i]]
  <2>2. \A i \in 0..n : g[i] = IF i = 0 THEN 0 ELSE g[i - 1] + a[i]
    BY <2>1 DEF Summed
  <2>3. \A i \in 0..(n + 1) : h[i] = IF i = 0 THEN 0 ELSE h[i - 1] + a[i]
    BY <2>2
  <2>4. h = [i \in 0..(n + 1) |-> h[i]]
    OBVIOUS
  <2> HIDE DEF h
  <2>5. Summed(h, a, n + 1)
    BY <2>3, <2>4 DEF Summed
  <2> QED BY <2>5
<1> HIDE DEF T
<1>3. T = Nat
  <2>1. T \subseteq Nat
    BY DEF T
  <2> QED BY <1>1, <1>2, <2>1, Induction
<1> QED BY <1>3 DEF T

LEMMA SentIsSum ==
  ASSUME ServicesAssumption
  PROVE  \A i \in 0..Len(Ranking) :
           Matching!SentUpTo[i] = IF i = 0 THEN 0 ELSE Matching!SentUpTo[i - 1] + sent[Ranking[i]]
<1> DEFINE a == [i \in Nat |-> sent[Ranking[i]]]
<1>1. Len(Ranking) \in Nat
  BY DEF ServicesAssumption, Matching!MatchingAssumption
<1>2. \E g : g = [i \in 0..Len(Ranking) |-> IF i = 0 THEN 0 ELSE g[i - 1] + sent[Ranking[i]]]
  <2>1. PICK g : Summed(g, a, Len(Ranking))
    BY <1>1, SumExists
  <2>2. \A i \in 0..Len(Ranking) : a[i] = sent[Ranking[i]]
    BY <1>1
  <2>3. g = [i \in 0..Len(Ranking) |-> IF i = 0 THEN 0 ELSE g[i - 1] + sent[Ranking[i]]]
    BY <2>1, <2>2 DEF Summed
  <2> QED BY <2>3
<1>3. Matching!SentUpTo = [i \in 0..Len(Ranking) |->
         IF i = 0 THEN 0 ELSE Matching!SentUpTo[i - 1] + sent[Ranking[i]]]
  BY <1>2, Zenon DEF Matching!SentUpTo
<1> QED BY <1>3

LEMMA Times ==
  ASSUME NEW c \in Nat, NEW x \in Nat, NEW y \in Nat
  PROVE  c * x \in Nat /\ c * (x + 1) = c * x + c /\ (x <= y => c * x <= c * y)
         /\ c * x + c * y = c * (x + y)
<1>1. c * (x + 1) = c * x + c /\ c * x + c * y = c * (x + y)
  BY SMTT(30)
<1>2. c * x \in Nat
  BY SMTT(30)
<1>3. x <= y => c * x <= c * y
  <2> SUFFICES ASSUME x <= y PROVE c * x <= c * y
    OBVIOUS
  <2>1. PICK d \in Nat : y = x + d
    <3>1. y - x \in Nat /\ y = x + (y - x)
      OBVIOUS
    <3> QED BY <3>1
  <2>2. c * y = c * x + c * d
    BY <2>1, SMTT(30)
  <2>3. c * d \in Nat /\ c * x \in Nat
    BY SMTT(30)
  <2> QED BY <2>2, <2>3
<1> QED BY <1>1, <1>2, <1>3

Cost == MaxRetries + 1

\* The listings of the first pass.
First == {Ranking[i] : i \in {j \in 1..Len(Ranking) : j <= Limit}}

\* The sum over listings that cost at most c in each of the passes they are in.
LEMMA SumBound ==
  ASSUME ServicesAssumption, CallTypes, NEW B, B \subseteq Matching!Listings, Cardinality(B) <= SecondLimit,
         NEW c \in Nat,
         \A l \in Matching!Listings : sent[l] <= (IF l \in First THEN c ELSE 0) + (IF l \in B THEN c ELSE 0)
  PROVE  Matching!SentUpTo[Len(Ranking)] <= c * (Limit + SecondLimit)
<1> DEFINE N == Len(Ranking)
           Met(i) == {Ranking[j] : j \in 1..i} \cap B
           Turns(i) == IF i <= Limit THEN i ELSE Limit
           T == {n \in Nat : n <= N => /\ Matching!SentUpTo[n] \in Nat
                                       /\ Matching!SentUpTo[n] <= c * Turns(n) + c * Cardinality(Met(n))}
<1>1. /\ Ranking \in Seq(Matching!Listings) /\ N \in Nat /\ Limit \in Nat /\ SecondLimit \in Nat
      /\ Distinct(Ranking)
  BY ListFacts DEF ServicesAssumption, Matching!MatchingAssumption
<1>2. IsFiniteSet(B) /\ \A i \in Nat : IsFiniteSet(Met(i)) /\ Cardinality(Met(i)) \in Nat
  BY ListingsFinite, FS_Subset, FS_CardinalityType
<1>3. 0 \in T
  <2>1. Matching!SentUpTo[0] = 0
    BY <1>1, SentIsSum
  <2>2. Met(0) = {} /\ Turns(0) = 0
    BY <1>1
  <2>3. Cardinality(Met(0)) = 0
    BY <2>2, FS_EmptySet
  <2> QED BY <2>1, <2>2, <2>3
<1>4. ASSUME NEW n \in T PROVE n + 1 \in T
  <2>0. n \in Nat
    OBVIOUS
  <2> SUFFICES ASSUME n + 1 <= N
               PROVE  /\ Matching!SentUpTo[n + 1] \in Nat
                      /\ Matching!SentUpTo[n + 1] <= c * Turns(n + 1) + c * Cardinality(Met(n + 1))
    BY <2>0
  <2> DEFINE l == Ranking[n + 1]
  <2>1. /\ Matching!SentUpTo[n] \in Nat
        /\ Matching!SentUpTo[n] <= c * Turns(n) + c * Cardinality(Met(n))
    BY <1>1
  <2>2. n + 1 \in 1..N /\ l \in Matching!Listings /\ sent[l] \in Nat
    <3>1. n + 1 \in 1..N
      BY <1>1, <2>0
    <3>2. l \in Matching!Listings
      BY <1>1, <3>1
    <3> QED BY <3>1, <3>2 DEF CallTypes, Matching!Tasks
  <2>3. Matching!SentUpTo[n + 1] = Matching!SentUpTo[n] + sent[l]
    <3>1. n + 1 \in 0..N /\ n + 1 # 0 /\ n + 1 - 1 = n
      BY <1>1, <2>0
    <3> QED BY <3>1, SentIsSum
  <2>4. l \in First <=> n + 1 <= Limit
    <3>1. \A j \in 1..N : Ranking[j] = l => j = n + 1
      BY <1>1, <2>2 DEF Distinct
    <3> QED BY <2>2, <3>1 DEF First
  <2>5. c * Turns(n + 1) = c * Turns(n) + IF l \in First THEN c ELSE 0
    <3>1. CASE n + 1 <= Limit
      <4>1. Turns(n + 1) = n + 1 /\ Turns(n) = n
        BY <1>1, <2>0, <3>1
      <4>2. c * (n + 1) = c * n + c
        BY <2>0, Times
      <4> QED BY <4>1, <4>2, <2>4, <3>1
    <3>2. CASE ~(n + 1 <= Limit)
      <4>1. Turns(n + 1) = Limit /\ Turns(n) = Limit
        BY <1>1, <2>0, <3>2
      <4>2. c * Limit \in Nat
        BY <1>1, Times
      <4> QED BY <4>1, <4>2, <2>4, <3>2
    <3> QED BY <3>1, <3>2
  <2>6. c * Cardinality(Met(n + 1)) = c * Cardinality(Met(n)) + IF l \in B THEN c ELSE 0
    <3>1. l \notin Met(n)
      BY <1>1, <2>0, <2>2 DEF Distinct
    <3>2. Met(n + 1) = IF l \in B THEN Met(n) \cup {l} ELSE Met(n)
      <4>1. 1..(n + 1) = (1..n) \cup {n + 1}
        BY <2>0
      <4> QED BY <4>1
    <3>3. Cardinality(Met(n) \cup {l}) = Cardinality(Met(n)) + 1
      BY <1>2, <2>0, <3>1, FS_AddElement
    <3>4. /\ c * (Cardinality(Met(n)) + 1) = c * Cardinality(Met(n)) + c
          /\ c * Cardinality(Met(n)) \in Nat
      <4>1. Cardinality(Met(n)) \in Nat
        BY <1>2, <2>0
      <4> HIDE DEF Met
      <4> QED BY <4>1, Times
    <3> HIDE DEF Met
    <3>5. CASE l \in B
      BY <3>2, <3>3, <3>4, <3>5
    <3>6. CASE l \notin B
      BY <3>2, <3>4, <3>6
    <3> QED BY <3>5, <3>6
  <2>7. sent[l] <= (IF l \in First THEN c ELSE 0) + (IF l \in B THEN c ELSE 0)
    BY <2>2
  <2>8. c * Turns(n) \in Nat /\ c * Cardinality(Met(n)) \in Nat
    <3>1. Turns(n) \in Nat /\ Cardinality(Met(n)) \in Nat
      BY <1>1, <1>2, <2>0
    <3> HIDE DEF Turns, Met
    <3> QED BY <3>1, Times
  <2> HIDE DEF Turns, Met, l
  <2> QED BY <2>1, <2>2, <2>3, <2>5, <2>6, <2>7, <2>8
<1>5. T = Nat
  <2>1. T \subseteq Nat
    OBVIOUS
  <2> HIDE DEF T
  <2> QED BY <1>3, <1>4, <2>1, Induction
<1>6. /\ Matching!SentUpTo[N] \in Nat
      /\ Matching!SentUpTo[N] <= c * Turns(N) + c * Cardinality(Met(N))
  <2>1. N \in T /\ N <= N
    <3> HIDE DEF T
    <3> QED BY <1>1, <1>5
  <2> HIDE DEF N, Turns, Met
  <2> QED BY <2>1
<1>7. Turns(N) \in Nat /\ Turns(N) <= Limit
  BY <1>1
<1>8. Cardinality(Met(N)) \in Nat /\ Cardinality(Met(N)) <= SecondLimit
  <2>1. Met(N) \subseteq B
    OBVIOUS
  <2> HIDE DEF Met
  <2>2. Cardinality(Met(N)) <= Cardinality(B) /\ Cardinality(B) \in Nat
    BY <1>2, <2>1, FS_Subset, FS_CardinalityType
  <2>3. Cardinality(Met(N)) \in Nat
    BY <1>1, <1>2
  <2> QED BY <1>1, <2>2, <2>3
<1> HIDE DEF Turns, Met, N, T
<1>9. c * Turns(N) <= c * Limit /\ c * Cardinality(Met(N)) <= c * SecondLimit
  BY <1>1, <1>7, <1>8, Times
<1>10. /\ c * Turns(N) \in Nat /\ c * Limit \in Nat
       /\ c * Cardinality(Met(N)) \in Nat /\ c * SecondLimit \in Nat
  BY <1>1, <1>7, <1>8, Times
<1>11. c * Limit + c * SecondLimit = c * (Limit + SecondLimit)
  BY <1>1, Times
<1>12. Matching!SentUpTo[N] <= c * Limit + c * SecondLimit
  BY <1>6, <1>9, <1>10
<1> QED BY <1>11, <1>12 DEF N

ListingKind == {"idle", "ocr", "matching", "vision", "scored", "failed"}

\* What a listing has cost: in the pass before, and in the evaluation under way.
Earlier(l) == IF phase # "one" /\ l \in First THEN 3 * Cost ELSE 0
Now(l) == IF task[l].pc = "ocr" THEN task[l].attempt
          ELSE IF task[l].pc = "matching" THEN Cost + task[l].attempt
          ELSE IF task[l].pc = "vision" THEN 2 * Cost + task[l].attempt
          ELSE 3 * Cost
Turn(B) == IF phase = "one" THEN First ELSE B

\* The costs of the listings, when B are those of the second pass.
Plan(B) ==
  /\ Elements(todo) \cup chunk \subseteq Turn(B)
  /\ \A l \in chunk : sent[l] <= Earlier(l) + Now(l)
  /\ \A l \in Matching!Listings \ chunk :
       sent[l] <= Earlier(l) + (IF l \in Turn(B) \ Elements(todo) THEN 3 * Cost ELSE 0)

Kinds ==
  /\ \A t \in Matching!Tasks : task[t].attempt <= MaxRetries
  /\ \A l \in Matching!Listings : task[l].pc \in ListingKind
  /\ \A r \in Requests : task[r].pc \in {"idle", "request", "answered", "failed"}

RequestCosts ==
  \A r \in Requests :
    sent[r] <= IF task[r].pc = "idle" THEN 0 ELSE IF task[r].pc = "request" THEN task[r].attempt ELSE Cost

SpendInv ==
  /\ CallInv /\ Kinds /\ RequestCosts /\ phase \in {"one", "two", "over"}
  /\ \E B \in SUBSET Matching!Listings : Cardinality(B) <= SecondLimit /\ Plan(B)

LEMMA CostType == ASSUME ServicesAssumption PROVE Cost \in Nat /\ MaxRetries \in Nat /\ Cost = MaxRetries + 1
  BY DEF Cost, ServicesAssumption, Matching!MatchingAssumption

LEMMA SpendMeans == ASSUME ServicesAssumption, SpendInv PROVE SpendBounded
<1>1. PICK B \in SUBSET Matching!Listings : Cardinality(B) <= SecondLimit /\ Plan(B)
  BY DEF SpendInv
<1>2. Cost \in Nat /\ MaxRetries \in Nat /\ Cost = MaxRetries + 1
  BY CostType
<1>3. CallTypes /\ Kinds /\ RequestCosts
  BY DEF SpendInv, CallInv
<1>4. \A l \in Matching!Listings :
        sent[l] <= (IF l \in First THEN 3 * Cost ELSE 0) + (IF l \in B THEN 3 * Cost ELSE 0)
  <2> SUFFICES ASSUME NEW l \in Matching!Listings
               PROVE  sent[l] <= (IF l \in First THEN 3 * Cost ELSE 0) + (IF l \in B THEN 3 * Cost ELSE 0)
    OBVIOUS
  <2>1. task[l].attempt \in Nat /\ task[l].attempt <= MaxRetries /\ sent[l] \in Nat
    BY <1>3 DEF CallTypes, Kinds, Matching!Tasks
  <2>2. Now(l) <= 3 * Cost /\ Now(l) \in Nat
    BY <1>2, <2>1 DEF Now
  <2>3. CASE l \in chunk
    <3>1. l \in Turn(B) /\ sent[l] <= Earlier(l) + Now(l)
      BY <1>1, <2>3 DEF Plan
    <3> HIDE DEF Now
    <3> QED BY <1>2, <2>1, <2>2, <3>1 DEF Turn, Earlier
  <2>4. CASE l \notin chunk
    <3>1. sent[l] <= Earlier(l) + (IF l \in Turn(B) \ Elements(todo) THEN 3 * Cost ELSE 0)
      BY <1>1, <2>4 DEF Plan
    <3> QED BY <1>2, <2>1, <3>1 DEF Turn, Earlier
  <2> QED BY <2>3, <2>4
<1>5. Matching!SentUpTo[Len(Ranking)] <= 3 * Cost * (Limit + SecondLimit)
  <2>1. 3 * Cost \in Nat
    BY <1>2
  <2> QED BY <1>1, <1>3, <1>4, <2>1, SumBound
<1>6. 3 * Cost * (Limit + SecondLimit) = 3 * (Limit + SecondLimit) * (MaxRetries + 1)
  <2>1. Limit + SecondLimit \in Nat
    BY DEF ServicesAssumption, Matching!MatchingAssumption
  <2> QED BY <1>2, <2>1, SMTT(30)
<1>7. \A t \in Matching!Tasks : sent[t] <= (IF t \in Requests THEN 1 ELSE 6) * (MaxRetries + 1)
  <2>1. ASSUME NEW r \in Requests PROVE sent[r] <= 1 * (MaxRetries + 1)
    <3>1. task[r].attempt \in Nat /\ task[r].attempt <= MaxRetries /\ sent[r] \in Nat
      BY <1>3 DEF CallTypes, Kinds, Matching!Tasks
    <3> QED BY <1>2, <1>3, <3>1 DEF RequestCosts
  <2>2. ASSUME NEW l \in Matching!Listings PROVE sent[l] <= 6 * (MaxRetries + 1)
    <3>1. sent[l] \in Nat
      BY <1>3 DEF CallTypes, Matching!Tasks
    <3> QED BY <1>2, <1>4, <3>1
  <2> QED BY <2>1, <2>2 DEF Matching!Tasks
<1> QED BY <1>5, <1>6, <1>7 DEF SpendBounded, Matching!SpendBounded

LEMMA SpendInit == ASSUME ServicesAssumption, Matching!Init PROVE SpendInv
<1>1. CallInv
  BY CallInit
<1>2. /\ phase = "one" /\ chunk = {}
      /\ task = [t \in Matching!Tasks |-> [pc |-> "idle", attempt |-> 0]]
      /\ sent = [t \in Matching!Tasks |-> 0]
  BY DEF Matching!Init, Matching!Idle
<1>3. Kinds /\ RequestCosts
  BY <1>2, CostType DEF Kinds, RequestCosts, ListingKind, Matching!Tasks
<1>4. Cardinality({}) = 0 /\ SecondLimit \in Nat
  BY FS_EmptySet DEF ServicesAssumption, Matching!MatchingAssumption
<1>5. Elements(todo) \subseteq First
  <2> DEFINE n == IF Len(Ranking) < Limit THEN Len(Ranking) ELSE Limit
  <2>1. /\ Ranking \in Seq(Matching!Listings) /\ Distinct(Ranking) /\ Limit \in Nat /\ Limit >= 1
        /\ Len(Ranking) \in Nat
    BY ListFacts DEF ServicesAssumption, Matching!MatchingAssumption
  <2>2. n \in Nat /\ n <= Len(Ranking) /\ n <= Limit
    BY <2>1
  <2>3. todo = SubSeq(Ranking, 1, n)
    BY DEF Matching!Init
  <2> HIDE DEF n
  <2>4. Elements(SubSeq(Ranking, 1, n)) = {Ranking[i] : i \in 1..n}
    BY <2>1, <2>2, PartOf
  <2> QED BY <2>1, <2>2, <2>3, <2>4 DEF First
<1>6. Plan({})
  BY <1>2, <1>5, CostType DEF Plan, Turn, Earlier, Matching!Tasks
<1> QED BY <1>1, <1>2, <1>3, <1>4, <1>6 DEF SpendInv

\* A call that is made again, or that ends, costs the listing no more than its evaluation may.
LEMMA ListingSpends ==
  ASSUME ServicesAssumption, SpendInv, NEW l \in Matching!Listings, Matching!Match(l) \/ Matching!Again(l)
  PROVE  SpendInv'
<1>1. PICK B \in SUBSET Matching!Listings : Cardinality(B) <= SecondLimit /\ Plan(B)
  BY DEF SpendInv
<1>2. Cost \in Nat /\ MaxRetries \in Nat /\ Cost = MaxRetries + 1
  BY CostType
<1>3. CallTypes /\ CallsInChunk /\ Kinds /\ RequestCosts /\ CallInv
  BY DEF SpendInv, CallInv
<1>4. l \in Matching!Tasks /\ l \notin Requests
  BY DEF Matching!Tasks, ServicesAssumption, Matching!MatchingAssumption
<1>5. CallInv'
  BY <1>3, <1>4, MatchKeeps, AgainKeeps
<1>6. /\ UNCHANGED <<phase, todo, chunk>> /\ task[l].pc \in Matching!Calls
      /\ sent' = [sent EXCEPT ![l] = @ + 1]
  BY DEF Matching!Match, Matching!Read, Matching!Score, Matching!Compare, Matching!Fail, Matching!Again,
     Matching!Ends, Matching!Asked, Matching!Calls
<1>7. /\ \A t \in Matching!Tasks \ {l} : task'[t] = task[t] /\ sent'[t] = sent[t]
      /\ sent'[l] = sent[l] + 1 /\ sent[l] \in Nat
      /\ task[l].attempt \in Nat /\ task[l].attempt <= MaxRetries /\ task[l].pc \in {"ocr", "matching", "vision"}
  <2>1. \/ \E kind \in TaskKind : task' = [task EXCEPT ![l] = Matching!Calling(kind)]
        \/ task' = [task EXCEPT ![l].attempt = Matching!NextAttempt(@)]
    BY DEF Matching!Match, Matching!Read, Matching!Score, Matching!Compare, Matching!Fail, Matching!Again,
       Matching!Ends, TaskKind
  <2>2. \A t \in Matching!Tasks \ {l} : task'[t] = task[t]
    BY <1>3, <2>1 DEF CallTypes
  <2>3. task[l].pc \in ListingKind /\ task[l].attempt <= MaxRetries
    BY <1>3, <1>4 DEF Kinds
  <2> QED BY <1>3, <1>4, <1>6, <2>2, <2>3 DEF CallTypes, ListingKind, Matching!Calls
<1>8. /\ task'[l].pc \in ListingKind \ {"idle"} /\ task'[l].attempt \in 0..MaxRetries
      /\ Now(l)' >= Now(l) + 1
  <2>1. CASE Matching!Again(l)
    <3>1. task'[l].pc = task[l].pc /\ task'[l].attempt = task[l].attempt + 1 /\ task[l].attempt < MaxRetries
      BY <1>3, <1>4, <2>1 DEF Matching!Again, Matching!MayRetry, Matching!NextAttempt, CallTypes
    <3> QED BY <1>2, <1>7, <3>1 DEF Now, ListingKind
  <2>2. CASE Matching!Read(l)
    <3>1. task[l].pc = "ocr" /\ task'[l].pc = "matching" /\ task'[l].attempt = 0
      BY <1>3, <1>4, <2>2 DEF Matching!Read, Matching!Ends, Matching!Calling, CallTypes
    <3> QED BY <1>2, <1>7, <3>1 DEF Now, ListingKind
  <2>3. CASE Matching!Score(l)
    <3>1. task[l].pc = "matching" /\ task'[l].pc \in {"vision", "scored"} /\ task'[l].attempt = 0
      BY <1>3, <1>4, <2>3 DEF Matching!Score, Matching!Ends, Matching!Calling, CallTypes
    <3> QED BY <1>2, <1>7, <3>1 DEF Now, ListingKind
  <2>4. CASE Matching!Compare(l)
    <3>1. task[l].pc = "vision" /\ task'[l].pc = "scored" /\ task'[l].attempt = 0
      BY <1>3, <1>4, <2>4 DEF Matching!Compare, Matching!Ends, Matching!Calling, CallTypes
    <3> QED BY <1>2, <1>7, <3>1 DEF Now, ListingKind
  <2>5. CASE Matching!Fail(l)
    <3>1. task[l].pc = "matching" /\ task'[l].pc = "failed" /\ task'[l].attempt = 0
      BY <1>3, <1>4, <2>5 DEF Matching!Fail, Matching!Ends, Matching!Calling, CallTypes
    <3> QED BY <1>2, <1>7, <3>1 DEF Now, ListingKind
  <2> QED BY <2>1, <2>2, <2>3, <2>4, <2>5 DEF Matching!Match
<1>9. Kinds' /\ RequestCosts'
  <2>1. \A t \in Matching!Tasks : task'[t].attempt <= MaxRetries
    BY <1>2, <1>3, <1>7, <1>8 DEF Kinds
  <2>2. \A m \in Matching!Listings : task'[m].pc \in ListingKind
    BY <1>3, <1>7, <1>8 DEF Kinds, Matching!Tasks
  <2>3. \A r \in Requests : task'[r] = task[r] /\ sent'[r] = sent[r]
    BY <1>4, <1>7 DEF Matching!Tasks
  <2> QED BY <1>3, <2>1, <2>2, <2>3 DEF Kinds, RequestCosts
<1>10. Plan(B)'
  <2>1. l \in chunk
    BY <1>3, <1>7 DEF CallsInChunk
  <2>2. \A m \in Matching!Listings : Earlier(m)' = Earlier(m)
    BY <1>6 DEF Earlier
  <2>3. Turn(B)' = Turn(B) /\ Elements(todo)' = Elements(todo)
    BY <1>6 DEF Turn, Elements
  <2>4. ASSUME NEW m \in chunk PROVE sent'[m] <= Earlier(m)' + Now(m)'
    <3>0. m \in Matching!Listings /\ m \in Matching!Tasks
      BY <1>3 DEF CallTypes, Matching!Tasks
    <3>1. sent[m] <= Earlier(m) + Now(m)
      BY <1>1 DEF Plan
    <3>2. CASE m = l
      <4>1. Now(l) \in Nat /\ Now(l)' \in Nat /\ Earlier(l) \in Nat
        BY <1>2, <1>7, <1>8 DEF Now, Earlier
      <4> QED BY <1>7, <1>8, <2>2, <3>1, <3>2, <4>1
    <3>3. CASE m # l
      <4>1. task'[m] = task[m] /\ sent'[m] = sent[m]
        BY <1>7, <3>0, <3>3
      <4>2. Now(m)' = Now(m)
        BY <4>1 DEF Now
      <4> QED BY <2>2, <3>0, <3>1, <4>1, <4>2
    <3> QED BY <3>2, <3>3
  <2>5. ASSUME NEW m \in Matching!Listings \ chunk
        PROVE  sent'[m] <= Earlier(m)' + (IF m \in Turn(B) \ Elements(todo) THEN 3 * Cost ELSE 0)
    <3>1. sent'[m] = sent[m]
      BY <1>7, <2>1 DEF Matching!Tasks
    <3> QED BY <1>1, <2>2, <3>1 DEF Plan
  <2>6. (Elements(todo) \cup chunk)' \subseteq Turn(B)'
    BY <1>1, <1>6, <2>3 DEF Plan
  <2> QED BY <1>6, <2>3, <2>4, <2>5, <2>6 DEF Plan
<1>11. phase' \in {"one", "two", "over"}
  BY <1>6 DEF SpendInv
<1> QED BY <1>1, <1>5, <1>9, <1>10, <1>11 DEF SpendInv

LEMMA RequestSpends ==
  ASSUME ServicesAssumption, SpendInv, NEW r \in Requests,
         Matching!StartRequest(r) \/ Matching!EndRequest(r) \/ Matching!Again(r)
  PROVE  SpendInv'
<1>1. PICK B \in SUBSET Matching!Listings : Cardinality(B) <= SecondLimit /\ Plan(B)
  BY DEF SpendInv
<1>2. Cost \in Nat /\ MaxRetries \in Nat /\ Cost = MaxRetries + 1
  BY CostType
<1>3. CallTypes /\ Kinds /\ RequestCosts /\ CallInv
  BY DEF SpendInv, CallInv
<1>4. r \in Matching!Tasks /\ r \notin Matching!Listings
  BY DEF Matching!Tasks, ServicesAssumption, Matching!MatchingAssumption
<1>5. CallInv'
  BY <1>3, <1>4, RequestKeeps, AgainKeeps
<1>6. /\ UNCHANGED <<phase, todo, chunk>>
      /\ sent' \in {sent, [sent EXCEPT ![r] = @ + 1]}
      /\ \/ \E kind \in {"request", "answered", "failed"} : task' = [task EXCEPT ![r] = [pc |-> kind, attempt |-> 0]]
         \/ task' = [task EXCEPT ![r].attempt = @ + 1]
  BY DEF Matching!StartRequest, Matching!EndRequest, Matching!Again, Matching!Ends, Matching!Asked,
     Matching!ledger, Matching!Calling, Matching!NextAttempt
<1>7. /\ \A t \in Matching!Tasks \ {r} : task'[t] = task[t] /\ sent'[t] = sent[t]
      /\ task[r].attempt \in Nat /\ task[r].attempt <= MaxRetries /\ sent[r] \in Nat
  <2>1. \A t \in Matching!Tasks \ {r} : task'[t] = task[t]
    BY <1>3, <1>6 DEF CallTypes
  <2>2. \A t \in Matching!Tasks \ {r} : sent'[t] = sent[t]
    BY <1>3, <1>6 DEF CallTypes
  <2> QED BY <1>3, <1>4, <2>1, <2>2 DEF CallTypes, Kinds
<1>8. /\ task'[r].attempt <= MaxRetries /\ task'[r].pc \in {"idle", "request", "answered", "failed"}
      /\ sent'[r] <= IF task'[r].pc = "idle" THEN 0
                     ELSE IF task'[r].pc = "request" THEN task'[r].attempt ELSE Cost
  <2>1. CASE Matching!StartRequest(r)
    <3>1. task[r].pc = "idle" /\ task'[r].pc = "request" /\ task'[r].attempt = 0 /\ sent' = sent
      BY <1>3, <1>4, <2>1 DEF Matching!StartRequest, Matching!Calling, Matching!ledger, CallTypes
    <3> QED BY <1>2, <1>3, <1>7, <3>1 DEF RequestCosts
  <2>2. CASE Matching!EndRequest(r)
    <3>1. /\ task[r].pc = "request" /\ task'[r].pc \in {"answered", "failed"} /\ task'[r].attempt = 0
          /\ sent'[r] = sent[r] + 1
      BY <1>3, <1>4, <2>2 DEF Matching!EndRequest, Matching!Ends, Matching!Asked, Matching!Calling, CallTypes
    <3> QED BY <1>2, <1>3, <1>7, <3>1 DEF RequestCosts
  <2>3. CASE Matching!Again(r)
    <3>1. /\ task'[r].pc = task[r].pc /\ task'[r].attempt = task[r].attempt + 1
          /\ task[r].attempt < MaxRetries /\ sent'[r] = sent[r] + 1 /\ task[r].pc \in Matching!Calls
      BY <1>3, <1>4, <2>3 DEF Matching!Again, Matching!Asked, Matching!MayRetry, Matching!NextAttempt, CallTypes
    <3>2. task[r].pc = "request"
      BY <1>3, <3>1 DEF Kinds, Matching!Calls
    <3> QED BY <1>2, <1>3, <1>7, <3>1, <3>2 DEF RequestCosts
  <2> QED BY <2>1, <2>2, <2>3
<1>9. Kinds' /\ RequestCosts'
  <2>1. \A t \in Matching!Tasks : task'[t].attempt <= MaxRetries
    BY <1>3, <1>7, <1>8 DEF Kinds
  <2>2. \A m \in Matching!Listings : task'[m].pc \in ListingKind
    BY <1>3, <1>4, <1>7 DEF Kinds, Matching!Tasks
  <2>3. \A q \in Requests \ {r} : task'[q] = task[q] /\ sent'[q] = sent[q]
    BY <1>7 DEF Matching!Tasks
  <2> QED BY <1>3, <1>8, <2>1, <2>2, <2>3 DEF Kinds, RequestCosts
<1>10. Plan(B)'
  <2>1. \A m \in Matching!Listings : task'[m] = task[m] /\ sent'[m] = sent[m]
    BY <1>4, <1>7 DEF Matching!Tasks
  <2>2. \A m \in Matching!Listings : Earlier(m)' = Earlier(m) /\ Now(m)' = Now(m)
    BY <1>6, <2>1 DEF Earlier, Now
  <2>3. Turn(B)' = Turn(B) /\ Elements(todo)' = Elements(todo) /\ chunk' = chunk
    BY <1>6 DEF Turn, Elements
  <2>4. chunk \subseteq Matching!Listings
    BY <1>3 DEF CallTypes
  <2> QED BY <1>1, <2>1, <2>2, <2>3, <2>4 DEF Plan
<1>11. phase' \in {"one", "two", "over"}
  BY <1>6 DEF SpendInv
<1> QED BY <1>1, <1>5, <1>9, <1>10, <1>11 DEF SpendInv

LEMMA ChunkSpends ==
  ASSUME ServicesAssumption, SpendInv, Matching!StartChunk
  PROVE  SpendInv'
<1>1. PICK B \in SUBSET Matching!Listings : Cardinality(B) <= SecondLimit /\ Plan(B)
  BY DEF SpendInv
<1>2. Cost \in Nat /\ MaxRetries \in Nat /\ Cost = MaxRetries + 1
  BY CostType
<1>3. CallTypes /\ Kinds /\ RequestCosts /\ CallInv /\ OnePlace
  BY DEF SpendInv, CallInv
<1>4. CallInv' /\ OnePlace'
  BY <1>3, StartChunkKeeps DEF CallInv
<1>5. chunk = {} /\ UNCHANGED <<phase, sent>>
  BY DEF Matching!StartChunk
<1>6. /\ chunk' \subseteq Elements(todo) /\ Elements(todo') \subseteq Elements(todo)
      /\ \A l \in Elements(todo) : l \in chunk' \/ l \in Elements(todo')
  <2>1. todo \in Seq(Matching!Listings) /\ Len(todo) \in Nat /\ MatchConcurrency \in Nat /\ Distinct(todo)
    BY <1>3 DEF CallTypes, OnePlace, ServicesAssumption, Matching!MatchingAssumption
  <2> DEFINE n == IF Len(todo) < MatchConcurrency THEN Len(todo) ELSE MatchConcurrency
  <2>2. /\ n \in Nat /\ n <= Len(todo) /\ n + 1 \in Nat /\ n + 1 >= 1
        /\ chunk' = Matching!ToSet(SubSeq(todo, 1, n)) /\ todo' = SubSeq(todo, n + 1, Len(todo))
    <3>1. n \in Nat /\ n <= Len(todo) /\ n + 1 \in Nat /\ n + 1 >= 1
      BY <2>1
    <3>2. chunk' = Matching!ToSet(SubSeq(todo, 1, n)) /\ todo' = SubSeq(todo, n + 1, Len(todo))
      BY Zenon DEF Matching!StartChunk
    <3> QED BY <3>1, <3>2
  <2> HIDE DEF n
  <2>3. /\ SubSeq(todo, 1, n) \in Seq(Matching!Listings)
        /\ Elements(SubSeq(todo, 1, n)) = {todo[i] : i \in 1..n}
    <3>1. todo \in Seq(Matching!Listings) /\ Distinct(todo) /\ n \in Nat /\ n <= Len(todo)
      BY <2>1, <2>2
    <3>2. 1 \in Nat /\ 1 >= 1
      OBVIOUS
    <3> QED BY <3>1, <3>2, PartOf
  <2>4. Elements(SubSeq(todo, n + 1, Len(todo))) = {todo[i] : i \in (n + 1)..Len(todo)}
    <3>1. todo \in Seq(Matching!Listings) /\ Distinct(todo) /\ Len(todo) \in Nat /\ Len(todo) <= Len(todo)
      BY <2>1
    <3>2. n + 1 \in Nat /\ n + 1 >= 1
      BY <2>2
    <3> QED BY <3>1, <3>2, PartOf
  <2>5. Matching!ToSet(SubSeq(todo, 1, n)) = Elements(SubSeq(todo, 1, n))
    BY <2>3, ListFacts
  <2>6. chunk' = {todo[i] : i \in 1..n} /\ Elements(todo') = {todo[i] : i \in (n + 1)..Len(todo)}
    BY <2>2, <2>3, <2>4, <2>5
  <2>7. \A i \in 1..Len(todo) : i \in 1..n \/ i \in (n + 1)..Len(todo)
    BY <2>1, <2>2
  <2>8. (\A i \in 1..n : i \in 1..Len(todo)) /\ (\A i \in (n + 1)..Len(todo) : i \in 1..Len(todo))
    BY <2>1, <2>2
  <2>9. \A l \in Elements(todo) : l \in chunk' \/ l \in Elements(todo')
    BY <2>6, <2>7 DEF Elements
  <2>10. chunk' \subseteq Elements(todo)
    BY <2>6, <2>8 DEF Elements
  <2>11. Elements(todo') \subseteq Elements(todo)
    <3> DEFINE rest == {todo[i] : i \in (n + 1)..Len(todo)}
    <3>1. rest \subseteq Elements(todo)
      BY <2>8 DEF Elements
    <3> QED BY <2>6, <3>1
  <2> QED BY <2>9, <2>10, <2>11
<1>7. PICK withText \in SUBSET chunk' :
        task' = [t \in Matching!Tasks |-> IF t \notin chunk' THEN task[t]
                   ELSE Matching!Calling(IF t \in withText THEN "ocr" ELSE "matching")]
  BY DEF Matching!StartChunk
<1>8. /\ \A t \in Matching!Tasks \ chunk' : task'[t] = task[t]
      /\ \A t \in chunk' : t \in Matching!Listings /\ task'[t].attempt = 0 /\ task'[t].pc \in {"ocr", "matching"}
  <2>1. chunk' \subseteq Matching!Listings
    BY <1>4 DEF CallInv, CallTypes
  <2>2. \A t \in chunk' : t \in Matching!Tasks
    BY <2>1 DEF Matching!Tasks
  <2> QED BY <1>7, <2>1, <2>2 DEF Matching!Calling
<1>9. Kinds' /\ RequestCosts'
  <2>1. \A r \in Requests : r \in Matching!Tasks /\ r \notin chunk'
    BY <1>8 DEF Matching!Tasks, ServicesAssumption, Matching!MatchingAssumption
  <2>2. \A r \in Requests : task'[r] = task[r]
    BY <1>8, <2>1
  <2>3. RequestCosts'
    BY <1>3, <1>5, <2>2 DEF RequestCosts
  <2>4. \A t \in Matching!Tasks : task'[t].attempt <= MaxRetries
    BY <1>2, <1>3, <1>8 DEF Kinds
  <2>5. \A l \in Matching!Listings : task'[l].pc \in ListingKind
    BY <1>3, <1>8 DEF Kinds, ListingKind, Matching!Tasks
  <2> QED BY <1>3, <2>2, <2>3, <2>4, <2>5 DEF Kinds
<1>10. Plan(B)'
  <2>1. Turn(B)' = Turn(B) /\ \A l \in Matching!Listings : Earlier(l)' = Earlier(l)
    BY <1>5 DEF Turn, Earlier
  <2>2. \A l \in Matching!Listings : Earlier(l) \in Nat /\ sent[l] \in Nat
    BY <1>2, <1>3 DEF Earlier, CallTypes, Matching!Tasks
  <2>3. Elements(todo) \subseteq Turn(B)
    BY <1>1 DEF Plan
  <2>4. \A l \in Matching!Listings :
          sent[l] <= Earlier(l) + (IF l \in Turn(B) \ Elements(todo) THEN 3 * Cost ELSE 0)
    BY <1>1, <1>5 DEF Plan
  <2>5. ASSUME NEW l \in chunk' PROVE sent'[l] <= Earlier(l)' + Now(l)'
    <3>1. l \in Elements(todo) /\ l \in Matching!Listings
      BY <1>6, <1>8
    <3>2. sent[l] <= Earlier(l)
      BY <2>2, <2>4, <3>1
    <3>3. Now(l)' \in Nat
      BY <1>2, <1>8 DEF Now
    <3> QED BY <1>5, <2>1, <2>2, <3>1, <3>2, <3>3
  <2>6. ASSUME NEW l \in Matching!Listings \ chunk'
        PROVE  sent'[l] <= Earlier(l)' + (IF l \in Turn(B)' \ Elements(todo)' THEN 3 * Cost ELSE 0)
    <3>1. l \in Elements(todo)' => l \in Elements(todo)
      BY <1>6 DEF Elements
    <3>2. l \in Elements(todo) => l \in Elements(todo)'
      BY <1>6 DEF Elements
    <3> QED BY <1>5, <2>1, <2>4, <3>1, <3>2
  <2>7. (Elements(todo) \cup chunk)' \subseteq Turn(B)'
    <3>1. Elements(todo)' \subseteq Elements(todo)
      BY <1>6 DEF Elements
    <3> QED BY <1>6, <2>1, <2>3, <3>1
  <2> QED BY <2>5, <2>6, <2>7 DEF Plan
<1>11. phase' \in {"one", "two", "over"}
  BY <1>5 DEF SpendInv
<1> QED BY <1>1, <1>4, <1>9, <1>10, <1>11 DEF SpendInv

\* Between the chunks of a pass, and between the passes, nothing is asked.
LEMMA PassSpends ==
  ASSUME ServicesAssumption, SpendInv, Matching!EndChunk \/ Matching!StartSecond \/ Matching!EndMatching
  PROVE  SpendInv'
<1>1. PICK B \in SUBSET Matching!Listings : Cardinality(B) <= SecondLimit /\ Plan(B)
  BY DEF SpendInv
<1>2. Cost \in Nat /\ MaxRetries \in Nat /\ Cost = MaxRetries + 1
  BY CostType
<1>3. CallTypes /\ Kinds /\ RequestCosts /\ CallInv
  BY DEF SpendInv, CallInv
<1>4. CallInv'
  BY <1>3, EndChunkKeeps, SecondKeeps
<1>5. UNCHANGED sent /\ phase' \in {"one", "two", "over"} /\ chunk' = {}
  BY DEF SpendInv, Matching!EndChunk, Matching!StartSecond, Matching!EndMatching, Matching!ledger
<1>6. \A l \in Matching!Listings : sent[l] \in Nat /\ Earlier(l) \in Nat
  BY <1>2, <1>3 DEF CallTypes, Matching!Tasks, Earlier
<1>7. CASE Matching!EndChunk
  <2>1. /\ UNCHANGED <<phase, todo>>
        /\ task' = [t \in Matching!Tasks |-> IF t \in chunk THEN [pc |-> "idle", attempt |-> 0] ELSE task[t]]
    BY <1>7 DEF Matching!EndChunk, Matching!Idle
  <2>2. Kinds' /\ RequestCosts'
    <3>1. \A r \in Requests : r \in Matching!Tasks /\ r \notin chunk
      BY <1>3 DEF CallTypes, Matching!Tasks, ServicesAssumption, Matching!MatchingAssumption
    <3>2. \A r \in Requests : task'[r] = task[r]
      BY <2>1, <3>1
    <3>3. \A t \in Matching!Tasks : task'[t].attempt <= MaxRetries
      BY <1>2, <1>3, <2>1 DEF Kinds
    <3>4. \A l \in Matching!Listings : task'[l].pc \in ListingKind
      BY <1>3, <2>1 DEF Kinds, ListingKind, Matching!Tasks
    <3> QED BY <1>3, <1>5, <3>2, <3>3, <3>4 DEF Kinds, RequestCosts
  <2>3. Plan(B)'
    <3>1. Turn(B)' = Turn(B) /\ Elements(todo)' = Elements(todo)
          /\ \A l \in Matching!Listings : Earlier(l)' = Earlier(l)
      BY <2>1 DEF Turn, Elements, Earlier
    <3>2. Elements(todo) \cup chunk \subseteq Turn(B)
      BY <1>1 DEF Plan
    <3>3. chunk \cap Elements(todo) = {} /\ chunk \subseteq Matching!Listings
      BY <1>3 DEF CallInv, OnePlace, CallTypes
    <3>4. ASSUME NEW l \in Matching!Listings
          PROVE  sent[l] <= Earlier(l) + (IF l \in Turn(B) \ Elements(todo) THEN 3 * Cost ELSE 0)
      <4>1. CASE l \in chunk
        <5>1. sent[l] <= Earlier(l) + Now(l)
          BY <1>1, <4>1 DEF Plan
        <5>2. task[l].attempt \in Nat /\ task[l].attempt <= MaxRetries
          BY <1>3 DEF CallTypes, Kinds, Matching!Tasks
        <5>3. Now(l) <= 3 * Cost /\ Now(l) \in Nat
          BY <1>2, <5>2 DEF Now
        <5> HIDE DEF Now
        <5> QED BY <1>2, <1>6, <3>2, <3>3, <4>1, <5>1, <5>3
      <4>2. CASE l \notin chunk
        BY <1>1, <4>2 DEF Plan
      <4> QED BY <4>1, <4>2
    <3> QED BY <1>5, <3>1, <3>2, <3>4 DEF Plan
  <2> QED BY <1>1, <1>4, <1>5, <2>2, <2>3 DEF SpendInv
<1>8. CASE Matching!StartSecond
  <2>1. UNCHANGED task /\ phase = "one" /\ phase' = "two" /\ todo = <<>> /\ chunk = {}
    BY <1>8 DEF Matching!StartSecond
  <2>2. Kinds' /\ RequestCosts'
    BY <1>3, <1>5, <2>1 DEF Kinds, RequestCosts
  <2>3. PICK targets \in Matching!SecondTargets : todo' \in Matching!InOrder(targets)
    BY <1>8 DEF Matching!StartSecond
  <2>4. targets \subseteq Matching!Listings /\ Cardinality(targets) <= SecondLimit
    <3>1. Matching!Cardinality(targets) = Cardinality(targets)
      BY DEF Matching!Cardinality, Cardinality
    <3> QED BY <2>3, <3>1 DEF Matching!SecondTargets, Matching!Remaining
  <2>5. Elements(todo') \subseteq targets
    BY <2>3, <2>4, Arranged
  <2>6. ASSUME NEW l \in Matching!Listings PROVE sent[l] <= IF l \in First THEN 3 * Cost ELSE 0
    <3>1. sent[l] <= Earlier(l) + (IF l \in Turn(B) \ Elements(todo) THEN 3 * Cost ELSE 0)
      BY <1>1, <2>1 DEF Plan
    <3>2. Earlier(l) = 0 /\ Turn(B) = First /\ Elements(todo) = {}
      BY <2>1 DEF Earlier, Turn, Elements
    <3> QED BY <1>2, <3>1, <3>2
  <2>7. Plan(targets)'
    <3>1. Turn(targets)' = targets /\ Elements(todo)' = Elements(todo')
      BY <2>1 DEF Turn, Elements
    <3>2. \A l \in Matching!Listings : Earlier(l)' = IF l \in First THEN 3 * Cost ELSE 0
      BY <2>1 DEF Earlier
    <3>3. \A l \in Matching!Listings :
            sent'[l] <= Earlier(l)' + (IF l \in Turn(targets)' \ Elements(todo)' THEN 3 * Cost ELSE 0)
      BY <1>2, <1>5, <1>6, <2>6, <3>2
    <3> QED BY <1>5, <2>5, <3>1, <3>3 DEF Plan
  <2> QED BY <1>4, <1>5, <2>2, <2>4, <2>7 DEF SpendInv
<1>9. CASE Matching!EndMatching
  <2>1. UNCHANGED <<task, todo, chunk>> /\ phase = "two" /\ phase' = "over"
    BY <1>9 DEF Matching!EndMatching
  <2>2. Kinds' /\ RequestCosts'
    BY <1>3, <1>5, <2>1 DEF Kinds, RequestCosts
  <2>3. Turn(B)' = Turn(B) /\ Elements(todo)' = Elements(todo)
        /\ \A l \in Matching!Listings : Earlier(l)' = Earlier(l) /\ Now(l)' = Now(l)
    BY <2>1 DEF Turn, Elements, Earlier, Now
  <2>4. Plan(B)'
    BY <1>1, <1>5, <2>1, <2>3 DEF Plan
  <2> QED BY <1>1, <1>4, <1>5, <2>2, <2>4 DEF SpendInv
<1> QED BY <1>7, <1>8, <1>9

LEMMA SpendNext ==
  ASSUME ServicesAssumption, SpendInv, [Matching!Next]_matchingVars
  PROVE  SpendInv'
<1>1. CASE Matching!Passes
  BY <1>1, ChunkSpends, PassSpends DEF Matching!Passes
<1>2. CASE UNCHANGED matchingVars
  <2>1. CallInv'
    BY CallNext DEF SpendInv
  <2>2. \A B : Plan(B) => Plan(B)'
    BY <1>2 DEF matchingVars, Plan, Turn, Elements, Earlier, Now
  <2> QED BY <1>2, <2>1, <2>2 DEF matchingVars, SpendInv, Kinds, RequestCosts
<1> QED
  BY <1>1, <1>2, ListingSpends, RequestSpends DEF Matching!Next, Matching!SearchStep, Matching!RequestStep

-----------------------------------------------------------------------------
(* The rules and the prompts *)

RuleProofs == INSTANCE RuleEngineProofs

PromptProofs == INSTANCE PromptVersionsProofs WITH rows <- versions

\* RuleEngine and the module of its proofs give the same definitions.
LEMMA RulesAre ==
  /\ RuleProofs!RuleAssumption
  /\ Rules!Init <=> RuleProofs!Init
  /\ Rules!Next <=> RuleProofs!Next
  /\ Rules!CreationWasAsked <=> RuleProofs!CreationWasAsked
  /\ Rules!TypeOK <=> RuleProofs!TypeOK
<1>1. RuleProofs!RuleAssumption
  BY ServicesAssumption DEF ServicesAssumption, Rules!RuleAssumption, RuleProofs!RuleAssumption,
     Rules!Null, RuleProofs!Null
<1>2. Rules!Init <=> RuleProofs!Init
  BY DEF Rules!Init, RuleProofs!Init, Rules!Codes, RuleProofs!Codes, Rules!DefaultRule,
     RuleProofs!DefaultRule, Rules!Idle, RuleProofs!Idle
<1>3. Rules!Next <=> RuleProofs!Next
  BY DEF Rules!Codes, RuleProofs!Codes, Rules!DefaultRule, RuleProofs!DefaultRule, Rules!SeedOrder,
     RuleProofs!SeedOrder, Rules!Idle, RuleProofs!Idle, Rules!Count, RuleProofs!Count, Rules!Place,
     RuleProofs!Place, Rules!Following, RuleProofs!Following, Rules!Refused, RuleProofs!Refused,
     Rules!SeedRow, RuleProofs!SeedRow, Rules!SeedFails, RuleProofs!SeedFails, Rules!Restart,
     RuleProofs!Restart, Rules!UpdateRule, RuleProofs!UpdateRule, Rules!UpdateCreateThreshold,
     RuleProofs!UpdateCreateThreshold, Rules!SaveSelect, RuleProofs!SaveSelect, Rules!SaveUpdate,
     RuleProofs!SaveUpdate, Rules!Next, RuleProofs!Next
<1>4. Rules!CreationWasAsked <=> RuleProofs!CreationWasAsked
  BY DEF Rules!Null, RuleProofs!Null, Rules!Compare, RuleProofs!Compare, Rules!Matches, RuleProofs!Matches,
     Rules!Hit, RuleProofs!Hit, Rules!Outcome, RuleProofs!Outcome, Rules!Evaluate, RuleProofs!Evaluate,
     Rules!ActiveRules, RuleProofs!ActiveRules, Rules!DefaultRule, RuleProofs!DefaultRule, Rules!Codes,
     RuleProofs!Codes, Rules!CreationWasAsked, RuleProofs!CreationWasAsked
<1>5. Rules!TypeOK <=> RuleProofs!TypeOK
  BY DEF Rules!TypeOK, RuleProofs!TypeOK, Rules!Codes, RuleProofs!Codes, Rules!DefaultRule,
     RuleProofs!DefaultRule, Rules!Rule, RuleProofs!Rule, Rules!Actions, RuleProofs!Actions
<1> QED BY <1>1, <1>2, <1>3, <1>4, <1>5

\* PromptVersions and the module of its proofs give the same definitions.
LEMMA PromptsAre ==
  /\ PromptProofs!PromptAssumption
  /\ Prompts!Init <=> PromptProofs!Init
  /\ Prompts!Next <=> PromptProofs!Next
  /\ Prompts!LatestOrNoneActive <=> PromptProofs!LatestOrNoneActive
  /\ Prompts!TypeOK <=> PromptProofs!TypeOK
<1>1. PromptProofs!PromptAssumption
  BY ServicesAssumption DEF ServicesAssumption, Prompts!PromptAssumption, PromptProofs!PromptAssumption
<1>2. Prompts!Init <=> PromptProofs!Init
  BY DEF Prompts!Init, PromptProofs!Init, Prompts!Down, PromptProofs!Down, Prompts!None, PromptProofs!None,
     Prompts!Idle, PromptProofs!Idle
<1>3. Prompts!Next <=> PromptProofs!Next
  BY DEF Prompts!None, PromptProofs!None, Prompts!Versions, PromptProofs!Versions, Prompts!Idle,
     PromptProofs!Idle, Prompts!Down, PromptProofs!Down, Prompts!Up, PromptProofs!Up, Prompts!Latest,
     PromptProofs!Latest, Prompts!Active, PromptProofs!Active, Prompts!Insert, PromptProofs!Insert,
     Prompts!Boot, PromptProofs!Boot, Prompts!After, PromptProofs!After, Prompts!FindExisting,
     PromptProofs!FindExisting, Prompts!FindActive, PromptProofs!FindActive, Prompts!Seed, PromptProofs!Seed,
     Prompts!NoteSeed, PromptProofs!NoteSeed, Prompts!SeedFails, PromptProofs!SeedFails, Prompts!Reloaded,
     PromptProofs!Reloaded, Prompts!FillCache, PromptProofs!FillCache, Prompts!Restart, PromptProofs!Restart,
     Prompts!ReadLatest, PromptProofs!ReadLatest, Prompts!StillActive, PromptProofs!StillActive,
     Prompts!Deactivate, PromptProofs!Deactivate, Prompts!InsertNew, PromptProofs!InsertNew,
     Prompts!NoteUpdate, PromptProofs!NoteUpdate, Prompts!ReloadOwn, PromptProofs!ReloadOwn,
     Prompts!UpdateFails, PromptProofs!UpdateFails, Prompts!Next, PromptProofs!Next
<1>4. Prompts!LatestOrNoneActive <=> PromptProofs!LatestOrNoneActive
  BY DEF Prompts!LatestOrNoneActive, PromptProofs!LatestOrNoneActive, Prompts!Active, PromptProofs!Active
<1>5. Prompts!TypeOK <=> PromptProofs!TypeOK
  BY DEF Prompts!TypeOK, PromptProofs!TypeOK, Prompts!Versions, PromptProofs!Versions, Prompts!Idle,
     PromptProofs!Idle, Prompts!Down, PromptProofs!Down, Prompts!Up, PromptProofs!Up, Prompts!None,
     PromptProofs!None
<1> QED BY <1>1, <1>2, <1>3, <1>4, <1>5

-----------------------------------------------------------------------------
(* The parts together *)

\* A step of the whole is a step of one part.
LEMMA StepIs ==
  ASSUME [ServicesNext]_serviceVars
  PROVE  /\ [Next]_vars /\ [Matching!Next]_matchingVars
         /\ [RuleProofs!Next]_RuleProofs!vars /\ [PromptProofs!Next]_PromptProofs!vars
<1>1. /\ [Next]_vars /\ [Matching!Next]_matchingVars /\ [Rules!Next]_ruleVars /\ [Prompts!Next]_promptVars
  BY DEF ServicesNext, serviceVars, Matching!Next
<1>2. (UNCHANGED ruleVars => UNCHANGED RuleProofs!vars) /\ (UNCHANGED promptVars => UNCHANGED PromptProofs!vars)
  BY DEF ruleVars, promptVars, RuleProofs!vars, PromptProofs!vars
<1> QED BY <1>1, <1>2, RulesAre, PromptsAre

LEMMA TypesHold == ServicesSpec => []TypeInv
<1>1. ServicesInit => TypeInv
  BY TypeInit, QueueAssumption DEF ServicesInit
<1>2. TypeInv /\ [ServicesNext]_serviceVars => TypeInv'
  BY TypeNext, StepIs, QueueAssumption
<1> QED BY <1>1, <1>2, PTL DEF ServicesSpec

LEMMA SpendHolds == ServicesSpec => []SpendInv
<1>1. ServicesInit => SpendInv
  BY SpendInit, ServicesAssumption DEF ServicesInit
<1>2. SpendInv /\ [ServicesNext]_serviceVars => SpendInv'
  BY SpendNext, StepIs, ServicesAssumption
<1> QED BY <1>1, <1>2, PTL DEF ServicesSpec

LEMMA RulesHold == ServicesSpec => []RuleProofs!RuleInv
<1>1. ServicesInit => RuleProofs!RuleInv
  BY RulesAre, RuleProofs!RuleInit DEF ServicesInit
<1>2. RuleProofs!RuleInv /\ [ServicesNext]_serviceVars => RuleProofs!RuleInv'
  BY RulesAre, StepIs, RuleProofs!RuleNext
<1> QED BY <1>1, <1>2, PTL DEF ServicesSpec

LEMMA PromptTypes == ServicesSpec => []PromptProofs!TypeOK
<1>1. ServicesInit => PromptProofs!TypeOK
  BY PromptsAre, PromptProofs!TypeInit DEF ServicesInit
<1>2. PromptProofs!TypeOK /\ [ServicesNext]_serviceVars => PromptProofs!TypeOK'
  BY PromptsAre, StepIs, PromptProofs!TypeNext
<1> QED BY <1>1, <1>2, PTL DEF ServicesSpec

\* The variables of all four parts keep their types, for any searches, listings, limits, processes and
\* updates: no job is tried more often than CRAWL_ATTEMPTS, no call made again more often than
\* AI_MAX_RETRIES, and every row of the rules has the action of its default.
THEOREM TypeCorrect == ServicesSpec => []ServicesTypeOK
<1>1. TypeInv => TypeOK
  BY DEF TypeInv
<1>2. SpendInv => Matching!TypeOK
  <2>1. SUFFICES ASSUME SpendInv PROVE Matching!TypeOK
    OBVIOUS
  <2>2. MaxRetries \in Nat
    BY ServicesAssumption DEF ServicesAssumption, Matching!MatchingAssumption
  <2>3. ASSUME NEW t \in Matching!Tasks
        PROVE  task[t] \in [pc : Matching!Calls \cup {"idle", "scored", "failed", "answered"},
                            attempt : 0..MaxRetries]
    <3>1. task[t] \in [pc : TaskKind, attempt : Nat] /\ task[t].attempt <= MaxRetries
      BY <2>1 DEF SpendInv, CallInv, CallTypes, Kinds
    <3> QED BY <2>2, <3>1 DEF TaskKind, Matching!Calls
  <2>4. task \in [Matching!Tasks -> [pc : Matching!Calls \cup {"idle", "scored", "failed", "answered"},
                                     attempt : 0..MaxRetries]]
    <3>1. task \in [Matching!Tasks -> [pc : TaskKind, attempt : Nat]]
      BY <2>1 DEF SpendInv, CallInv, CallTypes
    <3> QED BY <2>3, <3>1
  <2> QED BY <2>1, <2>4 DEF SpendInv, CallInv, CallTypes, Matching!TypeOK
<1>3. RuleProofs!RuleInv => Rules!TypeOK
  BY RulesAre DEF RuleProofs!RuleInv, RuleProofs!Tables, RuleProofs!Edits, RuleProofs!Starts,
     RuleProofs!Lows, RuleProofs!Asked, RuleProofs!TypeOK
<1>4. PromptProofs!TypeOK => Prompts!TypeOK
  BY PromptsAre
<1> QED BY <1>1, <1>2, <1>3, <1>4, TypesHold, SpendHolds, RulesHold, PromptTypes, PTL DEF ServicesTypeOK

\* As long as nothing crashed and nobody has retried, every search that was queued can be found: in
\* the queue, on its way to the DLQ, in the DLQ, or over.
THEOREM NothingIsLost == ServicesSpec => []CalmLosesNothing
<1>1. ServicesInit => CalmInv
  BY LostInit DEF ServicesInit
<1>2. TypeInv /\ CalmInv /\ [ServicesNext]_serviceVars => CalmInv'
  BY LostNext, NoRetryNext, StepIs, QueueAssumption DEF CalmInv
<1>3. CalmInv => CalmLosesNothing
  BY DEF CalmInv, Calm, CalmLosesNothing
<1> QED BY <1>1, <1>2, <1>3, TypesHold, PTL DEF ServicesSpec

\* As long as operators retry one after another and nothing crashes, no search is listed as failed
\* while it has a job, unless the retry that made it is still under way.
THEOREM OneHomeKept ==
  ASSUME OneOperator
  PROVE  ServicesSpec => []OneHome
<1>1. ServicesInit => HomeInv
  BY HomeInit DEF ServicesInit
<1>2. TypeInv /\ HomeInv /\ [ServicesNext]_serviceVars => HomeInv'
  BY HomeNext, StepIs, QueueAssumption
<1>3. HomeInv => OneHome
  BY DEF HomeInv, Home, OneHome
<1> QED BY <1>1, <1>2, <1>3, TypesHold, PTL DEF ServicesSpec

LEMMA CallInvHolds == ServicesSpec => []CallInv
<1>1. ServicesInit => CallInv
  BY CallInit, ServicesAssumption DEF ServicesInit
<1>2. CallInv /\ [ServicesNext]_serviceVars => CallInv'
  BY CallNext, StepIs, ServicesAssumption
<1> QED BY <1>1, <1>2, PTL DEF ServicesSpec

\* A listing waits, is evaluated or has its result, but only one of these and once, whatever its calls
\* answer: none is evaluated beside itself or gets a second result, in either pass.
THEOREM EachOnce == ServicesSpec => []OncePerListing
<1>1. CallInv => OncePerListing
  BY CallMeans
<1> QED BY <1>1, CallInvHolds, PTL

\* The usage rows of a search's listings and of the other requests account for every call that was
\* sent, with as many retries as the rows say, but for the calls whose row was lost: the table is short
\* of these and of nothing else.
THEOREM LedgerBalances == ServicesSpec => []LedgerAccounts
<1>1. CallInv => LedgerAccounts
  BY CallMeans
<1> QED BY <1>1, CallInvHolds, PTL

\* A search costs no more than its two passes may: at most Limit and SecondLimit evaluations of three
\* calls, each of them made MaxRetries times again; a listing at most two, a request one call.
THEOREM SpendIsBounded == ServicesSpec => []SpendBounded
<1>1. SpendInv => SpendBounded
  BY SpendMeans, ServicesAssumption
<1> QED BY <1>1, SpendHolds, PTL

\* No listing becomes a case at a score that no default and no operator asked for, whatever processes
\* seed and operators save, in any order.
THEOREM CreationAskedFor == ServicesSpec => []CreationWasAsked
<1>1. RuleProofs!RuleInv => CreationWasAsked
  <2>1. RuleProofs!RuleInv => RuleProofs!CreationWasAsked
    BY RulesAre, RuleProofs!CreationAsked
       DEF RuleProofs!CreationWasAsked, RuleProofs!Creates, RuleProofs!Excludes
  <2> QED BY <2>1, RulesAre DEF CreationWasAsked
<1> QED BY <1>1, RulesHold, PTL

\* With one file for the prompt, the versions are numbered without a gap and none but the latest is
\* active, however boots and updates interleave, fail and restart.
THEOREM VersionsNumbered == ASSUME Files = {1} PROVE ServicesSpec => []LatestOrNoneActive
<1>1. ServicesInit => PromptProofs!TypeOK /\ PromptProofs!NumberedInv
  BY PromptsAre, PromptProofs!TypeInit, PromptProofs!NumberedInit DEF ServicesInit
<1>2. PromptProofs!TypeOK /\ PromptProofs!NumberedInv /\ [ServicesNext]_serviceVars
        => (PromptProofs!TypeOK /\ PromptProofs!NumberedInv)'
  BY PromptsAre, StepIs, PromptProofs!TypeNext, PromptProofs!NumberedNext
<1>3. PromptProofs!NumberedInv => LatestOrNoneActive
  <2>1. PromptProofs!NumberedInv => PromptProofs!LatestOrNoneActive
    BY DEF PromptProofs!NumberedInv, PromptProofs!Numbered, PromptProofs!LatestOrNoneActive
  <2> QED BY <2>1, PromptsAre DEF LatestOrNoneActive
<1> QED BY <1>1, <1>2, <1>3, PTL DEF ServicesSpec
=============================================================================
