----------------------------- MODULE CrawlQueue -----------------------------
(***************************************************************************)
(* The queue of crawls and the dead-letter queue (DLQ) of those that were  *)
(* given up: src/queue/crawl-queue.service.ts and crawl.processor.ts, with *)
(* the two services that enqueue (search.service.ts, crawl.service.ts).    *)
(*                                                                         *)
(* BullMQ itself is not part of the repository.  What is used of it: a job *)
(* is identified by search-<searchHistoryId>, adding an identifier that is *)
(* already there changes nothing, a job that throws is tried again until   *)
(* its attempts are used up and is then removed at once (removeOnFail),    *)
(* removing a job that is being processed is refused, and a job whose      *)
(* worker died is given to a worker again.                                 *)
(***************************************************************************)
EXTENDS Naturals, FiniteSets

CONSTANTS
  Searches,        \* the identifiers of search histories
  Movers,          \* calls of onFailed under way at a time (a bound)
  Retries,         \* calls of the DLQ's retry endpoint under way at a time (a bound)
  Attempts,        \* CRAWL_ATTEMPTS
  Concurrency,     \* CRAWL_CONCURRENCY
  MaxCrashes       \* crashes of a process, and errors of Redis (a bound)

ASSUME QueueAssumption ==
  /\ "none" \notin Searches
  /\ Attempts \in Nat \ {0} /\ Concurrency \in Nat \ {0}
  /\ MaxCrashes \in Nat

VARIABLES
  history,  \* search_history.status; "over" stands for completed, partial or failed
  submit,   \* the request that creates each search: "idle", "saved", "done" or "dead"
  queue,    \* the crawl queue's job of each search
  made,     \* its attemptsMade
  dlq,      \* the searches with an entry in the DLQ
  mover,    \* the calls of onFailed that move a job
  retry,    \* the calls of retryFailedJob
  crashes,  \* crashes and errors so far
  retried   \* the searches an operator has asked to try again (history variable)

vars == <<history, submit, queue, made, dlq, mover, retry, crashes, retried>>

Idle == [pc |-> "idle", search |-> "none"]
At(label, s) == [pc |-> label, search |-> s]

Init ==
  /\ history = [s \in Searches |-> "none"]
  /\ submit = [s \in Searches |-> "idle"]
  /\ queue = [s \in Searches |-> "none"]
  /\ made = [s \in Searches |-> 0]
  /\ dlq = {}
  /\ mover = [m \in Movers |-> Idle]
  /\ retry = [r \in Retries |-> Idle]
  /\ crashes = 0 /\ retried = {}

-----------------------------------------------------------------------------
(* Enqueueing *)

\* enqueueSearchCrawl: the identifier makes a second job of a search a no-op.
AddJob(s) ==
  /\ queue' = [queue EXCEPT ![s] = IF @ = "none" THEN "waiting" ELSE @]
  /\ made' = [made EXCEPT ![s] = IF queue[s] = "none" THEN 0 ELSE @]

\* search and enqueue (crawl.service) save the history, then add the job.
Submit(s) ==
  /\ submit[s] = "idle"
  /\ history' = [history EXCEPT ![s] = "queued"]
  /\ submit' = [submit EXCEPT ![s] = "saved"]
  /\ UNCHANGED <<queue, made, dlq, mover, retry, crashes, retried>>

Enqueue(s) ==
  /\ submit[s] = "saved"
  /\ AddJob(s)
  /\ submit' = [submit EXCEPT ![s] = "done"]
  /\ UNCHANGED <<history, dlq, mover, retry, crashes, retried>>

-----------------------------------------------------------------------------
(* The worker *)

Active == {s \in Searches : queue[s] = "active"}

\* A slip: one slot is never used.
SlotKept == Cardinality(Active) + 1 < Concurrency

SlotFree == Cardinality(Active) < Concurrency

\* process: executeCrawl marks the history running first.
Take(s) ==
  /\ queue[s] = "waiting" /\ SlotFree
  /\ queue' = [queue EXCEPT ![s] = "active"]
  /\ history' = [history EXCEPT ![s] = "running"]
  /\ UNCHANGED <<submit, made, dlq, mover, retry, crashes, retried>>

\* The sites are done, with or without errors: the history is saved ...
Finish(s) ==
  /\ queue[s] = "active" /\ history[s] = "running"
  /\ history' = [history EXCEPT ![s] = "over"]
  /\ UNCHANGED <<submit, queue, made, dlq, mover, retry, crashes, retried>>

\* ... and process returns.
Complete(s) ==
  /\ queue[s] = "active" /\ history[s] = "over"
  /\ queue' = [queue EXCEPT ![s] = "completed"]
  /\ UNCHANGED <<history, submit, made, dlq, mover, retry, crashes, retried>>

\* Completed jobs are kept for a while (removeOnComplete).
Forget(s) ==
  /\ queue[s] = "completed"
  /\ queue' = [queue EXCEPT ![s] = "none"]
  /\ UNCHANGED <<history, submit, made, dlq, mover, retry, crashes, retried>>

\* A slip: one attempt too many.
AttemptToSpare(n) == n <= Attempts

\* BullMQ tries a job again while it has attempts left.
AttemptLeft(n) == n < Attempts

\* A slip: the last attempt but one is taken for the last.
ExhaustedEarly(n) == n >= Attempts - 1

\* The guard of onFailed.
Exhausted(n) == n >= Attempts

\* executeCrawl throws, on a database error: BullMQ tries the job again or removes it, and calls
\* onFailed, which starts to move an exhausted job.  The history stays running.
Throw(s) ==
  /\ queue[s] = "active" /\ history[s] = "running"
  /\ made' = [made EXCEPT ![s] = @ + 1]
  /\ queue' = [queue EXCEPT ![s] = IF AttemptLeft(made'[s]) THEN "waiting" ELSE "none"]
  /\ IF Exhausted(made'[s])
     THEN \E m \in Movers : mover[m] = Idle /\ mover' = [mover EXCEPT ![m] = At("check", s)]
     ELSE UNCHANGED mover
  /\ UNCHANGED <<history, submit, dlq, retry, crashes, retried>>

-----------------------------------------------------------------------------
(* moveExhaustedJobToDlq *)

\* A slip: a job already in the DLQ is not looked for, nor one added.
MoveCheckOnly(m) ==
  /\ mover[m].pc = "check"
  /\ mover' = [mover EXCEPT ![m].pc = "remove"]
  /\ UNCHANGED <<history, submit, queue, made, dlq, retry, crashes, retried>>

MoveCheck(m) ==
  /\ mover[m].pc = "check"
  /\ mover' = [mover EXCEPT ![m].pc = IF mover[m].search \in dlq THEN "remove" ELSE "add"]
  /\ UNCHANGED <<history, submit, queue, made, dlq, retry, crashes, retried>>

MoveAdd(m) ==
  /\ mover[m].pc = "add"
  /\ dlq' = dlq \cup {mover[m].search}
  /\ mover' = [mover EXCEPT ![m].pc = "remove"]
  /\ UNCHANGED <<history, submit, queue, made, retry, crashes, retried>>

\* job.remove(): whatever job has the identifier by now, unless it is being
\* processed; the refusal is logged and ignored.
MoveRemove(m) ==
  /\ mover[m].pc = "remove"
  /\ queue' = [queue EXCEPT ![mover[m].search] = IF @ = "active" THEN @ ELSE "none"]
  /\ mover' = [mover EXCEPT ![m] = Idle]
  /\ UNCHANGED <<history, submit, made, dlq, retry, crashes, retried>>

\* An error of Redis in the move is logged by onFailed, and ignored.
MoveFails(m) ==
  /\ mover[m].pc \in {"check", "add"} /\ crashes < MaxCrashes
  /\ mover' = [mover EXCEPT ![m] = Idle]
  /\ crashes' = crashes + 1
  /\ UNCHANGED <<history, submit, queue, made, dlq, retry, retried>>

-----------------------------------------------------------------------------
(* retryFailedJob *)

RetryStart(r, s) ==
  /\ retry[r].pc = "idle" /\ s \in dlq
  /\ retry' = [retry EXCEPT ![r] = At("enqueue", s)]
  /\ retried' = retried \cup {s}
  /\ UNCHANGED <<history, submit, queue, made, dlq, mover, crashes>>

RetryEnqueue(r) ==
  /\ retry[r].pc = "enqueue"
  /\ AddJob(retry[r].search)
  /\ retry' = [retry EXCEPT ![r].pc = "remove"]
  /\ UNCHANGED <<history, submit, dlq, mover, crashes, retried>>

RetryRemove(r) ==
  /\ retry[r].pc = "remove"
  /\ dlq' = dlq \ {retry[r].search}
  /\ retry' = [retry EXCEPT ![r] = Idle]
  /\ UNCHANGED <<history, submit, queue, made, mover, crashes, retried>>

-----------------------------------------------------------------------------
(* Crashes *)

\* The worker process dies with its moves; its jobs are given out again.
CrashWorker ==
  /\ crashes < MaxCrashes /\ crashes' = crashes + 1
  /\ queue' = [s \in Searches |-> IF queue[s] = "active" THEN "waiting" ELSE queue[s]]
  /\ mover' = [m \in Movers |-> Idle]
  /\ UNCHANGED <<history, submit, made, dlq, retry, retried>>

\* An API process dies with its requests.
CrashApi ==
  /\ crashes < MaxCrashes /\ crashes' = crashes + 1
  /\ submit' = [s \in Searches |-> IF submit[s] = "saved" THEN "dead" ELSE submit[s]]
  /\ retry' = [r \in Retries |-> Idle]
  /\ UNCHANGED <<history, queue, made, dlq, mover, retried>>

-----------------------------------------------------------------------------
Mover(m) == MoveCheck(m) \/ MoveAdd(m) \/ MoveRemove(m) \/ MoveFails(m)
Retry(r) == (\E s \in Searches : RetryStart(r, s)) \/ RetryEnqueue(r) \/ RetryRemove(r)

Next ==
  \/ \E s \in Searches : Submit(s) \/ Enqueue(s) \/ Take(s) \/ Finish(s) \/ Complete(s) \/ Forget(s) \/ Throw(s)
  \/ \E m \in Movers : Mover(m)
  \/ \E r \in Retries : Retry(r)
  \/ CrashWorker \/ CrashApi

Spec == Init /\ [][Next]_vars

\* A request, the worker, its moves and a retry call go on once begun, and a
\* slot that comes free goes to the job that waits longest, so that none is
\* passed over for ever; nothing obliges a client to submit or an operator to
\* call, nor a process to crash.
Fairness ==
  /\ \A s \in Searches : WF_vars(Enqueue(s)) /\ SF_vars(Take(s))
  /\ \A s \in Searches : WF_vars(Finish(s) \/ Throw(s)) /\ WF_vars(Complete(s))
  /\ \A m \in Movers : WF_vars(MoveCheck(m)) /\ WF_vars(MoveAdd(m)) /\ WF_vars(MoveRemove(m))
  /\ \A r \in Retries : WF_vars(RetryEnqueue(r)) /\ WF_vars(RetryRemove(r))

FairSpec == Spec /\ Fairness

-----------------------------------------------------------------------------
TypeOK ==
  /\ history \in [Searches -> {"none", "queued", "running", "over"}]
  /\ submit \in [Searches -> {"idle", "saved", "done", "dead"}]
  /\ queue \in [Searches -> {"none", "waiting", "active", "completed"}]
  /\ made \in [Searches -> 0..Attempts]
  /\ dlq \subseteq Searches
  /\ mover \in [Movers -> [pc : {"idle", "check", "add", "remove"}, search : Searches \cup {"none"}]]
  /\ retry \in [Retries -> [pc : {"idle", "enqueue", "remove"}, search : Searches \cup {"none"}]]
  /\ crashes \in 0..MaxCrashes /\ retried \subseteq Searches

Moving(s, labels) == \E m \in Movers : mover[m].pc \in labels /\ mover[m].search = s
Retrying(s, labels) == \E r \in Retries : retry[r].pc \in labels /\ retry[r].search = s

\* A search that was queued is in the queue, on its way to the DLQ, in the
\* DLQ, or over: it can be found and, if it failed, tried again.  The
\* documentation promises it of every exhausted job, without a condition.
NothingLost ==
  \A s \in Searches : submit[s] = "done" =>
    queue[s] # "none" \/ Moving(s, {"check", "add"}) \/ s \in dlq \/ history[s] = "over"

\* As long as nothing crashed and no operator has retried, none is lost,
\* however moves and attempts interleave.
CalmLosesNothing == crashes = 0 /\ retried = {} => NothingLost

\* A search is listed as failed while the queue has a job of it only as long as
\* the retry that put it there is under way: the DLQ names what failed and is
\* not being tried.  It holds, until a crash, while operators retry one after
\* another; two of them at a time can leave a running job in the DLQ.
OneHome == crashes = 0 => \A s \in dlq : queue[s] # "none" => Retrying(s, {"remove"})

\* Every search that was queued is over or listed as failed in the end, unless
\* something crashes or an operator retries before.
Settles ==
  \A s \in Searches :
    submit[s] = "done" ~> history[s] = "over" \/ s \in dlq \/ retried # {} \/ crashes > 0

\* The crawl queue never holds on to a job: whatever crashes, and however often
\* operators retry meanwhile, a queued job is completed or given up in the end.
Drains ==
  \A s \in Searches : queue[s] \in {"waiting", "active"} ~> queue[s] \in {"none", "completed"}
=============================================================================
