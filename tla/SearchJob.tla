----------------------------- MODULE SearchJob -----------------------------
(***************************************************************************)
(* One search job, from its creation to the callback that reports it to    *)
(* the BackOffice.  Four kinds of actors share the job's database rows:    *)
(*                                                                         *)
(*  - the controller, one asynchronous call chain in the API process that  *)
(*    created the job: runSearch, then watchJobHistories, finalizeJob,     *)
(*    triggerAutoInvestigation and sendBackOfficeCallback                  *)
(*    (search-job.service.ts);                                             *)
(*  - the crawl worker, which runs the queued search of each keyword and   *)
(*    publishes its progress on Redis (crawler.service.ts);                *)
(*  - the progress handlers: every process (two API processes and the      *)
(*    worker) subscribes, and starts an unawaited handler per message      *)
(*    (search-job-progress.sync.ts);                                       *)
(*  - operators who ask for the callback to be sent again (resendCallback).*)
(*                                                                         *)
(* Grain of atomicity: one action per database read or write that another  *)
(* actor can observe or invalidate.  repo.save(entity) is two actions: it  *)
(* SELECTs the row, finds the columns in which the entity differs from it, *)
(* and UPDATEs those columns; repo.update is one.                          *)
(***************************************************************************)
EXTENDS JobStatus

CONSTANTS
  Keywords,      \* the search keywords of the job
  Handlers,      \* progress handlers that can be under way at a time (a bound)
  Resenders,     \* calls of the resend endpoint (a bound)
  Outcomes,      \* what an attempt to call the BackOffice back can end in
  MaxFaults,     \* errors of the database, the queue or Elasticsearch (a bound)
  MaxRuns        \* executions of one crawl, retries included (a bound)

ASSUME JobAssumption ==
  /\ Keywords # {} /\ IsFiniteSet(Keywords)
  /\ "none" \notin Keywords
  /\ Outcomes \subseteq {"ok", "lost", "error", "skipped"}
  /\ MaxFaults \in Nat /\ MaxRuns \in Nat

VARIABLES
  job,        \* the search_jobs row
  rows,       \* search_job_histories: keyword -> status, "none" before it is recorded
  crawl,      \* search_history.status of each keyword's search, "none" before it exists
  emit,       \* the status the worker has yet to publish for each keyword
  runs,       \* how often each crawl was started
  pc, ret,    \* where the controller is, and where it goes after a save
  watching,   \* whether the controller is in watchJobHistories (else in runSearch)
  copy,       \* the controller's in-memory job entity (FreshJob when it holds none)
  dirty,      \* the columns its save under way will UPDATE
  todo,       \* keywords left in the controller's loop
  cur, got,   \* the keyword it is at, and the status it read for it
  aged,       \* keywords whose own timeout has elapsed
  expired,    \* whether the total timeout has elapsed
  faults,     \* errors thrown so far
  hand,       \* the progress handlers
  resend,     \* the resend calls
  decided,    \* history: the verdicts written so far
  succeeded,  \* history: keywords whose search has ended in success
  posts       \* history: callbacks that reached the BackOffice, by payload status

crawlVars == <<crawl, emit, runs, succeeded>>
timeVars  == <<aged, expired>>
chainVars == <<pc, ret, watching, copy, dirty, todo, cur, got>>
ctlVars   == <<chainVars, faults>>
vars == <<job, rows, crawlVars, timeVars, ctlVars, hand, resend, decided, posts>>

-----------------------------------------------------------------------------
\* The columns of search_jobs that more than one actor writes.  finishedAt,
\* callbackSentAt and callbackError are abstracted to being set or null.
Columns == {"status", "history", "finishedAt", "callbackSentAt", "callbackError"}

Job == [status : JobStatusSet, history : Keywords \cup {"none"},
        finishedAt : BOOLEAN, callbackSentAt : BOOLEAN, callbackError : BOOLEAN]

FreshJob == [status |-> "pending", history |-> "none", finishedAt |-> FALSE,
             callbackSentAt |-> FALSE, callbackError |-> FALSE]

\* The columns in which an entity differs from the row it is compared with.
Differing(entity, row) == {c \in Columns : entity[c] # row[c]}

\* The row after an UPDATE that sets the columns cols to the entity's values.
Merged(row, entity, cols) ==
  [status         |-> IF "status" \in cols THEN entity.status ELSE row.status,
   history        |-> IF "history" \in cols THEN entity.history ELSE row.history,
   finishedAt     |-> IF "finishedAt" \in cols THEN entity.finishedAt ELSE row.finishedAt,
   callbackSentAt |-> IF "callbackSentAt" \in cols
                        THEN entity.callbackSentAt ELSE row.callbackSentAt,
   callbackError  |-> IF "callbackError" \in cols
                        THEN entity.callbackError ELSE row.callbackError]

Recorded(r) == {k \in Keywords : r[k] # "none"}
Statuses(r) == [k \in Recorded(r) |-> r[k]]
Pending(r)  == {k \in Recorded(r) : r[k] \notin TerminalStatus}

\* An error of the current access that the code logs and ignores.
SwallowedError == faults < MaxFaults /\ faults' = faults + 1

Terminal(j) == j.status \in TerminalJobStatus
Reportable(j) == j.status \in {"completed", "partial"}

-----------------------------------------------------------------------------
\* Redis delivers a message to every live subscriber and keeps none: any of
\* the idle handlers may get it, or no one (the publisher swallows errors).
IdleHandler == [pc |-> "idle", keyword |-> "none", status |-> "none",
                copy |-> FreshJob, dirty |-> {}]

Started(k, status) == [pc |-> "row", keyword |-> k, status |-> status,
                       copy |-> FreshJob, dirty |-> {}]

Publish(k, status) ==
  \E H \in SUBSET {h \in Handlers : hand[h].pc = "idle"} :
    hand' = [h \in Handlers |->
               IF h \in H THEN Started(k, status) ELSE hand[h]]

-----------------------------------------------------------------------------
Init ==
  /\ job = FreshJob
  /\ rows = [k \in Keywords |-> "none"]
  /\ crawl = [k \in Keywords |-> "none"]
  /\ emit = [k \in Keywords |-> "none"]
  /\ runs = [k \in Keywords |-> 0]
  /\ pc = "begin" /\ ret = "none" /\ watching = FALSE
  /\ copy = FreshJob /\ dirty = {}
  /\ todo = Keywords /\ cur = "none" /\ got = "none"
  /\ aged = {} /\ expired = FALSE /\ faults = 0
  /\ hand = [h \in Handlers |-> IdleHandler]
  /\ resend = [r \in Resenders |-> [pc |-> "idle", payload |-> "none"]]
  /\ decided = {} /\ succeeded = {}
  /\ posts = [s \in {"completed", "partial"} |-> 0]

-----------------------------------------------------------------------------
(* The controller: runSearch *)

\* Calls repo.save(entity), to continue at label.
Save(entity, label) == copy' = entity /\ ret' = label /\ pc' = "select"

\* A save that writes a verdict; it sets finishedAt to the current time,
\* which always differs from the row's.
IsVerdict(label) == label \in {"callback", "done"}

SaveSelect ==
  /\ pc = "select"
  /\ dirty' = Differing(copy, job) \cup IF IsVerdict(ret) THEN {"finishedAt"} ELSE {}
  /\ pc' = "update"
  /\ UNCHANGED <<job, rows, crawlVars, timeVars, ret, watching, copy, todo, cur, got,
                 faults, hand, resend, decided, posts>>

SaveUpdate ==
  /\ pc = "update"
  /\ job' = Merged(job, copy, dirty)
  /\ decided' = decided \cup IF IsVerdict(ret) THEN {copy.status} ELSE {}
  /\ dirty' = {}
  /\ copy' = IF ret = "search" THEN copy ELSE FreshJob
  /\ pc' = ret /\ ret' = "none"
  /\ UNCHANGED <<rows, crawlVars, timeVars, watching, todo, cur, got,
                 faults, hand, resend, posts>>

\* runSearch reads the job and marks it queued, then running.  Nothing links
\* a crawl to the job yet, so no one else writes the row.
StartRun ==
  /\ pc = "begin"
  /\ job' = [job EXCEPT !.status = "queued"]
  /\ copy' = job'
  /\ pc' = "start"
  /\ UNCHANGED <<rows, crawlVars, timeVars, ret, watching, dirty, todo, cur, got,
                 faults, hand, resend, decided, posts>>

StartSearching ==
  /\ pc = "start"
  /\ job' = [job EXCEPT !.status = "running"]
  /\ copy' = job'
  /\ pc' = "keyword"
  /\ UNCHANGED <<rows, crawlVars, timeVars, ret, watching, dirty, todo, cur, got,
                 faults, hand, resend, decided, posts>>

\* The loop over the keywords saves the progress before each search.
NextKeyword(k) ==
  /\ pc = "keyword" /\ k \in todo
  /\ cur' = k
  /\ Save(copy, "search")
  /\ UNCHANGED <<job, rows, crawlVars, timeVars, watching, dirty, todo, got,
                 faults, hand, resend, decided, posts>>

\* searchService.search: the listings are cached, or a crawl is queued.
SearchHit ==
  /\ pc = "search"
  /\ crawl' = [crawl EXCEPT ![cur] = "cached"]
  /\ succeeded' = succeeded \cup {cur}
  /\ got' = "cached"
  /\ pc' = "record"
  /\ UNCHANGED <<job, rows, emit, runs, timeVars, ret, watching, copy, dirty, todo, cur,
                 faults, hand, resend, decided, posts>>

SearchQueued ==
  /\ pc = "search"
  /\ crawl' = [crawl EXCEPT ![cur] = "queued"]
  /\ got' = "queued"
  /\ pc' = "announce"
  /\ UNCHANGED <<job, rows, emit, runs, succeeded, timeVars, ret, watching, copy, dirty,
                 todo, cur, faults, hand, resend, decided, posts>>

\* "queued" is published after the crawl is in the queue: the worker may have
\* started it, or finished it, before.
Announce ==
  /\ pc = "announce"
  /\ Publish(cur, "queued")
  /\ pc' = "record"
  /\ UNCHANGED <<job, rows, crawlVars, timeVars, ret, watching, copy, dirty, todo, cur,
                 got, faults, resend, decided, posts>>

\* A slip: the last search represents the job.
RepresentedByLast(entity, k) == [entity EXCEPT !.history = k]

\* The first search represents the job.
Represented(entity, k) == IF entity.history = "none" THEN [entity EXCEPT !.history = k] ELSE entity

\* The row of the keyword is written, or its loss is logged and ignored; the
\* first search becomes the job's representative in memory.
RecordHistory ==
  /\ pc = "record"
  /\ \/ rows' = [rows EXCEPT ![cur] = got] /\ UNCHANGED faults
     \/ SwallowedError /\ UNCHANGED rows
  /\ copy' = Represented(copy, cur)
  /\ todo' = todo \ {cur}
  /\ cur' = "none" /\ got' = "none"
  /\ pc' = "keyword"
  /\ UNCHANGED <<job, crawlVars, timeVars, ret, watching, dirty, hand, resend, decided, posts>>

\* After the last keyword: watch the rows that are not over, or finalize.
ListHistories ==
  /\ pc = "keyword" /\ todo = {}
  /\ IF Pending(rows) # {}
     THEN Save([copy EXCEPT !.status = "running"], "poll")
     ELSE Save(copy, "finalize")
  /\ UNCHANGED <<job, rows, crawlVars, timeVars, watching, dirty, todo, cur, got,
                 faults, hand, resend, decided, posts>>

-----------------------------------------------------------------------------
(* The controller: watchJobHistories.  A row is never deleted while its job
   exists, so the branch for a job without rows is not taken here. *)

Poll ==
  /\ pc = "poll"
  /\ watching' = TRUE
  /\ copy' = job
  /\ pc' = IF Terminal(job) THEN "done" ELSE "rows"
  /\ UNCHANGED <<job, rows, crawlVars, timeVars, ret, dirty, todo, cur, got, faults,
                 hand, resend, decided, posts>>

\* A slip: only the keywords' own timeouts are looked at.
ReadRowsUntimed ==
  /\ pc = "rows"
  /\ todo' = Pending(rows)
  /\ pc' = "pollRow"
  /\ UNCHANGED <<job, rows, crawlVars, timeVars, ret, watching, copy, dirty, cur, got,
                 faults, hand, resend, decided, posts>>

ReadRows ==
  /\ pc = "rows"
  /\ todo' = Pending(rows)
  /\ pc' = IF expired THEN "expire" ELSE "pollRow"
  /\ UNCHANGED <<job, rows, crawlVars, timeVars, ret, watching, copy, dirty, cur, got,
                 faults, hand, resend, decided, posts>>

\* markIncompleteRowsTimeout, from the rows read before.
ExpireRows ==
  /\ pc = "expire"
  /\ rows' = [k \in Keywords |-> IF k \in todo THEN "timeout" ELSE rows[k]]
  /\ todo' = {}
  /\ pc' = "finalize"
  /\ UNCHANGED <<job, crawlVars, timeVars, ret, watching, copy, dirty, cur, got, faults,
                 hand, resend, decided, posts>>

TimeOutRow(k) ==
  /\ pc = "pollRow" /\ k \in todo /\ k \in aged
  /\ rows' = [rows EXCEPT ![k] = "timeout"]
  /\ todo' = todo \ {k}
  /\ UNCHANGED <<job, crawlVars, timeVars, pc, ret, watching, copy, dirty, cur, got,
                 faults, hand, resend, decided, posts>>

GetSearch(k) ==
  /\ pc = "pollRow" /\ k \in todo \ aged
  /\ cur' = k
  /\ got' = crawl[k]
  /\ pc' = "saveRow"
  /\ UNCHANGED <<job, rows, crawlVars, timeVars, ret, watching, copy, dirty, todo, faults,
                 hand, resend, decided, posts>>

\* The status read is written, or an error of the read or of the write is
\* logged and the row is left to the next poll.
SaveRow ==
  /\ pc = "saveRow"
  /\ \/ rows' = [rows EXCEPT ![cur] = got] /\ UNCHANGED faults
     \/ SwallowedError /\ UNCHANGED rows
  /\ todo' = todo \ {cur}
  /\ cur' = "none" /\ got' = "none"
  /\ pc' = "pollRow"
  /\ UNCHANGED <<job, crawlVars, timeVars, ret, watching, copy, dirty, hand, resend,
                 decided, posts>>

\* The end of a poll: the job entity read at its start is saved with the new
\* progress, and the job is finalized if every row, read again, is over.
Refresh ==
  /\ pc = "pollRow" /\ todo = {}
  /\ Save(copy, IF Pending(rows) = {} THEN "finalize" ELSE "poll")
  /\ UNCHANGED <<job, rows, crawlVars, timeVars, watching, dirty, todo, cur, got, faults,
                 hand, resend, decided, posts>>

-----------------------------------------------------------------------------
(* The controller: finalizeJob and the callback *)

Finalize ==
  /\ pc = "finalize"
  /\ copy' = job
  /\ pc' = IF job.finishedAt /\ Terminal(job) THEN "done" ELSE "verdict"
  /\ UNCHANGED <<job, rows, crawlVars, timeVars, ret, watching, dirty, todo, cur, got,
                 faults, hand, resend, decided, posts>>

\* A job none of whose searches was recorded is judged by its representative.
VerdictOn(r, j) ==
  IF Recorded(r) # {} THEN ResolveJobStatus(Statuses(r))
  ELSE IF j.history = "none" THEN "failed" ELSE "completed"

Judged(entity, v) == [entity EXCEPT !.status = v, !.finishedAt = TRUE]

Verdict ==
  /\ pc = "verdict"
  /\ LET v == VerdictOn(rows, copy)
     IN  Save(Judged(copy, v),
              IF v = "failed" THEN "done" ELSE "callback")
  /\ UNCHANGED <<job, rows, crawlVars, timeVars, watching, dirty, todo, cur, got, faults,
                 hand, resend, decided, posts>>

\* The status a report of the job carries.
Payload(row) == IF row.status = "partial" THEN "partial" ELSE "completed"

\* sendBackOfficeCallback, after the investigation cases were created: the
\* job is read again.
ReadForCallback ==
  /\ pc = "callback"
  /\ IF ~job.callbackSentAt /\ Reportable(job)
     THEN pc' = "post" /\ got' = Payload(job)
     ELSE pc' = "done" /\ UNCHANGED got
  /\ UNCHANGED <<job, rows, crawlVars, timeVars, ret, watching, copy, dirty, todo, cur,
                 faults, hand, resend, decided, posts>>

\* One POST to the BackOffice: answered; received although the answer is lost
\* or too late; not received; or not sent, callbacks being switched off.
Notified(payload, o) == IF o \in {"ok", "lost"} THEN [posts EXCEPT ![payload] = @ + 1] ELSE posts

\* Slips: a call that was not made counts as sent; a failed one is repeated.
AfterPostUnlessFailed(o) == IF o \in {"ok", "skipped"} THEN "markSent" ELSE "markError"
AfterPostRetrying(o) == IF o = "ok" THEN "markSent" ELSE IF o = "skipped" THEN "done" ELSE "callback"

AfterPost(o) == IF o = "ok" THEN "markSent" ELSE IF o = "skipped" THEN "done" ELSE "markError"

Sent(row)   == [row EXCEPT !.callbackSentAt = TRUE, !.callbackError = FALSE]
Failing(row) == [row EXCEPT !.callbackError = TRUE]

Post ==
  /\ pc = "post"
  /\ \E o \in Outcomes : posts' = Notified(got, o) /\ pc' = AfterPost(o)
  /\ got' = "none"
  /\ UNCHANGED <<job, rows, crawlVars, timeVars, ret, watching, copy, dirty, todo, cur,
                 faults, hand, resend, decided>>

\* A slip: the watcher does not return after the callback.
MarkSentAndWatch ==
  /\ pc = "markSent"
  /\ job' = Sent(job)
  /\ pc' = "poll"
  /\ UNCHANGED <<rows, crawlVars, timeVars, ret, watching, copy, dirty, todo, cur, got,
                 faults, hand, resend, decided, posts>>

MarkSent ==
  /\ pc = "markSent"
  /\ job' = Sent(job)
  /\ pc' = "done"
  /\ UNCHANGED <<rows, crawlVars, timeVars, ret, watching, copy, dirty, todo, cur, got,
                 faults, hand, resend, decided, posts>>

MarkError ==
  /\ pc = "markError"
  /\ job' = Failing(job)
  /\ pc' = "done"
  /\ UNCHANGED <<rows, crawlVars, timeVars, ret, watching, copy, dirty, todo, cur, got,
                 faults, hand, resend, decided, posts>>

-----------------------------------------------------------------------------
(* The controller: errors *)

\* Where an await on the database, the queue or Elasticsearch may throw into a
\* try: of runSearch, of the watch loop or of the callback.
Awaiting ==
  \/ pc \in {"begin", "start", "search", "announce", "select", "update", "rows", "expire",
             "finalize", "verdict", "callback", "post", "markSent", "markError"}
  \/ pc = "keyword" /\ todo = {}
  \/ pc = "pollRow" /\ (todo = {} \/ todo \cap aged # {})

\* Where one may throw out of runSearch, which nobody awaits: its first read of
\* the job comes before the try, and its catch writes the row outside of one.
Unguarded == pc \in {"begin", "catch"}

\* A failed update of callbackSentAt is handled as a failed callback.  Any
\* other error that is caught ends in runSearch's catch, or is logged by the
\* watch loop, which goes on polling; one that is not ends the controller.
Fault ==
  /\ faults < MaxFaults /\ faults' = faults + 1
  /\ \/ Awaiting /\ pc' = IF pc = "markSent" THEN "markError" ELSE IF watching THEN "poll" ELSE "catch"
     \/ Unguarded /\ pc' = "done"
  /\ ret' = "none" /\ dirty' = {} /\ todo' = {} /\ cur' = "none" /\ got' = "none"
  /\ UNCHANGED <<job, rows, crawlVars, timeVars, watching, copy, hand, resend,
                 decided, posts>>

Catch ==
  /\ pc = "catch"
  /\ job' = [job EXCEPT !.status = "failed", !.finishedAt = TRUE]
  /\ decided' = decided \cup {"failed"}
  /\ pc' = "done"
  /\ UNCHANGED <<rows, crawlVars, timeVars, ret, watching, copy, dirty, todo, cur, got,
                 faults, hand, resend, posts>>

Controller ==
  \/ SaveSelect \/ SaveUpdate
  \/ StartRun \/ StartSearching \/ SearchHit \/ SearchQueued \/ Announce
  \/ RecordHistory \/ ListHistories
  \/ \E k \in Keywords : NextKeyword(k) \/ TimeOutRow(k) \/ GetSearch(k)
  \/ Poll \/ ReadRows \/ ExpireRows \/ SaveRow \/ Refresh
  \/ Finalize \/ Verdict \/ ReadForCallback \/ Post \/ MarkSent \/ MarkError
  \/ Catch

-----------------------------------------------------------------------------
(* The progress handlers: onCrawlProgress *)

\* updateJobHistoryFromCrawl: the row of the search takes the event's status,
\* whatever its own.  A search that is not (yet) recorded has no row, and an
\* error is logged and ignored.
HandleRow(h) ==
  /\ hand[h].pc = "row"
  /\ \/ /\ rows[hand[h].keyword] # "none"
        /\ rows' = [rows EXCEPT ![hand[h].keyword] = hand[h].status]
        /\ UNCHANGED faults
     \/ rows[hand[h].keyword] = "none" /\ UNCHANGED <<rows, faults>>
     \/ SwallowedError /\ UNCHANGED rows
  /\ hand' = [hand EXCEPT ![h].pc = "job"]
  /\ UNCHANGED <<job, crawlVars, timeVars, chainVars, resend, decided, posts>>

\* A slip: a handler gives the job the status of its event.
RefreshedToEvent(j, event) == event

\* The status refreshJobProgressFromHistories gives a job that is not over.
Refreshed(j, event) ==
  IF Recorded(rows) = {}
  THEN IF event \in TerminalStatus THEN j.status ELSE event
  ELSE IF j.status # "pending" /\ event = "queued" /\ \A k \in Recorded(rows) : rows[k] = "queued"
  THEN "queued"
  ELSE "running"

\* The job that owns the search, through its rows or as its representative,
\* is read, and left alone if it is over.  The event is not needed any more.
HandleJob(h) ==
  /\ hand[h].pc = "job"
  /\ IF /\ rows[hand[h].keyword] # "none" \/ job.history = hand[h].keyword
        /\ ~Terminal(job)
     THEN hand' = [hand EXCEPT ![h] =
            [IdleHandler EXCEPT !.pc = "select",
                                !.copy = [job EXCEPT !.status = Refreshed(job, hand[h].status)]]]
     ELSE hand' = [hand EXCEPT ![h] = IdleHandler]
  /\ UNCHANGED <<job, rows, crawlVars, timeVars, ctlVars, resend, decided, posts>>

HandleSelect(h) ==
  /\ hand[h].pc = "select"
  /\ hand' = [hand EXCEPT ![h].pc = "update",
                          ![h].dirty = Differing(hand[h].copy, job)]
  /\ UNCHANGED <<job, rows, crawlVars, timeVars, ctlVars, resend, decided, posts>>

HandleUpdate(h) ==
  /\ hand[h].pc = "update"
  /\ job' = Merged(job, hand[h].copy, hand[h].dirty)
  /\ hand' = [hand EXCEPT ![h] = IdleHandler]
  /\ UNCHANGED <<rows, crawlVars, timeVars, ctlVars, resend, decided, posts>>

Handler(h) == HandleRow(h) \/ HandleJob(h) \/ HandleSelect(h) \/ HandleUpdate(h)

-----------------------------------------------------------------------------
(* The operators: resendCallback *)

\* A slip: the status of the job is not looked at.
ResendableUnless409(row) == ~row.callbackSentAt \/ row.callbackError

\* Refused (404, 409, 400) unless the job is completed or partial and its
\* last callback did not succeed.
Resendable(row) == Reportable(row) /\ (~row.callbackSentAt \/ row.callbackError)

ResendStart(r) ==
  /\ resend[r].pc = "idle"
  /\ resend' = [resend EXCEPT ![r] =
       IF Resendable(job)
       THEN [pc |-> "post", payload |-> Payload(job)]
       ELSE [pc |-> "done", payload |-> "none"]]
  /\ UNCHANGED <<job, rows, crawlVars, timeVars, ctlVars, hand, decided, posts>>

ResendPost(r) ==
  /\ resend[r].pc = "post"
  /\ \E o \in Outcomes :
       /\ posts' = Notified(resend[r].payload, o)
       /\ resend' = [resend EXCEPT ![r] = [pc |-> AfterPost(o), payload |-> "none"]]
  /\ UNCHANGED <<job, rows, crawlVars, timeVars, ctlVars, hand, decided>>

ResendMark(r) ==
  /\ resend[r].pc \in {"markSent", "markError"}
  /\ job' = IF resend[r].pc = "markSent" THEN Sent(job) ELSE Failing(job)
  /\ resend' = [resend EXCEPT ![r].pc = "done"]
  /\ UNCHANGED <<rows, crawlVars, timeVars, ctlVars, hand, decided, posts>>

\* A failed update of callbackSentAt is handled as a failed callback.
ResendMarkFails(r) ==
  /\ resend[r].pc = "markSent"
  /\ SwallowedError
  /\ resend' = [resend EXCEPT ![r].pc = "markError"]
  /\ UNCHANGED <<job, rows, crawlVars, timeVars, chainVars, hand, decided, posts>>

Resend(r) == ResendStart(r) \/ ResendPost(r) \/ ResendMark(r) \/ ResendMarkFails(r)

-----------------------------------------------------------------------------
(* The crawl worker, as the job sees it *)

\* An execution starts: the first, a retry of one that threw, or a second
\* delivery of one whose worker died before it acknowledged it.
CrawlStart(k) ==
  /\ crawl[k] \notin {"none", "cached"} /\ runs[k] < MaxRuns
  /\ crawl' = [crawl EXCEPT ![k] = "running"]
  /\ emit' = [emit EXCEPT ![k] = "running"]
  /\ runs' = [runs EXCEPT ![k] = @ + 1]
  /\ UNCHANGED <<job, rows, succeeded, timeVars, ctlVars, hand, resend, decided, posts>>

\* "running" is published for every site and listing, the final status once.
CrawlEmit(k) ==
  /\ emit[k] # "none"
  /\ Publish(k, emit[k])
  /\ emit' = IF emit[k] = "running" THEN emit ELSE [emit EXCEPT ![k] = "none"]
  /\ UNCHANGED <<job, rows, crawl, runs, succeeded, timeVars, ctlVars, resend, decided, posts>>

CrawlFinish(k) ==
  /\ crawl[k] = "running"
  /\ \E s \in {"completed", "partial", "failed"} :
       /\ crawl' = [crawl EXCEPT ![k] = s]
       /\ emit' = [emit EXCEPT ![k] = s]
       /\ succeeded' = IF s = "failed" THEN succeeded ELSE succeeded \cup {k}
  /\ UNCHANGED <<job, rows, runs, timeVars, ctlVars, hand, resend, decided, posts>>

Worker == \E k \in Keywords : CrawlStart(k) \/ CrawlEmit(k) \/ CrawlFinish(k)

-----------------------------------------------------------------------------
(* Time: the age of a row is counted from its creation, the total timeout
   from the start of the watch.  Once elapsed a timeout stays so; when it
   elapsed shows only where the code compares the clocks, so it elapses there. *)

KeywordTimeout(k) ==
  /\ pc = "pollRow" /\ k \in todo /\ k \notin aged
  /\ aged' = aged \cup {k}
  /\ UNCHANGED <<job, rows, crawlVars, expired, ctlVars, hand, resend, decided, posts>>

TotalTimeout ==
  /\ pc = "rows" /\ ~expired
  /\ expired' = TRUE
  /\ UNCHANGED <<job, rows, crawlVars, aged, ctlVars, hand, resend, decided, posts>>

-----------------------------------------------------------------------------
Next ==
  \/ Controller \/ Fault
  \/ \E h \in Handlers : Handler(h)
  \/ \E r \in Resenders : Resend(r)
  \/ Worker
  \/ TotalTimeout \/ \E k \in Keywords : KeywordTimeout(k)

Spec == Init /\ [][Next]_vars

\* Node runs every pending continuation, and a poll loop that never ends
\* compares the clock with the total timeout again and again (hence strong
\* fairness).  Nothing obliges the worker to make progress, a handler to be
\* scheduled, an operator to call, or an error to happen.
Fairness == WF_vars(Controller) /\ SF_vars(TotalTimeout)

FairSpec == Spec /\ Fairness

-----------------------------------------------------------------------------
HandlerState ==
  [pc : {"idle", "row", "job", "select", "update"},
   keyword : Keywords \cup {"none"},
   status : {"none", "queued", "running", "completed", "partial", "failed"},
   copy : Job, dirty : SUBSET Columns]

TypeOK ==
  /\ job \in Job
  /\ rows \in [Keywords -> RowStatus \cup {"none"}]
  /\ crawl \in [Keywords -> {"none", "queued", "running", "completed", "partial",
                             "failed", "cached"}]
  /\ emit \in [Keywords -> {"none", "running", "completed", "partial", "failed"}]
  /\ runs \in [Keywords -> 0..MaxRuns]
  /\ pc \in {"begin", "start", "keyword", "search", "announce", "record", "select",
             "update", "poll", "rows", "expire", "pollRow", "saveRow", "finalize",
             "verdict", "callback", "post", "markSent", "markError", "catch", "done"}
  /\ ret \in {"none", "search", "poll", "finalize", "callback", "done"}
  /\ watching \in BOOLEAN
  /\ copy \in Job /\ dirty \subseteq Columns
  /\ todo \subseteq Keywords
  /\ cur \in Keywords \cup {"none"}
  /\ got \in RowStatus \cup {"none"}
  /\ aged \subseteq Keywords /\ expired \in BOOLEAN
  /\ faults \in 0..MaxFaults
  /\ hand \in [Handlers -> HandlerState]
  /\ resend \in [Resenders ->
       [pc : {"idle", "post", "markSent", "markError", "done"},
        payload : {"none", "completed", "partial"}]]
  /\ decided \subseteq TerminalJobStatus
  /\ succeeded \subseteq Keywords
  /\ posts \in [{"completed", "partial"} -> Nat]

\* A job is only reported completed when the search of every keyword it
\* recorded has ended in success at some time, and partial when one has: no
\* order of stale reads, late events and timeouts fakes a success.
VerdictSound ==
  /\ job.status = "completed" => Recorded(rows) \subseteq succeeded
  /\ job.status = "partial" => succeeded # {}

\* Only finalizeJob and runSearch's catch end a job: whoever writes back a
\* stale entity, a terminal status in the row is one that they decided on.
EndedByVerdict == Terminal(job) => job.status \in decided

\* callbackSentAt is never set for a callback that did not reach the
\* BackOffice, whichever of the controller, the operators and the stale
\* entities wrote the row last.
SentWasPosted == job.callbackSentAt => posts["completed"] + posts["partial"] > 0

\* What the BackOffice is told is a verdict the job reached.
PostedWasDecided == \A s \in {"completed", "partial"} : posts[s] > 0 => s \in decided

\* The BackOffice hears of a job at most once.  It holds while no operator
\* asks for the callback and no access fails, even if a late event reopens the
\* job after its callback; it does not when a resend overlaps the first
\* callback, or another resend.
CallbackAtMostOnce == posts["completed"] + posts["partial"] <= 1

\* The job never has two different representative searches, one after the other.
OneRepresentative ==
  [][\A k, l \in Keywords : job.history = k /\ job'.history = l => k = l]_vars

\* A job that runSearch has read is decided within the total timeout, whatever
\* becomes of its crawls and their events, and whatever single access fails.
\* If the first read fails, or the update of the catch does after another error,
\* the job stays as it is for ever.
EventuallyDecided == (pc \notin {"begin", "done"}) ~> (decided # {} \/ faults > 1)

-----------------------------------------------------------------------------
(* Statements of the documentation and the tests that the code violates *)

\* A finished job is not reopened.
EndedStaysEnded == [][Terminal(job) => Terminal(job')]_vars

\* A failing callback is recorded on the job, and leaves its verdict alone.
SuccessNotFailed == [][Reportable(job) => job'.status # "failed"]_vars

-----------------------------------------------------------------------------
\* What a job promises its clients, seen through the row and the callbacks.
Lifecycle == INSTANCE JobLifecycle WITH
  phase <- IF Terminal(job) THEN job.status ELSE "open",
  told  <- posts["completed"] + posts["partial"]

KeepsLifecycle == Lifecycle!Spec
=============================================================================
