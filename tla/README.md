# Verification of the search crawler

TLA+ specifications of `src/` (a NestJS back end that searches second-hand
markets for listings that resemble rental goods, and its React dashboard), the TLC
models that check them on small instances, and TLAPS proofs about them for every
instance.

Paths below are relative to `src/src/` unless they start with `src/`.

## 1. The system

Processes (PM2): `crawler-api`, a cluster of two; `crawler-worker`, one process
with `CRAWL_CONCURRENCY` slots; a static web client. They share PostgreSQL
(through TypeORM), Redis (BullMQ queues, and publish/subscribe for progress) and
Elasticsearch. `app.module.ts` is loaded by both kinds of process; the queue
processor runs only in the worker (`queue/queue.module.ts`), the websocket gateway
only in the API, and the progress subscriber in every process.

A request goes through the parts like this:

1. `POST search-job` saves a job, made of an order of the BackOffice, and starts
   `runSearch` without awaiting it. For each keyword, `search.service` answers from
   Elasticsearch or saves a search history and puts a crawl in the queue; the job
   records each search as a row.
2. The worker takes the crawl, visits the sites, saves listings, links, attempts and
   documents, publishes progress on Redis, saves the final status, and opens
   investigation cases.
3. Every process that hears a progress event updates the row of the search and
   the progress and status of the job (`search-job-progress.sync.ts`), and the API's
   gateway forwards it to the dashboards that are in the search's room.
4. Meanwhile the API process polls the rows, applies the timeouts, and gives a
   verdict when all rows are over (`finalizeJob`). It then has the AI match the
   listings, stores the scores, opens or re-evaluates cases, and posts a callback to
   the BackOffice. An operator can ask for the callback again.
5. The dashboard starts, watches and deletes searches (`App.tsx`), watches jobs and
   resends callbacks (`RentalPage.tsx`), and moves cases through their workflow, with
   notes that save themselves (`features/investigation`).

The watcher of a job is a continuation in memory. Nothing resumes it after a restart
(`src/docs/REVIEW_v3/작업지시서_v3_P0.md:162` states this limit).

### Inventory

| Component | State | Operations | What is hard | What makes it correct | Modules |
| --- | --- | --- | --- | --- | --- |
| Job service, `modules/search-job/search-job.service.ts` | `search_jobs`, `search_job_histories`, entity copies in memory | create, runSearch, watchJobHistories, finalizeJob, triggerAutoInvestigation, callback, resendCallback | whole-entity saves of copies; errors in any await; timeouts; lost POST answers | the verdict is earned and given; what is reported is true, complete and reported once | `SearchJob`, `JobLifecycle`, `JobOutcome`, `OrderFields` |
| Progress sync, `search-job-progress.sync.ts` | the same rows | onCrawlProgress, one unawaited handler per event and process | late, lost, reordered events; stale copies of the job | an event never ends a job, nor fakes a success | `SearchJob` |
| Status algorithms, `search-job-status.util.ts` | none | verdict and progress of a list of rows | empty and mixed lists, missing percentages | the definitions in the policy documents | `JobStatus` |
| Crawl queue and DLQ, `queue/` | two BullMQ queues | enqueue, process, onFailed (move to DLQ), retry | a move is three steps after the job is gone; identifiers are reused | a failed search can be found and tried again | `CrawlQueue` |
| Crawler, `crawler/crawler.service.ts` | histories, listings, links, attempts, documents | executeCrawl over sites, upsertResult | one site of several fails; two crawls meet on a url; a deletion passes by; a crawl is executed again on the same history | the final status says what the last execution did | `CrawlStore` |
| Search, `modules/search/` | histories, keyword counters, links, cache | search, linkCachedResults, deleteSearch | deletion beside a running crawl, beside runs and calls on its cases; what an old crawl left answers a new search | no listing without a search | `CrawlStore`, `SearchCache`, `InvestigationCase` |
| Investigation, `modules/investigation/` | `investigation_cases` | automatic creation, re-evaluation, workflow, decision, notes | AI calls between read and write; stale saves; unique indexes; cases that go with their search | stages in order, numbers that differ, human decisions kept, no listing left out | `InvestigationCase`, `JobOutcome`, `CaseView`, `NoteEditor` |
| AI service, `ai/ai.service.ts`, `ai/providers/` | usage rows, written beside the caller | two matching passes in chunks, retries, what is made of an answer | errors of every kind, models that answer anything | bounded cost, no listing evaluated beside itself or after success, usable documents | `AiMatching`, `ProviderCall`, `AiAnswers`, `MatchingScore` |
| AI rules, prompts, cost, image gate, `ai/` | rules, prompt versions, caches, usage rows | seed, update, evaluate, gate | several processes boot at once; updates without a transaction; thresholds | nobody's rule is never applied; one active version | `RuleEngine`, `PromptVersions`, `UsageLedger`, `MatchingScore` |
| Retention, `modules/retention/` | deletes old rows | batches by age | runs beside crawls and calls | a month's cost stays, old rows go | `UsageLedger` |
| Site adapters, `crawler/adapter/` | none | walk over places, fallback, selection | refusals change the pace of the loop | every place asked, no refusal taken for an empty result | `SiteAdapter` |
| Keyword generator and choice of listings, `search-keyword-generator.service.ts`, `common/utils/string.util.ts` | none | keywords of an order, most similar titles | ties, limits | the most similar are kept | `SearchKeywords` |
| Image storage, `storage/` | files | safe download | servers that lie or redirect | bounded, checked, ends | `ImageFetch` |
| Progress publisher, gateway, `progress/`; BackOffice client, `api/rental.*` | rooms | publish, forward; orders, POST | fire and forget; an answer lost after receipt | (environment of the job and the screens) | `SearchJob`, `SearchScreen`, `OrderFields` |
| Dashboard, `src/web/src/` | React state, timers, calls in flight | search screen, cases and drawer, notes, jobs of orders | answers come when something else is shown | nothing waits for ever; what is shown and told is so | `SearchScreen`, `CaseScreen`, `NoteEditor`, `JobPage`, `CaseView` |
| Statistics, cache service, bootstrap, migrations, the other pages | – | queries, wiring, layout | – | – | not modelled, section 6 |

`PROJECT.json` lists each with its status, and every hazard with its line.

## 2. Modules

| Module | What it is |
| --- | --- |
| `JobStatus`, `MCJobStatus` | `search-job-status.util.ts` as operators; lists of rows grown and moved in every order the job's code can |
| `SearchJob`, `SearchJobProofs` | one job with its controller, crawls, progress handlers and resend calls (extends `JobStatus`); proofs |
| `JobLifecycle` | the abstract job: open, one verdict for ever, a positive one told at most once |
| `JobOutcome` | what a job does between its verdict and its report: matching, scores, cases, count |
| `OrderFields` | an order of the BackOffice: its fields under alternative names, the job's snapshot, what is shown and compared |
| `CrawlQueue`, `MCCrawlQueue` | crawl queue, worker slots, DLQ moves, retry endpoint, crashes |
| `CrawlStore`, `CrawlStoreProofs` | search(), executeCrawl() and deleteSearch() over the shared tables; proofs |
| `Searching`, `MCSearching` | a job, and beside it the searches that share the tables; values and symmetry for TLC (proofs in `SearchJobProofs`) |
| `SearchCache`, `MCSearchCache` | when Elasticsearch answers a search instead of a crawl, and with what |
| `SearchKeywords` | keywords of an order, and the listings kept of a site |
| `SiteAdapter` | the crawl of one site by each of the three adapters |
| `InvestigationCase`, `MCInvestigationCase` | the cases table, automatic runs, operators' calls, and deletions of searches with their cases |
| `CaseView` | a case from a listing's scores to the dashboard: its analysis and timeline, the API's answer, the dashboard's reading |
| `AiMatching` | the AI's calls for one search, with passes, chunks, retries and usage rows |
| `ProviderCall` | one request: what comes back over HTTP, the provider's error, the retry decision |
| `AiAnswers` | the documents made of a model's answers |
| `Selections` | `filter` and `flat` of arrays, as folds that can be proved about |
| `MatchingScore` | one listing's scores: text, local image gate, Vision |
| `RuleEngine`, `RuleEngineProofs` | rules seeded by every process, edited by operators, applied to a listing |
| `PromptVersions`, `PromptVersionsProofs` | the versions of a prompt, seeded and updated by several processes, with their caches |
| `UsageLedger` | usage rows, prices, the month's sums, and the retention cleanup |
| `ImageFetch` | one safe download |
| `SearchScreen` | the search screen over the socket, its poll and its timers |
| `CaseScreen`, `NoteEditor`, `JobPage` | the cases' drawer and workflow; a note that saves itself; the page of the orders' jobs |
| `Dashboard`, `DashboardProofs` | the screens, the note editor and the jobs' page side by side; proofs |
| `Cases`, `MCCases`, `CasesProofs` | the cases, the outcome of a job and the cases' screen; values for TLC; proofs |
| `Services`, `MCServices`, `ServicesProofs` | the queue, the matching, the rules and the prompts; values for TLC; proofs |
| `Algorithms`, `MCAlgorithms`, `AlgorithmsProofs` | the parts that compute; values for TLC; proofs |

Operators whose comment begins with "A slip" are plausible bugs of the definition
that follows them. They are used by nothing in the specifications: replacing the
definition by its slip must make a property fail, which shows that the property
depends on that code.

### SearchJob

*State.* `job` is the row, with the columns that more than one actor writes
(status, the representative `searchHistoryId`, and whether `finishedAt`,
`callbackSentAt`, `callbackError` are set); `rows` the history rows; `crawl` and
`emit` the worker's search status and the event it has yet to publish; `copy`,
`dirty` the controller's entity and the columns its save will update; `hand` and
`resend` the records of handlers and resend calls, each with its own copy.
`decided`, `succeeded`, `posts` are history variables.

*Actions.* One per database access that another actor can observe.
`repo.save(entity)` is two: TypeORM selects the row, and updates the columns in
which the entity differs from what it selected. So a stale copy can overwrite a
newer value, or miss that it changed in between; this is where the hazards are.
`repo.update` is one action. `StartRun` .. `ListHistories` are `runSearch`;
`Poll` .. `Refresh` are `watchJobHistories`; `Finalize`, `Verdict` are
`finalizeJob`; `ReadForCallback` .. `MarkError` are the callback; `Fault` throws from
any awaited access and goes where the code's `catch` goes, or, from the first read of
`runSearch` and from the update of its catch, nowhere: no try holds the one, nothing is around the
other, and `runSearch` is not awaited, so the job stays as it is for ever; `HandleRow`,
`HandleJob`, `HandleSelect`, `HandleUpdate` are a progress handler.

*Messages.* `Publish` starts handlers in any subset of the idle ones: Redis
publish/subscribe keeps nothing and acknowledges nothing, so losing an event and
hearing it in several processes are both ordinary.

*Time.* A timeout elapses at the point where the code compares the clocks, which
is the only place where it shows.

*Refinement.* `SearchJob!Lifecycle` maps the row's status and the number of posts to
the abstract job. While no progress event is delivered the code implements it:
`SearchJob_polling` checks this with liveness, and `LifecycleKept` proves the safety
part. With events it does not: `EndedStaysEnded` is violated, see section 5. So
the refinement is a statement about the controller and the worker, not about the whole
system.

*Left out.* Progress percentages and result counts of the job (data), death of the
API process (there is no code after it).

### JobOutcome, OrderFields

`JobOutcome` opens the step that `SearchJob` takes between `callback` and `post`:
the loop over the histories that succeeded, the matching with its scores in memory and
in the rows (`Match`, `PersistMatchingScores` and their failures), the loop over the listings of
`autoCreateFromSearch` for the job and for each worker beside it (`Skip`, `Update`,
`Analyse`, `Insert`), an operator who takes a case up, and the count that is reported.
`OrderFields` has the order before that (`CreateFromBody`, `CreateFromOrder`), its
changes and deletion in the BackOffice, the rental page's reading and the matching's.

### CrawlQueue

*State.* For each search its history's status, the request that creates it, its
job in the crawl queue and `attemptsMade`; the set of DLQ entries; calls of
`onFailed` and of the retry endpoint with a program counter; a count of crashes.

*External.* BullMQ is not in the repository. Used of it: adding an existing
identifier is a no-op; a job that throws is retried until its attempts are used
and is removed at once (`removeOnFail: true`); removing an active job is refused;
jobs of a dead worker are given out again. BullMQ gives up on a job that has
stalled more than once without calling code of the repository that could move it;
`MaxCrashes = 1` in the run keeps within the first stall.

*Actions.* `Submit`/`Enqueue` are the two steps of a request; `Take`, `Finish`,
`Complete`, `Throw` the worker; `MoveCheck`, `MoveAdd`, `MoveRemove`, `MoveFails` are
`moveExhaustedJobToDlq`; `RetryStart`, `RetryEnqueue`, `RetryRemove` are
`retryFailedJob`. Retry calls return to idle, so an operator retries any number of times.

### CrawlStore, SearchCache

*State.* The tables (histories, listings by url, links, attempts, documents, the
keyword's counter), and per search the calls of `search()`, `executeCrawl()` and
`deleteSearch()` with a program counter and what they hold. `overlap`, `raced` and `dropped` are
history variables that the properties' exceptions need; so are, in `crawl`, the execution's number
(`run`) and the links it found (`before`).

*Actions.* One per access. `upsertResult` looks a url up, then inserts or
updates it; two crawls meet at the unique index. Saving a history that was deleted
inserts it again, as TypeORM does. `deleteSearch` reads the links, deletes the history
(its links and attempts go with it), checks each listing for other links, and deletes
those without, with their documents. `Again` executes a crawl once more on the same history, from its
beginning and from wherever the execution before had come to: it threw, its worker died or stalled,
the end of the job was not acknowledged, or an operator took the job out of the DLQ. What the new
execution counts starts at nothing, its attempts are inserted beside the old ones, and the links
are there already.

`SearchCache` has one listing per region and site and the documents' keywords: who
asks for what, and what answers. Its crawls index what they find, whatever regions they
were limited to; this is the violation in section 5.

### InvestigationCase

*State.* `row` holds, per listing (unique `result_id`), the case's identifier, status, final
decision and number. `run` is the loop of each `autoCreateFromSearch`, with the
listings left and, for a property, those it found worth a case. `actor` is what
each run or call is doing to one case: taking a number, inserting, saving a copy.
`reached` (the statuses of each case) and `given` (its number) are history variables.

*Actions.* The rule engine's answer is a choice (`Dismiss`, `RecordExclude`, or
worth a case), and so is whether the result is an AI result. `Leave`,
`Reevaluate`, `Create` are the three ways on. `TakeNumber` reads the highest number,
the AI analysis (seconds) follows, `Insert` or `InsertFails` meets the two unique
indexes. Nothing in the loop catches an error, so a collision aborts the run
(`Abort`). `CallEdit` reads a case and makes the change of `updateStatus`,
`applyFinalDecision`, or one that leaves these columns (`addNote`, `updateNote`,
`deleteNote`, `updateAssignment`); the save is the same select and update as a run's.
`DeleteSearch` takes any cases with it, whatever runs and calls hold: TypeORM's save of a copy whose
row is gone inserts it again, with its old number (`SaveSelect`, then `Insert` or `InsertFails`), and an
update that comes after the deletion changes nothing (`SaveMisses`). So a deleted case can come
back, numbers have gaps, and the highest one may be given out again.

*Left out.* Score, watchlist flag, priority, notes, assignee and timeline: every
save writes some of them, and no guard reads them (`JobOutcome`, `CaseView` and
`NoteEditor` have them). Two days' numbers cannot collide (the date is part of the
number), so one day is modelled.

### The AI component

`AiMatching` is `matchSearchResults` with its two passes and chunks of `MATCH_CONCURRENCY`,
and the other requests; every call goes through one retry loop and leaves one usage row, unless
the row is lost: `record()` is not awaited, and catches and logs an error of the database (`Lost`).
The rows of the calls in `Lossy` may be lost, a set that the proofs leave open.
Its providers may answer with an error that is retried or one that is not;
`ProviderCall` shows which errors the only provider in the repository really makes
(none that is retried). `MatchingScore` takes one listing from the model's answer over
the local image gate to Vision; `AiAnswers` makes documents of answers, a report's
from the findings it was asked with too (`AskReport`). `RuleEngine`
seeds the default rules in every process, rule by rule, beside operators who save copies;
`PromptVersions` seeds and updates without a transaction, with one cache per process.
`UsageLedger` adds up days and months beside the cleanup, which deletes in batches.

### The dashboard

A call is three steps in all four modules: sent, served by the API, and answered;
`mine` says whether the continuation still belongs to what is on the screen, which the
code tells by a flag of the effect that made it (`cancelled`), by what its refs and state hold by
then, or not at all. Timers and events are
messages as well. `SearchScreen` has the submit, the poll, the socket's room, the panel
and the deletions; `CaseScreen` the list, the selection, the drawer that slides in and out, and
its panels; `NoteEditor` the timer of 600 ms and overlapping saves; `JobPage` the
selection, the refetch after the last event, and the resending.

### How the models meet

- `SearchJob` sees the queue as `CrawlStart`, `CrawlEmit`, `CrawlFinish`, which may
  happen late, `MaxRuns` times or never; `CrawlQueue` is the reason why that is the
  right environment (a search may be lost, retried, or given up with its history
  left running), and `CrawlStore` is what happens in such executions, one after the other.
- A deletion of a search is in `CrawlStore` for its listings and in `InvestigationCase` for its cases.
- `JobOutcome` is the controller's step between the verdict and the POST; its cases
  change in one step there, whose races `InvestigationCase` has.
- `SiteAdapter` is one site of `CrawlStore`, `SearchKeywords` the choice of what it
  hands over; `MatchingScore` is one listing of `AiMatching`, `ProviderCall` one of its calls.
- `CaseView` takes the scores that `JobOutcome` decides by to the screen of `CaseScreen`,
  and `NoteEditor` is one panel of it. `SearchScreen` and `JobPage` see the server as a
  status that goes forward and events that may be lost or come twice.

The compositions (`Searching`, `Algorithms`, `Services`, `Cases`, `Dashboard`) put modules that share no
state side by side: a variable `part`, chosen at the beginning, says which of them runs, so that a
run has the sum of their states and not the product. Their constants are declared and assumed, not
given, so the theorems about them are about every instance; the values for TLC are in their `MC`
modules and configurations.

## 3. What TLC checks

Every run ends in under five minutes with two workers.

| Run | Part and bounds | Properties | What it shows |
| --- | --- | --- | --- |
| `Searching` | job: 2 keywords, 1 handler, no errors | `VerdictSound`, `EndedByVerdict`, `CallbackAtMostOnce`, `OneRepresentative` | in every interleaving of controller, crawls and stale handlers, success is earned, only the controller ends a job, one report, one representative |
| | searches: 2 searches, 2 sites, 1 url, 2 ids, 1 execution more | `StatusTellsResults`, `NoOrphans` | the final status, be it completed, partial or failed, agrees with the links and attempts of the last execution; deletions leave no orphan, but what an execution had saved and not linked when it was cut off |
| `SearchJob_callback` | 1 keyword, 1 handler, 1 resend, 2 errors anywhere, all POST outcomes | `SentWasPosted`, `PostedWasDecided`, `EventuallyDecided` | what the row says of the callback is true; every job that `runSearch` has read is decided whatever single access fails. When the first read fails, or the update of the catch after another error, the job is left as it is |
| `SearchJob_polling` | 2 keywords, no events, 2 executions per crawl, all outcomes | `KeepsLifecycle` | the controller implements `JobLifecycle` |
| `Algorithms` | verdict: 3 keywords | `VerdictMeaning` | completed, partial or failed exactly when all, some or none of the searches succeeded |
| | scores: missing, out of range and on both sides of every threshold | `UnlikeKeptOut` | pictures that were compared and are unlike keep a listing out, however sure the text was |
| | documents: up to 2 keywords and items kept, every kind of text | `Complete` | whatever a model answers, the document made of it can be used; only a report on findings that are blank without their Markdown has no summary |
| | search: 1–3 titles, limits 0..2 | `BestKept` | no listing is dropped for a less similar one |
| | ledger: months of 2 days, 4 days, batches of 1, 2 usage rows and 1 attempt | `Retained`, `LoopsEnd` | the month on the dashboard never shrinks; a cleanup that ends has left nothing old; it ends |
| | image: 2 redirects, 3 bytes | `Bounded`, `LoopsEnd` | every URL requested was checked, limits hold, the download ends |
| | adapter: 3 regions, 3 places each, 4 listings | `AskedAndKept`, `LoopsEnd` | all places asked, at most twice; nothing usable left out; a refused crawl is an error; it ends |
| | order: 6 raw orders, changed or deleted later | `ComparedAsSearched` | listings are compared with what was searched for; no personal data is kept |
| | view: scores and measures missing, out of range, ordinary | `ShownAsMade` | what the dashboard shows of a case is what it was made of |
| `Services` | queue: 2 searches, 2 moves, 1 operator, 2 attempts, 1 slot, 1 crash | `OneHome`, `CalmLosesNothing`, `Drains`, `Settles` | until a crash the DLQ lists nothing that is being tried; without retries and crashes nothing is lost and everything settles; the queue empties in any case |
| | matching: 3 listings, 1 retry, 2 at once; request: 1 call, 1 retry; the rows of a listing and of the request may be lost | `OncePerListing`, `LedgerAccounts`, `SpendBounded`, `MatchingEnds` | no listing evaluated beside itself, or again after success; the usage rows add up but for those that were lost; cost bounded; it ends whatever fails |
| | rules: 2 processes, 1 editor, 21 listings | `CreationWasAsked` | no listing becomes a case at a score nobody asked for, however many processes seed |
| | prompts: 2 processes, 2 updates, 1 file, 3 versions | `LatestOrNoneActive` | none but the latest version is ever active |
| `Cases` | races: 2 listings, 2 cases ever, 1 run, 1 call at a time (any number in turn), any deletions, 1 decision | `StagesInOrder`, `NumbersWithoutGap`, `RunCovers` | no stage skipped; numbers differ, and those missing are of deleted cases; no listing left out of a run that ended |
| | outcome: 2 searches, 2 listings, 1 worker beside, 1 error | `ReportedInFull` | when the BackOffice is told, every listing worth it has a case, and the cases are in the count |
| | screen: 2 cases, 2 calls in flight, 3 clicks, 1 error | `DrawerTells`, `RefusedOnlyLate` | a selected case can be seen; the drawer asks about the case it shows; what is offered is refused only if the case changed meanwhile |
| `Dashboard` | search: 2 searches, 2 calls, 2 clicks, 1 error, 1 event on the wire, 1 timer | `Watched`, `ScreensSettle` | a busy screen waits for something that will end it; busy states and panels end though events get lost |
| | note: 3 texts, 2 saves in flight, 5 changes, 2 errors | `SavedIsStored`, `ScreensSettle` | after at most one save that failed or was not answered, "saved" means that the server has the text; what is typed is saved |
| | orders: 2 jobs, 2 calls, 2 acts, 1 error | `ShowsSelected`, `ScreensSettle` | the page shows the job selected last and does not claim a callback that was not received |

`OneHome` and others carry their exceptions in their statements (a crash, an overlap, an edit
elsewhere); each exception is where the code does not promise more, and the note of the
hazard in `PROJECT.json` says what happens then.

*Why the bounds are enough.* The races here are between two writers of one row: the
controller or a run, and one handler or call, with a second row so that a loop has
a next element and a mixed outcome exists. One error reaches every `catch`. Two
attempts have a first and a last; one slot makes jobs wait for each other. Two searches
that share one url are what `deleteSearch` counts links for, and what two crawls insert at once; the
second site fails beside one that gave a listing. The searches are explored until one of them is
deleted while it is filled (`CONSTRAINT UntilOverlap`): both properties are about the time before,
and `overlap` is never taken back, so no state that could break them is left out.
Two cases ever created are one that is deleted and one that gets a number meanwhile, or two that
race; the one that is deleted can be inserted again any number of times. On a screen, two searches
and two calls in flight are the fewest with an answer that comes too late; a third click only
matters to the drawer, where closing is one. Numbers that are
only compared stand for larger ones: back-off after 2 and giving up after 4 refusals for
4 and 10, a batch of 2 for `getSearch`'s 100, 2 places for 15, days for months. Thresholds
are tested on both sides. What more actors could do is covered by the proofs for the safety
properties of section 4; for the others, and for liveness, it is not.

*Deadlock* is not checked where the system really stops: a decided job, a queue
without requests, a computed score, a user who has stopped clicking.

*Types.* `TypeOK` is proved in the eight modules of section 4 instead of being a run's
invariant, and with the rest of the inductive invariants for the parts that the first table names.

### Fairness

- `SearchJob`: `WF(Controller)`, because Node runs every pending continuation, and
  `SF(TotalTimeout)`: the timeout elapses where the loop compares the clock, and the loop
  comes there again and again. Nothing is assumed of workers, events, operators, or errors.
- `CrawlQueue`: weak fairness of each continuation that has begun (a request, a
  worker's crawl, a move, a retry call), and `SF(Take(s))` because BullMQ serves the
  waiting list in order, so no job is passed over for ever. Nothing is assumed of
  clients, operators or crashes.
- `AiMatching`: the loops over passes and chunks go on and every request is answered or times
  out (the providers pass an abort signal with a timeout). Nothing obliges a provider
  to answer without error.
- `UsageLedger`: the statements of a cleanup that has begun; not calls, crawls or days.
- `ImageFetch`, `SiteAdapter`: a server answers, sends or ends its body, or the timeout of the
  request gives up on it.
- `SearchScreen`, `NoteEditor`, `JobPage`: calls are answered or fail, timers fire, the
  browser runs continuations; in `SearchScreen` every crawl ends too (`CrawlQueue`'s
  `Settles` and the final status say when that is so). Nothing is assumed of users, and events
  may be lost.
- `InvestigationCase`, `CrawlStore`, `JobOutcome`, `CaseScreen` state no liveness.

## 4. What TLAPS proves

All for arbitrary constants that satisfy the module's named assumption.

| Theorem | Statement | Argument |
| --- | --- | --- |
| `SearchJobProofs!TypeCorrect` | `[]TypeOK` | with `HandlerOK`, `ControllerOK`: which copies a program counter implies |
| `...!JobEndedByVerdict` | `[]EndedByVerdict` | a copy in a handler is never terminal (it is not saved when it is), so a terminal status enters the row through a verdict only |
| `...!VerdictIsSound` | `[]VerdictSound` | `Safe`: a success in a row, a pending event or a handler's hand was earned, for every place a status is copied to |
| `...!PostsAreVerdicts`, `SentIsTrue` | `[]PostedWasDecided`, `[]SentWasPosted` | payloads and every copy of `callbackSentAt`, stale ones included, stem from a verdict and from a POST that arrived |
| `...!RepresentativeIsUnique` | `OneRepresentative` | until the first is saved no copy has one; afterwards all copies have none or that one |
| `...!ReportedOnce` | `[]CallbackAtMostOnce` without resends and errors | the controller posts at one point, which it does not come back to |
| `...!LifecycleKept` | `Spec => Lifecycle!Safety` without events, resends and errors | `OverAndReported`: once a verdict is in the row the controller is in its last steps, none of which writes the status, and until the POST nothing was told; so each step maps to `Decide`, `Tell` or a stutter |
| `CrawlStoreProofs!TypeCorrect` | `[]TypeOK` | with `Places`, `Given`: what a crawl or a deletion holds at each program counter, and that ids in hand were given out |
| `...!NoneOrphaned` | `[]NoOrphans`: what is left is linked or in hand, but for listings whose execution was cut off before it linked them | `StoreInv`: urls and ids agree (`OneRow`, `RowOfHand`, `OneHand`), so a listing in a crawl's hand is that crawl's url's; and until a search is deleted while it is filled, what fills a search has its history, and its deletion knows all its links (`Apart`); so a listing that loses its last link is in the hand of a deletion |
| `...!StatusTells` | `[]StatusTellsResults`, of the last of any number of executions that follow one another | `ToldInv`: what a crawl has recorded of each site (`Recorded`), which of its urls are linked already (`Shown`), that a listing in its hand or linked to it is not condemned by a deletion of another search (`Unlinked`, `Condemning`), and that the history is written last (`Closed`) |
| `SearchJobProofs!NoneOrphaned`, `StatusTells` | the same two theorems for `Searching`, the composition that is checked | an instance of the proof module above, whose definitions are shown to be `CrawlStore`'s |
| `PromptVersionsProofs!TypeCorrect`, `VersionsNumbered` | `[]TypeOK`, `[]LatestOrNoneActive` with one file per prompt | `Numbered`: an update that is about to insert the next number has found nothing active since it deactivated all; a stale number meets the unique index |
| `RuleEngineProofs!TypeCorrect`, `CreationAskedFor` | `[]TypeOK`, `[]CreationWasAsked` | `ExclusionFirst` and `Asked`: the rule that creates is never in the table without the one that excludes, and every rule in the table or in a copy was a default's or an operator's |
| `ServicesProofs!TypeCorrect` | `[]ServicesTypeOK`: the queue, the matching, the rules and the prompts | with `AttemptsBounded`, `CallsHaveSearches` for the queue; the invariants of the rows below for the others |
| `...!NothingIsLost` | `[]CalmLosesNothing` | `MovesKeep`: while nobody has retried and nothing has crashed, a move that is about to remove has its entry |
| `...!OneHomeKept` | `[]OneHome` with one operator | `HomeInv`: while a move or an entry exists the queue has no job of the search, except the retry's |
| `...!EachOnce`, `LedgerBalances` | `[]OncePerListing`; `[]LedgerAccounts`, but for the rows that were lost, whichever they are | `CallInv`: calls are open for listings of the chunk only, every listing is in one place (to come, in the chunk, or ready), and each attempt that is over has its row or is counted among the lost |
| `...!SpendIsBounded` | `[]SpendBounded` | `SpendInv`: a plan for each listing, made of what it has cost, what its call may still cost, and what the second pass may ask for it, with the set of listings the second pass was given; the sum over all listings is by induction on their number |
| `...!CreationAskedFor`, `VersionsNumbered` | the same two theorems for the composition that is checked | instances of the proof modules above |
| `CasesProofs!TypeCorrect` | `[]TypeOK` of the cases (`InvestigationCase`; the other parts have invariants of their own below) | `Holding`: what a program counter implies of the copy in hand |
| `...!StagesKept` | `[]StagesInOrder` | `CopiesFollow`: a copy's status is one its case was ready for when read, and an update that leaves the status out does not complete a case |
| `...!NumbersKept` | `[]NumbersWithoutGap`: numbers differ, and those missing are of deleted cases | `NumbersFollow`: a number in hand is 1, or follows one that was given to a case, deleted since or not; the unique index keeps those in the table apart (`Distinct`) |
| `...!RunsCover` | `[]RunCovers`, of listings whose case was not deleted since | `Covering`: the only such listing without a case is the one in hand |
| `...!ReportIsFull` | `[]ReportedInFull` | `OutcomeInv`: as long as nothing failed, each search that the loop has left behind is followed up (every listing worth a case has one, or its turn is still to come), what is in memory is what the rows will be, and the report counts what the job judged |
| `...!DrawerIsTrue`, `OffersStand` | `[]DrawerTells`, `RefusedOnlyLate` | `CasesShown`: every copy of a case, on the screen or in an answer, is an earlier state of the server's (`Copy` orders them by the number of changes), so what a panel offers was allowed by some state not later than the present one |
| `DashboardProofs!TypeCorrect` | `[]DashboardTypeOK`: the search screen, the note editor and the jobs' page | the invariants of the rows below |
| `...!ScreenWatched` | `[]Watched` | `CallsAsked`, `Busied`, `Panels`: a call in a slot stays what it is until its continuation, which either ends the waiting or starts the poll |
| `...!SavedNoteIsStored` | `[]SavedIsStored`, while nothing is typed or listed beside a save, nobody else changes the note, and one call at most fails | `Calm`: one save at a time, what the save in flight and the list in flight would bring (`SaveOf`, `ListOf`), and that the list on the screen is the server's unless an answer is unheard (`HeldIs`) |
| `...!SelectedIsShown` | `[]ShowsSelected`, unless another job is selected beside a refetch or a resending | `CallsRight`: one awaited call at most, about the selected job; what a call brings about a callback was true when it was served, and stays so |
| `AlgorithmsProofs!TypeCorrect`, `UnlikeIsKeptOut` | `[]TypeOK` and `[]UnlikeKeptOut` of `MatchingScore` | bounds for every operator of the scores, for all thresholds |
| `...!VerdictTells` | `[]VerdictMeaning` | cardinalities of the statuses that are successes and failures |
| `...!TheBestAreKept` | `[]BestKept` | the likeness of titles is a fraction with a positive divisor (`LikenessIsFraction`), the order of `selectTopByTitleSimilarity` is strict and total (`BeforeIsOrder`), and the elements with fewer than so many before them are the first of such an order (`FirstOfOrder`) |
| `...!DownloadsAreBounded` | `[]Bounded` | `RequestsMade`: every URL asked passed the check, one per hop |
| `...!ComparisonsStand` | `[]ComparedAsSearched` | `OrderInv` |
| `...!CasesAreShownAsMade` | `[]ShownAsMade` | `CaseInv`: a timeline tells the opinion and the advice it was made of (`TimelineTells`), whatever is appended to it (`TellsOn`); percents are no other scale (`SameAnalysis`) |
| `...!DocumentsAreComplete` | `[]Complete` | for each kind of answer what its fields become: the keywords kept are a list whose keys differ (`KeywordsDiffer`), a list that is shown has 1 to `MaxAdvice` entries that can be read (`KeptComplete`), the weighted mean of the parts is between two of them (`MeanOfParts`, `MeanBetween`) |
| `...!PlacesAskedAndKept` | `[]AskedAndKept` | `AdapterInv`: the list of places has none twice (`PlacesApart`); how often the place at each index was asked, given the loop's index and width (`Passed`): while it is 2 wide once before the index and never from it on, while it is 1 wide once or twice before it, at most once at it and never after it; what was gathered came from an answer (`Gathered`) |
| `...!MonthIsRetained` | `Retained` (an action property) | `LedgerInv`; sums of costs grow with the set of rows (`CostsGrow`), by induction over its subsets |

Inductive invariants are needed because each property speaks of rows or of the screen only,
while what can break it sits in copies and calls held by actors.

*Compositions.* Each part has its lemmas that its `Init` establishes and its `[Next]` keeps its
invariant; one lemma of the module says that a step of the composition is a step, or none, of the
part; the theorem joins them.

*Assumptions.* `SearchingAssumption`, `DashboardAssumption`, `CasesAssumption`,
`ServicesAssumption` and `AlgorithmsAssumption` join those of the parts: finite sets of actors, bounds that are numbers,
default values that are no model value, prices that are no less than 0 (`roundCost` sees to it),
scores and measures that are integers, titles that are sequences, regions and places that are lists
of strings, answers of sites that are lists of listings. TLC evaluates them
in every run of the composition.

*Recursion.* A sum or a fold is a recursive function of the library. The proofs show that such a
function exists, by induction, and then use its equation. Induction itself is
derived in `AlgorithmsProofs` from the well-foundedness of the natural numbers, over a set
of numbers (`Induction`) or of sets (`SetInduction`) where the library's theorems
take an operator as a parameter. For folds over sequences that is done once: `FoldsExist` gives
the function for any step from one member of a set to another, and `FoldsStay` says that whatever
satisfies its equation never leaves the set. Then only the step is left to look at: a keyword more, a
result more, an element selected, a place that was seen already. `Selections` writes `filter`
and `flat` as such folds instead of with `SelectSeq`, which the prover does not
expand; what they compute is the same.

*Found by proving.*

- `SavedIsStored` does not hold after two failures: one save is served but its answer is lost, a
  list is fetched, and a second save is served but not answered; typing the text of that list
  then shows "자동 저장됨" without a call, because the editor compares with the note it holds
  (`src/web/src/features/investigation/components/NotesSection.tsx:130`), although the server
  has another text. A run that allowed one error had hidden this. The property now says after how many
  failures it holds, and the run allows two.
- `JobPage` selected the first job of an empty list (there the code selects none), and
  `ViewAssumption` and `LedgerAssumption` did not say that scores and prices are numbers.

*Only model-checked*: `SearchCache`, `ProviderCall` and the other runs that show a violation; and
all liveness (`EventuallyDecided`, `Drains`, `Settles`, `MatchingEnds`, `ScreensSettle`, `LoopsEnd`) with the
liveness half of the refinement, since fairness and `ENABLED` are out of the prover's reach. Every
invariant and every other action property of a passing run is a theorem.

## 5. Where the code disagrees with its documents

Each is a run that TLC ends with a counterexample; `PROJECT.json` has the quotations.

| Run | Property | What happens |
| --- | --- | --- |
| `SearchJob_reopened` | `EndedStaysEnded` | a handler reads the job, the controller ends it, the handler saves the old status back: completed becomes running |
| `CrawlQueue_lost_retry` | `NothingLost` | the end of a move removes the job an operator's retry has just queued; the DLQ entry goes too |
| `InvestigationCase_stale_run` | `HumanStatusKept` | a run reads an Open case, an operator moves it, the run saves its copy: the case is Open again |
| `ProviderCall_transient` | `TransientRetried` | the provider wraps a 429, a 5xx, a timeout and a broken connection in an error that `isRetryable` does not retry: the retry loop is never used |
| `SearchCache_regions` | `CacheIsNationwide` | a crawl limited to one region indexes what it found; the next search of the whole country is answered from it alone |

Seen by reading or in earlier counterexamples, and not turned into runs:

- *Jobs.* A resend accepted while the first POST is under way reports twice
  (`CallbackAtMostOnce` fails with a resender). A database error after the verdict reaches
  `runSearch`'s catch and makes a completed job failed (`SuccessNotFailed` in `SearchJob`). A stale handler
  can write the representative search back to null. Without the AI the callback's count omits cases
  that a worker opened for another search than the representative one. An AI score below
  the thresholds leaves an Open case with its old score. The second alternative name
  of an order's field is lost when the first is blank.
- *Queue.* A crash between a job's last attempt and its DLQ entry loses it
  (`MoveFails`); the DLQ is never trimmed although `QUEUE_FAILED_MAX_COUNT` is documented.
- *Searches.* A listing's document keeps its last keyword only; `searchExactKeyword` also
  matches longer keywords, though its comment (`elastic/elastic.service.ts:136`) says exact;
  a cache filled from one site answers a search of all; `cacheOnly` with regions, or without
  `useCache`, crawls nevertheless. A search deleted while it is filled can come back
  or leave orphans (`overlap` in `CrawlStore`).
- *Cases.* Notes and assignments of a completed case can be changed through the API,
  though `src/docs/사용법.md:319` says not.
- *Dashboard.* An answer that comes after another search was selected may put the older one on
  the screen. The questions of the workflow and decision panels
  stay open when the drawer's case changes. A deletion's answer closes whichever case is open, and a new
  case's drawer closes again if its answer comes while the drawer slides out. A note typed
  back to its last saved text while another save is in flight says saved over a
  different text. `RentalPage` does not cancel the refetch and the resending when another
  job is selected, and keeps the old job's progress if the new one cannot be loaded.

## 6. Not modelled, and why

- *Statistics, the cache service, the other pages of the dashboard*: they read what others
  write and decide nothing. *Layout, charts, formatting, filters* of the modelled pages likewise.
- *Bootstrap, guards, filters, configuration*: wiring; configured values are constants.
- *Migrations and seeds*: run once; the unique indexes and foreign keys that they
  create are guards and effects in the modules that meet them.
- *Pages of sites, browsers, image decoding, the engines of the image gate, prompts' texts*: outcomes
  that a step chooses from. So the adapters, Elasticsearch and the image storage
  are "partly".
- *The death of the API process* is not in `SearchJob` because no code takes up a job again.
- *The job's percentage, current site and result count* are data of the progress sync that no
  property speaks of.

## 7. What could follow

The plan of the first version is carried out, and the dashboard, the AI's answers, the adapters
and the outcome of a job were added to it, and what the runs check of safety is proved. What
would add most next is `SearchJob`'s view of a crawl as an abstract specification that `CrawlQueue` with
`CrawlStore` implements. It has to say first what a job sees of a search that is deleted while its
crawl goes on: `SearchJob` has no deletions, and in `CrawlStore` the final save of such a crawl inserts
the history again.

## 8. Running

    tlc -workers 2 -config Searching.cfg MCSearching.tla
    tlc -workers 2 -config Services.cfg MCServices.tla
    tlapm CrawlStoreProofs.tla
    tlapm AlgorithmsProofs.tla

`PROJECT.json` names the module of every run.
