----------------------------- MODULE CrawlStore -----------------------------
(***************************************************************************)
(* Searches of one keyword over the shared tables: search() and            *)
(* deleteSearch() of modules/search/search.service.ts, and executeCrawl()  *)
(* of crawler/crawler.service.ts with upsertResult, the links of a history *)
(* to its listings, the attempts and the Elasticsearch documents.          *)
(*                                                                         *)
(* A listing is unique by its url and shared by the searches that link to  *)
(* it; a deletion removes the listings that no search links to any more.   *)
(* TypeORM's save(entity) inserts the row again when it is gone.  Foreign  *)
(* keys: a link needs its history and its listing and goes with either of  *)
(* them, an attempt needs its history and goes with it.                    *)
(*                                                                         *)
(* The queue may execute a search's crawl again, from its beginning: after *)
(* an error that it throws, after its worker died, or from the DLQ.  The   *)
(* executions of one search follow one another here; a worker that goes on *)
(* after its job was given to another is not modelled.                     *)
(***************************************************************************)
EXTENDS Naturals

CONSTANTS
  Searches,      \* search histories, one per call of search()
  Sites,         \* number of site adapters, visited in order
  Urls,          \* urls of listings
  SiteOf,        \* the site of each url
  MaxIds,        \* listings ever inserted (a bound)
  MaxAgain       \* executions of crawls that were executed before (a bound)

StoreAssumption ==
  /\ Sites \in Nat \ {0} /\ MaxIds \in Nat \ {0} /\ MaxAgain \in Nat
  /\ SiteOf \in [Urls -> 1..Sites]
  /\ "none" \notin Urls

VARIABLES
  history,   \* search_history.status, or "none"
  listing,   \* crawler_result: the id of the row of each url, or 0
  lastId,    \* ids given out
  links,     \* search_history_results: pairs of a search and a listing id
  attempts,  \* crawl_site_attempts: search, execution, site, and the two flags of a row
  docs,      \* ids of the documents in Elasticsearch
  keyword,   \* search_keyword.searchCount, 0 without a row
  call,      \* the call of search() that creates each history
  crawl,     \* the last execution of each search's crawl; which one it is (run), and
             \* the links it found (before), are known to the properties only
  again,     \* executions of crawls that were executed before, all searches together
  del,       \* the call of deleteSearch() for each search
  overlap,   \* a search was deleted while its own call or crawl went on (history variable)
  raced,     \* a listing was linked to after a deletion had found it an orphan (history variable)
  dropped    \* listings saved, but not linked, by an execution that was cut off (history variable)

tables == <<history, listing, lastId, links, attempts, docs, keyword>>
ghosts == <<again, overlap, raced, dropped>>
vars == <<tables, call, crawl, del, ghosts>>

Ids == 1..MaxIds
Row(i) == \E u \in Urls : listing[u] = i
\* A deletion has found the listing to be an orphan and is about to delete it.
Condemned(i) == \E s \in Searches : del[s].pc = "check" /\ i \in del[s].orphans
LinkedBy(i) == {s \in Searches : <<s, i>> \in links}

NoCall == [pc |-> "idle", read |-> 0, todo |-> {}]
NoCrawl == [pc |-> "idle", site |-> 0, todo |-> {}, got |-> {}, url |-> "none", id |-> 0,
            saved |-> FALSE, listed |-> FALSE, failed |-> {}, run |-> 0, before |-> {}]
NoDel == [pc |-> "idle", ids |-> {}, orphans |-> {}]

Init ==
  /\ history = [s \in Searches |-> "none"]
  /\ listing = [u \in Urls |-> 0] /\ lastId = 0
  /\ links = {} /\ attempts = {} /\ docs = {} /\ keyword = 0
  /\ call = [s \in Searches |-> NoCall]
  /\ crawl = [s \in Searches |-> NoCrawl]
  /\ del = [s \in Searches |-> NoDel]
  /\ again = 0 /\ overlap = FALSE /\ raced = FALSE /\ dropped = {}

-----------------------------------------------------------------------------
(* search() *)

\* upsertKeyword reads the counter ...
ReadKeyword(s) ==
  /\ call[s].pc = "idle"
  /\ call' = [call EXCEPT ![s].pc = "keyword", ![s].read = keyword]
  /\ UNCHANGED <<tables, crawl, del, ghosts>>

\* ... and writes it plus one: an insertion when it found none, which fails if
\* another call was faster; the row it found is inserted again if it is gone.
SaveKeyword(s) ==
  /\ call[s].pc = "keyword"
  /\ IF call[s].read = 0 /\ keyword # 0
     THEN call' = [call EXCEPT ![s].pc = "failed"] /\ UNCHANGED keyword
     ELSE call' = [call EXCEPT ![s].pc = "look"] /\ keyword' = call[s].read + 1
  /\ UNCHANGED <<history, listing, lastId, links, attempts, docs, crawl, del, ghosts>>

\* Elasticsearch has documents of the keyword: the history is saved as cached.
Hit(s) ==
  /\ call[s].pc = "look" /\ docs # {}
  /\ history' = [history EXCEPT ![s] = "cached"]
  /\ call' = [call EXCEPT ![s].pc = "linking", ![s].todo = docs]
  /\ UNCHANGED <<listing, lastId, links, attempts, docs, keyword, crawl, del, ghosts>>

\* No document, an error of Elasticsearch or a call without cache: a history
\* is saved as queued and its crawl put in the queue; or as completed, when
\* only the cache was asked for.
Miss(s) ==
  /\ call[s].pc = "look"
  /\ call' = [call EXCEPT ![s].pc = "done"]
  /\ \/ /\ history' = [history EXCEPT ![s] = "queued"]
        /\ crawl' = [crawl EXCEPT ![s].pc = "waiting"]
     \/ /\ history' = [history EXCEPT ![s] = "completed"]
        /\ UNCHANGED crawl
  /\ UNCHANGED <<listing, lastId, links, attempts, docs, keyword, del, ghosts>>

\* linkCachedResults: documents without a listing are passed over.
LinkCached(s) ==
  /\ call[s].pc = "linking"
  /\ \E i \in call[s].todo :
       /\ Row(i) => history[s] # "none"
       /\ links' = IF Row(i) THEN links \cup {<<s, i>>} ELSE links
       /\ raced' = (raced \/ Condemned(i))
       /\ dropped' = IF Row(i) THEN dropped \ {i} ELSE dropped
       /\ call' = [call EXCEPT ![s].todo = @ \ {i}]
  /\ UNCHANGED <<history, listing, lastId, attempts, docs, keyword, crawl, del, again, overlap>>

\* The history, or a listing just found, was deleted: the key of the link fails.
LinkCachedFails(s) ==
  /\ call[s].pc = "linking"
  /\ \E i \in call[s].todo : history[s] = "none" \/ ~Row(i)
  /\ call' = [call EXCEPT ![s].pc = "failed", ![s].todo = {}]
  /\ UNCHANGED <<tables, crawl, del, ghosts>>

Answer(s) ==
  /\ call[s].pc = "linking" /\ call[s].todo = {}
  /\ call' = [call EXCEPT ![s].pc = "done"]
  /\ UNCHANGED <<tables, crawl, del, ghosts>>

-----------------------------------------------------------------------------
(* executeCrawl() *)

At(s, label) == [crawl EXCEPT ![s].pc = label]

\* The history is read; a crawl without one throws.
Load(s) ==
  /\ crawl[s].pc = "waiting"
  /\ crawl' = At(s, IF history[s] = "none" THEN "thrown" ELSE "mark")
  /\ UNCHANGED <<tables, call, del, ghosts>>

MarkRunning(s) ==
  /\ crawl[s].pc = "mark"
  /\ history' = [history EXCEPT ![s] = "running"]
  /\ crawl' = [crawl EXCEPT ![s].pc = "site", ![s].site = 1]
  /\ UNCHANGED <<listing, lastId, links, attempts, docs, keyword, call, del, ghosts>>

\* The adapter finds listings, of which the most similar are kept.
Visit(s) ==
  /\ crawl[s].pc = "site" /\ crawl[s].site <= Sites
  /\ \E found \in SUBSET {u \in Urls : SiteOf[u] = crawl[s].site} :
       crawl' = [crawl EXCEPT ![s].pc = "listings", ![s].todo = found, ![s].got = @ \cup found,
                              ![s].listed = TRUE]
  /\ UNCHANGED <<tables, call, del, ghosts>>

\* The catch of the loop over the sites; the listings left are dropped.
SiteFailed(c) == [c EXCEPT !.pc = "attempt", !.failed = @ \cup {c.site}, !.todo = {}, !.url = "none", !.id = 0]

VisitFails(s) ==
  /\ crawl[s].pc = "site" /\ crawl[s].site <= Sites
  /\ crawl' = [crawl EXCEPT ![s] = SiteFailed([@ EXCEPT !.listed = FALSE])]
  /\ UNCHANGED <<tables, call, del, ghosts>>

\* upsertResult looks the listing up by its url.
Lookup(s) ==
  /\ crawl[s].pc = "listings"
  /\ \E u \in crawl[s].todo :
       crawl' = [crawl EXCEPT ![s].pc = IF listing[u] = 0 THEN "insert" ELSE "save",
                              ![s].url = u, ![s].id = listing[u], ![s].todo = @ \ {u}]
  /\ UNCHANGED <<tables, call, del, ghosts>>

\* A slip: a row that has the url already is written over.
InsertsAnyway(s) == TRUE

\* The unique index on url, for a row with this id.
UrlFree(s) == listing[crawl[s].url] \in {0, crawl[s].id}

\* The row found is saved, and inserted again if it is gone.
SaveListing(s) ==
  /\ crawl[s].pc = "save" /\ UrlFree(s)
  /\ listing' = [listing EXCEPT ![crawl[s].url] = crawl[s].id]
  /\ crawl' = At(s, "link")
  /\ UNCHANGED <<history, lastId, links, attempts, docs, keyword, call, del, ghosts>>

\* A new row; with an image, its hash is computed and stored before the link.
InsertListing(s) ==
  /\ crawl[s].pc = "insert" /\ UrlFree(s) /\ lastId < MaxIds
  /\ lastId' = lastId + 1
  /\ listing' = [listing EXCEPT ![crawl[s].url] = lastId']
  /\ \E next \in {"image", "link"} :
       crawl' = [crawl EXCEPT ![s].pc = next, ![s].id = lastId']
  /\ UNCHANGED <<history, links, attempts, docs, keyword, call, del, ghosts>>

\* The image's similarity is saved with the row; an error is logged only.
SaveImage(s) ==
  /\ crawl[s].pc = "image"
  /\ listing' = [listing EXCEPT ![crawl[s].url] = IF UrlFree(s) THEN crawl[s].id ELSE @]
  /\ crawl' = At(s, "link")
  /\ UNCHANGED <<history, lastId, links, attempts, docs, keyword, call, del, ghosts>>

\* Another crawl has inserted the url: the index refuses the row, and the site has failed.
ListingRefused(s) ==
  /\ crawl[s].pc \in {"save", "insert"} /\ ~UrlFree(s)
  /\ crawl' = [crawl EXCEPT ![s] = SiteFailed(@)]
  /\ UNCHANGED <<tables, call, del, ghosts>>

\* upsertHistorySnapshot: the link's keys need the history and the listing.
LinkHolds(s) == history[s] # "none" /\ listing[crawl[s].url] = crawl[s].id

Link(s) ==
  /\ crawl[s].pc = "link" /\ LinkHolds(s)
  /\ links' = links \cup {<<s, crawl[s].id>>}
  /\ raced' = (raced \/ Condemned(crawl[s].id)) /\ dropped' = dropped \ {crawl[s].id}
  /\ crawl' = At(s, "index")
  /\ UNCHANGED <<history, listing, lastId, attempts, docs, keyword, call, del, again, overlap>>

LinkFails(s) ==
  /\ crawl[s].pc = "link" /\ ~LinkHolds(s)
  /\ crawl' = [crawl EXCEPT ![s] = SiteFailed(@)]
  /\ UNCHANGED <<tables, call, del, ghosts>>

\* The document is indexed, or the error logged; the listing counts as saved.
Index(s) ==
  /\ crawl[s].pc = "index"
  /\ docs' \in {docs, docs \cup {crawl[s].id}}
  /\ crawl' = [crawl EXCEPT ![s].pc = "listings", ![s].saved = TRUE, ![s].url = "none", ![s].id = 0]
  /\ UNCHANGED <<history, listing, lastId, links, attempts, keyword, call, del, ghosts>>

\* success says that the adapter returned, error that the site failed.
Attempt(s, c) == [search |-> s, run |-> c.run, site |-> c.site, success |-> c.listed,
                  error |-> c.site \in c.failed]

\* recordSiteAttempt: its own error (the history is gone) is logged only.
RecordAttempt(s) ==
  /\ crawl[s].pc = "attempt" \/ (crawl[s].pc = "listings" /\ crawl[s].todo = {})
  /\ attempts' = IF history[s] = "none" THEN attempts ELSE attempts \cup {Attempt(s, crawl[s])}
  /\ crawl' = [crawl EXCEPT ![s].pc = "site", ![s].site = @ + 1, ![s].listed = FALSE]
  /\ UNCHANGED <<history, listing, lastId, links, docs, keyword, call, del, ghosts>>

Outcome(c) ==
  IF c.failed = {} THEN "completed" ELSE IF c.saved THEN "partial" ELSE "failed"

\* The final save; then the investigation cases are opened (InvestigationCase).
Finish(s) ==
  /\ crawl[s].pc = "site" /\ crawl[s].site > Sites
  /\ history' = [history EXCEPT ![s] = Outcome(crawl[s])]
  /\ crawl' = At(s, "over")
  /\ UNCHANGED <<listing, lastId, links, attempts, docs, keyword, call, del, ghosts>>

Executing(s) == crawl[s].pc \notin {"idle", "waiting", "thrown", "over"}

\* The links that an execution finds, or has made.
LinksOf(s) == {i \in Ids : <<s, i>> \in links}

\* A new execution counts what it saves, and its errors, from nothing.
Anew(s) == [NoCrawl EXCEPT !.pc = "waiting", !.run = again + 1, !.before = LinksOf(s)]

\* The listing that the execution has saved and not yet linked.
Unlinked(s) == IF crawl[s].pc \in {"image", "link"} /\ LinkedBy(crawl[s].id) = {} THEN {crawl[s].id} ELSE {}

\* The execution threw, its worker died at any point, the end of the job was
\* not acknowledged, or the job was taken out of the DLQ: it is executed again.
Again(s) ==
  /\ crawl[s].pc \notin {"idle", "waiting"} /\ again < MaxAgain
  /\ again' = again + 1
  /\ crawl' = [crawl EXCEPT ![s] = Anew(s)]
  /\ dropped' = dropped \cup Unlinked(s)
  /\ overlap' = (overlap \/ del[s].pc = "delete")
  /\ UNCHANGED <<tables, call, del, raced>>

-----------------------------------------------------------------------------
(* deleteSearch() *)

\* The call or the crawl that fills a search is not over.
Busy(s) == call[s].pc = "linking" \/ Executing(s) \/ crawl[s].pc = "waiting"

\* The history and its links are read ...
ReadLinks(s) ==
  /\ del[s].pc = "idle" /\ history[s] # "none"
  /\ del' = [del EXCEPT ![s] = [pc |-> "delete", ids |-> {i \in Ids : <<s, i>> \in links}, orphans |-> {}]]
  /\ overlap' = (overlap \/ Busy(s))
  /\ UNCHANGED <<tables, call, crawl, again, raced, dropped>>

\* ... and the history deleted, with what refers to it.
DeleteHistory(s) ==
  /\ del[s].pc = "delete"
  /\ history' = [history EXCEPT ![s] = "none"]
  /\ links' = {p \in links : p[1] # s}
  /\ attempts' = {a \in attempts : a.search # s}
  /\ del' = [del EXCEPT ![s].pc = "check"]
  /\ UNCHANGED <<listing, lastId, docs, keyword, call, crawl, ghosts>>

\* A slip: a listing that is still in the cache is no orphan.
OrphanUncached(i) == LinkedBy(i) = {} /\ i \notin docs

Orphan(i) == LinkedBy(i) = {}

CheckOrphan(s) ==
  /\ del[s].pc = "check"
  /\ \E i \in del[s].ids :
       del' = [del EXCEPT ![s].ids = @ \ {i}, ![s].orphans = IF Orphan(i) THEN @ \cup {i} ELSE @]
  /\ UNCHANGED <<tables, call, crawl, ghosts>>

\* One statement deletes the orphans, with the links made since the check.
Purge(s) ==
  /\ del[s].pc = "check" /\ del[s].ids = {} /\ del[s].orphans # {}
  /\ listing' = [u \in Urls |-> IF listing[u] \in del[s].orphans THEN 0 ELSE listing[u]]
  /\ links' = {p \in links : p[2] \notin del[s].orphans}
  /\ del' = [del EXCEPT ![s].pc = "unindex"]
  /\ UNCHANGED <<history, lastId, attempts, docs, keyword, call, crawl, ghosts>>

\* deleteByIds goes on after an error.
Unindex(s) ==
  /\ del[s].pc = "unindex"
  /\ \E gone \in SUBSET del[s].orphans : docs' = docs \ gone
  /\ del' = [del EXCEPT ![s] = [NoDel EXCEPT !.pc = "count"]]
  /\ UNCHANGED <<history, listing, lastId, links, attempts, keyword, call, crawl, ghosts>>

\* The last history of a keyword takes the keyword's row with it.
CountHistories(s) ==
  /\ del[s].pc = "count" \/ (del[s].pc = "check" /\ del[s].ids = {} /\ del[s].orphans = {})
  /\ del' = [del EXCEPT ![s].pc = IF \A t \in Searches : history[t] = "none" THEN "keyword" ELSE "idle"]
  /\ UNCHANGED <<tables, call, crawl, ghosts>>

DeleteKeyword(s) ==
  /\ del[s].pc = "keyword"
  /\ keyword' = 0
  /\ del' = [del EXCEPT ![s].pc = "idle"]
  /\ UNCHANGED <<history, listing, lastId, links, attempts, docs, call, crawl, ghosts>>

-----------------------------------------------------------------------------
Call(s) == ReadKeyword(s) \/ SaveKeyword(s) \/ Hit(s) \/ Miss(s)
           \/ LinkCached(s) \/ LinkCachedFails(s) \/ Answer(s)

Crawl(s) == Load(s) \/ MarkRunning(s) \/ Visit(s) \/ VisitFails(s) \/ Lookup(s)
            \/ SaveListing(s) \/ InsertListing(s) \/ SaveImage(s) \/ ListingRefused(s)
            \/ Link(s) \/ LinkFails(s) \/ Index(s) \/ RecordAttempt(s) \/ Finish(s)

\* deleteSearch() after its start.
Delete(s) == DeleteHistory(s) \/ CheckOrphan(s) \/ Purge(s) \/ Unindex(s)
             \/ CountHistories(s) \/ DeleteKeyword(s)

Next == \E s \in Searches : Call(s) \/ Crawl(s) \/ Again(s) \/ ReadLinks(s) \/ Delete(s)

Spec == Init /\ [][Next]_vars

-----------------------------------------------------------------------------
CallType == [pc : {"idle", "keyword", "look", "linking", "done", "failed"},
             read : Nat, todo : SUBSET Ids]
CrawlType == [pc : {"idle", "waiting", "thrown", "mark", "site", "listings", "save", "insert",
                    "image", "link", "index", "attempt", "over"},
              site : 0..Sites + 1, todo : SUBSET Urls, got : SUBSET Urls,
              url : Urls \cup {"none"}, id : 0..MaxIds,
              saved : BOOLEAN, listed : BOOLEAN, failed : SUBSET (1..Sites),
              run : 0..MaxAgain, before : SUBSET Ids]
DelType == [pc : {"idle", "delete", "check", "unindex", "count", "keyword"},
            ids : SUBSET Ids, orphans : SUBSET Ids]

TypeOK ==
  /\ history \in [Searches -> {"none", "queued", "cached", "running", "completed", "partial", "failed"}]
  /\ listing \in [Urls -> 0..MaxIds] /\ lastId \in 0..MaxIds
  /\ links \subseteq Searches \X Ids /\ docs \subseteq Ids
  /\ attempts \subseteq [search : Searches, run : 0..MaxAgain, site : 1..Sites,
                         success : BOOLEAN, error : BOOLEAN]
  /\ keyword \in Nat
  /\ call \in [Searches -> CallType]
  /\ crawl \in [Searches -> CrawlType]
  /\ del \in [Searches -> DelType]
  /\ again \in 0..MaxAgain /\ overlap \in BOOLEAN /\ raced \in BOOLEAN /\ dropped \subseteq Ids

Linked(s, u) == listing[u] # 0 /\ <<s, listing[u]>> \in links

\* What the status of a search that is over says of its results.  Completed:
\* in the last execution every site answered, and every listing it showed is
\* linked to the search.  Partial: a site failed, and something is linked.
\* Failed: a site failed and nothing was saved by the last execution; what is
\* linked to the search then, an earlier execution had linked.  It holds of a
\* search that is not deleted during its own crawl, whatever the other crawls
\* and deletions do and wherever earlier executions stopped, except that a
\* deletion may remove a listing that was linked to after its check.
\* The attempts name each site once for every execution, all of them for the
\* last one, and an error of it unless the search is completed.
StatusTellsResults ==
  \A s \in Searches : crawl[s].pc = "over" /\ history[s] # "none" /\ ~overlap =>
    LET mine == {a \in attempts : a.search = s}
        last == {a \in mine : a.run = crawl[s].run}
    IN  /\ CASE history[s] = "completed" -> crawl[s].failed = {} /\ (raced \/ \A u \in crawl[s].got : Linked(s, u))
              [] history[s] = "partial" -> crawl[s].failed # {} /\ (raced \/ \E u \in Urls : Linked(s, u))
              [] history[s] = "failed" -> crawl[s].failed # {} /\ LinksOf(s) \subseteq crawl[s].before
        /\ {a.site : a \in last} = 1..Sites
        /\ \A a, b \in mine : a.run = b.run /\ a.site = b.site => a = b
        /\ history[s] = "completed" <=> \A a \in last : ~a.error

\* A listing that some actor will still link, or delete.
InHand(i) ==
  \E s \in Searches : \/ crawl[s].pc \in {"image", "link"} /\ crawl[s].id = i
                      \/ del[s].pc = "check" /\ i \in del[s].ids \cup del[s].orphans

\* Deletions leave no listing without a search, as the comment of deleteSearch
\* says, two searches that share a listing being deleted at once included;
\* unless a search is deleted while it is being filled.  Without a search are
\* besides only listings that an execution had saved when it was cut off, and
\* that none has linked since.
NoOrphans ==
  ~overlap => \A i \in Ids \ dropped : Row(i) => LinkedBy(i) # {} \/ InHand(i)

=============================================================================
