----------------------------- MODULE Searching -----------------------------
(***************************************************************************)
(* A search job, and the searches whose crawls share the tables, each from *)
(* its own beginning.  SearchJob knows of its searches only the status;    *)
(* CrawlStore says what that status tells.  They have no state in common   *)
(* here.                                                                   *)
(***************************************************************************)
EXTENDS SearchJob

CONSTANTS Searches, Sites, Urls, SiteOf, MaxIds, MaxAgain    \* the searches

VARIABLES part,
          history, listing, lastId, links, attempts, docs, keyword, call, execution, again,
          del, overlap, raced, dropped

Store == INSTANCE CrawlStore WITH crawl <- execution

ASSUME SearchingAssumption == Store!StoreAssumption

storeVars == <<history, listing, lastId, links, attempts, docs, keyword, call, execution, again,
               del, overlap, raced, dropped>>

SearchingInit == part \in {"job", "store"} /\ Init /\ Store!Init

SearchingNext ==
  /\ UNCHANGED part
  /\ \/ part = "job" /\ Next /\ UNCHANGED storeVars
     \/ part = "store" /\ Store!Next /\ UNCHANGED vars

SearchingSpec == SearchingInit /\ [][SearchingNext]_<<part, vars, storeVars>>

-----------------------------------------------------------------------------
(* CrawlStore: what the status of a search says of its results, and what   *)
(* deletions leave of the listings.                                        *)
StatusTellsResults == Store!StatusTellsResults
NoOrphans          == Store!NoOrphans

=============================================================================
