------------------------------- MODULE SearchCache -------------------------------
(* The cache of listings by keyword: documents that crawls put into Elasticsearch     *)
(* (crawler/crawler.service.ts, elastic/elastic.service.ts), and the searches that     *)
(* are answered from them instead of by a crawl (search() of                         *)
(* modules/search/search.service.ts), each for some sites and some regions.          *)
(*                                                                                 *)
(* Elasticsearch is not part of the repository: a phrase matches a keyword that        *)
(* has its words next to each other, as match_phrase does.                           *)
EXTENDS Naturals, Sequences, FiniteSets, SequencesExt

CONSTANTS Listings,
          SiteOf(_), PlaceOf(_),   \* the site and the region of a listing
          Sites,                   \* SiteCode.ALL
          Regions,                 \* SEARCH_REGION_PRESETS
          Unknown,                 \* other codes that a request may name
          Keywords,                \* sequences of words
          Searches,                \* calls of search()
          Size                     \* documents an answer has at most

VARIABLES doc,      \* of each listing, the keyword it was indexed with last, or none
          scope,    \* the regions of the crawl that did so (history variable)
          search    \* what each search asked for, and what it was answered

vars == <<doc, scope, search>>

NoKeyword == << >>
Unasked   == [pc |-> "idle"]

Init ==
    /\ doc = [l \in Listings |-> NoKeyword] /\ scope = [l \in Listings |-> {}]
    /\ search = [s \in Searches |-> Unasked]

-----------------------------------------------------------------------------
(* resolveSearchRegions and isNationwideRegions: unknown codes are passed over, and   *)
(* without a known one the whole country is meant.                                   *)
Resolved(codes) ==
    IF "all" \in codes \/ codes \cap Regions = {} THEN Regions ELSE codes \cap Regions

Nationwide(codes) == Resolved(codes) = Regions

(* searchExactKeyword: documents of the sites that have the phrase in their keyword,   *)
(* the newest Size of them; none when Elasticsearch fails.                           *)
Matching(q) == {l \in Listings : q.keyword \in SubSeqs(doc[l]) /\ SiteOf(l) \in q.sites}

Hits(q) == {found \in SUBSET Matching(q) :
              Cardinality(found) = IF Cardinality(Matching(q)) <= Size
                                   THEN Cardinality(Matching(q)) ELSE Size} \cup {{}}

UsesCache(q) == q.useCache /\ Nationwide(q.codes)

(* No site named means all of them. *)
Requests == [keyword : Keywords, sites : (SUBSET Sites) \ {{}},
             codes : SUBSET (Regions \cup Unknown \cup {"all"}),
             useCache : BOOLEAN, cacheOnly : BOOLEAN]

(* search(): the cache is asked, and a crawl queued when it has nothing, or when it    *)
(* is not used, whether or not only the cache was wanted.                            *)
Answer(s, q, pc, results) == search' = [search EXCEPT ![s] = [pc |-> pc, q |-> q, results |-> results]]

Search(s) ==
    /\ search[s] = Unasked
    /\ \E q \in Requests :
         IF UsesCache(q)
         THEN \E found \in Hits(q) :
                Answer(s, q, IF found # {} THEN "cached"
                             ELSE IF q.cacheOnly THEN "completed" ELSE "queued", found)
         ELSE Answer(s, q, "queued", {})
    /\ UNCHANGED <<doc, scope>>

(* executeCrawl: the adapters ask for the regions or leave out what lies elsewhere,     *)
(* and what is saved is indexed under the keyword, over what was there before; an       *)
(* error of that is logged only.  However the sites fare, the crawl ends.              *)
InScope(q) == {l \in Listings : SiteOf(l) \in q.sites /\ PlaceOf(l) \in Resolved(q.codes)}

Crawl(s) ==
    /\ search[s].pc = "queued"
    /\ LET q == search[s].q
       IN  \E found \in SUBSET InScope(q) : \E indexed \in SUBSET found :
             /\ doc' = [l \in Listings |-> IF l \in indexed THEN q.keyword ELSE doc[l]]
             /\ scope' = [l \in Listings |-> IF l \in indexed THEN Resolved(q.codes) ELSE scope[l]]
             /\ Answer(s, q, "completed", found)

Next == \E s \in Searches : Search(s) \/ Crawl(s)

Spec == Init /\ [][Next]_vars

-----------------------------------------------------------------------------
(* The comment of search() says that results filtered by region have another scope      *)
(* than the keyword cache, which is therefore used for the whole country only: so what   *)
(* a search is answered from the cache was found by crawls of the whole country.        *)
CacheIsNationwide ==
    [][\A s \in Searches : search'[s].pc = "cached" /\ search[s] = Unasked =>
         \A l \in search'[s].results : scope[l] = Regions]_vars

=============================================================================
