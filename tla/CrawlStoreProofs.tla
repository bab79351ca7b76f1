---------------------------- MODULE CrawlStoreProofs ----------------------------
(* Proofs about CrawlStore, for any searches, sites, urls and number of listings. *)
EXTENDS CrawlStore, Integers, TLAPS

-----------------------------------------------------------------------------
(* Types *)

AtSite == {"listings", "save", "insert", "image", "link", "index", "attempt"}
WithId == {"save", "image", "link", "index"}

\* A crawl is at a site while it handles its listings, and knows the listing it handles.
Places ==
  \A s \in Searches :
    /\ crawl[s].pc \in AtSite => crawl[s].site \in 1..Sites
    /\ crawl[s].pc = "site" => crawl[s].site \in 1..Sites + 1
    /\ crawl[s].pc \in {"save", "insert", "image", "link"} => crawl[s].url \in Urls
    /\ crawl[s].pc \in WithId => crawl[s].id \in 1..lastId

Given == \A u \in Urls : listing[u] <= lastId

TypeInv == TypeOK /\ Places /\ Given

Rows == [search : Searches, run : 0..MaxAgain, site : 1..Sites, success : BOOLEAN, error : BOOLEAN]

Tables ==
  /\ history \in [Searches -> {"none", "queued", "cached", "running", "completed", "partial", "failed"}]
  /\ listing \in [Urls -> 0..MaxIds] /\ lastId \in 0..MaxIds
  /\ links \subseteq Searches \X Ids /\ docs \subseteq Ids
  /\ attempts \subseteq Rows
  /\ keyword \in Nat

LEMMA TypeParts ==
  TypeOK <=> /\ Tables /\ call \in [Searches -> CallType] /\ crawl \in [Searches -> CrawlType]
             /\ del \in [Searches -> DelType] /\ again \in 0..MaxAgain
             /\ overlap \in BOOLEAN /\ raced \in BOOLEAN /\ dropped \subseteq Ids
  BY DEF TypeOK, Tables, Rows

LEMMA CrawlFields ==
  ASSUME crawl \in [Searches -> CrawlType], NEW s \in Searches
  PROVE  /\ crawl[s].pc \in {"idle", "waiting", "thrown", "mark", "site", "listings", "save", "insert",
                            "image", "link", "index", "attempt", "over"}
         /\ crawl[s].site \in 0..Sites + 1 /\ crawl[s].todo \in SUBSET Urls
         /\ crawl[s].url \in Urls \cup {"none"} /\ crawl[s].id \in 0..MaxIds
         /\ crawl[s].failed \in SUBSET (1..Sites) /\ crawl[s].run \in 0..MaxAgain
  BY DEF CrawlType

\* What a step of one crawl does to the crawls.
LEMMA CrawlSet ==
  ASSUME crawl \in [Searches -> CrawlType], NEW s \in Searches, NEW c \in CrawlType,
         crawl' = [crawl EXCEPT ![s] = c]
  PROVE  /\ crawl' \in [Searches -> CrawlType] /\ crawl'[s] = c
         /\ \A t \in Searches \ {s} : crawl'[t] = crawl[t]
  OBVIOUS

Relabeled(s, label) ==
  /\ crawl'[s].pc = label /\ crawl'[s].site = crawl[s].site
  /\ crawl'[s].url = crawl[s].url /\ crawl'[s].id = crawl[s].id

Moved(s) == /\ crawl' \in [Searches -> CrawlType]
            /\ \A t \in Searches \ {s} : crawl'[t] = crawl[t]

LEMMA AtIs ==
  ASSUME crawl \in [Searches -> CrawlType], NEW s \in Searches,
         NEW label \in {"mark", "thrown", "link", "index", "over"}, crawl' = At(s, label)
  PROVE  Moved(s) /\ Relabeled(s, label)
<1>1. PICK c : c = [crawl[s] EXCEPT !.pc = label]
  OBVIOUS
<1>2. c \in CrawlType /\ c.pc = label /\ c.site = crawl[s].site /\ c.url = crawl[s].url /\ c.id = crawl[s].id
  BY <1>1 DEF CrawlType
<1>3. crawl' = [crawl EXCEPT ![s] = c]
  BY <1>1 DEF At
<1> QED
  BY <1>2, <1>3, CrawlSet DEF Moved, Relabeled

\* The site's failure, from wherever it comes.
LEMMA SiteFailedIs ==
  ASSUME StoreAssumption, crawl \in [Searches -> CrawlType], NEW s \in Searches, crawl[s].site \in 1..Sites,
         NEW c0 \in CrawlType, c0.site = crawl[s].site,
         crawl' = [crawl EXCEPT ![s] = SiteFailed(c0)]
  PROVE  Moved(s) /\ crawl'[s].pc = "attempt" /\ crawl'[s].site = crawl[s].site
<1>1. PICK c : c = SiteFailed(c0)
  OBVIOUS
<1>2. c0.failed \cup {c0.site} \in SUBSET (1..Sites) /\ 0 \in 0..MaxIds /\ {} \in SUBSET Urls
  BY DEF CrawlType, StoreAssumption
<1>3. c = [c0 EXCEPT !.pc = "attempt", !.failed = c0.failed \cup {c0.site}, !.todo = {}, !.url = "none", !.id = 0]
  BY <1>1 DEF SiteFailed
<1>4. c \in CrawlType
  BY <1>2, <1>3 DEF CrawlType
<1>5. c.pc = "attempt" /\ c.site = crawl[s].site
  BY <1>3 DEF CrawlType
<1> QED
  BY <1>1, <1>4, <1>5, CrawlSet DEF Moved

LEMMA TypeInit == ASSUME StoreAssumption, Init PROVE TypeInv
<1>1. NoCall \in CallType /\ NoCrawl \in CrawlType /\ NoDel \in DelType
  BY DEF StoreAssumption, NoCall, CallType, NoCrawl, CrawlType, NoDel, DelType
<1>2. NoCrawl.pc = "idle"
  BY DEF NoCrawl
<1>3. call \in [Searches -> CallType] /\ crawl \in [Searches -> CrawlType] /\ del \in [Searches -> DelType]
  BY <1>1 DEF Init
<1>5. lastId \in 0..MaxIds /\ listing \in [Urls -> 0..MaxIds]
  BY DEF Init, StoreAssumption
<1>6. Tables
  BY <1>5 DEF Init, Tables
<1>7. TypeOK
  <2>2. again = 0 /\ overlap = FALSE /\ raced = FALSE /\ dropped = {}
    BY DEF Init
  <2>1. again \in 0..MaxAgain /\ overlap \in BOOLEAN /\ raced \in BOOLEAN /\ dropped \subseteq Ids
    <3>1. 0 \in 0..MaxAgain
      BY DEF StoreAssumption
    <3> QED BY <2>2, <3>1, Zenon
  <2> QED BY <1>3, <1>6, <2>1, TypeParts
<1>4. Places /\ Given
  BY <1>2 DEF Init, Places, Given, AtSite, WithId
<1> QED
  BY <1>7, <1>4 DEF TypeInv

\* A step of the call of search, or of the deletion.
LEMMA CallTypes ==
  ASSUME StoreAssumption, TypeInv, NEW s \in Searches, Call(s)
  PROVE  TypeInv'
<1>1. Tables /\ call \in [Searches -> CallType] /\ call[s] \in CallType /\ overlap \in BOOLEAN
  BY TypeParts DEF TypeInv
<1>2. UNCHANGED <<listing, lastId, docs, attempts, del, again, overlap>> /\ raced' \in BOOLEAN /\ dropped' \subseteq Ids
  BY DEF Call, ReadKeyword, SaveKeyword, Hit, Miss, LinkCached, LinkCachedFails, Answer, tables, ghosts,
         TypeInv, TypeOK, Condemned
<1>3. call' \in [Searches -> CallType] /\ Tables'
  <2>1. CASE ReadKeyword(s)
    BY <1>1, <2>1 DEF ReadKeyword, tables, Tables, CallType
  <2>2. CASE SaveKeyword(s)
    BY <1>1, <2>2 DEF SaveKeyword, Tables, CallType
  <2>3. CASE Hit(s)
    BY <1>1, <2>3 DEF Hit, Tables, CallType
  <2>4. CASE Miss(s)
    BY <1>1, <2>4 DEF Miss, Tables, CallType
  <2>5. CASE LinkCached(s)
    BY <1>1, <2>5 DEF LinkCached, Tables, CallType
  <2>6. CASE LinkCachedFails(s)
    BY <1>1, <2>6 DEF LinkCachedFails, tables, Tables, CallType
  <2>7. CASE Answer(s)
    BY <1>1, <2>7 DEF Answer, tables, Tables, CallType
  <2> QED BY <2>1, <2>2, <2>3, <2>4, <2>5, <2>6, <2>7 DEF Call
<1>4. crawl' \in [Searches -> CrawlType] /\ Places'
  <2>1. CASE UNCHANGED crawl
    BY <1>2, <2>1 DEF TypeInv, TypeOK, Places
  <2>2. CASE crawl' = [crawl EXCEPT ![s].pc = "waiting"]
    <3>1. PICK c : c = [crawl[s] EXCEPT !.pc = "waiting"]
      OBVIOUS
    <3>4. crawl[s] \in CrawlType
      BY DEF TypeInv, TypeOK
    <3>2. c \in CrawlType /\ c.pc = "waiting"
      BY <3>1, <3>4 DEF CrawlType
    <3>3. crawl' \in [Searches -> CrawlType] /\ crawl'[s] = c /\ \A t \in Searches \ {s} : crawl'[t] = crawl[t]
      BY <2>2, <3>1, <3>2, CrawlSet DEF TypeInv, TypeOK
    <3> QED BY <1>2, <3>2, <3>3 DEF TypeInv, Places, AtSite, WithId
  <2> QED BY <2>1, <2>2 DEF Call, ReadKeyword, SaveKeyword, Hit, Miss, LinkCached, LinkCachedFails, Answer
<1> QED
  BY <1>1, <1>2, <1>3, <1>4, TypeParts DEF TypeInv, TypeOK, Tables, Given

-----------------------------------------------------------------------------
(* What a step of a crawl does, as far as listings and links are concerned *)

Hand == {"save", "image", "link"}
Statuses == {"none", "queued", "cached", "running", "completed", "partial", "failed"}

Still == UNCHANGED <<listing, lastId, links>>
SameListing(s) == crawl'[s].url = crawl[s].url /\ crawl'[s].id = crawl[s].id

\* No listing is in the crawl's hand after the step, nor was before, unless the link failed.
PlainStep(s) ==
  /\ Still /\ crawl'[s].pc \notin Hand
  /\ history' = history \/ \E h \in Statuses \ {"none"} : history' = [history EXCEPT ![s] = h]
  /\ crawl[s].pc \in {"image", "link"} => crawl[s].pc = "link" /\ ~LinkHolds(s)

FoundStep(s) ==
  /\ Still /\ history' = history /\ crawl[s].pc = "listings" /\ crawl'[s].pc = "save"
  /\ crawl'[s].url \in Urls /\ crawl'[s].id = listing[crawl'[s].url] /\ crawl'[s].id # 0

StoredStep(s) ==
  /\ crawl[s].pc \in {"save", "image"} /\ crawl'[s].pc = "link" /\ SameListing(s)
  /\ UNCHANGED <<history, lastId, links>>
  /\ \/ listing' = listing
     \/ UrlFree(s) /\ listing' = [listing EXCEPT ![crawl[s].url] = crawl[s].id]

InsertedStep(s) ==
  /\ crawl[s].pc = "insert" /\ crawl'[s].pc \in {"image", "link"}
  /\ UrlFree(s) /\ lastId < MaxIds /\ lastId' = lastId + 1
  /\ listing' = [listing EXCEPT ![crawl[s].url] = lastId + 1]
  /\ crawl'[s].url = crawl[s].url /\ crawl'[s].id = lastId + 1
  /\ UNCHANGED <<history, links>>

LinkedStep(s) ==
  /\ crawl[s].pc = "link" /\ crawl'[s].pc = "index" /\ SameListing(s)
  /\ links' = links \cup {<<s, crawl[s].id>>}
  /\ UNCHANGED <<history, listing, lastId>>

Step(s) == PlainStep(s) \/ FoundStep(s) \/ StoredStep(s) \/ InsertedStep(s) \/ LinkedStep(s)

\* A crawl's place after its step.
PlaceOf(s) ==
  /\ crawl'[s].pc \in AtSite => crawl'[s].site \in 1..Sites
  /\ crawl'[s].pc = "site" => crawl'[s].site \in 1..Sites + 1
  /\ crawl'[s].pc \in {"save", "insert", "image", "link"} => crawl'[s].url \in Urls
  /\ crawl'[s].pc \in WithId => crawl'[s].id \in 1..lastId'

CrawlStep(s) == Moved(s) /\ Step(s) /\ PlaceOf(s)

\* A step that gives the crawl the record c.
LEMMA MovesTo ==
  ASSUME TypeInv, NEW s \in Searches, NEW c \in CrawlType, crawl' = [crawl EXCEPT ![s] = c]
  PROVE  Moved(s) /\ crawl'[s] = c
  BY CrawlSet DEF TypeInv, TypeOK, Moved

LEMMA LoadStep ==
  ASSUME StoreAssumption, TypeInv, NEW s \in Searches, Load(s) \/ Finish(s)
  PROVE  CrawlStep(s)
<1>1. crawl[s].pc \in {"waiting", "site"} /\ crawl \in [Searches -> CrawlType]
  BY DEF Load, Finish, TypeInv, TypeOK
<1>2. PICK l \in {"mark", "thrown", "over"} : crawl' = At(s, l)
  BY DEF Load, Finish
<1>3. Moved(s) /\ crawl'[s].pc = l
  BY <1>1, <1>2, AtIs DEF Relabeled
<1>4. history' = history \/ \E h \in Statuses \ {"none"} : history' = [history EXCEPT ![s] = h]
  BY DEF Load, Finish, tables, Outcome, Statuses
<1>5. Still
  BY DEF Load, Finish, tables, Still
<1> QED
  BY <1>1, <1>3, <1>4, <1>5 DEF CrawlStep, Step, PlainStep, PlaceOf, Hand, AtSite, WithId

LEMMA MarkStep ==
  ASSUME StoreAssumption, TypeInv, NEW s \in Searches, MarkRunning(s)
  PROVE  CrawlStep(s)
<1>1. PICK c : c = [crawl[s] EXCEPT !.pc = "site", !.site = 1]
  OBVIOUS
<1>5. 1 \in 1..Sites + 1 /\ 1 \in 0..Sites + 1 /\ 0 \in 0..MaxIds
  BY DEF StoreAssumption
<1>2. c \in CrawlType /\ c.pc = "site" /\ c.site = 1
  <2>1. crawl[s] \in CrawlType
    BY DEF TypeInv, TypeOK
  <2> QED BY <1>1, <1>5, <2>1 DEF CrawlType
<1>3. Moved(s) /\ crawl'[s] = c
  <2>1. crawl' = [crawl EXCEPT ![s] = c]
    BY <1>1 DEF MarkRunning, TypeInv, TypeOK, CrawlType
  <2> QED BY <1>2, <2>1, MovesTo
<1>4. Still /\ history' = [history EXCEPT ![s] = "running"] /\ crawl[s].pc = "mark"
  BY DEF MarkRunning, Still
<1> QED
  BY <1>2, <1>3, <1>4, <1>5 DEF CrawlStep, Step, PlainStep, PlaceOf, Hand, AtSite, WithId, Statuses

LEMMA VisitStep ==
  ASSUME StoreAssumption, TypeInv, NEW s \in Searches, Visit(s)
  PROVE  CrawlStep(s)
<1>1. PICK found \in SUBSET {u \in Urls : SiteOf[u] = crawl[s].site} :
        crawl' = [crawl EXCEPT ![s].pc = "listings", ![s].todo = found, ![s].got = @ \cup found,
                              ![s].listed = TRUE]
  BY DEF Visit
<1>2. crawl \in [Searches -> CrawlType] /\ crawl[s] \in CrawlType
  BY DEF TypeInv, TypeOK
<1>3. PICK c : c = [crawl[s] EXCEPT !.pc = "listings", !.todo = found, !.got = @ \cup found, !.listed = TRUE]
  OBVIOUS
<1>4. c \in CrawlType /\ c.pc = "listings" /\ c.site = crawl[s].site
  BY <1>2, <1>3 DEF CrawlType
<1>5. crawl' = [crawl EXCEPT ![s] = c]
  BY <1>1, <1>2, <1>3 DEF CrawlType
<1>6. Moved(s) /\ crawl'[s] = c
  BY <1>4, <1>5, MovesTo
<1>7. Still /\ history' = history /\ crawl[s].pc = "site" /\ crawl[s].site <= Sites
  BY DEF Visit, Still, tables
<1>8. crawl[s].site \in 1..Sites
  BY <1>7 DEF TypeInv, Places, StoreAssumption
<1> QED
  BY <1>4, <1>6, <1>7, <1>8 DEF CrawlStep, Step, PlainStep, PlaceOf, Hand, AtSite, WithId

LEMMA SiteFailedStep ==
  ASSUME StoreAssumption, TypeInv, NEW s \in Searches, VisitFails(s) \/ ListingRefused(s) \/ LinkFails(s)
  PROVE  CrawlStep(s)
<1>1. crawl \in [Searches -> CrawlType] /\ crawl[s] \in CrawlType
  BY DEF TypeInv, TypeOK
<1>2. crawl[s].site \in 1..Sites
  BY DEF VisitFails, ListingRefused, LinkFails, TypeInv, Places, AtSite, StoreAssumption
<1>3. PICK c : c = [crawl[s] EXCEPT !.listed = FALSE]
  OBVIOUS
<1>4. c \in CrawlType /\ c.site = crawl[s].site
  BY <1>1, <1>3 DEF CrawlType
<1>5. crawl' = [crawl EXCEPT ![s] = SiteFailed(c)] \/ crawl' = [crawl EXCEPT ![s] = SiteFailed(crawl[s])]
  BY <1>1, <1>3 DEF VisitFails, ListingRefused, LinkFails
<1>6. Moved(s) /\ crawl'[s].pc = "attempt" /\ crawl'[s].site = crawl[s].site
  BY <1>1, <1>2, <1>4, <1>5, SiteFailedIs
<1>7. Still /\ history' = history
  BY DEF VisitFails, ListingRefused, LinkFails, tables, Still
<1>8. crawl[s].pc \in {"image", "link"} => crawl[s].pc = "link" /\ ~LinkHolds(s)
  BY DEF VisitFails, ListingRefused, LinkFails
<1> QED
  BY <1>2, <1>6, <1>7, <1>8 DEF CrawlStep, Step, PlainStep, PlaceOf, Hand, AtSite, WithId

LEMMA LookupStep ==
  ASSUME StoreAssumption, TypeInv, NEW s \in Searches, Lookup(s)
  PROVE  CrawlStep(s)
<1>1. crawl \in [Searches -> CrawlType] /\ crawl[s] \in CrawlType /\ listing \in [Urls -> 0..MaxIds]
  BY DEF TypeInv, TypeOK
<1>2. PICK u \in crawl[s].todo :
        crawl' = [crawl EXCEPT ![s].pc = IF listing[u] = 0 THEN "insert" ELSE "save",
                              ![s].url = u, ![s].id = listing[u], ![s].todo = @ \ {u}]
  BY DEF Lookup
<1>3. u \in Urls /\ listing[u] \in 0..MaxIds /\ listing[u] <= lastId
  BY <1>1 DEF CrawlType, TypeInv, Given
<1>4. PICK l : l = IF listing[u] = 0 THEN "insert" ELSE "save"
  OBVIOUS
<1>5. PICK c : c = [crawl[s] EXCEPT !.pc = l, !.url = u, !.id = listing[u], !.todo = @ \ {u}]
  OBVIOUS
<1>6. c \in CrawlType /\ c.pc = l /\ c.site = crawl[s].site /\ c.url = u /\ c.id = listing[u]
  BY <1>1, <1>3, <1>4, <1>5 DEF CrawlType
<1>7. crawl' = [crawl EXCEPT ![s] = c]
  BY <1>1, <1>2, <1>4, <1>5 DEF CrawlType
<1>8. Moved(s) /\ crawl'[s] = c
  BY <1>6, <1>7, MovesTo
<1>9. Still /\ history' = history /\ lastId' = lastId /\ crawl[s].pc = "listings"
  BY DEF Lookup, Still, tables
<1>10. crawl[s].site \in 1..Sites
  BY <1>9 DEF TypeInv, Places, AtSite
<1>11. PlaceOf(s)
  BY <1>3, <1>4, <1>6, <1>8, <1>9, <1>10 DEF PlaceOf, AtSite, WithId, TypeInv, TypeOK
<1>12. Step(s)
  BY <1>3, <1>4, <1>6, <1>8, <1>9 DEF Step, PlainStep, FoundStep, Hand
<1> QED
  BY <1>8, <1>11, <1>12 DEF CrawlStep

LEMMA SaveStep ==
  ASSUME StoreAssumption, TypeInv, NEW s \in Searches, SaveListing(s) \/ SaveImage(s)
  PROVE  CrawlStep(s)
<1>1. crawl \in [Searches -> CrawlType] /\ crawl' = At(s, "link") /\ crawl[s].pc \in {"save", "image"}
  BY DEF SaveListing, SaveImage, TypeInv, TypeOK
<1>2. Moved(s) /\ Relabeled(s, "link")
  BY <1>1, AtIs
<1>3. crawl[s].site \in 1..Sites /\ crawl[s].url \in Urls /\ crawl[s].id \in 1..lastId
  BY <1>1 DEF TypeInv, Places, AtSite, WithId
<1>4. UNCHANGED <<history, lastId, links>>
  BY DEF SaveListing, SaveImage
<1>5. \/ listing' = listing
      \/ UrlFree(s) /\ listing' = [listing EXCEPT ![crawl[s].url] = crawl[s].id]
  <2>1. CASE UrlFree(s)
    BY <2>1 DEF SaveListing, SaveImage
  <2>2. CASE ~UrlFree(s)
    <3>1. listing' = [listing EXCEPT ![crawl[s].url] = listing[crawl[s].url]]
      BY <2>2, <1>3 DEF SaveListing, SaveImage, TypeInv, TypeOK
    <3> QED BY <3>1, <1>3 DEF TypeInv, TypeOK
  <2> QED BY <2>1, <2>2
<1>6. StoredStep(s)
  BY <1>1, <1>2, <1>4, <1>5 DEF StoredStep, SameListing, Relabeled
<1> QED
  BY <1>2, <1>3, <1>4, <1>6 DEF CrawlStep, Step, PlaceOf, Relabeled, AtSite, WithId

LEMMA InsertStep ==
  ASSUME StoreAssumption, TypeInv, NEW s \in Searches, InsertListing(s)
  PROVE  CrawlStep(s)
<1>1. crawl \in [Searches -> CrawlType] /\ crawl[s] \in CrawlType /\ lastId \in 0..MaxIds /\ MaxIds \in Nat
  BY DEF TypeInv, TypeOK, StoreAssumption
<1>2. /\ crawl[s].pc = "insert" /\ UrlFree(s) /\ lastId < MaxIds /\ lastId' = lastId + 1
      /\ listing' = [listing EXCEPT ![crawl[s].url] = lastId + 1] /\ UNCHANGED <<history, links>>
  BY DEF InsertListing
<1>3. PICK l \in {"image", "link"} : crawl' = [crawl EXCEPT ![s].pc = l, ![s].id = lastId + 1]
  BY <1>2 DEF InsertListing
<1>4. PICK c : c = [crawl[s] EXCEPT !.pc = l, !.id = lastId + 1]
  OBVIOUS
<1>5. lastId + 1 \in 0..MaxIds /\ lastId + 1 \in 1..lastId + 1
  BY <1>1, <1>2
<1>6. c \in CrawlType /\ c.pc = l /\ c.site = crawl[s].site /\ c.url = crawl[s].url /\ c.id = lastId + 1
  BY <1>1, <1>4, <1>5 DEF CrawlType
<1>7. crawl' = [crawl EXCEPT ![s] = c]
  BY <1>1, <1>3, <1>4 DEF CrawlType
<1>8. Moved(s) /\ crawl'[s] = c
  BY <1>6, <1>7, MovesTo
<1>9. crawl[s].site \in 1..Sites /\ crawl[s].url \in Urls
  BY <1>2 DEF TypeInv, Places, AtSite
<1>10. InsertedStep(s)
  BY <1>2, <1>6, <1>8 DEF InsertedStep
<1>11. PlaceOf(s)
  BY <1>2, <1>5, <1>6, <1>8, <1>9 DEF PlaceOf, AtSite, WithId
<1> QED
  BY <1>8, <1>10, <1>11 DEF CrawlStep, Step

LEMMA LinkStep ==
  ASSUME StoreAssumption, TypeInv, NEW s \in Searches, Link(s)
  PROVE  CrawlStep(s)
<1>1. crawl \in [Searches -> CrawlType] /\ crawl' = At(s, "index") /\ crawl[s].pc = "link"
  BY DEF Link, TypeInv, TypeOK
<1>2. Moved(s) /\ Relabeled(s, "index")
  BY <1>1, AtIs
<1>3. crawl[s].site \in 1..Sites /\ crawl[s].id \in 1..lastId
  BY <1>1 DEF TypeInv, Places, AtSite, WithId
<1>4. links' = links \cup {<<s, crawl[s].id>>} /\ UNCHANGED <<history, listing, lastId>>
  BY DEF Link
<1>5. LinkedStep(s)
  BY <1>1, <1>2, <1>4 DEF LinkedStep, SameListing, Relabeled
<1> QED
  BY <1>2, <1>3, <1>4, <1>5 DEF CrawlStep, Step, PlaceOf, Relabeled, AtSite, WithId

LEMMA IndexStep ==
  ASSUME StoreAssumption, TypeInv, NEW s \in Searches, Index(s)
  PROVE  CrawlStep(s)
<1>1. crawl \in [Searches -> CrawlType] /\ crawl[s] \in CrawlType /\ 0 \in 0..MaxIds
  BY DEF TypeInv, TypeOK, StoreAssumption
<1>2. PICK c : c = [crawl[s] EXCEPT !.pc = "listings", !.saved = TRUE, !.url = "none", !.id = 0]
  OBVIOUS
<1>3. c \in CrawlType /\ c.pc = "listings" /\ c.site = crawl[s].site
  BY <1>1, <1>2 DEF CrawlType
<1>4. crawl' = [crawl EXCEPT ![s] = c]
  BY <1>1, <1>2 DEF CrawlType, Index
<1>5. Moved(s) /\ crawl'[s] = c
  BY <1>3, <1>4, MovesTo
<1>6. Still /\ history' = history /\ crawl[s].pc = "index"
  BY DEF Index, Still
<1>7. crawl[s].site \in 1..Sites
  BY <1>6 DEF TypeInv, Places, AtSite
<1> QED
  BY <1>3, <1>5, <1>6, <1>7 DEF CrawlStep, Step, PlainStep, PlaceOf, Hand, AtSite, WithId

LEMMA AttemptStep ==
  ASSUME StoreAssumption, TypeInv, NEW s \in Searches, RecordAttempt(s)
  PROVE  CrawlStep(s)
<1>1. crawl \in [Searches -> CrawlType] /\ crawl[s] \in CrawlType
  BY DEF TypeInv, TypeOK
<1>2. Still /\ history' = history /\ crawl[s].pc \in {"attempt", "listings"}
  BY DEF RecordAttempt, Still
<1>3. crawl[s].site \in 1..Sites
  BY <1>2 DEF TypeInv, Places, AtSite
<1>4. crawl[s].site + 1 \in 1..Sites + 1 /\ crawl[s].site + 1 \in 0..Sites + 1
  BY <1>3 DEF StoreAssumption
<1>5. PICK c : c = [crawl[s] EXCEPT !.pc = "site", !.site = crawl[s].site + 1, !.listed = FALSE]
  OBVIOUS
<1>6. c \in CrawlType /\ c.pc = "site" /\ c.site = crawl[s].site + 1
  BY <1>1, <1>4, <1>5 DEF CrawlType
<1>7. crawl' = [crawl EXCEPT ![s] = c]
  BY <1>1, <1>5 DEF CrawlType, RecordAttempt
<1>8. Moved(s) /\ crawl'[s] = c
  BY <1>6, <1>7, MovesTo
<1> QED
  BY <1>2, <1>4, <1>6, <1>8 DEF CrawlStep, Step, PlainStep, PlaceOf, Hand, AtSite, WithId

LEMMA CrawlSteps ==
  ASSUME StoreAssumption, TypeInv, NEW s \in Searches, Crawl(s)
  PROVE  CrawlStep(s)
  BY LoadStep, MarkStep, VisitStep, SiteFailedStep, LookupStep, SaveStep, InsertStep, LinkStep,
     IndexStep, AttemptStep DEF Crawl

\* A step of a crawl leaves calls and deletions alone.
LEMMA CrawlAlone ==
  ASSUME NEW s \in Searches, Crawl(s)
  PROVE  UNCHANGED <<call, del, again, overlap>>
  BY DEF Crawl, Load, MarkRunning, Visit, VisitFails, Lookup, SaveListing, InsertListing, SaveImage,
         ListingRefused, Link, LinkFails, Index, RecordAttempt, Finish, tables, ghosts

\* The listing in a crawl's hand has an id that was given out.
LEMMA CrawlIdKnown ==
  ASSUME StoreAssumption, TypeInv, NEW s \in Searches, crawl[s].pc \in WithId
  PROVE  crawl[s].id \in Ids
  BY DEF TypeInv, Places, TypeOK, Ids, StoreAssumption

LEMMA CrawlTables ==
  ASSUME StoreAssumption, TypeInv, NEW s \in Searches, Crawl(s), CrawlStep(s)
  PROVE  Tables' /\ raced' \in BOOLEAN /\ dropped' \subseteq dropped
<1>1. /\ Tables /\ crawl \in [Searches -> CrawlType] /\ crawl[s] \in CrawlType /\ raced \in BOOLEAN
  BY DEF TypeInv, TypeOK, Tables, Rows
<1>2. raced' \in BOOLEAN /\ dropped' \subseteq dropped
  BY <1>1 DEF Crawl, Load, MarkRunning, Visit, VisitFails, Lookup, SaveListing, InsertListing, SaveImage,
         ListingRefused, Link, LinkFails, Index, RecordAttempt, Finish, ghosts, Condemned
<1>3. crawl[s].pc \in WithId => crawl[s].id \in Ids
  BY CrawlIdKnown
<1>4. /\ history' \in [Searches -> Statuses]
      /\ listing' \in [Urls -> 0..MaxIds] /\ lastId' \in 0..MaxIds /\ links' \subseteq Searches \X Ids
  <2>1. CASE PlainStep(s)
    BY <1>1, <2>1 DEF PlainStep, Still, Tables, Statuses
  <2>2. CASE FoundStep(s)
    BY <1>1, <2>2 DEF FoundStep, Still, Tables, Statuses
  <2>3. CASE StoredStep(s)
    <3>1. crawl[s].id \in 0..MaxIds
      BY <1>1 DEF CrawlType
    <3> QED BY <1>1, <2>3, <3>1 DEF StoredStep, Tables, Statuses
  <2>4. CASE InsertedStep(s)
    <3>1. lastId + 1 \in 0..MaxIds
      BY <1>1, <2>4 DEF InsertedStep, Tables, StoreAssumption
    <3> QED BY <1>1, <2>4, <3>1 DEF InsertedStep, Tables, Statuses
  <2>5. CASE LinkedStep(s)
    BY <1>1, <1>3, <2>5 DEF LinkedStep, Tables, Statuses, WithId
  <2> QED BY <2>1, <2>2, <2>3, <2>4, <2>5 DEF CrawlStep, Step
<1>5. docs' \subseteq Ids
  <2>1. CASE Index(s)
    BY <1>1, <1>3, <2>1 DEF Index, Tables, WithId
  <2>2. CASE ~Index(s)
    BY <1>1, <2>2 DEF Crawl, Load, MarkRunning, Visit, VisitFails, Lookup, SaveListing, InsertListing, SaveImage,
         ListingRefused, Link, LinkFails, RecordAttempt, Finish, tables, Tables
  <2> QED BY <2>1, <2>2
<1>6. attempts' \subseteq Rows
  <2>1. CASE RecordAttempt(s)
    <3>1. crawl[s].site \in 1..Sites /\ crawl[s].listed \in BOOLEAN /\ crawl[s].run \in 0..MaxAgain
      BY <1>1, <2>1 DEF RecordAttempt, TypeInv, Places, AtSite, CrawlType
    <3>2. Attempt(s, crawl[s]) \in Rows
      BY <3>1 DEF Attempt, Rows
    <3> QED BY <1>1, <2>1, <3>2 DEF RecordAttempt, Tables
  <2>2. CASE ~RecordAttempt(s)
    BY <1>1, <2>2 DEF Crawl, Load, MarkRunning, Visit, VisitFails, Lookup, SaveListing, InsertListing, SaveImage,
         ListingRefused, Link, LinkFails, Index, Finish, tables, Tables
  <2> QED BY <2>1, <2>2
<1>7. keyword' \in Nat
  BY <1>1 DEF Crawl, Load, MarkRunning, Visit, VisitFails, Lookup, SaveListing, InsertListing, SaveImage,
         ListingRefused, Link, LinkFails, Index, RecordAttempt, Finish, tables, Tables
<1> QED
  BY <1>2, <1>4, <1>5, <1>6, <1>7 DEF Tables, Statuses

LEMMA CrawlTypes ==
  ASSUME StoreAssumption, TypeInv, NEW s \in Searches, Crawl(s), CrawlStep(s)
  PROVE  TypeInv'
<1>1. /\ Tables' /\ raced' \in BOOLEAN /\ dropped' \subseteq dropped /\ UNCHANGED <<call, del, again, overlap>>
      /\ crawl' \in [Searches -> CrawlType]
  BY CrawlTables, CrawlAlone DEF CrawlStep, Moved
<1>2. TypeOK'
  BY <1>1 DEF TypeInv, TypeOK, Tables, Rows
<1>3. lastId \in Nat /\ lastId' \in Nat /\ lastId <= lastId'
  BY DEF TypeInv, TypeOK, StoreAssumption, CrawlStep, Step, PlainStep, FoundStep, StoredStep, InsertedStep, LinkedStep, Still
<1>4. Places'
  <2>1. ASSUME NEW t \in Searches
        PROVE  /\ crawl'[t].pc \in AtSite => crawl'[t].site \in 1..Sites
               /\ crawl'[t].pc = "site" => crawl'[t].site \in 1..Sites + 1
               /\ crawl'[t].pc \in {"save", "insert", "image", "link"} => crawl'[t].url \in Urls
               /\ crawl'[t].pc \in WithId => crawl'[t].id \in 1..lastId'
    <3>1. CASE t = s
      BY <3>1 DEF CrawlStep, PlaceOf
    <3>2. CASE t # s
      <4>1. crawl'[t] = crawl[t]
        BY <3>2 DEF CrawlStep, Moved
      <4>2. crawl[t].pc \in WithId => crawl[t].id \in 1..lastId'
        BY <1>3 DEF TypeInv, Places
      <4> QED BY <4>1, <4>2 DEF TypeInv, Places
    <3> QED BY <3>1, <3>2
  <2> QED BY <2>1 DEF Places
<1>5. Given'
  <2>1. \A u \in Urls : listing[u] \in Nat /\ listing[u] <= lastId
    BY DEF TypeInv, TypeOK, Given, StoreAssumption
  <2>2. listing \in [Urls -> 0..MaxIds]
    BY DEF TypeInv, TypeOK
  <2>3. CASE listing' = listing
    BY <1>3, <2>1, <2>3 DEF Given
  <2>4. CASE StoredStep(s)
    <3>1. crawl[s].id \in 1..lastId
      BY <2>4 DEF StoredStep, TypeInv, Places, WithId
    <3> QED BY <1>3, <2>1, <2>2, <2>4, <3>1 DEF StoredStep, Given
  <2>5. CASE InsertedStep(s)
    BY <1>3, <2>1, <2>2, <2>5 DEF InsertedStep, Given
  <2> QED BY <2>3, <2>4, <2>5 DEF CrawlStep, Step, PlainStep, FoundStep, LinkedStep, Still
<1> QED
  BY <1>2, <1>4, <1>5 DEF TypeInv

-----------------------------------------------------------------------------
(* Deletions *)

\* A step of a deletion, to the record d.
LEMMA DelSet ==
  ASSUME del \in [Searches -> DelType], NEW s \in Searches, NEW d \in DelType, del' = [del EXCEPT ![s] = d]
  PROVE  /\ del' \in [Searches -> DelType] /\ del'[s] = d
         /\ \A t \in Searches \ {s} : del'[t] = del[t]
  OBVIOUS

\* What each step of a deletion does to its record.
DelStep(s) ==
  /\ del' \in [Searches -> DelType]
  /\ \A t \in Searches \ {s} : del'[t] = del[t]
  /\ \/ /\ ReadLinks(s) /\ del'[s].pc = "delete" /\ del'[s].ids = {i \in Ids : <<s, i>> \in links}
     \/ /\ DeleteHistory(s) /\ del'[s].pc = "check" /\ del'[s].ids = del[s].ids
     \/ /\ CheckOrphan(s) /\ del'[s].pc = "check"
        /\ \E i \in del[s].ids : /\ del'[s].ids = del[s].ids \ {i}
                                 /\ del'[s].orphans = IF Orphan(i) THEN del[s].orphans \cup {i} ELSE del[s].orphans
     \/ /\ Purge(s) /\ del'[s].pc = "unindex"
     \/ /\ Unindex(s) /\ del'[s].pc = "count"
     \/ /\ CountHistories(s) /\ del'[s].pc \in {"keyword", "idle"}
     \/ /\ DeleteKeyword(s) /\ del'[s].pc = "idle"

LEMMA DelSteps ==
  ASSUME StoreAssumption, TypeInv, NEW s \in Searches, ReadLinks(s) \/ Delete(s)
  PROVE  DelStep(s)
<1>1. del \in [Searches -> DelType] /\ del[s] \in DelType
  BY DEF TypeInv, TypeOK
<1>2. CASE ReadLinks(s)
  <2>1. PICK d : d = [pc |-> "delete", ids |-> {i \in Ids : <<s, i>> \in links}, orphans |-> {}]
    OBVIOUS
  <2>2. d \in DelType /\ del' = [del EXCEPT ![s] = d]
    BY <1>2, <2>1 DEF DelType, ReadLinks
  <2> QED BY <1>1, <1>2, <2>1, <2>2, DelSet DEF DelStep
<1>3. CASE DeleteHistory(s)
  <2>1. PICK d : d = [del[s] EXCEPT !.pc = "check"]
    OBVIOUS
  <2>2. d \in DelType /\ del' = [del EXCEPT ![s] = d] /\ d.pc = "check" /\ d.ids = del[s].ids
    BY <1>1, <1>3, <2>1 DEF DelType, DeleteHistory
  <2> QED BY <1>1, <1>3, <2>2, DelSet DEF DelStep
<1>4. CASE CheckOrphan(s)
  <2>1. PICK i \in del[s].ids :
          del' = [del EXCEPT ![s].ids = @ \ {i}, ![s].orphans = IF Orphan(i) THEN @ \cup {i} ELSE @]
    BY <1>4 DEF CheckOrphan
  <2>2. PICK o : o = IF Orphan(i) THEN del[s].orphans \cup {i} ELSE del[s].orphans
    OBVIOUS
  <2>3. PICK d : d = [del[s] EXCEPT !.ids = @ \ {i}, !.orphans = o]
    OBVIOUS
  <2>4. o \in SUBSET Ids /\ del[s].pc = "check"
    BY <1>1, <1>4, <2>2 DEF DelType, CheckOrphan
  <2>5. d \in DelType /\ d.pc = "check" /\ d.ids = del[s].ids \ {i} /\ d.orphans = o
    BY <1>1, <2>3, <2>4 DEF DelType
  <2>6. del' = [del EXCEPT ![s] = d]
    BY <1>1, <2>1, <2>2, <2>3 DEF DelType
  <2> QED BY <1>1, <1>4, <2>2, <2>5, <2>6, DelSet DEF DelStep
<1>5. CASE Purge(s)
  <2>1. PICK d : d = [del[s] EXCEPT !.pc = "unindex"]
    OBVIOUS
  <2>2. d \in DelType /\ del' = [del EXCEPT ![s] = d] /\ d.pc = "unindex"
    BY <1>1, <1>5, <2>1 DEF DelType, Purge
  <2> QED BY <1>1, <1>5, <2>2, DelSet DEF DelStep
<1>6. CASE Unindex(s)
  <2>1. PICK d : d = [NoDel EXCEPT !.pc = "count"]
    OBVIOUS
  <2>2. d \in DelType /\ del' = [del EXCEPT ![s] = d] /\ d.pc = "count"
    BY <1>6, <2>1 DEF DelType, Unindex, NoDel
  <2> QED BY <1>1, <1>6, <2>2, DelSet DEF DelStep
<1>7. CASE CountHistories(s)
  <2>1. PICK l : l = IF \A t \in Searches : history[t] = "none" THEN "keyword" ELSE "idle"
    OBVIOUS
  <2>2. PICK d : d = [del[s] EXCEPT !.pc = l]
    OBVIOUS
  <2>3. d \in DelType /\ d.pc = l /\ l \in {"keyword", "idle"}
    BY <1>1, <2>1, <2>2 DEF DelType
  <2>4. del' = [del EXCEPT ![s] = d]
    BY <1>1, <1>7, <2>1, <2>2 DEF DelType, CountHistories
  <2> QED BY <1>1, <1>7, <2>3, <2>4, DelSet DEF DelStep
<1>8. CASE DeleteKeyword(s)
  <2>1. PICK d : d = [del[s] EXCEPT !.pc = "idle"]
    OBVIOUS
  <2>2. d \in DelType /\ del' = [del EXCEPT ![s] = d] /\ d.pc = "idle"
    BY <1>1, <1>8, <2>1 DEF DelType, DeleteKeyword
  <2> QED BY <1>1, <1>8, <2>2, DelSet DEF DelStep
<1> QED
  BY <1>2, <1>3, <1>4, <1>5, <1>6, <1>7, <1>8 DEF Delete

LEMMA DelTypes ==
  ASSUME StoreAssumption, TypeInv, NEW s \in Searches, ReadLinks(s) \/ Delete(s)
  PROVE  TypeInv'
<1>1. /\ Tables /\ call \in [Searches -> CallType] /\ crawl \in [Searches -> CrawlType]
      /\ overlap \in BOOLEAN /\ raced \in BOOLEAN /\ listing \in [Urls -> 0..MaxIds]
      /\ again \in 0..MaxAgain /\ dropped \subseteq Ids
  BY DEF TypeInv, TypeOK, Tables, Rows
<1>2. UNCHANGED <<lastId, call, crawl, again, raced, dropped>> /\ overlap' \in BOOLEAN
  BY <1>1 DEF ReadLinks, Delete, DeleteHistory, CheckOrphan, Purge, Unindex, CountHistories, DeleteKeyword,
         tables, ghosts, Busy, Executing
<1>3. \A u \in Urls : listing'[u] \in {0, listing[u]}
  BY <1>1 DEF ReadLinks, Delete, DeleteHistory, CheckOrphan, Purge, Unindex, CountHistories, DeleteKeyword, tables
<1>4. Tables'
  <2>1. CASE DeleteHistory(s)
    BY <1>1, <2>1 DEF DeleteHistory, Tables
  <2>2. CASE Purge(s)
    BY <1>1, <2>2 DEF Purge, Tables, StoreAssumption
  <2>3. CASE Unindex(s)
    BY <1>1, <2>3 DEF Unindex, Tables
  <2>4. CASE DeleteKeyword(s)
    BY <1>1, <2>4 DEF DeleteKeyword, Tables
  <2>5. CASE UNCHANGED tables
    BY <1>1, <2>5 DEF tables, Tables
  <2> QED BY <2>1, <2>2, <2>3, <2>4, <2>5 DEF ReadLinks, Delete, CheckOrphan, CountHistories
<1>5. del' \in [Searches -> DelType]
  BY DelSteps DEF DelStep
<1>6. TypeOK'
  BY <1>1, <1>2, <1>4, <1>5 DEF TypeOK, Tables, Rows
<1>7. Places'
  BY <1>2 DEF TypeInv, Places
<1>8. Given'
  <2>1. 0 <= lastId
    BY DEF TypeInv, TypeOK, StoreAssumption
  <2> QED BY <1>2, <1>3, <2>1 DEF TypeInv, Given
<1> QED
  BY <1>6, <1>7, <1>8 DEF TypeInv

-----------------------------------------------------------------------------
(* The next execution *)

LEMMA AnewIs ==
  ASSUME StoreAssumption, TypeInv, NEW s \in Searches, Again(s)
  PROVE  /\ crawl' \in [Searches -> CrawlType] /\ \A t \in Searches \ {s} : crawl'[t] = crawl[t]
         /\ crawl'[s].pc = "waiting" /\ crawl'[s].site = 0 /\ crawl'[s].todo = {} /\ crawl'[s].got = {}
         /\ crawl'[s].failed = {} /\ ~crawl'[s].saved /\ crawl'[s].run = again + 1
         /\ crawl'[s].before = LinksOf(s) /\ again' = again + 1 /\ again' \in 0..MaxAgain
         /\ UNCHANGED <<tables, call, del, raced>>
<1>1. PICK c : c = Anew(s)
  OBVIOUS
<1>2. c = [pc |-> "waiting", site |-> 0, todo |-> {}, got |-> {}, url |-> "none", id |-> 0, saved |-> FALSE,
           listed |-> FALSE, failed |-> {}, run |-> again + 1, before |-> LinksOf(s)]
  BY <1>1 DEF Anew, NoCrawl
<1>3. /\ again + 1 \in 0..MaxAgain /\ LinksOf(s) \in SUBSET Ids /\ 0 \in 0..MaxIds /\ 0 \in 0..Sites + 1
      /\ crawl \in [Searches -> CrawlType]
  BY DEF Again, TypeInv, TypeOK, StoreAssumption, LinksOf
<1>4. c \in CrawlType
  BY <1>2, <1>3 DEF CrawlType
<1>5. crawl' = [crawl EXCEPT ![s] = c] /\ again' = again + 1 /\ UNCHANGED <<tables, call, del, raced>>
  BY <1>1 DEF Again
<1>6. crawl' \in [Searches -> CrawlType] /\ crawl'[s] = c /\ \A t \in Searches \ {s} : crawl'[t] = crawl[t]
  BY <1>3, <1>4, <1>5, CrawlSet
<1> QED
  BY <1>2, <1>3, <1>5, <1>6

LEMMA AgainTypes == ASSUME StoreAssumption, TypeInv, NEW s \in Searches, Again(s) PROVE TypeInv'
<1>1. /\ crawl' \in [Searches -> CrawlType] /\ \A t \in Searches \ {s} : crawl'[t] = crawl[t]
      /\ crawl'[s].pc = "waiting" /\ again' \in 0..MaxAgain /\ UNCHANGED <<tables, call, del, raced>>
  BY AnewIs
<1>2. overlap' \in BOOLEAN
  BY DEF Again, TypeInv, TypeOK
<1>3. dropped' \subseteq Ids
  <2>1. crawl[s].pc \in {"image", "link"} => crawl[s].id \in Ids
    BY CrawlIdKnown DEF WithId
  <2> QED BY <2>1 DEF Again, Unlinked, TypeInv, TypeOK
<1>4. TypeOK'
  BY <1>1, <1>2, <1>3 DEF TypeInv, TypeOK, tables
<1>5. Places' /\ Given'
  BY <1>1 DEF TypeInv, Places, Given, AtSite, WithId, tables
<1> QED
  BY <1>4, <1>5 DEF TypeInv

LEMMA TypeNext == ASSUME StoreAssumption, TypeInv, [Next]_vars PROVE TypeInv'
<1>1. CASE UNCHANGED vars
  BY <1>1 DEF vars, tables, ghosts, TypeInv, TypeOK, Places, Given
<1>2. CASE Next
  BY <1>2, CallTypes, CrawlSteps, CrawlTypes, AgainTypes, DelTypes DEF Next
<1> QED
  BY <1>1, <1>2

LEMMA TypeInvHolds == ASSUME StoreAssumption PROVE Spec => []TypeInv
<1>1. Init => TypeInv
  BY TypeInit
<1>2. TypeInv /\ [Next]_vars => TypeInv'
  BY TypeNext
<1> QED
  BY <1>1, <1>2, PTL DEF Spec

\* The tables, calls, crawls and deletions keep their types, whatever their number.
THEOREM TypeCorrect == ASSUME StoreAssumption PROVE Spec => []TypeOK
<1>1. TypeInv => TypeOK
  BY DEF TypeInv
<1> QED
  BY <1>1, TypeInvHolds, PTL

-----------------------------------------------------------------------------
(* No orphans *)

\* A listing's id is that of one url, in the table and in every crawl's hand.
OneRow == \A u, v \in Urls : listing[u] = listing[v] /\ listing[u] # 0 => u = v

RowOfHand ==
  \A s \in Searches : crawl[s].pc \in Hand =>
    \A u \in Urls : listing[u] = crawl[s].id => u = crawl[s].url

OneHand ==
  \A s, t \in Searches :
    crawl[s].pc \in Hand /\ crawl[t].pc \in Hand /\ crawl[s].id = crawl[t].id => crawl[s].url = crawl[t].url

UrlsAgree == OneRow /\ RowOfHand /\ OneHand

\* Until a search is deleted while it is filled, what fills it has its history,
\* and its deletion knows all its links.  An execution may be waiting for a
\* search that is deleted, and will find no history.
Held(s) ==
  /\ call[s].pc = "linking" \/ Executing(s) => history[s] # "none" /\ del[s].pc = "idle"
  /\ crawl[s].pc = "waiting" /\ history[s] # "none" => del[s].pc = "idle"
  /\ del[s].pc \notin {"idle", "delete"} => history[s] = "none"

BusyHasHistory == \A s \in Searches : Held(s)

EarlyCall ==
  \A s \in Searches : call[s].pc \in {"idle", "keyword", "look"} =>
    history[s] = "none" /\ del[s].pc = "idle" /\ crawl[s].pc = "idle"

LinksKnown ==
  \A s \in Searches : del[s].pc = "delete" => \A i \in Ids : <<s, i>> \in links => i \in del[s].ids

Apart == ~overlap => BusyHasHistory /\ LinksKnown

StoreInv == TypeInv /\ UrlsAgree /\ EarlyCall /\ Apart /\ NoOrphans

LEMMA UrlsAgreeCrawl ==
  ASSUME StoreAssumption, TypeInv, UrlsAgree, NEW s \in Searches, CrawlStep(s)
  PROVE  UrlsAgree'
<1>1. /\ listing \in [Urls -> 0..MaxIds] /\ lastId \in Nat
      /\ \A u \in Urls : listing[u] \in Nat /\ listing[u] <= lastId
      /\ \A t \in Searches : crawl[t].pc \in Hand => crawl[t].url \in Urls
      /\ \A t \in Searches : crawl[t].pc \in Hand => crawl[t].id \in Nat /\ crawl[t].id # 0 /\ crawl[t].id <= lastId
  BY DEF TypeInv, TypeOK, Given, Places, Hand, WithId, StoreAssumption
<1>2. \A t \in Searches \ {s} : crawl'[t] = crawl[t]
  BY DEF CrawlStep, Moved
<1>3. CASE PlainStep(s) \/ LinkedStep(s)
  <2>1. crawl'[s].pc \notin Hand /\ listing' = listing
    BY <1>3 DEF PlainStep, LinkedStep, Still, Hand
  <2> QED BY <1>2, <2>1 DEF UrlsAgree, OneRow, RowOfHand, OneHand
<1>4. CASE FoundStep(s)
  <2>1. listing' = listing /\ crawl'[s].url \in Urls /\ crawl'[s].id = listing[crawl'[s].url] /\ crawl'[s].id # 0
    BY <1>4 DEF FoundStep, Still
  <2>2. OneRow'
    BY <2>1 DEF UrlsAgree, OneRow
  <2>3. RowOfHand'
    BY <1>2, <2>1 DEF UrlsAgree, OneRow, RowOfHand
  <2>4. OneHand'
    BY <1>1, <1>2, <2>1 DEF UrlsAgree, RowOfHand, OneHand
  <2> QED BY <2>2, <2>3, <2>4 DEF UrlsAgree
<1>5. CASE StoredStep(s)
  <2>1. crawl[s].pc \in Hand /\ crawl'[s].url = crawl[s].url /\ crawl'[s].id = crawl[s].id /\ crawl'[s].pc \in Hand
    BY <1>5 DEF StoredStep, SameListing, Hand
  <2>2. \A u \in Urls : listing'[u] = listing[u] \/ (u = crawl[s].url /\ listing'[u] = crawl[s].id)
    <3>1. crawl[s].url \in Urls
      BY <1>1, <2>1
    <3>2. CASE listing' = listing
      BY <3>2
    <3>3. CASE listing' = [listing EXCEPT ![crawl[s].url] = crawl[s].id]
      BY <1>1, <3>1, <3>3
    <3> QED BY <1>5, <3>2, <3>3 DEF StoredStep
  <2>3. OneRow'
    BY <2>1, <2>2 DEF UrlsAgree, OneRow, RowOfHand
  <2>4. RowOfHand'
    BY <1>2, <2>1, <2>2 DEF UrlsAgree, RowOfHand, OneHand
  <2>5. OneHand'
    BY <1>2, <2>1 DEF UrlsAgree, OneHand
  <2> QED BY <2>3, <2>4, <2>5 DEF UrlsAgree
<1>6. CASE InsertedStep(s)
  <2>1. crawl'[s].url = crawl[s].url /\ crawl'[s].id = lastId + 1
    BY <1>6 DEF InsertedStep
  <2>2. \A u \in Urls : IF u = crawl[s].url THEN listing'[u] = lastId + 1 ELSE listing'[u] = listing[u]
    BY <1>1, <1>6 DEF InsertedStep
  <2>3. OneRow'
    BY <1>1, <2>2 DEF UrlsAgree, OneRow
  <2>4. RowOfHand'
    BY <1>1, <1>2, <2>1, <2>2 DEF UrlsAgree, RowOfHand
  <2>5. OneHand'
    BY <1>1, <1>2, <2>1 DEF UrlsAgree, OneHand
  <2> QED BY <2>3, <2>4, <2>5 DEF UrlsAgree
<1> QED
  BY <1>3, <1>4, <1>5, <1>6 DEF CrawlStep, Step

LEMMA UrlsAgreeOther ==
  ASSUME TypeInv, UrlsAgree, crawl' = crawl \/ (\E s \in Searches : Call(s)),
         listing \in [Urls -> 0..MaxIds], \A u \in Urls : listing'[u] \in {0, listing[u]}
  PROVE  UrlsAgree'
<1>1. \A t \in Searches : crawl'[t].pc \in Hand => crawl'[t] = crawl[t]
  <2>1. CASE crawl' = crawl
    BY <2>1
  <2>2. ASSUME NEW s \in Searches, Call(s) PROVE \A t \in Searches : crawl'[t].pc \in Hand => crawl'[t] = crawl[t]
    <3>1. crawl' = crawl \/ crawl' = At(s, "waiting")
      BY <2>2 DEF Call, ReadKeyword, SaveKeyword, Hit, Miss, LinkCached, LinkCachedFails, Answer, At
    <3>2. CASE crawl' = At(s, "waiting")
      BY <3>2 DEF At, Hand, TypeInv, TypeOK, CrawlType
    <3> QED BY <3>1, <3>2
  <2> QED BY <2>1, <2>2
<1>2. \A t \in Searches : crawl[t].pc \in Hand => crawl[t].id # 0
  BY DEF TypeInv, Places, Hand, WithId
<1> QED
  BY <1>1, <1>2 DEF UrlsAgree, OneRow, RowOfHand, OneHand

\* What a step of the call of search does, as far as this is concerned.
LEMMA CallSteps ==
  ASSUME StoreAssumption, TypeInv, NEW s \in Searches, Call(s)
  PROVE  /\ UNCHANGED <<listing, del, overlap>>
         /\ call' \in [Searches -> CallType]
         /\ \A t \in Searches \ {s} : call'[t] = call[t] /\ history'[t] = history[t] /\ crawl'[t] = crawl[t]
         /\ crawl'[s] = crawl[s] \/ (call[s].pc = "look" /\ crawl'[s].pc = "waiting")
         /\ links' = links \/ (call[s].pc = "linking" /\ \E i \in Ids : links' = links \cup {<<s, i>>})
         /\ call'[s].pc \in {"idle", "keyword", "look"} =>
              (call[s].pc \in {"idle", "keyword"} /\ history' = history /\ crawl' = crawl)
         /\ call'[s].pc = "linking" =>
              \/ call[s].pc = "look" /\ history'[s] # "none" /\ crawl' = crawl
              \/ call[s].pc = "linking" /\ history' = history /\ crawl' = crawl
         /\ call'[s].pc \in {"done", "failed"} =>
              \/ history' = history /\ crawl' = crawl
              \/ call[s].pc = "look" /\ history'[s] # "none"
<1>1. /\ call \in [Searches -> CallType] /\ call[s] \in CallType /\ crawl \in [Searches -> CrawlType]
      /\ crawl[s] \in CrawlType /\ docs \subseteq Ids /\ history \in [Searches -> Statuses]
  BY DEF TypeInv, TypeOK, Statuses
<1>2. call' \in [Searches -> CallType]
  BY CallTypes DEF TypeInv, TypeOK
<1>3. CASE ReadKeyword(s)
  BY <1>1, <1>2, <1>3 DEF ReadKeyword, tables, ghosts, CallType
<1>4. CASE SaveKeyword(s)
  BY <1>1, <1>2, <1>4 DEF SaveKeyword, tables, ghosts, CallType
<1>5. CASE Hit(s)
  BY <1>1, <1>2, <1>5 DEF Hit, tables, ghosts, CallType, Statuses
<1>6. CASE Miss(s)
  <2>1. call'[s].pc = "done" /\ call[s].pc = "look" /\ UNCHANGED <<listing, links, del, overlap>>
    BY <1>1, <1>6 DEF Miss, ghosts, CallType
  <2>2. history'[s] # "none" /\ \A t \in Searches \ {s} : history'[t] = history[t]
    BY <1>1, <1>6 DEF Miss, Statuses
  <2>3. \A t \in Searches \ {s} : call'[t] = call[t] /\ crawl'[t] = crawl[t]
    BY <1>1, <1>6 DEF Miss
  <2>4. crawl'[s] = crawl[s] \/ crawl'[s].pc = "waiting"
    BY <1>1, <1>6 DEF Miss, CrawlType
  <2> QED BY <1>2, <2>1, <2>2, <2>3, <2>4
<1>7. CASE LinkCached(s)
  <2>1. PICK i \in call[s].todo :
          /\ links' = IF Row(i) THEN links \cup {<<s, i>>} ELSE links
          /\ call' = [call EXCEPT ![s].todo = @ \ {i}]
    BY <1>7 DEF LinkCached
  <2>2. i \in Ids
    BY <1>1 DEF CallType
  <2>3. call'[s].pc = "linking" /\ call[s].pc = "linking" /\ \A t \in Searches \ {s} : call'[t] = call[t]
    BY <1>1, <1>7, <2>1 DEF CallType, LinkCached
  <2>4. UNCHANGED <<history, listing, del, crawl, overlap>>
    BY <1>7 DEF LinkCached
  <2>5. links' = links \/ links' = links \cup {<<s, i>>}
    BY <2>1
  <2> QED BY <1>2, <2>2, <2>3, <2>4, <2>5
<1>8. CASE LinkCachedFails(s)
  BY <1>1, <1>2, <1>8 DEF LinkCachedFails, tables, ghosts, CallType
<1>9. CASE Answer(s)
  BY <1>1, <1>2, <1>9 DEF Answer, tables, ghosts, CallType
<1> QED
  BY <1>3, <1>4, <1>5, <1>6, <1>7, <1>8, <1>9 DEF Call

\* A step of a crawl begins busy, and only the crawl's own record and history change.
LEMMA CrawlBusy ==
  ASSUME StoreAssumption, TypeInv, NEW s \in Searches, Crawl(s), CrawlStep(s)
  PROVE  /\ Busy(s) /\ crawl[s].pc # "idle" /\ UNCHANGED <<call, del, overlap>>
         /\ \A t \in Searches \ {s} : history'[t] = history[t] /\ crawl'[t] = crawl[t]
         /\ history' = history \/ history'[s] # "none"
         /\ links' = links \/ \E i \in Ids : links' = links \cup {<<s, i>>}
         /\ \/ Executing(s)
            \/ /\ crawl[s].pc = "waiting" /\ history' = history /\ links' = links
               /\ crawl'[s].pc = IF history[s] = "none" THEN "thrown" ELSE "mark"
         /\ \A i \in dropped \ dropped' : s \in LinkedBy(i)'
<1>1. Busy(s) /\ crawl[s].pc # "idle"
  BY DEF Crawl, Load, MarkRunning, Visit, VisitFails, Lookup, SaveListing, InsertListing, SaveImage,
         ListingRefused, Link, LinkFails, Index, RecordAttempt, Finish, Busy, Executing
<1>2. UNCHANGED <<call, del, overlap>>
  BY CrawlAlone
<1>3. history \in [Searches -> Statuses]
  BY DEF TypeInv, TypeOK, Statuses
<1>4. history' = history \/ \E h \in Statuses \ {"none"} : history' = [history EXCEPT ![s] = h]
  BY DEF CrawlStep, Step, PlainStep, FoundStep, StoredStep, InsertedStep, LinkedStep
<1>5. links' = links \/ LinkedStep(s)
  BY DEF CrawlStep, Step, PlainStep, FoundStep, StoredStep, InsertedStep, Still
<1>6. links' = links \/ \E i \in Ids : links' = links \cup {<<s, i>>}
  <2>1. LinkedStep(s) => crawl[s].id \in Ids
    BY CrawlIdKnown DEF LinkedStep, WithId
  <2> QED BY <1>5, <2>1 DEF LinkedStep
<1>7. \/ Executing(s)
      \/ /\ crawl[s].pc = "waiting" /\ history' = history /\ links' = links
         /\ crawl'[s].pc = IF history[s] = "none" THEN "thrown" ELSE "mark"
  <2>1. Executing(s) \/ Load(s)
    BY DEF Crawl, Load, MarkRunning, Visit, VisitFails, Lookup, SaveListing, InsertListing, SaveImage,
         ListingRefused, Link, LinkFails, Index, RecordAttempt, Finish, Executing
  <2>2. Load(s) => crawl'[s].pc = IF history[s] = "none" THEN "thrown" ELSE "mark"
    BY DEF Load, At, TypeInv, TypeOK, CrawlType
  <2> QED BY <2>1, <2>2 DEF Load, tables
<1>8. \A i \in dropped \ dropped' : s \in LinkedBy(i)'
  <2>1. Link(s) \/ dropped' = dropped
    BY DEF Crawl, Load, MarkRunning, Visit, VisitFails, Lookup, SaveListing, InsertListing, SaveImage,
         ListingRefused, LinkFails, Index, RecordAttempt, Finish, ghosts
  <2> QED BY <2>1 DEF Link, LinkedBy
<1> QED
  BY <1>1, <1>2, <1>3, <1>4, <1>5, <1>6, <1>7, <1>8 DEF CrawlStep, Moved

LEMMA CallSafe ==
  ASSUME StoreAssumption, StoreInv, NEW s \in Searches, Call(s)
  PROVE  EarlyCall' /\ Apart' /\ NoOrphans'
<1>1. /\ UNCHANGED <<listing, del, overlap>>
      /\ call' \in [Searches -> CallType]
      /\ \A t \in Searches \ {s} : call'[t] = call[t] /\ history'[t] = history[t] /\ crawl'[t] = crawl[t]
      /\ crawl'[s] = crawl[s] \/ (call[s].pc = "look" /\ crawl'[s].pc = "waiting")
      /\ links' = links \/ (call[s].pc = "linking" /\ \E i \in Ids : links' = links \cup {<<s, i>>})
      /\ call'[s].pc \in {"idle", "keyword", "look"} =>
           (call[s].pc \in {"idle", "keyword"} /\ history' = history /\ crawl' = crawl)
      /\ call'[s].pc = "linking" =>
           \/ call[s].pc = "look" /\ history'[s] # "none" /\ crawl' = crawl
           \/ call[s].pc = "linking" /\ history' = history /\ crawl' = crawl
      /\ call'[s].pc \in {"done", "failed"} =>
           \/ history' = history /\ crawl' = crawl
           \/ call[s].pc = "look" /\ history'[s] # "none"
  BY CallSteps DEF StoreInv
<1>2. call'[s].pc \in {"idle", "keyword", "look", "linking", "done", "failed"}
  BY <1>1 DEF CallType
<1>3. EarlyCall'
  BY <1>1 DEF StoreInv, EarlyCall
<1>4. ~overlap => BusyHasHistory'
  <2>1. SUFFICES ASSUME ~overlap, NEW t \in Searches PROVE Held(t)'
    BY <1>1 DEF BusyHasHistory
  <2>2. CASE t # s
    BY <1>1, <2>1, <2>2 DEF StoreInv, Apart, BusyHasHistory, Held, Executing
  <2>3. CASE t = s
    <3>1. call[s].pc = "look" => del[s].pc = "idle" /\ crawl[s].pc = "idle"
      BY DEF StoreInv, EarlyCall
    <3>2. Held(s)
      BY <2>1 DEF StoreInv, Apart, BusyHasHistory
    <3>3. CASE call'[s].pc \in {"idle", "keyword", "look"}
      BY <1>1, <2>1, <2>3, <3>2, <3>3 DEF Held, Executing
    <3>4. CASE call'[s].pc = "linking"
      BY <1>1, <3>1, <3>2, <3>4, <2>3 DEF Held, Executing
    <3>5. CASE call'[s].pc \in {"done", "failed"}
      BY <1>1, <2>1, <2>3, <3>1, <3>2, <3>5 DEF Held, Executing
    <3> QED BY <1>2, <3>3, <3>4, <3>5
  <2> QED BY <2>2, <2>3
<1>5. ~overlap => LinksKnown'
  <2>1. ~overlap /\ call[s].pc = "linking" => del[s].pc = "idle"
    BY DEF StoreInv, Apart, BusyHasHistory, Held
  <2> QED BY <1>1, <2>1 DEF StoreInv, Apart, LinksKnown
<1>6. NoOrphans'
  <2>1. \A i \in Ids : Row(i)' = Row(i) /\ LinkedBy(i) \subseteq LinkedBy(i)'
    BY <1>1 DEF Row, LinkedBy
  <2>2. \A i \in Ids : InHand(i) => InHand(i)'
    <3>1. call[s].pc = "look" => crawl[s].pc = "idle"
      BY DEF StoreInv, EarlyCall
    <3> QED BY <1>1, <3>1 DEF InHand
  <2>3. \A i \in dropped \ dropped' : LinkedBy(i)' # {}
    <3>1. LinkCached(s) \/ dropped' = dropped
      BY DEF Call, ReadKeyword, SaveKeyword, Hit, Miss, LinkCachedFails, Answer, ghosts
    <3> QED BY <3>1 DEF LinkCached, LinkedBy
  <2> QED BY <1>1, <2>1, <2>2, <2>3 DEF StoreInv, NoOrphans
<1> QED
  BY <1>1, <1>3, <1>4, <1>5, <1>6 DEF Apart

LEMMA CrawlSafe ==
  ASSUME StoreAssumption, StoreInv, NEW s \in Searches, Crawl(s), CrawlStep(s)
  PROVE  EarlyCall' /\ Apart' /\ NoOrphans'
<1>1. /\ Busy(s) /\ crawl[s].pc # "idle" /\ UNCHANGED <<call, del, overlap>>
      /\ \A t \in Searches \ {s} : history'[t] = history[t] /\ crawl'[t] = crawl[t]
      /\ history' = history \/ history'[s] # "none"
      /\ links' = links \/ \E i \in Ids : links' = links \cup {<<s, i>>}
      /\ \/ Executing(s)
         \/ /\ crawl[s].pc = "waiting" /\ history' = history /\ links' = links
            /\ crawl'[s].pc = IF history[s] = "none" THEN "thrown" ELSE "mark"
      /\ \A i \in dropped \ dropped' : s \in LinkedBy(i)'
  BY CrawlBusy DEF StoreInv
<1>2. EarlyCall'
  BY <1>1 DEF StoreInv, EarlyCall
<1>3. ~overlap /\ Executing(s) => history[s] # "none" /\ del[s].pc = "idle"
  BY DEF StoreInv, Apart, BusyHasHistory, Held
<1>4. ~overlap => BusyHasHistory'
  <2>1. SUFFICES ASSUME ~overlap, NEW t \in Searches PROVE Held(t)'
    BY <1>1 DEF BusyHasHistory
  <2>2. Held(t) /\ Held(s)
    BY <2>1 DEF StoreInv, Apart, BusyHasHistory
  <2>3. CASE t # s
    BY <1>1, <2>2, <2>3 DEF Held, Executing
  <2>4. CASE t = s /\ Executing(s)
    BY <1>1, <1>3, <2>1, <2>4 DEF Held
  <2>5. CASE t = s /\ crawl[s].pc = "waiting"
    BY <1>1, <2>2, <2>5 DEF Held, Executing
  <2> QED BY <1>1, <2>3, <2>4, <2>5
<1>5. ~overlap => LinksKnown'
  BY <1>1, <1>3 DEF StoreInv, Apart, LinksKnown
<1>6. ASSUME ~overlap, NEW i \in Ids \ dropped', Row(i)' PROVE (LinkedBy(i) # {} \/ InHand(i))'
  <2>0. CASE i \in dropped
    BY <1>1, <2>0
  <2> SUFFICES ASSUME i \notin dropped PROVE (LinkedBy(i) # {} \/ InHand(i))'
    BY <2>0
  <2>1. LinkedBy(i) \subseteq LinkedBy(i)'
    BY <1>1 DEF LinkedBy
  <2>2. Row(i) => LinkedBy(i) # {} \/ InHand(i)
    BY <1>6 DEF StoreInv, NoOrphans
  <2>3. ASSUME NEW t \in Searches, del[t].pc = "check", i \in del[t].ids \cup del[t].orphans PROVE InHand(i)'
    BY <1>1, <2>3 DEF InHand
  <2>4. ASSUME NEW t \in Searches \ {s}, crawl[t].pc \in {"image", "link"}, crawl[t].id = i PROVE InHand(i)'
    BY <1>1, <2>4 DEF InHand
  <2>5. ASSUME crawl'[s].pc \in {"image", "link"}, crawl'[s].id = i PROVE InHand(i)'
    BY <2>5 DEF InHand
  <2>6. CASE PlainStep(s)
    <3>1. listing' = listing /\ links' = links
      BY <2>6 DEF PlainStep, Still
    <3>2. Row(i) /\ i # 0
      BY <1>6, <3>1 DEF Row, Ids
    <3>3. crawl[s].pc \in {"image", "link"} => crawl[s].id # i
      <4>1. SUFFICES ASSUME crawl[s].pc \in {"image", "link"}, crawl[s].id = i PROVE FALSE
        OBVIOUS
      <4>2. crawl[s].pc = "link" /\ listing[crawl[s].url] # crawl[s].id
        BY <1>3, <1>6, <2>6, <4>1 DEF PlainStep, LinkHolds, Executing
      <4>3. PICK u \in Urls : listing[u] = i
        BY <3>2 DEF Row
      <4>4. u = crawl[s].url
        BY <4>1, <4>2, <4>3 DEF StoreInv, UrlsAgree, RowOfHand, Hand
      <4> QED BY <4>1, <4>2, <4>3, <4>4
    <3> QED BY <2>1, <2>2, <2>3, <2>4, <3>2, <3>3 DEF InHand
  <2>7. CASE FoundStep(s)
    BY <1>6, <2>1, <2>2, <2>3, <2>4, <2>7 DEF FoundStep, Still, Row, InHand
  <2>8. CASE StoredStep(s)
    <3>1. crawl'[s].pc = "link" /\ crawl'[s].id = crawl[s].id
      BY <2>8 DEF StoredStep, SameListing
    <3>2. Row(i) \/ crawl[s].id = i
      <4>1. listing \in [Urls -> 0..MaxIds]
        BY DEF StoreInv, TypeInv, TypeOK
      <4> QED BY <1>6, <2>8, <4>1 DEF StoredStep, Row
    <3> QED BY <2>1, <2>2, <2>3, <2>4, <2>5, <3>1, <3>2 DEF InHand
  <2>9. CASE InsertedStep(s)
    <3>1. crawl'[s].pc \in {"image", "link"} /\ crawl'[s].id = lastId + 1 /\ crawl[s].pc = "insert"
      BY <2>9 DEF InsertedStep
    <3>2. Row(i) \/ lastId + 1 = i
      <4>1. listing \in [Urls -> 0..MaxIds]
        BY DEF StoreInv, TypeInv, TypeOK
      <4> QED BY <1>6, <2>9, <4>1 DEF InsertedStep, Row
    <3> QED BY <2>1, <2>2, <2>3, <2>4, <2>5, <3>1, <3>2 DEF InHand
  <2>10. CASE LinkedStep(s)
    <3>1. Row(i)
      BY <1>6, <2>10 DEF LinkedStep, Row
    <3>2. crawl[s].id = i => s \in LinkedBy(i)'
      BY <2>10 DEF LinkedStep, LinkedBy
    <3> QED BY <2>1, <2>2, <2>3, <2>4, <3>1, <3>2 DEF InHand
  <2> QED BY <2>6, <2>7, <2>8, <2>9, <2>10 DEF CrawlStep, Step
<1> QED
  BY <1>1, <1>2, <1>4, <1>5, <1>6 DEF Apart, NoOrphans

LEMMA DelSafe ==
  ASSUME StoreAssumption, StoreInv, NEW s \in Searches, ReadLinks(s) \/ Delete(s), DelStep(s)
  PROVE  UrlsAgree' /\ EarlyCall' /\ Apart' /\ NoOrphans'
<1>1. /\ UNCHANGED <<lastId, call, crawl, dropped>> /\ listing \in [Urls -> 0..MaxIds]
      /\ history \in [Searches -> Statuses] /\ links \subseteq Searches \X Ids
      /\ overlap \in BOOLEAN /\ del \in [Searches -> DelType]
  BY DEF ReadLinks, Delete, DeleteHistory, CheckOrphan, Purge, Unindex, CountHistories, DeleteKeyword,
         tables, ghosts, StoreInv, TypeInv, TypeOK, Statuses
<1>2. \A t \in Searches \ {s} : del'[t] = del[t]
  BY DEF DelStep
<1>3. \A u \in Urls : listing'[u] \in {0, listing[u]}
  BY <1>1 DEF ReadLinks, Delete, DeleteHistory, CheckOrphan, Purge, Unindex, CountHistories, DeleteKeyword, tables
<1>4. UrlsAgree'
  BY <1>1, <1>3, UrlsAgreeOther DEF StoreInv
<1>5. links' \subseteq links
  BY DEF ReadLinks, Delete, DeleteHistory, CheckOrphan, Purge, Unindex, CountHistories, DeleteKeyword, tables
<1>6. /\ ReadLinks(s) => del[s].pc = "idle" /\ history[s] # "none" /\ (~overlap' => ~overlap /\ ~Busy(s))
      /\ Delete(s) => del[s].pc # "idle" /\ overlap' = overlap
  BY DEF ReadLinks, Delete, DeleteHistory, CheckOrphan, Purge, Unindex, CountHistories, DeleteKeyword, ghosts
<1>7. history' = history \/ (DeleteHistory(s) /\ history' = [history EXCEPT ![s] = "none"])
  BY DEF ReadLinks, Delete, DeleteHistory, CheckOrphan, Purge, Unindex, CountHistories, DeleteKeyword, tables
<1>8. EarlyCall'
  <2>1. call[s].pc \notin {"idle", "keyword", "look"}
    BY <1>6 DEF StoreInv, EarlyCall
  <2> QED BY <1>1, <1>2, <1>7, <2>1 DEF StoreInv, EarlyCall
<1>9. ~overlap' => ~overlap /\ call[s].pc # "linking" /\ ~Executing(s)
  BY <1>6 DEF StoreInv, Apart, BusyHasHistory, Held, Busy
<1>10. ~overlap' => BusyHasHistory'
  <2>1. SUFFICES ASSUME ~overlap', NEW t \in Searches PROVE Held(t)'
    BY DEF BusyHasHistory
  <2>2. Held(t) /\ Held(s)
    BY <1>9, <2>1 DEF StoreInv, Apart, BusyHasHistory
  <2>3. CASE t # s
    BY <1>1, <1>2, <1>7, <2>2, <2>3 DEF Held, Executing
  <2>4. CASE t = s /\ ReadLinks(s)
    <3>1. del'[s].pc = "delete" /\ history' = history /\ ~Busy(s)
      BY <1>6, <2>1, <2>4 DEF ReadLinks, DelType, tables, StoreInv, TypeInv, TypeOK
    <3> QED BY <1>1, <1>9, <2>1, <2>4, <3>1 DEF Held, Executing, Busy
  <2>5. CASE t = s /\ DeleteHistory(s)
    BY <1>1, <1>9, <2>1, <2>5 DEF DeleteHistory, Held, Executing
  <2>6. CASE t = s /\ Delete(s) /\ ~DeleteHistory(s)
    <3>1. history' = history /\ del[s].pc \notin {"idle", "delete"}
      BY <1>7, <2>6 DEF Delete, DeleteHistory, CheckOrphan, Purge, Unindex, CountHistories, DeleteKeyword
    <3> QED BY <1>1, <1>9, <2>1, <2>2, <2>6, <3>1 DEF Held, Executing
  <2> QED BY <2>3, <2>4, <2>5, <2>6
<1>11. ~overlap' => LinksKnown'
  <2>1. del'[s].pc = "delete" => ReadLinks(s) /\ del'[s].ids = {i \in Ids : <<s, i>> \in links}
    BY DEF DelStep
  <2> QED BY <1>2, <1>5, <1>9, <2>1 DEF StoreInv, Apart, LinksKnown
<1>12. ASSUME ~overlap', NEW i \in Ids \ dropped, Row(i)' PROVE (LinkedBy(i) # {} \/ InHand(i))'
  <2>1. Row(i) /\ i # 0 /\ ~overlap
    BY <1>3, <1>9, <1>12 DEF Row, Ids
  <2>2. LinkedBy(i) # {} \/ InHand(i)
    BY <2>1 DEF StoreInv, NoOrphans
  <2>3. ASSUME NEW t \in Searches, crawl[t].pc \in {"image", "link"}, crawl[t].id = i PROVE InHand(i)'
    BY <1>1, <2>3 DEF InHand
  <2>4. ASSUME NEW t \in Searches \ {s}, del[t].pc = "check", i \in del[t].ids \cup del[t].orphans PROVE InHand(i)'
    BY <1>2, <2>4 DEF InHand
  <2>5. ASSUME del'[s].pc = "check", i \in del'[s].ids \cup del'[s].orphans PROVE InHand(i)'
    BY <2>5 DEF InHand
  <2>6. CASE DeleteHistory(s)
    <3>1. del'[s].pc = "check" /\ del'[s].ids = del[s].ids /\ del[s].pc = "delete"
      BY <2>6 DEF DelStep, DeleteHistory, ReadLinks, CheckOrphan, Purge, Unindex, CountHistories, DeleteKeyword
    <3>2. <<s, i>> \in links => i \in del'[s].ids
      BY <2>1, <3>1 DEF StoreInv, Apart, LinksKnown
    <3>3. ASSUME NEW t \in Searches \ {s}, <<t, i>> \in links PROVE LinkedBy(i)' # {}
      BY <2>6, <3>3 DEF DeleteHistory, LinkedBy
    <3> QED BY <2>2, <2>3, <2>4, <2>5, <3>1, <3>2, <3>3 DEF InHand, LinkedBy
  <2>7. CASE CheckOrphan(s)
    <3>1. links' = links /\ del[s].pc = "check"
      BY <2>7 DEF CheckOrphan, tables
    <3>2. PICK j \in del[s].ids : /\ del'[s].pc = "check" /\ del'[s].ids = del[s].ids \ {j}
                                 /\ del'[s].orphans = IF Orphan(j) THEN del[s].orphans \cup {j} ELSE del[s].orphans
      BY <2>7 DEF DelStep, DeleteHistory, ReadLinks, CheckOrphan, Purge, Unindex, CountHistories, DeleteKeyword
    <3>3. CASE LinkedBy(i) # {}
      BY <3>1, <3>3 DEF LinkedBy
    <3>4. CASE LinkedBy(i) = {}
      <4>1. i \in del[s].ids \cup del[s].orphans => i \in del'[s].ids \cup del'[s].orphans
        BY <3>2, <3>4 DEF Orphan
      <4> QED BY <2>2, <2>3, <2>4, <2>5, <3>2, <3>4, <4>1 DEF InHand
    <3> QED BY <3>3, <3>4
  <2>8. CASE Purge(s)
    <3>1. i \notin del[s].orphans
      BY <1>1, <1>12, <2>1, <2>8 DEF Purge, Row
    <3>2. del[s].ids = {} /\ links' = {p \in links : p[2] \notin del[s].orphans}
      BY <2>8 DEF Purge
    <3>3. LinkedBy(i) \subseteq LinkedBy(i)'
      BY <3>1, <3>2 DEF LinkedBy
    <3> QED BY <2>2, <2>3, <2>4, <3>1, <3>2, <3>3 DEF InHand
  <2>9. CASE ReadLinks(s) \/ Unindex(s) \/ CountHistories(s) \/ DeleteKeyword(s)
    <3>1. links' = links
      BY <2>9 DEF ReadLinks, Unindex, CountHistories, DeleteKeyword, tables
    <3>2. ~(del[s].pc = "check" /\ i \in del[s].ids \cup del[s].orphans)
      BY <2>9 DEF ReadLinks, Unindex, CountHistories, DeleteKeyword
    <3> QED BY <2>2, <2>3, <2>4, <3>1, <3>2 DEF InHand, LinkedBy
  <2> QED BY <2>6, <2>7, <2>8, <2>9 DEF Delete
<1> QED
  BY <1>1, <1>4, <1>8, <1>10, <1>11, <1>12 DEF Apart, NoOrphans

LEMMA AgainSafe ==
  ASSUME StoreAssumption, StoreInv, NEW s \in Searches, Again(s)
  PROVE  UrlsAgree' /\ EarlyCall' /\ Apart' /\ NoOrphans'
<1>1. /\ \A t \in Searches \ {s} : crawl'[t] = crawl[t]
      /\ crawl'[s].pc = "waiting" /\ UNCHANGED <<tables, call, del>>
  BY AnewIs DEF StoreInv
<1>2. /\ crawl[s].pc \notin {"idle", "waiting"} /\ dropped' = dropped \cup Unlinked(s)
      /\ ~overlap' => ~overlap /\ del[s].pc # "delete"
  BY DEF Again
<1>3. UrlsAgree'
  BY <1>1 DEF StoreInv, UrlsAgree, OneRow, RowOfHand, OneHand, Hand, tables
<1>4. EarlyCall'
  BY <1>1, <1>2 DEF StoreInv, EarlyCall, tables
<1>5. ~overlap' => BusyHasHistory'
  BY <1>1, <1>2 DEF StoreInv, Apart, BusyHasHistory, Held, Executing, tables
<1>6. ~overlap' => LinksKnown'
  BY <1>1, <1>2 DEF StoreInv, Apart, LinksKnown, tables
<1>7. ASSUME ~overlap', NEW i \in Ids \ dropped', Row(i)' PROVE (LinkedBy(i) # {} \/ InHand(i))'
  <2>1. LinkedBy(i)' = LinkedBy(i) /\ (LinkedBy(i) # {} \/ InHand(i))
    BY <1>1, <1>2, <1>7 DEF StoreInv, NoOrphans, Row, LinkedBy, tables
  <2>2. CASE crawl[s].pc \in {"image", "link"} /\ crawl[s].id = i
    BY <1>2, <1>7, <2>1, <2>2 DEF Unlinked
  <2>3. CASE ~(crawl[s].pc \in {"image", "link"} /\ crawl[s].id = i)
    BY <1>1, <2>1, <2>3 DEF InHand
  <2> QED BY <2>2, <2>3
<1> QED
  BY <1>3, <1>4, <1>5, <1>6, <1>7 DEF Apart, NoOrphans

LEMMA StoreInit == ASSUME StoreAssumption, Init PROVE StoreInv
<1>1. TypeInv
  BY TypeInit
<1>2. NoCrawl.pc = "idle" /\ NoDel.pc = "idle" /\ NoCall.pc = "idle"
  BY DEF NoCrawl, NoDel, NoCall
<1>3. \A s \in Searches : crawl[s] = NoCrawl /\ del[s] = NoDel /\ call[s] = NoCall /\ history[s] = "none"
  BY DEF Init
<1>4. UrlsAgree
  BY <1>2, <1>3 DEF Init, UrlsAgree, OneRow, RowOfHand, OneHand, Hand
<1>5. EarlyCall /\ Apart
  BY <1>2, <1>3 DEF EarlyCall, Apart, BusyHasHistory, Held, LinksKnown, Executing
<1>6. NoOrphans
  BY DEF Init, NoOrphans, Row, Ids
<1> QED
  BY <1>1, <1>4, <1>5, <1>6 DEF StoreInv

LEMMA StoreNext == ASSUME StoreAssumption, StoreInv, [Next]_vars PROVE StoreInv'
<1>1. TypeInv'
  BY TypeNext DEF StoreInv
<1>2. CASE UNCHANGED vars
  BY <1>1, <1>2 DEF vars, tables, ghosts, StoreInv, UrlsAgree, OneRow, RowOfHand, OneHand, EarlyCall, Apart,
     BusyHasHistory, Held, LinksKnown, Executing, NoOrphans, Row, LinkedBy, InHand
<1>3. ASSUME NEW s \in Searches, Call(s) PROVE StoreInv'
  <2>1. listing' = listing /\ listing \in [Urls -> 0..MaxIds]
    BY <1>3, CallSteps DEF StoreInv, TypeInv, TypeOK
  <2>2. UrlsAgree'
    BY <1>3, <2>1, UrlsAgreeOther DEF StoreInv
  <2> QED BY <1>1, <1>3, <2>2, CallSafe DEF StoreInv
<1>4. ASSUME NEW s \in Searches, Crawl(s) PROVE StoreInv'
  BY <1>1, <1>4, CrawlSteps, UrlsAgreeCrawl, CrawlSafe DEF StoreInv
<1>5. ASSUME NEW s \in Searches, ReadLinks(s) \/ Delete(s) PROVE StoreInv'
  BY <1>1, <1>5, DelSteps, DelSafe DEF StoreInv
<1>6. ASSUME NEW s \in Searches, Again(s) PROVE StoreInv'
  BY <1>1, <1>6, AgainSafe DEF StoreInv
<1> QED
  BY <1>2, <1>3, <1>4, <1>5, <1>6 DEF Next

\* Unless a search is deleted while it is filled, deletions leave no listing without a search:
\* whatever number of searches share it, are crawled, linked to it and deleted at once, whichever
\* of their steps fail and however often a crawl is executed again, one execution after the other.
\* Only a listing that an execution saved and was cut off before linking may stand alone.
THEOREM NoneOrphaned == ASSUME StoreAssumption PROVE Spec => []NoOrphans
<1>1. Init => StoreInv
  BY StoreInit
<1>2. StoreInv /\ [Next]_vars => StoreInv'
  BY StoreNext
<1>3. StoreInv => NoOrphans
  BY DEF StoreInv
<1> QED
  BY <1>1, <1>2, <1>3, PTL DEF Spec

-----------------------------------------------------------------------------
(* What a search's status tells *)

Begun == AtSite \cup {"site", "over"}
Holding == {"save", "insert", "image", "link"}

\* A crawl visits the sites in order, and knows those that failed.
InOrder(s) ==
  /\ crawl[s].pc \in {"site"} \cup (AtSite \ {"attempt"}) => \A n \in crawl[s].failed : n < crawl[s].site
  /\ crawl[s].pc = "attempt" =>
       crawl[s].site \in crawl[s].failed /\ \A n \in crawl[s].failed : n <= crawl[s].site
  /\ crawl[s].pc = "over" => crawl[s].site = Sites + 1
  /\ crawl[s].pc \in {"site", "attempt", "over"} => crawl[s].todo = {}
  /\ crawl[s].pc = "insert" => crawl[s].id = 0
  /\ crawl[s].pc \in {"idle", "waiting", "mark"} =>
       crawl[s].todo = {} /\ crawl[s].got = {} /\ crawl[s].failed = {} /\ ~crawl[s].saved

\* The rows of the search's last execution.
OfLast(s, a) == a.search = s /\ a.run = crawl[s].run

\* The last execution has recorded one attempt for each site that it visited, with its error.
AttemptsTell(s) ==
  /\ \A n \in 1..Sites : n < crawl[s].site <=> \E a \in attempts : OfLast(s, a) /\ a.site = n
  /\ \A a \in attempts : OfLast(s, a) => (a.error <=> a.site \in crawl[s].failed)

OncePerRun(s) ==
  \A a, b \in attempts : a.search = s /\ b.search = s /\ a.run = b.run /\ a.site = b.site => a = b

Recorded(s) ==
  /\ crawl[s].run <= again /\ \A a \in attempts : a.search = s => a.run <= again
  /\ crawl[s].pc \in {"idle", "waiting", "mark"} => \A a \in attempts : ~OfLast(s, a)
  /\ crawl[s].pc \in Begun /\ history[s] # "none" /\ ~overlap => AttemptsTell(s)
  /\ ~overlap => OncePerRun(s)

Closed(s) == crawl[s].pc = "over" /\ history[s] # "none" => history[s] = Outcome(crawl[s])

\* What was found is still to come, in hand or linked, unless a site failed.
Shown(s) ==
  ~raced /\ ~overlap /\ history[s] # "none" /\ crawl[s].pc \in Begun =>
    /\ crawl[s].failed = {} =>
         \A u \in crawl[s].got : u \in crawl[s].todo \/ (crawl[s].pc \in Holding /\ u = crawl[s].url) \/ Linked(s, u)
    /\ crawl[s].saved \/ crawl[s].pc = "index" => \E u \in Urls : Linked(s, u)

LinkNone(s) == \A i \in Ids : <<s, i>> \notin links

\* Before it has saved its first listing, an execution finds only links of earlier ones.
NoneLinked(s) ==
  /\ call[s].pc \in {"idle", "keyword", "look"} => LinkNone(s)
  /\ call[s].pc = "linking" => crawl[s].pc = "idle"
  /\ crawl[s].pc \in {"waiting", "mark"} \/ (crawl[s].pc \in Begun \ {"index"} /\ ~crawl[s].saved) =>
       LinksOf(s) \subseteq crawl[s].before

\* What a deletion has condemned is linked by none, unless a link was faster.
Condemning(s) ==
  /\ del[s].pc = "delete" => del[s].orphans = {}
  /\ ~raced /\ del[s].pc = "check" => \A t \in Searches : \A i \in del[s].orphans : <<t, i>> \notin links

Told(s) == InOrder(s) /\ Recorded(s) /\ Closed(s) /\ Shown(s) /\ NoneLinked(s) /\ Condemning(s)

ToldInv == StoreInv /\ \A s \in Searches : Told(s)

\* What a step of a crawl does to what the crawl knows.
Unmoved(s) ==
  /\ crawl'[s].site = crawl[s].site /\ crawl'[s].got = crawl[s].got
  /\ crawl'[s].failed = crawl[s].failed /\ crawl'[s].saved = crawl[s].saved

Knows(s) ==
  \/ /\ crawl[s].pc = "waiting" /\ crawl'[s].pc \in {"thrown", "mark"} /\ Unmoved(s)
     /\ crawl'[s].todo = crawl[s].todo
  \/ /\ crawl[s].pc = "mark" /\ crawl'[s].pc = "site" /\ crawl'[s].site = 1 /\ crawl'[s].saved = crawl[s].saved
     /\ crawl'[s].todo = crawl[s].todo /\ crawl'[s].got = crawl[s].got /\ crawl'[s].failed = crawl[s].failed
  \/ /\ crawl[s].pc = "site" /\ crawl'[s].pc = "listings" /\ crawl'[s].got = crawl[s].got \cup crawl'[s].todo
     /\ crawl'[s].site = crawl[s].site /\ crawl'[s].failed = crawl[s].failed /\ crawl'[s].saved = crawl[s].saved
  \/ /\ crawl[s].pc \in {"site", "save", "insert", "link"} /\ crawl'[s].pc = "attempt"
     /\ crawl'[s].todo = {} /\ crawl'[s].failed = crawl[s].failed \cup {crawl[s].site}
     /\ crawl'[s].site = crawl[s].site /\ crawl'[s].saved = crawl[s].saved
  \/ /\ crawl[s].pc = "listings" /\ crawl'[s].pc \in {"insert", "save"} /\ Unmoved(s)
     /\ crawl'[s].todo = crawl[s].todo \ {crawl'[s].url} /\ (crawl'[s].pc = "insert" => crawl'[s].id = 0)
  \/ /\ crawl[s].pc \in {"save", "image"} /\ crawl'[s].pc = "link" /\ Unmoved(s)
     /\ crawl'[s].url = crawl[s].url /\ crawl'[s].todo = crawl[s].todo
  \/ /\ crawl[s].pc = "insert" /\ crawl'[s].pc \in {"image", "link"} /\ Unmoved(s)
     /\ crawl'[s].url = crawl[s].url /\ crawl'[s].todo = crawl[s].todo
  \/ /\ crawl[s].pc = "link" /\ crawl'[s].pc = "index" /\ Unmoved(s) /\ crawl'[s].todo = crawl[s].todo
     /\ LinkHolds(s) /\ links' = links \cup {<<s, crawl[s].id>>}
  \/ /\ crawl[s].pc = "index" /\ crawl'[s].pc = "listings" /\ crawl'[s].todo = crawl[s].todo /\ crawl'[s].saved
     /\ crawl'[s].site = crawl[s].site /\ crawl'[s].got = crawl[s].got /\ crawl'[s].failed = crawl[s].failed
  \/ /\ crawl[s].pc = "attempt" \/ (crawl[s].pc = "listings" /\ crawl[s].todo = {})
     /\ RecordAttempt(s) /\ crawl'[s].pc = "site" /\ crawl'[s].site = crawl[s].site + 1 /\ crawl'[s].todo = crawl[s].todo
     /\ crawl'[s].got = crawl[s].got /\ crawl'[s].failed = crawl[s].failed /\ crawl'[s].saved = crawl[s].saved
  \/ /\ crawl[s].pc = "site" /\ crawl[s].site > Sites /\ crawl'[s].pc = "over" /\ Unmoved(s)
     /\ crawl'[s].todo = crawl[s].todo /\ history' = [history EXCEPT ![s] = Outcome(crawl[s])]

LEMMA CrawlKnows ==
  ASSUME StoreAssumption, TypeInv, NEW s \in Searches, Crawl(s)
  PROVE  Knows(s)
<1>1. crawl \in [Searches -> CrawlType] /\ crawl[s] \in CrawlType
  BY DEF TypeInv, TypeOK
<1>2. CASE Load(s)
  BY <1>1, <1>2 DEF Load, At, CrawlType, Knows, Unmoved
<1>3. CASE MarkRunning(s)
  BY <1>1, <1>3 DEF MarkRunning, CrawlType, Knows
<1>4. CASE Visit(s)
  <2>1. PICK found \in SUBSET Urls :
          crawl' = [crawl EXCEPT ![s].pc = "listings", ![s].todo = found, ![s].got = @ \cup found,
                                ![s].listed = TRUE]
    BY <1>4 DEF Visit
  <2>2. /\ crawl'[s].pc = "listings" /\ crawl'[s].todo = found /\ crawl'[s].got = crawl[s].got \cup found
        /\ crawl'[s].site = crawl[s].site /\ crawl'[s].failed = crawl[s].failed /\ crawl'[s].saved = crawl[s].saved
    BY <1>1, <2>1 DEF CrawlType
  <2> QED BY <1>4, <2>2 DEF Visit, Knows
<1>5. CASE VisitFails(s)
  BY <1>1, <1>5 DEF VisitFails, SiteFailed, CrawlType, Knows
<1>6. CASE ListingRefused(s) \/ LinkFails(s)
  <2>1. crawl' = [crawl EXCEPT ![s] = SiteFailed(crawl[s])]
    BY <1>1, <1>6 DEF ListingRefused, LinkFails
  <2>2. crawl'[s] = SiteFailed(crawl[s])
    BY <1>1, <2>1
  <2> QED BY <1>1, <1>6, <2>2 DEF ListingRefused, LinkFails, SiteFailed, CrawlType, Knows
<1>7. CASE Lookup(s)
  <2>1. PICK u \in crawl[s].todo :
          crawl' = [crawl EXCEPT ![s].pc = IF listing[u] = 0 THEN "insert" ELSE "save",
                                ![s].url = u, ![s].id = listing[u], ![s].todo = @ \ {u}]
    BY <1>7 DEF Lookup
  <2>2. /\ crawl'[s].pc = (IF listing[u] = 0 THEN "insert" ELSE "save") /\ crawl'[s].url = u
        /\ crawl'[s].id = listing[u] /\ crawl'[s].todo = crawl[s].todo \ {u} /\ Unmoved(s)
    BY <1>1, <2>1 DEF CrawlType, Unmoved
  <2> QED BY <1>7, <2>2 DEF Lookup, Knows
<1>8. CASE SaveListing(s) \/ SaveImage(s)
  BY <1>1, <1>8 DEF SaveListing, SaveImage, At, CrawlType, Knows, Unmoved
<1>9. CASE InsertListing(s)
  <2>1. PICK l \in {"image", "link"} : crawl' = [crawl EXCEPT ![s].pc = l, ![s].id = lastId']
    BY <1>9 DEF InsertListing
  <2>2. crawl'[s].pc = l /\ crawl'[s].url = crawl[s].url /\ crawl'[s].todo = crawl[s].todo /\ Unmoved(s)
    BY <1>1, <2>1 DEF CrawlType, Unmoved
  <2> QED BY <1>9, <2>2 DEF InsertListing, Knows
<1>10. CASE Link(s)
  BY <1>1, <1>10 DEF Link, At, CrawlType, Knows, Unmoved
<1>11. CASE Index(s)
  BY <1>1, <1>11 DEF Index, CrawlType, Knows
<1>12. CASE RecordAttempt(s)
  BY <1>1, <1>12 DEF RecordAttempt, CrawlType, Knows
<1>13. CASE Finish(s)
  BY <1>1, <1>13 DEF Finish, At, CrawlType, Knows, Unmoved
<1> QED
  BY <1>2, <1>3, <1>4, <1>5, <1>6, <1>7, <1>8, <1>9, <1>10, <1>11, <1>12, <1>13 DEF Crawl

\* An execution keeps its number and what it found linked.
LEMMA CrawlKeeps ==
  ASSUME TypeInv, NEW s \in Searches, Crawl(s)
  PROVE  crawl'[s].run = crawl[s].run /\ crawl'[s].before = crawl[s].before
<1>1. crawl \in [Searches -> CrawlType] /\ crawl[s] \in CrawlType
  BY DEF TypeInv, TypeOK
<1>2. CASE Load(s) \/ SaveListing(s) \/ SaveImage(s) \/ Link(s) \/ Finish(s)
  BY <1>1, <1>2 DEF Load, SaveListing, SaveImage, Link, Finish, At, CrawlType
<1>3. CASE VisitFails(s) \/ ListingRefused(s) \/ LinkFails(s)
  <2>1. PICK c \in CrawlType : /\ c.run = crawl[s].run /\ c.before = crawl[s].before
                               /\ crawl' = [crawl EXCEPT ![s] = SiteFailed(c)]
    <3>1. CASE VisitFails(s)
      <4>1. PICK c : c = [crawl[s] EXCEPT !.listed = FALSE]
        OBVIOUS
      <4>2. c \in CrawlType /\ c.run = crawl[s].run /\ c.before = crawl[s].before
        BY <1>1, <4>1 DEF CrawlType
      <4> QED BY <1>1, <3>1, <4>1, <4>2 DEF VisitFails
    <3>2. CASE ListingRefused(s) \/ LinkFails(s)
      BY <1>1, <3>2 DEF ListingRefused, LinkFails
    <3> QED BY <1>3, <3>1, <3>2
  <2>2. crawl'[s] = SiteFailed(c)
    BY <1>1, <2>1
  <2> QED BY <2>1, <2>2 DEF SiteFailed, CrawlType
<1>4. CASE MarkRunning(s) \/ Index(s) \/ RecordAttempt(s)
  BY <1>1, <1>4 DEF MarkRunning, Index, RecordAttempt, CrawlType
<1>5. CASE Visit(s)
  BY <1>1, <1>5 DEF Visit, CrawlType
<1>6. CASE Lookup(s)
  BY <1>1, <1>6 DEF Lookup, CrawlType
<1>7. CASE InsertListing(s)
  BY <1>1, <1>7 DEF InsertListing, CrawlType
<1> QED
  BY <1>2, <1>3, <1>4, <1>5, <1>6, <1>7 DEF Crawl

\* A call of search() changes at most the label of its crawl.
LEMMA CallKeeps ==
  ASSUME TypeInv, NEW s \in Searches, Call(s), NEW t \in Searches
  PROVE  /\ crawl'[t].run = crawl[t].run /\ crawl'[t].before = crawl[t].before /\ crawl'[t].todo = crawl[t].todo
         /\ crawl'[t].got = crawl[t].got /\ crawl'[t].failed = crawl[t].failed /\ crawl'[t].saved = crawl[t].saved
<1>1. crawl \in [Searches -> CrawlType] /\ crawl[t] \in CrawlType
  BY DEF TypeInv, TypeOK
<1>2. crawl' = crawl \/ crawl' = [crawl EXCEPT ![s].pc = "waiting"]
  BY DEF Call, ReadKeyword, SaveKeyword, Hit, Miss, LinkCached, LinkCachedFails, Answer
<1>3. CASE crawl' = [crawl EXCEPT ![s].pc = "waiting"]
  <2>1. CASE t = s
    BY <1>1, <1>3, <2>1 DEF CrawlType
  <2>2. CASE t # s
    BY <1>1, <1>3, <2>2
  <2> QED BY <2>1, <2>2
<1> QED
  BY <1>2, <1>3

\* What the other steps leave to a crawl.
LEMMA CallFrame ==
  ASSUME NEW s \in Searches, Call(s)
  PROVE  UNCHANGED <<listing, attempts, del, again, overlap>> /\ (raced => raced')
<1>1. UNCHANGED <<listing, attempts, del, again, overlap>>
  BY DEF Call, ReadKeyword, SaveKeyword, Hit, Miss, LinkCached, LinkCachedFails, Answer, tables, ghosts
<1>2. UNCHANGED raced \/ LinkCached(s)
  BY DEF Call, ReadKeyword, SaveKeyword, Hit, Miss, LinkCachedFails, Answer, ghosts
<1>3. LinkCached(s) => (raced => raced')
  BY DEF LinkCached
<1> QED
  BY <1>1, <1>2, <1>3

LEMMA CrawlFrame ==
  ASSUME NEW s \in Searches, Crawl(s)
  PROVE  /\ UNCHANGED <<call, del, again, overlap>> /\ (raced => raced')
         /\ UNCHANGED attempts \/ RecordAttempt(s)
<1>1. UNCHANGED raced \/ Link(s)
  BY DEF Crawl, Load, MarkRunning, Visit, VisitFails, Lookup, SaveListing, InsertListing, SaveImage,
         ListingRefused, LinkFails, Index, RecordAttempt, Finish, ghosts
<1>2. Link(s) => (raced => raced')
  BY DEF Link
<1>3. UNCHANGED attempts \/ RecordAttempt(s)
  BY DEF Crawl, Load, MarkRunning, Visit, VisitFails, Lookup, SaveListing, InsertListing, SaveImage,
         ListingRefused, Link, LinkFails, Index, Finish, tables
<1> QED
  BY <1>1, <1>2, <1>3, CrawlAlone

LEMMA DeleteFrame ==
  ASSUME NEW s \in Searches, ReadLinks(s) \/ Delete(s)
  PROVE  /\ UNCHANGED <<call, crawl, again, raced>> /\ (overlap => overlap')
         /\ UNCHANGED <<history, attempts>> \/ DeleteHistory(s)
         /\ UNCHANGED listing \/ Purge(s)
         /\ UNCHANGED links \/ DeleteHistory(s) \/ Purge(s)
         /\ links' \subseteq links
<1>1. UNCHANGED <<call, crawl, again, raced>> /\ (UNCHANGED overlap \/ ReadLinks(s))
  BY DEF ReadLinks, Delete, DeleteHistory, CheckOrphan, Purge, Unindex, CountHistories, DeleteKeyword, ghosts
<1>2. ReadLinks(s) => (overlap => overlap')
  BY DEF ReadLinks
<1>3. UNCHANGED <<history, attempts>> \/ DeleteHistory(s)
  BY DEF ReadLinks, Delete, CheckOrphan, Purge, Unindex, CountHistories, DeleteKeyword, tables
<1>4. UNCHANGED listing \/ Purge(s)
  BY DEF ReadLinks, Delete, DeleteHistory, CheckOrphan, Unindex, CountHistories, DeleteKeyword, tables
<1>5. UNCHANGED links \/ DeleteHistory(s) \/ Purge(s)
  BY DEF ReadLinks, Delete, CheckOrphan, Unindex, CountHistories, DeleteKeyword, tables
<1>6. DeleteHistory(s) \/ Purge(s) => links' \subseteq links
  BY DEF DeleteHistory, Purge
<1> QED
  BY <1>1, <1>2, <1>3, <1>4, <1>5, <1>6

\* A call of search() gives a history only to a search whose crawl has not begun.
LEMMA CallChange ==
  ASSUME StoreAssumption, StoreInv, NEW s \in Searches, Call(s), NEW t \in Searches
  PROVE  /\ history'[t] = history[t] \/ (crawl[t].pc = "idle" /\ crawl'[t].pc \in {"idle", "waiting"})
         /\ crawl'[t] = crawl[t] \/ (crawl[t].pc = "idle" /\ crawl'[t].pc = "waiting")
<1>1. CASE t # s
  BY <1>1, CallSteps DEF StoreInv
<1>2. CASE t = s
  <2>1. call[s].pc = "look" => crawl[s].pc = "idle"
    BY DEF StoreInv, EarlyCall
  <2>2. crawl'[s] = crawl[s] \/ (call[s].pc = "look" /\ crawl'[s].pc = "waiting")
    BY CallSteps DEF StoreInv
  <2>3. history'[s] = history[s] \/ call[s].pc = "look"
    BY DEF Call, ReadKeyword, SaveKeyword, Hit, Miss, LinkCached, LinkCachedFails, Answer, tables
  <2> QED BY <1>2, <2>1, <2>2, <2>3
<1> QED
  BY <1>1, <1>2

LEMMA InOrderNext ==
  ASSUME StoreAssumption, ToldInv, NEW s \in Searches, Call(s) \/ Crawl(s) \/ ReadLinks(s) \/ Delete(s),
         NEW t \in Searches
  PROVE  InOrder(t)'
<1>1. InOrder(t) /\ TypeInv
  BY DEF ToldInv, Told, StoreInv
<1>2. CASE crawl'[t] = crawl[t]
  BY <1>1, <1>2 DEF InOrder
<1>3. CASE Call(s) /\ crawl'[t] # crawl[t]
  <2>1. crawl'[t].pc = "waiting" /\ crawl[t].pc = "idle"
    BY <1>3, CallChange DEF ToldInv
  <2> QED BY <1>1, <1>3, <2>1, CallKeeps DEF InOrder, AtSite
<1>4. CASE Crawl(s) /\ t = s
  <2>1. Knows(s) /\ PlaceOf(s)
    BY <1>1, <1>4, CrawlKnows, CrawlSteps DEF CrawlStep
  <2>2. /\ crawl[s].pc \in AtSite \cup {"site"} => crawl[s].site \in Int /\ crawl[s].site <= Sites + 1
        /\ crawl[s].failed \subseteq Int /\ Sites \in Int
    BY <1>1 DEF TypeInv, Places, TypeOK, CrawlType, StoreAssumption
  <2>3. crawl'[s].pc \in {"site"} \cup (AtSite \ {"attempt"}) => \A n \in crawl'[s].failed : n < crawl'[s].site
    BY <1>1, <1>4, <2>1, <2>2 DEF Knows, InOrder, AtSite, Unmoved
  <2>4. crawl'[s].pc = "attempt" =>
          crawl'[s].site \in crawl'[s].failed /\ \A n \in crawl'[s].failed : n <= crawl'[s].site
    BY <1>1, <1>4, <2>1, <2>2 DEF Knows, InOrder, AtSite, Unmoved
  <2>5. crawl'[s].pc = "over" => crawl'[s].site = Sites + 1
    BY <1>1, <1>4, <2>1, <2>2 DEF Knows, Unmoved
  <2>6. crawl'[s].pc \in {"site", "attempt", "over"} => crawl'[s].todo = {}
    BY <1>1, <1>4, <2>1 DEF Knows, InOrder
  <2>7. crawl'[s].pc = "insert" => crawl'[s].id = 0
    BY <2>1 DEF Knows
  <2>8. crawl'[s].pc \in {"idle", "waiting", "mark"} =>
          crawl'[s].todo = {} /\ crawl'[s].got = {} /\ crawl'[s].failed = {} /\ ~crawl'[s].saved
    BY <1>1, <1>4, <2>1 DEF Knows, InOrder, Unmoved
  <2> QED BY <1>4, <2>3, <2>4, <2>5, <2>6, <2>7, <2>8 DEF InOrder
<1>5. crawl'[t] = crawl[t] \/ Call(s) \/ (Crawl(s) /\ t = s)
  <2>1. Crawl(s) => CrawlStep(s)
    BY <1>1, CrawlSteps
  <2> QED BY <2>1, DeleteFrame DEF CrawlStep, Moved
<1> QED
  BY <1>2, <1>3, <1>4, <1>5

LEMMA RecordedNext ==
  ASSUME StoreAssumption, ToldInv, NEW s \in Searches, Call(s) \/ Crawl(s) \/ ReadLinks(s) \/ Delete(s),
         NEW t \in Searches
  PROVE  Recorded(t)'
<1>1. Recorded(t) /\ InOrder(t) /\ TypeInv /\ StoreInv
  BY DEF ToldInv, Told, StoreInv
<1>2. attempts \subseteq Rows /\ crawl \in [Searches -> CrawlType] /\ Sites \in Nat
  BY <1>1 DEF TypeInv, TypeOK, StoreAssumption, Rows
<1>3. CASE Call(s)
  <2>1. attempts' = attempts /\ overlap' = overlap /\ again' = again /\ crawl'[t].run = crawl[t].run
    BY <1>1, <1>3, CallFrame, CallKeeps
  <2>2. /\ history'[t] = history[t] \/ (crawl[t].pc = "idle" /\ crawl'[t].pc \in {"idle", "waiting"})
        /\ crawl'[t] = crawl[t] \/ (crawl[t].pc = "idle" /\ crawl'[t].pc = "waiting")
    BY <1>1, <1>3, CallChange
  <2>3. \A a \in attempts : OfLast(t, a)' <=> OfLast(t, a)
    BY <2>1 DEF OfLast
  <2>4. OncePerRun(t)' <=> OncePerRun(t)
    BY <2>1 DEF OncePerRun
  <2>5. crawl'[t].pc \in Begun => crawl'[t] = crawl[t] /\ history'[t] = history[t]
    BY <2>2 DEF Begun, AtSite
  <2>6. crawl'[t].pc \in Begun => (AttemptsTell(t)' <=> AttemptsTell(t))
    BY <2>1, <2>3, <2>5 DEF AttemptsTell
  <2>7. crawl'[t].pc \in {"idle", "waiting", "mark"} => crawl[t].pc \in {"idle", "waiting", "mark"}
    BY <2>2
  <2> QED BY <1>1, <2>1, <2>3, <2>4, <2>5, <2>6, <2>7 DEF Recorded
<1>4. CASE Crawl(s) /\ t # s
  <2>1. crawl'[t] = crawl[t] /\ history'[t] = history[t] /\ overlap' = overlap /\ again' = again
    BY <1>1, <1>4, CrawlSteps, CrawlBusy, CrawlFrame
  <2>2. \A a : a.search = t => (a \in attempts' <=> a \in attempts)
    <3>1. Attempt(s, crawl[s]).search = s
      BY DEF Attempt
    <3> QED BY <1>4, <3>1, CrawlFrame DEF RecordAttempt
  <2> QED BY <1>1, <2>1, <2>2 DEF Recorded, OfLast, AttemptsTell, OncePerRun
<1>5. CASE Crawl(s) /\ t = s
  <2>1. /\ Knows(s) /\ overlap' = overlap /\ again' = again /\ crawl'[s].run = crawl[s].run
        /\ Executing(s) \/ (crawl[s].pc = "waiting" /\ history' = history)
    BY <1>1, <1>5, CrawlKnows, CrawlSteps, CrawlBusy, CrawlFrame, CrawlKeeps
  <2>2. ~overlap /\ Executing(s) => history[s] # "none"
    BY <1>1 DEF StoreInv, Apart, BusyHasHistory, Held
  <2>3. crawl[s].site \in Nat /\ crawl[s].failed \subseteq Nat
    BY <1>2 DEF CrawlType
  <2>4. CASE RecordAttempt(s)
    <3>1. PICK new : new = Attempt(s, crawl[s])
      OBVIOUS
    <3>2. /\ new.search = s /\ new.run = crawl[s].run /\ new.site = crawl[s].site
          /\ new.error <=> crawl[s].site \in crawl[s].failed
      BY <3>1 DEF Attempt
    <3>3. /\ crawl'[s].pc = "site" /\ crawl'[s].site = crawl[s].site + 1 /\ crawl'[s].failed = crawl[s].failed
          /\ crawl[s].pc \in {"attempt", "listings"} /\ Executing(s)
      BY <1>2, <2>4 DEF RecordAttempt, CrawlType, Executing
    <3>4. /\ attempts' \in {attempts, attempts \cup {new}}
          /\ ~overlap => attempts' = attempts \cup {new}
      BY <2>2, <2>4, <3>1, <3>3 DEF RecordAttempt
    <3>5. \A a \in attempts' : a.search = s => a.run <= again
      BY <1>1, <1>5, <3>2, <3>4 DEF Recorded
    <3>6. ASSUME ~overlap PROVE AttemptsTell(s)' /\ OncePerRun(s)'
      <4>1. AttemptsTell(s) /\ OncePerRun(s)
        BY <1>1, <1>5, <2>2, <3>3, <3>6 DEF Recorded, Begun, AtSite
      <4>2. \A a \in attempts : OfLast(s, a) => a.site # crawl[s].site
        BY <1>2, <2>3, <4>1 DEF AttemptsTell, Rows
      <4>3. \A n \in 1..Sites : n < crawl'[s].site <=> n < crawl[s].site \/ n = crawl[s].site
        BY <2>3, <3>3
      <4>4. /\ \A a \in attempts : a \in attempts' /\ (OfLast(s, a)' <=> OfLast(s, a))
            /\ new \in attempts' /\ OfLast(s, new)' /\ \A a \in attempts' : a \in attempts \/ a = new
        BY <2>1, <3>2, <3>4, <3>6 DEF OfLast
      <4>5. \A n \in 1..Sites : n < crawl'[s].site <=> \E a \in attempts' : OfLast(s, a)' /\ a.site = n
        BY <3>2, <4>1, <4>3, <4>4 DEF AttemptsTell
      <4>6. \A a \in attempts' : OfLast(s, a)' => (a.error <=> a.site \in crawl'[s].failed)
        BY <3>2, <3>3, <4>1, <4>4 DEF AttemptsTell
      <4>7. \A a \in attempts : a.search = s /\ a.run = new.run => a.site # new.site
        BY <3>2, <4>2 DEF OfLast
      <4>8. OncePerRun(s)'
        BY <3>2, <4>1, <4>4, <4>7 DEF OncePerRun
      <4> QED BY <4>5, <4>6, <4>8 DEF AttemptsTell
    <3> QED BY <1>1, <1>5, <2>1, <3>3, <3>5, <3>6 DEF Recorded
  <2>5. CASE ~RecordAttempt(s)
    <3>1. attempts' = attempts
      BY <1>5, <2>5, CrawlFrame
    <3>2. crawl'[s].pc # "site" \/ crawl[s].pc = "mark"
      BY <2>1, <2>5 DEF Knows
    <3>3. (\A a \in attempts : OfLast(s, a)' <=> OfLast(s, a)) /\ (OncePerRun(s)' <=> OncePerRun(s))
      BY <2>1, <3>1 DEF OfLast, OncePerRun
    <3>4. /\ crawl'[s].run <= again' /\ \A a \in attempts' : a.search = s => a.run <= again'
          /\ ~overlap' => OncePerRun(s)'
      BY <1>1, <1>5, <2>1, <3>1, <3>3 DEF Recorded
    <3>5. CASE crawl[s].pc \in {"waiting", "mark"}
      <4>1. \A a \in attempts : ~OfLast(s, a)
        BY <1>1, <1>5, <3>5 DEF Recorded
      <4>2. crawl'[s].pc \in Begun => crawl'[s].site = 1
        BY <2>1, <3>5 DEF Knows, Begun, AtSite
      <4>3. crawl'[s].pc \in Begun => AttemptsTell(s)'
        BY <3>1, <3>3, <4>1, <4>2 DEF AttemptsTell
      <4> QED BY <1>5, <3>1, <3>3, <3>4, <4>1, <4>3 DEF Recorded
    <3>6. CASE crawl[s].pc \notin {"waiting", "mark"}
      <4>1. crawl[s].pc \in Begun /\ crawl'[s].pc \notin {"idle", "waiting", "mark"} /\ crawl'[s].site = crawl[s].site
        BY <2>1, <3>2, <3>6 DEF Knows, Begun, AtSite, Unmoved
      <4>2. crawl'[s].failed = crawl[s].failed \/ crawl'[s].failed = crawl[s].failed \cup {crawl[s].site}
        BY <2>1, <3>2, <3>6 DEF Knows, Unmoved
      <4>3. ASSUME ~overlap PROVE AttemptsTell(s)'
        <5>1. AttemptsTell(s)
          BY <1>1, <1>5, <2>1, <2>2, <3>6, <4>1, <4>3 DEF Recorded
        <5>2. \A a \in attempts : OfLast(s, a) => a.site # crawl[s].site
          BY <1>2, <2>3, <5>1 DEF AttemptsTell, Rows
        <5>3. \A a \in attempts' : OfLast(s, a)' => (a.error <=> a.site \in crawl'[s].failed)
          BY <3>1, <3>3, <4>2, <5>1, <5>2 DEF AttemptsTell
        <5>4. \A n \in 1..Sites : n < crawl'[s].site <=> \E a \in attempts' : OfLast(s, a)' /\ a.site = n
          BY <3>1, <3>3, <4>1, <5>1 DEF AttemptsTell
        <5> QED BY <5>3, <5>4 DEF AttemptsTell
      <4> QED BY <1>5, <2>1, <3>1, <3>4, <4>1, <4>3 DEF Recorded
    <3> QED BY <3>5, <3>6
  <2> QED BY <2>4, <2>5
<1>6. CASE ReadLinks(s) \/ Delete(s)
  <2>1. crawl' = crawl /\ again' = again /\ (overlap => overlap')
    BY <1>6, DeleteFrame
  <2>2. CASE UNCHANGED <<history, attempts>>
    BY <1>1, <2>1, <2>2 DEF Recorded, OfLast, AttemptsTell, OncePerRun
  <2>3. CASE DeleteHistory(s)
    <3>1. attempts' = {a \in attempts : a.search # s} /\ history' = [history EXCEPT ![s] = "none"]
      BY <2>3 DEF DeleteHistory
    <3>2. history \in [Searches -> Statuses]
      BY <1>1 DEF TypeInv, TypeOK, Statuses
    <3>3. CASE t = s
      BY <1>1, <2>1, <3>1, <3>2, <3>3 DEF Recorded, OfLast, OncePerRun
    <3>4. CASE t # s
      <4>1. \A a : a.search = t => (a \in attempts' <=> a \in attempts)
        BY <3>1, <3>4
      <4>2. history'[t] = history[t]
        BY <3>1, <3>2, <3>4
      <4> QED BY <1>1, <2>1, <4>1, <4>2 DEF Recorded, OfLast, AttemptsTell, OncePerRun
    <3> QED BY <3>3, <3>4
  <2> QED BY <1>6, <2>2, <2>3, DeleteFrame
<1> QED
  BY <1>3, <1>4, <1>5, <1>6

LEMMA ClosedNext ==
  ASSUME StoreAssumption, ToldInv, NEW s \in Searches, Call(s) \/ Crawl(s) \/ ReadLinks(s) \/ Delete(s),
         NEW t \in Searches
  PROVE  Closed(t)'
<1>1. Closed(t) /\ TypeInv /\ StoreInv
  BY DEF ToldInv, Told, StoreInv
<1>2. CASE Call(s)
  BY <1>1, <1>2, CallChange DEF Closed, Outcome
<1>3. CASE Crawl(s) /\ t # s
  <2>1. crawl'[t] = crawl[t] /\ history'[t] = history[t]
    BY <1>1, <1>3, CrawlSteps, CrawlBusy
  <2> QED BY <1>1, <2>1 DEF Closed, Outcome
<1>4. CASE Crawl(s) /\ t = s
  <2>1. Knows(s) /\ history \in [Searches -> Statuses]
    BY <1>1, <1>4, CrawlKnows DEF TypeInv, TypeOK, Statuses
  <2>2. crawl'[s].pc = "over" => Unmoved(s) /\ history' = [history EXCEPT ![s] = Outcome(crawl[s])]
    BY <2>1 DEF Knows
  <2> QED BY <1>4, <2>1, <2>2 DEF Closed, Unmoved, Outcome
<1>5. CASE ReadLinks(s) \/ Delete(s)
  <2>1. crawl' = crawl
    BY <1>5, DeleteFrame
  <2>2. CASE history' = history
    BY <1>1, <2>1, <2>2 DEF Closed
  <2>3. CASE DeleteHistory(s)
    <3>1. history' = [history EXCEPT ![s] = "none"] /\ history \in [Searches -> Statuses]
      BY <1>1, <2>3 DEF DeleteHistory, TypeInv, TypeOK, Statuses
    <3> QED BY <1>1, <2>1, <3>1 DEF Closed
  <2> QED BY <1>5, <2>2, <2>3, DeleteFrame
<1> QED
  BY <1>2, <1>3, <1>4, <1>5

\* A listing that is linked to a search stays so, unless the search is deleted or the listing is purged
\* although it was linked to after its check.
LEMMA LinkedStays ==
  ASSUME StoreAssumption, ToldInv, NEW s \in Searches, Call(s) \/ Crawl(s) \/ ReadLinks(s) \/ Delete(s),
         NEW t \in Searches, NEW u \in Urls, Linked(t, u), ~raced', history'[t] # "none"
  PROVE  Linked(t, u)'
<1>1. /\ StoreInv /\ TypeInv /\ listing \in [Urls -> 0..MaxIds] /\ links \subseteq Searches \X Ids
      /\ history \in [Searches -> Statuses]
  BY DEF ToldInv, StoreInv, TypeInv, TypeOK, Statuses
<1>2. listing[u] # 0 /\ <<t, listing[u]>> \in links
  BY DEF Linked
<1>3. CASE Call(s)
  <2>1. listing' = listing /\ links \subseteq links'
    BY <1>1, <1>3, CallSteps
  <2> QED BY <1>2, <2>1 DEF Linked
<1>4. CASE Crawl(s)
  <2>1. links \subseteq links' /\ Step(s)
    BY <1>1, <1>4, CrawlSteps, CrawlBusy DEF CrawlStep
  <2>2. listing'[u] = listing[u]
    <3>1. CASE StoredStep(s)
      BY <1>1, <1>2, <3>1 DEF StoredStep, UrlFree
    <3>2. CASE InsertedStep(s)
      <4>1. crawl[s].id = 0
        BY <3>2 DEF InsertedStep, ToldInv, Told, InOrder
      <4> QED BY <1>1, <1>2, <3>2, <4>1 DEF InsertedStep, UrlFree
    <3> QED BY <2>1, <3>1, <3>2 DEF Step, PlainStep, FoundStep, LinkedStep, Still
  <2> QED BY <1>2, <2>1, <2>2 DEF Linked
<1>5. CASE ReadLinks(s) \/ Delete(s)
  <2>1. CASE DeleteHistory(s)
    <3>1. t # s /\ listing' = listing /\ links' = {p \in links : p[1] # s}
      BY <1>1, <2>1 DEF DeleteHistory
    <3> QED BY <1>2, <3>1 DEF Linked
  <2>2. CASE Purge(s)
    <3>1. listing[u] \notin del[s].orphans
      <4>1. ~raced /\ del[s].pc = "check"
        BY <1>5, <2>2, DeleteFrame DEF Purge
      <4> QED BY <1>2, <4>1 DEF ToldInv, Told, Condemning
    <3> QED BY <1>2, <2>2, <3>1 DEF Purge, Linked
  <2>3. CASE UNCHANGED <<listing, links>>
    BY <1>2, <2>3 DEF Linked
  <2> QED BY <1>5, <2>1, <2>2, <2>3, DeleteFrame
<1> QED
  BY <1>3, <1>4, <1>5

LEMMA NoneLinkedNext ==
  ASSUME StoreAssumption, ToldInv, NEW s \in Searches, Call(s) \/ Crawl(s) \/ ReadLinks(s) \/ Delete(s),
         NEW t \in Searches
  PROVE  NoneLinked(t)'
<1>1. NoneLinked(t) /\ NoneLinked(s) /\ TypeInv /\ StoreInv /\ EarlyCall
  BY DEF ToldInv, Told, StoreInv
<1>2. CASE Call(s) /\ t # s
  <2>1. crawl'[t] = crawl[t] /\ call'[t] = call[t]
    BY <1>1, <1>2, CallSteps
  <2>2. \A i \in Ids : <<t, i>> \in links' => <<t, i>> \in links
    BY <1>1, <1>2, CallSteps
  <2> QED BY <1>1, <2>1, <2>2 DEF NoneLinked, LinkNone, LinksOf
<1>3. CASE Call(s) /\ t = s
  <2>1. call[s].pc \in {"idle", "keyword", "look"} => crawl[s].pc = "idle"
    BY <1>1 DEF EarlyCall
  <2>2. crawl'[s] = crawl[s] \/ (call[s].pc = "look" /\ crawl'[s].pc = "waiting")
    BY <1>1, <1>3, CallSteps
  <2>3. links' = links \/ call[s].pc = "linking"
    BY <1>1, <1>3, CallSteps
  <2>4. /\ call'[s].pc \in {"idle", "keyword", "look"} => call[s].pc \in {"idle", "keyword"}
        /\ call'[s].pc = "linking" => call[s].pc \in {"look", "linking"} /\ crawl' = crawl
    BY <1>1, <1>3, CallSteps
  <2>5. CASE call[s].pc = "linking"
    <3>1. crawl'[s].pc = "idle"
      BY <1>1, <2>2, <2>5 DEF NoneLinked
    <3> QED BY <1>3, <2>4, <2>5, <3>1 DEF NoneLinked, Begun, AtSite
  <2>6. CASE call[s].pc # "linking"
    <3>1. links' = links /\ crawl'[s].before = crawl[s].before /\ crawl'[s].saved = crawl[s].saved
      BY <1>1, <1>3, <2>3, <2>6, CallKeeps
    <3>2. call[s].pc = "look" => LinksOf(s) \subseteq crawl[s].before
      BY <1>1 DEF NoneLinked, LinkNone, LinksOf
    <3> QED BY <1>1, <1>3, <2>1, <2>2, <2>4, <2>6, <3>1, <3>2 DEF NoneLinked, LinkNone, LinksOf, Begun, AtSite
  <2> QED BY <2>5, <2>6
<1>4. CASE Crawl(s) /\ t # s
  <2>1. crawl'[t] = crawl[t] /\ call' = call /\ (links' = links \/ LinkedStep(s))
    BY <1>1, <1>4, CrawlSteps, CrawlBusy DEF CrawlStep, Step, PlainStep, FoundStep, StoredStep, InsertedStep, Still
  <2>2. \A i \in Ids : <<t, i>> \in links' => <<t, i>> \in links
    BY <1>4, <2>1 DEF LinkedStep
  <2> QED BY <1>1, <2>1, <2>2 DEF NoneLinked, LinkNone, LinksOf
<1>5. CASE Crawl(s) /\ t = s
  <2>1. Knows(s) /\ crawl[s].pc # "idle" /\ call' = call /\ crawl'[s].before = crawl[s].before
    BY <1>1, <1>5, CrawlKnows, CrawlSteps, CrawlBusy, CrawlKeeps
  <2>2. call'[s].pc \notin {"idle", "keyword", "look", "linking"}
    BY <1>1, <2>1 DEF EarlyCall, NoneLinked
  <2>3. links' = links \/ crawl'[s].pc = "index"
    BY <1>1, <1>5, CrawlSteps DEF CrawlStep, Step, PlainStep, FoundStep, StoredStep, InsertedStep, LinkedStep, Still
  <2>4. crawl'[s].pc \in {"waiting", "mark"} \/ (crawl'[s].pc \in Begun \ {"index"} /\ ~crawl'[s].saved) =>
          \/ crawl[s].pc \in {"waiting", "mark"}
          \/ crawl[s].pc \in Begun \ {"index"} /\ ~crawl[s].saved
    BY <2>1 DEF Knows, Begun, AtSite, Unmoved
  <2>5. crawl'[s].pc = "index" => crawl'[s].pc \notin {"waiting", "mark"} \cup (Begun \ {"index"})
    OBVIOUS
  <2> QED BY <1>1, <1>5, <2>1, <2>2, <2>3, <2>4, <2>5 DEF NoneLinked, LinksOf
<1>6. CASE ReadLinks(s) \/ Delete(s)
  <2>1. call' = call /\ crawl' = crawl /\ links' \subseteq links
    BY <1>6, DeleteFrame
  <2> QED BY <1>1, <2>1 DEF NoneLinked, LinkNone, LinksOf
<1> QED
  BY <1>2, <1>3, <1>4, <1>5, <1>6

\* A link to a condemned listing is noted.
LEMMA LinksUncondemned ==
  ASSUME StoreAssumption, ToldInv, NEW s \in Searches, Call(s) \/ Crawl(s), ~raced',
         NEW r \in Searches, del[r].pc = "check", NEW i \in del[r].orphans, NEW t \in Searches, <<t, i>> \notin links
  PROVE  <<t, i>> \notin links'
<1>1. Condemned(i)
  BY DEF Condemned
<1>2. CASE LinkCached(s)
  <2>1. PICK j \in call[s].todo : /\ links' = IF Row(j) THEN links \cup {<<s, j>>} ELSE links
                                 /\ raced' = (raced \/ Condemned(j))
    BY <1>2 DEF LinkCached
  <2>2. j # i
    BY <1>1, <2>1
  <2> QED BY <2>1, <2>2
<1>3. CASE Link(s)
  <2>1. crawl[s].id # i
    BY <1>1, <1>3 DEF Link
  <2> QED BY <1>3, <2>1 DEF Link
<1>4. CASE ~LinkCached(s) /\ ~Link(s)
  BY <1>4 DEF Call, ReadKeyword, SaveKeyword, Hit, Miss, LinkCachedFails, Answer, tables,
     Crawl, Load, MarkRunning, Visit, VisitFails, Lookup, SaveListing, InsertListing, SaveImage,
     ListingRefused, LinkFails, Index, RecordAttempt, Finish
<1> QED
  BY <1>2, <1>3, <1>4

LEMMA CondemningNext ==
  ASSUME StoreAssumption, ToldInv, NEW s \in Searches, Call(s) \/ Crawl(s) \/ ReadLinks(s) \/ Delete(s),
         NEW t \in Searches
  PROVE  Condemning(t)'
<1>1. Condemning(t) /\ TypeInv /\ del \in [Searches -> DelType]
  BY DEF ToldInv, Told, StoreInv, TypeInv, TypeOK
<1>2. CASE Call(s) \/ Crawl(s)
  <2>1. del' = del /\ (raced => raced')
    BY <1>2, CallFrame, CrawlFrame
  <2> QED BY <1>1, <1>2, <2>1, LinksUncondemned DEF Condemning
<1>3. CASE (ReadLinks(s) \/ Delete(s)) /\ t # s
  <2>1. del'[t] = del[t] /\ raced' = raced /\ links' \subseteq links
    BY <1>1, <1>3, DeleteFrame, DelSteps DEF DelStep
  <2> QED BY <1>1, <2>1 DEF Condemning
<1>4. CASE (ReadLinks(s) \/ Delete(s)) /\ t = s
  <2>1. raced' = raced /\ links' \subseteq links /\ DelStep(s)
    BY <1>1, <1>4, DeleteFrame, DelSteps
  <2>2. CASE ReadLinks(s)
    BY <1>1, <1>4, <2>2 DEF ReadLinks, Condemning
  <2>3. CASE DeleteHistory(s)
    <3>1. del[s].pc = "delete" /\ del'[s].orphans = del[s].orphans
      BY <1>1, <2>3 DEF DeleteHistory, DelType
    <3>2. del'[s].pc = "check" /\ del'[s].orphans = {}
      BY <1>1, <1>4, <2>3, <3>1 DEF DeleteHistory, DelType, Condemning
    <3> QED BY <1>4, <3>2 DEF Condemning
  <2>4. CASE CheckOrphan(s)
    <3>1. PICK i \in del[s].ids :
            del' = [del EXCEPT ![s].ids = @ \ {i}, ![s].orphans = IF Orphan(i) THEN @ \cup {i} ELSE @]
      BY <2>4 DEF CheckOrphan
    <3>2. del'[s].pc = del[s].pc /\ del'[s].orphans = IF Orphan(i) THEN del[s].orphans \cup {i} ELSE del[s].orphans
      BY <1>1, <3>1 DEF DelType
    <3>3. del[s].pc = "check" /\ links' = links
      BY <2>4 DEF CheckOrphan, tables
    <3>4. Orphan(i) => \A r \in Searches : <<r, i>> \notin links
      BY DEF Orphan, LinkedBy
    <3> QED BY <1>1, <1>4, <2>1, <3>2, <3>3, <3>4 DEF Condemning
  <2>5. CASE Purge(s) \/ Unindex(s) \/ CountHistories(s) \/ DeleteKeyword(s)
    <3>1. del'[s].pc \notin {"delete", "check"}
      BY <1>1, <2>5 DEF Purge, Unindex, CountHistories, DeleteKeyword, NoDel, DelType
    <3> QED BY <1>4, <3>1 DEF Condemning
  <2> QED BY <1>4, <2>2, <2>3, <2>4, <2>5 DEF Delete
<1> QED
  BY <1>2, <1>3, <1>4

LEMMA ShownNext ==
  ASSUME StoreAssumption, ToldInv, NEW s \in Searches, Call(s) \/ Crawl(s) \/ ReadLinks(s) \/ Delete(s),
         NEW t \in Searches
  PROVE  Shown(t)'
<1>1. /\ Shown(t) /\ InOrder(t) /\ TypeInv /\ StoreInv /\ crawl \in [Searches -> CrawlType]
      /\ \A r \in Searches : crawl[r] \in CrawlType
  BY DEF ToldInv, Told, StoreInv, TypeInv, TypeOK
<1>2. (raced => raced') /\ (overlap => overlap')
  BY CallFrame, CrawlFrame, DeleteFrame
<1>3. SUFFICES ASSUME ~raced', ~overlap', history'[t] # "none", crawl'[t].pc \in Begun
               PROVE  /\ crawl'[t].failed = {} =>
                           \A u \in crawl'[t].got : \/ u \in crawl'[t].todo \/ Linked(t, u)'
                                                    \/ crawl'[t].pc \in Holding /\ u = crawl'[t].url
                      /\ crawl'[t].saved \/ crawl'[t].pc = "index" => \E u \in Urls : Linked(t, u)'
  BY DEF Shown
<1>4. \A u \in Urls : Linked(t, u) => Linked(t, u)'
  BY <1>3, LinkedStays
<1>5. CASE crawl'[t] = crawl[t] /\ history'[t] = history[t]
  <2>1. crawl[t].got \subseteq Urls
    BY <1>1 DEF CrawlType
  <2> QED BY <1>1, <1>2, <1>3, <1>4, <1>5, <2>1 DEF Shown
<1>6. CASE Call(s) /\ ~(crawl'[t] = crawl[t] /\ history'[t] = history[t])
  <2>1. crawl'[t].pc \in {"idle", "waiting"}
    BY <1>1, <1>6, CallChange
  <2> QED BY <1>3, <2>1 DEF Begun, AtSite
<1>7. CASE Crawl(s) /\ t # s
  <2>1. crawl'[t] = crawl[t] /\ history'[t] = history[t]
    BY <1>1, <1>7, CrawlSteps, CrawlBusy
  <2> QED BY <1>5, <2>1
<1>8. CASE Crawl(s) /\ t = s
  <2>1. Knows(s) /\ (Executing(s) \/ (crawl[s].pc = "waiting" /\ history' = history))
    BY <1>1, <1>8, CrawlKnows, CrawlSteps, CrawlBusy
  <2>2. ~overlap /\ ~raced /\ history[s] # "none"
    BY <1>1, <1>2, <1>3, <1>8, <2>1 DEF StoreInv, Apart, BusyHasHistory, Held
  <2>3. CASE crawl[s].pc \in {"waiting", "mark"}
    <3>1. crawl[s].got = {} /\ ~crawl[s].saved
      BY <1>1, <1>8, <2>3 DEF InOrder
    <3> QED BY <1>3, <1>8, <2>1, <2>3, <3>1 DEF Knows, Begun, AtSite
  <2>4. CASE crawl[s].pc \notin {"waiting", "mark"}
    <3>1. crawl[s].pc \in Begun /\ crawl[s].got \subseteq Urls
      BY <1>1, <2>1, <2>4 DEF Knows, Begun, AtSite, CrawlType
    <3>2. /\ crawl[s].failed = {} =>
               \A u \in crawl[s].got : u \in crawl[s].todo \/ (crawl[s].pc \in Holding /\ u = crawl[s].url) \/ Linked(s, u)'
          /\ crawl[s].saved \/ crawl[s].pc = "index" => \E u \in Urls : Linked(s, u)'
      BY <1>1, <1>4, <1>8, <2>2, <3>1 DEF Shown
    <3>3. crawl[s].pc = "link" /\ crawl'[s].pc = "index" =>
            \E u \in Urls : u = crawl[s].url /\ Linked(s, u)'
      <4>1. SUFFICES ASSUME crawl[s].pc = "link", crawl'[s].pc = "index"
                     PROVE  \E u \in Urls : u = crawl[s].url /\ Linked(s, u)'
        OBVIOUS
      <4>2. crawl[s].url \in Urls /\ crawl[s].id \in 1..lastId
        BY <1>1, <4>1 DEF TypeInv, Places, WithId
      <4>3. listing[crawl[s].url] = crawl[s].id /\ <<s, crawl[s].id>> \in links'
        BY <2>1, <4>1 DEF Knows, LinkHolds
      <4>4. listing' = listing
        BY <1>1, <1>8, <4>1, CrawlSteps DEF CrawlStep, Step, PlainStep, FoundStep, StoredStep, InsertedStep, LinkedStep, Still
      <4>5. PICK u \in Urls : u = crawl[s].url
        BY <4>2
      <4>6. Linked(s, u)'
        BY <4>2, <4>3, <4>4, <4>5 DEF Linked
      <4> QED BY <4>5, <4>6
    <3>4. crawl'[s].failed = {} => crawl[s].failed = {} /\ crawl[s].pc # "attempt"
      BY <1>1, <1>8, <2>1, <2>4 DEF Knows, InOrder, Unmoved
    <3>5. crawl'[s].failed = {} =>
            \A u \in crawl'[s].got : \/ u \in crawl'[s].todo \/ Linked(s, u)'
                                     \/ crawl'[s].pc \in Holding /\ u = crawl'[s].url
      <4>1. SUFFICES ASSUME crawl'[s].failed = {}, NEW u \in crawl'[s].got
                     PROVE  \/ u \in crawl'[s].todo \/ Linked(s, u)'
                            \/ crawl'[s].pc \in Holding /\ u = crawl'[s].url
        OBVIOUS
      <4>2. crawl[s].pc = "site" => crawl[s].todo = {}
        BY <1>1, <1>8 DEF InOrder
      <4>3. u \in crawl[s].got \/ u \in crawl'[s].todo
        BY <2>1, <2>4, <3>4, <4>1 DEF Knows, Unmoved
      <4>4. CASE u \in crawl[s].todo
        BY <2>1, <2>4, <3>4, <4>1, <4>2, <4>4 DEF Knows, Holding
      <4>5. CASE crawl[s].pc \in Holding /\ u = crawl[s].url
        BY <2>1, <2>4, <3>3, <3>4, <4>1, <4>5 DEF Knows, Holding
      <4> QED BY <3>2, <3>4, <4>1, <4>3, <4>4, <4>5
    <3>6. crawl'[s].saved \/ crawl'[s].pc = "index" => \E u \in Urls : Linked(s, u)'
      BY <2>1, <2>4, <3>2, <3>3 DEF Knows, Unmoved
    <3> QED BY <1>8, <3>5, <3>6
  <2> QED BY <2>3, <2>4
<1>9. CASE ReadLinks(s) \/ Delete(s)
  <2>1. crawl' = crawl
    BY <1>9, DeleteFrame
  <2>2. history'[t] = history[t]
    <3>1. CASE DeleteHistory(s)
      <4>1. history' = [history EXCEPT ![s] = "none"] /\ history \in [Searches -> Statuses]
        BY <1>1, <3>1 DEF DeleteHistory, TypeInv, TypeOK, Statuses
      <4> QED BY <1>3, <4>1
    <3> QED BY <1>9, <3>1, DeleteFrame
  <2> QED BY <1>5, <2>1, <2>2
<1> QED
  BY <1>5, <1>6, <1>7, <1>8, <1>9

LEMMA AgainTold ==
  ASSUME StoreAssumption, ToldInv, NEW s \in Searches, Again(s), NEW t \in Searches
  PROVE  Told(t)'
<1>1. /\ InOrder(t) /\ Recorded(t) /\ Closed(t) /\ Shown(t) /\ NoneLinked(t) /\ Condemning(t)
      /\ StoreInv /\ TypeInv /\ again \in Nat
  BY DEF ToldInv, Told, StoreInv, TypeInv, TypeOK, StoreAssumption
<1>2. /\ \A r \in Searches \ {s} : crawl'[r] = crawl[r]
      /\ crawl'[s].pc = "waiting" /\ crawl'[s].todo = {} /\ crawl'[s].got = {} /\ crawl'[s].failed = {}
      /\ ~crawl'[s].saved /\ crawl'[s].run = again + 1 /\ crawl'[s].before = LinksOf(s) /\ again' = again + 1
      /\ UNCHANGED <<tables, call, del, raced>>
  BY <1>1, AnewIs
<1>3. crawl[s].pc # "idle" /\ (overlap => overlap')
  BY DEF Again
<1>4. Condemning(t)'
  BY <1>1, <1>2 DEF Condemning, tables
<1>5. CASE t # s
  <2>1. crawl'[t] = crawl[t] /\ UNCHANGED <<history, listing, links, attempts>>
    BY <1>2, <1>5 DEF tables
  <2>2. crawl[t].run \in Nat /\ \A a \in attempts : a.run \in Nat
    BY <1>1 DEF TypeInv, TypeOK, CrawlType, StoreAssumption
  <2>3. InOrder(t)' /\ Closed(t)' /\ Shown(t)' /\ NoneLinked(t)'
    BY <1>1, <1>2, <1>3, <2>1 DEF InOrder, Closed, Outcome, Shown, Linked, NoneLinked, LinkNone, LinksOf
  <2>4. Recorded(t)'
    BY <1>1, <1>2, <1>3, <2>1, <2>2 DEF Recorded, OfLast, AttemptsTell, OncePerRun
  <2> QED BY <1>4, <2>3, <2>4 DEF Told
<1>6. CASE t = s
  <2>1. UNCHANGED <<history, links, attempts, call>>
    BY <1>2 DEF tables
  <2>2. \A a \in attempts : a.run \in Nat /\ (a.search = s => a.run <= again)
    BY <1>1, <1>6 DEF Recorded, TypeInv, TypeOK, StoreAssumption
  <2>3. \A a \in attempts' : a.search = s => a.run <= again' /\ a.run # crawl'[s].run
    BY <1>1, <1>2, <2>1, <2>2
  <2>4. Recorded(s)'
    BY <1>1, <1>2, <1>3, <1>6, <2>1, <2>3 DEF Recorded, OfLast, OncePerRun, Begun, AtSite
  <2>5. call[s].pc \notin {"idle", "keyword", "look", "linking"}
    BY <1>1, <1>3, <1>6 DEF StoreInv, EarlyCall, NoneLinked
  <2>6. NoneLinked(s)'
    BY <1>2, <2>1, <2>5 DEF NoneLinked, LinksOf
  <2>7. InOrder(s)' /\ Closed(s)' /\ Shown(s)'
    BY <1>2 DEF InOrder, Closed, Shown, Begun, AtSite
  <2> QED BY <1>4, <1>6, <2>4, <2>6, <2>7 DEF Told
<1> QED
  BY <1>5, <1>6

LEMMA ToldInit == ASSUME StoreAssumption, Init PROVE ToldInv
<1>1. StoreInv
  BY StoreInit
<1>2. NoCrawl.pc = "idle" /\ NoDel.pc = "idle" /\ NoCall.pc = "idle"
  BY DEF NoCrawl, NoDel, NoCall
<1>3. \A s \in Searches : crawl[s].pc = "idle" /\ del[s].pc = "idle" /\ call[s].pc = "idle"
  BY <1>2 DEF Init
<1>4. links = {} /\ attempts = {}
  BY DEF Init
<1>5. ASSUME NEW s \in Searches PROVE Told(s)
  <2>1. crawl[s] = NoCrawl /\ again = 0
    BY DEF Init
  <2>2. InOrder(s)
    BY <2>1 DEF InOrder, NoCrawl, AtSite
  <2>3. Recorded(s)
    BY <1>3, <1>4, <2>1 DEF Recorded, OncePerRun, NoCrawl, Begun, AtSite
  <2> QED BY <1>3, <1>4, <2>2, <2>3 DEF Told, Closed, Shown, NoneLinked, LinkNone, Condemning, Begun, AtSite
<1> QED
  BY <1>1, <1>5 DEF ToldInv

LEMMA ToldNext == ASSUME StoreAssumption, ToldInv, [Next]_vars PROVE ToldInv'
<1>1. StoreInv'
  BY StoreNext DEF ToldInv
<1>2. CASE UNCHANGED vars
  <2>1. ASSUME NEW t \in Searches PROVE Told(t)'
    <3>1. Told(t) /\ UNCHANGED <<history, listing, links, attempts, call, crawl, del, again, overlap, raced>>
      BY <1>2 DEF vars, tables, ghosts, ToldInv
    <3>2. Recorded(t)'
      BY <3>1 DEF Told, Recorded, OfLast, AttemptsTell, OncePerRun
    <3>3. InOrder(t)' /\ Closed(t)' /\ Shown(t)' /\ NoneLinked(t)' /\ Condemning(t)'
      BY <3>1 DEF Told, InOrder, Closed, Outcome, Shown, Linked, NoneLinked, LinkNone, LinksOf, Condemning
    <3> QED BY <3>2, <3>3 DEF Told
  <2> QED BY <1>1, <2>1 DEF ToldInv
<1>3. CASE Next
  <2>1. PICK s \in Searches : Again(s) \/ Call(s) \/ Crawl(s) \/ ReadLinks(s) \/ Delete(s)
    BY <1>3 DEF Next
  <2>2. \A t \in Searches : Told(t)'
    BY <2>1, AgainTold, InOrderNext, RecordedNext, ClosedNext, ShownNext, NoneLinkedNext, CondemningNext DEF Told
  <2> QED BY <1>1, <2>2 DEF ToldInv
<1> QED
  BY <1>2, <1>3

LEMMA ToldTells == ASSUME StoreAssumption, ToldInv PROVE StatusTellsResults
<1>1. SUFFICES ASSUME NEW s \in Searches, crawl[s].pc = "over", history[s] # "none", ~overlap,
                      NEW mine, mine = {a \in attempts : a.search = s},
                      NEW last, last = {a \in mine : a.run = crawl[s].run}
               PROVE  /\ CASE history[s] = "completed" ->
                                crawl[s].failed = {} /\ (raced \/ \A u \in crawl[s].got : Linked(s, u))
                           [] history[s] = "partial" ->
                                crawl[s].failed # {} /\ (raced \/ \E u \in Urls : Linked(s, u))
                           [] history[s] = "failed" -> crawl[s].failed # {} /\ LinksOf(s) \subseteq crawl[s].before
                      /\ {a.site : a \in last} = 1..Sites
                      /\ \A a, b \in mine : a.run = b.run /\ a.site = b.site => a = b
                      /\ history[s] = "completed" <=> \A a \in last : ~a.error
  BY DEF StatusTellsResults
<1>2. /\ InOrder(s) /\ Recorded(s) /\ Closed(s) /\ Shown(s) /\ NoneLinked(s) /\ crawl[s] \in CrawlType
      /\ attempts \subseteq Rows /\ Sites \in Nat
  BY DEF ToldInv, Told, StoreInv, TypeInv, TypeOK, StoreAssumption, Rows
<1>3. history[s] = Outcome(crawl[s]) /\ crawl[s].site = Sites + 1 /\ crawl[s].todo = {}
  BY <1>1, <1>2 DEF Closed, InOrder
<1>4. /\ \A n \in 1..Sites : \E a \in last : a.site = n
      /\ \A a \in last : a.site \in 1..Sites /\ (a.error <=> a.site \in crawl[s].failed)
      /\ \A a, b \in mine : a.run = b.run /\ a.site = b.site => a = b
  <2>1. AttemptsTell(s) /\ OncePerRun(s)
    BY <1>1, <1>2 DEF Recorded, Begun
  <2>2. \A a : a \in last <=> a \in attempts /\ OfLast(s, a)
    BY <1>1 DEF OfLast
  <2>3. \A n \in 1..Sites : n < crawl[s].site
    BY <1>2, <1>3
  <2> QED BY <1>1, <1>2, <2>1, <2>2, <2>3 DEF AttemptsTell, OncePerRun, Rows
<1>5. {a.site : a \in last} = 1..Sites
  BY <1>4
<1>6. crawl[s].failed \subseteq 1..Sites
  BY <1>2 DEF CrawlType
<1>7. history[s] = "completed" <=> crawl[s].failed = {}
  BY <1>3 DEF Outcome
<1>8. crawl[s].failed = {} <=> \A a \in last : ~a.error
  BY <1>4, <1>6
<1>9. crawl[s].failed = {} => raced \/ \A u \in crawl[s].got : Linked(s, u)
  BY <1>1, <1>2, <1>3 DEF Shown, Begun, Holding
<1>10. crawl[s].saved => raced \/ \E u \in Urls : Linked(s, u)
  BY <1>1, <1>2 DEF Shown, Begun
<1>11. ~crawl[s].saved => LinksOf(s) \subseteq crawl[s].before
  BY <1>1, <1>2 DEF NoneLinked, Begun
<1>12. \/ history[s] = "completed" /\ crawl[s].failed = {}
       \/ history[s] = "partial" /\ crawl[s].failed # {} /\ crawl[s].saved
       \/ history[s] = "failed" /\ crawl[s].failed # {} /\ ~crawl[s].saved
  BY <1>3 DEF Outcome
<1> QED
  BY <1>4, <1>5, <1>7, <1>8, <1>9, <1>10, <1>11, <1>12

\* Whatever searches run, share listings and are deleted beside each other, wherever their steps fail and
\* earlier executions of their crawls stopped, as long as the executions of one search follow one another
\* and no search is deleted while it is filled: when a crawl is over, the status of its search says what
\* became of the sites and listings of the last execution, which has one attempt for each site, with its
\* error.  A failed search has at most the links that earlier executions made.
THEOREM StatusTells == ASSUME StoreAssumption PROVE Spec => []StatusTellsResults
<1>1. Init => ToldInv
  BY ToldInit
<1>2. ToldInv /\ [Next]_vars => ToldInv'
  BY ToldNext
<1>3. ToldInv => StatusTellsResults
  BY ToldTells
<1> QED
  BY <1>1, <1>2, <1>3, PTL DEF Spec

=============================================================================
