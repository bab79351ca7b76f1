------------------------------- MODULE SiteAdapter -------------------------------
(* One crawl of one site by its adapter: karrot.adapter.ts, which asks place after *)
(* place and slows down or gives up when the site blocks it; joonggonara.adapter.ts *)
(* with its search API and the page it falls back on; bungae.adapter.ts with one   *)
(* request.  Requests, pages and browsers are outcomes; waiting is left out, and   *)
(* so is the shuffling of the places, since any place may have any outcome.        *)
EXTENDS Integers, FiniteSets, Selections

CONSTANTS Presets,             \* the codes of the regions, in order
          Places(_),           \* the places listed for a region, in order
          IsRural(_),          \* 읍 or 면
          Whole(_),            \* the place that stands for a whole region
          Enough, MaxRural, MaxPlaces,
          BackOffAt, AbortAt,  \* consecutive refusals
          Regions,             \* the lists of codes that are asked for
          Listings, Usable(_), \* has a url and a title that is not a label of the page
          Tokens(_),           \* the regions whose tokens a listing's place contains
          Alike(_),            \* how alike a listing's title is to the keyword
          Answers,             \* the lists of listings a request may be answered with
          MaxResults

AdapterAssumption == /\ {Enough, MaxRural, MaxPlaces, BackOffAt, AbortAt, MaxResults} \subseteq Nat \ {0}
                     /\ BackOffAt <= AbortAt
                     /\ {Presets} \cup Regions \subseteq Seq(STRING)
                     /\ \A p \in ToSet(Presets) : Places(p) \in Seq(STRING) /\ Whole(p) \in STRING
                     /\ Answers \subseteq Seq(Listings)

VARIABLES site, codes,   \* what is crawled
          targets,       \* the places to ask
          step,          \* "ask", "page" (the fallback), "done" or "failed"
          walk,          \* the loop over the places of Karrot
          askedAt,       \* how often each place was asked
          offered,       \* ghost: the listings of the answer that was kept from
          result

adapterVars == <<site, codes, targets, step, walk, askedAt, offered, result>>

-----------------------------------------------------------------------------
(* The regions. *)

Once(s) == FoldLeft(LAMBDA seen, x : IF Contains(seen, x) THEN seen ELSE Append(seen, x), << >>, s)

Resolved(cs) ==
    LET known == Once(Where(cs, ToSet(Presets)))
    IN  IF Contains(cs, "all") \/ known = << >> THEN Presets ELSE known

Nationwide(cs) == Len(Resolved(cs)) >= Len(Presets)

First(n, s) == SubSeq(s, 1, IF n < Len(s) THEN n ELSE Len(s))

(* All the rural places of a region when there are enough of them, else the first  *)
(* of its places; over the whole country each region and some of its rural ones.   *)
PlacesOf(p, everywhere) ==
    LET rural == Where(Places(p), {x \in ToSet(Places(p)) : IsRural(x)})
        dense == IF Len(rural) >= Enough THEN rural ELSE First(MaxPlaces, Places(p))
    IN  IF everywhere THEN <<Whole(p)>> \o First(MaxRural, rural)
        ELSE IF dense # << >> THEN dense
        ELSE <<Whole(p)>>

KarrotIns(cs) ==
    LET each == [i \in DOMAIN Resolved(cs) |-> PlacesOf(Resolved(cs)[i], Nationwide(cs))]
    IN  Once(Joined(each))

InRegions(l, cs) == Nationwide(cs) \/ \E p \in ToSet(Resolved(cs)) : p \in Tokens(l)

AllPlaces == UNION {ToSet(Places(p)) \cup {Whole(p)} : p \in ToSet(Presets)}

-----------------------------------------------------------------------------
Init ==
    /\ site \in {"karrot", "joonggonara", "bungae"} /\ codes \in Regions
    /\ targets = (IF site = "karrot" THEN KarrotIns(codes) ELSE << >>)
    /\ step = "ask"
    /\ walk = [at |-> 1, width |-> 2, streak |-> 0, blocked |-> FALSE, answered |-> FALSE,
               aborted |-> FALSE, merged |-> {}]
    /\ askedAt = [p \in AllPlaces |-> 0]
    /\ offered = << >> /\ result = << >>

(* What normalize leaves. *)
Normalized(items) == Where(items, {l \in Listings : Usable(l)})

Failed == /\ step' = "failed"
          /\ UNCHANGED <<site, codes, targets, walk, askedAt, offered, result>>

-----------------------------------------------------------------------------
(* Karrot. *)
(* The articles embedded in the page, or else those of its linked data. *)
Parsed(page) == Normalized(IF page.embedded # << >> THEN page.embedded ELSE page.linked)

Outcomes == {[kind |-> k, embedded |-> << >>, linked |-> << >>] : k \in {"refused", "error"}}
            \cup [kind : {"page"}, embedded : Answers, linked : {<< >>}]
            \cup [kind : {"page"}, embedded : {<< >>}, linked : Answers]

(* One result of a batch: 403 and 429 count, anything else ends the streak. *)
Took(w, o) ==
    CASE o.kind = "refused" -> [w EXCEPT !.streak = @ + 1, !.blocked = TRUE]
      [] o.kind = "error"   -> [w EXCEPT !.streak = 0]
      [] o.kind = "page"    -> [w EXCEPT !.streak = 0, !.answered = TRUE,
                                         !.merged = @ \cup ToSet(Parsed(o))]

(* A slip of Advanced: the places of a batch of two are passed one at a time too. *)
AdvancedByTwo(w) ==
    [w EXCEPT !.width = IF w.streak >= BackOffAt THEN 1 ELSE @, !.at = @ + 2]

(* After a batch: one request at a time once refused too often, and the next index *)
(* by the new width, which asks one place again.                                   *)
Advanced(w) ==
    LET width == IF w.streak >= BackOffAt THEN 1 ELSE w.width
    IN  IF w.streak >= AbortAt THEN [w EXCEPT !.width = width, !.aborted = TRUE]
        ELSE [w EXCEPT !.width = width, !.at = @ + width]

AskBatch ==
    /\ site = "karrot" /\ step = "ask" /\ ~walk.aborted /\ walk.at <= Len(targets)
    /\ LET batch == First(walk.width, SubSeq(targets, walk.at, Len(targets)))
       IN  /\ \E o \in [DOMAIN batch -> Outcomes] : walk' = Advanced(FoldLeft(Took, walk, o))
           /\ askedAt' = [p \in AllPlaces |-> askedAt[p] + (IF Contains(batch, p) THEN 1 ELSE 0)]
    /\ UNCHANGED <<site, codes, targets, step, offered, result>>

(* selectTopByTitleSimilarity: the most alike, among equals any. *)
Top(listings) ==
    {t \in SUBSET listings : /\ Cardinality(t) = (IF Cardinality(listings) < MaxResults
                                                  THEN Cardinality(listings) ELSE MaxResults)
                             /\ \A l \in t, m \in listings \ t : Alike(l) >= Alike(m)}

(* A slip of BlockedOut: only an aborted walk is an error. *)
AbortedOnly(w) == w.aborted /\ w.merged = {}

BlockedOut(w) == w.merged = {} /\ w.blocked /\ ~w.answered

EndWalk ==
    /\ site = "karrot" /\ step = "ask" /\ (walk.aborted \/ walk.at > Len(targets))
    /\ IF BlockedOut(walk) THEN Failed
       ELSE /\ step' = "done" /\ \E t \in Top(walk.merged) : result' = SetToSeq(t)
            /\ offered' = SetToSeq(walk.merged)
            /\ UNCHANGED <<site, codes, targets, walk, askedAt>>

-----------------------------------------------------------------------------
(* The other two filter by the region an answer names. *)

Wanted == {l \in Listings : InRegions(l, codes)}

(* A slip of Selected: cut first, as crawl of the base class does. *)
CutFirst(items) == Where(First(MaxResults, items), Wanted)

Selected(items) == First(MaxResults, Where(items, Wanted))

Keep(items) ==
    /\ step' = "done" /\ result' = Selected(items) /\ offered' = items
    /\ UNCHANGED <<site, codes, targets, walk, askedAt>>

AskBungae ==
    /\ site = "bungae" /\ step = "ask"
    /\ Failed \/ \E answer \in Answers : Keep(Normalized(answer))

(* The search API: an error and an empty answer both lead to the page, an answer   *)
(* without a listing of the regions does not.                                      *)
AskApi ==
    /\ site = "joonggonara" /\ step = "ask"
    /\ \E answer \in Answers :
          IF Normalized(answer) # << >> THEN Keep(Normalized(answer))
          ELSE step' = "page" /\ UNCHANGED <<site, codes, targets, walk, askedAt, offered, result>>

ApiFails ==
    /\ site = "joonggonara" /\ step = "ask" /\ step' = "page"
    /\ UNCHANGED <<site, codes, targets, walk, askedAt, offered, result>>

InFlight(items) == Normalized(items)
OnPage(items)   == Normalized(Once(items))

(* The listings in the page's data, or else its links; cut before they are         *)
(* filtered, by the crawl of the base class.                                       *)
ReadPage ==
    /\ site = "joonggonara" /\ step = "page"
    /\ \E flight \in Answers, dom \in Answers :
          LET items == IF InFlight(flight) # << >> THEN InFlight(flight) ELSE OnPage(dom)
          IN  Keep(Normalized(First(MaxResults, items)))

(* TIMEOUT, NAVIGATION, or a browser that does not start. *)
PageFails == site = "joonggonara" /\ step = "page" /\ Failed

Next == AskBatch \/ EndWalk \/ AskBungae \/ AskApi \/ ApiFails \/ ReadPage \/ PageFails

Fairness == WF_adapterVars(Next)

-----------------------------------------------------------------------------
(* However the site refuses and the loop changes its pace, every place of the     *)
(* regions asked for, and no other, is asked, at most twice; unless the crawl was  *)
(* given up.                                                                       *)
AllAsked ==
    site = "karrot" /\ step # "ask" =>
        LET wanted == ToSet(KarrotIns(codes))
        IN  \A p \in AllPlaces :
               /\ askedAt[p] \in 0..2 /\ (askedAt[p] > 0 => p \in wanted)
               /\ p \in wanted /\ ~walk.aborted => askedAt[p] > 0

(* What a crawl returns is usable, of the regions asked for, no more than asked    *)
(* for, and leaves out a listing of the answer only when it is full; and a site    *)
(* that has refused and never answered is an error instead of an empty result.     *)
RightlyKept ==
    step = "done" =>
        /\ Len(result) <= MaxResults
        /\ \A l \in ToSet(result) : Usable(l) /\ (site = "karrot" \/ InRegions(l, codes))
        /\ Len(result) < MaxResults =>
              \A l \in ToSet(offered) : site = "karrot" \/ InRegions(l, codes) => l \in ToSet(result)
        /\ site = "karrot" /\ walk.blocked => walk.answered

(* A crawl of a site ends. *)
CrawlEnds == <>(step \in {"done", "failed"})

=============================================================================
