----------------------------- MODULE SearchKeywords -----------------------------
(* The keywords searched for an order, and the listings kept of what a site has   *)
(* for one of them.  search-keyword-generator.service.ts and                      *)
(* common/utils/string.util.ts.  A phrase is a sequence of words; a title is a    *)
(* sequence of letters.                                                           *)
EXTENDS Integers, Sequences, FiniteSets, SequencesExt, FiniteSetsExt

CONSTANTS Hints,            \* CATEGORY_HINTS, in their order
          Aliases(_),       \* a word's other names, in their order
          IsLong(_),        \* a phrase has two characters or more
          InName(_, _),     \* the product's name contains a phrase
          MaxCount          \* 20

Nothing == << >>            \* a field the order does not have
Fields  == {"brand", "productName", "modelName", "option", "color"}

(* joinParts. *)
Join(parts) == FlattenSeq(parts)

(* push: only what is long enough. *)
Pushed(candidates) == SelectSeq(candidates, LAMBDA c : c # Nothing /\ IsLong(c))

(* dedupe: the first of each stays. *)
Dedupe(list) == FoldLeft(LAMBDA out, c : IF c \in ToSet(out) THEN out ELSE Append(out, c),
                         << >>, list)

(* The hints the product's name contains. *)
HintsOf(name) == IF name = Nothing THEN << >>
                 ELSE SelectSeq(Hints, LAMBDA h : InName(name, h))

(* expandAliases. *)
AliasesOf(term) == IF term = Nothing THEN << >> ELSE Aliases(term)

Hinted(word, name) == [i \in DOMAIN HintsOf(name) |-> Join(<<word, HintsOf(name)[i]>>)]

(* The product's name, with the brand before it unless it is already in it. *)
WithName(o) ==
    IF o.productName = Nothing THEN << >>
    ELSE IF o.brand # Nothing /\ InName(o.productName, o.brand) THEN <<o.productName>>
    ELSE <<Join(<<o.brand, o.productName>>), o.productName>>

Combinations(o) ==
    <<Join(<<o.brand, o.modelName>>), o.modelName,
      Join(<<o.modelName, o.option>>), Join(<<o.modelName, o.color>>),
      Join(<<o.brand, o.modelName, o.option>>), Join(<<o.brand, o.modelName, o.color>>)>>

(* The brand's other names, then the model's. *)
Renamed(o) ==
    FlattenSeq([i \in DOMAIN AliasesOf(o.brand) |->
        LET alias == AliasesOf(o.brand)[i]
        IN  <<Join(<<alias, o.modelName>>)>> \o Hinted(alias, o.productName)])
    \o FlattenSeq([i \in DOMAIN AliasesOf(o.modelName) |->
        LET alias == AliasesOf(o.modelName)[i]
        IN  <<alias, Join(<<o.brand, alias>>), Join(<<alias, o.option>>),
              Join(<<alias, o.color>>)>>])

Cut(list) == SubSeq(list, 1, IF Len(list) < MaxCount THEN Len(list) ELSE MaxCount)

(* generateRules. *)
Rules(o) ==
    Cut(Dedupe(Pushed(
        Combinations(o) \o WithName(o)
        \o (IF o.brand # Nothing THEN Hinted(o.brand, o.productName) ELSE << >>)
        \o <<Join(<<o.brand, o.option>>), Join(<<o.brand, o.color>>)>>
        \o Renamed(o))))

(* generateAsync: the model's keywords, or the rules' when it is off, fails or has none. *)
Generate(o, fromModel) == IF fromModel # << >> THEN fromModel ELSE Rules(o)

-----------------------------------------------------------------------------
(* titleSimilarity, as a fraction: twice the pairs of letters in common over the  *)
(* pairs of both; a title of one letter has none, and then the divisor is 1.      *)

Pairs(t, g) == Cardinality({i \in 1..(Len(t) - 1) : <<t[i], t[i + 1]>> = g})

PairsOf(t) == {<<t[i], t[i + 1]>> : i \in 1..(Len(t) - 1)}

Common(a, b) == MapThenFoldSet(LAMBDA x, y : x + y, 0,
                    LAMBDA g : IF Pairs(a, g) < Pairs(b, g) THEN Pairs(a, g) ELSE Pairs(b, g),
                    LAMBDA S : CHOOSE g \in S : TRUE, PairsOf(a))

Similarity(a, b) ==
    CASE a = << >> \/ b = << >> -> <<0, 1>>
      [] a # << >> /\ a = b     -> <<1, 1>>
      [] a # << >> /\ b # << >> /\ a # b ->
           <<2 * Common(a, b), IF Len(a) + Len(b) = 2 THEN 1 ELSE Len(a) + Len(b) - 2>>

Greater(p, q) == p[1] * q[2] > q[1] * p[2]

(* selectTopByTitleSimilarity: the most similar first, the newest of equals first,  *)
(* those that are equal in both as they came; cut at the limit.                   *)
Before(keyword, items, i, j) ==
    LET a == Similarity(keyword, items[i].title)
        b == Similarity(keyword, items[j].title)
    IN  \/ Greater(a, b)
        \/ ~Greater(b, a) /\ items[i].listed > items[j].listed
        \/ ~Greater(b, a) /\ items[i].listed = items[j].listed /\ i < j

(* A slip of SelectTop: the first that come are kept. *)
FirstCome(keyword, items, limit) == {i \in DOMAIN items : i <= limit}

(* The places of those kept. *)
SelectTop(keyword, items, limit) ==
    {i \in DOMAIN items :
        Cardinality({j \in DOMAIN items : Before(keyword, items, j, i)}) < limit}

(* crawlCandidateLimit: what is collected at a site of which so many are kept. *)
CandidateLimit(max) ==
    LET keep == IF max < 1 THEN 1 ELSE max
    IN  IF 5 * keep > 300 THEN 300 ELSE 5 * keep

-----------------------------------------------------------------------------
CONSTANTS Orders, FromModel, Keyword, Titles, Limits,
          MaxItems          \* bound on the listings a site has

SearchAssumption == Limits \subseteq Nat /\ \A t \in Titles \cup {Keyword} : t \in Seq(STRING)

VARIABLES keywords,     \* an order and its keywords
          crawl         \* a site's listings as they come, and the places of those kept

Unknown == [order |-> "none"]

Init == /\ keywords = Unknown
        /\ crawl \in [items : {<< >>}, kept : {{}}, limit : Limits, over : {FALSE}]

(* One or the other is explored, since they have nothing in common but the keyword. *)
MakeKeywords ==
    /\ keywords = Unknown /\ crawl.items = << >> /\ ~crawl.over
    /\ \E o \in Orders, m \in FromModel :
          keywords' = [order |-> o, model |-> m, out |-> Generate(o, m)]
    /\ UNCHANGED crawl

Collect ==
    /\ keywords = Unknown /\ ~crawl.over
    /\ Len(crawl.items) < CandidateLimit(crawl.limit) /\ Len(crawl.items) < MaxItems
    /\ \E t \in Titles, d \in 0..1 :
          crawl' = [crawl EXCEPT !.items = Append(@, [title |-> t, listed |-> d])]
    /\ UNCHANGED keywords

Select ==
    /\ keywords = Unknown /\ ~crawl.over
    /\ crawl' = [crawl EXCEPT !.over = TRUE,
                              !.kept = SelectTop(Keyword, crawl.items, crawl.limit)]
    /\ UNCHANGED keywords

Next == MakeKeywords \/ Collect \/ Select

-----------------------------------------------------------------------------

(* No listing is dropped for one whose title is less like the keyword, and as many *)
(* are kept as the limit and the site allow.                                      *)
BestKept ==
    crawl.over =>
        LET n == Len(crawl.items)
            like(i) == Similarity(Keyword, crawl.items[i].title)
        IN  /\ \A i \in crawl.kept, j \in (1..n) \ crawl.kept : ~Greater(like(j), like(i))
            /\ Cardinality(crawl.kept) = IF n < crawl.limit THEN n ELSE crawl.limit

=============================================================================
