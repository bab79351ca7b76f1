------------------------------ MODULE MCAlgorithms ------------------------------
(* The instance of Algorithms that TLC checks. *)
EXTENDS Algorithms

(* Listings that look alike in their text or not, with scores left out or beyond  *)
(* their range, and results on both sides of every threshold.                     *)
MCAnswers == {[items |-> [i \in Items |-> IF i = "brand" THEN b ELSE o], matching |-> m, ai |-> a] :
                b \in {Missing, 59, 100, 150}, o \in {Missing, 60, 100},
                m \in {Missing, -5, 49, 50, 130}, a \in {Missing, 95}}

MCEngineResults ==
    {[color |-> c, pHash |-> p, ssim |-> s, looksSame |-> l, openCv |-> o] :
        c \in {Skipped, 349, 700}, p \in {Skipped, 299, 600, 950}, s \in {Skipped, 500, 800, 930},
        l \in {Skipped, 300, 720}, o \in {Skipped, 390, 650}}

MCSimilarities == {0, 25, 39, 40, 59, 60, 100}

MCKeyOf(w)   == IF w = "Ace" THEN "ace" ELSE w
MCIsShort(w) == w = "a"

MCAliases(term) == CASE term = <<"simmons">>    -> <<<<"SIMMONS">>>>
                     [] term = <<"beautyrest">> -> <<<<"BEAUTYREST">>>>
                     [] OTHER                   -> << >>
MCIsLong(c)     == c # <<"K">>
MCInName(n, c)  == \E i \in DOMAIN n : <<n[i]>> = c
MCOrders == [brand : {<< >>, <<"simmons">>}, productName : {<< >>, <<"simmons", "bed">>, <<"sofa">>},
             modelName : {<< >>, <<"beautyrest">>}, option : {<< >>, <<"K">>, <<"queen">>},
             color : {<< >>, <<"white">>}]
MCTitles == {<<"b">>, <<"a", "a">>, <<"a", "a", "b">>, <<"b", "a", "a", "a">>}

MCIncludes(m, n) == <<m, n>> \in {<<"gpt-4.1-mini", "gpt-4.1-mini">>, <<"gpt-4.1-mini", "gpt-4.1">>,
                                  <<"gpt-4.1", "gpt-4.1">>}
MCPriceOf(n)     == CASE n = "gpt-4.1-mini" -> 2 [] n = "gpt-4.1" -> 10

MCUrls == [protocol : {"https"}, credentials : {FALSE}, host : {"public", "private"}]
          \cup [protocol : {"http"}, credentials : {TRUE}, host : {"public"}]

(* A region with rural places enough, one with none, and one without any places. *)
MCPlaces(p)  == CASE p = "gyeonggi" -> <<"r1", "b1", "r2", "r3", "r4">>
                  [] p = "seoul"    -> <<"b2", "b3", "b4", "b5">>
                  [] p = "jeju"     -> << >>
MCIsRural(x) == x \in {"r1", "r2", "r3", "r4"}
MCRegions    == {<< >>, <<"gyeonggi">>, <<"jeju", "nowhere">>, <<"seoul", "gyeonggi", "seoul">>,
                 <<"nowhere">>, <<"all", "seoul">>}
MCUsable(l)  == l # "label"
MCTokens(l)  == CASE l = "near" -> {"gyeonggi"} [] l = "two" -> {"seoul", "gyeonggi"} [] OTHER -> {}
MCAlike(l)   == CASE l = "near" -> 2 [] l = "two" -> 2 [] OTHER -> 1
MCFound      == {<< >>, <<"far">>, <<"far", "label", "far", "near">>, <<"near", "near", "two">>}

(* Orders whose fields are there under one name or another, blank or wrong ones     *)
(* first.                                                                          *)
MCTexts(name, other) ==
    [f \in {"brand", "productName", "modelName", "option", "color", "productNo", "contractNo",
            "customerName"} |-> IF f = "productName" THEN name ELSE other]
MCOrderWith(name, other, images, prices) ==
    [f \in DOMAIN MCTexts(name, other) \cup {"imageUrl", "price"} |->
        CASE f = "imageUrl" -> images [] f = "price" -> prices [] OTHER -> MCTexts(name, other)[f]]
MCRawOrders ==
    {MCOrderWith(name, other, <<"null", "path", IF name = <<"v1">> THEN "http1" ELSE "http2">>,
                 <<"null", "blank", "v1">>) :
        name \in {<<"v1">>, <<"null", "v2">>, <<"blank", "v1">>},
        other \in {<<"v1", "v2", "v1">>, <<"blank", "null", "v2">>}}
MCIsUrl(v) == v \in {"http1", "http2"}

MCHints     == <<<<"bed">>, <<"sofa">>>>
MCFromModel == {<< >>, <<<<"bed">>>>}
MCKeyword   == <<"a", "a", "b">>
MCTable     == <<"gpt-4.1-mini", "gpt-4.1">>
MCPresets   == <<"gyeonggi", "seoul", "jeju">>
MCWhole(p)  == p
MCOpinions  == {[summary |-> "s", reasons |-> << >>], [summary |-> "s", reasons |-> <<"r", "q">>]}
MCAdvices   == {[headline |-> "h", stars |-> 3]}
MCScores    == {Missing, -5, 85, 130}
MCMeasures  == {Missing, 60, 130}

=============================================================================
