------------------------------- MODULE MCServices -------------------------------
(* The instance of Services that TLC checks. *)
EXTENDS Services

CONSTANTS l1, l2, l3, q1

MCRanking   == <<l1, l2, l3>>
MCPromising == {l1, l3}

(* Scores on both sides of every threshold, with and without a price. *)
MCContexts == [aiScore : {0, 39, 45, 50, 89, 90, 100}, priceDiffPercent : {-1, 69, 70}]

=============================================================================
