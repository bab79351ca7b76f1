---------------------------- MODULE MCCrawlQueue ----------------------------
(***************************************************************************)
(* Instances of CrawlQueue for TLC.  Searches, moves and retry calls are   *)
(* interchangeable.                                                        *)
(***************************************************************************)
EXTENDS CrawlQueue, TLC

Symmetry == Permutations(Searches) \cup Permutations(Movers) \cup Permutations(Retries)
=============================================================================
