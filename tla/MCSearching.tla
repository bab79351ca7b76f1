---------------------------- MODULE MCSearching ----------------------------
(***************************************************************************)
(* The instance of Searching for TLC.  The first site has all the          *)
(* listings, so that a search can end with a site that failed beside one   *)
(* that gave a listing.                                                    *)
(***************************************************************************)
EXTENDS Searching, TLC

MCSiteOf == [u \in Urls |-> 1]

\* What CrawlStore promises holds until a search is deleted while it is being
\* filled, and nothing is claimed from then on.
UntilOverlap == ~overlap

\* The job visits its keywords in any order.
Symmetry == Permutations(Keywords)
=============================================================================
