---------------------------------- MODULE MCCases ----------------------------------
(* An instance of Cases: two listings and two cases on the dashboard.                 *)
EXTENDS Cases, TLC

(* What a run or a call does, it could do with another listing and another identifier. *)
Symmetry == Permutations(Listings) \cup Permutations(Ids) \cup Permutations(Runs)
=============================================================================
