------------------------ MODULE MCInvestigationCase ------------------------
(* Instances of InvestigationCase for TLC. *)
EXTENDS InvestigationCase, TLC

\* Listings, runs and the identifiers of cases are interchangeable.
Symmetry == Permutations(Listings) \cup Permutations(Ids) \cup Permutations(Runs)

=============================================================================
