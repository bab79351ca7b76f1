------------------------------ MODULE Selections ------------------------------
(* What the language's filter and flat make of arrays.  Folds where SelectSeq and  *)
(* FlattenSeq would do: what a fold computes can be proved.                       *)
EXTENDS Sequences, SequencesExt

(* The elements of s that are in S, in their order. *)
Where(s, S) == FoldLeft(LAMBDA out, x : IF x \in S THEN Append(out, x) ELSE out, << >>, s)

(* The elements of each of ss, one after the other. *)
Joined(ss) == FoldLeft(LAMBDA out, s : out \o s, << >>, ss)

=============================================================================
