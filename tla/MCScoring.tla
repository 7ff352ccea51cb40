----------------------------- MODULE MCScoring -----------------------------
(* Finite instances of Scoring. *)
EXTENDS Scoring, TLC

\* Containers are interchangeable; no CHOOSE of the model picks among them.
Symmetry == Permutations(Containers)

=============================================================================
