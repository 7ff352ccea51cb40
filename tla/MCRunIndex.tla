---------------------------- MODULE MCRunIndex ----------------------------
(* Finite instances of RunIndex. *)
EXTENDS RunIndex, TLC

\* Containers of one function are interchangeable, and so are run ids.
Symmetry == Permutations(Drivers) \cup Permutations(Checkers) \cup Permutations(Runs)

=============================================================================
