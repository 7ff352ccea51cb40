----------------------------- MODULE MCRegistry -----------------------------
(* Finite instances of Registry. *)
EXTENDS Registry, TLC

\* One of the default tasks, with the name the code gives it.
OneTask == <<"translation">>

Symmetry == Permutations(Containers)

=============================================================================
