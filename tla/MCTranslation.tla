--------------------------- MODULE MCTranslation ---------------------------
(* Finite instances of Translation: the default limits of its evaluations. *)
EXTENDS Translation

\* No limit, none at all, and fewer than the samples.
SomeLimits == {None, 0, 1}

=============================================================================
