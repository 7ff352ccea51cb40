---------------------------- MODULE MCInference ----------------------------
(* Finite instances of Inference. *)
EXTENDS Inference, TLC

\* A baseline over two slugs, each with a batch that is not full.
TwoSlugs == <<{1, 2, 3}, {4, 5, 6}>>

\* Datasets that are translated, or lack the last sample of one of the slugs, so
\* that generate() raises with the first batch of the slug appended.
LastOfASlug == {{}, {3}, {6}}

=============================================================================
