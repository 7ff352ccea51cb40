--------------------------- MODULE MCMetricFiles ---------------------------
(* The instance of MetricFiles. *)
EXTENDS MetricFiles

\* One stage of each of two languages, two stages of one, and one of one whose
\* calls Modal starts again.
SomeSettings ==
    {[tier |-> "light", attempts |-> <<1, 1>>, starts |-> 1],
     [tier |-> "light", attempts |-> <<2, 0>>, starts |-> 1]}
    \cup {[tier |-> t, attempts |-> <<1, 0>>, starts |-> 2] : t \in {"light", "model"}}

=============================================================================
