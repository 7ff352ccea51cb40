--------------------------- MODULE MCReviewCache ---------------------------
(* The instance of ReviewCache. *)
EXTENDS ReviewCache

CONSTANTS r1, r2, q1, q2

TwoRuns     == {r1, r2}
TwoRequests == {q1, q2}

\* Everything that may happen to one run of two slugs; forced downloads of one
\* slug; two refreshes at a time over two runs; one that may fail; and pages whose
\* making is stopped.
SomeSettings ==
    {[runs |-> {r1}, slugs |-> Slugs, full |-> 2, errors |-> 1, asked |-> {r1},
      requests |-> {q1}, flaky |-> TRUE, force |-> FALSE, stops |-> FALSE],
     [runs |-> {r1}, slugs |-> {1}, full |-> 2, errors |-> 0, asked |-> {r1},
      requests |-> {q1}, flaky |-> TRUE, force |-> TRUE, stops |-> FALSE],
     [runs |-> TwoRuns, slugs |-> {1}, full |-> 3, errors |-> 1, asked |-> {},
      requests |-> TwoRequests, flaky |-> FALSE, force |-> FALSE, stops |-> FALSE],
     [runs |-> TwoRuns, slugs |-> Slugs, full |-> 1, errors |-> 0, asked |-> {},
      requests |-> {q1}, flaky |-> TRUE, force |-> FALSE, stops |-> FALSE],
     [runs |-> {r1}, slugs |-> Slugs, full |-> 1, errors |-> 0, asked |-> {r1},
      requests |-> {}, flaky |-> FALSE, force |-> FALSE, stops |-> TRUE]}

=============================================================================
