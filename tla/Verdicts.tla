------------------------------ MODULE Verdicts ------------------------------
(***************************************************************************)
(* What is made of a verdict file, which the judge appends to: the         *)
(* judge section of the report (_summarize_verdicts), the winners of the   *)
(* review pages (aggregate_verdicts, overall_winner), and the grades that  *)
(* the report and the dashboard give; and the keys and winners that the    *)
(* verdicts have.  A selection of the verdicts is the set I of their       *)
(* positions in the file.                                                  *)
(***************************************************************************)
EXTENDS Grades, Sequences

CONSTANTS
    Prompts,    \* ids of the judged prompts
    SwapRuns,   \* swap_runs (2)
    Dims        \* DIMENSIONS[task], named by their rank

\* A judge stage has prompts, swap runs and dimensions.
ASSUME SizesAssumption ==
    /\ Prompts \subseteq Nat /\ IsFiniteSet(Prompts) /\ Prompts # {}
    /\ Dims \subseteq Nat /\ IsFiniteSet(Dims) /\ Dims # {}
    /\ SwapRuns \in Nat \ {0}

Sides == {"regional", "gemma4"}

-----------------------------------------------------------------------------
(* The judge                                                               *)

Swaps == 0..(SwapRuns - 1)
Keys  == Prompts \X Swaps \X Dims

\* Mutant: A is the regional model in every swap run.
WinnerUnswapped(letter, swap) ==
    CASE letter = "A" -> "regional" [] letter = "B" -> "gemma4" [] OTHER -> "tie"

\* "Translate A/B winner back to model identity": the first swap run shows the
\* regional output as A, the others as B.
WinnerModel(letter, swap) ==
    CASE letter = "A" -> IF swap = 0 THEN "regional" ELSE "gemma4"
      [] letter = "B" -> IF swap = 0 THEN "gemma4" ELSE "regional"
      [] OTHER -> "tie"

Verdict(key, letter) ==
    [prompt       |-> key[1],
     swap_run     |-> key[2],
     dimension    |-> key[3],
     letter       |-> letter,
     winner_model |-> WinnerModel(letter, key[2]),
     error        |-> letter = "error"]

KeyOf(v) == <<v.prompt, v.swap_run, v.dimension>>

\* The loops' order: dimensions within swap runs within prompts.
Before(j, k) ==
    \/ j[1] < k[1]
    \/ j[1] = k[1] /\ (j[2] < k[2] \/ (j[2] = k[2] /\ j[3] < k[3]))

First(keys) == {k \in keys : \A j \in keys : ~Before(j, k)}

\* The key that is judged next.
NextKeys(verdicts) == First(Keys \ {KeyOf(verdicts[i]) : i \in DOMAIN verdicts})

-----------------------------------------------------------------------------
(* _summarize_verdicts                                                     *)

Won(verdicts, I, side) == Cardinality({i \in I : verdicts[i].winner_model = side})

ByDimension(verdicts) ==
    [d \in {verdicts[i].dimension : i \in DOMAIN verdicts} |->
        [side \in Sides \cup {"tie"} |->
            Won(verdicts, {i \in DOMAIN verdicts : verdicts[i].dimension = d}, side)]]

Pairs(verdicts, I) == {<<verdicts[i].prompt, verdicts[i].dimension>> : i \in I}
VotesOf(verdicts, I, pair) ==
    {i \in I : verdicts[i].prompt = pair[1] /\ verdicts[i].dimension = pair[2]}

\* The first two of some positions.
FirstTwo(I, i, j) == i \in I /\ j \in I /\ i < j /\ \A k \in I : k \in {i, j} \/ j < k

\* Mutant: agreement in letters.
FirstTwoAgreeByLetter(verdicts, I) ==
    \E i, j \in I : FirstTwo(I, i, j) /\ verdicts[i].letter = verdicts[j].letter

FirstTwoAgree(verdicts, I) ==
    \E i, j \in I : FirstTwo(I, i, j) /\ verdicts[i].winner_model = verdicts[j].winner_model

\* Pairs whose first two votes agree, of all pairs.
Consistency(verdicts) ==
    LET I        == DOMAIN verdicts
        agreeing == {p \in Pairs(verdicts, I) : FirstTwoAgree(verdicts, VotesOf(verdicts, I, p))}
    IN  IF I = {} THEN None ELSE Round4(Cardinality(agreeing), Cardinality(Pairs(verdicts, I)))

\* The judge section of the report: rates as in Grades.
Judge(verdicts) ==
    LET won(side) == Won(verdicts, DOMAIN verdicts, side) IN
    Summary(won("regional"), won("gemma4"), won("tie"))

-----------------------------------------------------------------------------
(* The review pages                                                        *)

\* A majority of the two sides; a genuine split is a tie.
Majority(r, g) == CASE r > g -> "regional" [] g > r -> "gemma4" [] OTHER -> "tie"

\* Mutant: a pair that only has errors is a tie.
VotesWithErrors(verdicts) == DOMAIN verdicts

\* Errors are passed over.
Votes(verdicts) == {i \in DOMAIN verdicts : ~verdicts[i].error}

\* aggregate_verdicts: the winner of each prompt and dimension with a vote.
Aggregated(verdicts) ==
    LET votes == Votes(verdicts) IN
    [p \in Pairs(verdicts, votes) |->
        LET own == VotesOf(verdicts, votes, p) IN
        Majority(Won(verdicts, own, "regional"), Won(verdicts, own, "gemma4"))]

\* overall_winner of a prompt, over its dimensions.
OverallWinner(aggregated, prompt) ==
    LET with(side) == {p \in DOMAIN aggregated : p[1] = prompt /\ aggregated[p] = side}
    IN  Majority(Cardinality(with("regional")), Cardinality(with("gemma4")))

\* The prompts that a side wins, and all that were judged.
Judged(verdicts)    == {p[1] : p \in DOMAIN Aggregated(verdicts)}
Wins(verdicts, side) ==
    {prompt \in Judged(verdicts) : OverallWinner(Aggregated(verdicts), prompt) = side}

\* compute_win_rate, compute_stats_from_verdicts: a percentage with one decimal,
\* in units of 1/1000.
WinRate(verdicts, side) ==
    IF Judged(verdicts) = {} THEN None
    ELSE Rounded(1000, Cardinality(Wins(verdicts, side)), Cardinality(Judged(verdicts)))

\* compute_grade, in download_all_runs.py and dashboard.py
ComputeGrade(rate) ==
    IF rate >= 600 THEN "A"
    ELSE IF rate >= 500 THEN "B"
    ELSE IF rate >= 400 THEN "C"
    ELSE IF rate >= 200 THEN "D"
    ELSE "E"

=============================================================================
