------------------------------- MODULE Grades -------------------------------
(***************************************************************************)
(* ReportGenerator's arithmetic: the summary of a language's verdicts and  *)
(* the A-E classification.  Win rates and COMET scores are integers in     *)
(* units of 1/10000, BLEU in units of 1/10; None is a value that was not   *)
(* computed.                                                               *)
(***************************************************************************)
EXTENDS Integers, FiniteSets

CONSTANT None

ASSUME NoneAssumption == None \notin Int

Grades == {"A", "B", "C", "D", "E"}

\* n / d in units of 1/scale, rounded to the nearest, halves to even.
Rounded(scale, n, d) ==
    LET q == (scale * n) \div d
        r == (scale * n) % d
    IN  IF 2 * r > d \/ (2 * r = d /\ q % 2 = 1) THEN q + 1 ELSE q

\* round(n / d, 4)
Round4(n, d) == Rounded(10000, n, d)

\* _summarize_verdicts over the counts of winner_model.  Errors are verdicts
\* like any other, with the winner "tie".
Summary(regional, gemma4, tie) ==
    LET total == regional + gemma4 + tie IN
    [total_judgments   |-> total,
     regional_win_rate |-> IF total = 0 THEN None ELSE Round4(regional, total),
     gemma4_win_rate   |-> IF total = 0 THEN None ELSE Round4(gemma4, total),
     tie_rate          |-> IF total = 0 THEN None ELSE Round4(tie, total)]

\* _classify, judge-based: the first threshold the win rate reaches.
JudgeGrade(win) ==
    IF win > 6000 THEN "A"
    ELSE IF win >= 5000 THEN "B"
    ELSE IF win >= 4000 THEN "C"
    ELSE IF win >= 3000 THEN "D"
    ELSE "E"

\* _classify, "Refine with COMET if available".
Refine(grade, delta) ==
    IF delta = None THEN grade
    ELSE IF delta > 200 /\ grade \in {"B", "C"} THEN "A"
    ELSE IF delta < -500 /\ grade \in {"C", "D"} THEN "E"
    ELSE grade

CometGrade(delta) ==
    IF delta > 500 THEN "A"
    ELSE IF delta > 0 THEN "B"
    ELSE IF delta >= -100 THEN "C"
    ELSE IF delta >= -500 THEN "D"
    ELSE "E"

BleuGrade(bleu) == IF bleu > 200 THEN "B" ELSE IF bleu > 50 THEN "C" ELSE "D"

\* _classify: the judge first, then COMET, then BLEU; "C" without any signal.
Classify(win, delta, bleu) ==
    IF win # None THEN Refine(JudgeGrade(win), delta)
    ELSE IF delta # None THEN CometGrade(delta)
    ELSE IF bleu # None THEN BleuGrade(bleu)
    ELSE "C"

=============================================================================
