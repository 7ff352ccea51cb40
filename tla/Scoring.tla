------------------------------ MODULE Scoring ------------------------------
(***************************************************************************)
(* JudgeWorker.judge for the languages of a run, in containers they share, *)
(* and the section ReportGenerator.generate makes of what the volume holds *)
(* when it looks.                                                          *)
(*                                                                         *)
(* JudgeWorkerModal has no parameters, so a warm container serves one      *)
(* language after another; judge() neither reloads nor commits.            *)
(***************************************************************************)
EXTENDS Verdicts, FiniteSetsExt

CONSTANTS
    Slugs,        \* the languages, named by their rank in file name order
    Limit,        \* judge_limit, 0 for none
    Containers,   \* containers of JudgeWorkerModal
    Habits,       \* how the judge model may decide (see LetterOf)
    MaxAttempts   \* bound: judge stages per language

ASSUME SlugsAssumption == Slugs \subseteq Nat
ASSUME BoundAssumption == Limit \in Nat /\ MaxAttempts \in Nat
ASSUME HabitAssumption == Habits \subseteq {"first", "regional", "gemma4", "none"}

VARIABLES
    habit,       \* the judge model's habit
    outputs,     \* outputs[s]: prompts with outputs of both models, committed
    scored,      \* languages with a metrics record on the volume
    verdicts,    \* verdicts[s][k]: committed winner_models of key k, in order
    up,          \* running containers
    view,        \* view[c]: container c's copy of outputs and verdicts
    dirty,       \* <<c, s>>: c's copy of s's verdicts is not committed
    serves,      \* serves[c]: the language whose judge() runs in c
    todo,        \* todo[c]: the keys that call has left
    stage,       \* stage[s]: where advance() is with s
    attempts,    \* attempts[s]: judge stages begun
    section      \* section[s]: what final_report.json says of s

callVars == <<up, view, dirty, serves, todo>>
vars == <<habit, outputs, scored, verdicts, callVars, stage, attempts, section>>

NoOutputs  == [s \in Slugs |-> {}]
NoVerdicts == [s \in Slugs |-> [k \in Keys |-> <<>>]]
NoSection  == [counts |-> [regional |-> 0, gemma4 |-> 0, tie |-> 0, error |-> 0],
               judged |-> {}, metrics |-> None, grade |-> "?"]

Init ==
    /\ habit \in Habits
    /\ outputs = NoOutputs
    /\ scored = {}
    /\ verdicts = NoVerdicts
    /\ up = {}
    /\ view = [c \in Containers |-> [outputs |-> NoOutputs, verdicts |-> NoVerdicts]]
    /\ dirty = {}
    /\ serves = [c \in Containers |-> None]
    /\ todo = [c \in Containers |-> {}]
    /\ stage = [s \in Slugs |-> "inference"]
    /\ attempts = [s \in Slugs |-> 0]
    /\ section = [s \in Slugs |-> NoSection]

-----------------------------------------------------------------------------
(* The stages before, as far as the volume shows them                      *)

\* Inference of s has committed its outputs; a later launch may add to them.
OutputsCommitted(s) ==
    /\ stage[s] = "inference"
    /\ \E new \in SUBSET Prompts :
         /\ new # {} /\ outputs[s] \subseteq new
         /\ outputs' = [outputs EXCEPT ![s] = new]
    /\ stage' = [stage EXCEPT ![s] = "metrics"]
    /\ UNCHANGED <<habit, scored, verdicts, callVars, attempts, section>>

\* A background commit of the container that scored s.
ScoresCommitted(s) ==
    /\ stage[s] # "inference"
    /\ s \notin scored
    /\ scored' = scored \cup {s}
    /\ UNCHANGED <<habit, outputs, verdicts, callVars, stage, attempts, section>>

-----------------------------------------------------------------------------
(* judge()                                                                 *)

Busy(c) == serves[c] # None

\* common_ids[:limit]
Common(ids) == IF Limit = 0 THEN ids
               ELSE {p \in ids : Cardinality({q \in ids : q < p}) < Limit}

\* Mutant: the verdicts written before are not looked up.
NoneJudged(file) == {}

\* _load_judged_keys
JudgedKeys(file) == {k \in Keys : file[k] # <<>>}

\* The keys a call goes through, given what its container sees.  Without
\* outputs it returns at once, with no verdicts.
Remaining(v, s) == (Common(v.outputs[s]) \X Swaps \X Dims) \ JudgedKeys(v.verdicts[s])

\* judge.remote(): an idle warm container takes the call with the copy it has.
Call(s, c) ==
    /\ stage[s] = "metrics"
    /\ attempts[s] < MaxAttempts
    /\ ~Busy(c)
    /\ c \in up \/ \A w \in up : Busy(w)
    /\ up' = up \cup {c}
    /\ view' = IF c \in up THEN view
               ELSE [view EXCEPT ![c] = [outputs |-> outputs, verdicts |-> verdicts]]
    /\ serves' = [serves EXCEPT ![c] = s]
    /\ todo' = [todo EXCEPT ![c] = Remaining(view'[c], s)]
    /\ stage' = [stage EXCEPT ![s] = "judge"]
    /\ attempts' = [attempts EXCEPT ![s] = @ + 1]
    /\ UNCHANGED <<habit, outputs, scored, verdicts, dirty, section>>

\* The judge model.  "first" answers A whatever is there; "regional" and
\* "gemma4" know a text by its content; "none" finds them equal.
LetterOf(swap) ==
    CASE habit = "first"    -> "A"
      [] habit = "regional" -> IF swap = 0 THEN "A" ELSE "B"
      [] habit = "gemma4"   -> IF swap = 0 THEN "B" ELSE "A"
      [] habit = "none"     -> "tie"

\* One key: _call_judge answers, or after max_retries gives up with the winner
\* "tie" and an error; either way the verdict is appended.
JudgeKey(c) ==
    /\ Busy(c)
    /\ \E k \in First(todo[c]) :
         /\ todo' = [todo EXCEPT ![c] = @ \ {k}]
         /\ \E w \in {WinnerModel(LetterOf(k[2]), k[2]), "error"} :
              view' = [view EXCEPT ![c].verdicts[serves[c]][k] = Append(@, w)]
    /\ dirty' = dirty \cup {<<c, serves[c]>>}
    /\ UNCHANGED <<habit, outputs, scored, verdicts, up, serves, stage, attempts, section>>

\* judge() returns.
Finish(c) ==
    /\ Busy(c)
    /\ todo[c] = {}
    /\ serves' = [serves EXCEPT ![c] = None]
    /\ stage' = [stage EXCEPT ![serves[c]] = IF @ = "judge" THEN "judged" ELSE @]
    /\ UNCHANGED <<habit, outputs, scored, verdicts, up, view, dirty, todo, attempts, section>>

\* Background commit of one verdicts file.
Commit(c, s) ==
    /\ <<c, s>> \in dirty
    /\ verdicts' = [verdicts EXCEPT ![s] = view[c].verdicts[s]]
    /\ dirty' = dirty \ {<<c, s>>}
    /\ UNCHANGED <<habit, outputs, scored, up, view, serves, todo, stage, attempts, section>>

\* The container dies, or the call exceeds its timeout: judge.remote() raises,
\* the language is FAILED and a later launch starts over with its inference.
Die(c) ==
    /\ c \in up
    /\ up' = up \ {c}
    /\ view' = [view EXCEPT ![c] = [outputs |-> NoOutputs, verdicts |-> NoVerdicts]]
    /\ dirty' = {d \in dirty : d[1] # c}
    /\ serves' = [serves EXCEPT ![c] = None]
    /\ todo' = [todo EXCEPT ![c] = {}]
    /\ stage' = [s \in Slugs |-> IF serves[c] = s /\ stage[s] = "judge" THEN "inference"
                                 ELSE stage[s]]
    /\ UNCHANGED <<habit, outputs, scored, verdicts, attempts, section>>

\* The language's own container is lost while judge() goes on.
CallerDies(s) ==
    /\ stage[s] \in {"judge", "judged"}
    /\ stage' = [stage EXCEPT ![s] = "inference"]
    /\ UNCHANGED <<habit, outputs, scored, verdicts, callVars, attempts, section>>

-----------------------------------------------------------------------------
(* generate()                                                              *)

\* The lines of a verdicts file: <<k, i>> is the i-th verdict of key k.
Lines(file) == UNION {{k} \X DOMAIN file[k] : k \in Keys}

\* How many of them have one of the winners in ws.
LinesWith(file, ws) == Cardinality({l \in Lines(file) : file[l[1]][l[2]] \in ws})

\* The regional metrics of a section: every language's files are read, in file
\* name order, and the last record of a metric stays.
LastScored == IF scored = {} THEN None ELSE Max(scored)

\* The reload at the end of _do_judge, then _do_report.
Report(s) ==
    /\ stage[s] = "judged"
    /\ LET file  == verdicts[s]
           count == [regional |-> LinesWith(file, {"regional"}), gemma4 |-> LinesWith(file, {"gemma4"}),
                     tie |-> LinesWith(file, {"tie", "error"}), error |-> LinesWith(file, {"error"})]
           sum   == Summary(count.regional, count.gemma4, count.tie)
       IN section' = [section EXCEPT ![s] =
              [counts  |-> count,
               judged  |-> JudgedKeys(file),
               metrics |-> LastScored,
               grade   |-> Classify(sum.regional_win_rate, None, None)]]
    /\ stage' = [stage EXCEPT ![s] = "report"]
    /\ UNCHANGED <<habit, outputs, scored, verdicts, callVars, attempts>>

Next ==
    \/ \E s \in Slugs : OutputsCommitted(s) \/ ScoresCommitted(s) \/ CallerDies(s) \/ Report(s)
    \/ \E s \in Slugs, c \in Containers : Call(s, c) \/ Commit(c, s)
    \/ \E c \in Containers : JudgeKey(c) \/ Finish(c) \/ Die(c)

Spec == Init /\ [][Next]_vars

-----------------------------------------------------------------------------
(* Properties                                                              *)

Winners == {"regional", "gemma4", "tie", "error"}
Files   == [Slugs -> [Keys -> Seq(Winners)]]

\* Every variable has its type; only running containers serve and write.
TypeOK ==
    /\ habit \in Habits
    /\ outputs \in [Slugs -> SUBSET Prompts]
    /\ scored \in SUBSET Slugs
    /\ verdicts \in Files
    /\ up \in SUBSET Containers
    /\ view \in [Containers -> [outputs : [Slugs -> SUBSET Prompts], verdicts : Files]]
    /\ dirty \in SUBSET (up \X Slugs)
    /\ serves \in [Containers -> Slugs \cup {None}]
    /\ todo \in [Containers -> SUBSET Keys]
    /\ \A c \in Containers : Busy(c) => c \in up
    /\ stage \in [Slugs -> {"inference", "metrics", "judge", "judged", "report"}]
    /\ attempts \in [Slugs -> 0..MaxAttempts]
    /\ DOMAIN section = Slugs
    /\ \A s \in Slugs : section[s].grade \in Grades \cup {"?"}

\* The win rates divide by the number of lines of the verdicts file: no copy
\* of it has two verdicts for one prompt, swap run and dimension.
JudgedOnce ==
    \A s \in Slugs, k \in Keys :
        Len(verdicts[s][k]) <= 1 /\ \A c \in Containers : Len(view[c].verdicts[s][k]) <= 1

\* A judge that knows the better text by its content is never read the wrong
\* way round: whatever the swap run, a verdict without error names its choice.
PreferenceRead ==
    habit \in {"regional", "gemma4"} =>
        \A s \in Slugs, k \in Keys : verdicts[s][k] \in Seq({habit, "error"})

\* Two swap runs cancel a judge that always prefers what it reads first: with
\* every pair of swap runs judged, the models' wins differ by no more than the
\* number of judgments that failed.
PositionCancels ==
    habit = "first" /\ SwapRuns = 2 => \A s \in Slugs :
        LET c == section[s].counts IN
        (\A k \in section[s].judged : <<k[1], 1 - k[2], k[3]>> \in section[s].judged) =>
            c.regional - c.gemma4 \in (0 - c.error)..c.error

=============================================================================
