---------------------------- MODULE MetricFiles ----------------------------
(***************************************************************************)
(* The metric stages: each language asks for two calls of score(), one for *)
(* its own outputs and one for the Gemma-4 baseline, which all languages   *)
(* share.  The worker classes have no parameters, so any warm container    *)
(* takes any call with the copy of the volume it has; score() appends one  *)
(* record per metric and neither reloads nor commits.  A call whose        *)
(* container was preempted is started again, from its first metric.        *)
(***************************************************************************)
EXTENDS Naturals, Sequences, FiniteSets, SequencesExt

CONSTANTS
    Slugs,        \* the languages
    Metrics,      \* metrics of the tier that apply to the task
    Containers,   \* containers of the tier's worker class
    Scoped,       \* those of them that score one category of the samples
    None, Baseline,
    MaxAttempts,  \* bound: metric stages per language
    MaxStarts,    \* bound: times that Modal starts one call
    Settings      \* which tier to look at, "light" or "model", with the bounds for it

ASSUME SlugsNamed == Baseline \notin Slugs /\ None \notin Slugs \X (Slugs \cup {Baseline}) \X Nat
ASSUME SettingsNamed ==
    /\ Settings \subseteq [tier : {"light", "model"}, attempts : [Slugs -> 0..MaxAttempts],
                           starts : 1..MaxStarts]
    /\ MaxAttempts \in Nat /\ MaxStarts \in Nat \ {0} /\ Scoped \subseteq Metrics

\* The slug of a file: a language's, or "baseline".
Owners == Slugs \cup {Baseline}
Files  == Metrics \X Owners

\* Calls <<s, o, a>>: language s, in its a-th attempt, has the outputs of o scored.
Calls == {k \in Slugs \X Owners \X (1..MaxAttempts) : k[2] \in {k[1], Baseline}}

\* A record <<k, n>> is named by the call it comes from and by which start of it.
Records == Calls \X (1..MaxStarts)

VARIABLES
    setting,    \* which of the Settings
    outputs,    \* languages whose own outputs are committed
    files,      \* files[f]: committed records of a metrics file, in order
    up,         \* running containers
    view,       \* view[c]: container c's copy of outputs and files
    dirty,      \* <<c, f>>: c's copy of f is not committed
    serves,     \* serves[c]: the call in container c
    todo,       \* todo[c]: the metrics that call has left
    status,     \* status[k]: where call k is
    starts,     \* starts[k]: times Modal has started call k
    stage,      \* stage[s]: where advance() is with s
    attempts    \* attempts[s]: metric stages begun

workVars == <<up, view, dirty, serves, todo, starts>>
vars == <<setting, outputs, files, workVars, status, stage, attempts>>

NoFiles == [f \in Files |-> <<>>]
Unseen  == [outputs |-> {}, files |-> NoFiles]

Init ==
    /\ setting \in Settings
    /\ outputs = {}
    /\ files = NoFiles
    /\ up = {}
    /\ view = [c \in Containers |-> Unseen]
    /\ dirty = {}
    /\ serves = [c \in Containers |-> None]
    /\ todo = [c \in Containers |-> {}]
    /\ status = [k \in Calls |-> "none"]
    /\ starts = [k \in Calls |-> 0]
    /\ stage = [s \in Slugs |-> "inference"]
    /\ attempts = [s \in Slugs |-> 0]

Busy(c) == serves[c] # None

-----------------------------------------------------------------------------
(* The language's side: _do_light_metrics, _do_model_metrics               *)

\* generate() has committed the outputs of s; the baseline's were committed
\* before any language started.
OutputsCommitted(s) ==
    /\ stage[s] = "inference" /\ setting.attempts[s] > 0
    /\ outputs' = outputs \cup {s}
    /\ stage' = [stage EXCEPT ![s] = "ready"]
    /\ UNCHANGED <<setting, files, workVars, status, attempts>>

\* The calls of the current attempt of s.
Current(s) == {k \in Calls : k[1] = s /\ k[3] = attempts[s]}
Own(s)     == <<s, s, attempts[s]>>

\* Two spawns.
Spawn(s) ==
    /\ stage[s] = "ready"
    /\ attempts[s] < setting.attempts[s]
    /\ stage' = [stage EXCEPT ![s] = "scoring"]
    /\ attempts' = [attempts EXCEPT ![s] = @ + 1]
    /\ status' = [k \in Calls |-> IF k[1] = s /\ k[3] = attempts'[s] THEN "queued" ELSE status[k]]
    /\ UNCHANGED <<setting, outputs, files, workVars>>

\* Both get() return, whatever the scores are.
Pass(s) ==
    /\ stage[s] = "scoring"
    /\ \A k \in Current(s) : status[k] = "returned"
    /\ stage' = [stage EXCEPT ![s] = "passed"]
    /\ UNCHANGED <<setting, outputs, files, workVars, status, attempts>>

\* Mutant: only the language's own call is looked at when one has failed.
FailOwn(s) ==
    /\ stage[s] = "scoring"
    /\ status[Own(s)] = "raised"
    /\ stage' = [stage EXCEPT ![s] = "ready"]
    /\ UNCHANGED <<setting, outputs, files, workVars, status, attempts>>

\* A get() raises, the own call's first: advance() gives up the language (a
\* later launch tries again) and the other call is left to itself.
Fail(s) ==
    /\ stage[s] = "scoring"
    /\ \/ status[Own(s)] = "raised"
       \/ status[Own(s)] = "returned" /\ \E k \in Current(s) : status[k] = "raised"
    /\ stage' = [stage EXCEPT ![s] = "ready"]
    /\ UNCHANGED <<setting, outputs, files, workVars, status, attempts>>

\* The language's container is lost; its calls go on.  (Of one that is lost
\* later, only what another launch does is of interest here.)
CallerDies(s) ==
    /\ \/ stage[s] = "scoring"
       \/ stage[s] = "passed" /\ attempts[s] < setting.attempts[s]
    /\ stage' = [stage EXCEPT ![s] = "ready"]
    /\ UNCHANGED <<setting, outputs, files, workVars, status, attempts>>

-----------------------------------------------------------------------------
(* The worker's side: score()                                              *)

\* A call goes to an idle warm container, else to a new one.  Without outputs
\* in its copy it returns {} at once.
Take(c, k) ==
    /\ status[k] = "queued"
    /\ ~Busy(c)
    /\ c \in up \/ \A w \in up : Busy(w)
    /\ up' = up \cup {c}
    /\ view' = IF c \in up THEN view
               ELSE [view EXCEPT ![c] = [outputs |-> outputs, files |-> files]]
    /\ serves' = [serves EXCEPT ![c] = k]
    /\ todo' = [todo EXCEPT ![c] = IF k[2] \in view'[c].outputs \cup {Baseline} THEN Metrics ELSE {}]
    /\ status' = [status EXCEPT ![k] = "running"]
    /\ starts' = [starts EXCEPT ![k] = @ + 1]
    /\ UNCHANGED <<setting, outputs, files, dirty, stage, attempts>>

\* Mutant: one file per metric for all the regional models.
FileOfMetric(m, o) == <<m, IF o = Baseline THEN o ELSE CHOOSE s \in Slugs : TRUE>>

\* metric_path
FileOf(m, o) == <<m, o>>

\* Mutant: a metric that two modules import is discovered twice.
ScoreTwice(c) ==
    /\ Busy(c)
    /\ \E m \in todo[c] :
         LET f == FileOf(m, serves[c][2])
             record == <<serves[c], starts[serves[c]]>> IN
         /\ view' = [view EXCEPT ![c].files[f] = @ \o <<record, record>>]
         /\ dirty' = dirty \cup {<<c, f>>}
         /\ todo' = [todo EXCEPT ![c] = @ \ {m}]
    /\ UNCHANGED <<setting, outputs, files, up, serves, starts, status, stage, attempts>>

\* compute() and _write_result for one metric.
Score(c) ==
    /\ Busy(c)
    /\ \E m \in todo[c] :
         LET f == FileOf(m, serves[c][2]) IN
         /\ view' = [view EXCEPT ![c].files[f] = Append(@, <<serves[c], starts[serves[c]]>>)]
         /\ dirty' = dirty \cup {<<c, f>>}
         /\ todo' = [todo EXCEPT ![c] = @ \ {m}]
    /\ UNCHANGED <<setting, outputs, files, up, serves, starts, status, stage, attempts>>

\* Nothing is written for a metric that is passed over: in the light tier one
\* whose category has no samples, in the model tier one whose compute() raises.
PassOver(c) ==
    /\ Busy(c)
    /\ \E m \in todo[c] :
         /\ setting.tier = "light" => m \in Scoped
         /\ todo' = [todo EXCEPT ![c] = @ \ {m}]
    /\ UNCHANGED <<setting, outputs, files, up, view, dirty, serves, starts, status, stage, attempts>>

\* In the light tier, compute() raises to the caller, the records before it
\* written.
MetricRaises(c) ==
    /\ Busy(c) /\ setting.tier = "light" /\ todo[c] # {}
    /\ todo' = [todo EXCEPT ![c] = {}]
    /\ serves' = [serves EXCEPT ![c] = None]
    /\ status' = [status EXCEPT ![serves[c]] = "raised"]
    /\ UNCHANGED <<setting, outputs, files, up, view, dirty, starts, stage, attempts>>

Finish(c) ==
    /\ Busy(c) /\ todo[c] = {}
    /\ serves' = [serves EXCEPT ![c] = None]
    /\ status' = [status EXCEPT ![serves[c]] = "returned"]
    /\ UNCHANGED <<setting, outputs, files, up, view, dirty, todo, starts, stage, attempts>>

\* A container is lost, with what it has not committed.  Its call raises, if it
\* ran out of time or crashed; that of a preempted container is started again,
\* in whatever container is next.
Die(c) ==
    /\ c \in up
    /\ up' = up \ {c}
    /\ view' = [view EXCEPT ![c] = Unseen]
    /\ dirty' = {d \in dirty : d[1] # c}
    /\ serves' = [serves EXCEPT ![c] = None]
    /\ todo' = [todo EXCEPT ![c] = {}]
    /\ IF Busy(c)
       THEN \/ status' = [status EXCEPT ![serves[c]] = "raised"]
            \/ /\ starts[serves[c]] < setting.starts
               /\ status' = [status EXCEPT ![serves[c]] = "queued"]
       ELSE UNCHANGED status
    /\ UNCHANGED <<setting, outputs, files, starts, stage, attempts>>

\* Background commit of one file.
Commit(c, f) ==
    /\ <<c, f>> \in dirty
    /\ files' = [files EXCEPT ![f] = view[c].files[f]]
    /\ dirty' = dirty \ {<<c, f>>}
    /\ UNCHANGED <<setting, outputs, up, view, serves, todo, starts, status, stage, attempts>>

-----------------------------------------------------------------------------
Work(c) == (\E k \in Calls : Take(c, k)) \/ Score(c) \/ PassOver(c) \/ MetricRaises(c) \/ Finish(c)

Next ==
    \/ \E s \in Slugs : OutputsCommitted(s) \/ Spawn(s) \/ Pass(s) \/ Fail(s) \/ CallerDies(s)
    \/ \E c \in Containers : Work(c) \/ Die(c)
    \/ \E c \in Containers, f \in Files : Commit(c, f)

Spec == Init /\ [][Next]_vars

\* Modal finds a container for a call, a call goes on, and get() returns.
FairSpec == Spec /\ WF_vars(\E c \in Containers : Work(c))
                 /\ \A s \in Slugs : WF_vars(Pass(s) \/ Fail(s))

-----------------------------------------------------------------------------
(* Properties                                                              *)

Copies == [Files -> Seq(Records)]

\* Every variable has its type; a call is in a container exactly while it runs.
TypeOK ==
    /\ setting \in Settings
    /\ outputs \in SUBSET Slugs
    /\ files \in Copies
    /\ up \in SUBSET Containers
    /\ view \in [Containers -> [outputs : SUBSET Slugs, files : Copies]]
    /\ dirty \in SUBSET (up \X Files)
    /\ serves \in [Containers -> Calls \cup {None}]
    /\ todo \in [Containers -> SUBSET Metrics]
    /\ status \in [Calls -> {"none", "queued", "running", "returned", "raised"}]
    /\ starts \in [Calls -> 0..MaxStarts]
    /\ \A k \in Calls : status[k] = "running" <=> \E c \in up : serves[c] = k
    /\ stage \in [Slugs -> {"inference", "ready", "scoring", "passed"}]
    /\ attempts \in [Slugs -> 0..MaxAttempts]

\* A language scored once, by a call that was not started again: whatever other
\* languages are scored at the same time and whichever containers die, a record
\* of its own metrics that has reached the volume stays there (of the baseline's
\* file this is not so).
OwnRecordsKept ==
    [][\A s \in Slugs, m \in Metrics :
         /\ attempts[s] <= 1 /\ attempts'[s] <= 1
         /\ \A k \in Calls : k[2] = s => starts[k] <= 1
         => IsPrefix(files[<<m, s>>], files'[<<m, s>>])]_vars

\* In every copy of a metrics file there are only records for the outputs it is
\* named after, and at most one of each start of a call, that of a later start
\* (the one a report takes) after that of an earlier one.
OneRecordPerStart ==
    \A copy \in {files} \cup {view[c].files : c \in Containers}, f \in Files :
        LET list == copy[f] IN
        /\ \A i \in DOMAIN list : list[i][1][2] = f[2] /\ list[i][2] <= starts[list[i][1]]
        /\ \A i, j \in DOMAIN list :
             i < j /\ list[i][1] = list[j][1] => list[i][2] < list[j][2]

\* Every metric stage ends, though its containers die or its metrics raise:
\* whatever has begun, a time comes when no language waits for its scores.
StageEnds == []<>(\A s \in Slugs : stage[s] # "scoring")

=============================================================================
