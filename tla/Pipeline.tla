------------------------------ MODULE Pipeline ------------------------------
(***************************************************************************)
(* run_pipeline, run_fanout and advance: one orchestrator that drives every *)
(* language of a run to StopAt, inline or in one container per language,   *)
(* over a Modal volume of which every container holds its own view.        *)
(*                                                                         *)
(* A job <<l, s>> is the call of advance() that launch l of run_pipeline    *)
(* makes for language s.  Launches of one run id follow each other (resume *)
(* after a crash or after the end); jobs of an earlier launch may still be *)
(* running when a later launch begins.                                     *)
(***************************************************************************)
EXTENDS StateMachine, FiniteSets

CONSTANTS
    Slugs,         \* the languages of the run (specs)
    Orch,          \* the container running run_pipeline
    StopAt,        \* --stop-at
    RemoteFn,      \* TRUE iff run_pipeline was given an advance_remote_fn
    SkipModel,     \* skip_model_metrics
    MaxLaunches    \* bound: how often run_pipeline is started for this run id

Jobs == (1..MaxLaunches) \X Slugs

ASSUME SlugsAssumption == IsFiniteSet(Slugs) /\ Slugs # {}
ASSUME LaunchAssumption == MaxLaunches \in Nat
ASSUME StopAssumption == StopAt \in States
ASSUME FlagAssumption == RemoteFn \in BOOLEAN /\ SkipModel \in BOOLEAN
ASSUME OrchAssumption == Orch \notin Jobs

\* One spec, or no spawn function: advance() runs in the orchestrator itself.
Inline == Cardinality(Slugs) = 1 \/ ~RemoteFn

Containers == Jobs \cup {Orch}

VARIABLES
    orch,       \* how far run_pipeline has got
    launch,     \* launches of run_pipeline so far
    completed,  \* slugs the launch found in final_report.json (resume)
    runs,       \* runs[s]: LanguageRun.state as the orchestrator records it
    pending,    \* slugs whose outcome the launch still waits for
    manifest,   \* "status" of run_manifest.json
    graded,     \* slugs with a grade other than "?" in the last summary
    state,      \* state[j]: LanguageRun.state inside job j
    status,     \* status[j]: the call of job j, as its Modal handle knows it
    volume,     \* committed outputs volume: the report's languages, the
                \* Gemma-4 outputs
    view,       \* view[c]: what container c sees of the volume
    dirty       \* containers whose view holds an uncommitted final_report.json

orchVars == <<orch, launch, completed, runs, pending, manifest, graded>>
volVars  == <<volume, view, dirty>>
vars     == <<orchVars, state, status, volVars>>

OrchStates == {"idle", "baseline", "poll", "drain", "summary", "finished", "crashed"}
Stopped    == {"idle", "finished", "crashed"}
Volumes    == [report : SUBSET Slugs, gemma : BOOLEAN]
Empty      == [report |-> {}, gemma |-> FALSE]

Init ==
    /\ orch = "idle"
    /\ launch = 0
    /\ completed = {}
    /\ runs = [s \in Slugs |-> "pending"]
    /\ pending = Slugs
    /\ manifest = "none"
    /\ graded = {}
    /\ state = [j \in Jobs |-> "pending"]
    /\ status = [j \in Jobs |-> "none"]
    /\ volume = Empty
    /\ view = [c \in Containers |-> Empty]
    /\ dirty = {}

-----------------------------------------------------------------------------
(* The Modal volume, as the code uses it.                                  *)

\* The file-level last-writer-wins effect of committing container c.
Committed(c) == IF c \in dirty THEN [volume EXCEPT !.report = view[c].report]
                               ELSE volume

\* Volume.reload(): c's own changes are committed, then it sees the volume.
Reload(c) ==
    /\ volume' = Committed(c)
    /\ view' = [view EXCEPT ![c] = Committed(c)]
    /\ dirty' = dirty \ {c}

\* Background commit, or the commit made when a container exits.
Commit(c) ==
    /\ c \in dirty
    /\ volume' = Committed(c)
    /\ dirty' = dirty \ {c}
    /\ UNCHANGED <<orchVars, state, status, view>>

-----------------------------------------------------------------------------
(* run_pipeline                                                            *)

Job(s) == <<launch, s>>

Failed == {s \in Slugs : runs[s] = "failed"}

\* Mutant: resume detection reads the report and then queues every language.
StartAll ==
    /\ orch \in Stopped
    /\ Orch \notin dirty
    /\ launch < MaxLaunches
    /\ launch' = launch + 1
    /\ view' = [view EXCEPT ![Orch] = volume]
    /\ completed' = volume.report
    /\ runs' = [s \in Slugs |-> IF s \in volume.report THEN "done" ELSE "pending"]
    /\ pending' = Slugs
    /\ manifest' = "started"
    /\ orch' = "baseline"
    /\ UNCHANGED <<graded, state, status, volume, dirty>>

\* Manifest and resume detection.  `completed` languages are carried as DONE.
\* With nothing left to do, or stop_at = PENDING, the baseline is skipped.
Start ==
    /\ orch \in Stopped
    /\ Orch \notin dirty       \* the previous container has exited
    /\ launch < MaxLaunches
    /\ launch' = launch + 1
    /\ view' = [view EXCEPT ![Orch] = volume]
    /\ completed' = volume.report
    /\ runs' = [s \in Slugs |-> IF s \in volume.report THEN "done" ELSE "pending"]
    /\ pending' = Slugs \ volume.report
    /\ manifest' = "started"
    /\ orch' = IF pending' = {} \/ StopAt = "pending" THEN "poll" ELSE "baseline"
    /\ UNCHANGED <<graded, state, status, volume, dirty>>

\* ensure_gemma4_baseline: generate() for every slug, then reload.  A batch
\* that fails is dropped, so all slugs may succeed and leave no output at all.
Baseline ==
    /\ orch = "baseline"
    /\ \E written \in {volume.gemma, TRUE} :
         /\ volume' = [volume EXCEPT !.gemma = written]
         /\ view' = [view EXCEPT ![Orch] = volume']
    /\ orch' = "poll"
    /\ UNCHANGED <<launch, completed, runs, pending, manifest, graded,
                   state, status, dirty>>

\* generate.remote() raises: nothing catches it and run_pipeline ends.
BaselineRaises ==
    /\ orch = "baseline"
    /\ \E written \in {volume.gemma, TRUE} : volume' = [volume EXCEPT !.gemma = written]
    /\ orch' = "crashed"
    /\ UNCHANGED <<launch, completed, runs, pending, manifest, graded,
                   state, status, view, dirty>>

\* Spawn one container per pending slug; inline, one job at a time.
Dispatch(s) ==
    /\ orch = "poll"
    /\ s \in pending
    /\ status[Job(s)] = "none"
    /\ Inline => \A t \in pending : status[Job(t)] = "none"
    /\ status' = [status EXCEPT ![Job(s)] = "running"]
    /\ view' = IF Inline THEN view ELSE [view EXCEPT ![Job(s)] = volume]
    /\ UNCHANGED <<orchVars, state, volume, dirty>>

Dispatched == \A s \in pending : status[Job(s)] # "none"

\* Mutant: a late answer is recorded over the outcome already settled.
RecordLate(s, outcome) ==
    /\ runs' = [runs EXCEPT ![s] = outcome]
    /\ pending' = pending \ {s}
    /\ UNCHANGED <<orch, launch, completed, manifest, graded, state, status, volVars>>

\* The outcome of s is known: the loop stops waiting for it.
Record(s, outcome) ==
    /\ s \in pending
    /\ runs' = [runs EXCEPT ![s] = outcome]
    /\ pending' = pending \ {s}
    /\ UNCHANGED <<orch, launch, completed, manifest, graded, state, status, volVars>>

\* handle.get() returns the LanguageRun dict (inline: advance() returns).
CollectResult(s) ==
    /\ orch \in {"poll", "drain"}
    /\ Inline \/ Dispatched
    /\ status[Job(s)] = "returned"
    /\ Record(s, state[Job(s)])

\* Mutant: a call that raised is recorded with the state it had reached.
CollectRaisedState(s) ==
    /\ orch \in {"poll", "drain"}
    /\ Dispatched
    /\ status[Job(s)] = "crashed"
    /\ Record(s, state[Job(s)])

\* handle.get() raises anything but TimeoutError.
CollectRaised(s) ==
    /\ orch \in {"poll", "drain"}
    /\ Dispatched
    /\ status[Job(s)] = "crashed"
    /\ Record(s, "failed")

\* max_wait_s is over with languages outstanding.
Deadline ==
    /\ orch = "poll"
    /\ ~Inline
    /\ Dispatched
    /\ pending # {}
    /\ orch' = "drain"
    /\ UNCHANGED <<launch, completed, runs, pending, manifest, graded,
                   state, status, volVars>>

\* Mutant: the fallback's get() has no timeout.
GiveUpWaits(s) == orch = "drain" /\ status[Job(s)] = "crashed" /\ Record(s, "failed")

\* Timeout fallback: get(timeout=30) gives up on a call that is still running.
GiveUp(s) ==
    /\ orch = "drain"
    /\ status[Job(s)] = "running"
    /\ Record(s, "failed")

\* Mutant: the manifest is settled with languages outstanding.
CloseEarly ==
    /\ orch \in {"poll", "drain"}
    /\ manifest' = IF Failed = {} THEN "completed"
                   ELSE IF Failed = Slugs THEN "failed" ELSE "partial"
    /\ orch' = "summary"
    /\ UNCHANGED <<launch, completed, runs, pending, graded, state, status, volVars>>

\* The manifest's verdict over the recorded outcomes.
Close ==
    /\ orch \in {"poll", "drain"}
    /\ pending = {}
    /\ manifest' = CASE Failed = Slugs -> "failed"
                     [] Failed # Slugs /\ Failed # {} -> "partial"
                     [] Failed = {} -> "completed"
    /\ orch' = "summary"
    /\ UNCHANGED <<launch, completed, runs, pending, graded, state, status, volVars>>

\* Mutant: the summary is made from the report that the resume check loaded.
SummarizeLoaded ==
    /\ orch = "summary"
    /\ graded' = completed
    /\ orch' = "finished"
    /\ UNCHANGED <<launch, completed, runs, pending, manifest, state, status, volVars>>

\* summarize_run over this container's view; failed languages are set to "?".
Summarize ==
    /\ orch = "summary"
    /\ graded' = view[Orch].report \ Failed
    /\ orch' = "finished"
    /\ UNCHANGED <<launch, completed, runs, pending, manifest, state, status, volVars>>

-----------------------------------------------------------------------------
(* advance(), inside job j                                                 *)

Home(j) == IF Inline THEN Orch ELSE j

\* The loop condition of advance(), and the transition it is about to take.
Entering(j, target) ==
    /\ status[j] = "running"
    /\ state[j] \notin {StopAt, "done", "failed"}
    /\ NextState[state[j]] = target

Arrive(j, target) ==
    /\ Entering(j, target)
    /\ state' = [state EXCEPT ![j] = target]
    /\ UNCHANGED <<orchVars, status>>

\* Mutant: the Gemma-4 precondition is not checked.
DoInferenceUnchecked(j) ==
    /\ Arrive(j, "inference")
    /\ Reload(Home(j)) \/ UNCHANGED volVars

\* _do_inference: refuses to run without Gemma-4 outputs; skips generation
\* (and the reload after it) when the regional file is already there.
DoInference(j) ==
    /\ Arrive(j, "inference")
    /\ view[Home(j)].gemma
    /\ Reload(Home(j)) \/ UNCHANGED volVars

DoLightMetrics(j) == Arrive(j, "light_metrics") /\ Reload(Home(j))

DoModelMetrics(j) ==
    /\ Arrive(j, "model_metrics")
    /\ IF SkipModel THEN UNCHANGED volVars ELSE Reload(Home(j))

DoJudge(j) == Arrive(j, "judge") /\ Reload(Home(j))

\* Mutant: the report file is replaced by this language's section.
DoReportReplaces(j) ==
    /\ Arrive(j, "report")
    /\ view' = [view EXCEPT ![Home(j)].report = {j[2]}]
    /\ dirty' = dirty \cup {Home(j)}
    /\ UNCHANGED volume

\* ReportGenerator.generate: merge the section into the report this container
\* sees and replace the file in its view.
DoReport(j) ==
    /\ Arrive(j, "report")
    /\ view' = [view EXCEPT ![Home(j)].report = @ \cup {j[2]}]
    /\ dirty' = dirty \cup {Home(j)}
    /\ UNCHANGED volume

ArriveDone(j) == Arrive(j, "done") /\ UNCHANGED volVars

\* Mutant: a failing language has its section written all the same.
StageFailsReported(j) ==
    /\ \E target \in WorkStates : Entering(j, target)
    /\ state' = [state EXCEPT ![j] = "failed"]
    /\ status' = [status EXCEPT ![j] = "returned"]
    /\ view' = [view EXCEPT ![Home(j)].report = @ \cup {j[2]}]
    /\ dirty' = dirty \cup {Home(j)}
    /\ UNCHANGED <<orchVars, volume>>

\* A transition function returns False or raises: FAILED, and advance returns.
StageFails(j) ==
    /\ \E target \in WorkStates : Entering(j, target)
    /\ state' = [state EXCEPT ![j] = "failed"]
    /\ status' = [status EXCEPT ![j] = "returned"]
    /\ UNCHANGED <<orchVars, volVars>>

\* The loop ends at stop_at or DONE.
Return(j) ==
    /\ status[j] = "running"
    /\ state[j] \in {StopAt, "done"}
    /\ status' = [status EXCEPT ![j] = "returned"]
    /\ UNCHANGED <<orchVars, state, volVars>>

Advance(j) ==
    \/ DoInference(j) \/ DoLightMetrics(j) \/ DoModelMetrics(j)
    \/ DoJudge(j) \/ DoReport(j) \/ ArriveDone(j)
    \/ StageFails(j) \/ Return(j)

\* The container of a fanned-out job dies; what it had not committed is lost.
JobCrash(j) ==
    /\ ~Inline
    /\ status[j] = "running"
    /\ status' = [status EXCEPT ![j] = "crashed"]
    /\ dirty' = dirty \ {j}
    /\ view' = [view EXCEPT ![j] = Empty]
    /\ UNCHANGED <<orchVars, state, volume>>

\* The orchestrator's container dies, and with it a job it ran inline.
OrchCrash ==
    /\ orch \notin Stopped
    /\ orch' = "crashed"
    /\ status' = [j \in Jobs |-> IF Inline /\ status[j] = "running"
                                 THEN "crashed" ELSE status[j]]
    /\ dirty' = dirty \ {Orch}
    /\ view' = [view EXCEPT ![Orch] = Empty]
    /\ UNCHANGED <<launch, completed, runs, pending, manifest, graded,
                   state, volume>>

-----------------------------------------------------------------------------
Orchestrate ==
    \/ Start \/ Baseline \/ BaselineRaises \/ Deadline \/ Close \/ Summarize
    \/ \E s \in Slugs : Dispatch(s) \/ CollectResult(s) \/ CollectRaised(s) \/ GiveUp(s)

Next ==
    \/ Orchestrate
    \/ OrchCrash
    \/ \E j \in Jobs : Advance(j) \/ JobCrash(j)
    \/ \E c \in Containers : Commit(c)

Spec == Init /\ [][Next]_vars

\* The orchestrator's process runs and its clock advances; commits happen; and
\* inline, where advance() runs in the orchestrator's own process, it makes
\* progress (each remote call it makes has a Modal timeout).  Nothing is owed of
\* a language's own container, nor of crashes, failures and new launches.
Fairness ==
    /\ WF_vars(Baseline \/ BaselineRaises)
    /\ WF_vars(Deadline) /\ WF_vars(Close) /\ WF_vars(Summarize)
    /\ \A s \in Slugs : WF_vars(Dispatch(s)) /\ WF_vars(CollectResult(s))
                        /\ WF_vars(CollectRaised(s)) /\ WF_vars(GiveUp(s))
    /\ \A c \in Containers : WF_vars(Commit(c))
    /\ Inline => \A j \in Jobs : WF_vars(Advance(j))

FairSpec == Spec /\ Fairness

-----------------------------------------------------------------------------
(* Properties                                                              *)

\* Every variable has its type, and only a live container holds dirty files.
TypeOK ==
    /\ orch \in OrchStates
    /\ launch \in 0..MaxLaunches
    /\ completed \in SUBSET Slugs
    /\ runs \in [Slugs -> States]
    /\ pending \in SUBSET Slugs
    /\ manifest \in {"none", "started", "completed", "partial", "failed"}
    /\ graded \in SUBSET Slugs
    /\ state \in [Jobs -> States]
    /\ status \in [Jobs -> {"none", "running", "returned", "crashed"}]
    /\ volume \in Volumes
    /\ view \in [Containers -> Volumes]
    /\ dirty \in SUBSET Containers

\* A language has a section in final_report.json, in any container's view of it
\* or on the volume, or a grade in the summary, only if some job of that
\* language went through every stage: reports are merged and overwritten
\* between containers, but never gain a language from nowhere.
Reported == volume.report \cup UNION {view[c].report : c \in Containers}

ReportBacked ==
    \A s \in Reported \cup completed \cup graded :
        \E j \in Jobs : j[2] = s /\ state[j] \in {"report", "done"}

\* "Must be called before any LanguageRun reaches INFERENCE"
\* (ensure_gemma4_baseline): whatever launch a job belongs to, past the
\* inference stage the Gemma-4 outputs are on the volume.
BaselineFirst ==
    \A j \in Jobs : state[j] \in WorkStates \cup {"done"} => volume.gemma

\* The orchestrator never invents a success: an outcome other than FAILED that
\* it holds for a language it no longer waits for is a language resumed from
\* the report, or what that language's own job of this launch returned.
OutcomeBacked ==
    \A s \in Slugs \ pending :
        \/ runs[s] = "failed"
        \/ s \in completed /\ runs[s] = "done"
        \/ /\ s \notin completed
           /\ status[Job(s)] = "returned"
           /\ runs[s] = state[Job(s)] /\ runs[s] \in {StopAt, "done"}

\* Resume: a launch starts no job for a language its report already lists,
\* and never counts one among the failures.
ResumeSkips ==
    \A s \in completed :
        /\ s \notin pending
        /\ runs[s] = "done"
        /\ status[Job(s)] = "none"

\* Within a launch a settled outcome is final: a call that answers after the
\* orchestrator gave up on it changes nothing the orchestrator recorded.
OutcomeFinal ==
    [][launch' = launch =>
         \A s \in Slugs \ pending : s \notin pending' /\ runs'[s] = runs[s]]_vars

\* What the run's reader is promised (RunOutcome): each language settled once
\* per launch, then the verdict that the outcomes call for.
Outcome == INSTANCE RunOutcome WITH
    outcome <- [s \in Slugs |-> IF s \in pending THEN "open"
                                ELSE IF runs[s] = "failed" THEN "failed" ELSE "kept"],
    verdict <- manifest

RefinesRunOutcome == Outcome!Spec

\* A launch ends, whatever its containers do: no container needs to answer,
\* because the poll loop has a deadline and the fallback does not wait.
LaunchEnds == (orch \notin Stopped) ~> (orch \in Stopped)

\* entrypoints.py:187-189, "final_report.json is the single source of truth:
\* _do_report (inside advance()) already wrote every successful language's
\* classification there": a finished launch that was to run up to the report
\* has a grade for every language that did not fail.
SourceOfTruth ==
    orch = "finished" /\ StopAt \in {"report", "done"} => Slugs \ Failed \subseteq graded

\* reporter.py:156, "Merge with existing report if present (multi-language
\* runs)": the committed report never loses a language.
ReportGrows == [][volume.report \subseteq volume'.report]_vars

\* A language that the committed report lists is not run again.
NoRework ==
    [][\A j \in Jobs : status[j] = "none" /\ status'[j] = "running"
                        => j[2] \notin volume.report]_vars

=============================================================================
