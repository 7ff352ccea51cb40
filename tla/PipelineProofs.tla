--------------------------- MODULE PipelineProofs ---------------------------
(***************************************************************************)
(* Proofs about Pipeline, for every finite set of languages, every number  *)
(* of launches and every stop point.                                       *)
(***************************************************************************)
EXTENDS Pipeline, TLAPS

(***************************************************************************)
(* What one step of a job changes: the job alone, along the forward path.  *)
(***************************************************************************)

\* Every state but DONE and FAILED has a successor, and it is known from where
\* each work state is entered.
LEMMA ForwardPath ==
    ASSUME NEW x \in States \ {"done", "failed"}
    PROVE  /\ NextState[x] \in WorkStates \cup {"done"}
           /\ NextState[x] # "inference" => x \in WorkStates
           /\ NextState[x] \in WorkStates => x # "report"
<1>1. CASE x = "pending" BY <1>1 DEF NextState, WorkStates
<1>2. CASE x = "inference" BY <1>2 DEF NextState, WorkStates
<1>3. CASE x = "light_metrics" BY <1>3 DEF NextState, WorkStates
<1>4. CASE x = "model_metrics" BY <1>4 DEF NextState, WorkStates
<1>5. CASE x = "judge" BY <1>5 DEF NextState, WorkStates
<1>6. CASE x = "report" BY <1>6 DEF NextState, WorkStates
<1> QED BY <1>1, <1>2, <1>3, <1>4, <1>5, <1>6 DEF States

\* The volume operators keep types, and keep the Gemma-4 outputs.
LEMMA ReloadType ==
    ASSUME TypeOK, NEW c \in Containers, Reload(c)
    PROVE  /\ volume' \in Volumes
           /\ view' \in [Containers -> Volumes]
           /\ dirty' \in SUBSET Containers
BY DEF TypeOK, Reload, Committed, Volumes

LEMMA CommitType ==
    ASSUME TypeOK, NEW c \in Containers, Commit(c)
    PROVE  TypeOK'
BY DEF TypeOK, Commit, Committed, Volumes, orchVars, Containers

LEMMA HomeType == \A j \in Jobs : Home(j) \in Containers
BY DEF Home, Containers

\* A step of job j.
JobChange(j) ==
    \E x \in States, y \in {"running", "returned", "crashed"} :
        /\ status[j] = "running"
        /\ state' = [state EXCEPT ![j] = x]
        /\ status' = [status EXCEPT ![j] = y]
        /\ y = "returned" => x \in {StopAt, "done", "failed"}
        /\ \/ x = state[j]
           \/ state[j] \in States \ {"done", "failed"} /\ x = NextState[state[j]]
           \/ state[j] \in States \ {"done", "failed", "report"} /\ x = "failed"

LEMMA JobStep ==
    ASSUME TypeOK, NEW j \in Jobs, Advance(j) \/ JobCrash(j)
    PROVE  /\ JobChange(j)
           /\ UNCHANGED orchVars
           /\ volume' \in Volumes
           /\ view' \in [Containers -> Volumes]
           /\ dirty' \in SUBSET Containers
<1> USE DEF TypeOK
<1> DEFINE VolType == /\ volume' \in Volumes
                      /\ view' \in [Containers -> Volumes]
                      /\ dirty' \in SUBSET Containers
<1>1. ASSUME NEW target \in WorkStates \cup {"done"}, Arrive(j, target)
      PROVE  JobChange(j) /\ UNCHANGED orchVars
  <2>1. target \in States
    BY DEF WorkStates, States
  <2>2. status' = [status EXCEPT ![j] = "running"]
    BY <1>1 DEF Arrive, Entering
  <2> QED BY <1>1, <2>1, <2>2 DEF Arrive, Entering, JobChange
<1>2. CASE DoInference(j)
  <2>1. VolType BY <1>2, HomeType, ReloadType DEF DoInference, volVars
  <2> QED BY <1>1, <1>2, <2>1 DEF DoInference, WorkStates
<1>3. CASE DoLightMetrics(j)
  <2>1. VolType BY <1>3, HomeType, ReloadType DEF DoLightMetrics
  <2> QED BY <1>1, <1>3, <2>1 DEF DoLightMetrics, WorkStates
<1>4. CASE DoModelMetrics(j)
  <2>1. VolType BY <1>4, HomeType, ReloadType DEF DoModelMetrics, volVars
  <2> QED BY <1>1, <1>4, <2>1 DEF DoModelMetrics, WorkStates
<1>5. CASE DoJudge(j)
  <2>1. VolType BY <1>5, HomeType, ReloadType DEF DoJudge
  <2> QED BY <1>1, <1>5, <2>1 DEF DoJudge, WorkStates
<1>6. CASE DoReport(j)
  <2>1. j[2] \in Slugs BY DEF Jobs
  <2>2. VolType BY <1>6, <2>1, HomeType DEF DoReport, Volumes
  <2> QED BY <1>1, <1>6, <2>2 DEF DoReport, WorkStates
<1>7. CASE ArriveDone(j)
  BY <1>1, <1>7 DEF ArriveDone, volVars
<1>8. CASE StageFails(j)
  <2>1. PICK target \in WorkStates : Entering(j, target)
    BY <1>8 DEF StageFails
  <2>2. state[j] \in States \ {"done", "failed", "report"}
    BY <2>1, ForwardPath DEF Entering
  <2> QED BY <1>8, <2>1, <2>2 DEF StageFails, Entering, JobChange, States, volVars
<1>9. CASE Return(j)
  <2>1. state' = [state EXCEPT ![j] = state[j]]
    BY <1>9 DEF Return
  <2> QED BY <1>9, <2>1 DEF Return, JobChange, volVars
<1>10. CASE JobCrash(j)
  <2>1. state' = [state EXCEPT ![j] = state[j]]
    BY <1>10 DEF JobCrash
  <2>2. VolType BY <1>10 DEF JobCrash, Containers, Volumes, Empty
  <2> QED BY <1>10, <2>1, <2>2 DEF JobCrash, JobChange
<1> QED BY <1>2, <1>3, <1>4, <1>5, <1>6, <1>7, <1>8, <1>9, <1>10 DEF Advance

-----------------------------------------------------------------------------
(***************************************************************************)
(* Type correctness.                                                       *)
(***************************************************************************)

LEMMA TypeInit == Init => TypeOK
<1> SUFFICES ASSUME Init PROVE TypeOK
  OBVIOUS
<1> USE DEF Init
<1>1. Empty \in Volumes
  BY DEF Empty, Volumes
<1>2. launch \in 0..MaxLaunches
  BY LaunchAssumption
<1>3. runs \in [Slugs -> States] /\ state \in [Jobs -> States]
  BY DEF States
<1> QED BY <1>1, <1>2, <1>3 DEF TypeOK, OrchStates

\* Once a launch has begun, its number is one of the launches.
LaunchCounted == orch # "idle" => launch \in 1..MaxLaunches

LEMMA LaunchStep == TypeOK /\ LaunchCounted /\ [Next]_vars => LaunchCounted'
<1> SUFFICES ASSUME TypeOK, LaunchCounted, [Next]_vars PROVE LaunchCounted'
  OBVIOUS
<1>1. CASE Start
  <2>1. launch \in Nat /\ launch < MaxLaunches
    BY <1>1 DEF TypeOK, Start
  <2> QED BY <1>1, <2>1, LaunchAssumption DEF Start, LaunchCounted
<1>2. CASE Orchestrate /\ ~Start
  BY <1>2 DEF Orchestrate, LaunchCounted, Stopped, Baseline, BaselineRaises, Deadline,
              Close, Summarize, Dispatch, CollectResult, CollectRaised, GiveUp, Record,
              orchVars
<1>3. CASE OrchCrash
  BY <1>3 DEF OrchCrash, LaunchCounted, Stopped
<1>4. ASSUME NEW j \in Jobs, Advance(j) \/ JobCrash(j) PROVE LaunchCounted'
  BY <1>4, JobStep DEF orchVars, LaunchCounted
<1>5. ASSUME NEW c \in Containers, Commit(c) PROVE LaunchCounted'
  BY <1>5 DEF Commit, orchVars, LaunchCounted
<1>6. CASE UNCHANGED vars
  BY <1>6 DEF vars, orchVars, LaunchCounted
<1> QED
  BY <1>1, <1>2, <1>3, <1>4, <1>5, <1>6 DEF Next

LEMMA TypeStep == TypeOK /\ LaunchCounted /\ [Next]_vars => TypeOK'
<1> SUFFICES ASSUME TypeOK, LaunchCounted, [Next]_vars PROVE TypeOK'
  OBVIOUS
<1> USE DEF TypeOK, OrchStates, Stopped
<1>1. CASE Start
  <2>1. launch' \in 0..MaxLaunches
    BY <1>1, LaunchAssumption DEF Start
  <2>2. volume.report \in SUBSET Slugs
    BY DEF Volumes
  <2>3. runs' \in [Slugs -> States]
    BY <1>1, <2>2 DEF Start, States
  <2>4. view' \in [Containers -> Volumes]
    BY <1>1 DEF Start, Containers
  <2> QED BY <1>1, <2>1, <2>2, <2>3, <2>4 DEF Start
<1>2. CASE Baseline
  <2>1. volume' \in Volumes
    BY <1>2 DEF Baseline, Volumes
  <2>2. view' \in [Containers -> Volumes]
    BY <1>2, <2>1 DEF Baseline, Containers
  <2> QED BY <1>2, <2>1, <2>2 DEF Baseline
<1>3. CASE BaselineRaises
  <2>1. volume' \in Volumes
    BY <1>3 DEF BaselineRaises, Volumes
  <2> QED BY <1>3, <2>1 DEF BaselineRaises
<1>4. CASE Deadline
  BY <1>4 DEF Deadline, volVars
<1>5. CASE Close
  BY <1>5 DEF Close, volVars
<1>6. CASE Summarize
  <2>1. view[Orch].report \in SUBSET Slugs
    BY DEF Volumes, Containers
  <2> QED BY <1>6, <2>1 DEF Summarize, volVars
<1>7. ASSUME NEW s \in Slugs, Dispatch(s) PROVE TypeOK'
  <2>1. view' \in [Containers -> Volumes]
    BY <1>7 DEF Dispatch
  <2>2. status' \in [Jobs -> {"none", "running", "returned", "crashed"}]
    BY <1>7 DEF Dispatch
  <2> QED BY <1>7, <2>1, <2>2 DEF Dispatch, orchVars
<1>8. ASSUME NEW s \in Slugs, NEW outcome \in States, Record(s, outcome) PROVE TypeOK'
  BY <1>8 DEF Record, volVars
<1>9. ASSUME NEW s \in Slugs,
             CollectResult(s) \/ CollectRaised(s) \/ GiveUp(s)
      PROVE  TypeOK'
  <2>1. "failed" \in States
    BY DEF States
  <2>2. CASE CollectRaised(s) \/ GiveUp(s)
    BY <1>8, <2>1, <2>2 DEF CollectRaised, GiveUp
  <2>3. CASE CollectResult(s)
    <3>1. status[Job(s)] = "returned" /\ Record(s, state[Job(s)])
      BY <2>3 DEF CollectResult
    <3>2. Job(s) \in Jobs
      BY <2>3 DEF CollectResult, LaunchCounted, Job, Jobs
    <3>3. state[Job(s)] \in States
      BY <3>2
    <3> QED BY <1>8, <3>1, <3>3
  <2> QED BY <1>9, <2>2, <2>3
<1>10. CASE OrchCrash
  <2>1. view' \in [Containers -> Volumes]
    BY <1>10 DEF OrchCrash, Volumes, Empty
  <2>2. status' \in [Jobs -> {"none", "running", "returned", "crashed"}]
    BY <1>10 DEF OrchCrash
  <2> QED BY <1>10, <2>1, <2>2 DEF OrchCrash
<1>11. ASSUME NEW j \in Jobs, Advance(j) \/ JobCrash(j) PROVE TypeOK'
  BY <1>11, JobStep DEF JobChange, orchVars
<1>12. ASSUME NEW c \in Containers, Commit(c) PROVE TypeOK'
  BY <1>12, CommitType
<1>13. CASE UNCHANGED vars
  BY <1>13 DEF vars, orchVars, volVars
<1> QED
  BY <1>1, <1>2, <1>3, <1>4, <1>5, <1>6, <1>7, <1>9, <1>10, <1>11, <1>12, <1>13
     DEF Next, Orchestrate

\* Every variable of the pipeline keeps its type, for any number of languages
\* and launches.
THEOREM TypeCorrect == Spec => []TypeOK
<1>1. Init => TypeOK /\ LaunchCounted
  BY TypeInit DEF Init, LaunchCounted
<1>2. TypeOK /\ LaunchCounted /\ [Next]_vars => (TypeOK /\ LaunchCounted)'
  BY TypeStep, LaunchStep
<1> QED BY <1>1, <1>2, PTL DEF Spec

-----------------------------------------------------------------------------
(***************************************************************************)
(* Outcomes.  OutcomeBacked and ResumeSkips are not inductive by           *)
(* themselves: a launch must also find the jobs it is about to number      *)
(* untouched, a job that returned must have stopped where advance() stops, *)
(* and nothing resumed may be waited for.                                  *)
(***************************************************************************)

FreshJobs ==
    \A j \in Jobs : j[1] > launch => status[j] = "none"

ReturnedStates ==
    \A j \in Jobs : status[j] = "returned" => state[j] \in {StopAt, "done", "failed"}

\* Between launches nothing is claimed for a language; while outcomes are
\* collected the manifest says so.
Phases ==
    /\ orch = "idle" => pending = Slugs /\ completed = {}
    /\ orch \in {"baseline", "poll", "drain"} => manifest = "started"
    /\ LaunchCounted

OutcomeInv ==
    TypeOK /\ Phases /\ FreshJobs /\ ReturnedStates /\ OutcomeBacked /\ ResumeSkips

LEMMA OutcomeInit == Init => OutcomeInv
<1> SUFFICES ASSUME Init PROVE OutcomeInv
  OBVIOUS
<1>1. TypeOK
  BY TypeInit
<1>2. Phases /\ FreshJobs /\ ReturnedStates
  BY DEF Init, Phases, LaunchCounted, FreshJobs, ReturnedStates
<1>3. OutcomeBacked /\ ResumeSkips
  BY DEF Init, OutcomeBacked, ResumeSkips
<1> QED BY <1>1, <1>2, <1>3 DEF OutcomeInv

LEMMA OutcomeStep == OutcomeInv /\ [Next]_vars => OutcomeInv'
<1> SUFFICES ASSUME OutcomeInv, [Next]_vars PROVE OutcomeInv'
  OBVIOUS
<1> USE DEF OutcomeInv
<1>t. TypeOK' /\ LaunchCounted'
  BY TypeStep, LaunchStep DEF Phases
<1>j. orch # "idle" => \A s \in Slugs : Job(s) \in Jobs
  BY DEF Phases, LaunchCounted, Job, Jobs
<1>1. CASE Start
  <2>1. launch \in Nat /\ launch' = launch + 1 /\ launch' \in 1..MaxLaunches
    BY <1>1, LaunchAssumption DEF Start, TypeOK
  <2>2. Phases'
    BY <1>1, <1>t DEF Start, Phases, Stopped
  <2>3. FreshJobs' /\ ReturnedStates'
    <3>1. \A j \in Jobs : j[1] \in Nat
      BY DEF Jobs
    <3> QED BY <1>1, <2>1, <3>1 DEF Start, FreshJobs, ReturnedStates
  <2>4. volume.report \in SUBSET Slugs
    BY DEF TypeOK, Volumes
  <2>5. OutcomeBacked'
    BY <1>1, <2>4 DEF Start, OutcomeBacked
  <2>6. ResumeSkips'
    <3>1. \A s \in Slugs : <<launch + 1, s>> \in Jobs /\ <<launch + 1, s>>[1] > launch
      BY <2>1 DEF Jobs
    <3> QED BY <1>1, <2>1, <2>4, <3>1 DEF Start, ResumeSkips, FreshJobs, Job
  <2> QED BY <1>t, <2>2, <2>3, <2>5, <2>6
<1>2. CASE Baseline \/ BaselineRaises \/ Deadline \/ Close \/ Summarize
  <2>1. UNCHANGED <<launch, completed, runs, pending, state, status>>
    BY <1>2 DEF Baseline, BaselineRaises, Deadline, Close, Summarize
  <2>2. Phases'
    BY <1>2, <1>t DEF Baseline, BaselineRaises, Deadline, Close, Summarize, Phases
  <2> QED BY <1>t, <2>1, <2>2 DEF FreshJobs, ReturnedStates, OutcomeBacked, ResumeSkips, Job
<1>3. ASSUME NEW s \in Slugs, Dispatch(s) PROVE OutcomeInv'
  <2>1. /\ UNCHANGED <<launch, completed, runs, pending, state, orch, manifest>>
        /\ orch # "idle" /\ s \in pending
        /\ status[Job(s)] = "none"
        /\ status' = [status EXCEPT ![Job(s)] = "running"]
    BY <1>3 DEF Dispatch, orchVars
  <2>2. Phases'
    BY <1>t, <2>1 DEF Phases
  <2>3. FreshJobs' /\ ReturnedStates'
    <3>1. ~(Job(s)[1] > launch)
      BY <2>1 DEF Job, TypeOK
    <3> QED BY <2>1, <3>1, <1>j DEF FreshJobs, ReturnedStates, TypeOK
  <2>4. \A t \in Slugs : t # s => status'[Job(t)] = status[Job(t)]
    BY <2>1, <1>j DEF TypeOK, Job
  <2>5. OutcomeBacked' /\ ResumeSkips'
    <3>1. s \notin completed
      BY <2>1 DEF ResumeSkips
    <3>2. \A t \in Slugs : Job(t)' = Job(t)
      BY <2>1 DEF Job
    <3> QED BY <2>1, <2>4, <3>1, <3>2 DEF OutcomeBacked, ResumeSkips, TypeOK
  <2> QED BY <1>t, <2>2, <2>3, <2>5
<1>4. ASSUME NEW s \in Slugs,
             CollectResult(s) \/ CollectRaised(s) \/ GiveUp(s)
      PROVE  OutcomeInv'
  <2>1. /\ UNCHANGED <<orch, launch, completed, manifest, state, status>>
        /\ orch # "idle" /\ s \in pending /\ pending' = pending \ {s}
    BY <1>4 DEF CollectResult, CollectRaised, GiveUp, Record
  <2>2. PICK o : /\ runs' = [runs EXCEPT ![s] = o]
                 /\ \/ o = "failed"
                    \/ o = state[Job(s)] /\ status[Job(s)] = "returned"
    BY <1>4 DEF CollectResult, CollectRaised, GiveUp, Record
  <2>3. Phases'
    BY <1>t, <2>1 DEF Phases
  <2>4. s \notin completed
    BY <2>1 DEF ResumeSkips
  <2>5. o = "failed" \/ o \in {StopAt, "done"}
    BY <2>1, <2>2, <1>j DEF ReturnedStates
  <2>6. runs'[s] = o /\ \A t \in Slugs : t # s => runs'[t] = runs[t]
    BY <2>2 DEF TypeOK
  <2>7. OutcomeBacked' /\ ResumeSkips'
    BY <2>1, <2>2, <2>4, <2>5, <2>6 DEF OutcomeBacked, ResumeSkips, Job, TypeOK
  <2> QED BY <1>t, <2>1, <2>3, <2>7 DEF FreshJobs, ReturnedStates
<1>5. CASE OrchCrash
  <2>1. /\ UNCHANGED <<launch, completed, runs, pending, state>>
        /\ orch' = "crashed"
        /\ \A j \in Jobs :
              status'[j] # status[j] => status[j] = "running" /\ status'[j] = "crashed"
    BY <1>5 DEF OrchCrash
  <2>2. Phases' /\ orch # "idle"
    BY <1>5, <1>t, <2>1 DEF Phases, OrchCrash, Stopped
  <2>3. OutcomeBacked' /\ ResumeSkips'
    <3>1. \A t \in Slugs : Job(t)' = Job(t)
      BY <2>1 DEF Job
    <3> QED BY <2>1, <2>2, <3>1, <1>j DEF OutcomeBacked, ResumeSkips, TypeOK
  <2> QED BY <1>t, <2>1, <2>2, <2>3 DEF FreshJobs, ReturnedStates
<1>6. ASSUME NEW j \in Jobs, Advance(j) \/ JobCrash(j) PROVE OutcomeInv'
  <2>1. JobChange(j) /\ UNCHANGED orchVars
    BY <1>6, JobStep
  <2>2. PICK x \in States, y \in {"running", "returned", "crashed"} :
           /\ status[j] = "running"
           /\ state' = [state EXCEPT ![j] = x]
           /\ status' = [status EXCEPT ![j] = y]
           /\ y = "returned" => x \in {StopAt, "done", "failed"}
    BY <2>1 DEF JobChange
  <2>3. Phases'
    BY <1>t, <2>1 DEF Phases, orchVars
  <2>4. FreshJobs' /\ ReturnedStates'
    BY <2>1, <2>2 DEF FreshJobs, ReturnedStates, TypeOK, orchVars
  <2>5. OutcomeBacked' /\ ResumeSkips'
    <3>1. \A t \in Slugs : Job(t)' = Job(t)
      BY <2>1 DEF Job, orchVars
    <3>2. CASE orch = "idle"
      BY <2>1, <3>2 DEF Phases, OutcomeBacked, ResumeSkips, orchVars
    <3>3. CASE orch # "idle"
      BY <2>1, <2>2, <3>1, <3>3, <1>j DEF OutcomeBacked, ResumeSkips, TypeOK, orchVars
    <3> QED BY <3>2, <3>3
  <2> QED BY <1>t, <2>3, <2>4, <2>5
<1>7. ASSUME NEW c \in Containers, Commit(c) PROVE OutcomeInv'
  BY <1>7, <1>t DEF Commit, orchVars, Phases, FreshJobs, ReturnedStates, OutcomeBacked,
                    ResumeSkips, Job
<1>8. CASE UNCHANGED vars
  BY <1>8, <1>t DEF vars, orchVars, Phases, FreshJobs, ReturnedStates, OutcomeBacked,
                    ResumeSkips, Job
<1> QED
  BY <1>1, <1>2, <1>3, <1>4, <1>5, <1>6, <1>7, <1>8 DEF Next, Orchestrate

LEMMA OutcomeInvariant == Spec => []OutcomeInv
BY OutcomeInit, OutcomeStep, PTL DEF Spec

\* However jobs crash, hang or answer late, and whatever earlier launches left
\* running, the orchestrator reports no success it did not get.
THEOREM OutcomesAreBacked == Spec => []OutcomeBacked
BY OutcomeInvariant, PTL DEF OutcomeInv

\* A launch never starts, waits for or fails a language it found in the report.
THEOREM ResumeIsRespected == Spec => []ResumeSkips
BY OutcomeInvariant, PTL DEF OutcomeInv

\* OutcomeFinal is the action property that goes with OutcomeBacked.
THEOREM OutcomesAreFinal == Spec => OutcomeFinal
<1>1. OutcomeInv /\ [Next]_vars =>
        [launch' = launch =>
           \A s \in Slugs \ pending : s \notin pending' /\ runs'[s] = runs[s]]_vars
  <2> SUFFICES ASSUME OutcomeInv, Next, launch' = launch, NEW s \in Slugs \ pending
               PROVE  s \notin pending' /\ runs'[s] = runs[s]
    OBVIOUS
  <2> USE DEF OutcomeInv, TypeOK
  <2>1. ~Start
    BY DEF Start
  <2>2. ASSUME NEW t \in Slugs, CollectResult(t) \/ CollectRaised(t) \/ GiveUp(t)
        PROVE  s \notin pending' /\ runs'[s] = runs[s]
    BY <2>2 DEF CollectResult, CollectRaised, GiveUp, Record
  <2>3. ASSUME NEW t \in Slugs, Dispatch(t)
        PROVE  UNCHANGED <<pending, runs>>
    BY <2>3 DEF Dispatch, orchVars
  <2>4. CASE Baseline \/ BaselineRaises \/ Deadline \/ Close \/ Summarize \/ OrchCrash
    BY <2>4 DEF Baseline, BaselineRaises, Deadline, Close, Summarize, OrchCrash
  <2>5. ASSUME NEW j \in Jobs, Advance(j) \/ JobCrash(j)
        PROVE  UNCHANGED <<pending, runs>>
    BY <2>5, JobStep DEF orchVars
  <2>6. ASSUME NEW c \in Containers, Commit(c)
        PROVE  UNCHANGED <<pending, runs>>
    BY <2>6 DEF Commit, orchVars
  <2> QED
    BY <2>1, <2>2, <2>3, <2>4, <2>5, <2>6 DEF Next, Orchestrate
<1> QED
  BY <1>1, OutcomeInvariant, PTL DEF Spec, OutcomeFinal

-----------------------------------------------------------------------------
(***************************************************************************)
(* The orchestration implements RunOutcome.                                *)
(***************************************************************************)

\* The refinement mapping, as Pipeline's instance of RunOutcome writes it.
OutcomeOf(s) ==
    IF s \in pending THEN "open" ELSE IF runs[s] = "failed" THEN "failed" ELSE "kept"

Settled == [s \in Slugs |-> OutcomeOf(s)]

LEMMA OutcomeUnchanged ==
    ASSUME UNCHANGED <<pending, runs, manifest>>
    PROVE  UNCHANGED Outcome!vars
BY DEF Outcome!vars

LEMMA StartLaunches ==
    ASSUME TypeOK, Start
    PROVE  \E kept \in SUBSET Slugs : Outcome!Launch(kept)
<1>1. volume.report \in SUBSET Slugs
  BY DEF TypeOK, Volumes
<1>2. Settled' = [s \in Slugs |-> IF s \in volume.report THEN "kept" ELSE "open"]
  <2>1. ASSUME NEW s \in Slugs
        PROVE OutcomeOf(s)' = IF s \in volume.report THEN "kept" ELSE "open"
    BY <1>1, <2>1 DEF Start, OutcomeOf
  <2> QED BY <2>1 DEF Settled
<1>3. manifest' = "started"
  BY DEF Start
<1> QED BY <1>1, <1>2, <1>3 DEF Outcome!Launch, Settled, OutcomeOf

LEMMA RecordSettles ==
    ASSUME TypeOK, Phases, orch \in {"poll", "drain"},
           NEW s \in Slugs, NEW o \in States, Record(s, o)
    PROVE  \E b \in {"kept", "failed"} : Outcome!Settle(s, b)
<1> DEFINE b == IF o = "failed" THEN "failed" ELSE "kept"
<1>1. /\ s \in pending /\ pending' = pending \ {s}
      /\ runs' = [runs EXCEPT ![s] = o]
      /\ manifest' = manifest /\ manifest = "started"
  BY DEF Record, Phases
<1>2. Settled[s] = "open"
  BY <1>1 DEF Settled, OutcomeOf
<1>3. Settled' = [Settled EXCEPT ![s] = b]
  <2>1. OutcomeOf(s)' = b
    BY <1>1 DEF OutcomeOf, TypeOK
  <2>2. ASSUME NEW t \in Slugs, t # s PROVE OutcomeOf(t)' = OutcomeOf(t)
    BY <1>1, <2>2 DEF OutcomeOf, TypeOK
  <2> QED BY <2>1, <2>2 DEF Settled
<1>4. Outcome!Settle(s, b)
  BY <1>1, <1>2, <1>3 DEF Outcome!Settle, Settled, OutcomeOf
<1> QED BY <1>4

LEMMA CloseJudges ==
    ASSUME TypeOK, Phases, Close
    PROVE  Outcome!Judge
<1>1. /\ pending = {} /\ manifest = "started"
      /\ UNCHANGED <<pending, runs>>
  BY DEF Close, Phases
<1>2. \A s \in Slugs : Settled[s] = IF s \in Failed THEN "failed" ELSE "kept"
  BY <1>1 DEF Settled, OutcomeOf, Failed
<1>3. manifest' = Outcome!VerdictOf(Settled)
  <2>1. CASE Failed = {}
    <3>1. manifest' = "completed"
      BY <2>1, SlugsAssumption DEF Close
    <3> QED BY <1>2, <2>1, <3>1 DEF Outcome!VerdictOf
  <2>2. CASE Failed = Slugs
    <3>1. manifest' = "failed"
      BY <2>2, SlugsAssumption DEF Close
    <3> QED BY <1>2, <2>2, <3>1, SlugsAssumption DEF Outcome!VerdictOf
  <2>3. CASE Failed # {} /\ Failed # Slugs
    <3>1. manifest' = "partial"
      BY <2>3 DEF Close
    <3>2. PICK s \in Slugs : s \in Failed
      BY <2>3 DEF Failed
    <3>3. PICK t \in Slugs : t \notin Failed
      BY <2>3 DEF Failed
    <3> QED BY <1>2, <3>1, <3>2, <3>3 DEF Outcome!VerdictOf
  <2> QED BY <2>1, <2>2, <2>3
<1>4. UNCHANGED Settled
  BY <1>1 DEF Settled, OutcomeOf
<1> QED BY <1>1, <1>2, <1>3, <1>4 DEF Outcome!Judge, Settled, OutcomeOf

LEMMA StepImplements ==
    OutcomeInv /\ [Next]_vars => [Outcome!Next]_(Outcome!vars)
<1> SUFFICES ASSUME OutcomeInv, [Next]_vars
             PROVE  [Outcome!Next]_(Outcome!vars)
  OBVIOUS
<1> USE DEF OutcomeInv
<1>1. CASE Start
  BY <1>1, StartLaunches DEF Outcome!Next
<1>2. CASE Close
  BY <1>2, CloseJudges DEF Outcome!Next
<1>3. ASSUME NEW s \in Slugs,
             CollectResult(s) \/ CollectRaised(s) \/ GiveUp(s)
      PROVE  Outcome!Next
  <2>1. orch \in {"poll", "drain"} /\ Job(s) \in Jobs
    BY <1>3 DEF CollectResult, CollectRaised, GiveUp, Phases, LaunchCounted, Job, Jobs
  <2>2. PICK o \in States : Record(s, o)
    <3>1. "failed" \in States /\ state[Job(s)] \in States
      BY <2>1 DEF States, TypeOK
    <3> QED BY <1>3, <3>1 DEF CollectResult, CollectRaised, GiveUp
  <2> QED BY <2>1, <2>2, RecordSettles DEF Outcome!Next
<1>4. CASE Baseline \/ BaselineRaises \/ Deadline \/ Summarize \/ OrchCrash
  <2>1. UNCHANGED <<pending, runs, manifest>>
    BY <1>4 DEF Baseline, BaselineRaises, Deadline, Summarize, OrchCrash
  <2> QED BY <2>1, OutcomeUnchanged
<1>5. ASSUME NEW s \in Slugs, Dispatch(s) PROVE UNCHANGED Outcome!vars
  BY <1>5, OutcomeUnchanged DEF Dispatch, orchVars
<1>6. ASSUME NEW j \in Jobs, Advance(j) \/ JobCrash(j) PROVE UNCHANGED Outcome!vars
  BY <1>6, JobStep, OutcomeUnchanged DEF orchVars
<1>7. ASSUME NEW c \in Containers, Commit(c) PROVE UNCHANGED Outcome!vars
  BY <1>7, OutcomeUnchanged DEF Commit, orchVars
<1>8. CASE UNCHANGED vars
  BY <1>8, OutcomeUnchanged DEF vars, orchVars
<1> QED
  BY <1>1, <1>2, <1>3, <1>4, <1>5, <1>6, <1>7, <1>8 DEF Next, Orchestrate

\* run_pipeline with run_fanout implements RunOutcome: per launch every language
\* is settled once, and the manifest's verdict is the one its outcomes call for.
THEOREM PipelineImplementsRunOutcome == Spec => RefinesRunOutcome
<1>1. Init => Outcome!Init
  BY DEF Init, Outcome!Init
<1> QED BY <1>1, StepImplements, OutcomeInvariant, PTL
        DEF Spec, RefinesRunOutcome, Outcome!Spec

-----------------------------------------------------------------------------
(***************************************************************************)
(* What is on the volume: the Gemma-4 outputs come first, and every report *)
(* section comes from a job that went all the way.                         *)
(***************************************************************************)

\* A view is never ahead of the volume as far as the Gemma-4 outputs go.
GemmaViews == \A c \in Containers : view[c].gemma => volume.gemma

VolumeInv == TypeOK /\ LaunchCounted /\ GemmaViews /\ BaselineFirst /\ ReportBacked

\* Committing and reloading move report sections around and create none.
LEMMA CommittedFacts ==
    ASSUME TypeOK, NEW c \in Containers
    PROVE  /\ Committed(c) \in Volumes
           /\ Committed(c).gemma = volume.gemma
           /\ Committed(c).report = volume.report \/ Committed(c).report = view[c].report
BY DEF TypeOK, Committed, Volumes

\* The steps of the volume that no stage of advance() adds anything to.
VolumeMoves ==
    /\ volume.gemma => volume'.gemma
    /\ \A c \in Containers : view'[c].gemma => volume'.gemma
    /\ Reported' \subseteq Reported

LEMMA ReloadMoves ==
    ASSUME TypeOK, GemmaViews, NEW c \in Containers, Reload(c)
    PROVE  VolumeMoves
<1>1. \A d \in Containers : view'[d] = IF d = c THEN Committed(c) ELSE view[d]
  BY DEF Reload, TypeOK
<1>2. volume' = Committed(c)
  BY DEF Reload
<1> QED BY <1>1, <1>2, CommittedFacts DEF VolumeMoves, GemmaViews, Reported

LEMMA CommitMoves ==
    ASSUME TypeOK, GemmaViews, NEW c \in Containers, Commit(c)
    PROVE  VolumeMoves
BY CommittedFacts DEF Commit, VolumeMoves, GemmaViews, Reported

\* A job that has reported never loses that state.
LEMMA ReportedJobsStay ==
    ASSUME TypeOK, NEW j \in Jobs, JobChange(j), NEW i \in Jobs,
           state[i] \in {"report", "done"}
    PROVE  state'[i] \in {"report", "done"}
<1>1. PICK x \in States :
        /\ state' = [state EXCEPT ![j] = x]
        /\ \/ x = state[j]
           \/ state[j] \in States \ {"done", "failed"} /\ x = NextState[state[j]]
           \/ state[j] \in States \ {"done", "failed", "report"} /\ x = "failed"
  BY DEF JobChange
<1>2. NextState["report"] = "done"
  BY DEF NextState
<1> QED BY <1>1, <1>2 DEF TypeOK

\* Past the inference stage a job only goes on; into it, it needs Gemma-4.
LEMMA WorkStaysBacked ==
    ASSUME TypeOK, GemmaViews, BaselineFirst, NEW j \in Jobs, Advance(j) \/ JobCrash(j),
           VolumeMoves \/ DoReport(j)
    PROVE  BaselineFirst'
<1>1. volume.gemma => volume'.gemma
  BY DEF VolumeMoves, DoReport
<1>2. PICK x \in States :
        /\ state' = [state EXCEPT ![j] = x]
        /\ \/ x = state[j]
           \/ state[j] \in States \ {"done", "failed"} /\ x = NextState[state[j]]
           \/ x = "failed"
  BY JobStep DEF JobChange
<1>3. ASSUME x \in WorkStates \cup {"done"} PROVE volume'.gemma
  <2>1. CASE x = state[j]
    BY <1>1, <1>3, <2>1 DEF BaselineFirst
  <2>2. CASE state[j] \in WorkStates
    BY <1>1, <2>2 DEF BaselineFirst
  <2>3. CASE x # state[j] /\ state[j] \notin WorkStates
    <3>1. x # "failed"
      BY <1>3 DEF WorkStates
    <3>2. x = "inference"
      BY <1>2, <2>3, <3>1, ForwardPath
    <3>3. state'[j] = "inference" /\ state[j] # "inference"
      BY <1>2, <2>3, <3>2 DEF TypeOK, WorkStates
    <3>4. DoInference(j)
      BY <3>3 DEF Advance, DoLightMetrics, DoModelMetrics, DoJudge, DoReport, ArriveDone,
                  StageFails, Return, JobCrash, Arrive, TypeOK
    <3> QED BY <1>1, <3>4, HomeType DEF DoInference, GemmaViews
  <2> QED BY <2>1, <2>2, <2>3
<1> QED BY <1>1, <1>2, <1>3 DEF BaselineFirst, TypeOK

LEMMA VolumeInit == Init => VolumeInv
<1> SUFFICES ASSUME Init PROVE VolumeInv
  OBVIOUS
<1>1. TypeOK
  BY TypeInit
<1>2. LaunchCounted /\ GemmaViews
  BY DEF Init, LaunchCounted, GemmaViews, Empty
<1>3. BaselineFirst /\ ReportBacked
  BY DEF Init, BaselineFirst, WorkStates, ReportBacked, Reported, Empty
<1> QED BY <1>1, <1>2, <1>3 DEF VolumeInv

\* Which steps move the volume only, and which section DoReport adds.
LEMMA JobMoves ==
    ASSUME TypeOK, GemmaViews, NEW j \in Jobs, Advance(j) \/ JobCrash(j)
    PROVE  VolumeMoves \/ DoReport(j)
<1>1. CASE UNCHANGED volVars
  BY <1>1 DEF volVars, VolumeMoves, GemmaViews, Reported
<1>2. CASE Reload(Home(j))
  BY <1>2, HomeType, ReloadMoves
<1>3. CASE JobCrash(j)
  <2>1. \A c \in Containers : view'[c] = IF c = j THEN Empty ELSE view[c]
    BY <1>3 DEF JobCrash, TypeOK
  <2> QED BY <1>3, <2>1 DEF JobCrash, VolumeMoves, GemmaViews, Reported, Empty
<1> QED
  BY <1>1, <1>2, <1>3 DEF Advance, DoInference, DoLightMetrics, DoModelMetrics, DoJudge,
                          ArriveDone, StageFails, Return

LEMMA VolumeStep == VolumeInv /\ [Next]_vars => VolumeInv'
<1> SUFFICES ASSUME VolumeInv, [Next]_vars PROVE VolumeInv'
  OBVIOUS
<1> USE DEF VolumeInv
<1>t. TypeOK' /\ LaunchCounted'
  BY TypeStep, LaunchStep
\* Steps that leave the jobs alone and only move the volume.
<1>m. ASSUME VolumeMoves, UNCHANGED state,
             completed' \cup graded' \subseteq completed \cup graded \cup Reported
      PROVE  VolumeInv'
  <2>1. GemmaViews' /\ BaselineFirst'
    BY <1>m DEF VolumeMoves, GemmaViews, BaselineFirst
  <2>2. ReportBacked'
    BY <1>m DEF VolumeMoves, ReportBacked
  <2> QED BY <1>t, <2>1, <2>2
<1>1. CASE Start
  <2>1. \A c \in Containers : view'[c] = IF c = Orch THEN volume ELSE view[c]
    BY <1>1 DEF Start, TypeOK
  <2>2. VolumeMoves
    BY <1>1, <2>1 DEF Start, VolumeMoves, GemmaViews, Reported
  <2> QED BY <1>1, <1>m, <2>2 DEF Start, Reported
<1>2. CASE Baseline
  <2>1. PICK written \in {volume.gemma, TRUE} :
           /\ volume' = [volume EXCEPT !.gemma = written]
           /\ view' = [view EXCEPT ![Orch] = volume']
    BY <1>2 DEF Baseline
  <2>2. volume'.report = volume.report /\ volume'.gemma = written
    BY <2>1 DEF TypeOK, Volumes
  <2>3. \A c \in Containers : view'[c] = IF c = Orch THEN volume' ELSE view[c]
    BY <2>1 DEF TypeOK
  <2>4. VolumeMoves
    BY <2>1, <2>2, <2>3 DEF VolumeMoves, GemmaViews, Reported
  <2> QED BY <1>2, <1>m, <2>4 DEF Baseline
<1>3. CASE BaselineRaises
  <2>1. PICK written \in {volume.gemma, TRUE} :
           volume' = [volume EXCEPT !.gemma = written]
    BY <1>3 DEF BaselineRaises
  <2>2. volume'.report = volume.report /\ volume'.gemma = written
    BY <2>1 DEF TypeOK, Volumes
  <2>3. VolumeMoves
    BY <1>3, <2>1, <2>2 DEF BaselineRaises, VolumeMoves, GemmaViews, Reported
  <2> QED BY <1>3, <1>m, <2>3 DEF BaselineRaises
<1>u. UNCHANGED volVars => VolumeMoves
  BY DEF volVars, VolumeMoves, GemmaViews, Reported
<1>4. CASE Deadline \/ Close
  BY <1>4, <1>m, <1>u DEF Deadline, Close
<1>5. CASE Summarize
  <2>1. graded' \subseteq Reported
    BY <1>5 DEF Summarize, Reported, Containers
  <2> QED BY <1>5, <1>m, <1>u, <2>1 DEF Summarize
<1>6. ASSUME NEW s \in Slugs, Dispatch(s) PROVE VolumeInv'
  <2>1. \A c \in Containers : view'[c] = view[c] \/ view'[c] = volume
    BY <1>6 DEF Dispatch, TypeOK
  <2>2. VolumeMoves
    BY <1>6, <2>1 DEF Dispatch, VolumeMoves, GemmaViews, Reported
  <2> QED BY <1>6, <1>m, <2>2 DEF Dispatch, orchVars
<1>7. ASSUME NEW s \in Slugs,
             CollectResult(s) \/ CollectRaised(s) \/ GiveUp(s)
      PROVE  VolumeInv'
  BY <1>7, <1>m, <1>u DEF CollectResult, CollectRaised, GiveUp, Record
<1>8. CASE OrchCrash
  <2>1. \A c \in Containers : view'[c] = IF c = Orch THEN Empty ELSE view[c]
    BY <1>8 DEF OrchCrash, TypeOK
  <2>2. VolumeMoves
    BY <1>8, <2>1 DEF OrchCrash, VolumeMoves, GemmaViews, Reported, Empty
  <2> QED BY <1>8, <1>m, <2>2 DEF OrchCrash
<1>9. ASSUME NEW j \in Jobs, Advance(j) \/ JobCrash(j) PROVE VolumeInv'
  <2>1. JobChange(j) /\ UNCHANGED orchVars
    BY <1>9, JobStep
  <2>2. VolumeMoves \/ DoReport(j)
    BY <1>9, JobMoves
  <2>3. BaselineFirst'
    BY <1>9, <2>2, WorkStaysBacked
  <2>4. CASE VolumeMoves
    <3>1. GemmaViews'
      BY <2>4 DEF VolumeMoves, GemmaViews
    <3>2. ReportBacked'
      BY <2>1, <2>4, ReportedJobsStay DEF VolumeMoves, ReportBacked, orchVars
    <3> QED BY <1>t, <2>3, <3>1, <3>2
  <2>5. CASE DoReport(j)
    <3>1. \A c \in Containers :
             /\ view'[c].gemma = view[c].gemma
             /\ view'[c].report \subseteq view[c].report \cup {j[2]}
      BY <2>5 DEF DoReport, TypeOK, Volumes
    <3>2. volume' = volume /\ j[2] \in Slugs /\ state'[j] = "report"
      BY <2>5 DEF DoReport, Arrive, Jobs, TypeOK
    <3>3. GemmaViews'
      BY <3>1, <3>2 DEF GemmaViews
    <3>4. Reported' \subseteq Reported \cup {j[2]}
      BY <3>1, <3>2 DEF Reported
    <3>5. ReportBacked'
      BY <2>1, <3>2, <3>4, ReportedJobsStay DEF ReportBacked, orchVars
    <3> QED BY <1>t, <2>3, <3>3, <3>5
  <2> QED BY <2>2, <2>4, <2>5
<1>10. ASSUME NEW c \in Containers, Commit(c) PROVE VolumeInv'
  BY <1>10, <1>m, CommitMoves DEF Commit, orchVars
<1>11. CASE UNCHANGED vars
  BY <1>11, <1>m, <1>u DEF vars, orchVars
<1> QED
  BY <1>1, <1>2, <1>3, <1>4, <1>5, <1>6, <1>7, <1>8, <1>9, <1>10, <1>11
     DEF Next, Orchestrate

LEMMA VolumeInvariant == Spec => []VolumeInv
BY VolumeInit, VolumeStep, PTL DEF Spec

\* No job, of whatever launch, gets past inference before the Gemma-4 outputs
\* are on the volume.
THEOREM BaselineComesFirst == Spec => []BaselineFirst
BY VolumeInvariant, PTL DEF VolumeInv

\* Every language in any copy of the report, among the resumed ones or in the
\* summary, has a job that ran every stage.
THEOREM ReportsAreBacked == Spec => []ReportBacked
BY VolumeInvariant, PTL DEF VolumeInv

-----------------------------------------------------------------------------
(***************************************************************************)
(* Inline runs (one language, or no spawn function): advance() runs in the *)
(* orchestrator's container, which alone writes the report.  SourceOfTruth *)
(* and the other properties of such runs need that at most the present     *)
(* launch has a job running, that the orchestrator's view is ahead of the  *)
(* volume by what it has not committed, and that a language is in this     *)
(* view as soon as its job has reported, and not before.                   *)
(***************************************************************************)

\* Jobs only run while the launch that started them polls for them.
InlineJobs ==
    /\ orch # "drain"
    /\ \A j \in Jobs : status[j] = "running" => orch = "poll" /\ j[1] = launch /\ j[2] \in pending
    /\ \A j \in Jobs : status[j] = "crashed" => orch = "crashed" \/ j[1] < launch
    /\ \A j \in Jobs : status[j] = "none" => state[j] = "pending"

\* What the orchestrator sees is the volume and what it still has to commit.
InlineVolume ==
    /\ dirty \subseteq {Orch}
    /\ orch \in {"baseline", "crashed"} => dirty = {}
    /\ orch # "crashed" =>
         /\ volume.report \subseteq view[Orch].report
         /\ dirty = {} => view[Orch].report = volume.report

\* Its report lists what was resumed and what has reported, and nothing that is
\* still to be started.
InlineReport ==
    /\ orch \notin {"idle", "crashed"} =>
         /\ completed \subseteq view[Orch].report
         /\ \A s \in Slugs : state[Job(s)] \in {"report", "done"} => s \in view[Orch].report
    /\ orch \in {"baseline", "poll"} =>
         \A s \in pending : status[Job(s)] = "none" => s \notin view[Orch].report

\* A launch that has its verdict waits for no language.
InlineOutcomes == orch \in {"summary", "finished"} => pending = {}

InlineInv == InlineJobs /\ InlineVolume /\ InlineReport /\ InlineOutcomes

LEMMA InlineInit == Init => InlineInv
<1> SUFFICES ASSUME Init PROVE InlineInv
  OBVIOUS
<1>1. view[Orch] = Empty /\ volume = Empty
  BY DEF Init, Containers
<1>2. InlineVolume
  BY <1>1 DEF Init, InlineVolume
<1>3. InlineJobs /\ InlineReport /\ InlineOutcomes
  BY DEF Init, InlineJobs, InlineReport, InlineOutcomes
<1> QED BY <1>2, <1>3 DEF InlineInv

\* A step of a job that runs inline.
InlineMove(j) ==
    /\ status[j] = "running"
    /\ status' = [status EXCEPT ![j] = status'[j]] /\ status'[j] \in {"running", "returned"}
    /\ state' = [state EXCEPT ![j] = state'[j]]
    /\ state[j] = "failed" => state'[j] = "failed"
    /\ state'[j] = "done" => state[j] \in {"report", "done"}
    /\ UNCHANGED orchVars
    /\ \/ UNCHANGED volVars /\ (state'[j] = "report" => state[j] = "report")
       \/ Reload(Orch) /\ state'[j] # "report"
       \/ /\ state'[j] = "report"
          /\ view' = [view EXCEPT ![Orch].report = @ \cup {j[2]}]
          /\ dirty' = dirty \cup {Orch}
          /\ UNCHANGED volume

LEMMA InlineStage ==
    ASSUME TypeOK, NEW j \in Jobs, NEW target \in WorkStates \cup {"done"}, Arrive(j, target)
    PROVE  /\ status[j] = "running" /\ status' = status
           /\ state' = [state EXCEPT ![j] = target] /\ state'[j] = target
           /\ state[j] # "failed"
           /\ target = "done" => state[j] = "report"
           /\ UNCHANGED orchVars
<1>1. /\ state[j] \in States \ {"done", "failed"} /\ NextState[state[j]] = target
      /\ status[j] = "running" /\ state' = [state EXCEPT ![j] = target]
      /\ UNCHANGED <<orchVars, status>>
  BY DEF Arrive, Entering, TypeOK
<1>2. target = "done" => state[j] = "report"
  <2>1. \A x \in States \ {"done", "failed", "report"} : NextState[x] # "done"
    BY DEF States, NextState
  <2> QED BY <1>1, <2>1
<1> QED BY <1>1, <1>2 DEF TypeOK

LEMMA InlineMoves ==
    ASSUME Inline, TypeOK, NEW j \in Jobs, Advance(j)
    PROVE  InlineMove(j)
<1>h. Home(j) = Orch
  BY DEF Home
<1>1. ASSUME NEW target \in WorkStates \ {"report"}, Arrive(j, target),
             Reload(Orch) \/ UNCHANGED volVars
      PROVE  InlineMove(j)
  <2>1. target # "report" /\ target # "done"
    BY DEF WorkStates
  <2> QED BY <1>1, <2>1, InlineStage DEF InlineMove, TypeOK
<1>2. CASE DoInference(j) \/ DoLightMetrics(j) \/ DoModelMetrics(j) \/ DoJudge(j)
  BY <1>h, <1>1, <1>2 DEF DoInference, DoLightMetrics, DoModelMetrics, DoJudge, WorkStates
<1>3. CASE DoReport(j)
  <2>1. "report" \in WorkStates
    BY DEF WorkStates
  <2> QED BY <1>h, <1>3, <2>1, InlineStage DEF DoReport, InlineMove, TypeOK
<1>4. CASE ArriveDone(j)
  BY <1>4, InlineStage DEF ArriveDone, InlineMove, TypeOK
<1>5. CASE StageFails(j)
  <2>1. /\ status[j] = "running"
        /\ state' = [state EXCEPT ![j] = "failed"]
        /\ status' = [status EXCEPT ![j] = "returned"]
        /\ UNCHANGED <<orchVars, volVars>>
    BY <1>5 DEF StageFails, Entering
  <2>2. state'[j] = "failed" /\ status'[j] = "returned"
    BY <2>1 DEF TypeOK
  <2> QED BY <2>1, <2>2 DEF InlineMove
<1>6. CASE Return(j)
  BY <1>6 DEF Return, InlineMove, TypeOK
<1> QED BY <1>2, <1>3, <1>4, <1>5, <1>6 DEF Advance

\* Each step of an inline run keeps the invariant.
LEMMA InlineStart ==
    ASSUME OutcomeInv, InlineInv, Start
    PROVE  InlineInv'
<1> USE DEF InlineInv
<1>1. /\ launch' = launch + 1 /\ launch \in Nat /\ orch' \in {"poll", "baseline"}
      /\ orch \in Stopped /\ Orch \notin dirty
      /\ view' = [view EXCEPT ![Orch] = volume]
      /\ completed' = volume.report /\ pending' = Slugs \ volume.report
      /\ runs' = [s \in Slugs |-> IF s \in volume.report THEN "done" ELSE "pending"]
      /\ UNCHANGED <<state, status, volume, dirty>>
  BY DEF Start, OutcomeInv, TypeOK
<1>2. view'[Orch] = volume /\ dirty = {}
  BY <1>1 DEF OutcomeInv, TypeOK, Containers, InlineVolume
<1>3. \A j \in Jobs : status[j] # "running"
  BY <1>1 DEF InlineJobs, Stopped
<1>4. InlineJobs'
  <2>1. \A j \in Jobs : j[1] \in Nat /\ (j[1] > launch => status[j] = "none")
    BY DEF OutcomeInv, FreshJobs, Jobs
  <2> QED BY <1>1, <1>3, <2>1 DEF InlineJobs
<1>5. InlineVolume'
  BY <1>1, <1>2 DEF InlineVolume
<1>6. \A s \in Slugs : state[Job(s)'] = "pending"
  <2>1. \A s \in Slugs : <<launch + 1, s>> \in Jobs /\ status[<<launch + 1, s>>] = "none"
    BY <1>1, LaunchAssumption DEF Start, OutcomeInv, FreshJobs, Jobs
  <2> QED BY <1>1, <2>1 DEF InlineJobs, Job
<1>7. InlineReport'
  BY <1>1, <1>2, <1>6 DEF InlineReport
<1>8. InlineOutcomes'
  BY <1>1 DEF InlineOutcomes
<1> QED BY <1>4, <1>5, <1>7, <1>8

LEMMA InlineOrchestrator ==
    ASSUME Inline, OutcomeInv, InlineInv,
           Baseline \/ BaselineRaises \/ Deadline \/ Close \/ Summarize
    PROVE  InlineInv'
<1> USE DEF InlineInv
<1>1. UNCHANGED <<launch, completed, runs, pending, state, status, dirty>>
  BY DEF Baseline, BaselineRaises, Deadline, Close, Summarize, volVars
<1>2. \A s \in Slugs : Job(s)' = Job(s)
  BY <1>1 DEF Job
<1>3. CASE Baseline
  <2>1. PICK written \in {volume.gemma, TRUE} :
           /\ volume' = [volume EXCEPT !.gemma = written]
           /\ view' = [view EXCEPT ![Orch] = volume']
    BY <1>3 DEF Baseline
  <2>2. volume'.report = volume.report /\ view'[Orch].report = volume.report
    BY <2>1 DEF OutcomeInv, TypeOK, Volumes, Containers
  <2>3. orch = "baseline" /\ orch' = "poll"
    BY <1>3 DEF Baseline
  <2>0. pending \subseteq Slugs
    BY DEF OutcomeInv, TypeOK
  <2>4. InlineJobs' /\ InlineOutcomes'
    BY <1>1, <1>2, <2>3 DEF InlineJobs, InlineOutcomes
  <2>5. InlineVolume'
    BY <1>1, <2>2, <2>3 DEF InlineVolume
  <2>6. InlineReport'
    BY <1>1, <1>2, <2>0, <2>2, <2>3 DEF InlineReport, InlineVolume
  <2> QED BY <2>4, <2>5, <2>6
<1>4. CASE BaselineRaises
  <2>1. orch = "baseline" /\ orch' = "crashed"
    BY <1>4 DEF BaselineRaises
  <2> QED BY <1>1, <1>2, <2>1 DEF InlineJobs, InlineVolume, InlineReport, InlineOutcomes
<1>5. CASE Deadline
  BY <1>5 DEF Deadline
<1>6. CASE Close \/ Summarize
  BY <1>1, <1>2, <1>6 DEF Close, Summarize, volVars, InlineJobs, InlineVolume, InlineReport,
                          InlineOutcomes
<1> QED BY <1>3, <1>4, <1>5, <1>6

LEMMA InlineDispatch ==
    ASSUME Inline, OutcomeInv, InlineInv, NEW s \in Slugs, Dispatch(s)
    PROVE  InlineInv'
<1>1. /\ UNCHANGED <<orchVars, state, volume, view, dirty>> /\ orch = "poll" /\ s \in pending
      /\ status[Job(s)] = "none" /\ status' = [status EXCEPT ![Job(s)] = "running"]
  BY DEF Dispatch
<1>2. \A t \in Slugs : Job(t)' = Job(t) /\ Job(t) \in Jobs
  BY <1>1 DEF Job, orchVars, OutcomeInv, Phases, LaunchCounted, Jobs
<1>3. Job(s)[1] = launch /\ Job(s)[2] = s
  BY DEF Job
<1>4. \A j \in Jobs : status'[j] = IF j = Job(s) THEN "running" ELSE status[j]
  BY <1>1, <1>2 DEF OutcomeInv, TypeOK
<1>5. InlineJobs'
  BY <1>1, <1>3, <1>4 DEF InlineInv, InlineJobs, orchVars
<1>6. InlineVolume' /\ InlineOutcomes'
  BY <1>1, <1>2 DEF InlineInv, InlineVolume, InlineOutcomes, orchVars
<1>7. InlineReport'
  BY <1>1, <1>2, <1>4 DEF InlineInv, InlineReport, orchVars, OutcomeInv, TypeOK
<1> QED BY <1>5, <1>6, <1>7 DEF InlineInv

LEMMA InlineCollect ==
    ASSUME Inline, OutcomeInv, InlineInv, NEW s \in Slugs,
           CollectResult(s) \/ CollectRaised(s) \/ GiveUp(s)
    PROVE  InlineInv'
<1> USE DEF InlineInv
<1>1. Job(s) \in Jobs /\ Job(s)[1] = launch /\ launch \in Nat /\ orch = "poll"
  BY DEF CollectResult, CollectRaised, GiveUp, OutcomeInv, Phases, LaunchCounted, Job, Jobs,
         InlineJobs
<1>2. CollectResult(s)
  BY <1>1 DEF CollectRaised, GiveUp, InlineJobs
<1>3. /\ UNCHANGED <<orch, launch, completed, state, status, volume, view, dirty>>
      /\ pending' = pending \ {s} /\ status[Job(s)] = "returned"
      /\ runs' = [runs EXCEPT ![s] = state[Job(s)]]
  BY <1>2 DEF CollectResult, Record, volVars
<1>4. \A t \in Slugs : Job(t)' = Job(t)
  BY <1>3 DEF Job
<1>5. InlineJobs'
  <2>1. ASSUME NEW j \in Jobs, status[j] = "running" PROVE j[2] \in pending \ {s}
    <3>1. j[1] = launch /\ j[2] \in pending /\ j = <<j[1], j[2]>>
      BY <2>1 DEF InlineJobs, Jobs
    <3> QED BY <1>3, <2>1, <3>1 DEF Job
  <2> QED BY <1>3, <2>1 DEF InlineJobs
<1>6. InlineVolume' /\ InlineReport'
  <2>1. pending' \subseteq pending /\ pending \subseteq Slugs
    BY <1>3 DEF OutcomeInv, TypeOK
  <2> QED BY <1>1, <1>3, <1>4, <2>1 DEF InlineVolume, InlineReport
<1>7. InlineOutcomes'
  BY <1>1, <1>3, <1>4 DEF InlineOutcomes, OutcomeInv, TypeOK
<1> QED BY <1>5, <1>6, <1>7

LEMMA InlineCrash ==
    ASSUME Inline, OutcomeInv, InlineInv, OrchCrash
    PROVE  InlineInv'
<1>1. /\ orch' = "crashed" /\ orch # "idle" /\ dirty' = dirty \ {Orch}
      /\ UNCHANGED <<launch, completed, runs, pending, state, volume>>
      /\ \A j \in Jobs : status'[j] = IF status[j] = "running" THEN "crashed" ELSE status[j]
  BY DEF OrchCrash, Stopped
<1> QED BY <1>1 DEF InlineInv, InlineJobs, InlineVolume, InlineReport, InlineOutcomes, Job

LEMMA InlineAdvance ==
    ASSUME Inline, OutcomeInv, InlineInv, NEW j \in Jobs, Advance(j)
    PROVE  InlineInv'
<1> USE DEF InlineInv
<1>1. InlineMove(j) /\ TypeOK
  BY InlineMoves DEF OutcomeInv
<1>2. /\ status[j] = "running" /\ orch = "poll" /\ j[1] = launch /\ j[2] \in pending
      /\ j[2] \in Slugs /\ j = Job(j[2]) /\ UNCHANGED orchVars
  BY <1>1 DEF InlineMove, InlineJobs, Jobs, Job
<1>3. \A i \in Jobs : i # j => status'[i] = status[i] /\ state'[i] = state[i]
  BY <1>1 DEF InlineMove, TypeOK
<1>4. \A s \in Slugs : Job(s)' = Job(s) /\ Job(s) \in Jobs /\ (Job(s) = j <=> s = j[2])
  BY <1>2 DEF Job, orchVars, OutcomeInv, Phases, LaunchCounted, Jobs
<1>5. InlineJobs'
  BY <1>1, <1>2, <1>3 DEF InlineJobs, InlineMove, orchVars
<1>6. InlineOutcomes'
  BY <1>1, <1>2, <1>3, <1>4 DEF InlineOutcomes, InlineMove, orchVars
<1>7. /\ InlineVolume'
      /\ view[Orch].report \subseteq view'[Orch].report
      /\ view'[Orch].report \subseteq view[Orch].report \cup {j[2]}
      /\ state'[j] \in {"report", "done"} => j[2] \in view'[Orch].report
  <2>1. Orch \in Containers /\ view[Orch] \in Volumes /\ volume \in Volumes
    BY <1>1 DEF TypeOK, Containers
  <2>2. state[j] \in {"report", "done"} => j[2] \in view[Orch].report
    BY <1>2 DEF InlineReport
  <2>3. CASE UNCHANGED volVars /\ (state'[j] = "report" => state[j] = "report")
    BY <1>1, <1>2, <2>2, <2>3 DEF InlineVolume, volVars, orchVars, InlineMove
  <2>4. CASE Reload(Orch) /\ state'[j] # "report"
    <3>1. volume' = view'[Orch] /\ view'[Orch] = Committed(Orch) /\ dirty' = dirty \ {Orch}
      BY <1>1, <2>1, <2>4 DEF Reload, TypeOK
    <3>2. Committed(Orch).report = view[Orch].report
      BY <1>2, <2>1 DEF Committed, InlineVolume, Volumes
    <3> QED BY <1>1, <1>2, <2>2, <2>4, <3>1, <3>2 DEF InlineVolume, InlineMove, orchVars
  <2>5. CASE /\ state'[j] = "report"
             /\ view' = [view EXCEPT ![Orch].report = @ \cup {j[2]}]
             /\ dirty' = dirty \cup {Orch}
             /\ UNCHANGED volume
    <3>1. view'[Orch].report = view[Orch].report \cup {j[2]}
      BY <1>1, <2>1, <2>5 DEF TypeOK, Volumes
    <3> QED BY <1>2, <2>5, <3>1 DEF InlineVolume, orchVars
  <2> QED BY <1>1, <2>3, <2>4, <2>5 DEF InlineMove
<1>8. InlineReport'
  <2>1. UNCHANGED <<orch, launch, completed, pending>> /\ pending \subseteq Slugs
    BY <1>1, <1>2 DEF orchVars, TypeOK
  <2>2. completed \subseteq view'[Orch].report
    BY <1>2, <1>7 DEF InlineReport
  <2>3. ASSUME NEW s \in Slugs, state'[Job(s)] \in {"report", "done"}
        PROVE  s \in view'[Orch].report
    BY <1>2, <1>3, <1>4, <1>7, <2>3 DEF InlineReport
  <2>4. ASSUME NEW s \in pending, status'[Job(s)] = "none"
        PROVE  s \notin view'[Orch].report
    BY <1>1, <1>2, <1>3, <1>4, <1>7, <2>1, <2>4 DEF InlineReport, InlineMove
  <2> QED BY <1>2, <1>4, <2>1, <2>2, <2>3, <2>4 DEF InlineReport
<1> QED BY <1>5, <1>6, <1>7, <1>8

LEMMA InlineCommit ==
    ASSUME OutcomeInv, InlineInv, NEW c \in Containers, Commit(c)
    PROVE  InlineInv' /\ volume.report \subseteq volume'.report
<1>1. /\ c = Orch /\ orch # "crashed" /\ dirty' = {} /\ volume'.report = view[Orch].report
      /\ UNCHANGED <<orchVars, state, status, view>>
  BY DEF Commit, Committed, InlineInv, InlineVolume, OutcomeInv, TypeOK, Volumes
<1> QED BY <1>1 DEF InlineInv, InlineJobs, InlineVolume, InlineReport, InlineOutcomes, orchVars, Job

LEMMA InlineStep == Inline /\ OutcomeInv /\ InlineInv /\ [Next]_vars => InlineInv'
<1> SUFFICES ASSUME Inline, OutcomeInv, InlineInv, [Next]_vars PROVE InlineInv'
  OBVIOUS
<1>1. CASE UNCHANGED vars
  BY <1>1 DEF vars, orchVars, volVars, InlineInv, InlineJobs, InlineVolume, InlineReport,
              InlineOutcomes, Job
<1>2. CASE Next
  BY <1>2, InlineStart, InlineOrchestrator, InlineDispatch, InlineCollect, InlineCrash,
     InlineAdvance, InlineCommit DEF Next, Orchestrate, JobCrash
<1> QED BY <1>1, <1>2

LEMMA InlineInvariant ==
    ASSUME Inline
    PROVE  Spec => [](OutcomeInv /\ InlineInv)
<1>1. OutcomeInv /\ InlineInv /\ [Next]_vars => (OutcomeInv /\ InlineInv)'
  BY OutcomeStep, InlineStep
<1> QED BY OutcomeInit, InlineInit, <1>1, PTL DEF Spec

\* A launch that finished has graded every language that did not fail: one that
\* returned has reported, into the view that the summary is made from.
LEMMA SummaryComplete ==
    ASSUME Inline, OutcomeInv, InlineInv, Summarize, StopAt \in {"report", "done"}
    PROVE  Slugs \ Failed \subseteq graded'
<1> SUFFICES ASSUME NEW s \in Slugs \ Failed PROVE s \in view[Orch].report
  BY DEF Summarize
<1>1. orch = "summary" /\ pending = {}
  BY DEF Summarize, InlineInv, InlineOutcomes
<1>2. s \in completed \/ state[Job(s)] \in {"report", "done"}
  BY <1>1 DEF OutcomeInv, OutcomeBacked, Failed
<1> QED BY <1>1, <1>2 DEF InlineInv, InlineReport

LEMMA TruthStep ==
    Inline /\ OutcomeInv /\ InlineInv /\ SourceOfTruth /\ [Next]_vars => SourceOfTruth'
<1> SUFFICES ASSUME Inline, OutcomeInv, InlineInv, SourceOfTruth, [Next]_vars,
                    orch' = "finished", StopAt \in {"report", "done"}
             PROVE  Slugs \ Failed' \subseteq graded'
  BY DEF SourceOfTruth
<1>1. CASE Summarize
  BY <1>1, SummaryComplete DEF Summarize, Failed
<1>2. CASE UNCHANGED <<orch, runs, graded>>
  BY <1>2 DEF SourceOfTruth, Failed
<1>3. CASE Orchestrate /\ ~Summarize
  BY <1>3 DEF Orchestrate, Start, Baseline, BaselineRaises, Deadline, Close, Dispatch, orchVars,
     SourceOfTruth, Failed, CollectResult, CollectRaised, GiveUp, Record
<1>4. CASE OrchCrash
  BY <1>4 DEF OrchCrash
<1>5. ASSUME NEW j \in Jobs, Advance(j) \/ JobCrash(j) PROVE UNCHANGED orchVars
  BY <1>5, JobStep DEF OutcomeInv
<1>6. ASSUME NEW c \in Containers, Commit(c) PROVE UNCHANGED orchVars
  BY <1>6 DEF Commit
<1> QED BY <1>1, <1>2, <1>3, <1>4, <1>5, <1>6 DEF Next, vars, orchVars

\* "final_report.json is the single source of truth": inline, a finished launch
\* that was to run up to the report graded every language that did not fail.
THEOREM SummaryIsComplete ==
    ASSUME Inline
    PROVE  Spec => []SourceOfTruth
<1>1. Init => SourceOfTruth
  BY DEF Init, SourceOfTruth
<1>2. OutcomeInv /\ InlineInv /\ SourceOfTruth /\ [Next]_vars => SourceOfTruth'
  BY TruthStep
<1> QED BY InlineInvariant, <1>1, <1>2, PTL DEF Spec

\* "Merge with existing report if present": inline, whatever crashes and is
\* launched again, the committed report never loses a language.
THEOREM InlineReportGrows ==
    ASSUME Inline
    PROVE  Spec => ReportGrows
<1>1. ASSUME OutcomeInv, InlineInv, [Next]_vars PROVE volume.report \subseteq volume'.report
  <2>1. CASE Start \/ Baseline \/ BaselineRaises \/ Deadline \/ Close \/ Summarize
    BY <1>1, <2>1 DEF Start, Baseline, BaselineRaises, Deadline, Close, Summarize, volVars,
                OutcomeInv, TypeOK, Volumes
  <2>2. ASSUME NEW s \in Slugs, Dispatch(s) \/ CollectResult(s) \/ CollectRaised(s) \/ GiveUp(s)
        PROVE  volume' = volume
    BY <2>2 DEF Dispatch, CollectResult, CollectRaised, GiveUp, Record, volVars
  <2>3. CASE OrchCrash
    BY <2>3 DEF OrchCrash
  <2>4. ASSUME NEW j \in Jobs, Advance(j) PROVE volume.report \subseteq volume'.report
    <3>1. InlineMove(j) /\ orch = "poll" /\ view[Orch] \in Volumes /\ volume \in Volumes
      BY <1>1, <2>4, InlineMoves DEF OutcomeInv, TypeOK, InlineInv, InlineJobs, InlineMove, Containers
    <3>2. CASE Reload(Orch)
      BY <1>1, <3>1, <3>2 DEF Reload, Committed, Volumes, InlineInv, InlineVolume
    <3> QED BY <3>1, <3>2 DEF InlineMove, volVars
  <2>5. ASSUME NEW j \in Jobs PROVE ~JobCrash(j)
    BY DEF JobCrash
  <2>6. CASE UNCHANGED vars
    BY <2>6 DEF vars, volVars
  <2> QED BY <1>1, <2>1, <2>2, <2>3, <2>4, <2>5, <2>6, InlineCommit DEF Next, Orchestrate
<1>2. OutcomeInv /\ InlineInv /\ [Next]_vars => [volume.report \subseteq volume'.report]_vars
  BY <1>1
<1> QED BY InlineInvariant, <1>2, PTL DEF Spec, ReportGrows

\* Inline, no launch starts a language that the committed report lists.
THEOREM NothingDoneTwice ==
    ASSUME Inline
    PROVE  Spec => NoRework
<1>1. ASSUME OutcomeInv, InlineInv, [Next]_vars, NEW j \in Jobs,
             status[j] = "none", status'[j] = "running"
      PROVE  j[2] \notin volume.report
  <2>1. ASSUME NEW s \in Slugs, Dispatch(s), j = Job(s) PROVE j[2] \notin volume.report
    <3>1. orch = "poll" /\ s \in pending /\ j[2] = s
      BY <2>1 DEF Dispatch, Job
    <3> QED BY <1>1, <2>1, <3>1 DEF InlineInv, InlineReport, InlineVolume
  <2>2. ASSUME NEW s \in Slugs, Dispatch(s), j # Job(s) PROVE status'[j] = status[j]
    BY <2>2 DEF Dispatch, OutcomeInv, TypeOK
  <2>3. CASE OrchCrash
    BY <1>1, <2>3 DEF OrchCrash
  <2>4. ASSUME NEW i \in Jobs, Advance(i) PROVE status'[j] = status[j]
    BY <1>1, <2>4, InlineMoves DEF InlineMove, OutcomeInv, TypeOK
  <2>5. CASE \/ Start \/ Baseline \/ BaselineRaises \/ Deadline \/ Close \/ Summarize
             \/ \E s \in Slugs : CollectResult(s) \/ CollectRaised(s) \/ GiveUp(s)
             \/ \E c \in Containers : Commit(c)
    BY <1>1, <2>5 DEF Start, Baseline, BaselineRaises, Deadline, Close, Summarize,
                      CollectResult, CollectRaised, GiveUp, Record, Commit
  <2>6. ASSUME NEW i \in Jobs PROVE ~JobCrash(i)
    BY DEF JobCrash
  <2>7. CASE UNCHANGED vars
    BY <1>1, <2>7 DEF vars
  <2> QED BY <1>1, <2>1, <2>2, <2>3, <2>4, <2>5, <2>6, <2>7 DEF Next, Orchestrate
<1>2. OutcomeInv /\ InlineInv /\ [Next]_vars =>
        [\A j \in Jobs : status[j] = "none" /\ status'[j] = "running"
                           => j[2] \notin volume.report]_vars
  BY <1>1
<1> QED BY InlineInvariant, <1>2, PTL DEF Spec, NoRework

=============================================================================
