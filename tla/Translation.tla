---------------------------- MODULE Translation ----------------------------
(***************************************************************************)
(* The dataset translation job: translate_slug adds user_prompt_localized  *)
(* to the samples of one slug's instruction file, in a container that may  *)
(* die or time out, under translate_all_parallel or on its own; and the    *)
(* loader that evaluations read the file with.                             *)
(*                                                                         *)
(* The slugs of a launch share nothing (a file, a container and a handle   *)
(* each), so one slug is modelled.  The job keeps the whole list in memory *)
(* and rewrites the file in place, from the first line to the last.        *)
(***************************************************************************)
EXTENDS Naturals, FiniteSets

CONSTANTS
    N,           \* samples in the file
    Every,       \* a checkpoint at every such sample (200)
    MaxRetries,  \* requests per sample (3)
    Limits,      \* limits that evaluations load with; None loads all
    None,
    Launches,    \* bound: launches of the job for this slug
    Overlap      \* whether it may be launched while an earlier job runs

ASSUME SizeAssumption ==
    /\ N \in Nat /\ Every \in Nat \ {0} /\ MaxRetries \in Nat \ {0}
    /\ Launches \in Nat /\ Overlap \in BOOLEAN
    /\ Limits \subseteq Nat \cup {None} /\ None \notin Nat

Samples == 1..N
Jobs    == 1..Launches

(***************************************************************************)
(* A sample's user_prompt_localized: absent; the English prompt; a whole   *)
(* answer; one cut off at the token limit.  A whole answer may look cut to *)
(* _is_truncated (terse), a cut one may not (long), and either may be      *)
(* blank once stripped, which nothing checks.  The English prompt never    *)
(* looks cut, being as long as itself.  "lost" stands for a line that the  *)
(* file no longer has, "torn" for one of which it has only the beginning.  *)
(***************************************************************************)
Whole   == {"full", "terse", "blank"}
Cut     == {"cut", "long", "blank"}
Results == Whole \cup Cut \cup {"english"}
Listed  == Results \cup {"missing", "lost"}
Fields  == Listed \cup {"torn"}

NoList == [i \in Samples |-> "missing"]

VARIABLES
    disk,       \* disk[i]: sample i in the committed file
    phase,      \* phase[j]: what job j does
    mem,        \* mem[j][i]: sample i in job j's list
    at,         \* at[j]: the sample the loop is at
    tries,      \* tries[j]: requests made for that sample
    written,    \* written[j]: lines of its present write that are committed
    handle,     \* handle[j]: what the orchestrator knows of job j
    evaluated   \* what the latest evaluation loaded

jobVars == <<phase, mem, at, tries, written>>
vars == <<disk, jobVars, handle, evaluated>>

Init ==
    /\ disk = NoList
    /\ phase = [j \in Jobs |-> "new"]
    /\ mem = [j \in Jobs |-> NoList]
    /\ at = [j \in Jobs |-> 1]
    /\ tries = [j \in Jobs |-> 0]
    /\ written = [j \in Jobs |-> 0]
    /\ handle = [j \in Jobs |-> "none"]
    /\ evaluated = [limit |-> None, ids |-> {}, raised |-> "none"]

Running(j) == phase[j] \in {"loop", "checkpoint", "final"}

-----------------------------------------------------------------------------
(* translate_slug                                                          *)

\* Mutant: every sample is translated again.
OpenAlways(field) == field # "lost"

\* Missing or blank, or _is_truncated.
Open(field) == field \in {"missing", "blank", "terse", "cut"}

Torn(file) == {i \in Samples : file[i] = "torn"}

\* A container starts, with or without an orchestrator that waits for it (or
\* starts over for one that was preempted), and reads the file; json.loads
\* raises over a torn line, whoever left it.
Launch(j) ==
    /\ phase[j] = "new"
    /\ \A k \in Jobs : k < j => phase[k] # "new"
    /\ Overlap \/ \A k \in Jobs : ~Running(k)
    /\ IF Torn(disk) = {}
       THEN /\ phase' = [phase EXCEPT ![j] = "loop"]
            /\ mem' = [mem EXCEPT ![j] = disk]
       ELSE phase' = [phase EXCEPT ![j] = "dead"] /\ UNCHANGED mem
    /\ \E h \in {"none", "waiting"} : handle' = [handle EXCEPT ![j] = h]
    /\ UNCHANGED <<disk, at, tries, written, evaluated>>

AtSample(j) == phase[j] = "loop" /\ at[j] <= N

\* "already translated and looks complete - skip": past the checkpoint, too.
Skip(j) ==
    /\ AtSample(j)
    /\ ~Open(mem[j][at[j]])
    /\ at' = [at EXCEPT ![j] = @ + 1]
    /\ UNCHANGED <<disk, phase, mem, tries, written, handle, evaluated>>

\* The sample's field is set; the checkpoint is due at every Every-th sample.
Store(j, result) ==
    /\ mem' = [mem EXCEPT ![j][at[j]] = result]
    /\ phase' = [phase EXCEPT ![j] = IF at[j] % Every = 0 THEN "checkpoint" ELSE "loop"]
    /\ at' = [at EXCEPT ![j] = @ + 1]
    /\ tries' = [tries EXCEPT ![j] = 0]

Retry(j) ==
    /\ tries' = [tries EXCEPT ![j] = @ + 1]
    /\ UNCHANGED <<phase, mem, at>>

\* _translate returns an answer that was not cut, stripped, whatever is left.
Answered(j) ==
    /\ AtSample(j) /\ Open(mem[j][at[j]])
    /\ \E result \in Whole : Store(j, result)
    /\ UNCHANGED <<disk, written, handle, evaluated>>

\* MAX_TOKENS: try again; after the last try the cut answer is returned.
AnsweredCut(j) ==
    /\ AtSample(j) /\ Open(mem[j][at[j]])
    /\ IF tries[j] + 1 < MaxRetries
       THEN Retry(j)
       ELSE \E result \in Cut : Store(j, result)
    /\ UNCHANGED <<disk, written, handle, evaluated>>

\* Mutant: a request that fails is not counted.
RequestFailsUncounted(j) ==
    /\ AtSample(j) /\ Open(mem[j][at[j]])
    /\ tries' = [tries EXCEPT ![j] = 0]
    /\ UNCHANGED <<disk, phase, mem, at, written, handle, evaluated>>

\* Mutant: after the last failure the sample is left as it is.
RequestFailsUnset(j) ==
    /\ AtSample(j) /\ Open(mem[j][at[j]])
    /\ IF tries[j] + 1 < MaxRetries THEN Retry(j) ELSE Store(j, mem[j][at[j]])
    /\ UNCHANGED <<disk, written, handle, evaluated>>

\* The request raises: try again; the last time, the English text is returned,
\* whatever an earlier try had answered.
RequestFails(j) ==
    /\ AtSample(j) /\ Open(mem[j][at[j]])
    /\ IF tries[j] + 1 < MaxRetries THEN Retry(j) ELSE Store(j, "english")
    /\ UNCHANGED <<disk, written, handle, evaluated>>

\* After the loop, the final write.
LoopEnds(j) ==
    /\ phase[j] = "loop" /\ at[j] = N + 1
    /\ phase' = [phase EXCEPT ![j] = "final"]
    /\ UNCHANGED <<disk, mem, at, tries, written, handle, evaluated>>

\* The job's list goes with its container.
Gone(j) ==
    /\ mem' = [mem EXCEPT ![j] = NoList]
    /\ at' = [at EXCEPT ![j] = 1]
    /\ tries' = [tries EXCEPT ![j] = 0]

\* The file is rewritten and the volume committed.
Save(j) ==
    /\ phase[j] \in {"checkpoint", "final"}
    /\ phase' = [phase EXCEPT ![j] = IF @ = "checkpoint" THEN "loop" ELSE "ended"]
    /\ disk' = mem[j]
    /\ IF phase[j] = "final" THEN Gone(j) ELSE UNCHANGED <<mem, at, tries>>
    /\ written' = [written EXCEPT ![j] = 0]
    /\ UNCHANGED <<handle, evaluated>>

\* A background commit takes the file while it is being written: open("w") has
\* emptied it, the lines after the n-th are not there yet, and of the next one
\* there may be a part.
TornCommit(j) ==
    /\ phase[j] \in {"checkpoint", "final"}
    /\ \E n \in written[j]..N, rest \in {"lost", "torn"} :
         /\ disk' = [i \in Samples |->
                       IF i <= n THEN mem[j][i]
                       ELSE IF i = n + 1 /\ mem[j][i] # "lost" THEN rest ELSE "lost"]
         /\ written' = [written EXCEPT ![j] = n]
    /\ UNCHANGED <<phase, mem, at, tries, handle, evaluated>>

\* The container dies or exceeds its timeout.
Die(j) ==
    /\ Running(j)
    /\ phase' = [phase EXCEPT ![j] = "dead"]
    /\ Gone(j)
    /\ written' = [written EXCEPT ![j] = 0]
    /\ UNCHANGED <<disk, handle, evaluated>>

-----------------------------------------------------------------------------
(* translate_all_parallel, and evaluations                                 *)

\* handle.get() returns.
CollectOk(j) ==
    /\ handle[j] = "waiting" /\ phase[j] = "ended"
    /\ handle' = [handle EXCEPT ![j] = "ok"]
    /\ UNCHANGED <<disk, jobVars, evaluated>>

\* handle.get() raises: the job died, or 7200 s have passed and it may still run.
CollectFailed(j) ==
    /\ handle[j] = "waiting" /\ phase[j] # "ended"
    /\ handle' = [handle EXCEPT ![j] = "failed"]
    /\ UNCHANGED <<disk, jobVars, evaluated>>

\* The lines of a file, the last of which may be torn.
Lines(file) == {i \in Samples : file[i] # "lost"}
Before(file, i) == Cardinality({k \in Lines(file) : k < i})

\* Mutant: the limit is compared before the sample is counted.
ReachedOneMore(file, limit) ==
    {i \in Lines(file) : limit = None \/ Before(file, i) <= limit}

\* iter_samples: the limit is looked at after a sample has been yielded.
Reached(file, limit) ==
    {i \in Lines(file) : limit = None \/ Before(file, i) = 0 \/ Before(file, i) < limit}

\* load_samples, which raises over a torn line and returns nothing; then
\* build_instruction_prompt for each sample, which raises without the field and
\* over a blank one.
Evaluate ==
    /\ \E limit \in Limits :
         LET reached == Reached(disk, limit) IN
         evaluated' =
           IF Torn(disk) \cap reached # {}
           THEN [limit |-> limit, ids |-> {}, raised |-> "line"]
           ELSE [limit |-> limit, ids |-> reached,
                 raised |-> IF \E i \in reached : disk[i] \in {"missing", "blank"}
                            THEN "prompt" ELSE "none"]
    /\ UNCHANGED <<disk, jobVars, handle>>

JobStep(j) ==
    Skip(j) \/ Answered(j) \/ AnsweredCut(j) \/ RequestFails(j) \/ LoopEnds(j) \/ Save(j)

Next ==
    \/ \E j \in Jobs : \/ Launch(j) \/ JobStep(j) \/ TornCommit(j) \/ Die(j)
                       \/ CollectOk(j) \/ CollectFailed(j)
    \/ Evaluate

Spec == Init /\ [][Next]_vars

\* A running container goes on with its loop; nothing is promised of launches,
\* background commits, deaths or evaluations.
FairSpec == Spec /\ \A j \in Jobs : WF_vars(JobStep(j))

-----------------------------------------------------------------------------
(* Properties                                                              *)

\* Every variable has its type, and the tries of a sample stay within bounds.
TypeOK ==
    /\ disk \in [Samples -> Fields]
    /\ phase \in [Jobs -> {"new", "loop", "checkpoint", "final", "ended", "dead"}]
    /\ mem \in [Jobs -> [Samples -> Listed]]
    /\ at \in [Jobs -> 1..(N + 1)]
    /\ tries \in [Jobs -> 0..(MaxRetries - 1)]
    /\ written \in [Jobs -> 0..N]
    /\ handle \in [Jobs -> {"none", "waiting", "ok", "failed"}]
    /\ evaluated \in [limit : Limits \cup {None}, ids : SUBSET Samples,
                      raised : {"none", "line", "prompt"}]

\* What an earlier job leaves to later ones as done.
LooksComplete == {"full", "english", "long"}

\* "Idempotent": with one job at a time, whatever dies and whenever it is run
\* again, a field on the volume that looks complete is never changed; a commit
\* in the middle of a write is the one way to lose it.
Settled ==
    [][~Overlap => \A i \in Samples :
         disk[i] \in LooksComplete => disk'[i] \in {disk[i], "lost", "torn"}]_vars

\* After a slug has been reported as translated (with one job at a time), an
\* evaluation raises over a blank answer of the service, never over a sample
\* that was not translated; and over a line only when a later job is in the
\* middle of its write, or died there.
OkMeansEvaluable ==
    [][\A j \in Jobs :
         ~Overlap /\ handle[j] = "ok" /\ evaluated' # evaluated =>
           /\ evaluated'.raised = "prompt" => \E i \in evaluated'.ids : disk[i] = "blank"
           /\ evaluated'.raised = "line" =>
                \E k \in Jobs : k > j /\ phase[k] \in {"checkpoint", "final", "dead"}]_vars

\* An evaluation goes over exactly the first samples that the file has, in the
\* number it asked for (at least one: a limit of 0 still yields a sample) or all
\* of them; it raises over the line a write left torn exactly when the whole
\* lines are fewer than it asked for.
EvaluatesPrefix ==
    [][LET e     == evaluated'
           whole == Lines(disk) \ Torn(disk)
           asked == IF e.limit = 0 THEN 1 ELSE e.limit
           more  == e.limit = None \/ asked > Cardinality(whole)
       IN evaluated' # evaluated =>
            /\ e.raised = "line" <=> Torn(disk) # {} /\ more
            /\ e.raised # "line" =>
                 /\ e.ids \subseteq whole
                 /\ \A i \in e.ids, k \in whole : k < i => k \in e.ids
                 /\ Cardinality(e.ids) = IF more THEN Cardinality(whole) ELSE asked]_vars

\* Every job comes to an end, whatever the translation service answers: again
\* and again none is running.
JobEnds == []<>(\A j \in Jobs : ~Running(j))

=============================================================================
