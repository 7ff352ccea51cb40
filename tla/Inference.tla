----------------------------- MODULE Inference -----------------------------
(***************************************************************************)
(* VLLMWorker.generate and its two callers: _do_inference (one call, for a *)
(* language) and ensure_gemma4_baseline (one call per slug of the run, all *)
(* into one file).                                                         *)
(*                                                                         *)
(* The outputs file is a bag of sample ids.  Every container has its copy; *)
(* generate() never reloads, so a warm container answers a later call from *)
(* the copy it ended the earlier one with.                                 *)
(***************************************************************************)
EXTENDS Naturals, Sequences, FiniteSets

CONSTANTS
    Parts,        \* the sample ids of each slug, in the order of all_slugs
    BatchSize,    \* VLLMWorker.BATCH_SIZE
    Containers,   \* containers of this (model_id, run_id, task)
    Callers,      \* which callers to consider: subset of {"regional", "baseline"}
    Blanks,       \* the sets of samples a dataset may have without their
                  \* user_prompt_localized ({{}} for the translation task)
    MaxAttempts   \* bound: runs of the caller for one run id

Attempts == 1..MaxAttempts
Samples  == UNION {Parts[p] : p \in DOMAIN Parts}

ASSUME PartsAssumption == Parts \in Seq(SUBSET Nat) /\ Len(Parts) > 0
\* state_machine.py:292-293, "language-specific sample IDs".
ASSUME IdsAssumption ==
    \A p, q \in DOMAIN Parts : p # q => Parts[p] \cap Parts[q] = {}
ASSUME BlanksAssumption == Blanks \subseteq SUBSET Samples
ASSUME CallersAssumption == Callers \subseteq {"regional", "baseline"}
ASSUME BoundAssumption == BatchSize \in Nat \ {0} /\ MaxAttempts \in Nat

VARIABLES
    caller,      \* "regional": _do_inference of the first slug;
                 \* "baseline": ensure_gemma4_baseline for all of them
    blank,       \* blank[a]: samples without user_prompt_localized, as attempt
                 \* a loads them (a translation job may run between attempts)
    file,        \* committed outputs file: how many records each sample has
    up,          \* containers that are running
    view,        \* view[c]: container c's copy of the file
    dirty,       \* containers whose copy has records not committed
    serves,      \* serves[c]: the attempt whose call c executes, 0 if none
    asked,       \* asked[c]: pending_samples, as its call begins
    todo,        \* todo[c]: the part of them not yet sent to the model
    made,        \* made[c]: samples of the batch with a record to append
    phase,       \* phase[a]: how far the caller has got
    part,        \* part[a]: the call it is at
    seen,        \* seen[a]: the caller's container sees a non-empty file
    dropped,     \* dropped[a]: samples whose batch failed in a's calls
    overlapped   \* history: an attempt began while an earlier call still ran

callVars == <<serves, asked, todo, made>>
fileVars == <<file, view, dirty>>
vars == <<caller, blank, fileVars, up, callVars, phase, part, seen, dropped, overlapped>>

\* How many calls of generate() the caller makes, and for which samples.
Calls  == IF caller = "regional" THEN 1 ELSE Len(Parts)
Wanted == UNION {Parts[p] : p \in 1..Calls}

NoRecords == [s \in Samples |-> 0]
Ids(f)    == {s \in Samples : f[s] > 0}

Init ==
    /\ caller \in Callers
    /\ blank \in [Attempts -> Blanks]
    /\ file = NoRecords
    /\ up = {}
    /\ view = [c \in Containers |-> NoRecords]
    /\ dirty = {}
    /\ serves = [c \in Containers |-> 0]
    /\ asked = [c \in Containers |-> {}]
    /\ todo = [c \in Containers |-> {}]
    /\ made = [c \in Containers |-> {}]
    /\ phase = [a \in Attempts |-> "none"]
    /\ part = [a \in Attempts |-> 1]
    /\ seen = [a \in Attempts |-> FALSE]
    /\ dropped = [a \in Attempts |-> {}]
    /\ overlapped = FALSE

Busy(c) == serves[c] # 0

-----------------------------------------------------------------------------
(* The caller                                                              *)

\* A launch reaches the stage.  Launches of a run id begin in order, each
\* after the previous one has ended; its calls may still be running.
Begin(a) ==
    /\ phase[a] = "none"
    /\ \A b \in Attempts : b < a => phase[b] \in {"ok", "failed"}
    /\ phase' = [phase EXCEPT ![a] = "calling"]
    /\ seen' = [seen EXCEPT ![a] = Ids(file) # {}]
    /\ overlapped' = (overlapped \/ \E c \in Containers : Busy(c))
    /\ UNCHANGED <<caller, blank, fileVars, up, callVars, part, dropped>>

\* _do_inference: "outputs already exist, skipping".
Skip(a) ==
    /\ caller = "regional"
    /\ phase[a] = "calling"
    /\ seen[a]
    /\ phase' = [phase EXCEPT ![a] = "ok"]
    /\ UNCHANGED <<caller, blank, fileVars, up, callVars, part, seen, dropped, overlapped>>

\* Mutant: the output file is not consulted.
NothingCompleted(f) == {}

\* load_completed_ids.
CompletedIds(f) == Ids(f)

\* generate.remote(samples): an idle warm container takes the call with the
\* copy it has; only without one is a container started, on the volume as it is.
Call(a, c) ==
    /\ phase[a] = "calling"
    /\ ~(caller = "regional" /\ seen[a])
    /\ ~Busy(c)
    /\ c \in up \/ \A w \in up : Busy(w)
    /\ up' = up \cup {c}
    /\ view' = IF c \in up THEN view ELSE [view EXCEPT ![c] = file]
    /\ serves' = [serves EXCEPT ![c] = a]
    /\ asked' = [asked EXCEPT ![c] = Parts[part[a]] \ CompletedIds(view'[c])]
    /\ todo' = [todo EXCEPT ![c] = asked'[c]]
    /\ phase' = [phase EXCEPT ![a] = "waiting"]
    /\ UNCHANGED <<caller, blank, file, dirty, made, part, seen, dropped, overlapped>>

\* The caller's container is lost; a call it waited for goes on.
CallerDies(a) ==
    /\ phase[a] \in {"calling", "waiting"}
    /\ phase' = [phase EXCEPT ![a] = "failed"]
    /\ UNCHANGED <<caller, blank, fileVars, up, callVars, part, seen, dropped, overlapped>>

-----------------------------------------------------------------------------
(* generate(), in container c                                              *)

\* The next BATCH_SIZE pending samples, in the order they were given.
Batch(c) == {s \in todo[c] : Cardinality({t \in todo[c] : t < s}) < BatchSize}

\* build_prompt() has a user_prompt_localized for every sample of the batch.
Promptable(c) == Batch(c) \cap blank[serves[c]] = {}

\* A caller that still waits for the call that container c executes sees it raise.
Raise(c) ==
    phase' = [a \in Attempts |-> IF serves[c] = a /\ phase[a] = "waiting"
                                 THEN "failed" ELSE phase[a]]

\* Mutant: only full batches are sent.
InferFullBatch(c) ==
    /\ Busy(c)
    /\ made[c] = {}
    /\ Cardinality(todo[c]) >= BatchSize
    /\ Promptable(c)
    /\ todo' = [todo EXCEPT ![c] = @ \ Batch(c)]
    /\ made' = [made EXCEPT ![c] = Batch(c)]
    /\ UNCHANGED <<caller, blank, fileVars, up, serves, asked, phase, part, seen, dropped, overlapped>>

\* One batch through the model.  _safe_chat / _safe_generate answer an
\* exception with None for every sample, and those are passed over.
Infer(c) ==
    /\ Busy(c)
    /\ made[c] = {}
    /\ todo[c] # {}
    /\ Promptable(c)
    /\ todo' = [todo EXCEPT ![c] = @ \ Batch(c)]
    /\ \/ made' = [made EXCEPT ![c] = Batch(c)] /\ UNCHANGED dropped
       \/ dropped' = [dropped EXCEPT ![serves[c]] = @ \cup Batch(c)] /\ UNCHANGED made
    /\ UNCHANGED <<caller, blank, fileVars, up, serves, asked, phase, part, seen, overlapped>>

\* build_prompt raises ValueError out of generate(): no commit is made, and the
\* container stays up with the records of the earlier batches.
PromptRaises(c) ==
    /\ Busy(c)
    /\ made[c] = {}
    /\ ~Promptable(c)
    /\ Raise(c)
    /\ serves' = [serves EXCEPT ![c] = 0]
    /\ asked' = [asked EXCEPT ![c] = {}]
    /\ todo' = [todo EXCEPT ![c] = {}]
    /\ UNCHANGED <<caller, blank, fileVars, up, made, part, seen, dropped, overlapped>>

\* Mutant: the file is opened for writing, not for appending.
AppendTruncates(c) ==
    /\ \E s \in made[c] :
         /\ \A t \in made[c] : s <= t
         /\ view' = [view EXCEPT ![c] = [NoRecords EXCEPT ![s] = 1]]
         /\ made' = [made EXCEPT ![c] = @ \ {s}]
    /\ dirty' = dirty \cup {c}
    /\ UNCHANGED <<caller, blank, file, up, serves, asked, todo, phase, part, seen, dropped, overlapped>>

\* append_output of one record of the batch.
AppendRecord(c) ==
    /\ \E s \in made[c] :
         /\ \A t \in made[c] : s <= t
         /\ view' = [view EXCEPT ![c][s] = @ + 1]
         /\ made' = [made EXCEPT ![c] = @ \ {s}]
    /\ dirty' = dirty \cup {c}
    /\ UNCHANGED <<caller, blank, file, up, serves, asked, todo, phase, part, seen, dropped, overlapped>>

\* The call returns.  A caller that still waits goes on to its next call, or
\* ends the stage.
Answer(c) ==
    /\ serves' = [serves EXCEPT ![c] = 0]
    /\ asked' = [asked EXCEPT ![c] = {}]
    /\ LET a == serves[c] IN
         IF phase[a] # "waiting" THEN UNCHANGED <<phase, part>>
         ELSE IF part[a] < Calls
              THEN /\ phase' = [phase EXCEPT ![a] = "calling"]
                   /\ part' = [part EXCEPT ![a] = @ + 1]
              ELSE phase' = [phase EXCEPT ![a] = "ok"] /\ UNCHANGED part

\* Mutant: the loop leaves out a last batch that is not full.
FinishShort(c) ==
    /\ Busy(c)
    /\ made[c] = {} /\ Cardinality(todo[c]) < BatchSize
    /\ file' = IF c \in dirty THEN view[c] ELSE file
    /\ dirty' = dirty \ {c}
    /\ Answer(c)
    /\ todo' = [todo EXCEPT ![c] = {}]
    /\ UNCHANGED <<caller, blank, up, view, made, seen, dropped, overlapped>>

\* Nothing was pending: [] is returned, without a commit.  Or the loop is over:
\* commit and return.
Finish(c) ==
    /\ Busy(c)
    /\ made[c] = {} /\ todo[c] = {}
    /\ IF asked[c] = {} THEN UNCHANGED <<file, dirty>>
       ELSE /\ file' = IF c \in dirty THEN view[c] ELSE file
            /\ dirty' = dirty \ {c}
    /\ Answer(c)
    /\ UNCHANGED <<caller, blank, up, view, todo, made, seen, dropped, overlapped>>

\* Modal commits a running container's changes from time to time: the whole
\* file, over whatever another container committed.
Commit(c) ==
    /\ c \in dirty
    /\ file' = view[c]
    /\ dirty' = dirty \ {c}
    /\ UNCHANGED <<caller, blank, view, up, callVars, phase, part, seen, dropped, overlapped>>

\* The container dies or the call exceeds its Modal timeout: what it had not
\* committed is lost and generate.remote raises in a caller still waiting.
ContainerDies(c) ==
    /\ c \in up
    /\ up' = up \ {c}
    /\ dirty' = dirty \ {c}
    /\ serves' = [serves EXCEPT ![c] = 0]
    /\ asked' = [asked EXCEPT ![c] = {}]
    /\ todo' = [todo EXCEPT ![c] = {}]
    /\ made' = [made EXCEPT ![c] = {}]
    /\ Raise(c)
    /\ UNCHANGED <<caller, blank, file, view, part, seen, dropped, overlapped>>

Work(c) == Infer(c) \/ PromptRaises(c) \/ AppendRecord(c) \/ Finish(c)

Next ==
    \/ \E a \in Attempts : Begin(a) \/ Skip(a) \/ CallerDies(a)
    \/ \E a \in Attempts, c \in Containers : Call(a, c)
    \/ \E c \in Containers : Work(c) \/ Commit(c) \/ ContainerDies(c)

Spec == Init /\ [][Next]_vars

\* A call is taken by some container and containers work; nothing is owed of
\* crashes, of background commits or of a further launch.
Fairness ==
    /\ \A a \in Attempts : WF_vars(Skip(a)) /\ WF_vars(\E c \in Containers : Call(a, c))
    /\ \A c \in Containers : WF_vars(Work(c))

FairSpec == Spec /\ Fairness

-----------------------------------------------------------------------------
(* Properties                                                              *)

Bags == [Samples -> Nat]

\* Every variable has its type; only a running container serves a call.
TypeOK ==
    /\ caller \in Callers
    /\ blank \in [Attempts -> SUBSET Samples]
    /\ file \in Bags
    /\ up \in SUBSET Containers
    /\ view \in [Containers -> Bags]
    /\ dirty \in SUBSET up
    /\ serves \in [Containers -> Attempts \cup {0}]
    /\ \A c \in Containers : Busy(c) => c \in up
    /\ asked \in [Containers -> SUBSET Samples]
    /\ todo \in [Containers -> SUBSET Samples]
    /\ made \in [Containers -> SUBSET Samples]
    /\ phase \in [Attempts -> {"none", "calling", "waiting", "ok", "failed"}]
    /\ part \in [Attempts -> DOMAIN Parts]
    /\ seen \in [Attempts -> BOOLEAN]
    /\ dropped \in [Attempts -> SUBSET Samples]
    /\ overlapped \in BOOLEAN

Once(f) == \A s \in Samples : f[s] <= 1

\* The metrics average over the lines of the outputs file: no copy of it, on
\* the volume or in a container, ever has a sample twice, whatever died, was
\* resumed, was answered from a stale copy or ran side by side.
NoDuplicates ==
    Once(file) /\ \A c \in Containers : Once(view[c])

\* ensure_gemma4_baseline, "Looping over all_slugs ensures full coverage": once
\* an attempt has ended well, the committed file has every sample of every
\* slug, except those of batches that failed in this very attempt; and keeps
\* them.  (Only while attempts do not overlap: see OutputsKept.)
FullCoverage ==
    caller = "baseline" /\ ~overlapped => \A a \in Attempts :
        phase[a] = "ok" => Wanted \subseteq Ids(file) \cup dropped[a]

\* As long as no attempt begins while an earlier call still runs, a commit
\* never takes a record from the volume: last-writer-wins is harmless.
OutputsKept == [][~overlapped' => Ids(file) \subseteq Ids(file')]_vars

\* An attempt comes to an end, however many batches fail and containers die.
AttemptEnds ==
    \A a \in Attempts : phase[a] \in {"calling", "waiting"} ~> phase[a] \in {"ok", "failed"}

=============================================================================
