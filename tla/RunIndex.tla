------------------------------ MODULE RunIndex ------------------------------
(***************************************************************************)
(* The files that list runs: run_manifest.json, one per run, and            *)
(* runs_index.json, one for all.  run_pipeline writes them in the copy of   *)
(* the volume its container has, and the index is rewritten from that copy. *)
(* check_run reads them back, in a container of its own.                    *)
(***************************************************************************)
EXTENDS Naturals, Sequences, FiniteSets, SequencesExt

CONSTANTS
    Runs,        \* run ids
    Slugs,       \* the languages of every run
    Drivers,     \* containers of _run_pipeline
    Checkers,    \* containers of _check_run_impl
    None,
    MaxLaunches  \* bound: launches of run_pipeline, over all run ids

ASSUME LaunchesBounded == MaxLaunches \in Nat
ASSUME ContainersNamed == Drivers \cap Checkers = {} /\ None \notin Runs /\ IsFiniteSet(Slugs)

Baseline   == "baseline"
Settled    == {"completed", "partial", "failed"}
Statuses   == {"none", "started"} \cup Settled
Containers == Drivers \cup Checkers

VARIABLES
    fleet,      \* the containers of run_pipeline that Modal may run
    launches,   \* launches so far; the n-th is made at time n
    index,      \* committed runs_index.json
    manifest,   \* manifest[r]: committed status of r
    report,     \* report[r]: keys under "languages" of the committed report of r
    up,         \* running containers
    view,       \* view[c]: container c's copy of the three
    dirty,      \* <<c, f>>: c has written file f and not committed it
    drives,     \* drives[c]: the run that container c drives
    phase,      \* phase[c]: how far run_pipeline is in c
    raised,     \* <<c, r>>: c's last launch of r ended in an exception
    answer      \* the last answer of check_run

driveVars == <<fleet, launches, drives, phase, raised>>
volume    == <<index, manifest, report>>
vars      == <<driveVars, volume, up, view, dirty, answer>>

Entries  == [run : Runs, status : Statuses, created_at : 1..MaxLaunches]
Unseen   == [index |-> <<>>, manifest |-> [r \in Runs |-> "none"], report |-> [r \in Runs |-> {}]]
OnVolume == [index |-> index, manifest |-> manifest, report |-> report]

\* The files of the index and of a run's manifest.
IndexFile       == <<"index", None>>
ManifestFile(r) == <<"manifest", r>>
Files           == {IndexFile} \cup {ManifestFile(r) : r \in Runs}

Init ==
    /\ fleet \in (SUBSET Drivers) \ {{}}
    /\ launches = 0
    /\ index = <<>>
    /\ manifest = [r \in Runs |-> "none"]
    /\ report = [r \in Runs |-> {}]
    /\ up = {}
    /\ view = [c \in Containers |-> Unseen]
    /\ dirty = {}
    /\ drives = [c \in Drivers |-> None]
    /\ phase = [c \in Drivers |-> "idle"]
    /\ raised = {}
    /\ answer = None

\* The copy with which a container serves its next call.
Copy(c) == IF c \in up THEN view[c] ELSE OnVolume

\* A call goes to an idle warm container, else to a new one.
Serves(c, pool) ==
    /\ c \in pool
    /\ c \in Drivers => phase[c] = "idle"
    /\ c \in up \/ \A w \in pool \cap up : w \in Drivers /\ phase[w] # "idle"

-----------------------------------------------------------------------------
(* run_pipeline                                                            *)

\* Mutant: append_run_to_index puts the newest run first.
PrependRun(entries, r) ==
    <<[run |-> r, status |-> "started", created_at |-> launches + 1]>> \o entries

\* append_run_to_index
AppendRun(entries, r) ==
    Append(entries, [run |-> r, status |-> "started", created_at |-> launches + 1])

\* write_manifest and append_run_to_index, for a new run id or a resumed one.
Launch(c, r) ==
    /\ launches < MaxLaunches
    /\ Serves(c, fleet)
    /\ launches' = launches + 1
    /\ up' = up \cup {c}
    /\ view' = [view EXCEPT ![c] = [Copy(c) EXCEPT !.index = AppendRun(@, r),
                                                   !.manifest[r] = "started"]]
    /\ dirty' = dirty \cup {<<c, IndexFile>>, <<c, ManifestFile(r)>>}
    /\ drives' = [drives EXCEPT ![c] = r]
    /\ phase' = [phase EXCEPT ![c] = "launched"]
    /\ raised' = raised \ {<<c, r>>}
    /\ UNCHANGED <<fleet, volume, answer>>

\* needs_baseline: a language is missing in the report that c has loaded.
NeedsBaseline(c) == ~(Slugs \subseteq view[c].report[drives[c]])

\* What the volume holds once c's own changes are committed.
IndexWith(c)    == IF <<c, IndexFile>> \in dirty THEN view[c].index ELSE index
ManifestWith(c) == [r \in Runs |-> IF <<c, ManifestFile(r)>> \in dirty
                                   THEN view[c].manifest[r] ELSE manifest[r]]

\* Mutant: nothing is reloaded, so what c wrote is left to a background commit.
BaselineUncommitted(c) ==
    /\ phase[c] = "launched"
    /\ NeedsBaseline(c)
    /\ phase' = [phase EXCEPT ![c] = "driving"]
    /\ UNCHANGED <<fleet, launches, raised, volume, up, view, dirty, drives, answer>>

\* The baseline is generated; its reload commits what c wrote.
BaselineDone(c) ==
    /\ phase[c] = "launched"
    /\ NeedsBaseline(c)
    /\ index' = IndexWith(c)
    /\ manifest' = ManifestWith(c)
    /\ view' = [view EXCEPT ![c] = [index |-> index', manifest |-> manifest', report |-> report]]
    /\ dirty' = {d \in dirty : d[1] # c}
    /\ phase' = [phase EXCEPT ![c] = "driving"]
    /\ UNCHANGED <<fleet, launches, raised, report, up, drives, answer>>

\* run_pipeline is over in c, whose container stays warm.
Idle(c) ==
    /\ drives' = [drives EXCEPT ![c] = None]
    /\ phase' = [phase EXCEPT ![c] = "idle"]

\* ensure_gemma4_baseline raises, and run_pipeline with it: what c wrote is left
\* to a background commit, the manifest with its status "started".
BaselineRaises(c) ==
    /\ phase[c] = "launched"
    /\ NeedsBaseline(c)
    /\ raised' = raised \cup {<<c, drives[c]>>}
    /\ Idle(c)
    /\ UNCHANGED <<fleet, launches, volume, up, view, dirty, answer>>

\* ReportGenerator commits the section of a language and the baseline's.
Reported(r, s) ==
    /\ \E c \in Drivers : drives[c] = r /\ phase[c] = "driving"
    /\ s \notin report[r]
    /\ report' = [report EXCEPT ![r] = @ \cup {s, Baseline}]
    /\ UNCHANGED <<driveVars, index, manifest, up, view, dirty, answer>>

\* update_manifest_status in c's copy, and run_pipeline returns; the index is left
\* as it is.
Returns(c, st) ==
    /\ view' = [view EXCEPT ![c].manifest[drives[c]] = st]
    /\ dirty' = dirty \cup {<<c, ManifestFile(drives[c])>>}
    /\ Idle(c)
    /\ UNCHANGED <<fleet, launches, raised, volume, up, answer>>

\* Every language has ended; see Pipeline for the status.
Settle(c) ==
    /\ phase[c] = "driving"
    /\ \E st \in Settled : Returns(c, st)

\* No language is left, or none goes beyond PENDING (stop_at may be any state):
\* no baseline, so no reload, and nothing fails.
NothingToRun(c) ==
    /\ phase[c] = "launched"
    /\ Returns(c, "completed")

-----------------------------------------------------------------------------
(* The volume and the containers                                           *)

\* Mutant: a commit brings all of the container's copy, written or not.
CommitAll(c, f) ==
    /\ <<c, f>> \in dirty
    /\ index' = view[c].index
    /\ manifest' = view[c].manifest
    /\ dirty' = {d \in dirty : d[1] # c}
    /\ UNCHANGED <<driveVars, report, up, view, answer>>

\* Background commit of one file.
Commit(c, f) ==
    /\ <<c, f>> \in dirty
    /\ IF f = IndexFile
       THEN index' = view[c].index /\ UNCHANGED manifest
       ELSE manifest' = [manifest EXCEPT ![f[2]] = view[c].manifest[f[2]]] /\ UNCHANGED index
    /\ dirty' = dirty \ {<<c, f>>}
    /\ UNCHANGED <<driveVars, report, up, view, answer>>

\* A container is lost, with the run it drives and what it has not committed.
Die(c) ==
    /\ c \in up
    /\ up' = up \ {c}
    /\ view' = [view EXCEPT ![c] = Unseen]
    /\ dirty' = {d \in dirty : d[1] # c}
    /\ drives' = [d \in Drivers |-> IF d = c THEN None ELSE drives[d]]
    /\ phase' = [d \in Drivers |-> IF d = c THEN "idle" ELSE phase[d]]
    /\ raised' = {q \in raised : q[1] # c}
    /\ UNCHANGED <<fleet, launches, volume, answer>>

-----------------------------------------------------------------------------
(* check_run                                                               *)

\* ALL_MODELS gives every slug a language name, which is no slug.
LanguageName(s) == <<"language", s>>

\* _check_run_impl: the status, the count of languages, the languages it ticks.
Answer(copy, r) ==
    [run |-> r, status |-> copy.manifest[r],
     completed |-> Cardinality(copy.report[r]),
     ticked |-> {s \in Slugs : LanguageName(s) \in copy.report[r]}]

\* Nothing is reloaded; a run without a manifest in this copy is not found.
Check(c, r) ==
    /\ Serves(c, Checkers)
    /\ up' = up \cup {c}
    /\ view' = [view EXCEPT ![c] = Copy(c)]
    /\ answer' = IF Copy(c).manifest[r] = "none" THEN None ELSE Answer(Copy(c), r)
    /\ UNCHANGED <<driveVars, volume, dirty>>

Next ==
    \/ \E c \in Drivers, r \in Runs : Launch(c, r)
    \/ \E r \in Runs, s \in Slugs : Reported(r, s)
    \/ \E c \in Drivers : BaselineDone(c) \/ BaselineRaises(c) \/ NothingToRun(c) \/ Settle(c)
    \/ \E c \in Drivers, f \in Files : Commit(c, f)
    \/ \E c \in Containers : Die(c)
    \/ \E c \in Checkers, r \in Runs : Check(c, r)

Spec == Init /\ [][Next]_vars

-----------------------------------------------------------------------------
(* Properties                                                              *)

Answers == [run : Runs, status : Statuses, completed : Nat, ticked : SUBSET Slugs]
Copies  == [index : Seq(Entries), manifest : [Runs -> Statuses],
            report : [Runs -> SUBSET (Slugs \cup {Baseline})]]

\* Every variable has its type; only running containers hold uncommitted files
\* or drive a run.
TypeOK ==
    /\ fleet \in (SUBSET Drivers) \ {{}}
    /\ launches \in 0..MaxLaunches
    /\ OnVolume \in Copies
    /\ up \subseteq fleet \cup Checkers
    /\ view \in [Containers -> Copies]
    /\ dirty \subseteq (up \cap Drivers) \X Files
    /\ drives \in [Drivers -> Runs \cup {None}]
    /\ phase \in [Drivers -> {"idle", "launched", "driving"}]
    /\ raised \subseteq (up \cap Drivers) \X Runs
    /\ \A c \in Drivers : phase[c] = "idle" <=> drives[c] = None
    /\ \A c \in Drivers : drives[c] # None => c \in up
    /\ answer \in Answers \cup {None}

\* A list of entries in the order of their launches, none of them twice, all of
\* the first so many launches.
Chronological(entries, made) ==
    /\ \A i, j \in DOMAIN entries : i < j => entries[i].created_at < entries[j].created_at
    /\ \A i \in DOMAIN entries : entries[i].created_at <= made

\* Whatever entries it loses, the index of every copy has at most one entry per
\* launch, oldest first: dashboards may read the last entry as the newest run.
IndexInOrder ==
    /\ Chronological(index, launches)
    /\ \A c \in Containers : Chronological(view[c].index, launches)

\* Who may still take a run's status back: a container that holds its own
\* manifest of the run uncommitted and drives it, or whose launch of it raised.
MayTakeBack(c, r) ==
    /\ <<c, ManifestFile(r)>> \in dirty
    /\ drives[c] = r \/ <<c, r>> \in raised

\* What is committed is not taken back: the status of a run goes back only by the
\* late manifest of a launch that is still going or that raised, once for each,
\* and never by a launch that returned, by a launch of another run or by a copy
\* that is merely old, whichever containers are lost; and where one container
\* makes all the launches, no entry of the index is lost ("appends ...
\* atomically", run.py:105; with two containers entries are).
Rank(st) == CASE st = "none" -> 0 [] st = "started" -> 1 [] OTHER -> 2
NothingTakenBack ==
    [][/\ \A r \in Runs : Rank(manifest'[r]) < Rank(manifest[r]) => \E c \in Drivers : MayTakeBack(c, r)
       /\ (\A c, d \in fleet : c = d) => IsPrefix(index, index')]_vars

\* No copy of the volume has a report of a run and no manifest: check_run, which
\* looks at the manifest first, finds every run that has results.
ReportedIsFound ==
    /\ \A r \in Runs : report[r] # {} => manifest[r] # "none"
    /\ \A c \in up, r \in Runs : view[c].report[r] # {} => view[c].manifest[r] # "none"

=============================================================================
