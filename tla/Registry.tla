------------------------------ MODULE Registry ------------------------------
(***************************************************************************)
(* The registry service: RegistryService over VolumeRegistryStore, in one  *)
(* or more containers that share the registry volume.                      *)
(*                                                                         *)
(* A handler never yields between its read and its write (the store's async *)
(* methods do synchronous I/O), so in one container a request is one step. *)
(* Nothing in the service reloads the volume: a container works on the copy *)
(* it started with, and its commits replace whole files.                   *)
(***************************************************************************)
EXTENDS Naturals, Sequences

CONSTANTS
    Containers,   \* containers of the registry app
    Models, Hardware, Metrics,   \* ids and names that requests use
    Tasks,        \* names in _DEFAULT_TASKS, in order
    HasTemplate,  \* models whose tokenizer has a chat template
    MaxRuns       \* bound: run ids generated

ASSUME TemplateAssumption == HasTemplate \subseteq Models
ASSUME TasksAssumption ==
    /\ Tasks \in Seq(STRING)
    /\ \A i, j \in DOMAIN Tasks : Tasks[i] = Tasks[j] => i = j

\* ModelState, and TRANSITIONS: deprecated has no way out.
ModelStates == {"active", "disabled", "deprecated"}

\* Mutant: a deprecated model may be enabled again.
TransitionsBack == [active     |-> {"disabled", "deprecated"},
                    disabled   |-> {"active", "deprecated"},
                    deprecated |-> {"active"}]

Transitions == [active     |-> {"disabled", "deprecated"},
                disabled   |-> {"active", "deprecated"},
                deprecated |-> {}]

\* The files under /data/registry, each a JSON list of entries with a key.
Files == {"models", "hardware", "metrics", "tasks", "runs"}

Keys(f) == CASE f = "models"   -> Models
             [] f = "hardware" -> Hardware
             [] f = "metrics"  -> Metrics
             [] f = "tasks"    -> {Tasks[i] : i \in DOMAIN Tasks}
             [] f = "runs"     -> 1..MaxRuns

\* A model's lifecycle state and chat template; of the other entries, whether
\* an update has changed them (a run is always "started").
Values(f) == IF f = "models"
             THEN [state : ModelStates, template : {"none", "set"}]
             ELSE {"initial", "changed"}

Entries(f) == [key : Keys(f), val : Values(f)]

Nothing == [f \in Files |-> <<>>]

VARIABLES
    fleet,   \* the containers Modal may run
    up,      \* the ones running
    file,    \* file[f]: the committed list
    view,    \* view[c][f]: container c's copy
    dirty    \* <<c, f>>: c's copy of f is not committed

vars == <<fleet, up, file, view, dirty>>

Init ==
    /\ fleet \in (SUBSET Containers) \ {{}}
    /\ up = {}
    /\ file = Nothing
    /\ view = [c \in Containers |-> Nothing]
    /\ dirty = {}

-----------------------------------------------------------------------------
(* The store                                                               *)

Has(list, k)   == \E i \in DOMAIN list : list[i].key = k

\* get_*: the first entry with the key.
Place(list, k) == CHOOSE i \in DOMAIN list :
                      list[i].key = k /\ \A j \in 1..(i - 1) : list[j].key # k
Get(list, k)   == list[Place(list, k)].val

\* create_* and append_run: read, append, _atomic_write.
Append1(c, f, k, v) ==
    /\ view' = [view EXCEPT ![c][f] = Append(@, [key |-> k, val |-> v])]
    /\ dirty' = dirty \cup {<<c, f>>}

\* update_*: read, replace the first entry with the key, _atomic_write.
Replace(c, f, k, v) ==
    /\ view' = [view EXCEPT ![c][f][Place(view[c][f], k)].val = v]
    /\ dirty' = dirty \cup {<<c, f>>}

-----------------------------------------------------------------------------
(* Requests, each handled in a container c                                 *)

New(f) == IF f = "models" THEN [state |-> "active", template |-> "none"] ELSE "initial"

\* Mutant: the id is not looked up before it is added.
CreateAgain(c, f, k) ==
    /\ c \in up
    /\ Len(view[c][f]) < 2
    /\ Append1(c, f, k, New(f))
    /\ UNCHANGED <<fleet, up, file>>

\* create_model, create_hardware, create_metric: an id that exists is a 409.
Create(c, f, k) ==
    /\ c \in up
    /\ ~Has(view[c][f], k)
    /\ Append1(c, f, k, New(f))
    /\ UNCHANGED <<fleet, up, file>>

\* Mutant: "state" is among the fields that PATCH may set.
PatchState(c, f, k) ==
    /\ c \in up
    /\ Has(view[c][f], k)
    /\ IF f = "models"
       THEN \E s \in ModelStates : Replace(c, f, k, [Get(view[c][f], k) EXCEPT !.state = s])
       ELSE Replace(c, f, k, "changed")
    /\ UNCHANGED <<fleet, up, file>>

\* update_model, update_hardware, update_metric, update_task: only the allowed
\* fields, and never to None.  Of a model's, chat_template matters here.
Patch(c, f, k) ==
    /\ c \in up
    /\ Has(view[c][f], k)
    /\ IF f = "models"
       THEN LET m == Get(view[c][f], k) IN
            \E t \in {m.template, "set"} : Replace(c, f, k, [m EXCEPT !.template = t])
       ELSE Replace(c, f, k, "changed")
    /\ UNCHANGED <<fleet, up, file>>

\* disable_model, enable_model, deprecate_model: validate_transition refuses
\* with a ValueError (409) and nothing is written.
TransitionModel(c, k, target) ==
    /\ c \in up
    /\ Has(view[c]["models"], k)
    /\ LET m == Get(view[c]["models"], k) IN
         /\ target \in Transitions[m.state]
         /\ Replace(c, "models", k, [m EXCEPT !.state = target])
    /\ UNCHANGED <<fleet, up, file>>

\* Mutant: the model is written as it is created.
FetchResets(c, k) ==
    /\ c \in up
    /\ Has(view[c]["models"], k)
    /\ Replace(c, "models", k, New("models"))
    /\ UNCHANGED <<fleet, up, file>>

\* fetch_and_store_chat_template: what the tokenizer has; an exception while
\* loading it counts as no template, and None is stored over what was there.
FetchTemplate(c, k) ==
    /\ c \in up
    /\ Has(view[c]["models"], k)
    /\ \E t \in {IF k \in HasTemplate THEN "set" ELSE "none", "none"} :
         Replace(c, "models", k, [Get(view[c]["models"], k) EXCEPT !.template = t])
    /\ UNCHANGED <<fleet, up, file>>

\* create_run: a fresh run id, "started" and never changed afterwards (no
\* request calls the service's update_run_status).
CreateRun(c) ==
    /\ c \in up
    /\ \E r \in 1..MaxRuns :
         /\ ~Has(file["runs"], r) /\ \A d \in Containers : ~Has(view[d]["runs"], r)
         /\ Append1(c, "runs", r, New("runs"))
    /\ UNCHANGED <<fleet, up, file>>

Request(c) ==
    \/ \E f \in {"models", "hardware", "metrics"} : \E k \in Keys(f) : Create(c, f, k)
    \/ \E f \in Files \ {"runs"} : \E k \in Keys(f) : Patch(c, f, k)
    \/ \E k \in Models, target \in ModelStates : TransitionModel(c, k, target)
    \/ \E k \in Models : FetchTemplate(c, k)
    \/ CreateRun(c)

-----------------------------------------------------------------------------
(* Containers and the volume                                               *)

DefaultTasks == [i \in DOMAIN Tasks |-> [key |-> Tasks[i], val |-> New("tasks")]]

\* A container starts on the volume as it is; _init_tasks writes the default
\* tasks if it finds no tasks.json.
Start(c) ==
    /\ c \in fleet \ up
    /\ up' = up \cup {c}
    /\ IF file["tasks"] = <<>>
       THEN /\ view' = [view EXCEPT ![c] = [file EXCEPT !["tasks"] = DefaultTasks]]
            /\ dirty' = dirty \cup {<<c, "tasks">>}
       ELSE view' = [view EXCEPT ![c] = file] /\ UNCHANGED dirty
    /\ UNCHANGED <<fleet, file>>

\* Background commit, or the commit of a container that exits: file by file,
\* the whole of it.
Commit(c, f) ==
    /\ <<c, f>> \in dirty
    /\ file' = [file EXCEPT ![f] = view[c][f]]
    /\ dirty' = dirty \ {<<c, f>>}
    /\ UNCHANGED <<fleet, up, view>>

\* A container is killed: what it had not committed is lost.
Die(c) ==
    /\ c \in up
    /\ up' = up \ {c}
    /\ view' = [view EXCEPT ![c] = Nothing]
    /\ dirty' = {d \in dirty : d[1] # c}
    /\ UNCHANGED <<fleet, file>>

Next ==
    \E c \in Containers :
        \/ Request(c) \/ Start(c) \/ Die(c)
        \/ \E f \in Files : Commit(c, f)

Spec == Init /\ [][Next]_vars

-----------------------------------------------------------------------------
(* Properties                                                              *)

\* Every variable has its type; only running containers of the fleet write.
TypeOK ==
    /\ fleet \in (SUBSET Containers) \ {{}}
    /\ up \in SUBSET fleet
    /\ DOMAIN file = Files
    /\ \A f \in Files : file[f] \in Seq(Entries(f))
    /\ DOMAIN view = Containers /\ \A c \in Containers : DOMAIN view[c] = Files
    /\ \A c \in Containers, f \in Files : view[c][f] \in Seq(Entries(f))
    /\ dirty \in SUBSET (up \X Files)

Distinct(list) == \A i, j \in DOMAIN list : list[i].key = list[j].key => i = j

\* get_* and update_* stop at the first entry with the key, so a second one
\* could never be read, changed or disabled again: no copy of any file has two.
UniqueKeys ==
    \A f \in Files : Distinct(file[f]) /\ \A c \in Containers : Distinct(view[c][f])

\* routes.py: "No DELETE endpoints", "State transitions validated": while a
\* container runs, a model in its copy is never removed and changes state only
\* along TRANSITIONS, whichever requests it serves.
LifecycleInCopy ==
    [][\A c \in up \cap up', k \in Models :
         Has(view[c]["models"], k) =>
           /\ Has(view'[c]["models"], k)
           /\ LET old == Get(view[c]["models"], k).state
                  new == Get(view'[c]["models"], k).state
              IN  new = old \/ new \in Transitions[old]]_vars

\* With one container at a time, deprecated is terminal on the volume too: the
\* model stays in models.json and stays deprecated, across container restarts.
DeprecatedIsTerminal ==
    [][(\E c \in Containers : fleet = {c}) =>
         \A k \in Models :
           Has(file["models"], k) /\ Get(file["models"], k).state = "deprecated" =>
             /\ Has(file'["models"], k)
             /\ Get(file'["models"], k).state = "deprecated"]_vars

=============================================================================
