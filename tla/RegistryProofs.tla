--------------------------- MODULE RegistryProofs ---------------------------
(***************************************************************************)
(* Proofs about Registry, for any containers, ids, tasks and run bound.    *)
(***************************************************************************)
EXTENDS Registry, TLAPS

-----------------------------------------------------------------------------
(* Lists of entries with distinct keys                                     *)

\* In such a list the first entry with a key is the only one.
LEMMA PlaceIs ==
    ASSUME NEW S, NEW list \in Seq(S), Distinct(list),
           NEW i \in DOMAIN list
    PROVE  Place(list, list[i].key) = i
<1>1. DOMAIN list = 1..Len(list) /\ Len(list) \in Nat
  OBVIOUS
<1>2. ASSUME NEW j \in 1..(i - 1) PROVE list[j].key # list[i].key
  <2>1. j \in DOMAIN list /\ j # i
    BY <1>1
  <2> QED BY <2>1 DEF Distinct
<1>3. \A j \in DOMAIN list : list[j].key = list[i].key => j = i
  BY DEF Distinct
<1> QED BY <1>2, <1>3 DEF Place

\* Looking up a key that is there.
LEMMA LookUp ==
    ASSUME NEW f \in Files, NEW list \in Seq(Entries(f)), Distinct(list),
           NEW k, Has(list, k)
    PROVE  /\ Place(list, k) \in DOMAIN list
           /\ list[Place(list, k)] = [key |-> k, val |-> Get(list, k)]
           /\ Get(list, k) \in Values(f)
<1>1. PICK i \in DOMAIN list : list[i].key = k
  BY DEF Has
<1>2. Place(list, k) = i
  BY <1>1, PlaceIs
<1>3. list[i] \in Entries(f)
  OBVIOUS
<1> QED BY <1>1, <1>2, <1>3 DEF Get, Entries

\* Where the entries of a list are determines what is looked up.
LEMMA Found ==
    ASSUME NEW S, NEW list \in Seq(S), Distinct(list), NEW i \in DOMAIN list
    PROVE  Has(list, list[i].key) /\ Get(list, list[i].key) = list[i].val
BY PlaceIs DEF Has, Get

\* Adding an entry with a new key.
LEMMA AppendKeeps ==
    ASSUME NEW f \in Files, NEW list \in Seq(Entries(f)), Distinct(list),
           NEW k \in Keys(f), NEW v \in Values(f), ~Has(list, k)
    PROVE  LET new == Append(list, [key |-> k, val |-> v]) IN
           /\ new \in Seq(Entries(f))
           /\ Distinct(new)
           /\ \A j : Has(list, j) => Has(new, j) /\ Get(new, j) = Get(list, j)
<1> DEFINE e == [key |-> k, val |-> v]
           new == Append(list, e)
<1>1. e \in Entries(f)
  BY DEF Entries
<1>2. new \in Seq(Entries(f))
  BY <1>1
<1>3. /\ DOMAIN list = 1..Len(list) /\ DOMAIN new = 1..(Len(list) + 1)
      /\ Len(list) \in Nat
      /\ new[Len(list) + 1] = e
      /\ \A i \in DOMAIN list : new[i] = list[i]
  BY <1>1
<1>4. \A i \in DOMAIN list : list[i].key # k
  BY DEF Has
<1>5. Distinct(new)
  <2> SUFFICES ASSUME NEW i \in DOMAIN new, NEW j \in DOMAIN new, new[i].key = new[j].key
               PROVE  i = j
    BY DEF Distinct
  <2>1. CASE i \in DOMAIN list /\ j \in DOMAIN list
    BY <2>1, <1>3 DEF Distinct
  <2>2. CASE i \in DOMAIN list /\ j = Len(list) + 1
    BY <2>2, <1>3, <1>4
  <2>3. CASE i = Len(list) + 1 /\ j \in DOMAIN list
    BY <2>3, <1>3, <1>4
  <2> QED BY <2>1, <2>2, <2>3, <1>3
<1>6. ASSUME NEW j, Has(list, j) PROVE Has(new, j) /\ Get(new, j) = Get(list, j)
  <2>1. PICK i \in DOMAIN list : list[i].key = j
    BY <1>6 DEF Has
  <2>2. i \in DOMAIN new /\ new[i] = list[i]
    BY <1>3
  <2>3. Get(list, j) = list[i].val
    BY <2>1, Found
  <2>4. Has(new, j) /\ Get(new, j) = new[i].val
    BY <2>1, <2>2, <1>2, <1>5, Found
  <2> QED BY <2>2, <2>3, <2>4
<1> QED BY <1>2, <1>5, <1>6

\* Changing the value of an entry.
LEMMA ReplaceKeeps ==
    ASSUME NEW f \in Files, NEW list \in Seq(Entries(f)), Distinct(list),
           NEW k, NEW v \in Values(f), Has(list, k)
    PROVE  LET new == [list EXCEPT ![Place(list, k)] = [key |-> k, val |-> v]] IN
           /\ [list EXCEPT ![Place(list, k)].val = v] = new
           /\ new \in Seq(Entries(f))
           /\ Distinct(new)
           /\ \A j : Has(list, j) =>
                Has(new, j) /\ Get(new, j) = IF j = k THEN v ELSE Get(list, j)
<1> DEFINE p == Place(list, k)
           new == [list EXCEPT ![p] = [key |-> k, val |-> v]]
<1>1. p \in DOMAIN list /\ list[p] \in Entries(f) /\ list[p].key = k
  <2>1. p \in DOMAIN list /\ list[p] = [key |-> k, val |-> Get(list, k)]
    BY LookUp
  <2>2. list[p] \in Entries(f)
    BY <2>1
  <2> QED BY <2>1, <2>2
<1>2. [list[p] EXCEPT !.val = v] = [key |-> k, val |-> v]
  BY <1>1 DEF Entries
<1>3. [key |-> k, val |-> v] \in Entries(f)
  BY <1>1 DEF Entries
<1>4. [list EXCEPT ![p].val = v] = new
  BY <1>2
<1>5. new \in Seq(Entries(f)) /\ DOMAIN new = DOMAIN list
  BY <1>1, <1>3
<1>6. \A i \in DOMAIN list : new[i] = IF i = p THEN [key |-> k, val |-> v] ELSE list[i]
  OBVIOUS
<1>7. \A i \in DOMAIN list : new[i].key = list[i].key
  BY <1>1, <1>6
<1>8. Distinct(new)
  BY <1>5, <1>7 DEF Distinct
<1>9. ASSUME NEW j, Has(list, j)
      PROVE  Has(new, j) /\ Get(new, j) = IF j = k THEN v ELSE Get(list, j)
  <2>1. PICK i \in DOMAIN list : list[i].key = j
    BY <1>9 DEF Has
  <2>2. Get(list, j) = list[i].val
    BY <2>1, Found
  <2>3. Has(new, j) /\ Get(new, j) = new[i].val
    BY <2>1, <1>5, <1>7, <1>8, Found
  <2>4. i = p <=> j = k
    BY <2>1, <1>1 DEF Distinct
  <2> QED BY <2>2, <2>3, <2>4, <1>6
<1> QED BY <1>4, <1>5, <1>8, <1>9

-----------------------------------------------------------------------------
(* What a request does: it rewrites one list of its container's copy.      *)

\* The lifecycle of every model of the old list is respected by the new one.
Respects(old, new) ==
    \A k \in Models : Has(old, k) =>
        /\ Has(new, k)
        /\ \/ Get(new, k).state = Get(old, k).state
           \/ Get(new, k).state \in Transitions[Get(old, k).state]

Rewrites(c) ==
    \E f \in Files : \E new \in Seq(Entries(f)) :
        /\ c \in up
        /\ Distinct(new)
        /\ view' = [view EXCEPT ![c] = [@ EXCEPT ![f] = new]]
        /\ dirty' = dirty \cup {<<c, f>>}
        /\ f = "models" => Respects(view[c][f], new)
        /\ UNCHANGED <<fleet, up, file>>

IInv == TypeOK /\ UniqueKeys

LEMMA FileNames ==
    /\ {"models", "hardware", "metrics", "tasks", "runs"} = Files
    /\ Keys("models") = Models
    /\ Keys("runs") = 1..MaxRuns
    /\ Values("models") = [state : ModelStates, template : {"none", "set"}]
    /\ \A f \in Files \ {"models"} : Values(f) = {"initial", "changed"}
BY DEF Files, Keys, Values

LEMMA AppendRewrites ==
    ASSUME IInv, NEW c \in Containers, c \in up, NEW f \in Files,
           NEW k \in Keys(f), ~Has(view[c][f], k),
           Append1(c, f, k, New(f)), UNCHANGED <<fleet, up, file>>
    PROVE  Rewrites(c)
<1> DEFINE new == Append(view[c][f], [key |-> k, val |-> New(f)])
<1>1. view[c][f] \in Seq(Entries(f)) /\ Distinct(view[c][f])
  BY DEF IInv, TypeOK, UniqueKeys
<1>2. New(f) \in Values(f)
  BY FileNames DEF New, ModelStates
<1>3. /\ new \in Seq(Entries(f)) /\ Distinct(new)
      /\ \A j : Has(view[c][f], j) => Has(new, j) /\ Get(new, j) = Get(view[c][f], j)
  BY <1>1, <1>2, AppendKeeps
<1>4. view' = [view EXCEPT ![c] = [@ EXCEPT ![f] = new]]
  BY DEF Append1
<1>5. Respects(view[c][f], new)
  BY <1>3 DEF Respects
<1> HIDE DEF new
<1> QED BY <1>3, <1>4, <1>5 DEF Append1, Rewrites

LEMMA ReplaceRewrites ==
    ASSUME IInv, NEW c \in Containers, c \in up, NEW f \in Files,
           NEW k, Has(view[c][f], k), NEW v \in Values(f),
           Replace(c, f, k, v), UNCHANGED <<fleet, up, file>>,
           f = "models" => \/ v.state = Get(view[c][f], k).state
                           \/ v.state \in Transitions[Get(view[c][f], k).state]
    PROVE  Rewrites(c)
<1> DEFINE list == view[c][f]
           new  == [list EXCEPT ![Place(list, k)] = [key |-> k, val |-> v]]
<1>1. list \in Seq(Entries(f)) /\ Distinct(list) /\ Has(list, k)
  BY DEF IInv, TypeOK, UniqueKeys
<1>2. /\ [list EXCEPT ![Place(list, k)].val = v] = new
      /\ new \in Seq(Entries(f)) /\ Distinct(new)
      /\ \A j : Has(list, j) =>
           Has(new, j) /\ Get(new, j) = IF j = k THEN v ELSE Get(list, j)
  BY <1>1, ReplaceKeeps
<1>3. view' = [view EXCEPT ![c] = [@ EXCEPT ![f] = [list EXCEPT ![Place(list, k)].val = v]]]
  BY DEF Replace
<1>4. f = "models" => Respects(list, new)
  BY <1>2 DEF Respects
<1>5. view' = [view EXCEPT ![c] = [@ EXCEPT ![f] = new]]
  BY <1>2, <1>3
<1> HIDE DEF new
<1> QED BY <1>2, <1>4, <1>5 DEF Replace, Rewrites

LEMMA RequestRewrites ==
    ASSUME IInv, NEW c \in Containers, Request(c)
    PROVE  Rewrites(c)
<1>1. ASSUME NEW f \in {"models", "hardware", "metrics"}, NEW k \in Keys(f), Create(c, f, k)
      PROVE  Rewrites(c)
  BY <1>1, AppendRewrites DEF Create, Files
<1>2. ASSUME NEW k \in Models, Has(view[c]["models"], k)
      PROVE  Get(view[c]["models"], k) \in [state : ModelStates, template : {"none", "set"}]
  <2>1. "models" \in Files
    BY DEF Files
  <2>2. view[c]["models"] \in Seq(Entries("models")) /\ Distinct(view[c]["models"])
    BY <2>1 DEF IInv, TypeOK, UniqueKeys
  <2> QED BY <1>2, <2>1, <2>2, LookUp, FileNames
<1>3. ASSUME NEW k \in Models, NEW v \in [state : ModelStates, template : {"none", "set"}],
             c \in up, Has(view[c]["models"], k), Replace(c, "models", k, v),
             UNCHANGED <<fleet, up, file>>,
             LET old == Get(view[c]["models"], k).state IN
                 v.state = old \/ v.state \in Transitions[old]
      PROVE  Rewrites(c)
  BY <1>3, FileNames, ReplaceRewrites
<1>4. ASSUME NEW f \in Files \ {"runs"}, NEW k \in Keys(f), Patch(c, f, k)
      PROVE  Rewrites(c)
  <2>1. CASE f = "models"
    <3> DEFINE m == Get(view[c]["models"], k)
    <3>1. k \in Models /\ Has(view[c]["models"], k) /\ c \in up /\ UNCHANGED <<fleet, up, file>>
      BY <1>4, <2>1, FileNames DEF Patch
    <3>2. m \in [state : ModelStates, template : {"none", "set"}]
      BY <3>1, <1>2
    <3>3. PICK t \in {m.template, "set"} : Replace(c, "models", k, [m EXCEPT !.template = t])
      BY <1>4, <2>1 DEF Patch
    <3>4. /\ [m EXCEPT !.template = t] \in [state : ModelStates, template : {"none", "set"}]
          /\ [m EXCEPT !.template = t].state = m.state
      BY <3>2, <3>3
    <3> QED BY <3>1, <3>3, <3>4, <1>3
  <2>2. CASE f # "models"
    <3>1. "changed" \in Values(f)
      BY <2>2, FileNames
    <3> QED BY <1>4, <2>2, <3>1, ReplaceRewrites DEF Patch
  <2> QED BY <2>1, <2>2
<1>5. ASSUME NEW k \in Models, NEW target \in ModelStates, TransitionModel(c, k, target)
      PROVE  Rewrites(c)
  <2> DEFINE m == Get(view[c]["models"], k)
  <2>1. /\ Has(view[c]["models"], k) /\ c \in up /\ UNCHANGED <<fleet, up, file>>
        /\ target \in Transitions[m.state]
        /\ Replace(c, "models", k, [m EXCEPT !.state = target])
    BY <1>5 DEF TransitionModel
  <2>2. m \in [state : ModelStates, template : {"none", "set"}]
    BY <2>1, <1>2
  <2>3. /\ [m EXCEPT !.state = target] \in [state : ModelStates, template : {"none", "set"}]
        /\ [m EXCEPT !.state = target].state = target
    BY <2>2
  <2> QED BY <2>1, <2>3, <1>3
<1>6. ASSUME NEW k \in Models, FetchTemplate(c, k)
      PROVE  Rewrites(c)
  <2> DEFINE m == Get(view[c]["models"], k)
  <2>1. Has(view[c]["models"], k) /\ c \in up /\ UNCHANGED <<fleet, up, file>>
    BY <1>6 DEF FetchTemplate
  <2>2. m \in [state : ModelStates, template : {"none", "set"}]
    BY <2>1, <1>2
  <2>3. PICK t \in {"none", "set"} : Replace(c, "models", k, [m EXCEPT !.template = t])
    BY <1>6 DEF FetchTemplate
  <2>4. /\ [m EXCEPT !.template = t] \in [state : ModelStates, template : {"none", "set"}]
        /\ [m EXCEPT !.template = t].state = m.state
    BY <2>2
  <2> QED BY <2>1, <2>3, <2>4, <1>3
<1>7. CASE CreateRun(c)
  <2>1. PICK r \in 1..MaxRuns : ~Has(view[c]["runs"], r) /\ Append1(c, "runs", r, New("runs"))
    BY <1>7 DEF CreateRun
  <2>2. "runs" \in Files /\ r \in Keys("runs")
    BY FileNames
  <2> QED BY <1>7, <2>1, <2>2, AppendRewrites DEF CreateRun
<1> QED BY <1>1, <1>4, <1>5, <1>6, <1>7 DEF Request

-----------------------------------------------------------------------------
(* The invariant                                                           *)

LEMMA NothingListed ==
    /\ DOMAIN Nothing = Files
    /\ \A f \in Files : /\ Nothing[f] \in Seq(Entries(f)) /\ Distinct(Nothing[f])
                         /\ \A k : ~Has(Nothing[f], k)
<1>1. \A f \in Files : Nothing[f] = <<>>
  BY DEF Nothing
<1>2. DOMAIN Nothing = Files
  BY DEF Nothing
<1>3. ASSUME NEW f \in Files PROVE Nothing[f] \in Seq(Entries(f)) /\ DOMAIN Nothing[f] = {}
  <2>1. <<>> \in Seq(Entries(f)) /\ DOMAIN <<>> = {}
    OBVIOUS
  <2> QED BY <1>1, <2>1
<1> QED BY <1>2, <1>3 DEF Distinct, Has

LEMMA InvInit == Init => IInv
BY NothingListed DEF Init, IInv, TypeOK, UniqueKeys

LEMMA DefaultTasksListed ==
    DefaultTasks \in Seq(Entries("tasks")) /\ Distinct(DefaultTasks)
<1>1. DOMAIN Tasks = 1..Len(Tasks) /\ Len(Tasks) \in Nat
  BY TasksAssumption
<1>2. New("tasks") = "initial" /\ Values("tasks") = {"initial", "changed"}
  BY FileNames DEF New
<1>3. Keys("tasks") = {Tasks[i] : i \in DOMAIN Tasks}
  BY DEF Keys
<1>4. \A i \in DOMAIN Tasks : [key |-> Tasks[i], val |-> New("tasks")] \in Entries("tasks")
  BY <1>2, <1>3 DEF Entries
<1>5. DefaultTasks \in [1..Len(Tasks) -> Entries("tasks")]
  BY <1>1, <1>4 DEF DefaultTasks
<1>6. DefaultTasks \in Seq(Entries("tasks"))
  BY <1>1, <1>5
<1>7. Distinct(DefaultTasks)
  BY TasksAssumption DEF DefaultTasks, Distinct
<1> QED BY <1>6, <1>7

LEMMA InvStep == IInv /\ [Next]_vars => IInv'
<1> SUFFICES ASSUME IInv, [Next]_vars PROVE IInv'
  OBVIOUS
<1> USE DEF IInv, TypeOK, UniqueKeys
<1>1. ASSUME NEW c \in Containers, Request(c) PROVE IInv'
  <2>1. PICK f \in Files : \E new \in Seq(Entries(f)) :
          /\ c \in up
          /\ Distinct(new)
          /\ view' = [view EXCEPT ![c] = [@ EXCEPT ![f] = new]]
          /\ dirty' = dirty \cup {<<c, f>>}
          /\ UNCHANGED <<fleet, up, file>>
    BY <1>1, RequestRewrites DEF Rewrites
  <2>4. PICK new \in Seq(Entries(f)) :
           Distinct(new) /\ view' = [view EXCEPT ![c] = [@ EXCEPT ![f] = new]]
    BY <2>1
  <2>2. \A d \in Containers, g \in Files :
          view'[d][g] = IF d = c /\ g = f THEN new ELSE view[d][g]
    BY <2>4
  <2>3. DOMAIN view' = Containers /\ \A d \in Containers : DOMAIN view'[d] = Files
    BY <2>4
  <2> QED BY <2>1, <2>4, <2>2, <2>3
<1>2. ASSUME NEW c \in Containers, Start(c) PROVE IInv'
  <2>1. CASE file["tasks"] = <<>>
    <3>1. "tasks" \in Files
      BY DEF Files
    <3>2. /\ view' = [view EXCEPT ![c] = [file EXCEPT !["tasks"] = DefaultTasks]]
          /\ dirty' = dirty \cup {<<c, "tasks">>}
          /\ up' = up \cup {c} /\ c \in fleet /\ UNCHANGED <<fleet, file>>
      BY <1>2, <2>1 DEF Start
    <3>3. \A d \in Containers, g \in Files :
            view'[d][g] = IF d = c THEN IF g = "tasks" THEN DefaultTasks ELSE file[g]
                          ELSE view[d][g]
      BY <3>1, <3>2
    <3>4. DOMAIN view' = Containers /\ \A d \in Containers : DOMAIN view'[d] = Files
      BY <3>2
    <3> QED BY <3>1, <3>2, <3>3, <3>4, DefaultTasksListed
  <2>2. CASE file["tasks"] # <<>>
    <3>1. /\ view' = [view EXCEPT ![c] = file] /\ up' = up \cup {c} /\ c \in fleet
          /\ UNCHANGED <<fleet, file, dirty>>
      BY <1>2, <2>2 DEF Start
    <3>2. DOMAIN view' = Containers /\ \A d \in Containers : view'[d] = IF d = c THEN file ELSE view[d]
      BY <3>1
    <3> QED BY <3>1, <3>2
  <2> QED BY <2>1, <2>2
<1>3. ASSUME NEW c \in Containers, NEW f \in Files, Commit(c, f) PROVE IInv'
  BY <1>3 DEF Commit
<1>4. ASSUME NEW c \in Containers, Die(c) PROVE IInv'
  BY <1>4, NothingListed DEF Die
<1>5. CASE UNCHANGED vars
  BY <1>5 DEF vars
<1> QED BY <1>1, <1>2, <1>3, <1>4, <1>5 DEF Next

\* Every copy of every file is a list of well-formed entries, and only a running
\* container of the fleet has something to commit.
THEOREM RegistryTypeCorrect == Spec => []TypeOK
<1>1. Spec => []IInv
  BY InvInit, InvStep, PTL DEF Spec
<1> QED BY <1>1, PTL DEF IInv

\* create_* never adds an id twice, in whichever container and over whatever the
\* containers commit over each other.
THEOREM KeysAreUnique == Spec => []UniqueKeys
<1>1. Spec => []IInv
  BY InvInit, InvStep, PTL DEF Spec
<1> QED BY <1>1, PTL DEF IInv

LEMMA LifecycleStep ==
    ASSUME IInv, Next, NEW c \in up \cap up', NEW k \in Models, Has(view[c]["models"], k)
    PROVE  /\ Has(view'[c]["models"], k)
           /\ LET old == Get(view[c]["models"], k).state
                  new == Get(view'[c]["models"], k).state
              IN  new = old \/ new \in Transitions[old]
<1>1. "models" \in Files /\ c \in Containers
  BY DEF Files, IInv, TypeOK
<1>2. ASSUME NEW d \in Containers, Request(d)
      PROVE  Respects(view[c]["models"], view'[c]["models"])
             \/ view'[c]["models"] = view[c]["models"]
  <2>1. PICK f \in Files : \E new \in Seq(Entries(f)) :
          /\ view' = [view EXCEPT ![d] = [@ EXCEPT ![f] = new]]
          /\ f = "models" => Respects(view[d][f], new)
    BY <1>2, RequestRewrites DEF Rewrites
  <2>2. PICK new \in Seq(Entries(f)) :
          /\ view' = [view EXCEPT ![d] = [@ EXCEPT ![f] = new]]
          /\ f = "models" => Respects(view[d][f], new)
    BY <2>1
  <2>3. view'[c]["models"] = IF c = d /\ f = "models" THEN new ELSE view[c]["models"]
    BY <1>1, <2>2 DEF IInv, TypeOK
  <2> QED BY <2>2, <2>3
<1>3. ASSUME NEW d \in Containers, Start(d) \/ Die(d) PROVE view'[c] = view[c]
  BY <1>1, <1>3 DEF Start, Die, IInv, TypeOK
<1>4. ASSUME NEW d \in Containers, NEW f \in Files, Commit(d, f) PROVE view' = view
  BY <1>4 DEF Commit
<1>5. Respects(view[c]["models"], view'[c]["models"]) \/ view'[c]["models"] = view[c]["models"]
  BY <1>2, <1>3, <1>4 DEF Next
<1> QED BY <1>5 DEF Respects

\* validate_transition: while a container runs, no request it serves removes a
\* model from its copy or moves it against TRANSITIONS.
THEOREM LifecycleIsRespected == Spec => LifecycleInCopy
<1>1. IInv /\ [Next]_vars =>
        [\A c \in up \cap up', k \in Models :
           Has(view[c]["models"], k) =>
             /\ Has(view'[c]["models"], k)
             /\ LET old == Get(view[c]["models"], k).state
                    new == Get(view'[c]["models"], k).state
                IN  new = old \/ new \in Transitions[old]]_vars
  BY LifecycleStep
<1>2. Spec => []IInv
  BY InvInit, InvStep, PTL DEF Spec
<1> QED BY <1>1, <1>2, PTL DEF Spec, LifecycleInCopy

-----------------------------------------------------------------------------
(* One container at a time                                                 *)

DeprecatedIn(list, k) == Has(list, k) /\ Get(list, k).state = "deprecated"

\* The only container of the fleet, if it runs, knows what the volume knows.
KnowsDeprecated ==
    \A c \in Containers : fleet = {c} /\ c \in up =>
        \A k \in Models : DeprecatedIn(file["models"], k) => DeprecatedIn(view[c]["models"], k)

LEMMA KnowsStep == IInv /\ KnowsDeprecated /\ [Next]_vars => KnowsDeprecated'
<1> SUFFICES ASSUME IInv, KnowsDeprecated, [Next]_vars,
                    NEW c \in Containers, fleet' = {c}, c \in up',
                    NEW k \in Models, DeprecatedIn(file'["models"], k)
             PROVE  DeprecatedIn(view'[c]["models"], k)
  BY DEF KnowsDeprecated, DeprecatedIn
<1>1. fleet = {c} /\ "models" \in Files
  BY DEF Next, Request, Create, Patch, TransitionModel, FetchTemplate, CreateRun,
         Start, Commit, Die, vars, Files
<1>2. ASSUME NEW d \in Containers, Request(d) PROVE DeprecatedIn(view'[c]["models"], k)
  <2>1. file' = file /\ up' = up
    BY <1>2, RequestRewrites DEF Rewrites
  <2>2. DeprecatedIn(view[c]["models"], k)
    BY <1>1, <2>1 DEF KnowsDeprecated
  <2>3. /\ Has(view'[c]["models"], k)
        /\ LET old == Get(view[c]["models"], k).state
               new == Get(view'[c]["models"], k).state
           IN  new = old \/ new \in Transitions[old]
    BY <1>2, <2>1, <2>2, LifecycleStep DEF Next, DeprecatedIn
  <2> QED BY <2>2, <2>3 DEF DeprecatedIn, Transitions
<1>3. ASSUME NEW d \in Containers, Start(d) PROVE DeprecatedIn(view'[c]["models"], k)
  <2>1. d = c /\ file' = file
    BY <1>1, <1>3 DEF Start
  <2>2. view'[c]["models"] = file["models"]
    BY <1>1, <1>3, <2>1 DEF Start, IInv, TypeOK
  <2> QED BY <2>1, <2>2
<1>4. ASSUME NEW d \in Containers, NEW f \in Files, Commit(d, f)
      PROVE  DeprecatedIn(view'[c]["models"], k)
  <2>1. d = c /\ up' = up /\ view' = view
    BY <1>1, <1>4 DEF Commit, IInv, TypeOK
  <2>2. file'["models"] = IF f = "models" THEN view[c]["models"] ELSE file["models"]
    BY <1>1, <1>4, <2>1 DEF Commit, IInv, TypeOK
  <2> QED BY <1>1, <2>1, <2>2 DEF KnowsDeprecated
<1>5. ASSUME NEW d \in Containers, Die(d) PROVE FALSE
  BY <1>1, <1>5 DEF Die, IInv, TypeOK
<1>6. CASE UNCHANGED vars
  BY <1>1, <1>6 DEF vars, KnowsDeprecated
<1> QED BY <1>2, <1>3, <1>4, <1>5, <1>6 DEF Next

\* With one container at a time the volume itself keeps a deprecated model
\* deprecated, through commits, restarts and lost work.
THEOREM DeprecatedStays == Spec => DeprecatedIsTerminal
<1>1. Init => KnowsDeprecated
  BY DEF Init, KnowsDeprecated
<1>2. IInv /\ KnowsDeprecated /\ [Next]_vars =>
        [(\E c \in Containers : fleet = {c}) =>
           \A k \in Models :
             Has(file["models"], k) /\ Get(file["models"], k).state = "deprecated" =>
               /\ Has(file'["models"], k)
               /\ Get(file'["models"], k).state = "deprecated"]_vars
  <2> SUFFICES ASSUME IInv, KnowsDeprecated, Next, NEW one \in Containers, fleet = {one},
                      NEW k \in Models, DeprecatedIn(file["models"], k)
               PROVE  DeprecatedIn(file'["models"], k)
    BY DEF DeprecatedIn
  <2>1. ASSUME NEW c \in Containers, NEW f \in Files, Commit(c, f)
        PROVE  DeprecatedIn(file'["models"], k)
    <3>1. c \in up /\ c = one
      BY <2>1 DEF Commit, IInv, TypeOK
    <3>2. file'["models"] = IF f = "models" THEN view[c]["models"] ELSE file["models"]
      BY <2>1 DEF Commit, IInv, TypeOK, Files
    <3> QED BY <3>1, <3>2 DEF KnowsDeprecated
  <2>2. ASSUME NEW c \in Containers, Request(c) PROVE file' = file
    BY <2>2, RequestRewrites DEF Rewrites
  <2>3. ASSUME NEW c \in Containers, Start(c) \/ Die(c) PROVE file' = file
    BY <2>3 DEF Start, Die
  <2> QED BY <2>1, <2>2, <2>3 DEF Next
<1>3. Spec => [](IInv /\ KnowsDeprecated)
  BY <1>1, InvInit, InvStep, KnowsStep, PTL DEF Spec
<1> QED BY <1>2, <1>3, PTL DEF Spec, DeprecatedIsTerminal

=============================================================================
