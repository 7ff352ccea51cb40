-------------------------- MODULE InferenceProofs --------------------------
(***************************************************************************)
(* For every list of slugs, batch size, set of containers and number of    *)
(* attempts: no copy of the outputs file ever has a sample twice; and as   *)
(* long as no attempt begins beside an earlier call, no commit takes a     *)
(* record from the volume, and the baseline ends with every slug's samples.*)
(*                                                                         *)
(* The invariant that carries the first: what a call still has to send to  *)
(* the model or to append is disjoint from what its copy already holds.    *)
(* It survives stale copies, since generate() compares with the copy it    *)
(* will append to, and commits, since they move whole copies.              *)
(***************************************************************************)
EXTENDS Inference, TLAPS

Fresh(c) ==
    /\ made[c] \cap todo[c] = {}
    /\ \A s \in made[c] \cup todo[c] : view[c][s] = 0
    /\ ~Busy(c) => made[c] = {} /\ todo[c] = {}

AppendInv ==
    /\ TypeOK
    /\ NoDuplicates
    /\ \A c \in Containers : Fresh(c)

\* The samples of every slug are among Samples, the records of none are a bag.
LEMMA PartsAreSamples ==
    /\ \A p \in DOMAIN Parts : Parts[p] \subseteq Samples
    /\ NoRecords \in Bags /\ Once(NoRecords)
    /\ DOMAIN Parts = 1..Len(Parts) /\ Len(Parts) \in Nat \ {0}
  BY PartsAssumption DEF Samples, NoRecords, Bags, Once

LEMMA AppendInit == Init => AppendInv
  <1> SUFFICES ASSUME Init PROVE AppendInv
    OBVIOUS
  <1>0. NoRecords \in Bags /\ 1 \in DOMAIN Parts
    BY PartsAreSamples
  <1>1. TypeOK
    BY <1>0, BlanksAssumption DEF Init, TypeOK, Busy
  <1>2. NoDuplicates
    BY PartsAreSamples DEF Init, NoDuplicates
  <1>3. \A c \in Containers : Fresh(c)
    BY DEF Init, Fresh, Busy
  <1> QED BY <1>1, <1>2, <1>3 DEF AppendInv

\* The caller's steps that touch no container.
LEMMA CallerStep ==
    AppendInv /\ (\E a \in Attempts : Begin(a) \/ Skip(a) \/ CallerDies(a)) => AppendInv'
  <1> SUFFICES ASSUME AppendInv, NEW a \in Attempts, Begin(a) \/ Skip(a) \/ CallerDies(a)
               PROVE AppendInv'
    OBVIOUS
  <1>1. TypeOK'
    BY DEF AppendInv, TypeOK, Begin, Skip, CallerDies, fileVars, callVars, Busy
  <1>2. NoDuplicates' /\ (\A c \in Containers : Fresh(c))'
    BY DEF AppendInv, NoDuplicates, Once, Fresh, Busy, Begin, Skip, CallerDies, fileVars, callVars
  <1> QED BY <1>1, <1>2 DEF AppendInv

LEMMA CallStep ==
    ASSUME AppendInv, NEW a \in Attempts, NEW c \in Containers, Call(a, c)
    PROVE AppendInv'
  <1>1. view' \in [Containers -> Bags] /\ (\A d \in Containers : d # c => view'[d] = view[d])
        /\ (view'[c] = view[c] \/ view'[c] = file)
    BY DEF AppendInv, TypeOK, Call
  <1>2. Parts[part[a]] \subseteq Samples
    BY PartsAreSamples DEF AppendInv, TypeOK
  <1>3. TypeOK'
    BY <1>1, <1>2 DEF AppendInv, TypeOK, Call, Busy, CompletedIds, Attempts
  <1>4. NoDuplicates'
    BY <1>1 DEF AppendInv, NoDuplicates, Once, Call
  <1>5. ASSUME NEW d \in Containers PROVE Fresh(d)'
    <2>1. CASE d # c
      BY <1>1, <2>1 DEF AppendInv, TypeOK, Fresh, Busy, Call
    <2>2. CASE d = c
      <3>1. made'[c] = {} /\ todo'[c] = Parts[part[a]] \ Ids(view'[c])
        BY DEF AppendInv, TypeOK, Fresh, Call, Busy, CompletedIds
      <3>2. \A s \in todo'[c] : view'[c][s] = 0
        BY <1>1, <1>2, <3>1 DEF Ids, Bags
      <3>3. serves'[c] # 0
        BY BoundAssumption DEF AppendInv, TypeOK, Call, Attempts
      <3> QED BY <2>2, <3>1, <3>2, <3>3 DEF Fresh, Busy
    <2> QED BY <2>1, <2>2
  <1> QED BY <1>3, <1>4, <1>5 DEF AppendInv

LEMMA InferStep ==
    ASSUME AppendInv, NEW c \in Containers, Infer(c)
    PROVE AppendInv'
  <1>1. Batch(c) \subseteq todo[c]
    BY DEF Batch
  <1>2. TypeOK'
    BY <1>1 DEF AppendInv, TypeOK, Infer, Busy, fileVars
  <1>3. NoDuplicates'
    BY DEF AppendInv, NoDuplicates, Once, Infer, fileVars
  <1>4. ASSUME NEW d \in Containers PROVE Fresh(d)'
    BY <1>1 DEF AppendInv, TypeOK, Fresh, Busy, Infer, fileVars
  <1> QED BY <1>2, <1>3, <1>4 DEF AppendInv

LEMMA AppendStep ==
    ASSUME AppendInv, NEW c \in Containers, AppendRecord(c)
    PROVE AppendInv'
  <1>1. PICK s \in made[c] :
          /\ view' = [view EXCEPT ![c][s] = @ + 1]
          /\ made' = [made EXCEPT ![c] = @ \ {s}]
    BY DEF AppendRecord
  <1>2. s \in Samples /\ view[c] \in Bags /\ view[c][s] = 0
    BY DEF AppendInv, TypeOK, Fresh
  <1>3. /\ view'[c] \in Bags /\ view'[c][s] = 1
        /\ \A t \in Samples \ {s} : view'[c][t] = view[c][t]
        /\ \A d \in Containers \ {c} : view'[d] = view[d]
        /\ view' \in [Containers -> Bags]
    BY <1>1, <1>2 DEF AppendInv, TypeOK, Bags
  <1>4. c \in up
    BY <1>1 DEF AppendInv, TypeOK, Fresh
  <1>5. TypeOK'
    BY <1>1, <1>3, <1>4 DEF AppendInv, TypeOK, AppendRecord, Busy
  <1>6. NoDuplicates'
    BY <1>2, <1>3 DEF AppendInv, NoDuplicates, Once, AppendRecord
  <1>7. ASSUME NEW d \in Containers PROVE Fresh(d)'
    <2>1. CASE d # c
      BY <1>1, <1>3, <2>1 DEF AppendInv, TypeOK, Fresh, Busy, AppendRecord
    <2>2. CASE d = c
      BY <1>1, <1>2, <1>3, <2>2 DEF AppendInv, TypeOK, Fresh, Busy, AppendRecord
    <2> QED BY <2>1, <2>2
  <1> QED BY <1>5, <1>6, <1>7 DEF AppendInv

LEMMA FinishStep ==
    ASSUME AppendInv, NEW c \in Containers, Finish(c)
    PROVE AppendInv'
  <1> DEFINE a == serves[c]
  <1>1. a \in Attempts
    BY DEF AppendInv, TypeOK, Finish, Busy
  <1>2. Calls \in Nat /\ Calls <= Len(Parts)
    BY PartsAreSamples DEF Calls
  <1>3. part' \in [Attempts -> DOMAIN Parts]
    <2>1. part' = part \/ (part[a] < Calls /\ part' = [part EXCEPT ![a] = @ + 1])
      BY DEF Finish, Answer
    <2>2. part \in [Attempts -> 1..Len(Parts)]
      BY PartsAreSamples DEF AppendInv, TypeOK
    <2> QED BY <1>1, <1>2, <2>1, <2>2, PartsAreSamples
  <1>4. phase' \in [Attempts -> {"none", "calling", "waiting", "ok", "failed"}]
    BY <1>1 DEF AppendInv, TypeOK, Finish, Answer
  <1>5. TypeOK'
    BY <1>3, <1>4 DEF AppendInv, TypeOK, Finish, Answer, Busy
  <1>6. NoDuplicates'
    BY DEF AppendInv, NoDuplicates, Once, Finish
  <1>7. ASSUME NEW d \in Containers PROVE Fresh(d)'
    BY DEF AppendInv, TypeOK, Fresh, Busy, Finish, Answer
  <1> QED BY <1>5, <1>6, <1>7 DEF AppendInv

\* The steps of a container other than the ones of the loop: a prompt that cannot
\* be built, a commit, and the loss of the container.
LEMMA EnvironmentStep ==
    ASSUME AppendInv, NEW c \in Containers,
           PromptRaises(c) \/ Commit(c) \/ ContainerDies(c)
    PROVE AppendInv'
  <1>1. CASE Commit(c)
    <2>1. TypeOK'
      BY <1>1 DEF AppendInv, TypeOK, Commit, callVars, Busy
    <2>2. NoDuplicates' /\ (\A d \in Containers : Fresh(d))'
      BY <1>1 DEF AppendInv, NoDuplicates, Once, Fresh, Busy, Commit, callVars
    <2> QED BY <2>1, <2>2 DEF AppendInv
  <1>2. CASE ContainerDies(c)
    <2>1. TypeOK'
      BY <1>2 DEF AppendInv, TypeOK, ContainerDies, Raise, Busy
    <2>2. NoDuplicates'
      BY <1>2 DEF AppendInv, NoDuplicates, Once, ContainerDies
    <2>3. ASSUME NEW d \in Containers PROVE Fresh(d)'
      BY <1>2 DEF AppendInv, TypeOK, Fresh, Busy, ContainerDies
    <2> QED BY <2>1, <2>2, <2>3 DEF AppendInv
  <1>3. CASE PromptRaises(c)
    <2>1. TypeOK'
      BY <1>3 DEF AppendInv, TypeOK, PromptRaises, Raise, fileVars, Busy
    <2>2. NoDuplicates'
      BY <1>3 DEF AppendInv, NoDuplicates, Once, PromptRaises, fileVars
    <2>3. ASSUME NEW d \in Containers PROVE Fresh(d)'
      BY <1>3 DEF AppendInv, TypeOK, Fresh, Busy, PromptRaises, fileVars
    <2> QED BY <2>1, <2>2, <2>3 DEF AppendInv
  <1> QED BY <1>1, <1>2, <1>3

LEMMA AppendKept == AppendInv /\ [Next]_vars => AppendInv'
  <1> SUFFICES ASSUME AppendInv, [Next]_vars PROVE AppendInv'
    OBVIOUS
  <1>1. CASE UNCHANGED vars
    BY <1>1 DEF AppendInv, TypeOK, NoDuplicates, Once, Fresh, Busy, vars, fileVars, callVars
  <1>2. CASE Next
    BY <1>2, CallerStep, CallStep, InferStep, AppendStep, FinishStep, EnvironmentStep
    DEF Next, Work
  <1> QED BY <1>1, <1>2

LEMMA AppendInvariant == Spec => []AppendInv
  BY AppendInit, AppendKept, PTL DEF Spec

\* Every variable of the generation keeps its type.
THEOREM GenerationTypeCorrect == Spec => []TypeOK
  BY AppendInvariant, PTL DEF AppendInv

\* No copy of an outputs file, on the volume or in any container, ever has two
\* records of a sample: not after a resume, a crash, a call answered by a warm
\* container from a stale copy, or two launches generating side by side.
THEOREM NeverTwice == Spec => []NoDuplicates
  BY AppendInvariant, PTL DEF AppendInv

-----------------------------------------------------------------------------
(***************************************************************************)
(* While attempts do not overlap, at most one container is up, at work for *)
(* the attempt that is active, and its copy is the volume's or ahead of it *)
(* (SoloInv).  So no commit takes a record from the volume.                *)
(***************************************************************************)

\* Attempts begin in order, each when the one before has ended.
InOrder == \A a, b \in Attempts : b < a /\ phase[a] # "none" => phase[b] \in {"ok", "failed"}

SoloInv ==
    /\ \A c, d \in up : c = d
    /\ \A c \in up : /\ c \notin dirty => view[c] = file
                     /\ Ids(file) \subseteq Ids(view[c])
    /\ \A a \in Attempts : phase[a] = "calling" => \A c \in Containers : ~Busy(c)

KeepInv ==
    /\ InOrder
    /\ ~overlapped => SoloInv

GenInv == AppendInv /\ KeepInv

LEMMA KeepInit == Init => KeepInv
  BY DEF Init, KeepInv, InOrder, SoloInv

\* An attempt begins only where none is active, and only the active one moves.
LEMMA OrderStep == AppendInv /\ InOrder /\ [Next]_vars => InOrder'
  <1> SUFFICES ASSUME AppendInv, InOrder, [Next]_vars PROVE InOrder'
    OBVIOUS
  <1>0. phase \in [Attempts -> {"none", "calling", "waiting", "ok", "failed"}] /\ Attempts \subseteq Nat
    BY DEF AppendInv, TypeOK, Attempts
  <1>1. ASSUME NEW a \in Attempts, Begin(a) PROVE InOrder'
    <2>1. phase[a] = "none" /\ phase' = [phase EXCEPT ![a] = "calling"]
          /\ \A b \in Attempts : b < a => phase[b] \in {"ok", "failed"}
      BY <1>1 DEF Begin
    <2> QED BY <1>0, <2>1 DEF InOrder
  <1>2. ASSUME NEW a \in Attempts, phase[a] \in {"calling", "waiting"},
               \A b \in Attempts : b # a => phase'[b] = phase[b]
        PROVE InOrder'
    BY <1>0, <1>2 DEF InOrder
  <1>3. ASSUME UNCHANGED phase PROVE InOrder'
    BY <1>3 DEF InOrder
  <1>4. ASSUME NEW a \in Attempts, NEW c \in Containers, Call(a, c) PROVE InOrder'
    BY <1>0, <1>2, <1>4 DEF Call
  <1>5. ASSUME NEW c \in Containers, Finish(c) PROVE InOrder'
    <2>1. serves[c] \in Attempts
      BY <1>5 DEF Finish, Busy, AppendInv, TypeOK
    <2> QED BY <1>0, <1>2, <1>3, <1>5, <2>1 DEF Finish, Answer
  <1>6. ASSUME NEW c \in Containers, ContainerDies(c) \/ PromptRaises(c)
        PROVE InOrder'
    <2>1. \A b \in Attempts : phase'[b] # phase[b] => b = serves[c] /\ phase[b] = "waiting"
      BY <1>6 DEF ContainerDies, PromptRaises, Raise
    <2>2. CASE \E b \in Attempts : phase'[b] # phase[b]
      BY <1>2, <2>1, <2>2
    <2>3. CASE \A b \in Attempts : phase'[b] = phase[b]
      BY <2>3 DEF InOrder
    <2> QED BY <2>2, <2>3
  <1>7. ASSUME NEW c \in Containers, Infer(c) \/ AppendRecord(c) \/ Commit(c) PROVE InOrder'
    BY <1>3, <1>7 DEF Infer, AppendRecord, Commit
  <1>8. CASE UNCHANGED vars
    BY <1>3, <1>8 DEF vars
  <1>9. ASSUME NEW a \in Attempts, Skip(a) \/ CallerDies(a) PROVE InOrder'
    BY <1>0, <1>2, <1>9 DEF Skip, CallerDies
  <1> QED BY <1>1, <1>4, <1>5, <1>6, <1>7, <1>8, <1>9 DEF Next, Work

\* Records are only added to a copy.
LEMMA AppendAdds ==
    ASSUME AppendInv, NEW c \in Containers, AppendRecord(c)
    PROVE  \E s \in made[c] :
             /\ made' = [made EXCEPT ![c] = @ \ {s}]
             /\ Ids(view'[c]) = Ids(view[c]) \cup {s}
             /\ \A d \in Containers : d # c => view'[d] = view[d]
  <1>1. PICK s \in made[c] :
          /\ view' = [view EXCEPT ![c][s] = @ + 1]
          /\ made' = [made EXCEPT ![c] = @ \ {s}]
    BY DEF AppendRecord
  <1>2. s \in Samples /\ view \in [Containers -> Bags] /\ view[c] \in Bags
    BY DEF AppendInv, TypeOK
  <1>3. /\ \A t \in Samples : view'[c][t] = IF t = s THEN view[c][t] + 1 ELSE view[c][t]
        /\ \A d \in Containers : d # c => view'[d] = view[d]
    BY <1>1, <1>2 DEF Bags
  <1>4. Ids(view'[c]) = Ids(view[c]) \cup {s}
    BY <1>2, <1>3 DEF Ids, Bags
  <1> QED BY <1>1, <1>3, <1>4

\* With one container at most and none busy, a call is taken by the one there is,
\* with the copy it has, or by a new one on the volume as it is.
LEMMA SoloCall ==
    ASSUME TypeOK, NEW a \in Attempts, NEW c \in Containers, Call(a, c),
           \A d, e \in up : d = e, \A d \in Containers : ~Busy(d)
    PROVE  /\ up' = {c}
           /\ \/ c \in up /\ view' = view
              \/ c \notin up /\ view'[c] = file
  <1>1. CASE c \in up
    BY <1>1 DEF Call
  <1>2. CASE c \notin up
    <2>1. up = {}
      BY <1>2 DEF Call, TypeOK
    <2> QED BY <1>2, <2>1 DEF Call, TypeOK
  <1> QED BY <1>1, <1>2

LEMMA SoloStep ==
    ASSUME GenInv, [Next]_vars, ~overlapped'
    PROVE  SoloInv /\ SoloInv' /\ Ids(file) \subseteq Ids(file')
  <1>0. TypeOK /\ \A c \in Containers : Fresh(c)
    BY DEF GenInv, AppendInv
  <1>a. ~overlapped
    BY DEF Next, Work, vars, Begin, Skip, CallerDies, Call, Infer, AppendRecord,
           Finish, PromptRaises, Commit, ContainerDies
  <1>b. SoloInv /\ InOrder
    BY <1>a DEF GenInv, KeepInv
  <1>1. ASSUME NEW a \in Attempts, Begin(a)
        PROVE SoloInv' /\ Ids(file) \subseteq Ids(file')
    <2>1. \A c \in Containers : ~Busy(c)
      BY <1>1 DEF Begin
    <2> QED BY <1>b, <1>1, <2>1 DEF Begin, SoloInv, fileVars, callVars, Busy
  <1>2. ASSUME NEW a \in Attempts, Skip(a) \/ CallerDies(a)
        PROVE SoloInv' /\ Ids(file) \subseteq Ids(file')
    <2>1. /\ \A b \in Attempts : phase'[b] = "calling" => phase[b] = "calling"
          /\ UNCHANGED <<file, view, dirty, up, serves>>
      BY <1>0, <1>2 DEF Skip, CallerDies, fileVars, callVars, TypeOK
    <2> QED BY <1>b, <2>1 DEF SoloInv, Busy
  <1>3. ASSUME NEW a \in Attempts, NEW c \in Containers, Call(a, c)
        PROVE SoloInv' /\ Ids(file) \subseteq Ids(file')
    <2>1. /\ phase[a] = "calling" /\ \A d \in Containers : ~Busy(d)
          /\ phase' = [phase EXCEPT ![a] = "waiting"]
          /\ UNCHANGED <<file, dirty>>
      BY <1>0, <1>b, <1>3 DEF Call, SoloInv, TypeOK
    <2>2. /\ up' = {c}
          /\ \/ c \in up /\ view' = view
             \/ view'[c] = file
      BY <1>0, <1>b, <1>3, <2>1, SoloCall DEF SoloInv
    <2>3. \A b \in Attempts : phase'[b] # "calling"
      <3>1. \A b \in Attempts : b # a => phase[b] # "calling"
        BY <1>b, <2>1 DEF InOrder, Attempts
      <3> QED BY <1>0, <2>1, <3>1 DEF TypeOK
    <2> QED BY <1>b, <2>1, <2>2, <2>3 DEF SoloInv
  <1>4. ASSUME NEW c \in Containers, Infer(c)
        PROVE SoloInv' /\ Ids(file) \subseteq Ids(file')
    BY <1>b, <1>4 DEF Infer, fileVars, SoloInv, Busy
  <1>5. ASSUME NEW c \in Containers, AppendRecord(c)
        PROVE SoloInv' /\ Ids(file) \subseteq Ids(file')
    <2>1. /\ UNCHANGED <<file, up, serves, phase>> /\ dirty' = dirty \cup {c}
          /\ Ids(view[c]) \subseteq Ids(view'[c])
          /\ \A d \in Containers : d # c => view'[d] = view[d]
      BY <1>5, AppendAdds DEF AppendRecord, GenInv
    <2>2. up \subseteq Containers
      BY <1>0 DEF TypeOK
    <2> QED BY <1>b, <2>1, <2>2 DEF SoloInv, Busy
  <1>6. ASSUME NEW c \in Containers, Finish(c)
        PROVE SoloInv' /\ Ids(file) \subseteq Ids(file')
    <2>1. /\ c \in up /\ UNCHANGED <<up, view>>
          /\ \/ file' = file /\ dirty' = dirty
             \/ file' = view[c] /\ dirty' = dirty \ {c}
      BY <1>0, <1>b, <1>6 DEF Finish, TypeOK, SoloInv
    <2>2. serves' = [serves EXCEPT ![c] = 0]
      BY <1>6 DEF Finish, Answer
    <2>3. \A d \in Containers : ~Busy(d)'
      BY <1>0, <1>b, <2>1, <2>2 DEF TypeOK, SoloInv, Busy
    <2> QED BY <1>b, <2>1, <2>3 DEF SoloInv
  <1>7. ASSUME NEW c \in Containers, Commit(c)
        PROVE SoloInv' /\ Ids(file) \subseteq Ids(file')
    <2>1. c \in up
      BY <1>0, <1>7 DEF Commit, TypeOK
    <2> QED BY <1>b, <1>7, <2>1 DEF Commit, callVars, SoloInv, Busy
  <1>8. ASSUME NEW c \in Containers, ContainerDies(c)
        PROVE SoloInv' /\ Ids(file) \subseteq Ids(file')
    <2>1. /\ up' = up \ {c} /\ dirty' = dirty \ {c} /\ UNCHANGED <<file, view>>
          /\ serves' = [serves EXCEPT ![c] = 0]
          /\ \A b \in Attempts : phase'[b] = "calling" => phase[b] = "calling"
      BY <1>8 DEF ContainerDies, Raise
    <2> QED BY <1>0, <1>b, <2>1 DEF SoloInv, Busy, TypeOK
  <1>9. CASE UNCHANGED vars
    BY <1>b, <1>9 DEF vars, fileVars, callVars, SoloInv, Busy
  <1>10. ASSUME NEW c \in Containers, PromptRaises(c)
         PROVE SoloInv' /\ Ids(file) \subseteq Ids(file')
    <2>1. /\ UNCHANGED <<file, view, dirty, up>>
          /\ serves' = [serves EXCEPT ![c] = 0]
          /\ \A b \in Attempts : phase'[b] = "calling" => phase[b] = "calling"
      BY <1>10 DEF PromptRaises, Raise, fileVars
    <2> QED BY <1>0, <1>b, <2>1 DEF SoloInv, Busy, TypeOK
  <1> QED BY <1>b, <1>1, <1>2, <1>3, <1>4, <1>5, <1>6, <1>7, <1>8, <1>9, <1>10 DEF Next, Work

LEMMA GenStep == GenInv /\ [Next]_vars => GenInv'
  <1> SUFFICES ASSUME GenInv, [Next]_vars PROVE GenInv'
    OBVIOUS
  <1>1. AppendInv'
    BY AppendKept DEF GenInv
  <1>2. InOrder'
    BY OrderStep DEF GenInv, KeepInv
  <1> QED BY <1>1, <1>2, SoloStep DEF GenInv, KeepInv

LEMMA GenInvariant == Spec => []GenInv
  <1>1. Init => GenInv
    BY AppendInit, KeepInit DEF GenInv
  <1> QED BY <1>1, GenStep, PTL DEF Spec

\* While no attempt begins beside an earlier call, no commit, of whichever
\* container and however often they die, takes a record from the volume.
THEOREM OutputsStay == Spec => OutputsKept
  <1>1. GenInv /\ [Next]_vars => [~overlapped' => Ids(file) \subseteq Ids(file')]_vars
    BY SoloStep
  <1> QED BY GenInvariant, <1>1, PTL DEF Spec, OutputsKept

-----------------------------------------------------------------------------
(***************************************************************************)
(* The baseline, one call per slug: while its attempts do not overlap,     *)
(* every slug an attempt has behind it is in the file, up to the batches   *)
(* that failed in it (Delivered), and every sample of the call under way   *)
(* is in the container's copy, about to be, still to come, or dropped      *)
(* (Accounted).  A call that finds nothing pending commits nothing: that is *)
(* harmless because what a raised call left uncommitted of a slug never    *)
(* makes that slug complete in the copy (Saving), and ids are not shared   *)
(* between slugs (IdsAssumption).                                          *)
(***************************************************************************)

\* The slugs an attempt has behind it; only the end of a call adds one.
Behind(a) == {p \in DOMAIN Parts : p < part[a] \/ phase[a] = "ok"}

LEMMA BehindStep ==
    ASSUME GenInv, [Next]_vars, NEW a \in Attempts, caller = "baseline"
    PROVE  \/ Behind(a)' = Behind(a)
           \/ \E c \in Containers : /\ Finish(c) /\ serves[c] = a /\ phase[a] = "waiting"
                                    /\ Behind(a)' = Behind(a) \cup {part[a]}
  <1>0. TypeOK /\ a # 0
    BY DEF GenInv, AppendInv, Attempts
  <1>a. part[a] \in 1..Len(Parts) /\ DOMAIN Parts = 1..Len(Parts) /\ Len(Parts) \in Nat
        /\ Calls = Len(Parts)
    BY <1>0, PartsAreSamples DEF TypeOK, Calls
  <1>1. ASSUME NEW b \in Attempts, Begin(b) \/ Skip(b) \/ CallerDies(b)
        PROVE Behind(a)' = Behind(a)
    BY <1>0, <1>1 DEF TypeOK, Begin, Skip, CallerDies, Behind
  <1>2. ASSUME NEW b \in Attempts, NEW c \in Containers, Call(b, c)
        PROVE Behind(a)' = Behind(a)
    BY <1>0, <1>2 DEF TypeOK, Call, Behind
  <1>3. ASSUME NEW c \in Containers, Infer(c) \/ AppendRecord(c) \/ Commit(c)
        PROVE Behind(a)' = Behind(a)
    BY <1>3 DEF Infer, AppendRecord, Commit, Behind
  <1>4. ASSUME NEW c \in Containers, ContainerDies(c) \/ PromptRaises(c)
        PROVE Behind(a)' = Behind(a)
    <2>1. part' = part /\ (phase'[a] = "ok" <=> phase[a] = "ok")
      BY <1>0, <1>4 DEF TypeOK, ContainerDies, PromptRaises, Raise
    <2> QED BY <2>1 DEF Behind
  <1>5. ASSUME NEW c \in Containers, Finish(c), serves[c] # a \/ phase[a] # "waiting"
        PROVE Behind(a)' = Behind(a)
    <2>1. part'[a] = part[a] /\ phase'[a] = phase[a]
      BY <1>0, <1>5 DEF TypeOK, Finish, Answer, Busy
    <2> QED BY <2>1 DEF Behind
  <1>6. ASSUME NEW c \in Containers, Finish(c), serves[c] = a, phase[a] = "waiting"
        PROVE Behind(a)' = Behind(a) \cup {part[a]}
    <2>1. Behind(a) = {p \in DOMAIN Parts : p < part[a]}
      BY <1>6 DEF Behind
    <2>2. CASE part[a] < Calls
      <3>1. part'[a] = part[a] + 1 /\ phase'[a] = "calling"
        BY <1>0, <1>6, <2>2 DEF TypeOK, Finish, Answer
      <3>2. Behind(a)' = {p \in DOMAIN Parts : p < part[a] + 1}
        BY <3>1 DEF Behind
      <3> QED BY <1>a, <2>1, <3>2
    <2>3. CASE ~(part[a] < Calls)
      <3>1. phase'[a] = "ok"
        BY <1>0, <1>6, <2>3 DEF TypeOK, Finish, Answer
      <3>2. Behind(a)' = DOMAIN Parts
        BY <3>1 DEF Behind
      <3> QED BY <1>a, <2>1, <2>3, <3>2
    <2> QED BY <2>2, <2>3
  <1>7. CASE UNCHANGED vars
    BY <1>7 DEF vars, Behind
  <1> QED BY <1>1, <1>2, <1>3, <1>4, <1>5, <1>6, <1>7 DEF Next, Work

\* The samples of the call that container c executes, and where they are.
Accounted(c) ==
    Busy(c) /\ phase[serves[c]] = "waiting" =>
        Parts[part[serves[c]]]
          \subseteq Ids(view[c]) \cup made[c] \cup todo[c] \cup dropped[serves[c]]

LEMMA AccountedStep ==
    ASSUME GenInv, [Next]_vars, ~overlapped', NEW c \in Containers, Accounted(c)
    PROVE  Accounted(c)'
  <1>0. TypeOK /\ 0 \notin Attempts /\ SoloInv
    BY SoloStep DEF GenInv, AppendInv, Attempts
  <1>1. ASSUME NEW a \in Attempts, Begin(a) \/ Skip(a) \/ CallerDies(a)
        PROVE Accounted(c)'
    <2>1. /\ UNCHANGED <<view, made, todo, dropped, serves, part>>
          /\ \A b \in Attempts : phase'[b] = "waiting" => phase[b] = "waiting"
      BY <1>0, <1>1 DEF TypeOK, Begin, Skip, CallerDies, fileVars, callVars
    <2>2. serves[c] \in Attempts \cup {0}
      BY <1>0 DEF TypeOK
    <2> QED BY <2>1, <2>2 DEF Accounted, Busy
  <1>2. ASSUME NEW a \in Attempts, NEW d \in Containers, Call(a, d)
        PROVE Accounted(c)'
    <2>1. CASE d = c
      BY <1>0, <1>2, <2>1 DEF TypeOK, Call, Accounted, Busy, CompletedIds
    <2>2. CASE d # c
      <3>1. serves'[c] = 0
        BY <1>0, <1>2, <2>2 DEF TypeOK, Call, SoloInv, Busy
      <3> QED BY <3>1 DEF Accounted, Busy
    <2> QED BY <2>1, <2>2
  <1>3. ASSUME NEW d \in Containers, Infer(d) PROVE Accounted(c)'
    <2>1. Batch(d) \subseteq todo[d] /\ serves[d] \in Attempts
      BY <1>0, <1>3 DEF Batch, TypeOK, Infer, Busy
    <2>2. UNCHANGED <<view, serves, phase, part>>
      BY <1>3 DEF Infer, fileVars
    <2>3. made[c] \cup todo[c] \cup dropped[serves[c]]
            \subseteq made'[c] \cup todo'[c] \cup dropped'[serves[c]]
          \/ ~Busy(c)
      BY <1>0, <1>3, <2>1 DEF TypeOK, Infer, Busy
    <2> QED BY <2>2, <2>3 DEF Accounted, Busy
  <1>4. ASSUME NEW d \in Containers, AppendRecord(d) PROVE Accounted(c)'
    <2>1. UNCHANGED <<serves, todo, phase, part, dropped>>
      BY <1>4 DEF AppendRecord
    <2>2. Ids(view[c]) \cup made[c] \subseteq Ids(view'[c]) \cup made'[c]
      BY <1>0, <1>4, AppendAdds DEF TypeOK, GenInv
    <2> QED BY <2>1, <2>2 DEF Accounted, Busy
  <1>5. ASSUME NEW d \in Containers, Finish(d) PROVE Accounted(c)'
    <2>1. d = c
      \/ ~Busy(c)
      BY <1>0, <1>5 DEF TypeOK, SoloInv, Finish
    <2>2. serves'[c] = 0
      BY <1>0, <1>5, <2>1 DEF TypeOK, Finish, Answer, Busy
    <2> QED BY <2>2 DEF Accounted, Busy
  <1>6. ASSUME NEW d \in Containers, Commit(d) PROVE Accounted(c)'
    BY <1>6 DEF Commit, callVars, Accounted, Busy
  <1>7. ASSUME NEW d \in Containers, ContainerDies(d) \/ PromptRaises(d) PROVE Accounted(c)'
    <2>1. d = c \/ ~Busy(c)
      BY <1>0, <1>7 DEF TypeOK, SoloInv, ContainerDies, PromptRaises
    <2>2. serves'[c] = 0
      BY <1>0, <1>7, <2>1 DEF TypeOK, ContainerDies, PromptRaises, Busy
    <2> QED BY <2>2 DEF Accounted, Busy
  <1>8. CASE UNCHANGED vars
    BY <1>8 DEF vars, fileVars, callVars, Accounted, Busy
  <1> QED BY <1>1, <1>2, <1>3, <1>4, <1>5, <1>6, <1>7, <1>8 DEF Next, Work

\* What container c has of slug p is on the volume, or lacks a sample that the
\* next call for p will find pending, or is being completed by a call that had
\* samples pending, and will commit.
Saved(c, p) ==
    \/ Parts[p] \cap Ids(view[c]) \subseteq Ids(file)
    \/ ~(Parts[p] \subseteq Ids(view[c]))
    \/ Busy(c) /\ asked[c] # {} /\ part[serves[c]] = p

\* The call that container c executes: what it has left is among the pending
\* samples it began with, and these are the samples of its slug the copy lacked.
Pending(c) ==
    Busy(c) =>
        /\ made[c] \cup todo[c] \subseteq asked[c]
        /\ asked[c] \subseteq Parts[part[serves[c]]]
        /\ Parts[part[serves[c]]] \subseteq Ids(view[c]) \cup asked[c]

Saving(c) == Pending(c) /\ (c \in up => \A p \in DOMAIN Parts : Saved(c, p))

LEMMA SavingCall ==
    ASSUME AppendInv, SoloInv, NEW c \in Containers, Saving(c), NEW a \in Attempts, NEW d \in Containers, Call(a, d)
    PROVE  Saving(c)'
  <1>0. TypeOK /\ 0 \notin Attempts /\ \A e \in Containers : ~Busy(e)
    BY DEF AppendInv, Attempts, SoloInv, Call
  <1>1. /\ up' = {d} /\ UNCHANGED <<file, part>>
        /\ \/ d \in up /\ view' = view
           \/ view'[d] = file
    BY <1>0, SoloCall DEF SoloInv, Call
  <1>2. CASE c = d
    <2>1. /\ serves'[c] = a /\ made'[c] = {} /\ todo'[c] = asked'[c]
          /\ asked'[c] = Parts[part[a]] \ Ids(view'[c])
      BY <1>0, <1>2 DEF AppendInv, Fresh, TypeOK, Call, CompletedIds
    <2>2. Pending(c)'
      BY <1>1, <2>1 DEF Pending
    <2>3. ASSUME NEW p \in DOMAIN Parts PROVE Saved(c, p)'
      <3>1. CASE view'[c] = file
        BY <1>1, <3>1 DEF Saved
      <3>2. CASE c \in up /\ view' = view
        <4>1. Saved(c, p)
          BY <3>2 DEF Saving
        <4> QED BY <1>0, <1>1, <3>2, <4>1 DEF Saved, Ids
      <3> QED BY <1>1, <1>2, <3>1, <3>2
    <2> QED BY <2>2, <2>3 DEF Saving
  <1>3. CASE c # d
    <2>1. ~Busy(c)' /\ c \notin up'
      BY <1>0, <1>1, <1>3 DEF TypeOK, Call, Busy
    <2> QED BY <2>1 DEF Saving, Pending
  <1> QED BY <1>2, <1>3

\* A record appended by a call belongs to its own slug, and to no other.
LEMMA SavingAppend ==
    ASSUME AppendInv, SoloInv, NEW c \in Containers, Saving(c), AppendRecord(c)
    PROVE  Saving(c)'
  <1>0. TypeOK /\ Busy(c) /\ c \in up
    BY DEF AppendInv, Fresh, TypeOK, AppendRecord
  <1>1. PICK s \in made[c] :
          /\ made' = [made EXCEPT ![c] = @ \ {s}]
          /\ Ids(view'[c]) = Ids(view[c]) \cup {s}
    BY AppendAdds
  <1>2. UNCHANGED <<file, serves, asked, todo, part>>
    BY DEF AppendRecord
  <1>3. made'[c] = made[c] \ {s}
    BY <1>0, <1>1 DEF TypeOK
  <1>4. Pending(c)'
    BY <1>0, <1>1, <1>2, <1>3 DEF Saving, Pending, Busy
  <1>5. s \in asked[c] /\ s \in Parts[part[serves[c]]] /\ part[serves[c]] \in DOMAIN Parts
    BY <1>0 DEF Saving, Pending, TypeOK, Busy
  <1>6. ASSUME NEW p \in DOMAIN Parts PROVE Saved(c, p)'
    <2>1. CASE part[serves[c]] = p
      BY <1>0, <1>2, <1>5, <2>1 DEF Saved, Busy
    <2>2. CASE part[serves[c]] # p
      <3>1. s \notin Parts[p]
        BY <1>5, <2>2, IdsAssumption
      <3>2. Saved(c, p)
        BY <1>0 DEF Saving
      <3>3. Parts[p] \cap Ids(view'[c]) = Parts[p] \cap Ids(view[c])
        BY <1>1, <3>1
      <3>4. Ids(file') = Ids(file)
        BY <1>2 DEF Ids
      <3> QED BY <2>2, <3>2, <3>3, <3>4 DEF Saved
    <2> QED BY <2>1, <2>2
  <1> QED BY <1>4, <1>6 DEF Saving

\* A call that ends has committed, or had nothing pending, or raised on a sample
\* of its slug that is not in the copy.
LEMMA SavingEnds ==
    ASSUME AppendInv, SoloInv, NEW c \in Containers, Saving(c),
           Finish(c) \/ PromptRaises(c)
    PROVE  Saving(c)'
  <1>0. TypeOK /\ Busy(c) /\ c \in up
    BY DEF AppendInv, Fresh, TypeOK, Finish, PromptRaises
  <1>1. /\ serves' = [serves EXCEPT ![c] = 0] /\ UNCHANGED <<view, up>>
    BY DEF Finish, Answer, PromptRaises, fileVars
  <1>2. ~Busy(c)'
    BY <1>0, <1>1 DEF TypeOK, Busy
  <1>3. Ids(view'[c]) = Ids(view[c])
    BY <1>1 DEF Ids
  <1>4. ASSUME NEW p \in DOMAIN Parts PROVE Saved(c, p)'
    <2>0. Saved(c, p)
      BY <1>0 DEF Saving
    <2>1. CASE Finish(c) /\ asked[c] # {}
      <3>1. file' = view[c]
        BY <1>0, <2>1 DEF Finish, SoloInv
      <3> QED BY <1>1, <3>1 DEF Saved
    <2>2. CASE Finish(c) /\ asked[c] = {}
      <3>1. file' = file
        BY <2>2 DEF Finish
      <3> QED BY <1>3, <2>0, <2>2, <3>1 DEF Saved, Ids
    <2>3. CASE PromptRaises(c)
      <3>1. PICK s \in todo[c] : TRUE
        BY <2>3 DEF PromptRaises, Promptable, Batch
      <3>2. s \in Parts[part[serves[c]]] /\ s \notin Ids(view[c])
        BY <1>0, <3>1 DEF Saving, Pending, AppendInv, Fresh, Ids
      <3>3. Ids(file') = Ids(file)
        BY <2>3 DEF PromptRaises, fileVars, Ids
      <3> QED BY <1>3, <2>0, <3>2, <3>3 DEF Saved
    <2> QED BY <2>1, <2>2, <2>3
  <1> QED BY <1>2, <1>4 DEF Saving, Pending

LEMMA SavingStep ==
    ASSUME GenInv, [Next]_vars, ~overlapped', NEW c \in Containers, Saving(c)
    PROVE  Saving(c)'
  <1>0. AppendInv /\ TypeOK /\ 0 \notin Attempts /\ SoloInv
    BY SoloStep DEF GenInv, AppendInv, Attempts
  <1>1. ASSUME NEW a \in Attempts, Begin(a) \/ Skip(a) \/ CallerDies(a)
        PROVE Saving(c)'
    BY <1>1 DEF Begin, Skip, CallerDies, fileVars, callVars, Saving, Pending, Saved, Ids, Busy
  <1>2. ASSUME NEW a \in Attempts, NEW d \in Containers, Call(a, d) PROVE Saving(c)'
    BY <1>0, <1>2, SavingCall
  <1>3. ASSUME NEW d \in Containers, Work(d) \/ Commit(d) \/ ContainerDies(d), d # c
        PROVE Saving(c)'
    <2>1. ~Busy(c) /\ (c \in up => ~Work(d) /\ ~Commit(d) /\ ~ContainerDies(d))
      <3>1. d \in up
        BY <1>0, <1>3 DEF Work, Infer, PromptRaises, AppendRecord, Finish, Commit,
                          ContainerDies, TypeOK, AppendInv, Fresh
      <3>2. c \notin up
        BY <1>3, <3>1, <1>0 DEF SoloInv
      <3> QED BY <1>0, <3>2 DEF TypeOK
    <2>2. c \notin up' /\ ~Busy(c)'
      BY <1>0, <1>3, <2>1 DEF Work, Infer, PromptRaises, AppendRecord, Finish, Answer, Commit,
                              ContainerDies, callVars, TypeOK, Busy
    <2> QED BY <2>2 DEF Saving, Pending
  <1>4. CASE Infer(c)
    <2>1. /\ UNCHANGED <<file, view, up, serves, asked, part>>
          /\ made'[c] \cup todo'[c] \subseteq made[c] \cup todo[c]
      BY <1>0, <1>4 DEF Infer, Batch, fileVars, TypeOK
    <2> QED BY <2>1 DEF Saving, Pending, Saved, Ids, Busy
  <1>5. CASE AppendRecord(c)
    BY <1>0, <1>5, SavingAppend
  <1>6. CASE Finish(c) \/ PromptRaises(c)
    BY <1>0, <1>6, SavingEnds
  <1>7. CASE Commit(c)
    BY <1>7 DEF Commit, callVars, Saving, Pending, Saved, Ids, Busy
  <1>8. CASE ContainerDies(c)
    <2>1. c \notin up' /\ ~Busy(c)'
      BY <1>0, <1>8 DEF ContainerDies, TypeOK, Busy
    <2> QED BY <2>1 DEF Saving, Pending
  <1>9. CASE UNCHANGED vars
    BY <1>9 DEF vars, fileVars, callVars, Saving, Pending, Saved, Ids, Busy
  <1> QED BY <1>1, <1>2, <1>3, <1>4, <1>5, <1>6, <1>7, <1>8, <1>9 DEF Next, Work

\* What an attempt is owed is in the file or was dropped in a failed batch.
Delivered(a) == \A p \in Behind(a) : Parts[p] \subseteq Ids(file) \cup dropped[a]

LEMMA DroppedGrows ==
    ASSUME TypeOK, [Next]_vars, NEW a \in Attempts
    PROVE  dropped[a] \subseteq dropped'[a]
  BY DEF TypeOK, Next, Work, vars, Begin, Skip, CallerDies, Call, Infer, AppendRecord,
         Finish, PromptRaises, Commit, ContainerDies

LEMMA DeliveredStep ==
    ASSUME GenInv, [Next]_vars, ~overlapped', caller = "baseline", NEW a \in Attempts,
           Delivered(a), \A c \in Containers : Accounted(c) /\ Saving(c)
    PROVE  Delivered(a)'
  <1>0. TypeOK
    BY DEF GenInv, AppendInv
  <1>1. Ids(file) \cup dropped[a] \subseteq Ids(file') \cup dropped'[a]
    BY <1>0, SoloStep, DroppedGrows
  <1>2. CASE Behind(a)' = Behind(a)
    BY <1>1, <1>2 DEF Delivered
  <1>3. ASSUME NEW c \in Containers, Finish(c), serves[c] = a, phase[a] = "waiting",
               Behind(a)' = Behind(a) \cup {part[a]}
        PROVE Delivered(a)'
    <2>1. Parts[part[a]] \subseteq Ids(view[c]) \cup dropped[a]
      BY <1>3 DEF Accounted, Finish
    <2>2. c \in up /\ SoloInv /\ part[a] \in DOMAIN Parts
      BY <1>0, <1>3, SoloStep DEF TypeOK, Finish
    <2>a. CASE asked[c] # {}
      <3>1. file' = view[c]
        BY <1>3, <2>2, <2>a DEF Finish, SoloInv
      <3> QED BY <1>3, <2>1, <3>1, <1>1 DEF Finish, Delivered
    <2>b. CASE asked[c] = {}
      <3>1. Parts[part[a]] \subseteq Ids(view[c]) /\ Saved(c, part[a])
        BY <1>3, <2>2, <2>b DEF Saving, Pending, Finish
      <3> QED BY <1>1, <1>3, <2>b, <3>1 DEF Saved, Delivered
    <2> QED BY <2>a, <2>b
  <1> QED BY <1>2, <1>3, BehindStep

Covered ==
    caller = "baseline" /\ ~overlapped =>
        /\ \A a \in Attempts : Delivered(a)
        /\ \A c \in Containers : Accounted(c) /\ Saving(c)

LEMMA CoveredStep == GenInv /\ Covered /\ [Next]_vars => Covered'
  <1> SUFFICES ASSUME GenInv, Covered, [Next]_vars, (caller = "baseline" /\ ~overlapped)'
               PROVE  (/\ \A a \in Attempts : Delivered(a)
                       /\ \A c \in Containers : Accounted(c) /\ Saving(c))'
    BY DEF Covered
  <1>1. caller = "baseline" /\ ~overlapped
    <2>1. caller' = caller
      BY DEF Next, Work, vars, Begin, Skip, CallerDies, Call, Infer, AppendRecord,
             Finish, PromptRaises, Commit, ContainerDies
    <2>2. overlapped => overlapped'
      BY DEF Next, Work, vars, Begin, Skip, CallerDies, Call, Infer, AppendRecord,
             Finish, PromptRaises, Commit, ContainerDies
    <2> QED BY <2>1, <2>2
  <1>2. /\ \A a \in Attempts : Delivered(a)
        /\ \A c \in Containers : Accounted(c) /\ Saving(c)
    BY <1>1 DEF Covered
  <1>3. ASSUME NEW a \in Attempts PROVE Delivered(a)'
    BY <1>1, <1>2, DeliveredStep
  <1>4. ASSUME NEW c \in Containers PROVE Accounted(c)' /\ Saving(c)'
    BY <1>2, AccountedStep, SavingStep
  <1> QED BY <1>3, <1>4

LEMMA CoveredInit == Init => Covered
  <1> SUFFICES ASSUME Init PROVE Covered
    OBVIOUS
  <1>1. ASSUME NEW a \in Attempts PROVE Behind(a) = {}
    BY PartsAreSamples DEF Init, Behind
  <1> QED BY <1>1 DEF Covered, Delivered, Accounted, Saving, Pending, Init, Busy

\* An attempt of the baseline that ended well has left every sample of every slug
\* in the committed file, but for the batches that failed in it, and they stay
\* there: through resumes, lost containers and callers, and later attempts, as
\* long as none begins beside a call that still runs.
THEOREM BaselineCoversAllSlugs == Spec => []FullCoverage
  <1>1. GenInv /\ Covered => FullCoverage
    <2> SUFFICES ASSUME GenInv, Covered, caller = "baseline", ~overlapped,
                        NEW a \in Attempts, phase[a] = "ok",
                        NEW p \in 1..Calls
                 PROVE  Parts[p] \subseteq Ids(file) \cup dropped[a]
      BY DEF FullCoverage, Wanted
    <2>1. p \in Behind(a)
      BY PartsAreSamples DEF Behind, Calls
    <2> QED BY <2>1 DEF Covered, Delivered
  <1> QED BY GenInvariant, CoveredInit, CoveredStep, <1>1, PTL DEF Spec

=============================================================================
