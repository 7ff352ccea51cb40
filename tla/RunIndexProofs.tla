---------------------------- MODULE RunIndexProofs ----------------------------
(***************************************************************************)
(* For any runs, containers and number of launches: the types, the order   *)
(* of the index, that a run with a report has a manifest wherever the      *)
(* report is seen, and that what is committed is not taken back.           *)
(*                                                                         *)
(* The last two rest on what a container may still commit (Pending): the   *)
(* manifest of a run is pending only in a container that drives the run,   *)
(* has settled it or failed to launch it, and never as "none"; and on the  *)
(* manifest being on the volume from the baseline's reload on (Begun).     *)
(***************************************************************************)
EXTENDS RunIndex, FiniteSetTheorems, TLAPS

OneDriver == \A c, d \in fleet : c = d

Pending ==
    \A c \in Drivers, r \in Runs : <<c, ManifestFile(r)>> \in dirty =>
        /\ view[c].manifest[r] # "none"
        /\ drives[c] = r \/ <<c, r>> \in raised \/ view[c].manifest[r] \in Settled

Begun ==
    \A c \in Drivers, r \in Runs : drives[c] = r =>
        \/ phase[c] = "launched" /\ <<c, ManifestFile(r)>> \in dirty
        \/ manifest[r] # "none"

Found(copy) == \A r \in Runs : copy.report[r] # {} => copy.manifest[r] # "none"

AllFound == Found(OnVolume) /\ \A c \in Containers : Found(view[c])

Ahead == OneDriver => \A c \in up \cap Drivers : IsPrefix(index, view[c].index)

IInv == TypeOK /\ IndexInOrder /\ Pending /\ Begun /\ AllFound /\ Ahead

-----------------------------------------------------------------------------
(* Lists and copies                                                        *)

LEMMA PrefixReflexive ==
    ASSUME NEW S, NEW s \in Seq(S)
    PROVE  IsPrefix(s, s)
  BY DEF IsPrefix

LEMMA PrefixAppend ==
    ASSUME NEW S, NEW s \in Seq(S), NEW t \in Seq(S), NEW e \in S, IsPrefix(s, t)
    PROVE  IsPrefix(s, Append(t, e))
  <1>1. Len(s) <= Len(t) /\ SubSeq(s, 1, Len(s)) = SubSeq(t, 1, Len(s))
    BY DEF IsPrefix
  <1>2. Len(Append(t, e)) = Len(t) + 1 /\ Len(s) \in Nat /\ Len(t) \in Nat
    OBVIOUS
  <1>3. SubSeq(Append(t, e), 1, Len(s)) = SubSeq(t, 1, Len(s))
    BY <1>1, <1>2
  <1> QED BY <1>1, <1>2, <1>3 DEF IsPrefix

LEMMA CopyTyped ==
    ASSUME TypeOK, NEW c \in Containers
    PROVE  Copy(c) \in Copies /\ OnVolume \in Copies /\ view[c] \in Copies
  BY DEF TypeOK, Copy

LEMMA AppendTyped ==
    ASSUME TypeOK, NEW entries \in Seq(Entries), NEW r \in Runs, launches < MaxLaunches
    PROVE  AppendRun(entries, r) \in Seq(Entries)
  <1>1. launches + 1 \in 1..MaxLaunches
    BY LaunchesBounded DEF TypeOK
  <1> QED BY <1>1 DEF AppendRun, Entries, Statuses

\* One more launch keeps a list chronological, with or without its entry.
LEMMA AppendInOrder ==
    ASSUME TypeOK, NEW entries \in Seq(Entries), NEW r \in Runs, Chronological(entries, launches)
    PROVE  /\ Chronological(entries, launches + 1)
           /\ Chronological(AppendRun(entries, r), launches + 1)
  <1> DEFINE e == [run |-> r, status |-> "started", created_at |-> launches + 1]
             more == Append(entries, e)
  <1>0. \A i \in DOMAIN entries : entries[i] \in Entries
    OBVIOUS
  <1>1. /\ launches \in Nat /\ Len(entries) \in Nat
        /\ \A i \in DOMAIN entries : entries[i].created_at \in Nat
    BY <1>0, LaunchesBounded DEF TypeOK, Entries
  <1>2. /\ DOMAIN entries = 1..Len(entries) /\ DOMAIN more = 1..(Len(entries) + 1)
        /\ \A i \in DOMAIN entries : more[i] = entries[i]
        /\ more[Len(entries) + 1].created_at = launches + 1
    OBVIOUS
  <1> HIDE DEF more
  <1>3. \A i \in DOMAIN more : more[i].created_at <= launches + 1
    BY <1>1, <1>2 DEF Chronological
  <1>4. \A i, j \in DOMAIN more : i < j => more[i].created_at < more[j].created_at
    BY <1>1, <1>2 DEF Chronological
  <1>5. AppendRun(entries, r) = more
    BY DEF AppendRun, more
  <1> QED BY <1>1, <1>3, <1>4, <1>5 DEF Chronological

-----------------------------------------------------------------------------
(* The types                                                               *)

LEMMA TypesBegin == Init => TypeOK
  <1> SUFFICES ASSUME Init PROVE TypeOK
    OBVIOUS
  <1>1. Unseen \in Copies /\ OnVolume \in Copies
    BY DEF Init, Unseen, OnVolume, Copies, Statuses
  <1> QED BY <1>1, LaunchesBounded, ContainersNamed DEF Init, TypeOK

\* run_pipeline returns with a status.
LEMMA ReturnsTyped ==
    ASSUME TypeOK, NEW c \in Drivers, NEW st \in Settled, Returns(c, st), phase[c] # "idle"
    PROVE  TypeOK'
  <1>1. drives[c] \in Runs /\ c \in up /\ c \in Containers
    BY DEF TypeOK, Containers
  <1>2. view[c] \in Copies
    BY <1>1 DEF TypeOK
  <1> DEFINE copy == [view[c] EXCEPT !.manifest[drives[c]] = st]
  <1>3. copy \in Copies
    BY <1>1, <1>2 DEF Copies, Statuses, Settled
  <1> HIDE DEF copy
  <1>4. view' = [view EXCEPT ![c] = copy]
    BY DEF Returns, copy
  <1>5. view' \in [Containers -> Copies] /\ OnVolume' \in Copies
    BY <1>3, <1>4 DEF TypeOK, Returns, OnVolume, volume
  <1>6. dirty' \subseteq (up' \cap Drivers) \X Files
    BY <1>1 DEF TypeOK, Returns, Files
  <1> QED BY <1>5, <1>6 DEF TypeOK, Returns, Idle

LEMMA TypesKept == TypeOK /\ [Next]_vars => TypeOK'
  <1> SUFFICES ASSUME TypeOK, [Next]_vars PROVE TypeOK'
    OBVIOUS
  <1>0. /\ OnVolume \in Copies /\ index \in Seq(Entries) /\ manifest \in [Runs -> Statuses]
        /\ report \in [Runs -> SUBSET (Slugs \cup {Baseline})]
    BY DEF TypeOK, OnVolume, Copies
  <1>1. ASSUME NEW c \in Drivers, NEW r \in Runs, Launch(c, r) PROVE TypeOK'
    <2> DEFINE more == AppendRun(Copy(c).index, r)
               copy == [Copy(c) EXCEPT !.index = more, !.manifest[r] = "started"]
    <2>1. Copy(c) \in Copies /\ c \in Containers
      BY CopyTyped DEF Containers
    <2>2. more \in Seq(Entries)
      BY <1>1, <2>1, AppendTyped DEF Copies, Launch
    <2> HIDE DEF more
    <2>3. copy \in Copies
      BY <2>1, <2>2 DEF Copies, Statuses
    <2> HIDE DEF copy
    <2>4. view' = [view EXCEPT ![c] = copy]
      BY <1>1 DEF Launch, copy, more
    <2>5. view' \in [Containers -> Copies]
      BY <2>3, <2>4 DEF TypeOK
    <2>6. launches' \in 0..MaxLaunches
      BY <1>1, LaunchesBounded DEF TypeOK, Launch
    <2>7. dirty' \subseteq (up' \cap Drivers) \X Files
      BY <1>1 DEF TypeOK, Launch, Files
    <2>8. c \in fleet /\ r # None
      BY <1>1, ContainersNamed DEF Launch, Serves
    <2>9. OnVolume' \in Copies /\ fleet' \in (SUBSET Drivers) \ {{}} /\ answer' \in Answers \cup {None}
      BY <1>1 DEF TypeOK, Launch, OnVolume, volume
    <2> QED BY <1>1, <2>5, <2>6, <2>7, <2>8, <2>9 DEF TypeOK, Launch
  <1>2. ASSUME NEW c \in Drivers, BaselineDone(c) PROVE TypeOK'
    <2>1. view[c] \in Copies /\ c \in Containers
      BY CopyTyped DEF Containers
    <2>2. IndexWith(c) \in Seq(Entries) /\ ManifestWith(c) \in [Runs -> Statuses]
      BY <1>0, <2>1 DEF Copies, IndexWith, ManifestWith
    <2>3. OnVolume' \in Copies /\ view' \in [Containers -> Copies]
      BY <1>0, <1>2, <2>1, <2>2 DEF TypeOK, BaselineDone, OnVolume, Copies
    <2> QED BY <1>2, <2>3 DEF TypeOK, BaselineDone
  <1>3. ASSUME NEW r \in Runs, NEW s \in Slugs, Reported(r, s) PROVE TypeOK'
    <2>1. OnVolume' \in Copies
      BY <1>0, <1>3 DEF Reported, OnVolume, Copies
    <2> QED BY <1>3, <2>1 DEF TypeOK, Reported, driveVars
  <1>4. ASSUME NEW c \in Drivers, Settle(c) \/ NothingToRun(c) PROVE TypeOK'
    <2>1. PICK st \in Settled : Returns(c, st) /\ phase[c] # "idle"
      BY <1>4 DEF Settle, NothingToRun, Settled
    <2> QED BY <2>1, ReturnsTyped
  <1>9. ASSUME NEW c \in Drivers, BaselineRaises(c) PROVE TypeOK'
    <2>1. drives[c] \in Runs /\ c \in up
      BY <1>9 DEF TypeOK, BaselineRaises
    <2>2. OnVolume' \in Copies
      BY <1>0, <1>9 DEF BaselineRaises, OnVolume, volume
    <2> QED BY <1>9, <2>1, <2>2 DEF TypeOK, BaselineRaises, Idle
  <1>5. ASSUME NEW c \in Drivers, NEW f \in Files, Commit(c, f) PROVE TypeOK'
    <2>1. view[c] \in Copies /\ (f # IndexFile => f[2] \in Runs)
      BY CopyTyped DEF Containers, Files, ManifestFile
    <2>2. OnVolume' \in Copies
      BY <1>0, <1>5, <2>1 DEF Commit, OnVolume, Copies
    <2> QED BY <1>5, <2>2 DEF TypeOK, Commit, driveVars
  <1>6. ASSUME NEW c \in Containers, Die(c) PROVE TypeOK'
    <2>1. Unseen \in Copies
      BY DEF Unseen, Copies, Statuses
    <2>2. view' \in [Containers -> Copies] /\ OnVolume' \in Copies
      BY <1>6, <2>1 DEF TypeOK, Die, OnVolume, volume
    <2>3. dirty' \subseteq (up' \cap Drivers) \X Files
      BY <1>6 DEF TypeOK, Die
    <2> QED BY <1>6, <2>2, <2>3 DEF TypeOK, Die
  <1>7. ASSUME NEW c \in Checkers, NEW r \in Runs, Check(c, r) PROVE TypeOK'
    <2>1. Copy(c) \in Copies
      BY CopyTyped DEF Containers
    <2>2. Cardinality(Copy(c).report[r]) \in Nat
      <3>1. IsFiniteSet(Slugs \cup {Baseline})
        BY ContainersNamed, FS_Union, FS_Singleton
      <3>2. Copy(c).report[r] \subseteq Slugs \cup {Baseline}
        BY <2>1 DEF Copies
      <3> QED BY <3>1, <3>2, FS_Subset, FS_CardinalityType
    <2>3. Answer(Copy(c), r) \in Answers
      BY <2>1, <2>2 DEF Answer, Answers, Copies
    <2>4. answer' \in Answers \cup {None}
      BY <1>7, <2>3 DEF Check
    <2>5. view' \in [Containers -> Copies] /\ OnVolume' \in Copies
      BY <1>7, <2>1 DEF TypeOK, Check, OnVolume, volume
    <2> QED BY <1>7, <2>4, <2>5 DEF TypeOK, Check, Serves, driveVars
  <1>8. CASE UNCHANGED vars
    BY <1>8 DEF TypeOK, vars, driveVars, volume, OnVolume
  <1> QED BY <1>1, <1>2, <1>3, <1>4, <1>5, <1>6, <1>7, <1>8, <1>9 DEF Next

-----------------------------------------------------------------------------
(* The invariant                                                           *)

LEMMA InvBegins == Init => IInv
  <1> SUFFICES ASSUME Init PROVE IInv
    OBVIOUS
  <1>1. TypeOK
    BY TypesBegin
  <1>2. IndexInOrder
    BY DEF Init, IndexInOrder, Unseen, Chronological
  <1>3. Pending /\ Begun
    BY ContainersNamed DEF Init, Pending, Begun
  <1>4. AllFound /\ Ahead
    BY DEF Init, AllFound, Found, OnVolume, Unseen, Ahead
  <1> QED BY <1>1, <1>2, <1>3, <1>4 DEF IInv

LEMMA CopyFound ==
    ASSUME IInv, NEW c \in Containers
    PROVE  Found(Copy(c)) /\ Chronological(Copy(c).index, launches)
  BY DEF IInv, AllFound, Copy, IndexInOrder, OnVolume

\* A copy of a driver that is up is ahead of the index, and a new one is.
LEMMA CopyAhead ==
    ASSUME IInv, OneDriver, NEW c \in Drivers
    PROVE  IsPrefix(index, Copy(c).index)
  <1>1. IsPrefix(index, index)
    BY PrefixReflexive DEF IInv, TypeOK, OnVolume, Copies
  <1> QED BY <1>1 DEF IInv, Ahead, Copy, OnVolume

LEMMA LaunchKeeps ==
    ASSUME IInv, NEW c \in Drivers, NEW r \in Runs, Launch(c, r), TypeOK'
    PROVE  IInv'
  <1> DEFINE more == AppendRun(Copy(c).index, r)
             copy == [Copy(c) EXCEPT !.index = more, !.manifest[r] = "started"]
  <1>1. Copy(c) \in Copies /\ c \in Containers /\ TypeOK
    BY CopyTyped DEF IInv, Containers
  <1>2. /\ more \in Seq(Entries) /\ Chronological(more, launches + 1)
        /\ OneDriver => IsPrefix(index, more)
    <2>1. Copy(c).index \in Seq(Entries) /\ index \in Seq(Entries)
      BY <1>1 DEF Copies, TypeOK, OnVolume
    <2>2. more \in Seq(Entries) /\ Chronological(more, launches + 1)
      BY <1>1, <2>1, AppendTyped, AppendInOrder, CopyFound DEF Launch
    <2>3. ASSUME OneDriver PROVE IsPrefix(index, more)
      <3> DEFINE e == [run |-> r, status |-> "started", created_at |-> launches + 1]
      <3>1. e \in Entries
        BY <1>1, LaunchesBounded DEF Launch, TypeOK, Entries, Statuses
      <3> HIDE DEF e
      <3>2. IsPrefix(index, Append(Copy(c).index, e))
        BY <2>1, <2>3, <3>1, CopyAhead, PrefixAppend
      <3> QED BY <3>2 DEF AppendRun, e
    <2> QED BY <2>2, <2>3
  <1> HIDE DEF more
  <1>3. /\ copy \in Copies /\ copy.index = more /\ copy.report = Copy(c).report
        /\ copy.manifest[r] = "started"
        /\ \A q \in Runs \ {r} : copy.manifest[q] = Copy(c).manifest[q]
    BY <1>1, <1>2 DEF Copies, Statuses
  <1> HIDE DEF copy
  <1>4. view' = [view EXCEPT ![c] = copy] /\ view'[c] = copy
    BY <1>1 DEF Launch, copy, more, TypeOK
  <1>5. IndexInOrder'
    <2>1. \A d \in Containers : Chronological(view[d].index, launches + 1)
      BY <1>1, AppendInOrder DEF IInv, IndexInOrder, TypeOK, Copies
    <2>2. Chronological(index, launches + 1)
      BY <1>1, AppendInOrder DEF IInv, IndexInOrder, TypeOK, Copies, OnVolume
    <2>3. launches' = launches + 1 /\ index' = index
      BY DEF Launch, volume
    <2> QED BY <1>1, <1>2, <1>3, <1>4, <2>1, <2>2, <2>3 DEF IndexInOrder, TypeOK
  <1>6. Pending' /\ Begun'
    <2>1. drives[c] = None /\ r # None
      BY <1>1, ContainersNamed DEF Launch, Serves, TypeOK
    <2>2. ASSUME NEW q \in Runs \ {r}, <<c, ManifestFile(q)>> \in dirty'
          PROVE  /\ view'[c].manifest[q] # "none"
                 /\ <<c, q>> \in raised' \/ view'[c].manifest[q] \in Settled
      <3>1. <<c, ManifestFile(q)>> \in dirty
        BY <2>2 DEF Launch, ManifestFile, IndexFile
      <3>2. c \in up
        BY <1>1, <3>1 DEF TypeOK
      <3>3. drives[c] # q
        BY <2>1, ContainersNamed
      <3>4. /\ view[c].manifest[q] # "none"
            /\ <<c, q>> \in raised \/ view[c].manifest[q] \in Settled
        BY <3>1, <3>3 DEF IInv, Pending
      <3>5. <<c, q>> \in raised => <<c, q>> \in raised'
        BY DEF Launch
      <3> QED BY <1>3, <1>4, <3>2, <3>4, <3>5 DEF Copy
    <2>3. \A d \in Drivers \ {c}, q \in Runs :
              <<d, ManifestFile(q)>> \in dirty' <=> <<d, ManifestFile(q)>> \in dirty
      BY DEF Launch
    <2>4. /\ drives' = [drives EXCEPT ![c] = r] /\ phase' = [phase EXCEPT ![c] = "launched"]
          /\ <<c, ManifestFile(r)>> \in dirty' /\ manifest' = manifest
          /\ \A d \in Drivers \ {c} : view'[d] = view[d]
          /\ \A d \in Drivers \ {c}, q \in Runs : <<d, q>> \in raised => <<d, q>> \in raised'
      BY <1>1, <1>4 DEF Launch, volume, TypeOK, Containers
    <2>5. Pending'
      <3> SUFFICES ASSUME NEW d \in Drivers, NEW q \in Runs, <<d, ManifestFile(q)>> \in dirty'
                   PROVE  /\ view'[d].manifest[q] # "none"
                          /\ drives'[d] = q \/ <<d, q>> \in raised' \/ view'[d].manifest[q] \in Settled
        BY DEF Pending, ManifestFile
      <3>1. CASE d = c /\ q = r
        BY <1>1, <1>3, <1>4, <2>4, <3>1 DEF TypeOK
      <3>2. CASE d = c /\ q # r
        BY <2>2, <3>2 DEF Settled
      <3>3. CASE d # c
        BY <1>1, <2>3, <2>4, <3>3 DEF IInv, Pending, TypeOK
      <3> QED BY <3>1, <3>2, <3>3
    <2>6. Begun'
      <3> SUFFICES ASSUME NEW d \in Drivers, NEW q \in Runs, drives'[d] = q
                   PROVE  \/ phase'[d] = "launched" /\ <<d, ManifestFile(q)>> \in dirty'
                          \/ manifest'[q] # "none"
        BY DEF Begun, ManifestFile
      <3>1. CASE d = c
        BY <1>1, <2>4, <3>1 DEF TypeOK
      <3>2. CASE d # c
        BY <1>1, <2>3, <2>4, <3>2 DEF IInv, Begun, TypeOK
      <3> QED BY <3>1, <3>2
    <2> QED BY <2>5, <2>6
  <1>7. AllFound'
    <2>1. Found(copy)
      BY <1>1, <1>3, CopyFound DEF Found
    <2>2. Found(OnVolume)'
      BY DEF IInv, AllFound, Found, Launch, volume, OnVolume
    <2>3. \A d \in Containers : view'[d] = view[d] \/ view'[d] = copy
      BY <1>1, <1>4 DEF TypeOK
    <2> QED BY <2>1, <2>2, <2>3 DEF IInv, AllFound, Found
  <1>8. Ahead'
    BY <1>1, <1>2, <1>3, <1>4 DEF IInv, Ahead, OneDriver, Launch, volume, TypeOK, Containers
  <1> QED BY <1>5, <1>6, <1>7, <1>8 DEF IInv

LEMMA BaselineDoneKeeps ==
    ASSUME IInv, NEW c \in Drivers, BaselineDone(c), TypeOK'
    PROVE  IInv'
  <1>0. /\ TypeOK /\ c \in Containers /\ drives[c] \in Runs /\ c \in up
        /\ view[c] \in Copies /\ index \in Seq(Entries) /\ index' \in Seq(Entries)
    BY CopyTyped DEF IInv, BaselineDone, TypeOK, Containers, OnVolume, Copies
  <1>1. /\ index' \in {index, view[c].index}
        /\ \A r \in Runs : \/ manifest'[r] = manifest[r]
                           \/ <<c, ManifestFile(r)>> \in dirty /\ manifest'[r] = view[c].manifest[r]
        /\ <<c, ManifestFile(drives[c])>> \in dirty =>
             manifest'[drives[c]] = view[c].manifest[drives[c]]
    BY <1>0 DEF BaselineDone, IndexWith, ManifestWith
  <1>2. \A r \in Runs : manifest[r] # "none" => manifest'[r] # "none"
    BY <1>1 DEF IInv, Pending
  <1>3. manifest'[drives[c]] # "none"
    BY <1>0, <1>1, <1>2 DEF IInv, Pending, Begun
  <1>4. /\ view' = [view EXCEPT ![c] = [index |-> index', manifest |-> manifest', report |-> report]]
        /\ view'[c] = [index |-> index', manifest |-> manifest', report |-> report]
        /\ report' = report /\ launches' = launches /\ drives' = drives /\ up' = up /\ fleet' = fleet
        /\ phase' = [phase EXCEPT ![c] = "driving"] /\ raised' = raised
        /\ \A d \in Drivers, r \in Runs : <<d, ManifestFile(r)>> \in dirty' <=>
                <<d, ManifestFile(r)>> \in dirty /\ d # c
    BY <1>0 DEF BaselineDone, TypeOK
  <1>5. IndexInOrder'
    BY <1>0, <1>1, <1>4 DEF IInv, IndexInOrder, TypeOK
  <1>6. Pending'
    <2>1. \A d \in Drivers : d # c => view'[d] = view[d]
      BY <1>0, <1>4 DEF TypeOK, Containers
    <2> QED BY <1>4, <2>1 DEF IInv, Pending, ManifestFile
  <1>7. Begun'
    BY <1>0, <1>2, <1>3, <1>4 DEF IInv, Begun, TypeOK, ManifestFile
  <1>8. AllFound'
    <2>1. Found(OnVolume)' /\ Found(view'[c])
      BY <1>2, <1>4 DEF IInv, AllFound, Found, OnVolume
    <2> QED BY <1>0, <1>4, <2>1 DEF IInv, AllFound, Found, TypeOK
  <1>9. Ahead'
    <2> SUFFICES ASSUME OneDriver, NEW d \in up \cap Drivers PROVE IsPrefix(index', view'[d].index)
      BY <1>4 DEF Ahead, OneDriver
    <2>1. c \in fleet /\ d \in fleet
      BY <1>0, ContainersNamed DEF TypeOK
    <2>2. d = c
      BY <2>1 DEF OneDriver
    <2>3. IsPrefix(index', index')
      BY <1>0, PrefixReflexive
    <2> QED BY <1>4, <2>2, <2>3
  <1> QED BY <1>5, <1>6, <1>7, <1>8, <1>9 DEF IInv

LEMMA ReportedKeeps ==
    ASSUME IInv, NEW r \in Runs, NEW s \in Slugs, Reported(r, s), TypeOK'
    PROVE  IInv'
  <1>1. /\ index' = index /\ manifest' = manifest /\ launches' = launches /\ drives' = drives
        /\ up' = up /\ fleet' = fleet /\ phase' = phase /\ raised' = raised
        /\ view' = view /\ dirty' = dirty /\ report' = [report EXCEPT ![r] = @ \cup {s, Baseline}]
    BY DEF Reported, driveVars
  <1>2. manifest[r] # "none"
    BY DEF IInv, Begun, Reported
  <1>3. report \in [Runs -> SUBSET (Slugs \cup {Baseline})]
    BY DEF IInv, TypeOK, OnVolume, Copies
  <1>4. Found(OnVolume)'
    BY <1>1, <1>2, <1>3 DEF IInv, AllFound, Found, OnVolume
  <1>5. AllFound'
    BY <1>1, <1>4 DEF IInv, AllFound, Found
  <1>6. IndexInOrder' /\ Pending' /\ Begun' /\ Ahead'
    BY <1>1 DEF IInv, IndexInOrder, Pending, Begun, Ahead, OneDriver, ManifestFile
  <1> QED BY <1>5, <1>6 DEF IInv

LEMMA ReturnsKeeps ==
    ASSUME IInv, NEW c \in Drivers, NEW st \in Settled, Returns(c, st), phase[c] # "idle", TypeOK'
    PROVE  IInv'
  <1>0. TypeOK /\ c \in Containers /\ drives[c] \in Runs /\ view[c] \in Copies
    BY CopyTyped DEF IInv, TypeOK, Containers
  <1> DEFINE r == drives[c]
  <1>1. view' = [view EXCEPT ![c].manifest[drives[c]] = st]
    BY DEF Returns
  <1> DEFINE copy == [view[c] EXCEPT !.manifest[r] = st]
  <1>2. /\ copy.index = view[c].index /\ copy.report = view[c].report /\ copy.manifest[r] = st
        /\ \A q \in Runs \ {r} : copy.manifest[q] = view[c].manifest[q]
    BY <1>0 DEF Copies
  <1>3. view' = [view EXCEPT ![c] = copy] /\ view'[c] = copy
    BY <1>0, <1>1 DEF TypeOK
  <1> HIDE DEF copy
  <1>4. /\ index' = index /\ manifest' = manifest /\ report' = report /\ launches' = launches
        /\ up' = up /\ fleet' = fleet /\ raised' = raised
        /\ drives' = [drives EXCEPT ![c] = None] /\ phase' = [phase EXCEPT ![c] = "idle"]
        /\ \A d \in Drivers, q \in Runs :
             <<d, ManifestFile(q)>> \in dirty' => <<d, ManifestFile(q)>> \in dirty \/ (d = c /\ q = r)
        /\ \A d \in Drivers, q \in Runs : <<d, ManifestFile(q)>> \in dirty => <<d, ManifestFile(q)>> \in dirty'
    BY DEF Returns, Idle, volume, ManifestFile
  <1>5. st # "none" /\ r # None
    BY <1>0, ContainersNamed DEF Settled
  <1>6. IndexInOrder' /\ Ahead'
    BY <1>0, <1>2, <1>3, <1>4 DEF IInv, IndexInOrder, Ahead, OneDriver, TypeOK, Containers
  <1>7. AllFound'
    <2>1. Found(copy)
      BY <1>0, <1>2, <1>5 DEF IInv, AllFound, Found
    <2> QED BY <1>0, <1>3, <1>4, <2>1 DEF IInv, AllFound, Found, OnVolume, TypeOK
  <1>8. Pending'
    <2> SUFFICES ASSUME NEW d \in Drivers, NEW q \in Runs, <<d, ManifestFile(q)>> \in dirty'
                 PROVE  /\ view'[d].manifest[q] # "none"
                        /\ drives'[d] = q \/ <<d, q>> \in raised' \/ view'[d].manifest[q] \in Settled
      BY DEF Pending, ManifestFile
    <2>1. CASE d = c /\ q = r
      BY <1>1, <1>2, <1>3, <1>5, <2>1
    <2>2. CASE d = c /\ q # r
      <3>1. <<c, ManifestFile(q)>> \in dirty /\ drives[c] # q
        BY <1>4, <2>2
      <3> QED BY <1>2, <1>3, <1>4, <2>2, <3>1 DEF IInv, Pending
    <2>3. CASE d # c
      <3>1. view'[d] = view[d] /\ drives'[d] = drives[d] /\ <<d, ManifestFile(q)>> \in dirty
        BY <1>0, <1>3, <1>4, <2>3 DEF TypeOK, Containers
      <3> QED BY <1>4, <3>1 DEF IInv, Pending
    <2> QED BY <2>1, <2>2, <2>3
  <1>9. Begun'
    <2> SUFFICES ASSUME NEW d \in Drivers, NEW q \in Runs, drives'[d] = q
                 PROVE  \/ phase'[d] = "launched" /\ <<d, ManifestFile(q)>> \in dirty'
                        \/ manifest'[q] # "none"
      BY DEF Begun, ManifestFile
    <2>1. d # c /\ drives[d] = q /\ phase'[d] = phase[d]
      BY <1>0, <1>4, ContainersNamed DEF TypeOK
    <2> QED BY <1>4, <2>1 DEF IInv, Begun
  <1> QED BY <1>6, <1>7, <1>8, <1>9 DEF IInv

LEMMA BaselineRaisesKeeps ==
    ASSUME IInv, NEW c \in Drivers, BaselineRaises(c), TypeOK'
    PROVE  IInv'
  <1>0. TypeOK /\ drives[c] \in Runs
    BY DEF IInv, BaselineRaises, TypeOK
  <1>1. /\ index' = index /\ manifest' = manifest /\ report' = report /\ launches' = launches
        /\ up' = up /\ fleet' = fleet /\ view' = view /\ dirty' = dirty
        /\ raised' = raised \cup {<<c, drives[c]>>}
        /\ drives' = [drives EXCEPT ![c] = None] /\ phase' = [phase EXCEPT ![c] = "idle"]
    BY DEF BaselineRaises, Idle, volume
  <1>2. IndexInOrder' /\ AllFound' /\ Ahead'
    BY <1>1 DEF IInv, IndexInOrder, AllFound, Found, OnVolume, Ahead, OneDriver
  <1>3. Pending'
    <2> SUFFICES ASSUME NEW d \in Drivers, NEW q \in Runs, <<d, ManifestFile(q)>> \in dirty'
                 PROVE  /\ view'[d].manifest[q] # "none"
                        /\ drives'[d] = q \/ <<d, q>> \in raised' \/ view'[d].manifest[q] \in Settled
      BY DEF Pending, ManifestFile
    <2>1. /\ view[d].manifest[q] # "none"
          /\ drives[d] = q \/ <<d, q>> \in raised \/ view[d].manifest[q] \in Settled
      BY <1>1 DEF IInv, Pending
    <2>2. drives[d] = q => drives'[d] = q \/ <<d, q>> \in raised'
      BY <1>0, <1>1 DEF TypeOK
    <2> QED BY <1>1, <2>1, <2>2
  <1>4. Begun'
    <2> SUFFICES ASSUME NEW d \in Drivers, NEW q \in Runs, drives'[d] = q
                 PROVE  \/ phase'[d] = "launched" /\ <<d, ManifestFile(q)>> \in dirty'
                        \/ manifest'[q] # "none"
      BY DEF Begun, ManifestFile
    <2>1. d # c /\ drives[d] = q /\ phase'[d] = phase[d]
      BY <1>0, <1>1, ContainersNamed DEF TypeOK
    <2> QED BY <1>1, <2>1 DEF IInv, Begun
  <1> QED BY <1>2, <1>3, <1>4 DEF IInv

LEMMA CommitKeeps ==
    ASSUME IInv, NEW c \in Drivers, NEW f \in Files, Commit(c, f), TypeOK'
    PROVE  IInv'
  <1>0. /\ TypeOK /\ c \in Containers /\ c \in up /\ view[c] \in Copies /\ index \in Seq(Entries)
        /\ manifest \in [Runs -> Statuses]
    BY CopyTyped DEF IInv, Commit, TypeOK, Containers, OnVolume, Copies
  <1>1. /\ report' = report /\ launches' = launches /\ drives' = drives
        /\ up' = up /\ fleet' = fleet /\ phase' = phase /\ view' = view /\ raised' = raised
        /\ dirty' = dirty \ {<<c, f>>}
    BY DEF Commit, driveVars
  <1>2. index' = index \/ index' = view[c].index
    BY DEF Commit
  <1>3. \A r \in Runs : \/ manifest'[r] = manifest[r] /\ f # ManifestFile(r)
                        \/ f = ManifestFile(r) /\ manifest'[r] = view[c].manifest[r]
    BY <1>0 DEF Commit, Files, IndexFile, ManifestFile
  <1>4. \A r \in Runs : /\ manifest[r] # "none" => manifest'[r] # "none"
                        /\ f = ManifestFile(r) => manifest'[r] # "none"
    BY <1>3 DEF IInv, Pending, Commit
  <1>5. IndexInOrder'
    BY <1>0, <1>1, <1>2 DEF IInv, IndexInOrder
  <1>6. Pending'
    BY <1>1 DEF IInv, Pending, ManifestFile
  <1>7. Begun'
    <2> SUFFICES ASSUME NEW d \in Drivers, NEW r \in Runs, drives'[d] = r
                 PROVE  \/ phase'[d] = "launched" /\ <<d, ManifestFile(r)>> \in dirty'
                        \/ manifest'[r] # "none"
      BY DEF Begun, ManifestFile
    <2>1. CASE manifest[r] # "none"
      BY <1>4, <2>1
    <2>2. CASE phase[d] = "launched" /\ <<d, ManifestFile(r)>> \in dirty
      BY <1>1, <1>4, <2>2
    <2> QED BY <1>1, <2>1, <2>2 DEF IInv, Begun
  <1>8. AllFound'
    <2>1. Found(OnVolume)'
      BY <1>1, <1>4 DEF IInv, AllFound, Found, OnVolume
    <2> QED BY <1>1, <2>1 DEF IInv, AllFound, Found
  <1>9. Ahead'
    <2> SUFFICES ASSUME OneDriver, NEW d \in up \cap Drivers PROVE IsPrefix(index', view[d].index)
      BY <1>1 DEF Ahead, OneDriver
    <2>1. d = c
      BY <1>0, ContainersNamed DEF TypeOK, OneDriver
    <2>2. IsPrefix(index, view[c].index) /\ IsPrefix(view[c].index, view[c].index)
      BY <1>0, PrefixReflexive DEF IInv, Ahead, Copies
    <2> QED BY <1>2, <2>1, <2>2
  <1> QED BY <1>5, <1>6, <1>7, <1>8, <1>9 DEF IInv

LEMMA DieKeeps ==
    ASSUME IInv, NEW c \in Containers, Die(c), TypeOK'
    PROVE  IInv'
  <1>0. TypeOK
    BY DEF IInv
  <1>1. /\ index' = index /\ manifest' = manifest /\ report' = report /\ launches' = launches
        /\ fleet' = fleet /\ up' = up \ {c}
        /\ view' = [view EXCEPT ![c] = Unseen]
        /\ \A d \in Drivers, r \in Runs : <<d, ManifestFile(r)>> \in dirty' <=>
               <<d, ManifestFile(r)>> \in dirty /\ d # c
        /\ \A d \in Drivers : d # c => drives'[d] = drives[d] /\ phase'[d] = phase[d]
        /\ \A d \in Drivers : d = c => drives'[d] = None
        /\ \A d \in Drivers, r \in Runs : <<d, r>> \in raised' <=> <<d, r>> \in raised /\ d # c
    BY DEF Die, volume
  <1>2. Chronological(Unseen.index, launches) /\ Found(Unseen)
    BY DEF Chronological, Found, Unseen
  <1>3. \A d \in Containers : view'[d] = IF d = c THEN Unseen ELSE view[d]
    BY <1>0, <1>1 DEF TypeOK
  <1>4. IndexInOrder'
    BY <1>1, <1>2, <1>3 DEF IInv, IndexInOrder
  <1>5. AllFound'
    BY <1>1, <1>2, <1>3 DEF IInv, AllFound, Found, OnVolume
  <1>6. Ahead'
    BY <1>1, <1>3 DEF IInv, Ahead, OneDriver, Containers
  <1>7. Pending'
    <2>1. \A d \in Drivers : d # c => view'[d] = view[d]
      BY <1>3 DEF Containers
    <2> QED BY <1>1, <2>1 DEF IInv, Pending, ManifestFile
  <1>8. Begun'
    <2> SUFFICES ASSUME NEW d \in Drivers, NEW r \in Runs, drives'[d] = r
                 PROVE  \/ phase'[d] = "launched" /\ <<d, ManifestFile(r)>> \in dirty'
                        \/ manifest'[r] # "none"
      BY DEF Begun, ManifestFile
    <2>1. d # c
      BY <1>1, ContainersNamed
    <2> QED BY <1>1, <2>1 DEF IInv, Begun
  <1> QED BY <1>4, <1>5, <1>6, <1>7, <1>8 DEF IInv

LEMMA CheckKeeps ==
    ASSUME IInv, NEW c \in Checkers, NEW r \in Runs, Check(c, r), TypeOK'
    PROVE  IInv'
  <1>1. /\ index' = index /\ manifest' = manifest /\ report' = report /\ launches' = launches
        /\ fleet' = fleet /\ up' = up \cup {c} /\ drives' = drives /\ phase' = phase /\ dirty' = dirty
        /\ raised' = raised
        /\ view' = [view EXCEPT ![c] = Copy(c)]
    BY DEF Check, volume, driveVars
  <1>2. c \in Containers /\ c \notin Drivers /\ view \in [Containers -> Copies]
    BY ContainersNamed DEF Containers, IInv, TypeOK
  <1> DEFINE copy == Copy(c)
  <1>3. Found(copy) /\ Chronological(copy.index, launches)
    BY <1>2, CopyFound
  <1> HIDE DEF copy
  <1>4. view' = [view EXCEPT ![c] = copy]
    BY <1>1 DEF copy
  <1>5. IndexInOrder' /\ AllFound'
    BY <1>1, <1>2, <1>3, <1>4 DEF IInv, IndexInOrder, AllFound, Found, OnVolume
  <1>6. \A d \in Drivers : view'[d] = view[d]
    BY <1>2, <1>4 DEF Containers
  <1>7. Pending' /\ Begun' /\ Ahead'
    BY <1>1, <1>2, <1>6 DEF IInv, Pending, Begun, Ahead, OneDriver, ManifestFile
  <1> QED BY <1>5, <1>7 DEF IInv

LEMMA InvKept == IInv /\ [Next]_vars => IInv'
  <1> SUFFICES ASSUME IInv, [Next]_vars PROVE IInv'
    OBVIOUS
  <1>1. TypeOK'
    BY TypesKept DEF IInv
  <1>2. CASE UNCHANGED vars
    BY <1>2 DEF IInv, TypeOK, IndexInOrder, Pending, Begun, AllFound, Found, Ahead, OneDriver,
       OnVolume, ManifestFile, vars, driveVars, volume
  <1>3. ASSUME NEW c \in Drivers, Settle(c) \/ NothingToRun(c) PROVE IInv'
    <2>1. PICK st \in Settled : Returns(c, st) /\ phase[c] # "idle"
      BY <1>3 DEF Settle, NothingToRun, Settled
    <2> QED BY <1>1, <2>1, ReturnsKeeps
  <1> QED BY <1>1, <1>2, <1>3, LaunchKeeps, BaselineDoneKeeps, BaselineRaisesKeeps, ReportedKeeps,
             CommitKeeps, DieKeeps, CheckKeeps DEF Next

LEMMA InvHolds == Spec => []IInv
  BY InvBegins, InvKept, PTL DEF Spec

-----------------------------------------------------------------------------
(* The theorems                                                            *)

\* Every variable keeps its type; only running containers hold uncommitted files
\* or drive a run.
THEOREM IndexTypeCorrect == Spec => []TypeOK
  <1>1. IInv => TypeOK
    BY DEF IInv
  <1> QED BY <1>1, InvHolds, PTL

\* The index has at most one entry per launch, oldest first, in every copy.
THEOREM IndexKeepsOrder == Spec => []IndexInOrder
  <1>1. IInv => IndexInOrder
    BY DEF IInv
  <1> QED BY <1>1, InvHolds, PTL

\* A run whose report a container sees has a manifest there.
THEOREM ReportsAreFound == Spec => []ReportedIsFound
  <1>1. IInv => ReportedIsFound
    BY DEF IInv, TypeOK, AllFound, Found, OnVolume, ReportedIsFound, Containers
  <1> QED BY <1>1, InvHolds, PTL

\* A committed status goes back only by the late manifest of a launch that is
\* still going or that raised, and one driver loses no entry of the index.
THEOREM CommittedStays == Spec => NothingTakenBack
  <1> DEFINE Stays ==
        /\ \A r \in Runs : Rank(manifest'[r]) < Rank(manifest[r]) => \E c \in Drivers : MayTakeBack(c, r)
        /\ (\A c, d \in fleet : c = d) => IsPrefix(index, index')
  <1>1. IInv /\ [Next]_vars => [Stays]_vars
    <2> SUFFICES ASSUME IInv, Next PROVE Stays
      OBVIOUS
    <2>0. /\ manifest \in [Runs -> Statuses] /\ index \in Seq(Entries)
          /\ \A st \in Statuses : Rank(st) \in 0..2
      BY DEF IInv, TypeOK, OnVolume, Copies, Rank
    <2>1. ASSUME index' = index, manifest' = manifest PROVE Stays
      <3>1. \A r \in Runs : ~(Rank(manifest'[r]) < Rank(manifest[r]))
        BY <2>0, <2>1
      <3> QED BY <2>0, <2>1, <3>1, PrefixReflexive
    <2>2. ASSUME NEW c \in Drivers, c \in up,
                 index' \in {index, view[c].index},
                 \A r \in Runs : \/ manifest'[r] = manifest[r]
                                 \/ <<c, ManifestFile(r)>> \in dirty /\ manifest'[r] = view[c].manifest[r]
          PROVE  Stays
      <3>1. ASSUME NEW r \in Runs, Rank(manifest'[r]) < Rank(manifest[r])
            PROVE  MayTakeBack(c, r)
        <4>1. manifest'[r] # manifest[r]
          BY <2>0, <3>1
        <4>2. SUFFICES ASSUME manifest'[r] \in Settled PROVE FALSE
          BY <2>2, <4>1 DEF IInv, Pending, MayTakeBack
        <4>3. Rank(manifest'[r]) = 2 /\ Rank(manifest[r]) \in 0..2
          BY <2>0, <4>2 DEF Rank, Settled
        <4> QED BY <3>1, <4>3
      <3>2. ASSUME \A d, e \in fleet : d = e PROVE IsPrefix(index, index')
        <4>1. IsPrefix(index, index) /\ IsPrefix(index, view[c].index)
          BY <2>0, <2>2, <3>2, PrefixReflexive DEF IInv, Ahead, OneDriver
        <4> QED BY <2>2, <4>1
      <3> QED BY <3>1, <3>2
    <2>3. ASSUME NEW c \in Drivers, BaselineDone(c) PROVE Stays
      <3>1. c \in up
        BY <2>3 DEF IInv, TypeOK, BaselineDone
      <3>2. /\ index' \in {index, view[c].index}
            /\ \A r \in Runs : \/ manifest'[r] = manifest[r]
                               \/ <<c, ManifestFile(r)>> \in dirty /\ manifest'[r] = view[c].manifest[r]
        BY <2>3 DEF BaselineDone, IndexWith, ManifestWith
      <3> QED BY <2>2, <3>1, <3>2
    <2>4. ASSUME NEW c \in Drivers, NEW f \in Files, Commit(c, f) PROVE Stays
      <3>1. c \in up
        BY <2>4 DEF IInv, TypeOK, Commit
      <3>2. /\ index' \in {index, view[c].index}
            /\ \A r \in Runs : \/ manifest'[r] = manifest[r]
                               \/ <<c, ManifestFile(r)>> \in dirty /\ manifest'[r] = view[c].manifest[r]
        <4>1. CASE f = IndexFile
          BY <2>4, <4>1 DEF Commit
        <4>2. ASSUME NEW r \in Runs, f = ManifestFile(r)
              PROVE  /\ index' = index
                     /\ <<c, ManifestFile(r)>> \in dirty
                     /\ manifest' = [manifest EXCEPT ![r] = view[c].manifest[r]]
          BY <2>4, <4>2 DEF Commit, IndexFile, ManifestFile
        <4> QED BY <2>0, <4>1, <4>2 DEF Files
      <3> QED BY <2>2, <3>1, <3>2
    <2> QED BY <2>1, <2>3, <2>4 DEF Next, Launch, Reported, Settle, NothingToRun, Returns,
           BaselineRaises, Die, Check, volume
  <1> QED BY <1>1, InvHolds, PTL DEF Spec, NothingTakenBack

=============================================================================
