-------------------------- MODULE MetricFilesProofs --------------------------
(***************************************************************************)
(* For any languages, metrics, containers and number of attempts: the      *)
(* types, that a start of a call leaves one record per metric at most, and *)
(* that the committed records of a language scored once stay.              *)
(*                                                                         *)
(* Both rest on what a file may hold (Proper): records of its own outputs, *)
(* none of a start that has not been, those of one call in the order of    *)
(* its starts; and on the present start of a call not being in the copy it *)
(* is about to be written to (Fresh).                                      *)
(***************************************************************************)
EXTENDS MetricFiles, SequenceTheorems, FiniteSetTheorems, TLAPS

Begun == {r \in Records : r[2] <= starts[r[1]]}

\* The record that the call in container c writes.
Mine(c) == <<serves[c], starts[serves[c]]>>

InStartOrder(list) ==
    \A i, j \in DOMAIN list : i < j /\ list[i][1] = list[j][1] => list[i][2] < list[j][2]

\* What a copy of the metric files may hold.
Proper(copy) ==
    \A f \in Files :
        /\ InStartOrder(copy[f])
        /\ \A i \in DOMAIN copy[f] : copy[f][i] \in Begun /\ copy[f][i][1][2] = f[2]

AllProper == Proper(files) /\ \A c \in Containers : Proper(view[c].files)

\* A call is in one container at most, which runs.
OneServer ==
    \A c \in Containers : Busy(c) =>
        /\ c \in up
        /\ \A d \in Containers : serves[d] = serves[c] => d = c

Fresh ==
    \A c \in Containers : Busy(c) => \A m \in todo[c] :
        LET list == view[c].files[<<m, serves[c][2]>>] IN
        \A i \in DOMAIN list : list[i] # Mine(c)

\* Uncommitted files have records.
Written == \A d \in dirty : view[d[1]].files[d[2]] # <<>>

Attempted == \A k \in Calls : status[k] # "none" => k[3] <= attempts[k[1]]

\* A call that runs has been started, and one that waits may still be.
Started ==
    \A k \in Calls :
        /\ status[k] \in {"none", "queued"} => starts[k] < MaxStarts
        /\ status[k] = "none" => starts[k] = 0
        /\ status[k] = "running" => starts[k] >= 1

IInv == TypeOK /\ AllProper /\ OneServer /\ Fresh /\ Written /\ Attempted /\ Started

-----------------------------------------------------------------------------
(* Calls and files                                                         *)

LEMMA CallParts ==
    ASSUME NEW k \in Calls
    PROVE  /\ k[1] \in Slugs /\ k[2] \in Owners /\ k[3] \in 1..MaxAttempts
           /\ k[2] \in {k[1], Baseline} /\ k = <<k[1], k[2], k[3]>> /\ k # None
           /\ \A m \in Metrics : <<m, k[2]>> \in Files /\ FileOf(m, k[2]) = <<m, k[2]>>
  BY SlugsNamed, SettingsNamed DEF Calls, Owners, Files, FileOf

LEMMA MineIsRecord ==
    ASSUME IInv, NEW c \in Containers, Busy(c)
    PROVE  /\ serves[c] \in Calls /\ c \in up /\ status[serves[c]] = "running"
           /\ Mine(c) \in Records /\ Mine(c) \in Begun
           /\ Mine(c)[1] = serves[c] /\ Mine(c)[2] = starts[serves[c]]
  <1>1. serves[c] \in Calls /\ c \in up /\ status[serves[c]] = "running"
    BY DEF IInv, TypeOK, OneServer, Busy
  <1>2. starts[serves[c]] \in 1..MaxStarts
    BY <1>1, SettingsNamed DEF IInv, TypeOK, Started
  <1> QED BY <1>1, <1>2 DEF Mine, Records, Begun

\* A list that gains the record of a start, of which it has none, and no later.
LEMMA RecordAdded ==
    ASSUME NEW list \in Seq(Records), NEW k \in Records, InStartOrder(list),
           \A i \in DOMAIN list : list[i] # k /\ (list[i][1] = k[1] => list[i][2] <= k[2])
    PROVE  /\ Append(list, k) \in Seq(Records) /\ Append(list, k) # <<>>
           /\ InStartOrder(Append(list, k))
           /\ \A i \in DOMAIN Append(list, k) : Append(list, k)[i] = k \/ \E j \in DOMAIN list : Append(list, k)[i] = list[j]
  <1> DEFINE more == Append(list, k)
  <1>1. /\ more \in Seq(Records) /\ more # <<>> /\ Len(more) = Len(list) + 1 /\ Len(list) \in Nat
        /\ \A i \in 1..Len(list) : more[i] = list[i]
        /\ more[Len(list) + 1] = k
    BY AppendProperties
  <1>2. DOMAIN list = 1..Len(list) /\ DOMAIN more = 1..(Len(list) + 1)
    BY <1>1
  <1> HIDE DEF more
  <1>3. \A i \in DOMAIN more : i \in 1..Len(list) \/ i = Len(list) + 1
    BY <1>1, <1>2
  <1>4. InStartOrder(more)
    <2> SUFFICES ASSUME NEW i \in DOMAIN more, NEW j \in DOMAIN more, i < j,
                        more[i][1] = more[j][1]
                 PROVE  more[i][2] < more[j][2]
      BY DEF InStartOrder
    <2>1. i \in 1..Len(list) /\ more[i] = list[i]
      BY <1>1, <1>2, <1>3
    <2>2. CASE j \in 1..Len(list)
      BY <1>1, <1>2, <2>1, <2>2 DEF InStartOrder
    <2>3. CASE j = Len(list) + 1
      <3>1. list[i] \in Records /\ list[i] # k /\ list[i][1] = k[1] /\ list[i][2] <= k[2]
        BY <1>1, <1>2, <2>1, <2>3
      <3>2. list[i] = <<list[i][1], list[i][2]>> /\ k = <<k[1], k[2]>>
            /\ list[i][2] \in Nat /\ k[2] \in Nat
        BY <3>1 DEF Records
      <3>3. list[i][2] # k[2]
        BY <3>1, <3>2
      <3> QED BY <1>1, <2>1, <2>3, <3>1, <3>2, <3>3
    <2> QED BY <1>3, <2>2, <2>3
  <1>5. \A i \in DOMAIN more : more[i] = k \/ \E j \in DOMAIN list : more[i] = list[j]
    BY <1>1, <1>2, <1>3
  <1> QED BY <1>1, <1>4, <1>5 DEF more

LEMMA ProperStays ==
    ASSUME NEW copy, Proper(copy), Begun \subseteq Begun'
    PROVE  \A f \in Files :
             /\ InStartOrder(copy[f])
             /\ \A i \in DOMAIN copy[f] : copy[f][i] \in Begun' /\ copy[f][i][1][2] = f[2]
  BY DEF Proper

\* Calls that have begun stay so.
LEMMA AllProperStays ==
    ASSUME AllProper, Begun \subseteq Begun', UNCHANGED <<files, view>>
    PROVE  AllProper'
  BY DEF AllProper, Proper

-----------------------------------------------------------------------------
(* The steps                                                               *)

LEMMA InvBegins == Init => IInv
  <1> SUFFICES ASSUME Init PROVE IInv
    OBVIOUS
  <1>1. NoFiles \in Copies /\ \A f \in Files : NoFiles[f] = <<>>
    BY DEF NoFiles, Copies
  <1>2. InStartOrder(<<>>) /\ DOMAIN <<>> = {}
    BY DEF InStartOrder
  <1>3. AllProper
    BY <1>1, <1>2 DEF Init, AllProper, Proper, Unseen
  <1>4. \A k \in Calls : k # None
    BY CallParts
  <1>5. TypeOK
    BY <1>1, <1>4, SettingsNamed DEF Init, TypeOK, Unseen
  <1>6. Started
    BY SettingsNamed DEF Init, Started
  <1> QED BY <1>3, <1>5, <1>6 DEF Init, IInv, OneServer, Fresh, Busy, Written, Attempted

\* Steps of advance() that call nothing.
LEMMA LanguageKeeps ==
    ASSUME IInv, NEW s \in Slugs, OutputsCommitted(s) \/ Pass(s) \/ Fail(s) \/ CallerDies(s)
    PROVE  IInv'
  <1>1. /\ UNCHANGED <<setting, files, workVars, status, attempts>>
        /\ outputs' \in SUBSET Slugs
        /\ stage' \in [Slugs -> {"inference", "ready", "scoring", "passed"}]
    BY DEF IInv, TypeOK, OutputsCommitted, Pass, Fail, CallerDies
  <1>2. TypeOK'
    BY <1>1 DEF IInv, TypeOK, workVars
  <1>3. AllProper'
    BY <1>1, AllProperStays DEF IInv, Begun, Records, workVars
  <1> QED BY <1>1, <1>2, <1>3 DEF IInv, OneServer, Fresh, Busy, Mine, Written, Attempted,
                                         Started, workVars

LEMMA SpawnKeeps ==
    ASSUME IInv, NEW s \in Slugs, Spawn(s)
    PROVE  IInv'
  <1>1. /\ UNCHANGED <<setting, outputs, files, up, view, dirty, serves, todo, starts>>
        /\ setting.attempts \in [Slugs -> 0..MaxAttempts] /\ MaxAttempts \in Nat
        /\ attempts \in [Slugs -> 0..MaxAttempts]
        /\ attempts' = [attempts EXCEPT ![s] = @ + 1] /\ attempts[s] < setting.attempts[s]
    BY SettingsNamed DEF IInv, TypeOK, Spawn, workVars
  <1>2. attempts' \in [Slugs -> 0..MaxAttempts] /\ \A t \in Slugs : attempts[t] <= attempts'[t]
    BY <1>1
  <1>3. \A k \in Calls : /\ k[1] = s /\ k[3] = attempts'[s] => status[k] = "none" /\ status'[k] = "queued"
                         /\ ~(k[1] = s /\ k[3] = attempts'[s]) => status'[k] = status[k]
    <2>1. ASSUME NEW k \in Calls, k[1] = s, k[3] = attempts'[s] PROVE status[k] = "none"
      <3>1. ~(k[3] <= attempts[k[1]])
        BY <1>1, <2>1
      <3> QED BY <3>1 DEF IInv, Attempted
    <2> QED BY <2>1 DEF Spawn
  <1>4. status' \in [Calls -> {"none", "queued", "running", "returned", "raised"}]
    BY DEF IInv, TypeOK, Spawn
  <1>5. stage' \in [Slugs -> {"inference", "ready", "scoring", "passed"}]
    BY DEF IInv, TypeOK, Spawn
  <1>6. \A k \in Calls : status'[k] = "running" <=> status[k] = "running"
    BY <1>3
  <1>7. TypeOK'
    BY <1>1, <1>2, <1>4, <1>5, <1>6 DEF IInv, TypeOK
  <1>8. Begun \subseteq Begun'
    BY <1>1 DEF Begun
  <1>9. AllProper'
    BY <1>1, <1>8, AllProperStays DEF IInv
  <1>10. Attempted'
    <2> SUFFICES ASSUME NEW k \in Calls, status'[k] # "none" PROVE k[3] <= attempts'[k[1]]
      BY DEF Attempted
    <2>1. k[1] \in Slugs /\ k[3] \in Nat
      BY CallParts, <1>1
    <2>2. CASE k[1] = s /\ k[3] = attempts'[s]
      BY <1>2, <2>1, <2>2
    <2>3. CASE ~(k[1] = s /\ k[3] = attempts'[s])
      <3>1. k[3] <= attempts[k[1]] /\ attempts[k[1]] <= attempts'[k[1]]
        BY <1>2, <1>3, <2>1, <2>3 DEF IInv, Attempted
      <3> QED BY <1>1, <1>2, <2>1, <3>1
    <2> QED BY <2>2, <2>3
  <1>11. Started'
    BY <1>1, <1>3 DEF IInv, Started
  <1> QED BY <1>1, <1>7, <1>9, <1>10, <1>11 DEF IInv, OneServer, Fresh, Busy, Mine, Written

LEMMA TakeKeeps ==
    ASSUME IInv, NEW c \in Containers, NEW k \in Calls, Take(c, k)
    PROVE  IInv'
  <1> DEFINE copy == view'[c].files
  <1>1. /\ UNCHANGED <<setting, outputs, files, dirty, stage, attempts>>
        /\ up' = up \cup {c} /\ ~Busy(c) /\ status[k] = "queued"
        /\ serves' = [serves EXCEPT ![c] = k] /\ status' = [status EXCEPT ![k] = "running"]
        /\ starts' = [starts EXCEPT ![k] = @ + 1]
        /\ todo'[c] \subseteq Metrics /\ \A d \in Containers \ {c} : todo'[d] = todo[d]
        /\ todo' \in [Containers -> SUBSET Metrics]
    BY DEF IInv, TypeOK, Take
  <1>2. /\ view' \in [Containers -> [outputs : SUBSET Slugs, files : Copies]]
        /\ copy = files \/ copy = view[c].files
        /\ c \in up => copy = view[c].files
        /\ \A d \in Containers \ {c} : view'[d] = view[d]
    BY DEF IInv, TypeOK, Take
  <1>3. /\ \A d \in Containers : serves'[d] = IF d = c THEN k ELSE serves[d]
        /\ \A q \in Calls : status'[q] = IF q = k THEN "running" ELSE status[q]
        /\ serves' \in [Containers -> Calls \cup {None}]
        /\ status' \in [Calls -> {"none", "queued", "running", "returned", "raised"}]
    BY <1>1 DEF IInv, TypeOK
  <1>s. /\ starts[k] \in 0..(MaxStarts - 1) /\ MaxStarts \in Nat
        /\ starts' \in [Calls -> 0..MaxStarts]
        /\ \A q \in Calls : starts'[q] = IF q = k THEN starts[k] + 1 ELSE starts[q]
    <2>1. starts[k] \in 0..MaxStarts /\ starts[k] < MaxStarts /\ MaxStarts \in Nat
      BY <1>1, SettingsNamed DEF IInv, TypeOK, Started
    <2> QED BY <1>1, <2>1 DEF IInv, TypeOK
  <1> HIDE DEF copy
  <1>4. \A d \in Containers : serves[d] # k
    <2> SUFFICES ASSUME NEW d \in Containers, serves[d] = k PROVE FALSE
      OBVIOUS
    <2>1. d \in up
      BY CallParts DEF IInv, OneServer, Busy
    <2> QED BY <1>1, <2>1 DEF IInv, TypeOK
  <1>5. TypeOK'
    <2>1. ASSUME NEW q \in Calls PROVE status'[q] = "running" <=> \E d \in up' : serves'[d] = q
      <3>1. CASE q = k
        BY <1>1, <1>3, <3>1
      <3>2. CASE q # k
        <4>1. status[q] = "running" <=> \E d \in up : serves[d] = q
          BY DEF IInv, TypeOK
        <4>2. serves[c] = None /\ q # None
          BY <1>1, CallParts DEF Busy
        <4>3. up \subseteq Containers
          BY DEF IInv, TypeOK
        <4> QED BY <1>1, <1>3, <3>2, <4>1, <4>2, <4>3
      <3> QED BY <3>1, <3>2
    <2> QED BY <1>1, <1>2, <1>3, <1>s, <2>1 DEF IInv, TypeOK
  <1>6. Begun \subseteq Begun' /\ <<k, starts'[k]>> \notin Begun
    <2>1. \A q \in Calls : starts[q] \in Nat /\ starts[q] <= starts'[q]
      BY <1>s DEF IInv, TypeOK
    <2>2. \A r \in Records : r[1] \in Calls /\ r[2] \in Nat
      BY DEF Records
    <2>3. Begun \subseteq Begun'
      BY <1>s, <2>1, <2>2 DEF Begun
    <2>4. ~(starts'[k] <= starts[k])
      BY <1>s
    <2> QED BY <2>3, <2>4 DEF Begun
  <1>7. Proper(copy)
    BY <1>2 DEF IInv, AllProper
  <1>8. AllProper'
    <2>1. \A d \in Containers : Proper(view'[d].files)
      BY <1>2, <1>7 DEF IInv, AllProper, copy
    <2> QED BY <1>1, <1>6, <2>1 DEF IInv, AllProper, Proper
  <1>9. OneServer'
    BY <1>1, <1>3, <1>4 DEF IInv, OneServer, Busy
  <1>10. Fresh'
    <2> SUFFICES ASSUME NEW d \in Containers, serves'[d] # None, NEW m \in todo'[d]
                 PROVE  LET list == view'[d].files[<<m, serves'[d][2]>>] IN
                        \A i \in DOMAIN list : list[i] # <<serves'[d], starts'[serves'[d]]>>
      BY DEF Fresh, Busy, Mine
    <2>1. CASE d = c
      <3>1. m \in Metrics /\ serves'[d] = k /\ <<m, k[2]>> \in Files
        BY <1>1, <1>3, <2>1, CallParts
      <3>2. \A i \in DOMAIN copy[<<m, k[2]>>] : copy[<<m, k[2]>>][i] \in Begun
        BY <1>7, <3>1 DEF Proper
      <3> QED BY <1>6, <2>1, <3>1, <3>2 DEF copy
    <2>2. CASE d # c
      <3>1. serves'[d] = serves[d] /\ serves[d] # k /\ serves[d] \in Calls
            /\ todo'[d] = todo[d] /\ view'[d] = view[d]
        BY <1>1, <1>2, <1>3, <1>4, <2>2 DEF IInv, TypeOK
      <3>2. starts'[serves[d]] = starts[serves[d]]
        BY <1>s, <3>1
      <3> QED BY <3>1, <3>2 DEF IInv, Fresh, Busy, Mine
    <2> QED BY <2>1, <2>2
  <1>11. Written'
    <2> SUFFICES ASSUME NEW d \in dirty PROVE view'[d[1]].files[d[2]] # <<>>
      BY <1>1 DEF Written
    <2>1. d[1] \in up /\ d[1] \in Containers
      BY DEF IInv, TypeOK
    <2>2. view'[d[1]].files = view[d[1]].files
      BY <1>2, <2>1 DEF copy
    <2> QED BY <2>2 DEF IInv, Written
  <1>12. Attempted'
    BY <1>1, <1>3 DEF IInv, Attempted
  <1>13. Started'
    BY <1>3, <1>s DEF IInv, Started
  <1> QED BY <1>5, <1>8, <1>9, <1>10, <1>11, <1>12, <1>13 DEF IInv

LEMMA ScoreKeeps ==
    ASSUME IInv, NEW c \in Containers, Score(c)
    PROVE  IInv'
  <1> DEFINE call == serves[c]
             k == Mine(c)
             copy == view[c].files
  <1>1. /\ call \in Calls /\ c \in up /\ k \in Records /\ k \in Begun
        /\ k[1] = call /\ k[2] = starts[call] /\ copy \in Copies
        /\ UNCHANGED <<setting, outputs, files, up, serves, starts, status, stage, attempts>>
    BY MineIsRecord DEF IInv, TypeOK, Score
  <1>2. PICK m \in todo[c] :
          LET f == FileOf(m, call[2]) IN
          /\ view' = [view EXCEPT ![c].files[f] = Append(@, k)]
          /\ dirty' = dirty \cup {<<c, f>>}
          /\ todo' = [todo EXCEPT ![c] = @ \ {m}]
    BY DEF Score, Mine
  <1> DEFINE f == <<m, call[2]>>
             more == Append(copy[f], k)
  <1>3. m \in Metrics /\ f \in Files /\ FileOf(m, call[2]) = f /\ f[1] = m /\ f[2] = call[2]
    BY <1>1, <1>2, CallParts DEF IInv, TypeOK
  <1>4. /\ copy[f] \in Seq(Records) /\ InStartOrder(copy[f])
        /\ \A i \in DOMAIN copy[f] :
             copy[f][i] # k /\ (copy[f][i][1] = k[1] => copy[f][i][2] <= k[2])
    <2>1. copy[f] \in Seq(Records)
      BY <1>1, <1>3 DEF Copies
    <2>2. InStartOrder(copy[f]) /\ \A i \in DOMAIN copy[f] : copy[f][i] \in Begun
      BY <1>3 DEF IInv, AllProper, Proper
    <2>3. \A i \in DOMAIN copy[f] : copy[f][i] # k
      <3>1. Busy(c)
        BY DEF Score
      <3> QED BY <1>2, <3>1 DEF IInv, Fresh
    <2> QED BY <1>1, <2>1, <2>2, <2>3 DEF Begun
  <1>5. /\ more \in Seq(Records) /\ more # <<>> /\ InStartOrder(more)
        /\ \A i \in DOMAIN more : more[i] = k \/ \E j \in DOMAIN copy[f] : more[i] = copy[f][j]
    BY <1>1, <1>4, RecordAdded
  <1>6. /\ view' = [view EXCEPT ![c].files[f] = more] /\ dirty' = dirty \cup {<<c, f>>}
        /\ todo' = [todo EXCEPT ![c] = @ \ {m}]
    BY <1>2, <1>3
  <1> HIDE DEF more, f, k, call
  <1>7. /\ view \in [Containers -> [outputs : SUBSET Slugs, files : Copies]]
        /\ todo \in [Containers -> SUBSET Metrics]
    BY DEF IInv, TypeOK
  <1>8. /\ view' \in [Containers -> [outputs : SUBSET Slugs, files : Copies]]
        /\ \A d \in Containers, g \in Files :
             view'[d].files[g] = IF d = c /\ g = f THEN more ELSE view[d].files[g]
    BY <1>3, <1>5, <1>6, <1>7 DEF Copies
  <1>9. /\ todo' \in [Containers -> SUBSET Metrics]
        /\ todo'[c] = todo[c] \ {m} /\ \A d \in Containers \ {c} : todo'[d] = todo[d]
    BY <1>6, <1>7
  <1>10. TypeOK'
    <2>1. dirty' \in SUBSET (up \X Files)
      BY <1>1, <1>3, <1>6 DEF IInv, TypeOK
    <2> QED BY <1>1, <1>8, <1>9, <2>1 DEF IInv, TypeOK
  <1>11. AllProper'
    <2>1. Begun' = Begun /\ k \in Begun
      BY <1>1 DEF Begun, Records
    <2>2. ASSUME NEW d \in Containers, NEW g \in Files
          PROVE  LET list == view'[d].files[g] IN
                 /\ InStartOrder(list)
                 /\ \A i \in DOMAIN list : list[i] \in Begun /\ list[i][1][2] = g[2]
      <3>1. CASE d = c /\ g = f
        <4>1. \A j \in DOMAIN copy[f] : copy[f][j] \in Begun /\ copy[f][j][1][2] = f[2]
          BY <1>3 DEF IInv, AllProper, Proper
        <4>2. k[1][2] = f[2]
          BY <1>1, <1>3
        <4> QED BY <1>3, <1>5, <1>8, <2>1, <3>1, <4>1, <4>2
      <3>2. CASE ~(d = c /\ g = f)
        BY <1>8, <3>2 DEF IInv, AllProper, Proper
      <3> QED BY <3>1, <3>2
    <2>3. \A d \in Containers : Proper(view[d].files)'
      BY <2>1, <2>2 DEF Proper
    <2>4. Proper(files)'
      BY <1>1, <2>1 DEF IInv, AllProper, Proper
    <2> QED BY <2>3, <2>4 DEF AllProper
  <1>12. Fresh'
    <2> SUFFICES ASSUME NEW d \in Containers, serves[d] # None, NEW n \in todo'[d]
                 PROVE  LET list == view'[d].files[<<n, serves[d][2]>>] IN
                        \A i \in DOMAIN list : list[i] # Mine(d)
      BY <1>1 DEF Fresh, Busy, Mine
    <2>1. n \in todo[d] /\ n \in Metrics /\ serves[d] \in Calls
      BY <1>7, <1>9 DEF IInv, TypeOK
    <2>2. <<n, serves[d][2]>> \in Files
      BY <2>1, CallParts
    <2>3. ~(d = c /\ <<n, serves[d][2]>> = f)
      BY <1>9 DEF f, call
    <2>4. view'[d].files[<<n, serves[d][2]>>] = view[d].files[<<n, serves[d][2]>>]
      BY <1>8, <2>2, <2>3
    <2> QED BY <2>1, <2>4 DEF IInv, Fresh, Busy
  <1>13. Written'
    <2> SUFFICES ASSUME NEW d \in dirty' PROVE view'[d[1]].files[d[2]] # <<>>
      BY DEF Written
    <2>1. CASE d = <<c, f>>
      BY <1>3, <1>5, <1>8, <2>1
    <2>2. CASE d # <<c, f>>
      <3>1. d \in dirty /\ d[1] \in Containers /\ d[2] \in Files /\ d = <<d[1], d[2]>>
        BY <1>6, <2>2 DEF IInv, TypeOK
      <3> QED BY <1>8, <2>2, <3>1 DEF IInv, Written
    <2> QED BY <2>1, <2>2
  <1> QED BY <1>1, <1>10, <1>11, <1>12, <1>13 DEF IInv, OneServer, Busy, Attempted, Started

\* Steps after which the container serves no call, or has fewer metrics left.
LEMMA LeavesKeep ==
    ASSUME IInv, NEW c \in Containers, Busy(c),
           UNCHANGED <<setting, outputs, files, up, view, dirty, starts, stage, attempts>>,
           todo' \in [Containers -> SUBSET Metrics],
           \A d \in Containers : todo'[d] \subseteq todo[d],
           \/ UNCHANGED <<serves, status>>
           \/ \E st \in {"returned", "raised"} :
                /\ serves' = [serves EXCEPT ![c] = None]
                /\ status' = [status EXCEPT ![serves[c]] = st]
    PROVE  IInv'
  <1>1. serves[c] \in Calls /\ c \in up /\ status[serves[c]] = "running"
    BY DEF IInv, TypeOK, OneServer, Busy
  <1>2. CASE UNCHANGED <<serves, status>>
    <2>1. AllProper'
      BY <1>2, AllProperStays DEF IInv, Begun, Records
    <2>2. TypeOK'
      BY <1>2 DEF IInv, TypeOK
    <2>3. OneServer' /\ Fresh'
      BY <1>2 DEF IInv, OneServer, Fresh, Busy, Mine
    <2>4. Written' /\ Attempted' /\ Started'
      BY <1>2 DEF IInv, Written, Attempted, Started
    <2> QED BY <2>1, <2>2, <2>3, <2>4 DEF IInv
  <1>3. ASSUME NEW st \in {"returned", "raised"},
               serves' = [serves EXCEPT ![c] = None], status' = [status EXCEPT ![serves[c]] = st]
        PROVE  IInv'
    <2>1. /\ \A d \in Containers : serves'[d] = IF d = c THEN None ELSE serves[d]
          /\ \A q \in Calls : status'[q] = IF q = serves[c] THEN st ELSE status[q]
          /\ serves' \in [Containers -> Calls \cup {None}]
          /\ status' \in [Calls -> {"none", "queued", "running", "returned", "raised"}]
      BY <1>1, <1>3 DEF IInv, TypeOK
    <2>2. ASSUME NEW q \in Calls PROVE status'[q] = "running" <=> \E d \in up : serves'[d] = q
      <3>1. /\ status[q] = "running" <=> \E d \in up : serves[d] = q
            /\ q # None /\ up \subseteq Containers
        BY CallParts DEF IInv, TypeOK
      <3>2. \A d \in up : serves[d] = serves[c] => d = c
        BY <3>1 DEF IInv, OneServer
      <3> QED BY <1>1, <2>1, <3>1, <3>2
    <2>3. TypeOK'
      BY <2>1, <2>2 DEF IInv, TypeOK
    <2>4. AllProper'
      <3>1. Begun \subseteq Begun'
        BY DEF Begun
      <3> QED BY <3>1, AllProperStays DEF IInv
    <2>5. OneServer'
      BY <2>1 DEF IInv, OneServer, Busy
    <2>6. Fresh'
      BY <2>1 DEF IInv, Fresh, Busy, Mine
    <2>7. Attempted' /\ Started'
      BY <1>1, <2>1 DEF IInv, Attempted, Started
    <2> QED BY <2>3, <2>4, <2>5, <2>6, <2>7 DEF IInv, Written
  <1> QED BY <1>2, <1>3

LEMMA DieKeeps ==
    ASSUME IInv, NEW c \in Containers, Die(c)
    PROVE  IInv'
  <1>1. /\ UNCHANGED <<setting, outputs, files, starts, stage, attempts>> /\ c \in up
        /\ up' = up \ {c} /\ view' = [view EXCEPT ![c] = Unseen]
        /\ dirty' = {d \in dirty : d[1] # c}
        /\ serves' = [serves EXCEPT ![c] = None] /\ todo' = [todo EXCEPT ![c] = {}]
    BY DEF Die
  <1>t. PICK st \in {"raised", "queued"} :
          /\ status' = IF Busy(c) THEN [status EXCEPT ![serves[c]] = st] ELSE status
          /\ Busy(c) /\ st = "queued" => starts[serves[c]] < setting.starts
    BY DEF Die
  <1>2. NoFiles \in Copies /\ Unseen \in [outputs : SUBSET Slugs, files : Copies]
    BY DEF NoFiles, Copies, Unseen
  <1>3. /\ \A d \in Containers : serves'[d] = IF d = c THEN None ELSE serves[d]
        /\ \A d \in Containers : todo'[d] = IF d = c THEN {} ELSE todo[d]
        /\ \A d \in Containers : view'[d] = IF d = c THEN Unseen ELSE view[d]
        /\ \A q \in Calls : status'[q] = IF q = serves[c] THEN st ELSE status[q]
        /\ serves' \in [Containers -> Calls \cup {None}] /\ todo' \in [Containers -> SUBSET Metrics]
        /\ view' \in [Containers -> [outputs : SUBSET Slugs, files : Copies]]
        /\ status' \in [Calls -> {"none", "queued", "running", "returned", "raised"}]
    <2>1. \A q \in Calls : q # None
      BY CallParts
    <2> QED BY <1>1, <1>t, <1>2, <2>1 DEF IInv, TypeOK, Busy
  <1>4. TypeOK'
    <2>1. ASSUME NEW q \in Calls PROVE status'[q] = "running" <=> \E d \in up' : serves'[d] = q
      <3>1. /\ status[q] = "running" <=> \E d \in up : serves[d] = q
            /\ q # None /\ up \subseteq Containers
        BY CallParts DEF IInv, TypeOK
      <3>2. serves[c] # None => \A d \in up : serves[d] = serves[c] => d = c
        BY <3>1 DEF IInv, OneServer, Busy
      <3> QED BY <1>1, <1>3, <3>1, <3>2
    <2>2. dirty' \in SUBSET (up' \X Files)
      BY <1>1 DEF IInv, TypeOK
    <2> QED BY <1>1, <1>3, <2>1, <2>2 DEF IInv, TypeOK
  <1>5. AllProper'
    <2>1. Begun \subseteq Begun'
      BY <1>1 DEF Begun
    <2>2. ASSUME NEW d \in Containers PROVE Proper(view[d].files)'
      <3>1. CASE d = c
        <4>1. \A f \in Files : view'[d].files[f] = <<>>
          BY <1>3, <3>1 DEF Unseen, NoFiles
        <4>2. InStartOrder(<<>>) /\ DOMAIN <<>> = {}
          BY DEF InStartOrder
        <4> QED BY <4>1, <4>2 DEF Proper
      <3>2. CASE d # c
        BY <1>3, <2>1, <3>2 DEF IInv, AllProper, Proper
      <3> QED BY <3>1, <3>2
    <2>3. Proper(files)'
      BY <1>1, <2>1 DEF IInv, AllProper, Proper
    <2> QED BY <2>2, <2>3 DEF AllProper
  <1>6. OneServer' /\ Fresh'
    BY <1>1, <1>3 DEF IInv, OneServer, Fresh, Busy, Mine
  <1>7. Written'
    <2> SUFFICES ASSUME NEW d \in dirty, d[1] # c PROVE view'[d[1]].files[d[2]] # <<>>
      BY <1>1 DEF Written
    <2>1. d[1] \in Containers
      BY DEF IInv, TypeOK
    <2> QED BY <1>3, <2>1 DEF IInv, Written
  <1>8. Attempted'
    <2>1. Busy(c) => serves[c] \in Calls /\ status[serves[c]] = "running"
      BY <1>1 DEF IInv, TypeOK, Busy
    <2>2. \A q \in Calls : q = serves[c] => status[q] # "none"
      BY <2>1, CallParts DEF Busy
    <2> QED BY <1>1, <1>3, <2>2 DEF IInv, Attempted
  <1>9. Started'
    <2>1. ASSUME Busy(c), st = "queued" PROVE starts[serves[c]] < MaxStarts
      <3>1. setting.starts \in 1..MaxStarts /\ MaxStarts \in Nat
        BY SettingsNamed DEF IInv, TypeOK
      <3>2. serves[c] \in Calls /\ starts[serves[c]] \in Nat
        BY <2>1, MineIsRecord DEF IInv, TypeOK
      <3> QED BY <1>t, <2>1, <3>1, <3>2
    <2>2. \A q \in Calls : q = serves[c] => Busy(c)
      BY CallParts DEF Busy
    <2> QED BY <1>1, <1>3, <2>1, <2>2 DEF IInv, Started
  <1> QED BY <1>4, <1>5, <1>6, <1>7, <1>8, <1>9 DEF IInv

LEMMA CommitKeeps ==
    ASSUME IInv, NEW c \in Containers, NEW f \in Files, Commit(c, f)
    PROVE  IInv'
  <1>1. /\ UNCHANGED <<setting, outputs, up, view, serves, todo, starts, status, stage, attempts>>
        /\ files' = [files EXCEPT ![f] = view[c].files[f]] /\ dirty' \subseteq dirty
    BY DEF Commit
  <1>2. /\ files' \in Copies
        /\ \A g \in Files : files'[g] = IF g = f THEN view[c].files[f] ELSE files[g]
    BY <1>1 DEF IInv, TypeOK, Copies
  <1>3. TypeOK'
    BY <1>1, <1>2 DEF IInv, TypeOK
  <1>4. AllProper'
    BY <1>1, <1>2 DEF IInv, AllProper, Proper, Begun, Records
  <1>5. Written'
    BY <1>1 DEF IInv, Written
  <1> QED BY <1>1, <1>3, <1>4, <1>5 DEF IInv, OneServer, Fresh, Busy, Mine, Attempted, Started

LEMMA InvKept == IInv /\ [Next]_vars => IInv'
  <1> SUFFICES ASSUME IInv, [Next]_vars PROVE IInv'
    OBVIOUS
  <1>1. ASSUME NEW c \in Containers, PassOver(c) \/ MetricRaises(c) PROVE IInv'
    <2>1. /\ todo \in [Containers -> SUBSET Metrics] /\ Busy(c)
          /\ UNCHANGED <<setting, outputs, files, up, view, dirty, starts, stage, attempts>>
      BY <1>1 DEF IInv, TypeOK, PassOver, MetricRaises
    <2>2. /\ todo' \in [Containers -> SUBSET Metrics]
          /\ \A d \in Containers : todo'[d] \subseteq todo[d]
          /\ \/ UNCHANGED <<serves, status>>
             \/ /\ serves' = [serves EXCEPT ![c] = None]
                /\ status' = [status EXCEPT ![serves[c]] = "raised"]
      BY <1>1, <2>1 DEF PassOver, MetricRaises
    <2> QED BY <2>1, <2>2, LeavesKeep
  <1>2. ASSUME NEW c \in Containers, Finish(c) PROVE IInv'
    <2>1. /\ todo \in [Containers -> SUBSET Metrics] /\ Busy(c) /\ todo' = todo
          /\ UNCHANGED <<setting, outputs, files, up, view, dirty, starts, stage, attempts>>
          /\ serves' = [serves EXCEPT ![c] = None]
          /\ status' = [status EXCEPT ![serves[c]] = "returned"]
      BY <1>2 DEF IInv, TypeOK, Finish
    <2> QED BY <2>1, LeavesKeep
  <1>3. CASE UNCHANGED vars
    <2>1. AllProper'
      BY <1>3, AllProperStays DEF IInv, Begun, Records, vars, workVars
    <2>2. TypeOK'
      BY <1>3 DEF IInv, TypeOK, vars, workVars
    <2>3. OneServer' /\ Fresh'
      BY <1>3 DEF IInv, OneServer, Fresh, Busy, Mine, vars, workVars
    <2>4. Written' /\ Attempted' /\ Started'
      BY <1>3 DEF IInv, Written, Attempted, Started, vars, workVars
    <2> QED BY <2>1, <2>2, <2>3, <2>4 DEF IInv
  <1> QED BY <1>1, <1>2, <1>3, LanguageKeeps, SpawnKeeps, TakeKeeps, ScoreKeeps, DieKeeps, CommitKeeps
          DEF Next, Work

LEMMA InvHolds == Spec => []IInv
  BY InvBegins, InvKept, PTL DEF Spec

-----------------------------------------------------------------------------
(* The theorems                                                            *)

\* A language scored once, by a call started once, has one record in a file at
\* most, and always the same.
LEMMA TheOneRecord ==
    ASSUME IInv, NEW copy \in Copies, Proper(copy), NEW s \in Slugs, NEW m \in Metrics,
           attempts[s] <= 1, \A k \in Calls : k[2] = s => starts[k] <= 1
    PROVE  copy[<<m, s>>] \in {<<>>, <<<< <<s, s, 1>>, 1>>>>}
  <1> DEFINE list == copy[<<m, s>>]
             one  == << <<s, s, 1>>, 1>>
  <1>1. <<m, s>> \in Files /\ <<m, s>>[2] = s /\ list \in Seq(Records)
    BY DEF Files, Owners, Copies
  <1>2. InStartOrder(list) /\ \A i \in DOMAIN list : list[i] \in Begun /\ list[i][1][2] = s
    BY <1>1 DEF Proper
  <1> HIDE DEF list
  <1>3. DOMAIN list = 1..Len(list) /\ Len(list) \in Nat
    BY <1>1
  <1>4. ASSUME NEW i \in 1..Len(list) PROVE list[i] = one
    <2>1. list[i] \in Records /\ list[i] \in Begun /\ list[i][1][2] = s
      BY <1>1, <1>2, <1>3
    <2> DEFINE k == list[i][1]
    <2>2. k \in Calls /\ k[2] = s /\ list[i] = <<k, list[i][2]>> /\ list[i][2] \in 1..MaxStarts
      BY <2>1 DEF Records
    <2> HIDE DEF k
    <2>3. starts[k] \in 0..1 /\ list[i][2] <= starts[k]
      BY <2>1, <2>2, SettingsNamed DEF IInv, TypeOK, Begun, k
    <2>4. list[i][2] = 1 /\ starts[k] = 1
      BY <2>2, <2>3, SettingsNamed
    <2>5. k[1] = s /\ k = <<k[1], k[2], k[3]>> /\ k[3] \in 1..MaxAttempts
      BY <2>2, CallParts, SlugsNamed
    <2>6. k[3] <= attempts[s]
      BY <2>2, <2>4, <2>5 DEF IInv, Attempted, Started
    <2>7. attempts[s] \in Nat
      BY SettingsNamed DEF IInv, TypeOK
    <2>8. k[3] = 1
      BY <2>5, <2>6, <2>7, SettingsNamed
    <2> QED BY <2>2, <2>4, <2>5, <2>8
  <1>5. Len(list) <= 1
    <2> SUFFICES ASSUME Len(list) >= 2 PROVE FALSE
      BY <1>3
    <2>1. 1 \in 1..Len(list) /\ 2 \in 1..Len(list)
      BY <1>3
    <2>2. list[1][1] = list[2][1] /\ list[1][2] = 1 /\ list[2][2] = 1
      BY <1>4, <2>1
    <2> QED BY <1>2, <1>3, <2>1, <2>2 DEF InStartOrder
  <1>6. CASE Len(list) = 0
    BY <1>1, <1>6 DEF list
  <1>7. CASE Len(list) = 1
    <2>1. list[1] = one
      BY <1>4, <1>7
    <2>2. list = <<one>>
      BY <1>1, <1>7, <2>1
    <2> QED BY <2>2 DEF list
  <1> QED BY <1>3, <1>5, <1>6, <1>7

\* Every variable keeps its type; a call is in a container exactly while it runs.
THEOREM MetricTypeCorrect == Spec => []TypeOK
  BY InvHolds, PTL DEF IInv

\* A start of a call leaves no second record of a metric, in any copy, and the
\* last record of a call is of its last start that the copy knows.
THEOREM StartsLeaveOneRecord == Spec => []OneRecordPerStart
  <1>1. IInv => OneRecordPerStart
    <2> SUFFICES ASSUME IInv,
                        NEW copy \in {files} \cup {view[c].files : c \in Containers},
                        NEW f \in Files
                 PROVE  LET list == copy[f] IN
                        /\ \A i \in DOMAIN list :
                             list[i][1][2] = f[2] /\ list[i][2] <= starts[list[i][1]]
                        /\ \A i, j \in DOMAIN list :
                             i < j /\ list[i][1] = list[j][1] => list[i][2] < list[j][2]
      BY DEF OneRecordPerStart
    <2>1. Proper(copy)
      BY DEF IInv, AllProper
    <2> QED BY <2>1 DEF Proper, InStartOrder, Begun
  <1> QED BY <1>1, InvHolds, PTL

\* What is committed of a language that is scored once, by a call started once,
\* stays: any container that writes its file writes the one record there is.
THEOREM OwnRecordsStay == Spec => OwnRecordsKept
  <1> DEFINE Kept ==
        \A s \in Slugs, m \in Metrics :
          /\ attempts[s] <= 1 /\ attempts'[s] <= 1
          /\ \A k \in Calls : k[2] = s => starts[k] <= 1
          => IsPrefix(files[<<m, s>>], files'[<<m, s>>])
  <1>1. ASSUME IInv, [Next]_vars PROVE Kept
    <2> SUFFICES ASSUME NEW s \in Slugs, NEW m \in Metrics, attempts[s] <= 1,
                        \A k \in Calls : k[2] = s => starts[k] <= 1
                 PROVE  IsPrefix(files[<<m, s>>], files'[<<m, s>>])
      OBVIOUS
    <2> DEFINE f == <<m, s>>
               old == files[f]
               one == << <<s, s, 1>>, 1>>
    <2>1. f \in Files /\ old \in Seq(Records) /\ files \in Copies
      BY <1>1 DEF Files, Owners, IInv, TypeOK, Copies
    <2>2. old \in {<<>>, <<one>>}
      BY <1>1, <2>1, TheOneRecord DEF IInv, AllProper
    <2>3. files' = files \/ \E c \in Containers, g \in Files : Commit(c, g)
      BY <1>1 DEF Next, Work, OutputsCommitted, Spawn, Pass, Fail, CallerDies, Take, Score,
                  PassOver, MetricRaises, Finish, Die, vars
    <2> HIDE DEF f, old, one
    <2>4. IsPrefix(<<>>, old) /\ IsPrefix(old, old)
      BY <2>1 DEF IsPrefix
    <2>5. ASSUME NEW c \in Containers, NEW g \in Files, Commit(c, g) PROVE IsPrefix(old, files'[f])
      <3>1. files'[f] = IF g = f THEN view[c].files[f] ELSE old
        BY <2>1, <2>5 DEF Commit, Copies, old
      <3>2. CASE g = f
        <4> DEFINE new == view[c].files[f]
        <4>1. new \in Seq(Records) /\ new # <<>> /\ view[c].files \in Copies
          BY <1>1, <2>1, <2>5, <3>2 DEF IInv, TypeOK, Copies, Written, Commit
        <4>2. new \in {<<>>, <<one>>}
          BY <1>1, <4>1, TheOneRecord DEF IInv, AllProper, f, one
        <4>3. new = <<one>>
          BY <4>1, <4>2
        <4> HIDE DEF new
        <4>4. IsPrefix(<<>>, new) /\ IsPrefix(new, new)
          BY <4>1 DEF IsPrefix
        <4> QED BY <2>2, <3>1, <3>2, <4>3, <4>4 DEF new
      <3> QED BY <2>4, <3>1, <3>2
    <2> QED BY <2>3, <2>4, <2>5 DEF f, old
  <1>2. IInv /\ [Next]_vars => [Kept]_vars
    BY <1>1
  <1> QED BY <1>2, InvHolds, PTL DEF Spec, OwnRecordsKept

=============================================================================
