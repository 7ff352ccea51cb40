------------------------- MODULE TranslationProofs -------------------------
(***************************************************************************)
(* For every number of samples, checkpoint interval, number of retries and *)
(* of launches: the types; with one job at a time, that a field that looks *)
(* complete is never changed on the volume, and what an evaluation of a    *)
(* slug reported as translated may still raise over; and exactly what the  *)
(* loader makes of a file, torn or whole.                                  *)
(*                                                                         *)
(* What carries the argument is how a running job's list relates to the    *)
(* file it will overwrite: it agrees with it wherever the file looks       *)
(* complete (Keeps), and has a field for every sample the loop has passed  *)
(* (Passed).  Both hold at Launch, because the list is then the file, and  *)
(* only because no other job writes in between.                            *)
(***************************************************************************)
EXTENDS Translation, FiniteSetTheorems, WellFoundedInduction, TLAPS

Alone == \A j, k \in Jobs : Running(j) /\ Running(k) => j = k

Keeps(j) == \A i \in Samples : disk[i] \in LooksComplete => mem[j][i] = disk[i]

Passed(j) == \A i \in Samples : i < at[j] => mem[j][i] # "missing"

NoneMissing(file) == \A i \in Samples : file[i] # "missing"

SomeEnded == \E j \in Jobs : phase[j] = "ended"

Latest(j) == \A k \in Jobs \ {j} : k < j \/ phase[k] = "new"

\* Only the last line of a file is ever torn.
TornIsLast == \A i, k \in Samples : disk[i] = "torn" /\ i < k => disk[k] = "lost"

\* The job that left a line torn is later than every job that ended.
TornByLater ==
    Torn(disk) # {} =>
      \E k \in Jobs : /\ phase[k] \in {"checkpoint", "final", "dead"}
                      /\ \A j \in Jobs : phase[j] = "ended" => j < k

JobInv ==
    /\ TypeOK
    /\ \A j \in Jobs : handle[j] = "ok" => phase[j] = "ended"
    /\ \A j \in Jobs : phase[j] = "final" => at[j] = N + 1
    /\ \A j \in Jobs : phase[j] = "new" => at[j] = 1
    /\ \A j, k \in Jobs : j < k /\ phase[j] = "new" => phase[k] = "new"
    /\ TornIsLast

SoloInv ==
    /\ Alone
    /\ \A j \in Jobs : Running(j) => Keeps(j) /\ Passed(j) /\ Latest(j)
    /\ TornByLater
    /\ SomeEnded => NoneMissing(disk) /\ \A j \in Jobs : Running(j) => NoneMissing(mem[j])

IInv == JobInv /\ (~Overlap => SoloInv)

-----------------------------------------------------------------------------
(* The steps                                                               *)

\* Every step of a job that handles one sample: what it does to the list.
Handles(j) ==
    /\ phase[j] = "loop" /\ at[j] \in Samples
    /\ phase' = [phase EXCEPT ![j] = phase'[j]] /\ phase'[j] \in {"loop", "checkpoint"}
    /\ mem' = [mem EXCEPT ![j] = mem'[j]]
    /\ mem'[j] \in [Samples -> Listed]
    /\ \A i \in Samples : i # at[j] => mem'[j][i] = mem[j][i]
    /\ mem'[j][at[j]] # mem[j][at[j]] => Open(mem[j][at[j]]) /\ mem'[j][at[j]] \in Results
    /\ at' = [at EXCEPT ![j] = at'[j]]
    /\ at'[j] = at[j] \/ (at'[j] = at[j] + 1 /\ mem'[j][at[j]] # "missing")
    /\ tries' \in [Jobs -> 0..(MaxRetries - 1)]
    /\ UNCHANGED <<disk, written, handle, evaluated>>

LEMMA StoreHandles ==
    ASSUME TypeOK, NEW j \in Jobs, NEW result \in Results, AtSample(j), Open(mem[j][at[j]]),
           Store(j, result), UNCHANGED <<disk, written, handle, evaluated>>
    PROVE  Handles(j)
  <1>1. at[j] \in Samples /\ N \in Nat /\ MaxRetries \in Nat \ {0}
    BY SizeAssumption DEF TypeOK, AtSample, Samples
  <1>2. /\ phase'[j] \in {"loop", "checkpoint"} /\ phase' = [phase EXCEPT ![j] = phase'[j]]
        /\ at' = [at EXCEPT ![j] = at'[j]] /\ at'[j] = at[j] + 1
    BY <1>1 DEF TypeOK, Store
  <1>3. /\ mem'[j] \in [Samples -> Listed] /\ mem'[j][at[j]] = result
        /\ mem' = [mem EXCEPT ![j] = mem'[j]]
        /\ \A i \in Samples : i # at[j] => mem'[j][i] = mem[j][i]
    <2>1. mem' = [mem EXCEPT ![j] = [mem[j] EXCEPT ![at[j]] = result]]
      BY DEF Store
    <2> QED BY <1>1, <2>1 DEF TypeOK, Listed
  <1>4. tries' \in [Jobs -> 0..(MaxRetries - 1)]
    BY <1>1 DEF TypeOK, Store
  <1> QED BY <1>1, <1>2, <1>3, <1>4 DEF Handles, AtSample, Results, Whole, Cut

LEMMA RetryHandles ==
    ASSUME TypeOK, NEW j \in Jobs, AtSample(j),
           tries[j] + 1 < MaxRetries, Retry(j),
           UNCHANGED <<disk, written, handle, evaluated>>
    PROVE  Handles(j)
  <1>1. at[j] \in Samples /\ N \in Nat /\ MaxRetries \in Nat \ {0}
    BY SizeAssumption DEF TypeOK, AtSample, Samples
  <1>2. tries' \in [Jobs -> 0..(MaxRetries - 1)]
    BY <1>1 DEF TypeOK, Retry
  <1> QED BY <1>1, <1>2 DEF TypeOK, Handles, Retry, AtSample

LEMMA SampleStep ==
    ASSUME TypeOK, NEW j \in Jobs,
           Skip(j) \/ Answered(j) \/ AnsweredCut(j) \/ RequestFails(j)
    PROVE  Handles(j)
  <1>1. CASE Skip(j)
    <2>1. at[j] \in Samples
      BY <1>1, SizeAssumption DEF TypeOK, Skip, AtSample, Samples
    <2>2. mem[j][at[j]] # "missing"
      BY <1>1 DEF Skip, Open
    <2> QED BY <1>1, <2>1, <2>2 DEF TypeOK, Handles, Skip, AtSample
  <1>2. CASE Answered(j)
    <2>1. PICK result \in Whole : Store(j, result)
      BY <1>2 DEF Answered
    <2> QED BY <1>2, <2>1, StoreHandles DEF Answered, Results
  <1>3. CASE AnsweredCut(j)
    <2>1. CASE tries[j] + 1 < MaxRetries
      BY <1>3, <2>1, RetryHandles DEF AnsweredCut
    <2>2. CASE ~(tries[j] + 1 < MaxRetries)
      <3>1. PICK result \in Cut : Store(j, result)
        BY <1>3, <2>2 DEF AnsweredCut
      <3> QED BY <1>3, <3>1, StoreHandles DEF AnsweredCut, Results
    <2> QED BY <2>1, <2>2
  <1>4. CASE RequestFails(j)
    <2>1. "english" \in Results
      BY DEF Results
    <2> QED BY <1>4, <2>1, StoreHandles, RetryHandles DEF RequestFails
  <1> QED BY <1>1, <1>2, <1>3, <1>4

-----------------------------------------------------------------------------
(* The invariant                                                           *)

LEMMA InvInit == Init => IInv
  <1> SUFFICES ASSUME Init PROVE IInv
    OBVIOUS
  <1>1. TypeOK
    BY SizeAssumption DEF Init, TypeOK, NoList, Fields, Listed
  <1>2. JobInv
    BY <1>1 DEF Init, JobInv, TornIsLast, NoList
  <1>3. SoloInv
    BY DEF Init, SoloInv, Alone, Running, SomeEnded, TornByLater, Torn, NoList
  <1> QED BY <1>2, <1>3 DEF IInv

LEMMA HandlesKeeps ==
    ASSUME IInv, NEW j \in Jobs, Handles(j)
    PROVE  IInv'
  <1>0. TypeOK /\ N \in Nat
    BY SizeAssumption DEF IInv, JobInv
  <1>a. phase' \in [Jobs -> {"new", "loop", "checkpoint", "final", "ended", "dead"}]
    BY <1>0 DEF TypeOK, Handles
  <1>b. mem' \in [Jobs -> [Samples -> Listed]]
    BY <1>0 DEF TypeOK, Handles
  <1>c. at' \in [Jobs -> 1..(N + 1)]
    <2>1. at'[j] \in 1..(N + 1)
      BY <1>0 DEF TypeOK, Handles, Samples
    <2> QED BY <1>0, <2>1 DEF TypeOK, Handles
  <1>1. TypeOK'
    BY <1>0, <1>a, <1>b, <1>c DEF TypeOK, Handles
  <1>2. JobInv'
    <2>1. \A k \in Jobs : k # j => phase'[k] = phase[k] /\ at'[k] = at[k]
      BY <1>0 DEF TypeOK, Handles
    <2>2. phase'[j] \in {"loop", "checkpoint"} /\ phase[j] = "loop" /\ handle' = handle
      BY DEF Handles
    <2>3. \A k \in Jobs : phase'[k] = "new" <=> phase[k] = "new"
      BY <2>1, <2>2
    <2>4. TornIsLast'
      BY DEF IInv, JobInv, TornIsLast, Handles
    <2> QED BY <1>1, <2>1, <2>2, <2>3, <2>4 DEF IInv, JobInv
  <1>3. ASSUME ~Overlap PROVE SoloInv'
    <2>1. SoloInv /\ Running(j)
      BY <1>3 DEF IInv, Handles, Running
    <2>a. TornByLater'
      <3>1. phase[j] = "loop" /\ disk' = disk /\ phase'[j] \in {"loop", "checkpoint"}
            /\ \A k \in Jobs : k # j => phase'[k] = phase[k]
        BY <1>0 DEF Handles, TypeOK
      <3> QED BY <2>1, <3>1 DEF SoloInv, TornByLater, Torn
    <2>2. Alone' /\ (SomeEnded' <=> SomeEnded) /\ (\A k \in Jobs : Running(k)' => k = j)
      BY <1>0, <2>1 DEF SoloInv, Alone, Running, SomeEnded, Handles, TypeOK
    <2>3. Keeps(j)'
      <3>1. \A i \in Samples : disk[i] \in LooksComplete => mem[j][i] = disk[i]
        BY <2>1 DEF SoloInv, Keeps
      <3>2. \A i \in Samples : disk[i] \in LooksComplete => mem'[j][i] = mem[j][i]
        BY <3>1 DEF Handles, Open, LooksComplete
      <3> QED BY <3>1, <3>2 DEF Keeps, Handles
    <2>4. \A i \in Samples : mem[j][i] # "missing" => mem'[j][i] # "missing"
      BY DEF Handles, Results, Whole, Cut
    <2>5. Passed(j)'
      <3>1. \A i \in Samples : i < at[j] => mem'[j][i] # "missing"
        BY <2>1, <2>4 DEF SoloInv, Passed
      <3>2. at[j] \in Nat /\ \A i \in Samples : i \in Nat
        BY <1>0 DEF TypeOK, Samples
      <3> QED BY <3>1, <3>2 DEF Passed, Handles
    <2>6. SomeEnded => NoneMissing(disk)' /\ NoneMissing(mem[j])'
      BY <2>1, <2>4 DEF SoloInv, NoneMissing, Handles
    <2>b. Latest(j)'
      BY <1>0, <2>1 DEF SoloInv, Latest, Handles, TypeOK
    <2> QED BY <2>a, <2>b, <2>2, <2>3, <2>5, <2>6 DEF SoloInv
  <1> QED BY <1>2, <1>3 DEF IInv

LEMMA LaunchKeeps ==
    ASSUME IInv, NEW j \in Jobs, Launch(j)
    PROVE  IInv'
  <1>0. TypeOK /\ N \in Nat
    BY SizeAssumption DEF IInv, JobInv
  <1>1. PICK h \in {"none", "waiting"} : handle' = [handle EXCEPT ![j] = h]
    BY DEF Launch
  <1>2. /\ phase' = [phase EXCEPT ![j] = phase'[j]]
        /\ phase[j] = "new" /\ phase'[j] \in {"loop", "dead"}
        /\ UNCHANGED <<disk, at, tries, written, evaluated>>
    BY <1>0 DEF TypeOK, Launch
  <1>3. /\ mem' \in [Jobs -> [Samples -> Listed]]
        /\ phase'[j] = "loop" => mem'[j] = disk
        /\ \A k \in Jobs : k # j => mem'[k] = mem[k]
    <2>1. CASE Torn(disk) = {}
      <3>1. disk \in [Samples -> Listed]
        BY <1>0, <2>1 DEF TypeOK, Fields, Torn
      <3>2. mem' = [mem EXCEPT ![j] = disk]
        BY <2>1 DEF Launch
      <3> QED BY <1>0, <3>1, <3>2 DEF TypeOK
    <2>2. CASE Torn(disk) # {}
      BY <1>0, <2>2 DEF TypeOK, Launch
    <2> QED BY <2>1, <2>2
  <1>4. TypeOK'
    BY <1>0, <1>1, <1>2, <1>3 DEF TypeOK
  <1>5. \A k \in Jobs : /\ k < j => phase[k] # "new"
                        /\ j < k => phase[k] = "new"
    BY <1>2 DEF IInv, JobInv, Launch
  <1>6. JobInv'
    <2>1. \A k \in Jobs : k # j => phase'[k] = phase[k] /\ handle'[k] = handle[k]
      BY <1>0, <1>1, <1>2 DEF TypeOK
    <2>2. handle'[j] # "ok"
      BY <1>0, <1>1 DEF TypeOK
    <2>3. \A i, k \in Jobs : i < k /\ phase'[i] = "new" => phase'[k] = "new"
      BY <1>2, <1>5, <2>1 DEF IInv, JobInv
    <2>4. TornIsLast'
      BY <1>2 DEF IInv, JobInv, TornIsLast
    <2> QED BY <1>2, <1>4, <2>1, <2>2, <2>3, <2>4 DEF IInv, JobInv
  <1>7. ASSUME ~Overlap PROVE SoloInv'
    <2>1. SoloInv /\ at[j] = 1 /\ (\A k \in Jobs : ~Running(k))
      BY <1>7, <1>2 DEF IInv, JobInv, Launch
    <2>2. \A k \in Jobs : k # j => phase'[k] = phase[k]
      BY <1>0, <1>2 DEF TypeOK
    <2>3. Alone' /\ (SomeEnded' <=> SomeEnded) /\ (\A k \in Jobs : Running(k)' => k = j)
          /\ (Running(j)' => phase'[j] = "loop")
      BY <1>2, <2>1, <2>2 DEF Alone, Running, SomeEnded
    <2>4. Running(j)' => Keeps(j)' /\ Passed(j)' /\ Latest(j)'
      <3>1. \A k \in Jobs \ {j} : k < j \/ j < k
        BY SizeAssumption DEF Jobs
      <3>2. Latest(j)'
        BY <1>5, <2>2, <3>1 DEF Latest
      <3> QED BY <1>2, <1>3, <2>1, <2>3, <3>2 DEF Keeps, Passed, Samples
    <2>5. TornByLater'
      <3>1. \A k \in Jobs : /\ phase'[k] = "ended" <=> phase[k] = "ended"
                            /\ phase[k] \in {"checkpoint", "final", "dead"} =>
                                 phase'[k] \in {"checkpoint", "final", "dead"}
        BY <1>2, <2>2
      <3> QED BY <1>2, <2>1, <3>1 DEF SoloInv, TornByLater, Torn
    <2>6. Running(j)' => mem'[j] = disk
      BY <1>3, <2>3
    <2> QED BY <1>2, <2>1, <2>3, <2>4, <2>5, <2>6 DEF SoloInv, NoneMissing
  <1> QED BY <1>6, <1>7 DEF IInv

LEMMA LoopEndsKeeps ==
    ASSUME IInv, NEW j \in Jobs, LoopEnds(j)
    PROVE  IInv'
  <1>0. TypeOK
    BY DEF IInv, JobInv
  <1>1. TypeOK'
    BY <1>0 DEF TypeOK, LoopEnds
  <1>2. \A k \in Jobs : /\ Running(k)' <=> Running(k)
                        /\ phase'[k] = "ended" <=> phase[k] = "ended"
                        /\ phase'[k] = "new" <=> phase[k] = "new"
                        /\ phase[k] \in {"checkpoint", "final", "dead"} => phase'[k] = phase[k]
    BY <1>0 DEF LoopEnds, Running, TypeOK
  <1>3. UNCHANGED <<disk, mem, at, handle>>
    BY DEF LoopEnds
  <1>4. JobInv'
    <2>1. \A k \in Jobs : phase'[k] = "final" => at'[k] = N + 1
      BY <1>0 DEF IInv, JobInv, LoopEnds, TypeOK
    <2>2. TornIsLast'
      BY <1>3 DEF IInv, JobInv, TornIsLast
    <2> QED BY <1>1, <1>2, <1>3, <2>1, <2>2 DEF IInv, JobInv
  <1>5. TornByLater => TornByLater'
    BY <1>2, <1>3 DEF TornByLater, Torn
  <1>6. SoloInv => SoloInv'
    BY <1>2, <1>3, <1>5 DEF SoloInv, Alone, SomeEnded, Keeps, Passed, Latest,
                               NoneMissing
  <1> QED BY <1>4, <1>6 DEF IInv

LEMMA SaveKeeps ==
    ASSUME IInv, NEW j \in Jobs, Save(j)
    PROVE  IInv'
  <1>0. TypeOK /\ N \in Nat
    BY SizeAssumption DEF IInv, JobInv
  <1>1. /\ phase[j] \in {"checkpoint", "final"}
        /\ phase' = [phase EXCEPT ![j] = phase'[j]]
        /\ phase'[j] = IF phase[j] = "checkpoint" THEN "loop" ELSE "ended"
        /\ disk' = mem[j] /\ UNCHANGED <<handle, evaluated>>
        /\ phase[j] = "checkpoint" => UNCHANGED <<mem, at, tries>>
        /\ \A k \in Jobs : k # j => phase'[k] = phase[k] /\ mem'[k] = mem[k] /\ at'[k] = at[k]
    BY <1>0 DEF TypeOK, Save, Gone
  <1>2. TypeOK'
    <2>1. NoList \in [Samples -> Listed] /\ 1 \in 1..(N + 1) /\ 0 \in 0..(MaxRetries - 1)
      BY <1>0, SizeAssumption DEF NoList, Listed
    <2>2. /\ mem' \in [Jobs -> [Samples -> Listed]] /\ at' \in [Jobs -> 1..(N + 1)]
          /\ tries' \in [Jobs -> 0..(MaxRetries - 1)]
      <3>1. CASE phase[j] = "final"
        <4>1. Gone(j)
          BY <3>1 DEF Save
        <4>2. mem \in [Jobs -> [Samples -> Listed]] /\ at \in [Jobs -> 1..(N + 1)]
              /\ tries \in [Jobs -> 0..(MaxRetries - 1)]
          BY <1>0 DEF TypeOK
        <4> QED BY <2>1, <4>1, <4>2 DEF Gone
      <3>2. CASE phase[j] # "final"
        BY <1>0, <3>2 DEF TypeOK, Save
      <3> QED BY <3>1, <3>2
    <2>3. disk' \in [Samples -> Fields] /\ written' \in [Jobs -> 0..N]
      BY <1>0, <1>1 DEF TypeOK, Save, Fields
    <2>4. phase' \in [Jobs -> {"new", "loop", "checkpoint", "final", "ended", "dead"}]
      BY <1>0, <1>1 DEF TypeOK
    <2> QED BY <1>0, <1>1, <2>2, <2>3, <2>4 DEF TypeOK
  <1>3. Torn(disk') = {}
    BY <1>0, <1>1 DEF TypeOK, Torn, Listed, Results, Whole, Cut
  <1>4. JobInv'
    <2>1. TornIsLast'
      BY <1>3 DEF TornIsLast, Torn
    <2>2. \A k \in Jobs : phase'[k] = "new" <=> phase[k] = "new"
      BY <1>1
    <2> QED BY <1>1, <1>2, <2>1, <2>2 DEF IInv, JobInv
  <1>5. ASSUME ~Overlap PROVE SoloInv'
    <2>1. SoloInv /\ Running(j)
      BY <1>1, <1>5 DEF IInv, Running
    <2>2. Alone' /\ (\A k \in Jobs : Running(k)' => k = j /\ phase[j] = "checkpoint")
      BY <1>1, <2>1 DEF SoloInv, Alone, Running
    <2>3. phase[j] = "checkpoint" => Keeps(j)' /\ Passed(j)' /\ Latest(j)'
      BY <1>1, <2>1 DEF SoloInv, Keeps, Passed, Latest
    <2>4. SomeEnded' => NoneMissing(mem[j])
      <3>1. CASE phase[j] = "final"
        <4>1. at[j] = N + 1 /\ \A i \in Samples : i < N + 1
          BY <3>1, <1>0 DEF IInv, JobInv, Samples
        <4> QED BY <2>1, <4>1 DEF SoloInv, Passed, NoneMissing
      <3>2. CASE phase[j] = "checkpoint"
        BY <1>1, <2>1, <3>2 DEF SoloInv, SomeEnded
      <3> QED BY <1>1, <3>1, <3>2
    <2>5. TornByLater'
      BY <1>3 DEF TornByLater, Torn
    <2>6. phase[j] = "checkpoint" => mem'[j] = mem[j]
      BY <1>1
    <2> QED BY <1>1, <2>2, <2>3, <2>4, <2>5, <2>6 DEF SoloInv, NoneMissing
  <1> QED BY <1>4, <1>5 DEF IInv

LEMMA TornKeeps ==
    ASSUME IInv, NEW j \in Jobs, TornCommit(j)
    PROVE  IInv'
  <1>0. TypeOK /\ N \in Nat
    BY SizeAssumption DEF IInv, JobInv
  <1>1. PICK n \in written[j]..N, rest \in {"lost", "torn"} :
          /\ disk' = [i \in Samples |->
                        IF i <= n THEN mem[j][i]
                        ELSE IF i = n + 1 /\ mem[j][i] # "lost" THEN rest ELSE "lost"]
          /\ written' = [written EXCEPT ![j] = n]
    BY DEF TornCommit
  <1>2. n \in 0..N /\ \A i \in Samples : disk'[i] \in {mem[j][i], "lost", "torn"}
    BY <1>0, <1>1 DEF TypeOK
  <1>3. phase[j] \in {"checkpoint", "final"} /\ UNCHANGED <<phase, mem, at, tries, handle, evaluated>>
    BY DEF TornCommit
  <1>4. TypeOK'
    <2>1. disk' \in [Samples -> Fields]
      BY <1>0, <1>1, <1>2 DEF TypeOK, Fields, Listed
    <2> QED BY <1>0, <1>1, <1>2, <1>3, <2>1 DEF TypeOK
  <1>5. TornIsLast'
    <2> SUFFICES ASSUME NEW i \in Samples, NEW k \in Samples, disk'[i] = "torn", i < k
                 PROVE  disk'[k] = "lost"
      BY DEF TornIsLast
    <2>1. mem[j][i] # "torn"
      BY <1>0 DEF TypeOK, Listed, Results, Whole, Cut
    <2>2. i = n + 1
      BY <1>1, <2>1
    <2> QED BY <1>0, <1>1, <1>2, <2>2 DEF Samples
  <1>6. JobInv'
    BY <1>3, <1>4, <1>5 DEF IInv, JobInv
  <1>7. ASSUME ~Overlap PROVE SoloInv'
    <2>1. SoloInv /\ Running(j)
      BY <1>3, <1>7 DEF IInv, Running
    <2>2. \A k \in Jobs : Running(k) => k = j
      BY <2>1 DEF SoloInv, Alone
    <2>3. Keeps(j)' /\ Passed(j)' /\ Latest(j)'
      BY <1>2, <1>3, <2>1 DEF SoloInv, Keeps, Passed, Latest, LooksComplete
    <2>4. SomeEnded => NoneMissing(disk)'
      BY <1>2, <2>1 DEF SoloInv, NoneMissing
    <2>5. TornByLater'
      <3>1. \A l \in Jobs : phase[l] = "ended" => l < j
        BY <1>3, <2>1 DEF SoloInv, Latest
      <3> QED BY <1>3, <3>1 DEF TornByLater
    <2> QED BY <1>3, <2>1, <2>2, <2>3, <2>4, <2>5 DEF SoloInv, Alone, Running, SomeEnded, NoneMissing
  <1> QED BY <1>6, <1>7 DEF IInv

LEMMA DieKeeps ==
    ASSUME IInv, NEW j \in Jobs, Die(j)
    PROVE  IInv'
  <1>0. TypeOK /\ N \in Nat
    BY SizeAssumption DEF IInv, JobInv
  <1>1. /\ Running(j) /\ phase'[j] = "dead"
        /\ \A k \in Jobs : k # j => phase'[k] = phase[k] /\ mem'[k] = mem[k] /\ at'[k] = at[k]
        /\ UNCHANGED <<disk, handle, evaluated>>
    BY <1>0 DEF TypeOK, Die, Gone
  <1>2. TypeOK'
    <2>1. NoList \in [Samples -> Listed] /\ 1 \in 1..(N + 1)
          /\ 0 \in 0..(MaxRetries - 1) /\ 0 \in 0..N
      BY <1>0, SizeAssumption DEF NoList, Listed
    <2> QED BY <1>0, <2>1 DEF TypeOK, Die, Gone
  <1>3. \A k \in Jobs : /\ Running(k)' => Running(k) /\ k # j
                        /\ phase'[k] = "ended" <=> phase[k] = "ended"
                        /\ phase'[k] = "new" <=> phase[k] = "new"
                        /\ phase[k] \in {"checkpoint", "final", "dead"} =>
                             phase'[k] \in {"checkpoint", "final", "dead"}
    BY <1>1 DEF Running
  <1>4. JobInv'
    <2>1. TornIsLast'
      BY <1>1 DEF IInv, JobInv, TornIsLast
    <2>2. \A k \in Jobs : phase'[k] = "final" => phase[k] = "final" /\ k # j
      BY <1>1
    <2> QED BY <1>1, <1>2, <1>3, <2>1, <2>2 DEF IInv, JobInv
  <1>5. TornByLater => TornByLater'
    BY <1>1, <1>3 DEF TornByLater, Torn
  <1>6. SoloInv => SoloInv'
    BY <1>1, <1>3, <1>5 DEF SoloInv, Alone, Keeps, Passed, Latest, NoneMissing, SomeEnded
  <1> QED BY <1>4, <1>6 DEF IInv

\* A step that leaves the file and the jobs alone.
LEMMA AsideKeeps ==
    ASSUME IInv, TypeOK', UNCHANGED <<disk, jobVars>>,
           \A j \in Jobs : handle'[j] = "ok" => phase[j] = "ended"
    PROVE  IInv'
  BY DEF jobVars, IInv, JobInv, SoloInv, Alone, Keeps, Passed, Latest, NoneMissing, SomeEnded,
         Running, TornIsLast, TornByLater, Torn

LEMMA CollectKeeps ==
    ASSUME IInv, NEW j \in Jobs, CollectOk(j) \/ CollectFailed(j)
    PROVE  IInv'
  <1>1. TypeOK'
    BY DEF IInv, JobInv, TypeOK, CollectOk, CollectFailed, jobVars
  <1>2. \A k \in Jobs : handle'[k] = "ok" => phase[k] = "ended"
    BY DEF IInv, JobInv, TypeOK, CollectOk, CollectFailed
  <1> QED BY <1>1, <1>2, AsideKeeps DEF CollectOk, CollectFailed

\* What an evaluation records.
Recorded(limit) ==
    /\ evaluated' \in [limit : {limit}, ids : SUBSET Samples, raised : {"none", "line", "prompt"}]
    /\ evaluated'.raised = "line" <=> Torn(disk) \cap Reached(disk, limit) # {}
    /\ evaluated'.raised # "line" => evaluated'.ids = Reached(disk, limit)
    /\ evaluated'.raised = "prompt" =>
         \E i \in Reached(disk, limit) : disk[i] \in {"missing", "blank"}

LEMMA EvaluateRecords == Evaluate => \E limit \in Limits : Recorded(limit)
  <1> SUFFICES ASSUME NEW limit \in Limits,
                 evaluated' =
                   IF Torn(disk) \cap Reached(disk, limit) # {}
                   THEN [limit |-> limit, ids |-> {}, raised |-> "line"]
                   ELSE [limit |-> limit, ids |-> Reached(disk, limit),
                         raised |-> IF \E i \in Reached(disk, limit) :
                                         disk[i] \in {"missing", "blank"}
                                    THEN "prompt" ELSE "none"]
               PROVE  Recorded(limit)
    BY DEF Evaluate
  <1>1. Reached(disk, limit) \subseteq Samples
    BY DEF Reached, Lines
  <1>2. CASE Torn(disk) \cap Reached(disk, limit) # {}
    BY <1>2 DEF Recorded
  <1>3. CASE Torn(disk) \cap Reached(disk, limit) = {}
    <2>1. CASE \E i \in Reached(disk, limit) : disk[i] \in {"missing", "blank"}
      BY <1>1, <1>3, <2>1 DEF Recorded
    <2>2. CASE ~ \E i \in Reached(disk, limit) : disk[i] \in {"missing", "blank"}
      BY <1>1, <1>3, <2>2 DEF Recorded
    <2> QED BY <2>1, <2>2
  <1> QED BY <1>2, <1>3

LEMMA EvaluateKeeps ==
    ASSUME IInv, Evaluate
    PROVE  IInv'
  <1>1. UNCHANGED <<disk, jobVars, handle>>
    BY DEF Evaluate
  <1>2. TypeOK'
    <2>1. PICK limit \in Limits : Recorded(limit)
      BY EvaluateRecords
    <2> QED BY <1>1, <2>1 DEF IInv, JobInv, TypeOK, jobVars, Recorded
  <1> QED BY <1>1, <1>2, AsideKeeps DEF IInv, JobInv

LEMMA InvStep == IInv /\ [Next]_vars => IInv'
  <1> SUFFICES ASSUME IInv, [Next]_vars PROVE IInv'
    OBVIOUS
  <1>1. ASSUME NEW j \in Jobs, JobStep(j) PROVE IInv'
    <2>1. TypeOK
      BY DEF IInv, JobInv
    <2> QED BY <1>1, <2>1, SampleStep, HandlesKeeps, LoopEndsKeeps, SaveKeeps DEF JobStep
  <1>2. ASSUME NEW j \in Jobs,
               Launch(j) \/ TornCommit(j) \/ Die(j) \/ CollectOk(j) \/ CollectFailed(j)
        PROVE IInv'
    BY <1>2, LaunchKeeps, TornKeeps, DieKeeps, CollectKeeps
  <1>3. CASE UNCHANGED vars
    <2>1. TypeOK'
      BY <1>3 DEF IInv, JobInv, TypeOK, vars, jobVars
    <2> QED BY <1>3, <2>1, AsideKeeps DEF IInv, JobInv, vars
  <1> QED BY <1>1, <1>2, <1>3, EvaluateKeeps DEF Next

LEMMA Invariant == Spec => []IInv
  BY InvInit, InvStep, PTL DEF Spec

-----------------------------------------------------------------------------
(* The theorems                                                            *)

\* The variables of the job keep their types (translate_slug's loop and its
\* retries stay within their bounds).
THEOREM JobTypeCorrect == Spec => []TypeOK
  <1>1. IInv => TypeOK
    BY DEF IInv, JobInv
  <1> QED BY Invariant, <1>1, PTL

\* Only a job's write changes the file, and what it writes agrees with what
\* was complete.
LEMMA StepSettles ==
    ASSUME IInv, [Next]_vars, ~Overlap, NEW i \in Samples, disk[i] \in LooksComplete
    PROVE  disk'[i] \in {disk[i], "lost", "torn"}
  <1>1. ASSUME NEW j \in Jobs, Running(j)
        PROVE  mem[j][i] = disk[i]
    BY <1>1 DEF IInv, SoloInv, Keeps
  <1>2. ASSUME NEW j \in Jobs, Save(j) \/ TornCommit(j)
        PROVE  disk'[i] \in {disk[i], "lost", "torn"}
    <2>1. mem[j][i] = disk[i]
      BY <1>1, <1>2 DEF Save, TornCommit, Running
    <2>2. CASE TornCommit(j)
      BY <2>1, <2>2 DEF TornCommit
    <2> QED BY <1>2, <2>1, <2>2 DEF Save
  <1>3. ASSUME NEW j \in Jobs, Skip(j) \/ Answered(j) \/ AnsweredCut(j) \/ RequestFails(j)
        PROVE  disk' = disk
    BY <1>3 DEF Skip, Answered, AnsweredCut, RequestFails
  <1>4. ASSUME NEW j \in Jobs,
               Launch(j) \/ LoopEnds(j) \/ Die(j) \/ CollectOk(j) \/ CollectFailed(j)
        PROVE  disk' = disk
    BY <1>4 DEF Launch, LoopEnds, Die, CollectOk, CollectFailed
  <1>5. CASE Evaluate \/ UNCHANGED vars
    BY <1>5 DEF Evaluate, vars
  <1> QED BY <1>2, <1>3, <1>4, <1>5 DEF Next, JobStep

\* With one job at a time, a field that looks complete is changed by no run of
\* the job ("Idempotent"): at most a torn commit loses its line.
THEOREM CompleteIsSettled == Spec => Settled
  <1>1. IInv /\ [Next]_vars =>
          [~Overlap => \A i \in Samples :
             disk[i] \in LooksComplete => disk'[i] \in {disk[i], "lost", "torn"}]_vars
    BY StepSettles
  <1> QED BY Invariant, <1>1, PTL DEF Spec, Settled

-----------------------------------------------------------------------------
(* The loader: a sample is loaded by how many come before it in the file.  *)

LEMMA LeastOf ==
    ASSUME NEW S \in SUBSET Nat, S # {}
    PROVE  \E x \in S : \A y \in S : x <= y
  <1> DEFINE R == OpToRel(<, Nat)
  <1>1. IsWellFoundedOn(R, Nat)
    BY NatLessThanWellFounded
  <1>2. \A p, q \in Nat : p < q => <<p, q>> \in R
    BY DEF OpToRel
  <1> HIDE DEF R
  <1>3. PICK x \in S : \A y \in S : ~(<<y, x>> \in R)
    BY <1>1, WFMin
  <1>4. ASSUME NEW y \in S PROVE x <= y
    <2>1. x \in Nat /\ y \in Nat
      OBVIOUS
    <2>2. ~(y < x)
      BY <1>2, <1>3, <2>1
    <2> QED BY <2>1, <2>2
  <1> QED BY <1>3, <1>4

LEMMA LinesFinite ==
    ASSUME NEW file, NEW S, S \subseteq Lines(file)
    PROVE  /\ IsFiniteSet(S) /\ S \subseteq Nat
           /\ Cardinality(S) \in Nat
  <1>1. IsFiniteSet(Samples) /\ Samples \subseteq Nat
    BY SizeAssumption, FS_Interval DEF Samples
  <1> QED BY <1>1, FS_Subset, FS_CardinalityType DEF Lines

LEMMA BeforeOrdered ==
    ASSUME NEW file
    PROVE  /\ \A i \in Lines(file) : Before(file, i) \in Nat
           /\ \A i, k \in Lines(file) :
                k < i => Before(file, k) < Before(file, i)
  <1> DEFINE B(i) == {k \in Lines(file) : k < i}
  <1>1. \A i \in Lines(file) : IsFiniteSet(B(i)) /\ Cardinality(B(i)) \in Nat
    BY LinesFinite
  <1>2. ASSUME NEW i \in Lines(file), NEW k \in Lines(file), k < i
        PROVE  Cardinality(B(k)) < Cardinality(B(i))
    <2>1. B(k) \subseteq B(i) /\ k \in B(i) /\ k \notin B(k)
      <3>1. Lines(file) \subseteq Nat
        BY LinesFinite
      <3> QED BY <1>2, <3>1
    <2>2. Cardinality(B(k)) <= Cardinality(B(i)) /\ Cardinality(B(k)) # Cardinality(B(i))
      BY <1>1, <2>1, FS_Subset
    <2> QED BY <1>1, <2>2
  <1> QED BY <1>1, <1>2 DEF Before

\* A limit of 0 asks for one sample all the same.
AskedFor(limit) == IF limit = 0 THEN 1 ELSE limit

LEMMA ReachedBelow ==
    ASSUME NEW file, NEW limit \in Nat
    PROVE  /\ AskedFor(limit) \in Nat \ {0}
           /\ Reached(file, limit) =
                {i \in Lines(file) : Before(file, i) < AskedFor(limit)}
  <1>1. limit # None
    BY SizeAssumption
  <1>2. \A i \in Lines(file) : Before(file, i) \in Nat
    BY BeforeOrdered
  <1> QED BY <1>1, <1>2 DEF Reached, AskedFor

\* The lines with fewer than n before them: the first ones, n of them unless
\* the file has less.
LEMMA FirstLines ==
    ASSUME NEW file, NEW n \in Nat \ {0}
    PROVE  LET L == {i \in Lines(file) : Before(file, i) < n}
           IN  /\ \A i \in L, k \in Lines(file) : k < i => k \in L
               /\ Cardinality(L) <= n
               /\ L # Lines(file) => Cardinality(L) = n
  <1> DEFINE P == Lines(file)
             L == {i \in P : Before(file, i) < n}
  <1>0. P \subseteq Nat /\ IsFiniteSet(L) /\ Cardinality(L) \in Nat
    BY LinesFinite
  <1>1. \A i \in P : Before(file, i) \in Nat
    BY BeforeOrdered
  <1>2. ASSUME NEW i \in L, NEW k \in P, k < i PROVE k \in L
    BY <1>1, <1>2, BeforeOrdered
  <1>3. Cardinality(L) <= n
    <2> DEFINE f == [i \in L |-> Before(file, i)]
    <2>1. \A i \in L : Before(file, i) \in 0..(n - 1)
      BY <1>1
    <2>2. ASSUME NEW i \in L, NEW k \in L, Before(file, i) = Before(file, k) PROVE i = k
      BY <1>0, <1>1, <2>2, BeforeOrdered
    <2>3. f \in Injection(L, 0..(n - 1))
      BY <2>1, <2>2 DEF Injection, IsInjective
    <2>4. IsFiniteSet(0..(n - 1)) /\ Cardinality(0..(n - 1)) = n
      BY FS_Interval
    <2> QED BY <2>3, <2>4, FS_Injection
  <1>4. ASSUME L # P PROVE Cardinality(L) >= n
    <2>1. PICK i \in P \ L : \A k \in P \ L : i <= k
      BY <1>0, <1>4, LeastOf
    <2>2. {k \in P : k < i} = L
      <3>1. ASSUME NEW k \in P, k < i PROVE k \in L
        BY <1>0, <2>1, <3>1
      <3>2. ASSUME NEW k \in L PROVE k < i
        BY <1>0, <1>2, <2>1
      <3> QED BY <3>1, <3>2
    <2>3. Cardinality(L) = Before(file, i)
      BY <2>2 DEF Before
    <2> QED BY <1>1, <2>1, <2>3
  <1> QED BY <1>0, <1>2, <1>3, <1>4

\* The torn line comes after all the others.
LEMMA TornAfterWhole ==
    ASSUME TypeOK, TornIsLast, NEW t \in Torn(disk)
    PROVE  /\ t \in Lines(disk)
           /\ Before(disk, t) = Cardinality(Lines(disk) \ Torn(disk))
           /\ Torn(disk) = {t}
  <1>1. t \in Samples /\ disk[t] = "torn" /\ Samples \subseteq Nat
    BY SizeAssumption DEF Torn, Samples
  <1>2. ASSUME NEW k \in Lines(disk), k # t PROVE k < t /\ k \notin Torn(disk)
    <2>1. k \in Samples /\ disk[k] # "lost"
      BY DEF Lines
    <2>2. ~(t < k)
      BY <1>1, <2>1 DEF TornIsLast
    <2>3. k < t
      BY <1>1, <1>2, <2>1, <2>2
    <2> QED BY <1>1, <2>1, <2>3 DEF Torn, TornIsLast
  <1>3. {k \in Lines(disk) : k < t} = Lines(disk) \ Torn(disk)
    BY <1>1, <1>2
  <1>4. Torn(disk) \subseteq Lines(disk)
    BY DEF Torn, Lines
  <1> QED BY <1>2, <1>3, <1>4 DEF Before

\* What Evaluate reaches of the file on the volume, in the terms of the
\* property.
LEMMA ReachesPrefix ==
    ASSUME TypeOK, TornIsLast, NEW limit \in Nat \cup {None}
    PROVE  LET whole == Lines(disk) \ Torn(disk)
               L     == Reached(disk, limit)
               more  == limit = None \/ AskedFor(limit) > Cardinality(whole)
           IN  /\ Torn(disk) \cap L # {} <=> Torn(disk) # {} /\ more
               /\ Torn(disk) \cap L = {} =>
                    /\ L \subseteq whole
                    /\ \A i \in L, k \in whole : k < i => k \in L
                    /\ Cardinality(L) = IF more THEN Cardinality(whole) ELSE AskedFor(limit)
  <1> DEFINE P     == Lines(disk)
             whole == P \ Torn(disk)
             L     == Reached(disk, limit)
             more  == limit = None \/ AskedFor(limit) > Cardinality(whole)
  <1>0. Torn(disk) \subseteq P /\ L \subseteq P /\ Cardinality(whole) \in Nat
    <2>1. Torn(disk) \subseteq P /\ L \subseteq P /\ whole \subseteq P
      BY DEF Torn, Lines, Reached
    <2> QED BY <2>1, LinesFinite
  <1>1. CASE limit = None
    <2>1. L = P
      BY <1>1 DEF Reached
    <2> QED BY <1>0, <1>1, <2>1
  <1>2. CASE limit # None
    <2> DEFINE n == AskedFor(limit)
    <2>1. n \in Nat \ {0} /\ L = {i \in P : Before(disk, i) < n}
      BY <1>2, ReachedBelow
    <2>2. /\ \A i \in L, k \in P : k < i => k \in L
          /\ Cardinality(L) <= n
          /\ L # P => Cardinality(L) = n
      BY <2>1, FirstLines
    <2>3. Torn(disk) \cap L # {} <=> Torn(disk) # {} /\ more
      <3>1. ASSUME NEW t \in Torn(disk)
            PROVE  t \in L <=> more
        BY <1>0, <1>2, <2>1, TornAfterWhole
      <3> QED BY <3>1
    <2>4. ASSUME Torn(disk) \cap L = {}
          PROVE  Cardinality(L) = IF more THEN Cardinality(whole) ELSE n
      <3>1. CASE L = P
        <4>1. L = whole
          BY <1>0, <2>4, <3>1
        <4> QED BY <1>0, <1>2, <2>1, <2>2, <4>1
      <3>2. CASE L # P
        <4>1. L \subseteq whole /\ Cardinality(L) = n
          BY <1>0, <2>2, <2>4, <3>2
        <4>2. Cardinality(L) <= Cardinality(whole)
          <5>1. IsFiniteSet(whole)
            BY LinesFinite
          <5> QED BY <4>1, <5>1, FS_Subset
        <4> QED BY <1>0, <1>2, <2>1, <4>1, <4>2
      <3> QED BY <3>1, <3>2
    <2> QED BY <1>0, <2>2, <2>3, <2>4
  <1> QED BY <1>1, <1>2

LEMMA OnlyEvaluateRecords ==
    [Next]_vars /\ evaluated' # evaluated => Evaluate
  BY DEF Next, JobStep, Launch, Skip, Answered, AnsweredCut, RequestFails, LoopEnds, Save,
         TornCommit, Die, CollectOk, CollectFailed, vars

\* load_samples counts before it compares: whatever the file holds, also in the
\* middle of a write, an evaluation goes over its first samples, exactly as many
\* as it asked for or as there are (one for a limit of 0), and raises exactly
\* when it would have to go past the whole lines to a torn one.
THEOREM EvaluationsArePrefixes == Spec => EvaluatesPrefix
  <1> DEFINE Prefix ==
        LET e     == evaluated'
            whole == Lines(disk) \ Torn(disk)
            asked == IF e.limit = 0 THEN 1 ELSE e.limit
            more  == e.limit = None \/ asked > Cardinality(whole)
        IN evaluated' # evaluated =>
             /\ e.raised = "line" <=> Torn(disk) # {} /\ more
             /\ e.raised # "line" =>
                  /\ e.ids \subseteq whole
                  /\ \A i \in e.ids, k \in whole : k < i => k \in e.ids
                  /\ Cardinality(e.ids) = IF more THEN Cardinality(whole) ELSE asked
  <1>1. ASSUME IInv, Evaluate PROVE Prefix
    <2>1. PICK limit \in Limits : Recorded(limit)
      BY <1>1, EvaluateRecords
    <2>2. limit \in Nat \cup {None} /\ TypeOK /\ TornIsLast
      BY <1>1, SizeAssumption DEF IInv, JobInv
    <2>3. /\ evaluated'.limit = limit
          /\ evaluated'.raised = "line" <=> Torn(disk) \cap Reached(disk, limit) # {}
          /\ evaluated'.raised # "line" => evaluated'.ids = Reached(disk, limit)
      BY <2>1 DEF Recorded
    <2> QED BY <2>2, <2>3, ReachesPrefix DEF AskedFor
  <1>2. IInv /\ [Next]_vars => [Prefix]_vars
    BY <1>1, OnlyEvaluateRecords
  <1> QED BY Invariant, <1>2, PTL DEF Spec, EvaluatesPrefix

\* With one job at a time, an evaluation of a slug that translate_all_parallel
\* reported as translated raises over a blank answer only, or over a line that a
\* later job has left torn.
THEOREM ReportedIsEvaluable == Spec => OkMeansEvaluable
  <1> DEFINE Evaluable ==
        \A j \in Jobs :
          ~Overlap /\ handle[j] = "ok" /\ evaluated' # evaluated =>
            /\ evaluated'.raised = "prompt" => \E i \in evaluated'.ids : disk[i] = "blank"
            /\ evaluated'.raised = "line" =>
                 \E k \in Jobs : k > j /\ phase[k] \in {"checkpoint", "final", "dead"}
  <1>1. ASSUME IInv, Evaluate PROVE Evaluable
    <2> SUFFICES ASSUME NEW j \in Jobs, ~Overlap, handle[j] = "ok"
                 PROVE  /\ evaluated'.raised = "prompt" =>
                             \E i \in evaluated'.ids : disk[i] = "blank"
                        /\ evaluated'.raised = "line" =>
                             \E k \in Jobs : k > j /\ phase[k] \in {"checkpoint", "final", "dead"}
      OBVIOUS
    <2>1. PICK limit \in Limits : Recorded(limit)
      BY <1>1, EvaluateRecords
    <2>2. phase[j] = "ended" /\ NoneMissing(disk) /\ TornByLater
      BY <1>1 DEF IInv, JobInv, SoloInv, SomeEnded
    <2>3. \A i \in Reached(disk, limit) : disk[i] # "missing"
      BY <2>2 DEF NoneMissing, Reached, Lines
    <2>4. ASSUME evaluated'.raised = "prompt"
          PROVE  \E i \in evaluated'.ids : disk[i] = "blank"
      BY <2>1, <2>3, <2>4 DEF Recorded
    <2>5. ASSUME evaluated'.raised = "line"
          PROVE  \E k \in Jobs : k > j /\ phase[k] \in {"checkpoint", "final", "dead"}
      <3>1. PICK k \in Jobs : /\ phase[k] \in {"checkpoint", "final", "dead"}
                              /\ \A l \in Jobs : phase[l] = "ended" => l < k
        BY <2>1, <2>2, <2>5 DEF Recorded, TornByLater
      <3> QED BY <2>2, <3>1 DEF Jobs
    <2> QED BY <2>4, <2>5
  <1>2. IInv /\ [Next]_vars => [Evaluable]_vars
    BY <1>1, OnlyEvaluateRecords
  <1> QED BY Invariant, <1>2, PTL DEF Spec, OkMeansEvaluable

=============================================================================
