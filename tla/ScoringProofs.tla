--------------------------- MODULE ScoringProofs ---------------------------
(***************************************************************************)
(* Proofs about Scoring, for any languages, prompts, dimensions, swap runs, *)
(* limit and containers; about the grades; and about MetricReport, for any  *)
(* of its settings and files of any length.                                *)
(***************************************************************************)
EXTENDS Scoring, MetricReport, FiniteSetTheorems, TLAPS

-----------------------------------------------------------------------------
(* Scoring: types                                                          *)

LEMMA GradeType == \A w, d, b : Classify(w, d, b) \in Grades
BY DEF Classify, JudgeGrade, Refine, CometGrade, BleuGrade, Grades

\* A key that a running call has left is not judged in the copy it writes to.
Unjudged ==
    \A c \in Containers : Busy(c) =>
        \A k \in todo[c] : view[c].verdicts[serves[c]][k] = <<>>

IInv == TypeOK /\ JudgedOnce /\ Unjudged

Copies == [outputs : [Slugs -> SUBSET Prompts], verdicts : Files]

LEMMA NothingJudged ==
    /\ NoOutputs \in [Slugs -> SUBSET Prompts]
    /\ NoVerdicts \in Files
    /\ \A s \in Slugs, k \in Keys : NoVerdicts[s][k] = <<>> /\ Len(NoVerdicts[s][k]) = 0
<1>1. \A s \in Slugs, k \in Keys : NoVerdicts[s][k] = <<>>
  BY DEF NoVerdicts
<1>2. <<>> \in Seq(Winners) /\ Len(<<>>) = 0
  OBVIOUS
<1>3. NoVerdicts \in Files
  BY <1>2 DEF NoVerdicts, Files
<1> QED BY <1>1, <1>2, <1>3 DEF NoOutputs

\* What a call goes through: keys, none of them judged in what it sees.
LEMMA RemainingKeys ==
    ASSUME NEW v \in Copies, NEW s \in Slugs
    PROVE  /\ Remaining(v, s) \subseteq Keys
           /\ \A k \in Remaining(v, s) : v.verdicts[s][k] = <<>>
<1>1. Common(v.outputs[s]) \subseteq Prompts
  BY DEF Common, Copies
<1>2. (Common(v.outputs[s]) \X Swaps \X Dims) \subseteq Keys
  BY <1>1 DEF Keys
<1> QED BY <1>2 DEF Remaining, JudgedKeys

LEMMA InvInit == Init => IInv
<1> SUFFICES ASSUME Init PROVE IInv
  OBVIOUS
<1> USE DEF Init
<1>1. view \in [Containers -> Copies]
  BY NothingJudged DEF Copies
<1>2. DOMAIN section = Slugs /\ \A s \in Slugs : section[s].grade \in Grades \cup {"?"}
  BY DEF NoSection
<1>3. TypeOK
  BY <1>1, <1>2, NothingJudged, BoundAssumption DEF TypeOK, Copies, Busy
<1>4. JudgedOnce
  BY NothingJudged DEF JudgedOnce
<1>5. Unjudged
  BY DEF Unjudged, Busy
<1> QED BY <1>3, <1>4, <1>5 DEF IInv

\* One judgment: the call's copy gets one verdict for a key that had none.
LEMMA JudgeKeyWrites ==
    ASSUME IInv, NEW c \in Containers, JudgeKey(c)
    PROVE  \E k \in Keys : \E w \in {WinnerModel(LetterOf(k[2]), k[2]), "error"} :
             /\ serves[c] \in Slugs
             /\ k \in todo[c]
             /\ todo' = [todo EXCEPT ![c] = @ \ {k}]
             /\ view' \in [Containers -> Copies]
             /\ \A d \in Containers, s \in Slugs, j \in Keys :
                  view'[d].verdicts[s][j] = IF d = c /\ s = serves[c] /\ j = k THEN <<w>>
                                           ELSE view[d].verdicts[s][j]
<1> USE DEF IInv, TypeOK
<1>1. PICK k \in todo[c] : \E w \in {WinnerModel(LetterOf(k[2]), k[2]), "error"} :
        /\ todo' = [todo EXCEPT ![c] = @ \ {k}]
        /\ view' = [view EXCEPT ![c].verdicts[serves[c]][k] = Append(@, w)]
  BY DEF JudgeKey, First
<1>2. PICK w \in {WinnerModel(LetterOf(k[2]), k[2]), "error"} :
        view' = [view EXCEPT ![c].verdicts[serves[c]][k] = Append(@, w)]
  BY <1>1
<1>3. k \in Keys /\ serves[c] \in Slugs /\ view[c].verdicts[serves[c]][k] = <<>>
  BY DEF JudgeKey, Busy, Unjudged
<1>4. w \in Winners
  BY <1>2 DEF WinnerModel, Winners
<1>5. Append(<<>>, w) = <<w>> /\ <<w>> \in Seq(Winners)
  BY <1>4
<1> DEFINE lines  == view[c].verdicts
           files == [lines EXCEPT ![serves[c]] = [lines[serves[c]] EXCEPT ![k] = <<w>>]]
           copy  == [view[c] EXCEPT !.verdicts = files]
<1>6. view \in [Containers -> Copies] /\ lines \in Files
  BY DEF Copies
<1>7. lines[serves[c]][k] = <<>>
  BY <1>3
<1>8. view' = [view EXCEPT ![c] = copy]
  BY <1>2, <1>5, <1>7
<1>9. files \in Files /\ \A s \in Slugs, j \in Keys :
        files[s][j] = IF s = serves[c] /\ j = k THEN <<w>> ELSE lines[s][j]
  BY <1>3, <1>5, <1>6 DEF Files
<1>10. copy \in Copies /\ copy.verdicts = files
  <2>1. view[c] \in [outputs : [Slugs -> SUBSET Prompts], verdicts : Files]
    BY DEF Copies
  <2>2. files \in Files
    BY <1>9
  <2> HIDE DEF files, Files
  <2> QED BY <2>1, <2>2 DEF Copies
<1>11. view' \in [Containers -> Copies]
  <2> HIDE DEF copy
  <2> QED BY <1>6, <1>8, <1>10
<1>12. \A d \in Containers : view'[d] = IF d = c THEN copy ELSE view[d]
  <2> HIDE DEF copy
  <2> QED BY <1>6, <1>8
<1>13. ASSUME NEW d \in Containers, NEW s \in Slugs, NEW j \in Keys
       PROVE  view'[d].verdicts[s][j] = IF d = c /\ s = serves[c] /\ j = k THEN <<w>>
                                        ELSE view[d].verdicts[s][j]
  <2> HIDE DEF copy, files
  <2> QED BY <1>9, <1>10, <1>12
<1> HIDE DEF copy, files, lines, IInv, TypeOK
<1>14. /\ serves[c] \in Slugs
       /\ k \in todo[c]
       /\ todo' = [todo EXCEPT ![c] = @ \ {k}]
       /\ view' \in [Containers -> Copies]
       /\ \A d \in Containers, s \in Slugs, j \in Keys :
            view'[d].verdicts[s][j] = IF d = c /\ s = serves[c] /\ j = k THEN <<w>>
                                     ELSE view[d].verdicts[s][j]
  BY <1>1, <1>3, <1>11, <1>13
<1> QED BY <1>2, <1>3, <1>14, Zenon

LEMMA TypeStep == IInv /\ [Next]_vars => TypeOK'
<1> SUFFICES ASSUME IInv, [Next]_vars PROVE TypeOK'
  OBVIOUS
<1> USE DEF IInv, TypeOK
<1>1. ASSUME NEW s \in Slugs, OutputsCommitted(s) PROVE TypeOK'
  BY <1>1 DEF OutputsCommitted, callVars, Busy
<1>2. ASSUME NEW s \in Slugs, ScoresCommitted(s) PROVE TypeOK'
  BY <1>2 DEF ScoresCommitted, callVars, Busy
<1>3. ASSUME NEW s \in Slugs, CallerDies(s) PROVE TypeOK'
  BY <1>3 DEF CallerDies, callVars, Busy
<1>4. ASSUME NEW s \in Slugs, Report(s) PROVE TypeOK'
  <2>1. PICK g \in Grades : \E x, y, z : section' = [section EXCEPT ![s] =
          [counts |-> x, judged |-> y, metrics |-> z, grade |-> g]]
    BY <1>4, GradeType DEF Report
  <2>2. DOMAIN section' = Slugs /\ \A t \in Slugs : section'[t].grade \in Grades \cup {"?"}
    BY <2>1
  <2>3. stage' \in [Slugs -> {"inference", "metrics", "judge", "judged", "report"}]
    BY <1>4 DEF Report
  <2> QED BY <1>4, <2>2, <2>3 DEF Report, callVars, Busy
<1>5. ASSUME NEW s \in Slugs, NEW c \in Containers, Call(s, c) PROVE TypeOK'
  <2>1. view' \in [Containers -> Copies] /\ view'[c] \in Copies
    BY <1>5 DEF Call, Copies
  <2>2. todo' = [todo EXCEPT ![c] = Remaining(view'[c], s)]
    BY <1>5 DEF Call
  <2>3. todo' \in [Containers -> SUBSET Keys]
    BY <2>1, <2>2, RemainingKeys
  <2>4. attempts' \in [Slugs -> 0..MaxAttempts]
    BY <1>5, BoundAssumption DEF Call
  <2> QED BY <1>5, <2>1, <2>3, <2>4 DEF Call, Copies, Busy
<1>6. ASSUME NEW s \in Slugs, NEW c \in Containers, Commit(c, s) PROVE TypeOK'
  <2>1. verdicts' \in Files
    BY <1>6 DEF Commit, Files
  <2> QED BY <1>6, <2>1 DEF Commit, Busy
<1>7. ASSUME NEW c \in Containers, JudgeKey(c) PROVE TypeOK'
  <2>1. PICK k \in Keys : \E w : /\ serves[c] \in Slugs
                               /\ todo' = [todo EXCEPT ![c] = @ \ {k}]
                               /\ view' \in [Containers -> Copies]
    BY <1>7, JudgeKeyWrites
  <2>2. c \in up
    BY <1>7 DEF JudgeKey
  <2>3. todo' \in [Containers -> SUBSET Keys]
    BY <2>1
  <2>4. /\ dirty' = dirty \cup {<<c, serves[c]>>}
        /\ UNCHANGED <<habit, outputs, scored, verdicts, up, serves, stage, attempts, section>>
    BY <1>7 DEF JudgeKey
  <2>5. dirty' \in SUBSET (up \X Slugs)
    BY <2>1, <2>2, <2>4
  <2> QED BY <2>1, <2>3, <2>4, <2>5 DEF Copies, Busy
<1>8. ASSUME NEW c \in Containers, Finish(c) PROVE TypeOK'
  BY <1>8 DEF Finish, Busy
<1>9. ASSUME NEW c \in Containers, Die(c) PROVE TypeOK'
  BY <1>9, NothingJudged DEF Die, Busy
<1>10. CASE UNCHANGED vars
  BY <1>10 DEF vars, callVars, Busy
<1> QED BY <1>1, <1>2, <1>3, <1>4, <1>5, <1>6, <1>7, <1>8, <1>9, <1>10 DEF Next

\* Two facts of every step that leaves the copies and the calls alone.
LEMMA Unmoved ==
    ASSUME IInv, UNCHANGED <<view, serves, todo>>
    PROVE  Unjudged' /\ (UNCHANGED verdicts => JudgedOnce')
BY DEF IInv, Unjudged, JudgedOnce, Busy

LEMMA OnceStep == IInv /\ [Next]_vars => JudgedOnce' /\ Unjudged'
<1> SUFFICES ASSUME IInv, [Next]_vars PROVE JudgedOnce' /\ Unjudged'
  OBVIOUS
<1>1. ASSUME NEW s \in Slugs,
             OutputsCommitted(s) \/ ScoresCommitted(s) \/ CallerDies(s) \/ Report(s)
      PROVE  JudgedOnce' /\ Unjudged'
  <2>1. UNCHANGED <<verdicts, view, serves, todo>>
    BY <1>1 DEF OutputsCommitted, ScoresCommitted, CallerDies, Report, callVars
  <2> QED BY <2>1, Unmoved
<1>2. ASSUME NEW s \in Slugs, NEW c \in Containers, Call(s, c)
      PROVE  JudgedOnce' /\ Unjudged'
  <2>1. view'[c] \in Copies
    BY <1>2, TypeStep DEF Call, IInv, TypeOK, Copies
  <2>2. \A d \in Containers \ {c} : view'[d] = view[d] /\ serves'[d] = serves[d] /\ todo'[d] = todo[d]
    BY <1>2 DEF Call, IInv, TypeOK
  <2>3. \A t \in Slugs : view'[c].verdicts[t] = verdicts[t] \/ view'[c].verdicts[t] = view[c].verdicts[t]
    BY <1>2 DEF Call, IInv, TypeOK
  <2>4. JudgedOnce'
    <3>1. verdicts' = verdicts
      BY <1>2 DEF Call
    <3> QED BY <2>2, <2>3, <3>1 DEF IInv, JudgedOnce
  <2>5. serves'[c] = s /\ todo'[c] = Remaining(view'[c], s)
    BY <1>2 DEF Call, IInv, TypeOK
  <2>6. \A k \in todo'[c] : view'[c].verdicts[s][k] = <<>>
    BY <2>1, <2>5, RemainingKeys
  <2>7. Unjudged'
    BY <2>2, <2>5, <2>6 DEF IInv, Unjudged, Busy
  <2> QED BY <2>4, <2>7
<1>3. ASSUME NEW s \in Slugs, NEW c \in Containers, Commit(c, s)
      PROVE  JudgedOnce' /\ Unjudged'
  <2>1. UNCHANGED <<view, serves, todo>> /\ verdicts' = [verdicts EXCEPT ![s] = view[c].verdicts[s]]
    BY <1>3 DEF Commit
  <2>2. \A t \in Slugs : verdicts'[t] = IF t = s THEN view[c].verdicts[s] ELSE verdicts[t]
    BY <2>1 DEF IInv, TypeOK, Files
  <2>3. JudgedOnce'
    BY <2>1, <2>2 DEF IInv, JudgedOnce
  <2> QED BY <2>1, <2>3, Unmoved
<1>4. ASSUME NEW c \in Containers, JudgeKey(c)
      PROVE  JudgedOnce' /\ Unjudged'
  <2>1. PICK k \in Keys : \E w \in {WinnerModel(LetterOf(k[2]), k[2]), "error"} :
             /\ serves[c] \in Slugs
             /\ k \in todo[c]
             /\ todo' = [todo EXCEPT ![c] = @ \ {k}]
             /\ view' \in [Containers -> Copies]
             /\ \A d \in Containers, s \in Slugs, j \in Keys :
                  view'[d].verdicts[s][j] = IF d = c /\ s = serves[c] /\ j = k THEN <<w>>
                                           ELSE view[d].verdicts[s][j]
    BY <1>4, JudgeKeyWrites, Zenon
  <2>2. PICK w \in {WinnerModel(LetterOf(k[2]), k[2]), "error"} :
             /\ serves[c] \in Slugs
             /\ k \in todo[c]
             /\ todo' = [todo EXCEPT ![c] = @ \ {k}]
             /\ view' \in [Containers -> Copies]
             /\ \A d \in Containers, s \in Slugs, j \in Keys :
                  view'[d].verdicts[s][j] = IF d = c /\ s = serves[c] /\ j = k THEN <<w>>
                                           ELSE view[d].verdicts[s][j]
    BY <2>1
  <2>3. verdicts' = verdicts /\ serves' = serves
    BY <1>4 DEF JudgeKey
  <2>4. Len(<<w>>) = 1
    OBVIOUS
  <2>5. JudgedOnce'
    <3>1. ASSUME NEW d \in Containers, NEW s \in Slugs, NEW j \in Keys
          PROVE  Len(view'[d].verdicts[s][j]) <= 1
      <4>1. CASE d = c /\ s = serves[c] /\ j = k
        <5>1. view'[d].verdicts[s][j] = <<w>>
          BY <2>2, <4>1
        <5> QED BY <5>1, <2>4
      <4>2. CASE ~ (d = c /\ s = serves[c] /\ j = k)
        <5>1. view'[d].verdicts[s][j] = view[d].verdicts[s][j]
          BY <2>2, <4>2
        <5> QED BY <5>1 DEF IInv, JudgedOnce
      <4> QED BY <4>1, <4>2
    <3> QED BY <2>3, <3>1 DEF IInv, JudgedOnce
  <2>6. ASSUME NEW d \in Containers, Busy(d)', NEW j \in todo'[d]
        PROVE  view'[d].verdicts[serves'[d]][j] = <<>>
    <3>1. j \in todo[d] /\ ~ (d = c /\ j = k) /\ j \in Keys
      BY <2>2, <2>6 DEF IInv, TypeOK
    <3>2. Busy(d) /\ serves[d] \in Slugs
      BY <2>3, <2>6 DEF Busy, IInv, TypeOK
    <3>3. view'[d].verdicts[serves[d]][j] = view[d].verdicts[serves[d]][j]
      BY <2>2, <3>1, <3>2
    <3> QED BY <2>3, <3>1, <3>2, <3>3 DEF IInv, Unjudged
  <2>7. Unjudged'
    BY <2>6 DEF Unjudged
  <2> QED BY <2>5, <2>7
<1>5. ASSUME NEW c \in Containers, Finish(c)
      PROVE  JudgedOnce' /\ Unjudged'
  <2>1. UNCHANGED <<view, verdicts, todo>> /\ serves' = [serves EXCEPT ![c] = None]
    BY <1>5 DEF Finish
  <2> QED BY <2>1 DEF IInv, TypeOK, JudgedOnce, Unjudged, Busy
<1>6. ASSUME NEW c \in Containers, Die(c)
      PROVE  JudgedOnce' /\ Unjudged'
  <2>1. /\ verdicts' = verdicts
        /\ view' = [view EXCEPT ![c] = [outputs |-> NoOutputs, verdicts |-> NoVerdicts]]
        /\ serves' = [serves EXCEPT ![c] = None]
        /\ todo' = [todo EXCEPT ![c] = {}]
    BY <1>6 DEF Die
  <2>2. view'[c].verdicts = NoVerdicts /\ \A d \in Containers \ {c} : view'[d] = view[d]
    BY <2>1 DEF IInv, TypeOK
  <2>3. JudgedOnce'
    BY <2>1, <2>2, NothingJudged DEF IInv, JudgedOnce
  <2>4. Unjudged'
    BY <2>1, <2>2 DEF IInv, TypeOK, Unjudged, Busy
  <2> QED BY <2>3, <2>4
<1>7. CASE UNCHANGED vars
  BY <1>7, Unmoved DEF vars, callVars
<1> QED BY <1>1, <1>2, <1>3, <1>4, <1>5, <1>6, <1>7 DEF Next

LEMMA Invariance == Spec => []IInv
<1>1. IInv /\ [Next]_vars => IInv'
  BY TypeStep, OnceStep DEF IInv
<1> QED BY InvInit, <1>1, PTL DEF Spec

\* The variables of judging, its containers and the sections keep their types.
THEOREM ScoringTypeCorrect == Spec => []TypeOK
<1>1. IInv => TypeOK
  BY DEF IInv
<1> QED BY Invariance, <1>1, PTL

\* A prompt, swap run and dimension is judged at most once in every copy of a
\* verdicts file, however often judge() is started over and containers die:
\* the divisor of the win rates counts no judgment twice.
THEOREM JudgedOnlyOnce == Spec => []JudgedOnce
<1>1. IInv => JudgedOnce
  BY DEF IInv
<1> QED BY Invariance, <1>1, PTL

-----------------------------------------------------------------------------
(***************************************************************************)
(* What the verdicts say.  In every copy of a lines, a verdict names what   *)
(* the judge's letter for its swap run is translated to, or is an error.   *)
(***************************************************************************)

Answers(k) == {WinnerModel(LetterOf(k[2]), k[2]), "error"}

Answered(lines) == \A k \in Keys : lines[k] \in Seq(Answers(k))

AnswerInv ==
    /\ \A s \in Slugs : Answered(verdicts[s])
    /\ \A c \in Containers, s \in Slugs : Answered(view[c].verdicts[s])

LEMMA NothingAnswered == \A s \in Slugs : Answered(NoVerdicts[s])
<1>1. \A k \in Keys : <<>> \in Seq(Answers(k))
  OBVIOUS
<1> QED BY <1>1, NothingJudged DEF Answered

LEMMA AnswerInit == Init => AnswerInv
BY NothingAnswered DEF Init, AnswerInv

LEMMA HabitStays == [Next]_vars => habit' = habit
BY DEF Next, vars, callVars, OutputsCommitted, ScoresCommitted, CallerDies, Report,
       Call, Commit, JudgeKey, Finish, Die

LEMMA AnswerStep == IInv /\ AnswerInv /\ [Next]_vars => AnswerInv'
<1> SUFFICES ASSUME IInv, AnswerInv, [Next]_vars PROVE AnswerInv'
  OBVIOUS
<1>0. \A k : Answers(k)' = Answers(k)
  BY HabitStays DEF Answers, LetterOf
<1>1. CASE UNCHANGED <<verdicts, view>>
  BY <1>0, <1>1 DEF AnswerInv, Answered
<1>2. ASSUME NEW s \in Slugs,
             OutputsCommitted(s) \/ ScoresCommitted(s) \/ CallerDies(s) \/ Report(s)
      PROVE  UNCHANGED <<verdicts, view>>
  BY <1>2 DEF OutputsCommitted, ScoresCommitted, CallerDies, Report, callVars
<1>3. ASSUME NEW s \in Slugs, NEW c \in Containers, Call(s, c)
      PROVE  AnswerInv'
  <2>1. /\ verdicts' = verdicts
        /\ \A d \in Containers, t \in Slugs :
             view'[d].verdicts[t] = verdicts[t] \/ view'[d].verdicts[t] = view[d].verdicts[t]
    BY <1>3 DEF Call, IInv, TypeOK
  <2> QED BY <1>0, <2>1 DEF AnswerInv, Answered
<1>4. ASSUME NEW s \in Slugs, NEW c \in Containers, Commit(c, s)
      PROVE  AnswerInv'
  <2>1. /\ view' = view
        /\ \A t \in Slugs : verdicts'[t] = IF t = s THEN view[c].verdicts[s] ELSE verdicts[t]
    BY <1>4 DEF Commit, IInv, TypeOK, Files
  <2> QED BY <1>0, <2>1 DEF AnswerInv, Answered
<1>5. ASSUME NEW c \in Containers, JudgeKey(c)
      PROVE  AnswerInv'
  <2>1. PICK k \in Keys : \E w \in {WinnerModel(LetterOf(k[2]), k[2]), "error"} :
             /\ serves[c] \in Slugs
             /\ k \in todo[c]
             /\ todo' = [todo EXCEPT ![c] = @ \ {k}]
             /\ view' \in [Containers -> Copies]
             /\ \A d \in Containers, s \in Slugs, j \in Keys :
                  view'[d].verdicts[s][j] = IF d = c /\ s = serves[c] /\ j = k THEN <<w>>
                                           ELSE view[d].verdicts[s][j]
    BY <1>5, JudgeKeyWrites, Zenon
  <2>2. PICK w \in Answers(k) :
             \A d \in Containers, s \in Slugs, j \in Keys :
                 view'[d].verdicts[s][j] = IF d = c /\ s = serves[c] /\ j = k THEN <<w>>
                                          ELSE view[d].verdicts[s][j]
    BY <2>1, Zenon DEF Answers
  <2>3. <<w>> \in Seq(Answers(k)) /\ verdicts' = verdicts
    BY <1>5 DEF JudgeKey
  <2>4. ASSUME NEW d \in Containers, NEW s \in Slugs, NEW j \in Keys
        PROVE  view'[d].verdicts[s][j] \in Seq(Answers(j))
    <3>1. CASE d = c /\ s = serves[c] /\ j = k
      BY <2>2, <2>3, <3>1, Zenon
    <3>2. CASE ~ (d = c /\ s = serves[c] /\ j = k)
      <4>1. view'[d].verdicts[s][j] = view[d].verdicts[s][j]
        BY <2>2, <3>2
      <4> QED BY <4>1 DEF AnswerInv, Answered
    <3> QED BY <3>1, <3>2
  <2> QED BY <1>0, <2>3, <2>4 DEF AnswerInv, Answered
<1>6. ASSUME NEW c \in Containers, Finish(c)
      PROVE  UNCHANGED <<verdicts, view>>
  BY <1>6 DEF Finish
<1>7. ASSUME NEW c \in Containers, Die(c)
      PROVE  AnswerInv'
  <2>1. /\ verdicts' = verdicts
        /\ \A d \in Containers : view'[d].verdicts = NoVerdicts \/ view'[d] = view[d]
    BY <1>7 DEF Die, IInv, TypeOK
  <2> QED BY <1>0, <2>1, NothingAnswered DEF AnswerInv, Answered
<1>8. CASE UNCHANGED vars
  BY <1>1, <1>8 DEF vars, callVars
<1> QED BY <1>1, <1>2, <1>3, <1>4, <1>5, <1>6, <1>7, <1>8 DEF Next

LEMMA AnswerInvariant == Spec => [](IInv /\ AnswerInv)
<1>1. IInv /\ AnswerInv /\ [Next]_vars => (IInv /\ AnswerInv)'
  BY TypeStep, OnceStep, AnswerStep DEF IInv
<1> QED BY InvInit, AnswerInit, <1>1, PTL DEF Spec

\* The letter such a judge answers in a swap run is translated to its choice.
LEMMA ChoiceIsRead ==
    ASSUME habit \in {"regional", "gemma4"}, NEW swap
    PROVE  WinnerModel(LetterOf(swap), swap) = habit
<1>1. CASE habit = "regional"
  <2>1. LetterOf(swap) = IF swap = 0 THEN "A" ELSE "B"
    BY <1>1 DEF LetterOf
  <2> QED BY <1>1, <2>1 DEF WinnerModel
<1>2. CASE habit = "gemma4"
  <2>1. LetterOf(swap) = IF swap = 0 THEN "B" ELSE "A"
    BY <1>2 DEF LetterOf
  <2> QED BY <1>2, <2>1 DEF WinnerModel
<1> QED BY <1>1, <1>2

\* A judge that knows the better text by its content is read right in every
\* swap run: _call_judge's letter comes back as the model it meant.
THEOREM ChoicesAreRead == Spec => []PreferenceRead
<1>1. AnswerInv => PreferenceRead
  BY ChoiceIsRead DEF AnswerInv, Answered, Answers, PreferenceRead
<1> QED BY AnswerInvariant, <1>1, PTL

-----------------------------------------------------------------------------
(***************************************************************************)
(* PositionCancels.  Of a judge that answers A whatever it reads, every    *)
(* verdict without error names the model its swap run shows first.  To map *)
(* each line to the line of the other swap run then takes the votes of one *)
(* model into those of the other and the errors, one to one; so neither    *)
(* has more votes than these two together.                                 *)
(***************************************************************************)

\* Every verdict of a file names the model shown as A, or is an error.
FirstNamed(lines) == \A k \in Keys : lines[k] \in Seq({WinnerModel("A", k[2]), "error"})

\* The same prompt and dimension in the other swap run.
Swapped(k) == <<k[1], 1 - k[2], k[3]>>

VotesFor(lines, w) == {l \in Lines(lines) : lines[l[1]][l[2]] = w}

LEMMA KeysFinite == IsFiniteSet(Keys)
<1>1. IsFiniteSet(Swaps)
  BY FS_Interval, SizesAssumption DEF Swaps
<1>2. IsFiniteSet(Prompts \X Swaps)
  BY <1>1, SizesAssumption, FS_Product
<1>3. IsFiniteSet((Prompts \X Swaps) \X Dims)
  BY <1>2, SizesAssumption, FS_Product
<1> DEFINE f == [x \in (Prompts \X Swaps) \X Dims |-> <<x[1][1], x[1][2], x[2]>>]
<1>4. f \in Surjection((Prompts \X Swaps) \X Dims, Keys)
  <2>1. f \in [(Prompts \X Swaps) \X Dims -> Keys]
    BY DEF Keys
  <2>2. ASSUME NEW k \in Keys PROVE \E x \in (Prompts \X Swaps) \X Dims : f[x] = k
    <3>1. <<<<k[1], k[2]>>, k[3]>> \in (Prompts \X Swaps) \X Dims
      BY DEF Keys
    <3>2. f[<<<<k[1], k[2]>>, k[3]>>] = k
      BY <3>1 DEF Keys
    <3> QED BY <3>1, <3>2
  <2> HIDE DEF f
  <2> QED BY <2>1, <2>2 DEF Surjection
<1> HIDE DEF f
<1> QED BY <1>3, <1>4, FS_Surjection

\* With one verdict a key at most, a file has finitely many lines.
LEMMA LinesFinite ==
    ASSUME NEW lines \in [Keys -> Seq(Winners)], \A k \in Keys : Len(lines[k]) <= 1
    PROVE  /\ IsFiniteSet(Lines(lines))
           /\ \A l \in Lines(lines) : l[1] \in Keys /\ l = <<l[1], 1>> /\ Len(lines[l[1]]) = 1
           /\ \A k \in Keys : Len(lines[k]) = 1 => <<k, 1>> \in Lines(lines)
<1>1. \A k \in Keys : DOMAIN lines[k] = 1..Len(lines[k]) /\ Len(lines[k]) \in Nat
  OBVIOUS
<1>2. ASSUME NEW l \in Lines(lines)
      PROVE  l[1] \in Keys /\ l = <<l[1], 1>> /\ Len(lines[l[1]]) = 1
  <2>1. PICK k \in Keys : l \in {k} \X DOMAIN lines[k]
    BY DEF Lines
  <2>2. l[1] = k /\ l[2] \in 1..Len(lines[k]) /\ l = <<l[1], l[2]>>
    BY <1>1, <2>1
  <2>3. l[2] = 1 /\ Len(lines[k]) = 1
    <3>1. Len(lines[k]) \in Nat /\ Len(lines[k]) <= 1
      BY <1>1
    <3>2. ASSUME NEW n \in Nat, n <= 1, NEW i \in 1..n PROVE i = 1 /\ n = 1
      BY <3>2
    <3> QED BY <2>2, <3>1, <3>2
  <2> QED BY <2>2, <2>3
<1>3. ASSUME NEW k \in Keys, Len(lines[k]) = 1 PROVE <<k, 1>> \in Lines(lines)
  <2>1. <<k, 1>> \in {k} \X DOMAIN lines[k]
    BY <1>1, <1>3
  <2> QED BY <2>1 DEF Lines
<1>4. Lines(lines) \subseteq Keys \X {1}
  BY <1>2
<1>5. IsFiniteSet(Keys \X {1})
  BY KeysFinite, FS_Singleton, FS_Product
<1>6. IsFiniteSet(Lines(lines))
  BY <1>4, <1>5, FS_Subset
<1> QED BY <1>2, <1>3, <1>6

LEMMA OneVerdict ==
    ASSUME NEW S, NEW q \in Seq(S)
    PROVE  /\ q # <<>> /\ Len(q) <= 1 => Len(q) = 1
           /\ Len(q) = 1 => q[1] \in S
<1>1. Len(q) \in Nat /\ (Len(q) = 0 => q = <<>>)
  OBVIOUS
<1>2. Len(q) = 1 => q[1] \in S
  OBVIOUS
<1>3. q # <<>> /\ Len(q) <= 1 => Len(q) = 1
  BY <1>1
<1> QED BY <1>2, <1>3

\* The votes of one model go one to one into those of the other and the errors,
\* if the other swap run of each judged key is judged as well.
LEMMA VotesMirrored ==
    ASSUME NEW lines \in [Keys -> Seq(Winners)], \A k \in Keys : Len(lines[k]) <= 1,
           SwapRuns = 2, FirstNamed(lines),
           \A k \in JudgedKeys(lines) : Swapped(k) \in JudgedKeys(lines),
           NEW w \in {"regional", "gemma4"}, NEW v \in {"regional", "gemma4"}, w # v
    PROVE  /\ LinesWith(lines, {w}) \in Nat /\ LinesWith(lines, {v}) \in Nat
           /\ LinesWith(lines, {"error"}) \in Nat
           /\ LinesWith(lines, {w}) <= LinesWith(lines, {v}) + LinesWith(lines, {"error"})
<1> DEFINE W == VotesFor(lines, w)
           V == VotesFor(lines, v)
           E == VotesFor(lines, "error")
           f == [l \in W |-> <<Swapped(l[1]), 1>>]
<1>1. /\ IsFiniteSet(W) /\ IsFiniteSet(V) /\ IsFiniteSet(E)
  <2>1. W \subseteq Lines(lines) /\ V \subseteq Lines(lines) /\ E \subseteq Lines(lines)
    BY DEF VotesFor
  <2> QED BY <2>1, LinesFinite, FS_Subset
<1>2. /\ LinesWith(lines, {w}) = Cardinality(W) /\ LinesWith(lines, {v}) = Cardinality(V)
      /\ LinesWith(lines, {"error"}) = Cardinality(E)
  BY DEF LinesWith, VotesFor
<1>3. \A k \in Keys : k[1] \in Prompts /\ k[2] \in {0, 1} /\ k[3] \in Dims
                      /\ k = <<k[1], k[2], k[3]>>
  BY DEF Keys, Swaps
<1>4. ASSUME NEW l \in W
      PROVE  /\ l[1] \in Keys /\ l = <<l[1], 1>>
             /\ <<Swapped(l[1]), 1>> \in V \cup E
  <2>1. l[1] \in Keys /\ l = <<l[1], 1>> /\ Len(lines[l[1]]) = 1 /\ lines[l[1]][1] = w
    BY LinesFinite DEF VotesFor
  <2> DEFINE k == l[1]
             o == Swapped(k)
  <2>2. k \in JudgedKeys(lines)
    BY <2>1 DEF JudgedKeys
  <2>3. o \in Keys /\ lines[o] # <<>>
    BY <2>2 DEF JudgedKeys
  <2>4. Len(lines[o]) = 1
    BY <2>3, OneVerdict
  <2>5. <<o, 1>> \in Lines(lines)
    BY <2>3, <2>4, LinesFinite
  <2>6. lines[k][1] \in {WinnerModel("A", k[2]), "error"} /\ w # "error"
    BY <2>1, OneVerdict DEF FirstNamed
  <2>7. lines[o][1] \in {WinnerModel("A", o[2]), "error"}
    BY <2>3, <2>4, OneVerdict DEF FirstNamed
  <2>8. o[2] = 1 - k[2] /\ k[2] \in {0, 1}
    BY <1>3, <2>1 DEF Swapped
  <2>9. lines[o][1] \in {v, "error"}
    BY <2>1, <2>6, <2>7, <2>8 DEF WinnerModel
  <2>10. <<o, 1>> \in V \cup E
    BY <2>5, <2>9 DEF VotesFor
  <2> QED BY <2>1, <2>10
<1>5. f \in Injection(W, V \cup E)
  <2>1. f \in [W -> V \cup E]
    BY <1>4
  <2>2. ASSUME NEW l \in W, NEW m \in W, f[l] = f[m] PROVE l = m
    <3>1. Swapped(l[1]) = Swapped(m[1])
      BY <2>2
    <3>2. l[1] \in Keys /\ m[1] \in Keys
      BY <1>4
    <3>3. ASSUME NEW j \in Keys, NEW k \in Keys, Swapped(j) = Swapped(k) PROVE j = k
      <4>1. j[1] = k[1] /\ 1 - j[2] = 1 - k[2] /\ j[3] = k[3]
        BY <3>3 DEF Swapped
      <4>2. j[2] \in {0, 1} /\ k[2] \in {0, 1}
        BY <1>3
      <4>3. j[2] = k[2]
        BY <4>1, <4>2
      <4> QED BY <1>3, <4>1, <4>3
    <3>4. l[1] = m[1]
      BY <3>1, <3>2, <3>3
    <3> QED BY <1>4, <3>4
  <2> HIDE DEF f, W, V, E
  <2> QED BY <2>1, <2>2 DEF Injection, IsInjective
<1> HIDE DEF W, V, E, f
<1>6. IsFiniteSet(V \cup E) /\ Cardinality(W) <= Cardinality(V \cup E)
  BY <1>1, <1>5, FS_Union, FS_Injection
<1>7. Cardinality(V \cup E) = Cardinality(V) + Cardinality(E) - Cardinality(V \cap E)
  BY <1>1, FS_Union
<1>8. /\ Cardinality(W) \in Nat /\ Cardinality(V) \in Nat /\ Cardinality(E) \in Nat
      /\ Cardinality(V \cap E) \in Nat
  <2>1. IsFiniteSet(V \cap E)
    BY <1>1, FS_Subset
  <2> QED BY <1>1, <2>1, FS_CardinalityType
<1> QED BY <1>2, <1>6, <1>7, <1>8

\* The section Report makes of such a file.
LEMMA SectionIsFair ==
    ASSUME IInv, AnswerInv, habit = "first", SwapRuns = 2, NEW s \in Slugs,
           \A k \in JudgedKeys(verdicts[s]) : Swapped(k) \in JudgedKeys(verdicts[s])
    PROVE  LET lines == verdicts[s] IN
             LinesWith(lines, {"regional"}) - LinesWith(lines, {"gemma4"})
               \in (0 - LinesWith(lines, {"error"}))..LinesWith(lines, {"error"})
<1> DEFINE lines == verdicts[s]
<1>1. lines \in [Keys -> Seq(Winners)] /\ \A k \in Keys : Len(lines[k]) <= 1
  BY DEF IInv, TypeOK, Files, JudgedOnce
<1>2. FirstNamed(lines)
  BY DEF AnswerInv, Answered, Answers, FirstNamed, LetterOf
<1> HIDE DEF lines
<1>3. /\ LinesWith(lines, {"regional"}) \in Nat /\ LinesWith(lines, {"gemma4"}) \in Nat
      /\ LinesWith(lines, {"error"}) \in Nat
      /\ LinesWith(lines, {"regional"}) <= LinesWith(lines, {"gemma4"}) + LinesWith(lines, {"error"})
      /\ LinesWith(lines, {"gemma4"}) <= LinesWith(lines, {"regional"}) + LinesWith(lines, {"error"})
  <2>1. \A k \in JudgedKeys(lines) : Swapped(k) \in JudgedKeys(lines)
    BY DEF lines
  <2> QED BY <1>1, <1>2, <2>1, VotesMirrored
<1>4. LinesWith(lines, {"regional"}) - LinesWith(lines, {"gemma4"})
        \in (0 - LinesWith(lines, {"error"}))..LinesWith(lines, {"error"})
  BY <1>3
<1> QED BY <1>4 DEF lines

LEMMA CancelInit == Init => PositionCancels
<1>1. 0 - 0 \in (0 - 0)..0
  OBVIOUS
<1> QED BY <1>1 DEF Init, NoSection, PositionCancels

LEMMA CancelStep == IInv /\ AnswerInv /\ PositionCancels /\ [Next]_vars => PositionCancels'
<1> SUFFICES ASSUME IInv, AnswerInv, PositionCancels, [Next]_vars,
                    habit = "first", SwapRuns = 2, NEW t \in Slugs,
                    \A k \in section'[t].judged : Swapped(k) \in section'[t].judged
             PROVE  LET c == section'[t].counts IN c.regional - c.gemma4 \in (0 - c.error)..c.error
  BY HabitStays DEF PositionCancels, Swapped
<1>1. CASE section'[t] = section[t]
  BY <1>1 DEF PositionCancels, Swapped
<1>2. ASSUME NEW s \in Slugs, Report(s), s = t
      PROVE  LET c == section'[t].counts IN c.regional - c.gemma4 \in (0 - c.error)..c.error
  <2> DEFINE lines == verdicts[t]
  <2>1. /\ section'[t].counts.regional = LinesWith(lines, {"regional"})
        /\ section'[t].counts.gemma4 = LinesWith(lines, {"gemma4"})
        /\ section'[t].counts.error = LinesWith(lines, {"error"})
        /\ section'[t].judged = JudgedKeys(lines)
    BY <1>2 DEF Report, IInv, TypeOK
  <2> QED BY <2>1, SectionIsFair
<1>3. ASSUME NEW s \in Slugs, Report(s), s # t PROVE section'[t] = section[t]
  BY <1>3 DEF Report, IInv, TypeOK
<1>4. ASSUME NEW s \in Slugs, OutputsCommitted(s) \/ ScoresCommitted(s) \/ CallerDies(s)
      PROVE  section' = section
  BY <1>4 DEF OutputsCommitted, ScoresCommitted, CallerDies
<1>5. ASSUME NEW s \in Slugs, NEW c \in Containers, Call(s, c) \/ Commit(c, s)
      PROVE  section' = section
  BY <1>5 DEF Call, Commit
<1>6. ASSUME NEW c \in Containers, JudgeKey(c) \/ Finish(c) \/ Die(c)
      PROVE  section' = section
  BY <1>6 DEF JudgeKey, Finish, Die
<1>7. CASE UNCHANGED vars
  BY <1>1, <1>7 DEF vars
<1> QED BY <1>1, <1>2, <1>3, <1>4, <1>5, <1>6, <1>7 DEF Next

\* Two swap runs cancel a position bias, for any prompts, dimensions, limit and
\* containers, and whatever died or was resumed between the runs: when a section
\* counts both swap runs of everything it counts, a judge that always answers A
\* gives the models votes that differ by no more than its failed judgments.
THEOREM PositionBiasCancels == Spec => []PositionCancels
<1>1. IInv /\ AnswerInv /\ PositionCancels /\ [Next]_vars => PositionCancels'
  BY CancelStep
<1> QED BY AnswerInvariant, CancelInit, <1>1, PTL DEF Spec

-----------------------------------------------------------------------------
(* The grade of a section, for every win rate, COMET delta and BLEU.        *)

\* Grades from best to worst.
Rank == [g \in Grades |-> IF g = "A" THEN 1 ELSE IF g = "B" THEN 2
                          ELSE IF g = "C" THEN 3 ELSE IF g = "D" THEN 4 ELSE 5]

NotWorse(g, h) == Rank[g] <= Rank[h]

LEMMA JudgeGradeMonotone ==
    ASSUME NEW v \in Int, NEW w \in Int, v <= w
    PROVE  /\ JudgeGrade(v) \in Grades /\ JudgeGrade(w) \in Grades
           /\ NotWorse(JudgeGrade(w), JudgeGrade(v))
BY DEF JudgeGrade, Grades, NotWorse, Rank

LEMMA RefineMonotone ==
    ASSUME NEW g \in Grades, NEW h \in Grades, NotWorse(g, h),
           NEW d \in Int, NEW e \in Int, d <= e
    PROVE  /\ Refine(g, e) \in Grades /\ Refine(h, d) \in Grades
           /\ NotWorse(Refine(g, e), Refine(h, d))
<1>1. d # None /\ e # None
  BY NoneAssumption
<1>2. /\ Refine(g, e) = IF e > 200 /\ g \in {"B", "C"} THEN "A"
                        ELSE IF e < -500 /\ g \in {"C", "D"} THEN "E" ELSE g
      /\ Refine(h, d) = IF d > 200 /\ h \in {"B", "C"} THEN "A"
                        ELSE IF d < -500 /\ h \in {"C", "D"} THEN "E" ELSE h
  BY <1>1 DEF Refine
<1> QED BY <1>2 DEF Grades, NotWorse, Rank

LEMMA CometGradeMonotone ==
    ASSUME NEW d \in Int, NEW e \in Int, d <= e
    PROVE  /\ CometGrade(d) \in Grades /\ CometGrade(e) \in Grades
           /\ NotWorse(CometGrade(e), CometGrade(d))
BY DEF CometGrade, Grades, NotWorse, Rank

LEMMA BleuGradeMonotone ==
    ASSUME NEW b \in Int, NEW c \in Int, b <= c
    PROVE  NotWorse(BleuGrade(c), BleuGrade(b))
BY DEF BleuGrade, Grades, NotWorse, Rank

Signals == Int \cup {None}

\* The same signal at two sections: absent at both, or not lower at the second.
Rises(x, y) == (x = None /\ y = None) \/ (x \in Int /\ y \in Int /\ x <= y)

\* _classify, three cascades of thresholds and a refinement that may jump over
\* grades: whatever signals are at hand the grade is one of A to E, and with the
\* same signals at hand a language whose win rate, COMET delta and BLEU are all
\* at least as high is never graded worse.
THEOREM BetterSignalsBetterGrade ==
    ASSUME NEW v \in Signals, NEW w \in Signals, NEW d \in Signals,
           NEW e \in Signals, NEW b \in Signals, NEW c \in Signals
    PROVE  /\ Classify(w, e, c) \in Grades
           /\ Rises(v, w) /\ Rises(d, e) /\ Rises(b, c)
              => NotWorse(Classify(w, e, c), Classify(v, d, b))
<1>1. SUFFICES ASSUME Rises(v, w), Rises(d, e), Rises(b, c)
               PROVE  NotWorse(Classify(w, e, c), Classify(v, d, b))
  BY GradeType
<1>2. CASE v \in Int /\ w \in Int
  <2>1. v <= w /\ v # None /\ w # None
    BY <1>1, <1>2, NoneAssumption DEF Rises
  <2>2. CASE d \in Int /\ e \in Int /\ d <= e
    BY <1>2, <2>1, <2>2, JudgeGradeMonotone, RefineMonotone DEF Classify
  <2>3. CASE d = None /\ e = None
    BY <1>2, <2>1, <2>3, JudgeGradeMonotone DEF Classify, Refine
  <2> QED BY <1>1, <2>2, <2>3 DEF Rises
<1>3. CASE v = None /\ w = None /\ d \in Int /\ e \in Int
  <2>1. d <= e /\ d # None /\ e # None
    BY <1>1, <1>3, NoneAssumption DEF Rises
  <2> QED BY <1>3, <2>1, CometGradeMonotone DEF Classify
<1>4. CASE v = None /\ w = None /\ d = None /\ e = None /\ b \in Int /\ c \in Int
  <2>1. b <= c /\ b # None /\ c # None
    BY <1>1, <1>4, NoneAssumption DEF Rises
  <2> QED BY <1>4, <2>1, BleuGradeMonotone DEF Classify
<1>5. CASE v = None /\ w = None /\ d = None /\ e = None /\ b = None /\ c = None
  BY <1>5 DEF Classify, NotWorse, Rank, Grades
<1> QED BY <1>1, <1>2, <1>3, <1>4, <1>5 DEF Rises

-----------------------------------------------------------------------------
(* MetricReport: the number metrics agree                                  *)

OutputsAreSamples == setting \in Settings /\ batch \in Seq(setting.samples)

LEMMA TallyCounts ==
    \A C, P : Tally(C, P) = [correct |-> Cardinality(P), total |-> Cardinality(C)]
  BY DEF Tally

LEMMA OutputsInvariant == ReportSpec => []OutputsAreSamples
<1>1. ReportInit => OutputsAreSamples
  BY DEF ReportInit, OutputsAreSamples
<1>2. OutputsAreSamples /\ [ReportNext]_reportVars => OutputsAreSamples'
  <2> SUFFICES ASSUME OutputsAreSamples, [ReportNext]_reportVars PROVE OutputsAreSamples'
    OBVIOUS
  <2>1. CASE \E o \in setting.samples : AddOutput(o)
    BY <2>1 DEF AddOutput, OutputsAreSamples
  <2>2. CASE \E letter \in Letters : AddVerdict(letter)
    BY <2>2 DEF AddVerdict, OutputsAreSamples
  <2>3. CASE UNCHANGED reportVars
    BY <2>3 DEF reportVars, OutputsAreSamples
  <2> QED BY <2>1, <2>2, <2>3 DEF ReportNext
<1> QED BY <1>1, <1>2, PTL DEF ReportSpec

NumberOutputs ==
    {i \in DOMAIN batch : task = "instructions" /\ batch[i].category = "number_verbalization"}

LEMMA NumberOutputsFit ==
    ASSUME OutputsAreSamples
    PROVE  /\ IsFiniteSet(NumberOutputs)
           /\ \A i \in NumberOutputs : IsNumberSample(batch[i])
<1>1. DOMAIN batch = 1..Len(batch) /\ Len(batch) \in Nat
  BY DEF OutputsAreSamples
<1>2. IsFiniteSet(DOMAIN batch)
  BY <1>1, FS_Interval
<1>3. IsFiniteSet(NumberOutputs)
  BY <1>2, FS_Subset DEF NumberOutputs
<1>4. ASSUME NEW i \in NumberOutputs PROVE IsNumberSample(batch[i])
  <2>1. batch[i] \in setting.samples
    BY <1>1 DEF NumberOutputs, OutputsAreSamples
  <2> QED BY <2>1, SettingsAssumption DEF task, NumberOutputs, OutputsAreSamples
<1> QED BY <1>3, <1>4

\* A number with digits that occurs in a text leaves one of them there.
LEMMA DigitsOccur ==
    ASSUME NEW num \in Seq(Tokens), NEW text \in Seq(Tokens),
           DigitsOf(num) # {}, Occurs(num, text)
    PROVE  \E k \in DOMAIN text : text[k] \in Digits
<1>1. PICK j \in DOMAIN num : num[j] \in Digits
  BY DEF DigitsOf, Words
<1>2. PICK i \in 0..Len(text) :
        i + Len(num) <= Len(text) /\ \A k \in DOMAIN num : text[i + k] = num[k]
  BY DEF Occurs
<1>3. j \in 1..Len(num) /\ Len(num) \in Nat /\ Len(text) \in Nat /\ DOMAIN text = 1..Len(text)
  OBVIOUS
<1>4. i + j \in DOMAIN text
  BY <1>2, <1>3
<1> QED BY <1>1, <1>2, <1>4

\* Leaked reads as in WordForm: a number with digits is in the output.
Leaks(o) == \E num \in o.numbers : DigitsOf(num) # {} /\ Occurs(num, o.output)

LEMMA LeaksIsRaw ==
    ASSUME NEW o, IsNumberSample(o) PROVE Leaks(o) <=> Raw(o)
  BY DEF Leaks, Raw, IsNumberSample

\* Two parts of a finite set count what the set counts.
LEMMA Parts ==
    ASSUME NEW S, IsFiniteSet(S), NEW A, NEW B, S = A \cup B, A \cap B = {}
    PROVE  Cardinality(S) = Cardinality(A) + Cardinality(B)
<1>1. A \subseteq S /\ B \subseteq S
  OBVIOUS
<1>2. IsFiniteSet(A) /\ IsFiniteSet(B)
  BY <1>1, FS_Subset
<1>3. Cardinality(A \cup B) = Cardinality(A) + Cardinality(B) - Cardinality(A \cap B)
  BY <1>2, FS_Union
<1>4. Cardinality(A \cap B) = 0
  BY FS_EmptySet
<1>5. Cardinality(A) \in Nat /\ Cardinality(B) \in Nat
  BY <1>2, FS_CardinalityType
<1> QED BY <1>3, <1>4, <1>5

\* Leaked digits have finitely many places.
LEMMA LeaksFinite ==
    ASSUME NEW I, IsFiniteSet(I), \A i \in I : IsNumberSample(batch[i])
    PROVE  IsFiniteSet(Leaked(batch, I))
<1> DEFINE T == {{i} \X Places(batch[i]) : i \in I}
           f == [i \in I |-> {i} \X Places(batch[i])]
<1>1. ASSUME NEW i \in I PROVE IsFiniteSet({i} \X Places(batch[i]))
  <2>1. DOMAIN batch[i].output = 1..Len(batch[i].output) /\ Len(batch[i].output) \in Nat
    BY DEF IsNumberSample
  <2>2. IsFiniteSet(DOMAIN batch[i].output)
    <3>1. IsFiniteSet(1..Len(batch[i].output))
      BY <2>1, FS_Interval
    <3> QED BY <2>1, <3>1
  <2>3. Places(batch[i]) \in SUBSET DOMAIN batch[i].output
    BY DEF Places
  <2>4. IsFiniteSet(Places(batch[i]))
    BY <2>2, <2>3, FS_Subset
  <2> QED BY <2>4, FS_Singleton, FS_Product
<1>2. \A x \in T : IsFiniteSet(x)
  BY <1>1
<1>3. f \in Surjection(I, T)
  BY DEF Surjection
<1> HIDE DEF f, T
<1>4. IsFiniteSet(T)
  BY <1>3, FS_Surjection
<1>5. IsFiniteSet(UNION T)
  BY <1>2, <1>4, FS_UNION
<1> QED BY <1>5 DEF T, Leaked

\* What the metrics count, by name.
LEMMA MetricCounts ==
    ASSUME NEW b, NEW I, NEW C, NEW P
    PROVE  /\ C = {i \in I : ShouldBeDigitByDigit(b[i])} /\ P = {i \in C : ~Raw(b[i])}
                => DigitByDigit(b, I) = Tally(C, P)
           /\ C = {i \in I : ShouldBeWordForm(b[i])} /\ P = {i \in C : ~Leaks(b[i])}
                => WordForm(b, I) = Tally(C, P)
           /\ C = {i \in I : b[i].rule = "mixed"} /\ P = {i \in C : ~Raw(b[i])}
                => MixedSentence(b, I) = Tally(C, P)
           /\ C = {i \in I : b[i].rule # "digit_by_digit"}
                => DigitLeakage(b, I).count = Cardinality(Leaked(b, C))
<1>1. C = {i \in I : ShouldBeDigitByDigit(b[i])} /\ P = {i \in C : ~Raw(b[i])}
        => DigitByDigit(b, I) = Tally(C, P)
  BY DEF DigitByDigit
<1>2. C = {i \in I : ShouldBeWordForm(b[i])} /\ P = {i \in C : ~Leaks(b[i])}
        => WordForm(b, I) = Tally(C, P)
  BY DEF WordForm, Leaks
<1>3. C = {i \in I : b[i].rule = "mixed"} /\ P = {i \in C : ~Raw(b[i])}
        => MixedSentence(b, I) = Tally(C, P)
  BY DEF MixedSentence
<1>4. C = {i \in I : b[i].rule # "digit_by_digit"}
        => DigitLeakage(b, I).count = Cardinality(Leaked(b, C))
  BY DEF DigitLeakage
<1> QED BY <1>1, <1>2, <1>3, <1>4

LEMMA NumbersAgree ==
    ASSUME OutputsAreSamples PROVE NumberMetricsAgree
<1> DEFINE numbers == NumberOutputs
           unmixed == {i \in numbers : batch[i].rule # "mixed"}
           mixed   == {i \in numbers : batch[i].rule = "mixed"}
           asWords == {i \in numbers : batch[i].rule # "digit_by_digit"}
           byDigit == {i \in numbers : batch[i].rule = "digit_by_digit"}
           byWord  == {i \in numbers : batch[i].rule = "word_form"}
           raw     == {i \in numbers : Raw(batch[i])}
           places  == Leaked(batch, asWords)
           leakage == DigitLeakage(batch, numbers).count
<1>1. /\ IsFiniteSet(numbers)
      /\ \A i \in numbers : IsNumberSample(batch[i])
  BY NumberOutputsFit
<1>2. \A i \in numbers : /\ batch[i].rule \in {"digit_by_digit", "word_form", "mixed"}
                         /\ batch[i].output \in Seq(Tokens)
                         /\ batch[i].numbers # {}
                         /\ \A num \in batch[i].numbers : num \in Seq(Tokens) /\ DigitsOf(num) # {}
                         /\ Leaks(batch[i]) <=> Raw(batch[i])
  BY <1>1, LeaksIsRaw DEF IsNumberSample
<1> HIDE DEF numbers
<1>3. /\ IsFiniteSet(unmixed) /\ IsFiniteSet(mixed) /\ IsFiniteSet(asWords)
      /\ IsFiniteSet(unmixed \ raw)
  BY <1>1, FS_Subset
<1>4. NumberTypeCls(batch, unmixed) =
        Tally(unmixed, unmixed \ raw)
  <2> DEFINE ruled(o) == \/ o.rule \in {"digit_by_digit", "word_form"}
                         \/ /\ o.rule = "mixed"
                            /\ o.number_type \in o.digit_by_digit_types \cup o.word_form_types
  <2>1. \A i \in unmixed : ruled(batch[i])
    BY <1>2
  <2>2. {i \in unmixed : ruled(batch[i]) /\ ~Raw(batch[i])} = unmixed \ raw
    BY <2>1
  <2>3. NumberTypeCls(batch, unmixed) =
          Tally(unmixed, {i \in unmixed : ruled(batch[i]) /\ ~Raw(batch[i])})
    BY DEF NumberTypeCls
  <2> QED BY <2>2, <2>3
<1>5. DigitByDigit(batch, unmixed) =
        Tally(byDigit, byDigit \ raw)
  <2>1. {i \in unmixed : ShouldBeDigitByDigit(batch[i])} = byDigit
    BY DEF ShouldBeDigitByDigit
  <2>2. {i \in byDigit : ~Raw(batch[i])} = byDigit \ raw
    OBVIOUS
  <2> QED BY <2>1, <2>2, MetricCounts
<1>6. WordForm(batch, unmixed) =
        Tally(byWord, byWord \ raw)
  <2>1. {i \in unmixed : ShouldBeWordForm(batch[i])} = byWord
    BY DEF ShouldBeWordForm
  <2>2. {i \in byWord : ~Leaks(batch[i])} = byWord \ raw
    BY <1>2
  <2> QED BY <2>1, <2>2, MetricCounts
<1>7. /\ Cardinality(unmixed) = Cardinality(byDigit) + Cardinality(byWord)
      /\ Cardinality(unmixed \ raw) = Cardinality(byDigit \ raw) + Cardinality(byWord \ raw)
  <2>1. unmixed = byDigit \cup byWord /\ byDigit \cap byWord = {}
    BY <1>2
  <2>2. unmixed \ raw = (byDigit \ raw) \cup (byWord \ raw) /\ (byDigit \ raw) \cap (byWord \ raw) = {}
    BY <2>1
  <2> HIDE DEF unmixed, byDigit, byWord, raw
  <2> QED BY <1>3, <2>1, <2>2, Parts
<1>8. NumberTypeCls(batch, unmixed) =
        [correct |-> DigitByDigit(batch, unmixed).correct + WordForm(batch, unmixed).correct,
         total   |-> DigitByDigit(batch, unmixed).total + WordForm(batch, unmixed).total]
  <2>1. /\ DigitByDigit(batch, unmixed).correct = Cardinality(byDigit \ raw)
        /\ DigitByDigit(batch, unmixed).total = Cardinality(byDigit)
    BY <1>5, TallyCounts
  <2>2. /\ WordForm(batch, unmixed).correct = Cardinality(byWord \ raw)
        /\ WordForm(batch, unmixed).total = Cardinality(byWord)
    BY <1>6, TallyCounts
  <2> HIDE DEF unmixed, byDigit, byWord, raw
  <2> QED BY <1>4, <1>7, <2>1, <2>2, TallyCounts
<1>9. /\ MixedSentence(batch, numbers) =
           Tally(mixed, mixed \ raw)
      /\ DigitByDigit(batch, mixed) =
           Tally(mixed, mixed \ raw)
  <2>1. {i \in mixed : ShouldBeDigitByDigit(batch[i])} = mixed
    BY DEF ShouldBeDigitByDigit
  <2>2. {i \in mixed : ~Raw(batch[i])} = mixed \ raw
    OBVIOUS
  <2>3. DigitByDigit(batch, mixed) =
          Tally(mixed, mixed \ raw)
    <3>1. DigitByDigit(batch, mixed) =
            LET counted == {i \in mixed : ShouldBeDigitByDigit(batch[i])} IN
            Tally(counted, {i \in counted : ~Raw(batch[i])})
      BY DEF DigitByDigit
    <3> QED BY <2>1, <2>2, <3>1
  <2>4. MixedSentence(batch, numbers) =
          Tally(mixed, mixed \ raw)
    BY <2>2, MetricCounts
  <2> QED BY <2>3, <2>4
<1>10. MixedSentence(batch, numbers).correct <= WordForm(batch, mixed).correct
  <2>1. {i \in mixed : ShouldBeWordForm(batch[i])} = mixed
    BY DEF ShouldBeWordForm
  <2>2. {i \in mixed : ~Leaks(batch[i])} = mixed \ raw
    BY <1>2
  <2>3. WordForm(batch, mixed).correct = Cardinality(mixed \ raw)
    <3> DEFINE C == mixed
               P == mixed \ raw
    <3>1. C = {i \in mixed : ShouldBeWordForm(batch[i])} /\ P = {i \in C : ~Leaks(batch[i])}
      BY <2>1, <2>2
    <3> HIDE DEF C, P, mixed
    <3>2. WordForm(batch, mixed) = Tally(C, P)
      BY <3>1 DEF WordForm, Leaks
    <3> QED BY <3>2, TallyCounts DEF P
  <2>4. IsFiniteSet(mixed \ raw)
    BY <1>3, FS_Subset
  <2>5. Cardinality(mixed \ raw) \in Nat
    BY <2>4, FS_CardinalityType
  <2> QED BY <1>9, <2>3, <2>5, TallyCounts
<1>11. leakage = Cardinality(places) /\ IsFiniteSet(places)
  <2>1. leakage = Cardinality(places)
    BY MetricCounts
  <2>2. IsFiniteSet(places)
    <3>1. \A i \in asWords : IsNumberSample(batch[i])
      BY <1>1
    <3> HIDE DEF asWords
    <3> QED BY <1>3, <3>1, LeaksFinite
  <2> QED BY <2>1, <2>2
<1>12. ASSUME leakage = 0
       PROVE  WordForm(batch, numbers).correct = WordForm(batch, numbers).total
  <2> DEFINE counted == {i \in numbers : ShouldBeWordForm(batch[i])}
  <2>1. places = {}
    BY <1>11, <1>12, FS_EmptySet
  <2>2. ASSUME NEW i \in counted PROVE ~Leaks(batch[i])
    <3>1. i \in asWords /\ i \in numbers
      BY DEF ShouldBeWordForm
    <3>2. Places(batch[i]) = {}
      <4>1. {i} \X Places(batch[i]) \subseteq places
        BY <3>1 DEF Leaked
      <4>2. \A k \in Places(batch[i]) : <<i, k>> \in places
        BY <4>1
      <4> QED BY <2>1, <4>2
    <3>3. ASSUME Leaks(batch[i]) PROVE FALSE
      <4>1. PICK num \in batch[i].numbers : DigitsOf(num) # {} /\ Occurs(num, batch[i].output)
        BY <3>3 DEF Leaks
      <4>2. num \in Seq(Tokens) /\ batch[i].output \in Seq(Tokens)
        BY <1>2, <3>1
      <4>3. \E k \in DOMAIN batch[i].output : batch[i].output[k] \in Digits
        BY <4>1, <4>2, DigitsOccur
      <4> QED BY <3>2, <4>3 DEF Places
    <3> QED BY <3>3
  <2>3. {i \in counted : ~Leaks(batch[i])} = counted
    BY <2>2
  <2> HIDE DEF numbers
  <2>4. WordForm(batch, numbers) = Tally(counted, counted)
    <3> DEFINE C == counted
    <3>1. C = {i \in numbers : ShouldBeWordForm(batch[i])} /\ C = {i \in C : ~Leaks(batch[i])}
      BY <2>3
    <3> HIDE DEF C
    <3>2. WordForm(batch, numbers) = Tally(C, C)
      BY <3>1, MetricCounts
    <3> QED BY <3>2 DEF C
  <2> QED BY <2>4, TallyCounts
<1>13. leakage >= DigitPreservation(batch, asWords).correct
  <2> DEFINE kept == {i \in asWords : \A num \in batch[i].numbers :
                        DigitsOf(num) \subseteq DigitsOf(batch[i].output)}
             f    == [i \in kept |-> <<i, CHOOSE k \in Places(batch[i]) : TRUE>>]
  <2>1. DigitPreservation(batch, asWords).correct = Cardinality(kept)
    <3>1. DigitPreservation(batch, asWords) = Tally(asWords, kept)
      BY DEF DigitPreservation
    <3> QED BY <3>1, TallyCounts
  <2>2. ASSUME NEW i \in kept PROVE f[i] \in places /\ f[i][1] = i
    <3>1. i \in asWords /\ i \in numbers
      OBVIOUS
    <3>2. PICK num \in batch[i].numbers : DigitsOf(num) # {}
      BY <1>2, <3>1
    <3>3. DigitsOf(batch[i].output) # {}
      BY <3>2
    <3>4. Places(batch[i]) # {}
      BY <3>3 DEF Places, DigitsOf, Words
    <3>5. (CHOOSE k \in Places(batch[i]) : TRUE) \in Places(batch[i])
      BY <3>4
    <3>6. f[i] = <<i, CHOOSE k \in Places(batch[i]) : TRUE>>
      OBVIOUS
    <3>7. f[i] \in {i} \X Places(batch[i])
      BY <3>5, <3>6
    <3> HIDE DEF f, kept, asWords
    <3> QED BY <3>1, <3>6, <3>7 DEF Leaked
  <2>3. f \in Injection(kept, places)
    <3>1. f \in [kept -> places]
      <4> HIDE DEF kept, places
      <4> QED BY <2>2
    <3> HIDE DEF f, kept, places
    <3> QED BY <2>2, <3>1 DEF Injection, IsInjective
  <2>4. Cardinality(kept) <= Cardinality(places)
    <3> HIDE DEF f, kept, places
    <3> QED BY <1>11, <2>3, FS_Injection
  <2>5. Cardinality(kept) \in Nat /\ Cardinality(places) \in Nat
    <3>1. IsFiniteSet(kept)
      BY <1>3, FS_Subset
    <3> QED BY <1>11, <3>1, FS_CardinalityType
  <2> HIDE DEF kept, places, leakage
  <2> QED BY <1>11, <2>1, <2>4, <2>5
<1>14. MixedSentence(batch, numbers) = DigitByDigit(batch, mixed)
  BY <1>9
<1> QED
  BY <1>8, <1>10, <1>12, <1>13, <1>14 DEF NumberMetricsAgree, numbers, NumberOutputs

\* The metrics that judge the same number outputs agree, whatever the outputs
\* are: number_type_cls with digit_by_digit and word_form, mixed_sentence with
\* both, and word_form and digit_preservation with digit_leakage.
THEOREM NumberMetricsAreOne ==
    ReportSpec => []NumberMetricsAgree
<1>1. OutputsAreSamples => NumberMetricsAgree
  BY NumbersAgree
<1> QED BY <1>1, OutputsInvariant, PTL

-----------------------------------------------------------------------------
(* Arithmetic of the rates                                                 *)

LEMMA DivUnique ==
    ASSUME NEW a \in Nat, NEW d \in Nat \ {0}, NEW q \in Nat, NEW r \in Nat, r < d, a = q * d + r
    PROVE  a \div d = q /\ a % d = r
  OBVIOUS

LEMMA DivIs ==
    ASSUME NEW a \in Nat, NEW d \in Nat \ {0}
    PROVE  /\ a \div d \in Nat /\ a % d \in Nat /\ a % d < d
           /\ a = (a \div d) * d + (a % d)
  OBVIOUS

LEMMA TimesMonotone ==
    ASSUME NEW a \in Nat, NEW b \in Nat, NEW n \in Nat
    PROVE  /\ a * n \in Nat
           /\ a <= b => a * n <= b * n
           /\ n # 0 => (a < b <=> a * n < b * n) /\ (a = b <=> a * n = b * n)
<1>1. a * n \in Nat /\ b * n \in Nat
  OBVIOUS
<1>2. ASSUME NEW k \in Nat, b = a + k PROVE b * n = a * n + k * n /\ k * n \in Nat
  BY <1>2
<1>3. ASSUME NEW k \in Nat, a = b + k PROVE a * n = b * n + k * n /\ k * n \in Nat
  BY <1>3
<1>4. ASSUME NEW k \in Nat, n # 0, k # 0 PROVE k * n > 0
  BY <1>4
<1>5. CASE a <= b
  <2>1. b - a \in Nat /\ b = a + (b - a)
    BY <1>5
  <2>2. b * n = a * n + (b - a) * n /\ (b - a) * n \in Nat
    BY <2>1, <1>2
  <2>3. n # 0 /\ b - a # 0 => (b - a) * n > 0
    BY <2>1, <1>4
  <2> DEFINE x == (b - a) * n
             y == b * n
             z == a * n
  <2>4. x \in Nat /\ y \in Nat /\ z \in Nat /\ y = z + x /\ (n # 0 /\ b - a # 0 => x > 0)
    BY <1>1, <2>2, <2>3
  <2>5. b - a = 0 => y = z
    OBVIOUS
  <2> HIDE DEF x, y, z
  <2>6. z \in Nat /\ z <= y /\ (n # 0 => (a < b <=> z < y) /\ (a = b <=> z = y))
    BY <1>5, <2>4, <2>5
  <2> QED BY <1>5, <2>6 DEF y, z
<1>6. CASE b < a
  <2>1. a - b \in Nat /\ a = b + (a - b) /\ a - b # 0
    BY <1>6
  <2>2. a * n = b * n + (a - b) * n /\ (a - b) * n \in Nat
    BY <2>1, <1>3
  <2>3. n # 0 => (a - b) * n > 0
    BY <2>1, <1>4
  <2> DEFINE x == (a - b) * n
             y == b * n
             z == a * n
  <2>4. x \in Nat /\ y \in Nat /\ z \in Nat /\ z = y + x /\ (n # 0 => x > 0)
    BY <1>1, <2>2, <2>3
  <2> HIDE DEF x, y, z
  <2>6. z \in Nat /\ (n # 0 => y < z)
    BY <2>4
  <2> QED BY <1>6, <2>4, <2>6 DEF y, z
<1> QED BY <1>5, <1>6

LEMMA TimesAssociate ==
    ASSUME NEW a \in Nat, NEW b \in Nat, NEW c \in Nat
    PROVE  /\ a * (b * c) = (a * b) * c /\ a * b = b * a /\ a * b \in Nat
           /\ (a + b) * c = a * c + b * c
  OBVIOUS

\* A rate is the same for n times as many of n times as many.
LEMMA RoundedScales ==
    ASSUME NEW s \in Nat, NEW w \in Nat, NEW p \in Nat \ {0}, NEW n \in Nat \ {0}
    PROVE  Rounded(s, w * n, p * n) = Rounded(s, w, p)
<1> DEFINE a == s * w
           q == a \div p
           r == a % p
           d == p * n
           b == s * (w * n)
           t == r * n
<1>1. a \in Nat /\ d \in Nat \ {0} /\ b = a * n /\ b \in Nat
  OBVIOUS
<1>2. q \in Nat /\ r \in Nat /\ r < p /\ a = q * p + r
  <2> HIDE DEF a
  <2> QED BY <1>1, DivIs
<1> HIDE DEF a, q, r
<1>3. t \in Nat /\ t < d
  BY <1>2, TimesMonotone
<1>4. b = q * d + t
  <2>1. (q * p + r) * n = (q * p) * n + r * n
    BY <1>2, TimesAssociate
  <2>2. (q * p) * n = q * (p * n)
    BY <1>2, TimesAssociate
  <2> QED BY <1>1, <1>2, <2>1, <2>2
<1>5. (2 * t > d <=> 2 * r > p) /\ (2 * t = d <=> 2 * r = p)
  <2>1. 2 * r \in Nat /\ 2 * t = (2 * r) * n
    BY <1>2
  <2>2. (p < 2 * r <=> p * n < (2 * r) * n) /\ (2 * r = p <=> (2 * r) * n = p * n)
    BY <2>1, TimesMonotone
  <2> QED BY <1>2, <1>3, <2>1, <2>2
<1> HIDE DEF b, d, t
<1>6. b \div d = q /\ b % d = t
  BY <1>1, <1>2, <1>3, <1>4, DivUnique
<1>7. Rounded(s, w * n, p * n) =
        IF 2 * (b % d) > d \/ (2 * (b % d) = d /\ (b \div d) % 2 = 1) THEN b \div d + 1 ELSE b \div d
  BY DEF Rounded, b, d
<1>8. Rounded(s, w, p) = IF 2 * r > p \/ (2 * r = p /\ q % 2 = 1) THEN q + 1 ELSE q
  BY DEF Rounded, q, r, a
<1> QED BY <1>5, <1>6, <1>7, <1>8

LEMMA RoundedEnds ==
    ASSUME NEW s \in Nat, NEW n \in Nat \ {0}
    PROVE  Rounded(s, 0, n) = 0 /\ Rounded(s, n, n) = s
<1>1. s * 0 = 0 /\ 0 \div n = 0 /\ 0 % n = 0
  BY DivUnique
<1>2. (s * n) \div n = s /\ (s * n) % n = 0
  <2>1. s * n \in Nat /\ s * n = s * n + 0
    OBVIOUS
  <2> QED BY <2>1, DivUnique
<1> QED BY <1>1, <1>2 DEF Rounded

-----------------------------------------------------------------------------
(* MetricReport: the statistics of a verdict file are fair                 *)

\* The file has one verdict a key at most, each as the judge writes it.
FileInv ==
    /\ file \in Seq({Verdict(k, l) : k \in Keys, l \in Letters})
    /\ \A i, j \in DOMAIN file : KeyOf(file[i]) = KeyOf(file[j]) => i = j

LEMMA KeyOfVerdict ==
    ASSUME NEW k \in Keys, NEW l
    PROVE  /\ KeyOf(Verdict(k, l)) = k
           /\ k[1] \in Prompts /\ k[2] \in 0..(SwapRuns - 1) /\ k[3] \in Dims
  BY DEF KeyOf, Verdict, Keys, Swaps

LEMMA FileInvariant == ReportSpec => []FileInv
<1>1. ReportInit => FileInv
  BY DEF ReportInit, FileInv
<1>2. FileInv /\ [ReportNext]_reportVars => FileInv'
  <2> SUFFICES ASSUME FileInv, [ReportNext]_reportVars PROVE FileInv'
    OBVIOUS
  <2>1. CASE \E o \in setting.samples : AddOutput(o)
    BY <2>1 DEF AddOutput, FileInv
  <2>2. CASE \E letter \in Letters : AddVerdict(letter)
    <3> DEFINE Lines0 == {Verdict(k, l) : k \in Keys, l \in Letters}
    <3>1. PICK letter \in Letters, key \in NextKeys(file) :
            file' = Append(file, Verdict(key, letter))
      BY <2>2 DEF AddVerdict
    <3>2. key \in Keys /\ \A i \in DOMAIN file : KeyOf(file[i]) # key
      BY DEF NextKeys, First
    <3>3. Verdict(key, letter) \in Lines0
      BY <3>2
    <3>4. file \in Seq(Lines0)
      BY DEF FileInv
    <3> HIDE DEF Lines0
    <3>5. /\ file' \in Seq(Lines0)
          /\ DOMAIN file' = 1..(Len(file) + 1) /\ DOMAIN file = 1..Len(file) /\ Len(file) \in Nat
          /\ \A i \in 1..Len(file) : file'[i] = file[i]
          /\ file'[Len(file) + 1] = Verdict(key, letter)
      BY <3>1, <3>3, <3>4
    <3>6. KeyOf(Verdict(key, letter)) = key
      BY <3>2, KeyOfVerdict
    <3>7. ASSUME NEW i \in DOMAIN file', NEW j \in DOMAIN file',
                 KeyOf(file'[i]) = KeyOf(file'[j])
          PROVE  i = j
      <4>1. CASE i \in 1..Len(file) /\ j \in 1..Len(file)
        BY <3>5, <3>7, <4>1 DEF FileInv
      <4>2. CASE i \in 1..Len(file) /\ j = Len(file) + 1
        BY <3>2, <3>5, <3>6, <3>7, <4>2
      <4>3. CASE j \in 1..Len(file) /\ i = Len(file) + 1
        BY <3>2, <3>5, <3>6, <3>7, <4>3
      <4>4. (i \in 1..Len(file) \/ i = Len(file) + 1) /\ (j \in 1..Len(file) \/ j = Len(file) + 1)
        BY <3>5
      <4> QED BY <4>1, <4>2, <4>3, <4>4
    <3>8. \A i, j \in DOMAIN file' : KeyOf(file'[i]) = KeyOf(file'[j]) => i = j
      BY <3>7
    <3>9. file' \in Seq({Verdict(k, l) : k \in Keys, l \in Letters})
      BY <3>5 DEF Lines0
    <3> QED BY <3>8, <3>9 DEF FileInv
  <2>3. CASE UNCHANGED reportVars
    BY <2>3 DEF reportVars, FileInv
  <2> QED BY <2>1, <2>2, <2>3 DEF ReportNext
<1> QED BY <1>1, <1>2, PTL DEF ReportSpec

\* What a line of the file is.
LEMMA FileLines ==
    ASSUME FileInv, NEW i \in DOMAIN file
    PROVE  /\ KeyOf(file[i]) \in Keys
           /\ file[i] = [prompt |-> file[i].prompt, swap_run |-> file[i].swap_run,
                         dimension |-> file[i].dimension, letter |-> file[i].letter,
                         winner_model |-> file[i].winner_model, error |-> file[i].error]
           /\ KeyOf(file[i]) = <<file[i].prompt, file[i].swap_run, file[i].dimension>>
           /\ file[i].prompt \in Prompts /\ file[i].dimension \in Dims
           /\ file[i].swap_run \in 0..(SwapRuns - 1)
           /\ file[i].winner_model = WinnerModel(file[i].letter, file[i].swap_run)
           /\ file[i].winner_model \in {"regional", "gemma4", "tie"}
           /\ file[i].error \in BOOLEAN
<1>1. file[i] \in {Verdict(k, l) : k \in Keys, l \in Letters}
  BY DEF FileInv
<1>2. PICK k \in Keys, l \in Letters : file[i] = Verdict(k, l)
  BY <1>1
<1>3. /\ file[i].prompt = k[1] /\ file[i].swap_run = k[2] /\ file[i].dimension = k[3]
      /\ file[i].letter = l /\ file[i].winner_model = WinnerModel(l, k[2])
      /\ file[i].error = (l = "error")
      /\ file[i] = [prompt |-> file[i].prompt, swap_run |-> file[i].swap_run,
                    dimension |-> file[i].dimension, letter |-> file[i].letter,
                    winner_model |-> file[i].winner_model, error |-> file[i].error]
  BY <1>2 DEF Verdict
<1>4. WinnerModel(l, k[2]) \in {"regional", "gemma4", "tie"}
  BY DEF WinnerModel
<1>5. /\ KeyOf(file[i]) = k /\ k[1] \in Prompts /\ k[2] \in 0..(SwapRuns - 1) /\ k[3] \in Dims
  BY <1>2, KeyOfVerdict
<1>6. KeyOf(file[i]) = <<file[i].prompt, file[i].swap_run, file[i].dimension>>
  BY DEF KeyOf
<1> QED BY <1>3, <1>4, <1>5, <1>6

LEMMA FileFinite ==
    ASSUME FileInv
    PROVE  IsFiniteSet(DOMAIN file) /\ DOMAIN file \subseteq Nat
<1>1. DOMAIN file = 1..Len(file) /\ Len(file) \in Nat
  BY DEF FileInv
<1>2. IsFiniteSet(1..Len(file))
  BY <1>1, FS_Interval
<1> QED BY <1>1, <1>2

\* A selection of the file's lines has a number of elements.
LEMMA Selected ==
    ASSUME FileInv, NEW I \in SUBSET DOMAIN file
    PROVE  /\ IsFiniteSet(I) /\ Cardinality(I) \in Nat
           /\ \A T \in SUBSET I : IsFiniteSet(T) /\ Cardinality(T) \in Nat
<1>1. IsFiniteSet(I)
  BY FileFinite, FS_Subset
<1>2. \A T \in SUBSET I : IsFiniteSet(T)
  BY <1>1, FS_Subset
<1> QED BY <1>1, <1>2, FS_CardinalityType

LEMMA WonCounts ==
    ASSUME NEW f, NEW I, NEW side
    PROVE  Won(f, I, side) = Cardinality({i \in I : f[i].winner_model = side})
  BY DEF Won

\* Exchanging the sides exchanges what each side won, and leaves the rest.
LEMMA ExchangedLines ==
    ASSUME FileInv
    PROVE  /\ DOMAIN Exchanged(file) = DOMAIN file
           /\ \A i \in DOMAIN file :
                /\ Exchanged(file)[i].prompt = file[i].prompt
                /\ Exchanged(file)[i].dimension = file[i].dimension
                /\ Exchanged(file)[i].error = file[i].error
                /\ Exchanged(file)[i].winner_model =
                     (IF file[i].winner_model = "tie" THEN "tie" ELSE Opponent(file[i].winner_model))
           /\ \A i, j \in DOMAIN file :
                Exchanged(file)[i].winner_model = Exchanged(file)[j].winner_model
                  <=> file[i].winner_model = file[j].winner_model
<1> DEFINE e == Exchanged(file)
<1>1. DOMAIN e = DOMAIN file
  BY DEF Exchanged
<1>2. ASSUME NEW i \in DOMAIN file
      PROVE  /\ e[i].prompt = file[i].prompt /\ e[i].dimension = file[i].dimension
             /\ e[i].error = file[i].error
             /\ e[i].winner_model =
                  (IF file[i].winner_model = "tie" THEN "tie" ELSE Opponent(file[i].winner_model))
  <2>1. file[i] = [prompt |-> file[i].prompt, swap_run |-> file[i].swap_run,
                   dimension |-> file[i].dimension, letter |-> file[i].letter,
                   winner_model |-> file[i].winner_model, error |-> file[i].error]
    BY FileLines
  <2>2. e[i] = [file[i] EXCEPT !.winner_model =
                  IF file[i].winner_model \in Sides THEN Opponent(file[i].winner_model)
                  ELSE file[i].winner_model]
    BY DEF Exchanged
  <2>3. e[i] = [prompt |-> file[i].prompt, swap_run |-> file[i].swap_run,
                dimension |-> file[i].dimension, letter |-> file[i].letter,
                winner_model |-> IF file[i].winner_model \in Sides
                                 THEN Opponent(file[i].winner_model) ELSE file[i].winner_model,
                error |-> file[i].error]
    BY <2>1, <2>2
  <2>4. file[i].winner_model \in Sides <=> file[i].winner_model # "tie"
    BY FileLines DEF Sides
  <2> QED BY <2>3, <2>4
<1>3. ASSUME NEW i \in DOMAIN file, NEW j \in DOMAIN file
      PROVE  e[i].winner_model = e[j].winner_model <=> file[i].winner_model = file[j].winner_model
  <2>1. /\ file[i].winner_model \in {"regional", "gemma4", "tie"}
        /\ file[j].winner_model \in {"regional", "gemma4", "tie"}
    BY FileLines
  <2> HIDE DEF e
  <2> QED BY <1>2, <2>1 DEF Opponent
<1> QED BY <1>1, <1>2, <1>3

LEMMA ExchangedWon ==
    ASSUME FileInv, NEW I \in SUBSET DOMAIN file
    PROVE  /\ \A side \in Sides : Won(Exchanged(file), I, side) = Won(file, I, Opponent(side))
           /\ Won(Exchanged(file), I, "tie") = Won(file, I, "tie")
           /\ \A w \in {"regional", "gemma4", "tie"} : Won(file, I, w) \in Nat
<1> DEFINE e == Exchanged(file)
<1>1. \A i \in I : /\ file[i].winner_model \in {"regional", "gemma4", "tie"}
                   /\ e[i].winner_model =
                        (IF file[i].winner_model = "tie" THEN "tie" ELSE Opponent(file[i].winner_model))
  BY FileLines, ExchangedLines
<1> HIDE DEF e
<1>2. ASSUME NEW side \in Sides PROVE Won(e, I, side) = Won(file, I, Opponent(side))
  <2>1. {i \in I : e[i].winner_model = side} = {i \in I : file[i].winner_model = Opponent(side)}
    BY <1>1 DEF Opponent, Sides
  <2> QED BY <2>1, WonCounts
<1>3. Won(e, I, "tie") = Won(file, I, "tie")
  <2>1. {i \in I : e[i].winner_model = "tie"} = {i \in I : file[i].winner_model = "tie"}
    BY <1>1 DEF Opponent
  <2> QED BY <2>1, WonCounts
<1>4. ASSUME NEW w PROVE Won(file, I, w) \in Nat
  <2>1. {i \in I : file[i].winner_model = w} \in SUBSET I
    OBVIOUS
  <2> QED BY <2>1, Selected, WonCounts
<1> QED BY <1>2, <1>3, <1>4 DEF e

LEMMA ExchangedPairs ==
    ASSUME FileInv, NEW I \in SUBSET DOMAIN file
    PROVE  /\ Pairs(Exchanged(file), I) = Pairs(file, I)
           /\ \A p : VotesOf(Exchanged(file), I, p) = VotesOf(file, I, p)
           /\ \A p : VotesOf(file, I, p) \in SUBSET I
<1> DEFINE e == Exchanged(file)
<1>1. \A i \in I : e[i].prompt = file[i].prompt /\ e[i].dimension = file[i].dimension
  BY ExchangedLines
<1> HIDE DEF e
<1>2. Pairs(e, I) = Pairs(file, I)
  BY <1>1 DEF Pairs
<1>3. ASSUME NEW p PROVE VotesOf(e, I, p) = VotesOf(file, I, p)
  BY <1>1 DEF VotesOf
<1>4. ASSUME NEW p PROVE VotesOf(file, I, p) \in SUBSET I
  BY DEF VotesOf
<1> QED BY <1>2, <1>3, <1>4 DEF e

LEMMA ExchangedConsistency ==
    ASSUME FileInv PROVE Consistency(Exchanged(file)) = Consistency(file)
<1> DEFINE e == Exchanged(file)
           I == DOMAIN file
           agreeing(f) == {p \in Pairs(f, DOMAIN f) :
                             FirstTwoAgree(f, VotesOf(f, DOMAIN f, p))}
<1>1. DOMAIN e = I /\ Pairs(e, I) = Pairs(file, I)
  BY ExchangedLines, ExchangedPairs
<1>2. ASSUME NEW p
      PROVE  FirstTwoAgree(e, VotesOf(e, I, p)) <=> FirstTwoAgree(file, VotesOf(file, I, p))
  <2>1. VotesOf(e, I, p) = VotesOf(file, I, p) /\ VotesOf(file, I, p) \in SUBSET I
    BY ExchangedPairs
  <2>2. \A i, j \in VotesOf(file, I, p) :
          e[i].winner_model = e[j].winner_model <=> file[i].winner_model = file[j].winner_model
    BY <2>1, ExchangedLines
  <2> HIDE DEF e
  <2> QED BY <2>1, <2>2 DEF FirstTwoAgree, FirstTwo
<1> HIDE DEF e
<1>3. agreeing(e) = agreeing(file)
  BY <1>1, <1>2
<1>4. ASSUME NEW f
      PROVE  Consistency(f) =
               IF DOMAIN f = {} THEN None
               ELSE Round4(Cardinality(agreeing(f)), Cardinality(Pairs(f, DOMAIN f)))
  BY DEF Consistency
<1> HIDE DEF agreeing
<1> QED BY <1>1, <1>3, <1>4 DEF e

LEMMA ExchangedWins ==
    ASSUME FileInv, NEW side \in Sides
    PROVE  Wins(Exchanged(file), side) = Wins(file, Opponent(side))
<1> DEFINE e     == Exchanged(file)
           votes == Votes(file)
           A     == Aggregated(file)
           B     == Aggregated(e)
           of(p) == VotesOf(file, votes, p)
<1>1. Votes(e) = votes /\ votes \in SUBSET DOMAIN file
  BY ExchangedLines DEF Votes
<1>2. Pairs(e, votes) = Pairs(file, votes) /\ \A p : VotesOf(e, votes, p) = of(p)
  BY <1>1, ExchangedPairs
<1> HIDE DEF e
<1>3. A = [p \in Pairs(file, votes) |->
             Majority(Won(file, of(p), "regional"), Won(file, of(p), "gemma4"))]
  BY DEF Aggregated
<1>4. B = [p \in Pairs(file, votes) |->
             Majority(Won(e, of(p), "regional"), Won(e, of(p), "gemma4"))]
  <2>1. B = [p \in Pairs(e, votes) |->
               Majority(Won(e, VotesOf(e, votes, p), "regional"),
                          Won(e, VotesOf(e, votes, p), "gemma4"))]
    BY <1>1 DEF Aggregated
  <2> QED BY <1>2, <2>1
<1> HIDE DEF A, B, votes, of
<1>5. \A r, g \in Nat : Majority(r, g) \in {"regional", "gemma4", "tie"}
                        /\ Majority(g, r) = (IF Majority(r, g) = "tie" THEN "tie"
                                               ELSE Opponent(Majority(r, g)))
  BY DEF Majority, Opponent
<1>6. DOMAIN A = Pairs(file, votes) /\ DOMAIN B = DOMAIN A
  BY <1>3, <1>4
<1>7. ASSUME NEW p \in DOMAIN A
      PROVE  /\ A[p] \in {"regional", "gemma4", "tie"}
             /\ B[p] = (IF A[p] = "tie" THEN "tie" ELSE Opponent(A[p]))
  <2> DEFINE r == Won(file, of(p), "regional")
             g == Won(file, of(p), "gemma4")
  <2>1. of(p) \in SUBSET DOMAIN file
    BY <1>1, ExchangedPairs DEF of
  <2>2. r \in Nat /\ g \in Nat /\ Won(e, of(p), "regional") = g /\ Won(e, of(p), "gemma4") = r
    BY <2>1, ExchangedWon DEF e, Opponent, Sides
  <2>3. A[p] = Majority(r, g) /\ B[p] = Majority(g, r)
    BY <1>3, <1>4, <1>6, <2>2
  <2> HIDE DEF r, g
  <2> QED BY <1>5, <2>2, <2>3
<1> DEFINE with(a, prompt, s) == {p \in DOMAIN a : p[1] = prompt /\ a[p] = s}
           for(a, prompt, s)  == Cardinality(with(a, prompt, s))
<1>8. ASSUME NEW prompt, NEW s \in Sides
      PROVE  with(B, prompt, s) = with(A, prompt, Opponent(s))
  BY <1>6, <1>7 DEF Opponent, Sides
<1>9. \A a, prompt : OverallWinner(a, prompt) =
        Majority(for(a, prompt, "regional"), for(a, prompt, "gemma4"))
  BY DEF OverallWinner
<1>10. ASSUME NEW prompt, NEW s PROVE for(A, prompt, s) \in Nat
  <2>1. IsFiniteSet(DOMAIN A)
    <3> DEFINE h == [i \in votes |-> <<file[i].prompt, file[i].dimension>>]
    <3>1. h \in Surjection(votes, Pairs(file, votes))
      BY DEF Pairs, Surjection
    <3> HIDE DEF h
    <3>2. IsFiniteSet(votes)
      BY <1>1, Selected
    <3> QED BY <1>6, <3>1, <3>2, FS_Surjection
  <2>2. with(A, prompt, s) \in SUBSET DOMAIN A
    OBVIOUS
  <2> HIDE DEF with
  <2> QED BY <2>1, <2>2, FS_Subset, FS_CardinalityType
<1> HIDE DEF for
<1>11. ASSUME NEW prompt
       PROVE  OverallWinner(B, prompt) = side <=> OverallWinner(A, prompt) = Opponent(side)
  <2>1. /\ for(B, prompt, "regional") = for(A, prompt, "gemma4")
        /\ for(B, prompt, "gemma4") = for(A, prompt, "regional")
    <3>1. /\ with(B, prompt, "regional") = with(A, prompt, "gemma4")
          /\ with(B, prompt, "gemma4") = with(A, prompt, "regional")
      BY <1>8 DEF Opponent, Sides
    <3> HIDE DEF with
    <3> QED BY <3>1 DEF for
  <2>2. /\ OverallWinner(A, prompt) = Majority(for(A, prompt, "regional"), for(A, prompt, "gemma4"))
        /\ OverallWinner(B, prompt) = Majority(for(A, prompt, "gemma4"), for(A, prompt, "regional"))
    BY <1>9, <2>1
  <2>3. side \in {"regional", "gemma4"}
    BY DEF Sides
  <2> QED BY <1>5, <1>10, <2>2, <2>3 DEF Opponent
<1>12. Judged(e) = Judged(file)
  BY <1>6 DEF Judged, A, B
<1> QED BY <1>11, <1>12 DEF Wins, A, B, e

LEMMA SidesAreAlike == ASSUME FileInv PROVE SidesAlike
<1> DEFINE e == Exchanged(file)
           r == Won(file, DOMAIN file, "regional")
           g == Won(file, DOMAIN file, "gemma4")
           t == Won(file, DOMAIN file, "tie")
<1>1. /\ r \in Nat /\ g \in Nat /\ t \in Nat
      /\ Won(e, DOMAIN file, "regional") = g /\ Won(e, DOMAIN file, "gemma4") = r
      /\ Won(e, DOMAIN file, "tie") = t
  BY ExchangedWon DEF Sides, Opponent
<1>2. Judge(file) = Summary(r, g, t) /\ Judge(e) = Summary(g, r, t)
  BY <1>1, ExchangedLines DEF Judge
<1> HIDE DEF r, g, t, e
<1>3. r + g + t = g + r + t
  BY <1>1
<1>4. Judge(e).regional_win_rate = Judge(file).gemma4_win_rate
  BY <1>2, <1>3 DEF Summary
<1> QED BY <1>4, ExchangedConsistency, ExchangedWins DEF SidesAlike, e

\* Two runs with the same letter name different models, or none.
LEMMA PositionDecides == ASSUME FileInv PROVE PositionDecidesNothing
<1> DEFINE votes == Votes(file)
<1> SUFFICES ASSUME NEW p \in DOMAIN Aggregated(file), SwapRuns = 2,
                    Cardinality(VotesOf(file, votes, p)) = 2,
                    \A i, j \in VotesOf(file, votes, p) : file[i].letter = file[j].letter
             PROVE  Aggregated(file)[p] = "tie"
  BY DEF PositionDecidesNothing
<1> DEFINE own == VotesOf(file, votes, p)
           R0 == {i \in own : file[i].winner_model = "regional"}
           G0 == {i \in own : file[i].winner_model = "gemma4"}
<1>1. votes \in SUBSET DOMAIN file /\ own \in SUBSET votes
  BY DEF Votes, VotesOf
<1>2. IsFiniteSet(own)
  BY <1>1, Selected
<1>3. Aggregated(file)[p] = Majority(Cardinality(R0), Cardinality(G0))
  <2>1. Aggregated(file)[p] =
          Majority(Won(file, own, "regional"), Won(file, own, "gemma4"))
    BY DEF Aggregated
  <2> HIDE DEF own
  <2> QED BY <2>1, WonCounts
<1>4. PICK i \in own, j \in own : i # j /\ own = {i, j}
  <2> HIDE DEF own
  <2>1. own # {}
    BY FS_EmptySet DEF own
  <2>2. PICK i \in own : TRUE
    BY <2>1
  <2>3. IsFiniteSet(own \ {i}) /\ Cardinality(own \ {i}) = 1
    <3>1. Cardinality(own) = 2
      BY DEF own
    <3> QED BY <1>2, <2>2, <3>1, FS_RemoveElement
  <2>4. PICK j : own \ {i} = {j}
    BY <2>3, FS_Singleton
  <2> QED BY <2>2, <2>4
<1>5. /\ file[i].swap_run \in 0..1 /\ file[j].swap_run \in 0..1
      /\ file[i].swap_run # file[j].swap_run
      /\ file[i].winner_model = WinnerModel(file[i].letter, file[i].swap_run)
      /\ file[j].winner_model = WinnerModel(file[i].letter, file[j].swap_run)
  <2>1. i \in DOMAIN file /\ j \in DOMAIN file
    BY <1>1
  <2>2. /\ file[i].prompt = file[j].prompt /\ file[i].dimension = file[j].dimension
        /\ file[i].letter = file[j].letter
    BY DEF VotesOf
  <2>3. KeyOf(file[i]) # KeyOf(file[j])
    BY <1>4, <2>1 DEF FileInv
  <2> QED BY <2>1, <2>2, <2>3, FileLines
<1> HIDE DEF own
<1>6. Cardinality(R0) = Cardinality(G0)
  <2>1. CASE file[i].letter \in {"A", "B"}
    <3>1. (R0 = {i} /\ G0 = {j}) \/ (R0 = {j} /\ G0 = {i})
      BY <1>4, <1>5, <2>1 DEF WinnerModel
    <3> QED BY <3>1, FS_Singleton
  <2>2. CASE file[i].letter \notin {"A", "B"}
    <3>1. R0 = {} /\ G0 = {}
      BY <1>4, <1>5, <2>2 DEF WinnerModel
    <3> QED BY <3>1
  <2> QED BY <2>1, <2>2
<1>7. IsFiniteSet(R0)
  BY <1>2, FS_Subset
<1>8. Cardinality(R0) \in Nat
  BY <1>7, FS_CardinalityType
<1> HIDE DEF R0, G0
<1> QED BY <1>3, <1>6, <1>8 DEF Majority

-----------------------------------------------------------------------------
(* Unanimous verdicts                                                      *)

LEMMA Least ==
    ASSUME NEW T \in SUBSET Nat, T # {}
    PROVE  \E n \in T : \A m \in T : n <= m
<1> DEFINE Less == {ss \in Nat \X Nat : ss[1] < ss[2]}
<1>1. IsWellFoundedOn(Less, Nat)
  <2>1. OpToRel(<, Nat) = Less
    BY DEF OpToRel
  <2> QED BY <2>1, NatLessThanWellFounded
<1>2. \E n \in T : \A m \in T : ~(<<m, n>> \in Less)
  <2> HIDE DEF Less
  <2>1. T \subseteq Nat
    OBVIOUS
  <2> QED BY <1>1, <2>1, WFMin
<1>3. \A m, n \in T : ~(<<m, n>> \in Less) => n <= m
  OBVIOUS
<1> HIDE DEF Less
<1> QED BY <1>2, <1>3

\* When no key is next, every key is judged.
LEMMA NoKeyLeft ==
    ASSUME FileInv, NextKeys(file) = {}
    PROVE  Keys = {KeyOf(file[i]) : i \in DOMAIN file}
<1> DEFINE left == Keys \ {KeyOf(file[i]) : i \in DOMAIN file}
<1>1. {KeyOf(file[i]) : i \in DOMAIN file} \subseteq Keys
  BY FileLines
<1>2. left = {}
  <2> SUFFICES ASSUME left # {} PROVE FALSE
    OBVIOUS
  <2>1. \A k \in left : /\ k[1] \in Nat /\ k[2] \in Nat /\ k[3] \in Nat
                        /\ k = <<k[1], k[2], k[3]>>
    <3>1. SwapRuns \in Nat /\ Prompts \subseteq Nat /\ Dims \subseteq Nat
      BY SizesAssumption
    <3>2. \A k \in Keys : /\ k[1] \in Prompts /\ k[2] \in 0..(SwapRuns - 1) /\ k[3] \in Dims
                            /\ k = <<k[1], k[2], k[3]>>
      BY DEF Keys, Swaps
    <3> QED BY <3>1, <3>2
  <2>2. NextKeys(file) = {k \in left : \A j \in left : ~Before(j, k)}
    BY DEF NextKeys, First
  <2> HIDE DEF left
  <2> DEFINE T1 == {k[1] : k \in left}
  <2>3. PICK a \in T1 : \A m \in T1 : a <= m
    BY <2>1, Least
  <2> DEFINE L2 == {k \in left : k[1] = a}
             T2 == {k[2] : k \in L2}
  <2>4. T2 # {} /\ T2 \in SUBSET Nat
    BY <2>1, <2>3
  <2>5. PICK b \in T2 : \A m \in T2 : b <= m
    <3> HIDE DEF T2
    <3> QED BY <2>4, Least
  <2> DEFINE L3 == {k \in L2 : k[2] = b}
             T3 == {k[3] : k \in L3}
  <2>6. T3 # {} /\ T3 \in SUBSET Nat
    BY <2>1, <2>5
  <2>7. PICK c \in T3 : \A m \in T3 : c <= m
    <3> HIDE DEF T3
    <3> QED BY <2>6, Least
  <2>8. PICK k \in left : k[1] = a /\ k[2] = b /\ k[3] = c
    BY <2>7
  <2>9. ASSUME NEW j \in left PROVE ~Before(j, k)
    <3>1. a <= j[1] /\ j[1] \in Nat /\ j[2] \in Nat /\ j[3] \in Nat /\ a \in Nat
      BY <2>1, <2>3
    <3>2. j[1] = a => b <= j[2] /\ b \in Nat
      BY <2>4, <2>5
    <3>3. j[1] = a /\ j[2] = b => c <= j[3] /\ c \in Nat
      BY <2>6, <2>7
    <3> HIDE DEF T1, T2, T3, L2, L3
    <3> QED BY <2>8, <3>1, <3>2, <3>3 DEF Before
  <2>10. k \in NextKeys(file)
    BY <2>2, <2>8, <2>9
  <2> QED BY <2>10
<1> QED BY <1>1, <1>2

LEMMA TripleProduct ==
    ASSUME NEW A, NEW B, NEW C, IsFiniteSet(A), IsFiniteSet(B), IsFiniteSet(C)
    PROVE  /\ IsFiniteSet(A \X B \X C)
           /\ Cardinality(A \X B \X C) = (Cardinality(A) * Cardinality(B)) * Cardinality(C)
<1> DEFINE P == (A \X B) \X C
           T == A \X B \X C
           f == [x \in P |-> <<x[1][1], x[1][2], x[2]>>]
<1>1. IsFiniteSet(A \X B) /\ Cardinality(A \X B) = Cardinality(A) * Cardinality(B)
  BY FS_Product
<1>2. IsFiniteSet(P) /\ Cardinality(P) = Cardinality(A \X B) * Cardinality(C)
  <2> DEFINE Q == A \X B
  <2>1. IsFiniteSet(Q)
    BY <1>1
  <2> HIDE DEF Q
  <2>2. IsFiniteSet(Q \X C) /\ Cardinality(Q \X C) = Cardinality(Q) * Cardinality(C)
    BY <2>1, FS_Product
  <2> QED BY <2>2 DEF Q
<1>3. f \in Bijection(P, T)
  <2>1. \A x \in P : f[x] \in T /\ x = <<<<f[x][1], f[x][2]>>, f[x][3]>>
    OBVIOUS
  <2>2. \A t \in T : <<<<t[1], t[2]>>, t[3]>> \in P /\ f[<<<<t[1], t[2]>>, t[3]>>] = t
    OBVIOUS
  <2>3. f \in [P -> T]
    OBVIOUS
  <2> HIDE DEF f, P, T
  <2>4. f \in Injection(P, T)
    BY <2>1, <2>3 DEF Injection, IsInjective
  <2>5. f \in Surjection(P, T)
    BY <2>2, <2>3 DEF Surjection
  <2> QED BY <2>4, <2>5 DEF Bijection
<1> HIDE DEF f, P, T
<1>4. IsFiniteSet(T) /\ Cardinality(T) = Cardinality(P)
  BY <1>2, <1>3, FS_Bijection DEF ExistsBijection
<1> QED BY <1>1, <1>2, <1>4 DEF T

\* The lines of some prompts and dimensions, of a file in which all are judged.
LEMMA LinesOf ==
    ASSUME FileInv, NextKeys(file) = {},
           NEW P \in SUBSET Prompts, NEW D \in SUBSET Dims
    PROVE  LET I == {i \in DOMAIN file : file[i].prompt \in P /\ file[i].dimension \in D} IN
           /\ IsFiniteSet(P) /\ IsFiniteSet(D)
           /\ Cardinality(P) \in Nat /\ Cardinality(D) \in Nat
           /\ Cardinality(I) = (Cardinality(P) * SwapRuns) * Cardinality(D)
<1> DEFINE I == {i \in DOMAIN file : file[i].prompt \in P /\ file[i].dimension \in D}
           S == 0..(SwapRuns - 1)
           K == P \X S \X D
           f == [i \in I |-> KeyOf(file[i])]
<1>1. /\ IsFiniteSet(P) /\ IsFiniteSet(D) /\ IsFiniteSet(S)
      /\ Cardinality(S) = SwapRuns /\ SwapRuns \in Nat
  <2>1. IsFiniteSet(Prompts) /\ IsFiniteSet(Dims) /\ SwapRuns \in Nat \ {0}
    BY SizesAssumption
  <2>2. IsFiniteSet(S) /\ Cardinality(S) = SwapRuns
    BY <2>1, FS_Interval
  <2> QED BY <2>1, <2>2, FS_Subset
<1>2. IsFiniteSet(K) /\ Cardinality(K) = (Cardinality(P) * SwapRuns) * Cardinality(D)
  <2> HIDE DEF S
  <2>1. IsFiniteSet(K) /\ Cardinality(K) = (Cardinality(P) * Cardinality(S)) * Cardinality(D)
    <3>1. IsFiniteSet(P) /\ IsFiniteSet(S) /\ IsFiniteSet(D)
      BY <1>1
    <3> QED BY ONLY <3>1, TripleProduct
  <2> QED BY <1>1, <2>1
<1>3. f \in Bijection(I, K)
  <2>1. ASSUME NEW i \in I PROVE f[i] \in K
    <3>1. i \in DOMAIN file /\ file[i].prompt \in P /\ file[i].dimension \in D
      OBVIOUS
    <3>2. /\ KeyOf(file[i]) = <<file[i].prompt, file[i].swap_run, file[i].dimension>>
          /\ file[i].swap_run \in S
      BY <3>1, FileLines
    <3> QED BY <3>1, <3>2
  <2>2. f \in [I -> K]
    BY <2>1
  <2>3. ASSUME NEW i \in I, NEW j \in I, f[i] = f[j] PROVE i = j
    BY <2>3 DEF FileInv
  <2>4. ASSUME NEW k \in K PROVE \E i \in I : f[i] = k
    <3>1. k \in Keys /\ k[1] \in P /\ k[3] \in D
      BY DEF Keys, Swaps
    <3>2. PICK i \in DOMAIN file : KeyOf(file[i]) = k
      BY <3>1, NoKeyLeft
    <3>3. file[i].prompt = k[1] /\ file[i].dimension = k[3]
      BY <3>2 DEF KeyOf
    <3> QED BY <3>1, <3>2, <3>3
  <2> HIDE DEF f, I, K
  <2> QED BY <2>2, <2>3, <2>4 DEF Bijection, Injection, IsInjective, Surjection
<1>4. IsFiniteSet(I)
  BY Selected
<1> HIDE DEF I, K, f
<1>5. Cardinality(K) = Cardinality(I)
  BY <1>3, <1>4, FS_Bijection DEF ExistsBijection
<1> QED BY <1>1, <1>2, <1>5, FS_CardinalityType DEF I

Unanimous ==
    /\ NextKeys(file) = {}
    /\ \A i \in DOMAIN file : ~file[i].error
    /\ \A i, j \in DOMAIN file : file[i].prompt = file[j].prompt =>
         file[i].winner_model = file[j].winner_model

WinnerOf(x) == CHOOSE w : \E i \in DOMAIN file : file[i].prompt = x /\ w = file[i].winner_model

WonBy(w) == {x \in Prompts : WinnerOf(x) = w}

LEMMA OneWinner ==
    ASSUME FileInv, Unanimous
    PROVE  /\ \A x \in Prompts, d \in Dims :
                \E i \in DOMAIN file : file[i].prompt = x /\ file[i].dimension = d
           /\ \A x \in Prompts : WinnerOf(x) \in {"regional", "gemma4", "tie"}
           /\ \A i \in DOMAIN file : file[i].winner_model = WinnerOf(file[i].prompt)
<1>1. ASSUME NEW x \in Prompts, NEW d \in Dims
      PROVE  \E i \in DOMAIN file : file[i].prompt = x /\ file[i].dimension = d
  <2>1. <<x, 0, d>> \in Keys
    BY SizesAssumption DEF Keys, Swaps
  <2>2. PICK i \in DOMAIN file : KeyOf(file[i]) = <<x, 0, d>>
    BY <2>1, NoKeyLeft DEF Unanimous
  <2> QED BY <2>2 DEF KeyOf
<1>2. ASSUME NEW i \in DOMAIN file PROVE file[i].winner_model = WinnerOf(file[i].prompt)
  <2> DEFINE of(w) == \E j \in DOMAIN file : file[j].prompt = file[i].prompt /\ w = file[j].winner_model
  <2>1. of(file[i].winner_model)
    OBVIOUS
  <2>2. of(WinnerOf(file[i].prompt))
    BY <2>1 DEF WinnerOf
  <2> QED BY <2>2 DEF Unanimous
<1>3. ASSUME NEW x \in Prompts PROVE WinnerOf(x) \in {"regional", "gemma4", "tie"}
  <2>1. PICK d \in Dims : TRUE
    BY SizesAssumption
  <2>2. PICK i \in DOMAIN file : file[i].prompt = x
    BY <1>1
  <2> QED BY <1>2, <2>2, FileLines
<1> QED BY <1>1, <1>2, <1>3

\* Nothing is an error, so that the pages count every line.
LEMMA AllPairs ==
    ASSUME FileInv, Unanimous
    PROVE  /\ Votes(file) = DOMAIN file
           /\ Pairs(file, DOMAIN file) = Prompts \X Dims
<1>1. Votes(file) = DOMAIN file
  BY DEF Votes, Unanimous
<1>2. Pairs(file, DOMAIN file) \subseteq Prompts \X Dims
  BY FileLines DEF Pairs
<1>3. ASSUME NEW p \in Prompts \X Dims PROVE p \in Pairs(file, DOMAIN file)
  <2>1. PICK i \in DOMAIN file : file[i].prompt = p[1] /\ file[i].dimension = p[2]
    BY OneWinner
  <2>2. p = <<file[i].prompt, file[i].dimension>>
    BY <2>1
  <2> QED BY <2>2 DEF Pairs
<1> QED BY <1>1, <1>2, <1>3

\* The lines a side won in some dimensions are all lines of the prompts it won.
LEMMA UnanimousWon ==
    ASSUME FileInv, Unanimous, NEW D \in SUBSET Dims, NEW w
    PROVE  /\ Cardinality(WonBy(w)) \in Nat /\ Cardinality(D) \in Nat
           /\ Won(file, {i \in DOMAIN file : file[i].dimension \in D}, w)
                = (Cardinality(WonBy(w)) * SwapRuns) * Cardinality(D)
<1> DEFINE J == {i \in DOMAIN file : file[i].dimension \in D}
           I == {i \in DOMAIN file : file[i].prompt \in WonBy(w) /\ file[i].dimension \in D}
<1>1. {i \in J : file[i].winner_model = w} = I
  BY OneWinner, FileLines DEF WonBy
<1>2. Won(file, J, w) = Cardinality(I)
  <2> HIDE DEF I, J
  <2> QED BY <1>1, WonCounts
<1>3. WonBy(w) \in SUBSET Prompts
  BY DEF WonBy
<1>4. /\ Cardinality(WonBy(w)) \in Nat /\ Cardinality(D) \in Nat
      /\ Cardinality(I) = (Cardinality(WonBy(w)) * SwapRuns) * Cardinality(D)
  BY <1>3, LinesOf DEF Unanimous
<1> QED BY <1>2, <1>4

\* A side that won something against nothing is the majority.
LEMMA MajorityOf ==
    ASSUME NEW S, IsFiniteSet(S), S # {}, NEW w \in {"regional", "gemma4", "tie"}
    PROVE  Majority(Cardinality({s \in S : w = "regional"}), Cardinality({s \in S : w = "gemma4"})) = w
<1>1. Cardinality(S) \in Nat /\ Cardinality(S) # 0 /\ Cardinality({}) = 0
  BY FS_CardinalityType, FS_EmptySet
<1>2. CASE w = "regional"
  <2>1. {s \in S : w = "regional"} = S /\ {s \in S : w = "gemma4"} = {}
    BY <1>2
  <2> QED BY <1>1, <1>2, <2>1 DEF Majority
<1>3. CASE w = "gemma4"
  <2>1. {s \in S : w = "regional"} = {} /\ {s \in S : w = "gemma4"} = S
    BY <1>3
  <2> QED BY <1>1, <1>3, <2>1 DEF Majority
<1>4. CASE w = "tie"
  <2>1. {s \in S : w = "regional"} = {} /\ {s \in S : w = "gemma4"} = {}
    BY <1>4
  <2> QED BY <1>1, <1>4, <2>1 DEF Majority
<1> QED BY <1>2, <1>3, <1>4

\* Every prompt has its one winner on the pages.
LEMMA UnanimousPages ==
    ASSUME FileInv, Unanimous
    PROVE  /\ Judged(file) = Prompts
           /\ \A side : Wins(file, side) = WonBy(side)
<1> DEFINE A == Aggregated(file)
<1>1. /\ A = [p \in Prompts \X Dims |->
                Majority(Won(file, VotesOf(file, DOMAIN file, p), "regional"),
                           Won(file, VotesOf(file, DOMAIN file, p), "gemma4"))]
  BY AllPairs DEF Aggregated
<1>2. ASSUME NEW p \in Prompts \X Dims PROVE A[p] = WinnerOf(p[1])
  <2> DEFINE own == VotesOf(file, DOMAIN file, p)
             w   == WinnerOf(p[1])
  <2>1. own \in SUBSET DOMAIN file /\ own # {}
    BY OneWinner DEF VotesOf
  <2>2. \A i \in own : file[i].winner_model = w
    BY OneWinner DEF VotesOf
  <2>3. A[p] = Majority(Won(file, own, "regional"), Won(file, own, "gemma4"))
    BY <1>1
  <2>4. w \in {"regional", "gemma4", "tie"}
    BY OneWinner
  <2> HIDE DEF own, w, A
  <2>5. /\ {i \in own : file[i].winner_model = "regional"} = {i \in own : w = "regional"}
        /\ {i \in own : file[i].winner_model = "gemma4"} = {i \in own : w = "gemma4"}
    BY <2>2
  <2>6. A[p] = Majority(Cardinality({i \in own : w = "regional"}),
                          Cardinality({i \in own : w = "gemma4"}))
    BY <2>3, <2>5, WonCounts
  <2>7. IsFiniteSet(own)
    BY <2>1, Selected
  <2>8. A[p] = w
    BY <2>1, <2>4, <2>6, <2>7, MajorityOf
  <2> QED BY <2>8 DEF w
<1>3. DOMAIN A = Prompts \X Dims
  BY <1>1
<1> HIDE DEF A
<1>4. Judged(file) = Prompts
  <2>1. Judged(file) = {p[1] : p \in Prompts \X Dims}
    BY <1>3 DEF Judged, A
  <2>2. PICK d \in Dims : TRUE
    BY SizesAssumption
  <2>3. \A x \in Prompts : <<x, d>> \in Prompts \X Dims /\ <<x, d>>[1] = x
    OBVIOUS
  <2> QED BY <2>1, <2>3
<1>5. ASSUME NEW x \in Prompts PROVE OverallWinner(A, x) = WinnerOf(x)
  <2> DEFINE S == {x} \X Dims
             w == WinnerOf(x)
             with(side) == {p \in DOMAIN A : p[1] = x /\ A[p] = side}
  <2>1. IsFiniteSet(S) /\ S # {}
    <3>1. IsFiniteSet(Dims) /\ Dims # {}
      BY SizesAssumption
    <3>2. IsFiniteSet(S)
      BY <3>1, FS_Singleton, FS_Product
    <3>3. PICK d \in Dims : <<x, d>> \in S
      BY <3>1
    <3> QED BY <3>2, <3>3
  <2>2. ASSUME NEW side PROVE with(side) = {p \in S : w = side}
    BY <1>2, <1>3
  <2>3. w \in {"regional", "gemma4", "tie"}
    BY OneWinner
  <2>4. OverallWinner(A, x) =
          Majority(Cardinality(with("regional")), Cardinality(with("gemma4")))
    BY DEF OverallWinner
  <2> HIDE DEF S, w, with
  <2>5. OverallWinner(A, x) = w
    BY <2>1, <2>2, <2>3, <2>4, MajorityOf
  <2> QED BY <2>5 DEF w
<1>6. ASSUME NEW side PROVE Wins(file, side) = WonBy(side)
  BY <1>4, <1>5 DEF Wins, WonBy, A
<1> QED BY <1>4, <1>6

\* Two runs or more: the first two of each pair agree.  One run: none has two.
LEMMA UnanimousConsistency ==
    ASSUME FileInv, Unanimous
    PROVE  Consistency(file) = IF SwapRuns = 1 THEN 0 ELSE 10000
<1> DEFINE I == DOMAIN file
           agreeing == {p \in Pairs(file, I) : FirstTwoAgree(file, VotesOf(file, I, p))}
           n == Cardinality(Prompts \X Dims)
<1>1. /\ IsFiniteSet(Prompts) /\ IsFiniteSet(Dims) /\ Prompts # {} /\ Dims # {}
      /\ SwapRuns \in Nat \ {0}
  BY SizesAssumption
<1>2. n \in Nat \ {0}
  <2>1. IsFiniteSet(Prompts \X Dims)
    BY <1>1, FS_Product
  <2>2. PICK x \in Prompts, d \in Dims : <<x, d>> \in Prompts \X Dims
    BY <1>1
  <2> QED BY <2>1, <2>2, FS_CardinalityType, FS_EmptySet
<1>3. Pairs(file, I) = Prompts \X Dims
  BY AllPairs
<1>4. I # {}
  BY <1>1, OneWinner
<1>5. Consistency(file) = Rounded(10000, Cardinality(agreeing), n)
  <2>1. Consistency(file) =
          Round4(Cardinality(agreeing), Cardinality(Pairs(file, I)))
    BY <1>4 DEF Consistency
  <2> HIDE DEF agreeing
  <2> QED BY <1>3, <2>1 DEF Round4
<1>6. ASSUME NEW p \in Prompts \X Dims
      PROVE  FirstTwoAgree(file, VotesOf(file, I, p)) <=> SwapRuns # 1
  <2> DEFINE own == VotesOf(file, I, p)
  <2>1. own = {i \in I : file[i].prompt \in {p[1]} /\ file[i].dimension \in {p[2]}}
    BY DEF VotesOf
  <2>2. own \in SUBSET Nat /\ own \in SUBSET I
    BY <2>1, FileFinite
  <2>3. Cardinality(own) = SwapRuns /\ IsFiniteSet(own)
    <3>1. Cardinality({i \in I : file[i].prompt \in {p[1]} /\ file[i].dimension \in {p[2]}})
            = (Cardinality({p[1]}) * SwapRuns) * Cardinality({p[2]})
      BY LinesOf DEF Unanimous
    <3>2. Cardinality({p[1]}) = 1 /\ Cardinality({p[2]}) = 1
      BY FS_Singleton
    <3> HIDE DEF own
    <3> QED BY <1>1, <2>1, <2>2, <3>1, <3>2, Selected
  <2>4. \A i, j \in own : file[i].winner_model = file[j].winner_model
    BY <2>1, OneWinner
  <2> HIDE DEF own
  <2>5. CASE SwapRuns = 1
    <3>1. PICK i : own = {i}
      BY <2>3, <2>5, FS_Singleton
    <3> QED BY <2>2, <2>5, <3>1 DEF FirstTwoAgree, FirstTwo, own
  <2>6. CASE SwapRuns # 1
    <3>1. own # {}
      BY <1>1, <2>3, FS_EmptySet
    <3>2. PICK i \in own : \A k \in own : i <= k
      BY <2>2, <3>1, Least
    <3>3. own \ {i} # {}
      <4>1. own # {i}
        BY <2>3, <2>6, FS_Singleton
      <4> QED BY <3>2, <4>1
    <3>4. PICK j \in own \ {i} : \A k \in own \ {i} : j <= k
      <4>1. own \ {i} \in SUBSET Nat
        BY <2>2
      <4> QED BY <3>3, <4>1, Least
    <3>5. FirstTwo(own, i, j)
      BY <2>2, <3>2, <3>4 DEF FirstTwo
    <3>6. FirstTwoAgree(file, own)
      BY <2>4, <3>2, <3>4, <3>5 DEF FirstTwoAgree
    <3> QED BY <2>6, <3>6 DEF own
  <2> QED BY <2>5, <2>6
<1>7. CASE SwapRuns = 1
  <2>1. agreeing = {}
    BY <1>3, <1>6, <1>7
  <2> HIDE DEF agreeing, n
  <2> QED BY <1>2, <1>5, <1>7, <2>1, FS_EmptySet, RoundedEnds
<1>8. CASE SwapRuns # 1
  <2>1. agreeing = Prompts \X Dims
    BY <1>3, <1>6, <1>8
  <2>2. Consistency(file) = Rounded(10000, n, n)
    BY <1>5, <2>1
  <2> HIDE DEF agreeing, n
  <2> QED BY <1>2, <1>8, <2>2, RoundedEnds
<1> QED BY <1>7, <1>8

LEMMA UnanimousAgrees == ASSUME FileInv PROVE UnanimousAgree
<1> SUFFICES ASSUME Unanimous
             PROVE  /\ Judge(file).regional_win_rate =
                         Round4(Cardinality(Wins(file, "regional")), Cardinality(Judged(file)))
                    /\ Consistency(file) = (IF SwapRuns = 1 THEN 0 ELSE 10000)
                    /\ \A d \in DOMAIN ByDimension(file) : \A side \in Sides :
                         ByDimension(file)[d][side] = SwapRuns * Cardinality(Wins(file, side))
  BY DEF UnanimousAgree, Unanimous
<1> DEFINE I == DOMAIN file
           c(w) == Cardinality(WonBy(w))
           n == SwapRuns * Cardinality(Dims)
           P == Cardinality(Prompts)
<1>1. /\ IsFiniteSet(Prompts) /\ IsFiniteSet(Dims) /\ Prompts # {} /\ Dims # {}
      /\ SwapRuns \in Nat \ {0}
  BY SizesAssumption
<1>2. P \in Nat \ {0} /\ Cardinality(Dims) \in Nat \ {0} /\ n \in Nat \ {0}
  <2>1. P \in Nat \ {0} /\ Cardinality(Dims) \in Nat \ {0}
    BY <1>1, FS_CardinalityType, FS_EmptySet
  <2> QED BY <1>1, <2>1
<1>3. ASSUME NEW w PROVE c(w) \in Nat /\ Won(file, I, w) = c(w) * n
  <2>1. {i \in I : file[i].dimension \in Dims} = I
    BY FileLines
  <2>2. c(w) \in Nat /\ Won(file, I, w) = (c(w) * SwapRuns) * Cardinality(Dims)
    BY <2>1, UnanimousWon
  <2> HIDE DEF c
  <2>3. (c(w) * SwapRuns) * Cardinality(Dims) = c(w) * (SwapRuns * Cardinality(Dims))
    BY <1>1, <1>2, <2>2, TimesAssociate
  <2> QED BY <2>2, <2>3
<1>4. c("regional") + c("gemma4") + c("tie") = P
  <2> DEFINE A == WonBy("regional") \cup WonBy("gemma4")
  <2>1. Prompts = A \cup WonBy("tie") /\ A \cap WonBy("tie") = {}
    BY OneWinner DEF WonBy
  <2>2. WonBy("regional") \cap WonBy("gemma4") = {}
    BY DEF WonBy
  <2>3. IsFiniteSet(A)
    <3>1. A \in SUBSET Prompts
      BY DEF WonBy
    <3> QED BY <1>1, <3>1, FS_Subset
  <2>4. Cardinality(A) = c("regional") + c("gemma4")
    BY <2>2, <2>3, Parts
  <2> HIDE DEF A
  <2>5. P = Cardinality(A) + c("tie")
    BY <1>1, <2>1, Parts
  <2> QED BY <2>4, <2>5
<1>5. Judge(file).regional_win_rate =
        Round4(Cardinality(Wins(file, "regional")), Cardinality(Judged(file)))
  <2>1. Cardinality(Wins(file, "regional")) = c("regional") /\ Cardinality(Judged(file)) = P
    BY UnanimousPages
  <2> HIDE DEF c, n, P
  <2>2. (c("regional") + c("gemma4") + c("tie")) * n = c("regional") * n + c("gemma4") * n + c("tie") * n
    <3> DEFINE x == c("regional")
               y == c("gemma4")
               z == c("tie")
    <3>1. x \in Nat /\ y \in Nat /\ z \in Nat /\ x + y \in Nat
      BY <1>3
    <3> HIDE DEF x, y, z
    <3>2. (x + y + z) * n = (x + y) * n + z * n /\ (x + y) * n = x * n + y * n
      BY <1>2, <3>1, TimesAssociate
    <3>3. (x + y + z) * n = x * n + y * n + z * n
      BY <3>2
    <3> QED BY <3>3 DEF x, y, z
  <2>3. P * n = c("regional") * n + c("gemma4") * n + c("tie") * n
    BY <1>4, <2>2
  <2>4. P * n # 0
    BY <1>2, TimesMonotone
  <2>5. Judge(file) = Summary(c("regional") * n, c("gemma4") * n, c("tie") * n)
    BY <1>3 DEF Judge
  <2>6. Judge(file).regional_win_rate = Round4(c("regional") * n, P * n)
    BY <2>3, <2>4, <2>5 DEF Summary
  <2>7. Rounded(10000, c("regional") * n, P * n) = Rounded(10000, c("regional"), P)
    <3>1. c("regional") \in Nat
      BY <1>3
    <3> DEFINE s == 10000
               w == c("regional")
    <3>2. s \in Nat /\ w \in Nat
      BY <3>1
    <3> HIDE DEF s, w
    <3>3. Rounded(s, w * n, P * n) = Rounded(s, w, P)
      BY <1>2, <3>2, RoundedScales
    <3> QED BY <3>3 DEF s, w
  <2> QED BY <2>1, <2>6, <2>7 DEF Round4
<1>6. ASSUME NEW d \in DOMAIN ByDimension(file), NEW side \in Sides
      PROVE  ByDimension(file)[d][side] = SwapRuns * Cardinality(Wins(file, side))
  <2> DEFINE J == {i \in I : file[i].dimension \in {d}}
  <2>1. d \in {file[i].dimension : i \in I}
    BY DEF ByDimension
  <2>2. d \in Dims
    BY <2>1, FileLines
  <2>3. {i \in I : file[i].dimension = d} = J
    OBVIOUS
  <2>4. ByDimension(file)[d][side] = Won(file, {i \in I : file[i].dimension = d}, side)
    BY <2>1 DEF ByDimension
  <2>5. Won(file, J, side) = (c(side) * SwapRuns) * Cardinality({d}) /\ Cardinality({d}) = 1
    <3>1. {d} \in SUBSET Dims
      BY <2>2
    <3> QED BY <3>1, UnanimousWon, FS_Singleton
  <2>6. Cardinality(Wins(file, side)) = c(side)
    BY UnanimousPages
  <2> HIDE DEF J, c
  <2>7. (c(side) * SwapRuns) * 1 = SwapRuns * c(side)
    BY <1>1, <1>3
  <2> QED BY <2>3, <2>4, <2>5, <2>6, <2>7
<1> QED BY <1>5, <1>6, UnanimousConsistency

\* The report and the pages treat both models alike, a judge that answers by
\* position decides nothing on the pages, and where the judge is unanimous they
\* agree with each other: for every number of prompts, swap runs and dimensions.
THEOREM FairStatistics ==
    ReportSpec => []StatisticsAreFair
<1>1. FileInv => StatisticsAreFair
  BY SidesAreAlike, PositionDecides, UnanimousAgrees DEF StatisticsAreFair
<1> QED BY <1>1, FileInvariant, PTL

-----------------------------------------------------------------------------
(* MetricReport: a vote never hurts                                        *)

\* A rate is at least another where the fraction is.
LEMMA RoundedMonotone ==
    ASSUME NEW s \in Nat, NEW w \in Nat, NEW j \in Nat \ {0}, NEW v \in Nat, NEW k \in Nat \ {0},
           w * k <= v * j
    PROVE  Rounded(s, w, j) <= Rounded(s, v, k)
<1> DEFINE a == s * w
           b == s * v
           q == a \div j
           r == a % j
           p == b \div k
           t == b % k
<1>1. a \in Nat /\ b \in Nat
  OBVIOUS
<1>2. q \in Nat /\ r \in Nat /\ r < j /\ a = q * j + r
  <2> HIDE DEF a
  <2> QED BY <1>1, DivIs
<1>3. p \in Nat /\ t \in Nat /\ t < k /\ b = p * k + t
  <2> HIDE DEF b
  <2> QED BY <1>1, DivIs
<1>4. a * k <= b * j
  <2>1. w * k \in Nat /\ v * j \in Nat
    OBVIOUS
  <2>2. (w * k) * s <= (v * j) * s
    BY <2>1, TimesMonotone
  <2>3. (w * k) * s = (s * w) * k /\ (v * j) * s = (s * v) * j
    <3>1. s * (w * k) = (s * w) * k /\ s * (v * j) = (s * v) * j
      BY TimesAssociate
    <3>2. (w * k) * s = s * (w * k) /\ (v * j) * s = s * (v * j)
      BY <2>1, TimesAssociate
    <3> QED BY <3>1, <3>2
  <2> QED BY <2>2, <2>3
<1> HIDE DEF a, b, q, r, p, t
<1> DEFINE m == j * k
<1>5. m \in Nat \ {0} /\ a * k = q * m + r * k /\ b * j = p * m + t * j
      /\ r * k \in Nat /\ t * j \in Nat /\ r * k < m /\ t * j < m
  <2>1. m \in Nat /\ m # 0
    BY TimesAssociate, TimesMonotone
  <2>2. (q * j + r) * k = (q * j) * k + r * k /\ (q * j) * k = q * (j * k) /\ q * j \in Nat
    <3>1. q * j \in Nat
      BY <1>2, TimesAssociate
    <3> QED BY <1>2, <3>1, TimesAssociate
  <2>3. (p * k + t) * j = (p * k) * j + t * j /\ (p * k) * j = p * (k * j) /\ k * j = j * k
    <3>1. p * k \in Nat
      BY <1>3, TimesAssociate
    <3> QED BY <1>3, <3>1, TimesAssociate
  <2>4. r * k < j * k /\ t * j < k * j /\ r * k \in Nat /\ t * j \in Nat
    BY <1>2, <1>3, TimesMonotone
  <2> QED BY <1>2, <1>3, <2>1, <2>2, <2>3, <2>4
<1> DEFINE x == r * k
           y == t * j
           xk == q * m
           yk == p * m
<1>6. q <= p
  <2>1. ASSUME p < q PROVE FALSE
    <3>1. p + 1 <= q /\ p + 1 \in Nat
      BY <1>2, <1>3, <2>1
    <3>2. (p + 1) * m <= q * m
      BY <1>2, <1>5, <3>1, TimesMonotone
    <3>3. (p + 1) * m = p * m + 1 * m /\ 1 * m = m
      <4> HIDE DEF m
      <4> QED BY <1>3, <1>5, TimesAssociate
    <3>4. q * m \in Nat /\ p * m \in Nat
      BY <1>2, <1>3, <1>5, TimesMonotone
    <3>5. xk + x <= yk + y /\ x \in Nat /\ y \in Nat /\ y < m /\ yk + m <= xk /\ xk \in Nat /\ yk \in Nat
      BY <1>4, <1>5, <3>2, <3>3, <3>4
    <3> HIDE DEF x, y, xk, yk, m
    <3> QED BY <1>5, <3>5
  <2> QED BY <1>2, <1>3, <2>1
<1>7. CASE q < p
  BY <1>2, <1>3, <1>7 DEF Rounded, q, p, a, b
<1>8. CASE q = p
  <2>1. r * k <= t * j
    <3>1. xk + x <= yk + y /\ xk = yk /\ xk \in Nat /\ x \in Nat /\ y \in Nat
      <4>1. q * m \in Nat
        BY <1>2, <1>5, TimesMonotone
      <4> QED BY <1>4, <1>5, <1>8, <4>1
    <3> HIDE DEF x, y, xk, yk
    <3>2. x <= y
      BY <3>1
    <3> QED BY <3>2 DEF x, y
  <2>2. (j < 2 * r => k < 2 * t) /\ (j <= 2 * r => k <= 2 * t)
    <3>1. (2 * r) * k = 2 * (r * k) /\ (2 * t) * j = 2 * (t * j) /\ 2 * r \in Nat /\ 2 * t \in Nat
      BY <1>2, <1>3, TimesAssociate
    <3>2. (2 * r) * k <= (2 * t) * j
      BY <1>5, <2>1, <3>1
    <3>3. (j < 2 * r <=> j * k < (2 * r) * k) /\ (j <= 2 * r => j * k <= (2 * r) * k)
      BY <3>1, TimesMonotone
    <3>4. (k < 2 * t <=> k * j < (2 * t) * j) /\ (2 * t < k <=> (2 * t) * j < k * j)
      BY <3>1, TimesMonotone
    <3>5. k * j = j * k /\ j * k \in Nat /\ (2 * r) * k \in Nat /\ (2 * t) * j \in Nat
      BY <3>1, TimesAssociate
    <3> DEFINE u == (2 * r) * k
               z == (2 * t) * j
               o == j * k
    <3>6. u <= z /\ u \in Nat /\ z \in Nat /\ o \in Nat
          /\ (j < 2 * r <=> o < u) /\ (j <= 2 * r => o <= u)
          /\ (k < 2 * t <=> o < z) /\ (2 * t < k <=> z < o)
      BY <3>2, <3>3, <3>4, <3>5
    <3> HIDE DEF u, z, o
    <3> QED BY <3>1, <3>6
  <2>3. Rounded(s, w, j) = IF 2 * r > j \/ (2 * r = j /\ q % 2 = 1) THEN q + 1 ELSE q
    BY DEF Rounded, q, r, a
  <2>4. Rounded(s, v, k) = IF 2 * t > k \/ (2 * t = k /\ p % 2 = 1) THEN p + 1 ELSE p
    BY DEF Rounded, p, t, b
  <2> QED BY <1>2, <1>3, <1>8, <2>2, <2>3, <2>4
<1> QED BY <1>2, <1>3, <1>6, <1>7, <1>8

\* A line more.
LEMMA OneMore ==
    ASSUME FileInv, NEW v, file' = Append(file, v)
    PROVE  LET n == Len(file) + 1 IN
           /\ Len(file') = n /\ file'[Len(file')] = v /\ file'[n] = v
           /\ n \notin DOMAIN file
           /\ DOMAIN file' = DOMAIN file \cup {n}
           /\ \A i \in DOMAIN file : file'[i] = file[i]
<1> DEFINE S == {Verdict(k, l) : k \in Keys, l \in Letters} \cup {v}
<1>1. file \in Seq(S) /\ v \in S
  BY DEF FileInv
<1> HIDE DEF S
<1>2. Len(file) \in Nat /\ DOMAIN file = 1..Len(file)
  BY <1>1
<1>3. /\ Len(file') = Len(file) + 1 /\ DOMAIN file' = 1..(Len(file) + 1)
      /\ file'[Len(file) + 1] = v
      /\ \A i \in 1..Len(file) : file'[i] = file[i]
  BY <1>1
<1> QED BY <1>2, <1>3

\* An error is passed over.
LEMMA ErrorsPassedOver ==
    ASSUME FileInv, NEW v, file' = Append(file, v), v.error
    PROVE  Aggregated(file') = Aggregated(file)
<1> DEFINE votes == Votes(file)
<1>1. Votes(file') = votes /\ votes \in SUBSET DOMAIN file
  BY OneMore DEF Votes
<1>2. \A i \in votes : file'[i] = file[i]
  BY <1>1, OneMore
<1> HIDE DEF votes
<1>3. Pairs(file', votes) = Pairs(file, votes)
  BY <1>2 DEF Pairs
<1>4. ASSUME NEW p
      PROVE  /\ VotesOf(file', votes, p) = VotesOf(file, votes, p)
             /\ VotesOf(file, votes, p) \in SUBSET votes
  BY <1>2 DEF VotesOf
<1>5. ASSUME NEW I \in SUBSET votes, NEW w PROVE Won(file', I, w) = Won(file, I, w)
  <2>1. {i \in I : file'[i].winner_model = w} = {i \in I : file[i].winner_model = w}
    BY <1>2
  <2> QED BY <2>1, WonCounts
<1>6. Aggregated(file) =
        [p \in Pairs(file, votes) |->
           Majority(Won(file, VotesOf(file, votes, p), "regional"),
                      Won(file, VotesOf(file, votes, p), "gemma4"))]
  BY DEF Aggregated, votes
<1>7. Aggregated(file') =
        [p \in Pairs(file', votes) |->
           Majority(Won(file', VotesOf(file', votes, p), "regional"),
                      Won(file', VotesOf(file', votes, p), "gemma4"))]
  BY <1>1 DEF Aggregated
<1> QED BY <1>3, <1>4, <1>5, <1>6, <1>7

\* The pages after a vote for the regional model: its pair is there, and no pair
\* goes from the regional model or to the other.
LEMMA VoteOnPages ==
    ASSUME FileInv, NEW v, file' = Append(file, v), ~v.error, v.winner_model = "regional"
    PROVE  LET A == Aggregated(file)
               B == Aggregated(file')
               p == <<v.prompt, v.dimension>>
           IN  /\ DOMAIN B = DOMAIN A \cup {p}
               /\ p \notin DOMAIN A => B[p] = "regional"
               /\ \A x \in DOMAIN A : /\ A[x] = "regional" => B[x] = "regional"
                                      /\ B[x] = "gemma4" => A[x] = "gemma4"
               /\ IsFiniteSet(DOMAIN B)
<1> DEFINE A  == Aggregated(file)
           B  == Aggregated(file')
           p  == <<v.prompt, v.dimension>>
           n  == Len(file) + 1
           V  == Votes(file)
           W  == Votes(file')
           of(x) == VotesOf(file, V, x)
           to(x) == VotesOf(file', W, x)
<1>1. /\ file'[n] = v /\ n \notin DOMAIN file /\ DOMAIN file' = DOMAIN file \cup {n}
      /\ \A i \in DOMAIN file : file'[i] = file[i]
  BY OneMore
<1> HIDE DEF n
<1>2. V \in SUBSET DOMAIN file /\ W = V \cup {n}
  BY <1>1 DEF Votes
<1> HIDE DEF V, W
<1>3. Pairs(file', W) = Pairs(file, V) \cup {p}
  BY <1>1, <1>2 DEF Pairs
<1>4. ASSUME NEW x
      PROVE  to(x) = (IF x[1] = v.prompt /\ x[2] = v.dimension THEN of(x) \cup {n} ELSE of(x))
  BY <1>1, <1>2 DEF VotesOf
<1>5. ASSUME NEW x PROVE of(x) \in SUBSET DOMAIN file /\ n \notin of(x)
  BY <1>1, <1>2 DEF VotesOf
<1> DEFINE won(f, I, w) == {i \in I : f[i].winner_model = w}
<1> HIDE DEF of, to
<1>6. ASSUME NEW x
      PROVE  /\ Won(file, of(x), "regional") \in Nat /\ Won(file, of(x), "gemma4") \in Nat
             /\ Won(file', to(x), "gemma4") = Won(file, of(x), "gemma4")
             /\ Won(file', to(x), "regional") =
                  (IF x[1] = v.prompt /\ x[2] = v.dimension
                   THEN Won(file, of(x), "regional") + 1 ELSE Won(file, of(x), "regional"))
  <2>1. won(file', to(x), "gemma4") = won(file, of(x), "gemma4")
    BY <1>1, <1>4, <1>5
  <2>2. won(file', to(x), "regional") =
          (IF x[1] = v.prompt /\ x[2] = v.dimension
           THEN won(file, of(x), "regional") \cup {n} ELSE won(file, of(x), "regional"))
    BY <1>1, <1>4, <1>5
  <2>3. won(file, of(x), "regional") \in SUBSET of(x) /\ won(file, of(x), "gemma4") \in SUBSET of(x)
    OBVIOUS
  <2>4. n \notin won(file, of(x), "regional")
    BY <1>5
  <2>5. /\ Won(file, of(x), "regional") = Cardinality(won(file, of(x), "regional"))
        /\ Won(file, of(x), "gemma4") = Cardinality(won(file, of(x), "gemma4"))
        /\ Won(file', to(x), "regional") = Cardinality(won(file', to(x), "regional"))
        /\ Won(file', to(x), "gemma4") = Cardinality(won(file', to(x), "gemma4"))
    BY WonCounts
  <2> HIDE DEF won
  <2>6. /\ IsFiniteSet(won(file, of(x), "regional"))
        /\ Cardinality(won(file, of(x), "regional")) \in Nat
        /\ Cardinality(won(file, of(x), "gemma4")) \in Nat
    BY <1>5, <2>3, Selected
  <2>7. Cardinality(won(file, of(x), "regional") \cup {n}) =
          Cardinality(won(file, of(x), "regional")) + 1
    BY <2>4, <2>6, FS_AddElement
  <2> QED BY <2>1, <2>2, <2>5, <2>6, <2>7
<1>7. /\ A = [x \in Pairs(file, V) |->
                Majority(Won(file, of(x), "regional"), Won(file, of(x), "gemma4"))]
      /\ B = [x \in Pairs(file', W) |->
                Majority(Won(file', to(x), "regional"), Won(file', to(x), "gemma4"))]
  BY DEF Aggregated, V, W, of, to
<1> HIDE DEF A, B
<1>8. DOMAIN A = Pairs(file, V) /\ DOMAIN B = DOMAIN A \cup {p}
  BY <1>3, <1>7
<1>9. \A r, g \in Nat :
        /\ Majority(r, g) = "regional" <=> r > g
        /\ Majority(r, g) = "gemma4" <=> g > r
  <2>1. ASSUME NEW r \in Nat, NEW g \in Nat
        PROVE  /\ Majority(r, g) = "regional" <=> r > g
               /\ Majority(r, g) = "gemma4" <=> g > r
    <3>1. ~(r > g /\ g > r)
      OBVIOUS
    <3> QED BY <3>1 DEF Majority
  <2> QED BY <2>1
<1>10. ASSUME NEW x \in DOMAIN A
       PROVE  /\ A[x] = "regional" => B[x] = "regional"
              /\ B[x] = "gemma4" => A[x] = "gemma4"
  <2> DEFINE r == Won(file, of(x), "regional")
             g == Won(file, of(x), "gemma4")
             s == Won(file', to(x), "regional")
  <2>1. r \in Nat /\ g \in Nat /\ s \in {r, r + 1}
    BY <1>6
  <2>2. A[x] = Majority(r, g) /\ B[x] = Majority(s, g)
    BY <1>3, <1>6, <1>7, <1>8
  <2> HIDE DEF r, g, s
  <2>3. s \in Nat /\ r <= s
    BY <2>1
  <2>4. (r > g => s > g) /\ (g > s => g > r)
    BY <2>1, <2>3
  <2> QED BY <1>9, <2>1, <2>2, <2>3, <2>4
<1>11. ASSUME p \notin DOMAIN A PROVE B[p] = "regional"
  <2>1. of(p) = {}
    <3>1. ASSUME NEW i \in of(p) PROVE FALSE
      <4>1. i \in V /\ file[i].prompt = v.prompt /\ file[i].dimension = v.dimension
        BY DEF of, VotesOf
      <4>2. <<file[i].prompt, file[i].dimension>> \in Pairs(file, V)
        BY <4>1 DEF Pairs
      <4> QED BY <1>8, <1>11, <4>1, <4>2
    <3> QED BY <3>1
  <2>2. Won(file, of(p), "regional") = 0 /\ Won(file, of(p), "gemma4") = 0
    <3>1. \A w : {i \in of(p) : file[i].winner_model = w} = {}
      BY <2>1
    <3> QED BY <3>1, WonCounts, FS_EmptySet
  <2>3. Won(file', to(p), "regional") = 1 /\ Won(file', to(p), "gemma4") = 0
    BY <1>6, <2>2
  <2>4. B[p] = Majority(1, 0)
    BY <1>3, <1>7, <2>3
  <2> QED BY <1>9, <2>4
<1>12. IsFiniteSet(DOMAIN B)
  <2> DEFINE h == [i \in V |-> <<file[i].prompt, file[i].dimension>>]
  <2>1. h \in Surjection(V, Pairs(file, V))
    BY DEF Pairs, Surjection
  <2>2. IsFiniteSet(V)
    BY <1>2, Selected
  <2> HIDE DEF h
  <2>3. IsFiniteSet(DOMAIN A)
    BY <1>8, <2>1, <2>2, FS_Surjection
  <2> HIDE DEF p
  <2> QED BY <1>8, <2>3, FS_AddElement
<1> QED BY <1>8, <1>10, <1>11, <1>12 DEF A, B

LEMMA VoteHelps ==
    ASSUME FileInv, NEW v, file' = Append(file, v), ~v.error, v.winner_model = "regional"
    PROVE  /\ Wins(file, "regional") \subseteq Wins(file', "regional")
           /\ WinRate(file, "regional") # None =>
                /\ WinRate(file', "regional") >= WinRate(file, "regional")
                /\ ComputeGrade(WinRate(file, "regional")) = "A" =>
                     ComputeGrade(WinRate(file', "regional")) = "A"
<1> DEFINE A == Aggregated(file)
           B == Aggregated(file')
           p == <<v.prompt, v.dimension>>
           J == Judged(file)
           K == Judged(file')
           W == Wins(file, "regional")
           X == Wins(file', "regional")
           with(a, x, side) == {q \in DOMAIN a : q[1] = x /\ a[q] = side}
<1>1. /\ DOMAIN B = DOMAIN A \cup {p} /\ IsFiniteSet(DOMAIN B)
      /\ p \notin DOMAIN A => B[p] = "regional"
      /\ \A q \in DOMAIN A : /\ A[q] = "regional" => B[q] = "regional"
                             /\ B[q] = "gemma4" => A[q] = "gemma4"
  BY VoteOnPages
<1>2. J = {q[1] : q \in DOMAIN A} /\ K = {q[1] : q \in DOMAIN B}
  BY DEF Judged
<1>3. K = J \cup {v.prompt}
  BY <1>1, <1>2
<1>4. /\ W = {x \in J : OverallWinner(A, x) = "regional"}
      /\ X = {x \in K : OverallWinner(B, x) = "regional"}
  BY DEF Wins
<1> HIDE DEF A, B, J, K, W, X
<1>5. ASSUME NEW a, IsFiniteSet(DOMAIN a), NEW x
      PROVE  OverallWinner(a, x) = "regional"
               <=> Cardinality(with(a, x, "regional")) > Cardinality(with(a, x, "gemma4"))
  <2> DEFINE r == Cardinality(with(a, x, "regional"))
             g == Cardinality(with(a, x, "gemma4"))
  <2>1. OverallWinner(a, x) = Majority(r, g)
    BY DEF OverallWinner
  <2>2. r \in Nat /\ g \in Nat
    <3>1. with(a, x, "regional") \in SUBSET DOMAIN a /\ with(a, x, "gemma4") \in SUBSET DOMAIN a
      OBVIOUS
    <3> HIDE DEF with
    <3> QED BY <1>5, <3>1, FS_Subset, FS_CardinalityType
  <2> HIDE DEF r, g
  <2>3. ~(r > g /\ g > r)
    BY <2>2
  <2>4. Majority(r, g) = "regional" <=> r > g
    BY <2>2, <2>3 DEF Majority
  <2> QED BY <2>1, <2>4 DEF r, g
<1>6. IsFiniteSet(DOMAIN A)
  BY <1>1, FS_Subset
<1>7. ASSUME NEW x
      PROVE  /\ with(A, x, "regional") \subseteq with(B, x, "regional")
             /\ with(B, x, "gemma4") \subseteq with(A, x, "gemma4")
             /\ IsFiniteSet(with(A, x, "gemma4")) /\ IsFiniteSet(with(B, x, "regional"))
             /\ IsFiniteSet(with(A, x, "regional")) /\ IsFiniteSet(with(B, x, "gemma4"))
  <2>1. /\ with(A, x, "regional") \subseteq with(B, x, "regional")
        /\ with(B, x, "gemma4") \subseteq with(A, x, "gemma4")
    BY <1>1
  <2>2. /\ with(A, x, "gemma4") \in SUBSET DOMAIN A /\ with(B, x, "regional") \in SUBSET DOMAIN B
        /\ with(A, x, "regional") \in SUBSET DOMAIN A /\ with(B, x, "gemma4") \in SUBSET DOMAIN B
    OBVIOUS
  <2> HIDE DEF with
  <2> QED BY <1>1, <1>6, <2>1, <2>2, FS_Subset
<1> HIDE DEF with
<1>8. ASSUME NEW x, OverallWinner(A, x) = "regional"
      PROVE  OverallWinner(B, x) = "regional"
  <2>1. Cardinality(with(A, x, "regional")) > Cardinality(with(A, x, "gemma4"))
    BY <1>5, <1>6, <1>8
  <2>2. /\ Cardinality(with(A, x, "regional")) <= Cardinality(with(B, x, "regional"))
        /\ Cardinality(with(B, x, "gemma4")) <= Cardinality(with(A, x, "gemma4"))
    BY <1>7, FS_Subset
  <2>3. /\ Cardinality(with(A, x, "regional")) \in Nat /\ Cardinality(with(B, x, "regional")) \in Nat
        /\ Cardinality(with(B, x, "gemma4")) \in Nat /\ Cardinality(with(A, x, "gemma4")) \in Nat
    BY <1>7, FS_CardinalityType
  <2>4. Cardinality(with(B, x, "regional")) > Cardinality(with(B, x, "gemma4"))
    BY <2>1, <2>2, <2>3
  <2> QED BY <1>1, <1>5, <2>4
<1>9. W \subseteq X
  BY <1>3, <1>4, <1>8
<1>10. ASSUME v.prompt \notin J PROVE v.prompt \in X
  <2> DEFINE x == v.prompt
  <2>1. \A q \in DOMAIN A : q[1] # x
    BY <1>2, <1>10
  <2>2. p \notin DOMAIN A /\ p[1] = x
    BY <2>1
  <2>3. with(B, x, "regional") = {p} /\ with(B, x, "gemma4") = {}
    BY <1>1, <2>1, <2>2 DEF with
  <2>4. Cardinality(with(B, x, "regional")) = 1 /\ Cardinality(with(B, x, "gemma4")) = 0
    BY <2>3, FS_Singleton, FS_EmptySet
  <2>5. OverallWinner(B, x) = "regional"
    BY <1>1, <1>5, <2>4
  <2> QED BY <1>3, <1>4, <2>5
<1>11. IsFiniteSet(K)
  <2> DEFINE h == [q \in DOMAIN B |-> q[1]]
  <2>1. h \in Surjection(DOMAIN B, K)
    BY <1>2 DEF Surjection
  <2> HIDE DEF h
  <2> QED BY <1>1, <2>1, FS_Surjection
<1> DEFINE w == Cardinality(W)
           x == Cardinality(X)
           j == Cardinality(J)
           k == Cardinality(K)
<1>12. /\ IsFiniteSet(J) /\ IsFiniteSet(W) /\ IsFiniteSet(X)
       /\ w \in Nat /\ x \in Nat /\ j \in Nat /\ k \in Nat /\ w <= x /\ w <= j
  <2>1. J \in SUBSET K /\ W \in SUBSET J /\ X \in SUBSET K /\ W \in SUBSET X
    BY <1>3, <1>4, <1>9
  <2>2. IsFiniteSet(J) /\ IsFiniteSet(W) /\ IsFiniteSet(X)
    BY <1>11, <2>1, FS_Subset
  <2> QED BY <1>11, <2>1, <2>2, FS_Subset, FS_CardinalityType
<1>13. \/ k = j
       \/ k = j + 1 /\ w + 1 <= x
  <2>1. CASE v.prompt \in J
    BY <1>3, <2>1
  <2>2. CASE v.prompt \notin J
    <3>1. k = j + 1
      BY <1>3, <1>12, <2>2, FS_AddElement
    <3>2. v.prompt \notin W /\ W \cup {v.prompt} \in SUBSET X
      BY <1>4, <1>9, <1>10, <2>2
    <3>3. Cardinality(W \cup {v.prompt}) = w + 1
      BY <1>12, <3>2, FS_AddElement
    <3>4. Cardinality(W \cup {v.prompt}) <= x
      BY <1>12, <3>2, FS_Subset
    <3> QED BY <3>1, <3>3, <3>4
  <2> QED BY <2>1, <2>2
<1>14. ASSUME WinRate(file, "regional") # None
       PROVE  WinRate(file', "regional") >= WinRate(file, "regional")
  <2>1. J # {}
    BY <1>14 DEF WinRate, J
  <2>2. K # {}
    BY <1>3, <2>1
  <2>3. j # 0 /\ k # 0
    BY <1>11, <1>12, <2>1, <2>2, FS_EmptySet
  <2>4. /\ WinRate(file, "regional") = Rounded(1000, w, j)
        /\ WinRate(file', "regional") = Rounded(1000, x, k)
    BY <2>1, <2>2 DEF WinRate, J, K, W, X
  <2> HIDE DEF w, x, j, k
  <2>5. w * k <= x * j
    <3>1. CASE k = j
      BY <1>12, <3>1, TimesMonotone
    <3>2. CASE k = j + 1 /\ w + 1 <= x
      <4>1. w * (j + 1) = w * j + w /\ (w + 1) * j = w * j + j /\ w * j \in Nat
        <5>1. w * (j + 1) = (j + 1) * w /\ w * j = j * w /\ w * j \in Nat
          BY <1>12, TimesAssociate
        <5>2. (j + 1) * w = j * w + 1 * w /\ (w + 1) * j = w * j + 1 * j
          BY <1>12, TimesAssociate
        <5>3. 1 * w = w /\ 1 * j = j
          BY <1>12
        <5> QED BY <5>1, <5>2, <5>3
      <4>2. (w + 1) * j <= x * j
        BY <1>12, <3>2, TimesMonotone
      <4> DEFINE s == w * j
                 t == x * j
      <4>3. s + j <= t /\ s \in Nat /\ t \in Nat
        <5>1. x * j \in Nat
          BY <1>12, TimesAssociate
        <5> QED BY <4>1, <4>2, <5>1
      <4>4. w * k = s + w
        BY <3>2, <4>1
      <4> HIDE DEF s, t
      <4>5. s + w <= t
        BY <1>12, <4>3
      <4> QED BY <4>4, <4>5 DEF t
    <3> QED BY <1>13, <3>1, <3>2
  <2>6. Rounded(1000, w, j) <= Rounded(1000, x, k)
    BY <1>12, <2>3, <2>5, RoundedMonotone
  <2>7. Rounded(1000, w, j) \in Int /\ Rounded(1000, x, k) \in Int
    BY <1>12, <2>3 DEF Rounded
  <2> QED BY <2>4, <2>6, <2>7
<1>15. ASSUME WinRate(file, "regional") # None,
              ComputeGrade(WinRate(file, "regional")) = "A"
       PROVE  ComputeGrade(WinRate(file', "regional")) = "A"
  <2> DEFINE a == WinRate(file, "regional")
             b == WinRate(file', "regional")
  <2>1. b >= a /\ a >= 600
    BY <1>14, <1>15 DEF ComputeGrade
  <2>2. a \in Int /\ b \in Int
    <3>1. a = Rounded(1000, w, j) /\ j # 0 /\ b = Rounded(1000, x, k) /\ k # 0
      <4>1. J # {} /\ K # {}
        BY <1>3, <1>15 DEF WinRate, J
      <4>2. j # 0 /\ k # 0
        BY <1>11, <1>12, <4>1, FS_EmptySet
      <4> QED BY <4>1, <4>2 DEF WinRate, J, K, W, X
    <3> HIDE DEF w, x, j, k
    <3> QED BY <1>12, <3>1 DEF Rounded
  <2> HIDE DEF a, b
  <2>3. b >= 600
    BY <2>1, <2>2
  <2> QED BY <2>3 DEF ComputeGrade, b
<1> QED BY <1>9, <1>14, <1>15 DEF W, X

\* A vote for the regional model never costs it a prompt on the pages, nor
\* lowers its rate or its best grade there, and an error changes nothing.
THEOREM VotesOnlyHelp == ReportSpec => VoteNeverHurts
<1> DEFINE Step ==
      file' # file =>
         LET added == file'[Len(file')]
             rate  == WinRate(file, "regional")
             rate2 == WinRate(file', "regional")
         IN
         /\ added.winner_model = "regional" =>
              /\ Wins(file, "regional") \subseteq Wins(file', "regional")
              /\ rate # None =>
                   rate2 >= rate /\ (ComputeGrade(rate) = "A" => ComputeGrade(rate2) = "A")
         /\ added.error => Aggregated(file') = Aggregated(file)
<1>1. FileInv /\ [ReportNext]_reportVars => [Step]_(reportVars)
  <2> SUFFICES ASSUME FileInv, [ReportNext]_reportVars, file' # file PROVE Step
    OBVIOUS
  <2>1. PICK letter \in Letters, key \in Keys : file' = Append(file, Verdict(key, letter))
    BY DEF ReportNext, AddOutput, AddVerdict, NextKeys, First, reportVars
  <2> DEFINE v == Verdict(key, letter)
  <2>2. /\ v.error = (letter = "error") /\ v.winner_model = WinnerModel(letter, key[2])
    BY DEF Verdict
  <2>3. v.winner_model = "regional" => ~v.error
    BY <2>2 DEF WinnerModel
  <2> HIDE DEF v
  <2>4. file'[Len(file')] = v
    BY <2>1, OneMore DEF v
  <2>5. v.error => Aggregated(file') = Aggregated(file)
    BY <2>1, ErrorsPassedOver DEF v
  <2>6. v.winner_model = "regional" =>
          /\ Wins(file, "regional") \subseteq Wins(file', "regional")
          /\ WinRate(file, "regional") # None =>
               /\ WinRate(file', "regional") >= WinRate(file, "regional")
               /\ ComputeGrade(WinRate(file, "regional")) = "A" =>
                    ComputeGrade(WinRate(file', "regional")) = "A"
    BY <2>1, <2>3, VoteHelps DEF v
  <2> QED BY <2>4, <2>5, <2>6
<1>2. VoteNeverHurts <=> [][Step]_(reportVars)
  BY DEF VoteNeverHurts
<1> HIDE DEF Step
<1> QED BY <1>1, <1>2, FileInvariant, PTL DEF ReportSpec

-----------------------------------------------------------------------------
(* MetricReport: a value counts the outputs that it is about               *)

\* What a step appends to the outputs.
LEMMA OutputAdded ==
    ASSUME OutputsAreSamples, ReportNext, batch' # batch
    PROVE  /\ setting' = setting
           /\ Added \in setting.samples
           /\ Len(batch) + 1 \notin DOMAIN batch
           /\ DOMAIN batch' = DOMAIN batch \cup {Len(batch) + 1}
           /\ batch'[Len(batch) + 1] = Added
           /\ \A i \in DOMAIN batch : batch'[i] = batch[i]
<1>1. PICK o \in setting.samples : AddOutput(o)
  BY DEF ReportNext, AddVerdict
<1>2. batch' = Append(batch, o) /\ setting' = setting
  BY <1>1 DEF AddOutput
<1>3. batch \in Seq(setting.samples)
  BY DEF OutputsAreSamples
<1>4. /\ Len(batch) \in Nat /\ DOMAIN batch = 1..Len(batch)
      /\ Len(batch') = Len(batch) + 1 /\ DOMAIN batch' = 1..(Len(batch) + 1)
      /\ batch'[Len(batch) + 1] = o
      /\ \A i \in 1..Len(batch) : batch'[i] = batch[i]
  BY <1>2, <1>3
<1>5. setting' = setting /\ Added = o
  BY <1>2, <1>4 DEF Added
<1>6. Len(batch) + 1 \notin DOMAIN batch /\ DOMAIN batch' = DOMAIN batch \cup {Len(batch) + 1}
  BY <1>4
<1> QED BY <1>4, <1>5, <1>6

\* The metric behind each name.
LEMMA ComputeIs ==
    ASSUME NEW b, NEW I
    PROVE  /\ \A m \in {"bleu", "chrf", "bertscore"} : Compute(m, b, I) = Corpus(m, b, I)
           /\ Compute("comet", b, I) = COMET(b, I)
           /\ Compute("lang_adherence", b, I) = LangAdherence(b, I)
           /\ Compute("length_accuracy", b, I) = LengthAccuracy(b, I)
           /\ Compute("format_compliance", b, I) = FormatCompliance(b, I)
           /\ Compute("topic_boundary", b, I) = TopicBoundary(b, I)
           /\ Compute("tone_register", b, I) = ToneRegister(b, I)
           /\ \A m \in NumberMetrics : Compute(m, b, I) = NumberScore(m, b, I, None)
<1>1. \A m \in {"bleu", "chrf", "bertscore"} : Compute(m, b, I) = Corpus(m, b, I)
  BY DEF Compute, NumberMetrics
<1>2. Compute("comet", b, I) = COMET(b, I)
  BY DEF Compute, NumberMetrics
<1>3. Compute("lang_adherence", b, I) = LangAdherence(b, I)
  BY DEF Compute, NumberMetrics
<1>4. Compute("length_accuracy", b, I) = LengthAccuracy(b, I)
  BY DEF Compute, NumberMetrics
<1>5. Compute("format_compliance", b, I) = FormatCompliance(b, I)
  BY DEF Compute, NumberMetrics
<1>6. Compute("topic_boundary", b, I) = TopicBoundary(b, I)
  BY DEF Compute, NumberMetrics
<1>7. Compute("tone_register", b, I) = ToneRegister(b, I)
  BY DEF Compute, NumberMetrics
<1>8. \A m \in NumberMetrics : Compute(m, b, I) = NumberScore(m, b, I, None)
  BY DEF Compute, NumberMetrics
<1> QED BY <1>1, <1>2, <1>3, <1>4, <1>5, <1>6, <1>7, <1>8

\* The number metrics read the selected outputs only.
LEMMA NumberScoresLocal ==
    ASSUME NEW b, NEW c, NEW I, \A i \in I : b[i] = c[i], NEW m \in NumberMetrics
    PROVE  NumberScore(m, b, I, None) = NumberScore(m, c, I, None)
<1>1. DigitByDigit(b, I) = DigitByDigit(c, I)
  BY DEF DigitByDigit
<1>2. WordForm(b, I) = WordForm(c, I)
  BY DEF WordForm
<1>3. DigitLeakage(b, I) = DigitLeakage(c, I)
  <2> DEFINE C == {i \in I : b[i].rule # "digit_by_digit"}
             D == {i \in I : c[i].rule # "digit_by_digit"}
  <2>1. C = D
    OBVIOUS
  <2>2. Leaked(b, C) = Leaked(c, C)
    BY DEF Leaked
  <2>3. /\ DigitLeakage(b, I) = [count |-> Cardinality(Leaked(b, C)), total |-> Cardinality(C)]
        /\ DigitLeakage(c, I) = [count |-> Cardinality(Leaked(c, D)), total |-> Cardinality(D)]
    BY DEF DigitLeakage
  <2> HIDE DEF C, D
  <2> QED BY <2>1, <2>2, <2>3
<1>4. DigitPreservation(b, I) = DigitPreservation(c, I)
  BY DEF DigitPreservation
<1>5. CurrencyUnit(b, I) = CurrencyUnit(c, I)
  BY DEF CurrencyUnit
<1>6. NumberTypeCls(b, I) = NumberTypeCls(c, I)
  BY DEF NumberTypeCls
<1>7. MixedSentence(b, I) = MixedSentence(c, I)
  BY DEF MixedSentence
<1>8. NumberLanguage(b, I) = NumberLanguage(c, I)
  BY DEF NumberLanguage
<1> QED BY <1>1, <1>2, <1>3, <1>4, <1>5, <1>6, <1>7, <1>8 DEF NumberScore, NumberMetrics

\* So does every metric that is scoped to a category.
LEMMA ComputeLocal ==
    ASSUME NEW b, NEW c, NEW I, \A i \in I : b[i] = c[i], NEW m \in ScopedMetrics
    PROVE  Compute(m, b, I) = Compute(m, c, I)
<1>1. CASE m \in NumberMetrics
  <2>1. Compute(m, b, I) = NumberScore(m, b, I, None)
        /\ Compute(m, c, I) = NumberScore(m, c, I, None)
    BY <1>1, ComputeIs
  <2> QED BY <1>1, <2>1, NumberScoresLocal
<1>2. CASE m = "length_accuracy"
  <2>1. {i \in I : Within(b[i])} = {i \in I : Within(c[i])}
    OBVIOUS
  <2>2. LengthAccuracy(b, I) = LengthAccuracy(c, I)
    BY <2>1 DEF LengthAccuracy
  <2> QED BY <1>2, <2>2, ComputeIs
<1>3. CASE m = "format_compliance"
  <2> DEFINE C == {i \in I : b[i].format \in FormatPatterns}
             D == {i \in I : c[i].format \in FormatPatterns}
  <2>1. C = D /\ {i \in C : b[i].matches} = {i \in D : c[i].matches}
    OBVIOUS
  <2>2. FormatCompliance(b, I) = FormatCompliance(c, I)
    BY <2>1 DEF FormatCompliance
  <2> QED BY <1>3, <2>2, ComputeIs
<1>4. CASE m = "topic_boundary"
  <2> DEFINE C == WithOutput(b, I)
  <2>1. C = WithOutput(c, I) /\ C \subseteq I
    BY DEF WithOutput
  <2>2. {i \in C : b[i].on_topic} = {i \in C : c[i].on_topic}
    BY <2>1
  <2> HIDE DEF C
  <2>3. TopicBoundary(b, I) = TopicBoundary(c, I)
    BY <2>1, <2>2 DEF TopicBoundary, C
  <2> QED BY <1>4, <2>3, ComputeIs
<1>5. CASE m = "tone_register"
  <2> DEFINE toned(f) == {i \in I : ToneToRegister[f[i].tone] # {} /\ Detected(f[i]) # {}}
             correct(f) == {i \in toned(f) : Detected(f[i]) = ToneToRegister[f[i].tone]}
  <2>1. toned(b) = toned(c) /\ correct(b) = correct(c)
    OBVIOUS
  <2>2. \A f : ToneRegister(f, I) =
          IF ~language.markers THEN NoScores
          ELSE One("tone_register_accuracy",
                     IF toned(f) = {} THEN None ELSE Rate(toned(f), correct(f)))
    BY DEF ToneRegister
  <2> HIDE DEF toned, correct
  <2>3. ToneRegister(b, I) = ToneRegister(c, I)
    BY <2>1, <2>2
  <2> QED BY <1>5, <2>3, ComputeIs
<1> QED BY <1>1, <1>2, <1>3, <1>4, <1>5 DEF ScopedMetrics

LEMMA OtherCategoryLeaves ==
    ASSUME OutputsAreSamples, ReportNext, batch' # batch, NEW m \in DOMAIN CategoryOf,
           Added.category # CategoryOf[m]
    PROVE  /\ Subset(m, batch') = Subset(m, batch)
           /\ Scores(m, batch') = Scores(m, batch)
<1> DEFINE I == Subset(m, batch)
<1>1. I \subseteq DOMAIN batch /\ Subset(m, batch') = I
  BY OutputAdded DEF Subset
<1>2. m \in ScopedMetrics
  BY DEF CategoryOf
<1>3. \A i \in I : batch'[i] = batch[i]
  BY <1>1, OutputAdded
<1> HIDE DEF I
<1>4. Compute(m, batch', I) = Compute(m, batch, I)
  BY <1>2, <1>3, ComputeLocal
<1> QED BY <1>1, <1>4 DEF Scores, I

\* What the report of a task shows of a metric is what the metric wrote.
LEMMA FieldIs ==
    ASSUME NEW b, NEW part \in {"light_metrics", "model_metrics"}, NEW m, NEW key
    PROVE  Field(Section(b)[part], m, key) =
             IF m \in Applicable /\ TierOf(m) = part /\ key \in DOMAIN Scores(m, b)
             THEN Scores(m, b)[key] ELSE None
<1> DEFINE D == {n \in Applicable : TierOf(n) = part /\ Scores(n, b) # NoScores}
           P == Section(b)[part]
<1>1. P = [n \in D |-> Scores(n, b)]
  BY DEF Section
<1>2. DOMAIN P = D /\ (m \in D => P[m] = Scores(m, b))
  BY <1>1
<1>3. Field(P, m, key) = IF m \in DOMAIN P /\ key \in DOMAIN P[m] THEN P[m][key] ELSE None
  BY DEF Field
<1>4. key \notin DOMAIN NoScores
  BY DEF NoScores
<1> HIDE DEF P
<1>5. m \in D <=> m \in Applicable /\ TierOf(m) = part /\ Scores(m, b) # NoScores
  OBVIOUS
<1> HIDE DEF D
<1> QED BY <1>2, <1>3, <1>4, <1>5 DEF P

\* An output in English is none of those that the summary is about.
LEMMA EnglishLeavesScores ==
    ASSUME OutputsAreSamples, ReportNext, batch' # batch, Added.direction = "target_to_en",
           NEW m \in {"bleu", "chrf", "bertscore", "comet"}
    PROVE  LET key == <<m, "en_to_target">> IN
           /\ key \in DOMAIN Scores(m, batch') <=> key \in DOMAIN Scores(m, batch)
           /\ key \in DOMAIN Scores(m, batch) => Scores(m, batch')[key] = Scores(m, batch)[key]
<1> DEFINE key == <<m, "en_to_target">>
           E(b) == Of(b, DOMAIN b, "en_to_target")
           N(b) == WithOutput(b, E(b))
<1>1. E(batch') = E(batch) /\ E(batch) \subseteq DOMAIN batch
  BY OutputAdded DEF Of
<1>2. N(batch') = N(batch)
  BY <1>1, OutputAdded DEF WithOutput
<1>3. ASSUME NEW b PROVE Subset(m, b) = DOMAIN b
  BY DEF Subset, CategoryOf, ScopedMetrics, NumberMetrics
<1>4. ASSUME NEW b, m # "comet"
      PROVE  /\ key \in DOMAIN Scores(m, b) <=> m \notin fails /\ E(b) # {}
             /\ key \in DOMAIN Scores(m, b) => Scores(m, b)[key] = [from |-> E(b)]
  <2>1. DOMAIN b = {} => E(b) = {}
    BY DEF Of
  <2>2. Scores(m, b) = IF DOMAIN b = {} THEN NoScores ELSE Corpus(m, b, DOMAIN b)
    BY <1>3, <1>4, ComputeIs DEF Scores
  <2> DEFINE T == {m} \X {d \in Directions : Of(b, DOMAIN b, d) # {}}
  <2>3. Corpus(m, b, DOMAIN b) =
          IF m \in fails THEN NoScores ELSE [k \in T |-> [from |-> Of(b, DOMAIN b, k[2])]]
    BY DEF Corpus
  <2>4. key \in T <=> E(b) # {}
    BY DEF Directions
  <2>5. key \notin DOMAIN NoScores
    BY DEF NoScores
  <2> HIDE DEF T
  <2> QED BY <2>1, <2>2, <2>3, <2>4, <2>5
<1>5. ASSUME NEW b, m = "comet"
      PROVE  /\ key \in DOMAIN Scores(m, b) <=> m \notin fails /\ N(b) # {}
             /\ key \in DOMAIN Scores(m, b) => Scores(m, b)[key] = [from |-> N(b)]
  <2>1. DOMAIN b = {} => N(b) = {}
    BY DEF Of, WithOutput
  <2>2. Scores(m, b) = IF DOMAIN b = {} THEN NoScores ELSE COMET(b, DOMAIN b)
    BY <1>3, <1>5, ComputeIs DEF Scores
  <2> DEFINE data(d) == WithOutput(b, Of(b, DOMAIN b, d))
             T == {"comet"} \X {d \in Directions : data(d) # {}}
  <2>3. COMET(b, DOMAIN b) =
          IF "comet" \in fails THEN NoScores ELSE [k \in T |-> [from |-> data(k[2])]]
    BY DEF COMET
  <2>4. key \in T <=> N(b) # {}
    BY <1>5 DEF Directions
  <2>5. key \notin DOMAIN NoScores
    BY DEF NoScores
  <2> HIDE DEF T
  <2> QED BY <1>5, <2>1, <2>2, <2>3, <2>4, <2>5
<1> HIDE DEF E, N, key
<1>6. CASE m # "comet"
  BY <1>1, <1>4, <1>6 DEF key
<1>7. CASE m = "comet"
  BY <1>2, <1>5, <1>7 DEF key
<1> QED BY <1>6, <1>7

LEMMA EnglishLeavesSummary ==
    ASSUME OutputsAreSamples, ReportNext, batch' # batch, task = "translation",
           Added.direction = "target_to_en"
    PROVE  LanguageSummary(batch') = LanguageSummary(batch)
<1> DEFINE light(b) == Section(b)["light_metrics"]
           model(b) == Section(b)["model_metrics"]
           shown(b, m) == Field(IF m \in {"bleu", "chrf"} THEN light(b) ELSE model(b),
                                  m, <<m, "en_to_target">>)
<1>1. ASSUME NEW b PROVE LanguageSummary(b) = [m \in TranslationMetrics |-> shown(b, m)]
  BY DEF LanguageSummary
<1>2. ASSUME NEW m \in TranslationMetrics PROVE shown(batch', m) = shown(batch, m)
  <2>1. CASE m = "back_translation"
    BY <2>1, FieldIs DEF TierOf
  <2>2. CASE m # "back_translation"
    <3>1. m \in {"bleu", "chrf", "bertscore", "comet"}
      BY <2>2 DEF TranslationMetrics
    <3> DEFINE key  == <<m, "en_to_target">>
               part == IF m \in {"bleu", "chrf"} THEN "light_metrics" ELSE "model_metrics"
    <3>2. ASSUME NEW b
          PROVE  shown(b, m) = IF m \in Applicable /\ TierOf(m) = part /\ key \in DOMAIN Scores(m, b)
                               THEN Scores(m, b)[key] ELSE None
      BY FieldIs
    <3>3. /\ key \in DOMAIN Scores(m, batch') <=> key \in DOMAIN Scores(m, batch)
          /\ key \in DOMAIN Scores(m, batch) => Scores(m, batch')[key] = Scores(m, batch)[key]
      BY <3>1, EnglishLeavesScores
    <3> HIDE DEF key, part, shown
    <3> QED BY <3>2, <3>3
  <2> QED BY <2>1, <2>2
<1> HIDE DEF shown
<1> QED BY <1>1, <1>2

LEMMA COMETHasOutputs ==
    ASSUME NEW b, NEW k \in DOMAIN Scores("comet", b)
    PROVE  /\ Scores("comet", b)[k].from # {}
           /\ \A i \in Scores("comet", b)[k].from : HasOutput(b[i])
<1> DEFINE data(d) == WithOutput(b, Of(b, Subset("comet", b), d))
           T == {"comet"} \X {d \in Directions : data(d) # {}}
<1>1. DOMAIN NoScores = {}
  BY DEF NoScores
<1>2. Scores("comet", b) \in {NoScores, [t \in T |-> [from |-> data(t[2])]]}
  <2> DEFINE I == Subset("comet", b)
  <2>1. Scores("comet", b) = IF I = {} THEN NoScores ELSE COMET(b, I)
    BY ComputeIs DEF Scores
  <2>2. COMET(b, I) \in {NoScores, [t \in T |-> [from |-> data(t[2])]]}
    BY DEF COMET
  <2> HIDE DEF T
  <2> QED BY <2>1, <2>2
<1>3. Scores("comet", b) = [t \in T |-> [from |-> data(t[2])]] /\ k \in T
  BY <1>1, <1>2
<1>4. Scores("comet", b)[k].from = data(k[2]) /\ data(k[2]) # {}
  BY <1>3
<1>5. \A i \in data(k[2]) : HasOutput(b[i])
  BY DEF WithOutput
<1> QED BY <1>4, <1>5

\* A value counts the outputs that it is about and no others, whatever the
\* outputs, the tables of the language and the libraries that raise.
THEOREM ValuesCountTheirOutputs == ReportSpec => OnlyItsOutputs
<1> DEFINE Step ==
      batch' # batch =>
         /\ task = "instructions" =>
              \A m \in DOMAIN CategoryOf : Added.category # CategoryOf[m] =>
                Scores(m, batch') = Scores(m, batch)
         /\ task = "translation" =>
              /\ Added.direction = "target_to_en" =>
                   LanguageSummary(batch') = LanguageSummary(batch)
              /\ LET comet == Scores("comet", batch') IN
                 \A k \in DOMAIN comet :
                   comet[k].from # {} /\ \A i \in comet[k].from : HasOutput(batch'[i])
<1>1. OutputsAreSamples /\ [ReportNext]_reportVars => [Step]_(reportVars)
  <2> SUFFICES ASSUME OutputsAreSamples, ReportNext, batch' # batch PROVE Step
    BY DEF reportVars
  <2> QED BY OtherCategoryLeaves, EnglishLeavesSummary, COMETHasOutputs
<1>2. OnlyItsOutputs <=> [][Step]_(reportVars)
  BY DEF OnlyItsOutputs
<1> HIDE DEF Step
<1> QED BY <1>1, <1>2, OutputsInvariant, PTL DEF ReportSpec

-----------------------------------------------------------------------------
(* MetricReport: an empty output never raises a rate                       *)

\* As many correct of more is no higher a rate.
LEMMA MoreCounted ==
    ASSUME NEW C, NEW D, NEW P, IsFiniteSet(D), C \subseteq D, P \subseteq C
    PROVE  ~Exceeds(Rate(D, P), Rate(C, P))
<1> DEFINE p == Cardinality(P)
           c == Cardinality(C)
           d == Cardinality(D)
<1>1. IsFiniteSet(C) /\ IsFiniteSet(P) /\ c <= d
  <2>1. IsFiniteSet(C) /\ c <= d
    BY FS_Subset
  <2> QED BY <2>1, FS_Subset
<1>2. p \in Nat /\ c \in Nat /\ d \in Nat
  BY <1>1, FS_CardinalityType
<1>3. Rate(D, P) = [correct |-> p, total |-> d] /\ Rate(C, P) = [correct |-> p, total |-> c]
  BY DEF Rate
<1> HIDE DEF p, c, d
<1>4. p * c <= p * d /\ p * c \in Nat /\ p * d \in Nat
  <2>1. c * p <= d * p /\ p * c = c * p /\ p * d = d * p /\ p * c \in Nat /\ p * d \in Nat
    BY <1>1, <1>2, TimesMonotone, TimesAssociate
  <2> QED BY <2>1
<1>5. ~(p * c > p * d)
  BY <1>4
<1> QED BY <1>3, <1>5 DEF Exceeds

\* The blank output, and the samples of a metric before and after it.
LEMMA BlankAdded ==
    ASSUME OutputsAreSamples, ReportNext, batch' # batch,
           task = "instructions", Added.text = "blank", NEW m
    PROVE  LET n == Len(batch) + 1
               I == Subset(m, batch)
               J == Subset(m, batch')
           IN  /\ I \subseteq J /\ J \subseteq I \cup {n} /\ n \notin I
               /\ IsFiniteSet(J)
               /\ \A i \in I : batch'[i] = batch[i]
               /\ ~HasOutput(batch'[n])
               /\ batch'[n].matches = FALSE /\ batch'[n].markers = {}
<1> DEFINE n == Len(batch) + 1
           I == Subset(m, batch)
           J == Subset(m, batch')
<1>1. /\ Added \in setting.samples /\ n \notin DOMAIN batch
      /\ DOMAIN batch' = DOMAIN batch \cup {n} /\ batch'[n] = Added
      /\ \A i \in DOMAIN batch : batch'[i] = batch[i]
  BY OutputAdded
<1>2. Added.matches = FALSE /\ Added.markers = {}
  BY <1>1, SettingsAssumption DEF task, OutputsAreSamples
<1>3. I \subseteq DOMAIN batch /\ J \subseteq DOMAIN batch'
  BY DEF Subset
<1>4. I \subseteq J /\ J \subseteq I \cup {n}
  BY <1>1 DEF Subset
<1>5. IsFiniteSet(J)
  <2>1. DOMAIN batch = 1..Len(batch) /\ Len(batch) \in Nat
    BY DEF OutputsAreSamples
  <2>2. IsFiniteSet(1..Len(batch))
    BY <2>1, FS_Interval
  <2>3. IsFiniteSet(DOMAIN batch \cup {n})
    BY <2>1, <2>2, FS_AddElement
  <2> HIDE DEF J, n
  <2> QED BY <1>1, <1>3, <2>3, FS_Subset
<1>6. ~HasOutput(batch'[n])
  BY <1>1 DEF HasOutput
<1> HIDE DEF I, J, n
<1> QED BY <1>1, <1>2, <1>3, <1>4, <1>5, <1>6 DEF I, J, n

\* What the summary of an instruction task shows of a metric.
Shown(b, m, key) ==
    IF key \in DOMAIN Scores(m, b) THEN Scores(m, b)[key] ELSE None

LEMMA SummaryShows ==
    ASSUME task = "instructions", NEW b
    PROVE  LanguageSummary(b) =
             [lang_adherence    |-> Shown(b, "lang_adherence", "lang_adherence_rate"),
              tone_register     |-> Shown(b, "tone_register", "tone_register_accuracy"),
              length_accuracy   |-> Shown(b, "length_accuracy", "length_accuracy"),
              format_compliance |-> Shown(b, "format_compliance", "format_compliance"),
              topic_boundary    |-> Shown(b, "topic_boundary", "topic_boundary_compliance")]
<1>1. ASSUME NEW m \in {"lang_adherence", "tone_register", "length_accuracy", "format_compliance",
                        "topic_boundary"}, NEW key
      PROVE  Field(Section(b)["light_metrics"], m, key) = Shown(b, m, key)
  <2>1. m \in Applicable
    BY DEF Applicable, InstructionMetrics, ScopedMetrics
  <2>2. TierOf(m) = "light_metrics"
    BY DEF TierOf
  <2> QED BY <2>1, <2>2, FieldIs DEF Shown
<1> QED BY <1>1 DEF LanguageSummary

\* A score under one key.
LEMMA ShownOne ==
    ASSUME NEW b, NEW m, NEW key, NEW value
    PROVE  /\ Subset(m, b) = {} => Shown(b, m, key) = None
           /\ Subset(m, b) # {} /\ Compute(m, b, Subset(m, b)) = NoScores
                => Shown(b, m, key) = None
           /\ Subset(m, b) # {} /\ Compute(m, b, Subset(m, b)) = One(key, value)
                => Shown(b, m, key) = value
<1>1. key \notin DOMAIN NoScores
  BY DEF NoScores
<1>2. key \in DOMAIN One(key, value) /\ One(key, value)[key] = value
  BY DEF One
<1> QED BY <1>1, <1>2 DEF Shown, Scores

LEMMA NoneExceedsNothing == \A r : ~Exceeds(None, r) /\ ~Exceeds(r, None)
  BY DEF Exceeds

LEMMA BlankAdherence ==
    ASSUME OutputsAreSamples, ReportNext, batch' # batch,
           task = "instructions", Added.text = "blank"
    PROVE  ~Exceeds(Shown(batch', "lang_adherence", "lang_adherence_rate"),
                      Shown(batch, "lang_adherence", "lang_adherence_rate"))
<1> DEFINE m   == "lang_adherence"
           key == "lang_adherence_rate"
           n   == Len(batch) + 1
           I   == Subset(m, batch)
           J   == Subset(m, batch')
           C   == WithOutput(batch, I)
           P   == {i \in C : batch[i].text = "target"}
<1>1. /\ I \subseteq J /\ J \subseteq I \cup {n} /\ IsFiniteSet(J)
      /\ \A i \in I : batch'[i] = batch[i]
      /\ ~HasOutput(batch'[n])
  BY BlankAdded
<1>2. CASE I = {}
  BY <1>2, ShownOne, NoneExceedsNothing
<1>3. CASE I # {} /\ ~language.iso
  <2>1. Compute(m, batch, I) = NoScores
    BY <1>3, ComputeIs DEF LangAdherence
  <2> QED BY <1>3, <2>1, ShownOne, NoneExceedsNothing
<1>4. CASE I # {} /\ language.iso
  <2>1. WithOutput(batch', J) = C /\ C \subseteq I
    BY <1>1 DEF WithOutput
  <2>2. {i \in C : batch'[i].text = "target"} = P
    BY <1>1, <2>1
  <2> HIDE DEF I, J
  <2>3. Compute(m, batch, I) = One(key, Rate(C, P))
    BY <1>4, ComputeIs DEF LangAdherence
  <2>4. Compute(m, batch', J) = One(key, Rate(C, P))
    <3> HIDE DEF C, P
    <3> QED BY <1>4, <2>1, <2>2, ComputeIs DEF LangAdherence
  <2> HIDE DEF C
  <2>5. J # {}
    BY <1>1, <1>4
  <2>6. Shown(batch, m, key) = Rate(C, P) /\ Shown(batch', m, key) = Rate(C, P)
    <3> HIDE DEF P
    <3> QED BY <1>4, <2>3, <2>4, <2>5, ShownOne DEF I, J
  <2>7. C \subseteq J /\ P \subseteq C
    BY <1>1, <2>1
  <2>8. IsFiniteSet(C)
    BY <1>1, <2>7, FS_Subset
  <2> HIDE DEF P
  <2> QED BY <2>6, <2>7, <2>8, MoreCounted
<1> QED BY <1>2, <1>3, <1>4

LEMMA BlankFormat ==
    ASSUME OutputsAreSamples, ReportNext, batch' # batch,
           task = "instructions", Added.text = "blank"
    PROVE  ~Exceeds(Shown(batch', "format_compliance", "format_compliance"),
                      Shown(batch, "format_compliance", "format_compliance"))
<1> DEFINE m == "format_compliance"
           n == Len(batch) + 1
           I == Subset(m, batch)
           J == Subset(m, batch')
           C == {i \in I : batch[i].format \in FormatPatterns}
           D == {i \in J : batch'[i].format \in FormatPatterns}
           P == {i \in C : batch[i].matches}
<1>1. /\ I \subseteq J /\ J \subseteq I \cup {n} /\ IsFiniteSet(J) /\ n \notin I
      /\ \A i \in I : batch'[i] = batch[i]
      /\ batch'[n].matches = FALSE
  BY BlankAdded
<1>2. CASE I = {}
  BY <1>2, ShownOne, NoneExceedsNothing
<1>3. CASE I # {}
  <2>1. C \subseteq D /\ D \subseteq J /\ P \subseteq C
    BY <1>1
  <2>2. {i \in D : batch'[i].matches} = P
    BY <1>1
  <2>3. Compute(m, batch, I) = One(m, Rate(C, P))
    BY ComputeIs DEF FormatCompliance
  <2>4. Compute(m, batch', J) = One(m, Rate(D, {i \in D : batch'[i].matches}))
    BY ComputeIs DEF FormatCompliance
  <2> HIDE DEF C, D
  <2>5. J # {}
    BY <1>1, <1>3
  <2>6. Shown(batch, m, m) = Rate(C, P) /\ Shown(batch', m, m) = Rate(D, P)
    <3> HIDE DEF P
    <3> QED BY <1>3, <2>2, <2>3, <2>4, <2>5, ShownOne
  <2>7. IsFiniteSet(D)
    BY <1>1, <2>1, FS_Subset
  <2> HIDE DEF P
  <2> QED BY <2>1, <2>6, <2>7, MoreCounted
<1> QED BY <1>2, <1>3

LEMMA BlankTopic ==
    ASSUME OutputsAreSamples, ReportNext, batch' # batch,
           task = "instructions", Added.text = "blank"
    PROVE  ~Exceeds(Shown(batch', "topic_boundary", "topic_boundary_compliance"),
                      Shown(batch, "topic_boundary", "topic_boundary_compliance"))
<1> DEFINE m   == "topic_boundary"
           key == "topic_boundary_compliance"
           n   == Len(batch) + 1
           I   == Subset(m, batch)
           J   == Subset(m, batch')
           C   == WithOutput(batch, I)
           P   == {i \in C : batch[i].on_topic}
<1>1. /\ I \subseteq J /\ J \subseteq I \cup {n} /\ IsFiniteSet(J)
      /\ \A i \in I : batch'[i] = batch[i]
      /\ ~HasOutput(batch'[n])
  BY BlankAdded
<1>2. WithOutput(batch', J) = C /\ C \subseteq I
  BY <1>1 DEF WithOutput
<1>3. {i \in C : batch'[i].on_topic} = P
  BY <1>1, <1>2
<1>4. CASE I = {}
  BY <1>4, ShownOne, NoneExceedsNothing
<1>5. CASE I # {}
  <2> DEFINE score == IF "sentence_transformers" \in fails THEN NoScores
                      ELSE IF C = {} THEN One(key, Rate({}, {}))
                      ELSE IF m \in fails THEN NoScores
                      ELSE One(key, Rate(C, P))
  <2>1. Compute(m, batch, I) = score
    BY ComputeIs DEF TopicBoundary
  <2>2. Compute(m, batch', J) = score
    <3>1. Compute(m, batch', J) = TopicBoundary(batch', J)
      BY ComputeIs
    <3> HIDE DEF I, J, C, P
    <3> QED BY <1>2, <1>3, <3>1 DEF TopicBoundary
  <2>3. J # {}
    BY <1>1, <1>5
  <2>4. C \subseteq J /\ P \subseteq C /\ IsFiniteSet(C)
    <3>1. C \subseteq J /\ P \subseteq C
      BY <1>1, <1>2
    <3> HIDE DEF C, P, J
    <3> QED BY <1>1, <3>1, FS_Subset
  <2>5. CASE C = {} /\ "sentence_transformers" \notin fails
    <3>1. Shown(batch, m, key) = Rate({}, {}) /\ Shown(batch', m, key) = Rate({}, {})
      <4> HIDE DEF C
      <4> QED BY <1>5, <2>1, <2>2, <2>3, <2>5, ShownOne
    <3>2. IsFiniteSet({})
      BY FS_EmptySet
    <3> QED BY <3>1, <3>2, MoreCounted
  <2>6. CASE "sentence_transformers" \in fails \/ (C # {} /\ m \in fails)
    <3> HIDE DEF C, P
    <3> QED BY <1>5, <2>1, <2>6, ShownOne, NoneExceedsNothing
  <2>7. CASE C # {} /\ m \notin fails /\ "sentence_transformers" \notin fails
    <3>1. Shown(batch, m, key) = Rate(C, P) /\ Shown(batch', m, key) = Rate(C, P)
      <4> HIDE DEF C, P
      <4> QED BY <1>5, <2>1, <2>2, <2>3, <2>7, ShownOne
    <3> HIDE DEF C, P
    <3> QED BY <2>4, <3>1, MoreCounted
  <2> QED BY <2>5, <2>6, <2>7
<1> QED BY <1>4, <1>5

LEMMA BlankTone ==
    ASSUME OutputsAreSamples, ReportNext, batch' # batch,
           task = "instructions", Added.text = "blank"
    PROVE  ~Exceeds(Shown(batch', "tone_register", "tone_register_accuracy"),
                      Shown(batch, "tone_register", "tone_register_accuracy"))
<1> DEFINE m   == "tone_register"
           key == "tone_register_accuracy"
           n   == Len(batch) + 1
           I   == Subset(m, batch)
           J   == Subset(m, batch')
           toned(b, S) == {i \in S : ToneToRegister[b[i].tone] # {} /\ Detected(b[i]) # {}}
           right(b, S)  == {i \in toned(b, S) : Detected(b[i]) = ToneToRegister[b[i].tone]}
           C   == toned(batch, I)
           P   == right(batch, I)
<1>1. /\ I \subseteq J /\ J \subseteq I \cup {n} /\ IsFiniteSet(J) /\ n \notin I
      /\ \A i \in I : batch'[i] = batch[i]
      /\ batch'[n].markers = {}
  BY BlankAdded
<1>2. Detected(batch'[n]) = {}
  BY <1>1 DEF Detected
<1>3. toned(batch', J) = C /\ C \subseteq I
  BY <1>1, <1>2
<1>4. right(batch', J) = P /\ P \subseteq C
  <2>1. \A i \in C : batch'[i] = batch[i]
    BY <1>1
  <2>2. right(batch', J) = {i \in C : Detected(batch'[i]) = ToneToRegister[batch'[i].tone]}
    BY <1>3
  <2> HIDE DEF toned
  <2> QED BY <2>1, <2>2
<1>5. CASE I = {}
  BY <1>5, ShownOne, NoneExceedsNothing
<1>6. CASE I # {} /\ ~language.markers
  <2>1. Compute(m, batch, I) = NoScores
    BY <1>6, ComputeIs DEF ToneRegister
  <2> QED BY <1>6, <2>1, ShownOne, NoneExceedsNothing
<1>7. CASE I # {} /\ language.markers
  <2> DEFINE value == IF C = {} THEN None ELSE Rate(C, P)
  <2>1. ASSUME NEW b, NEW S
        PROVE  Compute(m, b, S) =
                 One(key, IF toned(b, S) = {} THEN None ELSE Rate(toned(b, S), right(b, S)))
    BY <1>7, ComputeIs DEF ToneRegister
  <2> HIDE DEF toned, right
  <2>2. Compute(m, batch, I) = One(key, value)
    BY <2>1
  <2>3. Compute(m, batch', J) = One(key, value)
    <3>1. Compute(m, batch', J) =
            One(key, IF toned(batch', J) = {} THEN None
                       ELSE Rate(toned(batch', J), right(batch', J)))
      BY <2>1
    <3> QED BY <1>3, <1>4, <3>1
  <2>4. J # {}
    BY <1>1, <1>7
  <2>5. Shown(batch, m, key) = value /\ Shown(batch', m, key) = value
    <3> HIDE DEF value
    <3> QED BY <1>7, <2>2, <2>3, <2>4, ShownOne
  <2>6. C \subseteq J
    BY <1>1, <1>3
  <2> HIDE DEF C, P
  <2>7. IsFiniteSet(C)
    BY <1>1, <2>6, FS_Subset
  <2>8. ~Exceeds(Rate(C, P), Rate(C, P))
    BY <1>4, <2>7, MoreCounted
  <2> QED BY <2>5, <2>8, NoneExceedsNothing
<1> QED BY <1>5, <1>6, <1>7

\* An empty output never raises what the summary shows of adherence, format,
\* topic and tone.
THEOREM BlanksNeverPay == ReportSpec => BlankNeverRaises
<1> DEFINE Step ==
      task = "instructions" /\ batch' # batch /\ Added.text = "blank" =>
         \A m \in DOMAIN LanguageSummary(batch) \ {"length_accuracy"} :
           ~Exceeds(LanguageSummary(batch')[m], LanguageSummary(batch)[m])
<1>1. OutputsAreSamples /\ [ReportNext]_reportVars => [Step]_(reportVars)
  <2> SUFFICES ASSUME OutputsAreSamples, ReportNext, batch' # batch,
                      task = "instructions", Added.text = "blank",
                      NEW m \in DOMAIN LanguageSummary(batch) \ {"length_accuracy"}
               PROVE  ~Exceeds(LanguageSummary(batch')[m], LanguageSummary(batch)[m])
    BY DEF reportVars
  <2>1. m \in {"lang_adherence", "tone_register", "format_compliance", "topic_boundary"}
    BY SummaryShows
  <2> QED BY <2>1, SummaryShows, BlankAdherence, BlankFormat, BlankTopic, BlankTone
<1>2. BlankNeverRaises <=> [][Step]_(reportVars)
  BY DEF BlankNeverRaises
<1> HIDE DEF Step
<1> QED BY <1>1, <1>2, OutputsInvariant, PTL DEF ReportSpec

=============================================================================
