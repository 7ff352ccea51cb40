-------------------------- MODULE ReviewCacheProofs --------------------------
(***************************************************************************)
(* For any runs, languages, requests and settings: the types, that copies  *)
(* agree with each other, that a page is of its slug, that no run has two  *)
(* rows, and that a refresh keeps and finds what it should.                *)
(*                                                                         *)
(* The first three rest on the one download there is at a time: how many   *)
(* of its files it has, and that without --force no meta.json is there     *)
(* before its own (Progress); and on every folder that was never left      *)
(* empty having its page (PagesOfSlugs).  The last two rest on what        *)
(* a refresh has read and found: the runs of its rows, of its new entries  *)
(* and of those left to scan are disjoint (Apart), and cover those that    *)
(* were due (Covered).                                                     *)
(***************************************************************************)
EXTENDS ReviewCache, SequenceTheorems, WellFoundedInduction, TLAPS

-----------------------------------------------------------------------------
(* Numbers and lists                                                       *)

LEMMA MinExists ==
    ASSUME NEW S \in SUBSET Nat, S # {}
    PROVE  Min(S) \in S /\ \A y \in S : Min(S) <= y
  <1> DEFINE R == OpToRel(<, Nat)
  <1>1. IsWellFoundedOn(R, Nat)
    BY NatLessThanWellFounded
  <1>2. \A p, q \in Nat : p < q => <<p, q>> \in R
    BY DEF OpToRel
  <1> HIDE DEF R
  <1>3. PICK x \in S : \A y \in S : ~(<<y, x>> \in R)
    BY <1>1, WFMin
  <1>4. ASSUME NEW y \in S PROVE x <= y
    <2>1. x \in Nat /\ y \in Nat
      OBVIOUS
    <2>2. ~(y < x)
      BY <1>2, <1>3, <2>1
    <2> QED BY <2>1, <2>2
  <1> QED BY <1>3, <1>4 DEF Min

LEMMA DiscoveredTyped ==
    ASSUME NEW r \in Runs
    PROVE  /\ Discovered(r) \in Slugs \cup {None}
           /\ Judged(r) # {} => Discovered(r) \in Judged(r)
  <1>1. /\ Judged(r) \in SUBSET Nat /\ Generated(r) \in SUBSET Nat
        /\ Judged(r) \subseteq Slugs /\ Generated(r) \subseteq Slugs
    BY SlugsRanked DEF Judged, Generated
  <1>2. Judged(r) # {} => Min(Judged(r)) \in Judged(r)
    BY <1>1, MinExists
  <1>3. Generated(r) # {} => Min(Generated(r)) \in Generated(r)
    BY <1>1, MinExists
  <1> QED BY <1>1, <1>2, <1>3 DEF Discovered

\* The grade of a run's first row is the grade of one of its rows.
LEMMA RowGradeTyped ==
    ASSUME NEW r \in Runs, rows \in Seq(Rows)
    PROVE  RowGrade(r) \in Froms \cup {No}
  <1> DEFINE D == {i \in DOMAIN rows : rows[i].run = r}
  <1>1. CASE r \in RunsOf(rows)
    <2>1. D \in SUBSET Nat /\ D # {}
      BY <1>1 DEF RunsOf
    <2>2. Min(D) \in D /\ \A j \in D : Min(D) <= j
      BY <2>1, MinExists
    <2> DEFINE first == CHOOSE i \in DOMAIN rows :
                  rows[i].run = r /\ \A j \in DOMAIN rows : rows[j].run = r => i <= j
    <2>3. first \in DOMAIN rows
      BY <2>2
    <2>4. rows[first] \in Rows
      BY <2>3
    <2> HIDE DEF first
    <2>5. rows[first].from \in Froms
      BY <2>4 DEF Rows
    <2> QED BY <1>1, <2>5 DEF RowGrade, first
  <1>2. CASE r \notin RunsOf(rows)
    BY <1>2 DEF RowGrade
  <1> QED BY <1>1, <1>2

-----------------------------------------------------------------------------
(* The types                                                               *)

Dirs == [verdicts : Froms, gemma4 : BOOLEAN, regional : BOOLEAN, meta : Froms \cup {Torn}]

LEMMA FileTyped ==
    ASSUME TypeOK, NEW r \in Runs, NEW s \in Slugs
    PROVE  /\ Verdicts(s, verdicts[r][s]) \in VerdictFiles /\ Verdicts(s, 0) \in VerdictFiles
           /\ verdicts[r][s] \in Nat
  BY SettingsNamed DEF TypeOK, Verdicts, VerdictFiles

LEMMA NoneIsNoFile == None \notin VerdictFiles /\ Torn \notin VerdictFiles /\ Torn # None
  BY SettingsNamed DEF VerdictFiles

LEMMA TypesBegin == Init => TypeOK
  <1> SUFFICES ASSUME Init PROVE TypeOK
    OBVIOUS
  <1>1. EmptyDir \in Dirs /\ Start \in [Runs -> [Slugs -> Froms]]
    BY DEF EmptyDir, Dirs, Start, Froms
  <1>2. NoRefresh \in [at : {"idle", "scanning"}, rows : Seq(Rows), left : SUBSET Runs,
                       new : Seq(Rows), due : SUBSET Runs]
    BY DEF NoRefresh
  <1> QED BY <1>1, <1>2, SettingsNamed DEF Init, TypeOK, Dirs

\* What a download does to the directory it fills.
LEMMA DownloadTypes ==
    ASSUME TypeOK, GetVerdicts \/ GetGemma4 \/ GetRegional \/ OpenMeta \/ WriteMeta \/ DownloadFails \/ Interrupted
    PROVE  TypeOK'
  <1>1. /\ download.at # "idle"
        /\ download \in [at : {"verdicts", "gemma4", "regional", "meta", "writing"}, run : Runs, slug : Slugs]
    BY DEF TypeOK, NoDownload, GetVerdicts, GetGemma4, GetRegional, OpenMeta, WriteMeta, DownloadFails, Interrupted
  <1> DEFINE r == download.run
             s == download.slug
             file == Verdicts(s, verdicts[r][s])
  <1>2. r \in Runs /\ s \in Slugs /\ cache[r] \in Dirs /\ file \in Froms
    BY <1>1, FileTyped DEF TypeOK, Froms, Dirs
  <1> HIDE DEF file
  <1>3. cache' \in [Runs -> Dirs]
    <2>1. CASE GetVerdicts
      <3>1. cache' = [cache EXCEPT ![r].verdicts = file]
        BY <2>1 DEF GetVerdicts, file
      <3>2. [cache[r] EXCEPT !.verdicts = file] \in Dirs
        BY <1>2 DEF Dirs
      <3> QED BY <1>2, <3>1, <3>2 DEF TypeOK, Dirs
    <2>2. CASE GetGemma4
      BY <1>2, <2>2 DEF TypeOK, Dirs, GetGemma4
    <2>3. CASE GetRegional
      BY <1>2, <2>3 DEF TypeOK, Dirs, GetRegional
    <2>4. CASE WriteMeta
      BY <1>2, <2>4 DEF TypeOK, Dirs, WriteMeta
    <2>5. CASE DownloadFails \/ Interrupted
      BY <2>5 DEF TypeOK, Dirs, DownloadFails, Interrupted
    <2>6. CASE OpenMeta
      BY <1>2, <2>6 DEF TypeOK, Dirs, OpenMeta
    <2> QED BY <2>1, <2>2, <2>3, <2>4, <2>5, <2>6
  <1>4. download' \in [at : {"verdicts", "gemma4", "regional", "meta", "writing"}, run : Runs, slug : Slugs]
                      \cup {NoDownload}
    BY <1>1 DEF GetVerdicts, GetGemma4, GetRegional, OpenMeta, WriteMeta, DownloadFails, Interrupted
  <1>5. UNCHANGED <<volume, shown, listed>>
    BY DEF GetVerdicts, GetGemma4, GetRegional, OpenMeta, WriteMeta, DownloadFails, Interrupted
  <1> QED BY <1>3, <1>4, <1>5 DEF TypeOK, Dirs, volume, shown, listed

LEMMA PageTypes ==
    ASSUME TypeOK, NEW r \in Runs,
           \/ RenderAll(r) \/ \E s \in Slugs : RenderOne(r, s) \/ RenderStops(r, s)
           \/ ServeStatic(r) \/ ServePage(r) \/ ServeFromCache(r) \/ ServeFromVolume(r)
    PROVE  TypeOK'
  <1>1. /\ cache[r] \in Dirs /\ RowGrade(r) \in Froms \cup {No} /\ GradeOf(r) \in Froms \cup {No}
        /\ KnownSlugs(r) \subseteq Slugs
    <2>1. cache[r] \in Dirs /\ RowGrade(r) \in Froms \cup {No}
      BY RowGradeTyped DEF TypeOK, Dirs
    <2>2. Readable(cache[r]) => cache[r].meta \in VerdictFiles /\ cache[r].meta.slug \in Slugs
      BY <2>1 DEF Readable, Dirs, Froms, VerdictFiles
    <2>3. GradeOf(r) \in Froms \cup {No}
      BY <2>1, <2>2 DEF GradeOf, Froms
    <2> QED BY <2>1, <2>2, <2>3 DEF KnownSlugs
  <1>2. Discovered(r) \in Slugs \cup {None} /\ (Whole(cache[r]) => cache[r].verdicts \in VerdictFiles)
    BY <1>1, DiscoveredTyped DEF Whole, Dirs, Froms
  <1>3. CASE RenderAll(r)
    <2> DEFINE s == cache[r].meta.slug
    <2>1. s \in Slugs
      BY <1>1, <1>3 DEF RenderAll, Readable, Dirs, Froms, VerdictFiles
    <2>2. static' = [static EXCEPT ![r][s] = cache[r].verdicts] /\ cache[r].verdicts \in Froms
      BY <1>1, <1>3 DEF RenderAll, Dirs
    <2> HIDE DEF s
    <2>3. static' \in [Runs -> [Slugs -> Froms]]
      BY <2>1, <2>2 DEF TypeOK
    <2> QED BY <1>3, <2>3 DEF TypeOK, RenderAll, volume, fetched, listed
  <1>4. ASSUME NEW s \in Slugs, RenderOne(r, s) PROVE TypeOK'
    <2>1. PICK n : n \in {verdicts[r][s], 0} /\ PageMade(r, s, Verdicts(s, n))
      BY <1>4 DEF RenderOne
    <2>2. Verdicts(s, n) \in Froms
      BY <2>1, FileTyped DEF Froms
    <2>3. pages' \in [Runs -> [Slugs -> Froms]] /\ folders' \subseteq Runs \X Slugs /\ stopped' \subseteq folders'
      BY <1>4, <2>1, <2>2 DEF TypeOK, PageMade, RenderOne
    <2> QED BY <1>4, <2>3 DEF TypeOK, RenderOne, volume, fetched, listed
  <1>9. ASSUME NEW s \in Slugs, RenderStops(r, s) PROVE TypeOK'
    BY <1>9 DEF TypeOK, RenderStops, volume, fetched, listed
  <1>5. CASE ServeStatic(r)
    <2>1. PICK s \in Slugs : static[r][s] # None /\ answer' = Answer(r, s, static[r][s], GradeOf(r))
      BY <1>5 DEF ServeStatic
    <2>2. static[r][s] \in VerdictFiles
      BY <2>1 DEF TypeOK, Froms
    <2>3. answer' \in Answers
      BY <1>1, <2>1, <2>2 DEF Answer, Answers
    <2> QED BY <1>5, <2>3 DEF TypeOK, ServeStatic, volume, fetched, listed
  <1>6. CASE ServePage(r)
    <2>1. PICK s \in KnownSlugs(r) : pages[r][s] # None /\ answer' = Answer(r, s, pages[r][s], GradeOf(r))
      BY <1>6 DEF ServePage
    <2>2. s \in Slugs /\ pages[r][s] \in VerdictFiles
      BY <1>1, <2>1 DEF TypeOK, Froms
    <2>3. answer' \in Answers
      BY <1>1, <2>1, <2>2 DEF Answer, Answers
    <2> QED BY <1>6, <2>3 DEF TypeOK, ServePage, volume, fetched, listed
  <1>7. CASE ServeFromCache(r)
    <2>1. PICK s \in KnownSlugs(r) : /\ PageMade(r, s, cache[r].verdicts)
                                     /\ answer' = Answer(r, s, cache[r].verdicts, GradeOf(r))
      BY <1>7 DEF ServeFromCache
    <2>2. s \in Slugs /\ cache[r].verdicts \in VerdictFiles
      BY <1>1, <1>2, <1>7, <2>1 DEF ServeFromCache
    <2>3. /\ answer' \in Answers /\ pages' \in [Runs -> [Slugs -> Froms]]
          /\ folders' \subseteq Runs \X Slugs /\ stopped' \subseteq folders'
      BY <1>1, <1>7, <2>1, <2>2 DEF Answer, Answers, TypeOK, Froms, PageMade, ServeFromCache
    <2> QED BY <1>7, <2>3 DEF TypeOK, ServeFromCache, volume, fetched, listed
  <1>8. CASE ServeFromVolume(r)
    <2>1. PICK s \in Slugs : /\ PageMade(r, s, Verdicts(s, verdicts[r][s]))
                             /\ answer' = Answer(r, s, pages'[r][s], RowGrade(r))
      BY <1>1, <1>2, <1>8 DEF ServeFromVolume
    <2> DEFINE file == Verdicts(s, verdicts[r][s])
    <2>2. /\ file \in VerdictFiles /\ pages' = [pages EXCEPT ![r][s] = file]
          /\ folders' = folders \cup {<<r, s>>} /\ stopped' = stopped
      BY <1>8, <2>1, FileTyped DEF PageMade, ServeFromVolume
    <2> HIDE DEF file
    <2>3. /\ pages' \in [Runs -> [Slugs -> Froms]] /\ pages'[r][s] = file
          /\ folders' \subseteq Runs \X Slugs /\ stopped' \subseteq folders'
      BY <2>2 DEF TypeOK, Froms
    <2>4. answer' \in Answers
      BY <1>1, <2>1, <2>2, <2>3 DEF Answer, Answers
    <2> QED BY <1>8, <2>3, <2>4 DEF TypeOK, ServeFromVolume, volume, fetched, listed
  <1> QED BY <1>3, <1>4, <1>5, <1>6, <1>7, <1>8, <1>9

LEMMA RefreshTypes ==
    ASSUME TypeOK, NEW q \in Requests,
           BeginRefresh(q) \/ EndRefresh(q) \/ \E r \in Runs : Scan(q, r)
    PROVE  TypeOK'
  <1> DEFINE Refreshes == [at : {"idle", "scanning"}, rows : Seq(Rows), left : SUBSET Runs,
                           new : Seq(Rows), due : SUBSET Runs]
  <1>0. refresh \in [Requests -> Refreshes] /\ rows \in Seq(Rows) /\ setting.runs \subseteq Runs
    BY SettingsNamed DEF TypeOK
  <1>1. CASE BeginRefresh(q)
    <2> DEFINE merged == [i \in DOMAIN rows |-> IF rows[i].run \in Reported
                                                THEN Row(rows[i].run, None) ELSE rows[i]]
               due == {r \in Runs : \E s \in Judged(r) : Usable(Verdicts(s, verdicts[r][s]))}
               entry == [at |-> "scanning", rows |-> merged, left |-> setting.runs \ RunsOf(rows),
                         new |-> <<>>, due |-> due]
    <2>1. merged \in Seq(Rows)
      <3>0. \A i \in 1..Len(rows) : rows[i] \in Rows
        BY <1>0
      <3>1. \A i \in 1..Len(rows) : merged[i] \in Rows
        BY <1>0, <3>0 DEF Rows, Row, Froms
      <3>2. merged = [i \in 1..Len(rows) |-> merged[i]] /\ Len(rows) \in Nat
        BY <1>0
      <3> QED BY <3>1, <3>2
    <2>2. due \subseteq Runs
      OBVIOUS
    <2>3. refresh' = [refresh EXCEPT ![q] = entry]
      BY <1>1 DEF BeginRefresh
    <2> HIDE DEF merged, due
    <2>4. entry \in Refreshes
      BY <1>0, <2>1, <2>2
    <2> HIDE DEF entry
    <2>5. refresh' \in [Requests -> Refreshes]
      BY <1>0, <2>3, <2>4
    <2> QED BY <1>1, <2>5 DEF TypeOK, BeginRefresh, volume, fetched, shown
  <1>2. CASE EndRefresh(q)
    <2>1. NoRefresh \in Refreshes
      BY DEF NoRefresh
    <2>2. refresh' \in [Requests -> Refreshes]
      BY <1>0, <1>2, <2>1 DEF EndRefresh
    <2>3. rows' \in Seq(Rows)
      <3>1. refresh[q].rows \in Seq(Rows) /\ refresh[q].new \in Seq(Rows)
        BY <1>0
      <3> QED BY <1>2, <3>1 DEF EndRefresh
    <2> QED BY <1>2, <2>2, <2>3 DEF TypeOK, EndRefresh, volume, fetched, shown
  <1>3. ASSUME NEW r \in Runs, Scan(q, r) PROVE TypeOK'
    <2> DEFINE found == Row(r, Verdicts(Discovered(r), verdicts[r][Discovered(r)]))
    <2>1. refresh[q] \in Refreshes
      BY <1>0
    <2>2. CASE /\ Countable(r)
               /\ refresh' = [refresh EXCEPT ![q].left = @ \ {r}, ![q].new = Append(@, found)]
      <3>1. found \in Rows
        BY <2>2, FileTyped, DiscoveredTyped DEF Countable, Rows, Row, Froms
      <3> HIDE DEF found
      <3> DEFINE more == Append(refresh[q].new, found)
      <3>2. more \in Seq(Rows)
        BY <2>1, <3>1
      <3>3. refresh' = [refresh EXCEPT ![q] = [refresh[q] EXCEPT !.left = @ \ {r}, !.new = more]]
        BY <2>2
      <3> HIDE DEF more
      <3>4. refresh' \in [Requests -> Refreshes]
        BY <1>0, <2>1, <3>2, <3>3
      <3> QED BY <1>3, <3>4 DEF TypeOK, Scan, volume, fetched, shown
    <2>3. CASE refresh' = [refresh EXCEPT ![q].left = @ \ {r}]
      <3>1. refresh' \in [Requests -> Refreshes]
        BY <1>0, <2>1, <2>3
      <3> QED BY <1>3, <3>1 DEF TypeOK, Scan, volume, fetched, shown
    <2> QED BY <1>3, <2>2, <2>3 DEF Scan
  <1> QED BY <1>1, <1>2, <1>3

LEMMA TypesKept == TypeOK /\ [Next]_vars => TypeOK'
  <1> SUFFICES ASSUME TypeOK, [Next]_vars PROVE TypeOK'
    OBVIOUS
  <1>0. /\ setting.runs \subseteq Runs /\ setting.slugs \subseteq Slugs /\ setting.asked \subseteq Runs
        /\ setting.requests \subseteq Requests /\ setting.full \in 0..MaxFull
    BY SettingsNamed DEF TypeOK
  <1>1. ASSUME NEW r \in Runs, NEW s \in Slugs, OutputsArrive(r, s) PROVE TypeOK'
    BY <1>1 DEF TypeOK, OutputsArrive, fetched, shown, listed
  <1>2. ASSUME NEW r \in Runs, NEW s \in Slugs, VerdictArrives(r, s) PROVE TypeOK'
    <2>1. verdicts[r][s] + 1 \in 0..MaxFull
      BY <1>0, <1>2, SettingsNamed DEF TypeOK, VerdictArrives
    <2>2. verdicts' \in [Runs -> [Slugs -> 0..MaxFull]]
      BY <1>2, <2>1 DEF TypeOK, VerdictArrives
    <2> QED BY <1>2, <2>2 DEF TypeOK, VerdictArrives, fetched, shown, listed
  <1>3. ASSUME NEW r \in Runs, Begin(r) PROVE TypeOK'
    <2>1. Discovered(r) \in Slugs
      BY <1>3, DiscoveredTyped DEF Begin
    <2> QED BY <1>3, <2>1 DEF TypeOK, Begin, volume, shown, listed
  <1>4. CASE UNCHANGED vars
    BY <1>4 DEF TypeOK, vars, volume, fetched, shown, listed
  <1> QED BY <1>0, <1>1, <1>2, <1>3, <1>4, DownloadTypes, PageTypes, RefreshTypes DEF Next

-----------------------------------------------------------------------------
(* The copies                                                              *)

\* The files that the download at hand has brought, and that it is of a run
\* that is not cached unless it is forced.
Progress ==
    download.at # "idle" =>
        LET dir == cache[download.run] IN
        /\ download.at \in {"gemma4", "regional", "meta", "writing"} => dir.verdicts # None
        /\ download.at \in {"regional", "meta", "writing"} => dir.gemma4
        /\ download.at \in {"meta", "writing"} => dir.regional
        /\ download.at = "writing" => dir.meta = Torn
        /\ ~setting.force /\ download.at # "writing" => dir.meta = None

\* A folder that was never left empty has its page, of its slug.
PagesOfSlugs ==
    ~setting.force => \A r \in Runs, s \in Slugs :
        /\ pages[r][s] # None /\ <<r, s>> \notin stopped => pages[r][s].slug = s
        /\ <<r, s>> \in folders \ stopped => pages[r][s] # None
        /\ static[r][s] # None => static[r][s].slug = s

CopyInv == TypeOK /\ Progress /\ CopiesAgree /\ PagesOfSlugs /\ PageOfItsSlug

\* A directory as CopiesAgree has it.
Sound(dir, force) ==
    /\ dir.meta # None => Whole(dir)
    /\ ~force /\ Readable(dir) => dir.meta = dir.verdicts

LEMMA SoundCopies ==
    CopiesAgree <=> \A r \in Runs :
        /\ Sound(cache[r], setting.force)
        /\ \A s \in Slugs : ~setting.force /\ static[r][s] # None => static[r][s] = cache[r].meta
  BY DEF CopiesAgree, Sound, Readable

\* A file that a download brings leaves its directory sound, and no other
\* directory is touched.
LEMMA DownloadSound ==
    ASSUME CopyInv, NEW dir \in Dirs, download.at # "idle",
           cache' = [cache EXCEPT ![download.run] = dir],
           Sound(dir, setting.force),
           setting.force \/ dir.meta = cache[download.run].meta \/ ~Readable(cache[download.run]),
           UNCHANGED <<volume, shown, listed>>
    PROVE  CopiesAgree' /\ PagesOfSlugs' /\ PageOfItsSlug'
  <1> DEFINE d == download.run
  <1>1. d \in Runs /\ cache \in [Runs -> Dirs] /\ cache' = [cache EXCEPT ![d] = dir]
    BY DEF CopyInv, TypeOK, NoDownload, Dirs
  <1>2. /\ setting' = setting /\ static' = static /\ pages' = pages /\ answer' = answer
        /\ folders' = folders /\ stopped' = stopped
    BY DEF volume, shown
  <1>5. \A s \in Slugs : ~setting.force /\ static[d][s] # None => static[d][s] = dir.meta
    <2>1. \A s \in Slugs : /\ static[d][s] \in Froms
                           /\ ~setting.force /\ static[d][s] # None => static[d][s] = cache[d].meta
      BY <1>1, SoundCopies DEF CopyInv, TypeOK
    <2> QED BY <2>1, NoneIsNoFile DEF Readable, Froms
  <1> HIDE DEF d
  <1>3. CopiesAgree'
    <2> SUFFICES ASSUME NEW r \in Runs
                 PROVE  /\ Sound(cache'[r], setting.force)
                        /\ \A s \in Slugs : ~setting.force /\ static[r][s] # None
                                            => static[r][s] = cache'[r].meta
      BY <1>2 DEF CopiesAgree, Sound, Whole, Readable
    <2>1. CASE r = d
      <3>1. cache'[r] = dir
        BY <1>1, <2>1
      <3> QED BY <1>5, <2>1, <3>1
    <2>2. CASE r # d
      <3>1. cache'[r] = cache[r]
        BY <1>1, <2>2
      <3> QED BY <3>1, SoundCopies DEF CopyInv
    <2> QED BY <2>1, <2>2
  <1>4. PagesOfSlugs' /\ PageOfItsSlug'
    BY <1>2 DEF CopyInv, PagesOfSlugs, PageOfItsSlug
  <1> QED BY <1>3, <1>4

LEMMA DownloadKeeps ==
    ASSUME CopyInv, TypeOK', GetVerdicts \/ GetGemma4 \/ GetRegional \/ OpenMeta \/ WriteMeta
    PROVE  CopyInv'
  <1> DEFINE d == download.run
             file == Verdicts(download.slug, verdicts[d][download.slug])
  <1>1. /\ download.at # "idle" /\ d \in Runs /\ download.slug \in Slugs
        /\ cache \in [Runs -> Dirs] /\ cache[d] \in Dirs
        /\ download \in [at : {"verdicts", "gemma4", "regional", "meta", "writing"}, run : Runs, slug : Slugs]
    BY DEF CopyInv, TypeOK, NoDownload, Dirs, GetVerdicts, GetGemma4, GetRegional, OpenMeta, WriteMeta
  <1>2. file \in Froms /\ file # None
    BY <1>1, FileTyped, NoneIsNoFile DEF CopyInv, Froms
  <1>3. Sound(cache[d], setting.force)
    BY <1>1, SoundCopies DEF CopyInv
  <1> HIDE DEF file
  <1>4. CASE GetVerdicts
    <2> DEFINE dir == [cache[d] EXCEPT !.verdicts = file]
    <2>1. dir \in Dirs /\ cache' = [cache EXCEPT ![d] = dir]
      BY <1>1, <1>2, <1>4 DEF Dirs, GetVerdicts, file
    <2>2. Sound(dir, setting.force) /\ dir.meta = cache[d].meta
      BY <1>1, <1>2, <1>3, <1>4 DEF Sound, Whole, Readable, Dirs, CopyInv, Progress, GetVerdicts
    <2>3. CopiesAgree' /\ PagesOfSlugs' /\ PageOfItsSlug'
      BY <1>1, <1>4, <2>1, <2>2, DownloadSound DEF GetVerdicts
    <2>4. cache'[d] = dir /\ dir.verdicts # None /\ setting' = setting
      BY <1>1, <1>2, <1>4, <2>1 DEF Dirs, GetVerdicts, volume
    <2>5. Progress'
      BY <1>1, <1>4, <2>2, <2>4 DEF GetVerdicts, CopyInv, Progress
    <2> QED BY <2>3, <2>5 DEF CopyInv
  <1>5. CASE GetGemma4
    <2> DEFINE dir == [cache[d] EXCEPT !.gemma4 = TRUE]
    <2>1. dir \in Dirs /\ cache' = [cache EXCEPT ![d] = dir]
      BY <1>1, <1>5 DEF Dirs, GetGemma4
    <2>2. Sound(dir, setting.force) /\ dir.meta = cache[d].meta
      BY <1>1, <1>3 DEF Sound, Whole, Readable, Dirs
    <2>3. CopiesAgree' /\ PagesOfSlugs' /\ PageOfItsSlug'
      BY <1>1, <1>5, <2>1, <2>2, DownloadSound DEF GetGemma4
    <2>4. cache'[d] = dir /\ dir.gemma4 /\ dir.verdicts = cache[d].verdicts /\ setting' = setting
      BY <1>1, <1>5, <2>1 DEF Dirs, GetGemma4, volume
    <2>5. Progress'
      BY <1>1, <1>5, <2>2, <2>4 DEF GetGemma4, CopyInv, Progress
    <2> QED BY <2>3, <2>5 DEF CopyInv
  <1>6. CASE GetRegional
    <2> DEFINE dir == [cache[d] EXCEPT !.regional = TRUE]
    <2>1. dir \in Dirs /\ cache' = [cache EXCEPT ![d] = dir]
      BY <1>1, <1>6 DEF Dirs, GetRegional
    <2>2. Sound(dir, setting.force) /\ dir.meta = cache[d].meta
      BY <1>1, <1>3 DEF Sound, Whole, Readable, Dirs
    <2>3. CopiesAgree' /\ PagesOfSlugs' /\ PageOfItsSlug'
      BY <1>1, <1>6, <2>1, <2>2, DownloadSound DEF GetRegional
    <2>4. /\ cache'[d] = dir /\ dir.regional /\ dir.gemma4 = cache[d].gemma4
          /\ dir.verdicts = cache[d].verdicts /\ setting' = setting
      BY <1>1, <1>6, <2>1 DEF Dirs, GetRegional, volume
    <2>5. Progress'
      BY <1>1, <1>6, <2>2, <2>4 DEF GetRegional, CopyInv, Progress
    <2> QED BY <2>3, <2>5 DEF CopyInv
  <1>7. CASE WriteMeta
    <2> DEFINE dir == [cache[d] EXCEPT !.meta = cache[d].verdicts]
    <2>1. dir \in Dirs /\ cache' = [cache EXCEPT ![d] = dir]
      BY <1>1, <1>7 DEF Dirs, WriteMeta
    <2>2. Whole(cache[d]) /\ ~Readable(cache[d])
      BY <1>1, <1>7 DEF Whole, Readable, WriteMeta, CopyInv, Progress
    <2>3. Sound(dir, setting.force)
      BY <1>1, <2>2 DEF Sound, Whole, Dirs
    <2>4. CopiesAgree' /\ PagesOfSlugs' /\ PageOfItsSlug'
      BY <1>1, <1>7, <2>1, <2>2, <2>3, DownloadSound DEF WriteMeta
    <2>5. Progress'
      BY <1>7 DEF WriteMeta, Progress, NoDownload
    <2> QED BY <2>4, <2>5 DEF CopyInv
  <1>8. CASE OpenMeta
    <2> DEFINE dir == [cache[d] EXCEPT !.meta = Torn]
    <2>1. dir \in Dirs /\ cache' = [cache EXCEPT ![d] = dir]
      BY <1>1, <1>8 DEF Dirs, OpenMeta
    <2>2. Whole(cache[d]) /\ (setting.force \/ ~Readable(cache[d]))
      BY <1>1, <1>8 DEF Whole, Readable, OpenMeta, CopyInv, Progress
    <2>3. Sound(dir, setting.force)
      BY <1>1, <2>2 DEF Sound, Whole, Readable, Dirs
    <2>4. CopiesAgree' /\ PagesOfSlugs' /\ PageOfItsSlug'
      BY <1>1, <1>8, <2>1, <2>2, <2>3, DownloadSound DEF OpenMeta
    <2>5. /\ cache'[d] = dir /\ dir.meta = Torn /\ Whole(dir) /\ setting' = setting
          /\ download' = [download EXCEPT !.at = "writing"]
      BY <1>1, <1>8, <2>1, <2>2 DEF Dirs, OpenMeta, Whole, volume
    <2>6. download'.at = "writing" /\ download'.run = d
      BY <1>1, <2>5
    <2>7. Progress'
      BY <2>5, <2>6 DEF Progress, Whole
    <2> QED BY <2>4, <2>7 DEF CopyInv
  <1> QED BY <1>4, <1>5, <1>6, <1>7, <1>8

\* Steps that leave the copies alone, or end or begin a download.
LEMMA OthersKeep ==
    ASSUME CopyInv, TypeOK', UNCHANGED <<setting, cache, folders, stopped, pages, static, answer>>,
           \/ UNCHANGED download
           \/ download'.at = "idle"
           \/ /\ download'.at = "verdicts"
              /\ ~setting.force => cache[download'.run].meta = None
    PROVE  CopyInv'
  <1>1. CopiesAgree' /\ PagesOfSlugs' /\ PageOfItsSlug'
    BY DEF CopyInv, CopiesAgree, PagesOfSlugs, PageOfItsSlug, Whole, Readable
  <1>2. Progress'
    BY DEF CopyInv, Progress
  <1> QED BY <1>1, <1>2 DEF CopyInv

LEMMA PagesKeep ==
    ASSUME CopyInv, TypeOK', NEW r \in Runs,
           \/ RenderAll(r) \/ \E s \in Slugs : RenderOne(r, s) \/ RenderStops(r, s)
           \/ ServeStatic(r) \/ ServePage(r) \/ ServeFromCache(r) \/ ServeFromVolume(r)
    PROVE  CopyInv'
  <1>0. /\ cache \in [Runs -> Dirs] /\ pages \in [Runs -> [Slugs -> Froms]]
        /\ static \in [Runs -> [Slugs -> Froms]] /\ cache[r] \in Dirs
    BY DEF CopyInv, TypeOK, Dirs
  <1>1. setting' = setting /\ cache' = cache /\ download' = download
    BY DEF RenderAll, RenderOne, RenderStops, ServeStatic, ServePage, ServeFromCache,
           ServeFromVolume, volume, fetched
  <1>2. Progress'
    BY <1>1 DEF CopyInv, Progress
  <1>3. /\ Sound(cache[r], setting.force)
        /\ Readable(cache[r]) => cache[r].meta.slug \in Slugs
    BY <1>0, SoundCopies DEF CopyInv, Readable, Dirs, Froms, VerdictFiles
  <1>4. CASE RenderAll(r)
    <2> DEFINE s == cache[r].meta.slug
               file == cache[r].verdicts
    <2>1. /\ s \in Slugs /\ static' = [static EXCEPT ![r][s] = file] /\ file # None
          /\ pages' = pages /\ answer' = answer /\ folders' = folders /\ stopped' = stopped
          /\ ~setting.force => file = cache[r].meta /\ file.slug = s
      BY <1>3, <1>4 DEF RenderAll, Whole, Sound
    <2> HIDE DEF s, file
    <2>2. \A q \in Runs, t \in Slugs :
            static'[q][t] = IF q = r /\ t = s THEN file ELSE static[q][t]
      BY <1>0, <2>1
    <2>3. CopiesAgree'
      <3> SUFFICES ASSUME NEW q \in Runs
                   PROVE  /\ Sound(cache[q], setting.force)
                          /\ \A t \in Slugs : ~setting.force /\ static'[q][t] # None
                                              => static'[q][t] = cache[q].meta
        BY <1>1 DEF CopiesAgree, Sound, Whole, Readable
      <3>1. /\ Sound(cache[q], setting.force)
            /\ \A t \in Slugs : ~setting.force /\ static[q][t] # None => static[q][t] = cache[q].meta
        BY SoundCopies DEF CopyInv
      <3> QED BY <2>1, <2>2, <3>1
    <2>4. PagesOfSlugs' /\ PageOfItsSlug'
      BY <1>1, <2>1, <2>2 DEF CopyInv, PagesOfSlugs, PageOfItsSlug
    <2> QED BY <1>2, <2>3, <2>4 DEF CopyInv
  <1>5. ASSUME static' = static, NEW s \in Slugs, NEW file \in VerdictFiles, PageMade(r, s, file),
               stopped' = stopped, ~setting.force /\ <<r, s>> \notin stopped => file.slug = s,
               \/ answer' = answer
               \/ answer'.run = r /\ answer'.slug = s /\ answer'.page = file
        PROVE  CopyInv'
    <2>1. /\ \A q \in Runs, t \in Slugs :
               pages'[q][t] = IF q = r /\ t = s THEN file ELSE pages[q][t]
          /\ folders' = folders \cup {<<r, s>>} /\ file # None
      BY <1>0, <1>5, NoneIsNoFile DEF PageMade
    <2>2. CopiesAgree'
      BY <1>1, <1>5 DEF CopyInv, CopiesAgree, Whole, Readable
    <2>3. PagesOfSlugs'
      <3> SUFFICES ASSUME ~setting.force, NEW q \in Runs, NEW t \in Slugs
                   PROVE  /\ pages'[q][t] # None /\ <<q, t>> \notin stopped => pages'[q][t].slug = t
                          /\ <<q, t>> \in folders' \ stopped => pages'[q][t] # None
                          /\ static[q][t] # None => static[q][t].slug = t
        BY <1>1, <1>5 DEF PagesOfSlugs
      <3>1. /\ pages[q][t] # None /\ <<q, t>> \notin stopped => pages[q][t].slug = t
            /\ <<q, t>> \in folders \ stopped => pages[q][t] # None
            /\ static[q][t] # None => static[q][t].slug = t
        BY DEF CopyInv, PagesOfSlugs
      <3>2. CASE q = r /\ t = s
        BY <1>5, <2>1, <3>1, <3>2
      <3>3. CASE ~(q = r /\ t = s)
        <4>1. pages'[q][t] = pages[q][t] /\ (<<q, t>> \in folders' => <<q, t>> \in folders)
          BY <2>1, <3>3
        <4> QED BY <3>1, <4>1
      <3> QED BY <3>2, <3>3
    <2>4. PageOfItsSlug'
      BY <1>1, <1>5 DEF CopyInv, PageOfItsSlug
    <2> QED BY <1>2, <2>2, <2>3, <2>4 DEF CopyInv
  <1>6. ASSUME NEW s \in Slugs, RenderOne(r, s) PROVE CopyInv'
    <2>1. PICK n : n \in {verdicts[r][s], 0} /\ PageMade(r, s, Verdicts(s, n))
      BY <1>6 DEF RenderOne
    <2>2. Verdicts(s, n) \in VerdictFiles /\ Verdicts(s, n).slug = s
      BY <2>1, FileTyped DEF CopyInv, Verdicts
    <2>3. static' = static /\ answer' = answer /\ stopped' = stopped
      BY <1>6 DEF RenderOne
    <2> QED BY <1>5, <2>1, <2>2, <2>3
  <1>13. ASSUME NEW s \in Slugs, RenderStops(r, s) PROVE CopyInv'
    <2>1. /\ pages' = pages /\ static' = static /\ answer' = answer
          /\ folders' = folders \cup {<<r, s>>} /\ stopped \subseteq stopped'
          /\ pages[r][s] # None \/ <<r, s>> \in stopped'
      BY <1>13 DEF RenderStops
    <2>2. PagesOfSlugs' /\ PageOfItsSlug'
      BY <1>1, <2>1 DEF CopyInv, PagesOfSlugs, PageOfItsSlug
    <2>3. CopiesAgree'
      BY <1>1, <2>1 DEF CopyInv, CopiesAgree, Whole, Readable
    <2> QED BY <1>2, <2>2, <2>3 DEF CopyInv
  <1>7. ASSUME pages' = pages, static' = static, folders' = folders, stopped' = stopped,
               \/ answer'.page.slug = answer'.slug \/ setting.force
               \/ <<answer'.run, answer'.slug>> \in stopped
        PROVE  CopyInv'
    BY <1>1, <1>2, <1>7 DEF CopyInv, CopiesAgree, Whole, Readable, PagesOfSlugs,
       PageOfItsSlug
  <1>8. CASE ServeStatic(r)
    <2>1. PICK s \in Slugs : static[r][s] # None /\ answer' = Answer(r, s, static[r][s], GradeOf(r))
      BY <1>8 DEF ServeStatic
    <2>2. answer'.page.slug = answer'.slug \/ setting.force
      BY <2>1 DEF CopyInv, PagesOfSlugs, Answer
    <2> QED BY <1>7, <1>8, <2>2 DEF ServeStatic
  <1>9. KnownSlugs(r) \subseteq Slugs
    BY <1>3 DEF KnownSlugs
  <1>10. CASE ServePage(r)
    <2>1. PICK s \in KnownSlugs(r) : pages[r][s] # None /\ answer' = Answer(r, s, pages[r][s], GradeOf(r))
      BY <1>10 DEF ServePage
    <2>2. \/ answer'.page.slug = answer'.slug \/ setting.force
          \/ <<answer'.run, answer'.slug>> \in stopped
      BY <1>9, <2>1 DEF CopyInv, PagesOfSlugs, Answer
    <2> QED BY <1>7, <1>10, <2>2 DEF ServePage
  <1>11. CASE ServeFromCache(r)
    <2>1. PICK s \in KnownSlugs(r) : /\ pages[r][s] = None
                                     /\ PageMade(r, s, cache[r].verdicts)
                                     /\ answer' = Answer(r, s, cache[r].verdicts, GradeOf(r))
      BY <1>11 DEF ServeFromCache
    <2>2. s \in Slugs /\ cache[r].verdicts \in VerdictFiles
      BY <1>0, <1>9, <1>11, <2>1 DEF ServeFromCache, Whole, Dirs, Froms
    <2>3. ASSUME ~setting.force, <<r, s>> \notin stopped PROVE cache[r].verdicts.slug = s
      <3>1. <<r, s>> \notin folders
        BY <2>1, <2>2, <2>3 DEF CopyInv, PagesOfSlugs
      <3>2. Readable(cache[r]) /\ s = cache[r].meta.slug
        BY <2>1, <3>1 DEF KnownSlugs
      <3> QED BY <1>3, <2>3, <3>2 DEF Sound
    <2>4. /\ answer'.run = r /\ answer'.slug = s /\ answer'.page = cache[r].verdicts
          /\ static' = static /\ stopped' = stopped
      BY <1>11, <2>1 DEF Answer, ServeFromCache
    <2> QED BY <1>5, <2>1, <2>2, <2>3, <2>4
  <1>12. CASE ServeFromVolume(r)
    <2>1. PICK s \in Slugs : /\ PageMade(r, s, Verdicts(s, verdicts[r][s]))
                             /\ answer' = Answer(r, s, pages'[r][s], RowGrade(r))
      <3>1. Discovered(r) \in Slugs \cup {None}
        BY DiscoveredTyped
      <3> QED BY <1>9, <1>12, <3>1 DEF ServeFromVolume
    <2> DEFINE file == Verdicts(s, verdicts[r][s])
    <2>2. file \in VerdictFiles /\ file.slug = s
      BY FileTyped DEF CopyInv, Verdicts
    <2>3. PageMade(r, s, file)
      BY <2>1
    <2> HIDE DEF file
    <2>4. pages'[r][s] = file
      BY <1>0, <2>3 DEF PageMade
    <2>5. /\ answer'.run = r /\ answer'.slug = s /\ answer'.page = file
          /\ static' = static /\ stopped' = stopped
      BY <1>12, <2>1, <2>4 DEF Answer, ServeFromVolume
    <2> QED BY <1>5, <2>2, <2>3, <2>5
  <1> QED BY <1>4, <1>6, <1>8, <1>10, <1>11, <1>12, <1>13

LEMMA CopyInvBegins == Init => CopyInv
  <1> SUFFICES ASSUME Init PROVE CopyInv
    OBVIOUS
  <1>1. TypeOK
    BY TypesBegin
  <1>2. Progress /\ CopiesAgree /\ PagesOfSlugs /\ PageOfItsSlug
    BY DEF Init, Progress, NoDownload, CopiesAgree, Readable, EmptyDir, Start, PagesOfSlugs,
           PageOfItsSlug
  <1> QED BY <1>1, <1>2 DEF CopyInv

LEMMA CopyInvKept == CopyInv /\ [Next]_vars => CopyInv'
  <1> SUFFICES ASSUME CopyInv, [Next]_vars PROVE CopyInv'
    OBVIOUS
  <1>0. /\ TypeOK' /\ setting.runs \subseteq Runs /\ setting.slugs \subseteq Slugs
        /\ setting.asked \subseteq Runs
    BY TypesKept, SettingsNamed DEF CopyInv, TypeOK
  <1>1. ASSUME NEW r, NEW s, OutputsArrive(r, s) \/ VerdictArrives(r, s) PROVE CopyInv'
    BY <1>0, <1>1, OthersKeep DEF OutputsArrive, VerdictArrives, fetched, shown
  <1>2. ASSUME NEW r \in Runs, Begin(r) PROVE CopyInv'
    BY <1>0, <1>2, OthersKeep DEF Begin, volume, shown
  <1>3. CASE DownloadFails \/ Interrupted
    BY <1>0, <1>3, OthersKeep DEF DownloadFails, Interrupted, NoDownload, volume, shown
  <1>4. ASSUME NEW q, NEW r, BeginRefresh(q) \/ EndRefresh(q) \/ Scan(q, r) PROVE CopyInv'
    BY <1>0, <1>4, OthersKeep DEF BeginRefresh, EndRefresh, Scan, volume, fetched, shown
  <1>5. CASE UNCHANGED vars
    BY <1>0, <1>5, OthersKeep DEF vars, volume, fetched, shown
  <1> QED BY <1>0, <1>1, <1>2, <1>3, <1>4, <1>5, DownloadKeeps, PagesKeep DEF Next

LEMMA CopyInvHolds == Spec => []CopyInv
  BY CopyInvBegins, CopyInvKept, PTL DEF Spec

\* Every variable of ReviewCache has its type.
THEOREM ReviewsTypeCorrect == Spec => []TypeOK
  BY CopyInvHolds, PTL DEF CopyInv

\* A cached directory is whole and, unless --force is used, has the grade of its
\* own verdicts, as have the pages to be deployed.
THEOREM CopiesStayTogether == Spec => []CopiesAgree
  BY CopyInvHolds, PTL DEF CopyInv

\* The page that POST /api/review/load answers with is of the slug it says, unless
\* the folder of that slug was once left empty.
THEOREM PageServedIsOfItsSlug == Spec => []PageOfItsSlug
  BY CopyInvHolds, PTL DEF CopyInv

-----------------------------------------------------------------------------
(* Rows                                                                    *)

\* No two rows of list are of the same run.
Distinct(list) == IsInjective(RunSeq(list))

LEMMA DistinctMeans ==
    ASSUME NEW list \in Seq(Rows)
    PROVE  Distinct(list) <=> \A i, j \in 1..Len(list) : list[i].run = list[j].run => i = j
  BY DEF Distinct, IsInjective, RunSeq

LEMMA RunsOfJoined ==
    ASSUME NEW a \in Seq(Rows), NEW b \in Seq(Rows)
    PROVE  RunsOf(a \o b) = RunsOf(a) \cup RunsOf(b)
  <1> DEFINE c == a \o b
  <1>1. /\ Len(a) \in Nat /\ Len(b) \in Nat /\ Len(c) = Len(a) + Len(b)
        /\ DOMAIN a = 1..Len(a) /\ DOMAIN b = 1..Len(b) /\ DOMAIN c = 1..Len(c)
        /\ \A i \in 1..Len(c) : c[i] = IF i <= Len(a) THEN a[i] ELSE b[i - Len(a)]
    OBVIOUS
  <1> HIDE DEF c
  <1>2. ASSUME NEW r \in RunsOf(c) PROVE r \in RunsOf(a) \cup RunsOf(b)
    <2>1. PICK i \in 1..Len(c) : c[i].run = r
      BY <1>1, <1>2 DEF RunsOf
    <2>2. CASE i <= Len(a)
      BY <1>1, <2>1, <2>2 DEF RunsOf
    <2>3. CASE ~(i <= Len(a))
      <3>1. i - Len(a) \in 1..Len(b) /\ b[i - Len(a)].run = r
        BY <1>1, <2>1, <2>3
      <3> QED BY <1>1, <3>1 DEF RunsOf
    <2> QED BY <2>2, <2>3
  <1>3. ASSUME NEW r \in RunsOf(a) PROVE r \in RunsOf(c)
    <2>1. PICK i \in 1..Len(a) : a[i].run = r
      BY <1>1, <1>3 DEF RunsOf
    <2>2. i \in 1..Len(c) /\ c[i].run = r
      BY <1>1, <2>1
    <2> QED BY <1>1, <2>2 DEF RunsOf
  <1>4. ASSUME NEW r \in RunsOf(b) PROVE r \in RunsOf(c)
    <2>1. PICK i \in 1..Len(b) : b[i].run = r
      BY <1>1, <1>4 DEF RunsOf
    <2>2. i + Len(a) \in 1..Len(c) /\ c[i + Len(a)] = b[i]
      BY <1>1, <2>1
    <2> QED BY <1>1, <2>1, <2>2 DEF RunsOf
  <1> QED BY <1>2, <1>3, <1>4 DEF c

LEMMA DistinctJoined ==
    ASSUME NEW a \in Seq(Rows), NEW b \in Seq(Rows), Distinct(a), Distinct(b),
           RunsOf(a) \cap RunsOf(b) = {}
    PROVE  Distinct(a \o b)
  <1> DEFINE c == a \o b
  <1>1. /\ c \in Seq(Rows) /\ Len(a) \in Nat /\ Len(b) \in Nat /\ Len(c) = Len(a) + Len(b)
        /\ \A i \in 1..Len(c) : c[i] = IF i <= Len(a) THEN a[i] ELSE b[i - Len(a)]
    OBVIOUS
  <1> HIDE DEF c
  <1>2. /\ \A i, j \in 1..Len(a) : a[i].run = a[j].run => i = j
        /\ \A i, j \in 1..Len(b) : b[i].run = b[j].run => i = j
        /\ \A i \in 1..Len(a), j \in 1..Len(b) : a[i].run # b[j].run
    BY DistinctMeans DEF RunsOf
  <1>3. ASSUME NEW i \in 1..Len(c), NEW j \in 1..Len(c), c[i].run = c[j].run PROVE i = j
    <2>1. CASE i <= Len(a) /\ j <= Len(a)
      BY <1>1, <1>2, <1>3, <2>1
    <2>2. CASE i > Len(a) /\ j > Len(a)
      <3>1. i - Len(a) \in 1..Len(b) /\ j - Len(a) \in 1..Len(b)
        BY <1>1, <2>2
      <3>2. c[i] = b[i - Len(a)] /\ c[j] = b[j - Len(a)]
        BY <1>1, <2>2
      <3>3. i - Len(a) = j - Len(a)
        BY <1>2, <1>3, <3>1, <3>2
      <3> QED BY <1>1, <3>3
    <2>3. CASE i <= Len(a) /\ j > Len(a)
      <3>1. i \in 1..Len(a) /\ j - Len(a) \in 1..Len(b) /\ c[i] = a[i] /\ c[j] = b[j - Len(a)]
        BY <1>1, <2>3
      <3> QED BY <1>2, <1>3, <3>1
    <2>4. CASE i > Len(a) /\ j <= Len(a)
      <3>1. j \in 1..Len(a) /\ i - Len(a) \in 1..Len(b) /\ c[j] = a[j] /\ c[i] = b[i - Len(a)]
        BY <1>1, <2>4
      <3> QED BY <1>2, <1>3, <3>1
    <2> QED BY <1>1, <2>1, <2>2, <2>3, <2>4
  <1> QED BY <1>1, <1>3, DistinctMeans DEF c

\* One row more, of a run that has none.
LEMMA RowAdded ==
    ASSUME NEW a \in Seq(Rows), NEW e \in Rows
    PROVE  /\ Append(a, e) = a \o <<e>> /\ <<e>> \in Seq(Rows)
           /\ RunsOf(Append(a, e)) = RunsOf(a) \cup {e.run}
           /\ Distinct(a) /\ e.run \notin RunsOf(a) => Distinct(Append(a, e))
  <1>1. Append(a, e) = a \o <<e>> /\ <<e>> \in Seq(Rows)
    BY AppendIsConcat
  <1>2. RunsOf(<<e>>) = {e.run}
    BY DEF RunsOf
  <1>3. Distinct(<<e>>)
    BY DEF Distinct, IsInjective, RunSeq
  <1>4. RunsOf(a \o <<e>>) = RunsOf(a) \cup {e.run}
    BY <1>1, <1>2, RunsOfJoined
  <1>5. Distinct(a) /\ e.run \notin RunsOf(a) => Distinct(a \o <<e>>)
    BY <1>1, <1>2, <1>3, DistinctJoined
  <1> QED BY <1>1, <1>4, <1>5

LEMMA JoinedIsLonger ==
    ASSUME NEW a \in Seq(Rows), NEW b \in Seq(Rows)
    PROVE  IsPrefix(RunSeq(a), RunSeq(a \o b))
  <1> DEFINE c == a \o b
             s == RunSeq(a)
             t == RunSeq(c)
  <1>1. /\ c \in Seq(Rows) /\ Len(a) \in Nat /\ Len(c) \in Nat /\ Len(a) <= Len(c)
        /\ \A i \in 1..Len(a) : i \in 1..Len(c) /\ c[i] = a[i]
    OBVIOUS
  <1> HIDE DEF c
  <1>2. /\ s = [i \in 1..Len(a) |-> a[i].run] /\ t = [i \in 1..Len(c) |-> c[i].run]
        /\ \A i \in 1..Len(a) : a[i].run \in Runs
        /\ \A i \in 1..Len(c) : c[i].run \in Runs
    <2>1. /\ \A i \in 1..Len(a) : a[i] \in Rows
          /\ \A i \in 1..Len(c) : c[i] \in Rows
          /\ DOMAIN a = 1..Len(a) /\ DOMAIN c = 1..Len(c)
      BY <1>1
    <2>2. \A e \in Rows : e.run \in Runs
      BY DEF Rows
    <2> QED BY <2>1, <2>2 DEF RunSeq
  <1>3. s \in Seq(Runs) /\ t \in Seq(Runs) /\ Len(s) = Len(a) /\ Len(t) = Len(c)
    BY <1>1, <1>2
  <1>4. \A i \in 1..Len(a) : s[i] = t[i]
    BY <1>1, <1>2
  <1> HIDE DEF s, t
  <1>5. SubSeq(s, 1, Len(s)) = SubSeq(t, 1, Len(s))
    BY <1>1, <1>3, <1>4
  <1> QED BY <1>1, <1>3, <1>5 DEF IsPrefix, c, s, t

-----------------------------------------------------------------------------
(* Refreshes                                                               *)

\* A request reads, finds and has left different runs.
Apart(rq) ==
    /\ Distinct(rq.rows) /\ Distinct(rq.new)
    /\ RunsOf(rq.rows) \cap RunsOf(rq.new) = {}
    /\ rq.left \cap (RunsOf(rq.rows) \cup RunsOf(rq.new)) = {}

Due(r)  == \E s \in Judged(r) : Usable(Verdicts(s, verdicts[r][s]))
OneSlug == \A s, t \in setting.slugs : s = t
Alone   == \A p, q \in setting.requests : p = q

\* What was due is due still, and the request has it or has it left.
Covered(rq) ==
    ~setting.flaky /\ OneSlug =>
        \A r \in rq.due : Due(r) /\ r \in RunsOf(rq.rows) \cup RunsOf(rq.new) \cup rq.left

\* What one request at a time has read is what is there.
Current(rq) == Alone => RunSeq(rq.rows) = RunSeq(rows)

Listed ==
    \A r \in Runs, s \in Slugs : verdicts[r][s] > 0 => r \in setting.runs /\ s \in setting.slugs

Scanning(q) ==
    refresh[q].at = "scanning" =>
        q \in setting.requests /\ Apart(refresh[q]) /\ Covered(refresh[q]) /\ Current(refresh[q])

RowsInv == TypeOK /\ Listed /\ Distinct(rows) /\ \A q \in Requests : Scanning(q)

LEMMA DueStays ==
    ASSUME UNCHANGED <<setting, verdicts>>
    PROVE  /\ Listed => Listed'
           /\ \A r \in Runs : Due(r)' <=> Due(r)
           /\ OneSlug' <=> OneSlug
           /\ Alone' <=> Alone
  BY DEF Listed, Due, OneSlug, Alone, Judged, Usable

\* A step of one request, while others keep what they have.
LEMMA OneRequest ==
    ASSUME RowsInv, TypeOK', NEW q \in setting.requests, NEW rq,
           refresh' = [refresh EXCEPT ![q] = rq], UNCHANGED <<setting, verdicts, rows>>,
           rq.at = "scanning" => Apart(rq) /\ Covered(rq) /\ Current(rq)
    PROVE  RowsInv'
  <1>1. \A p \in Requests : refresh'[p] = IF p = q THEN rq ELSE refresh[p]
    BY DEF RowsInv, TypeOK
  <1>2. ASSUME NEW p \in Requests, refresh'[p].at = "scanning"
        PROVE  p \in setting.requests /\ Apart(refresh'[p]) /\ Covered(refresh'[p]) /\ Current(refresh'[p])
    BY <1>1, <1>2 DEF RowsInv, Scanning
  <1>3. ASSUME NEW p \in Requests PROVE Scanning(p)'
    <2>1. \A r \in refresh'[p].due : r \in Runs
      BY DEF TypeOK
    <2>2. Covered(refresh'[p]) => Covered(refresh[p])'
      BY <2>1, DueStays DEF Covered
    <2>3. Current(refresh'[p]) => Current(refresh[p])'
      BY DueStays DEF Current
    <2>4. Apart(refresh'[p]) => Apart(refresh[p])'
      BY DEF Apart
    <2> QED BY <1>2, <2>2, <2>3, <2>4 DEF Scanning
  <1> QED BY <1>3, DueStays DEF RowsInv

LEMMA BeginRefreshKeeps ==
    ASSUME RowsInv, TypeOK', NEW q \in setting.requests, BeginRefresh(q)
    PROVE  RowsInv'
  <1> DEFINE merged == [i \in DOMAIN rows |-> IF rows[i].run \in Reported
                                              THEN Row(rows[i].run, None) ELSE rows[i]]
             due == {r \in Runs : \E s \in Judged(r) : Usable(Verdicts(s, verdicts[r][s]))}
             rq == [at |-> "scanning", rows |-> merged, left |-> setting.runs \ RunsOf(rows),
                    new |-> <<>>, due |-> due]
  <1>1. refresh' = [refresh EXCEPT ![q] = rq] /\ UNCHANGED <<setting, verdicts, rows>>
    BY DEF BeginRefresh, volume
  <1>2. DOMAIN merged = DOMAIN rows /\ \A i \in DOMAIN rows : merged[i].run = rows[i].run
    BY DEF Row
  <1> HIDE DEF merged
  <1>3. RunSeq(merged) = RunSeq(rows) /\ RunsOf(merged) = RunsOf(rows)
    BY <1>2 DEF RunSeq, RunsOf
  <1>4. Distinct(<<>>) /\ RunsOf(<<>>) = {}
    BY DEF Distinct, IsInjective, RunSeq, RunsOf
  <1>5. Apart(rq)
    BY <1>3, <1>4 DEF Apart, Distinct, RowsInv
  <1>6. Covered(rq)
    <2> SUFFICES ASSUME NEW r \in due PROVE Due(r) /\ r \in RunsOf(merged) \cup (setting.runs \ RunsOf(rows))
      BY DEF Covered
    <2>1. Due(r) /\ Judged(r) # {}
      BY DEF Due
    <2>2. r \in setting.runs
      BY <2>1 DEF Judged, RowsInv, Listed
    <2> QED BY <1>3, <2>1, <2>2
  <1>7. Current(rq)
    BY <1>3 DEF Current
  <1> HIDE DEF rq
  <1> QED BY <1>1, <1>5, <1>6, <1>7, OneRequest

LEMMA ScanKeeps ==
    ASSUME RowsInv, TypeOK', NEW q \in setting.requests, NEW r \in Runs, Scan(q, r)
    PROVE  RowsInv'
  <1> DEFINE found == Row(r, Verdicts(Discovered(r), verdicts[r][Discovered(r)]))
             rq == refresh[q]
  <1>1. /\ q \in Requests /\ rq.at = "scanning" /\ r \in rq.left
        /\ Apart(rq) /\ Covered(rq) /\ Current(rq) /\ UNCHANGED <<setting, verdicts, rows>>
        /\ rq \in [at : {"idle", "scanning"}, rows : Seq(Rows), left : SUBSET Runs,
                   new : Seq(Rows), due : SUBSET Runs]
    BY SettingsNamed DEF Scan, volume, RowsInv, TypeOK, Scanning
  <1>2. CASE /\ Countable(r)
             /\ refresh' = [refresh EXCEPT ![q].left = @ \ {r}, ![q].new = Append(@, found)]
    <2>1. found \in Rows /\ found.run = r
      BY <1>2, FileTyped, DiscoveredTyped DEF RowsInv, Countable, Rows, Row, Froms
    <2> HIDE DEF found
    <2> DEFINE more == Append(rq.new, found)
               next == [rq EXCEPT !.left = @ \ {r}, !.new = more]
    <2>2. more \in Seq(Rows) /\ RunsOf(more) = RunsOf(rq.new) \cup {r}
      <3>1. rq.new \in Seq(Rows)
        BY <1>1
      <3> QED BY <2>1, <3>1, RowAdded, AppendProperties
    <2>3. r \notin RunsOf(rq.new) /\ Distinct(rq.new)
      BY <1>1 DEF Apart
    <2>4. Distinct(more)
      BY <1>1, <2>1, <2>3, RowAdded
    <2>5. refresh' = [refresh EXCEPT ![q] = next]
      BY <1>2
    <2> HIDE DEF more
    <2>6. /\ next.at = "scanning" /\ next.rows = rq.rows /\ next.new = more
          /\ next.left = rq.left \ {r} /\ next.due = rq.due
      BY <1>1
    <2> HIDE DEF rq, next
    <2>7. Apart(next)
      BY <1>1, <2>2, <2>4, <2>6 DEF Apart
    <2>8. Covered(next)
      BY <1>1, <2>2, <2>6 DEF Covered
    <2>9. Current(next)
      BY <1>1, <2>6 DEF Current
    <2> QED BY <1>1, <2>5, <2>7, <2>8, <2>9, OneRequest
  <1>3. CASE /\ ~Countable(r) \/ setting.flaky
             /\ refresh' = [refresh EXCEPT ![q].left = @ \ {r}]
    <2> DEFINE next == [rq EXCEPT !.left = @ \ {r}]
    <2>1. refresh' = [refresh EXCEPT ![q] = next]
      BY <1>3
    <2>2. /\ next.at = "scanning" /\ next.rows = rq.rows /\ next.new = rq.new
          /\ next.left = rq.left \ {r} /\ next.due = rq.due
      BY <1>1
    <2>3. ASSUME Due(r), OneSlug PROVE Countable(r)
      <3>1. PICK s \in Judged(r) : Usable(Verdicts(s, verdicts[r][s]))
        BY <2>3 DEF Due
      <3>2. Discovered(r) \in Judged(r)
        BY <3>1, DiscoveredTyped
      <3>3. Discovered(r) = s
        BY <2>3, <3>1, <3>2 DEF OneSlug, Judged, RowsInv, Listed
      <3>4. Discovered(r) # None
        BY <3>2, SettingsNamed DEF Judged
      <3> QED BY <3>1, <3>3, <3>4 DEF Countable
    <2> HIDE DEF rq, next
    <2>4. Apart(next)
      BY <1>1, <2>2 DEF Apart
    <2>5. Covered(next)
      BY <1>1, <1>3, <2>2, <2>3 DEF Covered
    <2>6. Current(next)
      BY <1>1, <2>2 DEF Current
    <2> QED BY <1>1, <2>1, <2>4, <2>5, <2>6, OneRequest
  <1> QED BY <1>2, <1>3 DEF Scan

\* What a request writes: rows that it read and found, all of different runs.
LEMMA Written ==
    ASSUME RowsInv, NEW q \in setting.requests, EndRefresh(q)
    PROVE  /\ Distinct(rows')
           /\ RunsOf(rows') = RunsOf(refresh[q].rows) \cup RunsOf(refresh[q].new)
           /\ Covered(refresh[q]) /\ refresh[q].left = {}
           /\ Alone => IsPrefix(RunSeq(rows), RunSeq(rows'))
  <1>1. /\ q \in Requests /\ refresh[q].at = "scanning" /\ refresh[q].left = {}
        /\ refresh[q].rows \in Seq(Rows) /\ refresh[q].new \in Seq(Rows)
        /\ rows' = refresh[q].rows \o refresh[q].new
    BY SettingsNamed DEF EndRefresh, RowsInv, TypeOK
  <1>2. Apart(refresh[q]) /\ Covered(refresh[q]) /\ Current(refresh[q])
    BY <1>1 DEF RowsInv, Scanning
  <1>3. Distinct(rows') /\ RunsOf(rows') = RunsOf(refresh[q].rows) \cup RunsOf(refresh[q].new)
    BY <1>1, <1>2, DistinctJoined, RunsOfJoined DEF Apart
  <1>4. Alone => IsPrefix(RunSeq(rows), RunSeq(rows'))
    BY <1>1, <1>2, JoinedIsLonger DEF Current
  <1> QED BY <1>1, <1>2, <1>3, <1>4

LEMMA EndRefreshKeeps ==
    ASSUME RowsInv, TypeOK', NEW q \in setting.requests, EndRefresh(q)
    PROVE  RowsInv'
  <1>1. /\ q \in Requests /\ refresh[q].at = "scanning" /\ UNCHANGED <<setting, verdicts>>
        /\ \A p \in Requests : refresh'[p] = IF p = q THEN NoRefresh ELSE refresh[p]
    BY SettingsNamed DEF EndRefresh, RowsInv, TypeOK, volume
  <1>2. ASSUME NEW p \in Requests, refresh'[p].at = "scanning" PROVE Scanning(p)'
    <2>1. p # q /\ refresh'[p] = refresh[p] /\ p \in setting.requests
      BY <1>1, <1>2 DEF NoRefresh, RowsInv, Scanning
    <2>2. ~Alone
      BY <2>1 DEF Alone
    <2>3. Apart(refresh[p]) /\ Covered(refresh[p])
      BY <1>2, <2>1 DEF RowsInv, Scanning
    <2>4. \A r \in refresh[p].due : r \in Runs
      BY DEF RowsInv, TypeOK
    <2>5. Covered(refresh[p])'
      BY <1>1, <2>1, <2>3, <2>4, DueStays DEF Covered
    <2>6. Apart(refresh[p])'
      BY <2>1, <2>3 DEF Apart
    <2>7. Current(refresh[p])'
      BY <1>1, <2>2, DueStays DEF Current
    <2> QED BY <1>1, <2>1, <2>5, <2>6, <2>7 DEF Scanning
  <1>3. \A p \in Requests : Scanning(p)'
    BY <1>2 DEF Scanning
  <1> QED BY <1>1, <1>3, Written, DueStays DEF RowsInv

\* More verdicts: what was due is due still.
LEMMA VerdictKeeps ==
    ASSUME RowsInv, TypeOK', NEW r \in setting.runs, NEW s \in setting.slugs, VerdictArrives(r, s)
    PROVE  RowsInv'
  <1>1. /\ r \in Runs /\ s \in Slugs /\ UNCHANGED <<setting, rows, refresh>>
        /\ verdicts' = [verdicts EXCEPT ![r][s] = @ + 1]
        /\ verdicts \in [Runs -> [Slugs -> 0..MaxFull]] /\ MaxFull \in Nat /\ setting.errors \in Nat
    BY SettingsNamed DEF VerdictArrives, RowsInv, TypeOK, listed
  <1>2. \A p \in Runs, t \in Slugs :
          /\ verdicts[p][t] \in Nat
          /\ verdicts'[p][t] = IF p = r /\ t = s THEN verdicts[p][t] + 1 ELSE verdicts[p][t]
    BY <1>1
  <1>3. Listed'
    BY <1>1, <1>2 DEF RowsInv, Listed
  <1>4. ASSUME NEW p \in Runs, Due(p) PROVE Due(p)'
    <2>1. PICK t \in Judged(p) : Usable(Verdicts(t, verdicts[p][t]))
      BY <1>4 DEF Due
    <2>2. t \in Slugs /\ verdicts[p][t] > 0 /\ verdicts[p][t] > setting.errors
      BY <2>1 DEF Judged, Usable, Verdicts
    <2>3. verdicts'[p][t] > 0 /\ verdicts'[p][t] > setting.errors
      BY <1>1, <1>2, <2>2
    <2> QED BY <1>1, <2>2, <2>3 DEF Due, Judged, Usable, Verdicts
  <1>5. ASSUME NEW q \in Requests PROVE Scanning(q)'
    <2>1. \A p \in refresh[q].due : p \in Runs
      BY DEF RowsInv, TypeOK
    <2>2. Covered(refresh[q]) => Covered(refresh[q])'
      BY <1>1, <1>4, <2>1 DEF Covered, OneSlug
    <2>3. Apart(refresh[q]) => Apart(refresh[q])'
      BY <1>1 DEF Apart
    <2>4. Current(refresh[q]) => Current(refresh[q])'
      BY <1>1 DEF Current, Alone
    <2> QED BY <1>1, <2>2, <2>3, <2>4 DEF RowsInv, Scanning
  <1> QED BY <1>1, <1>3, <1>5 DEF RowsInv

LEMMA RestKeeps ==
    ASSUME RowsInv, TypeOK', UNCHANGED <<setting, verdicts, rows, refresh>>
    PROVE  RowsInv'
  <1>1. ASSUME NEW q \in Requests PROVE Scanning(q)'
    <2>1. \A p \in refresh[q].due : p \in Runs
      BY DEF RowsInv, TypeOK
    <2>2. Covered(refresh[q]) => Covered(refresh[q])'
      BY <2>1, DueStays DEF Covered
    <2>3. Apart(refresh[q]) => Apart(refresh[q])'
      BY DEF Apart
    <2>4. Current(refresh[q]) => Current(refresh[q])'
      BY DueStays DEF Current
    <2> QED BY <2>2, <2>3, <2>4 DEF RowsInv, Scanning
  <1> QED BY <1>1, DueStays DEF RowsInv

LEMMA RowsInvBegins == Init => RowsInv
  <1> SUFFICES ASSUME Init PROVE RowsInv
    OBVIOUS
  <1>1. Distinct(rows)
    BY DEF Init, Distinct, IsInjective, RunSeq
  <1> QED BY <1>1, TypesBegin DEF Init, RowsInv, Listed, Scanning, NoRefresh

\* The steps that no refresh sees.
Elsewhere ==
    \/ \E r \in Runs, s \in Slugs : OutputsArrive(r, s) \/ RenderOne(r, s) \/ RenderStops(r, s)
    \/ \E r \in Runs : Begin(r) \/ RenderAll(r)
    \/ GetVerdicts \/ GetGemma4 \/ GetRegional \/ OpenMeta \/ WriteMeta \/ DownloadFails \/ Interrupted
    \/ \E r \in Runs : ServeStatic(r) \/ ServePage(r) \/ ServeFromCache(r) \/ ServeFromVolume(r)
    \/ UNCHANGED vars

LEMMA ElsewhereSame == Elsewhere => UNCHANGED <<setting, verdicts, rows, refresh>>
  <1>1. ASSUME NEW r, NEW s, OutputsArrive(r, s) \/ RenderOne(r, s) \/ RenderStops(r, s)
        PROVE  UNCHANGED <<setting, verdicts, rows, refresh>>
    BY <1>1 DEF OutputsArrive, RenderOne, RenderStops, volume, listed
  <1>2. ASSUME NEW r, \/ Begin(r) \/ RenderAll(r) \/ ServeStatic(r) \/ ServePage(r)
                      \/ ServeFromCache(r) \/ ServeFromVolume(r)
        PROVE  UNCHANGED <<setting, verdicts, rows, refresh>>
    BY <1>2 DEF Begin, RenderAll, ServeStatic, ServePage, ServeFromCache, ServeFromVolume, volume, listed
  <1>3. ASSUME GetVerdicts \/ GetGemma4 \/ GetRegional \/ OpenMeta \/ WriteMeta \/ DownloadFails \/ Interrupted
        PROVE  UNCHANGED <<setting, verdicts, rows, refresh>>
    BY <1>3 DEF GetVerdicts, GetGemma4, GetRegional, OpenMeta, WriteMeta, DownloadFails, Interrupted, volume, listed
  <1>4. ASSUME UNCHANGED vars PROVE UNCHANGED <<setting, verdicts, rows, refresh>>
    BY <1>4 DEF vars, volume, listed
  <1> QED BY <1>1, <1>2, <1>3, <1>4 DEF Elsewhere

\* A step is elsewhere, brings a verdict, or is one of a request.
LEMMA StepOfRows ==
    ASSUME TypeOK, [Next]_vars
    PROVE  \/ Elsewhere
           \/ \E r \in setting.runs, s \in setting.slugs : VerdictArrives(r, s)
           \/ \E q \in setting.requests :
                BeginRefresh(q) \/ EndRefresh(q) \/ \E r \in setting.runs : Scan(q, r)
  <1>1. setting.runs \subseteq Runs /\ setting.slugs \subseteq Slugs /\ setting.asked \subseteq Runs
    BY SettingsNamed DEF TypeOK
  <1> QED BY <1>1 DEF Next, Elsewhere

LEMMA RowsInvKept == RowsInv /\ [Next]_vars => RowsInv'
  <1> SUFFICES ASSUME RowsInv, [Next]_vars PROVE RowsInv'
    OBVIOUS
  <1>1. TypeOK' /\ setting.runs \subseteq Runs
    BY TypesKept, SettingsNamed DEF RowsInv, TypeOK
  <1>2. CASE Elsewhere
    BY <1>1, <1>2, ElsewhereSame, RestKeeps
  <1>3. ASSUME NEW q \in setting.requests,
               BeginRefresh(q) \/ EndRefresh(q) \/ \E r \in setting.runs : Scan(q, r)
        PROVE  RowsInv'
    BY <1>1, <1>3, BeginRefreshKeeps, EndRefreshKeeps, ScanKeeps
  <1> QED BY <1>1, <1>2, <1>3, VerdictKeeps, StepOfRows DEF RowsInv

LEMMA RowsInvHolds == Spec => []RowsInv
  BY RowsInvBegins, RowsInvKept, PTL DEF Spec

\* Whichever requests of /api/qualitative/refresh overlap, no run has two rows.
THEOREM NoRunTwice == Spec => []OneRowPerRun
  <1>1. RowsInv => OneRowPerRun
    BY DEF RowsInv, Distinct, OneRowPerRun
  <1> QED BY <1>1, RowsInvHolds, PTL

\* With one request at a time, rows stay where they are; and a request lists every
\* run that was due when it began.
THEOREM RefreshLosesNothing == Spec => RefreshKeeps
  <1> DEFINE Keeps ==
        /\ (\A p, q \in setting.requests : p = q) => IsPrefix(RunSeq(rows), RunSeq(rows'))
        /\ \A q \in Requests :
             /\ ~setting.flaky /\ \A s, t \in setting.slugs : s = t
             /\ rows' # rows /\ refresh[q].at = "scanning" /\ refresh'[q].at = "idle"
             => refresh[q].due \subseteq RunsOf(rows')
  <1>1. ASSUME RowsInv, [Next]_vars PROVE Keeps
    <2>1. CASE rows' = rows
      <3>1. RunSeq(rows) \in Seq(Runs)
        <4>1. \A i \in 1..Len(rows) : rows[i].run \in Runs
          <5>1. \A i \in 1..Len(rows) : rows[i] \in Rows
            BY <1>1 DEF RowsInv, TypeOK
          <5> QED BY <5>1 DEF Rows
        <4>2. RunSeq(rows) = [i \in 1..Len(rows) |-> rows[i].run] /\ Len(rows) \in Nat
          BY <1>1 DEF RowsInv, TypeOK, RunSeq
        <4> QED BY <4>1, <4>2
      <3>2. IsPrefix(RunSeq(rows), RunSeq(rows))
        BY <3>1 DEF IsPrefix
      <3> QED BY <2>1, <3>2
    <2>2. CASE rows' # rows
      <3>1. PICK p \in setting.requests : EndRefresh(p)
        <4>1. TypeOK /\ ~Elsewhere
          BY <1>1, <2>2, ElsewhereSame DEF RowsInv
        <4>2. \A r, s : VerdictArrives(r, s) => rows' = rows
          BY DEF VerdictArrives, listed
        <4>3. \A q : BeginRefresh(q) => rows' = rows
          BY DEF BeginRefresh
        <4>4. \A q, r : Scan(q, r) => rows' = rows
          BY DEF Scan
        <4> QED BY <1>1, <2>2, <4>1, <4>2, <4>3, <4>4, StepOfRows
      <3>2. p \in Requests /\ \A q \in Requests \ {p} : refresh'[q] = refresh[q]
        BY <1>1, <3>1, SettingsNamed DEF EndRefresh, RowsInv, TypeOK
      <3>3. /\ Alone => IsPrefix(RunSeq(rows), RunSeq(rows'))
            /\ ~setting.flaky /\ OneSlug => refresh[p].due \subseteq RunsOf(rows')
        BY <1>1, <3>1, Written DEF Covered
      <3> QED BY <3>2, <3>3 DEF Alone, OneSlug
    <2> QED BY <2>1, <2>2
  <1>2. RowsInv /\ [Next]_vars => [Keeps]_vars
    BY <1>1
  <1> QED BY <1>2, RowsInvHolds, PTL DEF Spec, RefreshKeeps

=============================================================================
