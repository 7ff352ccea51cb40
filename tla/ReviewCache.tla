---------------------------- MODULE ReviewCache ----------------------------
(***************************************************************************)
(* What is kept, beside the volume, of runs that are judged there: the     *)
(* copies in data/modal_cache (download_all_runs.py), the pages made from  *)
(* them (generate_all_reviews.py, generate_review.py), and the dashboard:  *)
(* the rows of qualitative_results.json, which requests refresh, and the   *)
(* pages it serves or makes on demand.  The volume goes on changing: the   *)
(* verdicts of a slug reach it a few at a time.                            *)
(*                                                                         *)
(* A verdict file is its slug and its number of verdicts; whatever is      *)
(* computed from it (win rate, grade, page) is named by that file.         *)
(***************************************************************************)
EXTENDS Naturals, Sequences, SequencesExt, FiniteSetsExt

CONSTANTS
    Runs,       \* run ids
    Slugs,      \* languages of a run, named by their rank in a listing
    Requests,   \* requests of /api/qualitative/refresh
    Reported,   \* runs that data/reports has a report of
    MaxFull,    \* bound: verdicts of a slug
    None,
    Torn,       \* a meta.json that is not written to its end
    Settings    \* what is looked at, a set of records:
                \*   runs, slugs    those that there are
                \*   full, errors   verdicts of a slug that is done, and how many of
                \*                  the first are errors
                \*   asked          runs that the scripts and the pages are asked for
                \*   requests       refreshes at a time
                \*   flaky, force   whether a download may fail, and --force be used
                \*   stops          whether the making of a page may be stopped

ASSUME SlugsRanked == Slugs \subseteq Nat \ {0}
ASSUME SettingsNamed ==
    /\ MaxFull \in Nat /\ None \notin Runs \cup Slugs \cup [slug : Slugs, lines : Nat]
    /\ Torn \notin {None} \cup [slug : Slugs, lines : Nat]
    /\ Reported \subseteq Runs
    /\ Settings \subseteq [runs : SUBSET Runs, slugs : SUBSET Slugs, full : 0..MaxFull, errors : Nat,
                           asked : SUBSET Runs, requests : SUBSET Requests,
                           flaky : BOOLEAN, force : BOOLEAN, stops : BOOLEAN]

VARIABLES
    setting,    \* which of the Settings
    outputs,    \* <<r, s>>: the outputs of r in s are on the volume
    verdicts,   \* verdicts[r][s]: lines of that verdict file on the volume
    cache,      \* cache[r]: data/modal_cache/r
    download,   \* what download_all_runs.py is at
    folders,    \* <<r, s>>: data/review has a folder for r in s, with its page or empty
    stopped,    \* history: <<r, s>> whose folder was left empty by a page not made
    pages,      \* pages[r][s]: the file that the page in data/review was made from
    static,     \* static[r][s]: likewise in data/review_static
    rows,       \* evaluations in qualitative_results.json
    refresh,    \* refresh[q]: what request q is at
    answer      \* the latest answer of /api/review/load

volume  == <<setting, outputs, verdicts>>
fetched == <<cache, download>>
shown   == <<folders, stopped, pages, static, answer>>
listed  == <<rows, refresh>>
vars    == <<volume, fetched, shown, listed>>

Verdicts(s, n)    == [slug |-> s, lines |-> n]
VerdictFiles      == [slug : Slugs, lines : 0..MaxFull]
Row(r, from)      == [run |-> r, from |-> from]
EmptyDir          == [verdicts |-> None, gemma4 |-> FALSE, regional |-> FALSE, meta |-> None]
NoDownload        == [at |-> "idle", run |-> None, slug |-> None]
NoRefresh         == [at |-> "idle", rows |-> <<>>, left |-> {}, new |-> <<>>, due |-> {}]
Start             == [r \in Runs |-> [s \in Slugs |-> None]]

Init ==
    /\ setting \in Settings
    /\ outputs = {}
    /\ verdicts = [r \in Runs |-> [s \in Slugs |-> 0]]
    /\ cache = [r \in Runs |-> EmptyDir]
    /\ download = NoDownload
    /\ folders = {}
    /\ stopped = {}
    /\ pages = Start
    /\ static = Start
    /\ rows = <<>>
    /\ refresh = [q \in Requests |-> NoRefresh]
    /\ answer = None

-----------------------------------------------------------------------------
(* The runs on the volume                                                  *)

\* The generation worker commits the outputs of a slug.
OutputsArrive(r, s) ==
    /\ outputs' = outputs \cup {<<r, s>>}
    /\ <<r, s>> \notin outputs
    /\ UNCHANGED <<setting, verdicts, fetched, shown, listed>>

\* A commit brings another verdict of the judge.
VerdictArrives(r, s) ==
    /\ <<r, s>> \in outputs
    /\ verdicts[r][s] < setting.full
    /\ verdicts' = [verdicts EXCEPT ![r][s] = @ + 1]
    /\ UNCHANGED <<setting, outputs, fetched, shown, listed>>

Judged(r)    == {s \in Slugs : verdicts[r][s] > 0}
Generated(r) == {s \in Slugs : <<r, s>> \in outputs}

\* discover_slug_task: the first slug in the listing of judge/, else of regional/.
Discovered(r) ==
    IF Judged(r) # {} THEN Min(Judged(r))
    ELSE IF Generated(r) # {} THEN Min(Generated(r)) ELSE None

\* compute_win_rate, compute_stats_from_verdicts: errors have no winner, and
\* without a winner there is no grade.
Usable(file) == file.lines > setting.errors

\* Whether `modal volume get` may bring the verdicts of r in s.
Gets(r, s) == verdicts[r][s] > 0

-----------------------------------------------------------------------------
(* download_all_runs.py                                                    *)

\* download_run up to its first download; of a run that has a meta.json (torn or
\* not), or of which nothing is discovered, it downloads nothing.
Begin(r) ==
    /\ download.at = "idle"
    /\ Discovered(r) # None
    /\ cache[r].meta = None \/ setting.force
    /\ download' = [at |-> "verdicts", run |-> r, slug |-> Discovered(r)]
    /\ UNCHANGED <<volume, cache, shown, listed>>

GetVerdicts ==
    /\ download.at = "verdicts"
    /\ Gets(download.run, download.slug)
    /\ cache' = [cache EXCEPT ![download.run].verdicts =
                     Verdicts(download.slug, verdicts[download.run][download.slug])]
    /\ download' = [download EXCEPT !.at = "gemma4"]
    /\ UNCHANGED <<volume, shown, listed>>

GetGemma4 ==
    /\ download.at = "gemma4"
    /\ cache' = [cache EXCEPT ![download.run].gemma4 = TRUE]
    /\ download' = [download EXCEPT !.at = "regional"]
    /\ UNCHANGED <<volume, shown, listed>>

GetRegional ==
    /\ download.at = "regional"
    /\ cache' = [cache EXCEPT ![download.run].regional = TRUE]
    /\ download' = [download EXCEPT !.at = "meta"]
    /\ UNCHANGED <<volume, shown, listed>>

\* meta.json is opened, which empties it, once there is a win rate.
OpenMeta ==
    /\ download.at = "meta"
    /\ Usable(cache[download.run].verdicts)
    /\ cache' = [cache EXCEPT ![download.run].meta = Torn]
    /\ download' = [download EXCEPT !.at = "writing"]
    /\ UNCHANGED <<volume, shown, listed>>

\* Mutant: meta.json is written as soon as the verdicts are there.
WriteMetaEarly ==
    /\ download.at \in {"gemma4", "regional", "writing"}
    /\ cache' = [cache EXCEPT ![download.run].meta = cache[download.run].verdicts]
    /\ download' = NoDownload
    /\ UNCHANGED <<volume, shown, listed>>

\* Last of all meta.json is written, with the grade of the downloaded verdicts.
WriteMeta ==
    /\ download.at = "writing"
    /\ cache' = [cache EXCEPT ![download.run].meta = cache[download.run].verdicts]
    /\ download' = NoDownload
    /\ UNCHANGED <<volume, shown, listed>>

\* A download fails, or there is no win rate.
DownloadFails ==
    /\ \/ download.at = "verdicts" /\ (setting.flaky \/ ~Gets(download.run, download.slug))
       \/ download.at \in {"gemma4", "regional"} /\ setting.flaky
       \/ download.at = "meta" /\ ~Usable(cache[download.run].verdicts)
    /\ download' = NoDownload
    /\ UNCHANGED <<volume, cache, shown, listed>>

\* The script is stopped; its files stay, meta.json as far as it is written.
Interrupted ==
    /\ download.at # "idle"
    /\ download' = NoDownload
    /\ UNCHANGED <<volume, cache, shown, listed>>

-----------------------------------------------------------------------------
(* The pages                                                               *)

Whole(dir) == dir.verdicts # None /\ dir.gemma4 /\ dir.regional

\* meta.json can be parsed.
Readable(dir) == dir.meta \notin {None, Torn}

\* generate_all_reviews.py for one row: a page that exists is not made again, and
\* a torn meta.json ends the script.
RenderAll(r) ==
    /\ \E i \in DOMAIN rows : rows[i].run = r
    /\ Readable(cache[r]) /\ Whole(cache[r])
    /\ LET s == cache[r].meta.slug IN
       /\ static[r][s] = None \/ setting.force
       /\ static' = [static EXCEPT ![r][s] = cache[r].verdicts]
    /\ UNCHANGED <<volume, fetched, folders, stopped, pages, answer, listed>>

\* The folder of a page is made first, and then the page.
PageMade(r, s, file) ==
    /\ folders' = folders \cup {<<r, s>>}
    /\ pages' = [pages EXCEPT ![r][s] = file]

\* generate_review.py for a run and a slug, from the volume: what cannot be
\* downloaded is taken for empty.
RenderOne(r, s) ==
    /\ \E n \in (IF Gets(r, s) THEN {verdicts[r][s]} ELSE {0}) \cup (IF setting.flaky THEN {0} ELSE {}) :
         PageMade(r, s, Verdicts(s, n))
    /\ UNCHANGED <<volume, fetched, stopped, static, answer, listed>>

\* It is stopped, or fails, between the folder and the page.
RenderStops(r, s) ==
    /\ setting.stops
    /\ folders' = folders \cup {<<r, s>>}
    /\ stopped' = IF pages[r][s] = None THEN stopped \cup {<<r, s>>} ELSE stopped
    /\ UNCHANGED <<volume, fetched, pages, static, answer, listed>>

-----------------------------------------------------------------------------
(* The dashboard: GET /api/qualitative/refresh                             *)

RunSeq(list) == [i \in DOMAIN list |-> list[i].run]
RunsOf(list) == {list[i].run : i \in DOMAIN list}

\* The rows are read, those with a report of their own updated (by its grade,
\* not by verdicts: None), and the volume listed.
BeginRefresh(q) ==
    /\ refresh[q].at = "idle"
    /\ LET merged == [i \in DOMAIN rows |-> IF rows[i].run \in Reported
                                            THEN Row(rows[i].run, None) ELSE rows[i]]
       IN  refresh' = [refresh EXCEPT ![q] =
               [at |-> "scanning", rows |-> merged, left |-> setting.runs \ RunsOf(rows), new |-> <<>>,
                due |-> {r \in Runs : \E s \in Judged(r) : Usable(Verdicts(s, verdicts[r][s]))}]]
    /\ UNCHANGED <<volume, fetched, shown, rows>>

\* Whether scan_modal_new_runs finds verdicts of r that give a grade.
Countable(r) ==
    Discovered(r) # None /\ Usable(Verdicts(Discovered(r), verdicts[r][Discovered(r)]))

\* One turn of scan_modal_new_runs.
Scan(q, r) ==
    /\ refresh[q].at = "scanning" /\ r \in refresh[q].left
    /\ LET found == Row(r, Verdicts(Discovered(r), verdicts[r][Discovered(r)])) IN
       \/ /\ Countable(r)
          /\ refresh' = [refresh EXCEPT ![q].left = @ \ {r}, ![q].new = Append(@, found)]
       \/ /\ ~Countable(r) \/ setting.flaky
          /\ refresh' = [refresh EXCEPT ![q].left = @ \ {r}]
    /\ UNCHANGED <<volume, fetched, shown, rows>>

\* Mutant: the new rows are appended to the file as it is now.
EndRefreshRereads(q) ==
    /\ refresh[q].at = "scanning" /\ refresh[q].left = {}
    /\ rows' = rows \o refresh[q].new
    /\ refresh' = [refresh EXCEPT ![q] = NoRefresh]
    /\ UNCHANGED <<volume, fetched, shown>>

\* Mutant: only the new rows are written.
EndRefreshNewOnly(q) ==
    /\ refresh[q].at = "scanning" /\ refresh[q].left = {}
    /\ rows' = refresh[q].new
    /\ refresh' = [refresh EXCEPT ![q] = NoRefresh]
    /\ UNCHANGED <<volume, fetched, shown>>

\* The file is written from what this request read and found.
EndRefresh(q) ==
    /\ refresh[q].at = "scanning" /\ refresh[q].left = {}
    /\ rows' = refresh[q].rows \o refresh[q].new
    /\ refresh' = [refresh EXCEPT ![q] = NoRefresh]
    /\ UNCHANGED <<volume, fetched, shown>>

-----------------------------------------------------------------------------
(* The dashboard: POST /api/review/load                                    *)

\* _grade_from_qual_json: the row of the run, or No.
No == [none |-> TRUE]
RowGrade(r) ==
    IF r \in RunsOf(rows)
    THEN rows[CHOOSE i \in DOMAIN rows :
                rows[i].run = r /\ \A j \in DOMAIN rows : rows[j].run = r => i <= j].from
    ELSE No

\* _grade_from_qual_json, or else _grade_from_cache_meta.
GradeOf(r) ==
    CASE RowGrade(r) # No -> RowGrade(r)
      [] RowGrade(r) = No /\ Readable(cache[r]) -> cache[r].meta
      [] OTHER -> None

Answer(r, s, page, grade) == [run |-> r, slug |-> s, page |-> page, grade |-> grade]

\* Step 0: a page of generate_all_reviews.py.
ServeStatic(r) ==
    /\ \E s \in Slugs : /\ static[r][s] # None
                        /\ answer' = Answer(r, s, static[r][s], GradeOf(r))
    /\ UNCHANGED <<volume, fetched, folders, stopped, pages, static, listed>>

NoStatic(r) == \A s \in Slugs : static[r][s] = None

\* Mutant: any slug will do.
KnownSlugsAny(r) == Slugs

\* Step 1: the slugs to look under, from meta.json or else the names of the
\* folders there are, whether or not they hold a page.
KnownSlugs(r) ==
    IF Readable(cache[r]) THEN {cache[r].meta.slug} ELSE {s \in Slugs : <<r, s>> \in folders}

\* Step 2: a page made before.
ServePage(r) ==
    /\ NoStatic(r)
    /\ \E s \in KnownSlugs(r) : /\ pages[r][s] # None
                                /\ answer' = Answer(r, s, pages[r][s], GradeOf(r))
    /\ UNCHANGED <<volume, fetched, folders, stopped, pages, static, listed>>

\* Step 3: a page made from the cache.
ServeFromCache(r) ==
    /\ NoStatic(r)
    /\ Whole(cache[r])
    /\ \E s \in KnownSlugs(r) :
         /\ pages[r][s] = None
         /\ PageMade(r, s, cache[r].verdicts)
         /\ answer' = Answer(r, s, cache[r].verdicts, GradeOf(r))
    /\ UNCHANGED <<volume, fetched, stopped, static, listed>>

\* Step 5: a page made from the volume; no grade is taken from meta.json here.
ServeFromVolume(r) ==
    /\ NoStatic(r)
    /\ ~Whole(cache[r]) \/ KnownSlugs(r) = {}
    /\ \E s \in IF KnownSlugs(r) # {} THEN KnownSlugs(r) ELSE {Discovered(r)} \ {None} :
         /\ pages[r][s] = None
         /\ Gets(r, s)
         /\ PageMade(r, s, Verdicts(s, verdicts[r][s]))
         /\ answer' = Answer(r, s, pages'[r][s], RowGrade(r))
    /\ UNCHANGED <<volume, fetched, stopped, static, listed>>

Next ==
    \/ \E r \in setting.runs, s \in setting.slugs : OutputsArrive(r, s) \/ VerdictArrives(r, s)
    \/ \E r \in setting.asked, s \in setting.slugs : RenderOne(r, s) \/ RenderStops(r, s)
    \/ \E r \in setting.asked : Begin(r) \/ RenderAll(r)
    \/ GetVerdicts \/ GetGemma4 \/ GetRegional \/ OpenMeta \/ WriteMeta \/ DownloadFails \/ Interrupted
    \/ \E q \in setting.requests : BeginRefresh(q) \/ EndRefresh(q) \/ \E r \in setting.runs : Scan(q, r)
    \/ \E r \in setting.asked : ServeStatic(r) \/ ServePage(r) \/ ServeFromCache(r) \/ ServeFromVolume(r)

Spec == Init /\ [][Next]_vars

-----------------------------------------------------------------------------
(* Properties                                                              *)

Froms   == VerdictFiles \cup {None}
Rows    == [run : Runs, from : Froms]
Answers == [run : Runs, slug : Slugs, page : VerdictFiles, grade : Froms \cup {No}]

\* Every variable has its type.
TypeOK ==
    /\ setting \in Settings
    /\ outputs \subseteq Runs \X Slugs
    /\ verdicts \in [Runs -> [Slugs -> 0..MaxFull]]
    /\ cache \in [Runs -> [verdicts : Froms, gemma4 : BOOLEAN, regional : BOOLEAN,
                         meta : Froms \cup {Torn}]]
    /\ download \in [at : {"verdicts", "gemma4", "regional", "meta", "writing"}, run : Runs, slug : Slugs]
                    \cup {NoDownload}
    /\ folders \subseteq Runs \X Slugs /\ stopped \subseteq folders
    /\ {pages, static} \subseteq [Runs -> [Slugs -> Froms]]
    /\ rows \in Seq(Rows)
    /\ refresh \in [Requests -> [at : {"idle", "scanning"}, rows : Seq(Rows), left : SUBSET Runs,
                                 new : Seq(Rows), due : SUBSET Runs]]
    /\ answer \in Answers \cup {None}

\* A directory with meta.json has all its files, wherever a download failed or
\* was stopped.  Unless --force is used its grade is that of the verdicts beside
\* it, if it can be read, and so are the pages to be deployed, in whatever order
\* the scripts are run and whatever the volume gains meanwhile.  (A forced
\* download that fails half-way leaves the old grade beside new verdicts.)
CopiesAgree ==
    \A r \in Runs :
        /\ cache[r].meta # None => Whole(cache[r])
        /\ ~setting.force /\ Readable(cache[r]) => cache[r].meta = cache[r].verdicts
        /\ \A s \in Slugs : ~setting.force /\ static[r][s] # None => static[r][s] = cache[r].meta

\* A page served for a slug was made from verdicts of that slug, though the cache
\* from which pages are made does not name its slug, may lack its meta.json or have
\* a torn one, and is looked up by the names of folders: all but the page of a slug
\* whose folder was once left empty, which load_review_api takes for its page.
PageOfItsSlug ==
    ~setting.force /\ answer # None /\ <<answer.run, answer.slug>> \notin stopped =>
        answer.page.slug = answer.slug

\* Whichever requests overlap, no run has two rows.
OneRowPerRun == IsInjective(RunSeq(rows))

\* With one request at a time, rows stay where they are.  Of two at a time the
\* later drops what the earlier found; but a refresh lists every run that had a
\* usable verdict when it began, unless a download fails or the run's first slug
\* has only errors, so that what one drops the next finds again.
RefreshKeeps ==
    [][/\ (\A p, q \in setting.requests : p = q) => IsPrefix(RunSeq(rows), RunSeq(rows'))
       /\ \A q \in Requests :
            /\ ~setting.flaky /\ \A s, t \in setting.slugs : s = t
            /\ rows' # rows /\ refresh[q].at = "scanning" /\ refresh'[q].at = "idle"
            => refresh[q].due \subseteq RunsOf(rows')]_vars

=============================================================================
