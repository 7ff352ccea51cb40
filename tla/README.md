# Formal model of the multilingual evaluation framework

TLA+ modules, TLC configurations and TLAPS proofs about the evaluation pipeline
in this repository: the orchestrator that takes every language of a run through
inference, metrics, judge and report on Modal; the workers it calls; the metrics;
the model registry; the job that translates the datasets; and what lists,
downloads and shows the results. Source paths below are relative to the
repository.

Run a model with `tlc -config X.cfg MC<Module>.tla`, a proof with
`tlapm <Module>Proofs.tla`. `PROJECT.json` lists the runs, the source lines each
definition stands for, the hazards and which property watches each, the findings
and the theorems.

## 1. The system

| component | code | state it keeps | operations |
|---|---|---|---|
| Orchestrator | `src/pipeline/entrypoints.py`, `state_machine.py`, `modal_app.py` | a `LanguageRun` per language, pending call handles, `run_manifest.json` | `run_pipeline`, `run_fanout`, `advance` and its five stages, `ensure_gemma4_baseline` |
| Generation worker | `src/workers/inference.py` | an outputs file per language, one shared Gemma-4 file; a container per (model, run, task) | `generate` |
| Judge worker | `src/workers/judge.py` | a verdicts file per language; containers shared by all languages | `judge` |
| Metric workers | `src/workers/light_metrics.py`, `model_metrics.py` | a file per (metric, language or "baseline"); containers shared by all languages | `score` |
| Metric functions | `src/metrics` | none | `compute` of eighteen metrics |
| Report generator | `src/workers/reporter.py` | `final_report.json`, one file for all languages | `generate`, `load_report`, `summarize_run` |
| Registry | `src/core`, `src/adapters/persistence`, `src/api` | five JSON files on a volume | create, patch, enable/disable/deprecate, fetch template, create run |
| Run files | `src/pipeline/run.py` | manifest, run index, checkpoints | atomic writes, append, load completed ids |
| Loader | `src/pipeline/loader.py` | none | read samples, validate, build prompts |
| Run status | `_check_run_impl` in `modal_app.py` | none; a container's copy of the volume | `check_run` |
| Download and pages | `scripts/download_all_runs.py`, `generate_review.py`, `generate_all_reviews.py` | `data/modal_cache`, `data/review`, `data/review_static` | download a run, make its pages |
| Dashboard | `scripts/dashboard.py` | `qualitative_results.json` | refresh the rows, load a page |
| Dataset translation | `experiments/translate_instruction_dataset.py` | a dataset file per language | `translate_slug`, `translate_all_parallel` |

**How they interact.** The local entry point starts `_run_pipeline` in a
container. With one language that container runs `advance` itself; with several
it spawns `_run_one_language` per language and polls the call handles for at
most six hours. Every stage is a remote call to a worker class, whose containers
Modal starts, keeps warm and reuses. No component sends another data: the
results travel through files on one Modal volume. Each container works on its
own copy, taken when it started or when it last called `reload()`; a commit
(explicit, by Modal in the background, at exit, or by `reload` itself) replaces
whole files, so the last writer of a file wins.

**What is hard about it.** The volume makes every file shared by two containers
a read-modify-write race (`final_report.json`, the baseline metrics, the
registry files) and every reader that does not reload a stale reader (the
orchestrator, warm judge containers). Containers die with uncommitted work. The
orchestrator can give up on a call that later succeeds, or die and be launched
again with the same run id while its old containers are at work. Failures inside
workers are turned into missing records, ties or `None` values and never raised.

**What makes each part correct.**

* Orchestrator: outcomes are never invented and never revised; a resumed
  language is not run again; no language reaches inference before the baseline;
  a launch ends; the report never loses a language; the summary agrees with it.
* Generation: no sample twice, none missing but those that failed, whatever
  died, was resumed or was served from a stale copy.
* Judge and report: each judgment counted once; swap runs read the right way
  round; the grade follows from the language's own verdicts and metrics.
* Metrics: a start of a call leaves one record per metric; a language's records
  stay; a metric looks only at the outputs it is about; a blank output never helps;
  metrics of the same numbers do not contradict each other.
* Statistics of the verdicts: neither model is preferred, whatever the judge did.
* Registry: ids unique; lifecycle only along `TRANSITIONS`; what a request
  stored is there until a request changes it.
* Run files: the index in the order of the launches; a settled status not taken
  back; a run with results found.
* Translation: a job ends; what it reports as done was translated throughout; no
  translated field is translated twice; an evaluation reads what it asked for.
* Copies, pages and rows: whole, of the slug they name, in agreement with their
  grades; no run listed twice or forgotten.

## 2. The modules

```
StateMachine   states of a language, and their order
Pipeline       EXTENDS StateMachine: run_pipeline, run_fanout, advance, volume
RunOutcome     abstract: what a run promises; implemented by Pipeline
Inference      generate() and its two callers
MetricFiles    score() in shared containers, and the stages that call it
Grades         the arithmetic of the A-E grade (operators only)
Verdicts       EXTENDS Grades: keys of verdicts, statistics and winners (operators only)
Scoring        EXTENDS Verdicts: judge() in shared containers, report sections
NumberRules    the eight number metrics (operators only)
MetricReport   EXTENDS Verdicts, NumberRules: from outputs and verdicts to the summary
RunIndex       manifest and runs_index.json over launches, and check_run
ReviewCache    downloaded copies, pages, the dashboard's rows and requests
Registry       RegistryService over VolumeRegistryStore, several containers
Translation    translate_slug, its orchestrator, and the loader that reads the file
MC*            finite instances for TLC
*Proofs        theorems and proofs
```

Where the code calls a remote method and waits, the model has a step that begins
the call, the worker's own steps, and one that returns; where a process runs
alone on data no other process sees, one step stands for the whole handler.
Operators named `...` "Mutant" in a comment are plausible wrong versions of the
definition that follows them. No specification uses them; they exist to show
that the properties notice such a change.

### Pipeline

One orchestrator container `Orch`, and a job `<<launch, slug>>` for each call of
`advance`. `runs`, `pending`, `manifest` are `run_pipeline`'s variables;
`state[j]` and `status[j]` the `LanguageRun` and the call handle of a job;
`volume`, `view`, `dirty` the committed volume, the copy each container sees and
which copies hold an uncommitted report. On the volume the module keeps what the
orchestration depends on: the languages in `final_report.json`, and whether the
Gemma-4 outputs exist.

* `Start` is the head of `run_pipeline` up to the baseline decision; `Baseline`
  and `BaselineRaises` are `ensure_gemma4_baseline`; `Dispatch`,
  `CollectResult`, `CollectRaised`, `Deadline`, `GiveUp` are `run_fanout`'s
  spawn, poll and timeout fallback (inline: the `for` loop); `Close` writes the
  manifest's verdict; `Summarize` is `summarize_run` with the failed languages
  patched in.
* `DoInference` ... `DoReport`, `ArriveDone`, `StageFails` and `Return` are the
  turns of `advance`'s loop. A stage's remote work is atomic here; `Inference`
  and `Scoring` open two of the stages up. `FAILED` may be entered from any
  stage, because any remote call may raise.
* `Commit`, `JobCrash`, `OrchCrash` are Modal's.

`RunOutcome` says what a reader of the run may rely on: a launch settles each
language once, kept or failed, and only then gives the verdict that the outcomes
call for. `Pipeline` implements it under the mapping in `Outcome`.

### Inference

Calls of `generate` by `_do_inference` (one slug) or by `ensure_gemma4_baseline`
(every slug, one after the other, into one file); which of them is chosen in `Init`.
A container that is idle and warm answers with the copy it has. `Infer` is a batch
through vLLM: it yields a record for each sample, or an exception that `_safe_chat`
turns into none. A batch with a sample that has no `user_prompt_localized` (`blank`,
which a translation job may change between two attempts) raises out of `generate()`
before that (`PromptRaises`): no commit is made and the container stays warm with
what it has. `Finish` is the return, after which a caller that still waits goes on,
with a commit unless nothing was pending. Containers and callers die independently:
a call goes on when its caller is lost. The file is a bag of sample ids, so that a
sample recorded twice is visible.

### Registry

Each request is one step in its container, because a handler never yields
between reading and writing a file. A container sees its own copy of the five
lists. `fleet` is the set of containers that may run: a single one, or several.
Requests refused with 404 or 409 write nothing and are not steps.

### Scoring and Grades

`Scoring` follows the languages of a run from committed outputs to their report
section. `Call`, `JudgeKey`, `Finish` are `judge()` in a container that any
language may share. The judge model is a `habit` chosen in `Init`: it prefers
what it reads first, or knows the regional (or the Gemma-4) text by its content,
or finds both equal; in any judgment the API may fail, which the code stores as
a tie with an error. `Report` builds the section from the committed files after
the reload of `_do_judge`; its grade comes from `Grades`, whose rates are
integers in 1/10000, as `round(x, 4)` gives them.

### MetricFiles

The two calls a stage spawns, `<<language, owner of the outputs, attempt>>`, and the
containers that take them. The worker classes have no parameters, so one warm
container serves calls of all languages with the copy it has (`Take`); `Score`
appends a record to that copy, `PassOver` is a metric without samples of its
category (light tier) or whose exception is swallowed (model tier), `MetricRaises`
an exception that the light tier lets through to the caller, and only a background
`Commit` brings a file to the volume. `Die` is a lost container: its call raises,
when it timed out or crashed, or Modal starts it again, when the container was
preempted, in whatever container is next and from the first metric. `starts` counts
that, so that a record is named by its call and the start of it. `Pass` and `Fail`
are the two `get()`s of `_do_light_metrics` and `_do_model_metrics`, in their order.

### MetricReport, Verdicts and NumberRules

A state is the outputs of one model or the verdicts of the judge, and a step adds
a record, so that a property of a step says what one more record does to the
summary. `Applicable`, `Subset`, `TierOf`, `Section` and `LanguageSummary` are the
workers' and the report's choices. A selection of outputs or verdicts is the set
of their positions in the file; a score of a library (BLEU, COMET) is the
selection it was given, which is all that the code decides, and a rate is its two
counts. Texts in `NumberRules` are sequences of tokens, as far as the rules tell
digits, number words and currency words apart. `Verdicts` has each of the three
places that reduce a verdict file: `_summarize_verdicts`, `aggregate_verdicts`
with `overall_winner`, and the dashboard's grade. Counts are cardinalities of
sets of positions, never a recursion over the file, so that they can be reasoned
about.

`SizesAssumption` and `SettingsAssumption` are what these modules assume. The first
says that a judge stage has finitely many prompts and dimensions and at least one
swap run. The second says that an empty text matches no format pattern and has no
register marker, and that a number sample has one of the three rules and numbers
with a digit in them (`IsNumberSample`), as every sample of `data/datasets` has.

### RunIndex

`Launch` writes the manifest and appends to the index in the container's copy,
`BaselineDone` reloads and commits, `BaselineRaises` ends the launch with both files
uncommitted in a container that stays warm, `NothingToRun` is a launch that finds
all languages in its report or goes no further than `PENDING`, languages report to
the volume from containers of their own, `Settle` ends the run in the manifest of
the orchestrator's copy, `Commit` brings single files to the volume and `Die` drops
what is pending. `Check` is `_check_run_impl` in a container that sees the copy it
started with.

### ReviewCache

A verdict file is its slug and its number of verdicts, which goes on growing while
the scripts work; everything computed from a file (win rate, grade, page) is named
by it. The download is one file a step and may stop between any two, or within
`meta.json`, which is opened first and written then (`Torn`). A page's folder is
made before the page, so a folder may be empty (`folders`, `RenderStops`), which
`stopped` remembers. A refresh is one step for what it reads, one for each run that
`scan_modal_new_runs` looks at, and one for the write. `ServeStatic` ...
`ServeFromVolume` are the steps of `/api/review/load`; step 4, which on Vercel ends
the request without a page, changes nothing and is left out.

### Translation

`phase`, `mem`, `at`, `tries` are a job's place in `translate_slug` and
`_translate`; a request gives a whole translation, one that is cut at the token
limit, or fails, and what is left of an answer once stripped may be blank. A file is
written in place from the first line to the last (`checkpoint`, `final`), and a
background commit may take any prefix of it (`written`), the last line of which may
be torn. `Evaluate` is the loader with a limit, and the prompts made of what it
loads; both it and a `Launch` raise over a torn line, so a file whose job died in its
write cannot be repaired by running the job again. The constant `Overlap` allows
a second launch while the first job still runs; the properties that need one job
at a time say so, and the checked instance has `Overlap = FALSE`.

## 3. The runs

| run | instance | what it shows |
|---|---|---|
| `PipelineFanout` | 2 languages in containers, 2 launches, stop at `report` | the orchestrator's safety properties and `RefinesRunOutcome` |
| `PipelineInline` | 2 languages inline, 3 launches, stop at `done` | with one writer the report only grows, is the source of truth, and nothing is done twice; a launch ends |
| `PipelineDeadline` | 2 languages in containers, 2 launches, stop at `light_metrics` | a launch ends though no container owes an answer |
| `InferenceCalls` | 2 slugs of 3 samples, the last of which may lack its prompt, batches of 2, 2 containers, 2 attempts, both callers | no duplicates, full coverage, outputs kept, attempts end |
| `MetricFiles` | 2 languages once each, one twice, or one in either tier whose calls may be started twice; 1 metric, 2 containers | one record per start of a call, in order; own records kept; a stage ends |
| `Scoring` | 1 language, 2 prompts, limit 1, 2 swap runs, 2 containers, 2 judge stages, 3 habits | no judgment twice, verdicts name the judge's choice, position bias cancels |
| `MetricReport` | every file of 2 outputs over 3 languages and the failures of each library; every file of up to 8 verdicts of 2 prompts, 2 dimensions and 2 swap runs | what each value of the summary depends on; number metrics agree; statistics prefer no side |
| `RunIndex` | 2 runs, 1 or 2 driver containers, 1 checker, 2 launches | index in order, who may take a status back, a run with a report is found |
| `ReviewCache` | one run of 2 slugs with everything that can happen to it; forced downloads; 2 refreshes over 2 runs; a refresh that may fail; pages whose making is stopped | copies agree, pages are of their slug but for folders left empty, no run twice, refreshes keep and find |
| `RegistryFleet` | 2 containers, 1 model, 1 task, 1 run | unique ids, lifecycle in every copy, deprecated terminal with one container at a time |
| `Translation` | 2 samples, a checkpoint at each, 2 retries, 2 jobs one after the other, limits none, 0 and 1 | complete fields are settled, only blank answers and torn lines stop an evaluation of what was reported ok, jobs end, evaluations read exactly what they asked for |
| `PipelineReportGrows` | 2 languages, 1 launch | *violated*: the second commit drops the first language |

**Bounds.** Two languages are enough for every race between containers (each is
between two writers of a file, or a writer and the orchestrator), and two launches
for every meeting of a launch with the jobs of an earlier one; inline nothing
overlaps, and the third launch shows a resume of a resume. Three samples in batches
of two give a full batch, a short last batch, and a batch that fails between two
that succeed in different attempts, or a prompt that cannot be built after a batch
is appended; the second slug shows the baseline's second call meeting a warm
container. Verdict files are per language, so one language, whose second judge stage
may land in the warm container of the first or in a fresh one, has all the
interleavings of a file; a limit of 1 over two prompts makes the prompts judged
change when outputs are added. The registry's files do not refer to each other, so
one model and the tasks list, which `_init_tasks` also writes, are enough. The
deadline run stops early because the stages between do not matter to it. One metric
is enough for `MetricFiles`: a call's metrics share nothing but the copy, and a
second metric only lets the light tier raise with a record written, which an attempt
that dies does too; two starts of a call (`MaxStarts`, and `setting.starts` in the
settings where a restart is looked at) put a second record behind a committed first.
Two outputs are the least with which one can disturb the other's metric, and every
answer of at most two tokens contains each number of the prompts, a part of it and a
word; eight verdicts are all pairs of prompt, dimension and swap run. One checker is
enough, checkers change nothing; two launches make two runs at once, one run twice,
or a launch after a loss. In `ReviewCache` two slugs let what is discovered change
while the rest goes on, three verdicts let a run become usable during a refresh, and
each setting has only what its question needs (`Settings`). In `Translation` two
samples with a checkpoint at each have, in every write, a line that is whole, torn
or lost before or behind another.

**Symmetry** is used for languages (`PipelineFanout`) and containers
(`RegistryFleet`, `Scoring`, `RunIndex`, there of runs too), in runs without liveness
properties.

**Deadlock** is checked in `ReviewCache`, where some request can always be made.
Elsewhere it is not: every program modelled may end, and the bounds on launches,
attempts, files and runs end the rest.

**Fairness.** In `Pipeline`, the orchestrator's own steps are weakly fair: it is
one process whose loop sleeps and wakes, and whose clock passes the deadline.
Commits are fair, since Modal makes them. A language's container is owed nothing
when fanned out, so that the launch must end without it; inline, `advance` is in
the orchestrator's process, and each remote call has a Modal timeout. In
`Inference` the caller's step and the work of a running container are weakly
fair. In `MetricFiles` the work of the containers as a whole is fair (Modal finds
a container for a queued call and a call goes on or dies), and so is the return of
a language's `get()`; in `Translation` the loop of a running job. Crashes,
failures, timeouts, new launches and requests never are.

**Types.** `TypeOK` of a module is not in a run's list: it is a theorem (section
5), for all values of the constants.

## 4. Where the code and its words differ

`PipelineReportGrows` is checked as a violated run, because it is the one that loses
finished work: languages that report at about the same time lose each other's sections
(`reporter.py:156-172`), and the next launch runs a lost language again. The other
disagreements were met while modelling; the models have the code's behaviour, and each
can be seen from the definition named last.

*Pipeline and workers*

1. `entrypoints.py:187` calls `final_report.json` "the single source of truth".
   With several languages `summarize_run` (`:192`) reads the copy that the
   orchestrator had before any language ran, and has "?" for languages that
   succeeded. (`Summarize`; `SourceOfTruth` is stated for inline runs.)
2. `entrypoints.py:189-190` says that "failed languages never reached _do_report".
   With several languages the orchestrator marks one as failed when its handle does
   not answer by the deadline (`state_machine.py:398-407`) and leaves the call
   running; its section is written afterwards. (`Pipeline`: `GiveUp`, `DoReport`.)
3. `inference.py:157` says `generate()` "Handles checkpoint/resume", but
   `_do_inference` skips a language whose outputs file is not empty
   (`state_machine.py:149`); only the baseline resumes. (`Inference`: `Skip`.)
4. `reporter.py:71` says the section is of one (slug, task); its metrics are the
   last records over the files of all languages (`reporter.py:90-106`).
   (`Scoring`: `LastScored`.)
5. `evaluation-metrics.md:3` says that "two models are compared head-to-head";
   each language scores the whole baseline with its own tools and appends to one
   file, of which the last record counts, perhaps another language's.
   (`MetricFiles`: `FileOf` with the owner `Baseline`.)
6. `reporter.py:59` says `generate()` is called "after all scoring is done";
   `score()` neither commits nor waits, and one that saw no outputs in its
   container's copy succeeds with none. (`MetricFiles`: `Take`, `Commit`.)
7. `reporter.py:44` gives E when "gemma4 wins >60%"; ties and failed judgments
   count against the regional model too (`:340-357`). (`Grades`: `JudgeGrade`.)
8. `reporter.py:29` describes consistency as agreement across swap runs; a pair
   with a single vote counts as inconsistent. (`Verdicts`: `Consistency`.)
9. `reporter.py:200` says the summary has "all metrics"; `back_translation` is
   filed under the light metrics and looked up under the model metrics, so it is
   always `None` (`:248`). (`MetricReport`: `TierOf`, `LanguageSummary`.)

*Metrics*

10. `tone_register.py:59` has the tone `direct` "always counted as a pass"; it is
   left out (`:104`).
11. `evaluation-metrics.md:202` lists `min_sentences`, which `compute` does not
    test (`length_accuracy.py:21`).
12. `evaluation-metrics.md:225` describes `qa_restatement`, for which there is no
    pattern (`format_compliance.py:5`).
13. `digit_preservation.py:8` says "none dropped or hallucinated"; each input
    digit is looked for once, so repeated ones may go and others be added.
14. `evaluation-metrics.md:294` restricts currency units to `currency` samples;
    the list that is looked at has "currency" in every sample (`currency_unit.py:35`).
15. `number_type_cls.py:31` says that a number passes if handled by its rule; a
    mixed sample's type is in neither list and never passes.
16. `evaluation-metrics.md:268` says that no digit remains; `word_form.py:23` looks
    for the number as it is written in the prompt only.

*Run files, copies and dashboard*

17. `run.py:105` says that the index is appended to "atomically"; it is rewritten
    from a container's copy, and one of two launches is lost. (`RunIndex`:
    `AppendRun`; `NothingTakenBack` has it for one driver.)
18. `run.py:94` has the manifest written back "atomically"; a launch that raised,
    and that nobody drives any more, may commit its `started` over the verdict of a
    later launch, when its container is the one that commits last. (`RunIndex`:
    `MayTakeBack`.)
19. `run.py:122` updates the status in the index; nothing calls it.
20. `modal_app.py:374`: `check_run` looks languages up by name although the report
    is keyed by slug, and counts the baseline as a language. (`Check`.)
21. `dashboard.py:1286` and `download_all_runs.py:2` speak of completed runs; one
    usable verdict is enough for both, and neither looks again.
    (`ReviewCache`: `Countable`, `Begin`.)
22. `download_all_runs.py:134` says "False if skipped"; a cached run returns True.
23. `dashboard.py:1062` takes a run's slug from "cache meta OR existing HTML folder",
   which need not hold the HTML: `generate_review.py:460-461` makes the folder before
   it downloads. When it is stopped there and the cached copy has no readable
   `meta.json`, a page is made for the folder's slug from the cached verdicts of
   another. (`ReviewCache`: `KnownSlugs`, `RenderStops`, `stopped`.)
24. `download_all_runs.py:140` calls a run with a `meta.json` cached; one torn in the
   middle of its write (`:197`) counts too, until `--force`, and ends
   `generate_all_reviews.py` (`:72`). (`ReviewCache`: `Begin`, `Readable`.)
25. `dashboard.py:503` explains E as below 20 %; the report gives it below 30 %.

*Registry and datasets*

26. `routes.py:157` calls the template fetch idempotent; one that fails stores
    `None` over the template of an earlier one (`registry_service.py:145-157`).
    (`FetchTemplate`.)
27. `translate_instruction_dataset.py:178` has checkpoints "so progress is not
    lost"; the file is emptied before it is written, and a container lost in
    between loses samples. What is left may be reported ok by the next job, or end
    every later one on a torn line. (`Translation`: `"lost"`, `"torn"`.)
28. `translate_instruction_dataset.py:68` has `_translate` return "the translation,
    or the original text"; the answer is stripped (`:96`, `:103`, `:112`) and what
    is left is not looked at. A blank one is stored, the slug is reported as
    translated, and `build_instruction_prompt` raises (`loader.py:206-211`).
    (`Translation`: `"blank"`.)
29. `loader.py:203-204` says that samples are translated before an evaluation; after
    the last retry the English prompt is stored as the translation
    (`translate_instruction_dataset.py:109`). (`Translation`: `RequestFails`.)

## 5. What is proved

For all values of the constants that meet the named assumptions:

* `PipelineProofs`: `TypeCorrect`, `OutcomesAreBacked`, `ResumeIsRespected`,
  `OutcomesAreFinal`, `BaselineComesFirst`, `ReportsAreBacked`, and
  `PipelineImplementsRunOutcome` (the whole refinement, not only its safety part on
  an instance: `RunOutcome` has no fairness). The assumptions are that the languages
  are a finite, non-empty set, that `Orch` is not a job, and the types of the flags.
  With the hypothesis `Inline` (one language, or no remote function to spawn:
  `entrypoints.py:87`), also `SummaryIsComplete`, `InlineReportGrows` and
  `NothingDoneTwice`; without it the second is refuted by the run
  `PipelineReportGrows`.
* `InferenceProofs`: `GenerationTypeCorrect`, `NeverTwice`, `OutputsStay` and
  `BaselineCoversAllSlugs`, for any samples (no id in two slugs), batch size,
  containers, attempts and prompts that cannot be built.
* `RegistryProofs`: `RegistryTypeCorrect`, `KeysAreUnique`, `LifecycleIsRespected`
  and `DeprecatedStays`, for any models, entries and number of containers (the last
  for a fleet of one, as in its run).
* `ScoringProofs`, about `Scoring`: `ScoringTypeCorrect`, `JudgedOnlyOnce`,
  `ChoicesAreRead` and `PositionBiasCancels`, for any languages, swap runs, judge
  limit and containers, and finitely many prompts and dimensions.
  `BetterSignalsBetterGrade` is about operators, so no run checks it: every grade is
  one of A to E and, with the same signals at hand, a higher win rate, COMET delta
  or BLEU never gives a worse one.
* `ScoringProofs`, about `MetricReport` (which shares the verdicts, the rates and
  the counting lemmas with `Scoring`): `NumberMetricsAreOne`, `FairStatistics`,
  `VotesOnlyHelp`, `ValuesCountTheirOutputs` and `BlanksNeverPay`, for files of any
  length and any texts, languages, prompts, dimensions and swap runs.
* `MetricFilesProofs`: `MetricTypeCorrect`, `StartsLeaveOneRecord` and
  `OwnRecordsStay`, for any languages, metrics, containers, attempts and restarts.
* `TranslationProofs`: `JobTypeCorrect`, `ReportedIsEvaluable`,
  `CompleteIsSettled` and `EvaluationsArePrefixes`, for any samples, checkpoint
  interval, retries, launches and limits.
* `RunIndexProofs`: `IndexTypeCorrect`, `IndexKeepsOrder`, `ReportsAreFound` and
  `CommittedStays`, for any runs, containers and launches, and finitely many
  languages.
* `ReviewCacheProofs`: `ReviewsTypeCorrect`, `CopiesStayTogether`,
  `PageServedIsOfItsSlug`, `NoRunTwice` and `RefreshLosesNothing`, for any runs,
  requests and settings, and languages named by their rank in a listing.

Every invariant and every action property of the passing runs is stated by one
of these theorems.

**Arguments.** None of the safety invariants is inductive alone.
`OutcomeBacked` and `ResumeSkips` need the link between the orchestrator's
bookkeeping and the handles: a language still pending was not in the report the
launch loaded, a job of a later launch has not been started, and a job that has
returned no longer changes state. `BaselineFirst` needs that a copy that shows
the Gemma-4 outputs shows something committed, and that committed outputs stay.
`ReportBacked` needs the same of sections, for every copy, together with the fact
that a job in its report stage never leaves it but for `done`. The refinement
follows from the type invariant and these links, one lemma per action.
`NoDuplicates` needs `Fresh`: the samples a container has still to write are not
in the copy it writes to; that is where `generate` looking at its own file before
it starts matters, and it holds for a stale copy too. `JudgedOnce` needs
`Unjudged`, the same for the keys a judge call has left. `PreferenceRead` needs
the copies, from which the committed files are made (`AnswerInv`). `UniqueKeys`
is inductive with the types, since a request looks an id up in the very copy it
appends to; `DeprecatedIsTerminal` needs `KnowsDeprecated`: the one container's
copy has every deprecation the volume has.

`OneRecordPerStart` is `Proper` for every copy: a file holds only records of calls
on its own outputs, of starts that have been, those of one call in the order of its
starts. `Proper` needs `Fresh`, that the present start of a running call is not in
the copy it is about to be written to, and `Started`, that a call taken again is
counted. `OwnRecordsKept` then follows because a container can only commit a file
with a record in it (`Written`), and of one attempt (`Attempted`) with one start
there is only one. `Settled` rests on what a running job's list has to do with the
file it will overwrite (`Keeps`), `OkMeansEvaluable` on what the list has behind it
and on the file once a job has ended (`Passed`, `NoneMissing`), and on a torn line
being of a job later than all those that ended (`TornByLater`). `NothingTakenBack`
and `ReportedIsFound` rest on what a container may still commit (`Pending`: its
manifest of the run it drives, of one whose launch raised, or a settled one) and on
the manifest being on the volume, or still uncommitted beside it, while a language
may start (`Begun`). `CopiesAgree` needs how far the download at hand is
(`Progress`), `PageOfItsSlug` that a folder never left empty has its page
(`PagesOfSlugs`), and `RefreshKeeps` what a request has read, found and has left:
disjoint runs (`Apart`) that together have every run that was due (`Covered`).

The inline properties rest on `InlineInv`: inline, the report in the
orchestrator's copy is the volume's or ahead of it, only that copy is ever
uncommitted, it has what was resumed and what reported, and nothing that is still
to be started. That fails with the first job in another container, which
is what `PipelineReportGrows` shows.

`OutputsKept` rests on `SoloInv`: as long as no attempt begins beside an earlier
call, one container at most is up, and its copy is the file or ahead of it. For
`FullCoverage` every slug a baseline has behind it is in the file (`Delivered`) and
every sample of the call under way is in the container's copy, made, still to do, or
dropped (`Accounted`); it is here that a batch whose exception is swallowed has to
be named. A call that finds nothing pending returns without a commit, from a
container that may hold records a raised call left uncommitted. That is harmless
because of `Saving`: what a copy has of a slug is on the volume, or lacks a sample
that the next call for that slug finds pending, or is being completed by a call that
will commit; and no id belongs to two slugs (`IdsAssumption`, after
`state_machine.py:292-293`).

`PositionCancels` is a count. `AnswerInv` says what letters a judge of a habit can
have given; for one that answers A, mapping each line to the other swap run's line
of the same prompt and dimension takes the votes of one model, one to one, into
those of the other and the errors. `EvaluatesPrefix` is a count as well: how many
samples come before one in the file orders them, a limit cuts that order after exactly
so many, and a torn line is the last (`TornIsLast`), so that the cut falls before it
exactly when the whole lines are enough.

About `MetricReport` almost everything follows from the operators, so its
invariants are small: outputs are samples of the setting (`OutputsAreSamples`), and
a line of the verdict file is a verdict of a key, no key twice (`FileInv`). What is
long is counting. `NumberMetricsAgree` compares sets of positions; with a number
in every sample and a digit in every number, a preserved number puts a place into
`Leaked`. `SidesAlike` follows position by position, since exchanging the sides
changes no prompt, dimension or error. `UnanimousAgree` counts a complete file as
prompts times swap runs times dimensions, so that the rates on both sides are the
same fraction (`RoundedScales`); and `VoteNeverHurts` needs that rounding keeps
order (`RoundedMonotone`), and that a prompt that is won stays won when its side
gets one more vote. `BlankNeverRaises` is that a blank output may add to a
metric's total and never to its correct ones (`MoreCounted`).

**Only model-checked:** what needs fairness (`LaunchEnds`, `AttemptEnds`,
`StageEnds`, `JobEnds`), since the prover handles neither `ENABLED` nor weak
fairness of an action.

## 6. What is not modelled

* Text: prompts, outputs, rationales, markdown, HTML. What a metric tells apart in
  a text is in `MetricReport` and `NumberRules`; no other property is about it.
* Libraries (sacrebleu, COMET, language detection): a score is what they are given.
* API authentication (one comparison of a token), images, GPU presets: stateless
  or configuration.
* Modal's scheduling beyond what the code relies on: a warm idle container is
  preferred to a new one; a container's copy changes only by `reload` or restart.
* Calls that Modal starts again after a preemption, but in `MetricFiles`, where a
  record is appended without a look at the file. `generate`, `judge` and
  `translate_slug` look at what their file has before they begin, and their modules
  have a later attempt or job that makes the call again, in any container.
* Within `Pipeline` the files of a language's stages; `Inference`, `MetricFiles`
  and `Scoring` have them, one stage each.
* The registry scripts (`seed_registry.py` and its like): lists of requests to the
  HTTP API, one after the other, each of which is an action of `Registry`.
* Dataset creation and the report experiments (`language_map.py`,
  `generate_pdf.py`, `detailed_report.py`): one pass from files to a page or a
  table, no state, and hardly anything but layout.

## 7. Plan

What is left, in this order:

1. Lemmas that several proof modules state for themselves (a count that one more
   element changes, a function updated in one place) in one place.
2. A composition of `Inference`, `MetricFiles` and `Scoring` under `Pipeline`'s
   stages, with `Pipeline` as its abstract specification.
3. An abstract specification of a verdict file (a set of judged keys that only
   grows, of which the report counts each once), implemented by `Scoring`.
4. Two judge models in one run (`judge.py:579` leaves the model out of the key of
   a verdict), and two names of one language in registry and specification.
