---------------------------- MODULE MetricReport ----------------------------
(***************************************************************************)
(* From the outputs and verdicts of a language to what its report says: the *)
(* metrics of src/metrics, the workers' choice of metrics and samples, the  *)
(* sections of the report, get_language_summary and the judge's section.    *)
(* Either file grows by one record a step.                                  *)
(*                                                                         *)
(* A selection of the outputs is the set I of their positions in the batch *)
(* b; a score computed by a library is the selection it was given, a rate  *)
(* is its counts.                                                          *)
(***************************************************************************)
EXTENDS Verdicts, NumberRules

CONSTANTS
    Letters,   \* what the judge may answer, among "A", "B", "tie" and "error"
    Settings   \* what a language's evaluation starts from, a set of records:
               \*   task, fails   the task, and what raises: a metric's library, or its import
               \*   language      what the metrics' tables have for the language:
               \*                 [iso, markers : BOOLEAN, marian : "covered", "skipped" or "none"]
               \*   samples       the records that the outputs may hold
               \*   outputs, verdicts   bounds on the two files

Directions == {"en_to_target", "target_to_en"}

\* An empty text matches no pattern and has no marker.
ASSUME SettingsAssumption ==
    \A s \in Settings :
      /\ s.task \in {"translation", "instructions"}
      /\ s.task = "instructions" => \A o \in s.samples :
           /\ o.text = "blank" => o.matches = FALSE /\ o.markers = {}
           /\ o.category = "number_verbalization" => IsNumberSample(o)

ASSUME LettersAssumption == Letters \subseteq {"A", "B", "tie", "error"}

VARIABLES
    setting,   \* which of the Settings
    batch,     \* the outputs of one model, in file order
    file       \* the verdicts of the judge, in file order

reportVars == <<setting, batch, file>>

task     == setting.task
language == setting.language
fails    == setting.fails

-----------------------------------------------------------------------------
(* The metrics                                                             *)

NoScores == [k \in {} |-> None]
One(k, value) == [f \in {k} |-> value]

\* round(correct / total, 4) if total > 0 else 0.0
Rate(counted, correct) == [correct |-> Cardinality(correct), total |-> Cardinality(counted)]

Of(b, I, d) == {i \in I : b[i].direction = d}

\* BLEU, chrF, BERTScore: a corpus score for each direction that has samples.
Corpus(m, b, I) ==
    IF m \in fails THEN NoScores
    ELSE [k \in {m} \X {d \in Directions : Of(b, I, d) # {}} |-> [from |-> Of(b, I, k[2])]]

HasOutput(o) == o.text # "blank"

WithOutput(b, I) == {i \in I : HasOutput(b[i])}

\* COMET needs source, output and reference: empty outputs are left out, and a
\* direction of which nothing is left has no score.
COMET(b, I) ==
    LET data(d) == WithOutput(b, Of(b, I, d)) IN
    IF "comet" \in fails THEN NoScores
    ELSE [k \in {"comet"} \X {d \in Directions : data(d) # {}} |-> [from |-> data(k[2])]]

\* Back-translation: a language without a mapping has no scores, one whose
\* mapping says to skip it has the score None.
BackTranslation(b, I) ==
    LET key   == <<"back_translation", "en_to_target">>
        pairs == WithOutput(b, Of(b, I, "en_to_target"))
    IN  IF language.marian = "none" THEN NoScores
        ELSE IF language.marian = "skipped" \/ pairs = {} THEN One(key, None)
        ELSE IF "back_translation" \in fails THEN NoScores
        ELSE One(key, [from |-> pairs])

\* Empty outputs are not counted; an undetectable language counts as wrong.
LangAdherence(b, I) ==
    LET counted == WithOutput(b, I) IN
    IF ~language.iso THEN NoScores
    ELSE One("lang_adherence_rate", Rate(counted, {i \in counted : b[i].text = "target"}))

\* max_sentences and max_words, each if the sample gives it.
Within(o) == o.sentences <= o.max_sentences /\ o.words <= o.max_words
LengthAccuracy(b, I) == One("length_accuracy", Rate(I, {i \in I : Within(b[i])}))

FormatPatterns == {"numbered_list", "bullet_points", "headers", "qa_format"}

\* Mutant: an output of unknown format is counted, and passes.
FormatComplianceOpen(b, I) ==
    One("format_compliance", Rate(I, {i \in I : b[i].format \in FormatPatterns => b[i].matches}))

\* Samples of a format without pattern are left out.
FormatCompliance(b, I) ==
    LET counted == {i \in I : b[i].format \in FormatPatterns} IN
    One("format_compliance", Rate(counted, {i \in counted : b[i].matches}))

\* Pairs with an empty prompt or output are left out.  Without its library there
\* is no score at all; an embedding that fails, only where there is one to make.
TopicBoundary(b, I) ==
    LET counted == WithOutput(b, I) IN
    IF "sentence_transformers" \in fails THEN NoScores
    ELSE IF counted = {} THEN One("topic_boundary_compliance", Rate({}, {}))
    ELSE IF "topic_boundary" \in fails THEN NoScores
    ELSE One("topic_boundary_compliance", Rate(counted, {i \in counted : b[i].on_topic}))

ToneToRegister == [formal |-> {"formal"}, friendly |-> {"informal"}, direct |-> {}, neutral |-> {}, none |-> {}]

\* _classify_register: both kinds of markers, or none, decide nothing.
Detected(o) == IF Cardinality(o.markers) = 1 THEN o.markers ELSE {}

\* Tones without a register are skipped, indeterminate outputs left out.
ToneRegister(b, I) ==
    LET scored  == {i \in I : ToneToRegister[b[i].tone] # {} /\ Detected(b[i]) # {}}
        correct == {i \in scored : Detected(b[i]) = ToneToRegister[b[i].tone]}
    IN  IF ~language.markers THEN NoScores
        ELSE One("tone_register_accuracy", IF scored = {} THEN None ELSE Rate(scored, correct))

-----------------------------------------------------------------------------
(* The workers and the report                                              *)

TranslationMetrics == {"bleu", "chrf", "bertscore", "comet", "back_translation"}
NumberMetrics ==
    {"digit_by_digit", "word_form", "digit_leakage", "digit_preservation", "currency_unit",
     "number_type_cls", "mixed_sentence", "number_language"}
ScopedMetrics == NumberMetrics \cup
    {"length_accuracy", "format_compliance", "topic_boundary", "tone_register"}
InstructionMetrics == ScopedMetrics \cup {"lang_adherence"}

\* applies_to(task)
Applicable == IF task = "translation" THEN TranslationMetrics ELSE InstructionMetrics

\* The category a metric is scoped to.
CategoryOf ==
    [m \in ScopedMetrics |->
        CASE m = "length_accuracy"   -> "length_constraint"
          [] m = "format_compliance" -> "structured_output"
          [] m = "topic_boundary"    -> "topic_boundary"
          [] m = "tone_register"     -> "tone_style"
          [] OTHER                   -> "number_verbalization"]

\* Mutant: applies_to is asked, the samples are not filtered.
SubsetUnfiltered(m, b) == DOMAIN b

\* The samples a worker gives a metric.
Subset(m, b) ==
    {i \in DOMAIN b : m \in DOMAIN CategoryOf => b[i].category = CategoryOf[m]}

Compute(m, b, I) ==
    CASE m \in {"bleu", "chrf", "bertscore"} -> Corpus(m, b, I)
      [] m = "comet"             -> COMET(b, I)
      [] m = "back_translation"  -> BackTranslation(b, I)
      [] m = "lang_adherence"    -> LangAdherence(b, I)
      [] m = "length_accuracy"   -> LengthAccuracy(b, I)
      [] m = "format_compliance" -> FormatCompliance(b, I)
      [] m = "topic_boundary"    -> TopicBoundary(b, I)
      [] m = "tone_register"     -> ToneRegister(b, I)
      [] m \in NumberMetrics     -> NumberScore(m, b, I, None)

\* What score() writes; metrics without samples write nothing.
Scores(m, b) == IF Subset(m, b) = {} THEN NoScores ELSE Compute(m, b, Subset(m, b))

\* The part of the section that generate() puts a metric in.
TierOf(m) == IF m \in {"comet", "bertscore"} THEN "model_metrics" ELSE "light_metrics"

\* Records with empty scores are passed over.
Section(b) ==
    [part \in {"light_metrics", "model_metrics"} |->
        [m \in {n \in Applicable : TierOf(n) = part /\ Scores(n, b) # NoScores} |-> Scores(m, b)]]

\* (light.get(m) or {}).get(key)
Field(part, m, key) ==
    IF m \in DOMAIN part /\ key \in DOMAIN part[m] THEN part[m][key] ELSE None

\* get_language_summary, the metrics of one model.
LanguageSummary(b) ==
    LET light == Section(b)["light_metrics"]
        model == Section(b)["model_metrics"]
    IN  IF task = "translation"
        THEN [m \in TranslationMetrics |->
                Field(IF m \in {"bleu", "chrf"} THEN light ELSE model, m, <<m, "en_to_target">>)]
        ELSE [lang_adherence    |-> Field(light, "lang_adherence", "lang_adherence_rate"),
              tone_register     |-> Field(light, "tone_register", "tone_register_accuracy"),
              length_accuracy   |-> Field(light, "length_accuracy", "length_accuracy"),
              format_compliance |-> Field(light, "format_compliance", "format_compliance"),
              topic_boundary    |-> Field(light, "topic_boundary", "topic_boundary_compliance")]

-----------------------------------------------------------------------------
(* The files grow                                                          *)

ReportInit ==
    /\ setting \in Settings
    /\ batch = <<>>
    /\ file = <<>>

AddOutput(o) ==
    /\ Len(batch) < setting.outputs
    /\ batch' = Append(batch, o)
    /\ UNCHANGED <<setting, file>>

AddVerdict(letter) ==
    /\ Len(file) < setting.verdicts
    /\ \E key \in NextKeys(file) : file' = Append(file, Verdict(key, letter))
    /\ UNCHANGED <<setting, batch>>

ReportNext ==
    \/ \E o \in setting.samples : AddOutput(o)
    \/ \E letter \in Letters : AddVerdict(letter)

ReportSpec == ReportInit /\ [][ReportNext]_reportVars

-----------------------------------------------------------------------------
(* Properties: the metrics                                                 *)

\* The record that a step appends to the outputs.
Added == batch'[Len(batch')]

\* Whether a rate exceeds another; None and 0.0 of nothing exceed none.
Exceeds(r, s) ==
    /\ r # None /\ s # None
    /\ r.total > 0 /\ s.total > 0
    /\ r.correct * s.total > s.correct * r.total

\* An empty output never raises what the summary shows of adherence, format,
\* topic and tone (of length it does: no text is short enough).
BlankNeverRaises ==
    [][task = "instructions" /\ batch' # batch /\ Added.text = "blank" =>
         \A m \in DOMAIN LanguageSummary(batch) \ {"length_accuracy"} :
           ~Exceeds(LanguageSummary(batch')[m], LanguageSummary(batch)[m])]_reportVars

\* A value counts the outputs that it is about and no others: outputs of another
\* category leave a metric that is scoped to one as it is, and outputs in English
\* leave what the summary shows of a translation task.  COMET, which decides
\* grades, is computed from outputs that exist, and has no score for a model that
\* wrote nothing.
OnlyItsOutputs ==
    [][batch' # batch =>
         /\ task = "instructions" =>
              \A m \in DOMAIN CategoryOf : Added.category # CategoryOf[m] =>
                Scores(m, batch') = Scores(m, batch)
         /\ task = "translation" =>
              /\ Added.direction = "target_to_en" => LanguageSummary(batch') = LanguageSummary(batch)
              /\ LET comet == Scores("comet", batch') IN
                 \A k \in DOMAIN comet :
                   comet[k].from # {} /\ \A i \in comet[k].from : HasOutput(batch'[i])]_reportVars

\* The metrics that judge the same number outputs by overlapping rules agree:
\* number_type_cls, "composite of N1+N2", counts without mixed samples what
\* digit_by_digit and word_form count between them; mixed_sentence counts the
\* mixed samples as digit_by_digit does, and passes none that word_form fails;
\* without leaked digits word_form fails nothing; and an output that
\* digit_preservation counts has leaked a digit, so that a number put into words
\* is right for the one metric and wrong for the other.
NumberMetricsAgree ==
    LET numbers == {i \in DOMAIN batch :
                      task = "instructions" /\ batch[i].category = "number_verbalization"}
        unmixed == {i \in numbers : batch[i].rule # "mixed"}
        mixed   == {i \in numbers : batch[i].rule = "mixed"}
        asWords == {i \in numbers : batch[i].rule # "digit_by_digit"}
        leakage == DigitLeakage(batch, numbers).count
    IN  /\ NumberTypeCls(batch, unmixed) =
              [correct |-> DigitByDigit(batch, unmixed).correct + WordForm(batch, unmixed).correct,
               total   |-> DigitByDigit(batch, unmixed).total + WordForm(batch, unmixed).total]
        /\ MixedSentence(batch, numbers) = DigitByDigit(batch, mixed)
        /\ MixedSentence(batch, numbers).correct <= WordForm(batch, mixed).correct
        /\ leakage = 0 => WordForm(batch, numbers).correct = WordForm(batch, numbers).total
        /\ leakage >= DigitPreservation(batch, asWords).correct

-----------------------------------------------------------------------------
(* Properties: the verdicts                                                *)

Opponent(side) == IF side = "regional" THEN "gemma4" ELSE "regional"
Exchanged(verdicts) ==
    [i \in DOMAIN verdicts |-> [verdicts[i] EXCEPT !.winner_model =
        IF @ \in Sides THEN Opponent(@) ELSE @]]

\* No summary prefers a side: exchanging the two in the file exchanges their
\* rates in the report and on the pages, and leaves the consistency as it is.
SidesAlike ==
    LET e == Exchanged(file) IN
    /\ Judge(e).regional_win_rate = Judge(file).gemma4_win_rate
    /\ Consistency(e) = Consistency(file)
    /\ \A side \in Sides : Wins(e, side) = Wins(file, Opponent(side))

\* A judge that answers by position alone decides nothing: where the two swap
\* runs of a pair have the same letter, the page shows a tie.
PositionDecidesNothing ==
    \A p \in DOMAIN Aggregated(file) :
        LET own == VotesOf(file, Votes(file), p) IN
        SwapRuns = 2 /\ Cardinality(own) = 2 /\ (\A i, j \in own : file[i].letter = file[j].letter)
            => Aggregated(file)[p] = "tie"

\* When no verdict is an error and every prompt has one winner throughout, the
\* report and the pages have the same win rates once all are judged, the swap
\* runs agree, and so does every dimension of the breakdown.
UnanimousAgree ==
    (/\ NextKeys(file) = {}
     /\ \A i \in DOMAIN file : ~file[i].error
     /\ \A i, j \in DOMAIN file : file[i].prompt = file[j].prompt =>
            file[i].winner_model = file[j].winner_model)
    => /\ Judge(file).regional_win_rate =
            Round4(Cardinality(Wins(file, "regional")), Cardinality(Judged(file)))
       /\ Consistency(file) = (IF SwapRuns = 1 THEN 0 ELSE 10000)
       /\ \A d \in DOMAIN ByDimension(file) : \A side \in Sides :
            ByDimension(file)[d][side] = SwapRuns * Cardinality(Wins(file, side))

\* The statistics of a verdict file are fair to the models and to each other.
StatisticsAreFair == SidesAlike /\ PositionDecidesNothing /\ UnanimousAgree

\* A vote for the regional model never costs it a prompt on the pages, nor a
\* better grade, and an error changes nothing there.
VoteNeverHurts ==
    [][file' # file =>
         LET added == file'[Len(file')]
             rate  == WinRate(file, "regional")
             rate2 == WinRate(file', "regional")
         IN
         /\ added.winner_model = "regional" =>
              /\ Wins(file, "regional") \subseteq Wins(file', "regional")
              /\ rate # None => rate2 >= rate /\ (ComputeGrade(rate) = "A" => ComputeGrade(rate2) = "A")
         /\ added.error => Aggregated(file') = Aggregated(file)]_reportVars

=============================================================================
