-------------------------- MODULE MCMetricReport --------------------------
(* The instance of MetricReport. *)
EXTENDS MetricReport, TLC

\* A language with all tables, one without back-translation model, one unknown.
Known == [iso |-> TRUE, markers |-> TRUE, marian |-> "covered"]
SomeLanguages ==
    {Known,
     [iso |-> TRUE, markers |-> TRUE, marian |-> "skipped"],
     [iso |-> FALSE, markers |-> FALSE, marian |-> "none"]}

\* An instruction output that no constraint is about; 9 is no limit.
Plain == [category |-> "language_compliance", text |-> "target", sentences |-> 1, words |-> 2,
          max_sentences |-> 9, min_sentences |-> 0, max_words |-> 9,
          format |-> "none", matches |-> FALSE, on_topic |-> TRUE, tone |-> "none", markers |-> {}]

Blank(o) == [o EXCEPT !.text = "blank", !.sentences = 0, !.words = 0,
                      !.matches = FALSE, !.on_topic = FALSE, !.markers = {}]

Adherence == {[Plain EXCEPT !.text = t] : t \in {"target", "english", "undetected"}}
Lengths   == {[Plain EXCEPT !.category = "length_constraint", !.sentences = n, !.words = 2 * n,
                            !.max_sentences = l[1], !.min_sentences = l[2], !.max_words = l[3]] :
                n \in 1..2, l \in {<<1, 0, 9>>, <<9, 2, 9>>, <<9, 0, 2>>}}
Formats   == {[Plain EXCEPT !.category = "structured_output", !.format = f, !.matches = x] :
                f \in {"numbered_list", "qa_restatement"}, x \in BOOLEAN}
Topics    == {[Plain EXCEPT !.category = "topic_boundary", !.on_topic = x] : x \in BOOLEAN}
Tones     == {[Plain EXCEPT !.category = "tone_style", !.tone = t, !.markers = h] :
                t \in {"formal", "friendly", "direct", "neutral"}, h \in SUBSET {"formal", "informal"}}

\* Number outputs: a sample of each rule as the dataset has them (the type lists
\* are those of every sample, a mixed sample has the number type "mixed"), with
\* every answer of at most two tokens.
DigitTypes == {"postal_code", "phone_number", "otp_pin"}
WordTypes  == {"currency", "decimal_measurement", "percentage", "quantity", "date"}
Sample(rule, type, numbers) ==
    [rule |-> rule, number_type |-> type, numbers |-> numbers,
     digit_by_digit_types |-> DigitTypes, word_form_types |-> WordTypes]

NumberSamples ==
    {Sample("digit_by_digit", "postal_code", {<<"1", "1">>}),
     Sample("word_form", "currency", {<<"1", "2">>}),
     Sample("mixed", "mixed", {<<"1">>, <<"2">>})}

SomeTokens  == {"1", "2", "rupee", "one"}
SomeDigits  == {"1", "2"}
SomeCurrency == {"rupee"}
SomeEnglish == {"one"}
Answers == UNION {[1..n -> SomeTokens] : n \in 0..2}

Numbers == {[Plain EXCEPT !.category = "number_verbalization",
                          !.text = IF answer = <<>> THEN "blank" ELSE "target"]
              @@ sample @@ [output |-> answer] : sample \in NumberSamples, answer \in Answers}

Written == UNION {Adherence, Lengths, Formats, Topics, Tones}

Instructions == Written \cup {Blank(o) : o \in Written} \cup Numbers

Translations == [direction : Directions, text : {"blank", "target"}]

AllLetters == {"A", "B", "tie", "error"}

Setting(t, lang, failing, outputs, verdicts) ==
    [task |-> t, language |-> lang, fails |-> failing, outputs |-> outputs, verdicts |-> verdicts,
     samples |-> IF t = "translation" THEN Translations ELSE Instructions]

\* Metrics that call a library which may raise.
Libraries == {"bleu", "chrf", "bertscore", "comet", "back_translation"}
Failing   == {{}} \cup {{m} : m \in Libraries}

\* The embedding fails, or sentence-transformers is not installed.
TopicFails == {{}, {"topic_boundary"}, {"sentence_transformers"}}

\* Two outputs of either task, over all languages and failures; every verdict of
\* two prompts; and both files at once.
SomeSettings ==
    {Setting("translation", l, f, 2, 0) : l \in SomeLanguages, f \in Failing}
    \cup {Setting("instructions", l, f, 2, 0) : l \in SomeLanguages, f \in TopicFails}
    \cup {Setting("translation", l, {}, 1, 2) : l \in SomeLanguages}
    \cup {Setting("translation", Known, {}, 0, 8)}

=============================================================================
