---------------------------- MODULE NumberRules ----------------------------
(***************************************************************************)
(* The number verbalization metrics: each counts, among the outputs with   *)
(* the positions I of a batch b, those that it is about, and those of them *)
(* that pass.  A text is a sequence of tokens: digits, punctuation inside  *)
(* numbers, and words.                                                     *)
(***************************************************************************)
EXTENDS Naturals, Sequences, FiniteSets

CONSTANTS
    Tokens,        \* what texts are made of
    Digits,        \* the tokens that \d matches
    Currency,      \* currency words of the language
    EnglishWords   \* English number words

-----------------------------------------------------------------------------
(* Reading a sample and a text                                             *)

\* num in text
Occurs(num, text) ==
    \E i \in 0..Len(text) : i + Len(num) <= Len(text) /\ \A k \in DOMAIN num : text[i + k] = num[k]

Words(text)    == {text[k] : k \in DOMAIN text}
DigitsOf(text) == Words(text) \cap Digits

\* A number of the prompt appears as it was written there.
Raw(o) == \E num \in o.numbers : Occurs(num, o.output)

ShouldBeDigitByDigit(o) == o.rule \in {"digit_by_digit", "mixed"}
ShouldBeWordForm(o)     == o.rule \in {"word_form", "mixed"}

\* Every number sample of the datasets has a rule and numbers with digits.
IsNumberSample(o) ==
    /\ o.rule \in {"digit_by_digit", "word_form", "mixed"}
    /\ o.output \in Seq(Tokens)
    /\ o.numbers # {}
    /\ \A num \in o.numbers : num \in Seq(Tokens) /\ DigitsOf(num) # {}

Tally(counted, correct) == [correct |-> Cardinality(correct), total |-> Cardinality(counted)]

-----------------------------------------------------------------------------
(* The metrics                                                             *)

\* Pass: no number unbroken in the output.
DigitByDigit(b, I) ==
    LET counted == {i \in I : ShouldBeDigitByDigit(b[i])} IN
    Tally(counted, {i \in counted : ~Raw(b[i])})

\* Pass: no number that has digits is in the output as written.
WordForm(b, I) ==
    LET counted  == {i \in I : ShouldBeWordForm(b[i])}
        leaks(o) == \E num \in o.numbers : DigitsOf(num) # {} /\ Occurs(num, o.output)
    IN  Tally(counted, {i \in counted : ~leaks(b[i])})

Places(o) == {k \in DOMAIN o.output : o.output[k] \in Digits}
Leaked(b, I) == UNION {{i} \X Places(b[i]) : i \in I}

\* Digits left in the outputs, by output and place; digit-by-digit samples are
\* skipped.
DigitLeakage(b, I) ==
    LET counted == {i \in I : b[i].rule # "digit_by_digit"} IN
    [count |-> Cardinality(Leaked(b, counted)), total |-> Cardinality(counted)]

\* Mutant: an output without digits passes.
DigitPreservationLenient(b, I) ==
    Tally(I, {i \in I : \A num \in b[i].numbers :
        DigitsOf(b[i].output) = {} \/ DigitsOf(num) \subseteq DigitsOf(b[i].output)})

\* Pass: each digit of the numbers is somewhere among the output's digits.
DigitPreservation(b, I) ==
    Tally(I, {i \in I : \A num \in b[i].numbers : DigitsOf(num) \subseteq DigitsOf(b[i].output)})

\* Samples with "currency" among their word form types; pass: a currency word.
CurrencyUnit(b, I) ==
    LET counted == {i \in I : "currency" \in b[i].word_form_types} IN
    Tally(counted, {i \in counted : Words(b[i].output) \cap Currency # {}})

\* The rule of the sample, or of its number type when the rule is "mixed".
NumberTypeCls(b, I) ==
    LET ruled(o) == \/ o.rule \in {"digit_by_digit", "word_form"}
                    \/ /\ o.rule = "mixed"
                       /\ o.number_type \in o.digit_by_digit_types \cup o.word_form_types
    IN  Tally(I, {i \in I : ruled(b[i]) /\ ~Raw(b[i])})

\* Mixed samples; pass: none of the numbers is in the output as written.
MixedSentence(b, I) ==
    LET counted == {i \in I : b[i].rule = "mixed"} IN
    Tally(counted, {i \in counted : ~Raw(b[i])})

\* Pass: no English number word in the output.
NumberLanguage(b, I) == Tally(I, {i \in I : Words(b[i].output) \cap EnglishWords = {}})

\* currency_unit and mixed_sentence have the score None when they count nothing.
OrNone(none, tally) == IF tally.total = 0 THEN none ELSE tally

\* The key and value that each metric writes.
NumberScore(m, b, I, none) ==
    CASE m = "digit_by_digit"     -> [digit_by_digit_compliance |-> DigitByDigit(b, I)]
      [] m = "word_form"          -> [word_form_compliance |-> WordForm(b, I)]
      [] m = "digit_leakage"      -> [mean_digit_leakage |-> DigitLeakage(b, I)]
      [] m = "digit_preservation" -> [digit_preservation_accuracy |-> DigitPreservation(b, I)]
      [] m = "currency_unit"      -> [currency_unit_accuracy |-> OrNone(none, CurrencyUnit(b, I))]
      [] m = "number_type_cls"    -> [number_type_classification_accuracy |-> NumberTypeCls(b, I)]
      [] m = "mixed_sentence"     -> [mixed_sentence_consistency |-> OrNone(none, MixedSentence(b, I))]
      [] m = "number_language"    -> [language_of_number_words |-> NumberLanguage(b, I)]

=============================================================================
