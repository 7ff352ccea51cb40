SPECIFICATION ReportSpec
CONSTANTS
    None = None
    Prompts = {1, 2}
    SwapRuns = 2
    Dims = {1, 2}
    Letters <- AllLetters
    Tokens <- SomeTokens
    Digits <- SomeDigits
    Currency <- SomeCurrency
    EnglishWords <- SomeEnglish
    Settings <- SomeSettings
INVARIANTS NumberMetricsAgree StatisticsAreFair
PROPERTIES OnlyItsOutputs BlankNeverRaises VoteNeverHurts
CHECK_DEADLOCK FALSE
