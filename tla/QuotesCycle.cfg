SPECIFICATION QuoteSpec
CONSTANTS
    Quotes <- CyclingQuotes
    Searches = {}
    One = 1000
    Precision = 100
    Token = 300
    Nudge = 100
    MaxRounds = 100
    MaxDoublings = 3
    Samples = 9
    Noise = 3
    Slack = 6
INVARIANTS UnconvergedIsError
