SPECIFICATION QuoteSpec
CONSTANTS
    Quotes <- MCQuotes
    Searches <- MCSearches
    One = 1000
    Precision = 100
    Token = 300
    Nudge = 100
    MaxRounds = 12
    MaxDoublings = 3
    Samples = 9
    Noise = 3
    Slack = 6
INVARIANTS QuoteIsExact NeverDrains NoPathPays IntervalIsSound
PROPERTIES Descends
