\* Both servers count, Iran resets, writers and receivers race,
\* the foreign clock is ahead, requests are lost, late, repeated and refused.
CONSTANTS
    Sessions = {"s1", "s2"}
    Home <- OneEach
    Skew = 1
    FutureSkew = 1
    MaxValue = 3
    MaxEvents = 3
    MaxRetries = 1
SPECIFICATION CounterFairSpec
INVARIANTS RowMatchesLedger RowsAgree NeverRefused
PROPERTIES EventuallyShared
