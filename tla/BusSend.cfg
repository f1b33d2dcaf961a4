SPECIFICATION FairSpec
CONSTANTS
    Senders = {s1, s2}
    Timeouts <- TimeoutValues
INVARIANTS
    TypeOK
    OutcomeIsTrue
    SleepIsBounded
    RetryAccount
PROPERTIES
    SendEnds
