SPECIFICATION Spec
CONSTANTS
    Senders = {s1}
    Timeouts <- TimeoutValues
INVARIANTS
    FailuresAreReported
