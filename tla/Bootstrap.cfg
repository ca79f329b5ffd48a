SPECIFICATION LiveSpec
CONSTANTS
    Emails = {e1, e2, e3}
    Slugs = {s1, s2}
    Requests = {r1, r2}
    None = None
INVARIANTS
    TypeOK
    CompletedOnce
PROPERTIES
    EverySetupEnds
