SPECIFICATION SmallSpec
CONSTANTS
    Ids = {p1, p2, p3}
    First = p1
    Titles = {t1}
    Edits = {e1, e2}
    Readers = {r1}
    Subs = {s1}
    Nothing = nothing
    MaxTime = 2
    MaxFaults = 1
INVARIANTS TypeOK NoAddCollides StaleOnlyByRace SubmissionsBelong
PROPERTIES WindowOnlyGrows
CONSTRAINT Apart
SYMMETRY Symmetry
CHECK_DEADLOCK FALSE
