SPECIFICATION Spec
CONSTANTS
    alice = alice
    bob = bob
    p1 = p1
    p2 = p2
    s1 = s1
    s2 = s2
    s3 = s3
    Users = {alice, bob}
    Problems = {p1, p2}
    Subs = {s1, s2}
    Dispatcher = dispatcher
    UserOf <- Authors
    ProblemOf <- SameProblem
    CreatedAt <- Times
    StartAt = 1
    EndAt = 3
    Weight = 10
    MaxFaults = 1
INVARIANTS TypeOK StatsCurrent NothingInvented
PROPERTY StalenessEnds
CHECK_DEADLOCK FALSE
