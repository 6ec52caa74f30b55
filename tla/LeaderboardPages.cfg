SPECIFICATION Spec
CONSTANTS
    alice = alice
    bob = bob
    p1 = p1
    p2 = p2
    s1 = s1
    s2 = s2
    s3 = s3
    Users = {alice, bob}
    Problems = {p1, p2}
    Subs = {s1, s3}
    Dispatcher = dispatcher
    UserOf <- Authors
    ProblemOf <- SameProblem
    CreatedAt <- Times
    StartAt = 1
    EndAt = 4
    Weight = 10
    MaxFaults = 1
INVARIANT BoardIsWhole
CHECK_DEADLOCK FALSE
