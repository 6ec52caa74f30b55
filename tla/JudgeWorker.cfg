SPECIFICATION Spec
CONSTANTS
    a = a
    b = b
    r1 = r1
    r2 = r2
    r3 = r3
    input = input
    output = output
    Requests = {r1, r2, r3}
    Subs = {a, b}
    SubOf <- Owner
    Program <- Programs
    Tests <- OneOrTwo
    Data = {input, output}
    Nothing = Nothing
    Garbage = Garbage
    MaxRequests = 2
    MaxFaults = 1
INVARIANTS TypeOK VerdictIsDeserved AcceptanceIsEarned OnlyVerifiedData
PROPERTY RequestsReturn
CHECK_DEADLOCK FALSE
