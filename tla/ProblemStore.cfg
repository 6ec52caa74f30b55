SPECIFICATION Spec
CONSTANTS
    Ids = {1, 2}
    u1 = u1
    u2 = u2
    i1 = i1
    i2 = i2
    Uploads = {u1, u2}
    Imports = {i1, i2}
    Nothing = nothing
    MaxEdits = 2
    MaxFaults = 1
INVARIANTS TypeOK RowsKeepTheirFiles PairIsNeverMissed FailedImportsLeaveNothing
SYMMETRY Symmetry
CHECK_DEADLOCK FALSE
