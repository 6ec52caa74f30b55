SPECIFICATION SequentialSpec
CONSTANTS
    Ids = {1, 2}
    Uploads = {u1, u2, u3, u4}
    Imports = {}
    Nothing = nothing
    MaxEdits = 2
    MaxFaults = 0
INVARIANT RenumberingIsSafe
CHECK_DEADLOCK FALSE
