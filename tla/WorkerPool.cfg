CONSTANTS
    N = 3
    Calls = {c1, c2}
    Cooldown = 2
    ReadTimeout = 3
SPECIFICATION Spec
INVARIANTS TypeOK TurnsAreShared
PROPERTIES GivesUpHonestly CallsReturn
