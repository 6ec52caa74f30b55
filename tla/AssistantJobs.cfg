SPECIFICATION Spec
CONSTANTS
    c1 = c1
    Jobs = {j1, j2}
    Conversations = {c1}
    ConvOf <- OneConversation
    Earlier = earlier
    j1 = j1
    j2 = j2
    Watched = {j1}
    HistoryRounds = 1
    MaxEvents = 2
    MaxFaults = 1
INVARIANTS TypeOK SeenRoundsAreKnown ReadsInOrder NeverSilent NoAnswerLost
PROPERTY PageEnds
CHECK_DEADLOCK FALSE
