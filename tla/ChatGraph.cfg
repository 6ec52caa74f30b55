SPECIFICATION Spec
CONSTANTS
    PlannerTimeout = 3
    PlannerHeartbeat = 2
    AnswerTotal = 8
    AnswerIdle = 3
    AnswerHeartbeat = 2
    FallbackTimeout = 3
    OjConnect = 1
    OjRead = 2
    LlmTimeout = 2
    JudgeConnect = 1
    JudgeRead = 1
    MaxCalls = 2
    MaxDeltas = 2
    MaxPieces = 2
INVARIANTS TypeOK AnswersInTime StoredAnswerIsFaithful
