SPECIFICATION FairSpec
CONSTANTS
    Subs = {s1}
    MsgIds = {m1, m2, m3}
    Verdicts = {"OK"}
    MaxRetry = 1
    MaxInflight = 1
    Budget <- BudgetLive
    None = None
PROPERTIES
    ImplementsContract
CHECK_DEADLOCK FALSE
