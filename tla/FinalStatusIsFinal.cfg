SPECIFICATION Spec
CONSTANTS
    Subs = {s1,s2}
    MsgIds = {m1, m2, m3}
    Verdicts = {"OK"}
    MaxRetry = 1
    MaxInflight = 1
    Budget <- BudgetNone
    None = None
PROPERTIES
    FinalStatusIsFinal
CHECK_DEADLOCK FALSE
