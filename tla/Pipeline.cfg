SPECIFICATION Spec
CONSTANTS
    Subs = {s1, s2}
    MsgIds = {m1, m2, m3, m4}
    Verdicts = {"OK"}
    MaxRetry = 1
    MaxInflight = 2
    Budget <- BudgetCopies
    None = None
SYMMETRY Symmetry
INVARIANTS
    TypeOK
    NoTaskLost
    NoDeliveryLeaks
    DeadLettersAreEarned
    DeadLetteredIsSettled
PROPERTIES
    OnlySubmitReopens
    VerdictChangeNeedsCopy
CHECK_DEADLOCK FALSE
