CONSTANTS
    Workspace = Workspace
    Free = Free
    None = None
    c1 = c1
    c2 = c2
    py = py
    Calls <- MCCalls
    Langs <- MCLangs
    LangOf <- MCLangOf
    Sessions <- MCSessions
    MaxChatter = 1
SPECIFICATION Spec
INVARIANTS OneLiveSession SurvivorsWereGivenUp
PROPERTY CallEnds
CHECK_DEADLOCK FALSE
