\* Every world of every slice: one call each, or two with two outside events.
SPECIFICATION Spec
CONSTANTS
    t = t
    u = u
    None = None
    MemoryLimit = 3
    DiffLimit = 2
    MinItems = 3
    Threshold = 750
    WalkBudget = 6
    HopDepth = 2
    MaxAnchors = 2
    FindingCap <- Caps
    MaxItems = 4
    CharBudget = 50
    TokenBudget = 10
    Answers <- AnswersByName
    Worlds <- AllWorlds
    Rules <- RuleSet
    MaxConstraints = 4
CHECK_DEADLOCK FALSE
INVARIANTS
    TypeOK
    ShowsConstraintsInForce
    OneDecisionPerBrief
    NothingGetsLost
    PromptIsFull
    SevereFindingsShown
    WalkFindsWhatIsNear
    NoForeignRows
