\* Two processes, three calls of any kind, one of which may die.
SPECIFICATION FairSpec
CONSTANTS
    a = a
    b = b
    t = "t"
    u = "u"
    k = k
    None = None
    Clients = {a, b}
    Briefs <- BriefsOne
    Feedbacks <- FeedbackSet
    Remarks <- RemarkSet
    Submissions <- SubmissionSet
    Reviewers = {"t", None}
    Resolutions <- ResolutionSet
    MaxCalls = 3
    MaxCrashes = 1
CHECK_DEADLOCK FALSE
INVARIANTS
    TypeOK
    OneOutcomePerKey
    RaisesOnlyAgainstRival
    RejectedAreQueued
    LastReviewStands
    ScoredBySets
PROPERTIES
    ImplementsLog
    CallsEnd
