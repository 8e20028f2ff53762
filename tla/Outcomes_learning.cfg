\* The feedback half alone: what a tenant's recompute learns.
SPECIFICATION Spec
CONSTANTS
    a = a
    b = b
    t = "t"
    u = "u"
    k = k
    None = None
    Clients = {a}
    Briefs <- BriefsOne
    Feedbacks <- FewReports
    Remarks = {}
    Submissions = {}
    Reviewers = {}
    Resolutions = {}
    MaxCalls = 2
    MaxCrashes = 0
CHECK_DEADLOCK FALSE
INVARIANT LearnsFromFeedback
