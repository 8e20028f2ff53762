\* One batch of the issue tracker.
SPECIFICATION Spec
CONSTANTS
    None = None
    Commits <- FourCommits
    Watched = {"f"}
    PredictLimit = 2
INVARIANT
    NeverRaises
