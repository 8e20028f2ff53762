\* Two commits named of up to three defective ones, rebuilds at any moment.
SPECIFICATION Spec
CONSTANTS
    None = None
    Commits <- FourCommits
    Watched = {"f"}
    PredictLimit = 2
INVARIANTS
    TypeOK
    PredictionNamesItsCommits
