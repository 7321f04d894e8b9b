SPECIFICATION MCSpec
CONSTANTS
    Candidates = {"o"}
    KindOf <- OrderKind
    Keys = {"k1", "k2"}
    Requests = {"a", "b", "c", "d"}
    RequestOf <- Decisions
    MaxCrashes = 1
INVARIANTS
    OneTarget
    AnswersAreTrue
    OneAtATime
PROPERTIES
    ActsOnWhatItRead
