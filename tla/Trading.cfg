SPECIFICATION MCSpec
CONSTANTS
    Nobody = Nobody
    Workers = {"w1", "w2"}
    N = 3
    Trailing = {2}
    Below = {3}
    Exits = {1, 2}
    Intermediate = {1}
    Level <- Levels
    Percent = 20
    Prices = {4, 6}
    Size <- Sizes
    Held = 2
    TTL = 1
    MaxTime = 1
    MaxVersion = 6
INVARIANTS
    OneShot
    ExitsAreCovered
    FillsAreBooked
PROPERTIES
    NoProposalWhileUncertain
    MarkNeverFalls
    ClosesFlat
