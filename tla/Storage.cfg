SPECIFICATION Spec
INVARIANTS
    DataIsWhole
    ReportsAreTrue
PROPERTIES
    NothingIsDropped
