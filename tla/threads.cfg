\* Two threads, one record type.
SPECIFICATION Spec
CONSTANTS
    Threads = {main, worker}
    Types = {Person}
    Vals = {Mary}
    Records <- OneType
    Scripts <- Texts
    Ids = {1}
    Person = Person
    Mary = Mary
    BadText = BadText
    NoThread = NoThread
    NullRow = NullRow
    IntHalf = 8
    MaxBatch = 2
    MaxBusy = 1
    MaxId = 2
SYMMETRY Symmetry
INVARIANTS
    TypeOK
    LocksAreUsed
    TablesExist
PROPERTIES
    AppliesWhole
    FetchMissesNothing
\* A process ends up idle when both connections are lost (bound of Initialize).
CHECK_DEADLOCK FALSE
