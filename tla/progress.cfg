\* Calls end, if the process that makes them goes on running; fetches of two rows.
SPECIFICATION FairSpec
CONSTANTS
    Procs = {p1, p2}
    Person = Person
    Types = {Person}
    Vals = {a}
    BadText = BadText
    Records <- OneType
    Ids = {1}
    NullRow = NullRow
    IntHalf = 8
    MaxBatch = 1
    MaxId = 1
    MaxBusy = 1
INVARIANT
    FetchReadsOneState
PROPERTIES
    CallsAdvance
    FetchComplete
    WritesEnd
    FetchEndsIfUnlocked
