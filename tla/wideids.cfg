\* As autoincrement, with ids that do not fit the narrower int.
SPECIFICATION Spec
CONSTANTS
    Procs = {p1}
    Person = Person
    Types = {Person}
    Vals = {a}
    BadText = BadText
    Records <- OneType
    Ids <- SignedIds
    NullRow = NullRow
    IntHalf = 2
    MaxBatch = 2
    MaxId = 3
    MaxBusy = 1
INVARIANTS
    AutoIdsNext
