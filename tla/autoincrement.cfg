\* One process, vectors of up to two records.
SPECIFICATION Spec
CONSTANTS
    Procs = {p1}
    Person = Person
    Types = {Person}
    Vals = {a}
    BadText = BadText
    Records <- OneType
    Ids <- SignedIds
    NullRow = NullRow
    IntHalf = 8
    MaxBatch = 2
    MaxId = 3
    MaxBusy = 1
INVARIANTS
    AutoIdsNext
PROPERTIES
    ImplementsStore
