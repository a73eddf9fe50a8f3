\* A fetch while another process commits.
SPECIFICATION Spec
CONSTANTS
    Procs = {p1, p2}
    Person = Person
    Types = {Person}
    Vals = {a, b}
    BadText = BadText
    Records <- OneType
    Ids = {1}
    NullRow = NullRow
    IntHalf = 8
    MaxBatch = 1
    MaxId = 1
    MaxBusy = 1
INVARIANTS
    FetchedRowsAreRecords
