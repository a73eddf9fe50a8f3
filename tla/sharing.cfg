\* Two versions of a program on one file: every operation, every interleaving.
SPECIFICATION Spec
CONSTANTS
    Procs = {Old, New}
    Old = Old
    New = New
    Person = Person
    Pet = Pet
    Types = {Person, Pet}
    Vals = {a, b}
    BadText = BadText
    Records <- TwoVersions
    Ids = {1}
    NullRow = NullRow
    IntHalf = 8
    MaxBatch = 1
    MaxId = 0
    MaxBusy = 1
INVARIANTS
    TypeOK
    OneWriter
    HoldsOnlyWhatItNeeds
    UncommittedIsEffect
    FetchReadsOneState
    TablesExist
PROPERTIES
    FetchComplete
    FrozenWhileRefused
    ImplementsStore
