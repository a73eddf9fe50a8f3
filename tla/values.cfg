\* Two rows with values of every class, written by two versions of a program.
SPECIFICATION Spec
CONSTANTS
    Programs = {current, older, other}
    current = current
    older = older
    other = other
    Layout <- EveryClass
    Class <- Classes
    Ids = {1, 2}
    Ints <- SomeInts
    Reals <- SomeReals
    Texts <- SomeTexts
    Dates <- SomeDates
    IntHalf = 4
    MicroUnits = 4
    Hours = 2
    Minutes = 3
    Seconds = 4
    Inf = Inf
    Null = Null
    Unset = Unset
    Garbled = Garbled
    NoSql = NoSql
    Beyond <- SqlBeyond
CONSTRAINT BeforeStraying
INVARIANTS
    TypeOK
    ReadAsSaved
    SelectedAsMeant
