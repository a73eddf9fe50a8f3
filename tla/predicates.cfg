\* Up to four comparisons nested in every way.
SPECIFICATION Spec
CONSTANTS
    Conditions = {"a", "b"}
    BadCondition = "bad"
    MaxConditions = 4
    MaxKept = 2
INVARIANTS
    SelectsMeant
