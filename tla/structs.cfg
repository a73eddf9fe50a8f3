\* Two units, two structs of several members of any classes.
SPECIFICATION Spec
CONSTANTS
    Units = {u1, u2}
    u1 = u1
    u2 = u2
    Person = Person
    Pet = Pet
    Types = {Person, Pet}
    Headers <- TwoUnits
    Plain = {Foo}
    Structs <- SmallStructs
INVARIANTS
    TypeOK
    RegisteredWhole
    PredicateOnMember
