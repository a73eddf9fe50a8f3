\* Structs with members around their 256th byte.
SPECIFICATION Spec
CONSTANTS
    Units = {u1, u2}
    u1 = u1
    u2 = u2
    Person = Person
    Pet = Pet
    Types = {Person, Pet}
    Headers <- TwoUnits
    Plain = {Foo}
    Structs <- LargeStructs
INVARIANTS
    PredicateOnMember
