SPECIFICATION Spec
CONSTANTS
    Clients = {c1, c2}
    Factories = {f1, f2}
    NoOwner = NoOwner
    Handlers <- NoCalls
    Disciplined = FALSE
SYMMETRY Symmetry
INVARIANTS
    TypeOK
    RuntimeWhole
    TeardownOrder
    CallsAreServed
PROPERTIES
    ImplementsLifecycle
