SPECIFICATION Spec
CONSTANTS
    Connections = {c1, c2}
    Requests = {r1}
    Nobody = Nobody
INVARIANT SelectorBelongs
CHECK_DEADLOCK FALSE
