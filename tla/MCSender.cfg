SPECIFICATION Spec
CONSTANTS
    Callers = {t1, t2}
    MaxLayers = 2
    Settings = {low}
    Unset = unset
    Refused = refused
    Nobody = Nobody
SYMMETRY Symmetry
INVARIANTS
    StringsAccountedFor
PROPERTIES
    GetIsWhole
    SetIsExact
    RefusalExplained
