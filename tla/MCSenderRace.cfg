SPECIFICATION Spec
CONSTANTS
    Callers = {t1, t2}
    MaxLayers = 1
    Settings = {low}
    Unset = unset
    Refused = refused
    Nobody = Nobody
PROPERTIES
    RefusalIsAboutValues
