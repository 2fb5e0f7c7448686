SPECIFICATION Spec
CONSTANTS
    Updaters = {u1, u2}
    Keys = {1, 2, 3}
    Namespaces = {{1, 2}, {3}}
    Times = {1, 2}
    Limit = 2
    None = None
    MaxVersion = 3
SYMMETRY Symmetry
PROPERTIES
    UpdatesKeepOtherRecords
