SPECIFICATION Spec
CONSTANTS
    k1 = k1
    k2 = k2
    c1 = c1
    c2 = c2
    Keys = {k1}
    Calls = {c1, c2}
    LastId = 3
    Backends = {"postgres"}
PROPERTIES
    NeverMovesBack
