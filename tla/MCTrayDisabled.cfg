CONSTANTS
    g1 = g1
    g2 = g2
    g3 = g3
    o1 = o1
    Logins = {g1, g2}
    Logouts = {o1}
    NoOne = NoOne
    MaxVersion = 1
SPECIFICATION Spec
INVARIANTS DisabledDuringFlow
