\* Two components that may share one port, two ability slots per port,
\* port add forms of 5, 6 and 7 tokens (allow_override never set).
CONSTANTS
    n1 = n1
    n2 = n2
    none = none
    r0 = r0
    r1 = r1
    CompIds = {0, 1}
    Names <- MCNames
    NoName = none
    Ports = {r0}
    Vids = {10}
    PortAblMax = 2
    MaxEthPorts = 4
    Forms = {"plain", "del_vlantag", "add_vlantag"}
SPECIFICATION Spec
SYMMETRY MCSymmetry
INVARIANTS TypeOK NoLiveWrite
PROPERTY AbilityAtomicSpec
