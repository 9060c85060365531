\* As MCMirRunner.cfg: abilities left behind by component stop.
CONSTANTS
    n1 = n1
    n2 = n2
    none = none
    r0 = r0
    r1 = r1
    CompIds = {0}
    Names = {n1}
    NoName = none
    Ports = {r0}
    Vids = {10}
    PortAblMax = 2
    MaxEthPorts = 4
    Forms = {"plain", "del_vlantag", "add_vlantag"}
SPECIFICATION Spec
SYMMETRY MCSymmetry
INVARIANT AbilityOwned
