\* As MCMirRunner.cfg: "port del" names a component that does not have the
\* port, and the flush it triggers does not republish the port.
CONSTANTS
    n1 = n1
    n2 = n2
    none = none
    r0 = r0
    r1 = r1
    CompIds = {0, 1}
    Names <- MCNames
    NoName = none
    Ports = {r0}
    Vids = {10}
    PortAblMax = 2
    MaxEthPorts = 4
    Forms = {"plain", "del_vlantag", "add_vlantag"}
SPECIFICATION Spec
SYMMETRY MCSymmetry
INVARIANT AbilityPublished
