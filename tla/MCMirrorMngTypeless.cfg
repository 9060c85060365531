\* 4-token "component start" (type omitted) is accepted by the parser.
CONSTANTS
    n1 = n1
    n2 = n2
    none = none
    r0 = r0
    r1 = r1
    NumLcores = 3
    SlaveLcores = {1, 2}
    CompIds = {0, 1}
    Names <- MCNames
    NoName = none
    Ports <- MCPorts
    MaxEthPorts = 2
    TypeTokens = {"mirror", "omitted"}
    ResponseMayFail = FALSE
    FlushMayFail = FALSE
SPECIFICATION Spec
SYMMETRY MCSymmetry
\* "exit" ends the command loop and the process.
CHECK_DEADLOCK FALSE
INVARIANT PublishedDisjoint
