\* flush_port / flush_component may fail; a failed request must not change the registry.
CONSTANTS
    n1 = n1
    n2 = n2
    none = none
    r0 = r0
    r1 = r1
    NumLcores = 3
    SlaveLcores = {1, 2}
    CompIds = {0, 1}
    Names <- MCNames
    NoName = none
    Ports <- MCPorts
    MaxEthPorts = 2
    TypeTokens = {"mirror"}
    ResponseMayFail = FALSE
    FlushMayFail = TRUE
SPECIFICATION Spec
SYMMETRY MCSymmetry
\* "exit" ends the command loop and the process.
CHECK_DEADLOCK FALSE
PROPERTY RollbackOnFailure
