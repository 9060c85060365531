\* The parsers over their token sets (constants in MCControl's INSTANCE ...
\* WITH); the mirror handler with flush_port and flush_component free to
\* fail or succeed on every request.
CONSTANTS
    c1 = c1
    c2 = c2
    noname = noname
    p0 = p0
    p1 = p1
SPECIFICATION Spec
SYMMETRY MCSymmetry
INVARIANTS TypeOK  VfRefusesOnlyInvalid VfReadsValidRequests PcapVerdictMatchesGrammar ArgsMatchUsage PublishedDisjoint ComponentPlacement  PortExclusive
