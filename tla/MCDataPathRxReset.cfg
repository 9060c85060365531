\* As MCDataPath.cfg: does eth_stats_reset on the single-consumer rx ring
\* always clear rx_pkts?
CONSTANTS
    SampIntvlNs = 2
    CyclesPerNs = 1
    SlotCount = 2
    RingSize = 2
    Burst = 2
    MaxTsc = 4
    MaxSends = 3
SPECIFICATION Spec
INVARIANT RxStatsExact
