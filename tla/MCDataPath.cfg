\* A 1 GHz timer (1 cycle per ns) and a 2 ns sampling interval, so some
\* packets are stamped and some are not; two latency slots, the last
\* reached after 1 cycle in flight; rings of two mbufs, bursts of up to
\* two, three packets offered over four TSC ticks: enough for A and B to
\* fill and for a stamp to fall on a packet that A then drops.
CONSTANTS
    SampIntvlNs = 2
    CyclesPerNs = 1
    SlotCount = 2
    RingSize = 2
    Burst = 2
    MaxTsc = 4
    MaxSends = 3
SPECIFICATION Spec
INVARIANTS TypeOK SamplingExact ProbeBindsOneRingEach
