---------------------------- MODULE RingLatency ----------------------------
(***************************************************************************)
(* Ring latency statistics of one ring port (vf/common/ringlatencystats.c *)
(* and the burst wrappers of mirror/spp_port.c that call it).             *)
(*                                                                         *)
(* The sending lcore's spp_eth_tx_burst() runs add_time_stamp() over the  *)
(* burst: per packet it reads the TSC, adds the time since the previous   *)
(* packet to timer_tsc and, once timer_tsc reaches g_samp_intvl, writes   *)
(* the TSC into mbuf::timestamp and clears timer_tsc.  Only then is the   *)
(* burst offered to the ring, which may take fewer packets than it was    *)
(* given; the rest are dropped by the caller.  The receiving lcore's      *)
(* spp_eth_rx_burst() runs calculate_latency() over what it dequeued:     *)
(* every packet with a non-zero timestamp adds one to the slot of its     *)
(* latency in ns, the last slot collecting everything beyond.             *)
(*                                                                         *)
(* Mbufs are recycled through the pool, and nothing clears               *)
(* mbuf::timestamp: a packet may enter add_time_stamp() still carrying a  *)
(* timestamp written on an earlier pass.  Both lcores read one            *)
(* synchronised, monotonic TSC, the variable tsc.                         *)
(***************************************************************************)
EXTENDS Integers, Sequences, SequencesExt

CONSTANTS SampIntvlNs,    \* samp_intvl given to spp_ringlatencystats_init()
          CyclesPerNs,    \* cycles_per_ns(): timer Hz / 1E9, truncated
          SlotCount,      \* SPP_RINGLATENCYSTATS_STATS_SLOT_COUNT
          RingSize,       \* capacity of the ring
          Burst,          \* largest burst handed to a wrapper
          MaxTsc,         \* bound on the TSC
          MaxSends        \* bound on the packets offered to the ring

ASSUME CyclesPerNs >= 1 /\ SlotCount >= 2

VARIABLES tsc,        \* rte_rdtsc()
          timer_tsc,  \* stats_info->timer_tsc
          prev_tsc,   \* stats_info->prev_tsc
          ring,       \* timestamps of the mbufs queued in the ring
          slot,       \* stats_info->stats.slot
          sends       \* history: every packet add_time_stamp() saw

vars == <<tsc, timer_tsc, prev_tsc, ring, slot, sends>>

(* g_samp_intvl, set once by spp_ringlatencystats_init().                  *)
g_samp_intvl == SampIntvlNs * CyclesPerNs

(* rte_zmalloc() leaves every counter and time at zero.                     *)
Init ==
    /\ tsc = 0
    /\ timer_tsc = 0
    /\ prev_tsc = 0
    /\ ring = <<>>
    /\ slot = [k \in 0 .. SlotCount - 1 |-> 0]
    /\ sends = <<>>

Tick ==
    /\ tsc < MaxTsc
    /\ tsc' = tsc + 1
    /\ UNCHANGED <<timer_tsc, prev_tsc, ring, slot, sends>>

AddOneNoReset(st, p) ==
    LET timer == st.timer + (p.at - st.prev)
        hit   == timer >= g_samp_intvl
    IN  [timer |-> timer, prev |-> p.at,
         out   |-> Append(st.out, IF hit THEN p.at ELSE p.ts),
         hits  |-> Append(st.hits, hit)]

(* One pass of the loop of add_time_stamp(): st holds timer_tsc, prev_tsc  *)
(* and the timestamps written so far; p is the packet, read at TSC p.at    *)
(* and arriving with timestamp p.ts.                                        *)
AddOne(st, p) ==
    LET timer == st.timer + (p.at - st.prev)
        hit   == timer >= g_samp_intvl
    IN  [timer |-> IF hit THEN 0 ELSE timer,
         prev  |-> p.at,
         out   |-> Append(st.out, IF hit THEN p.at ELSE p.ts),
         hits  |-> Append(st.hits, hit)]

spp_ringlatencystats_add_time_stamp(pkts) ==
    FoldLeft(AddOne, [timer |-> timer_tsc, prev |-> prev_tsc,
                      out |-> <<>>, hits |-> <<>>], pkts)

(* A timestamp an mbuf may carry into the wrapper: none, or one written on *)
(* an earlier pass of the same mbuf.                                        *)
IncomingStamps == {0} \cup {sends[i].at : i \in {j \in DOMAIN sends : sends[j].stamped}}

EnqueuedAll(n) == n

(* How many of n mbufs rte_eth_tx_burst() puts on the ring: what fits.     *)
Enqueued(n) == IF RingSize - Len(ring) < n THEN RingSize - Len(ring) ELSE n

(* spp_eth_tx_burst(): the loop reads the TSC once per packet, so the     *)
(* packets' times never decrease and the clock ends at the last of them;   *)
(* rte_eth_tx_burst() then enqueues what fits and the rest are dropped.    *)
TxBurst ==
    \E n \in 1 .. Burst, last \in tsc .. MaxTsc :
      \E at \in [1 .. n -> tsc .. last], ts \in [1 .. n -> IncomingStamps] :
        LET pkts == [i \in 1 .. n |-> [at |-> at[i], ts |-> ts[i]]]
            r    == spp_ringlatencystats_add_time_stamp(pkts)
            sent == Enqueued(n)
        IN  /\ Len(sends) + n <= MaxSends
            /\ at[n] = last
            /\ \A i \in 1 .. n - 1 : at[i] <= at[i + 1]
            /\ tsc' = last
            /\ timer_tsc' = r.timer
            /\ prev_tsc' = r.prev
            /\ ring' = ring \o SubSeq(r.out, 1, sent)
            /\ sends' = sends \o [i \in 1 .. n |-> [at |-> at[i], stamped |-> r.hits[i]]]
            /\ UNCHANGED slot

(* The slot a latency of lat ns is counted in.                             *)
LatencySlot(lat) == IF lat < SlotCount - 1 THEN lat ELSE SlotCount - 1

(* calculate_latency(): one TSC read for the whole burst; an unstamped     *)
(* packet is skipped, a stamped one counted in the slot of its latency.    *)
(* CountIn is how many of the packets land in slot k.                      *)
CountIn(now, pkts, k) ==
    Len(SelectSeq(pkts, LAMBDA t : t # 0 /\ LatencySlot((now - t) \div CyclesPerNs) = k))

(* spp_eth_rx_burst(): a burst of at least one packet off the ring, then   *)
(* its latencies counted.                                                  *)
RxBurst ==
    \E k \in 1 .. Burst :
      LET pkts == SubSeq(ring, 1, k)
      IN  /\ k <= Len(ring)
          /\ ring' = SubSeq(ring, k + 1, Len(ring))
          /\ slot' = [j \in DOMAIN slot |-> slot[j] + CountIn(tsc, pkts, j)]
          /\ UNCHANGED <<tsc, timer_tsc, prev_tsc, sends>>

Next == Tick \/ TxBurst \/ RxBurst

Spec == Init /\ [][Next]_vars

----------------------------------------------------------------------------
(* Every variable keeps its type; the ring never holds more than RingSize  *)
(* mbufs, whatever rte_eth_tx_burst() is offered.                          *)
TypeOK ==
    /\ tsc \in 0 .. MaxTsc
    /\ timer_tsc \in 0 .. MaxTsc
    /\ prev_tsc \in 0 .. tsc
    /\ ring \in Seq(0 .. MaxTsc) /\ Len(ring) <= RingSize
    /\ slot \in [0 .. SlotCount - 1 -> Nat]

(* The time of the last stamp among the first i - 1 packets add_time_stamp *)
(* saw, 0 when there is none.                                              *)
LastStampBefore(i) ==
    LET js == {j \in 1 .. i - 1 : sends[j].stamped}
    IN  IF js = {} THEN 0 ELSE sends[CHOOSE j \in js : \A m \in js : m <= j].at

(* Sampling (add_time_stamp): across bursts, partial enqueues and drops,   *)
(* a packet is stamped exactly when at least g_samp_intvl cycles have      *)
(* passed since the last stamped packet, or since TSC 0 before the first.  *)
(* This is what timer_tsc, advanced by per-packet differences and cleared  *)
(* on each stamp, is meant to count.                                        *)
SamplingExact ==
    \A i \in DOMAIN sends :
        sends[i].stamped <=> sends[i].at - LastStampBefore(i) >= g_samp_intvl

=============================================================================
