----------------------------- MODULE MCDataPath -----------------------------
(***************************************************************************)
(* A data path through a pipe port.  spp_mirror's lcore sends on ring     *)
(* port eth_ring0 (A) through spp_eth_tx_burst(), which stamps samples    *)
(* for the ring latency statistics (RingLatency, instance LA).  A pipe    *)
(* device probed as "rx=ring:0,tx=ring:1" (PipePmd) is polled by another  *)
(* lcore that receives from A and sends into eth_ring1 (B), freeing what  *)
(* B refuses.  spp_mirror receives from B through spp_eth_rx_burst(),     *)
(* which counts the latency of every stamped mbuf in B's statistics        *)
(* (instance LB, whose rx burst leaves LA's sampling state alone; LA's     *)
(* histogram is never written).  All                                        *)
(* lcores read one TSC.  Ring A is created single-consumer (the pipe is   *)
(* its only reader), ring B multi-producer.                                *)
(***************************************************************************)
EXTENDS Integers, Sequences, SequencesExt

CONSTANTS SampIntvlNs, CyclesPerNs, SlotCount, RingSize, Burst, MaxTsc, MaxSends

VARIABLES tsc, timer_tsc, prev_tsc, ringA, sendsA, slotA,
          ringB, slotB,
          dev, rxq, txq, link, cnt, pend, rst, held, since

latVars == <<tsc, timer_tsc, prev_tsc, sendsA, slotA, slotB>>
pipeVars == <<dev, rxq, txq, link, cnt, pend, rst, held, since>>
vars == <<latVars, pipeVars, ringA, ringB>>

LA == INSTANCE RingLatency WITH ring <- ringA, slot <- slotA, sends <- sendsA

LB == INSTANCE RingLatency WITH ring <- ringB, slot <- slotB, sends <- sendsA

(* What validate_ring_name() reads from each argument value: "ring:" as   *)
(* a prefix, digits to the end, and (unsigned)strtoul(); 2^32 wraps to 0.  *)
MCRLex ==
    [v \in {"ring:0", "ring:1", "ring:9", "ring:4294967296", "ring:1x", "ring:",
            "vhost:0"} |->
        [prefix |-> v # "vhost:0",
         digits |-> v \notin {"ring:1x", "ring:"},
         num    |-> CASE v = "ring:1" -> 1 [] v = "ring:9" -> 9 [] OTHER -> 0]]

KV(k, v) == [key |-> k, val |-> v]

(* Argument lists of the probe: the usual one, tx first with an rx number  *)
(* past 32 bits, two rx rings, no tx ring, a ring that does not exist, a  *)
(* malformed number, and a key rte_kvargs_parse() refuses.                 *)
MCArgLists ==
    { <<KV("rx", "ring:0"), KV("tx", "ring:1")>>,
      <<KV("tx", "ring:1"), KV("rx", "ring:4294967296")>>,
      <<KV("rx", "ring:0"), KV("rx", "ring:0"), KV("tx", "ring:1")>>,
      <<KV("rx", "ring:0")>>,
      <<KV("rx", "ring:9"), KV("tx", "ring:1")>>,
      <<KV("rx", "ring:1x"), KV("tx", "ring:")>>,
      <<KV("ring", "ring:0"), KV("tx", "vhost:0")>> }

Pipe == INSTANCE PipePmd
          WITH Rings <- {0, 1}, RLex <- MCRLex, ArgLists <- MCArgLists,
               RxFlags <- {"SC_DEQ"}, TxFlags <- {},
               rxRing <- ringA, txRing <- ringB

(* Whatever list a probe parses binds rx to A (0) and tx to B (1).         *)
ASSUME \A a \in MCArgLists :
         LET p == FoldLeft(Pipe!ParseRings, [rx |-> <<>>, tx |-> <<>>, fail |-> FALSE], a)
         IN  ~p.fail => (\A i \in DOMAIN p.rx : p.rx[i] = 0) /\ (\A i \in DOMAIN p.tx : p.tx[i] = 1)

Init ==
    /\ LA!Init /\ slotB = slotA
    /\ Pipe!Init /\ ringB = <<>>

(* spp_mirror's tx burst on A, the mbufs A refused dropped.                *)
MirrorTx ==
    /\ LA!TxBurst
    /\ UNCHANGED <<pipeVars, ringB, slotB>>

(* spp_mirror's rx burst on B with its latencies.                          *)
MirrorRx ==
    /\ LB!RxBurst
    /\ UNCHANGED <<pipeVars, ringA, slotA>>

Next ==
    \/ LA!Tick /\ UNCHANGED <<pipeVars, ringB, slotB>>
    \/ MirrorTx
    \/ MirrorRx
    \/ Pipe!Next /\ UNCHANGED latVars

Spec == Init /\ [][Next]_vars

----------------------------------------------------------------------------
(* Every variable of the three parts keeps its type, and neither ring     *)
(* ever holds more than RingSize mbufs.                                     *)
TypeOK ==
    /\ LA!TypeOK /\ LB!TypeOK /\ Pipe!TypeOK

(* add_time_stamp() on A samples exactly every g_samp_intvl cycles.        *)
SamplingExact == LA!SamplingExact

(* Rx statistics of the pipe stay exact against eth_stats_reset() on the  *)
(* single-consumer ring A.                                                 *)
RxStatsExact == Pipe!RxStatsExact

(* A probe never binds more than one ring per direction.                   *)
ProbeBindsOneRingEach == Pipe!ProbeBindsOneRingEach
=============================================================================
