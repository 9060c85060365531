------------------------------ MODULE PipePmd ------------------------------
(***************************************************************************)
(* The pipe PMD, drivers/net_pipe/rte_eth_pipe.c: a virtual ethdev that    *)
(* receives from one rte_ring and sends into another.                      *)
(*                                                                         *)
(* The control thread probes the device from its "rx=ring:N,tx=ring:M"    *)
(* arguments, starts, stops and sets its link, resets its statistics and  *)
(* removes it, one call after another.  The data-path lcore polls it: an  *)
(* rx burst dequeues from the rx ring and hands the mbufs to the           *)
(* application, whose tx burst enqueues them on the tx ring and frees what *)
(* the ring did not take.  Each burst adds to a 64-bit counter of the      *)
(* queue: with rte_atomic64_add when the ring may have several consumers  *)
(* (producers), and with a plain "cnt += n", a load and a later store,    *)
(* when the ring was created RING_F_SC_DEQ (RING_F_SP_ENQ).  A reset by   *)
(* the control thread is three plain stores of 0.                          *)
(***************************************************************************)
EXTENDS Integers, Sequences, SequencesExt

CONSTANTS Rings,      \* numbers N of the rings "eth_ring<N>" that exist
          RLex,       \* a ring argument value -> what validate_ring_name reads
          ArgLists,   \* the kvargs a probe may be given: sequences of [key, val]
          RxFlags,    \* flags of the ring the rx queue is bound to
          TxFlags,    \* flags of the ring the tx queue is bound to
          RingSize,   \* capacity of each ring
          Burst       \* largest nb_bufs the application asks rx for

VARIABLES dev,     \* "none", or "ready" once rte_pmd_pipe_probe() created it
          rxq,     \* ring numbers bound to rx_ring_queues[0 ..]
          txq,     \* ring numbers bound to tx_ring_queues[0 ..]
          link,    \* dev->data->dev_link.link_status
          cnt,     \* rx_pkts.cnt, tx_pkts.cnt and err_pkts.cnt
          pend,    \* the lcore's "cnt += n" whose store is still to come
          rst,     \* counters eth_stats_reset() has still to clear
          rxRing,  \* mbufs queued in the rx ring
          txRing,  \* mbufs queued in the tx ring
          held,    \* mbufs the application holds between rx and tx burst
          since    \* history: packets counted since each counter's reset

pipeVars == <<dev, rxq, txq, link, cnt, pend, rst, rxRing, txRing,
              held, since>>

Counters == {"rx", "tx", "err"}
Zero == [c \in Counters |-> 0]

EINVAL == -22
ENOMEM == -12
ENODEV == -19

(* PMD_PIPE_MAX_RX_RINGS, PMD_PIPE_MAX_TX_RINGS                            *)
MaxRxRings == 1
MaxTxRings == 1

(* validate_ring_name(): "ring:" then digits to the end; the number is     *)
(* strtoul's, cast to unsigned (RLex gives the 32-bit pattern).  -1 for   *)
(* a name it refuses.                                                       *)
ValidateRingName(v) ==
    IF ~RLex[v].prefix \/ ~RLex[v].digits THEN -1 ELSE RLex[v].num

ParseRingsNoMax(priv, kv) ==
    LET num == ValidateRingName(kv.val)
    IN  IF priv.fail \/ num = -1 \/ num \notin Rings
        THEN [priv EXCEPT !.fail = TRUE]
        ELSE IF kv.key = "rx" THEN [priv EXCEPT !.rx = Append(@, num)]
        ELSE [priv EXCEPT !.tx = Append(@, num)]

(* parse_rings() over the pairs in order, as rte_kvargs_process() calls   *)
(* it until the first failure: the ring must be named right and exist      *)
(* (rte_ring_lookup of get_rx_queue_name), and each direction takes at     *)
(* most one ring.                                                           *)
ParseRings(priv, kv) ==
    LET num == ValidateRingName(kv.val)
    IN  IF priv.fail \/ num = -1 \/ num \notin Rings
        THEN [priv EXCEPT !.fail = TRUE]
        ELSE IF kv.key = "rx"
        THEN IF Len(priv.rx) >= MaxRxRings THEN [priv EXCEPT !.fail = TRUE]
             ELSE [priv EXCEPT !.rx = Append(@, num)]
        ELSE IF Len(priv.tx) >= MaxTxRings THEN [priv EXCEPT !.fail = TRUE]
             ELSE [priv EXCEPT !.tx = Append(@, num)]

(* rte_pmd_pipe_probe(), with eth_dev_pipe_create(): the return value for  *)
(* arguments args when allocation oom fails ("priv": pipe_priv, "queues":  *)
(* the queue arrays, "ethdev": rte_eth_dev_allocate, which also fails when *)
(* a device of that name exists).                                          *)
ProbeResult(args, oom) ==
    LET priv == FoldLeft(ParseRings, [rx |-> <<>>, tx |-> <<>>, fail |-> FALSE], args)
    IN  CASE \E i \in DOMAIN args : args[i].key \notin {"rx", "tx"} -> [ret |-> EINVAL]
          [] oom = "priv"                           -> [ret |-> ENOMEM]
          [] priv.fail                              -> [ret |-> EINVAL]
          [] priv.rx = <<>> \/ priv.tx = <<>>       -> [ret |-> EINVAL]
          [] oom \in {"queues", "ethdev"} \/ dev = "ready" -> [ret |-> ENOMEM]
          [] OTHER -> [ret |-> 0, rx |-> priv.rx, tx |-> priv.tx]

Init ==
    /\ dev = "none" /\ rxq = <<>> /\ txq = <<>>
    /\ link = "DOWN" /\ cnt = Zero /\ pend = <<>> /\ rst = <<>>
    /\ rxRing = <<>> /\ txRing = <<>> /\ held = <<>>
    /\ since = Zero

(* The control thread is idle: no eth_stats_reset() is half done.          *)
ControlIdle == rst = <<>>

(* Probe: a success makes a zeroed pipe_private the device's, its link    *)
(* pmd_pipe_link (down); a failure frees what it took and leaves all else.  *)
RtePmdPipeProbe ==
    \E args \in ArgLists, oom \in {"none", "priv", "queues", "ethdev"} :
      LET r == ProbeResult(args, oom)
      IN  /\ ControlIdle
          /\ IF r.ret = 0
             THEN /\ dev' = "ready" /\ rxq' = r.rx /\ txq' = r.tx
                  /\ link' = "DOWN" /\ cnt' = Zero /\ since' = Zero
             ELSE UNCHANGED <<dev, rxq, txq, link, cnt, since>>
          /\ UNCHANGED <<pend, rst, rxRing, txRing, held>>

(* rte_pmd_pipe_remove(): eth_dev_stop(), the queue arrays and            *)
(* pipe_private freed, the port released (the counters go with it: a      *)
(* later probe starts from a zeroed pipe_private).  The application has  *)
(* stopped polling the port first.                                          *)
RtePmdPipeRemove ==
    /\ ControlIdle
    /\ IF dev = "none"
       THEN UNCHANGED <<dev, rxq, txq, link, cnt, since>>   \* -ENODEV
       ELSE /\ pend = <<>> /\ held = <<>>
            /\ dev' = "none" /\ rxq' = <<>> /\ txq' = <<>>
            /\ link' = "DOWN" /\ cnt' = Zero /\ since' = Zero
    /\ UNCHANGED <<pend, rst, rxRing, txRing, held>>

(* eth_dev_start / eth_dev_set_link_up and eth_dev_stop /                  *)
(* eth_dev_set_link_down: the link status, and nothing else.               *)
SetLink(status) ==
    /\ ControlIdle /\ dev = "ready"
    /\ link' = status
    /\ UNCHANGED <<dev, rxq, txq, cnt, pend, rst, rxRing, txRing, held, since>>

DevStart == SetLink("UP")
DevStop == SetLink("DOWN")
DevSetLinkUp == SetLink("UP")
DevSetLinkDown == SetLink("DOWN")

(* eth_stats_reset(): rx_pkts, then tx_pkts, then err_pkts set to 0, each *)
(* a store of its own.                                                      *)
EthStatsReset ==
    /\ ControlIdle /\ dev = "ready"
    /\ cnt' = [cnt EXCEPT !.rx = 0] /\ since' = [since EXCEPT !.rx = 0]
    /\ rst' = <<"tx", "err">>
    /\ UNCHANGED <<dev, rxq, txq, link, pend, rxRing, txRing, held>>

ResetStore ==
    /\ rst # <<>>
    /\ cnt' = [cnt EXCEPT ![Head(rst)] = 0] /\ since' = [since EXCEPT ![Head(rst)] = 0]
    /\ rst' = Tail(rst)
    /\ UNCHANGED <<dev, rxq, txq, link, pend, rxRing, txRing, held>>

(* What a burst adds to counter c: at once with rte_atomic64_add, or as a *)
(* load now and a store later (pend) with a plain "+=".  adds lists the    *)
(* counters and amounts in the order the code updates them.                *)
Count(plain, adds) ==
    /\ since' = [c \in Counters |->
                   since[c] + FoldLeft(LAMBDA s, a : IF a.c = c THEN s + a.n ELSE s, 0, adds)]
    /\ IF plain
       THEN /\ pend' = [i \in DOMAIN adds |->
                          [c |-> adds[i].c, n |-> adds[i].n,
                           val |-> IF i = 1 THEN cnt[adds[1].c] + adds[1].n ELSE -1]]
            /\ UNCHANGED cnt
       ELSE /\ cnt' = [c \in Counters |-> cnt[c] +
                         FoldLeft(LAMBDA s, a : IF a.c = c THEN s + a.n ELSE s, 0, adds)]
            /\ UNCHANGED pend

(* The lcore finishes the head "+=": it stores the loaded sum, then loads *)
(* the next counter it is to add to.                                        *)
StorePending ==
    /\ pend # <<>>
    /\ LET h == Head(pend)
           c2 == [cnt EXCEPT ![h.c] = h.val]
       IN  /\ cnt' = c2
           /\ pend' = [i \in 1 .. Len(pend) - 1 |->
                         [pend[i + 1] EXCEPT !.val = IF i = 1 THEN c2[pend[2].c] + pend[2].n
                                                      ELSE -1]]
    /\ UNCHANGED <<dev, rxq, txq, link, rst, rxRing, txRing, held, since>>

(* How many of k mbufs rte_ring_dequeue_burst() hands over.                *)
Dequeued(k) == IF k < Len(rxRing) THEN k ELSE Len(rxRing)

(* eth_pipe_rx(), called by the application's rte_eth_rx_burst().         *)
EthPipeRx ==
    \E k \in 1 .. Burst :
      LET n == Dequeued(k)
      IN  /\ dev = "ready" /\ held = <<>> /\ pend = <<>>
          /\ held' = SubSeq(rxRing, 1, n)
          /\ rxRing' = SubSeq(rxRing, n + 1, Len(rxRing))
          /\ Count("SC_DEQ" \in RxFlags, <<[c |-> "rx", n |-> n]>>)
          /\ UNCHANGED <<dev, rxq, txq, link, rst, txRing>>

(* How many of n mbufs rte_ring_enqueue_burst() takes: what fits.          *)
Enqueued(n) == IF RingSize - Len(txRing) < n THEN RingSize - Len(txRing) ELSE n

(* eth_pipe_tx() adds with a plain "+=" when the tx ring is single-        *)
(* producer (RING_F_SP_ENQ), with rte_atomic64_add otherwise.               *)
PlainTxAdd == "SP_ENQ" \in TxFlags

(* eth_pipe_tx(), called by the application's rte_eth_tx_burst() with     *)
(* what it received; the application frees the mbufs beyond the returned *)
(* count.                                                                   *)
EthPipeTx ==
    LET nbBufs == Len(held)
        nbTx   == Enqueued(nbBufs)
    IN  /\ dev = "ready" /\ held # <<>> /\ pend = <<>>
        /\ txRing' = txRing \o SubSeq(held, 1, nbTx)
        /\ held' = <<>>
        /\ Count(PlainTxAdd,
                 <<[c |-> "tx", n |-> nbTx], [c |-> "err", n |-> nbBufs - nbTx]>>)
        /\ UNCHANGED <<dev, rxq, txq, link, rst, rxRing>>

ControlNext ==
    RtePmdPipeProbe \/ RtePmdPipeRemove \/ DevStart \/ DevStop \/ DevSetLinkUp \/ DevSetLinkDown
    \/ EthStatsReset \/ ResetStore

LcoreNext == EthPipeRx \/ EthPipeTx \/ StorePending

Next == ControlNext \/ LcoreNext

Spec == Init /\ [][Next]_pipeVars

----------------------------------------------------------------------------
(* Every variable keeps its type; a "+=" in progress is one load ahead of *)
(* its store.                                                               *)
TypeOK ==
    /\ dev \in {"none", "ready"} /\ link \in {"UP", "DOWN"}
    /\ cnt \in [Counters -> Nat] /\ since \in [Counters -> Nat]
    /\ pend \in Seq([c : Counters, n : Nat, val : Nat \cup {-1}])
    /\ rst \in Seq(Counters)
    /\ Len(held) <= Burst /\ Len(rxRing) <= RingSize /\ Len(txRing) <= RingSize

(* Probe, over every argument list: a device exists only with exactly one *)
(* rx and one tx queue, each bound to an eth_ring that exists, so that     *)
(* rx_ring_queues[] and tx_ring_queues[] of PMD_PIPE_MAX_*_RINGS entries   *)
(* are never written past their end (parse_rings, eth_dev_pipe_create).    *)
ProbeBindsOneRingEach ==
    dev = "ready" =>
        /\ Len(rxq) = 1 /\ Len(txq) = 1
        /\ rxq[1] \in Rings /\ txq[1] \in Rings

(* Rx statistics (eth_pipe_rx against eth_stats_reset): whenever no "+="  *)
(* on it is in flight, rx_pkts counts exactly the mbufs eth_pipe_rx handed *)
(* over since the last reset.                                              *)
RxStatsExact ==
    (\A i \in DOMAIN pend : pend[i].c # "rx") => cnt.rx = since.rx
=============================================================================
