---------------------------- MODULE PcapCapture ----------------------------
(***************************************************************************)
(* spp_pcap (src/pcap/spp_pcap.c): one receive thread and several write   *)
(* threads, each busy-polling on its own lcore.                           *)
(*  - The control thread sets g_capture_request on start / stop and the   *)
(*    core status on exit (its command runner is not under src: modelled  *)
(*    from the spec).                                                     *)
(*  - The receive thread follows the request, sets g_capture_status and   *)
(*    the file date, and moves bursts from the port into cap_ring.        *)
(*  - Each write thread follows g_capture_status, dequeues bursts and     *)
(*    writes them to an LZ4-compressed pcap file it opens, rotates and     *)
(*    closes, renaming "<name>.tmp" to "<name>".                          *)
(* Packets are indistinguishable mbufs: the pool, the ring and each       *)
(* writer's burst are counts.  File contents are abstracted to a size in   *)
(* packets and whether every write into the LZ4 frame succeeded.          *)
(***************************************************************************)
EXTENDS Integers, FiniteSets, Functions

CONSTANTS
    Writers,      \* write threads (thread_no 1..)
    NumMbufs,     \* mbufs of the pool the port receives into
    RingSize,     \* cap_ring capacity
    Burst,        \* MAX_PKT_BURST
    FileLimit,    \* g_pcap_option.file_limit, in packets
    MaxStarts,    \* bound on capture starts (each one a new file date)
    IoMayFail     \* fopen / fwrite / LZ4F calls may fail

ASSUME Burst \in Nat \ {0} /\ RingSize >= Burst /\ FileLimit \in Nat

VARIABLES
    request,      \* g_capture_request[0]
    cstatus,      \* g_capture_status[0]
    rstatus,      \* receive thread's info->status
    wstatus,      \* each writer's info->status
    alive,        \* thread still in slave_main's loop (receive and writers)
    stopreq,      \* core status SPP_CORE_STOP_REQUEST set by exit
    date,         \* g_pcap_option.compress_file_date, as a start number
    file,         \* each writer's open file: compress_fp, name, size, intact
    renamed,      \* files renamed from .tmp to their final name
    pool,         \* free mbufs
    ring,         \* mbufs in cap_ring
    batch         \* mbufs a writer has dequeued and not yet handled

vars == <<request, cstatus, rstatus, wstatus, alive, stopreq, date, file,
          renamed, pool, ring, batch>>

Recv == "recv"
Threads == {Recv} \cup Writers
Status == {"IDLE", "RUNNING"}
NoFile == [fp |-> "none", name |-> <<0, 0>>, size |-> 0, intact |-> TRUE]
FileRec == [fp : {"none", "open"}, name : (0 .. MaxStarts) \X Nat,
            size : Nat, intact : BOOLEAN]

(* Outcomes of one call to the I/O layer: success, or failure when the     *)
(* model lets I/O fail.                                                   *)
IoOutcomes == IF IoMayFail THEN {TRUE, FALSE} ELSE {TRUE}

-----------------------------------------------------------------------------
(* A step of compress_file_operation or compress_file_packet: the writer's *)
(* file afterwards, the files it renamed, and its return value.           *)
Result(f, ren, ok) == [f |-> f, ren |-> ren, ok |-> ok]

(* The "file open" tail of INIT_MODE and UPDATE_MODE: fopen of the .tmp,   *)
(* the LZ4 context, the frame header and the pcap header.  Any failure    *)
(* closes the file (no rename) and returns NG; success leaves file_size   *)
(* at the header.                                                         *)
OpenFile(f, ren) ==
    { IF io THEN Result([f EXCEPT !.fp = "open", !.size = 1, !.intact = TRUE], ren, TRUE)
      ELSE Result([f EXCEPT !.fp = "none"], ren, FALSE) : io \in IoOutcomes }

(* INIT_MODE: file_no = 1, the name from the current date, then open.     *)
InitMode(w) ==
    OpenFile([file[w] EXCEPT !.name = <<date, 1>>, !.size = 0], {})

(* Mutant: the rotation keeps file_no.                                   *)
UpdateModeSameNo(w) ==
    LET f == file[w]
    IN  { Result([f EXCEPT !.fp = "none"], {}, FALSE) : io \in IoOutcomes \ {TRUE} }
        \cup OpenFile([f EXCEPT !.name = <<date, f.name[2]>>, !.size = 0],
                      {[writer |-> w, name |-> f.name, intact |-> f.intact]})

(* UPDATE_MODE: end the LZ4 frame and write it; on failure close without  *)
(* rename and return NG.  Otherwise close, rename, file_no++ with a name   *)
(* from the current date, and open.                                       *)
UpdateMode(w) ==
    LET f == file[w]
    IN  { Result([f EXCEPT !.fp = "none"], {}, FALSE) : io \in IoOutcomes \ {TRUE} }
        \cup OpenFile([f EXCEPT !.name = <<date, f.name[2] + 1>>, !.size = 0],
                      {[writer |-> w, name |-> f.name, intact |-> f.intact]})

(* CLOSE_MODE: nothing if compress_fp is NULL.  Otherwise end the frame   *)
(* (its failure and the write's result are ignored), close, and rename.   *)
CloseMode(w) ==
    LET f == file[w]
    IN  IF f.fp = "none" THEN {Result(f, {}, TRUE)}
        ELSE { Result([f EXCEPT !.fp = "none"],
                      {[writer |-> w, name |-> f.name, intact |-> f.intact /\ io]},
                      TRUE) : io \in IoOutcomes }

(* compress_file_packet: nothing without a file; rotate when file_size     *)
(* exceeds the limit; then write the packet header and its data.  A      *)
(* failed write closes the file (CLOSE_MODE) and returns NG.              *)
WriteOne(f, ren) ==
    { IF io THEN Result([f EXCEPT !.size = @ + 1], ren, TRUE)
      ELSE Result([f EXCEPT !.intact = FALSE], ren, FALSE) : io \in IoOutcomes }

CompressFilePacket(w) ==
    LET f == file[w]
        Rotated == IF f.size > FileLimit THEN UpdateMode(w)
                   ELSE {Result(f, {}, TRUE)}
        Written == UNION { IF r.ok THEN WriteOne(r.f, r.ren) ELSE {r} : r \in Rotated }
        Closed(r) == IF r.ok \/ r.f.fp = "none" THEN {r}
                     ELSE { Result([r.f EXCEPT !.fp = "none"],
                                   r.ren \cup {[writer |-> w, name |-> r.f.name,
                                                intact |-> FALSE]}, FALSE) }
    IN  IF f.fp = "none" THEN {Result(f, {}, TRUE)}
        ELSE UNION { Closed(r) : r \in Written }

-----------------------------------------------------------------------------
(* Control thread: start / stop set the capture request; exit sets every  *)
(* core to SPP_CORE_STOP_REQUEST.  The main loop leaves after exit.       *)
Start ==
    /\ ~stopreq /\ request = "IDLE" /\ date < MaxStarts
    /\ request' = "RUNNING"
    /\ UNCHANGED <<cstatus, rstatus, wstatus, alive, stopreq, date, file, renamed, pool, ring, batch>>

Stop ==
    /\ ~stopreq /\ request = "RUNNING"
    /\ request' = "IDLE"
    /\ UNCHANGED <<cstatus, rstatus, wstatus, alive, stopreq, date, file, renamed, pool, ring, batch>>

Exit ==
    /\ ~stopreq
    /\ stopreq' = TRUE
    /\ UNCHANGED <<request, cstatus, rstatus, wstatus, alive, date, file, renamed, pool, ring, batch>>

(* Mutant: a write thread leaves only once cap_ring is drained.           *)
ThreadExitDrain(t) ==
    /\ stopreq /\ alive[t]
    /\ t \in Writers => batch[t] = 0 /\ ring = 0
    /\ alive' = [alive EXCEPT ![t] = FALSE]
    /\ UNCHANGED <<request, cstatus, rstatus, wstatus, stopreq, date, file, renamed, pool, ring, batch>>

(* slave_main: a thread leaves its loop when it sees the stop request      *)
(* between two calls of its handler, and sets its core to STOP.           *)
ThreadExit(t) ==
    /\ stopreq /\ alive[t]
    /\ t \in Writers => batch[t] = 0
    /\ alive' = [alive EXCEPT ![t] = FALSE]
    /\ UNCHANGED <<request, cstatus, rstatus, wstatus, stopreq, date, file, renamed, pool, ring, batch>>

(* Mutant: the receive thread goes IDLE without telling the writers.     *)
RecvIdleKeepStatus ==
    /\ alive[Recv] /\ ~stopreq
    /\ request = "IDLE" /\ rstatus = "RUNNING"
    /\ rstatus' = "IDLE"
    /\ UNCHANGED <<request, cstatus, wstatus, alive, stopreq, date, file, renamed, pool, ring, batch>>

(* pcap_proc_receive with the request IDLE: a running capture goes IDLE   *)
(* and so does g_capture_status.                                          *)
RecvIdle ==
    /\ alive[Recv] /\ ~stopreq
    /\ request = "IDLE" /\ rstatus = "RUNNING"
    /\ rstatus' = "IDLE" /\ cstatus' = "IDLE"
    /\ UNCHANGED <<request, wstatus, alive, stopreq, date, file, renamed, pool, ring, batch>>

(* Mutant: a new capture stamps the date but leaves g_capture_status.      *)
RecvBurstNoStatus(n) ==
    /\ alive[Recv] /\ ~stopreq
    /\ request = "RUNNING" /\ n <= pool
    /\ IF rstatus = "IDLE"
       THEN /\ rstatus' = "RUNNING" /\ date' = date + 1 /\ UNCHANGED cstatus
       ELSE UNCHANGED <<rstatus, cstatus, date>>
    /\ IF n > 0 /\ ring + n <= RingSize
       THEN ring' = ring + n /\ pool' = pool - n
       ELSE UNCHANGED <<ring, pool>>
    /\ UNCHANGED <<request, wstatus, alive, stopreq, file, renamed, batch>>

(* pcap_proc_receive with the request RUNNING: a new capture stamps the   *)
(* file date and sets g_capture_status; then rx_burst takes n mbufs from  *)
(* the pool, and enqueue_bulk puts all n in the ring or frees all n.      *)
RecvBurst(n) ==
    /\ alive[Recv] /\ ~stopreq
    /\ request = "RUNNING" /\ n <= pool
    /\ IF rstatus = "IDLE"
       THEN /\ rstatus' = "RUNNING" /\ cstatus' = "RUNNING"
            /\ date' = date + 1
       ELSE UNCHANGED <<rstatus, cstatus, date>>
    /\ IF n > 0 /\ ring + n <= RingSize
       THEN ring' = ring + n /\ pool' = pool - n
       ELSE UNCHANGED <<ring, pool>>
    /\ UNCHANGED <<request, wstatus, alive, stopreq, file, renamed, batch>>

(* A handler returning NG ends the thread's loop in slave_main.           *)
Fail(w, ok) == alive' = [alive EXCEPT ![w] = ok]

(* pcap_proc_write with g_capture_status IDLE: a running writer goes IDLE *)
(* and closes its file.                                                   *)
WriteIdle(w) ==
    /\ alive[w] /\ ~stopreq /\ batch[w] = 0
    /\ cstatus = "IDLE" /\ wstatus[w] = "RUNNING"
    /\ wstatus' = [wstatus EXCEPT ![w] = "IDLE"]
    /\ \E r \in CloseMode(w) :
          /\ file' = [file EXCEPT ![w] = r.f]
          /\ renamed' = renamed \cup r.ren
    /\ UNCHANGED <<request, cstatus, rstatus, alive, stopreq, date, pool, ring, batch>>

(* Mutant: a dequeue of Burst mbufs as soon as the ring is not empty.    *)
DequeueAny(w) ==
    IF ring >= 1
    THEN ring' = ring - Burst /\ batch' = [batch EXCEPT ![w] = Burst]
    ELSE UNCHANGED <<ring, batch>>

(* pcap_proc_write with g_capture_status RUNNING: a writer that was IDLE  *)
(* opens a file (INIT_MODE; failure: IDLE again and NG); then             *)
(* dequeue_bulk takes exactly Burst mbufs or none.                        *)
Dequeue(w) ==
    IF ring >= Burst
    THEN ring' = ring - Burst /\ batch' = [batch EXCEPT ![w] = Burst]
    ELSE UNCHANGED <<ring, batch>>

WriteRun(w) ==
    /\ alive[w] /\ ~stopreq /\ batch[w] = 0
    /\ cstatus = "RUNNING"
    /\ IF wstatus[w] = "IDLE"
       THEN \E r \in InitMode(w) :
              /\ file' = [file EXCEPT ![w] = r.f]
              /\ wstatus' = [wstatus EXCEPT ![w] = IF r.ok THEN "RUNNING" ELSE "IDLE"]
              /\ Fail(w, r.ok)
              /\ IF r.ok THEN Dequeue(w) ELSE UNCHANGED <<ring, batch>>
       ELSE /\ Dequeue(w)
            /\ UNCHANGED <<file, wstatus, alive>>
    /\ UNCHANGED <<request, cstatus, rstatus, stopreq, date, renamed, pool>>

(* One iteration of pcap_proc_write's loop over the burst.  On NG the     *)
(* writer goes IDLE, calls CLOSE_MODE (compress_fp is already NULL), and   *)
(* breaks; the handler returns NG.  The loop that should free the burst   *)
(* runs from nb_rx to nb_rx: no mbuf goes back to the pool.               *)
WritePacket(w) ==
    /\ batch[w] > 0
    /\ \E r \in CompressFilePacket(w) :
          /\ file' = [file EXCEPT ![w] = r.f]
          /\ renamed' = renamed \cup r.ren
          /\ batch' = [batch EXCEPT ![w] = IF r.ok THEN @ - 1 ELSE 0]
          /\ wstatus' = [wstatus EXCEPT ![w] = IF r.ok THEN @ ELSE "IDLE"]
          /\ Fail(w, r.ok)
    /\ UNCHANGED <<request, cstatus, rstatus, stopreq, date, pool, ring>>

(* main, after exit: every core has reached STOP, the ring is freed and the *)
(* process ends.                                                          *)
Terminated ==
    /\ stopreq /\ \A t \in Threads : ~alive[t]
    /\ UNCHANGED vars

(* main after its set-up: cap_ring created empty, every mbuf in the pool, *)
(* the receive and write threads launched, capture not requested.         *)
Init ==
    /\ request = "IDLE" /\ cstatus = "IDLE" /\ rstatus = "IDLE"
    /\ wstatus = [w \in Writers |-> "IDLE"]
    /\ alive = [t \in Threads |-> TRUE]
    /\ stopreq = FALSE /\ date = 0
    /\ file = [w \in Writers |-> NoFile]
    /\ renamed = {}
    /\ pool = NumMbufs /\ ring = 0
    /\ batch = [w \in Writers |-> 0]

Next ==
    \/ Start \/ Stop \/ Exit
    \/ \E t \in Threads : ThreadExit(t)
    \/ RecvIdle
    \/ \E n \in 0 .. Burst : RecvBurst(n)
    \/ \E w \in Writers : WriteIdle(w) \/ WriteRun(w) \/ WritePacket(w)
    \/ Terminated

(* Every thread busy-polls on its own lcore, so each handler that can     *)
(* change state is eventually called.  Packet arrival is not assumed:     *)
(* only the receive poll that finds no packet is fair.                    *)
Fairness ==
    /\ WF_vars(RecvIdle) /\ WF_vars(RecvBurst(0))
    /\ \A t \in Threads : WF_vars(ThreadExit(t))
    /\ \A w \in Writers : WF_vars(WriteIdle(w)) /\ WF_vars(WriteRun(w))
                         /\ WF_vars(WritePacket(w))

Spec == Init /\ [][Next]_vars /\ Fairness

-----------------------------------------------------------------------------
TypeOK ==
    /\ request \in Status /\ cstatus \in Status /\ rstatus \in Status
    /\ wstatus \in [Writers -> Status]
    /\ alive \in [Threads -> BOOLEAN] /\ stopreq \in BOOLEAN
    /\ date \in 0 .. MaxStarts
    /\ file \in [Writers -> FileRec]
    /\ pool \in 0 .. NumMbufs /\ ring \in 0 .. RingSize
    /\ batch \in [Writers -> 0 .. Burst]

(* No capture file is renamed over another: every renamed file of a       *)
(* writer has its own name (date and file_no), and the file a writer has  *)
(* open is not named like one it already renamed.  This needs INIT_MODE's *)
(* file_no = 1 to come with a new date from the receive thread, and        *)
(* UPDATE_MODE's file_no++ on every rotation.                             *)
FileNamesUnique ==
    /\ \A a, b \in renamed : a.writer = b.writer /\ a.name = b.name => a = b
    /\ \A w \in Writers, a \in renamed :
          file[w].fp = "open" /\ a.writer = w => a.name # file[w].name

(* Every file renamed to its final name holds a complete LZ4 frame: the   *)
(* .tmp file is renamed only after every write into it and the end of the *)
(* frame succeeded.                                                       *)
RenamedIntact ==
    \A a \in renamed : a.intact

(* Every mbuf taken from the pool is in the ring, in a writer's burst, or *)
(* back in the pool: pcap_proc_write frees the burst it has written.      *)
MbufConserved ==
    pool + ring + SumFunction(batch) = NumMbufs

(* A start opens the capture: while capture is requested, every write     *)
(* thread still in its loop eventually has a capture file open, through   *)
(* the receive thread's g_capture_status and the writer's INIT_MODE, or    *)
(* its thread ends on a failed open, unless the capture is stopped or     *)
(* exit is requested first.                                               *)
StartOpensFile ==
    \A w \in Writers :
        (request = "RUNNING" /\ ~stopreq /\ alive[w])
            ~> (file[w].fp = "open" \/ ~alive[w] \/ request = "IDLE" \/ stopreq)

(* Exit ends the process: once exit has set SPP_CORE_STOP_REQUEST, every  *)
(* receive and write thread eventually leaves slave_main's loop and sets  *)
(* its core to STOP, whatever burst it holds, whether capture is running  *)
(* and whatever is left in cap_ring, so main's check_core_status_wait for *)
(* STOP ends and the process terminates.                                  *)
ExitStopsAllThreads ==
    stopreq ~> \A t \in Threads : ~alive[t]

(* A stop closes the capture: once the request is IDLE, every writer with *)
(* an open file eventually closes (and renames) it, unless capture is     *)
(* started again or the writer's thread has ended.                        *)
StopClosesFile ==
    \A w \in Writers :
        (request = "IDLE" /\ file[w].fp = "open")
            ~> (file[w].fp = "none" \/ request = "RUNNING" \/ ~alive[w])
====
