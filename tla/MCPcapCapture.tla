--------------------------- MODULE MCPcapCapture ---------------------------
(* Instance of PcapCapture for TLC: two write threads.                    *)
EXTENDS PcapCapture

CONSTANTS w1, w2

MCWriters == {w1, w2}
====
