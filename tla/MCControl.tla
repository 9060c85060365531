----------------------------- MODULE MCControl -----------------------------
(***************************************************************************)
(* The control plane of the processes, checked in one run whose initial   *)
(* state picks one sub-model and whose every later step is one of that    *)
(* sub-model's, so the state space is the sum of theirs:                  *)
(*  - spp_mirror's request parser (CmdParser) and spp_vf's (VfCmdParser), *)
(*    each over a token set that reaches every decoder's edge cases: the  *)
(*    index-0 entries "none" of the string tables, numbers at and past     *)
(*    their bounds, a negative number (strtoul wraps it), base prefixes, a *)
(*    number past 32 bits (the vf's int narrowing), trailing characters, a *)
(*    name of CMD_VALUE_BUFSZ bytes, ports with no number, a negative      *)
(*    number, an unknown prefix or no ':', ports in use in one or both     *)
(*    directions, and for the vf ports with and without a class id, MAC    *)
(*    addresses, "default" and the vlan sub-grammar;                      *)
(*  - spp_pcap's request decoder (PcapCmdDec) over the mirror's tokens,   *)
(*    which hold its five command words and others;                       *)
(*  - spp_pcap's start-up option parser (PcapArgs) over every command     *)
(*    line of up to four options drawn from arguments on each helper's    *)
(*    edge;                                                               *)
(*  - spp_mirror's request handler over the component table and the       *)
(*    per-lcore double-buffered lists (MirrorMng): master lcore 0 and two  *)
(*    workers, two slots, two names, two ports, flushes that may fail.    *)
(* The variables of the sub-models not picked keep their initial values.  *)
(***************************************************************************)
EXTENDS Integers, Sequences, TLC

VARIABLES part,                                          \* the sub-model
          phase, argc, argv, ci, pi, cmd, res, requested,  \* a parser
          aphase, opts, client_id, server, port_cap,       \* PcapArgs
          file_path, file_limit, flags,
          comp, core, change_core, result, running,        \* MirrorMng
          response, flushing, answer_to

parseVars == <<phase, argc, argv, ci, pi, cmd, res, requested>>
argVars == <<aphase, opts, client_id, server, port_cap, file_path, file_limit, flags>>
mngVars == <<comp, core, change_core, result, running, response, flushing,
            answer_to>>
allvars == <<part, parseVars, argVars, mngVars>>

CONSTANTS c1, c2, noname, p0, p1

(* The component names and ports of the handler.                         *)
MCNames == {c1, c2}
MCPorts == {p0, p1}
MCSymmetry == Permutations(MCNames) \cup Permutations(MCPorts)

(* A number strtol/strtoul read to the end of its text, and text where    *)
(* they stop early (a long as [q, r], q * 2^30 + r: -1 is q = -1 and      *)
(* r = 2^30 - 1, 4294967297 is q = 4, r = 1); a plain word and an         *)
(* iface:number token.                                                    *)
Num(v) == IF v >= 0 THEN [ok |-> TRUE, val |-> [q |-> 0, r |-> v]]
          ELSE [ok |-> TRUE, val |-> [q |-> -1, r |-> 2^30 + v]]
Wide(q, r) == [ok |-> TRUE, val |-> [q |-> q, r |-> r]]
NoNum == [ok |-> FALSE, val |-> [q |-> 0, r |-> 0]]
Word(t, len, whole) ==
    [pre |-> t, colon |-> FALSE, after |-> NoNum, whole |-> whole, len |-> len]
Iface(pre, after, len) ==
    [pre |-> pre, colon |-> TRUE, after |-> after, whole |-> NoNum, len |-> len]

MCLex ==
    [t \in {"_get_client_id", "status", "exit", "component", "port", "junk",
            "none", "start", "stop", "add", "del", "rx", "tx",
            "mirror", "merge", "n1", "n2"} |-> Word(t, 4, NoNum)]
    @@ ("nlong" :> Word("nlong", 128, NoNum))
    @@ ("1" :> Word("1", 1, Num(1))) @@ ("127" :> Word("127", 3, Num(127)))
    @@ ("128" :> Word("128", 3, Num(128))) @@ ("-1" :> Word("-1", 2, Num(-1)))
    @@ ("1x" :> Word("1x", 2, NoNum))
    @@ ("ring:0" :> Iface("ring", Num(0), 6)) @@ ("ring:1" :> Iface("ring", Num(1), 6))
    @@ ("ring:2" :> Iface("ring", Num(2), 6)) @@ ("ring:-1" :> Iface("ring", Num(-1), 7))
    @@ ("vhost:0" :> Iface("vhost", Num(0), 7)) @@ ("pcap:0" :> Iface("pcap", Num(0), 6))
    @@ ("ring:" :> Iface("ring", NoNum, 5)) @@ ("ring:0x" :> Iface("ring", NoNum, 7))
    @@ ("ring0" :> Word("ring0", 5, NoNum))
    @@ ("4294967297" :> Word("4294967297", 10, Wide(4, 1)))
    @@ ("ring:4294967298" :> Iface("ring", Wide(4, 2), 15))

MCTokens == DOMAIN MCLex

(* n1 is a component in use; ring:1 is received from, ring:2 received   *)
(* from and sent to.                                                       *)
MCUsedPort == {<<"RING", 1, 1>>, <<"RING", 2, 1>>, <<"RING", 2, 2>>}

Mir == INSTANCE CmdParser
         WITH Tokens <- MCTokens, Lex <- MCLex, UsedNames <- {"n1"},
              UsedPort <- MCUsedPort, MaxLcore <- 128, ValueBufSz <- 128,
              MaxParams <- 8, MaxArgc <- 9

-----------------------------------------------------------------------------
(* The vf's tokens.  A long is [q, r], q * 2^30 + r: -1 is q = -1, r =    *)
(* 2^30 - 1, and 4294967296 (2^32) is q = 4, r = 0.                        *)
Long(q, r) == [ok |-> TRUE, val |-> [q |-> q, r |-> r]]
VNum(v) == Long(0, v)
VNoNum == [ok |-> FALSE, val |-> [q |-> 0, r |-> 0]]
VWord(t, len, whole, mac) ==
    [pre |-> t, colon |-> FALSE, after |-> VNoNum, whole |-> whole, len |-> len,
     mac |-> mac]
VIface(pre, after, len) ==
    [pre |-> pre, colon |-> TRUE, after |-> after, whole |-> VNoNum, len |-> len,
     mac |-> -1]

(* m1 is a MAC address (as an integer, 1), mx is not; the dummy address  *)
(* "default" stands for is 5.                                             *)
VfLex ==
    [t \in {"classifier_table", "component", "port", "status", "junk",
            "add", "del", "start", "none", "mac", "vlan", "rx", "tx", "n1",
            "add_vlantag", "del_vlantag", "forward", "mirror"} |-> VWord(t, 4, VNoNum, -1)]
    @@ ("nlong" :> VWord("nlong", 128, VNoNum, -1))
    @@ ("m1" :> VWord("m1", 17, VNoNum, 1)) @@ ("mx" :> VWord("mx", 17, VNoNum, -1))
    @@ ("default" :> VWord("default", 7, VNoNum, -1))
    @@ ("00:eb:00:00:00:00" :> VWord("00:eb:00:00:00:00", 17, VNoNum, 5))
    @@ ("0" :> VWord("0", 1, VNum(0), -1)) @@ ("7" :> VWord("7", 1, VNum(7), -1))
    @@ ("8" :> VWord("8", 1, VNum(8), -1)) @@ ("4095" :> VWord("4095", 4, VNum(4095), -1))
    @@ ("4096" :> VWord("4096", 4, VNum(4096), -1))
    @@ ("-1" :> VWord("-1", 2, Long(-1, 2^30 - 1), -1))
    @@ ("0x10" :> VWord("0x10", 4, VNum(16), -1))
    @@ ("4294967296" :> VWord("4294967296", 10, Long(4, 0), -1))
    @@ ("1x" :> VWord("1x", 2, VNoNum, -1))
    @@ ("ring:0" :> VIface("ring", VNum(0), 6)) @@ ("ring:1" :> VIface("ring", VNum(1), 6))
    @@ ("ring:2" :> VIface("ring", VNum(2), 6)) @@ ("vhost:0" :> VIface("vhost", VNum(0), 7))
    @@ ("ring:-1" :> VIface("ring", Long(-1, 2^30 - 1), 7))
    @@ ("ring:4294967296" :> VIface("ring", Long(4, 0), 15))

VfTokens == DOMAIN VfLex \ {"00:eb:00:00:00:00"}

(* ring:0, ring:1 and ring:2 exist (vhost:0 does not); ring:1 is used   *)
(* for rx and classified as vid 16, m1; ring:2 is used both ways and     *)
(* classified as the default class; ring:0 has no class id.              *)
VfUsedPort == {<<"RING", 1, 1>>, <<"RING", 2, 1>>, <<"RING", 2, 2>>}
VfAddedPorts == {<<"RING", 0>>, <<"RING", 1>>, <<"RING", 2>>}
VfClassId ==
    [p \in {<<"RING", i>> : i \in {-1, 0, 1, 2}} \cup {<<"VHOST", 0>>} |->
        CASE p = <<"RING", 1>> -> <<16, 1>>
          [] p = <<"RING", 2>> -> <<4095, 5>>
          [] OTHER             -> <<4095, 0>>]

Vf == INSTANCE VfCmdParser
        WITH Tokens <- VfTokens, Lex <- VfLex, UsedNames <- {"n1"},
             UsedPort <- VfUsedPort, AddedPorts <- VfAddedPorts,
             ClassId <- VfClassId, MaxLcore <- 128, ValueBufSz <- 128,
             MaxParams <- 8, MaxArgc <- 9, DefaultSpec <- "default",
             DummyAddr <- "00:eb:00:00:00:00"

Pcap == INSTANCE PcapCmdDec
          WITH Tokens <- MCTokens, MaxParams <- 8, MaxArgc <- 9

-----------------------------------------------------------------------------
(* spp_pcap's start-up arguments: client ids below, at and past           *)
(* RTE_MAX_LCORE, negative, past 32 bits (strtol's long narrowed to int:  *)
(* 2^32 + 1 is 1) and with trailing text; servers with and without an IP, *)
(* a port past 16 bits, no ':' and no number; capture ports of both kinds, *)
(* negative, of a kind the option refuses and with no number; paths that  *)
(* exist, do not, and are empty; a limit of 0 and a malformed one.        *)
ArgLex(whole, num, colon, pre, after, afterWhole, exists) ==
    [whole |-> whole, num |-> num, colon |-> colon, pre |-> pre,
     after |-> after, afterWhole |-> afterWhole, exists |-> exists]
Txt(whole, num) == ArgLex(whole, num, FALSE, "", 0, FALSE, FALSE)
Pair(pre, after, afterWhole) == ArgLex(FALSE, 0, TRUE, pre, after, afterWhole, FALSE)
PcapLex ==
    ("1" :> Txt(TRUE, 1)) @@ ("-1" :> Txt(TRUE, -1)) @@ ("128" :> Txt(TRUE, 128))
    @@ ("1x" :> Txt(FALSE, 1)) @@ ("4294967297" :> Txt(TRUE, 1))
    @@ ("0" :> Txt(TRUE, 0)) @@ ("host" :> Txt(FALSE, 0))
    @@ ("10.0.0.1:5555" :> Pair("10.0.0.1", 5555, TRUE))
    @@ (":5555" :> Pair("", 5555, TRUE)) @@ ("h:70000" :> Pair("h", 70000, TRUE))
    @@ ("h:" :> Pair("h", 0, FALSE))
    @@ ("phy:0" :> Pair("phy", 0, TRUE)) @@ ("ring:-1" :> Pair("ring", -1, TRUE))
    @@ ("vhost:0" :> Pair("vhost", 0, TRUE)) @@ ("ring:" :> Pair("ring", 0, FALSE))
    @@ ("/tmp" :> ArgLex(FALSE, 0, FALSE, "", 0, FALSE, TRUE))
    @@ ("/none" :> Txt(FALSE, 0)) @@ ("" :> Txt(FALSE, 0))

Opt(o, a) == [opt |-> o, arg |-> a]
PcapOptions ==
    {Opt("client-id", a) : a \in {"1", "-1", "128", "1x", "4294967297"}}
    \cup {Opt("s", a) : a \in {"10.0.0.1:5555", ":5555", "h:70000", "h:", "host"}}
    \cup {Opt("i", a) : a \in {"phy:0", "ring:-1", "vhost:0", "ring:"}}
    \cup {Opt("output", a) : a \in {"/tmp", "/none", ""}}
    \cup {Opt("limit_file_size", a) : a \in {"0", "1x"}}
    \cup {Opt("?", "")}

Args == INSTANCE PcapArgs
          WITH Options <- PcapOptions, Lex <- PcapLex, MaxOpts <- 4,
               RteMaxLcore <- 128, DefaultPath <- "/tmp", DefaultLimit <- 1073741824

Mng == INSTANCE MirrorMng
         WITH NumLcores <- 3, SlaveLcores <- {1, 2}, CompIds <- {0, 1},
              Names <- MCNames, NoName <- noname, Ports <- MCPorts,
              MaxEthPorts <- 2, TypeTokens <- {"mirror"}, FlushMayFail <- TRUE,
              ResponseMayFail <- FALSE

-----------------------------------------------------------------------------
ParsersIdle == Mir!Init /\ requested = "none"

Init ==
    /\ \/ part = "mirror_parser" /\ ParsersIdle
       \/ part = "vf_parser" /\ Vf!Init
       \/ part = "pcap_decoder" /\ ParsersIdle
       \/ part = "pcap_args" /\ ParsersIdle
       \/ part = "mirror_mng" /\ ParsersIdle
    /\ Args!Init
    /\ Mng!Init

Next ==
    \/ part = "mirror_parser" /\ Mir!Next /\ UNCHANGED <<part, requested, argVars, mngVars>>
    \/ part = "vf_parser" /\ Vf!Next /\ UNCHANGED <<part, argVars, mngVars>>
    \/ part = "pcap_decoder" /\ Pcap!Next /\ UNCHANGED <<part, pi, cmd, argVars, mngVars>>
    \/ part = "pcap_args" /\ Args!Next /\ UNCHANGED <<part, parseVars, mngVars>>
    \/ part = "mirror_mng" /\ Mng!Next /\ UNCHANGED <<part, parseVars, argVars>>

Spec == Init /\ [][Next]_allvars

(* Each sub-model's variables keep their types.                            *)
TypeOK ==
    /\ part \in {"mirror_parser", "vf_parser", "pcap_decoder", "pcap_args",
                 "mirror_mng"}
    /\ part = "mirror_parser" => Mir!TypeOK
    /\ part = "vf_parser" => Vf!TypeOK
    /\ part = "pcap_decoder" => Pcap!TypeOK
    /\ part = "pcap_args" => Args!TypeOK
    /\ Mng!TypeOK

DecoderDefined == part = "mirror_parser" => Mir!DecoderDefined

(* spp_vf's parser turns away only requests the spec's grammar refuses,  *)
(* with the error class the spec gives (VfCmdParser).                     *)
VfRefusesOnlyInvalid == part = "vf_parser" => Vf!VfRefusesOnlyInvalid

(* spp_vf's parser reads every valid request it accepts into the typed   *)
(* command the spec gives it (VfCmdParser).                               *)
VfReadsValidRequests == part = "vf_parser" => Vf!VfReadsValidRequests

(* spp_pcap's spp_command_decode_request accepts exactly the five one-  *)
(* word commands, raising that command's flag, and reports every other   *)
(* non-blank request with the error class of its kind (PcapCmdDec).       *)
PcapVerdictMatchesGrammar == part = "pcap_decoder" => Pcap!PcapVerdictMatchesGrammar

(* spp_pcap's parse_app_args accepts exactly the command lines its usage *)
(* and helpers admit, holding the last value of each option (PcapArgs).   *)
ArgsMatchUsage == part = "pcap_args" => Args!ArgsMatchUsage

(* Between requests, process_request / spp_flush leave no component id on *)
(* the reference lists of two lcores (MirrorMng).                          *)
PublishedDisjoint == Mng!PublishedDisjoint

(* With no lcore awaiting flush_core, the reference lists are exactly the *)
(* components in use, each on its own lcore, once (MirrorMng).            *)
ComponentPlacement == Mng!ComponentPlacement

PortExclusive == Mng!PortExclusive
====
