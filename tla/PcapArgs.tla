------------------------------ MODULE PcapArgs ------------------------------
(***************************************************************************)
(* The start-up options of spp_pcap (parse_app_args and its parse_app_*  *)
(* helpers in src/pcap/spp_pcap.c): the getopt_long loop over the         *)
(* options after the EAL ones, each option's argument converted into      *)
(* g_startup_param or g_pcap_option, the first refusal ending the parse,  *)
(* then the check of the three mandatory options.                          *)
(*                                                                         *)
(* An option is a record [opt, arg]: opt is the option getopt_long        *)
(* returns ("client-id", "output", "limit_file_size", "i", "s", or "?"    *)
(* for an unknown option or one missing its argument) and arg is a model  *)
(* string; Lex[arg] is what the C library sees in it: whole says strtol  *)
(* or strtoull read it to the end, num is the number read (strtoull's     *)
(* wrap included), pre is the text before the first ':' (colon says       *)
(* there is one), after / afterWhole what strtol reads after it, exists   *)
(* whether stat() finds the path.                                          *)
(***************************************************************************)
EXTENDS Integers, Sequences, SequencesExt

CONSTANTS
    Options,      \* the options a command line is made of
    Lex,          \* Lex[a]: the lexical view of argument a
    MaxOpts,      \* longest command line (in options) considered
    RteMaxLcore,  \* RTE_MAX_LCORE
    DefaultPath,  \* DEFAULT_FILE_PATH
    DefaultLimit  \* DEFAULT_FILE_LIMIT

VARIABLES
    aphase,     \* "parsing", "ok" or "ng": the result of parse_app_args
    opts,       \* the options getopt_long has returned so far
    client_id,  \* g_startup_param.client_id
    server,     \* g_startup_param.server_ip and .server_port
    port_cap,   \* g_pcap_option.port_cap.iface_type and .iface_no
    file_path,  \* g_pcap_option.compress_file_path
    file_limit, \* g_pcap_option.file_limit
    flags       \* proc_flg, server_flg, port_flg: the options seen

vars == <<aphase, opts, client_id, server, port_cap, file_path, file_limit, flags>>

Mandatory == {"client-id", "s", "i"}
NoServer == [ip |-> "", port |-> 0]
NoPort == [type |-> "UNDEF", no |-> 0]

(* parse_app_client_id: strtol must read the whole text, and the id must *)
(* be below RTE_MAX_LCORE.                                                 *)
ParseAppClientId(a) == Lex[a].whole /\ Lex[a].num < RteMaxLcore

(* parse_app_server: a ':' must be there, and strtol must read the whole *)
(* text after it; the text before it, empty or not, is the IP.            *)
ParseAppServer(a) == Lex[a].colon /\ Lex[a].afterWhole

(* parse_app_limit_file_size: strtoull in base 10 must read the whole    *)
(* text.                                                                   *)
ParseAppLimitFileSize(a) == Lex[a].whole

(* parse_app_capture_port: "phy:" or "ring:" and strtol must read the    *)
(* whole text after the ':'.                                               *)
CapturePortType == [phy |-> "PHY", ring |-> "RING"]
ParseAppCapturePort(a) ==
    Lex[a].colon /\ Lex[a].pre \in DOMAIN CapturePortType /\ Lex[a].afterWhole

(* The --output case: the path is copied first, then refused if it is    *)
(* empty or stat() fails.                                                  *)
OutputValid(a) == a # "" /\ Lex[a].exists

(* Whether the switch of parse_app_args takes option o.                   *)
OptionOk(o) ==
    CASE o.opt = "client-id"       -> ParseAppClientId(o.arg)
      [] o.opt = "s"               -> ParseAppServer(o.arg)
      [] o.opt = "limit_file_size" -> ParseAppLimitFileSize(o.arg)
      [] o.opt = "i"               -> ParseAppCapturePort(o.arg)
      [] o.opt = "output"          -> OutputValid(o.arg)
      [] OTHER                     -> FALSE

(* Mutant: the port flag is never required.                                *)
MandatorySeenNoPort(f) == {"client-id", "s"} \subseteq f

(* The check of proc_flg, server_flg and port_flg after the loop.         *)
MandatorySeen(f) == Mandatory \subseteq f

(* One turn of the getopt_long loop: the case of the option's value.     *)
(* Each helper writes its result only on success; --output writes the    *)
(* path before its check.  A refusal (usage, return SPP_RET_NG) ends the  *)
(* parse.                                                                  *)
ParseOption(o) ==
    /\ aphase = "parsing" /\ Len(opts) < MaxOpts
    /\ opts' = Append(opts, o)
    /\ file_path' = IF o.opt = "output" THEN o.arg ELSE file_path
    /\ IF ~OptionOk(o)
       THEN /\ aphase' = "ng"
            /\ UNCHANGED <<client_id, server, port_cap, file_limit, flags>>
       ELSE /\ aphase' = "parsing"
            /\ client_id' = IF o.opt = "client-id" THEN Lex[o.arg].num ELSE client_id
            /\ server' = IF o.opt = "s"
                         THEN [ip |-> Lex[o.arg].pre, port |-> Lex[o.arg].after]
                         ELSE server
            /\ port_cap' = IF o.opt = "i"
                           THEN [type |-> CapturePortType[Lex[o.arg].pre],
                                 no |-> Lex[o.arg].after]
                           ELSE port_cap
            /\ file_limit' = IF o.opt = "limit_file_size" THEN Lex[o.arg].num
                             ELSE file_limit
            /\ flags' = flags \cup ({o.opt} \cap Mandatory)

(* getopt_long returns EOF: the mandatory options decide.                 *)
EndOfOptions ==
    /\ aphase = "parsing"
    /\ aphase' = IF MandatorySeen(flags) THEN "ok" ELSE "ng"
    /\ UNCHANGED <<opts, client_id, server, port_cap, file_path, file_limit, flags>>

(* main goes on with the parsed options, or leaves its loop and exits.    *)
ArgsDone ==
    /\ aphase \in {"ok", "ng"}
    /\ UNCHANGED vars

(* The memsets of g_startup_param and g_pcap_option and the defaults.     *)
Init ==
    /\ aphase = "parsing" /\ opts = <<>>
    /\ client_id = 0 /\ server = NoServer /\ port_cap = NoPort
    /\ file_path = DefaultPath /\ file_limit = DefaultLimit /\ flags = {}

Next ==
    \/ \E o \in Options : ParseOption(o)
    \/ EndOfOptions
    \/ ArgsDone

Spec == Init /\ [][Next]_vars
-----------------------------------------------------------------------------
TypeOK ==
    /\ aphase \in {"parsing", "ok", "ng"}
    /\ opts \in Seq(Options) /\ Len(opts) <= MaxOpts
    /\ flags \subseteq Mandatory
    /\ port_cap.type \in {"UNDEF", "PHY", "RING"}

(* The last occurrence of option name n in the command line, if any.       *)
LastOf(n) ==
    LET k == SelectLastInSeq(opts, LAMBDA o : o.opt = n) IN
    IF k = 0 THEN [none |-> TRUE] ELSE [none |-> FALSE, arg |-> opts[k].arg]

(* The usage of spp_pcap as a statement about the whole command line:    *)
(* parse_app_args succeeds exactly when every option is one the usage    *)
(* names with an argument its helper takes and --client-id, -s and -i    *)
(* all appear; it then holds, for each option, what its last occurrence *)
(* says, and the defaults for an option not given.  It fails at the      *)
(* first option that is not so, or at the end when one is missing.        *)
ArgsMatchUsage ==
    /\ aphase = "ok" =>
         /\ \A k \in DOMAIN opts : OptionOk(opts[k])
         /\ \A n \in Mandatory : ~LastOf(n).none
         /\ client_id = Lex[LastOf("client-id").arg].num
         /\ server = [ip |-> Lex[LastOf("s").arg].pre, port |-> Lex[LastOf("s").arg].after]
         /\ port_cap.no = Lex[LastOf("i").arg].after
         /\ file_path = IF LastOf("output").none THEN DefaultPath ELSE LastOf("output").arg
         /\ file_limit = IF LastOf("limit_file_size").none THEN DefaultLimit
                         ELSE Lex[LastOf("limit_file_size").arg].num
    /\ aphase = "ng" =>
         \/ opts # <<>> /\ ~OptionOk(Last(opts))
            /\ \A k \in 1 .. Len(opts) - 1 : OptionOk(opts[k])
         \/ /\ \A k \in DOMAIN opts : OptionOk(opts[k])
            /\ \E n \in Mandatory : LastOf(n).none
====
