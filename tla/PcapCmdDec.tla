----------------------------- MODULE PcapCmdDec -----------------------------
(***************************************************************************)
(* The request decoder of spp_pcap (src/pcap/command_dec.c): split the    *)
(* request at spaces, look its first word up in command_list_pcap by name  *)
(* and word count, record the command type and raise the is_requested_*    *)
(* flag of that type.  Every pcap command is one word with no handler, so *)
(* the decoder reads no word past argv[0]: a request is its word count and *)
(* its first word.  The header that declares the error codes and the       *)
(* request flags is not in the repository; the codes are named here as     *)
(* command_dec.c names them.                                               *)
(***************************************************************************)
EXTENDS Integers, Sequences, SequencesExt

CONSTANTS
    Tokens,       \* the words requests are made of
    MaxParams,    \* SPP_CMD_MAX_PARAMETERS
    MaxArgc       \* longest request (in words) the controller sends

ASSUME MaxArgc > MaxParams

(* command_list_pcap: name, param_min, param_max and type; func is NULL   *)
(* in every entry.                                                         *)
CommandListPcap ==
    << [name |-> "_get_client_id", min |-> 1, max |-> 1, type |-> "client_id"],
       [name |-> "status",         min |-> 1, max |-> 1, type |-> "status"],
       [name |-> "exit",           min |-> 1, max |-> 1, type |-> "exit"],
       [name |-> "start",          min |-> 1, max |-> 1, type |-> "start"],
       [name |-> "stop",           min |-> 1, max |-> 1, type |-> "stop"] >>

VARIABLES
    phase,     \* "idle", "done", "crashed"
    argc,      \* words decode_parameter_value found
    argv,      \* the words read (argv[0] only)
    ci,        \* the entry whose type went into request->commands[0]
    res,       \* the decode result: code, and value_name / value of error
    requested  \* the is_requested_* flag the request raised, or "none"

vars == <<phase, argc, argv, ci, res, requested>>

Result(code, name, value) == [code |-> code, name |-> name, value |-> value]
NoResult == Result("none", "", "")

(* decode_parameter_value: strtok_r splits at spaces and refuses more     *)
(* than SPP_CMD_MAX_PARAMETERS words.                                      *)
DecodeParameterValue(n) == n <= MaxParams

(* Mutant: the scan of decode_command_in_list stops at the first entry    *)
(* whose name matches, fitting or not.                                     *)
FirstNamed(n, t0) ==
    LET k == SelectInSeq(CommandListPcap, LAMBDA d : d.name = t0)
    IN  IF k > 0 /\ n >= CommandListPcap[k].min THEN k ELSE 0

(* decode_command_in_list's scan: the first entry whose name is argv[0]   *)
(* and whose count admits argc, or 0.                                      *)
FitsEntry(n, t0) ==
    SelectInSeq(CommandListPcap, LAMBDA d :
        d.name = t0 /\ n >= d.min /\ n <= d.max)

(* spp_command_decode_request on a request of n words starting with t0,   *)
(* handed over in a cleared request: num_command := 1, then               *)
(* decode_command_in_list.  More than the limit is BAD_FORMAT; no word     *)
(* leaves argv[0] NULL for strcmp; a name match whose count does not fit   *)
(* sets command_name_check and the scan goes on; no fit is BAD_FORMAT if   *)
(* the name matched (set_decode_error with no name), else BAD_VALUE        *)
(* "command" with argv[0] (set_string_value_decode_error).  A fit records *)
(* its type, and the getter switch raises that type's flag.                *)
DecodeRequest(n, t0) ==
    /\ phase = "idle"
    /\ argc' = n
    /\ IF ~DecodeParameterValue(n)
       THEN /\ argv' = <<>> /\ ci' = 0 /\ requested' = "none"
            /\ res' = Result("BAD_FORMAT", "", "") /\ phase' = "done"
       ELSE IF n = 0
       THEN /\ argv' = <<>> /\ ci' = 0 /\ requested' = "none"
            /\ res' = Result("NULL_ARGV", "", "") /\ phase' = "crashed"
       ELSE LET fits  == FitsEntry(n, t0)
                named == \E k \in DOMAIN CommandListPcap : CommandListPcap[k].name = t0
            IN  /\ argv' = <<t0>> /\ ci' = fits
                /\ requested' = IF fits > 0 THEN CommandListPcap[fits].type ELSE "none"
                /\ res' = CASE fits > 0 -> Result("OK", "", "")
                            [] named    -> Result("BAD_FORMAT", "", "")
                            [] OTHER    -> Result("BAD_VALUE", "command", t0)
                /\ phase' = "done"

(* The caller clears the request and the error before the next request.  *)
ClearRequest ==
    /\ phase = "done"
    /\ phase' = "idle" /\ argc' = 0 /\ argv' = <<>> /\ ci' = 0
    /\ res' = NoResult /\ requested' = "none"

(* strcmp(NULL, ...) ends the process: it takes no more requests.          *)
Crashed ==
    /\ phase = "crashed"
    /\ UNCHANGED vars

Init ==
    /\ phase = "idle" /\ argc = 0 /\ argv = <<>> /\ ci = 0
    /\ res = NoResult /\ requested = "none"

Next ==
    \/ \E n \in 0 .. MaxArgc, t \in Tokens : DecodeRequest(n, t)
    \/ ClearRequest
    \/ Crashed

Spec == Init /\ [][Next]_vars
-----------------------------------------------------------------------------
TypeOK ==
    /\ phase \in {"idle", "done", "crashed"}
    /\ argc \in 0 .. MaxArgc /\ argv \in Seq(Tokens) /\ Len(argv) <= 1
    /\ ci \in 0 .. Len(CommandListPcap)
    /\ res.code \in {"none", "OK", "BAD_FORMAT", "BAD_VALUE", "NULL_ARGV"}
    /\ requested \in {"none"} \cup {d.type : d \in ToSet(CommandListPcap)}

(* The pcap command grammar: a request is one of the five command words   *)
(* and nothing else.  Whenever spp_command_decode_request has answered a  *)
(* non-blank request, it accepted it exactly when the grammar does, raised *)
(* the flag of that word and no other, refused a known word with the      *)
(* wrong count (or too many words) as a format error, and reported any    *)
(* other first word back as the bad value of "command".                    *)
PcapVerdictMatchesGrammar ==
    phase = "done" =>
        LET t0    == IF argv = <<>> THEN "" ELSE argv[1]
            known == t0 \in {d.name : d \in ToSet(CommandListPcap)}
        IN  CASE argc > MaxParams ->
                   res.code = "BAD_FORMAT" /\ requested = "none"
              [] argc = 1 /\ known ->
                   /\ res.code = "OK"
                   /\ \E d \in ToSet(CommandListPcap) : d.name = t0 /\ requested = d.type
              [] known ->
                   res.code = "BAD_FORMAT" /\ requested = "none"
              [] OTHER ->
                   res = Result("BAD_VALUE", "command", t0) /\ requested = "none"
====
