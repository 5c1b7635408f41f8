------------------------------ MODULE ScanOptions ------------------------------
(***************************************************************************)
(* How a scan starts: what the options string, the arguments, the CONFIG_   *)
(* constants and the environment of the endpoint make of its settings, and  *)
(* whether it starts at all.  Both editions; XSIAM has no options string.   *)
(*                                                                          *)
(* Values are the texts the code gets: an option or a variable is a text,   *)
(* and a boolean argument is one of the texts "True" and "False".           *)
(***************************************************************************)
EXTENDS Integers, Sequences, FiniteSets

CONSTANTS
    Numbers,    \* text -> the integer it is read as; other texts are no numbers
    Cores       \* os.cpu_count()

OptionKeys == {"create_alerts", "write_dataset", "collect_files", "cpu_guarantee",
               "cpu_floor_pct", "workers"}
RetiredKeys == {"throttle_mode", "max_pause_secs"}
Blank == ""
Yes == {"True", "true", "1", "yes", "on"}
No == {"False", "false", "0", "no", "off"}
Larger(a, b) == IF a >= b THEN a ELSE b

(* given: what a scan is started with.  options: a sequence of [key, val],  *)
(* a chunk without "=" having no known key; args: key -> text, the constant *)
(* standing in for an argument that is not given; env: YARA_CPU_GUARANTEE,  *)
(* YARA_THREADS and YARA_PROFILE (or CONFIG_PROFILE); rules: do they        *)
(* decode?; creds: are the credentials set?                                  *)

(* _parse_options_string: any unknown key refuses the string; the last of   *)
(* several chunks with a key counts.                                         *)
Parses(chunks) == \A i \in DOMAIN chunks : chunks[i].key \in OptionKeys \cup RetiredKeys
LastOf(chunks, k) ==
    CHOOSE i \in DOMAIN chunks :
        chunks[i].key = k /\ \A j \in DOMAIN chunks : j > i => chunks[j].key # k
Parsed(chunks) ==
    [k \in {chunks[i].key : i \in DOMAIN chunks} |-> chunks[LastOf(chunks, k)].val]

FromThrottle(text) == IF text = "off" THEN "none" ELSE "headroom"

(* migrate_throttle_option: retired keys are dropped; a throttle mode stands *)
(* for a guarantee where none is given.                                      *)
Migrated(opts) ==
    LET stands == /\ "throttle_mode" \in DOMAIN opts /\ opts["throttle_mode"] # Blank
                  /\ "cpu_guarantee" \notin DOMAIN opts
    IN [k \in (DOMAIN opts \cap OptionKeys) \cup (IF stands THEN {"cpu_guarantee"} ELSE {}) |->
           IF k \in DOMAIN opts THEN opts[k] ELSE FromThrottle(opts["throttle_mode"])]

Pick(opts, args, k) == IF k \in DOMAIN opts THEN opts[k] ELSE args[k]

(* _env_number: a variable that is no number, or too small, is ignored. *)
EnvNumber(text, least, default) ==
    IF text \in DOMAIN Numbers /\ Numbers[text] >= least THEN Numbers[text] ELSE default

(* What is configured, or [ok |-> FALSE]: ScanConfig raised. *)
Raised == [ok |-> FALSE]

XdrConfig(given) ==
    LET opts == Migrated(Parsed(given.options))
        text(k) == Pick(opts, given.args, k)
        guarantee == IF given.env.guarantee # Blank THEN given.env.guarantee
                                                    ELSE text("cpu_guarantee")
        wanted == EnvNumber(given.env.threads, 1, Numbers[text("workers")])
        workers == IF wanted > 0 THEN wanted ELSE Larger(2, Cores \div 2)
        light == given.env.profile = "light"
    IN  IF /\ given.env.profile \in {"full", "light"}
           /\ \A k \in {"create_alerts", "write_dataset", "collect_files"} : text(k) \in Yes \cup No
           /\ guarantee \in {"headroom", "budget", "none"}
           /\ \A k \in {"cpu_floor_pct", "workers"} : text(k) \in DOMAIN Numbers
           /\ given.rules
        THEN [ok |-> TRUE,
              alerts |-> text("create_alerts") \in Yes,
              dataset |-> text("write_dataset") \in Yes,
              copies |-> text("collect_files") \in Yes,
              guarantee |-> guarantee, floor |-> Numbers[text("cpu_floor_pct")],
              workers |-> workers, queue |-> Larger(2, workers * 2), monitors |-> ~light]
        ELSE Raised

(* XSIAM: no options and no profile; settings are constants of the script.  *)
XsiamConfig(given) ==
    LET workers == EnvNumber(given.env.threads, 1, IF Cores <= 2 THEN 1 ELSE 2)
    IN  IF given.rules
        THEN [ok |-> TRUE,
              alerts |-> given.args["create_alerts"] \in Yes, dataset |-> FALSE,
              copies |-> given.args["collect_files"] \in Yes,
              guarantee |-> given.args["cpu_guarantee"],
              floor |-> Numbers[given.args["cpu_floor_pct"]],
              workers |-> workers, queue |-> Larger(2, workers * 2), monitors |-> FALSE]
        ELSE Raised

Config(edition, given) ==
    IF edition = "xdr" THEN XdrConfig(given) ELSE XsiamConfig(given)

(* Seeded fault: the credentials are asked for by the texts, and any text   *)
(* that is not empty is true.                                                *)
TextsDeliver(edition, given) ==
    \E k \in {"create_alerts", "write_dataset"} :
        Pick(Migrated(Parsed(given.options)), given.args, k) \notin {Blank, "False"}

(* Is there a channel to deliver to?  Asked of the parsed settings. *)
Delivers(edition, given) ==
    LET c == Config(edition, given) IN c.alerts \/ c.dataset

(* run() and main(): the options are parsed before anything can be caught   *)
(* or logged; a cancel goes no further; then the configuration, then the    *)
(* credentials.                                                              *)
StartUp(edition, given) ==
    CASE edition = "xdr" /\ ~Parses(given.options) -> "raises"
      [] edition = "xdr" /\ Parses(given.options) /\ given.mode = "cancel" -> "cancel"
      [] OTHER ->
            IF ~Config(edition, given).ok \/ given.mode \notin {"scan", "cancel"} THEN "failed"
            ELSE IF ~given.creds /\ Delivers(edition, given) THEN "aborted" ELSE "scans"

-----------------------------------------------------------------------------
(* A scan whose findings could not be delivered is refused, and one that is *)
(* to deliver nothing is not, however its settings are spelt: "a perfect    *)
(* scan would deliver nothing" (the credentials test of run()).             *)
SaidOf(given, k) ==
    LET I == {i \in DOMAIN given.options : given.options[i].key = k}
    IN IF I = {} THEN given.args[k]
       ELSE given.options[CHOOSE i \in I : \A j \in I : j <= i].val
NothingInVain(edition, given) ==
    LET local == \A k \in {"create_alerts", "write_dataset"} : SaidOf(given, k) \in No
    IN edition = "xdr" =>
        /\ StartUp(edition, given) = "scans" => given.creds \/ local
        /\ StartUp(edition, given) = "aborted" => ~given.creds /\ ~local
=============================================================================
