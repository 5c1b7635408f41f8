------------------------------- MODULE MCDecisions -------------------------------
EXTENDS Decisions

Items == {Import("pe"), Import("console"), Open, Close, Rule("plain"),
          [Rule("pe") EXCEPT !.uses = {"pe"}],
          [Rule("console") EXCEPT !.uses = {"console"}],
          [Rule("says") EXCEPT !.says = {"pe"}],
          [Rule("hidden") EXCEPT !.hidden = TRUE],
          [Rule("wrong") EXCEPT !.ok = FALSE],
          [Rule("calls") EXCEPT !.calls = {"plain"}],
          [Rule("bare") EXCEPT !.cond = FALSE],
          [Rule("torn") EXCEPT !.closed = FALSE]}
UpTo3(S) == {<<>>} \cup [1..1 -> S] \cup [1..2 -> S] \cup [1..3 -> S]
Short == UpTo3(Items)
FilesHere == {t \in Short \cup {<<Import("console")>> \o s : s \in [1..3 -> Items]} :
            \A i, j \in Lines(t, "rule") : t[i].name = t[j].name => i = j}
Agents == {{"pe"}, {"pe", "console"}, {"console"}}
Some == {<<Import("console"), Rule("plain"), [Rule("console") EXCEPT !.uses = {"console"}]>>,
         <<Rule("plain"), [Rule("wrong") EXCEPT !.ok = FALSE]>>,
         <<[Rule("wrong") EXCEPT !.ok = FALSE]>>}

Systems == {"Windows", "Linux", "Darwin"}
ListedHere ==
    [Windows |-> {<<"c:", "ProgramData", "Cyvera">>, <<"c:", "yara_scanner">>},
     Linux |-> {<<"proc">>, <<"opt", "traps">>, <<"media">>},
     Darwin |-> {Anchor(<<"private", "tmp">>), Anchor(<<"Volumes">>), Anchor(<<"Library", "Caches">>),
                 Fragment(<<"build">>), Bundle(<<"Contents", "Frameworks">>)}]
LowerCase == [ProgramData |-> "programdata", Cyvera |-> "cyvera", Library |-> "library",
              Caches |-> "caches", Volumes |-> "volumes", Contents |-> "contents",
              Frameworks |-> "frameworks", Opt |-> "opt"]
Longer == {<<"cyvera", "cyvera2">>, <<"yara_scanner", "yara_scanner_old">>, <<"own", "own2">>}
Facts == [gone |-> {"gone"}, huge |-> {"huge", "locked"}, fifo |-> {"fifo", "huge"},
          worse |-> {"raises"}]
NamesHere ==
    [Windows |-> {"ProgramData", "cyvera", "cyvera2", "yara_scanner_old", "own", "node_modules",
                  "all users", "x.iso"},
     Linux |-> {"opt", "Opt", "traps", "media", "library", "caches", "firefox", "link", "own"},
     Darwin |-> {"Library", "caches", "firefox", "Volumes", "node_modules", "slack.app",
                 "contents", "frameworks", "build", "own", "._d"}]
(* Names that entries of several parts tell apart also three levels down. *)
Deep == [Windows |-> {"ProgramData", "cyvera", "cyvera2", "own", "node_modules"},
         Linux |-> {"opt", "Opt", "traps", "media", "link", "own"},
         Darwin |-> {"Library", "caches", "firefox", "slack.app", "contents", "frameworks"}]
Within(system) ==
    UNION {[1..n -> NamesHere[system]] : n \in 0..2} \cup [1..3 -> Deep[system]]
Chains(system) ==
    IF system = "Windows" THEN {<<"c:">> \o s : s \in Within(system)}
    ELSE Within(system) \cup {<<n, "library", "caches", "firefox">> : n \in NamesHere[system]}
OwnHere == [Windows |-> <<"c:", "own">>, Linux |-> <<"opt", "own">>, Darwin |-> <<"own">>]
Disk(chain) ==
    {SubSeq(chain, 1, n) \o <<"f">> : n \in 0..Len(chain)}
        \cup {chain \o <<f>> : f \in {"thumbs.db", "fifo", "gone", "._f", "media"}}
World(chain, root) ==
    [dirs |-> {SubSeq(chain, 1, n) : n \in 0..Len(chain)}, drives |-> {<<"c:">>}, root |-> root,
     readable |-> {<<"opt">>}, home |-> <<"Library">>]
(* A walk down one chain of directories; asked for: nothing, or the chain    *)
(* cut short by `up`, the chain, and a directory that is not here.           *)
Default == 9
Down(system, edition, chain, up, root) ==
    [edition |-> edition, system |-> system, own |-> OwnHere[system],
     chunks |-> {<<>>, <<"Opt", "traps">>},
     wanted |-> IF up = Default THEN {}
                ELSE {SubSeq(chain, 1, Len(chain) - up), chain, <<"elsewhere">>},
     world |-> World(chain, root), files |-> Disk(chain)]
ChainsOf == [s \in Systems |-> Chains(s)]
WalksHere ==
    {Down(d.on[1], d.on[2], d.chain, d.up, d.root) :
        d \in {d \in [on : (Systems \X {"xdr"}) \cup {<<"Windows", "xsiam">>},
                       chain : UNION {ChainsOf[s] : s \in Systems},
                       up : {Default} \cup 0..2, root : BOOLEAN] :
                  /\ d.chain \in ChainsOf[d.on[1]]
                  /\ IF d.up = Default THEN Len(d.chain) <= 3
                     ELSE d.up <= Len(d.chain) /\ ~d.root}}
NamesOfAll ==
    {"all users", "build", "c:", "caches", "Caches", "contents", "Contents", "cyvera", "Cyvera",
     "cyvera2", "elsewhere", "f", "fifo", "firefox", "frameworks", "Frameworks", "gone", "library",
     "Library", "link", "media", "node_modules", "opt", "Opt", "own", "private", "proc",
     "programdata", "ProgramData", "slack.app", "thumbs.db", "tmp", "traps", "volumes", "Volumes",
     "x.iso", "yara_scanner", "yara_scanner_old", "._d", "._f"}

Integer == [t \in {"0", "2", "5", "150"} |->
               CASE t = "0" -> 0 [] t = "2" -> 2 [] t = "5" -> 5 [] t = "150" -> 150]
Chunk == [key : {"create_alerts", "write_dataset"}, val : {"true", "off", "perhaps", ""}]
            \cup [key : {"cpu_guarantee"}, val : {"budget", "turbo", ""}]
            \cup [key : {"throttle_mode"}, val : {"off", "os", ""}]
            \cup [key : {"max_pause_secs", "workers"}, val : {"0", "x"}]
            \cup [key : {"typo"}, val : {""}]
Constant == [create_alerts |-> "True", write_dataset |-> "True", collect_files |-> "False",
             cpu_guarantee |-> "headroom", cpu_floor_pct |-> "5", workers |-> "2"]
GivenHere ==
    [options : {<<>>} \cup [1..1 -> Chunk] \cup [1..2 -> Chunk], mode : {"scan", "cancel"},
     args : {Constant, [Constant EXCEPT !["create_alerts"] = "False", !["write_dataset"] = "False"]},
     env : {[guarantee |-> g, threads |-> t, profile |-> "full"] :
               g \in {"", "none"}, t \in {"", "0"}},
     rules : {TRUE}, creds : BOOLEAN]
        \cup [options : {<<>>} \cup {<<c>> : c \in Chunk}, mode : {"scan", "stop"}, args : {Constant},
              env : {[guarantee |-> "", threads |-> "", profile |-> p] : p \in {"light", "dark"}},
              rules : BOOLEAN, creds : BOOLEAN]

Governed ==
    {[policy |-> p, headroom |-> h, budget |-> 20, floor |-> 10, cores |-> c] :
        p \in {"headroom", "budget", "none"}, h \in {40, 100}, c \in {1, 4}}
Percent == {0, 10, 20, 60, 100}

StartsHere == [edition : {"xdr", "xsiam"}, given : GivenHere]

LowerNames == [a |-> "a", A |-> "a", b |-> "b", c |-> "c"]
UpTo2(S) == {{}} \cup {{x, y} : x, y \in S}
Lives == {L \in UpTo2([shard : {"a", "b"}, host : {"a", "b"}, status : {"running", "completed", "failed"},
                      at : 1..2]) :
            \A r, q \in L : r.shard = r.host /\ (r # q => r.at # q.at)}
TenantsHere == [ruleset : {"r1"}, life : Lives, stamps : UpTo2({0, 4, 5, 6, 8, 9, 10, 11, 12, 14}) \ {{}}, hashed : BOOLEAN]
BesideIt == {[ruleset |-> "r1", life |-> {}, stamps |-> {0, 9}, hashed |-> TRUE],
           [ruleset |-> "r2", life |-> {}, stamps |-> {1}, hashed |-> FALSE]}
Told == [name : DOMAIN LowerNames, status : {"initiated", "completed"}, at : 1..3,
         of : {"old", "new"}]
WavesHere == [wanted : {{}, {"a"}, {"A", "b"}, {"a", "A"}, {"b"}}, at : {2}, rows : UpTo2(Told),
          matches : {{}, {"A"}}, down : SUBSET {"lifecycle", "match"}]
=============================================================================
