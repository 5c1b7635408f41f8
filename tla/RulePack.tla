------------------------------ MODULE RulePack ------------------------------
(***************************************************************************)
(* What becomes of a rules file: the gate of the pack automations           *)
(* (validate_rules), the transport as base64, the test on the endpoint      *)
(* (decode_yara_rules), the cut into rules and the compilation of each rule *)
(* on its own, so that one rule cannot take the others down.  The editions  *)
(* cut differently: XDR by lines, XSIAM by the words outside strings,       *)
(* comments and braces.                                                     *)
(*                                                                          *)
(* A file is a sequence of items: an import, a rule, or a line that opens   *)
(* or closes a block comment.                                               *)
(***************************************************************************)
EXTENDS Naturals, Sequences, FiniteSets, FiniteSetsExt

CONSTANTS
    Probed      \* the module names that are probed whatever the file imports

Import(m) == [is |-> "import", mod |-> m]
Open == [is |-> "open"]
Close == [is |-> "close"]
(* hidden: declared private or global.  uses, says: modules its condition    *)
(* refers to, or a string merely contains.  calls: rules it refers to.       *)
Rule(n) == [is |-> "rule", name |-> n, hidden |-> FALSE, uses |-> {}, says |-> {},
            calls |-> {}, ok |-> TRUE, cond |-> TRUE, closed |-> TRUE]

InComment(t, i) ==
    \E j \in 1..(i - 1) : t[j].is = "open" /\ \A k \in (j + 1)..(i - 1) : t[k].is # "close"

Lines(t, kind) == {i \in 1..Len(t) : t[i].is = kind}
ModsAt(t, I) == {t[i].mod : i \in I}

(* A brace that is never closed hides all that follows from the words at     *)
(* depth 0.                                                                  *)
TopLevel(t) ==
    {i \in Lines(t, "import") \cup Lines(t, "rule") :
        /\ ~InComment(t, i)
        /\ \A j \in 1..(i - 1) :
              t[j].is = "rule" /\ ~InComment(t, j) => t[j].closed}

(* _get_yara_top_level_statements (XSIAM): a modifier belongs to its rule. *)
Statements(t, kind) == TopLevel(t) \cap Lines(t, kind)

-----------------------------------------------------------------------------
(* validate_rules: the gate before dispatch.  Comments are not looked into   *)
(* for braces; declarations and conditions are counted wherever they are.    *)
BraceBalance(t) == Cardinality({i \in Lines(t, "rule") : ~InComment(t, i) /\ ~t[i].closed})

Verdict(t) ==
    LET names == Lines(t, "rule")
    IN  IF names = {} THEN "no_rules"
        ELSE IF BraceBalance(t) # 0 THEN "unbalanced_braces"
        ELSE IF Cardinality({i \in names : t[i].cond}) < Cardinality(names)
             THEN "missing_conditions"
        ELSE "valid"
Validated(t) == Verdict(t) = "valid"

(* How a file travels: plain base64; with - and _; with the prefix "b64:";   *)
(* with a stray character; not at all.                                       *)
Carriers == {"plain", "urlsafe", "prefixed", "stray", "empty"}
NoText == <<>>
Garbage == <<[is |-> "garbage"]>>

(* decode_b64 repairs layout and nothing else... *)
DecodeB64(how, t) == IF how = "plain" THEN t ELSE NoText

(* ...and decode_rules holds the text to the gate unless told not to.        *)
DecodeRules(how, t, validate) ==
    LET text == DecodeB64(how, t)
    IN  [ok |-> text # NoText /\ (validate => Validated(t)), rules |-> text]

(* _b64_to_text on the endpoint: a stray character is dropped, which shifts  *)
(* all that follows.                                                         *)
B64ToText(how, t) ==
    CASE how = "empty" -> NoText
      [] how = "stray" -> Garbage
      [] OTHER -> t

(* decode_yara_rules: some rule declaration. *)
XdrStarts(t) == {i \in Lines(t, "rule") : ~t[i].hidden}
XdrDecodes(how, t) == B64ToText(how, t) = t /\ XdrStarts(t) # {}
XsiamDecodes(how, t) == B64ToText(how, t) = t /\ Statements(t, "rule") # {}

-----------------------------------------------------------------------------
(* The cut. *)
Cut(t, i, ends) == SubSeq(t, i, Min({j \in ends : j > i} \cup {Len(t) + 1}) - 1)

(* Seeded fault: a block runs to the next rule, imports and all. *)
ToNextRule(t) == {<<i, Cut(t, i, Statements(t, "rule"))>> : i \in Statements(t, "rule")}

XdrSplit(t) == {<<i, Cut(t, i, XdrStarts(t))>> : i \in XdrStarts(t)}
XsiamSplit(t) == {<<i, Cut(t, i, TopLevel(t))>> : i \in Statements(t, "rule")}

XdrImports(t) == ModsAt(t, Lines(t, "import"))
XsiamImports(t) == ModsAt(t, Statements(t, "import"))

(* _get_available_yara_modules: what is probed, and what the file imports. *)
XdrAvailable(engine, t) == engine \cap (Probed \cup XdrImports(t))

XsiamAvailable(engine, t) == engine \cap (Probed \cup XsiamImports(t))

(* libyara: what it finds undefined, or that the text is no rule at all.     *)
SyntaxError == "syntax"
Live(b) == {i \in Lines(b, "rule") : ~InComment(b, i)}
Torn(b) ==
    \/ \E i \in Lines(b, "open") : \A j \in (i + 1)..Len(b) : b[j].is # "close"
    \/ \E i \in Lines(b, "close") : ~InComment(b, i)
LiveImports(b) == ModsAt(b, {i \in Lines(b, "import") : ~InComment(b, i)})

Defects(engine, imports, b) ==
    IF \/ Torn(b)
       \/ \E i \in Live(b) : ~(b[i].ok /\ b[i].cond /\ b[i].closed)
       \/ ~(imports \cup LiveImports(b) \subseteq engine)
    THEN {SyntaxError}
    ELSE UNION {(b[i].uses \ (imports \cup LiveImports(b)))
                 \cup (b[i].calls \ {b[j].name : j \in {k \in Live(b) : k < i}}) : i \in Live(b)}

(* _inject_missing_rule_imports: by the look of the text, so that a module   *)
(* that a string only mentions is imported too.                              *)
Inject(b, available) ==
    available \cap Probed \cap UNION {b[i].uses \cup b[i].says : i \in Lines(b, "rule")}

(* _rule_uses_unavailable_modules: any import line of the block (XDR); no    *)
(* block of the XSIAM edition has one.                                       *)
XdrUnavailable(b, available) == ModsAt(b, Lines(b, "import")) \ available
XsiamUnavailable(b, available) == ModsAt(b, Statements(b, "import")) \ available

(* _module_missing_from_compile_error *)
XdrMissing(defects, imported, available) == (defects \cap imported) \ available
XsiamMissing(defects, imported, available) == (defects \cap imported) \ available

(* One rule: what the loop of _compile_yara_rules makes of it. *)
XdrFate(t, engine, b) ==
    LET avail == XdrAvailable(engine, t)
        preamble == XdrImports(t) \cap avail
        defects == Defects(engine, preamble \cup Inject(b, avail), b)
    IN  IF XdrUnavailable(b, avail) # {} THEN "skipped"
        ELSE IF defects = {} THEN "valid"
        ELSE IF XdrMissing(defects, XdrImports(t), avail) # {} THEN "skipped" ELSE "failed"

(* Seeded fault: a rule that inherits an import it cannot have has failed. *)
NeverMissing(t, engine, b) ==
    LET avail == XsiamAvailable(engine, t)
    IN  IF Defects(engine, (XsiamImports(t) \cap avail) \cup Inject(b, avail), b) = {}
        THEN "valid" ELSE "failed"

XsiamFate(t, engine, b) ==
    LET avail == XsiamAvailable(engine, t)
        preamble == XsiamImports(t) \cap avail
        defects == Defects(engine, preamble \cup Inject(b, avail), b)
    IN  IF XsiamUnavailable(b, avail) # {} THEN "skipped"
        ELSE IF defects = {} THEN "valid"
        ELSE IF XsiamMissing(defects, XsiamImports(t), avail) # {} THEN "skipped"
        ELSE "failed"

(* What it raises if nothing compiles tells rules that are broken from an    *)
(* agent that cannot run them.                                               *)
Outcome(blocks, fate) ==
    LET Those(f) == {x[1] : x \in {y \in blocks : fate[y] = f}}
    IN  [valid |-> Those("valid"), failed |-> Those("failed"), skipped |-> Those("skipped"),
         raises |-> IF blocks = {} THEN "no_rules"
                    ELSE IF Those("valid") # {} THEN "no"
                    ELSE IF Those("failed") = {} THEN "agent_limit" ELSE "no_valid_rules"]

XdrCompile(t, engine) ==
    Outcome(XdrSplit(t), [x \in XdrSplit(t) |-> XdrFate(t, engine, x[2])])
XsiamCompile(t, engine) ==
    Outcome(XsiamSplit(t), [x \in XsiamSplit(t) |-> XsiamFate(t, engine, x[2])])

-----------------------------------------------------------------------------
(* A rule that an agent can run: nothing is wrong with it, it refers to no   *)
(* other rule, and the modules it uses are imported and there.               *)
Sound(t, engine, i) ==
    /\ t[i].ok /\ t[i].calls = {}
    /\ t[i].uses \subseteq engine \cap XsiamImports(t)

(* Standing alone: of a file that has passed the gate, however it travels,  *)
(* the endpoint reads the text that was gated, and the XSIAM edition runs    *)
(* every rule that the agent can run, whatever the others are like; the XDR  *)
(* edition reads it if one of them is neither private nor global.            *)
StandsAlone(t, engine) ==
    \A how \in Carriers :
        DecodeRules(how, t, TRUE).ok /\ ~Torn(t) =>
            \A i \in Statements(t, "rule") :
                Sound(t, engine, i) =>
                    /\ XsiamDecodes(how, t) /\ i \in XsiamCompile(t, engine).valid
                    /\ ~t[i].hidden => XdrDecodes(how, t)

(* Nothing is booked as skipped, the agent's limit, unless the rule uses a   *)
(* module that the agent lacks; and nothing is booked as failed that only    *)
(* lacks one.                                                                *)
SkippedNeeds(t, engine) ==
    LET out == XsiamCompile(t, engine)
    IN  /\ \A i \in out.skipped : ~(t[i].uses \subseteq engine)
        /\ \A i \in out.failed :
              t[i].uses \subseteq XsiamImports(t) /\ t[i].closed /\ t[i].cond =>
                  Torn(t) \/ ~t[i].ok \/ t[i].calls # {}
=============================================================================
