------------------------------- MODULE RuleEngine -------------------------------
(* The rules that decide whether a listing becomes a case: a table seeded by      *)
(* every process that boots, edited by operators, and evaluated against listings. *)
(* ai/rules/ai-rule-engine.service.ts and default-rules.ts.                       *)
EXTENDS Integers, FiniteSets, Sequences

CONSTANTS Processes,        \* processes that load AppModule
          Editors,          \* update calls that may be open at one time
          Values,           \* values operators give to a rule (not checked by updateRule)
          Contexts,         \* what is known of the listings evaluated
          CreateThreshold   \* INVESTIGATION_AI_SCORE_THRESHOLD

Null == -1                  \* a score or a difference that is not known

RuleAssumption ==
    /\ Values \subseteq Int /\ CreateThreshold \in 0..100
    /\ Contexts \subseteq [aiScore : 0..100, priceDiffPercent : Nat \cup {Null}]

Codes   == {"auto_exclude_low_score", "auto_create_high_score", "price_diff_warning"}
Actions == {"exclude", "create_investigation", "warning"}
Rule    == [enabled : BOOLEAN, value : Int, field : {"aiScore", "priceDiffPercent"},
            operator : {"lt", "gte"}, action : Actions]

(* buildDefaultAiRules. *)
DefaultRule(c) ==
    CASE c = "auto_exclude_low_score" ->
           [enabled |-> TRUE, value |-> 50, field |-> "aiScore", operator |-> "lt",
            action |-> "exclude"]
      [] c = "auto_create_high_score" ->
           [enabled |-> TRUE, value |-> CreateThreshold, field |-> "aiScore",
            operator |-> "gte", action |-> "create_investigation"]
      [] c = "price_diff_warning" ->
           [enabled |-> TRUE, value |-> 70, field |-> "priceDiffPercent",
            operator |-> "gte", action |-> "warning"]

(* A slip of SeedOrder: the exclusion is not saved first. *)
CreateFirst == <<"auto_create_high_score", "auto_exclude_low_score", "price_diff_warning">>

(* The order in which the defaults are listed, and saved. *)
SeedOrder == <<"auto_exclude_low_score", "auto_create_high_score", "price_diff_warning">>

VARIABLES
    table,      \* ai_rules: the rows there are, by their unique code
    boot,       \* per process: "down", which default it saves next, or "up"
    edit,       \* per editor: the call's state and the entity it holds
    lowest,     \* history: per code, the lowest value its default or an operator gave it
    disabled    \* history: the codes an operator has asked to disable

vars == <<table, boot, edit, lowest, disabled>>

Idle == [pc |-> "idle"]

Init ==
    /\ table = << >>
    /\ boot = [p \in Processes |-> "down"]
    /\ edit = [e \in Editors |-> Idle]
    /\ lowest = [c \in Codes |-> DefaultRule(c).value]
    /\ disabled = {}

-----------------------------------------------------------------------------
(* ensureSeeded, by every process that boots. *)

Count(p) ==
    /\ boot[p] = "down"
    /\ boot' = [boot EXCEPT ![p] = IF DOMAIN table = {} THEN "first" ELSE "up"]
    /\ UNCHANGED <<table, edit, lowest, disabled>>

(* The place of the default that p saves next. *)
Place(p) == CASE boot[p] = "first" -> 1 [] boot[p] = "second" -> 2 [] boot[p] = "third" -> 3
Following == <<"second", "third", "up">>

Refused(c) == c \in DOMAIN table

(* One insert; the unique code makes it fail when another process was first, and  *)
(* the error ends the whole seeding ("seed skipped").                            *)
SeedRow(p) ==
    /\ boot[p] \in {"first", "second", "third"}
    /\ LET c == SeedOrder[Place(p)]
       IN  IF Refused(c)
           THEN /\ boot' = [boot EXCEPT ![p] = "up"] /\ UNCHANGED table
           ELSE /\ table' = [d \in DOMAIN table \cup {c} |->
                               IF d = c THEN DefaultRule(c) ELSE table[d]]
                /\ boot' = [boot EXCEPT ![p] = Following[Place(p)]]
    /\ UNCHANGED <<edit, lowest, disabled>>

(* A database error in either, or a process that restarts. *)
SeedFails(p) ==
    /\ boot[p] # "up" /\ boot' = [boot EXCEPT ![p] = "up"]
    /\ UNCHANGED <<table, edit, lowest, disabled>>

Restart(p) ==
    /\ boot[p] # "down" /\ boot' = [boot EXCEPT ![p] = "down"]
    /\ UNCHANGED <<table, edit, lowest, disabled>>

-----------------------------------------------------------------------------
(* updateRule and updateCreateThreshold: read the row, change the entity, save it. *)
(* save selects the row again and updates the columns in which the entity differs. *)

UpdateRule(e, c, flag, v) ==
    /\ edit[e].pc = "idle" /\ c \in DOMAIN table
    /\ edit' = [edit EXCEPT ![e] = [pc |-> "save", code |-> c,
                                   rule |-> [table[c] EXCEPT !.enabled = flag, !.value = v]]]
    /\ lowest' = [lowest EXCEPT ![c] = IF v < @ THEN v ELSE @]
    /\ disabled' = IF flag THEN disabled ELSE disabled \cup {c}
    /\ UNCHANGED <<table, boot>>

(* The threshold's own call finds the rule by its action and clamps the value. *)
UpdateCreateThreshold(e, v) ==
    \E c \in DOMAIN table :
        /\ table[c].action = "create_investigation"
        /\ UpdateRule(e, c, table[c].enabled, IF v < 0 THEN 0 ELSE IF v > 100 THEN 100 ELSE v)

SaveSelect(e) ==
    /\ edit[e].pc = "save"
    /\ LET row == table[edit[e].code]
           new == edit[e].rule
       IN  edit' = [edit EXCEPT ![e] =
                      [pc |-> "update", code |-> @.code, rule |-> new,
                       dirty |-> {f \in {"enabled", "value"} : new[f] # row[f]}]]
    /\ UNCHANGED <<table, boot, lowest, disabled>>

SaveUpdate(e) ==
    /\ edit[e].pc = "update"
    /\ table' = [table EXCEPT ![edit[e].code] =
                   [f \in DOMAIN @ |-> IF f \in edit[e].dirty THEN edit[e].rule[f] ELSE @[f]]]
    /\ edit' = [edit EXCEPT ![e] = Idle]
    /\ UNCHANGED <<boot, lowest, disabled>>

-----------------------------------------------------------------------------
(* evaluate, which reads the rules once and changes nothing. *)

(* getActiveRules: the enabled rows; without any, or when the read fails, the     *)
(* defaults, as loadConfigDefinitions has them.                                  *)
ActiveRules(readable) ==
    LET rows == {table[c] : c \in {d \in DOMAIN table : table[d].enabled}}
    IN  IF readable /\ rows # {} THEN rows ELSE {DefaultRule(c) : c \in Codes}

Compare(actual, operator, expected) ==
    CASE operator = "gte" -> actual >= expected
      [] operator = "lt"  -> actual < expected

(* A field that is not known matches no rule. *)
Matches(rule, ctx) ==
    ctx[rule.field] # Null /\ Compare(ctx[rule.field], rule.operator, rule.value)

Hit(rules, ctx, action) == \E r \in rules : r.action = action /\ Matches(r, ctx)

(* An exclusion suppresses the creation; a warning is reported in any case. *)
Outcome(rules, ctx) ==
    [exclude |-> Hit(rules, ctx, "exclude"),
     create  |-> Hit(rules, ctx, "create_investigation") /\ ~Hit(rules, ctx, "exclude"),
     warning |-> Hit(rules, ctx, "warning")]

Evaluate(ctx, readable) == Outcome(ActiveRules(readable), ctx)

Next ==
    \/ \E p \in Processes : Count(p) \/ SeedRow(p) \/ SeedFails(p) \/ Restart(p)
    \/ \E e \in Editors, c \in DOMAIN table, flag \in BOOLEAN :
          \E v \in Values \cup {table[c].value} : UpdateRule(e, c, flag, v)
    \/ \E e \in Editors, v \in Values : UpdateCreateThreshold(e, v)
    \/ \E e \in Editors : SaveSelect(e) \/ SaveUpdate(e)

Spec == Init /\ [][Next]_vars

-----------------------------------------------------------------------------
(* Types; a row of the table always carries its default's field and action. *)
TypeOK ==
    /\ DOMAIN table \subseteq Codes
    /\ \A c \in DOMAIN table : /\ table[c] \in Rule
                              /\ table[c].action = DefaultRule(c).action
    /\ boot \in [Processes -> {"down", "first", "second", "third", "up"}]
    /\ \A e \in Editors : edit[e].pc \in {"idle", "save", "update"}
    /\ lowest \in [Codes -> Int] /\ disabled \subseteq Codes

(* A listing becomes a case only at a score that reaches some threshold given by   *)
(* the defaults or an operator, and unless the exclusion was ever disabled, one    *)
(* that some exclusion given lets through: neither a half-seeded table, a stale    *)
(* save, a failed read nor the return to the defaults lets another through.        *)
CreationWasAsked ==
    \A ctx \in Contexts, readable \in BOOLEAN :
        Evaluate(ctx, readable).create =>
          /\ ctx.aiScore >= lowest["auto_create_high_score"]
          /\ \/ "auto_exclude_low_score" \in disabled
             \/ ctx.aiScore >= lowest["auto_exclude_low_score"]

=============================================================================
