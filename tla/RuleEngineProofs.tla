---------------------------- MODULE RuleEngineProofs ----------------------------
(* Proofs about RuleEngine, for any processes, editors, values and listings. *)
EXTENDS RuleEngine, TLAPS

Creates  == "auto_create_high_score"
Excludes == "auto_exclude_low_score"

\* A rule that a row or an edit may have: its default's condition, a value not below the lowest
\* that was asked for, and enabled unless an operator asked to disable it.
Asked(c, r) ==
  /\ r \in Rule
  /\ r.field = DefaultRule(c).field /\ r.operator = DefaultRule(c).operator
  /\ r.action = DefaultRule(c).action
  /\ lowest[c] <= r.value
  /\ c \notin disabled => r.enabled

Tables ==
  /\ DOMAIN table \subseteq Codes
  /\ \A c \in DOMAIN table : Asked(c, table[c])

\* The exclusion is saved first, and no row is ever deleted.
ExclusionFirst ==
  /\ Creates \in DOMAIN table => Excludes \in DOMAIN table
  /\ \A p \in Processes : boot[p] = "second" => Excludes \in DOMAIN table

Edits ==
  /\ DOMAIN edit = Editors
  /\ \A e \in Editors :
       /\ edit[e].pc \in {"idle", "save", "update"}
       /\ edit[e].pc # "idle" => /\ edit[e].code \in DOMAIN table
                                 /\ Asked(edit[e].code, edit[e].rule)
       /\ edit[e].pc = "update" => edit[e].dirty \subseteq {"enabled", "value"}

Starts == boot \in [Processes -> {"down", "first", "second", "third", "up"}]

Lows ==
  /\ lowest \in [Codes -> Int] /\ disabled \subseteq Codes
  /\ \A c \in Codes : lowest[c] <= DefaultRule(c).value

RuleInv == Tables /\ ExclusionFirst /\ Edits /\ Starts /\ Lows

-----------------------------------------------------------------------------
(* The defaults *)

LEMMA DefaultsAsked ==
  ASSUME RuleAssumption, Lows, NEW c \in Codes
  PROVE  Asked(c, DefaultRule(c))
<1>1. CreateThreshold \in Int
  BY DEF RuleAssumption
<1>2. DefaultRule(c) \in Rule /\ DefaultRule(c).enabled
  BY <1>1 DEF DefaultRule, Codes, Rule, Actions
<1> QED
  BY <1>2 DEF Asked, Lows

\* A lower bound that sinks and a rule that is disabled leave what was asked before.
LEMMA StillAsked ==
  ASSUME Lows, Lows', NEW c \in Codes, NEW r, Asked(c, r),
         lowest'[c] <= lowest[c], disabled \subseteq disabled'
  PROVE  Asked(c, r)'
BY DEF Asked, Lows, Rule

LEMMA RuleInit == ASSUME RuleAssumption, Init PROVE RuleInv
<1>1. DOMAIN table = {}
  BY DEF Init
<1>2. \A c \in Codes : DefaultRule(c).value \in Int
  BY DEF RuleAssumption, DefaultRule, Codes
<1> QED
  BY <1>1, <1>2 DEF Init, RuleInv, Tables, ExclusionFirst, Edits, Starts, Lows, Idle

-----------------------------------------------------------------------------
(* Steps *)

LEMMA SeedRowKeeps ==
  ASSUME RuleAssumption, RuleInv, NEW p \in Processes, SeedRow(p)
  PROVE  RuleInv'
<1>1. UNCHANGED <<edit, lowest, disabled>> /\ Lows'
  BY DEF SeedRow, RuleInv, Lows
<1>2. boot[p] \in {"first", "second", "third"}
  BY DEF SeedRow
<1> DEFINE c == SeedOrder[Place(p)]
<1>3. /\ c \in Codes
      /\ boot[p] = "first" => c = Excludes
      /\ boot[p] = "second" => c = Creates
      /\ boot[p] = "third" => c = "price_diff_warning"
      /\ Following[Place(p)] \in {"second", "third", "up"}
      /\ Following[Place(p)] = "second" => boot[p] = "first"
  BY <1>2 DEF SeedOrder, Place, Codes, Excludes, Creates, Following
<1>4. CASE Refused(c)
  <2>1. UNCHANGED table /\ boot' = [boot EXCEPT ![p] = "up"]
    BY <1>4 DEF SeedRow
  <2>2. Tables' /\ Edits'
    BY <1>1, <2>1 DEF RuleInv, Tables, Edits, Asked
  <2>3. Starts' /\ ExclusionFirst'
    BY <2>1 DEF RuleInv, Starts, ExclusionFirst
  <2> QED BY <1>1, <2>2, <2>3 DEF RuleInv
<1>5. CASE ~Refused(c)
  <2>1. /\ table' = [d \in DOMAIN table \cup {c} |-> IF d = c THEN DefaultRule(c) ELSE table[d]]
        /\ boot' = [boot EXCEPT ![p] = Following[Place(p)]]
    BY <1>5 DEF SeedRow
  <2>2. /\ DOMAIN table' = DOMAIN table \cup {c} /\ table'[c] = DefaultRule(c)
        /\ \A d \in DOMAIN table : d # c => table'[d] = table[d]
    BY <2>1
  <2> HIDE DEF c
  <2>3. Asked(c, DefaultRule(c))
    BY <1>3, DefaultsAsked DEF RuleInv
  <2>4. Tables'
    BY <1>1, <1>3, <2>2, <2>3 DEF RuleInv, Tables, Asked
  <2>5. Edits'
    BY <1>1, <2>2 DEF RuleInv, Edits, Asked
  <2>6. Starts'
    BY <1>3, <2>1 DEF RuleInv, Starts
  <2>7. ExclusionFirst'
    <3>1. \A q \in Processes : boot'[q] = "second" => boot[q] = "second" \/ c = Excludes
      BY <1>2, <1>3, <2>1 DEF RuleInv, Starts
    <3>2. c = Creates => boot[p] = "second"
      BY <1>2, <1>3 DEF Creates, Excludes
    <3> QED BY <1>3, <2>2, <3>1, <3>2 DEF RuleInv, ExclusionFirst
  <2> QED BY <1>1, <2>4, <2>5, <2>6, <2>7 DEF RuleInv
<1> QED
  BY <1>4, <1>5

LEMMA UpdateKeeps ==
  ASSUME RuleAssumption, RuleInv, NEW e \in Editors, NEW c \in DOMAIN table,
         NEW flag \in BOOLEAN, NEW v \in Int, UpdateRule(e, c, flag, v)
  PROVE  RuleInv'
<1>0. PICK r : r = [table[c] EXCEPT !.enabled = flag, !.value = v]
  OBVIOUS
<1>1. /\ UNCHANGED <<table, boot>> /\ c \in Codes /\ Asked(c, table[c])
      /\ lowest' = [lowest EXCEPT ![c] = IF v < @ THEN v ELSE @]
      /\ disabled' = IF flag THEN disabled ELSE disabled \cup {c}
      /\ edit' = [edit EXCEPT ![e] = [pc |-> "save", code |-> c, rule |-> r]]
  BY <1>0 DEF UpdateRule, RuleInv, Tables
<1>2. /\ Lows' /\ disabled \subseteq disabled' /\ lowest'[c] <= v
      /\ \A d \in Codes : lowest'[d] <= lowest[d]
  <2>1. \A d \in Codes : DefaultRule(d).value \in Int
    BY DefaultsAsked DEF RuleInv, Asked, Rule
  <2> QED BY <1>1, <2>1 DEF RuleInv, Lows
<1>3. /\ r \in Rule /\ r.field = table[c].field /\ r.operator = table[c].operator
      /\ r.action = table[c].action /\ r.value = v /\ r.enabled = flag
  BY <1>0, <1>1 DEF Asked, Rule
<1>4. c \notin disabled' => flag
  BY <1>1
<1>5. Asked(c, r)'
  <2>1. r.enabled = flag
    BY <1>3
  <2>2. c \notin disabled' => r.enabled
    BY <1>4, <2>1
  <2> QED BY <1>1, <1>2, <1>3, <2>2 DEF Asked
<1>6. \A d \in Codes : \A s : Asked(d, s) => Asked(d, s)'
  BY <1>2, StillAsked DEF RuleInv
<1>7. Tables' /\ ExclusionFirst' /\ Starts'
  BY <1>1, <1>6 DEF RuleInv, Tables, ExclusionFirst, Starts
<1>8. Edits'
  <2>1. /\ DOMAIN edit' = Editors /\ edit'[e] = [pc |-> "save", code |-> c, rule |-> r]
        /\ \A f \in Editors \ {e} : edit'[f] = edit[f]
    BY <1>1 DEF RuleInv, Edits
  <2>2. \A f \in Editors : edit[f].pc # "idle" => edit[f].code \in Codes
    BY DEF RuleInv, Edits, Tables
  <2> QED BY <1>1, <1>5, <1>6, <2>1, <2>2 DEF RuleInv, Edits
<1> QED
  BY <1>2, <1>7, <1>8 DEF RuleInv

LEMMA SaveSelectKeeps ==
  ASSUME RuleAssumption, RuleInv, NEW e \in Editors, SaveSelect(e)
  PROVE  RuleInv'
<1>1. UNCHANGED <<table, boot, lowest, disabled>> /\ edit[e].pc = "save"
  BY DEF SaveSelect
<1>2. PICK dirty \in SUBSET {"enabled", "value"} :
        edit' = [edit EXCEPT ![e] =
                   [pc |-> "update", code |-> edit[e].code, rule |-> edit[e].rule, dirty |-> dirty]]
  BY DEF SaveSelect
<1>3. Tables' /\ ExclusionFirst' /\ Starts' /\ Lows'
  BY <1>1 DEF RuleInv, Tables, ExclusionFirst, Starts, Lows, Asked
<1>4. /\ DOMAIN edit' = Editors
      /\ edit'[e] = [pc |-> "update", code |-> edit[e].code, rule |-> edit[e].rule, dirty |-> dirty]
      /\ \A f \in Editors \ {e} : edit'[f] = edit[f]
  BY <1>2 DEF RuleInv, Edits
<1>5. \A c, s : Asked(c, s) => Asked(c, s)'
  BY <1>1 DEF Asked
<1>6. ASSUME NEW f \in Editors
      PROVE  /\ edit'[f].pc \in {"idle", "save", "update"}
             /\ edit'[f].pc # "idle" => /\ edit'[f].code \in DOMAIN table'
                                        /\ Asked(edit[f].code, edit[f].rule)'
             /\ edit'[f].pc = "update" => edit'[f].dirty \subseteq {"enabled", "value"}
  <2>1. CASE f = e
    <3>1. PICK c, s : c = edit[e].code /\ s = edit[e].rule
      OBVIOUS
    <3>2. /\ edit'[e].pc = "update" /\ edit'[e].code = c /\ edit'[e].rule = s
          /\ edit'[e].dirty \subseteq {"enabled", "value"}
      BY <1>4, <3>1
    <3>3. c \in DOMAIN table' /\ Asked(c, s)'
      BY <1>1, <1>5, <3>1 DEF RuleInv, Edits
    <3> QED BY <2>1, <3>2, <3>3
  <2>2. CASE f # e
    <3>1. PICK c, s : c = edit[f].code /\ s = edit[f].rule
      OBVIOUS
    <3>2. edit'[f] = edit[f]
      BY <1>4, <2>2
    <3>3. /\ edit[f].pc \in {"idle", "save", "update"}
          /\ edit[f].pc # "idle" => c \in DOMAIN table' /\ Asked(c, s)'
          /\ edit[f].pc = "update" => edit[f].dirty \subseteq {"enabled", "value"}
      BY <1>1, <1>5, <3>1 DEF RuleInv, Edits
    <3> QED BY <3>1, <3>2, <3>3
  <2> QED BY <2>1, <2>2
<1>7. Edits'
  BY <1>4, <1>6 DEF Edits
<1> QED
  BY <1>3, <1>7 DEF RuleInv

LEMMA SaveUpdateKeeps ==
  ASSUME RuleAssumption, RuleInv, NEW e \in Editors, SaveUpdate(e)
  PROVE  RuleInv'
<1> DEFINE c == edit[e].code
           old == table[c]
           new == edit[e].rule
           r == [f \in DOMAIN old |-> IF f \in edit[e].dirty THEN new[f] ELSE old[f]]
<1>1. /\ UNCHANGED <<boot, lowest, disabled>> /\ edit[e].pc = "update"
      /\ table' = [table EXCEPT ![c] = r] /\ edit' = [edit EXCEPT ![e] = Idle]
  BY DEF SaveUpdate
<1>2. /\ c \in DOMAIN table /\ Asked(c, new) /\ Asked(c, old)
      /\ edit[e].dirty \subseteq {"enabled", "value"}
  BY <1>1 DEF RuleInv, Edits, Tables
<1>3. Asked(c, r)
  <2>1. /\ DOMAIN old = {"enabled", "value", "field", "operator", "action"}
        /\ r.enabled \in {old.enabled, new.enabled} /\ r.value \in {old.value, new.value}
        /\ r.field = old.field /\ r.operator = old.operator /\ r.action = old.action
    BY <1>2 DEF Asked, Rule
  <2>2. r \in Rule
    BY <1>2, <2>1 DEF Asked, Rule
  <2>3. c \notin disabled => r.enabled
    BY <1>2, <2>1 DEF Asked
  <2>4. lowest[c] <= r.value
    BY <1>2, <2>1 DEF Asked
  <2> QED BY <1>2, <2>1, <2>2, <2>3, <2>4 DEF Asked
<1>4. /\ DOMAIN table' = DOMAIN table /\ table'[c] = r
      /\ \A d \in DOMAIN table : d # c => table'[d] = table[d]
  BY <1>1, <1>2
<1> HIDE DEF r, c
<1>5. Tables'
  BY <1>1, <1>3, <1>4 DEF RuleInv, Tables, Asked
<1>6. ExclusionFirst' /\ Starts' /\ Lows'
  BY <1>1, <1>4 DEF RuleInv, ExclusionFirst, Starts, Lows
<1>7. Edits'
  <2>1. DOMAIN edit' = Editors /\ edit'[e].pc = "idle" /\ \A f \in Editors \ {e} : edit'[f] = edit[f]
    BY <1>1 DEF RuleInv, Edits, Idle
  <2> QED BY <1>1, <1>4, <2>1 DEF RuleInv, Edits, Asked
<1> QED
  BY <1>5, <1>6, <1>7 DEF RuleInv

LEMMA RuleNext ==
  ASSUME RuleAssumption, RuleInv, [Next]_vars
  PROVE  RuleInv'
<1>1. ASSUME UNCHANGED <<table, edit, lowest, disabled>>,
             boot' \in [Processes -> {"down", "first", "second", "third", "up"}],
             \A q \in Processes : boot'[q] = "second" => boot[q] = "second"
      PROVE  RuleInv'
  <2>1. Tables' /\ Edits'
    BY <1>1 DEF RuleInv, Tables, Edits, Asked
  <2>2. ExclusionFirst' /\ Starts' /\ Lows'
    BY <1>1 DEF RuleInv, ExclusionFirst, Starts, Lows
  <2> QED BY <2>1, <2>2 DEF RuleInv
<1>2. ASSUME NEW p \in Processes, Count(p) \/ SeedFails(p) \/ Restart(p) PROVE RuleInv'
  BY <1>1, <1>2 DEF Count, SeedFails, Restart, RuleInv, Starts
<1>3. ASSUME NEW e \in Editors, NEW c \in DOMAIN table, NEW flag \in BOOLEAN,
             NEW v \in Values \cup {table[c].value}, UpdateRule(e, c, flag, v)
      PROVE  RuleInv'
  <2>1. v \in Int
    BY DEF RuleAssumption, RuleInv, Tables, Asked, Rule
  <2> QED BY <1>3, <2>1, UpdateKeeps
<1>4. ASSUME NEW e \in Editors, NEW v \in Values, UpdateCreateThreshold(e, v) PROVE RuleInv'
  <2>1. PICK c \in DOMAIN table :
          UpdateRule(e, c, table[c].enabled, IF v < 0 THEN 0 ELSE IF v > 100 THEN 100 ELSE v)
    BY <1>4 DEF UpdateCreateThreshold
  <2>2. (IF v < 0 THEN 0 ELSE IF v > 100 THEN 100 ELSE v) \in Int
    BY DEF RuleAssumption
  <2>3. table[c].enabled \in BOOLEAN
    BY DEF RuleInv, Tables, Asked, Rule
  <2> QED BY <2>1, <2>2, <2>3, UpdateKeeps
<1>5. CASE UNCHANGED vars
  BY <1>1, <1>5 DEF vars, RuleInv, Starts
<1> QED
  BY <1>2, <1>3, <1>4, <1>5, SeedRowKeeps, SaveSelectKeeps, SaveUpdateKeeps DEF Next

-----------------------------------------------------------------------------
(* Theorems *)

LEMMA RuleInvHolds == ASSUME RuleAssumption PROVE Spec => []RuleInv
<1>1. Init => RuleInv
  BY RuleInit
<1>2. RuleInv /\ [Next]_vars => RuleInv'
  BY RuleNext
<1> QED
  BY <1>1, <1>2, PTL DEF Spec

\* The rows, the boots and the edits keep their types, and every row the field and action of its
\* default.
THEOREM TypeCorrect == ASSUME RuleAssumption PROVE Spec => []TypeOK
<1>1. RuleInv => TypeOK
  BY DEF RuleInv, Tables, Edits, Starts, Lows, Asked, TypeOK
<1> QED
  BY <1>1, RuleInvHolds, PTL

\* What the rules of the moment decide on one listing.
LEMMA CreationAsked ==
  ASSUME RuleAssumption, RuleInv, NEW ctx \in Contexts, NEW readable \in BOOLEAN,
         Evaluate(ctx, readable).create
  PROVE  /\ ctx.aiScore >= lowest[Creates]
         /\ Excludes \in disabled \/ ctx.aiScore >= lowest[Excludes]
<1> DEFINE rules == ActiveRules(readable)
<1>1. Hit(rules, ctx, "create_investigation") /\ ~Hit(rules, ctx, "exclude")
  BY DEF Evaluate, Outcome
<1>2. PICK r \in rules : r.action = "create_investigation" /\ Matches(r, ctx)
  BY <1>1 DEF Hit
<1>3. ctx.aiScore \in 0..100 /\ ctx.aiScore # Null
  BY DEF RuleAssumption, Null
<1>4. \A s \in rules : \E c \in Codes : /\ Asked(c, s)
                                        /\ s = DefaultRule(c) \/ (c \in DOMAIN table /\ s = table[c])
  BY DefaultsAsked DEF ActiveRules, RuleInv, Tables
<1>5. Asked(Creates, r) /\ (r = DefaultRule(Creates) \/ (Creates \in DOMAIN table /\ r = table[Creates]))
  <2>1. \A c \in Codes : DefaultRule(c).action = "create_investigation" => c = Creates
    BY DEF Codes, DefaultRule, Creates
  <2> QED BY <1>2, <1>4, <2>1 DEF Asked
<1>6. ctx.aiScore >= lowest[Creates]
  <2>1. r.field = "aiScore" /\ r.operator = "gte" /\ lowest[Creates] <= r.value /\ r.value \in Int
    BY <1>5 DEF Asked, Rule, DefaultRule, Creates
  <2>2. ctx.aiScore >= r.value
    BY <1>2, <2>1 DEF Matches, Compare
  <2>3. lowest[Creates] \in Int
    BY DEF RuleInv, Lows, Codes, Creates
  <2> QED BY <1>3, <2>1, <2>2, <2>3
<1>7. ASSUME Excludes \notin disabled PROVE ctx.aiScore >= lowest[Excludes]
  <2>1. PICK s \in rules : Asked(Excludes, s)
    <3>1. CASE rules = {DefaultRule(c) : c \in Codes}
      BY <3>1, DefaultsAsked DEF RuleInv, Codes, Excludes
    <3>2. CASE rules # {DefaultRule(c) : c \in Codes}
      <4>1. rules = {table[c] : c \in {d \in DOMAIN table : table[d].enabled}}
        BY <3>2 DEF ActiveRules
      <4>2. PICK d \in DOMAIN table : r = table[d]
        BY <1>2, <4>1
      <4>3. d = Creates
        <5>1. Asked(d, table[d]) /\ d \in Codes
          BY DEF RuleInv, Tables
        <5>2. DefaultRule(d).action = "create_investigation"
          BY <1>2, <4>2, <5>1 DEF Asked
        <5> QED BY <5>1, <5>2 DEF Codes, DefaultRule, Creates
      <4>4. Excludes \in DOMAIN table
        BY <4>2, <4>3 DEF RuleInv, ExclusionFirst
      <4>5. Asked(Excludes, table[Excludes])
        BY <4>4 DEF RuleInv, Tables
      <4>6. table[Excludes].enabled
        BY <1>7, <4>5 DEF Asked
      <4>7. table[Excludes] \in rules
        BY <4>1, <4>4, <4>6
      <4> QED BY <4>5, <4>7
    <3> QED BY <3>1, <3>2
  <2>2. /\ s.field = "aiScore" /\ s.operator = "lt" /\ s.action = "exclude"
        /\ lowest[Excludes] <= s.value /\ s.value \in Int
    BY <2>1 DEF Asked, Rule, DefaultRule, Excludes
  <2>3. ~Matches(s, ctx)
    BY <1>1, <2>2 DEF Hit
  <2>4. ~(ctx.aiScore < s.value)
    BY <1>3, <2>2, <2>3 DEF Matches, Compare
  <2>5. lowest[Excludes] \in Int
    BY DEF RuleInv, Lows, Codes, Excludes
  <2> QED BY <1>3, <2>2, <2>4, <2>5
<1> QED
  BY <1>6, <1>7

\* No listing becomes a case at a score that no default and no operator asked for, and none below
\* every exclusion given unless the exclusion was disabled: whatever the processes seed and the
\* operators save, in any order.
THEOREM CreationAskedFor == ASSUME RuleAssumption PROVE Spec => []CreationWasAsked
<1>1. RuleInv => CreationWasAsked
  BY CreationAsked DEF CreationWasAsked, Creates, Excludes
<1> QED
  BY <1>1, RuleInvHolds, PTL
=============================================================================
