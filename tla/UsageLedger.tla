------------------------------- MODULE UsageLedger -------------------------------
(* The rows AI calls and crawls leave for the dashboard's metrics, what they cost, *)
(* and the cleanup that deletes the old ones in batches.  ai/cost/ and             *)
(* modules/retention/retention-cleanup.service.ts.  A day is the unit of time; a   *)
(* month has MonthDays of them.                                                    *)
EXTENDS Integers, Sequences, FiniteSets, FiniteSetsExt

CONSTANTS Models,           \* models that are called
          Table,            \* names that have a price, in the order they are listed
          Contains(_, _),   \* the name of a model contains another name
          PriceOf(_),       \* of a listed name; AI_COST_PRICES_JSON comes first
          Fallback,         \* FALLBACK_AI_MODEL_PRICE
          MonthDays, AttemptDays, UsageDays, BatchSize, MaxDay, MaxRows, MaxAttempts

(* The defaults are 90 and 180 days, and batches of 1000. A cost below 0 counts 0. *)
LedgerAssumption ==
    /\ MonthDays \in Nat \ {0} /\ UsageDays >= MonthDays /\ AttemptDays \in Nat
    /\ UsageDays \in Nat /\ BatchSize \in Nat \ {0} /\ {MaxDay, MaxRows, MaxAttempts} \subseteq Nat
    /\ Table \in Seq(STRING) /\ Fallback \in Nat /\ \A i \in DOMAIN Table : PriceOf(Table[i]) \in Nat

VARIABLES today,
          usage,        \* ai_usage_logs: [id, day, model, cost]
          attempts,     \* crawl_site_attempts: [id, day]
          cleaner,      \* the cleanup: what it deletes next and from which day it started
          lastRun       \* the day of the last complete cleanup, or -1

vars == <<today, usage, attempts, cleaner, lastRun>>

Resting == [pc |-> "idle", from |-> 0]

Init == /\ today = 0 /\ usage = {} /\ attempts = {}
        /\ cleaner = Resting /\ lastRun = -1

-----------------------------------------------------------------------------
(* resolveModelPrice: the first name that the model's contains. *)

Listed == Table

Priced(model) ==
    LET hits == {i \in DOMAIN Listed : Contains(model, Listed[i])}
    IN  IF hits = {} THEN Fallback
        ELSE PriceOf(Listed[CHOOSE i \in hits : \A j \in hits : i <= j])

(* AiCostService.record, one row for a call; a row that cannot be written is lost  *)
(* without notice, which is no step here. A call costs one unit of tokens.        *)
Record(model) ==
    /\ Cardinality(usage) < MaxRows
    /\ \E id \in 1..MaxRows :
          /\ \A r \in usage : r.id # id
          /\ \A i \in 1..(id - 1) : \E r \in usage : r.id = i
          /\ usage' = usage \cup {[id |-> id, day |-> today, model |-> model,
                                   cost |-> Priced(model)]}
    /\ UNCHANGED <<today, attempts, cleaner, lastRun>>

(* recordSiteAttempt of the crawler. *)
Attempt ==
    /\ Cardinality(attempts) < MaxAttempts
    /\ \E id \in 1..MaxAttempts :
          /\ \A r \in attempts : r.id # id
          /\ \A i \in 1..(id - 1) : \E r \in attempts : r.id = i
          /\ attempts' = attempts \cup {[id |-> id, day |-> today]}
    /\ UNCHANGED <<today, usage, cleaner, lastRun>>

Tick == today < MaxDay /\ today' = today + 1 /\ UNCHANGED <<usage, attempts, cleaner, lastRun>>

-----------------------------------------------------------------------------
(* runCleanup: first the attempts, then the usage, each until a batch is not full. *)

(* A slip of UsageCutoff: the days of the other table. *)
SameCutoff(day) == day - AttemptDays

UsageCutoff(day) == day - UsageDays
AttemptCutoff(day) == day - AttemptDays

Old(table, cutoff) == {r \in table : r.day < cutoff}

StartCleanup ==
    /\ cleaner.pc = "idle" /\ cleaner' = [pc |-> "attempts", from |-> today]
    /\ UNCHANGED <<today, usage, attempts, lastRun>>

(* A slip of MoreToDelete: the loop has no end. *)
Forever(n) == TRUE

(* A slip of MoreToDelete: one batch is enough. *)
OneBatch(n) == FALSE

MoreToDelete(n) == n >= BatchSize

(* One DELETE: any BatchSize of the old rows, or all of them. *)
Batch(table, cutoff) ==
    {S \in SUBSET Old(table, cutoff) :
        Cardinality(S) = IF Cardinality(Old(table, cutoff)) < BatchSize
                         THEN Cardinality(Old(table, cutoff)) ELSE BatchSize}

DeleteAttempts ==
    /\ cleaner.pc = "attempts"
    /\ \E S \in Batch(attempts, AttemptCutoff(cleaner.from)) :
          /\ attempts' = attempts \ S
          /\ cleaner' = IF MoreToDelete(Cardinality(S)) THEN cleaner
                        ELSE [cleaner EXCEPT !.pc = "usage"]
    /\ UNCHANGED <<today, usage, lastRun>>

DeleteUsage ==
    /\ cleaner.pc = "usage"
    /\ \E S \in Batch(usage, UsageCutoff(cleaner.from)) :
          /\ usage' = usage \ S
          /\ IF MoreToDelete(Cardinality(S)) THEN UNCHANGED <<cleaner, lastRun>>
             ELSE cleaner' = Resting /\ lastRun' = cleaner.from
    /\ UNCHANGED <<today, attempts>>

(* A statement fails, or the process is killed. *)
CleanupFails ==
    /\ cleaner.pc # "idle" /\ cleaner' = Resting
    /\ UNCHANGED <<today, usage, attempts, lastRun>>

Clean == DeleteAttempts \/ DeleteUsage

Next == \/ \E m \in Models : Record(m)
        \/ Attempt \/ Tick \/ StartCleanup \/ Clean \/ CleanupFails

(* The statements of a cleanup are executed one after the other. *)
Fairness == WF_vars(Clean)

-----------------------------------------------------------------------------
(* getDashboardSummary: the rows of a month. *)

MonthStart(day) == (day \div MonthDays) * MonthDays
InMonth(rows, day) == {r \in rows : r.day \in MonthStart(day)..(MonthStart(day) + MonthDays - 1)}

(* aggregateBucket. *)
Bucket(rows) ==
    [calls |-> Cardinality(rows),
     cost |-> MapThenFoldSet(LAMBDA x, y : x + y, 0, LAMBDA r : r.cost,
                             LAMBDA S : CHOOSE r \in S : TRUE, rows)]

-----------------------------------------------------------------------------

(* The month on the dashboard never shrinks while it lasts, whatever is cleaned up: *)
(* calls and cost are only added to it.                                           *)
MonthKept ==
    [][MonthStart(today') = MonthStart(today) =>
          LET before == Bucket(InMonth(usage, today))
              after  == Bucket(InMonth(usage', today))
          IN  after.calls >= before.calls /\ after.cost >= before.cost]_vars

(* When a cleanup reports itself complete, both tables have nothing older than the  *)
(* days configured, of all that was there when it started.                        *)
NothingOldLeft ==
    [][lastRun' # lastRun => /\ Old(attempts', AttemptCutoff(lastRun')) = {}
                             /\ Old(usage', UsageCutoff(lastRun')) = {}]_vars

(* A cleanup ends, though calls and crawls add rows all the time. *)
CleanupEnds == cleaner.pc # "idle" ~> cleaner.pc = "idle"

=============================================================================
