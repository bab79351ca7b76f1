----------------------------------- MODULE Cases -----------------------------------
(* The cases seen from three sides, each from its own beginning: the runs, calls and   *)
(* deletions that race for single cases, a job that opens cases for the listings of    *)
(* all its searches and reports them, and the dashboard that shows cases and asks for   *)
(* changes.  They have no state in common here.                                        *)
EXTENDS InvestigationCase, Integers

CONSTANTS Histories, Representative, Crawled, Similarities, AiScores, ExcludeBelow, WatchFrom,
          Batch, MaxFaults,                             \* a job's outcome
          Shown, None, Slots, MaxClicks, MaxFailures, Starts    \* the cases on the dashboard

VARIABLES part,
          success, canMatch, links, case, loop, targets, matched, told, faults, judged, mine,
          server, screen, call, clicks, failed

Outcome   == INSTANCE JobOutcome WITH row <- links, actor <- loop
Dashboard == INSTANCE CaseScreen WITH Cases <- Shown, MaxFaults <- MaxFailures, faults <- failed

ASSUME CasesAssumption ==
    Outcome!OutcomeAssumption /\ Dashboard!CaseScreenAssumption

outcomeVars == <<success, canMatch, links, case, loop, targets, matched, told, faults, judged, mine>>
screenVars  == <<server, screen, call, clicks, failed>>

CasesInit ==
    /\ part \in {"races", "outcome", "screen"} /\ Init
    /\ IF part = "screen" THEN Dashboard!Init
       ELSE /\ server = << >> /\ screen = << >> /\ call = << >> /\ clicks = 0 /\ failed = 0
    /\ IF part = "outcome" THEN Outcome!Init
       ELSE /\ success = {} /\ canMatch = FALSE /\ links = << >> /\ case = << >> /\ loop = << >>
            /\ targets = {} /\ matched = << >> /\ told = -1 /\ faults = 0
            /\ judged = {} /\ mine = {}

CasesNext ==
    /\ UNCHANGED part
    /\ \/ part = "races" /\ Next /\ UNCHANGED <<outcomeVars, screenVars>>
       \/ part = "outcome" /\ Outcome!Next /\ UNCHANGED <<vars, screenVars>>
       \/ part = "screen" /\ Dashboard!Next /\ UNCHANGED <<vars, outcomeVars>>

CasesSpec == CasesInit /\ [][CasesNext]_<<part, vars, outcomeVars, screenVars>>

-----------------------------------------------------------------------------
(* JobOutcome: the back office is told of a job when its investigation is complete. *)
ReportedInFull == part = "outcome" => Outcome!ReportedInFull

(* CaseScreen: what the drawer shows and asks, and what it offers.                    *)
DrawerTells     == part = "screen" => Dashboard!DrawerTells
RefusedOnlyLate == [][part = "screen" => Dashboard!OfferHeld]_<<server, call>>

=============================================================================
