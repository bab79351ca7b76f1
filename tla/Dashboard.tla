------------------------------- MODULE Dashboard --------------------------------
(* The dashboard's screens that wait for answers, each from its own beginning: the    *)
(* search screen, a note that saves itself, and the page of the orders' jobs.         *)
(* Timers, calls and polls must go on.                                               *)
EXTENDS SearchScreen

CONSTANTS Texts, Blank,     \* what a note can say
          Saves,            \* the calls of a note that can be in flight
          MaxTyped,         \* bound on what is done to a note
          MaxUnsaved,       \* bound on the calls of a note that fail
          MaxActs           \* bound on what the user does on the page of the orders

VARIABLES part,
          stored, held, editor, saving, typed, failed, calm,
          job, page, calls, events, acts, lost, crossed

Note == INSTANCE NoteEditor WITH Calls <- Saves, MaxFaults <- MaxUnsaved

Orders == INSTANCE JobPage WITH Jobs <- Searches

ASSUME DashboardAssumption == Note!NoteAssumption /\ Orders!JobPageAssumption

noteVars == <<stored, held, editor, saving, typed, failed, calm>>
pageVars == <<job, page, calls, events, acts, lost, crossed>>

DashboardInit == part \in {"search", "note", "orders"} /\ Init /\ Note!Init /\ Orders!Init

DashboardNext ==
    /\ UNCHANGED part
    /\ \/ part = "search" /\ Next /\ UNCHANGED <<noteVars, pageVars>>
       \/ part = "note" /\ Note!Next /\ UNCHANGED <<screenVars, pageVars>>
       \/ part = "orders" /\ Orders!Next /\ UNCHANGED <<screenVars, noteVars>>

(* Nothing of a part that has not begun is enabled. *)
FairSpec == /\ DashboardInit /\ [][DashboardNext]_<<part, screenVars, noteVars, pageVars>>
            /\ Fairness /\ Note!Fairness /\ Orders!Fairness

-----------------------------------------------------------------------------
(* The variables of all three keep their types. *)
DashboardTypeOK == TypeOK /\ Note!TypeOK /\ Orders!TypeOK

(* NoteEditor and JobPage: what they tell is so. *)
SavedIsStored == Note!SavedIsStored
ShowsSelected == Orders!ShowsSelected

(* Every screen comes to rest: the search screen is not busy for ever, the panel of a   *)
(* search that is over goes away, what is typed in a note is saved, and the page of the  *)
(* orders is loaded.                                                                *)
ScreensSettle == BusyEnds /\ PanelEnds /\ Note!TypedIsStored /\ Orders!PageSettles
=============================================================================
