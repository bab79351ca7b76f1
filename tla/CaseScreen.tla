------------------------------- MODULE CaseScreen -------------------------------
(* The cases on the dashboard: web/src/features/investigation.  The provider holds  *)
(* a list of cases and the one selected; the drawer shows it, slides in and out, and *)
(* offers what may be done with it; a call is sent, served and answered at three     *)
(* different times, and the answer may find another case in the drawer.            *)
EXTENDS Integers, FiniteSets

CONSTANTS Cases, None,
          Slots,        \* bound on the calls in flight
          MaxClicks,    \* bound on what the user and the other operators do
          MaxFaults,    \* bound on the calls that fail
          Starts        \* the stages in which cases may be found at first

CaseScreenAssumption == /\ None \notin Cases /\ Slots \in Nat \ {0}
                        /\ {MaxClicks, MaxFaults} \subseteq Nat
                        /\ Starts \subseteq {"none", "Open", "Investigating", "Review", "Completed",
                                              "Archived"}

VARIABLES server,     \* the API's cases, with the number of their changes
          screen,     \* the state of the provider, the drawer and its panels
          call,       \* the calls in flight
          clicks, faults

vars == <<server, screen, call, clicks, faults>>

Stages == {"Open", "Investigating", "Review", "Completed", "Archived"}
Panels == {"drawer", "workflow", "decision", "assignment"}
CallForms  == 1..Slots

NoCase  == [stage |-> "none", decided |-> FALSE, changes |-> 0]
NoOffer == [id |-> None, changes |-> 0]
NoCall  == [kind |-> "none", id |-> None, to |-> "none", offer |-> NoOffer, mine |-> FALSE,
            answer |-> "none", read |-> [c \in Cases |-> NoCase]]

Init ==
    /\ server \in [Cases -> {[NoCase EXCEPT !.stage = s] : s \in Starts}]
    /\ screen = [held |-> [c \in Cases |-> NoCase], selected |-> None, row |-> None,
                 last |-> None, view |-> NoCase,
                 mounted |-> FALSE, visible |-> FALSE, appears |-> FALSE, slides |-> FALSE,
                 closing |-> FALSE,
                 asks |-> [p \in Panels |-> NoOffer], busy |-> [p \in Panels |-> FALSE]]
    /\ call = [i \in CallForms |-> NoCall]
    /\ clicks = 0 /\ faults = 0

-----------------------------------------------------------------------------
(* The workflow, as the dashboard has it. *)
Successor == [Open |-> "Investigating", Investigating |-> "Review",
              Review |-> "Completed", Completed |-> "Archived"]

(* A slip of Selectable: two stages at once. *)
SelectableFar(s) ==
    IF s = "Archived" THEN {s}
    ELSE {s, Successor[s]} \cup (IF s \in {"Completed", "none"} THEN {} ELSE {Successor[Successor[s]]})

Selectable(s) == IF s = "Archived" THEN {s} ELSE {s, Successor[s]}
Locked(s)     == s \in {"Completed", "Archived"}

(* What a panel offers to do with the case it shows: the stages it may ask for. *)
Offered(p, case) ==
    CASE p = "drawer"     -> {"Archived"} \cap (Selectable(case.stage) \ {case.stage})
      [] p = "workflow"   -> Selectable(case.stage) \ {case.stage}
      [] p = "decision"   -> IF Locked(case.stage) THEN {} ELSE {"Completed"}
      [] p = "assignment" -> {case.stage}

(* It asks the user first. *)
AsksFirst(p, to) == p \in {"drawer", "decision"} \/ (p = "workflow" /\ to = "Archived")

-----------------------------------------------------------------------------
(* Rendering.  renewed: the row is a new object, though its case may be the same.   *)
RowOf(sc) == IF sc.selected # None /\ sc.held[sc.selected] # NoCase THEN sc.selected ELSE None

(* A slip of Rowed: the question stays. *)
RowedOnly(sc, r) == [sc EXCEPT !.row = r, !.last = IF r = None THEN @ ELSE r,
                               !.view = IF r = None THEN @ ELSE sc.held[r]]

(* The drawer's effect on row: what is shown, and no question to delete it. *)
Rowed(sc, r) == [sc EXCEPT !.row = r, !.last = IF r = None THEN @ ELSE r,
                           !.view = IF r = None THEN @ ELSE sc.held[r],
                           !.asks["drawer"] = NoOffer]

(* ... and on open. *)
Render(sc, renewed) ==
    LET r    == RowOf(sc)
        next == IF r # sc.row \/ (renewed /\ r # None) THEN Rowed(sc, r) ELSE sc
    IN  CASE sc.row = None /\ r # None -> [next EXCEPT !.mounted = TRUE, !.appears = TRUE]
          [] sc.row # None /\ r = None -> [next EXCEPT !.visible = FALSE, !.slides = @ \/ sc.visible]
          [] OTHER                     -> next

(* applyServerCase, setSelectedId. *)
Applied(sc, c, case) == Render([sc EXCEPT !.held[c] = case], c = sc.row)
SelectedTo(sc, c)    == Render([sc EXCEPT !.selected = c], FALSE)

Free == {i \in CallForms : call[i] = NoCall}
Sent(kind, c, to, offer) ==
    /\ Free # {}
    /\ call' = [call EXCEPT ![CHOOSE i \in Free : \A j \in Free : i <= j] =
                   [NoCall EXCEPT !.kind = kind, !.id = c, !.to = to, !.offer = offer,
                                  !.mine = TRUE, !.answer = "waiting"]]

-----------------------------------------------------------------------------
(* The user.  The backdrop of the drawer covers the page while it is mounted.      *)
Clicked == clicks < MaxClicks /\ clicks' = clicks + 1

(* openCase, from the list or by the identifier an order has. *)
Open(c) ==
    /\ Clicked /\ ~screen.mounted /\ server[c] # NoCase
    /\ screen' = SelectedTo(screen, c)
    /\ Sent("detail", c, "none", NoOffer)
    /\ UNCHANGED <<server, faults>>

(* startInvestigation: one call at a time for a listing. *)
Start(c) ==
    /\ Clicked /\ ~screen.mounted
    /\ \A i \in CallForms : call[i].kind = "create" => call[i].id # c
    /\ Sent("create", c, "none", NoOffer)
    /\ UNCHANGED <<server, screen, faults>>

(* fetchCases: on entering, on request and whenever the window is looked at again. *)
Fetch ==
    /\ Clicked /\ Sent("list", None, "none", NoOffer)
    /\ UNCHANGED <<server, screen, faults>>

(* handleClose. *)
Close ==
    /\ Clicked /\ screen.mounted /\ screen.visible
    /\ screen' = [screen EXCEPT !.visible = FALSE, !.slides = TRUE]
    /\ UNCHANGED <<server, call, faults>>

(* closeCase, by the Escape key. *)
Escape ==
    /\ Clicked /\ screen.row # None /\ ~screen.closing
    /\ screen' = [screen EXCEPT !.closing = TRUE]
    /\ UNCHANGED <<server, call, faults>>

OfferOf(sc) == [id |-> sc.last, changes |-> sc.view.changes]

(* A button that asks before it does, and its cancellation. *)
Ask(p) ==
    /\ Clicked /\ screen.mounted /\ ~screen.busy[p] /\ screen.asks[p] = NoOffer
    /\ \E to \in Offered(p, screen.view) : AsksFirst(p, to)
    /\ screen' = [screen EXCEPT !.asks[p] = OfferOf(screen)]
    /\ UNCHANGED <<server, call, faults>>

Cancel(p) ==
    /\ Clicked /\ screen.asks[p] # NoOffer /\ ~screen.busy[p]
    /\ screen' = [screen EXCEPT !.asks[p] = NoOffer]
    /\ UNCHANGED <<server, call, faults>>

(* What is sent when the user confirms: confirmDelete looks again at what it shows,  *)
(* applyStatus at its stage, and confirmDecision at nothing.                       *)
Confirmed(p) ==
    CASE p = "drawer"   -> Offered(p, screen.view)
      [] p = "workflow" -> {"Archived"} \ {screen.view.stage}
      [] p = "decision" -> {"Completed"}

Confirm(p) ==
    /\ Clicked /\ screen.mounted /\ ~screen.busy[p] /\ screen.asks[p] # NoOffer
    /\ \E to \in Confirmed(p) : Sent(p, screen.last, to, screen.asks[p])
    /\ screen' = [screen EXCEPT !.busy[p] = TRUE]
    /\ UNCHANGED <<server, faults>>

(* ... and what is sent at once. *)
Pick(p) ==
    /\ Clicked /\ screen.mounted /\ ~screen.busy[p]
    /\ \E to \in Offered(p, screen.view) : /\ ~AsksFirst(p, to)
                                           /\ Sent(p, screen.last, to, OfferOf(screen))
    /\ screen' = [screen EXCEPT !.busy[p] = TRUE]
    /\ UNCHANGED <<server, faults>>

-----------------------------------------------------------------------------
(* The browser. *)

(* setSelectedId(null), a moment after closeCase. *)
FireClose ==
    /\ screen.closing
    /\ screen' = SelectedTo([screen EXCEPT !.closing = FALSE], None)
    /\ UNCHANGED <<server, call, clicks, faults>>

(* The second animation frame after the drawer was opened. *)
Appear ==
    /\ screen.appears
    /\ screen' = [screen EXCEPT !.appears = FALSE, !.visible = TRUE, !.slides = FALSE]
    /\ UNCHANGED <<server, call, clicks, faults>>

(* handleTransitionEnd of the drawer that has slid out: its panels are unmounted,   *)
(* with what they asked and waited for; the drawer's own state stays.               *)
SlidOut ==
    /\ screen.slides /\ screen.mounted /\ ~screen.visible
    /\ screen' = [screen EXCEPT !.slides = FALSE, !.mounted = FALSE, !.closing = TRUE,
                                !.asks = [p \in Panels |-> IF p = "drawer" THEN @[p] ELSE NoOffer],
                                !.busy = [p \in Panels |-> IF p = "drawer" THEN @[p] ELSE FALSE]]
    /\ call' = [i \in CallForms |-> [call[i] EXCEPT !.mine = @ /\ call[i].kind = "drawer"]]
    /\ UNCHANGED <<server, clicks, faults>>

-----------------------------------------------------------------------------
(* The server: InvestigationService. *)
Changed(case, to) == [case EXCEPT !.stage = to, !.changes = @ + 1]

Accepts(case, k) ==
    CASE k.kind = "decision"              -> case.stage # "Archived"
      [] k.kind \in {"drawer", "workflow"} -> k.to \in {case.stage} \cup
                                              (IF case.stage = "Archived" THEN {} ELSE {Successor[case.stage]})
      [] OTHER                            -> TRUE

Saved(case, k) ==
    CASE k.kind = "create"      -> IF case = NoCase THEN Changed(case, "Open") ELSE case
      [] k.kind = "decision"    -> IF case.stage = "Completed" /\ case.decided THEN case
                                   ELSE [Changed(case, "Completed") EXCEPT !.decided = TRUE]
      [] k.kind = "assignment"  -> Changed(case, case.stage)
      [] k.kind \in {"drawer", "workflow"} -> IF k.to = case.stage THEN case ELSE Changed(case, k.to)
      [] OTHER                  -> case

Serve(i) ==
    /\ call[i].answer = "waiting"
    /\ IF call[i].kind = "list"
       THEN /\ call' = [call EXCEPT ![i].answer = "done", ![i].read = server]
            /\ UNCHANGED server
       ELSE LET k == call[i]
                c == k.id
            IN  IF Accepts(server[c], k)
                THEN /\ server' = [server EXCEPT ![c] = Saved(@, k)]
                     /\ call' = [call EXCEPT ![i].answer = "done", ![i].read[c] = server'[c]]
                ELSE /\ call' = [call EXCEPT ![i].answer = "refused"]
                     /\ UNCHANGED server
    /\ UNCHANGED <<screen, clicks, faults>>

(* The call fails, before it is served or after. *)
Fail(i) ==
    /\ faults < MaxFaults /\ faults' = faults + 1
    /\ call[i].answer \in {"waiting", "done"}
    /\ call' = [call EXCEPT ![i].answer = "failed"]
    /\ UNCHANGED <<server, screen, clicks>>

(* Another operator, or a run that opens a case. *)
Other(c) ==
    /\ Clicked
    /\ \E to \in IF server[c] = NoCase THEN {"Open"}
                 ELSE IF server[c].stage = "Archived" THEN {} ELSE {Successor[server[c].stage]} :
          server' = [server EXCEPT ![c] = Changed(@, to)]
    /\ UNCHANGED <<screen, call, faults>>

-----------------------------------------------------------------------------
(* The continuations. *)
Over(i) == call' = [call EXCEPT ![i] = NoCall]
Done(i) == call[i].answer = "done"
Returned(i, kinds) == call[i].kind \in kinds /\ call[i].answer \in {"done", "refused", "failed"}

(* fetchCases: the whole list is replaced. *)
Fetched(i) ==
    /\ Returned(i, {"list"}) /\ Over(i)
    /\ screen' = IF Done(i) THEN Render([screen EXCEPT !.held = call[i].read], TRUE) ELSE screen
    /\ UNCHANGED <<server, clicks, faults>>

(* openCase: an error leaves what the list has. *)
Detailed(i) ==
    /\ Returned(i, {"detail"}) /\ Over(i)
    /\ screen' = IF Done(i) THEN Applied(screen, call[i].id, call[i].read[call[i].id]) ELSE screen
    /\ UNCHANGED <<server, clicks, faults>>

(* startInvestigation: the case is put in the list and opened, whatever is open. *)
Created(i) ==
    /\ Returned(i, {"create"})
    /\ LET c == call[i].id
       IN  IF Done(i)
           THEN /\ screen' = SelectedTo(Applied(screen, c, call[i].read[c]), c)
                /\ call' = [call EXCEPT ![i] = [NoCall EXCEPT !.kind = "detail", !.id = c, !.mine = TRUE,
                                                              !.answer = "waiting"]]
           ELSE Over(i) /\ UNCHANGED screen
    /\ UNCHANGED <<server, clicks, faults>>

(* A panel's call: its question and its wait end if it is still there; a deletion    *)
(* closes the drawer, whatever it shows.                                           *)
Settled(sc, i) ==
    LET p == call[i].kind
        quiet == Done(i) /\ p # "assignment" /\ (p = "workflow" => call[i].to = "Archived")
    IN  IF call[i].mine
        THEN [sc EXCEPT !.busy[p] = FALSE, !.asks[p] = IF quiet THEN NoOffer ELSE @]
        ELSE sc

Acted(i) ==
    /\ Returned(i, Panels) /\ Over(i)
    /\ LET c    == call[i].id
           next == Settled(IF Done(i) THEN Applied(screen, c, call[i].read[c]) ELSE screen, i)
       IN  screen' = IF Done(i) /\ call[i].to = "Archived" /\ call[i].kind \in {"drawer", "workflow"}
                     THEN [next EXCEPT !.closing = TRUE] ELSE next
    /\ UNCHANGED <<server, clicks, faults>>

Continue(i) == Fetched(i) \/ Detailed(i) \/ Created(i) \/ Acted(i)

Next == \/ \E c \in Cases : Open(c) \/ Start(c) \/ Other(c)
        \/ \E p \in {"drawer", "workflow", "decision"} : Ask(p) \/ Cancel(p) \/ Confirm(p)
        \/ \E p \in {"workflow", "assignment"} : Pick(p)
        \/ \E i \in CallForms : Serve(i) \/ Fail(i) \/ Continue(i)
        \/ Fetch \/ Close \/ Escape \/ FireClose \/ Appear \/ SlidOut

Spec == Init /\ [][Next]_vars

-----------------------------------------------------------------------------
TypeOK ==
    /\ \A c \in Cases : server[c].stage \in Stages \cup {"none"} /\ screen.held[c].stage \in Stages \cup {"none"}
    /\ {screen.selected, screen.row, screen.last} \subseteq Cases \cup {None}
    /\ \A i \in CallForms : call[i].kind \in Panels \cup {"none", "list", "detail", "create"}

(* What the dashboard offers, the server refuses only if the case has changed since *)
(* the user saw it: the two tables of stages agree.  A question that has stayed open *)
(* over a change of the drawer's case is excepted (the workflow's and the decision's  *)
(* questions stay).                                                               *)
OfferHeld ==
    \A i \in CallForms :
       call[i].answer = "waiting" /\ call'[i].answer = "refused" =>
          \/ call[i].offer.id # call[i].id
          \/ call[i].offer.changes # server[call[i].id].changes

RefusedOnlyLate == [][OfferHeld]_vars

(* A selected case that is held is on the screen, on its way in or on its way out,    *)
(* and the drawer asks to delete no other case than the one it shows.              *)
DrawerTells ==
    /\ screen.row # None =>
          screen.closing \/ (screen.mounted /\ (screen.visible \/ screen.appears \/ screen.slides))
    /\ screen.asks["drawer"] # NoOffer => screen.asks["drawer"].id = screen.last
=============================================================================
