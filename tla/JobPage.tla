-------------------------------- MODULE JobPage ---------------------------------
(* The page of the orders' search jobs: web/src/pages/RentalPage.tsx over the events  *)
(* of lib/socket.ts.  One job is selected; its details, the refetch that its last      *)
(* event starts and the resending of its callback are answered while another job may   *)
(* have been selected.                                                              *)
EXTENDS Integers, FiniteSets

CONSTANTS Jobs, None,
          Slots,        \* bound on the calls in flight
          MaxActs,      \* bound on what the user does
          MaxFaults     \* bound on the calls that fail

JobPageAssumption == /\ None \notin Jobs /\ Slots \in Nat \ {0}
                     /\ {MaxActs, MaxFaults} \subseteq Nat

VARIABLES job,          \* the server's jobs: their status and what became of the callback
          page,         \* the state of the page
          calls,        \* the calls in flight
          events,       \* the jobs whose last event is on its way
          acts, lost,
          crossed       \* another job was selected beside a call that is not cancelled

pageVars == <<job, page, calls, events, acts, lost, crossed>>

Ended  == {"over", "failed"}        \* over: completed or partial
Places == 1..Slots
NoCall == [kind |-> "none", id |-> None, mine |-> FALSE, answer |-> "none",
           status |-> "none", callback |-> "none"]

Init ==
    /\ job = [j \in Jobs |-> [status |-> "running", callback |-> "unsent"]]
    /\ page = [listed |-> FALSE, selected |-> None, loading |-> FALSE, error |-> FALSE,
               order |-> None, live |-> None, status |-> "none", callback |-> "none",
               resending |-> FALSE]
    /\ calls = [i \in Places |-> NoCall] /\ events = {}
    /\ acts = 0 /\ lost = 0 /\ crossed = FALSE

Free == {i \in Places : calls[i] = NoCall}
Begin(cs, kind, j) ==
    [cs EXCEPT ![CHOOSE i \in Places : cs[i] = NoCall] =
        [NoCall EXCEPT !.kind = kind, !.id = j, !.mine = TRUE, !.answer = "waiting"]]

Acts == acts < MaxActs /\ acts' = acts + 1
Going(kinds) == \E i \in Places : calls[i].kind \in kinds

-----------------------------------------------------------------------------
(* The effect on selectedJobId: the call for the details of the job before is         *)
(* cancelled, which its continuation sees; the new one's are asked for.              *)
Uncancelled(cs) == cs
Cancelled(cs) == [i \in Places |-> [cs[i] EXCEPT !.mine = @ /\ cs[i].kind # "detail"]]

Selected(pg, j) == [pg EXCEPT !.selected = j, !.loading = TRUE, !.error = FALSE]

Select(j) ==
    /\ Acts /\ page.listed /\ j # page.selected /\ Free # {}
    /\ page' = Selected(page, j)
    /\ calls' = Begin(Cancelled(calls), "detail", j)
    /\ crossed' = (crossed \/ Going({"event", "resend", "recheck"}))
    /\ UNCHANGED <<job, events, lost>>

(* loadJobs: the first job of the list, if there is one, is selected unless one is.     *)
(* The component does not load again.                                               *)
Newest == CHOOSE j \in Jobs : TRUE

Load ==
    /\ Jobs # {} /\ ~page.listed /\ page.selected = None
    /\ page' = Selected([page EXCEPT !.listed = TRUE], Newest)
    /\ calls' = Begin(calls, "detail", Newest)
    /\ UNCHANGED <<job, events, acts, lost, crossed>>

(* The last event of the selected job is shown, and its details are fetched; an event   *)
(* of another job is not heard, nor one sent while the socket is away.               *)
Hear(j) ==
    /\ j \in events
    /\ IF page.selected = j
       THEN /\ Free # {} /\ calls' = Begin(calls, "event", j)
            /\ page' = [page EXCEPT !.live = j, !.status = job[j].status]
       ELSE UNCHANGED <<page, calls>>
    /\ events' = events \ {j}
    /\ UNCHANGED <<job, acts, lost, crossed>>

(* canResendCallback and handleResendCallback. *)
MayResend == page.status = "over" /\ page.callback # "sent" /\ ~page.resending

Resend ==
    /\ Acts /\ page.selected # None /\ MayResend /\ Free # {}
    /\ page' = [page EXCEPT !.resending = TRUE]
    /\ calls' = Begin(calls, "resend", page.selected)
    /\ UNCHANGED <<job, events, lost, crossed>>

-----------------------------------------------------------------------------
(* The server.  A job ends and is posted to the back office; resendCallback refuses a    *)
(* job that is not completed, or whose callback was received.                       *)
End(j) ==
    /\ job[j].status = "running"
    /\ \E s \in Ended, c \in {"sent", "failed"}, heard \in BOOLEAN :
          /\ job' = [job EXCEPT ![j] = [status |-> s, callback |-> IF s = "over" THEN c ELSE @.callback]]
          /\ events' = IF heard THEN events \cup {j} ELSE events
    /\ UNCHANGED <<page, calls, acts, lost, crossed>>

Posts(j) == job[j].status = "over" /\ job[j].callback # "sent"

Serve(i) ==
    /\ calls[i].answer = "waiting"
    /\ LET c == calls[i]
           j == c.id
       IN  IF c.kind = "resend"
           THEN \E result \in IF Posts(j) THEN {"sent", "failed"} ELSE {"refused"} :
                   /\ job' = IF Posts(j) THEN [job EXCEPT ![j].callback = result] ELSE job
                   /\ calls' = [calls EXCEPT ![i].answer = IF result = "sent" THEN "done" ELSE "error"]
           ELSE /\ calls' = [calls EXCEPT ![i].answer = "done", ![i].status = job[j].status,
                                          ![i].callback = job[j].callback]
                /\ UNCHANGED job
    /\ UNCHANGED <<page, events, acts, lost, crossed>>

Lose(i) ==
    /\ lost < MaxFaults /\ lost' = lost + 1
    /\ calls[i].answer \in {"waiting", "done"}
    /\ calls' = [calls EXCEPT ![i].answer = "error"]
    /\ UNCHANGED <<job, page, events, acts, crossed>>

-----------------------------------------------------------------------------
(* The continuations. *)
Returned(i, kind) == calls[i].kind = kind /\ calls[i].answer \in {"done", "error"}
Ok(i) == calls[i].answer = "done"

Shown(pg, c) == [pg EXCEPT !.order = c.id, !.live = c.id, !.status = c.status]

Detailed(i) ==
    /\ Returned(i, "detail") /\ calls' = [calls EXCEPT ![i] = NoCall]
    /\ page' = IF ~calls[i].mine THEN page
               ELSE IF Ok(i)
               THEN [Shown(page, calls[i]) EXCEPT !.callback = calls[i].callback, !.loading = FALSE]
               ELSE [page EXCEPT !.error = TRUE, !.loading = FALSE]
    /\ UNCHANGED <<job, events, acts, lost, crossed>>

(* ... of the refetch after the last event, whichever job is selected by now. *)
Refetched(i) ==
    /\ Returned(i, "event") /\ calls' = [calls EXCEPT ![i] = NoCall]
    /\ page' = IF Ok(i) THEN Shown(page, calls[i]) ELSE page
    /\ UNCHANGED <<job, events, acts, lost, crossed>>

(* The callback was sent; or it was not, and what the server says of it is fetched. *)
Resent(i) ==
    /\ Returned(i, "resend")
    /\ IF Ok(i)
       THEN /\ page' = [page EXCEPT !.callback = "sent", !.resending = FALSE]
            /\ calls' = [calls EXCEPT ![i] = NoCall]
       ELSE /\ UNCHANGED page
            /\ calls' = [calls EXCEPT ![i] = [NoCall EXCEPT !.kind = "recheck", !.id = calls[i].id,
                                                            !.mine = TRUE, !.answer = "waiting"]]
    /\ UNCHANGED <<job, events, acts, lost, crossed>>

Rechecked(i) ==
    /\ Returned(i, "recheck") /\ calls' = [calls EXCEPT ![i] = NoCall]
    /\ page' = [page EXCEPT !.resending = FALSE,
                            !.callback = IF Ok(i) THEN calls[i].callback ELSE @]
    /\ UNCHANGED <<job, events, acts, lost, crossed>>

Continue(i) == Detailed(i) \/ Refetched(i) \/ Resent(i) \/ Rechecked(i)

Next == \/ \E j \in Jobs : Select(j) \/ Hear(j) \/ End(j)
        \/ \E i \in Places : Serve(i) \/ Lose(i) \/ Continue(i)
        \/ Load \/ Resend

(* Calls are answered. *)
Fairness == \A i \in Places : WF_pageVars(Serve(i)) /\ WF_pageVars(Continue(i))

Spec == Init /\ [][Next]_pageVars /\ Fairness

-----------------------------------------------------------------------------
TypeOK ==
    /\ {page.selected, page.order, page.live} \subseteq Jobs \cup {None}
    /\ page.status \in {"none", "running"} \cup Ended
    /\ \A i \in Places : calls[i].kind \in {"none", "detail", "event", "resend", "recheck"}

(* Once it is loaded without an error, the page shows the job that is selected, and it  *)
(* does not say that a callback was received which the server still has to send;     *)
(* unless another job was selected beside a refetch or a resending.                  *)
ShowsSelected ==
    page.selected # None /\ ~page.loading /\ ~page.error /\ ~crossed =>
       /\ page.order = page.selected /\ page.live = page.selected
       /\ page.callback = "sent" => job[page.selected].callback = "sent"

(* The page is not loading for ever, nor is the button of the callback disabled for ever. *)
PageSettles == []<>(~page.loading /\ ~page.resending)
=============================================================================
