------------------------------ MODULE SearchScreen ------------------------------
(* The search screen of the dashboard: web/src/App.tsx over lib/socket.ts and the *)
(* gateway of progress events.  A call to the API is sent, read by the server and *)
(* answered at three different times; its continuation runs with the answer, and  *)
(* what it stops, starts and shows may belong to another search by then.          *)
EXTENDS Integers, Sequences, FiniteSets

CONSTANTS Searches, None,
          Slots,            \* bound on the calls in flight
          MaxClicks,        \* bound on what the user does
          MaxFaults,        \* bound on the calls that fail, or whose answer does
          MaxWire, MaxTimers

ASSUME ScreenAssumption == /\ None \notin Searches
                           /\ {Slots, MaxWire, MaxTimers} \subseteq Nat \ {0}
                           /\ {MaxClicks, MaxFaults} \subseteq Nat

VARIABLES server,       \* what the API has of each search
          screen,       \* App's state and refs
          call,         \* the calls in flight
          timers,       \* timeouts of 800 ms that are pending
          wire,         \* progress events on their way, in order
          clicks, faults,
          mislaid       \* a new search was attached to and then could not be loaded

screenVars == <<server, screen, call, timers, wire, clicks, faults, mislaid>>

Calls  == 1..Slots
NoCall == [kind |-> "none", search |-> None, answer |-> "none", mine |-> FALSE]
Screen == [detail : Searches \cup {None}, busy : BOOLEAN, panel : Searches \cup {None},
           active : Searches \cup {None}, poll : Searches \cup {None}, heard : Searches \cup {None}]

Init ==
    /\ server = [s \in Searches |-> "none"]
    /\ screen = [detail |-> None, busy |-> FALSE, panel |-> None,
                 active |-> None, poll |-> None, heard |-> None]
    /\ call = [i \in Calls |-> NoCall] /\ timers = 0 /\ wire = << >>
    /\ clicks = 0 /\ faults = 0 /\ mislaid = FALSE

Free == {i \in Calls : call[i] = NoCall}

Sent(kind, s, mine) ==
    [call EXCEPT ![CHOOSE i \in Free : TRUE] =
        [kind |-> kind, search |-> s, answer |-> "waiting", mine |-> mine]]

-----------------------------------------------------------------------------
(* Pieces of the handlers. *)

(* stopPoll, stopProgressSocket and setProgress(null). *)
Quiet(sc) == [sc EXCEPT !.poll = None, !.heard = None, !.panel = None]

(* A slip of Loaded: the panel is left to the events. *)
LoadedOnly(sc, s, over) ==
    IF over THEN [sc EXCEPT !.detail = s, !.busy = FALSE, !.poll = None]
    ELSE [sc EXCEPT !.detail = s]

(* loadSearch with its answer. *)
Loaded(sc, s, over) ==
    IF over THEN [Quiet(sc) EXCEPT !.detail = s, !.busy = FALSE, !.active = None]
    ELSE [sc EXCEPT !.detail = s]

(* attachProgress, startPolling. *)
Attached(sc, s) == [sc EXCEPT !.heard = s, !.active = s, !.panel = s]
Polling(sc, s) == [sc EXCEPT !.poll = s]

-----------------------------------------------------------------------------
(* The user.  The button of the toolbar is disabled while busy, that of a recent  *)
(* search is not.                                                                 *)
Clicked == clicks < MaxClicks /\ clicks' = clicks + 1 /\ Free # {}

(* onSubmit and onDuplicateSearch. *)
Submit(s) ==
    /\ Clicked /\ server[s] = "none" /\ \A i \in Calls : call[i].search # s
    /\ screen' = [Quiet(screen) EXCEPT !.busy = TRUE]
    /\ call' = Sent("submit", s, FALSE)
    /\ UNCHANGED <<server, timers, wire, faults, mislaid>>

(* onSelectSearch, of a list that may be old. *)
Select(s) ==
    /\ Clicked /\ server[s] # "none"
    /\ screen' = [Quiet(screen) EXCEPT !.busy = TRUE]
    /\ call' = Sent("select", s, FALSE)
    /\ UNCHANGED <<server, timers, wire, faults, mislaid>>

(* onDeleteSearch: whether it is the one on the screen is decided by the values of *)
(* this moment, when the answer comes.                                            *)
Delete(s) ==
    /\ Clicked /\ server[s] \in {"open", "over"}
    /\ \A i \in Calls : call[i].kind # "delete" \/ call[i].search # s
    /\ call' = Sent("delete", s, s \in {screen.detail, screen.active})
    /\ UNCHANGED <<server, screen, timers, wire, faults, mislaid>>

-----------------------------------------------------------------------------
(* The server. *)

(* What becomes of the search: a submission finds it cached, with results or      *)
(* without, or starts it.                                                         *)
Served(c) ==
    CASE c.kind = "submit" -> {"over", "open"}
      [] c.kind = "delete" -> {"gone"}
      [] c.kind \in {"load", "select", "poll", "event"} -> {server[c.search]}

Answers(c, now) ==
    CASE c.kind = "submit" /\ now = "over" -> {"hit", "started"}
      [] c.kind = "submit" /\ now = "open" -> {"started"}
      [] c.kind = "delete" -> {"done"}
      [] c.kind \in {"load", "select", "poll", "event"} ->
            {IF now \in {"open", "over"} THEN now ELSE "error"}

Serve(i) ==
    /\ call[i].answer = "waiting"
    /\ \E now \in Served(call[i]) : \E a \in Answers(call[i], now) :
          /\ server' = [server EXCEPT ![call[i].search] = now]
          /\ call' = [call EXCEPT ![i].answer = a]
    /\ UNCHANGED <<screen, timers, wire, clicks, faults, mislaid>>

(* The call fails, before the server has done anything or after it. *)
ServeFails(i) ==
    /\ faults < MaxFaults /\ faults' = faults + 1
    /\ call[i].answer = "waiting"
    /\ call' = [call EXCEPT ![i].answer = "error"]
    /\ \E now \in Served(call[i]) \cup {server[call[i].search]} :
          server' = [server EXCEPT ![call[i].search] = now]
    /\ UNCHANGED <<screen, timers, wire, clicks, mislaid>>

(* The crawl publishes that it goes on, and that it has ended.  An event reaches  *)
(* the screen once by broadcast and again by the room it has joined, or not at    *)
(* all while the socket is disconnected.                                          *)
GoesOn(s) ==
    /\ server[s] = "open" /\ Len(wire) < MaxWire
    /\ wire' = Append(wire, <<s, FALSE>>)
    /\ UNCHANGED <<server, screen, call, timers, clicks, faults, mislaid>>

Finish(s) ==
    /\ server[s] = "open" /\ server' = [server EXCEPT ![s] = "over"]
    /\ \E n \in 0..2 : /\ Len(wire) + n <= MaxWire
                        /\ wire' = wire \o [i \in 1..n |-> <<s, TRUE>>]
    /\ UNCHANGED <<screen, call, timers, clicks, faults, mislaid>>

-----------------------------------------------------------------------------
(* The continuations. *)

Returned(i, kind) == call[i].kind = kind /\ call[i].answer \notin {"none", "waiting"}
Failed(i) == call[i].answer = "error"

(* onSubmit after api.search: a result at once, or a search to follow; the catch   *)
(* leaves the socket as it is.                                                    *)
Submitted(i) ==
    /\ Returned(i, "submit")
    /\ LET s == call[i].search
       IN  CASE Failed(i) ->
                  /\ screen' = [screen EXCEPT !.busy = FALSE, !.panel = None]
                  /\ call' = [call EXCEPT ![i] = NoCall]
             [] call[i].answer = "hit" ->
                  /\ screen' = [screen EXCEPT !.busy = FALSE, !.panel = None, !.detail = s]
                  /\ call' = [call EXCEPT ![i] = NoCall]
             [] call[i].answer = "started" ->
                  /\ screen' = Attached(screen, s)
                  /\ call' = [call EXCEPT ![i] = [NoCall EXCEPT !.kind = "load", !.search = s,
                                                               !.answer = "waiting"]]
    /\ UNCHANGED <<server, timers, wire, clicks, faults, mislaid>>

(* onSubmit after loadSearch. *)
FirstLoaded(i) ==
    /\ Returned(i, "load") /\ call' = [call EXCEPT ![i] = NoCall]
    /\ LET s == call[i].search
           over == call[i].answer = "over"
       IN  screen' = IF Failed(i) THEN [screen EXCEPT !.busy = FALSE, !.panel = None]
                     ELSE IF over THEN Loaded(screen, s, over)
                     ELSE Polling(Loaded(screen, s, over), s)
    /\ mislaid' = (mislaid \/ Failed(i))
    /\ UNCHANGED <<server, timers, wire, clicks, faults>>

(* onSelectSearch after loadSearch. *)
Selected(i) ==
    /\ Returned(i, "select") /\ call' = [call EXCEPT ![i] = NoCall]
    /\ LET s == call[i].search
           over == call[i].answer = "over"
       IN  screen' = IF Failed(i) THEN [screen EXCEPT !.busy = FALSE]
                     ELSE IF over THEN Loaded(screen, s, over)
                     ELSE Polling(Attached(Loaded(screen, s, over), s), s)
    /\ UNCHANGED <<server, timers, wire, clicks, faults, mislaid>>

(* A slip of PollFailed: the screen stays busy. *)
StopPollOnly(sc) == [sc EXCEPT !.poll = None]

PollFailed(sc) == [Quiet(sc) EXCEPT !.busy = FALSE]

(* The interval of startPolling: a call every two seconds, whether the last one   *)
(* has been answered or not.                                                      *)
Tick ==
    /\ screen.poll # None /\ Free # {}
    /\ call' = Sent("poll", screen.poll, FALSE)
    /\ UNCHANGED <<server, screen, timers, wire, clicks, faults, mislaid>>

Polled(i) ==
    /\ Returned(i, "poll") /\ call' = [call EXCEPT ![i] = NoCall]
    /\ screen' = IF Failed(i) THEN PollFailed(screen)
                 ELSE Loaded(screen, call[i].search, call[i].answer = "over")
    /\ UNCHANGED <<server, timers, wire, clicks, faults, mislaid>>

(* The handler of subscribeSearchProgress: only for the search it was made for. *)
Deliver ==
    /\ wire # << >> /\ wire' = Tail(wire)
    /\ LET s == Head(wire)[1]
           done == Head(wire)[2]
       IN  IF screen.heard # s THEN UNCHANGED <<screen, call>>
           ELSE IF ~done THEN screen' = [screen EXCEPT !.panel = s] /\ UNCHANGED call
           ELSE /\ Free # {} /\ call' = Sent("event", s, FALSE)
                /\ screen' = [screen EXCEPT !.panel = s, !.busy = FALSE, !.poll = None]
    /\ UNCHANGED <<server, timers, clicks, faults, mislaid>>

(* Its loadSearch, with a timeout however it ends. *)
EventLoaded(i) ==
    /\ Returned(i, "event") /\ call' = [call EXCEPT ![i] = NoCall]
    /\ timers < MaxTimers /\ timers' = timers + 1
    /\ screen' = IF Failed(i) THEN screen
                 ELSE Loaded(screen, call[i].search, call[i].answer = "over")
    /\ UNCHANGED <<server, wire, clicks, faults, mislaid>>

(* The timeout, which is never cancelled. *)
Timeout ==
    /\ timers > 0 /\ timers' = timers - 1
    /\ screen' = [screen EXCEPT !.panel = None, !.heard = None, !.active = None]
    /\ UNCHANGED <<server, call, wire, clicks, faults, mislaid>>

Deleted(i) ==
    /\ Returned(i, "delete") /\ call' = [call EXCEPT ![i] = NoCall]
    /\ screen' = IF Failed(i) \/ ~call[i].mine THEN screen
                 ELSE [Quiet(screen) EXCEPT !.detail = None, !.active = None, !.busy = FALSE]
    /\ UNCHANGED <<server, timers, wire, clicks, faults, mislaid>>

Continue(i) == \/ Submitted(i) \/ FirstLoaded(i) \/ Selected(i) \/ Polled(i)
               \/ EventLoaded(i) \/ Deleted(i)

Next == \/ \E s \in Searches : Submit(s) \/ Select(s) \/ Delete(s) \/ GoesOn(s) \/ Finish(s)
        \/ \E i \in Calls : Serve(i) \/ ServeFails(i) \/ Continue(i)
        \/ Tick \/ Deliver \/ Timeout

(* Every call is answered or fails, the browser runs what is due, and every crawl *)
(* ends.                                                                          *)
Fairness == /\ \A i \in Calls : WF_screenVars(Serve(i) \/ ServeFails(i)) /\ WF_screenVars(Continue(i))
            /\ \A s \in Searches : WF_screenVars(Finish(s))
            /\ WF_screenVars(Tick) /\ WF_screenVars(Deliver) /\ WF_screenVars(Timeout)

Spec == Init /\ [][Next]_screenVars /\ Fairness

-----------------------------------------------------------------------------
TypeOK ==
    /\ server \in [Searches -> {"none", "open", "over", "gone"}]
    /\ screen \in Screen
    /\ call \in [Calls -> [kind : {"none", "submit", "load", "select", "poll", "event", "delete"},
                           search : Searches \cup {None},
                           answer : {"none", "waiting", "hit", "started", "open", "over", "done", "error"},
                           mine : BOOLEAN]]
    /\ timers \in 0..MaxTimers /\ clicks \in 0..MaxClicks /\ faults \in 0..MaxFaults

(* However answers, events, timeouts and clicks mix, a screen that is busy is      *)
(* waiting for something that will end it, and a progress panel belongs to the    *)
(* search whose events are heard.                                                 *)
Watched ==
    /\ screen.busy => \/ screen.poll # None
                      \/ \E i \in Calls : call[i].kind \in {"submit", "load", "select"}
    /\ screen.panel # None => screen.heard = screen.panel

(* The screen does not stay busy, with searches that end. *)
BusyEnds == []<>(~screen.busy)

(* "WS 이벤트를 놓쳐도 폴링으로 완료되면 진행 패널 해제": the panel of a search that is  *)
(* over goes away, whatever events are missed; unless the first load of a search   *)
(* has failed, which leaves its events heard and nobody polling.                  *)
PanelEnds ==
    \A s \in Searches :
        (screen.panel = s /\ server[s] \in {"over", "gone"}) ~> (screen.panel # s \/ mislaid)

=============================================================================
