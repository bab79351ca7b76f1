----------------------------- MODULE DashboardProofs -----------------------------
(* Proofs about the screens that Dashboard puts together, for any searches, texts and bounds. *)
EXTENDS Dashboard, SequenceTheorems, TLAPS

Kinds   == {"submit", "load", "select", "poll", "event", "delete"}
Replies == {"waiting", "hit", "started", "open", "over", "done", "error"}
CallSet == [kind : {"none"} \cup Kinds, search : Searches \cup {None},
            answer : {"none"} \cup Replies, mine : BOOLEAN]

\* A call is about a search, and nothing answers what was not asked.
Asked(c) == /\ c \in CallSet
            /\ c.kind # "none" => c.search \in Searches
            /\ c.answer # "none" => c.kind # "none"
            /\ c.kind = "submit" => c.answer \in {"waiting", "hit", "started", "error"}

CallsAsked == call \in [Calls -> CallSet] /\ \A i \in Calls : Asked(call[i])

Servers == server \in [Searches -> {"none", "open", "over", "gone"}]
Events  == Searches \X BOOLEAN
Wires   == wire \in Seq(Events)
Bounds  == timers \in 0..MaxTimers /\ clicks \in 0..MaxClicks /\ faults \in 0..MaxFaults

TypeInv == Servers /\ screen \in Screen /\ CallsAsked /\ Wires /\ Bounds

USE ScreenAssumption DEF ScreenAssumption

-----------------------------------------------------------------------------
(* Calls *)

LEMMA NoCallAsked == Asked(NoCall)
BY DEF Asked, NoCall, CallSet

\* Sent puts the call into a slot that was free.
LEMMA SentIs ==
  ASSUME CallsAsked, Free # {}, NEW kind \in Kinds, NEW s \in Searches, NEW mine \in BOOLEAN
  PROVE  \E j \in Free : \E c :
           /\ Sent(kind, s, mine) = [call EXCEPT ![j] = c]
           /\ Asked(c) /\ c.kind = kind
<1> DEFINE c == [kind |-> kind, search |-> s, answer |-> "waiting", mine |-> mine]
           j == CHOOSE i \in Free : TRUE
<1>1. j \in Free
  OBVIOUS
<1>2. Asked(c) /\ c.kind = kind
  BY DEF Asked, CallSet, Kinds, Replies
<1>3. Sent(kind, s, mine) = [call EXCEPT ![j] = c]
  BY DEF Sent
<1> HIDE DEF c, j
<1> QED
  BY <1>1, <1>2, <1>3

\* What one slot takes, when it is a call or none.
LEMMA SlotTakes ==
  ASSUME CallsAsked, NEW i \in Calls, NEW c, Asked(c), call' = [call EXCEPT ![i] = c]
  PROVE  CallsAsked' /\ call'[i] = c /\ \A j \in Calls \ {i} : call'[j] = call[j]
<1>1. c \in CallSet
  BY DEF Asked
<1>2. call'[i] = c /\ \A j \in Calls \ {i} : call'[j] = call[j]
  BY DEF CallsAsked
<1>3. call' \in [Calls -> CallSet]
  BY <1>1 DEF CallsAsked
<1>4. \A j \in Calls : Asked(call'[j])
  BY <1>2 DEF CallsAsked
<1>5. CallsAsked'
  BY <1>3, <1>4 DEF CallsAsked, Asked, CallSet, Calls
<1> QED
  BY <1>2, <1>5

-----------------------------------------------------------------------------
(* What is watched *)

Waiting == {"submit", "load", "select"}

Busied == screen.busy => screen.poll # None \/ \E i \in Calls : call[i].kind \in Waiting
Panels == screen.panel # None => screen.heard = screen.panel

ScreenInv == TypeInv /\ Busied /\ Panels

\* A step that only puts a call beside the others.
LEMMA CallAdded ==
  ASSUME ScreenInv, Free # {}, NEW kind \in Kinds, NEW s \in Searches, NEW mine \in BOOLEAN,
         call' = Sent(kind, s, mine)
  PROVE  /\ CallsAsked'
         /\ \A i \in Calls : call[i].kind \in Waiting => call'[i] = call[i]
         /\ \E i \in Calls : call'[i].kind = kind
<1>1. PICK j \in Free, c \in CallSet : call' = [call EXCEPT ![j] = c] /\ Asked(c) /\ c.kind = kind
  BY SentIs DEF ScreenInv, TypeInv, Asked
<1>2. j \in Calls /\ call[j] = NoCall
  BY DEF Free
<1>3. CallsAsked' /\ call'[j] = c /\ \A i \in Calls \ {j} : call'[i] = call[i]
  BY <1>1, <1>2, SlotTakes DEF ScreenInv, TypeInv
<1>4. NoCall.kind \notin Waiting
  BY DEF NoCall, Waiting
<1> QED
  BY <1>1, <1>2, <1>3, <1>4

\* A call that has come back leaves its slot.
LEMMA CallEnded ==
  ASSUME ScreenInv, NEW i \in Calls, call' = [call EXCEPT ![i] = NoCall]
  PROVE  CallsAsked' /\ \A j \in Calls \ {i} : call'[j] = call[j]
  BY SlotTakes, NoCallAsked DEF ScreenInv, TypeInv

LEMMA ScreenInit == ASSUME Init PROVE ScreenInv
<1>1. /\ screen.busy = FALSE /\ screen.panel = None /\ screen \in Screen
  BY DEF Init, Screen
<1>2. CallsAsked
  <2>1. NoCall \in CallSet
    BY NoCallAsked DEF Asked
  <2> QED BY <2>1, NoCallAsked DEF Init, CallsAsked
<1>3. Servers /\ Wires /\ Bounds
  BY DEF Init, Servers, Wires, Bounds
<1> QED
  BY <1>1, <1>2, <1>3 DEF ScreenInv, TypeInv, Busied, Panels

-----------------------------------------------------------------------------
(* The user *)

LEMMA UserKeeps ==
  ASSUME ScreenInv, NEW s \in Searches, Submit(s) \/ Select(s) \/ Delete(s)
  PROVE  ScreenInv'
<1>1. UNCHANGED <<server, timers, wire, faults>> /\ clicks' \in 0..MaxClicks /\ Free # {}
  <2>1. UNCHANGED <<server, timers, wire, faults>> /\ Clicked
    BY DEF Submit, Select, Delete
  <2> QED BY <2>1 DEF Clicked, ScreenInv, TypeInv, Bounds
<1>2. Servers' /\ Wires' /\ Bounds'
  BY <1>1 DEF ScreenInv, TypeInv, Servers, Wires, Bounds
<1>3. ASSUME Submit(s) \/ Select(s) PROVE ScreenInv'
  <2>1. PICK kind \in {"submit", "select"} : call' = Sent(kind, s, FALSE)
    BY <1>3 DEF Submit, Select
  <2>2. screen' = [Quiet(screen) EXCEPT !.busy = TRUE]
    BY <1>3 DEF Submit, Select
  <2>3. screen' \in Screen /\ screen'.panel = None
    BY <2>2 DEF Quiet, Screen, ScreenInv, TypeInv
  <2>4. CallsAsked' /\ \E i \in Calls : call'[i].kind \in Waiting
    <3>1. kind \in Kinds /\ kind \in Waiting
      BY DEF Kinds, Waiting
    <3> QED BY <1>1, <2>1, <3>1, CallAdded
  <2> QED BY <1>2, <2>3, <2>4 DEF ScreenInv, TypeInv, Busied, Panels, Calls
<1>4. ASSUME Delete(s) PROVE ScreenInv'
  <2>0. PICK mine \in BOOLEAN : mine = (s \in {screen.detail, screen.active})
    <3>1. (s \in {screen.detail, screen.active}) \in BOOLEAN
      OBVIOUS
    <3> QED BY <3>1, Zenon
  <2>1. UNCHANGED screen /\ call' = Sent("delete", s, mine)
    BY <1>4, <2>0 DEF Delete
  <2>2. CallsAsked' /\ \A i \in Calls : call[i].kind \in Waiting => call'[i] = call[i]
    BY <1>1, <2>1, CallAdded DEF Kinds
  <2> QED BY <1>2, <2>1, <2>2 DEF ScreenInv, TypeInv, Busied, Panels, Calls
<1> QED
  BY <1>3, <1>4

-----------------------------------------------------------------------------
(* The server *)

LEMMA ServerKeeps ==
  ASSUME ScreenInv, NEW i \in Calls, Serve(i) \/ ServeFails(i)
  PROVE  ScreenInv'
<1>1. UNCHANGED <<screen, timers, wire, clicks>> /\ faults' \in 0..MaxFaults
  BY DEF Serve, ServeFails, ScreenInv, TypeInv, Bounds
<1>2. /\ call[i].kind \in Kinds /\ call[i].search \in Searches /\ Asked(call[i])
      /\ call[i].answer = "waiting"
  BY DEF Serve, ServeFails, ScreenInv, TypeInv, CallsAsked, Asked, CallSet
<1>3. Served(call[i]) \subseteq {"over", "open", "gone", server[call[i].search]}
  BY <1>2 DEF Served, Kinds
<1>4. PICK now \in Served(call[i]) \cup {server[call[i].search]}, a \in Replies :
        /\ call[i].kind = "submit" => a \in {"hit", "started", "error"}
        /\ server' = [server EXCEPT ![call[i].search] = now]
        /\ call' = [call EXCEPT ![i].answer = a]
  <2>1. CASE Serve(i)
    <3>1. PICK now \in Served(call[i]) : \E a \in Answers(call[i], now) :
             /\ server' = [server EXCEPT ![call[i].search] = now]
             /\ call' = [call EXCEPT ![i].answer = a]
      BY <2>1 DEF Serve
    <3>2. call[i].kind = "submit" => now \in {"over", "open"}
      BY <3>1 DEF Served
    <3>3. /\ Answers(call[i], now) \subseteq Replies
          /\ call[i].kind = "submit" => Answers(call[i], now) \subseteq {"hit", "started", "error"}
      BY <1>2, <3>2 DEF Answers, Kinds, Replies
    <3> QED BY <3>1, <3>3
  <2>2. CASE ServeFails(i)
    BY <2>2 DEF ServeFails, Replies
  <2> QED BY <2>1, <2>2
<1>5. Servers'
  BY <1>2, <1>3, <1>4 DEF Servers, ScreenInv, TypeInv
<1>6. CallsAsked' /\ \A j \in Calls : call'[j].kind = call[j].kind
  <2>1. PICK c : c = [call[i] EXCEPT !.answer = a]
    OBVIOUS
  <2>2. Asked(c) /\ c.kind = call[i].kind
    BY <1>2, <1>4, <2>1 DEF Asked, CallSet, Kinds
  <2>3. call' = [call EXCEPT ![i] = c]
    BY <1>4, <2>1 DEF ScreenInv, TypeInv, CallsAsked
  <2> QED BY <2>2, <2>3, SlotTakes DEF ScreenInv, TypeInv
<1>7. Wires' /\ Bounds'
  BY <1>1 DEF ScreenInv, TypeInv, Wires, Bounds
<1> QED
  BY <1>1, <1>5, <1>6, <1>7 DEF ScreenInv, TypeInv, Busied, Panels, Calls

LEMMA SameElements ==
  ASSUME NEW S, NEW e \in S, NEW n \in Nat
  PROVE  [k \in 1..n |-> e] \in Seq(S)
  OBVIOUS

LEMMA CrawlKeeps ==
  ASSUME ScreenInv, NEW s \in Searches, GoesOn(s) \/ Finish(s)
  PROVE  ScreenInv'
<1>1. UNCHANGED <<screen, call, timers, clicks, faults>>
  BY DEF GoesOn, Finish
<1>2. Servers'
  BY DEF GoesOn, Finish, Servers, ScreenInv, TypeInv
<1>3. Wires'
  <2>1. <<s, FALSE>> \in Events /\ <<s, TRUE>> \in Events /\ wire \in Seq(Events)
    BY DEF Events, Wires, ScreenInv, TypeInv
  <2>2. CASE GoesOn(s)
    <3>1. wire' = Append(wire, <<s, FALSE>>)
      BY <2>2 DEF GoesOn
    <3> QED BY <2>1, <3>1, AppendProperties DEF Wires
  <2>3. CASE Finish(s)
    <3>1. PICK n \in 0..2 : wire' = wire \o [k \in 1..n |-> <<s, TRUE>>]
      BY <2>3 DEF Finish
    <3>2. [k \in 1..n |-> <<s, TRUE>>] \in Seq(Events)
      BY <2>1, SameElements
    <3> QED BY <2>1, <3>1, <3>2, ConcatProperties DEF Wires
  <2> QED BY <2>2, <2>3
<1> QED
  BY <1>1, <1>2, <1>3 DEF ScreenInv, TypeInv, Busied, Panels, CallsAsked, Bounds, Asked, CallSet, Calls

-----------------------------------------------------------------------------
(* The continuations *)

\* What a continuation has to show, when the server and the events stay as they are.
LEMMA ScreenStep ==
  ASSUME ScreenInv, UNCHANGED <<server, wire, clicks, faults>>, timers' \in 0..MaxTimers,
         screen' \in Screen, CallsAsked', Busied', Panels'
  PROVE  ScreenInv'
  BY DEF ScreenInv, TypeInv, Servers, Wires, Bounds

LEMMA ReturnedIs ==
  ASSUME ScreenInv, NEW i \in Calls, NEW kind \in Kinds, Returned(i, kind)
  PROVE  call[i].kind = kind /\ call[i].search \in Searches /\ call[i].search # None
  BY DEF Returned, ScreenInv, TypeInv, CallsAsked, Asked, Kinds

\* The call leaves its slot, and the screen is not busy or polls.
LEMMA EndedPolls ==
  ASSUME ScreenInv, NEW i \in Calls, call' = [call EXCEPT ![i] = NoCall],
         screen'.busy => screen'.poll # None
  PROVE  CallsAsked' /\ Busied'
  BY CallEnded DEF Busied

\* The call leaves its slot, was not the one waited for, and the screen is busy as before.
LEMMA EndedBeside ==
  ASSUME ScreenInv, NEW i \in Calls, call' = [call EXCEPT ![i] = NoCall],
         call[i].kind \notin Waiting, screen'.busy => screen.busy /\ screen'.poll = screen.poll
  PROVE  CallsAsked' /\ Busied'
<1>1. CallsAsked' /\ \A j \in Calls \ {i} : call'[j] = call[j]
  BY CallEnded
<1>2. ASSUME screen'.busy, screen'.poll = None PROVE \E j \in Calls : call'[j].kind \in Waiting
  <2>1. PICK j \in Calls : call[j].kind \in Waiting
    BY <1>2 DEF ScreenInv, Busied
  <2> QED BY <1>1, <2>1
<1> QED
  BY <1>1, <1>2 DEF Busied, Calls

\* What loadSearch makes of the screen.
LEMMA LoadedIs ==
  ASSUME ScreenInv, NEW s \in Searches, NEW over \in BOOLEAN
  PROVE  /\ Loaded(screen, s, over) \in Screen
         /\ over => ~Loaded(screen, s, over).busy /\ Loaded(screen, s, over).panel = None
         /\ ~over => /\ Loaded(screen, s, over).busy = screen.busy
                     /\ Loaded(screen, s, over).poll = screen.poll
                     /\ Loaded(screen, s, over).panel = screen.panel
                     /\ Loaded(screen, s, over).heard = screen.heard
<1>1. screen \in Screen
  BY DEF ScreenInv, TypeInv
<1>2. CASE over
  BY <1>1, <1>2 DEF Loaded, Quiet, Screen
<1>3. CASE ~over
  BY <1>1, <1>3 DEF Loaded, Screen
<1> QED
  BY <1>2, <1>3

LEMMA SubmittedKeeps ==
  ASSUME ScreenInv, NEW i \in Calls, Submitted(i)
  PROVE  ScreenInv'
<1>1. /\ UNCHANGED <<server, timers, wire, clicks, faults>> /\ screen \in Screen
      /\ Returned(i, "submit") /\ call[i].search \in Searches
  BY ReturnedIs DEF Submitted, ScreenInv, TypeInv, Kinds
<1>2. CASE Failed(i)
  <2>1. screen' = [screen EXCEPT !.busy = FALSE, !.panel = None] /\ call' = [call EXCEPT ![i] = NoCall]
    BY <1>2 DEF Submitted, Failed
  <2>2. screen' \in Screen /\ ~screen'.busy /\ Panels'
    BY <1>1, <2>1 DEF Screen, Panels
  <2> QED BY <1>1, <2>1, <2>2, EndedPolls, ScreenStep DEF ScreenInv, TypeInv, Bounds
<1>3. CASE ~Failed(i) /\ call[i].answer = "hit"
  <2>1. /\ screen' = [screen EXCEPT !.busy = FALSE, !.panel = None, !.detail = call[i].search]
        /\ call' = [call EXCEPT ![i] = NoCall]
    BY <1>3 DEF Submitted, Failed
  <2>2. screen' \in Screen /\ ~screen'.busy /\ Panels'
    BY <1>1, <2>1 DEF Screen, Panels
  <2> QED BY <1>1, <2>1, <2>2, EndedPolls, ScreenStep DEF ScreenInv, TypeInv, Bounds
<1>4. CASE ~Failed(i) /\ call[i].answer = "started"
  <2>1. PICK c : c = [NoCall EXCEPT !.kind = "load", !.search = call[i].search, !.answer = "waiting"]
    OBVIOUS
  <2>2. screen' = Attached(screen, call[i].search) /\ call' = [call EXCEPT ![i] = c]
    BY <1>4, <2>1 DEF Submitted, Failed
  <2>3. Asked(c) /\ c.kind = "load"
    BY <1>1, <2>1 DEF Asked, NoCall, CallSet, Kinds, Replies
  <2>4. CallsAsked' /\ Busied'
    BY <2>2, <2>3, SlotTakes DEF ScreenInv, TypeInv, Busied, Waiting
  <2>5. screen' \in Screen /\ Panels'
    BY <1>1, <2>2 DEF Screen, Attached, Panels
  <2> QED BY <1>1, <2>4, <2>5, ScreenStep DEF ScreenInv, TypeInv, Bounds
<1>5. Failed(i) \/ call[i].answer = "hit" \/ call[i].answer = "started"
  BY <1>1 DEF ScreenInv, TypeInv, CallsAsked, Asked, Returned, Failed
<1> QED
  BY <1>2, <1>3, <1>4, <1>5

LEMMA FirstLoadedKeeps ==
  ASSUME ScreenInv, NEW i \in Calls, FirstLoaded(i)
  PROVE  ScreenInv'
<1>1. /\ UNCHANGED <<server, timers, wire, clicks, faults>> /\ screen \in Screen
      /\ call' = [call EXCEPT ![i] = NoCall] /\ Panels
      /\ call[i].search \in Searches /\ call[i].search # None
  BY ReturnedIs DEF FirstLoaded, ScreenInv, TypeInv, Kinds
<1>2. PICK s : s = call[i].search
  OBVIOUS
<1>3. screen' \in Screen /\ Panels' /\ (screen'.busy => screen'.poll # None)
  <2>1. CASE Failed(i)
    <3>1. screen' = [screen EXCEPT !.busy = FALSE, !.panel = None]
      BY <2>1 DEF FirstLoaded
    <3> QED BY <1>1, <3>1 DEF Screen, Panels
  <2>2. CASE ~Failed(i) /\ call[i].answer = "over"
    <3>1. screen' = Loaded(screen, s, TRUE)
      BY <1>2, <2>2 DEF FirstLoaded, Loaded
    <3> QED BY <1>1, <1>2, <3>1, LoadedIs DEF Panels
  <2>3. CASE ~Failed(i) /\ call[i].answer # "over"
    <3>1. screen' = [Loaded(screen, s, FALSE) EXCEPT !.poll = s]
      BY <1>2, <2>3 DEF FirstLoaded, Loaded, Polling
    <3>2. /\ Loaded(screen, s, FALSE) \in Screen
          /\ Loaded(screen, s, FALSE).panel = screen.panel /\ Loaded(screen, s, FALSE).heard = screen.heard
      BY <1>1, <1>2, LoadedIs
    <3> QED BY <1>1, <1>2, <3>1, <3>2 DEF Screen, Panels
  <2> QED BY <2>1, <2>2, <2>3
<1> QED
  BY <1>1, <1>3, EndedPolls, ScreenStep DEF ScreenInv, TypeInv, Bounds

LEMMA SelectedKeeps ==
  ASSUME ScreenInv, NEW i \in Calls, Selected(i)
  PROVE  ScreenInv'
<1>1. /\ UNCHANGED <<server, timers, wire, clicks, faults>> /\ screen \in Screen
      /\ call' = [call EXCEPT ![i] = NoCall] /\ Panels
      /\ call[i].search \in Searches /\ call[i].search # None
  BY ReturnedIs DEF Selected, ScreenInv, TypeInv, Kinds
<1>2. PICK s : s = call[i].search
  OBVIOUS
<1>3. screen' \in Screen /\ Panels' /\ (screen'.busy => screen'.poll # None)
  <2>1. CASE Failed(i)
    <3>1. screen' = [screen EXCEPT !.busy = FALSE]
      BY <2>1 DEF Selected
    <3> QED BY <1>1, <3>1 DEF Screen, Panels
  <2>2. CASE ~Failed(i) /\ call[i].answer = "over"
    <3>1. screen' = Loaded(screen, s, TRUE)
      BY <1>2, <2>2 DEF Selected, Loaded
    <3> QED BY <1>1, <1>2, <3>1, LoadedIs DEF Panels
  <2>3. CASE ~Failed(i) /\ call[i].answer # "over"
    <3>1. screen' = [[Loaded(screen, s, FALSE) EXCEPT !.heard = s, !.active = s, !.panel = s]
                        EXCEPT !.poll = s]
      BY <1>2, <2>3 DEF Selected, Loaded, Polling, Attached
    <3>2. Loaded(screen, s, FALSE) \in Screen
      BY <1>1, <1>2, LoadedIs
    <3> QED BY ZenonT(40), <1>1, <1>2, <3>1, <3>2 DEF Screen, Panels
  <2> QED BY <2>1, <2>2, <2>3
<1> QED
  BY <1>1, <1>3, EndedPolls, ScreenStep DEF ScreenInv, TypeInv, Bounds

LEMMA PolledKeeps ==
  ASSUME ScreenInv, NEW i \in Calls, Polled(i)
  PROVE  ScreenInv'
<1>1. /\ UNCHANGED <<server, timers, wire, clicks, faults>> /\ screen \in Screen
      /\ call' = [call EXCEPT ![i] = NoCall] /\ Panels
      /\ call[i].search \in Searches /\ call[i].kind \notin Waiting
  BY ReturnedIs DEF Polled, ScreenInv, TypeInv, Kinds, Waiting
<1>2. /\ screen' \in Screen /\ Panels'
      /\ screen'.busy => screen.busy /\ screen'.poll = screen.poll
  <2>1. CASE Failed(i)
    <3>1. screen' = PollFailed(screen)
      BY <2>1 DEF Polled
    <3> QED BY <1>1, <3>1 DEF Screen, Panels, PollFailed, Quiet
  <2>2. CASE ~Failed(i) /\ call[i].answer = "over"
    <3>1. screen' = Loaded(screen, call[i].search, TRUE)
      BY <2>2 DEF Polled, Loaded
    <3> QED BY <1>1, <3>1, LoadedIs DEF Panels
  <2>3. CASE ~Failed(i) /\ call[i].answer # "over"
    <3>1. screen' = Loaded(screen, call[i].search, FALSE)
      BY <2>3 DEF Polled, Loaded
    <3> QED BY <1>1, <3>1, LoadedIs DEF Panels
  <2> QED BY <2>1, <2>2, <2>3
<1> QED
  BY <1>1, <1>2, EndedBeside, ScreenStep DEF ScreenInv, TypeInv, Bounds

LEMMA EventLoadedKeeps ==
  ASSUME ScreenInv, NEW i \in Calls, EventLoaded(i)
  PROVE  ScreenInv'
<1>1. /\ UNCHANGED <<server, wire, clicks, faults>> /\ screen \in Screen
      /\ call' = [call EXCEPT ![i] = NoCall] /\ Panels
      /\ call[i].search \in Searches /\ call[i].kind \notin Waiting
  BY ReturnedIs DEF EventLoaded, ScreenInv, TypeInv, Kinds, Waiting
<1>2. timers' \in 0..MaxTimers
  BY DEF EventLoaded, ScreenInv, TypeInv, Bounds
<1>3. /\ screen' \in Screen /\ Panels'
      /\ screen'.busy => screen.busy /\ screen'.poll = screen.poll
  <2>1. CASE Failed(i)
    <3>1. screen' = screen
      BY <2>1 DEF EventLoaded
    <3> QED BY <1>1, <3>1 DEF Panels
  <2>2. CASE ~Failed(i) /\ call[i].answer = "over"
    <3>1. screen' = Loaded(screen, call[i].search, TRUE)
      BY <2>2 DEF EventLoaded, Loaded
    <3> QED BY <1>1, <3>1, LoadedIs DEF Panels
  <2>3. CASE ~Failed(i) /\ call[i].answer # "over"
    <3>1. screen' = Loaded(screen, call[i].search, FALSE)
      BY <2>3 DEF EventLoaded, Loaded
    <3> QED BY <1>1, <3>1, LoadedIs DEF Panels
  <2> QED BY <2>1, <2>2, <2>3
<1> QED
  BY <1>1, <1>2, <1>3, EndedBeside, ScreenStep

LEMMA DeletedKeeps ==
  ASSUME ScreenInv, NEW i \in Calls, Deleted(i)
  PROVE  ScreenInv'
<1>1. /\ UNCHANGED <<server, timers, wire, clicks, faults>> /\ screen \in Screen
      /\ call' = [call EXCEPT ![i] = NoCall] /\ Panels /\ call[i].kind \notin Waiting
  BY ReturnedIs DEF Deleted, ScreenInv, TypeInv, Kinds, Waiting
<1>2. /\ screen' \in Screen /\ Panels'
      /\ screen'.busy => screen.busy /\ screen'.poll = screen.poll
  <2>1. CASE screen' = screen
    BY <1>1, <2>1 DEF Panels
  <2>2. CASE screen' # screen
    <3>1. screen' = [Quiet(screen) EXCEPT !.detail = None, !.active = None, !.busy = FALSE]
      BY <2>2 DEF Deleted
    <3> QED BY <1>1, <3>1 DEF Screen, Panels, Quiet
  <2> QED BY <2>1, <2>2
<1> QED
  BY <1>1, <1>2, EndedBeside, ScreenStep DEF ScreenInv, TypeInv, Bounds

LEMMA DeliverKeeps ==
  ASSUME ScreenInv, Deliver
  PROVE  ScreenInv'
<1>1. /\ UNCHANGED <<server, timers, clicks, faults>> /\ screen \in Screen
      /\ wire # << >> /\ wire' = Tail(wire) /\ wire \in Seq(Events) /\ CallsAsked
  BY DEF Deliver, ScreenInv, TypeInv, Wires
<1>2. Head(wire)[1] \in Searches /\ Wires'
  BY <1>1, HeadTailProperties DEF Events, Wires
<1>3. PICK s \in Searches : s = Head(wire)[1]
  BY <1>2
<1>4. Servers' /\ Bounds'
  BY <1>1 DEF ScreenInv, TypeInv, Servers, Bounds
<1>5. CASE UNCHANGED <<screen, call>>
  BY <1>1, <1>2, <1>4, <1>5
  DEF ScreenInv, TypeInv, Busied, Panels, CallsAsked, Asked, CallSet, Calls
<1>6. CASE screen.heard = s /\ screen' = [screen EXCEPT !.panel = s] /\ UNCHANGED call
  <2>1. /\ screen' \in Screen /\ screen'.panel = screen'.heard /\ screen'.busy = screen.busy
        /\ screen'.poll = screen.poll
    BY <1>1, <1>6 DEF Screen
  <2> QED BY <1>1, <1>2, <1>4, <1>6, <2>1
      DEF ScreenInv, TypeInv, Busied, Panels, CallsAsked, Asked, CallSet, Calls
<1>7. CASE /\ screen.heard = s /\ Free # {} /\ call' = Sent("event", s, FALSE)
           /\ screen' = [screen EXCEPT !.panel = s, !.busy = FALSE, !.poll = None]
  <2>1. screen' \in Screen /\ screen'.panel = screen'.heard /\ ~screen'.busy
    BY <1>1, <1>7 DEF Screen
  <2>2. CallsAsked'
    BY <1>7, CallAdded DEF Kinds
  <2> QED BY <1>2, <1>4, <2>1, <2>2 DEF ScreenInv, TypeInv, Busied, Panels
<1> QED
  BY <1>3, <1>5, <1>6, <1>7 DEF Deliver

LEMMA TickKeeps ==
  ASSUME ScreenInv, Tick
  PROVE  ScreenInv'
<1>1. /\ UNCHANGED <<server, screen, timers, wire, clicks, faults>> /\ Free # {}
      /\ call' = Sent("poll", screen.poll, FALSE) /\ screen.poll # None /\ screen \in Screen
  BY DEF Tick, ScreenInv, TypeInv
<1>2. PICK s \in Searches : s = screen.poll
  BY <1>1 DEF Screen
<1>3. CallsAsked'
  BY <1>1, <1>2, CallAdded DEF Kinds
<1> QED
  BY <1>1, <1>3 DEF ScreenInv, TypeInv, Servers, Wires, Bounds, Busied, Panels

LEMMA TimeoutKeeps ==
  ASSUME ScreenInv, Timeout
  PROVE  ScreenInv'
<1>1. /\ UNCHANGED <<server, call, wire, clicks, faults>> /\ screen \in Screen
      /\ timers' \in 0..MaxTimers
      /\ screen' = [screen EXCEPT !.panel = None, !.heard = None, !.active = None]
  BY DEF Timeout, ScreenInv, TypeInv, Bounds
<1>2. /\ screen' \in Screen /\ screen'.panel = None /\ screen'.busy = screen.busy
      /\ screen'.poll = screen.poll
  BY <1>1 DEF Screen
<1> QED
  BY <1>1, <1>2
  DEF ScreenInv, TypeInv, Servers, Wires, Bounds, Busied, Panels, CallsAsked, Asked, CallSet, Calls

LEMMA ScreenNext ==
  ASSUME ScreenInv, [Next]_screenVars
  PROVE  ScreenInv'
<1>1. ASSUME NEW i \in Calls, Continue(i) PROVE ScreenInv'
  BY <1>1, SubmittedKeeps, FirstLoadedKeeps, SelectedKeeps, PolledKeeps, EventLoadedKeeps, DeletedKeeps
  DEF Continue
<1>2. CASE UNCHANGED screenVars
  BY <1>2 DEF screenVars, ScreenInv, TypeInv, Servers, Wires, Bounds, Busied, Panels, CallsAsked, Asked,
              CallSet, Calls
<1> QED
  BY <1>1, <1>2, UserKeeps, ServerKeeps, CrawlKeeps, DeliverKeeps, TickKeeps, TimeoutKeeps DEF Next

-----------------------------------------------------------------------------
(* A note that saves itself *)

Editors == [open : BOOLEAN, body : Texts, lastSaved : Texts, timer : BOOLEAN,
            tells : {"idle", "saving", "saved", "error"}]
NoteCalls == [kind : {"none", "save", "list"}, text : Texts,
              stage : {"none", "sent", "done", "failed"}, mine : BOOLEAN]

NoteTypes == /\ stored \in Texts /\ held \in Texts /\ editor \in Editors
             /\ saving \in [Saves -> NoteCalls]
             /\ \A i \in Saves : saving[i].stage # "none" => saving[i].kind # "none"
             /\ typed \in Nat /\ failed \in Nat

Saving(i) == saving[i].kind = "save"
NoteServed(i) == saving[i].stage = "done"

\* The one save that can be under way: of what the editor shows, and beside no list once it is served.
OneSave  == \A i, j \in Saves : Saving(i) /\ Saving(j) => i = j
SaveOf(i) ==
    Saving(i) =>
       /\ editor.open /\ ~editor.timer /\ saving[i].mine /\ editor.tells = "saving"
       /\ saving[i].stage \in {"sent", "done"} => saving[i].text = editor.body
       /\ NoteServed(i) => /\ saving[i].text = stored
                       /\ \A j \in Saves : saving[j].kind # "list"
ListOf(i) == saving[i].kind = "list" /\ NoteServed(i) => saving[i].text = stored

Unheard == \E i \in Saves : Saving(i) /\ NoteServed(i)

\* What the list holds is what the server has; or it is what the editor has saved last, so that it
\* is not taken for a text to save.
Draft == editor.open =>
           /\ editor.tells = "saved" => editor.body = stored /\ editor.lastSaved = editor.body
           /\ editor.timer => editor.tells = "saving" /\ editor.body # editor.lastSaved
           /\ failed = 0 => editor.lastSaved = held
           /\ held = stored \/ held = editor.lastSaved \/ Unheard
HeldIs == failed = 0 => held = stored \/ Unheard

Calm == OneSave /\ (\A i \in Saves : SaveOf(i) /\ ListOf(i)) /\ Draft /\ HeldIs

NoteInv == NoteTypes /\ (calm /\ failed <= 1 => Calm)

USE DashboardAssumption DEF DashboardAssumption, Note!NoteAssumption

LEMMA NoteInit == ASSUME Note!Init PROVE NoteInv
<1>1. NoteTypes
  BY DEF Note!Init, NoteTypes, Editors, NoteCalls, Note!Closed, Note!NoSave
<1>2. ~editor.open /\ held = stored /\ \A i \in Saves : saving[i].kind = "none"
  BY DEF Note!Init, Note!Closed, Note!NoSave
<1> QED
  BY <1>1, <1>2 DEF NoteInv, Calm, OneSave, SaveOf, ListOf, Saving, Draft, HeldIs

LEMMA ToggleKeeps == ASSUME NoteInv, Note!Toggle PROVE NoteInv'
<1>1. /\ UNCHANGED <<stored, held, failed>> /\ typed' \in Nat
      /\ calm' => calm /\ \A i \in Saves : ~Saving(i)
  <2>1. calm' => calm /\ ~Note!Busy("save")
    BY Zenon DEF Note!Toggle
  <2> QED BY <2>1 DEF Note!Toggle, Note!Acts, Note!Busy, NoteInv, NoteTypes, Saving
<1>2. /\ saving' \in [Saves -> NoteCalls]
      /\ \A i \in Saves : saving'[i] = [saving[i] EXCEPT !.mine = FALSE]
  BY DEF Note!Toggle, NoteInv, NoteTypes, NoteCalls
<1>3. \A i \in Saves : saving'[i].kind = saving[i].kind /\ saving'[i].stage = saving[i].stage
                       /\ saving'[i].text = saving[i].text
  BY <1>2 DEF NoteInv, NoteTypes, NoteCalls
<1>4. /\ editor' \in Editors
      /\ editor'.open => editor'.lastSaved = held /\ ~editor'.timer /\ editor'.tells = "idle"
  BY DEF Note!Toggle, Note!Closed, NoteInv, NoteTypes, Editors
<1>5. NoteTypes'
  BY <1>1, <1>2, <1>3, <1>4 DEF NoteInv, NoteTypes
<1>6. ASSUME calm', failed' <= 1 PROVE Calm'
  BY <1>1, <1>3, <1>4, <1>6
  DEF NoteInv, NoteTypes, Calm, OneSave, SaveOf, ListOf, Saving, NoteServed, Draft, HeldIs, Unheard
<1> QED
  BY <1>5, <1>6 DEF NoteInv

LEMMA TypeKeeps == ASSUME NoteInv, NEW t \in Texts, Note!Type(t) PROVE NoteInv'
<1>1. /\ UNCHANGED <<stored, held, saving, failed>> /\ typed' \in Nat
      /\ calm' => calm /\ \A i \in Saves : ~Saving(i)
      /\ editor.open /\ t # editor.body
  <2>1. calm' => calm /\ ~Note!Busy("save")
    BY Zenon DEF Note!Type
  <2> QED BY <2>1 DEF Note!Type, Note!Acts, Note!Busy, NoteInv, NoteTypes, Saving
<1>2. /\ editor' \in Editors /\ editor'.lastSaved = editor.lastSaved /\ editor'.open
      /\ editor'.timer => editor'.tells = "saving" /\ editor'.body # editor'.lastSaved
      /\ editor'.tells = "saved" => editor.tells = "saved" /\ t = editor.lastSaved
  BY DEF Note!Type, Note!Edited, NoteInv, NoteTypes, Editors
<1>3. NoteTypes'
  BY <1>1, <1>2 DEF NoteInv, NoteTypes
<1>4. ASSUME calm', failed' <= 1 PROVE Calm'
  BY <1>1, <1>2, <1>4
  DEF NoteInv, NoteTypes, Calm, OneSave, SaveOf, ListOf, Saving, NoteServed, Draft, HeldIs, Unheard
<1> QED
  BY <1>3, <1>4 DEF NoteInv

\* A call takes a slot in which there was none.
LEMMA StartIs ==
  ASSUME NoteTypes, NEW kind \in {"save", "list"}, NEW text \in Texts, Note!Start(kind, text)
  PROVE  \E i \in Saves :
           /\ saving[i].kind = "none"
           /\ saving' \in [Saves -> NoteCalls]
           /\ saving'[i] = [kind |-> kind, text |-> text, stage |-> "sent", mine |-> TRUE]
           /\ \A j \in Saves \ {i} : saving'[j] = saving[j]
  BY DEF Note!Start, Note!NoSave, NoteTypes, NoteCalls

LEMMA FireKeeps == ASSUME NoteInv, Note!Fire PROVE NoteInv'
<1>1. /\ UNCHANGED <<stored, held, typed, failed, calm>> /\ editor \in Editors
      /\ editor.open /\ editor.timer
  BY DEF Note!Fire, NoteInv, NoteTypes
<1>2. CASE editor.body \in {Blank, held}
  <2>1. /\ UNCHANGED saving /\ editor' \in Editors /\ editor'.open /\ ~editor'.timer
        /\ editor'.tells \in {"saved", "error"} /\ editor'.body = editor.body
        /\ editor'.tells = "saved" => editor.body = held /\ editor'.lastSaved = held
        /\ editor'.tells = "error" => editor'.lastSaved = editor.lastSaved
    <3>1. CASE editor.body = Blank
      <4>1. /\ UNCHANGED saving
            /\ editor' = [[editor EXCEPT !.timer = FALSE] EXCEPT !.tells = "error"]
        BY <1>2, <3>1 DEF Note!Fire, Note!Told
      <4> QED BY <1>1, <4>1 DEF Editors
    <3>2. CASE editor.body # Blank
      <4>1. /\ UNCHANGED saving /\ editor.body = held
            /\ editor' = [[editor EXCEPT !.timer = FALSE] EXCEPT !.tells = "saved", !.lastSaved = held]
        BY <1>2, <3>2 DEF Note!Fire, Note!Told
      <4> QED BY <1>1, <4>1 DEF Editors
    <3> QED BY <3>1, <3>2
  <2>2. NoteTypes'
    BY <1>1, <2>1 DEF NoteInv, NoteTypes
  <2>3. ASSUME calm, failed <= 1 PROVE Calm'
    <3>1. \A i \in Saves : ~Saving(i)
      BY <1>1, <2>3 DEF NoteInv, Calm, SaveOf
    <3> QED
      BY <1>1, <2>1, <2>3, <3>1
      DEF NoteInv, NoteTypes, Calm, OneSave, SaveOf, ListOf, Saving, NoteServed, Draft, HeldIs, Unheard
  <2> QED BY <1>1, <2>2, <2>3 DEF NoteInv
<1>3. CASE editor.body \notin {Blank, held}
  <2>1. PICK i \in Saves :
           /\ saving[i].kind = "none" /\ saving' \in [Saves -> NoteCalls]
           /\ saving'[i] = [kind |-> "save", text |-> editor.body, stage |-> "sent", mine |-> TRUE]
           /\ \A j \in Saves \ {i} : saving'[j] = saving[j]
    <3>1. Note!Start("save", editor.body) /\ editor.body \in Texts
      BY <1>1, <1>3 DEF Note!Fire, Editors
    <3> QED BY <3>1, StartIs DEF NoteInv
  <2>2. editor' = [editor EXCEPT !.timer = FALSE] /\ editor' \in Editors
    BY <1>1, <1>3 DEF Note!Fire, Editors
  <2>3. /\ editor'.open /\ ~editor'.timer /\ editor'.body = editor.body
        /\ editor'.lastSaved = editor.lastSaved /\ editor'.tells = editor.tells
    BY <1>1, <2>2 DEF Editors
  <2>4. NoteTypes'
    BY <1>1, <2>1, <2>2 DEF NoteInv, NoteTypes
  <2>5. ASSUME calm, failed <= 1 PROVE Calm'
    <3>1. \A j \in Saves : ~Saving(j)
      BY <1>1, <2>5 DEF NoteInv, Calm, SaveOf
    <3> QED
      BY <1>1, <2>1, <2>3, <2>5, <3>1
      DEF NoteInv, NoteTypes, Calm, OneSave, SaveOf, ListOf, Saving, NoteServed, Draft, HeldIs, Unheard
  <2> QED BY <1>1, <2>4, <2>5 DEF NoteInv
<1> QED
  BY <1>2, <1>3

LEMMA ListKeeps == ASSUME NoteInv, Note!List PROVE NoteInv'
<1>1. /\ UNCHANGED <<stored, held, editor, failed>> /\ typed' \in Nat
      /\ calm' => calm /\ \A i \in Saves : ~Saving(i)
  <2>1. calm' => calm /\ ~Note!Busy("save")
    BY Zenon DEF Note!List
  <2> QED BY <2>1 DEF Note!List, Note!Acts, Note!Busy, NoteInv, NoteTypes, Saving
<1>2. PICK i \in Saves :
         /\ saving[i].kind = "none" /\ saving' \in [Saves -> NoteCalls]
         /\ saving'[i] = [kind |-> "list", text |-> Blank, stage |-> "sent", mine |-> TRUE]
         /\ \A j \in Saves \ {i} : saving'[j] = saving[j]
  <2>1. Note!Start("list", Blank) /\ Blank \in Texts
    BY DEF Note!List
  <2> QED BY <2>1, StartIs DEF NoteInv
<1>3. NoteTypes'
  BY <1>1, <1>2 DEF NoteInv, NoteTypes
<1>4. ASSUME calm', failed' <= 1 PROVE Calm'
  BY <1>1, <1>2, <1>4
  DEF NoteInv, NoteTypes, Calm, OneSave, SaveOf, ListOf, Saving, NoteServed, Draft, HeldIs, Unheard
<1> QED
  BY <1>3, <1>4 DEF NoteInv

LEMMA ServeKeeps == ASSUME NoteInv, NEW i \in Saves, Note!Serve(i) PROVE NoteInv'
<1>1. /\ UNCHANGED <<held, editor, typed, failed>> /\ saving[i].stage = "sent"
      /\ stored' = IF Saving(i) THEN saving[i].text ELSE stored
      /\ saving' = [saving EXCEPT ![i] = [saving[i] EXCEPT !.stage = "done", !.text = stored']]
  BY DEF Note!Serve, Saving, NoteInv, NoteTypes
<1>2. calm' => calm /\ (Saving(i) => \A j \in Saves : saving[j].kind # "list")
  <2>1. calm' => calm /\ ~(Saving(i) /\ Note!Busy("list"))
    BY Zenon DEF Note!Serve, Saving
  <2> QED BY <2>1 DEF Note!Busy
<1>3. stored' \in Texts
  BY <1>1 DEF NoteInv, NoteTypes, NoteCalls
<1>4. /\ saving' \in [Saves -> NoteCalls] /\ \A j \in Saves \ {i} : saving'[j] = saving[j]
      /\ saving'[i].kind = saving[i].kind /\ saving'[i].mine = saving[i].mine
      /\ saving'[i].stage = "done" /\ saving'[i].text = stored'
  BY <1>1, <1>3 DEF NoteInv, NoteTypes, NoteCalls
<1>5. NoteTypes'
  BY <1>1, <1>3, <1>4 DEF NoteInv, NoteTypes
<1>6. ASSUME calm', failed' <= 1 PROVE Calm'
  <2>1. calm /\ Calm
    BY <1>1, <1>2, <1>6 DEF NoteInv
  <2>2. CASE Saving(i)
    <3>1. editor.open /\ ~editor.timer /\ editor.tells = "saving" /\ stored' = editor.body /\ saving[i].mine
      BY <1>1, <2>1, <2>2 DEF Calm, SaveOf
    <3>2. \A j \in Saves \ {i} : ~Saving(j) /\ saving[j].kind # "list"
      BY <1>2, <1>6, <2>1, <2>2 DEF Calm, OneSave
    <3>3. /\ Saving(i)' /\ NoteServed(i)'
          /\ \A j \in Saves \ {i} : (Saving(j)' <=> Saving(j)) /\ saving'[j].kind # "list"
      BY <1>4, <2>2, <3>2 DEF Saving, NoteServed
    <3>4. \A j \in Saves : (SaveOf(j) /\ ListOf(j))'
      BY <1>1, <1>4, <2>2, <3>1, <3>2, <3>3 DEF SaveOf, ListOf, Saving, NoteServed
    <3>5. Unheard'
      BY <3>3 DEF Unheard
    <3>6. Draft' /\ HeldIs'
      BY <1>1, <2>1, <3>1, <3>5 DEF Draft, HeldIs, Calm
    <3>7. OneSave'
      BY <3>2, <3>3 DEF OneSave
    <3> QED BY <3>4, <3>6, <3>7 DEF Calm
  <2>3. CASE ~Saving(i)
    <3>1. stored' = stored /\ \A j \in Saves : /\ (Saving(j)' <=> Saving(j))
                                               /\ Saving(j) => saving'[j] = saving[j]
                                               /\ saving'[j].kind = saving[j].kind
      BY <1>1, <1>4, <2>3 DEF Saving
    <3>2. ASSUME NEW j \in Saves PROVE SaveOf(j)' /\ ListOf(j)'
      <4>1. SaveOf(j) /\ ListOf(j)
        BY <2>1 DEF Calm
      <4>2. SaveOf(j)'
        <5>1. CASE Saving(j)
          <6>1. saving'[j] = saving[j] /\ UNCHANGED <<stored, editor>> /\ \A k \in Saves : saving'[k].kind = saving[k].kind
            BY <1>1, <3>1, <5>1
          <6> QED BY <4>1, <5>1, <6>1 DEF SaveOf, Saving, NoteServed
        <5>2. CASE ~Saving(j)
          BY <3>1, <5>2 DEF SaveOf
        <5> QED BY <5>1, <5>2
      <4>3. ListOf(j)'
        BY <1>4, <3>1, <4>1 DEF ListOf, NoteServed
      <4> QED BY <4>2, <4>3
    <3>3. OneSave'
      BY <2>1, <3>1 DEF Calm, OneSave
    <3>4. Unheard' <=> Unheard
      BY <3>1 DEF Unheard, NoteServed
    <3>5. Draft' /\ HeldIs'
      BY <1>1, <2>1, <3>1, <3>4 DEF Calm, Draft, HeldIs
    <3> QED BY <3>2, <3>3, <3>5 DEF Calm
  <2> QED BY <2>2, <2>3
<1> QED
  BY <1>5, <1>6 DEF NoteInv

LEMMA FailKeeps == ASSUME NoteInv, NEW i \in Saves, Note!Fail(i) PROVE NoteInv'
<1>1. /\ UNCHANGED <<stored, held, editor, typed, calm>> /\ failed' = failed + 1
      /\ saving[i].kind # "none"
      /\ saving' = [saving EXCEPT ![i] = [saving[i] EXCEPT !.stage = "failed"]]
  BY DEF Note!Fail, NoteInv, NoteTypes
<1>2. /\ saving' \in [Saves -> NoteCalls] /\ \A j \in Saves \ {i} : saving'[j] = saving[j]
      /\ saving'[i].kind = saving[i].kind /\ saving'[i].mine = saving[i].mine
      /\ saving'[i].stage = "failed"
  BY <1>1 DEF NoteInv, NoteTypes, NoteCalls
<1>3. NoteTypes'
  BY <1>1, <1>2 DEF NoteInv, NoteTypes
<1>4. ASSUME calm', failed' <= 1 PROVE Calm'
  <2>1. calm /\ failed = 0 /\ failed' = 1 /\ Calm
    BY <1>1, <1>4 DEF NoteInv, NoteTypes
  <2>2. \A j \in Saves : saving'[j].kind = saving[j].kind
    BY <1>2
  <2>3. OneSave' /\ \A j \in Saves : (SaveOf(j) /\ ListOf(j))'
    BY <1>1, <1>2, <2>1, <2>2 DEF Calm, OneSave, SaveOf, ListOf, Saving, NoteServed
  <2>4. Draft'
    <3>1. ASSUME editor.open PROVE held = stored \/ held = editor.lastSaved
      BY <2>1, <3>1 DEF Calm, Draft
    <3> QED BY <1>1, <2>1, <3>1 DEF Calm, Draft
  <2> QED BY <2>1, <2>3, <2>4 DEF Calm, HeldIs
<1> QED
  BY <1>3, <1>4 DEF NoteInv

LEMMA AnswerKeeps == ASSUME NoteInv, NEW i \in Saves, Note!Answer(i) PROVE NoteInv'
<1>1. /\ UNCHANGED <<stored, typed, failed, calm>> /\ saving[i].stage \in {"done", "failed"}
      /\ held' = IF NoteServed(i) THEN saving[i].text ELSE held
      /\ editor' = IF Saving(i) /\ saving[i].mine THEN Note!Told(editor, saving[i].text, NoteServed(i)) ELSE editor
      /\ saving' = [saving EXCEPT ![i] = Note!NoSave]
  BY DEF Note!Answer, Saving, NoteServed
<1>2. /\ saving' \in [Saves -> NoteCalls] /\ \A j \in Saves \ {i} : saving'[j] = saving[j]
      /\ saving'[i].kind = "none" /\ saving'[i].stage = "none"
  BY <1>1 DEF NoteInv, NoteTypes, NoteCalls, Note!NoSave
<1>3. saving[i] \in NoteCalls /\ editor \in Editors /\ held' \in Texts
  BY <1>1 DEF NoteInv, NoteTypes, NoteCalls
<1>4. /\ editor' \in Editors
      /\ ~(Saving(i) /\ saving[i].mine) => editor' = editor
      /\ Saving(i) /\ saving[i].mine =>
           /\ editor'.open = editor.open /\ editor'.timer = editor.timer /\ editor'.body = editor.body
           /\ NoteServed(i) => editor'.tells = "saved" /\ editor'.lastSaved = saving[i].text
           /\ ~NoteServed(i) => editor'.tells = "error" /\ editor'.lastSaved = editor.lastSaved
  <2>1. CASE Saving(i) /\ saving[i].mine /\ NoteServed(i)
    <3>1. editor' = [editor EXCEPT !.tells = "saved", !.lastSaved = saving[i].text]
      BY <1>1, <2>1 DEF Note!Told
    <3> QED BY <1>3, <2>1, <3>1 DEF Editors, NoteCalls
  <2>2. CASE Saving(i) /\ saving[i].mine /\ ~NoteServed(i)
    <3>1. editor' = [editor EXCEPT !.tells = "error"]
      BY <1>1, <2>2 DEF Note!Told
    <3> QED BY <1>3, <2>2, <3>1 DEF Editors
  <2>3. CASE ~(Saving(i) /\ saving[i].mine)
    BY <1>1, <1>3, <2>3
  <2> QED BY <2>1, <2>2, <2>3
<1>5. NoteTypes'
  BY <1>1, <1>2, <1>3, <1>4 DEF NoteInv, NoteTypes
<1>6. ASSUME calm', failed' <= 1 PROVE Calm'
  <2>1. calm /\ failed <= 1 /\ failed' = failed /\ Calm
    BY <1>1, <1>6 DEF NoteInv
  <2>2. CASE Saving(i)
    <3>1. /\ editor.open /\ ~editor.timer /\ saving[i].mine /\ editor.tells = "saving"
          /\ NoteServed(i) => saving[i].text = editor.body /\ saving[i].text = stored
      BY <2>1, <2>2 DEF Calm, SaveOf, NoteServed
    <3>2. \A j \in Saves : ~Saving(j)'
      BY <1>2, <2>1, <2>2 DEF Calm, OneSave, Saving
    <3>3. OneSave' /\ \A j \in Saves : (SaveOf(j) /\ ListOf(j))'
      BY <1>1, <1>2, <2>1, <3>2 DEF Calm, OneSave, SaveOf, ListOf, NoteServed
    <3>4. CASE NoteServed(i)
      BY <1>1, <1>4, <2>1, <2>2, <3>1, <3>3, <3>4 DEF Calm, Draft, HeldIs
    <3>5. CASE ~NoteServed(i)
      <4>1. ~Unheard
        BY <2>1, <2>2, <3>5 DEF Calm, OneSave, Unheard
      <4> QED BY <1>1, <1>4, <2>1, <2>2, <3>1, <3>3, <3>5, <4>1 DEF Calm, Draft, HeldIs
    <3> QED BY <3>4, <3>5
  <2>3. CASE ~Saving(i)
    <3>1. editor' = editor /\ \A j \in Saves : /\ Saving(j)' <=> Saving(j)
                                               /\ Saving(j) => saving'[j] = saving[j]
                                               /\ saving'[j].kind \in {saving[j].kind, "none"}
      BY <1>2, <1>4, <2>3 DEF Saving
    <3>2. \A j \in Saves : (SaveOf(j) /\ ListOf(j))'
      BY <1>1, <1>2, <2>1, <3>1 DEF Calm, SaveOf, ListOf, Saving, NoteServed
    <3>3. OneSave'
      BY <2>1, <3>1 DEF Calm, OneSave
    <3>4. Unheard' <=> Unheard
      BY <3>1 DEF Unheard, NoteServed
    <3>5. CASE NoteServed(i)
      <4>1. saving[i].kind = "list" /\ ~Unheard
        BY <1>3, <2>1, <2>3, <3>5 DEF NoteInv, NoteTypes, NoteCalls, Calm, SaveOf, Unheard, Saving, NoteServed
      <4>2. held' = stored
        BY <1>1, <2>1, <3>5, <4>1 DEF Calm, ListOf
      <4> QED BY <1>1, <2>1, <3>1, <3>2, <3>3, <4>1, <4>2 DEF Calm, Draft, HeldIs
    <3>6. CASE ~NoteServed(i)
      BY <1>1, <2>1, <3>1, <3>2, <3>3, <3>4, <3>6 DEF Calm, Draft, HeldIs
    <3> QED BY <3>5, <3>6
  <2> QED BY <2>2, <2>3
<1> QED
  BY <1>5, <1>6 DEF NoteInv

LEMMA ElsewhereKeeps == ASSUME NoteInv, NEW t \in Texts, Note!Elsewhere(t) PROVE NoteInv'
  BY DEF Note!Elsewhere, Note!Acts, NoteInv, NoteTypes

LEMMA NoteNext == ASSUME NoteInv, [Note!Next]_noteVars PROVE NoteInv'
<1>1. CASE UNCHANGED noteVars
  BY <1>1 DEF noteVars, NoteInv, NoteTypes, Calm, OneSave, SaveOf, ListOf, Saving, NoteServed, Draft, HeldIs,
              Unheard
<1> QED
  BY <1>1, ToggleKeeps, TypeKeeps, FireKeeps, ListKeeps, ServeKeeps, FailKeeps, AnswerKeeps, ElsewhereKeeps
  DEF Note!Next

LEMMA NoteTells == NoteInv => SavedIsStored
  BY DEF NoteInv, NoteTypes, Calm, Draft, SavedIsStored, Note!SavedIsStored

-----------------------------------------------------------------------------
(* The page of the orders' jobs *)

Statuses  == {"none", "running", "over", "failed"}
Callbacks == {"none", "unsent", "sent", "failed"}
Places    == 1..Slots
PageCalls == [kind : {"none", "detail", "event", "resend", "recheck"}, id : Searches \cup {None},
              mine : BOOLEAN, answer : {"none", "waiting", "done", "error"},
              status : Statuses, callback : Callbacks]
Pages == [listed : BOOLEAN, selected : Searches \cup {None}, loading : BOOLEAN, error : BOOLEAN,
          order : Searches \cup {None}, live : Searches \cup {None}, status : Statuses,
          callback : Callbacks, resending : BOOLEAN]

PageTypes == /\ job \in [Searches -> [status : Statuses, callback : Callbacks]]
             /\ page \in Pages /\ calls \in [Places -> PageCalls] /\ events \subseteq Searches

\* A call is about a job, and nothing answers what was not asked.
About(c) == /\ c.kind # "none" => c.id \in Searches
            /\ c.answer # "none" => c.kind # "none"

\* What an answer says of a callback that was received stays so.
Received == \A j \in Searches : job[j].callback = "sent" => job[j].status = "over"
Truthful(c) == c.answer = "done" /\ (c.callback = "sent" \/ c.kind = "resend") => job[c.id].callback = "sent"

\* Details are awaited for the selected job alone, while the page is loading.
Awaited(c) == c.kind = "detail" /\ c.mine
OneDetail == \A i, k \in Places : Awaited(calls[i]) /\ Awaited(calls[k]) => i = k
DetailOf(c) == Awaited(c) => page.loading /\ c.id = page.selected

\* What is not cancelled is about it too, unless another job was selected beside it.
Beside(c) == ~crossed /\ c.kind \in {"event", "resend", "recheck"} => c.id = page.selected

Unlisted == ~page.listed => page.selected = None /\ \A i \in Places : calls[i] = Orders!NoCall

CallsRight == OneDetail /\ \A i \in Places : /\ About(calls[i]) /\ Truthful(calls[i])
                                             /\ DetailOf(calls[i]) /\ Beside(calls[i])

PageInv == PageTypes /\ Received /\ CallsRight /\ Unlisted /\ ShowsSelected

USE DashboardAssumption DEF DashboardAssumption, Orders!JobPageAssumption

LEMMA NoPageCall == /\ Orders!NoCall \in PageCalls /\ Orders!NoCall.kind = "none"
                    /\ Orders!NoCall.answer = "none" /\ ~Orders!NoCall.mine
  BY DEF Orders!NoCall, PageCalls, Statuses, Callbacks

LEMMA PageInit == ASSUME Orders!Init PROVE PageInv
<1>1. PageTypes
  BY NoPageCall DEF Orders!Init, PageTypes, Pages, Statuses, Callbacks, Places, Orders!Places
<1>2. Received /\ ~page.listed /\ page.selected = None
  BY DEF Orders!Init, Received
<1>3. \A i \in Places : calls[i] = Orders!NoCall
  BY DEF Orders!Init, Places, Orders!Places
<1>4. CallsRight
  BY <1>3, NoPageCall DEF CallsRight, OneDetail, About, Truthful, Awaited, DetailOf, Beside
<1> QED
  BY <1>1, <1>2, <1>3, <1>4 DEF PageInv, Unlisted, ShowsSelected, Orders!ShowsSelected

Waits(c, kind, j) == /\ c \in PageCalls /\ c.kind = kind /\ c.id = j /\ c.mine /\ c.answer = "waiting"

\* Begin puts the call into a place that was free.
LEMMA BegunIs ==
  ASSUME NEW cs \in [Places -> PageCalls], NEW k \in Places, cs[k] = Orders!NoCall,
         NEW kind \in {"detail", "event", "resend", "recheck"}, NEW j \in Searches,
         calls' = Orders!Begin(cs, kind, j)
  PROVE  \E i \in Places :
            /\ cs[i] = Orders!NoCall /\ calls' \in [Places -> PageCalls] /\ Waits(calls'[i], kind, j)
            /\ \A n \in Places \ {i} : calls'[n] = cs[n]
<1> DEFINE i == CHOOSE i \in Places : cs[i] = Orders!NoCall
           c == [Orders!NoCall EXCEPT !.kind = kind, !.id = j, !.mine = TRUE, !.answer = "waiting"]
<1>1. i \in Places /\ cs[i] = Orders!NoCall
  OBVIOUS
<1>2. calls' = [cs EXCEPT ![i] = c]
  BY DEF Orders!Begin, Orders!Places, Places
<1>3. Waits(c, kind, j)
  BY DEF Waits, PageCalls, Orders!NoCall, Statuses, Callbacks
<1> HIDE DEF i, c
<1> QED
  BY <1>1, <1>2, <1>3 DEF Waits

\* A call that has nothing to say yet.
LEMMA WaitingIsRight ==
  ASSUME NEW c, NEW kind, NEW j \in Searches, Waits(c, kind, j), kind # "none"
  PROVE  About(c) /\ Truthful(c) /\ Truthful(c)'
  BY DEF Waits, About, Truthful

LEMMA CancelledIs ==
  ASSUME PageInv, NEW i \in Places
  PROVE  /\ Orders!Cancelled(calls)[i] \in PageCalls /\ ~Awaited(Orders!Cancelled(calls)[i])
         /\ Orders!Cancelled(calls)[i].kind = calls[i].kind
         /\ Orders!Cancelled(calls)[i].id = calls[i].id
         /\ Orders!Cancelled(calls)[i].answer = calls[i].answer
         /\ Orders!Cancelled(calls)[i].callback = calls[i].callback
         /\ calls[i] = Orders!NoCall => Orders!Cancelled(calls)[i] = Orders!NoCall
<1>1. PICK m \in BOOLEAN : m = (calls[i].mine /\ calls[i].kind # "detail")
  <2>1. (calls[i].mine /\ calls[i].kind # "detail") \in BOOLEAN
    OBVIOUS
  <2> QED BY <2>1, Zenon
<1>2. calls[i] \in PageCalls
  BY DEF PageInv, PageTypes
<1>3. Orders!Cancelled(calls)[i] = [calls[i] EXCEPT !.mine = m]
  BY <1>1, Zenon DEF Orders!Cancelled, Orders!Places, Places
<1>4. ~(m /\ calls[i].kind = "detail")
  BY <1>1
<1>5. calls[i] = Orders!NoCall => m = FALSE
  <2>1. calls[i] = Orders!NoCall => ~calls[i].mine
    BY DEF Orders!NoCall
  <2> QED BY <1>1, <2>1
<1> QED
  BY <1>2, <1>3, <1>4, <1>5 DEF PageCalls, Awaited, Orders!NoCall

LEMMA PageSelectKeeps == ASSUME PageInv, NEW j \in Searches, Orders!Select(j) PROVE PageInv'
<1> DEFINE cs == Orders!Cancelled(calls)
<1>1. /\ UNCHANGED <<job, events>> /\ page.listed
      /\ page' = [page EXCEPT !.selected = j, !.loading = TRUE, !.error = FALSE]
      /\ calls' = Orders!Begin(cs, "detail", j)
  BY DEF Orders!Select, Orders!Selected
<1>2. ~crossed' => ~crossed /\ \A i \in Places : calls[i].kind \notin {"event", "resend", "recheck"}
  <2>1. ~crossed' => ~crossed /\ ~Orders!Going({"event", "resend", "recheck"})
    BY Zenon DEF Orders!Select
  <2> QED BY <2>1 DEF Orders!Going, Orders!Places, Places
<1>3. /\ page' \in Pages /\ page'.selected = j /\ page'.loading /\ page'.listed
  BY <1>1 DEF PageInv, PageTypes, Pages
<1>4. PICK k \in Places : calls[k] = Orders!NoCall
  BY DEF Orders!Select, Orders!Free, Orders!Places, Places
<1>5. cs \in [Places -> PageCalls]
  <2>1. cs = [i \in Places |-> cs[i]]
    BY DEF Orders!Cancelled, Orders!Places, Places
  <2> QED BY <2>1, CancelledIs
<1>6. PICK i \in Places :
            /\ calls' \in [Places -> PageCalls] /\ Waits(calls'[i], "detail", j)
            /\ \A n \in Places \ {i} : calls'[n] = cs[n]
  <2>1. cs[k] = Orders!NoCall
    BY <1>4, CancelledIs
  <2> HIDE DEF cs
  <2> QED BY <1>1, <1>5, <2>1, BegunIs
<1>7. PageTypes' /\ Received'
  BY <1>1, <1>3, <1>6 DEF PageInv, PageTypes, Received
<1>8. ASSUME NEW n \in Places
      PROVE  About(calls[n])' /\ Truthful(calls[n])' /\ DetailOf(calls[n])' /\ Beside(calls[n])'
  <2>1. CASE n = i
    BY <1>3, <1>6, <2>1 DEF Waits, About, Truthful, DetailOf, Beside
  <2>2. CASE n # i
    <3>1. /\ calls'[n].kind = calls[n].kind /\ calls'[n].id = calls[n].id
          /\ calls'[n].answer = calls[n].answer /\ calls'[n].callback = calls[n].callback
          /\ ~Awaited(calls'[n])
      BY <1>6, <2>2, CancelledIs
    <3> QED BY <1>1, <1>2, <3>1 DEF PageInv, CallsRight, About, Truthful, DetailOf, Beside, Awaited
  <2> QED BY <2>1, <2>2
<1>9. OneDetail'
  <2>1. \A n \in Places \ {i} : ~Awaited(calls'[n])
    BY <1>6, CancelledIs
  <2> QED BY <2>1 DEF OneDetail, Awaited, Places
<1> QED
  BY <1>3, <1>7, <1>8, <1>9
  DEF PageInv, CallsRight, Unlisted, ShowsSelected, Orders!ShowsSelected, Places

\* What has to be shown of a step that begins a call beside the others.
LEMMA BegunRight ==
  ASSUME PageInv, NEW j \in Searches, NEW kind \in {"event", "resend"},
         NEW k \in Places, calls[k] = Orders!NoCall,
         calls' = Orders!Begin(calls, kind, j), UNCHANGED <<job, crossed>>,
         page'.selected = page.selected, page.selected = j, page'.loading = page.loading
  PROVE  calls' \in [Places -> PageCalls] /\ CallsRight'
<1>1. PICK i \in Places :
            /\ calls[i] = Orders!NoCall
            /\ calls' \in [Places -> PageCalls] /\ Waits(calls'[i], kind, j)
            /\ \A n \in Places \ {i} : calls'[n] = calls[n]
  BY BegunIs DEF PageInv, PageTypes
<1>2. ASSUME NEW n \in Places
      PROVE  About(calls[n])' /\ Truthful(calls[n])' /\ DetailOf(calls[n])' /\ Beside(calls[n])'
  <2>1. CASE n = i
    BY <1>1, <2>1 DEF Waits, About, Truthful, DetailOf, Beside, Awaited
  <2>2. CASE n # i
    BY <1>1, <2>2 DEF PageInv, CallsRight, About, Truthful, DetailOf, Beside, Awaited
  <2> QED BY <2>1, <2>2
<1>3. OneDetail'
  <2>1. \A n \in Places : Awaited(calls'[n]) => Awaited(calls[n])
    BY <1>1 DEF Awaited, Waits
  <2> QED BY <2>1 DEF PageInv, CallsRight, OneDetail, Places, Awaited
<1> QED
  BY <1>1, <1>2, <1>3 DEF CallsRight, Places

LEMMA LoadKeeps == ASSUME PageInv, Orders!Load PROVE PageInv'
<1> DEFINE j == Orders!Newest
<1>1. /\ UNCHANGED <<job, events, crossed>> /\ ~page.listed /\ page.selected = None
      /\ page' = [[page EXCEPT !.listed = TRUE] EXCEPT !.selected = j, !.loading = TRUE, !.error = FALSE]
      /\ calls' = Orders!Begin(calls, "detail", j) /\ Searches # {}
  BY DEF Orders!Load, Orders!Selected
<1>2. j \in Searches
  BY <1>1 DEF Orders!Newest
<1> HIDE DEF j
<1>3. /\ page' \in Pages /\ page'.selected = j /\ page'.loading /\ page'.listed
  BY <1>1, <1>2 DEF PageInv, PageTypes, Pages
<1>4. \A k \in Places : calls[k] = Orders!NoCall
  BY <1>1 DEF PageInv, Unlisted
<1>5. 1 \in Places
  BY DEF Places
<1>6. PICK i \in Places :
            /\ calls' \in [Places -> PageCalls] /\ Waits(calls'[i], "detail", j)
            /\ \A n \in Places \ {i} : calls'[n] = calls[n]
  BY <1>1, <1>2, <1>4, <1>5, BegunIs DEF PageInv, PageTypes
<1>7. PageTypes' /\ Received'
  BY <1>1, <1>3, <1>6 DEF PageInv, PageTypes, Received
<1>8. ASSUME NEW n \in Places
      PROVE  About(calls[n])' /\ Truthful(calls[n])' /\ DetailOf(calls[n])' /\ Beside(calls[n])'
  <2>1. CASE n = i
    BY <1>2, <1>3, <1>6, <2>1 DEF Waits, About, Truthful, DetailOf, Beside
  <2>2. CASE n # i
    BY <1>4, <1>6, <2>2, NoPageCall DEF About, Truthful, DetailOf, Beside, Awaited
  <2> QED BY <2>1, <2>2
<1>9. OneDetail'
  <2>1. \A n \in Places \ {i} : ~Awaited(calls'[n])
    BY <1>4, <1>6, NoPageCall DEF Awaited
  <2> QED BY <2>1 DEF OneDetail, Awaited, Places
<1> QED
  BY <1>3, <1>7, <1>8, <1>9
  DEF PageInv, CallsRight, Unlisted, ShowsSelected, Orders!ShowsSelected, Places

LEMMA HearKeeps == ASSUME PageInv, NEW j \in Searches, Orders!Hear(j) PROVE PageInv'
<1>1. UNCHANGED <<job, crossed>> /\ events' \subseteq Searches
  BY DEF Orders!Hear, PageInv, PageTypes
<1>2. CASE page.selected = j
  <2>1. /\ calls' = Orders!Begin(calls, "event", j)
        /\ page' = [page EXCEPT !.live = j, !.status = job[j].status]
        /\ \E k \in Places : calls[k] = Orders!NoCall
    BY <1>2 DEF Orders!Hear, Orders!Free, Orders!Places, Places
  <2>2. /\ page' \in Pages /\ page'.selected = page.selected /\ page'.loading = page.loading
        /\ page'.listed = page.listed /\ page'.error = page.error /\ page'.order = page.order
        /\ page'.live = j /\ page'.callback = page.callback
    BY <2>1 DEF PageInv, PageTypes, Pages
  <2>3. calls' \in [Places -> PageCalls] /\ CallsRight'
    BY <1>1, <1>2, <2>1, <2>2, BegunRight
  <2>4. page.listed
    BY <1>2 DEF PageInv, Unlisted
  <2> QED BY <1>1, <1>2, <2>2, <2>3, <2>4
      DEF PageInv, PageTypes, Received, Unlisted, ShowsSelected, Orders!ShowsSelected
<1>3. CASE page.selected # j
  <2>1. UNCHANGED <<page, calls>>
    BY <1>3 DEF Orders!Hear
  <2> QED BY <1>1, <2>1
      DEF PageInv, PageTypes, Received, Unlisted, ShowsSelected, Orders!ShowsSelected, CallsRight, OneDetail,
          About, Truthful, DetailOf, Beside, Awaited, Places
<1> QED
  BY <1>2, <1>3

LEMMA ResendKeeps == ASSUME PageInv, Orders!Resend PROVE PageInv'
<1>1. /\ UNCHANGED <<job, events, crossed>> /\ page.selected # None
      /\ calls' = Orders!Begin(calls, "resend", page.selected)
      /\ page' = [page EXCEPT !.resending = TRUE]
      /\ \E k \in Places : calls[k] = Orders!NoCall
  BY DEF Orders!Resend, Orders!Free, Orders!Places, Places
<1>2. /\ page' \in Pages /\ page'.selected = page.selected /\ page'.loading = page.loading
      /\ page'.listed = page.listed /\ page'.error = page.error /\ page'.order = page.order
      /\ page'.live = page.live /\ page'.callback = page.callback /\ page.selected \in Searches
  BY <1>1 DEF PageInv, PageTypes, Pages
<1>3. calls' \in [Places -> PageCalls] /\ CallsRight'
  BY <1>1, <1>2, BegunRight
<1>4. page.listed
  BY <1>1 DEF PageInv, Unlisted
<1> QED
  BY <1>1, <1>2, <1>3, <1>4
  DEF PageInv, PageTypes, Received, Unlisted, ShowsSelected, Orders!ShowsSelected

LEMMA EndKeeps == ASSUME PageInv, NEW j \in Searches, Orders!End(j) PROVE PageInv'
<1>1. PICK s \in {"over", "failed"}, c \in {"sent", "failed"}, heard \in BOOLEAN :
         /\ job' = [job EXCEPT ![j] = [status |-> s,
                      callback |-> IF s = "over" THEN c ELSE job[j].callback]]
         /\ events' = IF heard THEN events \cup {j} ELSE events
  BY DEF Orders!End, Orders!Ended, PageInv, PageTypes
<1>2. UNCHANGED <<page, calls, crossed>> /\ job[j].status = "running"
  BY DEF Orders!End
<1>3. job[j].callback # "sent"
  BY <1>2 DEF PageInv, Received
<1>4. /\ job' \in [Searches -> [status : Statuses, callback : Callbacks]]
      /\ job'[j].callback = "sent" => job'[j].status = "over"
      /\ \A k \in Searches \ {j} : job'[k] = job[k]
  BY <1>1, <1>3 DEF PageInv, PageTypes, Statuses, Callbacks
<1>5. \A k \in Searches : job[k].callback = "sent" => job'[k].callback = "sent"
  BY <1>3, <1>4
<1>6. PageTypes' /\ Received'
  BY <1>1, <1>2, <1>4 DEF PageInv, PageTypes, Received
<1>7. \A i \in Places : Truthful(calls[i])'
  BY <1>2, <1>5 DEF PageInv, CallsRight, Truthful, About
<1>8. CallsRight'
  BY <1>2, <1>7 DEF PageInv, CallsRight, OneDetail, About, DetailOf, Beside, Awaited, Places
<1> QED
  BY <1>2, <1>5, <1>6, <1>8
  DEF PageInv, PageTypes, Pages, Unlisted, ShowsSelected, Orders!ShowsSelected, Places

\* A call that stays what it is, with another answer.
LEMMA AnsweredRight ==
  ASSUME PageInv, NEW i \in Places, calls[i].kind # "none", UNCHANGED <<page, crossed>>,
         NEW c \in PageCalls, calls' = [calls EXCEPT ![i] = c],
         c.kind = calls[i].kind, c.id = calls[i].id, c.mine = calls[i].mine,
         Truthful(c)', \A k \in Searches : job[k].callback = "sent" => job'[k].callback = "sent"
  PROVE  calls' \in [Places -> PageCalls] /\ CallsRight'
<1>1. /\ calls' \in [Places -> PageCalls] /\ calls'[i] = c
      /\ \A n \in Places \ {i} : calls'[n] = calls[n]
  BY DEF PageInv, PageTypes
<1>2. ASSUME NEW n \in Places
      PROVE  About(calls[n])' /\ Truthful(calls[n])' /\ DetailOf(calls[n])' /\ Beside(calls[n])'
  <2>0. About(calls[n]) /\ Truthful(calls[n]) /\ DetailOf(calls[n]) /\ Beside(calls[n])
    BY DEF PageInv, CallsRight
  <2>1. CASE n = i
    BY <1>1, <2>0, <2>1 DEF About, Truthful, DetailOf, Beside, Awaited
  <2>2. CASE n # i
    BY <1>1, <2>0, <2>2 DEF About, Truthful, DetailOf, Beside, Awaited
  <2> QED BY <2>1, <2>2
<1>3. OneDetail'
  <2>1. \A n \in Places : Awaited(calls'[n]) <=> Awaited(calls[n])
    BY <1>1 DEF Awaited
  <2> QED BY <2>1 DEF PageInv, CallsRight, OneDetail, Places, Awaited
<1> QED
  BY <1>1, <1>2, <1>3 DEF CallsRight, Places

LEMMA PageServeKeeps == ASSUME PageInv, NEW i \in Places, Orders!Serve(i) PROVE PageInv'
<1> DEFINE j == calls[i].id
<1>1. /\ UNCHANGED <<page, events, crossed>> /\ calls[i].answer = "waiting"
      /\ calls[i] \in PageCalls /\ calls[i].kind # "none" /\ j \in Searches
  BY DEF Orders!Serve, PageInv, PageTypes, CallsRight, About
<1>2. \E c \in PageCalls :
         /\ calls' = [calls EXCEPT ![i] = c]
         /\ c.kind = calls[i].kind /\ c.id = j /\ c.mine = calls[i].mine
         /\ Truthful(c)' /\ job' \in [Searches -> [status : Statuses, callback : Callbacks]]
         /\ Received' /\ \A k \in Searches : job[k].callback = "sent" => job'[k].callback = "sent"
  <2>1. CASE calls[i].kind = "resend"
    <3>1. PICK r \in {"sent", "failed", "refused"} :
             /\ Orders!Posts(j) <=> r # "refused"
             /\ job' = IF Orders!Posts(j) THEN [job EXCEPT ![j].callback = r] ELSE job
             /\ calls' = [calls EXCEPT ![i].answer = IF r = "sent" THEN "done" ELSE "error"]
      BY <2>1 DEF Orders!Serve
    <3>2. PICK c : c = [calls[i] EXCEPT !.answer = IF r = "sent" THEN "done" ELSE "error"]
      OBVIOUS
    <3>3. calls' = [calls EXCEPT ![i] = c]
      BY <3>1, <3>2 DEF PageInv, PageTypes
    <3>4. /\ c \in PageCalls /\ c.kind = calls[i].kind /\ c.id = j /\ c.mine = calls[i].mine
          /\ c.answer = "done" => r = "sent"
      BY <1>1, <3>2 DEF PageCalls
    <3>5. CASE Orders!Posts(j)
      <4>1. job[j].status = "over" /\ job[j].callback # "sent" /\ job' = [job EXCEPT ![j].callback = r]
            /\ r \in {"sent", "failed"}
        BY <3>1, <3>5 DEF Orders!Posts
      <4>2. /\ job' \in [Searches -> [status : Statuses, callback : Callbacks]]
            /\ job'[j].callback = r /\ job'[j].status = "over"
            /\ \A k \in Searches \ {j} : job'[k] = job[k]
        BY <1>1, <4>1 DEF PageInv, PageTypes, Callbacks
      <4>3. Received' /\ \A k \in Searches : job[k].callback = "sent" => job'[k].callback = "sent"
        BY <4>1, <4>2 DEF PageInv, Received
      <4>4. Truthful(c)'
        BY <3>4, <4>2 DEF Truthful
      <4> QED BY <3>3, <3>4, <4>2, <4>3, <4>4
    <3>6. CASE ~Orders!Posts(j)
      <4>1. job' = job /\ r = "refused"
        BY <3>1, <3>6
      <4>2. Truthful(c)'
        BY <3>4, <4>1 DEF Truthful
      <4> QED BY <3>3, <3>4, <4>1, <4>2 DEF PageInv, PageTypes, Received
    <3> QED BY <3>5, <3>6
  <2>2. CASE calls[i].kind # "resend"
    <3>1. /\ job' = job
          /\ calls' = [calls EXCEPT ![i] = [calls[i] EXCEPT !.answer = "done", !.status = job[j].status,
                                                           !.callback = job[j].callback]]
      BY <2>2 DEF Orders!Serve, PageInv, PageTypes
    <3>2. PICK c : c = [calls[i] EXCEPT !.answer = "done", !.status = job[j].status,
                                        !.callback = job[j].callback]
      OBVIOUS
    <3>3. job[j] \in [status : Statuses, callback : Callbacks]
      BY <1>1 DEF PageInv, PageTypes
    <3>4. /\ c \in PageCalls /\ c.kind = calls[i].kind /\ c.id = j /\ c.mine = calls[i].mine
          /\ c.callback = job[j].callback
      BY <1>1, <3>2, <3>3 DEF PageCalls
    <3>5. Truthful(c)'
      BY <2>2, <3>1, <3>4 DEF Truthful
    <3>6. calls' = [calls EXCEPT ![i] = c]
      BY <3>1, <3>2
    <3> QED BY <3>1, <3>4, <3>5, <3>6 DEF PageInv, PageTypes, Received
  <2> QED BY <2>1, <2>2
<1> HIDE DEF j
<1>3. calls' \in [Places -> PageCalls] /\ CallsRight' /\ calls[i] # Orders!NoCall
  BY <1>1, <1>2, AnsweredRight, NoPageCall DEF j
<1>4. page.listed
  BY <1>3 DEF PageInv, Unlisted
<1>5. PageTypes'
  BY <1>1, <1>2, <1>3 DEF PageInv, PageTypes
<1> QED
  BY <1>1, <1>2, <1>3, <1>4, <1>5
  DEF PageInv, PageTypes, Pages, Unlisted, ShowsSelected, Orders!ShowsSelected

LEMMA LoseKeeps == ASSUME PageInv, NEW i \in Places, Orders!Lose(i) PROVE PageInv'
<1>1. /\ UNCHANGED <<job, page, events, crossed>> /\ calls[i].answer # "none"
      /\ calls' = [calls EXCEPT ![i] = [calls[i] EXCEPT !.answer = "error"]]
      /\ calls[i] \in PageCalls /\ calls[i].kind # "none"
  BY DEF Orders!Lose, PageInv, PageTypes, CallsRight, About
<1>2. PICK c : c = [calls[i] EXCEPT !.answer = "error"]
  OBVIOUS
<1>3. /\ c \in PageCalls /\ c.kind = calls[i].kind /\ c.id = calls[i].id /\ c.mine = calls[i].mine
      /\ c.answer = "error"
  BY <1>1, <1>2 DEF PageCalls
<1>4. Truthful(c)'
  BY <1>3 DEF Truthful
<1>5. calls' \in [Places -> PageCalls] /\ CallsRight'
  BY <1>1, <1>2, <1>3, <1>4, AnsweredRight
<1>6. page.listed
  BY <1>1, NoPageCall DEF PageInv, Unlisted
<1> QED
  BY <1>1, <1>5, <1>6
  DEF PageInv, PageTypes, Received, Unlisted, ShowsSelected, Orders!ShowsSelected

-----------------------------------------------------------------------------
(* The continuations of the page *)

\* A call that has come back leaves its place.
LEMMA LeftRight ==
  ASSUME PageInv, NEW i \in Places, calls' = [calls EXCEPT ![i] = Orders!NoCall],
         UNCHANGED <<job, crossed>>, page'.selected = page.selected,
         page'.loading = page.loading \/ Awaited(calls[i])
  PROVE  calls' \in [Places -> PageCalls] /\ CallsRight'
<1>1. /\ calls' \in [Places -> PageCalls] /\ calls'[i] = Orders!NoCall
      /\ \A n \in Places \ {i} : calls'[n] = calls[n]
  BY NoPageCall DEF PageInv, PageTypes
<1>2. ASSUME NEW n \in Places
      PROVE  About(calls[n])' /\ Truthful(calls[n])' /\ DetailOf(calls[n])' /\ Beside(calls[n])'
  <2>0. About(calls[n]) /\ Truthful(calls[n]) /\ DetailOf(calls[n]) /\ Beside(calls[n])
    BY DEF PageInv, CallsRight
  <2>1. CASE n = i
    BY <1>1, <2>1, NoPageCall DEF About, Truthful, DetailOf, Beside, Awaited
  <2>2. CASE n # i
    <3>1. Awaited(calls[n]) => page'.loading = page.loading
      BY <2>2 DEF PageInv, CallsRight, OneDetail
    <3> QED BY <1>1, <2>0, <2>2, <3>1 DEF About, Truthful, DetailOf, Beside, Awaited
  <2> QED BY <2>1, <2>2
<1>3. OneDetail'
  BY <1>1, NoPageCall DEF PageInv, CallsRight, OneDetail, Awaited, Places
<1> QED
  BY <1>1, <1>2, <1>3 DEF CallsRight, Places

LEMMA ReturnedCall ==
  ASSUME PageInv, NEW i \in Places, NEW kind \in {"detail", "event", "resend", "recheck"},
         Orders!Returned(i, kind)
  PROVE  /\ calls[i] \in PageCalls /\ calls[i].kind = kind /\ calls[i].id \in Searches /\ page.listed
         /\ Truthful(calls[i]) /\ DetailOf(calls[i]) /\ Beside(calls[i])
  BY NoPageCall DEF Orders!Returned, PageInv, PageTypes, CallsRight, About, Unlisted

LEMMA DetailedKeeps == ASSUME PageInv, NEW i \in Places, Orders!Detailed(i) PROVE PageInv'
<1>1. /\ UNCHANGED <<job, events, crossed>> /\ calls' = [calls EXCEPT ![i] = Orders!NoCall]
      /\ calls[i] \in PageCalls /\ calls[i].kind = "detail" /\ calls[i].id \in Searches /\ page.listed
      /\ Truthful(calls[i]) /\ DetailOf(calls[i]) /\ page \in Pages
  BY ReturnedCall DEF Orders!Detailed, PageInv, PageTypes
<1>2. CASE ~calls[i].mine
  <2>1. page' = page
    BY <1>2 DEF Orders!Detailed
  <2>2. calls' \in [Places -> PageCalls] /\ CallsRight'
    BY <1>1, <2>1, LeftRight
  <2> QED BY <1>1, <2>1, <2>2
      DEF PageInv, PageTypes, Received, Unlisted, ShowsSelected, Orders!ShowsSelected
<1>3. CASE calls[i].mine /\ Orders!Ok(i)
  <2>1. page' = [[page EXCEPT !.order = calls[i].id, !.live = calls[i].id, !.status = calls[i].status]
                   EXCEPT !.callback = calls[i].callback, !.loading = FALSE]
    BY <1>3 DEF Orders!Detailed, Orders!Shown
  <2>2. /\ page' \in Pages /\ page'.selected = page.selected /\ ~page'.loading
        /\ page'.listed = page.listed /\ page'.error = page.error /\ page'.order = calls[i].id
        /\ page'.live = calls[i].id /\ page'.callback = calls[i].callback
    BY <1>1, <2>1 DEF Pages, PageCalls
  <2>3. calls' \in [Places -> PageCalls] /\ CallsRight'
    BY <1>1, <1>3, <2>2, LeftRight DEF Awaited
  <2>4. calls[i].id = page.selected /\ (calls[i].callback = "sent" => job[page.selected].callback = "sent")
    BY <1>1, <1>3 DEF DetailOf, Awaited, Truthful, Orders!Ok
  <2> QED BY <1>1, <2>2, <2>3, <2>4
      DEF PageInv, PageTypes, Received, Unlisted, ShowsSelected, Orders!ShowsSelected
<1>4. CASE calls[i].mine /\ ~Orders!Ok(i)
  <2>1. page' = [page EXCEPT !.error = TRUE, !.loading = FALSE]
    BY <1>4 DEF Orders!Detailed
  <2>2. /\ page' \in Pages /\ page'.selected = page.selected /\ ~page'.loading
        /\ page'.listed = page.listed /\ page'.error
    BY <1>1, <2>1 DEF Pages
  <2>3. calls' \in [Places -> PageCalls] /\ CallsRight'
    BY <1>1, <1>4, <2>2, LeftRight DEF Awaited
  <2> QED BY <1>1, <2>2, <2>3
      DEF PageInv, PageTypes, Received, Unlisted, ShowsSelected, Orders!ShowsSelected
<1> QED
  BY <1>2, <1>3, <1>4

LEMMA RefetchedKeeps == ASSUME PageInv, NEW i \in Places, Orders!Refetched(i) PROVE PageInv'
<1>1. /\ UNCHANGED <<job, events, crossed>> /\ calls' = [calls EXCEPT ![i] = Orders!NoCall]
      /\ calls[i] \in PageCalls /\ calls[i].kind = "event" /\ calls[i].id \in Searches /\ page.listed
      /\ Beside(calls[i]) /\ page \in Pages
  BY ReturnedCall DEF Orders!Refetched, PageInv, PageTypes
<1>2. /\ page' \in Pages /\ page'.selected = page.selected /\ page'.loading = page.loading
      /\ page'.listed = page.listed /\ page'.error = page.error /\ page'.callback = page.callback
      /\ \/ page'.order = page.order /\ page'.live = page.live
         \/ page'.order = calls[i].id /\ page'.live = calls[i].id
  <2>1. CASE Orders!Ok(i)
    <3>1. page' = [page EXCEPT !.order = calls[i].id, !.live = calls[i].id, !.status = calls[i].status]
      BY <2>1 DEF Orders!Refetched, Orders!Shown
    <3> QED BY <1>1, <3>1 DEF Pages, PageCalls
  <2>2. CASE ~Orders!Ok(i)
    BY <1>1, <2>2 DEF Orders!Refetched
  <2> QED BY <2>1, <2>2
<1>3. calls' \in [Places -> PageCalls] /\ CallsRight'
  BY <1>1, <1>2, LeftRight
<1> QED
  BY <1>1, <1>2, <1>3
  DEF PageInv, PageTypes, Received, Unlisted, ShowsSelected, Orders!ShowsSelected, Beside

LEMMA ResentKeeps == ASSUME PageInv, NEW i \in Places, Orders!Resent(i) PROVE PageInv'
<1>1. /\ UNCHANGED <<job, events, crossed>>
      /\ calls[i] \in PageCalls /\ calls[i].kind = "resend" /\ calls[i].id \in Searches /\ page.listed
      /\ Truthful(calls[i]) /\ Beside(calls[i]) /\ page \in Pages
  BY ReturnedCall DEF Orders!Resent, PageInv, PageTypes
<1>2. CASE Orders!Ok(i)
  <2>1. /\ calls' = [calls EXCEPT ![i] = Orders!NoCall]
        /\ page' = [page EXCEPT !.callback = "sent", !.resending = FALSE]
    BY <1>2 DEF Orders!Resent
  <2>2. /\ page' \in Pages /\ page'.selected = page.selected /\ page'.loading = page.loading
        /\ page'.listed = page.listed /\ page'.error = page.error /\ page'.order = page.order
        /\ page'.live = page.live
    BY <1>1, <2>1 DEF Pages, Callbacks
  <2>3. calls' \in [Places -> PageCalls] /\ CallsRight'
    BY <1>1, <2>1, <2>2, LeftRight
  <2>4. ~crossed => job[page.selected].callback = "sent"
    BY <1>1, <1>2 DEF Truthful, Beside, Orders!Ok
  <2> QED BY <1>1, <2>2, <2>3, <2>4
      DEF PageInv, PageTypes, Received, Unlisted, ShowsSelected, Orders!ShowsSelected
<1>3. CASE ~Orders!Ok(i)
  <2>1. PICK c : c = [Orders!NoCall EXCEPT !.kind = "recheck", !.id = calls[i].id, !.mine = TRUE,
                                           !.answer = "waiting"]
    OBVIOUS
  <2>2. page' = page /\ calls' = [calls EXCEPT ![i] = c]
    BY <1>3, <2>1 DEF Orders!Resent
  <2>3. Waits(c, "recheck", calls[i].id)
    BY <1>1, <2>1 DEF Waits, PageCalls, Orders!NoCall, Statuses, Callbacks
  <2>4. /\ calls' \in [Places -> PageCalls] /\ calls'[i] = c
        /\ \A n \in Places \ {i} : calls'[n] = calls[n]
    BY <2>2, <2>3 DEF PageInv, PageTypes, Waits
  <2>5. ASSUME NEW n \in Places
        PROVE  About(calls[n])' /\ Truthful(calls[n])' /\ DetailOf(calls[n])' /\ Beside(calls[n])'
    <3>0. About(calls[n]) /\ Truthful(calls[n]) /\ DetailOf(calls[n]) /\ Beside(calls[n])
      BY DEF PageInv, CallsRight
    <3>1. CASE n = i
      BY <1>1, <2>2, <2>3, <2>4, <3>0, <3>1 DEF Waits, About, Truthful, DetailOf, Beside, Awaited
    <3>2. CASE n # i
      BY <1>1, <2>2, <2>4, <3>0, <3>2 DEF About, Truthful, DetailOf, Beside, Awaited
    <3> QED BY <3>1, <3>2
  <2>6. OneDetail'
    <3>1. \A n \in Places : Awaited(calls'[n]) => Awaited(calls[n])
      BY <2>3, <2>4 DEF Awaited, Waits
    <3> QED BY <3>1 DEF PageInv, CallsRight, OneDetail, Places, Awaited
  <2> QED BY <1>1, <2>2, <2>4, <2>5, <2>6
      DEF PageInv, PageTypes, CallsRight, Received, Unlisted, ShowsSelected, Orders!ShowsSelected, Places
<1> QED
  BY <1>2, <1>3

LEMMA RecheckedKeeps == ASSUME PageInv, NEW i \in Places, Orders!Rechecked(i) PROVE PageInv'
<1>1. /\ UNCHANGED <<job, events, crossed>> /\ calls' = [calls EXCEPT ![i] = Orders!NoCall]
      /\ calls[i] \in PageCalls /\ calls[i].kind = "recheck" /\ calls[i].id \in Searches /\ page.listed
      /\ Truthful(calls[i]) /\ Beside(calls[i]) /\ page \in Pages
  BY ReturnedCall DEF Orders!Rechecked, PageInv, PageTypes
<1>2. PICK cb \in Callbacks :
         /\ page' = [page EXCEPT !.resending = FALSE, !.callback = cb]
         /\ cb = page.callback \/ (Orders!Ok(i) /\ cb = calls[i].callback)
  <2>1. page.callback \in Callbacks /\ calls[i].callback \in Callbacks
    BY <1>1 DEF Pages, PageCalls
  <2>2. CASE Orders!Ok(i)
    <3>1. page' = [page EXCEPT !.resending = FALSE, !.callback = calls[i].callback]
      BY <2>2 DEF Orders!Rechecked
    <3> QED BY <2>1, <2>2, <3>1
  <2>3. CASE ~Orders!Ok(i)
    <3>1. page' = [page EXCEPT !.resending = FALSE, !.callback = page.callback]
      BY <2>3 DEF Orders!Rechecked
    <3>2. PICK cb \in Callbacks : cb = page.callback
      BY <2>1
    <3>3. page' = [page EXCEPT !.resending = FALSE, !.callback = cb]
      BY <3>1, <3>2, Zenon
    <3> QED BY <3>2, <3>3
  <2> QED BY <2>2, <2>3
<1>3. /\ page' \in Pages /\ page'.selected = page.selected /\ page'.loading = page.loading
      /\ page'.listed = page.listed /\ page'.error = page.error /\ page'.order = page.order
      /\ page'.live = page.live /\ page'.callback = cb
  BY <1>1, <1>2 DEF Pages
<1>4. calls' \in [Places -> PageCalls] /\ CallsRight'
  BY <1>1, <1>3, LeftRight
<1>5. Orders!Ok(i) /\ calls[i].callback = "sent" /\ ~crossed => job[page.selected].callback = "sent"
  BY <1>1 DEF Truthful, Beside, Orders!Ok
<1> QED
  BY <1>1, <1>2, <1>3, <1>4, <1>5
  DEF PageInv, PageTypes, Received, Unlisted, ShowsSelected, Orders!ShowsSelected

LEMMA PageNext == ASSUME PageInv, [Orders!Next]_pageVars PROVE PageInv'
<1>1. CASE UNCHANGED pageVars
  BY <1>1 DEF pageVars, PageInv, PageTypes, Received, CallsRight, OneDetail, Unlisted, ShowsSelected,
              Orders!ShowsSelected, About, Truthful, DetailOf, Beside, Awaited, Places
<1>2. ASSUME NEW i \in Places, Orders!Continue(i) PROVE PageInv'
  BY <1>2, DetailedKeeps, RefetchedKeeps, ResentKeeps, RecheckedKeeps DEF Orders!Continue
<1> QED
  BY <1>1, <1>2, PageSelectKeeps, HearKeeps, EndKeeps, PageServeKeeps, LoseKeeps, LoadKeeps, ResendKeeps
  DEF Orders!Next, Orders!Places, Places

-----------------------------------------------------------------------------
(* The screens together *)

DashboardVars == <<part, screenVars, noteVars, pageVars>>
DashboardInv  == ScreenInv /\ NoteInv /\ PageInv

\* A step of one screen leaves the others alone.
LEMMA DashboardStep ==
  ASSUME [DashboardNext]_DashboardVars
  PROVE  [Next]_screenVars /\ [Note!Next]_noteVars /\ [Orders!Next]_pageVars
  BY DEF DashboardNext, DashboardVars

LEMMA DashboardInvHolds == FairSpec => []DashboardInv
<1>1. DashboardInit => DashboardInv
  BY ScreenInit, NoteInit, PageInit DEF DashboardInit, DashboardInv
<1>2. DashboardInv /\ [DashboardNext]_DashboardVars => DashboardInv'
  BY DashboardStep, ScreenNext, NoteNext, PageNext DEF DashboardInv
<1> QED
  BY <1>1, <1>2, PTL DEF FairSpec, DashboardVars

-----------------------------------------------------------------------------
(* Theorems *)

\* The search screen, the note with its editor and its calls, and the page of the orders with its
\* calls keep their types.
THEOREM TypeCorrect == FairSpec => []DashboardTypeOK
<1>1. DashboardInv => TypeOK
  BY DEF DashboardInv, ScreenInv, TypeInv, Servers, Bounds, CallsAsked, CallSet, Kinds, Replies, TypeOK
<1>2. DashboardInv => Note!TypeOK
  BY DEF DashboardInv, NoteInv, NoteTypes, NoteCalls, Editors, Note!TypeOK
<1>3. DashboardInv => Orders!TypeOK
  BY DEF DashboardInv, PageInv, PageTypes, PageCalls, Pages, Statuses, Callbacks, Places,
         Orders!Places, Orders!Ended, Orders!TypeOK
<1> QED
  BY <1>1, <1>2, <1>3, DashboardInvHolds, PTL DEF DashboardTypeOK

\* However answers, events, timeouts and clicks mix, a busy screen waits for something that will
\* end it, and a progress panel belongs to the search whose events are heard.
THEOREM ScreenWatched == FairSpec => []Watched
<1>1. DashboardInv => Watched
  BY DEF DashboardInv, ScreenInv, Busied, Panels, Waiting, Watched
<1> QED
  BY <1>1, DashboardInvHolds, PTL

\* A note whose editor says that it was saved is on the server as the screen shows it, as long as
\* nothing was typed, opened, closed or listed beside a save, no other operator changed the note, and
\* one call at most has failed.
THEOREM SavedNoteIsStored == FairSpec => []SavedIsStored
<1>1. DashboardInv => SavedIsStored
  BY NoteTells DEF DashboardInv
<1> QED
  BY <1>1, DashboardInvHolds, PTL

\* The loaded page of the orders shows the job that is selected, and no callback as received that is
\* not, although details of jobs selected before arrive late; as long as no job was ever selected
\* while a refetch or a resending of another one was under way.
THEOREM SelectedIsShown == FairSpec => []ShowsSelected
<1>1. DashboardInv => ShowsSelected
  BY DEF DashboardInv, PageInv
<1> QED
  BY <1>1, DashboardInvHolds, PTL
=============================================================================
