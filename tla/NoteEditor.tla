------------------------------- MODULE NoteEditor -------------------------------
(* A note of a case that is edited on the dashboard and saved by itself:            *)
(* NoteCard and NoteEditor of NotesSection.tsx, over the note that the list of cases  *)
(* holds.  A timer is started by every change of the text; the call it makes is       *)
(* served and answered later, beside others and beside new lists.                    *)
EXTENDS Integers

CONSTANTS Texts, Blank,
          Calls,        \* the calls that can be in flight
          MaxTyped,     \* bound on the changes of the text, closings and lists
          MaxFaults     \* bound on the calls that fail

NoteAssumption == /\ Blank \in Texts /\ Texts # {Blank}
                  /\ {MaxTyped, MaxFaults} \subseteq Nat

VARIABLES stored,       \* the note's text on the server
          held,         \* ... and in the list of cases
          editor,       \* the state of NoteEditor, and whether there is one
          saving,       \* the calls in flight
          typed, failed,
          calm          \* nothing was typed, opened or listed while a save was in flight, and no
                        \* other operator has changed the note

noteVars == <<stored, held, editor, saving, typed, failed, calm>>

NoSave == [kind |-> "none", text |-> Blank, stage |-> "none", mine |-> FALSE]
Closed == [open |-> FALSE, body |-> Blank, lastSaved |-> Blank, timer |-> FALSE, tells |-> "idle"]

Init ==
    /\ stored \in Texts \ {Blank} /\ held = stored
    /\ editor = Closed /\ saving = [i \in Calls |-> NoSave]
    /\ typed = 0 /\ failed = 0 /\ calm = TRUE

Busy(kind) == \E i \in Calls : saving[i].kind = kind
Acts == typed < MaxTyped /\ typed' = typed + 1

Start(kind, text) ==
    \E i \in Calls :
       /\ saving[i] = NoSave
       /\ saving' = [saving EXCEPT ![i] = [kind |-> kind, text |-> text, stage |-> "sent", mine |-> TRUE]]

(* The pencil: an editor of the note as it is held, or none; its timer goes with it,  *)
(* and what a call in flight would tell it.                                         *)
Toggle ==
    /\ Acts
    /\ editor' = IF editor.open THEN Closed
                 ELSE [Closed EXCEPT !.open = TRUE, !.body = held, !.lastSaved = held]
    /\ saving' = [i \in Calls |-> [saving[i] EXCEPT !.mine = FALSE]]
    /\ calm' = (calm /\ ~Busy("save"))
    /\ UNCHANGED <<stored, held, failed>>

(* A change of the text: the timer of the last one is cleared, and started again      *)
(* unless the text is the one that was saved last.                                  *)
Edited(ed, t) ==
    IF t = ed.lastSaved THEN [ed EXCEPT !.body = t, !.timer = FALSE]
    ELSE [ed EXCEPT !.body = t, !.timer = TRUE, !.tells = "saving"]

Type(t) ==
    /\ Acts /\ editor.open /\ t # editor.body
    /\ editor' = Edited(editor, t)
    /\ calm' = (calm /\ ~Busy("save"))
    /\ UNCHANGED <<stored, held, saving, failed>>

(* A slip of Told: an error passes for a save. *)
ToldSaved(ed, text, ok) == [ed EXCEPT !.tells = "saved", !.lastSaved = text]

Told(ed, text, ok) ==
    IF ok THEN [ed EXCEPT !.tells = "saved", !.lastSaved = text] ELSE [ed EXCEPT !.tells = "error"]

(* The timeout of 600 ms, with handleSave up to its call: an empty note is an error,  *)
(* and the text that the list holds is not sent.                                    *)
Fire ==
    /\ editor.open /\ editor.timer
    /\ IF editor.body \in {Blank, held}
       THEN /\ editor' = Told([editor EXCEPT !.timer = FALSE], editor.body, editor.body # Blank)
            /\ UNCHANGED saving
       ELSE /\ Start("save", editor.body)
            /\ editor' = [editor EXCEPT !.timer = FALSE]
    /\ UNCHANGED <<stored, held, typed, failed, calm>>

(* fetchCases, by another part of the dashboard. *)
List ==
    /\ Acts /\ ~Busy("list") /\ Start("list", Blank)
    /\ calm' = (calm /\ ~Busy("save"))
    /\ UNCHANGED <<stored, held, editor, failed>>

(* updateNote of the server, or its list of cases. *)
Serve(i) ==
    /\ saving[i].stage = "sent"
    /\ stored' = IF saving[i].kind = "save" THEN saving[i].text ELSE stored
    /\ saving' = [saving EXCEPT ![i].stage = "done", ![i].text = stored']
    /\ calm' = (calm /\ ~(saving[i].kind = "save" /\ Busy("list")))
    /\ UNCHANGED <<held, editor, typed, failed>>

(* The call fails, before it is served or after. *)
Fail(i) ==
    /\ failed < MaxFaults /\ failed' = failed + 1
    /\ saving[i].stage \in {"sent", "done"}
    /\ saving' = [saving EXCEPT ![i].stage = "failed"]
    /\ UNCHANGED <<stored, held, editor, typed, calm>>

(* applyServerCase, or the new list; then the editor is told, if it is still there.    *)
Answer(i) ==
    /\ saving[i].stage \in {"done", "failed"}
    /\ LET ok == saving[i].stage = "done"
       IN  /\ held' = IF ok THEN saving[i].text ELSE held
           /\ editor' = IF saving[i].kind = "save" /\ saving[i].mine
                        THEN Told(editor, saving[i].text, ok) ELSE editor
    /\ saving' = [saving EXCEPT ![i] = NoSave]
    /\ UNCHANGED <<stored, typed, failed, calm>>

(* The note is changed on another screen. *)
Elsewhere(t) ==
    /\ Acts /\ t \notin {Blank, stored} /\ stored' = t /\ calm' = FALSE
    /\ UNCHANGED <<held, editor, saving, failed>>

Next == \/ \E t \in Texts : Type(t) \/ Elsewhere(t)
        \/ \E i \in Calls : Serve(i) \/ Fail(i) \/ Answer(i)
        \/ Toggle \/ List \/ Fire

(* Timers fire and calls are answered. *)
Fairness == /\ WF_noteVars(Fire)
            /\ \A i \in Calls : WF_noteVars(Serve(i)) /\ WF_noteVars(Answer(i))

Spec == Init /\ [][Next]_noteVars /\ Fairness

-----------------------------------------------------------------------------
TypeOK ==
    /\ {stored, held, editor.body, editor.lastSaved} \subseteq Texts
    /\ editor.tells \in {"idle", "saving", "saved", "error"}
    /\ \A i \in Calls : saving[i].stage \in {"none", "sent", "done", "failed"}

(* "자동 저장됨": the text on the screen is the one the server has, unless something     *)
(* was typed or listed beside a save, or the note was changed elsewhere; and while one   *)
(* call at most has failed: after a second save that was served but not answered, the    *)
(* list holds a text that is neither, and typing it is told as a save without a call.     *)
SavedIsStored ==
    editor.open /\ editor.tells = "saved" /\ calm /\ failed <= 1 => stored = editor.body

(* What was typed is saved, or taken back, sooner or later, unless the editor is closed or a save     *)
(* has failed; again without anything beside a save.                               *)
TypedIsStored ==
    (editor.open /\ editor.body # editor.lastSaved) ~>
       (editor.body = editor.lastSaved \/ ~editor.open \/ editor.tells = "error" \/ ~calm)
=============================================================================
