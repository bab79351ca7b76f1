------------------------------- MODULE CasesProofs -------------------------------
(* Proofs about Cases, for any listings, runs, calls and decisions, any searches of a  *)
(* job and any cases on the dashboard.                                               *)
(*                                                                                   *)
(* Each of the three sides has an inductive invariant of its own; a step of Cases is a *)
(* step of one of them and leaves the others alone.                                  *)
EXTENDS Cases, FiniteSetTheorems, TLAPS

\* A step of the whole is a step, or none, of each side.
LEMMA StepIs ==
  ASSUME [CasesNext]_<<part, vars, outcomeVars, screenVars>>
  PROVE  /\ [Next]_vars /\ part' = part
         /\ part = "outcome" => [Outcome!Next]_outcomeVars
         /\ part = "screen" => [Dashboard!Next]_screenVars
  BY Zenon DEF CasesNext

-----------------------------------------------------------------------------
(* The cases that runs and calls race for *)

USE InvestigationAssumption

\* What an actor has in hand: a listing, and the entity it will insert or save.
Holding ==
  \A a \in Actors :
    /\ actor[a].pc # "idle" => actor[a].at \in Listings
    /\ actor[a].pc \in {"idle", "numbering"} => actor[a].entity = NoCase
    /\ actor[a].pc = "inserting" =>
         actor[a].entity \in Case \cup Unsaved
    /\ actor[a].pc \in {"saving", "updating"} => actor[a].entity \in Case

TypeInv == TypeOK /\ Holding

\* A row of the table is a case exactly when it has a status.
LEMMA RowIsCase ==
  ASSUME TypeOK, NEW l \in Listings, HasCase(l)
  PROVE  row[l] \in Case
BY DEF TypeOK, HasCase, NoCase

\* What is written is a case, and keeps the number of the row.
LEMMA MergedIsCase ==
  ASSUME NEW old \in Case, NEW entity \in Case, NEW diff
  PROVE  /\ Merged(old, entity, diff) \in Case
         /\ Merged(old, entity, diff).no = old.no
         /\ Merged(old, entity, diff).id = old.id
BY DEF Merged, Case

\* What is inserted is a case that has an identifier: one that no case has had, or its own.
LEMMA InsertedIsCase ==
  ASSUME NEW e \in Case \cup Unsaved, NEW i \in IdsFor(e)
  PROVE  /\ i \in Ids /\ [e EXCEPT !.id = i] \in Case
         /\ [e EXCEPT !.id = i].id = i /\ [e EXCEPT !.id = i].no = e.no
         /\ [e EXCEPT !.id = i].status = e.status /\ [e EXCEPT !.id = i].decision = e.decision
         /\ \/ e \in Case /\ i = e.id
            \/ e \in Unsaved /\ reached[i] = {} /\ e.status = "Open" /\ e.decision = "none"
<1>1. CASE e \in Case
  BY <1>1 DEF IdsFor, Case
<1>2. CASE e \in Unsaved
  BY <1>2 DEF IdsFor, Unsaved, Case, Statuses
<1>. QED BY <1>1, <1>2

\* An operator's edit of a case is a case.
LEMMA EditedIsCase ==
  ASSUME NEW c \in Case, NEW e \in Edited(c)
  PROVE  e \in Case /\ e.no = c.no /\ e.id = c.id
BY ZenonT(40) DEF Edited, Moved, Decided, Case, Statuses

LEMMA NumberIsNatural ==
  ASSUME TypeOK, NEW n \in NextNumbers
  PROVE  n \in Nat \ {0}
<1>1. \A l \in Listings : row[l].no \in Nat
  BY DEF TypeOK, NoCase, Case
<1>. QED BY <1>1 DEF NextNumbers, FirstNumber

\* The updates of a run's and of an actor's record.
LEMMA RunRecordUpdates ==
  ASSUME NEW x \in RunRecord, NEW T \in SUBSET Listings, NEW W \in SUBSET Listings
  PROVE  /\ [x EXCEPT !.state = "going", !.todo = T] \in RunRecord
         /\ [x EXCEPT !.state = "aborted", !.todo = T] \in RunRecord
         /\ [x EXCEPT !.todo = T, !.worth = W] \in RunRecord
BY DEF RunRecord

LEMMA ActorRecordUpdates ==
  ASSUME NEW x \in ActorRecord
  PROVE  /\ \A D \in SUBSET Columns : [x EXCEPT !.pc = "updating", !.diff = D] \in ActorRecord
         /\ [x EXCEPT !.pc = "inserting"] \in ActorRecord
         /\ \A e \in Unsaved : [x EXCEPT !.pc = "inserting", !.entity = e] \in ActorRecord
         /\ \A l \in Listings : [x EXCEPT !.pc = "numbering", !.at = l] \in ActorRecord
BY DEF ActorRecord

LEMMA TypeInvInit == Init => TypeInv
BY DEF Init, TypeInv, TypeOK, Holding, Idle, NotStarted, NoCase, Actors, ActorRecord, RunRecord

LEMMA TypeInvNext == TypeInv /\ [Next]_vars => TypeInv'
<1>. SUFFICES ASSUME TypeInv, [Next]_vars PROVE TypeInv'
  OBVIOUS
<1>. USE DEF TypeInv
<1>idle. Idle \in ActorRecord
  BY DEF Idle, ActorRecord
<1>1. ASSUME NEW a \in Actors, SaveSelect(a) PROVE TypeInv'
  <2>. DEFINE d == {k \in Columns : actor[a].entity[k] # row[actor[a].at][k]}
  <2>1. PICK x \in {[actor[a] EXCEPT !.pc = "updating", !.diff = d], [actor[a] EXCEPT !.pc = "inserting"]} :
          actor' = [actor EXCEPT ![a] = x]
    BY <1>1 DEF SaveSelect
  <2>2. d \in SUBSET Columns /\ actor[a] \in ActorRecord
    BY DEF TypeOK
  <2>. HIDE DEF d
  <2>3. x \in ActorRecord
    <3>1. [actor[a] EXCEPT !.pc = "updating", !.diff = d] \in ActorRecord
      BY <2>2, ActorRecordUpdates
    <3>2. [actor[a] EXCEPT !.pc = "inserting"] \in ActorRecord
      BY <2>2, ActorRecordUpdates
    <3>. QED BY <2>1, <3>1, <3>2
  <2>4. TypeOK'
    BY ZenonT(40), <1>1, <2>1, <2>3 DEF SaveSelect, TypeOK
  <2>5. x.at = actor[a].at /\ x.entity = actor[a].entity /\ x.pc \in {"updating", "inserting"}
    BY <2>1, <2>2 DEF ActorRecord
  <2>6. actor[a].at \in Listings /\ actor[a].entity \in Case
    BY <1>1 DEF SaveSelect, Holding
  <2>7. Holding'
    BY <2>1, <2>5, <2>6 DEF TypeOK, Holding
  <2>. QED BY <2>4, <2>7
<1>2. ASSUME NEW a \in Actors, SaveUpdate(a) \/ SaveMisses(a) PROVE TypeInv'
  <2>1. CASE SaveMisses(a)
    BY <2>1, <1>idle DEF SaveMisses, TypeOK, Holding, Idle
  <2>2. CASE SaveUpdate(a)
    <3>. DEFINE l == actor[a].at
                new == Merged(row[l], actor[a].entity, actor[a].diff)
    <3>1. l \in Listings /\ actor[a].entity \in Case
      BY <2>2 DEF SaveUpdate, Holding
    <3>2. HasCase(l)
      BY <2>2, <3>1 DEF SaveUpdate, TypeOK, HasCase, Case, NoCase, Statuses
    <3>3. new \in Case
      BY <3>1, <3>2, RowIsCase, MergedIsCase
    <3>4. row' = [row EXCEPT ![l] = new] /\ reached' = [reached EXCEPT ![new.id] = @ \cup {new.status}]
          /\ actor' = [actor EXCEPT ![a] = Idle] /\ run' = run /\ given' = given
      BY <2>2 DEF SaveUpdate
    <3>5. new.status \in Statuses /\ new.id \in Ids
      BY <3>3 DEF Case
    <3>. HIDE DEF new, l
    <3>6. TypeOK'
      BY <3>1, <3>3, <3>4, <3>5, <1>idle DEF TypeOK
    <3>7. Holding'
      BY <3>4 DEF Holding, TypeOK, Idle
    <3>. QED BY <3>6, <3>7
  <2>. QED BY <1>2, <2>1, <2>2
<1>3. ASSUME NEW a \in Actors, TakeNumber(a) PROVE TypeInv'
  <2>1. PICK n \in NextNumbers :
          actor' = [actor EXCEPT ![a].pc = "inserting", ![a].entity = NewCase(n)]
    BY <1>3 DEF TakeNumber
  <2>2. NewCase(n) \in Unsaved
    BY NumberIsNatural DEF NewCase, Unsaved
  <2>. DEFINE new == NewCase(n)
  <2>. HIDE DEF new
  <2>3. actor[a] \in ActorRecord /\ new \in Unsaved
    BY <2>2 DEF TypeOK, new
  <2>4. actor' = [actor EXCEPT ![a] = [actor[a] EXCEPT !.pc = "inserting", !.entity = new]]
    BY <2>1 DEF new
  <2>5. TypeOK'
    <3>1. [actor[a] EXCEPT !.pc = "inserting", !.entity = new] \in ActorRecord
      BY <2>3, ActorRecordUpdates
    <3>. QED BY <1>3, <2>4, <3>1 DEF TakeNumber, TypeOK
  <2>6. Holding'
    BY <1>3, <2>3, <2>4 DEF TakeNumber, TypeOK, Holding, ActorRecord
  <2>. QED BY <2>5, <2>6
<1>4. ASSUME NEW a \in Actors, Insert(a) PROVE TypeInv'
  <2>. DEFINE l == actor[a].at
              e == actor[a].entity
  <2>1. l \in Listings /\ e \in Case \cup Unsaved
    BY <1>4 DEF Insert, Holding
  <2>2. PICK i \in IdsFor(e) : /\ row' = [row EXCEPT ![l] = [e EXCEPT !.id = i]]
                               /\ reached' = [reached EXCEPT ![i] = @ \cup {e.status}]
                               /\ given' = [given EXCEPT ![i] = e.no]
    BY <1>4 DEF Insert
  <2>3. actor' = [actor EXCEPT ![a] = Idle] /\ run' = run
    BY <1>4 DEF Insert
  <2>4. i \in Ids /\ [e EXCEPT !.id = i] \in Case /\ e.status \in Statuses /\ e.no \in Nat
    BY <2>1, InsertedIsCase DEF Case, Unsaved, Statuses
  <2>. HIDE DEF e, l
  <2>5. TypeOK'
    BY <2>1, <2>2, <2>3, <2>4, <1>idle DEF TypeOK
  <2>6. Holding'
    BY <2>3 DEF Holding, TypeOK, Idle
  <2>. QED BY <2>5, <2>6
<1>5. ASSUME NEW a \in Actors, InsertFails(a) PROVE TypeInv'
  BY <1>5, <1>idle DEF InsertFails, Abort, RunRecord, TypeOK, Holding, Idle
<1>6. ASSUME NEW r \in Runs, StartRun(r) PROVE TypeInv'
  <2>1. TypeOK'
    <3>1. PICK T \in SUBSET Listings : run' = [run EXCEPT ![r].state = "going", ![r].todo = T]
      BY <1>6 DEF StartRun
    <3>2. run[r] \in RunRecord
      BY DEF TypeOK
    <3>3. [run[r] EXCEPT !.state = "going", !.todo = T] \in RunRecord
      BY <3>2, RunRecordUpdates
    <3>. QED BY <1>6, <3>1, <3>3 DEF StartRun, TypeOK
  <2>2. Holding'
    BY <1>6 DEF StartRun, TypeOK, Holding, HasCase, RunRecord, ActorRecord, Actors
  <2>. QED BY <2>1, <2>2
<1>7. ASSUME NEW r \in Runs, EndRun(r) PROVE TypeInv'
  BY <1>7 DEF EndRun, RunRecord, TypeOK, Holding, HasCase
<1>8. ASSUME NEW r \in Runs, RunFails(r) PROVE TypeInv'
  <2>1. TypeOK'
    <3>1. run[r] \in RunRecord
      BY DEF TypeOK
    <3>2. [run[r] EXCEPT !.state = "aborted", !.todo = {}] \in RunRecord
      BY <3>1 DEF RunRecord
    <3>. QED BY <1>8, <1>idle, <3>2 DEF RunFails, Abort, TypeOK, Actors
  <2>2. Holding'
    BY <1>8, <1>idle DEF RunFails, Abort, Idle, TypeOK, Holding, HasCase, RunRecord, ActorRecord, Actors
  <2>. QED BY <2>1, <2>2
<1>9. ASSUME NEW r \in Runs, NEW l \in Listings, Dismiss(r, l) PROVE TypeInv'
  BY <1>9 DEF Dismiss, RunRecord, TypeOK, Holding, HasCase
<1>10. ASSUME NEW r \in Runs, NEW l \in Listings, RecordExclude(r, l) PROVE TypeInv'
  BY SMTT(30), <1>10, RowIsCase DEF RecordExclude, RunRecord, ActorRecord, TypeOK, Holding, HasCase, Actors
<1>11. ASSUME NEW r \in Runs, NEW l \in Listings, Leave(r, l) PROVE TypeInv'
  <2>1. TypeOK'
    <3>1. run[r].todo \ {l} \in SUBSET Listings /\ run[r].worth \cup {l} \in SUBSET Listings
      BY DEF TypeOK, RunRecord
    <3>2. [run[r] EXCEPT !.todo = run[r].todo \ {l}, !.worth = run[r].worth \cup {l}] \in RunRecord
      BY <3>1, RunRecordUpdates DEF TypeOK
    <3>3. run' = [run EXCEPT ![r] = [run[r] EXCEPT !.todo = run[r].todo \ {l}, !.worth = run[r].worth \cup {l}]]
      BY <1>11 DEF Leave, Worth
    <3>. QED BY <1>11, <3>2, <3>3 DEF Leave, TypeOK
  <2>2. Holding'
    BY <1>11 DEF Leave, Worth, TypeOK, Holding, HasCase, RunRecord, ActorRecord, Actors
  <2>. QED BY <2>1, <2>2
<1>12. ASSUME NEW r \in Runs, NEW l \in Listings, Reevaluate(r, l) PROVE TypeInv'
  <2>1. TypeOK'
    <3>1. run[r].todo \ {l} \in SUBSET Listings /\ run[r].worth \cup {l} \in SUBSET Listings
      BY DEF TypeOK, RunRecord
    <3>2. [run[r] EXCEPT !.todo = run[r].todo \ {l}, !.worth = run[r].worth \cup {l}] \in RunRecord
      BY <3>1, RunRecordUpdates DEF TypeOK
    <3>3. run' = [run EXCEPT ![r] = [run[r] EXCEPT !.todo = run[r].todo \ {l}, !.worth = run[r].worth \cup {l}]]
      BY <1>12 DEF Reevaluate, Worth
    <3>4. [pc |-> "saving", at |-> l, entity |-> row[l], diff |-> {}] \in ActorRecord
      BY <1>12, RowIsCase DEF Reevaluate, ActorRecord
    <3>. QED BY <1>12, <3>2, <3>3, <3>4 DEF Reevaluate, TypeOK, Actors
  <2>2. Holding'
    BY <1>12, RowIsCase DEF Reevaluate, TypeOK, Holding, HasCase, Actors
  <2>. QED BY <2>1, <2>2
<1>13. ASSUME NEW r \in Runs, NEW l \in Listings, Create(r, l) PROVE TypeInv'
  <2>1. TypeOK'
    <3>1. run[r].todo \ {l} \in SUBSET Listings /\ run[r].worth \cup {l} \in SUBSET Listings
      BY DEF TypeOK, RunRecord
    <3>2. [run[r] EXCEPT !.todo = run[r].todo \ {l}, !.worth = run[r].worth \cup {l}] \in RunRecord
      BY <3>1, RunRecordUpdates DEF TypeOK
    <3>3. run' = [run EXCEPT ![r] = [run[r] EXCEPT !.todo = run[r].todo \ {l}, !.worth = run[r].worth \cup {l}]]
      BY <1>13 DEF Create, Worth
    <3>4. [actor[r] EXCEPT !.pc = "numbering", !.at = l] \in ActorRecord
      BY ActorRecordUpdates DEF TypeOK, Actors
    <3>. QED BY <1>13, <3>2, <3>3, <3>4 DEF Create, TypeOK, Actors
  <2>2. Holding'
    <3>1. actor' = [actor EXCEPT ![r].pc = "numbering", ![r].at = l] /\ actor[r].pc = "idle"
      BY <1>13 DEF Create, AtListing
    <3>. QED BY <3>1 DEF TypeOK, Holding, ActorRecord, Actors
  <2>. QED BY <2>1, <2>2
<1>14. ASSUME NEW c \in Calls, NEW l \in Listings, CallEdit(c, l) PROVE TypeInv'
  <2>1. PICK e \in Edited(row[l]) :
          actor' = [actor EXCEPT ![c] = [pc |-> "saving", at |-> l, entity |-> e, diff |-> {}]]
    BY <1>14 DEF CallEdit
  <2>2. e \in Case
    BY <1>14, RowIsCase, EditedIsCase DEF CallEdit
  <2>. QED BY <1>14, <2>1, <2>2 DEF CallEdit, ActorRecord, TypeOK, Holding, HasCase, Actors
<1>15. ASSUME NEW c \in Calls, NEW l \in Listings, CallCreate(c, l) PROVE TypeInv'
  <2>1. TypeOK'
    <3>1. [actor[c] EXCEPT !.pc = "numbering", !.at = l] \in ActorRecord
      BY ActorRecordUpdates DEF TypeOK, Actors
    <3>. QED BY <1>15, <3>1 DEF CallCreate, TypeOK, Actors
  <2>2. Holding'
    BY <1>15 DEF CallCreate, TypeOK, Holding, HasCase, RunRecord, ActorRecord, Actors
  <2>. QED BY <2>1, <2>2
<1>16. ASSUME DeleteSearch PROVE TypeInv'
  <2>1. PICK ls : /\ row' = [l \in Listings |-> IF l \in ls THEN NoCase ELSE row[l]]
                  /\ run' = [r \in Runs |-> [run[r] EXCEPT !.worth = @ \ ls]]
                  /\ UNCHANGED <<reached, given, actor>>
    BY <1>16 DEF DeleteSearch
  <2>2. \A r \in Runs : [run[r] EXCEPT !.worth = @ \ ls] \in RunRecord
    BY DEF TypeOK, RunRecord
  <2>. QED BY <2>1, <2>2 DEF TypeOK, Holding
<1>17. CASE UNCHANGED vars
  BY <1>17 DEF vars, TypeOK, Holding
<1>. QED BY <1>1, <1>2, <1>3, <1>4, <1>5, <1>6, <1>7, <1>8, <1>9, <1>10, <1>11, <1>12, <1>13,
            <1>14, <1>15, <1>16, <1>17 DEF Next

\* The table of cases, its runs and its calls keep their types, whatever runs, calls and deletions
\* interleave: no case is ever without an identifier, a status or a number.
THEOREM TypeCorrect == CasesSpec => []TypeOK
<1>1. TypeInv => TypeOK
  BY DEF TypeInv
<1>2. CasesInit => TypeInv
  BY TypeInvInit DEF CasesInit
<1>3. TypeInv /\ [CasesNext]_<<part, vars, outcomeVars, screenVars>> => TypeInv'
  BY StepIs, TypeInvNext
<1>. QED BY <1>1, <1>2, <1>3, PTL DEF CasesSpec
-----------------------------------------------------------------------------
(* The stages of a case *)

\* The copy of a case that an actor has in hand has a status that the case was ready for when it was
\* read, and an update that leaves the status out does not complete a case for the first time.
CopiesFollow ==
  \A a \in Actors : actor[a].pc # "idle" /\ actor[a].entity \in Case =>
    LET e == actor[a].entity
        past == reached[e.id]
    IN /\ Before[e.status] \subseteq past
       /\ e.decision # "none" => e.status = "Completed" \/ "Completed" \in past
       /\ actor[a].pc = "updating" /\ e.status = "Completed" =>
            "status" \in actor[a].diff \/ "Completed" \in past

RowsReached == \A l \in Listings : HasCase(l) => row[l].status \in reached[row[l].id]

StageInv == StagesInOrder /\ RowsReached /\ CopiesFollow

\* What the row of a listing allows to be copied, and what an operator makes of the copy.
LEMMA EditsFollow ==
  ASSUME TypeInv, StageInv, NEW l \in Listings, HasCase(l), NEW e \in Edited(row[l])
  PROVE  /\ e \in Case /\ e.id = row[l].id
         /\ Before[e.status] \subseteq reached[e.id]
         /\ e.decision # "none" => e.status = "Completed" \/ "Completed" \in reached[e.id]
<1>. DEFINE past == reached[row[l].id]
<1>1. row[l] \in Case /\ row[l].status \in past /\ Before[row[l].status] \subseteq past
      /\ (row[l].decision # "none" => "Completed" \in past)
  BY RowIsCase DEF TypeInv, StageInv, RowsReached, StagesInOrder, Case
<1>id. e \in Case /\ e.id = row[l].id
  BY <1>1, EditedIsCase
<1>2. CASE e \in Moved(row[l])
  <2>1. PICK s \in Statuses \ {row[l].status} :
          CanTransition(row[l].status, s) /\ e = [row[l] EXCEPT !.status = s]
    BY <1>2 DEF Moved
  <2>2. row[l].status # "Archived" /\ s = Successor[row[l].status]
    BY <2>1 DEF CanTransition, Selectable
  <2>3. e.status = s /\ e.decision = row[l].decision
    BY <2>1, <1>1 DEF Case
  <2>4. Before[s] \subseteq {row[l].status}
    BY <2>2, <1>1 DEF Case, Statuses, Successor, Before
  <2>. QED BY <1>1, <1>id, <2>3, <2>4
<1>3. CASE e \in Decided(row[l])
  <2>1. PICK d \in Decisions : e = [row[l] EXCEPT !.status = "Completed", !.decision = d]
    BY <1>3 DEF Decided
  <2>2. e.status = "Completed"
    BY <2>1, <1>1 DEF Case
  <2>. QED BY <1>id, <2>2 DEF Before
<1>4. CASE e = row[l]
  BY <1>4, <1>1
<1>. QED BY <1>2, <1>3, <1>4 DEF Edited

\* Nothing is forgotten where rows and their histories stay as they are.
LEMMA StageQuiet ==
  ASSUME TypeInv, StageInv, UNCHANGED <<row, reached>>,
         \A a \in Actors : actor'[a] = actor[a] \/ actor'[a].pc = "idle" \/ actor'[a].entity \notin Case
  PROVE  StageInv'
BY DEF StageInv, StagesInOrder, RowsReached, CopiesFollow, HasCase, TypeInv, TypeOK

\* An entity that a status allows is taken in hand.
LEMMA StageCopy ==
  ASSUME TypeInv, StageInv, NEW a \in Actors, NEW l \in Listings, HasCase(l), NEW e \in Edited(row[l]),
         UNCHANGED <<row, reached>>,
         actor' = [actor EXCEPT ![a] = [pc |-> "saving", at |-> l, entity |-> e, diff |-> {}]]
  PROVE  StageInv'
<1>1. StagesInOrder' /\ RowsReached'
  BY DEF StageInv, StagesInOrder, RowsReached, HasCase
<1>2. /\ actor'[a].pc = "saving" /\ actor'[a].at = l /\ actor'[a].entity = e
      /\ \A b \in Actors \ {a} : actor'[b] = actor[b]
  BY DEF TypeInv, TypeOK
<1>3. CopiesFollow'
  BY SMTT(30), <1>2, EditsFollow DEF CopiesFollow, StageInv
<1>. QED BY <1>1, <1>3 DEF StageInv

LEMMA StageInit == Init => StageInv
BY DEF Init, StageInv, StagesInOrder, RowsReached, CopiesFollow, HasCase, NoCase, Idle

\* An entity that is not saved yet is no case.
LEMMA UnsavedIsNoCase ==
  ASSUME NEW e \in Unsaved \cup {NoCase}
  PROVE  e \notin Case
BY DEF Unsaved, NoCase, Case

\* A row is written: the history of its case grows by its new status.
LEMMA StageWrite ==
  ASSUME TypeInv, StageInv, NEW a \in Actors, NEW l \in Listings, NEW new \in Case,
         row' = [row EXCEPT ![l] = new],
         reached' = [reached EXCEPT ![new.id] = @ \cup {new.status}],
         actor' = [actor EXCEPT ![a] = Idle],
         Before[new.status] \subseteq reached[new.id],
         new.decision # "none" => "Completed" \in reached[new.id] \cup {new.status}
  PROVE  StageInv'
<1>0. new.id \in Ids
  BY DEF Case
<1>1. /\ row'[l] = new /\ reached'[new.id] = reached[new.id] \cup {new.status}
      /\ \A k \in Listings \ {l} : row'[k] = row[k]
      /\ \A i \in Ids \ {new.id} : reached'[i] = reached[i]
      /\ \A i \in Ids : reached[i] \subseteq reached'[i]
  BY <1>0 DEF TypeInv, TypeOK
<1>2. \A k \in Listings : HasCase(k) => row[k].id \in Ids
  BY RowIsCase DEF TypeInv, Case
<1>3. \A k \in Listings : row[k].decision # "none" => HasCase(k)
  BY DEF TypeInv, TypeOK, NoCase, Case, Statuses, HasCase
<1>4. StagesInOrder'
  <2>1. \A i \in Ids : \A s \in reached'[i] : Before[s] \subseteq reached'[i]
    BY <1>1 DEF StageInv, StagesInOrder
  <2>2. \A k \in Listings : row'[k].decision # "none" => "Completed" \in reached'[row'[k].id]
    BY <1>1, <1>2, <1>3 DEF StageInv, StagesInOrder
  <2>. QED BY <2>1, <2>2 DEF StagesInOrder
<1>5. RowsReached'
  BY <1>1, <1>2 DEF StageInv, RowsReached, HasCase
<1>6. \A b \in Actors : actor'[b] = actor[b] \/ actor'[b].pc = "idle"
  BY DEF TypeInv, TypeOK, Idle
<1>7. CopiesFollow'
  <2>1. \A e \in Case : e.id \in Ids
    BY DEF Case
  <2>. QED BY <1>1, <1>6, <2>1 DEF StageInv, CopiesFollow
<1>. QED BY <1>4, <1>5, <1>7 DEF StageInv

LEMMA StageNext == TypeInv /\ StageInv /\ [Next]_vars => StageInv'
<1>. SUFFICES ASSUME TypeInv, StageInv, [Next]_vars PROVE StageInv'
  OBVIOUS
<1>1. ASSUME NEW a \in Actors, SaveSelect(a) PROVE StageInv'
  <2>. DEFINE l == actor[a].at
              e == actor[a].entity
  <2>1. StagesInOrder' /\ RowsReached'
    BY <1>1 DEF SaveSelect, StageInv, StagesInOrder, RowsReached, HasCase
  <2>2. l \in Listings /\ e \in Case /\ actor[a] \in ActorRecord
    BY <1>1 DEF SaveSelect, TypeInv, Holding, TypeOK
  <2>3. /\ actor'[a].entity = e
        /\ actor'[a].pc = "updating" =>
             row[l].id = e.id /\ actor'[a].diff = {k \in Columns : e[k] # row[l][k]}
        /\ \A b \in Actors \ {a} : actor'[b] = actor[b]
    BY <1>1, <2>2 DEF SaveSelect, TypeInv, TypeOK, ActorRecord
  <2>4. row[l].id = e.id => row[l].status \in reached[e.id]
    <3>1. row[l].id = e.id => HasCase(l)
      BY <2>2 DEF TypeInv, TypeOK, HasCase, Case, NoCase, Statuses
    <3>. QED BY <2>2, <3>1 DEF StageInv, RowsReached
  <2>5. /\ Before[e.status] \subseteq reached[e.id]
        /\ e.decision # "none" => e.status = "Completed" \/ "Completed" \in reached[e.id]
    BY <1>1, <2>2 DEF SaveSelect, StageInv, CopiesFollow
  <2>6. actor'[a].pc = "updating" /\ e.status = "Completed" =>
          "status" \in actor'[a].diff \/ "Completed" \in reached[e.id]
    BY <2>3, <2>4 DEF Columns
  <2>7. UNCHANGED <<row, reached>>
    BY <1>1 DEF SaveSelect
  <2>. HIDE DEF e, l
  <2>8. CopiesFollow'
    <3>. SUFFICES ASSUME NEW b \in Actors, actor'[b].pc # "idle", actor'[b].entity \in Case
                  PROVE LET x == actor'[b].entity
                            past == reached[x.id]
                        IN /\ Before[x.status] \subseteq past
                           /\ x.decision # "none" => x.status = "Completed" \/ "Completed" \in past
                           /\ actor'[b].pc = "updating" /\ x.status = "Completed" =>
                                "status" \in actor'[b].diff \/ "Completed" \in past
      BY <2>7 DEF CopiesFollow
    <3>1. CASE b = a
      BY <3>1, <2>3, <2>5, <2>6
    <3>2. CASE b # a
      BY <3>2, <2>3 DEF StageInv, CopiesFollow
    <3>. QED BY <3>1, <3>2
  <2>. QED BY <2>1, <2>8 DEF StageInv
<1>2. ASSUME NEW a \in Actors, SaveUpdate(a) PROVE StageInv'
  <2>. DEFINE l == actor[a].at
              e == actor[a].entity
              new == Merged(row[l], e, actor[a].diff)
  <2>1. l \in Listings /\ e \in Case /\ row[l].id = e.id
    BY <1>2 DEF SaveUpdate, TypeInv, Holding
  <2>2. HasCase(l) /\ row[l] \in Case
    BY <2>1 DEF TypeInv, TypeOK, HasCase, Case, NoCase, Statuses
  <2>3. new \in Case /\ new.id = row[l].id
    BY <2>1, <2>2, MergedIsCase
  <2>4. /\ new.status = IF "status" \in actor[a].diff THEN e.status ELSE row[l].status
        /\ new.decision = IF "decision" \in actor[a].diff THEN e.decision ELSE row[l].decision
    BY <2>1, <2>2 DEF Merged, Case
  <2>5. /\ row[l].status \in reached[e.id] /\ Before[row[l].status] \subseteq reached[e.id]
        /\ row[l].decision # "none" => "Completed" \in reached[e.id]
    BY <2>1, <2>2 DEF StageInv, RowsReached, StagesInOrder, Case
  <2>6. /\ Before[e.status] \subseteq reached[e.id]
        /\ e.decision # "none" => e.status = "Completed" \/ "Completed" \in reached[e.id]
        /\ e.status = "Completed" => "status" \in actor[a].diff \/ "Completed" \in reached[e.id]
    BY <1>2, <2>1 DEF SaveUpdate, StageInv, CopiesFollow
  <2>7. /\ row' = [row EXCEPT ![l] = new] /\ reached' = [reached EXCEPT ![new.id] = @ \cup {new.status}]
        /\ actor' = [actor EXCEPT ![a] = Idle]
    BY <1>2 DEF SaveUpdate
  <2>8. /\ Before[new.status] \subseteq reached[new.id]
        /\ new.decision # "none" => "Completed" \in reached[new.id] \cup {new.status}
    BY <2>1, <2>3, <2>4, <2>5, <2>6
  <2>. HIDE DEF l, e, new
  <2>. QED BY <2>1, <2>3, <2>7, <2>8, StageWrite
<1>3. ASSUME NEW a \in Actors, TakeNumber(a) PROVE StageInv'
  <2>1. PICK n \in NextNumbers :
          actor' = [actor EXCEPT ![a].pc = "inserting", ![a].entity = NewCase(n)]
    BY <1>3 DEF TakeNumber
  <2>2. NewCase(n) \in Unsaved
    BY NumberIsNatural DEF NewCase, Unsaved, TypeInv
  <2>3. actor'[a].entity = NewCase(n) /\ \A b \in Actors \ {a} : actor'[b] = actor[b]
    BY <2>1 DEF TypeInv, TypeOK, ActorRecord
  <2>. QED BY <1>3, <2>2, <2>3, UnsavedIsNoCase, StageQuiet DEF TakeNumber
<1>4. ASSUME NEW a \in Actors, Insert(a) PROVE StageInv'
  <2>. DEFINE l == actor[a].at
              e == actor[a].entity
  <2>1. l \in Listings /\ e \in Case \cup Unsaved
    BY <1>4 DEF Insert, TypeInv, Holding
  <2>2. PICK i \in IdsFor(e) : /\ row' = [row EXCEPT ![l] = [e EXCEPT !.id = i]]
                               /\ reached' = [reached EXCEPT ![i] = @ \cup {e.status}]
    BY <1>4 DEF Insert
  <2>3. actor' = [actor EXCEPT ![a] = Idle]
    BY <1>4 DEF Insert
  <2>. DEFINE new == [e EXCEPT !.id = i]
  <2>4. /\ new \in Case /\ new.id = i /\ new.status = e.status /\ new.decision = e.decision
        /\ \/ e \in Case /\ i = e.id
           \/ e \in Unsaved /\ reached[i] = {} /\ e.status = "Open" /\ e.decision = "none"
    BY <2>1, InsertedIsCase
  <2>5. /\ Before[e.status] \subseteq reached[i]
        /\ e.decision # "none" => "Completed" \in reached[i] \cup {e.status}
    <3>1. CASE e \in Case /\ i = e.id
      BY <1>4, <3>1 DEF Insert, StageInv, CopiesFollow
    <3>2. CASE e.status = "Open" /\ e.decision = "none"
      BY <3>2 DEF Before
    <3>. QED BY <2>4, <3>1, <3>2
  <2>. HIDE DEF l, e, new
  <2>6. row' = [row EXCEPT ![l] = new] /\ reached' = [reached EXCEPT ![new.id] = @ \cup {new.status}]
    BY <2>2, <2>4 DEF new
  <2>. QED BY <2>1, <2>3, <2>4, <2>5, <2>6, StageWrite
<1>5. ASSUME NEW a \in Actors, InsertFails(a) PROVE StageInv'
  BY <1>5, StageQuiet DEF InsertFails, Idle, TypeInv, TypeOK
<1>6. ASSUME NEW r \in Runs, StartRun(r) \/ EndRun(r) PROVE StageInv'
  BY <1>6, StageQuiet DEF StartRun, EndRun
<1>7. ASSUME NEW r \in Runs, RunFails(r) PROVE StageInv'
  BY <1>7, StageQuiet DEF RunFails, Idle, TypeInv, TypeOK, Actors
<1>8. ASSUME NEW r \in Runs, NEW l \in Listings, Dismiss(r, l) \/ Leave(r, l) PROVE StageInv'
  BY <1>8, StageQuiet DEF Dismiss, Leave
<1>16. ASSUME NEW a \in Actors, SaveMisses(a) PROVE StageInv'
  BY <1>16, StageQuiet DEF SaveMisses, Idle, TypeInv, TypeOK
<1>9. ASSUME NEW r \in Runs, NEW l \in Listings, RecordExclude(r, l) PROVE StageInv'
  BY <1>9, StageCopy DEF RecordExclude, Edited, Actors
<1>10. ASSUME NEW r \in Runs, NEW l \in Listings, Reevaluate(r, l) PROVE StageInv'
  BY <1>10, StageCopy DEF Reevaluate, Edited, Actors
<1>11. ASSUME NEW r \in Runs, NEW l \in Listings, Create(r, l) PROVE StageInv'
  <2>1. actor'[r].entity = NoCase /\ \A b \in Actors \ {r} : actor'[b] = actor[b]
    BY <1>11 DEF Create, AtListing, TypeInv, TypeOK, ActorRecord, Actors, Holding
  <2>. QED BY <1>11, <2>1, UnsavedIsNoCase, StageQuiet DEF Create
<1>12. ASSUME NEW c \in Calls, NEW l \in Listings, CallEdit(c, l) PROVE StageInv'
  BY <1>12, StageCopy DEF CallEdit, Actors
<1>13. ASSUME NEW c \in Calls, NEW l \in Listings, CallCreate(c, l) PROVE StageInv'
  <2>1. actor'[c].entity = NoCase /\ \A b \in Actors \ {c} : actor'[b] = actor[b]
    BY <1>13 DEF CallCreate, TypeInv, TypeOK, ActorRecord, Actors, Holding
  <2>. QED BY <1>13, <2>1, UnsavedIsNoCase, StageQuiet DEF CallCreate
<1>14. ASSUME DeleteSearch PROVE StageInv'
  <2>1. PICK ls : /\ row' = [l \in Listings |-> IF l \in ls THEN NoCase ELSE row[l]]
                  /\ UNCHANGED <<reached, actor>>
    BY <1>14 DEF DeleteSearch
  <2>2. \A l \in Listings : row'[l] = row[l] \/ row'[l] = NoCase
    BY <2>1
  <2>3. StagesInOrder' /\ RowsReached'
    BY <2>1, <2>2 DEF StageInv, StagesInOrder, RowsReached, HasCase, NoCase
  <2>4. CopiesFollow'
    BY <2>1 DEF StageInv, CopiesFollow
  <2>. QED BY <2>3, <2>4 DEF StageInv
<1>15. CASE UNCHANGED vars
  BY <1>15, StageQuiet DEF vars
<1>. QED BY <1>1, <1>2, <1>3, <1>4, <1>5, <1>16, <1>6, <1>7, <1>8, <1>9, <1>10, <1>11, <1>12, <1>13,
            <1>14, <1>15 DEF Next

\* No case gets to a status without the one before it, and none keeps a final decision without
\* ever having been completed, for any number of runs and calls that save stale copies.
THEOREM StagesKept == CasesSpec => []StagesInOrder
<1>1. StageInv => StagesInOrder
  BY DEF StageInv
<1>2. CasesInit => TypeInv /\ StageInv
  BY TypeInvInit, StageInit DEF CasesInit
<1>3. TypeInv /\ StageInv /\ [CasesNext]_<<part, vars, outcomeVars, screenVars>> => TypeInv' /\ StageInv'
  BY StepIs, TypeInvNext, StageNext
<1>. QED BY <1>1, <1>2, <1>3, PTL DEF CasesSpec
-----------------------------------------------------------------------------
(* The numbers of the cases *)

\* No two cases in the table have the same number; a case and its copies have the number it was given,
\* and each number below one that was given was given too.
Distinct == \A l \in Listings : HasCase(l) => \A k \in Listings \ {l} : row[k].no # row[l].no

Given ==
  /\ \A l \in Listings : HasCase(l) => given[row[l].id] = row[l].no
  /\ \A a \in Actors : actor[a].entity \in Case => given[actor[a].entity.id] = actor[a].entity.no
  /\ \A i \in Ids : reached[i] = {} => given[i] = 0
  /\ \A i \in Ids : \A n \in 1..given[i] : \E j \in Ids : given[j] = n

\* A number that is about to be inserted for the first time follows one that was given.
NumbersFollow ==
  \A a \in Actors : actor[a].entity \in Unsaved =>
    actor[a].entity.no = 1 \/ \E i \in Ids : given[i] > 0 /\ given[i] + 1 = actor[a].entity.no

NumberInv == Distinct /\ Given /\ NumbersFollow

LEMMA NumberInit == Init => NumberInv
BY UnsavedIsNoCase DEF Init, NumberInv, Distinct, Given, NumbersFollow, HasCase, NoCase, Idle, Unsaved

\* An entity made of a case in the table, perhaps with another status or decision.
CopyOf(k, entity) ==
  HasCase(k) /\ entity \in Case /\ entity.id = row[k].id /\ entity.no = row[k].no

\* Cases stay, or go, and keep their numbers; no number is taken, and copies are taken of what is there.
LEMMA NumberQuiet ==
  ASSUME TypeInv, NumberInv, given' = given,
         \A i \in Ids : reached[i] \subseteq reached'[i],
         \A k \in Listings : row'[k] = NoCase
           \/ (row'[k].no = row[k].no /\ row'[k].id = row[k].id /\ HasCase(k)),
         \A a \in Actors : actor'[a].entity \in {actor[a].entity, NoCase}
           \/ \E k \in Listings : CopyOf(k, actor'[a].entity)
  PROVE  NumberInv'
<1>1. Distinct'
  <2>. SUFFICES ASSUME NEW l \in Listings, HasCase(l)', NEW k \in Listings \ {l}
                PROVE  row'[k].no # row'[l].no
    BY DEF Distinct
  <2>1. row'[l] # NoCase
    BY DEF HasCase, NoCase
  <2>2. HasCase(l) /\ row'[l].no = row[l].no /\ row[l].no \in Nat \ {0}
    BY <2>1, RowIsCase DEF TypeInv, Case
  <2>3. row'[k].no = 0 \/ row'[k].no = row[k].no
    BY DEF NoCase
  <2>. QED BY <2>2, <2>3 DEF NumberInv, Distinct
<1>2. Given'
  <2>1. \A l \in Listings : HasCase(l)' => given'[row'[l].id] = row'[l].no
    BY DEF NumberInv, Given, HasCase, NoCase
  <2>2. \A a \in Actors : actor'[a].entity \in Case => given'[actor'[a].entity.id] = actor'[a].entity.no
    BY UnsavedIsNoCase DEF NumberInv, Given, CopyOf
  <2>3. \A i \in Ids : reached'[i] = {} => given'[i] = 0
    BY DEF NumberInv, Given
  <2>4. \A i \in Ids : \A n \in 1..given'[i] : \E j \in Ids : given'[j] = n
    BY DEF NumberInv, Given
  <2>. QED BY <2>1, <2>2, <2>3, <2>4 DEF Given
<1>3. NumbersFollow'
  <2>1. \A a \in Actors : actor'[a].entity \in Unsaved => actor'[a].entity = actor[a].entity
    BY UnsavedIsNoCase DEF NoCase, Unsaved, CopyOf
  <2>. QED BY <2>1 DEF NumberInv, NumbersFollow
<1>. QED BY <1>1, <1>2, <1>3 DEF NumberInv

\* The table stays as it is.
LEMMA NumberStill ==
  ASSUME TypeInv, NumberInv, UNCHANGED <<row, reached, given>>,
         \A a \in Actors : actor'[a].entity \in {actor[a].entity, NoCase}
           \/ \E k \in Listings : CopyOf(k, actor'[a].entity)
  PROVE  NumberInv'
<1>1. \A k \in Listings : row[k] = NoCase \/ HasCase(k)
  BY DEF TypeInv, TypeOK, HasCase, Case, Statuses
<1>2. \A k \in Listings : row'[k] = NoCase
           \/ (row'[k].no = row[k].no /\ row'[k].id = row[k].id /\ HasCase(k))
  BY <1>1
<1>. QED BY <1>2, NumberQuiet

LEMMA NumberNext == TypeInv /\ NumberInv /\ [Next]_vars => NumberInv'
<1>. SUFFICES ASSUME TypeInv, NumberInv, [Next]_vars PROVE NumberInv'
  OBVIOUS
<1>rows. \A k \in Listings : row[k] = NoCase \/ HasCase(k)
  BY DEF TypeInv, TypeOK, HasCase, Case, Statuses
<1>idle. Idle.entity = NoCase
  BY DEF Idle
<1>1. ASSUME NEW a \in Actors, SaveSelect(a) PROVE NumberInv'
  <2>1. \A b \in Actors : actor'[b].entity \in {actor[b].entity, NoCase}
    BY <1>1 DEF SaveSelect, TypeInv, TypeOK, ActorRecord
  <2>2. UNCHANGED <<row, reached, given>>
    BY <1>1 DEF SaveSelect
  <2>. QED BY <2>1, <2>2, NumberStill
<1>2. ASSUME NEW a \in Actors, SaveUpdate(a) PROVE NumberInv'
  <2>. DEFINE l == actor[a].at
              new == Merged(row[l], actor[a].entity, actor[a].diff)
  <2>1. l \in Listings /\ actor[a].entity \in Case
    BY <1>2 DEF SaveUpdate, TypeInv, Holding
  <2>2. HasCase(l)
    BY <1>2, <2>1 DEF SaveUpdate, TypeInv, TypeOK, HasCase, Case, NoCase, Statuses
  <2>3. new.no = row[l].no /\ new.id = row[l].id /\ new.id \in Ids
    BY <2>1, <2>2, RowIsCase, MergedIsCase DEF TypeInv, Case
  <2>4. /\ row' = [row EXCEPT ![l] = new] /\ reached' = [reached EXCEPT ![new.id] = @ \cup {new.status}]
        /\ actor' = [actor EXCEPT ![a] = Idle] /\ given' = given
    BY <1>2 DEF SaveUpdate
  <2>. HIDE DEF l, new
  <2>5. \A k \in Listings : row'[k] = NoCase
           \/ (row'[k].no = row[k].no /\ row'[k].id = row[k].id /\ HasCase(k))
    <3>1. row'[l] = new /\ \A k \in Listings \ {l} : row'[k] = row[k]
      BY <2>1, <2>4 DEF TypeInv, TypeOK
    <3>2. new.no = row[l].no /\ new.id = row[l].id /\ HasCase(l)
      BY <2>2, <2>3
    <3>. QED BY <1>rows, <3>1, <3>2
  <2>6. \A b \in Actors : actor'[b].entity \in {actor[b].entity, NoCase}
    BY <1>idle, <2>4 DEF TypeInv, TypeOK
  <2>7. \A i \in Ids : reached[i] \subseteq reached'[i]
    BY <2>3, <2>4 DEF TypeInv, TypeOK
  <2>. QED BY <2>4, <2>5, <2>6, <2>7, NumberQuiet
<1>3. ASSUME NEW a \in Actors, SaveMisses(a) \/ InsertFails(a) PROVE NumberInv'
  <2>1. actor' = [actor EXCEPT ![a] = Idle] /\ UNCHANGED <<row, reached, given>>
    BY <1>3 DEF SaveMisses, InsertFails
  <2>2. \A b \in Actors : actor'[b].entity \in {actor[b].entity, NoCase}
    BY <1>idle, <2>1 DEF TypeInv, TypeOK
  <2>. QED BY <2>1, <2>2, NumberStill
<1>4. ASSUME NEW a \in Actors, TakeNumber(a) PROVE NumberInv'
  <2>1. PICK n \in NextNumbers :
          actor' = [actor EXCEPT ![a].pc = "inserting", ![a].entity = NewCase(n)]
    BY <1>4 DEF TakeNumber
  <2>2. UNCHANGED <<row, reached, given>>
    BY <1>4 DEF TakeNumber
  <2>3. n = 1 \/ \E i \in Ids : given[i] > 0 /\ given[i] + 1 = n
    <3>1. n = 1 \/ \E k \in Listings : HasCase(k) /\ row[k].no + 1 = n
      BY DEF NextNumbers, FirstNumber
    <3>2. ASSUME NEW k \in Listings, HasCase(k) PROVE row[k].id \in Ids /\ given[row[k].id] = row[k].no /\ row[k].no > 0
      BY <3>2, RowIsCase DEF NumberInv, Given, TypeInv, Case
    <3>. QED BY <3>1, <3>2
  <2>4. NewCase(n) \in Unsaved /\ NewCase(n).no = n
    BY NumberIsNatural DEF NewCase, Unsaved, TypeInv
  <2>5. actor'[a].entity = NewCase(n) /\ \A b \in Actors \ {a} : actor'[b] = actor[b]
    BY <2>1 DEF TypeInv, TypeOK, ActorRecord
  <2>6. Distinct'
    BY <2>2 DEF NumberInv, Distinct, HasCase
  <2>7. Given'
    <3>1. \A b \in Actors : actor'[b].entity \in Case => actor'[b] = actor[b]
      BY <2>4, <2>5, UnsavedIsNoCase
    <3>. QED BY <2>2, <3>1 DEF NumberInv, Given, HasCase
  <2>8. NumbersFollow'
    BY <2>2, <2>3, <2>4, <2>5 DEF NumberInv, NumbersFollow
  <2>. QED BY <2>6, <2>7, <2>8 DEF NumberInv
<1>5. ASSUME NEW a \in Actors, Insert(a) PROVE NumberInv'
  <2>. DEFINE l == actor[a].at
              e == actor[a].entity
  <2>0. e \in Case \cup Unsaved
    BY <1>5 DEF Insert, TypeInv, Holding
  <2>1. /\ l \in Listings /\ e.no \in Nat \ {0}
        /\ \A k \in Listings : HasCase(k) => row[k].no # e.no
    BY <1>5 DEF Insert, Collides, TypeInv, Holding, Case, Unsaved
  <2>2. PICK i \in IdsFor(e) : /\ row' = [row EXCEPT ![l] = [e EXCEPT !.id = i]]
                               /\ reached' = [reached EXCEPT ![i] = @ \cup {e.status}]
                               /\ given' = [given EXCEPT ![i] = e.no]
    BY <1>5 DEF Insert
  <2>3. actor' = [actor EXCEPT ![a] = Idle]
    BY <1>5 DEF Insert
  <2>. DEFINE new == [e EXCEPT !.id = i]
  <2>4. /\ i \in Ids /\ new \in Case /\ new.id = i /\ new.no = e.no
        /\ \/ e \in Case /\ i = e.id
           \/ e \in Unsaved /\ reached[i] = {} /\ e.status = "Open" /\ e.decision = "none"
    BY <2>0, InsertedIsCase
  <2>5. given[i] = e.no \/ (given[i] = 0 /\ e \in Unsaved)
    BY <2>4 DEF NumberInv, Given
  <2>6. e \in Unsaved => e.no = 1 \/ \E j \in Ids : given[j] > 0 /\ given[j] + 1 = e.no
    BY DEF NumberInv, NumbersFollow
  <2>. HIDE DEF l, e, new
  <2>7. row'[l] = new /\ \A k \in Listings \ {l} : row'[k] = row[k]
    BY <2>1, <2>2 DEF TypeInv, TypeOK, new
  <2>8. /\ given'[i] = e.no /\ \A j \in Ids \ {i} : given'[j] = given[j]
        /\ \A j \in Ids : given[j] \in Nat
        /\ \A j \in Ids : given[j] > 0 => given'[j] = given[j]
    BY <2>2, <2>4, <2>5 DEF TypeInv, TypeOK
  <2>9. \A b \in Actors : actor'[b].entity \in {actor[b].entity, NoCase}
    BY <1>idle, <2>3 DEF TypeInv, TypeOK
  <2>10. Distinct'
    <3>1. \A k \in Listings : ~HasCase(k) => row[k].no = 0
      BY <1>rows DEF NoCase
    <3>2. \A k \in Listings \ {l} : row'[k].no # e.no
      BY <2>1, <2>7, <3>1
    <3>. QED BY <2>4, <2>7, <3>2 DEF NumberInv, Distinct, HasCase
  <2>11. Given'
    <3>1. \A k \in Listings : HasCase(k)' => given'[row'[k].id] = row'[k].no
      <4>1. \A k \in Listings : HasCase(k) => row[k].id \in Ids /\ given[row[k].id] = row[k].no /\ row[k].no > 0
        BY RowIsCase DEF TypeInv, NumberInv, Given, Case
      <4>. QED BY <2>4, <2>7, <2>8, <4>1 DEF HasCase
    <3>2. \A b \in Actors : actor'[b].entity \in Case => given'[actor'[b].entity.id] = actor'[b].entity.no
      <4>1. \A b \in Actors : actor'[b].entity \in Case => actor'[b].entity = actor[b].entity
        BY <2>9, UnsavedIsNoCase
      <4>2. \A c \in Case : c.id \in Ids /\ c.no > 0
        BY DEF Case
      <4>. QED BY <2>8, <4>1, <4>2 DEF NumberInv, Given
    <3>3. \A j \in Ids : reached'[j] = {} => given'[j] = 0
      BY <2>2, <2>4, <2>8 DEF NumberInv, Given, TypeInv, TypeOK
    <3>4. \A j \in Ids : \A n \in 1..given[j] : \E k \in Ids : given'[k] = n
      BY <2>8 DEF NumberInv, Given
    <3>5. \A n \in 1..given'[i] : \E k \in Ids : given'[k] = n
      <4>1. CASE given[i] = e.no
        BY <2>8, <3>4, <2>4, <4>1
      <4>2. CASE e \in Unsaved
        <5>1. ASSUME NEW n \in 1..e.no PROVE n = e.no \/ \E j \in Ids : n \in 1..given[j]
          BY <2>1, <2>6, <2>8, <4>2, <5>1
        <5>. QED BY <2>4, <2>8, <3>4, <5>1
      <4>. QED BY <2>5, <4>1, <4>2
    <3>6. \A j \in Ids : \A n \in 1..given'[j] : \E k \in Ids : given'[k] = n
      BY <2>8, <3>4, <3>5
    <3>. QED BY <3>1, <3>2, <3>3, <3>6 DEF Given
  <2>12. NumbersFollow'
    <3>1. \A b \in Actors : actor'[b].entity \in Unsaved => actor'[b].entity = actor[b].entity
      BY <2>9 DEF NoCase, Unsaved
    <3>. QED BY <2>8, <3>1 DEF NumberInv, NumbersFollow
  <2>. QED BY <2>10, <2>11, <2>12 DEF NumberInv
<1>6. ASSUME NEW r \in Runs, StartRun(r) \/ EndRun(r) PROVE NumberInv'
  BY <1>6, NumberStill DEF StartRun, EndRun
<1>7. ASSUME NEW r \in Runs, RunFails(r) PROVE NumberInv'
  <2>1. \A b \in Actors : actor'[b].entity \in {actor[b].entity, NoCase}
    BY <1>7, <1>idle DEF RunFails, TypeInv, TypeOK
  <2>. QED BY <1>7, <2>1, NumberStill DEF RunFails
<1>8. ASSUME NEW r \in Runs, NEW l \in Listings, Dismiss(r, l) \/ Leave(r, l) PROVE NumberInv'
  BY <1>8, NumberStill DEF Dismiss, Leave
<1>9. ASSUME NEW r \in Runs, NEW l \in Listings, RecordExclude(r, l) \/ Reevaluate(r, l) PROVE NumberInv'
  <2>1. HasCase(l) /\ UNCHANGED <<row, reached, given>>
        /\ actor' = [actor EXCEPT ![r] = [pc |-> "saving", at |-> l, entity |-> row[l], diff |-> {}]]
    BY <1>9 DEF RecordExclude, Reevaluate
  <2>2. row[l] \in Case
    BY <2>1, RowIsCase DEF TypeInv
  <2>3. actor'[r].entity = row[l] /\ \A b \in Actors \ {r} : actor'[b] = actor[b]
    BY <2>1 DEF TypeInv, TypeOK, Actors
  <2>4. CopyOf(l, actor'[r].entity)
    BY <2>1, <2>2, <2>3 DEF CopyOf
  <2>. QED BY <2>1, <2>3, <2>4, NumberStill
<1>10. ASSUME NEW c \in Calls, NEW l \in Listings, CallEdit(c, l) PROVE NumberInv'
  <2>1. PICK e \in Edited(row[l]) :
          actor' = [actor EXCEPT ![c] = [pc |-> "saving", at |-> l, entity |-> e, diff |-> {}]]
    BY <1>10 DEF CallEdit
  <2>2. HasCase(l) /\ UNCHANGED <<row, reached, given>>
    BY <1>10 DEF CallEdit
  <2>3. e \in Case /\ e.id = row[l].id /\ e.no = row[l].no
    BY <2>2, RowIsCase, EditedIsCase DEF TypeInv
  <2>4. actor'[c].entity = e /\ \A b \in Actors \ {c} : actor'[b] = actor[b]
    BY <2>1 DEF TypeInv, TypeOK, Actors
  <2>5. CopyOf(l, actor'[c].entity)
    BY <2>2, <2>3, <2>4 DEF CopyOf
  <2>. QED BY <2>2, <2>4, <2>5, NumberStill
<1>11. ASSUME NEW a \in Actors, NEW l \in Listings,
              actor' = [actor EXCEPT ![a].pc = "numbering", ![a].at = l], UNCHANGED <<row, reached, given>>
       PROVE  NumberInv'
  <2>1. \A b \in Actors : actor'[b].entity \in {actor[b].entity, NoCase}
    BY <1>11 DEF TypeInv, TypeOK, ActorRecord
  <2>. QED BY <1>11, <2>1, NumberStill
<1>12. ASSUME NEW r \in Runs, NEW l \in Listings, Create(r, l) PROVE NumberInv'
  BY <1>11, <1>12 DEF Create, Actors
<1>13. ASSUME NEW c \in Calls, NEW l \in Listings, CallCreate(c, l) PROVE NumberInv'
  BY <1>11, <1>13 DEF CallCreate, Actors
<1>14. ASSUME DeleteSearch PROVE NumberInv'
  <2>1. \A k \in Listings : row'[k] = NoCase
           \/ (row'[k].no = row[k].no /\ row'[k].id = row[k].id /\ HasCase(k))
    <3>1. \A k \in Listings : row'[k] = row[k] \/ row'[k] = NoCase
      BY <1>14 DEF DeleteSearch
    <3>. QED BY <1>rows, <3>1
  <2>2. UNCHANGED <<reached, given, actor>>
    BY <1>14 DEF DeleteSearch
  <2>3. \A b \in Actors : actor'[b].entity \in {actor[b].entity, NoCase}
    BY <2>2
  <2>. QED BY <2>1, <2>2, <2>3, NumberQuiet
<1>15. CASE UNCHANGED vars
  BY <1>15, NumberStill DEF vars
<1>. QED BY <1>1, <1>2, <1>3, <1>4, <1>5, <1>6, <1>7, <1>8, <1>9, <1>10, <1>12, <1>13, <1>14, <1>15 DEF Next

\* The numbers of a day's cases differ, although a number is read long before the row is inserted and
\* deleted cases may be saved again; and below a number none is missing but those of deleted cases.
THEOREM NumbersKept == CasesSpec => []NumbersWithoutGap
<1>1. TypeInv /\ NumberInv => NumbersWithoutGap
  <2>. SUFFICES ASSUME TypeInv, NumberInv, NEW l \in Listings, HasCase(l)
                PROVE  /\ \A k \in Listings \ {l} : row[k].no # row[l].no
                       /\ \A n \in 1..row[l].no : \E i \in Ids : given[i] = n
    BY DEF NumbersWithoutGap
  <2>1. row[l].id \in Ids /\ given[row[l].id] = row[l].no
    BY RowIsCase DEF TypeInv, Case, NumberInv, Given
  <2>. QED BY <2>1 DEF NumberInv, Distinct, Given
<1>2. CasesInit => TypeInv /\ NumberInv
  BY TypeInvInit, NumberInit DEF CasesInit
<1>3. TypeInv /\ NumberInv /\ [CasesNext]_<<part, vars, outcomeVars, screenVars>> => TypeInv' /\ NumberInv'
  BY StepIs, TypeInvNext, NumberNext
<1>. QED BY <1>1, <1>2, <1>3, PTL DEF CasesSpec

-----------------------------------------------------------------------------
(* What a run covers *)

\* A listing a run found worth a case has one, or is the one the run is creating a case for.
Covering ==
  \A r \in Runs :
    /\ run[r].state = "over" => actor[r].pc = "idle"
    /\ run[r].state # "aborted" =>
         \A l \in run[r].worth :
           HasCase(l) \/ (actor[r].pc \in {"numbering", "inserting"} /\ actor[r].at = l)

LEMMA CoverInit == Init => Covering
BY DEF Init, Covering, NotStarted, Idle

LEMMA CoverNext == TypeInv /\ Covering /\ [Next]_vars => Covering'
<1>. SUFFICES ASSUME TypeInv, Covering, [Next]_vars PROVE Covering'
  OBVIOUS
<1>. USE DEF TypeInv, TypeOK, Actors
<1>1. ASSUME NEW a \in Actors, SaveSelect(a) PROVE Covering'
  BY <1>1 DEF SaveSelect, Covering, HasCase, ActorRecord
<1>2. ASSUME NEW a \in Actors, SaveUpdate(a) \/ Insert(a) PROVE Covering'
  <2>1. PICK l \in Listings, new \in Case :
          row' = [row EXCEPT ![l] = new] /\ l = actor[a].at
    <3>1. CASE Insert(a)
      <4>1. actor[a].at \in Listings /\ actor[a].entity \in Case \cup Unsaved
        BY <3>1 DEF Insert, Holding
      <4>2. PICK i \in IdsFor(actor[a].entity) :
              row' = [row EXCEPT ![actor[a].at] = [actor[a].entity EXCEPT !.id = i]]
        BY <3>1 DEF Insert
      <4>. QED BY <4>1, <4>2, InsertedIsCase
    <3>2. CASE SaveUpdate(a)
      <4>1. actor[a].at \in Listings /\ actor[a].entity \in Case
        BY <3>2 DEF SaveUpdate, Holding
      <4>2. HasCase(actor[a].at)
        BY <3>2, <4>1 DEF SaveUpdate, HasCase, Case, NoCase, Statuses
      <4>. QED BY <3>2, <4>1, <4>2, RowIsCase, MergedIsCase DEF SaveUpdate
    <3>. QED BY <1>2, <3>1, <3>2
  <2>2. actor' = [actor EXCEPT ![a] = Idle] /\ run' = run
    BY <1>2 DEF SaveUpdate, Insert
  <2>3. new.status # "none"
    BY DEF Case, Statuses
  <2>4. HasCase(l)' /\ \A k \in Listings : HasCase(k) => HasCase(k)'
    BY <2>1, <2>3 DEF HasCase
  <2>5. \A r \in Runs : run[r].worth \subseteq Listings
    BY DEF RunRecord
  <2>6. \A r \in Runs : r # a => actor'[r] = actor[r]
    BY <2>2
  <2>7. actor'[a].pc = "idle"
    BY <2>2 DEF Idle
  <2>8. Covering'
    <3>. SUFFICES ASSUME NEW q \in Runs
                  PROVE  /\ run'[q].state = "over" => actor'[q].pc = "idle"
                         /\ run'[q].state # "aborted" =>
                              \A k \in run'[q].worth :
                                HasCase(k)' \/ (actor'[q].pc \in {"numbering", "inserting"} /\ actor'[q].at = k)
      BY DEF Covering
    <3>1. CASE q = a
      <4>1. run[a].state # "aborted" => \A k \in run[a].worth : HasCase(k) \/ k = l
        BY <3>1, <2>1 DEF Covering
      <4>2. \A k \in run[a].worth : k \in Listings
        BY <3>1, <2>5
      <4>3. run[a].state # "aborted" => \A k \in run[a].worth : HasCase(k)'
        BY <4>1, <4>2, <2>4
      <4>. QED BY <3>1, <4>3, <2>2, <2>7
    <3>2. CASE q # a
      BY <3>2, <2>2, <2>4, <2>5, <2>6 DEF Covering
    <3>. QED BY <3>1, <3>2
  <2>. QED BY <2>8
<1>3. ASSUME NEW a \in Actors, TakeNumber(a) PROVE Covering'
  BY <1>3 DEF TakeNumber, Covering, HasCase, ActorRecord
<1>4. ASSUME NEW a \in Actors, InsertFails(a) PROVE Covering'
  BY <1>4, InvestigationAssumption DEF InsertFails, Abort, Covering, HasCase, Idle, RunRecord
<1>5. ASSUME NEW r \in Runs, StartRun(r) PROVE Covering'
  BY <1>5 DEF StartRun, Covering, HasCase, RunRecord
<1>6. ASSUME NEW r \in Runs, EndRun(r) PROVE Covering'
  BY <1>6 DEF EndRun, Covering, HasCase, RunRecord
<1>7. ASSUME NEW r \in Runs, RunFails(r) PROVE Covering'
  BY <1>7 DEF RunFails, Abort, Covering, HasCase, RunRecord, Idle
<1>8. ASSUME NEW r \in Runs, NEW l \in Listings, Dismiss(r, l) PROVE Covering'
  BY <1>8 DEF Dismiss, AtListing, Covering, HasCase, RunRecord
<1>9. ASSUME NEW r \in Runs, NEW l \in Listings, RecordExclude(r, l) PROVE Covering'
  <2>1. actor[r].pc = "idle" /\ actor'[r].pc = "saving" /\ row' = row
        /\ \A q \in Runs \ {r} : actor'[q] = actor[q]
    BY <1>9 DEF RecordExclude, AtListing
  <2>2. run[r].state = "going" /\ run'[r].state = "going" /\ run'[r].worth = run[r].worth
        /\ \A q \in Runs \ {r} : run'[q] = run[q]
    BY <1>9 DEF RecordExclude, AtListing, RunRecord
  <2>3. \A k \in Listings : HasCase(k)' <=> HasCase(k)
    BY <2>1 DEF HasCase
  <2>4. \A q \in Runs : run[q].worth \subseteq Listings
    BY DEF RunRecord
  <2>5. Covering'
    <3>. SUFFICES ASSUME NEW q \in Runs
                  PROVE  /\ run'[q].state = "over" => actor'[q].pc = "idle"
                         /\ run'[q].state # "aborted" =>
                              \A k \in run'[q].worth :
                                HasCase(k)' \/ (actor'[q].pc \in {"numbering", "inserting"} /\ actor'[q].at = k)
      BY DEF Covering
    <3>1. CASE q = r
      <4>1. \A k \in run[r].worth : HasCase(k)
        BY <2>1, <2>2 DEF Covering
      <4>2. \A k \in run[r].worth : k \in Listings
        BY <2>4
      <4>3. \A k \in run[r].worth : HasCase(k)'
        BY <4>1, <4>2, <2>3
      <4>. QED BY <3>1, <4>3, <2>2
    <3>2. CASE q # r
      BY <3>2, <2>1, <2>2, <2>3, <2>4 DEF Covering
    <3>. QED BY <3>1, <3>2
  <2>. QED BY <2>5
<1>10. ASSUME NEW r \in Runs, NEW l \in Listings, Leave(r, l) PROVE Covering'
  BY <1>10 DEF Leave, Worth, AtListing, Covering, HasCase, RunRecord
<1>11. ASSUME NEW r \in Runs, NEW l \in Listings, Reevaluate(r, l) PROVE Covering'
  BY <1>11 DEF Reevaluate, Worth, AtListing, Covering, HasCase, RunRecord
<1>12. ASSUME NEW r \in Runs, NEW l \in Listings, Create(r, l) PROVE Covering'
  BY <1>12 DEF Create, Worth, AtListing, Covering, HasCase, RunRecord, ActorRecord
<1>13. ASSUME NEW c \in Calls, NEW l \in Listings, CallEdit(c, l) \/ CallCreate(c, l) PROVE Covering'
  BY <1>13, InvestigationAssumption DEF CallEdit, CallCreate, Covering, HasCase, ActorRecord
<1>14. ASSUME NEW a \in Actors, SaveMisses(a) PROVE Covering'
  BY <1>14 DEF SaveMisses, Covering, HasCase, Idle
<1>15. ASSUME DeleteSearch PROVE Covering'
  <2>1. PICK ls : /\ row' = [l \in Listings |-> IF l \in ls THEN NoCase ELSE row[l]]
                  /\ run' = [r \in Runs |-> [run[r] EXCEPT !.worth = @ \ ls]]
                  /\ actor' = actor
    BY <1>15 DEF DeleteSearch
  <2>2. \A r \in Runs : run[r] \in RunRecord
    OBVIOUS
  <2>3. \A r \in Runs : run'[r].state = run[r].state /\ run'[r].worth = run[r].worth \ ls
                        /\ run[r].worth \subseteq Listings
    BY <2>1, <2>2 DEF RunRecord
  <2>4. \A l \in Listings \ ls : HasCase(l) => HasCase(l)'
    BY <2>1 DEF HasCase
  <2>. QED BY <2>1, <2>3, <2>4 DEF Covering
<1>16. CASE UNCHANGED vars
  BY <1>16 DEF vars, Covering, HasCase
<1>. QED BY <1>1, <1>2, <1>3, <1>4, <1>5, <1>6, <1>7, <1>8, <1>9, <1>10, <1>11, <1>12, <1>13,
            <1>14, <1>15, <1>16 DEF Next

\* A run that ends without an error has left a case for every listing it found worth one, unless the
\* case was deleted since, for any number of listings, runs, operators and deletions.
THEOREM RunsCover == CasesSpec => []RunCovers
<1>1. TypeInv /\ Covering => RunCovers
  BY DEF TypeInv, TypeOK, Covering, RunCovers
<1>2. CasesInit => TypeInv /\ Covering
  BY TypeInvInit, CoverInit DEF CasesInit
<1>3. TypeInv /\ Covering /\ [CasesNext]_<<part, vars, outcomeVars, screenVars>> => TypeInv' /\ Covering'
  BY StepIs, TypeInvNext, CoverNext
<1>. QED BY <1>1, <1>2, <1>3, PTL DEF CasesSpec

-----------------------------------------------------------------------------
(* What a job reports *)

Going == {"match", "persist", "each", "insert"}
LoopRecord == [pc : Going \cup {"idle", "next", "over"}, todo : SUBSET Listings,
               at : Histories \cup {"none"}, new : Listings \cup {"none"}, score : Int]
OutcomeCase == [job : {"none", "job"}, score : Int, open : BOOLEAN]

OutcomeTypes ==
  /\ success \subseteq Histories /\ targets \subseteq success
  /\ links \in [Histories \X Listings -> [similarity : Int, ai : Int]]
  /\ case \in [Listings -> OutcomeCase] /\ loop \in [Histories \cup {"job"} -> LoopRecord]
  /\ matched \in [Listings -> Int] /\ told \in Int /\ faults \in Nat
  /\ judged \subseteq Listings /\ mine \subseteq Listings

\* A case has a score; one that is about to be opened is for a listing, with a score.
Scored == \A l \in Listings : case[l].score = -1 => ~Outcome!HasCase(l)
ToInsert == \A a \in Histories \cup {"job"} :
              /\ loop[a].pc = "insert" => loop[a].new \in Listings /\ loop[a].score \in Nat
              /\ loop[a].pc \in Going => loop[a].at \in Histories

\* A listing of a history the job has taken up has its case if it is worth one, or its turn will come.
Settled(h, l) == Outcome!Worth(Outcome!Score(links[<<h, l>>])) => Outcome!HasCase(l)
Turn(l) == l \in loop["job"].todo \/ (loop["job"].pc = "insert" /\ l = loop["job"].new)
ToCome(h, l) == loop["job"].pc \in Going /\ loop["job"].at = h /\ Turn(l)
Followed(h) == Cardinality(Outcome!Linked(h)) <= Batch =>
                 \A l \in Outcome!Linked(h) : Settled(h, l) \/ ToCome(h, l)

\* The scores in memory are those that are stored, or will be.
InMemory ==
  \A l \in loop["job"].todo :
    /\ loop["job"].pc \in {"match", "each", "insert"} => matched[l] = links[<<loop["job"].at, l>>].ai
    /\ loop["job"].pc = "persist" /\ matched[l] = -1 => links[<<loop["job"].at, l>>].ai = -1

Judgement == \A l \in judged : Outcome!HasCase(l) \/ (loop["job"].pc = "insert" /\ l = loop["job"].new)

Clean == faults = 0 => (\A h \in success \ targets : Followed(h)) /\ InMemory /\ Judgement

Counts  == \A l \in mine : case[l].job = "job"
Reports == told >= 0 => loop["job"].pc = "over" /\ targets = {} /\ told >= Cardinality(mine)

OutcomeInv == OutcomeTypes /\ Scored /\ ToInsert /\ Clean /\ Counts /\ Reports

HIDE InvestigationAssumption
USE CasesAssumption DEF CasesAssumption, Outcome!OutcomeAssumption

\* JobOutcome counts as we do.
LEMMA OutcomeCounts == ASSUME NEW S PROVE /\ Outcome!IsFiniteSet(S) <=> IsFiniteSet(S)
                                          /\ Outcome!Cardinality(S) = Cardinality(S)
<1>1. Outcome!IsFiniteSet(S) <=> IsFiniteSet(S)
  BY DEF Outcome!IsFiniteSet, IsFiniteSet
<1>2. Outcome!Cardinality(S) = Cardinality(S)
  BY Zenon DEF Outcome!Cardinality, Cardinality
<1> QED
  BY <1>1, <1>2

LEMMA ListingsFinite == IsFiniteSet(Listings)
  BY OutcomeCounts

LEMMA JobIsActor == "job" \in Histories \cup {"job"} /\ "job" \notin Histories
                    /\ Outcome!Actors = Histories \cup {"job"}
  BY DEF Outcome!Job, Outcome!Actors

LEMMA OutcomeInit == ASSUME Outcome!Init PROVE OutcomeInv
<1>1. /\ success \subseteq Histories /\ targets = success /\ told = -1 /\ faults = 0
      /\ judged = {} /\ mine = {}
      /\ loop \in [Histories \cup {"job"} -> LoopRecord]
      /\ \A a \in Histories \cup {"job"} : loop[a].pc \in {"idle", "next"} /\ loop[a].todo = {}
      /\ matched \in [Listings -> Int]
  BY DEF Outcome!Init, Outcome!Idle, Outcome!Actors, Outcome!Job, Outcome!Missing, LoopRecord, Going
<1>2. links \in [Histories \X Listings -> [similarity : Int, ai : Int]]
  BY DEF Outcome!Init, Outcome!Missing
<1>3. case \in [Listings -> OutcomeCase] /\ Scored
  BY DEF Outcome!Init, Outcome!NoCase, Outcome!Missing, OutcomeCase, Scored, Outcome!HasCase
<1> QED
  <2>1. OutcomeTypes
    BY <1>1, <1>2, <1>3 DEF OutcomeTypes
  <2>2. ToInsert
    BY <1>1 DEF ToInsert, Going
  <2>3. Clean
    BY <1>1, JobIsActor DEF Clean, InMemory, Judgement
  <2> QED BY <1>1, <1>3, <2>1, <2>2, <2>3 DEF OutcomeInv, Counts, Reports

-----------------------------------------------------------------------------
(* The job's loop *)

\* One loop goes on, as another record.
LEMMA LoopMoves ==
  ASSUME OutcomeInv, NEW a \in Histories \cup {"job"}, NEW r \in LoopRecord, loop' = [loop EXCEPT ![a] = r],
         r.pc = "insert" => r.new \in Listings /\ r.score \in Nat,
         r.pc \in Going => r.at \in Histories
  PROVE  /\ loop' \in [Histories \cup {"job"} -> LoopRecord] /\ ToInsert' /\ loop'[a] = r
         /\ \A b \in (Histories \cup {"job"}) \ {a} : loop'[b] = loop[b]
  BY DEF OutcomeInv, OutcomeTypes, ToInsert

\* A batch of no more listings than the limit is all of them.
LEMMA BatchIsAll ==
  ASSUME NEW h \in Histories, NEW b \in Outcome!Batches(h), Cardinality(Outcome!Linked(h)) <= Batch
  PROVE  b = Outcome!Linked(h)
<1>1. IsFiniteSet(Outcome!Linked(h))
  BY ListingsFinite, FS_Subset DEF Outcome!Linked
<1>2. b \in SUBSET Outcome!Linked(h) /\ Cardinality(b) = Cardinality(Outcome!Linked(h))
  BY OutcomeCounts DEF Outcome!Batches
<1> QED
  BY <1>1, <1>2, FS_Subset

LEMMA NextHistoryKeeps == ASSUME OutcomeInv, NEW h \in Histories, Outcome!NextHistory(h) PROVE OutcomeInv'
<1>1. /\ loop["job"].pc = "next" /\ h \in targets /\ targets' = targets \ {h}
      /\ UNCHANGED <<success, links, case, told, faults, judged, mine>>
  BY DEF Outcome!NextHistory, Outcome!Job
<1>2. PICK b \in Outcome!Batches(h) :
         /\ loop' = [loop EXCEPT !["job"] = [Outcome!Idle EXCEPT !.at = h, !.todo = b,
                                   !.pc = IF canMatch /\ b # {} THEN "match" ELSE "each"]]
         /\ matched' = [l \in Listings |-> IF l \in b THEN links[<<h, l>>].ai ELSE -1]
  BY DEF Outcome!NextHistory, Outcome!Job, Outcome!Missing
<1>3. b \subseteq Outcome!Linked(h) /\ b \subseteq Listings
  BY DEF Outcome!Batches, Outcome!Linked
<1>4. PICK r : r = [Outcome!Idle EXCEPT !.at = h, !.todo = b, !.pc = IF canMatch /\ b # {} THEN "match" ELSE "each"]
  OBVIOUS
<1>pc. PICK pc \in {"match", "each"} : pc = IF canMatch /\ b # {} THEN "match" ELSE "each"
  OBVIOUS
<1>5. r \in LoopRecord /\ r.pc \in {"match", "each"} /\ r.at = h /\ r.todo = b
  <2>1. r = [pc |-> pc, todo |-> b, at |-> h, new |-> "none", score |-> -1]
    BY <1>4, <1>pc DEF Outcome!Idle, Outcome!Missing
  <2> QED BY <1>3, <2>1 DEF LoopRecord, Going
<1>6. loop' \in [Histories \cup {"job"} -> LoopRecord] /\ ToInsert' /\ loop'["job"] = r
  BY <1>2, <1>4, <1>5, LoopMoves
<1>7. matched' \in [Listings -> Int] /\ \A l \in b : matched'[l] = links[<<h, l>>].ai
  BY <1>2, <1>3 DEF OutcomeInv, OutcomeTypes
<1>8. OutcomeTypes'
  BY <1>1, <1>6, <1>7 DEF OutcomeInv, OutcomeTypes
<1>9. Clean'
  <2>1. SUFFICES ASSUME faults = 0 PROVE (\A g \in success' \ targets' : Followed(g)') /\ InMemory' /\ Judgement'
    BY <1>1 DEF Clean
  <2>2. InMemory'
    BY <1>1, <1>5, <1>6, <1>7 DEF InMemory
  <2>3. Judgement'
    BY <1>1, <2>1 DEF OutcomeInv, Clean, Judgement, Outcome!HasCase
  <2>4. ASSUME NEW g \in success' \ targets', Cardinality(Outcome!Linked(g)) <= Batch,
               NEW l \in Outcome!Linked(g)
        PROVE  Settled(g, l)' \/ ToCome(g, l)'
    <3>1. CASE g = h
      <4>1. l \in b
        BY <2>4, <3>1, BatchIsAll
      <4> QED BY <1>5, <1>6, <3>1, <4>1 DEF ToCome, Turn, Going
    <3>2. CASE g # h
      <4>1. Settled(g, l) \/ ToCome(g, l)
        BY <1>1, <2>1, <2>4, <3>2 DEF OutcomeInv, Clean, Followed
      <4>2. Settled(g, l)
        BY <1>1, <4>1 DEF ToCome, Going
      <4> QED BY <1>1, <4>2 DEF Settled, Outcome!HasCase
    <3> QED BY <3>1, <3>2
  <2>5. \A g : Outcome!Linked(g)' = Outcome!Linked(g)
    BY <1>1 DEF Outcome!Linked
  <2> QED BY <2>2, <2>3, <2>4, <2>5 DEF Followed
<1>10. Scored' /\ Counts' /\ Reports'
  BY <1>1 DEF OutcomeInv, OutcomeTypes, Scored, Counts, Reports, Outcome!HasCase
<1> QED
  BY <1>6, <1>8, <1>9, <1>10 DEF OutcomeInv

\* A step of the job's loop over one history, which leaves the cases alone.
LEMMA JobStep ==
  ASSUME OutcomeInv, UNCHANGED <<success, targets, case, told, judged, mine>>,
         loop["job"].pc \in Going, loop["job"].pc # "insert",
         NEW pc \in {"persist", "each"}, loop' = [loop EXCEPT !["job"].pc = pc],
         links' \in [Histories \X Listings -> [similarity : Int, ai : Int]],
         matched' \in [Listings -> Int], faults' \in Nat,
         faults' = 0 => faults = 0,
         \A h \in Histories, l \in Listings :
            /\ links'[<<h, l>>].similarity = links[<<h, l>>].similarity
            /\ (h = loop["job"].at /\ l \in loop["job"].todo) \/ links'[<<h, l>>] = links[<<h, l>>],
         faults' = 0 => InMemory'
  PROVE  OutcomeInv'
<1>1. PICK r : r = [loop["job"] EXCEPT !.pc = pc]
  OBVIOUS
<1>2. r \in LoopRecord /\ r.pc = pc /\ r.at = loop["job"].at /\ r.todo = loop["job"].todo
      /\ r.at \in Histories
  <2>1. loop["job"] \in LoopRecord /\ loop["job"].at \in Histories
    BY JobIsActor DEF OutcomeInv, OutcomeTypes, ToInsert
  <2> QED BY <1>1, <2>1 DEF LoopRecord, Going
<1>3. loop' = [loop EXCEPT !["job"] = r]
  BY <1>1
<1>4. loop' \in [Histories \cup {"job"} -> LoopRecord] /\ ToInsert' /\ loop'["job"] = r
  BY <1>2, <1>3, LoopMoves, JobIsActor, ZenonT(40)
<1>5. OutcomeTypes'
  BY <1>4 DEF OutcomeInv, OutcomeTypes
<1>6. ASSUME faults' = 0 PROVE (\A h \in success' \ targets' : Followed(h)') /\ Judgement'
  <2>1. Judgement'
    BY <1>6 DEF OutcomeInv, Clean, Judgement, Outcome!HasCase
  <2>2. \A h \in Histories : Outcome!Linked(h)' = Outcome!Linked(h)
    BY DEF Outcome!Linked
  <2>3. ASSUME NEW h \in success \ targets, Cardinality(Outcome!Linked(h)) <= Batch, NEW l \in Outcome!Linked(h)
        PROVE  Settled(h, l)' \/ ToCome(h, l)'
    <3>1. Settled(h, l) \/ ToCome(h, l)
      BY <1>6, <2>3 DEF OutcomeInv, Clean, Followed
    <3>2. CASE ToCome(h, l)
      BY <1>2, <1>4, <3>2 DEF ToCome, Turn, Going
    <3>3. CASE ~ToCome(h, l)
      <4>1. ~(h = loop["job"].at /\ l \in loop["job"].todo)
        BY <3>3 DEF ToCome, Turn
      <4>2. links'[<<h, l>>] = links[<<h, l>>]
        BY <4>1 DEF Outcome!Linked, OutcomeInv, OutcomeTypes
      <4> QED BY <3>1, <3>3, <4>2 DEF Settled, Outcome!HasCase
    <3> QED BY <3>2, <3>3
  <2> QED BY <2>1, <2>2, <2>3 DEF Followed, OutcomeInv, OutcomeTypes
<1>7. Scored' /\ Counts' /\ Reports'
  BY DEF OutcomeInv, Scored, Counts, Reports, Outcome!HasCase, Going
<1> QED
  BY <1>4, <1>5, <1>6, <1>7 DEF OutcomeInv, Clean

LEMMA MatchKeeps == ASSUME OutcomeInv, Outcome!Match PROVE OutcomeInv'
<1>1. /\ UNCHANGED <<success, links, case, targets, told, faults, judged, mine>> /\ loop["job"].pc = "match"
      /\ loop' = [loop EXCEPT !["job"].pc = "persist"]
  BY DEF Outcome!Match, Outcome!Job, Outcome!At
<1>2. PICK got \in [loop["job"].todo -> AiScores \cup {-1}] :
         matched' = [l \in Listings |-> IF l \in loop["job"].todo /\ got[l] # -1 THEN got[l] ELSE matched[l]]
  BY DEF Outcome!Match, Outcome!Job, Outcome!Missing
<1>3. matched' \in [Listings -> Int] /\ \A l \in Listings : matched'[l] = -1 => matched[l] = -1
  <2>1. \A l \in loop["job"].todo : got[l] \in Int
    <3>1. \A l \in loop["job"].todo : got[l] \in AiScores \cup {-1}
      OBVIOUS
    <3>2. AiScores \cup {-1} \subseteq Int
      OBVIOUS
    <3> QED BY <3>1, <3>2
  <2>2. matched \in [Listings -> Int]
    BY DEF OutcomeInv, OutcomeTypes
  <2> QED BY <1>2, <2>1, <2>2
<1>4. loop["job"] \in LoopRecord /\ loop["job"].todo \subseteq Listings
  BY JobIsActor DEF OutcomeInv, OutcomeTypes, LoopRecord
<1>5. loop'["job"].pc = "persist" /\ loop'["job"].todo = loop["job"].todo /\ loop'["job"].at = loop["job"].at
  BY <1>1, <1>4, JobIsActor DEF OutcomeInv, OutcomeTypes, LoopRecord
<1>6. ASSUME faults = 0 PROVE InMemory'
  BY <1>1, <1>3, <1>4, <1>5, <1>6 DEF OutcomeInv, Clean, InMemory
<1>7. /\ links' \in [Histories \X Listings -> [similarity : Int, ai : Int]] /\ faults' \in Nat
      /\ loop["job"].pc \in Going /\ loop["job"].pc # "insert"
  BY <1>1 DEF OutcomeInv, OutcomeTypes, Going
<1> QED
  BY <1>1, <1>3, <1>6, <1>7, JobStep

LEMMA FaultIs == ASSUME OutcomeInv, Outcome!Fault PROVE faults' \in Nat /\ faults' # 0
  BY DEF Outcome!Fault, OutcomeInv, OutcomeTypes

LEMMA MatchFailsKeeps == ASSUME OutcomeInv, Outcome!MatchFails PROVE OutcomeInv'
<1>1. /\ UNCHANGED <<success, links, case, targets, matched, told, judged, mine>> /\ loop["job"].pc = "match"
      /\ loop' = [loop EXCEPT !["job"].pc = "each"] /\ faults' \in Nat /\ faults' # 0
  BY FaultIs DEF Outcome!MatchFails, Outcome!Job, Outcome!At
<1>2. /\ links' \in [Histories \X Listings -> [similarity : Int, ai : Int]] /\ matched' \in [Listings -> Int]
      /\ loop["job"].pc \in Going /\ loop["job"].pc # "insert"
  BY <1>1 DEF OutcomeInv, OutcomeTypes, Going
<1> QED
  BY <1>1, <1>2, JobStep

\* What is stored: the scores in memory of some listings of one history.
LEMMA StoredIs ==
  ASSUME OutcomeInv, NEW h \in Histories, NEW ls \in SUBSET Listings, links' = Outcome!Stored(h, ls)
  PROVE  /\ links' \in [Histories \X Listings -> [similarity : Int, ai : Int]]
         /\ \A g \in Histories, l \in Listings :
              /\ links'[<<g, l>>].similarity = links[<<g, l>>].similarity
              /\ (g = h /\ l \in ls) \/ links'[<<g, l>>] = links[<<g, l>>]
         /\ \A l \in ls : /\ matched[l] # -1 => links'[<<h, l>>].ai = matched[l]
                          /\ matched[l] = -1 => links'[<<h, l>>] = links[<<h, l>>]
<1>1. links \in [Histories \X Listings -> [similarity : Int, ai : Int]] /\ matched \in [Listings -> Int]
  BY DEF OutcomeInv, OutcomeTypes
<1>2. links' = [p \in Histories \X Listings |->
                  IF p[1] = h /\ p[2] \in ls /\ matched[p[2]] # -1
                  THEN [links[p] EXCEPT !.ai = matched[p[2]]] ELSE links[p]]
  BY <1>1 DEF Outcome!Stored, Outcome!Missing
<1>3. ASSUME NEW p \in Histories \X Listings
      PROVE  /\ p[1] \in Histories /\ p[2] \in Listings
             /\ links'[p] = IF p[1] = h /\ p[2] \in ls /\ matched[p[2]] # -1
                            THEN [links[p] EXCEPT !.ai = matched[p[2]]] ELSE links[p]
             /\ links'[p] \in [similarity : Int, ai : Int] /\ links'[p].similarity = links[p].similarity
  <2>1. links[p] \in [similarity : Int, ai : Int] /\ p[1] \in Histories /\ p[2] \in Listings
        /\ matched[p[2]] \in Int
    BY <1>1
  <2>2. links'[p] = IF p[1] = h /\ p[2] \in ls /\ matched[p[2]] # -1
                    THEN [links[p] EXCEPT !.ai = matched[p[2]]] ELSE links[p]
    BY <1>2
  <2> QED BY <2>1, <2>2
<1>4. links' \in [Histories \X Listings -> [similarity : Int, ai : Int]]
  BY <1>2, <1>3
<1>5. ASSUME NEW g \in Histories, NEW l \in Listings
      PROVE  /\ links'[<<g, l>>].similarity = links[<<g, l>>].similarity
             /\ (g = h /\ l \in ls) \/ links'[<<g, l>>] = links[<<g, l>>]
             /\ g = h /\ l \in ls /\ matched[l] # -1 => links'[<<g, l>>].ai = matched[l]
             /\ g = h /\ l \in ls /\ matched[l] = -1 => links'[<<g, l>>] = links[<<g, l>>]
  <2>1. PICK p \in Histories \X Listings : p = <<g, l>>
    OBVIOUS
  <2>2. p[1] = g /\ p[2] = l /\ links[p] \in [similarity : Int, ai : Int]
    BY <1>1, <2>1
  <2> QED BY <1>3, <2>1, <2>2
<1> QED
  BY <1>4, <1>5

LEMMA PersistKeeps ==
  ASSUME OutcomeInv, Outcome!PersistMatchingScores \/ Outcome!PersistFails
  PROVE  OutcomeInv'
<1>1. /\ UNCHANGED <<success, case, targets, matched, told, judged, mine>> /\ loop["job"].pc = "persist"
      /\ loop' = [loop EXCEPT !["job"].pc = "each"]
  BY DEF Outcome!PersistMatchingScores, Outcome!PersistFails, Outcome!Job, Outcome!At
<1>2. loop["job"] \in LoopRecord /\ loop["job"].todo \subseteq Listings /\ loop["job"].at \in Histories
  BY <1>1, JobIsActor DEF OutcomeInv, OutcomeTypes, LoopRecord, ToInsert, Going
<1>3. PICK ls \in SUBSET loop["job"].todo :
         /\ links' = Outcome!Stored(loop["job"].at, ls) /\ faults' \in Nat
         /\ faults' = 0 => faults = 0 /\ ls = loop["job"].todo
  <2>1. CASE Outcome!PersistMatchingScores
    BY <2>1 DEF Outcome!PersistMatchingScores, Outcome!Job, OutcomeInv, OutcomeTypes
  <2>2. CASE Outcome!PersistFails
    BY <2>2, FaultIs DEF Outcome!PersistFails, Outcome!Job
  <2> QED BY <2>1, <2>2
<1>4. /\ links' \in [Histories \X Listings -> [similarity : Int, ai : Int]]
      /\ \A g \in Histories, l \in Listings :
              /\ links'[<<g, l>>].similarity = links[<<g, l>>].similarity
              /\ (g = loop["job"].at /\ l \in ls) \/ links'[<<g, l>>] = links[<<g, l>>]
      /\ \A l \in ls : /\ matched[l] # -1 => links'[<<loop["job"].at, l>>].ai = matched[l]
                       /\ matched[l] = -1 => links'[<<loop["job"].at, l>>] = links[<<loop["job"].at, l>>]
  <2>1. PICK h \in Histories : h = loop["job"].at
    BY <1>2
  <2>2. ls \in SUBSET Listings /\ links' = Outcome!Stored(h, ls)
    BY <1>2, <1>3, <2>1
  <2> QED BY <2>1, <2>2, StoredIs, ZenonT(40)
<1>5. loop'["job"].pc = "each" /\ loop'["job"].todo = loop["job"].todo /\ loop'["job"].at = loop["job"].at
  BY <1>1, <1>2, JobIsActor DEF OutcomeInv, OutcomeTypes, LoopRecord
<1>6. ASSUME faults' = 0 PROVE InMemory'
  <2>1. faults = 0 /\ ls = loop["job"].todo /\ InMemory
    BY <1>3, <1>6 DEF OutcomeInv, Clean
  <2>2. ASSUME NEW l \in ls PROVE matched[l] = links'[<<loop["job"].at, l>>].ai
    BY <1>1, <1>4, <2>1 DEF InMemory
  <2> QED BY <1>1, <1>5, <2>1, <2>2 DEF InMemory
<1>7. matched' \in [Listings -> Int] /\ loop["job"].pc \in Going /\ loop["job"].pc # "insert"
  BY <1>1 DEF OutcomeInv, OutcomeTypes, Going
<1> QED
  BY <1>1, <1>3, <1>4, <1>6, <1>7, JobStep

\* What the end of the loop over a history, and the report, leave: the loop is at none.
LEMMA LoopEnds ==
  ASSUME OutcomeInv, UNCHANGED <<success, links, targets, case, faults, judged, mine>>,
         ~(loop["job"].pc \in Going /\ loop["job"].todo # {}), loop["job"].pc # "insert",
         NEW r \in LoopRecord, r.pc \in {"next", "over"}, loop' = [loop EXCEPT !["job"] = r],
         matched' \in [Listings -> Int], told' \in Int,
         told' >= 0 => r.pc = "over" /\ targets = {} /\ told' >= Cardinality(mine)
  PROVE  OutcomeInv'
<1>1. loop' \in [Histories \cup {"job"} -> LoopRecord] /\ ToInsert' /\ loop'["job"] = r
  BY LoopMoves, JobIsActor DEF Going
<1>2. OutcomeTypes' /\ Scored' /\ Counts' /\ Reports'
  BY <1>1 DEF OutcomeInv, OutcomeTypes, Scored, Counts, Reports, Outcome!HasCase
<1>3. ASSUME faults = 0 PROVE (\A h \in success' \ targets' : Followed(h)') /\ InMemory' /\ Judgement'
  <2>1. InMemory'
    BY <1>1 DEF InMemory
  <2>2. Judgement'
    BY <1>3 DEF OutcomeInv, Clean, Judgement, Outcome!HasCase
  <2>3. \A h : Outcome!Linked(h)' = Outcome!Linked(h)
    BY DEF Outcome!Linked
  <2>4. ASSUME NEW h \in success \ targets, Cardinality(Outcome!Linked(h)) <= Batch, NEW l \in Outcome!Linked(h)
        PROVE  Settled(h, l)'
    <3>1. Settled(h, l) \/ ToCome(h, l)
      BY <1>3, <2>4 DEF OutcomeInv, Clean, Followed
    <3>2. Settled(h, l)
      BY <3>1 DEF ToCome, Turn
    <3> QED BY <3>2 DEF Settled, Outcome!HasCase
  <2> QED BY <2>1, <2>2, <2>3, <2>4 DEF Followed
<1> QED
  BY <1>1, <1>2, <1>3 DEF OutcomeInv, Clean

LEMMA HistoryDoneKeeps == ASSUME OutcomeInv, Outcome!HistoryDone PROVE OutcomeInv'
<1>1. /\ UNCHANGED <<success, links, case, targets, told, faults, judged, mine>>
      /\ loop["job"].pc = "each" /\ loop["job"].todo = {}
      /\ loop' = [loop EXCEPT !["job"] = [Outcome!Idle EXCEPT !.pc = "next"]]
      /\ matched' \in [Listings -> Int]
  BY DEF Outcome!HistoryDone, Outcome!Job, Outcome!Missing
<1>2. PICK r : r = [Outcome!Idle EXCEPT !.pc = "next"]
  OBVIOUS
<1>3. r \in LoopRecord /\ r.pc = "next"
  <2>1. r = [pc |-> "next", todo |-> {}, at |-> "none", new |-> "none", score |-> -1]
    BY <1>2 DEF Outcome!Idle, Outcome!Missing
  <2> QED BY <2>1 DEF LoopRecord, Going
<1>4. told' \in Int /\ ~(told' >= 0)
  BY <1>1 DEF OutcomeInv, OutcomeTypes, Reports
<1> QED
  BY <1>1, <1>2, <1>3, <1>4, LoopEnds

\* The count covers the cases the job wrote, one for each listing.
LEMMA ReportKeeps == ASSUME OutcomeInv, Outcome!Report PROVE OutcomeInv'
<1>1. /\ UNCHANGED <<success, links, case, targets, matched, faults, judged, mine>>
      /\ loop["job"].pc = "next" /\ targets = {} /\ told' = Cardinality(Outcome!Counted)
      /\ loop' = [loop EXCEPT !["job"].pc = "over"]
  BY OutcomeCounts DEF Outcome!Report, Outcome!Reportable, Outcome!Job, Outcome!At
<1>2. loop["job"] \in LoopRecord
  BY JobIsActor DEF OutcomeInv, OutcomeTypes
<1>4. IsFiniteSet(Outcome!Counted) /\ mine \subseteq Outcome!Counted
  <2>1. Outcome!Counted \subseteq Listings
    BY DEF Outcome!Counted
  <2>2. mine \subseteq Outcome!Counted
    BY DEF Outcome!Counted, Outcome!Job, OutcomeInv, OutcomeTypes, Counts
  <2> QED BY <2>1, <2>2, ListingsFinite, FS_Subset
<1>5. told' \in Nat /\ told' >= Cardinality(mine)
  <2>1. IsFiniteSet(mine) /\ Cardinality(mine) <= Cardinality(Outcome!Counted)
    BY <1>4, FS_Subset
  <2>2. Cardinality(mine) \in Nat /\ Cardinality(Outcome!Counted) \in Nat
    BY <1>4, <2>1, FS_CardinalityType
  <2> QED BY <1>1, <2>1, <2>2
<1>3. PICK r : r = [loop["job"] EXCEPT !.pc = "over"]
  OBVIOUS
<1>6. r \in LoopRecord /\ r.pc = "over" /\ loop' = [loop EXCEPT !["job"] = r]
  BY <1>1, <1>2, <1>3 DEF LoopRecord
<1>7. matched' \in [Listings -> Int] /\ told' \in Int
  BY <1>1, <1>5 DEF OutcomeInv, OutcomeTypes
<1> QED
  BY <1>1, <1>5, <1>6, <1>7, LoopEnds DEF Going

-----------------------------------------------------------------------------
(* The loops over listings, of the job and of the workers *)

\* A case is there if and only if it has a score.
LEMMA CaseHasScore == ASSUME OutcomeInv, NEW l \in Listings PROVE Outcome!HasCase(l) <=> case[l].score # -1
  BY DEF OutcomeInv, Scored, Outcome!HasCase, Outcome!NoCase, Outcome!Missing

\* Cases stay, and so do those of the job.
Kept == /\ case' \in [Listings -> OutcomeCase] /\ Scored'
        /\ \A l \in Listings : /\ Outcome!HasCase(l) => Outcome!HasCase(l)'
                               /\ case[l].job = "job" => case'[l].job = "job"

LEMMA CaseWritten ==
  ASSUME OutcomeInv, NEW l \in Listings, NEW c \in OutcomeCase, case' = [case EXCEPT ![l] = c],
         c.score # -1 \/ c = case[l], case[l].job = "job" => c.job = "job"
  PROVE  Kept /\ case'[l] = c /\ (c.score # -1 => Outcome!HasCase(l)')
<1>1. case' \in [Listings -> OutcomeCase] /\ case'[l] = c /\ \A k \in Listings \ {l} : case'[k] = case[k]
  BY DEF OutcomeInv, OutcomeTypes
<1>2. c.score # -1 => case'[l] # Outcome!NoCase
  BY <1>1 DEF Outcome!NoCase, Outcome!Missing
<1>3. Scored'
  BY <1>1 DEF OutcomeInv, Scored, Outcome!HasCase
<1> QED
  BY <1>1, <1>2, <1>3 DEF Kept, Outcome!HasCase

LEMMA CasesAlone == ASSUME OutcomeInv, case' = case PROVE Kept
  BY DEF Kept, OutcomeInv, OutcomeTypes, Scored, Outcome!HasCase

\* What a worker does leaves the job's side as it is.
LEMMA WorkerStep ==
  ASSUME OutcomeInv, loop' \in [Histories \cup {"job"} -> LoopRecord], ToInsert', loop'["job"] = loop["job"],
         UNCHANGED <<success, links, targets, matched, told, faults, judged, mine>>, Kept
  PROVE  OutcomeInv'
<1>1. OutcomeTypes' /\ Scored' /\ Counts' /\ Reports'
  BY DEF OutcomeInv, OutcomeTypes, Kept, Counts, Reports
<1>2. ASSUME faults = 0 PROVE (\A h \in success' \ targets' : Followed(h)') /\ InMemory' /\ Judgement'
  <2>1. InMemory'
    BY <1>2 DEF OutcomeInv, Clean, InMemory
  <2>2. Judgement'
    BY <1>2 DEF OutcomeInv, OutcomeTypes, Clean, Judgement, Kept
  <2>3. \A h : Outcome!Linked(h)' = Outcome!Linked(h)
    BY DEF Outcome!Linked
  <2>4. ASSUME NEW h \in success \ targets, Cardinality(Outcome!Linked(h)) <= Batch, NEW l \in Outcome!Linked(h)
        PROVE  Settled(h, l)' \/ ToCome(h, l)'
    <3>1. Settled(h, l) \/ ToCome(h, l)
      BY <1>2, <2>4 DEF OutcomeInv, Clean, Followed
    <3>2. l \in Listings
      BY DEF Outcome!Linked
    <3>3. Settled(h, l) => Settled(h, l)'
      BY <3>2 DEF Settled, Kept
    <3>4. ToCome(h, l) => ToCome(h, l)'
      BY DEF ToCome, Turn
    <3> QED BY <3>1, <3>3, <3>4
  <2> QED BY <2>1, <2>2, <2>3, <2>4 DEF Followed
<1> QED
  BY <1>1, <1>2 DEF OutcomeInv, Clean

\* The job goes on to its next listing, or to open a case for this one.
LEMMA ListingStep ==
  ASSUME OutcomeInv, NEW r \in LoopRecord, loop' = [loop EXCEPT !["job"] = r],
         {loop["job"].pc, r.pc} \subseteq {"each", "insert"}, r.at = loop["job"].at,
         r.todo \subseteq loop["job"].todo,
         r.pc = "insert" => r.new \in Listings /\ r.score \in Nat,
         UNCHANGED <<success, links, targets, matched, told, faults>>, Kept,
         judged' \subseteq Listings, mine' \subseteq Listings, \A l \in mine' : case'[l].job = "job",
         faults = 0 => /\ \A l \in judged' : Outcome!HasCase(l)' \/ (r.pc = "insert" /\ l = r.new)
                       /\ \A l \in Listings : Turn(l) => Turn(l)' \/ Settled(loop["job"].at, l)'
  PROVE  OutcomeInv'
<1>0. loop["job"].at \in Histories /\ loop["job"].todo \subseteq Listings
  BY JobIsActor DEF OutcomeInv, OutcomeTypes, ToInsert, LoopRecord, Going
<1>1. loop' \in [Histories \cup {"job"} -> LoopRecord] /\ ToInsert' /\ loop'["job"] = r
  BY <1>0, LoopMoves, JobIsActor
<1>2. told' \in Int /\ ~(told' >= 0)
  BY DEF OutcomeInv, OutcomeTypes, Reports
<1>3. OutcomeTypes' /\ Scored' /\ Counts' /\ Reports'
  BY <1>1, <1>2 DEF OutcomeInv, OutcomeTypes, Kept, Counts, Reports
<1>4. ASSUME faults = 0 PROVE (\A h \in success' \ targets' : Followed(h)') /\ InMemory' /\ Judgement'
  <2>1. InMemory'
    BY <1>1, <1>4 DEF OutcomeInv, Clean, InMemory
  <2>2. Judgement'
    BY <1>1, <1>4 DEF Judgement
  <2>3. \A h : Outcome!Linked(h)' = Outcome!Linked(h)
    BY DEF Outcome!Linked
  <2>4. ASSUME NEW h \in success \ targets, Cardinality(Outcome!Linked(h)) <= Batch, NEW l \in Outcome!Linked(h)
        PROVE  Settled(h, l)' \/ ToCome(h, l)'
    <3>1. Settled(h, l) \/ ToCome(h, l)
      BY <1>4, <2>4 DEF OutcomeInv, Clean, Followed
    <3>2. l \in Listings
      BY DEF Outcome!Linked
    <3>3. Settled(h, l) => Settled(h, l)'
      BY <3>2 DEF Settled, Kept
    <3>4. ToCome(h, l) => ToCome(h, l)' \/ Settled(h, l)'
      BY <1>1, <1>4, <3>2 DEF ToCome, Going
    <3> QED BY <3>1, <3>3, <3>4
  <2> QED BY <2>1, <2>2, <2>3, <2>4 DEF Followed
<1> QED
  BY <1>1, <1>3, <1>4 DEF OutcomeInv, Clean

\* The actor whose step it is, and what it knows of its listing.
LEMMA ActorIs ==
  ASSUME OutcomeInv, NEW a \in Outcome!Actors, loop[a].pc \in {"each", "insert"}
  PROVE  /\ a \in Histories \cup {"job"} /\ loop[a] \in LoopRecord /\ loop[a].at \in Histories
         /\ loop[a].todo \subseteq Listings
         /\ loop[a].pc = "insert" => loop[a].new \in Listings /\ loop[a].score \in Nat
<1>1. a \in Histories \cup {"job"}
  BY JobIsActor
<1> QED
  BY <1>1 DEF OutcomeInv, OutcomeTypes, ToInsert, LoopRecord, Going

LEMMA ScoresAreInts ==
  ASSUME OutcomeInv, NEW a \in Outcome!Actors, loop[a].pc \in {"each", "insert"}, NEW l \in Listings
  PROVE  /\ Outcome!Result(a, l) \in [similarity : Int, ai : Int]
         /\ Outcome!Score(Outcome!Result(a, l)) \in Int
         /\ Outcome!Worth(Outcome!Score(Outcome!Result(a, l))) => Outcome!Score(Outcome!Result(a, l)) \in Nat
<1>1. links[<<loop[a].at, l>>] \in [similarity : Int, ai : Int] /\ matched[l] \in Int
  BY ActorIs DEF OutcomeInv, OutcomeTypes
<1>2. PICK n \in Int : n = IF a = "job" THEN matched[l] ELSE links[<<loop[a].at, l>>].ai
  BY <1>1
<1>3. Outcome!Result(a, l) = [links[<<loop[a].at, l>>] EXCEPT !.ai = n]
  BY <1>2 DEF Outcome!Result, Outcome!Job
<1>4. Outcome!Result(a, l) \in [similarity : Int, ai : Int]
  BY <1>1, <1>3
<1>5. Outcome!Score(Outcome!Result(a, l)) \in Int
  BY <1>4 DEF Outcome!Score
<1> QED
  BY <1>4, <1>5 DEF Outcome!Worth, Outcome!Excluded

\* What the job goes by is what is stored.
LEMMA ResultIsStored ==
  ASSUME OutcomeInv, faults = 0, loop["job"].pc = "each", NEW l \in loop["job"].todo
  PROVE  Outcome!Result("job", l) = links[<<loop["job"].at, l>>]
<1>1. loop["job"].at \in Histories /\ l \in Listings
  BY ActorIs, JobIsActor
<1>2. links[<<loop["job"].at, l>>] \in [similarity : Int, ai : Int]
  BY <1>1 DEF OutcomeInv, OutcomeTypes
<1>3. matched[l] = links[<<loop["job"].at, l>>].ai
  BY DEF OutcomeInv, Clean, InMemory
<1>4. Outcome!Result("job", l) = [links[<<loop["job"].at, l>>] EXCEPT !.ai = matched[l]]
  BY DEF Outcome!Result, Outcome!Job
<1> QED
  BY <1>2, <1>3, <1>4

\* The loop of an actor after one listing.
LEMMA PassedMoves ==
  ASSUME OutcomeInv, NEW a \in Outcome!Actors, NEW l, Outcome!Considers(a, l), loop' = Outcome!Passed(a, l)
  PROVE  \E r \in LoopRecord :
            /\ loop' = [loop EXCEPT ![a] = r] /\ loop[a].pc = "each" /\ r.pc = "each" /\ l \in Listings
            /\ r.at = loop[a].at /\ r.todo = loop[a].todo \ {l} /\ l \in loop[a].todo
<1>1. loop[a].pc = "each" /\ l \in loop[a].todo /\ loop[a] \in LoopRecord
  BY ActorIs DEF Outcome!Considers
<1>2. PICK r : r = [loop[a] EXCEPT !.todo = loop[a].todo \ {l}]
  OBVIOUS
<1>3. loop' = [loop EXCEPT ![a] = r]
  BY <1>2 DEF Outcome!Passed
<1>4. r \in LoopRecord /\ r.pc = "each" /\ r.at = loop[a].at /\ r.todo = loop[a].todo \ {l}
  BY <1>1, <1>2 DEF LoopRecord
<1>5. l \in Listings
  BY <1>1 DEF LoopRecord
<1> QED
  BY <1>1, <1>3, <1>4, <1>5

LEMMA JobOfIs == ASSUME NEW a PROVE Outcome!JobOf(a) \in {"none", "job"} /\ Outcome!JobOf("job") = "job"
  BY DEF Outcome!JobOf, Outcome!Job

LEMMA SkipKeeps ==
  ASSUME OutcomeInv, NEW a \in Outcome!Actors, NEW l \in Listings, Outcome!Skip(a, l)
  PROVE  OutcomeInv'
<1>1. PICK r \in LoopRecord :
            /\ loop' = [loop EXCEPT ![a] = r] /\ loop[a].pc = "each" /\ r.pc = "each" /\ l \in Listings
            /\ r.at = loop[a].at /\ r.todo = loop[a].todo \ {l} /\ l \in loop[a].todo
  BY PassedMoves DEF Outcome!Skip
<1>2. /\ UNCHANGED <<success, links, targets, matched, told, faults, judged>>
      /\ ~Outcome!Worth(Outcome!Score(Outcome!Result(a, l)))
  BY DEF Outcome!Skip
<1>3. PICK noted \in BOOLEAN :
        /\ noted => Outcome!HasCase(l)
        /\ case' = [case EXCEPT ![l].job = IF noted THEN "job" ELSE @]
        /\ mine' = IF noted /\ a = "job" THEN mine \cup {l} ELSE mine
  <2>1. PICK noted \in BOOLEAN :
          noted = (/\ Outcome!Excluded(Outcome!Score(Outcome!Result(a, l))) /\ Outcome!Result(a, l).ai # Outcome!Missing
                   /\ Outcome!HasCase(l) /\ Outcome!JobOf(a) = Outcome!Job)
    BY Zenon
  <2> QED BY <2>1, Zenon DEF Outcome!Skip, Outcome!Job
<1>4. case[l] \in OutcomeCase
  BY DEF OutcomeInv, OutcomeTypes
<1>5. PICK c : c = [case[l] EXCEPT !.job = IF noted THEN "job" ELSE @]
  OBVIOUS
<1>6. /\ c \in OutcomeCase /\ c.score = case[l].score /\ (noted => c.job = "job")
      /\ case[l].job = "job" => c.job = "job"
      /\ c.score # -1 \/ c = case[l]
      /\ case' = [case EXCEPT ![l] = c]
  <2>1. noted => case[l].score # -1
    BY <1>3, CaseHasScore
  <2>2. PICK j \in {"none", "job"} : j = IF noted THEN "job" ELSE case[l].job
    BY <1>4 DEF OutcomeCase
  <2>3. c = [job |-> j, score |-> case[l].score, open |-> case[l].open]
    BY <1>4, <1>5, <2>2 DEF OutcomeCase
  <2>4. c \in OutcomeCase /\ c.score = case[l].score /\ c.job = j
    BY <1>4, <2>2, <2>3 DEF OutcomeCase
  <2>5. ~noted => c = case[l]
    BY <1>4, <2>2, <2>3 DEF OutcomeCase
  <2>6. case' = [case EXCEPT ![l] = c]
    BY <1>3, <1>5
  <2> QED BY <2>1, <2>2, <2>4, <2>5, <2>6
<1>7. Kept /\ case'[l] = c
  BY <1>6, CaseWritten
<1>8. CASE a = "job"
  <2>1. mine' \subseteq Listings /\ \A k \in mine' : case'[k].job = "job"
    BY <1>3, <1>6, <1>7 DEF OutcomeInv, OutcomeTypes, Counts, Kept
  <2>2. judged' \subseteq Listings
    BY <1>2 DEF OutcomeInv, OutcomeTypes
  <2>3. ASSUME faults = 0
        PROVE  /\ \A k \in judged' : Outcome!HasCase(k)'
               /\ \A k \in Listings : Turn(k) => Turn(k)' \/ Settled(loop["job"].at, k)'
    <3>1. \A k \in judged' : Outcome!HasCase(k)'
      BY <1>1, <1>2, <1>7, <1>8, <2>3 DEF OutcomeInv, OutcomeTypes, Clean, Judgement, Kept
    <3>2. Settled(loop["job"].at, l)'
      BY <1>1, <1>2, <1>8, <2>3, ResultIsStored DEF Settled
    <3>3. loop'["job"] = r
      BY <1>1, <1>8, JobIsActor DEF OutcomeInv, OutcomeTypes
    <3>4. \A k \in Listings : Turn(k) => Turn(k)' \/ k = l
      BY <1>1, <1>8, <3>3 DEF Turn
    <3>5. loop'["job"].at = loop["job"].at
      BY <1>1, <1>8, <3>3
    <3> QED BY <1>1, <3>1, <3>2, <3>4, <3>5
  <2> QED BY <1>1, <1>2, <1>7, <1>8, <2>1, <2>2, <2>3, ListingStep
<1>9. CASE a # "job"
  <2>1. a \in Histories \cup {"job"} /\ (r.pc \in Going => r.at \in Histories)
    BY <1>1, ActorIs
  <2>2. /\ loop' \in [Histories \cup {"job"} -> LoopRecord] /\ ToInsert'
        /\ loop'["job"] = loop["job"]
    BY <1>1, <1>9, <2>1, LoopMoves, JobIsActor
  <2> QED BY <1>2, <1>3, <1>7, <1>9, <2>2, WorkerStep
<1> QED
  BY <1>8, <1>9

LEMMA UpdateKeeps ==
  ASSUME OutcomeInv, NEW a \in Outcome!Actors, NEW l \in Listings, Outcome!Update(a, l)
  PROVE  OutcomeInv'
<1>1. PICK r \in LoopRecord :
            /\ loop' = [loop EXCEPT ![a] = r] /\ loop[a].pc = "each" /\ r.pc = "each" /\ l \in Listings
            /\ r.at = loop[a].at /\ r.todo = loop[a].todo \ {l} /\ l \in loop[a].todo
  BY PassedMoves DEF Outcome!Update
<1>2. /\ UNCHANGED <<success, links, targets, matched, told, faults>> /\ Outcome!HasCase(l)
      /\ judged' = Outcome!Judged(a, l) /\ Outcome!Score(Outcome!Result(a, l)) \in Nat
  BY <1>1, ScoresAreInts DEF Outcome!Update
<1>3. case[l] \in OutcomeCase /\ case[l].score # -1
  BY <1>2, CaseHasScore DEF OutcomeInv, OutcomeTypes
<1>4. PICK updated \in BOOLEAN :
        /\ case' = IF updated
                   THEN [case EXCEPT ![l].score = Outcome!Score(Outcome!Result(a, l)),
                                     ![l].job = IF Outcome!JobOf(a) = "job" THEN "job" ELSE @]
                   ELSE case
        /\ mine' = IF updated /\ a = "job" THEN mine \cup {l} ELSE mine
  <2>1. PICK updated \in BOOLEAN :
          updated = (Outcome!Result(a, l).ai # Outcome!Missing /\ case[l].open)
    BY Zenon
  <2> QED BY <2>1, Zenon DEF Outcome!Update, Outcome!Job
<1>5. PICK j \in {"none", "job"} : j = IF Outcome!JobOf(a) = "job" THEN "job" ELSE case[l].job
  BY <1>3 DEF OutcomeCase
<1>6. PICK c : c = [case[l] EXCEPT !.score = Outcome!Score(Outcome!Result(a, l)),
                                   !.job = IF Outcome!JobOf(a) = "job" THEN "job" ELSE @]
  OBVIOUS
<1>7. /\ c \in OutcomeCase /\ c.score # -1 /\ c.job = j
  <2>1. c = [job |-> j, score |-> Outcome!Score(Outcome!Result(a, l)), open |-> case[l].open]
    BY <1>3, <1>5, <1>6 DEF OutcomeCase
  <2>2. case[l].open \in BOOLEAN
    BY <1>3, Zenon DEF OutcomeCase
  <2> QED BY <1>2, <2>1, <2>2 DEF OutcomeCase
<1>8. Kept /\ (updated => case'[l].job = j)
  <2>1. CASE updated
    <3>1. case' = [case EXCEPT ![l] = c]
      BY <1>4, <1>6, <2>1 DEF OutcomeInv, OutcomeTypes
    <3>2. case[l].job = "job" => c.job = "job"
      BY <1>5, <1>7
    <3> QED BY <1>7, <3>1, <3>2, CaseWritten
  <2>2. CASE ~updated
    BY <1>4, <2>2, CasesAlone
  <2> QED BY <2>1, <2>2
<1>9. CASE a = "job"
  <2>0. j = "job"
    BY <1>5, <1>9, JobOfIs
  <2>1. mine' \subseteq Listings /\ \A k \in mine' : case'[k].job = "job"
    BY <1>4, <1>8, <2>0 DEF OutcomeInv, OutcomeTypes, Counts, Kept
  <2>2. judged' = judged \cup {l} /\ judged' \subseteq Listings
    BY <1>2, <1>9 DEF OutcomeInv, OutcomeTypes, Outcome!Judged, Outcome!Job
  <2>3. ASSUME faults = 0
        PROVE  /\ \A k \in judged' : Outcome!HasCase(k)'
               /\ \A k \in Listings : Turn(k) => Turn(k)' \/ Settled(loop["job"].at, k)'
    <3>0. Outcome!HasCase(l)'
      BY <1>2, <1>8 DEF Kept
    <3>1. \A k \in judged' : Outcome!HasCase(k)'
      BY <1>1, <1>8, <1>9, <2>2, <2>3, <3>0 DEF OutcomeInv, OutcomeTypes, Clean, Judgement, Kept
    <3>2. Settled(loop["job"].at, l)'
      BY <3>0 DEF Settled
    <3>3. loop'["job"] = r
      BY <1>1, <1>9, JobIsActor DEF OutcomeInv, OutcomeTypes
    <3>4. \A k \in Listings : Turn(k) => Turn(k)' \/ k = l
      BY <1>1, <1>9, <3>3 DEF Turn
    <3>5. loop'["job"].at = loop["job"].at
      BY <1>1, <1>9, <3>3
    <3> QED BY <1>1, <3>1, <3>2, <3>4, <3>5
  <2> QED BY <1>1, <1>2, <1>8, <1>9, <2>1, <2>2, <2>3, ListingStep
<1>10. CASE a # "job"
  <2>1. a \in Histories \cup {"job"} /\ (r.pc \in Going => r.at \in Histories)
    BY <1>1, ActorIs
  <2>2. /\ loop' \in [Histories \cup {"job"} -> LoopRecord] /\ ToInsert'
        /\ loop'["job"] = loop["job"]
    BY <1>1, <1>10, <2>1, LoopMoves, JobIsActor
  <2>3. judged' = judged /\ mine' = mine
    BY <1>2, <1>4, <1>10 DEF Outcome!Judged, Outcome!Job
  <2> QED BY <1>2, <1>8, <2>2, <2>3, WorkerStep
<1> QED
  BY <1>9, <1>10

LEMMA AnalyseKeeps ==
  ASSUME OutcomeInv, NEW a \in Outcome!Actors, NEW l \in Listings, Outcome!Analyse(a, l)
  PROVE  OutcomeInv'
<1>1. /\ UNCHANGED <<success, links, case, targets, matched, told, faults, mine>>
      /\ loop[a].pc = "each" /\ l \in loop[a].todo /\ judged' = Outcome!Judged(a, l)
      /\ loop' = [loop EXCEPT ![a].pc = "insert", ![a].todo = @ \ {l}, ![a].new = l,
                              ![a].score = Outcome!Score(Outcome!Result(a, l))]
  BY DEF Outcome!Analyse, Outcome!Considers
<1>2. Outcome!Score(Outcome!Result(a, l)) \in Nat
  BY <1>1, ScoresAreInts DEF Outcome!Analyse
<1>3. loop[a] \in LoopRecord /\ a \in Histories \cup {"job"} /\ loop[a].at \in Histories
  BY <1>1, ActorIs
<1>4. PICK r : r = [loop[a] EXCEPT !.pc = "insert", !.todo = @ \ {l}, !.new = l,
                                   !.score = Outcome!Score(Outcome!Result(a, l))]
  OBVIOUS
<1>5. /\ r \in LoopRecord /\ r.pc = "insert" /\ r.new = l /\ r.score \in Nat /\ r.at = loop[a].at
      /\ r.todo = loop[a].todo \ {l}
  <2>1. r = [pc |-> "insert", todo |-> loop[a].todo \ {l}, at |-> loop[a].at, new |-> l,
             score |-> Outcome!Score(Outcome!Result(a, l))]
    BY <1>3, <1>4 DEF LoopRecord
  <2>2. loop[a].todo \in SUBSET Listings
    BY <1>3 DEF LoopRecord
  <2> QED BY <1>2, <1>3, <2>1, <2>2 DEF LoopRecord, Going
<1>6. loop' = [loop EXCEPT ![a] = r]
  BY <1>1, <1>3, <1>4 DEF OutcomeInv, OutcomeTypes
<1>7. Kept
  BY <1>1, CasesAlone
<1>8. CASE a = "job"
  <2>1. judged' = judged \cup {l} /\ judged' \subseteq Listings /\ mine' \subseteq Listings
        /\ \A k \in mine' : case'[k].job = "job"
    BY <1>1, <1>8 DEF OutcomeInv, OutcomeTypes, Counts, Outcome!Judged, Outcome!Job
  <2>2. ASSUME faults = 0
        PROVE  /\ \A k \in judged' : Outcome!HasCase(k)' \/ (r.pc = "insert" /\ k = r.new)
               /\ \A k \in Listings : Turn(k) => Turn(k)' \/ Settled(loop["job"].at, k)'
    <3>1. \A k \in judged' : Outcome!HasCase(k)' \/ k = r.new
      BY <1>1, <1>5, <1>7, <1>8, <2>1, <2>2 DEF OutcomeInv, OutcomeTypes, Clean, Judgement, Kept
    <3>2. loop'["job"] = r
      BY <1>6, <1>8, JobIsActor DEF OutcomeInv, OutcomeTypes
    <3> QED BY <1>1, <1>5, <1>8, <3>1, <3>2 DEF Turn
  <2> QED BY <1>1, <1>5, <1>6, <1>7, <1>8, <2>1, <2>2, ListingStep
<1>9. CASE a # "job"
  <2>1. /\ loop' \in [Histories \cup {"job"} -> LoopRecord] /\ ToInsert'
        /\ loop'["job"] = loop["job"]
    BY <1>3, <1>5, <1>6, <1>9, LoopMoves, JobIsActor
  <2>2. judged' = judged
    BY <1>1, <1>9 DEF Outcome!Judged, Outcome!Job
  <2> QED BY <1>1, <1>7, <2>1, <2>2, WorkerStep
<1> QED
  BY <1>8, <1>9

LEMMA InsertKeeps == ASSUME OutcomeInv, NEW a \in Outcome!Actors, Outcome!Insert(a) PROVE OutcomeInv'
<1>1. /\ UNCHANGED <<success, links, targets, matched, told, faults, judged>>
      /\ loop[a].pc = "insert" /\ ~Outcome!HasCase(loop[a].new)
      /\ case' = [case EXCEPT ![loop[a].new] = [job |-> Outcome!JobOf(a), score |-> loop[a].score, open |-> TRUE]]
      /\ mine' = IF a = "job" THEN mine \cup {loop[a].new} ELSE mine
      /\ loop' = [loop EXCEPT ![a].pc = "each", ![a].new = "none", ![a].score = -1]
  BY DEF Outcome!Insert, Outcome!Job, Outcome!Missing
<1>2. /\ loop[a] \in LoopRecord /\ a \in Histories \cup {"job"} /\ loop[a].at \in Histories
      /\ loop[a].todo \subseteq Listings /\ loop[a].new \in Listings /\ loop[a].score \in Nat
  BY <1>1, ActorIs
<1>3. PICK l \in Listings : l = loop[a].new
  BY <1>2
<1>4. PICK c : c = [job |-> Outcome!JobOf(a), score |-> loop[a].score, open |-> TRUE]
  OBVIOUS
<1>5. c \in OutcomeCase /\ c.score # -1 /\ (a = "job" => c.job = "job") /\ case' = [case EXCEPT ![l] = c]
  BY <1>1, <1>2, <1>3, <1>4, JobOfIs DEF OutcomeCase
<1>6. case[l].job # "job"
  BY <1>1, <1>3 DEF Outcome!HasCase, Outcome!NoCase
<1>7. Kept /\ case'[l] = c /\ Outcome!HasCase(l)'
  BY <1>5, <1>6, CaseWritten
<1>8. PICK r : r = [loop[a] EXCEPT !.pc = "each", !.new = "none", !.score = -1]
  OBVIOUS
<1>9. r \in LoopRecord /\ r.pc = "each" /\ r.at = loop[a].at /\ r.todo = loop[a].todo
  <2>1. r = [pc |-> "each", todo |-> loop[a].todo, at |-> loop[a].at, new |-> "none", score |-> -1]
    BY <1>2, <1>8 DEF LoopRecord
  <2> QED BY <1>2, <2>1 DEF LoopRecord, Going
<1>10. loop' = [loop EXCEPT ![a] = r]
  BY <1>1, <1>2, <1>8 DEF OutcomeInv, OutcomeTypes
<1>11. CASE a = "job"
  <2>1. /\ judged' \subseteq Listings /\ mine' \subseteq Listings
        /\ \A k \in mine' : case'[k].job = "job"
    BY <1>1, <1>3, <1>5, <1>7, <1>11 DEF OutcomeInv, OutcomeTypes, Counts, Kept
  <2>2. ASSUME faults = 0
        PROVE  /\ \A k \in judged' : Outcome!HasCase(k)'
               /\ \A k \in Listings : Turn(k) => Turn(k)' \/ Settled(loop["job"].at, k)'
    <3>1. \A k \in judged' : Outcome!HasCase(k)'
      BY <1>1, <1>3, <1>7, <1>11, <2>2 DEF OutcomeInv, OutcomeTypes, Clean, Judgement, Kept
    <3>2. loop'["job"] = r
      BY <1>10, <1>11, JobIsActor DEF OutcomeInv, OutcomeTypes
    <3>3. \A k \in Listings : Turn(k) => Turn(k)' \/ k = l
      BY <1>3, <1>9, <1>11, <3>2 DEF Turn
    <3>4. Settled(loop["job"].at, l)'
      BY <1>7 DEF Settled
    <3>5. loop'["job"].at = loop["job"].at
      BY <1>9, <1>11, <3>2
    <3> QED BY <3>1, <3>3, <3>4, <3>5
  <2> QED BY <1>1, <1>7, <1>9, <1>10, <1>11, <2>1, <2>2, ListingStep
<1>12. CASE a # "job"
  <2>1. /\ loop' \in [Histories \cup {"job"} -> LoopRecord] /\ ToInsert'
        /\ loop'["job"] = loop["job"]
    BY <1>2, <1>9, <1>10, <1>12, LoopMoves, JobIsActor
  <2> QED BY <1>1, <1>7, <1>12, <2>1, WorkerStep
<1> QED
  BY <1>11, <1>12

\* A loop that ends by an error: of the job, all its loops; a worker's, for itself.
LEMMA IdleRecord == ASSUME NEW pc \in {"next", "over"}
                    PROVE  [pc |-> pc, todo |-> {}, at |-> "none", new |-> "none", score |-> -1] \in LoopRecord
<1>1. pc \in Going \cup {"idle", "next", "over"}
  OBVIOUS
<1>2. {} \in SUBSET Listings
  OBVIOUS
<1> QED BY <1>1, <1>2 DEF LoopRecord

LEMMA IdleIs == ASSUME NEW pc \in {"next", "over"}, NEW r, r = [Outcome!Idle EXCEPT !.pc = pc]
                PROVE  r \in LoopRecord /\ r.pc = pc /\ r.todo = {}
<1>1. r = [pc |-> pc, todo |-> {}, at |-> "none", new |-> "none", score |-> -1]
  BY DEF Outcome!Idle, Outcome!Missing
<1>2. r \in LoopRecord
  BY <1>1, IdleRecord, Zenon
<1>3. r.pc = pc /\ r.todo = {}
  BY <1>1
<1> QED BY <1>2, <1>3

LEMMA InvestigationFailsKeeps ==
  ASSUME OutcomeInv, NEW a \in Outcome!Actors, Outcome!InvestigationFails(a)
  PROVE  OutcomeInv'
<1>1. /\ UNCHANGED <<success, links, case, matched, told, judged, mine>> /\ loop[a].pc \in {"each", "insert"}
  BY DEF Outcome!InvestigationFails
<1>2. Kept /\ a \in Histories \cup {"job"}
  BY <1>1, CasesAlone, JobIsActor
<1>3. CASE a = "job"
  <2>1. PICK r : r = [Outcome!Idle EXCEPT !.pc = "next"]
    OBVIOUS
  <2>2. r \in LoopRecord /\ r.pc = "next" /\ r.todo = {}
    BY <2>1, IdleIs
  <2>3. loop' = [loop EXCEPT ![a] = r] /\ targets' = {} /\ faults' \in Nat /\ faults' # 0
    BY <1>3, <2>1, FaultIs DEF Outcome!InvestigationFails, Outcome!Job
  <2>4. /\ loop' \in [Histories \cup {"job"} -> LoopRecord] /\ ToInsert'
    BY <1>2, <2>2, <2>3, LoopMoves DEF Going
  <2>5. ~(told' >= 0)
    BY <1>1, <1>3 DEF OutcomeInv, OutcomeTypes, Reports
  <2> QED BY <1>1, <1>2, <2>3, <2>4, <2>5 DEF OutcomeInv, OutcomeTypes, Clean, Counts, Reports, Kept
<1>4. CASE a # "job"
  <2>1. PICK r : r = [Outcome!Idle EXCEPT !.pc = "over"]
    OBVIOUS
  <2>2. r \in LoopRecord /\ r.pc = "over" /\ r.todo = {}
    BY <2>1, IdleIs
  <2>3. loop' = [loop EXCEPT ![a] = r] /\ UNCHANGED <<targets, faults>>
    BY <1>4, <2>1 DEF Outcome!InvestigationFails, Outcome!Job
  <2>4. /\ loop' \in [Histories \cup {"job"} -> LoopRecord] /\ ToInsert'
        /\ loop'["job"] = loop["job"]
    BY <1>2, <1>4, <2>2, <2>3, LoopMoves, JobIsActor DEF Going
  <2> QED BY <1>1, <1>2, <2>3, <2>4, WorkerStep
<1> QED
  BY <1>3, <1>4

LEMMA WorkersKeep ==
  ASSUME OutcomeInv, NEW h \in Histories, Outcome!StartWorker(h) \/ Outcome!WorkerDone(h)
  PROVE  OutcomeInv'
<1>1. /\ UNCHANGED <<success, links, case, targets, matched, told, faults, judged, mine>>
      /\ h # "job" /\ h \in Histories \cup {"job"} /\ Kept
  BY CasesAlone, JobIsActor DEF Outcome!StartWorker, Outcome!WorkerDone
<1>2. PICK r : /\ r \in LoopRecord /\ loop' = [loop EXCEPT ![h] = r] /\ r.pc # "insert"
               /\ r.pc \in Going => r.at \in Histories
  <2>1. CASE Outcome!StartWorker(h)
    <3>1. PICK r : r = [Outcome!Idle EXCEPT !.pc = "each", !.todo = Outcome!Linked(h), !.at = h]
      OBVIOUS
    <3>2. r = [pc |-> "each", todo |-> Outcome!Linked(h), at |-> h, new |-> "none", score |-> -1]
      BY <3>1 DEF Outcome!Idle, Outcome!Missing
    <3>3. Outcome!Linked(h) \in SUBSET Listings
      BY DEF Outcome!Linked
    <3>4. r \in LoopRecord /\ r.pc = "each" /\ r.at = h
      BY <3>2, <3>3 DEF LoopRecord, Going
    <3>5. loop' = [loop EXCEPT ![h] = r]
      BY <2>1, <3>1 DEF Outcome!StartWorker
    <3> QED BY <3>4, <3>5
  <2>2. CASE Outcome!WorkerDone(h)
    <3>1. PICK r : r = [Outcome!Idle EXCEPT !.pc = "over"]
      OBVIOUS
    <3> QED BY <2>2, <3>1, IdleIs DEF Outcome!WorkerDone, Going
  <2> QED BY <2>1, <2>2
<1>3. /\ loop' \in [Histories \cup {"job"} -> LoopRecord] /\ ToInsert'
      /\ loop'["job"] = loop["job"]
  BY <1>1, <1>2, LoopMoves, JobIsActor
<1> QED
  BY <1>1, <1>3, WorkerStep

LEMMA TakeUpKeeps == ASSUME OutcomeInv, NEW l \in Listings, Outcome!TakeUp(l) PROVE OutcomeInv'
<1>1. /\ UNCHANGED <<success, links, loop, targets, matched, told, faults, judged, mine>>
      /\ case[l].open /\ case' = [case EXCEPT ![l].open = FALSE]
  BY DEF Outcome!TakeUp
<1>2. case[l] \in OutcomeCase
  BY DEF OutcomeInv, OutcomeTypes
<1>3. PICK c : c = [case[l] EXCEPT !.open = FALSE]
  OBVIOUS
<1>4. c \in OutcomeCase /\ c.score = case[l].score /\ c.job = case[l].job /\ case' = [case EXCEPT ![l] = c]
  BY <1>1, <1>2, <1>3 DEF OutcomeCase
<1>5. case[l].score # -1
  <2>1. Outcome!HasCase(l)
    <3>1. case[l] = Outcome!NoCase => case[l].open = FALSE
      BY DEF Outcome!NoCase
    <3> QED BY <1>1, <3>1, Zenon DEF Outcome!HasCase
  <2> QED BY <2>1, CaseHasScore
<1>6. Kept
  BY <1>4, <1>5, CaseWritten
<1>7. loop' \in [Histories \cup {"job"} -> LoopRecord] /\ ToInsert' /\ loop'["job"] = loop["job"]
  BY <1>1 DEF OutcomeInv, OutcomeTypes, ToInsert
<1> QED
  BY <1>1, <1>6, <1>7, WorkerStep

LEMMA OutcomeNext == ASSUME OutcomeInv, [Outcome!Next]_outcomeVars PROVE OutcomeInv'
<1>1. ASSUME NEW h \in Histories, Outcome!NextHistory(h) \/ Outcome!StartWorker(h) \/ Outcome!WorkerDone(h)
      PROVE  OutcomeInv'
  BY <1>1, NextHistoryKeeps, WorkersKeep
<1>2. CASE \/ Outcome!Match \/ Outcome!MatchFails \/ Outcome!PersistMatchingScores \/ Outcome!PersistFails
           \/ Outcome!HistoryDone \/ Outcome!Report
  BY <1>2, MatchKeeps, MatchFailsKeeps, PersistKeeps, HistoryDoneKeeps, ReportKeeps
<1>3. ASSUME NEW a \in Outcome!Actors, Outcome!Insert(a) \/ Outcome!InvestigationFails(a) PROVE OutcomeInv'
  BY <1>3, InsertKeeps, InvestigationFailsKeeps
<1>4. ASSUME NEW a \in Outcome!Actors, NEW l \in Listings,
             Outcome!Skip(a, l) \/ Outcome!Update(a, l) \/ Outcome!Analyse(a, l)
      PROVE  OutcomeInv'
  BY <1>4, SkipKeeps, UpdateKeeps, AnalyseKeeps
<1>5. ASSUME NEW l \in Listings, Outcome!TakeUp(l) PROVE OutcomeInv'
  BY <1>5, TakeUpKeeps
<1>6. CASE UNCHANGED outcomeVars
  BY <1>6 DEF outcomeVars, OutcomeInv, OutcomeTypes, Scored, ToInsert, Clean, Followed, Settled, ToCome, Turn,
     InMemory, Judgement, Counts, Reports, Outcome!HasCase, Outcome!Linked
<1> QED
  BY <1>1, <1>2, <1>3, <1>4, <1>5, <1>6 DEF Outcome!Next

LEMMA OutcomeTells == ASSUME OutcomeInv PROVE Outcome!ReportedInFull
<1>1. SUFFICES ASSUME told >= 0, faults = 0
      PROVE  /\ \A h \in success : Cardinality(Outcome!Linked(h)) <= Batch =>
                  \A l \in Outcome!Linked(h) : Outcome!Worth(Outcome!Score(links[<<h, l>>])) => Outcome!HasCase(l)
             /\ judged \subseteq {l \in Listings : Outcome!HasCase(l)}
             /\ mine \subseteq Outcome!Counted /\ told >= Cardinality(mine)
  BY OutcomeCounts DEF Outcome!ReportedInFull
<1>2. loop["job"].pc = "over" /\ targets = {} /\ told >= Cardinality(mine)
  BY <1>1 DEF OutcomeInv, Reports
<1>3. \A h \in success : Cardinality(Outcome!Linked(h)) <= Batch =>
                  \A l \in Outcome!Linked(h) : Settled(h, l)
  BY <1>1, <1>2 DEF OutcomeInv, Clean, Followed, ToCome, Going
<1>4. judged \subseteq {l \in Listings : Outcome!HasCase(l)}
  BY <1>1, <1>2 DEF OutcomeInv, OutcomeTypes, Clean, Judgement
<1>5. mine \subseteq Outcome!Counted
  BY DEF OutcomeInv, OutcomeTypes, Counts, Outcome!Counted, Outcome!Job
<1> QED
  BY <1>2, <1>3, <1>4, <1>5 DEF Settled

\* For any searches of a job, listings, scores and thresholds, whatever workers and operators do
\* meanwhile: when the back office is told and nothing went wrong in the job's own loop, every listing
\* of a history that succeeded has a case if its score is worth one, and the count has every case the
\* job opened or brought up to date.
THEOREM ReportIsFull == CasesSpec => []ReportedInFull
<1>1. CasesInit => (part = "outcome" => OutcomeInv)
  BY OutcomeInit DEF CasesInit
<1>2. (part = "outcome" => OutcomeInv) /\ [CasesNext]_<<part, vars, outcomeVars, screenVars>>
        => (part = "outcome" => OutcomeInv)'
  BY StepIs, OutcomeNext
<1>3. (part = "outcome" => OutcomeInv) => ReportedInFull
  BY OutcomeTells DEF ReportedInFull
<1> QED
  BY <1>1, <1>2, <1>3, PTL DEF CasesSpec

HIDE CasesAssumption DEF CasesAssumption, Outcome!OutcomeAssumption
-----------------------------------------------------------------------------
(* The dashboard's cases *)

Known    == [stage : Dashboard!Stages \cup {"none"}, decided : BOOLEAN, changes : Nat]
Offer    == [id : Shown \cup {None}, changes : Nat]
CallKind == Dashboard!Panels \cup {"none", "list", "detail", "create"}
CallRecord == [kind : CallKind, id : Shown \cup {None}, to : Dashboard!Stages \cup {"none"}, offer : Offer,
               mine : BOOLEAN, answer : {"none", "waiting", "done", "refused", "failed"},
               read : [Shown -> Known]]
ScreenRecord == [held : [Shown -> Known], selected : Shown \cup {None}, row : Shown \cup {None},
                 last : Shown \cup {None}, view : Known,
                 mounted : BOOLEAN, visible : BOOLEAN, appears : BOOLEAN, slides : BOOLEAN, closing : BOOLEAN,
                 asks : [Dashboard!Panels -> Offer], busy : [Dashboard!Panels -> BOOLEAN]]

\* A copy of a case is as it was at one of its changes: the last, if it has as many.
Copy(x, s) == x.stage \in Dashboard!Stages /\ x.changes <= s.changes /\ (x.changes = s.changes => x = s)
CopyIfAny(x, s) == x = Dashboard!NoCase \/ Copy(x, s)

\* What a panel asks is about a case; if the case has not changed since, it can be done.
Askable(p, s) == /\ p = "workflow" => s.stage = "Completed"
                 /\ p = "decision" => s.stage \notin {"Completed", "Archived"}
Asked(sc, sv, p) ==
  sc.asks[p] # Dashboard!NoOffer =>
    /\ sc.asks[p].id \in Shown /\ sc.asks[p].changes <= sv[sc.asks[p].id].changes
    /\ sc.asks[p].changes = sv[sc.asks[p].id].changes => Askable(p, sv[sc.asks[p].id])

ScreenInv(sc, sv) ==
  /\ sc \in ScreenRecord
  /\ \A c \in Shown : CopyIfAny(sc.held[c], sv[c])
  /\ sc.last # None => Copy(sc.view, sv[sc.last])
  /\ sc.mounted \/ sc.row # None => sc.last # None
  /\ sc.asks["drawer"] # Dashboard!NoOffer => sc.asks["drawer"] = Dashboard!OfferOf(sc)
  /\ \A p \in {"workflow", "decision"} : Asked(sc, sv, p)

\* The selected row is on the screen, on its way in or out.
OnScreen(sc) == sc.row # None => sc.closing \/ (sc.mounted /\ (sc.visible \/ sc.appears \/ sc.slides))

CallInv(k, sv) ==
  /\ k \in CallRecord
  /\ \A c \in Shown : CopyIfAny(k.read[c], sv[c])
  /\ k.kind \notin {"none", "list"} => k.id \in Shown
  /\ k.kind = "none" => k = Dashboard!NoCall
  /\ k.kind \in Dashboard!Panels => sv[k.id].stage \in Dashboard!Stages
  /\ k.kind \in Dashboard!Panels /\ k.offer.id = k.id /\ k.answer = "waiting" =>
       /\ k.offer.changes <= sv[k.id].changes
       /\ k.offer.changes = sv[k.id].changes => Dashboard!Accepts(sv[k.id], k)

ServerInv(sv) == sv \in [Shown -> Known]
                 /\ \A c \in Shown : sv[c] = Dashboard!NoCase \/ sv[c].stage \in Dashboard!Stages

CasesShown ==
  /\ ServerInv(server) /\ ScreenInv(screen, server) /\ OnScreen(screen)
  /\ call \in [Dashboard!CallForms -> CallRecord] /\ \A i \in Dashboard!CallForms : CallInv(call[i], server)

USE CasesAssumption DEF CasesAssumption, Dashboard!CaseScreenAssumption

-----------------------------------------------------------------------------
(* The server's cases, and what is held of them *)

\* Each change of a case is counted.
Grows(sv, sw) ==
  \A c \in Shown : sw[c] = sv[c] \/ (sw[c].changes = sv[c].changes + 1 /\ sw[c].stage \in Dashboard!Stages)

LEMMA CopyStays ==
  ASSUME NEW sv, NEW sw, ServerInv(sv), ServerInv(sw), Grows(sv, sw), NEW c \in Shown, NEW x \in Known
  PROVE  /\ Copy(x, sv[c]) => Copy(x, sw[c])
         /\ CopyIfAny(x, sv[c]) => CopyIfAny(x, sw[c])
<1>1. x.changes \in Nat /\ sv[c].changes \in Nat /\ sw[c].changes \in Nat
  BY DEF Known, ServerInv
<1>2. sw[c] = sv[c] \/ sw[c].changes = sv[c].changes + 1
  BY DEF Grows
<1>3. Copy(x, sv[c]) => Copy(x, sw[c])
  BY <1>1, <1>2 DEF Copy
<1> QED
  BY <1>3 DEF CopyIfAny

LEMMA ScreenStays ==
  ASSUME NEW sv, NEW sw, ServerInv(sv), ServerInv(sw), Grows(sv, sw), NEW sc, ScreenInv(sc, sv)
  PROVE  ScreenInv(sc, sw)
<1>1. /\ sc \in ScreenRecord /\ sc.view \in Known /\ sc.last \in Shown \cup {None}
      /\ \A c \in Shown : sc.held[c] \in Known
  BY DEF ScreenInv, ScreenRecord
<1>2. \A c \in Shown : CopyIfAny(sc.held[c], sw[c])
  BY <1>1, CopyStays DEF ScreenInv
<1>3. sc.last # None => Copy(sc.view, sw[sc.last])
  BY <1>1, CopyStays DEF ScreenInv
<1>4. ASSUME NEW p \in {"workflow", "decision"} PROVE Asked(sc, sw, p)
  <2>1. SUFFICES ASSUME sc.asks[p] # Dashboard!NoOffer
        PROVE  /\ sc.asks[p].id \in Shown /\ sc.asks[p].changes <= sw[sc.asks[p].id].changes
               /\ sc.asks[p].changes = sw[sc.asks[p].id].changes => Askable(p, sw[sc.asks[p].id])
    BY DEF Asked
  <2>2. PICK c \in Shown : c = sc.asks[p].id
    BY <2>1 DEF ScreenInv, Asked
  <2>3. sc.asks[p].changes <= sv[c].changes /\ (sc.asks[p].changes = sv[c].changes => Askable(p, sv[c]))
    BY <2>1, <2>2 DEF ScreenInv, Asked
  <2>4. sv[c].changes \in Nat /\ sw[c].changes \in Nat /\ sc.asks[p].changes \in Nat
    BY <1>1 DEF ServerInv, Known, ScreenRecord, Offer, Dashboard!Panels
  <2>5. sw[c] = sv[c] \/ sw[c].changes = sv[c].changes + 1
    BY DEF Grows
  <2> QED BY <2>2, <2>3, <2>4, <2>5
<1> QED
  BY <1>1, <1>2, <1>3, <1>4 DEF ScreenInv

LEMMA CallStays ==
  ASSUME NEW sv, NEW sw, ServerInv(sv), ServerInv(sw), Grows(sv, sw), NEW k, CallInv(k, sv)
  PROVE  CallInv(k, sw)
<1>1. /\ k \in CallRecord /\ \A c \in Shown : k.read[c] \in Known
      /\ k.offer.changes \in Nat
  BY DEF CallInv, CallRecord, Offer
<1>2. \A c \in Shown : CopyIfAny(k.read[c], sw[c])
  BY <1>1, CopyStays DEF CallInv
<1>3. ASSUME k.kind \in Dashboard!Panels
      PROVE  /\ sw[k.id].stage \in Dashboard!Stages
             /\ k.offer.id = k.id /\ k.answer = "waiting" =>
                  /\ k.offer.changes <= sw[k.id].changes
                  /\ k.offer.changes = sw[k.id].changes => Dashboard!Accepts(sw[k.id], k)
  <2>1. PICK c \in Shown : c = k.id
    BY <1>3 DEF CallInv, Dashboard!Panels
  <2>2. sv[c].changes \in Nat /\ sw[c].changes \in Nat
    BY DEF ServerInv, Known
  <2>3. sw[c] = sv[c] \/ (sw[c].changes = sv[c].changes + 1 /\ sw[c].stage \in Dashboard!Stages)
    BY DEF Grows
  <2> QED BY <1>1, <1>3, <2>1, <2>2, <2>3 DEF CallInv
<1> QED
  BY <1>1, <1>2, <1>3 DEF CallInv

\* What the server does with a call that it accepts.
LEMMA SavedIs ==
  ASSUME NEW s \in Known, s = Dashboard!NoCase \/ s.stage \in Dashboard!Stages, NEW k, k.kind \in CallKind,
         k.kind \in Dashboard!Panels => s.stage \in Dashboard!Stages, Dashboard!Accepts(s, k)
  PROVE  /\ Dashboard!Saved(s, k) \in Known
         /\ \/ Dashboard!Saved(s, k) = s
            \/ Dashboard!Saved(s, k).changes = s.changes + 1 /\ Dashboard!Saved(s, k).stage \in Dashboard!Stages
<1>0. s.changes \in Nat /\ s.decided \in BOOLEAN
  BY Zenon DEF Known
<1>1. ASSUME NEW to \in Dashboard!Stages, NEW x, x = Dashboard!Changed(s, to)
      PROVE  x \in Known /\ x.changes = s.changes + 1 /\ x.stage = to
  <2>1. x = [stage |-> to, decided |-> s.decided, changes |-> s.changes + 1]
    BY <1>1 DEF Dashboard!Changed, Known
  <2> QED BY <1>0, <2>1 DEF Known
<1>2. {"Open", "Completed"} \subseteq Dashboard!Stages
  BY DEF Dashboard!Stages
<1>3. CASE k.kind = "create"
  BY <1>1, <1>2, <1>3 DEF Dashboard!Saved
<1>4. CASE k.kind = "decision"
  <2>1. PICK x : x = Dashboard!Changed(s, "Completed")
    OBVIOUS
  <2>2. x \in Known /\ x.changes = s.changes + 1 /\ x.stage = "Completed"
    BY <1>1, <1>2, <2>1
  <2>3. [x EXCEPT !.decided = TRUE] \in Known /\ [x EXCEPT !.decided = TRUE].changes = s.changes + 1
        /\ [x EXCEPT !.decided = TRUE].stage = "Completed"
    BY <2>2 DEF Known
  <2>4. Dashboard!Saved(s, k) = IF s.stage = "Completed" /\ s.decided THEN s ELSE [x EXCEPT !.decided = TRUE]
    BY <1>4, <2>1 DEF Dashboard!Saved
  <2> QED BY <1>2, <2>3, <2>4
<1>5. CASE k.kind = "assignment"
  BY <1>1, <1>5 DEF Dashboard!Saved, Dashboard!Panels
<1>6. CASE k.kind \in {"drawer", "workflow"}
  <2>1. k.to \in Dashboard!Stages
    BY <1>6 DEF Dashboard!Accepts, Dashboard!Panels, Dashboard!Stages, Dashboard!Successor
  <2>2. Dashboard!Saved(s, k) = IF k.to = s.stage THEN s ELSE Dashboard!Changed(s, k.to)
    BY <1>6 DEF Dashboard!Saved
  <2> QED BY <1>1, <2>1, <2>2
<1>7. CASE k.kind \notin {"create"} \cup Dashboard!Panels
  BY <1>7 DEF Dashboard!Saved, Dashboard!Panels
<1> QED
  BY <1>3, <1>4, <1>5, <1>6, <1>7 DEF Dashboard!Panels

\* What the dashboard offers to do, the server accepts: the two tables agree.
LEMMA OfferedIsAccepted ==
  ASSUME NEW s, s.stage \in Dashboard!Stages, NEW p \in {"drawer", "workflow", "assignment"},
         NEW to \in Dashboard!Offered(p, s)
  PROVE  to \in Dashboard!Stages /\ \A k : k.kind = p /\ k.to = to => Dashboard!Accepts(s, k)
  BY DEF Dashboard!Offered, Dashboard!Accepts, Dashboard!Selectable, Dashboard!Successor, Dashboard!Stages

LEMMA AskedIsAccepted ==
  ASSUME NEW s, NEW p \in {"workflow", "decision"}, Askable(p, s), NEW k, k.kind = p,
         p = "workflow" => k.to = "Archived"
  PROVE  Dashboard!Accepts(s, k)
  BY DEF Askable, Dashboard!Accepts, Dashboard!Successor

\* It asks only what it offers.
LEMMA AskingIsAskable ==
  ASSUME NEW s, s.stage \in Dashboard!Stages, NEW p \in {"workflow", "decision"},
         NEW to \in Dashboard!Offered(p, s), Dashboard!AsksFirst(p, to)
  PROVE  Askable(p, s)
  BY DEF Askable, Dashboard!Offered, Dashboard!AsksFirst, Dashboard!Selectable, Dashboard!Successor,
     Dashboard!Locked, Dashboard!Stages

-----------------------------------------------------------------------------
(* Rendering *)

\* What a render may look at: a screen on which the selected row need not be seen yet.
LEMMA RowOfIs ==
  ASSUME NEW sv, NEW sc, ScreenInv(sc, sv)
  PROVE  /\ Dashboard!RowOf(sc) \in Shown \cup {None}
         /\ Dashboard!RowOf(sc) # None => Dashboard!RowOf(sc) \in Shown
               /\ Copy(sc.held[Dashboard!RowOf(sc)], sv[Dashboard!RowOf(sc)])
<1>1. sc.selected \in Shown \cup {None}
  BY DEF ScreenInv, ScreenRecord
<1> QED
  BY <1>1 DEF Dashboard!RowOf, ScreenInv, CopyIfAny

LEMMA NoOfferIs == Dashboard!NoOffer \in Offer /\ Dashboard!NoOffer.id = None
  BY DEF Dashboard!NoOffer, Offer

LEMMA RowedKeeps ==
  ASSUME NEW sv, NEW sc, ScreenInv(sc, sv), NEW r, r = Dashboard!RowOf(sc),
         NEW y, y = Dashboard!Rowed(sc, r)
  PROVE  /\ ScreenInv(y, sv)
         /\ y.row = r /\ (r # None => y.last = r)
         /\ y.mounted = sc.mounted /\ y.visible = sc.visible /\ y.appears = sc.appears
         /\ y.slides = sc.slides /\ y.closing = sc.closing /\ y.busy = sc.busy
<1>1. r \in Shown \cup {None} /\ (r # None => r \in Shown /\ Copy(sc.held[r], sv[r]))
  BY RowOfIs
<1>2. PICK v \in Known : v = IF r = None THEN sc.view ELSE sc.held[r]
  BY <1>1 DEF ScreenInv, ScreenRecord
<1>3. PICK m \in Shown \cup {None} : m = IF r = None THEN sc.last ELSE r
  BY <1>1 DEF ScreenInv, ScreenRecord
<1>4. PICK q : q = [sc.asks EXCEPT !["drawer"] = Dashboard!NoOffer]
  OBVIOUS
<1>5. q \in [Dashboard!Panels -> Offer] /\ q["drawer"] = Dashboard!NoOffer
      /\ \A p \in {"workflow", "decision"} : q[p] = sc.asks[p]
  BY <1>4, NoOfferIs DEF ScreenInv, ScreenRecord, Dashboard!Panels
<1>6. y = [sc EXCEPT !.row = r, !.last = m, !.view = v, !.asks = q]
  BY <1>2, <1>3, <1>4 DEF Dashboard!Rowed, ScreenInv, ScreenRecord
<1>7. sc \in ScreenRecord
  BY DEF ScreenInv
<1>8. /\ y \in ScreenRecord /\ y.row = r /\ y.last = m /\ y.view = v /\ y.asks = q /\ y.held = sc.held
      /\ y.mounted = sc.mounted /\ y.visible = sc.visible /\ y.appears = sc.appears
      /\ y.slides = sc.slides /\ y.closing = sc.closing /\ y.busy = sc.busy
  BY <1>1, <1>2, <1>3, <1>5, <1>6, <1>7 DEF ScreenRecord
<1>9. m # None => Copy(v, sv[m])
  BY <1>1, <1>2, <1>3 DEF ScreenInv
<1>10. \A p \in {"workflow", "decision"} : Asked(y, sv, p)
  BY <1>5, <1>8 DEF ScreenInv, Asked
<1>11. y.mounted \/ y.row # None => y.last # None
  <2>1. sc.mounted => sc.last # None
    BY Zenon DEF ScreenInv
  <2>2. r # None => m # None
    BY <1>3
  <2>3. sc.last # None => m # None
    BY <1>3
  <2> QED BY <1>8, <2>1, <2>2, <2>3, Zenon
<1>12. ScreenInv(y, sv)
  BY <1>5, <1>8, <1>9, <1>10, <1>11 DEF ScreenInv
<1> QED
  BY <1>3, <1>8, <1>12

\* The flags of the screen's animation say nothing of its cases.
LEMMA FlagsKeep ==
  ASSUME NEW sv, NEW sc, ScreenInv(sc, sv), NEW y \in ScreenRecord,
         y.held = sc.held, y.row = sc.row, y.last = sc.last, y.view = sc.view,
         \A p \in Dashboard!Panels : y.asks[p] = sc.asks[p] \/ y.asks[p] = Dashboard!NoOffer,
         y.mounted => sc.last # None
  PROVE  ScreenInv(y, sv)
<1>1. \A p \in {"workflow", "decision"} : Asked(y, sv, p)
  BY DEF ScreenInv, Asked, Dashboard!Panels
<1>2. y.asks["drawer"] # Dashboard!NoOffer => y.asks["drawer"] = Dashboard!OfferOf(y)
  BY DEF ScreenInv, Dashboard!OfferOf, Dashboard!Panels
<1>3. y.mounted \/ y.row # None => y.last # None
  <2>1. sc.row # None => sc.last # None
    BY Zenon DEF ScreenInv
  <2> QED BY <2>1, Zenon
<1> QED
  BY <1>1, <1>2, <1>3 DEF ScreenInv

LEMMA RenderKeeps ==
  ASSUME NEW sv, NEW sc, ScreenInv(sc, sv), NEW renewed \in BOOLEAN,
         NEW y, y = Dashboard!Render(sc, renewed)
  PROVE  /\ ScreenInv(y, sv) /\ y.closing = sc.closing /\ y.busy = sc.busy
         /\ OnScreen(sc) \/ Dashboard!RowOf(sc) = None => OnScreen(y)
<1>1. PICK r : r = Dashboard!RowOf(sc)
  OBVIOUS
<1>2. PICK n : n = IF r # sc.row \/ (renewed /\ r # None) THEN Dashboard!Rowed(sc, r) ELSE sc
  OBVIOUS
<1>3. /\ ScreenInv(n, sv) /\ n \in ScreenRecord /\ n.row = r /\ (sc.row = None /\ r # None => n.last = r)
      /\ n.mounted = sc.mounted /\ n.visible = sc.visible /\ n.appears = sc.appears
      /\ n.slides = sc.slides /\ n.closing = sc.closing /\ n.busy = sc.busy
  <2>1. CASE n = sc
    BY <1>1, <1>2, <2>1, RowedKeeps DEF ScreenInv
  <2>2. CASE n = Dashboard!Rowed(sc, r)
    BY <1>1, <2>2, RowedKeeps DEF ScreenInv
  <2> QED BY <1>2, <2>1, <2>2
<1>4. y = CASE sc.row = None /\ r # None -> [n EXCEPT !.mounted = TRUE, !.appears = TRUE]
            [] sc.row # None /\ r = None -> [n EXCEPT !.visible = FALSE, !.slides = @ \/ sc.visible]
            [] OTHER                     -> n
  BY <1>1, <1>2 DEF Dashboard!Render
<1>5. CASE sc.row = None /\ r # None
  <2>1. y = [n EXCEPT !.mounted = TRUE, !.appears = TRUE]
    BY <1>4, <1>5
  <2>2. /\ y \in ScreenRecord /\ y.held = n.held /\ y.row = n.row /\ y.last = n.last /\ y.view = n.view
        /\ y.asks = n.asks /\ y.closing = n.closing /\ y.busy = n.busy /\ y.mounted = TRUE /\ y.appears = TRUE
    BY <1>3, <2>1 DEF ScreenRecord
  <2>3. n.last # None
    BY <1>1, <1>3, <1>5, RowOfIs
  <2>4. ScreenInv(y, sv)
    BY <1>3, <2>2, <2>3, FlagsKeep
  <2>5. OnScreen(y)
    BY <2>2 DEF OnScreen
  <2> QED BY <1>3, <2>2, <2>4, <2>5
<1>6. CASE sc.row # None /\ r = None
  <2>1. PICK m \in BOOLEAN : m = (n.slides \/ sc.visible)
    BY Zenon
  <2>2. y = [n EXCEPT !.visible = FALSE, !.slides = m]
    BY <1>4, <1>6, <2>1
  <2>3. /\ y \in ScreenRecord /\ y.held = n.held /\ y.row = n.row /\ y.last = n.last /\ y.view = n.view
        /\ y.asks = n.asks /\ y.closing = n.closing /\ y.busy = n.busy /\ y.mounted = n.mounted
    BY <1>3, <2>2 DEF ScreenRecord
  <2>4. y.mounted => n.last # None
    BY <1>3, <2>3, Zenon DEF ScreenInv
  <2>5. ScreenInv(y, sv)
    BY <1>3, <2>3, <2>4, FlagsKeep
  <2>6. OnScreen(y)
    BY <1>3, <1>6, <2>3 DEF OnScreen
  <2> QED BY <1>3, <2>3, <2>5, <2>6
<1>7. CASE ~(sc.row = None /\ r # None) /\ ~(sc.row # None /\ r = None)
  <2>1. y = n
    BY <1>4, <1>7
  <2>2. sc.row # None => (OnScreen(sc) => OnScreen(n))
    BY <1>3, Zenon DEF OnScreen
  <2>3. n.row = None => OnScreen(n)
    BY DEF OnScreen
  <2> QED BY <1>1, <1>3, <1>7, <2>1, <2>2, <2>3
<1> QED
  BY <1>5, <1>6, <1>7

LEMMA SelectedToKeeps ==
  ASSUME NEW sv, NEW sc, ScreenInv(sc, sv), NEW c \in Shown \cup {None}, NEW y, y = Dashboard!SelectedTo(sc, c)
  PROVE  /\ ScreenInv(y, sv) /\ y.closing = sc.closing /\ y.busy = sc.busy
         /\ OnScreen(sc) \/ c = None => OnScreen(y)
<1>1. PICK x : x = [sc EXCEPT !.selected = c]
  OBVIOUS
<1>2. sc \in ScreenRecord
  BY DEF ScreenInv
<1>3. /\ x \in ScreenRecord /\ x.selected = c /\ x.held = sc.held /\ x.row = sc.row /\ x.last = sc.last
      /\ x.view = sc.view /\ x.asks = sc.asks /\ x.busy = sc.busy /\ x.closing = sc.closing
      /\ x.mounted = sc.mounted /\ x.visible = sc.visible /\ x.appears = sc.appears /\ x.slides = sc.slides
  BY <1>1, <1>2 DEF ScreenRecord
<1>4. ScreenInv(x, sv)
  <2>1. x.mounted => sc.last # None
    BY <1>3, Zenon DEF ScreenInv
  <2> QED BY <1>3, <2>1, FlagsKeep
<1>5. OnScreen(sc) => OnScreen(x)
  BY <1>3, Zenon DEF OnScreen
<1>6. c = None => Dashboard!RowOf(x) = None
  BY <1>3 DEF Dashboard!RowOf
<1>7. PICK renewed \in BOOLEAN : y = Dashboard!Render(x, renewed)
  BY <1>1 DEF Dashboard!SelectedTo
<1>8. /\ ScreenInv(y, sv) /\ y.closing = x.closing /\ y.busy = x.busy
      /\ OnScreen(x) \/ Dashboard!RowOf(x) = None => OnScreen(y)
  BY <1>4, <1>7, RenderKeeps, Zenon
<1> QED
  BY <1>3, <1>5, <1>6, <1>8, Zenon

\* Other cases are held, each as it was at some time.
LEMMA HeldKeeps ==
  ASSUME NEW sv, NEW sc, ScreenInv(sc, sv), NEW held \in [Shown -> Known], \A c \in Shown : CopyIfAny(held[c], sv[c]),
         NEW renewed \in BOOLEAN, NEW y, y = Dashboard!Render([sc EXCEPT !.held = held], renewed)
  PROVE  /\ ScreenInv(y, sv) /\ y.closing = sc.closing /\ y.busy = sc.busy
         /\ OnScreen(sc) => OnScreen(y)
<1>1. PICK x : x = [sc EXCEPT !.held = held]
  OBVIOUS
<1>2. sc \in ScreenRecord
  BY DEF ScreenInv
<1>3. /\ x \in ScreenRecord /\ x.selected = sc.selected /\ x.held = held /\ x.row = sc.row /\ x.last = sc.last
      /\ x.view = sc.view /\ x.asks = sc.asks /\ x.busy = sc.busy /\ x.closing = sc.closing
      /\ x.mounted = sc.mounted /\ x.visible = sc.visible /\ x.appears = sc.appears /\ x.slides = sc.slides
  BY <1>1, <1>2 DEF ScreenRecord
<1>4. ScreenInv(x, sv)
  <2>1. x.mounted \/ x.row # None => x.last # None
    BY <1>3, Zenon DEF ScreenInv
  <2>2. x.asks["drawer"] # Dashboard!NoOffer => x.asks["drawer"] = Dashboard!OfferOf(x)
    BY <1>3 DEF ScreenInv, Dashboard!OfferOf
  <2>3. \A p \in {"workflow", "decision"} : Asked(x, sv, p)
    BY <1>3 DEF ScreenInv, Asked
  <2> QED BY <1>3, <2>1, <2>2, <2>3 DEF ScreenInv
<1>5. OnScreen(sc) => OnScreen(x)
  BY <1>3, Zenon DEF OnScreen
<1>6. PICK again \in BOOLEAN : y = Dashboard!Render(x, again)
  BY <1>1
<1>7. /\ ScreenInv(y, sv) /\ y.closing = x.closing /\ y.busy = x.busy
      /\ OnScreen(x) \/ Dashboard!RowOf(x) = None => OnScreen(y)
  BY <1>4, <1>6, RenderKeeps, Zenon
<1> QED
  BY <1>3, <1>5, <1>7, Zenon

LEMMA AppliedKeeps ==
  ASSUME NEW sv, NEW sc, ScreenInv(sc, sv), NEW c \in Shown, NEW x \in Known, CopyIfAny(x, sv[c]),
         NEW y, y = Dashboard!Applied(sc, c, x)
  PROVE  /\ ScreenInv(y, sv) /\ y.closing = sc.closing /\ y.busy = sc.busy
         /\ OnScreen(sc) => OnScreen(y)
<1>1. PICK held : held = [sc.held EXCEPT ![c] = x]
  OBVIOUS
<1>2. sc \in ScreenRecord /\ sc.held \in [Shown -> Known] /\ \A b \in Shown : CopyIfAny(sc.held[b], sv[b])
  BY DEF ScreenInv, ScreenRecord
<1>3. held \in [Shown -> Known] /\ \A b \in Shown : CopyIfAny(held[b], sv[b])
  BY <1>1, <1>2
<1>4. PICK renewed \in BOOLEAN : renewed = (c = sc.row)
  BY Zenon
<1>5. y = Dashboard!Render([sc EXCEPT !.held = held], renewed)
  BY <1>1, <1>2, <1>4 DEF Dashboard!Applied
<1> QED
  BY <1>3, <1>5, HeldKeeps, Zenon

-----------------------------------------------------------------------------
(* The calls *)

CallsInv == call \in [Dashboard!CallForms -> CallRecord] /\ \A i \in Dashboard!CallForms : CallInv(call[i], server)

LEMMA ShownParts ==
  /\ CasesShown <=> ServerInv(server) /\ ScreenInv(screen, server) /\ OnScreen(screen) /\ CallsInv
  /\ CasesShown' <=> ServerInv(server') /\ ScreenInv(screen', server') /\ OnScreen(screen') /\ CallsInv'
  BY DEF CasesShown, CallsInv

LEMMA CallPut ==
  ASSUME CallsInv, NEW i \in Dashboard!CallForms, NEW k, CallInv(k, server), call' = [call EXCEPT ![i] = k],
         server' = server
  PROVE  CallsInv'
  BY DEF CallsInv, CallInv

LEMMA CallsAlone ==
  ASSUME CallsInv, call' = call, ServerInv(server), ServerInv(server'), Grows(server, server')
  PROVE  CallsInv'
<1>1. \A i \in Dashboard!CallForms : CallInv(call[i], server')
  BY CallStays DEF CallsInv
<1> QED
  BY <1>1 DEF CallsInv

LEMMA NoReadIs ==
  ASSUME NEW sv PROVE /\ [c \in Shown |-> Dashboard!NoCase] \in [Shown -> Known]
                      /\ \A c \in Shown : CopyIfAny([b \in Shown |-> Dashboard!NoCase][c], sv[c])
<1>1. Dashboard!NoCase \in Known
  BY DEF Dashboard!NoCase, Known
<1> QED
  BY <1>1 DEF CopyIfAny

LEMMA NoCallIs == ASSUME NEW sv PROVE CallInv(Dashboard!NoCall, sv)
<1>1. PICK read : read = [c \in Shown |-> Dashboard!NoCase]
  OBVIOUS
<1>2. read \in [Shown -> Known] /\ \A c \in Shown : CopyIfAny(read[c], sv[c])
  BY <1>1, NoReadIs
<1>3. PICK k : k = Dashboard!NoCall
  OBVIOUS
<1>4. k = [kind |-> "none", id |-> None, to |-> "none", offer |-> Dashboard!NoOffer, mine |-> FALSE,
           answer |-> "none", read |-> read]
  BY <1>1, <1>3 DEF Dashboard!NoCall
<1>5. k \in CallRecord
  BY <1>2, <1>4, NoOfferIs DEF CallRecord, CallKind
<1> QED
  BY <1>2, <1>3, <1>4, <1>5 DEF CallInv, Dashboard!Panels

LEMMA OverKeeps ==
  ASSUME CallsInv, NEW i \in Dashboard!CallForms, Dashboard!Over(i), server' = server
  PROVE  CallsInv'
  BY CallPut, NoCallIs DEF Dashboard!Over

\* A call that is sent.
LEMMA NewCallRecord ==
  ASSUME NEW kind \in CallKind, NEW c \in Shown \cup {None}, NEW to \in Dashboard!Stages \cup {"none"},
         NEW offer \in Offer, NEW read \in [Shown -> Known]
  PROVE  [kind |-> kind, id |-> c, to |-> to, offer |-> offer, mine |-> TRUE, answer |-> "waiting",
          read |-> read] \in CallRecord
  BY DEF CallRecord

Fresh(k, kind, c, to, offer) ==
  /\ k = [Dashboard!NoCall EXCEPT !.kind = kind, !.id = c, !.to = to, !.offer = offer, !.mine = TRUE,
                                  !.answer = "waiting"]
  /\ k.kind = kind /\ k.id = c /\ k.to = to /\ k.offer = offer
  /\ k.answer = "waiting" /\ \A b \in Shown : k.read[b] = Dashboard!NoCase

LEMMA NewCallIs ==
  ASSUME NEW kind \in CallKind, NEW c \in Shown \cup {None}, NEW to \in Dashboard!Stages \cup {"none"},
         NEW offer \in Offer
  PROVE  \E k \in CallRecord : Fresh(k, kind, c, to, offer)
<1>1. PICK read : read = [b \in Shown |-> Dashboard!NoCase]
  OBVIOUS
<1>2. read \in [Shown -> Known] /\ \A b \in Shown : read[b] = Dashboard!NoCase
  BY <1>1, NoReadIs
<1>3. PICK k \in CallRecord :
        k = [kind |-> kind, id |-> c, to |-> to, offer |-> offer, mine |-> TRUE, answer |-> "waiting",
             read |-> read]
  BY <1>2, NewCallRecord
<1>4. k = [Dashboard!NoCall EXCEPT !.kind = kind, !.id = c, !.to = to, !.offer = offer, !.mine = TRUE,
                                           !.answer = "waiting"]
  <2>1. PICK x : x = [Dashboard!NoCall EXCEPT !.kind = kind, !.id = c, !.to = to, !.offer = offer, !.mine = TRUE,
                                              !.answer = "waiting"]
    OBVIOUS
  <2>2. x = [kind |-> kind, id |-> c, to |-> to, offer |-> offer, mine |-> TRUE, answer |-> "waiting",
             read |-> read]
    BY <1>1, <2>1 DEF Dashboard!NoCall
  <2> QED BY <1>3, <2>1, <2>2, Zenon
<1>5. k.kind = kind /\ k.id = c /\ k.to = to /\ k.offer = offer /\ k.answer = "waiting" /\ k.read = read
  BY <1>3
<1> QED
  BY <1>2, <1>4, <1>5 DEF Fresh

LEMMA SentKeeps ==
  ASSUME CallsInv, server' = server, NEW kind \in CallKind \ {"none"}, NEW c \in Shown \cup {None},
         NEW to \in Dashboard!Stages \cup {"none"}, NEW offer \in Offer, Dashboard!Sent(kind, c, to, offer),
         kind # "list" => c \in Shown,
         kind \in Dashboard!Panels =>
           /\ server[c].stage \in Dashboard!Stages
           /\ offer.id = c => offer.changes <= server[c].changes
           /\ offer.id = c /\ offer.changes = server[c].changes =>
                \A k : k.kind = kind /\ k.to = to => Dashboard!Accepts(server[c], k)
  PROVE  CallsInv'
<1>0. kind \in CallKind
  OBVIOUS
<1>1. PICK k \in CallRecord : Fresh(k, kind, c, to, offer)
  BY <1>0, NewCallIs, Zenon
<1>2. /\ k.kind \notin {"none", "list"} => k.id \in Shown
      /\ k.kind \in Dashboard!Panels => server[k.id].stage \in Dashboard!Stages
      /\ k.kind \in Dashboard!Panels /\ k.offer.id = k.id /\ k.answer = "waiting" =>
           /\ k.offer.changes <= server[k.id].changes
           /\ k.offer.changes = server[k.id].changes => Dashboard!Accepts(server[k.id], k)
  BY <1>1, Zenon DEF Fresh
<1>3. CallInv(k, server)
  BY <1>1, <1>2 DEF CallInv, CopyIfAny, Fresh
<1>4. PICK i : i = CHOOSE j \in Dashboard!Free : \A l \in Dashboard!Free : j <= l
  OBVIOUS
<1>5. call' = [call EXCEPT ![i] = k]
  BY <1>1, <1>4 DEF Dashboard!Sent, Fresh
<1>6. CASE i \in Dashboard!CallForms
  BY <1>3, <1>5, <1>6, CallPut
<1>7. CASE i \notin Dashboard!CallForms
  <2>1. call' = call
    BY <1>5, <1>7 DEF CallsInv
  <2> QED BY <2>1 DEF CallsInv
<1> QED
  BY <1>6, <1>7

-----------------------------------------------------------------------------
(* What the user does *)

\* What a case once was, it still is or has changed since.
LEMMA CopyIsKnown ==
  ASSUME NEW sv, ServerInv(sv), NEW c \in Shown, NEW x \in Known, Copy(x, sv[c])
  PROVE  sv[c].stage \in Dashboard!Stages
<1>1. sv[c] # Dashboard!NoCase
  BY DEF Copy, Known, Dashboard!NoCase, Dashboard!Stages
<1> QED
  BY <1>1 DEF ServerInv

LEMMA OfferHolds ==
  ASSUME NEW sv, ServerInv(sv), NEW sc, ScreenInv(sc, sv), sc.mounted
  PROVE  /\ sc.last \in Shown /\ sc.view.stage \in Dashboard!Stages /\ sv[sc.last].stage \in Dashboard!Stages
         /\ Dashboard!OfferOf(sc) \in Offer /\ Dashboard!OfferOf(sc).id = sc.last
         /\ Dashboard!OfferOf(sc).changes <= sv[sc.last].changes
         /\ Dashboard!OfferOf(sc).changes = sv[sc.last].changes => sv[sc.last] = sc.view
<1>1. sc.last \in Shown /\ sc.view \in Known /\ Copy(sc.view, sv[sc.last])
  <2>1. sc.last # None
    BY Zenon DEF ScreenInv
  <2> QED BY <2>1 DEF ScreenInv, ScreenRecord
<1>2. sv[sc.last].stage \in Dashboard!Stages
  BY <1>1, CopyIsKnown
<1> QED
  BY <1>1, <1>2 DEF Copy, Dashboard!OfferOf, Offer, Known

LEMMA OpenKeeps == ASSUME CasesShown, NEW c \in Shown, Dashboard!Open(c) PROVE CasesShown'
<1>1. /\ server' = server /\ screen' = Dashboard!SelectedTo(screen, c)
      /\ Dashboard!Sent("detail", c, "none", Dashboard!NoOffer)
  BY DEF Dashboard!Open
<1>2. ScreenInv(screen', server') /\ OnScreen(screen')
  BY <1>1, SelectedToKeeps, ShownParts
<1>3. CallsInv'
  BY <1>1, SentKeeps, NoOfferIs, ShownParts DEF CallKind, Dashboard!Panels
<1> QED
  BY <1>1, <1>2, <1>3, ShownParts

LEMMA StartKeeps == ASSUME CasesShown, NEW c \in Shown, Dashboard!Start(c) PROVE CasesShown'
<1>1. UNCHANGED <<server, screen>> /\ Dashboard!Sent("create", c, "none", Dashboard!NoOffer)
  BY DEF Dashboard!Start
<1>2. CallsInv'
  BY <1>1, SentKeeps, NoOfferIs, ShownParts DEF CallKind, Dashboard!Panels
<1> QED
  BY <1>1, <1>2, ShownParts

LEMMA FetchKeeps == ASSUME CasesShown, Dashboard!Fetch PROVE CasesShown'
<1>1. UNCHANGED <<server, screen>> /\ Dashboard!Sent("list", None, "none", Dashboard!NoOffer)
  BY DEF Dashboard!Fetch
<1>2. CallsInv'
  BY <1>1, SentKeeps, NoOfferIs, ShownParts DEF CallKind, Dashboard!Panels
<1> QED
  BY <1>1, <1>2, ShownParts

\* Steps that only move the drawer.
LEMMA MovesKeep ==
  ASSUME CasesShown, Dashboard!Close \/ Dashboard!Escape \/ Dashboard!Appear
  PROVE  CasesShown'
<1>0. screen \in ScreenRecord /\ (screen.mounted => screen.last # None)
  <2>1. screen \in ScreenRecord
    BY ShownParts DEF ScreenInv
  <2>2. screen.mounted => screen.last # None
    BY ShownParts, Zenon DEF ScreenInv
  <2> QED BY <2>1, <2>2
<1>1. server' = server /\ call' = call
  BY DEF Dashboard!Close, Dashboard!Escape, Dashboard!Appear
<1>2. /\ screen' \in ScreenRecord /\ screen'.held = screen.held /\ screen'.row = screen.row
      /\ screen'.last = screen.last /\ screen'.view = screen.view /\ screen'.asks = screen.asks
      /\ screen'.mounted = screen.mounted
  <2>1. CASE Dashboard!Close
    BY <1>0, <2>1 DEF Dashboard!Close, ScreenRecord
  <2>2. CASE Dashboard!Escape
    BY <1>0, <2>2 DEF Dashboard!Escape, ScreenRecord
  <2>3. CASE Dashboard!Appear
    BY <1>0, <2>3 DEF Dashboard!Appear, ScreenRecord
  <2> QED BY <2>1, <2>2, <2>3
<1>3. ScreenInv(screen', server')
  <2>1. screen'.mounted => screen.last # None
    BY <1>0, <1>2, Zenon
  <2> QED BY <1>1, <1>2, <2>1, FlagsKeep, ShownParts
<1>4. OnScreen(screen')
  <2>1. CASE Dashboard!Close
    <3>1. screen'.slides = TRUE /\ screen.mounted
      BY <1>0, <2>1 DEF Dashboard!Close, ScreenRecord
    <3> QED BY <1>2, <3>1, Zenon DEF OnScreen
  <2>2. CASE Dashboard!Escape
    <3>1. screen'.closing = TRUE
      BY <1>0, <2>2 DEF Dashboard!Escape, ScreenRecord
    <3> QED BY <3>1 DEF OnScreen
  <2>3. CASE Dashboard!Appear
    <3>1. screen'.visible = TRUE /\ screen'.closing = screen.closing
      BY <1>0, <2>3 DEF Dashboard!Appear, ScreenRecord
    <3>2. OnScreen(screen)
      BY ShownParts
    <3> QED BY <1>2, <3>1, <3>2, Zenon DEF OnScreen
  <2> QED BY <2>1, <2>2, <2>3
<1>5. CallsInv'
  BY <1>1, ShownParts DEF CallsInv
<1> QED
  BY <1>1, <1>3, <1>4, <1>5, ShownParts

\* A question, and its end.
LEMMA AskKeeps ==
  ASSUME CasesShown, NEW p \in {"drawer", "workflow", "decision"}, Dashboard!Ask(p) \/ Dashboard!Cancel(p)
  PROVE  CasesShown'
<1>0. screen \in ScreenRecord /\ ScreenInv(screen, server) /\ ServerInv(server) /\ OnScreen(screen)
  BY ShownParts DEF ScreenInv
<1>1. server' = server /\ call' = call
  BY DEF Dashboard!Ask, Dashboard!Cancel
<1>2. CallsInv'
  BY <1>1, ShownParts DEF CallsInv
<1>3. PICK o \in Offer : screen' = [screen EXCEPT !.asks[p] = o] /\
                         (o = Dashboard!NoOffer \/ (Dashboard!Ask(p) /\ o = Dashboard!OfferOf(screen)))
  <2>1. CASE Dashboard!Ask(p)
    BY <1>0, <2>1, OfferHolds DEF Dashboard!Ask
  <2>2. CASE Dashboard!Cancel(p)
    BY <2>2, NoOfferIs DEF Dashboard!Cancel
  <2> QED BY <2>1, <2>2
<1>4. PICK q : q = [screen.asks EXCEPT ![p] = o]
  OBVIOUS
<1>5. q \in [Dashboard!Panels -> Offer] /\ q[p] = o /\ \A g \in Dashboard!Panels \ {p} : q[g] = screen.asks[g]
  BY <1>0, <1>4 DEF ScreenRecord, Dashboard!Panels
<1>6. screen' = [screen EXCEPT !.asks = q]
  BY <1>0, <1>3, <1>4 DEF ScreenRecord
<1>7. /\ screen' \in ScreenRecord /\ screen'.held = screen.held /\ screen'.row = screen.row
      /\ screen'.last = screen.last /\ screen'.view = screen.view /\ screen'.asks = q
      /\ screen'.mounted = screen.mounted /\ screen'.visible = screen.visible
      /\ screen'.appears = screen.appears /\ screen'.slides = screen.slides
      /\ screen'.closing = screen.closing
  BY <1>0, <1>5, <1>6 DEF ScreenRecord
<1>8. OnScreen(screen')
  BY <1>0, <1>7, Zenon DEF OnScreen
<1>9. screen'.mounted \/ screen'.row # None => screen'.last # None
  BY <1>0, <1>7, Zenon DEF ScreenInv
<1>10. screen'.asks["drawer"] # Dashboard!NoOffer => screen'.asks["drawer"] = Dashboard!OfferOf(screen')
  BY <1>0, <1>3, <1>5, <1>7 DEF ScreenInv, Dashboard!OfferOf, Dashboard!Panels
<1>11. ASSUME NEW g \in {"workflow", "decision"} PROVE Asked(screen', server', g)
  <2>1. CASE g # p
    BY <1>0, <1>1, <1>5, <1>7, <2>1 DEF ScreenInv, Asked, Dashboard!Panels
  <2>2. CASE g = p /\ o = Dashboard!NoOffer
    BY <1>5, <1>7, <2>2 DEF Asked
  <2>3. CASE g = p /\ Dashboard!Ask(p) /\ o = Dashboard!OfferOf(screen)
    <3>1. screen.mounted /\ \E to \in Dashboard!Offered(p, screen.view) : Dashboard!AsksFirst(p, to)
      BY <2>3 DEF Dashboard!Ask
    <3>2. /\ screen.last \in Shown /\ screen.view.stage \in Dashboard!Stages
          /\ o.id = screen.last /\ o.changes <= server[screen.last].changes
          /\ o.changes = server[screen.last].changes => server[screen.last] = screen.view
      BY <1>0, <2>3, <3>1, OfferHolds
    <3>3. Askable(g, screen.view)
      BY <2>3, <3>1, <3>2, AskingIsAskable
    <3> QED BY <1>1, <1>5, <1>7, <2>3, <3>2, <3>3 DEF Asked
  <2> QED BY <1>3, <2>1, <2>2, <2>3
<1>12. ScreenInv(screen', server')
  BY <1>0, <1>1, <1>7, <1>9, <1>10, <1>11 DEF ScreenInv
<1> QED
  BY <1>0, <1>1, <1>2, <1>8, <1>12, ShownParts

\* A panel that waits for its call.
LEMMA BusyKeeps ==
  ASSUME NEW sv, NEW sc, ScreenInv(sc, sv), OnScreen(sc), NEW p \in Dashboard!Panels, NEW b \in BOOLEAN,
         NEW y, y = [sc EXCEPT !.busy[p] = b]
  PROVE  ScreenInv(y, sv) /\ OnScreen(y)
<1>0. sc \in ScreenRecord
  BY DEF ScreenInv
<1>b. PICK busy : busy = [sc.busy EXCEPT ![p] = b]
  OBVIOUS
<1>c. busy \in [Dashboard!Panels -> BOOLEAN]
  BY <1>0, <1>b DEF ScreenRecord
<1>d. y = [sc EXCEPT !.busy = busy]
  BY <1>b
<1>1. /\ y \in ScreenRecord /\ y.held = sc.held /\ y.row = sc.row
      /\ y.last = sc.last /\ y.view = sc.view /\ y.asks = sc.asks
      /\ y.mounted = sc.mounted /\ y.visible = sc.visible
      /\ y.appears = sc.appears /\ y.slides = sc.slides /\ y.closing = sc.closing
  BY <1>0, <1>c, <1>d DEF ScreenRecord
<1>2. y.mounted => sc.last # None
  BY <1>1, Zenon DEF ScreenInv
<1>3. OnScreen(y)
  BY <1>1, Zenon DEF OnScreen
<1> QED
  BY <1>1, <1>2, <1>3, FlagsKeep

LEMMA ConfirmKeeps ==
  ASSUME CasesShown, NEW p \in {"drawer", "workflow", "decision"}, Dashboard!Confirm(p)
  PROVE  CasesShown'
<1>0. screen \in ScreenRecord /\ ScreenInv(screen, server) /\ ServerInv(server) /\ OnScreen(screen)
  BY ShownParts DEF ScreenInv
<1>1. /\ server' = server /\ screen' = [screen EXCEPT !.busy[p] = TRUE]
      /\ screen.mounted /\ screen.asks[p] # Dashboard!NoOffer
  BY DEF Dashboard!Confirm
<1>2. PICK to \in Dashboard!Confirmed(p) : Dashboard!Sent(p, screen.last, to, screen.asks[p])
  BY DEF Dashboard!Confirm
<1>3. ScreenInv(screen', server') /\ OnScreen(screen')
  <2>1. p \in Dashboard!Panels
    BY DEF Dashboard!Panels
  <2> QED BY <1>0, <1>1, <2>1, BusyKeeps
<1>4. /\ screen.last \in Shown /\ screen.view.stage \in Dashboard!Stages
      /\ server[screen.last].stage \in Dashboard!Stages
      /\ Dashboard!OfferOf(screen).changes <= server[screen.last].changes
      /\ Dashboard!OfferOf(screen).changes = server[screen.last].changes => server[screen.last] = screen.view
  BY <1>0, <1>1, OfferHolds
<1>5. screen.asks[p] \in Offer
  BY <1>0 DEF ScreenRecord, Dashboard!Panels
<1>6. /\ to \in Dashboard!Stages
      /\ screen.asks[p].id = screen.last => screen.asks[p].changes <= server[screen.last].changes
      /\ screen.asks[p].id = screen.last /\ screen.asks[p].changes = server[screen.last].changes =>
           \A k : k.kind = p /\ k.to = to => Dashboard!Accepts(server[screen.last], k)
  <2>1. CASE p = "drawer"
    <3>1. screen.asks[p] = Dashboard!OfferOf(screen) /\ to \in Dashboard!Offered(p, screen.view)
      BY <1>0, <1>1, <1>2, <2>1 DEF ScreenInv, Dashboard!Confirmed
    <3>2. to \in Dashboard!Stages /\ \A k : k.kind = p /\ k.to = to => Dashboard!Accepts(screen.view, k)
      BY <1>4, <2>1, <3>1, OfferedIsAccepted
    <3> QED BY <1>4, <3>1, <3>2
  <2>2. CASE p \in {"workflow", "decision"}
    <3>1. Asked(screen, server, p)
      BY <1>0, <2>2 DEF ScreenInv
    <3>2. to \in {"Archived", "Completed"} /\ (p = "workflow" => to = "Archived")
      BY <1>2, <2>2 DEF Dashboard!Confirmed
    <3>3. /\ screen.asks[p].id = screen.last => screen.asks[p].changes <= server[screen.last].changes
          /\ screen.asks[p].id = screen.last /\ screen.asks[p].changes = server[screen.last].changes =>
               Askable(p, server[screen.last])
      BY <1>1, <3>1 DEF Asked
    <3>4. ASSUME Askable(p, server[screen.last]), NEW k, k.kind = p, k.to = to
          PROVE  Dashboard!Accepts(server[screen.last], k)
      BY <2>2, <3>2, <3>4, AskedIsAccepted
    <3>5. to \in Dashboard!Stages
      BY <3>2 DEF Dashboard!Stages
    <3> QED BY <3>3, <3>4, <3>5
  <2> QED BY <2>1, <2>2
<1>7. p \in CallKind \ {"none"} /\ p # "list"
  BY DEF CallKind, Dashboard!Panels
<1>8. CallsInv'
  BY <1>0, <1>1, <1>2, <1>4, <1>5, <1>6, <1>7, SentKeeps, ShownParts
<1> QED
  BY <1>0, <1>1, <1>3, <1>8, ShownParts

LEMMA PickKeeps ==
  ASSUME CasesShown, NEW p \in {"workflow", "assignment"}, Dashboard!Pick(p)
  PROVE  CasesShown'
<1>0. screen \in ScreenRecord /\ ScreenInv(screen, server) /\ ServerInv(server) /\ OnScreen(screen)
  BY ShownParts DEF ScreenInv
<1>1. server' = server /\ screen' = [screen EXCEPT !.busy[p] = TRUE] /\ screen.mounted
  BY DEF Dashboard!Pick
<1>2. PICK to \in Dashboard!Offered(p, screen.view) :
        Dashboard!Sent(p, screen.last, to, Dashboard!OfferOf(screen))
  BY DEF Dashboard!Pick
<1>3. ScreenInv(screen', server') /\ OnScreen(screen')
  <2>1. p \in Dashboard!Panels
    BY DEF Dashboard!Panels
  <2> QED BY <1>0, <1>1, <2>1, BusyKeeps
<1>4. /\ screen.last \in Shown /\ screen.view.stage \in Dashboard!Stages
      /\ server[screen.last].stage \in Dashboard!Stages /\ Dashboard!OfferOf(screen) \in Offer
      /\ Dashboard!OfferOf(screen).changes <= server[screen.last].changes
      /\ Dashboard!OfferOf(screen).changes = server[screen.last].changes => server[screen.last] = screen.view
  BY <1>0, <1>1, OfferHolds
<1>5. to \in Dashboard!Stages /\ \A k : k.kind = p /\ k.to = to => Dashboard!Accepts(screen.view, k)
  BY <1>2, <1>4, OfferedIsAccepted
<1>6. p \in CallKind \ {"none"} /\ p # "list"
  BY DEF CallKind, Dashboard!Panels
<1>7. CallsInv'
  BY <1>0, <1>1, <1>2, <1>4, <1>5, <1>6, SentKeeps, ShownParts
<1> QED
  BY <1>0, <1>1, <1>3, <1>7, ShownParts

-----------------------------------------------------------------------------
(* The browser, the server and the continuations *)

LEMMA FireCloseKeeps == ASSUME CasesShown, Dashboard!FireClose PROVE CasesShown'
<1>0. screen \in ScreenRecord /\ ScreenInv(screen, server)
  BY ShownParts DEF ScreenInv
<1>1. PICK x : x = [screen EXCEPT !.closing = FALSE]
  OBVIOUS
<1>2. /\ x \in ScreenRecord /\ x.held = screen.held /\ x.row = screen.row /\ x.last = screen.last
      /\ x.view = screen.view /\ x.asks = screen.asks /\ x.mounted = screen.mounted
  BY <1>0, <1>1 DEF ScreenRecord
<1>3. ScreenInv(x, server)
  <2>1. x.mounted => screen.last # None
    BY <1>0, <1>2, Zenon DEF ScreenInv
  <2> QED BY <1>0, <1>2, <2>1, FlagsKeep
<1>4. screen' = Dashboard!SelectedTo(x, None) /\ UNCHANGED <<server, call>>
  BY <1>1 DEF Dashboard!FireClose
<1>5. ScreenInv(screen', server') /\ OnScreen(screen')
  BY <1>3, <1>4, SelectedToKeeps
<1>6. CallsInv'
  BY <1>4, ShownParts DEF CallsInv
<1> QED
  BY <1>4, <1>5, <1>6, ShownParts

LEMMA MineKeeps ==
  ASSUME NEW sv, NEW k, CallInv(k, sv), NEW m \in BOOLEAN, m => k.mine,
         NEW y, y = [k EXCEPT !.mine = m]
  PROVE  CallInv(y, sv)
<1>1. k \in CallRecord
  BY DEF CallInv
<1>2. /\ y \in CallRecord /\ y.kind = k.kind /\ y.id = k.id /\ y.to = k.to /\ y.offer = k.offer
      /\ y.answer = k.answer /\ y.read = k.read
  BY <1>1 DEF CallRecord
<1>3. k.kind = "none" => y = Dashboard!NoCall
  <2>1. SUFFICES ASSUME k.kind = "none" PROVE y = k
    BY DEF CallInv
  <2>2. k.mine = FALSE
    BY <2>1 DEF CallInv, Dashboard!NoCall
  <2>3. m = FALSE
    BY <2>2, Zenon
  <2> QED BY <1>1, <2>2, <2>3 DEF CallRecord
<1>4. Dashboard!Accepts(sv[k.id], y) <=> Dashboard!Accepts(sv[k.id], k)
  BY <1>2 DEF Dashboard!Accepts
<1> QED
  BY <1>2, <1>3, <1>4 DEF CallInv

LEMMA SlidOutKeeps == ASSUME CasesShown, Dashboard!SlidOut PROVE CasesShown'
<1>0. screen \in ScreenRecord /\ ScreenInv(screen, server) /\ CallsInv
  BY ShownParts DEF ScreenInv
<1>1. PICK q : q = [p \in Dashboard!Panels |-> IF p = "drawer" THEN screen.asks[p] ELSE Dashboard!NoOffer]
  OBVIOUS
<1>2. PICK busy : busy = [p \in Dashboard!Panels |-> IF p = "drawer" THEN screen.busy[p] ELSE FALSE]
  OBVIOUS
<1>3. q \in [Dashboard!Panels -> Offer] /\ \A p \in Dashboard!Panels : q[p] = screen.asks[p] \/ q[p] = Dashboard!NoOffer
  BY <1>0, <1>1, NoOfferIs DEF ScreenRecord
<1>4. busy \in [Dashboard!Panels -> BOOLEAN]
  BY <1>0, <1>2 DEF ScreenRecord
<1>5. server' = server /\ screen' = [screen EXCEPT !.slides = FALSE, !.mounted = FALSE, !.closing = TRUE,
                                                   !.asks = q, !.busy = busy]
  BY <1>1, <1>2 DEF Dashboard!SlidOut
<1>6. /\ screen' \in ScreenRecord /\ screen'.held = screen.held /\ screen'.row = screen.row
      /\ screen'.last = screen.last /\ screen'.view = screen.view /\ screen'.asks = q
      /\ screen'.mounted = FALSE /\ screen'.closing = TRUE
  BY <1>0, <1>3, <1>4, <1>5 DEF ScreenRecord
<1>7. ScreenInv(screen', server')
  <2>1. screen'.mounted => screen.last # None
    BY <1>6
  <2>2. \A p \in Dashboard!Panels : screen'.asks[p] = screen.asks[p] \/ screen'.asks[p] = Dashboard!NoOffer
    BY <1>3, <1>6
  <2>3. ScreenInv(screen', server)
    BY <1>0, <1>6, <2>1, <2>2, FlagsKeep, Zenon
  <2>4. server' = server
    BY <1>5
  <2> QED BY <2>3, <2>4
<1>8. OnScreen(screen')
  BY <1>6 DEF OnScreen
<1>9. CallsInv'
  <2>1. ASSUME NEW i \in Dashboard!CallForms PROVE CallInv(call'[i], server)
    <3>1. PICK m \in BOOLEAN : m = (call[i].mine /\ call[i].kind = "drawer")
      BY Zenon
    <3>2. call'[i] = [call[i] EXCEPT !.mine = m]
      BY <3>1 DEF Dashboard!SlidOut
    <3>3. m => call[i].mine
      BY <3>1, Zenon
    <3> QED BY <1>0, <3>2, <3>3, MineKeeps DEF CallsInv
  <2>2. call' = [i \in Dashboard!CallForms |-> call'[i]]
    BY DEF Dashboard!SlidOut
  <2> QED BY <1>5, <2>1, <2>2 DEF CallsInv, CallInv
<1> QED
  BY <1>5, <1>7, <1>8, <1>9, ShownParts

LEMMA AnsweredIs ==
  ASSUME NEW sv, NEW k, CallInv(k, sv), k.kind # "none", NEW a \in {"done", "refused", "failed"},
         NEW read \in [Shown -> Known], \A c \in Shown : CopyIfAny(read[c], sv[c]),
         NEW y, y = [k EXCEPT !.answer = a, !.read = read]
  PROVE  CallInv(y, sv)
<1>1. k \in CallRecord
  BY DEF CallInv
<1>2. /\ y \in CallRecord /\ y.kind = k.kind /\ y.id = k.id /\ y.to = k.to /\ y.offer = k.offer
      /\ y.answer = a /\ y.read = read
  BY <1>1 DEF CallRecord
<1> QED
  BY <1>2 DEF CallInv

LEMMA NoAnswerIs ==
  ASSUME CallsInv, NEW i \in Dashboard!CallForms, call[i].answer # "none"
  PROVE  /\ call[i].kind # "none" /\ call[i] \in CallRecord /\ CallInv(call[i], server)
         /\ call[i].kind # "list" => call[i].id \in Shown
         /\ call[i].read \in [Shown -> Known] /\ \A c \in Shown : CopyIfAny(call[i].read[c], server[c])
<1>1. CallInv(call[i], server)
  BY DEF CallsInv
<1>2. call[i].kind # "none"
  BY <1>1 DEF CallInv, Dashboard!NoCall
<1> QED
  BY <1>1, <1>2 DEF CallInv, CallRecord

LEMMA FailKeeps == ASSUME CasesShown, NEW i \in Dashboard!CallForms, Dashboard!Fail(i) PROVE CasesShown'
<1>0. CallsInv
  BY ShownParts
<1>1. /\ UNCHANGED <<server, screen>> /\ call[i].answer # "none"
      /\ call' = [call EXCEPT ![i].answer = "failed"]
  BY DEF Dashboard!Fail
<1>2. /\ call[i].kind # "none" /\ call[i] \in CallRecord /\ CallInv(call[i], server)
      /\ call[i].read \in [Shown -> Known] /\ \A c \in Shown : CopyIfAny(call[i].read[c], server[c])
  BY <1>0, <1>1, NoAnswerIs
<1>3. PICK y : y = [call[i] EXCEPT !.answer = "failed", !.read = call[i].read]
  OBVIOUS
<1>4. CallInv(y, server)
  BY <1>2, <1>3, AnsweredIs
<1>5. call' = [call EXCEPT ![i] = y]
  BY <1>0, <1>1, <1>2, <1>3 DEF CallRecord, CallsInv
<1>6. CallsInv'
  BY <1>0, <1>1, <1>4, <1>5, CallPut
<1> QED
  BY <1>1, <1>6, ShownParts

LEMMA ServeKeeps == ASSUME CasesShown, NEW i \in Dashboard!CallForms, Dashboard!Serve(i) PROVE CasesShown'
<1>0. CallsInv /\ ServerInv(server) /\ ScreenInv(screen, server) /\ OnScreen(screen)
  BY ShownParts
<1>1. screen' = screen /\ call[i].answer = "waiting"
  BY DEF Dashboard!Serve
<1>2. /\ call[i].kind # "none" /\ call[i] \in CallRecord /\ CallInv(call[i], server)
      /\ call[i].kind # "list" => call[i].id \in Shown
      /\ call[i].read \in [Shown -> Known] /\ \A c \in Shown : CopyIfAny(call[i].read[c], server[c])
  BY <1>0, <1>1, NoAnswerIs
<1>c. ASSUME NEW c \in Shown PROVE CopyIfAny(server[c], server[c])
  BY <1>0 DEF CopyIfAny, Copy, ServerInv, Known
<1>3. CASE call[i].kind = "list"
  <2>1. server' = server /\ call' = [call EXCEPT ![i].answer = "done", ![i].read = server]
    BY <1>3 DEF Dashboard!Serve
  <2>2. PICK y : y = [call[i] EXCEPT !.answer = "done", !.read = server]
    OBVIOUS
  <2>3. server \in [Shown -> Known]
    BY <1>0 DEF ServerInv
  <2>4. CallInv(y, server)
    BY <1>2, <1>c, <2>2, <2>3, AnsweredIs
  <2>5. call' = [call EXCEPT ![i] = y]
    BY <1>0, <2>1, <2>2 DEF CallsInv
  <2>6. CallsInv'
    BY <1>0, <2>1, <2>4, <2>5, CallPut
  <2> QED BY <1>0, <1>1, <2>1, <2>6, ShownParts
<1>4. CASE call[i].kind # "list" /\ ~Dashboard!Accepts(server[call[i].id], call[i])
  <2>1. server' = server /\ call' = [call EXCEPT ![i].answer = "refused"]
    BY <1>4 DEF Dashboard!Serve
  <2>2. PICK y : y = [call[i] EXCEPT !.answer = "refused", !.read = call[i].read]
    OBVIOUS
  <2>3. CallInv(y, server)
    BY <1>2, <2>2, AnsweredIs
  <2>4. call' = [call EXCEPT ![i] = y]
    BY <1>0, <1>2, <2>1, <2>2 DEF CallRecord, CallsInv
  <2>5. CallsInv'
    BY <1>0, <2>1, <2>3, <2>4, CallPut
  <2> QED BY <1>0, <1>1, <2>1, <2>5, ShownParts
<1>5. CASE call[i].kind # "list" /\ Dashboard!Accepts(server[call[i].id], call[i])
  <2>1. PICK c \in Shown : c = call[i].id
    BY <1>2, <1>5
  <2>2. PICK s : s = Dashboard!Saved(server[c], call[i])
    OBVIOUS
  <2>3. /\ server' = [server EXCEPT ![c] = s]
        /\ call' = [call EXCEPT ![i].answer = "done", ![i].read[c] = server'[c]]
    BY <1>5, <2>1, <2>2 DEF Dashboard!Serve
  <2>4. /\ server \in [Shown -> Known] /\ server[c] \in Known
        /\ server[c] = Dashboard!NoCase \/ server[c].stage \in Dashboard!Stages
    BY <1>0 DEF ServerInv
  <2>5. /\ s \in Known
        /\ s = server[c] \/ (s.changes = server[c].changes + 1 /\ s.stage \in Dashboard!Stages)
    <3>1. call[i].kind \in CallKind /\ (call[i].kind \in Dashboard!Panels => server[c].stage \in Dashboard!Stages)
      BY <1>2, <2>1 DEF CallInv, CallRecord
    <3> QED BY <1>5, <2>1, <2>2, <2>4, <3>1, SavedIs
  <2>6. ServerInv(server') /\ Grows(server, server') /\ server'[c] = s
    BY <1>0, <2>3, <2>4, <2>5 DEF ServerInv, Grows
  <2>7. ScreenInv(screen', server')
    BY <1>0, <1>1, <2>6, ScreenStays
  <2>8. \A j \in Dashboard!CallForms : CallInv(call[j], server')
    BY <1>0, <2>6, CallStays DEF CallsInv
  <2>9. PICK read : read = [call[i].read EXCEPT ![c] = s]
    OBVIOUS
  <2>10. CopyIfAny(s, s)
    BY <2>4, <2>5 DEF CopyIfAny, Copy, Known
  <2>11. read \in [Shown -> Known] /\ \A b \in Shown : CopyIfAny(read[b], server'[b])
    <3>1. \A b \in Shown : CopyIfAny(call[i].read[b], server'[b])
      BY <2>8 DEF CallInv
    <3> QED BY <1>2, <2>5, <2>6, <2>9, <2>10, <3>1
  <2>12. PICK y : y = [call[i] EXCEPT !.answer = "done", !.read = read]
    OBVIOUS
  <2>13. CallInv(y, server')
    BY <1>2, <2>8, <2>11, <2>12, AnsweredIs
  <2>14. call' = [call EXCEPT ![i] = y]
    BY <1>0, <2>3, <2>6, <2>9, <2>12 DEF CallsInv
  <2>15. CallsInv'
    BY <1>0, <2>8, <2>13, <2>14 DEF CallsInv, CallInv
  <2> QED BY <1>0, <1>1, <2>6, <2>7, <2>15, ShownParts
<1> QED
  BY <1>3, <1>4, <1>5

LEMMA OtherKeeps == ASSUME CasesShown, NEW c \in Shown, Dashboard!Other(c) PROVE CasesShown'
<1>0. CallsInv /\ ServerInv(server) /\ ScreenInv(screen, server) /\ OnScreen(screen)
  BY ShownParts
<1>1. UNCHANGED <<screen, call>>
  BY DEF Dashboard!Other
<1>2. server \in [Shown -> Known] /\ (server[c] = Dashboard!NoCase \/ server[c].stage \in Dashboard!Stages)
  BY <1>0 DEF ServerInv
<1>3. PICK to \in Dashboard!Stages : server' = [server EXCEPT ![c] = Dashboard!Changed(server[c], to)]
  <2>1. PICK to \in IF server[c] = Dashboard!NoCase THEN {"Open"}
                    ELSE IF server[c].stage = "Archived" THEN {} ELSE {Dashboard!Successor[server[c].stage]} :
          server' = [server EXCEPT ![c] = Dashboard!Changed(server[c], to)]
    BY DEF Dashboard!Other
  <2>2. to \in Dashboard!Stages
    BY <1>2, <2>1 DEF Dashboard!Successor, Dashboard!Stages
  <2> QED BY <2>1, <2>2
<1>4. PICK s : s = Dashboard!Changed(server[c], to)
  OBVIOUS
<1>5. s \in Known /\ s.changes = server[c].changes + 1 /\ s.stage = to
  <2>1. server[c] \in Known
    BY <1>2
  <2>2. server[c].decided \in BOOLEAN /\ server[c].changes \in Nat
    BY <2>1, Zenon DEF Known
  <2>3. s = [stage |-> to, decided |-> server[c].decided, changes |-> server[c].changes + 1]
    BY <1>4, <2>1 DEF Dashboard!Changed, Known
  <2> QED BY <2>2, <2>3 DEF Known
<1>6. ServerInv(server') /\ Grows(server, server')
  BY <1>0, <1>2, <1>3, <1>4, <1>5 DEF ServerInv, Grows
<1>7. ScreenInv(screen', server') /\ CallsInv'
  BY <1>0, <1>1, <1>6, ScreenStays, CallsAlone
<1> QED
  BY <1>0, <1>1, <1>6, <1>7, ShownParts

LEMMA FetchedKeeps == ASSUME CasesShown, NEW i \in Dashboard!CallForms, Dashboard!Fetched(i) PROVE CasesShown'
<1>0. CallsInv /\ ServerInv(server) /\ ScreenInv(screen, server) /\ OnScreen(screen)
  BY ShownParts
<1>1. server' = server /\ Dashboard!Over(i) /\ call[i].answer # "none"
  BY DEF Dashboard!Fetched, Dashboard!Returned
<1>2. call[i].read \in [Shown -> Known] /\ \A c \in Shown : CopyIfAny(call[i].read[c], server[c])
  BY <1>0, <1>1, NoAnswerIs
<1>3. CallsInv'
  BY <1>0, <1>1, OverKeeps
<1>4. ScreenInv(screen', server') /\ OnScreen(screen')
  <2>1. CASE screen' = screen
    BY <1>0, <1>1, <2>1
  <2>2. CASE screen' = Dashboard!Render([screen EXCEPT !.held = call[i].read], TRUE)
    <3>1. PICK held \in [Shown -> Known] : held = call[i].read
      BY <1>2
    <3>2. PICK renewed \in BOOLEAN : screen' = Dashboard!Render([screen EXCEPT !.held = held], renewed)
      BY <2>2, <3>1
    <3>3. \A c \in Shown : CopyIfAny(held[c], server[c])
      BY <1>2, <3>1
    <3>4. ScreenInv(screen', server) /\ (OnScreen(screen) => OnScreen(screen'))
      <4>1. PICK y : y = screen'
        OBVIOUS
      <4>2. y = Dashboard!Render([screen EXCEPT !.held = held], renewed)
        BY <3>2, <4>1
      <4>3. ScreenInv(y, server) /\ (OnScreen(screen) => OnScreen(y))
        BY <1>0, <3>3, <4>2, HeldKeeps
      <4> QED BY <4>1, <4>3
    <3> QED BY <1>0, <1>1, <3>4
  <2> QED BY <2>1, <2>2 DEF Dashboard!Fetched
<1> QED
  BY <1>0, <1>1, <1>3, <1>4, ShownParts

\* The answer of a call for one case is put on the screen.
LEMMA AnswerApplied ==
  ASSUME CasesShown, NEW i \in Dashboard!CallForms, call[i].answer # "none", call[i].kind # "list",
         NEW y, y = Dashboard!Applied(screen, call[i].id, call[i].read[call[i].id])
  PROVE  /\ call[i].id \in Shown /\ ScreenInv(y, server) /\ OnScreen(y) /\ y \in ScreenRecord
<1>0. CallsInv /\ ServerInv(server) /\ ScreenInv(screen, server) /\ OnScreen(screen)
  BY ShownParts
<1>1. /\ call[i].id \in Shown /\ call[i].read \in [Shown -> Known]
      /\ \A c \in Shown : CopyIfAny(call[i].read[c], server[c])
  BY <1>0, NoAnswerIs
<1>2. PICK c \in Shown : c = call[i].id
  BY <1>1
<1>3. PICK x \in Known : x = call[i].read[c]
  BY <1>1
<1>4. CopyIfAny(x, server[c]) /\ y = Dashboard!Applied(screen, c, x)
  BY <1>1, <1>2, <1>3
<1>5. ScreenInv(y, server) /\ (OnScreen(screen) => OnScreen(y))
  BY <1>0, <1>4, AppliedKeeps
<1> QED
  BY <1>0, <1>1, <1>5 DEF ScreenInv

LEMMA DetailedKeeps == ASSUME CasesShown, NEW i \in Dashboard!CallForms, Dashboard!Detailed(i) PROVE CasesShown'
<1>0. CallsInv /\ ServerInv(server) /\ ScreenInv(screen, server) /\ OnScreen(screen)
  BY ShownParts
<1>1. server' = server /\ Dashboard!Over(i) /\ call[i].answer # "none" /\ call[i].kind # "list"
  BY DEF Dashboard!Detailed, Dashboard!Returned
<1>2. CallsInv'
  BY <1>0, <1>1, OverKeeps
<1>3. ScreenInv(screen', server') /\ OnScreen(screen')
  BY <1>0, <1>1, AnswerApplied DEF Dashboard!Detailed
<1> QED
  BY <1>0, <1>1, <1>2, <1>3, ShownParts

LEMMA CreatedKeeps == ASSUME CasesShown, NEW i \in Dashboard!CallForms, Dashboard!Created(i) PROVE CasesShown'
<1>0. CallsInv /\ ServerInv(server) /\ ScreenInv(screen, server) /\ OnScreen(screen)
  BY ShownParts
<1>1. server' = server /\ call[i].answer # "none" /\ call[i].kind # "list"
  BY DEF Dashboard!Created, Dashboard!Returned
<1>2. CASE Dashboard!Done(i)
  <2>1. PICK c : c = call[i].id
    OBVIOUS
  <2>2. PICK y : y = Dashboard!Applied(screen, c, call[i].read[c])
    OBVIOUS
  <2>3. /\ screen' = Dashboard!SelectedTo(y, c)
        /\ call' = [call EXCEPT ![i] = [Dashboard!NoCall EXCEPT !.kind = "detail", !.id = c, !.mine = TRUE,
                                                              !.answer = "waiting"]]
    BY <1>2, <2>1, <2>2 DEF Dashboard!Created
  <2>4. c \in Shown /\ ScreenInv(y, server) /\ OnScreen(y)
    BY <1>1, <2>1, <2>2, AnswerApplied
  <2>5. ScreenInv(screen', server') /\ OnScreen(screen')
    BY <1>1, <2>3, <2>4, SelectedToKeeps
  <2>6. "detail" \in CallKind /\ "none" \in Dashboard!Stages \cup {"none"}
    BY DEF CallKind
  <2>7. PICK k \in CallRecord : Fresh(k, "detail", c, "none", Dashboard!NoOffer)
    BY <2>4, <2>6, NoOfferIs, NewCallIs
  <2>8. call' = [call EXCEPT ![i] = k]
    <3>1. [Dashboard!NoCall EXCEPT !.kind = "detail", !.id = c, !.to = "none", !.offer = Dashboard!NoOffer,
                                   !.mine = TRUE, !.answer = "waiting"]
          = [Dashboard!NoCall EXCEPT !.kind = "detail", !.id = c, !.mine = TRUE, !.answer = "waiting"]
      <4>1. PICK x : x = [Dashboard!NoCall EXCEPT !.kind = "detail", !.id = c, !.to = "none",
                                   !.offer = Dashboard!NoOffer, !.mine = TRUE, !.answer = "waiting"]
        OBVIOUS
      <4>2. PICK z : z = [Dashboard!NoCall EXCEPT !.kind = "detail", !.id = c, !.mine = TRUE,
                                                  !.answer = "waiting"]
        OBVIOUS
      <4>3. PICK read : read = [b \in Shown |-> Dashboard!NoCase]
        OBVIOUS
      <4>4. x = [kind |-> "detail", id |-> c, to |-> "none", offer |-> Dashboard!NoOffer, mine |-> TRUE,
                 answer |-> "waiting", read |-> read]
        BY <4>1, <4>3 DEF Dashboard!NoCall
      <4>5. z = [kind |-> "detail", id |-> c, to |-> "none", offer |-> Dashboard!NoOffer, mine |-> TRUE,
                 answer |-> "waiting", read |-> read]
        BY <4>2, <4>3 DEF Dashboard!NoCall
      <4> QED BY <4>1, <4>2, <4>4, <4>5
    <3> QED BY <2>3, <2>7, <3>1, Zenon DEF Fresh
  <2>9. CallInv(k, server)
    BY <2>4, <2>7 DEF Fresh, CallInv, CopyIfAny, Dashboard!Panels
  <2>10. CallsInv'
    BY <1>0, <1>1, <2>8, <2>9, CallPut
  <2> QED BY <1>0, <1>1, <2>5, <2>10, ShownParts
<1>3. CASE ~Dashboard!Done(i)
  <2>1. Dashboard!Over(i) /\ screen' = screen
    BY <1>3 DEF Dashboard!Created
  <2>2. CallsInv'
    BY <1>0, <1>1, <2>1, OverKeeps
  <2> QED BY <1>0, <1>1, <2>1, <2>2, ShownParts
<1> QED
  BY <1>2, <1>3

LEMMA SettledKeeps ==
  ASSUME NEW sc, ScreenInv(sc, server), OnScreen(sc), NEW i, call[i].kind \in Dashboard!Panels,
         NEW y, y = Dashboard!Settled(sc, i)
  PROVE  ScreenInv(y, server) /\ OnScreen(y)
<1>0. sc \in ScreenRecord
  BY DEF ScreenInv
<1>1. CASE y = sc
  BY <1>1
<1>2. CASE y # sc
  <2>1. PICK p \in Dashboard!Panels : p = call[i].kind
    OBVIOUS
  <2>2. PICK quiet \in BOOLEAN : quiet = (/\ Dashboard!Done(i) /\ p # "assignment"
                                          /\ p = "workflow" => call[i].to = "Archived")
    BY Zenon
  <2>3. y = [sc EXCEPT !.busy[p] = FALSE, !.asks[p] = IF quiet THEN Dashboard!NoOffer ELSE @]
    BY <1>2, <2>1, <2>2, Zenon DEF Dashboard!Settled
  <2>4. PICK busy : busy = [sc.busy EXCEPT ![p] = FALSE]
    OBVIOUS
  <2>5. PICK q : q = [sc.asks EXCEPT ![p] = IF quiet THEN Dashboard!NoOffer ELSE @]
    OBVIOUS
  <2>6. y = [sc EXCEPT !.busy = busy, !.asks = q]
    BY <1>0, <2>3, <2>4, <2>5 DEF ScreenRecord
  <2>7. /\ busy \in [Dashboard!Panels -> BOOLEAN] /\ q \in [Dashboard!Panels -> Offer]
        /\ \A g \in Dashboard!Panels : q[g] = sc.asks[g] \/ q[g] = Dashboard!NoOffer
    <3>1. sc.busy \in [Dashboard!Panels -> BOOLEAN] /\ sc.asks \in [Dashboard!Panels -> Offer]
      BY <1>0 DEF ScreenRecord
    <3>2. busy \in [Dashboard!Panels -> BOOLEAN]
      BY <2>4, <3>1
    <3> QED BY <2>5, <3>1, <3>2, NoOfferIs
  <2>8. /\ y \in ScreenRecord /\ y.held = sc.held /\ y.row = sc.row
        /\ y.last = sc.last /\ y.view = sc.view /\ y.asks = q
        /\ y.mounted = sc.mounted /\ y.visible = sc.visible
        /\ y.appears = sc.appears /\ y.slides = sc.slides /\ y.closing = sc.closing
    BY <1>0, <2>6, <2>7 DEF ScreenRecord
  <2>9. y.mounted => sc.last # None
    BY <2>8, Zenon DEF ScreenInv
  <2>10. ScreenInv(y, server)
    BY <2>7, <2>8, <2>9, FlagsKeep
  <2>11. OnScreen(y)
    BY <2>8, Zenon DEF OnScreen
  <2> QED BY <2>10, <2>11
<1> QED
  BY <1>1, <1>2

LEMMA ActedKeeps == ASSUME CasesShown, NEW i \in Dashboard!CallForms, Dashboard!Acted(i) PROVE CasesShown'
<1>0. CallsInv /\ ServerInv(server) /\ ScreenInv(screen, server) /\ OnScreen(screen)
  BY ShownParts
<1>1. server' = server /\ Dashboard!Over(i) /\ call[i].answer # "none" /\ call[i].kind \in Dashboard!Panels
  BY DEF Dashboard!Acted, Dashboard!Returned
<1>2. CallsInv'
  BY <1>0, <1>1, OverKeeps
<1>3. call[i].kind # "list"
  BY <1>1 DEF Dashboard!Panels
<1>4. PICK x : x = IF Dashboard!Done(i) THEN Dashboard!Applied(screen, call[i].id, call[i].read[call[i].id])
                   ELSE screen
  OBVIOUS
<1>5. ScreenInv(x, server) /\ OnScreen(x)
  BY <1>0, <1>1, <1>3, <1>4, AnswerApplied
<1>6. PICK y : y = Dashboard!Settled(x, i)
  OBVIOUS
<1>7. ScreenInv(y, server) /\ OnScreen(y)
  BY <1>1, <1>5, <1>6, SettledKeeps
<1>8. screen' = y \/ screen' = [y EXCEPT !.closing = TRUE]
  BY <1>4, <1>6, Zenon DEF Dashboard!Acted
<1>9. CASE screen' = y
  BY <1>0, <1>1, <1>2, <1>7, <1>9, ShownParts
<1>10. CASE screen' = [y EXCEPT !.closing = TRUE]
  <2>1. y \in ScreenRecord
    BY <1>7 DEF ScreenInv
  <2>2. /\ screen' \in ScreenRecord /\ screen'.held = y.held /\ screen'.row = y.row
        /\ screen'.last = y.last /\ screen'.view = y.view /\ screen'.asks = y.asks
        /\ screen'.mounted = y.mounted /\ screen'.closing = TRUE
    BY <1>10, <2>1 DEF ScreenRecord
  <2>3. screen'.mounted => y.last # None
    BY <1>7, <2>2, Zenon DEF ScreenInv
  <2>4. ScreenInv(screen', server')
    BY <1>1, <1>7, <2>2, <2>3, FlagsKeep
  <2>5. OnScreen(screen')
    BY <2>2 DEF OnScreen
  <2> QED BY <1>0, <1>1, <1>2, <2>4, <2>5, ShownParts
<1> QED
  BY <1>8, <1>9, <1>10

LEMMA ShownInit == ASSUME Dashboard!Init PROVE CasesShown
<1>1. ServerInv(server)
  <2>1. ASSUME NEW s \in Starts, NEW x, x = [Dashboard!NoCase EXCEPT !.stage = s]
        PROVE  x \in Known /\ (x = Dashboard!NoCase \/ x.stage \in Dashboard!Stages)
    <3>1. x = [stage |-> s, decided |-> FALSE, changes |-> 0]
      BY <2>1 DEF Dashboard!NoCase
    <3>2. s \in Dashboard!Stages \cup {"none"}
      BY DEF Dashboard!Stages
    <3>3. x \in Known
      BY <3>1, <3>2 DEF Known
    <3>4. s = "none" => x = Dashboard!NoCase
      BY <3>1 DEF Dashboard!NoCase
    <3>5. x.stage = s
      BY <3>1
    <3> QED BY <3>2, <3>3, <3>4, <3>5
  <2>2. server \in [Shown -> {[Dashboard!NoCase EXCEPT !.stage = s] : s \in Starts}]
    BY DEF Dashboard!Init
  <2>3. ASSUME NEW c \in Shown
        PROVE  server[c] \in Known /\ (server[c] = Dashboard!NoCase \/ server[c].stage \in Dashboard!Stages)
    <3>1. PICK s \in Starts : server[c] = [Dashboard!NoCase EXCEPT !.stage = s]
      BY <2>2
    <3> QED BY <2>1, <3>1
  <2> QED BY <2>2, <2>3 DEF ServerInv
<1>2. PICK held : held = [c \in Shown |-> Dashboard!NoCase]
  OBVIOUS
<1>3. PICK q : q = [p \in Dashboard!Panels |-> Dashboard!NoOffer]
  OBVIOUS
<1>4. PICK busy : busy = [p \in Dashboard!Panels |-> FALSE]
  OBVIOUS
<1>5. screen = [held |-> held, selected |-> None, row |-> None,
                last |-> None, view |-> Dashboard!NoCase,
                mounted |-> FALSE, visible |-> FALSE, appears |-> FALSE, slides |-> FALSE,
                closing |-> FALSE, asks |-> q, busy |-> busy]
  BY <1>2, <1>3, <1>4 DEF Dashboard!Init
<1>6. /\ held \in [Shown -> Known] /\ \A c \in Shown : CopyIfAny(held[c], server[c])
      /\ q \in [Dashboard!Panels -> Offer] /\ \A p \in Dashboard!Panels : q[p] = Dashboard!NoOffer
      /\ busy \in [Dashboard!Panels -> BOOLEAN] /\ Dashboard!NoCase \in Known
  <2>1. Dashboard!NoCase \in Known
    BY DEF Dashboard!NoCase, Known
  <2>2. held \in [Shown -> Known] /\ \A c \in Shown : CopyIfAny(held[c], server[c])
    BY <1>2, <2>1 DEF CopyIfAny
  <2>3. busy \in [Dashboard!Panels -> BOOLEAN]
    BY <1>4
  <2>4. q \in [Dashboard!Panels -> Offer] /\ \A p \in Dashboard!Panels : q[p] = Dashboard!NoOffer
    BY <1>3, NoOfferIs
  <2> QED BY <2>1, <2>2, <2>3, <2>4
<1>7. screen \in ScreenRecord
  BY <1>5, <1>6 DEF ScreenRecord
<1>8. ScreenInv(screen, server) /\ OnScreen(screen)
  <2>1. screen.held = held /\ screen.last = None /\ screen.row = None /\ screen.mounted = FALSE /\ screen.asks = q
    BY <1>5
  <2>2. \A p \in {"workflow", "decision"} : Asked(screen, server, p)
    BY <1>6, <2>1 DEF Asked, Dashboard!Panels
  <2> QED BY <1>6, <1>7, <2>1, <2>2 DEF ScreenInv, OnScreen, Dashboard!Panels
<1>9. CallsInv
  <2>1. \A i \in Dashboard!CallForms : call[i] = Dashboard!NoCall
    BY DEF Dashboard!Init
  <2>2. \A i \in Dashboard!CallForms : CallInv(call[i], server)
    BY <2>1, NoCallIs
  <2>3. Dashboard!NoCall \in CallRecord
    BY NoCallIs DEF CallInv
  <2> QED BY <2>2, <2>3 DEF CallsInv, Dashboard!Init
<1> QED
  BY <1>1, <1>8, <1>9, ShownParts

LEMMA ShownNext == ASSUME CasesShown, [Dashboard!Next]_screenVars PROVE CasesShown'
<1>1. ASSUME NEW c \in Shown, Dashboard!Open(c) \/ Dashboard!Start(c) \/ Dashboard!Other(c) PROVE CasesShown'
  BY <1>1, OpenKeeps, StartKeeps, OtherKeeps
<1>2. ASSUME NEW p \in {"drawer", "workflow", "decision"},
             Dashboard!Ask(p) \/ Dashboard!Cancel(p) \/ Dashboard!Confirm(p)
      PROVE  CasesShown'
  BY <1>2, AskKeeps, ConfirmKeeps
<1>3. ASSUME NEW p \in {"workflow", "assignment"}, Dashboard!Pick(p) PROVE CasesShown'
  BY <1>3, PickKeeps
<1>4. ASSUME NEW i \in Dashboard!CallForms, Dashboard!Serve(i) \/ Dashboard!Fail(i) \/ Dashboard!Continue(i)
      PROVE  CasesShown'
  BY <1>4, ServeKeeps, FailKeeps, FetchedKeeps, DetailedKeeps, CreatedKeeps, ActedKeeps DEF Dashboard!Continue
<1>5. CASE \/ Dashboard!Fetch \/ Dashboard!Close \/ Dashboard!Escape \/ Dashboard!FireClose
           \/ Dashboard!Appear \/ Dashboard!SlidOut
  BY <1>5, FetchKeeps, MovesKeep, FireCloseKeeps, SlidOutKeeps
<1>6. CASE UNCHANGED screenVars
  <2>1. UNCHANGED <<server, screen, call>>
    BY <1>6 DEF screenVars
  <2> QED BY <2>1 DEF CasesShown
<1> QED
  BY <1>1, <1>2, <1>3, <1>4, <1>5, <1>6 DEF Dashboard!Next

LEMMA ShownTells == ASSUME CasesShown PROVE Dashboard!DrawerTells
<1>1. screen.row # None => screen.closing \/ (screen.mounted /\ (screen.visible \/ screen.appears \/ screen.slides))
  BY Zenon DEF CasesShown, OnScreen
<1>2. screen.asks["drawer"] # Dashboard!NoOffer => screen.asks["drawer"].id = screen.last
  BY DEF CasesShown, ScreenInv, Dashboard!OfferOf
<1> QED
  BY <1>1, <1>2, Zenon DEF Dashboard!DrawerTells

\* A call that waited is refused only by the server.
LEMMA SentRefusesNone ==
  ASSUME CallsInv, NEW i \in Dashboard!CallForms, call[i].answer = "waiting",
         NEW kind, NEW c, NEW to, NEW offer, Dashboard!Sent(kind, c, to, offer)
  PROVE  call'[i].answer # "refused"
<1>1. PICK k : k = [Dashboard!NoCall EXCEPT !.kind = kind, !.id = c, !.to = to, !.offer = offer, !.mine = TRUE,
                                      !.answer = "waiting"]
  OBVIOUS
<1>2. k.answer = "waiting"
  BY <1>1 DEF Dashboard!NoCall
<1>3. PICK j : call' = [call EXCEPT ![j] = k]
  BY <1>1 DEF Dashboard!Sent
<1> QED
  BY <1>2, <1>3 DEF CallsInv

LEMMA RefusedByServer ==
  ASSUME CasesShown, [Dashboard!Next]_<<server, call>>, NEW i \in Dashboard!CallForms, call[i].answer = "waiting",
         call'[i].answer = "refused"
  PROVE  Dashboard!Serve(i)
<1>0. CallsInv
  BY ShownParts
<1>1. ASSUME NEW kind, NEW c, NEW to, NEW offer, Dashboard!Sent(kind, c, to, offer) PROVE FALSE
  BY <1>0, <1>1, SentRefusesNone
<1>2. call' # call
  OBVIOUS
<1>3. ASSUME NEW j \in Dashboard!CallForms, Dashboard!Over(j) PROVE FALSE
  <2>1. Dashboard!NoCall.answer = "none"
    BY DEF Dashboard!NoCall
  <2> QED BY <1>0, <1>3, <2>1 DEF Dashboard!Over, CallsInv
<1>4. ASSUME NEW c \in Shown, Dashboard!Open(c) \/ Dashboard!Start(c) \/ Dashboard!Other(c) PROVE FALSE
  BY <1>1, <1>2, <1>4 DEF Dashboard!Open, Dashboard!Start, Dashboard!Other
<1>5. ASSUME NEW p \in {"drawer", "workflow", "decision"},
             Dashboard!Ask(p) \/ Dashboard!Cancel(p) \/ Dashboard!Confirm(p)
      PROVE  FALSE
  BY <1>1, <1>2, <1>5 DEF Dashboard!Ask, Dashboard!Cancel, Dashboard!Confirm
<1>6. ASSUME NEW p \in {"workflow", "assignment"}, Dashboard!Pick(p) PROVE FALSE
  BY <1>1, <1>6 DEF Dashboard!Pick
<1>7. ASSUME NEW j \in Dashboard!CallForms, Dashboard!Fail(j) PROVE FALSE
  BY <1>0, <1>7 DEF Dashboard!Fail, CallsInv, CallRecord
<1>8. ASSUME NEW j \in Dashboard!CallForms, Dashboard!Continue(j) PROVE FALSE
  <2>1. CASE Dashboard!Over(j)
    BY <1>3, <2>1
  <2>2. CASE Dashboard!Created(j) /\ ~Dashboard!Over(j)
    <3>1. PICK k : k = [Dashboard!NoCall EXCEPT !.kind = "detail", !.id = call[j].id, !.mine = TRUE,
                                                !.answer = "waiting"]
      OBVIOUS
    <3>2. k.answer = "waiting"
      BY <3>1 DEF Dashboard!NoCall
    <3>3. call' = [call EXCEPT ![j] = k]
      BY <2>2, <3>1 DEF Dashboard!Created
    <3> QED BY <1>0, <3>2, <3>3 DEF CallsInv
  <2> QED BY <1>8, <2>1, <2>2 DEF Dashboard!Continue, Dashboard!Fetched, Dashboard!Detailed, Dashboard!Acted
<1>9. CASE Dashboard!SlidOut
  <2>1. PICK m : m = (call[i].mine /\ call[i].kind = "drawer")
    OBVIOUS
  <2>2. call'[i] = [call[i] EXCEPT !.mine = m]
    BY <1>9, <2>1, Zenon DEF Dashboard!SlidOut
  <2>3. call[i] \in CallRecord
    BY <1>0 DEF CallsInv
  <2> QED BY <2>2, <2>3 DEF CallRecord
<1>10. CASE \/ Dashboard!Fetch \/ Dashboard!Close \/ Dashboard!Escape \/ Dashboard!FireClose \/ Dashboard!Appear
  BY <1>1, <1>2, <1>10 DEF Dashboard!Fetch, Dashboard!Close, Dashboard!Escape, Dashboard!FireClose, Dashboard!Appear
<1>11. ASSUME NEW j \in Dashboard!CallForms, Dashboard!Serve(j) PROVE j = i
  BY <1>0, <1>11 DEF Dashboard!Serve, CallsInv
<1> QED
  BY <1>2, <1>4, <1>5, <1>6, <1>7, <1>8, <1>9, <1>10, <1>11 DEF Dashboard!Next

\* It refuses nothing that the user was offered for the case as it is.
LEMMA OfferStands == ASSUME CasesShown, [Dashboard!Next]_<<server, call>> PROVE Dashboard!OfferHeld
<1>1. SUFFICES ASSUME NEW i \in Dashboard!CallForms, call[i].answer = "waiting", call'[i].answer = "refused",
                      call[i].offer.id = call[i].id, call[i].offer.changes = server[call[i].id].changes
               PROVE  FALSE
  BY DEF Dashboard!OfferHeld
<1>2. Dashboard!Serve(i)
  BY <1>1, RefusedByServer
<1>3. CallInv(call[i], server) /\ call[i] \in CallRecord
  BY ShownParts DEF CallsInv
<1>4. call[i].kind # "list" /\ ~Dashboard!Accepts(server[call[i].id], call[i])
  <2>1. CASE call[i].kind = "list"
    <3>1. call' = [call EXCEPT ![i].answer = "done", ![i].read = server]
      BY <1>2, <2>1 DEF Dashboard!Serve
    <3> QED BY <1>1, <1>3, <3>1, ShownParts DEF CallsInv, CallRecord
  <2>2. CASE call[i].kind # "list" /\ Dashboard!Accepts(server[call[i].id], call[i])
    <3>1. call' = [call EXCEPT ![i].answer = "done", ![i].read[call[i].id] = server'[call[i].id]]
      BY <1>2, <2>2 DEF Dashboard!Serve
    <3> QED BY <1>1, <1>3, <3>1, ShownParts DEF CallsInv, CallRecord
  <2> QED BY <2>1, <2>2
<1>5. call[i].kind \in Dashboard!Panels
  BY <1>4 DEF Dashboard!Accepts, Dashboard!Panels
<1> QED
  BY <1>1, <1>3, <1>4, <1>5 DEF CallInv

\* Whatever cases are opened, closed, changed and deleted on the dashboard and elsewhere, in whatever
\* order answers come: the selected case is on the screen or on its way, and the drawer asks to delete
\* no other case than the one it shows.
THEOREM DrawerIsTrue == CasesSpec => []DrawerTells
<1>1. CasesInit => (part = "screen" => CasesShown)
  BY ShownInit DEF CasesInit
<1>2. (part = "screen" => CasesShown) /\ [CasesNext]_<<part, vars, outcomeVars, screenVars>>
        => (part = "screen" => CasesShown)'
  BY StepIs, ShownNext
<1>3. (part = "screen" => CasesShown) => DrawerTells
  BY ShownTells DEF DrawerTells
<1> QED
  BY <1>1, <1>2, <1>3, PTL DEF CasesSpec

\* The server refuses a call that the user was offered only if the case has changed since it was shown,
\* or the question had been asked of another case: the dashboard's table of stages and the server's agree.
THEOREM OffersStand == CasesSpec => RefusedOnlyLate
<1>1. CasesInit => (part = "screen" => CasesShown)
  BY ShownInit DEF CasesInit
<1>2. (part = "screen" => CasesShown) /\ [CasesNext]_<<part, vars, outcomeVars, screenVars>>
        => (part = "screen" => CasesShown)'
  BY StepIs, ShownNext
<1>3. (part = "screen" => CasesShown) /\ [CasesNext]_<<part, vars, outcomeVars, screenVars>>
        => [part = "screen" => Dashboard!OfferHeld]_<<server, call>>
  <2>1. SUFFICES ASSUME part = "screen", CasesShown, [Dashboard!Next]_screenVars, <<server, call>>' # <<server, call>>
                 PROVE  Dashboard!OfferHeld
    BY StepIs
  <2>2. [Dashboard!Next]_<<server, call>>
    BY <2>1 DEF screenVars
  <2> QED BY <2>1, <2>2, OfferStands
<1> QED
  BY <1>1, <1>2, <1>3, PTL DEF CasesSpec, RefusedOnlyLate

=============================================================================
