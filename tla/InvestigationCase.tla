-------------------------- MODULE InvestigationCase --------------------------
(***************************************************************************)
(* Investigation cases: the automatic runs that open and re-evaluate them  *)
(* (autoCreateFromSearch) and the operators' calls that move, decide and   *)
(* edit them, from src/modules/investigation/, and the deletion of a       *)
(* search with its cases (deleteSearch).                                   *)
(*                                                                         *)
(* Runs and calls are in different processes (the worker and two API       *)
(* processes) and share the table only.  Every save is of an entity read   *)
(* earlier: TypeORM selects the row again by its id, and updates the       *)
(* columns in which it differs from the entity, or inserts the entity if   *)
(* the row is gone.  A row is kept as its id, its status, its decision and *)
(* the number of its caseNo; the AI score, the watchlist flag, priority,   *)
(* notes and timeline are data that no guard reads.  Case numbers are      *)
(* those of one day.                                                       *)
(***************************************************************************)
EXTENDS Naturals, FiniteSets

CONSTANTS
  Listings,        \* identifiers of crawler results
  Ids,             \* identifiers of cases (a bound on how many are ever created)
  Runs,            \* executions of autoCreateFromSearch (a bound)
  Calls,           \* calls of the API under way at a time (a bound)
  Decisions        \* final decisions, with their notes

ASSUME InvestigationAssumption ==
  /\ Runs \cap Calls = {}
  /\ "none" \notin Decisions /\ "none" \notin Listings /\ "none" \notin Ids

VARIABLES
  row,      \* the case of each listing (unique result_id), or NoCase
  reached,  \* the statuses each case has had (history variable)
  given,    \* the number each case was given, or 0 (history variable)
  run,      \* the loop of each automatic run
  actor     \* what each run or call is doing to one case

vars == <<row, reached, given, run, actor>>

Statuses == {"Open", "Investigating", "Review", "Completed", "Archived"}
Actors == Runs \cup Calls
Columns == {"status", "decision"}

NoCase == [id |-> "none", status |-> "none", decision |-> "none", no |-> 0]
NewCase(n) == [id |-> "none", status |-> "Open", decision |-> "none", no |-> n]
HasCase(l) == row[l].status # "none"

Idle == [pc |-> "idle", at |-> "none", entity |-> NoCase, diff |-> {}]
NotStarted == [state |-> "new", todo |-> {}, worth |-> {}]

Init ==
  /\ row = [l \in Listings |-> NoCase]
  /\ reached = [i \in Ids |-> {}]
  /\ given = [i \in Ids |-> 0]
  /\ run = [r \in Runs |-> NotStarted]
  /\ actor = [a \in Actors |-> Idle]

-----------------------------------------------------------------------------
(* The workflow *)

\* The status after each one; Archived is locked.
Successor == [Open |-> "Investigating", Investigating |-> "Review",
              Review |-> "Completed", Completed |-> "Archived"]

\* A slip: the dropdown offers every later status.
SelectableLater(from) ==
  IF from = "Archived" THEN {from} ELSE Statuses \ {"Open"}

Selectable(from) == IF from = "Archived" THEN {from} ELSE {from, Successor[from]}

CanTransition(from, to) == from = to \/ to \in Selectable(from)

-----------------------------------------------------------------------------
(* Saving an entity, by a run or by a call *)

\* caseRepo.save: the row is read again by its id, and compared; an entity whose row has been
\* deleted is inserted once more, with its id and its number.
SaveSelect(a) ==
  LET old == row[actor[a].at]
      entity == actor[a].entity
  IN /\ actor[a].pc = "saving"
     /\ actor' = [actor EXCEPT ![a] =
          IF old.id = entity.id
          THEN [@ EXCEPT !.pc = "updating", !.diff = {k \in Columns : entity[k] # old[k]}]
          ELSE [@ EXCEPT !.pc = "inserting"]]
     /\ UNCHANGED <<row, reached, given, run>>

Merged(old, entity, diff) ==
  [old EXCEPT !.status = IF "status" \in diff THEN entity.status ELSE @,
              !.decision = IF "decision" \in diff THEN entity.decision ELSE @]

\* The columns that differed are updated ...
SaveUpdate(a) ==
  LET l == actor[a].at
      new == Merged(row[l], actor[a].entity, actor[a].diff)
  IN /\ actor[a].pc = "updating" /\ row[l].id = actor[a].entity.id
     /\ row' = [row EXCEPT ![l] = new]
     /\ reached' = [reached EXCEPT ![new.id] = @ \cup {new.status}]
     /\ actor' = [actor EXCEPT ![a] = Idle]
     /\ UNCHANGED <<given, run>>

\* ... or no row has the id any more: nothing is updated, and nobody notices.
SaveMisses(a) ==
  /\ actor[a].pc = "updating" /\ row[actor[a].at].id # actor[a].entity.id
  /\ actor' = [actor EXCEPT ![a] = Idle]
  /\ UNCHANGED <<row, reached, given, run>>

-----------------------------------------------------------------------------
(* Creating a case: createCaseFromResult *)

\* A slip: the first number of a day is zero.
FirstNumberZero == 0

FirstNumber == 1

\* nextCaseNumber: one more than the highest there is.
NextNumbers ==
  IF \A l \in Listings : ~HasCase(l) THEN {FirstNumber}
  ELSE {row[l].no + 1 : l \in {m \in Listings : HasCase(m) /\ \A k \in Listings : row[k].no <= row[m].no}}

\* The AI's analysis of the listing is awaited between the number and the insertion.
TakeNumber(a) ==
  /\ actor[a].pc = "numbering"
  /\ \E n \in NextNumbers :
       actor' = [actor EXCEPT ![a].pc = "inserting", ![a].entity = NewCase(n)]
  /\ UNCHANGED <<row, reached, given, run>>

\* A slip: the index on case_no is missing.
CollidesOnListing(l, n) == HasCase(l)

\* The unique indexes on result_id and case_no.
Collides(l, n) == HasCase(l) \/ \E k \in Listings : HasCase(k) /\ row[k].no = n

\* A new case gets an identifier that none has had.
IdsFor(entity) == IF entity.id = "none" THEN {i \in Ids : reached[i] = {}} ELSE {entity.id}

Insert(a) ==
  LET l == actor[a].at
      entity == actor[a].entity
  IN /\ actor[a].pc = "inserting" /\ ~Collides(l, entity.no)
     /\ \E i \in IdsFor(entity) :
          /\ row' = [row EXCEPT ![l] = [entity EXCEPT !.id = i]]
          /\ reached' = [reached EXCEPT ![i] = @ \cup {entity.status}]
          /\ given' = [given EXCEPT ![i] = entity.no]
     /\ actor' = [actor EXCEPT ![a] = Idle]
     /\ UNCHANGED run

\* A slip: the listing whose insertion failed is passed over.
PassOver(r) == UNCHANGED run

\* Nothing in the loop catches an error: the rest of the run is dropped, and the callers log it.
Abort(r) == run' = [run EXCEPT ![r].state = "aborted", ![r].todo = {}]

\* The insertion violates an index, and save throws.
InsertFails(a) ==
  /\ actor[a].pc = "inserting" /\ Collides(actor[a].at, actor[a].entity.no)
  /\ actor' = [actor EXCEPT ![a] = Idle]
  /\ IF a \in Runs THEN Abort(a) ELSE UNCHANGED run
  /\ UNCHANGED <<row, reached, given>>

-----------------------------------------------------------------------------
(* An automatic run: autoCreateFromSearch *)

\* The run is given its results.
StartRun(r) ==
  /\ run[r].state = "new"
  /\ \E results \in SUBSET Listings :
       run' = [run EXCEPT ![r].state = "going", ![r].todo = results]
  /\ UNCHANGED <<row, reached, given, actor>>

\* The listing the loop has come to.
AtListing(r, l) == run[r].state = "going" /\ actor[r].pc = "idle" /\ l \in run[r].todo

\* The rules exclude the listing, or its score is too low.
Dismiss(r, l) ==
  /\ AtListing(r, l)
  /\ run' = [run EXCEPT ![r].todo = @ \ {l}]
  /\ UNCHANGED <<row, reached, given, actor>>

\* recordAiExcludeRecommendation: an AI result that is excluded is noted in its case, whatever
\* the status of the case.
RecordExclude(r, l) ==
  /\ AtListing(r, l) /\ HasCase(l)
  /\ run' = [run EXCEPT ![r].todo = @ \ {l}]
  /\ actor' = [actor EXCEPT ![r] = [pc |-> "saving", at |-> l, entity |-> row[l], diff |-> {}]]
  /\ UNCHANGED <<row, reached, given>>

\* The listing is worth a case; "worth" is remembered for RunCovers, until the case is deleted.
Worth(r, l) == run' = [run EXCEPT ![r].todo = @ \ {l}, ![r].worth = @ \cup {l}]

\* It has one: without an AI result, or once the case is not Open, it is left alone.
Leave(r, l) ==
  /\ AtListing(r, l) /\ HasCase(l)
  /\ Worth(r, l)
  /\ UNCHANGED <<row, reached, given, actor>>

\* updateCaseFromAiResult saves a copy of the Open case that was found.
Reevaluate(r, l) ==
  /\ AtListing(r, l) /\ HasCase(l) /\ row[l].status = "Open"
  /\ Worth(r, l)
  /\ actor' = [actor EXCEPT ![r] = [pc |-> "saving", at |-> l, entity |-> row[l], diff |-> {}]]
  /\ UNCHANGED <<row, reached, given>>

\* It has none: createCaseFromResult.
Create(r, l) ==
  /\ AtListing(r, l) /\ ~HasCase(l)
  /\ Worth(r, l)
  /\ actor' = [actor EXCEPT ![r].pc = "numbering", ![r].at = l]
  /\ UNCHANGED <<row, reached, given>>

EndRun(r) ==
  /\ run[r].state = "going" /\ actor[r].pc = "idle" /\ run[r].todo = {}
  /\ run' = [run EXCEPT ![r].state = "over"]
  /\ UNCHANGED <<row, reached, given, actor>>

\* An error of the database, or the end of the process.
RunFails(r) ==
  /\ run[r].state = "going"
  /\ Abort(r)
  /\ actor' = [actor EXCEPT ![r] = Idle]
  /\ UNCHANGED <<row, reached, given>>

-----------------------------------------------------------------------------
(* Operators' calls *)

\* updateStatus, where the status changes.
Moved(case) ==
  {[case EXCEPT !.status = s] : s \in {t \in Statuses \ {case.status} : CanTransition(case.status, t)}}

\* applyFinalDecision, where the decision is new.
Decided(case) ==
  {[case EXCEPT !.status = "Completed", !.decision = d] :
     d \in {e \in Decisions : case.status # "Archived" /\ ~(case.status = "Completed" /\ e = case.decision)}}

\* The entity a call will save: addNote, updateNote, deleteNote and updateAssignment change none
\* of the columns kept here.
Edited(case) == Moved(case) \cup Decided(case) \cup {case}

\* requireCase, and the changes made to the entity.
CallEdit(c, l) ==
  /\ actor[c].pc = "idle" /\ HasCase(l)
  /\ \E e \in Edited(row[l]) :
       actor' = [actor EXCEPT ![c] = [pc |-> "saving", at |-> l, entity |-> e, diff |-> {}]]
  /\ UNCHANGED <<row, reached, given, run>>

\* createManual, for a listing without a case (it returns the case there is).
CallCreate(c, l) ==
  /\ actor[c].pc = "idle" /\ ~HasCase(l)
  /\ actor' = [actor EXCEPT ![c].pc = "numbering", ![c].at = l]
  /\ UNCHANGED <<row, reached, given, run>>

-----------------------------------------------------------------------------
(* Deleting a search: deleteSearch *)

\* The cases of a search go with it; which ones are its is data.  Runs and calls go on with what
\* they have in hand.
DeleteSearch ==
  \E ls \in SUBSET {l \in Listings : HasCase(l)} \ {{}} :
    /\ row' = [l \in Listings |-> IF l \in ls THEN NoCase ELSE row[l]]
    /\ run' = [r \in Runs |-> [run[r] EXCEPT !.worth = @ \ ls]]
    /\ UNCHANGED <<reached, given, actor>>

Next ==
  \/ \E a \in Actors :
       \/ SaveSelect(a) \/ SaveUpdate(a) \/ SaveMisses(a)
       \/ TakeNumber(a) \/ Insert(a) \/ InsertFails(a)
  \/ \E r \in Runs : StartRun(r) \/ EndRun(r) \/ RunFails(r)
  \/ \E r \in Runs, l \in Listings :
       Dismiss(r, l) \/ RecordExclude(r, l) \/ Leave(r, l) \/ Reevaluate(r, l) \/ Create(r, l)
  \/ \E c \in Calls, l \in Listings : CallEdit(c, l) \/ CallCreate(c, l)
  \/ DeleteSearch

Spec == Init /\ [][Next]_vars

-----------------------------------------------------------------------------
(* Properties *)

Case == [id : Ids, status : Statuses, decision : Decisions \cup {"none"}, no : Nat \ {0}]
Unsaved == [id : {"none"}, status : {"Open"}, decision : {"none"}, no : Nat \ {0}]

RunRecord == [state : {"new", "going", "over", "aborted"},
              todo : SUBSET Listings, worth : SUBSET Listings]

ActorRecord == [pc : {"idle", "numbering", "inserting", "saving", "updating"},
                at : Listings \cup {"none"}, entity : Case \cup Unsaved \cup {NoCase},
                diff : SUBSET Columns]

TypeOK ==
  /\ row \in [Listings -> Case \cup {NoCase}]
  /\ reached \in [Ids -> SUBSET Statuses]
  /\ given \in [Ids -> Nat]
  /\ run \in [Runs -> RunRecord]
  /\ actor \in [Actors -> ActorRecord]

\* The statuses that a case must have had before a status; Completed needs none, because a final
\* decision completes a case at once.
Before == [Open |-> {}, Investigating |-> {"Open"}, Review |-> {"Investigating"},
           Completed |-> {}, Archived |-> {"Completed"}]

\* However stale the copies that runs and operators save over each other, or of a case that was
\* deleted, no case gets to a status without the one before it, and none has a final decision that
\* was never completed.
StagesInOrder ==
  /\ \A i \in Ids : \A s \in reached[i] : Before[s] \subseteq reached[i]
  /\ \A l \in Listings : row[l].decision # "none" => "Completed" \in reached[row[l].id]

\* Two creations that read the same highest number do not both get it, nor does a deleted case that
\* is saved again get a number that was given out since; and a creation that fails leaves no gap:
\* below the number of a case, the only ones missing are those of cases that were deleted.
NumbersWithoutGap ==
  \A l \in Listings : HasCase(l) =>
    /\ \A k \in Listings \ {l} : row[k].no # row[l].no
    /\ \A n \in 1..row[l].no : \E i \in Ids : given[i] = n

\* A run that reports its end has left a case for every listing it found worth one, unless the case
\* was deleted since, whoever created it: a collision ends the run instead of passing over the listing.
RunCovers == \A r \in Runs : run[r].state = "over" => \A l \in run[r].worth : HasCase(l)

\* An automatic run never changes the status of a case: what an operator has moved or decided is
\* not undone by a re-evaluation.
HumanStatusKept ==
  [][\A r \in Runs : actor'[r] # actor[r] =>
       \A l \in Listings : HasCase(l) => row'[l].status = row[l].status]_vars

=============================================================================
