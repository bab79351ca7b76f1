-------------------------- MODULE SearchJobProofs --------------------------
(***************************************************************************)
(* Proofs about SearchJob, for any set of keywords, handlers and resend    *)
(* calls and any number of errors and crawl executions; and what is        *)
(* proved of CrawlStore, for the searches of Searching.                    *)
(***************************************************************************)
EXTENDS Searching, FiniteSetTheorems, TLAPS

-----------------------------------------------------------------------------
(* Operators *)

\* The counts of resolveJobStatusFromHistories decide what its comment says:
\* a completed job has only successful keywords, a partial one at least one.
LEMMA ResolveSound ==
  ASSUME NEW st, IsFiniteSet(DOMAIN st)
  PROVE  /\ ResolveJobStatus(st) \in TerminalJobStatus
         /\ ResolveJobStatus(st) = "completed" => \A k \in DOMAIN st : st[k] \in SuccessStatus
         /\ ResolveJobStatus(st) = "partial" => \E k \in DOMAIN st : st[k] \in SuccessStatus
<1> DEFINE S == Having(st, SuccessStatus)
<1>1. S \subseteq DOMAIN st
  BY DEF Having
<1>2. /\ IsFiniteSet(S) /\ Cardinality(S) \in Nat /\ Cardinality(DOMAIN st) \in Nat
      /\ Cardinality(S) = Cardinality(DOMAIN st) => S = DOMAIN st
  BY <1>1, FS_Subset, FS_CardinalityType
<1>3. Cardinality(S) > 0 => S # {}
  BY <1>2, FS_EmptySet
<1> HIDE DEF S
<1>4. /\ ResolveJobStatus(st) \in {"completed", "partial", "failed"}
      /\ ResolveJobStatus(st) = "completed" => Cardinality(S) = Cardinality(DOMAIN st)
      /\ ResolveJobStatus(st) = "partial" => Cardinality(S) > 0
  BY <1>2 DEF ResolveJobStatus, S
<1>5. \A k \in S : k \in DOMAIN st /\ st[k] \in SuccessStatus
  BY DEF S, Having
<1> QED
  BY <1>2, <1>3, <1>4, <1>5 DEF TerminalJobStatus

LEMMA VerdictOnSound ==
  ASSUME JobAssumption, TypeOK, NEW j \in Job
  PROVE  /\ VerdictOn(rows, j) \in TerminalJobStatus
         /\ VerdictOn(rows, j) = "completed" => \A k \in Recorded(rows) : rows[k] \in SuccessStatus
         /\ VerdictOn(rows, j) = "partial" => \E k \in Recorded(rows) : rows[k] \in SuccessStatus
<1>1. DOMAIN Statuses(rows) = Recorded(rows) /\ \A k \in Recorded(rows) : Statuses(rows)[k] = rows[k]
  BY DEF Statuses
<1>2. IsFiniteSet(Recorded(rows))
  BY FS_Subset DEF Recorded, JobAssumption
<1>3. /\ ResolveJobStatus(Statuses(rows)) \in TerminalJobStatus
      /\ ResolveJobStatus(Statuses(rows)) = "completed"
           => \A k \in Recorded(rows) : rows[k] \in SuccessStatus
      /\ ResolveJobStatus(Statuses(rows)) = "partial"
           => \E k \in Recorded(rows) : rows[k] \in SuccessStatus
  <2> HIDE DEF Statuses
  <2> QED BY <1>1, <1>2, ResolveSound
<1> QED
  BY <1>3 DEF VerdictOn, TerminalJobStatus

\* An UPDATE takes every column from the entity or from the row.
LEMMA MergedColumns ==
  ASSUME NEW row \in Job, NEW entity \in Job, NEW cols
  PROVE  /\ Merged(row, entity, cols) \in Job
         /\ Merged(row, entity, cols).status \in {row.status, entity.status}
         /\ Merged(row, entity, cols).callbackSentAt
              => row.callbackSentAt \/ entity.callbackSentAt
  BY DEF Merged, Job

\* The progress handlers never write a terminal status.
LEMMA RefreshedActive ==
  ASSUME NEW j \in Job, ~Terminal(j),
         NEW e \in {"queued", "running", "completed", "partial", "failed"}
  PROVE  Refreshed(j, e) \in ActiveJobStatus
  BY DEF Refreshed, Job, JobStatusSet, ActiveJobStatus, Terminal, TerminalStatus

-----------------------------------------------------------------------------
(* Type correctness *)

\* A handler knows its event until it has read the job; the job entity it holds
\* afterwards is active.
HandlerOK ==
  \A h \in Handlers :
    /\ hand[h].pc \in {"row", "job"} => hand[h].keyword \in Keywords /\ hand[h].status # "none"
    /\ hand[h].pc \in {"select", "update"} => ~Terminal(hand[h].copy)

CrawlEvents == {"queued", "running", "completed", "partial", "failed"}

LEMMA PublishEffect ==
  ASSUME TypeOK, HandlerOK, NEW k \in Keywords, NEW s \in CrawlEvents, Publish(k, s)
  PROVE  /\ hand' \in [Handlers -> HandlerState]
         /\ HandlerOK'
         /\ \A h \in Handlers :
              hand'[h] # hand[h] =>
                hand'[h].pc = "row" /\ hand'[h].keyword = k /\ hand'[h].status = s
                /\ hand'[h].copy = FreshJob
<1>1. FreshJob \in Job
  BY DEF FreshJob, Job, JobStatusSet, ActiveJobStatus
<1> DEFINE fresh == Started(k, s)
<1>2. fresh \in HandlerState
  BY <1>1 DEF HandlerState, Started, CrawlEvents
<1>4. PICK H \in SUBSET Handlers :
        hand' = [h \in Handlers |-> IF h \in H THEN fresh ELSE hand[h]]
  BY DEF Publish
<1>5. hand \in [Handlers -> HandlerState]
  BY DEF TypeOK
<1>6. fresh.pc = "row" /\ fresh.keyword = k /\ fresh.status = s /\ fresh.copy = FreshJob
  BY DEF Started
<1> HIDE DEF fresh
<1>7. hand' \in [Handlers -> HandlerState]
  BY <1>2, <1>4, <1>5
<1>8. \A h \in Handlers : hand'[h] = fresh \/ hand'[h] = hand[h]
  BY <1>4
<1>9. HandlerOK'
  BY <1>6, <1>8 DEF HandlerOK, CrawlEvents
<1> QED
  BY <1>6, <1>7, <1>8, <1>9

\* What the controller relies on from one step to the next: the keyword it is
\* at, the continuation of its save, the status it is about to report; the
\* entity it holds is active unless it is about to write a verdict.
ControllerOK ==
  /\ \/ pc \in {"search", "announce", "record", "saveRow"}
     \/ pc \in {"select", "update"} /\ ret = "search"
     => cur \in Keywords
  /\ pc \in {"select", "update"} => ret # "none" /\ (Terminal(copy) <=> IsVerdict(ret))
  /\ pc \in {"start", "keyword", "search", "announce", "record", "rows", "pollRow", "saveRow"}
       => ~Terminal(copy)
  /\ pc = "post" => got \in {"completed", "partial"}
  /\ \A r \in Resenders : resend[r].pc = "post" => resend[r].payload \in {"completed", "partial"}

TypeInv == TypeOK /\ HandlerOK /\ ControllerOK

LEMMA FreshJobType == FreshJob \in Job /\ ~Terminal(FreshJob)
  BY DEF FreshJob, Job, JobStatusSet, ActiveJobStatus, TerminalJobStatus, Terminal

LEMMA JobUpdates ==
  ASSUME NEW row \in Job
  PROVE  /\ Sent(row) \in Job /\ Sent(row).status = row.status
         /\ Failing(row) \in Job /\ Failing(row).status = row.status
         /\ Failing(row).callbackSentAt = row.callbackSentAt
         /\ \A v \in JobStatusSet :
              /\ [row EXCEPT !.status = v] \in Job
              /\ [row EXCEPT !.status = v, !.finishedAt = TRUE] \in Job
              /\ [row EXCEPT !.status = v].status = v
              /\ [row EXCEPT !.status = v, !.finishedAt = TRUE].status = v
              /\ [row EXCEPT !.status = v].callbackSentAt = row.callbackSentAt
              /\ [row EXCEPT !.status = v, !.finishedAt = TRUE].callbackSentAt
                   = row.callbackSentAt
  BY DEF Sent, Failing, Job

LEMMA ActiveIsNotTerminal ==
  /\ ActiveJobStatus \subseteq JobStatusSet /\ TerminalJobStatus \subseteq JobStatusSet
  /\ ActiveJobStatus \cap TerminalJobStatus = {}
  BY DEF ActiveJobStatus, TerminalJobStatus, JobStatusSet

\* The steps of a handler under way keep its state well-typed.
LEMMA HandlerUpdates ==
  ASSUME NEW x \in HandlerState
  PROVE  /\ [x EXCEPT !.pc = "job"] \in HandlerState
         /\ \A D \in SUBSET Columns : [x EXCEPT !.pc = "update", !.dirty = D] \in HandlerState
  BY DEF HandlerState

LEMMA InitTypeInv == JobAssumption /\ Init => TypeInv
<1> SUFFICES ASSUME JobAssumption, Init PROVE TypeInv
  OBVIOUS
<1>1. IdleHandler \in HandlerState
  BY FreshJobType DEF IdleHandler, HandlerState
<1>2. hand \in [Handlers -> HandlerState]
  BY <1>1 DEF Init
<1>3. runs \in [Keywords -> 0..MaxRuns] /\ faults \in 0..MaxFaults
  BY DEF Init, JobAssumption
<1>4. TypeOK
  BY <1>2, <1>3, FreshJobType DEF Init, TypeOK
<1>5. HandlerOK /\ ControllerOK
  BY DEF Init, HandlerOK, ControllerOK, IdleHandler
<1> QED
  BY <1>4, <1>5 DEF TypeInv

LEMMA ControllerTypeInv == JobAssumption /\ TypeInv /\ Controller => TypeInv'
<1> SUFFICES ASSUME JobAssumption, TypeInv, Controller PROVE TypeInv'
  OBVIOUS
<1> USE DEF TypeInv, TypeOK, HandlerOK, ControllerOK, crawlVars, timeVars
<1>1. CASE SaveSelect
  BY <1>1 DEF SaveSelect, Differing, Columns, IsVerdict
<1>2. CASE SaveUpdate
  <2>1. job' \in Job
    BY <1>2, MergedColumns DEF SaveUpdate
  <2>2. decided' \subseteq TerminalJobStatus
    BY <1>2 DEF SaveUpdate, Terminal
  <2> QED
    BY <1>2, <2>1, <2>2, FreshJobType DEF SaveUpdate, IsVerdict, Terminal
<1>3. CASE StartRun
  BY <1>3 DEF StartRun, Job, JobStatusSet, ActiveJobStatus,
      TerminalJobStatus, Terminal
<1>4. CASE StartSearching
  BY <1>4 DEF StartSearching, Job, JobStatusSet, ActiveJobStatus,
      TerminalJobStatus, Terminal
<1>5. CASE SearchHit
  BY <1>5 DEF SearchHit, RowStatus, TerminalStatus
<1>6. CASE SearchQueued
  BY <1>6 DEF SearchQueued, RowStatus
<1>7. CASE Announce
  BY <1>7, PublishEffect DEF Announce, CrawlEvents
<1>8. CASE RecordHistory
  <2>1. faults' \in 0..MaxFaults
    BY <1>8 DEF RecordHistory, SwallowedError, JobAssumption
  <2>2. rows' \in [Keywords -> RowStatus \cup {"none"}]
    BY <1>8 DEF RecordHistory
  <2>3. copy' \in Job /\ copy'.status = copy.status
    BY <1>8 DEF RecordHistory, Represented, Job
  <2> QED
    BY <1>8, <2>1, <2>2, <2>3 DEF RecordHistory, Terminal
<1>9. CASE ListHistories
  BY <1>9 DEF ListHistories, Save, Job, JobStatusSet, ActiveJobStatus,
      TerminalJobStatus, IsVerdict, Terminal
<1>10. CASE Poll
  BY <1>10 DEF Poll
<1>11. CASE ReadRows
  BY <1>11 DEF ReadRows, Pending, Recorded
<1>12. CASE ExpireRows
  BY <1>12 DEF ExpireRows, RowStatus, TerminalStatus
<1>13. CASE SaveRow
  <2>1. faults' \in 0..MaxFaults
    BY <1>13 DEF SaveRow, SwallowedError, JobAssumption
  <2>2. rows' \in [Keywords -> RowStatus \cup {"none"}]
    BY <1>13 DEF SaveRow
  <2> QED
    BY <1>13, <2>1, <2>2 DEF SaveRow, Terminal
<1>14. CASE Refresh
  BY <1>14 DEF Refresh, Save, IsVerdict, Terminal
<1>15. CASE Finalize
  BY <1>15 DEF Finalize
<1>16. CASE Verdict
  <2> DEFINE v == VerdictOn(rows, copy)
  <2>1. v \in TerminalJobStatus
    BY VerdictOnSound
  <2>2. /\ copy' = [copy EXCEPT !.status = v, !.finishedAt = TRUE]
        /\ pc' = "select" /\ ret' = IF v = "failed" THEN "done" ELSE "callback"
    BY <1>16 DEF Verdict, Save, Judged
  <2> HIDE DEF v
  <2>3. copy' \in Job /\ copy'.status = v
    <3>1. v \in JobStatusSet
      BY <2>1, ActiveIsNotTerminal
    <3> QED
      BY <2>2, <3>1 DEF Job
  <2> QED
    BY <1>16, <2>1, <2>2, <2>3 DEF Verdict, IsVerdict, Terminal
<1>17. CASE ReadForCallback
  BY <1>17 DEF ReadForCallback, Payload, Reportable, RowStatus, TerminalStatus
<1>18. CASE Post
  BY <1>18 DEF Post, Notified, AfterPost
<1>19. CASE MarkSent
  BY ZenonT(40), <1>19, JobUpdates DEF MarkSent
<1>20. CASE MarkError
  BY ZenonT(40), <1>20, JobUpdates DEF MarkError
<1>21. CASE Catch
  BY <1>21, JobUpdates, ActiveIsNotTerminal DEF Catch, TerminalJobStatus
<1>22. ASSUME NEW k \in Keywords, NextKeyword(k) PROVE TypeInv'
  BY <1>22 DEF NextKeyword, Save, IsVerdict, Terminal
<1>23. ASSUME NEW k \in Keywords, TimeOutRow(k) PROVE TypeInv'
  BY <1>23 DEF TimeOutRow, RowStatus, TerminalStatus
<1>24. ASSUME NEW k \in Keywords, GetSearch(k) PROVE TypeInv'
  BY <1>24 DEF GetSearch, RowStatus, TerminalStatus
<1> QED
  BY <1>1, <1>2, <1>3, <1>4, <1>5, <1>6, <1>7, <1>8, <1>9, <1>10, <1>11, <1>12, <1>13, <1>14, <1>15, <1>16, <1>17, <1>18, <1>19, <1>20, <1>21, <1>22, <1>23, <1>24 DEF Controller

LEMMA HandlerTypeInv ==
  ASSUME JobAssumption, TypeInv, NEW h \in Handlers, Handler(h)
  PROVE  TypeInv'
<1> USE DEF TypeInv, TypeOK, HandlerOK, ControllerOK, crawlVars, timeVars, ctlVars, chainVars
<1>1. CASE HandleRow(h)
  <2>1. faults' \in 0..MaxFaults
    BY <1>1 DEF HandleRow, SwallowedError, JobAssumption
  <2>2. rows' \in [Keywords -> RowStatus \cup {"none"}]
    BY <1>1 DEF HandleRow, HandlerState, RowStatus, TerminalStatus
  <2>3. hand' \in [Handlers -> HandlerState]
    <3> DEFINE e == [hand[h] EXCEPT !.pc = "job"]
    <3>1. e \in HandlerState
      BY HandlerUpdates
    <3>2. hand' = [hand EXCEPT ![h] = e]
      BY <1>1 DEF HandleRow
    <3> HIDE DEF e
    <3> QED
      BY <3>1, <3>2
  <2>4. HandlerOK'
    BY <1>1 DEF HandleRow, HandlerState, Terminal
  <2> QED
    BY <1>1, <2>1, <2>2, <2>3, <2>4 DEF HandleRow, Terminal
<1>2. CASE HandleJob(h)
  <2> DEFINE e == [job EXCEPT !.status = Refreshed(job, hand[h].status)]
  <2>1. CASE hand' = [hand EXCEPT ![h] = IdleHandler]
    <3>1. IdleHandler \in HandlerState
      BY FreshJobType DEF IdleHandler, HandlerState
    <3>2. hand' \in [Handlers -> HandlerState] /\ HandlerOK'
      BY <2>1, <3>1 DEF IdleHandler, Terminal
    <3> QED
      BY <1>2, <3>2 DEF HandleJob, Terminal
  <2>2. CASE /\ ~Terminal(job)
             /\ hand' = [hand EXCEPT ![h] = [IdleHandler EXCEPT !.pc = "select", !.copy = e]]
    <3>1. Refreshed(job, hand[h].status) \in ActiveJobStatus
      BY <1>2, <2>2, RefreshedActive DEF HandleJob, HandlerState
    <3>2. e \in Job /\ e.status \in ActiveJobStatus
      BY <3>1, ActiveIsNotTerminal DEF Job
    <3> HIDE DEF e
    <3>3. hand' \in [Handlers -> HandlerState]
      <4> DEFINE x == [IdleHandler EXCEPT !.pc = "select", !.copy = e]
      <4>1. x \in HandlerState
        BY <3>2 DEF IdleHandler, HandlerState
      <4>2. hand' = [hand EXCEPT ![h] = x]
        BY <2>2
      <4> HIDE DEF x
      <4> QED
        BY <4>1, <4>2
    <3>4. HandlerOK'
      BY <1>2, <2>2, <3>2, ActiveIsNotTerminal DEF HandleJob, HandlerState, Terminal
    <3> QED
      BY <1>2, <3>3, <3>4 DEF HandleJob, Terminal
  <2> QED
    BY <1>2, <2>1, <2>2 DEF HandleJob
<1>3. CASE HandleSelect(h)
  <2>1. hand' \in [Handlers -> HandlerState]
    <3> DEFINE D == Differing(hand[h].copy, job)
               x == [hand[h] EXCEPT !.pc = "update", !.dirty = D]
    <3>1. D \in SUBSET Columns
      BY DEF Differing
    <3>2. hand' = [hand EXCEPT ![h] = x]
      BY <1>3 DEF HandleSelect
    <3> HIDE DEF D
    <3>3. x \in HandlerState
      BY <3>1, HandlerUpdates
    <3> HIDE DEF x
    <3> QED
      BY <3>2, <3>3
  <2>2. HandlerOK'
    BY <1>3 DEF HandleSelect, HandlerState, Terminal
  <2> QED
    BY <1>3, <2>1, <2>2 DEF HandleSelect, Terminal
<1>4. CASE HandleUpdate(h)
  <2>1. job' \in Job
    BY <1>4, MergedColumns DEF HandleUpdate, HandlerState
  <2>2. IdleHandler \in HandlerState
    BY FreshJobType DEF IdleHandler, HandlerState
  <2>3. hand' \in [Handlers -> HandlerState] /\ HandlerOK'
    BY <1>4, <2>2 DEF HandleUpdate, IdleHandler, Terminal
  <2> QED
    BY <1>4, <2>1, <2>3 DEF HandleUpdate, Terminal
<1> QED
  BY <1>1, <1>2, <1>3, <1>4 DEF Handler

LEMMA ResendTypeInv ==
  ASSUME JobAssumption, TypeInv, NEW r \in Resenders, Resend(r)
  PROVE  TypeInv'
<1> USE DEF TypeInv, TypeOK, HandlerOK, ControllerOK, crawlVars, timeVars, ctlVars,
            chainVars, Terminal
<1>1. CASE ResendStart(r)
  BY <1>1 DEF ResendStart, Payload
<1>2. CASE ResendPost(r)
  BY <1>2 DEF ResendPost, Notified, AfterPost
<1>3. CASE ResendMark(r)
  <2>1. job' \in Job
    BY <1>3, JobUpdates DEF ResendMark
  <2>2. /\ resend' = [resend EXCEPT ![r].pc = "done"]
        /\ UNCHANGED <<rows, crawlVars, timeVars, ctlVars, hand, decided, posts>>
    BY <1>3 DEF ResendMark
  <2>3. TypeOK'
    BY <2>1, <2>2
  <2>4. HandlerOK' /\ ControllerOK'
    BY <2>2
  <2> QED
    BY <2>3, <2>4
<1>4. CASE ResendMarkFails(r)
  BY <1>4 DEF ResendMarkFails, SwallowedError, JobAssumption
<1> QED
  BY <1>1, <1>2, <1>3, <1>4 DEF Resend

LEMMA EnvironmentTypeInv ==
  JobAssumption /\ TypeInv
    /\ (Worker \/ Fault \/ TotalTimeout \/ \E k \in Keywords : KeywordTimeout(k)) => TypeInv'
<1> SUFFICES ASSUME JobAssumption, TypeInv,
                    Worker \/ Fault \/ TotalTimeout \/ \E k \in Keywords : KeywordTimeout(k)
             PROVE  TypeInv'
  OBVIOUS
<1> USE DEF TypeInv, TypeOK, HandlerOK, ControllerOK, crawlVars, timeVars, ctlVars,
            chainVars, Terminal
<1>1. ASSUME NEW k \in Keywords, CrawlStart(k) PROVE TypeInv'
  <2>1. runs' \in [Keywords -> 0..MaxRuns]
    BY <1>1 DEF CrawlStart, JobAssumption
  <2> QED
    BY <1>1, <2>1 DEF CrawlStart
<1>2. ASSUME NEW k \in Keywords, CrawlEmit(k) PROVE TypeInv'
  <2>1. emit[k] \in CrawlEvents
    BY <1>2 DEF CrawlEmit, CrawlEvents
  <2>2. hand' \in [Handlers -> HandlerState] /\ HandlerOK'
    BY <1>2, <2>1, PublishEffect DEF CrawlEmit
  <2> QED
    BY <1>2, <2>2 DEF CrawlEmit
<1>3. ASSUME NEW k \in Keywords, CrawlFinish(k) PROVE TypeInv'
  BY <1>3 DEF CrawlFinish
<1>4. CASE Fault
  <2>1. faults' \in 0..MaxFaults
    BY <1>4 DEF Fault, JobAssumption
  <2> QED
    BY <1>4, <2>1 DEF Fault
<1>5. CASE TotalTimeout
  BY <1>5 DEF TotalTimeout
<1>6. ASSUME NEW k \in Keywords, KeywordTimeout(k) PROVE TypeInv'
  BY <1>6 DEF KeywordTimeout
<1> QED
  BY <1>1, <1>2, <1>3, <1>4, <1>5, <1>6 DEF Worker

LEMMA NextTypeInv == JobAssumption /\ TypeInv /\ [Next]_vars => TypeInv'
<1>1. TypeInv /\ UNCHANGED vars => TypeInv'
  BY DEF TypeInv, TypeOK, HandlerOK, ControllerOK, vars, crawlVars, timeVars, ctlVars,
         chainVars, Terminal
<1> QED
  BY <1>1, ControllerTypeInv, HandlerTypeInv, ResendTypeInv, EnvironmentTypeInv DEF Next

\* Every variable keeps its type, the controller always has the keyword, the
\* continuation and the entity its next step needs, and no progress handler
\* ever holds an entity with a terminal status.
THEOREM TypeCorrect == Spec => []TypeOK
<1>1. Init => TypeInv
  BY InitTypeInv, JobAssumption
<1>2. TypeInv /\ [Next]_vars => TypeInv'
  BY NextTypeInv, JobAssumption
<1>3. TypeInv => TypeOK
  BY DEF TypeInv
<1> QED
  BY <1>1, <1>2, <1>3, PTL DEF Spec

-----------------------------------------------------------------------------
(* Who writes what *)

\* The actions that write the search_jobs row.
JobWrite ==
  \/ SaveUpdate \/ StartRun \/ StartSearching \/ MarkSent \/ MarkError \/ Catch
  \/ \E h \in Handlers : HandleUpdate(h)
  \/ \E r \in Resenders : ResendMark(r)

LEMMA JobWriters == [Next]_vars => UNCHANGED <<job, decided>> \/ JobWrite
<1> SUFFICES ASSUME [Next]_vars, ~JobWrite PROVE UNCHANGED <<job, decided>>
  OBVIOUS
<1>1. CASE UNCHANGED vars
  BY <1>1 DEF vars
<1>2. CASE Controller
  BY <1>2 DEF JobWrite, Controller, SaveSelect, SearchHit, SearchQueued, Announce, RecordHistory,
      ListHistories, NextKeyword, TimeOutRow, GetSearch, Poll, ReadRows, ExpireRows, SaveRow,
      Refresh, Finalize, Verdict, ReadForCallback, Post
<1>3. CASE Fault
  BY <1>3 DEF Fault
<1>4. ASSUME NEW h \in Handlers, Handler(h) PROVE UNCHANGED <<job, decided>>
  BY <1>4 DEF JobWrite, Handler, HandleRow, HandleJob, HandleSelect
<1>5. ASSUME NEW r \in Resenders, Resend(r) PROVE UNCHANGED <<job, decided>>
  BY <1>5 DEF JobWrite, Resend, ResendStart, ResendPost, ResendMarkFails
<1>6. CASE Worker \/ TotalTimeout \/ \E k \in Keywords : KeywordTimeout(k)
  BY <1>6 DEF Worker, CrawlStart, CrawlEmit, CrawlFinish, TotalTimeout, KeywordTimeout
<1> QED
  BY <1>1, <1>2, <1>3, <1>4, <1>5, <1>6 DEF Next

\* A step that leaves the job over, in a status it did not have, decides on
\* it: it saves the verdict of finalizeJob, or the failure of runSearch's catch.
LEMMA TerminalWrite ==
  ASSUME TypeInv, [Next]_vars
  PROVE  /\ decided \subseteq decided'
         /\ Terminal(job') =>
              \/ job'.status = job.status
              \/ /\ job'.status \in decided'
                 /\ \/ job'.status = "failed"
                    \/ pc = "update" /\ IsVerdict(ret) /\ job'.status = copy.status
<1> USE DEF TypeInv, TypeOK, HandlerOK, ControllerOK
<1>1. CASE UNCHANGED <<job, decided>>
  BY <1>1
<1>2. CASE SaveUpdate
  <2>1. job'.status \in {job.status, copy.status}
    BY <1>2, MergedColumns DEF SaveUpdate
  <2>2. Terminal(copy) => copy.status \in decided'
    BY <1>2 DEF SaveUpdate
  <2> QED
    BY <1>2, <2>1, <2>2 DEF SaveUpdate, Terminal
<1>3. CASE StartRun \/ StartSearching
  <2>1. job'.status \in {"queued", "running"} /\ decided' = decided
    BY <1>3 DEF StartRun, StartSearching, Job
  <2> QED
    BY <2>1 DEF TerminalJobStatus, Terminal
<1>4. CASE MarkSent \/ MarkError
  <2>1. job'.status = job.status /\ decided' = decided
    BY <1>4 DEF MarkSent, MarkError, Sent, Failing, Job
  <2> QED
    BY <2>1
<1>5. CASE Catch
  BY <1>5 DEF Catch, Job
<1>6. ASSUME NEW h \in Handlers, HandleUpdate(h)
      PROVE  decided' = decided /\ (Terminal(job') => job'.status = job.status)
  <2>1. hand[h].copy \in Job /\ ~Terminal(hand[h].copy)
    BY <1>6 DEF HandleUpdate, HandlerState
  <2>2. job'.status \in {job.status, hand[h].copy.status}
    BY <1>6, <2>1, MergedColumns DEF HandleUpdate
  <2> QED
    BY <1>6, <2>1, <2>2 DEF HandleUpdate, Terminal
<1>7. ASSUME NEW r \in Resenders, ResendMark(r)
      PROVE  decided' = decided /\ job'.status = job.status
  BY <1>7, JobUpdates DEF ResendMark
<1> QED
  BY <1>1, <1>2, <1>3, <1>4, <1>5, <1>6, <1>7, JobWriters DEF JobWrite

-----------------------------------------------------------------------------
\* Whatever entities the handlers and the watcher write back, the row of a job
\* that is over holds a verdict of finalizeJob or of runSearch's catch.
THEOREM JobEndedByVerdict == Spec => []EndedByVerdict
<1> DEFINE IInv == TypeInv /\ EndedByVerdict
<1>1. Init => IInv
  BY InitTypeInv, JobAssumption, FreshJobType DEF Init, EndedByVerdict
<1>2. IInv /\ [Next]_vars => IInv'
  <2> SUFFICES ASSUME IInv, [Next]_vars PROVE IInv'
    OBVIOUS
  <2>1. TypeInv'
    BY NextTypeInv, JobAssumption
  <2>2. EndedByVerdict'
    BY TerminalWrite DEF EndedByVerdict, Terminal
  <2> QED
    BY <2>1, <2>2
<1>3. IInv => EndedByVerdict
  OBVIOUS
<1> HIDE DEF IInv
<1> QED
  BY <1>1, <1>2, <1>3, PTL DEF Spec

-----------------------------------------------------------------------------
(* What the BackOffice is told *)

\* Only the controller and its errors move the controller, only operators
\* move the resend calls.
LEMMA ActorFrames ==
  ASSUME [Next]_vars
  PROVE  /\ Controller \/ Fault \/ UNCHANGED chainVars
         /\ (\E r \in Resenders : Resend(r)) \/ UNCHANGED resend
<1>1. CASE UNCHANGED vars
  BY <1>1 DEF vars, ctlVars
<1>2. CASE Controller
  BY <1>2 DEF Controller, SaveSelect, SaveUpdate, StartRun, StartSearching, SearchHit,
      SearchQueued, Announce, RecordHistory, ListHistories, NextKeyword, TimeOutRow, GetSearch,
      Poll, ReadRows, ExpireRows, SaveRow, Refresh, Finalize, Verdict, ReadForCallback, Post,
      MarkSent, MarkError, Catch
<1>3. CASE Fault
  BY <1>3 DEF Fault
<1>4. ASSUME NEW h \in Handlers, Handler(h) PROVE UNCHANGED <<chainVars, resend>>
  BY <1>4 DEF Handler, HandleRow, HandleJob, HandleSelect, HandleUpdate, ctlVars
<1>5. ASSUME NEW r \in Resenders, Resend(r) PROVE UNCHANGED chainVars
  BY <1>5 DEF Resend, ResendStart, ResendPost, ResendMark, ResendMarkFails, ctlVars
<1>6. CASE Worker \/ TotalTimeout \/ \E k \in Keywords : KeywordTimeout(k)
  BY <1>6 DEF Worker, CrawlStart, CrawlEmit, CrawlFinish, TotalTimeout, KeywordTimeout, ctlVars
<1> QED
  BY <1>1, <1>2, <1>3, <1>4, <1>5, <1>6 DEF Next

\* A report under way carries a status that was read from the row, and still
\* does when the row has changed since.
LEMMA ReportStarts ==
  ASSUME TypeInv, [Next]_vars
  PROVE  /\ pc' = "post" => (pc = "post" /\ got' = got) \/ (Reportable(job) /\ got' = job.status)
         /\ \A r \in Resenders : resend'[r].pc = "post" =>
              resend'[r] = resend[r] \/ (Reportable(job) /\ resend'[r].payload = job.status)
<1> USE DEF TypeInv, TypeOK
<1>1. pc' = "post" => (pc = "post" /\ got' = got) \/ (Reportable(job) /\ got' = job.status)
  <2>1. CASE Controller
    BY <2>1 DEF Controller, SaveSelect, SaveUpdate, StartRun, StartSearching, SearchHit,
        SearchQueued, Announce, RecordHistory, ListHistories, NextKeyword, TimeOutRow, GetSearch,
        Poll, ReadRows, ExpireRows, SaveRow, Refresh, Finalize, Verdict, ReadForCallback, Post,
        MarkSent, MarkError, Catch, Save, AfterPost, Payload, Reportable
  <2>2. CASE Fault
    BY <2>2 DEF Fault
  <2> QED
    BY <2>1, <2>2, ActorFrames DEF chainVars
<1>2. ASSUME NEW r \in Resenders, NEW q \in Resenders, Resend(q), resend'[r].pc = "post"
      PROVE  resend'[r] = resend[r] \/ (Reportable(job) /\ resend'[r].payload = job.status)
  BY <1>2 DEF Resend, ResendStart, ResendPost, ResendMark, ResendMarkFails, AfterPost,
      Resendable, Payload, Reportable
<1> QED
  BY <1>1, <1>2, ActorFrames

\* Only the controller and the resend calls post.
LEMMA PostsWriters ==
  ASSUME [Next]_vars
  PROVE  UNCHANGED posts \/ Post \/ \E r \in Resenders : ResendPost(r)
  BY DEF Next, vars, Controller, SaveSelect, SaveUpdate, StartRun, StartSearching, SearchHit,
      SearchQueued, Announce, RecordHistory, ListHistories, NextKeyword, TimeOutRow, GetSearch,
      Poll, ReadRows, ExpireRows, SaveRow, Refresh, Finalize, Verdict, ReadForCallback,
      MarkSent, MarkError, Catch, Fault, Handler, HandleRow, HandleJob, HandleSelect,
      HandleUpdate, Resend, ResendStart, ResendMark, ResendMarkFails, Worker, CrawlStart,
      CrawlEmit, CrawlFinish, TotalTimeout, KeywordTimeout

\* The BackOffice only ever hears the report under way of the controller or of
\* a resend call.
LEMMA PostsGrow ==
  ASSUME TypeInv, [Next]_vars, NEW s \in {"completed", "partial"}
  PROVE  /\ posts'[s] \in Nat /\ posts'[s] >= posts[s]
         /\ posts'[s] # posts[s] =>
              \/ pc = "post" /\ got = s
              \/ \E r \in Resenders : resend[r].pc = "post" /\ resend[r].payload = s
<1> USE DEF TypeInv, TypeOK
<1>1. CASE UNCHANGED posts
  BY <1>1
<1>2. CASE Post
  BY <1>2 DEF Post, Notified
<1>3. ASSUME NEW r \in Resenders, ResendPost(r)
      PROVE  /\ posts'[s] \in Nat /\ posts'[s] >= posts[s]
             /\ posts'[s] # posts[s] => resend[r].pc = "post" /\ resend[r].payload = s
  BY <1>3 DEF ResendPost, Notified
<1> QED
  BY <1>1, <1>2, <1>3, PostsWriters

\* A report under way tells a verdict the job has reached.
ReportsDecided ==
  /\ pc = "post" => got \in decided
  /\ \A r \in Resenders : resend[r].pc = "post" => resend[r].payload \in decided

\* The BackOffice is told no status that finalizeJob did not decide on, by
\* however many overlapping resend calls.
THEOREM PostsAreVerdicts == Spec => []PostedWasDecided
<1> DEFINE IInv == TypeInv /\ EndedByVerdict /\ ReportsDecided /\ PostedWasDecided
<1>1. Init => IInv
  BY InitTypeInv, JobAssumption, FreshJobType
     DEF Init, EndedByVerdict, ReportsDecided, PostedWasDecided
<1>2. IInv /\ [Next]_vars => IInv'
  <2> SUFFICES ASSUME IInv, [Next]_vars PROVE IInv'
    OBVIOUS
  <2>1. TypeInv'
    BY NextTypeInv, JobAssumption
  <2>2. decided \subseteq decided' /\ EndedByVerdict'
    BY TerminalWrite DEF EndedByVerdict, Terminal
  <2>3. Reportable(job) => job.status \in decided
    BY DEF EndedByVerdict, Reportable, Terminal, TerminalJobStatus
  <2>4. ReportsDecided'
    <3>1. pc' = "post" => got' \in decided'
      BY <2>2, <2>3, ReportStarts DEF ReportsDecided
    <3>2. ASSUME NEW r \in Resenders, resend'[r].pc = "post"
          PROVE  resend'[r].payload \in decided'
      BY <2>2, <2>3, <3>2, ReportStarts DEF ReportsDecided
    <3> QED
      BY <3>1, <3>2 DEF ReportsDecided
  <2>5. PostedWasDecided'
    <3> SUFFICES ASSUME NEW s \in {"completed", "partial"}, posts'[s] > 0
                 PROVE  s \in decided'
      BY DEF PostedWasDecided
    <3>1. CASE posts'[s] = posts[s]
      BY <2>2, <3>1 DEF PostedWasDecided
    <3>2. CASE posts'[s] # posts[s]
      BY <2>2, <3>2, PostsGrow DEF ReportsDecided
    <3> QED
      BY <3>1, <3>2
  <2> QED
    BY <2>1, <2>2, <2>4, <2>5
<1>3. IInv => PostedWasDecided
  OBVIOUS
<1> HIDE DEF IInv
<1> QED
  BY <1>1, <1>2, <1>3, PTL DEF Spec

-----------------------------------------------------------------------------
(* callbackSentAt *)

\* Some report reached the BackOffice.
Told == posts["completed"] + posts["partial"] > 0

LEMMA ToldStaysTold ==
  ASSUME TypeInv, [Next]_vars, Told
  PROVE  Told'
<1>1. \A s \in {"completed", "partial"} : posts[s] \in Nat /\ posts'[s] \in Nat /\ posts'[s] >= posts[s]
  BY PostsGrow DEF TypeInv, TypeOK
<1> QED
  BY <1>1 DEF Told

\* Whoever holds callbackSentAt, or is about to set it, comes after a report.
SentAfterPost ==
  /\ job.callbackSentAt => Told
  /\ copy.callbackSentAt => Told
  /\ \A h \in Handlers : hand[h].copy.callbackSentAt => Told
  /\ pc = "markSent" => Told
  /\ \A r \in Resenders : resend[r].pc = "markSent" => Told

\* The entity the controller holds comes from itself or from the row.
LEMMA CopySources ==
  ASSUME TypeInv, [Next]_vars, copy'.callbackSentAt
  PROVE  copy.callbackSentAt \/ job.callbackSentAt
<1> USE DEF TypeInv, TypeOK
<1>1. CASE Controller
  <2>1. CASE StartRun \/ StartSearching
    BY <2>1 DEF StartRun, StartSearching, Job
  <2>2. CASE RecordHistory
    BY <2>2 DEF RecordHistory, Represented, Job
  <2>3. CASE ListHistories
    BY <2>3 DEF ListHistories, Save, Job
  <2>4. CASE Verdict
    <3> DEFINE v == VerdictOn(rows, copy)
    <3>1. copy' = [copy EXCEPT !.status = v, !.finishedAt = TRUE]
      BY <2>4 DEF Verdict, Save, Judged
    <3> HIDE DEF v
    <3> QED
      BY <3>1 DEF Job
  <2>5. CASE SaveUpdate
    BY <2>5 DEF SaveUpdate, FreshJob
  <2>6. CASE Poll \/ Finalize
    BY <2>6 DEF Poll, Finalize
  <2>7. CASE UNCHANGED copy
    BY <2>7
  <2> QED
    BY <1>1, <2>1, <2>2, <2>3, <2>4, <2>5, <2>6, <2>7
       DEF Controller, SaveSelect, SearchHit, SearchQueued, Announce, NextKeyword, TimeOutRow,
           GetSearch, ReadRows, ExpireRows, SaveRow, Refresh, ReadForCallback, Post,
           MarkSent, MarkError, Catch, Save
<1>2. CASE Fault
  BY <1>2 DEF Fault
<1> QED
  BY <1>1, <1>2, ActorFrames DEF chainVars

\* A handler starts for a published message, and moves by itself.
LEMMA HandWriters ==
  ASSUME TypeInv, [Next]_vars
  PROVE  \/ UNCHANGED hand
         \/ \E k \in Keywords : Publish(k, "queued") \/ Publish(k, emit[k])
         \/ \E g \in Handlers : Handler(g)
<1> SUFFICES ASSUME ~ UNCHANGED hand
             PROVE  \/ \E k \in Keywords : Publish(k, "queued") \/ Publish(k, emit[k])
                    \/ \E g \in Handlers : Handler(g)
  OBVIOUS
<1>1. CASE Controller
  <2>1. Announce
    BY <1>1 DEF Controller, SaveSelect, SaveUpdate, StartRun, StartSearching, SearchHit,
        SearchQueued, RecordHistory, ListHistories, NextKeyword, TimeOutRow, GetSearch,
        Poll, ReadRows, ExpireRows, SaveRow, Refresh, Finalize, Verdict, ReadForCallback, Post,
        MarkSent, MarkError, Catch
  <2> QED
    BY <2>1 DEF Announce, ControllerOK, TypeInv
<1>2. CASE ~Controller
  BY <1>2 DEF Next, vars, Fault, Resend, ResendStart, ResendPost, ResendMark,
      ResendMarkFails, Worker, CrawlStart, CrawlEmit, CrawlFinish, TotalTimeout, KeywordTimeout
<1> QED
  BY <1>1, <1>2

\* A handler's entity is the one it had, a fresh one, or read from the row.
LEMMA HandlerCopySources ==
  ASSUME TypeInv, [Next]_vars, NEW h \in Handlers
  PROVE  \/ hand'[h].copy = hand[h].copy
         \/ hand'[h].copy = FreshJob
         \/ /\ hand'[h].copy.callbackSentAt = job.callbackSentAt
            /\ hand'[h].copy.history = job.history
<1> USE DEF TypeInv, TypeOK, HandlerState
<1> DEFINE Goal == \/ hand'[h].copy = hand[h].copy
                   \/ hand'[h].copy = FreshJob
                   \/ /\ hand'[h].copy.callbackSentAt = job.callbackSentAt
                      /\ hand'[h].copy.history = job.history
<1>1. CASE UNCHANGED hand
  BY <1>1
<1>2. ASSUME NEW k \in Keywords, NEW s, Publish(k, s) PROVE Goal
  BY <1>2 DEF Publish, Started
<1>3. ASSUME NEW g \in Handlers, HandleRow(g) \/ HandleSelect(g) \/ HandleUpdate(g) PROVE Goal
  BY <1>3 DEF HandleRow, HandleSelect, HandleUpdate, IdleHandler
<1>4. ASSUME NEW g \in Handlers, HandleJob(g) PROVE Goal
  <2> DEFINE e == [job EXCEPT !.status = Refreshed(job, hand[g].status)]
  <2>1. e.callbackSentAt = job.callbackSentAt /\ e.history = job.history
    BY DEF Job
  <2> HIDE DEF e
  <2>2. \/ hand' = [hand EXCEPT ![g] = IdleHandler]
        \/ hand' = [hand EXCEPT ![g] = [IdleHandler EXCEPT !.pc = "select", !.copy = e]]
    BY <1>4 DEF HandleJob, e
  <2>3. CASE hand' = [hand EXCEPT ![g] = IdleHandler]
    BY <2>3 DEF IdleHandler
  <2>4. CASE hand' = [hand EXCEPT ![g] = [IdleHandler EXCEPT !.pc = "select", !.copy = e]]
    <3>1. CASE g = h
      <4>1. hand'[h].copy = e
        BY <2>4, <3>1 DEF IdleHandler
      <4> QED
        BY <2>1, <4>1
    <3>2. CASE g # h
      BY <2>4, <3>2
    <3> QED
      BY <3>1, <3>2
  <2> QED
    BY <2>2, <2>3, <2>4
<1>5. CASE \E g \in Handlers : Handler(g)
  BY <1>3, <1>4, <1>5 DEF Handler
<1>6. CASE \E k \in Keywords : Publish(k, "queued") \/ Publish(k, emit[k])
  BY <1>2, <1>6
<1> QED
  BY <1>1, <1>5, <1>6, HandWriters

\* The row's callbackSentAt comes from the row, a stale entity or a report.
LEMMA SentSources ==
  ASSUME TypeInv, [Next]_vars, job'.callbackSentAt
  PROVE  \/ job.callbackSentAt \/ copy.callbackSentAt
         \/ \E h \in Handlers : hand[h].copy.callbackSentAt
         \/ pc = "markSent" \/ \E r \in Resenders : resend[r].pc = "markSent"
<1> USE DEF TypeInv, TypeOK
<1>1. CASE UNCHANGED job
  BY <1>1
<1>2. CASE SaveUpdate
  BY <1>2, MergedColumns DEF SaveUpdate
<1>3. CASE StartRun \/ StartSearching \/ Catch
  BY ZenonT(40), <1>3 DEF StartRun, StartSearching, Catch, Job
<1>4. CASE MarkSent \/ MarkError
  BY <1>4 DEF MarkSent, MarkError, Failing, Job
<1>5. ASSUME NEW h \in Handlers, HandleUpdate(h)
      PROVE  job.callbackSentAt \/ hand[h].copy.callbackSentAt
  BY <1>5, MergedColumns DEF HandleUpdate, HandlerState
<1>6. ASSUME NEW r \in Resenders, ResendMark(r)
      PROVE  job.callbackSentAt \/ resend[r].pc = "markSent"
  BY <1>6 DEF ResendMark, Failing, Job
<1> QED
  BY <1>1, <1>2, <1>3, <1>4, <1>5, <1>6, JobWriters DEF JobWrite

\* The mark is about to be set only after a report that reached the BackOffice.
LEMMA MarkStarts ==
  ASSUME TypeInv, [Next]_vars
  PROVE  /\ pc' = "markSent" => pc = "markSent" \/ Told'
         /\ \A r \in Resenders : resend'[r].pc = "markSent" => resend[r].pc = "markSent" \/ Told'
<1> USE DEF TypeInv, TypeOK
<1>1. ASSUME Post, pc' = "markSent" PROVE Told'
  <2>1. posts' = [posts EXCEPT ![got] = @ + 1] /\ got \in {"completed", "partial"}
    BY <1>1 DEF Post, Notified, AfterPost, ControllerOK
  <2> QED
    BY <2>1 DEF Told
<1>2. ASSUME Controller, ~Post, pc' = "markSent" PROVE pc = "markSent"
  BY <1>2 DEF Controller, SaveSelect, SaveUpdate, StartRun, StartSearching, SearchHit,
      SearchQueued, Announce, RecordHistory, ListHistories, NextKeyword, TimeOutRow, GetSearch,
      Poll, ReadRows, ExpireRows, SaveRow, Refresh, Finalize, Verdict, ReadForCallback,
      MarkSent, MarkError, Catch, Save
<1>3. ASSUME Fault, pc' = "markSent" PROVE pc = "markSent"
  BY <1>3 DEF Fault
<1>4. ASSUME NEW q \in Resenders, NEW r \in Resenders, ResendPost(q),
             resend'[r].pc = "markSent", resend[r].pc # "markSent"
      PROVE  Told'
  <2>1. PICK o \in Outcomes : /\ posts' = Notified(resend[q].payload, o)
                              /\ resend' = [resend EXCEPT ![q] = [pc |-> AfterPost(o), payload |-> "none"]]
    BY <1>4 DEF ResendPost
  <2>2. o = "ok"
    BY <1>4, <2>1 DEF AfterPost
  <2>3. resend[q].payload \in {"completed", "partial"}
    BY <1>4 DEF ResendPost, ControllerOK
  <2> QED
    BY <2>1, <2>2, <2>3 DEF Told, Notified
<1>5. ASSUME NEW q \in Resenders, NEW r \in Resenders, Resend(q), ~ResendPost(q),
             resend'[r].pc = "markSent"
      PROVE  resend[r].pc = "markSent"
  BY <1>5 DEF Resend, ResendStart, ResendMark, ResendMarkFails
<1>6. pc' = "markSent" => pc = "markSent" \/ Told'
  BY <1>1, <1>2, <1>3, ActorFrames DEF chainVars
<1> QED
  BY <1>4, <1>5, <1>6, ActorFrames

\* callbackSentAt is set only after a report reached the BackOffice, although
\* stale entities carry it and overlapping calls set it.
THEOREM SentIsTrue == Spec => []SentWasPosted
<1> DEFINE IInv == TypeInv /\ SentAfterPost
<1>1. Init => IInv
  BY InitTypeInv, JobAssumption DEF Init, SentAfterPost, FreshJob, IdleHandler
<1>2. IInv /\ [Next]_vars => IInv'
  <2> SUFFICES ASSUME IInv, [Next]_vars PROVE IInv'
    OBVIOUS
  <2>1. TypeInv'
    BY NextTypeInv, JobAssumption
  <2>2. job'.callbackSentAt => Told'
    BY SentSources, ToldStaysTold DEF SentAfterPost
  <2>3. copy'.callbackSentAt => Told'
    BY CopySources, ToldStaysTold DEF SentAfterPost
  <2>4. \A h \in Handlers : hand'[h].copy.callbackSentAt => Told'
    BY HandlerCopySources, ToldStaysTold DEF SentAfterPost, FreshJob
  <2>5. /\ pc' = "markSent" => Told'
        /\ \A r \in Resenders : resend'[r].pc = "markSent" => Told'
    BY MarkStarts, ToldStaysTold DEF SentAfterPost
  <2> QED
    BY <2>1, <2>2, <2>3, <2>4, <2>5 DEF SentAfterPost
<1>3. IInv => SentWasPosted
  BY DEF SentAfterPost, SentWasPosted, Told
<1> HIDE DEF IInv
<1> QED
  BY <1>1, <1>2, <1>3, PTL DEF Spec

-----------------------------------------------------------------------------
(* The verdict *)

\* The controller is in the loop over the keywords, or before it.
Looping == \/ pc \in {"begin", "start", "keyword", "search", "announce", "record"}
           \/ pc \in {"select", "update"} /\ ret = "search"

\* The success a search, its pending event, or its row shows has happened, and
\* a recorded search exists.
SuccessesHappened ==
  \A k \in Keywords :
    /\ crawl[k] \in SuccessStatus \/ emit[k] \in SuccessStatus \/ rows[k] \in SuccessStatus
         => k \in succeeded
    /\ rows[k] # "none" => crawl[k] # "none"

\* So has the success a handler was told of.
EventsHappened ==
  \A h \in Handlers : hand[h].status \in SuccessStatus => hand[h].keyword \in succeeded

\* So has the success the controller has read and is about to write.
ReadHappened ==
  pc \in {"announce", "record", "saveRow"} =>
    /\ got # "none" /\ crawl[cur] # "none"
    /\ got \in SuccessStatus => cur \in succeeded

\* A job is not over before the end of the loop, and the watcher only goes
\* through recorded searches.
LoopComesFirst ==
  /\ Looping => ~Terminal(job)
  /\ pc \in {"expire", "pollRow", "saveRow"} => todo \subseteq Recorded(rows)
  /\ pc = "saveRow" => cur \in Recorded(rows)

\* A verdict, in the row or in the entity about to be saved, is justified.
Justified(s) == /\ s = "completed" => Recorded(rows) \subseteq succeeded
                /\ s = "partial" => succeeded # {}

VerdictsJustified ==
  /\ Justified(job.status)
  /\ pc \in {"select", "update"} /\ IsVerdict(ret) => Justified(copy.status)

Safe == /\ SuccessesHappened /\ EventsHappened /\ ReadHappened
        /\ LoopComesFirst /\ VerdictsJustified

LEMMA RowWriters ==
  ASSUME [Next]_vars
  PROVE  \/ UNCHANGED rows \/ RecordHistory \/ ExpireRows \/ SaveRow
         \/ \E k \in Keywords : TimeOutRow(k)
         \/ \E h \in Handlers : HandleRow(h)
  BY DEF Next, vars, Controller, SaveSelect, SaveUpdate, StartRun, StartSearching, SearchHit,
      SearchQueued, Announce, ListHistories, NextKeyword, GetSearch, Poll, ReadRows,
      Refresh, Finalize, Verdict, ReadForCallback, Post, MarkSent, MarkError, Catch, Fault,
      Handler, HandleJob, HandleSelect, HandleUpdate, Resend, ResendStart, ResendPost,
      ResendMark, ResendMarkFails, Worker, CrawlStart, CrawlEmit, CrawlFinish, TotalTimeout,
      KeywordTimeout

\* A search that exists stays, and so does a success.
LEMMA CrawlStep ==
  ASSUME TypeInv, SuccessesHappened, [Next]_vars, NEW k \in Keywords
  PROVE  /\ succeeded \subseteq succeeded'
         /\ crawl[k] # "none" => crawl'[k] # "none"
         /\ crawl'[k] \in SuccessStatus \/ emit'[k] \in SuccessStatus => k \in succeeded'
<1> USE DEF TypeInv, TypeOK, SuccessesHappened, SuccessStatus
<1>1. CASE UNCHANGED <<crawl, emit, succeeded>>
  BY <1>1
<1>2. CASE SearchHit \/ SearchQueued
  BY <1>2 DEF SearchHit, SearchQueued, ControllerOK
<1>3. ASSUME NEW l \in Keywords, CrawlStart(l) \/ CrawlEmit(l) \/ CrawlFinish(l)
      PROVE  /\ succeeded \subseteq succeeded'
             /\ crawl[k] # "none" => crawl'[k] # "none"
             /\ crawl'[k] \in SuccessStatus \/ emit'[k] \in SuccessStatus => k \in succeeded'
  BY <1>3 DEF CrawlStart, CrawlEmit, CrawlFinish
<1>4. UNCHANGED <<crawl, emit, succeeded>> \/ SearchHit \/ SearchQueued \/ Worker
  BY DEF Next, vars, crawlVars, Controller, SaveSelect, SaveUpdate, StartRun, StartSearching,
      Announce, RecordHistory, ListHistories, NextKeyword, TimeOutRow, GetSearch, Poll, ReadRows,
      ExpireRows, SaveRow, Refresh, Finalize, Verdict, ReadForCallback, Post, MarkSent,
      MarkError, Catch, Fault, Handler, HandleRow, HandleJob, HandleSelect, HandleUpdate,
      Resend, ResendStart, ResendPost, ResendMark, ResendMarkFails, TotalTimeout, KeywordTimeout
<1> QED
  BY <1>1, <1>2, <1>3, <1>4 DEF Worker

\* Every writer of a row writes a status that its search has had, or a
\* failure; only the loop records a search, and no one unrecords it.
LEMMA RowStep ==
  ASSUME TypeInv, Safe, [Next]_vars, NEW k \in Keywords
  PROVE  /\ rows'[k] \in SuccessStatus => rows[k] \in SuccessStatus \/ k \in succeeded
         /\ rows[k] # "none" => rows'[k] # "none"
         /\ rows'[k] # "none" => crawl[k] # "none"
         /\ rows'[k] # "none" => rows[k] # "none" \/ RecordHistory
<1> USE DEF TypeInv, TypeOK, Safe, SuccessStatus, Recorded
<1>1. CASE UNCHANGED rows
  BY <1>1 DEF SuccessesHappened
<1>2. CASE RecordHistory
  BY <1>2 DEF RecordHistory, ReadHappened, ControllerOK, SuccessesHappened
<1>3. CASE ExpireRows
  BY <1>3 DEF ExpireRows, LoopComesFirst, SuccessesHappened
<1>4. CASE SaveRow
  BY <1>4 DEF SaveRow, ReadHappened, LoopComesFirst, SuccessesHappened
<1>5. CASE \E l \in Keywords : TimeOutRow(l)
  BY <1>5 DEF TimeOutRow, LoopComesFirst, SuccessesHappened
<1>6. CASE \E h \in Handlers : HandleRow(h)
  <2>1. PICK h \in Handlers : HandleRow(h)
    BY <1>6
  <2> DEFINE k0 == hand[h].keyword
             s0 == hand[h].status
  <2>2. /\ k0 \in Keywords /\ s0 # "none"
        /\ s0 \in SuccessStatus => k0 \in succeeded
    BY <2>1 DEF HandleRow, HandlerOK, EventsHappened
  <2>3. \/ UNCHANGED rows
        \/ rows[k0] # "none" /\ rows' = [rows EXCEPT ![k0] = s0]
    BY <2>1 DEF HandleRow
  <2> HIDE DEF k0, s0
  <2> QED
    BY <2>2, <2>3 DEF SuccessesHappened
<1> QED
  BY <1>1, <1>2, <1>3, <1>4, <1>5, <1>6, RowWriters

LEMMA RecordedStep ==
  ASSUME TypeInv, Safe, [Next]_vars
  PROVE  /\ succeeded \subseteq succeeded'
         /\ Recorded(rows) \subseteq Recorded(rows)'
         /\ Recorded(rows)' = Recorded(rows) \/ RecordHistory
<1>1. succeeded \subseteq succeeded'
  <2>1. PICK k \in Keywords : TRUE
    BY JobAssumption DEF JobAssumption
  <2> QED
    BY <2>1, CrawlStep DEF Safe
<1>2. \A k \in Keywords : /\ rows[k] # "none" => rows'[k] # "none"
                          /\ rows'[k] # "none" => rows[k] # "none" \/ RecordHistory
  BY RowStep
<1> QED
  BY <1>1, <1>2 DEF Recorded

LEMMA SuccessesStep ==
  ASSUME TypeInv, Safe, [Next]_vars
  PROVE  SuccessesHappened'
<1> SUFFICES ASSUME NEW k \in Keywords
             PROVE  /\ crawl'[k] \in SuccessStatus \/ emit'[k] \in SuccessStatus
                         \/ rows'[k] \in SuccessStatus => k \in succeeded'
                    /\ rows'[k] # "none" => crawl'[k] # "none"
  BY DEF SuccessesHappened
<1>1. rows'[k] \in SuccessStatus => k \in succeeded
  BY RowStep DEF Safe, SuccessesHappened
<1> QED
  BY <1>1, CrawlStep, RowStep DEF Safe

\* What an event says has happened when it is published, and is never undone.
LEMMA EventsStep ==
  ASSUME TypeInv, Safe, [Next]_vars
  PROVE  EventsHappened'
<1> SUFFICES ASSUME NEW h \in Handlers, hand'[h].status \in SuccessStatus
             PROVE  hand'[h].keyword \in succeeded'
  BY DEF EventsHappened
<1>1. succeeded \subseteq succeeded'
  BY RecordedStep
<1>2. CASE hand'[h].status = hand[h].status /\ hand'[h].keyword = hand[h].keyword
  BY <1>1, <1>2 DEF Safe, EventsHappened
<1>3. CASE hand'[h].status = "none"
  BY <1>3 DEF SuccessStatus
<1>4. ASSUME NEW k \in Keywords, NEW s \in {"queued", emit[k]}, Publish(k, s)
      PROVE  hand'[h].keyword \in succeeded'
  <2>1. \/ hand'[h].status = hand[h].status /\ hand'[h].keyword = hand[h].keyword
        \/ hand'[h].status = s /\ hand'[h].keyword = k
    BY <1>4 DEF Publish, Started, TypeInv, TypeOK, HandlerState
  <2>2. s \in SuccessStatus => k \in succeeded'
    BY <1>1 DEF Safe, SuccessesHappened, SuccessStatus
  <2> QED
    BY <1>2, <2>1, <2>2
<1>5. ASSUME NEW g \in Handlers, Handler(g)
      PROVE  \/ hand'[h].status = "none"
             \/ hand'[h].status = hand[h].status /\ hand'[h].keyword = hand[h].keyword
  <2> USE DEF TypeInv, TypeOK, HandlerState
  <2>1. CASE HandleRow(g) \/ HandleSelect(g) \/ HandleUpdate(g)
    BY <2>1 DEF HandleRow, HandleSelect, HandleUpdate, IdleHandler
  <2>2. CASE HandleJob(g)
    <3> DEFINE e == [job EXCEPT !.status = Refreshed(job, hand[g].status)]
    <3>1. \/ hand' = [hand EXCEPT ![g] = IdleHandler]
          \/ hand' = [hand EXCEPT ![g] = [IdleHandler EXCEPT !.pc = "select", !.copy = e]]
      BY <2>2 DEF HandleJob
    <3> DEFINE x == [IdleHandler EXCEPT !.pc = "select", !.copy = e]
    <3>2. x.status = "none" /\ IdleHandler.status = "none"
      BY DEF IdleHandler
    <3> HIDE DEF x, e
    <3>3. hand' = [hand EXCEPT ![g] = IdleHandler] \/ hand' = [hand EXCEPT ![g] = x]
      BY <3>1 DEF x
    <3> QED
      BY <3>2, <3>3
  <2> QED
    BY <1>5, <2>1, <2>2 DEF Handler
<1>6. CASE UNCHANGED hand
  BY <1>2, <1>6
<1>7. CASE \E k \in Keywords : Publish(k, "queued") \/ Publish(k, emit[k])
  BY <1>4, <1>7
<1>8. CASE \E g \in Handlers : Handler(g)
  BY <1>2, <1>3, <1>5, <1>8
<1> QED
  BY <1>6, <1>7, <1>8, HandWriters

\* The controller reads a status of the search it is at.
LEMMA ReadStep ==
  ASSUME TypeInv, Safe, [Next]_vars
  PROVE  ReadHappened'
<1> USE DEF TypeInv, TypeOK, ControllerOK
<1>1. succeeded \subseteq succeeded' /\ \A k \in Keywords : crawl[k] # "none" => crawl'[k] # "none"
  BY RecordedStep, CrawlStep DEF Safe
<1>2. CASE pc \in {"announce", "record", "saveRow"} /\ got' = got /\ cur' = cur
  BY <1>1, <1>2 DEF Safe, ReadHappened
<1>3. CASE SearchHit \/ SearchQueued
  BY <1>3 DEF SearchHit, SearchQueued, ReadHappened, SuccessStatus
<1>4. CASE \E k \in Keywords : GetSearch(k)
  <2>1. PICK k \in Keywords : GetSearch(k)
    BY <1>4
  <2>2. k \in Recorded(rows) /\ got' = crawl[k] /\ cur' = k /\ UNCHANGED crawlVars
    BY <2>1 DEF GetSearch, Safe, LoopComesFirst
  <2>3. crawl[k] # "none" /\ (crawl[k] \in SuccessStatus => k \in succeeded)
    BY <2>2 DEF Safe, SuccessesHappened, Recorded
  <2> QED
    BY <2>2, <2>3 DEF ReadHappened, crawlVars
<1>5. CASE pc' \notin {"announce", "record", "saveRow"}
  BY <1>5 DEF ReadHappened
<1>6. ASSUME Controller, pc' \in {"announce", "record", "saveRow"}
      PROVE  \/ pc = "announce" /\ got' = got /\ cur' = cur
             \/ SearchHit \/ SearchQueued \/ \E k \in Keywords : GetSearch(k)
  BY <1>6 DEF Controller, SaveSelect, SaveUpdate, StartRun, StartSearching,
      Announce, RecordHistory, ListHistories, NextKeyword, TimeOutRow, Poll, ReadRows,
      ExpireRows, SaveRow, Refresh, Finalize, Verdict, ReadForCallback, Post, MarkSent,
      MarkError, Catch, Save, AfterPost
<1>7. ASSUME Fault PROVE pc' \notin {"announce", "record", "saveRow"}
  BY <1>7 DEF Fault
<1>8. CASE Controller
  BY <1>2, <1>3, <1>4, <1>5, <1>6, <1>8
<1>9. CASE UNCHANGED chainVars /\ pc' \in {"announce", "record", "saveRow"}
  BY <1>2, <1>9 DEF chainVars
<1> QED
  BY <1>5, <1>7, <1>8, <1>9, ActorFrames

\* No one but the controller's verdict or catch ends a job, and both come
\* after the loop; the watcher's worklist is read from the rows.
LEMMA LoopStep ==
  ASSUME TypeInv, Safe, [Next]_vars
  PROVE  LoopComesFirst'
<1> USE DEF TypeInv, TypeOK, ControllerOK
<1>1. Looping' => Looping
  <2>1. CASE Controller
    BY <2>1 DEF Looping, Controller, SaveSelect, SaveUpdate, StartRun, StartSearching, SearchHit,
        SearchQueued, Announce, RecordHistory, ListHistories, NextKeyword, TimeOutRow, GetSearch,
        Poll, ReadRows, ExpireRows, SaveRow, Refresh, Finalize, Verdict, ReadForCallback, Post,
        MarkSent, MarkError, Catch, Save, AfterPost
  <2>2. CASE Fault
    BY <2>2 DEF Looping, Fault
  <2> QED
    BY <2>1, <2>2, ActorFrames DEF Looping, chainVars
<1>2. ASSUME Looping, Looping', Terminal(job') PROVE FALSE
  <2>1. job'.status # job.status /\ ~Terminal(job)
    BY <1>2 DEF Safe, LoopComesFirst, Terminal
  <2>2. CASE SaveUpdate
    <3>1. job'.status \in {job.status, copy.status}
      BY <2>2, MergedColumns DEF SaveUpdate
    <3>2. ~Terminal(copy)
      BY <1>2, <2>2 DEF SaveUpdate, Looping, IsVerdict
    <3> QED
      BY <1>2, <2>1, <3>1, <3>2 DEF Terminal
  <2>3. CASE StartRun \/ StartSearching
    <3>1. job'.status \in {"queued", "running"}
      BY <2>3 DEF StartRun, StartSearching, Job
    <3> QED
      BY <1>2, <3>1 DEF Terminal, TerminalJobStatus
  <2>4. CASE MarkSent \/ MarkError \/ Catch
    BY <1>2, <2>4 DEF MarkSent, MarkError, Catch, Looping
  <2>5. ASSUME NEW h \in Handlers, HandleUpdate(h) PROVE FALSE
    <3>1. hand[h].copy \in Job /\ ~Terminal(hand[h].copy)
      BY <2>5 DEF HandleUpdate, HandlerState, HandlerOK
    <3>2. job'.status \in {job.status, hand[h].copy.status}
      BY <2>5, <3>1, MergedColumns DEF HandleUpdate
    <3> QED
      BY <1>2, <2>1, <3>1, <3>2 DEF Terminal
  <2>6. ASSUME NEW r \in Resenders, ResendMark(r) PROVE FALSE
    <3>1. job'.status = job.status
      BY <2>6 DEF ResendMark, Sent, Failing, Job
    <3> QED
      BY <2>1, <3>1
  <2>7. CASE UNCHANGED job
    BY <2>1, <2>7
  <2> QED
    BY <2>2, <2>3, <2>4, <2>5, <2>6, <2>7, JobWriters DEF JobWrite
<1>3. /\ pc' \in {"expire", "pollRow", "saveRow"} => todo' \subseteq Recorded(rows)
      /\ pc' = "saveRow" => cur' \in Recorded(rows)
  <2> DEFINE Goal == /\ pc' \in {"expire", "pollRow", "saveRow"} => todo' \subseteq Recorded(rows)
                     /\ pc' = "saveRow" => cur' \in Recorded(rows)
  <2>1. CASE pc \in {"expire", "pollRow", "saveRow"} /\ Controller
    BY <2>1 DEF Safe, LoopComesFirst, Controller, SaveSelect, SaveUpdate, StartRun,
        StartSearching, SearchHit, SearchQueued, Announce, RecordHistory, ListHistories,
        NextKeyword, TimeOutRow, GetSearch, Poll, ReadRows, ExpireRows, SaveRow, Refresh,
        Finalize, Verdict, ReadForCallback, Post, MarkSent, MarkError, Catch, Save
  <2>2. CASE pc \notin {"expire", "pollRow", "saveRow"} /\ Controller
    BY <2>2 DEF Pending, Controller, SaveSelect, SaveUpdate, StartRun,
        StartSearching, SearchHit, SearchQueued, Announce, RecordHistory, ListHistories,
        NextKeyword, TimeOutRow, GetSearch, Poll, ReadRows, ExpireRows, SaveRow, Refresh,
        Finalize, Verdict, ReadForCallback, Post, MarkSent, MarkError, Catch, Save, AfterPost
  <2>3. CASE Fault
    BY <2>3 DEF Fault
  <2>4. CASE UNCHANGED chainVars
    BY <2>4 DEF chainVars, Safe, LoopComesFirst
  <2> QED
    BY <2>1, <2>2, <2>3, <2>4, ActorFrames
<1> QED
  BY <1>1, <1>2, <1>3, RecordedStep DEF LoopComesFirst

\* A verdict is justified when it is computed, and stays so until it is saved.
LEMMA VerdictsStep ==
  ASSUME TypeInv, Safe, [Next]_vars
  PROVE  VerdictsJustified'
<1> USE DEF TypeInv, TypeOK
<1>1. succeeded \subseteq succeeded'
  BY RecordedStep
<1>2. CASE RecordHistory
  <2>1. ~Terminal(job) /\ job' = job /\ pc' = "keyword"
    BY <1>2 DEF RecordHistory, Safe, LoopComesFirst, Looping
  <2> QED
    BY <2>1 DEF VerdictsJustified, Justified, Terminal, TerminalJobStatus
<1>3. CASE Recorded(rows)' = Recorded(rows)
  <2>1. ASSUME NEW s, Justified(s) PROVE Justified(s)'
    BY <1>1, <1>3, <2>1 DEF Justified
  <2>2. \A s : s \notin {"completed", "partial"} => Justified(s)'
    BY DEF Justified
  <2>3. Justified(job.status)'
    <3>1. CASE job'.status = job.status
      BY <2>1, <3>1 DEF Safe, VerdictsJustified
    <3>2. CASE pc = "update" /\ IsVerdict(ret) /\ job'.status = copy.status
      BY <2>1, <3>2 DEF Safe, VerdictsJustified
    <3>3. CASE job'.status = "failed" \/ ~Terminal(job')
      BY <2>2, <3>3 DEF Terminal, TerminalJobStatus
    <3> QED
      BY <3>1, <3>2, <3>3, TerminalWrite
  <2>4. ASSUME (pc \in {"select", "update"} /\ IsVerdict(ret))'
        PROVE  Justified(copy.status)'
    <3>1. CASE Verdict
      <4> DEFINE v == VerdictOn(rows, copy)
      <4>1. copy' = [copy EXCEPT !.status = v, !.finishedAt = TRUE]
        BY <3>1 DEF Verdict, Save, Judged
      <4>2. copy'.status = v
        <5> HIDE DEF v
        <5> QED
          BY <4>1 DEF Job
      <4>3. /\ v = "completed" => \A k \in Recorded(rows) : rows[k] \in SuccessStatus
            /\ v = "partial" => \E k \in Recorded(rows) : rows[k] \in SuccessStatus
        BY VerdictOnSound, JobAssumption
      <4>4. Justified(v)
        <5> HIDE DEF v
        <5> QED
          BY <4>3 DEF Justified, Safe, SuccessesHappened, Recorded
      <4> QED
        BY <2>1, <4>2, <4>4
    <3>2. ASSUME Controller, ~Verdict
          PROVE  pc \in {"select", "update"} /\ IsVerdict(ret) /\ copy' = copy
      BY <2>4, <3>2 DEF IsVerdict, Controller, SaveSelect, SaveUpdate, StartRun, StartSearching,
          SearchHit, SearchQueued, Announce, RecordHistory, ListHistories, NextKeyword,
          TimeOutRow, GetSearch, Poll, ReadRows, ExpireRows, SaveRow, Refresh, Finalize,
          ReadForCallback, Post, MarkSent, MarkError, Catch, Save, AfterPost
    <3>3. ~Fault
      BY <2>4 DEF Fault
    <3>4. CASE pc \in {"select", "update"} /\ IsVerdict(ret) /\ copy' = copy
      BY <2>1, <3>4 DEF Safe, VerdictsJustified
    <3>5. CASE UNCHANGED chainVars
      <4>1. pc' = pc /\ ret' = ret /\ copy' = copy
        BY <3>5 DEF chainVars
      <4> QED
        BY <2>4, <3>4, <4>1 DEF IsVerdict
    <3> QED
      BY <3>1, <3>2, <3>3, <3>4, <3>5, ActorFrames
  <2> QED
    BY <2>3, <2>4 DEF VerdictsJustified
<1> QED
  BY <1>2, <1>3, RecordedStep

\* No order of stale reads, late events, timeouts, retried crawls and errors
\* makes a job completed or partial whose searches have not succeeded.
THEOREM VerdictIsSound == Spec => []VerdictSound
<1> DEFINE IInv == TypeInv /\ Safe
<1>1. Init => IInv
  <2> SUFFICES ASSUME Init PROVE IInv
    OBVIOUS
  <2>1. SuccessesHappened /\ EventsHappened /\ ReadHappened
    BY DEF Init, SuccessesHappened, EventsHappened, ReadHappened, IdleHandler, SuccessStatus
  <2>2. LoopComesFirst /\ VerdictsJustified
    BY FreshJobType DEF Init, LoopComesFirst, VerdictsJustified, Justified, FreshJob
  <2> QED
    BY <2>1, <2>2, InitTypeInv, JobAssumption DEF Safe
<1>2. IInv /\ [Next]_vars => IInv'
  BY NextTypeInv, JobAssumption, SuccessesStep, EventsStep, ReadStep, LoopStep, VerdictsStep
     DEF Safe
<1>3. IInv => VerdictSound
  BY DEF Safe, VerdictsJustified, Justified, VerdictSound
<1> HIDE DEF IInv
<1> QED
  BY <1>1, <1>2, <1>3, PTL DEF Spec

-----------------------------------------------------------------------------
(* The representative search *)

\* All that say which search represents the job agree, and nobody says so
\* before the controller has chosen it.
RepresentedBy(rep) ==
  /\ job.history \in {"none", rep} /\ copy.history \in {"none", rep}
  /\ \A h \in Handlers : hand[h].copy.history \in {"none", rep}

NotRepresented ==
  /\ pc \in {"begin", "start"} => copy.history = "none"
  /\ Looping /\ copy.history = "none" =>
       job.history = "none" /\ \A h \in Handlers : hand[h].copy.history = "none"

LEMMA JobHistorySources ==
  ASSUME TypeInv, [Next]_vars
  PROVE  \/ job'.history \in {job.history, copy.history}
         \/ \E h \in Handlers : job'.history = hand[h].copy.history
<1> USE DEF TypeInv, TypeOK
<1>1. CASE UNCHANGED job
  BY <1>1
<1>2. CASE SaveUpdate
  BY <1>2 DEF SaveUpdate, Merged
<1>3. CASE StartRun \/ StartSearching \/ Catch
  BY <1>3 DEF StartRun, StartSearching, Catch, Job
<1>4. CASE MarkSent \/ MarkError
  BY <1>4 DEF MarkSent, MarkError, Sent, Failing, Job
<1>5. CASE \E h \in Handlers : HandleUpdate(h)
  BY <1>5 DEF HandleUpdate, Merged
<1>6. CASE \E r \in Resenders : ResendMark(r)
  BY <1>6 DEF ResendMark, Sent, Failing, Job
<1> QED
  BY <1>1, <1>2, <1>3, <1>4, <1>5, <1>6, JobWriters DEF JobWrite

LEMMA CopyHistorySources ==
  ASSUME TypeInv, [Next]_vars
  PROVE  \/ copy'.history \in {copy.history, job.history, "none"}
         \/ RecordHistory /\ copy.history = "none" /\ copy'.history = cur
<1> USE DEF TypeInv, TypeOK
<1>1. CASE Controller
  <2>1. CASE StartRun \/ StartSearching
    BY <2>1 DEF StartRun, StartSearching, Job
  <2>2. CASE RecordHistory
    BY <2>2 DEF RecordHistory, Represented, Job
  <2>3. CASE ListHistories
    BY <2>3 DEF ListHistories, Save, Job
  <2>4. CASE Verdict
    <3> DEFINE v == VerdictOn(rows, copy)
    <3>1. copy' = [copy EXCEPT !.status = v, !.finishedAt = TRUE]
      BY <2>4 DEF Verdict, Save, Judged
    <3> HIDE DEF v
    <3> QED
      BY <3>1 DEF Job
  <2>5. CASE SaveUpdate
    BY <2>5 DEF SaveUpdate, FreshJob
  <2>6. CASE Poll \/ Finalize
    BY <2>6 DEF Poll, Finalize
  <2>7. CASE UNCHANGED copy
    BY <2>7
  <2> QED
    BY <1>1, <2>1, <2>2, <2>3, <2>4, <2>5, <2>6, <2>7
       DEF Controller, SaveSelect, SearchHit, SearchQueued, Announce, NextKeyword, TimeOutRow,
           GetSearch, ReadRows, ExpireRows, SaveRow, Refresh, ReadForCallback, Post,
           MarkSent, MarkError, Catch, Save
<1>2. CASE Fault
  BY <1>2 DEF Fault
<1> QED
  BY <1>1, <1>2, ActorFrames DEF chainVars

\* In the loop the controller keeps the representative it has chosen.
LEMMA LoopKeepsCopy ==
  ASSUME TypeInv, NotRepresented, [Next]_vars, Looping', copy'.history = "none"
  PROVE  Looping /\ copy.history = "none"
<1> USE DEF TypeInv, TypeOK
<1>1. CASE Controller
  <2>1. CASE StartRun \/ StartSearching
    BY <2>1 DEF StartRun, StartSearching, NotRepresented, Looping
  <2>2. CASE RecordHistory
    BY <2>2 DEF RecordHistory, Represented, Job, Looping
  <2>3. CASE UNCHANGED copy
    BY <1>1, <2>3 DEF Looping, Controller, SaveSelect, SaveUpdate, StartRun, StartSearching,
        SearchHit, SearchQueued, Announce, RecordHistory, ListHistories, NextKeyword, TimeOutRow,
        GetSearch, Poll, ReadRows, ExpireRows, SaveRow, Refresh, Finalize, Verdict,
        ReadForCallback, Post, MarkSent, MarkError, Catch, Save, AfterPost
  <2> QED
    BY <1>1, <2>1, <2>2, <2>3
       DEF Looping, Controller, SaveSelect, SaveUpdate, SearchHit, SearchQueued, Announce,
           ListHistories, NextKeyword, TimeOutRow, GetSearch, Poll, ReadRows, ExpireRows,
           SaveRow, Refresh, Finalize, Verdict, ReadForCallback, Post, MarkSent, MarkError,
           Catch, Save, FreshJob
<1>2. ~Fault
  BY DEF Looping, Fault
<1>3. CASE UNCHANGED chainVars
  BY <1>3 DEF Looping, chainVars
<1> QED
  BY <1>1, <1>2, <1>3, ActorFrames

LEMMA EarlyCopy ==
  ASSUME TypeInv, NotRepresented, [Next]_vars, pc' \in {"begin", "start"}
  PROVE  copy'.history = "none"
<1> USE DEF TypeInv, TypeOK
<1>1. CASE Controller
  <2>1. pc = "begin" /\ copy' = [job EXCEPT !.status = "queued"]
    BY <1>1 DEF Controller, SaveSelect, SaveUpdate, StartRun, StartSearching, SearchHit,
        SearchQueued, Announce, RecordHistory, ListHistories, NextKeyword, TimeOutRow, GetSearch,
        Poll, ReadRows, ExpireRows, SaveRow, Refresh, Finalize, Verdict, ReadForCallback, Post,
        MarkSent, MarkError, Catch, Save, AfterPost
  <2>2. job.history = "none"
    BY <2>1 DEF NotRepresented, Looping
  <2> QED
    BY <2>1, <2>2 DEF Job
<1>2. ~Fault
  BY DEF Fault
<1>3. CASE UNCHANGED chainVars
  BY <1>3 DEF NotRepresented, chainVars
<1> QED
  BY <1>1, <1>2, <1>3, ActorFrames

\* A save of a stale entity may take the representative away, and a later one
\* bring it back, but never another one.
THEOREM RepresentativeIsUnique == Spec => OneRepresentative
<1> DEFINE IInv == TypeInv /\ NotRepresented /\ \E rep \in Keywords : RepresentedBy(rep)
           Same == \A k, l \in Keywords : job.history = k /\ job'.history = l => k = l
<1>1. Init => IInv
  <2> SUFFICES ASSUME Init PROVE IInv
    OBVIOUS
  <2>1. PICK k \in Keywords : TRUE
    BY JobAssumption DEF JobAssumption
  <2>2. NotRepresented /\ RepresentedBy(k)
    BY DEF Init, NotRepresented, RepresentedBy, FreshJob, IdleHandler
  <2> QED
    BY <2>1, <2>2, InitTypeInv, JobAssumption
<1>2. ASSUME IInv, [Next]_vars PROVE IInv' /\ Same
  <2>1. TypeInv'
    BY <1>2, NextTypeInv, JobAssumption
  <2>2. PICK rep \in Keywords : RepresentedBy(rep)
    BY <1>2
  <2>3. /\ job'.history \in {"none", rep}
        /\ \A h \in Handlers : hand'[h].copy.history \in {"none", rep}
    BY <1>2, <2>2, JobHistorySources, HandlerCopySources DEF RepresentedBy, FreshJob
  <2>4. Same
    BY <2>2, <2>3, JobAssumption DEF RepresentedBy, JobAssumption
  <2>5. NotRepresented'
    <3>1. ASSUME Looping', copy'.history = "none"
          PROVE  job'.history = "none" /\ \A h \in Handlers : hand'[h].copy.history = "none"
      <4>1. /\ job.history = "none" /\ copy.history = "none"
            /\ \A h \in Handlers : hand[h].copy.history = "none"
        BY <1>2, <3>1, LoopKeepsCopy DEF NotRepresented
      <4> QED
        BY <1>2, <4>1, JobHistorySources, HandlerCopySources DEF FreshJob
    <3> QED
      BY <1>2, <3>1, EarlyCopy DEF NotRepresented
  <2>6. \E k \in Keywords : RepresentedBy(k)'
    <3>1. CASE copy'.history \in {copy.history, job.history, "none"}
      <4>1. RepresentedBy(rep)'
        BY <2>2, <2>3, <3>1 DEF RepresentedBy
      <4> QED
        BY <4>1
    <3>2. CASE RecordHistory /\ copy.history = "none" /\ copy'.history = cur
      <4>1. cur \in Keywords /\ Looping /\ job' = job /\ hand' = hand
        BY <1>2, <3>2 DEF RecordHistory, Looping, TypeInv, ControllerOK
      <4>2. PICK l \in Keywords : l = cur
        BY <4>1
      <4>3. /\ job'.history = "none" /\ copy'.history = l
            /\ \A h \in Handlers : hand'[h].copy.history = "none"
        BY <1>2, <3>2, <4>1, <4>2 DEF NotRepresented
      <4>4. RepresentedBy(l)'
        BY <4>3 DEF RepresentedBy
      <4> QED
        BY <4>4
    <3> QED
      BY <1>2, <3>1, <3>2, CopyHistorySources
  <2> QED
    BY <2>1, <2>4, <2>5, <2>6
<1> HIDE DEF IInv, Same
<1>3. IInv /\ [Next]_vars => IInv' /\ [Same]_vars
  BY <1>2
<1>4. Spec => [][Same]_vars
  BY <1>1, <1>3, PTL DEF Spec
<1> QED
  BY <1>4 DEF OneRepresentative, Same

-----------------------------------------------------------------------------
\* Without operators and errors the BackOffice hears of a job at most once,
\* even if a late event reopens the job after its callback.
THEOREM ReportedOnce ==
  ASSUME Resenders = {}, MaxFaults = 0
  PROVE  Spec => []CallbackAtMostOnce
<1> DEFINE total == posts["completed"] + posts["partial"]
           IInv == /\ TypeInv
                   /\ pc \notin {"markSent", "markError", "done"} => total = 0
                   /\ total <= 1
<1>1. Init => IInv
  BY InitTypeInv, JobAssumption DEF Init
<1>2. IInv /\ [Next]_vars => IInv'
  <2> SUFFICES ASSUME IInv, [Next]_vars PROVE IInv'
    OBVIOUS
  <2>1. TypeInv'
    BY NextTypeInv, JobAssumption
  <2>2. CASE Post
    <3>1. PICK o \in Outcomes : posts' = Notified(got, o) /\ pc' = AfterPost(o)
      BY <2>2 DEF Post
    <3>2. total = 0 /\ got \in {"completed", "partial"}
      BY <2>2 DEF Post, TypeInv, ControllerOK
    <3>3. total' <= 1
      BY <3>1, <3>2 DEF Notified, TypeInv, TypeOK
    <3>4. pc' \in {"markSent", "markError", "done"}
      BY <3>1 DEF AfterPost
    <3> QED
      BY <2>1, <3>3, <3>4
  <2>3. CASE posts' = posts /\ (Controller \/ UNCHANGED pc)
    <3>1. pc \in {"markSent", "markError", "done"} => pc' \in {"done"} \cup {pc}
      BY <2>3 DEF Controller, SaveSelect, SaveUpdate, StartRun, StartSearching, SearchHit,
          SearchQueued, Announce, RecordHistory, ListHistories, NextKeyword, TimeOutRow, GetSearch,
          Poll, ReadRows, ExpireRows, SaveRow, Refresh, Finalize, Verdict, ReadForCallback, Post,
          MarkSent, MarkError, Catch
    <3> QED
      BY <2>1, <2>3, <3>1
  <2>4. ~Fault
    BY DEF Fault, TypeInv, TypeOK
  <2>5. posts' = posts \/ Post
    BY PostsWriters
  <2> QED
    BY <2>2, <2>3, <2>4, <2>5, ActorFrames DEF chainVars
<1>3. IInv => CallbackAtMostOnce
  BY DEF CallbackAtMostOnce
<1> HIDE DEF IInv
<1> QED
  BY <1>1, <1>2, <1>3, PTL DEF Spec

-----------------------------------------------------------------------------
(* The abstract job *)

\* Where the controller is once the job is over.
Ended == {"callback", "post", "markSent", "markError", "done"}

\* Without events and errors only the controller writes the row, and it comes
\* back neither to its loops nor to the catch when the job is over.
OverAndReported ==
  /\ pc # "catch"
  /\ Terminal(job) => pc \in Ended
  /\ pc \notin {"markSent", "markError", "done"} => posts["completed"] + posts["partial"] = 0
  /\ pc = "post" => Reportable(job)

\* How the controller gets to and through its end.
LEMMA EndSteps ==
  ASSUME TypeInv, Controller
  PROVE  /\ pc' # "catch"
         /\ pc \in Ended => pc' \in Ended /\ job'.status = job.status
         /\ pc \in {"markSent", "markError"} => pc' = "done"
         /\ pc # "done"
         /\ pc' \in {"markSent", "markError"} => Post
         /\ pc' = "post" => job' = job /\ Reportable(job) /\ pc = "callback"
<1>1. CASE SaveUpdate
  <2>1. pc = "update" /\ pc' = ret
    BY <1>1 DEF SaveUpdate
  <2>2. ret \in {"search", "poll", "finalize", "callback", "done"}
    BY <1>1 DEF SaveUpdate, TypeInv, TypeOK, ControllerOK
  <2> QED BY <2>1, <2>2 DEF Ended
<1>2. CASE ReadForCallback
  BY <1>2 DEF ReadForCallback, Ended
<1>3. CASE Post
  <2>1. pc = "post" /\ job' = job /\ pc' \in {"markSent", "markError", "done"}
    BY <1>3 DEF Post, AfterPost
  <2> QED BY <1>3, <2>1 DEF Ended
<1>4. CASE MarkSent \/ MarkError
  <2>1. pc \in {"markSent", "markError"} /\ pc' = "done" /\ job'.status = job.status
    BY <1>4, JobUpdates DEF MarkSent, MarkError, TypeInv, TypeOK
  <2> QED BY <2>1 DEF Ended
<1>5. CASE Catch
  BY <1>5 DEF Catch, Ended
<1>6. CASE Finalize \/ Poll \/ ListHistories \/ Refresh \/ Verdict \/ \E k \in Keywords : NextKeyword(k)
  BY <1>6 DEF Finalize, Poll, ListHistories, Refresh, Verdict, NextKeyword, Save, Ended
<1>7. CASE SaveSelect \/ StartRun \/ StartSearching \/ SearchHit \/ SearchQueued \/ Announce
           \/ RecordHistory \/ ReadRows \/ ExpireRows \/ SaveRow
  BY <1>7 DEF SaveSelect, StartRun, StartSearching, SearchHit, SearchQueued, Announce,
       RecordHistory, ReadRows, ExpireRows, SaveRow, Ended
<1>8. CASE \E k \in Keywords : TimeOutRow(k) \/ GetSearch(k)
  BY <1>8 DEF TimeOutRow, GetSearch, Ended
<1> QED
  BY <1>1, <1>2, <1>3, <1>4, <1>5, <1>6, <1>7, <1>8 DEF Controller

\* Without resend calls, events and errors a step is the controller's, or leaves
\* the job and the reports alone.
LEMMA ControllerOnly ==
  ASSUME TypeInv, Resenders = {}, Handlers = {}, MaxFaults = 0, [Next]_vars
  PROVE  Controller \/ UNCHANGED <<job, pc, posts>>
<1>1. ~Fault
  BY DEF Fault, TypeInv, TypeOK
<1>2. CASE UNCHANGED vars
  BY <1>2 DEF vars, ctlVars, chainVars
<1>3. CASE Worker \/ TotalTimeout \/ \E k \in Keywords : KeywordTimeout(k)
  BY <1>3 DEF Worker, CrawlStart, CrawlEmit, CrawlFinish, TotalTimeout, KeywordTimeout, ctlVars, chainVars
<1> QED
  BY <1>1, <1>2, <1>3 DEF Next

LEMMA OverAndReportedStep ==
  ASSUME TypeInv, OverAndReported, Controller
  PROVE  /\ OverAndReported'
         /\ job'.status = job.status \/ ~Terminal(job)
         /\ posts' # posts => /\ Reportable(job) /\ job' = job /\ posts["completed"] + posts["partial"] = 0
                             /\ posts'["completed"] + posts'["partial"] = 1
<1>1. /\ pc' # "catch"
      /\ pc \in Ended => pc' \in Ended /\ job'.status = job.status
      /\ pc \in {"markSent", "markError"} => pc' = "done"
      /\ pc # "done"
      /\ pc' \in {"markSent", "markError"} => Post
      /\ pc' = "post" => job' = job /\ Reportable(job) /\ pc = "callback"
  BY EndSteps
<1>2. Terminal(job') => Terminal(job) \/ pc' \in Ended
  <2>1. CASE SaveUpdate
    <3>1. job'.status \in {job.status, copy.status} /\ pc' = ret
      BY <2>1, MergedColumns DEF SaveUpdate, TypeInv, TypeOK
    <3>2. Terminal(copy) => ret \in {"callback", "done"}
      BY <2>1 DEF SaveUpdate, TypeInv, ControllerOK, IsVerdict
    <3> QED BY <3>1, <3>2 DEF Terminal, Ended
  <2>2. CASE Catch
    BY <2>2 DEF Catch, OverAndReported
  <2>3. CASE StartRun \/ StartSearching
    BY <2>3 DEF StartRun, StartSearching, TypeInv, TypeOK, Job, Terminal, TerminalJobStatus
  <2>4. CASE MarkSent \/ MarkError
    BY <2>4, <1>1 DEF MarkSent, MarkError, Ended
  <2>5. CASE job' = job
    BY <2>5
  <2> QED
    BY <2>1, <2>2, <2>3, <2>4, <2>5 DEF Controller, SaveSelect, SearchHit,
      SearchQueued, Announce, RecordHistory, ListHistories, NextKeyword, TimeOutRow, GetSearch,
      Poll, ReadRows, ExpireRows, SaveRow, Refresh, Finalize, Verdict, ReadForCallback, Post
<1>3. CASE Post
  <2>1. PICK o \in Outcomes : posts' = Notified(got, o) /\ pc' = AfterPost(o)
    BY <1>3 DEF Post
  <2>2. /\ posts["completed"] + posts["partial"] = 0 /\ got \in {"completed", "partial"}
        /\ Reportable(job) /\ job' = job
    BY <1>3 DEF Post, TypeInv, ControllerOK, OverAndReported
  <2>3. posts' # posts => posts'["completed"] + posts'["partial"] = 1
    BY <2>1, <2>2 DEF Notified, TypeInv, TypeOK
  <2>4. pc' \in {"markSent", "markError", "done"}
    BY <2>1 DEF AfterPost
  <2> QED BY <1>1, <2>2, <2>3, <2>4 DEF OverAndReported, Ended
<1>4. CASE posts' = posts
  <2>1. job'.status = job.status \/ ~Terminal(job)
    BY <1>1 DEF OverAndReported
  <2>2. Terminal(job') => pc' \in Ended
    BY <1>1, <1>2 DEF OverAndReported
  <2>3. pc \in {"markSent", "markError", "done"} => pc' = "done"
    BY <1>1
  <2> QED BY <1>1, <1>4, <2>1, <2>2, <2>3 DEF OverAndReported
<1>5. posts' = posts \/ Post
  BY DEF Controller, SaveSelect, SaveUpdate, StartRun, StartSearching, SearchHit,
      SearchQueued, Announce, RecordHistory, ListHistories, NextKeyword, TimeOutRow, GetSearch,
      Poll, ReadRows, ExpireRows, SaveRow, Refresh, Finalize, Verdict, ReadForCallback,
      MarkSent, MarkError, Catch
<1> QED
  BY <1>3, <1>4, <1>5

\* While no progress event is delivered, no operator asks for the callback and
\* no access fails, the code implements the abstract job as far as safety goes:
\* one verdict for ever, and a positive one told at most once, after it was
\* given.  For any keywords, timeouts and crawls.
THEOREM LifecycleKept ==
  ASSUME Resenders = {}, Handlers = {}, MaxFaults = 0
  PROVE  Spec => Lifecycle!Safety
<1> DEFINE IInv == TypeInv /\ OverAndReported
           Phase == IF Terminal(job) THEN job.status ELSE "open"
           ToldTimes == posts["completed"] + posts["partial"]
<1>1. Init => IInv
  BY InitTypeInv, JobAssumption, FreshJobType DEF Init, OverAndReported
<1>2. Init => Lifecycle!Init
  BY FreshJobType DEF Init, Lifecycle!Init
<1>3. IInv /\ [Next]_vars => IInv' /\ [Lifecycle!Next]_<<Phase, ToldTimes>>
  <2> SUFFICES ASSUME IInv, [Next]_vars PROVE IInv' /\ [Lifecycle!Next]_<<Phase, ToldTimes>>
    OBVIOUS
  <2>1. TypeInv'
    BY NextTypeInv, JobAssumption
  <2>2. CASE UNCHANGED <<job, pc, posts>>
    BY <2>1, <2>2 DEF OverAndReported, Terminal, Reportable
  <2>3. CASE Controller
    <3>1. /\ OverAndReported'
          /\ job'.status = job.status \/ ~Terminal(job)
          /\ posts' # posts => /\ Reportable(job) /\ job' = job /\ posts["completed"] + posts["partial"] = 0
                              /\ posts'["completed"] + posts'["partial"] = 1
      BY <2>3, OverAndReportedStep
    <3>2. CASE posts' # posts
      <4>1. Phase' = Phase /\ Phase \in {"completed", "partial"}
        BY <3>1, <3>2 DEF Reportable, Terminal, TerminalJobStatus
      <4>2. ToldTimes = 0 /\ ToldTimes' = 1
        BY <3>1, <3>2
      <4>3. Lifecycle!Tell
        BY <4>1, <4>2 DEF Lifecycle!Tell
      <4> QED BY <2>1, <3>1, <4>3 DEF Lifecycle!Next
    <3>3. CASE posts' = posts /\ job'.status = job.status
      BY <2>1, <3>1, <3>3 DEF Terminal
    <3>4. CASE posts' = posts /\ ~Terminal(job) /\ Terminal(job')
      <4>1. Phase = "open" /\ Phase' \in {"completed", "partial", "failed"} /\ ToldTimes' = ToldTimes
        BY <3>4 DEF Terminal, TerminalJobStatus
      <4>2. Lifecycle!Decide
        BY <4>1 DEF Lifecycle!Decide
      <4> QED BY <2>1, <3>1, <4>2 DEF Lifecycle!Next
    <3>5. CASE posts' = posts /\ ~Terminal(job) /\ ~Terminal(job')
      BY <2>1, <3>1, <3>5
    <3> QED BY <3>1, <3>2, <3>3, <3>4, <3>5
  <2> QED BY <2>2, <2>3, ControllerOnly
<1> HIDE DEF IInv
<1>4. Spec => Lifecycle!Init /\ [][Lifecycle!Next]_<<Phase, ToldTimes>>
  BY <1>1, <1>2, <1>3, PTL DEF Spec
<1> QED
  BY <1>4 DEF Lifecycle!Safety

-----------------------------------------------------------------------------
(* The searches that share listings *)

\* What is proved of CrawlStore, with the names that its variables have here.
Shared == INSTANCE CrawlStoreProofs WITH crawl <- execution

\* CrawlStore and the module of its proofs give the same definitions.
LEMMA SameCall == ASSUME NEW s PROVE Store!Call(s) <=> Shared!Call(s)
  BY DEF Store!Ids, Shared!Ids, Store!Row, Shared!Row, Store!Condemned, Shared!Condemned,
     Store!LinkedBy, Shared!LinkedBy, Store!NoCall, Shared!NoCall, Store!NoCrawl, Shared!NoCrawl,
     Store!NoDel, Shared!NoDel, Store!tables, Shared!tables, Store!ghosts, Shared!ghosts,
     Store!ReadKeyword, Shared!ReadKeyword, Store!SaveKeyword, Shared!SaveKeyword, Store!Hit,
     Shared!Hit, Store!Miss, Shared!Miss, Store!LinkCached, Shared!LinkCached, Store!LinkCachedFails,
     Shared!LinkCachedFails, Store!Answer, Shared!Answer, Store!Call, Shared!Call
LEMMA SameCrawl == ASSUME NEW s PROVE Store!Crawl(s) <=> Shared!Crawl(s)
  BY DEF Store!Ids, Shared!Ids, Store!Row, Shared!Row, Store!Condemned, Shared!Condemned,
     Store!LinkedBy, Shared!LinkedBy, Store!NoCall, Shared!NoCall, Store!NoCrawl, Shared!NoCrawl,
     Store!NoDel, Shared!NoDel, Store!tables, Shared!tables, Store!ghosts, Shared!ghosts, Store!At,
     Shared!At, Store!Load, Shared!Load, Store!MarkRunning, Shared!MarkRunning, Store!Visit,
     Shared!Visit, Store!SiteFailed, Shared!SiteFailed, Store!VisitFails, Shared!VisitFails,
     Store!Lookup, Shared!Lookup, Store!UrlFree, Shared!UrlFree, Store!SaveListing, Shared!SaveListing,
     Store!InsertListing, Shared!InsertListing, Store!SaveImage, Shared!SaveImage, Store!ListingRefused,
     Shared!ListingRefused, Store!LinkHolds, Shared!LinkHolds, Store!Link, Shared!Link, Store!LinkFails,
     Shared!LinkFails, Store!Index, Shared!Index, Store!Attempt, Shared!Attempt, Store!RecordAttempt,
     Shared!RecordAttempt, Store!Outcome, Shared!Outcome, Store!Finish, Shared!Finish, Store!Crawl,
     Shared!Crawl
LEMMA SameAgain == ASSUME NEW s PROVE Store!Again(s) <=> Shared!Again(s)
  BY DEF Store!Ids, Shared!Ids, Store!Row, Shared!Row, Store!Condemned, Shared!Condemned,
     Store!LinkedBy, Shared!LinkedBy, Store!NoCall, Shared!NoCall, Store!NoCrawl, Shared!NoCrawl,
     Store!NoDel, Shared!NoDel, Store!tables, Shared!tables, Store!ghosts, Shared!ghosts, Store!LinksOf,
     Shared!LinksOf, Store!Anew, Shared!Anew, Store!Unlinked, Shared!Unlinked, Store!Again, Shared!Again
LEMMA SameDelete == ASSUME NEW s
                    PROVE  (Store!ReadLinks(s) <=> Shared!ReadLinks(s)) /\ (Store!Delete(s) <=> Shared!Delete(s))
  BY DEF Store!Ids, Shared!Ids, Store!Row, Shared!Row, Store!Condemned, Shared!Condemned,
     Store!LinkedBy, Shared!LinkedBy, Store!NoCall, Shared!NoCall, Store!NoCrawl, Shared!NoCrawl,
     Store!NoDel, Shared!NoDel, Store!tables, Shared!tables, Store!ghosts, Shared!ghosts,
     Store!Executing, Shared!Executing, Store!Busy, Shared!Busy, Store!ReadLinks, Shared!ReadLinks,
     Store!DeleteHistory, Shared!DeleteHistory, Store!Orphan, Shared!Orphan, Store!CheckOrphan,
     Shared!CheckOrphan, Store!Purge, Shared!Purge, Store!Unindex, Shared!Unindex, Store!CountHistories,
     Shared!CountHistories, Store!DeleteKeyword, Shared!DeleteKeyword, Store!Delete, Shared!Delete
LEMMA SharedIs ==
  /\ Shared!StoreAssumption
  /\ Store!Init <=> Shared!Init
  /\ [Store!Next]_storeVars <=> [Shared!Next]_Shared!vars
  /\ Store!NoOrphans <=> Shared!NoOrphans
  /\ Store!StatusTellsResults <=> Shared!StatusTellsResults
<1>1. Shared!StoreAssumption
  BY SearchingAssumption DEF Store!StoreAssumption, Shared!StoreAssumption
<1>2. Store!Init <=> Shared!Init
  BY DEF Store!Init, Shared!Init, Store!NoCall, Shared!NoCall, Store!NoCrawl, Shared!NoCrawl,
     Store!NoDel, Shared!NoDel
<1>3. Store!Next <=> Shared!Next
  BY SameCall, SameCrawl, SameAgain, SameDelete DEF Store!Next, Shared!Next
<1>4. UNCHANGED storeVars <=> UNCHANGED Shared!vars
  BY DEF storeVars, Shared!vars, Shared!tables, Shared!ghosts
<1>5. Store!NoOrphans <=> Shared!NoOrphans
  BY DEF Store!NoOrphans, Shared!NoOrphans, Store!Ids, Shared!Ids, Store!Row, Shared!Row, Store!LinkedBy,
     Shared!LinkedBy, Store!InHand, Shared!InHand
<1>6. Store!StatusTellsResults <=> Shared!StatusTellsResults
  <2>1. \A s, u : Store!Linked(s, u) <=> Shared!Linked(s, u)
    BY DEF Store!Linked, Shared!Linked
  <2>2. \A s : Store!LinksOf(s) = Shared!LinksOf(s)
    BY DEF Store!LinksOf, Shared!LinksOf, Store!Ids, Shared!Ids
  <2> QED BY <2>1, <2>2, Zenon DEF Store!StatusTellsResults, Shared!StatusTellsResults
<1> QED
  BY <1>1, <1>2, <1>3, <1>4, <1>5, <1>6

\* The job's steps leave the searches alone.
LEMMA StoreStep ==
  ASSUME [SearchingNext]_<<part, vars, storeVars>>
  PROVE  [Store!Next]_storeVars
  BY DEF SearchingNext

\* As long as no search is deleted while it is filled, deletions leave no listing without a search,
\* whatever number of searches share it, are crawled, linked to it and deleted at once; but for the
\* listings that an execution had saved when it was cut off and that none has linked since.
THEOREM NoneOrphaned == SearchingSpec => []NoOrphans
<1>1. SearchingInit => Shared!StoreInv
  BY SharedIs, Shared!StoreInit DEF SearchingInit
<1>2. Shared!StoreInv /\ [SearchingNext]_<<part, vars, storeVars>> => Shared!StoreInv'
  BY StoreStep, SharedIs, Shared!StoreNext
<1>3. Shared!StoreInv => NoOrphans
  BY SharedIs DEF NoOrphans, Shared!StoreInv
<1> QED
  BY <1>1, <1>2, <1>3, PTL DEF SearchingSpec

\* As long as no search is deleted while it is filled and the executions of one search follow one
\* another, the status of a search whose crawl is over says what became of the sites and listings of
\* its last execution, wherever the earlier ones stopped and whatever other searches do beside it.
THEOREM StatusTells == SearchingSpec => []StatusTellsResults
<1>1. SearchingInit => Shared!ToldInv
  BY SharedIs, Shared!ToldInit DEF SearchingInit
<1>2. Shared!ToldInv /\ [SearchingNext]_<<part, vars, storeVars>> => Shared!ToldInv'
  BY StoreStep, SharedIs, Shared!ToldNext
<1>3. Shared!ToldInv => StatusTellsResults
  BY SharedIs, Shared!ToldTells DEF StatusTellsResults
<1> QED
  BY <1>1, <1>2, <1>3, PTL DEF SearchingSpec

=============================================================================
