----------------------------- MODULE JobStatus -----------------------------
(***************************************************************************)
(* The pure status and progress algorithms shared by the search-job        *)
(* service and the progress subscriber                                     *)
(* (src/modules/search-job/search-job-status.util.ts).                     *)
(*                                                                         *)
(* A job runs one search per keyword; the list of the keywords' statuses   *)
(* is a function from the recorded keywords to their status.  The code     *)
(* receives it as an array whose order it never looks at.                  *)
(***************************************************************************)
EXTENDS Integers, FiniteSets, Folds

\* search_jobs.status
ActiveJobStatus == {"pending", "queued", "running"}
TerminalJobStatus == {"completed", "partial", "failed"}
JobStatusSet == ActiveJobStatus \cup TerminalJobStatus

\* A slip: a keyword that ran out of time counts as searched.
SuccessOrTimeout == {"completed", "partial", "cached", "timeout"}

\* The statuses a finished search of one keyword can have.  "timeout" exists
\* only on the job's own row, never on the search itself.
SuccessStatus == {"completed", "partial", "cached"}
FailureStatus == {"failed", "timeout"}
TerminalStatus == {"completed", "partial", "failed", "cached", "timeout"}
RowStatus == {"queued", "running"} \cup TerminalStatus

-----------------------------------------------------------------------------
\* The keywords of st whose status belongs to S.
Having(st, S) == {k \in DOMAIN st : st[k] \in S}

\* A slip: a unanimous list gives its own status.
UnanimousStatus(st) ==
  IF DOMAIN st = {} THEN "failed"
  ELSE IF \E s \in RowStatus : \A k \in DOMAIN st : st[k] = s THEN st[CHOOSE k \in DOMAIN st : TRUE]
  ELSE "partial"

\* The verdict of a job from the statuses of its keywords: all succeeded,
\* some did, or none (an empty list is a failure).
ResolveJobStatus(st) ==
  LET total     == Cardinality(DOMAIN st)
      successes == Cardinality(Having(st, SuccessStatus))
      failures  == Cardinality(Having(st, FailureStatus))
  IN  IF total = 0 THEN "failed"
      ELSE IF successes = total THEN "completed"
      ELSE IF failures = total THEN "failed"
      ELSE IF successes > 0 THEN "partial"
      ELSE "failed"

-----------------------------------------------------------------------------
\* Progress is a percentage; NoPercent, outside the range the callers pass,
\* stands for an absent (null, undefined or non-finite) one.
NoPercent == -1

\* Round half up, as Math.round does, of the rational n / d.
RoundDiv(n, d) == (2 * n + d) \div (2 * d)

ClampInt(v) == IF v < 0 THEN 0 ELSE IF v > 100 THEN 100 ELSE v

ClampProgress(v) == IF v = NoPercent THEN 0 ELSE ClampInt(v)

\* What one keyword contributes to the job's progress.
ItemProgress(status, percent) ==
  IF status \in TerminalStatus THEN 100
  ELSE IF percent # NoPercent THEN ClampProgress(percent)
  ELSE IF status = "running" THEN 50 ELSE 10

\* The mean of the keywords' contributions, rounded.
AggregateJobProgress(st, percent) ==
  IF DOMAIN st = {} THEN 0
  ELSE ClampInt(RoundDiv(
         MapThenFoldSet(LAMBDA x, y : x + y, 0,
                        LAMBDA k : ItemProgress(st[k], percent[k]),
                        LAMBDA S : CHOOSE k \in S : TRUE, DOMAIN st),
         Cardinality(DOMAIN st)))
=============================================================================
