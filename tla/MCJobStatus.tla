---------------------------- MODULE MCJobStatus ----------------------------
(***************************************************************************)
(* The verdict and the progress of a job, evaluated on every list of       *)
(* keyword statuses that its searches, its timeouts and late events can    *)
(* make of it, in every order.                                             *)
(***************************************************************************)
EXTENDS JobStatus

CONSTANTS Keywords, Percents

VARIABLES st,       \* the recorded keywords' statuses
          percent   \* the percentage each was last heard at

Init == st = <<>> /\ percent = <<>>

\* recordJobHistory adds the row of one more keyword.
Record(k) ==
  /\ k \notin DOMAIN st
  /\ \E s \in {"queued", "cached"} :
       st' = [l \in DOMAIN st \cup {k} |-> IF l = k THEN s ELSE st[l]]
  /\ percent' = [l \in DOMAIN st' |-> IF l = k THEN NoPercent ELSE percent[l]]

\* A crawl event or a poll moves a row forward, with any percentage.
Advance(k) ==
  /\ k \in DOMAIN st
  /\ \E s \in {"running", "completed", "partial", "failed", "timeout"}, p \in Percents :
       /\ st[k] \in {"queued", "running"}
       /\ st' = [st EXCEPT ![k] = s]
       /\ percent' = [percent EXCEPT ![k] = p]

\* The event of a crawl that outlived its keyword's timeout.
Revive(k) ==
  /\ k \in DOMAIN st /\ st[k] = "timeout"
  /\ st' = [st EXCEPT ![k] = "completed"]
  /\ UNCHANGED percent

Next == \E k \in Keywords : Record(k) \/ Advance(k) \/ Revive(k)

Spec == Init /\ [][Next]_<<st, percent>>

-----------------------------------------------------------------------------
\* A4: completed when every search succeeded, failed when none did, partial
\* otherwise.
VerdictMeaning ==
  LET success(k) == st[k] \in SuccessStatus
  IN  ResolveJobStatus(st) =
        IF \A k \in DOMAIN st : ~success(k) THEN "failed"
        ELSE IF \A k \in DOMAIN st : success(k) THEN "completed" ELSE "partial"

=============================================================================
