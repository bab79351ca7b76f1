---------------------------- MODULE JobLifecycle ----------------------------
(***************************************************************************)
(* What a search job promises the BackOffice: it is open until one verdict *)
(* is given, the verdict stays, and a positive verdict is reported at most *)
(* once, after it was given.                                               *)
(***************************************************************************)
EXTENDS Naturals

VARIABLES
  phase,  \* "open", or the verdict
  told    \* how often the BackOffice was told

Init == phase = "open" /\ told = 0

Decide == /\ phase = "open"
          /\ phase' \in {"completed", "partial", "failed"}
          /\ UNCHANGED told

Tell == /\ phase \in {"completed", "partial"} /\ told = 0
        /\ told' = 1
        /\ UNCHANGED phase

Next == Decide \/ Tell

\* What never happens to a job.
Safety == Init /\ [][Next]_<<phase, told>>

\* Every job is decided; whether the report gets through depends on the network.
Spec == Safety /\ WF_<<phase, told>>(Decide)
=============================================================================
