-------------------------------- MODULE Services --------------------------------
(* Where the backend tries again what failed: the crawl queue with its dead-letter  *)
(* queue, and the AI component with the calls made for a search, the rules and the  *)
(* versions of a prompt.  They share no state, so they are explored side by side,   *)
(* each from its own beginning, instead of in every combination.                   *)
EXTENDS CrawlQueue, Integers, Sequences

CONSTANTS Ranking, Requests, Promising, Limit, SecondLimit, MatchConcurrency, MaxRetries, Lossy,
          Processes, Editors, Values, Contexts, CreateThreshold,
          Updates, Files, MaxVersions

VARIABLES part,
          phase, todo, chunk, task, results, sent, rows, recounted, lost,
          table, boot, edit, lowest, disabled,
          versions, noted, start, cache, call

Matching == INSTANCE AiMatching WITH
    queue <- todo, retried <- recounted, Concurrency <- MatchConcurrency

Rules == INSTANCE RuleEngine

Prompts == INSTANCE PromptVersions WITH rows <- versions

ASSUME ServicesAssumption ==
    Matching!MatchingAssumption /\ Rules!RuleAssumption /\ Prompts!PromptAssumption

matchingVars == <<phase, todo, chunk, task, results, sent, rows, recounted, lost>>
ruleVars     == <<table, boot, edit, lowest, disabled>>
promptVars   == <<versions, noted, start, cache, call>>
serviceVars  == <<part, vars, matchingVars, ruleVars, promptVars>>

ServicesInit ==
    /\ part \in {"queue", "matching", "request", "rules", "prompts"}
    /\ Init /\ Matching!Init /\ Rules!Init /\ Prompts!Init

ServicesNext ==
    /\ UNCHANGED part
    /\ \/ part = "queue"    /\ Next          /\ UNCHANGED <<matchingVars, ruleVars, promptVars>>
       \/ part = "matching" /\ Matching!SearchStep /\ UNCHANGED <<vars, ruleVars, promptVars>>
       \/ part = "request" /\ Matching!RequestStep /\ UNCHANGED <<vars, ruleVars, promptVars>>
       \/ part = "rules"    /\ Rules!Next    /\ UNCHANGED <<vars, matchingVars, promptVars>>
       \/ part = "prompts"  /\ Prompts!Next  /\ UNCHANGED <<vars, matchingVars, ruleVars>>

\* AiMatching!Fairness, in the parts it is about.
MatchingFairness ==
    /\ WF_matchingVars(part = "matching" /\ Matching!Passes)
    /\ \A l \in Matching!Listings :
          WF_matchingVars(part = "matching" /\ (Matching!Match(l) \/ Matching!Again(l)))
    /\ \A r \in Requests :
          WF_matchingVars(part = "request" /\ (Matching!EndRequest(r) \/ Matching!Again(r)))

ServicesSpec == ServicesInit /\ [][ServicesNext]_serviceVars /\ Fairness /\ MatchingFairness

-----------------------------------------------------------------------------
(* The variables of the queue, the calls, the rules and the prompt keep their types. *)
ServicesTypeOK == TypeOK /\ Matching!TypeOK /\ Rules!TypeOK /\ Prompts!TypeOK

(* AiMatching: no listing is evaluated beside itself, or again after success. *)
OncePerListing == Matching!OncePerListing

(* AiMatching: the usage rows and their retry counts add up to the requests sent, but for *)
(* those whose row was lost.                                                             *)
LedgerAccounts == Matching!LedgerAccounts

(* AiMatching: the requests of a search are bounded by its limits and retries. *)
SpendBounded == Matching!SpendBounded

(* AiMatching: the two passes end, whatever the providers answer. *)
MatchingEnds == part = "matching" => <>(phase = "over")

(* RuleEngine: no listing becomes a case at a score nobody asked for. *)
CreationWasAsked == Rules!CreationWasAsked

(* PromptVersions: none but the latest version is ever active. *)
LatestOrNoneActive == Prompts!LatestOrNoneActive

=============================================================================
