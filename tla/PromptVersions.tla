----------------------------- MODULE PromptVersions -----------------------------
(* The versions of one prompt: files seeded by every process that boots, updates   *)
(* by administrators, and the cache from which each process renders.               *)
(* ai/prompt/prompt-manager.service.ts.                                           *)
EXTENDS Integers, FiniteSets

CONSTANTS Processes,     \* processes that load AppModule
          Updates,       \* calls of updatePrompt that may be open at one time
          Files,         \* versions the template directory has
          MaxVersions    \* bound on the numbers updates give

PromptAssumption == MaxVersions \in Nat /\ \E n \in 1..MaxVersions : Files = 1..n

None == 0                \* no version
Versions == 1..MaxVersions

VARIABLES
    rows,     \* ai_prompt_versions: version -> is it active
    noted,    \* ai_prompt_histories: the versions noted there
    start,    \* per process: what its onModuleInit does next
    cache,    \* per process: the version it renders, or None
    call      \* per update: what it does next

vars == <<rows, noted, start, cache, call>>

Idle == [pc |-> "idle"]
Down == [pc |-> "down"]
Up   == [pc |-> "up"]

Latest(S) == CHOOSE v \in S : \A w \in S : v >= w
Active    == {v \in DOMAIN rows : rows[v]}

(* A row is inserted, or the unique (key, version) refuses it. *)
Insert(v, active) == rows' = [w \in DOMAIN rows \cup {v} |->
                                IF w = v THEN active ELSE rows[w]]

Init ==
    /\ rows = << >> /\ noted = {}
    /\ start = [p \in Processes |-> Down]
    /\ cache = [p \in Processes |-> None]
    /\ call = [u \in Updates |-> Idle]

-----------------------------------------------------------------------------
(* onModuleInit: syncFromFiles, one file after the other, then reloadCache.       *)

Boot(p) ==
    /\ start[p].pc = "down"
    /\ start' = [start EXCEPT ![p] = [pc |-> "exists", file |-> 1]]
    /\ UNCHANGED <<rows, noted, cache, call>>

(* What p does after a file: the next one, or fill the cache. *)
After(p) == IF start[p].file + 1 \in Files THEN [pc |-> "exists", file |-> start[p].file + 1]
                                          ELSE [pc |-> "reload"]

FindExisting(p) ==
    /\ start[p].pc = "exists"
    /\ start' = [start EXCEPT ![p] = IF start[p].file \in DOMAIN rows THEN After(p)
                                   ELSE [pc |-> "active", file |-> @.file]]
    /\ UNCHANGED <<rows, noted, cache, call>>

FindActive(p) ==
    /\ start[p].pc = "active"
    /\ start' = [start EXCEPT ![p] = [pc |-> "seed", file |-> @.file, alone |-> Active = {}]]
    /\ UNCHANGED <<rows, noted, cache, call>>

Seed(p) ==
    /\ start[p].pc = "seed" /\ start[p].file \notin DOMAIN rows
    /\ Insert(start[p].file, start[p].alone)
    /\ start' = [start EXCEPT ![p] = [pc |-> "note", file |-> @.file]]
    /\ UNCHANGED <<noted, cache, call>>

NoteSeed(p) ==
    /\ start[p].pc = "note"
    /\ noted' = noted \cup {start[p].file}
    /\ start' = [start EXCEPT ![p] = After(p)]
    /\ UNCHANGED <<rows, cache, call>>

(* A refused insert or a database error: the file is skipped with a warning. *)
SeedFails(p) ==
    /\ start[p].pc \in {"exists", "active", "seed", "note"}
    /\ start' = [start EXCEPT ![p] = After(p)]
    /\ UNCHANGED <<rows, noted, cache, call>>

(* reloadCache: an active row, in whatever order the rows come; without any, or   *)
(* when the read fails, the latest file.                                          *)
Reloaded(v) == v \in Active \/ v = Latest(Files)

FillCache(p) ==
    /\ start[p].pc = "reload"
    /\ \E v \in DOMAIN rows \cup Files : Reloaded(v) /\ cache' = [cache EXCEPT ![p] = v]
    /\ start' = [start EXCEPT ![p] = Up]
    /\ UNCHANGED <<rows, noted, call>>

Restart(p) ==
    /\ start[p].pc # "down" /\ start' = [start EXCEPT ![p] = Down]
    /\ cache' = [cache EXCEPT ![p] = None]
    /\ call' = [u \in Updates |-> IF call[u].pc # "idle" /\ call[u].at = p THEN Idle
                                  ELSE call[u]]
    /\ UNCHANGED <<rows, noted>>

-----------------------------------------------------------------------------
(* updatePrompt, served by process p. *)

ReadLatest(u, p) ==
    /\ call[u].pc = "idle" /\ start[p].pc = "up"
    /\ LET next == IF DOMAIN rows = {} THEN 1 ELSE Latest(DOMAIN rows) + 1
       IN  /\ next \in Versions
           /\ call' = [call EXCEPT ![u] = [pc |-> "deactivate", at |-> p, next |-> next]]
    /\ UNCHANGED <<rows, noted, start, cache>>

(* A slip of StillActive: no version is deactivated. *)
StaysActive(v) == rows[v]

StillActive(v) == FALSE

Deactivate(u) ==
    /\ call[u].pc = "deactivate"
    /\ rows' = [v \in DOMAIN rows |-> StillActive(v)]
    /\ call' = [call EXCEPT ![u].pc = "insert"]
    /\ UNCHANGED <<noted, start, cache>>

InsertNew(u) ==
    /\ call[u].pc = "insert" /\ call[u].next \notin DOMAIN rows
    /\ Insert(call[u].next, TRUE)
    /\ call' = [call EXCEPT ![u].pc = "note"]
    /\ UNCHANGED <<noted, start, cache>>

NoteUpdate(u) ==
    /\ call[u].pc = "note"
    /\ noted' = noted \cup {call[u].next}
    /\ call' = [call EXCEPT ![u].pc = "reload"]
    /\ UNCHANGED <<rows, start, cache>>

ReloadOwn(u) ==
    /\ call[u].pc = "reload"
    /\ \E v \in DOMAIN rows \cup Files : Reloaded(v) /\ cache' = [cache EXCEPT ![call[u].at] = v]
    /\ call' = [call EXCEPT ![u] = Idle]
    /\ UNCHANGED <<rows, noted, start>>

(* A refused insert or a database error answers the call with an error; what it   *)
(* has written so far stays.                                                      *)
UpdateFails(u) ==
    /\ call[u].pc \in {"deactivate", "insert", "note"}
    /\ call' = [call EXCEPT ![u] = Idle]
    /\ UNCHANGED <<rows, noted, start, cache>>

Next ==
    \/ \E p \in Processes : \/ Boot(p) \/ FindExisting(p) \/ FindActive(p) \/ Seed(p)
                            \/ NoteSeed(p) \/ SeedFails(p) \/ FillCache(p) \/ Restart(p)
    \/ \E u \in Updates, p \in Processes : ReadLatest(u, p)
    \/ \E u \in Updates : \/ Deactivate(u) \/ InsertNew(u) \/ NoteUpdate(u)
                          \/ ReloadOwn(u) \/ UpdateFails(u)

Spec == Init /\ [][Next]_vars

-----------------------------------------------------------------------------
TypeOK ==
    /\ DOMAIN rows \subseteq Versions
    /\ \A v \in DOMAIN rows : rows[v] \in BOOLEAN
    /\ start \in [Processes -> {Down, Up, [pc |-> "reload"]}
                    \cup [pc : {"exists", "active", "note"}, file : Files]
                    \cup [pc : {"seed"}, file : Files, alone : BOOLEAN]]
    /\ cache \in [Processes -> {None} \cup Versions]
    /\ call \in [Updates -> {Idle} \cup
                    [pc : {"deactivate", "insert", "note", "reload"}, at : Processes, next : Versions]]

(* However boots and updates interleave, fail and restart, the versions are        *)
(* numbered without a gap and none but the latest is active, as long as the        *)
(* template directory has one version, as the repository's has.                   *)
LatestOrNoneActive == \E n \in 0..MaxVersions : DOMAIN rows = 1..n /\ Active \subseteq {n}

=============================================================================
