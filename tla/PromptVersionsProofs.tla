-------------------------- MODULE PromptVersionsProofs --------------------------
(* Proofs about PromptVersions, for any processes, updates and bound on the versions. *)
EXTENDS PromptVersions, TLAPS

StartType == {Down, Up, [pc |-> "reload"]}
             \cup [pc : {"exists", "active", "note"}, file : Files]
             \cup [pc : {"seed"}, file : Files, alone : BOOLEAN]

CallType == {Idle} \cup
            [pc : {"deactivate", "insert", "note", "reload"}, at : Processes, next : Versions]

LEMMA FilesAreVersions ==
  ASSUME PromptAssumption
  PROVE  /\ 1 \in Files /\ Files \subseteq Versions
         /\ Latest(Files) \in Files
<1>1. PICK n \in 1..MaxVersions : Files = 1..n
  BY DEF PromptAssumption
<1>2. n \in Files /\ \A w \in Files : n >= w
  BY <1>1 DEF PromptAssumption
<1>3. Latest(Files) \in Files
  BY <1>2 DEF Latest
<1> QED
  BY <1>1, <1>3 DEF PromptAssumption, Versions

-----------------------------------------------------------------------------
(* Types *)

LEMMA AfterType ==
  ASSUME PromptAssumption, NEW p \in Processes, start[p].file \in Files
  PROVE  After(p) \in StartType
<1>1. [pc |-> "reload"] \in StartType
  BY DEF StartType
<1>2. ASSUME start[p].file + 1 \in Files
      PROVE  [pc |-> "exists", file |-> start[p].file + 1] \in StartType
  BY <1>2 DEF StartType
<1> QED
  BY <1>1, <1>2 DEF After

\* What a start holds while it goes over the files.
LEMMA StartHolds ==
  ASSUME TypeOK, NEW p \in Processes
  PROVE  /\ start[p].pc \in {"exists", "active", "note", "seed"} => start[p].file \in Files
         /\ start[p].pc = "seed" => start[p].alone \in BOOLEAN
<1>1. start[p] \in StartType
  BY DEF TypeOK, StartType
<1> QED
  BY <1>1 DEF StartType, Down, Up

LEMMA CallHolds ==
  ASSUME TypeOK, NEW u \in Updates, call[u].pc # "idle"
  PROVE  call[u] \in [pc : {"deactivate", "insert", "note", "reload"}, at : Processes, next : Versions]
  BY DEF TypeOK, Idle

LEMMA InsertType ==
  ASSUME TypeOK, NEW v \in Versions, NEW b \in BOOLEAN, Insert(v, b)
  PROVE  /\ DOMAIN rows' = DOMAIN rows \cup {v}
         /\ \A w \in DOMAIN rows' : rows'[w] \in BOOLEAN
         /\ \A w \in DOMAIN rows \ {v} : rows'[w] = rows[w]
         /\ rows'[v] = b
  BY DEF TypeOK, Insert

LEMMA RowsKept ==
  ASSUME TypeOK, UNCHANGED rows
  PROVE  DOMAIN rows' \subseteq Versions /\ \A v \in DOMAIN rows' : rows'[v] \in BOOLEAN
  BY DEF TypeOK

LEMMA TypeInit == ASSUME PromptAssumption, Init PROVE TypeOK
<1>1. DOMAIN rows = {}
  BY DEF Init
<1> QED
  BY <1>1 DEF Init, TypeOK, Down, Idle

LEMMA TypeNext ==
  ASSUME PromptAssumption, TypeOK, [Next]_vars
  PROVE  TypeOK'
<1> DEFINE Rows   == DOMAIN rows \subseteq Versions /\ \A v \in DOMAIN rows : rows[v] \in BOOLEAN
           Starts == start \in [Processes -> StartType]
           Caches == cache \in [Processes -> {None} \cup Versions]
           Open   == call \in [Updates -> CallType]
<1>1. Rows /\ Starts /\ Caches /\ Open
  BY DEF TypeOK, StartType, CallType
<1>2. SUFFICES Rows' /\ Starts' /\ Caches' /\ Open'
  BY DEF TypeOK, StartType, CallType
<1>3. Files \subseteq Versions /\ 1 \in Files /\ Latest(Files) \in Files
  BY FilesAreVersions
<1>4. ASSUME NEW p \in Processes, Boot(p) PROVE Rows' /\ Starts' /\ Caches' /\ Open'
  <2>1. [pc |-> "exists", file |-> 1] \in StartType
    BY <1>3 DEF StartType
  <2> QED BY <1>1, <1>4, <2>1 DEF Boot
<1>5. ASSUME NEW p \in Processes, FindExisting(p) PROVE Rows' /\ Starts' /\ Caches' /\ Open'
  <2>1. start[p].file \in Files
    BY <1>5, StartHolds DEF FindExisting
  <2>2. After(p) \in StartType
    BY <2>1, AfterType
  <2>3. [pc |-> "active", file |-> start[p].file] \in StartType
    BY <2>1 DEF StartType
  <2> QED BY <1>1, <1>5, <2>2, <2>3 DEF FindExisting
<1>6. ASSUME NEW p \in Processes, FindActive(p) PROVE Rows' /\ Starts' /\ Caches' /\ Open'
  <2>1. start[p].file \in Files
    BY <1>6, StartHolds DEF FindActive
  <2>2. [pc |-> "seed", file |-> start[p].file, alone |-> Active = {}] \in StartType
    BY <2>1 DEF StartType
  <2> QED BY <1>1, <1>6, <2>2 DEF FindActive
<1>7. ASSUME NEW p \in Processes, Seed(p) PROVE Rows' /\ Starts' /\ Caches' /\ Open'
  <2>1. start[p].file \in Files /\ start[p].alone \in BOOLEAN
    BY <1>7, StartHolds DEF Seed
  <2>2. [pc |-> "note", file |-> start[p].file] \in StartType
    BY <2>1 DEF StartType
  <2>3. Rows'
    <3>1. start[p].file \in Versions /\ Insert(start[p].file, start[p].alone)
      BY <1>3, <1>7, <2>1 DEF Seed
    <3>2. DOMAIN rows' = DOMAIN rows \cup {start[p].file} /\ \A w \in DOMAIN rows' : rows'[w] \in BOOLEAN
      BY <2>1, <3>1, InsertType
    <3> QED BY <1>1, <3>1, <3>2
  <2> QED BY <1>1, <1>7, <2>2, <2>3 DEF Seed
<1>8. ASSUME NEW p \in Processes, NoteSeed(p) \/ SeedFails(p)
      PROVE  Rows' /\ Starts' /\ Caches' /\ Open'
  <2>1. start[p].file \in Files
    BY <1>8, StartHolds DEF NoteSeed, SeedFails
  <2>2. After(p) \in StartType
    BY <2>1, AfterType
  <2> QED BY <1>1, <1>8, <2>2 DEF NoteSeed, SeedFails
<1>9. ASSUME NEW p \in Processes, FillCache(p) PROVE Rows' /\ Starts' /\ Caches' /\ Open'
  <2>1. Up \in StartType
    BY DEF StartType
  <2>2. DOMAIN rows \cup Files \subseteq Versions
    BY <1>1, <1>3
  <2> QED BY <1>1, <1>9, <2>1, <2>2 DEF FillCache
<1>10. ASSUME NEW p \in Processes, Restart(p) PROVE Rows' /\ Starts' /\ Caches' /\ Open'
  <2>1. Down \in StartType /\ Idle \in CallType
    BY DEF StartType, CallType
  <2> QED BY <1>1, <1>10, <2>1 DEF Restart
<1>11. ASSUME NEW u \in Updates, NEW p \in Processes, ReadLatest(u, p)
       PROVE  Rows' /\ Starts' /\ Caches' /\ Open'
  <2>1. PICK next \in Versions :
          call' = [call EXCEPT ![u] = [pc |-> "deactivate", at |-> p, next |-> next]]
    BY <1>11 DEF ReadLatest
  <2>2. [pc |-> "deactivate", at |-> p, next |-> next] \in CallType
    BY <2>1 DEF CallType
  <2> QED BY <1>1, <1>11, <2>1, <2>2 DEF ReadLatest
<1>12. ASSUME NEW u \in Updates, Deactivate(u) PROVE Rows' /\ Starts' /\ Caches' /\ Open'
  <2>1. [call[u] EXCEPT !.pc = "insert"] \in CallType
    BY <1>12, CallHolds DEF Deactivate, CallType
  <2> QED BY <1>1, <1>12, <2>1 DEF Deactivate, StillActive
<1>13. ASSUME NEW u \in Updates, InsertNew(u) PROVE Rows' /\ Starts' /\ Caches' /\ Open'
  <2>1. call[u].next \in Versions /\ [call[u] EXCEPT !.pc = "note"] \in CallType
    BY <1>13, CallHolds DEF InsertNew, CallType
  <2>2. Rows'
    <3>1. DOMAIN rows' = DOMAIN rows \cup {call[u].next} /\ \A w \in DOMAIN rows' : rows'[w] \in BOOLEAN
      BY <1>13, <2>1, InsertType DEF InsertNew
    <3> QED BY <1>1, <2>1, <3>1
  <2> QED BY <1>1, <1>13, <2>1, <2>2 DEF InsertNew
<1>14. ASSUME NEW u \in Updates, NoteUpdate(u) PROVE Rows' /\ Starts' /\ Caches' /\ Open'
  <2>1. [call[u] EXCEPT !.pc = "reload"] \in CallType
    BY <1>14, CallHolds DEF NoteUpdate, CallType
  <2> QED BY <1>1, <1>14, <2>1 DEF NoteUpdate
<1>15. ASSUME NEW u \in Updates, ReloadOwn(u) PROVE Rows' /\ Starts' /\ Caches' /\ Open'
  <2>1. Idle \in CallType /\ call[u].at \in Processes
    BY <1>15, CallHolds DEF ReloadOwn, CallType
  <2>2. DOMAIN rows \cup Files \subseteq Versions
    BY <1>1, <1>3
  <2> QED BY <1>1, <1>15, <2>1, <2>2 DEF ReloadOwn
<1>16. ASSUME NEW u \in Updates, UpdateFails(u) PROVE Rows' /\ Starts' /\ Caches' /\ Open'
  <2>1. Idle \in CallType
    BY DEF CallType
  <2> QED BY <1>1, <1>16, <2>1 DEF UpdateFails
<1>17. CASE UNCHANGED vars
  BY <1>1, <1>17 DEF vars
<1> QED
  BY <1>4, <1>5, <1>6, <1>7, <1>8, <1>9, <1>10, <1>11, <1>12, <1>13, <1>14, <1>15, <1>16, <1>17
  DEF Next

\* The rows, the starts and the calls of the prompt manager keep their types.
THEOREM TypeCorrect == ASSUME PromptAssumption PROVE Spec => []TypeOK
<1>1. Init => TypeOK
  BY TypeInit
<1>2. TypeOK /\ [Next]_vars => TypeOK'
  BY TypeNext
<1> QED
  BY <1>1, <1>2, PTL DEF Spec

-----------------------------------------------------------------------------
(* Versions *)

\* The versions up to n are there and at most the last is active.  A call that is about to
\* insert knows the versions of its reading; when its version is still the next one, nothing
\* has become active since it deactivated them all.
Numbered(n) ==
  /\ DOMAIN rows = 1..n /\ Active \subseteq {n}
  /\ \A u \in Updates : call[u].pc \in {"deactivate", "insert"} => call[u].next <= n + 1
  /\ \A u \in Updates : call[u].pc = "insert" /\ call[u].next = n + 1 => Active = {}

NumberedInv == \E n \in 0..MaxVersions : Numbered(n)

LEMMA LatestOf ==
  ASSUME NEW n \in Nat, n # 0
  PROVE  Latest(1..n) = n
<1>1. n \in 1..n /\ \A w \in 1..n : n >= w
  OBVIOUS
<1>2. \A v \in 1..n : (\A w \in 1..n : v >= w) => v = n
  OBVIOUS
<1> QED
  BY <1>1, <1>2 DEF Latest

LEMMA NumberedInit == ASSUME PromptAssumption, Init PROVE NumberedInv
<1>1. DOMAIN rows = 1..0 /\ Active = {}
  BY DEF Init, Active
<1>2. \A u \in Updates : call[u].pc = "idle"
  BY DEF Init, Idle
<1>3. 0 \in 0..MaxVersions
  BY DEF PromptAssumption
<1> QED
  BY <1>1, <1>2, <1>3 DEF NumberedInv, Numbered

\* With one file, no step leaves a gap or a second active version.
LEMMA NumberedNext ==
  ASSUME PromptAssumption, Files = {1}, TypeOK, NumberedInv, [Next]_vars
  PROVE  NumberedInv'
<1>1. PICK n \in 0..MaxVersions : Numbered(n)
  BY DEF NumberedInv
<1>2. MaxVersions \in Nat /\ n \in Nat
  BY DEF PromptAssumption
<1>3. \A u \in Updates : call[u].pc # "idle" => call[u].next \in Int
  BY CallHolds DEF Versions
<1>4. ASSUME UNCHANGED rows,
             \A u \in Updates : call'[u] = call[u] \/ call'[u].pc \notin {"deactivate", "insert"}
      PROVE  NumberedInv'
  <2>1. Active' = Active
    BY <1>4 DEF Active
  <2>2. Numbered(n)'
    BY <1>1, <1>4, <2>1 DEF Numbered
  <2> QED BY <2>2 DEF NumberedInv
<1>5. ASSUME NEW p \in Processes, Seed(p) PROVE NumberedInv'
  <2>1. start[p].file = 1 /\ start[p].alone \in BOOLEAN /\ 1 \notin DOMAIN rows
    BY <1>5, StartHolds DEF Seed
  <2>2. n = 0
    BY <1>1, <1>2, <2>1 DEF Numbered
  <2>3. 1 \in Versions
    BY FilesAreVersions
  <2>4. DOMAIN rows' = DOMAIN rows \cup {1}
    BY <1>5, <2>1, <2>3, InsertType DEF Seed
  <2>5. DOMAIN rows' = 1..1 /\ Active' \subseteq {1}
    BY <1>1, <2>2, <2>4 DEF Numbered, Active
  <2>6. Numbered(1)'
    BY <1>1, <1>3, <1>5, <2>2, <2>5 DEF Numbered, Seed
  <2>7. 1 \in 0..MaxVersions
    BY <1>2, <2>3 DEF Versions
  <2> QED BY <2>6, <2>7 DEF NumberedInv
<1>6. ASSUME NEW u \in Updates, NEW p \in Processes, ReadLatest(u, p) PROVE NumberedInv'
  <2>1. UNCHANGED rows /\ call' = [call EXCEPT ![u] =
          [pc |-> "deactivate", at |-> p,
           next |-> IF DOMAIN rows = {} THEN 1 ELSE Latest(DOMAIN rows) + 1]]
    BY <1>6 DEF ReadLatest
  <2>2. (IF DOMAIN rows = {} THEN 1 ELSE Latest(DOMAIN rows) + 1) = n + 1
    <3>1. CASE n = 0
      BY <1>1, <3>1 DEF Numbered
    <3>2. CASE n # 0
      BY <1>1, <1>2, <3>2, LatestOf DEF Numbered
    <3> QED BY <3>1, <3>2
  <2>3. Active' = Active
    BY <2>1 DEF Active
  <2>4. /\ call'[u].pc = "deactivate" /\ call'[u].next = n + 1
        /\ \A v \in Updates \ {u} : call'[v] = call[v]
    BY <2>1, <2>2 DEF TypeOK
  <2>5. Numbered(n)'
    BY <1>1, <1>2, <2>1, <2>3, <2>4 DEF Numbered
  <2> QED BY <2>5 DEF NumberedInv
<1>7. ASSUME NEW u \in Updates, Deactivate(u) PROVE NumberedInv'
  <2>1. DOMAIN rows' = DOMAIN rows /\ Active' = {}
    BY <1>7 DEF Deactivate, StillActive, Active
  <2>2. \A v \in Updates : /\ call'[v].pc # call[v].pc => call[v].pc = "deactivate"
                           /\ call'[v].next = call[v].next
    <3>1. call[u] \in [pc : {"deactivate", "insert", "note", "reload"}, at : Processes, next : Versions]
      BY <1>7, CallHolds DEF Deactivate
    <3> QED BY <1>7, <3>1 DEF Deactivate, TypeOK
  <2>3. Numbered(n)'
    BY <1>1, <2>1, <2>2 DEF Numbered
  <2> QED BY <2>3 DEF NumberedInv
<1>8. ASSUME NEW u \in Updates, InsertNew(u) PROVE NumberedInv'
  <2>1. /\ call[u].next \in Versions /\ call[u].next \notin DOMAIN rows
        /\ call[u].pc = "insert" /\ Insert(call[u].next, TRUE)
    BY <1>8, CallHolds DEF InsertNew
  <2>2. call[u].next = n + 1 /\ Active = {}
    BY <1>1, <1>2, <2>1 DEF Numbered, Versions
  <2>3. n + 1 \in 0..MaxVersions
    BY <1>2, <2>1, <2>2 DEF Versions
  <2>4. DOMAIN rows' = 1..(n + 1) /\ \A w \in 1..n : rows'[w] = rows[w]
    <3>1. DOMAIN rows' = DOMAIN rows \cup {n + 1} /\ \A w \in DOMAIN rows \ {n + 1} : rows'[w] = rows[w]
      BY <2>1, <2>2, InsertType
    <3> QED BY <1>1, <1>2, <3>1 DEF Numbered
  <2>5. Active' \subseteq {n + 1}
    BY <1>1, <1>2, <2>2, <2>4 DEF Numbered, Active
  <2>6. /\ call'[u].pc = "note"
        /\ \A v \in Updates \ {u} : call'[v] = call[v]
    <3>1. call[u] \in [pc : {"deactivate", "insert", "note", "reload"}, at : Processes, next : Versions]
      BY <1>8, CallHolds DEF InsertNew
    <3> QED BY <1>8, <3>1 DEF InsertNew, TypeOK
  <2>7. Numbered(n + 1)'
    BY <1>1, <1>2, <1>3, <2>4, <2>5, <2>6 DEF Numbered
  <2> QED BY <2>3, <2>7 DEF NumberedInv
<1>9. ASSUME NEW p \in Processes,
             Boot(p) \/ FindExisting(p) \/ FindActive(p) \/ NoteSeed(p) \/ SeedFails(p)
                \/ FillCache(p) \/ Restart(p)
      PROVE  NumberedInv'
  BY <1>4, <1>9 DEF Boot, FindExisting, FindActive, NoteSeed, SeedFails, FillCache, Restart, TypeOK, Idle
<1>10. ASSUME NEW u \in Updates, NoteUpdate(u) \/ ReloadOwn(u) \/ UpdateFails(u) PROVE NumberedInv'
  <2>1. call[u] \in [pc : {"deactivate", "insert", "note", "reload"}, at : Processes, next : Versions]
    BY <1>10, CallHolds DEF NoteUpdate, ReloadOwn, UpdateFails
  <2> QED BY <1>4, <1>10, <2>1 DEF NoteUpdate, ReloadOwn, UpdateFails, TypeOK, Idle
<1>11. CASE UNCHANGED vars
  BY <1>4, <1>11 DEF vars
<1> QED
  BY <1>5, <1>6, <1>7, <1>8, <1>9, <1>10, <1>11 DEF Next

\* With one file for the prompt, and however boots and updates interleave, fail and restart, the
\* versions are numbered without a gap and none but the latest is active.
THEOREM VersionsNumbered ==
  ASSUME PromptAssumption, Files = {1}
  PROVE  Spec => []LatestOrNoneActive
<1>1. Init => NumberedInv
  BY NumberedInit
<1>2. TypeOK /\ NumberedInv /\ [Next]_vars => NumberedInv'
  BY NumberedNext
<1>3. NumberedInv => LatestOrNoneActive
  BY DEF NumberedInv, Numbered, LatestOrNoneActive
<1> QED
  BY <1>1, <1>2, <1>3, TypeCorrect, PTL DEF Spec
=============================================================================
