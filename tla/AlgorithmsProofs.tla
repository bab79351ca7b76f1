---------------------------- MODULE AlgorithmsProofs ----------------------------
(* Proofs about Algorithms. *)
EXTENDS Algorithms, FiniteSetTheorems, WellFoundedInduction, TLAPS

-----------------------------------------------------------------------------
(* Scores *)

LEMMA RoundInt == ASSUME NEW n \in Int, NEW d \in {1, 10, 100, 10000} PROVE Round(n, d) \in Int
  BY DEF Round

\* A score that is clamped is one.
LEMMA ClampScore == ASSUME NEW n \in Int, NEW d \in {1, 10, 100, 10000} PROVE Clamp(n, d) \in Score
<1>1. Round(n, d) \in Int
  BY RoundInt
<1> QED BY <1>1 DEF Clamp, Greatest, Least, Score

Scored == [scores : [Items -> Score], matching : Score, ai : Score]

LEMMA ItemsScored == ASSUME NEW a \in [Items -> Int] PROVE ItemScores(a) \in [Items -> Score]
<1>1. \A i \in Items : Clamp(a[i], 1) \in Score
  BY ClampScore
<1> QED BY <1>1 DEF ItemScores, Score

LEMMA WeightedInt == ASSUME NEW s \in [Items -> Score] PROVE Weighted(s) \in Int
<1>1. \A i \in Items : s[i] \in Int
  BY DEF Score
<1>2. /\ s["brand"] \in Int /\ s["model"] \in Int /\ s["productName"] \in Int /\ s["price"] \in Int
      /\ s["option"] \in Int /\ s["color"] \in Int /\ s["image"] \in Int
      /\ s["description"] \in Int /\ s["ocr"] \in Int
  BY <1>1 DEF Items
<1> QED BY <1>2 DEF Weighted

LEMMA BlendScore == ASSUME NEW m \in Int, NEW s \in [Items -> Score] PROVE Blend(m, s) \in Score
<1>1. 5500 * m + 45 * Weighted(s) \in Int
  BY WeightedInt
<1> QED BY <1>1, ClampScore DEF Blend

LEMMA TextScored ==
  ASSUME ThresholdAssumption, NEW a \in Answers
  PROVE  TextScores(a) \in Scored
<1> DEFINE s == ItemScores(a.items)
           m == IF a.matching = Missing THEN Clamp(Weighted(s), 100) ELSE Clamp(a.matching, 1)
           ai == IF a.ai = Missing THEN Blend(m, s) ELSE Clamp(a.ai, 1)
<1>1. a.items \in [Items -> Int] /\ a.matching \in Int /\ a.ai \in Int
  BY DEF ThresholdAssumption
<1>2. s \in [Items -> Score]
  BY <1>1, ItemsScored
<1>3. m \in Score
  BY <1>1, <1>2, WeightedInt, ClampScore
<1>4. ai \in Score
  <2>1. m \in Int
    BY <1>3 DEF Score
  <2> QED BY <1>1, <1>2, <2>1, BlendScore, ClampScore
<1>5. TextScores(a) = [scores |-> s, matching |-> m, ai |-> ai]
  BY DEF TextScores
<1> HIDE DEF s, m, ai
<1> QED BY <1>2, <1>3, <1>4, <1>5 DEF Scored

\* What unlike pictures leave of a score that was one.
LEMMA VisionScored ==
  ASSUME NEW t \in Scored, NEW n \in Score
  PROVE  /\ ApplyVision(t, n) \in Scored
         /\ n < 40 => ApplyVision(t, n).ai < 50
         /\ n < 60 => ApplyVision(t, n).ai < 80
<1> DEFINE s == [t.scores EXCEPT !["image"] = n]
           capped == Least(t.matching, Greatest(n + 15, 25))
           near == Least(t.matching, n + 25)
           agreed == Blend(t.matching, s)
           low == [scores |-> s, matching |-> capped, ai |-> Least(Least(t.ai, capped), Greatest(n + 10, 20))]
           mid == [scores |-> s, matching |-> near, ai |-> Least(Least(t.ai, n + 20), near)]
           high == [scores |-> s, matching |-> agreed, ai |-> Blend(agreed, s)]
<1>1. t.scores \in [Items -> Score] /\ t.matching \in Score /\ t.ai \in Score
  BY DEF Scored
<1>2. s \in [Items -> Score]
  BY <1>1
<1>3. agreed \in Score /\ Blend(agreed, s) \in Score
  <2>1. t.matching \in Int
    BY <1>1 DEF Score
  <2>2. agreed \in Score
    BY <1>2, <2>1, BlendScore
  <2>3. agreed \in Int
    BY <2>2 DEF Score
  <2> QED BY <2>2, <2>3, <1>2, BlendScore
<1>4. /\ capped \in Score /\ near \in Score
      /\ Least(Least(t.ai, capped), Greatest(n + 10, 20)) \in Score
      /\ Least(Least(t.ai, n + 20), near) \in Score
      /\ n < 40 => Least(Least(t.ai, capped), Greatest(n + 10, 20)) < 50
      /\ n < 60 => Least(Least(t.ai, n + 20), near) < 80
      /\ n < 40 \/ (n >= 40 /\ n < 60) \/ n >= 60
  BY <1>1 DEF Least, Greatest, Score
<1>5. /\ n < 40 => ApplyVision(t, n) = low
      /\ n >= 40 /\ n < 60 => ApplyVision(t, n) = mid
      /\ n >= 60 => ApplyVision(t, n) = high
  <2>1. n \in Int
    BY DEF Score
  <2> QED BY <2>1 DEF ApplyVision
<1> HIDE DEF s, capped, near, agreed
<1>6. CASE n < 40
  BY <1>2, <1>4, <1>5, <1>6 DEF Scored, Score
<1>7. CASE n >= 40 /\ n < 60
  BY <1>2, <1>4, <1>5, <1>7 DEF Scored, Score
<1>8. CASE n >= 60
  BY <1>2, <1>3, <1>5, <1>8 DEF Scored, Score
<1> QED BY <1>4, <1>6, <1>7, <1>8

-----------------------------------------------------------------------------
(* The local gate *)

\* A set of natural numbers has a least one.
LEMMA LeastNumber == ASSUME NEW T, T \subseteq Nat, T # {} PROVE \E x \in T : \A y \in T : x <= y
<1>1. \E R : /\ \E x \in T : \A y \in T : ~ (<<y, x>> \in R)
             /\ \A x, y \in Nat : <<y, x>> \in R <=> y < x
  <2>1. \E x \in T : \A y \in T : ~ (<<y, x>> \in OpToRel(<, Nat))
    BY WFMin, NatLessThanWellFounded, Zenon
  <2>2. \A x, y \in Nat : <<y, x>> \in OpToRel(<, Nat) <=> y < x
    BY DEF OpToRel
  <2> QED BY <2>1, <2>2, Zenon
<1>2. PICK R : /\ \E x \in T : \A y \in T : ~ (<<y, x>> \in R)
               /\ \A x, y \in Nat : <<y, x>> \in R <=> y < x
  BY <1>1, Zenon
<1>3. PICK x \in T : \A y \in T : ~ (<<y, x>> \in R)
  BY <1>2, Zenon
<1>4. ASSUME NEW y \in T PROVE x <= y
  <2>1. x \in Nat /\ y \in Nat
    OBVIOUS
  <2>2. ~(y < x)
    BY <1>2, <1>3, <2>1, Zenon
  <2> QED BY <2>1, <2>2
<1> QED BY <1>4

\* A set of numbers that stay below one has a greatest.
LEMMA GreatestNumber ==
  ASSUME NEW n \in Nat, NEW T, T \subseteq 0..n, T # {} PROVE \E x \in T : \A y \in T : y <= x
<1> DEFINE U == {n - i : i \in T}
<1>1. U \subseteq Nat /\ U # {}
  <2>1. PICK i \in T : TRUE
    OBVIOUS
  <2>2. n - i \in U
    OBVIOUS
  <2>3. ASSUME NEW j \in T PROVE n - j \in Nat
    OBVIOUS
  <2> QED BY <2>2, <2>3
<1>2. PICK u \in U : \A v \in U : u <= v
  BY <1>1, LeastNumber
<1>3. PICK x \in T : u = n - x
  BY <1>2
<1>4. ASSUME NEW y \in T PROVE y <= x
  <2>1. n - y \in U
    OBVIOUS
  <2>2. n - x <= n - y /\ x \in Int /\ y \in Int
    BY <1>2, <1>3, <2>1
  <2> QED BY <2>2
<1> QED BY <1>4

\* The results of the engines have a greatest.
LEMMA GreatestResult ==
  ASSUME NEW S, S \subseteq Tenths, S # {}
  PROVE  (CHOOSE r \in S : \A o \in S : r >= o) \in S
<1> DEFINE T == {1000 - r : r \in S}
<1>1. T \subseteq Nat /\ T # {}
  <2>1. \A r \in S : r \in Int /\ 0 <= r /\ r <= 1000
    BY DEF Tenths
  <2>2. PICK r \in S : TRUE
    OBVIOUS
  <2>3. 1000 - r \in T
    OBVIOUS
  <2> QED BY <2>1, <2>3
<1>2. \E m \in T : \A n \in T : m <= n
  <2> HIDE DEF T
  <2> QED BY <1>1, LeastNumber
<1>3. PICK r \in S : \A n \in T : 1000 - r <= n
  BY <1>2
<1>4. ASSUME NEW o \in S PROVE r >= o
  <2>1. 1000 - r <= 1000 - o
    BY <1>3
  <2>2. r \in Int /\ o \in Int
    BY DEF Tenths
  <2> QED BY <2>1, <2>2
<1> QED BY <1>4

LEMMA RoundTenths == ASSUME NEW e \in Tenths PROVE Round(e, 10) \in Score
  BY DEF Round, Tenths, Score

Engine == Tenths \cup {Skipped}
EngineNames == {"color", "pHash", "ssim", "looksSame", "openCv"}

LEMMA EarlyScored ==
  ASSUME ThresholdAssumption, NEW c \in Engine, NEW p \in Engine
  PROVE  EarlyGate(c, p).local \in Score
<1>1. /\ Below(c, ColorReject) => Round(c, 10) \in Score
      /\ Below(p, PHashReject) =>
            Round(IF c = Skipped THEN p ELSE Least(p, c), 10) \in Score
      /\ AtLeast(p, PHashPass) => Round(p, 10) \in Score
  <2>1. /\ c # Skipped => c \in Tenths
        /\ p # Skipped => p \in Tenths
        /\ c \in Tenths /\ p \in Tenths => Least(p, c) \in Tenths
    BY DEF Engine, Least
  <2> QED BY <2>1, RoundTenths DEF Below, AtLeast
<1>2. 0 \in Score
  BY DEF Score
<1>3. CASE Below(c, ColorReject)
  BY <1>1, <1>3 DEF EarlyGate
<1>4. CASE ~Below(c, ColorReject) /\ Below(p, PHashReject)
  BY <1>1, <1>4 DEF EarlyGate
<1>5. CASE ~Below(c, ColorReject) /\ ~Below(p, PHashReject) /\ AtLeast(p, PHashPass)
  BY <1>1, <1>5 DEF EarlyGate
<1>6. CASE ~Below(c, ColorReject) /\ ~Below(p, PHashReject) /\ ~AtLeast(p, PHashPass)
  BY <1>2, <1>6 DEF EarlyGate
<1> QED BY <1>3, <1>4, <1>5, <1>6

LEMMA FinalScored ==
  ASSUME NEW e \in [EngineNames -> Engine]
  PROVE  FinalGate(e).local \in Score
<1> DEFINE results == {e[n] : n \in {"color", "pHash", "ssim", "looksSame", "openCv"}} \ {Skipped}
           best == IF results = {} THEN 0
                   ELSE Round(CHOOSE r \in results : \A o \in results : r >= o, 10)
           failed == \A n \in {"ssim", "looksSame", "openCv"} : e[n] = Skipped
           alike == \/ AtLeast(e["looksSame"], LooksSameVision)
                    \/ AtLeast(e["openCv"], OpenCvVision)
                    \/ AtLeast(e["ssim"], SsimVision)
<1>1. results \subseteq Tenths
  BY DEF Engine, EngineNames
<1> HIDE DEF results
<1>2. best \in Score
  <2>1. CASE results = {}
    BY <2>1 DEF Score
  <2>2. CASE results # {}
    BY <2>2, <1>1, GreatestResult, RoundTenths
  <2> QED BY <2>1, <2>2
<1>3. AtLeast(e["ssim"], SsimPass) => Round(e["ssim"], 10) \in Score
  <2>1. e["ssim"] \in Engine
    BY DEF EngineNames
  <2> QED BY <2>1, RoundTenths DEF AtLeast, Engine
<1>4. FinalGate(e) =
        CASE AtLeast(e["ssim"], SsimPass) ->
               [action |-> "same", local |-> Round(e["ssim"], 10)]
          [] ~AtLeast(e["ssim"], SsimPass) /\ (failed \/ alike) ->
               [action |-> "vision", local |-> best]
          [] OTHER -> [action |-> "block", local |-> best]
  BY DEF FinalGate, results
<1> HIDE DEF best, failed, alike
<1>5. CASE AtLeast(e["ssim"], SsimPass)
  BY <1>3, <1>4, <1>5
<1>6. CASE ~AtLeast(e["ssim"], SsimPass)
  BY <1>2, <1>4, <1>6
<1> QED BY <1>5, <1>6

\* What the local gate hands on is a score.
LEMMA GateScored ==
  ASSUME ThresholdAssumption, NEW e \in EngineResults
  PROVE  LocalGate(e).local \in Score
<1>1. e \in [EngineNames -> Engine]
  BY DEF ThresholdAssumption, EngineNames, Engine
<1>2. e["color"] \in Engine /\ e["pHash"] \in Engine
  BY <1>1 DEF EngineNames
<1> QED BY <1>1, <1>2, EarlyScored, FinalScored DEF LocalGate

-----------------------------------------------------------------------------
(* A listing's scores *)

ScoreInv == TypeOK /\ UnlikeKeptOut /\ (stage \in {"asked", "scored", "gated"} => seen = Missing)

LEMMA ScoreInit == ASSUME Init PROVE ScoreInv
<1>1. None \in Scored
  BY DEF None, Scored, Score
<1> QED BY <1>1 DEF Init, ScoreInv, TypeOK, UnlikeKeptOut, Scored

LEMMA AppliedScored ==
  ASSUME scores \in Scored, NEW n \in Score, scores' = Applied(scores, n), seen' = n, stage' = "done"
  PROVE  ScoreInv'
<1>1. scores' \in Scored /\ (n < 40 => scores'.ai < 50) /\ (n < 60 => scores'.ai < 80)
  BY VisionScored DEF Applied
<1> QED BY <1>1 DEF ScoreInv, TypeOK, UnlikeKeptOut, Scored

LEMMA ScoreNext == ASSUME ThresholdAssumption, ScoreInv, [Next]_vars PROVE ScoreInv'
<1> USE DEF ScoreInv
<1>1. TypeOK /\ UnlikeKeptOut /\ scores \in Scored
  BY DEF TypeOK, Scored
<1>2. ASSUME NEW a \in Answers, Answered(a) PROVE ScoreInv'
  <2>1. scores' \in Scored /\ stage' = "scored" /\ seen' = seen
    BY <1>2, TextScored DEF Answered
  <2>2. seen = Missing
    BY <1>2 DEF Answered
  <2> QED BY <2>1, <2>2 DEF TypeOK, UnlikeKeptOut, Scored
<1>3. CASE KeepText \/ NoGate \/ NoLook
  BY <1>3, <1>1 DEF KeepText, NoGate, NoLook, TypeOK, UnlikeKeptOut
<1>4. ASSUME NEW e \in EngineResults, Gate(e) PROVE ScoreInv'
  <2>1. CASE LocalGate(e).action = "vision"
    BY <2>1, <1>1, <1>4 DEF Gate, TypeOK, UnlikeKeptOut
  <2>2. CASE LocalGate(e).action # "vision"
    BY <2>2, <1>1, <1>4, GateScored, AppliedScored DEF Gate
  <2> QED BY <2>1, <2>2
<1>5. ASSUME NEW n \in Similarities, Look(n) PROVE ScoreInv'
  <2>1. n \in Score
    BY DEF ThresholdAssumption
  <2> QED BY <2>1, <1>1, <1>5, AppliedScored DEF Look
<1>6. CASE UNCHANGED vars
  BY <1>1, <1>6 DEF vars, TypeOK, UnlikeKeptOut
<1> QED BY <1>2, <1>3, <1>4, <1>5, <1>6 DEF Next

-----------------------------------------------------------------------------
(* A job's verdict *)

\* The cardinality of the instances is the one of this module.
LEMMA SameCardinality ==
  ASSUME NEW S
  PROVE  Verdict!Cardinality(S) = Cardinality(S)
  BY DEF Verdict!Cardinality, Cardinality

LEMMA SomeOf ==
  ASSUME NEW D, IsFiniteSet(D), NEW H, H \subseteq D
  PROVE  /\ Cardinality(D) \in Nat /\ Cardinality(H) \in Nat
         /\ Cardinality(H) = Cardinality(D) <=> H = D
         /\ Cardinality(H) = 0 <=> H = {}
  BY FS_Subset, FS_CardinalityType, FS_EmptySet

\* The verdict on any list of statuses.
LEMMA ResolvedMeans ==
  ASSUME NEW f, IsFiniteSet(DOMAIN f)
  PROVE  Verdict!ResolveJobStatus(f) =
           IF \A k \in DOMAIN f : f[k] \notin Verdict!SuccessStatus THEN "failed"
           ELSE IF \A k \in DOMAIN f : f[k] \in Verdict!SuccessStatus THEN "completed" ELSE "partial"
<1> DEFINE D == DOMAIN f
           G == Verdict!Having(f, Verdict!SuccessStatus)
           B == Verdict!Having(f, Verdict!FailureStatus)
<1>1. /\ G \subseteq D /\ B \subseteq D
      /\ G = {} <=> \A k \in DOMAIN f : f[k] \notin Verdict!SuccessStatus
      /\ G = D <=> \A k \in DOMAIN f : f[k] \in Verdict!SuccessStatus
      /\ G # {} => B # D
  BY DEF Verdict!Having, Verdict!SuccessStatus, Verdict!FailureStatus
<1>2. Verdict!ResolveJobStatus(f) =
        IF Cardinality(D) = 0 THEN "failed"
        ELSE IF Cardinality(G) = Cardinality(D) THEN "completed"
        ELSE IF Cardinality(B) = Cardinality(D) THEN "failed"
        ELSE IF Cardinality(G) > 0 THEN "partial"
        ELSE "failed"
  BY SameCardinality DEF Verdict!ResolveJobStatus
<1> HIDE DEF D, G, B
<1>3. IsFiniteSet(D)
  BY DEF D
<1>4. /\ Cardinality(D) \in Nat /\ Cardinality(G) \in Nat /\ Cardinality(B) \in Nat
      /\ Cardinality(G) = Cardinality(D) <=> G = D
      /\ Cardinality(B) = Cardinality(D) <=> B = D
      /\ Cardinality(G) = 0 <=> G = {}
      /\ Cardinality(D) = 0 <=> D = {}
  BY <1>1, <1>3, SomeOf
<1> QED BY <1>1, <1>2, <1>4

VerdictInv == IsFiniteSet(DOMAIN st)

LEMMA VerdictInit == ASSUME Verdict!Init PROVE VerdictInv
<1>1. DOMAIN st = {}
  BY DEF Verdict!Init
<1> QED BY <1>1, FS_EmptySet DEF VerdictInv

LEMMA VerdictNext == ASSUME VerdictInv, [Verdict!Next]_verdictVars PROVE VerdictInv'
<1>1. ASSUME NEW k \in Keywords, Verdict!Record(k) PROVE VerdictInv'
  <2>1. DOMAIN st' = DOMAIN st \cup {k}
    BY <1>1 DEF Verdict!Record
  <2> QED BY <2>1, FS_AddElement DEF VerdictInv
<1>2. ASSUME NEW k \in Keywords, Verdict!Advance(k) \/ Verdict!Revive(k) PROVE VerdictInv'
  <2>1. DOMAIN st' = DOMAIN st
    BY <1>2 DEF Verdict!Advance, Verdict!Revive
  <2> QED BY <2>1 DEF VerdictInv
<1>3. CASE UNCHANGED verdictVars
  BY <1>3 DEF verdictVars, VerdictInv
<1> QED BY <1>1, <1>2, <1>3 DEF Verdict!Next

LEMMA VerdictMeans == ASSUME VerdictInv PROVE VerdictMeaning
  BY ResolvedMeans DEF VerdictInv, VerdictMeaning, Verdict!VerdictMeaning

-----------------------------------------------------------------------------
(* A download *)

\* The requests that were made: one for each redirect followed, and the one under way.
RequestsMade ==
  /\ IsFiniteSet(asked)
  /\ Cardinality(asked) <= hops + (IF pc \in {"check", "fetch"} THEN 0 ELSE 1)

ImageInv ==
  /\ pc \in {"check", "fetch", "read", "decode", "stored", "failed"}
  /\ hops \in 0..MaxRedirects /\ size \in 0..MaxBytes
  /\ \A a \in asked : Image!Safe(a[2])
  /\ pc = "fetch" => Image!Safe(url)
  /\ RequestsMade

LEMMA ImageInit == ASSUME Image!ImageAssumption, Image!Init PROVE ImageInv
<1>1. RequestsMade
  BY FS_EmptySet DEF Image!Init, RequestsMade
<1> QED BY <1>1 DEF Image!Init, Image!ImageAssumption, ImageInv

LEMMA Asked ==
  ASSUME RequestsMade, pc = "fetch", hops \in Nat, asked' = asked \cup {<<hops, url>>},
         hops' + (IF pc' \in {"check", "fetch"} THEN 0 ELSE 1) = hops + 1
  PROVE  RequestsMade'
<1>1. /\ IsFiniteSet(asked') /\ Cardinality(asked) \in Nat
      /\ Cardinality(asked') = Cardinality(asked) \/ Cardinality(asked') = Cardinality(asked) + 1
  BY FS_AddElement, FS_CardinalityType DEF RequestsMade
<1> QED BY <1>1 DEF RequestsMade

LEMMA ImageNext ==
  ASSUME Image!ImageAssumption, ImageInv, [Image!Next]_imageVars
  PROVE  ImageInv'
<1> USE DEF ImageInv, Image!ImageAssumption
<1>1. CASE Image!Check
  <2>1. RequestsMade'
    BY <1>1, FS_CardinalityType DEF Image!Check, Image!Fail, RequestsMade
  <2> QED BY <1>1, <2>1 DEF Image!Check, Image!Fail, Image!Accepted
<1>2. ASSUME NEW next \in Reached, Image!Redirected(next) PROVE ImageInv'
  <2>1. RequestsMade'
    BY <1>2, Asked DEF Image!Redirected, Image!Fail, Image!Following
  <2>2. \A a \in asked' : Image!Safe(a[2])
    BY <1>2 DEF Image!Redirected
  <2> QED BY <1>2, <2>1, <2>2 DEF Image!Redirected, Image!Fail, Image!Following, Image!MoreHops
<1>3. ASSUME NEW allowed \in BOOLEAN, NEW n \in Sizes \cup {0}, Image!Answered(allowed, n) PROVE ImageInv'
  <2>1. RequestsMade'
    BY <1>3, Asked DEF Image!Answered, Image!Fail
  <2>2. \A a \in asked' : Image!Safe(a[2])
    BY <1>3 DEF Image!Answered
  <2> QED BY <1>3, <2>1, <2>2 DEF Image!Answered, Image!Fail
<1>4. ASSUME NEW n \in Sizes \ {0}, Image!Chunk(n) PROVE ImageInv'
  BY <1>4 DEF Image!Chunk, Image!Fail, Image!Fits, RequestsMade
<1>5. CASE Image!EndOfBody \/ Image!Store \/ Image!GiveUp
  <2>1. RequestsMade'
    BY <1>5, FS_CardinalityType DEF Image!EndOfBody, Image!Store, Image!GiveUp, Image!Fail, RequestsMade
  <2> QED BY <1>5, <2>1 DEF Image!EndOfBody, Image!Store, Image!GiveUp, Image!Fail
<1>6. CASE UNCHANGED imageVars
  BY <1>6 DEF imageVars, RequestsMade
<1> QED BY <1>1, <1>2, <1>3, <1>4, <1>5, <1>6 DEF Image!Next

LEMMA ImageMeans == ASSUME Image!ImageAssumption, ImageInv PROVE Bounded
<1>1. Image!Cardinality(asked) = Cardinality(asked)
  BY DEF Image!Cardinality, Cardinality
<1>2. Cardinality(asked) \in Nat
  BY FS_CardinalityType DEF ImageInv, RequestsMade
<1> QED BY <1>1, <1>2 DEF Bounded, Image!Bounded, ImageInv, RequestsMade, Image!ImageAssumption

-----------------------------------------------------------------------------
(* What listings are compared with *)

OrderInv == Order!ComparedAsSearched /\ (compared # Order!None => job # Order!NoJob)

LEMMA OrderInit == ASSUME Order!Init PROVE OrderInv
  BY DEF Order!Init, OrderInv, Order!ComparedAsSearched

LEMMA RowKept ==
  ASSUME NEW o
  PROVE  Order!Row(o).productName = o.productName
         /\ {Order!Row(o).contractNo, Order!Row(o).customerName} = {Order!Null}
  BY DEF Order!Row, Order!Kept, Order!Texts

LEMMA OrderNext == ASSUME OrderInv, [Order!Next]_ordersVars PROVE OrderInv'
<1> USE DEF OrderInv, Order!ComparedAsSearched
<1>1. ASSUME NEW r \in RawOrders, Order!CreateFromBody(r) PROVE OrderInv'
  <2>1. compared' = compared /\ compared = Order!None
    BY <1>1 DEF Order!CreateFromBody
  <2> QED BY <1>1, <2>1, RowKept DEF Order!CreateFromBody
<1>2. CASE Order!CreateFromOrder
  <2>1. compared' = compared /\ compared = Order!None
    BY <1>2 DEF Order!CreateFromOrder
  <2> QED BY <1>2, <2>1, RowKept DEF Order!CreateFromOrder
<1>3. CASE Order!OrderChanges \/ Order!Show
  BY <1>3 DEF Order!OrderChanges, Order!Show
<1>4. CASE Order!Compare
  <2>1. job' = job /\ job # Order!NoJob
    BY <1>4 DEF Order!Compare
  <2>2. ASSUME NEW f \in Order!Kept, job[f] # Order!Null PROVE compared'[f] = job[f]
    <3>1. f \in Order!Kept \cup {"price"} /\ f # "price"
      BY DEF Order!Kept, Order!Texts
    <3> QED BY <1>4, <2>2, <3>1 DEF Order!Compare, Order!Enriched
  <2> QED BY <2>1, <2>2
<1>5. CASE UNCHANGED ordersVars
  BY <1>5 DEF ordersVars
<1> QED BY <1>1, <1>2, <1>3, <1>4, <1>5 DEF Order!Next

-----------------------------------------------------------------------------
(* Sums over finite sets *)

\* What holds of 0, and of a number after any of which it holds, holds of all.
LEMMA Induction ==
  ASSUME NEW T, T \subseteq Nat, 0 \in T, \A n \in T : n + 1 \in T
  PROVE  T = Nat
<1>1. SUFFICES ASSUME Nat \ T # {} PROVE FALSE
  OBVIOUS
<1>2. PICK x \in Nat \ T : \A y \in Nat \ T : x <= y
  BY <1>1, LeastNumber
<1>3. x - 1 \in T
  BY <1>2
<1> QED BY <1>2, <1>3

\* One element less.
LEMMA Without ==
  ASSUME NEW S, IsFiniteSet(S), NEW x \in S
  PROVE  /\ IsFiniteSet(S \ {x}) /\ Cardinality(S) \in Nat /\ Cardinality(S \ {x}) \in Nat
         /\ Cardinality(S) = Cardinality(S \ {x}) + 1
<1>1. IsFiniteSet(S \ {x}) /\ Cardinality(S) \in Nat /\ Cardinality(S \ {x}) = Cardinality(S) - 1
  BY FS_RemoveElement, FS_CardinalityType
<1>2. Cardinality(S \ {x}) \in Nat
  BY <1>1, FS_CardinalityType
<1> QED BY <1>1, <1>2

\* What holds of the empty set, and of a set when it holds of all that have one element less, holds
\* of all subsets of a finite set.
LEMMA SetInduction ==
  ASSUME NEW W, IsFiniteSet(W), NEW T, T \subseteq SUBSET W, {} \in T,
         \A s \in SUBSET W : s # {} /\ (\A x \in s : s \ {x} \in T) => s \in T
  PROVE  T = SUBSET W
<1> DEFINE M == {n \in Nat : \A s \in SUBSET W : Cardinality(s) = n => s \in T}
<1>0. \A s \in SUBSET W : IsFiniteSet(s) /\ Cardinality(s) \in Nat
  BY FS_Subset, FS_CardinalityType
<1>1. 0 \in M
  BY <1>0, FS_EmptySet
<1>2. ASSUME NEW n \in M PROVE n + 1 \in M
  <2>1. ASSUME NEW s \in SUBSET W, Cardinality(s) = n + 1 PROVE s \in T
    <3>1. s # {}
      BY <2>1, FS_EmptySet
    <3>2. ASSUME NEW x \in s PROVE s \ {x} \in T
      <4>1. Cardinality(s \ {x}) = n
        BY <1>0, <2>1, Without
      <4>2. s \ {x} \in SUBSET W
        OBVIOUS
      <4> QED BY <4>1, <4>2
    <3> QED BY <3>1, <3>2
  <2> QED BY <2>1
<1> HIDE DEF M
<1>3. M = Nat
  <2>1. M \subseteq Nat
    BY DEF M
  <2> QED BY <1>1, <1>2, <2>1, Induction
<1>4. ASSUME NEW s \in SUBSET W PROVE s \in T
  <2>1. Cardinality(s) \in M
    BY <1>0, <1>3
  <2> QED BY <2>1 DEF M
<1> QED BY <1>4

\* The sums of what v gives for the elements of the subsets of W, as a fold computes them.
SumsOf(g, W, v) ==
  g = [s \in SUBSET W |-> IF s = {} THEN 0
                          ELSE v[CHOOSE r \in s : TRUE] + g[s \ {CHOOSE r \in s : TRUE}]]

LEMMA SumsExist == ASSUME NEW W, IsFiniteSet(W), NEW v PROVE \E g : SumsOf(g, W, v)
<1> DEFINE One(s) == CHOOSE r \in s : TRUE
           Upto(n) == {s \in SUBSET W : Cardinality(s) <= n}
           Sums(g, n) == g = [s \in Upto(n) |-> IF s = {} THEN 0 ELSE v[One(s)] + g[s \ {One(s)}]]
           T == {n \in Nat : \E g : Sums(g, n)}
<1>0. \A s \in SUBSET W : IsFiniteSet(s) /\ Cardinality(s) \in Nat
  BY FS_Subset, FS_CardinalityType
<1>1. 0 \in T
  <2>1. \A s \in Upto(0) : s = {}
    BY <1>0, FS_EmptySet
  <2>2. Sums([s \in Upto(0) |-> 0], 0)
    BY <2>1
  <2> QED BY <2>2
<1>2. ASSUME NEW n \in T PROVE n + 1 \in T
  <2>1. PICK g : Sums(g, n)
    OBVIOUS
  <2> DEFINE h == [s \in Upto(n + 1) |-> IF s \in Upto(n) THEN g[s] ELSE v[One(s)] + g[s \ {One(s)}]]
  <2>2. \A s \in Upto(n) : g[s] = IF s = {} THEN 0 ELSE v[One(s)] + g[s \ {One(s)}]
    BY <2>1
  <2>3. {} \in Upto(n) /\ n \in Nat
    BY FS_EmptySet
  <2>4. ASSUME NEW s \in Upto(n + 1) PROVE h[s] = IF s = {} THEN 0 ELSE v[One(s)] + h[s \ {One(s)}]
    <3>1. CASE s = {}
      BY <2>2, <2>3, <3>1
    <3>2. CASE s # {}
      <4>1. One(s) \in s
        BY <3>2
      <4>2. s \ {One(s)} \in Upto(n) /\ s \ {One(s)} \in Upto(n + 1)
        <5>1. Cardinality(s) \in Nat /\ Cardinality(s \ {One(s)}) \in Nat
              /\ Cardinality(s) = Cardinality(s \ {One(s)}) + 1
          BY <1>0, <4>1, Without
        <5>2. Cardinality(s) <= n + 1
          OBVIOUS
        <5>3. s \ {One(s)} \in SUBSET W
          OBVIOUS
        <5> HIDE DEF One
        <5> QED BY <2>3, <5>1, <5>2, <5>3
      <4>3. h[s \ {One(s)}] = g[s \ {One(s)}]
        BY <4>2
      <4>4. h[s] = IF s \in Upto(n) THEN g[s] ELSE v[One(s)] + g[s \ {One(s)}]
        OBVIOUS
      <4> HIDE DEF One, h, Upto, Sums
      <4> QED BY <2>2, <3>2, <4>3, <4>4
    <3> QED BY <3>1, <3>2
  <2>5. h = [s \in Upto(n + 1) |-> h[s]]
    OBVIOUS
  <2> HIDE DEF h
  <2>6. Sums(h, n + 1)
    BY <2>4, <2>5
  <2> HIDE DEF Sums
  <2> QED BY <2>3, <2>6
<1> HIDE DEF T
<1>3. T = Nat
  <2>1. T \subseteq Nat
    BY DEF T
  <2> QED BY <1>1, <1>2, <2>1, Induction
<1>4. Cardinality(W) \in T
  BY <1>0, <1>3
<1>5. PICK g : Sums(g, Cardinality(W))
  BY <1>4 DEF T
<1>6. Upto(Cardinality(W)) = SUBSET W
  BY FS_Subset
<1> QED BY <1>5, <1>6 DEF SumsOf

\* Sums of natural numbers are natural numbers.
LEMMA SumsNat ==
  ASSUME NEW W, IsFiniteSet(W), NEW v \in [W -> Nat], NEW g, SumsOf(g, W, v)
  PROVE  g[W] \in Nat
<1> DEFINE One(s) == CHOOSE r \in s : TRUE
           T == {s \in SUBSET W : g[s] \in Nat}
<1>1. \A s \in SUBSET W : g[s] = IF s = {} THEN 0 ELSE v[One(s)] + g[s \ {One(s)}]
  BY Zenon DEF SumsOf
<1>2. {} \in T
  BY <1>1
<1>3. ASSUME NEW s \in SUBSET W, s # {}, \A x \in s : s \ {x} \in T PROVE s \in T
  <2>1. One(s) \in s
    BY <1>3
  <2>2. g[s \ {One(s)}] \in Nat /\ v[One(s)] \in Nat
    BY <1>3, <2>1
  <2> HIDE DEF One
  <2>3. g[s] = v[One(s)] + g[s \ {One(s)}]
    BY <1>1, <1>3
  <2>4. g[s] \in Nat
    BY <2>2, <2>3
  <2> QED BY <2>4
<1> HIDE DEF T
<1>4. T = SUBSET W
  <2>1. T \subseteq SUBSET W
    BY DEF T
  <2> QED BY <1>2, <1>3, <2>1, SetInduction
<1> QED BY <1>4 DEF T

\* The sums of the costs of rows.
Costs(g, W) ==
  g = [s \in SUBSET W |-> IF s = {} THEN 0
                          ELSE (CHOOSE r \in s : TRUE).cost + g[s \ {CHOOSE r \in s : TRUE}]]

LEMMA CostsExist == ASSUME NEW W, IsFiniteSet(W) PROVE \E g : Costs(g, W)
<1> DEFINE One(s) == CHOOSE r \in s : TRUE
           v == [r \in W |-> r.cost]
<1>1. PICK g : SumsOf(g, W, v)
  BY SumsExist
<1>2. \A s \in SUBSET W : g[s] = IF s = {} THEN 0 ELSE v[One(s)] + g[s \ {One(s)}]
  BY <1>1, Zenon DEF SumsOf
<1>3. g = [s \in SUBSET W |-> g[s]]
  BY <1>1 DEF SumsOf
<1>4. ASSUME NEW s \in SUBSET W PROVE g[s] = IF s = {} THEN 0 ELSE One(s).cost + g[s \ {One(s)}]
  <2>1. s # {} => v[One(s)] = One(s).cost
    OBVIOUS
  <2> HIDE DEF One, v
  <2> QED BY <1>2, <2>1
<1>5. g = [s \in SUBSET W |-> IF s = {} THEN 0 ELSE One(s).cost + g[s \ {One(s)}]]
  <2> HIDE DEF One, v
  <2> QED BY <1>3, <1>4
<1>6. Costs(g, W)
  BY <1>5, Zenon DEF Costs
<1> QED BY <1>6

LEMMA CostsAgree ==
  ASSUME NEW W, IsFiniteSet(W), NEW U, U \subseteq W, NEW g, NEW h, Costs(g, U), Costs(h, W)
  PROVE  \A s \in SUBSET U : g[s] = h[s]
<1> DEFINE One(s) == CHOOSE r \in s : TRUE
           T == {s \in SUBSET U : g[s] = h[s]}
<1>1. \A s \in SUBSET U : g[s] = IF s = {} THEN 0 ELSE One(s).cost + g[s \ {One(s)}]
  BY Zenon DEF Costs
<1>2. \A s \in SUBSET W : h[s] = IF s = {} THEN 0 ELSE One(s).cost + h[s \ {One(s)}]
  BY Zenon DEF Costs
<1>3. {} \in T
  BY <1>1, <1>2
<1>4. ASSUME NEW s \in SUBSET U, s # {}, \A x \in s : s \ {x} \in T PROVE s \in T
  <2>1. One(s) \in s
    BY <1>4
  <2>2. g[s \ {One(s)}] = h[s \ {One(s)}]
    BY <1>4, <2>1
  <2> HIDE DEF One
  <2> QED BY <1>1, <1>2, <1>4, <2>2
<1>5. IsFiniteSet(U)
  BY FS_Subset
<1> HIDE DEF T
<1>6. T = SUBSET U
  <2>1. T \subseteq SUBSET U
    BY DEF T
  <2> QED BY <1>3, <1>4, <1>5, <2>1, SetInduction
<1> QED BY <1>6 DEF T

LEMMA Exchange ==
  ASSUME NEW a \in Nat, NEW b \in Nat, NEW c \in Nat, NEW u, NEW v, NEW w,
         u = b + v, v = a + c, w = b + c
  PROVE  u = a + w
  OBVIOUS

\* Rows whose costs are natural numbers cost the more, the more they are.
LEMMA CostsGrow ==
  ASSUME NEW W, IsFiniteSet(W), \A r \in W : r.cost \in Nat, NEW g, Costs(g, W)
  PROVE  \A t \in SUBSET W : \A s \in SUBSET t : g[s] \in Nat /\ g[t] \in Nat /\ g[s] <= g[t]
<1> DEFINE One(s) == CHOOSE r \in s : TRUE
           N == {s \in SUBSET W : g[s] \in Nat}
           A == {s \in SUBSET W : \A x \in s : g[s] = x.cost + g[s \ {x}]}
           G == {t \in SUBSET W : \A s \in SUBSET t : g[s] <= g[t]}
<1>1. \A s \in SUBSET W : g[s] = IF s = {} THEN 0 ELSE One(s).cost + g[s \ {One(s)}]
  BY Zenon DEF Costs
<1>2. \A s \in SUBSET W : s # {} => One(s) \in s
  OBVIOUS
<1> HIDE DEF One
<1>3. N = SUBSET W
  <2>1. {} \in N
    BY <1>1
  <2>2. ASSUME NEW s \in SUBSET W, s # {}, \A x \in s : s \ {x} \in N PROVE s \in N
    <3>1. One(s) \in s /\ One(s) \in W
      BY <1>2, <2>2
    <3>2. g[s \ {One(s)}] \in Nat
      BY <2>2, <3>1
    <3>3. g[s] = One(s).cost + g[s \ {One(s)}] /\ One(s).cost \in Nat
      BY <1>1, <2>2, <3>1
    <3>4. g[s] \in Nat
      BY <3>2, <3>3
    <3> QED BY <3>4
  <2>3. N \subseteq SUBSET W
    OBVIOUS
  <2> HIDE DEF N
  <2> QED BY <2>1, <2>2, <2>3, SetInduction
<1>4. A = SUBSET W
  <2>1. {} \in A
    OBVIOUS
  <2>2. ASSUME NEW s \in SUBSET W, s # {}, \A x \in s : s \ {x} \in A PROVE s \in A
    <3>1. ASSUME NEW x \in s PROVE g[s] = x.cost + g[s \ {x}]
      <4> DEFINE y == One(s)
      <4>1. y \in s /\ g[s] = y.cost + g[s \ {y}]
        BY <1>1, <1>2, <2>2
      <4> HIDE DEF y
      <4>2. CASE x = y
        BY <4>1, <4>2
      <4>3. CASE x # y
        <5>1. g[s \ {y}] = x.cost + g[(s \ {y}) \ {x}]
          BY <2>2, <4>1, <4>3
        <5>2. g[s \ {x}] = y.cost + g[(s \ {x}) \ {y}]
          BY <2>2, <4>1, <4>3
        <5>3. (s \ {x}) \ {y} = (s \ {y}) \ {x}
          OBVIOUS
        <5>4. x.cost \in Nat /\ y.cost \in Nat /\ g[(s \ {y}) \ {x}] \in Nat
          <6>1. (s \ {y}) \ {x} \in N /\ x \in W /\ y \in W
            BY <1>3, <4>1
          <6> QED BY <6>1
        <5>5. g[s \ {x}] = y.cost + g[(s \ {y}) \ {x}]
          BY <5>2, <5>3, Zenon
        <5> QED BY <4>1, <5>1, <5>4, <5>5, Exchange
      <4> QED BY <4>2, <4>3
    <3> QED BY <3>1
  <2>3. A \subseteq SUBSET W
    OBVIOUS
  <2> HIDE DEF A
  <2> QED BY <2>1, <2>2, <2>3, SetInduction
<1>5. \A s \in SUBSET W : g[s] \in Nat /\ \A x \in s : g[s] = x.cost + g[s \ {x}]
  BY <1>3, <1>4
<1>6. G = SUBSET W
  <2>1. {} \in G
    <3>1. g[{}] \in Nat
      BY <1>5
    <3> QED BY <3>1
  <2>2. ASSUME NEW t \in SUBSET W, t # {}, \A x \in t : t \ {x} \in G PROVE t \in G
    <3>1. ASSUME NEW s \in SUBSET t PROVE g[s] <= g[t]
      <4>1. CASE s = t
        BY <1>5, <4>1
      <4>2. CASE s # t
        <5>1. PICK x \in t : x \notin s
          BY <4>2
        <5>2. s \in SUBSET (t \ {x}) /\ t \ {x} \in G
          BY <2>2, <5>1
        <5>3. g[s] <= g[t \ {x}]
          BY <5>2
        <5>4. g[t] = x.cost + g[t \ {x}] /\ x.cost \in Nat
          BY <1>5
        <5>5. g[s] \in Nat /\ g[t \ {x}] \in Nat
          <6>1. s \in SUBSET W /\ t \ {x} \in SUBSET W
            OBVIOUS
          <6> QED BY <1>5, <6>1
        <5> QED BY <5>3, <5>4, <5>5
      <4> QED BY <4>1, <4>2
    <3> QED BY <3>1
  <2>3. G \subseteq SUBSET W
    OBVIOUS
  <2> HIDE DEF G
  <2> QED BY <2>1, <2>2, <2>3, SetInduction
<1> QED BY <1>5, <1>6

LEMMA BucketCost ==
  ASSUME NEW S, IsFiniteSet(S)
  PROVE  \E g : Costs(g, S) /\ Ledger!Bucket(S).cost = g[S]
<1>1. Costs(CHOOSE g : Costs(g, S), S)
  BY CostsExist, Zenon
<1>2. Ledger!Bucket(S).cost = (CHOOSE g : Costs(g, S))[S]
  BY Zenon DEF Ledger!Bucket, Ledger!MapThenFoldSet, Costs
<1> QED BY <1>1, <1>2

\* More rows are more calls, which cost more.
LEMMA BucketGrows ==
  ASSUME NEW W, IsFiniteSet(W), \A r \in W : r.cost \in Nat, NEW S, S \subseteq W
  PROVE  Ledger!Bucket(W).calls >= Ledger!Bucket(S).calls /\ Ledger!Bucket(W).cost >= Ledger!Bucket(S).cost
<1>1. IsFiniteSet(S) /\ Cardinality(S) \in Nat /\ Cardinality(W) \in Nat /\ Cardinality(S) <= Cardinality(W)
  BY FS_Subset, FS_CardinalityType
<1>2. Ledger!Bucket(W).calls = Cardinality(W) /\ Ledger!Bucket(S).calls = Cardinality(S)
  BY DEF Ledger!Bucket, Ledger!Cardinality, Cardinality
<1>3. PICK g : Costs(g, W) /\ Ledger!Bucket(W).cost = g[W]
  BY BucketCost
<1>4. PICK h : Costs(h, S) /\ Ledger!Bucket(S).cost = h[S]
  BY <1>1, BucketCost
<1>5. h[S] = g[S]
  BY <1>3, <1>4, CostsAgree
<1>6. g[S] \in Nat /\ g[W] \in Nat /\ g[S] <= g[W]
  BY <1>3, CostsGrow
<1> QED BY <1>1, <1>2, <1>3, <1>4, <1>5, <1>6

-----------------------------------------------------------------------------
(* The ledger of calls *)

\* A cleanup that has come to the usage has left no attempt that was old when it began.
LedgerInv ==
  /\ today \in Nat /\ lastRun \in Int
  /\ cleaner \in [pc : {"idle", "attempts", "usage"}, from : Nat] /\ cleaner.from <= today
  /\ IsFiniteSet(usage) /\ \A r \in usage : r.day \in Nat /\ r.cost \in Nat
  /\ IsFiniteSet(attempts) /\ \A r \in attempts : r.day \in Nat
  /\ cleaner.pc = "usage" => Ledger!Old(attempts, Ledger!AttemptCutoff(cleaner.from)) = {}

LEMMA LedgerInit == ASSUME Ledger!Init PROVE LedgerInv
  BY FS_EmptySet DEF Ledger!Init, Ledger!Resting, LedgerInv, Ledger!Old

\* The first name that a model's contains has a price.
LEMMA PricedNat == ASSUME Ledger!LedgerAssumption, NEW m PROVE Ledger!Priced(m) \in Nat
<1> DEFINE hits == {i \in DOMAIN Table : Includes(m, Table[i])}
<1>1. hits \subseteq Nat /\ hits \subseteq DOMAIN Table
  BY DEF Ledger!LedgerAssumption
<1>2. hits # {} => (CHOOSE i \in hits : \A j \in hits : i <= j) \in hits
  <2> HIDE DEF hits
  <2> QED BY <1>1, LeastNumber
<1>3. Ledger!Priced(m) = IF hits = {} THEN Fallback ELSE PriceOf(Table[CHOOSE i \in hits : \A j \in hits : i <= j])
  BY DEF Ledger!Priced, Ledger!Listed
<1> HIDE DEF hits
<1> QED BY <1>1, <1>2, <1>3 DEF Ledger!LedgerAssumption

\* One statement deletes old rows; all of them when the batch is not full.
LEMMA BatchTakes ==
  ASSUME Ledger!LedgerAssumption, NEW table, IsFiniteSet(table), NEW c \in Int,
         NEW S \in Ledger!Batch(table, c)
  PROVE  /\ S \subseteq Ledger!Old(table, c)
         /\ IsFiniteSet(table \ S)
         /\ ~Ledger!MoreToDelete(Ledger!Cardinality(S)) => Ledger!Old(table \ S, c) = {}
<1> DEFINE O == Ledger!Old(table, c)
<1>1. O \subseteq table /\ S \subseteq O
  BY DEF Ledger!Old, Ledger!Batch
<1>2. IsFiniteSet(O) /\ IsFiniteSet(table \ S)
  BY <1>1, FS_Subset
<1>3. Ledger!Cardinality(S) = Cardinality(S) /\ Ledger!Cardinality(O) = Cardinality(O)
  BY DEF Ledger!Cardinality, Cardinality
<1>4. Cardinality(S) = IF Cardinality(O) < BatchSize THEN Cardinality(O) ELSE BatchSize
  <2>1. Ledger!Cardinality(S) = IF Ledger!Cardinality(O) < BatchSize THEN Ledger!Cardinality(O) ELSE BatchSize
    BY DEF Ledger!Batch
  <2> QED BY <1>3, <2>1
<1>5. Cardinality(S) \in Nat /\ Cardinality(O) \in Nat /\ (Cardinality(S) = Cardinality(O) => S = O)
  BY <1>1, <1>2, FS_Subset, FS_CardinalityType
<1>6. ASSUME ~Ledger!MoreToDelete(Ledger!Cardinality(S)) PROVE Ledger!Old(table \ S, c) = {}
  <2>1. S = O
    BY <1>3, <1>4, <1>5, <1>6 DEF Ledger!MoreToDelete, Ledger!LedgerAssumption
  <2> QED BY <2>1 DEF Ledger!Old
<1> QED BY <1>1, <1>2, <1>6

LEMMA LedgerNext ==
  ASSUME Ledger!LedgerAssumption, LedgerInv, [Ledger!Next]_ledgerVars
  PROVE  LedgerInv'
<1> USE DEF LedgerInv
<1>1. ASSUME NEW m \in Models, Ledger!Record(m) PROVE LedgerInv'
  <2>1. \E n : usage' = usage \cup {n} /\ n.day = today /\ n.cost = Ledger!Priced(m)
    <3>1. PICK id \in 1..MaxRows :
            usage' = usage \cup {[id |-> id, day |-> today, model |-> m, cost |-> Ledger!Priced(m)]}
      BY <1>1 DEF Ledger!Record
    <3> DEFINE n == [id |-> id, day |-> today, model |-> m, cost |-> Ledger!Priced(m)]
    <3>2. n.day = today /\ n.cost = Ledger!Priced(m)
      OBVIOUS
    <3>3. usage' = usage \cup {n}
      BY <3>1
    <3> HIDE DEF n
    <3> QED BY <3>2, <3>3
  <2>2. IsFiniteSet(usage') /\ \A r \in usage' : r.day \in Nat /\ r.cost \in Nat
    BY <2>1, PricedNat, FS_AddElement
  <2> QED BY <1>1, <2>2 DEF Ledger!Record
<1>2. CASE Ledger!Attempt
  <2>1. \E n : attempts' = attempts \cup {n} /\ n.day = today
    <3>1. PICK id \in 1..MaxAttempts : attempts' = attempts \cup {[id |-> id, day |-> today]}
      BY <1>2 DEF Ledger!Attempt
    <3> DEFINE n == [id |-> id, day |-> today]
    <3>2. n.day = today /\ attempts' = attempts \cup {n}
      BY <3>1
    <3> HIDE DEF n
    <3> QED BY <3>2
  <2>2. IsFiniteSet(attempts') /\ \A r \in attempts' : r.day \in Nat
    BY <2>1, FS_AddElement
  <2>3. cleaner.pc = "usage" => Ledger!Old(attempts', Ledger!AttemptCutoff(cleaner.from)) = {}
    BY <2>1 DEF Ledger!Old, Ledger!AttemptCutoff, Ledger!LedgerAssumption
  <2> QED BY <1>2, <2>2, <2>3 DEF Ledger!Attempt
<1>3. CASE Ledger!Tick
  BY <1>3 DEF Ledger!Tick
<1>4. CASE Ledger!StartCleanup
  BY <1>4 DEF Ledger!StartCleanup
<1>5. CASE Ledger!DeleteAttempts
  <2>1. PICK S \in Ledger!Batch(attempts, Ledger!AttemptCutoff(cleaner.from)) :
          /\ attempts' = attempts \ S
          /\ cleaner' = IF Ledger!MoreToDelete(Ledger!Cardinality(S)) THEN cleaner
                        ELSE [cleaner EXCEPT !.pc = "usage"]
    BY <1>5 DEF Ledger!DeleteAttempts
  <2>2. Ledger!AttemptCutoff(cleaner.from) \in Int
    BY DEF Ledger!AttemptCutoff, Ledger!LedgerAssumption
  <2>3. /\ IsFiniteSet(attempts')
        /\ ~Ledger!MoreToDelete(Ledger!Cardinality(S)) =>
              Ledger!Old(attempts', Ledger!AttemptCutoff(cleaner.from)) = {}
    BY <2>1, <2>2, BatchTakes
  <2> QED BY <1>5, <2>1, <2>3 DEF Ledger!DeleteAttempts
<1>6. CASE Ledger!DeleteUsage
  <2>1. PICK S \in Ledger!Batch(usage, Ledger!UsageCutoff(cleaner.from)) :
          /\ usage' = usage \ S
          /\ IF Ledger!MoreToDelete(Ledger!Cardinality(S)) THEN UNCHANGED <<cleaner, lastRun>>
             ELSE cleaner' = Ledger!Resting /\ lastRun' = cleaner.from
    BY <1>6 DEF Ledger!DeleteUsage
  <2>2. IsFiniteSet(usage')
    BY <2>1, FS_Subset
  <2> QED BY <1>6, <2>1, <2>2 DEF Ledger!DeleteUsage, Ledger!Resting
<1>7. CASE Ledger!CleanupFails
  BY <1>7 DEF Ledger!CleanupFails, Ledger!Resting
<1>8. CASE UNCHANGED ledgerVars
  BY <1>8 DEF ledgerVars
<1> QED BY <1>1, <1>2, <1>3, <1>4, <1>5, <1>6, <1>7, <1>8 DEF Ledger!Next, Ledger!Clean

\* The month began less than its days ago.
LEMMA MonthBegan ==
  ASSUME Ledger!LedgerAssumption, NEW d \in Nat
  PROVE  Ledger!MonthStart(d) \in Int /\ Ledger!MonthStart(d) > d - MonthDays
<1>1. MonthDays \in Nat /\ MonthDays > 0
  BY DEF Ledger!LedgerAssumption
<1>2. (d \div MonthDays) * MonthDays > d - MonthDays
  BY <1>1, SMTT(30)
<1> QED BY <1>1, <1>2 DEF Ledger!MonthStart

LEMMA MonthIsKept ==
  ASSUME Ledger!LedgerAssumption, LedgerInv, LedgerInv', [Ledger!Next]_ledgerVars,
         Ledger!MonthStart(today') = Ledger!MonthStart(today)
  PROVE  Ledger!InMonth(usage, today) \subseteq Ledger!InMonth(usage', today)
<1>1. ASSUME NEW r \in usage, r \notin usage' PROVE r.day < Ledger!MonthStart(today)
  <2>1. CASE Ledger!DeleteUsage
    <3>1. PICK S \in Ledger!Batch(usage, Ledger!UsageCutoff(cleaner.from)) : usage' = usage \ S
      BY <2>1 DEF Ledger!DeleteUsage
    <3>2. r \in Ledger!Old(usage, Ledger!UsageCutoff(cleaner.from))
      BY <1>1, <3>1 DEF Ledger!Batch
    <3>3. r.day < cleaner.from - UsageDays
      BY <3>2 DEF Ledger!Old, Ledger!UsageCutoff
    <3>4. Ledger!MonthStart(today) \in Int /\ Ledger!MonthStart(today) > today - MonthDays
      BY MonthBegan DEF LedgerInv
    <3> QED BY <3>3, <3>4 DEF LedgerInv, Ledger!LedgerAssumption
  <2>2. CASE ~Ledger!DeleteUsage
    BY <1>1, <2>2 DEF Ledger!Next, Ledger!Clean, ledgerVars, Ledger!Record, Ledger!Attempt, Ledger!Tick,
       Ledger!StartCleanup, Ledger!DeleteAttempts, Ledger!CleanupFails
  <2> QED BY <2>1, <2>2
<1>2. ASSUME NEW r \in usage, r.day < Ledger!MonthStart(today) PROVE r \notin Ledger!InMonth(usage, today)
  <2>1. Ledger!MonthStart(today) \in Int /\ r.day \in Int
    BY MonthBegan DEF LedgerInv
  <2> QED BY <1>2, <2>1 DEF Ledger!InMonth
<1> QED BY <1>1, <1>2 DEF Ledger!InMonth

LEMMA LedgerStep ==
  ASSUME Ledger!LedgerAssumption, LedgerInv, LedgerInv', [Ledger!Next]_ledgerVars
  PROVE  /\ Ledger!MonthStart(today') = Ledger!MonthStart(today) =>
              LET before == Ledger!Bucket(Ledger!InMonth(usage, today))
                  after  == Ledger!Bucket(Ledger!InMonth(usage', today))
              IN  after.calls >= before.calls /\ after.cost >= before.cost
         /\ lastRun' # lastRun =>
              /\ Ledger!Old(attempts', Ledger!AttemptCutoff(lastRun')) = {}
              /\ Ledger!Old(usage', Ledger!UsageCutoff(lastRun')) = {}
<1>1. ASSUME Ledger!MonthStart(today') = Ledger!MonthStart(today)
      PROVE  /\ Ledger!Bucket(Ledger!InMonth(usage', today)).calls >= Ledger!Bucket(Ledger!InMonth(usage, today)).calls
             /\ Ledger!Bucket(Ledger!InMonth(usage', today)).cost >= Ledger!Bucket(Ledger!InMonth(usage, today)).cost
  <2>1. Ledger!InMonth(usage, today) \subseteq Ledger!InMonth(usage', today)
    BY <1>1, MonthIsKept
  <2>2. Ledger!InMonth(usage', today) \subseteq usage'
    BY DEF Ledger!InMonth
  <2>3. IsFiniteSet(Ledger!InMonth(usage', today)) /\ \A r \in Ledger!InMonth(usage', today) : r.cost \in Nat
    BY <2>2, FS_Subset DEF LedgerInv
  <2> QED BY <2>1, <2>3, BucketGrows
<1>2. ASSUME lastRun' # lastRun
      PROVE  /\ Ledger!Old(attempts', Ledger!AttemptCutoff(lastRun')) = {}
             /\ Ledger!Old(usage', Ledger!UsageCutoff(lastRun')) = {}
  <2>1. Ledger!DeleteUsage
    BY <1>2 DEF Ledger!Next, Ledger!Clean, ledgerVars, Ledger!Record, Ledger!Attempt, Ledger!Tick,
       Ledger!StartCleanup, Ledger!DeleteAttempts, Ledger!CleanupFails
  <2>2. PICK S \in Ledger!Batch(usage, Ledger!UsageCutoff(cleaner.from)) :
          /\ usage' = usage \ S
          /\ ~Ledger!MoreToDelete(Ledger!Cardinality(S)) /\ lastRun' = cleaner.from
    BY <1>2, <2>1 DEF Ledger!DeleteUsage
  <2>3. Ledger!UsageCutoff(cleaner.from) \in Int
    BY DEF Ledger!UsageCutoff, Ledger!LedgerAssumption, LedgerInv
  <2>4. Ledger!Old(usage', Ledger!UsageCutoff(lastRun')) = {}
    <3>1. IsFiniteSet(usage)
      BY DEF LedgerInv
    <3> QED BY <2>2, <2>3, <3>1, BatchTakes
  <2>5. attempts' = attempts /\ cleaner.pc = "usage"
    BY <2>1 DEF Ledger!DeleteUsage
  <2> QED BY <2>2, <2>4, <2>5 DEF LedgerInv
<1> QED BY <1>1, <1>2

-----------------------------------------------------------------------------
(* What the dashboard shows of a case *)

Percent == 0..100

LEMMA ClampPercent == ASSUME NEW n \in Int PROVE Shown!Clamp01(n) \in Percent
  BY DEF Shown!Clamp01, Shown!AtLeast, Shown!AtMost, Percent

LEMMA SameScore == ASSUME NEW n \in Percent PROVE Shown!NormalizeAiScore(n) = n
  BY DEF Shown!NormalizeAiScore, Shown!Clamp01, Shown!AtLeast, Shown!AtMost, Percent

LEMMA SamePriority ==
  ASSUME NEW s
  PROVE  Shown!NormalizePriority(Shown!PriorityFromScore(s), s) = Shown!PriorityFromScore(s)
  BY DEF Shown!NormalizePriority, Shown!PriorityFromScore

Listing(l) == l \in [aiScore : Scores, matchingScore : Scores, title : Measures, image : Measures,
                     brand : Measures]

LEMMA ScoreOfCase ==
  ASSUME Shown!ViewAssumption, NEW l, Listing(l)
  PROVE  Shown!ComputeAiScore(l) \in Percent
<1>1. /\ l.aiScore \in Int /\ l.matchingScore \in Int /\ l.title \in Int /\ l.image \in Int
  BY DEF Listing, Shown!ViewAssumption
<1>2. Shown!AtLeast(Shown!Known(l.title), Shown!Known(l.image)) \in Int
  BY <1>1 DEF Shown!AtLeast, Shown!Known
<1> QED BY <1>1, <1>2, ClampPercent DEF Shown!ComputeAiScore

\* The measures of a case are percents, so the dashboard takes none for another scale.
LEMMA SameAnalysis ==
  ASSUME Shown!ViewAssumption, NEW l, Listing(l), NEW s \in Percent
  PROVE  /\ Shown!MapAnalysis(Shown!BuildAiAnalysis(l, s)) = Shown!BuildAiAnalysis(l, s)
         /\ l.brand # Missing /\ l.title # Missing =>
               Shown!BuildAiAnalysis(l, s).titleSimilarity = Shown!Clamp01(l.title)
<1>1. l.title \in Int /\ l.image \in Int /\ l.brand \in Int
  BY DEF Listing, Shown!ViewAssumption
<1>2. /\ (s * 96) \div 100 \in Int /\ (s * 70) \div 100 \in Int /\ (s * 90) \div 100 \in Int
      /\ Shown!Known(l.title) \in Int /\ Shown!Known(l.image) \in Int
  BY <1>1 DEF Percent, Shown!Known
<1>3. \E t, i, b \in Percent :
        Shown!BuildAiAnalysis(l, s) = [titleSimilarity |-> t, imageSimilarity |-> i, brandMatch |-> b]
  <2>1. CASE l.brand # Missing
    <3>1. Shown!BuildAiAnalysis(l, s) =
            [titleSimilarity |-> Shown!Clamp01(Shown!Known(l.title)),
             imageSimilarity |-> Shown!Clamp01(Shown!Known(l.image)),
             brandMatch |-> Shown!Clamp01(l.brand)]
      BY <2>1 DEF Shown!BuildAiAnalysis
    <3>2. /\ Shown!Clamp01(Shown!Known(l.title)) \in Percent /\ Shown!Clamp01(Shown!Known(l.image)) \in Percent
          /\ Shown!Clamp01(l.brand) \in Percent
      BY <1>1, <1>2, ClampPercent
    <3> QED BY <3>1, <3>2
  <2>2. CASE l.brand = Missing
    <3> DEFINE t == Shown!Clamp01(IF l.title = Missing THEN (s * 96) \div 100 ELSE l.title)
               i == Shown!Clamp01(IF l.image = Missing THEN (s * 70) \div 100 ELSE l.image)
               b == Shown!Clamp01((s * 90) \div 100)
    <3>1. Shown!BuildAiAnalysis(l, s) = [titleSimilarity |-> t, imageSimilarity |-> i, brandMatch |-> b]
      BY <2>2 DEF Shown!BuildAiAnalysis
    <3>2. t \in Percent /\ i \in Percent /\ b \in Percent
      BY <1>1, <1>2, ClampPercent
    <3> HIDE DEF t, i, b
    <3> QED BY <3>1, <3>2
  <2> QED BY <2>1, <2>2
<1>4. ASSUME NEW t \in Percent, NEW i \in Percent, NEW b \in Percent
      PROVE  Shown!MapAnalysis([titleSimilarity |-> t, imageSimilarity |-> i, brandMatch |-> b])
             = [titleSimilarity |-> t, imageSimilarity |-> i, brandMatch |-> b]
  <2>1. /\ Shown!NormalizeAiScore(t) = t /\ Shown!NormalizeAiScore(i) = i
        /\ Shown!NormalizeAiScore(b) = b
    BY SameScore
  <2> QED BY <2>1 DEF Shown!MapAnalysis
<1>5. l.brand # Missing /\ l.title # Missing =>
               Shown!BuildAiAnalysis(l, s).titleSimilarity = Shown!Clamp01(l.title)
  BY DEF Shown!BuildAiAnalysis, Shown!Known
<1> QED BY <1>3, <1>4, <1>5

\* Appending an event leaves the events of other kinds, and is the first and last of its own if there was
\* none.
LEMMA AppendKind ==
  ASSUME NEW S, NEW tl \in Seq(S), NEW e \in S
  PROVE  LET u == Append(tl, e)
         IN  /\ u \in Seq(S)
             /\ \A k : k # e.kind =>
                   /\ Shown!OfKind(u, k) = Shown!OfKind(tl, k)
                   /\ Shown!OfKind(tl, k) # {} =>
                         Shown!LastOf(u, k) = Shown!LastOf(tl, k) /\ Shown!FirstOf(u, k) = Shown!FirstOf(tl, k)
             /\ Shown!OfKind(tl, e.kind) = {} =>
                   /\ Shown!OfKind(u, e.kind) # {}
                   /\ Shown!LastOf(u, e.kind) = e.detail /\ Shown!FirstOf(u, e.kind) = e.detail
<1> DEFINE u == Append(tl, e)
<1>1. /\ u \in Seq(S) /\ Len(tl) \in Nat /\ DOMAIN tl = 1..Len(tl) /\ DOMAIN u = 1..(Len(tl) + 1)
      /\ u[Len(tl) + 1] = e /\ \A i \in 1..Len(tl) : u[i] = tl[i]
  OBVIOUS
<1> HIDE DEF u
<1>2. ASSUME NEW k, k # e.kind
      PROVE  Shown!OfKind(u, k) = Shown!OfKind(tl, k) /\ \A i \in Shown!OfKind(tl, k) : u[i] = tl[i]
  BY <1>1, <1>2 DEF Shown!OfKind
<1>3. ASSUME NEW k, k # e.kind, Shown!OfKind(tl, k) # {}
      PROVE  Shown!LastOf(u, k) = Shown!LastOf(tl, k) /\ Shown!FirstOf(u, k) = Shown!FirstOf(tl, k)
  <2> DEFINE T == Shown!OfKind(tl, k)
             m == CHOOSE i \in T : \A j \in T : j <= i
             n == CHOOSE i \in T : \A j \in T : i <= j
  <2>1. T \subseteq 1..Len(tl) /\ T # {}
    BY <1>1, <1>3 DEF Shown!OfKind
  <2>2. m \in T
    <3>1. T \subseteq 0..Len(tl) /\ Len(tl) \in Nat
      BY <1>1, <2>1
    <3>2. \E i \in T : \A j \in T : j <= i
      <4> HIDE DEF T
      <4> QED BY <2>1, <3>1, GreatestNumber
    <3> QED BY <3>2
  <2>3. n \in T
    <3>1. T \subseteq Nat
      BY <1>1, <2>1
    <3>2. \E i \in T : \A j \in T : i <= j
      BY <2>1, <3>1, LeastNumber
    <3> QED BY <3>2
  <2>4. Shown!OfKind(u, k) = T /\ u[m] = tl[m] /\ u[n] = tl[n]
    BY <1>2, <1>3, <2>2, <2>3
  <2> QED BY <2>4 DEF Shown!LastOf, Shown!FirstOf
<1>4. ASSUME Shown!OfKind(tl, e.kind) = {}
      PROVE  /\ Shown!OfKind(u, e.kind) # {}
             /\ Shown!LastOf(u, e.kind) = e.detail /\ Shown!FirstOf(u, e.kind) = e.detail
  <2>1. Shown!OfKind(u, e.kind) = {Len(tl) + 1}
    BY <1>1, <1>4 DEF Shown!OfKind
  <2>2. Len(tl) + 1 <= Len(tl) + 1
    BY <1>1
  <2>3. (CHOOSE i \in {Len(tl) + 1} : \A j \in {Len(tl) + 1} : j <= i) = Len(tl) + 1
    BY <2>2
  <2>4. (CHOOSE i \in {Len(tl) + 1} : \A j \in {Len(tl) + 1} : i <= j) = Len(tl) + 1
    BY <2>2
  <2> QED BY <1>1, <2>1, <2>3, <2>4 DEF Shown!LastOf, Shown!FirstOf
<1> QED BY <1>1, <1>2, <1>3, <1>4 DEF u

\* A timeline tells what the service answered.
Tells(tl, a) ==
  /\ \E S : tl \in Seq(S)
  /\ Shown!ExtractSummary(tl) = a.opinion.summary
  /\ Shown!ExtractReasons(tl) = a.opinion.reasons
  /\ Shown!ExtractAdvice(tl) = IF a.opinion = Shown!NoOpinion THEN Shown!NoAdvice ELSE a.advice

Extracts == {"investigation_summary", "judgment_reasons", "ai_recommendation"}

\* What is written into it later does not change that.
LEMMA TellsOn ==
  ASSUME NEW tl, NEW a, Tells(tl, a), NEW d
  PROVE  Tells(Append(tl, Shown!Event("status_changed", d)), a)
<1> DEFINE e == Shown!Event("status_changed", d)
           u == Append(tl, e)
<1>1. PICK S : tl \in Seq(S)
  BY DEF Tells
<1>2. tl \in Seq(S \cup {e}) /\ e \in S \cup {e}
  BY <1>1
<1>3. e.kind = "status_changed"
  BY DEF Shown!Event
<1> HIDE DEF e
<1>4. /\ u \in Seq(S \cup {e})
      /\ \A k \in Extracts :
           /\ Shown!OfKind(u, k) = Shown!OfKind(tl, k)
           /\ Shown!OfKind(tl, k) # {} =>
                 Shown!LastOf(u, k) = Shown!LastOf(tl, k) /\ Shown!FirstOf(u, k) = Shown!FirstOf(tl, k)
  <2>1. \A k \in Extracts : k # e.kind
    BY <1>3 DEF Extracts
  <2> QED BY <1>2, <2>1, AppendKind
<1> HIDE DEF u
<1>5. /\ Shown!ExtractSummary(u) = Shown!ExtractSummary(tl)
      /\ Shown!ExtractReasons(u) = Shown!ExtractReasons(tl)
      /\ Shown!ExtractAdvice(u) = Shown!ExtractAdvice(tl)
  BY <1>4 DEF Extracts, Shown!ExtractSummary, Shown!ExtractReasons, Shown!ExtractAdvice
<1>6. Tells(u, a)
  BY <1>4, <1>5 DEF Tells
<1> QED BY <1>6 DEF u, e

\* Sequences that end in one element or in none.
LEMMA OneMore == ASSUME NEW S, NEW s \in Seq(S), NEW d \in S PROVE s \o <<d>> = Append(s, d)
  OBVIOUS
LEMMA NoneMore == ASSUME NEW S, NEW s \in Seq(S) PROVE s \o << >> = s
  OBVIOUS
LEMMA InAnyOrder ==
  ASSUME NEW S, NEW s \in Seq(S), NEW t \in Seq(S), NEW u \in Seq(S), NEW v \in Seq(S)
  PROVE  s \o (t \o u \o v) = ((s \o t) \o u) \o v
  OBVIOUS

LEMMA TimelineTells ==
  ASSUME NEW a, a.opinion \in Opinions \cup {Shown!NoOpinion}
  PROVE  Tells(Shown!Timeline(a), a)
<1> DEFINE e1 == Shown!Event("search_run", "keyword")
           e2 == Shown!Event("ai_analysis", "score")
           e3 == Shown!Event("investigation_created", "no")
           sum == Shown!Event("investigation_summary", a.opinion.summary)
           rea == Shown!Event("judgment_reasons", a.opinion.reasons)
           adv == Shown!Event("ai_recommendation", a.advice)
           S == {e1, e2, e3, sum, rea, adv}
           b == <<e1, e2, e3>>
<1>1. /\ e1.kind = "search_run" /\ e2.kind = "ai_analysis" /\ e3.kind = "investigation_created"
      /\ sum.kind = "investigation_summary" /\ sum.detail = a.opinion.summary
      /\ rea.kind = "judgment_reasons" /\ rea.detail = a.opinion.reasons
      /\ adv.kind = "ai_recommendation" /\ adv.detail = a.advice
  BY DEF Shown!Event
<1>2. b \in Seq(S) /\ sum \in S /\ rea \in S /\ adv \in S
  OBVIOUS
<1>3. \A k \in Extracts : Shown!OfKind(b, k) = {}
  BY <1>1 DEF Shown!OfKind, Extracts
<1>4. CASE a.opinion = Shown!NoOpinion
  <2>1. Shown!Timeline(a) = b
    BY <1>2, <1>4, NoneMore DEF Shown!Timeline
  <2>2. a.opinion.summary = "" /\ a.opinion.reasons = << >>
    <3>1. Shown!NoOpinion.summary = "" /\ Shown!NoOpinion.reasons = << >>
      BY DEF Shown!NoOpinion
    <3> QED BY <1>4, <3>1
  <2> QED BY <1>2, <1>3, <1>4, <2>1, <2>2
          DEF Tells, Extracts, Shown!ExtractSummary, Shown!ExtractReasons, Shown!ExtractAdvice
<1>5. CASE a.opinion # Shown!NoOpinion
  <2> DEFINE R == IF a.opinion.reasons = << >> THEN << >> ELSE <<rea>>
             V == IF a.advice = Shown!NoAdvice THEN << >> ELSE <<adv>>
             b1 == Append(b, sum)
             b2 == IF a.opinion.reasons = << >> THEN b1 ELSE Append(b1, rea)
             b3 == IF a.advice = Shown!NoAdvice THEN b2 ELSE Append(b2, adv)
  <2> HIDE DEF e1, e2, e3, sum, rea, adv, S, b
  <2>1. Shown!Timeline(a) = b \o (<<sum>> \o R \o V)
    BY <1>5 DEF Shown!Timeline, b, e1, e2, e3, sum, rea, adv
  <2>2. R \in Seq(S) /\ V \in Seq(S) /\ <<sum>> \in Seq(S) /\ b1 \in Seq(S)
    BY <1>2
  <2>3. b2 \in Seq(S)
    <3> HIDE DEF b1
    <3> QED BY <1>2, <2>2
  <2>4. b3 \in Seq(S)
    <3> HIDE DEF b2
    <3> QED BY <1>2, <2>3
  <2>5. Shown!Timeline(a) = b3
    <3>1. Shown!Timeline(a) = ((b \o <<sum>>) \o R) \o V
      <4> HIDE DEF R, V
      <4> QED BY <1>2, <2>1, <2>2, InAnyOrder
    <3>2. b \o <<sum>> = b1
      BY <1>2, OneMore
    <3> HIDE DEF b1
    <3>3. b1 \o R = b2
      BY <1>2, <2>2, OneMore, NoneMore
    <3> HIDE DEF b2
    <3>4. b2 \o V = b3
      BY <1>2, <2>3, OneMore, NoneMore
    <3> QED BY <3>1, <3>2, <3>3, <3>4
  <2>6. /\ Shown!OfKind(b1, "investigation_summary") # {}
        /\ Shown!LastOf(b1, "investigation_summary") = a.opinion.summary
        /\ Shown!OfKind(b1, "judgment_reasons") = {} /\ Shown!OfKind(b1, "ai_recommendation") = {}
    <3>1. /\ Shown!OfKind(b, "investigation_summary") = {} /\ Shown!OfKind(b, "judgment_reasons") = {}
          /\ Shown!OfKind(b, "ai_recommendation") = {}
      BY <1>3 DEF Extracts
    <3> QED BY <1>1, <1>2, <3>1, AppendKind
  <2> HIDE DEF b1
  <2>7. /\ Shown!OfKind(b2, "investigation_summary") # {}
        /\ Shown!LastOf(b2, "investigation_summary") = a.opinion.summary
        /\ IF a.opinion.reasons = << >> THEN Shown!OfKind(b2, "judgment_reasons") = {}
           ELSE /\ Shown!OfKind(b2, "judgment_reasons") # {}
                /\ Shown!LastOf(b2, "judgment_reasons") = a.opinion.reasons
        /\ Shown!OfKind(b2, "ai_recommendation") = {}
    <3>1. CASE a.opinion.reasons = << >>
      BY <2>6, <3>1
    <3>2. CASE a.opinion.reasons # << >>
      <4>1. b2 = Append(b1, rea)
        BY <3>2
      <4> HIDE DEF b2
      <4> QED BY <1>1, <1>2, <2>2, <2>6, <3>2, <4>1, AppendKind
    <3> QED BY <3>1, <3>2
  <2> HIDE DEF b2
  <2>8. /\ Shown!OfKind(b3, "investigation_summary") # {}
        /\ Shown!LastOf(b3, "investigation_summary") = a.opinion.summary
        /\ IF a.opinion.reasons = << >> THEN Shown!OfKind(b3, "judgment_reasons") = {}
           ELSE /\ Shown!OfKind(b3, "judgment_reasons") # {}
                /\ Shown!LastOf(b3, "judgment_reasons") = a.opinion.reasons
        /\ IF a.advice = Shown!NoAdvice THEN Shown!OfKind(b3, "ai_recommendation") = {}
           ELSE /\ Shown!OfKind(b3, "ai_recommendation") # {}
                /\ Shown!FirstOf(b3, "ai_recommendation") = a.advice
    <3>1. CASE a.advice = Shown!NoAdvice
      BY <2>7, <3>1
    <3>2. CASE a.advice # Shown!NoAdvice
      <4>1. b3 = Append(b2, adv)
        BY <3>2
      <4> HIDE DEF b3
      <4>2. /\ \A k : k # "ai_recommendation" =>
                 /\ Shown!OfKind(b3, k) = Shown!OfKind(b2, k)
                 /\ Shown!OfKind(b2, k) # {} => Shown!LastOf(b3, k) = Shown!LastOf(b2, k)
            /\ Shown!OfKind(b3, "ai_recommendation") # {}
            /\ Shown!FirstOf(b3, "ai_recommendation") = a.advice
        BY <1>1, <1>2, <2>3, <2>7, <4>1, AppendKind
      <4> QED BY <2>7, <3>2, <4>2
    <3> QED BY <3>1, <3>2
  <2> HIDE DEF b3
  <2> QED BY <1>5, <2>4, <2>5, <2>8
          DEF Tells, Shown!ExtractSummary, Shown!ExtractReasons, Shown!ExtractAdvice
<1> QED BY <1>4, <1>5

\* A case tells what it was made of, and the dashboard what the case tells.
CaseInv ==
  /\ Listing(listing) /\ answers.opinion \in Opinions \cup {Shown!NoOpinion}
  /\ case # Shown!NoCase =>
       /\ case.aiScore \in Percent /\ case.priority = Shown!PriorityFromScore(case.aiScore)
       /\ case.aiAnalysis = Shown!BuildAiAnalysis(listing, case.aiScore)
       /\ Tells(case.timeline, answers)
       /\ DOMAIN case = {"status", "aiScore", "priority", "aiAnalysis", "decision", "timeline"}
  /\ view # Shown!NotShown => case # Shown!NoCase
  /\ Shown!ShownAsMade

ViewInv == part = "view" => CaseInv

LEMMA ViewInit ==
  ASSUME part = "view" => Shown!Init
  PROVE  ViewInv
  BY DEF ViewInv, CaseInv, Shown!Init, Listing, Shown!ShownAsMade

LEMMA ViewNext ==
  ASSUME Shown!ViewAssumption, CaseInv, [Shown!Next]_viewVars
  PROVE  CaseInv'
<1>1. CASE UNCHANGED viewVars
  BY <1>1 DEF CaseInv, viewVars, Listing, Shown!ShownAsMade, Tells
<1>2. CASE Shown!Create
  <2>1. Shown!ComputeAiScore(listing) \in Percent /\ Tells(Shown!Timeline(answers), answers)
    BY ScoreOfCase, TimelineTells DEF CaseInv
  <2>2. view = Shown!NotShown
    BY <1>2 DEF CaseInv, Shown!Create
  <2>3. /\ case'.aiScore = Shown!ComputeAiScore(listing)
        /\ case'.priority = Shown!PriorityFromScore(case'.aiScore)
        /\ case'.aiAnalysis = Shown!BuildAiAnalysis(listing, case'.aiScore)
        /\ case'.timeline = Shown!Timeline(answers)
        /\ DOMAIN case' = {"status", "aiScore", "priority", "aiAnalysis", "decision", "timeline"}
    BY <1>2 DEF Shown!Create, Shown!CreateCase
  <2>4. case' # Shown!NoCase
    <3>1. "aiScore" \in DOMAIN case' /\ "aiScore" \notin DOMAIN Shown!NoCase
      BY <2>3 DEF Shown!NoCase
    <3> QED BY <3>1
  <2> QED BY <1>2, <2>1, <2>2, <2>3, <2>4 DEF CaseInv, Shown!Create, Shown!ShownAsMade, Listing
<1>3. CASE Shown!Advance
  <2>1. case # Shown!NoCase
    BY <1>3 DEF Shown!Advance, Shown!NoCase
  <2>2. PICK d \in {"none", "excluded"} :
          case' = [case EXCEPT !.status = IF d = "none" THEN "Investigating" ELSE "Completed",
                               !.decision = d,
                               !.timeline = Append(@, Shown!Event("status_changed", d))]
    BY <1>3 DEF Shown!Advance
  <2>3. /\ case'.aiScore = case.aiScore /\ case'.priority = case.priority
        /\ case'.aiAnalysis = case.aiAnalysis
        /\ case'.timeline = Append(case.timeline, Shown!Event("status_changed", d))
        /\ DOMAIN case' = DOMAIN case
    BY <2>1, <2>2 DEF CaseInv
  <2>4. Tells(case'.timeline, answers)
    BY <2>1, <2>3, TellsOn DEF CaseInv
  <2>5. case' # Shown!NoCase
    <3>1. "aiScore" \in DOMAIN case' /\ "aiScore" \notin DOMAIN Shown!NoCase
      BY <2>1, <2>3 DEF Shown!NoCase, CaseInv
    <3> QED BY <3>1
  <2> QED BY <1>3, <2>1, <2>3, <2>4, <2>5 DEF CaseInv, Shown!Advance, Shown!ShownAsMade, Listing
<1>4. CASE Shown!Show
  <2>1. case # Shown!NoCase /\ UNCHANGED <<listing, answers, case>>
    BY <1>4 DEF Shown!Show
  <2>2. /\ view'.aiScore = Shown!NormalizeAiScore(case.aiScore)
        /\ view'.priority = Shown!NormalizePriority(case.priority, case.aiScore)
        /\ view'.aiAnalysis = Shown!MapAnalysis(case.aiAnalysis)
        /\ view'.summary = Shown!ExtractSummary(case.timeline)
        /\ view'.reasons = Shown!ExtractReasons(case.timeline)
        /\ view'.advice = Shown!ExtractAdvice(case.timeline)
    BY <1>4 DEF Shown!Show, Shown!MapServerCase, Shown!ToDto
  <2>3. /\ view'.aiScore = case.aiScore /\ view'.priority = case.priority
        /\ view'.aiAnalysis = case.aiAnalysis
        /\ listing.brand # Missing /\ listing.title # Missing =>
              view'.aiAnalysis.titleSimilarity = Shown!Clamp01(listing.title)
    BY <2>1, <2>2, SameScore, SamePriority, SameAnalysis DEF CaseInv
  <2> QED BY <2>1, <2>2, <2>3 DEF CaseInv, Shown!ShownAsMade, Tells, Listing
<1> QED BY <1>1, <1>2, <1>3, <1>4 DEF Shown!Next

-----------------------------------------------------------------------------
(* The listings kept *)

\* Of the elements of a set in a strict order, those are first that have fewer than so many before them: no
\* other is before one of them, and they are as many as that, or all.
LEMMA FirstOfOrder ==
  ASSUME NEW n \in Nat, NEW R,
         \A i \in 1..n : <<i, i>> \notin R,
         \A i, j \in 1..n : i # j => <<i, j>> \in R \/ <<j, i>> \in R,
         \A i, j, k \in 1..n : <<i, j>> \in R /\ <<j, k>> \in R => <<i, k>> \in R,
         NEW limit \in Nat,
         NEW K, K = {i \in 1..n : Cardinality({j \in 1..n : <<j, i>> \in R}) < limit}
  PROVE  /\ \A i \in K, j \in (1..n) \ K : <<i, j>> \in R
         /\ Cardinality(K) = IF n < limit THEN n ELSE limit
<1> DEFINE D == 1..n
           P(i) == {j \in D : <<j, i>> \in R}
           r == [i \in D |-> Cardinality(P(i))]
<1>1. IsFiniteSet(D) /\ Cardinality(D) = n
  BY FS_Interval
<1>2. ASSUME NEW i \in D
      PROVE  /\ P(i) \subseteq D \ {i} /\ IsFiniteSet(P(i)) /\ Cardinality(P(i)) \in Nat
             /\ Cardinality(P(i)) <= n - 1
  <2>1. P(i) \subseteq D \ {i}
    OBVIOUS
  <2>2. IsFiniteSet(D \ {i}) /\ Cardinality(D \ {i}) = n - 1
    BY <1>1, FS_RemoveElement
  <2> HIDE DEF P
  <2> QED BY <2>1, <2>2, FS_Subset, FS_CardinalityType
<1>3. ASSUME NEW i \in D, NEW j \in D, <<i, j>> \in R
      PROVE  Cardinality(P(i)) < Cardinality(P(j))
  <2>1. P(i) \subseteq P(j) /\ i \in P(j) /\ i \notin P(i)
    BY <1>3
  <2>2. P(i) # P(j)
    BY <2>1
  <2> HIDE DEF P
  <2> QED BY <1>2, <2>1, <2>2, FS_Subset
<1>4. K = {i \in D : r[i] < limit} /\ \A i \in D : r[i] \in 0..(n - 1)
  <2>1. \A i \in D : r[i] = Cardinality(P(i))
    OBVIOUS
  <2>2. K = {i \in D : Cardinality(P(i)) < limit}
    OBVIOUS
  <2> HIDE DEF P, r
  <2> QED BY <1>2, <2>1, <2>2
<1>5. \A i, j \in D : <<i, j>> \in R => r[i] < r[j]
  BY <1>3
<1> HIDE DEF P, r, D
<1>6. ASSUME NEW i \in K, NEW j \in D \ K PROVE <<i, j>> \in R
  <2>1. /\ i \in D /\ j \in D /\ r[i] < limit /\ ~(r[j] < limit)
        /\ r[i] \in Int /\ r[j] \in Int
    <3>1. i \in D /\ r[i] < limit
      BY <1>4
    <3>2. j \in D /\ ~(r[j] < limit)
      BY <1>4
    <3> QED BY <1>4, <3>1, <3>2
  <2>2. <<j, i>> \notin R
    BY <1>5, <2>1
  <2> QED BY <2>1, <2>2 DEF D
<1>7. Cardinality(K) = IF n < limit THEN n ELSE limit
  <2> DEFINE m == IF n < limit THEN n ELSE limit
  <2>1. r \in [D -> 0..(n - 1)]
    BY <1>4 DEF r
  <2>2. r \in Injection(D, 0..(n - 1))
    <3>1. ASSUME NEW i \in D, NEW j \in D, r[i] = r[j] PROVE i = j
      <4>1. r[i] \in Int /\ r[j] \in Int
        BY <1>4
      <4>2. <<i, j>> \notin R /\ <<j, i>> \notin R
        BY <1>5, <3>1, <4>1
      <4> QED BY <4>2 DEF D
    <3> QED BY <2>1, <3>1 DEF Injection, IsInjective
  <2>3. IsFiniteSet(0..(n - 1)) /\ Cardinality(0..(n - 1)) = n
    BY FS_Interval
  <2>4. r \in Surjection(D, 0..(n - 1))
    BY <1>1, <2>2, <2>3, FS_Injection
  <2>5. \A x \in 0..(n - 1) : \E i \in D : r[i] = x
    BY <2>4 DEF Surjection
  <2> DEFINE q == [i \in K |-> r[i]]
  <2>6. q \in [K -> 0..(m - 1)]
    BY <1>4
  <2>7. \A i, j \in K : q[i] = q[j] => i = j
    BY <2>2, <1>4 DEF Injection, IsInjective
  <2>8. \A x \in 0..(m - 1) : \E i \in K : q[i] = x
    <3>1. ASSUME NEW x \in 0..(m - 1) PROVE \E i \in K : q[i] = x
      <4>1. x \in 0..(n - 1) /\ x < limit
        OBVIOUS
      <4>2. PICK i \in D : r[i] = x
        BY <2>5, <4>1
      <4>3. i \in K
        BY <1>4, <4>1, <4>2
      <4> QED BY <4>2, <4>3
    <3> QED BY <3>1
  <2>9. q \in Bijection(K, 0..(m - 1))
    BY <2>6, <2>7, <2>8 DEF Bijection, Injection, IsInjective, Surjection
  <2>10. IsFiniteSet(K)
    BY <1>1, <1>4, FS_Subset
  <2>11. Cardinality(0..(m - 1)) = m
    <3>1. m \in Nat
      OBVIOUS
    <3> HIDE DEF m
    <3>2. 0 \in Int /\ m - 1 \in Int /\ (IF 0 > m - 1 THEN 0 ELSE (m - 1) - 0 + 1) = m
      BY <3>1
    <3> QED BY <3>2, FS_Interval
  <2> QED BY <2>9, <2>10, <2>11, FS_Bijection DEF ExistsBijection
<1> QED BY <1>6, <1>7 DEF D

\* Fractions with positive divisors: greater is transitive, and so is not less.
Fraction == {<<a, b>> : a \in Nat, b \in Nat \ {0}}

LEMMA TimesMore == ASSUME NEW x \in Int, NEW y \in Int, NEW z \in Nat \ {0}
                   PROVE  x > y <=> x * z > y * z
  BY SMTT(30)

LEMMA Reorder == ASSUME NEW a \in Nat, NEW b \in Nat, NEW c \in Nat
                 PROVE  /\ (a * b) * c = (a * c) * b /\ a * b \in Nat
  BY SMTT(30)

LEMMA GreaterTransitive ==
  ASSUME NEW p \in Fraction, NEW q \in Fraction, NEW r \in Fraction
  PROVE  /\ Search!Greater(p, q) => ~Search!Greater(q, p)
         /\ Search!Greater(p, q) /\ ~Search!Greater(r, q) => Search!Greater(p, r)
         /\ ~Search!Greater(q, p) /\ Search!Greater(q, r) => Search!Greater(p, r)
         /\ ~Search!Greater(q, p) /\ ~Search!Greater(r, q) => ~Search!Greater(r, p)
<1>1. PICK a \in Nat, b \in Nat \ {0} : p = <<a, b>>
  BY DEF Fraction
<1>2. PICK c \in Nat, d \in Nat \ {0} : q = <<c, d>>
  BY DEF Fraction
<1>3. PICK e \in Nat, f \in Nat \ {0} : r = <<e, f>>
  BY DEF Fraction
<1> DEFINE ad == a * d
           cb == c * b
           cf == c * f
           ed == e * d
           af == a * f
           eb == e * b
<1>4. /\ ad \in Nat /\ cb \in Nat /\ cf \in Nat /\ ed \in Nat /\ af \in Nat /\ eb \in Nat
      /\ ad * f = af * d /\ cb * f = cf * b /\ ed * b = eb * d
  BY Reorder
<1>5. /\ Search!Greater(p, q) <=> ad > cb
      /\ Search!Greater(q, p) <=> cb > ad
      /\ Search!Greater(q, r) <=> cf > ed
      /\ Search!Greater(r, q) <=> ed > cf
      /\ Search!Greater(p, r) <=> af > eb
      /\ Search!Greater(r, p) <=> eb > af
  BY <1>1, <1>2, <1>3 DEF Search!Greater
<1> HIDE DEF ad, cb, cf, ed, af, eb
<1>6. /\ ad > cb <=> ad * f > cb * f
      /\ cb > ad <=> cb * f > ad * f
      /\ cf > ed <=> cf * b > ed * b
      /\ ed > cf <=> ed * b > cf * b
      /\ af > eb <=> af * d > eb * d
      /\ eb > af <=> eb * d > af * d
  BY <1>4, TimesMore
<1>7. ad * f \in Nat /\ cb * f \in Nat /\ ed * b \in Nat
  BY <1>4, Reorder
<1> DEFINE x == ad * f
           y == cb * f
           z == ed * b
<1>8. /\ Search!Greater(p, q) <=> x > y
      /\ Search!Greater(q, p) <=> y > x
      /\ Search!Greater(q, r) <=> y > z
      /\ Search!Greater(r, q) <=> z > y
      /\ Search!Greater(p, r) <=> x > z
      /\ Search!Greater(r, p) <=> z > x
  BY <1>4, <1>5, <1>6
<1>9. x \in Nat /\ y \in Nat /\ z \in Nat
  BY <1>7
<1> HIDE DEF x, y, z
<1> QED BY <1>8, <1>9

LEMMA PairsNat == ASSUME NEW t, Len(t) \in Nat, NEW g PROVE Search!Pairs(t, g) \in Nat
<1>1. Len(t) - 1 \in Int
  OBVIOUS
<1>2. IsFiniteSet(1..(Len(t) - 1))
  BY <1>1, FS_Interval
<1> DEFINE S == {i \in 1..(Len(t) - 1) : <<t[i], t[i + 1]>> = g}
<1>3. Cardinality(S) \in Nat
  <2>1. S \in SUBSET (1..(Len(t) - 1))
    OBVIOUS
  <2> HIDE DEF S
  <2> QED BY <1>2, <2>1, FS_Subset, FS_CardinalityType
<1> QED BY <1>3 DEF Search!Pairs, Search!Cardinality, Cardinality

\* The pairs of letters two titles have in common are a number.
LEMMA CommonNat ==
  ASSUME NEW a, Len(a) \in Nat, NEW b, Len(b) \in Nat PROVE Search!Common(a, b) \in Nat
<1> DEFINE W == Search!PairsOf(a)
           Min(x) == IF Search!Pairs(a, x) < Search!Pairs(b, x) THEN Search!Pairs(a, x) ELSE Search!Pairs(b, x)
           One(s) == CHOOSE x \in s : TRUE
           v == [x \in W |-> Min(x)]
           IsFold(g) == g = [s \in SUBSET W |-> IF s = {} THEN 0 ELSE Min(One(s)) + g[s \ {One(s)}]]
<1>1. IsFiniteSet(W)
  <2>1. IsFiniteSet(1..(Len(a) - 1))
    BY FS_Interval
  <2> DEFINE p == [i \in 1..(Len(a) - 1) |-> <<a[i], a[i + 1]>>]
  <2>2. p \in Surjection(1..(Len(a) - 1), W)
    BY DEF Search!PairsOf, Surjection
  <2> HIDE DEF p, W
  <2> QED BY <2>1, <2>2, FS_Surjection
<1>2. v \in [W -> Nat]
  BY PairsNat
<1>3. PICK g : SumsOf(g, W, v)
  BY <1>1, SumsExist
<1>4. IsFold(g)
  <2>1. \A s \in SUBSET W : g[s] = IF s = {} THEN 0 ELSE v[One(s)] + g[s \ {One(s)}]
    BY <1>3, Zenon DEF SumsOf
  <2>2. g = [s \in SUBSET W |-> g[s]]
    BY <1>3 DEF SumsOf
  <2>3. ASSUME NEW s \in SUBSET W PROVE g[s] = IF s = {} THEN 0 ELSE Min(One(s)) + g[s \ {One(s)}]
    <3>1. s # {} => v[One(s)] = Min(One(s))
      <4> HIDE DEF Min, W
      <4> QED OBVIOUS
    <3> HIDE DEF One, v, Min
    <3> QED BY <2>1, <3>1
  <2> HIDE DEF v, Min, W, One
  <2> QED BY <2>2, <2>3
<1> DEFINE h == CHOOSE f : IsFold(f)
<1>5. IsFold(h)
  BY <1>4, Zenon
<1>6. SumsOf(h, W, v)
  <2> HIDE DEF h
  <2>1. \A s \in SUBSET W : h[s] = IF s = {} THEN 0 ELSE Min(One(s)) + h[s \ {One(s)}]
    BY <1>5, Zenon
  <2>2. h = [s \in SUBSET W |-> h[s]]
    BY <1>5
  <2>3. ASSUME NEW s \in SUBSET W PROVE h[s] = IF s = {} THEN 0 ELSE v[One(s)] + h[s \ {One(s)}]
    <3>1. s # {} => v[One(s)] = Min(One(s))
      <4> HIDE DEF Min, W
      <4> QED OBVIOUS
    <3> HIDE DEF One, v, Min
    <3> QED BY <2>1, <3>1
  <2>4. h = [s \in SUBSET W |-> IF s = {} THEN 0 ELSE v[One(s)] + h[s \ {One(s)}]]
    <3> HIDE DEF v, Min, W, One
    <3> QED BY <2>2, <2>3
  <2> QED BY <2>4, Zenon DEF SumsOf
<1>7. Search!Common(a, b) = h[W]
  BY Zenon DEF Search!Common, Search!MapThenFoldSet
<1>8. h[W] \in Nat
  <2> HIDE DEF v, W, h
  <2> QED BY <1>1, <1>2, <1>6, SumsNat
<1> QED BY <1>7, <1>8

LEMMA LikenessIsFraction ==
  ASSUME Search!SearchAssumption, NEW a \in Titles \cup {Keyword}, NEW b \in Titles \cup {Keyword}
  PROVE  Search!Similarity(a, b) \in Fraction
<1>1. a \in Seq(STRING) /\ b \in Seq(STRING) /\ Len(a) \in Nat /\ Len(b) \in Nat
  BY DEF Search!SearchAssumption
<1>2. CASE a = << >> \/ b = << >>
  <2>1. Search!Similarity(a, b) = <<0, 1>>
    BY <1>2 DEF Search!Similarity
  <2> QED BY <2>1 DEF Fraction
<1>3. CASE a # << >> /\ b # << >> /\ a = b
  <2>1. Search!Similarity(a, b) = <<1, 1>>
    BY <1>3 DEF Search!Similarity
  <2> QED BY <2>1 DEF Fraction
<1>4. CASE a # << >> /\ b # << >> /\ a # b
  <2> DEFINE x == 2 * Search!Common(a, b)
             y == IF Len(a) + Len(b) = 2 THEN 1 ELSE Len(a) + Len(b) - 2
  <2>1. Search!Similarity(a, b) = <<x, y>>
    BY <1>4 DEF Search!Similarity
  <2>2. x \in Nat
    BY <1>1, CommonNat
  <2>3. y \in Nat \ {0}
    <3>1. Len(a) > 0 /\ Len(b) > 0
      BY <1>1, <1>4
    <3> QED BY <1>1, <3>1
  <2> HIDE DEF x, y
  <2> QED BY <2>1, <2>2, <2>3 DEF Fraction
<1> QED BY <1>2, <1>3, <1>4

\* The most like first, then the newest, then the first to come, is a strict order.
LEMMA BeforeIsOrder ==
  ASSUME Search!SearchAssumption, NEW n \in Nat, NEW items,
         \A i \in 1..n : items[i].title \in Titles /\ items[i].listed \in Int,
         NEW i \in 1..n, NEW j \in 1..n, NEW k \in 1..n
  PROVE  /\ ~Search!Before(Keyword, items, i, i)
         /\ i # j => Search!Before(Keyword, items, i, j) \/ Search!Before(Keyword, items, j, i)
         /\ Search!Before(Keyword, items, i, j) /\ Search!Before(Keyword, items, j, k) =>
               Search!Before(Keyword, items, i, k)
<1> DEFINE p == Search!Similarity(Keyword, items[i].title)
           q == Search!Similarity(Keyword, items[j].title)
           r == Search!Similarity(Keyword, items[k].title)
           a == items[i].listed
           b == items[j].listed
           c == items[k].listed
<1>1. p \in Fraction /\ q \in Fraction /\ r \in Fraction
  BY LikenessIsFraction
<1>2. a \in Int /\ b \in Int /\ c \in Int /\ i \in Int /\ j \in Int /\ k \in Int
  OBVIOUS
<1>3. /\ Search!Before(Keyword, items, i, i) <=>
           Search!Greater(p, p) \/ (~Search!Greater(p, p) /\ a > a) \/ (~Search!Greater(p, p) /\ a = a /\ i < i)
      /\ Search!Before(Keyword, items, i, j) <=>
           Search!Greater(p, q) \/ (~Search!Greater(q, p) /\ a > b) \/ (~Search!Greater(q, p) /\ a = b /\ i < j)
      /\ Search!Before(Keyword, items, j, i) <=>
           Search!Greater(q, p) \/ (~Search!Greater(p, q) /\ b > a) \/ (~Search!Greater(p, q) /\ b = a /\ j < i)
      /\ Search!Before(Keyword, items, j, k) <=>
           Search!Greater(q, r) \/ (~Search!Greater(r, q) /\ b > c) \/ (~Search!Greater(r, q) /\ b = c /\ j < k)
      /\ Search!Before(Keyword, items, i, k) <=>
           Search!Greater(p, r) \/ (~Search!Greater(r, p) /\ a > c) \/ (~Search!Greater(r, p) /\ a = c /\ i < k)
  BY DEF Search!Before
<1>4. /\ Search!Greater(p, q) => ~Search!Greater(q, p)
      /\ Search!Greater(p, q) /\ ~Search!Greater(r, q) => Search!Greater(p, r)
      /\ ~Search!Greater(q, p) /\ Search!Greater(q, r) => Search!Greater(p, r)
      /\ ~Search!Greater(q, p) /\ ~Search!Greater(r, q) => ~Search!Greater(r, p)
      /\ Search!Greater(p, p) => ~Search!Greater(p, p)
      /\ Search!Greater(q, r) => ~Search!Greater(r, q)
  BY <1>1, GreaterTransitive
<1> HIDE DEF p, q, r, a, b, c
<1> QED BY <1>2, <1>3, <1>4

\* What is collected, and what is kept of it once the crawl is over.
SearchInv ==
  part = "search" =>
    /\ crawl.items \in Seq([title : Titles, listed : 0..1]) /\ crawl.limit \in Limits
    /\ crawl.over \in BOOLEAN
    /\ crawl.over => crawl.kept = Search!SelectTop(Keyword, crawl.items, crawl.limit)

LEMMA SearchInit == ASSUME part = "search" => Search!Init PROVE SearchInv
<1>1. << >> \in Seq([title : Titles, listed : 0..1])
  OBVIOUS
<1>2. ASSUME part = "search"
      PROVE  crawl.items = << >> /\ crawl.limit \in Limits /\ crawl.over = FALSE
  BY <1>2 DEF Search!Init
<1> QED BY <1>1, <1>2 DEF SearchInv

LEMMA SearchNext ==
  ASSUME SearchInv, part' = part, [Search!Next]_searchVars PROVE SearchInv'
<1> SUFFICES ASSUME part = "search" PROVE SearchInv'
  BY DEF SearchInv
<1>1. CASE Search!MakeKeywords \/ UNCHANGED searchVars
  <2>1. UNCHANGED crawl
    BY <1>1 DEF Search!MakeKeywords, searchVars
  <2> QED BY <2>1 DEF SearchInv
<1>2. CASE Search!Collect
  <2>1. PICK t \in Titles, d \in 0..1 :
          crawl' = [crawl EXCEPT !.items = Append(@, [title |-> t, listed |-> d])]
    BY <1>2 DEF Search!Collect
  <2> DEFINE e == [title |-> t, listed |-> d]
  <2>2. e \in [title : Titles, listed : 0..1]
    OBVIOUS
  <2> HIDE DEF e
  <2>3. Append(crawl.items, e) \in Seq([title : Titles, listed : 0..1])
    BY <2>2 DEF SearchInv
  <2> QED BY <1>2, <2>1, <2>3 DEF SearchInv, Search!Collect, e
<1>3. CASE Search!Select
  BY <1>3 DEF SearchInv, Search!Select
<1> QED BY <1>1, <1>2, <1>3 DEF Search!Next

\* The kept are the first of that order.
LEMMA SearchMeans == ASSUME Search!SearchAssumption, SearchInv PROVE BestKept
<1> SUFFICES ASSUME part = "search", crawl.over PROVE Search!BestKept
  BY DEF BestKept, Search!BestKept
<1> DEFINE items == crawl.items
           n == Len(items)
           R == {x \in (1..n) \X (1..n) : Search!Before(Keyword, items, x[1], x[2])}
<1>1. /\ n \in Nat /\ DOMAIN items = 1..n /\ crawl.limit \in Nat
      /\ \A i \in 1..n : items[i].title \in Titles /\ items[i].listed \in Int
      /\ crawl.kept = Search!SelectTop(Keyword, items, crawl.limit)
  <2>1. /\ items \in Seq([title : Titles, listed : 0..1]) /\ crawl.limit \in Nat
        /\ crawl.kept = Search!SelectTop(Keyword, items, crawl.limit)
    BY DEF SearchInv, Search!SearchAssumption
  <2> HIDE DEF items
  <2>2. \A i \in 1..n : items[i] \in [title : Titles, listed : 0..1]
    <3> DEFINE S == [title : Titles, listed : 0..1]
    <3>1. items \in Seq(S)
      BY <2>1
    <3> HIDE DEF S
    <3>2. \A i \in 1..n : items[i] \in S
      BY <3>1
    <3> QED BY <3>2 DEF S
  <2>3. \A i \in 1..n : items[i].title \in Titles /\ items[i].listed \in Int
    BY <2>2
  <2> QED BY <2>1, <2>3
<1> HIDE DEF items, n
<1>2. \A i, j \in 1..n : <<i, j>> \in R <=> Search!Before(Keyword, items, i, j)
  OBVIOUS
<1> HIDE DEF R
<1>3. /\ \A i \in 1..n : <<i, i>> \notin R
      /\ \A i, j \in 1..n : i # j => <<i, j>> \in R \/ <<j, i>> \in R
      /\ \A i, j, k \in 1..n : <<i, j>> \in R /\ <<j, k>> \in R => <<i, k>> \in R
  BY <1>1, <1>2, BeforeIsOrder
<1>4. crawl.kept = {i \in 1..n : Cardinality({j \in 1..n : <<j, i>> \in R}) < crawl.limit}
  <2>1. ASSUME NEW i \in 1..n
        PROVE  {j \in DOMAIN items : Search!Before(Keyword, items, j, i)} = {j \in 1..n : <<j, i>> \in R}
    BY <1>1, <1>2
  <2>2. crawl.kept = {i \in 1..n :
            Cardinality({j \in DOMAIN items : Search!Before(Keyword, items, j, i)}) < crawl.limit}
    BY <1>1 DEF Search!SelectTop, Search!Cardinality, Cardinality
  <2> QED BY <2>1, <2>2
<1>5. /\ \A i \in crawl.kept, j \in (1..n) \ crawl.kept : <<i, j>> \in R
      /\ Cardinality(crawl.kept) = IF n < crawl.limit THEN n ELSE crawl.limit
  BY <1>1, <1>3, <1>4, FirstOfOrder
<1>6. ASSUME NEW i \in crawl.kept, NEW j \in (1..n) \ crawl.kept
      PROVE  ~Search!Greater(Search!Similarity(Keyword, items[j].title), Search!Similarity(Keyword, items[i].title))
  <2>1. i \in 1..n /\ j \in 1..n
    BY <1>4
  <2> DEFINE p == Search!Similarity(Keyword, items[i].title)
             q == Search!Similarity(Keyword, items[j].title)
  <2>2. p \in Fraction /\ q \in Fraction
    BY <1>1, <2>1, LikenessIsFraction
  <2>3. Search!Greater(p, q) \/ ~Search!Greater(q, p)
    BY <1>2, <1>5, <2>1 DEF Search!Before
  <2> HIDE DEF p, q
  <2>4. ~Search!Greater(q, p)
    BY <2>2, <2>3, GreaterTransitive
  <2> QED BY <2>4 DEF p, q
<1> QED BY <1>5, <1>6 DEF Search!BestKept, Search!Cardinality, Cardinality, items, n

-----------------------------------------------------------------------------
(* Folds over sequences *)

\* The greatest of a set of numbers, as a fold from the left chooses it.
Maximum(S) == CHOOSE x \in S : \A y \in S : x >= y

LEMMA MaximumIn ==
  ASSUME NEW n \in Nat, NEW S \in SUBSET (1..n), S # {}
  PROVE  Maximum(S) \in S /\ S \ {Maximum(S)} \in SUBSET (1..n)
<1>1. S \subseteq 0..n
  OBVIOUS
<1>2. PICK x \in S : \A y \in S : y <= x
  BY <1>1, GreatestNumber
<1>3. \E y \in S : \A z \in S : y >= z
  BY <1>2
<1>4. Maximum(S) \in S
  BY <1>3 DEF Maximum
<1> QED BY <1>4

\* A fold over the places of a sequence takes the last one off, and steps with what the fold makes of
\* the others.
FoldOf(g, n, next, base) ==
  \A S \in SUBSET (1..n) : g[S] = IF S = {} THEN base ELSE next[<<Maximum(S), g[S \ {Maximum(S)}]>>]

\* There is such a function: by induction on the number of elements.
LEMMA FoldsExist ==
  ASSUME NEW n \in Nat, NEW D, NEW base \in D, NEW next \in [(1..n) \X D -> D]
  PROVE  \E g \in [SUBSET (1..n) -> D] : FoldOf(g, n, next, base)
<1> DEFINE W == 1..n
           Upto(k) == {S \in SUBSET W : Cardinality(S) <= k}
           Folds(g, k) == \A S \in Upto(k) :
                             g[S] = IF S = {} THEN base ELSE next[<<Maximum(S), g[S \ {Maximum(S)}]>>]
           T == {k \in Nat : \E g \in [Upto(k) -> D] : Folds(g, k)}
<1>0. IsFiniteSet(W) /\ \A S \in SUBSET W : IsFiniteSet(S) /\ Cardinality(S) \in Nat
  <2>1. IsFiniteSet(W)
    BY FS_Interval
  <2> HIDE DEF W
  <2> QED BY <2>1, FS_Subset, FS_CardinalityType
<1>1. 0 \in T
  <2> DEFINE g == [S \in Upto(0) |-> base]
  <2>1. \A S \in Upto(0) : S = {}
    BY <1>0, FS_EmptySet
  <2>2. g \in [Upto(0) -> D] /\ Folds(g, 0)
    BY <2>1
  <2> HIDE DEF g, Folds, Upto
  <2> QED BY <2>2
<1>2. ASSUME NEW k \in T PROVE k + 1 \in T
  <2>1. PICK g \in [Upto(k) -> D] : Folds(g, k)
    OBVIOUS
  <2> DEFINE Step(f, S) == next[<<Maximum(S), f[S \ {Maximum(S)}]>>]
             h == [S \in Upto(k + 1) |-> IF S \in Upto(k) THEN g[S] ELSE Step(g, S)]
  <2>2. {} \in Upto(k) /\ k \in Nat
    BY FS_EmptySet
  <2>3. ASSUME NEW S \in Upto(k + 1), S # {}
        PROVE  /\ Maximum(S) \in W
               /\ S \ {Maximum(S)} \in Upto(k) /\ S \ {Maximum(S)} \in Upto(k + 1)
    <3>1. Maximum(S) \in S /\ S \ {Maximum(S)} \in SUBSET W /\ S \in SUBSET W /\ Cardinality(S) <= k + 1
      BY <2>3, MaximumIn
    <3>2. Cardinality(S) \in Nat /\ Cardinality(S \ {Maximum(S)}) \in Nat
          /\ Cardinality(S) = Cardinality(S \ {Maximum(S)}) + 1
      <4> HIDE DEF W
      <4> QED BY <1>0, <3>1, Without
    <3>3. Cardinality(S \ {Maximum(S)}) <= k
      BY <2>2, <3>1, <3>2
    <3> DEFINE R == S \ {Maximum(S)}
    <3>4. R \in SUBSET W /\ Cardinality(R) \in Nat /\ Cardinality(R) <= k /\ Maximum(S) \in W
      BY <3>1, <3>2, <3>3
    <3> HIDE DEF R, W
    <3>5. R \in Upto(k) /\ R \in Upto(k + 1)
      BY <2>2, <3>4
    <3> QED BY <3>4, <3>5 DEF R
  <2>4. ASSUME NEW S \in Upto(k + 1)
        PROVE  h[S] \in D /\ h[S] = IF S = {} THEN base ELSE Step(h, S)
    <3>1. h[S] = IF S \in Upto(k) THEN g[S] ELSE Step(g, S)
      OBVIOUS
    <3>2. CASE S = {}
      BY <2>1, <2>2, <3>1, <3>2
    <3>3. CASE S # {}
      <4>1. /\ Maximum(S) \in W
            /\ S \ {Maximum(S)} \in Upto(k) /\ S \ {Maximum(S)} \in Upto(k + 1)
        BY <2>3, <3>3
      <4>2. h[S \ {Maximum(S)}] = g[S \ {Maximum(S)}] /\ g[S \ {Maximum(S)}] \in D
        BY <4>1
      <4>3. Step(h, S) = Step(g, S) /\ Step(g, S) \in D
        BY <4>1, <4>2
      <4>4. S \in Upto(k) => g[S] = Step(g, S)
        BY <2>1, <3>3
      <4> HIDE DEF h, Upto, Folds, Step
      <4> QED BY <3>1, <3>3, <4>3, <4>4
    <3> QED BY <3>2, <3>3
  <2>5. h = [S \in Upto(k + 1) |-> h[S]]
    OBVIOUS
  <2> HIDE DEF h
  <2>6. h \in [Upto(k + 1) -> D] /\ Folds(h, k + 1)
    BY <2>4, <2>5
  <2> HIDE DEF Folds, Upto
  <2> QED BY <2>2, <2>6
<1> HIDE DEF T
<1>3. T = Nat
  <2>1. T \subseteq Nat
    BY DEF T
  <2> QED BY <1>1, <1>2, <2>1, Induction
<1>4. Cardinality(W) \in T
  BY <1>0, <1>3
<1>5. PICK g \in [Upto(Cardinality(W)) -> D] : Folds(g, Cardinality(W))
  BY <1>4 DEF T
<1>6. Upto(Cardinality(W)) = SUBSET W
  BY <1>0, FS_Subset
<1> QED BY <1>5, <1>6 DEF FoldOf

\* What steps like that as long as it is in D, stays in D.
StepsIn(h, n, D, next, base) ==
  /\ h[{}] = base
  /\ \A S \in SUBSET (1..n) :
        S # {} /\ h[S \ {Maximum(S)}] \in D => h[S] = next[<<Maximum(S), h[S \ {Maximum(S)}]>>]

LEMMA FoldsStay ==
  ASSUME NEW n \in Nat, NEW D, NEW base \in D, NEW next \in [(1..n) \X D -> D], NEW h,
         StepsIn(h, n, D, next, base)
  PROVE  \A S \in SUBSET (1..n) : h[S] \in D
<1> DEFINE W == 1..n
           T == {S \in SUBSET W : h[S] \in D}
<1>1. IsFiniteSet(W)
  BY FS_Interval
<1>2. {} \in T
  BY DEF StepsIn
<1>3. ASSUME NEW S \in SUBSET W, S # {}, \A x \in S : S \ {x} \in T PROVE S \in T
  <2>1. Maximum(S) \in S /\ Maximum(S) \in W
    BY <1>3, MaximumIn
  <2>2. h[S \ {Maximum(S)}] \in D
    BY <1>3, <2>1
  <2>3. h[S] = next[<<Maximum(S), h[S \ {Maximum(S)}]>>]
    BY <1>3, <2>2 DEF StepsIn
  <2>4. h[S] \in D
    BY <2>1, <2>2, <2>3
  <2> QED BY <2>4
<1>4. T = SUBSET W
  <2>1. T \subseteq SUBSET W
    OBVIOUS
  <2> HIDE DEF T, W
  <2> QED BY <1>1, <1>2, <1>3, <2>1, SetInduction
<1> QED BY <1>4

\* What selects from a sequence, as the fold computes it for the sets of its places.
Selecting(h, s, X) ==
  h = [S \in SUBSET (DOMAIN s) |->
         IF S = {} THEN << >>
         ELSE IF s[Maximum(S)] \in X THEN Append(h[S \ {Maximum(S)}], s[Maximum(S)])
         ELSE h[S \ {Maximum(S)}]]

Selection(s, X) == (CHOOSE h : Selecting(h, s, X))[DOMAIN s]

\* The fold is there, and what it makes of the places is selected.
LEMMA SelectionFolds ==
  ASSUME NEW T, NEW s \in Seq(T), NEW X
  PROVE  /\ Selecting(CHOOSE h : Selecting(h, s, X), s, X)
         /\ \A S \in SUBSET (1..Len(s)) : (CHOOSE h : Selecting(h, s, X))[S] \in Seq(T \cap X)
<1> DEFINE n == Len(s)
           D == Seq(T \cap X)
           next == [x \in (1..n) \X D |-> IF s[x[1]] \in X THEN Append(x[2], s[x[1]]) ELSE x[2]]
           h == CHOOSE f : Selecting(f, s, X)
<1>1. n \in Nat /\ DOMAIN s = 1..n /\ << >> \in D
  OBVIOUS
<1>2. ASSUME NEW i \in 1..n, NEW d \in D
      PROVE  /\ next[<<i, d>>] = IF s[i] \in X THEN Append(d, s[i]) ELSE d
             /\ next[<<i, d>>] \in D
  OBVIOUS
<1>3. next \in [(1..n) \X D -> D]
  <2>1. next = [x \in (1..n) \X D |-> next[x]]
    OBVIOUS
  <2>2. \A x \in (1..n) \X D : x = <<x[1], x[2]>> /\ x[1] \in 1..n /\ x[2] \in D
    OBVIOUS
  <2> HIDE DEF next, D, n
  <2>3. \A x \in (1..n) \X D : next[x] \in D
    BY <1>2, <2>2
  <2> QED BY <2>1, <2>3
<1> HIDE DEF next, D, n
<1>4. PICK g \in [SUBSET (1..n) -> D] : FoldOf(g, n, next, << >>)
  BY <1>1, <1>3, FoldsExist
<1>5. Selecting(g, s, X)
  <2>1. ASSUME NEW S \in SUBSET (1..n)
        PROVE  g[S] = IF S = {} THEN << >>
                      ELSE IF s[Maximum(S)] \in X THEN Append(g[S \ {Maximum(S)}], s[Maximum(S)])
                      ELSE g[S \ {Maximum(S)}]
    <3>1. CASE S = {}
      BY <1>4, <3>1 DEF FoldOf
    <3>2. CASE S # {}
      <4>1. Maximum(S) \in 1..n /\ S \ {Maximum(S)} \in SUBSET (1..n)
        BY <1>1, <3>2, MaximumIn
      <4>2. g[S \ {Maximum(S)}] \in D
        BY <4>1
      <4>3. g[S] = next[<<Maximum(S), g[S \ {Maximum(S)}]>>]
        BY <1>4, <3>2 DEF FoldOf
      <4> QED BY <1>2, <3>2, <4>1, <4>2, <4>3
    <3> QED BY <3>1, <3>2
  <2>2. g = [S \in SUBSET (1..n) |-> g[S]]
    OBVIOUS
  <2> QED BY <1>1, <2>1, <2>2 DEF Selecting
<1>6. Selecting(h, s, X)
  BY <1>5, Zenon
<1> HIDE DEF h
<1>7. \A S \in SUBSET (1..n) : h[S] = IF S = {} THEN << >>
                      ELSE IF s[Maximum(S)] \in X THEN Append(h[S \ {Maximum(S)}], s[Maximum(S)])
                      ELSE h[S \ {Maximum(S)}]
  BY <1>1, <1>6, Zenon DEF Selecting
<1>8. \A S \in SUBSET (1..n) : h[S] \in D
  <2>1. h[{}] = << >>
    BY <1>7
  <2>2. ASSUME NEW S \in SUBSET (1..n), S # {}, h[S \ {Maximum(S)}] \in D
        PROVE  h[S] = next[<<Maximum(S), h[S \ {Maximum(S)}]>>]
    <3>1. Maximum(S) \in 1..n
      BY <1>1, <2>2, MaximumIn
    <3> QED BY <1>2, <1>7, <2>2, <3>1
  <2>3. StepsIn(h, n, D, next, << >>)
    BY <2>1, <2>2 DEF StepsIn
  <2> QED BY <1>1, <1>3, <2>3, FoldsStay
<1> QED BY <1>6, <1>8 DEF h, D, n

\* A selection has the elements of the sequence that are selected, and no others.
LEMMA Selects ==
  ASSUME NEW T, NEW s \in Seq(T), NEW X
  PROVE  /\ Selection(s, X) \in Seq(T \cap X)
         /\ \A i \in 1..Len(s) : s[i] \in X => \E j \in 1..Len(Selection(s, X)) : Selection(s, X)[j] = s[i]
<1> DEFINE n == Len(s)
           W == 1..n
           h == CHOOSE f : Selecting(f, s, X)
           Has(S) == \A i \in S : s[i] \in X => \E j \in 1..Len(h[S]) : h[S][j] = s[i]
           P == {S \in SUBSET W : Has(S)}
<1>1. n \in Nat /\ DOMAIN s = W /\ IsFiniteSet(W)
  BY FS_Interval
<1>2. Selecting(h, s, X) /\ \A S \in SUBSET W : h[S] \in Seq(T \cap X)
  BY SelectionFolds
<1> HIDE DEF h
<1>3. \A S \in SUBSET W : h[S] = IF S = {} THEN << >>
                      ELSE IF s[Maximum(S)] \in X THEN Append(h[S \ {Maximum(S)}], s[Maximum(S)])
                      ELSE h[S \ {Maximum(S)}]
  BY <1>1, <1>2, Zenon DEF Selecting
<1>4. {} \in P
  OBVIOUS
<1>5. ASSUME NEW S \in SUBSET W, S # {}, \A x \in S : S \ {x} \in P PROVE S \in P
  <2> DEFINE m == Maximum(S)
             R == S \ {m}
  <2>1. m \in S /\ m \in W /\ R \in SUBSET W
    BY <1>1, <1>5, MaximumIn
  <2>2. Has(R)
    BY <1>5, <2>1
  <2>3. h[S] = IF s[m] \in X THEN Append(h[R], s[m]) ELSE h[R]
    BY <1>3, <1>5
  <2>4. h[R] \in Seq(T \cap X)
    BY <1>2, <2>1
  <2>5. ASSUME NEW i \in S, s[i] \in X PROVE \E j \in 1..Len(h[S]) : h[S][j] = s[i]
    <3> HIDE DEF m
    <3>1. CASE i = m
      <4>1. h[S] = Append(h[R], s[m]) /\ s[m] \in T \cap X
        BY <2>1, <2>3, <2>5, <3>1
      <4>2. Len(h[S]) = Len(h[R]) + 1 /\ h[S][Len(h[R]) + 1] = s[m] /\ Len(h[R]) \in Nat
        BY <2>4, <4>1
      <4> QED BY <3>1, <4>2
    <3>2. CASE i # m
      <4>1. PICK j \in 1..Len(h[R]) : h[R][j] = s[i]
        BY <2>2, <2>5, <3>2
      <4>2. CASE s[m] \in X
        <5>1. h[S] = Append(h[R], s[m]) /\ s[m] \in T \cap X
          BY <2>1, <2>3, <4>2
        <5>2. Len(h[S]) = Len(h[R]) + 1 /\ h[S][j] = h[R][j] /\ Len(h[R]) \in Nat
          BY <2>4, <4>1, <5>1
        <5> QED BY <4>1, <5>2
      <4>3. CASE s[m] \notin X
        BY <2>3, <4>1, <4>3
      <4> QED BY <4>2, <4>3
    <3> QED BY <3>1, <3>2
  <2> QED BY <2>5
<1> HIDE DEF P, W
<1>6. P = SUBSET W
  <2>1. P \subseteq SUBSET W
    BY DEF P
  <2> QED BY <1>1, <1>4, <1>5, <2>1, SetInduction
<1>7. Has(W) /\ h[W] \in Seq(T \cap X)
  BY <1>2, <1>6 DEF P
<1>8. Selection(s, X) = h[W]
  BY <1>1 DEF Selection, h
<1> QED BY <1>7, <1>8 DEF W

\* That is what the instances select.
LEMMA AdapterWhere == ASSUME NEW s, NEW X PROVE Adapter!Where(s, X) = Selection(s, X)
BY Zenon DEF Adapter!Where, Adapter!FoldLeft, Adapter!MapThenFoldSet, Adapter!Max, Selection, Selecting, Maximum

LEMMA DocumentWhere == ASSUME NEW s, NEW X PROVE Document!Where(s, X) = Selection(s, X)
BY Zenon DEF Document!Where, Document!FoldLeft, Document!MapThenFoldSet, Document!Max, Selection, Selecting, Maximum

-----------------------------------------------------------------------------
(* The documents made of answers *)

\* Keywords that differ in their keys, at most as many as may be.
KeywordLists == {q \in Seq(Words) : /\ Len(q) <= MaxKeywords
                                    /\ \A i, j \in 1..Len(q) : KeyOf(q[i]) = KeyOf(q[j]) => i = j}

\* One word more leaves such a list one.
LEMMA OneKeywordMore ==
  ASSUME Document!AnswerAssumption, NEW q \in KeywordLists, NEW w \in Words
  PROVE  (IF ~IsShort(w) /\ Document!Fresh(q, w) /\ Len(q) < MaxKeywords THEN Append(q, w) ELSE q) \in KeywordLists
<1>1. q \in Seq(Words) /\ Len(q) \in Nat /\ MaxKeywords \in Nat /\ DOMAIN q = 1..Len(q)
      /\ \A i, j \in 1..Len(q) : KeyOf(q[i]) = KeyOf(q[j]) => i = j
  BY DEF KeywordLists, Document!AnswerAssumption
<1>2. CASE Document!Fresh(q, w) /\ Len(q) < MaxKeywords
  <2> DEFINE r == Append(q, w)
  <2>1. /\ r \in Seq(Words) /\ Len(r) = Len(q) + 1 /\ r[Len(q) + 1] = w
        /\ \A i \in 1..Len(q) : r[i] = q[i]
    BY <1>1
  <2> HIDE DEF r
  <2>2. Len(r) <= MaxKeywords
    BY <1>1, <1>2, <2>1
  <2>3. ASSUME NEW i \in 1..Len(r), NEW j \in 1..Len(r), KeyOf(r[i]) = KeyOf(r[j]) PROVE i = j
    <3>1. \A k \in 1..Len(q) : KeyOf(q[k]) # KeyOf(w)
      BY <1>1, <1>2 DEF Document!Fresh
    <3>2. (i \in 1..Len(q) \/ i = Len(q) + 1) /\ (j \in 1..Len(q) \/ j = Len(q) + 1)
      BY <1>1, <2>1
    <3>3. CASE i \in 1..Len(q) /\ j \in 1..Len(q)
      BY <1>1, <2>1, <2>3, <3>3
    <3>4. CASE i \in 1..Len(q) /\ j = Len(q) + 1
      BY <2>1, <2>3, <3>1, <3>4
    <3>5. CASE j \in 1..Len(q) /\ i = Len(q) + 1
      BY <2>1, <2>3, <3>1, <3>5
    <3> QED BY <3>2, <3>3, <3>4, <3>5
  <2>4. r \in KeywordLists
    BY <2>1, <2>2, <2>3 DEF KeywordLists
  <2> QED BY <2>4 DEF r
<1>3. CASE ~(Document!Fresh(q, w) /\ Len(q) < MaxKeywords)
  BY <1>3
<1> QED BY <1>2, <1>3

\* So what sanitizeKeywords keeps of any answer is one.
LEMMA KeywordsDiffer ==
  ASSUME Document!AnswerAssumption, NEW s \in Seq(Words)
  PROVE  Document!KeywordsOf(s) \in KeywordLists
<1> DEFINE n == Len(s)
           D == KeywordLists
           More(d, w) == IF ~IsShort(w) /\ Document!Fresh(d, w) /\ Len(d) < MaxKeywords THEN Append(d, w) ELSE d
           next == [x \in (1..n) \X D |-> More(x[2], s[x[1]])]
           IsFold(f) == f = [S \in SUBSET (DOMAIN s) |->
                               IF S = {} THEN << >> ELSE More(f[S \ {Maximum(S)}], s[Maximum(S)])]
           h == CHOOSE f : IsFold(f)
<1>1. n \in Nat /\ DOMAIN s = 1..n /\ << >> \in D
  BY DEF KeywordLists, Document!AnswerAssumption
<1>2. ASSUME NEW i \in 1..n, NEW d \in D
      PROVE  next[<<i, d>>] = More(d, s[i]) /\ next[<<i, d>>] \in D
  <2>1. s[i] \in Words
    OBVIOUS
  <2>2. More(d, s[i]) \in D
    BY <2>1, OneKeywordMore
  <2> HIDE DEF More, D
  <2> QED BY <2>2
<1> HIDE DEF More
<1>3. next \in [(1..n) \X D -> D]
  <2>1. next = [x \in (1..n) \X D |-> next[x]]
    OBVIOUS
  <2>2. \A x \in (1..n) \X D : x = <<x[1], x[2]>> /\ x[1] \in 1..n /\ x[2] \in D
    OBVIOUS
  <2> HIDE DEF next, D, n
  <2>3. \A x \in (1..n) \X D : next[x] \in D
    BY <1>2, <2>2
  <2> QED BY <2>1, <2>3
<1> HIDE DEF next, D, n
<1>4. PICK g \in [SUBSET (1..n) -> D] : FoldOf(g, n, next, << >>)
  BY <1>1, <1>3, FoldsExist
<1>5. IsFold(g)
  <2>1. ASSUME NEW S \in SUBSET (1..n)
        PROVE  g[S] = IF S = {} THEN << >> ELSE More(g[S \ {Maximum(S)}], s[Maximum(S)])
    <3>1. CASE S = {}
      BY <1>4, <3>1 DEF FoldOf
    <3>2. CASE S # {}
      <4>1. Maximum(S) \in 1..n /\ S \ {Maximum(S)} \in SUBSET (1..n)
        BY <1>1, <3>2, MaximumIn
      <4>2. g[S \ {Maximum(S)}] \in D
        BY <4>1
      <4>3. g[S] = next[<<Maximum(S), g[S \ {Maximum(S)}]>>]
        BY <1>4, <3>2 DEF FoldOf
      <4> QED BY <1>2, <3>2, <4>1, <4>2, <4>3
    <3> QED BY <3>1, <3>2
  <2>2. g = [S \in SUBSET (1..n) |-> g[S]]
    OBVIOUS
  <2> QED BY <1>1, <2>1, <2>2
<1>6. IsFold(h)
  BY <1>5, Zenon
<1> HIDE DEF h
<1>7. \A S \in SUBSET (1..n) :
        h[S] = IF S = {} THEN << >> ELSE More(h[S \ {Maximum(S)}], s[Maximum(S)])
  BY <1>1, <1>6, Zenon
<1>8. \A S \in SUBSET (1..n) : h[S] \in D
  <2>1. h[{}] = << >>
    BY <1>7
  <2>2. ASSUME NEW S \in SUBSET (1..n), S # {}, h[S \ {Maximum(S)}] \in D
        PROVE  h[S] = next[<<Maximum(S), h[S \ {Maximum(S)}]>>]
    <3>1. Maximum(S) \in 1..n
      BY <1>1, <2>2, MaximumIn
    <3> QED BY <1>2, <1>7, <2>2, <3>1
  <2>3. StepsIn(h, n, D, next, << >>)
    BY <2>1, <2>2 DEF StepsIn
  <2> QED BY <1>1, <1>3, <2>3, FoldsStay
<1>9. Document!KeywordsOf(s) = h[DOMAIN s]
  BY Zenon DEF Document!KeywordsOf, Document!FoldLeft, Document!MapThenFoldSet, Document!Max, Maximum, More, h
<1> QED BY <1>1, <1>8, <1>9 DEF D

\* Texts that can be read.
Readable == {"plain", "dash"}

\* The empty text is none of the others.
LEMMA EmptyIsNoText ==
  /\ Document!Empty \notin {"none", "blank", "fenced", "dash", "plain", "usual", "no summary", "pending",
                             "given", "findings", "low", "fair", "check", "high", "very high"}
BY Zenon DEF Document!Empty

\* What is left of a list of texts can be read.
LEMMA PlainItemsRead ==
  ASSUME NEW list \in Seq(Document!Text) PROVE Document!PlainItems(list) \in Seq(Readable)
<1> DEFINE s == [i \in DOMAIN list |-> Document!Plain(list[i])]
           T == Readable \cup {Document!Empty}
<1>1. s \in Seq(T)
  <2>1. \A i \in 1..Len(list) : Document!Plain(list[i]) \in T
    BY DEF Document!Plain, Readable
  <2>2. Len(list) \in Nat /\ DOMAIN list = 1..Len(list)
    OBVIOUS
  <2>3. s \in [1..Len(list) -> T]
    <3> HIDE DEF T
    <3> QED BY <2>1, <2>2
  <2> HIDE DEF s, T
  <2> QED BY <2>2, <2>3
<1>2. Document!PlainItems(list) = Selection(s, Document!Text)
  BY DocumentWhere DEF Document!PlainItems
<1>3. T \cap Document!Text = Readable
  BY EmptyIsNoText DEF Document!Text, Document!Blank, Readable
<1> HIDE DEF s, T
<1> QED BY <1>1, <1>2, <1>3, Selects

\* A list that is shown has something to read, and not too much.
LEMMA KeptComplete ==
  ASSUME Document!AnswerAssumption, NEW list \in Seq(Document!Text)
  PROVE  /\ Document!Kept(list) \in Seq({"plain", "dash", "usual"})
         /\ Len(Document!Kept(list)) \in 1..MaxAdvice
<1> DEFINE items == Document!PlainItems(list)
<1>1. items \in Seq(Readable) /\ MaxAdvice \in Nat /\ MaxAdvice > 0
  BY PlainItemsRead DEF Document!AnswerAssumption
<1>2. CASE items = << >>
  <2>1. Document!Kept(list) = <<"usual">>
    BY <1>2 DEF Document!Kept
  <2> QED BY <1>1, <2>1
<1>3. CASE items # << >>
  <2> DEFINE m == IF Len(items) < MaxAdvice THEN Len(items) ELSE MaxAdvice
             r == SubSeq(items, 1, m)
  <2>1. Document!Kept(list) = r
    BY <1>3 DEF Document!Kept
  <2> HIDE DEF items
  <2>2. m \in 1..Len(items) /\ m <= MaxAdvice /\ Len(items) \in Nat
    BY <1>1, <1>3
  <2> HIDE DEF m
  <2>3. Len(r) = m /\ r \in Seq(Readable)
    BY <1>1, <2>2
  <2>4. r \in Seq({"plain", "dash", "usual"})
    BY <2>3 DEF Readable
  <2> QED BY <2>1, <2>2, <2>3, <2>4
<1> QED BY <1>2, <1>3

\* A sum of natural numbers can be taken in any order.
LEMMA SumsInAnyOrder ==
  ASSUME NEW W, IsFiniteSet(W), NEW v \in [W -> Nat], NEW g, SumsOf(g, W, v)
  PROVE  /\ g[{}] = 0
         /\ \A s \in SUBSET W : g[s] \in Nat /\ \A x \in s : g[s] = v[x] + g[s \ {x}]
<1> DEFINE One(s) == CHOOSE r \in s : TRUE
           N == {s \in SUBSET W : g[s] \in Nat}
           A == {s \in SUBSET W : \A x \in s : g[s] = v[x] + g[s \ {x}]}
<1>1. \A s \in SUBSET W : g[s] = IF s = {} THEN 0 ELSE v[One(s)] + g[s \ {One(s)}]
  BY Zenon DEF SumsOf
<1>2. \A s \in SUBSET W : s # {} => One(s) \in s
  OBVIOUS
<1> HIDE DEF One
<1>3. N = SUBSET W
  <2>1. {} \in N
    BY <1>1
  <2>2. ASSUME NEW s \in SUBSET W, s # {}, \A x \in s : s \ {x} \in N PROVE s \in N
    <3>1. One(s) \in s /\ One(s) \in W
      BY <1>2, <2>2
    <3>2. g[s \ {One(s)}] \in Nat
      BY <2>2, <3>1
    <3>3. g[s] = v[One(s)] + g[s \ {One(s)}] /\ v[One(s)] \in Nat
      BY <1>1, <2>2, <3>1
    <3>4. g[s] \in Nat
      BY <3>2, <3>3
    <3> QED BY <3>4
  <2>3. N \subseteq SUBSET W
    OBVIOUS
  <2> HIDE DEF N
  <2> QED BY <2>1, <2>2, <2>3, SetInduction
<1>4. A = SUBSET W
  <2>1. {} \in A
    OBVIOUS
  <2>2. ASSUME NEW s \in SUBSET W, s # {}, \A x \in s : s \ {x} \in A PROVE s \in A
    <3>1. ASSUME NEW x \in s PROVE g[s] = v[x] + g[s \ {x}]
      <4> DEFINE y == One(s)
      <4>1. y \in s /\ g[s] = v[y] + g[s \ {y}]
        BY <1>1, <1>2, <2>2
      <4> HIDE DEF y
      <4>2. CASE x = y
        BY <4>1, <4>2
      <4>3. CASE x # y
        <5>1. g[s \ {y}] = v[x] + g[(s \ {y}) \ {x}]
          BY <2>2, <4>1, <4>3
        <5>2. g[s \ {x}] = v[y] + g[(s \ {x}) \ {y}]
          BY <2>2, <4>1, <4>3
        <5>3. (s \ {x}) \ {y} = (s \ {y}) \ {x}
          OBVIOUS
        <5>4. v[x] \in Nat /\ v[y] \in Nat /\ g[(s \ {y}) \ {x}] \in Nat
          <6>1. (s \ {y}) \ {x} \in N /\ x \in W /\ y \in W
            BY <1>3, <4>1
          <6> QED BY <6>1
        <5>5. g[s \ {x}] = v[y] + g[(s \ {y}) \ {x}]
          BY <5>2, <5>3, Zenon
        <5> QED BY <4>1, <5>1, <5>4, <5>5, Exchange
      <4> QED BY <4>2, <4>3
    <3> QED BY <3>1
  <2>3. A \subseteq SUBSET W
    OBVIOUS
  <2> HIDE DEF A
  <2> QED BY <2>1, <2>2, <2>3, SetInduction
<1>5. g[{}] = 0
  BY <1>1
<1> QED BY <1>3, <1>4, <1>5

\* The parts of a picture that a model rates.
Parts == {"furnitureLayout", "color", "composition", "texture", "logo", "background", "damage"}

\* Their weights.
LEMMA WeightsOfParts ==
  /\ DOMAIN Document!Weights = Parts /\ IsFiniteSet(Parts)
  /\ Document!Weights["furnitureLayout"] = 35 /\ Document!Weights["color"] = 20
  /\ Document!Weights["composition"] = 15 /\ Document!Weights["texture"] = 15
  /\ Document!Weights["logo"] = 10 /\ Document!Weights["background"] = 5
  /\ Document!Weights["damage"] = 0
<1>1. IsFiniteSet(Parts)
  <2> DEFINE f == <<"furnitureLayout", "color", "composition", "texture", "logo", "background", "damage">>
  <2>1. f \in Surjection(1..7, Parts)
    BY DEF Surjection, Parts
  <2>2. IsFiniteSet(1..7)
    <3>1. 1 \in Int /\ 7 \in Int
      OBVIOUS
    <3> QED BY <3>1, FS_Interval
  <2> HIDE DEF f
  <2> QED BY <2>1, <2>2, FS_Surjection
<1> QED BY <1>1 DEF Document!Weights, Parts

\* The fold over the weights is the sum written out.
LEMMA MeanOfParts ==
  ASSUME NEW rates \in [Parts -> 0..100]
  PROVE  Document!Mean(rates) =
           (35 * rates["furnitureLayout"] + 20 * rates["color"] + 15 * rates["composition"]
            + 15 * rates["texture"] + 10 * rates["logo"] + 5 * rates["background"] + 50) \div 100
<1> DEFINE W == Parts
           v == [p \in DOMAIN Document!Weights |-> Document!Weights[p] * rates[p]]
           h == CHOOSE f : SumsOf(f, DOMAIN v, v)
<1>1. DOMAIN Document!Weights = W /\ IsFiniteSet(W)
  BY WeightsOfParts
<1>2. /\ v["furnitureLayout"] = 35 * rates["furnitureLayout"] /\ v["color"] = 20 * rates["color"]
      /\ v["composition"] = 15 * rates["composition"] /\ v["texture"] = 15 * rates["texture"]
      /\ v["logo"] = 10 * rates["logo"] /\ v["background"] = 5 * rates["background"]
      /\ v["damage"] = 0
  BY WeightsOfParts DEF Parts
<1>3. v \in [W -> Nat]
  <2>1. \A p \in W : rates[p] \in Nat
    OBVIOUS
  <2>2. v = [p \in W |-> v[p]]
    BY <1>1
  <2> HIDE DEF v
  <2>3. /\ rates["furnitureLayout"] \in Nat /\ rates["color"] \in Nat /\ rates["composition"] \in Nat
        /\ rates["texture"] \in Nat /\ rates["logo"] \in Nat /\ rates["background"] \in Nat
    BY <2>1 DEF Parts
  <2>4. /\ v["furnitureLayout"] \in Nat /\ v["color"] \in Nat /\ v["composition"] \in Nat
        /\ v["texture"] \in Nat /\ v["logo"] \in Nat /\ v["background"] \in Nat /\ v["damage"] \in Nat
    BY <1>2, <2>3
  <2>5. \A p \in W : v[p] \in Nat
    BY <2>4 DEF Parts
  <2> QED BY <2>2, <2>5
<1> HIDE DEF v
<1>4. \E g : SumsOf(g, DOMAIN v, v)
  <2>1. DOMAIN v = W
    BY <1>3
  <2> QED BY <1>1, <2>1, SumsExist
<1>5. SumsOf(h, DOMAIN v, v)
  BY <1>4, Zenon
<1> HIDE DEF h
<1>6. /\ h[{}] = 0
      /\ \A s \in SUBSET W : h[s] \in Nat /\ \A x \in s : h[s] = v[x] + h[s \ {x}]
  <2>1. DOMAIN v = W
    BY <1>3
  <2>2. SumsOf(h, W, v)
    BY <1>5, <2>1
  <2> HIDE DEF W
  <2> QED BY <1>1, <1>3, <2>2, SumsInAnyOrder
<1>7. h[W] = 35 * rates["furnitureLayout"] + 20 * rates["color"] + 15 * rates["composition"]
            + 15 * rates["texture"] + 10 * rates["logo"] + 5 * rates["background"]
  <2> DEFINE W1 == {"color", "composition", "texture", "logo", "background", "damage"}
             W2 == {"composition", "texture", "logo", "background", "damage"}
             W3 == {"texture", "logo", "background", "damage"}
             W4 == {"logo", "background", "damage"}
             W5 == {"background", "damage"}
             W6 == {"damage"}
  <2>1. h[W] = v["furnitureLayout"] + h[W1]
    <3>1. W1 = W \ {"furnitureLayout"} /\ "furnitureLayout" \in W
      BY DEF Parts
    <3> QED BY <1>6, <3>1
  <2>2. h[W1] = v["color"] + h[W2]
    <3>1. W2 = W1 \ {"color"} /\ "color" \in W1 /\ W1 \in SUBSET W
      BY DEF Parts
    <3> HIDE DEF W, W1
    <3> QED BY <1>6, <3>1
  <2>3. h[W2] = v["composition"] + h[W3]
    <3>1. W3 = W2 \ {"composition"} /\ "composition" \in W2 /\ W2 \in SUBSET W
      BY DEF Parts
    <3> HIDE DEF W, W2
    <3> QED BY <1>6, <3>1
  <2>4. h[W3] = v["texture"] + h[W4]
    <3>1. W4 = W3 \ {"texture"} /\ "texture" \in W3 /\ W3 \in SUBSET W
      BY DEF Parts
    <3> HIDE DEF W, W3
    <3> QED BY <1>6, <3>1
  <2>5. h[W4] = v["logo"] + h[W5]
    <3>1. W5 = W4 \ {"logo"} /\ "logo" \in W4 /\ W4 \in SUBSET W
      BY DEF Parts
    <3> HIDE DEF W, W4
    <3> QED BY <1>6, <3>1
  <2>6. h[W5] = v["background"] + h[W6]
    <3>1. W6 = W5 \ {"background"} /\ "background" \in W5 /\ W5 \in SUBSET W
      BY DEF Parts
    <3> HIDE DEF W, W5
    <3> QED BY <1>6, <3>1
  <2>7. h[W6] = 0
    <3>1. {} = W6 \ {"damage"} /\ "damage" \in W6 /\ W6 \in SUBSET W
      BY DEF Parts
    <3> HIDE DEF W, W6
    <3>2. h[W6] = v["damage"] + h[{}]
      BY <1>6, <3>1
    <3> QED BY <1>2, <1>6, <3>2
  <2>8. \A p \in W : v[p] \in Nat
    BY <1>3
  <2>9. /\ h[W1] \in Nat /\ h[W2] \in Nat /\ h[W3] \in Nat /\ h[W4] \in Nat /\ h[W5] \in Nat
    <3>1. W1 \in SUBSET W /\ W2 \in SUBSET W /\ W3 \in SUBSET W /\ W4 \in SUBSET W /\ W5 \in SUBSET W
      BY DEF Parts
    <3> HIDE DEF W, W1, W2, W3, W4, W5
    <3> QED BY <1>6, <3>1
  <2> HIDE DEF W, W1, W2, W3, W4, W5, W6
  <2>10. \A p \in Parts : rates[p] \in Int
    OBVIOUS
  <2>11. /\ rates["furnitureLayout"] \in Int /\ rates["color"] \in Int /\ rates["composition"] \in Int
         /\ rates["texture"] \in Int /\ rates["logo"] \in Int /\ rates["background"] \in Int
    BY <2>10 DEF Parts
  <2> QED BY <1>2, <2>1, <2>2, <2>3, <2>4, <2>5, <2>6, <2>7, <2>9, <2>11
<1>8. Document!Mean(rates) = (h[DOMAIN v] + 50) \div 100
  <2>1. Document!SumFunction(v) = h[DOMAIN v]
    BY Zenon DEF Document!SumFunction, Document!SumFunctionOnSet, Document!FoldFunctionOnSet,
                 Document!MapThenFoldSet, SumsOf, h
  <2>2. Document!Mean(rates) = (Document!SumFunction(v) + 50) \div 100
    BY Zenon DEF Document!Mean, v
  <2> QED BY <2>1, <2>2
<1>9. DOMAIN v = W
  BY <1>3
<1> QED BY <1>7, <1>8, <1>9

\* The mean is between two of the parts that have a weight.
LEMMA MeanBetween ==
  ASSUME NEW rates \in [Parts -> 0..100]
  PROVE  /\ Document!Mean(rates) \in 0..100
         /\ \E p \in Parts \ {"damage"} : rates[p] <= Document!Mean(rates)
         /\ \E p \in Parts \ {"damage"} : rates[p] >= Document!Mean(rates)
<1> DEFINE m == Document!Mean(rates)
           a == rates["furnitureLayout"]
           b == rates["color"]
           c == rates["composition"]
           d == rates["texture"]
           e == rates["logo"]
           f == rates["background"]
<1>1. a \in 0..100 /\ b \in 0..100 /\ c \in 0..100 /\ d \in 0..100 /\ e \in 0..100 /\ f \in 0..100
  BY DEF Parts
<1>2. m = (35 * a + 20 * b + 15 * c + 15 * d + 10 * e + 5 * f + 50) \div 100
  BY MeanOfParts
<1> HIDE DEF m, a, b, c, d, e, f
<1>3. /\ m \in 0..100
      /\ a <= m \/ b <= m \/ c <= m \/ d <= m \/ e <= m \/ f <= m
      /\ a >= m \/ b >= m \/ c >= m \/ d >= m \/ e >= m \/ f >= m
  BY <1>1, <1>2
<1> QED BY <1>3 DEF m, a, b, c, d, e, f, Parts

\* A short answer is a sequence.
LEMMA BoundedIsSeq == ASSUME NEW S, NEW n, NEW s \in Document!SeqOf(S, n), n \in Int PROVE s \in Seq(S)
<1>1. PICK m \in 0..n : s \in [1..m -> S]
  BY DEF Document!SeqOf
<1> QED BY <1>1

\* Stars and scores are in their ranges, and every number of stars has a headline.
LEMMA StarsShown ==
  /\ \A n \in Int : Document!Stars(n) \in 1..5 /\ Document!Within(n, 0, 100) \in 0..100
                    /\ Document!Within(Document!Round2(n), 1, 5) \in 1..5
  /\ \A k \in 1..5 : Document!Headline(k) # Document!Empty
<1>1. ASSUME NEW n \in Int
      PROVE  Document!Stars(n) \in 1..5 /\ Document!Within(n, 0, 100) \in 0..100
             /\ Document!Within(Document!Round2(n), 1, 5) \in 1..5
  BY DEF Document!Stars, Document!Within, Document!Round2
<1>2. ASSUME NEW k \in 1..5 PROVE Document!Headline(k) # Document!Empty
  <2>1. k = 1 \/ k = 2 \/ k = 3 \/ k = 4 \/ k = 5
    OBVIOUS
  <2>2. /\ Document!Headline(1) = "low" /\ Document!Headline(2) = "fair" /\ Document!Headline(3) = "check"
        /\ Document!Headline(4) = "high" /\ Document!Headline(5) = "very high"
    BY DEF Document!Headline
  <2> QED BY <2>1, <2>2, EmptyIsNoText
<1> QED BY <1>1, <1>2

\* The document of each kind of answer.
LEMMA KeywordsComplete ==
  ASSUME Document!AnswerAssumption, Document!AskKeywords PROVE Complete'
<1>1. PICK answer \in Document!SeqOf(Words, MaxKeywords + 2) :
        made' = [kind |-> "keywords", words |-> answer, kept |-> Document!KeywordsOf(answer)]
  BY DEF Document!AskKeywords
<1>2. answer \in Seq(Words)
  BY BoundedIsSeq DEF Document!AnswerAssumption
<1> DEFINE q == Document!KeywordsOf(answer)
<1>3. q \in KeywordLists
  BY <1>2, KeywordsDiffer
<1> HIDE DEF q
<1>4. made'.kind = "keywords" /\ made'.kept = q
  BY <1>1 DEF q
<1>5. Len(q) <= MaxKeywords /\ Document!IsInjective([i \in DOMAIN q |-> KeyOf(q[i])])
  BY <1>3 DEF KeywordLists, Document!IsInjective
<1> QED BY <1>4, <1>5 DEF Complete, Document!Complete

LEMMA OcrComplete == ASSUME Document!AskOcr PROVE Complete'
<1>1. PICK text, fields :
        /\ text \in Document!Text
        /\ made' = [kind |-> "ocr", ocr |-> Document!Ocr([text |-> text, fields |-> fields])]
  BY DEF Document!AskOcr
<1>2. Document!Ocr([text |-> text, fields |-> fields]).text # Document!Empty
  BY <1>1, EmptyIsNoText DEF Document!Ocr, Document!Or, Document!Text, Document!Blank
<1>3. made'.kind = "ocr" /\ made'.ocr.text # Document!Empty
  BY <1>1, <1>2
<1> QED BY <1>3 DEF Complete, Document!Complete

LEMMA InvestigationComplete == ASSUME Document!AskInvestigation PROVE Complete'
<1>1. PICK summary, reasons, risk :
        made' = [kind |-> "analysis", risk |-> risk,
                 analysis |-> Document!Investigation([summary |-> summary, reasons |-> reasons, risk |-> risk])]
  BY DEF Document!AskInvestigation
<1> DEFINE a == Document!Investigation([summary |-> summary, reasons |-> reasons, risk |-> risk])
<1>2. a.summary # Document!Empty /\ a.risk \in {"medium", risk}
  BY EmptyIsNoText DEF Document!Investigation, Document!Or, Document!Risk
<1> HIDE DEF a
<1>3. made'.kind = "analysis" /\ made'.analysis = a /\ made'.risk = risk
  BY <1>1 DEF a
<1> QED BY <1>2, <1>3 DEF Complete, Document!Complete

LEMMA RecommendationComplete ==
  ASSUME Document!AnswerAssumption, Document!AskRecommendation PROVE Complete'
<1>1. PICK stars \in {Document!NoNumber, 0, 1, 5, 9, 10, 40}, headline \in Document!Text,
           actions \in Document!Texts(MaxAdvice + 1), reasons \in Document!Texts(1) :
        made' = [kind |-> "recommendation",
                 advice |-> Document!Recommendation([stars |-> stars, headline |-> headline,
                                                     actions |-> actions, reasons |-> reasons])]
  BY DEF Document!AskRecommendation
<1>2. stars \in Int /\ actions \in Seq(Document!Text) /\ reasons \in Seq(Document!Text)
  <2>1. stars \in Int
    BY DEF Document!NoNumber
  <2>2. MaxAdvice + 1 \in Int /\ 1 \in Int
    BY DEF Document!AnswerAssumption
  <2> QED BY <2>1, <2>2, BoundedIsSeq DEF Document!Texts
<1> DEFINE a == Document!Recommendation([stars |-> stars, headline |-> headline,
                                         actions |-> actions, reasons |-> reasons])
<1>3. /\ a.stars = Document!Stars(stars) /\ a.actions = Document!Kept(actions)
      /\ a.reasons = Document!Kept(reasons)
      /\ a.headline = Document!Or(Document!Plain(headline), Document!Headline(a.stars))
  BY DEF Document!Recommendation
<1> HIDE DEF a
<1>4. a.stars \in 1..5 /\ a.headline # Document!Empty
  BY <1>2, <1>3, StarsShown DEF Document!Or
<1>5. /\ Len(a.actions) \in 1..MaxAdvice /\ Len(a.reasons) \in 1..MaxAdvice
      /\ Document!Empty \notin Document!ToSet(a.actions)
  <2>1. /\ Len(a.actions) \in 1..MaxAdvice /\ Len(a.reasons) \in 1..MaxAdvice
        /\ a.actions \in Seq({"plain", "dash", "usual"})
    BY <1>2, <1>3, KeptComplete
  <2>2. \A i \in DOMAIN a.actions : a.actions[i] \in {"plain", "dash", "usual"}
    BY <2>1
  <2> QED BY <2>1, <2>2, EmptyIsNoText DEF Document!ToSet
<1>6. made'.kind = "recommendation" /\ made'.advice = a
  BY <1>1 DEF a
<1> QED BY <1>4, <1>5, <1>6 DEF Complete, Document!Complete

LEMMA ReportOf ==
  ASSUME NEW about, NEW answer,
         answer.stars \in Int, about.stars \in Int, answer.aiScore \in Int, about.aiScore \in Int
  PROVE  LET r == Document!Report(about, answer)
         IN  /\ r.stars \in 0..5 /\ r.aiScore \in 0..100 /\ r.human = about.decided
             /\ r.title # Document!Empty /\ r.headline # Document!Empty
             /\ r.suggested # Document!Empty
             /\ r.summary = Document!Empty =>
                  about.findings # << >> /\ Document!PlainItems(about.findings) = << >>
             /\ r.evidence \in {Document!Titled(answer.evidence), about.evidence}
<1> DEFINE r == Document!Report(about, answer)
           rated == Document!Given(answer.stars, about.stars)
           stars == IF rated = Document!NoNumber THEN 0 ELSE Document!Within(Document!Round2(rated), 1, 5)
           usual == Document!Headline(IF stars = 0 THEN 3 ELSE stars)
           score == Document!Given(answer.aiScore, Document!Given(about.aiScore, 0))
<1>1. r.stars = stars /\ r.human = about.decided
  BY DEF Document!Report, Document!HumanDecision
<1>2. r.aiScore = Document!Within(score, 0, 100)
  BY DEF Document!Report
<1>3. r.evidence = Document!Items(Document!Titled(answer.evidence), about.evidence)
  BY DEF Document!Report
<1>4. /\ r.title = Document!Or(Document!Plain(answer.title), "usual")
      /\ r.summary = Document!Or(Document!Plain(answer.summary),
                                 Document!Or(Document!Plain(about.summary), Document!Findings(about.findings)))
      /\ r.suggested = Document!Or(answer.code, "pending")
  BY DEF Document!Report
<1>5. r.headline = Document!Or(Document!Plain(answer.headline),
                               Document!Or(Document!Plain(about.headline), usual))
  BY DEF Document!Report
<1> HIDE DEF r
<1>6. stars \in 0..5
  <2>1. rated \in Int
    BY DEF Document!Given
  <2> HIDE DEF rated
  <2> QED BY <2>1, StarsShown
<1> HIDE DEF stars
<1>7. usual # Document!Empty
  <2>1. (IF stars = 0 THEN 3 ELSE stars) \in 1..5
    BY <1>6
  <2> QED BY <2>1, StarsShown
<1> HIDE DEF usual
<1>8. Document!Within(score, 0, 100) \in 0..100
  <2>1. score \in Int
    BY DEF Document!Given
  <2> HIDE DEF score
  <2> QED BY <2>1, StarsShown
<1>9. /\ r.title # Document!Empty /\ r.headline # Document!Empty /\ r.suggested # Document!Empty
      /\ r.summary = Document!Empty => Document!Findings(about.findings) = Document!Empty
  BY <1>4, <1>5, <1>7, EmptyIsNoText DEF Document!Or
<1>11. Document!Findings(about.findings) = Document!Empty =>
         about.findings # << >> /\ Document!PlainItems(about.findings) = << >>
  BY EmptyIsNoText DEF Document!Findings
<1>10. r.evidence \in {Document!Titled(answer.evidence), about.evidence}
  BY <1>3 DEF Document!Items
<1> QED BY <1>1, <1>2, <1>6, <1>8, <1>9, <1>10, <1>11 DEF r

LEMMA ReportComplete == ASSUME Document!AskReport PROVE Complete'
<1>1. PICK about \in [decided : {Document!Empty, "excluded"}, stars : {Document!NoNumber, 8},
                  summary : {"none", "plain"}, aiScore : {Document!NoNumber, 95}, headline : {"none", "plain"},
                  findings : {<< >>, <<"fenced">>, <<"blank", "plain">>},
                  evidence : {<< >>, <<"plain">>}, timeline : {<< >>}, actions : {<<"plain">>}],
       answer \in [title : {"none", "fenced"}, summary : {"none", "plain"}, aiScore : {Document!NoNumber, 130},
                   stars : {Document!NoNumber, 1}, headline : {"none", "fenced"}, evidence : Document!Texts(1),
                   timeline : {<<"blank">>}, actions : {<< >>, <<"fenced">>},
                   code : {Document!Empty, "resale_confirmed"}] :
        made' = [kind |-> "report", decided |-> about.decided, findings |-> about.findings,
                 report |-> Document!Report(about, answer)]
  BY DEF Document!AskReport
<1> DEFINE r == Document!Report(about, answer)
           titled == Document!Titled(answer.evidence)
<1>2. /\ about.evidence \in {<< >>, <<"plain">>} /\ answer.evidence \in Document!Texts(1)
      /\ answer.stars \in Int /\ about.stars \in Int /\ answer.aiScore \in Int /\ about.aiScore \in Int
  BY DEF Document!NoNumber
<1> HIDE DEF r, titled
<1>3. /\ r.stars \in 0..5 /\ r.aiScore \in 0..100 /\ r.human = about.decided
      /\ r.title # Document!Empty /\ r.headline # Document!Empty
      /\ r.summary = Document!Empty => about.findings # << >> /\ Document!PlainItems(about.findings) = << >>
      /\ r.suggested # Document!Empty /\ r.evidence \in {titled, about.evidence}
  BY <1>2, ReportOf DEF r, titled
<1>4. Document!ToSet(r.evidence) \cap Document!Blank = {}
  <2>1. titled \in Seq(Document!Text \cap (Document!Text \ Document!Blank))
    <3>1. answer.evidence \in Seq(Document!Text)
      <4>1. 1 \in Int
        OBVIOUS
      <4> QED BY <1>2, <4>1, BoundedIsSeq DEF Document!Texts
    <3> QED BY <3>1, DocumentWhere, Selects DEF titled, Document!Titled
  <2>2. \A i \in DOMAIN titled : titled[i] \notin Document!Blank
    BY <2>1
  <2>3. \A i \in DOMAIN about.evidence : about.evidence[i] \notin Document!Blank
    BY <1>2 DEF Document!Blank
  <2> QED BY <1>3, <2>2, <2>3 DEF Document!ToSet
<1>5. made'.kind = "report" /\ made'.report = r /\ made'.decided = about.decided
      /\ made'.findings = about.findings
  BY <1>1 DEF r
<1> QED BY <1>3, <1>4, <1>5 DEF Complete, Document!Complete

LEMMA ImagesComplete == ASSUME Document!AskImages PROVE Complete'
<1>1. PICK similarity \in {Document!NoNumber, -20, 55, 130},
           rates \in [DOMAIN Document!Weights -> {Document!NoNumber, 40, 130}] :
        made' = [kind |-> "images", said |-> similarity,
                 compared |-> Document!Compared([similarity |-> similarity, scores |-> rates])]
  BY DEF Document!AskImages
<1> DEFINE c == Document!Compared([similarity |-> similarity, scores |-> rates])
<1>2. \A n \in Int : Document!Percent(n) \in 0..100 /\ (n \in 0..100 => Document!Percent(n) = n)
  BY DEF Document!Percent, Document!Within, Document!NoNumber
<1>3. /\ c.scores = [p \in Parts |-> Document!Percent(rates[p])]
      /\ c.similarity = Document!Percent(Document!Given(similarity, Document!Mean(c.scores)))
  BY WeightsOfParts DEF Document!Compared
<1> HIDE DEF c
<1>4. c.scores \in [Parts -> 0..100]
  <2>1. \A p \in Parts : rates[p] \in Int
    BY WeightsOfParts DEF Document!NoNumber
  <2> QED BY <1>2, <1>3, <2>1
<1> DEFINE m == Document!Mean(c.scores)
           parts == {c.scores[p] : p \in DOMAIN Document!Weights \ {"damage"}}
<1>5. /\ m \in 0..100 /\ \E p \in Parts \ {"damage"} : c.scores[p] <= m
      /\ \E p \in Parts \ {"damage"} : c.scores[p] >= m
  BY <1>4, MeanBetween
<1> HIDE DEF m
<1>6. parts \cup {c.similarity} \subseteq 0..100
  <2>1. parts \subseteq 0..100
    BY <1>4, WeightsOfParts
  <2>2. Document!Given(similarity, m) \in Int
    BY <1>5 DEF Document!Given, Document!NoNumber
  <2>3. c.similarity \in 0..100
    BY <1>2, <1>3, <2>2 DEF m
  <2> QED BY <2>1, <2>3
<1>7. CASE similarity = Document!NoNumber
  <2>1. c.similarity = m
    BY <1>2, <1>3, <1>5, <1>7 DEF Document!Given, m
  <2>2. (\E n \in parts : n <= m) /\ (\E n \in parts : n >= m)
    BY <1>5, WeightsOfParts
  <2> QED BY <1>1, <1>6, <1>7, <2>1, <2>2 DEF Complete, Document!Complete, c
<1>8. CASE similarity # Document!NoNumber
  <2>1. similarity \in 0..100 => c.similarity = similarity
    BY <1>2, <1>3, <1>8 DEF Document!Given
  <2> QED BY <1>1, <1>6, <1>8, <2>1 DEF Complete, Document!Complete, c
<1> QED BY <1>7, <1>8

LEMMA DocumentInit == ASSUME Document!Init PROVE Complete
BY DEF Document!Init, Document!NotAsked, Complete, Document!Complete

LEMMA DocumentNext ==
  ASSUME Document!AnswerAssumption, Complete, [Document!Next]_made PROVE Complete'
<1>1. CASE UNCHANGED made
  BY <1>1, ZenonT(120) DEF Complete, Document!Complete
<1> QED BY <1>1, KeywordsComplete, OcrComplete, InvestigationComplete, RecommendationComplete,
           ReportComplete, ImagesComplete DEF Document!Next

-----------------------------------------------------------------------------
(* The crawl of a site *)

\* Sequences without repetition.
Apart(T) == {q \in Seq(T) : \A i, j \in 1..Len(q) : q[i] = q[j] => i = j}

LEMMA OneMoreApart ==
  ASSUME NEW T, NEW q \in Apart(T), NEW x \in T
  PROVE  (IF Adapter!Contains(q, x) THEN q ELSE Append(q, x)) \in Apart(T)
<1>1. q \in Seq(T) /\ Len(q) \in Nat /\ \A i, j \in 1..Len(q) : q[i] = q[j] => i = j
  BY DEF Apart
<1>2. CASE Adapter!Contains(q, x)
  BY <1>2
<1>3. CASE ~Adapter!Contains(q, x)
  <2> DEFINE r == Append(q, x)
  <2>1. r \in Seq(T) /\ Len(r) = Len(q) + 1 /\ r[Len(q) + 1] = x /\ \A i \in 1..Len(q) : r[i] = q[i]
    BY <1>1
  <2>2. \A i \in 1..Len(q) : q[i] # x
    BY <1>3 DEF Adapter!Contains
  <2> HIDE DEF r
  <2>3. ASSUME NEW i \in 1..Len(r), NEW j \in 1..Len(r), r[i] = r[j] PROVE i = j
    <3>1. (i \in 1..Len(q) \/ i = Len(q) + 1) /\ (j \in 1..Len(q) \/ j = Len(q) + 1)
      BY <1>1, <2>1
    <3>2. CASE i \in 1..Len(q) /\ j \in 1..Len(q)
      BY <1>1, <2>1, <2>3, <3>2
    <3>3. CASE i = Len(q) + 1 \/ j = Len(q) + 1
      BY <2>1, <2>2, <2>3, <3>1, <3>3
    <3> QED BY <3>1, <3>2, <3>3
  <2>4. r \in Apart(T)
    BY <2>1, <2>3 DEF Apart
  <2> QED BY <1>3, <2>4 DEF r
<1> QED BY <1>2, <1>3

\* What a Set keeps of an array is one.
LEMMA OnceIsApart == ASSUME NEW T, NEW s \in Seq(T) PROVE Adapter!Once(s) \in Apart(T)
<1> DEFINE n == Len(s)
           D == Apart(T)
           More(d, x) == IF Adapter!Contains(d, x) THEN d ELSE Append(d, x)
           next == [x \in (1..n) \X D |-> More(x[2], s[x[1]])]
           IsFold(f) == f = [S \in SUBSET (DOMAIN s) |->
                               IF S = {} THEN << >> ELSE More(f[S \ {Maximum(S)}], s[Maximum(S)])]
           h == CHOOSE f : IsFold(f)
<1>1. n \in Nat /\ DOMAIN s = 1..n /\ << >> \in D
  BY DEF Apart
<1>2. ASSUME NEW i \in 1..n, NEW d \in D
      PROVE  next[<<i, d>>] = More(d, s[i]) /\ next[<<i, d>>] \in D
  <2>1. s[i] \in T
    OBVIOUS
  <2>2. More(d, s[i]) \in D
    BY <2>1, OneMoreApart
  <2> HIDE DEF More, D
  <2> QED BY <2>2
<1> HIDE DEF More
<1>3. next \in [(1..n) \X D -> D]
  <2>1. next = [x \in (1..n) \X D |-> next[x]]
    OBVIOUS
  <2>2. \A x \in (1..n) \X D : x = <<x[1], x[2]>> /\ x[1] \in 1..n /\ x[2] \in D
    OBVIOUS
  <2> HIDE DEF next, D, n
  <2>3. \A x \in (1..n) \X D : next[x] \in D
    BY <1>2, <2>2
  <2> QED BY <2>1, <2>3
<1> HIDE DEF next, D, n
<1>4. PICK g \in [SUBSET (1..n) -> D] : FoldOf(g, n, next, << >>)
  BY <1>1, <1>3, FoldsExist
<1>5. IsFold(g)
  <2>1. ASSUME NEW S \in SUBSET (1..n)
        PROVE  g[S] = IF S = {} THEN << >> ELSE More(g[S \ {Maximum(S)}], s[Maximum(S)])
    <3>1. CASE S = {}
      BY <1>4, <3>1 DEF FoldOf
    <3>2. CASE S # {}
      <4>1. Maximum(S) \in 1..n /\ S \ {Maximum(S)} \in SUBSET (1..n)
        BY <1>1, <3>2, MaximumIn
      <4>2. g[S \ {Maximum(S)}] \in D
        BY <4>1
      <4>3. g[S] = next[<<Maximum(S), g[S \ {Maximum(S)}]>>]
        BY <1>4, <3>2 DEF FoldOf
      <4> QED BY <1>2, <3>2, <4>1, <4>2, <4>3
    <3> QED BY <3>1, <3>2
  <2>2. g = [S \in SUBSET (1..n) |-> g[S]]
    OBVIOUS
  <2> QED BY <1>1, <2>1, <2>2
<1>6. IsFold(h)
  BY <1>5, Zenon
<1> HIDE DEF h
<1>7. \A S \in SUBSET (1..n) :
        h[S] = IF S = {} THEN << >> ELSE More(h[S \ {Maximum(S)}], s[Maximum(S)])
  BY <1>1, <1>6, Zenon
<1>8. \A S \in SUBSET (1..n) : h[S] \in D
  <2>1. h[{}] = << >>
    BY <1>7
  <2>2. ASSUME NEW S \in SUBSET (1..n), S # {}, h[S \ {Maximum(S)}] \in D
        PROVE  h[S] = next[<<Maximum(S), h[S \ {Maximum(S)}]>>]
    <3>1. Maximum(S) \in 1..n
      BY <1>1, <2>2, MaximumIn
    <3> QED BY <1>2, <1>7, <2>2, <3>1
  <2>3. StepsIn(h, n, D, next, << >>)
    BY <2>1, <2>2 DEF StepsIn
  <2> QED BY <1>1, <1>3, <2>3, FoldsStay
<1>9. Adapter!Once(s) = h[DOMAIN s]
  BY Zenon DEF Adapter!Once, Adapter!FoldLeft, Adapter!MapThenFoldSet, Adapter!Max, Maximum, More, h
<1> QED BY <1>1, <1>8, <1>9 DEF D

\* Arrays of an array, one after the other.
LEMMA JoinedSeq == ASSUME NEW T, NEW s \in Seq(Seq(T)) PROVE Adapter!Joined(s) \in Seq(T)
<1> DEFINE n == Len(s)
           D == Seq(T)
           next == [x \in (1..n) \X D |-> x[2] \o s[x[1]]]
           IsFold(f) == f = [S \in SUBSET (DOMAIN s) |->
                               IF S = {} THEN << >> ELSE f[S \ {Maximum(S)}] \o s[Maximum(S)]]
           h == CHOOSE f : IsFold(f)
<1>1. n \in Nat /\ DOMAIN s = 1..n /\ << >> \in D
  OBVIOUS
<1>2. ASSUME NEW i \in 1..n, NEW d \in D
      PROVE  next[<<i, d>>] = d \o s[i] /\ next[<<i, d>>] \in D
  <2>1. s[i] \in D
    OBVIOUS
  <2>2. d \o s[i] \in D
    BY <2>1
  <2>3. next[<<i, d>>] = d \o s[i]
    OBVIOUS
  <2> QED BY <2>2, <2>3
<1>3. next \in [(1..n) \X D -> D]
  <2>1. next = [x \in (1..n) \X D |-> next[x]]
    OBVIOUS
  <2>2. \A x \in (1..n) \X D : x = <<x[1], x[2]>> /\ x[1] \in 1..n /\ x[2] \in D
    OBVIOUS
  <2> HIDE DEF next, D, n
  <2>3. \A x \in (1..n) \X D : next[x] \in D
    BY <1>2, <2>2
  <2> QED BY <2>1, <2>3
<1> HIDE DEF next, D, n
<1>4. PICK g \in [SUBSET (1..n) -> D] : FoldOf(g, n, next, << >>)
  BY <1>1, <1>3, FoldsExist
<1>5. IsFold(g)
  <2>1. ASSUME NEW S \in SUBSET (1..n)
        PROVE  g[S] = IF S = {} THEN << >> ELSE g[S \ {Maximum(S)}] \o s[Maximum(S)]
    <3>1. CASE S = {}
      BY <1>4, <3>1 DEF FoldOf
    <3>2. CASE S # {}
      <4>1. Maximum(S) \in 1..n /\ S \ {Maximum(S)} \in SUBSET (1..n)
        BY <1>1, <3>2, MaximumIn
      <4>2. g[S \ {Maximum(S)}] \in D
        BY <4>1
      <4>3. g[S] = next[<<Maximum(S), g[S \ {Maximum(S)}]>>]
        BY <1>4, <3>2 DEF FoldOf
      <4> QED BY <1>2, <3>2, <4>1, <4>2, <4>3
    <3> QED BY <3>1, <3>2
  <2>2. g = [S \in SUBSET (1..n) |-> g[S]]
    OBVIOUS
  <2> QED BY <1>1, <2>1, <2>2
<1>6. IsFold(h)
  BY <1>5, Zenon
<1> HIDE DEF h
<1>7. \A S \in SUBSET (1..n) : h[S] = IF S = {} THEN << >> ELSE h[S \ {Maximum(S)}] \o s[Maximum(S)]
  BY <1>1, <1>6, Zenon
<1>8. \A S \in SUBSET (1..n) : h[S] \in D
  <2>1. h[{}] = << >>
    BY <1>7
  <2>2. ASSUME NEW S \in SUBSET (1..n), S # {}, h[S \ {Maximum(S)}] \in D
        PROVE  h[S] = next[<<Maximum(S), h[S \ {Maximum(S)}]>>]
    <3>1. Maximum(S) \in 1..n
      BY <1>1, <2>2, MaximumIn
    <3> QED BY <1>2, <1>7, <2>2, <3>1
  <2>3. StepsIn(h, n, D, next, << >>)
    BY <2>1, <2>2 DEF StepsIn
  <2> QED BY <1>1, <1>3, <2>3, FoldsStay
<1>9. Adapter!Joined(s) = h[DOMAIN s]
  BY Zenon DEF Adapter!Joined, Adapter!FoldLeft, Adapter!MapThenFoldSet, Adapter!Max, Maximum, h
<1> QED BY <1>1, <1>8, <1>9 DEF D

\* The set of the elements of a sequence.
LEMMA SetOf ==
  ASSUME NEW T, NEW s \in Seq(T)
  PROVE  /\ Adapter!ToSet(s) = {s[i] : i \in 1..Len(s)} /\ Adapter!ToSet(s) \in SUBSET T
         /\ IsFiniteSet(Adapter!ToSet(s))
<1> DEFINE W == 1..Len(s)
           S == {s[i] : i \in W}
           f == [i \in W |-> s[i]]
<1>1. Adapter!ToSet(s) = S /\ S \in SUBSET T
  BY DEF Adapter!ToSet
<1>2. IsFiniteSet(W)
  <2>1. Len(s) \in Int /\ 1 \in Int
    OBVIOUS
  <2> QED BY <2>1, FS_Interval
<1>3. f \in Surjection(W, S)
  BY DEF Surjection
<1>4. IsFiniteSet(S)
  <2> HIDE DEF f, W, S
  <2> QED BY <1>2, <1>3, FS_Surjection
<1> QED BY <1>1, <1>4

\* The first of a sequence.
LEMMA FirstOf ==
  ASSUME NEW T, NEW s \in Seq(T), NEW n \in Nat
  PROVE  /\ Adapter!First(n, s) \in Seq(T)
         /\ Len(Adapter!First(n, s)) = IF n < Len(s) THEN n ELSE Len(s)
         /\ \A i \in 1..Len(Adapter!First(n, s)) : i \in 1..Len(s) /\ Adapter!First(n, s)[i] = s[i]
<1> DEFINE m == IF n < Len(s) THEN n ELSE Len(s)
<1>1. m \in Nat /\ m <= Len(s) /\ Len(s) \in Nat
  OBVIOUS
<1>2. Adapter!First(n, s) = SubSeq(s, 1, m)
  BY DEF Adapter!First
<1> HIDE DEF m
<1>3. /\ SubSeq(s, 1, m) \in Seq(T) /\ Len(SubSeq(s, 1, m)) = m
      /\ \A i \in 1..m : SubSeq(s, 1, m)[i] = s[i]
  BY <1>1
<1> QED BY <1>1, <1>2, <1>3 DEF m

\* The regions that are crawled are among the presets.
LEMMA ResolvedSeq ==
  ASSUME Adapter!AdapterAssumption, NEW cs \in Regions
  PROVE  Adapter!Resolved(cs) \in Seq(Adapter!ToSet(Presets))
<1>1. Presets \in Seq(STRING) /\ cs \in Seq(STRING)
  BY DEF Adapter!AdapterAssumption
<1> DEFINE P == Adapter!ToSet(Presets)
<1>2. Presets \in Seq(P)
  BY <1>1, SetOf
<1>3. Adapter!Where(cs, P) \in Seq(P)
  <2>1. Selection(cs, P) \in Seq(STRING \cap P)
    BY <1>1, Selects
  <2>2. STRING \cap P \subseteq P
    OBVIOUS
  <2> HIDE DEF P
  <2> QED BY <2>1, <2>2, AdapterWhere
<1> HIDE DEF P
<1>4. Adapter!Once(Adapter!Where(cs, P)) \in Seq(P)
  BY <1>3, OnceIsApart DEF Apart
<1> QED BY <1>2, <1>4, Zenon DEF Adapter!Resolved, P

\* The places of a region.
LEMMA PlacesSeq ==
  ASSUME Adapter!AdapterAssumption, NEW p \in Adapter!ToSet(Presets), NEW e
  PROVE  Adapter!PlacesOf(p, e) \in Seq(STRING)
<1>1. Places(p) \in Seq(STRING) /\ Whole(p) \in STRING /\ MaxPlaces \in Nat /\ MaxRural \in Nat
  BY DEF Adapter!AdapterAssumption
<1> DEFINE R == {x \in Adapter!ToSet(Places(p)) : IsRural(x)}
           rural == Adapter!Where(Places(p), R)
<1>2. rural \in Seq(STRING)
  <2>1. Selection(Places(p), R) \in Seq(STRING \cap R)
    BY <1>1, Selects
  <2>2. STRING \cap R \subseteq STRING
    OBVIOUS
  <2> HIDE DEF R
  <2> QED BY <2>1, <2>2, AdapterWhere
<1>3. Adapter!First(MaxPlaces, Places(p)) \in Seq(STRING)
  BY <1>1, FirstOf
<1> DEFINE dense == IF Len(rural) >= Enough THEN rural ELSE Adapter!First(MaxPlaces, Places(p))
           few == Adapter!First(MaxRural, rural)
<1>4. few \in Seq(STRING) /\ dense \in Seq(STRING)
  BY <1>1, <1>2, <1>3, FirstOf
<1>5. Adapter!PlacesOf(p, e) = IF e THEN <<Whole(p)>> \o few
                               ELSE IF dense # << >> THEN dense ELSE <<Whole(p)>>
  BY Zenon DEF Adapter!PlacesOf
<1> HIDE DEF few, dense
<1>6. <<Whole(p)>> \in Seq(STRING)
  BY <1>1
<1>7. <<Whole(p)>> \o few \in Seq(STRING)
  BY <1>4, <1>6
<1> QED BY <1>4, <1>5, <1>6, <1>7, Zenon

\* The places a crawl asks are strings, each of them once.
LEMMA PlacesApart ==
  ASSUME Adapter!AdapterAssumption, NEW cs \in Regions
  PROVE  Adapter!KarrotIns(cs) \in Apart(STRING)
<1> DEFINE P == Adapter!ToSet(Presets)
           r == Adapter!Resolved(cs)
           e == Adapter!Nationwide(cs)
           each == [i \in DOMAIN r |-> Adapter!PlacesOf(r[i], e)]
<1>1. r \in Seq(P)
  BY ResolvedSeq
<1>2. each \in Seq(Seq(STRING))
  <2>1. DOMAIN r = 1..Len(r) /\ Len(r) \in Nat /\ \A i \in 1..Len(r) : r[i] \in P
    <3> HIDE DEF r, P
    <3> QED BY <1>1
  <2> HIDE DEF r, P, e
  <2>2. \A i \in 1..Len(r) : Adapter!PlacesOf(r[i], e) \in Seq(STRING)
    BY <2>1, PlacesSeq DEF P
  <2>3. each \in [1..Len(r) -> Seq(STRING)]
    BY <2>1, <2>2
  <2> QED BY <2>1, <2>3
<1>3. Adapter!KarrotIns(cs) = Adapter!Once(Adapter!Joined(each))
  BY Zenon DEF Adapter!KarrotIns
<1> HIDE DEF each
<1>4. Adapter!Joined(each) \in Seq(STRING)
  BY <1>2, JoinedSeq
<1> QED BY <1>3, <1>4, OnceIsApart

\* The listings that can be sold on: they have a url and a title of their own.
Sold == {l \in Listings : Usable(l)}

\* normalize leaves only those.
LEMMA NormalizedSeq ==
  ASSUME NEW items \in Seq(Listings) PROVE Adapter!Normalized(items) \in Seq(Sold)
<1>1. Selection(items, Sold) \in Seq(Listings \cap Sold)
  BY Selects
<1>2. Listings \cap Sold = Sold
  BY DEF Sold
<1> QED BY <1>1, <1>2, AdapterWhere DEF Adapter!Normalized, Sold

\* What a walk over the places has gathered: only what was answered.
WalkType == [at : Nat \ {0}, width : {1, 2}, streak : Nat, blocked : BOOLEAN, answered : BOOLEAN,
             aborted : BOOLEAN, merged : SUBSET Sold]

Gathered(w) == w \in WalkType /\ IsFiniteSet(w.merged) /\ (w.merged # {} => w.answered)

\* One result more.
LEMMA TookGathers ==
  ASSUME Adapter!AdapterAssumption, NEW w, Gathered(w), NEW o \in Adapter!Outcomes
  PROVE  /\ Gathered(Adapter!Took(w, o))
         /\ Adapter!Took(w, o).at = w.at /\ Adapter!Took(w, o).width = w.width
         /\ Adapter!Took(w, o).aborted = w.aborted
<1>1. w \in WalkType /\ IsFiniteSet(w.merged) /\ (w.merged # {} => w.answered)
  BY DEF Gathered
<1>2. /\ o.kind \in {"refused", "error", "page"}
      /\ o.kind = "page" => o.embedded \in Seq(Listings) /\ o.linked \in Seq(Listings)
  <2>1. Found \subseteq Seq(Listings) /\ << >> \in Seq(Listings)
    BY DEF Adapter!AdapterAssumption
  <2>2. CASE o \in {[kind |-> k, embedded |-> << >>, linked |-> << >>] : k \in {"refused", "error"}}
    BY <2>1, <2>2
  <2>3. CASE o \in [kind : {"page"}, embedded : Found, linked : {<< >>}]
    BY <2>1, <2>3
  <2>4. CASE o \in [kind : {"page"}, embedded : {<< >>}, linked : Found]
    BY <2>1, <2>4
  <2> QED BY <2>2, <2>3, <2>4 DEF Adapter!Outcomes
<1>3. CASE o.kind = "refused"
  <2>1. Adapter!Took(w, o) = [w EXCEPT !.streak = w.streak + 1, !.blocked = TRUE]
    BY <1>3 DEF Adapter!Took
  <2>2. w \in WalkType /\ w.streak + 1 \in Nat
    BY <1>1 DEF WalkType
  <2>3. Adapter!Took(w, o) \in WalkType
    BY <2>1, <2>2 DEF WalkType
  <2>4. /\ Adapter!Took(w, o).merged = w.merged /\ Adapter!Took(w, o).answered = w.answered
        /\ Adapter!Took(w, o).at = w.at /\ Adapter!Took(w, o).width = w.width
        /\ Adapter!Took(w, o).aborted = w.aborted
    BY <2>1, <2>2 DEF WalkType
  <2> QED BY <1>1, <2>3, <2>4 DEF Gathered
<1>4. CASE o.kind = "error"
  <2>1. Adapter!Took(w, o) = [w EXCEPT !.streak = 0]
    BY <1>4 DEF Adapter!Took
  <2> QED BY <1>1, <2>1 DEF Gathered, WalkType
<1>5. CASE o.kind = "page"
  <2> DEFINE S == Adapter!ToSet(Adapter!Parsed(o))
             M == w.merged \cup S
  <2>1. Adapter!Took(w, o) = [w EXCEPT !.streak = 0, !.answered = TRUE, !.merged = M]
    BY <1>5 DEF Adapter!Took
  <2>2. Adapter!Parsed(o) \in Seq(Sold)
    BY <1>2, <1>5, NormalizedSeq DEF Adapter!Parsed
  <2>3. S \in SUBSET Sold /\ IsFiniteSet(S)
    BY <2>2, SetOf
  <2> HIDE DEF S
  <2>4. M \in SUBSET Sold /\ IsFiniteSet(M)
    <3>1. w.merged \in SUBSET Sold
      BY <1>1 DEF WalkType
    <3> QED BY <1>1, <2>3, <3>1, FS_Union
  <2> HIDE DEF M
  <2>5. Adapter!Took(w, o) \in WalkType
    <3> DEFINE Two == SUBSET Sold
    <3>1. w \in [at : Nat \ {0}, width : {1, 2}, streak : Nat, blocked : BOOLEAN, answered : BOOLEAN,
                 aborted : BOOLEAN, merged : Two]
      BY <1>1 DEF WalkType
    <3>2. M \in Two /\ TRUE \in BOOLEAN /\ 0 \in Nat
      BY <2>4
    <3> HIDE DEF Two
    <3>3. Adapter!Took(w, o) \in [at : Nat \ {0}, width : {1, 2}, streak : Nat, blocked : BOOLEAN,
                                 answered : BOOLEAN, aborted : BOOLEAN, merged : Two]
      BY <2>1, <3>1, <3>2
    <3> QED BY <3>3 DEF WalkType, Two
  <2>6. /\ Adapter!Took(w, o).merged = M /\ Adapter!Took(w, o).answered
        /\ Adapter!Took(w, o).at = w.at /\ Adapter!Took(w, o).width = w.width
        /\ Adapter!Took(w, o).aborted = w.aborted
    BY <1>1, <2>1 DEF WalkType
  <2> QED BY <2>4, <2>5, <2>6 DEF Gathered
<1> QED BY <1>2, <1>3, <1>4, <1>5

\* However the requests of a batch end, the walk is where it was and has gathered only answers.
LEMMA BatchGathers ==
  ASSUME Adapter!AdapterAssumption, NEW w, Gathered(w), NEW n \in Nat,
         NEW o \in [1..n -> Adapter!Outcomes]
  PROVE  LET v == Adapter!FoldLeft(Adapter!Took, w, o)
         IN  Gathered(v) /\ v.at = w.at /\ v.width = w.width /\ v.aborted = w.aborted
<1> DEFINE D == {v \in WalkType : Gathered(v) /\ v.at = w.at /\ v.width = w.width /\ v.aborted = w.aborted}
           next == [x \in (1..n) \X D |-> Adapter!Took(x[2], o[x[1]])]
           IsFold(f) == f = [S \in SUBSET (DOMAIN o) |->
                               IF S = {} THEN w ELSE Adapter!Took(f[S \ {Maximum(S)}], o[Maximum(S)])]
           h == CHOOSE f : IsFold(f)
<1>1. DOMAIN o = 1..n /\ w \in D
  BY DEF Gathered
<1>2. ASSUME NEW i \in 1..n, NEW d \in D
      PROVE  next[<<i, d>>] = Adapter!Took(d, o[i]) /\ next[<<i, d>>] \in D
  <2>1. o[i] \in Adapter!Outcomes /\ Gathered(d) /\ d.at = w.at /\ d.width = w.width
        /\ d.aborted = w.aborted
    OBVIOUS
  <2> DEFINE t == Adapter!Took(d, o[i])
  <2>2. Gathered(t) /\ t.at = d.at /\ t.width = d.width /\ t.aborted = d.aborted
    BY <2>1, TookGathers
  <2>3. t \in WalkType
    BY <2>2 DEF Gathered
  <2>4. next[<<i, d>>] = t
    OBVIOUS
  <2> HIDE DEF t, next
  <2> QED BY <2>1, <2>2, <2>3, <2>4 DEF t
<1>3. next \in [(1..n) \X D -> D]
  <2>1. next = [x \in (1..n) \X D |-> next[x]]
    OBVIOUS
  <2>2. \A x \in (1..n) \X D : x = <<x[1], x[2]>> /\ x[1] \in 1..n /\ x[2] \in D
    OBVIOUS
  <2> HIDE DEF next, D
  <2>3. \A x \in (1..n) \X D : next[x] \in D
    BY <1>2, <2>2
  <2> QED BY <2>1, <2>3
<1> HIDE DEF next, D
<1>4. PICK g \in [SUBSET (1..n) -> D] : FoldOf(g, n, next, w)
  BY <1>1, <1>3, FoldsExist
<1>5. IsFold(g)
  <2>1. ASSUME NEW S \in SUBSET (1..n)
        PROVE  g[S] = IF S = {} THEN w ELSE Adapter!Took(g[S \ {Maximum(S)}], o[Maximum(S)])
    <3>1. CASE S = {}
      BY <1>4, <3>1 DEF FoldOf
    <3>2. CASE S # {}
      <4>1. Maximum(S) \in 1..n /\ S \ {Maximum(S)} \in SUBSET (1..n)
        BY <1>1, <3>2, MaximumIn
      <4>2. g[S \ {Maximum(S)}] \in D
        BY <4>1
      <4>3. g[S] = next[<<Maximum(S), g[S \ {Maximum(S)}]>>]
        BY <1>4, <3>2 DEF FoldOf
      <4> QED BY <1>2, <3>2, <4>1, <4>2, <4>3
    <3> QED BY <3>1, <3>2
  <2>2. g = [S \in SUBSET (1..n) |-> g[S]]
    OBVIOUS
  <2> QED BY <1>1, <2>1, <2>2
<1>6. IsFold(h)
  BY <1>5, Zenon
<1> HIDE DEF h
<1>7. \A S \in SUBSET (1..n) :
        h[S] = IF S = {} THEN w ELSE Adapter!Took(h[S \ {Maximum(S)}], o[Maximum(S)])
  BY <1>1, <1>6, Zenon
<1>8. \A S \in SUBSET (1..n) : h[S] \in D
  <2>1. h[{}] = w
    BY <1>7
  <2>2. ASSUME NEW S \in SUBSET (1..n), S # {}, h[S \ {Maximum(S)}] \in D
        PROVE  h[S] = next[<<Maximum(S), h[S \ {Maximum(S)}]>>]
    <3>1. Maximum(S) \in 1..n
      BY <1>1, <2>2, MaximumIn
    <3> QED BY <1>2, <1>7, <2>2, <3>1
  <2>3. StepsIn(h, n, D, next, w)
    BY <2>1, <2>2 DEF StepsIn
  <2> QED BY <1>1, <1>3, <2>3, FoldsStay
<1>9. Adapter!FoldLeft(Adapter!Took, w, o) = h[DOMAIN o]
  BY Zenon DEF Adapter!FoldLeft, Adapter!MapThenFoldSet, Adapter!Max, Maximum, h
<1> QED BY <1>1, <1>8, <1>9 DEF D

\* The batch that is asked next.
Batch(n, s, at) == Adapter!First(n, SubSeq(s, at, Len(s)))

\* A batch asks the next places of the list, as many as the loop is wide.
LEMMA BatchOf ==
  ASSUME NEW T, NEW s \in Seq(T), NEW at \in Nat \ {0}, at <= Len(s), NEW n \in {1, 2}
  PROVE  /\ Batch(n, s, at) \in Seq(T)
         /\ Len(Batch(n, s, at)) = (IF at + n <= Len(s) + 1 THEN n ELSE 1)
         /\ \A j \in 1..Len(Batch(n, s, at)) : Batch(n, s, at)[j] = s[at + j - 1]
<1> DEFINE r == SubSeq(s, at, Len(s))
           b == Adapter!First(n, r)
<1>1. Len(s) \in Nat /\ at \in 1..Len(s)
  OBVIOUS
<1>2. r \in Seq(T) /\ Len(r) = Len(s) - at + 1 /\ \A j \in 1..Len(r) : r[j] = s[at + j - 1]
  BY <1>1
<1> HIDE DEF r
<1>3. /\ b \in Seq(T) /\ Len(b) = IF n < Len(r) THEN n ELSE Len(r)
      /\ \A j \in 1..Len(b) : j \in 1..Len(r) /\ b[j] = r[j]
  BY <1>2, FirstOf
<1> HIDE DEF b
<1>4. Len(b) = (IF at + n <= Len(s) + 1 THEN n ELSE 1)
  BY <1>1, <1>2, <1>3
<1>5. \A j \in 1..Len(b) : b[j] = s[at + j - 1]
  BY <1>2, <1>3
<1>6. Batch(n, s, at) = b
  BY DEF Batch, b, r
<1> QED BY <1>3, <1>4, <1>5, <1>6

\* Since no place is on the list twice, a batch asks a place when its turn is there, and only then.
LEMMA AskedInTurn ==
  ASSUME NEW T, NEW s \in Apart(T), NEW at \in Nat \ {0}, at <= Len(s), NEW n \in {1, 2},
         NEW i \in 1..Len(s)
  PROVE  Adapter!Contains(Batch(n, s, at), s[i])
           <=> at <= i /\ i < at + n
<1> DEFINE b == Batch(n, s, at)
<1>1. s \in Seq(T) /\ Len(s) \in Nat /\ \A j, k \in 1..Len(s) : s[j] = s[k] => j = k
  BY DEF Apart
<1>2. /\ b \in Seq(T) /\ Len(b) = (IF at + n <= Len(s) + 1 THEN n ELSE 1)
      /\ \A j \in 1..Len(b) : b[j] = s[at + j - 1]
  <2>1. s \in Seq(T)
    BY <1>1
  <2>2. b \in Seq(T)
    BY <2>1, BatchOf
  <2>3. Len(b) = (IF at + n <= Len(s) + 1 THEN n ELSE 1)
    BY <2>1, BatchOf
  <2>4. \A j \in 1..Len(b) : b[j] = s[at + j - 1]
    BY <2>1, BatchOf
  <2> QED BY <2>2, <2>3, <2>4
<1> HIDE DEF b
<1>3. ASSUME NEW j \in 1..Len(b), b[j] = s[i] PROVE at <= i /\ i < at + n
  <2>1. at + j - 1 \in 1..Len(s)
    BY <1>1, <1>2
  <2>2. at + j - 1 = i
    BY <1>1, <1>2, <1>3, <2>1
  <2> QED BY <1>1, <1>2, <2>2
<1>4. ASSUME at <= i, i < at + n PROVE \E j \in 1..Len(b) : b[j] = s[i]
  <2>1. i - at + 1 \in 1..Len(b) /\ at + (i - at + 1) - 1 = i
    BY <1>1, <1>2, <1>4
  <2> QED BY <1>2, <2>1
<1> QED BY <1>3, <1>4 DEF b, Adapter!Contains

\* How often the i-th place was asked, as the loop goes on.
Passed(i) ==
  LET n == askedAt[targets[i]]
  IN  /\ n \in 0..2
      /\ ~walk.aborted /\ walk.width = 2 => n = (IF i < walk.at THEN 1 ELSE 0)
      /\ ~walk.aborted /\ walk.width = 1 =>
            (i < walk.at => n \in 1..2) /\ (i = walk.at => n \in 0..1) /\ (i > walk.at => n = 0)

Paced ==
  /\ askedAt \in [Adapter!AllPlaces -> Nat]
  /\ \A p \in Adapter!AllPlaces : p \in Adapter!ToSet(targets) \/ askedAt[p] = 0
  /\ \A i \in 1..Len(targets) : targets[i] \in Adapter!AllPlaces => Passed(i)

AdapterInv ==
  /\ codes \in Regions
  /\ targets = IF site = "karrot" THEN Adapter!KarrotIns(codes) ELSE << >>
  /\ Gathered(walk) /\ Paced
  /\ site = "karrot" /\ step # "ask" => walk.aborted \/ walk.at > Len(targets)
  /\ Adapter!RightlyKept

\* No place is on the list twice.
LEMMA TargetsApart ==
  ASSUME Adapter!AdapterAssumption, AdapterInv PROVE targets \in Apart(STRING)
<1>1. << >> \in Apart(STRING)
  BY DEF Apart
<1> QED BY <1>1, PlacesApart DEF AdapterInv

LEMMA AdapterInit == ASSUME Adapter!AdapterAssumption, Adapter!Init PROVE AdapterInv
<1>1. /\ codes \in Regions /\ targets = IF site = "karrot" THEN Adapter!KarrotIns(codes) ELSE << >>
      /\ step = "ask" /\ askedAt = [p \in Adapter!AllPlaces |-> 0]
      /\ walk = [at |-> 1, width |-> 2, streak |-> 0, blocked |-> FALSE, answered |-> FALSE,
                 aborted |-> FALSE, merged |-> {}]
  BY DEF Adapter!Init
<1>2. Gathered(walk)
  BY <1>1, FS_EmptySet DEF Gathered, WalkType
<1>3. Paced
  <2>1. askedAt \in [Adapter!AllPlaces -> Nat] /\ \A p \in Adapter!AllPlaces : askedAt[p] = 0
    BY <1>1
  <2>2. ASSUME NEW i \in 1..Len(targets), targets[i] \in Adapter!AllPlaces PROVE Passed(i)
    <3>1. askedAt[targets[i]] = 0
      BY <2>1, <2>2
    <3>2. ~(i < 1)
      BY <2>2
    <3> QED BY <1>1, <3>1, <3>2 DEF Passed
  <2> QED BY <2>1, <2>2 DEF Paced
<1> QED BY <1>1, <1>2, <1>3 DEF AdapterInv, Adapter!RightlyKept

\* What follows a batch: the walk of a batch whose results are in.
LEMMA AdvancedWalk ==
  ASSUME Adapter!AdapterAssumption, NEW w, Gathered(w)
  PROVE  LET v == Adapter!Advanced(w)
         IN  /\ Gathered(v) /\ v.width \in {1, 2} /\ (w.width = 1 => v.width = 1)
             /\ ~v.aborted => v.at = w.at + v.width
<1> DEFINE width == IF w.streak >= BackOffAt THEN 1 ELSE w.width
           v == Adapter!Advanced(w)
<1>1. w \in WalkType /\ IsFiniteSet(w.merged) /\ (w.merged # {} => w.answered)
  BY DEF Gathered
<1>2. width \in {1, 2} /\ (w.width = 1 => width = 1) /\ w.at + width \in Nat \ {0}
  BY <1>1 DEF WalkType
<1>3. v = IF w.streak >= AbortAt THEN [w EXCEPT !.width = width, !.aborted = TRUE]
          ELSE [w EXCEPT !.width = width, !.at = w.at + width]
  BY DEF Adapter!Advanced
<1> HIDE DEF width, v
<1>4. /\ v \in WalkType /\ v.width = width /\ v.merged = w.merged /\ v.answered = w.answered
      /\ ~v.aborted => v.at = w.at + width
  <2>1. CASE w.streak >= AbortAt
    <3>1. v = [w EXCEPT !.width = width, !.aborted = TRUE]
      BY <1>3, <2>1
    <3>2. v \in WalkType
      BY <1>1, <1>2, <3>1 DEF WalkType
    <3>3. v.width = width /\ v.merged = w.merged /\ v.answered = w.answered /\ v.aborted
      BY <1>1, <3>1 DEF WalkType
    <3> QED BY <3>2, <3>3
  <2>2. CASE ~(w.streak >= AbortAt)
    <3>1. v = [w EXCEPT !.width = width, !.at = w.at + width]
      BY <1>3, <2>2
    <3>2. v \in WalkType
      BY <1>1, <1>2, <3>1 DEF WalkType
    <3>3. v.width = width /\ v.merged = w.merged /\ v.answered = w.answered /\ v.at = w.at + width
      BY <1>1, <3>1 DEF WalkType
    <3> QED BY <3>2, <3>3
  <2> QED BY <2>1, <2>2
<1>5. Gathered(v)
  BY <1>1, <1>4 DEF Gathered
<1> QED BY <1>2, <1>4, <1>5 DEF v

\* A place in its turn is asked once more; the loop passes it by its width, or by one when it slows down.
LEMMA OnceMore ==
  ASSUME NEW i \in Nat, NEW at \in Nat, NEW w \in {1, 2}, NEW v \in {1, 2}, w = 1 => v = 1,
         NEW n \in Nat, NEW m \in Nat, m = n + (IF at <= i /\ i < at + w THEN 1 ELSE 0),
         n \in 0..2, w = 2 => n = (IF i < at THEN 1 ELSE 0),
         w = 1 => (i < at => n \in 1..2) /\ (i = at => n \in 0..1) /\ (i > at => n = 0)
  PROVE  /\ m \in 0..2 /\ (v = 2 => m = (IF i < at + v THEN 1 ELSE 0))
         /\ v = 1 => (i < at + v => m \in 1..2) /\ (i = at + v => m \in 0..1) /\ (i > at + v => m = 0)
OBVIOUS

\* A batch, whatever its requests end with.
LEMMA AskBatchPaces ==
  ASSUME Adapter!AdapterAssumption, AdapterInv, Adapter!AskBatch PROVE AdapterInv'
<1> DEFINE b == Batch(walk.width, targets, walk.at)
<1>1. /\ codes \in Regions /\ targets = IF site = "karrot" THEN Adapter!KarrotIns(codes) ELSE << >>
      /\ Gathered(walk) /\ Paced
  BY DEF AdapterInv
<1>2. /\ site = "karrot" /\ step = "ask" /\ ~walk.aborted /\ walk.at <= Len(targets)
      /\ \E o \in [DOMAIN b -> Adapter!Outcomes] :
            walk' = Adapter!Advanced(Adapter!FoldLeft(Adapter!Took, walk, o))
      /\ askedAt' = [p \in Adapter!AllPlaces |-> askedAt[p] + (IF Adapter!Contains(b, p) THEN 1 ELSE 0)]
      /\ UNCHANGED <<site, codes, targets, step, offered, result>>
  BY Zenon DEF Adapter!AskBatch, Batch
<1>3. walk \in WalkType /\ walk.at \in Nat \ {0} /\ walk.width \in {1, 2}
  BY <1>1 DEF Gathered, WalkType
<1>4. targets \in Apart(STRING) /\ targets \in Seq(STRING) /\ Len(targets) \in Nat
  <2>1. targets \in Apart(STRING)
    BY TargetsApart
  <2> QED BY <2>1 DEF Apart
<1>5. /\ b \in Seq(STRING)
      /\ Len(b) = (IF walk.at + walk.width <= Len(targets) + 1 THEN walk.width ELSE 1)
      /\ \A j \in 1..Len(b) : b[j] = targets[walk.at + j - 1]
  <2> DEFINE w == walk.width
             at == walk.at
  <2>1. targets \in Seq(STRING) /\ w \in {1, 2} /\ at \in Nat \ {0} /\ at <= Len(targets)
    BY <1>2, <1>3, <1>4
  <2>2. b = Batch(w, targets, at)
    OBVIOUS
  <2> HIDE DEF w, at, b
  <2>3. b \in Seq(STRING)
    BY <2>1, <2>2, BatchOf
  <2>4. Len(b) = (IF at + w <= Len(targets) + 1 THEN w ELSE 1)
    BY <2>1, <2>2, BatchOf
  <2>5. \A j \in 1..Len(b) : b[j] = targets[at + j - 1]
    BY <2>1, <2>2, BatchOf
  <2> QED BY <2>3, <2>4, <2>5 DEF w, at
<1>6. \A i \in 1..Len(targets) :
        Adapter!Contains(b, targets[i]) <=> walk.at <= i /\ i < walk.at + walk.width
  BY <1>2, <1>3, <1>4, AskedInTurn
<1> HIDE DEF b
<1>7. Gathered(walk') /\ (walk.width = 1 => walk'.width = 1)
      /\ walk'.width \in {1, 2} /\ (~walk'.aborted => walk'.at = walk.at + walk'.width)
  <2>1. DOMAIN b = 1..Len(b) /\ Len(b) \in Nat
    <3>1. b \in Seq(STRING)
      BY <1>5
    <3> HIDE <1>5
    <3> QED BY <3>1
  <2>2. PICK o \in [1..Len(b) -> Adapter!Outcomes] :
          walk' = Adapter!Advanced(Adapter!FoldLeft(Adapter!Took, walk, o))
    BY <1>2, <2>1, Zenon
  <2> DEFINE g == Adapter!FoldLeft(Adapter!Took, walk, o)
  <2>3. Gathered(g) /\ g.at = walk.at /\ g.width = walk.width
    <3> HIDE DEF g
    <3> QED BY <1>1, <2>1, BatchGathers, Zenon DEF g
  <2>4. walk' = Adapter!Advanced(g)
    BY <2>2
  <2> HIDE DEF g
  <2> DEFINE v == Adapter!Advanced(g)
  <2>5. Gathered(v) /\ v.width \in {1, 2} /\ (g.width = 1 => v.width = 1)
        /\ (~v.aborted => v.at = g.at + v.width)
    BY <2>3, AdvancedWalk, Zenon
  <2> HIDE DEF v
  <2>6. walk' = v
    BY <2>4 DEF v
  <2> QED BY <2>3, <2>5, <2>6
<1>8. Paced'
  <2>1. askedAt \in [Adapter!AllPlaces -> Nat]
    BY <1>1 DEF Paced
  <2>2. \A p \in Adapter!AllPlaces :
          askedAt'[p] = askedAt[p] + (IF Adapter!Contains(b, p) THEN 1 ELSE 0) /\ askedAt'[p] \in Nat
    BY <1>2, <2>1
  <2>3. askedAt' \in [Adapter!AllPlaces -> Nat]
    BY <1>2, <2>2
  <2>4. ASSUME NEW p \in Adapter!AllPlaces, p \notin Adapter!ToSet(targets) PROVE askedAt'[p] = 0
    <3>1. askedAt[p] = 0
      BY <1>1, <2>4 DEF Paced
    <3>2. Adapter!ToSet(targets) = {targets[i] : i \in 1..Len(targets)}
      BY <1>4, SetOf
    <3>3. ~Adapter!Contains(b, p)
      <4>1. \A j \in 1..Len(b) : walk.at + j - 1 \in 1..Len(targets)
        BY <1>2, <1>3, <1>4, <1>5
      <4> QED BY <1>5, <2>4, <3>2, <4>1 DEF Adapter!Contains
    <3> QED BY <2>2, <3>1, <3>3
  <2>5. ASSUME NEW i \in 1..Len(targets), targets[i] \in Adapter!AllPlaces PROVE Passed(i)'
    <3> DEFINE n == askedAt[targets[i]]
               m == askedAt'[targets[i]]
               w == walk.width
               v == walk'.width
               at == walk.at
    <3>1. n \in Nat /\ m \in Nat /\ m = n + (IF at <= i /\ i < at + w THEN 1 ELSE 0)
      BY <1>6, <2>1, <2>2, <2>5
    <3>2. Passed(i)
      BY <1>1, <2>5 DEF Paced
    <3>3. /\ n \in 0..2 /\ (w = 2 => n = (IF i < at THEN 1 ELSE 0))
          /\ w = 1 => (i < at => n \in 1..2) /\ (i = at => n \in 0..1) /\ (i > at => n = 0)
      BY <1>2, <3>2 DEF Passed
    <3>4. i \in Nat /\ at \in Nat /\ w \in {1, 2} /\ v \in {1, 2} /\ (w = 1 => v = 1)
          /\ (~walk'.aborted => walk'.at = at + v)
      BY <1>3, <1>4, <1>7
    <3>5. m = askedAt[targets[i]]'
      BY <1>2
    <3> HIDE DEF n, m, w, v, at
    <3>6. /\ m \in 0..2 /\ (v = 2 => m = (IF i < at + v THEN 1 ELSE 0))
          /\ v = 1 => (i < at + v => m \in 1..2) /\ (i = at + v => m \in 0..1) /\ (i > at + v => m = 0)
      BY <3>1, <3>3, <3>4, OnceMore
    <3> QED BY <3>4, <3>5, <3>6 DEF Passed, v
  <2> QED BY <1>2, <2>3, <2>4, <2>5 DEF Paced
<1> QED BY <1>1, <1>2, <1>7, <1>8 DEF AdapterInv, Adapter!RightlyKept

\* The cardinality of the adapter's instance is the one of this module.
LEMMA CardinalityOfAdapter == ASSUME NEW S PROVE Adapter!Cardinality(S) = Cardinality(S)
BY DEF Adapter!Cardinality, Cardinality

\* A finite set as a sequence has its elements, each of them once.
LEMMA SeqOfSet ==
  ASSUME NEW S, IsFiniteSet(S)
  PROVE  /\ Adapter!SetToSeq(S) \in Seq(S) /\ Len(Adapter!SetToSeq(S)) = Cardinality(S)
         /\ Adapter!ToSet(Adapter!SetToSeq(S)) = S
<1> DEFINE n == Cardinality(S)
           W == 1..n
           q == Adapter!SetToSeq(S)
<1>1. n \in Nat /\ ExistsBijection(W, S)
  BY FS_CardinalityType
<1>2. IsFiniteSet(W) /\ Cardinality(W) = n
  <2>1. 1 \in Int /\ n \in Int
    BY <1>1
  <2>2. IsFiniteSet(W) /\ Cardinality(W) = IF 1 > n THEN 0 ELSE n - 1 + 1
    BY <2>1, FS_Interval
  <2> HIDE DEF W
  <2> QED BY <1>1, <2>2
<1>3. \E f \in [W -> S] : Adapter!IsInjective(f)
  BY <1>1 DEF ExistsBijection, Bijection, Injection, IsInjective, Adapter!IsInjective
<1>4. q = CHOOSE f \in [W -> S] : Adapter!IsInjective(f)
  BY CardinalityOfAdapter, Zenon DEF Adapter!SetToSeq
<1> HIDE DEF q, W
<1>5. q \in [W -> S] /\ Adapter!IsInjective(q)
  BY <1>3, <1>4, Zenon
<1>6. q \in Surjection(W, S)
  <2>1. q \in Injection(W, S)
    BY <1>5 DEF Injection, IsInjective, Adapter!IsInjective
  <2> QED BY <1>2, <2>1, FS_Injection
<1>7. q \in Seq(S) /\ Len(q) = n
  BY <1>1, <1>5 DEF W
<1>8. Adapter!ToSet(q) = S
  <2>1. DOMAIN q = W
    BY <1>5
  <2> QED BY <1>5, <1>6, <2>1 DEF Adapter!ToSet, Surjection
<1> QED BY <1>7, <1>8 DEF q

\* The end of the walk: what is returned is the most alike of what was gathered.
LEMMA EndWalkKeeps ==
  ASSUME Adapter!AdapterAssumption, AdapterInv, Adapter!EndWalk PROVE AdapterInv'
<1>1. /\ codes \in Regions /\ targets = IF site = "karrot" THEN Adapter!KarrotIns(codes) ELSE << >>
      /\ Gathered(walk) /\ Paced
  BY DEF AdapterInv
<1>2. /\ site = "karrot" /\ step = "ask" /\ (walk.aborted \/ walk.at > Len(targets))
      /\ UNCHANGED <<site, codes, targets, walk, askedAt>>
      /\ \/ Adapter!Failed
         \/ /\ ~Adapter!BlockedOut(walk) /\ step' = "done"
            /\ \E t \in Adapter!Top(walk.merged) : result' = Adapter!SetToSeq(t)
            /\ offered' = Adapter!SetToSeq(walk.merged)
  <2>1. CASE Adapter!BlockedOut(walk)
    BY <2>1 DEF Adapter!EndWalk, Adapter!Failed
  <2>2. CASE ~Adapter!BlockedOut(walk)
    BY <2>2 DEF Adapter!EndWalk
  <2> QED BY <2>1, <2>2
<1>3. Paced'
  BY <1>1, <1>2 DEF Paced, Passed
<1>4. Adapter!RightlyKept'
  <2>1. CASE Adapter!Failed
    BY <2>1 DEF Adapter!Failed, Adapter!RightlyKept
  <2>2. CASE /\ ~Adapter!BlockedOut(walk) /\ step' = "done"
             /\ \E t \in Adapter!Top(walk.merged) : result' = Adapter!SetToSeq(t)
             /\ offered' = Adapter!SetToSeq(walk.merged)
    <3> DEFINE M == walk.merged
    <3>1. M \in SUBSET Sold /\ IsFiniteSet(M) /\ (M # {} => walk.answered)
          /\ walk.blocked \in BOOLEAN /\ walk.answered \in BOOLEAN
      BY <1>1 DEF Gathered, WalkType
    <3>2. PICK t \in Adapter!Top(M) : result' = Adapter!SetToSeq(t)
      BY <2>2
    <3>3. t \in SUBSET M
          /\ Cardinality(t) = IF Cardinality(M) < MaxResults THEN Cardinality(M) ELSE MaxResults
      BY <3>2, CardinalityOfAdapter DEF Adapter!Top
    <3>4. offered' = Adapter!SetToSeq(M)
      BY <2>2
    <3>5. walk.blocked => walk.answered
      BY <2>2, <3>1 DEF Adapter!BlockedOut
    <3> HIDE DEF M
    <3>6. IsFiniteSet(t) /\ (Cardinality(M) = Cardinality(t) => M = t) /\ Cardinality(M) \in Nat
          /\ MaxResults \in Nat
      BY <3>1, <3>3, FS_Subset, FS_CardinalityType DEF Adapter!AdapterAssumption
    <3>7. Len(result') = Cardinality(t) /\ Adapter!ToSet(result') = t
      BY <3>2, <3>6, SeqOfSet
    <3>8. Adapter!ToSet(offered') = M
      BY <3>1, <3>4, SeqOfSet
    <3>9. Len(result') <= MaxResults /\ (Len(result') < MaxResults => t = M)
      BY <3>3, <3>6, <3>7
    <3>10. \A l \in Adapter!ToSet(result') : Usable(l)
      BY <3>1, <3>3, <3>7 DEF Sold
    <3>11. Adapter!ToSet(result)' = Adapter!ToSet(result') /\ Adapter!ToSet(offered)' = Adapter!ToSet(offered')
      OBVIOUS
    <3> QED BY <1>2, <2>2, <3>5, <3>7, <3>8, <3>9, <3>10, <3>11 DEF Adapter!RightlyKept
  <2> QED BY <1>2, <2>1, <2>2
<1> QED BY <1>1, <1>2, <1>3, <1>4 DEF AdapterInv

\* What Keep selects is in the regions asked for, and all that is offered of them, until it is full.
LEMMA KeepsRightly ==
  ASSUME Adapter!AdapterAssumption, AdapterInv, site # "karrot", NEW items \in Seq(Sold),
         Adapter!Keep(items)
  PROVE  AdapterInv'
<1>1. /\ codes \in Regions /\ targets = IF site = "karrot" THEN Adapter!KarrotIns(codes) ELSE << >>
      /\ Gathered(walk) /\ Paced
  BY DEF AdapterInv
<1>2. /\ step' = "done" /\ result' = Adapter!Selected(items) /\ offered' = items
      /\ UNCHANGED <<site, codes, targets, walk, askedAt>>
  BY DEF Adapter!Keep
<1>3. Paced'
  BY <1>1, <1>2 DEF Paced, Passed
<1> DEFINE X == Adapter!Wanted
           all == Selection(items, X)
<1>4. /\ all \in Seq(Sold \cap X)
      /\ \A i \in 1..Len(items) : items[i] \in X => \E j \in 1..Len(all) : all[j] = items[i]
  BY Selects
<1>5. result' = Adapter!First(MaxResults, all) /\ MaxResults \in Nat
  BY <1>2, AdapterWhere DEF Adapter!Selected, Adapter!AdapterAssumption
<1> HIDE DEF all
<1>6. \A l \in Sold : l \in X <=> Adapter!InRegions(l, codes)
  BY DEF Sold, Adapter!Wanted
<1> HIDE DEF X
<1>7. /\ result' \in Seq(Sold \cap X) /\ Len(all) \in Nat
      /\ Len(result') = IF MaxResults < Len(all) THEN MaxResults ELSE Len(all)
      /\ \A i \in 1..Len(result') : i \in 1..Len(all) /\ result'[i] = all[i]
  BY <1>4, <1>5, FirstOf
<1>8. Adapter!ToSet(result') = {result'[i] : i \in 1..Len(result')}
      /\ Adapter!ToSet(result') \in SUBSET (Sold \cap X)
  BY <1>7, SetOf
<1>9. Adapter!ToSet(items) = {items[i] : i \in 1..Len(items)} /\ Adapter!ToSet(items) \in SUBSET Sold
  BY SetOf
<1>10. \A l \in Adapter!ToSet(result') : Usable(l) /\ Adapter!InRegions(l, codes)
  BY <1>6, <1>8 DEF Sold
<1>11. ASSUME Len(result') < MaxResults, NEW l \in Adapter!ToSet(items), Adapter!InRegions(l, codes)
       PROVE  l \in Adapter!ToSet(result')
  <2>1. Len(result') = Len(all)
    BY <1>5, <1>7, <1>11
  <2>2. PICK i \in 1..Len(items) : l = items[i]
    BY <1>9, <1>11
  <2>3. l \in X
    BY <1>6, <1>9, <1>11
  <2>4. PICK j \in 1..Len(all) : all[j] = l
    BY <1>4, <2>2, <2>3
  <2>5. result'[j] = l /\ j \in 1..Len(result')
    BY <1>7, <2>1, <2>4
  <2> QED BY <1>8, <2>5
<1>12. Len(result') <= MaxResults
  BY <1>5, <1>7
<1>13. /\ Adapter!ToSet(result)' = Adapter!ToSet(result') /\ Adapter!ToSet(offered)' = Adapter!ToSet(items)
       /\ \A l : Adapter!InRegions(l, codes)' = Adapter!InRegions(l, codes)
  BY <1>2
<1>14. Adapter!RightlyKept'
  BY <1>2, <1>10, <1>11, <1>12, <1>13 DEF Adapter!RightlyKept
<1> QED BY <1>1, <1>2, <1>3, <1>14 DEF AdapterInv

\* A crawl of the other sites that goes on to the page, or fails.
LEMMA AdapterStays ==
  ASSUME AdapterInv, UNCHANGED <<site, codes, targets, walk, askedAt, offered, result>>,
         site # "karrot", step' \in {"page", "failed"}
  PROVE  AdapterInv'
<1>1. Paced'
  BY DEF AdapterInv, Paced, Passed
<1> QED BY <1>1 DEF AdapterInv, Adapter!RightlyKept

LEMMA AdapterNext ==
  ASSUME Adapter!AdapterAssumption, AdapterInv, [Adapter!Next]_adapterVars PROVE AdapterInv'
<1>1. Found \subseteq Seq(Listings) /\ Sold \subseteq Listings /\ MaxResults \in Nat
  BY DEF Adapter!AdapterAssumption, Sold
<1>2. CASE Adapter!AskBatch
  BY <1>2, AskBatchPaces
<1>3. CASE Adapter!EndWalk
  BY <1>3, EndWalkKeeps
<1>4. CASE Adapter!AskBungae
  <2>1. CASE Adapter!Failed
    BY <1>4, <2>1, AdapterStays DEF Adapter!AskBungae, Adapter!Failed
  <2>2. CASE \E answer \in Found : Adapter!Keep(Adapter!Normalized(answer))
    <3>1. PICK answer \in Found : Adapter!Keep(Adapter!Normalized(answer))
      BY <2>2
    <3>2. Adapter!Normalized(answer) \in Seq(Sold)
      BY <1>1, NormalizedSeq
    <3>3. site # "karrot"
      BY <1>4 DEF Adapter!AskBungae
    <3> QED BY <3>1, <3>2, <3>3, KeepsRightly
  <2> QED BY <1>4, <2>1, <2>2 DEF Adapter!AskBungae
<1>5. CASE Adapter!AskApi
  <2>1. PICK answer \in Found :
          IF Adapter!Normalized(answer) # << >> THEN Adapter!Keep(Adapter!Normalized(answer))
          ELSE step' = "page" /\ UNCHANGED <<site, codes, targets, walk, askedAt, offered, result>>
    BY <1>5 DEF Adapter!AskApi
  <2>2. site # "karrot"
    BY <1>5 DEF Adapter!AskApi
  <2>3. Adapter!Normalized(answer) \in Seq(Sold)
    BY <1>1, NormalizedSeq
  <2> QED BY <2>1, <2>2, <2>3, KeepsRightly, AdapterStays
<1>6. CASE Adapter!ApiFails
  BY <1>6, AdapterStays DEF Adapter!ApiFails
<1>7. CASE Adapter!ReadPage
  <2>1. PICK flight \in Found, dom \in Found :
          Adapter!Keep(Adapter!Normalized(Adapter!First(MaxResults,
              IF Adapter!InFlight(flight) # << >> THEN Adapter!InFlight(flight) ELSE Adapter!OnPage(dom))))
    BY <1>7 DEF Adapter!ReadPage
  <2> DEFINE items == IF Adapter!InFlight(flight) # << >> THEN Adapter!InFlight(flight)
                      ELSE Adapter!OnPage(dom)
  <2>2. site # "karrot"
    BY <1>7 DEF Adapter!ReadPage
  <2>3. Adapter!InFlight(flight) \in Seq(Sold)
    BY <1>1, NormalizedSeq DEF Adapter!InFlight
  <2>4. Adapter!OnPage(dom) \in Seq(Sold)
    <3>1. Adapter!Once(dom) \in Seq(Listings)
      BY <1>1, OnceIsApart DEF Apart
    <3> QED BY <3>1, NormalizedSeq DEF Adapter!OnPage
  <2>5. items \in Seq(Listings)
    <3>1. items \in Seq(Sold)
      BY <2>3, <2>4
    <3> HIDE DEF items
    <3> QED BY <1>1, <3>1
  <2> HIDE DEF items
  <2>6. Adapter!Normalized(Adapter!First(MaxResults, items)) \in Seq(Sold)
    BY <1>1, <2>5, FirstOf, NormalizedSeq
  <2>7. Adapter!Keep(Adapter!Normalized(Adapter!First(MaxResults, items)))
    BY <2>1 DEF items
  <2> QED BY <2>2, <2>6, <2>7, KeepsRightly
<1>8. CASE Adapter!PageFails
  BY <1>8, AdapterStays DEF Adapter!PageFails, Adapter!Failed
<1>9. CASE UNCHANGED adapterVars
  <2>1. Paced'
    BY <1>9 DEF adapterVars, AdapterInv, Paced, Passed
  <2>2. UNCHANGED <<site, codes, targets, step, walk, askedAt, offered, result>>
    BY <1>9 DEF adapterVars
  <2>3. Adapter!RightlyKept'
    BY <2>2 DEF AdapterInv, Adapter!RightlyKept
  <2> QED BY <2>1, <2>2, <2>3 DEF AdapterInv
<1> QED BY <1>2, <1>3, <1>4, <1>5, <1>6, <1>7, <1>8, <1>9 DEF Adapter!Next

\* The invariant is what the property says of a crawl that is over.
LEMMA AdapterMeans == ASSUME Adapter!AdapterAssumption, AdapterInv PROVE AskedAndKept
<1>1. targets \in Seq(STRING)
  BY TargetsApart DEF Apart
<1>2. Adapter!ToSet(targets) = {targets[i] : i \in 1..Len(targets)} /\ Len(targets) \in Nat
  BY <1>1, SetOf
<1>3. walk.width \in {1, 2} /\ walk.at \in Nat /\ walk.aborted \in BOOLEAN
  BY DEF AdapterInv, Gathered, WalkType
<1>4. Adapter!AllAsked
  <2> SUFFICES ASSUME site = "karrot", step # "ask", NEW p \in Adapter!AllPlaces
               PROVE  /\ askedAt[p] \in 0..2
                      /\ askedAt[p] > 0 => p \in Adapter!ToSet(Adapter!KarrotIns(codes))
                      /\ p \in Adapter!ToSet(Adapter!KarrotIns(codes)) /\ ~walk.aborted => askedAt[p] > 0
    BY DEF Adapter!AllAsked
  <2>1. targets = Adapter!KarrotIns(codes) /\ (walk.aborted \/ walk.at > Len(targets)) /\ Paced
    BY DEF AdapterInv
  <2>2. CASE p \notin Adapter!ToSet(targets)
    BY <2>1, <2>2 DEF Paced
  <2>3. CASE p \in Adapter!ToSet(targets)
    <3>1. PICK i \in 1..Len(targets) : p = targets[i]
      BY <1>2, <2>3
    <3>2. Passed(i)
      BY <2>1, <3>1 DEF Paced
    <3>3. askedAt[p] \in 0..2
      BY <3>1, <3>2 DEF Passed
    <3>4. ~walk.aborted => askedAt[p] > 0
      BY <1>2, <1>3, <2>1, <3>1, <3>2 DEF Passed
    <3> QED BY <2>1, <2>3, <3>3, <3>4
  <2> QED BY <2>2, <2>3
<1> QED BY <1>4 DEF AskedAndKept, AdapterInv

-----------------------------------------------------------------------------
(* The composition *)

\* A step of the composition is a step, or none, of each part.
LEMMA StepIs ==
  ASSUME [AlgorithmsNext]_algorithmVars
  PROVE  /\ [Next]_vars /\ [Verdict!Next]_verdictVars /\ [Ledger!Next]_ledgerVars
         /\ [Image!Next]_imageVars /\ [Order!Next]_ordersVars /\ [Search!Next]_searchVars
         /\ [Shown!Next]_viewVars /\ [Document!Next]_made /\ [Adapter!Next]_adapterVars /\ part' = part
  BY DEF AlgorithmsNext, algorithmVars, scoreVars, vars, verdictVars, ledgerVars, imageVars, ordersVars,
     orderVars, viewVars, searchVars, adapterVars

\* Every score a listing has is one of 0..100, whatever the model answers and the engines return.
THEOREM TypeCorrect == AlgorithmsSpec => []TypeOK
<1>1. AlgorithmsInit => ScoreInv
  BY ScoreInit DEF AlgorithmsInit
<1>2. ScoreInv /\ [AlgorithmsNext]_algorithmVars => ScoreInv'
  BY ScoreNext, StepIs, ThresholdAssumption
<1>3. ScoreInv => TypeOK
  BY DEF ScoreInv
<1> QED BY <1>1, <1>2, <1>3, PTL DEF AlgorithmsSpec

\* Pictures that were compared and are unlike keep a listing out, for any thresholds of the local gate.
THEOREM UnlikeIsKeptOut == AlgorithmsSpec => []UnlikeKeptOut
<1>1. AlgorithmsInit => ScoreInv
  BY ScoreInit DEF AlgorithmsInit
<1>2. ScoreInv /\ [AlgorithmsNext]_algorithmVars => ScoreInv'
  BY ScoreNext, StepIs, ThresholdAssumption
<1>3. ScoreInv => UnlikeKeptOut
  BY DEF ScoreInv
<1> QED BY <1>1, <1>2, <1>3, PTL DEF AlgorithmsSpec

\* A job of any number of keywords is completed when every search succeeded, failed when none did, and
\* partial otherwise, in whatever order rows are added, end, time out and come back.
THEOREM VerdictTells == AlgorithmsSpec => []VerdictMeaning
<1>1. AlgorithmsInit => VerdictInv
  BY VerdictInit DEF AlgorithmsInit
<1>2. VerdictInv /\ [AlgorithmsNext]_algorithmVars => VerdictInv'
  BY VerdictNext, StepIs
<1>3. VerdictInv => VerdictMeaning
  BY VerdictMeans
<1> QED BY <1>1, <1>2, <1>3, PTL DEF AlgorithmsSpec

\* Whatever servers redirect to, declare and send: a download asks no URL that the check refuses, and
\* stays within its limits.
THEOREM DownloadsAreBounded == AlgorithmsSpec => []Bounded
<1>1. AlgorithmsInit => ImageInv
  BY ImageInit, AlgorithmsAssumption DEF AlgorithmsInit
<1>2. ImageInv /\ [AlgorithmsNext]_algorithmVars => ImageInv'
  BY ImageNext, StepIs, AlgorithmsAssumption
<1>3. ImageInv => Bounded
  BY ImageMeans, AlgorithmsAssumption
<1> QED BY <1>1, <1>2, <1>3, PTL DEF AlgorithmsSpec

\* However orders change after a job was made of one, listings are compared with what was searched for,
\* and the job keeps no personal data.
THEOREM ComparisonsStand == AlgorithmsSpec => []ComparedAsSearched
<1>1. AlgorithmsInit => OrderInv
  BY OrderInit DEF AlgorithmsInit
<1>2. OrderInv /\ [AlgorithmsNext]_algorithmVars => OrderInv'
  BY OrderNext, StepIs
<1>3. OrderInv => ComparedAsSearched
  BY DEF OrderInv, ComparedAsSearched
<1> QED BY <1>1, <1>2, <1>3, PTL DEF AlgorithmsSpec

\* The cleanup deletes nothing that the month's calls and costs need, whenever it runs and stops, and
\* one that ends has left nothing old; for any retention of at least a month.
THEOREM MonthIsRetained == AlgorithmsSpec => Retained
<1>1. AlgorithmsInit => LedgerInv
  BY LedgerInit DEF AlgorithmsInit
<1>2. LedgerInv /\ [AlgorithmsNext]_algorithmVars => LedgerInv'
  BY LedgerNext, StepIs, AlgorithmsAssumption
<1>3. LedgerInv /\ LedgerInv' /\ [AlgorithmsNext]_algorithmVars =>
        /\ [Ledger!MonthStart(today') = Ledger!MonthStart(today) =>
              LET before == Ledger!Bucket(Ledger!InMonth(usage, today))
                  after  == Ledger!Bucket(Ledger!InMonth(usage', today))
              IN  after.calls >= before.calls /\ after.cost >= before.cost]_Ledger!vars
        /\ [lastRun' # lastRun =>
              /\ Ledger!Old(attempts', Ledger!AttemptCutoff(lastRun')) = {}
              /\ Ledger!Old(usage', Ledger!UsageCutoff(lastRun')) = {}]_Ledger!vars
  BY LedgerStep, StepIs, AlgorithmsAssumption
<1> QED BY <1>1, <1>2, <1>3, PTL DEF AlgorithmsSpec, Retained, Ledger!MonthKept, Ledger!NothingOldLeft

\* However a case moves on between being created and being read, the dashboard shows its score, its
\* measures and the service's opinion and advice as they were made.
THEOREM CasesAreShownAsMade == AlgorithmsSpec => []ShownAsMade
<1>1. AlgorithmsInit => ViewInv
  BY ViewInit DEF AlgorithmsInit
<1>2. ViewInv /\ [AlgorithmsNext]_algorithmVars => ViewInv'
  BY ViewNext, StepIs, AlgorithmsAssumption DEF ViewInv
<1>3. ViewInv => ShownAsMade
  BY DEF ViewInv, CaseInv, ShownAsMade
<1> QED BY <1>1, <1>2, <1>3, PTL DEF AlgorithmsSpec

\* Whatever a site has and however many are kept: none that is dropped is more like the keyword than one
\* that is kept, and as many are kept as there are and may be.
THEOREM TheBestAreKept == AlgorithmsSpec => []BestKept
<1>1. AlgorithmsInit => SearchInv
  BY SearchInit DEF AlgorithmsInit
<1>2. SearchInv /\ [AlgorithmsNext]_algorithmVars => SearchInv'
  BY SearchNext, StepIs
<1>3. SearchInv => BestKept
  BY SearchMeans, AlgorithmsAssumption
<1> QED BY <1>1, <1>2, <1>3, PTL DEF AlgorithmsSpec

\* Whatever a model answers: the keywords made of it differ and are no more than may be, every text that is
\* shown is there, lists have entries but not too many, stars and scores are in their ranges, the decision is
\* the one people took, and a likeness the model left out lies between those of the parts.
THEOREM DocumentsAreComplete == AlgorithmsSpec => []Complete
<1>1. AlgorithmsInit => Complete
  BY DocumentInit DEF AlgorithmsInit
<1>2. Complete /\ [AlgorithmsNext]_algorithmVars => Complete'
  BY DocumentNext, StepIs, AlgorithmsAssumption
<1> QED BY <1>1, <1>2, PTL DEF AlgorithmsSpec

\* However a site refuses, errs and answers: a crawl that was not given up has asked every place of the
\* regions asked for, and no other, once or twice; what it returns is usable and of those regions, and
\* leaves out nothing but what there is no room for.
THEOREM PlacesAskedAndKept == AlgorithmsSpec => []AskedAndKept
<1>1. AlgorithmsInit => AdapterInv
  BY AdapterInit, AlgorithmsAssumption DEF AlgorithmsInit
<1>2. AdapterInv /\ [AlgorithmsNext]_algorithmVars => AdapterInv'
  BY AdapterNext, StepIs, AlgorithmsAssumption
<1>3. AdapterInv => AskedAndKept
  BY AdapterMeans, AlgorithmsAssumption
<1> QED BY <1>1, <1>2, <1>3, PTL DEF AlgorithmsSpec

=============================================================================
