--------------------------- MODULE CollectorsProofs ---------------------------
(***************************************************************************)
(* What the collectors promise, for any set of instances, any intervals    *)
(* and backoffs, and any number of reads and of changes of the system.     *)
(***************************************************************************)
EXTENDS Collectors, FiniteSetTheorems, WellFoundedInduction, TLAPS

-----------------------------------------------------------------------------
(* Numbers.                                                                 *)

(* The remainder of the next number.                                        *)
LEMMA NextRemainder ==
  ASSUME NEW x \in Nat, NEW y \in Nat \ {0}
  PROVE  /\ x % y \in 0..(y - 1)
         /\ (x + 1) % y # 0 => (x + 1) % y = (x % y) + 1
<1> DEFINE m == x % y
           q == x \div y
<1>1. m \in 0..(y - 1) /\ q \in Int /\ x = (y * q) + m
  OBVIOUS
<1>2. \A a \in Nat, r \in 0..(y - 1), p \in Int : a = (y * p) + r => a % y = r
  OBVIOUS
<1> HIDE DEF m, q
<1>3. CASE m = y - 1
  <2>1. x + 1 \in Nat /\ 0 \in 0..(y - 1) /\ q + 1 \in Int /\ x + 1 = (y * (q + 1)) + 0
    BY <1>1, <1>3
  <2>2. (x + 1) % y = 0
    BY <1>2, <2>1
  <2> QED
    BY <1>1, <2>2 DEF m
<1>4. CASE m # y - 1
  <2>1. x + 1 \in Nat /\ m + 1 \in 0..(y - 1) /\ x + 1 = (y * q) + (m + 1)
    BY <1>1, <1>4
  <2>2. (x + 1) % y = m + 1
    BY <1>1, <1>2, <2>1
  <2> QED
    BY <1>1, <2>2 DEF m
<1> QED
  BY <1>3, <1>4

(* The lesser of two numbers.                                               *)
LEMMA LesserOfTwo ==
  \A a, b \in Int : Min({a, b}) \in {a, b} /\ Min({a, b}) <= a /\ Min({a, b}) <= b
<1> SUFFICES ASSUME NEW a \in Int, NEW b \in Int
             PROVE  Min({a, b}) \in {a, b} /\ Min({a, b}) <= a /\ Min({a, b}) <= b
  OBVIOUS
<1>1. \E x \in {a, b} : \A y \in {a, b} : x <= y
  OBVIOUS
<1> QED
  BY <1>1 DEF Min

(* backoff_ticks never exceeds its cap.                                     *)
LEMMA BackoffCapped ==
  ASSUME NEW attempts \in Nat
  PROVE  backoff_ticks(attempts + 1) \in Int /\ backoff_ticks(attempts + 1) <= MaxBackoff
<1> DEFINE n == Min({attempts + 1 - 1, MaxShift})
           m == BackoffBase * 2 ^ n
<1>1. BackoffBase \in Nat /\ MaxShift \in Nat /\ MaxBackoff \in Nat
  BY PdhAssumption
<1>2. n \in Nat
  <2>1. attempts + 1 - 1 \in Nat /\ attempts + 1 - 1 \in Int /\ MaxShift \in Int
    BY <1>1
  <2>2. Min({attempts + 1 - 1, MaxShift}) \in {attempts + 1 - 1, MaxShift}
    BY <2>1, LesserOfTwo
  <2> QED
    BY <1>1, <2>1, <2>2
<1> HIDE DEF n
<1>3. 2 ^ n \in Int
  BY <1>2
<1>4. m \in Int
  BY <1>1, <1>3
<1> HIDE DEF m
<1>5. Min({m, MaxBackoff}) \in {m, MaxBackoff} /\ Min({m, MaxBackoff}) <= MaxBackoff
  BY <1>1, <1>4, LesserOfTwo
<1>6. Min({m, MaxBackoff}) \in Int
  BY <1>1, <1>4, <1>5
<1> QED
  BY <1>5, <1>6 DEF backoff_ticks, m, n

-----------------------------------------------------------------------------
(* The counter queries.                                                     *)

(* What building a query gives: an error only when the provider does not    *)
(* answer or has nothing, and otherwise a table of what is present.         *)
Covers(T, w) == (kind = "gpu" => Cardinality(Insts) <= MaxEngines) => T = w.present
Builds(b, w) ==
  \/ b.err \in InitErrors /\ (w.prov # "up" \/ w.present = {})
  \/ /\ b.err = None /\ w.prov = "up" /\ b.w = Pass(w)
     /\ b.q \in Queries /\ b.q.c1 = Collected(b.w)
     /\ Covers(b.q.table, w)

(* Time passes.                                                             *)
LEMMA PassKeeps ==
  ASSUME NEW w \in Worlds
  PROVE  /\ Pass(w) \in Worlds /\ Pass(w).now = w.now + 1
         /\ \A f \in {"prov", "present", "busy", "attr", "sideOk", "active", "gen", "changes"} :
              Pass(w)[f] = w[f]
         /\ \A i \in Insts : Pass(w).busyTicks[i] >= w.busyTicks[i]
<1> DEFINE ticks == [i \in Insts |-> w.busyTicks[i] + (IF i \in w.busy \cap w.present THEN 1 ELSE 0)]
<1>1. w.busyTicks \in [Insts -> Nat] /\ w.now \in Nat
  BY DEF Worlds
<1>2. ticks \in [Insts -> Nat] /\ \A i \in Insts : ticks[i] >= w.busyTicks[i]
  BY <1>1
<1>3. Pass(w) = [w EXCEPT !.now = w.now + 1, !.busyTicks = ticks]
  BY DEF Pass, Worlds
<1> HIDE DEF ticks
<1>4. w.now + 1 \in Nat
  BY <1>1
<1>5. [w EXCEPT !.now = w.now + 1, !.busyTicks = ticks] \in Worlds
  BY <1>2, <1>4 DEF Worlds
<1>6. Pass(w).now = w.now + 1 /\ Pass(w).busyTicks = ticks
  BY <1>3 DEF Worlds
<1>7. \A f \in {"prov", "present", "busy", "attr", "sideOk", "active", "gen", "changes"} :
        Pass(w)[f] = w[f]
  BY <1>3 DEF Worlds
<1> QED
  BY <1>2, <1>3, <1>5, <1>6, <1>7

(* What a collection reads is the counters of the instances present, now.   *)
LEMMA CollectedType ==
  ASSUME NEW w \in Worlds
  PROVE  Collected(w) \in Collections /\ Collected(w).t = w.now
         /\ \A i \in w.present : Collected(w).v[i] = w.busyTicks[i]
BY DEF Collected, Collections, Worlds

(* The marker of an absent value is none of the values.                     *)
LEMMA ErrorsDiffer ==
  /\ \A e \in InitErrors : e # None
  /\ None \notin Int /\ None \notin Queries /\ None \notin [e : Nat, t : Nat]
BY PdhAssumption

(* A warm-up over a table of present instances.                             *)
LEMMA WarmUpBuilds ==
  ASSUME NEW w \in Worlds, NEW T \in SUBSET Insts, w.prov = "up" => Covers(T, w)
  PROVE  Builds(warm_up(w, T), w)
<1>1. CASE w.prov = "up"
  <2>1. warm_up(w, T) = [err |-> None, w |-> Pass(w),
                         q |-> [table |-> T, c0 |-> Collected(w), c1 |-> Collected(Pass(w))]]
    BY <1>1 DEF warm_up, collect
  <2>2. Collected(w) \in Collections /\ Collected(Pass(w)) \in Collections
    BY PassKeeps, CollectedType
  <2> QED
    BY <1>1, <2>1, <2>2 DEF Builds, Queries
<1>2. CASE w.prov # "up"
  BY <1>2, ErrorsDiffer DEF warm_up, collect, Builds, InitErrors
<1> QED
  BY <1>1, <1>2

-----------------------------------------------------------------------------
(* The first of a finite set.                                               *)

(* A set of numbers with 0 and the successor of each is all of Nat.         *)
LEMMA SetInduction ==
  ASSUME NEW S, 0 \in S, \A n \in Nat : n \in S => n + 1 \in S
  PROVE  Nat \subseteq S
<1> DEFINE T == Nat \ S
           R == OpToRel(<, Nat)
<1> SUFFICES ASSUME T # {} PROVE FALSE
  OBVIOUS
<1>1. PICK x \in T : \A y \in T : <<y, x>> \notin R
  BY WFMin, NatLessThanWellFounded
<1>2. x \in Nat /\ x # 0 /\ x - 1 \in Nat
  OBVIOUS
<1>3. <<x - 1, x>> \in R
  BY <1>2 DEF OpToRel
<1>4. x - 1 \notin T
  BY <1>1, <1>3
<1> QED
  BY <1>2, <1>4

(* Some element of a finite set has the greatest value.                     *)
LEMMA Greatest ==
  ASSUME NEW S, IsFiniteSet(S), S # {}, NEW f \in [S -> Int]
  PROVE  \E m \in S : \A y \in S : f[m] >= f[y]
<1> DEFINE N == {n \in Nat : \A T \in SUBSET S : Cardinality(T) = n + 1 =>
                    \E m \in T : \A y \in T : f[m] >= f[y]}
<1>1. 0 \in N
  <2> SUFFICES ASSUME NEW T \in SUBSET S, Cardinality(T) = 1
               PROVE  \E m \in T : \A y \in T : f[m] >= f[y]
    OBVIOUS
  <2>1. PICK x : T = {x}
    BY FS_Subset, FS_Singleton
  <2> QED
    BY <2>1
<1>2. ASSUME NEW n \in Nat, n \in N PROVE n + 1 \in N
  <2> SUFFICES ASSUME NEW T \in SUBSET S, Cardinality(T) = n + 2
               PROVE  \E m \in T : \A y \in T : f[m] >= f[y]
    OBVIOUS
  <2>1. IsFiniteSet(T)
    BY FS_Subset
  <2>2. T # {}
    BY FS_EmptySet
  <2>3. PICK x \in T : TRUE
    BY <2>2
  <2>4. Cardinality(T \ {x}) = n + 1
    <3>1. Cardinality(T \ {x}) = Cardinality(T) - 1
      BY <2>1, <2>3, FS_RemoveElement
    <3> QED
      BY <3>1
  <2>5. PICK m \in T \ {x} : \A y \in T \ {x} : f[m] >= f[y]
    BY <1>2, <2>4
  <2>6. CASE f[x] >= f[m]
    BY <2>3, <2>5, <2>6
  <2>7. CASE ~(f[x] >= f[m])
    <3>1. f[m] >= f[x]
      BY <2>3, <2>5, <2>7
    <3> QED
      BY <2>5, <3>1
  <2> QED
    BY <2>6, <2>7
<1>3. Nat \subseteq N
  <2> HIDE DEF N
  <2> QED
    BY <1>1, <1>2, SetInduction
<1>4. Cardinality(S) \in Nat /\ Cardinality(S) # 0
  BY FS_CardinalityType, FS_EmptySet
<1>5. Cardinality(S) - 1 \in N
  BY <1>3, <1>4
<1>6. \A T \in SUBSET S : Cardinality(T) = (Cardinality(S) - 1) + 1 =>
        \E m \in T : \A y \in T : f[m] >= f[y]
  BY <1>5
<1>7. Cardinality(S) = (Cardinality(S) - 1) + 1 /\ S \in SUBSET S
  BY <1>4
<1> QED
  BY <1>6, <1>7

(* A finite set has its n greatest elements.                                *)
LEMMA GreatestOnes ==
  ASSUME NEW S, IsFiniteSet(S), NEW f \in [S -> Int],
         NEW k \in Nat, k <= Cardinality(S)
  PROVE  \E s \in SUBSET S : Cardinality(s) = k /\ \A x \in s, y \in S \ s : f[x] >= f[y]
<1> DEFINE N == {n \in Nat : n <= Cardinality(S) =>
                   \E s \in SUBSET S : Cardinality(s) = n /\ \A x \in s, y \in S \ s : f[x] >= f[y]}
<1>1. 0 \in N
  <2>1. {} \in SUBSET S /\ Cardinality({}) = 0
    BY FS_EmptySet
  <2> QED
    BY <2>1
<1>2. ASSUME NEW n \in Nat, n \in N PROVE n + 1 \in N
  <2> SUFFICES ASSUME n + 1 <= Cardinality(S)
               PROVE  \E s \in SUBSET S : Cardinality(s) = n + 1
                                          /\ \A x \in s, y \in S \ s : f[x] >= f[y]
    OBVIOUS
  <2>1. Cardinality(S) \in Nat
    BY FS_CardinalityType
  <2>2. PICK s \in SUBSET S : Cardinality(s) = n /\ \A x \in s, y \in S \ s : f[x] >= f[y]
    BY <1>2, <2>1
  <2>3. S \ s # {} /\ IsFiniteSet(S \ s) /\ IsFiniteSet(s)
    <3>1. s # S
      BY <2>1, <2>2
    <3> QED
      BY <3>1, FS_Subset
  <2>4. [y \in S \ s |-> f[y]] \in [S \ s -> Int]
    OBVIOUS
  <2>5. PICK m \in S \ s : \A y \in S \ s : f[m] >= f[y]
    <3> DEFINE g == [y \in S \ s |-> f[y]]
    <3>1. \E m \in S \ s : \A y \in S \ s : g[m] >= g[y]
      BY <2>3, <2>4, Greatest
    <3> QED
      BY <3>1
  <2>6. Cardinality(s \cup {m}) = n + 1
    BY <2>2, <2>3, <2>5, FS_AddElement
  <2>7. \A x \in s \cup {m}, y \in S \ (s \cup {m}) : f[x] >= f[y]
    BY <2>2, <2>5
  <2>8. s \cup {m} \in SUBSET S
    OBVIOUS
  <2> QED
    BY <2>6, <2>7, <2>8
<1>3. Nat \subseteq N
  <2> HIDE DEF N
  <2> QED
    BY <1>1, <1>2, SetInduction
<1> QED
  BY <1>3

-----------------------------------------------------------------------------
(* Building a query.                                                        *)

(* The assumptions about the constants, as facts to cite.                   *)
LEMMA Intervals ==
  /\ IsFiniteSet(Insts) /\ Pkg \in Insts /\ RebuildEvery \in Nat \ {0}
  /\ MaxBackoff \in Nat \ {0} /\ MaxEngines \in Nat
BY PdhAssumption

(* A query that cannot be opened, or has no instances, is an error.         *)
LEMMA UnbuiltBuilds ==
  ASSUME NEW w \in Worlds
  PROVE  /\ open(w) # None => Builds(Unbuilt(w, open(w)), w)
         /\ enum_instances(w) = {} => Builds(Unbuilt(w, "none added"), w)
         /\ enum_instances(w) \in SUBSET Insts
         /\ w.prov = "up" => Covers(enum_instances(w), w)
<1>1. w.present \in SUBSET Insts
  BY DEF Worlds
<1>2. open(w) # None => open(w) \in {"busy", "denied"} /\ w.prov # "up"
  BY DEF open
<1>3. enum_instances(w) = {} => w.prov # "up" \/ w.present = {}
  BY DEF enum_instances
<1> QED
  BY <1>1, <1>2, <1>3 DEF Builds, Unbuilt, InitErrors, enum_instances, Covers

(* The CPU collector's build is complete or reports an error.               *)
LEMMA CpuBuilds ==
  ASSUME NEW w \in Worlds
  PROVE  Builds(init_inner(w), w)
BY UnbuiltBuilds, WarmUpBuilds DEF init_inner

(* So is the storage collector's.                                           *)
LEMMA StorageBuilds ==
  ASSUME NEW w \in Worlds
  PROVE  Builds(build_counters_storage(w), w)
BY UnbuiltBuilds, WarmUpBuilds DEF build_counters_storage

(* And the network collector's.                                             *)
LEMMA NetBuilds ==
  ASSUME NEW w \in Worlds
  PROVE  Builds(build_counters_net(w), w)
BY UnbuiltBuilds, WarmUpBuilds DEF build_counters_net

(* The GPU table is complete unless there are more engines than its cap.    *)
LEMMA GpuBuilds ==
  ASSUME NEW w \in Worlds, kind = "gpu"
  PROVE  Builds(build_counters_gpu(w), w)
<1> DEFINE T == enum_instances(w)
           b == warm_up(w, T)
           cut == CHOOSE s \in SUBSET T : Cardinality(s) = MaxEngines
<1>1. Builds(b, w)
  BY UnbuiltBuilds, WarmUpBuilds
<1>2. T \in SUBSET Insts
  BY UnbuiltBuilds
<1>3. CASE open(w) # None \/ T = {}
  BY <1>3, UnbuiltBuilds DEF build_counters_gpu
<1>4. CASE ~(open(w) # None \/ T = {}) /\ (b.q = None \/ Cardinality(T) <= MaxEngines)
  <2>1. build_counters_gpu(w) = b
    BY <1>4 DEF build_counters_gpu
  <2> QED
    BY <1>1, <2>1
<1>5. CASE ~(open(w) # None \/ T = {}) /\ ~(b.q = None \/ Cardinality(T) <= MaxEngines)
  <2>1. IsFiniteSet(T) /\ Cardinality(T) <= Cardinality(Insts)
    BY <1>2, Intervals, FS_Subset
  <2>2. Cardinality(T) \in Nat /\ Cardinality(Insts) \in Nat
    BY <2>1, Intervals, FS_CardinalityType
  <2>3. MaxEngines <= Cardinality(T) /\ ~(Cardinality(Insts) <= MaxEngines)
    BY <1>5, <2>1, <2>2, Intervals
  <2>4. \E s \in SUBSET T : Cardinality(s) = MaxEngines
    <3>1. [x \in T |-> 0] \in [T -> Int]
      OBVIOUS
    <3> QED
      BY <2>1, <2>3, <3>1, Intervals, GreatestOnes
  <2>5. cut \in SUBSET T
    BY <2>4
  <2> HIDE DEF cut
  <2>6. b.err = None /\ w.prov = "up" /\ b.w = Pass(w) /\ b.q.c1 = Collected(b.w)
        /\ b.q \in Queries
    <3>1. collect(w) = None
      <4>1. collect(w) # None => b.q = None
        BY Zenon DEF warm_up
      <4> QED
        BY <1>5, <4>1
    <3>2. "no data" # None
      BY ErrorsDiffer DEF InitErrors
    <3>3. w.prov = "up"
      BY <3>1, <3>2 DEF collect
    <3>4. b.err = None
      BY <3>1 DEF warm_up
    <3> QED
      BY <1>1, <3>3, <3>4, ErrorsDiffer DEF Builds
  <2>7. build_counters_gpu(w) = [b EXCEPT !.q = [b.q EXCEPT !.table = cut]]
    BY <1>5, Zenon DEF build_counters_gpu, cut
  <2>8. DOMAIN b = {"err", "w", "q"}
    BY <2>6 DEF warm_up, collect
  <2> HIDE DEF b, T
  <2>9. [b.q EXCEPT !.table = cut] \in Queries /\ [b.q EXCEPT !.table = cut].c1 = b.q.c1
    BY <1>2, <2>5, <2>6 DEF Queries
  <2>10. build_counters_gpu(w).q = [b.q EXCEPT !.table = cut]
         /\ build_counters_gpu(w).err = b.err /\ build_counters_gpu(w).w = b.w
    BY <2>7, <2>8
  <2> QED
    BY <2>3, <2>6, <2>9, <2>10 DEF Builds, Covers
<1> QED
  BY <1>3, <1>4, <1>5

-----------------------------------------------------------------------------
(* The stages of a counter read.                                            *)

(* A collector before a stage, and what every stage keeps of it.            *)
Staged(c) ==
  /\ DOMAIN c = Fields /\ c.q \in {None} \cup Queries /\ c.retry \in Retries
  /\ c.tick \in Nat /\ c.fresh = FALSE /\ c.stale \in BOOLEAN
Keeps(r, c) ==
  /\ DOMAIN r = {"col", "world", "err", "how"} /\ r.world \in Worlds
  /\ DOMAIN r.col = Fields /\ r.col.stale \in BOOLEAN /\ r.col.retry \in Retries
  /\ \A f \in Fields \ {"q", "retry", "fresh", "stale"} : r.col[f] = c[f]

(* The query is as it was, or made in this read; or there is none, because  *)
(* it is too early to try or because the provider does not answer.          *)
Held(r, c, w) ==
  /\ r.err = None /\ r.how = "steady" /\ c.q # None /\ r.col.q = c.q
  /\ r.col.fresh = FALSE /\ r.col.retry = c.retry /\ r.world = w
Anew(r, w) ==
  /\ r.err = None /\ r.how \in {"init", "rebuild"} /\ w.prov = "up"
  /\ r.world \in {Pass(w), Pass(Pass(w))}
  /\ r.col.q \in Queries /\ r.col.q.c1 = Collected(r.world) /\ Covers(r.col.q.table, w)
Waits(r, c, w) ==
  /\ c.q = None /\ ~may_attempt(c.retry, c.tick)
  /\ r.err = c.retry.error /\ r.err # None /\ r.how # "steady" /\ r.world = w
  /\ r.col.q = None /\ r.col.fresh = FALSE /\ r.col.retry = c.retry
Refused(r, c, w) ==
  /\ c.q = None /\ may_attempt(c.retry, c.tick)
  /\ r.err \in InitErrors /\ r.how # "steady" /\ r.world = w
  /\ w.prov # "up" \/ w.present = {}
  /\ r.col.q = None /\ r.col.fresh = FALSE
  /\ r.col.retry = note_failure(c.retry, c.tick, r.err)
Ready(r, c, w) ==
  /\ Keeps(r, c)
  /\ Held(r, c, w) \/ (Anew(r, w) /\ r.col.fresh \in BOOLEAN) \/ Waits(r, c, w) \/ Refused(r, c, w)

(* After the last stage the query holds the collections of this read.       *)
Steadily(r, c, w) ==
  /\ r.err = None /\ r.how = "steady" /\ c.q # None /\ r.col.q = Slid(c.q, w)
  /\ w.prov = "up" /\ r.col.retry = c.retry /\ r.world = w
Lost(r, c, w) ==
  /\ r.err # None /\ r.how = "steady" /\ c.q # None /\ r.col.q = c.q
  /\ w.prov # "up" /\ r.col.retry = c.retry /\ r.world = w
Outcome(r, c, w) ==
  /\ Keeps(r, c) /\ r.col.fresh = FALSE
  /\ Steadily(r, c, w) \/ Anew(r, w) \/ Lost(r, c, w) \/ Waits(r, c, w) \/ Refused(r, c, w)

(* A table that was not made anew: when one was due, nothing was there.     *)
Lapsed(r, c, w, flags) ==
  r.how = "steady" =>
    IF c.tick % RebuildEvery = 0 THEN (flags => r.col.stale) /\ (w.prov # "up" \/ w.present = {})
    ELSE r.col.stale = c.stale

(* Noting a failure or a success keeps the retry state well formed.         *)
LEMMA RetryType ==
  ASSUME NEW r \in Retries, NEW tick \in Nat, NEW e \in InitErrors
  PROVE  note_failure(r, tick, e) \in Retries /\ note_success(r) \in Retries
<1>1. backoff_ticks(r.attempts + 1) \in Int
  BY BackoffCapped DEF Retries
<1>2. tick + backoff_ticks(r.attempts + 1) \in Int /\ r.attempts + 1 \in Nat
  BY <1>1 DEF Retries
<1>3. classify_init_error(e) \in {"permission", "permanent", "gone", "transient"}
  BY DEF classify_init_error, InitErrors
<1>4. note_failure(r, tick, e) \in Retries
  BY <1>2, <1>3 DEF note_failure, Retries
<1>5. note_success(r) \in Retries
  <2>1. [r EXCEPT !.error = None] \in Retries
    BY DEF Retries
  <2>2. \A x \in Retries : [x EXCEPT !.attempts = 0] \in Retries
    BY DEF Retries
  <2>3. \A x \in Retries : [x EXCEPT !.at = 0] \in Retries
    BY DEF Retries
  <2>4. note_success(r) = [[[r EXCEPT !.error = None] EXCEPT !.attempts = 0] EXCEPT !.at = 0]
    BY DEF note_success
  <2> QED
    BY <2>1, <2>2, <2>3, <2>4
<1> QED
  BY <1>4, <1>5

(* After ensure_init the read waits, was refused, or has a query to read.   *)
LEMMA InitReady ==
  ASSUME NEW c, Staged(c), NEW w \in Worlds, NEW b, Builds(b, w)
  PROVE  /\ Ready(ensure_init(c, w, b), c, w)
         /\ ensure_init(c, w, b).how = "steady" => ensure_init(c, w, b).col.stale = c.stale
         /\ ensure_init(c, w, b).world \in {w, Pass(w)}
<1> DEFINE r == ensure_init(c, w, b)
<1>1. CASE c.q # None
  <2>1. r = [col |-> c, world |-> w, err |-> None, how |-> "steady"]
    BY <1>1, Zenon DEF ensure_init
  <2> QED
    BY <1>1, <2>1 DEF Ready, Keeps, Held, Staged
<1>2. CASE c.q = None /\ ~may_attempt(c.retry, c.tick)
  <2>1. r = [col |-> c, world |-> w, err |-> c.retry.error, how |-> "wait"]
    BY <1>2, Zenon DEF ensure_init
  <2>2. c.retry.error # None
    BY <1>2 DEF may_attempt
  <2> QED
    BY <1>2, <2>1, <2>2 DEF Ready, Keeps, Waits, Staged
<1>3. CASE c.q = None /\ may_attempt(c.retry, c.tick) /\ b.err = None
  <2> DEFINE c2 == [c EXCEPT !.q = b.q, !.retry = note_success(c.retry), !.fresh = TRUE]
  <2>1. r = [col |-> c2, world |-> b.w, err |-> None, how |-> "init"]
    BY <1>3, Zenon DEF ensure_init
  <2>2. /\ w.prov = "up" /\ b.w = Pass(w) /\ b.q \in Queries /\ b.q.c1 = Collected(b.w)
        /\ Covers(b.q.table, w)
    BY <1>3, ErrorsDiffer DEF Builds
  <2>3. /\ DOMAIN c2 = Fields /\ c2.q = b.q /\ c2.retry = note_success(c.retry)
        /\ c2.fresh = TRUE /\ c2.fresh \in BOOLEAN
        /\ \A f \in Fields \ {"q", "retry", "fresh"} : c2[f] = c[f]
    BY DEF Staged, Fields
  <2>4. c2.retry \in Retries
    <3>1. "busy" \in InitErrors
      BY DEF InitErrors
    <3> QED
      BY <2>3, <3>1, RetryType DEF Staged
  <2>5. c2.stale \in BOOLEAN
    BY <2>3 DEF Staged, Fields
  <2> HIDE DEF c2
  <2> QED
    <3>1. b.w \in Worlds
      BY <2>2, PassKeeps
    <3>2. Keeps(r, c)
      BY <2>1, <2>3, <2>4, <2>5, <3>1 DEF Keeps
    <3>3. Anew(r, w)
      BY <2>1, <2>2, <2>3 DEF Anew
    <3>4. r.col.fresh \in BOOLEAN
      BY <2>1, <2>3
    <3>5. Ready(r, c, w)
      BY <3>2, <3>3, <3>4 DEF Ready
    <3> QED
      BY <2>1, <2>2, <3>5
<1>4. CASE c.q = None /\ may_attempt(c.retry, c.tick) /\ b.err # None
  <2> DEFINE c2 == [c EXCEPT !.retry = note_failure(c.retry, c.tick, b.err)]
  <2>1. r = [col |-> c2, world |-> w, err |-> b.err, how |-> "init"]
    BY <1>4, Zenon DEF ensure_init
  <2>2. b.err \in InitErrors /\ (w.prov # "up" \/ w.present = {})
    BY <1>4, ErrorsDiffer DEF Builds
  <2>3. /\ DOMAIN c2 = Fields /\ c2.retry = note_failure(c.retry, c.tick, b.err)
        /\ \A f \in Fields \ {"retry"} : c2[f] = c[f]
    BY DEF Staged, Fields
  <2>4. c2.retry \in Retries
    BY <2>2, <2>3, RetryType DEF Staged
  <2>5. c2.stale \in BOOLEAN /\ c2.q = None /\ c2.fresh = FALSE
    BY <1>4, <2>3 DEF Staged, Fields
  <2> HIDE DEF c2
  <2> QED
    BY <1>4, <2>1, <2>2, <2>3, <2>4, <2>5 DEF Ready, Keeps, Refused
<1> QED
  BY <1>1, <1>2, <1>3, <1>4

(* A rebuild keeps that, and no instance table outlives its interval.       *)
LEMMA RebuildReady ==
  ASSUME NEW c, Staged(c), NEW w \in Worlds, NEW i, Ready(i, c, w),
         i.how = "steady" => i.col.stale = c.stale, i.world \in {w, Pass(w)},
         NEW b, Builds(b, i.world), NEW flags \in BOOLEAN
  PROVE  Ready(rebuild(i, b, flags), c, w) /\ Lapsed(rebuild(i, b, flags), c, w, flags)
<1> DEFINE r == rebuild(i, b, flags)
<1>1. Keeps(i, c) /\ i.col.tick = c.tick
  BY DEF Ready, Keeps, Fields
<1>2. i.world.prov = w.prov /\ i.world.present = w.present
  BY PassKeeps
<1>3. CASE i.err # None
  <2>1. r = i
    BY <1>3, Zenon DEF rebuild
  <2>2. i.how # "steady"
    BY <1>3 DEF Ready, Held, Anew, Waits, Refused
  <2> QED
    BY <2>1, <2>2 DEF Lapsed
<1>4. CASE i.err = None /\ i.col.tick % RebuildEvery # 0
  <2>1. r = i
    BY <1>4, Zenon DEF rebuild
  <2> QED
    BY <1>1, <1>4, <2>1 DEF Lapsed
<1>5. CASE i.err = None /\ i.col.tick % RebuildEvery = 0 /\ b.err = None
  <2> DEFINE c2 == [i.col EXCEPT !.q = b.q, !.stale = ~flags /\ i.col.stale]
  <2>1. r = [col |-> c2, world |-> b.w, err |-> None, how |-> "rebuild"]
    BY <1>5, Zenon DEF rebuild
  <2>2. /\ w.prov = "up" /\ b.w \in {Pass(w), Pass(Pass(w))} /\ b.w \in Worlds
        /\ b.q \in Queries /\ b.q.c1 = Collected(b.w) /\ Covers(b.q.table, w)
    <3>1. /\ b.w = Pass(i.world) /\ i.world.prov = "up" /\ b.q \in Queries
          /\ b.q.c1 = Collected(b.w) /\ Covers(b.q.table, i.world)
      BY <1>5, ErrorsDiffer DEF Builds
    <3>2. i.world \in Worlds
      BY PassKeeps
    <3> QED
      BY <1>2, <3>1, <3>2, PassKeeps DEF Covers
  <2>3. /\ DOMAIN c2 = Fields /\ c2.q = b.q /\ c2.stale \in BOOLEAN
        /\ \A f \in Fields \ {"q", "stale"} : c2[f] = i.col[f]
    BY <1>1 DEF Keeps, Fields
  <2>4. c2.fresh \in BOOLEAN
    <3>1. i.col.fresh \in BOOLEAN
      BY DEF Ready, Held, Waits, Refused
    <3> QED
      BY <2>3, <3>1 DEF Fields
  <2> HIDE DEF c2
  <2>5. c2.retry \in Retries /\ \A f \in Fields \ {"q", "retry", "fresh", "stale"} : c2[f] = c[f]
    BY <1>1, <2>3 DEF Keeps, Fields
  <2>6. Keeps(r, c)
    BY <2>1, <2>2, <2>3, <2>5 DEF Keeps
  <2>7. Anew(r, w) /\ r.col.fresh \in BOOLEAN /\ r.how = "rebuild"
    BY <2>1, <2>2, <2>3, <2>4 DEF Anew
  <2> QED
    BY <2>6, <2>7 DEF Ready, Lapsed
<1>6. CASE i.err = None /\ i.col.tick % RebuildEvery = 0 /\ b.err # None
  <2> DEFINE c2 == [i.col EXCEPT !.stale = flags \/ i.col.stale]
  <2>1. r = [i EXCEPT !.col = c2]
    BY <1>6, Zenon DEF rebuild
  <2>2. w.prov # "up" \/ w.present = {}
    BY <1>2, <1>6, Zenon DEF Builds
  <2>3. /\ DOMAIN c2 = Fields /\ c2.stale \in BOOLEAN /\ (flags => c2.stale)
        /\ \A f \in Fields \ {"stale"} : c2[f] = i.col[f]
    BY <1>1 DEF Keeps, Fields
  <2>4. c2.q = i.col.q /\ c2.fresh = i.col.fresh /\ c2.retry = i.col.retry
    BY <2>3 DEF Fields
  <2> HIDE DEF c2
  <2>5. DOMAIN r = DOMAIN i /\ r.col = c2 /\ r.world = i.world /\ r.err = i.err /\ r.how = i.how
    BY <1>1, <2>1 DEF Keeps
  <2>6. Keeps(r, c)
    BY <1>1, <2>3, <2>4, <2>5 DEF Keeps, Fields
  <2>7. Held(i, c, w) => Held(r, c, w)
    BY <2>4, <2>5 DEF Held
  <2>8. Anew(i, w) /\ i.col.fresh \in BOOLEAN => Anew(r, w) /\ r.col.fresh \in BOOLEAN
    BY <2>4, <2>5 DEF Anew
  <2>9. ~Waits(i, c, w) /\ ~Refused(i, c, w)
    BY <1>6, ErrorsDiffer DEF Waits, Refused
  <2> QED
    BY <1>1, <1>6, <2>2, <2>3, <2>5, <2>6, <2>7, <2>8, <2>9 DEF Ready, Lapsed
<1> QED
  BY <1>3, <1>4, <1>5, <1>6

(* After the window the query holds the reading just taken, or an error.    *)
LEMMA WindowOutcome ==
  ASSUME NEW c, Staged(c), NEW w \in Worlds, NEW i, Ready(i, c, w)
  PROVE  /\ Outcome(window(i), c, w)
         /\ window(i).how = i.how /\ window(i).col.stale = i.col.stale
<1> DEFINE r == window(i)
<1>1. Keeps(i, c) /\ DOMAIN i = {"col", "world", "err", "how"}
  BY DEF Ready, Keeps
<1>2. CASE i.err # None
  <2>1. r = i
    BY <1>2, Zenon DEF window
  <2>2. Waits(i, c, w) \/ Refused(i, c, w)
    BY <1>2 DEF Ready, Held, Anew
  <2>3. i.col.fresh = FALSE
    BY <2>2 DEF Waits, Refused
  <2> QED
    BY <1>1, <2>1, <2>2, <2>3 DEF Outcome
<1>3. CASE i.err = None /\ i.col.fresh
  <2> DEFINE c2 == [i.col EXCEPT !.fresh = FALSE]
  <2>1. r = [i EXCEPT !.col = c2]
    BY <1>3, Zenon DEF window
  <2>2. Anew(i, w)
    BY <1>3, ErrorsDiffer DEF Ready, Held, Waits, Refused
  <2>3. DOMAIN c2 = Fields /\ c2.fresh = FALSE /\ \A f \in Fields \ {"fresh"} : c2[f] = i.col[f]
    BY <1>1 DEF Keeps, Fields
  <2>4. c2.q = i.col.q /\ c2.stale = i.col.stale /\ c2.retry = i.col.retry
    BY <2>3 DEF Fields
  <2> HIDE DEF c2
  <2>5. DOMAIN r = DOMAIN i /\ r.col = c2 /\ r.world = i.world /\ r.err = i.err /\ r.how = i.how
    BY <1>1, <2>1
  <2>6. Keeps(r, c)
    BY <1>1, <2>3, <2>4, <2>5 DEF Keeps, Fields
  <2>7. Anew(r, w)
    BY <2>2, <2>4, <2>5 DEF Anew
  <2> QED
    BY <2>3, <2>4, <2>5, <2>6, <2>7 DEF Outcome
<1>4. CASE i.err = None /\ ~i.col.fresh /\ collect(i.world) # None
  <2>1. r = [i EXCEPT !.err = collect(i.world)]
    BY <1>4, Zenon DEF window
  <2>2. i.world.prov # "up" /\ collect(i.world) # None
    BY <1>4 DEF collect
  <2>3. ~Anew(i, w)
    BY <2>2, PassKeeps DEF Anew
  <2>4. Held(i, c, w)
    BY <1>4, <2>3, ErrorsDiffer DEF Ready, Waits, Refused
  <2>5. /\ DOMAIN r = DOMAIN i /\ r.col = i.col /\ r.world = i.world /\ r.how = i.how
        /\ r.err = collect(i.world)
    BY <1>1, <2>1
  <2>6. Keeps(r, c)
    BY <1>1, <2>5 DEF Keeps
  <2>7. Lost(r, c, w) /\ r.col.fresh = FALSE
    BY <2>2, <2>4, <2>5 DEF Held, Lost
  <2> QED
    BY <2>5, <2>6, <2>7 DEF Outcome
<1>5. CASE i.err = None /\ ~i.col.fresh /\ collect(i.world) = None
  <2> DEFINE c2 == [i.col EXCEPT !.q = Slid(i.col.q, i.world)]
  <2>1. r = [i EXCEPT !.col = c2]
    BY <1>5, Zenon DEF window
  <2>2. i.world.prov = "up"
    <3>1. "no data" # None
      BY ErrorsDiffer DEF InitErrors
    <3> QED
      BY <1>5, <3>1 DEF collect
  <2>3. /\ DOMAIN c2 = Fields /\ c2.q = Slid(i.col.q, i.world)
        /\ \A f \in Fields \ {"q"} : c2[f] = i.col[f]
    BY <1>1 DEF Keeps, Fields
  <2>4. c2.fresh = i.col.fresh /\ c2.stale = i.col.stale /\ c2.retry = i.col.retry
    BY <2>3 DEF Fields
  <2> HIDE DEF c2
  <2>5. DOMAIN r = DOMAIN i /\ r.col = c2 /\ r.world = i.world /\ r.err = i.err /\ r.how = i.how
    BY <1>1, <2>1
  <2>6. Keeps(r, c)
    BY <1>1, <2>3, <2>4, <2>5 DEF Keeps, Fields
  <2>7. i.col.fresh \in BOOLEAN
    BY DEF Ready, Held, Waits, Refused
  <2>8. r.col.fresh = FALSE
    BY <1>5, <2>4, <2>5, <2>7
  <2>9. CASE Held(i, c, w)
    <3>1. Steadily(r, c, w)
      BY <2>2, <2>3, <2>4, <2>5, <2>9 DEF Held, Steadily
    <3> QED
      BY <2>4, <2>5, <2>6, <2>8, <3>1 DEF Outcome
  <2>10. CASE Anew(i, w)
    <3>1. i.world \in Worlds
      BY <1>1 DEF Keeps
    <3>2. /\ Slid(i.col.q, i.world) \in Queries
          /\ Slid(i.col.q, i.world).c1 = Collected(i.world)
          /\ Slid(i.col.q, i.world).table = i.col.q.table
      <4>1. i.col.q \in Queries /\ Collected(i.world) \in Collections
        BY <2>10, <3>1, CollectedType DEF Anew
      <4> QED
        BY <4>1 DEF Slid, Queries
    <3>3. Anew(r, w)
      BY <2>3, <2>5, <2>10, <3>2 DEF Anew
    <3> QED
      BY <2>4, <2>5, <2>6, <2>8, <3>3 DEF Outcome
  <2> QED
    BY <1>5, <2>9, <2>10, ErrorsDiffer DEF Ready, Waits, Refused
<1> QED
  BY <1>2, <1>3, <1>4, <1>5

-----------------------------------------------------------------------------
(* A read, and what the properties remember of it.                          *)

Reads(r) ==
  /\ due /\ col' = r.col
  /\ world' = [r.world EXCEPT !.changes = IF r.world.active # world.active THEN @ + 1 ELSE @]
  /\ out' = [how |-> r.how, err |-> r.err, sample |-> r.sample]
  /\ hist' = Recorded(hist, world, r)
  /\ reads' = reads + 1 /\ due' = FALSE /\ kind' = kind

(* The instances a read is about, and the system at its end.                *)
About == IF kind = "proc" THEN {i \in world.present : Value(world, i)} ELSE Insts
Later(w) ==
  /\ w \in Worlds /\ w.now >= world.now
  /\ w.gen = world.gen /\ w.present = world.present /\ w.attr = world.attr
  /\ w.sideOk = world.sideOk /\ w.prov = world.prov
  /\ \A i \in Insts : w.busyTicks[i] >= world.busyTicks[i]

(* What every read does.                                                    *)
Common(r) ==
  /\ DOMAIN r.col = Fields /\ r.col.q \in {None} \cup Queries /\ r.col.retry \in Retries
  /\ r.col.tick \in Nat /\ r.col.inv \in Nat /\ r.col.effAt \in {col.effAt, world.now}
  /\ r.col.fresh = FALSE /\ r.col.stale \in BOOLEAN /\ r.col.ever \in BOOLEAN
  /\ Later(r.world)

(* What the fields of the system's state range over.                        *)
LEMMA WorldType ==
  ASSUME NEW w \in Worlds
  PROVE  /\ w.now \in Nat /\ w.changes \in Nat /\ w.present \in SUBSET Insts
         /\ w.attr \in SUBSET Insts /\ w.sideOk \in BOOLEAN /\ w.active \in Insts
         /\ \A i \in Insts : w.busyTicks[i] \in Nat /\ w.gen[i] \in Nat
BY DEF Worlds

(* Collecting once or twice only moves the system's counters on.            *)
LEMMA LaterPass ==
  ASSUME world \in Worlds
  PROVE  Later(world) /\ Later(Pass(world)) /\ Later(Pass(Pass(world)))
<1>1. /\ Pass(world) \in Worlds /\ Pass(Pass(world)) \in Worlds
      /\ Pass(world).now = world.now + 1 /\ Pass(Pass(world)).now = Pass(world).now + 1
  BY PassKeeps
<1>2. \A i \in Insts : /\ Pass(world).busyTicks[i] >= world.busyTicks[i]
                       /\ Pass(Pass(world)).busyTicks[i] >= Pass(world).busyTicks[i]
  BY <1>1, PassKeeps
<1>3. \A i \in Insts : Pass(Pass(world)).busyTicks[i] >= world.busyTicks[i]
  <2>1. \A i \in Insts : /\ world.busyTicks[i] \in Nat /\ Pass(world).busyTicks[i] \in Nat
                         /\ Pass(Pass(world)).busyTicks[i] \in Nat
    BY <1>1, WorldType
  <2> QED
    BY <1>2, <2>1
<1>4. \A f \in {"gen", "present", "attr", "sideOk", "prov"} :
        Pass(world)[f] = world[f] /\ Pass(Pass(world))[f] = world[f]
  BY <1>1, PassKeeps
<1>5. world.now \in Nat /\ \A i \in Insts : world.busyTicks[i] \in Nat
  BY DEF Worlds
<1> QED
  BY <1>1, <1>2, <1>3, <1>4, <1>5 DEF Later

(* The marks after a read.                                                  *)
LEMMA MarksAfter ==
  ASSUME NEW r, Reads(r), r.world \in Worlds, hist.last \in [Insts -> {None} \cup Marks]
  PROVE  /\ hist'.last \in [Insts -> {None} \cup Marks]
         /\ \A i \in Insts :
              hist'.last[i] = IF r.err # None \/ i \notin About THEN hist.last[i]
                              ELSE IF i \in r.world.present THEN Mark(r.world, i) ELSE None
         /\ \A i \in Insts : Mark(r.world, i) \in Marks /\ Mark(r.world, i) # None
<1>1. \A i \in Insts :
        hist'.last[i] = IF r.err # None \/ i \notin About THEN hist.last[i]
                        ELSE IF i \in r.world.present THEN Mark(r.world, i) ELSE None
  BY DEF Reads, Recorded, About
<1>2. \A i \in Insts : Mark(r.world, i) \in Marks
  BY DEF Mark, Marks, Worlds
<1>3. None \notin Marks
  BY CollectorsAssumption
<1>4. \E f : hist'.last = [i \in Insts |-> f[i]]
  <2>1. hist'.last = [i \in Insts |-> IF r.err # None \/ i \notin About THEN hist.last[i]
                        ELSE IF i \in r.world.present THEN Mark(r.world, i) ELSE None]
    BY DEF Reads, Recorded, About
  <2> QED
    BY <2>1
<1> QED
  BY <1>1, <1>2, <1>3, <1>4

(* What every read does to the state keeps its type and the past readings.  *)
LEMMA CommonKeeps ==
  ASSUME TypeOK, PastReadings, NEW r, Reads(r), Common(r)
  PROVE  TypeOK' /\ PastReadings'
<1>1. /\ r.world \in Worlds /\ r.world.now >= world.now /\ r.world.gen = world.gen
      /\ \A i \in Insts : r.world.busyTicks[i] >= world.busyTicks[i]
  BY DEF Common, Later
<1>2. world' \in Worlds /\ \A f \in {"now", "gen", "busyTicks"} : world'[f] = r.world[f]
  <2> DEFINE n == IF r.world.active # world.active THEN r.world.changes + 1 ELSE r.world.changes
  <2>1. n \in Nat
    BY <1>1, WorldType
  <2>2. world' = [r.world EXCEPT !.changes = n]
    BY DEF Reads
  <2> HIDE DEF n
  <2> QED
    BY <1>1, <2>1, <2>2 DEF Worlds
<1>3. /\ hist'.last \in [Insts -> {None} \cup Marks]
      /\ hist'.age \in [Insts -> Nat] /\ hist'.upAge \in [Insts -> Nat]
      /\ hist'.failing \in Nat /\ hist'.clean \in BOOLEAN
  <2>1. hist'.last \in [Insts -> {None} \cup Marks]
    BY <1>1, MarksAfter DEF TypeOK
  <2>2. hist'.age = [i \in Insts |-> IF i \in world.present THEN hist.age[i] + 1 ELSE 0]
    BY DEF Reads, Recorded
  <2>3. hist'.upAge = [i \in Insts |-> IF i \in world.present /\ world.prov = "up"
                                       THEN hist.upAge[i] + 1 ELSE 0]
    BY DEF Reads, Recorded
  <2>4. hist'.failing \in {0, hist.failing + 1}
    BY DEF Reads, Recorded
  <2>5. hist'.clean \in BOOLEAN
    BY DEF Reads, Recorded
  <2> QED
    BY <2>1, <2>2, <2>3, <2>4, <2>5 DEF TypeOK
<1>4. TypeOK'
  <2>1. world.now \in Nat /\ col.effAt \in Nat
    BY DEF TypeOK, Worlds
  <2>2. r.col.effAt \in Nat
    BY <2>1 DEF Common
  <2>3. kind' = kind /\ col' = r.col /\ due' = FALSE
    BY DEF Reads
  <2> QED
    BY <1>2, <1>3, <2>2, <2>3 DEF TypeOK, Common
<1>5. PastReadings'
  <2>1. due' = FALSE /\ col'.effAt <= world'.now
    <3>1. world.now \in Nat /\ r.world.now \in Nat /\ col.effAt \in Nat
      BY <1>1 DEF TypeOK, Worlds
    <3>2. r.col.effAt <= r.world.now
      BY <1>1, <3>1 DEF Common, PastReadings
    <3> QED
      BY <1>2, <3>2 DEF Reads
  <2>2. ASSUME NEW i \in Insts, hist'.last[i] # None
        PROVE  /\ hist'.last[i].t <= world'.now /\ hist'.last[i].gen <= world'.gen[i]
               /\ hist'.last[i].gen = world'.gen[i] => hist'.last[i].work <= world'.busyTicks[i]
    <3>1. /\ world.now \in Nat /\ r.world.now \in Nat /\ world.gen[i] \in Nat
          /\ world.busyTicks[i] \in Nat /\ r.world.busyTicks[i] \in Nat
      BY <1>1 DEF TypeOK, Worlds
    <3>2. CASE hist'.last[i] = hist.last[i]
      <4>1. hist.last[i] \in Marks
        BY <2>2, <3>2 DEF TypeOK
      <4>2. hist.last[i].t \in Nat /\ hist.last[i].work \in Nat /\ hist.last[i].gen \in Nat
        BY <4>1 DEF Marks
      <4>3. /\ hist.last[i].t <= world.now /\ hist.last[i].gen <= world.gen[i]
            /\ hist.last[i].gen = world.gen[i] => hist.last[i].work <= world.busyTicks[i]
        BY <2>2, <3>2 DEF PastReadings
      <4>4. r.world.busyTicks[i] >= world.busyTicks[i]
        BY <1>1
      <4> QED
        BY <1>1, <1>2, <3>1, <3>2, <4>2, <4>3, <4>4
    <3>3. CASE hist'.last[i] = Mark(r.world, i)
      BY <1>1, <1>2, <3>1, <3>3 DEF Mark
    <3> QED
      BY <1>1, <2>2, <3>2, <3>3, MarksAfter DEF TypeOK
  <2> QED
    BY <2>1, <2>2 DEF PastReadings
<1> QED
  BY <1>4, <1>5

-----------------------------------------------------------------------------
(* A counter read as a whole: r answers with what the stages made of z.     *)

Concludes(r, z) ==
  /\ r.world = z.world /\ r.err = z.err
  /\ r.how = IF z.err = None THEN z.how ELSE "failed"
  /\ DOMAIN r.col = Fields /\ r.col.inv \in Nat /\ r.col.ever \in BOOLEAN
  /\ \A f \in {"q", "retry", "tick", "fresh", "stale", "effAt"} : r.col[f] = z.col[f]
PdhRun(r, z, c) ==
  /\ Staged(c) /\ c.tick = col.tick + 1
  /\ \A f \in {"q", "retry", "stale", "effAt"} : c[f] = col[f]
  /\ Outcome(z, c, world) /\ Concludes(r, z)

(* The ways a counter read ends, seen from the collector before it.         *)
LEMMA RunEnds ==
  ASSUME TypeOK, NEW r, NEW z, NEW c, PdhRun(r, z, c)
  PROVE  /\ r.col.tick = col.tick + 1 /\ r.col.stale = z.col.stale
         /\ \/ /\ Steadily(z, c, world) /\ r.how = "steady" /\ r.err = None /\ r.world = world
               /\ col.q # None /\ r.col.q = Slid(col.q, world) /\ world.prov = "up"
               /\ r.col.q \in Queries /\ r.col.q.c1 = Collected(r.world)
            \/ /\ Anew(z, world) /\ r.how \in {"init", "rebuild"} /\ r.err = None
               /\ r.world \in {Pass(world), Pass(Pass(world))}
               /\ r.col.q \in Queries /\ r.col.q.c1 = Collected(r.world)
               /\ Covers(r.col.q.table, world) /\ world.prov = "up"
            \/ /\ Lost(z, c, world) /\ r.how = "failed" /\ r.err # None /\ r.world = world
               /\ col.q # None /\ r.col.q = col.q /\ world.prov # "up"
            \/ /\ Waits(z, c, world) /\ r.how = "failed" /\ r.err # None /\ r.world = world
               /\ col.q = None /\ r.col.q = None /\ r.col.retry = col.retry
               /\ col.retry.error # None /\ ~may_attempt(col.retry, col.tick + 1)
            \/ /\ Refused(z, c, world) /\ r.how = "failed" /\ r.err \in InitErrors
               /\ r.err # None /\ r.world = world /\ col.q = None /\ r.col.q = None
               /\ r.col.retry = note_failure(col.retry, col.tick + 1, r.err)
               /\ world.prov # "up" \/ world.present = {}
<1>1. /\ Outcome(z, c, world) /\ Concludes(r, z) /\ c.tick = col.tick + 1
      /\ c.q = col.q /\ c.retry = col.retry
  BY DEF PdhRun
<1>2. r.col.tick = col.tick + 1
  BY <1>1 DEF Concludes, Outcome, Keeps, Fields
<1>3. /\ r.world = z.world /\ r.err = z.err /\ r.how = (IF z.err = None THEN z.how ELSE "failed")
      /\ r.col.q = z.col.q /\ r.col.retry = z.col.retry /\ r.col.stale = z.col.stale
  BY <1>1 DEF Concludes
<1>4. CASE Steadily(z, c, world)
  <2>1. col.q \in Queries /\ Collected(world) \in Collections
    BY <1>1, <1>4, CollectedType DEF Steadily, TypeOK
  <2>2. Slid(col.q, world) \in Queries /\ Slid(col.q, world).c1 = Collected(world)
    BY <2>1 DEF Slid, Queries
  <2> QED
    BY <1>1, <1>2, <1>3, <1>4, <2>2 DEF Steadily
<1>5. CASE Anew(z, world)
  BY <1>2, <1>3, <1>5 DEF Anew
<1>6. CASE Lost(z, c, world)
  BY <1>1, <1>2, <1>3, <1>6 DEF Lost
<1>7. CASE Waits(z, c, world)
  BY <1>1, <1>2, <1>3, <1>7 DEF Waits
<1>8. CASE Refused(z, c, world)
  BY <1>1, <1>2, <1>3, <1>8, ErrorsDiffer DEF Refused
<1> QED
  BY <1>1, <1>4, <1>5, <1>6, <1>7, <1>8 DEF Outcome

(* A read of a PDH collector is such a read.                                *)
LEMMA RunCommon ==
  ASSUME TypeOK, NEW r, NEW z, NEW c, PdhRun(r, z, c)
  PROVE  Common(r)
<1>1. Later(r.world)
  BY RunEnds, LaterPass DEF TypeOK
<1>2. r.col.q \in {None} \cup Queries
  BY RunEnds DEF TypeOK
<1>3. Concludes(r, z) /\ Keeps(z, c) /\ z.col.fresh = FALSE
  BY DEF PdhRun, Outcome
<1>4. r.col.retry \in Retries /\ r.col.stale \in BOOLEAN /\ r.col.fresh = FALSE
  BY <1>3 DEF Concludes, Keeps
<1>5. r.col.effAt = col.effAt
  BY <1>3 DEF PdhRun, Concludes, Keeps, Fields
<1>6. r.col.tick \in Nat
  <2>1. r.col.tick = col.tick + 1
    BY RunEnds
  <2>2. col.tick \in Nat
    BY DEF TypeOK
  <2> QED
    BY <2>1, <2>2
<1> QED
  BY <1>1, <1>2, <1>3, <1>4, <1>5, <1>6 DEF Common, Concludes

(* The window of the next read starts at this reading, if it was one.       *)
LEMMA RunWindow ==
  ASSUME TypeOK, WindowIsLastReading, kind \in PdhKinds,
         NEW r, NEW z, NEW c, PdhRun(r, z, c), Reads(r),
         kind = "cpu" => /\ r.err # None /\ col.q # None => r.col.prev = col.prev
                         /\ r.err = None /\ Pkg \in r.col.q.table /\ Pkg \in world.present =>
                              r.col.prev = [e |-> r.col.q.c1.v[Pkg], t |-> r.col.q.c1.t]
  PROVE  WindowIsLastReading'
<1> SUFFICES ASSUME NEW i \in Insts, hist'.last[i] # None
             PROVE  /\ r.col.q # None /\ r.col.q.c1.t = hist'.last[i].t
                    /\ r.col.q.c1.v[i] = hist'.last[i].work
                    /\ kind = "cpu" /\ i = Pkg /\ i \in r.col.q.table =>
                         r.col.prev = [e |-> hist'.last[i].work, t |-> hist'.last[i].t]
  BY DEF WindowIsLastReading, Reads
<1>1. /\ r.world \in Worlds /\ r.world.present = world.present
  BY RunCommon DEF Common, Later
<1>2. About = Insts
  BY DEF About, PdhKinds
<1>3. CASE r.err = None
  <2>1. r.col.q \in Queries /\ r.col.q.c1 = Collected(r.world)
    BY <1>3, RunEnds
  <2>2. i \in r.world.present /\ hist'.last[i] = Mark(r.world, i)
    BY <1>1, <1>2, <1>3, MarksAfter DEF TypeOK
  <2>3. Collected(r.world).t = r.world.now /\ Collected(r.world).v[i] = r.world.busyTicks[i]
    BY <1>1, <2>2, CollectedType
  <2>4. hist'.last[i].t = r.world.now /\ hist'.last[i].work = r.world.busyTicks[i]
    BY <2>2 DEF Mark
  <2> QED
    BY <1>1, <1>3, <2>1, <2>2, <2>3, <2>4, ErrorsDiffer
<1>4. CASE r.err # None
  <2>1. hist'.last[i] = hist.last[i]
    BY <1>1, <1>4, MarksAfter DEF TypeOK
  <2>2. /\ col.q # None /\ col.q.c1.t = hist.last[i].t
        /\ col.q.c1.v[i] = hist.last[i].work
        /\ kind = "cpu" /\ i = Pkg /\ i \in col.q.table =>
             col.prev = [e |-> hist.last[i].work, t |-> hist.last[i].t]
    BY <2>1 DEF WindowIsLastReading
  <2>3. r.col.q = col.q
    BY <1>4, <2>2, RunEnds
  <2> QED
    BY <1>4, <2>1, <2>2, <2>3
<1> QED
  BY <1>3, <1>4

(* A read without error ends the failures; one that tried and failed found  *)
(* the provider silent; one that waited is before the end of the wait.      *)
LEMMA RunWaits ==
  ASSUME TypeOK, WaitsAtMost, kind \in PdhKinds,
         NEW r, NEW z, NEW c, PdhRun(r, z, c), Reads(r)
  PROVE  WaitsAtMost'
<1>1. col' = r.col /\ kind' = kind
  BY DEF Reads
<1>2. hist'.failing = IF r.err # None /\ world.prov = "up" /\ world.present # {}
                      THEN hist.failing + 1 ELSE 0
  BY DEF Reads, Recorded
<1>3. CASE hist'.failing = 0 /\ r.col.q # None
  BY <1>1, <1>3 DEF WaitsAtMost
<1>4. CASE Waits(z, c, world) /\ r.col.q = None /\ r.col.retry = col.retry /\ col.q = None
           /\ col.retry.error # None /\ ~may_attempt(col.retry, col.tick + 1)
  <2>1. r.col.tick = col.tick + 1
    BY RunEnds
  <2> SUFFICES ASSUME col.retry.class # "permission"
               PROVE  /\ retryable(col.retry.class)
                      /\ hist'.failing + col.retry.at <= col.tick + 1 + MaxBackoff
                      /\ hist'.failing > 0 => col.tick + 1 < col.retry.at
    BY <1>1, <1>4, <2>1 DEF WaitsAtMost
  <2>2. /\ retryable(col.retry.class)
        /\ hist.failing + col.retry.at <= col.tick + MaxBackoff
    BY <1>4 DEF WaitsAtMost
  <2>3. ~(col.tick + 1 >= col.retry.at)
    BY <1>4, <2>2 DEF may_attempt
  <2>4. col.tick \in Nat /\ hist.failing \in Nat /\ col.retry.at \in Int /\ MaxBackoff \in Nat
    BY Intervals DEF TypeOK, Retries
  <2> QED
    BY <1>2, <2>2, <2>3, <2>4
<1>5. CASE Refused(z, c, world) /\ r.err \in InitErrors /\ r.col.q = None
           /\ r.col.retry = note_failure(col.retry, col.tick + 1, r.err)
           /\ (world.prov # "up" \/ world.present = {})
  <2>1. hist'.failing = 0 /\ r.col.tick = col.tick + 1
    BY <1>2, <1>5, RunEnds
  <2>2. /\ r.col.retry.class = classify_init_error(r.err)
        /\ r.col.retry.at = col.tick + 1 + backoff_ticks(col.retry.attempts + 1)
    BY <1>5 DEF note_failure
  <2>3. r.col.retry.class # "permission" => retryable(r.col.retry.class)
    BY <1>5, <2>2 DEF classify_init_error, retryable, InitErrors
  <2>4. /\ backoff_ticks(col.retry.attempts + 1) \in Int
        /\ backoff_ticks(col.retry.attempts + 1) <= MaxBackoff
    BY BackoffCapped DEF TypeOK, Retries
  <2>5. col.tick \in Nat /\ MaxBackoff \in Nat
    BY Intervals DEF TypeOK
  <2>6. hist'.failing + r.col.retry.at <= r.col.tick + MaxBackoff
    BY <2>1, <2>2, <2>4, <2>5
  <2> QED
    BY <1>1, <1>5, <2>1, <2>3, <2>6 DEF WaitsAtMost
<1> QED
  BY <1>2, <1>3, <1>4, <1>5, RunEnds, ErrorsDiffer

(* The table is as old as the last rebuild; the collectors that rebuild.    *)
LEMMA RunTable ==
  ASSUME TypeOK, TableIsRecent, kind \in {"gpu", "net", "storage"},
         NEW r, NEW z, NEW c, PdhRun(r, z, c), Reads(r),
         Lapsed(z, c, world, kind # "storage")
  PROVE  TableIsRecent'
<1> DEFINE Age(i) == IF kind = "storage" THEN hist.upAge[i] ELSE hist.age[i]
           NextAge(i) == IF kind = "storage" THEN hist'.upAge[i] ELSE hist'.age[i]
<1>1. col' = r.col /\ kind' = kind /\ r.col.tick = col.tick + 1
  BY RunEnds DEF Reads
<1>2. /\ hist'.age = [i \in Insts |-> IF i \in world.present THEN hist.age[i] + 1 ELSE 0]
      /\ hist'.upAge = [i \in Insts |-> IF i \in world.present /\ world.prov = "up"
                                        THEN hist.upAge[i] + 1 ELSE 0]
  BY DEF Reads, Recorded
<1>3. \A i \in Insts : /\ Age(i) \in Nat /\ NextAge(i) <= Age(i) + 1
                       /\ NextAge(i) = 0 \/ i \in world.present
                       /\ kind = "storage" => NextAge(i) = 0 \/ world.prov = "up"
  BY <1>2 DEF TypeOK
<1>4. r.col.tick \in Nat /\ col.tick \in Nat
  BY <1>1 DEF TypeOK
<1>5. r.col.tick % RebuildEvery \in 0..(RebuildEvery - 1)
  BY <1>4, Intervals, NextRemainder
<1> SUFFICES ASSUME r.col.q # None, kind # "storage" => ~r.col.stale,
                    kind = "gpu" => Cardinality(Insts) <= MaxEngines,
                    NEW i \in Insts, i \notin r.col.q.table
             PROVE  NextAge(i) <= r.col.tick % RebuildEvery
  BY <1>1 DEF TableIsRecent
<1> HIDE DEF Age, NextAge
<1>6. CASE Covers(r.col.q.table, world)
  <2>1. i \notin world.present
    BY <1>6 DEF Covers
  <2> QED
    BY <1>3, <1>5, <2>1
<1>7. CASE col.q # None /\ r.col.q.table = col.q.table /\ z.how = "steady"
  <2>1. c.tick = r.col.tick /\ c.stale = col.stale /\ z.col.stale = r.col.stale
    BY <1>1, RunEnds DEF PdhRun
  <2>2. CASE r.col.tick % RebuildEvery = 0
    <3>1. kind = "storage" /\ (world.prov # "up" \/ world.present = {})
      BY <1>7, <2>1, <2>2 DEF Lapsed
    <3>2. NextAge(i) = 0
      BY <1>3, <3>1
    <3> QED
      BY <1>5, <3>2
  <2>3. CASE r.col.tick % RebuildEvery # 0
    <3>1. kind # "storage" => ~col.stale
      BY <1>7, <2>1, <2>3 DEF Lapsed
    <3>2. Age(i) <= col.tick % RebuildEvery
      BY <1>7, <3>1 DEF TableIsRecent, Age
    <3>3. r.col.tick % RebuildEvery = (col.tick % RebuildEvery) + 1
      BY <1>1, <1>4, <2>3, Intervals, NextRemainder
    <3>4. col.tick % RebuildEvery \in Int
      BY <1>4, Intervals, NextRemainder
    <3>5. Age(i) \in Nat /\ NextAge(i) <= Age(i) + 1
      BY <1>3
    <3>6. NextAge(i) \in Nat
      BY <1>2 DEF NextAge, TypeOK
    <3> QED
      BY <3>2, <3>3, <3>4, <3>5, <3>6
  <2> QED
    BY <2>2, <2>3
<1>8. Steadily(z, c, world) \/ Lost(z, c, world) => z.how = "steady"
  BY DEF Steadily, Lost
<1>9. col.q \in Queries => Slid(col.q, world).table = col.q.table
  BY DEF Slid, Queries
<1>10. col.q # None => col.q \in Queries
  BY DEF TypeOK
<1> QED
  BY <1>6, <1>7, <1>8, <1>9, <1>10, RunEnds

(* The rate of a steady read is the share of the time since the last one.   *)
LEMMA RunSteady ==
  ASSUME TypeOK, PastReadings, WindowIsLastReading, kind \in PdhKinds,
         NEW r, NEW z, NEW c, PdhRun(r, z, c), Reads(r), r.how = "steady",
         NEW i \in Insts, i \in r.col.q.table, hist'.true[i] # None
  PROVE  /\ read_double(r.col.q, i) = hist'.true[i]
         /\ hist.last[i] # None /\ hist.last[i].t < world.now
         /\ hist.last[i].work <= world.busyTicks[i] /\ i \in world.present
         /\ hist'.true[i] = (100 * (world.busyTicks[i] - hist.last[i].work))
                              \div (world.now - hist.last[i].t)
<1>1. /\ r.world = world /\ col.q # None /\ r.col.q = Slid(col.q, world)
      /\ r.col.q.c1 = Collected(world)
  BY RunEnds
<1>2. hist'.true[i] = True(hist.last[i], world, i)
  BY <1>1 DEF Reads, Recorded
<1>3. /\ hist.last[i] # None /\ hist.last[i].gen = world.gen[i] /\ i \in world.present
      /\ hist.last[i].t # world.now
      /\ hist'.true[i] = (100 * (world.busyTicks[i] - hist.last[i].work))
                           \div (world.now - hist.last[i].t)
  BY <1>2 DEF True
<1>4. hist.last[i] \in Marks
  BY <1>3 DEF TypeOK
<1>5. hist.last[i].t \in Nat /\ hist.last[i].work \in Nat
  BY <1>4 DEF Marks
<1>6. hist.last[i].t <= world.now /\ hist.last[i].work <= world.busyTicks[i]
  BY <1>3 DEF PastReadings
<1>7. world.now \in Nat /\ world.busyTicks[i] \in Nat
  BY WorldType DEF TypeOK
<1>8. col.q.c1.t = hist.last[i].t /\ col.q.c1.v[i] = hist.last[i].work
  BY <1>3 DEF WindowIsLastReading
<1>9. Collected(world).t = world.now /\ Collected(world).v[i] = world.busyTicks[i]
  BY <1>3, CollectedType DEF TypeOK
<1>10. r.col.q.c0 = col.q.c1
  <2>1. col.q \in Queries
    BY <1>1 DEF TypeOK
  <2> QED
    BY <1>1, <2>1 DEF Slid, Queries
<1>11. /\ r.col.q.c0.v[i] = hist.last[i].work /\ r.col.q.c1.v[i] = world.busyTicks[i]
       /\ r.col.q.c1.t - r.col.q.c0.t = world.now - hist.last[i].t
  BY <1>1, <1>8, <1>9, <1>10
<1>12. /\ hist.last[i].work # None /\ world.busyTicks[i] # None
       /\ ~(world.busyTicks[i] < hist.last[i].work)
       /\ world.now - hist.last[i].t # 0 /\ hist.last[i].t < world.now
  <2>1. hist.last[i].work # None /\ world.busyTicks[i] # None
    BY <1>5, <1>7, ErrorsDiffer
  <2> QED
    BY <1>3, <1>5, <1>6, <1>7, <2>1
<1>13. read_double(r.col.q, i) = (100 * (world.busyTicks[i] - hist.last[i].work))
                                   \div (world.now - hist.last[i].t)
  BY <1>11, <1>12 DEF read_double
<1> QED
  BY <1>3, <1>6, <1>12, <1>13

-----------------------------------------------------------------------------
(* The four counter collectors.                                             *)

(* A collector at the start of its read: only its tick has moved.           *)
Begun(c) ==
  /\ Staged(c) /\ c.tick = col.tick + 1 /\ c.inv \in Nat /\ c.ever \in BOOLEAN
  /\ \A f \in {"q", "retry", "stale", "effAt"} : c[f] = col[f]

(* Advancing the collector's tick begins a read.                            *)
LEMMA AdvanceBegins ==
  ASSUME TypeOK
  PROVE  /\ Begun(advance(col))
         /\ \A f \in Fields \ {"tick"} : advance(col)[f] = col[f]
<1>1. advance(col) = [col EXCEPT !.tick = col.tick + 1]
  BY DEF advance
<1>2. /\ DOMAIN advance(col) = Fields /\ advance(col).tick = col.tick + 1
      /\ \A f \in Fields \ {"tick"} : advance(col)[f] = col[f]
  BY <1>1 DEF TypeOK, Fields
<1> HIDE DEF advance
<1>3. advance(col).tick \in Nat
  BY <1>2 DEF TypeOK
<1>4. /\ advance(col).q = col.q /\ advance(col).retry = col.retry
      /\ advance(col).stale = col.stale /\ advance(col).effAt = col.effAt
      /\ advance(col).fresh = col.fresh /\ advance(col).inv = col.inv
      /\ advance(col).ever = col.ever
  BY <1>2 DEF Fields
<1> QED
  BY <1>2, <1>3, <1>4 DEF Begun, Staged, TypeOK

(* A read fails with what the stages left, or ends with what they made.     *)
LEMMA FailedRun ==
  ASSUME NEW c, Begun(c), NEW z, Outcome(z, c, world), z.err # None
  PROVE  PdhRun(Failed(z), z, c)
<1>1. Keeps(z, c)
  BY DEF Outcome
<1>2. /\ Failed(z).col = z.col /\ Failed(z).world = z.world /\ Failed(z).err = z.err
      /\ Failed(z).how = "failed"
  BY DEF Failed
<1>3. z.col.inv = c.inv /\ z.col.ever = c.ever /\ DOMAIN z.col = Fields
  BY <1>1 DEF Keeps, Fields
<1>4. Concludes(Failed(z), z)
  BY <1>2, <1>3 DEF Concludes, Begun
<1> QED
  BY <1>4 DEF PdhRun, Begun

(* An answer built from a good outcome is a whole read.                     *)
LEMMA AnswerRun ==
  ASSUME NEW c, Begun(c), NEW z, Outcome(z, c, world), z.err = None,
         NEW d, NEW sample, DOMAIN d = Fields, d.inv \in Nat, d.ever \in BOOLEAN,
         \A f \in {"q", "retry", "tick", "fresh", "stale", "effAt"} : d[f] = z.col[f]
  PROVE  PdhRun(Answer(z, d, sample), z, c)
<1>1. /\ Answer(z, d, sample).col = d /\ Answer(z, d, sample).world = z.world
      /\ Answer(z, d, sample).err = None /\ Answer(z, d, sample).how = z.how
  BY DEF Answer
<1>2. Concludes(Answer(z, d, sample), z)
  BY <1>1 DEF Concludes
<1> QED
  BY <1>2 DEF PdhRun, Begun

(* The energy baseline while a query is made does not matter to the stages. *)
LEMMA CpuStages ==
  ASSUME TypeOK, NEW z,
         z = LET i == ensure_init(advance(col), world, init_inner(world))
             IN  window(IF i.how = "init" /\ i.err = None /\ Pkg \in i.col.q.table
                        THEN [i EXCEPT !.col = [@ EXCEPT !.prev =
                                [e |-> i.col.q.c0.v[Pkg], t |-> i.col.q.c0.t]]]
                        ELSE i)
  PROVE  \E c : /\ Begun(c) /\ Outcome(z, c, world)
                /\ col.q # None => z.col.prev = col.prev
<1> DEFINE c == advance(col)
           i == ensure_init(c, world, init_inner(world))
           first == [e |-> i.col.q.c0.v[Pkg], t |-> i.col.q.c0.t]
           base == [i EXCEPT !.col = [i.col EXCEPT !.prev = first]]
<1>1. Begun(c) /\ world \in Worlds /\ c.prev = col.prev /\ c.q = col.q
  BY AdvanceBegins DEF TypeOK, Fields
<1>2. Ready(i, c, world)
  BY <1>1, InitReady, CpuBuilds DEF Begun
<1> HIDE DEF c, i, first
<1>3. CASE i.how = "init" /\ i.err = None /\ Pkg \in i.col.q.table
  <2> DEFINE c2 == [c EXCEPT !.prev = first]
  <2>1. z = window(base)
    BY <1>3 DEF i, c, first
  <2>2. Keeps(i, c) /\ Anew(i, world) /\ i.col.fresh \in BOOLEAN
    BY <1>2, <1>3, ErrorsDiffer DEF Ready, Held, Waits, Refused
  <2>3. /\ DOMAIN c2 = Fields /\ c2.prev = first
        /\ \A f \in Fields \ {"prev"} : c2[f] = c[f]
    BY <1>1 DEF Begun, Staged, Fields
  <2>4. Begun(c2)
    BY <1>1, <2>3 DEF Begun, Staged, Fields
  <2>5. /\ DOMAIN base = DOMAIN i /\ base.world = i.world /\ base.err = i.err /\ base.how = i.how
        /\ DOMAIN base.col = Fields /\ base.col.prev = first
        /\ \A f \in Fields \ {"prev"} : base.col[f] = i.col[f]
    BY <2>2 DEF Keeps, Fields
  <2> HIDE DEF c2, base
  <2>6. Keeps(base, c2)
    BY <2>2, <2>3, <2>5 DEF Keeps, Fields
  <2>7. base.col.q = i.col.q /\ base.col.fresh = i.col.fresh
    BY <2>5 DEF Fields
  <2>8. Anew(base, world) /\ base.col.fresh \in BOOLEAN
    BY <2>2, <2>5, <2>7 DEF Anew
  <2>9. Outcome(z, c2, world)
    <3>1. Ready(base, c2, world)
      BY <2>6, <2>8 DEF Ready
    <3> QED
      BY <1>1, <2>1, <2>4, <3>1, WindowOutcome DEF Begun
  <2>10. col.q = None
    <3>1. i.how # "steady"
      BY <1>3
    <3>2. c.q # None => i.how = "steady"
      BY DEF i, ensure_init
    <3> QED
      BY <1>1, <3>1, <3>2
  <2> QED
    BY <2>4, <2>9, <2>10
<1>4. CASE ~(i.how = "init" /\ i.err = None /\ Pkg \in i.col.q.table)
  <2>1. z = window(i)
    BY <1>4, Zenon DEF i, c
  <2>2. Outcome(z, c, world)
    BY <1>1, <1>2, <2>1, WindowOutcome DEF Begun
  <2>3. z.col.prev = col.prev
    BY <1>1, <2>2 DEF Outcome, Keeps, Fields
  <2> QED
    BY <1>1, <2>2, <2>3
<1> QED
  BY <1>3, <1>4

(* What the properties say after a read of a counter collector.             *)
LEMMA RunGood ==
  ASSUME IndInv, kind \in PdhKinds, NEW r, NEW z, NEW c, PdhRun(r, z, c), Reads(r),
         r.err = None => r.sample.rates = Rates(r.col.q),
         kind = "cpu" => /\ r.err # None /\ col.q # None => r.col.prev = col.prev
                         /\ r.err = None /\ Pkg \in r.col.q.table /\ Pkg \in world.present =>
                              r.col.prev = [e |-> r.col.q.c1.v[Pkg], t |-> r.col.q.c1.t]
                         /\ r.how = "steady" /\ Pkg \in r.col.q.table =>
                              r.sample.pkg = energy_derived_w(col.prev, r.col.q.c1.v[Pkg],
                                                              r.col.q.c1.t),
         kind # "cpu" => Lapsed(z, c, world, kind # "storage"),
         kind \in {"gpu", "net"} /\ r.err = None => r.sample.stale = r.col.stale,
         ToldIsKept'
  PROVE  IndInv' /\ SteadyRates' /\ NewDeviceSeen'
<1>1. TypeOK' /\ PastReadings'
  BY RunCommon, CommonKeeps DEF IndInv
<1>2. WindowIsLastReading'
  BY RunWindow DEF IndInv
<1>3. WaitsAtMost'
  BY RunWaits DEF IndInv
<1>4. kind' = kind /\ col' = r.col /\ due' = FALSE
      /\ out' = [how |-> r.how, err |-> r.err, sample |-> r.sample]
  BY DEF Reads
<1>5. BaselineIsLastReading'
  BY <1>4 DEF BaselineIsLastReading, PdhKinds
<1>6. TableIsRecent'
  <2>1. CASE kind = "cpu"
    BY <1>4, <2>1 DEF TableIsRecent
  <2>2. CASE kind # "cpu"
    BY <2>2, RunTable DEF IndInv, PdhKinds
  <2> QED
    BY <2>1, <2>2
<1>7. SteadyRates'
  <2> SUFFICES ASSUME r.how = "steady",
                      NEW i \in DOMAIN r.sample.rates, hist'.true[i] # None
               PROVE  /\ r.sample.rates[i] = hist'.true[i]
                      /\ kind = "cpu" /\ i = Pkg => r.sample.pkg = hist'.true[i]
    BY <1>4 DEF SteadyRates, PdhKinds
  <2>1. r.err = None /\ r.col.q \in Queries /\ r.world = world /\ r.col.q.c1 = Collected(world)
    BY RunEnds DEF IndInv
  <2>2. r.sample.rates = [j \in r.col.q.table |-> read_double(r.col.q, j)]
    BY <2>1 DEF Rates
  <2>3. i \in r.col.q.table /\ i \in Insts
    BY <2>1, <2>2 DEF Queries
  <2>4. /\ read_double(r.col.q, i) = hist'.true[i]
        /\ hist.last[i] # None /\ hist.last[i].t < world.now
        /\ hist.last[i].work <= world.busyTicks[i] /\ i \in world.present
        /\ hist'.true[i] = (100 * (world.busyTicks[i] - hist.last[i].work))
                             \div (world.now - hist.last[i].t)
    BY <2>3, RunSteady DEF IndInv
  <2>5. r.sample.rates[i] = hist'.true[i]
    BY <2>2, <2>3, <2>4
  <2>6. ASSUME kind = "cpu", i = Pkg PROVE r.sample.pkg = hist'.true[i]
    <3> DEFINE p == [e |-> hist.last[i].work, t |-> hist.last[i].t]
    <3>1. col.q \in Queries /\ r.col.q = Slid(col.q, world)
      BY RunEnds DEF IndInv, TypeOK
    <3>2. i \in col.q.table
      BY <2>3, <3>1 DEF Slid, Queries
    <3>3. col.prev = p
      BY <2>3, <2>4, <2>6, <3>2 DEF IndInv, WindowIsLastReading
    <3>4. hist.last[i].t \in Nat /\ hist.last[i].work \in Nat
      <4>1. hist.last[i] \in Marks
        BY <2>3, <2>4 DEF IndInv, TypeOK
      <4> QED
        BY <4>1 DEF Marks
    <3>5. p # None /\ p.e = hist.last[i].work /\ p.t = hist.last[i].t
      <4>1. p \in [e : Nat, t : Nat]
        BY <3>4
      <4> QED
        BY <4>1, ErrorsDiffer
    <3>6. world.busyTicks[i] \in Nat /\ world.now \in Nat
      BY <2>3, WorldType DEF IndInv, TypeOK
    <3>7. Collected(world).v[i] = world.busyTicks[i] /\ Collected(world).t = world.now
      BY <2>4, CollectedType DEF IndInv, TypeOK
    <3>8. r.sample.pkg = energy_derived_w(p, world.busyTicks[i], world.now)
      BY <2>1, <2>3, <2>6, <3>3, <3>7
    <3> HIDE DEF p
    <3>9. /\ world.busyTicks[i] # None /\ ~(world.now <= p.t)
          /\ ~(world.busyTicks[i] < p.e)
      <4>1. world.busyTicks[i] # None
        BY <3>6, ErrorsDiffer
      <4> QED
        BY <2>4, <3>4, <3>5, <3>6, <4>1
    <3>10. energy_derived_w(p, world.busyTicks[i], world.now)
             = (100 * (world.busyTicks[i] - p.e)) \div (world.now - p.t)
      BY <3>5, <3>9, Zenon DEF energy_derived_w
    <3> QED
      BY <2>4, <3>5, <3>8, <3>10
  <2> QED
    BY <2>5, <2>6
<1>8. NewDeviceSeen'
  <2> SUFFICES ASSUME r.err = None, kind \in {"gpu", "net", "storage"},
                      kind = "gpu" => Cardinality(Insts) <= MaxEngines,
                      NEW i \in Insts,
                      (IF kind = "storage" THEN hist'.upAge[i] ELSE hist'.age[i]) >= RebuildEvery,
                      i \notin r.col.q.table, ~(kind # "storage" /\ r.sample.stale)
               PROVE  FALSE
    BY <1>4 DEF NewDeviceSeen
  <2>1. r.col.q # None /\ (kind # "storage" => ~r.col.stale)
    BY RunEnds, ErrorsDiffer DEF IndInv
  <2>2. (IF kind = "storage" THEN hist'.upAge[i] ELSE hist'.age[i]) <= r.col.tick % RebuildEvery
    BY <1>4, <1>6, <2>1 DEF TableIsRecent
  <2>3. r.col.tick % RebuildEvery \in 0..(RebuildEvery - 1)
    <3>1. r.col.tick \in Nat
      BY RunCommon DEF Common, IndInv
    <3> QED
      BY <3>1, Intervals, NextRemainder
  <2>4. hist'.upAge[i] \in Nat /\ hist'.age[i] \in Nat
    BY <1>1 DEF TypeOK
  <2> QED
    BY <2>2, <2>3, <2>4, Intervals
<1> QED
  BY <1>1, <1>2, <1>3, <1>5, <1>6, <1>7, <1>8 DEF IndInv

(* All that is claimed of a state.                                          *)
Good == IndInv /\ SteadyRates /\ NewDeviceSeen /\ EventsReplay

(* A read of the CPU collector, its package power against the energy baseline. *)
LEMMA CpuRead ==
  ASSUME IndInv, kind = "cpu", NEW r, r = cpu_read(col, world), Reads(r)
  PROVE  Good'
<1> DEFINE z == LET i == ensure_init(advance(col), world, init_inner(world))
                IN  window(IF i.how = "init" /\ i.err = None /\ Pkg \in i.col.q.table
                           THEN [i EXCEPT !.col = [@ EXCEPT !.prev =
                                   [e |-> i.col.q.c0.v[Pkg], t |-> i.col.q.c0.t]]]
                           ELSE i)
           e == IF Pkg \in z.col.q.table THEN z.col.q.c1.v[Pkg] ELSE None
           d == [z.col EXCEPT !.prev = IF e # None THEN [e |-> e, t |-> z.col.q.c1.t] ELSE z.col.prev]
           sample == [rates |-> Rates(z.col.q), mean |-> mean_core_utility(Rates(z.col.q)),
                      pkg |-> energy_derived_w(z.col.prev, e, z.col.q.c1.t)]
<1>1. PICK c : Begun(c) /\ Outcome(z, c, world) /\ (col.q # None => z.col.prev = col.prev)
  BY CpuStages DEF IndInv
<1>2. r = IF z.err # None THEN Failed(z) ELSE Answer(z, d, sample)
  BY Zenon DEF cpu_read
<1> HIDE DEF z
<1>3. ToldIsKept' /\ EventsReplay'
  BY DEF Reads, ToldIsKept, EventsReplay
<1>4. CASE z.err # None
  <2>1. PdhRun(r, z, c) /\ r.err # None /\ r.col = z.col /\ r.how = "failed"
    BY <1>1, <1>2, <1>4, FailedRun DEF Failed
  <2> QED
    BY <1>1, <1>3, <2>1, RunGood DEF Good, PdhKinds
<1>5. CASE z.err = None
  <2>1. r = Answer(z, d, sample) /\ r.col = d /\ r.sample = sample /\ r.err = None /\ r.how = z.how
        /\ r.world = z.world
    BY <1>2, <1>5 DEF Answer
  <2>2. /\ DOMAIN d = Fields /\ \A f \in Fields \ {"prev"} : d[f] = z.col[f]
        /\ d.prev = IF e # None THEN [e |-> e, t |-> z.col.q.c1.t] ELSE z.col.prev
    BY <1>1 DEF Outcome, Keeps, Fields
  <2> HIDE DEF d, sample
  <2>3. \A f \in {"q", "retry", "tick", "fresh", "stale", "effAt", "inv", "ever"} : d[f] = z.col[f]
    BY <2>2 DEF Fields
  <2>4. d.inv \in Nat /\ d.ever \in BOOLEAN
    <3>1. z.col.inv = c.inv /\ z.col.ever = c.ever
      BY <1>1 DEF Outcome, Keeps, Fields
    <3> QED
      BY <1>1, <2>3, <3>1 DEF Begun
  <2>5. PdhRun(r, z, c)
    BY <1>1, <1>5, <2>1, <2>2, <2>3, <2>4, AnswerRun
  <2>6. z.col.q = r.col.q
    BY <2>1, <2>3
  <2>7. ASSUME Pkg \in r.col.q.table, Pkg \in world.present
        PROVE  r.col.prev = [e |-> r.col.q.c1.v[Pkg], t |-> r.col.q.c1.t]
    <3>1. r.world \in Worlds /\ r.world.present = world.present /\ r.col.q.c1 = Collected(r.world)
      BY <2>1, <2>5, RunEnds, RunCommon, ErrorsDiffer DEF IndInv, Common, Later
    <3>2. r.col.q.c1.v[Pkg] = r.world.busyTicks[Pkg]
      BY <2>7, <3>1, CollectedType
    <3>3. r.world.busyTicks[Pkg] # None
      BY <3>1, WorldType, Intervals, ErrorsDiffer
    <3> QED
      BY <2>1, <2>2, <2>6, <2>7, <3>2, <3>3
  <2>8. r.sample.rates = Rates(r.col.q)
    BY <2>1, <2>6 DEF sample
  <2>9. ASSUME r.how = "steady", Pkg \in r.col.q.table
        PROVE  r.sample.pkg = energy_derived_w(col.prev, r.col.q.c1.v[Pkg], r.col.q.c1.t)
    <3>1. col.q # None
      BY <2>5, <2>9, RunEnds DEF IndInv
    <3>2. z.col.prev = col.prev
      BY <1>1, <3>1
    <3>3. e = r.col.q.c1.v[Pkg]
      BY <2>6, <2>9
    <3> HIDE DEF e
    <3>4. sample.pkg = energy_derived_w(z.col.prev, e, z.col.q.c1.t)
      BY DEF sample
    <3> QED
      BY <2>1, <2>6, <3>2, <3>3, <3>4
  <2> QED
    BY <1>3, <2>1, <2>5, <2>7, <2>8, <2>9, RunGood DEF Good, PdhKinds
<1> QED
  BY <1>4, <1>5

(* The three collectors that rebuild their table.                           *)
LEMMA TableStages ==
  ASSUME NEW c, Begun(c), world \in Worlds, NEW b1, Builds(b1, world),
         NEW i, i = ensure_init(c, world, b1),
         NEW b2, i.world \in Worlds => Builds(b2, i.world), NEW flags \in BOOLEAN,
         NEW z, z = window(rebuild(i, b2, flags))
  PROVE  Outcome(z, c, world) /\ Lapsed(z, c, world, flags)
<1> DEFINE j == rebuild(i, b2, flags)
<1>1. Staged(c)
  BY DEF Begun
<1>2. /\ Ready(i, c, world) /\ (i.how = "steady" => i.col.stale = c.stale)
      /\ i.world \in {world, Pass(world)}
  BY <1>1, InitReady
<1>3. i.world \in Worlds
  BY <1>2, PassKeeps
<1>4. Ready(j, c, world) /\ Lapsed(j, c, world, flags)
  BY <1>1, <1>2, <1>3, RebuildReady
<1> HIDE DEF j
<1> QED
  BY <1>1, <1>4, WindowOutcome DEF Lapsed, j

(* A read of the storage collector.                                         *)
LEMMA StorageRead ==
  ASSUME IndInv, kind = "storage", NEW r, r = storage_read(col, world), Reads(r)
  PROVE  Good'
<1> DEFINE c == advance(col)
           i == ensure_init(c, world, build_counters_storage(world))
           z == window(rebuild(i, build_counters_storage(i.world), FALSE))
<1>1. Begun(c) /\ world \in Worlds
  BY AdvanceBegins DEF IndInv, TypeOK
<1>2. r = IF z.err # None THEN Failed(z) ELSE Answer(z, z.col, [rates |-> Rates(z.col.q)])
  BY Zenon DEF storage_read
<1> HIDE DEF c
<1>3. Outcome(z, c, world) /\ Lapsed(z, c, world, FALSE)
  <2> HIDE DEF i
  <2>1. i = ensure_init(c, world, build_counters_storage(world))
    BY DEF i
  <2>2. i.world \in Worlds => Builds(build_counters_storage(i.world), i.world)
    BY StorageBuilds
  <2>3. Builds(build_counters_storage(world), world)
    BY <1>1, StorageBuilds
  <2> QED
    BY <1>1, <2>1, <2>2, <2>3, TableStages
<1> HIDE DEF z
<1>4. PdhRun(r, z, c) /\ (r.err = None => r.sample.rates = Rates(r.col.q))
  <2>1. CASE z.err # None
    BY <1>1, <1>2, <1>3, <2>1, FailedRun DEF Failed
  <2>2. CASE z.err = None
    <3>1. r = Answer(z, z.col, [rates |-> Rates(z.col.q)])
      BY <1>2, <2>2
    <3>2. DOMAIN z.col = Fields /\ z.col.inv \in Nat /\ z.col.ever \in BOOLEAN
      BY <1>1, <1>3 DEF Outcome, Keeps, Begun, Fields
    <3>3. PdhRun(r, z, c)
      BY <1>1, <1>3, <2>2, <3>1, <3>2, AnswerRun
    <3> QED
      BY <3>1, <3>3 DEF Answer
  <2> QED
    BY <2>1, <2>2
<1>5. ToldIsKept' /\ EventsReplay'
  BY DEF Reads, ToldIsKept, EventsReplay
<1> QED
  BY <1>3, <1>4, <1>5, RunGood DEF Good, PdhKinds

(* A read of the GPU collector.                                             *)
LEMMA GpuRead ==
  ASSUME IndInv, kind = "gpu", NEW r, r = gpu_read(col, world), Reads(r)
  PROVE  Good'
<1> DEFINE a == advance(col)
           c == IF a.q = None /\ may_attempt(a.retry, a.tick)
                THEN [a EXCEPT !.adapters = enumerate_adapters(world)] ELSE a
           i == ensure_init(c, world, build_counters_gpu(world))
           z == window(rebuild(i, build_counters_gpu(i.world), TRUE))
           mems == {x \in z.col.q.table : Gauge(z.col.q, x)}
           sample == [rates |-> Rates(z.col.q), stale |-> z.col.stale,
                      views |-> assemble(z.col.adapters, aggregate(Rates(z.col.q), mems))]
<1>1. Begun(c) /\ world \in Worlds
  <2>1. Begun(a) /\ world \in Worlds
    BY AdvanceBegins DEF IndInv, TypeOK
  <2> HIDE DEF a
  <2>2. /\ DOMAIN c = Fields
        /\ \A f \in Fields \ {"adapters"} : c[f] = a[f]
    BY <2>1 DEF Begun, Staged, Fields
  <2> HIDE DEF c
  <2> QED
    BY <2>1, <2>2 DEF Begun, Staged, Fields
<1>2. r = IF z.err # None THEN Failed(z) ELSE Answer(z, z.col, sample)
  BY Zenon DEF gpu_read, ensure_init_gpu
<1> HIDE DEF c, a
<1>3. Outcome(z, c, world) /\ Lapsed(z, c, world, TRUE)
  <2> HIDE DEF i
  <2>1. i = ensure_init(c, world, build_counters_gpu(world))
    BY DEF i
  <2>2. i.world \in Worlds => Builds(build_counters_gpu(i.world), i.world)
    BY GpuBuilds
  <2>3. Builds(build_counters_gpu(world), world)
    BY <1>1, GpuBuilds
  <2> QED
    BY <1>1, <2>1, <2>2, <2>3, TableStages
<1> HIDE DEF z
<1>4. /\ PdhRun(r, z, c)
      /\ r.err = None => r.sample.rates = Rates(r.col.q) /\ r.sample.stale = r.col.stale
  <2>1. CASE z.err # None
    BY <1>1, <1>2, <1>3, <2>1, FailedRun DEF Failed
  <2>2. CASE z.err = None
    <3>1. r = Answer(z, z.col, sample)
      BY <1>2, <2>2
    <3>2. DOMAIN z.col = Fields /\ z.col.inv \in Nat /\ z.col.ever \in BOOLEAN
      BY <1>1, <1>3 DEF Outcome, Keeps, Begun, Fields
    <3>3. PdhRun(r, z, c)
      BY <1>1, <1>3, <2>2, <3>1, <3>2, AnswerRun
    <3>4. sample.rates = Rates(z.col.q) /\ sample.stale = z.col.stale
      OBVIOUS
    <3> HIDE DEF sample
    <3> QED
      BY <3>1, <3>3, <3>4 DEF Answer
  <2> QED
    BY <2>1, <2>2
<1>5. ToldIsKept' /\ EventsReplay'
  BY DEF Reads, ToldIsKept, EventsReplay
<1> QED
  BY <1>3, <1>4, <1>5, RunGood DEF Good, PdhKinds

-----------------------------------------------------------------------------
(* What the timeline tells.                                                 *)

(* A timeline that gets one event for each thing that became another, from  *)
(* what it said to what it is now, says how things are.                     *)
LEMMA ContinueReplays ==
  ASSUME NEW told, NEW cur, IsFunction(cur), NEW events,
         \A i \in DOMAIN cur :
           {x \in events : x[1] = i} = IF i \in DOMAIN told /\ told[i] # cur[i]
                                       THEN {<<i, told[i], cur[i]>>} ELSE {}
  PROVE  Continue(told, cur, events) = cur
<1> DEFINE of(i) == LET e == {x \in events : x[1] = i} IN
                    IF e # {} THEN LET x == CHOOSE y \in e : TRUE IN
                                   IF i \in DOMAIN told /\ told[i] = x[2] THEN x[3] ELSE None
                    ELSE IF i \in DOMAIN told THEN told[i] ELSE cur[i]
<1>1. ASSUME NEW i \in DOMAIN cur PROVE of(i) = cur[i]
  <2> DEFINE e == {x \in events : x[1] = i}
  <2>1. CASE i \in DOMAIN told /\ told[i] # cur[i]
    <3>1. e = {<<i, told[i], cur[i]>>}
      BY <2>1
    <3> HIDE DEF e
    <3>2. (CHOOSE y \in e : TRUE) = <<i, told[i], cur[i]>>
      BY <3>1
    <3> QED
      BY <2>1, <3>1, <3>2 DEF e
  <2>2. CASE ~(i \in DOMAIN told /\ told[i] # cur[i])
    <3>1. e = {}
      BY <2>2
    <3> QED
      BY <2>2, <3>1
  <2> QED
    BY <2>1, <2>2
<1>2. Continue(told, cur, events) = [i \in DOMAIN cur |-> of(i)]
  BY Zenon DEF Continue
<1> HIDE DEF of
<1>3. [i \in DOMAIN cur |-> of(i)] = [i \in DOMAIN cur |-> cur[i]]
  BY <1>1
<1> QED
  BY <1>2, <1>3 DEF IsFunction

(* A table read is a function, and a failed one is empty.                   *)
LEMMA TableIsFunction ==
  ASSUME NEW w
  PROVE  IsFunction(read_table(w))
<1>1. CASE w.sideOk
  BY <1>1 DEF IsFunction, read_table
<1>2. CASE ~w.sideOk
  <2>1. DOMAIN << >> = {}
    OBVIOUS
  <2>2. << >> = [x \in {} |-> << >>[x]]
    OBVIOUS
  <2> QED
    BY <1>2, <2>1, <2>2 DEF IsFunction, read_table
<1> QED
  BY <1>1, <1>2

(* The transitions of the interfaces are what tells two tables apart.       *)
LEMMA ChangesReplay ==
  ASSUME NEW prev, NEW cur, IsFunction(cur), NEW ever \in BOOLEAN, ~ever => DOMAIN prev = {}
  PROVE  Continue(prev, cur, adapter_changes(ever, prev, cur)) = cur
<1> DEFINE events == adapter_changes(ever, prev, cur)
<1>1. ASSUME NEW i \in DOMAIN cur
      PROVE  {x \in events : x[1] = i} = IF i \in DOMAIN prev /\ prev[i] # cur[i]
                                         THEN {<<i, prev[i], cur[i]>>} ELSE {}
  <2>1. \A x : x \in events <=> \E j \in DOMAIN prev \cap DOMAIN cur :
                                  ever /\ prev[j] # cur[j] /\ x = <<j, prev[j], cur[j]>>
    BY DEF adapter_changes
  <2> HIDE DEF events
  <2>2. CASE i \in DOMAIN prev /\ prev[i] # cur[i]
    <3>1. <<i, prev[i], cur[i]>> \in events
      BY <2>1, <2>2
    <3>2. \A x \in events : x[1] = i => x = <<i, prev[i], cur[i]>>
      BY <2>1
    <3> QED
      BY <2>2, <3>1, <3>2
  <2>3. CASE ~(i \in DOMAIN prev /\ prev[i] # cur[i])
    <3>1. \A x \in events : x[1] # i
      BY <2>1, <2>3
    <3> QED
      BY <2>3, <3>1
  <2> QED
    BY <2>2, <2>3
<1> HIDE DEF events
<1>2. Continue(prev, cur, events) = cur
  BY <1>1, ContinueReplays
<1> QED
  BY <1>2 DEF events

(* A read of the network collector, which diffs its adapters every interval. *)
LEMMA NetRead ==
  ASSUME IndInv, kind = "net", NEW r, r = net_read(col, world), Reads(r)
  PROVE  Good'
<1> DEFINE c == advance(col)
           i == ensure_init(c, world, build_counters_net(world))
           z == window(rebuild(i, build_counters_net(i.world), TRUE))
           n == z.col.inv + 1
           adapters == IF n = 1 \/ n % InventoryEvery = 0 THEN read_table(z.world)
                       ELSE z.col.adapters
           d == [z.col EXCEPT !.inv = n, !.adapters = adapters, !.prev = adapters, !.ever = TRUE]
           changes == adapter_changes(z.col.ever, z.col.prev, adapters)
           sample == [rates |-> Rates(z.col.q), stale |-> z.col.stale,
                      totals |-> sum_non_loopback(Rates(z.col.q), adapters),
                      changes |-> changes]
<1>1. Begun(c) /\ world \in Worlds /\ \A f \in Fields \ {"tick"} : c[f] = col[f]
  BY AdvanceBegins DEF IndInv, TypeOK
<1>2. r = IF z.err # None THEN Failed(z) ELSE Answer(z, d, sample)
  BY Zenon DEF net_read, apply_rebuild
<1> HIDE DEF c
<1>3. Outcome(z, c, world) /\ Lapsed(z, c, world, TRUE)
  <2> HIDE DEF i
  <2>1. i = ensure_init(c, world, build_counters_net(world))
    BY DEF i
  <2>2. i.world \in Worlds => Builds(build_counters_net(i.world), i.world)
    BY NetBuilds
  <2>3. Builds(build_counters_net(world), world)
    BY <1>1, NetBuilds
  <2> QED
    BY <1>1, <2>1, <2>2, <2>3, TableStages
<1> HIDE DEF z
<1>4. /\ z.col.inv = col.inv /\ z.col.ever = col.ever /\ z.col.prev = col.prev
      /\ z.col.adapters = col.adapters /\ DOMAIN z.col = Fields
  BY <1>1, <1>3 DEF Outcome, Keeps, Fields
<1>5. col.inv \in Nat /\ col.ever \in BOOLEAN
  BY DEF IndInv, TypeOK
<1>6. /\ hist.told = col.prev /\ IsFunction(col.prev)
      /\ IF col.ever THEN col.inv > 0 /\ col.adapters = col.prev
                     ELSE col.inv = 0 /\ DOMAIN col.prev = {}
  BY DEF IndInv, ToldIsKept
<1>7. /\ kind' = kind /\ col' = r.col
      /\ out' = [how |-> r.how, err |-> r.err, sample |-> r.sample]
      /\ hist'.told = IF r.err = None THEN Told(hist.told, r) ELSE hist.told
  BY DEF Reads, Recorded
<1>8. CASE z.err # None
  <2>1. PdhRun(r, z, c) /\ r.err # None /\ r.col = z.col
    BY <1>1, <1>2, <1>3, <1>8, FailedRun DEF Failed
  <2>2. ToldIsKept' /\ EventsReplay'
    BY <1>4, <1>6, <1>7, <2>1 DEF ToldIsKept, EventsReplay
  <2> QED
    BY <1>3, <2>1, <2>2, RunGood DEF Good, PdhKinds
<1>9. CASE z.err = None
  <2>1. r = Answer(z, d, sample)
    BY <1>2, <1>9
  <2>2. r.col = d /\ r.sample = sample /\ r.err = None
    BY <2>1 DEF Answer
  <2>3. /\ DOMAIN d = Fields /\ d.inv = n /\ d.adapters = adapters /\ d.prev = adapters
        /\ d.ever = TRUE /\ d.ever \in BOOLEAN
        /\ \A f \in Fields \ {"inv", "adapters", "prev", "ever"} : d[f] = z.col[f]
    BY <1>4 DEF Fields
  <2>4. /\ sample.rates = Rates(z.col.q) /\ sample.stale = z.col.stale
        /\ sample.changes = changes
    OBVIOUS
  <2>5. IsFunction(adapters)
    BY <1>4, <1>5, <1>6, TableIsFunction
  <2> HIDE DEF d, sample, adapters
  <2>6. \A f \in {"q", "retry", "tick", "fresh", "stale", "effAt"} : d[f] = z.col[f]
    BY <2>3 DEF Fields
  <2>7. n \in Nat /\ n > 0
    BY <1>4, <1>5
  <2>8. PdhRun(r, z, c)
    BY <1>1, <1>3, <1>9, <2>1, <2>3, <2>6, <2>7, AnswerRun
  <2>9. r.sample.rates = Rates(r.col.q) /\ r.sample.stale = r.col.stale
    BY <2>2, <2>4, <2>6
  <2>10. Continue(hist.told, adapters, changes) = adapters
    <3>1. z.col.ever = col.ever /\ z.col.prev = hist.told
      BY <1>4, <1>6
    <3>2. ~col.ever => DOMAIN hist.told = {}
      BY <1>6
    <3>3. Continue(hist.told, adapters, adapter_changes(col.ever, hist.told, adapters)) = adapters
      BY <1>5, <2>5, <3>2, ChangesReplay
    <3> QED
      BY <3>1, <3>3
  <2>11. hist'.told = adapters
    <3>1. Told(hist.told, r) = Continue(hist.told, r.col.prev, r.sample.changes)
      BY Zenon DEF Told
    <3>2. r.col.prev = adapters /\ r.sample.changes = changes
      BY <2>2, <2>3, <2>4
    <3> HIDE DEF changes
    <3> QED
      BY <1>7, <2>2, <2>10, <3>1, <3>2
  <2>12. ToldIsKept' /\ EventsReplay'
    BY <1>7, <2>2, <2>3, <2>5, <2>7, <2>11 DEF ToldIsKept, EventsReplay
  <2> QED
    BY <1>3, <2>8, <2>9, <2>12, RunGood DEF Good, PdhKinds
<1> QED
  BY <1>8, <1>9

-----------------------------------------------------------------------------
(* The collectors that ask the system directly.                             *)

(* They have no query, so only what they tell is in question.               *)
LEMMA PlainGood ==
  ASSUME IndInv, kind \notin PdhKinds, NEW r, Common(r), Reads(r),
         BaselineIsLastReading', SteadyRates', ToldIsKept', EventsReplay'
  PROVE  Good'
<1>1. TypeOK' /\ PastReadings'
  BY CommonKeeps DEF IndInv
<1>2. kind' = kind
  BY DEF Reads
<1>3. WindowIsLastReading' /\ TableIsRecent' /\ WaitsAtMost' /\ NewDeviceSeen'
  BY <1>2 DEF WindowIsLastReading, TableIsRecent, WaitsAtMost, NewDeviceSeen, PdhKinds
<1> QED
  BY <1>1, <1>3 DEF Good, IndInv

(* A collector of which only memories of its own kind have changed.         *)
LEMMA PlainCommon ==
  ASSUME TypeOK, NEW r, DOMAIN r.col = Fields, r.col.tick \in Nat, r.col.ever \in BOOLEAN,
         r.col.effAt \in {col.effAt, world.now}, Later(r.world),
         \A f \in {"q", "retry", "fresh", "stale", "inv"} : r.col[f] = col[f]
  PROVE  Common(r)
BY DEF Common, TypeOK

(* A read of the program's own counters.                                    *)
LEMMA SelfRead ==
  ASSUME IndInv, kind = "self", NEW r, r = self_read(col, world), Reads(r)
  PROVE  Good'
<1>1. /\ r.world = world /\ DOMAIN r.col = Fields
      /\ \A f \in Fields \ {"prev"} : r.col[f] = col[f]
  <2>1. DOMAIN col = Fields
    BY DEF IndInv, TypeOK
  <2>2. CASE world.prov # "up"
    BY <2>1, <2>2 DEF self_read
  <2>3. CASE world.prov = "up"
    <3> DEFINE d == [col EXCEPT !.prev = [cpu |-> world.busyTicks[Pkg], t |-> world.now]]
    <3>1. r.world = world /\ r.col = d
      BY <2>3 DEF self_read
    <3> QED
      BY <2>1, <3>1
  <2> QED
    BY <2>2, <2>3
<1>2. Common(r)
  BY <1>1, PlainCommon, LaterPass DEF IndInv, TypeOK, Fields
<1>3. BaselineIsLastReading' /\ SteadyRates' /\ ToldIsKept' /\ EventsReplay'
  BY DEF Reads, BaselineIsLastReading, SteadyRates, ToldIsKept, EventsReplay, PdhKinds
<1> QED
  BY <1>2, <1>3, PlainGood DEF PdhKinds

(* A read of the battery.                                                   *)
LEMMA BatteryRead ==
  ASSUME IndInv, kind = "battery", NEW r, r = battery_read(col, world), Reads(r)
  PROVE  Good'
<1>1. r.world = world /\ r.col = col
  BY DEF battery_read
<1>2. Common(r)
  BY <1>1, PlainCommon, LaterPass DEF IndInv, TypeOK, Fields
<1>3. BaselineIsLastReading' /\ SteadyRates' /\ ToldIsKept' /\ EventsReplay'
  BY DEF Reads, BaselineIsLastReading, SteadyRates, ToldIsKept, EventsReplay, PdhKinds
<1> QED
  BY <1>2, <1>3, PlainGood DEF PdhKinds

(* What a process's baseline is, and what is reported against it.           *)
LEMMA QueryOneIsTrue ==
  ASSUME IndInv, kind = "proc", NEW i \in Insts, i \in world.present
  PROVE  LET p == query_one(col.prev, world, i)
             true == True(hist.last[i], world, i)
         IN /\ p.pid = i /\ p.cpu \in {None} \cup Int
            /\ p.accessible => p.cpu = true
            /\ p.io # None /\ hist.last[i] # None /\ hist.last[i].side => p.io = true
<1> DEFINE k == <<i, world.gen[i]>>
           last == hist.last[i]
           dt == IF k \in DOMAIN col.prev THEN world.now - col.prev[k].t ELSE 0
           p == query_one(col.prev, world, i)
<1>1. world.now \in Nat /\ world.gen[i] \in Nat /\ world.busyTicks[i] \in Nat
  BY WorldType DEF IndInv, TypeOK
<1>2. CASE ~Value(world, i)
  <2>1. p = [pid |-> i, accessible |-> FALSE, cpu |-> None, io |-> None]
    BY <1>2 DEF query_one
  <2> QED
    BY <2>1
<1>3. CASE Value(world, i) /\ k \notin DOMAIN col.prev
  <2>1. p = [pid |-> i, accessible |-> TRUE, cpu |-> None, io |-> None]
    BY <1>3 DEF query_one, proc_key
  <2>2. last = None \/ last.gen # world.gen[i]
    BY <1>3 DEF IndInv, BaselineIsLastReading
  <2>3. True(last, world, i) = None
    BY <2>2 DEF True
  <2> QED
    BY <2>1, <2>3
<1>4. CASE Value(world, i) /\ k \in DOMAIN col.prev
  <2>1. last # None /\ world.gen[i] \in 0..last.gen
    BY <1>4 DEF IndInv, BaselineIsLastReading
  <2>2. last \in Marks
    BY <2>1 DEF IndInv, TypeOK
  <2>3. last.t \in Nat /\ last.work \in Nat /\ last.gen \in Nat
    BY <2>2 DEF Marks
  <2>4. last.gen = world.gen[i] /\ last.t <= world.now
    BY <1>1, <2>1, <2>3 DEF IndInv, PastReadings
  <2>5. /\ col.prev[k].cpu = last.work /\ col.prev[k].t = last.t
        /\ last.side => col.prev[k].io = last.work
    BY <2>1, <2>4 DEF IndInv, BaselineIsLastReading
  <2> DEFINE n == world.now - last.t
             share == (100 * (world.busyTicks[i] - last.work)) \div n
  <2>6. /\ p.pid = i /\ p.accessible = TRUE
        /\ p.cpu = cpu_pct(world.busyTicks[i] - last.work, n)
        /\ p.io = IF world.sideOk THEN cpu_pct(world.busyTicks[i] - col.prev[k].io, n) ELSE None
    BY <1>4, <2>5 DEF query_one, proc_key
  <2>7. n \in Nat
    BY <1>1, <2>3, <2>4
  <2>8. True(last, world, i) = IF n = 0 THEN None ELSE share
    BY <1>1, <2>1, <2>3, <2>4 DEF True
  <2>9. cpu_pct(world.busyTicks[i] - last.work, n) = IF n = 0 THEN None ELSE share
    BY DEF cpu_pct
  <2>10. n # 0 => share \in Int
    BY <1>1, <2>3, <2>7
  <2> HIDE DEF n, share, p
  <2> QED
    BY <2>5, <2>6, <2>8, <2>9, <2>10 DEF p
<1> QED
  BY <1>2, <1>3, <1>4

(* The processes shown are among those read.                                *)
LEMMA HottestAmong ==
  ASSUME NEW S, IsFiniteSet(S), \A p \in S : heat(p) \in Int, NEW n \in Nat
  PROVE  hottest(S, n) \in SUBSET S
<1> DEFINE m == Min({n, Cardinality(S)})
           f == [p \in S |-> heat(p)]
<1>1. Cardinality(S) \in Nat
  BY FS_CardinalityType
<1>2. n \in Int /\ Cardinality(S) \in Int
  BY <1>1
<1>3. m \in {n, Cardinality(S)} /\ m <= Cardinality(S)
  BY <1>2, LesserOfTwo
<1>4. m \in Nat
  BY <1>1, <1>3
<1>5. f \in [S -> Int]
  OBVIOUS
<1> HIDE DEF m
<1>6. \E s \in SUBSET S : Cardinality(s) = m /\ \A x \in s, y \in S \ s : f[x] >= f[y]
  BY <1>3, <1>4, <1>5, GreatestOnes
<1>7. \E s \in SUBSET S : Cardinality(s) = m /\ \A x \in s, y \in S \ s : heat(x) >= heat(y)
  BY <1>6
<1> QED
  BY <1>7 DEF hottest, m

(* The baselines after a snapshot.                                          *)
LEMMA BaselineMoves ==
  ASSUME IndInv, kind = "proc", NEW r, Reads(r), r.world = world, r.err = None,
         r.col.prev = baseline(col.prev, world)
  PROVE  BaselineIsLastReading'
<1> DEFINE seen == {proc_key(world, i) : i \in {j \in world.present : Value(world, j)}}
           b == baseline(col.prev, world)
<1>1. /\ DOMAIN b = seen \cup DOMAIN col.prev
      /\ \A k \in seen : b[k] = [cpu |-> world.busyTicks[k[1]],
                                 io |-> IF world.sideOk THEN world.busyTicks[k[1]] ELSE 0,
                                 t |-> world.now]
      /\ \A k \in DOMAIN col.prev \ seen : b[k] = col.prev[k]
  BY DEF baseline
<1> HIDE DEF b
<1>2. world \in Worlds /\ world.present \in SUBSET Insts
  BY WorldType DEF IndInv, TypeOK
<1>3. About = {j \in world.present : Value(world, j)}
  BY DEF About
<1>4. \A k : k \in seen <=> \E j \in About : k = <<j, world.gen[j]>>
  BY <1>3 DEF proc_key
<1> HIDE DEF seen
<1> SUFFICES ASSUME NEW i \in Insts
             PROVE  /\ \A k \in DOMAIN b : k[1] = i =>
                         hist'.last[i] # None /\ k[2] \in 0..hist'.last[i].gen
                    /\ hist'.last[i] # None =>
                         LET k == <<i, hist'.last[i].gen>> IN
                         /\ k \in DOMAIN b
                         /\ b[k].cpu = hist'.last[i].work /\ b[k].t = hist'.last[i].t
                         /\ hist'.last[i].side => b[k].io = hist'.last[i].work
  BY DEF Reads, BaselineIsLastReading, b
<1>5. world.gen[i] \in Nat
  BY <1>2, WorldType
<1>6. hist.last[i] # None => hist.last[i].gen \in Nat /\ hist.last[i].gen <= world.gen[i]
  BY DEF IndInv, TypeOK, Marks, PastReadings
<1>7. \A k \in DOMAIN col.prev : k[1] = i => hist.last[i] # None /\ k[2] \in 0..hist.last[i].gen
  BY DEF IndInv, BaselineIsLastReading
<1>8. CASE i \in About
  <2>1. hist'.last[i] = Mark(world, i) /\ hist'.last[i] # None
    BY <1>2, <1>3, <1>8, MarksAfter DEF IndInv, TypeOK
  <2>2. /\ hist'.last[i].gen = world.gen[i] /\ hist'.last[i].work = world.busyTicks[i]
        /\ hist'.last[i].t = world.now /\ hist'.last[i].side = world.sideOk
    BY <2>1 DEF Mark
  <2>3. ASSUME NEW k \in DOMAIN b, k[1] = i PROVE k[2] \in 0..world.gen[i]
    <3>1. CASE k \in seen
      BY <1>4, <1>5, <2>3, <3>1
    <3>2. CASE k \notin seen
      <4>1. hist.last[i] # None /\ k[2] \in 0..hist.last[i].gen
        BY <1>1, <1>7, <2>3, <3>2
      <4> QED
        BY <1>5, <1>6, <4>1
    <3> QED
      BY <3>1, <3>2
  <2> DEFINE k == <<i, world.gen[i]>>
  <2>4. k \in seen /\ k[1] = i
    BY <1>4, <1>8
  <2>5. /\ k \in DOMAIN b /\ b[k].cpu = world.busyTicks[i] /\ b[k].t = world.now
        /\ world.sideOk => b[k].io = world.busyTicks[i]
    BY <1>1, <2>4
  <2> QED
    BY <2>1, <2>2, <2>3, <2>5
<1>9. CASE i \notin About
  <2>1. hist'.last[i] = hist.last[i]
    BY <1>2, <1>9, MarksAfter DEF IndInv, TypeOK
  <2>2. \A k \in seen : k[1] # i
    BY <1>4, <1>9
  <2>3. hist.last[i] # None =>
          LET k == <<i, hist.last[i].gen>> IN
          /\ k \in DOMAIN col.prev /\ k \notin seen
          /\ col.prev[k].cpu = hist.last[i].work /\ col.prev[k].t = hist.last[i].t
          /\ hist.last[i].side => col.prev[k].io = hist.last[i].work
    BY <2>2 DEF IndInv, BaselineIsLastReading
  <2>4. \A k \in DOMAIN b : k[1] = i => k \in DOMAIN col.prev
    BY <1>1, <2>2
  <2> QED
    BY <1>1, <1>7, <2>1, <2>3, <2>4
<1> QED
  BY <1>8, <1>9

(* A read of the process table: the rates are against the last table.       *)
LEMMA ProcRead ==
  ASSUME IndInv, kind = "proc", NEW r, r = proc_read(col, world), Reads(r)
  PROVE  Good'
<1> DEFINE infos == {query_one(col.prev, world, i) : i \in world.present}
           d == [col EXCEPT !.prev = baseline(col.prev, world)]
           sample == [total |-> Cardinality(infos),
                      inaccessible |-> Cardinality({p \in infos : ~p.accessible}),
                      truncated |-> Cardinality(infos) > TopN,
                      top |-> hottest(infos, TopN)]
<1>1. DOMAIN col = Fields /\ world \in Worlds /\ world.present \in SUBSET Insts
  BY WorldType DEF IndInv, TypeOK
<1>2. ToldIsKept' /\ EventsReplay'
  BY DEF Reads, ToldIsKept, EventsReplay
<1>3. kind' = kind /\ col' = r.col /\ out'.how = r.how /\ out'.sample = r.sample
  BY DEF Reads
<1>4. CASE world.prov # "up"
  <2>1. /\ r.col = col /\ r.world = world /\ r.how = "failed" /\ r.err = "snapshot failed"
    BY <1>4 DEF proc_read
  <2>2. r.err # None
    BY <2>1, CollectorsAssumption
  <2>3. \A i \in Insts : hist'.last[i] = hist.last[i]
    BY <1>1, <2>1, <2>2, MarksAfter DEF IndInv, TypeOK
  <2>4. BaselineIsLastReading'
    BY <1>3, <2>1, <2>3 DEF IndInv, BaselineIsLastReading
  <2>5. SteadyRates'
    BY <1>3, <2>1 DEF SteadyRates
  <2>6. Common(r)
    BY <1>1, <2>1, PlainCommon, LaterPass DEF IndInv, TypeOK, Fields
  <2> QED
    BY <1>2, <2>4, <2>5, <2>6, PlainGood DEF PdhKinds
<1>5. CASE world.prov = "up"
  <2>1. r = [col |-> d, world |-> world, err |-> None, how |-> "steady", sample |-> sample]
    BY <1>5, Zenon DEF proc_read
  <2>2. r.col = d /\ r.world = world /\ r.err = None /\ r.sample = sample
    BY <2>1
  <2>3. /\ DOMAIN d = Fields /\ d.prev = baseline(col.prev, world)
        /\ \A f \in Fields \ {"prev"} : d[f] = col[f]
    BY <1>1 DEF Fields
  <2>4. sample.top = hottest(infos, TopN)
    OBVIOUS
  <2> HIDE DEF d, sample
  <2>5. Common(r)
    BY <1>1, <2>2, <2>3, PlainCommon, LaterPass DEF IndInv, TypeOK, Fields
  <2>6. BaselineIsLastReading'
    BY <2>2, <2>3, BaselineMoves
  <2>7. \A p \in infos : \E i \in world.present :
          LET true == True(hist.last[i], world, i)
          IN /\ p.pid = i /\ p.cpu \in {None} \cup Int
             /\ p.accessible => p.cpu = true
             /\ p.io # None /\ hist.last[i] # None /\ hist.last[i].side => p.io = true
    BY <1>1, QueryOneIsTrue
  <2>8. IsFiniteSet(infos)
    <3> DEFINE q == [i \in world.present |-> query_one(col.prev, world, i)]
    <3>1. q \in Surjection(world.present, infos)
      BY DEF Surjection
    <3>2. IsFiniteSet(world.present)
      BY <1>1, Intervals, FS_Subset
    <3> QED
      BY <3>1, <3>2, FS_Surjection
  <2> HIDE DEF infos
  <2>9. \A p \in infos : heat(p) \in Int
    BY <2>7 DEF heat
  <2>10. hottest(infos, TopN) \in SUBSET infos
    BY <2>8, <2>9, HottestAmong, CollectorsAssumption
  <2>11. /\ hist'.true = [i \in Insts |-> True(hist.last[i], world, i)]
         /\ hist'.ioTrue = [i \in Insts |-> hist.last[i] # None /\ hist.last[i].side]
    BY <2>2 DEF Reads, Recorded
  <2>12. ASSUME NEW p \in out'.sample.top
         PROVE  /\ p.accessible => p.cpu = hist'.true[p.pid]
                /\ p.io # None /\ hist'.ioTrue[p.pid] => p.io = hist'.true[p.pid]
    <3>1. p \in infos
      BY <1>3, <2>2, <2>4, <2>10, <2>12
    <3>2. PICK i \in world.present :
            LET true == True(hist.last[i], world, i)
            IN /\ p.pid = i
               /\ p.accessible => p.cpu = true
               /\ p.io # None /\ hist.last[i] # None /\ hist.last[i].side => p.io = true
      BY <2>7, <3>1
    <3> QED
      BY <1>1, <2>11, <3>2
  <2>13. SteadyRates'
    BY <1>3, <2>12 DEF SteadyRates, PdhKinds
  <2> QED
    BY <1>2, <2>5, <2>6, <2>13, PlainGood DEF PdhKinds
<1> QED
  BY <1>4, <1>5

(* Devices: the changes are what tells two inventories apart.               *)
LEMMA DiffReplays ==
  ASSUME NEW prev \in SUBSET Insts, NEW cur \in SUBSET Insts, NEW changes,
         changes = diff_devices(prev, cur) \/ (changes = {} /\ prev = cur)
  PROVE  LET on == {e[2] : e \in {x \in changes : x[1] = "connected"}}
             off == {e[2] : e \in {x \in changes : x[1] = "disconnected"}}
         IN on \cap prev = {} /\ off \subseteq prev /\ (prev \cup on) \ off = cur
<1> DEFINE on == {e[2] : e \in {x \in changes : x[1] = "connected"}}
           off == {e[2] : e \in {x \in changes : x[1] = "disconnected"}}
<1>1. CASE changes = {} /\ prev = cur
  BY <1>1
<1>2. CASE changes = diff_devices(prev, cur)
  <2>1. \A x : x \in changes <=> \/ \E i \in cur \ prev : x = <<"connected", i>>
                                 \/ \E i \in prev \ cur : x = <<"disconnected", i>>
    BY <1>2 DEF diff_devices
  <2>2. on = cur \ prev
    <3>1. \A i \in cur \ prev : <<"connected", i>> \in changes
      BY <2>1
    <3>2. \A i \in cur \ prev : <<"connected", i>>[1] = "connected" /\ <<"connected", i>>[2] = i
      OBVIOUS
    <3>3. cur \ prev \subseteq on
      BY <3>1, <3>2
    <3>4. \A x \in changes : x[1] = "connected" => x[2] \in cur \ prev
      BY <2>1
    <3> QED
      BY <3>3, <3>4
  <2>3. off = prev \ cur
    <3>1. \A i \in prev \ cur : <<"disconnected", i>> \in changes
      BY <2>1
    <3>2. \A i \in prev \ cur : <<"disconnected", i>>[1] = "disconnected"
                                /\ <<"disconnected", i>>[2] = i
      OBVIOUS
    <3>3. prev \ cur \subseteq off
      BY <3>1, <3>2
    <3>4. \A x \in changes : x[1] = "disconnected" => x[2] \in prev \ cur
      BY <2>1
    <3> QED
      BY <3>3, <3>4
  <2> HIDE DEF on, off
  <2>4. on \cap prev = {} /\ off \subseteq prev /\ (prev \cup on) \ off = cur
    BY <2>2, <2>3
  <2> QED
    BY <2>4 DEF on, off
<1> QED
  BY <1>1, <1>2

(* A read of the USB tree, which enumerates every EnumEvery-th time.        *)
LEMMA UsbRead ==
  ASSUME IndInv, kind = "usb", NEW r, r = usb_read(col, world), Reads(r)
  PROVE  Good'
<1> DEFINE c == advance(col)
           full == ~c.ever \/ c.tick % EnumEvery = 0
           cur == enumerate_class(world)
           changes == IF c.ever THEN diff_devices(c.prev, cur) ELSE {}
           fresh == [devices |-> cur, power |-> query_power_devices(world), changes |-> changes]
           d == [c EXCEPT !.prev = cur, !.ever = TRUE, !.cached = fresh]
           on(s) == {e[2] : e \in {x \in s.changes : x[1] = "connected"}}
           off(s) == {e[2] : e \in {x \in s.changes : x[1] = "disconnected"}}
<1>1. /\ world \in Worlds /\ DOMAIN c = Fields /\ c.tick \in Nat
      /\ \A f \in Fields \ {"tick"} : c[f] = col[f]
  BY AdvanceBegins DEF Begun, Staged, IndInv, TypeOK
<1> HIDE DEF c
<1>2. c.ever = col.ever /\ c.cached = col.cached /\ c.prev = col.prev /\ col.ever \in BOOLEAN
  BY <1>1 DEF Fields, IndInv, TypeOK
<1>3. /\ col.cached \in {None} \cup Inventories
      /\ IF col.ever THEN hist.told = col.prev /\ col.prev \in SUBSET Insts ELSE hist.told = None
  BY DEF IndInv, ToldIsKept
<1>4. \A S \in SUBSET Insts : None # S
  BY CollectorsAssumption
<1>5. cur \in SUBSET Insts
  BY <1>1, WorldType DEF enumerate_class
<1>6. /\ kind' = kind /\ col' = r.col /\ due' = FALSE
      /\ hist'.told = IF r.err = None THEN Told(hist.told, r) ELSE hist.told
  BY DEF Reads, Recorded
<1>7. Told(hist.told, r) = IF hist.told = None THEN r.col.prev
                           ELSE IF on(r.sample) \cap hist.told # {} \/ ~(off(r.sample) \subseteq hist.told)
                                THEN {None}
                           ELSE (hist.told \cup on(r.sample)) \ off(r.sample)
  BY Zenon DEF Told
<1>8. CASE ~full /\ c.cached # None
  <2>1. /\ r.col = c /\ r.world = world /\ r.err = None /\ r.sample = cached_copy(c.cached)
    BY <1>8 DEF usb_read, c
  <2>2. r.sample.changes = {}
    <3>1. c.cached \in Inventories
      BY <1>2, <1>3, <1>8
    <3> QED
      BY <2>1, <3>1 DEF cached_copy, Inventories
  <2>3. col.ever = TRUE
    BY <1>2, <1>8
  <2>4. hist.told = col.prev /\ col.prev \in SUBSET Insts
    BY <1>3, <2>3
  <2>5. /\ on(r.sample) \cap hist.told = {} /\ off(r.sample) \subseteq hist.told
        /\ (hist.told \cup on(r.sample)) \ off(r.sample) = hist.told
    BY <2>2, <2>4, DiffReplays
  <2> HIDE DEF on, off
  <2>6. hist'.told = hist.told
    BY <1>4, <1>6, <1>7, <2>1, <2>4, <2>5
  <2>7. ToldIsKept' /\ EventsReplay'
    BY <1>2, <1>3, <1>6, <2>1, <2>3, <2>4, <2>6 DEF ToldIsKept, EventsReplay
  <2>8. Common(r)
    BY <1>1, <2>1, PlainCommon, LaterPass DEF IndInv, TypeOK, Fields
  <2>9. BaselineIsLastReading' /\ SteadyRates'
    BY <1>6 DEF BaselineIsLastReading, SteadyRates, PdhKinds
  <2> QED
    BY <2>7, <2>8, <2>9, PlainGood DEF PdhKinds
<1>9. CASE full \/ c.cached = None
  <2>1. /\ r.col = d /\ r.world = world /\ r.err = None /\ r.sample = fresh
    BY <1>9 DEF usb_read, c
  <2>2. /\ DOMAIN d = Fields /\ d.prev = cur /\ d.ever = TRUE /\ d.ever \in BOOLEAN
        /\ d.cached = fresh /\ \A f \in Fields \ {"prev", "ever", "cached"} : d[f] = c[f]
    BY <1>1 DEF Fields
  <2>3. changes \in SUBSET ({"connected", "disconnected"} \X Insts)
    BY <1>2, <1>3, <1>5 DEF diff_devices
  <2>4. query_power_devices(world) \in [list : SUBSET Insts, err : {None, "failed"}]
    BY <1>1, WorldType DEF query_power_devices
  <2>5. fresh \in Inventories /\ fresh.changes = changes
    BY <1>5, <2>3, <2>4 DEF Inventories
  <2> HIDE DEF d, fresh, cur
  <2>6. hist'.told = cur
    <3>1. CASE ~col.ever
      <4>1. hist.told = None
        BY <1>3, <3>1
      <4> QED
        BY <1>6, <1>7, <2>1, <2>2, <4>1
    <3>2. CASE col.ever
      <4>1. hist.told \in SUBSET Insts /\ changes = diff_devices(hist.told, cur)
        BY <1>2, <1>3, <3>2
      <4> HIDE DEF changes
      <4>2. r.sample.changes = diff_devices(hist.told, cur)
        BY <2>1, <2>5, <4>1
      <4>3. /\ on(r.sample) \cap hist.told = {} /\ off(r.sample) \subseteq hist.told
            /\ (hist.told \cup on(r.sample)) \ off(r.sample) = cur
        <5> DEFINE s == r.sample.changes
        <5>1. s = diff_devices(hist.told, cur) \/ (s = {} /\ hist.told = cur)
          BY <4>2
        <5> HIDE DEF s
        <5>2. LET o == {e[2] : e \in {x \in s : x[1] = "connected"}}
                  f == {e[2] : e \in {x \in s : x[1] = "disconnected"}}
              IN o \cap hist.told = {} /\ f \subseteq hist.told /\ (hist.told \cup o) \ f = cur
          BY <1>5, <4>1, <5>1, DiffReplays
        <5> QED
          BY <5>2 DEF s
      <4> HIDE DEF on, off
      <4> QED
        BY <1>4, <1>6, <1>7, <2>1, <4>1, <4>3
    <3> QED
      BY <1>2, <3>1, <3>2
  <2>7. ToldIsKept' /\ EventsReplay'
    BY <1>5, <1>6, <2>1, <2>2, <2>5, <2>6 DEF ToldIsKept, EventsReplay
  <2>8. Common(r)
    BY <1>1, <2>1, <2>2, PlainCommon, LaterPass DEF IndInv, TypeOK, Fields
  <2>9. BaselineIsLastReading' /\ SteadyRates'
    BY <1>6 DEF BaselineIsLastReading, SteadyRates, PdhKinds
  <2> QED
    BY <2>7, <2>8, <2>9, PlainGood DEF PdhKinds
<1> QED
  BY <1>8, <1>9

(* Displays: the brightness events among the changes.                       *)
LEMMA BrightReplays ==
  ASSUME NEW prev, NEW cur, IsFunction(cur.bright)
  PROVE  Continue(prev.bright, cur.bright,
                  {<<e[2], e[3], e[4]>> : e \in {x \in diff_state(prev, cur) : x[1] = "bright"}})
           = cur.bright
<1> DEFINE all4 == {x \in diff_state(prev, cur) : x[1] = "bright"}
           events == {<<e[2], e[3], e[4]>> : e \in all4}
           new(j) == <<"bright", j, prev.bright[j], cur.bright[j]>>
           differ == {j \in DOMAIN cur.bright \cap DOMAIN prev.bright :
                        cur.bright[j] # prev.bright[j]}
<1>1. \A x : x \in all4 <=> \E j \in differ : x = new(j)
  <2>1. \A x : x \in diff_state(prev, cur) =>
          \/ x = <<"monitors">> \/ x = <<"hdr">>
          \/ \E j : x = <<"mode", j>>
          \/ \E j \in differ : x = new(j)
    BY DEF diff_state
  <2>2. \A j \in differ : new(j) \in diff_state(prev, cur)
    BY Zenon DEF diff_state
  <2>3. \A j : new(j)[1] = "bright" /\ <<"mode", j>>[1] = "mode"
    OBVIOUS
  <2>4. <<"monitors">>[1] = "monitors" /\ <<"hdr">>[1] = "hdr"
    OBVIOUS
  <2> HIDE DEF new, differ
  <2> QED
    BY <2>1, <2>2, <2>3, <2>4
<1> HIDE DEF all4
<1>2. \A j : new(j)[2] = j /\ new(j)[3] = prev.bright[j] /\ new(j)[4] = cur.bright[j]
  OBVIOUS
<1>3. \A x : x \in events <=> \E j \in differ : x = <<j, prev.bright[j], cur.bright[j]>>
  <2>1. \A j : <<new(j)[2], new(j)[3], new(j)[4]>> = <<j, prev.bright[j], cur.bright[j]>>
    BY <1>2
  <2>2. \A x : x \in events <=> \E e \in all4 : x = <<e[2], e[3], e[4]>>
    OBVIOUS
  <2> HIDE DEF new, events, differ
  <2> QED
    BY <1>1, <2>1, <2>2
<1> HIDE DEF events
<1>4. ASSUME NEW i \in DOMAIN cur.bright
      PROVE  {x \in events : x[1] = i} =
               IF i \in DOMAIN prev.bright /\ prev.bright[i] # cur.bright[i]
               THEN {<<i, prev.bright[i], cur.bright[i]>>} ELSE {}
  <2>1. \A x \in events : x[1] = i => i \in differ /\ x = <<i, prev.bright[i], cur.bright[i]>>
    BY <1>3
  <2>2. i \in differ => <<i, prev.bright[i], cur.bright[i]>> \in events
    BY <1>3
  <2>3. i \in differ <=> i \in DOMAIN prev.bright /\ prev.bright[i] # cur.bright[i]
    OBVIOUS
  <2>4. <<i, prev.bright[i], cur.bright[i]>>[1] = i
    OBVIOUS
  <2> HIDE DEF differ
  <2> QED
    BY <2>1, <2>2, <2>3, <2>4
<1>5. Continue(prev.bright, cur.bright, events) = cur.bright
  BY <1>4, ContinueReplays
<1> QED
  BY <1>5 DEF events, all4

(* A read of the displays, replayed by brightness.                          *)
LEMMA DisplayRead ==
  ASSUME IndInv, kind = "display", NEW r, r = display_read(col, world), Reads(r)
  PROVE  Good'
<1> DEFINE cur == [modes |-> [i \in world.present |-> i \in world.busy],
                   bright |-> query_brightness(world).of, hdr |-> query_hdr(world)]
           kept == [modes |-> cur.modes, bright |-> cur.bright,
                    monitors |-> Cardinality(world.present), hdr |-> Cardinality(cur.hdr)]
           d == [col EXCEPT !.ever = TRUE, !.prev = kept]
           changes == IF col.ever THEN diff_state(col.prev, cur) ELSE {}
           sample == [modes |-> cur.modes, bright |-> cur.bright, hdr |-> cur.hdr,
                      changes |-> changes]
           bright == {<<e[2], e[3], e[4]>> : e \in {x \in changes : x[1] = "bright"}}
<1>1. DOMAIN col = Fields /\ world \in Worlds /\ col.ever \in BOOLEAN
  BY DEF IndInv, TypeOK
<1>2. r = [col |-> d, world |-> world, err |-> None, how |-> "steady", sample |-> sample]
  BY Zenon DEF display_read
<1>3. /\ DOMAIN d = Fields /\ d.ever = TRUE /\ d.ever \in BOOLEAN /\ d.prev = kept
      /\ \A f \in Fields \ {"ever", "prev"} : d[f] = col[f]
  BY <1>1 DEF Fields
<1>4. r.col = d /\ r.world = world /\ r.err = None /\ r.sample = sample
  BY <1>2
<1>5. kept.bright = cur.bright /\ sample.bright = cur.bright /\ sample.changes = changes
  OBVIOUS
<1>6. IsFunction(cur.bright)
  <2>1. << >> = [x \in {} |-> << >>[x]] /\ DOMAIN << >> = {}
    OBVIOUS
  <2> QED
    BY <2>1 DEF IsFunction, query_brightness
<1>7. IF col.ever THEN hist.told = col.prev.bright /\ IsFunction(hist.told)
      ELSE DOMAIN hist.told = {}
  BY DEF IndInv, ToldIsKept
<1>8. Continue(hist.told, cur.bright, bright) = cur.bright
  <2>1. CASE col.ever
    <3> HIDE DEF cur
    <3>1. bright = {<<e[2], e[3], e[4]>> : e \in {x \in diff_state(col.prev, cur) : x[1] = "bright"}}
      BY <2>1
    <3> HIDE DEF bright
    <3> QED
      BY <1>6, <1>7, <2>1, <3>1, BrightReplays
  <2>2. CASE ~col.ever
    <3>1. bright = {}
      BY <2>2
    <3> HIDE DEF bright, cur
    <3> QED
      BY <1>6, <1>7, <2>2, <3>1, ContinueReplays
  <2> QED
    BY <2>1, <2>2
<1>9. /\ kind' = kind /\ col' = r.col /\ out'.sample = r.sample
      /\ hist'.told = IF r.err = None THEN Told(hist.told, r) ELSE hist.told
  BY DEF Reads, Recorded
<1> HIDE DEF d, sample, kept
<1>10. hist'.told = cur.bright
  <2>1. Told(hist.told, r) = Continue(hist.told, r.sample.bright,
           {<<e[2], e[3], e[4]>> : e \in {x \in r.sample.changes : x[1] = "bright"}})
    BY DEF Told
  <2> HIDE DEF cur, changes
  <2>2. r.sample.bright = cur.bright /\ r.sample.changes = changes
    BY <1>4, <1>5
  <2> QED
    BY <1>4, <1>8, <1>9, <2>1, <2>2
<1> HIDE DEF cur
<1>11. ToldIsKept' /\ EventsReplay'
  BY <1>3, <1>4, <1>5, <1>6, <1>9, <1>10 DEF ToldIsKept, EventsReplay
<1>12. Common(r)
  BY <1>1, <1>3, <1>4, PlainCommon, LaterPass DEF IndInv, TypeOK, Fields
<1>13. BaselineIsLastReading' /\ SteadyRates'
  BY <1>9 DEF BaselineIsLastReading, SteadyRates, PdhKinds
<1> QED
  BY <1>11, <1>12, <1>13, PlainGood DEF PdhKinds

(* The power policy: the snapshot is of the scheme it is shown under.       *)
LEMMA PowerRead ==
  ASSUME IndInv, kind = "os_power", NEW s \in Insts, NEW r,
         r = os_power_read(col, world, Switched(world, s)), Reads(r)
  PROVE  Good'
<1> DEFINE w2 == Switched(world, s)
           scheme == active_scheme(world)
           e == query_effective(w2)
           taken == [col EXCEPT !.eff = e.value, !.effScheme = scheme, !.effAt = w2.now]
           takes == snapshot_due(col, scheme) /\ e.ok
           d == IF takes THEN taken ELSE col
           sample == [scheme |-> scheme, at |-> d.effAt,
                      value |-> IF d.eff # None THEN d.eff ELSE read_index(world, scheme)]
<1>1. DOMAIN col = Fields /\ world \in Worlds /\ due = TRUE /\ world.now \in Nat /\ col.effAt \in Nat
  BY WorldType DEF IndInv, TypeOK, Reads
<1>2. Later(w2) /\ w2.now = world.now /\ w2.active = s /\ w2.sideOk = world.sideOk
  <2>1. w2 = [world EXCEPT !.active = s]
    BY DEF Switched
  <2>2. w2 \in Worlds /\ w2.active = s
        /\ \A f \in {"now", "gen", "present", "attr", "sideOk", "prov", "busyTicks"} : w2[f] = world[f]
    BY <1>1, <2>1 DEF Worlds
  <2> HIDE DEF w2
  <2> QED
    BY <1>1, <2>2, WorldType DEF Later
<1>3. r = [col |-> d, world |-> w2, err |-> None, how |-> "steady", sample |-> sample]
  BY Zenon DEF os_power_read
<1> HIDE DEF w2
<1>4. e.ok = world.sideOk
  BY <1>1, <1>2 DEF query_effective, Worlds
<1> HIDE DEF e
<1>5. /\ DOMAIN taken = Fields /\ taken.effScheme = scheme /\ taken.effAt = w2.now
      /\ \A f \in Fields \ {"eff", "effScheme", "effAt"} : taken[f] = col[f]
  BY <1>1 DEF Fields
<1>6. sample.scheme = scheme
  OBVIOUS
<1>7. r.col = d /\ r.world = w2 /\ r.err = None /\ r.sample = sample
  BY <1>3
<1> HIDE DEF taken, sample
<1>8. /\ DOMAIN d = Fields /\ d.effAt \in {col.effAt, world.now}
      /\ \A f \in Fields \ {"eff", "effScheme", "effAt"} : d[f] = col[f]
  BY <1>1, <1>2, <1>5
<1>9. Common(r)
  <2>1. d.tick \in Nat /\ d.ever \in BOOLEAN
        /\ \A f \in {"q", "retry", "fresh", "stale", "inv"} : d[f] = col[f]
    BY <1>8 DEF IndInv, TypeOK, Fields
  <2> QED
    BY <1>2, <1>7, <1>8, <2>1, PlainCommon DEF IndInv
<1>10. takes <=> d.effAt # col.effAt
  <2>1. world.now # col.effAt
    BY <1>1 DEF IndInv, PastReadings
  <2> QED
    BY <1>2, <1>5, <2>1
<1>11. /\ kind' = kind /\ col' = r.col /\ out'.sample = r.sample
       /\ hist'.snapped = IF r.col.effAt # col.effAt THEN r.world.active ELSE hist.snapped
       /\ hist'.clean = (/\ hist.clean \/ r.col.effAt # col.effAt
                         /\ world.sideOk /\ r.world.active = world.active)
  BY DEF Reads, Recorded
<1>12. ASSUME hist'.clean
       PROVE  /\ takes /\ scheme # None => scheme = hist'.snapped
              /\ ~takes => /\ hist.clean /\ hist'.snapped = hist.snapped
                           /\ d.eff # None /\ d.effScheme = scheme
  <2>1. world.sideOk /\ s = world.active
    BY <1>2, <1>7, <1>11, <1>12
  <2>2. ASSUME takes, scheme # None PROVE scheme = hist'.snapped
    <3>1. hist'.snapped = s
      BY <1>2, <1>7, <1>10, <1>11, <2>2
    <3>2. scheme = world.active
      BY <2>2 DEF active_scheme
    <3> QED
      BY <2>1, <3>1, <3>2
  <2>3. ASSUME ~takes PROVE hist.clean /\ hist'.snapped = hist.snapped
    BY <1>7, <1>10, <1>11, <1>12, <2>3
  <2>4. ASSUME ~takes PROVE d.eff # None /\ d.effScheme = scheme
    BY <1>4, <2>1, <2>4 DEF snapshot_due
  <2> QED
    BY <2>2, <2>3, <2>4
<1>13. hist.clean /\ col.eff # None /\ col.effScheme # None => col.effScheme = hist.snapped
  BY DEF IndInv, ToldIsKept
<1>14. ToldIsKept'
  <2>1. ASSUME hist'.clean, d.eff # None, d.effScheme # None PROVE d.effScheme = hist'.snapped
    <3>1. CASE takes
      BY <1>5, <1>12, <2>1, <3>1
    <3>2. CASE ~takes
      BY <1>12, <1>13, <2>1, <3>2
    <3> QED
      BY <3>1, <3>2
  <2> HIDE DEF d
  <2> QED
    BY <1>7, <1>11, <2>1 DEF ToldIsKept
<1>15. EventsReplay'
  <2>1. ASSUME hist'.clean, scheme # None PROVE scheme = hist'.snapped
    <3>1. CASE takes
      BY <1>12, <2>1, <3>1
    <3>2. CASE ~takes
      BY <1>12, <1>13, <2>1, <3>2
    <3> QED
      BY <3>1, <3>2
  <2> HIDE DEF d, scheme
  <2> QED
    BY <1>6, <1>7, <1>11, <2>1 DEF EventsReplay, scheme
<1>16. BaselineIsLastReading' /\ SteadyRates'
  BY <1>11 DEF BaselineIsLastReading, SteadyRates, PdhKinds
<1> QED
  BY <1>9, <1>14, <1>15, <1>16, PlainGood DEF PdhKinds

-----------------------------------------------------------------------------
(* Every step keeps the invariant, and every read what the properties say.  *)

(* Whichever the collector, a read keeps all that is claimed.               *)
LEMMA ReadGood ==
  ASSUME IndInv, Read
  PROVE  Good'
<1>1. PICK r \in Answers(col, world) : Reads(r)
  BY DEF Read, Reads
<1>2. CASE kind \in PdhKinds
  <2>1. r = PdhRead(col, world)
    BY <1>2 DEF Answers, PdhKinds
  <2>2. kind = "cpu" => r = cpu_read(col, world)
    BY <2>1 DEF PdhRead
  <2>3. kind = "gpu" => r = gpu_read(col, world)
    BY <2>1 DEF PdhRead
  <2>4. kind = "storage" => r = storage_read(col, world)
    BY <2>1 DEF PdhRead
  <2>5. kind = "net" => r = net_read(col, world)
    BY <2>1 DEF PdhRead
  <2> QED
    BY <1>1, <1>2, <2>2, <2>3, <2>4, <2>5, CpuRead, GpuRead, StorageRead, NetRead DEF PdhKinds
<1>3. CASE kind = "proc"
  BY <1>1, <1>3, ProcRead DEF Answers, PdhKinds
<1>4. CASE kind = "self"
  BY <1>1, <1>4, SelfRead DEF Answers, PdhKinds
<1>5. CASE kind = "usb"
  BY <1>1, <1>5, UsbRead DEF Answers, PdhKinds
<1>6. CASE kind = "display"
  BY <1>1, <1>6, DisplayRead DEF Answers, PdhKinds
<1>7. CASE kind = "battery"
  BY <1>1, <1>7, BatteryRead DEF Answers, PdhKinds
<1>8. CASE kind = "os_power"
  <2> DEFINE S == IF world.changes < MaxChanges THEN Insts ELSE {world.active}
  <2>1. \E s \in S : r = os_power_read(col, world, Switched(world, s))
    BY <1>1, <1>8 DEF Answers, PdhKinds
  <2>2. S \subseteq Insts
    BY WorldType DEF IndInv, TypeOK
  <2> QED
    BY <1>1, <1>8, <2>1, <2>2, PowerRead
<1>9. kind \in PdhKinds \cup {"proc", "self", "usb", "display", "os_power", "battery"}
  BY CollectorsAssumption DEF IndInv, TypeOK
<1> QED
  BY <1>2, <1>3, <1>4, <1>5, <1>6, <1>7, <1>8, <1>9

(* A step of the system: time passes before the next read is due, and what  *)
(* changes after that leaves no instance older or less worked.              *)
LEMMA SystemKeeps ==
  ASSUME IndInv, UNCHANGED <<kind, col, out, reads, hist>>, due' = TRUE,
         world' \in Worlds, world'.now = world.now + (IF due THEN 0 ELSE 1),
         \A i \in Insts : world'.gen[i] >= world.gen[i],
         \A i \in Insts : world'.gen[i] = world.gen[i] =>
                            world'.busyTicks[i] >= world.busyTicks[i]
  PROVE  Good'
<1>1. TypeOK'
  BY DEF IndInv, TypeOK
<1>2. WindowIsLastReading' /\ BaselineIsLastReading' /\ TableIsRecent' /\ WaitsAtMost' /\ ToldIsKept'
  BY DEF IndInv, WindowIsLastReading, BaselineIsLastReading, TableIsRecent, WaitsAtMost, ToldIsKept
<1>3. world.now \in Nat /\ col.effAt \in Nat /\ due \in BOOLEAN
  BY WorldType DEF IndInv, TypeOK
<1>4. col.effAt < world'.now /\ col.effAt <= world'.now
  BY <1>3 DEF IndInv, PastReadings
<1>5. ASSUME NEW i \in Insts, hist.last[i] # None
      PROVE  /\ hist.last[i].t < world'.now /\ hist.last[i].t <= world'.now
             /\ hist.last[i].gen <= world'.gen[i]
             /\ hist.last[i].gen = world'.gen[i] => hist.last[i].work <= world'.busyTicks[i]
  <2>1. hist.last[i] \in Marks
    BY <1>5 DEF IndInv, TypeOK
  <2>2. hist.last[i].t \in Nat /\ hist.last[i].work \in Nat /\ hist.last[i].gen \in Nat
    BY <2>1 DEF Marks
  <2>3. /\ hist.last[i].t <= world.now /\ (due => hist.last[i].t < world.now)
        /\ hist.last[i].gen <= world.gen[i]
        /\ hist.last[i].gen = world.gen[i] => hist.last[i].work <= world.busyTicks[i]
    BY <1>5 DEF IndInv, PastReadings
  <2>4. /\ world.gen[i] \in Nat /\ world'.gen[i] \in Nat
        /\ world.busyTicks[i] \in Nat /\ world'.busyTicks[i] \in Nat
    BY WorldType DEF IndInv, TypeOK
  <2> QED
    BY <1>3, <2>2, <2>3, <2>4
<1>6. PastReadings'
  <2>1. hist' = hist /\ col' = col
    OBVIOUS
  <2> QED
    BY <1>4, <1>5, <2>1 DEF PastReadings
<1>7. SteadyRates' /\ NewDeviceSeen' /\ EventsReplay'
  BY DEF SteadyRates, NewDeviceSeen, EventsReplay, Fresh
<1> QED
  BY <1>1, <1>2, <1>6, <1>7 DEF Good, IndInv

(* The step the scheduler takes keeps it.                                   *)
LEMMA TickGood ==
  ASSUME IndInv, Tick
  PROVE  Good'
<1>1. world \in Worlds
  BY DEF IndInv, TypeOK
<1>2. /\ world' = Pass(world) /\ due' = TRUE /\ ~due
      /\ UNCHANGED <<kind, col, out, reads, hist>>
  BY DEF Tick
<1>3. /\ world' \in Worlds /\ world'.now = world.now + 1 /\ world'.gen = world.gen
      /\ \A i \in Insts : world'.busyTicks[i] >= world.busyTicks[i]
  BY <1>1, <1>2, PassKeeps
<1>4. \A i \in Insts : world.gen[i] \in Nat
  BY <1>1, WorldType
<1> QED
  BY <1>2, <1>3, <1>4, SystemKeeps

(* A change of the system between two reads keeps it.                       *)
LEMMA ChangeGood ==
  ASSUME IndInv, NEW w \in Worlds, Change(w), w.now = world.now, w.changes = world.changes,
         \A i \in Insts : \/ w.gen[i] = world.gen[i] /\ w.busyTicks[i] = world.busyTicks[i]
                          \/ w.gen[i] = world.gen[i] + 1
  PROVE  Good'
<1>1. /\ world' = [w EXCEPT !.changes = w.changes + 1] /\ due /\ due' = due
      /\ UNCHANGED <<kind, col, out, reads, hist>>
  BY DEF Change
<1>2. w.changes + 1 \in Nat
  BY WorldType
<1>3. /\ world' \in Worlds /\ world'.now = w.now /\ world'.gen = w.gen
      /\ world'.busyTicks = w.busyTicks
  BY <1>1, <1>2 DEF Worlds
<1>4. world \in Worlds /\ world.now \in Nat /\ due = TRUE
  BY <1>1, WorldType DEF IndInv, TypeOK
<1>5. \A i \in Insts : /\ world.gen[i] \in Nat /\ w.gen[i] \in Nat
                       /\ world.busyTicks[i] \in Nat /\ w.busyTicks[i] \in Nat
  BY <1>4, WorldType
<1>6. world'.now = world.now + (IF due THEN 0 ELSE 1)
  BY <1>3, <1>4
<1>7. \A i \in Insts : world'.gen[i] >= world.gen[i]
  BY <1>3, <1>5
<1>8. \A i \in Insts : world'.gen[i] = world.gen[i] => world'.busyTicks[i] >= world.busyTicks[i]
  BY <1>3, <1>5
<1> QED
  BY <1>1, <1>3, <1>4, <1>6, <1>7, <1>8, SystemKeeps

(* Every step keeps it, stuttering included.                                *)
LEMMA NextGood ==
  ASSUME IndInv, Next
  PROVE  Good'
<1>1. world \in Worlds /\ world.changes \in Nat
  BY WorldType DEF IndInv, TypeOK
<1>2. \A i \in Insts : world.gen[i] \in Nat /\ world.busyTicks[i] \in Nat
  BY <1>1, WorldType
<1>3. CASE Tick
  BY <1>3, TickGood
<1>4. CASE Read
  BY <1>4, ReadGood
<1>5. CASE Provider
  <2>1. PICK p \in {"up", "busy", "denied", "no data"} : Change([world EXCEPT !.prov = p])
    BY <1>5 DEF Provider
  <2> DEFINE w == [world EXCEPT !.prov = p]
  <2>2. /\ w \in Worlds /\ w.now = world.now /\ w.changes = world.changes
        /\ w.gen = world.gen /\ w.busyTicks = world.busyTicks
    BY <1>1 DEF Worlds
  <2> HIDE DEF w
  <2>3. Change(w)
    BY <2>1 DEF w
  <2> QED
    BY <2>2, <2>3, ChangeGood
<1>6. CASE Side
  <2> DEFINE w == [world EXCEPT !.sideOk = ~world.sideOk]
  <2>1. Change(w)
    BY <1>6 DEF Side
  <2>2. /\ w \in Worlds /\ w.now = world.now /\ w.changes = world.changes
        /\ w.gen = world.gen /\ w.busyTicks = world.busyTicks
    BY <1>1 DEF Worlds
  <2> HIDE DEF w
  <2> QED
    BY <2>1, <2>2, ChangeGood
<1>7. ASSUME NEW i \in Insts, Arrive(i) PROVE Good'
  <2> DEFINE g == [world.gen EXCEPT ![i] = world.gen[i] + 1]
             b == [world.busyTicks EXCEPT ![i] = 0]
             w == [world EXCEPT !.present = world.present \cup {i}, !.gen = g, !.busyTicks = b]
  <2>1. Change(w)
    <3>1. w = [world EXCEPT !.present = @ \cup {i}, !.gen[i] = @ + 1, !.busyTicks[i] = 0]
      BY <1>1 DEF Worlds
    <3> HIDE DEF w
    <3> QED
      BY <1>7, <3>1 DEF Arrive
  <2>2. g \in [Insts -> Nat] /\ b \in [Insts -> Nat] /\ world.present \cup {i} \in SUBSET Insts
    <3>1. /\ world.gen \in [Insts -> Nat] /\ world.busyTicks \in [Insts -> Nat]
          /\ world.present \in SUBSET Insts
      BY <1>1 DEF Worlds
    <3>2. world.gen[i] + 1 \in Nat
      BY <1>2
    <3> QED
      BY <3>1, <3>2
  <2>3. \A j \in Insts : \/ g[j] = world.gen[j] /\ b[j] = world.busyTicks[j]
                         \/ g[j] = world.gen[j] + 1
    BY <1>1, <1>2 DEF Worlds
  <2> HIDE DEF g, b
  <2>4. /\ w \in Worlds /\ w.now = world.now /\ w.changes = world.changes
        /\ w.gen = g /\ w.busyTicks = b
    BY <1>1, <2>2 DEF Worlds
  <2> HIDE DEF w
  <2> QED
    BY <2>1, <2>3, <2>4, ChangeGood
<1>8. ASSUME NEW i \in Insts, Leave(i) PROVE Good'
  <2> DEFINE w == [world EXCEPT !.present = world.present \ {i}]
  <2>1. Change(w)
    BY <1>8 DEF Leave
  <2>2. /\ w \in Worlds /\ w.now = world.now /\ w.changes = world.changes
        /\ w.gen = world.gen /\ w.busyTicks = world.busyTicks
    BY <1>1 DEF Worlds
  <2> HIDE DEF w
  <2> QED
    BY <2>1, <2>2, ChangeGood
<1>9. ASSUME NEW i \in Insts, Work(i) PROVE Good'
  <2> DEFINE w == [world EXCEPT !.busy = Flip(world.busy, i)]
  <2>1. Change(w)
    BY <1>9 DEF Work
  <2>2. Flip(world.busy, i) \in SUBSET Insts
    BY <1>1 DEF Flip, Worlds
  <2>3. /\ w \in Worlds /\ w.now = world.now /\ w.changes = world.changes
        /\ w.gen = world.gen /\ w.busyTicks = world.busyTicks
    BY <1>1, <2>2 DEF Worlds
  <2> HIDE DEF w
  <2> QED
    BY <2>1, <2>3, ChangeGood
<1>10. ASSUME NEW i \in Insts, Attribute(i) PROVE Good'
  <2> DEFINE w == [world EXCEPT !.attr = Flip(world.attr, i)]
  <2>1. Change(w)
    BY <1>10 DEF Attribute
  <2>2. Flip(world.attr, i) \in SUBSET Insts
    BY <1>1 DEF Flip, Worlds
  <2>3. /\ w \in Worlds /\ w.now = world.now /\ w.changes = world.changes
        /\ w.gen = world.gen /\ w.busyTicks = world.busyTicks
    BY <1>1, <2>2 DEF Worlds
  <2> HIDE DEF w
  <2> QED
    BY <2>1, <2>3, ChangeGood
<1>11. ASSUME NEW i \in Insts, Activate(i) PROVE Good'
  <2> DEFINE w == [world EXCEPT !.active = i]
  <2>1. Change(w)
    BY <1>11 DEF Activate
  <2>2. /\ w \in Worlds /\ w.now = world.now /\ w.changes = world.changes
        /\ w.gen = world.gen /\ w.busyTicks = world.busyTicks
    BY <1>1 DEF Worlds
  <2> HIDE DEF w
  <2> QED
    BY <2>1, <2>2, ChangeGood
<1> QED
  BY <1>3, <1>4, <1>5, <1>6, <1>7, <1>8, <1>9, <1>10, <1>11 DEF Next

(* It holds before the first read.                                          *)
LEMMA InitGood == Init => Good
<1> SUFFICES ASSUME Init PROVE Good
  OBVIOUS
<1>1. Pkg \in Insts /\ RebuildEvery \in Nat \ {0}
  BY Intervals
<1>2. world \in Worlds
  BY <1>1 DEF Init, Worlds
<1>3. /\ DOMAIN col = Fields /\ col.q = None /\ col.retry = NoRetry /\ col.tick = 0
      /\ col.fresh = FALSE /\ col.stale = FALSE /\ col.inv = 0 /\ col.ever = FALSE
      /\ col.cached = None /\ col.eff = None /\ col.effAt = 0
      /\ kind \in {"net", "proc"} => col.prev = << >>
  BY DEF Init, NewCollector, Fields
<1>4. /\ \A i \in Insts : hist.last[i] = None
      /\ hist.last \in [Insts -> {None} \cup Marks]
      /\ hist.age \in [Insts -> Nat] /\ hist.upAge \in [Insts -> Nat]
      /\ hist.failing = 0 /\ hist.clean \in BOOLEAN
      /\ hist.told = IF kind = "usb" THEN None ELSE << >>
  BY DEF Init
<1>5. DOMAIN << >> = {} /\ << >> = [x \in {} |-> << >>[x]]
  OBVIOUS
<1>6. TypeOK
  <2>1. NoRetry \in Retries
    BY DEF NoRetry, Retries
  <2>2. kind \in Kinds /\ due \in BOOLEAN
    BY DEF Init
  <2>3. /\ col.q \in {None} \cup Queries /\ col.retry \in Retries /\ col.tick \in Nat
        /\ col.inv \in Nat /\ col.effAt \in Nat
    BY <1>3, <2>1
  <2>4. col.fresh = FALSE /\ col.stale \in BOOLEAN /\ col.ever \in BOOLEAN
    BY <1>3
  <2>5. hist.failing \in Nat /\ hist.clean \in BOOLEAN
    BY <1>4
  <2> QED
    BY <1>2, <1>3, <1>4, <2>2, <2>3, <2>4, <2>5 DEF TypeOK
<1>7. PastReadings /\ WindowIsLastReading /\ BaselineIsLastReading /\ TableIsRecent
  <2>1. world.now = 1 /\ due = FALSE
    BY DEF Init
  <2> QED
    BY <1>3, <1>4, <1>5, <2>1
       DEF PastReadings, WindowIsLastReading, BaselineIsLastReading, TableIsRecent
<1>8. WaitsAtMost /\ ToldIsKept
  <2>1. NoRetry.error = None
    BY DEF NoRetry
  <2> QED
    BY <1>3, <1>4, <1>5, <2>1 DEF WaitsAtMost, ToldIsKept, IsFunction
<1>9. SteadyRates /\ NewDeviceSeen /\ EventsReplay
  BY DEF Init, SteadyRates, NewDeviceSeen, EventsReplay, Fresh
<1> QED
  BY <1>6, <1>7, <1>8, <1>9 DEF Good, IndInv

(* So it always holds.                                                      *)
LEMMA AlwaysGood == Spec => []Good
<1>1. Good /\ [Next]_all => Good'
  <2>1. CASE Next
    BY <2>1, NextGood DEF Good
  <2>2. CASE UNCHANGED all
    BY <2>2 DEF all, vars, Good, IndInv, TypeOK, PastReadings, WindowIsLastReading,
                BaselineIsLastReading, TableIsRecent, WaitsAtMost, ToldIsKept,
                SteadyRates, NewDeviceSeen, EventsReplay, Fresh
  <2> QED
    BY <2>1, <2>2
<1> QED
  BY <1>1, InitGood, PTL DEF Spec

-----------------------------------------------------------------------------
(* The state of a collector tells of the readings before it: its window and *)
(* baselines start at the last one, its table is no older than the last     *)
(* rebuild, its wait is within the backoff, and its timeline is told.       *)
THEOREM CollectorsInvariant == Spec => []IndInv
<1>1. Good => IndInv
  BY DEF Good
<1> QED
  BY <1>1, AlwaysGood, PTL

(* A rate between two rebuilds is the share of the time since the last      *)
(* sample that the instance or process really worked (read_double over the  *)
(* sliding window, energy_derived_w, query_one).                            *)
THEOREM RatesAreShares == Spec => []SteadyRates
<1>1. Good => SteadyRates
  BY DEF Good
<1> QED
  BY <1>1, AlwaysGood, PTL

(* An instance there for a rebuild interval is in the table, or the sample  *)
(* says that the table is stale (apply_rebuild, PdhState).                  *)
THEOREM DevicesAreSeen == Spec => []NewDeviceSeen
<1>1. Good => NewDeviceSeen
  BY DEF Good
<1> QED
  BY <1>1, AlwaysGood, PTL

(* Once the provider answers, a collector that may retry fails fewer times  *)
(* than the longest backoff (InitRetry).                                    *)
THEOREM CollectorsRecover == Spec => []RecoversInTime
<1>1. IndInv => RecoversInTime
  <2> SUFFICES ASSUME IndInv, kind \in PdhKinds, col.retry.class # "permission"
               PROVE  hist.failing < MaxBackoff
    BY DEF RecoversInTime
  <2>1. MaxBackoff \in Nat \ {0}
    BY Intervals
  <2>2. CASE col.q # None \/ col.retry.error = None
    BY <2>1, <2>2 DEF IndInv, WaitsAtMost
  <2>3. CASE col.q = None /\ col.retry.error # None
    <3>1. /\ hist.failing + col.retry.at <= col.tick + MaxBackoff
          /\ hist.failing > 0 => col.tick < col.retry.at
      BY <2>3 DEF IndInv, WaitsAtMost
    <3>2. hist.failing \in Nat /\ col.tick \in Nat /\ col.retry.at \in Int
      BY DEF IndInv, TypeOK, Retries
    <3> QED
      BY <2>1, <3>1, <3>2
  <2> QED
    BY <2>2, <2>3
<1>2. Good => RecoversInTime
  BY <1>1 DEF Good
<1> QED
  BY <1>2, AlwaysGood, PTL

(* The events of devices, interfaces and brightness replay to what was last *)
(* seen, and a policy value belongs to its scheme (diff_devices,            *)
(* adapter_changes, diff_state, snapshot_due).                              *)
THEOREM EventsTellAll == Spec => []EventsReplay
<1>1. Good => EventsReplay
  BY DEF Good
<1> QED
  BY <1>1, AlwaysGood, PTL

=============================================================================
