---------------------------- MODULE PdhCollectors ----------------------------
(***************************************************************************)
(* The collectors that read performance counters (pf-collectors/src: cpu,  *)
(* gpu, storage, network, over pdh.rs): their retried initialization, the  *)
(* periodic rebuild of the instance table, the collections between which a *)
(* rate is formed and the samples they return.                             *)
(*                                                                         *)
(* Each collector belongs to one worker thread and shares nothing with the *)
(* others, so a behaviour follows one of them, chosen at the start.  Time  *)
(* and work are counted in ticks: a busy instance does one unit per tick,  *)
(* and the sleep between the two collections of a warm-up takes one.  The  *)
(* counters of one instance stand for all the counters read in that way.   *)
(***************************************************************************)
EXTENDS Integers, FiniteSets, FiniteSetsExt

CONSTANTS
  None,
  Insts,           (* instances a performance object may have              *)
  Pkg,             (* the package instance of the energy meter             *)
  Luid,            (* Luid[i]: the adapter an engine instance belongs to   *)
  Loopbacks,       (* interfaces of the loopback class                     *)
  LoopbackNames,   (* those whose instance name says so                    *)
  Mute,            (* interfaces without a "Bytes Sent" counter            *)
  RebuildEvery,    (* reads between two rebuilds (40, 60)                  *)
  InventoryEvery,  (* reads between two adapter inventories (30)           *)
  BackoffBase, MaxShift, MaxBackoff,  (* 5, 6 and 320                      *)
  MaxEngines,      (* MAX_ENGINE_COUNTERS                                  *)
  TopPids,         (* processes listed per adapter (5)                     *)
  Kinds,           (* the collectors followed                              *)
  MaxReads, MaxChanges  (* bounds on reads and on changes of the system    *)

VARIABLES
  kind,   (* the collector followed                                        *)
  world,  (* what it reads                                                 *)
  col,    (* its state                                                     *)
  out,    (* its last answer, with what really happened before it          *)
  reads,  (* reads so far                                                  *)
  due     (* its interval has passed since the last read                   *)

vars == <<kind, world, col, out, reads, due>>

PdhKinds == {"cpu", "gpu", "storage", "net"}

(* What a query holds of a collection, and a query.                        *)
Collections == [t : Nat, v : [Insts -> Nat \cup {None}]]
Queries == [table : SUBSET Insts, c0 : Collections, c1 : Collections]

(* Why initialization may fail.                                            *)
InitErrors == {"busy", "denied", "no data", "none added"}

ASSUME PdhAssumption ==
  /\ IsFiniteSet(Insts) /\ Pkg \in Insts
  /\ RebuildEvery \in Nat \ {0}
  /\ BackoffBase \in Nat /\ MaxShift \in Nat /\ MaxBackoff \in Nat \ {0}
  /\ MaxEngines \in Nat
  /\ None \notin Int \cup Queries \cup [e : Nat, t : Nat] \cup InitErrors

-----------------------------------------------------------------------------
(* The performance data helper (external).  The provider is up, busy,      *)
(* denied to this user, or without data; a query holds its instances and   *)
(* its last two collections.                                               *)

Pass(w) == [w EXCEPT !.now = @ + 1, !.busyTicks = [i \in Insts |->
              @[i] + (IF i \in w.busy \cap w.present THEN 1 ELSE 0)]]

open(w) == IF w.prov \in {"busy", "denied"} THEN w.prov ELSE None

enum_instances(w) == IF w.prov = "up" THEN w.present ELSE {}

collect(w) == IF w.prov = "up" THEN None ELSE "no data"

Collected(w) ==
  [t |-> w.now,
   v |-> [i \in Insts |-> IF i \in w.present THEN w.busyTicks[i] ELSE None]]

(* Per cent of the time between the collections.  A rate over an empty     *)
(* window is quantized to zero.                                            *)
read_double(q, i) ==
  LET a == q.c0.v[i]
      b == q.c1.v[i]
      dt == q.c1.t - q.c0.t
  IN IF a = None \/ b = None THEN None
     ELSE IF b < a THEN None
     ELSE IF dt = 0 THEN 0 ELSE (100 * (b - a)) \div dt

Gauge(q, i) == q.c1.v[i] # None

-----------------------------------------------------------------------------
(* Initialization and its retries (InitRetry).                              *)

retryable(class) == class \in {"transient", "gone"}

classify_init_error(msg) ==
  CASE msg = "denied" -> "permission"
    [] msg = "unsupported" -> "permanent"
    [] msg = "no data" -> "gone"
    [] OTHER -> "transient"   \* "busy", "no counters could be added"

backoff_ticks(attempts) ==
  Min({BackoffBase * 2 ^ Min({attempts - 1, MaxShift}), MaxBackoff})

NoRetry == [error |-> None, class |-> "permanent", attempts |-> 0, at |-> 0]

may_attempt(r, tick) == r.error = None \/ (retryable(r.class) /\ tick >= r.at)

note_failure(r, tick, msg) ==
  [error |-> msg, class |-> classify_init_error(msg), attempts |-> r.attempts + 1,
   at |-> tick + backoff_ticks(r.attempts + 1)]

note_success(r) == [r EXCEPT !.error = None, !.attempts = 0, !.at = 0]

(* Two collections a warm-up apart over a table of instances.              *)
warm_up(w, table) ==
  IF collect(w) # None THEN [err |-> collect(w), q |-> None, w |-> w]
  ELSE [err |-> None, w |-> Pass(w),
        q |-> [table |-> table, c0 |-> Collected(w), c1 |-> Collected(Pass(w))]]

Unbuilt(w, e) == [err |-> e, q |-> None, w |-> w]

(* The CPU counters: with no enumeration the instances are made up from    *)
(* the processor count, and the system counters exist in any case.         *)
init_inner(w) ==
  IF open(w) # None THEN Unbuilt(w, open(w)) ELSE warm_up(w, enum_instances(w))

(* The GPU engines, up to a cap, and the memory of the processes.          *)
build_counters_gpu(w) ==
  LET insts == enum_instances(w) IN
  IF open(w) # None THEN Unbuilt(w, open(w))
  ELSE IF insts = {} THEN Unbuilt(w, "none added")
  ELSE LET b == warm_up(w, insts) IN
       IF b.q = None \/ Cardinality(insts) <= MaxEngines THEN b
       ELSE [b EXCEPT !.q = [@ EXCEPT !.table = CHOOSE s \in SUBSET insts : Cardinality(s) = MaxEngines]]

build_counters_storage(w) ==
  IF open(w) # None THEN Unbuilt(w, open(w))
  ELSE IF enum_instances(w) = {} THEN Unbuilt(w, "none added")
  ELSE warm_up(w, enum_instances(w))

build_counters_net(w) ==
  IF open(w) # None THEN Unbuilt(w, open(w))
  ELSE IF enum_instances(w) = {} THEN Unbuilt(w, "none added")
  ELSE warm_up(w, enum_instances(w))

(* Mutant: only a read of an initialized collector counts.                 *)
advance_ready(c) == IF c.q = None THEN c ELSE [c EXCEPT !.tick = @ + 1]

(* A read counts as a tick whether or not it succeeds.                     *)
advance(c) == [c EXCEPT !.tick = @ + 1]

(* Initialize once, at once or when the backoff of a failure has elapsed;  *)
(* b is what building the query now gives.                                 *)
ensure_init(c, w, b) ==
  IF c.q # None THEN [col |-> c, world |-> w, err |-> None, how |-> "steady"]
  ELSE IF ~may_attempt(c.retry, c.tick)
       THEN [col |-> c, world |-> w, err |-> c.retry.error, how |-> "wait"]
  ELSE IF b.err = None
       THEN [col |-> [c EXCEPT !.q = b.q, !.retry = note_success(@), !.fresh = TRUE],
             world |-> b.w, err |-> None, how |-> "init"]
       ELSE [col |-> [c EXCEPT !.retry = note_failure(@, c.tick, b.err)],
             world |-> w, err |-> b.err, how |-> "init"]

(* The GPU collector lists the adapters first; failing that it has none.   *)
enumerate_adapters(w) == IF w.sideOk THEN {Luid[i] : i \in w.present} ELSE {}

ensure_init_gpu(c, w) ==
  ensure_init(IF c.q = None /\ may_attempt(c.retry, c.tick)
              THEN [c EXCEPT !.adapters = enumerate_adapters(w)] ELSE c,
              w, build_counters_gpu(w))

(* A periodic rebuild replaces the query on success only.  The new query   *)
(* has just been warmed up, but "fresh" is not set for it.                 *)
rebuild(i, b, flags) ==
  IF i.err # None \/ i.col.tick % RebuildEvery # 0 THEN i
  ELSE IF b.err = None
       THEN [col |-> [i.col EXCEPT !.q = b.q, !.stale = ~flags /\ @],
             world |-> b.w, err |-> None, how |-> "rebuild"]
       ELSE [i EXCEPT !.col = [i.col EXCEPT !.stale = flags \/ @]]

(* Mutant: a failed rebuild leaves no trace.                               *)
apply_rebuild_silent(i) == rebuild(i, build_counters_net(i.world), FALSE)

apply_rebuild(i) == rebuild(i, build_counters_net(i.world), TRUE)

(* One more collection by a query.                                         *)
Slid(q, w) == [q EXCEPT !.c0 = q.c1, !.c1 = Collected(w)]

(* Mutant: the warm-up's window is used for ever.                          *)
window_kept(i) ==
  IF i.err # None \/ i.col.fresh THEN i
  ELSE IF collect(i.world) # None THEN [i EXCEPT !.err = collect(i.world)]
  ELSE [i EXCEPT !.col = [i.col EXCEPT !.q = Slid(@, i.world)]]

(* The window of a read: the warm-up's own, or up to a new collection.     *)
window(i) ==
  IF i.err # None THEN i
  ELSE IF i.col.fresh THEN [i EXCEPT !.col = [@ EXCEPT !.fresh = FALSE]]
  ELSE IF collect(i.world) # None THEN [i EXCEPT !.err = collect(i.world)]
  ELSE [i EXCEPT !.col = [i.col EXCEPT !.q = Slid(@, i.world)]]

(* How a read ends: with a sample of the collector as it is now, or not.   *)
Answer(i, c, sample) ==
  [col |-> c, world |-> i.world, err |-> None, how |-> i.how, sample |-> sample]
Failed(i) ==
  [col |-> i.col, world |-> i.world, err |-> i.err, how |-> "failed", sample |-> None]

Rates(q) == [i \in q.table |-> read_double(q, i)]

-----------------------------------------------------------------------------
(* The four samples.                                                        *)

energy_derived_w(prev, e, t) ==
  IF prev = None \/ e = None THEN None
  ELSE IF t <= prev.t \/ e < prev.e THEN None
  ELSE (100 * (e - prev.e)) \div (t - prev.t)

mean_core_utility(rates) ==
  LET known == {i \in DOMAIN rates : rates[i] # None} IN
  IF known = {} THEN None
  ELSE MapThenSumSet(LAMBDA i : rates[i], known) \div Cardinality(known)

(* The energy baseline is set at the first collection of the warm-up and   *)
(* moves with every read that finds the meter.                             *)
cpu_read(c, w) ==
  LET i == ensure_init(advance(c), w, init_inner(w))
      base == IF i.how = "init" /\ i.err = None /\ Pkg \in i.col.q.table
              THEN [i EXCEPT !.col = [@ EXCEPT !.prev = [e |-> i.col.q.c0.v[Pkg], t |-> i.col.q.c0.t]]]
              ELSE i
      r == window(base)
  IN IF r.err # None THEN Failed(r)
     ELSE LET e == IF Pkg \in r.col.q.table THEN r.col.q.c1.v[Pkg] ELSE None
              rates == Rates(r.col.q)
          IN Answer(r, [r.col EXCEPT !.prev = IF e # None THEN [e |-> e, t |-> r.col.q.c1.t] ELSE @],
                    [rates |-> rates, mean |-> mean_core_utility(rates),
                     pkg |-> energy_derived_w(r.col.prev, e, r.col.q.c1.t)])

(* Per adapter: the duty of its engines, how many were seen, whether their *)
(* memory was, and the busiest processes (an engine stands for its owner). *)
aggregate(rates, mems) ==
  LET known == {i \in DOMAIN rates : rates[i] # None} IN
  [l \in {Luid[i] : i \in known \cup mems} |->
     LET mine == {i \in known : Luid[i] = l}
         hot == {i \in mine : rates[i] > 0}
     IN [util |-> MapThenSumSet(LAMBDA i : rates[i], mine), seen |-> Cardinality(mine),
         mem |-> {i \in mems : Luid[i] = l},
         top |-> CHOOSE s \in SUBSET hot :
                   /\ Cardinality(s) = Min({TopPids, Cardinality(hot)})
                   /\ \A x \in s, y \in hot \ s : rates[x] >= rates[y]]]

awake_verdict(util) ==
  IF util > 0 THEN [active |-> TRUE, confidence |-> "high"]
  ELSE [active |-> FALSE, confidence |-> "low"]

(* Every listed adapter, and every other one with data, with a verdict.    *)
assemble(adapters, agg) ==
  [l \in adapters \cup DOMAIN agg |->
     LET st == IF l \in DOMAIN agg THEN agg[l]
               ELSE [util |-> 0, seen |-> 0, mem |-> {}, top |-> {}]
     IN [stats |-> st, listed |-> l \in adapters, awake |-> awake_verdict(st.util)]]

gpu_read(c, w) ==
  LET i0 == ensure_init_gpu(advance(c), w)
      r == window(rebuild(i0, build_counters_gpu(i0.world), TRUE)) IN
  IF r.err # None THEN Failed(r)
  ELSE LET rates == Rates(r.col.q)
           mems == {i \in r.col.q.table : Gauge(r.col.q, i)}
       IN Answer(r, r.col, [rates |-> rates, stale |-> r.col.stale,
                            views |-> assemble(r.col.adapters, aggregate(rates, mems))])

storage_read(c, w) ==
  LET i0 == ensure_init(advance(c), w, build_counters_storage(w))
      r == window(rebuild(i0, build_counters_storage(i0.world), FALSE))
  IN IF r.err # None THEN Failed(r) ELSE Answer(r, r.col, [rates |-> Rates(r.col.q)])

(* The adapter table: the operational state by interface.                  *)
read_table(w) == IF w.sideOk THEN [i \in w.present |-> i \in w.attr] ELSE <<>>

match_adapter(i, adapters) == i \in DOMAIN adapters

(* Totals without loopback.  One known direction makes both totals known.  *)
sum_non_loopback(rates, adapters) ==
  LET loop(i) == IF match_adapter(i, adapters) THEN i \in Loopbacks ELSE i \in LoopbackNames
      usable == {i \in DOMAIN rates : ~loop(i) /\ rates[i] # None}
  IN IF usable = {} THEN [rx |-> None, tx |-> None]
     ELSE [rx |-> MapThenSumSet(LAMBDA i : rates[i], usable),
           tx |-> MapThenSumSet(LAMBDA i : rates[i], usable \ Mute)]

(* The transitions between two inventories of the adapters.                *)
adapter_changes(ever, prev, cur) ==
  {<<i, prev[i], cur[i]>> : i \in {j \in DOMAIN prev \cap DOMAIN cur :
                                     ever /\ prev[j] # cur[j]}}

net_read(c, w) ==
  LET r == window(apply_rebuild(ensure_init(advance(c), w, build_counters_net(w)))) IN
  IF r.err # None THEN Failed(r)
  ELSE LET n == r.col.inv + 1
           adapters == IF n = 1 \/ n % InventoryEvery = 0 THEN read_table(r.world)
                       ELSE r.col.adapters
           rates == Rates(r.col.q)
       IN Answer(r, [r.col EXCEPT !.inv = n, !.adapters = adapters, !.prev = adapters, !.ever = TRUE],
                 [rates |-> rates, stale |-> r.col.stale,
                  totals |-> sum_non_loopback(rates, adapters),
                  changes |-> adapter_changes(r.col.ever, r.col.prev, adapters)])

PdhRead(c, w) ==
  CASE kind = "cpu" -> cpu_read(c, w) [] kind = "gpu" -> gpu_read(c, w)
    [] kind = "storage" -> storage_read(c, w) [] kind = "net" -> net_read(c, w)

=============================================================================
