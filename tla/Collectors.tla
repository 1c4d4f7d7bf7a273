----------------------------- MODULE Collectors -----------------------------
(***************************************************************************)
(* The collectors of pf-collectors: those over performance counters        *)
(* (PdhCollectors) and those that ask the system directly: processes, this *)
(* process, devices, displays, the power policy and the battery.           *)
(*                                                                         *)
(* What is read is uniform.  An instance is an engine, disk, interface,    *)
(* process, device, monitor, power scheme or battery; it is present or     *)
(* not, busy or not, and has one on/off attribute (operational,            *)
(* accessible, bright, the value of a setting, charging).  A secondary     *)
(* query (the interface table, DXGI, I/O counters, WMI, powercfg, the      *)
(* battery driver) may fail on its own.                                    *)
(***************************************************************************)
EXTENDS PdhCollectors

CONSTANTS
  TopN,        (* processes kept in full (15)                              *)
  EnumEvery    (* reads between two device enumerations (5)                *)

VARIABLE hist  (* what really happened, for the properties                 *)

all == <<vars, hist>>

(* A reading of an instance, as the properties remember it, and what usb   *)
(* repeats between two enumerations.                                       *)
Marks == [t : Nat, work : Nat, gen : Nat, side : BOOLEAN]
Inventories == [devices : SUBSET Insts,
                power : [list : SUBSET Insts, err : {None, "failed"}],
                changes : SUBSET ({"connected", "disconnected"} \X Insts)]

ASSUME CollectorsAssumption ==
  /\ Kinds \subseteq PdhKinds \cup {"proc", "self", "usb", "display", "os_power", "battery"}
  /\ TopN \in Nat
  /\ None \notin Marks \cup Inventories \cup {"snapshot failed"}
  /\ \A S \in SUBSET Insts : None # S

Value(w, i) == i \in w.attr

-----------------------------------------------------------------------------
(* Processes (proc.rs) and this process (selfmon.rs).                       *)

cpu_pct(work, dt) == IF dt = 0 THEN None ELSE (100 * work) \div dt

(* A process is known by its number and its start.                         *)
proc_key(w, i) == <<i, w.gen[i]>>

(* One process: rates against the previous reading of the same process. A  *)
(* reading whose I/O counters failed leaves zeros as the next baseline.    *)
query_one(prev, w, i) ==
  IF ~Value(w, i)
  THEN [pid |-> i, accessible |-> FALSE, cpu |-> None, io |-> None]
  ELSE LET k == proc_key(w, i)
           known == k \in DOMAIN prev
           dt == IF known THEN w.now - prev[k].t ELSE 0
       IN [pid |-> i, accessible |-> TRUE,
           cpu |-> IF known THEN cpu_pct(w.busyTicks[i] - prev[k].cpu, dt) ELSE None,
           io |-> IF known /\ w.sideOk THEN cpu_pct(w.busyTicks[i] - prev[k].io, dt)
                  ELSE None]

baseline(prev, w) ==
  LET seen == {proc_key(w, i) : i \in {j \in w.present : Value(w, j)}} IN
  [k \in seen \cup DOMAIN prev |->
     IF k \in seen
       THEN [cpu |-> w.busyTicks[k[1]], io |-> IF w.sideOk THEN w.busyTicks[k[1]] ELSE 0,
             t |-> w.now]
       ELSE prev[k]]

(* The hottest first, those without a rate last; the rest is only counted. *)
heat(p) == IF p.cpu = None THEN -1 ELSE p.cpu
hottest(infos, n) ==
  CHOOSE s \in SUBSET infos : /\ Cardinality(s) = Min({n, Cardinality(infos)})
                              /\ \A p \in s, x \in infos \ s : heat(p) >= heat(x)

proc_read(c, w) ==
  IF w.prov # "up" THEN [col |-> c, world |-> w, err |-> "snapshot failed",
                         how |-> "failed", sample |-> None]
  ELSE LET infos == {query_one(c.prev, w, i) : i \in w.present}
       IN [col |-> [c EXCEPT !.prev = baseline(@, w)], world |-> w, err |-> None,
           how |-> "steady",
           sample |-> [total |-> Cardinality(infos),
                       inaccessible |-> Cardinality({p \in infos : ~p.accessible}),
                       truncated |-> Cardinality(infos) > TopN,
                       top |-> hottest(infos, TopN)]]

self_read(c, w) ==
  IF w.prov # "up" THEN [col |-> c, world |-> w, err |-> "times failed",
                         how |-> "failed", sample |-> None]
  ELSE LET cpu == w.busyTicks[Pkg]
       IN [col |-> [c EXCEPT !.prev = [cpu |-> cpu, t |-> w.now]], world |-> w,
           err |-> None, how |-> "steady",
           sample |-> [cpu |-> IF c.prev = None THEN None
                               ELSE cpu_pct(cpu - c.prev.cpu, w.now - c.prev.t),
                       io |-> IF w.sideOk THEN cpu ELSE None]]

-----------------------------------------------------------------------------
(* Devices (usb.rs).                                                        *)

diff_devices(prev, cur) ==
  {<<"connected", i>> : i \in cur \ prev} \cup {<<"disconnected", i>> : i \in prev \ cur}

(* A class that cannot be enumerated has no devices.                       *)
enumerate_class(w) == IF w.prov = "up" THEN w.present ELSE {}

query_power_devices(w) ==
  IF w.sideOk THEN [list |-> w.present, err |-> None] ELSE [list |-> {}, err |-> "failed"]

(* Mutant: cached copies repeat the changes.                               *)
cached_copy_whole(sample) == sample

cached_copy(sample) == [sample EXCEPT !.changes = {}]

usb_read(c0, w) ==
  LET c == advance(c0)
      full == ~c.ever \/ c.tick % EnumEvery = 0
      cur == enumerate_class(w)
      fresh == [devices |-> cur, power |-> query_power_devices(w),
                changes |-> IF c.ever THEN diff_devices(c.prev, cur) ELSE {}]
  IN IF ~full /\ c.cached # None
     THEN [col |-> c, world |-> w, err |-> None, how |-> "cached",
           sample |-> cached_copy(c.cached)]
     ELSE [col |-> [c EXCEPT !.prev = cur, !.ever = TRUE, !.cached = fresh], world |-> w,
           err |-> None, how |-> "steady", sample |-> fresh]

-----------------------------------------------------------------------------
(* Displays (display.rs).                                                   *)

(* The brightness sensors: without any instance the query is an error.     *)
query_brightness(w) ==
  IF w.sideOk /\ w.present # {} THEN [err |-> None, of |-> [i \in w.present |-> Value(w, i)]]
  ELSE [err |-> "wmi", of |-> <<>>]

(* The targets with HDR enabled; a failed query has none.                  *)
query_hdr(w) == IF w.prov = "up" THEN w.present \cap w.busy ELSE {}

diff_state(prev, cur) ==
  (IF Cardinality(DOMAIN cur.modes) # prev.monitors THEN {<<"monitors">>} ELSE {})
  \cup {<<"mode", i>> : i \in {j \in DOMAIN cur.modes \cap DOMAIN prev.modes :
                                 cur.modes[j] # prev.modes[j]}}
  \cup {<<"bright", i, prev.bright[i], cur.bright[i]>> :
          i \in {j \in DOMAIN cur.bright \cap DOMAIN prev.bright :
                   cur.bright[j] # prev.bright[j]}}
  \cup (IF Cardinality(cur.hdr) # prev.hdr THEN {<<"hdr">>} ELSE {})

display_read(c, w) ==
  LET cur == [modes |-> [i \in w.present |-> i \in w.busy],
              bright |-> query_brightness(w).of, hdr |-> query_hdr(w)]
  IN [col |-> [c EXCEPT !.ever = TRUE,
                 !.prev = [modes |-> cur.modes, bright |-> cur.bright,
                           monitors |-> Cardinality(w.present), hdr |-> Cardinality(cur.hdr)]],
      world |-> w, err |-> None, how |-> "steady",
      sample |-> [modes |-> cur.modes, bright |-> cur.bright, hdr |-> cur.hdr,
                  changes |-> IF c.ever THEN diff_state(c.prev, cur) ELSE {}]]

-----------------------------------------------------------------------------
(* Power policy (system.rs) and battery (battery.rs, batinfo.rs).           *)

active_scheme(w) == IF w.prov = "up" THEN w.active ELSE None

(* The setting of the scheme that is active when powercfg runs.            *)
query_effective(w) == IF w.sideOk THEN [ok |-> TRUE, value |-> Value(w, w.active)]
                      ELSE [ok |-> FALSE, value |-> None]

read_index(w, scheme) == IF scheme = None THEN None ELSE Value(w, scheme)

(* The snapshot is taken when there is none and when the scheme is another *)
(* one.                                                                    *)
snapshot_due(c, scheme) == c.eff = None \/ c.effScheme # scheme

(* w2 is the system when powercfg runs, after the scheme was read.         *)
os_power_read(c, w, w2) ==
  LET scheme == active_scheme(w)
      e == query_effective(w2)
      c2 == IF snapshot_due(c, scheme) /\ e.ok
            THEN [c EXCEPT !.eff = e.value, !.effScheme = scheme, !.effAt = w2.now]
            ELSE c
  IN [col |-> c2, world |-> w2, err |-> None, how |-> "steady",
      sample |-> [scheme |-> scheme, at |-> c2.effAt,
                  value |-> IF c2.eff # None THEN c2.eff ELSE read_index(w, scheme)]]

(* A negative rate discharges, a positive one charges, zero does neither.  *)
Rate(w) == IF Pkg \notin w.present THEN None
           ELSE IF Pkg \in w.busy THEN -1 ELSE IF Value(w, Pkg) THEN 1 ELSE 0

discharge_w(rate) == IF rate # None /\ rate < 0 THEN -rate ELSE None
charge_w(rate) == IF rate # None /\ rate > 0 THEN rate ELSE None

(* The interfaces that answer; a battery that is silent is left out.       *)
query_path(w, i) == w.sideOk
query_all(w) == {i \in w.present : query_path(w, i)}

battery_read(c, w) ==
  IF w.prov # "up" THEN [col |-> c, world |-> w, err |-> "status failed",
                         how |-> "failed", sample |-> None]
  ELSE [col |-> c, world |-> w, err |-> None, how |-> "steady",
        sample |-> [discharge |-> discharge_w(Rate(w)), charge |-> charge_w(Rate(w)),
                    batteries |-> query_all(w),
                    count |-> IF query_all(w) = {} THEN Cardinality(w.present)
                              ELSE Cardinality(query_all(w))]]

-----------------------------------------------------------------------------
Switched(w, s) == [w EXCEPT !.active = s]

(* The answers a read may give: only the policy read can be overtaken.     *)
Answers(c, w) ==
  CASE kind \in PdhKinds -> {PdhRead(c, w)}
    [] kind = "proc" -> {proc_read(c, w)}
    [] kind = "self" -> {self_read(c, w)}
    [] kind = "usb" -> {usb_read(c, w)}
    [] kind = "display" -> {display_read(c, w)}
    [] kind = "battery" -> {battery_read(c, w)}
    [] kind = "os_power" ->
         {os_power_read(c, w, Switched(w, s)) :
            s \in IF world.changes < MaxChanges THEN Insts ELSE {w.active}}

NewCollector(k) ==
  [q |-> None, retry |-> NoRetry, tick |-> 0, fresh |-> FALSE, stale |-> FALSE,
   adapters |-> {}, inv |-> 0, ever |-> FALSE, cached |-> None,
   prev |-> CASE k \in {"net", "proc"} -> <<>> [] k = "usb" -> {} [] OTHER -> None,
   eff |-> None, effScheme |-> None, effAt |-> 0]

(* What the timeline says after the events of a sample: the devices        *)
(* connected, the state of the interfaces and the brightness of monitors,  *)
(* as long as each is known.  An event that does not continue it is wrong. *)
Continue(told, cur, events) ==
  [i \in DOMAIN cur |->
     LET e == {x \in events : x[1] = i} IN
     IF e # {} THEN LET x == CHOOSE y \in e : TRUE IN
                    IF i \in DOMAIN told /\ told[i] = x[2] THEN x[3] ELSE None
     ELSE IF i \in DOMAIN told THEN told[i] ELSE cur[i]]

Told(told, r) ==
  CASE kind = "net" -> Continue(told, r.col.prev, r.sample.changes)
    [] kind = "display" ->
         Continue(told, r.sample.bright,
                  {<<e[2], e[3], e[4]>> : e \in {x \in r.sample.changes : x[1] = "bright"}})
    [] kind = "usb" ->
         LET on == {e[2] : e \in {x \in r.sample.changes : x[1] = "connected"}}
             off == {e[2] : e \in {x \in r.sample.changes : x[1] = "disconnected"}}
         IN IF told = None THEN r.col.prev
            ELSE IF on \cap told # {} \/ ~(off \subseteq told) THEN {None}
            ELSE (told \cup on) \ off
    [] OTHER -> told

(* The last reading of each instance, and how it should show in the next.  *)
Mark(w, i) == [t |-> w.now, work |-> w.busyTicks[i], gen |-> w.gen[i], side |-> w.sideOk]

True(last, w, i) ==
  IF last = None THEN None
  ELSE IF last.gen # w.gen[i] \/ i \notin w.present \/ last.t = w.now THEN None
  ELSE (100 * (w.busyTicks[i] - last.work)) \div (w.now - last.t)

Recorded(h, w, r) ==
  LET read == IF kind = "proc" THEN {i \in w.present : Value(w, i)} ELSE Insts IN
  [true |-> [i \in Insts |-> True(h.last[i], r.world, i)],
   ioTrue |-> [i \in Insts |-> h.last[i] # None /\ h.last[i].side],
   last |-> [i \in Insts |->
               IF r.err # None \/ i \notin read THEN h.last[i]
               ELSE IF i \in r.world.present THEN Mark(r.world, i) ELSE None],
   age |-> [i \in Insts |-> IF i \in w.present THEN h.age[i] + 1 ELSE 0],
   upAge |-> [i \in Insts |-> IF i \in w.present /\ w.prov = "up" THEN h.upAge[i] + 1 ELSE 0],
   failing |-> IF r.err # None /\ w.prov = "up" /\ w.present # {} THEN h.failing + 1 ELSE 0,
   told |-> IF r.err = None THEN Told(h.told, r) ELSE h.told,
   snapped |-> IF kind = "os_power" /\ r.col.effAt # col.effAt THEN r.world.active ELSE h.snapped,
   clean |-> /\ h.clean \/ (kind = "os_power" /\ r.col.effAt # col.effAt)
             /\ w.sideOk /\ r.world.active = w.active]

Init ==
  /\ kind \in Kinds
  /\ world = [prov |-> "up", now |-> 1, present |-> {Pkg}, busy |-> {Pkg}, attr |-> Insts,
              sideOk |-> TRUE, active |-> Pkg, gen |-> [i \in Insts |-> 0],
              busyTicks |-> [i \in Insts |-> 0], changes |-> 0]
  /\ col = NewCollector(kind)
  /\ out = [how |-> "none", err |-> None, sample |-> None]
  /\ reads = 0 /\ due = FALSE
  /\ hist = [last |-> [i \in Insts |-> None], true |-> [i \in Insts |-> None],
             ioTrue |-> [i \in Insts |-> FALSE],
             age |-> [i \in Insts |-> 0], upAge |-> [i \in Insts |-> 0],
             failing |-> 0, told |-> IF kind = "usb" THEN None ELSE <<>>,
             snapped |-> None, clean |-> TRUE]

(* The interval of the collector passes.                                   *)
Tick ==
  /\ ~due /\ reads < MaxReads
  /\ due' = TRUE /\ world' = Pass(world)
  /\ UNCHANGED <<kind, col, out, reads, hist>>

Change(w) ==
  /\ due /\ world.changes < MaxChanges
  /\ world' = [w EXCEPT !.changes = @ + 1]
  /\ UNCHANGED <<kind, col, out, reads, due, hist>>

Provider == \E p \in {"up", "busy", "denied", "no data"} \ {world.prov} :
              Change([world EXCEPT !.prov = p])

Arrive(i) ==
  /\ i \notin world.present
  /\ Change([world EXCEPT !.present = @ \cup {i}, !.gen[i] = @ + 1, !.busyTicks[i] = 0])

Leave(i) == /\ i \in world.present
            /\ Change([world EXCEPT !.present = @ \ {i}])

Flip(S, i) == IF i \in S THEN S \ {i} ELSE S \cup {i}

Work(i) == Change([world EXCEPT !.busy = Flip(@, i)])
Attribute(i) == Change([world EXCEPT !.attr = Flip(@, i)])
Side == Change([world EXCEPT !.sideOk = ~@])
Activate(i) == /\ kind = "os_power" /\ i # world.active
               /\ Change([world EXCEPT !.active = i])

Read ==
  /\ due
  /\ \E r \in Answers(col, world) :
       /\ col' = r.col
       /\ world' = [r.world EXCEPT !.changes =
                      IF r.world.active # world.active THEN @ + 1 ELSE @]
       /\ out' = [how |-> r.how, err |-> r.err, sample |-> r.sample]
       /\ hist' = Recorded(hist, world, r)
  /\ reads' = reads + 1 /\ due' = FALSE
  /\ UNCHANGED kind

Next ==
  \/ Tick \/ Read \/ Provider \/ Side
  \/ \E i \in Insts : Arrive(i) \/ Leave(i) \/ Work(i) \/ Attribute(i) \/ Activate(i)

Spec == Init /\ [][Next]_all

-----------------------------------------------------------------------------
Fresh == out.how # "none" /\ ~due

(* A rate read between two rebuilds covers exactly the time since the      *)
(* previous sample: it is the share of that time the instance was busy, in *)
(* the counter samples and in the energy derived from them, through failed *)
(* reads, replugged instances and the warm-up that came before.  A rate of *)
(* a process is its own work since it was last readable, also when its     *)
(* number was another process's before, and so is its I/O rate when the    *)
(* I/O counters answered both times.                                       *)
SteadyRates ==
  (out.how = "steady" /\ Fresh) =>
    /\ kind \in PdhKinds =>
         \A i \in DOMAIN out.sample.rates : hist.true[i] # None =>
            /\ out.sample.rates[i] = hist.true[i]
            /\ (kind = "cpu" /\ i = Pkg) => out.sample.pkg = hist.true[i]
    /\ kind = "proc" =>
         \A p \in out.sample.top :
            /\ p.accessible => p.cpu = hist.true[p.pid]
            /\ (p.io # None /\ hist.ioTrue[p.pid]) => p.io = hist.true[p.pid]

(* An instance that has been there for the length of a rebuild interval is *)
(* in the table, unless the sample says that the table is stale; storage,  *)
(* which has no such flag, keeps this while the provider answers, and gpu  *)
(* as long as there are no more engines than it counts.                    *)
NewDeviceSeen ==
  /\ out.err = None /\ Fresh /\ kind \in {"gpu", "net", "storage"}
  /\ kind = "gpu" => Cardinality(Insts) <= MaxEngines
  =>
    \A i \in Insts :
       (IF kind = "storage" THEN hist.upAge[i] ELSE hist.age[i]) >= RebuildEvery =>
          i \in col.q.table \/ (kind # "storage" /\ out.sample.stale)

(* Once its provider answers again a collector is back within the longest  *)
(* backoff ("capped at 320"), counted in reads of which all but the last   *)
(* fail; only a denied provider is given up.                               *)
RecoversInTime ==
  (kind \in PdhKinds /\ col.retry.class # "permission") =>
     hist.failing < MaxBackoff

(* The change events carried by samples replay to what the collector last  *)
(* saw: each is reported once, and none is missed while the thing it is    *)
(* about stays readable (usb devices, interfaces, brightness).  Policy      *)
(* values kept from an earlier read belong to the scheme they are shown    *)
(* under, if powercfg answered and the scheme stood still while it ran.    *)
EventsReplay ==
  Fresh =>
    /\ kind = "usb" => hist.told = col.prev
    /\ (kind = "net" /\ out.err = None) => hist.told = col.prev
    /\ kind = "display" => hist.told = out.sample.bright
    /\ (kind = "os_power" /\ hist.clean /\ out.sample.scheme # None) =>
         out.sample.scheme = hist.snapped

-----------------------------------------------------------------------------
(* Why it is so: what a collector's state tells of the readings before.    *)

Worlds == [prov : {"up", "busy", "denied", "no data"}, now : Nat, present : SUBSET Insts,
           busy : SUBSET Insts, attr : SUBSET Insts, sideOk : BOOLEAN, active : Insts,
           gen : [Insts -> Nat], busyTicks : [Insts -> Nat], changes : Nat]
Retries == [error : {None} \cup InitErrors, attempts : Nat, at : Int,
            class : {"permission", "permanent", "gone", "transient"}]
Fields == {"q", "retry", "tick", "fresh", "stale", "adapters", "inv", "ever", "cached", "prev",
           "eff", "effScheme", "effAt"}
IsFunction(f) == f = [x \in DOMAIN f |-> f[x]]

(* The warm-up's window is used up by the read that made it.               *)
TypeOK ==
  /\ kind \in Kinds /\ world \in Worlds /\ due \in BOOLEAN
  /\ DOMAIN col = Fields
  /\ col.q \in {None} \cup Queries /\ col.retry \in Retries
  /\ col.tick \in Nat /\ col.inv \in Nat /\ col.effAt \in Nat
  /\ col.fresh = FALSE /\ col.stale \in BOOLEAN /\ col.ever \in BOOLEAN
  /\ hist.last \in [Insts -> {None} \cup Marks]
  /\ hist.age \in [Insts -> Nat] /\ hist.upAge \in [Insts -> Nat]
  /\ hist.failing \in Nat /\ hist.clean \in BOOLEAN

(* A reading is of the past, and an instance only works on while it is the *)
(* same one.                                                               *)
PastReadings ==
  /\ \A i \in Insts : hist.last[i] # None =>
       /\ hist.last[i].t <= world.now /\ (due => hist.last[i].t < world.now)
       /\ hist.last[i].gen <= world.gen[i]
       /\ hist.last[i].gen = world.gen[i] => hist.last[i].work <= world.busyTicks[i]
  /\ col.effAt <= world.now /\ (due => col.effAt < world.now)

(* The last collection is the last reading, and so is the energy baseline. *)
WindowIsLastReading ==
  kind \in PdhKinds => \A i \in Insts : hist.last[i] # None =>
    /\ col.q # None /\ col.q.c1.t = hist.last[i].t /\ col.q.c1.v[i] = hist.last[i].work
    /\ kind = "cpu" /\ i = Pkg /\ i \in col.q.table =>
         col.prev = [e |-> hist.last[i].work, t |-> hist.last[i].t]

(* A process has a baseline for each of its lives that was read; that of   *)
(* the last is its last reading.                                           *)
BaselineIsLastReading ==
  kind = "proc" => \A i \in Insts :
    /\ \A k \in DOMAIN col.prev : k[1] = i =>
         hist.last[i] # None /\ k[2] \in 0..hist.last[i].gen
    /\ hist.last[i] # None =>
         LET k == <<i, hist.last[i].gen>> IN
         /\ k \in DOMAIN col.prev
         /\ col.prev[k].cpu = hist.last[i].work /\ col.prev[k].t = hist.last[i].t
         /\ hist.last[i].side => col.prev[k].io = hist.last[i].work

(* An instance that is missing from a table appeared after the rebuild.    *)
TableIsRecent ==
  (/\ col.q # None /\ kind \in {"gpu", "net", "storage"}
   /\ kind # "storage" => ~col.stale
   /\ kind = "gpu" => Cardinality(Insts) <= MaxEngines)
  => \A i \in Insts \ col.q.table :
       (IF kind = "storage" THEN hist.upAge[i] ELSE hist.age[i]) <= col.tick % RebuildEvery

(* A collector that fails although its provider answers is waiting, and    *)
(* for no longer than the longest backoff after the failure it waits for.  *)
WaitsAtMost ==
  kind \in PdhKinds =>
    /\ col.q # None \/ col.retry.error = None => hist.failing = 0
    /\ col.q = None /\ col.retry.error # None /\ col.retry.class # "permission" =>
         /\ retryable(col.retry.class)
         /\ hist.failing + col.retry.at <= col.tick + MaxBackoff
         /\ hist.failing > 0 => col.tick < col.retry.at

(* What the timeline says is what the collector compares with next.        *)
ToldIsKept ==
  /\ kind = "usb" =>
       /\ col.cached \in {None} \cup Inventories
       /\ IF col.ever THEN hist.told = col.prev /\ col.prev \in SUBSET Insts
                      ELSE hist.told = None
  /\ kind = "net" =>
       /\ hist.told = col.prev /\ IsFunction(col.prev)
       /\ IF col.ever THEN col.inv > 0 /\ col.adapters = col.prev
                      ELSE col.inv = 0 /\ DOMAIN col.prev = {}
  /\ kind = "display" =>
       IF col.ever THEN hist.told = col.prev.bright /\ IsFunction(hist.told)
                   ELSE DOMAIN hist.told = {}
  /\ kind = "os_power" =>
       (hist.clean /\ col.eff # None /\ col.effScheme # None => col.effScheme = hist.snapped)

IndInv ==
  /\ TypeOK /\ PastReadings /\ WindowIsLastReading /\ BaselineIsLastReading
  /\ TableIsRecent /\ WaitsAtMost /\ ToldIsKept

=============================================================================
