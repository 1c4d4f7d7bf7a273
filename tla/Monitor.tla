------------------------------ MODULE Monitor ------------------------------
(***************************************************************************)
(* What the monitor loop keeps about its collectors                        *)
(* (pf-agent/src/monitor.rs, MonitorState, with TimeoutWatch of sched.rs,  *)
(* ActivityWatch of storage.rs, MultiBaseline of analysis.rs): which       *)
(* collector is overdue, the primary that bounds --samples, the adaptive   *)
(* cadences, the running energy and disk totals, and the footer made of    *)
(* them.  The threads and the channel are in Scheduler, stop, pause and    *)
(* markers in Agent, the bytes of the file in SessionStore.                *)
(*                                                                         *)
(* st is MonitorState; every handler is a function from a state and a      *)
(* message to the next state.  Time is in half seconds.  A sample carries  *)
(* the fields that some state depends on, the console output is left out.  *)
(***************************************************************************)
EXTENDS EnergyMath

CONSTANTS
  Selections,   (* collector lists --collectors may select (sequences)     *)
  BaseIv,       (* effective_base_interval                                 *)
  HelperEvery,  (* --helper-every                                          *)
  HelperLimit,  (* the helper's deadline (20 s)                            *)
  Samples,      (* --samples, None without                                 *)
  BoostAfter, BoostFor, ShortCap,  (* 10 discharge readings, 8 samples, 10 *)
  WatchNeeded,  (* ActivityWatch's consecutive busy samples (10)           *)
  Watts, Rates, (* readings a collector may deliver                        *)
  Steps,        (* by how much the clock may advance at once               *)
  WallSteps,    (* by how much the wall clock may be set                   *)
  MaxAdvance, MaxWallSteps, MaxQueue, MaxMessages   (* bounds of a run     *)

Collectors == {"battery", "cpu", "gpu", "storage", "net", "proc", "display",
               "usb", "os", "self", "elevated"}

(* What the energy accounting sees of a battery sample.                    *)
Power == Int \cup {None}
Stamps == [mono : Int, wall : Int, dch : Power, chg : Power]

ASSUME MonitorAssumption ==
  /\ BaseIv \in Nat \ {0} /\ HelperEvery \in Nat \ {0}
  /\ Samples = None \/ Samples \in Nat \ {0}
  /\ BoostFor \in Nat \ {0}
  /\ Selections \subseteq Seq(Collectors) \ {<<>>}
  /\ Watts \subseteq Nat /\ Steps \subseteq Nat /\ WallSteps \subseteq Int
  /\ None \notin Int \cup Kinds \cup Stamps

VARIABLES
  now, wall,    (* monotonic clock and wall clock                          *)
  steps, skews, sent,  (* how much of the bounds is used                   *)
  queue,        (* messages the workers sent and the loop has not received *)
  helper,       (* ElevatedPoller: its child and its knob                  *)
  st            (* MonitorState                                            *)

monitorVars == <<now, wall, steps, skews, sent, queue, helper, st>>

Clamp(x, lo, hi) == Max({lo, Min({x, hi})})

(* The table of cadences.                                                  *)
canonical_interval(c) ==
  CASE c \in {"battery", "cpu", "gpu", "storage", "net"} -> BaseIv
    [] c = "proc"           -> Clamp(2 * BaseIv, 1, 4)
    [] c = "display"        -> Clamp(2 * BaseIv, 2, 10)
    [] c \in {"usb", "os"}  -> 60
    [] c = "self"           -> 10
    [] c = "elevated"       -> Max({HelperEvery, 20})

Gap == energy_max_gap_secs(BaseIv)
Grace == Max({30 * BaseIv, 60})
Quick == 1        (* the 250 ms floor of a boosted cadence, rounded up     *)

Active == ToSet(st.active)

(* The monitor starts: clocks at session start, the selected collectors.   *)
(* The wall clock starts far enough from 0 to be set back.                 *)
MonitorInit ==
  /\ now = 0 /\ wall = 100 /\ steps = 0 /\ skews = 0 /\ sent = 0
  /\ queue = << >>
  /\ helper = [since |-> None, exit |-> None,
               knob |-> canonical_interval("elevated")]
  /\ \E active \in Selections :
       st = [active |-> active, expected |-> [c \in ToSet(active) |-> None],
             timedOut |-> {}, episodes |-> 0, late |-> 0,
             primary |-> IF "battery" \in ToSet(active) THEN "battery" ELSE active[1],
             tick |-> 0, fallback |-> FALSE,
             boosted |-> 0, knob |-> BaseIv, short |-> << >>, dchCount |-> 0,
             energy |-> NewStream, nBattery |-> 0, dischargeN |-> 0, chargeN |-> 0,
             disk |-> NewThroughput, prevDisk |-> None,
             busy |-> 0, firing |-> FALSE,
             cpuCtx |-> None, selfCtx |-> None,
             full |-> FALSE, lines |-> [c \in Collectors |-> << >>], events |-> << >>, phase |-> "loop"]

Loop == st.phase = "loop"

-----------------------------------------------------------------------------
(* Evidence.                                                                *)

event(s, kind, c) == [s EXCEPT !.events = Append(@, <<kind, c>>)]
Events(s, kind, c, n) == IF n = 0 THEN s ELSE event(s, kind, c)

(* write_line: a handler goes on with `next` only if the line is written,  *)
(* otherwise the loop ends without a footer.  s.full: the write would fail *)
Written(s, m, next) ==
  IF s.full THEN [s EXCEPT !.phase = "failed"]
            ELSE [next EXCEPT !.lines[m.c] = Append(@, m)]

collector_error(s, m) == event(s, "collector_error", m.c)

-----------------------------------------------------------------------------
(* TimeoutWatch.                                                            *)

arrival_overdue(t, last, iv) == t - last > 3 * iv + 4

(* The last arrival, or the start of the session.                          *)
LastArrival(s, c) == IF s.expected[c] = None THEN 0 ELSE s.expected[c]

(* Mutant: an episode is reported at every poll it lasts.                  *)
PollEveryTime(s, c) ==
  IF arrival_overdue(now, LastArrival(s, c), canonical_interval(c))
    THEN event([s EXCEPT !.timedOut = @ \cup {c}, !.episodes = @ + 1],
               "collector_timeout", c)
    ELSE s

(* TimeoutWatch::poll and the event of poll_collector_timeouts.            *)
PollCollector(s, c) ==
  IF /\ arrival_overdue(now, LastArrival(s, c), canonical_interval(c))
     /\ c \notin s.timedOut
    THEN event([s EXCEPT !.timedOut = @ \cup {c}, !.episodes = @ + 1],
               "collector_timeout", c)
    ELSE s

(* Every active collector, in their order.                                 *)
poll_collector_timeouts(s) ==
  LET polled[i \in 0..Len(s.active)] ==
        IF i = 0 THEN s ELSE PollCollector(polled[i - 1], s.active[i])
  IN polled[Len(s.active)]

note_arrival(s, c) ==
  IF c \in s.timedOut
    THEN event([s EXCEPT !.timedOut = @ \ {c}], "collector_recovered", c)
    ELSE s

-----------------------------------------------------------------------------
(* The handlers.                                                            *)

(* Twice the median of a non-empty sequence.                               *)
TwiceMedian(q) ==
  LET s == SortSeq(q, <)  n == Len(q) IN s[(n + 1) \div 2] + s[(n + 2) \div 2]

(* Both an absolute floor of 1 W and a fifth of the short baseline.        *)
should_boost(short, w) ==
  LET base == TwiceMedian(short)
      off == IF 2 * w >= base THEN 2 * w - base ELSE base - 2 * w
  IN base > 0 /\ off >= 2 /\ 5 * off >= base

baselines_push(short, w) ==
  Append(IF Len(short) >= ShortCap THEN Tail(short) ELSE short, w)

record_battery(s, m) ==
  [s EXCEPT !.energy = Push(@, [mono |-> m.mono, wall |-> m.wall,
                                dch |-> m.dch, chg |-> m.chg], Gap),
            !.dischargeN = @ + (IF m.dch # None THEN 1 ELSE 0),
            !.chargeN = @ + (IF m.chg # None THEN 1 ELSE 0)]

(* A discharge reading moves the baselines and may raise the sample rate.  *)
Boost(s, m) ==
  LET n == Min({s.dchCount + 1, BoostAfter})
      t == [s EXCEPT !.short = baselines_push(@, m.dch), !.dchCount = n]
  IN IF n >= BoostAfter /\ should_boost(t.short, m.dch) /\ t.boosted = 0
       THEN event([t EXCEPT !.boosted = BoostFor,
                            !.knob = Max({BaseIv \div 4, Quick})],
                  "anomaly_hint", "battery")
       ELSE t

(* Every battery sample counts the boost down; at 0 the cadence returns.   *)
Countdown(s) ==
  IF s.boosted = 0 THEN s
  ELSE [s EXCEPT !.boosted = @ - 1,
                 !.knob = IF s.boosted = 1 THEN BaseIv ELSE @]

handle_battery(s, m) ==
  LET n == [s EXCEPT !.nBattery = @ + 1]
      r == record_battery(n, m)
      b == IF m.dch # None THEN Boost(r, m) ELSE r
  IN IF m.ok THEN Written(n, m, Countdown(b)) ELSE collector_error(n, m)

(* The context-switch rate is kept for the self collector before the line  *)
(* is written.                                                             *)
handle_cpu(s, m) ==
  IF m.ok THEN LET t == [s EXCEPT !.cpuCtx = m.value] IN Written(t, m, t)
          ELSE collector_error(s, m)

handle_gpu(s, m) == IF m.ok THEN Written(s, m, s) ELSE collector_error(s, m)

handle_proc(s, m) == IF m.ok THEN Written(s, m, s) ELSE collector_error(s, m)

(* ActivityWatch::update; a missing busyness leaves it alone.              *)
observe_watch(s, m) ==
  CASE m.value = None -> s
    [] m.value = 0    -> [s EXCEPT !.busy = 0, !.firing = FALSE]
    [] OTHER          ->
         LET n == Min({s.busy + 1, WatchNeeded}) IN
         IF ~s.firing /\ n >= WatchNeeded
           THEN event([s EXCEPT !.busy = n, !.firing = TRUE], "storage", m.c)
           ELSE [s EXCEPT !.busy = n]

(* The total disk's rate over the time since the previous storage sample.  *)
(* (disk_read; disk_write is the same accumulator on the other rate.)      *)
handle_storage(s, m) ==
  IF ~m.ok THEN collector_error(s, m) ELSE
  LET dt == IF s.prevDisk = None THEN None ELSE m.mono - s.prevDisk
      t == observe_watch(s, m)
  IN Written(s, m, [t EXCEPT !.prevDisk = m.mono,
       !.disk = IF m.total THEN ThroughputPush(@, dt, m.value, Gap) ELSE @])

handle_usb(s, m) ==
  IF m.ok THEN Written(s, m, Events(s, "usb", m.c, m.value))
          ELSE collector_error(s, m)

handle_net(s, m) ==
  IF m.ok THEN Written(s, m, Events(s, "net", m.c, m.value))
          ELSE collector_error(s, m)

handle_display(s, m) ==
  IF m.ok THEN Written(s, m, Events(s, "display", m.c, m.value))
          ELSE collector_error(s, m)

(* OsPowerCollector::read cannot fail.                                     *)
handle_os(s, m) == Written(s, m, s)

(* A pending helper leaves no trace.                                       *)
handle_elevated(s, m) ==
  IF m.ok THEN Written(s, m, s)
  ELSE IF m.value = "pending" THEN s
  ELSE event(s, "helper_error", m.c)

(* The self sample is stamped with the latest cpu context-switch rate.     *)
handle_selfmon(s, m) ==
  IF m.ok THEN LET t == [s EXCEPT !.selfCtx = s.cpuCtx] IN
               Written(t, [m EXCEPT !.value = s.cpuCtx], t)
          ELSE collector_error(s, m)

Handle(s, m) ==
  CASE m.c = "battery"  -> handle_battery(s, m)
    [] m.c = "cpu"      -> handle_cpu(s, m)
    [] m.c = "gpu"      -> handle_gpu(s, m)
    [] m.c = "proc"     -> handle_proc(s, m)
    [] m.c = "display"  -> handle_display(s, m)
    [] m.c = "net"      -> handle_net(s, m)
    [] m.c = "storage"  -> handle_storage(s, m)
    [] m.c = "usb"      -> handle_usb(s, m)
    [] m.c = "os"       -> handle_os(s, m)
    [] m.c = "elevated" -> handle_elevated(s, m)
    [] m.c = "self"     -> handle_selfmon(s, m)

-----------------------------------------------------------------------------
(* ElevatedPoller, called by the elevated worker.  helper.exit is what the *)
(* running child has come to; a child that was dropped is never read.      *)

Idle == [since |-> None, exit |-> None, knob |-> canonical_interval("elevated")]

(* Mutant: the deadline kills the child and leaves the quick cadence.      *)
SettleKeepsKnob == [helper EXCEPT !.since = None, !.exit = None]

(* restore() with the child taken.                                         *)
Settled == Idle

(* The first poll spawns: it fails, or the child ends within the 100 ms    *)
(* budget, or it is kept with a deadline and the cadence tightened.        *)
Spawn(result) ==
  /\ helper.since = None
  /\ \/ result \in {"spawn_failed", "line", "exit_status", "garbled"}
        /\ UNCHANGED helper
     \/ result = "pending"
        /\ helper' = [since |-> now, exit |-> None, knob |-> Quick]

(* Later polls: the child has ended, or is past its deadline, or is still  *)
(* running; try_wait itself may fail.                                      *)
PollChild(result) ==
  /\ helper.since # None
  /\ \/ helper.exit # None /\ result = helper.exit /\ helper' = Settled
     \/ helper.exit = None /\ result = "timed_out"
        /\ now >= helper.since + HelperLimit /\ helper' = Settled
     \/ helper.exit = None /\ result = "pending"
        /\ now < helper.since + HelperLimit /\ UNCHANGED helper
     \/ result = "wait_failed" /\ helper' = Settled

(* The helper process ends by itself (external).                           *)
HelperExits ==
  /\ Loop /\ helper.since # None /\ helper.exit = None
  /\ \E e \in {"line", "exit_status", "garbled"} : helper' = [helper EXCEPT !.exit = e]
  /\ UNCHANGED <<now, wall, steps, skews, sent, queue, st>>

-----------------------------------------------------------------------------
(* The workers.  A worker stamps its sample with both clocks and sends it; *)
(* a stalled one sends nothing, a failing provider sends an error.         *)

Reading(c) ==
  CASE c = "battery" -> [dch : Watts, chg : {None}]
                          \cup [dch : {None}, chg : {None} \cup {w \in Watts : \A v \in Watts : v <= w}]
    [] OTHER -> [dch : {None}, chg : {None}]

Values(c) ==
  CASE c \in {"cpu", "storage"} -> Rates \cup {None}
    [] c \in {"usb", "net", "display"} -> {0, 1}
    [] OTHER -> {None}

Message(c, ok, r, v, total) ==
  [c |-> c, mono |-> now, wall |-> wall, ok |-> ok, dch |-> r.dch,
   chg |-> r.chg, value |-> v, total |-> total]

Send(m) ==
  /\ Len(queue) < MaxQueue /\ sent < MaxMessages
  /\ \A i \in 1..Len(queue) : queue[i].c = m.c => queue[i].mono < now
  /\ queue' = Append(queue, m)
  /\ sent' = sent + 1

Collect(c) ==
  /\ Loop /\ c \in Active \ {"elevated"}
  /\ \E r \in Reading(c), v \in Values(c), total \in BOOLEAN :
       /\ total => c = "storage"
       /\ c = "storage" /\ ~total => v = None
       /\ Send(Message(c, TRUE, r, v, total))
  /\ UNCHANGED <<now, wall, steps, skews, helper, st>>

CollectFails(c) ==
  /\ Loop /\ c \in Active \ {"elevated", "os"}
  /\ Send(Message(c, FALSE, [dch |-> None, chg |-> None], None, FALSE))
  /\ UNCHANGED <<now, wall, steps, skews, helper, st>>

CollectElevated ==
  /\ Loop /\ "elevated" \in Active
  /\ \E result \in {"spawn_failed", "line", "exit_status", "garbled", "pending",
                     "timed_out", "wait_failed"} :
       /\ Spawn(result) \/ PollChild(result)
       /\ Send(Message("elevated", result = "line", [dch |-> None, chg |-> None],
                       result, FALSE))
  /\ UNCHANGED <<now, wall, steps, skews, st>>

-----------------------------------------------------------------------------
(* The loop.                                                                *)

(* Lateness, and the new expected arrival.                                 *)
Lateness(s, m) ==
  LET last == s.expected[m.c]
      late == last # None /\ m.mono - last > canonical_interval(m.c)
  IN [s EXCEPT !.late = IF late THEN @ + 1 ELSE @, !.expected[m.c] = m.mono]

(* --samples is bound to the first collector that produces once the        *)
(* primary has produced nothing for the grace period.                      *)
PrimaryFallback(s, m) ==
  IF /\ Samples # None /\ s.tick = 0 /\ ~s.fallback
     /\ m.c # s.primary /\ m.mono > Grace
    THEN event([s EXCEPT !.primary = m.c, !.fallback = TRUE],
               "primary_fallback", m.c)
    ELSE s

Tick(s, m) ==
  IF s.phase = "failed" \/ m.c # s.primary THEN s
  ELSE [s EXCEPT !.tick = @ + 1,
                 !.phase = IF s.tick + 1 = Samples THEN "footer" ELSE @]

(* One turn of the loop that receives a message; a paused monitor drops    *)
(* the sample and only keeps the arrival current.  The stop flags are read *)
(* in Agent; here the loop ends by --samples or by a failed write.         *)
Turn(paused, full) ==
  /\ Loop /\ queue # << >>
  /\ LET m == Head(queue)
         s == note_arrival(poll_collector_timeouts([st EXCEPT !.full = full]), m.c)
         r == PrimaryFallback(Lateness(s, m), m)
         t == IF paused THEN [s EXCEPT !.expected[m.c] = m.mono]
                        ELSE Tick(Handle(r, m), m)
     IN st' = [t EXCEPT !.full = FALSE]
  /\ queue' = Tail(queue)
  /\ UNCHANGED <<now, wall, steps, skews, sent, helper>>

(* A turn that receives nothing within 100 ms.                             *)
ReceiveTimeout ==
  /\ Loop /\ queue = << >>
  /\ st' = poll_collector_timeouts(st)
  /\ UNCHANGED <<now, wall, steps, skews, sent, queue, helper>>

(* write_footer: what it says is Footer below.                             *)
WriteFooter ==
  /\ st.phase = "footer"
  /\ st' = [st EXCEPT !.phase = "done"]
  /\ UNCHANGED <<now, wall, steps, skews, sent, queue, helper>>

(* Time passes, for both clocks.                                           *)
Advance ==
  /\ Loop /\ steps < MaxAdvance
  /\ \E d \in Steps : now' = now + d /\ wall' = wall + d
  /\ steps' = steps + 1
  /\ UNCHANGED <<skews, sent, queue, helper, st>>

(* The wall clock is set, or the machine sleeps while the monotonic clock  *)
(* stands still.  Only the battery's accounting looks at the wall clock.   *)
SetWall ==
  /\ Loop /\ "battery" \in Active /\ skews < MaxWallSteps
  /\ \E d \in WallSteps : wall' = wall + d
  /\ skews' = skews + 1
  /\ UNCHANGED <<now, steps, sent, queue, helper, st>>

Ended == st.phase \in {"done", "failed"} /\ UNCHANGED monitorVars

MonitorNext ==
  \/ \E c \in Collectors : Collect(c) \/ CollectFails(c)
  \/ CollectElevated \/ HelperExits
  \/ \E paused, full \in BOOLEAN : Turn(paused, full)
  \/ ReceiveTimeout \/ WriteFooter
  \/ Advance \/ SetWall \/ Ended

MonitorSpec == MonitorInit /\ [][MonitorNext]_monitorVars

-----------------------------------------------------------------------------
(* What recovery makes of the lines of the file.                           *)

(* The summary of recover_session_text, from the battery records alone.    *)
recovered_summary ==
  LET ss == st.lines["battery"]
      kind(k) == Cardinality({d \in discontinuities(ss, Gap) : d[2] = k})
  IN [discharge |-> integrate_segmented_clocks(ss, [i \in DOMAIN ss |-> ss[i].dch], Gap),
      charge |-> integrate_segmented_clocks(ss, [i \in DOMAIN ss |-> ss[i].chg], Gap),
      kinds |-> [k \in Kinds |-> kind(k)],
      dischargeN |-> Cardinality({i \in DOMAIN ss : ss[i].dch # None}),
      chargeN |-> Cardinality({i \in DOMAIN ss : ss[i].chg # None})]

(* The summary of write_footer.  samples counts failed reads too.          *)
Footer ==
  [samples |-> st.nBattery, dischargeN |-> st.dischargeN, chargeN |-> st.chargeN,
   discharge |-> st.energy.discharge, charge |-> st.energy.charge,
   kinds |-> st.energy.kinds, diskMb |-> total_mb(st.disk),
   diskUnknown |-> st.disk.unknown, lateness |-> st.late,
   collectorTimeouts |-> st.episodes, timedOut |-> st.timedOut,
   selfCtx |-> st.selfCtx, active |-> Active]

-----------------------------------------------------------------------------
(* Properties.                                                              *)

(* How often an event is among those recorded, about a collector or at all.*)
EventCount(kind, c) == Cardinality({i \in DOMAIN st.events : st.events[i] = <<kind, c>>})
KindCount(kind) == Cardinality({i \in DOMAIN st.events : st.events[i][1] = kind})

(* Timeout episodes and recoveries alternate for each collector, whatever  *)
(* order stalls, backlogs, pauses and late samples come in, and the count  *)
(* of episodes in the footer is that of the timeout events recorded        *)
(* (TimeoutWatch: "each timeout episode is reported exactly once and       *)
(* recovery is observable").                                               *)
EpisodesPaired ==
  /\ \A c \in Active :
       EventCount("collector_timeout", c)
         = EventCount("collector_recovered", c) + (IF c \in st.timedOut THEN 1 ELSE 0)
  /\ Footer.collectorTimeouts = KindCount("collector_timeout")

(* A quick cadence has a reason and an end: the battery interval is the    *)
(* base interval exactly when no boost is running, and the elevated        *)
(* collector polls quickly exactly while a helper is in flight.  A boost   *)
(* that outlived its samples, or a helper that timed out, would otherwise  *)
(* leave the profiler sampling at four times its rate for good.            *)
CadenceRestored ==
  /\ (st.boosted = 0) => st.knob = BaseIv
  /\ Len(st.lines["battery"]) >= BoostFor * KindCount("anomaly_hint") - st.boosted
  /\ helper.knob = IF helper.since = None
                     THEN canonical_interval("elevated") ELSE Quick

(* A clean footer and the footer recovery would rebuild from the same      *)
(* lines tell the same energies, coverage, unobserved time and kinds of    *)
(* discontinuity, across gaps, failed reads, pauses, sleeps and clock      *)
(* changes ("a clean footer and a recovered footer cannot disagree").      *)
FootersAgree ==
  \A f \in DOMAIN recovered_summary : Footer[f] = recovered_summary[f]

=============================================================================
