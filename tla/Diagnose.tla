------------------------------ MODULE Diagnose ------------------------------
(***************************************************************************)
(* The analysis engine behind the command line (pf-core/src/analysis.rs):  *)
(* step detection and its evidence, the quality of a capture, the removal  *)
(* of the settling time, and the comparison of two conditions with its     *)
(* confidence and validity.  Every operator is a pure function of loaded   *)
(* sessions.                                                               *)
(*                                                                         *)
(* Time is in half seconds, power in half watts; a median is ten times its *)
(* value and a ratio a pair, as in Analyze.  One policy number stands for  *)
(* the five that are read in the same way.                                 *)
(***************************************************************************)
EXTENDS Analyze

CONSTANTS
  MinWindow, MaxWindow,   (* samples of a step's window (5 and 60)         *)
  MinSettle, MaxSettle,   (* samples of a settling window (3 and 30)       *)
  MissedTicks             (* absent snapshots that are not yet an exit (3) *)

ASSUME DiagnoseAssumption ==
  /\ MinWindow \in Nat \ {0} /\ MaxWindow \in Nat /\ MinWindow <= MaxWindow
  /\ MinSettle \in Nat \ {0} /\ MaxSettle \in Nat /\ MinSettle <= MaxSettle
  /\ MissedTicks \in Nat

clamp(x, lo, hi) == Max({lo, Min({x, hi})})
Infinite == <<1, 0>>
WeakerOf(x, y) == IF Less(x, y) THEN y ELSE x

(* The known values of a list, and the same with their times.              *)
KnownBy(list, v(_)) == SelectSeq(list, LAMBDA p : v(p) # None)
ValuesBy(list, v(_)) == LET k == KnownBy(list, v) IN [i \in DOMAIN k |-> v(k[i])]
discharge(s) == ValuesBy(s.battery, LAMBDA p : p.dch)
MonoOf(list) == [i \in DOMAIN list |-> list[i].mono]

-----------------------------------------------------------------------------
(* Steps and their evidence.                                                *)

PowerSummary(vals) ==
  IF vals = <<>> THEN None
  ELSE [n |-> Len(vals), median |-> median(vals),
        p10 |-> percentile_sorted(vals, 1), p90 |-> percentile_sorted(vals, 9)]

(* The first of the largest steps between neighbouring windows; its index  *)
(* counts the samples before it.                                           *)
largest_step(delta, threshold) ==
  LET big == {i \in DOMAIN delta : AbsVal(delta[i]) >= threshold}
      first == Min({i \in big : \A j \in big : AbsVal(delta[j]) <= AbsVal(delta[i])})
  IN IF big = {} THEN None
     ELSE [index |-> first, delta |-> delta[first],
           confidence |-> IF AbsVal(delta[first]) >= 2 * threshold THEN "high" ELSE "medium"]

detect_step(power, w, threshold) ==
  IF w = 0 \/ Len(power) < 2 * w THEN None
  ELSE largest_step([i \in w..(Len(power) - w) |->
         median(SubSeq(power, i + 1, i + w)) - median(SubSeq(power, i - w + 1, i))], threshold)

(* The median of the known values of a series in a window.                 *)
time_median(pts, t0, t1) ==
  median(ValuesBy(SelectSeq(pts, LAMBDA p : t0 <= p.mono /\ p.mono < t1), LAMBDA p : p.v))

(* The upper median of the steps; samples have distinct instants, so the   *)
(* floor of 0.05 s is never reached.                                       *)
median_interval(ts) ==
  IF Len(ts) < 2 THEN Second
  ELSE LET d == SortSeq([i \in 1..(Len(ts) - 1) |-> AbsVal(ts[i+1] - ts[i])], <)
       IN d[(Len(d) \div 2) + 1]

exit_hint(last, interval, missed) ==
  IF missed > MissedTicks /\ interval > 0 THEN last + interval ELSE None

(* A process is a pid and its creation time; None sorts first.             *)
Identities(snaps) == UNION {{<<e.pid, e.start>> : e \in Range(p.top)} : p \in Range(snaps)}
IdentityBefore(j, k) ==
  \/ j[1] < k[1]
  \/ j[1] = k[1] /\ j[2] # k[2] /\ (j[2] = None \/ (k[2] # None /\ j[2] < k[2]))

(* Starts are identities first seen after the opening tick, stops those    *)
(* absent for long enough at the end.                                      *)
lifecycle_across_ticks(snaps) ==
  LET seen(k) == {i \in DOMAIN snaps : \E e \in Range(snaps[i].top) : <<e.pid, e.start>> = k}
      dt == median_interval(MonoOf(snaps))
      exit(k) == exit_hint(snaps[Max(seen(k))].mono, dt, Len(snaps) - Max(seen(k)))
      ids == Identities(snaps)
  IN [starts |-> SortSet({k \in ids : Min(seen(k)) > 1}, IdentityBefore),
      stops |-> SortSet({k \in ids : exit(k) # None}, IdentityBefore),
      exit |-> [k \in {x \in ids : exit(x) # None} |-> exit(k)]]

Evidence(kind, who, delta, confidence) ==
  [kind |-> kind, who |-> who, delta |-> delta, confidence |-> confidence]

(* The adapters in order of appearance.                                    *)
AdapterNames(s) ==
  LET all == FlattenSeq([i \in DOMAIN s.gpu |->
               [j \in DOMAIN s.gpu[i].adapters |-> s.gpu[i].adapters[j].name]])
  IN SelectSeq([i \in DOMAIN all |-> IF \E j \in 1..(i-1) : all[j] = all[i] THEN None ELSE all[i]],
               LAMBDA n : n # None)
AdapterUtil(p, name) ==
  LET i == SelectInSeq(p.adapters, LAMBDA a : a.name = name)
  IN IF i = 0 THEN None ELSE p.adapters[i].v

(* What moved with the step: the medians just before and just after it.    *)
metric_evidence(s, b0, at, a1) ==
  LET series(list, v(_)) == [i \in DOMAIN list |-> [mono |-> list[i].mono, v |-> v(list[i])]]
      before(list, v(_)) == time_median(series(list, v), b0, at)
      after(list, v(_)) == time_median(series(list, v), at, a1)
      item(list, v(_), Cond(_), e(_)) ==
        LET x == before(list, v)  y == after(list, v) IN
          IF x # None /\ y # None /\ Cond(y - x) THEN <<e(y)>> ELSE <<>>
      names == AdapterNames(s)
      shift(list, v(_), least, e) ==
        item(list, v, LAMBDA d : AbsVal(d) >= least, LAMBDA y : e)
  IN FlattenSeq([i \in DOMAIN names |->
       item(s.gpu, LAMBDA p : AdapterUtil(p, names[i]), LAMBDA d : AbsVal(d) >= 5,
            LAMBDA y : Evidence("gpu", names[i], None, IF y > 5 THEN "high" ELSE "medium"))])
     \o shift(s.cpu, LAMBDA p : p.v, 30, Evidence("cpu", None, None, "medium"))
     \o item(s.cpu, LAMBDA p : p.c3, LAMBDA d : -d >= 100,
             LAMBDA y : Evidence("c3", None, None, "high"))
     \o item(s.cpu, LAMBDA p : p.pkg, LAMBDA d : AbsVal(d) >= 10,
             LAMBDA y : Evidence("package", None, y - before(s.cpu, LAMBDA p : p.pkg), "low"))
     \o shift(s.display, LAMBDA p : p.v, 50, Evidence("brightness", None, None, "medium"))

(* The first entry of each pid in a window of snapshots.                   *)
procs_in(s, t0, t1) ==
  LET all == FlattenSeq([i \in DOMAIN s.procs |->
               IF t0 <= s.procs[i].mono /\ s.procs[i].mono < t1 THEN s.procs[i].top ELSE <<>>])
  IN [pid \in {e.pid : e \in Range(all)} |-> all[SelectInSeq(all, LAMBDA e : e.pid = pid)]]

(* Only a creation time after the step is evidence of a start.             *)
started_in_window(s, e, b0, at) == e.start # None /\ e.start >= mono_wall(s, at)

arrivals(s, b0, at, a1) ==
  LET old == procs_in(s, b0, at)
      new == procs_in(s, at, a1)
      pids == SortSet(DOMAIN new \ DOMAIN old, <)
      kind(e) == IF started_in_window(s, e, b0, at) THEN "started"
                 ELSE IF e.start # None THEN "active" ELSE "entered"
  IN [i \in 1..Min({5, Len(pids)}) |->
        LET e == new[pids[i]] IN
          Evidence(kind(e), <<e.name, e.pid, e.ppid>>, None,
                   IF kind(e) = "started" THEN "medium" ELSE "low")]

estimated_stops(s) ==
  LET stops == Cut(lifecycle_across_ticks(s.procs).stops, 5)
      name(k) == LET all == FlattenSeq([i \in DOMAIN s.procs |-> s.procs[i].top])
                 IN all[SelectInSeq(all, LAMBDA e : <<e.pid, e.start>> = k)].name
  IN [i \in DOMAIN stops |-> Evidence("stopped", <<name(stops[i]), stops[i][1], None>>, None, "low")]

gpu_sensor_evidence == Evidence("gpu_sensor", None, None, "low")

(* Nothing without discharge; the step's whole delta stays unattributed,   *)
(* and evidence in watts comes first.                                      *)
step_evidence(s, at, span) ==
  <<gpu_sensor_evidence>> \o metric_evidence(s, at - span, at, at + span)
    \o arrivals(s, at - span, at, at + span) \o estimated_stops(s)
watts_first(ev) == SelectSeq(ev, LAMBDA e : e.delta # None) \o SelectSeq(ev, LAMBDA e : e.delta = None)
diagnose_step(s, dis, w, step, none) ==
  IF dis = <<>> THEN none
  ELSE IF step = None THEN [none EXCEPT !.evidence = <<gpu_sensor_evidence>>]
  ELSE [none EXCEPT !.step = step, !.unattributed = step.delta,
                 !.evidence = watts_first(step_evidence(s, dis[step.index + 1].mono,
                                                        w * median_interval(MonoOf(dis))))]

diagnose_known(s, baseline, dis, vals, med) ==
  LET w == clamp(Len(dis) \div 10, MinWindow, MaxWindow)
  IN diagnose_step(s, dis, w, detect_step(vals, w, 20),
       [n |-> Len(dis), median |-> med, step |-> None, evidence |-> <<>>, unattributed |-> None,
        vs |-> IF med # None /\ baseline # None /\ baseline > 0 THEN med - baseline ELSE None])
diagnose_session(s, baseline) ==
  diagnose_known(s, baseline, KnownBy(s.battery, LAMBDA p : p.dch), discharge(s), median(discharge(s)))

(* baseline_of, and what of it survives the file: the medians are written  *)
(* with fixed decimals and an absent CPU median (NaN) is not a number any  *)
(* more, so such a baseline cannot be read back.                           *)
baseline_of(s) ==
  LET sum == PowerSummary(discharge(s)) IN
  IF sum = None THEN None
  ELSE [median |-> sum.median, cpu |-> median(ValuesBy(s.cpu, LAMBDA p : p.v))]
baseline_from_json(b) == IF b = None \/ b.cpu = None THEN None ELSE b

-----------------------------------------------------------------------------
(* Quality of a capture.                                                    *)

(* The positive part of the first autocorrelation, in thousandths: below   *)
(* zero effective_n gives what it gives at zero.                           *)
lag1_persistence(vals) ==
  LET ratio(numer, denom) == IF Len(vals) < 3 \/ denom = 0 THEN <<0, 1000>>
                             ELSE <<clamp((1000 * numer) \div denom, 0, 1000), 1000>>
      of(d) == ratio(Sum(LAMBDA i : d[i] * d[i+1], 1..(Len(d) - 1)), Product(d, d, DOMAIN d))
  IN of(Centred(vals))

quality_of(vals, duration, sum, gaps, dt, seg) ==
  [n |-> Len(vals), duration |-> duration, unique |-> unique_count(vals),
   spread |-> IF sum = None \/ sum.median = 0 THEN Infinite ELSE <<sum.p90 - sum.p10, sum.median>>,
   abs_spread |-> IF sum = None THEN Infinite ELSE <<sum.p90 - sum.p10, 1>>,
   max_gap |-> Max(Range(gaps) \cup {0}), dt |-> dt,
   coverage |-> IF seg.covered + seg.unknown = 0 THEN None
                ELSE <<seg.covered, seg.covered + seg.unknown>>,
   rho |-> lag1_persistence(vals),
   hz |-> IF duration > 0 /\ Len(vals) > 1 THEN <<Second * (Len(vals) - 1), duration>> ELSE None,
   discontinuities |-> seg.discontinuities, unobserved |-> seg.unobserved]

timed_quality(s, vals, ts, gaps, dt) ==
  quality_of(vals, IF Len(ts) > 1 /\ Last(ts) > Head(ts) THEN Last(ts) - Head(ts) ELSE 0,
             PowerSummary(vals), gaps, dt,
             integrate_segmented_clocks(s.battery, [i \in DOMAIN s.battery |-> s.battery[i].dch],
                                        Max({(3 * dt) \div 10, 10})))
capture_quality(s) ==
  LET over(vals, ts, gaps) == timed_quality(s, vals, ts, gaps, Or(median(gaps), 0))
      ts == MonoOf(s.battery)
  IN over(discharge(s), ts, [i \in 1..(Len(ts) - 1) |-> ts[i+1] - ts[i]])

discharge_freshness(s) ==
  LET of(pts) ==
        LET last == Last(pts)
            other == {i \in DOMAIN pts : pts[i].dch # last.dch}
            held == IF other = {} THEN pts[1].mono ELSE pts[Max(other) + 1].mono
        IN IF pts = <<>> THEN None
           ELSE [sample_age |-> Last(s.battery).mono - last.mono, value_age |-> last.mono - held,
                 updates |-> unique_count(discharge(s))]
  IN of(KnownBy(s.battery, LAMBDA p : p.dch))

(* Blocks of one condition: time and samples add up, spread and gaps are   *)
(* those of the weakest block.                                             *)
aggregate_quality(qs) ==
  LET sum(f(_)) == Sum(LAMBDA i : f(qs[i]), DOMAIN qs)
      most(f(_), z) == FoldSeq(LAMBDA q, acc : WeakerOf(acc, f(q)), z, qs)
      known(f(_)) == {f(q) : q \in {x \in Range(qs) : f(x) # None}}
      least(R) == CHOOSE r \in R : \A x \in R : ~Less(x, r)
      dts == {q.dt : q \in Range(qs)} \ {0}
  IN [n |-> sum(LAMBDA q : q.n), duration |-> sum(LAMBDA q : q.duration),
      unique |-> sum(LAMBDA q : q.unique),
      spread |-> most(LAMBDA q : q.spread, <<0, 1>>),
      abs_spread |-> most(LAMBDA q : q.abs_spread, <<0, 1>>),
      max_gap |-> Max({q.max_gap : q \in Range(qs)} \cup {0}),
      dt |-> IF dts = {} THEN 0 ELSE Min(dts),
      coverage |-> IF known(LAMBDA q : q.coverage) = {} THEN None ELSE least(known(LAMBDA q : q.coverage)),
      rho |-> most(LAMBDA q : q.rho, <<0, 1>>),
      hz |-> IF known(LAMBDA q : q.hz) = {} THEN None ELSE least(known(LAMBDA q : q.hz)),
      discontinuities |-> sum(LAMBDA q : q.discontinuities),
      unobserved |-> sum(LAMBDA q : q.unobserved)]

(* Fewer distinct readings than max(5, a tenth of the expected samples).   *)
freshness_shortfall(q) ==
  q.hz # None /\ q.duration > 0 /\ q.hz[1] > 0 /\
  LET tenth == (q.duration * q.hz[1] + 20 * q.hz[2] - 1) \div (20 * q.hz[2])
  IN q.unique < Max({5, tenth})

-----------------------------------------------------------------------------
(* Two conditions.                                                          *)

Levels == <<"low", "medium", "high">>
(* Mutant: only the first side's coverage is looked at.                    *)
joint_coverage_first(a, b) == a.coverage

joint_coverage(a, b) ==
  IF a.coverage = None \/ b.coverage = None THEN None
  ELSE IF Less(b.coverage, a.coverage) THEN b.coverage ELSE a.coverage

(* The level by duration, independent samples, spread and coverage; any    *)
(* confounder takes one off.  A confounder is its kind and its side.       *)
ab_confidence(a, b, effect, cpu_mismatch) ==
  LET eff == Min({effective_n(a.n, a.unique, a.rho), effective_n(b.n, b.unique, b.rho)})
      duration == Min({a.duration, b.duration})
      spread == WeakerOf(a.spread, b.spread)
      cov == joint_coverage(a, b)
      noise == WeakerOf(a.abs_spread, b.abs_spread)
      covered(r) == cov = None \/ ~Less(cov, r)
      sided(q, side) == {<<k, side>> : k \in {k \in {"gap", "stale", "clock"} :
                  CASE k = "gap"   -> q.dt > 0 /\ 10 * q.max_gap > 3 * q.dt
                    [] k = "stale" -> freshness_shortfall(q)
                    [] k = "clock" -> q.discontinuities > 0}}
      joint == {k \in {"short", "few", "spread", "coverage", "cpu", "effect"} :
                  CASE k = "short"    -> duration < 5 * Second
                    [] k = "few"      -> eff < 5
                    [] k = "spread"   -> ~Less(spread, <<6, 10>>)
                    [] k = "coverage" -> ~covered(<<7, 10>>)
                    [] k = "cpu"      -> cpu_mismatch # None /\ cpu_mismatch >= 50
                    [] k = "effect"   -> effect # None /\ Less(<<AbsVal(effect), 1>>, noise)}
      confounders == sided(a, "A") \cup sided(b, "B") \cup {<<k, None>> : k \in joint}
      base == IF duration >= 60 * Second /\ eff >= 10 /\ Less(spread, <<3, 10>>) /\ covered(<<9, 10>>) THEN 3
              ELSE IF duration >= 20 * Second /\ eff >= 5 /\ Less(spread, <<6, 10>>) /\ covered(<<7, 10>>) THEN 2
              ELSE 1
  IN [level |-> Levels[IF confounders = {} THEN base ELSE Max({1, base - 1})],
      confounders |-> confounders]

comparison_validity(ma, mb, qa, qb, confounders, level) ==
  LET half(q) == q.coverage # None /\ Less(q.coverage, <<1, 2>>)
  IN IF ma = None \/ mb = None \/ half(qa) \/ half(qb) \/ Min({qa.duration, qb.duration}) < 5 * Second
       THEN "invalid"
     ELSE IF confounders # {} \/ level = "low" THEN "questionable" ELSE "valid"

(* The stated full charge, or the span of remaining energy over that of    *)
(* the charge when it moved by 5 points; a ratio.                          *)
full_capacity_wh(s) ==
  LET span(v) == Max(Range(v)) - Min(Range(v))
      of(rem, pct) == IF Len(rem) >= 2 /\ Len(pct) >= 2 /\ span(pct) >= 5 /\ span(rem) > 0
                        THEN <<100 * span(rem), span(pct)>> ELSE None
  IN IF s.full # None /\ s.full > 0 THEN <<s.full, 1>>
     ELSE of(ValuesBy(s.battery, LAMBDA p : p.rem), ValuesBy(s.battery, LAMBDA p : p.pct))

(* Hours as ratios; the projection is B's minus A's.                       *)
runtime_projection(a, b, ma, mb) ==
  LET norm(f, m) == IF f = None \/ m = None \/ m <= 0 THEN None ELSE <<10 * f[1], f[2] * m>>
      of(x, y) == [a |-> x, b |-> y,
                   delta |-> IF x = None \/ y = None THEN None ELSE y[1] * x[2] - x[1] * y[2]]
  IN of(norm(full_capacity_wh(a), ma), norm(full_capacity_wh(b), mb))

runtime_own(s, m) ==
  LET rem == ValuesBy(s.battery, LAMBDA p : p.rem)
  IN IF rem = <<>> \/ m = None \/ m <= 0 THEN None ELSE <<10 * Last(rem), m>>

comparison_from_stats(a, b, ma, mb, qa, qb, conf, lines) ==
  [a |-> a.label, b |-> b.label, med_a |-> ma, med_b |-> mb,
   delta |-> IF ma # None /\ mb # None /\ ma > 0 THEN mb - ma ELSE None,
   own |-> <<runtime_own(a, ma), runtime_own(b, mb)>>, norm |-> runtime_projection(a, b, ma, mb),
   lines |-> lines, confidence |-> conf.level, confounders |-> conf.confounders,
   validity |-> comparison_validity(ma, mb, qa, qb, conf.confounders, conf.level)]

(* The samples before the series has settled: none when it opens at its    *)
(* closing level, when it is too short, and when it converges late, which  *)
(* is a change of regime.                                                  *)
detect_settle_end(vals, dt) ==
  LET n == Len(vals)
      w == clamp((5 * Second) \div dt, MinSettle, MaxSettle)
      stable == median(SubSeq(vals, n - w + 1, n))
      near(i) == 10 * AbsVal(median(SubSeq(vals, i + 1, i + w)) - stable) <= Max({100, AbsVal(stable)})
      found == {i \in 1..(Min({n \div 2, 3 * w}) - w) : near(i)}
  IN IF n < 2 * w + 1 \/ near(0) \/ found = {} THEN 0 ELSE Min(found)

(* The index counts known readings, the interval all of them.              *)
auto_settle_secs(s) ==
  LET dt == median_interval(MonoOf(s.battery)) IN detect_settle_end(discharge(s), dt) * dt

Lists == {"battery", "cpu", "gpu", "procs", "display", "net"}
trim_settle(s, secs) ==
  IF secs <= 0 THEN s
  ELSE [f \in DOMAIN s |-> IF f \in Lists THEN SelectSeq(s[f], LAMBDA p : p.mono >= secs) ELSE s[f]]

block_cpu_median(s) == median(ValuesBy(s.cpu, LAMBDA p : p.v))
Mismatch(x, y) == IF x = None \/ y = None THEN None ELSE AbsVal(y - x)
(* The medians of the blocks are themselves ten times their values.        *)
aggregate_cpu_mismatch(as, bs) ==
  LET m == Mismatch(median(as), median(bs)) IN IF m = None THEN None ELSE m \div 10

soc_confounder(a, b) ==
  LET soc(s) == median(ValuesBy(s.battery, LAMBDA p : p.pct))
      d == Mismatch(soc(a), soc(b))
  IN IF d # None /\ d > 50 THEN {<<"soc", None>>} ELSE {}

ProcessNames(s) == UNION {{e.name : e \in Range(p.top)} : p \in Range(s.procs)}

(* Context lines: medians known on both sides, policy, processes.          *)
context_lines(a, b) ==
  LET line(kind, x, y) == IF x = None \/ y = None THEN {} ELSE {<<kind, x, y>>}
      med(s, list, v(_)) == median(ValuesBy(s[list], v))
      both(kind, list, v(_)) == line(kind, med(a, list, v), med(b, list, v))
      adapters == Range(AdapterNames(a)) \cup Range(AdapterNames(b))
  IN both("cpu", "cpu", LAMBDA p : p.v) \cup both("c3", "cpu", LAMBDA p : p.c3)
     \cup both("brightness", "display", LAMBDA p : p.v)
     \cup UNION {LET x == med(a, "gpu", LAMBDA p : AdapterUtil(p, n))
                     y == med(b, "gpu", LAMBDA p : AdapterUtil(p, n))
                 IN IF x = None \/ y = None THEN {} ELSE line("gpu", <<n, x>>, <<n, y>>) : n \in adapters}
     \cup (IF a.policy.dc = b.policy.dc THEN {} ELSE line("policy", a.policy.dc, b.policy.dc))
     \cup (IF a.policy.scheme = b.policy.scheme THEN {}
           ELSE {<<"scheme", a.policy.scheme, b.policy.scheme>>})
     \cup (LET gone == ProcessNames(a) \ ProcessNames(b)
               new == ProcessNames(b) \ ProcessNames(a)
           IN IF gone \cup new = {} THEN {} ELSE {<<"processes", gone, new>>})

compare_medians(a, b, ma, mb, qa, qb) ==
  LET delta == IF ma # None /\ mb # None /\ ma > 0 THEN mb - ma ELSE None
  IN comparison_from_stats(a, b, ma, mb, qa, qb,
       [ab_confidence(qa, qb, delta, Mismatch(block_cpu_median(a), block_cpu_median(b)))
          EXCEPT !.confounders = @ \cup soc_confounder(a, b)],
       context_lines(a, b))
compare_settled(a, b) ==
  compare_medians(a, b, median(discharge(a)), median(discharge(b)), capture_quality(a), capture_quality(b))
compare_sessions_with_settle(a0, b0, settle) ==
  LET trim(s) == trim_settle(s, IF settle > 0 THEN settle ELSE auto_settle_secs(s))
  IN compare_settled(trim(a0), trim(b0))

-----------------------------------------------------------------------------
(* The report.                                                              *)

(* Nearest sample within 2.5 s; absent evidence is not idle.               *)
idle_subset(s) ==
  LET dist(p, t) == AbsVal(p.mono - t)
      near(list, t, v(_)) ==
        LET i == SelectInSeq(list, LAMBDA p : \A q \in Range(list) : dist(p, t) <= dist(q, t))
        IN IF list = <<>> \/ dist(list[i], t) > 5 THEN None ELSE v(list[i])
      busiest(p) == LET known == {a.v : a \in Range(p.adapters)} \ {None}
                    IN IF known = {} THEN None ELSE Max(known)
      idle(t) == LET u == near(s.cpu, t, LAMBDA p : p.v)  g == near(s.gpu, t, busiest)
                 IN u # None /\ u < 10 /\ g # None /\ 10 * g < 5
  IN ValuesBy(SelectSeq(s.battery, LAMBDA p : idle(p.mono)), LAMBDA p : p.dch)

per_battery_health(full, design) ==
  IF full = None \/ design = None \/ design <= 0 THEN None ELSE <<full, design>>

(* One battery's own pair; with several batteries no headline at all.      *)
headline_health(s) ==
  LET each == [i \in DOMAIN s.batteries |-> per_battery_health(s.batteries[i].full, s.batteries[i].design)]
  IN IF (s.count # None /\ s.count > 1) \/ Len(each) > 1 THEN None
     ELSE IF Len(each) = 1 THEN each[1] ELSE per_battery_health(s.full, s.design)
=============================================================================
