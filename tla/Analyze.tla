------------------------------- MODULE Analyze -------------------------------
(***************************************************************************)
(* Range analysis of a loaded session (pf-core/src/analyze.rs): quality,   *)
(* energy, statistics per metric, changes against the context around the   *)
(* range, processes, correlations and candidate regions.  Every operator   *)
(* is a pure function of the session, the sampling interval and the range. *)
(*                                                                         *)
(* Time is in half seconds as in EnergyMath.  A session is a record of the *)
(* point sequences the loader keeps; one metric stands for those that are  *)
(* read in the same way (net_rx_bps for the storage and transmit rates,    *)
(* cpu_utility_pct for the package powers and C3).  A percentile is ten    *)
(* times its value and a ratio is a pair, so that both are exact.          *)
(***************************************************************************)
EXTENDS EnergyMath

CONSTANTS
  MinKnown,        (* samples a change needs on each side (3)              *)
  MinCorrelation,  (* MIN_CORRELATION_SAMPLES (20)                         *)
  MinBucket        (* least length of a bucket of the session (30 s)       *)

Second == 2

mono_wall(s, t) == s.base + t
wall_of(s, p) == IF p.wall > 0 THEN p.wall ELSE mono_wall(s, p.mono)

In(w, r) == r[1] <= w /\ w <= r[2]

(* The points of a list inside a range, by their own stamp or by the       *)
(* session base plus their monotonic time.                                 *)
Stamped(s, list, r) == SelectSeq(list, LAMBDA p : In(wall_of(s, p), r))
Timed(s, list, r) == SelectSeq(list, LAMBDA p : In(mono_wall(s, p.mono), r))

Or(x, y) == IF x # None THEN x ELSE y
AbsVal(x) == IF x < 0 THEN -x ELSE x
Count(list, P(_)) == Len(SelectSeq(list, P))

(* The members of a set by a strict order in which no two are equal.       *)
SortSet(S, Before(_, _)) ==
  [i \in 1..Cardinality(S) |->
     CHOOSE x \in S : Cardinality({y \in S : Before(y, x)}) = i - 1]

-----------------------------------------------------------------------------
(* Statistics (stats.rs and Stat).                                          *)

(* Ten times the percentile of a list; p is in tenths.                     *)
percentile_sorted(vals, p) ==
  IF vals = <<>> THEN None ELSE
  LET between(v, lo, frac) ==
        v[lo + 1] * (10 - frac) + (IF frac = 0 THEN 0 ELSE v[lo + 2] * frac)
      rank == p * (Len(vals) - 1)
  IN between(SortSeq(vals, <), rank \div 10, rank % 10)

median(vals) == percentile_sorted(vals, 5)

KnownOf(ss) == SelectSeq(ss, LAMBDA p : p.v # None)
Values(ss) == LET k == KnownOf(ss) IN [i \in DOMAIN k |-> k[i].v]

Stat(ss) ==
  LET of(vals) ==
        [n |-> Len(ss), known |-> Len(vals), median |-> median(vals),
         p10 |-> percentile_sorted(vals, 1), p90 |-> percentile_sorted(vals, 9),
         min |-> IF vals = <<>> THEN None ELSE Min(Range(vals)),
         max |-> IF vals = <<>> THEN None ELSE Max(Range(vals))]
  IN of(Values(ss))

coverage(st) == IF st.n = 0 THEN None ELSE <<st.known, st.n>>

(* Ratios as pairs with a positive denominator.                            *)
Less(x, y) == x[1] * y[2] < y[1] * x[2]

Sum(f(_), S) == FoldSet(LAMBDA i, acc : acc + f(i), 0, S)
SumOf(vals) == Sum(LAMBDA i : vals[i], DOMAIN vals)
(* A list's deviations from its mean, times its length.                    *)
Centred(vals) ==
  LET sum == SumOf(vals) IN [i \in DOMAIN vals |-> Len(vals) * vals[i] - sum]
Product(x, y, S) == Sum(LAMBDA i : x[i] * y[i], S)

(* The size of the first autocorrelation, as a ratio.                      *)
lag1_autocorr(vals) ==
  LET ratio(numer, denom) ==
        IF Len(vals) < 3 \/ denom = 0 THEN <<0, 1>> ELSE <<Min({AbsVal(numer), denom}), denom>>
      of(d) == ratio(Sum(LAMBDA i : d[i] * d[i+1], 1..(Len(d) - 1)), Product(d, d, DOMAIN d))
  IN of(Centred(vals))

effective_n(n, unique, rho) ==
  IF n < 2 THEN n ELSE
  LET raw == (2 * n * (rho[2] - rho[1]) + (rho[2] + rho[1])) \div (2 * (rho[2] + rho[1]))
  IN Max({1, Min({raw, unique, n})})

unique_count(vals) == Cardinality(Range(vals))

-----------------------------------------------------------------------------
(* The metric catalogue.                                                    *)

Domain == [battery_discharge_w |-> "power", battery_charge_w |-> "power",
           battery_pct |-> "battery", cpu_utility_pct |-> "cpu", gpu_util_pct |-> "gpu",
           display_brightness_pct |-> "display", display_refresh_hz |-> "display",
           net_rx_bps |-> "network"]
Metrics == DOMAIN Domain

First(list) == IF list = <<>> THEN None ELSE Head(list)

(* The samples of every metric.  A GPU point shows its first adapter, and  *)
(* the refresh rate of the first display counts as measured even when it   *)
(* is not known.                                                           *)
metric_series(s) ==
  LET sample(p, v) == [wall |-> wall_of(s, p), v |-> v,
                       p |-> IF v = None THEN "unavailable" ELSE p.prov]
      each(list, v(_)) == [i \in DOMAIN list |-> sample(list[i], v(list[i]))]
  IN [battery_discharge_w |-> each(s.battery, LAMBDA p : p.dch),
      battery_charge_w |-> each(s.battery, LAMBDA p : p.chg),
      battery_pct |-> each(s.battery, LAMBDA p : p.pct),
      cpu_utility_pct |-> each(s.cpu, LAMBDA p : p.v),
      gpu_util_pct |-> each(s.gpu, LAMBDA p :
                         IF p.adapters = <<>> THEN None ELSE Head(p.adapters).v),
      display_brightness_pct |-> each(s.display, LAMBDA p : p.v),
      display_refresh_hz |-> [i \in DOMAIN s.display |->
        [wall |-> mono_wall(s, s.display[i].mono), v |-> First(s.display[i].hz),
         p |-> "measured"]],
      net_rx_bps |-> each(s.net, LAMBDA p : p.v)]

Window(ss, r) == SelectSeq(ss, LAMBDA p : In(p.wall, r))

-----------------------------------------------------------------------------
(* Energy and quality of a range.                                           *)

(* Only samples inside the range; the pair across its edge is not used.    *)
battery_clocks(s, r) == Stamped(s, s.battery, r)

range_energy(s, iv, r) ==
  LET gap == energy_max_gap_secs(iv)
      figures(c, d, g) ==
        [discharge |-> IF d.covered > 0 THEN d.energy ELSE None,
         charge |-> IF g.covered > 0 THEN g.energy ELSE None,
         covered |-> d.covered, unknown |-> d.unknown, unobserved |-> d.unobserved,
         discontinuities |-> d.discontinuities,
         discharge_present |-> \E p \in Range(c) : p.dch # None,
         charge_present |-> \E p \in Range(c) : p.chg # None]
      of(c) == figures(c, integrate_segmented_clocks(c, [i \in DOMAIN c |-> c[i].dch], gap),
                          integrate_segmented_clocks(c, [i \in DOMAIN c |-> c[i].chg], gap))
  IN of(battery_clocks(s, r))

(* When each collector sampled.                                            *)
collector_walls(s) ==
  LET own(list) == [i \in DOMAIN list |-> wall_of(s, list[i])]
      timed(list) == [i \in DOMAIN list |-> mono_wall(s, list[i].mono)]
  IN [battery |-> own(s.battery), cpu |-> own(s.cpu), gpu |-> timed(s.gpu),
      display |-> own(s.display), net |-> own(s.net), proc |-> timed(s.procs),
      os_power |-> timed(s.policy)]

EventKinds == {"marker", "timeout", "recover", "error", "other"}
event_counts(s, r) ==
  [k \in EventKinds |-> Count(s.events, LAMBDA e : In(e.wall, r) /\ e.kind = k)]

range_quality(s, iv, r) ==
  LET of(e, walls, seen) ==
        LET reporting == {c \in DOMAIN walls : seen[c] > 0} IN
        [span |-> r[2] - r[1], energy |-> e, events |-> event_counts(s, r),
         coverage |-> IF e.covered > 0 THEN <<e.covered, e.covered + e.unknown>> ELSE None,
         discontinuities |-> e.discontinuities,
         samples |-> seen["battery"],
         collector_counts |-> [c \in reporting |-> seen[c]],
         stale_collectors |-> {c \in DOMAIN walls : walls[c] # <<>>} \ reporting]
      counted(walls) == [c \in DOMAIN walls |-> Count(walls[c], LAMBDA w : In(w, r))]
  IN of(range_energy(s, iv, r), collector_walls(s), counted(collector_walls(s)))

-----------------------------------------------------------------------------
(* Statistics per metric.                                                   *)

(* Ties go to the stronger evidence.                                       *)
dominant_provenance(ss) ==
  LET n(p) == Count(ss, LAMBDA x : x.p = p)
  IN IF n("measured") > 0 /\ n("measured") >= n("derived")
        /\ n("measured") >= n("estimated") THEN "measured"
     ELSE IF n("derived") > 0 /\ n("derived") >= n("estimated") THEN "derived"
     ELSE IF n("estimated") > 0 THEN "estimated"
     ELSE "unavailable"

domain_breakdown(s, r) ==
  LET m == metric_series(s)
      of(w) == [stat |-> Stat(w), provenance |-> dominant_provenance(w)]
  IN [k \in Metrics |-> of(Window(m[k], r))]

available(domains, d) == \E k \in Metrics : Domain[k] = d /\ domains[k].stat.known > 0

-----------------------------------------------------------------------------
(* The context of a range, and what changed in it.                          *)

(* The last wall time any of the listed collectors reported; GPU points    *)
(* and the power policy do not extend a session.                           *)
session_end_wall(s) ==
  LET walls == UNION {Range(collector_walls(s)[c]) :
                      c \in {"battery", "cpu", "proc", "display", "net"}}
  IN IF walls = {} THEN None ELSE Max(walls)

session_span(s) == <<s.base, Max({s.base, Or(session_end_wall(s), s.base)})>>

(* Windows before and after, as long as the range but ten seconds at least *)
(* and five minutes at most, cut to the session.                           *)
context_windows(s, r) ==
  LET ctx == Min({Max({r[2] - r[1], 10 * Second}), 300 * Second})
      end == Max({r[2], Or(session_end_wall(s), r[2])})
  IN [before |-> <<Max({r[1] - ctx, 0, s.base}), r[1]>>, during |-> r,
      after |-> <<r[2], Min({r[2] + ctx, end})>>]

windowed_metrics(s, r) ==
  LET m == metric_series(s)
      c == context_windows(s, r)
  IN [k \in Metrics |-> [w \in DOMAIN c |-> Stat(Window(m[k], c[w]))]]

(* Thresholds: an absolute one, and one in percent of the reference.       *)
change_defs ==
  [battery_discharge_w |-> [abs |-> 5, rel |-> 10], cpu_utility_pct |-> [abs |-> 50, rel |-> 0],
   gpu_util_pct |-> [abs |-> 50, rel |-> 0], display_brightness_pct |-> [abs |-> 50, rel |-> 0],
   net_rx_bps |-> [abs |-> 10, rel |-> 50]]

(* The change of one metric, None when there is none to report.            *)
classify_change(k, w) ==
  LET ref == Or(w.before.median, w.after.median)
      now == w.during.median
      delta == now - ref
      limit == Max({100 * change_defs[k].abs, AbsVal(ref) * change_defs[k].rel})
      enough(n) == w.before.known >= n /\ w.during.known >= n
      fact(dir, conf, d) == [key |-> k, reference |-> ref, during |-> now, delta |-> d,
                             direction |-> dir, confidence |-> conf]
  IN IF (w.before.n = 0 /\ w.after.n = 0) \/ now = None THEN None
     ELSE IF ref = None THEN
          IF w.during.known < MinKnown THEN None
          ELSE fact("appeared", IF w.during.known >= MinKnown + 2 THEN "medium" ELSE "low", None)
     ELSE IF 100 * AbsVal(delta) < limit \/ ~enough(MinKnown) THEN None
     ELSE
          fact(IF delta > 0 THEN "increased" ELSE "decreased",
               IF 100 * AbsVal(delta) >= 2 * limit /\ enough(MinKnown + 2)
                 THEN "high" ELSE "medium", delta)

(* The power metrics first, then by the confidence's name, backwards, then *)
(* by label.                                                               *)
Label == [battery_discharge_w |-> 1, cpu_utility_pct |-> 2, display_brightness_pct |-> 3,
          gpu_util_pct |-> 4, net_rx_bps |-> 5]
detect_changes(s, r) ==
  LET facts(w) == {classify_change(k, w[k]) : k \in DOMAIN change_defs} \ {None}
      rank(f) == (IF Domain[f.key] = "power" THEN 0 ELSE 100) + Label[f.key]
                 + (CASE f.confidence = "medium" -> 0 [] f.confidence = "low" -> 10
                      [] f.confidence = "high" -> 20)
  IN SortSet(facts(windowed_metrics(s, r)), LAMBDA x, y : rank(x) < rank(y))

(* The last state recorded inside a window.                                *)
LastOf(list) == IF list = <<>> THEN None ELSE Last(list)
policy_last_window(s, r) ==
  LET p == LastOf(Timed(s, s.policy, r)) IN IF p = None THEN None ELSE p.scheme
ac_last_window(s, r) ==
  LET p == LastOf(Stamped(s, s.extra, r)) IN
  IF p = None \/ p.ac = None THEN None ELSE IF p.ac > 0 THEN "AC" ELSE "battery"
top_process_last_window(s, r) ==
  LET p == LastOf(Timed(s, s.procs, r)) IN
  IF p = None \/ p.top = <<>> THEN None ELSE <<Head(p.top).name, Head(p.top).pid>>
refresh_last_window(s, r) ==
  LET p == LastOf(Timed(s, s.display, r)) IN IF p = None THEN None ELSE First(p.hz)

categorical_changes(s, r) ==
  LET at(w) == [scheme |-> policy_last_window(s, w), source |-> ac_last_window(s, w),
                process |-> top_process_last_window(s, w), refresh |-> refresh_last_window(s, w)]
      differs(x) == x.before # x.during \/ (x.after # None /\ x.after # x.during)
      table(c) == LET row(k) == [w \in DOMAIN c |-> c[w][k]]
                  IN [k \in {l \in DOMAIN c.during : differs(row(l))} |-> row(k)]
      states(w) == [k \in DOMAIN w |-> at(w[k])]
  IN table(states(context_windows(s, r)))

-----------------------------------------------------------------------------
(* Processes.                                                               *)

(* One entry per process identifier, named by its first sighting; the      *)
(* table is sorted by the median load, and by identifier.                  *)
process_analysis(s, r) ==
  LET sighted(t) == [j \in DOMAIN t.top |-> t.top[j] @@ [at |-> mono_wall(s, t.mono)]]
      entry(pid, of, n) ==
        [pid |-> pid, name |-> Head(of).name, median |-> median(Values(of)),
         presence |-> Len(of), ticks |-> n, first |-> Head(of).at, last |-> Last(of).at]
      table(all, n) == {entry(pid, SelectSeq(all, LAMBDA e : e.pid = pid), n) :
                          pid \in {e.pid : e \in Range(all)}}
      load(e) == IF e.median = None THEN -1 ELSE e.median
      before(x, y) == load(x) > load(y) \/ (load(x) = load(y) /\ x.pid < y.pid)
      lacking(told) == IF told = {} THEN None
                       ELSE \E p \in told : (p.inaccessible # None /\ p.inaccessible > 0)
                                            \/ p.truncated = TRUE
      sorted(S) == SortSet(S, before)
      of(ticks) ==
        [ticks |-> Len(ticks),
         entries |-> sorted(table(FlattenSeq([i \in DOMAIN ticks |-> sighted(ticks[i])]), Len(ticks))),
         incomplete |-> lacking({p \in Range(ticks) : p.inaccessible # None \/ p.truncated # None})]
  IN of(Timed(s, s.procs, r))

-----------------------------------------------------------------------------
(* Correlations.                                                            *)

(* The median step between known samples, the upper one of an even number. *)
UpperMiddle(vals) == IF vals = <<>> THEN None ELSE SortSeq(vals, <)[Len(vals) \div 2 + 1]

median_dt(ss) ==
  LET steps(k) == [i \in 1..(Len(k) - 1) |-> k[i+1].wall - k[i].wall]
  IN Or(UpperMiddle(steps(KnownOf(ss))), 0)

(* Each known x with the nearer of the two last y not after it (the first  *)
(* y stands in before there is one), when that is near enough.  The cursor *)
(* j never moves back: it stands where the latest x so far has taken it.   *)
cursor(ys, latest) == Max({k \in 1..Len(ys) : \A m \in 2..k : ys[m].wall <= latest})

matched(ys, p, tol, j) ==
  LET d(k) == AbsVal(ys[k].wall - p.wall)
      near == {k \in {Max({1, j - 1}), j} : d(k) <= tol}
  IN IF near = {} THEN None
     ELSE ys[CHOOSE k \in near : \A m \in near : d(k) < d(m) \/ (d(k) = d(m) /\ k <= m)].v

align_known(xs, ys, tol) ==
  LET at(i) == matched(ys, xs[i], tol, cursor(ys, Max({xs[l].wall : l \in 1..i})))
  IN IF ys = <<>> THEN <<>>
     ELSE SelectSeq([i \in DOMAIN xs |-> <<xs[i].v, at(i)>>], LAMBDA e : e[2] # None)

align(x, y, tol) == align_known(KnownOf(x), KnownOf(y), tol)

(* The coefficient as <<numerator, product of the variances>>: its square  *)
(* is the numerator's over that product.                                   *)
pearson(x, y) ==
  LET of(a, b) == <<Product(a, b, DOMAIN a), Product(a, a, DOMAIN a) * Product(b, b, DOMAIN b)>>
      ratio(p) == IF Len(x) < 3 \/ p[2] = 0 THEN None ELSE p
  IN ratio(of(Centred(x), Centred(y)))

strength(r) ==
  LET atLeast(tenths) == 100 * r[1] * r[1] >= tenths * tenths * r[2]
  IN IF r = None THEN "insufficient" ELSE IF atLeast(7) THEN "strong"
     ELSE IF atLeast(4) THEN "moderate"   ELSE IF atLeast(2) THEN "weak" ELSE "negligible"

correlation_pair(x, y, tol, broken) ==
  LET none(m) == [n |-> m, effective_n |-> 0, r |-> None, strength |-> "insufficient"]
      greater(p, q) == IF Less(p, q) THEN q ELSE p
      told(n, r, eff) == [n |-> n, r |-> r, strength |-> strength(r), effective_n |-> eff]
      of(xv, yv) == told(Len(xv), pearson(xv, yv),
                         effective_n(Len(xv), Min({unique_count(xv), unique_count(yv)}),
                                     greater(lag1_autocorr(xv), lag1_autocorr(yv))))
      checked(kx, ky, cx, cy, pairs) ==
        IF kx < 3 \/ ky < 3 THEN none(0)
        ELSE IF cx > 0 /\ cy > 0 /\ (cx > 3 * cy \/ cy > 3 * cx) THEN none(0)
        ELSE IF broken \/ Len(pairs) < MinCorrelation
                \/ 2 * Len(pairs) < Min({kx, ky}) THEN none(Len(pairs))
        ELSE of([i \in DOMAIN pairs |-> pairs[i][1]], [i \in DOMAIN pairs |-> pairs[i][2]])
  IN checked(Len(KnownOf(x)), Len(KnownOf(y)), median_dt(x), median_dt(y), align(x, y, tol))

(* Power against each activity; a discontinuity forbids a coefficient.     *)
correlation_table(m, r, broken) ==
  LET tol == Max({(3 * median_dt(m.battery_discharge_w)) \div 2, 2 * Second})
  IN [k \in {"cpu_utility_pct", "gpu_util_pct", "display_brightness_pct", "net_rx_bps"} |->
        correlation_pair(Window(m.battery_discharge_w, r), Window(m[k], r), tol, broken)]

correlations(s, iv, r) ==
  correlation_table(metric_series(s), r, range_energy(s, iv, r).discontinuities > 0)

-----------------------------------------------------------------------------
(* Candidate regions of a whole session.                                    *)

(* Mutant: a sample goes into the bucket after its own.                    *)
bucketize_late(ss, span, size) ==
  LET count == (span[2] - span[1] + size - 1) \div size
      of(i) == SelectSeq(ss, LAMBDA p : In(p.wall, span) /\ (p.wall - span[1]) \div size + 2 = i)
  IN [i \in 1..count |->
        [start |-> span[1] + (i - 1) * size, end |-> Min({span[1] + i * size, span[2]}),
         stat |-> Stat(of(i))]]

(* Half-open buckets: a sample at the very end of the session is in none.  *)
bucketize(ss, span, size) ==
  LET count == (span[2] - span[1] + size - 1) \div size
      of(i) == SelectSeq(ss, LAMBDA p : /\ In(p.wall, span) /\ p.wall < span[2]
                                        /\ (p.wall - span[1]) \div size = i - 1)
  IN [i \in 1..count |->
        [start |-> span[1] + (i - 1) * size, end |-> Min({span[1] + i * size, span[2]}),
         stat |-> Stat(of(i))]]

Cut(list, n) == SubSeq(list, 1, Min({n, Len(list)}))

(* A rise of at least rise, and at least rel percent of a base that is not *)
(* zero.                                                                   *)
Rises(d, base, rise, rel) == d >= rise /\ (base = 0 \/ 100 * d >= rel * AbsVal(base))

(* The four highest peaks and the two steepest rises between neighbouring  *)
(* buckets, where they stand out; values are in tenths.                    *)
highest(bs) ==
  SortSet({i \in DOMAIN bs : bs[i].stat.known >= 2}, LAMBDA i, j :
    IF bs[i].stat.max # bs[j].stat.max THEN bs[i].stat.max > bs[j].stat.max ELSE i < j)
steepest(bs, rise, rel) ==
  LET up(i) == bs[i].stat.median - bs[i-1].stat.median
  IN SortSet({i \in 2..Len(bs) : /\ bs[i].stat.known > 0 /\ bs[i-1].stat.known > 0
                                 /\ Rises(up(i), bs[i-1].stat.median, rise, rel)},
             LAMBDA i, j : IF up(i) # up(j) THEN up(i) > up(j) ELSE i < j)
scan(ss, span, size, domain, rise, rel) ==
  LET region(bs, kind, i, j, score) == [kind |-> kind, domain |-> domain, start |-> bs[i].start,
                                        end |-> bs[j].end, score |-> score]
      regions(bs, peaks, steep) ==
        [i \in DOMAIN peaks |-> region(bs, "peak", peaks[i], peaks[i], 10 * bs[peaks[i]].stat.max)]
        \o [i \in DOMAIN steep |-> region(bs, "sustained_increase", steep[i] - 1, steep[i],
                                   bs[steep[i]].stat.median - bs[steep[i] - 1].stat.median)]
      over(bs, overall) ==
        IF overall = None THEN <<>>
        ELSE regions(bs, SelectSeq(Cut(highest(bs), 4), LAMBDA i :
                                     Rises(10 * bs[i].stat.max - overall, overall, rise, rel)),
                     Cut(steepest(bs, rise, rel), 2))
  IN over(bucketize(ss, span, size), median(Values(ss)))

(* The best 24 candidates.  A discontinuity is placed by its monotonic     *)
(* time from the session's start.                                          *)
breaks(span, c, steps) ==
  LET at(i) == span[1] + c[i+1].mono
      lost(i) == Unobserved(c[i+1].mono - c[i].mono, WallStep(c[i], c[i+1]))
  IN [i \in DOMAIN steps |-> [kind |-> "discontinuity", domain |-> "power",
        start |-> at(steps[i]) - Second, end |-> at(steps[i]) + Second,
        score |-> 5 * Max({lost(steps[i]), Second})]]

interesting_regions(s, iv) ==
  LET scans(m, span, size) == scan(m.battery_discharge_w, span, size, "power", 10, 25)
                              \o scan(m.cpu_utility_pct, span, size, "cpu", 100, 20)
                              \o scan(m.gpu_util_pct, span, size, "gpu", 50, 20)
      markers(marks) == [i \in DOMAIN marks |-> [kind |-> "marker", domain |-> "events",
                           start |-> marks[i].wall, end |-> marks[i].wall, score |-> 500]]
      lostIn(span, c) == breaks(span, c, SortSet({d[1] : d \in discontinuities(c, energy_max_gap_secs(iv))}, <))
      best(found) ==
        LET better(i, j) == IF found[i].score # found[j].score THEN found[i].score > found[j].score
                            ELSE IF found[i].start # found[j].start THEN found[i].start < found[j].start
                            ELSE i < j
            order == SortSet(DOMAIN found, better)
        IN [i \in DOMAIN Cut(order, 24) |-> found[order[i]]]
      of(span) ==
        IF span[1] = span[2] THEN <<>>
        ELSE best(scans(metric_series(s), span, Max({(span[2] - span[1]) \div 60, MinBucket}))
                  \o markers(SelectSeq(s.events, LAMBDA e : e.kind = "marker"))
                  \o lostIn(span, battery_clocks(s, span)))
  IN of(session_span(s))

-----------------------------------------------------------------------------
analyze_range(s, iv, from, to) ==
  LET r == <<Min({from, to}), Max({from, to})>>
  IN [range |-> r, quality |-> range_quality(s, iv, r), energy |-> range_energy(s, iv, r),
      domains |-> domain_breakdown(s, r), processes |-> process_analysis(s, r),
      changes |-> detect_changes(s, r), categorical |-> categorical_changes(s, r),
      correlations |-> correlations(s, iv, r)]
=============================================================================
