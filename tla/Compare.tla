------------------------------- MODULE Compare -------------------------------
(***************************************************************************)
(* Comparison of two ranges (pf-core/src/compare.rs).  Both sides go       *)
(* through Analyze; this layer adds the deltas, how far each metric can be *)
(* compared at all, how reliable a difference is, and the caveats.         *)
(*                                                                         *)
(* A comparability level is its rank: 0 compatible, 1 with caveats, 2      *)
(* weak, 3 not comparable.  Wording is left out; a caveat is its scope,    *)
(* its severity and the side it names.                                     *)
(***************************************************************************)
EXTENDS Analyze

CONSTANTS
  MinEffective,   (* MIN_EFFECTIVE_N (5); twice it is the strong limit     *)
  MaxRows         (* process rows kept (200)                               *)

Compatible == 0
Caveats == 1
Weak == 2
NotComparable == 3

(* The curated metrics: the threshold in tenths, and whether a percentage  *)
(* of it makes sense.                                                      *)
HEADLINE ==
  [battery_discharge_w |-> [abs |-> 5, relative |-> TRUE],
   battery_pct |-> [abs |-> 10, relative |-> FALSE],
   cpu_utility_pct |-> [abs |-> 50, relative |-> FALSE],
   gpu_util_pct |-> [abs |-> 50, relative |-> FALSE],
   display_brightness_pct |-> [abs |-> 50, relative |-> FALSE],
   net_rx_bps |-> [abs |-> 10, relative |-> TRUE]]
curated_metric_keys == DOMAIN HEADLINE

WEAK_COVERAGE == <<1, 2>>
LOW_COVERAGE == <<7, 10>>
Below(c, limit) == c # None /\ Less(c, limit)

(* The larger of two positive numbers is more than p/q times the smaller.  *)
RatioOver(x, y, p, q) == q * x > p * y \/ q * y > p * x
CadenceDiffers(x, y) == x # None /\ y # None /\ x > 0 /\ y > 0 /\ RatioOver(x, y, 3, 1)

Delta(x, y) == IF x = None \/ y = None THEN None ELSE y - x

-----------------------------------------------------------------------------
(* One side: a session, its interval and a range that may be open.         *)

resolved_range(x) ==
  LET ordered(from, to) == <<Min({from, to}), Max({from, to})>>
      within(span) == ordered(Or(x.from, span[1]), Or(x.to, span[2]))
  IN within(session_span(x.s))

(* The median step of the battery samples' monotonic times.                *)
effective_cadence(s, r) ==
  LET steps(b) == [i \in 1..(Len(b) - 1) |-> b[i+1].mono - b[i].mono]
  IN UpperMiddle(steps(Stamped(s, s.battery, r)))

range_context(s, r) ==
  LET screen == LastOf(Timed(s, s.display, r))
      gpu == LastOf(Timed(s, s.gpu, r))
  IN [power_scheme |-> policy_last_window(s, r), power_source |-> ac_last_window(s, r),
      refresh_hz |-> refresh_last_window(s, r),
      display_count |-> IF screen = None THEN None ELSE Len(screen.hz),
      gpu_adapters |-> IF gpu = None THEN <<>>
                       ELSE [i \in DOMAIN gpu.adapters |-> gpu.adapters[i].name],
      cadence |-> effective_cadence(s, r)]

observed_collectors(s) ==
  {c \in DOMAIN collector_walls(s) : collector_walls(s)[c] # <<>>}

(* What the footer says of a recovery, None when it says nothing.          *)
session_recovered(s) == s.recovered

side_over(s, r, an) ==
  [range |-> r, duration |-> r[2] - r[1], analysis |-> an, s |-> s,
   coverage |-> an.quality.coverage, energy |-> an.energy, quality |-> an.quality,
   context |-> range_context(s, r), series |-> metric_series(s)]

side_of(x, r) == side_over(x.s, r, analyze_range(x.s, x.iv, r[1], r[2]))
Side(x) == side_of(x, resolved_range(x))

-----------------------------------------------------------------------------
(* Evidence for one metric.                                                 *)

spread_of(st) == IF st.p10 = None THEN None ELSE AbsVal(st.p90 - st.p10)

reliability_input(x, k) ==
  LET of(vals, st) ==
        [effective_n |-> effective_n(Len(vals), unique_count(vals), lag1_autocorr(vals)),
         known |-> Len(vals), spread |-> spread_of(st), coverage |-> coverage(st)]
      over(w) == of(Values(w), Stat(w))
  IN over(Window(x.series[k], x.range))

evidence_line(pa, pb) == IF pa = pb THEN <<pa>> ELSE <<pa, pb>>

(* A state that is known on both sides and differs.                        *)
power_source_mismatch(a, b) ==
  a.power_source # None /\ b.power_source # None /\ a.power_source # b.power_source

charging(x) == x.energy.charge_present /\ ~x.energy.discharge_present
discharging(x) == x.energy.discharge_present /\ ~x.energy.charge_present

charge_mismatch(k, a, b) ==
  /\ k = "battery_discharge_w"
  /\ (charging(a) /\ discharging(b)) \/ (discharging(a) /\ charging(b))

(* Mutant: only the first side's coverage counts.                          *)
coverage_level_first(sa, sb) ==
  LET c == coverage(sa)
  IN IF Below(c, WEAK_COVERAGE) THEN Weak ELSE IF Below(c, LOW_COVERAGE) THEN Caveats ELSE Compatible
coverage_level(sa, sb) ==
  LET ca == coverage(sa)
      cb == coverage(sb)
      both == ca # None /\ cb # None
  IN IF both /\ (Less(ca, WEAK_COVERAGE) \/ Less(cb, WEAK_COVERAGE)) THEN Weak
     ELSE IF both /\ (Less(ca, LOW_COVERAGE) \/ Less(cb, LOW_COVERAGE)) THEN Caveats
     ELSE Compatible

(* Is a difference more than the spread of the samples?                    *)
reliability(k, delta, ra, rb) ==
  LET eff == Min({ra.effective_n, rb.effective_n})
      spread == IF ra.spread = None THEN rb.spread
                ELSE IF rb.spread = None THEN ra.spread ELSE Max({ra.spread, rb.spread})
      noise == Max({HEADLINE[k].abs, Or(spread, 0)})
      weak == /\ ra.coverage # None /\ rb.coverage # None
              /\ Less(ra.coverage, WEAK_COVERAGE) \/ Less(rb.coverage, WEAK_COVERAGE)
  IN [noise |-> noise,
      effect |-> IF delta # None /\ spread # None /\ spread > 0
                   THEN <<AbsVal(delta), spread>> ELSE None,
      level |-> IF delta = None THEN "insufficient"
                ELSE IF eff < MinEffective \/ weak THEN "insufficient"
                ELSE IF AbsVal(delta) < noise THEN "within_noise"
                ELSE IF eff < 2 * MinEffective THEN "weak_evidence"
                ELSE "distinguishable"]

Unreliable == [noise |-> None, effect |-> None, level |-> "insufficient"]

judge_metric(k, a, b, ra, rb) ==
  LET ma == a.analysis.domains[k]
      mb == b.analysis.domains[k]
      delta == Delta(ma.stat.median, mb.stat.median)
      is_power == Domain[k] \in {"power", "battery"}
      level == IF is_power /\ power_source_mismatch(a.context, b.context) THEN NotComparable
               ELSE IF is_power /\ charge_mismatch(k, a, b) THEN NotComparable
               ELSE IF ma.stat.known = 0 \/ mb.stat.known = 0 THEN NotComparable
               ELSE coverage_level(ma.stat, mb.stat)
  IN [a |-> ma.stat.median, b |-> mb.stat.median, delta |-> delta,
      comparability |-> level,
      reliability |-> IF level = NotComparable THEN Unreliable ELSE reliability(k, delta, ra, rb),
      direction |-> IF ma.stat.known = 0 THEN "missing_a"
                    ELSE IF mb.stat.known = 0 THEN "missing_b"
                    ELSE IF AbsVal(delta) < HEADLINE[k].abs THEN "unchanged"
                    ELSE IF delta > 0 THEN "increased"
                    ELSE "decreased",
      relative |-> IF /\ delta # None /\ HEADLINE[k].relative
                      /\ AbsVal(ma.stat.median) >= HEADLINE[k].abs
                     THEN <<delta, ma.stat.median>> ELSE None,
      samples |-> <<ra.known, rb.known>>, coverage |-> <<ra.coverage, rb.coverage>>,
      evidence |-> evidence_line(ma.provenance, mb.provenance)]

compare_metric(k, a, b) ==
  judge_metric(k, a, b, reliability_input(a, k), reliability_input(b, k))

-----------------------------------------------------------------------------
(* The other parts of a comparison.                                         *)

(* Total energy when the durations are alike, else the average power.      *)
energy_comparison(a, b) ==
  LET similar == \/ a.duration = 0 \/ b.duration = 0
                 \/ ~RatioOver(a.duration, b.duration, 3, 2)
      per(e, t) == IF e.discharge = None \/ t <= 0 THEN None ELSE <<e.discharge, t>>
  IN [total |-> <<a.energy.discharge, b.energy.discharge>>,
      average |-> <<per(a.energy, a.energy.covered), per(b.energy, b.energy.covered)>>,
      normalized |-> <<per(a.energy, a.duration), per(b.energy, b.duration)>>,
      similar |-> similar,
      basis |-> IF similar THEN "total_energy" ELSE "average_power"]

domain_comparisons(a, b) ==
  [d \in Range(Domain) |->
    LET da == a.analysis.domains
        db == b.analysis.domains
    IN [available |-> <<available(da, d), available(db, d)>>,
        metrics |-> [k \in {m \in Metrics : Domain[m] = d /\ da[m].stat.known + db[m].stat.known > 0}
                      |-> Delta(da[k].stat.median, db[k].stat.median)]]]

normalize_name(n) == n[1]      (* lower case, without .exe                 *)

(* The processes of a side, by normalized name.                            *)
aggregate_processes(pa) ==
  LET named(x) == SelectSeq(pa.entries, LAMBDA e : normalize_name(e.name) = x)
      loads(x) == {e.median : e \in Range(named(x))} \ {None}
  IN [x \in {normalize_name(e.name) : e \in Range(pa.entries)} |->
       [pids |-> {e.pid : e \in Range(named(x))},
        cpu |-> IF loads(x) = {} THEN None ELSE Max(loads(x)),
        presence |-> Sum(LAMBDA i : named(x)[i].presence, DOMAIN named(x))]]

process_rows(ma, mb) ==
  LET row(x) == [identity |-> x,
                 delta |-> IF x \in DOMAIN ma \cap DOMAIN mb
                             THEN Delta(ma[x].cpu, mb[x].cpu) ELSE None,
                 presence |-> CASE x \notin DOMAIN mb -> "a_only"
                                [] x \notin DOMAIN ma -> "b_only" [] OTHER -> "both",
                 counts |-> <<IF x \in DOMAIN ma THEN ma[x].presence ELSE 0,
                              IF x \in DOMAIN mb THEN mb[x].presence ELSE 0>>,
                 ambiguous |-> <<x \in DOMAIN ma /\ Cardinality(ma[x].pids) > 1,
                                 x \in DOMAIN mb /\ Cardinality(mb[x].pids) > 1>>]
      size(r) == IF r.delta = None THEN 0 ELSE AbsVal(r.delta)
  IN SortSet({row(x) : x \in DOMAIN ma \cup DOMAIN mb}, LAMBDA x, y :
       IF (x.presence = "both") # (y.presence = "both") THEN x.presence = "both"
       ELSE size(x) > size(y) \/ (size(x) = size(y) /\ x.identity < y.identity))

process_comparison(a, b) ==
  [incomplete |-> a.incomplete = TRUE \/ b.incomplete = TRUE, ticks |-> <<a.ticks, b.ticks>>,
   rows |-> Cut(process_rows(aggregate_processes(a), aggregate_processes(b)), MaxRows)]

categorical_differences(a, b) ==
  LET values(x) == [power_scheme |-> x.context.power_scheme, power_source |-> x.context.power_source,
                    refresh_hz |-> x.context.refresh_hz, display_count |-> x.context.display_count,
                    gpu_adapters |-> IF x.context.gpu_adapters = <<>> THEN None ELSE x.context.gpu_adapters,
                    cadence |-> x.context.cadence,
                    collectors |-> DOMAIN x.quality.collector_counts]
      state(x, y) == IF x = None \/ y = None THEN "unavailable" ELSE IF x = y THEN "same" ELSE "changed"
  IN [k \in DOMAIN values(a) |-> state(values(a)[k], values(b)[k])]

correlation_comparison(a, b) ==
  LET usable(c) == c.r # None /\ c.strength # "insufficient"
  IN [k \in DOMAIN a |-> [n |-> <<a[k].n, b[k].n>>, comparable |-> usable(a[k]) /\ usable(b[k])]]

(* Which comparisons are qualified, and why.                               *)
caveats(a, b, energy, processes, metrics) ==
  LET sides == {<<"A", a>>, <<"B", b>>}
      some(P(_)) == P(a) \/ P(b)
      note(scope, severity, side) == <<scope, severity, side>>
      one(P, c) == IF P THEN {c} ELSE {}
      poor(limit) == Below(a.coverage, limit) \/ Below(b.coverage, limit)
  IN one(poor(WEAK_COVERAGE), note("coverage", "critical", "both"))
     \cup one(poor(LOW_COVERAGE) /\ ~poor(WEAK_COVERAGE), note("coverage", "warning", "both"))
     \cup {note("discontinuity", "warning", x[1]) : x \in {y \in sides : y[2].energy.discontinuities > 0}}
     \cup {note("stale", "warning", x[1]) : x \in {y \in sides : y[2].quality.stale_collectors # {}}}
     \cup {note("timeouts", "info", x[1]) : x \in {y \in sides : y[2].quality.events["timeout"] > 0}}
     \cup one(~energy.similar, note("duration", "warning", "both"))
     \cup one(CadenceDiffers(a.context.cadence, b.context.cadence), note("cadence", "warning", "both"))
     \cup one(processes.incomplete, note("processes", "warning", "both"))
     \cup one(\E k \in DOMAIN metrics : metrics[k].comparability = NotComparable,
              note("comparison", "warning", "both"))
     \cup one(a.energy.charge_present /\ b.energy.charge_present, note("battery", "info", "both"))

-----------------------------------------------------------------------------
(* The side named as the weaker one: the lower coverage, and the one whose *)
(* coverage is known when the other's is not.                              *)
weakest_side(ca, cb) ==
  IF ca = None /\ cb = None THEN "unknown"
  ELSE IF cb = None THEN "A"
  ELSE IF ca = None THEN "B"
  ELSE IF Less(ca, cb) THEN "A"
  ELSE IF Less(cb, ca) THEN "B"
  ELSE "equal"

(* The findings about the comparison as a whole, as <<metric, level>>.     *)
wide_findings(a, b) ==
  LET one(P, f) == IF P THEN {f} ELSE {}
      ra == session_recovered(a.s)
      recovered == Or(ra, session_recovered(b.s))
  IN one(observed_collectors(a.s) # observed_collectors(b.s), <<"collectors", Caveats>>)
     \cup one(Below(a.coverage, WEAK_COVERAGE) \/ Below(b.coverage, WEAK_COVERAGE), <<"coverage", Weak>>)
     \cup one(CadenceDiffers(a.context.cadence, b.context.cadence), <<"cadence", Caveats>>)
     \cup one(power_source_mismatch(a.context, b.context), <<"source", NotComparable>>)
     \cup one(/\ a.duration > 0 /\ b.duration > 0 /\ RatioOver(a.duration, b.duration, 3, 2),
              <<"duration", Caveats>>)
     \cup one(recovered = TRUE, <<"recovered", Caveats>>)

(* The metrics that differ, most relevant first: delta over noise, then    *)
(* the delta, then the label.                                              *)
ranked_changes(metrics) ==
  LET rank == {k \in DOMAIN metrics : /\ metrics[k].comparability # NotComparable
                                      /\ metrics[k].reliability.level # "insufficient"}
      d(k) == AbsVal(metrics[k].delta)
      n(k) == metrics[k].reliability.noise
      name(k) == IF k = "battery_pct" THEN 0 ELSE Label[k]
  IN SortSet(rank, LAMBDA x, y :
       IF d(x) * n(y) # d(y) * n(x) THEN d(x) * n(y) > d(y) * n(x)
       ELSE d(x) > d(y) \/ (d(x) = d(y) /\ name(x) < name(y)))

metric_comparisons(a, b) ==
  [k \in {x \in curated_metric_keys : a.analysis.domains[x].stat.known > 0
                                      \/ b.analysis.domains[x].stat.known > 0}
    |-> compare_metric(k, a, b)]

comparison(a, b, metrics, wide, energy, processes) ==
  LET levels == {f[2] : f \in wide} \cup {metrics[k].comparability : k \in DOMAIN metrics}
      none == DOMAIN metrics # {} /\ \A k \in DOMAIN metrics : metrics[k].comparability = NotComparable
  IN [weakest |-> weakest_side(a.coverage, b.coverage), energy |-> energy, metrics |-> metrics,
      ranked |-> ranked_changes(metrics), domains |-> domain_comparisons(a, b),
      processes |-> processes, categorical |-> categorical_differences(a, b),
      correlations |-> correlation_comparison(a.analysis.correlations, b.analysis.correlations),
      distributions |-> [k \in DOMAIN metrics |-> <<a.analysis.domains[k].stat, b.analysis.domains[k].stat>>],
      caveats |-> caveats(a, b, energy, processes, metrics),
      findings |-> wide \cup {<<k, metrics[k].comparability>> :
                              k \in {x \in DOMAIN metrics : metrics[x].comparability # Compatible}},
      overall |-> IF none THEN NotComparable ELSE Max(levels \cup {Compatible})]

build(a, b) ==
  comparison(a, b, metric_comparisons(a, b), wide_findings(a, b), energy_comparison(a, b),
             process_comparison(a.analysis.processes, b.analysis.processes))

compare_ranges(a, b) == build(Side(a), Side(b))
=============================================================================
