------------------------ MODULE ExperimentAnalysis ------------------------
(***************************************************************************)
(* The run-level statistics of an experiment (pf-core/src/experiment.rs).  *)
(* Every run is reduced to one outcome by the range analysis; groups are   *)
(* compared over those outcomes only.                                      *)
(*                                                                         *)
(* A run is [id, group, pair, included, x] with x the input Compare takes. *)
(* Medians are ten times their value (percentile_sorted), so a group's     *)
(* spread has one factor of ten more than a difference of medians.  The    *)
(* bootstrap interval is left out but for the condition under which there  *)
(* is one; wording is left out.                                            *)
(***************************************************************************)
EXTENDS Compare

CONSTANT MinRuns                 (* MIN_USEFUL_RUNS_PER_GROUP (2)          *)

Groups == {"baseline", "treatment"}
SHORT_RUN == 5 * Second

-----------------------------------------------------------------------------
(* Reduction of a run.                                                      *)

validate_run(known, cov, duration, disc, timeouts) ==
  LET severe == known = 0 \/ cov = None \/ Below(cov, WEAK_COVERAGE) \/ duration < SHORT_RUN
  IN IF severe THEN "invalid"
     ELSE IF Below(cov, LOW_COVERAGE) \/ disc > 0 \/ timeouts > 0 THEN "accepted_with_caveats"
     ELSE "accepted"

reduce_side(run, metric, side) ==
  LET an == side.analysis
      primary == an.domains[metric].stat
      timeouts == an.quality.events["timeout"]
  IN [id |-> run.id, group |-> run.group, pair |-> run.pair, included |-> run.included,
      duration |-> side.duration, primary |-> primary.median, coverage |-> side.coverage,
      discontinuities |-> an.quality.discontinuities, context |-> side.context,
      collectors |-> DOMAIN an.quality.collector_counts,
      processes |-> [i \in DOMAIN an.processes.entries |-> an.processes.entries[i].name],
      secondary |-> [k \in curated_metric_keys \ {metric} |-> an.domains[k].stat.median],
      status |-> validate_run(primary.known, side.coverage, side.duration,
                              an.quality.discontinuities, timeouts)]

reduce_run(run, metric) == reduce_side(run, metric, Side(run.x))

-----------------------------------------------------------------------------
(* Group summaries.                                                         *)

(* Mutant: excluded runs count as well.                                    *)
included_all(runs) == runs
included(runs) == SelectSeq(runs, LAMBDA r : r.included)

group_values(runs, g) ==
  Values([i \in DOMAIN included(runs) |->
    [v |-> IF included(runs)[i].group = g THEN included(runs)[i].primary ELSE None]])

(* The median absolute deviation.                                          *)
Deviation(vals) == median([i \in DOMAIN vals |-> AbsVal(10 * vals[i] - median(vals))])

summarize(g, runs) ==
  LET of(in, vals) ==
        [total |-> Count(runs, LAMBDA r : r.group = g), included |-> Len(in),
         with_primary |-> Len(vals), invalid |-> Count(in, LAMBDA r : r.status = "invalid"),
         median |-> median(vals), spread |-> Deviation(vals)]
  IN of(SelectSeq(included(runs), LAMBDA r : r.group = g), group_values(runs, g))

(* Pairs with both sides; a pair that did not move has the positive sign.  *)
paired_report(runs) ==
  LET side(in, p, g) == SelectSeq(in, LAMBDA r : r.pair = p /\ r.group = g)
      ids(in) == {p \in {r.pair : r \in Range(in)} \ {None} : \A g \in Groups : side(in, p, g) # <<>>}
      deltas(in, order) == [i \in DOMAIN order |-> Head(side(in, order[i], "treatment")).primary
                                                   - Head(side(in, order[i], "baseline")).primary]
      report(ds) == [usable |-> Len(ds), median |-> median(ds), spread |-> Deviation(ds),
                     consistent |-> /\ Len(ds) >= 2
                                    /\ \A i \in DOMAIN ds : (ds[i] >= 0) = (median(ds) >= 0)]
      of(in) == report(deltas(in, SortSet(ids(in), <)))
  IN of(SelectSeq(included(runs), LAMBDA r : r.primary # None))

-----------------------------------------------------------------------------
(* Noise, effect, verdict.                                                  *)

noise_assessment(b, t, paired) ==
  LET usable == paired # None /\ paired.usable >= 2
      estimate == IF usable THEN paired.spread
                  ELSE IF b.spread # None /\ t.spread # None THEN Max({b.spread, t.spread})
                  ELSE Or(b.spread, t.spread)
  IN [estimate |-> estimate,
      source |-> IF paired # None /\ ~usable THEN "insufficient"
                 ELSE IF estimate # None THEN "run_to_run" ELSE "none"]

effect_estimate(b, t, noise, paired) ==
  LET delta == Delta(b.median, t.median)
  IN [delta |-> delta,
      relative |-> IF delta = None \/ b.median = 0 THEN None ELSE <<delta, b.median>>,
      direction |-> CASE delta = None \/ delta = 0 -> "unchanged"
                      [] delta > 0 -> "higher" [] OTHER -> "lower",
      size |-> IF delta # None /\ noise.estimate # None /\ noise.estimate > 0
                 THEN <<10 * AbsVal(delta), noise.estimate>> ELSE None,
      interval |-> \/ paired # None /\ paired.usable >= 3
                   \/ b.with_primary >= 3 /\ t.with_primary >= 3,
      paired |-> paired # None /\ paired.usable >= 2]

classify(b, t, effect, noise, paired, critical, invalid, missing) ==
  LET n == Min({b.with_primary, t.with_primary})
      d == 10 * AbsVal(effect.delta)
      consistent == paired # None /\ paired.consistent
      flawed == invalid > 0 \/ missing > 0
  IN IF critical THEN <<"confounded", "confounded">>
     ELSE IF n < MinRuns \/ n = 0 THEN <<"insufficient", "insufficient">>
     ELSE IF d = 0 THEN <<"no_difference_detected",
                               IF flawed THEN "valid_with_caveats" ELSE "valid">>
     ELSE IF noise.estimate = None THEN <<"possible_difference", "weak">>
     ELSE IF noise.estimate = 0 THEN <<"consistent_difference", "weak">>
     ELSE IF d <= noise.estimate THEN <<"within_noise", "weak">>
     ELSE IF d >= 2 * noise.estimate /\ (consistent \/ n >= 3) THEN
          <<"consistent_difference", "valid_with_caveats">>
     ELSE <<"possible_difference", "weak">>

-----------------------------------------------------------------------------
(* What else differed between the runs.                                     *)

(* One value on every run; "unknown" as soon as one run did not record it. *)
push_variation(vals) ==
  IF None \in vals THEN "unknown" ELSE IF Cardinality(vals) <= 1 THEN "controlled" ELSE "changed"

Spread(vals, p, q) == vals # {} /\ Min(vals) > 0 /\ q * Max(vals) > p * Min(vals)

confounders(runs) ==
  LET in == Range(included(runs))
      vary(of(_)) == push_variation({of(r) : r \in in})
      cadences == {r.context.cadence : r \in in}
      known == {r.coverage : r \in in}
      apart(x, y) == 5 * (x[1] * y[2] - y[1] * x[2]) > x[2] * y[2]
      named == UNION {Range(r.processes) : r \in in}
      (* one mention per process identifier, not one per run *)
      mentions(n) == Sum(LAMBDA r : Count(r.processes, LAMBDA x : x = n), in)
      when(P) == IF P THEN "changed" ELSE "controlled"
  IN [power_source |-> vary(LAMBDA r : r.context.power_source),
      power_scheme |-> vary(LAMBDA r : r.context.power_scheme),
      display_refresh |-> vary(LAMBDA r : r.context.refresh_hz),
      cadence |-> IF None \in cadences \/ in = {} THEN "unknown" ELSE when(Spread(cadences, 3, 1)),
      run_duration |-> IF in = {} THEN "unknown"
                       ELSE when(Spread({r.duration : r \in in}, 3, 2)),
      coverage |-> IF None \in known THEN "unknown"
                   ELSE when(\E x, y \in known : apart(x, y)),
      collectors |-> when(\E r, q \in in : r.collectors # q.collectors),
      discontinuities |-> when(\E r \in in : r.discontinuities > 0),
      background |-> when(\E n \in named : mentions(n) < Cardinality(in))]

secondary_comparison(runs, metric) ==
  LET of(k, g) == Values([i \in DOMAIN included(runs) |->
                   [v |-> IF included(runs)[i].group = g THEN included(runs)[i].secondary[k] ELSE None]])
  IN [k \in {x \in curated_metric_keys \ {metric} : \E g \in Groups : of(x, g) # <<>>} |->
       Delta(median(of(k, "baseline")), median(of(k, "treatment")))]

(* analyze_outcomes: the verdict over outcomes that are already reduced.   *)
analyze_outcomes(runs, metric, pairing) ==
  LET judged(b, t, paired, conf, invalid, missing, noise, effect) ==
        LET verdict == classify(b, t, effect, noise, paired, conf.power_source = "changed",
                                invalid, missing)
        IN [baseline |-> b, treatment |-> t, effect |-> effect, paired |-> paired, noise |-> noise,
            classification |-> verdict[1], validity |-> verdict[2], confounders |-> conf,
            secondary |-> secondary_comparison(runs, metric),
            caveats |-> {k \in DOMAIN conf : conf[k] # "controlled"}
                        \cup (IF invalid > 0 THEN {"invalid"} ELSE {})
                        \cup (IF missing > 0 THEN {"missing"} ELSE {})]
      estimated(b, t, paired, noise) ==
        judged(b, t, paired, confounders(runs),
               Count(included(runs), LAMBDA r : r.status = "invalid"),
               Count(included(runs), LAMBDA r : r.primary = None),
               noise, effect_estimate(b, t, noise, paired))
      of(b, t, paired) == estimated(b, t, paired, noise_assessment(b, t, paired))
  IN of(summarize("baseline", runs), summarize("treatment", runs),
        IF pairing = "paired" THEN paired_report(runs) ELSE None)
=============================================================================
