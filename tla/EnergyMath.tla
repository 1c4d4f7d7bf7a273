---------------------------- MODULE EnergyMath ----------------------------
(***************************************************************************)
(* The energy arithmetic shared by the live footer and by recovery         *)
(* (pf-core/src/stats.rs) and the streaming accumulators of the monitor    *)
(* (pf-agent/src/monitor.rs).  Time is counted in half seconds, power in   *)
(* watts; an energy is kept as twice its value, so that the trapezoid rule *)
(* stays in the integers.                                                  *)
(***************************************************************************)
EXTENDS Integers, Sequences, FiniteSetsExt, SequencesExt

CONSTANT None                     (* Option::None                          *)

MaxSkew == 4                      (* MAX_CLOCK_SKEW_SECS, two seconds      *)

(* Three intervals, at least five seconds.                                 *)
energy_max_gap_secs(iv) == Max({3 * iv, 10})

Kinds == {"sampling_gap", "wall_ahead_of_mono", "mono_ahead_of_wall",
          "clock_went_backwards"}

(* Why a boundary is forced between two samples, None when they join.      *)
classify_step(mono, wall, gap) ==
  IF mono < 0 \/ (wall # None /\ wall < 0) THEN "clock_went_backwards"
  ELSE IF wall = None THEN
       IF mono > gap THEN "sampling_gap" ELSE None
  ELSE IF wall - mono > MaxSkew THEN "wall_ahead_of_mono"
  ELSE IF mono - wall > MaxSkew THEN "mono_ahead_of_wall"
  ELSE IF mono > gap \/ wall > gap THEN "sampling_gap" ELSE None

(* The wall step between two samples; a stamp of 0 is no stamp.            *)
WallStep(a, b) ==
  IF a.wall > 0 /\ b.wall > 0 THEN b.wall - a.wall ELSE None

Unobserved(mono, wall) ==
  Max({0, mono, IF wall = None THEN mono ELSE wall})

NoEnergy == [energy |-> 0, covered |-> 0, unknown |-> 0, unobserved |-> 0,
             discontinuities |-> 0]

(* One pair of samples inside a segment.                                   *)
pair(seg, dt, a, b, gap) ==
  IF a # None /\ b # None /\ dt <= gap
    THEN [seg EXCEPT !.energy = @ + (a + b) * dt, !.covered = @ + dt]
    ELSE [seg EXCEPT !.unknown = @ + dt]

-----------------------------------------------------------------------------
(* The streaming side: EnergyStream, which keeps the previous sample only. *)

NewStream == [discharge |-> NoEnergy, charge |-> NoEnergy,
              kinds |-> [k \in Kinds |-> 0], last |-> None]

(* A boundary, as both of the stream's segments count it.                  *)
Boundary(seg, mono, wall) ==
  [seg EXCEPT !.unknown = @ + Max({mono, 0}),
              !.discontinuities = @ + 1,
              !.unobserved = @ + Unobserved(mono, wall)]

(* Mutant: the sample after a boundary is paired with the one before it.   *)
PushBridging(e, b, gap) ==
  LET a == e.last IN
  IF a = None THEN [e EXCEPT !.last = b] ELSE
  [e EXCEPT !.last = b,
            !.discharge = pair(@, b.mono - a.mono, a.dch, b.dch, gap),
            !.charge = pair(@, b.mono - a.mono, a.chg, b.chg, gap)]

Push(e, b, gap) ==
  IF e.last = None THEN [e EXCEPT !.last = b] ELSE
  LET a == e.last
      mono == b.mono - a.mono
      wall == WallStep(a, b)
      kind == classify_step(mono, wall, gap)
  IN IF kind # None
       THEN [e EXCEPT !.last = b, !.kinds[kind] = @ + 1,
                      !.discharge = Boundary(@, mono, wall),
                      !.charge = Boundary(@, mono, wall)]
       ELSE [e EXCEPT !.last = b,
                      !.discharge = pair(@, mono, a.dch, b.dch, gap),
                      !.charge = pair(@, mono, a.chg, b.chg, gap)]

-----------------------------------------------------------------------------
(* The batch side: one scan for the boundaries, one over the pairs.        *)

(* An accumulator that runs over a series of numbers.                      *)
SumSeq(t) ==
  LET sum[i \in 0..Len(t)] == IF i = 0 THEN 0 ELSE sum[i - 1] + t[i] IN sum[Len(t)]

(* The steps of a series: i stands for the step from i to i + 1.           *)
StepsOf(ss) == IF ss = <<>> THEN {} ELSE 1..(Len(ss) - 1)

(* Those at which a boundary is forced, with its kind.                     *)
discontinuities(ss, gap) ==
  LET kind(i) == classify_step(ss[i+1].mono - ss[i].mono,
                               WallStep(ss[i], ss[i+1]), gap)
  IN {<<i, kind(i)>> : i \in {j \in StepsOf(ss) : kind(j) # None}}

(* The trapezoid loop over the steps that are not broken; ws[i] are the    *)
(* watts of sample ss[i].                                                  *)
integrate_pairs(ss, ws, gap, broken) ==
  LET dt(i) == ss[i+1].mono - ss[i].mono
      known(i) == /\ ws[i] # None /\ ws[i+1] # None /\ dt(i) <= gap
                  /\ dt(i) >= 0 /\ i \notin broken
  IN [NoEnergy EXCEPT
       !.energy = SumSeq([i \in StepsOf(ss) |-> IF known(i) THEN (ws[i] + ws[i+1]) * dt(i) ELSE 0]),
       !.covered = SumSeq([i \in StepsOf(ss) |-> IF known(i) THEN dt(i) ELSE 0]),
       !.unknown = SumSeq([i \in StepsOf(ss) |-> IF ~known(i) /\ dt(i) > 0 THEN dt(i) ELSE 0])]

integrate_segmented_clocks(ss, ws, gap) ==
  LET lost(i) == Unobserved(ss[i+1].mono - ss[i].mono, WallStep(ss[i], ss[i+1]))
      broken == {d[1] : d \in discontinuities(ss, gap)}
  IN [integrate_pairs(ss, ws, gap, broken) EXCEPT
       !.unobserved = SumSeq([i \in StepsOf(ss) |-> IF i \in broken THEN lost(i) ELSE 0]),
       !.discontinuities = Cardinality(broken)]

-----------------------------------------------------------------------------
(* ThroughputAccum: a byte count over a sampled timeline.                  *)

NewThroughput == [mb |-> 0, covered |-> 0, unknown |-> 0, samples |-> 0,
                  discontinuities |-> 0]

ThroughputPush(t, dt, rate, gap) ==
  IF dt = None THEN t
  ELSE IF dt < 0 THEN t
  ELSE IF dt > gap THEN [t EXCEPT !.unknown = @ + dt, !.discontinuities = @ + 1]
  ELSE IF rate # None THEN [t EXCEPT !.mb = @ + rate * dt, !.covered = @ + dt,
                                !.samples = @ + 1]
  ELSE [t EXCEPT !.unknown = @ + dt]

total_mb(t) == IF t.samples > 0 THEN t.mb ELSE None
=============================================================================
