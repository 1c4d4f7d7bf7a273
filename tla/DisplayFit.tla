----------------------------- MODULE DisplayFit -----------------------------
(***************************************************************************)
(* Display calibration: the straight line through (brightness, power)      *)
(* points (pf-core/src/calib.rs), its held-out validation and its quality  *)
(* (pf-core/src/calibration.rs).  Brightness is in steps of 25 %, so 4 is  *)
(* the whole range; every ratio is a pair, so that the fit is exact.       *)
(***************************************************************************)
EXTENDS Analyze

CONSTANTS
  MinValidation,   (* MIN_VALIDATION_N (4)                                 *)
  HoldOutEvery     (* every k-th point is held out (3)                     *)

ASSUME DisplayFitAssumption ==
  MinValidation \in Nat /\ HoldOutEvery \in Nat /\ HoldOutEvery > 1 /\ MinValidation >= HoldOutEvery

FullRange == 4

(* The prediction at x is (rise * x + base) / den.  In exact arithmetic    *)
(* 1 - ss_res/ss_tot is the explained share of the variance, which is in   *)
(* 0..1 without the clamp.                                                 *)
fit_linear(points) ==
  LET n == Len(points)
      x == [i \in DOMAIN points |-> points[i][1]]
      y == [i \in DOMAIN points |-> points[i][2]]
      spread == n * Product(x, x, DOMAIN x) - SumOf(x) * SumOf(x)
      joint == n * Product(x, y, DOMAIN x) - SumOf(x) * SumOf(y)
      total == n * Product(y, y, DOMAIN y) - SumOf(y) * SumOf(y)
  IN IF n < 2 \/ spread = 0 THEN None
     ELSE [n |-> n, slope |-> <<joint, spread>>,
           rise |-> n * joint, base |-> SumOf(y) * spread - joint * SumOf(x), den |-> n * spread,
           r2 |-> IF total = 0 THEN <<0, 1>> ELSE <<joint * joint, spread * total>>]

At(f, x) == <<f.rise * x + f.base, f.den>>

-----------------------------------------------------------------------------
(* The model of one panel on one machine; None is an identity that was     *)
(* never stored.  own is not in the file: it remembers whether every level *)
(* was measured on that panel.                                             *)

display_model(fit, machine, panel, floor, own) ==
  [machine |-> machine, panel |-> panel, floor |-> floor, slope |-> fit.slope, r2 |-> fit.r2,
   own |-> own]

(* The fit must be trusted and rising.  b is ten times the brightness, as  *)
(* medians are, and so are the watts.                                      *)
display_w_unavailable(m) == Less(m.r2, <<1, 2>>) \/ m.slope[1] < 0

display_w_at(m, b) ==
  IF display_w_unavailable(m) THEN None ELSE <<m.slope[1] * Max({0, b - 10 * m.floor}), m.slope[2]>>

(* Mutant: the machine alone is compared.                                  *)
identity_of_machine(m, machine, panel) == m.machine # None /\ m.machine # machine

identity_mismatch_reason(m, machine, panel) ==
  \/ m.machine # None /\ m.machine # machine
  \/ m.panel # None /\ m.panel # panel

load_display_model_from(file, machine, panel) ==
  IF file = None \/ identity_mismatch_reason(file, machine, panel) THEN None ELSE file

-----------------------------------------------------------------------------
(* Validation: the persisted line is through all points, the residuals are *)
(* those of the line through the points that are not held out.             *)

Held(n) == IF n < MinValidation THEN {} ELSE {i \in 1..n : i % HoldOutEvery = 0}
Pick(list, S) ==
  LET pos == SortSet(S, <) IN [i \in DOMAIN pos |-> list[pos[i]]]

(* Mutant: the residuals are those of the persisted line.                  *)
train_fit_all(sorted) == fit_linear(sorted)

(* When the kept points share one level no line goes through them, and the *)
(* line through all is used instead.                                       *)
train_fit(sorted) ==
  Or(fit_linear(Pick(sorted, DOMAIN sorted \ Held(Len(sorted)))), fit_linear(sorted))

relative_error(p, y) == IF y = 0 THEN None ELSE <<p[1] - y * p[2], y * p[2]>>

(* Errors are numerators over the fit's denominator.                       *)
validation_stats(errs, ref, den, n) ==
  [n |-> n, mae |-> <<SumOf(errs), Len(errs) * den>>, mse |-> Product(errs, errs, DOMAIN errs),
   median |-> median(errs), max |-> Max(Range(errs)), constant |-> Cardinality(Range(ref)) = 1]

(* A point counts as held out when it equals one that is.                  *)
validated_fit(sorted, fit, train) ==
  LET n == Len(sorted)
      out == {sorted[i] : i \in Held(n)}
      err(p) == AbsVal(At(train, p[1])[1] - p[2] * train.den)
      tested == SelectSeq(sorted, LAMBDA p : p \in out)
  IN IF fit = None THEN None
     ELSE [n |-> n, fit |-> fit, train_n |-> n - Cardinality(Held(n)),
           min |-> sorted[1][1], max |-> sorted[n][1],
           residuals |-> [i \in 1..n |->
             [input |-> sorted[i][1], reference |-> sorted[i][2], predicted |-> At(train, sorted[i][1]),
              abs |-> <<err(sorted[i]), train.den>>,
              relative |-> relative_error(At(train, sorted[i][1]), sorted[i][2]),
              held |-> sorted[i] \in out]],
           validation |-> IF tested = <<>> THEN None
             ELSE validation_stats([i \in DOMAIN tested |-> err(tested[i])],
                    [i \in DOMAIN tested |-> tested[i][2]], train.den, Cardinality(Held(n)))]

fit_sorted(sorted) == validated_fit(sorted, fit_linear(sorted), train_fit(sorted))
fit_display_calibration(points) == fit_sorted(SortSeq(points, LAMBDA p, q : p[1] < q[1]))

is_independent(kind) == kind # "fitted_against_estimate"

(* The class of a fit and the reasons that drove it.                       *)
classify(f, span, independent, matches) ==
  LET covered == f.max - f.min
      mae == IF f.validation # None /\ span > 0
               THEN <<f.validation.mae[1], f.validation.mae[2] * span>> ELSE None
      off == mae # None /\ Less(<<1, 4>>, mae)
      reasons == {r \in {"identity", "estimate", "narrow", "error"} :
                    CASE r = "identity" -> ~matches
                      [] r = "estimate" -> ~independent
                      [] r = "narrow"   -> 4 * covered < FullRange
                      [] r = "error"    -> off}
      strong == /\ independent /\ f.validation # None /\ f.n >= 5 /\ matches
                /\ 10 * covered >= 4 * FullRange /\ mae # None /\ ~Less(<<15, 100>>, mae)
      weak == ~matches \/ f.validation = None \/ 4 * covered < FullRange \/ off \/ f.n < 4
  IN [reasons |-> reasons,
      quality |-> IF f.n < 3 /\ f.validation = None THEN "insufficient_evidence"
                  ELSE IF strong THEN "validated"
                  ELSE IF weak THEN "weak"
                  ELSE "usable_with_caveats"]
=============================================================================
