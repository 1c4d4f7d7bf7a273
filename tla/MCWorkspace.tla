---------------------------- MODULE MCWorkspace ----------------------------
(* Workspace for TLC: a file that is being written, a recovered one, one   *)
(* whose clock stepped back twice, and commands of each kind over them.    *)
EXTENDS Workspace

CONSTANTS w1, w2

Base == 100
Line(c, m, p) == [coll |-> c, wall |-> Base + m, p |-> p @@ [mono |-> m, wall |-> Base + m]]
Bat(m, d, g, ac) == Line("battery", m, [dch |-> d, chg |-> g, pct |-> 90 - (m \div 10),
                                        prov |-> "measured", ac |-> ac])
Cpu(m, v) == Line("cpu", m, [v |-> v, prov |-> "measured"])
Net(m, v) == Line("net", m, [v |-> v, prov |-> "derived"])
Gpu(m, v) == Line("gpu", m, [prov |-> "estimated", adapters |-> <<[name |-> "g", v |-> v]>>])
Screen(m, hz) == Line("display", m, [v |-> 50, prov |-> "measured", hz |-> <<hz>>])
Proc(m, top) == Line("proc", m, [top |-> top, inaccessible |-> 0, truncated |-> FALSE])
App(pid, name, v) == [pid |-> pid, name |-> <<name, pid>>, v |-> v]
Scheme(m, x) == Line("os_power", m, [scheme |-> x])
Event(m, k) == Line("event", m, [kind |-> k])
Head_ == [coll |-> "header", wall |-> Base, p |-> None]
Foot(m, r) == [coll |-> "footer", wall |-> Base + m, p |-> r]

MCScript == [
  live |-> <<Head_, Scheme(1, "balanced"), Bat(2, 5, None, 0), Cpu(3, 20), Proc(4, <<App(1, 7, 10), App(2, 7, 4)>>),
             Gpu(5, 3), Bat(10, 6, None, 0), Cpu(11, 25), Bat(18, None, None, None), Cpu(20, 30),
             Bat(24, 14, None, 0), Cpu(25, 90), Screen(26, 60), Proc(27, <<App(3, 8, 60), App(1, 7, 9)>>),
             Bat(30, 16, None, 0), Cpu(31, 95), Event(32, "timeout"), Event(33, "marker"), Bat(38, 15, None, 0),
             Cpu(39, 90), Foot(40, None)>>,
  old |-> <<Head_, Bat(2, None, 7, 1), Net(3, 5), Cpu(4, 10), Screen(5, 144), Bat(8, 3, 6, 1),
            Proc(9, <<App(4, 8, 5)>>), Bat(14, None, 5, 1), Net(15, 9), Cpu(16, None), Foot(18, TRUE)>>,
  back |-> <<Head_, Bat(2, 4, None, None), Bat(8, 5, None, None), Cpu(10, 50),
             [Bat(14, 9, None, None) EXCEPT !.wall = Base + 4, !.p.wall = Base + 4],
             Bat(20, 6, None, None), Cpu(22, 55), Cpu(24, 40),
             [Bat(26, 7, None, None) EXCEPT !.wall = Base + 2, !.p.wall = Base + 2], Foot(28, None)>>]

MCInitialSize == [live |-> 40, old |-> 22, back |-> 20]

Of(p, a, b) == [path |-> p, from |-> IF a = 0 THEN None ELSE Base + a, to |-> IF b = 0 THEN None ELSE Base + b]
Range_(p, a, b) == [kind |-> "range", range |-> <<Base + a, Base + b>>,
                    parts |-> range_parts(p, <<Base + a, Base + b>>)]
Run(g, i, inc) == [group |-> g, pair |-> i, included |-> inc]

Overview(p) == [kind |-> "overview", parts |-> <<Of(p, 0, 0)>>]
Experiment(parts, rs) == [kind |-> "experiment", metric |-> "battery_discharge_w", pairing |-> "paired",
                          parts |-> parts, runs |-> rs]
Compare_(x, y) == [kind |-> "compare", parts |-> <<x, y>>]
Single(part) == Experiment(<<part>>, <<Run("baseline", 1, TRUE)>>)
Trial == Experiment(<<Of("live", 1, 17), Of("live", 22, 0), Of("old", 0, 0)>>,
                    <<Run("baseline", 1, TRUE), Run("treatment", 1, TRUE), Run("baseline", 2, FALSE)>>)

(* Commands of every kind, and two that meet them in the caches.           *)
MCRequests == [w \in Workers |-> IF w = w1
  THEN {Overview("live"), Range_("live", 23, 33), Range_("back", 6, 12),
        Compare_(Of("live", 9, 33), Of("old", 0, 0)), Compare_(Of("back", 3, 0), Of("live", 22, 0)), Trial}
  ELSE {Overview("live"), Single(Of("live", 22, 0))}]

(* Bound: only commands of one part overlap, and only those that share a   *)
(* cache: an overview has one of its own, the others read through windows. *)
OnePartAtOnce ==
  \A w, v \in Workers : Busy(job[w]) /\ Busy(job[v]) /\ w # v =>
    /\ Len(job[w].req.parts) = 1
    /\ job[w].req.kind = "overview" <=> job[v].req.kind = "overview"
=============================================================================
