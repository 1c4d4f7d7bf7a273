------------------------------ MODULE MCBench ------------------------------
(* Bench for TLC: two screens, two sessions recorded earlier on machines   *)
(* with names that contain one another, and small experiments and sweeps.  *)
EXTENDS Bench

CONSTANTS auo, del

Reading(m, d, pct) == [mono |-> m, wall |-> 200 + m, dch |-> d, chg |-> None, pct |-> pct, rem |-> pct]
Busy(m, v) == [mono |-> m, v |-> v, c3 |-> IF v > 20 THEN 5 ELSE 60, pkg |-> v \div 5]
Adapter(m, v) == [mono |-> m, adapters |-> <<[name |-> <<"Radeon">>, v |-> v, pids |-> <<41>>]>>]
App(pid, name, start) == [pid |-> pid, ppid |-> 4, name |-> name, start |-> start, v |-> 3]
Top(m, apps) == [mono |-> m, top |-> apps]
Named(v, c) == [value |-> v, class |-> c]

(* A step in the middle: a new process, one that was only quiet before,    *)
(* one of unknown age, and one that goes away.                             *)
Stepped == [
  label |-> <<"lab", " ", "night">>, base |-> 200,
  battery |-> [i \in 1..12 |-> Reading(2 * (i - 1), IF i <= 6 THEN 10 ELSE 16, 90 - i)],
  cpu |-> [i \in 1..12 |-> Busy(2 * (i - 1), IF i <= 6 THEN 5 ELSE 40)],
  gpu |-> [i \in 1..6 |-> Adapter(4 * (i - 1), IF i <= 3 THEN 0 ELSE 9)],
  display |-> <<[mono |-> 0, v |-> 3], [mono |-> 8, v |-> 2], [mono |-> 16, v |-> 3]>>, net |-> <<>>,
  procs |-> <<Top(4, <<App(40, <<"shell">>, 100)>>),
              Top(9, <<App(40, <<"shell">>, 100), App(47, <<"brief">>, 205)>>),
              Top(13, <<App(41, <<"render", " ", "job">>, 212), App(42, <<"job">>, 209)>>),
              Top(16, <<App(41, <<"render", " ", "job">>, 212), App(43, <<"late">>, None)>>),
              Top(20, <<App(41, <<"render", " ", "job">>, 212)>>)>>,
  policy |-> [scheme |-> <<"Lab", " ", "plan">>, dc |-> 5],
  full |-> 100, design |-> 120, count |-> 1, batteries |-> <<[full |-> 100, design |-> 120, id |-> <<"BAT9">>]>>,
  named |-> <<Named(<<"Radeon", " ", "Panel">>, "display"), Named(<<"home", ",", "net">>, "ssid"),
              Named(<<"BAT9">>, "device"), Named(<<"acme.dock.hub">>, "device")>>,
  reasons |-> <<<<"name", "=", "gpu.util.pct", " ", "device", ":", " ", "acme.dock.hub">>,
                <<"open", " ", "C:\\log">>, <<"device", "=", "{guid}", " ", "at", " ", "10.0.0.7">>,
                <<"path", ":", " ", "\\\\nas\\log", " ", "from", " ", "aa-bb-cc">>>>]

(* Half of it without readings, on a standard scheme, with two batteries.  *)
Gapped == [
  label |-> <<"lab">>, base |-> 0,
  battery |-> [i \in 1..10 |-> [Reading(2 * (i - 1), IF i > 6 THEN None ELSE 10 + (i % 2), 60)
                                  EXCEPT !.wall = 0]],
  cpu |-> [i \in 1..5 |-> Busy(4 * (i - 1), 12)], gpu |-> <<>>,
  display |-> <<>>, net |-> <<>>,
  procs |-> <<Top(4, <<App(40, <<"shell">>, 100)>>)>>,
  policy |-> [scheme |-> <<"Balanced">>, dc |-> 5],
  full |-> None, design |-> None, count |-> 2,
  batteries |-> <<[full |-> 50, design |-> 60, id |-> <<"BAT1">>], [full |-> 50, design |-> None, id |-> <<"BAT2">>]>>,
  named |-> <<Named(<<"BAT1">>, "device"), Named(<<"BAT2">>, "device")>>,
  reasons |-> <<<<"note", ":", " ", "C:\\Users\\ana">>>>]

(* An opening transient, no process list.                                  *)
Settling == [Gapped EXCEPT
  !.label = <<"short">>, !.count = 1, !.batteries = <<>>, !.full = 80, !.design = 100, !.named = <<>>,
  !.battery = [i \in 1..10 |-> Reading(2 * (i - 1), IF i <= 2 THEN 30 ELSE 12, 70)],
  !.procs = <<>>]

(* Plugged in throughout.                                                  *)
Plugged == [Settling EXCEPT !.label = <<"ac">>, !.policy = [scheme |-> <<>>, dc |-> None],
                            !.battery = [i \in 1..4 |-> Reading(2 * (i - 1), None, 70)], !.cpu = <<>>]

MCSaved == [stepped |-> Stepped, gapped |-> Gapped, settling |-> Settling, plugged |-> Plugged]

World(e, d, s) == [effect |-> e, drift |-> d, settling |-> s]
MCWorlds == {World(0, 1, 0), World(4, -1, 2)}
Screens == Permutations(Panels)

MCSweeps == {<<4, 0, 2>>, <<2, 2>>}

(* Reference points: a rising line, a flat one, or one point off it.       *)
Inputs == {<<0>>, <<2, 2>>, <<0, 4>>, <<4, 0, 2>>, <<4, 2, 1, 0>>, <<0, 1, 2, 3, 4>>, <<0, 0, 1, 1, 2, 4>>,
           <<0, 0, 0, 0, 0, 4>>}
MCForms == UNION {{[i \in DOMAIN x |-> <<x[i], y[i]>>] : y \in
               {[i \in DOMAIN x |-> 2 * x[i] + 1]} \cup
               {[i \in DOMAIN x |-> IF i = k THEN 5 ELSE 2] : k \in 0..Len(x)}} : x \in Inputs}

MCHost == <<"lab-pc">>
MCBuiltin == {<<"Balanced">>}
MCUser == <<"ana">>
MCShape == ("C:\\log" :> "drive") @@ ("\\\\nas\\log" :> "share") @@ ("C:\\Users\\ana" :> "profile")
             @@ ("{guid}" :> "guid") @@ ("aa-bb-cc" :> "mac") @@ ("10.0.0.7" :> "ip") @@ ("gpu.util.pct" :> "metric")
             @@ ("acme.dock.hub" :> "metric")
=============================================================================
