----------------------------- MODULE SessionLoad -----------------------------
(***************************************************************************)
(* Reading a session file back (pf-core/src/telemetry.rs and               *)
(* pf-core/src/session.rs): the evidence that travels with every value,    *)
(* the loader of each collector's line, and the time-ordered row export.   *)
(*                                                                         *)
(* A line of the file is a record whose fields hold wire values: absent    *)
(* (None), a bare number, a boolean, or an envelope.  A loaded point keeps *)
(* what the line says of the collector as a whole in own and its list      *)
(* entries (cores, adapters, processes, displays...) in parts; one metric  *)
(* stands for all those that are read in the same way.                     *)
(***************************************************************************)
EXTENDS Integers, Sequences, SequencesExt, FiniteSets

CONSTANT
  None,   (* an absent value                                               *)
  Slips   (* instants n whose n / 1000.0 * 1000.0 falls below n            *)

-----------------------------------------------------------------------------
(* Evidence (telemetry.rs).                                                 *)

Known == {"measured", "derived", "estimated"}

(* Telemetry::measured, derived, estimated (quality fresh) and the loader's*)
(* own values.                                                             *)
evidence(p, v, q) == [p |-> p, v |-> v, q |-> q, k |-> None]

quality_for_kind(k) ==
  CASE k = "transient" -> "error" [] k = "stale" -> "stale" [] OTHER -> "unknown"

unavailable(k) == [p |-> "unavailable", v |-> None, q |-> quality_for_kind(k), k |-> k]

(* Wire values.  json_num writes an envelope.                              *)
Bare(v) == [form |-> "bare", v |-> v]
Bool(v) == [form |-> "bool", v |-> v]
json_num(v, p, k) ==
  IF v # None THEN [form |-> "env", v |-> v, p |-> p, q |-> "fresh", k |-> None]
  ELSE [form |-> "env", v |-> None, p |-> "unavailable", q |-> quality_for_kind(k), k |-> k]

(* A known quality stays; an unknown one of a present value reads as fresh.*)
fresh_unless_known(q) == IF q = "unknown" THEN "fresh" ELSE q

(* ev_inner: a bare number is measured of unknown freshness; a value       *)
(* without a known provenance is dropped, never promoted.                  *)
ev_inner(w) ==
  IF w = None THEN unavailable("not-sampled")
  ELSE IF w.form = "bare" THEN evidence("measured", w.v, "unknown")
  ELSE IF w.form = "bool" \/ w.v = None THEN [unavailable("not-sampled") EXCEPT
       !.q = IF w.form = "env" THEN w.q ELSE @, !.k = IF w.form = "env" THEN w.k ELSE @]
  ELSE IF w.p \in Known THEN evidence(w.p, w.v, fresh_unless_known(w.q))
  ELSE unavailable("not-sampled")

ev_bool(w) ==
  IF w # None /\ w.form = "bool" THEN evidence("measured", w.v, "fresh") ELSE ev_inner(w)

(* plain_num and the optional numbers of a line.                           *)
plain_num(w) == ev_inner(w)
optional(v) == IF v = None THEN unavailable("not-sampled") ELSE evidence("measured", v, "fresh")

-----------------------------------------------------------------------------
(* Lines (session.rs).                                                      *)

(* stamp_of: milliseconds go through seconds and are cut off.              *)
millis(n) == IF n \in Slips THEN n - 1 ELSE n

Point(l, own, parts, flag) ==
  [coll |-> l.coll, t |-> millis(l.mono), wall |-> l.wall, win |-> l.win,
   own |-> own, parts |-> parts, flag |-> flag]

part(kind, name, ident, vals) == [kind |-> kind, name |-> name, ident |-> ident, vals |-> vals]
Each(list, F(_)) == [i \in DOMAIN list |-> F(list[i])]
Nothing == [x \in {} |-> x]

(* Scaling remaining_mwh makes a measured value a derived one.             *)
scaled(e) == IF e.p = "measured" THEN [e EXCEPT !.p = "derived"] ELSE e

(* A battery line makes two points: the power series and the extra ones.   *)
load_battery(l) ==
  <<Point(l, [discharge |-> ev_inner(l.discharge), remaining |-> scaled(ev_inner(l.remaining))],
          <<>>, FALSE),
    Point([l EXCEPT !.coll = "battery_extra"], [ac |-> ev_bool(l.ac)], <<>>, FALSE)>>

(* The static data of the batteries: the first line that has them.         *)
battery_meta(lines) ==
  LET i == SelectInSeq(lines, LAMBDA l : l.coll = "battery" /\ l.full # None)
  IN IF i = 0 THEN None ELSE lines[i].full

(* Without the totals object its series are absent; every other counter of *)
(* it is kept under its own name.                                          *)
load_cpu(l) ==
  Point(l, [utility |-> IF l.totals THEN ev_inner(l.utility) ELSE unavailable("not-sampled")],
        Each(l.cores, LAMBDA c : part("core", c.name, None, [utility |-> ev_inner(c.w)]))
          \o Each(l.others, LAMBDA c : part("total", c.name, None, [total |-> ev_inner(c.w)])),
        FALSE)

load_gpu(l) ==
  Point(l, Nothing,
        Each(l.adapters, LAMBDA a : part("adapter", a.name, a.discrete, [util |-> ev_inner(a.w)]))
          \o Each(l.pids, LAMBDA a : part("top_pid", a.name, None, [pid_util |-> ev_inner(a.w)])),
        l.stale)

load_procs(l) ==
  Point(l, Nothing,
        Each(l.top, LAMBDA e : part("proc", <<e.pid, e.name>>, <<e.start, e.exit>>,
                                    [cpu |-> ev_inner(e.w), exit |-> optional(e.exit)])),
        l.truncated)

load_display(l) ==
  Point(l, Nothing,
        Each(l.displays, LAMBDA d : part("display", d.name, None,
                                         [brightness |-> ev_inner(d.w), mode |-> optional(d.mode)]))
          \o Each(l.sensors, LAMBDA d : part("sensor", d.name, None, [sensor |-> optional(d.v)])),
        FALSE)

(* media_code, wifi_state_code: an unknown word is an absent number.       *)
state_code(s) == IF s \in {"connected", "disconnected"} THEN 1 ELSE None

load_net(l) ==
  Point(l, [rx |-> ev_inner(l.rx)],
        Each(l.adapters, LAMBDA a : part("nic", a.name, a.descr,
                                         [oper |-> optional(a.oper), speed |-> plain_num(a.w)]))
          \o Each(l.wifi, LAMBDA w : part("wifi", w.name, w.ssid,
                                          [signal |-> ev_inner(w.w),
                                           state |-> optional(state_code(w.state))])),
        l.stale)

(* Only the disk marked as the total is kept.                              *)
load_storage(l) ==
  LET i == SelectInSeq(l.disks, LAMBDA d : d.total)
  IN Point(l, [disk |-> IF i = 0 THEN ev_inner(None) ELSE ev_inner(l.disks[i].w)], <<>>, FALSE)

(* The count's own envelope, or the length of the device list as a derived *)
(* value, or nothing.                                                      *)
load_usb(l) ==
  Point(l, Nothing,
        Each(l.groups, LAMBDA g :
               part("class", g.name, None,
                    [count |-> IF g.count # None THEN ev_inner(g.count)
                               ELSE IF g.devices # None THEN evidence("derived", g.devices, "fresh")
                               ELSE unavailable("not-sampled")]))
          \o Each(l.power, LAMBDA d : part("power_device", d, None,
                                           [device |-> evidence("measured", 1, "fresh")])),
        FALSE)

load_selfmon(l) == Point(l, [cpu |-> ev_inner(l.cpu)], <<>>, FALSE)

(* Each side of an {"ac","dc"} pair keeps its own evidence.                *)
load_policy(l) ==
  [t |-> millis(l.mono), scheme |-> l.scheme, ac |-> ev_inner(l.ac), dc |-> ev_inner(l.dc)]

(* The headline policy is the first that names its scheme.                 *)
headline_policy(ps) ==
  LET i == SelectInSeq(ps, LAMBDA p : p.scheme # None)
  IN IF ps = <<>> THEN None ELSE IF i = 0 THEN Last(ps) ELSE ps[i]

Load(l) ==
  CASE l.coll = "battery" -> load_battery(l)     [] l.coll = "cpu"  -> <<load_cpu(l)>>
    [] l.coll = "gpu"     -> <<load_gpu(l)>>     [] l.coll = "proc" -> <<load_procs(l)>>
    [] l.coll = "display" -> <<load_display(l)>> [] l.coll = "net"  -> <<load_net(l)>>
    [] l.coll = "storage" -> <<load_storage(l)>> [] l.coll = "usb"  -> <<load_usb(l)>>
    [] l.coll = "self"    -> <<load_selfmon(l)>> [] OTHER           -> <<>>

Of(lines, coll) == SelectSeq(lines, LAMBDA l : l.coll = coll)

(* load_session: the wall base is the first non-zero wall clock.           *)
load_session(lines) ==
  LET i == SelectInSeq(lines, LAMBDA l : l.wall > 0)
      policies == Each(Of(lines, "os_power"), load_policy)
  IN [base |-> IF i = 0 THEN 0 ELSE lines[i].wall,
      points |-> FlattenSeq(Each(lines, Load)),
      policies |-> policies, policy |-> headline_policy(policies),
      meta |-> battery_meta(lines),
      events |-> Each(Of(lines, "event"), LAMBDA l : l.kind)]

-----------------------------------------------------------------------------
(* Rows, for the CSV and the tidy export.                                   *)

Blocks ==
  <<"battery", "cpu", "battery_extra", "gpu", "proc", "display", "net", "storage", "usb", "self">>

(* csv_row keeps the stored provenance, quality and kind of absence.       *)
csv_row(t, coll, metric, extra, e) == [t |-> t, key |-> <<coll, metric, extra>>, e |-> e]

Rows(p) ==
  LET rows(vals, extra) ==
        LET ms == SetToSeq(DOMAIN vals)
        IN [i \in DOMAIN ms |-> csv_row(p.t, p.coll, ms[i], extra, vals[ms[i]])]
  IN rows(p.own, None) \o FlattenSeq(Each(p.parts, LAMBDA q : rows(q.vals, q.name)))

(* csv_sources: the rows of each collector, in file order.                 *)
csv_sources(s) ==
  [b \in DOMAIN Blocks |-> FlattenSeq(Each(Of(s.points, Blocks[b]), Rows))]

(* Mutant: equal timestamps leave the heap in the wrong order of blocks.   *)
first_reversed(src, pos) ==
  CHOOSE b \in DOMAIN src :
    /\ pos[b] < Len(src[b])
    /\ \A c \in DOMAIN src : pos[c] < Len(src[c]) =>
         \/ src[b][pos[b] + 1].t < src[c][pos[c] + 1].t
         \/ src[b][pos[b] + 1].t = src[c][pos[c] + 1].t /\ b >= c

(* The head the heap pops: CsvMergeItem's order of time, then block.       *)
first_head(src, pos) ==
  CHOOSE b \in DOMAIN src :
    /\ pos[b] < Len(src[b])
    /\ \A c \in DOMAIN src : pos[c] < Len(src[c]) =>
         \/ src[b][pos[b] + 1].t < src[c][pos[c] + 1].t
         \/ src[b][pos[b] + 1].t = src[c][pos[c] + 1].t /\ b <= c

(* raw_rows_iter: pops the first head and refills from its source.         *)
raw_rows(s) ==
  LET src == csv_sources(s)
      total == Len(FlattenSeq(src))
      step[n \in 0..total] ==
        IF n = 0 THEN [pos |-> [b \in DOMAIN src |-> 0], out |-> <<>>]
        ELSE LET x == step[n - 1]
                 b == first_head(src, x.pos)
             IN [pos |-> [x.pos EXCEPT ![b] = @ + 1],
                 out |-> Append(x.out, src[b][x.pos[b] + 1])]
  IN step[total].out

(* What the merge replaced: the stable sort by time of all the rows.       *)
sorted_rows(s) ==
  LET all == FlattenSeq(csv_sources(s))
      ts == SetToSortSeq({all[i].t : i \in DOMAIN all}, <)
  IN FlattenSeq(Each(ts, LAMBDA t : SelectSeq(all, LAMBDA r : r.t = t)))
=============================================================================
