------------------------------- MODULE Archive -------------------------------
(***************************************************************************)
(* The columnar archive (pf-core/src/archive.rs): migrate turns a loaded   *)
(* session into a metric table, identity tables and records, and           *)
(* load_archive_v2 turns them back into a session.  A metric is a key      *)
(* <<collector, metric, entity>>; its id is its position in the table.     *)
(***************************************************************************)
EXTENDS SessionLoad

CONSTANT StaticClasses    (* usb classes with a static id                   *)

-----------------------------------------------------------------------------
(* The metric table.                                                        *)

Metrics(coll) ==
  CASE coll = "battery" -> <<"discharge", "remaining">> [] coll = "battery_extra" -> <<"ac">>
    [] coll = "cpu" -> <<"utility">> [] coll = "net" -> <<"rx">>
    [] coll = "storage" -> <<"disk">> [] coll = "self" -> <<"cpu">> [] OTHER -> <<>>

(* STATIC_METRICS: the scalar series, the first display's brightness, the  *)
(* known usb classes and the acquisition windows.                          *)
StaticMetrics ==
  FlattenSeq(Each(Blocks, LAMBDA c : Each(Metrics(c), LAMBDA m : <<c, m, None>>)))
    \o << <<"display", "first", None>> >>
    \o Each(SetToSeq(StaticClasses), LAMBDA c : <<"usb", "count", c>>)
    \o Each(Blocks, LAMBDA c : <<c, "window", None>>)

(* register: a key keeps the id it got first.                              *)
register(table, key) == IF Contains(table, key) THEN table ELSE Append(table, key)
register_all(table, keys) == FoldLeft(register, table, keys)

Parts(s, coll, kind) ==
  SelectSeq(FlattenSeq(Each(Of(s.points, coll), LAMBDA p : p.parts)), LAMBDA q : q.kind = kind)

PartKeys(coll, q) ==
  LET ms == SetToSeq(DOMAIN q.vals) IN [i \in DOMAIN ms |-> <<coll, ms[i], q.name>>]

register_parts(table, s, coll, kinds) ==
  register_all(table, FlattenSeq(Each(kinds, LAMBDA k :
    FlattenSeq(Each(Parts(s, coll, k), LAMBDA q : PartKeys(coll, q))))))

(* Adapters in first-seen order, the two staleness flags, the adapters'    *)
(* top processes.                                                          *)
register_gpu(table, s) ==
  register_parts(register_all(register_parts(table, s, "gpu", <<"adapter">>),
                              << <<"gpu", "stale", None>>, <<"net", "stale", None>> >>),
                 s, "gpu", <<"top_pid">>)

(* Mutant: the processes' series are keyed by the name alone.              *)
first_by_name(s) ==
  LET top == Parts(s, "proc", "proc")
  IN SelectSeq([i \in DOMAIN top |-> <<i, top[i]>>],
               LAMBDA x : \A j \in 1..x[1] - 1 : top[j].name[2] # x[2].name[2])

(* proc_pids: the first entry of each pid.                                 *)
first_by_pid(s) ==
  LET top == Parts(s, "proc", "proc")
  IN SelectSeq([i \in DOMAIN top |-> <<i, top[i]>>],
               LAMBDA x : \A j \in 1..x[1] - 1 : top[j].name[1] # x[2].name[1])

(* A process's cpu series is registered for the first name of its pid; the *)
(* exit series for every pid and name that reported one.                   *)
register_proc(table, s) ==
  LET exits == SelectSeq(Parts(s, "proc", "proc"), LAMBDA q : q.vals.exit.v # None)
  IN register_all(table,
       Each(first_by_pid(s), LAMBDA x : <<"proc", "cpu", x[2].name>>)
         \o Each(exits, LAMBDA q : <<"proc", "exit", q.name>>)
         \o << <<"proc", "truncated", None>> >>)

register_rest(table, s) ==
  register_parts(register_parts(register_parts(register_parts(table, s,
    "cpu", <<"core", "total">>), s, "display", <<"display", "sensor">>),
    s, "net", <<"nic", "wifi">>), s, "usb", <<"class", "power_device">>)

metric_table(s) == register_rest(register_proc(register_gpu(StaticMetrics, s), s), s)

-----------------------------------------------------------------------------
(* migrate.                                                                 *)

(* put_rec, rec: an absent value is a record too.  The wall clock is       *)
(* derived from the session's base.                                        *)
rec(s, t, key, e) == [mono |-> millis(t), wall |-> s.base + millis(t), key |-> key, e |-> e]

(* The records of one reading set, for the keys the table has.             *)
reading_recs(s, table, p, vals, extra) ==
  LET ms == SelectSeq(SetToSeq(DOMAIN vals),
                      LAMBDA m : Contains(table, <<p.coll, m, extra>>)
                                   /\ ~(p.coll = "proc" /\ m = "exit" /\ vals[m].v = None))
  IN [i \in DOMAIN ms |-> rec(s, p.t, <<p.coll, ms[i], extra>>, vals[ms[i]])]

(* A flag is recorded as 0 or 1; missing coverage not at all.              *)
flag_recs(s, p) ==
  CASE p.coll \in {"gpu", "net"} ->
         << rec(s, p.t, <<p.coll, "stale", None>>, evidence("measured", p.flag, "fresh")) >>
    [] p.coll = "proc" /\ p.flag # None ->
         << rec(s, p.t, <<p.coll, "truncated", None>>, evidence("measured", p.flag, "fresh")) >>
    [] OTHER -> <<>>

(* The first display is also recorded under its static id.                 *)
first_display_recs(s, p) ==
  LET ds == SelectSeq(p.parts, LAMBDA q : q.kind = "display")
  IN IF p.coll # "display" \/ ds = <<>> THEN <<>>
     ELSE << rec(s, p.t, <<"display", "first", None>>, ds[1].vals.brightness) >>

(* t_rec: a window only when the collector reported one.                   *)
window_recs(s, p) ==
  IF p.win = None THEN <<>>
  ELSE << rec(s, p.t, <<p.coll, "window", None>>, evidence("measured", p.win, "fresh")) >>

point_recs(s, table, p) ==
  reading_recs(s, table, p, p.own, None) \o flag_recs(s, p) \o first_display_recs(s, p)
    \o FlattenSeq(Each(p.parts, LAMBDA q : reading_recs(s, table, p, q.vals, q.name)))

(* Identity is kept per key, as first seen.                                *)
identity(s, coll, kinds) ==
  LET ps == FlattenSeq(Each(kinds, LAMBDA k : Parts(s, coll, k)))
  IN [n \in {ps[i].name : i \in DOMAIN ps} |->
        ps[SelectInSeq(ps, LAMBDA q : q.name = n)].ident]

proc_identity(s) ==
  LET ps == Parts(s, "proc", "proc")
  IN [n \in {ps[i].name : i \in DOMAIN ps} |->
        ps[SelectInSeq(ps, LAMBDA q : q.name[1] = n[1])].ident]

(* The manifest embeds evidence in the envelope of a session line.         *)
telemetry_to_json(e) == [form |-> "env", v |-> e.v, p |-> e.p, q |-> e.q, k |-> e.k]

migrate(s) ==
  LET table == metric_table(s)
      inOrder == FlattenSeq(Each(Blocks, LAMBDA c : Of(s.points, c)))
  IN [manifest |-> [format |-> "pf-archive-2", table |-> table, base |-> s.base,
                    gpu |-> identity(s, "gpu", <<"adapter">>), proc |-> proc_identity(s),
                    net |-> identity(s, "net", <<"nic", "wifi">>),
                    meta |-> s.meta,
                    policies |-> Each(s.policies, LAMBDA p :
                      [p EXCEPT !.ac = telemetry_to_json(@), !.dc = telemetry_to_json(@)])],
      samples  |-> LET recs == FlattenSeq(Each(inOrder, LAMBDA p : point_recs(s, table, p)))
                                 \o FlattenSeq(Each(inOrder, LAMBDA p : window_recs(s, p)))
                   IN Each(recs, LAMBDA r : [mono |-> r.mono, wall |-> r.wall, e |-> r.e,
                                             id |-> SelectInSeq(table, LAMBDA k : k = r.key)]),
      events   |-> s.events]

-----------------------------------------------------------------------------
(* Reading an archive.                                                      *)

(* tele: a record becomes evidence again; a value whose provenance code is *)
(* unknown becomes absent.                                                 *)
tele(e) ==
  IF e.v # None /\ e.p \in Known THEN evidence(e.p, e.v, fresh_unless_known(e.q))
  ELSE [unavailable("not-sampled") EXCEPT !.q = e.q, !.k = IF e.k = None THEN @ ELSE e.k]

(* The record of a metric at an instant: the last one with its id.         *)
scalar(m, samples, mono, key) ==
  LET id == SelectInSeq(m.table, LAMBDA k : k = key)
      i == SelectLastInSeq(samples, LAMBDA r : r.mono = mono /\ r.id = id)
  IN IF id = 0 \/ i = 0 THEN None ELSE tele(samples[i].e)

dynamic(m, samples, mono, key) ==
  LET e == scalar(m, samples, mono, key) IN IF e = None THEN unavailable("not-sampled") ELSE e

Times(m, samples) == {samples[i].mono : i \in {j \in DOMAIN samples : samples[j].id \in DOMAIN m.table}}

(* extra_list: the entities that have a metric, in table order.            *)
extra_list(m, coll, metric) ==
  Each(SelectSeq(m.table, LAMBDA k : k[1] = coll /\ k[2] = metric /\ k[3] # None), LAMBDA k : k[3])

(* The entities with a record of their leading metric at this instant.     *)
load_parts(m, samples, mono, coll, kind, lead, others, ident) ==
  LET names == SelectSeq(extra_list(m, coll, lead),
                         LAMBDA n : scalar(m, samples, mono, <<coll, lead, n>>) # None)
  IN Each(names, LAMBDA n :
       part(kind, n, IF n \in DOMAIN ident THEN ident[n] ELSE None,
            [x \in {lead} \cup others |-> dynamic(m, samples, mono, <<coll, x, n>>)]))

(* Every total of the table appears at every tick, absent where it was not *)
(* recorded.                                                               *)
load_v2_cpu(m, samples, mono) ==
  load_parts(m, samples, mono, "cpu", "core", "utility", {}, Nothing)
    \o Each(extra_list(m, "cpu", "total"), LAMBDA n :
              part("total", n, None, [total |-> dynamic(m, samples, mono, <<"cpu", "total", n>>)]))

load_v2_gpu(m, samples, mono) ==
  load_parts(m, samples, mono, "gpu", "adapter", "util", {}, m.gpu)
    \o load_parts(m, samples, mono, "gpu", "top_pid", "pid_util", {}, Nothing)

(* The exit of this tick wins over the first-seen one.                     *)
load_v2_proc(m, samples, mono) ==
  Each(load_parts(m, samples, mono, "proc", "proc", "cpu", {"exit"}, m.proc),
       LAMBDA q : IF q.vals.exit.v # None THEN q
                  ELSE [q EXCEPT !.vals.exit = optional(q.ident[2])])

(* Older archives have only the first display, under its static id.        *)
load_v2_display(m, samples, mono) ==
  LET ds == load_parts(m, samples, mono, "display", "display", "brightness", {"mode"}, Nothing)
      first == scalar(m, samples, mono, <<"display", "first", None>>)
  IN (IF ds = <<>> /\ first # None
        THEN <<part("display", "0", None, [brightness |-> first, mode |-> optional(None)])>>
        ELSE ds)
       \o load_parts(m, samples, mono, "display", "sensor", "sensor", {}, Nothing)

load_v2_net(m, samples, mono) ==
  load_parts(m, samples, mono, "net", "nic", "oper", {"speed"}, m.net)
    \o load_parts(m, samples, mono, "net", "wifi", "signal", {"state"}, m.net)

load_v2_usb(m, samples, mono) ==
  load_parts(m, samples, mono, "usb", "class", "count", {}, Nothing)
    \o load_parts(m, samples, mono, "usb", "power_device", "device", {}, Nothing)

V2Parts(m, samples, mono, coll) ==
  CASE coll = "cpu" -> load_v2_cpu(m, samples, mono)   [] coll = "gpu" -> load_v2_gpu(m, samples, mono)
    [] coll = "proc" -> load_v2_proc(m, samples, mono) [] coll = "net" -> load_v2_net(m, samples, mono)
    [] coll = "display" -> load_v2_display(m, samples, mono)
    [] coll = "usb" -> load_v2_usb(m, samples, mono)   [] OTHER -> <<>>

(* A collector has a point at an instant when one of its static series or  *)
(* one of its entities has a record there.                                 *)
v2_point(m, samples, mono, coll) ==
  LET ms == ToSet(Metrics(coll))
      flag == dynamic(m, samples, mono, <<coll, IF coll = "proc" THEN "truncated" ELSE "stale", None>>).v
  IN [coll |-> coll, t |-> mono, wall |-> m.base + mono,
      win |-> dynamic(m, samples, mono, <<coll, "window", None>>).v,
      own |-> [x \in ms |-> dynamic(m, samples, mono, <<coll, x, None>>)],
      parts |-> V2Parts(m, samples, mono, coll),
      flag |-> IF flag = None /\ coll # "proc" THEN FALSE ELSE flag]

has(m, samples, mono, coll) ==
  \/ \E x \in ToSet(Metrics(coll)) : scalar(m, samples, mono, <<coll, x, None>>) # None
  \/ coll \in {"battery_extra", "cpu"} /\ scalar(m, samples, mono, <<coll, "window", None>>) # None
  \/ coll # "cpu" /\ V2Parts(m, samples, mono, coll) # <<>>

load_archive_v2(m, samples, events) ==
  LET policies == Each(m.policies, LAMBDA p : [p EXCEPT !.ac = ev_inner(@), !.dc = ev_inner(@)]) IN
  [base |-> m.base, policies |-> policies, policy |-> headline_policy(policies),
   meta |-> m.meta, events |-> events,
   points |-> {v2_point(m, samples, x[1], x[2]) :
                 x \in {y \in Times(m, samples) \X ToSet(Blocks) : has(m, samples, y[1], y[2])}}]
=============================================================================
