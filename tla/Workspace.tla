----------------------------- MODULE Workspace -----------------------------
(***************************************************************************)
(* The analysis commands of the GUI (pf-gui/src-tauri/src: sessions.rs,    *)
(* analyze.rs, compare.rs, experiment.rs) over session files that an agent *)
(* is still writing.  Every command runs on a thread of the blocking pool; *)
(* between two of its file operations the file may grow, the calibration   *)
(* may change and other commands may use the same caches, and the system   *)
(* may refuse any of them.                                                 *)
(*                                                                         *)
(* A file is the script of its lines, cut at size half lines; a line is    *)
(* [coll, wall, p] with p the point the loader makes of it.  What a load   *)
(* returns is the set of its line numbers.  A file's fingerprint is its    *)
(* size, since a session file only grows, and 0 when its metadata was      *)
(* refused.  The header is there from the start and never changes, so of   *)
(* reading it only the refusal is seen.                                    *)
(***************************************************************************)
EXTENDS ExperimentAnalysis

CONSTANTS
  Paths, Workers, Script, Calibrations,
  Requests,         (* the commands a worker gets: [kind, parts]           *)
  Corrupt,          (* the answer to a load that could not be parsed       *)
  Refused,          (* the answer when a file operation was refused        *)
  InitialSize,      (* how much of each file is there at first             *)
  Interval,         (* the interval in every header                        *)
  CheckpointEvery,  (* CHECKPOINT_EVERY_LINES (256)                        *)
  MaxIndexes,       (* MAX_WINDOW_INDEX_ENTRIES (8)                        *)
  MaxRunEntries,    (* MAX_CACHE_ENTRIES of the run cache                  *)
  MaxCommands,      (* bound: commands asked                               *)
  MaxRefusals       (* bound: file operations refused                      *)

(* What a command reads: the region of a path.                             *)
Parts == [path : Paths, from : Nat \cup {None}, to : Nat \cup {None}]

(* The writer stamps every line; an overview is of one whole file.         *)
ASSUME WorkspaceAssumption ==
  /\ CheckpointEvery \in Nat \ {0} /\ MaxIndexes \in Nat \ {0} /\ MaxRunEntries \in Nat \ {0}
  /\ MaxCommands \in Nat /\ MaxRefusals \in Nat
  /\ Calibrations \subseteq Nat /\ \E c \in Calibrations : \A d \in Calibrations : c <= d
  /\ None \notin Nat /\ Corrupt # Refused
  /\ InitialSize \in [Paths -> Nat]
  /\ \A p \in Paths :
       /\ DOMAIN Script[p] = 1..Len(Script[p]) /\ Len(Script[p]) \in Nat
       /\ \A lines \in SUBSET DOMAIN Script[p] : lines \notin {Corrupt, Refused}
       /\ \A i \in DOMAIN Script[p] : Script[p][i].wall \in Nat
       /\ InitialSize[p] \in 2..(2 * Len(Script[p]))
       /\ Script[p][1].coll = "header" /\ Script[p][1].wall > 0
  /\ \A w \in Workers : \A r \in Requests[w] :
       /\ r.kind \in {"overview", "range", "compare", "experiment"}
       /\ r.parts \in Seq(Parts) /\ Len(r.parts) > 0
       /\ r.kind = "overview" => Len(r.parts) = 1 /\ r.parts[1].from = None /\ r.parts[1].to = None

VARIABLES
  size,      (* half lines of each file                                    *)
  active,    (* id of the active calibration                               *)
  windows,   (* window_index_cache                                         *)
  overview,  (* overview_cache                                             *)
  runs,      (* run_cache                                                  *)
  job,       (* job[w]: the command a worker runs, and its answer          *)
  left,      (* commands that may still be asked                           *)
  refusals   (* file operations that may still be refused                  *)

vars == <<size, active, windows, overview, runs, job, left, refusals>>

(* A job keeps when it was asked (at: the sizes then, the calibrations     *)
(* active since, the files whose fingerprint was refused), the lines it    *)
(* holds before they are an answer, the ends of its files (the footers it  *)
(* takes the status from), and the parts it has got.                       *)
Idle == [pc |-> "idle", req |-> [kind |-> "none", parts |-> <<>>],
         at |-> [size |-> <<>>, cal |-> {}, old |-> {}],
         cal |-> None, fp |-> 0, stat |-> 0, start |-> 0, held |-> {}, ends |-> <<>>, got |-> <<>>]

Init ==
  /\ size = InitialSize
  /\ active = Min(Calibrations)
  /\ windows = <<>> /\ overview = None /\ runs = <<>>
  /\ job = [w \in Workers |-> Idle]
  /\ left = MaxCommands /\ refusals = MaxRefusals

(* The stamps of the lines of each file.                                   *)
Wall == [p \in Paths |-> [i \in DOMAIN Script[p] |-> Script[p][i].wall]]
Lines(k) == k \div 2
Torn(k) == k % 2 = 1
Key(f, k, v) == [x \in DOMAIN f \cup {k} |-> IF x = k THEN v ELSE f[x]]

-----------------------------------------------------------------------------
Collectors == {"battery", "cpu", "gpu", "net", "display", "proc", "os_power", "event", "footer"}

(* The session a load makes of some lines of a file.  The clock base is    *)
(* the first stamp that is not zero, whichever line it is on.              *)
load_session(p, got) ==
  LET points(ls) == [i \in DOMAIN ls |-> ls[i].p]
      session(stamped, of) ==
        [base |-> IF stamped = <<>> THEN 0 ELSE Head(stamped).wall,
         battery |-> of.battery, extra |-> of.battery, cpu |-> of.cpu, gpu |-> of.gpu,
         net |-> of.net, display |-> of.display, procs |-> of.proc,
         policy |-> of.os_power, events |-> of.event,
         recovered |-> IF of.footer = <<>> THEN None ELSE Last(of.footer)]
      from(lines) ==
        session(SelectSeq(lines, LAMBDA l : l.wall > 0),
                [c \in Collectors |-> points(SelectSeq(lines, LAMBDA l : l.coll = c))])
      numbered(nums) == [i \in DOMAIN nums |-> Script[p][nums[i]]]
  IN from(numbered(SelectSeq([i \in DOMAIN Script[p] |-> i], LAMBDA i : i \in got)))

(* A checkpoint, the line's offset to its stamp, for every CheckpointEvery-th *)
(* line that has one; the first `seen` lines can be read up to their stamp.    *)
build_window_index(p, seen) ==
  [o \in {x \in 0..(seen - 1) : x % CheckpointEvery = 0 /\ Wall[p][x + 1] > 0} |-> Wall[p][o + 1]]

(* Where the binary search for the range's start may land: the last checkpoint *)
(* at or before it or any that equals it, and the first if there is none.      *)
(* Where stamps fall, any of those.                                            *)
start_offset_for(cps, from) ==
  LET before == {o \in DOMAIN cps : cps[o] <= from}
      rising == \A o, q \in DOMAIN cps : o <= q => cps[o] <= cps[q]
      first == {o \in DOMAIN cps : \A q \in DOMAIN cps : o <= q}
  IN IF from = 0 \/ DOMAIN cps = {} THEN {0}
     ELSE IF before = {} THEN first
     ELSE IF rising THEN {o \in before : cps[o] = from \/ \A q \in before : q <= o}
     ELSE before \cup first

(* The lines a region read keeps: it ends at the first line past the range,    *)
(* and the header is put in front only when it starts later.  A torn line is   *)
(* unstamped until its stamp can be read, and cannot be parsed if it is kept.  *)
load_region(p, start, part, seen) ==
  LET from == Or(part.from, 0)
      to == Or(part.to, 0)
      w(i) == IF i <= seen THEN Wall[p][i] ELSE 0
      read == {i \in (start + 1)..Lines(size[p] + 1) :
                 \A j \in (start + 1)..i : ~(to > 0 /\ w(j) > to)}
      kept == {i \in read : w(i) = 0 \/ w(i) >= from}
  IN IF \E i \in kept : i > Lines(size[p]) THEN Corrupt
     ELSE kept \cup (IF start > 0 THEN {1} ELSE {})

(* A line that is being written shows its stamp or does not yet.               *)
Seen(p) == Lines(size[p])..Lines(size[p] + 1)

(* The footers in the tail, without the line that is cut.  The last gives the  *)
(* status, recovered, coverage and discontinuities of a session.               *)
footer_line(p) == {i \in 1..Lines(size[p]) : Script[p][i].coll = "footer"}

-----------------------------------------------------------------------------
(* The world outside: the agent writes, the user activates a calibration.  *)

Append_(p) ==
  /\ size[p] < 2 * Len(Script[p])
  /\ size' = [size EXCEPT ![p] = @ + 1]
  /\ UNCHANGED <<active, windows, overview, runs, job, left, refusals>>

SetActive(c) ==
  /\ c > active                  (* bound: a revision is activated once     *)
  /\ active' = c
  /\ job' = [w \in Workers |-> IF job[w].pc \in {"idle", "done"} THEN job[w]
                                ELSE [job[w] EXCEPT !.at.cal = @ \cup {c}]]
  /\ UNCHANGED <<size, windows, overview, runs, left, refusals>>

-----------------------------------------------------------------------------
(* A command.                                                               *)

Part(w) == job[w].req.parts[Len(job[w].got) + 1]
FirstPc(kind) == CASE kind = "overview" -> "calibration" [] kind = "experiment" -> "fingerprint"
                   [] OTHER -> "interval"
NextPc(kind) == IF kind = "experiment" THEN "fingerprint" ELSE "stat"
Errors == {Corrupt, Refused}

(* Mutant: half of the context that the core looks at.                     *)
context_ms_half(r) == Min({Max({(r[2] - r[1]) \div 2, 5 * Second}), 150 * Second})
(* A region command loads the range and as much again on either side.      *)
context_ms(r) == Min({Max({r[2] - r[1], 10 * Second}), 300 * Second})
range_parts(p, r) ==
  LET lo == Min({r[1], r[2]})
      hi == Max({r[1], r[2]})
      ctx == context_ms(<<lo, hi>>)
  IN <<[path |-> p, from |-> Max({0, lo - ctx}), to |-> hi + ctx]>>

Request(w, r) ==
  /\ job[w].pc \in {"idle", "done"} /\ left > 0
  /\ left' = left - 1
  /\ job' = [job EXCEPT ![w] = [Idle EXCEPT !.pc = FirstPc(r.kind), !.req = r,
                                            !.at = [size |-> size, cal |-> {active}, old |-> {}]]]
  /\ UNCHANGED <<size, active, windows, overview, runs, refusals>>

(* One part is there; an error ends every command but an experiment, which *)
(* lists the run as unavailable and goes on.                               *)
Got(j, lines) ==
  LET got == Append(j.got, lines)
      over == \/ Len(got) = Len(j.req.parts)
              \/ lines \in Errors /\ j.req.kind # "experiment"
  IN [j EXCEPT !.got = got, !.fp = 0, !.stat = 0, !.start = 0, !.held = {},
               !.at = IF over THEN Idle.at ELSE @,
               !.pc = IF over THEN "done" ELSE NextPc(j.req.kind)]

(* Any read may be refused; nothing is cached then.                        *)
Refusing == refusals > 0 /\ refusals' = refusals - 1
Refuse(w) ==
  /\ job[w].pc \in {"full", "interval", "tail", "meta", "stat", "index", "read"}
  /\ Refusing
  /\ job' = [job EXCEPT ![w] = Got(@, Refused)]
  /\ UNCHANGED <<size, active, windows, overview, runs, left>>

(* Overview: the active calibration, none when its file is refused; the    *)
(* fingerprint and the cache; then the whole file, the interval in its     *)
(* header and its tail, each by a read of its own.                         *)
ReadCalibration(w) ==
  /\ job[w].pc = "calibration"
  /\ \/ job' = [job EXCEPT ![w].cal = active, ![w].pc = "fingerprint"] /\ refusals' = refusals
     \/ job' = [job EXCEPT ![w].cal = None, ![w].pc = "fingerprint"] /\ Refusing
  /\ UNCHANGED <<size, active, windows, overview, runs, left>>

(* Overviews and an experiment's runs are cached under the fingerprint the *)
(* file has when it is looked up, or (0, 0) when that is refused.          *)
Fingerprint(w) ==
  LET p == Part(w).path
  IN /\ job[w].pc = "fingerprint"
     /\ \/ job' = [job EXCEPT ![w].pc = "cache", ![w].fp = size[p]] /\ refusals' = refusals
        \/ /\ job' = [job EXCEPT ![w].pc = "cache", ![w].fp = 0, ![w].at.old = @ \cup {p}]
           /\ Refusing
     /\ UNCHANGED <<size, active, windows, overview, runs, left>>

(* Mutant: the calibration is not part of the cache's key.                 *)
cache_hit_any_calibration(e, p, fp, cal) == e # None /\ e.path = p /\ e.bytes = fp
cache_hit(e, p, fp, cal) ==
  e # None /\ e.path = p /\ e.bytes = fp /\ e.cal = cal

OverviewLookup(w) ==
  /\ job[w].pc = "cache" /\ job[w].req.kind = "overview"
  /\ job' = [job EXCEPT ![w] =
       IF cache_hit(overview, Part(w).path, @.fp, @.cal)
         THEN [Got(@, overview.got) EXCEPT !.cal = overview.cal, !.ends = overview.ends]
         ELSE [@ EXCEPT !.pc = "full"]]
  /\ UNCHANGED <<size, active, windows, overview, runs, left, refusals>>

LoadFull(w) ==
  LET p == Part(w).path
  IN /\ job[w].pc = "full"
     /\ job' = [job EXCEPT ![w] =
          IF Torn(size[p]) THEN Got(@, Corrupt)
          ELSE [@ EXCEPT !.held = 1..Lines(size[p]), !.pc = "interval"]]
     /\ UNCHANGED <<size, active, windows, overview, runs, left, refusals>>

(* The value that is kept is of the lines of one moment and the end of a   *)
(* later one, under the fingerprint of a moment before both.               *)
ReadTail(w) ==
  LET p == Part(w).path
      ends == <<footer_line(p)>>
  IN /\ job[w].pc = "tail"
     /\ job' = [job EXCEPT ![w] = [Got(@, @.held) EXCEPT !.ends = ends]]
     /\ overview' = [path |-> p, bytes |-> job[w].fp, cal |-> job[w].cal,
                     got |-> job[w].held, ends |-> ends]
     /\ UNCHANGED <<size, active, windows, runs, left, refusals>>

(* Experiment: each run's outcome is cached under its range.               *)
cache_key(part) == <<part.path, Or(part.from, 0), Or(part.to, 0)>>

RunLookup(w) ==
  LET k == cache_key(Part(w))
  IN /\ job[w].pc = "cache" /\ job[w].req.kind = "experiment"
     /\ job' = [job EXCEPT ![w] =
          IF k \in DOMAIN runs /\ runs[k].fp = @.fp THEN Got(@, runs[k].got)
          ELSE [@ EXCEPT !.pc = "stat"]]
     /\ UNCHANGED <<size, active, windows, overview, runs, left, refusals>>

(* Mutant: the outcome is kept under the fingerprint the file has by now.  *)
CachedLate(w) ==
  Key(IF Cardinality(DOMAIN runs) >= MaxRunEntries THEN <<>> ELSE runs,
      cache_key(Part(w)), [fp |-> size[Part(w).path], got |-> job[w].held])
(* A full cache is emptied before a new entry goes in.                     *)
Cached(w) ==
  LET full == Cardinality(DOMAIN runs) >= MaxRunEntries
      entry == [fp |-> job[w].fp, got |-> job[w].held]
  IN Key(IF full THEN <<>> ELSE runs, cache_key(Part(w)), entry)

(* The interval is read before the parts of a range or a comparison, and   *)
(* after the lines of an overview or a run.                                *)
ReadInterval(w) ==
  LET to(pc) == job' = [job EXCEPT ![w].pc = pc] /\ runs' = runs
      kind == job[w].req.kind
  IN /\ job[w].pc = "interval"
     /\ \/ kind = "overview" /\ to("tail")
        \/ kind = "range" /\ to("stat")
        \/ kind = "compare" /\ to("meta")
        \/ kind = "experiment" /\ job' = [job EXCEPT ![w] = Got(@, @.held)] /\ runs' = Cached(w)
     /\ UNCHANGED <<size, active, windows, overview, left, refusals>>

(* A comparison takes the status of both sides before it loads them.       *)
ReadMeta(w) ==
  LET ends == Append(job[w].ends, footer_line(job[w].req.parts[Len(job[w].ends) + 1].path))
      all == Len(ends) = Len(job[w].req.parts)
  IN /\ job[w].pc = "meta"
     /\ job' = [job EXCEPT ![w].ends = ends, ![w].pc = IF all THEN "stat" ELSE @]
     /\ UNCHANGED <<size, active, windows, overview, runs, left, refusals>>

(* A region: the file's size, the index for that size, and the read.       *)
StatRegion(w) ==
  LET p == Part(w).path
      hit == p \in DOMAIN windows /\ windows[p].size = size[p]
  IN /\ job[w].pc = "stat"
     /\ \/ /\ hit
           /\ \E o \in start_offset_for(windows[p].cps, Or(Part(w).from, 0)) :
                job' = [job EXCEPT ![w].pc = "read", ![w].start = o]
        \/ ~hit /\ job' = [job EXCEPT ![w].pc = "index", ![w].stat = size[p]]
     /\ UNCHANGED <<size, active, windows, overview, runs, left, refusals>>

(* The index is built from the file as it is now and kept under the size   *)
(* the file had; a full cache loses any one entry first.                   *)
BuildIndex(w) ==
  LET p == Part(w).path
      full == Cardinality(DOMAIN windows) >= MaxIndexes /\ p \notin DOMAIN windows
      stored(cps, evict) == Key([x \in DOMAIN windows \ {evict} |-> windows[x]], p,
                                [size |-> job[w].stat, cps |-> cps])
  IN /\ job[w].pc = "index"
     /\ \E seen \in Seen(p), evict \in IF full THEN DOMAIN windows ELSE {None} :
          LET cps == build_window_index(p, seen) IN
          /\ windows' = stored(cps, evict)
          /\ \E o \in start_offset_for(cps, Or(Part(w).from, 0)) :
               job' = [job EXCEPT ![w].pc = "read", ![w].start = o]
     /\ UNCHANGED <<size, active, overview, runs, left, refusals>>

ReadRegion(w) ==
  /\ job[w].pc = "read"
  /\ \E seen \in Seen(Part(w).path) :
       LET lines == load_region(Part(w).path, job[w].start, Part(w), seen) IN
       job' = [job EXCEPT ![w] =
         IF lines # Corrupt /\ @.req.kind = "experiment"
           THEN [@ EXCEPT !.held = lines, !.pc = "interval"]
           ELSE Got(@, lines)]
  /\ UNCHANGED <<size, active, windows, overview, runs, left, refusals>>

Step(w) ==
  \/ ReadCalibration(w) \/ Fingerprint(w) \/ OverviewLookup(w) \/ LoadFull(w) \/ ReadTail(w)
  \/ RunLookup(w) \/ ReadInterval(w) \/ ReadMeta(w)
  \/ StatRegion(w) \/ BuildIndex(w) \/ ReadRegion(w) \/ Refuse(w)

Next ==
  \/ \E p \in Paths : Append_(p)
  \/ \E c \in Calibrations : SetActive(c)
  \/ \E w \in Workers : Step(w) \/ \E r \in Requests[w] : Request(w, r)

Spec == Init /\ [][Next]_vars /\ \A w \in Workers : WF_vars(Step(w))

-----------------------------------------------------------------------------
(* Properties.                                                              *)

Phase(j) == IF j.pc \in {"idle", "done"} THEN j.pc ELSE "asked"
Abstract == INSTANCE Snapshot WITH
  phase <- [w \in Workers |-> Phase(job[w])],
  since <- [w \in Workers |-> job[w].at],
  asked <- [w \in Workers |-> job[w].req],
  shown <- [w \in Workers |-> IF job[w].pc = "done"
                               THEN [parts |-> job[w].got, ends |-> job[w].ends, cal |-> job[w].cal]
                               ELSE [parts |-> <<>>, ends |-> <<>>, cal |-> None]]

(* Whatever the window indexes, the overview cache and the run cache hold, *)
(* a command answers with what its files were at some moment since it was  *)
(* asked, under a calibration active since then (load_region,              *)
(* overview_keyed, reduce_cached).  The status and totals of an overview   *)
(* may be of a later moment than its series, and a part whose fingerprint  *)
(* was refused of an earlier one than the request.                         *)
AnswersAreSnapshots == Abstract!SnapshotSpec

(* What the code says of a fingerprint: a recording that grew is always    *)
(* rebuilt, so no part that a command gets is older than the command.  It  *)
(* does not hold when a fingerprint is refused twice (README, section 4).  *)
GrownIsRebuilt ==
  [][\A w \in Workers : \A i \in DOMAIN job'[w].got \ DOMAIN job[w].got :
       LET part == job[w].req.parts[i] IN
       \E k \in job[w].at.size[part.path]..size[part.path] :
         Abstract!Shows(part, k, job'[w].got[i])]_vars

(* Why it is so: what the caches and a running command rest on.            *)
Busy(j) == j.pc \notin {"idle", "done"}
Jobs == [pc : {"idle", "calibration", "fingerprint", "cache", "full", "interval", "tail", "meta",
               "stat", "index", "read", "done"},
         req : {Idle.req} \cup UNION {Requests[w] : w \in Workers},
         at : [size : {<<>>} \cup [Paths -> Nat], cal : SUBSET Nat, old : SUBSET Paths],
         cal : {None} \cup Nat, fp : Nat, stat : Nat, start : Nat, held : SUBSET Nat,
         ends : Seq(SUBSET Nat), got : Seq(Errors \cup SUBSET Nat)]

TypeOK ==
  /\ size \in [Paths -> Nat] /\ \A p \in Paths : size[p] \in 2..(2 * Len(Script[p]))
  /\ active \in Calibrations
  /\ job \in [Workers -> Jobs]
  /\ left \in Nat /\ refusals \in Nat

(* A busy worker has parts to get, and is at a file operation of its kind  *)
(* of command.                                                             *)
Stage(kind) ==
  CASE kind = "overview" -> {"calibration", "fingerprint", "cache", "full", "interval", "tail"}
    [] kind = "range" -> {"interval", "stat", "index", "read"}
    [] kind = "compare" -> {"interval", "meta", "stat", "index", "read"}
    [] kind = "experiment" -> {"fingerprint", "cache", "stat", "index", "read", "interval"}
    [] OTHER -> {}
AtWork(w) ==
  Busy(job[w]) =>
    /\ job[w].req \in Requests[w]
    /\ job[w].at.size \in [Paths -> Nat]
    /\ Len(job[w].got) < Len(job[w].req.parts)
    /\ job[w].pc \in Stage(job[w].req.kind)

(* A checkpoint is a stamped line that was begun, with its stamp.          *)
Checkpoints(p, cps) ==
  /\ DOMAIN cps \subseteq 0..(Lines(size[p] + 1) - 1)
  /\ \A o \in DOMAIN cps : cps[o] = Script[p][o + 1].wall /\ cps[o] > 0
  /\ DOMAIN cps = {} \/ 0 \in DOMAIN cps
WindowsTrue == \A p \in DOMAIN windows : p \in Paths /\ Checkpoints(p, windows[p].cps)

(* An entry shows its file at the entry's fingerprint or later.            *)
ShownIn(part, from, to, got) == \E k \in from..to : Abstract!Shows(part, k, got)
Entry(part, fp, got) == part \in Parts /\ fp \in Nat /\ ShownIn(part, fp, size[part.path], got)
RunsTrue ==
  \A k \in DOMAIN runs : Entry([path |-> k[1], from |-> k[2], to |-> k[3]], runs[k].fp, runs[k].got)
WholeFile(p) == [path |-> p, from |-> None, to |-> None]
(* The footers among the lines are at the end, which was read later.       *)
EndIn(p, from, to, end) == \E k \in from..to : Abstract!EndsAt(p, k, end)
Ended(p, got, end) == \A i \in got : Script[p][i].coll = "footer" => i \in end
OverviewTrue ==
  overview # None =>
    LET p == overview.path IN
    /\ Entry(WholeFile(p), overview.bytes, overview.got) /\ overview.got \notin Errors
    /\ Len(overview.ends) = 1 /\ overview.ends \in Seq(SUBSET Nat)
    /\ EndIn(p, overview.bytes, size[p], overview.ends[1])
    /\ Ended(p, overview.got, overview.ends[1])

(* The earliest moment a job's part may be of: the request, or any before  *)
(* it when the file's fingerprint was refused.                             *)
Since(j, p) == IF p \in j.at.old THEN 0 ELSE j.at.size[p]

(* The parts, ends and lines a worker has are of moments since the         *)
(* request, and the active calibration and the one it read were active     *)
(* since then.                                                             *)
PartsTrue(w) ==
  Busy(job[w]) =>
    LET j == job[w] IN
    /\ \A p \in Paths : j.at.size[p] <= size[p]
    /\ \A i \in DOMAIN j.got :
         LET part == j.req.parts[i]
         IN ShownIn(part, Since(j, part.path), size[part.path], j.got[i])
    /\ active \in j.at.cal
    /\ j.pc \in {"fingerprint", "cache", "full", "interval", "tail"} /\ j.req.kind = "overview"
         => j.cal \in j.at.cal \cup {None}
    /\ j.fp <= size[Part(w).path]
    /\ j.pc = "cache" => Since(j, Part(w).path) <= j.fp

(* What is read before its part is complete: the lines that are held, and  *)
(* the ends of a comparison.                                               *)
Holds(j) == \/ j.pc = "tail"
            \/ j.pc = "interval" /\ j.req.kind \in {"overview", "experiment"}
HeldTrue(w) ==
  Holds(job[w]) =>
    LET part == Part(w)
        j == job[w]
    IN \E k \in j.fp..size[part.path] :
         Since(j, part.path) <= k /\ j.held \subseteq 1..Lines(k) /\ Abstract!Shows(part, k, j.held)
EndsTrue(w) ==
  Busy(job[w]) =>
    LET j == job[w] IN
    /\ \A i \in DOMAIN j.ends :
         LET p == j.req.parts[i].path IN EndIn(p, Since(j, p), size[p], j.ends[i])
    /\ Len(j.ends) = IF j.req.kind # "compare" \/ j.pc = "interval" THEN 0
                     ELSE IF j.pc = "meta" THEN Len(j.ends) ELSE Len(j.req.parts)
    /\ j.pc = "meta" => Len(j.ends) < Len(j.req.parts)

(* A read starts at the top or at a line that is not after the range's     *)
(* start.                                                                  *)
StartTrue(w) ==
  job[w].pc = "read" /\ job[w].start > 0 =>
    LET p == Part(w).path
        line == job[w].start + 1
    IN /\ line <= Lines(size[p] + 1)
       /\ 0 < Script[p][line].wall /\ Script[p][line].wall <= Or(Part(w).from, 0)

IndInv ==
  /\ TypeOK /\ WindowsTrue /\ RunsTrue /\ OverviewTrue
  /\ \A w \in Workers : AtWork(w) /\ PartsTrue(w) /\ HeldTrue(w) /\ EndsTrue(w) /\ StartTrue(w)

(* A command of the kind is answered, without an error.  What it was given *)
(* does not change when others start, so it is looked at before they do.   *)
Answered(w, kind) ==
  /\ job[w].pc = "done" /\ job[w].req.kind = kind
  /\ kind # "experiment" => Range(job[w].got) \cap Errors = {}
  /\ \A v \in Workers \ {w} : job[v].pc = "idle"

(* The comparison input a part and its lines make.                         *)
Input(part, got) == [s |-> load_session(part.path, got), iv |-> Interval,
                     from |-> part.from, to |-> part.to]
InputOf(j, i) == Input(j.req.parts[i], j.got[i])

(* The analysis of a range from the region that was loaded agrees with the *)
(* analysis of the file up to there, in all that is timed by the lines'    *)
(* own stamps: the context that range_analysis loads is all that           *)
(* context_windows looks at.                                               *)
RegionAgrees ==
  \A w \in Workers : Answered(w, "range") =>
       LET j == job[w]
           of(got) == analyze_range(load_session(j.req.parts[1].path, got), Interval,
                                    j.req.range[1], j.req.range[2])
           own == {"battery_discharge_w", "battery_charge_w", "battery_pct", "cpu_utility_pct",
                   "net_rx_bps", "display_brightness_pct"}
           agree(part, full) ==
             /\ part.energy = full.energy /\ part.quality.events = full.quality.events
             /\ \A k \in own : part.domains[k] = full.domains[k]
             /\ SelectSeq(part.changes, LAMBDA f : f.key \in own)
                = SelectSeq(full.changes, LAMBDA f : f.key \in own)
       IN agree(of(j.got[1]), of(1..Max(j.got[1])))

(* Every peak an overview offers holds a sample of that height, in the     *)
(* session, and every marker of the file is offered (interesting_regions,  *)
(* of the lines that were loaded).                                         *)
RegionsAreReal ==
  \A w \in Workers : Answered(w, "overview") =>
       LET series == [power |-> "battery_discharge_w", cpu |-> "cpu_utility_pct", gpu |-> "gpu_util_pct"]
           real(s, found) ==
             /\ \A r \in Range(found) : r.kind = "peak" =>
                  \E x \in Range(metric_series(s)[series[r.domain]]) :
                    x.v # None /\ 10 * x.v = r.score /\ r.start <= x.wall /\ x.wall < r.end
             /\ Len(found) < 24 => \A e \in Range(s.events) : e.kind = "marker" =>
                  \E r \in Range(found) : r.kind = "marker" /\ r.start = e.wall
           of(s) == real(s, interesting_regions(s, Interval))
       IN of(load_session(job[w].req.parts[1].path, job[w].got[1]))

Neg(d) == IF d = None THEN None ELSE -d
Flip(x) == <<x[2], x[1]>>
Opposite(x) ==
  CASE x = "increased" -> "decreased" [] x = "decreased" -> "increased"
    [] x = "missing_a" -> "missing_b" [] x = "missing_b" -> "missing_a"
    [] x = "a_only" -> "b_only"       [] x = "b_only" -> "a_only"
    [] x = "A" -> "B"                 [] x = "B" -> "A"  [] OTHER -> x

Mirror(c) ==
  LET metric(m) == [m EXCEPT !.a = m.b, !.b = m.a, !.delta = Neg(@), !.direction = Opposite(@),
                             !.relative = None, !.samples = Flip(@), !.coverage = Flip(@),
                             !.evidence = IF Len(@) = 1 THEN @ ELSE Flip(@)]
      row(r) == [r EXCEPT !.delta = Neg(@), !.presence = Opposite(@), !.counts = Flip(@),
                          !.ambiguous = Flip(@)]
      domain(d) == [available |-> Flip(d.available),
                    metrics |-> [k \in DOMAIN d.metrics |-> Neg(d.metrics[k])]]
  IN [c EXCEPT !.weakest = Opposite(@),
       !.energy.total = Flip(@), !.energy.average = Flip(@), !.energy.normalized = Flip(@),
       !.metrics = [k \in DOMAIN @ |-> metric(@[k])],
       !.domains = [d \in DOMAIN @ |-> domain(@[d])],
       !.processes.ticks = Flip(@), !.processes.rows = [i \in DOMAIN @ |-> row(@[i])],
       !.correlations = [k \in DOMAIN @ |-> [@[k] EXCEPT !.n = Flip(@)]],
       !.distributions = [k \in DOMAIN @ |-> Flip(@[k])],
       !.caveats = {<<x[1], x[2], Opposite(x[3])>> : x \in @}]

Mirrored(a, b) ==
  LET plain(c) == [c EXCEPT !.metrics = [k \in DOMAIN @ |-> [@[k] EXCEPT !.relative = None]]]
  IN plain(compare_ranges(b, a)) = Mirror(compare_ranges(a, b))

(* Comparing B with A says of every metric, process, domain and caveat     *)
(* what comparing A with B says, the other way round; the percentage of A  *)
(* aside (compare_ranges).                                                 *)
SwapMirrors ==
  \A w \in Workers : Answered(w, "compare") =>
       Mirrored(InputOf(job[w], 1), InputOf(job[w], 2))

(* The runs of an experiment's answer, as the record describes them.       *)
Outcomes(j) ==
  LET there == SelectSeq([i \in DOMAIN j.got |-> i], LAMBDA i : j.got[i] \notin Errors)
      run(i) == [id |-> i, group |-> j.req.runs[i].group, pair |-> j.req.runs[i].pair,
                 included |-> j.req.runs[i].included, x |-> InputOf(j, i)]
  IN [n \in DOMAIN there |-> reduce_run(run(there[n]), j.req.metric)]

(* An excluded run has no part in the result: the verdict, the effect, the *)
(* pairs, the confounders and the caveats are those of the experiment      *)
(* without it (analyze_outcomes).                                          *)
ExcludedHeldOut ==
  \A w \in Workers :
       Answered(w, "experiment") =>
       LET verdict(rs) == [analyze_outcomes(rs, job[w].req.metric, job[w].req.pairing)
                             EXCEPT !.baseline.total = 0, !.treatment.total = 0]
           same(out) == verdict(out) = verdict(SelectSeq(out, LAMBDA r : r.included))
       IN same(Outcomes(job[w]))

=============================================================================
