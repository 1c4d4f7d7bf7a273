# Power Forensics: a TLA+ development

Power Forensics records how a laptop spends its battery. A monitor samples a
set of collectors, each on a thread of its own, and appends what they return
to a session file of JSON lines; an agent process runs the monitor behind a
named pipe; a desktop GUI lists, analyses, compares and calibrates recorded
sessions. This directory models the parts of the program in which threads,
failures and kills meet, checks them with TLC, and proves what matters most of
them with TLAPS.

How to run: `tlc -config MCX.cfg MCX` for a model, `tlapm XProofs.tla` for the
proofs. Every run and every listed theorem is in `PROJECT.json`, which also
maps each definition to the lines it models.

## 1. Inventory

| Part | Source | State | Operations | Interacts with |
|---|---|---|---|---|
| Collector scheduler | `pf-agent/src/sched.rs` | bounded channel, `in_flight`, `max_in_flight`, `finished`, stop flag | worker loop, `before_send`, `after_recv`, `try_send` with back-off, `sleep_checked`, `finish_bounded` | monitor loop (receiver), collectors (callbacks) |
| Timeout watch | `sched.rs` | per-collector last arrival, open episode | `arrival`, `poll` | monitor loop |
| Monitor loop | `pf-agent/src/monitor.rs` | stop flag, writer, counters, snapshot | `cmd_monitor_inner` | scheduler, session writer, service, console handler |
| Console handler | `monitor.rs`, `mod console` | `TARGET`, a raw pointer to the stop flag | install, uninstall, handler | monitor; runs on a system thread |
| Session writer | `pf-agent/src/store.rs` | `BufWriter`, `lines`, `since_flush` | create, header, sample, event, footer, flush | monitor |
| Session recovery | `pf-core/src/session.rs`, `pf-cli/src/main.rs` | none | `recover_session_text`, `cmd_recover` | the file a kill leaves |
| Service | `pf-agent/src/service.rs` | running, paused, pause and stop cells, marker queue, session path, snapshot | start, stop, pause, resume, `add_marker`, `drain_markers`, `handle` | pipe server writes, monitor reads |
| Pipe server | `pf-agent/src/ipc_server.rs` | one pipe instance, ready channel | `serve_loop`, `create_and_accept`, `serve_connection` | service, clients |
| Agent command | `pf-cli/src/main.rs` | server thread, exit code | `cmd_agent` | monitor, pipe server |
| Elevated helper | `pf-elevated`, `ElevatedPoller` in `monitor.rs` | child process, deadline, backoff | poll, spawn, kill | a scheduler worker |
| IPC framing, client, single instance | `ipc_server.rs`, `pf-core/src/ipc.rs`, `pf-gui/.../agent.rs` | chunk and request deadlines, the named mutex | `acquire`, `read_frame`, `write_frame`, `query` | pipe server, other processes |
| Session loader, archive | `pf-core/src/session.rs`, `archive.rs`, `cmd_store` | columns, event blob, three files | load, migrate, read back, export rows, commit | GUI, CLI |
| Energy | `pf-core/src/stats.rs`, `EnergyStream` in `monitor.rs` | running totals, segment | push, integrate, discontinuities | monitor, recovery, analysis |
| Range analysis, comparison, experiment analysis | `analyze.rs`, `compare.rs`, `experiment.rs` | none (pure) | `analyze_range`, `interesting_regions`, `compare_ranges`, `analyze_outcomes` | GUI |
| Diagnosis, A/B comparison, redaction, calibration fit | `analysis.rs`, `calib.rs`, `calibration.rs` | none (pure) | `diagnose_session`, `compare_sessions_with_settle`, `redact_report_identifiers`, `fit_display_calibration` | CLI, GUI |
| Collectors | `pf-collectors/src/*.rs` | counter query, instance table, retry, caches, previous counters | `read` of each collector | a scheduler worker |
| Storage budget | `store.rs` | none (pure) | `plan_budget_prune` | CLI |
| Session index | `pf-gui/src-tauri/src/index.rs`, `sessions.rs` | the index file | `list_sessions`, `rebuild_index` | a recording that grows |
| GUI analysis commands | `sessions.rs`, `analyze.rs`, `compare.rs`, `experiment.rs` | window index, overview cache, run cache | `load_region`, overview, range, compare, experiment | a recording that grows, the active calibration |
| Calibration store | `pf-gui/.../calibration.rs` | one file per workspace | load, create, `set_active`, get | GUI threads |
| Experiment store | `pf-gui/.../experiment.rs` | one file per experiment, `write_lock` | save, create, analyze, delete, get | GUI threads |
| Command line | `pf-cli/src/main.rs` | the files it writes, the saved display model | experiment, calibrate, report, diagnose, compare, export, store, recover, agent, ipc | all of the above |
| Settings, dashboard, GUI bridge, front end | the rest | presentation | | |

What is hard here, and what a test would hardly reach:

- Workers bump a counter, raise a mark and queue a message in three steps,
  while the writer gives messages back and shutdown drops the receiver.
- A collector may block for ever in a system call. Finalization and the other
  collectors must not wait for it.
- A write may fail half way and a kill may come between two flushes; the
  footer, the exit code and recovery must agree about what is in the file.
- Pause, stop and markers arrive on the pipe thread between any two steps of
  the monitor; the pause gate and the last drain are taken at a moment that
  is old when it is used.
- The console handler runs on a system thread with a raw pointer.
- GUI commands run on a pool of threads and share one temporary name per
  file; some take a lock, some do not; some work on a copy read long before.
- The same commands read a session while the agent appends to it, through
  caches keyed by a size or a calibration that is old when the entry is made.
- Two clocks, one of which jumps, decide where energy may be integrated; the
  running total and the one recomputed after a kill must take the same
  decisions.
- A pipe has one instance, its clients send a frame in pieces, vanish, or meet
  a server that dies; processes start, are refused and crash around a mutex.
- A counter query needs two collections to give a rate, between which counters
  fail, devices are replugged and process numbers are used again.
- The verdicts of comparisons and experiments are drawn from many figures of
  two sides, in passes of which each filters and weighs by itself.

`PROJECT.json` lists each hazard at its line, with the properties that would
catch it, or the reason none does yet.

## 2. Modules

Each action is one access of shared state by one thread: a critical section,
an atomic load or store, a system call. Properties are at the end of each
module, before them stands `Spec`; operators whose comment begins with
"Mutant" are wrong variants of a definition, used only to see that a property
would notice.

**`Scheduler`** (state and steps of `sched.rs` and of the consumer half of
`cmd_monitor_inner`). `pc[w]` walks the worker's closure: stagger, loop head,
collect (returns, panics, or never returns when `w \in MayBlock`), stop check,
`before_send` in two steps (`Count`, `RaiseMax`), the `try_send` loop with its
three outcomes, the give-back on the way out (`Reconcile`), the sliced sleep,
`FinishedGuard::drop` (`Exit`) and the end of the thread itself, which comes after it
(`Leave`). The consumer is `LoopTop`, `Receive`, `AfterRecv`, `RecvTimeout`,
`Disconnected`, `SetStop`, `DropReceiver`, and `finish_bounded`: `FinishJoined`, when
every worker was counted, with `Join`, which waits for the threads without a bound, or
`FinishDeadline`; `ConsoleStop` is the interrupt. Only the
number of messages is kept.

**`SessionStore`** (`SessionWriter` over std's `BufWriter`, and
`recover_session_text`). A file is a sequence of units `<<line, piece>>`, with
piece 0 the newline, so a torn line and a line glued to the next one are
visible. `BeginLine` is the call; `PutBody*` the three ways `write_all` of a
body can meet the buffer; `PutNewline`, `FlushBound`, `FooterFlush` and
`DropWriter` the rest. Each physical write may fail after any number of units
(at most `MaxErrors` times), and `Kill` may come at any step.
`recover_session_text` is an operator on the file, taken in every state: the runs
of units between newlines (`TextLines`), and those of them before the first that
does not parse or is a footer (`KeptLines`).

**`Agent`** composes the main thread (`cmd_agent` around
`cmd_monitor_inner`), the pipe server (`serve_loop`), the `Service` they share,
and the console handler. A sample, a marker or the footer is one record here:
its bytes are `SessionStore`'s business, the workers that produce samples
`Scheduler`'s. Any verb may come in any order; each file operation in
`IoFails` may fail. `sealed` and `sincePause` are history variables.

**`TempFile`** is the file system as the GUI's stores use it: two names, the
files they are bound to, open handles that keep writing to a file after it was
renamed, `std::fs::write` as open-with-truncation and write, refused
operations, torn writes. It is external in `PROJECT.json` where it models the
operating system. Three stores extend it:

- **`CalibrationStore`**: `create` and `set_active` load, change and save the
  set without a lock; `get` answers from a fresh load. A load may be refused, which
  `load_set` answers like a missing file (`Loaded`); `blinded` remembers that a create
  took a set for empty that was not.
- **`ExperimentStore`**: `save` under `write_lock` (write, remove the old
  file, rename), `analyze` on a copy it read before reducing the sessions,
  `delete` without the lock.
- **`SessionIndex`**: `list_sessions` and `rebuild_index` on several threads,
  for one recording that grows while they look at its length, time and tail. `Scan` is
  `scan_details`: no counts of a recording that is too large or that cannot be opened, and
  the counts so far where a line cannot be read (`end = "error"`).

**`EnergyMath`** holds the integration of `stats.rs` (one pass over all samples,
segments cut by the two clocks) and the running form of `monitor.rs`
(`Push` is `EnergyStream::push`). **`Monitor`** is the loop that uses it: a queue of
samples that carry both stamps, `Advance` of the clocks (the monotonic one
stands still in a sleep, the wall clock can be set), the handler of each
collector, the adaptive boost, `PollCollector` (the timeout watch, before every
receive), the elevated helper as a child that answers, fails or hangs
(`ElevatedPoller`), pause, and the footer. What the loop has recorded and counted is
one value `st`, and a handler a function of it; the lines of a collector are a
sequence of their own, which is how recovery reads them. `recovered_summary` is what
recovery would compute from those lines. The specification is `MonitorSpec`, so that
`MonitorProofs` can speak of it and of `Scheduler`'s `Spec`; for the same reason that of
`Pipe` is `PipeSpec` and that of `Bench` is `BenchSpec`.

**`Pipe`** is two processes that try to own the agent, the mutex as the set of
processes with a handle to it, the single pipe instance with its bytes in
flight, and clients. A frame is its length, moved in chunks; time is counted
against `io_timeout_ms` and the absolute deadline of `serve_connection`. A
process may crash at any step, a client may send a short, whole or oversized
frame, or leave.

**`SessionLoad`** makes points of recorded lines, with quality, kind of absence and
provenance, and the rows of the exports with their merge. **`Archive`** is the
codec by what survives it: interning of names, the numeric store, the event
blob and the reader of the archives that `cmd_store` writes. **`ArchiveStore`** runs
`cmd_store` over them: three temporary files, three renames, a kill anywhere.

**`Analyze`**, **`Compare`**, **`ExperimentAnalysis`** are the pure analyses of
`pf-core` over integers. **`Snapshot`** is an abstract specification: an answer
shows, of each of its files, one state the file was in since the question
(`Shows`: nothing outside the range, and every line that is `Required`), and a
calibration that was active since then, or none where it could not be read; it has all its
parts, or ends in an error. What an answer says of a file's *end* (status, recovery,
totals of the footer) is of such a moment too, but may be of another one (`EndsAt`): the code reads the
end by itself, for an overview after the lines, for a comparison before the sides. **`Workspace`** is the GUI's commands with their three caches, step by step
between two file operations: fingerprint, cache, lines, interval, head and tail are steps of
their own, the file grows and the calibration changes between any two, and each may be refused. Where the code's answer depends on details the model
leaves out (where a binary search lands among equal or falling stamps, whether
the stamp of a line that is being written can be read yet), it is any of them;
`Abstract == INSTANCE Snapshot WITH ...` maps a job to its phase and answer,
and `AnswersAreSnapshots` says that `Workspace` implements `Snapshot`.

**`PdhCollectors`** has the counter queries (`pdh.rs`) and the four collectors on
top of them; **`Collectors`** adds the six others and the world they read:
instances come, go, work and change generation, a provider is up, busy,
without data or denied. A collector reads when its interval has passed.

**`Diagnose`**, **`Redact`**, **`DisplayFit`** are `analysis.rs`, the redaction and the
display model as operators; text is a sequence of symbols, some of which
have a shape (a path, a GUID, an address). **`Bench`** runs the commands of the
command line over them: experiments block by block with drift, settling time
and interruptions, sweeps with a screen that may be exchanged, reports,
diagnoses with baselines, comparisons and exports.

**`SessionStoreProofs`**, **`ExperimentStoreProofs`**, **`CalibrationStoreProofs`**,
**`SessionIndexProofs`**, **`WorkspaceProofs`** and **`CollectorsProofs`** hold the theorems
about the module they are named after, **`MonitorProofs`** those about `Scheduler` and
`Monitor`, **`AgentProofs`** those about `Agent` and `Pipe`; **`CalibrationStoreProofs`** has
also what is proved of `Bench`, the other keeper of a calibration. The inductive invariants stand
in the modules themselves, except that of `Monitor`, which needs the definitions of the
proof. `MC*` give constants their values.

## 3. Runs

| Run | Bounds | What it shows |
|---|---|---|
| `scheduler` | 2 workers, one may block for ever; capacity 1 | `in_flight` is exactly what was not given back; `queue_max` is a true high-water mark; only threads that are past every collector call are joined; every responsive worker ends after stop, a blocked one notwithstanding, and the shutdown returns |
| `session_store` | 4 lines of 1, 2 or 4 units, buffer of 4, flush every 2, one failing write | at most `flush_every - 1` acknowledged lines are lost in a kill; the footer's count is right even after torn lines; an interrupted session is recoverable |
| `agent` | 2 markers, queue of 1, 2 samples, every file operation may fail | a completed pause lets at most the one sample through that had passed the gate; no marker is lost, doubled or reordered between queue, drain and file, except those counted as dropped; a marker answered before the loop ended is in the file; stop terminates the process |
| `calibration` | 2 threads, 4 requests, 1 kill, 1 refusal | what can be read is consistent in every race; as long as commands did not overlap and no create was refused the set it extends, nothing confirmed is lost |
| `experiment` | 3 threads, 5 commands, 1 kill, 1 refusal | until a fault no saved record is missing outside a save (that no record is torn and no foreign file renamed is proved, section 5) |
| `session_index` | 2 listings at a time, a recording that grows beyond what is scanned, clock of 2 seconds, 1 kill, 1 refusal or read error | an entry that the fingerprint lets through describes the recording as it is now, whatever was recorded while it was built; a listing includes all that was recorded before it began; both but for counts that ended at a read error |
| `monitor` | 3 samples, 3 messages, queue of 2, boost after 2 readings for 2 samples, clocks in half intervals with one jump | timeout episodes open and close in pairs, one event each; the boosted and the helper's cadence always return; the footer equals what recovery would compute, through gaps, pauses, failed reads, sleeps and clock changes |
| `pipe` | 2 processes, 2 clients, frames of 1 and 2 units (2 is too large), a response larger than the buffer | one owner; a connection never outlives the absolute deadline; a request is handled at most once; every query returns |
| `archive` | every pair of 15 kinds of lines, at equal or later instants, one kill | the archive reads back what the loader made of the file; the merge of the exports is a stable sort |
| `workspace` | 2 workers, 2 commands of 4 kinds, at once or in sequence, over 3 files (growing, recovered, clock set back twice), index cache of 1, run cache of 2, 1 refusal | answers are snapshots (refinement); a range's analysis does not depend on how much was loaded around it; the peaks offered are real; a comparison mirrors when its sides are exchanged; an excluded run has no part in a verdict |
| `collectors` | each of 10 collectors for 7 reads and 4 changes of its world, 2 instances | rates cover exactly their window and belong to their process; a new device shows or the sample says stale; recovery within the longest backoff; change events replay to what was last seen |
| `bench` | 2 commands, 1 to 3 repetitions of blocks of 5 samples, 2 screens, 4 recorded sessions | linear drift cancels in a balanced experiment; watts are shown only for the screen that was measured; exchanged sides mirror the comparison; validation figures come from points that were not fitted; redacted text holds no identifier |

Why the bounds are enough. *Scheduler*: a full channel, a worker that waits
for room while another one raises the mark, and a blocked worker all occur
with two workers and capacity 1; the safety part is proved for all values.
*SessionStore*: lines shorter than, equal to and larger than what the buffer
has left, and two flush periods. *Agent*: one sample on each side of a pause;
one marker more than the queue holds. *Monitor*: a sample before, in and after
a gap, and a helper that is late by one poll. *Pipe*: two of each side meet in
every order around one instance; a frame of one unit and one that is too
large are all that the checks on length tell apart. *Archive*: what one line
does to the codec is seen with one other line of any kind before or after it
(equal names, equal stamps, equal process numbers). *Workspace*: one command
fills a cache, the file grows or the calibration changes, the other looks; constraint
`OnePartAtOnce` lets only commands of one part overlap that share a cache, since one of several
parts takes the same steps for each of them; that any commands may overlap is proved.
*Collectors*: two rebuild intervals and one backoff fit in seven reads.
*Bench*: one repetition has no balance, two have it, three have not; a command
changes the stored model or baseline and the next one uses it. *Stores*: two overlapping commands and
one before or after them; the third thread of the experiment store lets an
analysis, a save and a deletion overlap.

Symmetry is used for the threads of the stores and the screens of `bench`, in
runs that check invariants only. `pipe`, `archive`, `workspace`, `collectors` and
`bench` may stop (`CHECK_DEADLOCK FALSE`): all processes have exited, or the
bounded number of commands and reads is used up.

The type invariants (`TypeOK`) are proved where a proof module exists and are
documentation elsewhere.

**Fairness.** Scheduler: weak fairness of a worker's own steps (the operating
system runs ready threads; every wait in the loop is a bounded sleep slice), of
`collect` for collectors outside `MayBlock` only, and of the consumer, whose
every wait is `recv_timeout` or the grace period. Nothing is assumed of the
cadence's end (`SleepElapses`), of the console, or of stop requests. Agent: weak
fairness of the main thread and of the server, whose waits all have a
deadline (ready channel 5 s, `recv_timeout`, accept poll, frame deadlines);
nothing is assumed of clients. Pipe: time passes, the server's waits have
deadlines, and a client looks for the pipe, gives up or notices a lost
connection; no client has to send or read, no process has to start or live.
The other runs have no liveness property.

## 4. Disagreements between the code and what is said of it

Met while modelling. The models contain these behaviours; the properties are
stated so that they hold of the code, with the exception as their condition. Four
claims of the code's comments are stated as they stand, in the module they are about:
`RevisionsAppendOnly`, `CountsNeverGuessed`, `ReadingsWereRecorded` and `GrownIsRebuilt`. They do
not hold, and no run has them; added to the configuration of its run, TLC gives the steps of
the counterexample (for `GrownIsRebuilt` with `MaxRefusals = 2`).

*Agent and monitor.*
- A client that opens and closes the pipe before `ConnectNamedPipe` makes it
  return `ERROR_NO_DATA`, which `create_and_accept` (`ipc_server.rs:987`) turns
  into an error that ends `serve_loop`; `ipc_server.rs:910` says a client error
  must not kill the server.
- The early returns for an unknown or empty collector list
  (`monitor.rs:1939`) skip `console::uninstall`, and a handler that has loaded
  `TARGET` may use it after the flag is gone; `monitor.rs:1709` says `TARGET` is
  cleared before.
- A marker answered after the monitor's last drain is in no session (hence
  "before the loop ended" in `BeforeStopRecorded`); while paused the monitor drops
  samples, where `service.rs` says session writes continue.
- The boosted interval is `max(base / 4, 250)`, slower than a base below 250 ms.
  The overdue poll comes before the receive, so after a stall a collector whose
  sample is queued is reported late. `monitor.rs:1335` promises percentiles within
  one bin of 0.1 W, which does not hold of the other histograms.
- The handle of a refused start keeps the mutex alive for a moment and can
  refuse a third start; `ipc serve` takes no mutex and can take the pipe's name
  between two accepts of an agent.

*Stores and archive.*
- Two overlapping `create`s lose one revision (`calibration.rs:449`), and so does a single
  one whose read of the set is refused: `load_set` (`calibration.rs:300`) makes an empty set
  of every failure, which `create` numbers from and saves over the history
  (`RevisionsAppendOnly`). `calibration.rs:8` says revisions are append-only and
  history is never overwritten (hence the two conditions of `SoloConfirmedKept`).
- `scan_details` ends at the first line it cannot read and returns the counts so far
  (`index.rs:132`), which are saved under the fingerprint of the whole recording and reused;
  `index.rs:101` says no count is ever guessed (`CountsNeverGuessed`; hence
  `end = "error"` in `ReuseIsExact` and `ListingCurrent`). A recording that could not be opened
  has no counts, which is saved and reused too.
- An analysis that began before a save puts the older definition back
  (`experiment.rs:434`); `docs/USAGE.md:71` says the ordering is chosen once and
  persisted. A kill or a refused rename after `remove_file` leaves only the
  `.tmp`, which nothing reads (hence the condition of `RecordKept`).
- Two listings share a temporary name (`index.rs:66`), so a rename can put a file
  in place that another thread is still writing; the comment says a crash cannot
  leave a half-written index.
- A `store --force` that is killed or refused between its renames (`main.rs:1210`) leaves the
  manifest of one archive beside the samples of another, and nothing in them tells
  (`ReadingsWereRecorded`); `main.rs:1173` says a failed write never harms the archive
  that is there before the replacement is complete. A reading of unknown
  quality comes back as fresh, the archived wall clock is the base plus the
  monotonic stamp, and some milliseconds slip by one in the conversion to
  seconds (`Slips`); two adapters of one name share a series. `RoundTrip` excludes
  these.

*Analysis.*
- An overview reads the lines first and the status, recovery, coverage and discontinuities
  later (`analyze.rs:387`, `:390`). A footer appended in between gives an overview that says
  "ok" and whose series lack the last samples; it is cached until the file changes again. A
  comparison reads the ends of its files before its sides (`side_meta`). `Snapshot` asks of
  lines and end a moment each, not the same one; what it does ask is that an overview's end has the
  footers of its lines.
- A fingerprint that is refused becomes `(0, 0)` (`analyze.rs:376`, `experiment.rs:343`) and is used
  as a key: the second refusal finds the answer of the first, although the recording has
  grown. `index.rs:77` says it always rebuilds (`GrownIsRebuilt`; hence `old` in
  `Snapshot`, the files whose state could be an earlier one). A calibration that cannot be
  read is none.
- `weakest_side` names A when only A has coverage; `battery_clocks` can bridge a
  boundary when a glitched sample falls outside the range; a discontinuity is
  placed by its monotonic time and is off after an earlier sleep.
- A region whose start is an exact checkpoint misses earlier lines of the same
  instant, and one that starts at offset 0 after the header's stamp loses the
  header (hence `Required` leaves out lines of the first instant and unstamped
  ones); a torn last line makes the whole session corrupt for a moment.
- Where the wall clock was set back, a region can start at a checkpoint behind
  lines of the range, since the binary search (`sessions.rs:622`) assumes that
  stamps rise, and the read ends at the first line past the range; `Required`
  leaves out lines with an earlier stamp behind them. A line torn inside the
  digits of its stamp is read with a number that is too small
  (`extract_wall_ms`, `sessions.rs:549`) and can become a checkpoint; that is
  the one state of a growing file which the model leaves out.
- A confounder "power source unknown" hides a real change of it
  (`experiment.rs:13`); a zero difference counts as an increase in `consistent`.
- An odd number of repetitions does not cancel drift, nor do two of which one
  lost a block to its settling time; `main.rs:1025` says order effects cannot
  masquerade as a condition effect (hence the condition of `DriftCancels`).
- When the training points are all at one level the fit of all points is
  validated by points it contains (`calibration.rs:231`); the comment of the
  function says a training fit is never presented as validation.
- The screen's identity is read before a sweep; a screen exchanged during it gets
  the model of two (`model.own` in `Bench`). A report of a session from another
  machine uses this machine's model.
- Names of one character are not redacted, nor is a quoted cell once its
  quotes are doubled; both are outside `RedactedHides`.

*Collectors.*
- A rebuild reads over an empty window and reports zero rates
  (`gpu.rs:585`, `storage.rs:208`, `network.rs:583`), against which `cpu.rs:317` warns;
  `SteadyRates` speaks of reads between rebuilds.
- A process whose I/O counters cannot be read gets a baseline of zero
  (`proc.rs:326`); a failed HDR or USB enumeration is reported as a change;
  policy values of the old scheme stay when powercfg fails on a change.

## 5. Proofs

`MonitorProofs`, of the threads, for every finite non-empty set of workers, every
positive capacity and every set of blocking collectors:

- `Inductive`: `Spec => []IndInv`, from which follow `TypeCorrect` (the unsigned
  counters never go below zero), `Accounting`, `HighWaterMark`,
  `HighWaterBound` and `JoinsOnlyTheEnded`.
- `JoinsOnlyTheEnded` (`OnlyEndedAreJoined`): the counter by which `finish_bounded` decides is
  the number of workers that reported their end (`FinishedCounted`, whichever way they left
  the loop), and once it is the number of all workers it stays so (`JoinCounted`).
- The mark is the difficult part. `queued <= maxInFlight` is not inductive:
  between a worker's `fetch_add` and its `compare_exchange` the mark may be behind
  `in_flight` by as many workers as are in between, and they raise it in any
  order. `MarkCatchesUp` says what is preserved: whichever subset of them raises
  the mark next, the result lags `in_flight` by at most the number of workers
  that still have not. With `InFlightAccounted` it gives the theorem, because a
  message is queued only by a worker that has raised the mark.

`MonitorProofs`, of the loop, for any selection of collectors, any interval, cadence of
the helper and boost, any readings and any course of the two clocks:

- `MonitorInvariant`: `MonitorSpec => []MonitorInv`. Most of it is `StateInv(st)`, a
  predicate of one state value, because handlers are functions of it. It is shown of
  each function, and of the loop's actions by composing them; what touches neither
  the battery's lines, the energies, the boost nor the events that count is `Silent`, and
  `SilentKeeps` deals with all of those at once.
- `EpisodesAlternate` (`EpisodesPaired`): for each collector, timeouts are recoveries plus
  one while it is overdue (`Paired`). A poll may report several collectors, one after the
  other (`poll_collector_timeouts` recurs over the active ones), so `Paired` is shown to
  survive each report, and by induction the poll (`PollsKeep`).
- `BoostsEnd` (`CadenceRestored`): `Boosts` counts the samples that the boosts so far have
  had; a hint adds the length of a boost to what is left of it.
- `FootersTellTheSame` (`FootersAgree`): the running energies are, at every moment, what
  `integrate_segmented_clocks` makes of the battery's lines so far (`Accounted`). The step is
  `StreamGrows`: one more sample adds a boundary, or a pair, or nothing to the whole integral
  (`IntegrateGrows`), and `Push` adds the same. The whole integral is made of sums over
  the steps of the series, so this is an induction over the lines. No theorem
  with an operator parameter is needed: an induction is over the *set* of numbers at
  which a claim holds (`SetInduction`), a recursive function exists by such an induction
  (`RecursionExists`), and the sum of a sequence follows from that of its front
  (`SumGrows`).

`SessionStoreProofs`, for any lengths of lines, any buffer capacity, any flush
period and any number of failing writes and lines:

- All is said of `Text`, the file followed by the buffer, position by position,
  looking only backwards (`Formed`, `InOrder`, `FooterPlaced`, `Untorn`). A flush does
  not change it, a body or a newline extends it, and a kill leaves a beginning of
  it, of which everything still holds (lemma `LooksBack`). That is why one
  invariant serves the running writer and the file that is found afterwards.
- `LossIsBounded`: until a write fails, the newlines of lines `1..lines - since_flush`
  are in the file, and the acknowledged lines are fewer than `flush_every` more
  (`NothingFailed`; the line that makes the flush due is acknowledged only after
  it). Recovery keeps every line that has its newline in the file (`EndedIsKept`):
  two lines of a text do not overlap, and a newline in an untorn text ends a line
  that parses.
- `FootersCount` holds with failing writes too. A torn body is glued to the next
  line and counted with it, so the newlines, not the lines begun, are what
  `lines` counts (`AtStep`), and the footer starts after that many.
- `InterruptedIsRecoverable` from the same invariant.

`ExperimentStoreProofs`, for every finite non-empty set of threads and any
number of commands, kills and refused operations:

- `Inductive`: `IndInv` is `TypeOK`, the lock (`LockHeld`), the temporary file
  and the target. A reader never meets a torn record because the only thread
  that can have the temporary file open holds the lock, the file it renames is
  the one it has just written whole, and delete never touches the temporary
  name. From it: `TypeCorrect`, `NeverTorn`, `OwnFile`.
- `NoFaultKeepsRecord`: `RecordKept`, with a second induction on top of
  `IndInv`; the lemma `FaultsOnlyGrow` lets its condition be used before the
  step.

`AgentProofs`, of the pipe, for any processes and clients, any frame sizes, buffer
sizes and timeouts:

- `PipeInv` is `PipeTypeOK`, `MutexHeld`, `WithinLifetime` and `OneExchange`.
- `AtMostOneOwner`: who owns monitoring has a handle, and a process that finds
  the name taken never becomes the owner; its own handle may outlive the
  owner's, which refuses others and admits nobody.
- `ConnectionsAreBounded`: `srv.age <= Deadline` alone is not preserved by the
  passing of time. `WithinLifetime` adds that the operation in progress ends
  before the lifetime does, because `Begin` gives it the smaller of its own
  timeout and of what is left.
- `RequestsHandledOnce`: `OneExchange` ties the phase of the instance to the
  client it serves: a header or a body is read only for a client whose request
  was not handled yet, and anything on its way back is a response.

`AgentProofs`, of the agent, for any number of markers and samples, any positive queue capacity
and any set of file operations that may fail:

- `IndInv` is `TypeOK`, `Gated`, `InOrder`, `Conserved`, `Counted` and `Sealed`.
- `PausesFreeze`: `Gated` says which steps of the main thread still lie between
  the gate it passed and the record it writes.
- `MarkersAreConserved`: a marker is in one of file, hand and queue, or counted
  as evicted or failed, and never in two. Order is kept because what is further
  on was queued earlier (`InOrder`), which is stronger than that each of the
  three is ascending; `Counted` accounts for the moment between the queue's lock
  and the one of the state, when `markers_total` is one behind.
- `AnsweredIsRecorded`: the last drain empties the queue of all that was
  answered before the loop ended (`Sealed`).

`CalibrationStoreProofs`, for any finite non-empty set of threads and any number
of requests, kills and refused operations:

- `TrailsAreUnbroken`: every set in a file *and* every working copy is consistent
  (`CopiesConsistent`); torn and empty files do not parse, and `load_set` answers
  them with the empty set.
- `ConfirmedIsKept` (`SoloConfirmedKept`): until two commands overlap or a create takes a set
  it could not read for empty, `Solo` holds, with the contents of the temporary file at each
  step of the only command in progress.

`CalibrationStoreProofs`, of the command line, for any set of screens, any sweeps, any
recorded sessions and any number of commands (of a screen it is assumed that it is not `None`):

- `WattsOfThisScreen` (`OwnPanelOnly`): `BenchInv` adds to it what each step relies on. A level
  that was read while another screen was attached takes the sweep's `own` away
  (`LevelRecorded`), so a model saved as own names a real screen, never `None`; the
  gate then lets it through for that screen only (`LoadedModel`), and no screen is
  exchanged below a report that is still on the terminal. What the models' slopes are
  plays no part.

`SessionIndexProofs`, likewise, for any length of the recording:

- `CacheIsHarmless` and `ListingsAreCurrent`: an entry is `Honest` (it took its
  length before it read), in every file, in every copy found in the index and,
  step by step, in the entry that is being built. Honest and of today's length
  is exact; no lock is needed for it. Of counts that ended at a read error nothing is said
  but that they are of the recording (`scan <= bytes`).

`WorkspaceProofs`, for any finite or infinite sets of workers and files, any
scripts with numbers as stamps, any ranges and any cache capacities:

- `AnswersAreOfMoments` is the refinement `Spec => Abstract!SnapshotSpec`. The
  mapping is the phase, request and answer of a job; `at`, the sizes and
  calibrations at the request and the files whose fingerprint was refused since, is a
  history variable.
- `IndInv` is needed to know what a cached thing is worth when it is used: a
  window index holds checkpoints of lines that are in the file (`WindowsTrue`);
  a cached run or overview shows its file at a moment between its fingerprint
  and now (`RunsTrue`, `OverviewTrue`, the end of the latter at a moment of its own), so a fingerprint equal to the size at a
  moment since the request makes it one of those moments; a read starts at the
  top or at a line that is not after the range's start (`StartTrue`), so no
  required line is before it.
- Each step is a step of `Snapshot` or leaves its variables alone: `Append_` is
  `Grow`, `SetActive` is `Activate`, `Request` is `Ask`, a refused fingerprint is `Unstamped`, the step that adds the last
  part (or the error) is `Reply`.

`CollectorsProofs`, for any finite set of instances, any table and backoff intervals,
any number of engines counted and any number of reads and of changes between them:

- `CollectorsInvariant`: `IndInv` ties a collector's state to `hist`, the record of what
  really happened. The last collection of a query is the last reading
  (`WindowIsLastReading`), also the one the warm-up made, and so are the energy baseline and
  the baseline of every life of a process that was read (`BaselineIsLastReading`); an
  instance missing from a table that is not stale is younger than the table
  (`TableIsRecent`); a collector that fails although its provider answers is within its
  backoff (`WaitsAtMost`); what it will compare next is what the timeline says
  (`ToldIsKept`). `PastReadings` is what keeps divisions honest: readings are of the past
  and work only grows while an instance is the same one.
- A read of a counter collector goes through stages, each with a lemma: the tick
  (`AdvanceBegins`), initialization or waiting (`InitReady`), the rebuild (`RebuildReady`),
  the window (`WindowOutcome`), the answer (`AnswerRun`). `RunGood` then holds for all
  four, and each only adds what is its own.
- `RatesAreShares` (`SteadyRates`), `DevicesAreSeen` (`NewDeviceSeen`), `CollectorsRecover`
  (`RecoversInTime`), `EventsTellAll` (`EventsReplay`) follow. The bound of `RecoversInTime` is
  `MaxBackoff`, the 320 of `backoff_ticks`, whatever base and shift are. That events replay
  needs `ChangesReplay`: an event is in the difference of two inventories exactly
  where they differ, so replaying it on the first gives the second.

The proofs rest on the named assumptions of the modules only. What they assume of
`None` (that it is none of the values it stands in for) is what a model value gives TLC
and `Option` gives the code. Every inductive invariant was checked by TLC on the
instances of section 3 before it was proved, except `MonitorInv`, of which the
properties were.

Checked by TLC only:
- The liveness properties `RespondersFinish`, `ShutdownReturns`, `StopTerminates` and
  `QueriesReturn`: they need fairness and `ENABLED`.
- `RoundTrip`, `MergeIsStableSort` of the archive, and `RegionAgrees`,
  `RegionsAreReal`, `SwapMirrors` and `ExcludedHeldOut` of `Workspace`, and `DriftCancels`,
  `SwapMirrored`, `HoldOutIsHonest` and `RedactedHides` of `Bench`. Each is about the value of a whole pipeline (filter, sort, fold, choose) on every
  input, not about the steps of the system: its proof would be an induction for
  every stage, and the sorted and filtered sequences of the community modules are
  defined by recursive operators or choices that the provers cannot unfold. The runs
  enumerate the inputs instead.

## 6. Not modelled

Reported as such in `PROJECT.json`: the dashboard, the front end and the HTML
report (rendering), argument parsing and tables of the command line, the
storage budget (one pass over a sorted list, whose boundary cases its tests
enumerate), settings, NVML, the elevated helper's own reading, security
descriptors of the pipe, the parser of JSON, and the reader of version 1 archives
(`load_archive`): nothing in the program writes one, and it refuses the manifest of those
that `cmd_store` writes.

In the modelled parts: rounding of floating-point numbers (figures are integers
in units chosen so that the divisions of the code are exact or cut alike),
the bootstrap of experiment intervals (left out, except the condition under which there is one), varints,
delta coding and checksums of the archive, wording and layout of every text.

## 7. Plan

Done: all modules and runs of sections 2 and 3, and the proofs of section 5.
Next: the analyses of `Analyze` and `Compare` stage by stage, with the induction
`MonitorProofs` uses for the energies, beginning with the mirror of a comparison;
lemmas about the operators that the proofs share (`TempFile`'s contents), where
they can be stated once.
