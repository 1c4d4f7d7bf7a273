-------------------------------- MODULE Agent --------------------------------
(***************************************************************************)
(* The agent process: cmd_agent (pf-cli/src/main.rs) starts the pipe server *)
(* thread (serve_loop, pf-agent/src/ipc_server.rs) and runs the monitor on  *)
(* the main thread (cmd_monitor_inner, pf-agent/src/monitor.rs).  Both      *)
(* share one Service (pf-agent/src/service.rs): the lifecycle state, the    *)
(* pause and stop cells, the queue of markers and the session path.  A      *)
(* third thread, the console control handler, raises the monitor's stop     *)
(* flag.                                                                    *)
(*                                                                          *)
(* Every action is one access of the shared state by one thread: a critical *)
(* section of a mutex, or one load or store of an atomic.  The workers of   *)
(* the scheduler are in module Scheduler, the bytes of the session file in  *)
(* module SessionStore; here a sample, a marker or the footer is one        *)
(* record.                                                                  *)
(***************************************************************************)
EXTENDS Integers, Sequences, FiniteSets, SequencesExt

CONSTANTS
  PendingCap,   (* MARKER_PENDING_CAP                                      *)
  IoFails,      (* session file operations that may fail                   *)
  MaxMarkers,   (* bound: marker requests                                  *)
  MaxSamples    (* bound: samples that arrive                              *)

ASSUME AgentAssumption ==
  /\ PendingCap \in Nat \ {0}
  /\ IoFails \subseteq {"create", "header", "event", "sample", "footer"}
  /\ MaxMarkers \in Nat
  /\ MaxSamples \in Nat

VARIABLES
  (* the Service *)
  running, paused,  (* AgentState                                          *)
  pause, stop,      (* the two shared cells                                *)
  queue,            (* MarkerQueue; markers are numbered as they come      *)
  accepted,         (* AgentState::markers_total                           *)
  evicted,          (* the markers counted by AgentState::markers_dropped  *)
  session_path,     (* the published path: "none" or "ours"                *)
  (* the main thread *)
  main, code,       (* where it is; the exit code                          *)
  pending,          (* markers taken by drain_markers, being written       *)
  session,          (* records in the session file                         *)
  failed,           (* markers whose event write failed (result ignored)   *)
  writer,           (* the session file: "absent", "open", "closed"        *)
  samples,          (* messages of the collectors received so far          *)
  interrupt,        (* the monitor's own stop flag: "unset", "set", "freed" *)
  (* the pipe server *)
  server, verb,     (* where it is; the request being handled              *)
  served,           (* marker requests handled so far                      *)
  serverStop,       (* the flag that ends the accept loop                  *)
  ready,            (* what the ready channel holds                        *)
  answered,         (* markers whose client got the Ok answer              *)
  (* the console handler *)
  target,           (* TARGET points at the monitor's stop flag            *)
  handler,          (* the handler has loaded a pointer and not used it    *)
  (* history *)
  sealed,           (* markers answered when the loop ended                *)
  sincePause        (* samples recorded since the last completed pause     *)

service == <<running, paused, pause, stop>>
markers == <<queue, accepted, evicted>>
monitor == <<main, code, pending, session, failed, writer, samples>>
pipe == <<server, verb, served, ready, answered>>
console == <<target, handler, interrupt>>
history == <<sealed, sincePause>>
vars == <<service, markers, session_path, monitor, pipe, serverStop, console,
          history>>

Verbs == {"stop", "pause", "resume", "marker", "other"}
Path == {"none", "ours"}
(* Records of the session that are not markers, which are 1, 2, ...         *)
Sample == 0
Footer == -1

(* main.rs cmd_agent up to the spawn of the server: Service::new and        *)
(* Service::start have run.                                                 *)
Init ==
  /\ running = TRUE /\ paused = FALSE
  /\ pause = FALSE /\ stop = FALSE
  /\ queue = <<>> /\ accepted = 0 /\ evicted = {}
  /\ session_path = "none"
  /\ main = "waitReady" /\ code = -1
  /\ pending = <<>> /\ session = <<>> /\ failed = {}
  /\ writer = "absent" /\ samples = 0
  /\ interrupt = "unset"
  /\ server = "accept" /\ verb = "other" /\ served = 0
  /\ serverStop = FALSE /\ ready = "empty" /\ answered = {}
  /\ target = FALSE /\ handler = FALSE
  /\ sealed = {} /\ sincePause = 0

-----------------------------------------------------------------------------
(* The pipe server thread.                                                  *)

(* The first outcome of create_and_accept is sent on ready, once.           *)
Signal(r) == ready' = IF ready = "empty" THEN r ELSE ready

ServerKeeps == UNCHANGED <<service, markers, session_path, monitor, serverStop,
                           console, history>>

(* while !stop.load()                                                       *)
ServerEnds ==
  /\ server = "accept" /\ serverStop
  /\ server' = "ended"
  /\ Signal("ok")
  /\ ServerKeeps /\ UNCHANGED <<verb, served, answered>>

(* create_and_accept: Ok(Some(conn)).                                       *)
AcceptConnected ==
  /\ server = "accept" /\ ~serverStop
  /\ server' = "read"
  /\ Signal("ok")
  /\ ServerKeeps /\ UNCHANGED <<verb, served, answered>>

(* Ok(None): nobody came within the poll, or the client vanished while the  *)
(* overlapped connect was pending.                                          *)
AcceptIdle ==
  /\ server = "accept" /\ ~serverStop
  /\ Signal("ok")
  /\ ServerKeeps /\ UNCHANGED <<server, verb, served, answered>>

(* Err, which ends the server: the operating system refused the pipe, the   *)
(* event or the wait, or a client opened and closed the pipe between        *)
(* CreateNamedPipeW and ConnectNamedPipe (ERROR_NO_DATA).                   *)
AcceptFails ==
  /\ server = "accept" /\ ~serverStop
  /\ server' = "dead"
  /\ Signal("err")
  /\ ServerKeeps /\ UNCHANGED <<verb, served, answered>>

(* serve_connection: read_frame fails (timeout, partial frame, dead peer)   *)
(* and the connection is dropped ...                                        *)
ReadFails ==
  /\ server = "read"
  /\ server' = "accept"
  /\ ServerKeeps /\ UNCHANGED <<verb, served, ready, answered>>

(* ... or yields a request, which respond and Service::handle dispatch.     *)
ReadRequest(v) ==
  /\ server = "read"
  /\ v = "marker" => served < MaxMarkers
  /\ verb' = v
  /\ server' = "handle"
  /\ ServerKeeps /\ UNCHANGED <<served, ready, answered>>

ServerUnlessVerb == UNCHANGED <<verb, served, ready, answered>>

(* Service::stop, as the "stop" verb; the monitor reads the two cells       *)
(* without the lock, so it may see the first store without the second.      *)
HandleStop ==
  /\ server = "handle" /\ verb = "stop"
  /\ running' = FALSE /\ paused' = FALSE
  /\ pause' = FALSE
  /\ sincePause' = 0
  /\ server' = "stopped"
  /\ ServerUnlessVerb
  /\ UNCHANGED <<stop, markers, session_path, monitor, serverStop, console, sealed>>

StopCell ==
  /\ server = "stopped"
  /\ stop' = TRUE
  /\ server' = "reply"
  /\ ServerUnlessVerb
  /\ UNCHANGED <<running, paused, pause, markers, session_path, monitor,
                 serverStop, console, history>>

(* Service::pause: nothing unless running.                                  *)
HandlePause ==
  /\ server = "handle" /\ verb = "pause"
  /\ paused' = (paused \/ running)
  /\ pause' = (pause \/ running)
  /\ server' = "reply"
  /\ ServerUnlessVerb
  /\ UNCHANGED <<running, stop, markers, session_path, monitor, serverStop,
                 console, history>>

(* Service::resume releases the state lock before it clears the cell.       *)
HandleResume ==
  /\ server = "handle" /\ verb = "resume"
  /\ paused' = FALSE
  /\ server' = "resumed"
  /\ ServerUnlessVerb
  /\ UNCHANGED <<running, pause, stop, markers, session_path, monitor,
                 serverStop, console, history>>

ResumeCell ==
  /\ server = "resumed"
  /\ pause' = FALSE
  /\ sincePause' = 0
  /\ server' = "reply"
  /\ ServerUnlessVerb
  /\ UNCHANGED <<running, paused, stop, markers, session_path, monitor,
                 serverStop, console, sealed>>

(* Service::add_marker under the queue lock: at the cap the oldest pending  *)
(* marker makes room and is counted.                                        *)
HandleMarker ==
  /\ server = "handle" /\ verb = "marker"
  /\ LET full == Len(queue) >= PendingCap
         rest == IF full THEN Tail(queue) ELSE queue
     IN /\ queue' = Append(rest, served + 1)
        /\ evicted' = IF full THEN evicted \cup {Head(queue)} ELSE evicted
  /\ served' = served + 1
  /\ server' = "count"
  /\ UNCHANGED <<service, accepted, session_path, monitor, serverStop, console,
                 history, verb, ready, answered>>

(* ... and under the state lock, after the queue lock is released.          *)
CountMarker ==
  /\ server = "count"
  /\ accepted' = accepted + 1
  /\ server' = "reply"
  /\ ServerUnlessVerb
  /\ UNCHANGED <<service, queue, evicted, session_path, monitor, serverStop,
                 console, history>>

(* status, snapshot, recent_timeline, events, session_list, unknown verbs   *)
(* and malformed requests change nothing.                                   *)
HandleOther ==
  /\ server = "handle" /\ verb = "other"
  /\ server' = "reply"
  /\ ServerKeeps /\ ServerUnlessVerb

(* The answer is written and read, or the client is gone.                   *)
Reply ==
  /\ server = "reply"
  /\ \/ answered' = IF verb = "marker" THEN answered \cup {served} ELSE answered
     \/ answered' = answered
  /\ server' = "accept" /\ verb' = "other"
  /\ ServerKeeps /\ UNCHANGED <<served, ready>>

Server ==
  \/ ServerEnds \/ AcceptConnected \/ AcceptIdle \/ AcceptFails
  \/ ReadFails \/ (\E v \in Verbs : ReadRequest(v))
  \/ HandleStop \/ StopCell \/ HandlePause \/ HandleResume \/ ResumeCell
  \/ HandleMarker \/ CountMarker \/ HandleOther \/ Reply

-----------------------------------------------------------------------------
(* The main thread.                                                         *)

Fails(op) == op \in IoFails

MainKeeps == UNCHANGED <<service, markers, pipe>>

Step(here, there) == main = here /\ main' = there

(* ready_rx.recv_timeout(5 s)                                               *)
Ready ==
  /\ Step("waitReady", "create") /\ ready = "ok"
  /\ MainKeeps
  /\ UNCHANGED <<session_path, code, pending, session, failed, writer, samples,
                 serverStop, console, history>>

(* An error, or nothing in time: stop the server and exit 2.                *)
NotReady ==
  /\ Step("waitReady", "join") /\ ready # "ok"
  /\ serverStop' = TRUE
  /\ code' = 2
  /\ MainKeeps
  /\ UNCHANGED <<session_path, pending, session, failed, writer, samples,
                 console, history>>

(* SessionWriter::create                                                    *)
CreateSession ==
  /\ main = "create"
  /\ \/ writer' = "open" /\ main' = "publish" /\ code' = code
     \/ Fails("create") /\ writer' = writer /\ main' = "guard" /\ code' = 2
  /\ MainKeeps
  /\ UNCHANGED <<session_path, pending, session, failed, samples, serverStop,
                 console, history>>

(* The path is published only now that the file exists.                     *)
PublishPath ==
  /\ Step("publish", "header")
  /\ session_path' = "ours"
  /\ MainKeeps
  /\ UNCHANGED <<code, pending, session, failed, writer, samples, serverStop,
                 console, history>>

(* session.header, then the capabilities event (result ignored).            *)
WriteHeader ==
  /\ main = "header"
  /\ \/ main' = "install" /\ code' = code
     \/ Fails("header") /\ main' = "unwind" /\ code' = 2
  /\ MainKeeps
  /\ UNCHANGED <<session_path, pending, session, failed, writer, samples,
                 serverStop, console, history>>

(* console::install(&stop)                                                  *)
InstallHandler ==
  /\ Step("install", "select")
  /\ target' = TRUE
  /\ MainKeeps
  /\ UNCHANGED <<session_path, code, pending, session, failed, writer, samples,
                 serverStop, handler, interrupt, history>>

(* The collectors option is looked at; an unknown or empty list returns 2.  *)
SelectCollectors ==
  /\ main = "select"
  /\ \/ main' = "drain" /\ code' = code
     \/ main' = "unwind" /\ code' = 2
  /\ MainKeeps
  /\ UNCHANGED <<session_path, pending, session, failed, writer, samples,
                 serverStop, console, history>>

(* Mutant: the drain takes a copy and leaves the queue as it is.            *)
DrainCopies(here, there) ==
  /\ Step(here, there)
  /\ pending' = pending \o queue
  /\ UNCHANGED <<service, markers, session_path, code, session, failed,
                 writer, samples, pipe, serverStop, console, history>>

(* drain_markers empties the queue under its lock: at the head of every     *)
(* iteration, and once more after the loop.                                 *)
DrainMarkers(here, there) ==
  /\ Step(here, there)
  /\ pending' = pending \o queue
  /\ queue' = <<>>
  /\ UNCHANGED <<service, accepted, evicted, session_path, code, session, failed,
                 writer, samples, pipe, serverStop, console, history>>

(* One marker event; session.event's result is ignored.                     *)
WriteMarker ==
  /\ main \in {"write", "finalWrite"} /\ pending # <<>>
  /\ pending' = Tail(pending)
  /\ \/ session' = Append(session, Head(pending)) /\ failed' = failed
     \/ Fails("event") /\ failed' = failed \cup {Head(pending)} /\ session' = session
  /\ MainKeeps
  /\ UNCHANGED <<session_path, main, code, writer, samples, serverStop, console,
                 history>>

(* The loop ends: what clients had been told is remembered.                 *)
Leave ==
  /\ main' = "shutdown"
  /\ sealed' = answered

(* The markers are written; the monitor's own flag, then the Service's.     *)
CheckStop ==
  /\ main = "write" /\ pending = <<>>
  /\ IF interrupt = "set"
       THEN Leave
       ELSE main' = "checkService" /\ sealed' = sealed
  /\ MainKeeps
  /\ UNCHANGED <<session_path, code, pending, session, failed, writer, samples,
                 serverStop, console, sincePause>>

CheckServiceStop ==
  /\ main = "checkService"
  /\ IF stop THEN Leave ELSE main' = "recv" /\ sealed' = sealed
  /\ MainKeeps
  /\ UNCHANGED <<session_path, code, pending, session, failed, writer, samples,
                 serverStop, console, sincePause>>

(* rx.recv_timeout(100 ms): a message, nothing, or no sender left.          *)
ReceiveSample ==
  /\ Step("recv", "gate")
  /\ samples < MaxSamples
  /\ samples' = samples + 1
  /\ MainKeeps
  /\ UNCHANGED <<session_path, code, pending, session, failed, writer,
                 serverStop, console, history>>

ReceiveNothing ==
  /\ Step("recv", "stopFile")
  /\ MainKeeps
  /\ UNCHANGED <<session_path, code, pending, session, failed, writer, samples,
                 serverStop, console, history>>

WorkersGone ==
  /\ main = "recv"
  /\ Leave
  /\ MainKeeps
  /\ UNCHANGED <<session_path, code, pending, session, failed, writer, samples,
                 serverStop, console, sincePause>>

(* Mutant: the gate does not look at the pause cell.                        *)
PauseGateOpen ==
  /\ Step("gate", "record")
  /\ MainKeeps
  /\ UNCHANGED <<session_path, code, pending, session, failed, writer, samples,
                 serverStop, console, history>>

(* if is_paused_flag(..): the sample is dropped.                            *)
PauseGate ==
  /\ Step("gate", IF pause THEN "stopFile" ELSE "record")
  /\ MainKeeps
  /\ UNCHANGED <<session_path, code, pending, session, failed, writer, samples,
                 serverStop, console, history>>

(* The payload's handler writes the line; it may be the last of --samples.  *)
RecordSample ==
  /\ main = "record"
  /\ \/ /\ session' = Append(session, Sample)
        /\ sincePause' = IF pause THEN sincePause + 1 ELSE 0
        /\ code' = code
        /\ \/ main' = "stopFile" /\ sealed' = sealed
           \/ Leave
     \/ /\ Fails("sample")
        /\ code' = 2
        /\ Leave
        /\ UNCHANGED <<session, sincePause>>
  /\ MainKeeps
  /\ UNCHANGED <<session_path, pending, failed, writer, samples, serverStop,
                 console>>

(* <out-dir>/stop.requested                                                 *)
CheckStopFile ==
  /\ main = "stopFile"
  /\ \/ main' = "drain" /\ sealed' = sealed
     \/ Leave
  /\ MainKeeps
  /\ UNCHANGED <<session_path, code, pending, session, failed, writer, samples,
                 serverStop, console, sincePause>>

(* Mutant: the queue is not drained once more after the loop.               *)
ShutdownNoDrain ==
  /\ Step("shutdown", IF code = 2 THEN "unwind" ELSE "finalWrite")
  /\ interrupt' = "set"
  /\ target' = FALSE
  /\ MainKeeps
  /\ UNCHANGED <<session_path, code, pending, session, failed, writer, samples,
                 serverStop, handler, history>>

(* stop.store(true), console::uninstall(), and the workers (Scheduler).     *)
Shutdown ==
  /\ Step("shutdown", IF code = 2 THEN "unwind" ELSE "finalDrain")
  /\ interrupt' = "set"
  /\ target' = FALSE
  /\ MainKeeps
  /\ UNCHANGED <<session_path, code, pending, session, failed, writer, samples,
                 serverStop, handler, history>>

WriteFooter ==
  /\ main = "finalWrite" /\ pending = <<>>
  /\ main' = "unwind"
  /\ \/ session' = Append(session, Footer) /\ code' = 0
     \/ Fails("footer") /\ session' = session /\ code' = 2
  /\ MainKeeps
  /\ UNCHANGED <<session_path, pending, failed, writer, samples, serverStop,
                 console, history>>

(* Returning drops the locals in reverse order: the writer and the Arc of   *)
(* the stop flag first ...                                                  *)
Unwind ==
  /\ Step("unwind", "guard")
  /\ writer' = "closed"
  /\ interrupt' = "freed"
  /\ MainKeeps
  /\ UNCHANGED <<session_path, code, pending, session, failed, samples,
                 serverStop, target, handler, history>>

(* ... the SessionPathGuard last.                                           *)
DropPathGuard ==
  /\ Step("guard", "svcStop")
  /\ session_path' = "none"
  /\ MainKeeps
  /\ UNCHANGED <<code, pending, session, failed, writer, samples, serverStop,
                 console, history>>

(* cmd_agent: svc.stop() ...                                                *)
StopService ==
  /\ Step("svcStop", "tellServer")
  /\ running' = FALSE /\ paused' = FALSE
  /\ pause' = FALSE /\ stop' = TRUE
  /\ sincePause' = 0
  /\ UNCHANGED <<markers, session_path, code, pending, session, failed, writer,
                 samples, pipe, serverStop, console, sealed>>

(* Mutant: the server is joined without being told to stop.                 *)
StopServerForgotten ==
  /\ Step("tellServer", "join")
  /\ MainKeeps
  /\ UNCHANGED <<session_path, code, pending, session, failed, writer, samples,
                 serverStop, console, history>>

(* ... stop.store(true) ...                                                 *)
StopServer ==
  /\ Step("tellServer", "join")
  /\ serverStop' = TRUE
  /\ MainKeeps
  /\ UNCHANGED <<session_path, code, pending, session, failed, writer, samples,
                 console, history>>

(* ... server.join(), and the exit code of the monitor.                     *)
JoinServer ==
  /\ Step("join", "exit")
  /\ server \in {"ended", "dead"}
  /\ MainKeeps
  /\ UNCHANGED <<session_path, code, pending, session, failed, writer, samples,
                 serverStop, console, history>>

Main ==
  \/ Ready \/ NotReady \/ CreateSession \/ PublishPath \/ WriteHeader
  \/ InstallHandler \/ SelectCollectors
  \/ DrainMarkers("drain", "write") \/ DrainMarkers("finalDrain", "finalWrite")
  \/ WriteMarker \/ CheckStop \/ CheckServiceStop
  \/ ReceiveSample \/ ReceiveNothing \/ WorkersGone \/ PauseGate \/ RecordSample
  \/ CheckStopFile \/ Shutdown \/ WriteFooter \/ Unwind \/ DropPathGuard
  \/ StopService \/ StopServer \/ JoinServer

-----------------------------------------------------------------------------
(* The console handler, on a thread of the system.                          *)

ConsoleKeeps == UNCHANGED <<service, markers, session_path, monitor, pipe,
                            serverStop, history, target>>

(* TARGET.load(): null means nothing to do.                                 *)
HandlerLoads ==
  /\ main # "exit"
  /\ ~handler /\ target
  /\ handler' = TRUE
  /\ ConsoleKeeps /\ UNCHANGED interrupt

(* p.store(true)                                                            *)
HandlerStores ==
  /\ handler
  /\ handler' = FALSE
  /\ interrupt' = IF interrupt = "freed" THEN "freed" ELSE "set"
  /\ ConsoleKeeps

Exited ==
  /\ main = "exit"
  /\ UNCHANGED vars

Next == Server \/ Main \/ HandlerLoads \/ HandlerStores \/ Exited

(* Every wait of the two threads is bounded: recv_timeout, the accept poll, *)
(* the I/O deadlines of a connection.  The handler owes nothing.            *)
Fairness == WF_vars(Main) /\ WF_vars(Server)

Spec == Init /\ [][Next]_vars /\ Fairness

-----------------------------------------------------------------------------
(* The variables have their types.                                          *)
Flags == {running, paused, pause, stop, serverStop, target, handler} \subseteq BOOLEAN

TypeOK ==
  /\ Flags
  /\ queue \in Seq(1..MaxMarkers) /\ Len(queue) <= PendingCap
  /\ accepted \in 0..MaxMarkers /\ served \in 0..MaxMarkers
  /\ evicted \cup failed \cup answered \cup sealed \subseteq 1..MaxMarkers
  /\ session_path \in Path
  /\ main \in {"waitReady", "create", "publish", "header", "install", "select",
               "drain", "write", "checkService", "recv", "gate", "record",
               "stopFile", "shutdown", "finalDrain", "finalWrite", "unwind",
               "guard", "svcStop", "tellServer", "join", "exit"}
  /\ code \in {-1, 0, 2}
  /\ pending \in Seq(1..MaxMarkers)
  /\ session \in Seq(Footer..MaxMarkers)
  /\ writer \in {"absent", "open", "closed"}
  /\ interrupt \in {"unset", "set", "freed"}
  /\ server \in {"accept", "read", "handle", "stopped", "resumed", "count",
                 "reply", "ended", "dead"}
  /\ verb \in Verbs
  /\ ready \in {"empty", "ok", "err"}
  /\ samples \in 0..MaxSamples /\ sincePause \in Nat

Marks == 1..MaxMarkers
InFile == ToSet(session) \cap Marks

(* The markers among some records come in the order of their numbers.       *)
Ascending(s) ==
  \A i, j \in DOMAIN s : (i < j /\ {s[i], s[j]} \subseteq Marks) => s[i] < s[j]

(* No marker the Service took is lost track of or written twice, whatever   *)
(* the server and the drain do to the queue in between: each is queued, in  *)
(* the hand of the writer, in the file, or counted as evicted or unwritten, *)
(* and markers keep the order in which they were queued.                    *)
MarkersConserved ==
  LET line == session \o pending \o queue
      there == ToSet(line) \cap Marks
  IN /\ Ascending(line)
     /\ there \cup evicted \cup failed = 1..served
     /\ there \cap (evicted \cup failed) = {}

(* drain_markers: "a marker queued just before stop is still recorded".  A  *)
(* client that was told its marker is queued before the loop ended finds it *)
(* in a session that ended cleanly, unless it was evicted or its write      *)
(* failed.                                                                  *)
BeforeStopRecorded ==
  code = 0 => sealed \subseteq InFile \cup evicted \cup failed

(* Once a pause has been answered at most one more sample, the one already  *)
(* past the gate, reaches the file before resume or stop.                   *)
PauseFreezes == sincePause <= 1

-----------------------------------------------------------------------------
(* Why they hold.                                                           *)

(* A sample is counted only while the pause cell is set, and none while     *)
(* another one has passed the gate.                                         *)
Gated ==
  /\ sincePause \in {0, 1}
  /\ ~pause \/ main = "record" => sincePause = 0

(* The markers move from the queue to the writer's hand and from there to   *)
(* the file: what is further on was queued earlier.                         *)
InOrder ==
  /\ Ascending(session) /\ Ascending(pending) /\ Ascending(queue)
  /\ \A x \in InFile, y \in ToSet(pending) \cup ToSet(queue) : x < y
  /\ \A x \in ToSet(pending), y \in ToSet(queue) : x < y

Held == InFile \cup ToSet(pending) \cup ToSet(queue)

Conserved ==
  /\ Held \cup evicted \cup failed = 1..served
  /\ Held \cap (evicted \cup failed) = {}

(* markers_total lags behind while a marker is queued and not yet counted.  *)
Counted ==
  /\ server = "handle" /\ verb = "marker" => served < MaxMarkers
  /\ server = "count" \/ (server = "reply" /\ verb = "marker") => served > 0
  /\ server \in {"stopped", "resumed"} => verb # "marker"
  /\ accepted = IF server = "count" THEN served - 1 ELSE served

(* The last drain comes after the loop's end: what had been answered then   *)
(* is not in the queue any more once the rest is written.                   *)
Ended == {"unwind", "guard", "svcStop", "tellServer", "join", "exit"}
Sealed ==
  /\ answered \cup sealed \subseteq 1..served
  /\ main = "finalWrite" \/ code = 0 => sealed \cap ToSet(queue) = {}
  /\ code = 0 => main \in Ended /\ pending = <<>>

IndInv == TypeOK /\ Gated /\ InOrder /\ Conserved /\ Counted /\ Sealed

-----------------------------------------------------------------------------
(* A stop, from a client, the console or the end of the loop, ends the      *)
(* process: nobody waits forever for the server or for the loop.            *)
StopTerminates == (stop \/ interrupt = "set") ~> (main = "exit")
=============================================================================
