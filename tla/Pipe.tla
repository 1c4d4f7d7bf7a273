-------------------------------- MODULE Pipe --------------------------------
(***************************************************************************)
(* The command pipe (pf-agent/src/ipc_server.rs, pf-core/src/ipc.rs): who  *)
(* may serve it (the single-instance mutex, the one-shot server), how a    *)
(* request and a response cross it in chunks against the per-operation and *)
(* the absolute deadline, and how a client queries it (query_windows, used *)
(* by the command line and by pf-gui/src-tauri/src/agent.rs).              *)
(*                                                                         *)
(* A frame is a length prefix and a body; its bytes are counted in units.  *)
(* Clocks are ages: of a connection, of the pending operation, of a query. *)
(* Time passes in Tick, which may not pass over a wait that has run out.   *)
(* What the handler does is in Agent.                                      *)
(***************************************************************************)
EXTENDS Integers, FiniteSets, FiniteSetsExt

CONSTANTS
  Procs,       (* processes that may be started as an agent or as a        *)
               (* one-shot server (ipc serve --pipe)                       *)
  Clients,     (* processes that query the pipe, once each                 *)
  IoTimeout,   (* IO_TIMEOUT_MS                                            *)
  Window,      (* how long a query looks for a listening pipe              *)
  MaxFrame,    (* IPC_MAX_FRAME                                            *)
  Bodies,      (* lengths of request bodies                                *)
  Response,    (* length of a response frame                               *)
  Buffer,      (* capacity of the pipe in each direction                   *)
  NoOne        (* no process, no client                                    *)

ASSUME PipeAssumption ==
  /\ IoTimeout \in Nat \ {0} /\ Window \in Nat \ {0} /\ Buffer \in Nat \ {0}
  /\ MaxFrame \in Nat /\ Bodies \subseteq Nat /\ Response \in Nat \ {0}
  /\ NoOne \notin Procs \cup Clients

VARIABLES
  proc,     (* proc[p]: where a server process is                          *)
  handles,  (* processes with a handle of the named mutex                  *)
  srv,      (* the pipe instance: its server, phase, client and clocks     *)
  toServer, toClient,  (* units in the pipe                                *)
  cl,       (* cl[c]: a client's phase, what it has to send and has read   *)
  handled   (* handled[c]: how often a request of c was handled            *)

pipeVars == <<proc, handles, srv, toServer, toClient, cl, handled>>

(* serve_connection's absolute request lifetime.                           *)
Deadline == 3 * IoTimeout

NoServer == [by |-> NoOne, phase |-> "absent", client |-> NoOne, age |-> 0,
             wait |-> 0, limit |-> 0, need |-> 0]

PipeInit ==
  /\ proc = [p \in Procs |-> "off"]
  /\ handles = {}
  /\ srv = NoServer
  /\ toServer = 0 /\ toClient = 0
  /\ cl = [c \in Clients |-> [phase |-> "off", age |-> 0, send |-> 0, body |-> 0,
                              read |-> 0]]
  /\ handled = [c \in Clients |-> 0]

wire == <<srv, toServer, toClient>>

-----------------------------------------------------------------------------
(* Processes.                                                               *)

(* Mutant: the mutex is taken without looking at ERROR_ALREADY_EXISTS.     *)
AcquireAnyway(p) ==
  /\ proc[p] = "off"
  /\ handles' = handles \cup {p}
  /\ proc' = [proc EXCEPT ![p] = "owner"]
  /\ UNCHANGED <<wire, cl, handled>>

(* SingleInstance::acquire: creates the mutex, or opens the existing one,  *)
(* which keeps the name alive until the handle is closed again.            *)
Acquire(p) ==
  /\ proc[p] = "off"
  /\ handles' = handles \cup {p}
  /\ proc' = [proc EXCEPT ![p] = IF handles = {} THEN "owner" ELSE "opened"]
  /\ UNCHANGED <<wire, cl, handled>>

Refuse(p) ==
  /\ proc[p] = "opened"
  /\ handles' = handles \ {p}
  /\ proc' = [proc EXCEPT ![p] = "exited"]
  /\ UNCHANGED <<wire, cl, handled>>

(* ipc serve --pipe takes no mutex.                                        *)
StartOnce(p) ==
  /\ proc[p] = "off"
  /\ proc' = [proc EXCEPT ![p] = "once"]
  /\ UNCHANGED <<handles, wire, cl, handled>>

(* A process ends or crashes: the system closes its handles and its pipe.  *)
Exit(p) ==
  /\ proc[p] \in {"owner", "opened", "once", "headless"}
  /\ proc' = [proc EXCEPT ![p] = "exited"]
  /\ handles' = handles \ {p}
  /\ IF srv.by = p THEN srv' = NoServer /\ toServer' = 0 /\ toClient' = 0
                   ELSE UNCHANGED wire
  /\ UNCHANGED <<cl, handled>>

-----------------------------------------------------------------------------
(* The server.                                                              *)

Serving(p) == proc[p] \in {"owner", "once"}

(* create_pipe: one instance; it fails while another process has it, which *)
(* ends the one-shot server and leaves an agent without a command pipe.    *)
CreatePipe(p) ==
  /\ Serving(p) /\ srv.by # p
  /\ IF srv.by = NoOne
       THEN srv' = [NoServer EXCEPT !.by = p, !.phase = "listen"] /\ UNCHANGED proc
       ELSE /\ proc' = [proc EXCEPT ![p] = IF @ = "once" THEN "exited" ELSE "headless"]
            /\ UNCHANGED srv
  /\ UNCHANGED <<handles, toServer, toClient, cl, handled>>

(* Nobody connects within the accept timeout: the instance is closed; an   *)
(* agent goes round its loop, the one-shot server gives up.                *)
AcceptTimeout ==
  /\ srv.phase = "listen"
  /\ proc' = [proc EXCEPT ![srv.by] = IF @ = "once" THEN "exited" ELSE @]
  /\ srv' = NoServer
  /\ UNCHANGED <<handles, toServer, toClient, cl, handled>>

(* Mutant: every operation gets the full timeout, whatever is left of the  *)
(* request's lifetime.                                                     *)
remaining_uncapped(s) == IoTimeout

(* remaining_ms: 0 when the request has exceeded its lifetime.             *)
remaining_ms(s) == Min({IoTimeout, Deadline - s.age})

(* The next overlapped operation of a connection, or the error.            *)
Begin(s, phase, need) ==
  IF remaining_ms(s) <= 0 THEN [s EXCEPT !.phase = "close"]
  ELSE [s EXCEPT !.phase = phase, !.need = need, !.wait = 0,
                 !.limit = remaining_ms(s)]

Finish(s) == [s EXCEPT !.phase = "close"]

(* Mutant: the length prefix is not compared with IPC_MAX_FRAME.           *)
ReadChunkUnbounded ==
  /\ srv.phase \in {"header", "body"} /\ toServer > 0
  /\ LET n == Min({toServer, srv.need})
         left == srv.need - n
         body == cl[srv.client].body
         after ==
           IF left > 0 THEN Begin(srv, srv.phase, left)
           ELSE IF srv.phase = "header" /\ body > 0 THEN Begin(srv, "body", body)
           ELSE [srv EXCEPT !.phase = "handle"]
     IN toServer' = toServer - n /\ srv' = after
  /\ UNCHANGED <<proc, handles, toClient, cl, handled>>

(* read_chunk takes what is there, at most what is asked for.              *)
ReadChunk ==
  /\ srv.phase \in {"header", "body"} /\ toServer > 0
  /\ LET n == Min({toServer, srv.need})
         left == srv.need - n
         body == cl[srv.client].body
         after ==
           IF left > 0 THEN Begin(srv, srv.phase, left)
           ELSE IF srv.phase = "header" /\ body > MaxFrame THEN Finish(srv)
           ELSE IF srv.phase = "header" /\ body > 0 THEN Begin(srv, "body", body)
           ELSE [srv EXCEPT !.phase = "handle"]
     IN toServer' = toServer - n /\ srv' = after
  /\ UNCHANGED <<proc, handles, toClient, cl, handled>>

(* The request is answered; a panic of the handler becomes an error        *)
(* response.                                                               *)
HandleRequest ==
  /\ srv.phase = "handle"
  /\ handled' = [handled EXCEPT ![srv.client] = @ + 1]
  /\ srv' = Begin(srv, "write", Response)
  /\ UNCHANGED <<proc, handles, toServer, toClient, cl>>

(* WriteFile completes for what fits into the pipe.                        *)
WriteChunk ==
  /\ srv.phase = "write" /\ toClient < Buffer
  /\ cl[srv.client].phase \in {"sending", "reading"}
  /\ LET n == Min({Buffer - toClient, srv.need}) IN
       /\ toClient' = toClient + n
       /\ srv' = IF srv.need > n THEN Begin(srv, "write", srv.need - n)
                                 ELSE Begin(srv, "drain", 1)
  /\ UNCHANGED <<proc, handles, toServer, cl, handled>>

(* The peer has closed its end: a read reports it once the pipe is empty,  *)
(* a write at once; during the drain it is the expected end.               *)
PeerClosed ==
  /\ srv.phase \in {"header", "body", "write", "drain"}
  /\ cl[srv.client].phase = "done"
  /\ srv.phase \in {"header", "body"} => toServer = 0
  /\ srv' = Finish(srv)
  /\ UNCHANGED <<proc, handles, toServer, toClient, cl, handled>>

(* wait_io: the operation is cancelled and the connection given up.        *)
IoTimesOut ==
  /\ srv.phase \in {"header", "body", "write", "drain"}
  /\ srv.wait >= srv.limit
  /\ srv' = Finish(srv)
  /\ UNCHANGED <<proc, handles, toServer, toClient, cl, handled>>

(* PipeConn::drop: what the client has not read is discarded.  A one-shot  *)
(* server exits.                                                           *)
Disconnect ==
  /\ srv.phase = "close"
  /\ proc' = [proc EXCEPT ![srv.by] = IF @ = "once" THEN "exited" ELSE @]
  /\ srv' = NoServer /\ toServer' = 0 /\ toClient' = 0
  /\ UNCHANGED <<handles, cl, handled>>

-----------------------------------------------------------------------------
(* A client: query_windows.                                                 *)

(* A query that has returned, or whose process is gone.                    *)
Over(q) == [q EXCEPT !.phase = "done", !.age = 0, !.send = 0]

StartQuery(c) ==
  /\ cl[c].phase = "off"
  /\ \E b \in Bodies : cl' = [cl EXCEPT ![c].phase = "wait", ![c].body = b,
                                        ![c].send = 1 + b]
  /\ UNCHANGED <<proc, handles, wire, handled>>

(* WaitNamedPipeW saw a free instance; another client may still be first.  *)
PipeFree(c) ==
  /\ cl[c].phase = "wait" /\ srv.phase = "listen"
  /\ cl' = [cl EXCEPT ![c].phase = "open"]
  /\ UNCHANGED <<proc, handles, wire, handled>>

(* CreateFileW connects; the server begins to read the length prefix.      *)
OpenPipe(c) ==
  /\ cl[c].phase = "open" /\ srv.phase = "listen"
  /\ cl' = [cl EXCEPT ![c].phase = "sending"]
  /\ srv' = Begin([srv EXCEPT !.client = c, !.age = 0], "header", 1)
  /\ UNCHANGED <<proc, handles, toServer, toClient, handled>>

OpenFails(c) ==
  /\ cl[c].phase = "open" /\ srv.phase # "listen"
  /\ cl' = [cl EXCEPT ![c] = IF @.age >= Window THEN Over(@) ELSE [@ EXCEPT !.phase = "wait"]]
  /\ UNCHANGED <<proc, handles, wire, handled>>

(* Mutant: a query goes on looking for the pipe.                           *)
LookForever(c) == FALSE /\ UNCHANGED pipeVars

(* "pipe unavailable (no agent listening)".                                *)
GiveUp(c) ==
  /\ cl[c].phase = "wait" /\ cl[c].age >= Window
  /\ cl' = [cl EXCEPT ![c] = Over(@)]
  /\ UNCHANGED <<proc, handles, wire, handled>>

Connected(c) == srv.client = c

(* client_write_all.                                                       *)
SendChunk(c) ==
  /\ cl[c].phase = "sending" /\ Connected(c) /\ toServer < Buffer
  /\ toServer' = toServer + 1
  /\ cl' = [cl EXCEPT ![c].send = @ - 1,
                      ![c].phase = IF cl[c].send = 1 THEN "reading" ELSE @]
  /\ UNCHANGED <<proc, handles, srv, toClient, handled>>

(* client_read_exact, until the response is complete and the handle closed.*)
ReceiveChunk(c) ==
  /\ cl[c].phase = "reading" /\ Connected(c) /\ toClient > 0
  /\ toClient' = toClient - 1
  /\ LET q == [cl[c] EXCEPT !.read = @ + 1] IN
       cl' = [cl EXCEPT ![c] = IF q.read = Response THEN Over(q) ELSE q]
  /\ UNCHANGED <<proc, handles, srv, toServer, handled>>

(* The server is gone or has disconnected: "failed or closed".             *)
ConnectionLost(c) ==
  /\ cl[c].phase \in {"sending", "reading"} /\ ~Connected(c)
  /\ cl' = [cl EXCEPT ![c] = Over(@)]
  /\ UNCHANGED <<proc, handles, wire, handled>>

(* The client process is killed.                                           *)
ClientKilled(c) ==
  /\ cl[c].phase \in {"wait", "open", "sending", "reading"}
  /\ cl' = [cl EXCEPT ![c] = Over(@)]
  /\ UNCHANGED <<proc, handles, wire, handled>>

-----------------------------------------------------------------------------
(* Time.  A client may be slow; a server wait that has run out comes first.*)

Busy == srv.phase \in {"header", "body", "write", "drain"}
Looking(c) == cl[c].phase \in {"wait", "open"} /\ cl[c].age < Window

Tick ==
  /\ Busy => srv.wait < srv.limit
  /\ srv.phase \notin {"handle", "close"}
  /\ Busy \/ \E c \in Clients : Looking(c)
  /\ srv' = IF Busy THEN [srv EXCEPT !.age = @ + 1, !.wait = @ + 1] ELSE srv
  /\ cl' = [c \in Clients |-> IF Looking(c) THEN [cl[c] EXCEPT !.age = @ + 1] ELSE cl[c]]
  /\ UNCHANGED <<proc, handles, toServer, toClient, handled>>

Serves == ReadChunk \/ HandleRequest \/ WriteChunk \/ PeerClosed \/ IoTimesOut \/ Disconnect

Query(c) == PipeFree(c) \/ OpenPipe(c) \/ OpenFails(c) \/ GiveUp(c)
              \/ SendChunk(c) \/ ReceiveChunk(c) \/ ConnectionLost(c)

PipeNext ==
  \/ \E p \in Procs : Acquire(p) \/ Refuse(p) \/ StartOnce(p) \/ Exit(p) \/ CreatePipe(p)
  \/ AcceptTimeout \/ Serves \/ Tick
  \/ \E c \in Clients : StartQuery(c) \/ Query(c) \/ ClientKilled(c)

(* Time passes, the server thread runs, and a client's thread runs, except *)
(* that nothing obliges it to send or to read.                             *)
PipeSpec ==
  /\ PipeInit /\ [][PipeNext]_pipeVars
  /\ WF_pipeVars(Tick) /\ WF_pipeVars(Serves)
  /\ \A c \in Clients : WF_pipeVars(OpenFails(c) \/ OpenPipe(c) \/ GiveUp(c) \/ ConnectionLost(c))

-----------------------------------------------------------------------------
(* Properties.                                                              *)

(* At most one agent owns monitoring, whatever starts, refusals and        *)
(* crashes overlap ("at most one agent per user may own monitoring").      *)
OneOwner == Cardinality({p \in Procs : proc[p] \in {"owner", "headless"}}) <= 1

(* No client holds the only pipe instance longer than the absolute request *)
(* lifetime, however it spreads its bytes over the per-operation timeouts  *)
(* ("a client drip-feeding a large frame cannot hold the connection beyond *)
(* this total").                                                           *)
ConnectionBounded == srv.age <= Deadline

(* A request is handled at most once, a client has a whole response only   *)
(* if its request was handled, and an oversized frame never is: a failed   *)
(* exchange is not repeated.                                               *)
AtMostOnce ==
  \A c \in Clients :
    /\ handled[c] <= 1
    /\ cl[c].read = Response => handled[c] = 1
    /\ handled[c] = 1 => cl[c].body <= MaxFrame

-----------------------------------------------------------------------------
(* Why they hold.                                                           *)

(* What the pipe instance is described by.                                 *)
Phases == {"absent", "listen", "header", "body", "handle", "write", "drain", "close"}
Instances ==
  [by : Procs \cup {NoOne}, client : Clients \cup {NoOne}, phase : Phases,
   age : Nat, wait : Nat, limit : Nat, need : Int]

(* What a client's query is described by.                                  *)
Queries ==
  [phase : {"off", "wait", "open", "sending", "reading", "done"},
   age : Nat, send : Int, body : Nat, read : Nat]

(* The variables have their types.                                         *)
PipeTypeOK ==
  /\ proc \in [Procs -> {"off", "owner", "opened", "once", "headless", "exited"}]
  /\ handles \subseteq Procs
  /\ srv \in Instances
  /\ toServer \in Int /\ toClient \in Int
  /\ cl \in [Clients -> Queries]
  /\ handled \in [Clients -> Nat]

(* The name of the mutex lives as long as any process has a handle, and    *)
(* who owns monitoring created it.                                         *)
Owns(p) == proc[p] \in {"owner", "headless"}
MutexHeld ==
  /\ \A p \in Procs : Owns(p) => p \in handles
  /\ \A p, q \in Procs : Owns(p) /\ Owns(q) => p = q

(* An operation is never given more than what is left of the request's     *)
(* lifetime.                                                               *)
WithinLifetime ==
  /\ srv.age <= Deadline
  /\ Busy => srv.wait <= srv.limit /\ srv.age + (srv.limit - srv.wait) <= Deadline

(* A connection is that of a client which has opened the pipe, once; what  *)
(* is in the pipe on the way to it is a response to its request.           *)
OneExchange ==
  /\ (srv.client = NoOne) <=> (srv.phase \in {"absent", "listen"})
  /\ srv.by = NoOne => srv.phase = "absent"
  /\ srv.client = NoOne => toClient = 0
  /\ srv.client # NoOne =>
       /\ cl[srv.client].phase \in {"sending", "reading", "done"}
       /\ srv.phase \in {"header", "body", "handle"} => handled[srv.client] = 0 /\ toClient = 0
       /\ srv.phase \in {"body", "handle"} => cl[srv.client].body <= MaxFrame
       /\ srv.phase \in {"write", "drain"} \/ toClient > 0 => handled[srv.client] = 1
  /\ \A c \in Clients :
       /\ handled[c] \in {0, 1}
       /\ cl[c].phase \in {"off", "wait", "open"} => handled[c] = 0
       /\ cl[c].read > 0 => handled[c] = 1
       /\ handled[c] = 1 => cl[c].body <= MaxFrame

PipeInv == PipeTypeOK /\ MutexHeld /\ WithinLifetime /\ OneExchange

-----------------------------------------------------------------------------
(* Every query returns, with a response or an error, though the client     *)
(* side reads without a timeout of its own and agents may be absent, slow, *)
(* serving someone else or crashing ("never a panic or a hang").           *)
QueriesReturn == \A c \in Clients : cl[c].phase = "wait" ~> cl[c].phase = "done"
=============================================================================
