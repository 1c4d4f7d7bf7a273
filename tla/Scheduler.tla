------------------------------ MODULE Scheduler ------------------------------
(***************************************************************************)
(* The collector scheduler (pf-agent/src/sched.rs) with the part of the    *)
(* monitor loop that consumes its channel and shuts it down                *)
(* (pf-agent/src/monitor.rs, cmd_monitor_inner).                           *)
(*                                                                         *)
(* One worker thread per collector: collect, count the message in flight,  *)
(* raise the high-water mark, offer the message with try_send until it is  *)
(* queued or the scheduler stops.  One consumer: receive, give the message *)
(* back (after_recv), handle it; on any reason to end, set stop, drop the  *)
(* receiver, wait a bounded time for the workers and join them when every  *)
(* one of them has reported its end.                                       *)
(*                                                                         *)
(* Each action is one atomic access of shared memory (the stop flag, the   *)
(* two counters, the channel).  Message contents and time stamps are left  *)
(* out: only the number of queued messages matters here.                   *)
(***************************************************************************)
EXTENDS Integers, FiniteSets

CONSTANTS
  Workers,   (* one worker thread per active collector                   *)
  Capacity,  (* bound of the channel (128 in the monitor)                *)
  MayBlock   (* collectors whose collect call may never return           *)

ASSUME WorkersAssumption == IsFiniteSet(Workers) /\ Workers # {}
ASSUME CapacityAssumption == Capacity \in Nat \ {0}
ASSUME MayBlockAssumption == MayBlock \subseteq Workers

VARIABLES
  pc,        (* pc[w]: where worker w is in its loop                     *)
  stop,      (* the AtomicBool shared by monitor, workers, console       *)
  queued,    (* messages in the bounded channel                          *)
  rxAlive,   (* the receiver has not been dropped                        *)
  inFlight,  (* SchedStats::in_flight                                    *)
  maxInFlight, (* SchedStats::max_in_flight                              *)
  seen,      (* seen[w]: the value n returned by w's last fetch_add      *)
  finished,  (* WorkerSet::finished                                      *)
  writer,    (* where the monitor loop is                                *)
  stuck,     (* what finish_bounded returned (0 before)                  *)
  discarded  (* messages still queued when the receiver was dropped      *)

vars == <<pc, stop, queued, rxAlive, inFlight, maxInFlight, seen, finished,
          writer, stuck, discarded>>

stats == <<inFlight, maxInFlight, seen>>
consumer == <<writer, stuck, rxAlive, discarded>>

WorkerPCs == {"start", "stagger", "head", "collect", "check", "count", "mark",
              "offer", "try", "unsent", "sleep", "exit", "leaving", "done"}
WriterPCs == {"top", "recv", "got", "stopping", "drop", "finish", "join",
              "returned"}

(* Between before_send's fetch_add and the matching after_recv or enqueue. *)
Counted == {w \in Workers : pc[w] \in {"mark", "offer", "try", "unsent"}}

(* Workers that counted their message and have not raised the mark yet.    *)
Unmarked == {w \in Workers : pc[w] = "mark"}

(* Workers past their last loop: reported to finish_bounded, though the     *)
(* thread itself may still be there.                                       *)
Reported == {w \in Workers : pc[w] \in {"leaving", "done"}}

Total == Cardinality(Workers)

Init ==
  /\ pc = [w \in Workers |-> "start"]
  /\ stop = FALSE
  /\ queued = 0
  /\ rxAlive = TRUE
  /\ inFlight = 0
  /\ maxInFlight = 0
  /\ seen = [w \in Workers |-> 0]
  /\ finished = 0
  /\ writer = "top"
  /\ stuck = 0
  /\ discarded = 0

-----------------------------------------------------------------------------
(* The worker thread.                                                       *)

Goto(w, here, there) == pc[w] = here /\ pc' = [pc EXCEPT ![w] = there]

(* while !stop.load(): the first iteration staggers the worker.            *)
Start(w) ==
  /\ Goto(w, "start", IF stop THEN "exit" ELSE "stagger")
  /\ UNCHANGED <<stop, queued, finished, stats, consumer>>

Stagger(w) ==
  /\ Goto(w, "stagger", IF stop THEN "exit" ELSE "collect")
  /\ UNCHANGED <<stop, queued, finished, stats, consumer>>

LoopHead(w) ==
  /\ Goto(w, "head", IF stop THEN "exit" ELSE "collect")
  /\ UNCHANGED <<stop, queued, finished, stats, consumer>>

(* payload = (spec.collect)(): may also block forever (no fairness for     *)
(* MayBlock) or panic.                                                     *)
CollectReturns(w) ==
  /\ Goto(w, "collect", "check")
  /\ UNCHANGED <<stop, queued, finished, stats, consumer>>

(* Mutant: a panic is counted where it is caught and by the guard again.   *)
PanicCountsTwice(w) ==
  /\ Goto(w, "collect", "exit")
  /\ finished' = finished + 1
  /\ UNCHANGED <<stop, queued, stats, consumer>>

CollectPanics(w) ==
  /\ Goto(w, "collect", "exit")
  /\ UNCHANGED <<stop, queued, finished, stats, consumer>>

CheckStop(w) ==
  /\ Goto(w, "check", IF stop THEN "exit" ELSE "count")
  /\ UNCHANGED <<stop, queued, finished, stats, consumer>>

(* Mutant: n is what fetch_add returned, without the message itself.       *)
CountOffByOne(w) ==
  /\ Goto(w, "count", "mark")
  /\ inFlight' = inFlight + 1
  /\ seen' = [seen EXCEPT ![w] = inFlight]
  /\ UNCHANGED <<stop, queued, finished, maxInFlight, consumer>>

(* SchedStats::before_send, first half: n = in_flight.fetch_add(1) + 1.    *)
Count(w) ==
  /\ Goto(w, "count", "mark")
  /\ inFlight' = inFlight + 1
  /\ seen' = [seen EXCEPT ![w] = inFlight + 1]
  /\ UNCHANGED <<stop, queued, finished, maxInFlight, consumer>>

(* before_send, second half: the compare-exchange loop is an atomic max,   *)
(* after which n goes out of scope.                                        *)
RaiseMax(w) ==
  /\ Goto(w, "mark", "offer")
  /\ maxInFlight' = IF seen[w] > maxInFlight THEN seen[w] ELSE maxInFlight
  /\ seen' = [seen EXCEPT ![w] = 0]
  /\ UNCHANGED <<stop, queued, finished, inFlight, consumer>>

OfferStop(w) ==
  /\ Goto(w, "offer", IF stop THEN "unsent" ELSE "try")
  /\ UNCHANGED <<stop, queued, finished, stats, consumer>>

(* tx.try_send(pending): Ok, Full (back off, then look at stop again), or  *)
(* Disconnected.                                                           *)
TrySendOk(w) ==
  /\ rxAlive
  /\ queued < Capacity
  /\ Goto(w, "try", "sleep")
  /\ queued' = queued + 1
  /\ UNCHANGED <<stop, finished, stats, consumer>>

TrySendFull(w) ==
  /\ rxAlive
  /\ queued >= Capacity
  /\ Goto(w, "try", "offer")
  /\ UNCHANGED <<stop, queued, finished, stats, consumer>>

(* Mutant: a worker that finds the receiver gone exits without after_recv. *)
DisconnectedForgets(w) ==
  /\ ~rxAlive
  /\ Goto(w, "try", "exit")
  /\ UNCHANGED <<stop, queued, finished, stats, consumer>>

TrySendDisconnected(w) ==
  /\ ~rxAlive
  /\ Goto(w, "try", "unsent")
  /\ UNCHANGED <<stop, queued, finished, stats, consumer>>

(* if !queued { stats.after_recv(); break }                                *)
Reconcile(w) ==
  /\ Goto(w, "unsent", "exit")
  /\ inFlight' = inFlight - 1
  /\ UNCHANGED <<stop, queued, finished, maxInFlight, seen, consumer>>

(* sleep_checked: the cadence elapses (or the adaptive knob changed) ...   *)
SleepElapses(w) ==
  /\ Goto(w, "sleep", "head")
  /\ UNCHANGED <<stop, queued, finished, stats, consumer>>

(* Mutant: the sleep goes on to its deadline although stop is set.         *)
SleepsOn(w) ==
  /\ stop
  /\ Goto(w, "sleep", "sleep")
  /\ UNCHANGED <<stop, queued, finished, stats, consumer>>

(* ... or stop is seen at the end of a slice, however long the cadence is. *)
SleepSeesStop(w) ==
  /\ stop
  /\ Goto(w, "sleep", "head")
  /\ UNCHANGED <<stop, queued, finished, stats, consumer>>

(* FinishedGuard::drop, on every way out of the closure.  The guard is a    *)
(* local of the closure and goes before what the closure captured ...      *)
Exit(w) ==
  /\ Goto(w, "exit", "leaving")
  /\ finished' = finished + 1
  /\ UNCHANGED <<stop, queued, stats, consumer>>

(* ... so that tx, and with it the thread, is gone only after that.         *)
Leave(w) ==
  /\ Goto(w, "leaving", "done")
  /\ UNCHANGED <<stop, queued, finished, stats, consumer>>

-----------------------------------------------------------------------------
(* The consumer: the 'recv loop of cmd_monitor_inner and what follows it.   *)

(* The console handler sets the monitor's stop flag while installed.       *)
ConsoleStop ==
  /\ writer \in {"top", "recv", "got"}
  /\ stop' = TRUE
  /\ UNCHANGED <<pc, queued, finished, stats, consumer>>

(* Head of the loop: stop, the embedded signal or the service's stop cell  *)
(* (one of the latter two is `requested`) end it.                          *)
LoopTop ==
  /\ writer = "top"
  /\ \E requested \in BOOLEAN :
       writer' = IF stop \/ requested THEN "stopping" ELSE "recv"
  /\ UNCHANGED <<pc, stop, queued, rxAlive, finished, stats, stuck, discarded>>

Receive ==
  /\ writer = "recv"
  /\ queued > 0
  /\ queued' = queued - 1
  /\ writer' = "got"
  /\ UNCHANGED <<pc, stop, rxAlive, finished, stats, stuck, discarded>>

(* after_recv, then the payload's handler continues or ends the loop (a    *)
(* failed session write, --samples reached, or the stop file).             *)
AfterRecv ==
  /\ writer = "got"
  /\ inFlight' = inFlight - 1
  /\ writer' \in {"top", "stopping"}
  /\ UNCHANGED <<pc, stop, queued, rxAlive, finished, maxInFlight, seen, stuck,
                 discarded>>

(* Nothing arrived in time; the stop file may end the loop here too.       *)
RecvTimeout ==
  /\ writer = "recv"
  /\ queued = 0
  /\ writer' \in {"top", "stopping"}
  /\ UNCHANGED <<pc, stop, queued, rxAlive, finished, stats, stuck, discarded>>

(* recv_timeout returns Disconnected: no sender left and nothing queued.   *)
Disconnected ==
  /\ writer = "recv"
  /\ queued = 0
  /\ \A w \in Workers : pc[w] = "done"
  /\ writer' = "stopping"
  /\ UNCHANGED <<pc, stop, queued, rxAlive, finished, stats, stuck, discarded>>

SetStop ==
  /\ writer = "stopping"
  /\ stop' = TRUE
  /\ writer' = "drop"
  /\ UNCHANGED <<pc, queued, rxAlive, finished, stats, stuck, discarded>>

DropReceiver ==
  /\ writer = "drop"
  /\ rxAlive' = FALSE
  /\ discarded' = queued
  /\ queued' = 0
  /\ writer' = "finish"
  /\ UNCHANGED <<pc, stop, finished, stats, stuck>>

(* finish_bounded: every worker has reported its end and is joined, which   *)
(* waits for the thread itself with no bound ...                           *)
FinishJoined ==
  /\ writer = "finish"
  /\ finished >= Total
  /\ writer' = "join"
  /\ UNCHANGED <<pc, stop, queued, rxAlive, finished, stats, stuck, discarded>>

Join ==
  /\ writer = "join"
  /\ \A w \in Workers : pc[w] = "done"
  /\ stuck' = 0
  /\ writer' = "returned"
  /\ UNCHANGED <<pc, stop, queued, rxAlive, finished, stats, discarded>>

(* Mutant: at the deadline the workers are joined all the same.            *)
DeadlineJoins ==
  /\ writer = "finish"
  /\ finished < Total
  /\ writer' = "join"
  /\ UNCHANGED <<pc, stop, queued, rxAlive, finished, stats, stuck, discarded>>

(* ... or the grace period is over and the rest is abandoned.              *)
FinishDeadline ==
  /\ writer = "finish"
  /\ finished < Total
  /\ stuck' = Total - finished
  /\ writer' = "returned"
  /\ UNCHANGED <<pc, stop, queued, rxAlive, finished, stats, discarded>>

(* The monitor has returned and every worker is gone or still blocked.     *)
Terminated ==
  /\ writer = "returned"
  /\ \A w \in Workers : pc[w] \in {"done", "collect"}
  /\ UNCHANGED vars

-----------------------------------------------------------------------------
(* Steps a worker takes without waiting for anything but the processor.     *)
WorkerRuns(w) ==
  \/ Start(w) \/ Stagger(w) \/ LoopHead(w) \/ CheckStop(w) \/ Count(w) \/ RaiseMax(w)
  \/ OfferStop(w) \/ TrySendOk(w) \/ TrySendFull(w) \/ TrySendDisconnected(w)
  \/ Reconcile(w) \/ SleepSeesStop(w) \/ Exit(w) \/ Leave(w)

Collects(w) == CollectReturns(w) \/ CollectPanics(w)

Worker(w) == WorkerRuns(w) \/ Collects(w) \/ SleepElapses(w)

(* The consumer's steps; an outside event only decides what they do.       *)
ConsumerRuns ==
  \/ LoopTop \/ Receive \/ AfterRecv \/ RecvTimeout \/ Disconnected
  \/ SetStop \/ DropReceiver \/ FinishJoined \/ Join \/ FinishDeadline

Next ==
  \/ \E w \in Workers : Worker(w)
  \/ ConsumerRuns
  \/ ConsoleStop
  \/ Terminated

Fairness ==
  /\ \A w \in Workers : WF_vars(WorkerRuns(w))
  /\ \A w \in Workers \ MayBlock : WF_vars(Collects(w))
  /\ WF_vars(ConsumerRuns)

Spec == Init /\ [][Next]_vars /\ Fairness

-----------------------------------------------------------------------------
(* Every variable has its type; the counters never go below zero, where the *)
(* code's AtomicU64 would wrap.                                             *)
TypeOK ==
  /\ pc \in [Workers -> WorkerPCs]
  /\ stop \in BOOLEAN
  /\ queued \in Nat
  /\ rxAlive \in BOOLEAN
  /\ inFlight \in Nat
  /\ maxInFlight \in Nat
  /\ seen \in [Workers -> Nat]
  /\ finished \in Nat
  /\ writer \in WriterPCs
  /\ stuck \in Nat
  /\ discarded \in Nat

(* in_flight is exactly the messages that were counted and not given back: *)
(* queued, still being offered, taken but not yet acknowledged, or thrown  *)
(* away with the receiver.  (before_send, after_recv on both sides.)       *)
InFlightAccounted ==
  inFlight = queued + Cardinality(Counted) + discarded
               + (IF writer = "got" THEN 1 ELSE 0)

(* The footer's queue_max is a true high-water mark: at no moment is the   *)
(* backlog in the channel above max_in_flight, although the counter is     *)
(* bumped, the mark raised and the message queued in three separate steps  *)
(* of several racing workers.                                              *)
MarkCoversBacklog == queued <= maxInFlight

(* ... and it is bounded by the channel, one message in the hand of every  *)
(* worker, and the one the writer has taken and not acknowledged.          *)
MarkBounded == maxInFlight <= Capacity + Total + 1

(* finish_bounded joins only threads that are past every collector call:    *)
(* "a collector call can block forever ...; joining such a worker would    *)
(* hang shutdown".  The counter it goes by is raised by workers that break *)
(* out of their loop, that find the receiver gone and that panic.          *)
OnlyEndedAreJoined == writer = "join" => Reported = Workers

(* What makes MarkCoversBacklog and MarkBounded inductive.  Whichever      *)
(* workers S raise the mark next, the mark is then at least the messages   *)
(* in flight less the workers that have still not raised it.               *)
MarkCatchesUp ==
  \A S \in SUBSET Unmarked :
    \E m \in {maxInFlight} \cup {seen[w] : w \in S} :
      inFlight + Cardinality(S) <= m + Cardinality(Unmarked)

(* The channel never holds more than its capacity, and nothing once the    *)
(* receiver is dropped.                                                    *)
ChannelBounded ==
  /\ queued + discarded <= Capacity
  /\ rxAlive => discarded = 0
  /\ ~rxAlive => queued = 0
  /\ rxAlive <=> writer \in {"top", "recv", "got", "stopping", "drop"}

(* The completion counter counts the workers that reported their end.      *)
FinishedCounted == finished = Cardinality(Reported)

SeenBounded == \A w \in Workers : seen[w] <= Capacity + Total + 1

(* The consumer joins on a counter that never goes down again.             *)
JoinCounted == writer = "join" => finished >= Total

IndInv ==
  /\ TypeOK
  /\ InFlightAccounted
  /\ ChannelBounded
  /\ MarkCatchesUp
  /\ SeenBounded
  /\ MarkBounded
  /\ FinishedCounted
  /\ JoinCounted

(* After stop every worker whose collect call returns ends, even with a    *)
(* full channel nobody reads and with a sleep longer than the session.     *)
RespondersFinish ==
  \A w \in Workers \ MayBlock : stop ~> (pc[w] = "done")

(* The bound of finish_bounded bounds the whole shutdown: once the monitor  *)
(* loop has ended it returns, with a collector blocked for ever and with   *)
(* the joins, which have no bound of their own.                            *)
ShutdownReturns == (writer = "stopping") ~> (writer = "returned")

=============================================================================
