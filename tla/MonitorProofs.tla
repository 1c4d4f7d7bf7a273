---------------------------- MODULE MonitorProofs ----------------------------
(***************************************************************************)
(* Proofs about the monitor: its threads and their channel (Scheduler),    *)
(* for every finite set of workers and every channel capacity, and its     *)
(* loop (Monitor), for every selection of collectors, cadence and reading. *)
(*                                                                         *)
(* The inductive invariant of the threads is IndInv: the accounting of     *)
(* messages in flight, and how far the high-water mark may lag behind it   *)
(* while several workers are between fetch_add and the mark.  That of the  *)
(* loop is MonitorInv, most of it StateInv, which speaks of one value of   *)
(* MonitorState, because every handler is a function of it: the events     *)
(* recorded pair up, a boost has its hint and its end, and the running     *)
(* energies are what recovery would compute from the lines written so far. *)
(*                                                                         *)
(* The last part is an induction over the lines of the file.  No theorem   *)
(* with an operator parameter is needed for it: an induction is over the   *)
(* set of numbers at which the claim holds (SetInduction), a recursive     *)
(* function is shown to exist by that induction (RecursionExists), and a   *)
(* sum over a sequence follows when the sequence grows by one (SumGrows).  *)
(***************************************************************************)
EXTENDS Scheduler, Monitor, FiniteSetTheorems, WellFoundedInduction, TLAPS

-----------------------------------------------------------------------------
(* The threads and the channel.                                            *)

(* Worker steps that change neither a counter nor the channel and do not   *)
(* move the worker into or out of Counted, Unmarked or Reported.            *)
Quiet(w) ==
  \/ Start(w) \/ Stagger(w) \/ LoopHead(w) \/ CollectReturns(w)
  \/ CollectPanics(w) \/ CheckStop(w) \/ OfferStop(w) \/ TrySendFull(w)
  \/ TrySendDisconnected(w) \/ SleepElapses(w) \/ SleepSeesStop(w)
  \/ Leave(w)

(* Consumer steps that change only where the consumer is, among the places *)
(* where the receiver is alive and no message is in its hand, or stop.     *)
QuietConsumer ==
  LoopTop \/ RecvTimeout \/ Disconnected \/ SetStop \/ ConsoleStop

-----------------------------------------------------------------------------
(* The sets of workers the invariant counts are finite sets of workers.    *)
LEMMA SetsFinite ==
  /\ IsFiniteSet(Counted) /\ Cardinality(Counted) \in Nat
  /\ IsFiniteSet(Unmarked) /\ Cardinality(Unmarked) \in Nat
  /\ IsFiniteSet(Reported) /\ Cardinality(Reported) \in Nat
  /\ Total \in Nat
  /\ Cardinality(Counted) <= Total
  /\ Cardinality(Unmarked) <= Cardinality(Counted)
  /\ Cardinality(Reported) <= Total
  /\ (Cardinality(Reported) = Total => Reported = Workers)
<1>1. /\ Counted \in SUBSET Workers
      /\ Unmarked \in SUBSET Counted
      /\ Reported \in SUBSET Workers
  BY DEF Counted, Unmarked, Reported
<1>2. IsFiniteSet(Counted) /\ Cardinality(Counted) <= Total
  BY <1>1, FS_Subset, WorkersAssumption DEF Total
<1>3. IsFiniteSet(Unmarked) /\ Cardinality(Unmarked) <= Cardinality(Counted)
  BY <1>1, <1>2, FS_Subset
<1>4. /\ IsFiniteSet(Reported) /\ Cardinality(Reported) <= Total
      /\ (Cardinality(Reported) = Total => Reported = Workers)
  BY <1>1, FS_Subset, WorkersAssumption DEF Total
<1>5. Total \in Nat
  BY FS_CardinalityType, WorkersAssumption DEF Total
<1>6. /\ Cardinality(Counted) \in Nat
      /\ Cardinality(Unmarked) \in Nat
      /\ Cardinality(Reported) \in Nat
  BY <1>2, <1>3, <1>4, FS_CardinalityType
<1> QED BY <1>2, <1>3, <1>4, <1>5, <1>6

(* How moving one worker changes those sets.                               *)
LEMMA SetsMove ==
  ASSUME pc \in [Workers -> WorkerPCs], NEW w \in Workers,
         NEW there, pc' = [pc EXCEPT ![w] = there]
  PROVE  /\ there \in {"mark", "offer", "try", "unsent"}
              => Counted' = Counted \cup {w}
         /\ there \notin {"mark", "offer", "try", "unsent"}
              => Counted' = Counted \ {w}
         /\ there = "mark" => Unmarked' = Unmarked \cup {w}
         /\ there # "mark" => Unmarked' = Unmarked \ {w}
         /\ there \in {"leaving", "done"} => Reported' = Reported \cup {w}
         /\ there \notin {"leaving", "done"} => Reported' = Reported \ {w}
BY DEF Counted, Unmarked, Reported

(* A quiet worker step leaves everything the invariant speaks of alone,    *)
(* except the place of the worker.                                         *)
LEMMA QuietStep ==
  ASSUME TypeOK, NEW w \in Workers, Quiet(w)
  PROVE  /\ pc' \in [Workers -> WorkerPCs]
         /\ Counted' = Counted /\ Unmarked' = Unmarked /\ Reported' = Reported
         /\ UNCHANGED <<stop, queued, finished, stats, consumer>>
<1>1. PICK there \in WorkerPCs :
        /\ pc' = [pc EXCEPT ![w] = there]
        /\ there \in {"leaving", "done"} <=> pc[w] \in {"leaving", "done"}
        /\ there # "mark" /\ pc[w] # "mark"
        /\ there \in {"mark", "offer", "try", "unsent"}
             <=> pc[w] \in {"mark", "offer", "try", "unsent"}
  BY DEF Quiet, Start, Stagger, LoopHead, CollectReturns, CollectPanics,
         CheckStop, OfferStop, TrySendFull, TrySendDisconnected,
         SleepElapses, SleepSeesStop, Leave, Goto, WorkerPCs
<1>2. pc' \in [Workers -> WorkerPCs]
  BY <1>1 DEF TypeOK
<1>3. Counted' = Counted /\ Unmarked' = Unmarked /\ Reported' = Reported
  BY <1>1 DEF TypeOK, Counted, Unmarked, Reported
<1>4. UNCHANGED <<stop, queued, finished, stats, consumer>>
  BY DEF Quiet, Start, Stagger, LoopHead, CollectReturns, CollectPanics,
         CheckStop, OfferStop, TrySendFull, TrySendDisconnected,
         SleepElapses, SleepSeesStop, Leave
<1> QED BY <1>2, <1>3, <1>4

(* Every worker step is quiet or one of the five that count something.     *)
LEMMA WorkerSteps ==
  ASSUME NEW w \in Workers, Worker(w)
  PROVE  Quiet(w) \/ Count(w) \/ RaiseMax(w) \/ TrySendOk(w)
           \/ Reconcile(w) \/ Exit(w)
BY DEF Worker, WorkerRuns, Collects, Quiet

-----------------------------------------------------------------------------
(* Before the first worker runs nothing is in flight, marked or finished.   *)
LEMMA InitIndInv == Init => IndInv
<1> SUFFICES ASSUME Init PROVE IndInv
  OBVIOUS
<1>1. Counted = {} /\ Unmarked = {} /\ Reported = {}
  BY DEF Init, Counted, Unmarked, Reported
<1>2. Cardinality({}) = 0
  BY FS_EmptySet
<1>3. TypeOK
  BY DEF Init, TypeOK, WorkerPCs, WriterPCs
<1>4. InFlightAccounted
  BY <1>1, <1>2 DEF Init, InFlightAccounted
<1>5. ChannelBounded
  BY CapacityAssumption DEF Init, ChannelBounded
<1>6. MarkCatchesUp
  <2> SUFFICES ASSUME NEW S \in SUBSET Unmarked
               PROVE \E m \in {maxInFlight} \cup {seen[w] : w \in S} :
                       inFlight + Cardinality(S) <= m + Cardinality(Unmarked)
    BY DEF MarkCatchesUp
  <2>1. S = {} BY <1>1
  <2>2. inFlight + Cardinality(S) <= maxInFlight + Cardinality(Unmarked)
    BY <2>1, <1>1, <1>2 DEF Init
  <2> QED BY <2>2
<1>7. SeenBounded /\ MarkBounded
  BY SetsFinite, CapacityAssumption DEF Init, SeenBounded, MarkBounded
<1>8. FinishedCounted /\ JoinCounted
  BY <1>1, <1>2 DEF Init, FinishedCounted, JoinCounted
<1> QED BY <1>3, <1>4, <1>5, <1>6, <1>7, <1>8 DEF IndInv

(* The mark's lag is undisturbed by a step that leaves the mark and the    *)
(* unmarked workers alone and does not put another message in flight.      *)
LEMMA LagKept ==
  ASSUME TypeOK, TypeOK', MarkCatchesUp,
         Unmarked' = Unmarked, UNCHANGED <<maxInFlight, seen>>,
         inFlight' <= inFlight
  PROVE  MarkCatchesUp'
<1> SUFFICES ASSUME NEW S \in SUBSET Unmarked
             PROVE \E m \in {maxInFlight'} \cup {seen'[w] : w \in S} :
                     inFlight' + Cardinality(S) <= m + Cardinality(Unmarked')
  BY DEF MarkCatchesUp
<1>1. PICK m \in {maxInFlight} \cup {seen[w] : w \in S} :
        inFlight + Cardinality(S) <= m + Cardinality(Unmarked)
  BY DEF MarkCatchesUp
<1>2. m \in Nat
  BY <1>1 DEF TypeOK, Unmarked
<1>3. Cardinality(S) \in Nat /\ Cardinality(Unmarked) \in Nat
  BY SetsFinite, FS_Subset, FS_CardinalityType
<1>4. inFlight' + Cardinality(S) <= m + Cardinality(Unmarked)
  BY <1>1, <1>2, <1>3 DEF TypeOK
<1> QED BY <1>1, <1>4

-----------------------------------------------------------------------------
(* One step preserves the invariant: one lemma per action that counts.     *)

(* A worker that waits, collects or looks at stop counts nothing, so the    *)
(* accounting is as it was.                                                 *)
LEMMA QuietPreserves ==
  ASSUME IndInv, NEW w \in Workers, Quiet(w)
  PROVE  IndInv'
<1>1. /\ pc' \in [Workers -> WorkerPCs]
      /\ Counted' = Counted /\ Unmarked' = Unmarked /\ Reported' = Reported
      /\ UNCHANGED <<stop, queued, finished, stats, consumer>>
  BY QuietStep DEF IndInv
<1>2. TypeOK'
  BY <1>1 DEF IndInv, TypeOK, stats, consumer
<1>3. MarkCatchesUp'
  BY <1>1, <1>2, LagKept DEF IndInv, TypeOK, stats
<1> QED
  BY <1>1, <1>2, <1>3 DEF IndInv, InFlightAccounted, ChannelBounded,
     SeenBounded, MarkBounded, FinishedCounted, JoinCounted, stats,
     consumer, Total

(* fetch_add: one more message in flight, and one more worker whose mark may *)
(* lag behind.                                                              *)
LEMMA CountPreserves ==
  ASSUME IndInv, NEW w \in Workers, Count(w)
  PROVE  IndInv'
<1> USE DEF IndInv
<1>1. /\ pc' = [pc EXCEPT ![w] = "mark"] /\ pc[w] = "count"
      /\ inFlight' = inFlight + 1
      /\ seen' = [seen EXCEPT ![w] = inFlight + 1]
      /\ UNCHANGED <<stop, queued, finished, maxInFlight, writer, stuck,
                     rxAlive, discarded>>
  BY DEF Count, Goto, consumer
<1>2. /\ w \notin Counted /\ Counted' = Counted \cup {w}
      /\ w \notin Unmarked /\ Unmarked' = Unmarked \cup {w}
      /\ Reported' = Reported
  BY <1>1, SetsMove DEF TypeOK, Counted, Unmarked, Reported
<1>3. /\ Cardinality(Counted') = Cardinality(Counted) + 1
      /\ Cardinality(Unmarked') = Cardinality(Unmarked) + 1
  BY <1>2, SetsFinite, FS_AddElement
<1>4. TypeOK'
  BY <1>1 DEF TypeOK, WorkerPCs
<1>5. InFlightAccounted'
  BY <1>1, <1>3, SetsFinite DEF InFlightAccounted, TypeOK
<1>6. Cardinality(Counted) + 1 <= Total
  <2>1. Counted' \in SUBSET Workers
    BY DEF Counted
  <2>2. Cardinality(Counted') <= Total
    BY <2>1, FS_Subset, WorkersAssumption DEF Total
  <2> QED BY <2>2, <1>3
<1>7. SeenBounded'
  <2>1. inFlight + 1 <= Capacity + Total + 1
    BY <1>6, SetsFinite, CapacityAssumption
       DEF InFlightAccounted, ChannelBounded, TypeOK
  <2> QED BY <2>1, <1>1 DEF SeenBounded, TypeOK, Total
<1>8. MarkCatchesUp'
  <2> SUFFICES ASSUME NEW S \in SUBSET Unmarked'
               PROVE \E m \in {maxInFlight'} \cup {seen'[v] : v \in S} :
                       inFlight' + Cardinality(S) <= m + Cardinality(Unmarked')
    BY DEF MarkCatchesUp
  <2>1. IsFiniteSet(Unmarked') /\ Cardinality(Unmarked') \in Nat
    BY <1>2, <1>3, SetsFinite, FS_AddElement
  <2>2. /\ IsFiniteSet(S) /\ Cardinality(S) \in Nat
        /\ Cardinality(S) <= Cardinality(Unmarked')
    BY <2>1, FS_Subset, FS_CardinalityType
  <2>3. CASE w \in S
    <3>1. seen'[w] = inFlight' /\ inFlight' \in Nat
      BY <1>1 DEF TypeOK
    <3>2. inFlight' + Cardinality(S) <= seen'[w] + Cardinality(Unmarked')
      BY <3>1, <2>1, <2>2
    <3> QED BY <3>2, <2>3
  <2>4. CASE w \notin S
    <3>1. S \in SUBSET Unmarked
      BY <1>2, <2>4
    <3>2. PICK m \in {maxInFlight} \cup {seen[v] : v \in S} :
            inFlight + Cardinality(S) <= m + Cardinality(Unmarked)
      BY <3>1 DEF MarkCatchesUp
    <3>3. m \in {maxInFlight'} \cup {seen'[v] : v \in S} /\ m \in Nat
      BY <3>1, <3>2, <2>4, <1>1 DEF TypeOK, Unmarked
    <3>4. inFlight' + Cardinality(S) <= m + Cardinality(Unmarked')
      BY <3>2, <3>3, <1>1, <1>3, <2>2, SetsFinite DEF TypeOK
    <3> QED BY <3>3, <3>4
  <2> QED BY <2>3, <2>4
<1> QED
  BY <1>1, <1>2, <1>4, <1>5, <1>7, <1>8
     DEF ChannelBounded, MarkBounded, FinishedCounted, JoinCounted, Total

(* The worker raises the high-water mark to what its own fetch_add saw and  *)
(* no longer lags.                                                          *)
LEMMA RaiseMaxPreserves ==
  ASSUME IndInv, NEW w \in Workers, RaiseMax(w)
  PROVE  IndInv'
<1> USE DEF IndInv
<1>1. /\ pc' = [pc EXCEPT ![w] = "offer"] /\ pc[w] = "mark"
      /\ maxInFlight' = IF seen[w] > maxInFlight THEN seen[w] ELSE maxInFlight
      /\ seen' = [seen EXCEPT ![w] = 0]
      /\ UNCHANGED <<stop, queued, finished, inFlight, writer, stuck,
                     rxAlive, discarded>>
  BY DEF RaiseMax, Goto, consumer
<1>2. /\ Counted' = Counted
      /\ w \in Unmarked /\ Unmarked' = Unmarked \ {w}
      /\ Reported' = Reported
  BY <1>1, SetsMove DEF TypeOK, Counted, Unmarked, Reported
<1>3. Cardinality(Unmarked') = Cardinality(Unmarked) - 1
  BY <1>2, SetsFinite, FS_RemoveElement
<1>4. TypeOK'
  BY <1>1 DEF TypeOK, WorkerPCs
<1>5. SeenBounded' /\ MarkBounded'
  BY <1>1, SetsFinite, CapacityAssumption
     DEF SeenBounded, MarkBounded, TypeOK, Total
<1>6. MarkCatchesUp'
  <2> SUFFICES ASSUME NEW S \in SUBSET Unmarked'
               PROVE \E m \in {maxInFlight'} \cup {seen'[v] : v \in S} :
                       inFlight' + Cardinality(S) <= m + Cardinality(Unmarked')
    BY DEF MarkCatchesUp
  <2>1. S \cup {w} \in SUBSET Unmarked /\ w \notin S
    BY <1>2
  <2>2. /\ IsFiniteSet(S) /\ Cardinality(S) \in Nat
        /\ Cardinality(S \cup {w}) = Cardinality(S) + 1
    BY <2>1, SetsFinite, FS_Subset, FS_CardinalityType, FS_AddElement
  <2>3. PICK m \in {maxInFlight} \cup {seen[v] : v \in S \cup {w}} :
          inFlight + Cardinality(S \cup {w}) <= m + Cardinality(Unmarked)
    BY <2>1 DEF MarkCatchesUp
  <2>4. m \in Nat
    BY <2>1, <2>3 DEF TypeOK, Unmarked
  <2>5. PICK k \in {maxInFlight'} \cup {seen'[v] : v \in S} :
          k \in Nat /\ m <= k
    <3>1. CASE m = maxInFlight \/ m = seen[w]
      BY <3>1, <1>1 DEF TypeOK
    <3>2. CASE \E v \in S : m = seen[v]
      <4>1. PICK v \in S : m = seen[v]
        BY <3>2
      <4>2. seen'[v] = seen[v]
        BY <4>1, <2>1, <1>1 DEF TypeOK, Unmarked
      <4> QED BY <4>1, <4>2, <2>4
    <3> QED BY <2>3, <3>1, <3>2
  <2>6. inFlight' + Cardinality(S) <= k + Cardinality(Unmarked')
    BY <2>2, <2>3, <2>4, <2>5, <1>1, <1>3, SetsFinite DEF TypeOK
  <2> QED BY <2>5, <2>6
<1> QED
  BY <1>1, <1>2, <1>4, <1>5, <1>6
     DEF InFlightAccounted, ChannelBounded, FinishedCounted, JoinCounted,
         Total

(* try_send moves a counted message from the worker into the channel.       *)
LEMMA TrySendOkPreserves ==
  ASSUME IndInv, NEW w \in Workers, TrySendOk(w)
  PROVE  IndInv'
<1> USE DEF IndInv
<1>1. /\ pc' = [pc EXCEPT ![w] = "sleep"] /\ pc[w] = "try"
      /\ rxAlive /\ queued < Capacity /\ queued' = queued + 1
      /\ UNCHANGED <<stop, finished, inFlight, maxInFlight, seen, writer,
                     stuck, rxAlive, discarded>>
  BY DEF TrySendOk, Goto, consumer, stats
<1>2. /\ w \in Counted /\ Counted' = Counted \ {w}
      /\ Unmarked' = Unmarked /\ Reported' = Reported
  BY <1>1, SetsMove DEF TypeOK, Counted, Unmarked, Reported
<1>3. Cardinality(Counted') = Cardinality(Counted) - 1
  BY <1>2, SetsFinite, FS_RemoveElement
<1>4. TypeOK'
  BY <1>1 DEF TypeOK, WorkerPCs
<1>5. InFlightAccounted'
  BY <1>1, <1>3, SetsFinite DEF InFlightAccounted, TypeOK
<1>6. ChannelBounded'
  BY <1>1, CapacityAssumption DEF ChannelBounded, TypeOK
<1>7. MarkCatchesUp'
  BY <1>1, <1>2, <1>4, LagKept DEF TypeOK
<1> QED
  BY <1>1, <1>2, <1>4, <1>5, <1>6, <1>7
     DEF SeenBounded, MarkBounded, FinishedCounted, JoinCounted, Total

(* A message that could not be sent is taken back from in_flight by the     *)
(* worker that counted it.                                                  *)
LEMMA ReconcilePreserves ==
  ASSUME IndInv, NEW w \in Workers, Reconcile(w)
  PROVE  IndInv'
<1> USE DEF IndInv
<1>1. /\ pc' = [pc EXCEPT ![w] = "exit"] /\ pc[w] = "unsent"
      /\ inFlight' = inFlight - 1
      /\ UNCHANGED <<stop, queued, finished, maxInFlight, seen, writer,
                     stuck, rxAlive, discarded>>
  BY DEF Reconcile, Goto, consumer
<1>2. /\ w \in Counted /\ Counted' = Counted \ {w}
      /\ Unmarked' = Unmarked /\ Reported' = Reported
  BY <1>1, SetsMove DEF TypeOK, Counted, Unmarked, Reported
<1>3. /\ Cardinality(Counted') = Cardinality(Counted) - 1
      /\ Cardinality(Counted') \in Nat
  BY <1>2, SetsFinite, FS_RemoveElement, FS_CardinalityType
<1>4. TypeOK' /\ InFlightAccounted'
  BY <1>1, <1>3, SetsFinite DEF TypeOK, InFlightAccounted, WorkerPCs
<1>5. MarkCatchesUp'
  BY <1>1, <1>2, <1>4, LagKept DEF TypeOK
<1> QED
  BY <1>1, <1>2, <1>4, <1>5
     DEF ChannelBounded, SeenBounded, MarkBounded, FinishedCounted,
         JoinCounted, Total

(* FinishedGuard::drop counts the worker exactly once.                      *)
LEMMA ExitPreserves ==
  ASSUME IndInv, NEW w \in Workers, Exit(w)
  PROVE  IndInv'
<1> USE DEF IndInv
<1>1. /\ pc' = [pc EXCEPT ![w] = "leaving"] /\ pc[w] = "exit"
      /\ finished' = finished + 1
      /\ UNCHANGED <<stop, queued, inFlight, maxInFlight, seen, writer,
                     stuck, rxAlive, discarded>>
  BY DEF Exit, Goto, consumer, stats
<1>2. /\ w \notin Reported /\ Reported' = Reported \cup {w}
      /\ Counted' = Counted /\ Unmarked' = Unmarked
  BY <1>1, SetsMove DEF TypeOK, Counted, Unmarked, Reported
<1>3. FinishedCounted'
  BY <1>1, <1>2, SetsFinite, FS_AddElement DEF FinishedCounted
<1>4. TypeOK'
  BY <1>1 DEF TypeOK, WorkerPCs
<1>5. MarkCatchesUp'
  BY <1>1, <1>2, <1>4, LagKept DEF TypeOK
<1> QED
  BY <1>1, <1>2, <1>3, <1>4, <1>5, SetsFinite
     DEF InFlightAccounted, ChannelBounded, SeenBounded, MarkBounded,
         JoinCounted, TypeOK, Total

(* The consumer's steps and the interrupt leave the workers where they are. *)
LEMMA ConsumerPreserves ==
  ASSUME IndInv, ConsumerRuns \/ ConsoleStop
  PROVE  IndInv'
<1> USE DEF IndInv
<1>1. UNCHANGED <<pc, finished, maxInFlight, seen>>
  BY DEF ConsumerRuns, ConsoleStop, LoopTop, Receive, AfterRecv, RecvTimeout,
         Disconnected, SetStop, DropReceiver, FinishJoined, Join,
         FinishDeadline, stats, consumer
<1>2. Counted' = Counted /\ Unmarked' = Unmarked /\ Reported' = Reported
  BY <1>1 DEF Counted, Unmarked, Reported
<1>3. /\ SeenBounded' /\ MarkBounded' /\ FinishedCounted'
  BY <1>1, <1>2 DEF SeenBounded, MarkBounded, FinishedCounted, Total
<1>4. ASSUME TypeOK', inFlight' <= inFlight
      PROVE  MarkCatchesUp'
  BY <1>1, <1>2, <1>4, LagKept
<1>5. CASE QuietConsumer
  <2>1. /\ UNCHANGED <<queued, rxAlive, inFlight, discarded, stuck>>
        /\ writer' \in WriterPCs /\ stop' \in BOOLEAN
        /\ (writer' = "got" <=> writer = "got")
        /\ (writer' \in {"top", "recv", "got", "stopping", "drop"}
              <=> writer \in {"top", "recv", "got", "stopping", "drop"})
        /\ writer' # "join"
    BY <1>5 DEF QuietConsumer, ConsoleStop, LoopTop, RecvTimeout,
       Disconnected, SetStop, stats, consumer, WriterPCs, TypeOK
  <2>2. TypeOK'
    BY <1>1, <2>1 DEF TypeOK
  <2>3. InFlightAccounted' /\ ChannelBounded' /\ JoinCounted'
    BY <1>1, <1>2, <2>1
       DEF InFlightAccounted, ChannelBounded, JoinCounted, Total
  <2>4. MarkCatchesUp'
    BY <1>4, <2>1, <2>2 DEF TypeOK
  <2> QED BY <1>3, <2>2, <2>3, <2>4
<1>6. CASE Receive
  <2>1. /\ writer = "recv" /\ writer' = "got"
        /\ queued > 0 /\ queued' = queued - 1
        /\ UNCHANGED <<stop, rxAlive, inFlight, discarded, stuck>>
    BY <1>6 DEF Receive, stats
  <2>2. TypeOK'
    BY <1>1, <2>1 DEF TypeOK, WriterPCs
  <2>3. InFlightAccounted'
    BY <1>2, <2>1, SetsFinite DEF InFlightAccounted, TypeOK
  <2>4. ChannelBounded' /\ JoinCounted'
    BY <2>1, CapacityAssumption DEF ChannelBounded, JoinCounted, TypeOK
  <2>5. MarkCatchesUp'
    BY <1>4, <2>1, <2>2 DEF TypeOK
  <2> QED BY <1>3, <2>2, <2>3, <2>4, <2>5
<1>7. CASE AfterRecv
  <2>1. /\ writer = "got" /\ writer' \in {"top", "stopping"}
        /\ inFlight' = inFlight - 1
        /\ UNCHANGED <<stop, queued, rxAlive, discarded, stuck>>
    BY <1>7 DEF AfterRecv
  <2>2. InFlightAccounted' /\ inFlight' \in Nat
    BY <1>2, <2>1, SetsFinite DEF InFlightAccounted, TypeOK
  <2>3. TypeOK'
    BY <1>1, <2>1, <2>2 DEF TypeOK, WriterPCs
  <2>4. ChannelBounded' /\ JoinCounted'
    BY <2>1 DEF ChannelBounded, JoinCounted
  <2>5. MarkCatchesUp'
    BY <1>4, <2>1, <2>3 DEF TypeOK
  <2> QED BY <1>3, <2>2, <2>3, <2>4, <2>5
<1>8. CASE DropReceiver
  <2>1. /\ writer = "drop" /\ writer' = "finish"
        /\ rxAlive' = FALSE /\ discarded' = queued /\ queued' = 0
        /\ UNCHANGED <<stop, inFlight, stuck>>
    BY <1>8 DEF DropReceiver, stats
  <2>2. rxAlive /\ discarded = 0
    BY <2>1 DEF ChannelBounded
  <2>3. TypeOK'
    BY <1>1, <2>1 DEF TypeOK, WriterPCs
  <2>4. InFlightAccounted'
    BY <1>2, <2>1, <2>2, SetsFinite DEF InFlightAccounted, TypeOK
  <2>5. ChannelBounded' /\ JoinCounted'
    BY <2>1, <2>2, CapacityAssumption
       DEF ChannelBounded, JoinCounted, TypeOK
  <2>6. MarkCatchesUp'
    BY <1>4, <2>1, <2>3 DEF TypeOK
  <2> QED BY <1>3, <2>3, <2>4, <2>5, <2>6
<1>9. CASE FinishJoined \/ Join \/ FinishDeadline
  <2>1. /\ writer \in {"finish", "join"} /\ writer' \in {"join", "returned"}
        /\ stuck' \in Nat /\ (writer' = "join" => finished >= Total)
        /\ UNCHANGED <<stop, queued, rxAlive, discarded, inFlight>>
    BY <1>9, SetsFinite
       DEF FinishJoined, Join, FinishDeadline, stats, TypeOK
  <2>2. TypeOK'
    BY <1>1, <2>1 DEF TypeOK, WriterPCs
  <2>3. InFlightAccounted' /\ ChannelBounded' /\ JoinCounted'
    BY <1>1, <1>2, <2>1
       DEF InFlightAccounted, ChannelBounded, JoinCounted, Total
  <2>4. MarkCatchesUp'
    BY <1>4, <2>1, <2>2 DEF TypeOK
  <2> QED BY <1>3, <2>2, <2>3, <2>4
<1> QED
  BY <1>5, <1>6, <1>7, <1>8, <1>9 DEF ConsumerRuns, QuietConsumer

(* Every step of a worker, of the consumer or of the console handler        *)
(* preserves the accounting.                                                *)
LEMMA StepIndInv == IndInv /\ [Next]_vars => IndInv'
<1> SUFFICES ASSUME IndInv, [Next]_vars
             PROVE  IndInv'
  OBVIOUS
<1>1. ASSUME NEW w \in Workers, Worker(w)
      PROVE  IndInv'
  BY <1>1, WorkerSteps, QuietPreserves, CountPreserves, RaiseMaxPreserves,
     TrySendOkPreserves, ReconcilePreserves, ExitPreserves
<1>2. CASE ConsumerRuns \/ ConsoleStop
  BY <1>2, ConsumerPreserves
<1>3. CASE UNCHANGED vars
  <2>1. Counted' = Counted /\ Unmarked' = Unmarked /\ Reported' = Reported
    BY <1>3 DEF vars, Counted, Unmarked, Reported
  <2>2. TypeOK'
    BY <1>3 DEF vars, IndInv, TypeOK
  <2>3. MarkCatchesUp'
    BY <1>3, <2>1, <2>2, LagKept DEF vars, IndInv, TypeOK
  <2> QED
    BY <1>3, <2>1, <2>2, <2>3 DEF vars, IndInv, InFlightAccounted,
       ChannelBounded, SeenBounded, MarkBounded, FinishedCounted,
       JoinCounted, Total
<1> QED
  BY <1>1, <1>2, <1>3 DEF Next, Terminated

(* The accounting of sched.rs (IndInv) holds in every reachable state, with *)
(* any number of workers and any capacity.                                  *)
THEOREM Inductive == Spec => []IndInv
BY InitIndInv, StepIndInv, PTL DEF Spec

-----------------------------------------------------------------------------
(* The counters of SchedStats and every other variable keep their types:   *)
(* in particular in_flight is never decremented below zero.                *)
THEOREM TypeCorrect == Spec => []TypeOK
<1>1. IndInv => TypeOK
  BY DEF IndInv
<1> QED BY <1>1, Inductive, PTL

(* in_flight is exactly the messages counted and not given back.           *)
THEOREM Accounting == Spec => []InFlightAccounted
<1>1. IndInv => InFlightAccounted
  BY DEF IndInv
<1> QED BY <1>1, Inductive, PTL

(* The footer's queue_max covers every backlog the channel ever had.       *)
THEOREM HighWaterMark == Spec => []MarkCoversBacklog
<1>1. IndInv => MarkCoversBacklog
  <2> SUFFICES ASSUME IndInv PROVE MarkCoversBacklog
    OBVIOUS
  <2>1. {} \in SUBSET Unmarked /\ Cardinality({}) = 0
    BY FS_EmptySet
  <2>2. \E m \in {maxInFlight} \cup {seen[w] : w \in {}} :
          inFlight + Cardinality({}) <= m + Cardinality(Unmarked)
    BY <2>1 DEF IndInv, MarkCatchesUp
  <2>3. inFlight <= maxInFlight + Cardinality(Unmarked)
    BY <2>1, <2>2 DEF IndInv, TypeOK
  <2>4. queued + Cardinality(Counted) <= inFlight
    BY SetsFinite DEF IndInv, TypeOK, InFlightAccounted
  <2> QED
    BY <2>3, <2>4, SetsFinite DEF IndInv, TypeOK, MarkCoversBacklog
<1> QED BY <1>1, Inductive, PTL

(* ... and exceeds the capacity by at most one message per worker and one  *)
(* in the writer's hand.                                                   *)
THEOREM HighWaterBound == Spec => []MarkBounded
<1>1. IndInv => MarkBounded
  BY DEF IndInv
<1> QED BY <1>1, Inductive, PTL

(* finish_bounded joins only threads that are past every collector call,    *)
(* whatever ended them, so that its joins cannot meet a blocked one.        *)
THEOREM JoinsOnlyTheEnded == Spec => []OnlyEndedAreJoined
<1>1. IndInv => OnlyEndedAreJoined
  <2> SUFFICES ASSUME IndInv, writer = "join"
               PROVE  Reported = Workers
    BY DEF OnlyEndedAreJoined
  <2>1. Cardinality(Reported) = Total
    BY SetsFinite DEF IndInv, JoinCounted, FinishedCounted
  <2> QED BY <2>1, SetsFinite
<1> QED BY <1>1, Inductive, PTL

-----------------------------------------------------------------------------
(* Induction over data.                                                    *)

(* A set of numbers with 0 that is closed under successor has every natural *)
(* number (the least number outside it would have a predecessor inside).    *)
LEMMA SetInduction ==
  ASSUME NEW S, 0 \in S, \A n \in Nat : n \in S => n + 1 \in S
  PROVE  Nat \subseteq S
<1> DEFINE T == Nat \ S
           R == OpToRel(<, Nat)
<1> SUFFICES ASSUME T # {} PROVE FALSE
  OBVIOUS
<1>1. PICK x \in T : \A y \in T : <<y, x>> \notin R
  BY WFMin, NatLessThanWellFounded
<1>2. x \in Nat /\ x # 0 /\ x - 1 \in Nat
  OBVIOUS
<1>3. <<x - 1, x>> \in R
  BY <1>2 DEF OpToRel
<1>4. x - 1 \notin T
  BY <1>1, <1>3
<1> QED
  BY <1>2, <1>4

(* f obeys a recursion up to n.                                             *)
Obeys(f, step, n) == \A i \in 1..n : f[i] = step[<<i, f[i - 1]>>]

(* A recursion over 0..N has a solution ...                                 *)
LEMMA RecursionExists ==
  ASSUME NEW N \in Nat, NEW V, NEW a \in V, NEW step \in [(1..N) \X V -> V]
  PROVE  \E f \in [0..N -> V] : f[0] = a /\ Obeys(f, step, N)
<1> DEFINE S == {n \in Nat : n <= N => \E f \in [0..N -> V] : f[0] = a /\ Obeys(f, step, n)}
<1>1. 0 \in S
  <2> DEFINE f == [i \in 0..N |-> a]
  <2>1. f \in [0..N -> V] /\ f[0] = a /\ Obeys(f, step, 0)
    BY DEF Obeys
  <2> QED
    BY <2>1
<1>2. ASSUME NEW n \in Nat, n \in S PROVE n + 1 \in S
  <2> SUFFICES ASSUME n + 1 <= N
               PROVE  \E f \in [0..N -> V] : f[0] = a /\ Obeys(f, step, n + 1)
    OBVIOUS
  <2>1. PICK g \in [0..N -> V] : g[0] = a /\ Obeys(g, step, n)
    BY <1>2
  <2>2. n \in 0..N /\ n + 1 \in 1..N
    OBVIOUS
  <2>3. step[<<n + 1, g[n]>>] \in V
    BY <2>1, <2>2
  <2> DEFINE f == [g EXCEPT ![n + 1] = step[<<n + 1, g[n]>>]]
  <2>4. f \in [0..N -> V] /\ f[0] = a
    BY <2>1, <2>2, <2>3
  <2>5. \A i \in 0..n : f[i] = g[i]
    BY <2>1, <2>2
  <2>6. f[n + 1] = step[<<n + 1, f[n]>>]
    BY <2>1, <2>2
  <2> HIDE DEF f
  <2>7. ASSUME NEW i \in 1..(n + 1) PROVE f[i] = step[<<i, f[i - 1]>>]
    <3>1. CASE i = n + 1
      BY <3>1, <2>6
    <3>2. CASE i # n + 1
      <4>1. i \in 1..n /\ i \in 0..n /\ i - 1 \in 0..n
        BY <3>2
      <4> QED
        BY <4>1, <2>1, <2>5 DEF Obeys
    <3> QED
      BY <3>1, <3>2
  <2> QED
    BY <2>4, <2>7 DEF Obeys
<1>3. N \in S
  <2> HIDE DEF S
  <2> QED
    BY <1>1, <1>2, SetInduction
<1> QED
  BY <1>3

(* ... and what obeys it where its values are in V has all of them there.   *)
LEMMA RecursionType ==
  ASSUME NEW N \in Nat, NEW V, NEW f, f[0] \in V,
         \A i \in 1..N : f[i - 1] \in V => f[i] \in V
  PROVE  \A i \in 0..N : f[i] \in V
<1> DEFINE S == {i \in Nat : i \in 0..N => f[i] \in V}
<1>1. 0 \in S
  OBVIOUS
<1>2. ASSUME NEW i \in Nat, i \in S PROVE i + 1 \in S
  <2>1. CASE i + 1 \in 0..N
    <3>1. i + 1 \in 1..N /\ f[i] \in V /\ (i + 1) - 1 = i
      BY <1>2, <2>1
    <3> QED
      BY <3>1
  <2> QED
    BY <2>1
<1>3. Nat \subseteq S
  <2> HIDE DEF S
  <2> QED
    BY <1>1, <1>2, SetInduction
<1> QED
  BY <1>3

(* Partial sums.                                                            *)
Sums(t) == CHOOSE f : f = [i \in 0..Len(t) |-> IF i = 0 THEN 0 ELSE f[i - 1] + t[i]]

(* SumSeq is the last of the partial sums, and these are integers: the      *)
(* recursive function of EnergyMath exists.                                 *)
LEMMA SumsDef ==
  ASSUME NEW t \in Seq(Int)
  PROVE  /\ SumSeq(t) = Sums(t)[Len(t)] /\ Sums(t)[0] = 0
         /\ \A i \in 0..Len(t) : Sums(t)[i] \in Int
         /\ \A i \in 1..Len(t) : Sums(t)[i] = Sums(t)[i - 1] + t[i]
<1> DEFINE N == Len(t)
           step == [p \in (1..N) \X Int |-> p[2] + t[p[1]]]
           s == Sums(t)
<1>1. N \in Nat /\ 0 \in Int
  OBVIOUS
<1>2. step \in [(1..N) \X Int -> Int]
  <2> SUFFICES ASSUME NEW p \in (1..N) \X Int PROVE p[2] + t[p[1]] \in Int
    OBVIOUS
  <2>1. p[1] \in 1..N /\ p[2] \in Int /\ t[p[1]] \in Int
    OBVIOUS
  <2> QED
    BY <2>1
<1>3. PICK f \in [0..N -> Int] : f[0] = 0 /\ Obeys(f, step, N)
  <2> HIDE DEF step, N
  <2> QED
    BY <1>1, <1>2, RecursionExists
<1> HIDE DEF N
<1>4. \A i \in 1..N : f[i] = f[i - 1] + t[i]
  <2> TAKE i \in 1..N
  <2>1. i - 1 \in 0..N /\ f[i - 1] \in Int
    BY <1>1, <1>3
  <2>2. f[i] = step[<<i, f[i - 1]>>]
    BY <1>3 DEF Obeys
  <2> QED
    BY <2>1, <2>2
<1>5. f = [i \in 0..N |-> IF i = 0 THEN 0 ELSE f[i - 1] + t[i]]
  <2>1. \A i \in 0..N : f[i] = IF i = 0 THEN 0 ELSE f[i - 1] + t[i]
    BY <1>3, <1>4
  <2> QED
    BY <2>1, <1>3
<1>6. s = [i \in 0..N |-> IF i = 0 THEN 0 ELSE s[i - 1] + t[i]]
  BY <1>5 DEF Sums, N
<1> HIDE DEF s
<1>7. s[0] = 0 /\ \A i \in 1..N : s[i] = s[i - 1] + t[i]
  BY <1>1, <1>6
<1>8. \A i \in 0..N : s[i] \in Int
  <2>1. \A i \in 1..N : s[i - 1] \in Int => s[i] \in Int
    <3> TAKE i \in 1..N
    <3>1. i \in 1..N /\ t[i] \in Int
      BY DEF N
    <3>2. s[i] = s[i - 1] + t[i]
      BY <1>7
    <3> QED
      BY <3>1, <3>2
  <2> QED
    BY <1>1, <1>7, <2>1, RecursionType
<1>9. SumSeq(t) = s[N]
  BY Zenon DEF SumSeq, Sums, s, N
<1> QED
  BY <1>7, <1>8, <1>9 DEF s, N

(* The sum of a series that grows.                                          *)
LEMMA SumGrows ==
  /\ SumSeq(<<>>) = 0
  /\ \A t \in Seq(Int) : SumSeq(t) \in Int
  /\ \A t \in Seq(Int), x \in Int : SumSeq(Append(t, x)) = SumSeq(t) + x
<1>1. SumSeq(<<>>) = 0
  <2>1. <<>> \in Seq(Int) /\ Len(<<>>) = 0
    OBVIOUS
  <2> QED
    BY <2>1, SumsDef
<1>2. ASSUME NEW t \in Seq(Int) PROVE SumSeq(t) \in Int
  <2>1. Len(t) \in 0..Len(t)
    OBVIOUS
  <2> QED
    BY <2>1, SumsDef
<1>3. ASSUME NEW t \in Seq(Int), NEW x \in Int PROVE SumSeq(Append(t, x)) = SumSeq(t) + x
  <2> DEFINE u == Append(t, x)
             N == Len(t)
             S == {i \in Nat : i \in 0..N => Sums(u)[i] = Sums(t)[i]}
  <2>1. u \in Seq(Int) /\ Len(u) = N + 1 /\ N \in Nat /\ u[N + 1] = x
        /\ \A i \in 1..N : u[i] = t[i]
    OBVIOUS
  <2> HIDE DEF u
  <2>2. 0 \in S
    BY <2>1, SumsDef
  <2>3. ASSUME NEW i \in Nat, i \in S PROVE i + 1 \in S
    <3> SUFFICES ASSUME i + 1 \in 0..N PROVE Sums(u)[i + 1] = Sums(t)[i + 1]
      OBVIOUS
    <3>1. /\ i + 1 \in 1..N /\ i + 1 \in 1..Len(u) /\ (i + 1) - 1 = i
          /\ Sums(u)[i] = Sums(t)[i]
      BY <2>1, <2>3
    <3>2. Sums(u)[i + 1] = Sums(u)[i] + u[i + 1]
      BY <2>1, <3>1, SumsDef
    <3>3. Sums(t)[i + 1] = Sums(t)[i] + t[i + 1]
      BY <3>1, SumsDef
    <3> QED
      BY <2>1, <3>1, <3>2, <3>3
  <2>4. Nat \subseteq S
    <3> HIDE DEF S
    <3> QED
      BY <2>2, <2>3, SetInduction
  <2>5. Sums(u)[N] = Sums(t)[N]
    BY <2>1, <2>4
  <2>6. Sums(u)[N + 1] = Sums(u)[N] + x
    <3>1. N + 1 \in 1..Len(u) /\ (N + 1) - 1 = N
      BY <2>1
    <3> QED
      BY <2>1, <3>1, SumsDef
  <2>7. SumSeq(u) = Sums(u)[N + 1] /\ SumSeq(t) = Sums(t)[N]
    BY <2>1, SumsDef
  <2> QED
    BY <2>5, <2>6, <2>7 DEF u
<1> QED
  BY <1>1, <1>2, <1>3

(* How many elements of a sequence are in T.                                *)
Tally(es, T) == Cardinality({i \in DOMAIN es : es[i] \in T})

(* Appending an element raises the tally by one if it is in T, and by       *)
(* nothing otherwise.                                                       *)
LEMMA TallyGrows ==
  ASSUME NEW X, NEW es \in Seq(X), NEW e \in X, NEW T
  PROVE  /\ Tally(<<>>, T) = 0 /\ Tally(es, T) \in Nat
         /\ Tally(Append(es, e), T) = Tally(es, T) + (IF e \in T THEN 1 ELSE 0)
<1> DEFINE P == {i \in DOMAIN es : es[i] \in T}
           n == Len(es)
           fs == Append(es, e)
<1>1. n \in Nat /\ DOMAIN es = 1..n /\ fs \in Seq(X) /\ DOMAIN fs = 1..(n + 1)
      /\ fs[n + 1] = e /\ \A i \in 1..n : fs[i] = es[i]
  OBVIOUS
<1>2. Tally(<<>>, T) = 0
  <2>1. {i \in DOMAIN <<>> : <<>>[i] \in T} = {}
    OBVIOUS
  <2> QED
    BY <2>1, FS_EmptySet, Zenon DEF Tally
<1>3. IsFiniteSet(P) /\ Cardinality(P) \in Nat
  <2>1. IsFiniteSet(1..n) /\ P \subseteq 1..n
    BY <1>1, FS_Interval
  <2> QED
    BY <2>1, FS_Subset, FS_CardinalityType
<1>4. {i \in DOMAIN fs : fs[i] \in T} = P \cup (IF e \in T THEN {n + 1} ELSE {}) /\ n + 1 \notin P
  <2> HIDE DEF fs, n
  <2> QED
    BY <1>1
<1> DEFINE Q == {i \in DOMAIN fs : fs[i] \in T}
<1>5. Cardinality(Q) = Cardinality(P) + (IF e \in T THEN 1 ELSE 0)
  <2> HIDE DEF P, Q, n, fs
  <2>1. CASE e \in T
    <3>1. Q = P \cup {n + 1}
      BY <1>4, <2>1 DEF Q
    <3> QED
      BY <3>1, <1>3, <1>4, <2>1, FS_AddElement
  <2>2. CASE e \notin T
    <3>1. Q = P
      BY <1>4, <2>2 DEF Q
    <3> QED
      BY <3>1, <1>3, <2>2
  <2> QED
    BY <2>1, <2>2
<1> QED
  BY <1>2, <1>3, <1>5, Zenon DEF Tally

-----------------------------------------------------------------------------
(* The batch integration of a series that grows by one sample.             *)

(* Why a boundary is forced at step i of a series.                          *)
KindOf(ss, gap, i) ==
  classify_step(ss[i+1].mono - ss[i].mono, WallStep(ss[i], ss[i+1]), gap)

Broken(ss, gap) == {i \in StepsOf(ss) : KindOf(ss, gap, i) # None}

(* A series of stamped samples and its watts. *)
Stamped(R) == \A r \in R : r.mono \in Int /\ r.wall \in Int

(* detect_discontinuities marks a step of the series at most once, with the *)
(* kind classify_step gives it.                                             *)
LEMMA DiscontinuitiesDef ==
  ASSUME NEW ss, NEW gap
  PROVE  /\ discontinuities(ss, gap) = {<<i, KindOf(ss, gap, i)>> : i \in Broken(ss, gap)}
         /\ {d[1] : d \in discontinuities(ss, gap)} = Broken(ss, gap)
<1>1. discontinuities(ss, gap) = {<<i, KindOf(ss, gap, i)>> : i \in Broken(ss, gap)}
  <2>1. ASSUME NEW x, x \in discontinuities(ss, gap)
        PROVE  x \in {<<i, KindOf(ss, gap, i)>> : i \in Broken(ss, gap)}
    <3>1. PICK i \in StepsOf(ss) : KindOf(ss, gap, i) # None /\ x = <<i, KindOf(ss, gap, i)>>
      BY <2>1, Zenon DEF discontinuities, KindOf
    <3> QED
      BY <3>1 DEF Broken
  <2>2. ASSUME NEW i \in Broken(ss, gap)
        PROVE  <<i, KindOf(ss, gap, i)>> \in discontinuities(ss, gap)
    <3>1. i \in StepsOf(ss) /\ KindOf(ss, gap, i) # None
      BY DEF Broken
    <3> QED
      BY <3>1, Zenon DEF discontinuities, KindOf
  <2>3. {<<i, KindOf(ss, gap, i)>> : i \in Broken(ss, gap)} \subseteq discontinuities(ss, gap)
    BY <2>2
  <2> HIDE DEF discontinuities
  <2> QED
    BY <2>1, <2>3, Zenon
<1>2. {d[1] : d \in discontinuities(ss, gap)} = Broken(ss, gap)
  <2> DEFINE D == discontinuities(ss, gap)
  <2>1. \A d \in D : d[1] \in Broken(ss, gap)
    BY <1>1
  <2>2. \A i \in Broken(ss, gap) : \E d \in D : d[1] = i
    <3> TAKE i \in Broken(ss, gap)
    <3>1. <<i, KindOf(ss, gap, i)>> \in D
      BY <1>1
    <3> QED
      BY <3>1
  <2> HIDE DEF D
  <2>3. {d[1] : d \in D} = Broken(ss, gap)
    BY <2>1, <2>2
  <2> QED
    BY <2>3 DEF D
<1> QED
  BY <1>1, <1>2

(* One more sample: the steps there were stay as they are, and there is one *)
(* more.                                                                    *)
LEMMA StepsGrow ==
  ASSUME NEW R, NEW ss \in Seq(R), NEW m \in R, ss # <<>>, NEW gap
  PROVE  LET n == Len(ss)  S == Append(ss, m) IN
         /\ n \in Nat \ {0} /\ S \in Seq(R) /\ Len(S) = n + 1 /\ S # <<>>
         /\ StepsOf(ss) = 1..(n - 1) /\ StepsOf(S) = 1..n
         /\ \A i \in 1..n : S[i] = ss[i] /\ ss[i] \in R
         /\ S[n] = ss[n] /\ S[n + 1] = m
         /\ \A i \in 1..(n - 1) : S[i] = ss[i] /\ S[i + 1] = ss[i + 1]
         /\ \A i \in 1..(n - 1) : KindOf(S, gap, i) = KindOf(ss, gap, i)
         /\ Broken(S, gap) = Broken(ss, gap) \cup (IF KindOf(S, gap, n) # None THEN {n} ELSE {})
         /\ n \notin Broken(ss, gap) /\ Broken(ss, gap) \subseteq 1..(n - 1)
<1> DEFINE n == Len(ss)
           S == Append(ss, m)
<1>1. n \in Nat \ {0} /\ S \in Seq(R) /\ Len(S) = n + 1 /\ S # <<>>
  OBVIOUS
<1>2. StepsOf(ss) = 1..(n - 1) /\ StepsOf(S) = 1..n
  BY <1>1 DEF StepsOf
<1>3. \A i \in 1..n : S[i] = ss[i] /\ ss[i] \in R
  OBVIOUS
<1>4. S[n] = ss[n] /\ S[n + 1] = m
  BY <1>1, <1>3
<1>5. \A i \in 1..(n - 1) : S[i] = ss[i] /\ S[i + 1] = ss[i + 1]
  BY <1>1, <1>3
<1> HIDE DEF S, n
<1>6. \A i \in 1..(n - 1) : KindOf(S, gap, i) = KindOf(ss, gap, i)
  BY <1>5 DEF KindOf
<1>7. \A i \in 1..n : i = n \/ i \in 1..(n - 1)
  BY <1>1
<1>8. 1..(n - 1) \subseteq 1..n /\ n \in 1..n /\ n \notin 1..(n - 1)
  BY <1>1
<1>9. /\ Broken(S, gap) = Broken(ss, gap) \cup (IF KindOf(S, gap, n) # None THEN {n} ELSE {})
      /\ n \notin Broken(ss, gap) /\ Broken(ss, gap) \subseteq 1..(n - 1)
  BY <1>2, <1>6, <1>7, <1>8 DEF Broken
<1> QED
  BY <1>1, <1>2, <1>3, <1>4, <1>5, <1>6, <1>9 DEF S, n

(* A series of numbers given step by step grows by its last term. *)
LEMMA TermsGrow ==
  ASSUME NEW n \in Nat \ {0}, NEW f, NEW g,
         DOMAIN f = 1..(n - 1), f = [i \in DOMAIN f |-> f[i]],
         DOMAIN g = 1..n, g = [i \in DOMAIN g |-> g[i]],
         \A i \in 1..(n - 1) : f[i] \in Int /\ g[i] = f[i],
         g[n] \in Int
  PROVE  /\ f \in Seq(Int) /\ g \in Seq(Int) /\ g = Append(f, g[n])
         /\ SumSeq(f) \in Int /\ SumSeq(g) = SumSeq(f) + g[n]
<1>1. f \in [1..(n - 1) -> Int] /\ g \in [1..n -> Int]
  BY SMT
<1>2. n - 1 \in Nat /\ n \in Nat
  OBVIOUS
<1>3. f \in Seq(Int) /\ Len(f) = n - 1 /\ g \in Seq(Int) /\ Len(g) = n
  BY <1>1, <1>2
<1>4. g = Append(f, g[n])
  <2> DEFINE h == Append(f, g[n])
  <2>1. h \in Seq(Int) /\ Len(h) = n /\ h[n] = g[n] /\ \A i \in 1..(n - 1) : h[i] = f[i]
    BY <1>3, <1>2
  <2> HIDE DEF h
  <2>2. \A i \in 1..n : h[i] = g[i]
    BY <2>1
  <2> QED
    BY <1>3, <2>1, <2>2 DEF h
<1> QED
  BY <1>3, <1>4, SumGrows

(* The terms that step i adds to the four totals.                           *)
Known(ss, ws, gap, i) ==
  LET dt == ss[i+1].mono - ss[i].mono IN
  ws[i] # None /\ ws[i+1] # None /\ dt <= gap /\ dt >= 0 /\ i \notin Broken(ss, gap)
Terms(ss, ws, gap) ==
  LET dt(i) == ss[i+1].mono - ss[i].mono IN
  [energy |-> [i \in StepsOf(ss) |-> IF Known(ss, ws, gap, i) THEN (ws[i] + ws[i+1]) * dt(i) ELSE 0],
   covered |-> [i \in StepsOf(ss) |-> IF Known(ss, ws, gap, i) THEN dt(i) ELSE 0],
   unknown |-> [i \in StepsOf(ss) |-> IF ~Known(ss, ws, gap, i) /\ dt(i) > 0 THEN dt(i) ELSE 0],
   unobserved |-> [i \in StepsOf(ss) |-> IF i \in Broken(ss, gap)
                     THEN Unobserved(dt(i), WallStep(ss[i], ss[i+1])) ELSE 0]]

(* integrate_segmented_clocks of stats.rs, field by field, as sums over the *)
(* steps of the series.                                                     *)
LEMMA IntegrateDef ==
  ASSUME NEW ss, NEW ws, NEW gap
  PROVE  integrate_segmented_clocks(ss, ws, gap) =
           [energy |-> SumSeq(Terms(ss, ws, gap).energy),
            covered |-> SumSeq(Terms(ss, ws, gap).covered),
            unknown |-> SumSeq(Terms(ss, ws, gap).unknown),
            unobserved |-> SumSeq(Terms(ss, ws, gap).unobserved),
            discontinuities |-> Cardinality(Broken(ss, gap))]
<1> DEFINE B == Broken(ss, gap)
           I == integrate_segmented_clocks(ss, ws, gap)
           T == Terms(ss, ws, gap)
           lost(i) == Unobserved(ss[i+1].mono - ss[i].mono, WallStep(ss[i], ss[i+1]))
<1>1. T.unobserved = [i \in StepsOf(ss) |-> IF i \in B THEN lost(i) ELSE 0]
  BY DEF Terms
<1>2. integrate_pairs(ss, ws, gap, B) = [NoEnergy EXCEPT
       !.energy = SumSeq(T.energy), !.covered = SumSeq(T.covered),
       !.unknown = SumSeq(T.unknown)]
  BY Zenon DEF integrate_pairs, Terms, Known
<1>3. I = [integrate_pairs(ss, ws, gap, B) EXCEPT
             !.unobserved = SumSeq(T.unobserved),
             !.discontinuities = Cardinality(B)]
  BY <1>1, DiscontinuitiesDef, Zenon DEF integrate_segmented_clocks
<1> HIDE DEF B, I, T
<1>4. I = [energy |-> SumSeq(T.energy), covered |-> SumSeq(T.covered),
           unknown |-> SumSeq(T.unknown), unobserved |-> SumSeq(T.unobserved),
           discontinuities |-> Cardinality(B)]
  BY <1>2, <1>3 DEF NoEnergy
<1> QED
  BY <1>4, Zenon DEF B, I, T

(* The maximum of two numbers.                                              *)
LEMMA MaxOfTwo ==
  \A a, b \in Int : Max({a, b}) = IF a >= b THEN a ELSE b
BY DEF Max

(* The unobserved time of a step is a number, with or without a wall clock. *)
LEMMA UnobservedType ==
  ASSUME NEW mono \in Int, NEW step \in Int \cup {None}
  PROVE  Unobserved(mono, step) \in Int
<1> DEFINE w == IF step = None THEN mono ELSE step
           S == {0, mono, w}
<1>1. w \in Int
  OBVIOUS
<1>2. PICK x \in S : \A y \in S : x >= y
  <2> HIDE DEF w
  <2>1. CASE mono >= 0 /\ mono >= w
    BY <1>1, <2>1
  <2>2. CASE w >= 0 /\ w >= mono
    BY <1>1, <2>2
  <2>3. CASE 0 >= mono /\ 0 >= w
    BY <1>1, <2>3
  <2> QED
    BY <1>1, <2>1, <2>2, <2>3
<1>3. Max(S) \in S
  BY <1>2 DEF Max
<1>4. S \subseteq Int
  BY <1>1
<1> QED
  BY <1>3, <1>4 DEF Unobserved

(* None is neither a number, a stamp nor a kind of discontinuity: an absent *)
(* charge rate is never taken for one that was read.                        *)
LEMMA NoneIsNothing ==
  None \notin Int /\ None \notin Stamps /\ \A k \in Kinds : k # None
BY MonitorAssumption

(* What a boundary and a pair do to an accumulator, field by field.         *)
Segments == [energy : Int, covered : Int, unknown : Int, unobserved : Int,
             discontinuities : Int]

(* SegmentedAccumulator::boundary, field by field.                          *)
LEMMA BoundaryFields ==
  ASSUME NEW seg \in Segments, NEW mono, NEW step
  PROVE  Boundary(seg, mono, step) =
           [energy |-> seg.energy, covered |-> seg.covered,
            unknown |-> seg.unknown + Max({mono, 0}),
            unobserved |-> seg.unobserved + Unobserved(mono, step),
            discontinuities |-> seg.discontinuities + 1]
<1> DEFINE x == Max({mono, 0})
           y == Unobserved(mono, step)
<1> HIDE DEF x, y
<1>1. [seg EXCEPT !.unknown = @ + x, !.discontinuities = @ + 1, !.unobserved = @ + y] =
        [energy |-> seg.energy, covered |-> seg.covered, unknown |-> seg.unknown + x,
         unobserved |-> seg.unobserved + y, discontinuities |-> seg.discontinuities + 1]
  <2> DEFINE seg1 == [energy |-> seg.energy, covered |-> seg.covered, unknown |-> seg.unknown + x,
                      unobserved |-> seg.unobserved, discontinuities |-> seg.discontinuities]
             seg2 == [energy |-> seg.energy, covered |-> seg.covered, unknown |-> seg.unknown + x,
                      unobserved |-> seg.unobserved, discontinuities |-> seg.discontinuities + 1]
             seg3 == [energy |-> seg.energy, covered |-> seg.covered, unknown |-> seg.unknown + x,
                      unobserved |-> seg.unobserved + y, discontinuities |-> seg.discontinuities + 1]
  <2>1. [seg EXCEPT !.unknown = @ + x] = seg1
    BY DEF Segments
  <2>2. [seg1 EXCEPT !.discontinuities = @ + 1] = seg2 /\ [seg2 EXCEPT !.unobserved = @ + y] = seg3
    OBVIOUS
  <2> HIDE DEF seg1, seg2, seg3
  <2>3. [seg EXCEPT !.unknown = @ + x, !.discontinuities = @ + 1, !.unobserved = @ + y] = seg3
    BY <2>1, <2>2, Zenon
  <2> QED
    BY <2>3 DEF seg3
<1> QED
  BY <1>1, Zenon DEF Boundary, x, y

(* SegmentedAccumulator::pair, field by field.                              *)
LEMMA PairFields ==
  ASSUME NEW seg \in Segments, NEW mono, NEW a, NEW b, NEW gap
  PROVE  pair(seg, mono, a, b, gap) =
           IF a # None /\ b # None /\ mono <= gap
             THEN [energy |-> seg.energy + (a + b) * mono, covered |-> seg.covered + mono,
                   unknown |-> seg.unknown, unobserved |-> seg.unobserved,
                   discontinuities |-> seg.discontinuities]
             ELSE [energy |-> seg.energy, covered |-> seg.covered,
                   unknown |-> seg.unknown + mono, unobserved |-> seg.unobserved,
                   discontinuities |-> seg.discontinuities]
<1> DEFINE z == (a + b) * mono
<1> HIDE DEF z
<1>1. [seg EXCEPT !.energy = @ + z, !.covered = @ + mono] =
        [energy |-> seg.energy + z, covered |-> seg.covered + mono, unknown |-> seg.unknown,
         unobserved |-> seg.unobserved, discontinuities |-> seg.discontinuities]
  <2> DEFINE seg1 == [energy |-> seg.energy + z, covered |-> seg.covered, unknown |-> seg.unknown,
                      unobserved |-> seg.unobserved, discontinuities |-> seg.discontinuities]
             seg2 == [energy |-> seg.energy + z, covered |-> seg.covered + mono, unknown |-> seg.unknown,
                      unobserved |-> seg.unobserved, discontinuities |-> seg.discontinuities]
  <2>1. [seg EXCEPT !.energy = @ + z] = seg1
    BY DEF Segments
  <2>2. [seg1 EXCEPT !.covered = @ + mono] = seg2
    OBVIOUS
  <2> HIDE DEF seg1, seg2
  <2>3. [seg EXCEPT !.energy = @ + z, !.covered = @ + mono] = seg2
    BY <2>1, <2>2, Zenon
  <2> QED
    BY <2>3 DEF seg2
<1>2. [seg EXCEPT !.unknown = @ + mono] =
        [energy |-> seg.energy, covered |-> seg.covered, unknown |-> seg.unknown + mono,
         unobserved |-> seg.unobserved, discontinuities |-> seg.discontinuities]
  BY DEF Segments
<1> QED
  BY <1>1, <1>2, Zenon DEF pair, z

(* One more sample: a boundary or a pair is added to what there was.        *)
LEMMA IntegrateGrows ==
  ASSUME NEW R, Stamped(R), NEW ss \in Seq(R), NEW m \in R, ss # <<>>, NEW gap \in Int,
         NEW ws, NEW us,
         \A i \in 1..Len(ss) : ws[i] \in Power /\ us[i] = ws[i],
         us[Len(ss) + 1] \in Power
  PROVE  LET n == Len(ss)  S == Append(ss, m)
             mono == m.mono - ss[n].mono
             step == WallStep(ss[n], m)
             I == integrate_segmented_clocks(ss, ws, gap)
         IN integrate_segmented_clocks(S, us, gap) =
              IF classify_step(mono, step, gap) # None THEN Boundary(I, mono, step)
              ELSE pair(I, mono, ws[n], us[n + 1], gap)
<1> DEFINE n == Len(ss)
           S == Append(ss, m)
           mono == m.mono - ss[n].mono
           step == WallStep(ss[n], m)
           kind == classify_step(mono, step, gap)
           T == Terms(ss, ws, gap)
           U == Terms(S, us, gap)
           B == Broken(ss, gap)
           C == Broken(S, gap)
<1>1. /\ n \in Nat \ {0} /\ S \in Seq(R) /\ Len(S) = n + 1 /\ S # <<>>
      /\ StepsOf(ss) = 1..(n - 1) /\ StepsOf(S) = 1..n
      /\ \A i \in 1..n : S[i] = ss[i] /\ ss[i] \in R
      /\ S[n] = ss[n] /\ S[n + 1] = m
      /\ \A i \in 1..(n - 1) : S[i] = ss[i] /\ S[i + 1] = ss[i + 1]
      /\ KindOf(S, gap, n) = kind
      /\ C = B \cup (IF kind # None THEN {n} ELSE {})
      /\ n \notin B /\ B \subseteq 1..(n - 1)
  <2>1. KindOf(S, gap, n) = kind
    BY StepsGrow DEF KindOf
  <2> QED
    BY <2>1, StepsGrow
<1>2. /\ mono \in Int /\ step \in Int \cup {None} /\ ss[n] \in R
      /\ \A i \in 1..n : ss[i].mono \in Int /\ ss[i].wall \in Int
      /\ m.mono \in Int /\ m.wall \in Int
  <2>1. n \in 1..n
    BY <1>1
  <2> QED
    BY <1>1, <2>1 DEF Stamped, WallStep
<1> HIDE DEF S, kind, B, C
<1>3. \A i \in 1..(n - 1) : /\ i \in 1..n /\ i + 1 \in 1..n /\ i # n /\ (i \in C <=> i \in B)
                            /\ us[i] = ws[i] /\ us[i + 1] = ws[i + 1]
                            /\ ws[i] \in Power /\ ws[i + 1] \in Power
                            /\ S[i] = ss[i] /\ S[i + 1] = ss[i + 1]
                            /\ ss[i + 1].mono - ss[i].mono \in Int
                            /\ (Known(S, us, gap, i) <=> Known(ss, ws, gap, i))
  <2> TAKE i \in 1..(n - 1)
  <2>1. i \in 1..n /\ i + 1 \in 1..n /\ i # n
    BY <1>1
  <2>2. i \in C <=> i \in B
    BY <1>1, <2>1
  <2>3. us[i] = ws[i] /\ us[i + 1] = ws[i + 1] /\ ws[i] \in Power /\ ws[i + 1] \in Power
    BY <2>1
  <2>4. S[i] = ss[i] /\ S[i + 1] = ss[i + 1] /\ ss[i + 1].mono - ss[i].mono \in Int
    BY <1>1, <1>2, <2>1
  <2>5. Known(S, us, gap, i) <=> Known(ss, ws, gap, i)
    BY <2>2, <2>3, <2>4, Zenon DEF Known, B, C
  <2> QED
    BY <2>1, <2>2, <2>3, <2>4, <2>5
<1>4. /\ us[n] = ws[n] /\ ws[n] \in Power /\ us[n + 1] \in Power
      /\ (n \in C <=> kind # None)
      /\ Known(S, us, gap, n) <=> /\ ws[n] # None /\ us[n + 1] # None /\ mono <= gap
                                  /\ mono >= 0 /\ kind = None
  <2>1. n \in 1..n
    BY <1>1
  <2>2. us[n] = ws[n] /\ ws[n] \in Power /\ us[n + 1] \in Power
    BY <2>1
  <2>3. n \in C <=> kind # None
    BY <1>1
  <2>4. S[n + 1].mono - S[n].mono = mono
    BY <1>1
  <2> QED
    BY <2>2, <2>3, <2>4 DEF Known, C
<1>5. kind = None => mono >= 0
  <2> HIDE DEF mono, step
  <2>1. mono < 0 => kind = "clock_went_backwards"
    BY DEF kind, classify_step
  <2>2. "clock_went_backwards" # None
    BY NoneIsNothing DEF Kinds
  <2> QED
    BY <1>2, <2>1, <2>2
<1>6. /\ SumSeq(T.energy) \in Int
      /\ SumSeq(U.energy) = SumSeq(T.energy) +
           (IF Known(S, us, gap, n) THEN (ws[n] + us[n + 1]) * mono ELSE 0)
  <2> DEFINE f == T.energy
             g == U.energy
  <2>1. f = [i \in 1..(n - 1) |-> IF Known(ss, ws, gap, i) THEN (ws[i] + ws[i+1]) * (ss[i+1].mono - ss[i].mono) ELSE 0]
    BY <1>1 DEF Terms
  <2>2. g = [i \in 1..n |-> IF Known(S, us, gap, i) THEN (us[i] + us[i+1]) * (S[i+1].mono - S[i].mono) ELSE 0]
    BY <1>1 DEF Terms
  <2> HIDE DEF f, g
  <2>3. ASSUME NEW i \in 1..(n - 1) PROVE f[i] \in Int /\ g[i] = f[i]
    <3>1. CASE Known(ss, ws, gap, i)
      <4> DEFINE d == ss[i + 1].mono - ss[i].mono
      <4>1. ws[i] \in Int /\ ws[i + 1] \in Int /\ d \in Int
        BY <3>1, <1>3 DEF Known, Power
      <4>2. f[i] = (ws[i] + ws[i + 1]) * d
        BY <2>1, <3>1
      <4>3. g[i] = (us[i] + us[i + 1]) * (S[i + 1].mono - S[i].mono)
        BY <2>2, <3>1, <1>3
      <4>4. g[i] = (ws[i] + ws[i + 1]) * d
        BY <4>3, <1>3
      <4> HIDE DEF d
      <4> QED
        BY <4>1, <4>2, <4>4
    <3>2. CASE ~Known(ss, ws, gap, i)
      BY <2>1, <2>2, <3>2, <1>3
    <3> QED
      BY <3>1, <3>2
  <2>4. g[n] = (IF Known(S, us, gap, n) THEN (ws[n] + us[n + 1]) * mono ELSE 0) /\ g[n] \in Int
    <3>1. n \in 1..n /\ S[n + 1].mono - S[n].mono = mono
      BY <1>1
    <3>2. g[n] = IF Known(S, us, gap, n) THEN (us[n] + us[n + 1]) * mono ELSE 0
      BY <2>2, <3>1
    <3>3. Known(S, us, gap, n) => ws[n] \in Int /\ us[n + 1] \in Int
      BY <1>4 DEF Power
    <3> HIDE DEF mono, n
    <3> QED
      BY <3>2, <3>3, <1>2, <1>4
  <2>5. n \in Nat \ {0} /\ DOMAIN f = 1..(n - 1) /\ DOMAIN g = 1..n
        /\ f = [i \in DOMAIN f |-> f[i]] /\ g = [i \in DOMAIN g |-> g[i]]
    BY <1>1, <2>1, <2>2
  <2>6. SumSeq(f) \in Int /\ SumSeq(g) = SumSeq(f) + g[n]
    <3> HIDE DEF n
    <3> QED
      BY <2>3, <2>4, <2>5, TermsGrow
  <2> QED
    BY <2>4, <2>6 DEF f, g
<1>7. /\ SumSeq(T.covered) \in Int
      /\ SumSeq(U.covered) = SumSeq(T.covered) + (IF Known(S, us, gap, n) THEN mono ELSE 0)
  <2> DEFINE f == T.covered
             g == U.covered
  <2>1. f = [i \in 1..(n - 1) |-> IF Known(ss, ws, gap, i) THEN ss[i+1].mono - ss[i].mono ELSE 0]
    BY <1>1 DEF Terms
  <2>2. g = [i \in 1..n |-> IF Known(S, us, gap, i) THEN S[i+1].mono - S[i].mono ELSE 0]
    BY <1>1 DEF Terms
  <2> HIDE DEF f, g
  <2>3. ASSUME NEW i \in 1..(n - 1) PROVE f[i] \in Int /\ g[i] = f[i]
    BY <2>1, <2>2, <1>3
  <2>4. g[n] = (IF Known(S, us, gap, n) THEN mono ELSE 0) /\ g[n] \in Int
    <3>1. n \in 1..n /\ S[n + 1].mono - S[n].mono = mono
      BY <1>1
    <3>2. g[n] = IF Known(S, us, gap, n) THEN mono ELSE 0
      BY <2>2, <3>1
    <3> HIDE DEF mono, n
    <3> QED
      BY <3>2, <1>2
  <2>5. n \in Nat \ {0} /\ DOMAIN f = 1..(n - 1) /\ DOMAIN g = 1..n
        /\ f = [i \in DOMAIN f |-> f[i]] /\ g = [i \in DOMAIN g |-> g[i]]
    BY <1>1, <2>1, <2>2
  <2>6. SumSeq(f) \in Int /\ SumSeq(g) = SumSeq(f) + g[n]
    <3> HIDE DEF n
    <3> QED
      BY <2>3, <2>4, <2>5, TermsGrow
  <2> QED
    BY <2>4, <2>6 DEF f, g
<1>8. /\ SumSeq(T.unknown) \in Int
      /\ SumSeq(U.unknown) = SumSeq(T.unknown) + (IF ~Known(S, us, gap, n) /\ mono > 0 THEN mono ELSE 0)
  <2> DEFINE f == T.unknown
             g == U.unknown
  <2>1. f = [i \in 1..(n - 1) |-> 
             IF ~Known(ss, ws, gap, i) /\ ss[i+1].mono - ss[i].mono > 0 THEN ss[i+1].mono - ss[i].mono ELSE 0]
    BY <1>1 DEF Terms
  <2>2. g = [i \in 1..n |-> 
             IF ~Known(S, us, gap, i) /\ S[i+1].mono - S[i].mono > 0 THEN S[i+1].mono - S[i].mono ELSE 0]
    BY <1>1 DEF Terms
  <2> HIDE DEF f, g
  <2>3. ASSUME NEW i \in 1..(n - 1) PROVE f[i] \in Int /\ g[i] = f[i]
    <3>1. f[i] = IF ~Known(ss, ws, gap, i) /\ ss[i+1].mono - ss[i].mono > 0 THEN ss[i+1].mono - ss[i].mono ELSE 0
      BY <2>1
    <3>2. g[i] = IF ~Known(S, us, gap, i) /\ S[i+1].mono - S[i].mono > 0 THEN S[i+1].mono - S[i].mono ELSE 0
      BY <2>2, <1>3
    <3> QED
      BY <3>1, <3>2, <1>3
  <2>4. g[n] = (IF ~Known(S, us, gap, n) /\ mono > 0 THEN mono ELSE 0) /\ g[n] \in Int
    <3>1. n \in 1..n /\ S[n + 1].mono - S[n].mono = mono
      BY <1>1
    <3>2. g[n] = IF ~Known(S, us, gap, n) /\ mono > 0 THEN mono ELSE 0
      BY <2>2, <3>1
    <3> HIDE DEF mono, n
    <3> QED
      BY <3>2, <1>2
  <2>5. n \in Nat \ {0} /\ DOMAIN f = 1..(n - 1) /\ DOMAIN g = 1..n
        /\ f = [i \in DOMAIN f |-> f[i]] /\ g = [i \in DOMAIN g |-> g[i]]
    BY <1>1, <2>1, <2>2
  <2>6. SumSeq(f) \in Int /\ SumSeq(g) = SumSeq(f) + g[n]
    <3> HIDE DEF n
    <3> QED
      BY <2>3, <2>4, <2>5, TermsGrow
  <2> QED
    BY <2>4, <2>6 DEF f, g
<1>9. /\ SumSeq(T.unobserved) \in Int
      /\ SumSeq(U.unobserved) = SumSeq(T.unobserved) + (IF n \in C THEN Unobserved(mono, step) ELSE 0)
  <2> DEFINE f == T.unobserved
             g == U.unobserved
  <2>1. f = [i \in 1..(n - 1) |-> 
             IF i \in B THEN Unobserved(ss[i+1].mono - ss[i].mono, WallStep(ss[i], ss[i+1])) ELSE 0]
    BY <1>1 DEF Terms, B, C
  <2>2. g = [i \in 1..n |-> 
             IF i \in C THEN Unobserved(S[i+1].mono - S[i].mono, WallStep(S[i], S[i+1])) ELSE 0]
    BY <1>1 DEF Terms, B, C
  <2> HIDE DEF f, g
  <2>3. ASSUME NEW i \in 1..(n - 1) PROVE f[i] \in Int /\ g[i] = f[i]
    <3>1. ss[i + 1].mono - ss[i].mono \in Int /\ WallStep(ss[i], ss[i + 1]) \in Int \cup {None}
      <4>1. ss[i].wall \in Int /\ ss[i + 1].wall \in Int /\ ss[i + 1].mono - ss[i].mono \in Int
        BY <1>2, <1>3
      <4> QED
        BY <4>1 DEF WallStep
    <3>2. Unobserved(ss[i + 1].mono - ss[i].mono, WallStep(ss[i], ss[i + 1])) \in Int
      BY <3>1, UnobservedType
    <3> QED
      BY <2>1, <2>2, <1>3, <3>2
  <2>4. g[n] = (IF n \in C THEN Unobserved(mono, step) ELSE 0) /\ g[n] \in Int
    <3>1. n \in 1..n /\ S[n + 1].mono - S[n].mono = mono
      BY <1>1
    <3>2. S[n] = ss[n] /\ S[n + 1] = m
      BY <1>1
    <3>3. g[n] = IF n \in C THEN Unobserved(mono, step) ELSE 0
      BY <2>2, <3>1, <3>2
    <3>4. Unobserved(mono, step) \in Int
      BY <1>2, UnobservedType
    <3> QED
      BY <3>3, <3>4
  <2>5. n \in Nat \ {0} /\ DOMAIN f = 1..(n - 1) /\ DOMAIN g = 1..n
        /\ f = [i \in DOMAIN f |-> f[i]] /\ g = [i \in DOMAIN g |-> g[i]]
    BY <1>1, <2>1, <2>2
  <2>6. SumSeq(f) \in Int /\ SumSeq(g) = SumSeq(f) + g[n]
    <3> HIDE DEF n
    <3> QED
      BY <2>3, <2>4, <2>5, TermsGrow
  <2> QED
    BY <2>4, <2>6 DEF f, g
<1>10. Cardinality(B) \in Nat /\ Cardinality(C) = Cardinality(B) + (IF kind # None THEN 1 ELSE 0)
  <2>1. IsFiniteSet(B)
    <3>1. IsFiniteSet(1..(n - 1))
      BY <1>1, FS_Interval
    <3> QED
      BY <1>1, <3>1, FS_Subset
  <2>2. Cardinality(B) \in Nat
    BY <2>1, FS_CardinalityType
  <2>3. CASE kind # None
    <3>1. C = B \cup {n} /\ n \notin B
      BY <1>1, <2>3
    <3> QED
      BY <2>1, <2>2, <2>3, <3>1, FS_AddElement
  <2>4. CASE kind = None
    <3>1. C = B
      BY <1>1, <2>4
    <3> QED
      BY <2>2, <2>4, <3>1
  <2> QED
    BY <2>2, <2>3, <2>4
<1> DEFINE I == integrate_segmented_clocks(ss, ws, gap)
           J == integrate_segmented_clocks(S, us, gap)
<1>11. /\ I = [energy |-> SumSeq(T.energy), covered |-> SumSeq(T.covered),
                unknown |-> SumSeq(T.unknown), unobserved |-> SumSeq(T.unobserved),
                discontinuities |-> Cardinality(B)]
       /\ J = [energy |-> SumSeq(U.energy), covered |-> SumSeq(U.covered),
                unknown |-> SumSeq(U.unknown), unobserved |-> SumSeq(U.unobserved),
                discontinuities |-> Cardinality(C)]
  BY IntegrateDef, Zenon DEF B, C
<1> DEFINE known == Known(S, us, gap, n)
           te == SumSeq(T.energy)
           tc == SumSeq(T.covered)
           tu == SumSeq(T.unknown)
           to == SumSeq(T.unobserved)
           td == Cardinality(B)
<1>12. /\ I = [energy |-> te, covered |-> tc, unknown |-> tu, unobserved |-> to,
                discontinuities |-> td]
       /\ J = [energy |-> te + (IF known THEN (ws[n] + us[n + 1]) * mono ELSE 0),
                covered |-> tc + (IF known THEN mono ELSE 0),
                unknown |-> tu + (IF ~known /\ mono > 0 THEN mono ELSE 0),
                unobserved |-> to + (IF n \in C THEN Unobserved(mono, step) ELSE 0),
                discontinuities |-> td + (IF kind # None THEN 1 ELSE 0)]
  <2> HIDE DEF T, U, mono, step, n, I, J
  <2> QED
    BY <1>6, <1>7, <1>8, <1>9, <1>10, <1>11, Zenon
<1>13. te \in Int /\ tc \in Int /\ tu \in Int /\ to \in Int /\ td \in Int
  <2> HIDE DEF T
  <2> QED
    BY <1>6, <1>7, <1>8, <1>9, <1>10
<1>14. (known => ws[n] \in Int /\ us[n + 1] \in Int) /\ mono \in Int
  BY <1>2, <1>4 DEF Power
<1>15. known <=> /\ ws[n] # None /\ us[n + 1] # None /\ mono <= gap
                 /\ mono >= 0 /\ kind = None
  BY <1>4
<1>16. n \in C <=> kind # None
  BY <1>4
<1> SUFFICES J = IF kind # None THEN Boundary(I, mono, step)
                 ELSE pair(I, mono, ws[n], us[n + 1], gap)
  BY DEF S, kind
<1> HIDE DEF T, U, mono, step, n, I, J, known, te, tc, tu, to, td
<1>17. /\ I \in Segments /\ I.energy = te /\ I.covered = tc /\ I.unknown = tu
       /\ I.unobserved = to /\ I.discontinuities = td
  BY <1>12, <1>13 DEF Segments
<1>18. pair(I, mono, ws[n], us[n + 1], gap) =
         IF ws[n] # None /\ us[n + 1] # None /\ mono <= gap
           THEN [energy |-> I.energy + (ws[n] + us[n + 1]) * mono, covered |-> I.covered + mono,
                 unknown |-> I.unknown, unobserved |-> I.unobserved,
                 discontinuities |-> I.discontinuities]
           ELSE [energy |-> I.energy, covered |-> I.covered,
                 unknown |-> I.unknown + mono, unobserved |-> I.unobserved,
                 discontinuities |-> I.discontinuities]
  <2>1. I \in Segments
    BY <1>17
  <2> DEFINE a == ws[n]
             b == us[n + 1]
  <2> HIDE DEF a, b
  <2>2. pair(I, mono, a, b, gap) =
         IF a # None /\ b # None /\ mono <= gap
           THEN [energy |-> I.energy + (a + b) * mono, covered |-> I.covered + mono,
                 unknown |-> I.unknown, unobserved |-> I.unobserved,
                 discontinuities |-> I.discontinuities]
           ELSE [energy |-> I.energy, covered |-> I.covered,
                 unknown |-> I.unknown + mono, unobserved |-> I.unobserved,
                 discontinuities |-> I.discontinuities]
    BY <2>1, PairFields
  <2> QED
    BY <2>2 DEF a, b
<1>19. CASE kind # None
  <2>1. ~known /\ n \in C
    BY <1>15, <1>16, <1>19
  <2>2. Max({mono, 0}) = IF mono > 0 THEN mono ELSE 0
    <3>1. Max({mono, 0}) = IF mono >= 0 THEN mono ELSE 0
      BY <1>14, MaxOfTwo
    <3> QED
      BY <1>14, <3>1
  <2>3. J = [energy |-> te, covered |-> tc,
             unknown |-> tu + Max({mono, 0}),
             unobserved |-> to + Unobserved(mono, step),
             discontinuities |-> td + 1]
    BY <2>1, <2>2, <1>12, <1>13, <1>19
  <2>4. Boundary(I, mono, step) = J
    BY <2>3, <1>17, BoundaryFields, Zenon
  <2> QED
    BY <2>4, <1>19
<1>20. CASE kind = None
  <2>1. mono >= 0 /\ n \notin C
    BY <1>5, <1>16, <1>20
  <2>2. known <=> ws[n] # None /\ us[n + 1] # None /\ mono <= gap
    BY <2>1, <1>15, <1>20
  <2>3. CASE known
    <3>1. J = [energy |-> te + (ws[n] + us[n + 1]) * mono, covered |-> tc + mono,
               unknown |-> tu, unobserved |-> to, discontinuities |-> td]
      BY <2>1, <2>3, <1>12, <1>13, <1>20
    <3>2. pair(I, mono, ws[n], us[n + 1], gap) = J
      BY <3>1, <2>2, <2>3, <1>17, <1>18, Zenon
    <3> QED
      BY <3>2, <1>20
  <2>4. CASE ~known
    <3>1. J = [energy |-> te, covered |-> tc, unknown |-> tu + mono, unobserved |-> to,
               discontinuities |-> td]
      BY <2>1, <2>4, <1>12, <1>13, <1>14, <1>20
    <3>2. pair(I, mono, ws[n], us[n + 1], gap) = J
      BY <3>1, <2>2, <2>4, <1>17, <1>18, Zenon
    <3> QED
      BY <3>2, <1>20
  <2> QED
    BY <2>3, <2>4
<1> QED
  BY <1>19, <1>20

(* A row of the channel, as far as the energies look at it.                 *)
Stamp(m) == [mono |-> m.mono, wall |-> m.wall, dch |-> m.dch, chg |-> m.chg]
Sampled(R) == \A r \in R : r.mono \in Int /\ r.wall \in Int /\ r.dch \in Power /\ r.chg \in Power

(* What recovery computes from a series. *)
KindsIn(ss, gap) == [k \in Kinds |-> Cardinality({d \in discontinuities(ss, gap) : d[2] = k})]
Stream(ss, gap) ==
  [discharge |-> integrate_segmented_clocks(ss, [i \in DOMAIN ss |-> ss[i].dch], gap),
   charge |-> integrate_segmented_clocks(ss, [i \in DOMAIN ss |-> ss[i].chg], gap),
   kinds |-> KindsIn(ss, gap),
   last |-> IF ss = <<>> THEN None ELSE Stamp(ss[Len(ss)])]

(* There are finitely many kinds of discontinuity.                          *)
LEMMA KindsFinite == IsFiniteSet(Kinds)
<1>1. Kinds = ({"sampling_gap"} \cup {"wall_ahead_of_mono"}) \cup ({"mono_ahead_of_wall"} \cup {"clock_went_backwards"})
  BY DEF Kinds
<1> QED
  BY <1>1, FS_Singleton, FS_Union

(* classify_step gives a kind or nothing.                                   *)
LEMMA KindType ==
  ASSUME NEW mono, NEW step, NEW gap
  PROVE  classify_step(mono, step, gap) \in Kinds \cup {None}
BY DEF classify_step, Kinds

(* The footer's counts by kind grow by at most one when the series grows by *)
(* a sample: detect_discontinuities on the longer series finds the same     *)
(* steps and perhaps the new one.                                           *)
LEMMA KindsGrow ==
  ASSUME NEW R, NEW ss \in Seq(R), NEW m \in R, ss # <<>>, NEW gap
  PROVE  LET kind == classify_step(m.mono - ss[Len(ss)].mono, WallStep(ss[Len(ss)], m), gap)
         IN /\ kind = None => KindsIn(Append(ss, m), gap) = KindsIn(ss, gap)
            /\ kind # None => KindsIn(Append(ss, m), gap) = [KindsIn(ss, gap) EXCEPT ![kind] = @ + 1]
<1> DEFINE n == Len(ss)
           S == Append(ss, m)
           kind == classify_step(m.mono - ss[Len(ss)].mono, WallStep(ss[Len(ss)], m), gap)
           B == Broken(ss, gap)
           C == Broken(S, gap)
           D == discontinuities(ss, gap)
           E == discontinuities(S, gap)
<1>1. /\ n \in Nat \ {0}
      /\ \A i \in 1..(n - 1) : KindOf(S, gap, i) = KindOf(ss, gap, i)
      /\ KindOf(S, gap, n) = kind
      /\ C = B \cup (IF kind # None THEN {n} ELSE {})
      /\ n \notin B /\ B \subseteq 1..(n - 1)
  <2>1. KindOf(S, gap, n) = kind
    BY StepsGrow DEF KindOf
  <2> QED
    BY <2>1, StepsGrow
<1>2. /\ D = {<<i, KindOf(ss, gap, i)>> : i \in B}
      /\ E = {<<i, KindOf(S, gap, i)>> : i \in C}
  BY DiscontinuitiesDef, Zenon
<1>3. kind \in Kinds \cup {None} /\ \A i \in 1..(n - 1) : KindOf(ss, gap, i) \in Kinds \cup {None}
  BY KindType DEF KindOf
<1>4. \A i \in B : KindOf(ss, gap, i) # None
  BY DEF Broken
<1> HIDE DEF n, S, kind, B, C, D, E
<1>5. IsFiniteSet(D) /\ D \subseteq (1..(n - 1)) \X Kinds
  <2>1. D \subseteq (1..(n - 1)) \X Kinds
    BY <1>1, <1>2, <1>3, <1>4
  <2>2. IsFiniteSet((1..(n - 1)) \X Kinds)
    <3>1. IsFiniteSet(1..(n - 1))
      BY <1>1, FS_Interval
    <3> QED
      BY <3>1, FS_Product, KindsFinite
  <2> QED
    BY <2>1, <2>2, FS_Subset
<1>6. E = D \cup (IF kind # None THEN {<<n, kind>>} ELSE {}) /\ <<n, kind>> \notin D
  <2>1. \A i \in B : KindOf(S, gap, i) = KindOf(ss, gap, i)
    BY <1>1
  <2>2. <<n, kind>> \notin D
    BY <1>1, <1>2
  <2>3. CASE kind = None
    <3>1. C = B
      BY <1>1, <2>3
    <3>2. E = D
      BY <1>2, <2>1, <3>1
    <3> QED
      BY <2>2, <2>3, <3>2
  <2>4. CASE kind # None
    <3>1. C = B \cup {n}
      BY <1>1, <2>4
    <3>2. \A i \in C : i = n \/ i \in B
      BY <3>1
    <3>3. E \subseteq D \cup {<<n, kind>>}
      BY <1>1, <1>2, <2>1, <3>2
    <3>4. D \subseteq E /\ <<n, kind>> \in E
      BY <1>1, <1>2, <2>1, <3>1
    <3>5. E = D \cup {<<n, kind>>}
      BY <3>3, <3>4
    <3> QED
      BY <2>2, <2>4, <3>5
  <2> QED
    BY <2>3, <2>4
<1> DEFINE d(k) == {x \in D : x[2] = k}
           e(k) == {x \in E : x[2] = k}
<1>7. \A k \in Kinds : Cardinality(d(k)) \in Nat
        /\ Cardinality(e(k)) = Cardinality(d(k)) + (IF k = kind THEN 1 ELSE 0)
  <2> TAKE k \in Kinds
  <2>1. IsFiniteSet(d(k)) /\ Cardinality(d(k)) \in Nat
    BY <1>5, FS_Subset, FS_CardinalityType
  <2>2. CASE k = kind
    <3>1. e(k) = d(k) \cup {<<n, kind>>} /\ <<n, kind>> \notin d(k)
      BY <1>6, <2>2, NoneIsNothing
    <3> HIDE DEF d, e
    <3> QED
      BY <2>1, <2>2, <3>1, FS_AddElement
  <2>3. CASE k # kind
    <3>1. e(k) = d(k)
      BY <1>6, <2>3
    <3> HIDE DEF d, e
    <3> QED
      BY <2>1, <2>3, <3>1
  <2> QED
    BY <2>2, <2>3
<1>8. KindsIn(ss, gap) = [k \in Kinds |-> Cardinality(d(k))] /\ KindsIn(S, gap) = [k \in Kinds |-> Cardinality(e(k))]
  BY Zenon DEF KindsIn, D, E
<1> HIDE DEF d, e
<1>9. CASE kind = None
  <2>1. \A k \in Kinds : Cardinality(e(k)) = Cardinality(d(k))
    BY <1>7, <1>9, NoneIsNothing
  <2>2. KindsIn(S, gap) = KindsIn(ss, gap)
    BY <1>8, <2>1
  <2> QED
    BY <2>2, <1>9 DEF S, kind
<1>10. CASE kind # None
  <2>1. kind \in Kinds
    BY <1>3, <1>10
  <2>2. KindsIn(S, gap) = [KindsIn(ss, gap) EXCEPT ![kind] = @ + 1]
    BY <1>7, <1>8, <2>1
  <2> QED
    BY <2>2, <1>10 DEF S, kind
<1> QED
  BY <1>9, <1>10

(* A series without steps.                                                  *)
LEMMA NoStepsNoEnergy ==
  ASSUME NEW ss, NEW gap, StepsOf(ss) = {}
  PROVE  /\ \A ws : integrate_segmented_clocks(ss, ws, gap) = NoEnergy
         /\ KindsIn(ss, gap) = [k \in Kinds |-> 0]
<1>1. Broken(ss, gap) = {} /\ discontinuities(ss, gap) = {}
  <2>1. Broken(ss, gap) = {}
    BY DEF Broken
  <2> QED
    BY <2>1, DiscontinuitiesDef
<1>2. ASSUME NEW ws PROVE integrate_segmented_clocks(ss, ws, gap) = NoEnergy
  <2> DEFINE T == Terms(ss, ws, gap)
  <2>1. /\ DOMAIN T.energy = {} /\ DOMAIN T.covered = {} /\ DOMAIN T.unknown = {}
        /\ DOMAIN T.unobserved = {}
    BY DEF Terms
  <2>2. T.energy = <<>> /\ T.covered = <<>> /\ T.unknown = <<>> /\ T.unobserved = <<>>
    BY SMT DEF Terms
  <2> HIDE DEF T
  <2>3. SumSeq(T.energy) = 0 /\ SumSeq(T.covered) = 0 /\ SumSeq(T.unknown) = 0
        /\ SumSeq(T.unobserved) = 0
    BY <2>2, SumGrows
  <2>4. Cardinality(Broken(ss, gap)) = 0
    BY <1>1, FS_EmptySet
  <2> QED
    BY <2>3, <2>4, IntegrateDef, Zenon DEF NoEnergy, T
<1>3. KindsIn(ss, gap) = [k \in Kinds |-> 0]
  <2>1. \A k \in Kinds : {d \in discontinuities(ss, gap) : d[2] = k} = {}
    BY <1>1
  <2>2. \A k \in Kinds : Cardinality({d \in discontinuities(ss, gap) : d[2] = k}) = 0
    BY <2>1, FS_EmptySet, Zenon
  <2> QED
    BY <2>2, Zenon DEF KindsIn
<1> QED
  BY <1>2, <1>3

(* The running energies follow the lines of the file, sample by sample.     *)
LEMMA StreamGrows ==
  ASSUME NEW R, Sampled(R), NEW ss \in Seq(R), NEW m \in R, NEW gap \in Int
  PROVE  Push(Stream(ss, gap), Stamp(m), gap) = Stream(Append(ss, m), gap)
<1> DEFINE n == Len(ss)
           S == Append(ss, m)
           d == [i \in DOMAIN ss |-> ss[i].dch]
           c == [i \in DOMAIN ss |-> ss[i].chg]
           D == [i \in DOMAIN S |-> S[i].dch]
           C == [i \in DOMAIN S |-> S[i].chg]
<1>1. /\ n \in Nat /\ S \in Seq(R) /\ Len(S) = n + 1 /\ S # <<>> /\ S[n + 1] = m
      /\ DOMAIN S = 1..(n + 1) /\ DOMAIN ss = 1..n
      /\ \A i \in 1..n : S[i] = ss[i] /\ ss[i] \in R
  OBVIOUS
<1>2. CASE ss = <<>>
  <2>1. StepsOf(ss) = {} /\ StepsOf(S) = {}
    BY <1>1, <1>2 DEF StepsOf
  <2>2. Stream(ss, gap) = NewStream
    BY <1>2, <2>1, NoStepsNoEnergy, Zenon DEF Stream, NewStream
  <2>3. Stream(S, gap) = [discharge |-> NoEnergy, charge |-> NoEnergy,
                          kinds |-> [k \in Kinds |-> 0], last |-> Stamp(m)]
    <3>1. S[Len(S)] = m
      BY <1>1
    <3> QED
      BY <1>1, <3>1, <2>1, NoStepsNoEnergy, Zenon DEF Stream
  <2>4. Push(NewStream, Stamp(m), gap) = [NewStream EXCEPT !.last = Stamp(m)]
    <3>1. NewStream.last = None
      BY DEF NewStream
    <3> QED
      BY <3>1, Zenon DEF Push
  <2>5. [NewStream EXCEPT !.last = Stamp(m)] =
          [discharge |-> NoEnergy, charge |-> NoEnergy,
           kinds |-> [k \in Kinds |-> 0], last |-> Stamp(m)]
    BY DEF NewStream
  <2> QED
    BY <2>2, <2>3, <2>4, <2>5, Zenon
<1>3. CASE ss # <<>>
  <2> DEFINE a == ss[n]
             mono == m.mono - a.mono
             step == WallStep(a, m)
             kind == classify_step(mono, step, gap)
             I == integrate_segmented_clocks(ss, d, gap)
             J == integrate_segmented_clocks(ss, c, gap)
             K == KindsIn(ss, gap)
  <2>1. n \in 1..n /\ a \in R
    BY <1>1, <1>3
  <2>2. /\ \A i \in 1..n : d[i] \in Power /\ D[i] = d[i] /\ c[i] \in Power /\ C[i] = c[i]
        /\ D[n + 1] = m.dch /\ C[n + 1] = m.chg /\ m.dch \in Power /\ m.chg \in Power
        /\ d[n] = a.dch /\ c[n] = a.chg
    <3> HIDE DEF S, n
    <3> QED
      BY <1>1, <2>1 DEF Sampled, n
  <2>3. Stamped(R)
    BY DEF Sampled, Stamped
  <2>4. integrate_segmented_clocks(S, D, gap) = IF kind # None THEN Boundary(I, mono, step)
                                                ELSE pair(I, mono, a.dch, m.dch, gap)
    <3> HIDE DEF d, D
    <3>2. (\A i \in 1..Len(ss) : d[i] \in Power /\ D[i] = d[i]) /\ D[Len(ss) + 1] \in Power
      BY <2>2
    <3>1. integrate_segmented_clocks(S, D, gap) = IF kind # None THEN Boundary(I, mono, step)
                                                  ELSE pair(I, mono, d[n], D[n + 1], gap)
      BY <1>3, <2>3, <3>2, IntegrateGrows
    <3> QED
      BY <2>2, <3>1
  <2>5. integrate_segmented_clocks(S, C, gap) = IF kind # None THEN Boundary(J, mono, step)
                                                ELSE pair(J, mono, a.chg, m.chg, gap)
    <3> HIDE DEF c, C
    <3>2. (\A i \in 1..Len(ss) : c[i] \in Power /\ C[i] = c[i]) /\ C[Len(ss) + 1] \in Power
      BY <2>2
    <3>1. integrate_segmented_clocks(S, C, gap) = IF kind # None THEN Boundary(J, mono, step)
                                                  ELSE pair(J, mono, c[n], C[n + 1], gap)
      BY <1>3, <2>3, <3>2, IntegrateGrows
    <3> QED
      BY <2>2, <3>1
  <2>6. KindsIn(S, gap) = IF kind # None THEN [K EXCEPT ![kind] = @ + 1] ELSE K
    BY <1>3, KindsGrow
  <2> DEFINE e == Stream(ss, gap)
             b == Stamp(m)
             f == Stream(S, gap)
  <2>7. e = [discharge |-> I, charge |-> J, kinds |-> K, last |-> Stamp(a)]
    BY <1>3, Zenon DEF Stream
  <2>8. f = [discharge |-> integrate_segmented_clocks(S, D, gap),
             charge |-> integrate_segmented_clocks(S, C, gap),
             kinds |-> KindsIn(S, gap), last |-> b]
    <3>1. S[Len(S)] = m
      BY <1>1
    <3> QED
      BY <1>1, <3>1, Zenon DEF Stream
  <2>9. Stamp(a) \in Stamps /\ Stamp(a) # None
    BY <2>1, NoneIsNothing DEF Sampled, Stamp, Stamps
  <2>10. /\ b.mono - Stamp(a).mono = mono /\ WallStep(Stamp(a), b) = step
         /\ Stamp(a).dch = a.dch /\ Stamp(a).chg = a.chg
         /\ b.dch = m.dch /\ b.chg = m.chg
    BY DEF Stamp, WallStep
  <2>11. Push(e, b, gap) = IF kind # None
           THEN [e EXCEPT !.last = b, !.kinds[kind] = @ + 1,
                          !.discharge = Boundary(@, mono, step),
                          !.charge = Boundary(@, mono, step)]
           ELSE [e EXCEPT !.last = b,
                          !.discharge = pair(@, mono, a.dch, m.dch, gap),
                          !.charge = pair(@, mono, a.chg, m.chg, gap)]
    <3>1. e.last = Stamp(a)
      BY <2>7
    <3> HIDE DEF mono, step, kind, e, b, a
    <3> QED
      BY <3>1, <2>9, <2>10, Zenon DEF Push, kind
  <2> HIDE DEF I, J, K, e, b, f, kind, mono, step, a, S, D, C
  <2>12. CASE kind # None
    <3> DEFINE X == Boundary(I, mono, step)
               Y == Boundary(J, mono, step)
               Z == [K EXCEPT ![kind] = @ + 1]
    <3>1. f = [discharge |-> X, charge |-> Y, kinds |-> Z, last |-> b]
      BY <2>4, <2>5, <2>6, <2>8, <2>12, Zenon
    <3> DEFINE e1 == [discharge |-> I, charge |-> J, kinds |-> K, last |-> b]
               e2 == [discharge |-> I, charge |-> J, kinds |-> Z, last |-> b]
               e3 == [discharge |-> X, charge |-> J, kinds |-> Z, last |-> b]
               e4 == [discharge |-> X, charge |-> Y, kinds |-> Z, last |-> b]
    <3> HIDE DEF X, Y
    <3>2. [e EXCEPT !.last = b] = e1
      BY <2>7
    <3>3. [e1 EXCEPT !.kinds[kind] = @ + 1] = e2
      OBVIOUS
    <3> HIDE DEF Z
    <3>4. [e2 EXCEPT !.discharge = X] = e3 /\ e2.discharge = I
      OBVIOUS
    <3>5. [e3 EXCEPT !.charge = Y] = e4 /\ e3.charge = J
      OBVIOUS
    <3> HIDE DEF e1, e2, e3, e4
    <3>6. [e EXCEPT !.last = b, !.kinds[kind] = @ + 1,
                    !.discharge = Boundary(@, mono, step),
                    !.charge = Boundary(@, mono, step)] = e4
      BY <3>2, <3>3, <3>4, <3>5, Zenon DEF X, Y
    <3>7. Push(e, b, gap) = f
      BY <2>11, <2>12, <3>1, <3>6, Zenon DEF e4
    <3> QED
      BY <3>7, Zenon DEF e, b, f, S
  <2>13. CASE kind = None
    <3> DEFINE X == pair(I, mono, a.dch, m.dch, gap)
               Y == pair(J, mono, a.chg, m.chg, gap)
    <3>1. f = [discharge |-> X, charge |-> Y, kinds |-> K, last |-> b]
      BY <2>4, <2>5, <2>6, <2>8, <2>13, Zenon
    <3> DEFINE e1 == [discharge |-> I, charge |-> J, kinds |-> K, last |-> b]
               e3 == [discharge |-> X, charge |-> J, kinds |-> K, last |-> b]
               e4 == [discharge |-> X, charge |-> Y, kinds |-> K, last |-> b]
    <3> HIDE DEF X, Y
    <3>2. [e EXCEPT !.last = b] = e1
      BY <2>7
    <3>4. [e1 EXCEPT !.discharge = X] = e3 /\ e1.discharge = I
      OBVIOUS
    <3>5. [e3 EXCEPT !.charge = Y] = e4 /\ e3.charge = J
      OBVIOUS
    <3> HIDE DEF e1, e3, e4
    <3>6. [e EXCEPT !.last = b,
                    !.discharge = pair(@, mono, a.dch, m.dch, gap),
                    !.charge = pair(@, mono, a.chg, m.chg, gap)] = e4
      BY <3>2, <3>4, <3>5, Zenon DEF X, Y
    <3>7. Push(e, b, gap) = f
      BY <2>11, <2>13, <3>1, <3>6, Zenon DEF e4
    <3> QED
      BY <3>7, Zenon DEF e, b, f, S
  <2> QED
    BY <2>12, <2>13
<1> QED
  BY <1>2, <1>3

-----------------------------------------------------------------------------
(* The invariant, of a value of MonitorState.                               *)

Fields == {"active", "expected", "timedOut", "episodes", "late", "primary", "tick", "fallback",
           "boosted", "knob", "short", "dchCount", "energy", "nBattery", "dischargeN", "chargeN",
           "disk", "prevDisk", "busy", "firing", "cpuCtx", "selfCtx", "full", "lines", "events",
           "phase"}

Results == {"spawn_failed", "line", "exit_status", "garbled", "pending", "timed_out", "wait_failed"}
Rows == [c : Collectors, mono : Int, wall : Int, ok : BOOLEAN, dch : Power, chg : Power,
         value : Rates \cup {None, 0, 1} \cup Results, total : BOOLEAN]

Watched == {"collector_timeout", "collector_recovered", "anomaly_hint"}
EventSet == (Watched \cup {"collector_error", "primary_fallback", "storage", "usb", "net",
                           "display", "helper_error"}) \X Collectors
Timeouts == {"collector_timeout"} \X Collectors
Hints == {"anomaly_hint"} \X Collectors
Discharging == {m \in Rows : m.dch # None}
Charging == {m \in Rows : m.chg # None}

IsState(s) == s = [f \in Fields |-> s[f]]

Shape(s) ==
  /\ IsState(s)
  /\ s.active \in Seq(Collectors) /\ s.timedOut \in SUBSET Collectors
  /\ s.episodes \in Nat /\ s.boosted \in 0..BoostFor
  /\ s.events \in Seq(EventSet)
  /\ DOMAIN s.lines = Collectors /\ s.lines["battery"] \in Seq(Rows)

(* Of one collector: its episodes, its recoveries, whether it is overdue.   *)
Paired(es, late) ==
  \A c \in Collectors :
    Tally(es, {<<"collector_timeout", c>>})
      = Tally(es, {<<"collector_recovered", c>>}) + (IF c \in late THEN 1 ELSE 0)
Boosts(s) ==
  /\ s.boosted = 0 => s.knob = BaseIv
  /\ Len(s.lines["battery"]) >= BoostFor * Tally(s.events, Hints) - s.boosted
Accounted(s) ==
  /\ s.energy = Stream(s.lines["battery"], Gap)
  /\ s.dischargeN = Tally(s.lines["battery"], Discharging)
  /\ s.chargeN = Tally(s.lines["battery"], Charging)

StateInv(s) ==
  /\ Shape(s) /\ Paired(s.events, s.timedOut)
  /\ s.episodes = Tally(s.events, Timeouts)
  /\ Boosts(s) /\ Accounted(s)

(* Two series of events tell the same of what the invariant speaks of.      *)
Tallied(es, fs) ==
  \A T \in SUBSET (Watched \X Collectors) : Tally(fs, T) = Tally(es, T)

(* t differs from s in nothing the invariant speaks of.                     *)
Silent(s, t) ==
  /\ IsState(t) /\ t.active = s.active /\ t.timedOut = s.timedOut /\ t.episodes = s.episodes
  /\ t.boosted = s.boosted /\ t.knob = s.knob /\ t.energy = s.energy
  /\ t.dischargeN = s.dischargeN /\ t.chargeN = s.chargeN
  /\ DOMAIN t.lines = Collectors /\ t.lines["battery"] = s.lines["battery"]
  /\ t.events \in Seq(EventSet) /\ Tallied(s.events, t.events)

(* What leaves alone the battery's lines, the energies, the boost and the   *)
(* watched events preserves the invariant.                                  *)
LEMMA SilentKeeps ==
  ASSUME NEW s, NEW t, StateInv(s), Silent(s, t)
  PROVE  StateInv(t)
<1>1. Shape(t)
  BY DEF StateInv, Shape, Silent
<1>2. /\ \A c \in Collectors : /\ {<<"collector_timeout", c>>} \in SUBSET (Watched \X Collectors)
                               /\ {<<"collector_recovered", c>>} \in SUBSET (Watched \X Collectors)
      /\ Timeouts \in SUBSET (Watched \X Collectors) /\ Hints \in SUBSET (Watched \X Collectors)
  BY DEF Watched, Timeouts, Hints
<1>3. Paired(t.events, t.timedOut)
  BY <1>2, Zenon DEF StateInv, Silent, Paired, Tallied
<1>4. t.episodes = Tally(t.events, Timeouts) /\ Tally(t.events, Hints) = Tally(s.events, Hints)
  BY <1>2, Zenon DEF StateInv, Silent, Tallied
<1>5. Boosts(t) /\ Accounted(t)
  BY <1>4 DEF StateInv, Silent, Boosts, Accounted
<1> QED
  BY <1>1, <1>3, <1>4, <1>5 DEF StateInv

(* Doing nothing is such a change.                                          *)
LEMMA SilentRefl ==
  ASSUME NEW s, Shape(s) PROVE Silent(s, s)
BY DEF Silent, Shape, Tallied

(* t and u differ in no field the invariant speaks of.                      *)
Agree(t, u) ==
  /\ IsState(u) /\ u.active = t.active /\ u.timedOut = t.timedOut /\ u.episodes = t.episodes
  /\ u.boosted = t.boosted /\ u.knob = t.knob /\ u.energy = t.energy
  /\ u.dischargeN = t.dischargeN /\ u.chargeN = t.chargeN
  /\ u.lines = t.lines /\ u.events = t.events

(* So is one followed by a change of fields the invariant does not mention. *)
LEMMA SilentAgree ==
  ASSUME NEW s, NEW t, NEW u, Silent(s, t), Agree(t, u) PROVE Silent(s, u)
BY DEF Silent, Agree

(* So is an event that neither the timeout watch nor a boost records.       *)
LEMMA SilentEvent ==
  ASSUME NEW s, NEW t, Silent(s, t), NEW c \in Collectors,
         NEW k \in {"collector_error", "primary_fallback", "storage", "usb", "net", "display",
                    "helper_error"}
  PROVE  Silent(s, event(t, k, c))
<1> DEFINE u == event(t, k, c)
           e == <<k, c>>
<1>1. /\ IsState(u) /\ u.active = t.active /\ u.timedOut = t.timedOut /\ u.episodes = t.episodes
      /\ u.boosted = t.boosted /\ u.knob = t.knob /\ u.energy = t.energy
      /\ u.dischargeN = t.dischargeN /\ u.chargeN = t.chargeN
      /\ u.lines = t.lines /\ u.events = Append(t.events, e)
  BY DEF Silent, IsState, Fields, event
<1>2. e \in EventSet /\ e \notin Watched \X Collectors
  BY DEF EventSet, Watched
<1>3. Tallied(s.events, u.events) /\ u.events \in Seq(EventSet)
  <2>1. t.events \in Seq(EventSet) /\ Tallied(s.events, t.events)
    BY DEF Silent
  <2>2. ASSUME NEW T \in SUBSET (Watched \X Collectors)
        PROVE  Tally(Append(t.events, e), T) = Tally(t.events, T)
    <3> HIDE DEF e
    <3>1. e \notin T
      BY <1>2
    <3>2. Tally(t.events, T) \in Nat /\ Tally(Append(t.events, e), T) = Tally(t.events, T) + 0
      BY <2>1, <3>1, <1>2, TallyGrows
    <3> QED
      BY <3>2
  <2>3. Append(t.events, e) \in Seq(EventSet)
    BY <2>1, <1>2
  <2> QED
    BY <1>1, <2>1, <2>2, <2>3, Zenon DEF Tallied
<1> QED
  BY <1>1, <1>3 DEF Silent

(* The same of any number of them.                                          *)
LEMMA SilentEvents ==
  ASSUME NEW s, NEW t, Silent(s, t), NEW c \in Collectors, NEW n,
         NEW k \in {"collector_error", "primary_fallback", "storage", "usb", "net", "display",
                    "helper_error"}
  PROVE  Silent(s, Events(t, k, c, n))
BY SilentEvent, Zenon DEF Events

(* A line of another collector than the battery.                            *)
LEMMA SilentWritten ==
  ASSUME NEW s, NEW t, NEW u, Silent(s, t), Silent(s, u),
         NEW m, m.c \in Collectors, m.c # "battery"
  PROVE  Silent(s, Written(t, m, u))
<1>1. CASE t.full
  <2>1. Agree(t, [t EXCEPT !.phase = "failed"])
    BY DEF Silent, IsState, Fields, Agree
  <2> QED
    BY <1>1, <2>1, SilentAgree, Zenon DEF Written
<1>2. CASE ~t.full
  <2> DEFINE v == [u EXCEPT !.lines[m.c] = Append(@, m)]
  <2>1. /\ IsState(v) /\ v.active = u.active /\ v.timedOut = u.timedOut /\ v.episodes = u.episodes
        /\ v.boosted = u.boosted /\ v.knob = u.knob /\ v.energy = u.energy
        /\ v.dischargeN = u.dischargeN /\ v.chargeN = u.chargeN /\ v.events = u.events
        /\ DOMAIN v.lines = Collectors /\ v.lines["battery"] = u.lines["battery"]
    BY DEF Silent, IsState, Fields, Collectors
  <2>2. Silent(s, v)
    BY <2>1 DEF Silent
  <2> QED
    BY <1>2, <2>2, Zenon DEF Written
<1> QED
  BY <1>1, <1>2

(* A failed read, a reading that leads to a line, one that leads to events. *)
LEMMA SilentError ==
  ASSUME NEW s, Shape(s), NEW m, m.c \in Collectors PROVE Silent(s, collector_error(s, m))
BY SilentRefl, SilentEvent DEF collector_error

(* The handlers of the other collectors are quiet.                          *)
LEMMA HandlersSilent ==
  ASSUME NEW s, Shape(s), NEW m, m.c \in Collectors, m.c # "battery"
  PROVE  Silent(s, Handle(s, m))
<1>1. Silent(s, s) /\ Silent(s, Written(s, m, s)) /\ Silent(s, collector_error(s, m))
  BY SilentRefl, SilentWritten, SilentError
<1>2. Silent(s, handle_cpu(s, m))
  <2> DEFINE t == [s EXCEPT !.cpuCtx = m.value]
  <2>1. Agree(s, t)
    BY DEF Shape, IsState, Fields, Agree
  <2>2. Silent(s, t)
    BY <1>1, <2>1, SilentAgree
  <2> HIDE DEF t
  <2>3. Silent(s, Written(t, m, t))
    BY <2>2, SilentWritten
  <2> QED
    BY <1>1, <2>3, Zenon DEF handle_cpu, t
<1>3. /\ Silent(s, handle_gpu(s, m)) /\ Silent(s, handle_proc(s, m)) /\ Silent(s, handle_os(s, m))
  BY <1>1, Zenon DEF handle_gpu, handle_proc, handle_os
<1>4. ASSUME NEW k \in {"usb", "net", "display"}
      PROVE  Silent(s, IF m.ok THEN Written(s, m, Events(s, k, m.c, m.value)) ELSE collector_error(s, m))
  <2>1. Silent(s, Events(s, k, m.c, m.value))
    BY <1>1, SilentEvents
  <2>2. Silent(s, Written(s, m, Events(s, k, m.c, m.value)))
    BY <1>1, <2>1, SilentWritten
  <2> QED
    BY <1>1, <2>2
<1>5. Silent(s, handle_usb(s, m)) /\ Silent(s, handle_net(s, m)) /\ Silent(s, handle_display(s, m))
  BY <1>4, Zenon DEF handle_usb, handle_net, handle_display
<1>6. Silent(s, handle_elevated(s, m))
  <2>1. Silent(s, event(s, "helper_error", m.c))
    BY <1>1, SilentEvent
  <2> QED
    BY <1>1, <2>1, Zenon DEF handle_elevated
<1>7. Silent(s, handle_selfmon(s, m))
  <2> DEFINE t == [s EXCEPT !.selfCtx = s.cpuCtx]
             line == [m EXCEPT !.value = s.cpuCtx]
  <2>1. Agree(s, t)
    BY DEF Shape, IsState, Fields, Agree
  <2>2. Silent(s, t)
    BY <1>1, <2>1, SilentAgree
  <2>3. line.c = m.c
    OBVIOUS
  <2> HIDE DEF t, line
  <2>4. Silent(s, Written(t, line, t))
    BY <2>2, <2>3, SilentWritten
  <2> QED
    BY <1>1, <2>4, Zenon DEF handle_selfmon, t, line
<1>8. Silent(s, observe_watch(s, m))
  <2> DEFINE n == Min({s.busy + 1, WatchNeeded})
             t == [s EXCEPT !.busy = 0, !.firing = FALSE]
             u == [s EXCEPT !.busy = n, !.firing = TRUE]
             v == [s EXCEPT !.busy = n]
  <2> HIDE DEF n
  <2>1. Agree(s, t) /\ Agree(s, u) /\ Agree(s, v)
    BY DEF Shape, IsState, Fields, Agree
  <2>2. Silent(s, t) /\ Silent(s, u) /\ Silent(s, v)
    BY <1>1, <2>1, SilentAgree
  <2> HIDE DEF t, u, v
  <2>3. Silent(s, event(u, "storage", m.c))
    BY <2>2, SilentEvent
  <2>4. observe_watch(s, m) \in {s, t, v, event(u, "storage", m.c)}
    BY Zenon DEF observe_watch, t, u, v, n
  <2> QED
    BY <1>1, <2>2, <2>3, <2>4
<1>9. Silent(s, handle_storage(s, m))
  <2> DEFINE dt == IF s.prevDisk = None THEN None ELSE m.mono - s.prevDisk
             t == observe_watch(s, m)
             d == IF m.total THEN ThroughputPush(t.disk, dt, m.value, Gap) ELSE t.disk
             u == [t EXCEPT !.prevDisk = m.mono, !.disk = IF m.total THEN ThroughputPush(@, dt, m.value, Gap) ELSE @]
  <2> HIDE DEF dt, t
  <2>1. Silent(s, t)
    BY <1>8 DEF t
  <2>2. Agree(t, u)
    <3>1. u = [t EXCEPT !.prevDisk = m.mono, !.disk = d]
      BY <2>1 DEF Silent, IsState, Fields
    <3> HIDE DEF d, u
    <3> QED
      BY <2>1, <3>1 DEF Silent, IsState, Fields, Agree
  <2>3. Silent(s, u)
    BY <2>1, <2>2, SilentAgree
  <2> HIDE DEF u
  <2>4. Silent(s, Written(s, m, u))
    BY <1>1, <2>3, SilentWritten
  <2> QED
    BY <1>1, <2>4, Zenon DEF handle_storage, u, t, dt
<1>10. m.c \in {"cpu", "gpu", "proc", "display", "net", "storage", "usb", "os", "elevated", "self"}
  BY DEF Collectors
<1> QED
  BY <1>2, <1>3, <1>5, <1>6, <1>7, <1>9, <1>10 DEF Handle

(* What the loop does beside the handler is quiet too.                      *)
LEMMA LoopSilent ==
  ASSUME NEW s, Shape(s), NEW m, m.c \in Collectors
  PROVE  /\ Silent(s, PrimaryFallback(Lateness(s, m), m))
         /\ Silent(s, Tick(s, m))
         /\ Silent(s, [s EXCEPT !.expected[m.c] = m.mono])
         /\ \A b \in BOOLEAN : Silent(s, [s EXCEPT !.full = b])
<1>1. Silent(s, s)
  BY SilentRefl
<1>2. Silent(s, PrimaryFallback(Lateness(s, m), m))
  <2> DEFINE last == s.expected[m.c]
             late == last # None /\ m.mono - last > canonical_interval(m.c)
             t == [s EXCEPT !.late = IF late THEN @ + 1 ELSE @, !.expected[m.c] = m.mono]
  <2> HIDE DEF late
  <2>1. Agree(s, t)
    BY DEF Shape, IsState, Fields, Agree
  <2>2. Lateness(s, m) = t
    BY DEF Lateness, late
  <2> HIDE DEF t
  <2>3. Silent(s, t)
    BY <1>1, <2>1, SilentAgree
  <2> DEFINE u == [t EXCEPT !.primary = m.c, !.fallback = TRUE]
  <2>4. Agree(t, u)
    BY <2>3 DEF Silent, IsState, Fields, Agree
  <2>5. Silent(s, u)
    BY <2>3, <2>4, SilentAgree
  <2> HIDE DEF u
  <2>6. Silent(s, event(u, "primary_fallback", m.c))
    BY <2>5, SilentEvent
  <2>7. PrimaryFallback(t, m) \in {t, event(u, "primary_fallback", m.c)}
    BY Zenon DEF PrimaryFallback, u
  <2> QED
    BY <2>2, <2>3, <2>6, <2>7
<1>3. Silent(s, Tick(s, m))
  <2> DEFINE t == [s EXCEPT !.tick = @ + 1, !.phase = IF s.tick + 1 = Samples THEN "footer" ELSE @]
  <2>1. Agree(s, t)
    BY DEF Shape, IsState, Fields, Agree
  <2>2. Silent(s, t)
    BY <1>1, <2>1, SilentAgree
  <2> QED
    BY <1>1, <2>2, Zenon DEF Tick
<1>4. Silent(s, [s EXCEPT !.expected[m.c] = m.mono])
  <2>1. Agree(s, [s EXCEPT !.expected[m.c] = m.mono])
    BY DEF Shape, IsState, Fields, Agree
  <2> QED
    BY <1>1, <2>1, SilentAgree
<1>5. ASSUME NEW b \in BOOLEAN PROVE Silent(s, [s EXCEPT !.full = b])
  <2>1. Agree(s, [s EXCEPT !.full = b])
    BY DEF Shape, IsState, Fields, Agree
  <2> QED
    BY <1>1, <2>1, SilentAgree
<1> QED
  BY <1>2, <1>3, <1>4, <1>5

-----------------------------------------------------------------------------
(* The timeout watch.                                                       *)

(* An episode begins: its event is recorded and counted.                    *)
LEMMA PollKeeps ==
  ASSUME NEW s, StateInv(s), NEW c \in Collectors
  PROVE  StateInv(PollCollector(s, c))
<1> DEFINE u == [s EXCEPT !.timedOut = @ \cup {c}, !.episodes = @ + 1]
           e == <<"collector_timeout", c>>
           t == event(u, "collector_timeout", c)
<1>1. CASE PollCollector(s, c) = s
  BY <1>1
<1>2. CASE c \notin s.timedOut /\ PollCollector(s, c) = t
  <2>1. /\ IsState(t) /\ t.active = s.active /\ t.timedOut = s.timedOut \cup {c} /\ t.episodes = s.episodes + 1
        /\ t.boosted = s.boosted /\ t.knob = s.knob /\ t.energy = s.energy
        /\ t.dischargeN = s.dischargeN /\ t.chargeN = s.chargeN
        /\ t.lines = s.lines /\ t.events = Append(s.events, e)
    BY DEF StateInv, Shape, IsState, Fields, event
  <2> HIDE DEF t
  <2>2. e \in EventSet /\ s.events \in Seq(EventSet)
    BY DEF StateInv, Shape, EventSet, Watched
  <2>3. \A T : Tally(s.events, T) \in Nat /\ Tally(t.events, T) = Tally(s.events, T) + (IF e \in T THEN 1 ELSE 0)
    <3> HIDE DEF e
    <3> QED
      BY <2>1, <2>2, TallyGrows
  <2>4. Shape(t)
    BY <2>1, <2>2 DEF StateInv, Shape
  <2>5. Paired(t.events, t.timedOut)
    <3> SUFFICES ASSUME NEW d \in Collectors
                 PROVE  Tally(t.events, {<<"collector_timeout", d>>})
                          = Tally(t.events, {<<"collector_recovered", d>>}) + (IF d \in t.timedOut THEN 1 ELSE 0)
      BY DEF Paired
    <3>1. Tally(s.events, {<<"collector_timeout", d>>})
            = Tally(s.events, {<<"collector_recovered", d>>}) + (IF d \in s.timedOut THEN 1 ELSE 0)
      BY DEF StateInv, Paired
    <3>2. (e \in {<<"collector_timeout", d>>} <=> d = c) /\ e \notin {<<"collector_recovered", d>>}
      OBVIOUS
    <3> DEFINE a == Tally(s.events, {<<"collector_timeout", d>>})
               b == Tally(s.events, {<<"collector_recovered", d>>})
    <3>3. a \in Nat /\ b \in Nat /\ Tally(t.events, {<<"collector_timeout", d>>}) = a + (IF d = c THEN 1 ELSE 0)
          /\ Tally(t.events, {<<"collector_recovered", d>>}) = b
      <4> HIDE DEF e
      <4> QED
        BY <2>3, <3>2
    <3> HIDE DEF a, b, e
    <3> QED
      BY <3>1, <3>3, <1>2, <2>1 DEF a, b
  <2>6. e \in Timeouts /\ e \notin Hints
    BY DEF Timeouts, Hints
  <2>7. t.episodes = Tally(t.events, Timeouts) /\ Tally(t.events, Hints) = Tally(s.events, Hints)
    <3> HIDE DEF e
    <3> QED
      BY <2>1, <2>3, <2>6 DEF StateInv
  <2>8. Boosts(t) /\ Accounted(t)
    BY <2>1, <2>7 DEF StateInv, Boosts, Accounted
  <2> QED
    BY <1>2, <2>4, <2>5, <2>7, <2>8 DEF StateInv
<1> QED
  BY <1>1, <1>2, Zenon DEF PollCollector

(* An episode ends: the recovery is recorded.                               *)
LEMMA ArrivalKeeps ==
  ASSUME NEW s, StateInv(s), NEW c \in Collectors
  PROVE  StateInv(note_arrival(s, c))
<1> DEFINE u == [s EXCEPT !.timedOut = @ \ {c}]
           e == <<"collector_recovered", c>>
           t == event(u, "collector_recovered", c)
<1>1. CASE c \notin s.timedOut
  BY <1>1 DEF note_arrival
<1>2. CASE c \in s.timedOut
  <2>1. /\ IsState(t) /\ t.active = s.active /\ t.timedOut = s.timedOut \ {c} /\ t.episodes = s.episodes
        /\ t.boosted = s.boosted /\ t.knob = s.knob /\ t.energy = s.energy
        /\ t.dischargeN = s.dischargeN /\ t.chargeN = s.chargeN
        /\ t.lines = s.lines /\ t.events = Append(s.events, e)
    BY DEF StateInv, Shape, IsState, Fields, event
  <2> HIDE DEF t
  <2>2. e \in EventSet /\ s.events \in Seq(EventSet)
    BY DEF StateInv, Shape, EventSet, Watched
  <2>3. \A T : Tally(s.events, T) \in Nat /\ Tally(t.events, T) = Tally(s.events, T) + (IF e \in T THEN 1 ELSE 0)
    <3> HIDE DEF e
    <3> QED
      BY <2>1, <2>2, TallyGrows
  <2>4. Shape(t)
    BY <2>1, <2>2 DEF StateInv, Shape
  <2>5. Paired(t.events, t.timedOut)
    <3> SUFFICES ASSUME NEW d \in Collectors
                 PROVE  Tally(t.events, {<<"collector_timeout", d>>})
                          = Tally(t.events, {<<"collector_recovered", d>>}) + (IF d \in t.timedOut THEN 1 ELSE 0)
      BY DEF Paired
    <3>1. Tally(s.events, {<<"collector_timeout", d>>})
            = Tally(s.events, {<<"collector_recovered", d>>}) + (IF d \in s.timedOut THEN 1 ELSE 0)
      BY DEF StateInv, Paired
    <3>2. e \notin {<<"collector_timeout", d>>} /\ (e \in {<<"collector_recovered", d>>} <=> d = c)
      OBVIOUS
    <3> DEFINE a == Tally(s.events, {<<"collector_timeout", d>>})
               b == Tally(s.events, {<<"collector_recovered", d>>})
    <3>3. a \in Nat /\ b \in Nat /\ Tally(t.events, {<<"collector_timeout", d>>}) = a
          /\ Tally(t.events, {<<"collector_recovered", d>>}) = b + (IF d = c THEN 1 ELSE 0)
      <4> HIDE DEF e
      <4> QED
        BY <2>3, <3>2
    <3> HIDE DEF a, b, e
    <3> QED
      BY <3>1, <3>3, <1>2, <2>1 DEF a, b
  <2>6. e \notin Timeouts /\ e \notin Hints
    BY DEF Timeouts, Hints
  <2>7. t.episodes = Tally(t.events, Timeouts) /\ Tally(t.events, Hints) = Tally(s.events, Hints)
    <3> HIDE DEF e
    <3> QED
      BY <2>1, <2>3, <2>6 DEF StateInv
  <2>8. Boosts(t) /\ Accounted(t)
    BY <2>1, <2>7 DEF StateInv, Boosts, Accounted
  <2>9. StateInv(t)
    BY <2>1, <2>4, <2>5, <2>7, <2>8 DEF StateInv
  <2> QED
    BY <1>2, <2>9 DEF note_arrival, t
<1> QED
  BY <1>1, <1>2

(* The states a poll goes through.                                          *)
Polled(s) == CHOOSE f : f = [i \in 0..Len(s.active) |->
               IF i = 0 THEN s ELSE PollCollector(f[i - 1], s.active[i])]

(* A poll of any number of collectors.                                      *)
LEMMA PollsKeep ==
  ASSUME NEW s, StateInv(s)
  PROVE  StateInv(poll_collector_timeouts(s))
<1> DEFINE N == Len(s.active)
<1>0. PICK W : /\ {s[f] : f \in Fields} \subseteq W /\ SUBSET Collectors \subseteq W
               /\ Nat \subseteq W /\ Seq(EventSet) \subseteq W
  <2> DEFINE A == {s[f] : f \in Fields}
             B == SUBSET Collectors
             C == Seq(EventSet)
  <2> HIDE DEF A, B, C
  <2>1. \E W : A \subseteq W /\ B \subseteq W /\ Nat \subseteq W /\ C \subseteq W
    <3>1. /\ A \subseteq A \cup B \cup Nat \cup C /\ B \subseteq A \cup B \cup Nat \cup C
          /\ Nat \subseteq A \cup B \cup Nat \cup C /\ C \subseteq A \cup B \cup Nat \cup C
      OBVIOUS
    <3> WITNESS A \cup B \cup Nat \cup C
    <3> QED
      BY <3>1, Zenon
  <2> QED
    BY <2>1, Zenon DEF A, B, C
<1> DEFINE V == {v \in [Fields -> W] : StateInv(v)}
           step == [p \in (1..N) \X V |-> PollCollector(p[2], s.active[p[1]])]
           q == Polled(s)
<1>1. N \in Nat /\ \A i \in 1..N : s.active[i] \in Collectors
  BY DEF StateInv, Shape
<1>2. s \in V
  <2>1. s = [f \in Fields |-> s[f]]
    BY DEF StateInv, Shape, IsState
  <2>2. \A f \in Fields : s[f] \in W
    BY <1>0
  <2>3. s \in [Fields -> W]
    BY <2>1, <2>2
  <2> QED
    BY <2>3
<1>3. ASSUME NEW v \in V, NEW c \in Collectors PROVE PollCollector(v, c) \in V
  <2>1. StateInv(PollCollector(v, c))
    BY PollKeeps
  <2>2. PollCollector(v, c) \in [Fields -> W]
    <3> DEFINE u == [v EXCEPT !.timedOut = @ \cup {c}, !.episodes = @ + 1]
               t == event(u, "collector_timeout", c)
    <3>1. /\ v.timedOut \cup {c} \in W /\ v.episodes + 1 \in W
          /\ Append(v.events, <<"collector_timeout", c>>) \in W
      <4>1. v.timedOut \in SUBSET Collectors /\ v.episodes \in Nat /\ v.events \in Seq(EventSet)
        BY DEF StateInv, Shape
      <4>2. <<"collector_timeout", c>> \in EventSet
        BY DEF EventSet, Watched
      <4>3. /\ v.timedOut \cup {c} \in SUBSET Collectors /\ v.episodes + 1 \in Nat
            /\ Append(v.events, <<"collector_timeout", c>>) \in Seq(EventSet)
        BY <4>1, <4>2
      <4> QED
        BY <1>0, <4>3, Zenon
    <3>2. v \in [Fields -> W]
      OBVIOUS
    <3>3. u \in [Fields -> W] /\ u.events = v.events
      BY <3>1, <3>2 DEF Fields
    <3>4. t \in [Fields -> W]
      BY <3>1, <3>3 DEF Fields, event
    <3> QED
      BY <3>2, <3>4, Zenon DEF PollCollector
  <2> QED
    BY <2>1, <2>2
<1> HIDE DEF V, N
<1>4. step \in [(1..N) \X V -> V]
  BY <1>1, <1>3
<1>5. PICK f \in [0..N -> V] : f[0] = s /\ Obeys(f, step, N)
  <2> HIDE DEF step
  <2> QED
    BY <1>1, <1>2, <1>4, RecursionExists
<1>6. \A i \in 1..N : f[i] = PollCollector(f[i - 1], s.active[i])
  <2> TAKE i \in 1..N
  <2>1. i - 1 \in 0..N /\ f[i - 1] \in V
    BY <1>1, <1>5
  <2>2. f[i] = step[<<i, f[i - 1]>>]
    BY <1>5 DEF Obeys
  <2> QED
    BY <2>1, <2>2
<1>7. f = [i \in 0..N |-> IF i = 0 THEN s ELSE PollCollector(f[i - 1], s.active[i])]
  <2>1. \A i \in 0..N : f[i] = IF i = 0 THEN s ELSE PollCollector(f[i - 1], s.active[i])
    BY <1>1, <1>5, <1>6
  <2> QED
    BY <2>1, <1>5
<1>8. q = [i \in 0..N |-> IF i = 0 THEN s ELSE PollCollector(q[i - 1], s.active[i])]
  BY <1>7, Zenon DEF Polled, N
<1> HIDE DEF q
<1>9. q[0] = s /\ \A i \in 1..N : q[i] = PollCollector(q[i - 1], s.active[i])
  BY <1>1, <1>8
<1>10. q[N] \in V
  <2>1. \A i \in 1..N : q[i - 1] \in V => q[i] \in V
    BY <1>1, <1>3, <1>9
  <2>2. \A i \in 0..N : q[i] \in V
    BY <1>1, <1>2, <1>9, <2>1, RecursionType
  <2> QED
    BY <1>1, <2>2
<1>11. poll_collector_timeouts(s) = q[N]
  BY Zenon DEF poll_collector_timeouts, Polled, q, N
<1> QED
  BY <1>10, <1>11 DEF V

(* energy_max_gap_secs of the base interval is a number.                    *)
LEMMA GapType == Gap \in Int
<1>1. 3 * BaseIv \in Int
  BY MonitorAssumption
<1> DEFINE a == 3 * BaseIv
<1> HIDE DEF a
<1>2. Max({a, 10}) \in Int
  BY <1>1, MaxOfTwo DEF a
<1> QED
  BY <1>2 DEF Gap, energy_max_gap_secs, a

(* What the workers send carries both clocks and both rates.                *)
LEMMA RowsSampled == Sampled(Rows)
BY DEF Sampled, Rows

(* What the accounting does with a reading. *)
LEMMA RecordFields ==
  ASSUME NEW s, IsState(s), NEW m
  PROVE  LET t == record_battery(s, m) IN
         /\ IsState(t)
         /\ t.energy = Push(s.energy, Stamp(m), Gap)
         /\ t.dischargeN = s.dischargeN + (IF m.dch # None THEN 1 ELSE 0)
         /\ t.chargeN = s.chargeN + (IF m.chg # None THEN 1 ELSE 0)
         /\ t.active = s.active /\ t.timedOut = s.timedOut /\ t.episodes = s.episodes
         /\ t.boosted = s.boosted /\ t.knob = s.knob /\ t.lines = s.lines /\ t.events = s.events
<1> DEFINE e == Push(s.energy, Stamp(m), Gap)
           d == IF m.dch # None THEN 1 ELSE 0
           c == IF m.chg # None THEN 1 ELSE 0
           t == [s EXCEPT !.energy = Push(@, Stamp(m), Gap), !.dischargeN = @ + d, !.chargeN = @ + c]
<1>1. record_battery(s, m) = t
  BY Zenon DEF record_battery, Stamp
<1>2. t = [s EXCEPT !.energy = e, !.dischargeN = @ + d, !.chargeN = @ + c]
  BY DEF IsState, Fields
<1> HIDE DEF e, d, c, t
<1>3. /\ IsState(t) /\ t.energy = e /\ t.dischargeN = s.dischargeN + d /\ t.chargeN = s.chargeN + c
      /\ t.active = s.active /\ t.timedOut = s.timedOut /\ t.episodes = s.episodes
      /\ t.boosted = s.boosted /\ t.knob = s.knob /\ t.lines = s.lines /\ t.events = s.events
  BY <1>2 DEF IsState, Fields
<1> QED
  BY <1>1, <1>3, Zenon DEF e, d, c

(* A boost begins with a hint, and only where none is running.              *)
LEMMA BoostFields ==
  ASSUME NEW s, IsState(s), NEW m
  PROVE  LET b == Boost(s, m) IN
         /\ IsState(b) /\ b.energy = s.energy
         /\ b.dischargeN = s.dischargeN /\ b.chargeN = s.chargeN
         /\ b.active = s.active /\ b.timedOut = s.timedOut /\ b.episodes = s.episodes
         /\ b.lines = s.lines
         /\ \/ b.boosted = s.boosted /\ b.knob = s.knob /\ b.events = s.events
            \/ /\ s.boosted = 0 /\ b.boosted = BoostFor
               /\ b.events = Append(s.events, <<"anomaly_hint", "battery">>)
<1> DEFINE n == Min({s.dchCount + 1, BoostAfter})
           k == Max({BaseIv \div 4, Quick})
           q == baselines_push(s.short, m.dch)
           t == [s EXCEPT !.short = q, !.dchCount = n]
           u == [t EXCEPT !.boosted = BoostFor, !.knob = k]
           v == event(u, "anomaly_hint", "battery")
<1> HIDE DEF n, k, q
<1>1. /\ IsState(t) /\ t.energy = s.energy
      /\ t.dischargeN = s.dischargeN /\ t.chargeN = s.chargeN
      /\ t.active = s.active /\ t.timedOut = s.timedOut /\ t.episodes = s.episodes
      /\ t.lines = s.lines /\ t.boosted = s.boosted /\ t.knob = s.knob /\ t.events = s.events
  BY DEF IsState, Fields
<1> HIDE DEF t
<1>2. /\ IsState(v) /\ v.energy = t.energy
      /\ v.dischargeN = t.dischargeN /\ v.chargeN = t.chargeN
      /\ v.active = t.active /\ v.timedOut = t.timedOut /\ v.episodes = t.episodes
      /\ v.lines = t.lines /\ v.boosted = BoostFor
      /\ v.events = Append(t.events, <<"anomaly_hint", "battery">>)
  BY <1>1 DEF IsState, Fields, event
<1>3. t = [s EXCEPT !.short = baselines_push(@, m.dch), !.dchCount = n]
  BY DEF IsState, Fields, t, q
<1>4. Boost(s, m) = t \/ (Boost(s, m) = v /\ t.boosted = 0)
  <2> DEFINE g == n >= BoostAfter
             h == should_boost(t.short, m.dch)
  <2> HIDE DEF v, g, h
  <2>1. Boost(s, m) = IF g /\ h /\ t.boosted = 0 THEN v ELSE t
    BY <1>3, Zenon DEF Boost, n, v, k, g, h
  <2> QED
    BY <2>1
<1> HIDE DEF v
<1> QED
  BY <1>1, <1>2, <1>4

(* A battery line.                                                          *)
LEMMA BatteryKeeps ==
  ASSUME NEW s, StateInv(s), NEW m \in Rows, m.c = "battery"
  PROVE  StateInv(Handle(s, m))
<1> DEFINE n == [s EXCEPT !.nBattery = @ + 1]
           r == record_battery(n, m)
           b == IF m.dch # None THEN Boost(r, m) ELSE r
           t == Countdown(b)
           u == [t EXCEPT !.lines[m.c] = Append(@, m)]
           f == [n EXCEPT !.phase = "failed"]
<1>1. Silent(s, n)
  <2>1. Agree(s, n)
    BY DEF StateInv, Shape, IsState, Fields, Agree
  <2> QED
    BY <2>1, SilentRefl, SilentAgree DEF StateInv
<1> HIDE DEF n
<1>2. StateInv(n) /\ StateInv(collector_error(n, m)) /\ StateInv(f)
  <2>1. StateInv(n)
    BY <1>1, SilentKeeps
  <2>2. m.c \in Collectors
    BY DEF Rows
  <2>3. Silent(n, collector_error(n, m))
    BY <2>1, <2>2, SilentError DEF StateInv
  <2>4. Silent(n, f)
    <3>1. Agree(n, f)
      BY <2>1 DEF StateInv, Shape, IsState, Fields, Agree
    <3> QED
      BY <2>1, <3>1, SilentRefl, SilentAgree DEF StateInv
  <2> QED
    BY <2>1, <2>3, <2>4, SilentKeeps
<1> HIDE DEF f
<1>3. Handle(s, m) \in {collector_error(n, m), f, u}
  <2> HIDE DEF u
  <2>1. Handle(s, m) = handle_battery(s, m)
    BY DEF Handle
  <2>2. handle_battery(s, m) = IF m.ok THEN Written(n, m, t) ELSE collector_error(n, m)
    BY Zenon DEF handle_battery, n, r, b, t
  <2>3. Written(n, m, t) = IF n.full THEN f ELSE u
    BY Zenon DEF Written, f, u
  <2> QED
    BY <2>1, <2>2, <2>3
<1>4. StateInv(u)
  <2> DEFINE ls == s.lines["battery"]
             hints == Tally(s.events, Hints)
  <2>1. /\ IsState(n) /\ n.energy = Stream(ls, Gap) /\ n.dischargeN = Tally(ls, Discharging)
        /\ n.chargeN = Tally(ls, Charging) /\ ls \in Seq(Rows)
        /\ n.active \in Seq(Collectors) /\ n.timedOut \in SUBSET Collectors /\ n.episodes \in Nat
        /\ n.boosted \in 0..BoostFor /\ n.events \in Seq(EventSet)
        /\ DOMAIN n.lines = Collectors /\ n.lines["battery"] = ls
        /\ Paired(n.events, n.timedOut) /\ n.episodes = Tally(n.events, Timeouts)
        /\ n.boosted = 0 => n.knob = BaseIv
        /\ Len(ls) >= BoostFor * Tally(n.events, Hints) - n.boosted
    BY <1>1, <1>2 DEF StateInv, Shape, Silent, Boosts, Accounted
  <2> HIDE DEF ls
  <2>2. /\ IsState(r)
        /\ r.energy = Stream(Append(ls, m), Gap)
        /\ r.dischargeN = Tally(Append(ls, m), Discharging)
        /\ r.chargeN = Tally(Append(ls, m), Charging)
        /\ r.active = n.active /\ r.timedOut = n.timedOut /\ r.episodes = n.episodes
        /\ r.boosted = n.boosted /\ r.knob = n.knob /\ r.lines = n.lines /\ r.events = n.events
    <3>1. Push(Stream(ls, Gap), Stamp(m), Gap) = Stream(Append(ls, m), Gap)
      BY <2>1, StreamGrows, GapType, RowsSampled
    <3>2. Tally(Append(ls, m), Discharging) = Tally(ls, Discharging) + (IF m.dch # None THEN 1 ELSE 0)
      <4>1. m \in Discharging <=> m.dch # None
        BY DEF Discharging
      <4> QED
        BY <2>1, <4>1, TallyGrows
    <3>3. Tally(Append(ls, m), Charging) = Tally(ls, Charging) + (IF m.chg # None THEN 1 ELSE 0)
      <4>1. m \in Charging <=> m.chg # None
        BY DEF Charging
      <4> QED
        BY <2>1, <4>1, TallyGrows
    <3>4. /\ IsState(r) /\ r.energy = Push(n.energy, Stamp(m), Gap)
          /\ r.dischargeN = n.dischargeN + (IF m.dch # None THEN 1 ELSE 0)
          /\ r.chargeN = n.chargeN + (IF m.chg # None THEN 1 ELSE 0)
          /\ r.active = n.active /\ r.timedOut = n.timedOut /\ r.episodes = n.episodes
          /\ r.boosted = n.boosted /\ r.knob = n.knob /\ r.lines = n.lines /\ r.events = n.events
      BY <2>1, RecordFields, Zenon
    <3> HIDE DEF r
    <3> QED
      BY <2>1, <3>1, <3>2, <3>3, <3>4, Zenon
  <2> HIDE DEF r
  <2> DEFINE start == <<"anomaly_hint", "battery">>
  <2>3. /\ IsState(b) /\ b.energy = r.energy
        /\ b.dischargeN = r.dischargeN /\ b.chargeN = r.chargeN
        /\ b.active = r.active /\ b.timedOut = r.timedOut /\ b.episodes = r.episodes
        /\ b.lines = r.lines
        /\ \/ b.boosted = r.boosted /\ b.knob = r.knob /\ b.events = r.events
           \/ /\ r.boosted = 0 /\ b.boosted = BoostFor /\ b.events = Append(r.events, start)
    BY <2>2, BoostFields
  <2> HIDE DEF b
  <2>4. /\ IsState(t) /\ t.energy = b.energy
        /\ t.dischargeN = b.dischargeN /\ t.chargeN = b.chargeN
        /\ t.active = b.active /\ t.timedOut = b.timedOut /\ t.episodes = b.episodes
        /\ t.lines = b.lines /\ t.events = b.events
        /\ b.boosted = 0 => t.boosted = b.boosted /\ t.knob = b.knob
        /\ b.boosted # 0 => t.boosted = b.boosted - 1 /\ (b.boosted = 1 => t.knob = BaseIv)
    BY <2>3 DEF Countdown, IsState, Fields
  <2> HIDE DEF t
  <2>5. /\ IsState(u) /\ u.energy = t.energy
        /\ u.dischargeN = t.dischargeN /\ u.chargeN = t.chargeN
        /\ u.active = t.active /\ u.timedOut = t.timedOut /\ u.episodes = t.episodes
        /\ DOMAIN u.lines = Collectors /\ u.lines["battery"] = Append(ls, m)
        /\ u.events = t.events /\ u.boosted = t.boosted /\ u.knob = t.knob
    <3>1. "battery" \in Collectors /\ t.lines = n.lines
      BY <2>2, <2>3, <2>4 DEF Collectors
    <3> QED
      BY <2>1, <2>4, <3>1 DEF IsState, Fields
  <2> HIDE DEF u
  <2>6. /\ u.events \in Seq(EventSet) /\ Paired(u.events, u.timedOut)
        /\ u.episodes = Tally(u.events, Timeouts)
        /\ Tally(n.events, Hints) \in Nat
        /\ \/ u.events = n.events
           \/ r.boosted = 0 /\ b.boosted = BoostFor /\ Tally(u.events, Hints) = Tally(n.events, Hints) + 1
    <3>1. Tally(n.events, Hints) \in Nat
      <4>1. start \in EventSet
        BY DEF EventSet, Watched, Collectors
      <4> HIDE DEF start
      <4> QED
        BY <2>1, <4>1, TallyGrows
    <3>2. CASE u.events = n.events
      BY <2>1, <2>2, <2>3, <2>4, <2>5, <3>1, <3>2
    <3>3. CASE r.boosted = 0 /\ b.boosted = BoostFor /\ u.events = Append(n.events, start)
      <4>1. start \in EventSet /\ start \in Hints /\ start \notin Timeouts
            /\ \A c \in Collectors : start \notin {<<"collector_timeout", c>>} /\ start \notin {<<"collector_recovered", c>>}
        BY DEF EventSet, Watched, Collectors, Hints, Timeouts
      <4> HIDE DEF start
      <4>2. \A T : Tally(n.events, T) \in Nat /\ Tally(u.events, T) = Tally(n.events, T) + (IF start \in T THEN 1 ELSE 0)
        <5>1. n.events \in Seq(EventSet)
          BY <2>1
        <5> QED
          BY <5>1, <3>3, <4>1, TallyGrows
      <4>3. \A T : start \notin T => Tally(u.events, T) = Tally(n.events, T)
        BY <4>2
      <4>4. Tally(u.events, Hints) = Tally(n.events, Hints) + 1
        BY <4>1, <4>2
      <4>5. u.timedOut = n.timedOut /\ u.episodes = n.episodes
        BY <2>2, <2>3, <2>4, <2>5
      <4>6. Paired(u.events, u.timedOut)
        BY <2>1, <4>1, <4>3, <4>5, Zenon DEF Paired
      <4>7. u.episodes = Tally(u.events, Timeouts)
        BY <2>1, <4>1, <4>3, <4>5, Zenon
      <4>8. u.events \in Seq(EventSet)
        BY <2>1, <3>3, <4>1
      <4> QED
        BY <3>1, <3>3, <4>4, <4>6, <4>7, <4>8
    <3> QED
      BY <2>2, <2>3, <2>4, <2>5, <3>2, <3>3
  <2>7. Append(ls, m) \in Seq(Rows) /\ Len(Append(ls, m)) = Len(ls) + 1 /\ Len(ls) \in Nat
    BY <2>1
  <2>8. u.boosted \in 0..BoostFor /\ (u.boosted = 0 => u.knob = BaseIv)
    BY <2>1, <2>2, <2>3, <2>4, <2>5, MonitorAssumption
  <2>9. Len(Append(ls, m)) >= BoostFor * Tally(u.events, Hints) - u.boosted
    <3> DEFINE h == Tally(n.events, Hints)
               p == BoostFor * h
    <3>1. BoostFor \in Nat \ {0} /\ h \in Nat /\ p \in Nat /\ BoostFor * (h + 1) = p + BoostFor
      BY <2>6, MonitorAssumption
    <3>2. Len(ls) >= p - n.boosted /\ n.boosted \in Nat /\ r.boosted = n.boosted
      BY <2>1, <2>2
    <3>3. \/ Tally(u.events, Hints) = h /\ b.boosted = r.boosted
          \/ r.boosted = 0 /\ b.boosted = BoostFor /\ Tally(u.events, Hints) = h + 1
      BY <2>2, <2>3, <2>4, <2>5, <2>6
    <3>4. u.boosted = IF b.boosted = 0 THEN 0 ELSE b.boosted - 1
      BY <2>4, <2>5
    <3> HIDE DEF h, p
    <3>5. CASE Tally(u.events, Hints) = h /\ b.boosted = r.boosted
      BY <2>7, <3>1, <3>2, <3>4, <3>5 DEF p
    <3>6. CASE r.boosted = 0 /\ b.boosted = BoostFor /\ Tally(u.events, Hints) = h + 1
      <4>1. u.boosted = BoostFor - 1
        BY <3>1, <3>4, <3>6
      <4>2. BoostFor * Tally(u.events, Hints) = p + BoostFor
        BY <3>1, <3>6
      <4> QED
        BY <2>7, <3>1, <3>2, <3>6, <4>1, <4>2
    <3> QED
      BY <3>3, <3>5, <3>6
  <2>10. Accounted(u)
    BY <2>2, <2>3, <2>4, <2>5 DEF Accounted
  <2>11. Shape(u)
    BY <2>1, <2>2, <2>3, <2>4, <2>5, <2>6, <2>7, <2>8 DEF Shape
  <2> QED
    BY <2>5, <2>6, <2>8, <2>9, <2>10, <2>11 DEF StateInv, Boosts
<1> QED
  BY <1>2, <1>3, <1>4

-----------------------------------------------------------------------------
(* The loop.                                                               *)

HelperInv ==
  /\ helper = [f \in {"since", "exit", "knob"} |-> helper[f]]
  /\ helper.knob = IF helper.since = None THEN canonical_interval("elevated") ELSE Quick

MonitorInv ==
  /\ now \in Int /\ wall \in Int
  /\ queue \in Seq(Rows)
  /\ HelperInv
  /\ StateInv(st)

(* A monitor that has written no line and recorded no event satisfies the   *)
(* invariant, whatever collectors were selected.                            *)
LEMMA MonitorInitInv == MonitorInit => MonitorInv
<1> SUFFICES ASSUME MonitorInit PROVE MonitorInv
  OBVIOUS
<1>1. now \in Int /\ wall \in Int /\ queue \in Seq(Rows)
  BY DEF MonitorInit
<1>2. HelperInv
  BY DEF MonitorInit, HelperInv
<1>3. PICK active \in Selections :
       st = [active |-> active, expected |-> [c \in ToSet(active) |-> None],
             timedOut |-> {}, episodes |-> 0, late |-> 0,
             primary |-> IF "battery" \in ToSet(active) THEN "battery" ELSE active[1],
             tick |-> 0, fallback |-> FALSE,
             boosted |-> 0, knob |-> BaseIv, short |-> << >>, dchCount |-> 0,
             energy |-> NewStream, nBattery |-> 0, dischargeN |-> 0, chargeN |-> 0,
             disk |-> NewThroughput, prevDisk |-> None,
             busy |-> 0, firing |-> FALSE,
             cpuCtx |-> None, selfCtx |-> None,
             full |-> FALSE, lines |-> [c \in Collectors |-> << >>], events |-> << >>, phase |-> "loop"]
  BY DEF MonitorInit
<1>4. /\ IsState(st) /\ st.active = active /\ st.timedOut = {} /\ st.episodes = 0 /\ st.boosted = 0
      /\ st.knob = BaseIv /\ st.energy = NewStream /\ st.dischargeN = 0 /\ st.chargeN = 0
      /\ st.events = << >> /\ DOMAIN st.lines = Collectors /\ st.lines["battery"] = << >>
  <2> DEFINE x == [c \in ToSet(active) |-> None]
             y == IF "battery" \in ToSet(active) THEN "battery" ELSE active[1]
             z == [c \in Collectors |-> << >>]
  <2>1. DOMAIN z = Collectors /\ z["battery"] = << >>
    BY DEF Collectors
  <2> HIDE DEF x, y, z
  <2>2. st = [active |-> active, expected |-> x,
             timedOut |-> {}, episodes |-> 0, late |-> 0, primary |-> y,
             tick |-> 0, fallback |-> FALSE,
             boosted |-> 0, knob |-> BaseIv, short |-> << >>, dchCount |-> 0,
             energy |-> NewStream, nBattery |-> 0, dischargeN |-> 0, chargeN |-> 0,
             disk |-> NewThroughput, prevDisk |-> None,
             busy |-> 0, firing |-> FALSE,
             cpuCtx |-> None, selfCtx |-> None,
             full |-> FALSE, lines |-> z, events |-> << >>, phase |-> "loop"]
    BY <1>3, Zenon DEF x, y, z
  <2> QED
    BY <2>1, <2>2 DEF IsState, Fields
<1>5. active \in Seq(Collectors) /\ BoostFor \in Nat
  BY MonitorAssumption
<1>6. \A T : Tally(<< >>, T) = 0
  <2> TAKE T
  <2>1. {i \in DOMAIN << >> : << >>[i] \in T} = {}
    OBVIOUS
  <2> QED
    BY <2>1, FS_EmptySet, Zenon DEF Tally
<1>7. Shape(st)
  BY <1>4, <1>5 DEF Shape
<1>8. Paired(st.events, st.timedOut) /\ st.episodes = Tally(st.events, Timeouts)
  BY <1>4, <1>6 DEF Paired
<1>9. Boosts(st)
  BY <1>4, <1>5, <1>6 DEF Boosts
<1>10. Accounted(st)
  <2>1. Stream(<< >>, Gap) = NewStream
    <3>1. StepsOf(<< >>) = {}
      BY DEF StepsOf
    <3>2. KindsIn(<< >>, Gap) = [k \in Kinds |-> 0]
          /\ \A ws : integrate_segmented_clocks(<< >>, ws, Gap) = NoEnergy
      BY <3>1, NoStepsNoEnergy
    <3> QED
      BY <3>2, Zenon DEF Stream, NewStream
  <2> QED
    BY <1>4, <1>6, <2>1 DEF Accounted
<1> QED
  BY <1>1, <1>2, <1>7, <1>8, <1>9, <1>10 DEF MonitorInv, StateInv

(* What a worker sends is a row.                                            *)
LEMMA SentRow ==
  ASSUME MonitorInv, NEW m, Send(m), NEW c \in Collectors, NEW ok \in BOOLEAN,
         NEW r, r.dch \in Power, r.chg \in Power,
         NEW v \in Rates \cup {None, 0, 1} \cup Results, NEW total \in BOOLEAN,
         m = Message(c, ok, r, v, total)
  PROVE  queue' \in Seq(Rows)
<1>1. m \in Rows
  BY DEF MonitorInv, Message, Rows
<1> QED
  BY <1>1 DEF MonitorInv, Send

(* What a collector reads off the battery is a rate or nothing.             *)
LEMMA ReadingType ==
  ASSUME NEW c, NEW r \in Reading(c) PROVE r.dch \in Power /\ r.chg \in Power
BY MonitorAssumption DEF Reading, Power

(* What the other collectors deliver.                                       *)
LEMMA ValuesType ==
  ASSUME NEW c PROVE Values(c) \subseteq Rates \cup {None, 0, 1} \cup Results
BY DEF Values

(* A worker only sends: the loop's state is untouched.                      *)
LEMMA WorkersKeep ==
  ASSUME MonitorInv, \/ \E c \in Collectors : Collect(c) \/ CollectFails(c)
                     \/ CollectElevated
  PROVE  MonitorInv'
<1>1. ASSUME NEW c \in Collectors, Collect(c) PROVE MonitorInv'
  <2>1. PICK r \in Reading(c), v \in Values(c), total \in BOOLEAN : Send(Message(c, TRUE, r, v, total))
    BY <1>1, Zenon DEF Collect
  <2>2. r.dch \in Power /\ r.chg \in Power /\ v \in Rates \cup {None, 0, 1} \cup Results
    BY ReadingType, ValuesType
  <2>3. queue' \in Seq(Rows)
    BY <2>1, <2>2, SentRow
  <2>4. UNCHANGED <<now, wall, helper, st>>
    BY <1>1 DEF Collect
  <2> QED
    BY <2>3, <2>4 DEF MonitorInv, HelperInv
<1>2. ASSUME NEW c \in Collectors, CollectFails(c) PROVE MonitorInv'
  <2> DEFINE r == [dch |-> None, chg |-> None]
  <2>1. Send(Message(c, FALSE, r, None, FALSE))
    BY <1>2, Zenon DEF CollectFails
  <2>2. r.dch \in Power /\ r.chg \in Power
    BY DEF Power
  <2> HIDE DEF r
  <2>3. queue' \in Seq(Rows)
    BY <2>1, <2>2, SentRow
  <2>4. UNCHANGED <<now, wall, helper, st>>
    BY <1>2 DEF CollectFails
  <2> QED
    BY <2>3, <2>4 DEF MonitorInv, HelperInv
<1>3. ASSUME CollectElevated PROVE MonitorInv'
  <2> DEFINE r == [dch |-> None, chg |-> None]
  <2>1. PICK result \in Results :
          /\ Spawn(result) \/ PollChild(result)
          /\ Send(Message("elevated", result = "line", r, result, FALSE))
    BY <1>3, Zenon DEF CollectElevated, Results
  <2>2. r.dch \in Power /\ r.chg \in Power
    BY DEF Power
  <2> DEFINE ok == result = "line"
  <2>3. "elevated" \in Collectors /\ ok \in BOOLEAN /\ FALSE \in BOOLEAN
        /\ result \in Rates \cup {None, 0, 1} \cup Results
    BY DEF Collectors
  <2> HIDE DEF r, ok
  <2>4. queue' \in Seq(Rows)
    <3>1. Send(Message("elevated", ok, r, result, FALSE))
      BY <2>1, Zenon DEF ok
    <3> QED
      BY <2>2, <2>3, <3>1, SentRow
  <2>5. UNCHANGED <<now, wall, st>>
    BY <1>3 DEF CollectElevated
  <2>6. HelperInv'
    <3>1. now # None
      BY NoneIsNothing DEF MonitorInv
    <3>2. \/ helper' = helper \/ helper' = [since |-> now, exit |-> None, knob |-> Quick]
          \/ helper' = [since |-> None, exit |-> None, knob |-> canonical_interval("elevated")]
      BY <2>1 DEF Spawn, PollChild, Settled, Idle
    <3> QED
      BY <3>1, <3>2 DEF HelperInv, MonitorInv
  <2> QED
    BY <2>4, <2>5, <2>6 DEF MonitorInv
<1> QED
  BY <1>1, <1>2, <1>3

(* One turn of the loop with a message: poll of the timeouts, arrival, then *)
(* the handler of the message, or nothing more while paused.  Each stage    *)
(* preserves the invariant or is silent.                                    *)
LEMMA TurnKeeps ==
  ASSUME MonitorInv, NEW paused \in BOOLEAN, NEW full \in BOOLEAN, Turn(paused, full)
  PROVE  MonitorInv'
<1> DEFINE m == Head(queue)
           f == [st EXCEPT !.full = full]
           p == poll_collector_timeouts(f)
           s == note_arrival(p, m.c)
           r == PrimaryFallback(Lateness(s, m), m)
           t == IF paused THEN [s EXCEPT !.expected[m.c] = m.mono] ELSE Tick(Handle(r, m), m)
<1>1. /\ queue # << >> /\ queue' = Tail(queue) /\ st' = [t EXCEPT !.full = FALSE]
      /\ UNCHANGED <<now, wall, helper>>
  BY Zenon DEF Turn
<1>2. m \in Rows /\ m.c \in Collectors /\ queue' \in Seq(Rows)
  <2>1. m \in Rows /\ Tail(queue) \in Seq(Rows)
    BY <1>1 DEF MonitorInv
  <2> QED
    BY <1>1, <2>1 DEF Rows
<1> HIDE DEF m
<1>3. StateInv(f)
  <2>1. StateInv(st) /\ Shape(st)
    BY DEF MonitorInv, StateInv
  <2>2. Silent(st, f)
    BY <1>2, <2>1, LoopSilent
  <2> QED
    BY <2>1, <2>2, SilentKeeps
<1> HIDE DEF f
<1>4. StateInv(p)
  BY <1>3, PollsKeep
<1> HIDE DEF p
<1>5. StateInv(s)
  BY <1>2, <1>4, ArrivalKeeps
<1> HIDE DEF s
<1>6. StateInv(r)
  <2>1. Silent(s, r)
    BY <1>2, <1>5, LoopSilent DEF StateInv
  <2> QED
    BY <1>5, <2>1, SilentKeeps
<1> HIDE DEF r
<1>7. StateInv(Handle(r, m))
  <2>1. CASE m.c = "battery"
    BY <1>2, <1>6, <2>1, BatteryKeeps
  <2>2. CASE m.c # "battery"
    <3>1. Silent(r, Handle(r, m))
      BY <1>2, <1>6, <2>2, HandlersSilent DEF StateInv
    <3> QED
      BY <1>6, <3>1, SilentKeeps
  <2> QED
    BY <2>1, <2>2
<1> DEFINE h == Handle(r, m)
<1> HIDE DEF h
<1>8. StateInv(Tick(h, m))
  <2>1. StateInv(h)
    BY <1>7 DEF h
  <2>2. Silent(h, Tick(h, m))
    BY <1>2, <2>1, LoopSilent DEF StateInv
  <2> QED
    BY <2>1, <2>2, SilentKeeps
<1>9. StateInv([s EXCEPT !.expected[m.c] = m.mono])
  <2>1. Silent(s, [s EXCEPT !.expected[m.c] = m.mono])
    BY <1>2, <1>5, LoopSilent DEF StateInv
  <2> QED
    BY <1>5, <2>1, SilentKeeps
<1>10. StateInv(t)
  BY <1>8, <1>9, Zenon DEF h
<1> HIDE DEF t
<1>11. StateInv([t EXCEPT !.full = FALSE])
  <2>1. Silent(t, [t EXCEPT !.full = FALSE])
    BY <1>2, <1>10, LoopSilent DEF StateInv
  <2> QED
    BY <1>10, <2>1, SilentKeeps
<1> QED
  BY <1>1, <1>2, <1>11 DEF MonitorInv, HelperInv

(* Every step of the workers, the helper, the clocks and the loop preserves *)
(* the invariant.                                                           *)
LEMMA MonitorNextInv == MonitorInv /\ [MonitorNext]_monitorVars => MonitorInv'
<1> SUFFICES ASSUME MonitorInv, [MonitorNext]_monitorVars PROVE MonitorInv'
  OBVIOUS
<1>1. CASE \/ \E c \in Collectors : Collect(c) \/ CollectFails(c)
           \/ CollectElevated
  BY <1>1, WorkersKeep
<1>2. CASE HelperExits
  <2>1. /\ \E e : helper' = [helper EXCEPT !.exit = e]
        /\ UNCHANGED <<now, wall, queue, st>>
    BY <1>2 DEF HelperExits
  <2>2. HelperInv'
    BY <2>1 DEF MonitorInv, HelperInv
  <2> QED
    BY <2>1, <2>2 DEF MonitorInv
<1>3. ASSUME NEW paused \in BOOLEAN, NEW full \in BOOLEAN, Turn(paused, full) PROVE MonitorInv'
  BY <1>3, TurnKeeps
<1>4. CASE ReceiveTimeout
  <2>1. st' = poll_collector_timeouts(st) /\ UNCHANGED <<now, wall, queue, helper>>
    BY <1>4 DEF ReceiveTimeout
  <2>2. StateInv(poll_collector_timeouts(st))
    BY PollsKeep DEF MonitorInv
  <2> QED
    BY <2>1, <2>2 DEF MonitorInv, HelperInv
<1>5. CASE WriteFooter
  <2>1. st' = [st EXCEPT !.phase = "done"] /\ UNCHANGED <<now, wall, queue, helper>>
    BY <1>5 DEF WriteFooter
  <2>2. Shape(st) /\ StateInv(st)
    BY DEF MonitorInv, StateInv
  <2>3. Agree(st, [st EXCEPT !.phase = "done"])
    BY <2>2 DEF Shape, IsState, Fields, Agree
  <2>4. StateInv([st EXCEPT !.phase = "done"])
    BY <2>2, <2>3, SilentRefl, SilentAgree, SilentKeeps
  <2> QED
    BY <2>1, <2>4 DEF MonitorInv, HelperInv
<1>6. CASE Advance
  <2>1. PICK d \in Steps : now' = now + d /\ wall' = wall + d
    BY <1>6 DEF Advance
  <2>2. d \in Int /\ UNCHANGED <<queue, helper, st>>
    BY <1>6, MonitorAssumption DEF Advance
  <2> QED
    BY <2>1, <2>2 DEF MonitorInv, HelperInv
<1>7. CASE SetWall
  <2>1. PICK d \in WallSteps : wall' = wall + d
    BY <1>7 DEF SetWall
  <2>2. d \in Int /\ UNCHANGED <<now, queue, helper, st>>
    BY <1>7, MonitorAssumption DEF SetWall
  <2> QED
    BY <2>1, <2>2 DEF MonitorInv, HelperInv
<1>8. CASE Ended \/ UNCHANGED monitorVars
  BY <1>8 DEF Ended, monitorVars, MonitorInv, HelperInv
<1> QED
  BY <1>1, <1>2, <1>3, <1>4, <1>5, <1>6, <1>7, <1>8 DEF MonitorNext

(* Whatever collectors are selected, whatever they deliver and however the  *)
(* clocks move, the state of the monitor loop is the one its events and     *)
(* lines so far call for.                                                   *)
THEOREM MonitorInvariant == MonitorSpec => []MonitorInv
BY MonitorInitInv, MonitorNextInv, PTL DEF MonitorSpec

(* collector_timeout and collector_recovered alternate for every collector, *)
(* an episode is open exactly while the collector is in timed_out, and      *)
(* timeout_episodes counts the events: poll_collector_timeouts against      *)
(* note_arrival, in any order.                                              *)
THEOREM EpisodesAlternate == MonitorSpec => []EpisodesPaired
<1>1. MonitorInv => EpisodesPaired
  <2> SUFFICES ASSUME MonitorInv PROVE EpisodesPaired
    OBVIOUS
  <2>1. Shape(st) /\ Paired(st.events, st.timedOut) /\ st.episodes = Tally(st.events, Timeouts)
    BY DEF MonitorInv, StateInv
  <2>2. \A k, c : EventCount(k, c) = Tally(st.events, {<<k, c>>})
    BY DEF EventCount, Tally
  <2>3. Active \subseteq Collectors
    BY <2>1 DEF Shape, Active, ToSet
  <2>4. KindCount("collector_timeout") = Tally(st.events, Timeouts)
    <3>1. \A i \in DOMAIN st.events : st.events[i] \in Timeouts <=> st.events[i][1] = "collector_timeout"
      <4>1. \A e \in EventSet : e \in Timeouts <=> e[1] = "collector_timeout"
        BY DEF EventSet, Timeouts
      <4>2. \A i \in DOMAIN st.events : st.events[i] \in EventSet
        BY <2>1 DEF Shape
      <4> QED
        BY <4>1, <4>2
    <3>2. {i \in DOMAIN st.events : st.events[i] \in Timeouts} = {i \in DOMAIN st.events : st.events[i][1] = "collector_timeout"}
      BY <3>1
    <3> QED
      BY <3>2, Zenon DEF KindCount, Tally
  <2>5. Footer.collectorTimeouts = st.episodes
    BY DEF Footer
  <2> QED
    BY <2>1, <2>2, <2>3, <2>4, <2>5 DEF EpisodesPaired, Paired
<1> QED
  BY <1>1, MonitorInvariant, PTL

(* A boost never sticks: the battery's and the helper's cadence are the base *)
(* ones whenever no boost is running, and every boost that began left its   *)
(* anomaly_hint (should_boost and the countdown in handle_battery).         *)
THEOREM BoostsEnd == MonitorSpec => []CadenceRestored
<1>1. MonitorInv => CadenceRestored
  <2> SUFFICES ASSUME MonitorInv PROVE CadenceRestored
    OBVIOUS
  <2>1. Shape(st) /\ Boosts(st) /\ HelperInv
    BY DEF MonitorInv, StateInv
  <2>2. KindCount("anomaly_hint") = Tally(st.events, Hints)
    <3>1. \A i \in DOMAIN st.events : st.events[i] \in Hints <=> st.events[i][1] = "anomaly_hint"
      <4>1. \A e \in EventSet : e \in Hints <=> e[1] = "anomaly_hint"
        BY DEF EventSet, Hints
      <4>2. \A i \in DOMAIN st.events : st.events[i] \in EventSet
        BY <2>1 DEF Shape
      <4> QED
        BY <4>1, <4>2
    <3>2. {i \in DOMAIN st.events : st.events[i] \in Hints} = {i \in DOMAIN st.events : st.events[i][1] = "anomaly_hint"}
      BY <3>1
    <3> QED
      BY <3>2, Zenon DEF KindCount, Tally
  <2> QED
    BY <2>1, <2>2 DEF CadenceRestored, Boosts, HelperInv
<1> QED
  BY <1>1, MonitorInvariant, PTL

(* The footer the monitor writes from its running accumulators (live.rs, one *)
(* sample at a time) is the one recovery derives from the lines of the same *)
(* file (stats.rs, a whole series at once): energies, covered, unknown and  *)
(* unobserved time, counts and kinds of discontinuity.                      *)
THEOREM FootersTellTheSame == MonitorSpec => []FootersAgree
<1>1. MonitorInv => FootersAgree
  <2> SUFFICES ASSUME MonitorInv PROVE FootersAgree
    OBVIOUS
  <2> DEFINE ss == st.lines["battery"]
             R == recovered_summary
             E == Stream(ss, Gap)
  <2>1. ss \in Seq(Rows) /\ st.energy = E
        /\ st.dischargeN = Tally(ss, Discharging) /\ st.chargeN = Tally(ss, Charging)
    BY DEF MonitorInv, StateInv, Shape, Accounted
  <2>2. /\ Tally(ss, Discharging) = Cardinality({i \in DOMAIN ss : ss[i].dch # None})
        /\ Tally(ss, Charging) = Cardinality({i \in DOMAIN ss : ss[i].chg # None})
    <3>1. \A i \in DOMAIN ss : ss[i] \in Rows
      BY <2>1
    <3>2. {i \in DOMAIN ss : ss[i] \in Discharging} = {i \in DOMAIN ss : ss[i].dch # None}
      BY <3>1 DEF Discharging
    <3>3. {i \in DOMAIN ss : ss[i] \in Charging} = {i \in DOMAIN ss : ss[i].chg # None}
      BY <3>1 DEF Charging
    <3> QED
      BY <3>2, <3>3, Zenon DEF Tally
  <2>3. R = [discharge |-> E.discharge, charge |-> E.charge, kinds |-> E.kinds,
             dischargeN |-> Cardinality({i \in DOMAIN ss : ss[i].dch # None}),
             chargeN |-> Cardinality({i \in DOMAIN ss : ss[i].chg # None})]
    <3>1. /\ E.discharge = integrate_segmented_clocks(ss, [i \in DOMAIN ss |-> ss[i].dch], Gap)
          /\ E.charge = integrate_segmented_clocks(ss, [i \in DOMAIN ss |-> ss[i].chg], Gap)
          /\ E.kinds = KindsIn(ss, Gap)
      BY DEF Stream
    <3> HIDE DEF E
    <3> QED
      BY <3>1, Zenon DEF recovered_summary, KindsIn
  <2>4. /\ Footer.discharge = st.energy.discharge /\ Footer.charge = st.energy.charge
        /\ Footer.kinds = st.energy.kinds
        /\ Footer.dischargeN = st.dischargeN /\ Footer.chargeN = st.chargeN
    BY DEF Footer
  <2> HIDE DEF R, E, ss
  <2>5. \A f \in DOMAIN R : Footer[f] = R[f]
    <3>1. DOMAIN R = {"discharge", "charge", "kinds", "dischargeN", "chargeN"}
      BY <2>3
    <3>2. /\ R.discharge = E.discharge /\ R.charge = E.charge /\ R.kinds = E.kinds
          /\ R.dischargeN = st.dischargeN /\ R.chargeN = st.chargeN
      BY <2>1, <2>2, <2>3
    <3> HIDE DEF R, Footer
    <3> QED
      BY <2>1, <2>4, <3>1, <3>2
  <2> QED
    BY <2>5 DEF FootersAgree, R
<1> QED
  BY <1>1, MonitorInvariant, PTL
=============================================================================
