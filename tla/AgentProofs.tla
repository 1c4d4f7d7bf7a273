----------------------------- MODULE AgentProofs -----------------------------
(***************************************************************************)
(* What the agent process keeps.  Of its two threads and the console       *)
(* handler (Agent): for any number of markers and samples, any capacity of *)
(* the queue and any session file operations failing.  Of its pipe (Pipe): *)
(* for any number of processes and clients, any frame sizes and timeouts.  *)
(***************************************************************************)
EXTENDS Agent, Pipe, FiniteSetTheorems, SequenceTheorems, TLAPS

-----------------------------------------------------------------------------
(* The threads, the markers and the session file.                           *)


(* What is in a sequence after it was extended, shortened or joined.        *)
LEMMA AppendSet ==
  ASSUME NEW s \in Seq(Int), NEW x \in Int
  PROVE  ToSet(Append(s, x)) = ToSet(s) \cup {x}
<1> DEFINE u == Append(s, x)
           n == Len(s)
<1>1. /\ n \in Nat /\ DOMAIN s = 1..n /\ DOMAIN u = 1..(n + 1)
      /\ u[n + 1] = x /\ \A i \in 1..n : u[i] = s[i]
  OBVIOUS
<1> HIDE DEF u, n
<1>2. ToSet(u) \subseteq ToSet(s) \cup {x}
  BY <1>1 DEF ToSet
<1>3. \A i \in 1..n : s[i] = u[i] /\ i \in 1..(n + 1)
  BY <1>1
<1>4. ToSet(s) \subseteq ToSet(u)
  BY <1>1, <1>3 DEF ToSet
<1>5. n + 1 \in DOMAIN u
  BY <1>1
<1>6. x \in ToSet(u)
  BY <1>1, <1>5 DEF ToSet
<1> QED
  BY <1>2, <1>4, <1>6 DEF u

LEMMA TailSet ==
  ASSUME NEW s \in Seq(Int), s # <<>>
  PROVE  /\ Head(s) \in Int /\ Tail(s) \in Seq(Int)
         /\ ToSet(s) = {Head(s)} \cup ToSet(Tail(s))
<1> DEFINE u == Tail(s)
           n == Len(s)
<1>1. /\ n \in Nat \ {0} /\ DOMAIN s = 1..n /\ DOMAIN u = 1..(n - 1)
      /\ Head(s) = s[1] /\ \A i \in 1..(n - 1) : u[i] = s[i + 1]
      /\ Head(s) \in Int /\ u \in Seq(Int)
  OBVIOUS
<1> HIDE DEF u, n
<1>2. \A i \in 1..(n - 1) : i + 1 \in DOMAIN s
  BY <1>1
<1>3. 1 \in DOMAIN s
  BY <1>1
<1>4. {Head(s)} \cup ToSet(u) \subseteq ToSet(s)
  BY <1>1, <1>2, <1>3 DEF ToSet
<1>5. \A i \in DOMAIN s : i = 1 \/ (i - 1 \in DOMAIN u /\ u[i - 1] = s[i])
  BY <1>1
<1>6. ToSet(s) \subseteq {Head(s)} \cup ToSet(u)
  <2> SUFFICES ASSUME NEW i \in DOMAIN s PROVE s[i] \in {Head(s)} \cup ToSet(u)
    BY DEF ToSet
  <2>1. CASE i = 1
    BY <1>1, <2>1
  <2>2. CASE i - 1 \in DOMAIN u /\ u[i - 1] = s[i]
    BY <2>2 DEF ToSet
  <2> QED
    BY <1>5, <2>1, <2>2
<1> QED
  BY <1>1, <1>4, <1>6 DEF u

LEMMA ConcatSet ==
  ASSUME NEW s \in Seq(Int), NEW t \in Seq(Int)
  PROVE  s \o t \in Seq(Int) /\ ToSet(s \o t) = ToSet(s) \cup ToSet(t)
<1> DEFINE u == s \o t
           m == Len(s)
           n == Len(t)
<1>1. /\ m \in Nat /\ n \in Nat /\ u \in Seq(Int)
      /\ DOMAIN s = 1..m /\ DOMAIN t = 1..n /\ DOMAIN u = 1..(m + n)
      /\ \A i \in 1..(m + n) : u[i] = IF i <= m THEN s[i] ELSE t[i - m]
  OBVIOUS
<1> HIDE DEF u, m, n
<1>2. \A i \in DOMAIN u :
        \/ i \in DOMAIN s /\ u[i] = s[i]
        \/ i - m \in DOMAIN t /\ u[i] = t[i - m]
  <2> TAKE i \in DOMAIN u
  <2>1. CASE i <= m
    <3>1. i \in DOMAIN s
      BY <1>1, <2>1
    <3>2. u[i] = s[i]
      BY <1>1, <2>1
    <3> QED
      BY <3>1, <3>2, Zenon
  <2>2. CASE i > m
    <3>1. i - m \in 1..n
      BY <1>1, <2>2
    <3> QED
      BY <1>1, <2>2, <3>1
  <2> QED
    BY <1>1, <2>1, <2>2
<1>3. ToSet(u) \subseteq ToSet(s) \cup ToSet(t)
  BY <1>2 DEF ToSet
<1>4. \A i \in DOMAIN s : i \in DOMAIN u /\ u[i] = s[i]
  BY <1>1
<1>5. \A i \in DOMAIN t : m + i \in DOMAIN u /\ u[m + i] = t[i]
  BY <1>1
<1>6. ToSet(s) \cup ToSet(t) \subseteq ToSet(u)
  BY <1>4, <1>5 DEF ToSet
<1> QED
  BY <1>1, <1>3, <1>6 DEF u

LEMMA EmptySet == ToSet(<<>>) = {} /\ Ascending(<<>>)
  BY DEF ToSet, Ascending

(* The order of the markers in it.                                          *)
LEMMA AscendingAppend ==
  ASSUME NEW s \in Seq(Int), NEW x \in Int, Ascending(s),
         \A y \in ToSet(s) \cap Marks : x \in Marks => y < x
  PROVE  Ascending(Append(s, x))
  BY DEF Ascending, ToSet, Marks

LEMMA AscendingTail ==
  ASSUME NEW s \in Seq(Int), s # <<>>, Ascending(s), ToSet(s) \subseteq Marks
  PROVE  /\ Ascending(Tail(s))
         /\ \A y \in ToSet(Tail(s)) : Head(s) < y
<1> DEFINE u == Tail(s)
           n == Len(s)
<1>1. /\ n \in Nat \ {0} /\ DOMAIN s = 1..n /\ DOMAIN u = 1..(n - 1)
      /\ Head(s) = s[1] /\ \A i \in 1..(n - 1) : u[i] = s[i + 1]
  OBVIOUS
<1> HIDE DEF u, n
<1>2. \A i \in DOMAIN s : s[i] \in Marks
  BY DEF ToSet
<1>3. \A i \in 1..(n - 1) : 1 \in DOMAIN s /\ i + 1 \in DOMAIN s /\ 1 < i + 1
  BY <1>1
<1>4. \A i \in 1..(n - 1) : s[1] < s[i + 1]
  BY <1>2, <1>3 DEF Ascending
<1>5. \A y \in ToSet(u) : Head(s) < y
  BY <1>1, <1>4 DEF ToSet
<1>6. \A i, j \in 1..(n - 1) : i < j => s[i + 1] < s[j + 1]
  <2> TAKE i, j \in 1..(n - 1)
  <2>1. i < j => i + 1 < j + 1
    BY <1>1
  <2> QED
    BY <1>2, <1>3, <2>1 DEF Ascending
<1>7. Ascending(u)
  BY <1>1, <1>6 DEF Ascending
<1> QED
  BY <1>5, <1>7 DEF u

LEMMA AscendingConcat ==
  ASSUME NEW s \in Seq(Int), NEW t \in Seq(Int), Ascending(s), Ascending(t),
         \A x \in ToSet(s) \cap Marks, y \in ToSet(t) \cap Marks : x < y
  PROVE  Ascending(s \o t)
<1> DEFINE u == s \o t
           m == Len(s)
           n == Len(t)
<1>1. /\ m \in Nat /\ n \in Nat
      /\ DOMAIN s = 1..m /\ DOMAIN t = 1..n /\ DOMAIN u = 1..(m + n)
      /\ \A i \in 1..(m + n) : u[i] = IF i <= m THEN s[i] ELSE t[i - m]
  OBVIOUS
<1> HIDE DEF u, m, n
<1> SUFFICES ASSUME NEW i \in DOMAIN u, NEW j \in DOMAIN u, i < j,
                    u[i] \in Marks, u[j] \in Marks
             PROVE  u[i] < u[j]
  BY DEF Ascending, u
<1>2. CASE j <= m
  <2>1. i \in DOMAIN s /\ j \in DOMAIN s /\ u[i] = s[i] /\ u[j] = s[j]
    BY <1>1, <1>2
  <2> QED
    BY <2>1 DEF Ascending
<1>3. CASE i > m
  <2>1. i - m \in DOMAIN t /\ j - m \in DOMAIN t /\ i - m < j - m
    BY <1>1, <1>3
  <2>2. u[i] = t[i - m] /\ u[j] = t[j - m]
    BY <1>1, <1>3
  <2> QED
    BY <2>1, <2>2 DEF Ascending
<1>4. CASE i <= m /\ j > m
  <2>1. i \in DOMAIN s /\ j - m \in DOMAIN t /\ u[i] = s[i] /\ u[j] = t[j - m]
    BY <1>1, <1>4
  <2> QED
    BY <2>1 DEF ToSet
<1> QED
  BY <1>1, <1>2, <1>3, <1>4

(* The records of a session and the markers on their way are numbers.       *)
LEMMA Numbers ==
  ASSUME TypeOK
  PROVE  /\ session \in Seq(Int) /\ pending \in Seq(Int) /\ queue \in Seq(Int)
         /\ ToSet(pending) \cup ToSet(queue) \subseteq Marks
<1>1. 1..MaxMarkers \subseteq Int /\ Footer..MaxMarkers \subseteq Int
  BY AgentAssumption DEF Footer
<1>3. ASSUME NEW S, NEW s \in Seq(S) PROVE ToSet(s) \subseteq S
  BY DEF ToSet
<1>4. session \in Seq(Int) /\ pending \in Seq(Int) /\ queue \in Seq(Int)
  BY <1>1, SeqMonotonic, Zenon DEF TypeOK
<1>5. ToSet(pending) \subseteq Marks /\ ToSet(queue) \subseteq Marks
  BY <1>3, Zenon DEF TypeOK, Marks
<1> QED
  BY <1>4, <1>5

-----------------------------------------------------------------------------
(* IndInv holds initially and every action preserves it.                    *)

LEMMA InitInd == Init => IndInv
<1> SUFFICES ASSUME Init PROVE IndInv
  OBVIOUS
<1> USE AgentAssumption
<1>1. Flags
  BY Zenon DEF Init, Flags
<1>2. TypeOK
  BY <1>1 DEF Init, TypeOK, Path, Verbs, Footer
<1>3. Gated /\ Counted
  BY DEF Init, Gated, Counted
<1>4. ToSet(session) = {} /\ ToSet(pending) = {} /\ ToSet(queue) = {} /\ served = 0
  BY EmptySet DEF Init
<1>5. InOrder
  BY <1>4, EmptySet DEF Init, InOrder, InFile
<1>6. Conserved
  BY <1>4 DEF Init, Conserved, Held, InFile
<1>7. Sealed
  BY <1>4 DEF Init, Sealed
<1> QED
  BY <1>2, <1>3, <1>5, <1>6, <1>7 DEF IndInv

(* A step that leaves the markers where they are.                           *)
LEMMA MarkersStay ==
  ASSUME InOrder, Conserved, UNCHANGED <<session, pending, queue, evicted, failed, served>>
  PROVE  InOrder' /\ Conserved'
  BY DEF InOrder, Conserved, Held, InFile, ToSet, Ascending, Marks

(* drain_markers joins the queue to what is in the writer's hand.           *)
LEMMA DrainKeeps ==
  ASSUME IndInv, pending' = pending \o queue, queue' = <<>>,
         UNCHANGED <<session, evicted, failed, served>>
  PROVE  InOrder' /\ Conserved'
<1> USE DEF IndInv
<1>1. ToSet(pending') = ToSet(pending) \cup ToSet(queue) /\ ToSet(queue') = {}
  BY Numbers, ConcatSet, EmptySet
<1>2. Ascending(pending') /\ Ascending(queue')
  BY Numbers, AscendingConcat, EmptySet DEF InOrder
<1>3. UNCHANGED <<InFile, Ascending(session)>>
  BY DEF InFile, ToSet, Ascending, Marks
<1>4. InOrder'
  BY <1>1, <1>2, <1>3 DEF InOrder
<1>5. Conserved'
  BY <1>1, <1>3 DEF Conserved, Held
<1> QED
  BY <1>4, <1>5

(* A record that is not a marker is appended to the session.                *)
LEMMA RecordKeeps ==
  ASSUME IndInv, NEW r \in {Sample, Footer}, session' = Append(session, r),
         UNCHANGED <<pending, queue, evicted, failed, served>>
  PROVE  session' \in Seq(Footer..MaxMarkers) /\ InOrder' /\ Conserved'
<1> USE AgentAssumption DEF IndInv
<1>1. r \in Int /\ r \notin Marks /\ r \in Footer..MaxMarkers
  BY DEF Sample, Footer, Marks
<1>2. session' \in Seq(Footer..MaxMarkers)
  BY <1>1 DEF TypeOK
<1>3. ToSet(session') = ToSet(session) \cup {r}
  BY <1>1, Numbers, AppendSet
<1>4. InFile' = InFile
  BY <1>1, <1>3 DEF InFile, Marks
<1>5. Ascending(session')
  BY <1>1, Numbers, AscendingAppend DEF InOrder
<1>6. UNCHANGED <<ToSet(pending), ToSet(queue), Ascending(pending), Ascending(queue)>>
  BY DEF ToSet, Ascending, Marks
<1>7. InOrder' /\ Conserved'
  BY <1>4, <1>5, <1>6 DEF InOrder, Conserved, Held
<1> QED
  BY <1>2, <1>7

LEMMA NextInd == IndInv /\ [Next]_vars => IndInv'
<1> SUFFICES ASSUME IndInv, [Next]_vars PROVE IndInv'
  OBVIOUS
<1> USE AgentAssumption
<1> USE DEF IndInv
<1>1. CASE UNCHANGED vars
  <2>1. TypeOK' /\ Gated' /\ Counted' /\ Sealed'
    BY <1>1 DEF vars, service, markers, monitor, pipe, console, history, TypeOK, Flags, Gated,
                Counted, Sealed
  <2>2. InOrder' /\ Conserved'
    BY <1>1, MarkersStay DEF vars, markers, monitor, pipe
  <2> QED
    BY <2>1, <2>2
<1>2. CASE ServerEnds
  <2>0. Flags'
    BY <1>2, Zenon DEF ServerEnds, ServerKeeps, service, markers, monitor, console, history,
        Signal, TypeOK, Flags
  <2>1. TypeOK'
    BY <1>2, <2>0 DEF ServerEnds, ServerKeeps, service, markers, monitor, console, history,
        Signal, TypeOK, Path, Verbs
  <2>2. Gated'
    BY <1>2 DEF ServerEnds, ServerKeeps, service, markers, monitor, console, history, Signal,
        TypeOK, Gated
  <2>3. Counted'
    BY <1>2 DEF ServerEnds, ServerKeeps, service, markers, monitor, console, history, Signal,
        TypeOK, Counted
  <2>4. Sealed'
    BY <1>2 DEF ServerEnds, ServerKeeps, service, markers, monitor, console, history, Signal,
        TypeOK, Sealed, Counted, Ended, ToSet
  <2>5. InOrder' /\ Conserved'
    BY <1>2, MarkersStay DEF ServerEnds, ServerKeeps, service, markers, monitor, console,
        history, Signal
  <2> QED
    BY <2>1, <2>2, <2>3, <2>4, <2>5
<1>3. CASE AcceptConnected
  <2>0. Flags'
    BY <1>3, Zenon DEF AcceptConnected, ServerKeeps, service, markers, monitor, console,
        history, Signal, TypeOK, Flags
  <2>1. TypeOK'
    BY <1>3, <2>0 DEF AcceptConnected, ServerKeeps, service, markers, monitor, console,
        history, Signal, TypeOK, Path, Verbs
  <2>2. Gated'
    BY <1>3 DEF AcceptConnected, ServerKeeps, service, markers, monitor, console, history,
        Signal, TypeOK, Gated
  <2>3. Counted'
    BY <1>3 DEF AcceptConnected, ServerKeeps, service, markers, monitor, console, history,
        Signal, TypeOK, Counted
  <2>4. Sealed'
    BY <1>3 DEF AcceptConnected, ServerKeeps, service, markers, monitor, console, history,
        Signal, TypeOK, Sealed, Counted, Ended, ToSet
  <2>5. InOrder' /\ Conserved'
    BY <1>3, MarkersStay DEF AcceptConnected, ServerKeeps, service, markers, monitor, console,
        history, Signal
  <2> QED
    BY <2>1, <2>2, <2>3, <2>4, <2>5
<1>4. CASE AcceptIdle
  <2>0. Flags'
    BY <1>4, Zenon DEF AcceptIdle, ServerKeeps, service, markers, monitor, console, history,
        Signal, TypeOK, Flags
  <2>1. TypeOK'
    BY <1>4, <2>0 DEF AcceptIdle, ServerKeeps, service, markers, monitor, console, history,
        Signal, TypeOK, Path, Verbs
  <2>2. Gated'
    BY <1>4 DEF AcceptIdle, ServerKeeps, service, markers, monitor, console, history, Signal,
        TypeOK, Gated
  <2>3. Counted'
    BY <1>4 DEF AcceptIdle, ServerKeeps, service, markers, monitor, console, history, Signal,
        TypeOK, Counted
  <2>4. Sealed'
    BY <1>4 DEF AcceptIdle, ServerKeeps, service, markers, monitor, console, history, Signal,
        TypeOK, Sealed, Counted, Ended, ToSet
  <2>5. InOrder' /\ Conserved'
    BY <1>4, MarkersStay DEF AcceptIdle, ServerKeeps, service, markers, monitor, console,
        history, Signal
  <2> QED
    BY <2>1, <2>2, <2>3, <2>4, <2>5
<1>5. CASE AcceptFails
  <2>0. Flags'
    BY <1>5, Zenon DEF AcceptFails, ServerKeeps, service, markers, monitor, console, history,
        Signal, TypeOK, Flags
  <2>1. TypeOK'
    BY <1>5, <2>0 DEF AcceptFails, ServerKeeps, service, markers, monitor, console, history,
        Signal, TypeOK, Path, Verbs
  <2>2. Gated'
    BY <1>5 DEF AcceptFails, ServerKeeps, service, markers, monitor, console, history, Signal,
        TypeOK, Gated
  <2>3. Counted'
    BY <1>5 DEF AcceptFails, ServerKeeps, service, markers, monitor, console, history, Signal,
        TypeOK, Counted
  <2>4. Sealed'
    BY <1>5 DEF AcceptFails, ServerKeeps, service, markers, monitor, console, history, Signal,
        TypeOK, Sealed, Counted, Ended, ToSet
  <2>5. InOrder' /\ Conserved'
    BY <1>5, MarkersStay DEF AcceptFails, ServerKeeps, service, markers, monitor, console,
        history, Signal
  <2> QED
    BY <2>1, <2>2, <2>3, <2>4, <2>5
<1>6. CASE ReadFails
  <2>0. Flags'
    BY <1>6, Zenon DEF ReadFails, ServerKeeps, service, markers, monitor, console, history,
        TypeOK, Flags
  <2>1. TypeOK'
    BY <1>6, <2>0 DEF ReadFails, ServerKeeps, service, markers, monitor, console, history,
        TypeOK, Path, Verbs
  <2>2. Gated'
    BY <1>6 DEF ReadFails, ServerKeeps, service, markers, monitor, console, history, TypeOK,
        Gated
  <2>3. Counted'
    BY <1>6 DEF ReadFails, ServerKeeps, service, markers, monitor, console, history, TypeOK,
        Counted
  <2>4. Sealed'
    BY <1>6 DEF ReadFails, ServerKeeps, service, markers, monitor, console, history, TypeOK,
        Sealed, Counted, Ended, ToSet
  <2>5. InOrder' /\ Conserved'
    BY <1>6, MarkersStay DEF ReadFails, ServerKeeps, service, markers, monitor, console,
        history
  <2> QED
    BY <2>1, <2>2, <2>3, <2>4, <2>5
<1>7. ASSUME NEW v \in Verbs, ReadRequest(v) PROVE IndInv'
  <2>0. Flags'
    BY <1>7, Zenon DEF ReadRequest, ServerKeeps, service, markers, monitor, console, history,
        TypeOK, Flags
  <2>1. TypeOK'
    BY <1>7, <2>0 DEF ReadRequest, ServerKeeps, service, markers, monitor, console, history,
        TypeOK, Path, Verbs
  <2>2. Gated'
    BY <1>7 DEF ReadRequest, ServerKeeps, service, markers, monitor, console, history, TypeOK,
        Gated
  <2>3. Counted'
    BY <1>7 DEF ReadRequest, ServerKeeps, service, markers, monitor, console, history, TypeOK,
        Counted
  <2>4. Sealed'
    BY <1>7 DEF ReadRequest, ServerKeeps, service, markers, monitor, console, history, TypeOK,
        Sealed, Counted, Ended, ToSet
  <2>5. InOrder' /\ Conserved'
    BY <1>7, MarkersStay DEF ReadRequest, ServerKeeps, service, markers, monitor, console,
        history
  <2> QED
    BY <2>1, <2>2, <2>3, <2>4, <2>5
<1>8. CASE HandleStop
  <2>0. Flags'
    BY <1>8, Zenon DEF HandleStop, markers, monitor, console, ServerUnlessVerb, TypeOK, Flags
  <2>1. TypeOK'
    BY <1>8, <2>0 DEF HandleStop, markers, monitor, console, ServerUnlessVerb, TypeOK, Path,
        Verbs
  <2>2. Gated'
    BY <1>8 DEF HandleStop, markers, monitor, console, ServerUnlessVerb, TypeOK, Gated
  <2>3. Counted'
    BY <1>8 DEF HandleStop, markers, monitor, console, ServerUnlessVerb, TypeOK, Counted
  <2>4. Sealed'
    BY <1>8 DEF HandleStop, markers, monitor, console, ServerUnlessVerb, TypeOK, Sealed,
        Counted, Ended, ToSet
  <2>5. InOrder' /\ Conserved'
    BY <1>8, MarkersStay DEF HandleStop, markers, monitor, console, ServerUnlessVerb
  <2> QED
    BY <2>1, <2>2, <2>3, <2>4, <2>5
<1>9. CASE StopCell
  <2>0. Flags'
    BY <1>9, Zenon DEF StopCell, markers, monitor, console, history, ServerUnlessVerb, TypeOK,
        Flags
  <2>1. TypeOK'
    BY <1>9, <2>0 DEF StopCell, markers, monitor, console, history, ServerUnlessVerb, TypeOK,
        Path, Verbs
  <2>2. Gated'
    BY <1>9 DEF StopCell, markers, monitor, console, history, ServerUnlessVerb, TypeOK, Gated
  <2>3. Counted'
    BY <1>9 DEF StopCell, markers, monitor, console, history, ServerUnlessVerb, TypeOK, Counted
  <2>4. Sealed'
    BY <1>9 DEF StopCell, markers, monitor, console, history, ServerUnlessVerb, TypeOK, Sealed,
        Counted, Ended, ToSet
  <2>5. InOrder' /\ Conserved'
    BY <1>9, MarkersStay DEF StopCell, markers, monitor, console, history, ServerUnlessVerb
  <2> QED
    BY <2>1, <2>2, <2>3, <2>4, <2>5
<1>10. CASE HandlePause
  <2>0. Flags'
    BY <1>10, Zenon DEF HandlePause, markers, monitor, console, history, ServerUnlessVerb,
        TypeOK, Flags
  <2>1. TypeOK'
    BY <1>10, <2>0 DEF HandlePause, markers, monitor, console, history, ServerUnlessVerb,
        TypeOK, Path, Verbs
  <2>2. Gated'
    BY <1>10 DEF HandlePause, markers, monitor, console, history, ServerUnlessVerb, TypeOK,
        Gated
  <2>3. Counted'
    BY <1>10 DEF HandlePause, markers, monitor, console, history, ServerUnlessVerb, TypeOK,
        Counted
  <2>4. Sealed'
    BY <1>10 DEF HandlePause, markers, monitor, console, history, ServerUnlessVerb, TypeOK,
        Sealed, Counted, Ended, ToSet
  <2>5. InOrder' /\ Conserved'
    BY <1>10, MarkersStay DEF HandlePause, markers, monitor, console, history, ServerUnlessVerb
  <2> QED
    BY <2>1, <2>2, <2>3, <2>4, <2>5
<1>11. CASE HandleResume
  <2>0. Flags'
    BY <1>11, Zenon DEF HandleResume, markers, monitor, console, history, ServerUnlessVerb,
        TypeOK, Flags
  <2>1. TypeOK'
    BY <1>11, <2>0 DEF HandleResume, markers, monitor, console, history, ServerUnlessVerb,
        TypeOK, Path, Verbs
  <2>2. Gated'
    BY <1>11 DEF HandleResume, markers, monitor, console, history, ServerUnlessVerb, TypeOK,
        Gated
  <2>3. Counted'
    BY <1>11 DEF HandleResume, markers, monitor, console, history, ServerUnlessVerb, TypeOK,
        Counted
  <2>4. Sealed'
    BY <1>11 DEF HandleResume, markers, monitor, console, history, ServerUnlessVerb, TypeOK,
        Sealed, Counted, Ended, ToSet
  <2>5. InOrder' /\ Conserved'
    BY <1>11, MarkersStay DEF HandleResume, markers, monitor, console, history,
        ServerUnlessVerb
  <2> QED
    BY <2>1, <2>2, <2>3, <2>4, <2>5
<1>12. CASE ResumeCell
  <2>0. Flags'
    BY <1>12, Zenon DEF ResumeCell, markers, monitor, console, ServerUnlessVerb, TypeOK, Flags
  <2>1. TypeOK'
    BY <1>12, <2>0 DEF ResumeCell, markers, monitor, console, ServerUnlessVerb, TypeOK, Path,
        Verbs
  <2>2. Gated'
    BY <1>12 DEF ResumeCell, markers, monitor, console, ServerUnlessVerb, TypeOK, Gated
  <2>3. Counted'
    BY <1>12 DEF ResumeCell, markers, monitor, console, ServerUnlessVerb, TypeOK, Counted
  <2>4. Sealed'
    BY <1>12 DEF ResumeCell, markers, monitor, console, ServerUnlessVerb, TypeOK, Sealed,
        Counted, Ended, ToSet
  <2>5. InOrder' /\ Conserved'
    BY <1>12, MarkersStay DEF ResumeCell, markers, monitor, console, ServerUnlessVerb
  <2> QED
    BY <2>1, <2>2, <2>3, <2>4, <2>5
<1>13. CASE HandleMarker
  <2>0. Flags'
    BY <1>13, Zenon DEF HandleMarker, service, monitor, console, history, TypeOK, Flags
  <2> DEFINE full == Len(queue) >= PendingCap
             rest == IF full THEN Tail(queue) ELSE queue
  <2>a. /\ queue' = Append(rest, served + 1) /\ served' = served + 1
        /\ evicted' = IF full THEN evicted \cup {Head(queue)} ELSE evicted
        /\ served + 1 \in Marks /\ served \in Nat
        /\ UNCHANGED <<session, pending, failed, answered, sealed, main, code>>
    BY <1>13 DEF HandleMarker, monitor, history, TypeOK, Counted, Marks
  <2>b. full => queue # <<>> /\ Head(queue) \in Marks
    BY DEF TypeOK, Marks
  <2>c. rest \in Seq(Marks) /\ Len(rest) < PendingCap
    <3>1. queue \in Seq(Marks) /\ Len(queue) <= PendingCap /\ Len(queue) \in Nat
      BY DEF TypeOK, Marks
    <3>2. CASE full
      <4>1. Tail(queue) \in Seq(Marks) /\ Len(Tail(queue)) = Len(queue) - 1
        BY <2>b, <3>1, <3>2
      <4> QED
        BY <3>1, <3>2, <4>1
    <3>3. CASE ~full
      BY <3>1, <3>3
    <3> QED
      BY <3>2, <3>3
  <2>d. /\ rest \in Seq(Int) /\ Ascending(rest)
        /\ ToSet(rest) \subseteq ToSet(queue)
        /\ full => ToSet(queue) = ToSet(rest) \cup {Head(queue)} /\ Head(queue) \notin ToSet(rest)
        /\ ~full => ToSet(queue) = ToSet(rest)
    <3>1. CASE full
      <4>1. /\ Tail(queue) \in Seq(Int) /\ Ascending(Tail(queue)) /\ Head(queue) \in Int
            /\ ToSet(queue) = {Head(queue)} \cup ToSet(Tail(queue))
            /\ \A y \in ToSet(Tail(queue)) : Head(queue) < y
        BY <2>b, <3>1, Numbers, TailSet, AscendingTail DEF InOrder
      <4>2. rest = Tail(queue)
        BY <3>1
      <4> HIDE DEF rest, full
      <4> QED
        BY <3>1, <4>1, <4>2
    <3>2. CASE ~full
      BY <3>2, Numbers DEF InOrder
    <3> QED
      BY <3>1, <3>2
  <2> HIDE DEF rest, full
  <2>e. ToSet(queue') = ToSet(rest) \cup {served + 1}
    BY <2>a, <2>d, AppendSet
  <2>f. Held \subseteq 1..served
    BY DEF Conserved
  <2>1. TypeOK'
    <3>1. queue' \in Seq(1..MaxMarkers) /\ Len(queue') <= PendingCap
      BY <2>a, <2>c DEF Marks
    <3>2. evicted' \subseteq 1..MaxMarkers
      BY <2>a, <2>b DEF TypeOK, Marks
    <3>3. served' \in 0..MaxMarkers
      BY <2>a DEF Marks
    <3> QED
      BY <1>13, <2>0, <3>1, <3>2, <3>3
      DEF HandleMarker, service, monitor, console, history, TypeOK, Verbs
  <2>2. Gated'
    BY <1>13 DEF HandleMarker, service, monitor, console, history, TypeOK, Gated
  <2>3. Counted'
    BY <1>13 DEF HandleMarker, service, monitor, console, history, TypeOK, Counted
  <2>4. Sealed'
    <3>1. answered' \cup sealed' \subseteq 1..served' /\ served + 1 \notin sealed
      BY <2>a DEF Sealed
    <3> QED
      BY <2>a, <2>d, <2>e, <3>1 DEF Sealed, Ended
  <2>5. InOrder' /\ Conserved'
    <3>1. Ascending(queue')
      <4>1. \A y \in ToSet(rest) \cap Marks : y < served + 1
        BY <2>a, <2>d, <2>f DEF Held
      <4> QED
        BY <2>a, <2>d, <4>1, AscendingAppend
    <3>2. \A x \in InFile \cup ToSet(pending) : x < served + 1
      BY <2>a, <2>f DEF Held
    <3>3. UNCHANGED <<InFile, ToSet(pending), Ascending(session), Ascending(pending)>>
      BY <2>a DEF InFile, ToSet, Ascending, Marks
    <3>4. InOrder'
      BY <2>d, <2>e, <3>1, <3>2, <3>3 DEF InOrder
    <3>5. 1..(served + 1) = (1..served) \cup {served + 1} /\ served + 1 \notin 1..served
      BY <2>a
    <3>6. Conserved'
      <4>1. Held' = InFile \cup ToSet(pending) \cup ToSet(rest) \cup {served + 1}
        BY <2>e, <3>3 DEF Held
      <4>2. CASE full
        <5>1. Head(queue) \notin InFile \cup ToSet(pending)
          BY <2>d, <4>2, Numbers DEF InOrder, InFile, Marks
        <5> QED
          BY <2>a, <2>d, <3>5, <4>1, <4>2, <5>1 DEF Conserved, Held
      <4>3. CASE ~full
        BY <2>a, <2>d, <3>5, <4>1, <4>3 DEF Conserved, Held
      <4> QED
        BY <4>2, <4>3
    <3> QED
      BY <3>4, <3>6
  <2> QED
    BY <2>1, <2>2, <2>3, <2>4, <2>5
<1>14. CASE CountMarker
  <2>0. Flags'
    BY <1>14, Zenon DEF CountMarker, service, monitor, console, history, ServerUnlessVerb,
        TypeOK, Flags
  <2>1. TypeOK'
    BY <1>14, <2>0 DEF CountMarker, service, monitor, console, history, ServerUnlessVerb,
        TypeOK, Counted
  <2>2. Gated'
    BY <1>14 DEF CountMarker, service, monitor, console, history, ServerUnlessVerb, TypeOK,
        Gated
  <2>3. Counted'
    BY <1>14 DEF CountMarker, service, monitor, console, history, ServerUnlessVerb, TypeOK,
        Counted
  <2>4. Sealed'
    BY <1>14 DEF CountMarker, service, monitor, console, history, ServerUnlessVerb, TypeOK,
        Sealed, Counted, Ended, ToSet
  <2>5. InOrder' /\ Conserved'
    BY <1>14, MarkersStay DEF CountMarker, service, monitor, console, history, ServerUnlessVerb
  <2> QED
    BY <2>1, <2>2, <2>3, <2>4, <2>5
<1>15. CASE HandleOther
  <2>0. Flags'
    BY <1>15, Zenon DEF HandleOther, ServerKeeps, service, markers, monitor, console, history,
        ServerUnlessVerb, TypeOK, Flags
  <2>1. TypeOK'
    BY <1>15, <2>0 DEF HandleOther, ServerKeeps, service, markers, monitor, console, history,
        ServerUnlessVerb, TypeOK, Path, Verbs
  <2>2. Gated'
    BY <1>15 DEF HandleOther, ServerKeeps, service, markers, monitor, console, history,
        ServerUnlessVerb, TypeOK, Gated
  <2>3. Counted'
    BY <1>15 DEF HandleOther, ServerKeeps, service, markers, monitor, console, history,
        ServerUnlessVerb, TypeOK, Counted
  <2>4. Sealed'
    BY <1>15 DEF HandleOther, ServerKeeps, service, markers, monitor, console, history,
        ServerUnlessVerb, TypeOK, Sealed, Counted, Ended, ToSet
  <2>5. InOrder' /\ Conserved'
    BY <1>15, MarkersStay DEF HandleOther, ServerKeeps, service, markers, monitor, console,
        history, ServerUnlessVerb
  <2> QED
    BY <2>1, <2>2, <2>3, <2>4, <2>5
<1>16. CASE Reply
  <2>0. Flags'
    BY <1>16, Zenon DEF Reply, ServerKeeps, service, markers, monitor, console, history,
        TypeOK, Flags
  <2>a. answered' \subseteq 1..MaxMarkers
    BY <1>16 DEF Reply, TypeOK, Counted
  <2>1. TypeOK'
    BY <1>16, <2>0, <2>a DEF Reply, ServerKeeps, service, markers, monitor, console, history,
        TypeOK, Verbs
  <2>2. Gated'
    BY <1>16 DEF Reply, ServerKeeps, service, markers, monitor, console, history, TypeOK, Gated
  <2>3. Counted'
    BY <1>16 DEF Reply, ServerKeeps, service, markers, monitor, console, history, TypeOK,
        Counted
  <2>4. Sealed'
    BY <1>16 DEF Reply, ServerKeeps, service, markers, monitor, console, history, TypeOK,
        Sealed, Counted, Ended, ToSet
  <2>5. InOrder' /\ Conserved'
    BY <1>16, MarkersStay DEF Reply, ServerKeeps, service, markers, monitor, console, history
  <2> QED
    BY <2>1, <2>2, <2>3, <2>4, <2>5
<1>17. CASE Ready
  <2>0. Flags'
    BY <1>17, Zenon DEF Ready, MainKeeps, service, markers, pipe, console, history, Step,
        TypeOK, Flags
  <2>1. TypeOK'
    BY <1>17, <2>0 DEF Ready, MainKeeps, service, markers, pipe, console, history, Step,
        TypeOK, Path, Verbs
  <2>2. Gated'
    BY <1>17 DEF Ready, MainKeeps, service, markers, pipe, console, history, Step, TypeOK,
        Gated
  <2>3. Counted'
    BY <1>17 DEF Ready, MainKeeps, service, markers, pipe, console, history, Step, TypeOK,
        Counted
  <2>4. Sealed'
    BY <1>17 DEF Ready, MainKeeps, service, markers, pipe, console, history, Step, TypeOK,
        Sealed, Counted, Ended, ToSet
  <2>5. InOrder' /\ Conserved'
    BY <1>17, MarkersStay DEF Ready, MainKeeps, service, markers, pipe, console, history, Step
  <2> QED
    BY <2>1, <2>2, <2>3, <2>4, <2>5
<1>18. CASE NotReady
  <2>0. Flags'
    BY <1>18, Zenon DEF NotReady, MainKeeps, service, markers, pipe, console, history, Step,
        TypeOK, Flags
  <2>1. TypeOK'
    BY <1>18, <2>0 DEF NotReady, MainKeeps, service, markers, pipe, console, history, Step,
        TypeOK, Path, Verbs
  <2>2. Gated'
    BY <1>18 DEF NotReady, MainKeeps, service, markers, pipe, console, history, Step, TypeOK,
        Gated
  <2>3. Counted'
    BY <1>18 DEF NotReady, MainKeeps, service, markers, pipe, console, history, Step, TypeOK,
        Counted
  <2>4. Sealed'
    BY <1>18 DEF NotReady, MainKeeps, service, markers, pipe, console, history, Step, TypeOK,
        Sealed, Counted, Ended, ToSet
  <2>5. InOrder' /\ Conserved'
    BY <1>18, MarkersStay DEF NotReady, MainKeeps, service, markers, pipe, console, history,
        Step
  <2> QED
    BY <2>1, <2>2, <2>3, <2>4, <2>5
<1>19. CASE CreateSession
  <2>0. Flags'
    BY <1>19, Zenon DEF CreateSession, MainKeeps, service, markers, pipe, console, history,
        TypeOK, Flags
  <2>1. TypeOK'
    BY <1>19, <2>0 DEF CreateSession, MainKeeps, service, markers, pipe, console, history,
        TypeOK, Path, Verbs
  <2>2. Gated'
    BY <1>19 DEF CreateSession, MainKeeps, service, markers, pipe, console, history, TypeOK,
        Gated
  <2>3. Counted'
    BY <1>19 DEF CreateSession, MainKeeps, service, markers, pipe, console, history, TypeOK,
        Counted
  <2>4. Sealed'
    BY <1>19 DEF CreateSession, MainKeeps, service, markers, pipe, console, history, TypeOK,
        Sealed, Counted, Ended, ToSet
  <2>5. InOrder' /\ Conserved'
    BY <1>19, MarkersStay DEF CreateSession, MainKeeps, service, markers, pipe, console,
        history
  <2> QED
    BY <2>1, <2>2, <2>3, <2>4, <2>5
<1>20. CASE PublishPath
  <2>0. Flags'
    BY <1>20, Zenon DEF PublishPath, MainKeeps, service, markers, pipe, console, history, Step,
        TypeOK, Flags
  <2>1. TypeOK'
    BY <1>20, <2>0 DEF PublishPath, MainKeeps, service, markers, pipe, console, history, Step,
        TypeOK, Path, Verbs
  <2>2. Gated'
    BY <1>20 DEF PublishPath, MainKeeps, service, markers, pipe, console, history, Step,
        TypeOK, Gated
  <2>3. Counted'
    BY <1>20 DEF PublishPath, MainKeeps, service, markers, pipe, console, history, Step,
        TypeOK, Counted
  <2>4. Sealed'
    BY <1>20 DEF PublishPath, MainKeeps, service, markers, pipe, console, history, Step,
        TypeOK, Sealed, Counted, Ended, ToSet
  <2>5. InOrder' /\ Conserved'
    BY <1>20, MarkersStay DEF PublishPath, MainKeeps, service, markers, pipe, console, history,
        Step
  <2> QED
    BY <2>1, <2>2, <2>3, <2>4, <2>5
<1>21. CASE WriteHeader
  <2>0. Flags'
    BY <1>21, Zenon DEF WriteHeader, MainKeeps, service, markers, pipe, console, history,
        TypeOK, Flags
  <2>1. TypeOK'
    BY <1>21, <2>0 DEF WriteHeader, MainKeeps, service, markers, pipe, console, history,
        TypeOK, Path, Verbs
  <2>2. Gated'
    BY <1>21 DEF WriteHeader, MainKeeps, service, markers, pipe, console, history, TypeOK,
        Gated
  <2>3. Counted'
    BY <1>21 DEF WriteHeader, MainKeeps, service, markers, pipe, console, history, TypeOK,
        Counted
  <2>4. Sealed'
    BY <1>21 DEF WriteHeader, MainKeeps, service, markers, pipe, console, history, TypeOK,
        Sealed, Counted, Ended, ToSet
  <2>5. InOrder' /\ Conserved'
    BY <1>21, MarkersStay DEF WriteHeader, MainKeeps, service, markers, pipe, console, history
  <2> QED
    BY <2>1, <2>2, <2>3, <2>4, <2>5
<1>22. CASE InstallHandler
  <2>0. Flags'
    BY <1>22, Zenon DEF InstallHandler, MainKeeps, service, markers, pipe, history, Step,
        TypeOK, Flags
  <2>1. TypeOK'
    BY <1>22, <2>0 DEF InstallHandler, MainKeeps, service, markers, pipe, history, Step,
        TypeOK, Path, Verbs
  <2>2. Gated'
    BY <1>22 DEF InstallHandler, MainKeeps, service, markers, pipe, history, Step, TypeOK,
        Gated
  <2>3. Counted'
    BY <1>22 DEF InstallHandler, MainKeeps, service, markers, pipe, history, Step, TypeOK,
        Counted
  <2>4. Sealed'
    BY <1>22 DEF InstallHandler, MainKeeps, service, markers, pipe, history, Step, TypeOK,
        Sealed, Counted, Ended, ToSet
  <2>5. InOrder' /\ Conserved'
    BY <1>22, MarkersStay DEF InstallHandler, MainKeeps, service, markers, pipe, history, Step
  <2> QED
    BY <2>1, <2>2, <2>3, <2>4, <2>5
<1>23. CASE SelectCollectors
  <2>0. Flags'
    BY <1>23, Zenon DEF SelectCollectors, MainKeeps, service, markers, pipe, console, history,
        TypeOK, Flags
  <2>1. TypeOK'
    BY <1>23, <2>0 DEF SelectCollectors, MainKeeps, service, markers, pipe, console, history,
        TypeOK, Path, Verbs
  <2>2. Gated'
    BY <1>23 DEF SelectCollectors, MainKeeps, service, markers, pipe, console, history, TypeOK,
        Gated
  <2>3. Counted'
    BY <1>23 DEF SelectCollectors, MainKeeps, service, markers, pipe, console, history, TypeOK,
        Counted
  <2>4. Sealed'
    BY <1>23 DEF SelectCollectors, MainKeeps, service, markers, pipe, console, history, TypeOK,
        Sealed, Counted, Ended, ToSet
  <2>5. InOrder' /\ Conserved'
    BY <1>23, MarkersStay DEF SelectCollectors, MainKeeps, service, markers, pipe, console,
        history
  <2> QED
    BY <2>1, <2>2, <2>3, <2>4, <2>5
<1>24. CASE DrainMarkers("drain", "write")
  <2>0. Flags'
    BY <1>24, Zenon DEF DrainMarkers, service, pipe, console, history, Step, TypeOK, Flags
  <2>1. TypeOK'
    BY <1>24, <2>0 DEF DrainMarkers, service, pipe, console, history, Step, TypeOK, Path, Verbs
  <2>2. Gated'
    BY <1>24 DEF DrainMarkers, service, pipe, console, history, Step, TypeOK, Gated
  <2>3. Counted'
    BY <1>24 DEF DrainMarkers, service, pipe, console, history, Step, TypeOK, Counted
  <2>4. Sealed'
    BY <1>24 DEF DrainMarkers, service, pipe, console, history, Step, TypeOK, Sealed, Counted,
        Ended, ToSet
  <2>5. InOrder' /\ Conserved'
    <3>1. /\ pending' = pending \o queue /\ queue' = <<>>
          /\ UNCHANGED <<session, evicted, failed, served>>
      BY <1>24 DEF DrainMarkers, pipe
    <3> QED
      BY <3>1, DrainKeeps
  <2> QED
    BY <2>1, <2>2, <2>3, <2>4, <2>5
<1>25. CASE DrainMarkers("finalDrain", "finalWrite")
  <2>0. Flags'
    BY <1>25, Zenon DEF DrainMarkers, service, pipe, console, history, Step, TypeOK, Flags
  <2>1. TypeOK'
    BY <1>25, <2>0 DEF DrainMarkers, service, pipe, console, history, Step, TypeOK, Path, Verbs
  <2>2. Gated'
    BY <1>25 DEF DrainMarkers, service, pipe, console, history, Step, TypeOK, Gated
  <2>3. Counted'
    BY <1>25 DEF DrainMarkers, service, pipe, console, history, Step, TypeOK, Counted
  <2>4. Sealed'
    BY <1>25 DEF DrainMarkers, service, pipe, console, history, Step, TypeOK, Sealed, Counted,
        Ended, ToSet
  <2>5. InOrder' /\ Conserved'
    <3>1. /\ pending' = pending \o queue /\ queue' = <<>>
          /\ UNCHANGED <<session, evicted, failed, served>>
      BY <1>25 DEF DrainMarkers, pipe
    <3> QED
      BY <3>1, DrainKeeps
  <2> QED
    BY <2>1, <2>2, <2>3, <2>4, <2>5
<1>26. CASE WriteMarker
  <2>0. Flags'
    BY <1>26, Zenon DEF WriteMarker, MainKeeps, service, markers, pipe, console, history,
        TypeOK, Flags
  <2> DEFINE h == Head(pending)
  <2>a. /\ pending # <<>> /\ pending' = Tail(pending)
        /\ UNCHANGED <<queue, evicted, served>>
        /\ \/ session' = Append(session, h) /\ failed' = failed
           \/ failed' = failed \cup {h} /\ session' = session
    BY <1>26 DEF WriteMarker, MainKeeps, markers, pipe
  <2>b. /\ pending' \in Seq(Marks) /\ h \in Marks /\ h \in Int
        /\ h \in Footer..MaxMarkers
    BY <2>a DEF TypeOK, Marks, Footer
  <2>c. ToSet(pending) = {h} \cup ToSet(pending') /\ Ascending(pending')
        /\ \A y \in ToSet(pending') : h < y
    BY <2>a, Numbers, TailSet, AscendingTail DEF InOrder
  <2> HIDE DEF h
  <2>d. UNCHANGED <<ToSet(queue), Ascending(queue)>>
    BY <2>a DEF ToSet, Ascending, Marks
  <2>1. TypeOK'
    <3>1. session' \in Seq(Footer..MaxMarkers)
      <4>1. session \in Seq(Footer..MaxMarkers)
        BY DEF TypeOK
      <4>2. Append(session, h) \in Seq(Footer..MaxMarkers)
        BY <2>b, <4>1, AppendProperties
      <4> QED
        BY <2>a, <4>1, <4>2
    <3>2. failed' \subseteq 1..MaxMarkers
      BY <2>a, <2>b DEF TypeOK, Marks
    <3> QED
      BY <1>26, <2>0, <2>b, <3>1, <3>2
      DEF WriteMarker, MainKeeps, service, markers, pipe, console, history, TypeOK, Marks
  <2>2. Gated'
    BY <1>26 DEF WriteMarker, MainKeeps, service, markers, pipe, console, history, TypeOK,
        Gated
  <2>3. Counted'
    BY <1>26 DEF WriteMarker, MainKeeps, service, markers, pipe, console, history, TypeOK,
        Counted
  <2>4. Sealed'
    BY <1>26 DEF WriteMarker, MainKeeps, service, markers, pipe, console, history, TypeOK,
        Sealed, Counted, Ended, ToSet
  <2>5. InOrder' /\ Conserved'
    <3>1. CASE session' = Append(session, h) /\ failed' = failed
      <4>1. InFile' = InFile \cup {h}
        <5>1. ToSet(session') = ToSet(session) \cup {h}
          BY <2>b, <3>1, Numbers, AppendSet
        <5> QED
          BY <2>b, <5>1 DEF InFile, Marks
      <4>2. Ascending(session')
        <5>1. \A y \in ToSet(session) \cap Marks : y < h
          BY <2>c DEF InOrder, InFile
        <5> QED
          BY <2>b, <3>1, <5>1, Numbers, AscendingAppend DEF InOrder
      <4>3. InOrder'
        BY <2>c, <2>d, <4>1, <4>2 DEF InOrder
      <4>4. Conserved'
        BY <2>a, <2>c, <2>d, <3>1, <4>1 DEF Conserved, Held
      <4> QED
        BY <4>3, <4>4
    <3>2. CASE failed' = failed \cup {h} /\ session' = session
      <4>1. UNCHANGED <<InFile, Ascending(session)>>
        BY <3>2 DEF InFile, ToSet, Ascending, Marks
      <4>2. h \notin InFile \cup ToSet(pending') \cup ToSet(queue)
        <5>1. InFile \cup ToSet(pending') \cup ToSet(queue) \subseteq Int
          BY <2>c, Numbers DEF InFile, Marks
        <5>2. h \in ToSet(pending)
          BY <2>c
        <5>3. (\A x \in InFile : x < h) /\ (\A y \in ToSet(queue) : h < y)
          BY <5>2 DEF InOrder
        <5> QED
          BY <2>b, <2>c, <5>1, <5>3
      <4>3. InOrder'
        BY <2>c, <2>d, <4>1 DEF InOrder
      <4>4. Conserved'
        BY <2>a, <2>c, <2>d, <3>2, <4>1, <4>2 DEF Conserved, Held
      <4> QED
        BY <4>3, <4>4
    <3> QED
      BY <2>a, <3>1, <3>2
  <2> QED
    BY <2>1, <2>2, <2>3, <2>4, <2>5
<1>27. CASE CheckStop
  <2>0. Flags'
    BY <1>27, Zenon DEF CheckStop, MainKeeps, service, markers, pipe, console, Leave, TypeOK,
        Flags
  <2>1. TypeOK'
    BY <1>27, <2>0 DEF CheckStop, MainKeeps, service, markers, pipe, console, Leave, TypeOK,
        Path, Verbs
  <2>2. Gated'
    BY <1>27 DEF CheckStop, MainKeeps, service, markers, pipe, console, Leave, TypeOK, Gated
  <2>3. Counted'
    BY <1>27 DEF CheckStop, MainKeeps, service, markers, pipe, console, Leave, TypeOK, Counted
  <2>4. Sealed'
    BY <1>27 DEF CheckStop, MainKeeps, service, markers, pipe, console, Leave, TypeOK, Sealed,
        Counted, Ended, ToSet
  <2>5. InOrder' /\ Conserved'
    BY <1>27, MarkersStay DEF CheckStop, MainKeeps, service, markers, pipe, console, Leave
  <2> QED
    BY <2>1, <2>2, <2>3, <2>4, <2>5
<1>28. CASE CheckServiceStop
  <2>0. Flags'
    BY <1>28, Zenon DEF CheckServiceStop, MainKeeps, service, markers, pipe, console, Leave,
        TypeOK, Flags
  <2>1. TypeOK'
    BY <1>28, <2>0 DEF CheckServiceStop, MainKeeps, service, markers, pipe, console, Leave,
        TypeOK, Path, Verbs
  <2>2. Gated'
    BY <1>28 DEF CheckServiceStop, MainKeeps, service, markers, pipe, console, Leave, TypeOK,
        Gated
  <2>3. Counted'
    BY <1>28 DEF CheckServiceStop, MainKeeps, service, markers, pipe, console, Leave, TypeOK,
        Counted
  <2>4. Sealed'
    BY <1>28 DEF CheckServiceStop, MainKeeps, service, markers, pipe, console, Leave, TypeOK,
        Sealed, Counted, Ended, ToSet
  <2>5. InOrder' /\ Conserved'
    BY <1>28, MarkersStay DEF CheckServiceStop, MainKeeps, service, markers, pipe, console,
        Leave
  <2> QED
    BY <2>1, <2>2, <2>3, <2>4, <2>5
<1>29. CASE ReceiveSample
  <2>0. Flags'
    BY <1>29, Zenon DEF ReceiveSample, MainKeeps, service, markers, pipe, console, history,
        Step, TypeOK, Flags
  <2>1. TypeOK'
    BY <1>29, <2>0 DEF ReceiveSample, MainKeeps, service, markers, pipe, console, history,
        Step, TypeOK, Path, Verbs
  <2>2. Gated'
    BY <1>29 DEF ReceiveSample, MainKeeps, service, markers, pipe, console, history, Step,
        TypeOK, Gated
  <2>3. Counted'
    BY <1>29 DEF ReceiveSample, MainKeeps, service, markers, pipe, console, history, Step,
        TypeOK, Counted
  <2>4. Sealed'
    BY <1>29 DEF ReceiveSample, MainKeeps, service, markers, pipe, console, history, Step,
        TypeOK, Sealed, Counted, Ended, ToSet
  <2>5. InOrder' /\ Conserved'
    BY <1>29, MarkersStay DEF ReceiveSample, MainKeeps, service, markers, pipe, console,
        history, Step
  <2> QED
    BY <2>1, <2>2, <2>3, <2>4, <2>5
<1>30. CASE ReceiveNothing
  <2>0. Flags'
    BY <1>30, Zenon DEF ReceiveNothing, MainKeeps, service, markers, pipe, console, history,
        Step, TypeOK, Flags
  <2>1. TypeOK'
    BY <1>30, <2>0 DEF ReceiveNothing, MainKeeps, service, markers, pipe, console, history,
        Step, TypeOK, Path, Verbs
  <2>2. Gated'
    BY <1>30 DEF ReceiveNothing, MainKeeps, service, markers, pipe, console, history, Step,
        TypeOK, Gated
  <2>3. Counted'
    BY <1>30 DEF ReceiveNothing, MainKeeps, service, markers, pipe, console, history, Step,
        TypeOK, Counted
  <2>4. Sealed'
    BY <1>30 DEF ReceiveNothing, MainKeeps, service, markers, pipe, console, history, Step,
        TypeOK, Sealed, Counted, Ended, ToSet
  <2>5. InOrder' /\ Conserved'
    BY <1>30, MarkersStay DEF ReceiveNothing, MainKeeps, service, markers, pipe, console,
        history, Step
  <2> QED
    BY <2>1, <2>2, <2>3, <2>4, <2>5
<1>31. CASE WorkersGone
  <2>0. Flags'
    BY <1>31, Zenon DEF WorkersGone, MainKeeps, service, markers, pipe, console, Leave, TypeOK,
        Flags
  <2>1. TypeOK'
    BY <1>31, <2>0 DEF WorkersGone, MainKeeps, service, markers, pipe, console, Leave, TypeOK,
        Path, Verbs
  <2>2. Gated'
    BY <1>31 DEF WorkersGone, MainKeeps, service, markers, pipe, console, Leave, TypeOK, Gated
  <2>3. Counted'
    BY <1>31 DEF WorkersGone, MainKeeps, service, markers, pipe, console, Leave, TypeOK,
        Counted
  <2>4. Sealed'
    BY <1>31 DEF WorkersGone, MainKeeps, service, markers, pipe, console, Leave, TypeOK,
        Sealed, Counted, Ended, ToSet
  <2>5. InOrder' /\ Conserved'
    BY <1>31, MarkersStay DEF WorkersGone, MainKeeps, service, markers, pipe, console, Leave
  <2> QED
    BY <2>1, <2>2, <2>3, <2>4, <2>5
<1>32. CASE PauseGate
  <2>0. Flags'
    BY <1>32, Zenon DEF PauseGate, MainKeeps, service, markers, pipe, console, history, Step,
        TypeOK, Flags
  <2>1. TypeOK'
    BY <1>32, <2>0 DEF PauseGate, MainKeeps, service, markers, pipe, console, history, Step,
        TypeOK, Path, Verbs
  <2>2. Gated'
    BY <1>32 DEF PauseGate, MainKeeps, service, markers, pipe, console, history, Step, TypeOK,
        Gated
  <2>3. Counted'
    BY <1>32 DEF PauseGate, MainKeeps, service, markers, pipe, console, history, Step, TypeOK,
        Counted
  <2>4. Sealed'
    BY <1>32 DEF PauseGate, MainKeeps, service, markers, pipe, console, history, Step, TypeOK,
        Sealed, Counted, Ended, ToSet
  <2>5. InOrder' /\ Conserved'
    BY <1>32, MarkersStay DEF PauseGate, MainKeeps, service, markers, pipe, console, history,
        Step
  <2> QED
    BY <2>1, <2>2, <2>3, <2>4, <2>5
<1>33. CASE RecordSample
  <2>0. Flags'
    BY <1>33, Zenon DEF RecordSample, MainKeeps, service, markers, pipe, console, Leave,
        TypeOK, Flags
  <2>a. session' \in Seq(Footer..MaxMarkers) /\ InOrder' /\ Conserved'
    <3>1. UNCHANGED <<pending, queue, evicted, failed, served>>
      BY <1>33 DEF RecordSample, MainKeeps, markers, pipe
    <3>2. CASE session' = Append(session, Sample)
      BY <3>1, <3>2, RecordKeeps
    <3>3. CASE session' = session
      BY <3>1, <3>3, MarkersStay DEF TypeOK
    <3> QED
      BY <1>33, <3>2, <3>3 DEF RecordSample
  <2>1. TypeOK'
    BY <1>33, <2>0, <2>a DEF RecordSample, MainKeeps, service, markers, pipe, console, Leave, TypeOK, Path, Verbs
  <2>2. Gated'
    BY <1>33 DEF RecordSample, MainKeeps, service, markers, pipe, console, Leave, TypeOK, Gated
  <2>3. Counted'
    BY <1>33 DEF RecordSample, MainKeeps, service, markers, pipe, console, Leave, TypeOK,
        Counted
  <2>4. Sealed'
    BY <1>33 DEF RecordSample, MainKeeps, service, markers, pipe, console, Leave, TypeOK,
        Sealed, Counted, Ended, ToSet
  <2>5. InOrder' /\ Conserved'
    BY <2>a
  <2> QED
    BY <2>1, <2>2, <2>3, <2>4, <2>5
<1>34. CASE CheckStopFile
  <2>0. Flags'
    BY <1>34, Zenon DEF CheckStopFile, MainKeeps, service, markers, pipe, console, Leave,
        TypeOK, Flags
  <2>1. TypeOK'
    BY <1>34, <2>0 DEF CheckStopFile, MainKeeps, service, markers, pipe, console, Leave,
        TypeOK, Path, Verbs
  <2>2. Gated'
    BY <1>34 DEF CheckStopFile, MainKeeps, service, markers, pipe, console, Leave, TypeOK,
        Gated
  <2>3. Counted'
    BY <1>34 DEF CheckStopFile, MainKeeps, service, markers, pipe, console, Leave, TypeOK,
        Counted
  <2>4. Sealed'
    BY <1>34 DEF CheckStopFile, MainKeeps, service, markers, pipe, console, Leave, TypeOK,
        Sealed, Counted, Ended, ToSet
  <2>5. InOrder' /\ Conserved'
    BY <1>34, MarkersStay DEF CheckStopFile, MainKeeps, service, markers, pipe, console, Leave
  <2> QED
    BY <2>1, <2>2, <2>3, <2>4, <2>5
<1>35. CASE Shutdown
  <2>0. Flags'
    BY <1>35, Zenon DEF Shutdown, MainKeeps, service, markers, pipe, history, Step, TypeOK,
        Flags
  <2>1. TypeOK'
    BY <1>35, <2>0 DEF Shutdown, MainKeeps, service, markers, pipe, history, Step, TypeOK,
        Path, Verbs
  <2>2. Gated'
    BY <1>35 DEF Shutdown, MainKeeps, service, markers, pipe, history, Step, TypeOK, Gated
  <2>3. Counted'
    BY <1>35 DEF Shutdown, MainKeeps, service, markers, pipe, history, Step, TypeOK, Counted
  <2>4. Sealed'
    BY <1>35 DEF Shutdown, MainKeeps, service, markers, pipe, history, Step, TypeOK, Sealed,
        Counted, Ended, ToSet
  <2>5. InOrder' /\ Conserved'
    BY <1>35, MarkersStay DEF Shutdown, MainKeeps, service, markers, pipe, history, Step
  <2> QED
    BY <2>1, <2>2, <2>3, <2>4, <2>5
<1>36. CASE WriteFooter
  <2>0. Flags'
    BY <1>36, Zenon DEF WriteFooter, MainKeeps, service, markers, pipe, console, history,
        TypeOK, Flags
  <2>a. session' \in Seq(Footer..MaxMarkers) /\ InOrder' /\ Conserved'
    <3>1. UNCHANGED <<pending, queue, evicted, failed, served>>
      BY <1>36 DEF WriteFooter, MainKeeps, markers, pipe
    <3>2. CASE session' = Append(session, Footer)
      BY <3>1, <3>2, RecordKeeps
    <3>3. CASE session' = session
      BY <3>1, <3>3, MarkersStay DEF TypeOK
    <3> QED
      BY <1>36, <3>2, <3>3 DEF WriteFooter
  <2>1. TypeOK'
    BY <1>36, <2>0, <2>a DEF WriteFooter, MainKeeps, service, markers, pipe, console, history, TypeOK, Path, Verbs
  <2>2. Gated'
    BY <1>36 DEF WriteFooter, MainKeeps, service, markers, pipe, console, history, TypeOK,
        Gated
  <2>3. Counted'
    BY <1>36 DEF WriteFooter, MainKeeps, service, markers, pipe, console, history, TypeOK,
        Counted
  <2>4. Sealed'
    BY <1>36 DEF WriteFooter, MainKeeps, service, markers, pipe, console, history, TypeOK,
        Sealed, Counted, Ended, ToSet
  <2>5. InOrder' /\ Conserved'
    BY <2>a
  <2> QED
    BY <2>1, <2>2, <2>3, <2>4, <2>5
<1>37. CASE Unwind
  <2>0. Flags'
    BY <1>37, Zenon DEF Unwind, MainKeeps, service, markers, pipe, history, Step, TypeOK, Flags
  <2>1. TypeOK'
    BY <1>37, <2>0 DEF Unwind, MainKeeps, service, markers, pipe, history, Step, TypeOK, Path,
        Verbs
  <2>2. Gated'
    BY <1>37 DEF Unwind, MainKeeps, service, markers, pipe, history, Step, TypeOK, Gated
  <2>3. Counted'
    BY <1>37 DEF Unwind, MainKeeps, service, markers, pipe, history, Step, TypeOK, Counted
  <2>4. Sealed'
    BY <1>37 DEF Unwind, MainKeeps, service, markers, pipe, history, Step, TypeOK, Sealed,
        Counted, Ended, ToSet
  <2>5. InOrder' /\ Conserved'
    BY <1>37, MarkersStay DEF Unwind, MainKeeps, service, markers, pipe, history, Step
  <2> QED
    BY <2>1, <2>2, <2>3, <2>4, <2>5
<1>38. CASE DropPathGuard
  <2>0. Flags'
    BY <1>38, Zenon DEF DropPathGuard, MainKeeps, service, markers, pipe, console, history,
        Step, TypeOK, Flags
  <2>1. TypeOK'
    BY <1>38, <2>0 DEF DropPathGuard, MainKeeps, service, markers, pipe, console, history,
        Step, TypeOK, Path, Verbs
  <2>2. Gated'
    BY <1>38 DEF DropPathGuard, MainKeeps, service, markers, pipe, console, history, Step,
        TypeOK, Gated
  <2>3. Counted'
    BY <1>38 DEF DropPathGuard, MainKeeps, service, markers, pipe, console, history, Step,
        TypeOK, Counted
  <2>4. Sealed'
    BY <1>38 DEF DropPathGuard, MainKeeps, service, markers, pipe, console, history, Step,
        TypeOK, Sealed, Counted, Ended, ToSet
  <2>5. InOrder' /\ Conserved'
    BY <1>38, MarkersStay DEF DropPathGuard, MainKeeps, service, markers, pipe, console,
        history, Step
  <2> QED
    BY <2>1, <2>2, <2>3, <2>4, <2>5
<1>39. CASE StopService
  <2>0. Flags'
    BY <1>39, Zenon DEF StopService, markers, pipe, console, Step, TypeOK, Flags
  <2>1. TypeOK'
    BY <1>39, <2>0 DEF StopService, markers, pipe, console, Step, TypeOK, Path, Verbs
  <2>2. Gated'
    BY <1>39 DEF StopService, markers, pipe, console, Step, TypeOK, Gated
  <2>3. Counted'
    BY <1>39 DEF StopService, markers, pipe, console, Step, TypeOK, Counted
  <2>4. Sealed'
    BY <1>39 DEF StopService, markers, pipe, console, Step, TypeOK, Sealed, Counted, Ended,
        ToSet
  <2>5. InOrder' /\ Conserved'
    BY <1>39, MarkersStay DEF StopService, markers, pipe, console, Step
  <2> QED
    BY <2>1, <2>2, <2>3, <2>4, <2>5
<1>40. CASE StopServer
  <2>0. Flags'
    BY <1>40, Zenon DEF StopServer, MainKeeps, service, markers, pipe, console, history, Step,
        TypeOK, Flags
  <2>1. TypeOK'
    BY <1>40, <2>0 DEF StopServer, MainKeeps, service, markers, pipe, console, history, Step,
        TypeOK, Path, Verbs
  <2>2. Gated'
    BY <1>40 DEF StopServer, MainKeeps, service, markers, pipe, console, history, Step, TypeOK,
        Gated
  <2>3. Counted'
    BY <1>40 DEF StopServer, MainKeeps, service, markers, pipe, console, history, Step, TypeOK,
        Counted
  <2>4. Sealed'
    BY <1>40 DEF StopServer, MainKeeps, service, markers, pipe, console, history, Step, TypeOK,
        Sealed, Counted, Ended, ToSet
  <2>5. InOrder' /\ Conserved'
    BY <1>40, MarkersStay DEF StopServer, MainKeeps, service, markers, pipe, console, history,
        Step
  <2> QED
    BY <2>1, <2>2, <2>3, <2>4, <2>5
<1>41. CASE JoinServer
  <2>0. Flags'
    BY <1>41, Zenon DEF JoinServer, MainKeeps, service, markers, pipe, console, history, Step,
        TypeOK, Flags
  <2>1. TypeOK'
    BY <1>41, <2>0 DEF JoinServer, MainKeeps, service, markers, pipe, console, history, Step,
        TypeOK, Path, Verbs
  <2>2. Gated'
    BY <1>41 DEF JoinServer, MainKeeps, service, markers, pipe, console, history, Step, TypeOK,
        Gated
  <2>3. Counted'
    BY <1>41 DEF JoinServer, MainKeeps, service, markers, pipe, console, history, Step, TypeOK,
        Counted
  <2>4. Sealed'
    BY <1>41 DEF JoinServer, MainKeeps, service, markers, pipe, console, history, Step, TypeOK,
        Sealed, Counted, Ended, ToSet
  <2>5. InOrder' /\ Conserved'
    BY <1>41, MarkersStay DEF JoinServer, MainKeeps, service, markers, pipe, console, history,
        Step
  <2> QED
    BY <2>1, <2>2, <2>3, <2>4, <2>5
<1>42. CASE HandlerLoads
  <2>0. Flags'
    BY <1>42, Zenon DEF HandlerLoads, ConsoleKeeps, service, markers, monitor, pipe, history,
        TypeOK, Flags
  <2>1. TypeOK'
    BY <1>42, <2>0 DEF HandlerLoads, ConsoleKeeps, service, markers, monitor, pipe, history,
        TypeOK, Path, Verbs
  <2>2. Gated'
    BY <1>42 DEF HandlerLoads, ConsoleKeeps, service, markers, monitor, pipe, history, TypeOK,
        Gated
  <2>3. Counted'
    BY <1>42 DEF HandlerLoads, ConsoleKeeps, service, markers, monitor, pipe, history, TypeOK,
        Counted
  <2>4. Sealed'
    BY <1>42 DEF HandlerLoads, ConsoleKeeps, service, markers, monitor, pipe, history, TypeOK,
        Sealed, Counted, Ended, ToSet
  <2>5. InOrder' /\ Conserved'
    BY <1>42, MarkersStay DEF HandlerLoads, ConsoleKeeps, service, markers, monitor, pipe,
        history
  <2> QED
    BY <2>1, <2>2, <2>3, <2>4, <2>5
<1>43. CASE HandlerStores
  <2>0. Flags'
    BY <1>43, Zenon DEF HandlerStores, ConsoleKeeps, service, markers, monitor, pipe, history,
        TypeOK, Flags
  <2>1. TypeOK'
    BY <1>43, <2>0 DEF HandlerStores, ConsoleKeeps, service, markers, monitor, pipe, history,
        TypeOK, Path, Verbs
  <2>2. Gated'
    BY <1>43 DEF HandlerStores, ConsoleKeeps, service, markers, monitor, pipe, history, TypeOK,
        Gated
  <2>3. Counted'
    BY <1>43 DEF HandlerStores, ConsoleKeeps, service, markers, monitor, pipe, history, TypeOK,
        Counted
  <2>4. Sealed'
    BY <1>43 DEF HandlerStores, ConsoleKeeps, service, markers, monitor, pipe, history, TypeOK,
        Sealed, Counted, Ended, ToSet
  <2>5. InOrder' /\ Conserved'
    BY <1>43, MarkersStay DEF HandlerStores, ConsoleKeeps, service, markers, monitor, pipe,
        history
  <2> QED
    BY <2>1, <2>2, <2>3, <2>4, <2>5
<1>44. CASE Exited
  BY <1>1, <1>44 DEF Exited
<1> QED
  BY <1>1, <1>2, <1>3, <1>4, <1>5, <1>6, <1>7, <1>8, <1>9, <1>10,
     <1>11, <1>12, <1>13, <1>14, <1>15, <1>16, <1>17, <1>18, <1>19, <1>20,
     <1>21, <1>22, <1>23, <1>24, <1>25, <1>26, <1>27, <1>28, <1>29, <1>30,
     <1>31, <1>32, <1>33, <1>34, <1>35, <1>36, <1>37, <1>38, <1>39, <1>40,
     <1>41, <1>42, <1>43, <1>44
  DEF Next, Server, Main

-----------------------------------------------------------------------------
(* The inductive invariant is one.                                          *)
THEOREM Inductive == Spec => []IndInv
  BY InitInd, NextInd, PTL DEF Spec

(* The variables have their types.                                          *)
THEOREM TypeCorrect == Spec => []TypeOK
<1>1. IndInv => TypeOK
  BY DEF IndInv
<1> QED
  BY <1>1, Inductive, PTL

(* After a pause has been answered, at most the sample that was already     *)
(* past the gate is still recorded, until resume or stop.                   *)
THEOREM PausesFreeze == Spec => []PauseFreezes
<1>1. IndInv => PauseFreezes
  BY DEF IndInv, Gated, PauseFreezes
<1> QED
  BY <1>1, Inductive, PTL

(* Every marker the Service has taken is queued, being written, in the file *)
(* or counted as evicted or failed, exactly one of these, and in the order  *)
(* in which it was taken, whatever the capacity of the queue.               *)
THEOREM MarkersAreConserved == Spec => []MarkersConserved
<1>1. IndInv => MarkersConserved
  <2> SUFFICES ASSUME IndInv PROVE MarkersConserved
    OBVIOUS
  <2> USE DEF IndInv
  <2> DEFINE hand == session \o pending
             line == hand \o queue
  <2>1. hand \in Seq(Int) /\ ToSet(hand) = ToSet(session) \cup ToSet(pending)
    BY Numbers, ConcatSet
  <2>2. Ascending(hand)
    BY Numbers, AscendingConcat DEF InOrder, InFile
  <2> HIDE DEF hand
  <2>3. ToSet(line) = ToSet(session) \cup ToSet(pending) \cup ToSet(queue)
    BY <2>1, Numbers, ConcatSet
  <2>4. Ascending(line)
    <3>1. \A x \in ToSet(hand) \cap Marks, y \in ToSet(queue) \cap Marks : x < y
      BY <2>1, Numbers DEF InOrder, InFile
    <3> QED
      BY <2>1, <2>2, <3>1, Numbers, AscendingConcat DEF InOrder
  <2> HIDE DEF line
  <2>5. ToSet(line) \cap Marks = Held
    BY <2>3, Numbers DEF Held, InFile
  <2> QED
    BY <2>4, <2>5 DEF MarkersConserved, Conserved, line, hand
<1> QED
  BY <1>1, Inductive, PTL

(* drain_markers: "a marker queued just before stop is still recorded": one *)
(* that was answered before the loop ended is in the file of a session that *)
(* ended cleanly, or was evicted or could not be written.                   *)
THEOREM AnsweredIsRecorded == Spec => []BeforeStopRecorded
<1>1. IndInv => BeforeStopRecorded
  <2> SUFFICES ASSUME IndInv, code = 0
               PROVE  sealed \subseteq InFile \cup evicted \cup failed
    BY DEF BeforeStopRecorded
  <2>1. ToSet(pending) = {}
    BY EmptySet DEF IndInv, Sealed
  <2> QED
    BY <2>1 DEF IndInv, Sealed, Conserved, Held
<1> QED
  BY <1>1, Inductive, PTL

-----------------------------------------------------------------------------
(* The pipe: one owner of monitoring, a bounded connection and requests     *)
(* handled at most once.                                                    *)


(* The least of two numbers.                                                *)
LEMMA MinOfTwo ==
  ASSUME NEW a \in Int, NEW b \in Int
  PROVE  /\ Min({a, b}) \in {a, b}
         /\ Min({a, b}) <= a /\ Min({a, b}) <= b
<1>1. \E x \in {a, b} : \A y \in {a, b} : x <= y
  OBVIOUS
<1> QED
  BY <1>1 DEF Min

COROLLARY LeastOfTwo ==
  \A a, b \in Int : /\ Min({a, b}) \in Int
                    /\ Min({a, b}) <= a /\ Min({a, b}) <= b
<1> SUFFICES ASSUME NEW a \in Int, NEW b \in Int
             PROVE  Min({a, b}) \in Int /\ Min({a, b}) <= a /\ Min({a, b}) <= b
  OBVIOUS
<1>1. Min({a, b}) \in {a, b} /\ Min({a, b}) <= a /\ Min({a, b}) <= b
  BY MinOfTwo
<1> QED
  BY <1>1

(* The next operation of a connection is given at most what is left of its  *)
(* lifetime; without any left the connection is closed.                     *)
LEMMA BeginFacts ==
  ASSUME NEW s \in Instances, s.age <= Deadline,
         NEW phase \in {"header", "body", "write", "drain"}, NEW need \in Int
  PROVE  /\ Begin(s, phase, need) \in Instances
         /\ Begin(s, phase, need).by = s.by
         /\ Begin(s, phase, need).client = s.client
         /\ Begin(s, phase, need).age = s.age
         /\ \/ Begin(s, phase, need).phase = "close"
            \/ /\ Begin(s, phase, need).phase = phase
               /\ Begin(s, phase, need).wait = 0
               /\ Begin(s, phase, need).limit <= Deadline - s.age
<1>1. Deadline \in Nat
  BY PipeAssumption DEF Deadline
<1>2. remaining_ms(s) \in Int /\ remaining_ms(s) <= Deadline - s.age
  <2>1. Deadline - s.age \in Int /\ IoTimeout \in Int
    BY <1>1, PipeAssumption DEF Instances
  <2> QED
    BY <2>1, LeastOfTwo, Zenon DEF remaining_ms
<1>3. CASE remaining_ms(s) <= 0
  BY <1>3 DEF Begin, Instances, Phases
<1>4. CASE ~(remaining_ms(s) <= 0)
  <2>1. remaining_ms(s) \in Nat
    BY <1>2, <1>4
  <2>2. Begin(s, phase, need) = [s EXCEPT !.phase = phase, !.need = need, !.wait = 0,
                                          !.limit = remaining_ms(s)]
    BY <1>4 DEF Begin
  <2>3. Begin(s, phase, need) \in Instances
    <3>1. \A w, l \in Nat :
            [s EXCEPT !.phase = phase, !.need = need, !.wait = w, !.limit = l] \in Instances
      BY DEF Instances, Phases
    <3>2. 0 \in Nat
      OBVIOUS
    <3> QED
      BY <2>1, <2>2, <3>1, <3>2, Zenon
  <2>4. /\ Begin(s, phase, need).by = s.by
        /\ Begin(s, phase, need).client = s.client
        /\ Begin(s, phase, need).age = s.age
        /\ Begin(s, phase, need).phase = phase
        /\ Begin(s, phase, need).wait = 0
        /\ Begin(s, phase, need).limit = remaining_ms(s)
    BY <2>2 DEF Instances, Phases
  <2> QED
    BY <1>2, <2>3, <2>4
<1> QED
  BY <1>3, <1>4

(* A query that is over, and one whose phase changes, is still a query.     *)
LEMMA OverFacts ==
  ASSUME NEW q \in Queries
  PROVE  /\ Over(q) \in Queries
         /\ Over(q).phase = "done" /\ Over(q).body = q.body /\ Over(q).read = q.read
<1>1. \A a \in Nat, n \in Int : [q EXCEPT !.phase = "done", !.age = a, !.send = n] \in Queries
  BY DEF Queries
<1>2. Over(q) \in Queries
  <2>1. 0 \in Nat /\ 0 \in Int
    OBVIOUS
  <2> QED
    BY <1>1, <2>1, Zenon DEF Over
<1>3. Over(q).phase = "done" /\ Over(q).body = q.body /\ Over(q).read = q.read
  BY DEF Over, Queries
<1> QED
  BY <1>2, <1>3

-----------------------------------------------------------------------------
(* IndInv holds initially and every action preserves it.                    *)

LEMMA PipeInitInd == PipeInit => PipeInv
<1> SUFFICES ASSUME PipeInit PROVE PipeInv
  OBVIOUS
<1>1. PipeTypeOK
  BY DEF PipeInit, PipeTypeOK, NoServer, Instances, Phases, Queries
<1>2. MutexHeld
  BY DEF PipeInit, MutexHeld, Owns
<1>3. WithinLifetime
  BY PipeAssumption DEF PipeInit, WithinLifetime, NoServer, Busy, Deadline
<1>4. OneExchange
  BY DEF PipeInit, OneExchange, NoServer
<1> QED
  BY <1>1, <1>2, <1>3, <1>4 DEF PipeInv

LEMMA PipeNextInd == PipeInv /\ [PipeNext]_pipeVars => PipeInv'
<1> SUFFICES ASSUME PipeInv, [PipeNext]_pipeVars PROVE PipeInv'
  OBVIOUS
<1> USE PipeAssumption
<1> USE DEF PipeInv
<1>1. CASE UNCHANGED pipeVars
  BY <1>1 DEF PipeTypeOK, MutexHeld, Owns, WithinLifetime, Busy, OneExchange, pipeVars
<1>2. ASSUME NEW p \in Procs, Acquire(p) PROVE PipeInv'
  <2>1. PipeTypeOK'
    BY <1>2 DEF Acquire, wire, PipeTypeOK, Instances, Phases
  <2>2. MutexHeld'
    BY <1>2 DEF Acquire, wire, PipeTypeOK, MutexHeld, Owns
  <2>3. WithinLifetime'
    BY <1>2 DEF Acquire, wire, PipeTypeOK, Instances, Phases, WithinLifetime, Deadline, Busy
  <2>4. OneExchange'
    BY <1>2 DEF Acquire, wire, PipeTypeOK, Instances, Phases, Queries, OneExchange
  <2> QED
    BY <2>1, <2>2, <2>3, <2>4
<1>3. ASSUME NEW p \in Procs, Refuse(p) PROVE PipeInv'
  <2>1. PipeTypeOK'
    BY <1>3 DEF Refuse, wire, PipeTypeOK, Instances, Phases
  <2>2. MutexHeld'
    BY <1>3 DEF Refuse, wire, PipeTypeOK, MutexHeld, Owns
  <2>3. WithinLifetime'
    BY <1>3 DEF Refuse, wire, PipeTypeOK, Instances, Phases, WithinLifetime, Deadline, Busy
  <2>4. OneExchange'
    BY <1>3 DEF Refuse, wire, PipeTypeOK, Instances, Phases, Queries, OneExchange
  <2> QED
    BY <2>1, <2>2, <2>3, <2>4
<1>4. ASSUME NEW p \in Procs, StartOnce(p) PROVE PipeInv'
  <2>1. PipeTypeOK'
    BY <1>4 DEF StartOnce, wire, PipeTypeOK, Instances, Phases
  <2>2. MutexHeld'
    BY <1>4 DEF StartOnce, wire, PipeTypeOK, MutexHeld, Owns
  <2>3. WithinLifetime'
    BY <1>4 DEF StartOnce, wire, PipeTypeOK, Instances, Phases, WithinLifetime, Deadline, Busy
  <2>4. OneExchange'
    BY <1>4 DEF StartOnce, wire, PipeTypeOK, Instances, Phases, Queries, OneExchange
  <2> QED
    BY <2>1, <2>2, <2>3, <2>4
<1>5. ASSUME NEW p \in Procs, Exit(p) PROVE PipeInv'
  <2>1. PipeTypeOK'
    BY <1>5 DEF Exit, NoServer, wire, PipeTypeOK, Instances, Phases
  <2>2. MutexHeld'
    BY <1>5 DEF Exit, NoServer, wire, PipeTypeOK, MutexHeld, Owns
  <2>3. WithinLifetime'
    BY <1>5 DEF Exit, NoServer, wire, PipeTypeOK, Instances, Phases, WithinLifetime, Deadline, Busy
  <2>4. OneExchange'
    BY <1>5 DEF Exit, NoServer, wire, PipeTypeOK, Instances, Phases, Queries, OneExchange
  <2> QED
    BY <2>1, <2>2, <2>3, <2>4
<1>6. ASSUME NEW p \in Procs, CreatePipe(p) PROVE PipeInv'
  <2>1. PipeTypeOK'
    <3>1. proc' \in [Procs -> {"off", "owner", "opened", "once", "headless", "exited"}]
      BY <1>6 DEF CreatePipe, PipeTypeOK
    <3>2. srv' \in Instances
      <4>1. CASE srv.by = NoOne
        <5>1. NoServer \in Instances
          BY DEF NoServer, Instances, Phases
        <5>2. [NoServer EXCEPT !.by = p, !.phase = "listen"] \in Instances
          BY <5>1 DEF Instances, Phases
        <5> QED
          BY <1>6, <4>1, <5>2 DEF CreatePipe
      <4>2. CASE srv.by # NoOne
        BY <1>6, <4>2 DEF CreatePipe, PipeTypeOK
      <4> QED
        BY <4>1, <4>2
    <3> QED
      BY <1>6, <3>1, <3>2 DEF CreatePipe, PipeTypeOK
  <2>2. MutexHeld'
    BY <1>6 DEF CreatePipe, Serving, NoServer, PipeTypeOK, MutexHeld, Owns
  <2>3. WithinLifetime'
    <3>1. CASE srv.by = NoOne
      <4>1. srv'.age = 0 /\ srv'.phase = "listen"
        BY <1>6, <3>1 DEF CreatePipe, NoServer
      <4> QED
        BY <4>1 DEF WithinLifetime, Busy, Deadline
    <3>2. CASE srv.by # NoOne
      BY <1>6, <3>2 DEF CreatePipe, WithinLifetime, Busy
    <3> QED
      BY <3>1, <3>2
  <2>4. OneExchange'
    <3>1. CASE srv.by = NoOne
      <4>1. srv'.client = NoOne /\ srv'.phase = "listen" /\ srv'.by # NoOne
        BY <1>6, <3>1 DEF CreatePipe, NoServer
      <4>2. UNCHANGED <<toClient, cl, handled>> /\ toClient = 0
        BY <1>6, <3>1 DEF CreatePipe, OneExchange
      <4> QED
        BY <4>1, <4>2 DEF OneExchange
    <3>2. CASE srv.by # NoOne
      BY <1>6, <3>2 DEF CreatePipe, OneExchange
    <3> QED
      BY <3>1, <3>2
  <2> QED
    BY <2>1, <2>2, <2>3, <2>4
<1>7. CASE AcceptTimeout
  <2>1. PipeTypeOK'
    <3>1. proc' \in [Procs -> {"off", "owner", "opened", "once", "headless", "exited"}]
      BY <1>7 DEF AcceptTimeout, PipeTypeOK
    <3>2. srv' \in Instances
      BY <1>7 DEF AcceptTimeout, NoServer, Instances, Phases
    <3> QED
      BY <1>7, <3>1, <3>2 DEF AcceptTimeout, PipeTypeOK
  <2>2. MutexHeld'
    BY <1>7 DEF AcceptTimeout, NoServer, PipeTypeOK, MutexHeld, Owns
  <2>3. WithinLifetime'
    BY <1>7 DEF AcceptTimeout, NoServer, PipeTypeOK, Instances, Phases, WithinLifetime, Deadline, Busy
  <2>4. OneExchange'
    BY <1>7 DEF AcceptTimeout, NoServer, PipeTypeOK, Instances, Phases, Queries, OneExchange
  <2> QED
    BY <2>1, <2>2, <2>3, <2>4
<1>8. CASE ReadChunk
  <2> DEFINE n == Min({toServer, srv.need})
             left == srv.need - n
             body == cl[srv.client].body
  <2>a. n \in Int /\ left \in Int
    <3>1. toServer \in Int /\ srv.need \in Int
      BY DEF PipeTypeOK, Instances, Phases
    <3>2. n \in Int
      BY <3>1, LeastOfTwo, Zenon
    <3> QED
      BY <3>1, <3>2
  <2>b. srv.client \in Clients /\ body \in Nat
    BY <1>8 DEF ReadChunk, OneExchange, PipeTypeOK, Instances, Phases, Queries
  <2>c. /\ srv' \in Instances /\ srv'.by = srv.by
        /\ srv'.client = srv.client /\ srv'.age = srv.age
        /\ \/ srv'.phase = "close"
           \/ srv'.phase = "handle" /\ (srv.phase = "header" => body <= MaxFrame)
           \/ /\ srv'.phase \in {"header", "body"}
              /\ srv'.wait = 0 /\ srv'.limit <= Deadline - srv.age
              /\ srv'.phase = "header" => srv.phase = "header"
              /\ srv'.phase = "body" /\ srv.phase = "header" => body <= MaxFrame
    <3>1. srv \in Instances /\ srv.age <= Deadline /\ srv.phase \in {"header", "body"}
      BY <1>8 DEF ReadChunk, PipeTypeOK, WithinLifetime
    <3>2. CASE left > 0
      <4>1. srv' = Begin(srv, srv.phase, left)
        BY <1>8, <3>2 DEF ReadChunk
      <4> HIDE DEF left
      <4>2. srv.phase \in {"header", "body", "write", "drain"}
        BY <3>1
      <4> QED
        BY <2>a, <3>1, <4>1, <4>2, BeginFacts
    <3>3. CASE ~(left > 0) /\ srv.phase = "header" /\ body > MaxFrame
      <4>1. srv' = Finish(srv)
        BY <1>8, <3>3 DEF ReadChunk
      <4> QED
        BY <3>1, <4>1 DEF Finish, Instances, Phases
    <3>4. CASE ~(left > 0) /\ srv.phase = "header" /\ body > 0 /\ body <= MaxFrame
      <4>1. srv' = Begin(srv, "body", body)
        BY <1>8, <2>b, <3>4 DEF ReadChunk
      <4> HIDE DEF body
      <4> QED
        BY <2>b, <3>1, <3>4, <4>1, BeginFacts
    <3>5. CASE ~(left > 0) /\ ~(srv.phase = "header" /\ body > 0)
      <4>1. srv' = [srv EXCEPT !.phase = "handle"]
        BY <1>8, <2>b, <3>5 DEF ReadChunk
      <4> QED
        BY <2>b, <3>1, <3>5, <4>1 DEF Instances, Phases
    <3> QED
      BY <2>a, <2>b, <3>1, <3>2, <3>3, <3>4, <3>5
  <2>d. /\ UNCHANGED <<proc, handles, toClient, cl, handled>>
        /\ toServer' \in Int
    BY <1>8, <2>a DEF ReadChunk, PipeTypeOK
  <2> HIDE DEF n, left
  <2>1. PipeTypeOK'
    BY <2>c, <2>d DEF PipeTypeOK
  <2>2. MutexHeld'
    BY <1>8 DEF ReadChunk, PipeTypeOK, MutexHeld, Owns
  <2>3. WithinLifetime'
    BY <2>c DEF PipeTypeOK, Instances, Phases, WithinLifetime, Busy, Deadline
  <2>4. OneExchange'
    BY <1>8, <2>b, <2>c, <2>d DEF ReadChunk, PipeTypeOK, Instances, Phases, OneExchange
  <2> QED
    BY <2>1, <2>2, <2>3, <2>4
<1>9. CASE HandleRequest
  <2>a. /\ srv' \in Instances /\ srv'.by = srv.by
        /\ srv'.client = srv.client /\ srv'.age = srv.age
        /\ \/ srv'.phase = "close"
           \/ srv'.phase = "write" /\ srv'.wait = 0 /\ srv'.limit <= Deadline - srv.age
    <3>1. srv \in Instances /\ srv.age <= Deadline /\ Response \in Int
      BY DEF PipeTypeOK, WithinLifetime
    <3> QED
      BY <1>9, <3>1, BeginFacts DEF HandleRequest
  <2>b. srv.client \in Clients /\ handled[srv.client] = 0
    BY <1>9 DEF HandleRequest, OneExchange, PipeTypeOK, Instances, Phases
  <2>1. PipeTypeOK'
    BY <1>9, <2>a, <2>b DEF HandleRequest, PipeTypeOK
  <2>2. MutexHeld'
    BY <1>9 DEF HandleRequest, PipeTypeOK, MutexHeld, Owns
  <2>3. WithinLifetime'
    BY <2>a DEF PipeTypeOK, Instances, Phases, WithinLifetime, Busy, Deadline
  <2>4. OneExchange'
    BY <1>9, <2>a, <2>b DEF HandleRequest, PipeTypeOK, Instances, Phases, OneExchange
  <2> QED
    BY <2>1, <2>2, <2>3, <2>4
<1>10. CASE WriteChunk
  <2> DEFINE n == Min({Buffer - toClient, srv.need})
  <2>a. n \in Int /\ srv.need - n \in Int /\ toClient + n \in Int
    <3>1. Buffer - toClient \in Int /\ srv.need \in Int
      BY DEF PipeTypeOK, Instances, Phases
    <3>2. n \in Int
      BY <3>1, LeastOfTwo, Zenon
    <3> QED
      BY <3>1, <3>2 DEF PipeTypeOK
  <2>b. /\ srv' \in Instances /\ srv'.by = srv.by
        /\ srv'.client = srv.client /\ srv'.age = srv.age
        /\ \/ srv'.phase = "close"
           \/ /\ srv'.phase \in {"write", "drain"}
              /\ srv'.wait = 0 /\ srv'.limit <= Deadline - srv.age
    <3>1. srv \in Instances /\ srv.age <= Deadline
      BY DEF PipeTypeOK, WithinLifetime
    <3>2. srv' = IF srv.need > n THEN Begin(srv, "write", srv.need - n)
                                 ELSE Begin(srv, "drain", 1)
      BY <1>10 DEF WriteChunk
    <3> HIDE DEF n
    <3> QED
      BY <2>a, <3>1, <3>2, BeginFacts
  <2>c. /\ UNCHANGED <<proc, handles, toServer, cl, handled>>
        /\ toClient' \in Int
    BY <1>10, <2>a DEF WriteChunk, PipeTypeOK
  <2> HIDE DEF n
  <2>d. srv.client \in Clients /\ handled[srv.client] = 1
    BY <1>10 DEF WriteChunk, OneExchange, PipeTypeOK, Instances, Phases
  <2>1. PipeTypeOK'
    BY <2>b, <2>c DEF PipeTypeOK
  <2>2. MutexHeld'
    BY <1>10 DEF WriteChunk, PipeTypeOK, MutexHeld, Owns
  <2>3. WithinLifetime'
    BY <2>b DEF PipeTypeOK, Instances, Phases, WithinLifetime, Busy, Deadline
  <2>4. OneExchange'
    BY <2>b, <2>c, <2>d DEF PipeTypeOK, Instances, Phases, OneExchange
  <2> QED
    BY <2>1, <2>2, <2>3, <2>4
<1>11. CASE PeerClosed
  <2>1. PipeTypeOK'
    BY <1>11 DEF PeerClosed, Finish, PipeTypeOK, Instances, Phases
  <2>2. MutexHeld'
    BY <1>11 DEF PeerClosed, Finish, PipeTypeOK, MutexHeld, Owns
  <2>3. WithinLifetime'
    BY <1>11 DEF PeerClosed, Finish, PipeTypeOK, Instances, Phases, WithinLifetime, Deadline, Busy
  <2>4. OneExchange'
    BY <1>11 DEF PeerClosed, Finish, PipeTypeOK, Instances, Phases, Queries, OneExchange
  <2> QED
    BY <2>1, <2>2, <2>3, <2>4
<1>12. CASE IoTimesOut
  <2>1. PipeTypeOK'
    BY <1>12 DEF IoTimesOut, Finish, PipeTypeOK, Instances, Phases
  <2>2. MutexHeld'
    BY <1>12 DEF IoTimesOut, Finish, PipeTypeOK, MutexHeld, Owns
  <2>3. WithinLifetime'
    BY <1>12 DEF IoTimesOut, Finish, PipeTypeOK, Instances, Phases, WithinLifetime, Deadline, Busy
  <2>4. OneExchange'
    BY <1>12 DEF IoTimesOut, Finish, PipeTypeOK, Instances, Phases, Queries, OneExchange
  <2> QED
    BY <2>1, <2>2, <2>3, <2>4
<1>13. CASE Disconnect
  <2>1. PipeTypeOK'
    <3>1. proc' \in [Procs -> {"off", "owner", "opened", "once", "headless", "exited"}]
      BY <1>13 DEF Disconnect, PipeTypeOK
    <3>2. srv' \in Instances
      BY <1>13 DEF Disconnect, NoServer, Instances, Phases
    <3> QED
      BY <1>13, <3>1, <3>2 DEF Disconnect, PipeTypeOK
  <2>2. MutexHeld'
    BY <1>13 DEF Disconnect, NoServer, PipeTypeOK, MutexHeld, Owns
  <2>3. WithinLifetime'
    BY <1>13 DEF Disconnect, NoServer, PipeTypeOK, Instances, Phases, WithinLifetime, Deadline, Busy
  <2>4. OneExchange'
    BY <1>13 DEF Disconnect, NoServer, PipeTypeOK, Instances, Phases, Queries, OneExchange
  <2> QED
    BY <2>1, <2>2, <2>3, <2>4
<1>14. CASE Tick
  <2>1. PipeTypeOK'
    <3>1. srv' \in Instances
      <4>1. \A a, w \in Nat : [srv EXCEPT !.age = a, !.wait = w] \in Instances
        BY DEF PipeTypeOK, Instances, Phases
      <4>2. srv.age + 1 \in Nat /\ srv.wait + 1 \in Nat
        BY DEF PipeTypeOK, Instances
      <4> QED
        BY <1>14, <4>1, <4>2 DEF Tick, PipeTypeOK
    <3>2. \A c \in Clients : [cl[c] EXCEPT !.age = @ + 1] \in Queries
      BY DEF PipeTypeOK, Queries
    <3>3. cl' \in [Clients -> Queries]
      BY <1>14, <3>2 DEF Tick, PipeTypeOK
    <3> QED
      BY <1>14, <3>1, <3>3 DEF Tick, PipeTypeOK
  <2>2. MutexHeld'
    BY <1>14 DEF Tick, Looking, Busy, PipeTypeOK, MutexHeld, Owns
  <2>3. WithinLifetime'
    BY <1>14 DEF Tick, Looking, Busy, PipeTypeOK, Instances, Phases, WithinLifetime, Deadline
  <2>4. OneExchange'
    BY <1>14 DEF Tick, Looking, Busy, PipeTypeOK, Instances, Phases, Queries, OneExchange
  <2> QED
    BY <2>1, <2>2, <2>3, <2>4
<1>15. ASSUME NEW c \in Clients, StartQuery(c) PROVE PipeInv'
  <2>1. PipeTypeOK'
    <3>1. PICK b \in Bodies : cl' = [cl EXCEPT ![c].phase = "wait", ![c].body = b,
                                              ![c].send = 1 + b]
      BY <1>15 DEF StartQuery
    <3>2. [cl[c] EXCEPT !.phase = "wait", !.body = b, !.send = 1 + b] \in Queries
      <4>1. cl[c] \in Queries /\ b \in Nat /\ 1 + b \in Int
        BY DEF PipeTypeOK
      <4>2. \A n \in Int : [cl[c] EXCEPT !.phase = "wait", !.body = b, !.send = n] \in Queries
        BY <4>1 DEF Queries
      <4> QED
        BY <4>1, <4>2, Zenon
    <3>3. cl' \in [Clients -> Queries]
      BY <3>1, <3>2 DEF PipeTypeOK
    <3> QED
      BY <1>15, <3>3 DEF StartQuery, wire, PipeTypeOK
  <2>2. MutexHeld'
    BY <1>15 DEF StartQuery, wire, PipeTypeOK, MutexHeld, Owns
  <2>3. WithinLifetime'
    BY <1>15 DEF StartQuery, wire, PipeTypeOK, Instances, Phases, WithinLifetime, Deadline, Busy
  <2>4. OneExchange'
    BY <1>15 DEF StartQuery, wire, PipeTypeOK, Instances, Phases, Queries, OneExchange
  <2> QED
    BY <2>1, <2>2, <2>3, <2>4
<1>16. ASSUME NEW c \in Clients, PipeFree(c) PROVE PipeInv'
  <2>1. PipeTypeOK'
    <3>1. [cl[c] EXCEPT !.phase = "open"] \in Queries
      BY DEF PipeTypeOK, Queries
    <3>2. cl' \in [Clients -> Queries]
      BY <1>16, <3>1 DEF PipeFree, PipeTypeOK
    <3> QED
      BY <1>16, <3>2 DEF PipeFree, wire, PipeTypeOK
  <2>2. MutexHeld'
    BY <1>16 DEF PipeFree, wire, PipeTypeOK, MutexHeld, Owns
  <2>3. WithinLifetime'
    BY <1>16 DEF PipeFree, wire, PipeTypeOK, Instances, Phases, WithinLifetime, Deadline, Busy
  <2>4. OneExchange'
    BY <1>16 DEF PipeFree, wire, PipeTypeOK, Instances, Phases, Queries, OneExchange
  <2> QED
    BY <2>1, <2>2, <2>3, <2>4
<1>17. ASSUME NEW c \in Clients, OpenPipe(c) PROVE PipeInv'
  <2>a. /\ srv' \in Instances /\ srv'.by = srv.by
        /\ srv'.client = c /\ srv'.age = 0
        /\ \/ srv'.phase = "close"
           \/ srv'.phase = "header" /\ srv'.wait = 0 /\ srv'.limit <= Deadline
    <3> DEFINE s == [srv EXCEPT !.client = c, !.age = 0]
    <3>1. /\ s \in Instances /\ s.age <= Deadline /\ s.age = 0 /\ s.client = c
          /\ s.by = srv.by
      <4>1. \A a \in Nat : [srv EXCEPT !.client = c, !.age = a] \in Instances
        BY DEF PipeTypeOK, Instances, Phases
      <4>2. 0 \in Nat /\ 0 <= Deadline
        BY DEF Deadline
      <4>3. s \in Instances
        BY <4>1, <4>2, Zenon
      <4>4. s.age = 0 /\ s.client = c /\ s.by = srv.by
        BY DEF PipeTypeOK, Instances
      <4> QED
        BY <4>2, <4>3, <4>4
    <3>2. srv' = Begin(s, "header", 1)
      BY <1>17 DEF OpenPipe
    <3>3. Deadline - 0 = Deadline
      BY DEF Deadline
    <3> HIDE DEF s
    <3> QED
      BY <3>1, <3>2, <3>3, BeginFacts
  <2>1. PipeTypeOK'
    <3>1. [cl[c] EXCEPT !.phase = "sending"] \in Queries
      BY DEF PipeTypeOK, Queries
    <3>2. cl' \in [Clients -> Queries]
      BY <1>17, <3>1 DEF OpenPipe, PipeTypeOK
    <3> QED
      BY <1>17, <2>a, <3>2 DEF OpenPipe, PipeTypeOK
  <2>2. MutexHeld'
    BY <1>17 DEF OpenPipe, PipeTypeOK, MutexHeld, Owns
  <2>3. WithinLifetime'
    BY <2>a DEF Instances, Phases, WithinLifetime, Busy, Deadline
  <2>4. OneExchange'
    BY <1>17, <2>a DEF OpenPipe, PipeTypeOK, Instances, Phases, Queries, OneExchange
  <2> QED
    BY <2>1, <2>2, <2>3, <2>4
<1>18. ASSUME NEW c \in Clients, OpenFails(c) PROVE PipeInv'
  <2>1. PipeTypeOK'
    <3>1. Over(cl[c]) \in Queries /\ [cl[c] EXCEPT !.phase = "wait"] \in Queries
      BY OverFacts DEF PipeTypeOK, Queries
    <3>2. cl' \in [Clients -> Queries]
      BY <1>18, <3>1 DEF OpenFails, PipeTypeOK
    <3> QED
      BY <1>18, <3>2 DEF OpenFails, wire, PipeTypeOK
  <2>2. MutexHeld'
    BY <1>18 DEF OpenFails, Over, wire, PipeTypeOK, MutexHeld, Owns
  <2>3. WithinLifetime'
    BY <1>18 DEF OpenFails, Over, wire, PipeTypeOK, Instances, Phases, WithinLifetime, Deadline, Busy
  <2>4. OneExchange'
    BY <1>18 DEF OpenFails, Over, wire, PipeTypeOK, Instances, Phases, Queries, OneExchange
  <2> QED
    BY <2>1, <2>2, <2>3, <2>4
<1>19. ASSUME NEW c \in Clients, GiveUp(c) PROVE PipeInv'
  <2>1. PipeTypeOK'
    <3>1. Over(cl[c]) \in Queries
      BY OverFacts DEF PipeTypeOK
    <3>2. cl' \in [Clients -> Queries]
      BY <1>19, <3>1 DEF GiveUp, PipeTypeOK
    <3> QED
      BY <1>19, <3>2 DEF GiveUp, wire, PipeTypeOK
  <2>2. MutexHeld'
    BY <1>19 DEF GiveUp, Over, wire, PipeTypeOK, MutexHeld, Owns
  <2>3. WithinLifetime'
    BY <1>19 DEF GiveUp, Over, wire, PipeTypeOK, Instances, Phases, WithinLifetime, Deadline, Busy
  <2>4. OneExchange'
    BY <1>19 DEF GiveUp, Over, wire, PipeTypeOK, Instances, Phases, Queries, OneExchange
  <2> QED
    BY <2>1, <2>2, <2>3, <2>4
<1>20. ASSUME NEW c \in Clients, SendChunk(c) PROVE PipeInv'
  <2>1. PipeTypeOK'
    <3>1. [cl[c] EXCEPT !.send = @ - 1,
                        !.phase = IF cl[c].send = 1 THEN "reading" ELSE @] \in Queries
      <4>1. \A ph \in {"sending", "reading"}, n \in Int :
              [cl[c] EXCEPT !.send = n, !.phase = ph] \in Queries
        BY DEF PipeTypeOK, Queries
      <4>2. cl[c].phase = "sending" /\ cl[c].send - 1 \in Int
        BY <1>20 DEF SendChunk, PipeTypeOK, Queries
      <4> QED
        BY <4>1, <4>2
    <3>2. cl' \in [Clients -> Queries]
      BY <1>20, <3>1 DEF SendChunk, PipeTypeOK
    <3> QED
      BY <1>20, <3>2 DEF SendChunk, PipeTypeOK
  <2>2. MutexHeld'
    BY <1>20 DEF SendChunk, Connected, PipeTypeOK, MutexHeld, Owns
  <2>3. WithinLifetime'
    BY <1>20 DEF SendChunk, Connected, PipeTypeOK, Instances, Phases, WithinLifetime, Deadline, Busy
  <2>4. OneExchange'
    BY <1>20 DEF SendChunk, Connected, PipeTypeOK, Instances, Phases, Queries, OneExchange
  <2> QED
    BY <2>1, <2>2, <2>3, <2>4
<1>21. ASSUME NEW c \in Clients, ReceiveChunk(c) PROVE PipeInv'
  <2>1. PipeTypeOK'
    <3>1. [cl[c] EXCEPT !.read = @ + 1] \in Queries
      BY DEF PipeTypeOK, Queries
    <3>2. Over([cl[c] EXCEPT !.read = @ + 1]) \in Queries
      BY <3>1, OverFacts
    <3>3. cl' \in [Clients -> Queries]
      BY <1>21, <3>1, <3>2 DEF ReceiveChunk, PipeTypeOK
    <3> QED
      BY <1>21, <3>3 DEF ReceiveChunk, PipeTypeOK
  <2>2. MutexHeld'
    BY <1>21 DEF ReceiveChunk, Over, Connected, PipeTypeOK, MutexHeld, Owns
  <2>3. WithinLifetime'
    BY <1>21 DEF ReceiveChunk, Over, Connected, PipeTypeOK, Instances, Phases, WithinLifetime, Deadline, Busy
  <2>4. OneExchange'
    BY <1>21 DEF ReceiveChunk, Over, Connected, PipeTypeOK, Instances, Phases, Queries, OneExchange
  <2> QED
    BY <2>1, <2>2, <2>3, <2>4
<1>22. ASSUME NEW c \in Clients, ConnectionLost(c) PROVE PipeInv'
  <2>1. PipeTypeOK'
    <3>1. Over(cl[c]) \in Queries
      BY OverFacts DEF PipeTypeOK
    <3>2. cl' \in [Clients -> Queries]
      BY <1>22, <3>1 DEF ConnectionLost, PipeTypeOK
    <3> QED
      BY <1>22, <3>2 DEF ConnectionLost, wire, PipeTypeOK
  <2>2. MutexHeld'
    BY <1>22 DEF ConnectionLost, Over, wire, Connected, PipeTypeOK, MutexHeld, Owns
  <2>3. WithinLifetime'
    BY <1>22 DEF ConnectionLost, Over, wire, Connected, PipeTypeOK, Instances, Phases, WithinLifetime, Deadline, Busy
  <2>4. OneExchange'
    BY <1>22 DEF ConnectionLost, Over, wire, Connected, PipeTypeOK, Instances, Phases, Queries, OneExchange
  <2> QED
    BY <2>1, <2>2, <2>3, <2>4
<1>23. ASSUME NEW c \in Clients, ClientKilled(c) PROVE PipeInv'
  <2>1. PipeTypeOK'
    <3>1. Over(cl[c]) \in Queries
      BY OverFacts DEF PipeTypeOK
    <3>2. cl' \in [Clients -> Queries]
      BY <1>23, <3>1 DEF ClientKilled, PipeTypeOK
    <3> QED
      BY <1>23, <3>2 DEF ClientKilled, wire, PipeTypeOK
  <2>2. MutexHeld'
    BY <1>23 DEF ClientKilled, Over, wire, PipeTypeOK, MutexHeld, Owns
  <2>3. WithinLifetime'
    BY <1>23 DEF ClientKilled, Over, wire, PipeTypeOK, Instances, Phases, WithinLifetime, Deadline, Busy
  <2>4. OneExchange'
    BY <1>23 DEF ClientKilled, Over, wire, PipeTypeOK, Instances, Phases, Queries, OneExchange
  <2> QED
    BY <2>1, <2>2, <2>3, <2>4
<1> QED
  BY <1>1, <1>2, <1>3, <1>4, <1>5, <1>6, <1>7, <1>8, <1>9, <1>10, <1>11, <1>12, <1>13, <1>14, <1>15, <1>16, <1>17, <1>18, <1>19, <1>20, <1>21, <1>22, <1>23 DEF PipeNext, Serves, Query

-----------------------------------------------------------------------------
(* The inductive invariant is one.                                          *)
THEOREM PipeInductive == PipeSpec => []PipeInv
  BY PipeInitInd, PipeNextInd, PTL DEF PipeSpec

(* The variables have their types.                                          *)
THEOREM PipeTypeCorrect == PipeSpec => []PipeTypeOK
<1>1. PipeInv => PipeTypeOK
  BY DEF PipeInv
<1> QED
  BY <1>1, PipeInductive, PTL

(* However starts, refusals, exits and crashes overlap, at most one process *)
(* has got past SingleInstance::acquire: the mutex lives as long as any     *)
(* handle of it, that of a refused process included.                        *)
THEOREM AtMostOneOwner == PipeSpec => []OneOwner
<1>1. PipeInv => OneOwner
  <2> SUFFICES ASSUME PipeInv PROVE OneOwner
    OBVIOUS
  <2> DEFINE O == {p \in Procs : proc[p] \in {"owner", "headless"}}
  <2>1. CASE O = {}
    BY <2>1, FS_EmptySet DEF OneOwner
  <2>2. CASE O # {}
    <3>1. PICK p \in Procs : p \in O
      BY <2>2
    <3>2. O = {p}
      BY <3>1 DEF PipeInv, MutexHeld, Owns
    <3> HIDE DEF O
    <3>3. Cardinality(O) = 1
      BY <3>2, FS_Singleton
    <3> QED
      BY <3>3 DEF OneOwner, O
  <2> QED
    BY <2>1, <2>2
<1> QED
  BY <1>1, PipeInductive, PTL

(* However a client spreads its bytes, its connection ends within three     *)
(* per-operation timeouts, whatever their length: remaining_ms gives each   *)
(* operation no more than what is left.                                     *)
THEOREM ConnectionsAreBounded == PipeSpec => []ConnectionBounded
<1>1. PipeInv => ConnectionBounded
  BY DEF PipeInv, WithinLifetime, ConnectionBounded
<1> QED
  BY <1>1, PipeInductive, PTL

(* A request is handled at most once, no response is complete without its   *)
(* request having been handled, and no oversized frame reaches the handler, *)
(* for any frame and pipe sizes.                                            *)
THEOREM RequestsHandledOnce == PipeSpec => []AtMostOnce
<1>1. PipeInv => AtMostOnce
  BY PipeAssumption DEF PipeInv, PipeTypeOK, Queries, OneExchange, AtMostOnce
<1> QED
  BY <1>1, PipeInductive, PTL
=============================================================================
