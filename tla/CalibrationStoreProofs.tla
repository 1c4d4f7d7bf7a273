----------------------- MODULE CalibrationStoreProofs -----------------------
(***************************************************************************)
(* What the calibration store keeps without a lock, for any number of       *)
(* threads, requests, kills and refused operations: every set that can be   *)
(* read has an unbroken audit trail, and one command at a time, whose       *)
(* creates can read the set, loses no revision.                             *)
(* And what the command line's display calibration keeps, for any screens   *)
(* and sweeps: its model is used for the screen it was measured on.         *)
(***************************************************************************)
EXTENDS CalibrationStore, Bench, FiniteSetTheorems, TLAPS

(* The number of a file is never NoFile.                                    *)
LEMMA FilesAreBound == NoFile \notin Files
  BY FS_CardinalityType, ThreadsAssumption DEF NoFile, Files

(* Whole, empty and torn contents are told apart, and a whole one holds its *)
(* document.                                                                *)
LEMMA Contents ==
  /\ Empty.doc # "whole" /\ Torn.doc # "whole"
  /\ \A d : Whole(d).doc = "whole" /\ Whole(d).text = d
  /\ \A d \in Sets : Whole(d) \in [doc : {"whole"}, text : Sets]
  BY DEF Empty, Torn, Whole

(* What is in a sequence.                                                   *)
LEMMA Elements == ASSUME NEW S, NEW q \in Seq(S) PROVE \A i \in DOMAIN q : q[i] \in S
  OBVIOUS

(* The empty set of revisions is a consistent one.                          *)
LEMMA DefaultSetFacts ==
  /\ DefaultSet \in Sets /\ Consistent(DefaultSet) /\ Requests(DefaultSet) = {}
<1>1. DefaultSet \in Sets
  BY DEF DefaultSet, Sets
<1>2. Consistent(DefaultSet)
  BY DEF DefaultSet, Consistent, Numbers
<1>3. Requests(DefaultSet) = {}
  BY DEF DefaultSet, Requests
<1> QED
  BY <1>1, <1>2, <1>3

(* What load_set returns is a consistent set.                               *)
LEMMA LoadIsConsistent ==
  ASSUME TypeOK, CopiesConsistent
  PROVE  load_set \in Sets /\ Consistent(load_set)
<1>1. CASE Readable
  <2>1. target \in Files /\ content[target].doc = "whole"
    BY <1>1 DEF Readable, TypeOK, FilesOK
  <2>2. content[target] \in [doc : {"whole"}, text : Sets]
    BY <2>1, Contents DEF TypeOK
  <2>3. Document \in Sets /\ Consistent(Document)
    BY <2>1, <2>2 DEF CopiesConsistent, Document
  <2> QED
    BY <1>1, <2>3 DEF load_set
<1>2. CASE ~Readable
  BY <1>2, DefaultSetFacts DEF load_set
<1> QED
  BY <1>1, <1>2

(* What a read of load_set leaves: the files as they are, the set it gives   *)
(* consistent, and nothing but the count of refusals changed.               *)
LEMMA LoadedFacts ==
  ASSUME TypeOK, CopiesConsistent, NEW s \in {load_set, DefaultSet}, Loaded(s)
  PROVE  /\ s \in Sets /\ Consistent(s)
         /\ UNCHANGED <<target, tmp, content, handle>>
         /\ failures' \in 0..MaxFailures
         /\ UNCHANGED <<load_set, Stored>>
<1>1. s \in Sets /\ Consistent(s)
  BY LoadIsConsistent, DefaultSetFacts
<1>2. UNCHANGED <<target, tmp, content, handle>> /\ failures' \in 0..MaxFailures
  BY FailuresAssumption DEF Loaded, Refused, fileVars, TypeOK, FilesOK
<1>3. UNCHANGED <<load_set, Stored>>
  BY <1>2 DEF load_set, Readable, Document, Stored, Requests
<1> QED
  BY <1>1, <1>2, <1>3

(* The numbers of a consistent set are 1, 2, ..., and the next one follows. *)
LEMMA NumbersAreConsecutive ==
  ASSUME NEW s \in Sets, Consistent(s)
  PROVE  Numbers(s) = 1..Len(s.revisions) /\ NextRevision(s) = Len(s.revisions) + 1
<1> DEFINE n == Len(s.revisions)
<1>1. s.revisions \in Seq([revision : Nat, request : Nat]) /\ n \in Nat
  BY DEF Sets
<1>2. DOMAIN s.revisions = 1..n
  BY <1>1
<1>3. Numbers(s) = 1..n
  BY <1>2 DEF Numbers, Consistent
<1>4. CASE n = 0
  BY <1>1, <1>3, <1>4 DEF NextRevision
<1>5. CASE n # 0
  <2>1. n \in 1..n /\ \A y \in 1..n : n >= y
    BY <1>1, <1>5
  <2>2. \A x \in 1..n : (\A y \in 1..n : x >= y) => x = n
    BY <1>1, <1>5
  <2>3. Max(1..n) = n
    BY <2>1, <2>2 DEF Max
  <2> QED
    BY <1>3, <2>1, <2>3 DEF NextRevision
<1> QED
  BY <1>3, <1>4, <1>5

(* A new revision of that number keeps the set consistent, and all that was *)
(* in it.                                                                   *)
LEMMA PushKeeps ==
  ASSUME NEW s \in Sets, Consistent(s), NEW q \in Nat
  PROVE  LET new == [s EXCEPT !.revisions =
                       Append(@, [revision |-> NextRevision(s), request |-> q])]
         IN /\ new \in Sets /\ Consistent(new)
            /\ NextRevision(s) \in Numbers(new) /\ NextRevision(s) \in Nat
            /\ Requests(s) \subseteq Requests(new)
<1> DEFINE r == NextRevision(s)
           x == [revision |-> r, request |-> q]
           new == [s EXCEPT !.revisions = Append(@, x)]
           n == Len(s.revisions)
<1>1. r = n + 1 /\ n \in Nat /\ r \in Nat
  BY NumbersAreConsecutive DEF Sets
<1>2. x \in [revision : Nat, request : Nat]
  BY <1>1
<1>3. /\ Append(s.revisions, x) \in Seq([revision : Nat, request : Nat])
      /\ Len(Append(s.revisions, x)) = n + 1
      /\ \A i \in 1..n : Append(s.revisions, x)[i] = s.revisions[i]
      /\ Append(s.revisions, x)[n + 1] = x
  BY <1>1, <1>2 DEF Sets
<1>4. /\ new.revisions = Append(s.revisions, x)
      /\ new.active = s.active /\ new.events = s.events
  BY DEF Sets
<1> HIDE DEF x
<1>5. new \in Sets
  BY <1>3 DEF Sets
<1>6. x.revision = r
  BY DEF x
<1> HIDE DEF r, new
<1>7. DOMAIN new.revisions = 1..(n + 1) /\ DOMAIN s.revisions = 1..n
  BY <1>1, <1>3, <1>4 DEF Sets
<1>8. Numbers(s) \subseteq Numbers(new) /\ r \in Numbers(new)
  BY <1>1, <1>3, <1>4, <1>6, <1>7 DEF Numbers
<1>9. Requests(s) \subseteq Requests(new)
  BY <1>1, <1>3, <1>4, <1>7 DEF Requests
<1>10. Consistent(new)
  <2>1. \A i \in DOMAIN new.revisions : new.revisions[i].revision = i
    BY <1>1, <1>3, <1>4, <1>6, <1>7 DEF Consistent
  <2> QED
    BY <2>1, <1>4, <1>8 DEF Consistent
<1> QED
  BY <1>1, <1>5, <1>8, <1>9, <1>10 DEF new, r, x

(* Activating one of its revisions keeps a set consistent, and all that was *)
(* in it.                                                                   *)
LEMMA ActivateKeeps ==
  ASSUME NEW s \in Sets, Consistent(s), NEW r \in Numbers(s)
  PROVE  /\ Activate(s, r) \in Sets /\ Consistent(Activate(s, r))
         /\ Requests(Activate(s, r)) = Requests(s)
<1> DEFINE x == [id |-> r, previous |-> s.active]
           new == Activate(s, r)
           n == Len(s.events)
<1>1. r \in Nat /\ x \in [id : Nat, previous : Nat] /\ n \in Nat
  <2>1. PICK i \in DOMAIN s.revisions : r = s.revisions[i].revision
    BY DEF Numbers
  <2>2. s.revisions[i] \in [revision : Nat, request : Nat]
    <3>1. s.revisions \in Seq([revision : Nat, request : Nat])
      BY DEF Sets
    <3> QED
      BY <2>1, <3>1, Elements, Zenon
  <2>3. r \in Nat /\ s.active \in Nat /\ n \in Nat
    BY <2>1, <2>2 DEF Sets
  <2> QED
    BY <2>3
<1>2. /\ Append(s.events, x) \in Seq([id : Nat, previous : Nat])
      /\ Len(Append(s.events, x)) = n + 1
      /\ \A i \in 1..n : Append(s.events, x)[i] = s.events[i]
      /\ Append(s.events, x)[n + 1] = x
  BY <1>1 DEF Sets
<1>3. /\ new.revisions = s.revisions /\ new.active = r
      /\ new.events = Append(s.events, x)
  BY DEF Activate, Sets
<1>4. new \in Sets
  BY <1>1, <1>2 DEF Activate, Sets
<1>5. x.previous = s.active /\ x.id = r
  OBVIOUS
<1> HIDE DEF x, new
<1>6. DOMAIN new.events = 1..(n + 1) /\ DOMAIN s.events = 1..n
  BY <1>1, <1>2, <1>3 DEF Sets
<1>7. Requests(new) = Requests(s) /\ Numbers(new) = Numbers(s)
  BY <1>3 DEF Requests, Numbers
<1>8. Consistent(new)
  <2>1. \A i \in DOMAIN new.events :
          new.events[i].previous = IF i = 1 THEN 0 ELSE new.events[i - 1].id
    <3> SUFFICES ASSUME NEW i \in 1..(n + 1)
                 PROVE  new.events[i].previous = IF i = 1 THEN 0 ELSE new.events[i - 1].id
      BY <1>6
    <3>1. CASE i \in 1..n
      <4>1. new.events[i] = s.events[i] /\ (i # 1 => new.events[i - 1] = s.events[i - 1])
        BY <1>1, <1>2, <1>3, <3>1
      <4>2. s.events[i].previous = IF i = 1 THEN 0 ELSE s.events[i - 1].id
        BY <1>6, <3>1 DEF Consistent
      <4> QED
        BY <4>1, <4>2
    <3>2. CASE i = n + 1 /\ n = 0
      <4>1. s.events = <<>> /\ s.active = 0
        BY <3>2 DEF Sets, Consistent
      <4> QED
        BY <1>2, <1>3, <1>5, <3>2, <4>1
    <3>3. CASE i = n + 1 /\ n # 0
      <4>1. s.events # <<>> /\ s.active = s.events[n].id
        BY <1>1, <3>3 DEF Consistent, Last
      <4> QED
        BY <1>1, <1>2, <1>3, <1>5, <3>3, <4>1
    <3> QED
      BY <1>1, <3>1, <3>2, <3>3
  <2>2. new.active = IF new.events = <<>> THEN 0 ELSE Last(new.events).id
    BY <1>1, <1>2, <1>3, <1>5 DEF Last
  <2> QED
    BY <1>3, <1>7, <2>1, <2>2 DEF Consistent
<1> QED
  BY <1>4, <1>7, <1>8 DEF new

-----------------------------------------------------------------------------
(* IndInv holds initially and every action preserves it.                    *)

LEMMA InitInd == Init => IndInv
<1> SUFFICES ASSUME Init PROVE IndInv
  OBVIOUS
<1>1. TypeOK
  <2>1. FilesOK
    BY FailuresAssumption DEF Init, FilesInit, FilesOK
  <2>2. overlapped \in BOOLEAN /\ blinded \in BOOLEAN
    BY Zenon DEF Init
  <2> QED
    BY <2>1, <2>2, DefaultSetFacts, CalibrationAssumption DEF Init, FilesInit, TypeOK
<1>2. CopiesConsistent
  BY Contents, DefaultSetFacts DEF Init, FilesInit, CopiesConsistent
<1>3. ClosedOutsideWrite /\ Solo
  BY DEF Init, FilesInit, ClosedOutsideWrite, Solo
<1> QED
  BY <1>1, <1>2, <1>3 DEF IndInv

(* What begins a command: the copy it works on is consistent, and holds all *)
(* that is stored unless the command was blinded.                           *)
LEMMA BeginKeeps ==
  ASSUME IndInv, NEW t \in Threads, NEW s \in Sets, Consistent(s),
         ~blinded' => ~blinded /\ Stored \subseteq Requests(s), NEW w \in Nat,
         pc[t] = "idle", pc' = [pc EXCEPT ![t] = "open"], Begin(t),
         set' = [set EXCEPT ![t] = s], want' = [want EXCEPT ![t] = w],
         UNCHANGED <<target, tmp, content, handle, crashes, confirmed>>,
         failures' \in 0..MaxFailures, blinded' \in BOOLEAN
  PROVE  IndInv'
<1> USE DEF IndInv
<1>1. overlapped' \in BOOLEAN
  BY Zenon DEF Begin
<1>2. TypeOK'
  BY <1>1, CalibrationAssumption DEF Begin, TypeOK, FilesOK
<1>3. CopiesConsistent'
  BY DEF TypeOK, CopiesConsistent, Consistent, Numbers
<1>4. ClosedOutsideWrite'
  BY DEF TypeOK, ClosedOutsideWrite
<1>5. Solo'
  <2> SUFFICES ASSUME ~overlapped', ~blinded' PROVE Solo'
    BY DEF Solo
  <2>1. ~overlapped /\ ~blinded /\ \A u \in Threads \ {t} : pc[u] = "idle"
    BY DEF Begin
  <2>2. UNCHANGED <<load_set, Stored, confirmed, tmp>>
    BY DEF load_set, Readable, Document, Stored, Requests
  <2>3. /\ confirmed \subseteq Requests(set'[t])
        /\ \A u \in Threads : u # t => pc'[u] = "idle"
        /\ pc'[t] = "open"
    BY <2>1 DEF TypeOK, Solo
  <2> QED
    BY <2>1, <2>2, <2>3 DEF Solo, Requests
<1> QED
  BY <1>2, <1>3, <1>4, <1>5

LEMMA NextInd == IndInv /\ [Next]_vars => IndInv'
<1> SUFFICES ASSUME IndInv, [Next]_vars PROVE IndInv'
  OBVIOUS
<1> USE FilesAreBound, Contents
<1> USE DEF IndInv
<1>1. CASE UNCHANGED vars
  BY <1>1 DEF TypeOK, FilesOK, CopiesConsistent, Consistent, Numbers, ClosedOutsideWrite, Solo,
              Stored, Requests, load_set, Readable, Document, vars, fileVars
<1>2. ASSUME NEW t \in Threads, NEW activate \in BOOLEAN, Create(t, activate) PROVE IndInv'
  <2>0. PICK old \in {load_set, DefaultSet} :
          LET r == NextRevision(old)
              new == [old EXCEPT !.revisions =
                        Append(@, [revision |-> r, request |-> requests + 1])]
          IN /\ Goto(t, "idle", "open")
             /\ Begin(t)
             /\ Loaded(old)
             /\ blinded' = (blinded \/ old # load_set)
             /\ set' = [set EXCEPT ![t] = IF activate THEN Activate(new, r) ELSE new]
             /\ want' = [want EXCEPT ![t] = r]
             /\ UNCHANGED <<crashes, confirmed>>
    BY <1>2, Zenon DEF Create
  <2> DEFINE r == NextRevision(old)
             new == [old EXCEPT !.revisions =
                       Append(@, [revision |-> r, request |-> requests + 1])]
  <2>1. /\ new \in Sets /\ Consistent(new) /\ r \in Numbers(new) /\ r \in Nat
        /\ Requests(old) \subseteq Requests(new)
    <3>1. old \in Sets /\ Consistent(old)
      BY <2>0, LoadedFacts
    <3>2. requests + 1 \in Nat
      BY DEF TypeOK
    <3> QED
      BY <3>1, <3>2, PushKeeps, Zenon
  <2>2. /\ pc[t] = "idle" /\ pc' = [pc EXCEPT ![t] = "open"] /\ Begin(t)
        /\ set' = [set EXCEPT ![t] = IF activate THEN Activate(new, r) ELSE new]
        /\ want' = [want EXCEPT ![t] = r]
        /\ UNCHANGED <<target, tmp, content, handle, crashes, confirmed>>
        /\ failures' \in 0..MaxFailures
    BY <2>0, LoadedFacts DEF Goto
  <2>3. blinded' \in BOOLEAN
    BY <2>0, Zenon
  <2>4. ~blinded' => ~blinded /\ Stored = Requests(old)
    BY <2>0 DEF Stored
  <2> HIDE DEF r, new
  <2>5. CASE activate
    <3>1. /\ Activate(new, r) \in Sets /\ Consistent(Activate(new, r))
          /\ Requests(old) \subseteq Requests(Activate(new, r))
      BY <2>1, ActivateKeeps
    <3> QED
      BY <2>1, <2>2, <2>3, <2>4, <2>5, <3>1, BeginKeeps
  <2>6. CASE ~activate
    BY <2>1, <2>2, <2>3, <2>4, <2>6, BeginKeeps
  <2> QED
    BY <2>5, <2>6
<1>3. ASSUME NEW t \in Threads, NEW r \in 1..MaxRequests, SetActive(t, r) PROVE IndInv'
  <2>0. PICK old \in {load_set, DefaultSet} :
          /\ pc[t] = "idle"
          /\ Begin(t)
          /\ Loaded(old)
          /\ IF r \in Numbers(old)
               THEN /\ pc' = [pc EXCEPT ![t] = "open"]
                    /\ set' = [set EXCEPT ![t] = Activate(old, r)]
                    /\ want' = [want EXCEPT ![t] = r]
               ELSE UNCHANGED <<pc, set, want>>
          /\ UNCHANGED <<crashes, confirmed, blinded>>
    BY <1>3, Zenon DEF SetActive
  <2>1. /\ old \in Sets /\ Consistent(old) /\ failures' \in 0..MaxFailures
        /\ UNCHANGED <<target, tmp, content, handle, load_set, Stored>>
    BY <2>0, LoadedFacts
  <2>2. blinded' \in BOOLEAN
    BY <2>0, Zenon DEF TypeOK
  <2>3. CASE r \in Numbers(old)
    <3>0. old = load_set
      BY <2>3, DefaultSetFacts DEF Numbers, DefaultSet
    <3>1. /\ Activate(old, r) \in Sets /\ Consistent(Activate(old, r))
          /\ Stored \subseteq Requests(Activate(old, r))
      BY <2>1, <2>3, <3>0, ActivateKeeps DEF Stored
    <3>2. r \in Nat
      BY CalibrationAssumption
    <3> QED
      BY <2>0, <2>1, <2>2, <2>3, <3>1, <3>2, BeginKeeps
  <2>4. CASE r \notin Numbers(old)
    <3>1. Begin(t) /\ UNCHANGED <<pc, set, want, crashes, confirmed, blinded>>
      BY <2>0, <2>4
    <3>2. overlapped' \in BOOLEAN
      BY <3>1, Zenon DEF Begin
    <3>3. TypeOK'
      BY <2>1, <2>2, <3>1, <3>2, CalibrationAssumption DEF Begin, TypeOK, FilesOK
    <3>4. CopiesConsistent' /\ ClosedOutsideWrite'
      BY <2>1, <3>1 DEF CopiesConsistent, Consistent, Numbers, ClosedOutsideWrite
    <3>5. Solo'
      <4> SUFFICES ASSUME ~overlapped' PROVE Solo'
        BY DEF Solo
      <4>1. ~overlapped
        BY <3>1 DEF Begin
      <4> QED
        BY <2>1, <3>1, <4>1 DEF Solo, Requests
    <3> QED
      BY <3>3, <3>4, <3>5
  <2> QED
    BY <2>3, <2>4
<1>4. ASSUME NEW t \in Threads, Open(t) PROVE IndInv'
  <2>1. TypeOK'
    BY <1>4 DEF Open, Goto, OpenTmp, Unused, TypeOK, FilesOK
  <2>2. CopiesConsistent'
    BY <1>4 DEF Open, Goto, OpenTmp, Unused, TypeOK, CopiesConsistent, Consistent, Numbers
  <2>3. ClosedOutsideWrite'
    BY <1>4 DEF Open, Goto, OpenTmp, Unused, TypeOK, ClosedOutsideWrite, FilesOK
  <2>4. Solo'
    BY <1>4 DEF Open, Goto, OpenTmp, Unused, TypeOK, Solo, FilesOK, ClosedOutsideWrite, Stored, Requests, load_set, Readable, Document
  <2> QED
    BY <2>1, <2>2, <2>3, <2>4
<1>5. ASSUME NEW t \in Threads, Write(t) PROVE IndInv'
  <2>1. TypeOK'
    BY <1>5 DEF Write, Goto, WriteTmp, TypeOK, FilesOK
  <2>2. CopiesConsistent'
    <3>1. /\ UNCHANGED set
          /\ \A f \in Files : content'[f] \in {content[f], Whole(set[t]), Torn}
      BY <1>5 DEF Write, WriteTmp, TypeOK
    <3> QED
      BY <3>1 DEF CopiesConsistent
  <2>3. ClosedOutsideWrite'
    BY <1>5 DEF Write, Goto, WriteTmp, TypeOK, ClosedOutsideWrite, FilesOK
  <2>4. Solo'
    BY <1>5 DEF Write, Goto, WriteTmp, TypeOK, Solo, FilesOK, ClosedOutsideWrite, Stored, Requests, load_set, Readable, Document
  <2> QED
    BY <2>1, <2>2, <2>3, <2>4
<1>6. ASSUME NEW t \in Threads, Rename(t) PROVE IndInv'
  <2>1. TypeOK'
    BY <1>6 DEF Rename, Goto, CanRename, RenameTmp, TypeOK, FilesOK
  <2>2. CopiesConsistent'
    BY <1>6 DEF Rename, Goto, CanRename, RenameTmp, TypeOK, CopiesConsistent, Consistent, Numbers
  <2>3. ClosedOutsideWrite'
    BY <1>6 DEF Rename, Goto, CanRename, RenameTmp, TypeOK, ClosedOutsideWrite, FilesOK
  <2>4. Solo'
    BY <1>6 DEF Rename, Goto, CanRename, RenameTmp, TypeOK, Solo, FilesOK, ClosedOutsideWrite, Stored, Requests, load_set, Readable, Document
  <2> QED
    BY <2>1, <2>2, <2>3, <2>4
<1>7. ASSUME NEW t \in Threads, SaveFails(t) PROVE IndInv'
  <2>1. TypeOK'
    <3>1. content' \in [Files -> {Empty, Torn} \cup [doc : {"whole"}, text : Sets]]
      BY <1>7 DEF SaveFails, Refused, WriteFails, fileVars, TypeOK
    <3>2. FilesOK'
      BY <1>7, <3>1, FailuresAssumption
      DEF SaveFails, Refused, WriteFails, fileVars, TypeOK, FilesOK
    <3>3. overlapped' \in BOOLEAN /\ blinded' \in BOOLEAN
      BY <1>7, Zenon DEF SaveFails, TypeOK
    <3> QED
      BY <1>7, <3>1, <3>2, <3>3 DEF SaveFails, TypeOK
  <2>2. CopiesConsistent'
    BY <1>7 DEF SaveFails, Refused, WriteFails, CanRename, fileVars, TypeOK, CopiesConsistent, Consistent, Numbers
  <2>3. ClosedOutsideWrite'
    BY <1>7 DEF SaveFails, Refused, WriteFails, CanRename, fileVars, TypeOK, ClosedOutsideWrite, FilesOK
  <2>4. Solo'
    BY <1>7 DEF SaveFails, Refused, WriteFails, CanRename, fileVars, TypeOK, Solo, FilesOK, ClosedOutsideWrite, Stored, Requests, load_set, Readable, Document
  <2> QED
    BY <2>1, <2>2, <2>3, <2>4
<1>8. ASSUME NEW t \in Threads, Get(t) PROVE IndInv'
  <2> DEFINE Mine == {set[t].revisions[i] : i \in DOMAIN set[t].revisions}
             Listed(d) == {d.revisions[i] : i \in DOMAIN d.revisions}
             Shown(d) == {q.request : q \in {r \in Mine \cap Listed(d) : r.revision = want[t]}}
  <2>0. PICK fresh \in {load_set, DefaultSet} :
          Loaded(fresh) /\ confirmed' = confirmed \cup Shown(fresh)
    BY <1>8, Zenon DEF Get
  <2>a. Shown(fresh) \subseteq Requests(fresh)
    BY DEF Requests
  <2>b. Requests(fresh) \subseteq Stored /\ Stored \subseteq Nat
    <3>1. load_set.revisions \in Seq([revision : Nat, request : Nat])
      BY LoadIsConsistent DEF Sets
    <3>2. \A i \in DOMAIN load_set.revisions :
            load_set.revisions[i] \in [revision : Nat, request : Nat]
      BY <3>1, Elements, Zenon
    <3>3. Stored \subseteq Nat
      BY <3>2 DEF Stored, Requests
    <3>4. Requests(fresh) \subseteq Stored
      BY DefaultSetFacts, Zenon DEF Stored
    <3> QED
      BY <3>3, <3>4
  <2> HIDE DEF Shown
  <2>c. /\ failures' \in 0..MaxFailures
        /\ UNCHANGED <<target, tmp, content, handle, load_set, Stored>>
    BY <2>0, LoadedFacts
  <2>d. /\ pc[t] = "get" /\ pc' = [pc EXCEPT ![t] = "idle"]
        /\ UNCHANGED <<set, want, requests, crashes, overlapped, blinded>>
    BY <1>8 DEF Get, Goto
  <2>1. TypeOK'
    <3>1. overlapped' \in BOOLEAN /\ blinded' \in BOOLEAN
      BY <2>d, Zenon DEF TypeOK
    <3>2. confirmed' \subseteq Nat
      BY <2>0, <2>a, <2>b DEF TypeOK
    <3> QED
      BY <2>c, <2>d, <3>1, <3>2 DEF TypeOK, FilesOK
  <2>2. CopiesConsistent'
    BY <2>c, <2>d DEF CopiesConsistent, Consistent, Numbers
  <2>3. ClosedOutsideWrite'
    BY <2>c, <2>d DEF TypeOK, ClosedOutsideWrite
  <2>4. Solo'
    <3> SUFFICES ASSUME ~overlapped, ~blinded PROVE Solo'
      BY <2>d DEF Solo
    <3>1. \A u \in Threads : pc'[u] = "idle"
      BY <2>d DEF TypeOK, Solo
    <3>2. confirmed' \subseteq Stored'
      BY <2>0, <2>a, <2>b, <2>c DEF Solo
    <3> QED
      BY <3>1, <3>2 DEF Solo
  <2> QED
    BY <2>1, <2>2, <2>3, <2>4
<1>9. CASE Kill
  <2>1. TypeOK'
    <3>1. content' \in [Files -> {Empty, Torn} \cup [doc : {"whole"}, text : Sets]]
      BY <1>9 DEF Kill, CloseAll, TornWrite, TypeOK
    <3>2. FilesOK'
      BY <1>9, <3>1 DEF Kill, CloseAll, TornWrite, TypeOK, FilesOK
    <3>3. overlapped' \in BOOLEAN /\ blinded' \in BOOLEAN
      BY <1>9, Zenon DEF Kill, TypeOK
    <3> QED
      BY <1>9, <3>1, <3>2, <3>3, DefaultSetFacts, CalibrationAssumption DEF Kill, TypeOK
  <2>2. CopiesConsistent'
    <3>1. \A f \in Files : content'[f] \in {content[f], Torn}
      BY <1>9 DEF Kill, CloseAll, TornWrite, TypeOK
    <3>2. set' = [t \in Threads |-> DefaultSet]
      BY <1>9 DEF Kill
    <3> QED
      BY <3>1, <3>2, DefaultSetFacts DEF CopiesConsistent
  <2>3. ClosedOutsideWrite'
    BY <1>9 DEF Kill, CloseAll, TornWrite, TypeOK, ClosedOutsideWrite, FilesOK
  <2>4. Solo'
    BY <1>9 DEF Kill, CloseAll, TornWrite, TypeOK, Solo, FilesOK, ClosedOutsideWrite, Stored, Requests, load_set, Readable, Document
  <2> QED
    BY <2>1, <2>2, <2>3, <2>4
<1>10. CASE Done
  BY <1>1, <1>10 DEF Done
<1> QED
  BY <1>1, <1>2, <1>3, <1>4, <1>5, <1>6, <1>7, <1>8, <1>9, <1>10 DEF Next

-----------------------------------------------------------------------------
(* The inductive invariant is one.                                          *)
THEOREM Inductive == Spec => []IndInv
  BY InitInd, NextInd, PTL DEF Spec

(* The variables have their types.                                          *)
THEOREM TypeCorrect == Spec => []TypeOK
<1>1. IndInv => TypeOK
  BY DEF IndInv
<1> QED
  BY <1>1, Inductive, PTL

(* Commands overwrite one another's temporary file and lose one another's   *)
(* changes, but no set that can be read has a gap in its numbering, an      *)
(* active revision it does not hold or a break in its audit trail.          *)
THEOREM TrailsAreUnbroken == Spec => []AuditTrailUnbroken
<1>1. IndInv => AuditTrailUnbroken
  BY LoadIsConsistent DEF IndInv, AuditTrailUnbroken
<1> QED
  BY <1>1, Inductive, PTL

(* Without overlap, and as long as no create is refused the read of the set *)
(* it extends, a confirmed revision is never lost again, whichever other    *)
(* operation fails and wherever the GUI is killed: what save_set renames is *)
(* then a whole set that extends the stored one.                            *)
THEOREM ConfirmedIsKept == Spec => []SoloConfirmedKept
<1>1. IndInv => SoloConfirmedKept
  BY DEF IndInv, Solo, SoloConfirmedKept
<1> QED
  BY <1>1, Inductive, PTL

-----------------------------------------------------------------------------
(* The display calibration of the command line (Bench).                     *)

(* What a report finds to turn brightness into watts is the model there is, *)
(* and it names no other panel than the attached one.                       *)
LEMMA LoadedModel ==
  ASSUME NEW s, display_watts(s) # None
  PROVE  model # None /\ model.panel \in {None, panel}
<1>1. load_display_model_from(model, Machine, panel) # None
  BY DEF display_watts
<1> QED
  BY <1>1 DEF load_display_model_from, identity_mismatch_reason

(* The invariant holds at the first prompt.                                 *)
LEMMA BenchInitially == BenchInit => BenchInv
  BY DEF BenchInit, BenchInv, Idle, Nothing, Legacy, OwnPanelOnly

(* Where nothing is stored or docked, what is printed decides.              *)
LEMMA OnlyPrinted ==
  ASSUME BenchInv, UNCHANGED <<panel, model>>, cmd' = cmd \/ cmd' = Idle, out' # Nothing => cmd' = Idle,
         out'.kind = "report" => out' = out
  PROVE  BenchInv'
  BY DEF BenchInv, OwnPanelOnly, Idle

(* Commands of the shell that leave the panel and its model alone.          *)
LEMMA AnsweredAtOnce ==
  ASSUME BenchInv,
         \/ Back \/ FailBlock \/ FailLevel
         \/ \E f \in DOMAIN Saved, use, save, redact \in BOOLEAN : Diagnose(f, use, save, redact)
         \/ \E f, g \in DOMAIN Saved, redact \in BOOLEAN : Compare(f, g, redact)
         \/ \E f \in DOMAIN Saved, tidy, redact, force \in BOOLEAN : Export(f, tidy, redact, force)
         \/ \E r \in Forms, kind \in {"external_meter", "fitted_against_estimate"},
               p \in Panels \cup {None} : CreateCalibration(r, kind, p)
  PROVE  BenchInv'
<1>1. CASE Back
  BY <1>1, OnlyPrinted DEF Back, Nothing
<1>2. CASE FailBlock
  BY <1>2, OnlyPrinted DEF FailBlock, Exit, Failed
<1>3. CASE FailLevel
  BY <1>3, OnlyPrinted DEF FailLevel, Exit, Failed
<1>4. ASSUME NEW f \in DOMAIN Saved, NEW use \in BOOLEAN, NEW save \in BOOLEAN, NEW redact \in BOOLEAN,
             Diagnose(f, use, save, redact)
      PROVE  BenchInv'
  BY <1>4, OnlyPrinted DEF Diagnose, Give, WriteCut, Failed, Diagnosed
<1>5. ASSUME NEW f \in DOMAIN Saved, NEW g \in DOMAIN Saved, NEW redact \in BOOLEAN, Compare(f, g, redact)
      PROVE  BenchInv'
  BY <1>5, OnlyPrinted DEF Compare, Give, Compared
<1>6. ASSUME NEW f \in DOMAIN Saved, NEW tidy \in BOOLEAN, NEW redact \in BOOLEAN, NEW force \in BOOLEAN,
             Export(f, tidy, redact, force)
      PROVE  BenchInv'
  BY <1>6, OnlyPrinted DEF Export, Give, Failed
<1>7. ASSUME NEW r \in Forms, NEW kind, NEW p \in Panels \cup {None}, CreateCalibration(r, kind, p)
      PROVE  BenchInv'
  BY <1>7, OnlyPrinted DEF CreateCalibration, Give, Failed
<1> QED
  BY <1>1, <1>2, <1>3, <1>4, <1>5, <1>6, <1>7

(* A level read while another screen is attached is not the panel's own, so *)
(* a model that is saved as own names the attached screen.                  *)
LEMMA LevelRecorded ==
  ASSUME BenchInv, NEW how, RecordLevel(how)
  PROVE  BenchInv'
<1> DEFINE b == cmd.levels[Len(cmd.points) + 1]
           s == Level(b, how)
           w == Or(median(idle_subset(s)), median(discharge(s)))
           c == [cmd EXCEPT !.points = Append(@, <<b, w>>), !.own = @ /\ cmd.panel = panel,
                            !.stage = "prompt"]
<1>1. /\ cmd # Idle /\ out = Nothing /\ panel' = panel /\ panel \in Panels
      /\ {"kind", "stage", "own", "panel", "points"} \subseteq DOMAIN cmd
      /\ cmd.kind = "calibrate"
  BY DEF RecordLevel, BenchInv, Idle
<1>2. /\ DOMAIN c = DOMAIN cmd /\ c.kind = cmd.kind /\ c.panel = cmd.panel
      /\ c.own => c.panel \in Panels
  BY <1>1
<1>3. \/ Exit(Failed(2)) /\ UNCHANGED model
      \/ SaveModel(c)
      \/ cmd' = c /\ UNCHANGED <<out, model>>
  BY DEF RecordLevel
<1> HIDE DEF c
<1>4. CASE Exit(Failed(2)) /\ UNCHANGED model
  BY <1>1, <1>4, OnlyPrinted DEF Exit, Failed
<1>5. CASE SaveModel(c)
  <2>1. PICK fit, floor :
          \/ Exit(Failed(2)) /\ UNCHANGED model
          \/ model' = display_model(fit, Machine, c.panel, floor, c.own) /\ Exit([kind |-> "calibrated"])
          \/ model' \in {model, None} /\ out' = Failed(2) /\ cmd' = Idle
    BY <1>5 DEF SaveModel, WriteCut
  <2>2. model' # None /\ model'.own => model'.panel \in Panels
    BY <2>1, <1>2 DEF display_model, BenchInv, Exit
  <2>3. cmd' = Idle /\ out'.kind # "report"
    BY <2>1 DEF Exit, Failed
  <2> QED
    BY <1>1, <2>2, <2>3 DEF BenchInv, OwnPanelOnly, Idle
<1>6. CASE cmd' = c /\ UNCHANGED <<out, model>>
  BY <1>1, <1>2, <1>6 DEF BenchInv, OwnPanelOnly, Nothing
<1> QED
  BY <1>3, <1>4, <1>5, <1>6

(* Every command, and every exchange of the screen, preserves it.           *)
LEMMA BenchStep == BenchInv /\ [BenchNext]_benchVars => BenchInv'
<1> SUFFICES ASSUME BenchInv, [BenchNext]_benchVars PROVE BenchInv'
  OBVIOUS
<1>1. ASSUME NEW x \in Worlds, NEW r \in Repetitions, NEW s \in Settles, StartExperiment(x, r, s)
      PROVE  BenchInv'
  BY <1>1 DEF StartExperiment, Give, BenchInv, OwnPanelOnly, Nothing, Idle
<1>2. CASE Prompt
  <2>1. CASE cmd' = [cmd EXCEPT !.stage = "record"] /\ UNCHANGED out
    BY <1>2, <2>1 DEF Prompt, BenchInv, OwnPanelOnly, Nothing, Idle
  <2>2. CASE Exit(Failed(2))
    BY <1>2, <2>2, OnlyPrinted DEF Prompt, Exit, Failed
  <2> QED
    BY <1>2, <2>1, <2>2 DEF Prompt
<1>3. ASSUME NEW n \in {1, BlockLength}, RecordBlock(n)
      PROVE  BenchInv'
  <2> DEFINE c == [cmd EXCEPT !.k = @ + 1, !.stage = "prompt",
                          !.blocks = Append(@, [tag |-> Tag(cmd.k), k |-> cmd.k, n |-> n])]
  <2>1. /\ cmd # Idle /\ out = Nothing /\ UNCHANGED <<panel, model>>
        /\ {"kind", "stage"} \subseteq DOMAIN cmd /\ cmd.kind = "experiment"
    BY <1>3 DEF RecordBlock, BenchInv, Idle
  <2>2. DOMAIN c = DOMAIN cmd /\ c.kind = cmd.kind
    BY <2>1
  <2>3. \/ cmd' = c /\ UNCHANGED out
        \/ cmd' = Idle /\ out'.kind = "experiment"
    BY <1>3 DEF RecordBlock, Exit
  <2> HIDE DEF c
  <2> QED
    BY <2>1, <2>2, <2>3 DEF BenchInv, OwnPanelOnly, Nothing, Idle
<1>4. ASSUME NEW l \in Sweeps, NEW p \in Panels \cup {None}, StartCalibrate(l, p)
      PROVE  BenchInv'
  BY <1>4 DEF StartCalibrate, Give, BenchInv, OwnPanelOnly, Nothing, Idle
<1>5. CASE Dock
  BY <1>5 DEF Dock, BenchInv, OwnPanelOnly, Nothing
<1>6. ASSUME NEW f \in DOMAIN Saved, NEW redact \in BOOLEAN, Report(f, redact)
      PROVE  BenchInv'
  <2>1. /\ cmd = Idle /\ UNCHANGED <<cmd, panel, model>>
        /\ out'.kind = "report" /\ out'.watts = display_watts(Saved[f])
    BY <1>6 DEF Report, Give
  <2>2. out'.watts # None /\ model.own => model.panel = panel
    BY <2>1, LoadedModel, BenchAssumption DEF BenchInv
  <2> QED
    BY <2>1, <2>2 DEF BenchInv, OwnPanelOnly, Idle
<1>7. CASE UNCHANGED benchVars
  BY <1>7 DEF benchVars, BenchInv, OwnPanelOnly
<1> QED
  BY <1>1, <1>2, <1>3, <1>4, <1>5, <1>6, <1>7, AnsweredAtOnce, LevelRecorded DEF BenchNext

(* Every state of the command line has the fields and the model that its    *)
(* steps rely on (pf-cli main.rs, cmd_calibrate and cmd_report).            *)
THEOREM BenchInvariant == BenchSpec => []BenchInv
  BY BenchInitially, BenchStep, PTL DEF BenchSpec

(* A report turns brightness into watts only with a model whose levels were *)
(* measured on the attached screen, for any screens, sweeps, sessions and   *)
(* commands (load_display_model, identity_mismatch_reason, cmd_calibrate).  *)
THEOREM WattsOfThisScreen == BenchSpec => []OwnPanelOnly
  BY BenchInvariant, PTL DEF BenchInv
=============================================================================
