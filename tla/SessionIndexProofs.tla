------------------------- MODULE SessionIndexProofs -------------------------
(***************************************************************************)
(* Why the session index needs no lock: whoever wrote it, an entry took its *)
(* length before it read the recording, so one whose length is still that   *)
(* of the recording describes all of it, or leaves its counts open, or was  *)
(* counted up to a read error.  For any number of listings, kills, refused  *)
(* operations and any growth.                                               *)
(***************************************************************************)
EXTENDS SessionIndex, FiniteSetTheorems, TLAPS

(* The number of a file is never NoFile.                                    *)
LEMMA FilesAreBound == NoFile \notin Files
  BY FS_CardinalityType, ThreadsAssumption DEF NoFile, Files

(* Whole, empty and torn contents are told apart, and a whole one holds its *)
(* document.                                                                *)
LEMMA Contents ==
  /\ Empty.doc # "whole" /\ Torn.doc # "whole"
  /\ \A d : Whole(d).doc = "whole" /\ Whole(d).text = d
  BY DEF Empty, Torn, Whole

(* No entry is an honest one, and never the current one.                    *)
LEMMA NoEntryFacts ==
  ASSUME TypeOK
  PROVE  NoEntry \in Entries /\ Honest(NoEntry) /\ ~Reusable(NoEntry)
  BY IndexAssumption DEF TypeOK, NoEntry, Entries, Unknown, Honest, Reusable

(* A whole content holds an entry.                                          *)
LEMMA StoredIsEntry ==
  ASSUME TypeOK
  PROVE  \A f \in Files : content[f].doc = "whole" => content[f].text \in Entries
  BY Contents DEF TypeOK

(* What load returns is honest.                                             *)
LEMMA LoadIsHonest ==
  ASSUME TypeOK, StoredHonest
  PROVE  load \in Entries /\ Honest(load)
<1>1. CASE Readable
  <2>1. target \in Files /\ content[target].doc = "whole"
    BY <1>1 DEF Readable, TypeOK, FilesOK
  <2>2. Document \in Entries /\ Honest(Document)
    BY <2>1, Contents DEF TypeOK, StoredHonest, Document
  <2> QED
    BY <1>1, <2>2 DEF load
<1>2. CASE ~Readable
  BY <1>2, NoEntryFacts DEF load
<1> QED
  BY <1>1, <1>2

(* The entry of a listing stays one when a field of it is filled in.        *)
LEMMA EntryFields ==
  ASSUME TypeOK, NEW t \in Threads
  PROVE  LET e == entry[t] IN
         /\ [e EXCEPT !.bytes = bytes] \in Entries
         /\ [e EXCEPT !.tail = bytes] \in Entries
         /\ [e EXCEPT !.scan = bytes] \in Entries
         /\ [e EXCEPT !.mtime = mtime] \in Entries
         /\ \A n \in 0..(bytes - 1) : [e EXCEPT !.scan = n, !.end = "error"] \in Entries
<1> DEFINE e == entry[t]
<1>1. /\ bytes \in Unknown..MaxBytes /\ mtime \in Unknown..MaxClock /\ e \in Entries
      /\ 0..(bytes - 1) \subseteq Unknown..MaxBytes
  BY IndexAssumption DEF TypeOK, Unknown
<1> HIDE DEF e
<1>2. [e EXCEPT !.bytes = bytes] \in Entries
  BY <1>1 DEF Entries
<1>3. [e EXCEPT !.tail = bytes] \in Entries
  BY <1>1 DEF Entries
<1>4. [e EXCEPT !.scan = bytes] \in Entries
  BY <1>1 DEF Entries
<1>5. [e EXCEPT !.mtime = mtime] \in Entries
  BY <1>1 DEF Entries
<1>6. ASSUME NEW n \in 0..(bytes - 1) PROVE [e EXCEPT !.scan = n, !.end = "error"] \in Entries
  BY <1>1 DEF Entries
<1> QED
  BY <1>2, <1>3, <1>4, <1>5, <1>6 DEF e

(* An operation that the system refuses, or one that only reads, leaves the *)
(* files as they are.                                                       *)
LEMMA QuietFiles ==
  ASSUME TypeOK, UNCHANGED fileVars \/ Refused
  PROVE  UNCHANGED <<target, tmp, content, handle>> /\ failures' \in 0..MaxFailures
  BY FailuresAssumption DEF Refused, fileVars, TypeOK, FilesOK

(* An entry which is honest and current describes all of the recording, or  *)
(* leaves its counts open, or has counts that a read error ended.           *)
LEMMA CurrentIsExact ==
  ASSUME TypeOK, NEW e \in Entries, Honest(e), Reusable(e)
  PROVE  e.tail = bytes /\ (e.end = "error" \/ e.scan \in {Unknown, bytes})
  BY DEF TypeOK, Honest, Reusable, Entries

-----------------------------------------------------------------------------
(* IndInv holds initially and every action preserves it.                    *)

LEMMA InitInd == Init => IndInv
<1> SUFFICES ASSUME Init PROVE IndInv
  OBVIOUS
<1>1. NoEntry \in Entries
  BY IndexAssumption DEF NoEntry, Entries, Unknown
<1>2. TypeOK
  <2>1. FilesOK
    BY FailuresAssumption DEF Init, FilesInit, FilesOK
  <2> QED
    BY <1>1, <2>1, IndexAssumption DEF Init, FilesInit, TypeOK
<1>3. StoredHonest
  BY Contents DEF Init, FilesInit, StoredHonest
<1>4. CachedHonest /\ BuiltInOrder /\ ReadSinceBegan
  BY DEF Init, CachedHonest, BuiltInOrder, ReadSinceBegan, Honest, NoEntry, Unknown
<1> QED
  BY <1>2, <1>3, <1>4 DEF IndInv

LEMMA NextInd == IndInv /\ [Next]_vars => IndInv'
<1> SUFFICES ASSUME IndInv, [Next]_vars PROVE IndInv'
  OBVIOUS
<1> USE FilesAreBound, Contents, NoEntryFacts, IndexAssumption
<1> USE DEF IndInv
<1>1. CASE UNCHANGED vars
  BY <1>1 DEF TypeOK, FilesOK, StoredHonest, CachedHonest, BuiltInOrder, ReadSinceBegan,
              Honest, vars, fileVars
<1>2. CASE Append
  <2>1. TypeOK'
    BY <1>2 DEF Append, fileVars, TypeOK, FilesOK
  <2>2. StoredHonest'
    BY <1>2, StoredIsEntry DEF Append, fileVars, TypeOK, StoredHonest, Honest, Entries
  <2>3. CachedHonest'
    BY <1>2 DEF Append, TypeOK, CachedHonest, Honest, Entries
  <2>4. BuiltInOrder'
    BY <1>2 DEF Append, fileVars, TypeOK, BuiltInOrder, Entries
  <2>5. ReadSinceBegan'
    BY <1>2 DEF Append, fileVars, TypeOK, ReadSinceBegan, Entries
  <2> QED
    BY <2>1, <2>2, <2>3, <2>4, <2>5
<1>3. CASE Second
  <2>1. TypeOK'
    BY <1>3 DEF Second, fileVars, TypeOK, FilesOK
  <2>2. StoredHonest'
    BY <1>3 DEF Second, fileVars, TypeOK, StoredHonest, Honest
  <2>3. CachedHonest'
    BY <1>3 DEF Second, fileVars, TypeOK, CachedHonest, Honest
  <2>4. BuiltInOrder'
    BY <1>3 DEF Second, fileVars, TypeOK, BuiltInOrder, Entries
  <2>5. ReadSinceBegan'
    BY <1>3 DEF Second, fileVars, TypeOK, ReadSinceBegan, Entries
  <2> QED
    BY <2>1, <2>2, <2>3, <2>4, <2>5
<1>4. ASSUME NEW t \in Threads, List(t) PROVE IndInv'
  <2>0. UNCHANGED <<target, tmp, content, handle, bytes, mtime, clock>> /\ failures' \in 0..MaxFailures
    BY <1>4, QuietFiles DEF List, recording
  <2>1. TypeOK'
    BY <1>4, <2>0 DEF List, Goto, TypeOK, FilesOK
  <2>2. StoredHonest'
    BY <2>0 DEF StoredHonest, Honest
  <2>3. CachedHonest'
    BY <1>4, <2>0 DEF List, CachedHonest, Honest
  <2>4. BuiltInOrder'
    BY <1>4, <2>0 DEF List, Goto, TypeOK, BuiltInOrder
  <2>5. ReadSinceBegan'
    BY <1>4, <2>0 DEF List, Goto, TypeOK, ReadSinceBegan
  <2> QED
    BY <2>1, <2>2, <2>3, <2>4, <2>5
<1>5. ASSUME NEW t \in Threads, Rebuild(t) PROVE IndInv'
  <2>0. /\ UNCHANGED <<tmp, content, handle, bytes, mtime, clock, cache, entry, crashes>>
        /\ target' \in {target, NoFile} /\ failures' \in 0..MaxFailures
    BY <1>5, FailuresAssumption DEF Rebuild, RemoveTarget, Refused, recording, TypeOK, FilesOK
  <2>1. TypeOK'
    BY <1>5, <2>0 DEF Rebuild, Goto, TypeOK, FilesOK
  <2>2. StoredHonest'
    BY <2>0 DEF StoredHonest, Honest
  <2>3. CachedHonest'
    BY <2>0 DEF CachedHonest, Honest
  <2>4. BuiltInOrder'
    BY <1>5, <2>0 DEF Rebuild, Goto, TypeOK, BuiltInOrder
  <2>5. ReadSinceBegan'
    BY <1>5, <2>0 DEF Rebuild, Goto, TypeOK, ReadSinceBegan
  <2> QED
    BY <2>1, <2>2, <2>3, <2>4, <2>5
<1>19. ASSUME NEW t \in Threads, Load(t) PROVE IndInv'
  <2>0. UNCHANGED <<target, tmp, content, handle, bytes, mtime, clock>> /\ failures' \in 0..MaxFailures
    BY <1>19, QuietFiles DEF Load, recording
  <2>a. PICK e \in Entries : Honest(e) /\ cache' = [cache EXCEPT ![t] = e]
    BY <1>19, LoadIsHonest DEF Load
  <2>1. TypeOK'
    BY <1>19, <2>0, <2>a DEF Load, Goto, TypeOK, FilesOK
  <2>2. StoredHonest'
    BY <2>0 DEF StoredHonest, Honest
  <2>3. CachedHonest'
    BY <2>0, <2>a DEF TypeOK, CachedHonest, Honest
  <2>4. BuiltInOrder'
    BY <1>19, <2>0 DEF Load, Goto, TypeOK, BuiltInOrder
  <2>5. ReadSinceBegan'
    BY <1>19, <2>0 DEF Load, Goto, TypeOK, ReadSinceBegan
  <2> QED
    BY <2>1, <2>2, <2>3, <2>4, <2>5
<1>6. ASSUME NEW t \in Threads, Fingerprint(t) PROVE IndInv'
  <2>0. UNCHANGED <<target, tmp, content, handle, bytes, mtime, clock>> /\ failures' \in 0..MaxFailures
    BY <1>6, QuietFiles DEF Fingerprint, recording
  <2>a. /\ pc[t] = "fingerprint" /\ UNCHANGED <<cache, began, lists, crashes>>
        /\ \/ /\ Reusable(cache[t])
              /\ pc' = [pc EXCEPT ![t] = "return"] /\ entry' = [entry EXCEPT ![t] = cache[t]]
           \/ pc' = [pc EXCEPT ![t] = "open"] /\ entry' = [entry EXCEPT ![t] = NoEntry]
    BY <1>6 DEF Fingerprint, Goto
  <2>b. Reusable(cache[t])
          => /\ cache[t].tail = bytes
             /\ cache[t].end = "error" \/ cache[t].scan \in {Unknown, bytes}
    BY CurrentIsExact DEF TypeOK, CachedHonest
  <2>1. TypeOK'
    BY <2>0, <2>a DEF TypeOK, FilesOK
  <2>2. StoredHonest'
    BY <2>0 DEF StoredHonest, Honest
  <2>3. CachedHonest'
    BY <2>0, <2>a DEF CachedHonest, Honest
  <2>c. CASE Reusable(cache[t]) /\ pc' = [pc EXCEPT ![t] = "return"]
                                /\ entry' = [entry EXCEPT ![t] = cache[t]]
    <3>1. BuiltInOrder'
      <4>1. Honest(cache[t])
        BY DEF CachedHonest
      <4>2. \A u \in Threads \ {t} : entry'[u] = entry[u] /\ pc'[u] = pc[u]
        BY <2>c DEF TypeOK
      <4>3. entry'[t] = cache[t] /\ pc'[t] = "return"
        BY <2>c DEF TypeOK
      <4> QED
        BY <2>0, <4>1, <4>2, <4>3 DEF TypeOK, Entries, Honest, BuiltInOrder
    <3>2. ReadSinceBegan'
      BY <2>0, <2>a, <2>b, <2>c DEF TypeOK, ReadSinceBegan
    <3> QED
      BY <2>1, <2>2, <2>3, <3>1, <3>2
  <2>d. CASE pc' = [pc EXCEPT ![t] = "open"] /\ entry' = [entry EXCEPT ![t] = NoEntry]
    <3>1. BuiltInOrder'
      BY <2>0, <2>a, <2>d DEF TypeOK, BuiltInOrder, NoEntry, Unknown
    <3>2. ReadSinceBegan'
      BY <2>0, <2>a, <2>d DEF TypeOK, ReadSinceBegan
    <3> QED
      BY <2>1, <2>2, <2>3, <3>1, <3>2
  <2> QED
    BY <2>a, <2>c, <2>d
<1>7. ASSUME NEW t \in Threads, TakeLength(t) PROVE IndInv'
  <2>1. TypeOK'
    <3>1. [entry[t] EXCEPT !.bytes = bytes] \in Entries
      BY EntryFields, Zenon
    <3>2. entry' \in [Threads -> Entries]
      BY <1>7, <3>1 DEF TakeLength, TypeOK
    <3> QED
      BY <1>7, <3>2 DEF TakeLength, recording, fileVars, Goto, TypeOK, FilesOK
  <2>2. StoredHonest'
    BY <1>7 DEF TakeLength, recording, fileVars, Goto, TypeOK, StoredHonest, Honest
  <2>3. CachedHonest'
    BY <1>7 DEF TakeLength, recording, fileVars, Goto, TypeOK, CachedHonest, Honest
  <2>4. BuiltInOrder'
    BY <1>7 DEF TakeLength, recording, fileVars, Goto, TypeOK, BuiltInOrder, Entries
  <2>5. ReadSinceBegan'
    BY <1>7 DEF TakeLength, recording, fileVars, Goto, TypeOK, ReadSinceBegan, Entries
  <2> QED
    BY <2>1, <2>2, <2>3, <2>4, <2>5
<1>8. ASSUME NEW t \in Threads, ReadTail(t) PROVE IndInv'
  <2>1. TypeOK'
    <3>1. [entry[t] EXCEPT !.tail = bytes] \in Entries
      BY EntryFields, Zenon
    <3>2. entry' \in [Threads -> Entries]
      BY <1>8, <3>1 DEF ReadTail, TypeOK
    <3> QED
      BY <1>8, <3>2 DEF ReadTail, recording, fileVars, Goto, TypeOK, FilesOK
  <2>2. StoredHonest'
    BY <1>8 DEF ReadTail, recording, fileVars, Goto, TypeOK, StoredHonest, Honest
  <2>3. CachedHonest'
    BY <1>8 DEF ReadTail, recording, fileVars, Goto, TypeOK, CachedHonest, Honest
  <2>4. BuiltInOrder'
    BY <1>8 DEF ReadTail, recording, fileVars, Goto, TypeOK, BuiltInOrder, Entries
  <2>5. ReadSinceBegan'
    BY <1>8 DEF ReadTail, recording, fileVars, Goto, TypeOK, ReadSinceBegan, Entries
  <2> QED
    BY <2>1, <2>2, <2>3, <2>4, <2>5
<1>9. ASSUME NEW t \in Threads, TakeMtime(t) PROVE IndInv'
  <2>0. UNCHANGED <<target, tmp, content, handle, bytes, mtime, clock>> /\ failures' \in 0..MaxFailures
    BY <1>9, QuietFiles DEF TakeMtime, recording
  <2>a. entry' \in {entry, [entry EXCEPT ![t].mtime = mtime]} /\ UNCHANGED <<cache, began, lists, crashes>>
    BY <1>9 DEF TakeMtime
  <2>1. TypeOK'
    <3>1. [entry[t] EXCEPT !.mtime = mtime] \in Entries
      BY EntryFields, Zenon
    <3>2. entry' \in [Threads -> Entries]
      BY <2>a, <3>1 DEF TypeOK
    <3> QED
      BY <1>9, <2>0, <2>a, <3>2 DEF TakeMtime, Goto, TypeOK, FilesOK
  <2>2. StoredHonest'
    BY <2>0 DEF StoredHonest, Honest
  <2>3. CachedHonest'
    BY <2>0, <2>a DEF CachedHonest, Honest
  <2>4. BuiltInOrder'
    BY <1>9, <2>0, <2>a DEF TakeMtime, Goto, TypeOK, BuiltInOrder, Entries
  <2>5. ReadSinceBegan'
    BY <1>9, <2>0, <2>a DEF TakeMtime, Goto, TypeOK, ReadSinceBegan, Entries
  <2> QED
    BY <2>1, <2>2, <2>3, <2>4, <2>5
<1>10. ASSUME NEW t \in Threads, Scan(t) PROVE IndInv'
  <2>0. UNCHANGED <<target, tmp, content, handle, bytes, mtime, clock>> /\ failures' \in 0..MaxFailures
    BY <1>10, QuietFiles DEF Scan, recording
  <2>a. /\ pc[t] = "scan" /\ pc' = [pc EXCEPT ![t] = "save"] /\ UNCHANGED <<cache, began, lists, crashes>>
        /\ \/ entry' = [entry EXCEPT ![t].scan = bytes]
           \/ \E read \in 0..(bytes - 1) :
                entry' = [entry EXCEPT ![t].scan = read, ![t].end = "error"]
           \/ UNCHANGED entry
    BY <1>10 DEF Scan, Goto
  <2>b. /\ entry' \in [Threads -> Entries]
        /\ \A u \in Threads \ {t} : entry'[u] = entry[u]
        /\ entry'[t].bytes = entry[t].bytes /\ entry'[t].tail = entry[t].tail
        /\ \/ entry'[t].scan \in {Unknown, bytes}
           \/ entry'[t].end = "error" /\ entry'[t].scan \in 0..(bytes - 1)
    <3>1. CASE entry' = [entry EXCEPT ![t].scan = bytes]
      <4>1. [entry[t] EXCEPT !.scan = bytes] \in Entries
        BY EntryFields, Zenon
      <4> QED
        BY <3>1, <4>1 DEF TypeOK, Entries
    <3>2. ASSUME NEW read \in 0..(bytes - 1),
                 entry' = [entry EXCEPT ![t].scan = read, ![t].end = "error"]
          PROVE  /\ entry' \in [Threads -> Entries]
                 /\ \A u \in Threads \ {t} : entry'[u] = entry[u]
                 /\ entry'[t].bytes = entry[t].bytes /\ entry'[t].tail = entry[t].tail
                 /\ entry'[t].end = "error" /\ entry'[t].scan \in 0..(bytes - 1)
      <4>1. [entry[t] EXCEPT !.scan = read, !.end = "error"] \in Entries
        BY <3>2, EntryFields
      <4> QED
        BY <3>2, <4>1 DEF TypeOK, Entries
    <3>3. CASE UNCHANGED entry
      BY <2>a, <3>3 DEF TypeOK, BuiltInOrder
    <3> QED
      BY <2>a, <3>1, <3>2, <3>3
  <2>c. /\ \A u \in Threads \ {t} : pc'[u] = pc[u]
        /\ pc'[t] = "save"
    BY <2>a DEF TypeOK
  <2>d. bytes \in Nat /\ entry[t].bytes <= bytes /\ entry[t].tail <= bytes /\ entry[t].tail >= began[t]
        /\ entry[t].bytes <= entry[t].tail /\ began[t] <= bytes /\ began[t] \in Nat
    BY <2>a DEF TypeOK, BuiltInOrder, ReadSinceBegan
  <2>1. TypeOK'
    BY <2>0, <2>a, <2>b DEF TypeOK, FilesOK
  <2>2. StoredHonest'
    BY <2>0 DEF StoredHonest, Honest
  <2>3. CachedHonest'
    BY <2>0, <2>a DEF CachedHonest, Honest
  <2>4. BuiltInOrder'
    <3>1. \A u \in Threads \ {t} : entry'[u] = entry[u] /\ pc'[u] = pc[u]
      BY <2>b, <2>c
    <3> QED
      BY <2>0, <2>b, <2>c, <2>d, <3>1 DEF BuiltInOrder, Unknown
  <2>5. ReadSinceBegan'
    BY <2>0, <2>a, <2>b, <2>c, <2>d DEF ReadSinceBegan
  <2> QED
    BY <2>1, <2>2, <2>3, <2>4, <2>5
<1>11. ASSUME NEW t \in Threads, Unreadable(t) PROVE IndInv'
  <2>1. TypeOK'
    BY <1>11 DEF Unreadable, recording, fileVars, Goto, TypeOK, FilesOK
  <2>2. StoredHonest'
    BY <1>11 DEF Unreadable, recording, fileVars, Goto, TypeOK, StoredHonest, Honest
  <2>3. CachedHonest'
    BY <1>11 DEF Unreadable, recording, fileVars, Goto, TypeOK, CachedHonest, Honest
  <2>4. BuiltInOrder'
    BY <1>11 DEF Unreadable, recording, TypeOK, BuiltInOrder, NoEntry, Unknown
  <2>5. ReadSinceBegan'
    BY <1>11 DEF Unreadable, recording, fileVars, Goto, TypeOK, ReadSinceBegan, Entries
  <2> QED
    BY <2>1, <2>2, <2>3, <2>4, <2>5
<1>12. ASSUME NEW t \in Threads, SaveOpen(t) PROVE IndInv'
  <2>1. TypeOK'
    BY <1>12 DEF SaveOpen, recording, OpenTmp, Unused, Goto, TypeOK, FilesOK
  <2>2. StoredHonest'
    BY <1>12 DEF SaveOpen, recording, OpenTmp, Unused, Goto, TypeOK, StoredHonest, Honest
  <2>3. CachedHonest'
    BY <1>12 DEF SaveOpen, recording, OpenTmp, Unused, Goto, TypeOK, CachedHonest, Honest
  <2>4. BuiltInOrder'
    BY <1>12 DEF SaveOpen, recording, OpenTmp, Unused, Goto, TypeOK, BuiltInOrder, Entries
  <2>5. ReadSinceBegan'
    BY <1>12 DEF SaveOpen, recording, OpenTmp, Unused, Goto, TypeOK, ReadSinceBegan, Entries
  <2> QED
    BY <2>1, <2>2, <2>3, <2>4, <2>5
<1>13. ASSUME NEW t \in Threads, SaveWrite(t) PROVE IndInv'
  <2>1. TypeOK'
    BY <1>13 DEF SaveWrite, recording, WriteTmp, Goto, TypeOK, FilesOK
  <2>2. StoredHonest'
    <3>1. Honest(entry[t])
      BY <1>13 DEF SaveWrite, Goto, BuiltInOrder, Honest
    <3>2. /\ UNCHANGED bytes
          /\ \A f \in Files : content'[f] \in {content[f], Whole(entry[t]), Torn}
      BY <1>13 DEF SaveWrite, recording, WriteTmp, TypeOK
    <3> QED
      BY <3>1, <3>2 DEF StoredHonest, Honest
  <2>3. CachedHonest'
    BY <1>13 DEF SaveWrite, recording, WriteTmp, Goto, TypeOK, CachedHonest, Honest
  <2>4. BuiltInOrder'
    BY <1>13 DEF SaveWrite, recording, WriteTmp, Goto, TypeOK, BuiltInOrder, Entries
  <2>5. ReadSinceBegan'
    BY <1>13 DEF SaveWrite, recording, WriteTmp, Goto, TypeOK, ReadSinceBegan, Entries
  <2> QED
    BY <2>1, <2>2, <2>3, <2>4, <2>5
<1>14. ASSUME NEW t \in Threads, SaveRename(t) PROVE IndInv'
  <2>1. TypeOK'
    BY <1>14 DEF SaveRename, recording, CanRename, RenameTmp, fileVars, Goto, TypeOK, FilesOK
  <2>2. StoredHonest'
    BY <1>14 DEF SaveRename, recording, CanRename, RenameTmp, fileVars, Goto, TypeOK, StoredHonest, Honest
  <2>3. CachedHonest'
    BY <1>14 DEF SaveRename, recording, CanRename, RenameTmp, fileVars, Goto, TypeOK, CachedHonest, Honest
  <2>4. BuiltInOrder'
    BY <1>14 DEF SaveRename, recording, CanRename, RenameTmp, fileVars, Goto, TypeOK, BuiltInOrder, Entries
  <2>5. ReadSinceBegan'
    BY <1>14 DEF SaveRename, recording, CanRename, RenameTmp, fileVars, Goto, TypeOK, ReadSinceBegan, Entries
  <2> QED
    BY <2>1, <2>2, <2>3, <2>4, <2>5
<1>15. ASSUME NEW t \in Threads, SaveFails(t) PROVE IndInv'
  <2>1. TypeOK'
    <3>1. content' \in [Files -> {Empty, Torn} \cup {Whole(e) : e \in Entries}]
      BY <1>15 DEF SaveFails, Refused, WriteFails, TypeOK
    <3>2. FilesOK'
      BY <1>15, <3>1, FailuresAssumption DEF SaveFails, Refused, WriteFails, TypeOK, FilesOK
    <3> QED
      BY <1>15, <3>1, <3>2 DEF SaveFails, recording, TypeOK
  <2>2. StoredHonest'
    BY <1>15 DEF SaveFails, recording, Refused, WriteFails, Goto, TypeOK, StoredHonest, Honest
  <2>3. CachedHonest'
    BY <1>15 DEF SaveFails, recording, Refused, WriteFails, Goto, TypeOK, CachedHonest, Honest
  <2>4. BuiltInOrder'
    BY <1>15 DEF SaveFails, recording, Refused, WriteFails, Goto, TypeOK, BuiltInOrder, Entries
  <2>5. ReadSinceBegan'
    BY <1>15 DEF SaveFails, recording, Refused, WriteFails, Goto, TypeOK, ReadSinceBegan, Entries
  <2> QED
    BY <2>1, <2>2, <2>3, <2>4, <2>5
<1>16. ASSUME NEW t \in Threads, Return(t) PROVE IndInv'
  <2>1. TypeOK'
    BY <1>16 DEF Return, recording, fileVars, Goto, TypeOK, FilesOK
  <2>2. StoredHonest'
    BY <1>16 DEF Return, recording, fileVars, Goto, TypeOK, StoredHonest, Honest
  <2>3. CachedHonest'
    BY <1>16 DEF Return, recording, fileVars, Goto, TypeOK, CachedHonest, Honest
  <2>4. BuiltInOrder'
    BY <1>16 DEF Return, recording, fileVars, Goto, TypeOK, BuiltInOrder, Entries
  <2>5. ReadSinceBegan'
    BY <1>16 DEF Return, recording, fileVars, Goto, TypeOK, ReadSinceBegan, Entries
  <2> QED
    BY <2>1, <2>2, <2>3, <2>4, <2>5
<1>17. CASE Kill
  <2>1. TypeOK'
    BY <1>17 DEF Kill, recording, CloseAll, TornWrite, TypeOK, FilesOK
  <2>2. StoredHonest'
    BY <1>17 DEF Kill, recording, CloseAll, TornWrite, TypeOK, StoredHonest, Honest
  <2>3. CachedHonest'
    BY <1>17 DEF Kill, recording, CloseAll, TornWrite, TypeOK, CachedHonest, Honest
  <2>4. BuiltInOrder'
    BY <1>17 DEF Kill, recording, TypeOK, BuiltInOrder, NoEntry, Unknown
  <2>5. ReadSinceBegan'
    BY <1>17 DEF Kill, recording, CloseAll, TornWrite, TypeOK, ReadSinceBegan, Entries
  <2> QED
    BY <2>1, <2>2, <2>3, <2>4, <2>5
<1>18. CASE Done
  <2>1. TypeOK'
    BY <1>18 DEF Done, vars, fileVars, TypeOK, FilesOK
  <2>2. StoredHonest'
    BY <1>18 DEF Done, vars, fileVars, TypeOK, StoredHonest, Honest
  <2>3. CachedHonest'
    BY <1>18 DEF Done, vars, fileVars, TypeOK, CachedHonest, Honest
  <2>4. BuiltInOrder'
    BY <1>18 DEF Done, vars, fileVars, TypeOK, BuiltInOrder, Entries
  <2>5. ReadSinceBegan'
    BY <1>18 DEF Done, vars, fileVars, TypeOK, ReadSinceBegan, Entries
  <2> QED
    BY <2>1, <2>2, <2>3, <2>4, <2>5
<1> QED
  BY <1>1, <1>2, <1>3, <1>4, <1>5, <1>6, <1>7, <1>8, <1>9, <1>10, <1>11, <1>12, <1>13, <1>14, <1>15, <1>16, <1>17, <1>18, <1>19 DEF Next

-----------------------------------------------------------------------------
(* The inductive invariant is one.                                          *)
THEOREM Inductive == Spec => []IndInv
  BY InitInd, NextInd, PTL DEF Spec

(* The variables have their types.                                          *)
THEOREM TypeCorrect == Spec => []TypeOK
<1>1. IndInv => TypeOK
  BY DEF IndInv
<1> QED
  BY <1>1, Inductive, PTL

(* index.rs calls the cache "never a correctness dependency": an entry that *)
(* the fingerprint lets through says what the recording says now, or leaves *)
(* its counts open, although listings share one temporary file, are killed  *)
(* while they write it, are refused any operation and read while the agent  *)
(* appends.  Counts that a read error ended are the exception.              *)
THEOREM CacheIsHarmless == Spec => []ReuseIsExact
<1>1. IndInv => ReuseIsExact
  BY LoadIsHonest, CurrentIsExact DEF IndInv, ReuseIsExact
<1> QED
  BY <1>1, Inductive, PTL

(* What list_sessions returns, from the index or rebuilt, includes all that *)
(* was recorded before it was called; its counts too, where it has them and *)
(* no read error ended them.                                                *)
THEOREM ListingsAreCurrent == Spec => []ListingCurrent
<1>1. IndInv => ListingCurrent
  BY DEF IndInv, ReadSinceBegan, ListingCurrent
<1> QED
  BY <1>1, Inductive, PTL
=============================================================================
