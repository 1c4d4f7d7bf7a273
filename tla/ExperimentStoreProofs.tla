------------------------ MODULE ExperimentStoreProofs ------------------------
(***************************************************************************)
(* What the lock of experiment.rs buys, for any number of threads, commands *)
(* and kills: the temporary file is private to the saver that holds the     *)
(* lock, so what is renamed is what was written and no reader ever meets a  *)
(* torn record.                                                             *)
(***************************************************************************)
EXTENDS ExperimentStore, FiniteSetTheorems, TLAPS

(* The number of a file is never NoFile.                                    *)
LEMMA FilesAreBound == NoFile \notin Files
  BY FS_CardinalityType, ThreadsAssumption DEF NoFile, Files

(* Whole, empty and torn contents are told apart, and a whole one holds its *)
(* document.                                                                *)
LEMMA Contents ==
  /\ Empty # Torn /\ Empty.doc # "whole" /\ Torn.doc # "whole"
  /\ \A d : /\ Whole(d).doc = "whole" /\ Whole(d).text = d
            /\ Whole(d) # Empty /\ Whole(d) # Torn
  BY DEF Empty, Torn, Whole

(* A file is readable when it holds a whole document, which is one of the   *)
(* definitions saved.                                                       *)
LEMMA ReadableIsWhole ==
  ASSUME TypeOK, Readable
  PROVE  Document \in 0..MaxCommands /\ content[target] = Whole(Document)
  BY Contents DEF TypeOK, FilesOK, Readable, Document

-----------------------------------------------------------------------------
(* IndInv holds initially and every action preserves it.                    *)

LEMMA InitInd == Init => IndInv
<1> SUFFICES ASSUME Init PROVE IndInv
  OBVIOUS
<1>1. TypeOK
  <2>1. FilesOK
    BY FailuresAssumption DEF Init, FilesInit, FilesOK
  <2>2. content \in [Files -> {Empty, Torn} \cup {Whole(d) : d \in 0..MaxCommands}]
    BY DEF Init, FilesInit
  <2>3. stored \in BOOLEAN
    BY Zenon DEF Init
  <2> QED
    BY <2>1, <2>2, <2>3, ExperimentAssumption DEF Init, TypeOK
<1>2. LockHeld /\ RenamesOwnFile /\ TargetWhole
  BY DEF Init, FilesInit, LockHeld, RenamesOwnFile, TargetWhole
<1> QED
  BY <1>1, <1>2 DEF IndInv

LEMMA NextInd == IndInv /\ [Next]_vars => IndInv'
<1> SUFFICES ASSUME IndInv, [Next]_vars PROVE IndInv'
  OBVIOUS
<1> USE FilesAreBound, Contents
<1> USE DEF IndInv
<1>1. CASE UNCHANGED vars
  BY <1>1 DEF TypeOK, FilesOK, LockHeld, RenamesOwnFile, TargetWhole, Readable,
              vars, fileVars
<1>2. ASSUME NEW t \in Threads, BeginSave(t) PROVE IndInv'
  <2>1. TypeOK'
    BY <1>2, ExperimentAssumption
    DEF BeginSave, Begin, Goto, TypeOK, FilesOK, fileVars, user, bounds
  <2>2. LockHeld'
    BY <1>2 DEF BeginSave, Begin, Goto, TypeOK, FilesOK, LockHeld, fileVars
  <2>3. RenamesOwnFile'
    BY <1>2 DEF BeginSave, Begin, Goto, TypeOK, RenamesOwnFile, fileVars
  <2>4. TargetWhole'
    BY <1>2 DEF BeginSave, Begin, Goto, TargetWhole, Readable, fileVars
  <2> QED
    BY <2>1, <2>2, <2>3, <2>4
<1>3. ASSUME NEW t \in Threads, BeginAnalyze(t) PROVE IndInv'
  <2>1. TypeOK'
    BY <1>3, ReadableIsWhole, ExperimentAssumption
    DEF BeginAnalyze, Begin, TypeOK, FilesOK, fileVars, user, bounds
  <2>2. LockHeld'
    BY <1>3 DEF BeginAnalyze, Begin, TypeOK, FilesOK, LockHeld, fileVars
  <2>3. RenamesOwnFile'
    BY <1>3 DEF BeginAnalyze, Begin, TypeOK, RenamesOwnFile, fileVars
  <2>4. TargetWhole'
    BY <1>3 DEF BeginAnalyze, Begin, TargetWhole, Readable, fileVars
  <2> QED
    BY <2>1, <2>2, <2>3, <2>4
<1>4. ASSUME NEW t \in Threads, Reduce(t) PROVE IndInv'
  <2>1. TypeOK'
    BY <1>4
    DEF Reduce, Goto, TypeOK, FilesOK, fileVars, user, bounds
  <2>2. LockHeld'
    BY <1>4 DEF Reduce, Goto, TypeOK, FilesOK, LockHeld, fileVars
  <2>3. RenamesOwnFile'
    BY <1>4 DEF Reduce, Goto, TypeOK, RenamesOwnFile, fileVars
  <2>4. TargetWhole'
    BY <1>4 DEF Reduce, Goto, TargetWhole, Readable, fileVars
  <2> QED
    BY <2>1, <2>2, <2>3, <2>4
<1>5. ASSUME NEW t \in Threads, BeginDelete(t) PROVE IndInv'
  <2>1. TypeOK'
    BY <1>5, ExperimentAssumption
    DEF BeginDelete, Begin, TypeOK, FilesOK, fileVars, user, bounds
  <2>2. LockHeld'
    BY <1>5 DEF BeginDelete, Begin, TypeOK, FilesOK, LockHeld, fileVars
  <2>3. RenamesOwnFile'
    BY <1>5 DEF BeginDelete, Begin, TypeOK, RenamesOwnFile, fileVars
  <2>4. TargetWhole'
    BY <1>5 DEF BeginDelete, Begin, TargetWhole, Readable, fileVars
  <2> QED
    BY <2>1, <2>2, <2>3, <2>4
<1>6. ASSUME NEW t \in Threads, Delete(t) PROVE IndInv'
  <2>0. stored' \in BOOLEAN
    BY <1>6, Zenon DEF Delete, TypeOK
  <2>1. TypeOK'
    BY <1>6, <2>0
    DEF Delete, Goto, RemoveTarget, TypeOK, FilesOK, fileVars, user, bounds
  <2>2. LockHeld'
    BY <1>6 DEF Delete, Goto, RemoveTarget, TypeOK, FilesOK, LockHeld, fileVars
  <2>3. RenamesOwnFile'
    BY <1>6 DEF Delete, Goto, RemoveTarget, TypeOK, FilesOK, LockHeld, RenamesOwnFile, fileVars
  <2>4. TargetWhole'
    BY <1>6 DEF Delete, Goto, RemoveTarget, TypeOK, FilesOK, LockHeld, TargetWhole, Readable, fileVars
  <2> QED
    BY <2>1, <2>2, <2>3, <2>4
<1>7. ASSUME NEW t \in Threads, Acquire(t) PROVE IndInv'
  <2>1. TypeOK'
    BY <1>7
    DEF Acquire, Goto, TypeOK, FilesOK, fileVars, user, bounds
  <2>2. LockHeld'
    BY <1>7 DEF Acquire, Goto, TypeOK, FilesOK, LockHeld, fileVars
  <2>3. RenamesOwnFile'
    BY <1>7 DEF Acquire, Goto, TypeOK, RenamesOwnFile, fileVars
  <2>4. TargetWhole'
    BY <1>7 DEF Acquire, Goto, TargetWhole, Readable, fileVars
  <2> QED
    BY <2>1, <2>2, <2>3, <2>4
<1>8. ASSUME NEW t \in Threads, Open(t) PROVE IndInv'
  <2>1. TypeOK'
    BY <1>8
    DEF Open, Goto, OpenTmp, Unused, TypeOK, FilesOK, LockHeld, fileVars, user, bounds
  <2>2. LockHeld'
    BY <1>8 DEF Open, Goto, OpenTmp, Unused, TypeOK, FilesOK, LockHeld, fileVars
  <2>3. RenamesOwnFile'
    BY <1>8 DEF Open, Goto, OpenTmp, Unused, TypeOK, FilesOK, LockHeld, RenamesOwnFile, fileVars
  <2>4. TargetWhole'
    BY <1>8 DEF Open, Goto, OpenTmp, Unused, TypeOK, FilesOK, LockHeld, TargetWhole, Readable, fileVars
  <2> QED
    BY <2>1, <2>2, <2>3, <2>4
<1>9. ASSUME NEW t \in Threads, Write(t) PROVE IndInv'
  <2>1. TypeOK'
    BY <1>9
    DEF Write, Goto, WriteTmp, TypeOK, FilesOK, LockHeld, fileVars, user, bounds
  <2>2. LockHeld'
    BY <1>9 DEF Write, Goto, WriteTmp, TypeOK, FilesOK, LockHeld, fileVars
  <2>3. RenamesOwnFile'
    BY <1>9 DEF Write, Goto, WriteTmp, TypeOK, FilesOK, LockHeld, RenamesOwnFile, fileVars
  <2>4. TargetWhole'
    BY <1>9 DEF Write, Goto, WriteTmp, TypeOK, FilesOK, LockHeld, TargetWhole, Readable, fileVars
  <2> QED
    BY <2>1, <2>2, <2>3, <2>4
<1>10. ASSUME NEW t \in Threads, Remove(t) PROVE IndInv'
  <2>1. TypeOK'
    BY <1>10
    DEF Remove, Goto, RemoveTarget, TypeOK, FilesOK, fileVars, user, bounds
  <2>2. LockHeld'
    BY <1>10 DEF Remove, Goto, RemoveTarget, TypeOK, FilesOK, LockHeld, fileVars
  <2>3. RenamesOwnFile'
    BY <1>10 DEF Remove, Goto, RemoveTarget, TypeOK, FilesOK, LockHeld, RenamesOwnFile, fileVars
  <2>4. TargetWhole'
    BY <1>10 DEF Remove, Goto, RemoveTarget, TypeOK, FilesOK, LockHeld, TargetWhole, Readable, fileVars
  <2> QED
    BY <2>1, <2>2, <2>3, <2>4
<1>11. ASSUME NEW t \in Threads, Rename(t) PROVE IndInv'
  <2>0. stored' \in BOOLEAN
    BY <1>11, Zenon DEF Rename, TypeOK
  <2>1. TypeOK'
    BY <1>11, <2>0
    DEF Rename, Goto, RenameTmp, CanRename, TypeOK, FilesOK, fileVars, user, bounds
  <2>2. LockHeld'
    BY <1>11 DEF Rename, Goto, RenameTmp, CanRename, TypeOK, FilesOK, LockHeld, fileVars
  <2>3. RenamesOwnFile'
    BY <1>11 DEF Rename, Goto, RenameTmp, CanRename, TypeOK, FilesOK, LockHeld, RenamesOwnFile, fileVars
  <2>4. TargetWhole'
    BY <1>11 DEF Rename, Goto, RenameTmp, CanRename, TypeOK, FilesOK, LockHeld, RenamesOwnFile, TargetWhole, Readable, fileVars
  <2> QED
    BY <2>1, <2>2, <2>3, <2>4
<1>12. ASSUME NEW t \in Threads, SaveFails(t) PROVE IndInv'
  <2>1. TypeOK'
    BY <1>12, FailuresAssumption
    DEF SaveFails, Abandon, Refused, WriteFails, TypeOK, FilesOK, LockHeld, fileVars, user, bounds
  <2>2. LockHeld'
    BY <1>12 DEF SaveFails, Abandon, Refused, WriteFails, TypeOK, FilesOK, LockHeld, fileVars
  <2>3. RenamesOwnFile'
    BY <1>12 DEF SaveFails, Abandon, Refused, WriteFails, TypeOK, FilesOK, LockHeld, RenamesOwnFile, fileVars
  <2>4. TargetWhole'
    BY <1>12 DEF SaveFails, Abandon, Refused, WriteFails, TypeOK, FilesOK, LockHeld, TargetWhole, Readable, fileVars
  <2> QED
    BY <2>1, <2>2, <2>3, <2>4
<1>13. ASSUME NEW t \in Threads, RemoveFails(t) PROVE IndInv'
  <2>1. TypeOK'
    BY <1>13, FailuresAssumption
    DEF RemoveFails, Goto, Refused, TypeOK, FilesOK, fileVars, user, bounds
  <2>2. LockHeld'
    BY <1>13 DEF RemoveFails, Goto, Refused, TypeOK, FilesOK, LockHeld, fileVars
  <2>3. RenamesOwnFile'
    BY <1>13 DEF RemoveFails, Goto, Refused, TypeOK, FilesOK, LockHeld, RenamesOwnFile, fileVars
  <2>4. TargetWhole'
    BY <1>13 DEF RemoveFails, Goto, Refused, TypeOK, FilesOK, LockHeld, TargetWhole, Readable, fileVars
  <2> QED
    BY <2>1, <2>2, <2>3, <2>4
<1>14. ASSUME NEW t \in Threads, DeleteFails(t) PROVE IndInv'
  <2>1. TypeOK'
    BY <1>14, FailuresAssumption
    DEF DeleteFails, Goto, Refused, TypeOK, FilesOK, fileVars, user, bounds
  <2>2. LockHeld'
    BY <1>14 DEF DeleteFails, Goto, Refused, TypeOK, FilesOK, LockHeld, fileVars
  <2>3. RenamesOwnFile'
    BY <1>14 DEF DeleteFails, Goto, Refused, TypeOK, FilesOK, LockHeld, RenamesOwnFile, fileVars
  <2>4. TargetWhole'
    BY <1>14 DEF DeleteFails, Goto, Refused, TypeOK, FilesOK, LockHeld, TargetWhole, Readable, fileVars
  <2> QED
    BY <2>1, <2>2, <2>3, <2>4
<1>15. CASE Kill
  <2>1. TypeOK'
    BY <1>15, ExperimentAssumption DEF Kill, CloseAll, TornWrite, TypeOK, FilesOK
  <2>2. LockHeld' /\ RenamesOwnFile'
    BY <1>15 DEF Kill, CloseAll, TornWrite, LockHeld, RenamesOwnFile
  <2>3. TargetWhole'
    BY <1>15 DEF Kill, CloseAll, TornWrite, TypeOK, FilesOK, LockHeld, TargetWhole, Readable
  <2> QED
    BY <2>1, <2>2, <2>3
<1>16. CASE Done
  BY <1>16, <1>1 DEF Done
<1> QED
  BY <1>1, <1>2, <1>3, <1>4, <1>5, <1>6, <1>7, <1>8,
     <1>9, <1>10, <1>11, <1>12, <1>13, <1>14, <1>15, <1>16 DEF Next

-----------------------------------------------------------------------------
(* The inductive invariant: the lock, the temporary file and the target fit *)
(* together whatever the threads do and whenever the GUI is killed.         *)
THEOREM Inductive == Spec => []IndInv
  BY InitInd, NextInd, PTL DEF Spec

(* The variables keep their types.                                          *)
THEOREM TypeCorrect == Spec => []TypeOK
<1>1. IndInv => TypeOK
  BY DEF IndInv
<1> QED
  BY <1>1, Inductive, PTL

(* get and analyze take no lock, and still never meet a half-written record *)
(* (experiment.rs, save: temporary file, remove, rename).                   *)
THEOREM NeverTorn == Spec => []TargetWhole
<1>1. IndInv => TargetWhole
  BY DEF IndInv
<1> QED
  BY <1>1, Inductive, PTL

(* A saver renames into place exactly what it has written, although all     *)
(* savers share one temporary name (experiment.rs, save and write_lock).    *)
THEOREM OwnFile == Spec => []RenamesOwnFile
<1>1. IndInv => RenamesOwnFile
  BY DEF IndInv
<1> QED
  BY <1>1, Inductive, PTL

(* The counts of kills and of refused operations never go down.             *)
LEMMA FaultsOnlyGrow ==
  ASSUME IndInv, [Next]_vars, crashes' = 0, failures' = 0
  PROVE  crashes = 0 /\ failures = 0
<1> USE DEF IndInv, TypeOK, FilesOK
<1>1. CASE UNCHANGED vars
  BY <1>1 DEF vars, fileVars
<1>2. ASSUME NEW t \in Threads,
             BeginSave(t) \/ BeginAnalyze(t) \/ Reduce(t) \/ BeginDelete(t)
               \/ Acquire(t)
      PROVE  crashes = 0 /\ failures = 0
  BY <1>2 DEF BeginSave, BeginAnalyze, Reduce, BeginDelete, Acquire, fileVars, bounds,
     Begin
<1>3. ASSUME NEW t \in Threads,
             Delete(t) \/ Open(t) \/ Write(t) \/ Remove(t) \/ Rename(t)
      PROVE  crashes = 0 /\ failures = 0
  BY <1>3 DEF Delete, Open, Write, Remove, Rename, OpenTmp, WriteTmp, RemoveTarget,
     RenameTmp, fileVars, bounds
<1>4. CASE Kill
  BY <1>4 DEF Kill
<1>5. ASSUME NEW t \in Threads, SaveFails(t) \/ RemoveFails(t) \/ DeleteFails(t)
      PROVE  crashes = 0 /\ failures = 0
  BY <1>5 DEF SaveFails, RemoveFails, DeleteFails, Refused, WriteFails
<1>6. CASE Done
  BY <1>6, <1>1 DEF Done
<1> QED
  BY <1>1, <1>2, <1>3, <1>4, <1>5, <1>6 DEF Next

(* While the GUI is not killed and the system refuses no file operation, a  *)
(* saved record never disappears outside the window of a save, although     *)
(* save removes the old file before it renames the new one and delete takes *)
(* no lock.                                                                 *)
THEOREM NoFaultKeepsRecord == Spec => []RecordKept
<1>1. Init => RecordKept
  BY DEF Init, RecordKept, InPlace
<1>2. IndInv /\ IndInv' /\ RecordKept /\ [Next]_vars => RecordKept'
  <2> USE DEF IndInv
  <2> SUFFICES ASSUME IndInv, IndInv', InPlace, [Next]_vars,
                      crashes = 0, failures = 0, crashes' = 0, failures' = 0
               PROVE  InPlace'
    BY FaultsOnlyGrow DEF RecordKept
  <2>1. CASE UNCHANGED vars
    BY <2>1 DEF vars, fileVars, InPlace, Readable
  <2>2. ASSUME NEW t \in Threads,
               BeginSave(t) \/ BeginAnalyze(t) \/ Reduce(t) \/ BeginDelete(t)
                 \/ Acquire(t)
        PROVE  InPlace'
    <3>1. UNCHANGED <<target, content, stored>>
      BY <2>2 DEF BeginSave, BeginAnalyze, Reduce, BeginDelete, Acquire, fileVars
    <3>2. \A u \in Threads : pc[u] = "rename" => pc'[u] = "rename"
      BY <2>2 DEF BeginSave, BeginAnalyze, Reduce, BeginDelete, Acquire, Goto, TypeOK
    <3> QED
      BY <3>1, <3>2 DEF InPlace, Readable
  <2>3. ASSUME NEW t \in Threads, Delete(t) PROVE InPlace'
    <3>1. CASE target = NoFile
      BY <2>3, <3>1 DEF Delete, Goto, TypeOK, InPlace, Readable, fileVars
    <3>2. CASE target # NoFile
      BY <2>3, <3>2 DEF Delete, InPlace
    <3> QED
      BY <3>1, <3>2
  <2>4. ASSUME NEW t \in Threads, Open(t) \/ Write(t) PROVE InPlace'
    <3>1. stored => target # NoFile
      BY <2>4 DEF Open, Write, Goto, LockHeld, TypeOK, InPlace, Readable
    <3>2. UNCHANGED <<target, stored>>
      BY <2>4 DEF Open, Write, OpenTmp, WriteTmp
    <3> QED
      BY <3>1, <3>2 DEF TargetWhole, InPlace
  <2>5. ASSUME NEW t \in Threads, Remove(t) PROVE InPlace'
    BY <2>5 DEF Remove, Goto, TypeOK, InPlace
  <2>6. ASSUME NEW t \in Threads, Rename(t) PROVE InPlace'
    <3>1. target' # NoFile
      BY <2>6 DEF Rename, Goto, RenameTmp, CanRename, RenamesOwnFile
    <3> QED
      BY <3>1 DEF TargetWhole, InPlace
  <2>7. CASE Kill
    BY <2>7 DEF Kill, TypeOK
  <2>8. ASSUME NEW t \in Threads, SaveFails(t) \/ RemoveFails(t) \/ DeleteFails(t)
        PROVE  InPlace'
    BY <2>8 DEF SaveFails, RemoveFails, DeleteFails, Refused, WriteFails, TypeOK, FilesOK
  <2>9. CASE Done
    BY <2>9, <2>1 DEF Done
  <2> QED
    BY <2>1, <2>2, <2>3, <2>4, <2>5, <2>6, <2>7, <2>8, <2>9 DEF Next
<1> QED
  BY <1>1, <1>2, Inductive, PTL DEF Spec
=============================================================================
