--------------------------- MODULE ExperimentStore ---------------------------
(***************************************************************************)
(* The experiment files of the GUI (pf-gui/src-tauri/src/experiment.rs),   *)
(* for one experiment: save (also called by create and at the end of       *)
(* analyze) writes under a process-wide lock, get and delete take no lock. *)
(* The commands run on several threads, and the GUI may be killed at any   *)
(* step.                                                                   *)
(*                                                                         *)
(* Of a record only the definition counts (the runs and settings the user  *)
(* edits): definitions are numbered as the user makes them.                *)
(***************************************************************************)
EXTENDS TempFile

CONSTANTS
  MaxCommands, (* bound: commands begun                                    *)
  MaxCrashes   (* bound: times the GUI is killed                           *)

ASSUME ExperimentAssumption == MaxCommands \in Nat /\ MaxCrashes \in Nat

VARIABLES
  pc,        (* pc[t]: where thread t is                                  *)
  record,    (* record[t]: the definition t is working on, 0 for none     *)
  editor,    (* the threads that carry out a save of the user             *)
  lock,      (* the holder of write_lock, {} when it is free              *)
  edits,     (* definitions the user has saved, confirmed or not          *)
  commands, crashes,
  stored,    (* a save has put a record in place and nobody deleted it    *)
  confirmed  (* the definition the last save of the user put in place     *)

vars == <<fileVars, pc, record, editor, lock, edits, commands, crashes, stored,
          confirmed>>
user == <<editor, edits, confirmed>>
bounds == <<commands, crashes>>

Init ==
  /\ FilesInit
  /\ pc = [t \in Threads |-> "idle"]
  /\ record = [t \in Threads |-> 0]
  /\ editor = {} /\ lock = {}
  /\ edits = 0 /\ commands = 0 /\ crashes = 0
  /\ stored = FALSE /\ confirmed = 0

Goto(t, here, there) == pc[t] = here /\ pc' = [pc EXCEPT ![t] = there]

Begin == commands < MaxCommands /\ commands' = commands + 1

(* save_experiment or create_experiment: the whole record comes from the   *)
(* user interface, which may send a save before the last one is answered.  *)
BeginSave(t) ==
  /\ Begin
  /\ Goto(t, "idle", "lock")
  /\ editor' = editor \cup {t}
  /\ edits' = edits + 1
  /\ record' = [record EXCEPT ![t] = edits + 1]
  /\ UNCHANGED <<fileVars, lock, crashes, stored, confirmed>>

(* analyze: get the record (not-found and corrupt files are errors) ...    *)
BeginAnalyze(t) ==
  /\ Begin
  /\ pc[t] = "idle"
  /\ IF Readable
       THEN /\ pc' = [pc EXCEPT ![t] = "reduce"]
            /\ record' = [record EXCEPT ![t] = Document]
       ELSE UNCHANGED <<pc, record>>
  /\ UNCHANGED <<fileVars, lock, user, crashes, stored>>

(* ... reduce its sessions, however long that takes, and save the copy     *)
(* with the new result.                                                    *)
Reduce(t) ==
  /\ Goto(t, "reduce", "lock")
  /\ UNCHANGED <<fileVars, record, lock, user, bounds, stored>>

(* delete: path.exists(), then remove_file, without the lock.              *)
BeginDelete(t) ==
  /\ Begin
  /\ pc[t] = "idle"
  /\ pc' = IF target # NoFile THEN [pc EXCEPT ![t] = "delete"] ELSE pc
  /\ UNCHANGED <<fileVars, record, lock, user, crashes, stored>>

Delete(t) ==
  /\ Goto(t, "delete", "idle")
  /\ IF target # NoFile
       THEN RemoveTarget /\ stored' = FALSE
       ELSE UNCHANGED <<fileVars, stored>>
  /\ UNCHANGED <<record, lock, user, bounds>>

(* Mutant: save does not wait for the lock.                                *)
AcquireNothing(t) ==
  /\ Goto(t, "lock", "open")
  /\ lock' = {t}
  /\ UNCHANGED <<fileVars, record, user, bounds, stored>>

(* save: write_lock().lock() ...                                           *)
Acquire(t) ==
  /\ Goto(t, "lock", "open")
  /\ lock = {}
  /\ lock' = {t}
  /\ UNCHANGED <<fileVars, record, user, bounds, stored>>

Open(t) ==
  /\ Goto(t, "open", "write")
  /\ OpenTmp(t)
  /\ UNCHANGED <<record, lock, user, bounds, stored>>

Write(t) ==
  /\ Goto(t, "write", "remove")
  /\ WriteTmp(t, record[t])
  /\ UNCHANGED <<record, lock, user, bounds, stored>>

(* ... let _ = remove_file(&path) ...                                      *)
Remove(t) ==
  /\ Goto(t, "remove", "rename")
  /\ RemoveTarget
  /\ UNCHANGED <<record, lock, user, bounds, stored>>

(* ... rename(&tmp, &path), and the guard is dropped.                      *)
Rename(t) ==
  /\ Goto(t, "rename", "idle")
  /\ IF CanRename
       THEN /\ RenameTmp
            /\ stored' = TRUE
            /\ confirmed' = IF t \in editor THEN record[t] ELSE confirmed
       ELSE UNCHANGED <<fileVars, stored, confirmed>>
  /\ lock' = {}
  /\ editor' = editor \ {t}
  /\ UNCHANGED <<record, edits, bounds>>

(* An operation of save fails.  The write returns early, and so does the   *)
(* rename, after the old record is gone; remove_file's failure is ignored. *)
Abandon(t) ==
  /\ pc' = [pc EXCEPT ![t] = "idle"]
  /\ lock' = {}
  /\ editor' = editor \ {t}
  /\ UNCHANGED <<record, edits, bounds, stored, confirmed>>

SaveFails(t) ==
  /\ \/ pc[t] \in {"open", "rename"} /\ Refused
     \/ pc[t] = "write" /\ WriteFails(t)
  /\ Abandon(t)

RemoveFails(t) ==
  /\ Goto(t, "remove", "rename")
  /\ Refused
  /\ UNCHANGED <<record, lock, user, bounds, stored>>

DeleteFails(t) ==
  /\ Goto(t, "delete", "idle")
  /\ Refused
  /\ UNCHANGED <<record, lock, user, bounds, stored>>

(* The GUI is killed, and started again: only the files are left.          *)
Kill ==
  /\ crashes < MaxCrashes
  /\ crashes' = crashes + 1
  /\ \/ CloseAll
     \/ \E t \in Threads : TornWrite(t)
  /\ pc' = [t \in Threads |-> "idle"]
  /\ record' = [t \in Threads |-> 0]
  /\ editor' = {} /\ lock' = {}
  /\ UNCHANGED <<edits, commands, stored, confirmed>>

Done ==
  /\ commands = MaxCommands /\ \A t \in Threads : pc[t] = "idle"
  /\ UNCHANGED vars

Next ==
  \/ \E t \in Threads :
       \/ BeginSave(t) \/ BeginAnalyze(t) \/ Reduce(t)
       \/ BeginDelete(t) \/ Delete(t)
       \/ Acquire(t) \/ Open(t) \/ Write(t) \/ Remove(t) \/ Rename(t)
       \/ SaveFails(t) \/ RemoveFails(t) \/ DeleteFails(t)
  \/ Kill
  \/ Done

Spec == Init /\ [][Next]_vars

-----------------------------------------------------------------------------
(* The variables have their types.                                         *)
TypeOK ==
  /\ FilesOK
  /\ content \in [Files -> {Empty, Torn} \cup {Whole(d) : d \in 0..MaxCommands}]
  /\ pc \in [Threads -> {"idle", "reduce", "delete", "lock", "open", "write",
                         "remove", "rename"}]
  /\ record \in [Threads -> 0..MaxCommands]
  /\ editor \subseteq Threads /\ lock \subseteq Threads
  /\ edits \in 0..commands /\ commands \in 0..MaxCommands
  /\ confirmed \in 0..MaxCommands
  /\ crashes \in 0..MaxCrashes
  /\ stored \in BOOLEAN

(* Readers take no lock, and savers share a temporary name; still a reader *)
(* never meets a half-written record, also after a kill.                   *)
TargetWhole == target # NoFile => Readable

(* The file a thread renames into place is the one it has just written:    *)
(* the lock keeps every other saver away from the temporary name, and      *)
(* delete never touches it.                                                *)
RenamesOwnFile ==
  \A t \in Threads :
    pc[t] \in {"remove", "rename"}
      => tmp # NoFile /\ content[tmp] = Whole(record[t])

(* Who holds the lock: the threads inside save, and a thread has the       *)
(* temporary file open only there.                                         *)
LockHeld ==
  \A t \in Threads :
    /\ pc[t] \in {"open", "write", "remove", "rename"} => lock = {t}
    /\ pc[t] = "write" => handle[t] = tmp /\ tmp # NoFile /\ content[tmp] = Empty
    /\ pc[t] # "write" => handle[t] = NoFile

IndInv ==
  /\ TypeOK
  /\ LockHeld
  /\ RenamesOwnFile
  /\ TargetWhole

(* An experiment that was saved and not deleted is there, except while a   *)
(* save is between its remove_file and its rename.                         *)
InPlace == stored => Readable \/ \E t \in Threads : pc[t] = "rename"

(* As long as the GUI is not killed and no file operation is refused, that *)
(* window is the only time the record is missing, although delete takes no *)
(* lock.  Without the condition it fails: a kill, or a refused rename,     *)
(* after the remove_file leaves only a .tmp that nothing reads.            *)
RecordKept == (crashes = 0 /\ failures = 0) => InPlace

=============================================================================
