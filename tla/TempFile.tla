------------------------------ MODULE TempFile ------------------------------
(***************************************************************************)
(* "Write a temporary file, rename it over the target": how the GUI        *)
(* backend (pf-gui/src-tauri/src) saves the session index, the settings,   *)
(* a calibration set and an experiment.  The commands run on a pool of     *)
(* threads (spawn_blocking), and all savers of one target share one        *)
(* temporary name.                                                         *)
(*                                                                         *)
(* Names are bound to files; a thread that has the temporary file open     *)
(* keeps writing to that file after it was renamed.  std::fs::write is two *)
(* steps: open with truncation, then write.                                *)
(***************************************************************************)
EXTENDS Integers, FiniteSets

CONSTANTS
  Threads,    (* threads of the blocking pool                             *)
  MaxFailures (* bound: file operations that the system refuses           *)

ASSUME ThreadsAssumption == IsFiniteSet(Threads) /\ Threads # {}
ASSUME FailuresAssumption == MaxFailures \in Nat

VARIABLES
  target, tmp,  (* the file each name is bound to, NoFile when unbound    *)
  content,      (* content[f]: Empty, Torn, or the document written to it *)
  handle,       (* handle[t]: the file thread t has open for writing      *)
  failures      (* operations refused so far                              *)

fileVars == <<target, tmp, content, handle, failures>>

NoFile == 0
Empty == [doc |-> "empty"]
Torn == [doc |-> "torn"]
Whole(d) == [doc |-> "whole", text |-> d]

(* Enough files for two names and one open handle per thread.              *)
Files == 1..(Cardinality(Threads) + 2)

FilesInit ==
  /\ target = NoFile /\ tmp = NoFile
  /\ content = [f \in Files |-> Empty]
  /\ handle = [t \in Threads |-> NoFile]
  /\ failures = 0

Unused == Files \ ({target, tmp} \cup {handle[t] : t \in Threads})

(* File::create: a new file (the first unused one), or the one the name is *)
(* bound to, truncated.                                                    *)
OpenTmp(t) ==
  \E f \in Files :
    /\ IF tmp = NoFile
         THEN f \in Unused /\ \A g \in Unused : f <= g
         ELSE f = tmp
    /\ tmp' = f
    /\ content' = [content EXCEPT ![f] = Empty]
    /\ handle' = [handle EXCEPT ![t] = f]
    /\ UNCHANGED <<target, failures>>

(* write_all and close.  Over what another thread wrote meanwhile, the     *)
(* shorter text leaves the tail of the longer one.                         *)
WriteTmp(t, d) ==
  LET f == handle[t] IN
    /\ \/ content' = [content EXCEPT ![f] = Whole(d)]
       \/ content[f] # Empty /\ content' = [content EXCEPT ![f] = Torn]
    /\ handle' = [handle EXCEPT ![t] = NoFile]
    /\ UNCHANGED <<target, tmp, failures>>

(* The system refuses an operation, and nothing else happens.              *)
Refused ==
  /\ failures < MaxFailures
  /\ failures' = failures + 1
  /\ UNCHANGED <<target, tmp, content, handle>>

(* write_all fails, before or after it has written something.              *)
WriteFails(t) ==
  /\ failures < MaxFailures
  /\ failures' = failures + 1
  /\ content' \in {content, [content EXCEPT ![handle[t]] = Torn]}
  /\ handle' = [handle EXCEPT ![t] = NoFile]
  /\ UNCHANGED <<target, tmp>>

(* The process dies inside write_all.                                      *)
TornWrite(t) ==
  /\ handle[t] # NoFile
  /\ content' = [content EXCEPT ![handle[t]] = Torn]
  /\ handle' = [u \in Threads |-> NoFile]
  /\ UNCHANGED <<target, tmp, failures>>

CloseAll ==
  /\ handle' = [u \in Threads |-> NoFile]
  /\ UNCHANGED <<target, tmp, content, failures>>

(* std::fs::rename(tmp, target), which replaces the target; it fails when  *)
(* another thread has renamed the temporary file already.                  *)
CanRename == tmp # NoFile

RenameTmp ==
  /\ target' = tmp
  /\ tmp' = NoFile
  /\ UNCHANGED <<content, handle, failures>>

(* std::fs::remove_file(target), its result ignored.                       *)
RemoveTarget ==
  /\ target' = NoFile
  /\ UNCHANGED <<tmp, content, handle, failures>>

(* What read_to_string and the JSON parser make of the target.             *)
Readable == target # NoFile /\ content[target].doc = "whole"
Document == content[target].text

(* The part of the type invariants of the stores that concerns the names.  *)
FilesOK ==
  /\ {target, tmp} \subseteq Files \cup {NoFile}
  /\ target = tmp => target = NoFile
  /\ DOMAIN content = Files
  /\ handle \in [Threads -> Files \cup {NoFile}]
  /\ failures \in 0..MaxFailures
=============================================================================
