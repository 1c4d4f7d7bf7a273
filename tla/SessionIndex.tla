---------------------------- MODULE SessionIndex ----------------------------
(***************************************************************************)
(* The session browser's derived index (pf-gui/src-tauri/src/index.rs and  *)
(* list_sessions, build_entry, read_head_tail of sessions.rs), for one     *)
(* recording that the agent is still appending to.  Several threads list   *)
(* at the same time; every look at the recording is a step of its own, so  *)
(* that the file may grow between any two of them.                         *)
(*                                                                         *)
(* The recording is append-only, so its length stands for its content: an  *)
(* entry is the length and mtime stored as its fingerprint, the length its *)
(* footer summary was read at (tail), and the length its counts cover      *)
(* (scan, Unknown when there are none); end = "error" marks counts that a  *)
(* read error ended, which the code does not record.                       *)
(***************************************************************************)
EXTENDS TempFile

CONSTANTS
  ScanMaxBytes,(* SCAN_MAX_BYTES: a longer recording is not scanned        *)
  MaxBytes,    (* bound: length of the recording                           *)
  MaxClock,    (* bound: seconds of the file system's clock                *)
  MaxLists,    (* bound: listings begun                                    *)
  MaxCrashes   (* bound: times the GUI is killed                           *)

ASSUME IndexAssumption ==
  /\ MaxBytes \in Nat \ {0}
  /\ {ScanMaxBytes, MaxClock, MaxLists, MaxCrashes} \subseteq Nat

VARIABLES
  bytes, mtime, clock, (* the recording and the file system's clock        *)
  pc,        (* pc[t]: where thread t is in list_sessions                 *)
  cache,     (* cache[t]: the entry t found in the index, or NoEntry      *)
  entry,     (* entry[t]: the entry t is building or about to return      *)
  began,     (* began[t]: length of the recording when t began            *)
  lists, crashes

vars == <<fileVars, bytes, mtime, clock, pc, cache, entry, began, lists, crashes>>
recording == <<bytes, mtime, clock>>

Unknown == -1
NoEntry == [bytes |-> Unknown, mtime |-> Unknown, tail |-> Unknown, scan |-> Unknown,
            end |-> "eof"]

(* SessionIndex::load: anything wrong with the file means no index.        *)
load == IF Readable THEN Document ELSE NoEntry

Init ==
  /\ FilesInit
  /\ bytes = 1 /\ mtime = 0 /\ clock = 0
  /\ pc = [t \in Threads |-> "idle"]
  /\ cache = [t \in Threads |-> NoEntry]
  /\ entry = [t \in Threads |-> NoEntry]
  /\ began = [t \in Threads |-> 0]
  /\ lists = 0 /\ crashes = 0

Goto(t, here, there) == pc[t] = here /\ pc' = [pc EXCEPT ![t] = there]

-----------------------------------------------------------------------------
(* The agent appends to the recording; mtime is kept in whole seconds.      *)
Append ==
  /\ bytes < MaxBytes
  /\ bytes' = bytes + 1
  /\ mtime' = clock
  /\ UNCHANGED <<fileVars, clock, pc, cache, entry, began, lists, crashes>>

Second ==
  /\ clock < MaxClock
  /\ clock' = clock + 1
  /\ UNCHANGED <<fileVars, bytes, mtime, pc, cache, entry, began, lists, crashes>>

(* list_sessions: read_dir.                                                *)
List(t) ==
  /\ Goto(t, "idle", "load")
  /\ lists < MaxLists
  /\ lists' = lists + 1
  /\ began' = [began EXCEPT ![t] = bytes]
  /\ UNCHANGED <<fileVars, recording, cache, entry, crashes>>

(* rebuild_index removes the index first, if it can.                       *)
Rebuild(t) ==
  /\ Goto(t, "idle", "load")
  /\ lists < MaxLists
  /\ lists' = lists + 1
  /\ RemoveTarget \/ Refused
  /\ began' = [began EXCEPT ![t] = bytes]
  /\ UNCHANGED <<recording, cache, entry, crashes>>

(* SessionIndex::load; an index that cannot be read is none.               *)
Load(t) ==
  /\ Goto(t, "load", "fingerprint")
  /\ \/ cache' = [cache EXCEPT ![t] = load] /\ UNCHANGED fileVars
     \/ cache' = [cache EXCEPT ![t] = NoEntry] /\ Refused
  /\ UNCHANGED <<recording, entry, began, lists, crashes>>

(* Mutant: the modification time alone decides.                            *)
ReusableByMtime(e) == e.mtime = mtime

(* e.bytes == fp.bytes && e.mtime_s == Some(fp.mtime_s)                     *)
Reusable(e) == e.bytes = bytes /\ e.mtime = mtime

(* Fingerprint::of, and the entry is reused or rebuilt; without metadata   *)
(* there is no fingerprint, and it is rebuilt.                             *)
Fingerprint(t) ==
  \/ /\ Goto(t, "fingerprint", IF Reusable(cache[t]) THEN "return" ELSE "open")
     /\ entry' = [entry EXCEPT ![t] = IF Reusable(cache[t]) THEN cache[t] ELSE NoEntry]
     /\ UNCHANGED <<fileVars, recording, cache, began, lists, crashes>>
  \/ /\ Goto(t, "fingerprint", "open")
     /\ entry' = [entry EXCEPT ![t] = NoEntry]
     /\ Refused
     /\ UNCHANGED <<recording, cache, began, lists, crashes>>

(* build_entry: read_head_tail takes the length first, then reads ...      *)
TakeLength(t) ==
  /\ Goto(t, "open", "tail")
  /\ entry' = [entry EXCEPT ![t].bytes = bytes]
  /\ UNCHANGED <<fileVars, recording, cache, began, lists, crashes>>

ReadTail(t) ==
  /\ Goto(t, "tail", "metadata")
  /\ entry' = [entry EXCEPT ![t].tail = bytes]
  /\ UNCHANGED <<fileVars, recording, cache, began, lists, crashes>>

(* ... fs::metadata gives the mtime, or none, ...                          *)
TakeMtime(t) ==
  /\ Goto(t, "metadata", "scan")
  /\ \/ entry' = [entry EXCEPT ![t].mtime = mtime] /\ UNCHANGED fileVars
     \/ UNCHANGED entry /\ Refused
  /\ UNCHANGED <<recording, cache, began, lists, crashes>>

(* Mutant: the length is taken after everything has been read.             *)
ScanTakesLength(t) ==
  /\ Goto(t, "scan", "save")
  /\ entry' = [entry EXCEPT ![t].scan = bytes, ![t].bytes = bytes]
  /\ UNCHANGED <<fileVars, recording, cache, began, lists, crashes>>

(* ... and scan_details opens the recording again and counts all of it.  A *)
(* recording that is too long or cannot be opened has no counts; the lines *)
(* before one that cannot be read are counted like a whole recording.      *)
Scan(t) ==
  /\ Goto(t, "scan", "save")
  /\ \/ /\ entry[t].bytes <= ScanMaxBytes
        /\ entry' = [entry EXCEPT ![t].scan = bytes]
        /\ UNCHANGED fileVars
     \/ /\ entry[t].bytes <= ScanMaxBytes
        /\ \E read \in 0..(bytes - 1) :
             entry' = [entry EXCEPT ![t].scan = read, ![t].end = "error"]
        /\ Refused
     \/ entry[t].bytes <= ScanMaxBytes /\ UNCHANGED entry /\ Refused
     \/ entry[t].bytes > ScanMaxBytes /\ UNCHANGED <<fileVars, entry>>
  /\ UNCHANGED <<recording, cache, began, lists, crashes>>

(* A file that cannot be opened or read is listed as unreadable, with no   *)
(* fingerprint.                                                            *)
Unreadable(t) ==
  /\ pc[t] \in {"open", "tail"}
  /\ pc' = [pc EXCEPT ![t] = "save"]
  /\ entry' = [entry EXCEPT ![t] = NoEntry]
  /\ UNCHANGED <<fileVars, recording, cache, began, lists, crashes>>

(* SessionIndex::save, errors ignored.                                     *)
SaveOpen(t) ==
  /\ Goto(t, "save", "write")
  /\ OpenTmp(t)
  /\ UNCHANGED <<recording, cache, entry, began, lists, crashes>>

SaveWrite(t) ==
  /\ Goto(t, "write", "rename")
  /\ WriteTmp(t, entry[t])
  /\ UNCHANGED <<recording, cache, entry, began, lists, crashes>>

SaveRename(t) ==
  /\ Goto(t, "rename", "return")
  /\ IF CanRename THEN RenameTmp ELSE UNCHANGED fileVars
  /\ UNCHANGED <<recording, cache, entry, began, lists, crashes>>

SaveFails(t) ==
  /\ pc' = [pc EXCEPT ![t] = "return"]
  /\ \/ pc[t] \in {"save", "rename"} /\ Refused
     \/ pc[t] = "write" /\ WriteFails(t)
  /\ UNCHANGED <<recording, cache, entry, began, lists, crashes>>

Return(t) ==
  /\ Goto(t, "return", "idle")
  /\ UNCHANGED <<fileVars, recording, cache, entry, began, lists, crashes>>

Kill ==
  /\ crashes < MaxCrashes
  /\ crashes' = crashes + 1
  /\ \/ CloseAll
     \/ \E t \in Threads : TornWrite(t)
  /\ pc' = [t \in Threads |-> "idle"]
  /\ cache' = [t \in Threads |-> NoEntry]
  /\ entry' = [t \in Threads |-> NoEntry]
  /\ began' = [t \in Threads |-> 0]
  /\ UNCHANGED <<recording, lists>>

Done ==
  /\ lists = MaxLists /\ \A t \in Threads : pc[t] = "idle"
  /\ UNCHANGED vars

Next ==
  \/ Append \/ Second
  \/ \E t \in Threads :
       \/ List(t) \/ Rebuild(t) \/ Load(t) \/ Fingerprint(t)
       \/ TakeLength(t) \/ ReadTail(t) \/ TakeMtime(t) \/ Scan(t) \/ Unreadable(t)
       \/ SaveOpen(t) \/ SaveWrite(t) \/ SaveRename(t) \/ SaveFails(t)
       \/ Return(t)
  \/ Kill
  \/ Done

Spec == Init /\ [][Next]_vars

-----------------------------------------------------------------------------
Entries == [bytes : Unknown..MaxBytes, mtime : Unknown..MaxClock,
            tail : Unknown..MaxBytes, scan : Unknown..MaxBytes, end : {"eof", "error"}]

(* The variables have their types.                                         *)
TypeOK ==
  /\ FilesOK
  /\ content \in [Files -> {Empty, Torn} \cup {Whole(e) : e \in Entries}]
  /\ bytes \in 1..MaxBytes /\ clock \in 0..MaxClock /\ mtime \in 0..clock
  /\ pc \in [Threads -> {"idle", "load", "fingerprint", "open", "tail", "metadata", "scan",
                         "save", "write", "rename", "return"}]
  /\ cache \in [Threads -> Entries] /\ entry \in [Threads -> Entries]
  /\ began \in [Threads -> 0..MaxBytes]
  /\ lists \in 0..MaxLists /\ crashes \in 0..MaxCrashes

(* index.rs: the cache "is never a correctness dependency".  However many  *)
(* listings race, whatever a kill left behind and whenever the recording   *)
(* grew, an entry the fingerprint lets through describes the recording as  *)
(* it is now, or says that its counts are unknown; only a scan that a read *)
(* error ended passes for a whole one.                                     *)
ReuseIsExact ==
  LET e == load IN
    Reusable(e) => e.tail = bytes /\ (e.end = "error" \/ e.scan \in {Unknown, bytes})

(* What a listing returns is not older than the listing: the summary, and  *)
(* counts that no read error ended, include everything recorded before it  *)
(* began.                                                                  *)
ListingCurrent ==
  \A t \in Threads :
    LET e == entry[t] IN
      pc[t] = "return" /\ e # NoEntry
        => e.tail >= began[t] /\ (e.end = "error" \/ e.scan = Unknown \/ e.scan >= began[t])

(* What scan_details says of itself: None means unknown, and no count is   *)
(* ever guessed.  An entry the fingerprint lets through has the counts of  *)
(* the whole recording, or none.  It does not hold when a line cannot be   *)
(* read (README, section 4).                                               *)
CountsNeverGuessed ==
  LET e == load IN Reusable(e) => e.scan \in {Unknown, bytes}

-----------------------------------------------------------------------------
(* Why they hold.                                                           *)

(* The length of an entry was taken before what it says was read, and what *)
(* was read is part of the recording.  It holds of NoEntry as well.        *)
Honest(e) ==
  /\ e.bytes <= e.tail /\ e.tail <= bytes
  /\ e.scan = Unknown \/ e.end = "error" \/ e.bytes <= e.scan
  /\ e.scan <= bytes

(* Every entry in a file, and every one a listing has found in the index.  *)
StoredHonest == \A f \in Files : content[f].doc = "whole" => Honest(content[f].text)
CachedHonest == \A t \in Threads : Honest(cache[t])

(* The entry of a listing becomes honest step by step: the length first,   *)
(* then the tail, then the scan.                                           *)
BuiltInOrder ==
  \A t \in Threads :
    LET e == entry[t] IN
      /\ e.bytes <= bytes /\ e.tail <= bytes /\ e.scan <= bytes
      /\ pc[t] # "tail" => e.bytes <= e.tail
      /\ pc[t] \in {"open", "tail", "metadata", "scan"} => e.scan = Unknown
      /\ e.scan = Unknown \/ e.end = "error" \/ e.bytes <= e.scan

(* What a listing has read was read after it began.                        *)
ReadSinceBegan ==
  \A t \in Threads :
    LET e == entry[t] IN
      /\ began[t] <= bytes
      /\ pc[t] \in {"metadata", "scan"} => e.tail >= began[t]
      /\ pc[t] \in {"save", "write", "rename", "return"} /\ e # NoEntry
           => e.tail >= began[t] /\ (e.end = "error" \/ e.scan = Unknown \/ e.scan >= began[t])

IndInv == TypeOK /\ StoredHonest /\ CachedHonest /\ BuiltInOrder /\ ReadSinceBegan
=============================================================================
