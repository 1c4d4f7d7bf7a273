-------------------------- MODULE CalibrationStore --------------------------
(***************************************************************************)
(* The calibration workspace of the GUI (pf-gui/src-tauri/src              *)
(* /calibration.rs): create and set_active load the set of revisions,      *)
(* change their copy and save it, without any lock; the commands run on    *)
(* several threads (lib.rs, blocking), and the GUI may be killed at any    *)
(* step.  The fit itself is left out: a revision is its number and the     *)
(* request it came from.                                                   *)
(***************************************************************************)
EXTENDS TempFile, Sequences, SequencesExt

CONSTANTS
  MaxRequests, (* bound: create and set_active requests                    *)
  MaxCrashes   (* bound: times the GUI is killed                           *)

ASSUME CalibrationAssumption == MaxRequests \in Nat /\ MaxCrashes \in Nat

VARIABLES
  pc,        (* pc[t]: where thread t is                                  *)
  set,       (* set[t]: the CalibrationSetFile t works on                 *)
  want,      (* want[t]: the revision number t will ask get for           *)
  requests,  (* requests begun                                            *)
  crashes,   (* times the GUI was killed                                  *)
  confirmed, (* requests whose create was answered with their revision    *)
  overlapped,(* two commands have been in progress at the same time       *)
  blinded    (* a create took a set that it was refused to read for empty *)

vars == <<fileVars, pc, set, want, requests, crashes, confirmed, overlapped, blinded>>

(* CalibrationSetFile: active = 0 stands for active_id = None.             *)
DefaultSet == [revisions |-> <<>>, active |-> 0, events |-> <<>>]

(* load_set, read to the end: a missing or unparsable file is an empty set. *)
load_set == IF Readable THEN Document ELSE DefaultSet

(* load_set: one whose read the system refuses is an empty set as well.    *)
Loaded(s) ==
  \/ s = load_set /\ UNCHANGED fileVars
  \/ s = DefaultSet /\ Refused

Numbers(s) == {s.revisions[i].revision : i \in DOMAIN s.revisions}

(* revisions.iter().map(revision).max().unwrap_or(0) + 1                   *)
NextRevision(s) == IF Numbers(s) = {} THEN 1 ELSE Max(Numbers(s)) + 1

(* Mutant: active_id is assigned before the event is recorded.             *)
ActivateLate(s, r) ==
  [s EXCEPT !.active = r,
            !.events = Append(@, [id |-> r, previous |-> r])]

(* active_events.push(..), active_id = Some(id)                            *)
Activate(s, r) ==
  [s EXCEPT !.active = r,
            !.events = Append(@, [id |-> r, previous |-> s.active])]

Init ==
  /\ FilesInit
  /\ pc = [t \in Threads |-> "idle"]
  /\ set = [t \in Threads |-> DefaultSet]
  /\ want = [t \in Threads |-> 0]
  /\ requests = 0 /\ crashes = 0
  /\ confirmed = {} /\ overlapped = FALSE /\ blinded = FALSE

Goto(t, here, there) == pc[t] = here /\ pc' = [pc EXCEPT ![t] = there]

Begin(t) ==
  /\ requests < MaxRequests
  /\ requests' = requests + 1
  /\ overlapped' = (overlapped \/ \E u \in Threads \ {t} : pc[u] # "idle")

(* Mutant: create works on the copy it has in memory.                      *)
CreateFromMemory(t, activate) ==
  /\ Goto(t, "idle", "open")
  /\ Begin(t)
  /\ LET old == set[t]
         r == NextRevision(old)
         new == [old EXCEPT !.revisions =
                   Append(@, [revision |-> r, request |-> requests + 1])]
     IN /\ set' = [set EXCEPT ![t] = IF activate THEN Activate(new, r) ELSE new]
        /\ want' = [want EXCEPT ![t] = r]
  /\ UNCHANGED <<fileVars, crashes, confirmed, blinded>>

(* create: load, number the new revision, push it, maybe activate it.      *)
Create(t, activate) ==
  \E old \in {load_set, DefaultSet} :
    LET r == NextRevision(old)
        new == [old EXCEPT !.revisions =
                  Append(@, [revision |-> r, request |-> requests + 1])]
    IN /\ Goto(t, "idle", "open")
       /\ Begin(t)
       /\ Loaded(old)
       /\ blinded' = (blinded \/ old # load_set)
       /\ set' = [set EXCEPT ![t] = IF activate THEN Activate(new, r) ELSE new]
       /\ want' = [want EXCEPT ![t] = r]
       /\ UNCHANGED <<crashes, confirmed>>

(* set_active(id): load, refuse an unknown id, record the switch.          *)
SetActive(t, r) ==
  \E old \in {load_set, DefaultSet} :
    /\ pc[t] = "idle"
    /\ Begin(t)
    /\ Loaded(old)
    /\ IF r \in Numbers(old)
         THEN /\ pc' = [pc EXCEPT ![t] = "open"]
              /\ set' = [set EXCEPT ![t] = Activate(old, r)]
              /\ want' = [want EXCEPT ![t] = r]
         ELSE UNCHANGED <<pc, set, want>>
    /\ UNCHANGED <<crashes, confirmed, blinded>>

(* save_set, in its three file operations.                                 *)
Open(t) ==
  /\ Goto(t, "open", "write")
  /\ OpenTmp(t)
  /\ UNCHANGED <<set, want, requests, crashes, confirmed, overlapped, blinded>>

Write(t) ==
  /\ Goto(t, "write", "rename")
  /\ WriteTmp(t, set[t])
  /\ UNCHANGED <<set, want, requests, crashes, confirmed, overlapped, blinded>>

Rename(t) ==
  /\ Goto(t, "rename", "get")
  /\ CanRename /\ RenameTmp
  /\ UNCHANGED <<set, want, requests, crashes, confirmed, overlapped, blinded>>

(* An operation fails; the rename also when another thread was faster.     *)
SaveFails(t) ==
  /\ pc' = [pc EXCEPT ![t] = "idle"]
  /\ \/ pc[t] \in {"open", "rename"} /\ Refused
     \/ pc[t] = "write" /\ WriteFails(t)
     \/ pc[t] = "rename" /\ ~CanRename /\ UNCHANGED fileVars
  /\ UNCHANGED <<set, want, requests, crashes, confirmed, overlapped, blinded>>

(* get(id): the answer is the revision of that number in a fresh copy; the *)
(* caller of create is told its own revision when that is what it finds.   *)
Get(t) ==
  /\ Goto(t, "get", "idle")
  /\ \E fresh \in {load_set, DefaultSet} :
       LET mine == {set[t].revisions[i] : i \in DOMAIN set[t].revisions}
           found == {fresh.revisions[i] : i \in DOMAIN fresh.revisions}
       IN /\ Loaded(fresh)
          /\ confirmed' = confirmed \cup
               {q.request : q \in {r \in mine \cap found : r.revision = want[t]}}
  /\ UNCHANGED <<set, want, requests, crashes, overlapped, blinded>>

(* The GUI is killed, and started again: only the files are left.          *)
Kill ==
  /\ crashes < MaxCrashes
  /\ crashes' = crashes + 1
  /\ \/ CloseAll
     \/ \E t \in Threads : TornWrite(t)
  /\ pc' = [t \in Threads |-> "idle"]
  /\ set' = [t \in Threads |-> DefaultSet]
  /\ want' = [t \in Threads |-> 0]
  /\ UNCHANGED <<requests, confirmed, overlapped, blinded>>

Done ==
  /\ requests = MaxRequests /\ \A t \in Threads : pc[t] = "idle"
  /\ UNCHANGED vars

Next ==
  \/ \E t \in Threads :
       \/ \E activate \in BOOLEAN : Create(t, activate)
       \/ \E r \in 1..MaxRequests : SetActive(t, r)
       \/ Open(t) \/ Write(t) \/ Rename(t) \/ SaveFails(t) \/ Get(t)
  \/ Kill
  \/ Done

Spec == Init /\ [][Next]_vars

-----------------------------------------------------------------------------
(* What a CalibrationSetFile holds.                                        *)
Sets == [revisions : Seq([revision : Nat, request : Nat]), active : Nat,
         events : Seq([id : Nat, previous : Nat])]

(* The variables have their types.                                         *)
TypeOK ==
  /\ FilesOK
  /\ content \in [Files -> {Empty, Torn} \cup [doc : {"whole"}, text : Sets]]
  /\ set \in [Threads -> Sets]
  /\ pc \in [Threads -> {"idle", "open", "write", "rename", "get"}]
  /\ want \in [Threads -> Nat]
  /\ requests \in 0..MaxRequests /\ crashes \in 0..MaxCrashes
  /\ confirmed \subseteq Nat
  /\ overlapped \in BOOLEAN /\ blinded \in BOOLEAN

(* Revisions are numbered 1, 2, ..., the active one exists, and the audit  *)
(* trail is an unbroken chain that ends at the active one.                 *)
Consistent(s) ==
  /\ \A i \in DOMAIN s.revisions : s.revisions[i].revision = i
  /\ s.active \in {0} \cup Numbers(s)
  /\ \A i \in DOMAIN s.events :
       s.events[i].previous = IF i = 1 THEN 0 ELSE s.events[i - 1].id
  /\ s.active = IF s.events = <<>> THEN 0 ELSE Last(s.events).id

(* Whatever races and crashes there were, a set that can be read at all is *)
(* consistent.                                                             *)
AuditTrailUnbroken == Consistent(load_set)

Requests(s) == {s.revisions[i].request : i \in DOMAIN s.revisions}
Stored == Requests(load_set)

(* Without two commands in progress at the same time, a revision the user  *)
(* was shown as created stays in the set, whichever operation of a save    *)
(* or of an answer fails and whenever the GUI is killed, as long as every  *)
(* create could read the set that it extends.                              *)
SoloConfirmedKept == ~overlapped /\ ~blinded => confirmed \subseteq Stored

(* What calibration.rs says of itself: revisions are append-only, history  *)
(* is never overwritten.  It does not hold: a create that is refused the   *)
(* set saves its revision alone (README, section 4).                       *)
RevisionsAppendOnly == [][Stored \subseteq Stored']_vars

-----------------------------------------------------------------------------
(* Why they hold.                                                           *)

(* Every set in a file and every copy a command works on is consistent.    *)
CopiesConsistent ==
  /\ \A f \in Files : content[f].doc = "whole" => Consistent(content[f].text)
  /\ \A t \in Threads : Consistent(set[t])

(* A file is open only while it is written.                                *)
ClosedOutsideWrite == \A t \in Threads : pc[t] # "write" => handle[t] = NoFile

(* One command at a time has the temporary file for itself, and what it is *)
(* going to store holds every confirmed revision.                          *)
Solo ==
  ~overlapped /\ ~blinded =>
    /\ confirmed \subseteq Stored
    /\ \A t, u \in Threads : pc[t] # "idle" /\ pc[u] # "idle" => t = u
    /\ \A t \in Threads :
         /\ pc[t] \in {"open", "write", "rename"} => confirmed \subseteq Requests(set[t])
         /\ pc[t] = "write" => tmp # NoFile /\ handle[t] = tmp /\ content[tmp] = Empty
         /\ pc[t] = "rename" => tmp # NoFile /\ content[tmp] = Whole(set[t])

IndInv == TypeOK /\ CopiesConsistent /\ ClosedOutsideWrite /\ Solo
=============================================================================
