---------------------------- MODULE ArchiveStore ----------------------------
(***************************************************************************)
(* The store command (pf-cli/src/main.rs, cmd_store): a growing session    *)
(* file is archived into a directory of three files, again and again, with *)
(* or without --force, by processes that may fail or be killed between two *)
(* file operations.  A file is known by the number of session lines it was *)
(* made from: lines only grow, so that number gives its content.           *)
(***************************************************************************)
EXTENDS Archive

CONSTANTS
  Candidates,  (* the lines a session may get                              *)
  MaxLines,    (* bound: lines of a session                                *)
  Gaps,        (* milliseconds between one line and the next               *)
  Cadence      (* least milliseconds between two lines of a collector      *)

ASSUME StoreAssumption == MaxLines \in Nat /\ Gaps \subseteq Nat /\ Cadence \in Nat \ {0}

VARIABLES
  lines,   (* the session file                                             *)
  disk,    (* disk[f]: lines the file was made from, None when absent      *)
  st       (* the store in progress                                        *)

vars == <<lines, disk, st>>

Files == <<"manifest.json", "samples.bin", "events.jsonl">>
Idle == [phase |-> "idle", n |-> 0, of |-> 0, force |-> FALSE]

(* The header is written at the session's start.                           *)
Header == [coll |-> "header", mono |-> 0, wall |-> 5, win |-> None]

Init == lines = <<Header>> /\ disk = [f \in ToSet(Files) |-> None] /\ st = Idle

(* The monitor appends a line; a collector keeps its cadence.              *)
Record ==
  /\ Len(lines) <= MaxLines /\ st.phase = "idle"
  /\ \E l \in Candidates, gap \in Gaps :
       LET now == IF Len(lines) = 1 THEN Cadence ELSE Last(lines).mono + gap IN
         /\ \A i \in DOMAIN lines : lines[i].coll = l.coll => now - lines[i].mono >= Cadence
         /\ lines' = Append(lines, [l EXCEPT !.mono = now, !.wall = Header.wall + now])
  /\ UNCHANGED <<disk, st>>

existing == \E f \in ToSet(Files) : disk[f] # None

(* cmd_store up to its overwrite check: the session is loaded and migrated.*)
StartStore ==
  /\ st.phase = "idle" /\ Len(lines) > 1
  /\ \E force \in BOOLEAN :
       st' = IF existing /\ ~force THEN Idle
             ELSE [phase |-> "write", n |-> 0, of |-> Len(lines), force |-> force]
  /\ UNCHANGED <<lines, disk>>

(* A temp sibling is written; its name holds the process id.               *)
WriteTemp ==
  /\ st.phase = "write"
  /\ st' = IF st.n + 1 < Len(Files) THEN [st EXCEPT !.n = @ + 1]
           ELSE [st EXCEPT !.phase = "rename", !.n = 0]
  /\ UNCHANGED <<lines, disk>>

Rename ==
  /\ st.phase = "rename"
  /\ disk' = [disk EXCEPT ![Files[st.n + 1]] = st.of]
  /\ st' = IF st.n + 1 < Len(Files) THEN [st EXCEPT !.n = @ + 1] ELSE Idle
  /\ UNCHANGED lines

(* A write or a rename fails, or the process is killed: temps are removed  *)
(* or orphaned, what was renamed stays.                                    *)
Stopped ==
  /\ st.phase \in {"write", "rename"}
  /\ st' = Idle
  /\ UNCHANGED <<lines, disk>>

Next == Record \/ StartStore \/ WriteTemp \/ Rename \/ Stopped

Spec == Init /\ [][Next]_vars

-----------------------------------------------------------------------------
(* Properties.                                                              *)

(* The present readings of a session, each with its place.                 *)
Readings(points) ==
  UNION {{<<p.coll, p.t, None, m, p.own[m].p, p.own[m].v>> :
             m \in {x \in DOMAIN p.own : p.own[x].v # None}}
         \cup UNION {{<<p.coll, p.t, q.name, m, q.vals[m].p, q.vals[m].v>> :
                         m \in {x \in DOMAIN q.vals : q.vals[x].v # None}} :
                     q \in ToSet(p.parts)} : p \in points}

(* What the archive's keys cannot tell apart: two list entries of one tick *)
(* with the same name, a pid that changed hands.                           *)
Ambiguous(points, r) ==
  \/ \E p \in points : p.coll = r[1] /\ p.t = r[2] /\
       \E i, j \in DOMAIN p.parts : i # j /\ p.parts[i].name = r[3] /\ p.parts[j].name = r[3]
  \/ r[1] = "proc" /\ \E p \in points : p.coll = "proc" /\
       \E q \in ToSet(p.parts) : q.name[1] = r[3][1] /\ (q.name[2] # r[3][2] \/ q.ident[2] # None)

Session(n) == load_session(SubSeq(lines, 1, n))
(* The directory at rest, with the three files of one store.               *)
Uniform == st.phase = "idle" /\ \A f \in ToSet(Files) : disk[f] = disk["manifest.json"] /\ disk[f] # None
Archived == migrate(Session(disk["manifest.json"]))
Reloaded == load_archive_v2(Archived.manifest, Archived.samples, Archived.events)

(* An archive made by one store gives back exactly the readings of the     *)
(* session it was made from, values and provenance, at the same instants   *)
(* and for the same entities, apart from the entities its keys confuse;    *)
(* events, policies and battery data as well.                              *)
RoundTrip ==
  Uniform =>
    LET s == Session(disk["manifest.json"])
        source == ToSet(s.points)
        clear(rs) == {r \in rs : ~Ambiguous(source, r)}
    IN /\ clear(Readings(source)) = clear(Readings(Reloaded.points))
       /\ <<s.policy, s.meta, s.events>> = <<Reloaded.policy, Reloaded.meta, Reloaded.events>>

(* What cmd_store says of --force: a failed write does not harm the archive *)
(* there is before the replacement is complete.  Whatever three files a     *)
(* store left behind, what they read back as was recorded in the session.   *)
(* It does not hold when the renames are cut short (README, section 4).     *)
ReadingsWereRecorded ==
  st.phase = "idle" /\ (\A f \in ToSet(Files) : disk[f] # None) =>
    LET of(f) == Session(disk[f])
        back == load_archive_v2(migrate(of("manifest.json")).manifest, migrate(of("samples.bin")).samples,
                                migrate(of("events.jsonl")).events)
        source == ToSet(Session(Len(lines)).points)
    IN {r \in Readings(back.points) : ~Ambiguous(source, r)} \subseteq Readings(source)

(* The heap merge of the row export gives the rows in the order of the     *)
(* stable sort it replaced, ties between collectors included ("exactly the *)
(* stable sort's tie order").                                              *)
MergeIsStableSort ==
  st.phase = "idle" => LET s == Session(Len(lines)) IN raw_rows(s) = sorted_rows(s)

=============================================================================
