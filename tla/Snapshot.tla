------------------------------ MODULE Snapshot ------------------------------
(***************************************************************************)
(* What the analysis commands of the GUI promise while the agent is still  *)
(* writing the files: every part of an answer shows one state its file was *)
(* in between the request and the answer, and an overview is built under a *)
(* calibration that was active in that time, or under none.  What an       *)
(* answer says of a file's end (its footers) may be of another such        *)
(* moment.  Nothing is said of caches, indexes or the order of reads.      *)
(*                                                                         *)
(* A file is its script, cut at size; size counts half lines, so that an   *)
(* odd one ends in a torn line.  A range bound of 0 or None is open, and a  *)
(* line stamped 0 has no stamp.                                            *)
(***************************************************************************)
EXTENDS Integers, Sequences, FiniteSets

CONSTANTS Paths, Workers, Script, Calibrations, Requests, None, Corrupt, Refused

VARIABLES
  size,      (* half lines of each file                                    *)
  active,    (* the active calibration                                     *)
  phase,     (* idle, asked, done                                          *)
  since,     (* sizes at the request, calibrations active since then, and  *)
             (* the files that could not be told from an older state       *)
  asked,     (* the request: [kind, parts], a part is [path, from, to]     *)
  shown      (* the answer: per part the lines shown, or an error; the     *)
             (* ends of the files; the calibration                         *)

snapshotVars == <<size, active, phase, since, asked, shown>>

Whole(k) == k \div 2
Begun(k) == Whole(k + 1)
Bound(b) == IF b = None THEN 0 ELSE b
Past(part, w) == Bound(part.to) > 0 /\ w > Bound(part.to)
Within(part, w) == w = 0 \/ (Bound(part.from) <= w /\ ~Past(part, w))

(* A line that no reader may leave out: it is stamped inside the range,    *)
(* nothing before it is past the range, and everything from it on is after *)
(* the range's first instant.  In a file with rising stamps that is every  *)
(* line inside the range but those on its first instant.                   *)
Required(part, k, i) ==
  LET wall(j) == Script[part.path][j].wall IN
  /\ wall(i) > 0 /\ Within(part, wall(i))
  /\ \A j \in 1..(i - 1) : ~Past(part, wall(j))
  /\ \A j \in i..Begun(k) : wall(j) = 0 \/ wall(j) > Bound(part.from)

(* What may be shown of a part when its file is k long.  Every line shown  *)
(* is in the range, the header aside, and every required line is shown;    *)
(* only a torn file is corrupt.  A refused read shows nothing.             *)
Shows(part, k, got) ==
  IF got = Refused THEN TRUE
  ELSE IF got = Corrupt THEN k % 2 = 1
  ELSE /\ got \subseteq 1..Whole(k)
       /\ \A i \in got \ {1} : Within(part, Script[part.path][i].wall)
       /\ \A i \in 1..Whole(k) : Required(part, k, i) => i \in got

(* The footers of a file that is k long.                                   *)
EndsAt(p, k, end) == end = {i \in 1..Whole(k) : Script[p][i].coll = "footer"}

SnapshotInit ==
  /\ size \in [Paths -> Nat]
  /\ active \in Calibrations
  /\ phase = [w \in Workers |-> "idle"]

Grow(p) ==
  /\ size[p] < 2 * Len(Script[p])
  /\ size' = [size EXCEPT ![p] = @ + 1]
  /\ UNCHANGED <<active, phase, since, asked, shown>>

Activate(c) ==
  /\ active' = c
  /\ since' = [w \in Workers |-> IF phase[w] # "asked" THEN since[w]
                                  ELSE [since[w] EXCEPT !.cal = @ \cup {c}]]
  /\ UNCHANGED <<size, phase, asked, shown>>

Ask(w, r) ==
  /\ phase[w] # "asked"
  /\ phase' = [phase EXCEPT ![w] = "asked"]
  /\ since' = [since EXCEPT ![w] = [size |-> size, cal |-> {active}, old |-> {}]]
  /\ asked' = [asked EXCEPT ![w] = r]
  /\ \A v \in Workers \ {w} : shown'[v] = shown[v]
  /\ UNCHANGED <<size, active>>

(* The system would not say what state the file is in.                     *)
Unstamped(w, p) ==
  /\ phase[w] = "asked"
  /\ since' = [since EXCEPT ![w].old = @ \cup {p}]
  /\ UNCHANGED <<size, active, phase, asked, shown>>

(* Each part of an answer may show a moment of its own; of a file that     *)
(* could not be told from an older state, an older one.  An answer has all *)
(* of its parts, unless it ends in an error; an experiment always has.     *)
(* With an overview or a comparison comes the end of each file, and the    *)
(* end of an overview has the footers that its lines have.                 *)
Reply(w) ==
  LET parts == asked[w].parts
      got == shown'[w].parts
      ends == shown'[w].ends
      from(p) == IF p \in since[w].old THEN 0 ELSE since[w].size[p]
      failed == asked[w].kind # "experiment" /\ got[Len(got)] \in {Corrupt, Refused}
  IN /\ phase[w] = "asked"
     /\ phase' = [phase EXCEPT ![w] = "done"]
     /\ \A i \in DOMAIN got :
          \E k \in from(parts[i].path)..size[parts[i].path] : Shows(parts[i], k, got[i])
     /\ \A i \in DOMAIN ends :
          \E k \in from(parts[i].path)..size[parts[i].path] : EndsAt(parts[i].path, k, ends[i])
     /\ Len(got) = Len(parts) \/ failed
     /\ asked[w].kind \in {"overview", "compare"} => Len(ends) = Len(parts) \/ failed
     /\ asked[w].kind = "overview" =>
          /\ shown'[w].cal \in since[w].cal \cup {None}
          /\ failed \/ \A i \in got[1] : Script[parts[1].path][i].coll = "footer" => i \in ends[1]
     /\ \A v \in Workers \ {w} : shown'[v] = shown[v]
     /\ since' = [since EXCEPT ![w] = [size |-> <<>>, cal |-> {}, old |-> {}]]
     /\ UNCHANGED <<size, active, asked>>

SnapshotNext ==
  \/ \E p \in Paths : Grow(p)
  \/ \E c \in Calibrations : Activate(c)
  \/ \E w \in Workers : \E p \in Paths : Unstamped(w, p)
  \/ \E w \in Workers : Reply(w) \/ \E r \in Requests[w] : Ask(w, r)

SnapshotSpec == SnapshotInit /\ [][SnapshotNext]_snapshotVars
=============================================================================
