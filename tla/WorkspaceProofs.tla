--------------------------- MODULE WorkspaceProofs ---------------------------
(***************************************************************************)
(* Workspace implements Snapshot: with any number of commands over files   *)
(* that grow, any contents of the window indexes, the overview cache and   *)
(* the run cache, and any length of the files, a command answers with what *)
(* its files were at moments since it was asked.                           *)
(***************************************************************************)
EXTENDS Workspace, TLAPS

(* Numbers of lines.                                                       *)
LEMMA LinesFacts ==
  \A k \in Nat : /\ Lines(k) \in Nat /\ Lines(k + 1) \in Nat
                 /\ Lines(k) <= Lines(k + 1) /\ Lines(k + 1) <= Lines(k) + 1
                 /\ k % 2 = 0 => Lines(k + 1) = Lines(k)
                 /\ k % 2 \in {0, 1}
                 /\ Abstract!Whole(k) = Lines(k) /\ Abstract!Begun(k) = Lines(k + 1)
  BY DEF Lines, Abstract!Whole, Abstract!Begun

LEMMA LinesGrow ==
  \A k, n \in Nat : k <= n => Lines(k) <= Lines(n) /\ Lines(k + 1) <= Lines(n + 1)
  BY DEF Lines

LEMMA LinesBound ==
  \A k, n \in Nat : k <= 2 * n => Lines(k) <= n /\ Lines(k + 1) <= n
  BY DEF Lines

(* An open bound is 0.                                                     *)
LEMMA Bounds ==
  \A b \in Nat \cup {None} : /\ Or(b, 0) \in Nat /\ Abstract!Bound(b) = Or(b, 0)
                             /\ b \in Nat => Or(b, 0) = b
  BY WorkspaceAssumption DEF Or, Abstract!Bound

(* What a script is.                                                       *)
LEMMA Scripts ==
  ASSUME TypeOK, NEW p \in Paths
  PROVE  /\ size[p] \in Nat /\ Len(Script[p]) \in Nat
         /\ 1 <= Lines(size[p]) /\ Lines(size[p]) <= Len(Script[p])
         /\ Lines(size[p] + 1) <= Len(Script[p])
         /\ \A i \in 1..Len(Script[p]) : Script[p][i].wall \in Nat /\ Wall[p][i] = Script[p][i].wall
<1>1. size[p] \in Nat /\ 2 <= size[p] /\ size[p] <= 2 * Len(Script[p]) /\ Len(Script[p]) \in Nat
  BY WorkspaceAssumption DEF TypeOK
<1>2. 1 <= Lines(size[p])
  BY <1>1 DEF Lines
<1>3. \A i \in 1..Len(Script[p]) : Script[p][i].wall \in Nat /\ Wall[p][i] = Script[p][i].wall
  BY WorkspaceAssumption DEF Wall
<1> QED
  BY <1>1, <1>2, <1>3, LinesBound

(* Parts with the same bounds show the same.                               *)
LEMMA SameBounds ==
  ASSUME NEW a \in Parts, NEW b \in Parts, a.path = b.path,
         Or(a.from, 0) = Or(b.from, 0), Or(a.to, 0) = Or(b.to, 0), NEW k, NEW got
  PROVE  Abstract!Shows(a, k, got) <=> Abstract!Shows(b, k, got)
<1>1. Abstract!Bound(a.from) = Abstract!Bound(b.from) /\ Abstract!Bound(a.to) = Abstract!Bound(b.to)
  BY Bounds DEF Parts
<1> QED
  BY <1>1 DEF Abstract!Shows, Abstract!Required, Abstract!Within, Abstract!Past

-----------------------------------------------------------------------------
(* Reading a region.                                                        *)

(* The lines that are read and kept, with the stamps that can be seen.     *)
LEMMA RegionShows ==
  ASSUME TypeOK, NEW part \in Parts, NEW seen \in Seen(part.path), NEW start \in Nat,
         start > 0 => /\ start + 1 <= Lines(size[part.path] + 1)
                      /\ 0 < Script[part.path][start + 1].wall
                      /\ Script[part.path][start + 1].wall <= Or(part.from, 0)
  PROVE  Abstract!Shows(part, size[part.path], load_region(part.path, start, part, seen))
<1> DEFINE p == part.path
           n == Lines(size[p])
           m == Lines(size[p] + 1)
           from == Or(part.from, 0)
           to == Or(part.to, 0)
           wall(i) == Script[p][i].wall
           w(i) == IF i <= seen THEN Wall[p][i] ELSE 0
           read == {i \in (start + 1)..m : \A j \in (start + 1)..i : ~(to > 0 /\ w(j) > to)}
           kept == {i \in read : w(i) = 0 \/ w(i) >= from}
           got == kept \cup (IF start > 0 THEN {1} ELSE {})
<1>1. p \in Paths /\ from \in Nat /\ to \in Nat
      /\ Abstract!Bound(part.from) = from /\ Abstract!Bound(part.to) = to
  BY Bounds DEF Parts
<1>2. /\ n \in Nat /\ m \in Nat /\ 1 <= n /\ n <= m /\ m <= Len(Script[p]) /\ Len(Script[p]) \in Nat
      /\ seen \in n..m /\ size[p] \in Nat
  BY <1>1, Scripts, LinesFacts DEF Seen
<1>3. \A i \in 1..m : wall(i) \in Nat /\ w(i) \in {0, wall(i)} /\ (i <= n => w(i) = wall(i))
  BY <1>1, <1>2, Scripts
<1>4. Abstract!Whole(size[p]) = n /\ Abstract!Begun(size[p]) = m
  BY <1>2, LinesFacts
<1>5. load_region(p, start, part, seen) = IF \E i \in kept : i > n THEN Corrupt ELSE got
  BY DEF load_region
<1> HIDE DEF n, m, from, to
<1>6. CASE \E i \in kept : i > n
  <2>1. n # m
    BY <1>2, <1>6
  <2>2. size[p] % 2 = 1
    BY <1>2, <2>1, LinesFacts DEF n, m
  <2>3. load_region(p, start, part, seen) = Corrupt
    BY <1>5, <1>6
  <2> QED
    BY <2>2, <2>3 DEF Abstract!Shows
<1>7. CASE ~\E i \in kept : i > n
  <2>1. kept \subseteq 1..n
    BY <1>2, <1>7
  <2>2. got \subseteq 1..n
    BY <2>1, <1>2
  <2>3. got \notin {Corrupt, Refused}
    <3>1. got \in SUBSET DOMAIN Script[p]
      BY <1>1, <1>2, <2>2, WorkspaceAssumption
    <3> QED
      BY <1>1, <3>1, WorkspaceAssumption
  <2>4. \A i \in got \ {1} : Abstract!Within(part, wall(i))
    <3> SUFFICES ASSUME NEW i \in got \ {1} PROVE Abstract!Within(part, wall(i))
      OBVIOUS
    <3>1. i \in kept /\ i \in 1..n /\ i \in (start + 1)..i
      BY <2>1, <1>2
    <3>2. w(i) = wall(i) /\ wall(i) \in Nat
      BY <3>1, <1>2, <1>3
    <3>3. (wall(i) = 0 \/ wall(i) >= from) /\ ~(to > 0 /\ wall(i) > to)
      BY <3>1, <3>2
    <3> QED
      BY <3>2, <3>3, <1>1 DEF Abstract!Within, Abstract!Past
  <2>5. ASSUME NEW i \in 1..n, Abstract!Required(part, size[p], i)
        PROVE  i \in got
    <3>1. /\ wall(i) \in Nat /\ wall(i) > 0 /\ wall(i) >= from
          /\ \A j \in 1..i : ~(to > 0 /\ wall(j) > to)
          /\ \A j \in i..m : wall(j) = 0 \/ wall(j) > from
      <4>1. wall(i) \in Nat
        BY <1>2, <1>3
      <4>2. /\ wall(i) > 0 /\ Abstract!Within(part, wall(i))
            /\ \A j \in 1..(i - 1) : ~Abstract!Past(part, wall(j))
            /\ \A j \in i..m : wall(j) = 0 \/ wall(j) > from
        BY <2>5, <1>1, <1>4 DEF Abstract!Required
      <4>3. wall(i) >= from /\ ~(to > 0 /\ wall(i) > to)
        BY <1>1, <4>1, <4>2 DEF Abstract!Within, Abstract!Past
      <4>4. \A j \in 1..(i - 1) : ~(to > 0 /\ wall(j) > to)
        BY <1>1, <4>2 DEF Abstract!Past
      <4>5. \A j \in 1..i : j = i \/ j \in 1..(i - 1)
        BY <1>2
      <4> QED
        BY <4>1, <4>2, <4>3, <4>4, <4>5
    <3>2. start < i
      <4> SUFFICES ASSUME start >= i PROVE FALSE
        BY <1>2
      <4>1. start > 0 /\ start + 1 \in i..m
        BY <1>2 DEF m
      <4>2. 0 < wall(start + 1) /\ wall(start + 1) <= from
        BY <4>1 DEF from
      <4>3. wall(start + 1) \in Nat
        BY <4>1, <1>3, <1>2
      <4> QED
        BY <3>1, <4>1, <4>2, <4>3, <1>1
    <3>3. i \in (start + 1)..m
      BY <3>2, <1>2
    <3>4. \A j \in (start + 1)..i : ~(to > 0 /\ w(j) > to)
      <4> SUFFICES ASSUME NEW j \in (start + 1)..i PROVE ~(to > 0 /\ w(j) > to)
        OBVIOUS
      <4>1. j \in 1..i /\ j \in 1..n /\ j \in 1..m
        BY <1>2
      <4>2. w(j) = wall(j) /\ ~(to > 0 /\ wall(j) > to)
        BY <1>2, <1>3, <3>1, <4>1
      <4> QED
        BY <4>2
    <3>5. w(i) = wall(i)
      BY <1>2, <1>3
    <3> QED
      BY <3>1, <3>3, <3>4, <3>5
  <2> QED
    BY <1>4, <1>5, <1>7, <2>2, <2>3, <2>4, <2>5 DEF Abstract!Shows
<1> QED
  BY <1>6, <1>7

(* The lines are there to be read.                                         *)
LEMMA RegionLines ==
  ASSUME TypeOK, NEW part \in Parts, NEW seen \in Seen(part.path), NEW start \in Nat
  PROVE  LET lines == load_region(part.path, start, part, seen)
         IN lines = Corrupt \/ lines \subseteq 1..Lines(size[part.path])
<1> DEFINE p == part.path
           n == Lines(size[p])
           m == Lines(size[p] + 1)
           from == Or(part.from, 0)
           to == Or(part.to, 0)
           w(i) == IF i <= seen THEN Wall[p][i] ELSE 0
           read == {i \in (start + 1)..m : \A j \in (start + 1)..i : ~(to > 0 /\ w(j) > to)}
           kept == {i \in read : w(i) = 0 \/ w(i) >= from}
           got == kept \cup (IF start > 0 THEN {1} ELSE {})
<1>1. n \in Nat /\ m \in Nat /\ 1 <= n
  BY Scripts, LinesFacts DEF Parts
<1>2. load_region(p, start, part, seen) = IF \E i \in kept : i > n THEN Corrupt ELSE got
  BY DEF load_region
<1>3. \A i \in kept : i \in (start + 1)..m
  OBVIOUS
<1> HIDE DEF n, m, kept
<1>4. CASE ~\E i \in kept : i > n
  <2>1. got \subseteq 1..n
    BY <1>1, <1>3, <1>4
  <2> QED
    BY <1>2, <1>4, <2>1 DEF n
<1> QED
  BY <1>2, <1>4

(* Reading all of a file.                                                  *)
LEMMA FullShows ==
  ASSUME TypeOK, NEW p \in Paths
  PROVE  Abstract!Shows(WholeFile(p), size[p], IF Torn(size[p]) THEN Corrupt ELSE 1..Lines(size[p]))
<1> DEFINE n == Lines(size[p])
           part == WholeFile(p)
<1>1. size[p] \in Nat /\ n \in Nat /\ n <= Len(Script[p]) /\ Len(Script[p]) \in Nat
      /\ Abstract!Whole(size[p]) = n
  BY Scripts, LinesFacts
<1>0. \A i \in 1..n : Script[p][i].wall \in Nat
  BY <1>1, Scripts
<1>2. part.path = p /\ Abstract!Bound(part.from) = 0 /\ Abstract!Bound(part.to) = 0
  BY DEF WholeFile, Abstract!Bound
<1> HIDE DEF n, part
<1>3. 1..n \notin {Corrupt, Refused}
  <2>1. 1..n \in SUBSET DOMAIN Script[p]
    BY <1>1, WorkspaceAssumption
  <2> QED
    BY <2>1, WorkspaceAssumption
<1>4. \A i \in 1..n : Abstract!Within(part, Script[p][i].wall)
  BY <1>0, <1>2 DEF Abstract!Within, Abstract!Past
<1> QED
  BY <1>1, <1>2, <1>3, <1>4 DEF Abstract!Shows, Torn, n, part

-----------------------------------------------------------------------------
(* Window indexes.                                                          *)

(* The index is of stamped lines that were begun.                          *)
LEMMA IndexIsTrue ==
  ASSUME TypeOK, NEW p \in Paths, NEW seen \in Seen(p)
  PROVE  Checkpoints(p, build_window_index(p, seen))
<1> DEFINE offsets == {x \in 0..(seen - 1) : x % CheckpointEvery = 0 /\ Wall[p][x + 1] > 0}
           cps == build_window_index(p, seen)
<1>1. /\ Lines(size[p]) \in Nat /\ Lines(size[p] + 1) \in Nat /\ 1 <= Lines(size[p])
      /\ seen \in Lines(size[p])..Lines(size[p] + 1)
      /\ Lines(size[p] + 1) <= Len(Script[p]) /\ Len(Script[p]) \in Nat
  BY Scripts, LinesFacts DEF Seen
<1>2. cps = [o \in offsets |-> Wall[p][o + 1]]
  BY DEF build_window_index
<1>3. \A o \in offsets : Wall[p][o + 1] = Script[p][o + 1].wall /\ Wall[p][o + 1] > 0
  BY <1>1, Scripts
<1>4. 0 \in offsets
  <2>1. 0 % CheckpointEvery = 0
    BY WorkspaceAssumption
  <2>2. Wall[p][1] > 0
    BY <1>1, Scripts, WorkspaceAssumption
  <2> QED
    BY <1>1, <2>1, <2>2
<1>5. offsets \subseteq 0..(Lines(size[p] + 1) - 1)
  BY <1>1
<1> HIDE DEF offsets, cps
<1> QED
  BY <1>2, <1>3, <1>4, <1>5 DEF Checkpoints, cps

(* Wherever the search lands, the line is not after the range's start.     *)
LEMMA StartIsBefore ==
  ASSUME TypeOK, NEW p \in Paths, NEW cps, Checkpoints(p, cps), NEW from \in Nat,
         NEW o \in start_offset_for(cps, from)
  PROVE  /\ o \in Nat
         /\ o > 0 => /\ o + 1 <= Lines(size[p] + 1)
                     /\ 0 < Script[p][o + 1].wall /\ Script[p][o + 1].wall <= from
<1>1. Lines(size[p] + 1) \in Nat
  BY Scripts, LinesFacts
<1>2. CASE o = 0
  BY <1>2
<1>3. CASE o # 0
  <2>1. o \in DOMAIN cps
    BY <1>3 DEF start_offset_for
  <2>2. o \in 0..(Lines(size[p] + 1) - 1) /\ 0 \in DOMAIN cps /\ 0 <= o
    BY <2>1, <1>1 DEF Checkpoints
  <2>3. cps[o] <= from
    <3>1. ~\A q \in DOMAIN cps : o <= q
      BY <2>2, <1>3
    <3> QED
      BY <1>3, <3>1 DEF start_offset_for
  <2> QED
    BY <1>1, <2>1, <2>2, <2>3 DEF Checkpoints
<1> QED
  BY <1>2, <1>3

-----------------------------------------------------------------------------
(* A part arrives.                                                          *)

(* An answer is a set of line numbers or an error, and stays true of a     *)
(* longer time.                                                            *)
LEMMA ShownFacts ==
  ASSUME NEW part, NEW from \in Nat, NEW to \in Nat, NEW got, ShownIn(part, from, to, got)
  PROVE  /\ got \in Errors \cup SUBSET Nat
         /\ \A n \in Nat : n <= from => ShownIn(part, n, to, got)
         /\ \A n \in Nat : to <= n => ShownIn(part, from, n, got)
<1>1. PICK k \in from..to : Abstract!Shows(part, k, got)
  BY DEF ShownIn
<1>2. got \in Errors \cup SUBSET Nat
  <2>1. got \in Errors \/ got \subseteq 1..Abstract!Whole(k)
    BY <1>1 DEF Abstract!Shows, Errors
  <2>2. Abstract!Whole(k) \in Nat
    BY DEF Abstract!Whole
  <2>3. 1..Abstract!Whole(k) \subseteq Nat
    BY <2>2
  <2> QED
    BY <2>1, <2>3
<1>3. ASSUME NEW n \in Nat, n <= from PROVE ShownIn(part, n, to, got)
  <2>1. k \in n..to
    BY <1>3
  <2> QED
    BY <1>1, <2>1 DEF ShownIn
<1>4. ASSUME NEW n \in Nat, to <= n PROVE ShownIn(part, from, n, got)
  <2>1. k \in from..n
    BY <1>4
  <2> QED
    BY <1>1, <2>1 DEF ShownIn
<1> QED
  BY <1>2, <1>3, <1>4

(* Lines that are held are no error.                                       *)
LEMMA HeldIsNoError ==
  ASSUME TypeOK, NEW p \in Paths, NEW k \in Nat, k <= size[p], NEW lines, lines \subseteq 1..Lines(k)
  PROVE  lines \notin Errors
<1>1. /\ size[p] \in Nat /\ Lines(k) \in Nat /\ Lines(k) <= Lines(size[p]) /\ Lines(size[p]) \in Nat
      /\ Lines(size[p]) <= Len(Script[p]) /\ Len(Script[p]) \in Nat
  BY Scripts, LinesFacts, LinesGrow
<1>2. lines \in SUBSET DOMAIN Script[p]
  BY <1>1, WorkspaceAssumption
<1> QED
  BY <1>2, WorkspaceAssumption DEF Errors

LEMMA EndFacts ==
  ASSUME NEW p, NEW from \in Nat, NEW to \in Nat, NEW end, EndIn(p, from, to, end)
  PROVE  /\ \A n \in Nat : n <= from => EndIn(p, n, to, end)
         /\ \A n \in Nat : to <= n => EndIn(p, from, n, end)
<1>1. PICK k \in from..to : Abstract!EndsAt(p, k, end)
  BY DEF EndIn
<1>2. ASSUME NEW n \in Nat, n <= from PROVE EndIn(p, n, to, end)
  <2>1. k \in n..to
    BY <1>2
  <2> QED
    BY <1>1, <2>1 DEF EndIn
<1>3. ASSUME NEW n \in Nat, to <= n PROVE EndIn(p, from, n, end)
  <2>1. k \in from..n
    BY <1>3
  <2> QED
    BY <1>1, <2>1 DEF EndIn
<1> QED
  BY <1>2, <1>3

LEMMA IdleFacts ==
  /\ Idle \in Jobs /\ Idle.pc = "idle" /\ Idle.got = <<>> /\ Idle.ends = <<>>
  /\ Idle.fp = 0 /\ Idle.start = 0
  /\ Idle.at = [size |-> <<>>, cal |-> {}, old |-> {}]
  BY DEF Idle, Jobs

(* The fields of a job, each a set that need not be looked into.           *)
Pcs == {"idle", "calibration", "fingerprint", "cache", "full", "interval", "tail", "meta",
        "stat", "index", "read", "done"}
Reqs == {Idle.req} \cup UNION {Requests[w] : w \in Workers}
Ats == [size : {<<>>} \cup [Paths -> Nat], cal : SUBSET Nat, old : SUBSET Paths]
Ends == Seq(SUBSET Nat)
Gots == Seq(Errors \cup SUBSET Nat)

JobSet == [pc : Pcs, req : Reqs, at : Ats, cal : {None} \cup Nat, fp : Nat, stat : Nat,
           start : Nat, held : SUBSET Nat, ends : Ends, got : Gots]

LEMMA JobsAre == Jobs = JobSet
  BY DEF Jobs, JobSet, Pcs, Reqs, Ats, Ends, Gots

(* The kinds of commands.                                                  *)
LEMMA KindFacts ==
  \A w \in Workers : \A r \in Requests[w] : r.kind \in {"overview", "range", "compare", "experiment"}
  BY WorkspaceAssumption

(* Where a command begins, and each next part.                             *)
LEMMA FirstPcFacts ==
  \A kind \in {"overview", "range", "compare", "experiment"} :
    /\ FirstPc(kind) \in {"calibration", "fingerprint", "interval"} /\ FirstPc(kind) \in Stage(kind)
    /\ FirstPc(kind) = "calibration" <=> kind = "overview"
    /\ FirstPc(kind) = "fingerprint" <=> kind = "experiment"
    /\ NextPc(kind) \in {"fingerprint", "stat"}
    /\ kind # "overview" => NextPc(kind) \in Stage(kind)
    /\ NextPc(kind) = "fingerprint" <=> kind = "experiment"
  BY DEF FirstPc, NextPc, Stage

(* The part a busy worker is at.                                           *)
LEMMA PartFacts ==
  ASSUME TypeOK, NEW w \in Workers, AtWork(w), Busy(job[w])
  PROVE  /\ job[w] \in Jobs /\ job[w].req \in Requests[w]
         /\ job[w].req.parts \in Seq(Parts)
         /\ Len(job[w].got) \in Nat /\ Len(job[w].req.parts) \in Nat
         /\ \A i \in 1..(Len(job[w].got) + 1) : job[w].req.parts[i] \in Parts
         /\ Part(w) \in Parts /\ Part(w).path \in Paths
         /\ Part(w) = job[w].req.parts[Len(job[w].got) + 1]
         /\ job[w].req.kind = "overview" =>
              /\ Part(w) = WholeFile(Part(w).path)
              /\ Len(job[w].got) + 1 = Len(job[w].req.parts)
<1> DEFINE parts == job[w].req.parts
           n == Len(job[w].got)
<1>1. job[w] \in Jobs /\ job[w].req \in Requests[w] /\ n < Len(parts)
  BY DEF TypeOK, AtWork
<1>2. parts \in Seq(Parts)
  BY <1>1, WorkspaceAssumption
<1>3. n \in Nat /\ Len(parts) \in Nat
  BY <1>1, <1>2 DEF Jobs
<1>4. \A i \in 1..(n + 1) : parts[i] \in Parts
  BY <1>1, <1>2, <1>3
<1>5. Part(w) = parts[n + 1] /\ Part(w) \in Parts
  BY <1>3, <1>4 DEF Part
<1>6. Part(w).path \in Paths
  BY <1>5 DEF Parts
<1>7. ASSUME job[w].req.kind = "overview"
      PROVE  Part(w) = WholeFile(Part(w).path) /\ n + 1 = Len(parts)
  <2>1. Len(parts) = 1 /\ parts[1].from = None /\ parts[1].to = None
    BY <1>1, <1>7, WorkspaceAssumption
  <2>2. n = 0
    BY <1>1, <1>3, <2>1
  <2> QED
    BY <1>5, <2>1, <2>2 DEF Parts, WholeFile
<1> QED
  BY <1>1, <1>2, <1>3, <1>4, <1>5, <1>6, <1>7

(* Got, field by field.                                                    *)
Over(j, lines) == \/ Len(j.got) + 1 = Len(j.req.parts)
                  \/ lines \in Errors /\ j.req.kind # "experiment"
Taken(j, lines, ends) == [Got(j, lines) EXCEPT !.ends = ends]

(* With another part, a job is a job.                                     *)
LEMMA GotIsJob ==
  ASSUME NEW j \in Jobs, NEW lines \in Errors \cup SUBSET Nat
  PROVE  Got(j, lines) \in JobSet /\ Got(j, lines).cal = j.cal
<1> DEFINE got == Append(j.got, lines)
           over == \/ Len(got) = Len(j.req.parts)
                   \/ lines \in Errors /\ j.req.kind # "experiment"
           at == IF over THEN Idle.at ELSE j.at
           pc == IF over THEN "done" ELSE NextPc(j.req.kind)
           h == [j EXCEPT !.got = got, !.fp = 0, !.stat = 0, !.start = 0, !.held = {},
                          !.at = at, !.pc = pc]
<1>1. j.got \in Seq(Errors \cup SUBSET Nat) /\ j \in JobSet
  BY JobsAre DEF Jobs
<1>2. got \in Gots
  BY <1>1 DEF Gots
<1>3. at \in Ats
  BY IdleFacts DEF Jobs, Ats
<1>4. pc \in Pcs
  BY DEF NextPc, Pcs
<1>5. Got(j, lines) = h
  BY DEF Got
<1> HIDE DEF got, over, at, pc
<1>6. h \in JobSet /\ h.cal = j.cal
  BY <1>1, <1>2, <1>3, <1>4 DEF JobSet
<1> HIDE DEF h
<1> QED
  BY <1>5, <1>6

LEMMA GotFacts ==
  ASSUME NEW j \in Jobs, NEW lines \in Errors \cup SUBSET Nat, NEW ends \in Seq(SUBSET Nat)
  PROVE  LET g == Taken(j, lines, ends) IN
         /\ g \in Jobs /\ g.req = j.req /\ g.cal = j.cal
         /\ g.fp = 0 /\ g.stat = 0 /\ g.start = 0 /\ g.held = {} /\ g.ends = ends
         /\ g.got = Append(j.got, lines) /\ Len(g.got) = Len(j.got) + 1
         /\ g.got[Len(g.got)] = lines
         /\ \A i \in 1..Len(j.got) : g.got[i] = j.got[i]
         /\ DOMAIN g.got = 1..(Len(j.got) + 1) /\ Len(j.got) \in Nat
         /\ g.at = IF Over(j, lines) THEN Idle.at ELSE j.at
         /\ g.pc = IF Over(j, lines) THEN "done" ELSE NextPc(j.req.kind)
<1> DEFINE got == Append(j.got, lines)
           over == \/ Len(got) = Len(j.req.parts)
                   \/ lines \in Errors /\ j.req.kind # "experiment"
           at == IF over THEN Idle.at ELSE j.at
           pc == IF over THEN "done" ELSE NextPc(j.req.kind)
           g == Taken(j, lines, ends)
<1>1. j.got \in Seq(Errors \cup SUBSET Nat)
  BY DEF Jobs
<1>2. /\ got \in Seq(Errors \cup SUBSET Nat) /\ Len(got) = Len(j.got) + 1
      /\ Len(j.got) \in Nat /\ got[Len(got)] = lines
      /\ \A i \in 1..Len(j.got) : got[i] = j.got[i]
      /\ DOMAIN got = 1..(Len(j.got) + 1)
  BY <1>1
<1>3. over <=> Over(j, lines)
  BY <1>2 DEF Over
<1>4. at \in [size : {<<>>} \cup [Paths -> Nat], cal : SUBSET Nat, old : SUBSET Paths]
  BY IdleFacts DEF Jobs
<1>5. pc \in {"fingerprint", "stat", "done"}
  BY DEF NextPc
<1>6. Got(j, lines) = [j EXCEPT !.got = got, !.fp = 0, !.stat = 0, !.start = 0, !.held = {},
                                !.at = at, !.pc = pc]
  BY DEF Got
<1>7. g = [Got(j, lines) EXCEPT !.ends = ends]
  BY DEF Taken
<1> HIDE DEF got, over, at, pc, g
<1>8. /\ g.req = j.req /\ g.cal = j.cal /\ g.fp = 0 /\ g.stat = 0 /\ g.start = 0 /\ g.held = {}
      /\ g.got = got /\ g.at = at /\ g.pc = pc /\ g.ends = ends
  BY <1>6, <1>7 DEF Jobs
<1>9. g \in Jobs
  <2> DEFINE h == Got(j, lines)
  <2>1. h \in JobSet /\ ends \in Ends
    BY GotIsJob DEF Ends
  <2> HIDE DEF h
  <2>2. [h EXCEPT !.ends = ends] \in JobSet
    BY <2>1 DEF JobSet
  <2> QED
    BY <1>7, <2>2, JobsAre DEF h
<1> QED
  BY <1>2, <1>3, <1>8, <1>9 DEF got, over, at, pc, g

(* Without new ends a part is simply got.                                  *)
LEMMA SameEnds ==
  ASSUME NEW j \in Jobs, NEW lines \in Errors \cup SUBSET Nat
  PROVE  Taken(j, lines, j.ends) = Got(j, lines)
<1> DEFINE g == Got(j, lines)
           got == Append(j.got, lines)
           over == \/ Len(got) = Len(j.req.parts)
                   \/ lines \in Errors /\ j.req.kind # "experiment"
           at == IF over THEN Idle.at ELSE j.at
           pc == IF over THEN "done" ELSE NextPc(j.req.kind)
<1>1. g = [j EXCEPT !.got = got, !.fp = 0, !.stat = 0, !.start = 0, !.held = {}, !.at = at, !.pc = pc]
  BY DEF Got
<1> HIDE DEF g, got, over, at, pc
<1>2. g.ends = j.ends /\ [g EXCEPT !.ends = j.ends] = g
  BY <1>1 DEF Jobs
<1> QED
  BY <1>2 DEF Taken, g

LEMMA SinceFacts ==
  ASSUME TypeOK, NEW w \in Workers, AtWork(w), PartsTrue(w), Busy(job[w]), NEW p \in Paths
  PROVE  Since(job[w], p) \in Nat /\ Since(job[w], p) <= size[p] /\ size[p] \in Nat
<1>1. job[w].at.size[p] \in Nat /\ size[p] \in Nat /\ job[w].at.size[p] <= size[p]
  BY DEF TypeOK, AtWork, PartsTrue
<1> QED
  BY <1>1 DEF Since

(* A step in which a worker gets its part, of a moment since it was asked, *)
(* and an overview its end.                                                *)
Complete(w, lines) == job[w].req.kind = "overview" /\ lines \notin Errors
Receives(w, lines, ends) ==
  LET p == Part(w).path IN
  /\ Busy(job[w])
  /\ ShownIn(Part(w), Since(job[w], p), size[p], lines)
  /\ job[w].req.kind = "overview" => job[w].cal \in job[w].at.cal \cup {None}
  /\ ends \in Seq(SUBSET Nat)
  /\ Complete(w, lines) => /\ Len(ends) = 1 /\ EndIn(p, Since(job[w], p), size[p], ends[1])
                           /\ Ended(p, lines, ends[1])
  /\ ~Complete(w, lines) => ends = job[w].ends
  /\ job[w].req.kind = "compare" => lines \in Errors \/ job[w].pc \notin {"interval", "meta"}
  /\ job' = [job EXCEPT ![w] = Taken(job[w], lines, ends)]
  /\ size' = size /\ active' = active /\ left' = left /\ refusals' \in Nat

LEMMA ReceiveInd ==
  ASSUME IndInv, NEW w \in Workers, NEW lines, NEW ends, Receives(w, lines, ends)
  PROVE  /\ TypeOK'
         /\ \A v \in Workers : AtWork(v)' /\ PartsTrue(v)' /\ HeldTrue(v)' /\ EndsTrue(v)' /\ StartTrue(v)'
<1> DEFINE j == job[w]
           g == Taken(job[w], lines, ends)
           p == Part(w).path
<1>1. /\ TypeOK /\ AtWork(w) /\ PartsTrue(w) /\ EndsTrue(w) /\ Busy(j)
      /\ p \in Paths /\ j \in Jobs /\ Part(w) \in Parts
      /\ Part(w) = j.req.parts[Len(j.got) + 1]
      /\ j.req.parts \in Seq(Parts) /\ Len(j.req.parts) \in Nat /\ Len(j.got) \in Nat
      /\ Len(j.got) < Len(j.req.parts) /\ j.req \in Requests[w]
  BY PartFacts DEF IndInv, Receives, AtWork
<1>a. j.req.kind = "overview" => Len(j.got) + 1 = Len(j.req.parts)
  BY <1>1, PartFacts, Zenon
<1>2. Since(j, p) \in Nat /\ size[p] \in Nat
  BY <1>1, SinceFacts
<1>3. lines \in Errors \cup SUBSET Nat
  BY <1>2, ShownFacts DEF Receives
<1>4. /\ g \in Jobs /\ g.req = j.req /\ g.cal = j.cal
      /\ g.fp = 0 /\ g.start = 0 /\ g.ends = ends /\ Len(g.got) = Len(j.got) + 1
      /\ \A i \in 1..Len(j.got) : g.got[i] = j.got[i]
      /\ g.got[Len(j.got) + 1] = lines /\ DOMAIN g.got = 1..(Len(j.got) + 1)
      /\ g.at = IF Over(j, lines) THEN Idle.at ELSE j.at
      /\ g.pc = IF Over(j, lines) THEN "done" ELSE NextPc(j.req.kind)
  <2>1. ends \in Seq(SUBSET Nat)
    BY DEF Receives
  <2> QED
    BY <1>1, <1>3, <2>1, GotFacts
<1>5. job'[w] = g /\ \A v \in Workers \ {w} : job'[v] = job[v]
  BY DEF Receives, IndInv, TypeOK
<1>b. /\ job' = [job EXCEPT ![w] = g] /\ size' = size /\ active' = active /\ left' = left
      /\ refusals' \in Nat
  BY DEF Receives
<1> HIDE DEF j, g, p
<1>6. TypeOK'
  BY <1>1, <1>4, <1>b DEF TypeOK
<1>7. ASSUME NEW v \in Workers \ {w}
      PROVE  AtWork(v)' /\ PartsTrue(v)' /\ HeldTrue(v)' /\ EndsTrue(v)' /\ StartTrue(v)'
  <2>1. AtWork(v)' /\ PartsTrue(v)'
    BY <1>5, <1>7, <1>b DEF IndInv, AtWork, PartsTrue, Part
  <2>2. HeldTrue(v)' /\ EndsTrue(v)' /\ StartTrue(v)'
    BY <1>5, <1>7, <1>b DEF IndInv, HeldTrue, EndsTrue, StartTrue, Part
  <2> QED
    BY <2>1, <2>2
<1>8. CASE Over(j, lines)
  <2>1. job'[w].pc = "done"
    BY <1>4, <1>5, <1>8
  <2> QED
    BY <1>6, <1>7, <2>1 DEF AtWork, PartsTrue, HeldTrue, Holds, EndsTrue, StartTrue, Busy
<1>9. CASE ~Over(j, lines)
  <2>1. /\ g.at = j.at /\ g.pc = NextPc(j.req.kind) /\ Len(g.got) < Len(j.req.parts)
        /\ Len(g.got) \in Nat
    BY <1>1, <1>4, <1>9 DEF Over
  <2>2. j.req.kind # "overview" /\ j.req.kind \in {"range", "compare", "experiment"}
    BY <1>1, <1>a, <1>9, KindFacts DEF Over
  <2>3. /\ g.pc \in {"fingerprint", "stat"} /\ g.pc \in Stage(j.req.kind)
        /\ g.pc = "fingerprint" <=> j.req.kind = "experiment"
    BY <2>1, <2>2, FirstPcFacts
  <2>4. AtWork(w)'
    BY <1>1, <1>4, <1>5, <2>1, <2>2, <2>3 DEF AtWork, j
  <2>5. StartTrue(w)' /\ HeldTrue(w)'
    BY <1>5, <2>3 DEF StartTrue, HeldTrue, Holds
  <2>6. ASSUME NEW i \in DOMAIN g.got
        PROVE  ShownIn(j.req.parts[i], Since(j, j.req.parts[i].path), size[j.req.parts[i].path], g.got[i])
    <3>1. CASE i = Len(j.got) + 1
      BY <1>1, <1>4, <3>1 DEF Receives, j, p
    <3>2. CASE i # Len(j.got) + 1
      <4>1. i \in 1..Len(j.got) /\ i \in DOMAIN j.got
        BY <1>1, <1>4, <3>2 DEF Jobs
      <4> QED
        BY <1>1, <1>4, <4>1 DEF PartsTrue, j
    <3> QED
      BY <3>1, <3>2
  <2>7. 0 <= size'[Part(w)'.path]
    <3>1. Part(w)' = j.req.parts[Len(g.got) + 1]
      BY <1>4, <1>5 DEF Part
    <3>2. Len(g.got) + 1 \in 1..Len(j.req.parts)
      BY <1>1, <2>1
    <3>3. Part(w)' \in Parts
      BY <1>1, <3>1, <3>2
    <3> QED
      BY <3>3, <1>6 DEF TypeOK, Parts
  <2>8. PartsTrue(w)'
    BY <1>1, <1>4, <1>5, <1>b, <2>1, <2>2, <2>3, <2>6, <2>7 DEF PartsTrue, Since, j
  <2>9. EndsTrue(w)'
    <3>1. ends = j.ends
      BY <2>2 DEF Receives, Complete, j
    <3>2. j.req.kind = "compare" => j.pc \notin {"interval", "meta"}
      BY <1>9 DEF Receives, Over, j
    <3>3. Len(ends) = IF j.req.kind # "compare" THEN 0 ELSE Len(j.req.parts)
      BY <1>1, <3>1, <3>2 DEF EndsTrue, j
    <3>4. \A i \in DOMAIN ends :
            LET q == j.req.parts[i].path IN EndIn(q, Since(j, q), size[q], ends[i])
      BY <1>1, <3>1 DEF EndsTrue, j
    <3>5. \A q : Since(g, q) = Since(j, q)
      BY <2>1 DEF Since
    <3>6. Busy(g) /\ g.pc \notin {"interval", "meta"}
      BY <2>3 DEF Busy
    <3> QED
      BY <1>4, <1>5, <1>b, <3>3, <3>4, <3>5, <3>6 DEF EndsTrue
  <2> QED
    BY <1>6, <1>7, <2>4, <2>5, <2>8, <2>9
<1> QED
  BY <1>8, <1>9

-----------------------------------------------------------------------------
(* Steps as Snapshot sees them.                                             *)

(* What Snapshot sees of a worker.                                         *)
Answer(j) == IF j.pc = "done" THEN [parts |-> j.got, ends |-> j.ends, cal |-> j.cal]
             ELSE [parts |-> <<>>, ends |-> <<>>, cal |-> None]
Same(v) == /\ Phase(job'[v]) = Phase(job[v]) /\ job'[v].at = job[v].at
           /\ job'[v].req = job[v].req /\ Answer(job'[v]) = Answer(job[v])

LEMMA Stutters ==
  ASSUME size' = size, active' = active, \A v \in Workers : Same(v)
  PROVE  UNCHANGED Abstract!snapshotVars
  BY DEF Abstract!snapshotVars, Same, Answer

(* A worker that goes on shows nothing.                                    *)
LEMMA BusyIsSame ==
  ASSUME NEW v, Busy(job[v]), Busy(job'[v]), job'[v].at = job[v].at, job'[v].req = job[v].req
  PROVE  Same(v)
  BY DEF Busy, Same, Phase, Answer

LEMMA ReceiveStep ==
  ASSUME IndInv, NEW w \in Workers, NEW lines, NEW ends, Receives(w, lines, ends)
  PROVE  [Abstract!SnapshotNext]_(Abstract!snapshotVars)
<1> DEFINE j == job[w]
           g == Taken(job[w], lines, ends)
           p == Part(w).path
<1>1. /\ TypeOK /\ AtWork(w) /\ PartsTrue(w) /\ EndsTrue(w) /\ Busy(j)
      /\ p \in Paths /\ j \in Jobs /\ j.req \in Requests[w]
      /\ Part(w) = j.req.parts[Len(j.got) + 1] /\ Len(j.got) \in Nat /\ Len(j.req.parts) \in Nat
  BY PartFacts DEF IndInv, Receives
<1>a. j.req.kind = "overview" => Len(j.got) + 1 = Len(j.req.parts) /\ Len(j.req.parts) = 1
  <2>1. j.req.kind = "overview" => Len(j.got) + 1 = Len(j.req.parts)
    BY <1>1, PartFacts, Zenon
  <2> QED
    BY <1>1, <2>1, WorkspaceAssumption
<1>2. Since(j, p) \in Nat /\ size[p] \in Nat
  BY <1>1, SinceFacts
<1>3. lines \in Errors \cup SUBSET Nat
  BY <1>2, ShownFacts DEF Receives
<1>4. /\ g.req = j.req /\ g.cal = j.cal /\ Len(g.got) = Len(j.got) + 1 /\ g.ends = ends
      /\ \A i \in 1..Len(j.got) : g.got[i] = j.got[i]
      /\ g.got[Len(g.got)] = lines /\ DOMAIN g.got = 1..(Len(j.got) + 1)
      /\ g.at = IF Over(j, lines) THEN Idle.at ELSE j.at
      /\ g.pc = IF Over(j, lines) THEN "done" ELSE NextPc(j.req.kind)
  <2>1. ends \in Seq(SUBSET Nat)
    BY DEF Receives
  <2> QED
    BY <1>1, <1>3, <2>1, GotFacts
<1>5. job'[w] = g /\ \A v \in Workers \ {w} : job'[v] = job[v]
  BY DEF Receives, IndInv, TypeOK
<1>b. size' = size /\ active' = active
  BY DEF Receives
<1> HIDE DEF j, g, p
<1>6. \A v \in Workers \ {w} : Same(v)
  BY <1>5 DEF Same, Phase, Answer
<1>7. CASE Over(j, lines)
  <2> DEFINE failed == j.req.kind # "experiment" /\ g.got[Len(g.got)] \in {Corrupt, Refused}
  <2>1. /\ g.pc = "done" /\ g.at = [size |-> <<>>, cal |-> {}, old |-> {}]
    BY <1>4, <1>7, IdleFacts
  <2>2. /\ Phase(j) = "asked" /\ Phase(g) = "done"
        /\ Answer(g) = [parts |-> g.got, ends |-> g.ends, cal |-> g.cal]
    BY <1>1, <2>1 DEF Phase, Busy, Answer
  <2>3. ASSUME NEW i \in DOMAIN g.got
        PROVE  \E k \in Since(j, j.req.parts[i].path)..size[j.req.parts[i].path] :
                 Abstract!Shows(j.req.parts[i], k, g.got[i])
    <3>1. CASE i = Len(j.got) + 1
      BY <1>1, <1>4, <3>1 DEF Receives, ShownIn, j, p
    <3>2. CASE i # Len(j.got) + 1
      <4>1. i \in 1..Len(j.got) /\ i \in DOMAIN j.got
        BY <1>1, <1>4, <3>2 DEF Jobs
      <4> QED
        BY <1>1, <1>4, <4>1 DEF PartsTrue, ShownIn, j
    <3> QED
      BY <3>1, <3>2
  <2>4. Len(g.got) = Len(j.req.parts) \/ failed
    BY <1>4, <1>7 DEF Over, Errors
  <2>5. j.req.kind = "overview" => g.cal \in j.at.cal \cup {None}
    BY <1>4 DEF Receives, j
  <2>6. /\ \A i \in DOMAIN ends :
             \E k \in Since(j, j.req.parts[i].path)..size[j.req.parts[i].path] :
               Abstract!EndsAt(j.req.parts[i].path, k, ends[i])
        /\ j.req.kind \in {"overview", "compare"} => Len(ends) = Len(j.req.parts) \/ failed
        /\ j.req.kind = "overview" =>
             failed \/ \A i \in g.got[1] :
                         Script[j.req.parts[1].path][i].coll = "footer" => i \in ends[1]
    <3>1. CASE Complete(w, lines)
      <4>1. j.req.kind = "overview" /\ lines \notin Errors /\ Len(j.req.parts) = 1 /\ Len(j.got) = 0
        BY <1>1, <1>a, <3>1 DEF Complete, j
      <4>2. /\ Len(ends) = 1 /\ EndIn(p, Since(j, p), size[p], ends[1]) /\ Ended(p, lines, ends[1])
            /\ ends \in Seq(SUBSET Nat)
        BY <3>1 DEF Receives, j, p
      <4>3. g.got[1] = lines /\ j.req.parts[1].path = p
        BY <1>1, <1>4, <4>1 DEF p
      <4>4. \A i \in DOMAIN ends : i = 1
        BY <4>2
      <4> QED
        BY <4>1, <4>2, <4>3, <4>4 DEF EndIn, Ended
    <3>2. CASE ~Complete(w, lines)
      <4>1. ends = j.ends
        BY <3>2 DEF Receives, j
      <4>2. lines \in Errors /\ j.req.kind # "experiment" => failed
        BY <1>4 DEF Errors
      <4>3. j.req.kind = "overview" => failed
        BY <3>2, <4>2 DEF Complete, j
      <4>4. j.req.kind = "compare" => Len(ends) = Len(j.req.parts) \/ failed
        BY <1>1, <4>1, <4>2 DEF Receives, EndsTrue, j
      <4>5. \A i \in DOMAIN ends :
              LET q == j.req.parts[i].path IN EndIn(q, Since(j, q), size[q], ends[i])
        BY <1>1, <4>1 DEF EndsTrue, j
      <4> QED
        BY <4>3, <4>4, <4>5 DEF EndIn
    <3> QED
      BY <3>1, <3>2
  <2>7. Abstract!Reply(w)
    <3>2. [v \in Workers |-> Phase(job'[v])] = [[v \in Workers |-> Phase(job[v])] EXCEPT ![w] = "done"]
      BY <1>5, <1>6, <2>2 DEF Same
    <3>3. [v \in Workers |-> job'[v].at]
            = [[v \in Workers |-> job[v].at] EXCEPT ![w] = [size |-> <<>>, cal |-> {}, old |-> {}]]
      BY <1>5, <1>6, <2>1 DEF Same
    <3>4. [v \in Workers |-> job'[v].req] = [v \in Workers |-> job[v].req]
      BY <1>4, <1>5 DEF j
    <3>5. \A v \in Workers \ {w} : Answer(job'[v]) = Answer(job[v])
      BY <1>6 DEF Same
    <3>6. Phase(job[w]) = "asked"
      BY <2>2 DEF j
    <3>7. Answer(job'[w]).parts = g.got /\ Answer(job'[w]).cal = g.cal /\ Answer(job'[w]).ends = ends
      BY <1>4, <1>5, <2>2
    <3> HIDE DEF failed
    <3>8. failed <=> job[w].req.kind # "experiment" /\ g.got[Len(g.got)] \in {Corrupt, Refused}
      BY DEF failed, j
    <3> QED
      BY <1>b, <2>3, <2>4, <2>5, <2>6, <3>2, <3>3, <3>4, <3>5, <3>6, <3>7, <3>8
      DEF Abstract!Reply, Answer, Since, j
  <2> QED
    BY <2>7 DEF Abstract!SnapshotNext
<1>8. CASE ~Over(j, lines)
  <2>1. g.at = j.at /\ g.pc \in {"fingerprint", "stat"}
    BY <1>4, <1>8 DEF NextPc
  <2>2. Same(w)
    BY <1>1, <1>4, <1>5, <2>1, BusyIsSame DEF Busy, j
  <2> QED
    BY <1>6, <1>b, <2>2, Stutters
<1> QED
  BY <1>7, <1>8

(* A step in which a busy worker goes on to its next file operation.       *)
Moves(w) ==
  /\ Busy(job[w]) /\ Busy(job'[w])
  /\ job' \in [Workers -> Jobs] /\ \A v \in Workers \ {w} : job'[v] = job[v]
  /\ job'[w].req = job[w].req /\ job'[w].at = job[w].at /\ job'[w].got = job[w].got
  /\ job'[w].pc \in Stage(job[w].req.kind)
  /\ job'[w].pc \in {"fingerprint", "cache", "full", "interval", "tail"} /\ job[w].req.kind = "overview"
       => job'[w].cal \in job[w].at.cal \cup {None}
  /\ job'[w].fp <= size[Part(w).path]
  /\ job'[w].pc = "cache" => Since(job[w], Part(w).path) <= job'[w].fp
  /\ job'[w].pc = "read" /\ job'[w].start > 0 =>
       /\ job'[w].start + 1 <= Lines(size[Part(w).path] + 1)
       /\ 0 < Script[Part(w).path][job'[w].start + 1].wall
       /\ Script[Part(w).path][job'[w].start + 1].wall <= Or(Part(w).from, 0)
  /\ HeldTrue(w)' /\ EndsTrue(w)'
  /\ size' = size /\ active' = active /\ left' = left /\ refusals' \in Nat

LEMMA MoveInd ==
  ASSUME IndInv, NEW w \in Workers, Moves(w)
  PROVE  /\ TypeOK'
         /\ \A v \in Workers : AtWork(v)' /\ PartsTrue(v)' /\ HeldTrue(v)' /\ EndsTrue(v)' /\ StartTrue(v)'
         /\ UNCHANGED Abstract!snapshotVars
<1>1. TypeOK /\ AtWork(w) /\ PartsTrue(w) /\ Busy(job[w]) /\ Busy(job'[w])
  BY DEF IndInv, Moves
<1>2. TypeOK'
  BY <1>1 DEF TypeOK, Moves
<1>3. Part(w)' = Part(w)
  BY DEF Part, Moves
<1>4. AtWork(w)'
  BY <1>1 DEF AtWork, Moves
<1>5. PartsTrue(w)'
  BY <1>1, <1>3 DEF PartsTrue, Moves, Since
<1>6. StartTrue(w)'
  BY <1>3 DEF StartTrue, Moves
<1>7. ASSUME NEW v \in Workers \ {w}
      PROVE  AtWork(v)' /\ PartsTrue(v)' /\ HeldTrue(v)' /\ EndsTrue(v)' /\ StartTrue(v)' /\ Same(v)
  <2>1. AtWork(v)' /\ PartsTrue(v)' /\ Same(v)
    BY <1>7 DEF IndInv, Moves, AtWork, PartsTrue, Part, Same, Phase, Answer
  <2>2. HeldTrue(v)' /\ EndsTrue(v)' /\ StartTrue(v)'
    BY <1>7 DEF IndInv, Moves, HeldTrue, EndsTrue, StartTrue, Part
  <2> QED
    BY <2>1, <2>2
<1>8. Same(w)
  BY BusyIsSame DEF Moves
<1>9. UNCHANGED Abstract!snapshotVars
  BY <1>7, <1>8, Stutters DEF Moves
<1>10. HeldTrue(w)' /\ EndsTrue(w)'
  BY DEF Moves
<1> QED
  BY <1>2, <1>4, <1>5, <1>6, <1>7, <1>9, <1>10

(* A move that leaves the ends alone.                                      *)
LEMMA EndsStay ==
  ASSUME NEW w \in Workers, EndsTrue(w), Busy(job[w]), Busy(job'[w]), size' = size,
         job'[w].req = job[w].req, job'[w].at = job[w].at, job'[w].ends = job[w].ends,
         job[w].pc # "meta", job'[w].pc # "meta",
         job[w].req.kind = "compare" => job[w].pc # "interval" /\ job'[w].pc # "interval"
  PROVE  EndsTrue(w)'
<1>1. \A q : Since(job'[w], q) = Since(job[w], q)
  BY DEF Since
<1> QED
  BY <1>1 DEF EndsTrue

(* What a step has to show when the caches stay true.                      *)
Kept == IndInv' /\ [Abstract!SnapshotNext]_(Abstract!snapshotVars)

LEMMA MoveKeeps ==
  ASSUME IndInv, NEW w \in Workers, Moves(w), WindowsTrue', UNCHANGED <<overview, runs>>
  PROVE  Kept
<1>1. RunsTrue' /\ OverviewTrue'
  BY DEF IndInv, Moves, RunsTrue, OverviewTrue, Entry, ShownIn, EndIn
<1> QED
  BY <1>1, MoveInd DEF IndInv, Kept

LEMMA ReceiveKeeps ==
  ASSUME IndInv, NEW w \in Workers, NEW lines, NEW ends, Receives(w, lines, ends), RunsTrue', OverviewTrue',
         windows' = windows
  PROVE  Kept
<1>1. WindowsTrue'
  BY DEF IndInv, Receives, WindowsTrue, Checkpoints
<1> QED
  BY <1>1, ReceiveInd, ReceiveStep DEF IndInv, Kept

(* A part that is shown as it is now was shown since the request.          *)
LEMMA NowIsSince ==
  ASSUME IndInv, NEW w \in Workers, Busy(job[w])
  PROVE  LET p == Part(w).path IN
         /\ p \in Paths /\ Part(w) \in Parts /\ size[p] \in Nat
         /\ Since(job[w], p) \in Nat /\ job[w].fp \in Nat
         /\ size[p] \in job[w].fp..size[p] /\ Since(job[w], p) <= size[p]
         /\ \A lines : Abstract!Shows(Part(w), size[p], lines)
                        => ShownIn(Part(w), Since(job[w], p), size[p], lines)
<1>1. /\ Part(w).path \in Paths /\ Part(w) \in Parts /\ TypeOK /\ AtWork(w) /\ PartsTrue(w)
      /\ job[w] \in Jobs
  BY PartFacts DEF IndInv
<1>2. /\ size[Part(w).path] \in Nat /\ Since(job[w], Part(w).path) \in Nat /\ job[w].fp \in Nat
      /\ Since(job[w], Part(w).path) <= size[Part(w).path] /\ job[w].fp <= size[Part(w).path]
  BY <1>1, SinceFacts DEF PartsTrue, Jobs
<1> QED
  BY <1>1, <1>2 DEF ShownIn

-----------------------------------------------------------------------------
(* The actions, one by one.                                                 *)

(* The caches stay as they are.                                            *)
LEMMA CachesStay ==
  ASSUME IndInv, UNCHANGED <<size, windows, overview, runs>>
  PROVE  WindowsTrue' /\ RunsTrue' /\ OverviewTrue'
  BY DEF IndInv, WindowsTrue, Checkpoints, RunsTrue, OverviewTrue, Entry, ShownIn, EndIn

LEMMA ReadCalibrationKeeps ==
  ASSUME IndInv, NEW w \in Workers, ReadCalibration(w)
  PROVE  Kept
<1>1. /\ Busy(job[w]) /\ AtWork(w) /\ PartsTrue(w) /\ EndsTrue(w) /\ TypeOK /\ job[w] \in Jobs
      /\ job[w].pc = "calibration"
  BY DEF IndInv, ReadCalibration, Busy, TypeOK
<1>2. active \in Nat
  BY <1>1, WorkspaceAssumption DEF TypeOK
<1>3. PICK cal \in {active, None} :
        job' = [job EXCEPT ![w] = [job[w] EXCEPT !.cal = cal, !.pc = "fingerprint"]]
  BY DEF ReadCalibration
<1>4. /\ job'[w] = [job[w] EXCEPT !.cal = cal, !.pc = "fingerprint"]
      /\ \A v \in Workers \ {w} : job'[v] = job[v]
  BY <1>1, <1>3 DEF TypeOK
<1>5. /\ job'[w] \in Jobs
      /\ job'[w].pc = "fingerprint" /\ job'[w].cal = cal /\ job'[w].req = job[w].req
      /\ job'[w].at = job[w].at /\ job'[w].got = job[w].got /\ job'[w].fp = job[w].fp
      /\ job'[w].ends = job[w].ends
  <2>1. job[w] \in JobSet /\ cal \in {None} \cup Nat /\ "fingerprint" \in Pcs
    BY <1>1, <1>2, <1>3, JobsAre DEF Pcs
  <2>2. /\ job'[w] \in JobSet
        /\ job'[w].pc = "fingerprint" /\ job'[w].cal = cal /\ job'[w].req = job[w].req
        /\ job'[w].at = job[w].at /\ job'[w].got = job[w].got /\ job'[w].fp = job[w].fp
        /\ job'[w].ends = job[w].ends
    <3> DEFINE g == [job[w] EXCEPT !.cal = cal, !.pc = "fingerprint"]
    <3>1. /\ g \in JobSet
          /\ g.pc = "fingerprint" /\ g.cal = cal /\ g.req = job[w].req
          /\ g.at = job[w].at /\ g.got = job[w].got /\ g.fp = job[w].fp
          /\ g.ends = job[w].ends
      BY <2>1 DEF JobSet
    <3> HIDE DEF g
    <3>2. job'[w] = g
      BY <1>4 DEF g
    <3> QED
      BY <3>1, <3>2
  <2> QED
    BY <2>2, JobsAre
<1>6. job' \in [Workers -> Jobs]
  BY <1>1, <1>3, <1>5 DEF TypeOK
<1>7. refusals' \in Nat /\ UNCHANGED <<size, active, windows, overview, runs, left>>
  BY <1>1 DEF ReadCalibration, Refusing, TypeOK
<1>8. job[w].req.kind = "overview" /\ Busy(job'[w]) /\ "fingerprint" \in Stage(job[w].req.kind)
  BY <1>1, <1>5, KindFacts DEF AtWork, Stage, Busy
<1>9. HeldTrue(w)' /\ EndsTrue(w)'
  BY <1>1, <1>5, <1>7, <1>8, EndsStay DEF HeldTrue, Holds
<1>10. Moves(w)
  BY <1>1, <1>4, <1>5, <1>6, <1>7, <1>8, <1>9 DEF Moves, PartsTrue
<1> QED
  BY <1>7, <1>10, CachesStay, MoveKeeps

(* The fingerprint, as the file is or refused; from then on an older state *)
(* of the file may be shown.                                               *)
LEMMA FingerprintKeeps ==
  ASSUME IndInv, NEW w \in Workers, Fingerprint(w)
  PROVE  Kept
<1> DEFINE j == job[w]
           p == Part(w).path
<1>1. /\ j.pc = "fingerprint" /\ Busy(j) /\ AtWork(w) /\ PartsTrue(w) /\ EndsTrue(w) /\ TypeOK
      /\ j \in Jobs /\ j.req.kind \in {"overview", "experiment"}
  <2>1. j.req.kind \in {"overview", "range", "compare", "experiment"} /\ j.pc \in Stage(j.req.kind)
    BY KindFacts DEF IndInv, Fingerprint, Busy, AtWork
  <2> QED
    BY <2>1 DEF IndInv, Fingerprint, Busy, TypeOK, Stage
<1>2. p \in Paths /\ size[p] \in Nat /\ Since(j, p) \in Nat /\ Since(j, p) <= size[p]
  BY <1>1, NowIsSince
<1>3. UNCHANGED <<size, active, windows, overview, runs, left>> /\ refusals' \in Nat
  BY <1>1 DEF Fingerprint, Refusing, TypeOK
<1>4. WindowsTrue' /\ RunsTrue' /\ OverviewTrue'
  BY <1>3, CachesStay
<1>5. "cache" \in Stage(j.req.kind)
  BY <1>1 DEF Stage
<1>6. CASE job' = [job EXCEPT ![w] = [job[w] EXCEPT !.pc = "cache", !.fp = size[p]]]
  <2>1. /\ job'[w] = [job[w] EXCEPT !.pc = "cache", !.fp = size[p]]
        /\ \A v \in Workers \ {w} : job'[v] = job[v]
    BY <1>1, <1>6 DEF TypeOK
  <2> HIDE DEF p
  <2>2. /\ job'[w] \in Jobs /\ job'[w].pc = "cache" /\ job'[w].cal = j.cal /\ job'[w].req = j.req
        /\ job'[w].at = j.at /\ job'[w].got = j.got /\ job'[w].fp = size[p] /\ job'[w].ends = j.ends
    BY <1>1, <1>2, <2>1 DEF Jobs
  <2>3. job' \in [Workers -> Jobs]
    BY <1>1, <1>6, <2>2 DEF TypeOK
  <2>4. HeldTrue(w)' /\ EndsTrue(w)' /\ Busy(job'[w])
    BY <1>1, <1>3, <2>2, EndsStay DEF HeldTrue, Holds, Busy
  <2>5. Moves(w)
    BY <1>1, <1>2, <1>3, <1>5, <2>1, <2>2, <2>3, <2>4 DEF Moves, PartsTrue, p
  <2> QED
    BY <1>3, <1>4, <2>5, MoveKeeps
<1>7. CASE job' = [job EXCEPT ![w] = [job[w] EXCEPT !.pc = "cache", !.fp = 0, !.at.old = @ \cup {p}]]
  <2>1. /\ job'[w] = [job[w] EXCEPT !.pc = "cache", !.fp = 0, !.at.old = @ \cup {p}]
        /\ \A v \in Workers \ {w} : job'[v] = job[v]
    BY <1>1, <1>7 DEF TypeOK
  <2> HIDE DEF p
  <2>2. /\ job'[w] \in Jobs /\ job'[w].pc = "cache" /\ job'[w].cal = j.cal /\ job'[w].req = j.req
        /\ job'[w].at = [j.at EXCEPT !.old = @ \cup {p}] /\ job'[w].got = j.got /\ job'[w].fp = 0
        /\ job'[w].ends = j.ends /\ job'[w].at.size = j.at.size /\ job'[w].at.cal = j.at.cal
        /\ job'[w].at.old = j.at.old \cup {p}
    <3> DEFINE at == [j.at EXCEPT !.old = @ \cup {p}]
    <3>1. /\ at \in Ats /\ at.size = j.at.size /\ at.cal = j.at.cal
          /\ at.old = j.at.old \cup {p}
      <4>1. j.at \in Ats
        BY <1>1 DEF Jobs, Ats
      <4> QED
        BY <1>2, <4>1 DEF Ats
    <3>2. job'[w] = [j EXCEPT !.pc = "cache", !.fp = 0, !.at = at]
      BY <1>1, <2>1, JobsAre
    <3> HIDE DEF at
    <3>3. /\ job'[w] \in Jobs /\ job'[w].pc = "cache" /\ job'[w].cal = j.cal /\ job'[w].req = j.req
          /\ job'[w].at = at /\ job'[w].got = j.got /\ job'[w].fp = 0 /\ job'[w].ends = j.ends
      <4>1. j \in JobSet /\ "cache" \in Pcs
        BY <1>1, JobsAre DEF Pcs
      <4> DEFINE g == [j EXCEPT !.pc = "cache", !.fp = 0, !.at = at]
      <4> HIDE DEF j
      <4>2. /\ g \in JobSet /\ g.pc = "cache" /\ g.cal = j.cal /\ g.req = j.req /\ g.at = at
            /\ g.got = j.got /\ g.fp = 0 /\ g.ends = j.ends
        BY <3>1, <4>1 DEF JobSet
      <4> HIDE DEF g
      <4>3. job'[w] = g
        BY <3>2 DEF g
      <4> QED
        BY <4>2, <4>3, JobsAre
    <3> QED
      BY <3>1, <3>3 DEF at
  <2>3. TypeOK'
    <3>1. job' \in [Workers -> Jobs]
      BY <1>1, <1>7, <2>2 DEF TypeOK
    <3> QED
      BY <1>1, <1>3, <3>1 DEF TypeOK
  <2>4. Part(w)' = Part(w) /\ Since(job'[w], p) = 0
    BY <2>2 DEF Part, Since
  <2>5. AtWork(w)' /\ StartTrue(w)' /\ HeldTrue(w)'
    BY <1>1, <1>5, <2>2 DEF AtWork, StartTrue, HeldTrue, Holds
  <2>6. EndsTrue(w)'
    <3>1. j.ends = <<>>
      BY <1>1 DEF EndsTrue, Jobs
    <3> QED
      BY <1>1, <2>2, <3>1 DEF EndsTrue
  <2>7. ASSUME NEW i \in DOMAIN j.got
        PROVE  LET part == j.req.parts[i]
               IN ShownIn(part, Since(job'[w], part.path), size[part.path], j.got[i])
    <3> DEFINE part == j.req.parts[i]
    <3>1. i \in 1..(Len(j.got) + 1)
      BY <1>1 DEF Jobs
    <3>2. part \in Parts /\ part.path \in Paths
      BY <1>1, <3>1, PartFacts DEF Parts
    <3>3. ShownIn(part, Since(j, part.path), size[part.path], j.got[i])
      BY <1>1 DEF PartsTrue
    <3>4. Since(j, part.path) \in Nat /\ size[part.path] \in Nat
      BY <1>1, <3>2, SinceFacts
    <3>5. Since(job'[w], part.path) \in {0, Since(j, part.path)}
      BY <2>2 DEF Since
    <3> HIDE DEF part
    <3>6. Since(job'[w], part.path) \in Nat /\ Since(job'[w], part.path) <= Since(j, part.path)
      BY <3>4, <3>5
    <3>7. ShownIn(part, Since(job'[w], part.path), size[part.path], j.got[i])
      BY <3>3, <3>4, <3>6, ShownFacts
    <3> QED
      BY <3>7 DEF part
  <2>8. PartsTrue(w)'
    BY <1>1, <1>2, <1>3, <2>2, <2>4, <2>7 DEF PartsTrue, p
  <2>9. ASSUME NEW v \in Workers \ {w}
        PROVE  AtWork(v)' /\ PartsTrue(v)' /\ HeldTrue(v)' /\ EndsTrue(v)' /\ StartTrue(v)' /\ Same(v)
    <3>1. AtWork(v)' /\ PartsTrue(v)' /\ Same(v)
      BY <1>3, <2>1, <2>9 DEF IndInv, AtWork, PartsTrue, Part, Same, Phase, Answer
    <3>2. HeldTrue(v)' /\ EndsTrue(v)' /\ StartTrue(v)'
      BY <1>3, <2>1, <2>9 DEF IndInv, HeldTrue, EndsTrue, StartTrue, Part
    <3> QED
      BY <3>1, <3>2
  <2>10. PICK f \in Paths : f = p
    BY <1>2
  <2>13. Abstract!Unstamped(w, f)
    <3>1. /\ Phase(job[w]) = "asked" /\ Phase(job'[w]) = "asked"
          /\ Answer(job'[w]) = Answer(job[w])
      BY <1>1, <2>2 DEF Phase, Busy, Answer
    <3>2. [v \in Workers |-> job'[v].at]
            = [[v \in Workers |-> job[v].at] EXCEPT ![w].old = @ \cup {f}]
      BY <2>1, <2>2, <2>10
    <3>3. /\ [v \in Workers |-> job'[v].req] = [v \in Workers |-> job[v].req]
          /\ [v \in Workers |-> Phase(job'[v])] = [v \in Workers |-> Phase(job[v])]
          /\ [v \in Workers |-> Answer(job'[v])] = [v \in Workers |-> Answer(job[v])]
      <4>1. \A v \in Workers : /\ job'[v].req = job[v].req /\ Phase(job'[v]) = Phase(job[v])
                               /\ Answer(job'[v]) = Answer(job[v])
        BY <2>1, <2>2, <3>1
      <4> QED
        BY <4>1
    <3> QED
      BY <1>3, <3>1, <3>2, <3>3 DEF Abstract!Unstamped, Answer
  <2>11. IndInv'
    <3>1. ASSUME NEW v \in Workers
          PROVE  AtWork(v)' /\ PartsTrue(v)' /\ HeldTrue(v)' /\ EndsTrue(v)' /\ StartTrue(v)'
      BY <2>5, <2>6, <2>8, <2>9
    <3> HIDE DEF j, p
    <3> QED
      BY <1>4, <2>3, <3>1 DEF IndInv
  <2>12. Abstract!SnapshotNext
    BY <2>13, Zenon DEF Abstract!SnapshotNext
  <2> QED
    BY <2>11, <2>12 DEF Kept
<1> QED
  BY <1>6, <1>7 DEF Fingerprint

(* The overview that is kept is of the whole file.                         *)
LEMMA OverviewLookupKeeps ==
  ASSUME IndInv, NEW w \in Workers, OverviewLookup(w)
  PROVE  Kept
<1> DEFINE j == job[w]
           p == Part(w).path
<1>1. /\ j.pc = "cache" /\ Busy(j) /\ AtWork(w) /\ PartsTrue(w) /\ EndsTrue(w) /\ TypeOK /\ j \in Jobs
      /\ j.req.kind = "overview"
  BY DEF IndInv, OverviewLookup, Busy, TypeOK
<1>2. p \in Paths /\ Part(w) = WholeFile(p) /\ size[p] \in Nat /\ Since(j, p) \in Nat /\ j.fp \in Nat
  BY <1>1, PartFacts, NowIsSince
<1>3. UNCHANGED <<size, active, windows, overview, runs, left, refusals>>
  BY DEF OverviewLookup
<1>a. refusals' \in Nat /\ WindowsTrue' /\ RunsTrue' /\ OverviewTrue'
  BY <1>1, <1>3, CachesStay DEF TypeOK
<1>b. j.cal \in j.at.cal \cup {None} /\ Since(j, p) <= j.fp
  BY <1>1 DEF PartsTrue
<1>4. CASE cache_hit(overview, p, j.fp, j.cal)
  <2> DEFINE got == overview.got
             ends == overview.ends
             g == Got(j, got)
  <2>1. overview # None /\ overview.path = p /\ overview.bytes = j.fp /\ overview.cal = j.cal
    BY <1>4 DEF cache_hit
  <2>2. /\ ShownIn(Part(w), j.fp, size[p], got) /\ got \notin Errors
        /\ Len(ends) = 1 /\ ends \in Seq(SUBSET Nat) /\ EndIn(p, j.fp, size[p], ends[1])
        /\ Ended(p, got, ends[1])
    BY <1>2, <2>1 DEF IndInv, OverviewTrue, Entry, WholeFile
  <2>3. ShownIn(Part(w), Since(j, p), size[p], got) /\ EndIn(p, Since(j, p), size[p], ends[1])
    BY <1>2, <1>b, <2>2, ShownFacts, EndFacts
  <2>a. got \in Errors \cup SUBSET Nat
    BY <1>2, <2>2, ShownFacts
  <2>5. [g EXCEPT !.cal = overview.cal, !.ends = ends] = Taken(j, got, ends)
    <3>1. Taken(j, got, ends) = [g EXCEPT !.ends = ends]
      BY DEF Taken
    <3>2. g \in Jobs /\ g.cal = j.cal
      BY <1>1, <2>a, GotIsJob, JobsAre
    <3> HIDE DEF g, ends, got
    <3>3. [g EXCEPT !.cal = overview.cal, !.ends = ends] = [g EXCEPT !.ends = ends]
      BY <2>1, <3>2, JobsAre
    <3> QED
      BY <3>1, <3>3
  <2>6. job' = [job EXCEPT ![w] = Taken(job[w], got, ends)]
    BY <1>4, <2>5 DEF OverviewLookup
  <2> HIDE DEF got, ends
  <2>7. Receives(w, got, ends)
    BY <1>1, <1>3, <1>a, <1>b, <2>2, <2>3, <2>6 DEF Receives, Complete
  <2> QED
    BY <1>3, <1>a, <2>7, ReceiveKeeps
<1>5. CASE ~cache_hit(overview, p, j.fp, j.cal)
  <2>1. job' = [job EXCEPT ![w] = [job[w] EXCEPT !.pc = "full"]]
    BY <1>5 DEF OverviewLookup
  <2>2. /\ job'[w] = [job[w] EXCEPT !.pc = "full"]
        /\ \A v \in Workers \ {w} : job'[v] = job[v]
    BY <1>1, <2>1 DEF TypeOK
  <2>3. /\ job'[w] \in Jobs /\ job'[w].pc = "full" /\ job'[w].cal = j.cal /\ job'[w].req = j.req
        /\ job'[w].at = j.at /\ job'[w].got = j.got /\ job'[w].fp = j.fp /\ job'[w].ends = j.ends
    BY <1>1, <2>2 DEF Jobs
  <2>4. job' \in [Workers -> Jobs]
    BY <1>1, <2>1, <2>3 DEF TypeOK
  <2>5. HeldTrue(w)' /\ EndsTrue(w)' /\ Busy(job'[w]) /\ "full" \in Stage(j.req.kind)
    BY <1>1, <1>3, <2>3, EndsStay DEF HeldTrue, Holds, Busy, Stage
  <2>6. Moves(w)
    BY <1>1, <1>3, <1>a, <1>b, <2>2, <2>3, <2>4, <2>5 DEF Moves, PartsTrue
  <2> QED
    BY <1>3, <1>a, <2>6, MoveKeeps
<1> QED
  BY <1>4, <1>5

(* The lines of one moment are held.                                       *)
LEMMA LoadFullKeeps ==
  ASSUME IndInv, NEW w \in Workers, LoadFull(w)
  PROVE  Kept
<1> DEFINE j == job[w]
           p == Part(w).path
           lines == IF Torn(size[p]) THEN Corrupt ELSE 1..Lines(size[p])
<1>1. /\ j.pc = "full" /\ Busy(j) /\ AtWork(w) /\ PartsTrue(w) /\ EndsTrue(w) /\ TypeOK
      /\ j \in Jobs /\ j.req.kind = "overview"
  <2>1. j.req.kind \in {"overview", "range", "compare", "experiment"} /\ j.pc \in Stage(j.req.kind)
    BY KindFacts DEF IndInv, LoadFull, Busy, AtWork
  <2> QED
    BY <2>1 DEF IndInv, LoadFull, Busy, TypeOK, Stage
<1>2. /\ p \in Paths /\ Part(w) \in Parts /\ Part(w) = WholeFile(p) /\ size[p] \in Nat
      /\ size[p] \in j.fp..size[p] /\ Since(j, p) <= size[p]
  BY <1>1, PartFacts, NowIsSince
<1>3. Abstract!Shows(Part(w), size[p], lines)
  BY <1>1, <1>2, FullShows
<1>4. UNCHANGED <<size, active, windows, overview, runs, left, refusals>>
  BY DEF LoadFull
<1>5. refusals' \in Nat /\ WindowsTrue' /\ RunsTrue' /\ OverviewTrue'
  BY <1>1, <1>4, CachesStay DEF TypeOK
<1>6. j.cal \in j.at.cal \cup {None}
  BY <1>1 DEF PartsTrue
<1>7. CASE Torn(size[p])
  <2>1. job' = [job EXCEPT ![w] = Got(job[w], Corrupt)]
    BY <1>7 DEF LoadFull
  <2>2. Taken(j, Corrupt, j.ends) = Got(j, Corrupt) /\ j.ends \in Seq(SUBSET Nat)
    BY <1>1, SameEnds DEF Jobs, Errors
  <2>3. ShownIn(Part(w), Since(j, p), size[p], Corrupt)
    BY <1>1, <1>3, <1>7, NowIsSince
  <2>4. Receives(w, Corrupt, j.ends)
    BY <1>1, <1>4, <1>5, <1>6, <2>1, <2>2, <2>3 DEF Receives, Complete, Errors
  <2> QED
    BY <1>4, <1>5, <2>4, ReceiveKeeps
<1>8. CASE ~Torn(size[p])
  <2> DEFINE held == 1..Lines(size[p])
  <2>1. job' = [job EXCEPT ![w] = [job[w] EXCEPT !.held = held, !.pc = "interval"]]
    BY <1>8 DEF LoadFull
  <2>2. Lines(size[p]) \in Nat /\ held \in SUBSET Nat
    BY <1>2, LinesFacts
  <2>3. /\ job'[w] = [job[w] EXCEPT !.held = held, !.pc = "interval"]
        /\ \A v \in Workers \ {w} : job'[v] = job[v]
    BY <1>1, <2>1 DEF TypeOK
  <2>a. Abstract!Shows(Part(w), size[p], held)
    BY <1>3, <1>8
  <2>b. held \subseteq 1..Lines(size[p])
    OBVIOUS
  <2> HIDE DEF held
  <2>4. /\ job'[w] \in Jobs /\ job'[w].pc = "interval" /\ job'[w].cal = j.cal /\ job'[w].req = j.req
        /\ job'[w].at = j.at /\ job'[w].got = j.got /\ job'[w].fp = j.fp /\ job'[w].ends = j.ends
        /\ job'[w].held = held
    BY <1>1, <2>2, <2>3 DEF Jobs
  <2>5. job' \in [Workers -> Jobs]
    BY <1>1, <2>1, <2>4 DEF TypeOK
  <2>6. Part(w)' = Part(w) /\ \A q : Since(job'[w], q) = Since(j, q)
    BY <2>4 DEF Part, Since
  <2>7. HeldTrue(w)'
    BY <1>2, <1>4, <2>a, <2>b, <2>4, <2>6 DEF HeldTrue
  <2>8. EndsTrue(w)' /\ Busy(job'[w]) /\ "interval" \in Stage(j.req.kind)
    BY <1>1, <1>4, <2>4, EndsStay DEF Busy, Stage
  <2>9. Moves(w)
    BY <1>1, <1>4, <1>5, <1>6, <2>3, <2>4, <2>5, <2>7, <2>8 DEF Moves, PartsTrue
  <2> QED
    BY <1>4, <1>5, <2>9, MoveKeeps
<1> QED
  BY <1>7, <1>8

(* The end is read when the lines are there, and both are kept.            *)
LEMMA ReadTailKeeps ==
  ASSUME IndInv, NEW w \in Workers, ReadTail(w)
  PROVE  Kept
<1> DEFINE j == job[w]
           p == Part(w).path
           ends == <<footer_line(p)>>
<1>1. /\ j.pc = "tail" /\ Busy(j) /\ AtWork(w) /\ PartsTrue(w) /\ HeldTrue(w) /\ TypeOK
      /\ j \in Jobs /\ j.req.kind = "overview"
  <2>1. j.req.kind \in {"overview", "range", "compare", "experiment"} /\ j.pc \in Stage(j.req.kind)
    BY KindFacts DEF IndInv, ReadTail, Busy, AtWork
  <2> QED
    BY <2>1 DEF IndInv, ReadTail, Busy, TypeOK, Stage
<1>2. /\ p \in Paths /\ Part(w) \in Parts /\ Part(w) = WholeFile(p) /\ size[p] \in Nat
      /\ j.fp \in Nat /\ Since(j, p) \in Nat /\ size[p] \in j.fp..size[p] /\ Since(j, p) <= size[p]
  BY <1>1, PartFacts, NowIsSince
<1>3. PICK k \in j.fp..size[p] :
        Since(j, p) <= k /\ j.held \subseteq 1..Lines(k) /\ Abstract!Shows(Part(w), k, j.held)
  BY <1>1 DEF HeldTrue, Holds
<1>4. /\ ShownIn(Part(w), Since(j, p), size[p], j.held) /\ ShownIn(Part(w), j.fp, size[p], j.held)
  <2>1. k \in Since(j, p)..size[p]
    BY <1>2, <1>3
  <2> QED
    BY <1>3, <2>1 DEF ShownIn
<1>5. Lines(size[p]) \in Nat /\ Abstract!Whole(size[p]) = Lines(size[p]) /\ Lines(k) <= Lines(size[p])
      /\ Lines(k) \in Nat
  BY <1>2, LinesFacts, LinesGrow
<1>6. /\ footer_line(p) \in SUBSET Nat /\ Abstract!EndsAt(p, size[p], footer_line(p))
      /\ Ended(p, j.held, footer_line(p))
  BY <1>3, <1>5 DEF footer_line, Abstract!EndsAt, Ended
<1>7. /\ EndIn(p, Since(j, p), size[p], footer_line(p)) /\ EndIn(p, j.fp, size[p], footer_line(p))
  BY <1>2, <1>6 DEF EndIn
<1>8. ends \in Seq(SUBSET Nat) /\ Len(ends) = 1 /\ ends[1] = footer_line(p)
  BY <1>6
<1>9. /\ job' = [job EXCEPT ![w] = Taken(job[w], j.held, ends)]
      /\ overview' = [path |-> p, bytes |-> j.fp, cal |-> j.cal, got |-> j.held, ends |-> ends]
      /\ UNCHANGED <<size, active, windows, runs, left, refusals>>
  BY DEF ReadTail, Taken
<1> HIDE DEF ends
<1>a. j.held \in SUBSET Nat /\ refusals' \in Nat /\ j.cal \in j.at.cal \cup {None}
  BY <1>1, <1>9 DEF Jobs, TypeOK, PartsTrue
<1>b. j.held \notin Errors
  <2>1. k \in Nat /\ k <= size[p]
    BY <1>2
  <2> QED
    BY <1>1, <1>2, <1>3, <2>1, HeldIsNoError
<1>10. Receives(w, j.held, ends)
  BY <1>1, <1>4, <1>6, <1>7, <1>8, <1>9, <1>a, <1>b DEF Receives, Complete
<1>11. RunsTrue'
  BY <1>9 DEF IndInv, RunsTrue, Entry, ShownIn
<1>12. OverviewTrue'
  <2>1. /\ overview'.path = p /\ overview'.bytes = j.fp /\ overview'.got = j.held
        /\ overview'.ends = ends
    BY <1>9
  <2>2. WholeFile(p) \in Parts /\ WholeFile(p).path = p
    BY <1>2 DEF WholeFile
  <2>3. size' = size
    BY <1>9
  <2>4. ShownIn(WholeFile(p), j.fp, size'[p], j.held)
    BY <1>2, <1>4, <2>3
  <2>5. EndIn(p, j.fp, size'[p], ends[1]) /\ Ended(p, j.held, ends[1])
    BY <1>6, <1>7, <1>8, <2>3
  <2> HIDE DEF p, j
  <2> QED
    BY <1>2, <1>8, <1>b, <2>1, <2>2, <2>4, <2>5 DEF OverviewTrue, Entry
<1> QED
  BY <1>9, <1>10, <1>11, <1>12, ReceiveKeeps

(* A run's key stands for its part.                                        *)
LEMMA KeyIsPart ==
  ASSUME NEW part \in Parts, NEW k, NEW got
  PROVE  LET key == cache_key(part)
             of == [path |-> key[1], from |-> key[2], to |-> key[3]]
         IN /\ of \in Parts /\ of.path = part.path
            /\ Abstract!Shows(of, k, got) <=> Abstract!Shows(part, k, got)
<1> DEFINE key == cache_key(part)
           of == [path |-> key[1], from |-> key[2], to |-> key[3]]
<1>1. key[1] = part.path /\ key[2] = Or(part.from, 0) /\ key[3] = Or(part.to, 0)
  BY DEF cache_key
<1>2. /\ part.path \in Paths /\ Or(part.from, 0) \in Nat /\ Or(part.to, 0) \in Nat
  BY Bounds DEF Parts
<1> HIDE DEF key
<1>3. of.path = part.path /\ of.from = Or(part.from, 0) /\ of.to = Or(part.to, 0)
  BY <1>1
<1>4. of \in Parts
  BY <1>1, <1>2 DEF Parts
<1>5. Or(of.from, 0) = Or(part.from, 0) /\ Or(of.to, 0) = Or(part.to, 0)
  BY <1>2, <1>3, Bounds
<1> HIDE DEF of
<1>6. Abstract!Shows(of, k, got) <=> Abstract!Shows(part, k, got)
  BY <1>3, <1>4, <1>5, SameBounds
<1> QED
  BY <1>3, <1>4, <1>6 DEF of, key

LEMMA KeyIsShown ==
  ASSUME NEW part \in Parts, NEW from, NEW to, NEW got
  PROVE  LET key == cache_key(part)
             of == [path |-> key[1], from |-> key[2], to |-> key[3]]
         IN ShownIn(of, from, to, got) <=> ShownIn(part, from, to, got)
  BY KeyIsPart DEF ShownIn

LEMMA RunLookupKeeps ==
  ASSUME IndInv, NEW w \in Workers, RunLookup(w)
  PROVE  Kept
<1> DEFINE j == job[w]
           p == Part(w).path
           k == cache_key(Part(w))
           hit == k \in DOMAIN runs /\ runs[k].fp = j.fp
<1>1. /\ j.pc = "cache" /\ Busy(j) /\ AtWork(w) /\ PartsTrue(w) /\ EndsTrue(w) /\ TypeOK /\ j \in Jobs
      /\ j.req.kind = "experiment"
  BY DEF IndInv, RunLookup, Busy, TypeOK
<1>2. p \in Paths /\ Part(w) \in Parts /\ size[p] \in Nat /\ Since(j, p) \in Nat /\ j.fp \in Nat
  BY <1>1, NowIsSince
<1>3. UNCHANGED <<size, active, windows, overview, runs, left, refusals>>
  BY DEF RunLookup
<1>a. refusals' \in Nat /\ WindowsTrue' /\ RunsTrue' /\ OverviewTrue'
  BY <1>1, <1>3, CachesStay DEF TypeOK
<1>b. Since(j, p) <= j.fp
  BY <1>1 DEF PartsTrue
<1>4. CASE hit
  <2> DEFINE got == runs[k].got
             of == [path |-> k[1], from |-> k[2], to |-> k[3]]
  <2>1. job' = [job EXCEPT ![w] = Got(job[w], got)]
    BY <1>4 DEF RunLookup
  <2>2. ShownIn(of, j.fp, size[p], got)
    <3>1. of.path = p
      BY <1>2, KeyIsPart
    <3>2. ShownIn(of, runs[k].fp, size[of.path], got)
      BY <1>4 DEF IndInv, RunsTrue, Entry
    <3> QED
      BY <1>4, <3>1, <3>2
  <2>3. ShownIn(Part(w), j.fp, size[p], got)
    BY <1>2, <2>2, KeyIsShown
  <2>4. ShownIn(Part(w), Since(j, p), size[p], got) /\ got \in Errors \cup SUBSET Nat
    BY <1>2, <1>b, <2>3, ShownFacts
  <2>5. Taken(j, got, j.ends) = Got(j, got) /\ j.ends \in Seq(SUBSET Nat)
    BY <1>1, <2>4, SameEnds DEF Jobs
  <2> HIDE DEF got
  <2>6. Receives(w, got, j.ends)
    BY <1>1, <1>3, <1>a, <2>1, <2>4, <2>5 DEF Receives, Complete
  <2> QED
    BY <1>3, <1>a, <2>6, ReceiveKeeps
<1>5. CASE ~hit
  <2>1. job' = [job EXCEPT ![w] = [job[w] EXCEPT !.pc = "stat"]]
    BY <1>5 DEF RunLookup
  <2>2. /\ job'[w] = [job[w] EXCEPT !.pc = "stat"]
        /\ \A v \in Workers \ {w} : job'[v] = job[v]
    BY <1>1, <2>1 DEF TypeOK
  <2>3. /\ job'[w] \in Jobs /\ job'[w].pc = "stat" /\ job'[w].req = j.req /\ job'[w].ends = j.ends
        /\ job'[w].at = j.at /\ job'[w].got = j.got /\ job'[w].fp = j.fp
    BY <1>1, <2>2 DEF Jobs
  <2>4. job' \in [Workers -> Jobs]
    BY <1>1, <2>1, <2>3 DEF TypeOK
  <2>5. HeldTrue(w)' /\ EndsTrue(w)' /\ Busy(job'[w]) /\ "stat" \in Stage(j.req.kind)
    BY <1>1, <1>3, <2>3, EndsStay DEF HeldTrue, Holds, Busy, Stage
  <2>6. Moves(w)
    BY <1>1, <1>3, <1>a, <2>2, <2>3, <2>4, <2>5 DEF Moves, PartsTrue
  <2> QED
    BY <1>3, <1>a, <2>6, MoveKeeps
<1> QED
  BY <1>4, <1>5

(* A busy worker at a region is no overview.                               *)
LEMMA AtRegion ==
  ASSUME IndInv, NEW w \in Workers, job[w].pc \in {"stat", "index", "read"}
  PROVE  /\ Busy(job[w]) /\ AtWork(w) /\ PartsTrue(w) /\ EndsTrue(w) /\ StartTrue(w) /\ TypeOK
         /\ job[w] \in Jobs /\ job[w].req.kind \in {"range", "compare", "experiment"}
         /\ {"index", "read"} \subseteq Stage(job[w].req.kind)
<1>1. /\ Busy(job[w]) /\ AtWork(w) /\ PartsTrue(w) /\ EndsTrue(w) /\ StartTrue(w) /\ TypeOK /\ job[w] \in Jobs
      /\ job[w].req.kind \in {"overview", "range", "compare", "experiment"}
      /\ job[w].pc \in Stage(job[w].req.kind)
  BY KindFacts DEF IndInv, Busy, TypeOK, AtWork
<1> QED
  BY <1>1 DEF Stage

LEMMA StatRegionKeeps ==
  ASSUME IndInv, NEW w \in Workers, StatRegion(w)
  PROVE  Kept
<1> DEFINE j == job[w]
           p == Part(w).path
<1>1. /\ j.pc = "stat" /\ Busy(j) /\ AtWork(w) /\ PartsTrue(w) /\ EndsTrue(w) /\ TypeOK /\ j \in Jobs
      /\ j.req.kind \in {"range", "compare", "experiment"} /\ {"index", "read"} \subseteq Stage(j.req.kind)
  BY AtRegion DEF StatRegion
<1>2. p \in Paths /\ Part(w) \in Parts /\ size[p] \in Nat /\ Or(Part(w).from, 0) \in Nat
  BY <1>1, PartFacts, Bounds DEF TypeOK, Parts
<1>3. WindowsTrue' /\ UNCHANGED <<size, active, windows, overview, runs, left, refusals>> /\ refusals' \in Nat
  BY <1>1, CachesStay DEF StatRegion, TypeOK
<1>4. CASE p \in DOMAIN windows /\ windows[p].size = size[p]
  <2>1. PICK o \in start_offset_for(windows[p].cps, Or(Part(w).from, 0)) :
          job' = [job EXCEPT ![w].pc = "read", ![w].start = o]
    BY <1>4 DEF StatRegion
  <2>2. Checkpoints(p, windows[p].cps)
    BY <1>4 DEF IndInv, WindowsTrue
  <2>3. /\ o \in Nat
        /\ o > 0 => /\ o + 1 <= Lines(size[p] + 1)
                    /\ 0 < Script[p][o + 1].wall /\ Script[p][o + 1].wall <= Or(Part(w).from, 0)
    BY <1>1, <1>2, <2>2, StartIsBefore
  <2>4. /\ job'[w] = [job[w] EXCEPT !.pc = "read", !.start = o]
        /\ \A v \in Workers \ {w} : job'[v] = job[v]
    BY <1>1, <2>1 DEF TypeOK
  <2>5. /\ job'[w] \in Jobs /\ job'[w].pc = "read" /\ job'[w].req = j.req /\ job'[w].start = o
        /\ job'[w].at = j.at /\ job'[w].got = j.got /\ job'[w].fp = j.fp /\ job'[w].ends = j.ends
    BY <1>1, <2>3, <2>4 DEF Jobs
  <2>6. job' \in [Workers -> Jobs]
    BY <1>1, <2>1, <2>4, <2>5 DEF TypeOK
  <2>a. HeldTrue(w)' /\ EndsTrue(w)' /\ Busy(job'[w])
    BY <1>1, <1>3, <2>5, EndsStay DEF HeldTrue, Holds, Busy
  <2>7. Moves(w)
    BY <1>1, <1>2, <1>3, <2>3, <2>4, <2>5, <2>6, <2>a DEF Moves, PartsTrue
  <2> QED
    BY <1>3, <2>7, MoveKeeps
<1>5. CASE ~(p \in DOMAIN windows /\ windows[p].size = size[p])
  <2>1. job' = [job EXCEPT ![w].pc = "index", ![w].stat = size[p]]
    BY <1>5 DEF StatRegion
  <2>2. /\ job'[w] = [job[w] EXCEPT !.pc = "index", !.stat = size[p]]
        /\ \A v \in Workers \ {w} : job'[v] = job[v]
    BY <1>1, <2>1 DEF TypeOK
  <2> HIDE DEF p
  <2>3. /\ job'[w] \in Jobs /\ job'[w].pc = "index" /\ job'[w].req = j.req
        /\ job'[w].at = j.at /\ job'[w].got = j.got /\ job'[w].fp = j.fp /\ job'[w].ends = j.ends
    BY <1>1, <1>2, <2>2 DEF Jobs
  <2>4. job' \in [Workers -> Jobs]
    BY <1>1, <2>1, <2>2, <2>3 DEF TypeOK
  <2>a. HeldTrue(w)' /\ EndsTrue(w)' /\ Busy(job'[w])
    BY <1>1, <1>3, <2>3, EndsStay DEF HeldTrue, Holds, Busy
  <2>5. Moves(w)
    BY <1>1, <1>2, <1>3, <2>2, <2>3, <2>4, <2>a DEF Moves, PartsTrue, p
  <2> QED
    BY <1>3, <2>5, MoveKeeps
<1> QED
  BY <1>4, <1>5

(* An index may be older than the size it is kept under says, but every    *)
(* one of its checkpoints is a line of the file.                           *)
LEMMA BuildIndexKeeps ==
  ASSUME IndInv, NEW w \in Workers, BuildIndex(w)
  PROVE  Kept
<1> DEFINE j == job[w]
           p == Part(w).path
           full == Cardinality(DOMAIN windows) >= MaxIndexes /\ p \notin DOMAIN windows
<1>1. /\ j.pc = "index" /\ Busy(j) /\ AtWork(w) /\ PartsTrue(w) /\ EndsTrue(w) /\ TypeOK /\ j \in Jobs
      /\ j.req.kind \in {"range", "compare", "experiment"} /\ {"index", "read"} \subseteq Stage(j.req.kind)
  BY AtRegion DEF BuildIndex
<1>2. p \in Paths /\ Part(w) \in Parts /\ Or(Part(w).from, 0) \in Nat
  BY <1>1, PartFacts, Bounds DEF Parts
<1>3. PICK seen \in Seen(p), evict \in (IF full THEN DOMAIN windows ELSE {None}) :
        LET cps == build_window_index(p, seen) IN
        /\ windows' = Key([x \in DOMAIN windows \ {evict} |-> windows[x]], p,
                          [size |-> job[w].stat, cps |-> cps])
        /\ \E o \in start_offset_for(cps, Or(Part(w).from, 0)) :
             job' = [job EXCEPT ![w].pc = "read", ![w].start = o]
  BY DEF BuildIndex
<1> DEFINE cps == build_window_index(p, seen)
           rest == [x \in DOMAIN windows \ {evict} |-> windows[x]]
           entry == [size |-> job[w].stat, cps |-> cps]
<1>4. PICK o \in start_offset_for(cps, Or(Part(w).from, 0)) :
        job' = [job EXCEPT ![w].pc = "read", ![w].start = o]
  BY <1>3
<1>5. Checkpoints(p, cps)
  BY <1>1, <1>2, IndexIsTrue
<1>6. windows' = Key(rest, p, entry) /\ size' = size
  BY <1>3 DEF BuildIndex
<1> HIDE DEF cps
<1>7. WindowsTrue'
  <2> SUFFICES ASSUME NEW q \in DOMAIN windows'
               PROVE  q \in Paths /\ Checkpoints(q, windows'[q].cps)
    BY <1>6 DEF WindowsTrue, Checkpoints
  <2>1. CASE q = p
    <3>1. windows'[q].cps = cps
      BY <1>6, <2>1 DEF Key
    <3> QED
      BY <1>2, <1>5, <2>1, <3>1
  <2>2. CASE q # p
    <3>1. q \in DOMAIN windows /\ windows'[q] = windows[q]
      BY <1>6, <2>2 DEF Key
    <3> QED
      BY <3>1 DEF IndInv, WindowsTrue
  <2> QED
    BY <2>1, <2>2
<1>8. /\ o \in Nat
      /\ o > 0 => /\ o + 1 <= Lines(size[p] + 1)
                  /\ 0 < Script[p][o + 1].wall /\ Script[p][o + 1].wall <= Or(Part(w).from, 0)
  BY <1>1, <1>2, <1>5, StartIsBefore
<1>9. /\ job'[w] = [job[w] EXCEPT !.pc = "read", !.start = o]
      /\ \A v \in Workers \ {w} : job'[v] = job[v]
  BY <1>1, <1>4 DEF TypeOK
<1>10. /\ job'[w] \in Jobs /\ job'[w].pc = "read" /\ job'[w].req = j.req /\ job'[w].start = o
       /\ job'[w].at = j.at /\ job'[w].got = j.got /\ job'[w].fp = j.fp /\ job'[w].ends = j.ends
  BY <1>1, <1>8, <1>9 DEF Jobs
<1>11. job' \in [Workers -> Jobs]
  BY <1>1, <1>4, <1>9, <1>10 DEF TypeOK
<1>a. UNCHANGED <<size, active, overview, runs, left, refusals>> /\ refusals' \in Nat
  BY <1>1 DEF BuildIndex, TypeOK
<1>b. HeldTrue(w)' /\ EndsTrue(w)' /\ Busy(job'[w])
  BY <1>1, <1>a, <1>10, EndsStay DEF HeldTrue, Holds, Busy
<1>12. Moves(w)
  BY <1>1, <1>2, <1>8, <1>9, <1>10, <1>11, <1>a, <1>b DEF Moves, PartsTrue
<1> QED
  BY <1>7, <1>12, <1>a, MoveKeeps

LEMMA ReadRegionKeeps ==
  ASSUME IndInv, NEW w \in Workers, ReadRegion(w)
  PROVE  Kept
<1> DEFINE j == job[w]
           p == Part(w).path
<1>1. /\ j.pc = "read" /\ Busy(j) /\ AtWork(w) /\ PartsTrue(w) /\ EndsTrue(w) /\ StartTrue(w) /\ TypeOK
      /\ j \in Jobs /\ j.req.kind \in {"range", "compare", "experiment"}
  BY AtRegion DEF ReadRegion
<1>2. /\ p \in Paths /\ Part(w) \in Parts /\ j.start \in Nat /\ size[p] \in Nat
      /\ size[p] \in j.fp..size[p] /\ Since(j, p) <= size[p]
  BY <1>1, NowIsSince DEF Jobs
<1>3. PICK seen \in Seen(p) :
        LET lines == load_region(p, j.start, Part(w), seen) IN
        job' = [job EXCEPT ![w] =
                  IF lines # Corrupt /\ job[w].req.kind = "experiment"
                    THEN [job[w] EXCEPT !.held = lines, !.pc = "interval"] ELSE Got(job[w], lines)]
  BY DEF ReadRegion
<1> DEFINE lines == load_region(p, j.start, Part(w), seen)
<1>4. Abstract!Shows(Part(w), size[p], lines)
  BY <1>1, <1>2, RegionShows DEF StartTrue
<1>5. lines = Corrupt \/ lines \subseteq 1..Lines(size[p])
  BY <1>1, <1>2, RegionLines
<1>6. UNCHANGED <<size, active, windows, overview, runs, left, refusals>>
  BY DEF ReadRegion
<1>7. refusals' \in Nat /\ WindowsTrue' /\ RunsTrue' /\ OverviewTrue'
  BY <1>1, <1>6, CachesStay DEF TypeOK
<1>8. CASE lines # Corrupt /\ j.req.kind = "experiment"
  <2>1. job' = [job EXCEPT ![w] = [job[w] EXCEPT !.held = lines, !.pc = "interval"]]
    BY <1>3, <1>8
  <2> HIDE DEF lines
  <2>2. Lines(size[p]) \in Nat /\ lines \subseteq 1..Lines(size[p])
    BY <1>2, <1>5, <1>8, LinesFacts
  <2>3. lines \in SUBSET Nat
    BY <2>2
  <2>4. /\ job'[w] = [job[w] EXCEPT !.held = lines, !.pc = "interval"]
        /\ \A v \in Workers \ {w} : job'[v] = job[v]
    BY <1>1, <2>1 DEF TypeOK
  <2>5. /\ job'[w] \in Jobs /\ job'[w].pc = "interval" /\ job'[w].req = j.req
        /\ job'[w].at = j.at /\ job'[w].got = j.got /\ job'[w].fp = j.fp /\ job'[w].ends = j.ends
        /\ job'[w].held = lines
    BY <1>1, <2>3, <2>4 DEF Jobs
  <2>6. job' \in [Workers -> Jobs]
    BY <1>1, <2>1, <2>5 DEF TypeOK
  <2>7. Part(w)' = Part(w) /\ \A q : Since(job'[w], q) = Since(j, q)
    BY <2>5 DEF Part, Since
  <2>8. HeldTrue(w)'
    BY <1>2, <1>4, <1>6, <2>2, <2>5, <2>7 DEF HeldTrue
  <2>9. EndsTrue(w)' /\ Busy(job'[w]) /\ "interval" \in Stage(j.req.kind)
    BY <1>1, <1>6, <1>8, <2>5, EndsStay DEF Busy, Stage
  <2>10. Moves(w)
    BY <1>1, <1>6, <1>7, <1>8, <2>4, <2>5, <2>6, <2>8, <2>9 DEF Moves, PartsTrue
  <2> QED
    BY <1>6, <1>7, <2>10, MoveKeeps
<1>9. CASE ~(lines # Corrupt /\ j.req.kind = "experiment")
  <2>1. job' = [job EXCEPT ![w] = Got(job[w], lines)]
    BY <1>3, <1>9
  <2> HIDE DEF lines
  <2>2. ShownIn(Part(w), Since(j, p), size[p], lines)
    BY <1>1, <1>4, NowIsSince
  <2>3. lines \in Errors \cup SUBSET Nat
    <3>1. Lines(size[p]) \in Nat
      BY <1>2, LinesFacts
    <3> QED
      BY <1>5, <3>1 DEF Errors
  <2>4. Taken(j, lines, j.ends) = Got(j, lines) /\ j.ends \in Seq(SUBSET Nat)
    BY <1>1, <2>3, SameEnds DEF Jobs
  <2>5. Receives(w, lines, j.ends)
    BY <1>1, <1>6, <1>7, <2>1, <2>2, <2>4 DEF Receives, Complete
  <2> QED
    BY <1>6, <1>7, <2>5, ReceiveKeeps
<1> QED
  BY <1>8, <1>9

(* A run's outcome is kept under the fingerprint its file had before it    *)
(* was read.                                                               *)
LEMMA CachedIsTrue ==
  ASSUME IndInv, NEW w \in Workers, Busy(job[w]), size' = size, runs' = Cached(w),
         ShownIn(Part(w), job[w].fp, size[Part(w).path], job[w].held)
  PROVE  RunsTrue'
<1> DEFINE j == job[w]
           p == Part(w).path
           key == cache_key(Part(w))
           of == [path |-> key[1], from |-> key[2], to |-> key[3]]
           entry == [fp |-> j.fp, got |-> j.held]
           old == IF Cardinality(DOMAIN runs) >= MaxRunEntries THEN <<>> ELSE runs
<1>1. p \in Paths /\ Part(w) \in Parts /\ j.fp \in Nat
  BY NowIsSince
<1>2. runs' = Key(old, key, entry)
  BY DEF Cached
<1>3. Entry(of, j.fp, j.held)
  <2>1. of \in Parts /\ of.path = p
    BY <1>1, KeyIsPart
  <2>2. ShownIn(of, j.fp, size[p], j.held)
    BY <1>1, KeyIsShown
  <2> QED
    BY <1>1, <2>1, <2>2 DEF Entry
<1> SUFFICES ASSUME NEW k \in DOMAIN runs'
             PROVE  Entry([path |-> k[1], from |-> k[2], to |-> k[3]], runs'[k].fp, runs'[k].got)
  BY DEF RunsTrue, Entry, ShownIn
<1>4. CASE k = key
  <2>1. runs'[k].fp = j.fp /\ runs'[k].got = j.held
    BY <1>2, <1>4 DEF Key
  <2> QED
    BY <1>3, <1>4, <2>1
<1>5. CASE k # key
  <2>1. k \in DOMAIN old /\ runs'[k] = old[k]
    <3> HIDE DEF old, key, entry
    <3> QED
      BY <1>2, <1>5 DEF Key
  <2>2. k \in DOMAIN runs /\ runs'[k] = runs[k]
    BY <2>1
  <2> QED
    BY <2>2 DEF IndInv, RunsTrue
<1> QED
  BY <1>4, <1>5

(* The interval is read, and a run is complete.                            *)
LEMMA ReadIntervalKeeps ==
  ASSUME IndInv, NEW w \in Workers, ReadInterval(w)
  PROVE  Kept
<1> DEFINE j == job[w]
           p == Part(w).path
<1>1. /\ j.pc = "interval" /\ Busy(j) /\ AtWork(w) /\ PartsTrue(w) /\ HeldTrue(w) /\ EndsTrue(w) /\ TypeOK
      /\ j \in Jobs /\ j.req.kind \in {"overview", "range", "compare", "experiment"}
      /\ j.req \in Requests[w]
  BY KindFacts DEF IndInv, ReadInterval, Busy, TypeOK, AtWork
<1>2. UNCHANGED <<size, active, windows, overview, left, refusals>> /\ refusals' \in Nat
  BY <1>1 DEF ReadInterval, TypeOK
<1>3. ASSUME NEW pc \in {"tail", "stat", "meta"}, job' = [job EXCEPT ![w] = [job[w] EXCEPT !.pc = pc]],
             runs' = runs, pc = "tail" <=> j.req.kind = "overview", pc = "meta" <=> j.req.kind = "compare",
             pc \in Stage(j.req.kind)
      PROVE  Kept
  <2>1. /\ job'[w] = [job[w] EXCEPT !.pc = pc] /\ \A v \in Workers \ {w} : job'[v] = job[v]
    BY <1>1, <1>3 DEF TypeOK
  <2>2. /\ job'[w] \in Jobs /\ job'[w].pc = pc /\ job'[w].cal = j.cal /\ job'[w].req = j.req
        /\ job'[w].at = j.at /\ job'[w].got = j.got /\ job'[w].fp = j.fp /\ job'[w].ends = j.ends
        /\ job'[w].held = j.held
    BY <1>1, <2>1 DEF Jobs
  <2>3. job' \in [Workers -> Jobs] /\ Busy(job'[w])
    BY <1>1, <1>3, <2>2 DEF TypeOK, Busy
  <2>4. Part(w)' = Part(w) /\ \A q : Since(job'[w], q) = Since(j, q)
    BY <2>2 DEF Part, Since
  <2>5. HeldTrue(w)'
    <3>1. Holds(job'[w]) => Holds(j)
      BY <1>1, <1>3, <2>2 DEF Holds
    <3> QED
      BY <1>1, <1>2, <2>2, <2>4, <3>1 DEF HeldTrue
  <2>6. EndsTrue(w)'
    <3>1. Len(j.ends) = 0 \/ j.req.kind = "overview" \/ j.req.kind = "range"
      BY <1>1 DEF EndsTrue
    <3>2. Len(j.ends) = 0
      BY <1>1 DEF EndsTrue
    <3>3. Len(j.req.parts) > 0 /\ j.ends = <<>>
      BY <1>1, <3>2, WorkspaceAssumption DEF Jobs
    <3> QED
      BY <1>3, <2>2, <3>2, <3>3 DEF EndsTrue
  <2>7. Moves(w)
    BY <1>1, <1>2, <1>3, <2>1, <2>2, <2>3, <2>5, <2>6 DEF Moves, PartsTrue
  <2> QED
    BY <1>2, <1>3, <2>7, MoveKeeps, CachesStay
<1>4. CASE j.req.kind = "overview"
  <2>1. job' = [job EXCEPT ![w] = [job[w] EXCEPT !.pc = "tail"]] /\ runs' = runs
    BY <1>4 DEF ReadInterval
  <2> QED
    BY <1>3, <1>4, <2>1 DEF Stage
<1>5. CASE j.req.kind = "range"
  <2>1. job' = [job EXCEPT ![w] = [job[w] EXCEPT !.pc = "stat"]] /\ runs' = runs
    BY <1>5 DEF ReadInterval
  <2> QED
    BY <1>3, <1>5, <2>1 DEF Stage
<1>6. CASE j.req.kind = "compare"
  <2>1. job' = [job EXCEPT ![w] = [job[w] EXCEPT !.pc = "meta"]] /\ runs' = runs
    BY <1>6 DEF ReadInterval
  <2> QED
    BY <1>3, <1>6, <2>1 DEF Stage
<1>7. CASE j.req.kind = "experiment"
  <2>1. job' = [job EXCEPT ![w] = Got(job[w], j.held)] /\ runs' = Cached(w)
    BY <1>7 DEF ReadInterval
  <2>2. PICK k \in j.fp..size[p] :
          Since(j, p) <= k /\ j.held \subseteq 1..Lines(k) /\ Abstract!Shows(Part(w), k, j.held)
    BY <1>1, <1>7 DEF HeldTrue, Holds
  <2>3. size[p] \in Nat /\ j.fp \in Nat /\ Since(j, p) \in Nat
    BY <1>1, NowIsSince
  <2>4. ShownIn(Part(w), Since(j, p), size[p], j.held) /\ ShownIn(Part(w), j.fp, size[p], j.held)
    <3>1. k \in Since(j, p)..size[p]
      BY <2>2, <2>3
    <3> QED
      BY <2>2, <3>1 DEF ShownIn
  <2>5. j.held \in SUBSET Nat /\ j.ends \in Seq(SUBSET Nat)
    BY <1>1 DEF Jobs
  <2>6. Taken(j, j.held, j.ends) = Got(j, j.held)
    BY <1>1, <2>5, SameEnds
  <2>7. Receives(w, j.held, j.ends)
    BY <1>1, <1>2, <1>7, <2>1, <2>4, <2>5, <2>6 DEF Receives, Complete
  <2>8. RunsTrue'
    BY <1>1, <1>2, <2>1, <2>4, CachedIsTrue
  <2>9. OverviewTrue'
    BY <1>2 DEF IndInv, OverviewTrue, Entry, ShownIn, EndIn
  <2> QED
    BY <1>2, <2>7, <2>8, <2>9, ReceiveKeeps
<1> QED
  BY <1>1, <1>4, <1>5, <1>6, <1>7

(* A comparison's ends, one side after the other.                          *)
LEMMA ReadMetaKeeps ==
  ASSUME IndInv, NEW w \in Workers, ReadMeta(w)
  PROVE  Kept
<1> DEFINE j == job[w]
           q == j.req.parts[Len(j.ends) + 1].path
           ends == Append(j.ends, footer_line(q))
           pc == IF Len(ends) = Len(j.req.parts) THEN "stat" ELSE "meta"
<1>1. /\ j.pc = "meta" /\ Busy(j) /\ AtWork(w) /\ PartsTrue(w) /\ EndsTrue(w) /\ TypeOK
      /\ j \in Jobs /\ j.req.kind = "compare" /\ j.req \in Requests[w]
  <2>1. j.req.kind \in {"overview", "range", "compare", "experiment"} /\ j.pc \in Stage(j.req.kind)
    BY KindFacts DEF IndInv, ReadMeta, Busy, AtWork
  <2> QED
    BY <2>1 DEF IndInv, ReadMeta, Busy, TypeOK, Stage, AtWork
<1>2. UNCHANGED <<size, active, windows, overview, runs, left, refusals>> /\ refusals' \in Nat
  BY <1>1 DEF ReadMeta, TypeOK
<1>3. /\ j.ends \in Seq(SUBSET Nat) /\ Len(j.ends) \in Nat /\ Len(j.ends) < Len(j.req.parts)
      /\ j.req.parts \in Seq(Parts) /\ Len(j.req.parts) \in Nat
  BY <1>1, WorkspaceAssumption DEF Jobs, EndsTrue
<1>4. q \in Paths /\ size[q] \in Nat /\ Since(j, q) \in Nat /\ Since(j, q) <= size[q]
  <2>1. j.req.parts[Len(j.ends) + 1] \in Parts
    BY <1>3
  <2>2. q \in Paths
    BY <2>1 DEF Parts
  <2> QED
    BY <1>1, <2>2, SinceFacts
<1> HIDE DEF q
<1>5. footer_line(q) \in SUBSET Nat /\ EndIn(q, Since(j, q), size[q], footer_line(q))
  <2>1. Lines(size[q]) \in Nat /\ Abstract!Whole(size[q]) = Lines(size[q])
    BY <1>4, LinesFacts
  <2>2. Abstract!EndsAt(q, size[q], footer_line(q)) /\ footer_line(q) \in SUBSET Nat
    BY <2>1 DEF footer_line, Abstract!EndsAt
  <2> QED
    BY <1>4, <2>2 DEF EndIn
<1>6. /\ ends \in Seq(SUBSET Nat) /\ Len(ends) = Len(j.ends) + 1
      /\ \A i \in 1..Len(j.ends) : ends[i] = j.ends[i]
      /\ ends[Len(j.ends) + 1] = footer_line(q) /\ DOMAIN ends = 1..(Len(j.ends) + 1)
  BY <1>3, <1>5
<1>7. job' = [job EXCEPT ![w] = [job[w] EXCEPT !.ends = ends, !.pc = pc]]
  BY <1>1 DEF ReadMeta, q
<1> HIDE DEF ends
<1>8. \A i \in DOMAIN ends : LET r == j.req.parts[i].path IN EndIn(r, Since(j, r), size[r], ends[i])
  <2> SUFFICES ASSUME NEW i \in DOMAIN ends
               PROVE  LET r == j.req.parts[i].path IN EndIn(r, Since(j, r), size[r], ends[i])
    OBVIOUS
  <2>1. CASE i = Len(j.ends) + 1
    BY <1>5, <1>6, <2>1 DEF q
  <2>2. CASE i # Len(j.ends) + 1
    <3> DEFINE n == Len(j.ends)
    <3>1. n \in Nat /\ DOMAIN j.ends = 1..n /\ i \in 1..(n + 1) /\ i # n + 1
      BY <1>3, <1>6, <2>2
    <3> HIDE DEF n
    <3>2. i \in 1..n
      BY <3>1
    <3>3. i \in 1..Len(j.ends) /\ i \in DOMAIN j.ends
      BY <3>1, <3>2 DEF n
    <3> QED
      BY <1>1, <1>6, <3>3 DEF EndsTrue
  <2> QED
    BY <2>1, <2>2
<1>9. /\ job'[w] = [job[w] EXCEPT !.ends = ends, !.pc = pc] /\ \A v \in Workers \ {w} : job'[v] = job[v]
  BY <1>1, <1>7 DEF TypeOK
<1>10. /\ job'[w] \in Jobs /\ job'[w].pc = pc /\ job'[w].req = j.req
       /\ job'[w].at = j.at /\ job'[w].got = j.got /\ job'[w].fp = j.fp /\ job'[w].ends = ends
  BY <1>1, <1>6, <1>9 DEF Jobs
<1>11. job' \in [Workers -> Jobs] /\ Busy(job'[w]) /\ pc \in Stage(j.req.kind)
  BY <1>1, <1>7, <1>10 DEF TypeOK, Busy, Stage
<1>12. \A r : Since(job'[w], r) = Since(j, r)
  BY <1>10 DEF Since
<1>13. HeldTrue(w)'
  BY <1>1, <1>10 DEF HeldTrue, Holds
<1>14. EndsTrue(w)'
  BY <1>1, <1>2, <1>3, <1>6, <1>8, <1>10, <1>12 DEF EndsTrue
<1>15. Moves(w)
  BY <1>1, <1>2, <1>9, <1>10, <1>11, <1>13, <1>14 DEF Moves, PartsTrue
<1> QED
  BY <1>2, <1>15, MoveKeeps, CachesStay

(* A refused operation is an answer of any moment.                         *)
LEMMA RefuseKeeps ==
  ASSUME IndInv, NEW w \in Workers, Refuse(w)
  PROVE  Kept
<1> DEFINE j == job[w]
           p == Part(w).path
<1>1. /\ j.pc \in {"full", "interval", "tail", "meta", "stat", "index", "read"}
      /\ Busy(j) /\ AtWork(w) /\ PartsTrue(w) /\ TypeOK /\ j \in Jobs
      /\ j.req.kind \in {"overview", "range", "compare", "experiment"} /\ j.pc \in Stage(j.req.kind)
  BY KindFacts DEF IndInv, Refuse, Busy, TypeOK, AtWork
<1>2. UNCHANGED <<size, active, windows, overview, runs, left>> /\ refusals' \in Nat
  BY <1>1 DEF Refuse, Refusing, TypeOK
<1>3. ShownIn(Part(w), Since(j, p), size[p], Refused)
  <2>1. Abstract!Shows(Part(w), size[p], Refused)
    BY DEF Abstract!Shows
  <2> QED
    BY <1>1, <2>1, NowIsSince
<1>4. j.ends \in Seq(SUBSET Nat) /\ Refused \in Errors
  BY <1>1 DEF Jobs, Errors
<1>5. Taken(j, Refused, j.ends) = Got(j, Refused)
  BY <1>1, <1>4, SameEnds
<1>6. job' = [job EXCEPT ![w] = Got(job[w], Refused)]
  BY DEF Refuse
<1>7. j.req.kind = "overview" => j.cal \in j.at.cal \cup {None}
  BY <1>1 DEF PartsTrue, Stage
<1>8. Receives(w, Refused, j.ends)
  BY <1>1, <1>2, <1>3, <1>4, <1>5, <1>6, <1>7 DEF Receives, Complete
<1> QED
  BY <1>2, <1>8, CachesStay, ReceiveKeeps

(* A file grows: what was shown was shown, and what was begun is.          *)
LEMMA AppendKeeps ==
  ASSUME IndInv, NEW f \in Paths, Append_(f)
  PROVE  Kept
<1>1. TypeOK /\ UNCHANGED <<active, windows, overview, runs, job, left, refusals>>
  BY DEF IndInv, Append_
<1>2. /\ size' \in [Paths -> Nat]
      /\ \A q \in Paths : size'[q] \in 2..(2 * Len(Script[q])) /\ size[q] <= size'[q]
  BY <1>1, WorkspaceAssumption DEF TypeOK, Append_
<1>3. TypeOK'
  BY <1>1, <1>2 DEF TypeOK
<1>4. \A q \in Paths : /\ size[q] \in Nat /\ size'[q] \in Nat
                       /\ Lines(size[q] + 1) \in Nat /\ Lines(size'[q] + 1) \in Nat
                       /\ Lines(size[q] + 1) <= Lines(size'[q] + 1)
  BY <1>1, <1>2, LinesFacts, LinesGrow DEF TypeOK
<1>5. WindowsTrue'
  <2> SUFFICES ASSUME NEW q \in DOMAIN windows PROVE q \in Paths /\ Checkpoints(q, windows[q].cps)'
    BY <1>1 DEF WindowsTrue
  <2>1. q \in Paths /\ Checkpoints(q, windows[q].cps)
    BY DEF IndInv, WindowsTrue
  <2>2. 0..(Lines(size[q] + 1) - 1) \subseteq 0..(Lines(size'[q] + 1) - 1)
    BY <1>4, <2>1
  <2> QED
    BY <1>1, <2>1, <2>2 DEF Checkpoints
<1>6. ASSUME NEW part \in Parts, NEW from \in Nat, NEW got, ShownIn(part, from, size[part.path], got)
      PROVE  ShownIn(part, from, size'[part.path], got)
  <2>1. part.path \in Paths
    BY DEF Parts
  <2> QED
    BY <1>2, <1>4, <1>6, <2>1, ShownFacts
<1>a. ASSUME NEW q \in Paths, NEW from \in Nat, NEW end, EndIn(q, from, size[q], end)
      PROVE  EndIn(q, from, size'[q], end)
  BY <1>2, <1>4, <1>a, EndFacts
<1>7. RunsTrue' /\ OverviewTrue'
  <2>1. RunsTrue'
    BY <1>1, <1>6 DEF IndInv, RunsTrue, Entry
  <2>2. OverviewTrue'
    <3> SUFFICES ASSUME overview # None PROVE OverviewTrue'
      BY <1>1 DEF OverviewTrue
    <3> DEFINE p == overview.path
    <3>1. OverviewTrue /\ Entry(WholeFile(p), overview.bytes, overview.got)
      BY DEF IndInv, OverviewTrue
    <3>2. p \in Paths /\ overview.bytes \in Nat /\ WholeFile(p) \in Parts /\ WholeFile(p).path = p
      BY <3>1 DEF Entry, WholeFile, Parts
    <3>3. EndIn(p, overview.bytes, size'[p], overview.ends[1])
      BY <1>a, <3>1, <3>2 DEF OverviewTrue
    <3>4. ShownIn(WholeFile(p), overview.bytes, size'[p], overview.got)
      BY <1>6, <3>1, <3>2 DEF Entry
    <3> HIDE DEF p
    <3> QED
      BY <1>1, <3>1, <3>2, <3>3, <3>4 DEF OverviewTrue, Entry, p
  <2> QED
    BY <2>1, <2>2
<1>8. ASSUME NEW w \in Workers
      PROVE  AtWork(w)' /\ PartsTrue(w)' /\ HeldTrue(w)' /\ EndsTrue(w)' /\ StartTrue(w)'
  <2>1. /\ AtWork(w)' /\ AtWork(w) /\ PartsTrue(w) /\ HeldTrue(w) /\ EndsTrue(w) /\ StartTrue(w)
        /\ Part(w)' = Part(w) /\ \A q : Since(job'[w], q) = Since(job[w], q)
    BY <1>1 DEF IndInv, AtWork, Part, Since
  <2>2. CASE ~Busy(job[w])
    BY <1>1, <2>1, <2>2 DEF PartsTrue, HeldTrue, Holds, EndsTrue, StartTrue, Busy
  <2>3. CASE Busy(job[w])
    <3> DEFINE j == job[w]
    <3>1. /\ Part(w).path \in Paths /\ j \in Jobs /\ j.at.size \in [Paths -> Nat]
          /\ \A i \in 1..(Len(j.got) + 1) : j.req.parts[i] \in Parts
          /\ Len(j.got) \in Nat
      BY <1>1, <2>1, <2>3, PartFacts DEF AtWork
    <3>2. StartTrue(w)'
      <4> SUFFICES ASSUME job[w].pc = "read", job[w].start > 0
                   PROVE  /\ job[w].start + 1 <= Lines(size'[Part(w).path] + 1)
                          /\ 0 < Script[Part(w).path][job[w].start + 1].wall
                          /\ Script[Part(w).path][job[w].start + 1].wall <= Or(Part(w).from, 0)
        BY <1>1, <2>1 DEF StartTrue
      <4>1. job[w].start \in Nat
        BY <3>1 DEF Jobs
      <4>2. /\ job[w].start + 1 <= Lines(size[Part(w).path] + 1)
            /\ 0 < Script[Part(w).path][job[w].start + 1].wall
            /\ Script[Part(w).path][job[w].start + 1].wall <= Or(Part(w).from, 0)
        BY <2>1 DEF StartTrue
      <4>3. /\ Lines(size[Part(w).path] + 1) \in Nat /\ Lines(size'[Part(w).path] + 1) \in Nat
            /\ Lines(size[Part(w).path] + 1) <= Lines(size'[Part(w).path] + 1)
        BY <1>4, <3>1
      <4> QED
        BY <4>1, <4>2, <4>3
    <3>3. \A q \in Paths : j.at.size[q] <= size'[q]
      <4> SUFFICES ASSUME NEW q \in Paths PROVE j.at.size[q] <= size'[q]
        OBVIOUS
      <4>1. j.at.size[q] <= size[q]
        BY <2>1, <2>3 DEF PartsTrue
      <4>2. j.at.size[q] \in Nat /\ size[q] \in Nat /\ size'[q] \in Nat /\ size[q] <= size'[q]
        BY <1>2, <1>4, <3>1
      <4> QED
        BY <4>1, <4>2
    <3>4. j.fp <= size'[Part(w).path]
      <4>1. j.fp \in Nat /\ j.fp <= size[Part(w).path]
        BY <2>1, <2>3, <3>1 DEF PartsTrue, Jobs
      <4>2. /\ size[Part(w).path] \in Nat /\ size'[Part(w).path] \in Nat
            /\ size[Part(w).path] <= size'[Part(w).path]
        BY <1>2, <1>4, <3>1
      <4> QED
        BY <4>1, <4>2
    <3>5. ASSUME NEW i \in DOMAIN j.got
          PROVE  ShownIn(j.req.parts[i], Since(j, j.req.parts[i].path),
                         size'[j.req.parts[i].path], j.got[i])
      <4>1. i \in 1..(Len(j.got) + 1)
        BY <3>1 DEF Jobs
      <4>2. j.req.parts[i] \in Parts /\ j.req.parts[i].path \in Paths
        BY <3>1, <4>1 DEF Parts
      <4>3. ShownIn(j.req.parts[i], Since(j, j.req.parts[i].path), size[j.req.parts[i].path], j.got[i])
        BY <2>1, <2>3 DEF PartsTrue
      <4>4. Since(j, j.req.parts[i].path) \in Nat
        BY <3>1, <4>2 DEF Since
      <4> QED
        BY <1>6, <4>2, <4>3, <4>4
    <3>6. PartsTrue(w)'
      BY <1>1, <2>1, <2>3, <3>3, <3>4, <3>5 DEF PartsTrue
    <3>7. HeldTrue(w)'
      <4> SUFFICES ASSUME Holds(j) PROVE HeldTrue(w)'
        BY <1>1 DEF HeldTrue
      <4> DEFINE p == Part(w).path
      <4>1. PICK k \in j.fp..size[p] :
              Since(j, p) <= k /\ j.held \subseteq 1..Lines(k) /\ Abstract!Shows(Part(w), k, j.held)
        BY <2>1 DEF HeldTrue
      <4>2. j.fp \in Nat /\ size[p] \in Nat /\ size'[p] \in Nat /\ size[p] <= size'[p]
        BY <1>2, <1>4, <3>1 DEF Jobs
      <4>3. k \in j.fp..size'[p]
        BY <4>2
      <4> QED
        BY <1>1, <2>1, <4>1, <4>3 DEF HeldTrue
    <3>8. EndsTrue(w)'
      <4>1. ASSUME NEW i \in DOMAIN j.ends
            PROVE  LET q == j.req.parts[i].path IN EndIn(q, Since(j, q), size'[q], j.ends[i])
        <5> DEFINE q == j.req.parts[i].path
        <5>1. i \in 1..Len(j.req.parts)
          <6>1. /\ j.ends \in Seq(SUBSET Nat) /\ Len(j.req.parts) \in Nat
            BY <1>1, <2>1, <2>3, PartFacts DEF Jobs
          <6>2. Len(j.ends) <= Len(j.req.parts)
            BY <2>1, <2>3, <6>1 DEF EndsTrue
          <6> QED
            BY <6>1, <6>2
        <5>2. j.req.parts[i] \in Parts
          BY <1>1, <2>1, <2>3, <5>1, PartFacts
        <5>3. q \in Paths
          BY <5>2 DEF Parts
        <5>4. EndIn(q, Since(j, q), size[q], j.ends[i]) /\ Since(j, q) \in Nat
          BY <2>1, <2>3, <3>1, <5>3 DEF EndsTrue, Since
        <5> QED
          BY <1>a, <5>3, <5>4
      <4> QED
        BY <1>1, <2>1, <2>3, <4>1 DEF EndsTrue
    <3> QED
      BY <2>1, <3>2, <3>6, <3>7, <3>8
  <2> QED
    BY <2>2, <2>3
<1>9. Abstract!Grow(f)
  BY <1>1 DEF Append_, Abstract!Grow
<1> QED
  BY <1>3, <1>5, <1>7, <1>8, <1>9 DEF IndInv, Kept, Abstract!SnapshotNext

LEMMA SetActiveKeeps ==
  ASSUME IndInv, NEW c \in Calibrations, SetActive(c)
  PROVE  Kept
<1>1. TypeOK /\ UNCHANGED <<size, windows, overview, runs, left, refusals>> /\ active' = c /\ c \in Nat
  BY WorkspaceAssumption DEF IndInv, SetActive
<1>2. ASSUME NEW v \in Workers
      PROVE  /\ job'[v] = IF Busy(job[v]) THEN [job[v] EXCEPT !.at.cal = @ \cup {c}] ELSE job[v]
             /\ job[v] \in Jobs
  BY <1>1 DEF SetActive, Busy, TypeOK
<1>3. ASSUME NEW v \in Workers, Busy(job[v])
      PROVE  /\ job'[v] \in Jobs /\ job'[v].pc = job[v].pc /\ job'[v].req = job[v].req
             /\ job'[v].at.size = job[v].at.size /\ job'[v].at.cal = job[v].at.cal \cup {c}
             /\ job'[v].at.old = job[v].at.old
             /\ job'[v].at = [job[v].at EXCEPT !.cal = @ \cup {c}]
             /\ job'[v].cal = job[v].cal /\ job'[v].fp = job[v].fp
             /\ job'[v].start = job[v].start /\ job'[v].got = job[v].got
             /\ job'[v].held = job[v].held /\ job'[v].ends = job[v].ends
  <2>1. job'[v] = [job[v] EXCEPT !.at.cal = @ \cup {c}] /\ job[v] \in Jobs
    BY <1>2, <1>3
  <2> DEFINE at == [job[v].at EXCEPT !.cal = @ \cup {c}]
  <2>2. /\ at \in Ats /\ at.size = job[v].at.size /\ at.cal = job[v].at.cal \cup {c}
        /\ at.old = job[v].at.old
    <3>1. job[v].at \in Ats
      BY <2>1 DEF Jobs, Ats
    <3> QED
      BY <1>1, <3>1 DEF Ats
  <2>3. job'[v] = [job[v] EXCEPT !.at = at]
    BY <2>1 DEF Jobs
  <2> HIDE DEF at
  <2>4. /\ job'[v] \in Jobs /\ job'[v].pc = job[v].pc /\ job'[v].req = job[v].req
        /\ job'[v].at = at /\ job'[v].cal = job[v].cal /\ job'[v].fp = job[v].fp
        /\ job'[v].start = job[v].start /\ job'[v].got = job[v].got
        /\ job'[v].held = job[v].held /\ job'[v].ends = job[v].ends
    <3> DEFINE j == job[v]
               g == [j EXCEPT !.at = at]
    <3>1. j \in JobSet
      BY <2>1, JobsAre
    <3> HIDE DEF j
    <3>2. /\ g \in JobSet /\ g.pc = j.pc /\ g.req = j.req /\ g.at = at /\ g.cal = j.cal
          /\ g.fp = j.fp /\ g.start = j.start /\ g.got = j.got /\ g.held = j.held
          /\ g.ends = j.ends
      BY <2>2, <3>1 DEF JobSet
    <3> HIDE DEF g
    <3>3. job'[v] = g
      BY <2>3 DEF g, j
    <3> QED
      BY <3>2, <3>3, JobsAre DEF j
  <2> QED
    BY <2>2, <2>4 DEF at
<1>4. TypeOK'
  <2>1. job' \in [Workers -> Jobs]
    BY <1>2, <1>3 DEF SetActive
  <2> QED
    BY <1>1, <2>1 DEF TypeOK
<1>5. WindowsTrue' /\ RunsTrue' /\ OverviewTrue'
  BY <1>1, CachesStay
<1>6. ASSUME NEW v \in Workers
      PROVE  AtWork(v)' /\ PartsTrue(v)' /\ HeldTrue(v)' /\ EndsTrue(v)' /\ StartTrue(v)'
  <2>1. AtWork(v) /\ PartsTrue(v) /\ HeldTrue(v) /\ EndsTrue(v) /\ StartTrue(v)
    BY DEF IndInv
  <2>2. CASE Busy(job[v])
    <3>1. Part(v)' = Part(v) /\ \A q : Since(job'[v], q) = Since(job[v], q)
      BY <1>3, <2>2 DEF Part, Since
    <3>2. AtWork(v)' /\ StartTrue(v)'
      BY <1>1, <1>3, <2>1, <2>2, <3>1 DEF AtWork, StartTrue, Busy
    <3>3. PartsTrue(v)'
      <4> DEFINE j == job[v]
                 g == job'[v]
      <4>1. /\ g.pc = j.pc /\ g.req = j.req /\ g.got = j.got /\ g.fp = j.fp /\ g.cal = j.cal
            /\ g.at.size = j.at.size /\ g.at.cal = j.at.cal \cup {c} /\ size' = size /\ active' = c
        BY <1>1, <1>3, <2>2
      <4>2. \A p \in Paths : g.at.size[p] <= size'[p]
        BY <2>1, <2>2, <4>1 DEF PartsTrue
      <4>3. \A i \in DOMAIN g.got :
               LET part == g.req.parts[i]
               IN ShownIn(part, Since(g, part.path), size'[part.path], g.got[i])
        BY <2>1, <2>2, <3>1, <4>1 DEF PartsTrue
      <4>4. g.pc \in {"fingerprint", "cache", "full", "interval", "tail"} /\ g.req.kind = "overview"
              => g.cal \in g.at.cal \cup {None}
        BY <2>1, <2>2, <4>1 DEF PartsTrue
      <4>5. /\ g.fp <= size'[Part(v)'.path]
            /\ g.pc = "cache" => Since(g, Part(v)'.path) <= g.fp
        BY <2>1, <2>2, <3>1, <4>1 DEF PartsTrue
      <4>6. active' \in g.at.cal
        BY <4>1
      <4> QED
        BY <4>2, <4>3, <4>4, <4>5, <4>6, Zenon DEF PartsTrue
    <3>4. HeldTrue(v)'
      <4> SUFFICES ASSUME Holds(job'[v]) PROVE HeldTrue(v)'
        BY DEF HeldTrue, Holds
      <4> DEFINE p == Part(v).path
      <4>1. Holds(job[v])
        BY <1>3, <2>2 DEF Holds
      <4>2. PICK k \in job[v].fp..size[p] :
              /\ Since(job[v], p) <= k /\ job[v].held \subseteq 1..Lines(k)
              /\ Abstract!Shows(Part(v), k, job[v].held)
        BY <2>1, <4>1 DEF HeldTrue
      <4>3. /\ job'[v].fp = job[v].fp /\ job'[v].held = job[v].held /\ size' = size
            /\ Since(job'[v], p) = Since(job[v], p) /\ Part(v)' = Part(v)
        BY <1>1, <1>3, <2>2, <3>1
      <4> QED
        BY <4>2, <4>3 DEF HeldTrue
    <3>5. EndsTrue(v)'
      <4>1. /\ job'[v].ends = job[v].ends /\ job'[v].req = job[v].req /\ job'[v].pc = job[v].pc
            /\ \A q : Since(job'[v], q) = Since(job[v], q)
            /\ size' = size
        BY <1>1, <1>3, <2>2, <3>1
      <4> QED
        BY <2>1, <2>2, <4>1 DEF EndsTrue
    <3> QED
      BY <3>2, <3>3, <3>4, <3>5
  <2>3. CASE ~Busy(job[v])
    BY <1>1, <1>2, <2>1, <2>3 DEF AtWork, PartsTrue, HeldTrue, Holds, EndsTrue, StartTrue, Busy, Part
  <2> QED
    BY <2>2, <2>3
<1>7. \A v \in Workers : /\ Phase(job'[v]) = Phase(job[v]) /\ job'[v].req = job[v].req
                         /\ Answer(job'[v]) = Answer(job[v])
                         /\ job'[v].at = IF Phase(job[v]) # "asked" THEN job[v].at
                                         ELSE [job[v].at EXCEPT !.cal = @ \cup {c}]
  BY <1>2, <1>3 DEF Phase, Answer, Busy
<1>8. Abstract!Activate(c)
  BY <1>1, <1>7 DEF Abstract!Activate, Answer
<1> QED
  BY <1>4, <1>5, <1>6, <1>8 DEF IndInv, Kept, Abstract!SnapshotNext

LEMMA RequestKeeps ==
  ASSUME IndInv, NEW w \in Workers, NEW r \in Requests[w], Request(w, r)
  PROVE  Kept
<1> DEFINE at == [size |-> size, cal |-> {active}, old |-> {}]
           g == [Idle EXCEPT !.pc = FirstPc(r.kind), !.req = r, !.at = at]
<1>1. TypeOK /\ UNCHANGED <<size, active, windows, overview, runs, refusals>> /\ ~Busy(job[w]) /\ left' \in Nat
  BY DEF IndInv, Request, Busy, TypeOK
<1>2. job'[w] = g /\ \A v \in Workers \ {w} : job'[v] = job[v]
  BY <1>1 DEF Request, TypeOK
<1>3. /\ at \in [size : {<<>>} \cup [Paths -> Nat], cal : SUBSET Nat, old : SUBSET Paths]
      /\ at.size = size /\ at.cal = {active} /\ at.old = {}
  BY <1>1, WorkspaceAssumption DEF TypeOK
<1> HIDE DEF at
<1>4. /\ g \in Jobs /\ g.pc = FirstPc(r.kind) /\ g.req = r /\ g.at = at
      /\ g.got = <<>> /\ g.fp = 0 /\ g.ends = <<>>
  <2>1. FirstPc(r.kind) \in {"calibration", "fingerprint", "interval"}
    BY KindFacts, FirstPcFacts
  <2>2. r \in UNION {Requests[v] : v \in Workers}
    OBVIOUS
  <2>3. /\ g.pc = FirstPc(r.kind) /\ g.req = r /\ g.at = at /\ g.got = <<>> /\ g.fp = 0 /\ g.ends = <<>>
    BY IdleFacts DEF Idle
  <2>4. g \in Jobs
    BY <1>3, <2>1, <2>2, IdleFacts DEF Jobs
  <2> QED
    BY <2>3, <2>4
<1> HIDE DEF g
<1>5. TypeOK'
  BY <1>1, <1>4 DEF TypeOK, Request, g, at
<1>6. WindowsTrue' /\ RunsTrue' /\ OverviewTrue'
  BY <1>1, CachesStay
<1>7. /\ g.pc \in {"calibration", "fingerprint", "interval"} /\ g.pc \in Stage(r.kind)
      /\ g.pc = "interval" => r.kind \in {"range", "compare"}
      /\ g.pc = "fingerprint" => r.kind = "experiment"
      /\ r.kind = "compare" => g.pc = "interval"
  BY <1>4, KindFacts, FirstPcFacts
<1>8. ASSUME NEW v \in Workers \ {w}
      PROVE  AtWork(v)' /\ PartsTrue(v)' /\ HeldTrue(v)' /\ EndsTrue(v)' /\ StartTrue(v)' /\ Same(v)
  <2>1. AtWork(v)' /\ PartsTrue(v)' /\ Same(v)
    BY <1>1, <1>2, <1>8 DEF IndInv, AtWork, PartsTrue, Part, Same, Phase, Answer
  <2>2. HeldTrue(v)' /\ EndsTrue(v)' /\ StartTrue(v)'
    BY <1>1, <1>2, <1>8 DEF IndInv, HeldTrue, EndsTrue, StartTrue, Part
  <2> QED
    BY <2>1, <2>2
<1>9. r.parts \in Seq(Parts) /\ Len(r.parts) > 0
  BY WorkspaceAssumption
<1>10. AtWork(w)'
  BY <1>1, <1>2, <1>3, <1>4, <1>7, <1>9 DEF AtWork, TypeOK
<1>11. PartsTrue(w)' /\ StartTrue(w)' /\ HeldTrue(w)' /\ EndsTrue(w)'
  <2>1. Part(w)' = r.parts[1] /\ r.parts[1] \in Parts
    BY <1>2, <1>4, <1>9 DEF Part
  <2>2. 0 <= size[Part(w)'.path]
    BY <1>1, <2>1 DEF TypeOK, Parts
  <2>3. \A q \in Paths : size[q] <= size[q]
    BY <1>1 DEF TypeOK
  <2>4. PartsTrue(w)' /\ StartTrue(w)'
    BY <1>1, <1>2, <1>3, <1>4, <1>7, <2>2, <2>3 DEF PartsTrue, StartTrue
  <2>5. HeldTrue(w)' /\ EndsTrue(w)'
    BY <1>2, <1>4, <1>7 DEF HeldTrue, Holds, EndsTrue
  <2> QED
    BY <2>4, <2>5
<1>12. Abstract!Ask(w, r)
  <2>1. Phase(job[w]) # "asked" /\ Phase(job'[w]) = "asked"
    BY <1>1, <1>2, <1>7 DEF Phase, Busy
  <2>2. [v \in Workers |-> Phase(job'[v])] = [[v \in Workers |-> Phase(job[v])] EXCEPT ![w] = "asked"]
    BY <1>8, <2>1 DEF Same
  <2>3. [v \in Workers |-> job'[v].at] = [[v \in Workers |-> job[v].at] EXCEPT
                                         ![w] = [size |-> size, cal |-> {active}, old |-> {}]]
    BY <1>2, <1>4 DEF at
  <2>4. [v \in Workers |-> job'[v].req] = [[v \in Workers |-> job[v].req] EXCEPT ![w] = r]
    BY <1>2, <1>4
  <2> QED
    BY <1>1, <1>8, <2>1, <2>2, <2>3, <2>4 DEF Abstract!Ask, Same, Answer
<1> QED
  BY <1>5, <1>6, <1>8, <1>10, <1>11, <1>12 DEF IndInv, Kept, Abstract!SnapshotNext

-----------------------------------------------------------------------------
(* The theorems.                                                            *)

LEMMA InitInd ==
  ASSUME Init
  PROVE  IndInv /\ Abstract!SnapshotInit
<1>1. Min(Calibrations) \in Calibrations
  BY WorkspaceAssumption DEF Min
<1>2. \A w \in Workers : job[w] = Idle
  BY DEF Init
<1>3. TypeOK
  BY <1>1, IdleFacts, WorkspaceAssumption DEF Init, TypeOK
<1>4. WindowsTrue /\ RunsTrue /\ OverviewTrue
  BY DEF Init, WindowsTrue, RunsTrue, OverviewTrue
<1>5. ASSUME NEW w \in Workers
      PROVE  AtWork(w) /\ PartsTrue(w) /\ HeldTrue(w) /\ EndsTrue(w) /\ StartTrue(w)
  BY <1>2, IdleFacts DEF AtWork, PartsTrue, HeldTrue, Holds, EndsTrue, StartTrue, Busy
<1>6. Abstract!SnapshotInit
  BY <1>1, <1>2, IdleFacts, WorkspaceAssumption DEF Init, Abstract!SnapshotInit, Phase
<1> QED
  BY <1>3, <1>4, <1>5, <1>6 DEF IndInv

LEMMA NextKeeps ==
  ASSUME IndInv, [Next]_vars
  PROVE  Kept
<1>1. CASE UNCHANGED vars
  <2>1. IndInv'
    <3>1. TypeOK' /\ WindowsTrue' /\ RunsTrue' /\ OverviewTrue'
      BY <1>1, CachesStay DEF vars, IndInv, TypeOK
    <3>2. ASSUME NEW w \in Workers
          PROVE  AtWork(w)' /\ PartsTrue(w)' /\ HeldTrue(w)' /\ EndsTrue(w)' /\ StartTrue(w)'
      <4>1. AtWork(w)' /\ PartsTrue(w)'
        BY <1>1 DEF vars, IndInv, AtWork, PartsTrue, Part
      <4>2. HeldTrue(w)' /\ EndsTrue(w)' /\ StartTrue(w)'
        BY <1>1 DEF vars, IndInv, HeldTrue, EndsTrue, StartTrue, Part
      <4> QED
        BY <4>1, <4>2
    <3> QED
      BY <3>1, <3>2 DEF IndInv
  <2>2. \A v \in Workers : Same(v)
    BY <1>1 DEF vars, Same
  <2> QED
    BY <1>1, <2>1, <2>2, Stutters DEF vars, Kept
<1>2. CASE Next
  <2>1. CASE \E p \in Paths : Append_(p)
    BY <2>1, AppendKeeps
  <2>2. CASE \E c \in Calibrations : SetActive(c)
    BY <2>2, SetActiveKeeps
  <2>3. CASE \E w \in Workers : Step(w)
    BY <2>3, ReadCalibrationKeeps, FingerprintKeeps, OverviewLookupKeeps, LoadFullKeeps,
       ReadTailKeeps, RunLookupKeeps, ReadIntervalKeeps, ReadMetaKeeps, StatRegionKeeps,
       BuildIndexKeeps, ReadRegionKeeps, RefuseKeeps DEF Step
  <2>4. CASE \E w \in Workers : \E r \in Requests[w] : Request(w, r)
    BY <2>4, RequestKeeps
  <2> QED
    BY <1>2, <2>1, <2>2, <2>3, <2>4 DEF Next
<1> QED
  BY <1>1, <1>2

(* The caches hold what their files showed at their fingerprint or later,  *)
(* and a running command's parts, ends and held lines are of moments since *)
(* its request, a refused fingerprint aside (IndInv).                      *)
THEOREM Inductive == Spec => []IndInv
<1>1. Init => IndInv
  BY InitInd
<1>2. IndInv /\ [Next]_vars => IndInv'
  BY NextKeeps DEF Kept
<1> QED
  BY <1>1, <1>2, PTL DEF Spec

(* The variables have their types.                                         *)
THEOREM TypeCorrect == Spec => []TypeOK
<1>1. IndInv => TypeOK
  BY DEF IndInv
<1> QED
  BY <1>1, Inductive, PTL

(* Workspace implements Snapshot: load_region, overview_keyed and          *)
(* reduce_cached answer with what the files were at moments since the      *)
(* request, under a calibration active since then or under none, whatever  *)
(* the caches hold and however the files grow between two reads: the       *)
(* series of an overview at one moment, its status and totals at that      *)
(* moment or a later one.  Only a part whose fingerprint was refused may   *)
(* be of a moment before the request.                                      *)
THEOREM AnswersAreOfMoments == Spec => AnswersAreSnapshots
<1>1. Init => Abstract!SnapshotInit
  BY InitInd
<1>2. IndInv /\ [Next]_vars => [Abstract!SnapshotNext]_(Abstract!snapshotVars)
  BY NextKeeps DEF Kept
<1> QED
  BY <1>1, <1>2, Inductive, PTL DEF Spec, AnswersAreSnapshots, Abstract!SnapshotSpec
=============================================================================
