---------------------------- MODULE SessionStore ----------------------------
(***************************************************************************)
(* The session file: SessionWriter (pf-agent/src/store.rs) on top of a     *)
(* BufWriter<File>, as the monitor drives it, the file a crash leaves      *)
(* behind, and recover_session_text, which rebuilds a session from it.     *)
(*                                                                         *)
(* A file is a sequence of units: unit <<l, i>> is the i-th piece of the   *)
(* text of line l, <<l, 0>> the newline that ends it.  Lines are numbered  *)
(* in the order the monitor tried to write them; kind[l] is what line l is *)
(* and size[l] the number of its pieces.  A physical write may fail after  *)
(* any number of units (disk full): BufWriter then keeps the rest.         *)
(***************************************************************************)
EXTENDS Integers, Sequences, FiniteSets

CONSTANTS
  FlushEvery,  (* lines between two flushes (10 in the monitor)             *)
  BufCap,      (* capacity of the BufWriter, in units (8 KiB)               *)
  Sizes,       (* possible numbers of pieces of a line                      *)
  MaxLines,    (* bound: lines the monitor tries to write                   *)
  MaxErrors    (* bound: physical writes that fail                          *)

ASSUME StoreAssumption ==
  /\ FlushEvery \in Nat \ {0}
  /\ BufCap \in Nat \ {0}
  /\ Sizes \subseteq Nat \ {0}
  /\ MaxLines \in Nat
  /\ MaxErrors \in Nat

VARIABLES
  file,       (* units the operating system has                           *)
  buf,        (* units in the BufWriter                                   *)
  kind, size, (* of every line tried so far                               *)
  lines,      (* SessionWriter::lines                                     *)
  sinceFlush, (* SessionWriter::since_flush                               *)
  acked,      (* lines whose write_line returned Ok                       *)
  footerSays, (* the "lines" field written into the footer, 0 before      *)
  errors,     (* physical writes that failed                              *)
  pc,         (* where the monitor is                                     *)
  exit        (* its exit code once the session is closed, -1 before      *)

vars == <<file, buf, kind, size, lines, sinceFlush, acked, footerSays,
          errors, pc, exit>>
content == <<kind, size, footerSays>>

Kinds == {"header", "sample", "event", "footer"}
PCs == {"new", "idle", "body", "newline", "bound", "final", "closing",
        "closed", "killed"}

Units == Nat \X Nat
Line == Len(kind)
Body(l) == [i \in 1..size[l] |-> <<l, i>>]
Newline(l) == <<l, 0>>
Spare == BufCap - Len(buf)

(* SessionWriter::create                                                   *)
Init ==
  /\ file = <<>> /\ buf = <<>>
  /\ kind = <<>> /\ size = <<>>
  /\ lines = 0 /\ sinceFlush = 0
  /\ acked = {}
  /\ footerSays = 0
  /\ errors = 0
  /\ pc = "new"
  /\ exit = -1

-----------------------------------------------------------------------------
(* Physical writes.  Out(units, ok): the file takes all the units, or, when *)
(* the write fails, some of them; what is left is returned in rest.         *)

Written(units, n, ok) ==
  /\ n \in 0..Len(units)
  /\ ok = (n = Len(units))
  /\ ok \/ errors < MaxErrors
  /\ file' = file \o SubSeq(units, 1, n)
  /\ errors' = IF ok THEN errors ELSE errors + 1

(* BufWriter::flush_buf: what was not written stays at the front.          *)
FlushBuf(n, ok) ==
  /\ Written(buf, n, ok)
  /\ buf' = SubSeq(buf, n + 1, Len(buf))

-----------------------------------------------------------------------------
(* How the caller of write_line goes on.                                    *)

(* Header, sample and footer errors end the session with exit code 2; the  *)
(* result of an event is ignored.                                          *)
OnError ==
  IF kind[Line] = "event"
    THEN pc' = "idle" /\ exit' = exit
    ELSE pc' = "closing" /\ exit' = 2

OnSuccess ==
  /\ acked' = acked \cup {Line}
  /\ pc' = IF kind[Line] = "footer" THEN "final" ELSE "idle"
  /\ exit' = exit

(* Mutant: the footer does not count itself.                               *)
BeginLineOffByOne(k, n) ==
  /\ pc = IF k = "header" THEN "new" ELSE "idle"
  /\ Line < MaxLines
  /\ kind' = Append(kind, k)
  /\ size' = Append(size, n)
  /\ footerSays' = IF k = "footer" THEN lines ELSE footerSays
  /\ pc' = "body"
  /\ UNCHANGED <<file, buf, lines, sinceFlush, acked, errors, exit>>

(* The monitor writes the header first, then samples and events, and the   *)
(* footer when the loop has ended.                                         *)
BeginLine(k, n) ==
  /\ pc = IF k = "header" THEN "new" ELSE "idle"
  /\ Line < MaxLines
  /\ kind' = Append(kind, k)
  /\ size' = Append(size, n)
  /\ footerSays' = IF k = "footer" THEN lines + 1 ELSE footerSays
  /\ pc' = "body"
  /\ UNCHANGED <<file, buf, lines, sinceFlush, acked, errors, exit>>

-----------------------------------------------------------------------------
(* write_line: write_all(line), write_all("\n"), count, flush when due.     *)

(* BufWriter::write_all copies a short text into the buffer ...            *)
PutBodyBuffered ==
  /\ pc = "body"
  /\ size[Line] <= Spare /\ size[Line] < BufCap
  /\ buf' = buf \o Body(Line)
  /\ pc' = "newline"
  /\ UNCHANGED <<file, content, lines, sinceFlush, acked, errors, exit>>

(* ... makes room for it first when there is too little ...                *)
PutBodyAfterFlush ==
  /\ pc = "body"
  /\ size[Line] > Spare /\ size[Line] < BufCap
  /\ \E n \in 0..Len(buf), ok \in BOOLEAN :
       /\ Written(buf, n, ok)
       /\ IF ok
            THEN buf' = Body(Line) /\ pc' = "newline" /\ exit' = exit
            ELSE buf' = SubSeq(buf, n + 1, Len(buf)) /\ OnError
  /\ UNCHANGED <<content, lines, sinceFlush, acked>>

(* ... and writes a text as large as the buffer straight to the file, once *)
(* the buffer is empty; a failure then leaves a torn line.                 *)
MakeRoomForLarge ==
  /\ pc = "body"
  /\ size[Line] >= BufCap /\ buf # <<>>
  /\ \E n \in 0..Len(buf), ok \in BOOLEAN :
       /\ FlushBuf(n, ok)
       /\ IF ok THEN UNCHANGED <<pc, exit>> ELSE OnError
  /\ UNCHANGED <<content, lines, sinceFlush, acked>>

PutBodyDirect ==
  /\ pc = "body"
  /\ size[Line] >= BufCap /\ buf = <<>>
  /\ \E n \in 0..size[Line], ok \in BOOLEAN :
       /\ Written(Body(Line), n, ok)
       /\ IF ok THEN pc' = "newline" /\ exit' = exit ELSE OnError
  /\ UNCHANGED <<buf, content, lines, sinceFlush, acked>>

(* Mutant: since_flush is not advanced, so that no flush is ever due.      *)
PutNewlineUncounted ==
  /\ pc = "newline"
  /\ \E n \in 0..Len(buf), ok \in BOOLEAN :
       /\ IF Spare > 0
            THEN ok /\ n = 0 /\ UNCHANGED <<file, errors>>
            ELSE Written(buf, n, ok)
       /\ IF ok
            THEN /\ buf' = (IF Spare > 0 THEN buf ELSE <<>>) \o <<Newline(Line)>>
                 /\ lines' = lines + 1
                 /\ pc' = "bound" /\ exit' = exit
            ELSE /\ buf' = SubSeq(buf, n + 1, Len(buf))
                 /\ UNCHANGED lines
                 /\ OnError
  /\ UNCHANGED <<content, acked, sinceFlush>>

(* The newline needs room for one unit; then lines and since_flush count.  *)
PutNewline ==
  /\ pc = "newline"
  /\ \E n \in 0..Len(buf), ok \in BOOLEAN :
       /\ IF Spare > 0
            THEN ok /\ n = 0 /\ UNCHANGED <<file, errors>>
            ELSE Written(buf, n, ok)
       /\ IF ok
            THEN /\ buf' = (IF Spare > 0 THEN buf ELSE <<>>) \o <<Newline(Line)>>
                 /\ lines' = lines + 1
                 /\ sinceFlush' = sinceFlush + 1
                 /\ pc' = "bound" /\ exit' = exit
            ELSE /\ buf' = SubSeq(buf, n + 1, Len(buf))
                 /\ UNCHANGED <<lines, sinceFlush>>
                 /\ OnError
  /\ UNCHANGED <<content, acked>>

(* Mutant: since_flush > flush_every.                                      *)
FlushBoundLate ==
  /\ pc = "bound"
  /\ IF sinceFlush <= FlushEvery
       THEN /\ OnSuccess
            /\ UNCHANGED <<file, buf, sinceFlush, errors>>
       ELSE \E n \in 0..Len(buf), ok \in BOOLEAN :
              /\ FlushBuf(n, ok)
              /\ IF ok
                   THEN sinceFlush' = 0 /\ OnSuccess
                   ELSE UNCHANGED <<sinceFlush, acked>> /\ OnError
  /\ UNCHANGED <<content, lines>>

(* if since_flush >= flush_every { self.flush()? }                         *)
FlushBound ==
  /\ pc = "bound"
  /\ IF sinceFlush < FlushEvery
       THEN /\ OnSuccess
            /\ UNCHANGED <<file, buf, sinceFlush, errors>>
       ELSE \E n \in 0..Len(buf), ok \in BOOLEAN :
              /\ FlushBuf(n, ok)
              /\ IF ok
                   THEN sinceFlush' = 0 /\ OnSuccess
                   ELSE UNCHANGED <<sinceFlush, acked>> /\ OnError
  /\ UNCHANGED <<content, lines>>

(* SessionWriter::footer flushes once more; only then is the exit code 0.  *)
FooterFlush ==
  /\ pc = "final"
  /\ \E n \in 0..Len(buf), ok \in BOOLEAN :
       /\ FlushBuf(n, ok)
       /\ sinceFlush' = IF ok THEN 0 ELSE sinceFlush
       /\ exit' = IF ok THEN 0 ELSE 2
  /\ pc' = "closing"
  /\ UNCHANGED <<content, lines, acked>>

(* The writer is dropped: BufWriter flushes and ignores the result.        *)
DropWriter ==
  /\ pc = "closing"
  /\ \E n \in 0..Len(buf), ok \in BOOLEAN : FlushBuf(n, ok)
  /\ pc' = "closed"
  /\ UNCHANGED <<content, lines, sinceFlush, acked, exit>>

(* The process is killed; what was only in its memory is gone.             *)
Kill ==
  /\ pc \notin {"closed", "killed"}
  /\ pc' = "killed"
  /\ buf' = <<>>
  /\ UNCHANGED <<file, content, lines, sinceFlush, acked, errors, exit>>

Stopped ==
  /\ pc \in {"closed", "killed"}
  /\ UNCHANGED vars

(* A session still recording when MaxLines is reached can only be killed.  *)
Next ==
  \/ \E k \in Kinds, n \in Sizes : BeginLine(k, n)
  \/ PutBodyBuffered \/ PutBodyAfterFlush \/ MakeRoomForLarge \/ PutBodyDirect
  \/ PutNewline \/ FlushBound \/ FooterFlush \/ DropWriter
  \/ Kill
  \/ Stopped

Spec == Init /\ [][Next]_vars

-----------------------------------------------------------------------------
(* Recovery: recover_session_text reads the file line by line.              *)

(* str::lines, without the empty ones: the runs r[1]..r[2] of units between *)
(* two newlines or the ends of the file.                                    *)
TextLines(units) ==
  {r \in (1..Len(units)) \X (1..Len(units)) :
     /\ r[1] <= r[2] /\ \A i \in r[1]..r[2] : units[i][2] # 0
     /\ r[1] = 1 \/ units[r[1] - 1][2] = 0
     /\ r[2] = Len(units) \/ units[r[2] + 1][2] = 0}

(* A line parses when it is the whole text of one record and nothing else. *)
RecordOf(units, r) == units[r[1]][1]
Parses(units, r) ==
  LET l == RecordOf(units, r) IN
    r[2] - r[1] + 1 = size[l] /\ \A d \in 1..size[l] : units[r[1] - 1 + d] = <<l, d>>
IsFooter(units, r) == Parses(units, r) /\ kind[RecordOf(units, r)] = "footer"

(* The scan keeps the lines before the first that does not parse, or is a  *)
(* footer.                                                                 *)
KeptLines(units) ==
  {r \in TextLines(units) :
     \A s \in TextLines(units) :
       s[1] <= r[1] => Parses(units, s) /\ ~IsFooter(units, s)}

recover_session_text(units) ==
  LET kept == KeptLines(units)
      dropped == TextLines(units) \ kept
      records == {RecordOf(units, r) : r \in kept}
      footer == \E r \in dropped : IsFooter(units, r) /\ \A s \in dropped : r[1] <= s[1]
      header == \E l \in records : kind[l] = "header"
  IN [result |-> IF footer THEN "has footer"
                 ELSE IF ~header THEN "no header"
                 ELSE "recovered",
      kept |-> records,
      lines |-> Cardinality(kept) + 1]

Recovery == recover_session_text(file)

-----------------------------------------------------------------------------
(* The variables have their types; the buffer never exceeds its capacity.  *)
TypeOK ==
  /\ file \in Seq(Units) /\ buf \in Seq(Units) /\ Len(buf) <= BufCap
  /\ kind \in Seq(Kinds) /\ size \in Seq(Sizes) /\ Len(size) = Line
  /\ lines \in 0..Line
  /\ sinceFlush \in 0..lines
  /\ acked \subseteq 1..Line
  /\ footerSays \in 0..MaxLines
  /\ errors \in 0..MaxErrors
  /\ pc \in PCs
  /\ exit \in {-1, 0, 2}

(* The documented loss bound: as long as no write failed, a kill loses at  *)
(* most flush_every - 1 of the lines whose write had returned.             *)
LossBound ==
  errors = 0 => Cardinality(acked \ (Recovery.kept \cup {l \in acked : kind[l] = "footer"}))
                  <= FlushEvery - 1

(* The footer's line count is the number of lines the file really has,     *)
(* also after event writes that failed half way: the footer is the line of *)
(* that number, and the last one.                                          *)
Text == file \o buf
Newlines(units, n) == {i \in 1..n : units[i][2] = 0}
FooterCountsLines ==
  \A r \in TextLines(Text) :
    IsFooter(Text, r) => /\ Cardinality(Newlines(Text, r[1] - 1)) + 1 = footerSays
                         /\ \A s \in TextLines(Text) : s[1] <= r[1]

(* An interrupted session is recoverable as soon as the first flush has    *)
(* carried the header to the file; it passes for a finished one only when  *)
(* nothing but its last newline is missing.                                *)
InterruptedRecoverable ==
  (pc = "killed" /\ errors = 0)
    => /\ Cardinality(acked) >= FlushEvery => Recovery.result # "no header"
       /\ Recovery.result = "has footer" => Recovery.kept = 1..(Line - 1)

-----------------------------------------------------------------------------
(* Why they hold.  Most of it is said of a position i of all that was       *)
(* written, in the file or still in the buffer, and looks only backwards    *)
(* from there: what holds of a text holds of its beginnings, and a          *)
(* beginning is what a kill leaves.                                         *)

(* Pieces 1..n of line l are at the positions after p.                     *)
PiecesAt(u, p, l, n) == \A d \in 1..n : u[p + d] = <<l, d>>

(* A piece comes right after the earlier pieces of its line, a newline     *)
(* after all of them.                                                      *)
Formed(u, i) ==
  LET l == u[i][1]
      c == u[i][2]
  IN /\ l \in 1..Line /\ c \in 0..size[l]
     /\ c # 0 => c <= i /\ PiecesAt(u, i - c, l, c)
     /\ c = 0 => size[l] < i /\ PiecesAt(u, i - 1 - size[l], l, size[l])

(* Lines come in their order, and a newline ends its line.                 *)
InOrder(u, i) ==
  \A j \in 1..(i - 1) : u[j][1] <= u[i][1] /\ (u[j][2] = 0 => u[j][1] < u[i][1])

(* The footer counted the newlines before it, and itself.                  *)
FooterPlaced(u, i) ==
  u[i][2] = 1 /\ kind[u[i][1]] = "footer" => Cardinality(Newlines(u, i - 1)) + 1 = footerSays

TextOK(u) == \A i \in 1..Len(u) : Formed(u, i) /\ InOrder(u, i) /\ FooterPlaced(u, i)

(* As long as no write failed, a line starts after a newline, and all the  *)
(* lines before it are there, with theirs.                                 *)
Ended(u, m, n) == \E j \in 1..n : u[j] = <<m, 0>>
Untorn(u, i) ==
  /\ u[i][2] = 1 => i = 1 \/ u[i - 1][2] = 0
  /\ \A m \in 1..(u[i][1] - 1) : Ended(u, m, i - 1)

(* The text at each step of the writer.                                    *)
AtStep ==
  /\ pc = "body" => \A i \in 1..Len(Text) : Text[i][1] < Line
  /\ pc = "newline" =>
       /\ size[Line] <= Len(Text) /\ PiecesAt(Text, Len(Text) - size[Line], Line, size[Line])
       /\ \A i \in 1..Len(Text) : Text[i] # <<Line, 0>>
  /\ pc \in {"body", "newline"} => lines < Line
  /\ pc \in {"idle", "body", "newline", "bound", "final"} => Line > 0
  /\ pc = "new" => Line = 0
  /\ pc # "killed" => Cardinality(Newlines(Text, Len(Text))) = lines

(* A footer is the last line; what it says is what has been counted.       *)
OneFooter ==
  /\ \A l \in 1..Line : kind[l] = "footer" => l = Line /\ pc \notin {"new", "idle"}
  /\ pc \in {"body", "newline"} /\ kind[Line] = "footer" => footerSays = lines + 1
  /\ Line > 0 => kind[1] = "header"

(* Without a failed write: every line but the current one is counted, the  *)
(* counted ones are in the text, and those before the last flush in the    *)
(* file; the ones acknowledged since are fewer than FlushEvery.            *)
NothingFailed ==
  /\ \A i \in 1..Len(Text) : Untorn(Text, i)
  /\ pc # "killed" =>
       /\ lines = IF pc \in {"body", "newline"} THEN Line - 1 ELSE Line
       /\ \A m \in 1..lines : Ended(Text, m, Len(Text))
       /\ pc # "newline" => Text = <<>> \/ Text[Len(Text)][2] = 0
  /\ \A m \in 1..(lines - sinceFlush) : Ended(file, m, Len(file))
  /\ acked \subseteq 1..(lines - sinceFlush + FlushEvery - 1)

IndInv ==
  /\ TypeOK /\ TextOK(Text) /\ AtStep /\ OneFooter
  /\ errors = 0 => NothingFailed
=============================================================================
