------------------------- MODULE SessionStoreProofs -------------------------
(***************************************************************************)
(* What a session file keeps of what was recorded, for any lengths of the   *)
(* lines, any buffer, any flush period and any number of failing writes:    *)
(* the loss bound, the footer's count and the recovery of an interrupted    *)
(* session.                                                                 *)
(***************************************************************************)
EXTENDS SessionStore, FiniteSetTheorems, TLAPS

-----------------------------------------------------------------------------
(* Texts.                                                                   *)

(* v is a beginning of u.                                                   *)
Begins(v, u) == Len(v) <= Len(u) /\ \A i \in 1..Len(v) : v[i] = u[i]

LEMMA UnitFacts ==
  \A u \in Seq(Units) :
    /\ Len(u) \in Nat
    /\ \A i \in 1..Len(u) : /\ u[i][1] \in Nat /\ u[i][2] \in Nat
                            /\ u[i] = <<u[i][1], u[i][2]>>
  BY DEF Units

LEMMA SameText ==
  ASSUME NEW u \in Seq(Units), NEW v \in Seq(Units), Len(u) = Len(v),
         \A i \in 1..Len(u) : u[i] = v[i]
  PROVE  u = v
  OBVIOUS

LEMMA Joined ==
  ASSUME NEW u \in Seq(Units), NEW v \in Seq(Units)
  PROVE  /\ u \o v \in Seq(Units) /\ Len(u \o v) = Len(u) + Len(v)
         /\ \A i \in 1..Len(u) : (u \o v)[i] = u[i]
         /\ \A i \in 1..Len(v) : (u \o v)[Len(u) + i] = v[i]
  OBVIOUS

LEMMA Parted ==
  ASSUME NEW u \in Seq(Units), NEW n \in 0..Len(u)
  PROVE  /\ SubSeq(u, 1, n) \in Seq(Units) /\ Len(SubSeq(u, 1, n)) = n
         /\ \A i \in 1..n : SubSeq(u, 1, n)[i] = u[i]
         /\ SubSeq(u, n + 1, Len(u)) \in Seq(Units)
         /\ Len(SubSeq(u, n + 1, Len(u))) = Len(u) - n
         /\ \A i \in 1..(Len(u) - n) : SubSeq(u, n + 1, Len(u))[i] = u[n + i]
  OBVIOUS

(* The lines of a text, by their numbers.                                   *)
LEMMA LineFacts ==
  ASSUME TypeOK
  PROVE  /\ Line \in Nat /\ lines \in Nat /\ sinceFlush \in Nat /\ footerSays \in Nat
         /\ \A l \in 1..Line : size[l] \in Nat /\ size[l] > 0 /\ kind[l] \in Kinds
<1>1. Line \in Nat /\ Len(size) = Line /\ kind \in Seq(Kinds) /\ size \in Seq(Sizes)
  BY DEF TypeOK, Line
<1>2. lines \in Nat /\ sinceFlush \in Nat /\ footerSays \in Nat
  BY <1>1, StoreAssumption DEF TypeOK
<1>3. \A l \in 1..Line : size[l] \in Sizes
  BY <1>1
<1>4. \A l \in 1..Line : kind[l] \in Kinds
  BY <1>1 DEF Line
<1>5. \A n \in Sizes : n \in Nat /\ n > 0
  BY StoreAssumption
<1> QED
  BY <1>1, <1>2, <1>3, <1>4, <1>5

LEMMA BodyFacts ==
  ASSUME TypeOK, NEW l \in 1..Line
  PROVE  /\ Body(l) \in Seq(Units) /\ Len(Body(l)) = size[l]
         /\ \A d \in 1..size[l] : Body(l)[d] = <<l, d>>
         /\ <<Newline(l)>> \in Seq(Units)
<1>1. l \in Nat /\ size[l] \in Nat
  BY LineFacts
<1> QED
  BY <1>1 DEF Body, Newline, Units

-----------------------------------------------------------------------------
(* A position looks only backwards.                                         *)

LEMMA FewerNewlines ==
  ASSUME NEW u, NEW v, NEW n \in Nat, \A i \in 1..n : v[i] = u[i]
  PROVE  Newlines(v, n) = Newlines(u, n)
  BY DEF Newlines

LEMMA FormedBack ==
  ASSUME TypeOK, NEW u, NEW v, NEW i \in Nat \ {0}, \A j \in 1..i : v[j] = u[j],
         Formed(u, i)
  PROVE  Formed(v, i)
<1> DEFINE l == u[i][1]
           c == u[i][2]
<1>1. v[i] = u[i]
  OBVIOUS
<1>2. /\ l \in 1..Line /\ c \in 0..size[l]
      /\ c # 0 => c <= i /\ PiecesAt(u, i - c, l, c)
      /\ c = 0 => size[l] < i /\ PiecesAt(u, i - 1 - size[l], l, size[l])
  BY DEF Formed
<1>3. size[l] \in Nat /\ c \in Nat
  BY <1>2, LineFacts
<1>4. \A p, n \in Nat : p + n <= i /\ PiecesAt(u, p, l, n) => PiecesAt(v, p, l, n)
  <2> SUFFICES ASSUME NEW p \in Nat, NEW n \in Nat, p + n <= i, PiecesAt(u, p, l, n),
                      NEW d \in 1..n
               PROVE  v[p + d] = <<l, d>>
    BY DEF PiecesAt
  <2>1. p + d \in 1..i
    OBVIOUS
  <2> QED
    BY <2>1 DEF PiecesAt
<1> HIDE DEF l, c
<1>5. c # 0 => PiecesAt(v, i - c, l, c)
  BY <1>2, <1>3, <1>4
<1>6. c = 0 => PiecesAt(v, i - 1 - size[l], l, size[l])
  BY <1>2, <1>3, <1>4
<1> QED
  BY <1>1, <1>2, <1>5, <1>6 DEF Formed, l, c

LEMMA LooksBack ==
  ASSUME TypeOK, NEW u, NEW v, NEW i \in Nat \ {0}, \A j \in 1..i : v[j] = u[j]
  PROVE  /\ Formed(u, i) => Formed(v, i)
         /\ InOrder(u, i) => InOrder(v, i)
         /\ FooterPlaced(u, i) => FooterPlaced(v, i)
         /\ Untorn(u, i) => Untorn(v, i)
<1>1. v[i] = u[i] /\ (i = 1 \/ v[i - 1] = u[i - 1]) /\ \A j \in 1..(i - 1) : v[j] = u[j]
  OBVIOUS
<1>2. Newlines(v, i - 1) = Newlines(u, i - 1)
  BY <1>1, FewerNewlines
<1>3. \A m : Ended(u, m, i - 1) => Ended(v, m, i - 1)
  BY <1>1 DEF Ended
<1>4. Formed(u, i) => Formed(v, i)
  BY FormedBack
<1>5. InOrder(u, i) => InOrder(v, i)
  BY <1>1 DEF InOrder
<1>6. FooterPlaced(u, i) => FooterPlaced(v, i)
  BY <1>1, <1>2 DEF FooterPlaced
<1>7. Untorn(u, i) => Untorn(v, i)
  BY <1>1, <1>3 DEF Untorn
<1> QED
  BY <1>4, <1>5, <1>6, <1>7

LEMMA BeginningOK ==
  ASSUME TypeOK, NEW u \in Seq(Units), NEW v \in Seq(Units), Begins(v, u)
  PROVE  /\ TextOK(u) => TextOK(v)
         /\ (\A i \in 1..Len(u) : Untorn(u, i)) => \A i \in 1..Len(v) : Untorn(v, i)
<1>1. /\ Len(u) \in Nat /\ Len(v) \in Nat /\ Len(v) <= Len(u)
      /\ \A i \in 1..Len(v) : v[i] = u[i] /\ i \in 1..Len(u)
  BY DEF Begins
<1>2. ASSUME NEW i \in 1..Len(v)
      PROVE  /\ Formed(u, i) => Formed(v, i)
             /\ InOrder(u, i) => InOrder(v, i)
             /\ FooterPlaced(u, i) => FooterPlaced(v, i)
             /\ Untorn(u, i) => Untorn(v, i)
  <2>1. i \in Nat \ {0} /\ \A j \in 1..i : v[j] = u[j]
    BY <1>1
  <2> QED
    BY <2>1, LooksBack
<1> QED
  BY <1>1, <1>2 DEF TextOK

-----------------------------------------------------------------------------
(* A text grows by the pieces of the current line, or by its newline.       *)

LEMMA GrowByBody ==
  ASSUME TypeOK, Line > 0, NEW u \in Seq(Units), NEW w \in Seq(Units),
         NEW n \in 0..size[Line], Len(w) = Len(u) + n,
         \A i \in 1..Len(u) : w[i] = u[i],
         \A d \in 1..n : w[Len(u) + d] = <<Line, d>>,
         TextOK(u), \A i \in 1..Len(u) : u[i][1] < Line,
         kind[Line] = "footer" => Cardinality(Newlines(u, Len(u))) + 1 = footerSays
  PROVE  TextOK(w) /\ Newlines(w, Len(w)) = Newlines(u, Len(u))
<1> DEFINE L == Len(u)
<1>1. L \in Nat /\ Line \in 1..Line /\ size[Line] \in Nat /\ n \in Nat /\ n <= size[Line]
  BY LineFacts
<1>2. Line \in Nat
  BY LineFacts
<1> HIDE DEF L
<1>3. /\ Len(w) = L + n /\ \A i \in 1..L : w[i] = u[i] /\ u[i][1] < Line
      /\ \A d \in 1..n : w[L + d] = <<Line, d>> /\ w[L + d][1] = Line /\ w[L + d][2] = d
  BY DEF L
<1>4. ASSUME NEW i \in 1..L
      PROVE  Formed(w, i) /\ InOrder(w, i) /\ FooterPlaced(w, i)
  <2>1. i \in Nat \ {0} /\ \A j \in 1..i : w[j] = u[j]
    BY <1>1, <1>3
  <2>2. Formed(u, i) /\ InOrder(u, i) /\ FooterPlaced(u, i)
    BY DEF TextOK, L
  <2> QED
    BY <2>1, <2>2, LooksBack
<1>5. ASSUME NEW d \in 1..n
      PROVE  Formed(w, L + d) /\ InOrder(w, L + d) /\ FooterPlaced(w, L + d)
  <2>1. w[L + d][1] = Line /\ w[L + d][2] = d /\ d \in Nat /\ d # 0 /\ d <= size[Line]
    BY <1>1, <1>3
  <2>2. PiecesAt(w, L, Line, d)
    <3>1. \A e \in 1..d : e \in 1..n
      BY <1>1, <2>1
    <3> QED
      BY <1>3, <3>1 DEF PiecesAt
  <2>3. (L + d) - d = L /\ d <= L + d
    BY <1>1, <2>1
  <2>4. Formed(w, L + d)
    BY <1>1, <2>1, <2>2, <2>3 DEF Formed
  <2>5. \A j \in 1..((L + d) - 1) : j \in 1..L \/ \E e \in 1..(d - 1) : j = L + e
    <3> SUFFICES ASSUME NEW j \in 1..((L + d) - 1), j \notin 1..L
                 PROVE  j - L \in 1..(d - 1) /\ j = L + (j - L)
      OBVIOUS
    <3> QED
      BY <1>1
  <2>6. \A j \in 1..((L + d) - 1) :
          /\ w[j][1] <= Line
          /\ w[j][2] = 0 => j \in 1..L /\ w[j][1] < Line
    <3> SUFFICES ASSUME NEW j \in 1..((L + d) - 1)
                 PROVE  w[j][1] <= Line /\ (w[j][2] = 0 => j \in 1..L /\ w[j][1] < Line)
      OBVIOUS
    <3>1. CASE j \in 1..L
      <4>1. u[j][1] \in Nat
        BY <3>1, UnitFacts DEF L
      <4> QED
        BY <3>1, <4>1, <1>2, <1>3
    <3>2. CASE \E e \in 1..(d - 1) : j = L + e
      <4> PICK e \in 1..(d - 1) : j = L + e
        BY <3>2
      <4>1. e \in 1..n /\ e # 0
        BY <1>1, <2>1
      <4> QED
        BY <4>1, <1>2, <1>3
    <3> QED
      BY <2>5, <3>1, <3>2
  <2>7. InOrder(w, L + d)
    <3>1. \A j \in 1..((L + d) - 1) :
            w[j][1] <= w[L + d][1] /\ (w[j][2] = 0 => w[j][1] < w[L + d][1])
      BY <2>1, <2>6
    <3> QED
      BY <3>1 DEF InOrder
  <2>8. FooterPlaced(w, L + d)
    <3> SUFFICES ASSUME d = 1, kind[Line] = "footer"
                 PROVE  Cardinality(Newlines(w, L)) + 1 = footerSays
      BY <1>1, <2>1 DEF FooterPlaced
    <3>1. Newlines(w, L) = Newlines(u, L)
      BY <1>1, <1>3, FewerNewlines
    <3> QED
      BY <3>1 DEF L
  <2> QED
    BY <2>4, <2>7, <2>8
<1>6. \A j \in 1..(L + n) : j \in 1..L \/ \E d \in 1..n : j = L + d
  <2> SUFFICES ASSUME NEW j \in 1..(L + n), j \notin 1..L
               PROVE  j - L \in 1..n /\ j = L + (j - L)
    OBVIOUS
  <2> QED
    BY <1>1
<1>7. TextOK(w)
  BY <1>3, <1>4, <1>5, <1>6 DEF TextOK
<1>8. Newlines(w, Len(w)) = Newlines(u, Len(u))
  <2>1. \A j \in 1..(L + n) : w[j][2] = 0 => j \in 1..L
    <3> SUFFICES ASSUME NEW d \in 1..n PROVE w[L + d][2] # 0
      BY <1>6
    <3>1. w[L + d][2] = d
      BY <1>3
    <3> QED
      BY <3>1
  <2>2. \A j \in 1..L : j \in 1..(L + n)
    BY <1>1
  <2> QED
    BY <1>3, <2>1, <2>2 DEF Newlines, L
<1> QED
  BY <1>7, <1>8

LEMMA GrowByNewline ==
  ASSUME TypeOK, Line > 0, NEW u \in Seq(Units), NEW w \in Seq(Units),
         Len(w) = Len(u) + 1, \A i \in 1..Len(u) : w[i] = u[i], w[Len(u) + 1] = <<Line, 0>>,
         TextOK(u), \A i \in 1..Len(u) : u[i] # <<Line, 0>>,
         size[Line] <= Len(u), PiecesAt(u, Len(u) - size[Line], Line, size[Line])
  PROVE  /\ TextOK(w)
         /\ Newlines(w, Len(w)) = Newlines(u, Len(u)) \cup {Len(u) + 1}
         /\ Len(u) + 1 \notin Newlines(u, Len(u))
<1> DEFINE L == Len(u)
           s == size[Line]
<1>1. L \in Nat /\ Line \in 1..Line /\ Line \in Nat /\ s \in Nat /\ s <= L
  BY LineFacts
<1> HIDE DEF L, s
<1>2. /\ Len(w) = L + 1 /\ \A i \in 1..L : w[i] = u[i] /\ u[i] # <<Line, 0>>
      /\ w[L + 1][1] = Line /\ w[L + 1][2] = 0
  BY DEF L
<1>3. ASSUME NEW i \in 1..L
      PROVE  Formed(w, i) /\ InOrder(w, i) /\ FooterPlaced(w, i)
  <2>1. i \in Nat \ {0} /\ \A j \in 1..i : w[j] = u[j]
    BY <1>1, <1>2
  <2>2. Formed(u, i) /\ InOrder(u, i) /\ FooterPlaced(u, i)
    BY DEF TextOK, L
  <2> QED
    BY <2>1, <2>2, LooksBack
<1>4. Formed(w, L + 1)
  <2>1. PiecesAt(u, L - s, Line, s)
    BY DEF L, s
  <2>2. \A d \in 1..s : (L - s) + d \in 1..L
    BY <1>1
  <2>3. PiecesAt(w, L - s, Line, s)
    BY <1>2, <2>1, <2>2 DEF PiecesAt
  <2>4. (L + 1) - 1 - s = L - s /\ s < L + 1 /\ 0 \in 0..s
    BY <1>1
  <2> QED
    BY <1>1, <1>2, <2>3, <2>4 DEF Formed, s
<1>5. InOrder(w, L + 1)
  <2> SUFFICES ASSUME NEW j \in 1..L
               PROVE  w[j][1] <= Line /\ (w[j][2] = 0 => w[j][1] < Line)
    BY <1>1, <1>2 DEF InOrder
  <2>1. w[j] = u[j] /\ u[j] # <<Line, 0>>
    BY <1>2
  <2>2. u[j][1] \in Nat /\ u[j][2] \in Nat /\ u[j] = <<u[j][1], u[j][2]>>
    BY UnitFacts DEF L
  <2>3. u[j][1] \in 1..Line
    BY DEF TextOK, Formed, L
  <2> QED
    BY <1>1, <2>1, <2>2, <2>3
<1>6. FooterPlaced(w, L + 1)
  BY <1>2 DEF FooterPlaced
<1>7. \A j \in 1..(L + 1) : j \in 1..L \/ j = L + 1
  BY <1>1
<1>8. TextOK(w)
  BY <1>2, <1>3, <1>4, <1>5, <1>6, <1>7 DEF TextOK
<1>9. Newlines(w, L + 1) = Newlines(u, L) \cup {L + 1}
  <2>1. L + 1 \in 1..(L + 1) /\ \A j \in 1..L : j \in 1..(L + 1)
    BY <1>1
  <2> QED
    BY <1>2, <1>7, <2>1 DEF Newlines
<1>10. L + 1 \notin Newlines(u, L)
  BY <1>1 DEF Newlines
<1> QED
  BY <1>2, <1>8, <1>9, <1>10 DEF L

(* Newlines can be counted.                                                 *)
LEMMA NewlinesFinite ==
  ASSUME NEW u, NEW n \in Nat
  PROVE  IsFiniteSet(Newlines(u, n)) /\ Cardinality(Newlines(u, n)) \in Nat
<1>1. IsFiniteSet(1..n)
  BY FS_Interval
<1>2. IsFiniteSet(Newlines(u, n))
  BY <1>1, FS_Subset DEF Newlines
<1> QED
  BY <1>2, FS_CardinalityType

(* Without a failed write a text grows by whole lines.                      *)
LEMMA UntornGrows ==
  ASSUME TypeOK, NEW u \in Seq(Units), NEW w \in Seq(Units), NEW n \in Nat,
         Len(w) = Len(u) + n, \A i \in 1..Len(u) : w[i] = u[i],
         \A d \in 1..n : w[Len(u) + d][1] = Line,
         \A d \in 1..n : w[Len(u) + d][2] = 1 =>
                           d = 1 /\ (u = <<>> \/ u[Len(u)][2] = 0),
         \A i \in 1..Len(u) : Untorn(u, i),
         \A m \in 1..(Line - 1) : Ended(u, m, Len(u))
  PROVE  \A i \in 1..Len(w) : Untorn(w, i)
<1> DEFINE L == Len(u)
<1>1. L \in Nat /\ (u = <<>> <=> L = 0)
  OBVIOUS
<1> HIDE DEF L
<1>2. /\ Len(w) = L + n /\ \A i \in 1..L : w[i] = u[i]
      /\ \A d \in 1..n : /\ w[L + d][1] = Line
                         /\ w[L + d][2] = 1 => d = 1 /\ (L = 0 \/ u[L][2] = 0)
  BY <1>1 DEF L
<1>3. ASSUME NEW i \in 1..L PROVE Untorn(w, i)
  <2>1. i \in Nat \ {0} /\ \A j \in 1..i : w[j] = u[j]
    BY <1>1, <1>2
  <2> QED
    BY <2>1, LooksBack DEF L
<1>4. ASSUME NEW d \in 1..n PROVE Untorn(w, L + d)
  <2>1. ASSUME w[L + d][2] = 1 PROVE L + d = 1 \/ w[(L + d) - 1][2] = 0
    <3>1. d = 1 /\ (L = 0 \/ u[L][2] = 0)
      BY <1>2, <2>1
    <3>2. L = 0 \/ w[L] = u[L]
      BY <1>1, <1>2
    <3>3. (L + 1) - 1 = L
      BY <1>1
    <3> QED
      BY <3>1, <3>2, <3>3
  <2>2. ASSUME NEW m \in 1..(Line - 1) PROVE Ended(w, m, (L + d) - 1)
    <3> PICK j \in 1..L : u[j] = <<m, 0>>
      BY DEF Ended, L
    <3>1. w[j] = <<m, 0>> /\ j \in 1..((L + d) - 1)
      BY <1>1, <1>2
    <3> QED
      BY <3>1 DEF Ended
  <2> QED
    BY <1>2, <2>1, <2>2 DEF Untorn
<1>5. \A j \in 1..(L + n) : j \in 1..L \/ \E d \in 1..n : j = L + d
  <2> SUFFICES ASSUME NEW j \in 1..(L + n), j \notin 1..L
               PROVE  j - L \in 1..n /\ j = L + (j - L)
    OBVIOUS
  <2> QED
    BY <1>1
<1> QED
  BY <1>2, <1>3, <1>4, <1>5

(* A newline that is in a text stays when the text grows.                   *)
LEMMA EndedGrows ==
  ASSUME NEW u \in Seq(Units), NEW w \in Seq(Units), Begins(u, w), NEW m,
         Ended(u, m, Len(u))
  PROVE  Ended(w, m, Len(w))
<1> PICK j \in 1..Len(u) : u[j] = <<m, 0>>
  BY DEF Ended
<1>1. j \in 1..Len(w) /\ w[j] = u[j]
  BY DEF Begins
<1> QED
  BY <1>1 DEF Ended

-----------------------------------------------------------------------------
(* What is written, and how it moves from the buffer to the file.           *)

LEMMA TextFacts ==
  ASSUME TypeOK
  PROVE  Text \in Seq(Units) /\ Len(Text) \in Nat /\ Begins(file, Text)
<1>1. file \in Seq(Units) /\ buf \in Seq(Units)
  BY DEF TypeOK
<1> QED
  BY <1>1, Joined DEF Text, Begins

(* A flush moves units; when it succeeds, all of them.                      *)
LEMMA FlushFacts ==
  ASSUME TypeOK, NEW n \in 0..Len(buf), NEW ok \in BOOLEAN, Written(buf, n, ok)
  PROVE  /\ file' \in Seq(Units) /\ SubSeq(buf, n + 1, Len(buf)) \in Seq(Units)
         /\ Len(SubSeq(buf, n + 1, Len(buf))) <= BufCap
         /\ file' \o SubSeq(buf, n + 1, Len(buf)) = Text
         /\ Begins(file, file')
         /\ errors' \in 0..MaxErrors
         /\ ok => /\ file' = Text /\ SubSeq(buf, n + 1, Len(buf)) = <<>>
                  /\ errors' = errors
         /\ ~ok => errors' > 0
<1> DEFINE front == SubSeq(buf, 1, n)
           rest == SubSeq(buf, n + 1, Len(buf))
<1>1. file \in Seq(Units) /\ buf \in Seq(Units) /\ Len(buf) <= BufCap /\ errors \in 0..MaxErrors
  BY DEF TypeOK
<1>2. file' = file \o front /\ (ok <=> n = Len(buf)) /\ (ok \/ errors < MaxErrors)
      /\ errors' = (IF ok THEN errors ELSE errors + 1)
  BY DEF Written
<1>3. /\ front \in Seq(Units) /\ Len(front) = n /\ \A i \in 1..n : front[i] = buf[i]
      /\ rest \in Seq(Units) /\ Len(rest) = Len(buf) - n
      /\ \A i \in 1..(Len(buf) - n) : rest[i] = buf[n + i]
  BY <1>1, Parted
<1> HIDE DEF front, rest
<1>4. /\ file' \in Seq(Units) /\ Len(file') = Len(file) + n
      /\ \A i \in 1..Len(file) : file'[i] = file[i]
      /\ \A i \in 1..n : file'[Len(file) + i] = buf[i]
  BY <1>1, <1>2, <1>3, Joined
<1>5. /\ file' \o rest \in Seq(Units) /\ Len(file' \o rest) = Len(file') + Len(rest)
      /\ \A i \in 1..Len(file') : (file' \o rest)[i] = file'[i]
      /\ \A i \in 1..Len(rest) : (file' \o rest)[Len(file') + i] = rest[i]
  BY <1>3, <1>4, Joined
<1>6. /\ Text \in Seq(Units) /\ Len(Text) = Len(file) + Len(buf)
      /\ \A i \in 1..Len(file) : Text[i] = file[i]
      /\ \A i \in 1..Len(buf) : Text[Len(file) + i] = buf[i]
  BY <1>1, Joined DEF Text
<1>7. \A i \in 1..Len(Text) : (file' \o rest)[i] = Text[i]
  <2> SUFFICES ASSUME NEW i \in 1..Len(Text) PROVE (file' \o rest)[i] = Text[i]
    OBVIOUS
  <2> DEFINE F == Len(file)
             B == Len(buf)
  <2>0. F \in Nat /\ B \in Nat /\ i \in 1..(F + B) /\ n \in 0..B
    BY <1>1, <1>6
  <2>1. CASE i <= F
    <3>1. i \in 1..F /\ i \in 1..(F + n)
      BY <2>0, <2>1
    <3> QED
      BY <3>1, <1>4, <1>5, <1>6
  <2>2. CASE F < i /\ i <= F + n
    <3>1. i - F \in 1..n /\ i - F \in 1..B /\ F + (i - F) = i /\ i \in 1..(F + n)
      BY <2>0, <2>2
    <3> QED
      BY <3>1, <1>4, <1>5, <1>6
  <2>3. CASE F + n < i
    <3>1. /\ i - (F + n) \in 1..(B - n) /\ (F + n) + (i - (F + n)) = i
          /\ n + (i - (F + n)) = i - F /\ i - F \in 1..B /\ F + (i - F) = i
      BY <2>0, <2>3
    <3>2. (file' \o rest)[i] = rest[i - (F + n)]
      <4>1. Len(file') = F + n /\ i - (F + n) \in 1..Len(rest)
        BY <3>1, <1>3, <1>4
      <4>2. (file' \o rest)[Len(file') + (i - (F + n))] = rest[i - (F + n)]
        BY <4>1, <1>5
      <4> QED
        BY <3>1, <4>1, <4>2
    <3>3. rest[i - (F + n)] = buf[i - F]
      BY <3>1, <1>3
    <3>4. Text[i] = buf[i - F]
      BY <3>1, <1>6
    <3> QED
      BY <3>2, <3>3, <3>4
  <2>4. i <= F \/ (F < i /\ i <= F + n) \/ F + n < i
    BY <2>0
  <2> QED
    BY <2>1, <2>2, <2>3, <2>4
<1>8. file' \o rest = Text
  <2>1. Len(file' \o rest) = Len(Text)
    BY <1>1, <1>3, <1>4, <1>5, <1>6
  <2> QED
    BY <1>5, <1>6, <1>7, <2>1, SameText
<1>9. ok => rest = <<>> /\ file' = Text
  <2> SUFFICES ASSUME ok PROVE rest = <<>> /\ file' = Text
    OBVIOUS
  <2>1. rest = <<>>
    BY <1>1, <1>2, <1>3
  <2> QED
    BY <1>4, <1>8, <2>1
<1>10. Len(rest) <= BufCap
  BY <1>1, <1>3, StoreAssumption
<1>11. Begins(file, file')
  BY <1>1, <1>4 DEF Begins
<1>12. errors' \in 0..MaxErrors /\ (ok => errors' = errors) /\ (~ok => errors' > 0)
  BY <1>1, <1>2, StoreAssumption
<1> QED
  BY <1>3, <1>4, <1>8, <1>9, <1>10, <1>11, <1>12 DEF rest

(* The body of the current line, or the first n pieces of it, at the end of *)
(* a text.                                                                  *)
LEMMA BodyAdded ==
  ASSUME TypeOK, Line > 0, NEW u \in Seq(Units), NEW n \in 0..size[Line]
  PROVE  LET w == u \o SubSeq(Body(Line), 1, n) IN
         /\ w \in Seq(Units) /\ Len(w) = Len(u) + n
         /\ \A i \in 1..Len(u) : w[i] = u[i]
         /\ \A d \in 1..n : w[Len(u) + d] = <<Line, d>>
<1>1. Line \in 1..Line /\ size[Line] \in Nat
  BY LineFacts
<1>2. /\ Body(Line) \in Seq(Units) /\ Len(Body(Line)) = size[Line]
      /\ \A d \in 1..size[Line] : Body(Line)[d] = <<Line, d>>
  BY <1>1, BodyFacts
<1> DEFINE v == SubSeq(Body(Line), 1, n)
<1>3. v \in Seq(Units) /\ Len(v) = n /\ \A d \in 1..n : v[d] = Body(Line)[d]
  BY <1>2, Parted
<1>4. \A d \in 1..n : d \in 1..size[Line]
  BY <1>1
<1> HIDE DEF v
<1>5. /\ u \o v \in Seq(Units) /\ Len(u \o v) = Len(u) + Len(v)
      /\ \A i \in 1..Len(u) : (u \o v)[i] = u[i]
      /\ \A d \in 1..Len(v) : (u \o v)[Len(u) + d] = v[d]
  BY <1>3, Joined
<1>6. /\ u \o v \in Seq(Units) /\ Len(u \o v) = Len(u) + n
      /\ \A i \in 1..Len(u) : (u \o v)[i] = u[i]
      /\ \A d \in 1..n : (u \o v)[Len(u) + d] = <<Line, d>>
  BY <1>2, <1>3, <1>4, <1>5
<1> QED
  BY <1>6 DEF v

LEMMA WholeBody ==
  ASSUME TypeOK, Line > 0
  PROVE  SubSeq(Body(Line), 1, size[Line]) = Body(Line)
<1>1. Line \in 1..Line /\ size[Line] \in Nat
  BY LineFacts
<1>2. Body(Line) \in Seq(Units) /\ Len(Body(Line)) = size[Line]
  BY <1>1, BodyFacts
<1>3. /\ SubSeq(Body(Line), 1, size[Line]) \in Seq(Units)
      /\ Len(SubSeq(Body(Line), 1, size[Line])) = size[Line]
      /\ \A d \in 1..size[Line] : SubSeq(Body(Line), 1, size[Line])[d] = Body(Line)[d]
  BY <1>1, <1>2, Parted
<1> QED
  BY <1>2, <1>3, SameText

LEMMA NewlineAdded ==
  ASSUME TypeOK, Line > 0, NEW u \in Seq(Units)
  PROVE  LET w == u \o <<Newline(Line)>> IN
         /\ w \in Seq(Units) /\ Len(w) = Len(u) + 1
         /\ \A i \in 1..Len(u) : w[i] = u[i]
         /\ w[Len(u) + 1] = <<Line, 0>>
<1>1. Line \in 1..Line
  BY LineFacts
<1>2. <<Newline(Line)>> \in Seq(Units) /\ Len(<<Newline(Line)>>) = 1
      /\ <<Newline(Line)>>[1] = <<Line, 0>>
  BY <1>1, BodyFacts DEF Newline
<1> DEFINE v == <<Newline(Line)>>
<1> HIDE DEF v
<1>3. /\ u \o v \in Seq(Units) /\ Len(u \o v) = Len(u) + Len(v)
      /\ \A i \in 1..Len(u) : (u \o v)[i] = u[i]
      /\ \A d \in 1..Len(v) : (u \o v)[Len(u) + d] = v[d]
  BY <1>2, Joined DEF v
<1>4. Len(v) = 1 /\ v[1] = <<Line, 0>> /\ 1 \in 1..Len(v)
  BY <1>2 DEF v
<1> QED
  BY <1>3, <1>4 DEF v

-----------------------------------------------------------------------------
(* Steps.                                                                   *)

(* What is said of the text is about the lines begun so far.                *)
LEMMA TextFrame ==
  ASSUME UNCHANGED content, NEW w, Text' = w, TextOK(w)
  PROVE  TextOK(Text)'
<1>1. kind' = kind /\ size' = size /\ footerSays' = footerSays /\ Line' = Line
  BY DEF content, Line
<1>2. \A i : Formed(w, i) => Formed(Text, i)'
  BY <1>1 DEF Formed, PiecesAt
<1>3. \A i : InOrder(w, i) => InOrder(Text, i)'
  BY DEF InOrder
<1>4. \A i : FooterPlaced(w, i) => FooterPlaced(Text, i)'
  BY <1>1 DEF FooterPlaced, Newlines
<1> QED
  BY <1>2, <1>3, <1>4 DEF TextOK

(* An error: the line is not counted.                                       *)
LEMMA ErrorStep ==
  ASSUME IndInv, pc \in {"body", "newline", "bound"},
         UNCHANGED <<content, lines, sinceFlush, acked>>, OnError, errors' > 0,
         file' \in Seq(Units), buf' \in Seq(Units), Len(buf') <= BufCap,
         errors' \in 0..MaxErrors, TextOK(Text'),
         Newlines(Text', Len(Text')) = Newlines(Text, Len(Text))
  PROVE  IndInv'
<1>1. TypeOK /\ AtStep /\ OneFooter /\ errors' # 0
  BY DEF IndInv
<1>2. /\ kind' = kind /\ size' = size /\ footerSays' = footerSays /\ Line' = Line
      /\ lines' = lines /\ sinceFlush' = sinceFlush /\ acked' = acked
  BY DEF content, Line
<1>3. \/ kind[Line] = "event" /\ pc' = "idle" /\ exit' = exit
      \/ pc' = "closing" /\ exit' = 2
  BY DEF OnError
<1>4. TypeOK'
  BY <1>1, <1>2, <1>3 DEF TypeOK, PCs
<1>5. TextOK(Text)'
  BY TextFrame
<1>6. AtStep'
  <2>1. pc' \in {"idle", "closing"} /\ Line' > 0
    BY <1>1, <1>2, <1>3 DEF AtStep
  <2>2. Cardinality(Newlines(Text', Len(Text'))) = lines'
    BY <1>1, <1>2 DEF AtStep
  <2>3. Cardinality(Newlines(Text, Len(Text)))' = lines'
    BY <2>2 DEF Newlines
  <2> QED
    BY <2>1, <2>3 DEF AtStep
<1>7. OneFooter'
  BY <1>1, <1>2, <1>3 DEF OneFooter
<1> QED
  BY <1>1, <1>4, <1>5, <1>6, <1>7 DEF IndInv

(* The later the last flush, the more lines may be acknowledged.            *)
LEMMA FewerAreSafe ==
  ASSUME NEW n \in Nat, NEW old \in Nat, NEW new \in Nat, NEW every \in Nat, new <= old
  PROVE  /\ 1..(n - old + every - 1) \subseteq 1..(n - new + every - 1)
         /\ new < every /\ n > 0 => n \in 1..(n - new + every - 1)
  OBVIOUS

(* A flush, with all that may go on with it.                                *)
LEMMA FlushStep ==
  ASSUME IndInv, pc # "killed", Text' = Text, UNCHANGED <<content, lines>>,
         file' \in Seq(Units), buf' \in Seq(Units), Len(buf') <= BufCap,
         errors' \in 0..MaxErrors, exit' \in {-1, 0, 2}, Begins(file, file'),
         sinceFlush' \in {0, sinceFlush},
         errors' = 0 => /\ errors = 0
                        /\ sinceFlush' = sinceFlush \/ (sinceFlush' = 0 /\ file' = Text),
         <<pc, pc'>> \in {<<"body", "body">>, <<"bound", "idle">>, <<"bound", "final">>,
                          <<"final", "closing">>, <<"closing", "closed">>},
         pc' = "idle" => kind[Line] # "footer",
         \/ acked' = acked
         \/ pc = "bound" /\ acked' = acked \cup {Line} /\ sinceFlush' < FlushEvery
  PROVE  IndInv'
<1>1. TypeOK /\ AtStep /\ OneFooter /\ TextOK(Text) /\ (errors = 0 => NothingFailed)
  BY DEF IndInv
<1>2. /\ kind' = kind /\ size' = size /\ footerSays' = footerSays /\ Line' = Line
      /\ lines' = lines
  BY DEF content, Line
<1>3. /\ pc' \in {"body", "idle", "final", "closing", "closed"}
      /\ pc' = "body" => pc = "body"
      /\ pc # "body" => pc' # "body" /\ pc \notin {"new", "newline"}
      /\ pc' \in {"idle", "final"} => pc = "bound"
  OBVIOUS
<1>4. Line \in Nat /\ (pc = "bound" => Line > 0)
  BY <1>1, LineFacts DEF AtStep
<1>5. TypeOK'
  <2>1. sinceFlush' \in 0..lines'
    <3>1. lines \in Nat /\ sinceFlush \in 0..lines
      BY <1>1, LineFacts DEF TypeOK
    <3> QED
      BY <1>2, <3>1
  <2>2. acked' \subseteq 1..Line'
    <3>1. acked \subseteq 1..Line /\ (pc = "bound" => Line \in 1..Line)
      BY <1>1, <1>4 DEF TypeOK
    <3> QED
      BY <1>2, <3>1
  <2> QED
    BY <1>1, <1>2, <1>3, <2>1, <2>2 DEF TypeOK, PCs
<1>6. TextOK(Text)'
  BY <1>1, TextFrame
<1>7. AtStep'
  <2>1. Cardinality(Newlines(Text, Len(Text)))' = lines'
    BY <1>1, <1>2 DEF AtStep, Newlines
  <2>2. pc' = "body" => /\ \A i \in 1..Len(Text') : Text'[i][1] < Line'
                        /\ lines' < Line'
    BY <1>1, <1>2, <1>3 DEF AtStep
  <2>3. pc' \in {"idle", "body", "final"} => Line' > 0
    BY <1>1, <1>2, <1>3 DEF AtStep
  <2> QED
    BY <1>3, <2>1, <2>2, <2>3 DEF AtStep
<1>8. OneFooter'
  BY <1>1, <1>2, <1>3 DEF OneFooter
<1>9. ASSUME errors' = 0 PROVE NothingFailed'
  <2>1. NothingFailed /\ errors = 0
    BY <1>1, <1>9
  <2>2. \A i \in 1..Len(Text') : Untorn(Text, i)'
    BY <2>1 DEF NothingFailed, Untorn, Ended
  <2>3. lines' = IF pc' \in {"body", "newline"} THEN Line' - 1 ELSE Line'
    BY <1>2, <1>3, <2>1 DEF NothingFailed
  <2>4. \A m \in 1..lines' : Ended(Text, m, Len(Text))'
    BY <1>2, <2>1 DEF NothingFailed, Ended
  <2>5. Text' = <<>> \/ Text'[Len(Text')][2] = 0
    BY <1>3, <2>1 DEF NothingFailed
  <2>6. \A m \in 1..(lines' - sinceFlush') : Ended(file', m, Len(file'))
    <3>1. CASE sinceFlush' = sinceFlush
      <4>1. \A m \in 1..(lines - sinceFlush) : Ended(file, m, Len(file))
        BY <2>1 DEF NothingFailed
      <4>2. file \in Seq(Units)
        BY <1>1 DEF TypeOK
      <4> QED
        BY <1>2, <3>1, <4>1, <4>2, EndedGrows
    <3>2. CASE sinceFlush' = 0 /\ file' = Text
      <4>1. lines - 0 = lines
        BY <1>1, LineFacts
      <4> QED
        BY <1>2, <2>1, <3>2, <4>1 DEF NothingFailed
    <3> QED
      BY <1>9, <3>1, <3>2
  <2>7. acked' \subseteq 1..(lines' - sinceFlush' + FlushEvery - 1)
    <3>1. /\ lines \in Nat /\ sinceFlush \in Nat /\ FlushEvery \in Nat
          /\ sinceFlush' \in Nat /\ sinceFlush' <= sinceFlush
      BY <1>1, LineFacts, StoreAssumption
    <3> DEFINE old == lines - sinceFlush + FlushEvery - 1
               new == lines - sinceFlush' + FlushEvery - 1
    <3>2. /\ 1..old \subseteq 1..new
          /\ sinceFlush' < FlushEvery /\ lines > 0 => lines \in 1..new
      BY <3>1, FewerAreSafe
    <3>3. pc = "bound" => lines = Line
      BY <2>1 DEF NothingFailed
    <3>4. acked \subseteq 1..old
      BY <2>1 DEF NothingFailed
    <3> HIDE DEF old, new
    <3>5. acked' \subseteq 1..new
      BY <1>4, <3>2, <3>3, <3>4, Zenon
    <3> QED
      BY <1>2, <3>5 DEF new
  <2>8. \A m : Ended(file', m, Len(file')) <=> Ended(file, m, Len(file))'
    BY DEF Ended
  <2> QED
    BY <2>2, <2>3, <2>4, <2>5, <2>6, <2>7, <2>8 DEF NothingFailed
<1> QED
  BY <1>5, <1>6, <1>7, <1>8, <1>9 DEF IndInv

(* The pieces of the current line join the text.                            *)
LEMMA PiecesJoin ==
  ASSUME IndInv, pc = "body", NEW n \in 0..size[Line],
         NEW w, w = Text \o SubSeq(Body(Line), 1, n)
  PROVE  /\ w \in Seq(Units) /\ Len(w) = Len(Text) + n
         /\ \A i \in 1..Len(Text) : w[i] = Text[i]
         /\ \A d \in 1..n : w[Len(Text) + d] = <<Line, d>>
         /\ TextOK(w) /\ Newlines(w, Len(w)) = Newlines(Text, Len(Text))
<1>1. TypeOK /\ TextOK(Text) /\ Line > 0 /\ Text \in Seq(Units)
  BY TextFacts DEF IndInv, AtStep
<1>2. \A i \in 1..Len(Text) : Text[i][1] < Line
  BY DEF IndInv, AtStep
<1>3. kind[Line] = "footer" => Cardinality(Newlines(Text, Len(Text))) + 1 = footerSays
  <2>1. Cardinality(Newlines(Text, Len(Text))) = lines
    BY DEF IndInv, AtStep
  <2> QED
    BY <2>1 DEF IndInv, OneFooter
<1>4. /\ w \in Seq(Units) /\ Len(w) = Len(Text) + n
      /\ \A i \in 1..Len(Text) : w[i] = Text[i]
      /\ \A d \in 1..n : w[Len(Text) + d] = <<Line, d>>
  BY <1>1, BodyAdded
<1>5. TextOK(w) /\ Newlines(w, Len(w)) = Newlines(Text, Len(Text))
  BY <1>1, <1>2, <1>3, <1>4, GrowByBody
<1> QED
  BY <1>4, <1>5

(* The whole text of the current line is taken.                             *)
LEMMA BodyStep ==
  ASSUME IndInv, pc = "body", pc' = "newline", errors' = errors,
         UNCHANGED <<content, lines, sinceFlush, acked, exit>>,
         file' \in Seq(Units), buf' \in Seq(Units), Len(buf') <= BufCap,
         Begins(file, file'), Text' = Text \o Body(Line)
  PROVE  IndInv'
<1> DEFINE w == Text'
           L == Len(Text)
           s == size[Line]
<1>1. TypeOK /\ AtStep /\ OneFooter /\ (errors = 0 => NothingFailed)
  BY DEF IndInv
<1>2. /\ kind' = kind /\ size' = size /\ footerSays' = footerSays /\ Line' = Line
      /\ lines' = lines /\ sinceFlush' = sinceFlush /\ acked' = acked /\ exit' = exit
  BY DEF content, Line
<1>3. /\ Line > 0 /\ Line \in 1..Line /\ Line \in Nat /\ s \in Nat /\ s \in 0..s
      /\ L \in Nat /\ Text \in Seq(Units)
  BY <1>1, LineFacts, TextFacts DEF AtStep
<1>4. w = Text \o SubSeq(Body(Line), 1, s)
  BY <1>1, <1>3, WholeBody
<1> HIDE DEF w, L, s
<1>5. /\ w \in Seq(Units) /\ Len(w) = L + s
      /\ \A i \in 1..L : w[i] = Text[i]
      /\ \A d \in 1..s : w[L + d] = <<Line, d>>
      /\ TextOK(w) /\ Newlines(w, Len(w)) = Newlines(Text, L)
  BY <1>3, <1>4, PiecesJoin DEF L, s
<1>6. TypeOK'
  BY <1>1, <1>2 DEF TypeOK, PCs
<1>7. TextOK(Text)'
  BY <1>5, TextFrame DEF w
<1>8. AtStep'
  <2>1. Cardinality(Newlines(Text, Len(Text)))' = lines'
    BY <1>1, <1>2, <1>5 DEF AtStep, Newlines, w, L
  <2>2. s <= Len(w) /\ Len(w) - s = L
    BY <1>3, <1>5
  <2>3. PiecesAt(w, Len(w) - s, Line, s)
    BY <1>5, <2>2 DEF PiecesAt
  <2>4. \A i \in 1..Len(w) : w[i] # <<Line, 0>>
    <3>1. \A i \in 1..L : w[i][1] < Line
      BY <1>1, <1>5 DEF AtStep, L
    <3>2. \A d \in 1..s : w[L + d][2] # 0
      BY <1>5
    <3>3. \A i \in 1..(L + s) : i \in 1..L \/ (i - L \in 1..s /\ i = L + (i - L))
      BY <1>3
    <3> QED
      BY <1>3, <1>5, <3>1, <3>2, <3>3
  <2>5. lines' < Line' /\ Line' > 0
    BY <1>1, <1>2, <1>3 DEF AtStep
  <2>6. (size[Line])' = s /\ (PiecesAt(Text, Len(Text) - size[Line], Line, size[Line]))'
    BY <1>2, <2>3 DEF PiecesAt, w, s
  <2> QED
    BY <1>2, <2>1, <2>2, <2>4, <2>5, <2>6 DEF AtStep, w
<1>9. OneFooter'
  BY <1>1, <1>2 DEF OneFooter
<1>10. ASSUME errors' = 0 PROVE NothingFailed'
  <2>1. NothingFailed
    BY <1>1, <1>10
  <2>2. lines = Line - 1 /\ \A m \in 1..(Line - 1) : Ended(Text, m, L)
    BY <2>1 DEF NothingFailed, L
  <2>3. Text = <<>> \/ Text[L][2] = 0
    BY <2>1 DEF NothingFailed, L
  <2>4. \A d \in 1..s : w[L + d][1] = Line /\ w[L + d][2] = d
    BY <1>5
  <2>5. \A i \in 1..L : Untorn(Text, i)
    BY <2>1 DEF NothingFailed, L
  <2>6. \A i \in 1..Len(w) : Untorn(w, i)
    <3>1. /\ \A d \in 1..s : w[L + d][1] = Line
          /\ \A d \in 1..s : w[L + d][2] = 1 => d = 1 /\ (Text = <<>> \/ Text[L][2] = 0)
      BY <2>3, <2>4
    <3>2. /\ Text \in Seq(Units) /\ w \in Seq(Units) /\ s \in Nat /\ Len(w) = L + s
          /\ \A i \in 1..L : w[i] = Text[i]
      BY <1>3, <1>5
    <3> QED
      BY <1>1, <2>2, <2>5, <3>1, <3>2, UntornGrows DEF L
  <2>7. Begins(Text, w)
    BY <1>3, <1>5 DEF Begins, L
  <2>8. \A m \in 1..lines : Ended(w, m, Len(w))
    BY <1>3, <1>5, <2>2, <2>7, EndedGrows DEF L
  <2>9. \A m \in 1..(lines - sinceFlush) : Ended(file', m, Len(file'))
    <3>1. file \in Seq(Units) /\ \A m \in 1..(lines - sinceFlush) : Ended(file, m, Len(file))
      BY <1>1, <2>1 DEF NothingFailed, TypeOK
    <3> QED
      BY <3>1, EndedGrows
  <2>10. acked \subseteq 1..(lines - sinceFlush + FlushEvery - 1)
    BY <2>1 DEF NothingFailed
  <2>11. \A i \in 1..Len(w) : Untorn(Text, i)'
    BY <2>6 DEF Untorn, Ended, w
  <2>12. /\ \A m \in 1..lines : Ended(Text, m, Len(Text))'
         /\ \A m \in 1..(lines - sinceFlush) : Ended(file, m, Len(file))'
    BY <2>8, <2>9 DEF Ended, w
  <2> QED
    BY <1>2, <2>2, <2>10, <2>11, <2>12 DEF NothingFailed, w
<1> QED
  BY <1>6, <1>7, <1>8, <1>9, <1>10 DEF IndInv

(* The newline of the current line is taken, and the line counts.           *)
LEMMA NewlineStep ==
  ASSUME IndInv, pc = "newline", pc' = "bound", errors' = errors,
         UNCHANGED <<content, acked, exit>>, lines' = lines + 1, sinceFlush' = sinceFlush + 1,
         file' \in Seq(Units), buf' \in Seq(Units), Len(buf') <= BufCap,
         Begins(file, file'), Text' = Text \o <<Newline(Line)>>
  PROVE  IndInv'
<1> DEFINE w == Text'
           L == Len(Text)
<1>1. TypeOK /\ TextOK(Text) /\ AtStep /\ OneFooter /\ (errors = 0 => NothingFailed)
  BY DEF IndInv
<1>2. /\ kind' = kind /\ size' = size /\ footerSays' = footerSays /\ Line' = Line
      /\ acked' = acked /\ exit' = exit
  BY DEF content, Line
<1>3. /\ Line > 0 /\ Line \in 1..Line /\ Line \in Nat /\ L \in Nat /\ Text \in Seq(Units)
      /\ lines \in Nat /\ sinceFlush \in Nat /\ lines < Line /\ sinceFlush <= lines
  BY <1>1, LineFacts, TextFacts DEF AtStep, TypeOK
<1>4. /\ w \in Seq(Units) /\ Len(w) = L + 1 /\ \A i \in 1..L : w[i] = Text[i]
      /\ w[L + 1] = <<Line, 0>>
  BY <1>1, <1>3, NewlineAdded
<1>5. /\ size[Line] <= L /\ PiecesAt(Text, L - size[Line], Line, size[Line])
      /\ \A i \in 1..L : Text[i] # <<Line, 0>>
  BY <1>1 DEF AtStep
<1> HIDE DEF w, L
<1>6. /\ TextOK(w) /\ Newlines(w, Len(w)) = Newlines(Text, L) \cup {L + 1}
      /\ L + 1 \notin Newlines(Text, L)
  BY <1>1, <1>3, <1>4, <1>5, GrowByNewline DEF L
<1>7. TypeOK'
  <2>1. lines' \in 0..Line' /\ sinceFlush' \in 0..lines'
    BY <1>2, <1>3
  <2> QED
    BY <1>1, <1>2, <2>1 DEF TypeOK, PCs
<1>8. TextOK(Text)'
  BY <1>6, TextFrame DEF w
<1>9. AtStep'
  <2>1. Cardinality(Newlines(Text, L)) = lines /\ IsFiniteSet(Newlines(Text, L))
    BY <1>1, <1>3, NewlinesFinite DEF AtStep, L
  <2>2. Cardinality(Newlines(w, Len(w))) = lines + 1
    BY <1>6, <2>1, FS_AddElement
  <2>3. Cardinality(Newlines(Text, Len(Text)))' = lines'
    BY <2>2 DEF Newlines, w
  <2> QED
    BY <1>2, <1>3, <2>3 DEF AtStep
<1>10. OneFooter'
  BY <1>1, <1>2 DEF OneFooter
<1>11. ASSUME errors' = 0 PROVE NothingFailed'
  <2>1. NothingFailed
    BY <1>1, <1>11
  <2>2. lines = Line - 1 /\ \A m \in 1..(Line - 1) : Ended(Text, m, L)
    BY <2>1 DEF NothingFailed, L
  <2>3. \A i \in 1..L : Untorn(Text, i)
    BY <2>1 DEF NothingFailed, L
  <2>4. \A i \in 1..Len(w) : Untorn(w, i)
    <3>1. /\ \A d \in 1..1 : w[L + d][1] = Line
          /\ \A d \in 1..1 : w[L + d][2] = 1 => d = 1 /\ (Text = <<>> \/ Text[L][2] = 0)
      BY <1>4
    <3>2. /\ Text \in Seq(Units) /\ w \in Seq(Units) /\ 1 \in Nat /\ Len(w) = L + 1
          /\ \A i \in 1..L : w[i] = Text[i]
      BY <1>3, <1>4
    <3> QED
      BY <1>1, <2>2, <2>3, <3>1, <3>2, UntornGrows DEF L
  <2>5. Begins(Text, w)
    BY <1>3, <1>4 DEF Begins, L
  <2>6. \A m \in 1..(Line - 1) : Ended(w, m, Len(w))
    BY <1>3, <1>4, <2>2, <2>5, EndedGrows DEF L
  <2>7. Ended(w, Line, Len(w))
    <3>1. L + 1 \in 1..Len(w)
      BY <1>3, <1>4
    <3> QED
      BY <1>4, <3>1 DEF Ended
  <2>8. \A m \in 1..lines' : Ended(w, m, Len(w))
    <3>1. \A m \in 1..lines' : m \in 1..(Line - 1) \/ m = Line
      BY <1>3, <2>2
    <3> QED
      BY <2>6, <2>7, <3>1
  <2>9. \A m \in 1..(lines' - sinceFlush') : Ended(file', m, Len(file'))
    <3>1. file \in Seq(Units) /\ \A m \in 1..(lines - sinceFlush) : Ended(file, m, Len(file))
      BY <1>1, <2>1 DEF NothingFailed, TypeOK
    <3>2. lines' - sinceFlush' = lines - sinceFlush
      BY <1>3
    <3> QED
      BY <3>1, <3>2, EndedGrows
  <2>10. acked' \subseteq 1..(lines' - sinceFlush' + FlushEvery - 1)
    <3>1. acked \subseteq 1..(lines - sinceFlush + FlushEvery - 1)
      BY <2>1 DEF NothingFailed
    <3>2. lines' - sinceFlush' = lines - sinceFlush
      BY <1>3
    <3> QED
      BY <1>2, <3>1, <3>2
  <2>11. \A i \in 1..Len(w) : Untorn(Text, i)'
    BY <2>4 DEF Untorn, Ended, w
  <2>12. /\ \A m \in 1..lines' : Ended(Text, m, Len(Text))'
         /\ \A m \in 1..(lines' - sinceFlush') : Ended(file, m, Len(file))'
    BY <2>8, <2>9 DEF Ended, w
  <2>13. w[Len(w)][2] = 0 /\ lines' = Line'
    BY <1>2, <1>3, <1>4, <2>2
  <2> QED
    BY <2>10, <2>11, <2>12, <2>13 DEF NothingFailed, w
<1> QED
  BY <1>7, <1>8, <1>9, <1>10, <1>11 DEF IndInv

-----------------------------------------------------------------------------
(* The actions.                                                             *)

LEMMA InitInd == Init => IndInv
<1> SUFFICES ASSUME Init PROVE IndInv
  OBVIOUS
<1>1. Text = <<>> /\ Len(Text) = 0 /\ Line = 0
  BY DEF Init, Text, Line
<1>2. TypeOK
  BY <1>1, StoreAssumption DEF Init, TypeOK, PCs, Line
<1>3. TextOK(Text)
  BY <1>1 DEF TextOK
<1>4. AtStep
  <2>1. Newlines(Text, Len(Text)) = {}
    BY <1>1 DEF Newlines
  <2> QED
    BY <1>1, <2>1, FS_EmptySet DEF Init, AtStep
<1>5. OneFooter
  BY <1>1 DEF Init, OneFooter
<1>6. NothingFailed
  BY <1>1 DEF Init, NothingFailed
<1> QED
  BY <1>2, <1>3, <1>4, <1>5, <1>6 DEF IndInv

LEMMA BeginInd ==
  ASSUME IndInv, NEW k \in Kinds, NEW n \in Sizes, BeginLine(k, n)
  PROVE  IndInv'
<1>1. TypeOK /\ TextOK(Text) /\ AtStep /\ OneFooter /\ (errors = 0 => NothingFailed)
  BY DEF IndInv
<1>2. /\ pc \in {"new", "idle"} /\ (pc = "new" <=> k = "header") /\ Line < MaxLines
      /\ kind' = Append(kind, k) /\ size' = Append(size, n) /\ pc' = "body"
      /\ footerSays' = (IF k = "footer" THEN lines + 1 ELSE footerSays)
      /\ file' = file /\ buf' = buf /\ lines' = lines /\ sinceFlush' = sinceFlush
      /\ acked' = acked /\ errors' = errors /\ exit' = exit
  BY DEF BeginLine
<1>3. Text' = Text /\ Text \in Seq(Units) /\ Line \in Nat /\ lines \in Nat
  BY <1>1, <1>2, TextFacts, LineFacts DEF Text
<1>4. /\ kind' \in Seq(Kinds) /\ Line' = Line + 1 /\ kind'[Line + 1] = k
      /\ \A l \in 1..Line : kind'[l] = kind[l]
  BY <1>1, <1>2 DEF TypeOK, Line
<1>5. /\ size' \in Seq(Sizes) /\ Len(size') = Line + 1
      /\ \A l \in 1..Line : size'[l] = size[l]
  BY <1>1, <1>2 DEF TypeOK
<1>6. \A l \in 1..Line : kind[l] # "footer"
  BY <1>1, <1>2 DEF OneFooter
<1>7. TypeOK'
  <2>1. lines' \in 0..Line' /\ sinceFlush' \in 0..lines' /\ acked' \subseteq 1..Line'
    BY <1>1, <1>2, <1>3, <1>4 DEF TypeOK
  <2>2. footerSays' \in 0..MaxLines
    BY <1>1, <1>2, <1>3, StoreAssumption DEF TypeOK
  <2> QED
    BY <1>1, <1>2, <1>4, <1>5, <2>1, <2>2 DEF TypeOK, PCs
<1>8. TextOK(Text)'
  <2> SUFFICES ASSUME NEW i \in 1..Len(Text)
               PROVE  /\ Formed(Text, i)' /\ InOrder(Text, i)' /\ FooterPlaced(Text, i)'
    BY <1>3 DEF TextOK
  <2>1. Formed(Text, i) /\ InOrder(Text, i)
    BY <1>1 DEF TextOK
  <2>2. Text[i][1] \in 1..Line
    BY <2>1 DEF Formed
  <2>3. /\ Text[i][1] \in 1..Line' /\ size'[Text[i][1]] = size[Text[i][1]]
        /\ kind'[Text[i][1]] # "footer"
    BY <2>2, <1>3, <1>4, <1>5, <1>6
  <2>4. Formed(Text, i)'
    BY <1>3, <2>1, <2>3 DEF Formed, PiecesAt
  <2>5. InOrder(Text, i)'
    BY <1>3, <2>1 DEF InOrder
  <2>6. FooterPlaced(Text, i)'
    BY <1>3, <2>3 DEF FooterPlaced
  <2> QED
    BY <2>4, <2>5, <2>6
<1>9. AtStep'
  <2>1. \A i \in 1..Len(Text) : Text[i][1] \in 1..Line
    BY <1>1 DEF TextOK, Formed
  <2>2. \A i \in 1..Len(Text') : Text'[i][1] < Line'
    BY <1>3, <1>4, <2>1
  <2>3. lines' < Line' /\ Line' > 0
    BY <1>1, <1>2, <1>3, <1>4 DEF TypeOK
  <2>4. Cardinality(Newlines(Text, Len(Text)))' = lines'
    BY <1>1, <1>2, <1>3 DEF AtStep, Newlines
  <2> QED
    BY <1>2, <2>2, <2>3, <2>4 DEF AtStep
<1>10. OneFooter'
  <2>1. \A l \in 1..Line' : l \in 1..Line \/ l = Line'
    BY <1>3, <1>4
  <2>2. \A l \in 1..Line' : kind'[l] = "footer" => l = Line'
    BY <1>4, <1>6, <2>1
  <2>3. kind'[Line'] = "footer" => footerSays' = lines' + 1
    BY <1>2, <1>4
  <2>4. kind'[1] = "header"
    <3>1. CASE pc = "new"
      <4>1. Line = 0 /\ k = "header"
        BY <1>1, <1>2, <3>1 DEF AtStep
      <4> QED
        BY <4>1, <1>4
    <3>2. CASE pc = "idle"
      <4>1. Line > 0
        BY <1>1, <3>2 DEF AtStep
      <4>2. 1 \in 1..Line /\ kind[1] = "header"
        BY <1>1, <1>3, <4>1 DEF OneFooter
      <4> QED
        BY <4>2, <1>4
    <3> QED
      BY <1>2, <3>1, <3>2
  <2> QED
    BY <1>2, <2>2, <2>3, <2>4 DEF OneFooter
<1>11. ASSUME errors' = 0 PROVE NothingFailed'
  <2>1. NothingFailed
    BY <1>1, <1>2, <1>11
  <2>2. lines = Line /\ lines' = Line' - 1
    BY <1>2, <1>3, <1>4, <2>1 DEF NothingFailed
  <2>3. \A i \in 1..Len(Text') : Untorn(Text, i)'
    BY <1>3, <2>1 DEF NothingFailed, Untorn, Ended
  <2>4. \A m \in 1..lines' : Ended(Text, m, Len(Text))'
    BY <1>2, <1>3, <2>1 DEF NothingFailed, Ended
  <2>5. \A m \in 1..(lines' - sinceFlush') : Ended(file, m, Len(file))'
    BY <1>2, <2>1 DEF NothingFailed, Ended
  <2>6. Text' = <<>> \/ Text'[Len(Text')][2] = 0
    BY <1>2, <1>3, <2>1 DEF NothingFailed
  <2>7. acked' \subseteq 1..(lines' - sinceFlush' + FlushEvery - 1)
    BY <1>2, <2>1 DEF NothingFailed
  <2> QED
    BY <1>2, <2>2, <2>3, <2>4, <2>5, <2>6, <2>7 DEF NothingFailed
<1> QED
  BY <1>7, <1>8, <1>9, <1>10, <1>11 DEF IndInv

LEMMA KillInd ==
  ASSUME IndInv, Kill
  PROVE  IndInv'
<1>1. TypeOK /\ TextOK(Text) /\ OneFooter /\ (errors = 0 => NothingFailed)
  BY DEF IndInv
<1>2. /\ pc' = "killed" /\ buf' = <<>> /\ file' = file /\ lines' = lines
      /\ sinceFlush' = sinceFlush /\ acked' = acked /\ errors' = errors /\ exit' = exit
      /\ kind' = kind /\ size' = size /\ footerSays' = footerSays /\ Line' = Line
  BY DEF Kill, content, Line
<1>3. Text' = file /\ file \in Seq(Units) /\ Text \in Seq(Units) /\ Begins(file, Text)
  BY <1>1, <1>2, TextFacts DEF TypeOK, Text
<1>4. TypeOK'
  BY <1>1, <1>2, StoreAssumption DEF TypeOK, PCs
<1>5. TextOK(Text)'
  <2>1. TextOK(file)
    BY <1>1, <1>3, BeginningOK
  <2> QED
    BY <1>2, <1>3, <2>1, TextFrame DEF content
<1>6. AtStep'
  BY <1>2 DEF AtStep
<1>7. OneFooter'
  BY <1>1, <1>2 DEF OneFooter
<1>8. ASSUME errors' = 0 PROVE NothingFailed'
  <2>1. NothingFailed
    BY <1>1, <1>2, <1>8
  <2>2. \A i \in 1..Len(Text) : Untorn(Text, i)
    BY <2>1 DEF NothingFailed
  <2>3. \A i \in 1..Len(file) : Untorn(file, i)
    BY <1>1, <1>3, <2>2, BeginningOK
  <2>4. \A i \in 1..Len(Text') : Untorn(Text, i)'
    BY <1>3, <2>3 DEF Untorn, Ended
  <2>5. \A m \in 1..(lines' - sinceFlush') : Ended(file, m, Len(file))'
    BY <1>2, <2>1 DEF NothingFailed, Ended
  <2>6. acked' \subseteq 1..(lines' - sinceFlush' + FlushEvery - 1)
    BY <1>2, <2>1 DEF NothingFailed
  <2> QED
    BY <1>2, <2>4, <2>5, <2>6 DEF NothingFailed
<1> QED
  BY <1>4, <1>5, <1>6, <1>7, <1>8 DEF IndInv

LEMMA Regroup ==
  ASSUME NEW u \in Seq(Units), NEW v \in Seq(Units), NEW w \in Seq(Units)
  PROVE  u \o (v \o w) = (u \o v) \o w
  OBVIOUS

LEMMA BufferedInd ==
  ASSUME IndInv, PutBodyBuffered
  PROVE  IndInv'
<1>1. TypeOK /\ Line > 0 /\ pc = "body"
  BY DEF IndInv, AtStep, PutBodyBuffered
<1>2. /\ size[Line] <= BufCap - Len(buf) /\ buf' = buf \o Body(Line) /\ pc' = "newline"
      /\ file' = file /\ errors' = errors
      /\ UNCHANGED <<content, lines, sinceFlush, acked, exit>>
  BY DEF PutBodyBuffered, Spare
<1>3. Line \in 1..Line /\ size[Line] \in Nat
  BY <1>1, LineFacts
<1>4. Body(Line) \in Seq(Units) /\ Len(Body(Line)) = size[Line]
  BY <1>1, <1>3, BodyFacts
<1>5. file \in Seq(Units) /\ buf \in Seq(Units) /\ Len(buf) \in Nat
  BY <1>1 DEF TypeOK
<1>6. buf' \in Seq(Units) /\ Len(buf') <= BufCap
  <2>1. buf \o Body(Line) \in Seq(Units) /\ Len(buf \o Body(Line)) = Len(buf) + Len(Body(Line))
    BY <1>4, <1>5, Joined
  <2> QED
    BY <1>2, <1>3, <1>4, <1>5, <2>1, StoreAssumption
<1>7. Text' = Text \o Body(Line)
  BY <1>2, <1>4, <1>5, Regroup DEF Text
<1>8. file' \in Seq(Units) /\ Begins(file, file')
  BY <1>2, <1>5 DEF Begins
<1> QED
  BY <1>1, <1>2, <1>6, <1>7, <1>8, BodyStep

LEMMA AfterFlushInd ==
  ASSUME IndInv, PutBodyAfterFlush
  PROVE  IndInv'
<1>1. TypeOK /\ Line > 0 /\ pc = "body" /\ TextOK(Text)
  BY DEF IndInv, AtStep, PutBodyAfterFlush
<1>2. Line \in 1..Line /\ size[Line] \in Nat
  BY <1>1, LineFacts
<1>3. Body(Line) \in Seq(Units) /\ Len(Body(Line)) = size[Line]
  BY <1>1, <1>2, BodyFacts
<1> PICK n \in 0..Len(buf), ok \in BOOLEAN :
      /\ Written(buf, n, ok)
      /\ IF ok
           THEN buf' = Body(Line) /\ pc' = "newline" /\ exit' = exit
           ELSE buf' = SubSeq(buf, n + 1, Len(buf)) /\ OnError
  BY DEF PutBodyAfterFlush
<1>4. size[Line] < BufCap /\ UNCHANGED <<content, lines, sinceFlush, acked>>
  BY DEF PutBodyAfterFlush
<1>5. /\ file' \in Seq(Units) /\ SubSeq(buf, n + 1, Len(buf)) \in Seq(Units)
      /\ Len(SubSeq(buf, n + 1, Len(buf))) <= BufCap
      /\ file' \o SubSeq(buf, n + 1, Len(buf)) = Text
      /\ Begins(file, file') /\ errors' \in 0..MaxErrors
      /\ ok => file' = Text /\ errors' = errors
      /\ ~ok => errors' > 0
  BY <1>1, FlushFacts
<1>6. CASE ok
  <2>1. /\ buf' = Body(Line) /\ buf' \in Seq(Units) /\ Len(buf') <= BufCap
        /\ pc' = "newline" /\ exit' = exit /\ errors' = errors
    BY <1>2, <1>3, <1>4, <1>5, <1>6, StoreAssumption
  <2>2. Text' = Text \o Body(Line)
    BY <1>5, <1>6, <2>1 DEF Text
  <2>3. UNCHANGED <<content, lines, sinceFlush, acked, exit>>
    BY <1>4, <2>1
  <2> QED
    BY <1>1, <1>5, <2>1, <2>2, <2>3, BodyStep
<1>7. CASE ~ok
  <2>1. buf' = SubSeq(buf, n + 1, Len(buf)) /\ OnError /\ errors' > 0
    BY <1>5, <1>7
  <2>2. Text' = Text
    BY <1>5, <2>1 DEF Text
  <2> QED
    BY <1>1, <1>4, <1>5, <2>1, <2>2, ErrorStep
<1> QED
  BY <1>6, <1>7

LEMMA MakeRoomInd ==
  ASSUME IndInv, MakeRoomForLarge
  PROVE  IndInv'
<1>1. TypeOK /\ pc = "body" /\ TextOK(Text)
  BY DEF IndInv, MakeRoomForLarge
<1> PICK n \in 0..Len(buf), ok \in BOOLEAN :
      /\ FlushBuf(n, ok)
      /\ IF ok THEN UNCHANGED <<pc, exit>> ELSE OnError
  BY DEF MakeRoomForLarge
<1>2. UNCHANGED <<content, lines, sinceFlush, acked>>
  BY DEF MakeRoomForLarge
<1>3. Written(buf, n, ok) /\ buf' = SubSeq(buf, n + 1, Len(buf))
  BY DEF FlushBuf
<1>4. /\ file' \in Seq(Units) /\ buf' \in Seq(Units) /\ Len(buf') <= BufCap
      /\ file' \o buf' = Text
      /\ Begins(file, file') /\ errors' \in 0..MaxErrors
      /\ ok => file' = Text /\ errors' = errors
      /\ ~ok => errors' > 0
  BY <1>1, <1>3, FlushFacts
<1>5. Text' = Text
  BY <1>4 DEF Text
<1>6. CASE ok
  <2>1. pc' = "body" /\ exit' = exit /\ errors' = errors
    BY <1>1, <1>4, <1>6
  <2>2. exit' \in {-1, 0, 2} /\ errors = errors'
    BY <1>1, <2>1 DEF TypeOK
  <2> QED
    BY <1>1, <1>2, <1>4, <1>5, <2>1, <2>2, FlushStep
<1>7. CASE ~ok
  BY <1>1, <1>2, <1>4, <1>5, <1>7, ErrorStep
<1> QED
  BY <1>6, <1>7

LEMMA DirectInd ==
  ASSUME IndInv, PutBodyDirect
  PROVE  IndInv'
<1>1. TypeOK /\ Line > 0 /\ pc = "body" /\ TextOK(Text)
  BY DEF IndInv, AtStep, PutBodyDirect
<1>2. Line \in 1..Line /\ size[Line] \in Nat
  BY <1>1, LineFacts
<1>3. Body(Line) \in Seq(Units) /\ Len(Body(Line)) = size[Line]
  BY <1>1, <1>2, BodyFacts
<1> PICK n \in 0..size[Line], ok \in BOOLEAN :
      /\ Written(Body(Line), n, ok)
      /\ IF ok THEN pc' = "newline" /\ exit' = exit ELSE OnError
  BY DEF PutBodyDirect
<1>4. buf = <<>> /\ UNCHANGED <<buf, content, lines, sinceFlush, acked>>
  BY DEF PutBodyDirect
<1>5. /\ file \in Seq(Units) /\ <<>> \in Seq(Units) /\ Len(<<>>) <= BufCap
      /\ errors \in 0..MaxErrors
  BY <1>1, StoreAssumption DEF TypeOK
<1>6. Text = file /\ Text' = file'
  <2>1. \A u \in Seq(Units) : u \o <<>> = u
    OBVIOUS
  <2>2. file' = file \o SubSeq(Body(Line), 1, n)
    BY DEF Written
  <2>3. SubSeq(Body(Line), 1, n) \in Seq(Units)
    BY <1>3, Parted
  <2>4. file' \in Seq(Units)
    BY <1>5, <2>2, <2>3, Joined
  <2> QED
    BY <1>4, <1>5, <2>1, <2>4 DEF Text
<1>7. Text' = Text \o SubSeq(Body(Line), 1, n)
  BY <1>6 DEF Written
<1>8. /\ Text' \in Seq(Units) /\ Len(Text') = Len(Text) + n
      /\ \A i \in 1..Len(Text) : Text'[i] = Text[i]
      /\ TextOK(Text') /\ Newlines(Text', Len(Text')) = Newlines(Text, Len(Text))
  BY <1>1, <1>7, PiecesJoin
<1>9. file' \in Seq(Units) /\ Begins(file, file')
  <2>1. Len(file) \in Nat /\ n \in Nat
    BY <1>2, <1>5
  <2> QED
    BY <1>6, <1>8, <2>1 DEF Begins
<1>10. /\ ok <=> n = size[Line] /\ (ok \/ errors < MaxErrors)
       /\ errors' = (IF ok THEN errors ELSE errors + 1)
  BY <1>3 DEF Written
<1>11. CASE ok
  <2>1. Text' = Text \o Body(Line)
    BY <1>1, <1>7, <1>10, <1>11, WholeBody
  <2>2. pc' = "newline" /\ exit' = exit /\ errors' = errors
    BY <1>10, <1>11
  <2>3. UNCHANGED <<content, lines, sinceFlush, acked, exit>>
    BY <1>4, <2>2
  <2> QED
    BY <1>1, <1>4, <1>5, <1>9, <2>1, <2>2, <2>3, BodyStep
<1>12. CASE ~ok
  <2>1. OnError /\ errors' > 0 /\ errors' \in 0..MaxErrors
    BY <1>5, <1>10, <1>12, StoreAssumption DEF Written
  <2> QED
    BY <1>1, <1>4, <1>5, <1>8, <1>9, <2>1, ErrorStep
<1> QED
  BY <1>11, <1>12

LEMMA NewlineInd ==
  ASSUME IndInv, PutNewline
  PROVE  IndInv'
<1>1. TypeOK /\ Line > 0 /\ pc = "newline" /\ TextOK(Text)
  BY DEF IndInv, AtStep, PutNewline
<1>2. Line \in 1..Line /\ <<Newline(Line)>> \in Seq(Units) /\ Len(<<Newline(Line)>>) = 1
  BY <1>1, LineFacts, BodyFacts
<1>3. /\ file \in Seq(Units) /\ buf \in Seq(Units) /\ Len(buf) \in Nat
      /\ BufCap \in Nat /\ BufCap > 0
  BY <1>1, StoreAssumption DEF TypeOK
<1> PICK n \in 0..Len(buf), ok \in BOOLEAN :
      /\ IF Spare > 0 THEN ok /\ n = 0 /\ UNCHANGED <<file, errors>> ELSE Written(buf, n, ok)
      /\ IF ok
           THEN /\ buf' = (IF Spare > 0 THEN buf ELSE <<>>) \o <<Newline(Line)>>
                /\ lines' = lines + 1
                /\ sinceFlush' = sinceFlush + 1
                /\ pc' = "bound" /\ exit' = exit
           ELSE /\ buf' = SubSeq(buf, n + 1, Len(buf))
                /\ UNCHANGED <<lines, sinceFlush>>
                /\ OnError
  BY DEF PutNewline
<1>4. UNCHANGED <<content, acked>>
  BY DEF PutNewline
<1>5. CASE Spare > 0
  <2>1. /\ ok /\ file' = file /\ errors' = errors /\ buf' = buf \o <<Newline(Line)>>
        /\ lines' = lines + 1 /\ sinceFlush' = sinceFlush + 1 /\ pc' = "bound" /\ exit' = exit
    BY <1>5
  <2>2. buf' \in Seq(Units) /\ Len(buf') = Len(buf) + 1
    <3> DEFINE v == <<Newline(Line)>>
    <3> HIDE DEF v
    <3>1. buf \o v \in Seq(Units) /\ Len(buf \o v) = Len(buf) + Len(v)
      BY <1>2, <1>3, Joined DEF v
    <3> QED
      BY <1>2, <2>1, <3>1 DEF v
  <2>3. Len(buf') <= BufCap
    BY <1>3, <1>5, <2>2 DEF Spare
  <2>4. Text' = Text \o <<Newline(Line)>>
    BY <1>2, <1>3, <2>1, Regroup DEF Text
  <2>5. file' \in Seq(Units) /\ Begins(file, file')
    BY <1>3, <2>1 DEF Begins
  <2>6. UNCHANGED <<content, acked, exit>>
    BY <1>4, <2>1
  <2> QED
    BY <1>1, <2>1, <2>2, <2>3, <2>4, <2>5, <2>6, NewlineStep
<1>6. CASE ~(Spare > 0)
  <2>1. Written(buf, n, ok)
    BY <1>6
  <2>2. /\ file' \in Seq(Units) /\ SubSeq(buf, n + 1, Len(buf)) \in Seq(Units)
        /\ Len(SubSeq(buf, n + 1, Len(buf))) <= BufCap
        /\ file' \o SubSeq(buf, n + 1, Len(buf)) = Text
        /\ Begins(file, file') /\ errors' \in 0..MaxErrors
        /\ ok => file' = Text /\ errors' = errors
        /\ ~ok => errors' > 0
    BY <1>1, <2>1, FlushFacts
  <2>3. CASE ok
    <3>1. /\ buf' = <<>> \o <<Newline(Line)>> /\ errors' = errors /\ file' = Text
          /\ lines' = lines + 1 /\ sinceFlush' = sinceFlush + 1 /\ pc' = "bound" /\ exit' = exit
      BY <1>6, <2>2, <2>3
    <3>2. buf' = <<Newline(Line)>>
      BY <3>1
    <3>3. buf' \in Seq(Units) /\ Len(buf') <= BufCap
      BY <1>2, <1>3, <3>2
    <3>4. Text' = Text \o <<Newline(Line)>>
      BY <3>1, <3>2 DEF Text
    <3>5. UNCHANGED <<content, acked, exit>>
      BY <1>4, <3>1
    <3> QED
      BY <1>1, <2>2, <3>1, <3>3, <3>4, <3>5, NewlineStep
  <2>4. CASE ~ok
    <3>1. /\ buf' = SubSeq(buf, n + 1, Len(buf)) /\ OnError /\ errors' > 0
          /\ UNCHANGED <<content, lines, sinceFlush, acked>>
      BY <1>4, <2>2, <2>4
    <3>2. Text' = Text
      BY <2>2, <3>1 DEF Text
    <3> QED
      BY <1>1, <2>2, <3>1, <3>2, ErrorStep
  <2> QED
    BY <2>3, <2>4
<1> QED
  BY <1>5, <1>6

LEMMA FlushBoundInd ==
  ASSUME IndInv, FlushBound
  PROVE  IndInv'
<1>1. TypeOK /\ pc = "bound" /\ TextOK(Text)
  BY DEF IndInv, FlushBound
<1>2. UNCHANGED <<content, lines>>
  BY DEF FlushBound
<1>3. /\ file \in Seq(Units) /\ buf \in Seq(Units) /\ Len(buf) <= BufCap
      /\ errors \in 0..MaxErrors /\ exit \in {-1, 0, 2} /\ Begins(file, file)
  BY <1>1 DEF TypeOK, Begins
<1>4. OnSuccess => /\ acked' = acked \cup {Line} /\ exit' \in {-1, 0, 2}
                   /\ pc' \in {"idle", "final"}
                   /\ pc' = "idle" => kind[Line] # "footer"
  BY <1>3 DEF OnSuccess
<1>5. CASE sinceFlush < FlushEvery
  <2>1. OnSuccess /\ UNCHANGED <<file, buf, sinceFlush, errors>>
    BY <1>5 DEF FlushBound
  <2>2. Text' = Text
    BY <2>1 DEF Text
  <2>3. sinceFlush' < FlushEvery /\ sinceFlush' = sinceFlush
    BY <1>5, <2>1
  <2>4. /\ file' \in Seq(Units) /\ buf' \in Seq(Units) /\ Len(buf') <= BufCap
        /\ errors' \in 0..MaxErrors /\ Begins(file, file') /\ errors' = errors
    BY <1>3, <2>1
  <2> QED
    BY <1>1, <1>2, <1>4, <2>1, <2>2, <2>3, <2>4, FlushStep
<1>6. CASE ~(sinceFlush < FlushEvery)
  <2> PICK n \in 0..Len(buf), ok \in BOOLEAN :
        /\ FlushBuf(n, ok)
        /\ IF ok THEN sinceFlush' = 0 /\ OnSuccess
                 ELSE UNCHANGED <<sinceFlush, acked>> /\ OnError
    BY <1>6 DEF FlushBound
  <2>1. Written(buf, n, ok) /\ buf' = SubSeq(buf, n + 1, Len(buf))
    BY DEF FlushBuf
  <2>2. /\ file' \in Seq(Units) /\ buf' \in Seq(Units) /\ Len(buf') <= BufCap
        /\ file' \o buf' = Text
        /\ Begins(file, file') /\ errors' \in 0..MaxErrors
        /\ ok => file' = Text /\ errors' = errors
        /\ ~ok => errors' > 0
    BY <1>1, <2>1, FlushFacts
  <2>3. Text' = Text
    BY <2>2 DEF Text
  <2>4. CASE ok
    <3>1. sinceFlush' = 0 /\ OnSuccess /\ file' = Text /\ errors' = errors
      BY <2>2, <2>4
    <3>2. 0 < FlushEvery
      BY StoreAssumption
    <3> QED
      BY <1>1, <1>2, <1>4, <2>2, <2>3, <3>1, <3>2, FlushStep
  <2>5. CASE ~ok
    <3>1. UNCHANGED <<content, lines, sinceFlush, acked>> /\ OnError /\ errors' > 0
      BY <1>2, <2>2, <2>5
    <3> QED
      BY <1>1, <2>2, <2>3, <3>1, ErrorStep
  <2> QED
    BY <2>4, <2>5
<1> QED
  BY <1>5, <1>6

LEMMA FooterFlushInd ==
  ASSUME IndInv, FooterFlush
  PROVE  IndInv'
<1>1. TypeOK /\ pc = "final" /\ pc' = "closing" /\ UNCHANGED <<content, lines, acked>>
  BY DEF IndInv, FooterFlush
<1> PICK n \in 0..Len(buf), ok \in BOOLEAN :
      /\ FlushBuf(n, ok)
      /\ sinceFlush' = IF ok THEN 0 ELSE sinceFlush
      /\ exit' = IF ok THEN 0 ELSE 2
  BY DEF FooterFlush
<1>2. Written(buf, n, ok) /\ buf' = SubSeq(buf, n + 1, Len(buf))
  BY DEF FlushBuf
<1>3. /\ file' \in Seq(Units) /\ buf' \in Seq(Units) /\ Len(buf') <= BufCap
      /\ file' \o buf' = Text
      /\ Begins(file, file') /\ errors' \in 0..MaxErrors
      /\ ok => file' = Text /\ errors' = errors
      /\ ~ok => errors' > 0
  BY <1>1, <1>2, FlushFacts
<1>4. Text' = Text
  BY <1>3 DEF Text
<1>5. /\ exit' \in {-1, 0, 2} /\ sinceFlush' \in {0, sinceFlush}
      /\ errors' = 0 => errors = 0 /\ sinceFlush' = 0 /\ file' = Text
  BY <1>3
<1> QED
  BY <1>1, <1>3, <1>4, <1>5, FlushStep

LEMMA DropInd ==
  ASSUME IndInv, DropWriter
  PROVE  IndInv'
<1>1. TypeOK /\ pc = "closing" /\ pc' = "closed"
      /\ UNCHANGED <<content, lines, sinceFlush, acked, exit>>
  BY DEF IndInv, DropWriter
<1> PICK n \in 0..Len(buf), ok \in BOOLEAN : FlushBuf(n, ok)
  BY DEF DropWriter
<1>2. Written(buf, n, ok) /\ buf' = SubSeq(buf, n + 1, Len(buf))
  BY DEF FlushBuf
<1>3. /\ file' \in Seq(Units) /\ buf' \in Seq(Units) /\ Len(buf') <= BufCap
      /\ file' \o buf' = Text
      /\ Begins(file, file') /\ errors' \in 0..MaxErrors
      /\ ok => file' = Text /\ errors' = errors
      /\ ~ok => errors' > 0
  BY <1>1, <1>2, FlushFacts
<1>4. Text' = Text
  BY <1>3 DEF Text
<1>5. /\ exit' \in {-1, 0, 2} /\ sinceFlush' = sinceFlush
      /\ errors' = 0 => errors = 0
  BY <1>1, <1>3 DEF TypeOK
<1> QED
  BY <1>1, <1>3, <1>4, <1>5, FlushStep

(* A stuttering step changes nothing the invariant speaks of.               *)
LEMMA StutterInd ==
  ASSUME IndInv, UNCHANGED vars
  PROVE  IndInv'
<1>1. Text' = Text /\ Line' = Line
  BY DEF vars, Text, Line
<1>2. TextOK(Text)'
  BY <1>1, TextFrame DEF IndInv, vars, content
<1>3. TypeOK'
  BY <1>1 DEF IndInv, TypeOK, vars
<1>4. AtStep'
  BY <1>1 DEF IndInv, AtStep, vars, PiecesAt, Newlines
<1>5. OneFooter'
  BY <1>1 DEF IndInv, OneFooter, vars
<1>6. errors' = 0 => NothingFailed'
  BY <1>1 DEF IndInv, NothingFailed, vars, Untorn, Ended
<1> QED
  BY <1>2, <1>3, <1>4, <1>5, <1>6 DEF IndInv

LEMMA NextInd == IndInv /\ [Next]_vars => IndInv'
<1> SUFFICES ASSUME IndInv, [Next]_vars PROVE IndInv'
  OBVIOUS
<1>1. CASE \E k \in Kinds, n \in Sizes : BeginLine(k, n)
  BY <1>1, BeginInd
<1>2. CASE PutBodyBuffered
  BY <1>2, BufferedInd
<1>3. CASE PutBodyAfterFlush
  BY <1>3, AfterFlushInd
<1>4. CASE MakeRoomForLarge
  BY <1>4, MakeRoomInd
<1>5. CASE PutBodyDirect
  BY <1>5, DirectInd
<1>6. CASE PutNewline
  BY <1>6, NewlineInd
<1>7. CASE FlushBound
  BY <1>7, FlushBoundInd
<1>8. CASE FooterFlush
  BY <1>8, FooterFlushInd
<1>9. CASE DropWriter
  BY <1>9, DropInd
<1>10. CASE Kill
  BY <1>10, KillInd
<1>11. CASE Stopped \/ UNCHANGED vars
  BY <1>11, StutterInd DEF Stopped
<1> QED
  BY <1>1, <1>2, <1>3, <1>4, <1>5, <1>6, <1>7, <1>8, <1>9, <1>10, <1>11 DEF Next

(* What was written is well formed, and, until a write fails, it is all     *)
(* there: what counts as flushed is in the file.                            *)
THEOREM Inductive == Spec => []IndInv
  BY InitInd, NextInd, PTL DEF Spec

(* The variables have their types, and the buffer stays within its          *)
(* capacity.                                                                *)
THEOREM TypeCorrect == Spec => []TypeOK
<1>1. IndInv => TypeOK
  BY DEF IndInv
<1> QED
  BY <1>1, Inductive, PTL

-----------------------------------------------------------------------------
(* What a reader makes of a text.                                           *)

LEMMA TextLineFacts ==
  ASSUME NEW u \in Seq(Units), NEW r \in TextLines(u)
  PROVE  /\ r[1] \in 1..Len(u) /\ r[2] \in 1..Len(u) /\ r[1] <= r[2] /\ r = <<r[1], r[2]>>
         /\ r[1] \in Nat /\ r[2] \in Nat /\ Len(u) \in Nat
         /\ \A i \in r[1]..r[2] : u[i][2] # 0
         /\ r[1] = 1 \/ u[r[1] - 1][2] = 0
         /\ r[2] = Len(u) \/ u[r[2] + 1][2] = 0
  BY DEF TextLines

(* Two lines of a text do not overlap.                                      *)
LEMMA LinesApart ==
  ASSUME NEW u \in Seq(Units), NEW r \in TextLines(u), NEW s \in TextLines(u)
  PROVE  /\ s[1] <= r[1] => s = r \/ s[2] < r[2]
         /\ s[2] = r[2] => s = r
<1>1. /\ r[1] <= r[2] /\ r = <<r[1], r[2]>> /\ r[1] \in Nat /\ r[2] \in Nat
      /\ \A i \in r[1]..r[2] : u[i][2] # 0
      /\ r[1] = 1 \/ u[r[1] - 1][2] = 0
      /\ r[2] = Len(u) \/ u[r[2] + 1][2] = 0
      /\ r[1] \in 1..Len(u) /\ r[2] \in 1..Len(u)
  BY TextLineFacts
<1>2. /\ s[1] <= s[2] /\ s = <<s[1], s[2]>> /\ s[1] \in Nat /\ s[2] \in Nat
      /\ \A i \in s[1]..s[2] : u[i][2] # 0
      /\ s[1] = 1 \/ u[s[1] - 1][2] = 0
      /\ s[2] = Len(u) \/ u[s[2] + 1][2] = 0
      /\ s[1] \in 1..Len(u) /\ s[2] \in 1..Len(u)
  BY TextLineFacts
<1>3. ~(s[1] < r[1] /\ r[1] <= s[2] + 1)
  <2> SUFFICES ASSUME s[1] < r[1], r[1] <= s[2] + 1 PROVE FALSE
    OBVIOUS
  <2>1. r[1] - 1 \in s[1]..s[2] /\ r[1] # 1
    BY <1>1, <1>2
  <2> QED
    BY <1>1, <1>2, <2>1
<1>4. ~(r[1] < s[1] /\ s[1] <= r[2] + 1)
  <2> SUFFICES ASSUME r[1] < s[1], s[1] <= r[2] + 1 PROVE FALSE
    OBVIOUS
  <2>1. s[1] - 1 \in r[1]..r[2] /\ s[1] # 1
    BY <1>1, <1>2
  <2> QED
    BY <1>1, <1>2, <2>1
<1>5. ~(s[1] <= r[1] /\ r[2] < s[2])
  <2> SUFFICES ASSUME s[1] <= r[1], r[2] < s[2] PROVE FALSE
    OBVIOUS
  <2>1. r[2] + 1 \in s[1]..s[2] /\ r[2] # Len(u)
    BY <1>1, <1>2
  <2> QED
    BY <1>1, <1>2, <2>1
<1>6. s[2] = r[2] => s[1] = r[1]
  BY <1>1, <1>2, <1>3, <1>4
<1>7. s[2] = r[2] => s = r
  BY <1>1, <1>2, <1>6
<1>8. s[1] <= r[1] => s[2] = r[2] \/ s[2] < r[2]
  BY <1>1, <1>2, <1>5
<1> QED
  BY <1>7, <1>8

(* In a text without torn lines, a newline ends a line that parses.         *)
LEMMA LineAt ==
  ASSUME TypeOK, NEW u \in Seq(Units), TextOK(u), \A i \in 1..Len(u) : Untorn(u, i),
         NEW j \in 1..Len(u), u[j][2] = 0
  PROVE  \E r \in TextLines(u) : r[2] = j - 1 /\ Parses(u, r) /\ RecordOf(u, r) = u[j][1]
<1> DEFINE m == u[j][1]
           k == size[m]
           p == j - 1 - k
           r == <<p + 1, j - 1>>
<1>1. Formed(u, j)
  BY DEF TextOK
<1>2. m \in 1..Line /\ k < j /\ PiecesAt(u, p, m, k)
  BY <1>1 DEF Formed
<1>3. /\ k \in Nat /\ k > 0 /\ Len(u) \in Nat /\ j \in 1..Len(u)
  BY <1>2, LineFacts
<1>4. /\ p \in Nat /\ p + k = j - 1 /\ p + 1 \in 1..Len(u) /\ j - 1 \in 1..Len(u)
      /\ p + 1 <= j - 1 /\ 1 \in 1..k /\ (j - 1) + 1 = j
  BY <1>2, <1>3
<1> HIDE DEF k, p, m
<1>5. u[p + 1] = <<m, 1>>
  BY <1>2, <1>4 DEF PiecesAt
<1>6. \A i \in (p + 1)..(j - 1) : u[i][2] # 0
  <2> SUFFICES ASSUME NEW i \in (p + 1)..(j - 1) PROVE u[i][2] # 0
    OBVIOUS
  <2>1. i - p \in 1..k /\ p + (i - p) = i
    BY <1>3, <1>4
  <2>2. u[i] = <<m, i - p>>
    BY <1>2, <2>1 DEF PiecesAt
  <2> QED
    BY <2>1, <2>2
<1>7. p + 1 = 1 \/ u[(p + 1) - 1][2] = 0
  <2>1. Untorn(u, p + 1) /\ u[p + 1][2] = 1
    BY <1>4, <1>5
  <2> QED
    BY <2>1 DEF Untorn
<1>8. r \in TextLines(u)
  <2>1. r \in (1..Len(u)) \X (1..Len(u)) /\ r[1] = p + 1 /\ r[2] = j - 1
    BY <1>4
  <2>2. u[(j - 1) + 1][2] = 0
    BY <1>4
  <2> QED
    BY <1>4, <1>6, <1>7, <2>1, <2>2 DEF TextLines
<1>9. RecordOf(u, r) = m
  BY <1>5 DEF RecordOf
<1>10. Parses(u, r)
  <2>1. (j - 1) - (p + 1) + 1 = k
    BY <1>3, <1>4
  <2>2. (p + 1) - 1 = p
    BY <1>4
  <2>3. \A d \in 1..k : u[p + d] = <<m, d>>
    BY <1>2 DEF PiecesAt
  <2>4. r[1] = p + 1 /\ r[2] = j - 1
    OBVIOUS
  <2>5. r[2] - r[1] + 1 = size[m] /\ \A d \in 1..size[m] : u[r[1] - 1 + d] = <<m, d>>
    <3>1. \A d \in 1..k : u[((p + 1) - 1) + d] = <<m, d>>
      BY <2>2, <2>3
    <3> QED
      BY <2>1, <2>4, <3>1 DEF k
  <2> HIDE DEF r
  <2> QED
    BY <1>9, <2>5 DEF Parses
<1> QED
  BY <1>8, <1>9, <1>10 DEF m

(* Without a failed write, a line that has its newline in the file is kept, *)
(* the footer aside.                                                        *)
LEMMA EndedIsKept ==
  ASSUME IndInv, errors = 0, NEW l \in 1..Line, kind[l] # "footer", Ended(file, l, Len(file))
  PROVE  l \in Recovery.kept
<1> DEFINE u == file
<1>1. TypeOK /\ TextOK(Text) /\ NothingFailed /\ OneFooter /\ u \in Seq(Units)
  BY DEF IndInv, TypeOK
<1>2. TextOK(u) /\ \A i \in 1..Len(u) : Untorn(u, i)
  BY <1>1, TextFacts, BeginningOK DEF NothingFailed
<1> HIDE DEF u
<1> PICK j \in 1..Len(u) : u[j] = <<l, 0>>
  BY DEF Ended, u
<1>3. u[j][1] = l /\ u[j][2] = 0
  OBVIOUS
<1> PICK r \in TextLines(u) : r[2] = j - 1 /\ Parses(u, r) /\ RecordOf(u, r) = l
  BY <1>1, <1>2, <1>3, LineAt
<1>4. ASSUME NEW s \in TextLines(u), s[1] <= r[1]
      PROVE  Parses(u, s) /\ ~IsFooter(u, s)
  <2>1. CASE s = r
    BY <2>1 DEF IsFooter
  <2>2. CASE s[2] < r[2]
    <3>1. s[2] \in 1..Len(u) /\ r[2] \in 1..Len(u) /\ Len(u) \in Nat
          /\ (s[2] = Len(u) \/ u[s[2] + 1][2] = 0)
      BY <1>1, TextLineFacts
    <3> DEFINE i == s[2] + 1
    <3>2. i \in 1..Len(u) /\ i \in 1..(j - 1) /\ u[i][2] = 0 /\ i - 1 = s[2]
      BY <2>2, <3>1
    <3> HIDE DEF i
    <3> PICK t \in TextLines(u) : t[2] = i - 1 /\ Parses(u, t) /\ RecordOf(u, t) = u[i][1]
      BY <1>1, <1>2, <3>2, LineAt
    <3>3. t = s
      BY <1>1, <3>2, LinesApart
    <3>4. u[i][1] < l
      <4>1. InOrder(u, j)
        BY <1>2 DEF TextOK
      <4> QED
        BY <1>3, <3>2, <4>1 DEF InOrder
    <3>5. u[i][1] \in 1..Line /\ Line \in Nat
      BY <1>1, <1>2, <3>2, LineFacts DEF TextOK, Formed
    <3>6. kind[u[i][1]] # "footer"
      BY <1>1, <3>4, <3>5 DEF OneFooter
    <3> QED
      BY <3>3, <3>6 DEF IsFooter
  <2> QED
    BY <1>1, <1>4, <2>1, <2>2, LinesApart
<1>5. r \in KeptLines(u)
  BY <1>4 DEF KeptLines
<1> QED
  BY <1>5 DEF Recovery, recover_session_text, u

(* A footer a reader recognizes is the last line that was begun, and is     *)
(* read from its first piece on.                                            *)
LEMMA FooterFacts ==
  ASSUME TypeOK, OneFooter, NEW u \in Seq(Units), TextOK(u),
         NEW r \in TextLines(u), IsFooter(u, r)
  PROVE  r[1] \in 1..Len(u) /\ u[r[1]] = <<Line, 1>> /\ kind[Line] = "footer"
<1> DEFINE l == RecordOf(u, r)
<1>1. r[1] \in 1..Len(u) /\ r[1] \in Nat
  BY TextLineFacts
<1>2. l \in 1..Line
  BY <1>1 DEF TextOK, Formed, RecordOf
<1>3. size[l] \in Nat /\ size[l] > 0 /\ 1 \in 1..size[l]
  BY <1>2, LineFacts
<1>4. kind[l] = "footer" /\ \A d \in 1..size[l] : u[r[1] - 1 + d] = <<l, d>>
  BY DEF IsFooter, Parses
<1>5. l = Line
  BY <1>2, <1>4 DEF OneFooter
<1> HIDE DEF l
<1>6. u[r[1] - 1 + 1] = <<l, 1>>
  BY <1>3, <1>4
<1>7. r[1] - 1 + 1 = r[1]
  BY <1>1
<1> QED
  BY <1>1, <1>4, <1>5, <1>6, <1>7

-----------------------------------------------------------------------------
(* As long as no write failed, a kill at any moment loses at most           *)
(* flush_every - 1 of the lines whose write_line had returned, whatever the *)
(* lengths of the lines and the size of the buffer.                         *)
THEOREM LossIsBounded == Spec => []LossBound
<1>1. IndInv => LossBound
  <2> SUFFICES ASSUME IndInv, errors = 0
               PROVE  Cardinality(acked \ (Recovery.kept \cup {l \in acked : kind[l] = "footer"}))
                        <= FlushEvery - 1
    BY DEF LossBound
  <2> DEFINE lost == acked \ (Recovery.kept \cup {l \in acked : kind[l] = "footer"})
             a == lines - sinceFlush
             b == a + FlushEvery - 1
  <2>1. TypeOK /\ NothingFailed /\ acked \subseteq 1..Line
    BY DEF IndInv, TypeOK
  <2>2. a \in Int /\ FlushEvery \in Nat /\ FlushEvery > 0 /\ b \in Int
    BY <2>1, LineFacts, StoreAssumption
  <2>3. acked \subseteq 1..b /\ \A m \in 1..a : Ended(file, m, Len(file))
    BY <2>1 DEF NothingFailed
  <2>4. ASSUME NEW x \in lost PROVE x \in (a + 1)..b
    <3>1. x \in 1..Line /\ x \in 1..b /\ kind[x] # "footer" /\ x \notin Recovery.kept
      BY <2>1, <2>3
    <3>2. x \notin 1..a
      BY <2>3, <3>1, EndedIsKept
    <3> HIDE DEF a, b
    <3> QED
      BY <2>2, <3>1, <3>2
  <2>5. /\ IsFiniteSet((a + 1)..b)
        /\ Cardinality((a + 1)..b) = IF a + 1 > b THEN 0 ELSE b - (a + 1) + 1
    <3>1. a + 1 \in Int
      BY <2>2
    <3> HIDE DEF a, b
    <3> QED
      BY <2>2, <3>1, FS_Interval
  <2>6. Cardinality((a + 1)..b) <= FlushEvery - 1 /\ Cardinality((a + 1)..b) \in Nat
    BY <2>2, <2>5
  <2>7. lost \in SUBSET ((a + 1)..b)
    BY <2>4
  <2> HIDE DEF lost, a, b
  <2>8. IsFiniteSet(lost) /\ Cardinality(lost) <= Cardinality((a + 1)..b)
    BY <2>5, <2>7, FS_Subset
  <2>9. Cardinality(lost) \in Nat
    BY <2>8, FS_CardinalityType
  <2> QED
    BY <2>2, <2>6, <2>8, <2>9 DEF lost
<1> QED
  BY <1>1, Inductive, PTL

(* The number of lines in the footer is the number of the footer's own line *)
(* and no line follows it, however many writes failed half way before.      *)
THEOREM FootersCount == Spec => []FooterCountsLines
<1>1. IndInv => FooterCountsLines
  <2> SUFFICES ASSUME IndInv, NEW r \in TextLines(Text), IsFooter(Text, r)
               PROVE  /\ Cardinality(Newlines(Text, r[1] - 1)) + 1 = footerSays
                      /\ \A s \in TextLines(Text) : s[1] <= r[1]
    BY DEF FooterCountsLines
  <2> DEFINE u == Text
  <2>1. TypeOK /\ OneFooter /\ TextOK(u) /\ u \in Seq(Units) /\ Line \in Nat
    BY TextFacts, LineFacts DEF IndInv
  <2> HIDE DEF u
  <2>2. r[1] \in 1..Len(u) /\ u[r[1]] = <<Line, 1>> /\ kind[Line] = "footer"
    BY <2>1, FooterFacts DEF u
  <2>3. Cardinality(Newlines(u, r[1] - 1)) + 1 = footerSays
    <3>1. FooterPlaced(u, r[1]) /\ u[r[1]][1] = Line /\ u[r[1]][2] = 1
      BY <2>1, <2>2 DEF TextOK
    <3> QED
      BY <2>2, <3>1 DEF FooterPlaced
  <2>4. ASSUME NEW s \in TextLines(u), ~(s[1] <= r[1]) PROVE FALSE
    <3>1. /\ s[1] \in 1..Len(u) /\ s[1] \in Nat /\ r[1] \in Nat /\ Len(u) \in Nat
          /\ s[1] = 1 \/ u[s[1] - 1][2] = 0
      BY <2>1, <2>2, TextLineFacts
    <3> DEFINE j == s[1] - 1
    <3>2. /\ r[1] <= j /\ j \in 1..Len(u) /\ j \in 1..(s[1] - 1) /\ u[j][2] = 0 /\ j \in Nat
      BY <2>2, <2>4, <3>1
    <3>3. u[j][1] \in 1..Line /\ u[s[1]][1] \in 1..Line
      BY <2>1, <3>1, <3>2 DEF TextOK, Formed
    <3>4. u[j][1] < u[s[1]][1]
      <4>1. InOrder(u, s[1])
        BY <2>1, <3>1 DEF TextOK
      <4> QED
        BY <3>2, <4>1 DEF InOrder
    <3> HIDE DEF j
    <3>5. r[1] # j
      BY <2>2, <3>2
    <3>6. r[1] \in 1..(j - 1)
      BY <2>2, <3>1, <3>2, <3>5
    <3>7. u[r[1]][1] <= u[j][1] /\ u[r[1]][1] = Line
      <4>1. InOrder(u, j)
        BY <2>1, <3>2 DEF TextOK
      <4> QED
        BY <2>2, <3>6, <4>1 DEF InOrder
    <3> QED
      BY <2>1, <3>3, <3>4, <3>7
  <2> QED
    BY <2>3, <2>4 DEF u
<1> QED
  BY <1>1, Inductive, PTL

(* An interrupted session is recoverable as soon as flush_every lines were  *)
(* acknowledged, and passes for a finished one only when all that was       *)
(* recorded is there.                                                       *)
THEOREM InterruptedIsRecoverable == Spec => []InterruptedRecoverable
<1>1. IndInv => InterruptedRecoverable
  <2> SUFFICES ASSUME IndInv, errors = 0
               PROVE  /\ Cardinality(acked) >= FlushEvery => Recovery.result # "no header"
                      /\ Recovery.result = "has footer" => Recovery.kept = 1..(Line - 1)
    BY DEF InterruptedRecoverable
  <2>1. /\ TypeOK /\ NothingFailed /\ OneFooter /\ file \in Seq(Units) /\ Line \in Nat
        /\ lines \in Nat /\ sinceFlush \in Nat /\ lines <= Line /\ sinceFlush <= lines
        /\ FlushEvery \in Nat
    BY LineFacts, StoreAssumption DEF IndInv, TypeOK
  <2>2. TextOK(file) /\ \A i \in 1..Len(file) : Untorn(file, i)
    BY <2>1, TextFacts, BeginningOK DEF IndInv, NothingFailed
  <2>3. ASSUME Cardinality(acked) >= FlushEvery PROVE Recovery.result # "no header"
    <3> DEFINE a == lines - sinceFlush
    <3>1. a \in Nat /\ a <= Line
      BY <2>1
    <3>2. acked \subseteq 1..(a + FlushEvery - 1) /\ \A m \in 1..a : Ended(file, m, Len(file))
      BY <2>1 DEF NothingFailed
    <3> HIDE DEF a
    <3>3. a # 0
      <4> SUFFICES ASSUME a = 0 PROVE FALSE
        OBVIOUS
      <4>1. FlushEvery - 1 \in Int /\ 1 \in Int /\ a + FlushEvery - 1 = FlushEvery - 1
        BY <2>1
      <4>2. /\ IsFiniteSet(1..(FlushEvery - 1))
            /\ Cardinality(1..(FlushEvery - 1)) =
                 IF 1 > FlushEvery - 1 THEN 0 ELSE (FlushEvery - 1) - 1 + 1
        BY <4>1, FS_Interval
      <4>3. Cardinality(1..(FlushEvery - 1)) <= FlushEvery - 1
        BY <4>2, StoreAssumption
      <4>4. acked \in SUBSET (1..(FlushEvery - 1))
        BY <3>2, <4>1
      <4>5. Cardinality(acked) <= Cardinality(1..(FlushEvery - 1)) /\ IsFiniteSet(acked)
        BY <4>2, <4>4, FS_Subset
      <4>6. Cardinality(acked) \in Nat /\ Cardinality(1..(FlushEvery - 1)) \in Nat
        BY <4>2, <4>5, FS_CardinalityType
      <4> QED
        BY <2>1, <2>3, <4>3, <4>5, <4>6
    <3>4. 1 \in 1..a /\ 1 \in 1..Line /\ Line > 0
      BY <2>1, <3>1, <3>3
    <3>5. kind[1] = "header"
      BY <2>1, <3>4 DEF OneFooter
    <3>6. 1 \in Recovery.kept
      BY <3>2, <3>4, <3>5, EndedIsKept
    <3> QED
      BY <3>5, <3>6 DEF Recovery, recover_session_text
  <2>4. ASSUME Recovery.result = "has footer" PROVE Recovery.kept = 1..(Line - 1)
    <3> PICK r \in TextLines(file) : IsFooter(file, r)
      BY <2>4 DEF Recovery, recover_session_text
    <3>1. r[1] \in 1..Len(file) /\ file[r[1]] = <<Line, 1>> /\ kind[Line] = "footer"
      BY <2>1, <2>2, FooterFacts
    <3>2. ASSUME NEW m \in 1..(Line - 1) PROVE m \in Recovery.kept
      <4>1. Ended(file, m, r[1] - 1)
        BY <2>2, <3>1 DEF Untorn
      <4>2. \A i \in 1..(r[1] - 1) : i \in 1..Len(file)
        BY <2>1, <3>1
      <4>3. Ended(file, m, Len(file))
        BY <4>1, <4>2 DEF Ended
      <4>4. m \in 1..Line /\ m # Line
        BY <2>1
      <4>5. kind[m] # "footer"
        BY <2>1, <4>4 DEF OneFooter
      <4> QED
        BY <4>3, <4>4, <4>5, EndedIsKept
    <3>3. ASSUME NEW m \in Recovery.kept PROVE m \in 1..(Line - 1)
      <4> PICK s \in KeptLines(file) : m = RecordOf(file, s)
        BY <3>3 DEF Recovery, recover_session_text
      <4>1. s \in TextLines(file) /\ s[1] \in 1..Len(file)
        BY <2>1, TextLineFacts DEF KeptLines
      <4>2. s[1] <= s[1]
        BY <2>1, <4>1
      <4>3. Parses(file, s) /\ ~IsFooter(file, s)
        BY <4>1, <4>2 DEF KeptLines
      <4>4. m \in 1..Line
        BY <2>2, <4>1 DEF TextOK, Formed, RecordOf
      <4>5. m # Line
        BY <3>1, <4>3 DEF IsFooter
      <4> QED
        BY <2>1, <4>4, <4>5
    <3> QED
      BY <3>2, <3>3
  <2> QED
    BY <2>3, <2>4
<1> QED
  BY <1>1, Inductive, PTL
=============================================================================
