--------------------------- MODULE CsvReaderProofs ---------------------------
(***************************************************************************)
(* Theorems about CsvReader and about the TickDecoder that it hands its    *)
(* lines to.                                                               *)
(*                                                                         *)
(* CsvReader: for every set of files and every size of the buffer, it      *)
(* implements EventSource with the rows of a file, which are defined       *)
(* without a buffer.                                                       *)
(*                                                                         *)
(* TickDecoder: for every set of lines and whatever parses in them, events *)
(* carry the same symbol exactly if their lines name it.                   *)
(*                                                                         *)
(* CsvFeed: both hold of the two together.                                 *)
(***************************************************************************)
EXTENDS CsvFeed, FiniteSetTheorems, TLAPS

-----------------------------------------------------------------------------
(* The lines and the rows of a file.                                       *)

(* A set of naturals that is not empty has a least element. *)
LEMMA LeastElement ==
    ASSUME NEW S \in SUBSET Nat, S # {}
    PROVE  Min(S) \in S /\ \A y \in S : Min(S) <= y
  <1> DEFINE R == OpToRel(<, Nat)
  <1>1. IsWellFoundedOn(R, Nat)
    BY NatLessThanWellFounded
  <1> HIDE DEF R
  <1>2. PICK x \in S : \A y \in S : ~ (<<y, x>> \in R)
    BY <1>1, WFMin
  <1>3. \A y \in S : x <= y
    <2> TAKE y \in S
    <2>1. ~ (<<y, x>> \in R) /\ x \in Nat /\ y \in Nat
      BY <1>2
    <2>2. y < x => <<y, x>> \in R
      BY <2>1 DEF R, OpToRel
    <2> QED
      BY <2>1, <2>2
  <1> QED
    BY <1>3 DEF Min

(* The ends of lines lie inside the file or just behind it. *)
LEMMA EndsInFile ==
    ASSUME NEW f \in Seq(Bytes)
    PROVE  /\ Ends(f) \subseteq 1 .. Len(f) + 1
           /\ Len(f) + 1 \in Ends(f)
           /\ RowEnds(f) \subseteq Ends(f)
           /\ IsFiniteSet(RowEnds(f)) /\ Cardinality(RowEnds(f)) \in Nat
           /\ \A T \in SUBSET RowEnds(f) : IsFiniteSet(T) /\ Cardinality(T) \in Nat
  <1>1. Len(f) \in Nat
    OBVIOUS
  <1>2. Ends(f) \subseteq 1 .. Len(f) + 1 /\ Len(f) + 1 \in Ends(f)
    BY <1>1 DEF Ends
  <1>3. RowEnds(f) \subseteq Ends(f)
    BY DEF RowEnds
  <1>4. IsFiniteSet(1 .. Len(f) + 1)
    BY <1>1, FS_Interval
  <1>5. RowEnds(f) \in SUBSET (1 .. Len(f) + 1)
    BY <1>2, <1>3
  <1>6. IsFiniteSet(RowEnds(f))
    BY <1>4, <1>5, FS_Subset
  <1>7. \A T \in SUBSET RowEnds(f) : IsFiniteSet(T) /\ Cardinality(T) \in Nat
    BY <1>6, FS_Subset, FS_CardinalityType
  <1> QED
    BY <1>2, <1>3, <1>6, <1>7, FS_CardinalityType

(* e is the end of the line that starts behind p. *)
NextEnd(f, p, e) ==
    /\ p \in 0 .. Len(f) /\ (p = 0 \/ f[p] = "nl")
    /\ e \in Ends(f) /\ p < e
    /\ \A d \in p + 1 .. e - 1 : f[d] # "nl"

(* No line ends between the two. *)
LEMMA NoEndBetween ==
    ASSUME NEW f \in Seq(Bytes), NEW p, NEW e, NextEnd(f, p, e),
           NEW d \in Ends(f)
    PROVE  d <= p \/ d >= e
  <1>1. Len(f) \in Nat /\ e \in 1 .. Len(f) + 1 /\ p \in 0 .. Len(f)
    BY EndsInFile DEF NextEnd
  <1>2. d \in 1 .. Len(f) + 1 /\ (d <= Len(f) => f[d] = "nl")
    BY <1>1 DEF Ends
  <1>3. CASE d \in p + 1 .. e - 1
    BY <1>1, <1>2, <1>3 DEF NextEnd
  <1> QED
    BY <1>1, <1>2, <1>3

(* The text of that line. *)
LEMMA LineFromTo ==
    ASSUME NEW f \in Seq(Bytes), NEW p, NEW e, NextEnd(f, p, e)
    PROVE  Line(f, e) =
              [i \in 1 .. (e - (p + 1) - IF e \in 2 .. Len(f) /\ p + 1 < e /\ f[e - 1] = "cr"
                                         THEN 1 ELSE 0)
                  |-> p + i]
  <1> DEFINE D == {0} \cup {d \in Ends(f) : d < e}
  <1>1. Len(f) \in Nat /\ e \in 1 .. Len(f) + 1 /\ p \in 0 .. Len(f)
    BY EndsInFile DEF NextEnd
  <1>2. p \in D
    BY <1>1 DEF NextEnd, Ends
  <1>3. \A d \in D : d \in Int /\ d <= p
    <2> SUFFICES ASSUME NEW d \in D PROVE d \in Int /\ d <= p
      OBVIOUS
    <2>1. CASE d = 0
      BY <1>1, <2>1
    <2>2. CASE d \in Ends(f) /\ d < e
      BY <1>1, <2>2, NoEndBetween, EndsInFile
    <2> QED
      BY <2>1, <2>2
  <1>4. Max(D) = p
    <2>1. p \in D /\ \A d \in D : p >= d
      BY <1>1, <1>2, <1>3
    <2>2. \A x \in D : (\A d \in D : x >= d) => x = p
      BY <1>1, <1>2, <1>3
    <2> HIDE DEF D
    <2> QED
      BY <2>1, <2>2 DEF Max
  <1> DEFINE cut == IF e \in 2 .. Len(f) /\ p + 1 < e /\ f[e - 1] = "cr" THEN 1 ELSE 0
  <1>5. 1 + Max(D) = p + 1
    BY <1>1, <1>4
  <1>6. Line(f, e) = [i \in 1 .. (e - (p + 1) - cut) |-> p + 1 + i - 1]
    BY <1>5, Zenon DEF Line
  <1> HIDE DEF D
  <1>7. cut \in Int
    OBVIOUS
  <1> HIDE DEF cut
  <1>8. \A i \in 1 .. (e - (p + 1) - cut) : p + 1 + i - 1 = p + i
    BY <1>1, <1>7
  <1>9. [i \in 1 .. (e - (p + 1) - cut) |-> p + 1 + i - 1]
            = [i \in 1 .. (e - (p + 1) - cut) |-> p + i]
    BY <1>8, Zenon
  <1> QED
    BY <1>6, <1>9 DEF cut

(* A line that decodes, with n rows before it, is row n + 1. *)
LEMMA RowAt ==
    ASSUME NEW f \in Seq(Bytes), NEW e \in RowEnds(f), NEW n,
           n = Cardinality({d \in RowEnds(f) : d < e})
    PROVE  /\ n + 1 \in 1 .. Cardinality(RowEnds(f))
           /\ Rows(f)[n + 1] = Line(f, e)
  <1> DEFINE E == RowEnds(f)
             B(x) == {d \in E : d < x}
  <1>1. E \subseteq Nat /\ IsFiniteSet(E) /\ Cardinality(E) \in Nat
        /\ \A T \in SUBSET E : IsFiniteSet(T) /\ Cardinality(T) \in Nat
    <2>1. Len(f) \in Nat
      OBVIOUS
    <2> QED
      BY <2>1, EndsInFile
  <1> HIDE DEF E
  <1>2. ASSUME NEW T \in SUBSET E, NEW b \in SUBSET T, NEW x \in T, x \notin b
        PROVE  Cardinality(b) < Cardinality(T)
    <2>1. IsFiniteSet(T) /\ b # T
      BY <1>1, <1>2
    <2>2. Cardinality(T) \in Nat /\ Cardinality(b) \in Nat
      BY <1>1
    <2>3. Cardinality(b) <= Cardinality(T) /\ Cardinality(T) # Cardinality(b)
      BY <2>1, FS_Subset
    <2> QED
      BY <2>2, <2>3
  <1>3. \A x \in E : B(x) \in SUBSET E /\ x \notin B(x)
    BY <1>1
  <1>4. e \in E /\ n = Cardinality(B(e)) /\ n \in Nat
    <2>1. e \in E /\ n = Cardinality(B(e))
      BY DEF E
    <2> QED
      BY <1>1, <2>1
  <1>5. n < Cardinality(E)
    BY <1>2, <1>3, <1>4
  <1>6. n + 1 \in 1 .. Cardinality(E) /\ (n + 1) - 1 = n
    BY <1>1, <1>4, <1>5
  <1>7. ASSUME NEW x \in E, Cardinality(B(x)) = n PROVE x = e
    <2>1. x \in Nat /\ e \in Nat
      BY <1>1, <1>4
    <2>2. CASE x < e
      <3>1. B(x) \subseteq B(e) /\ x \in B(e)
        <4>1. \A d \in E : d \in Nat
          BY <1>1
        <4>2. e \in E
          BY <1>4
        <4>3. \A d \in E : d < x => d < e
          BY <2>1, <2>2, <4>1, SMT
        <4> QED
          BY <2>2, <4>2, <4>3, Zenon
      <3>2. Cardinality(B(x)) < Cardinality(B(e))
        BY <1>2, <1>3, <1>4, <3>1
      <3>3. n < n
        BY <1>4, <1>7, <3>2
      <3> QED
        BY <1>4, <3>3
    <2>3. CASE e < x
      <3>1. B(e) \subseteq B(x) /\ e \in B(x)
        <4>1. \A d \in E : d \in Nat
          BY <1>1
        <4>2. e \in E
          BY <1>4
        <4>3. \A d \in E : d < e => d < x
          BY <2>1, <2>3, <4>1, SMT
        <4> QED
          BY <2>3, <4>2, <4>3, Zenon
      <3>2. Cardinality(B(e)) < Cardinality(B(x))
        BY <1>2, <1>3, <1>4, <3>1
      <3>3. n < n
        BY <1>4, <1>7, <3>2
      <3> QED
        BY <1>4, <3>3
    <2> QED
      BY <2>1, <2>2, <2>3
  <1>8. (CHOOSE x \in E : Cardinality({d \in E : d < x}) = (n + 1) - 1) = e
    BY <1>4, <1>6, <1>7
  <1>9. Rows(f)[n + 1]
            = Line(f, CHOOSE x \in E : Cardinality({d \in E : d < x}) = (n + 1) - 1)
    BY <1>6 DEF Rows, E
  <1> QED
    BY <1>6, <1>8, <1>9 DEF E

(* How far a reader has come that has read the first p bytes: at the end   *)
(* of the file the last line is behind it too.                             *)
Reached(f, p) == IF p = Len(f) THEN Len(f) + 1 ELSE p

(* The rows behind it. *)
PassedBy(f, p) == {e \in RowEnds(f) : e <= Reached(f, p)}

(* There are as many rows as there are ends of rows, and at the end of the *)
(* file all are behind.                                                    *)
LEMMA AllPassed ==
    ASSUME NEW f \in Seq(Bytes)
    PROVE  /\ Len(Rows(f)) = Cardinality(RowEnds(f))
           /\ DOMAIN Rows(f) = 1 .. Len(Rows(f))
           /\ PassedBy(f, Len(f)) = RowEnds(f)
           /\ PassedBy(f, 0) = {}
           /\ \A p \in 0 .. Len(f) : Cardinality(PassedBy(f, p)) \in Nat
  <1>1. Len(f) \in Nat /\ Cardinality(RowEnds(f)) \in Nat /\ RowEnds(f) \subseteq 1 .. Len(f) + 1
    BY EndsInFile
  <1>2. Len(Rows(f)) = Cardinality(RowEnds(f)) /\ DOMAIN Rows(f) = 1 .. Len(Rows(f))
    BY <1>1 DEF Rows
  <1>3. PassedBy(f, Len(f)) = RowEnds(f)
    BY <1>1 DEF PassedBy, Reached
  <1>4. PassedBy(f, 0) = {}
    <2>1. CASE Len(f) = 0
      <3>1. Ends(f) = {1}
        BY <2>1 DEF Ends
      <3>2. Min(Ends(f)) = 1
        BY <3>1, LeastElement
      <3> QED
        BY <3>1, <3>2 DEF RowEnds, PassedBy
    <2>2. CASE Len(f) # 0
      BY <1>1, <2>2 DEF PassedBy, Reached
    <2> QED
      BY <2>1, <2>2
  <1>5. \A p \in 0 .. Len(f) : Cardinality(PassedBy(f, p)) \in Nat
    BY EndsInFile DEF PassedBy
  <1> QED
    BY <1>2, <1>3, <1>4, <1>5

(* Behind a last newline there is no row. *)
LEMMA NothingBehindNewline ==
    ASSUME NEW f \in Seq(Bytes), Len(f) > 0, f[Len(f)] = "nl"
    PROVE  Len(f) + 1 \notin RowEnds(f)
  <1>1. Len(f) \in Nat
    OBVIOUS
  <1>2. NextEnd(f, Len(f), Len(f) + 1)
    BY <1>1, EndsInFile DEF NextEnd
  <1> DEFINE l == Len(f)
  <1>3. Line(f, l + 1) =
            [i \in 1 .. ((l + 1) - (l + 1) - IF l + 1 \in 2 .. l /\ l + 1 < l + 1
                                                    /\ f[(l + 1) - 1] = "cr"
                                                THEN 1 ELSE 0) |-> l + i]
    BY <1>2, LineFromTo, Zenon
  <1>4. ~ (l + 1 \in 2 .. l /\ l + 1 < l + 1 /\ f[(l + 1) - 1] = "cr")
        /\ (l + 1) - (l + 1) - 0 = 0 /\ 1 .. 0 = {}
    BY <1>1
  <1>5. Line(f, l + 1) = [i \in {} |-> l + i]
    BY <1>3, <1>4
  <1>6. Line(f, l + 1) = <<>>
    BY <1>5
  <1> QED
    BY <1>6 DEF RowEnds, IsRow

(* Reading on from p to the end of its line, over a row or not.  The first *)
(* line is none; every later one is a row if it decodes.                   *)
LEMMA LinePassed ==
    ASSUME NEW f \in Seq(Bytes), NEW p, NEW e, NextEnd(f, p, e), p # Len(f),
           NEW q, q = IF e <= Len(f) THEN e ELSE Len(f)
    PROVE  /\ q \in 1 .. Len(f) /\ (q = Len(f) \/ f[q] = "nl")
           /\ Cardinality(PassedBy(f, p)) \in Nat
           /\ e \in RowEnds(f) =>
                /\ Cardinality(PassedBy(f, q)) = Cardinality(PassedBy(f, p)) + 1
                /\ Rows(f)[Cardinality(PassedBy(f, p)) + 1] = Line(f, e)
           /\ e \notin RowEnds(f) =>
                Cardinality(PassedBy(f, q)) = Cardinality(PassedBy(f, p))
           /\ p = 0 => e \notin RowEnds(f)
           /\ p # 0 => (e \in RowEnds(f) <=> IsRow(f, Line(f, e)))
  <1> DEFINE l == Len(f)
             E == RowEnds(f)
             P == PassedBy(f, p)
             Q == PassedBy(f, q)
  <1>1. l \in Nat /\ e \in 1 .. l + 1 /\ p \in 0 .. l - 1 /\ p < e
    BY EndsInFile DEF NextEnd
  <1>2. /\ \A d \in E : d \in 1 .. l + 1 /\ (d <= p \/ d >= e)
        /\ IsFiniteSet(P) /\ Cardinality(P) \in Nat
    <2>1. E \subseteq Ends(f) /\ Ends(f) \subseteq 1 .. l + 1 /\ P \in SUBSET E
      BY EndsInFile DEF PassedBy
    <2>2. IsFiniteSet(P) /\ Cardinality(P) \in Nat
      BY <2>1, EndsInFile
    <2>3. \A d \in Ends(f) : d <= p \/ d >= e
      BY NoEndBetween
    <2> QED
      BY <2>1, <2>2, <2>3
  <1>3. q \in 1 .. l /\ (q = l \/ f[q] = "nl")
    BY <1>1 DEF NextEnd, Ends
  <1>4. P = {d \in E : d <= p}
    BY <1>1 DEF PassedBy, Reached
  <1>5. P = {d \in E : d < e}
    <2>1. \A d \in E : d <= p <=> d < e
      BY <1>1, <1>2
    <2> QED
      BY <1>4, <2>1
  <1>6. Q = {d \in E : d <= e}
    <2>1. CASE e < l
      <3>1. Reached(f, q) = e
        BY <1>1, <2>1 DEF Reached
      <3> QED
        BY <3>1 DEF PassedBy
    <2>2. CASE e = l
      <3>1. Reached(f, q) = l + 1
        BY <1>1, <2>2 DEF Reached
      <3>2. f[l] = "nl" /\ l > 0
        BY <1>1, <2>2 DEF NextEnd, Ends
      <3>3. l + 1 \notin E
        BY <3>2, NothingBehindNewline
      <3>4. \A d \in E : d <= l + 1 <=> d <= e
        BY <1>1, <1>2, <2>2, <3>3
      <3> QED
        BY <3>1, <3>4 DEF PassedBy
    <2>3. CASE e = l + 1
      <3>1. Reached(f, q) = e
        BY <1>1, <2>3 DEF Reached
      <3> QED
        BY <3>1 DEF PassedBy
    <2> QED
      BY <1>1, <2>1, <2>2, <2>3
  <1>7. e \notin P /\ Q = IF e \in E THEN P \cup {e} ELSE P
    <2>1. \A d \in E : d <= e <=> d < e \/ d = e
      BY <1>1, <1>2
    <2>2. ~ (e < e) /\ e <= e
      BY <1>1
    <2>3. e \notin P
      BY <1>5, <2>2, Zenon
    <2>4. Q = P \cup ({e} \cap E)
      <3> HIDE DEF E, P, Q
      <3> QED
        BY <1>5, <1>6, <2>1, Zenon
    <2> QED
      BY <2>3, <2>4, Zenon
  <1>8. e \in E => Cardinality(Q) = Cardinality(P) + 1
    BY <1>2, <1>7, FS_AddElement
  <1>9. e \in E => Rows(f)[Cardinality(P) + 1] = Line(f, e)
    BY <1>5, RowAt
  <1>10. e \notin E => Cardinality(Q) = Cardinality(P)
    BY <1>7
  <1>11. Min(Ends(f)) \in Ends(f) /\ \A d \in Ends(f) : Min(Ends(f)) <= d
    <2>1. Ends(f) \in SUBSET Nat /\ Ends(f) # {}
      BY <1>1, EndsInFile
    <2> QED
      BY <2>1, LeastElement
  <1>12. e \in Ends(f) /\ Ends(f) \subseteq 1 .. l + 1
    BY EndsInFile DEF NextEnd
  <1>13. p = 0 => e = Min(Ends(f))
    <2>1. \A d \in Ends(f) : d <= p \/ d >= e
      BY NoEndBetween
    <2> QED
      BY <1>1, <1>11, <1>12, <2>1
  <1>14. p # 0 => e # Min(Ends(f))
    <2>1. p # 0 => p \in Ends(f)
      BY <1>1 DEF NextEnd, Ends
    <2> QED
      BY <1>1, <1>11, <1>12, <2>1
  <1>15. p = 0 => e \notin E
    BY <1>13 DEF RowEnds
  <1>16. p # 0 => (e \in E <=> IsRow(f, Line(f, e)))
    BY <1>12, <1>14 DEF RowEnds
  <1> HIDE DEF E, P, Q, l
  <1> QED
    BY <1>2, <1>3, <1>8, <1>9, <1>10, <1>15, <1>16, Zenon DEF E, P, Q, l

-----------------------------------------------------------------------------
(* The inductive invariant.                                                *)

(* How much of the file was cut into lines. *)
Cursor == offset - Len(buffer) + buffer_pos

(* The buffer is a window of the file that ends where the reading stopped, *)
(* and the end is noticed only at the end.                                 *)
BufferIsWindow ==
    /\ Len(buffer) <= offset
    /\ \A i \in 1 .. Len(buffer) : buffer[i] = offset - Len(buffer) + i
    /\ is_eof => offset = Len(file)
    /\ is_open => capacity > 0

(* The cursor is where a line starts, behind the header unless that is     *)
(* looked for.                                                             *)
CursorAtLine ==
    /\ Cursor = 0 \/ Cursor = Len(file) \/ file[Cursor] = "nl"
    /\ task = "header" => Cursor = 0 /\ taken = 0
    /\ task # "header" => Cursor > 0 \/ Cursor = Len(file)

(* The rows behind the cursor are those that were handed out and, between  *)
(* calls, the one read ahead; without one the file is used up.             *)
RowsInOrder ==
    /\ task = "row" => ~ has_next /\ Cardinality(PassedBy(file, Cursor)) = taken
    /\ task = "none" /\ has_next =>
            /\ Cardinality(PassedBy(file, Cursor)) = taken + 1
            /\ next_event = rows[taken + 1]
    /\ task = "none" /\ ~ has_next =>
            /\ Cardinality(PassedBy(file, Cursor)) = taken
            /\ Cursor = Len(file)

FileIsKnown ==
    /\ file \in Files \cup {<<>>}
    /\ rows = Rows(file)
    /\ is_open => opened

CsvInv ==
    /\ TypeOK
    /\ FileIsKnown
    /\ BufferIsWindow
    /\ CursorAtLine
    /\ RowsInOrder

(* What is left in the buffer is the file from the cursor on. *)
LEMMA RestIsWindow ==
    ASSUME TypeOK, BufferIsWindow
    PROVE  /\ Cursor \in 0 .. offset /\ offset \in 0 .. Len(file) /\ Len(file) \in Nat
           /\ Rest \in Seq(1 .. Len(file))
           /\ Len(Rest) = offset - Cursor
           /\ Len(Rest) = Len(buffer) - buffer_pos
           /\ \A i \in 1 .. Len(Rest) : Rest[i] = Cursor + i
  <1>1. /\ file \in Seq(Bytes) /\ buffer \in Seq(1 .. Len(file))
        /\ Len(file) \in Nat /\ Len(buffer) \in Nat
        /\ offset \in 0 .. Len(file) /\ buffer_pos \in 0 .. Len(buffer)
    BY DEF TypeOK
  <1>2. Len(buffer) <= offset
        /\ \A i \in 1 .. Len(buffer) : buffer[i] = offset - Len(buffer) + i
    BY DEF BufferIsWindow
  <1>3. Cursor \in 0 .. offset /\ offset - Cursor = Len(buffer) - buffer_pos
    BY <1>1, <1>2 DEF Cursor
  <1>4. /\ Rest \in Seq(1 .. Len(file))
        /\ Len(Rest) = Len(buffer) - buffer_pos
        /\ \A i \in 1 .. Len(Rest) : Rest[i] = buffer[buffer_pos + i]
    BY <1>1 DEF Rest
  <1>5. \A i \in 1 .. Len(Rest) : Rest[i] = Cursor + i
    BY <1>1, <1>2, <1>4 DEF Cursor
  <1> QED
    BY <1>1, <1>3, <1>4, <1>5

(* The first n elements of a sequence. *)
LEMMA PrefixOf ==
    ASSUME NEW S, NEW s \in Seq(S), NEW n \in 0 .. Len(s)
    PROVE  /\ SubSeq(s, 1, n) \in Seq(S)
           /\ Len(SubSeq(s, 1, n)) = n
           /\ \A i \in 1 .. n : SubSeq(s, 1, n)[i] = s[i]
           /\ n = 0 => SubSeq(s, 1, n) = <<>>
           /\ n # 0 => SubSeq(s, 1, n) # <<>>
  OBVIOUS

(* The line up to the first newline left in the buffer is the line of the  *)
(* file that starts at the cursor, less its carriage return.               *)
LEMMA CutIsLine ==
    ASSUME TypeOK, BufferIsWindow, CursorAtLine, Newlines # {},
           NEW k, k = Min(Newlines)
    PROVE  /\ k \in 1 .. Len(Rest)
           /\ NextEnd(file, Cursor, Cursor + k)
           /\ Cursor + k <= Len(file)
           /\ WithoutCr(SubSeq(Rest, 1, k - 1)) = Line(file, Cursor + k)
  <1>1. PICK p, e : p = Cursor /\ e = Cursor + k
    OBVIOUS
  <1>2. /\ p \in 0 .. offset /\ offset \in 0 .. Len(file) /\ Len(file) \in Nat
        /\ Rest \in Seq(1 .. Len(file)) /\ Len(Rest) = offset - p
        /\ \A i \in 1 .. Len(Rest) : Rest[i] = p + i
    BY <1>1, RestIsWindow
  <1>3. k \in Newlines /\ \A j \in Newlines : k <= j
    <2>1. Newlines \in SUBSET Nat
      BY <1>2 DEF Newlines
    <2> QED
      BY <2>1, LeastElement
  <1>4. k \in 1 .. Len(Rest) /\ file[p + k] = "nl"
    BY <1>2, <1>3 DEF Newlines
  <1>5. /\ e \in 1 .. Len(file) /\ p < e /\ e = p + k /\ p < Len(file)
        /\ p \in Nat /\ k \in Nat \ {0} /\ e \in Nat
    BY <1>1, <1>2, <1>4
  <1>6. \A d \in p + 1 .. e - 1 : file[d] # "nl"
    <2> SUFFICES ASSUME NEW d \in p + 1 .. e - 1, file[d] = "nl" PROVE FALSE
      OBVIOUS
    <2>1. d - p \in 1 .. Len(Rest) /\ d - p < k /\ p + (d - p) = d
      BY <1>2, <1>4, <1>5
    <2>2. d - p \in Newlines
      BY <1>2, <2>1 DEF Newlines
    <2> QED
      BY <1>3, <1>4, <2>1, <2>2
  <1>7. NextEnd(file, p, e)
    <2>1. e \in Ends(file)
      BY <1>1, <1>4, <1>5 DEF Ends
    <2>2. p = 0 \/ file[p] = "nl"
      BY <1>1, <1>2, <1>5 DEF CursorAtLine
    <2> QED
      BY <1>2, <1>5, <1>6, <2>1, <2>2 DEF NextEnd
  <1> DEFINE m == SubSeq(Rest, 1, k - 1)
             cr == k > 1 /\ file[e - 1] = "cr"
             n == k - 1 - IF cr THEN 1 ELSE 0
  <1>8. /\ m \in Seq(1 .. Len(file)) /\ Len(m) = k - 1
        /\ \A i \in 1 .. k - 1 : m[i] = p + i
        /\ (k = 1 => m = <<>>) /\ (k > 1 => m # <<>>)
    <2>1. k - 1 \in 0 .. Len(Rest) /\ k \in Nat
      BY <1>2, <1>4
    <2>2. /\ m \in Seq(1 .. Len(file)) /\ Len(m) = k - 1
          /\ \A i \in 1 .. k - 1 : m[i] = Rest[i]
          /\ (k - 1 = 0 => m = <<>>) /\ (k - 1 # 0 => m # <<>>)
      BY <1>2, <2>1, PrefixOf
    <2>3. \A i \in 1 .. k - 1 : i \in 1 .. Len(Rest)
      BY <1>2, <2>1
    <2> HIDE DEF m
    <2>4. \A i \in 1 .. k - 1 : m[i] = p + i
      BY <1>2, <2>2, <2>3, Zenon
    <2>5. (k = 1 => k - 1 = 0) /\ (k > 1 => k - 1 # 0)
      BY <1>5
    <2> QED
      BY <2>2, <2>4, <2>5, Zenon
  <1>9. Line(file, e) = [i \in 1 .. n |-> p + i]
    <2>1. file \in Seq(Bytes)
      BY DEF TypeOK
    <2>2. Line(file, e) =
              [i \in 1 .. (e - (p + 1) - IF e \in 2 .. Len(file) /\ p + 1 < e
                                            /\ file[e - 1] = "cr"
                                         THEN 1 ELSE 0) |-> p + i]
      BY <1>7, <2>1, LineFromTo
    <2>3. (e \in 2 .. Len(file) /\ p + 1 < e /\ file[e - 1] = "cr") <=> cr
      BY <1>2, <1>4, <1>5
    <2>4. e - (p + 1) = k - 1
      BY <1>2, <1>4, <1>5
    <2> HIDE DEF cr
    <2> QED
      BY <2>2, <2>3, <2>4
  <1>10. WithoutCr(m) = [i \in 1 .. n |-> p + i]
    <2>1. CASE k = 1
      <3>1. ~ cr /\ n = 0 /\ 1 .. n = {}
        BY <2>1
      <3>2. m = <<>>
        BY <1>8, <2>1
      <3>3. WithoutCr(m) = <<>>
        BY <3>2 DEF WithoutCr
      <3> QED
        BY <3>1, <3>3
    <2>2. CASE k > 1
      <3> HIDE DEF m
      <3>1. m # <<>> /\ Last(m) = e - 1
        <4>1. k - 1 \in 1 .. k - 1 /\ p + (k - 1) = e - 1
          BY <1>5, <2>2
        <4> QED
          BY <1>8, <2>2, <4>1 DEF Last
      <3>2. CASE cr
        <4>1. n = k - 2 /\ file[Last(m)] = "cr"
          BY <1>4, <3>1, <3>2
        <4>2. WithoutCr(m) = Front(m)
          BY <3>1, <4>1 DEF WithoutCr
        <4>3. Front(m) = SubSeq(m, 1, k - 2)
          BY <1>4, <1>8 DEF Front
        <4>4. SubSeq(m, 1, k - 2) = [i \in 1 .. k - 2 |-> p + i]
          BY <1>4, <1>8, <2>2
        <4> QED
          BY <4>1, <4>2, <4>3, <4>4
      <3>3. CASE ~ cr
        <4>1. n = k - 1 /\ file[Last(m)] # "cr"
          BY <1>4, <2>2, <3>1, <3>3
        <4>2. WithoutCr(m) = m
          BY <4>1 DEF WithoutCr
        <4>3. m = [i \in 1 .. k - 1 |-> p + i]
          BY <1>4, <1>8
        <4> QED
          BY <4>1, <4>2, <4>3
      <3> QED
        BY <3>2, <3>3
    <2> QED
      BY <1>2, <1>4, <2>1, <2>2
  <1> QED
    BY <1>1, <1>4, <1>5, <1>7, <1>9, <1>10

(* Without a newline and at the end of the file, what is left in the       *)
(* buffer is the last line.                                                *)
LEMMA RestIsLine ==
    ASSUME TypeOK, BufferIsWindow, CursorAtLine, Newlines = {}, is_eof, Rest # <<>>
    PROVE  /\ Cursor < Len(file)
           /\ NextEnd(file, Cursor, Len(file) + 1)
           /\ Rest = Line(file, Len(file) + 1)
  <1>1. PICK p, l : p = Cursor /\ l = Len(file)
    OBVIOUS
  <1>2. /\ p \in Nat /\ l \in Nat /\ offset = l /\ p <= l
        /\ Rest \in Seq(1 .. l) /\ Len(Rest) = l - p
        /\ \A i \in 1 .. l - p : Rest[i] = p + i
    <2>1. offset = l
      BY <1>1 DEF BufferIsWindow
    <2> QED
      BY <1>1, <2>1, RestIsWindow
  <1>3. p < l
    <2>1. Len(Rest) # 0
      BY <1>2
    <2> QED
      BY <1>2, <2>1
  <1>4. \A d \in p + 1 .. l : file[d] # "nl"
    <2> SUFFICES ASSUME NEW d \in p + 1 .. l, file[d] = "nl" PROVE FALSE
      OBVIOUS
    <2>1. d - p \in 1 .. l - p /\ p + (d - p) = d
      BY <1>2
    <2>2. d - p \in Newlines
      BY <1>2, <2>1 DEF Newlines
    <2> QED
      BY <2>2
  <1>5. file \in Seq(Bytes)
    BY DEF TypeOK
  <1>6. NextEnd(file, p, l + 1)
    <2>1. l + 1 \in Ends(file)
      BY <1>1, <1>5, EndsInFile
    <2>2. p = 0 \/ file[p] = "nl"
      BY <1>1, <1>3 DEF CursorAtLine
    <2>3. (l + 1) - 1 = l /\ p < l + 1 /\ p \in 0 .. l
      BY <1>2
    <2> QED
      BY <1>1, <1>4, <2>1, <2>2, <2>3 DEF NextEnd
  <1>7. Line(file, l + 1) = [i \in 1 .. l - p |-> p + i]
    <2>1. Line(file, l + 1) =
              [i \in 1 .. ((l + 1) - (p + 1) - IF l + 1 \in 2 .. Len(file) /\ p + 1 < l + 1
                                                  /\ file[(l + 1) - 1] = "cr"
                                               THEN 1 ELSE 0) |-> p + i]
      BY <1>5, <1>6, LineFromTo, Zenon
    <2>2. ~ (l + 1 \in 2 .. Len(file)) /\ (l + 1) - (p + 1) - 0 = l - p
      BY <1>1, <1>2
    <2> QED
      BY <2>1, <2>2
  <1>8. Rest = [i \in 1 .. l - p |-> p + i]
    BY <1>2
  <1> QED
    BY <1>1, <1>3, <1>6, <1>7, <1>8

(* read_line has found the line that ends at e, and the cursor moves to q. *)
LEMMA FoundInOrder ==
    ASSUME CsvInv, task # "none", Cursor # Len(file),
           NEW e, NextEnd(file, Cursor, e), LineFound(Line(file, e)),
           NEW q, q = IF e <= Len(file) THEN e ELSE Len(file), Cursor' = q,
           file' = file, rows' = rows, taken' = taken
    PROVE  /\ CursorAtLine' /\ RowsInOrder'
           /\ has_next' \in BOOLEAN /\ task' \in {"none", "row"}
  <1>1. PICK p, n : p = Cursor /\ n = Cardinality(PassedBy(file, Cursor))
    OBVIOUS
  <1>2. file \in Seq(Bytes) /\ task \in {"none", "header", "row"} /\ Len(file) \in Nat
    BY DEF CsvInv, TypeOK
  <1>3. /\ q \in 1 .. Len(file) /\ (q = Len(file) \/ file[q] = "nl")
        /\ n \in Nat
        /\ e \in RowEnds(file) =>
                /\ Cardinality(PassedBy(file, q)) = n + 1
                /\ Rows(file)[n + 1] = Line(file, e)
        /\ e \notin RowEnds(file) => Cardinality(PassedBy(file, q)) = n
        /\ p = 0 => e \notin RowEnds(file)
        /\ p # 0 => (e \in RowEnds(file) <=> IsRow(file, Line(file, e)))
    BY <1>1, <1>2, LinePassed, Zenon
  <1>4. /\ task = "header" => p = 0 /\ taken = 0
        /\ task = "row" => p # 0 /\ n = taken
    BY <1>1 DEF CsvInv, CursorAtLine, RowsInOrder
  <1>5. task = "header" => n = 0
    <2>1. Cardinality(PassedBy(file, 0)) = 0
      BY <1>2, AllPassed, FS_EmptySet
    <2> QED
      BY <1>1, <1>4, <2>1
  <1>6. n = taken
    BY <1>2, <1>4, <1>5
  <1>7. q > 0 /\ q \in Nat
    BY <1>2, <1>3
  <1>8. rows = Rows(file)
    BY DEF CsvInv, FileIsKnown
  <1>9. CASE e \in RowEnds(file)
    <2>1. task = "row" /\ IsRow(file, Line(file, e))
      BY <1>2, <1>3, <1>4, <1>9
    <2>2. next_event' = Line(file, e) /\ has_next' = TRUE /\ task' = "none"
      BY <2>1 DEF LineFound, IsRow, Decodes
    <2>3. has_next' /\ has_next' \in BOOLEAN
      BY <2>2, Zenon
    <2>4. Cardinality(PassedBy(file, q)) = taken + 1 /\ next_event' = rows[taken + 1]
      BY <1>3, <1>6, <1>8, <1>9, <2>2
    <2>5. RowsInOrder'
      BY <2>2, <2>3, <2>4 DEF RowsInOrder
    <2>6. CursorAtLine'
      BY <1>3, <1>7, <2>2 DEF CursorAtLine
    <2> QED
      BY <2>2, <2>3, <2>5, <2>6
  <1>10. CASE e \notin RowEnds(file)
    <2>1. ~ (task = "row" /\ IsRow(file, Line(file, e)))
      BY <1>3, <1>4, <1>10
    <2>2. has_next' = FALSE /\ task' = "row"
      BY <2>1 DEF LineFound, IsRow, Decodes
    <2>3. ~ has_next' /\ has_next' \in BOOLEAN
      BY <2>2, Zenon
    <2>4. Cardinality(PassedBy(file, q)) = taken
      BY <1>3, <1>6, <1>10
    <2>5. RowsInOrder'
      BY <2>2, <2>3, <2>4 DEF RowsInOrder
    <2>6. CursorAtLine'
      BY <1>3, <1>7, <2>2 DEF CursorAtLine
    <2> QED
      BY <2>2, <2>3, <2>5, <2>6
  <1> QED
    BY <1>9, <1>10

(* The invariant holds of a reader that was just made. *)
LEMMA CsvInvInit == Init => CsvInv
  <1> SUFFICES ASSUME Init PROVE CsvInv
    OBVIOUS
  <1>1. /\ ~ is_open /\ ~ is_eof /\ ~ has_next /\ opened
        /\ is_open \in BOOLEAN /\ is_eof \in BOOLEAN /\ has_next \in BOOLEAN
        /\ opened \in BOOLEAN /\ crashed \in BOOLEAN
    BY Zenon DEF Init
  <1>2. /\ file = <<>> /\ rows = <<>> /\ offset = 0 /\ buffer = <<>>
        /\ capacity = 0 /\ buffer_pos = 0 /\ task = "none" /\ taken = 0 /\ opens = 0
    BY DEF Init
  <1>3. <<>> \in Seq(Bytes) /\ Len(<<>>) = 0 /\ <<>> \in Seq(1 .. Len(<<>>))
    OBVIOUS
  <1>4. TypeOK
    BY <1>1, <1>2, <1>3, CsvAssumption DEF TypeOK
  <1>5. Cursor = 0
    <2>1. Len(buffer) = 0
      BY <1>2, <1>3
    <2>2. offset = 0 /\ buffer_pos = 0
      BY <1>2
    <2> QED
      BY <2>1, <2>2 DEF Cursor
  <1>6. PassedBy(<<>>, 0) = {} /\ RowEnds(<<>>) = {}
    <2>1. PassedBy(<<>>, Len(<<>>)) = RowEnds(<<>>) /\ PassedBy(<<>>, 0) = {}
      BY <1>3, AllPassed, Zenon
    <2> QED
      BY <1>3, <2>1, Zenon
  <1>7. Cardinality(RowEnds(<<>>)) = 0 /\ Cardinality(PassedBy(<<>>, 0)) = 0
    BY <1>6, FS_EmptySet
  <1>8. Rows(<<>>) = <<>>
    BY <1>7 DEF Rows
  <1>9. FileIsKnown
    BY <1>1, <1>2, <1>8 DEF FileIsKnown
  <1>10. BufferIsWindow
    BY <1>1, <1>2 DEF BufferIsWindow
  <1>11. CursorAtLine
    BY <1>2, <1>5 DEF CursorAtLine
  <1>12. RowsInOrder
    BY <1>1, <1>2, <1>5, <1>7 DEF RowsInOrder
  <1> QED
    BY <1>4, <1>9, <1>10, <1>11, <1>12 DEF CsvInv

(* Cutting a line that ends with a newline. *)
LEMMA CutLineKeeps ==
    ASSUME CsvInv, task # "none", CutLine
    PROVE  CsvInv'
  <1>1. TypeOK /\ BufferIsWindow /\ CursorAtLine
    BY DEF CsvInv
  <1>2. PICK k : k = Min(Newlines)
    OBVIOUS
  <1>3. /\ Newlines # {}
        /\ LineFound(WithoutCr(SubSeq(Rest, 1, k - 1)))
        /\ buffer_pos' = buffer_pos + k
        /\ UNCHANGED <<offset, buffer, capacity, is_eof, callerVars, crashed>>
    BY <1>2 DEF CutLine
  <1>4. /\ k \in 1 .. Len(Rest)
        /\ NextEnd(file, Cursor, Cursor + k)
        /\ Cursor + k <= Len(file)
        /\ WithoutCr(SubSeq(Rest, 1, k - 1)) = Line(file, Cursor + k)
    BY <1>1, <1>2, <1>3, CutIsLine
  <1>5. /\ offset' = offset /\ buffer' = buffer /\ capacity' = capacity /\ is_eof' = is_eof
        /\ is_open' = is_open /\ file' = file /\ rows' = rows /\ taken' = taken
        /\ opened' = opened /\ opens' = opens /\ crashed' = crashed
    BY <1>3 DEF callerVars
  <1>6. /\ Cursor \in Nat /\ Len(file) \in Nat
        /\ Len(Rest) = Len(buffer) - buffer_pos /\ Len(buffer) \in Nat
        /\ offset \in Nat /\ buffer_pos \in Nat
    BY <1>1, RestIsWindow DEF TypeOK
  <1>7. k \in Nat \ {0} /\ buffer_pos' \in 0 .. Len(buffer)
    BY <1>3, <1>4, <1>6
  <1>8. Cursor' = Cursor + k
    BY <1>3, <1>5, <1>6, <1>7 DEF Cursor
  <1>9. PICK e : e = Cursor + k
    OBVIOUS
  <1>10. /\ Cursor # Len(file) /\ NextEnd(file, Cursor, e) /\ LineFound(Line(file, e))
         /\ e = IF e <= Len(file) THEN e ELSE Len(file)
         /\ Cursor' = e
    BY <1>3, <1>4, <1>6, <1>7, <1>8, <1>9
  <1>11. /\ CursorAtLine' /\ RowsInOrder'
         /\ has_next' \in BOOLEAN /\ task' \in {"none", "row"}
    BY <1>5, <1>10, FoundInOrder
  <1>12. TypeOK'
    BY <1>1, <1>5, <1>7, <1>11 DEF TypeOK
  <1>13. FileIsKnown' /\ BufferIsWindow'
    BY <1>5 DEF CsvInv, FileIsKnown, BufferIsWindow
  <1> QED
    BY <1>11, <1>12, <1>13 DEF CsvInv

(* Cutting the last line, which ends with the file. *)
LEMMA CutRestKeeps ==
    ASSUME CsvInv, task # "none", CutRest
    PROVE  CsvInv'
  <1>1. TypeOK /\ BufferIsWindow /\ CursorAtLine
    BY DEF CsvInv
  <1>2. /\ Newlines = {} /\ is_eof /\ Rest # <<>>
        /\ LineFound(Rest)
        /\ buffer_pos' = Len(buffer)
        /\ UNCHANGED <<offset, buffer, capacity, is_eof, callerVars, crashed>>
    BY DEF CutRest
  <1>3. PICK e, q : e = Len(file) + 1 /\ q = Len(file)
    OBVIOUS
  <1>4. /\ Cursor < Len(file)
        /\ NextEnd(file, Cursor, e)
        /\ Rest = Line(file, e)
    BY <1>1, <1>2, <1>3, RestIsLine
  <1>5. /\ offset' = offset /\ buffer' = buffer /\ capacity' = capacity /\ is_eof' = is_eof
        /\ is_open' = is_open /\ file' = file /\ rows' = rows /\ taken' = taken
        /\ opened' = opened /\ opens' = opens /\ crashed' = crashed
    BY <1>2 DEF callerVars
  <1>6. Cursor \in Nat /\ Len(file) \in Nat /\ Len(buffer) \in Nat /\ offset \in Nat
    BY <1>1, RestIsWindow DEF TypeOK
  <1>7. offset = Len(file)
    BY <1>1, <1>2 DEF BufferIsWindow
  <1>8. Cursor' = q
    BY <1>2, <1>3, <1>5, <1>6, <1>7 DEF Cursor
  <1>9. Cursor # Len(file) /\ LineFound(Line(file, e))
        /\ q = IF e <= Len(file) THEN e ELSE Len(file)
    BY <1>2, <1>3, <1>4, <1>6
  <1>10. /\ CursorAtLine' /\ RowsInOrder'
         /\ has_next' \in BOOLEAN /\ task' \in {"none", "row"}
    BY <1>4, <1>5, <1>8, <1>9, FoundInOrder
  <1>11. buffer_pos' \in 0 .. Len(buffer)
    BY <1>2, <1>6
  <1>12. TypeOK'
    BY <1>1, <1>5, <1>10, <1>11 DEF TypeOK
  <1>13. FileIsKnown' /\ BufferIsWindow'
    BY <1>5 DEF CsvInv, FileIsKnown, BufferIsWindow
  <1> QED
    BY <1>10, <1>12, <1>13 DEF CsvInv

(* The end of the file: all rows are behind the cursor. *)
LEMMA NoLineKeeps ==
    ASSUME CsvInv, task # "none", NoLine
    PROVE  CsvInv'
  <1>1. TypeOK /\ BufferIsWindow /\ CursorAtLine /\ RowsInOrder
    BY DEF CsvInv
  <1>2. /\ Rest = <<>> /\ is_eof
        /\ task' = "none"
        /\ UNCHANGED <<lineVars, callerVars, next_event, crashed>>
    BY DEF NoLine
  <1>3. ~ has_next' /\ has_next' \in BOOLEAN
    <2>1. has_next' = FALSE
      BY DEF NoLine
    <2> QED
      BY <2>1, Zenon
  <1>4. /\ offset' = offset /\ buffer' = buffer /\ capacity' = capacity /\ is_eof' = is_eof
        /\ buffer_pos' = buffer_pos
        /\ is_open' = is_open /\ file' = file /\ rows' = rows /\ taken' = taken
        /\ opened' = opened /\ opens' = opens /\ crashed' = crashed
    BY <1>2 DEF callerVars, lineVars
  <1>5. Cursor = Len(file) /\ Cursor \in Nat
    <2>1. Len(Rest) = 0
      BY <1>2
    <2>2. offset = Len(file)
      BY <1>1, <1>2 DEF BufferIsWindow
    <2> QED
      BY <1>1, <2>1, <2>2, RestIsWindow
  <1>6. Cursor' = Cursor
    BY <1>4 DEF Cursor
  <1>7. Cardinality(PassedBy(file, Cursor)) = taken
    <2>1. task \in {"header", "row"} /\ file \in Seq(Bytes)
      BY <1>1 DEF TypeOK
    <2>2. CASE task = "header"
      <3>1. Cursor = 0 /\ taken = 0
        BY <1>1, <2>2 DEF CursorAtLine
      <3>2. Cardinality(PassedBy(file, 0)) = 0
        BY <2>1, AllPassed, FS_EmptySet
      <3> QED
        BY <3>1, <3>2
    <2>3. CASE task = "row"
      BY <1>1, <2>3 DEF RowsInOrder
    <2> QED
      BY <2>1, <2>2, <2>3
  <1>8. CursorAtLine'
    BY <1>2, <1>4, <1>5, <1>6 DEF CursorAtLine
  <1>9. RowsInOrder'
    BY <1>2, <1>3, <1>4, <1>5, <1>6, <1>7 DEF RowsInOrder
  <1>10. TypeOK'
    BY <1>1, <1>2, <1>3, <1>4 DEF TypeOK
  <1>11. FileIsKnown' /\ BufferIsWindow'
    BY <1>4 DEF CsvInv, FileIsKnown, BufferIsWindow
  <1> QED
    BY <1>8, <1>9, <1>10, <1>11 DEF CsvInv

(* How much is read, and that nothing is only read at the end of the file: *)
(* the buffer always has room.                                             *)
LEMMA FreadFits ==
    ASSUME TypeOK, BufferIsWindow, is_open,
           NEW n, n = Len(Rest), NEW count, count = fread(n)
    PROVE  /\ n \in Nat /\ count \in Nat
           /\ Grown(n) \in Nat /\ Grown(n) > 0 /\ n + count <= Grown(n)
           /\ offset + count <= Len(file)
           /\ count = 0 => offset = Len(file)
  <1>1. /\ Len(file) \in Nat /\ offset \in Nat /\ offset <= Len(file)
        /\ capacity \in Nat /\ capacity > 0 /\ Len(buffer) <= capacity
        /\ Len(buffer) \in Nat /\ buffer_pos \in 0 .. Len(buffer)
    BY DEF TypeOK, BufferIsWindow
  <1>2. n = Len(buffer) - buffer_pos
    BY RestIsWindow
  <1>3. n \in Nat /\ n <= capacity
    BY <1>1, <1>2
  <1>4. Grown(n) \in Nat /\ n < Grown(n)
    BY <1>1, <1>3 DEF Grown
  <1> DEFINE a == Grown(n) - n
             b == Len(file) - offset
  <1>5. a \in Nat \ {0} /\ b \in Nat
    BY <1>1, <1>3, <1>4
  <1>6. count = Min({a, b})
    BY DEF fread
  <1>7. count \in {a, b} /\ count <= a /\ count <= b
    <2> HIDE DEF a, b
    <2>1. {a, b} \in SUBSET Nat /\ {a, b} # {}
      BY <1>5
    <2> QED
      BY <1>6, <2>1, LeastElement
  <1> QED
    BY <1>1, <1>3, <1>4, <1>5, <1>7

(* One sequence behind another. *)
LEMMA Concatenated ==
    ASSUME NEW S, NEW s \in Seq(S), NEW t \in Seq(S)
    PROVE  /\ s \o t \in Seq(S)
           /\ Len(s \o t) = Len(s) + Len(t)
           /\ \A i \in 1 .. Len(s) : (s \o t)[i] = s[i]
           /\ \A i \in Len(s) + 1 .. Len(s) + Len(t) : (s \o t)[i] = t[i - Len(s)]
  OBVIOUS

(* s holds the n positions of a file of length l that follow position p. *)
Window(s, l, p, n) ==
    /\ s \in Seq(1 .. l) /\ Len(s) = n
    /\ \A i \in 1 .. n : s[i] = p + i

(* Two windows side by side are a window. *)
LEMMA WindowsJoin ==
    ASSUME NEW l \in Nat, NEW p \in Nat, NEW n \in Nat, NEW count \in Nat,
           NEW rest, Window(rest, l, p, n), NEW t, Window(t, l, p + n, count),
           NEW b, b = rest \o t
    PROVE  Window(b, l, p, n + count)
  <1>1. /\ rest \in Seq(1 .. l) /\ t \in Seq(1 .. l) /\ Len(rest) = n /\ Len(t) = count
        /\ \A i \in 1 .. n : rest[i] = p + i
    BY DEF Window
  <1>2. \A i \in 1 .. count : t[i] = p + n + i
    BY DEF Window
  <1>3. b = rest \o t
    OBVIOUS
  <1>4. /\ b \in Seq(1 .. l) /\ Len(b) = n + count
        /\ \A i \in 1 .. n : b[i] = rest[i]
        /\ \A i \in n + 1 .. n + count : b[i] = t[i - n]
    <2>1. /\ rest \o t \in Seq(1 .. l)
          /\ Len(rest \o t) = Len(rest) + Len(t)
          /\ \A i \in 1 .. Len(rest) : (rest \o t)[i] = rest[i]
          /\ \A i \in Len(rest) + 1 .. Len(rest) + Len(t) :
                (rest \o t)[i] = t[i - Len(rest)]
      BY <1>1, Concatenated, Zenon
    <2> QED
      BY <1>1, <1>3, <2>1, Zenon
  <1>5. ASSUME NEW i \in 1 .. n + count PROVE b[i] = p + i
    <2>1. CASE i <= n
      <3>1. i \in 1 .. n /\ b[i] = rest[i]
        BY <1>4, <2>1
      <3> QED
        BY <1>1, <3>1
    <2>2. CASE i > n
      <3>1. b[i] = t[i - n] /\ i - n \in 1 .. count
        <4>1. i \in n + 1 .. n + count /\ i - n \in 1 .. count
          BY <2>2
        <4> QED
          BY <1>4, <4>1
      <3>2. t[i - n] = p + n + (i - n) /\ p + n + (i - n) = p + i
        BY <1>2, <3>1
      <3> QED
        BY <3>1, <3>2
    <2>3. i <= n \/ i > n
      OBVIOUS
    <2> QED
      BY <2>3, <2>1, <2>2
  <1> QED
    BY <1>4, <1>5 DEF Window

(* Filling the buffer up moves the window and not the cursor. *)
LEMMA RefillKeeps ==
    ASSUME CsvInv, task # "none", Refill
    PROVE  CsvInv'
  <1>1. TypeOK /\ BufferIsWindow /\ CursorAtLine /\ RowsInOrder
    BY DEF CsvInv
  <1>2. PICK r, n, count, p :
            r = Rest /\ n = Len(Rest) /\ count = fread(n) /\ p = Cursor
    OBVIOUS
  <1>3. /\ is_open
        /\ buffer' = r \o [i \in 1 .. count |-> offset + i]
        /\ offset' = offset + count
        /\ capacity' = Grown(n)
        /\ buffer_pos' = 0
        /\ UNCHANGED <<callerVars, next_event, has_next, task, crashed>>
    BY <1>2 DEF Refill
  <1>4. is_eof' \in BOOLEAN /\ (is_eof' => count = 0)
    <2>1. is_eof' = (count = 0)
      BY <1>2 DEF Refill, AtEnd
    <2> QED
      BY <2>1, Zenon
  <1>5. /\ n \in Nat /\ count \in Nat
        /\ Grown(n) \in Nat /\ Grown(n) > 0 /\ n + count <= Grown(n)
        /\ offset + count <= Len(file)
        /\ count = 0 => offset = Len(file)
    BY <1>1, <1>2, <1>3, FreadFits
  <1>6. /\ p \in Nat /\ offset \in Nat /\ Len(file) \in Nat /\ offset = p + n
        /\ r \in Seq(1 .. Len(file)) /\ Len(r) = n
        /\ \A i \in 1 .. n : r[i] = p + i
    BY <1>1, <1>2, RestIsWindow
  <1>7. /\ file' = file /\ rows' = rows /\ taken' = taken /\ is_open' = is_open
        /\ opened' = opened /\ opens' = opens /\ crashed' = crashed
        /\ next_event' = next_event /\ has_next' = has_next /\ task' = task
    BY <1>3 DEF callerVars
  <1>8. PICK l, t, b : l = Len(file) /\ t = [i \in 1 .. count |-> offset + i] /\ b = r \o t
    OBVIOUS
  <1>9. /\ b \in Seq(1 .. Len(file)) /\ Len(b) = n + count
        /\ \A i \in 1 .. n + count : b[i] = p + i
    <2>1. Window(r, l, p, n)
      BY <1>6, <1>8 DEF Window
    <2>2. Window(t, l, p + n, count)
      <3>1. \A i \in 1 .. count : offset + i \in 1 .. l
        BY <1>5, <1>6, <1>8
      <3>2. t \in Seq(1 .. l) /\ Len(t) = count /\ \A i \in 1 .. count : t[i] = offset + i
        BY <1>5, <1>8, <3>1
      <3> QED
        BY <1>6, <3>2 DEF Window
    <2>3. Window(b, l, p, n + count)
      BY <1>5, <1>6, <1>8, <2>1, <2>2, WindowsJoin
    <2> QED
      BY <1>8, <2>3 DEF Window
  <1>10. buffer' = b
    BY <1>3, <1>8
  <1>11. Cursor' = Cursor
    <2>1. (offset + count) - (n + count) + 0 = p
      BY <1>5, <1>6
    <2> QED
      BY <1>2, <1>3, <1>9, <1>10, <2>1 DEF Cursor
  <1>12. BufferIsWindow'
    <2>1. Len(b) <= offset + count /\ (offset + count) - Len(b) = p
      BY <1>5, <1>6, <1>9
    <2>2. \A i \in 1 .. Len(b) : b[i] = (offset + count) - Len(b) + i
      BY <1>9, <2>1
    <2>3. is_eof' => offset + count = Len(file)
      BY <1>4, <1>5, <1>6
    <2> QED
      BY <1>3, <1>5, <1>7, <1>10, <2>1, <2>2, <2>3 DEF BufferIsWindow
  <1>13. TypeOK'
    <2>1. offset + count \in 0 .. Len(file) /\ Len(b) <= Grown(n) /\ 0 \in 0 .. Len(b)
      BY <1>5, <1>6, <1>9
    <2> QED
      BY <1>1, <1>3, <1>4, <1>5, <1>7, <1>9, <1>10, <2>1 DEF TypeOK
  <1>14. CursorAtLine'
    BY <1>1, <1>7, <1>11 DEF CursorAtLine
  <1>15. RowsInOrder'
    BY <1>1, <1>7, <1>11 DEF RowsInOrder
  <1>16. FileIsKnown'
    BY <1>7 DEF CsvInv, FileIsKnown
  <1> QED
    BY <1>12, <1>13, <1>14, <1>15, <1>16 DEF CsvInv

(* Starting over, in the file f. *)
LEMMA StartsOver ==
    ASSUME CsvInv, NEW f \in Seq(Bytes), f \in Files \cup {<<>>}, StartOver,
           file' = f, rows' = Rows(f), is_open' => opened', capacity' \in Nat \ {0},
           is_open' \in BOOLEAN, opened' \in BOOLEAN, has_next' = has_next,
           crashed' = crashed, opens' \in 0 .. MaxOpens
    PROVE  CsvInv'
  <1>1. /\ offset' = 0 /\ buffer' = <<>> /\ buffer_pos' = 0
        /\ task' = "header" /\ taken' = 0
    BY DEF StartOver
  <1>2. is_eof' \in BOOLEAN /\ ~ is_eof'
    <2>1. is_eof' = FALSE
      BY DEF StartOver
    <2> QED
      BY <2>1, Zenon
  <1>3. Len(f) \in Nat /\ <<>> \in Seq(1 .. Len(f)) /\ Len(<<>>) = 0
    OBVIOUS
  <1>4. Cursor' = 0
    <2>1. Len(buffer') = 0
      BY <1>1, <1>3
    <2>2. offset' = 0 /\ buffer_pos' = 0
      BY <1>1
    <2> QED
      BY <2>1, <2>2 DEF Cursor
  <1>5. TypeOK'
    <2>1. has_next \in BOOLEAN /\ crashed \in BOOLEAN
      BY DEF CsvInv, TypeOK
    <2>2. 0 \in 0 .. Len(f) /\ 0 \in 0 .. 0 /\ 0 <= capacity' /\ 0 \in Nat
      BY <1>3
    <2> QED
      BY <1>1, <1>2, <1>3, <2>1, <2>2 DEF TypeOK
  <1>6. FileIsKnown'
    BY DEF FileIsKnown
  <1>7. BufferIsWindow'
    <2>1. Len(buffer') = 0 /\ offset' = 0 /\ capacity' > 0
      BY <1>1, <1>3
    <2> QED
      BY <1>2, <2>1 DEF BufferIsWindow
  <1>8. CursorAtLine'
    BY <1>1, <1>4 DEF CursorAtLine
  <1>9. RowsInOrder'
    BY <1>1 DEF RowsInOrder
  <1> QED
    BY <1>5, <1>6, <1>7, <1>8, <1>9 DEF CsvInv

(* Handing the row out that was read ahead. *)
LEMMA ReadKeeps ==
    ASSUME CsvInv, task = "none", do_read_next
    PROVE  CsvInv'
  <1>1. /\ is_open' = is_open /\ file' = file /\ rows' = rows /\ lineVars' = lineVars
        /\ next_event' = next_event /\ opened' = opened /\ opens' = opens
        /\ crashed' = crashed
    BY DEF do_read_next
  <1>2. /\ offset' = offset /\ buffer' = buffer /\ capacity' = capacity
        /\ buffer_pos' = buffer_pos /\ is_eof' = is_eof
    BY <1>1 DEF lineVars
  <1>3. Cursor' = Cursor
    BY <1>2 DEF Cursor
  <1>4. FileIsKnown' /\ BufferIsWindow'
    BY <1>1, <1>2 DEF CsvInv, FileIsKnown, BufferIsWindow
  <1>5. TypeOK /\ CursorAtLine /\ RowsInOrder /\ taken \in Nat
    BY DEF CsvInv, TypeOK
  <1>6. CASE ~ has_next
    <2>1. has_next' = has_next /\ task' = task /\ taken' = taken
      BY <1>6 DEF do_read_next
    <2>2. TypeOK'
      BY <1>1, <1>2, <1>5, <2>1 DEF TypeOK
    <2>3. CursorAtLine' /\ RowsInOrder'
      BY <1>1, <1>3, <1>5, <2>1 DEF CursorAtLine, RowsInOrder
    <2> QED
      BY <1>4, <2>2, <2>3 DEF CsvInv
  <1>7. CASE has_next
    <2>1. task' = "row" /\ taken' = taken + 1
      BY <1>7 DEF do_read_next
    <2>2. ~ has_next' /\ has_next' \in BOOLEAN
      <3>1. has_next' = FALSE
        BY <1>7 DEF do_read_next
      <3> QED
        BY <3>1, Zenon
    <2>3. Cardinality(PassedBy(file, Cursor)) = taken + 1
      BY <1>5, <1>7 DEF RowsInOrder
    <2>4. TypeOK'
      BY <1>1, <1>2, <1>5, <2>1, <2>2 DEF TypeOK
    <2>5. CursorAtLine'
      BY <1>1, <1>3, <1>5, <2>1 DEF CursorAtLine
    <2>6. RowsInOrder'
      BY <1>1, <1>3, <2>1, <2>2, <2>3 DEF RowsInOrder
    <2> QED
      BY <1>4, <2>4, <2>5, <2>6 DEF CsvInv
  <1> QED
    BY <1>6, <1>7

(* Steps that leave the file, the buffer and the rows alone. *)
LEMMA AloneKeeps ==
    ASSUME CsvInv, lineVars' = lineVars, file' = file, rows' = rows,
           next_event' = next_event, has_next' = has_next, task' = task, taken' = taken,
           opens' = opens, crashed' \in BOOLEAN, is_open' \in BOOLEAN, opened' \in BOOLEAN,
           is_open' => opened' /\ is_open
    PROVE  CsvInv'
  <1>1. /\ offset' = offset /\ buffer' = buffer /\ capacity' = capacity
        /\ buffer_pos' = buffer_pos /\ is_eof' = is_eof
    BY DEF lineVars
  <1>2. Cursor' = Cursor
    BY <1>1 DEF Cursor
  <1>3. FileIsKnown' /\ BufferIsWindow'
    BY <1>1 DEF CsvInv, FileIsKnown, BufferIsWindow
  <1>4. TypeOK'
    BY <1>1 DEF CsvInv, TypeOK
  <1>5. CursorAtLine' /\ RowsInOrder'
    BY <1>2 DEF CsvInv, CursorAtLine, RowsInOrder
  <1> QED
    BY <1>3, <1>4, <1>5 DEF CsvInv

(* Every turn of read_line and every call preserves the invariant. *)
LEMMA CsvInvStep == CsvInv /\ [Next]_vars => CsvInv'
  <1> SUFFICES ASSUME CsvInv, [Next]_vars PROVE CsvInv'
    OBVIOUS
  <1>1. /\ is_open \in BOOLEAN /\ opened \in BOOLEAN /\ crashed \in BOOLEAN
        /\ (is_open => opened) /\ file \in Seq(Bytes) /\ file \in Files \cup {<<>>}
        /\ rows = Rows(file) /\ opens \in 0 .. MaxOpens /\ capacity \in Nat
        /\ (is_open => capacity > 0)
    BY DEF CsvInv, TypeOK, FileIsKnown, BufferIsWindow
  <1>2. CASE read_line
    <2>1. task # "none"
      BY <1>2 DEF read_line
    <2>2. CASE NullRead
      <3>1. crashed' \in BOOLEAN
        <4>1. crashed' = TRUE
          BY <2>2 DEF NullRead
        <4> QED
          BY <4>1, Zenon
      <3>2. UNCHANGED <<lineVars, callerVars, next_event, has_next, task>>
        BY <2>2 DEF NullRead
      <3> QED
        BY <1>1, <3>1, <3>2, AloneKeeps DEF callerVars
    <2> QED
      BY <1>2, <2>1, <2>2, CutLineKeeps, CutRestKeeps, NoLineKeeps, RefillKeeps
      DEF read_line
  <1>3. ASSUME NEW f \in Files, do_open(f) PROVE CsvInv'
    <2>1. /\ StartOver /\ file' = f /\ rows' = Rows(f) /\ capacity' = BUFFER_SIZE
          /\ has_next' = has_next /\ crashed' = crashed
          /\ opens < MaxOpens /\ opens' = opens + 1
      BY <1>3 DEF do_open
    <2>2. /\ is_open' \in BOOLEAN /\ opened' \in BOOLEAN /\ (is_open' => opened')
      <3>1. is_open' = TRUE /\ opened' = TRUE
        BY <1>3 DEF do_open
      <3> QED
        BY <3>1, Zenon
    <2>3. opens' \in 0 .. MaxOpens /\ f \in Seq(Bytes) /\ f \in Files \cup {<<>>}
          /\ capacity' \in Nat \ {0}
      BY <1>1, <2>1, CsvAssumption
    <2> QED
      BY <2>1, <2>2, <2>3, StartsOver
  <1>4. CASE do_open_fails
    <2>1. UNCHANGED <<file, rows, lineVars, next_event, has_next, task, out, taken, opens, crashed>>
      BY <1>4 DEF do_open_fails
    <2>2. is_open' \in BOOLEAN /\ opened' \in BOOLEAN /\ ~ is_open'
      <3>1. is_open' = FALSE /\ opened' = FALSE
        BY <1>4 DEF do_open_fails
      <3> QED
        BY <3>1, Zenon
    <2> QED
      BY <1>1, <2>1, <2>2, AloneKeeps
  <1>5. CASE do_reset /\ is_open
    <2>1. /\ StartOver
          /\ UNCHANGED <<is_open, file, rows, capacity, next_event, has_next, out, opened,
                         opens, crashed>>
      BY <1>5 DEF do_reset
    <2>2. capacity' \in Nat \ {0}
      BY <1>1, <1>5, <2>1
    <2> QED
      BY <1>1, <2>1, <2>2, StartsOver
  <1>6. CASE UNCHANGED vars
    BY <1>1, <1>6, AloneKeeps DEF vars, callerVars
  <1>7. CASE Call
    BY <1>3, <1>4, <1>5, <1>6, <1>7, ReadKeeps DEF Call, do_reset
  <1> QED
    BY <1>2, <1>6, <1>7 DEF Next

(* Every reachable state satisfies the inductive invariant. *)
THEOREM CsvInvariant == Spec => []CsvInv
  BY CsvInvInit, CsvInvStep, PTL DEF Spec

(* Every variable of the reader keeps its type, and the buffer never holds *)
(* more than its capacity.                                                 *)
THEOREM CsvTypeCorrect == Spec => []TypeOK
  <1>1. CsvInv => TypeOK
    BY DEF CsvInv
  <1> QED
    BY <1>1, CsvInvariant, PTL

-----------------------------------------------------------------------------
(* What the caller sees.                                                   *)

(* Between calls: a row that was read ahead is the next one of the file,   *)
(* and without one all rows were handed out.                               *)
LEMMA ReadAheadIsNext ==
    ASSUME CsvInv, task = "none"
    PROVE  /\ taken \in Nat /\ Len(rows) \in Nat
           /\ has_next => /\ taken < Len(rows)
                          /\ next_event = rows[taken + 1]
                          /\ next_event \in AllRows
           /\ ~ has_next => taken = Len(rows)
  <1>1. PICK f, c : f = file /\ c = Cursor
    OBVIOUS
  <1>2. /\ f \in Seq(Bytes) /\ f \in Files \cup {<<>>} /\ rows = Rows(f) /\ taken \in Nat
        /\ c \in 0 .. Len(f)
    <2>1. TypeOK /\ BufferIsWindow
      BY DEF CsvInv
    <2>2. Cursor \in 0 .. Len(file)
      BY <2>1, RestIsWindow
    <2> QED
      BY <1>1, <2>1, <2>2 DEF CsvInv, TypeOK, FileIsKnown
  <1>3. /\ Len(rows) = Cardinality(RowEnds(f))
        /\ DOMAIN rows = 1 .. Len(rows)
        /\ PassedBy(f, Len(f)) = RowEnds(f)
    BY <1>2, AllPassed
  <1>4. Cardinality(RowEnds(f)) \in Nat /\ IsFiniteSet(RowEnds(f))
    BY <1>2, EndsInFile
  <1>5. Cardinality(PassedBy(f, c)) <= Cardinality(RowEnds(f))
    <2>1. PassedBy(f, c) \in SUBSET RowEnds(f)
      BY DEF PassedBy
    <2> QED
      BY <1>4, <2>1, FS_Subset
  <1>6. ASSUME has_next PROVE taken < Len(rows) /\ next_event = rows[taken + 1]
    <2>1. Cardinality(PassedBy(f, c)) = taken + 1 /\ next_event = rows[taken + 1]
      BY <1>1, <1>6 DEF CsvInv, RowsInOrder
    <2> QED
      BY <1>2, <1>3, <1>4, <1>5, <2>1
  <1>7. ASSUME ~ has_next PROVE taken = Len(rows)
    <2>1. Cardinality(PassedBy(f, c)) = taken /\ c = Len(f)
      BY <1>1, <1>7 DEF CsvInv, RowsInOrder
    <2> QED
      BY <1>3, <2>1
  <1>8. ASSUME has_next PROVE next_event \in AllRows
    <2>1. taken + 1 \in DOMAIN rows
      BY <1>2, <1>3, <1>4, <1>6, <1>8
    <2>2. f # <<>>
      <3>1. PassedBy(<<>>, Len(<<>>)) = RowEnds(<<>>) /\ PassedBy(<<>>, 0) = {}
            /\ Len(<<>>) = 0
        <4>1. <<>> \in Seq(Bytes) /\ Len(<<>>) = 0
          OBVIOUS
        <4> QED
          BY <4>1, AllPassed, Zenon
      <3>2. Cardinality(RowEnds(<<>>)) = 0
        BY <3>1, FS_EmptySet, Zenon
      <3> QED
        BY <1>2, <1>3, <1>6, <1>8, <3>2
    <2>3. rows \in RowFiles
      BY <1>2, <2>2 DEF RowFiles
    <2> QED
      BY <1>6, <1>8, <2>1, <2>3 DEF AllRows
  <1> QED
    BY <1>2, <1>3, <1>4, <1>6, <1>7, <1>8

(* So has_next is right wherever the invariant holds. *)
LEMMA HasNextIsRight == CsvInv => HasNextIsAccurate
  <1> SUFFICES ASSUME CsvInv, task = "none"
               PROVE  has_next <=> taken < Len(rows)
    BY DEF HasNextIsAccurate
  <1>1. /\ taken \in Nat /\ Len(rows) \in Nat
        /\ (has_next => taken < Len(rows))
        /\ (~ has_next => taken = Len(rows))
    BY ReadAheadIsNext
  <1> QED
    BY <1>1

(* Between calls has_next of CsvReader is TRUE exactly when rows are left, *)
(* however the lines lie in the buffer.                                    *)
THEOREM CsvHasNextCorrect == Spec => []HasNextIsAccurate
  BY HasNextIsRight, CsvInvariant, PTL

(* The reader starts as the event source does ... *)
LEMMA CsvSourceInit == Init => Source!SourceInit
  <1> SUFFICES ASSUME Init PROVE Source!SourceInit
    OBVIOUS
  <1>1. rows = <<>> /\ taken = 0 /\ opened = TRUE /\ out = Nothing
    BY DEF Init
  <1> QED
    BY <1>1 DEF Source!SourceInit

(* ... and each of its steps is a step of the source or changes nothing:   *)
(* the turns of read_line change nothing.                                  *)
LEMMA CsvSourceStep ==
    CsvInv /\ [Next]_vars => [Source!SourceNext]_(Source!sourceVars)
  <1> SUFFICES ASSUME CsvInv, [Next]_vars
               PROVE  Source!SourceNext \/ UNCHANGED Source!sourceVars
    OBVIOUS
  <1>1. /\ opened \in BOOLEAN /\ (is_open => opened)
    BY DEF CsvInv, TypeOK, FileIsKnown
  <1>2. CASE UNCHANGED callerVars
    BY <1>2 DEF callerVars, Source!sourceVars
  <1>3. CASE read_line
    <2>1. UNCHANGED callerVars
      BY <1>3 DEF read_line, CutLine, CutRest, NoLine, Refill, NullRead
    <2> QED
      BY <1>2, <2>1
  <1>4. ASSUME NEW f \in Files, do_open(f) PROVE Source!SourceNext
    <2>1. rows' = Rows(f) /\ taken' = 0 /\ opened' = TRUE /\ out' = out
      BY <1>4 DEF do_open, StartOver
    <2>2. Source!OpenFile(Rows(f))
      BY <2>1 DEF Source!OpenFile
    <2>3. Rows(f) \in RowFiles
      BY DEF RowFiles
    <2> QED
      BY <2>2, <2>3 DEF Source!SourceNext
  <1>5. CASE do_open_fails
    <2>1. opened' = FALSE /\ out' = out
      BY <1>5 DEF do_open_fails
    <2>2. Source!OpenFails
      BY <2>1 DEF Source!OpenFails
    <2> QED
      BY <2>2 DEF Source!SourceNext
  <1>6. ASSUME task = "none", do_read_next PROVE Source!SourceNext
    <2>1. /\ taken \in Nat /\ Len(rows) \in Nat
          /\ has_next => /\ taken < Len(rows)
                         /\ next_event = rows[taken + 1]
                         /\ next_event \in AllRows
          /\ ~ has_next => taken = Len(rows)
      BY <1>6, ReadAheadIsNext
    <2>2. rows' = rows /\ opened' = opened
      BY <1>6 DEF do_read_next
    <2>3. /\ has_next => out' = next_event /\ taken' = taken + 1
          /\ ~ has_next => out' = Nothing /\ taken' = taken
      BY <1>6 DEF do_read_next
    <2>4. CASE opened /\ has_next
      <3>1. Source!read_next
        BY <2>1, <2>2, <2>3, <2>4 DEF Source!read_next
      <3> QED
        BY <3>1 DEF Source!SourceNext
    <2>5. CASE opened /\ ~ has_next
      <3>1. Source!read_next
        BY <2>1, <2>2, <2>3, <2>5 DEF Source!read_next
      <3> QED
        BY <3>1 DEF Source!SourceNext
    <2>6. CASE ~ opened
      <3>1. out' \in AllRows \cup {Nothing}
        BY <2>1, <2>3
      <3>2. Source!ReadUndefined
        BY <2>2, <2>6, <3>1 DEF Source!ReadUndefined
      <3> QED
        BY <3>2 DEF Source!SourceNext
    <2> QED
      BY <2>4, <2>5, <2>6
  <1>7. CASE do_reset /\ is_open
    <2>1. rows' = rows /\ taken' = 0 /\ opened' = opened /\ out' = out
      BY <1>7 DEF do_reset, StartOver
    <2>2. Source!reset
      BY <1>1, <1>7, <2>1 DEF Source!reset
    <2> QED
      BY <2>2 DEF Source!SourceNext
  <1>8. CASE UNCHANGED vars
    BY <1>2, <1>8 DEF vars
  <1>9. CASE Call
    BY <1>4, <1>5, <1>6, <1>7, <1>8, <1>9 DEF Call, do_reset
  <1> QED
    BY <1>3, <1>8, <1>9 DEF Next

(* The CsvReader implements the event source: for every file and every     *)
(* size of the buffer, through every sequence of opens, failed opens,      *)
(* reads and resets, the rows of the file come out whole, in order and     *)
(* each once, and then no more.                                            *)
THEOREM CsvRefinesSource == Spec => ImplementsEventSource
  <1>1. Spec => []CsvInv
    BY CsvInvariant
  <1> QED
    BY <1>1, CsvSourceInit, CsvSourceStep, PTL
    DEF Spec, ImplementsEventSource, Source!SourceSpec

-----------------------------------------------------------------------------
(* The decoder.  It has a state of its own, the SymbolMapper's.            *)

(* No two names share an id. *)
IdsDiffer == \A m, n \in DOMAIN map : map[m] = map[n] => m = n

(* The symbol of an event is still the id of the name in its line. *)
EventsMatchMap ==
    mapper => \A d \in decoded : /\ Name(d.line) \in DOMAIN map
                                 /\ d.event.symbol = map[Name(d.line)]

(* The inductive invariant: SymbolsAreFaithful compares events with each   *)
(* other, where the code compares each with the map only.                  *)
DecoderInv == DecoderTypeOK /\ IdsDiffer /\ EventsMatchMap

(* The invariant holds of an empty mapper. *)
LEMMA DecoderInvInit == DecoderInit => DecoderInv
  <1> SUFFICES ASSUME DecoderInit PROVE DecoderInv
    OBVIOUS
  <1>1. mapper \in BOOLEAN /\ map = <<>> /\ next_id = 1 /\ decoded = {}
    BY Zenon DEF DecoderInit
  <1>2. DOMAIN map = {} /\ map \in [DOMAIN map -> 1 .. next_id - 1]
    BY <1>1
  <1>3. 1 .. next_id - 1 = {}
    BY <1>1
  <1> QED
    BY <1>1, <1>2, <1>3 DEF DecoderInv, DecoderTypeOK, IdsDiffer, EventsMatchMap

(* Every id below next_id is some name's. *)
NoGaps == \A id \in 1 .. next_id - 1 : \E n \in DOMAIN map : map[n] = id

(* What looking up a name leaves behind: the ids are in range, differ and  *)
(* have no gaps, the name has one, and no other name's id has changed.     *)
LEMMA LookUp ==
    ASSUME NEW name \in Names, DecoderTypeOK, IdsDiffer, get_or_create(name)
    PROVE  /\ next_id' \in Nat \ {0}
           /\ map' \in [DOMAIN map' -> 1 .. next_id' - 1]
           /\ DOMAIN map' = DOMAIN map \cup {name}
           /\ \A n \in DOMAIN map : map'[n] = map[n]
           /\ IdsDiffer' /\ NoGaps'
  <1>1. CASE name \in DOMAIN map /\ UNCHANGED <<map, next_id>>
    <2>1. DOMAIN map' = DOMAIN map \cup {name}
      BY <1>1
    <2>2. IdsDiffer' /\ NoGaps'
      BY <1>1, Zenon DEF DecoderTypeOK, IdsDiffer, NoGaps
    <2> QED
      BY <1>1, <2>1, <2>2 DEF DecoderTypeOK
  <1>2. CASE /\ name \notin DOMAIN map
             /\ map' = [n \in DOMAIN map \cup {name} |->
                           IF n = name THEN next_id ELSE map[n]]
             /\ next_id' = next_id + 1
    <2>1. /\ DOMAIN map' = DOMAIN map \cup {name}
          /\ \A n \in DOMAIN map : map'[n] = map[n] /\ map[n] \in 1 .. next_id - 1
          /\ map'[name] = next_id
      BY <1>2 DEF DecoderTypeOK
    <2>2. next_id \in Nat \ {0} /\ next_id' = next_id + 1
      BY <1>2 DEF DecoderTypeOK
    <2>3. \A n \in DOMAIN map' : map'[n] \in 1 .. next_id' - 1
      BY <2>1, <2>2
    <2>4. map' \in [DOMAIN map' -> 1 .. next_id' - 1]
      BY <1>2, <2>1, <2>3
    <2>5. IdsDiffer'
      BY <2>1, <2>2 DEF IdsDiffer
    <2>6. NoGaps'
      <3> SUFFICES ASSUME NEW id \in 1 .. next_id' - 1
                   PROVE  \E n \in DOMAIN map' : map'[n] = id
        BY DEF NoGaps
      <3>1. CASE id = next_id
        BY <2>1, <3>1
      <3>2. CASE id # next_id
        <4>1. id \in 1 .. next_id - 1
          BY <2>2, <3>2
        <4>2. PICK n \in DOMAIN map : map[n] = id
          BY <4>1 DEF DecoderTypeOK
        <4> QED
          BY <2>1, <4>2
      <3> QED
        BY <3>1, <3>2
    <2> QED
      BY <2>1, <2>2, <2>4, <2>5, <2>6
  <1> QED
    BY <1>1, <1>2 DEF get_or_create

(* A call that looks a symbol up keeps what is said of earlier events. *)
LEMMA TakeSymbolStep ==
    ASSUME NEW line \in Lines, HasSymbol(line), DecoderInv, TakeSymbol(line),
           UNCHANGED mapper
    PROVE  /\ next_id' \in Nat \ {0}
           /\ map' \in [DOMAIN map' -> 1 .. next_id' - 1]
           /\ DOMAIN map' \subseteq Names
           /\ IdsDiffer' /\ NoGaps'
           /\ mapper => /\ Name(line) \in DOMAIN map'
                        /\ \A d \in decoded : /\ Name(d.line) \in DOMAIN map'
                                              /\ d.event.symbol = map'[Name(d.line)]
  <1>0. Name(line) \in Names
    BY DEF Names
  <1>1. CASE mapper
    <2>1. get_or_create(Name(line))
      BY <1>1, Zenon DEF TakeSymbol
    <2>2. /\ next_id' \in Nat \ {0}
          /\ map' \in [DOMAIN map' -> 1 .. next_id' - 1]
          /\ DOMAIN map' = DOMAIN map \cup {Name(line)}
          /\ \A n \in DOMAIN map : map'[n] = map[n]
          /\ IdsDiffer' /\ NoGaps'
      BY <1>0, <2>1, LookUp DEF DecoderInv
    <2>3. DOMAIN map' \subseteq Names
      BY <1>0, <2>2 DEF DecoderInv, DecoderTypeOK
    <2>4. \A d \in decoded : /\ Name(d.line) \in DOMAIN map
                             /\ d.event.symbol = map[Name(d.line)]
      BY <1>1, Zenon DEF DecoderInv, EventsMatchMap
    <2>5. \A d \in decoded : /\ Name(d.line) \in DOMAIN map'
                             /\ d.event.symbol = map'[Name(d.line)]
      BY <2>2, <2>4
    <2> QED
      BY <2>2, <2>3, <2>5
  <1>2. CASE ~ mapper
    <2>1. UNCHANGED <<map, next_id>>
      BY <1>2, Zenon DEF TakeSymbol
    <2> QED
      BY <1>2, <2>1 DEF DecoderInv, DecoderTypeOK, IdsDiffer, NoGaps
  <1> QED
    BY <1>1, <1>2

(* Every call of decode_csv keeps the invariant. *)
LEMMA DecoderInvNext == DecoderInv /\ [DecoderNext]_(decoderVars) => DecoderInv'
  <1> SUFFICES ASSUME DecoderInv, [DecoderNext]_(decoderVars) PROVE DecoderInv'
    OBVIOUS
  <1>1. CASE UNCHANGED decoderVars
    BY <1>1 DEF decoderVars, DecoderTypeOK, Name, DecoderInv, IdsDiffer,
                EventsMatchMap
  <1>2. ASSUME NEW line \in Lines, decode_csv(line) PROVE DecoderInv'
    <2>0. UNCHANGED mapper
      BY <1>2 DEF decode_csv
    <2>1. CASE Reject(line)
      BY <2>0, <2>1 DEF Reject, DecoderTypeOK, Name, DecoderInv,
                        IdsDiffer, EventsMatchMap
    <2>2. CASE RejectLate(line)
      <3>1. HasSymbol(line) /\ TakeSymbol(line) /\ UNCHANGED decoded
        BY <2>2, Zenon DEF RejectLate
      <3> QED
        BY <2>0, <3>1, TakeSymbolStep DEF DecoderInv, DecoderTypeOK, EventsMatchMap, NoGaps
    <2>3. CASE Accept(line)
      <3> DEFINE new == [line |-> line, event |-> EventOf(line, SymbolOf(line))]
      <3>1. HasSymbol(line) /\ TakeSymbol(line) /\ decoded' = decoded \cup {new}
        BY <2>3, Zenon DEF Accept
      <3>2. new.line = line /\ new.event.symbol = SymbolOf(line)
        BY DEF EventOf
      <3> HIDE DEF new
      <3>3. mapper => new.event.symbol = map'[Name(new.line)]
        BY <3>2, Zenon DEF SymbolOf
      <3>4. DecoderTypeOK' /\ IdsDiffer'
        BY <2>0, <3>1, <3>2, TakeSymbolStep DEF DecoderInv, DecoderTypeOK, NoGaps
      <3>5. EventsMatchMap'
        BY <2>0, <3>1, <3>2, <3>3, TakeSymbolStep DEF EventsMatchMap
      <3> QED
        BY <3>4, <3>5 DEF DecoderInv
    <2> QED
      BY <1>2, <2>1, <2>2, <2>3, Zenon DEF decode_csv
  <1> QED
    BY <1>1, <1>2, Zenon DEF DecoderNext

(* A decoder keeps its types, and the ids it has handed out are those      *)
(* below next_id, each to some name.                                       *)
THEOREM DecoderTypeCorrect == DecoderSpec => []DecoderTypeOK
  <1>1. DecoderInv => DecoderTypeOK
    BY DEF DecoderInv
  <1> QED
    BY <1>1, DecoderInvInit, DecoderInvNext, PTL DEF DecoderSpec

(* Whatever lines are decoded, malformed, repeated or not, their events    *)
(* carry the same symbol exactly if the lines name the same.               *)
THEOREM SymbolsFaithful == DecoderSpec => []SymbolsAreFaithful
  <1>1. DecoderInv => SymbolsAreFaithful
    BY DEF DecoderInv, IdsDiffer, EventsMatchMap, SymbolsAreFaithful
  <1> QED
    BY <1>1, DecoderInvInit, DecoderInvNext, PTL DEF DecoderSpec

-----------------------------------------------------------------------------
(* Reader and decoder together.                                            *)

(* What is cut is a line of the file, and its text one that CellsOf knows. *)
LEMMA CutIsText ==
    ASSUME CsvInv, CutNow # <<>>
    PROVE  TextOf(file, CutNow) \in Texts
  <1>1. /\ TypeOK /\ BufferIsWindow /\ CursorAtLine /\ file \in Files \cup {<<>>}
        /\ Cursor \in Nat /\ Len(file) \in Nat
    <2>1. TypeOK /\ BufferIsWindow
      BY DEF CsvInv
    <2>2. Cursor \in 0 .. offset /\ offset \in 0 .. Len(file) /\ Len(file) \in Nat
      BY <2>1, RestIsWindow
    <2> QED
      BY <2>2 DEF CsvInv, FileIsKnown
  <1>2. PICK e : e \in Ends(file) /\ CutNow = Line(file, e) /\ Len(file) # 0
    <2>1. CASE Newlines # {}
      <3>1. PICK k : k = Min(Newlines)
        OBVIOUS
      <3>2. /\ NextEnd(file, Cursor, Cursor + k) /\ Cursor + k <= Len(file)
            /\ k \in 1 .. Len(Rest)
            /\ WithoutCr(SubSeq(Rest, 1, k - 1)) = Line(file, Cursor + k)
        BY <1>1, <2>1, <3>1, CutIsLine
      <3>3. CutNow = Line(file, Cursor + k)
        BY <2>1, <3>1, <3>2 DEF CutNow
      <3> QED
        BY <1>1, <3>2, <3>3 DEF NextEnd
    <2>2. CASE Newlines = {}
      <3>1. CutNow = Rest /\ is_eof /\ Rest # <<>>
        BY <2>2 DEF CutNow
      <3>2. /\ NextEnd(file, Cursor, Len(file) + 1) /\ Cursor < Len(file)
            /\ Rest = Line(file, Len(file) + 1)
        BY <1>1, <2>2, <3>1, RestIsLine
      <3> QED
        BY <1>1, <3>1, <3>2 DEF NextEnd
    <2> QED
      BY <2>1, <2>2
  <1>3. file \in Files
    <2>1. Len(<<>>) = 0
      OBVIOUS
    <2> QED
      BY <1>1, <1>2, <2>1
  <1>4. TextOf(file, CutNow) # <<>>
    <2>1. PICK n : CutNow = [i \in 1 .. n |-> CutNow[i]] /\ DOMAIN CutNow = 1 .. n
      BY <1>2 DEF Line
    <2>2. 1 .. n # {}
      BY <2>1
    <2>3. DOMAIN TextOf(file, CutNow) = 1 .. n
      BY <2>1 DEF TextOf
    <2>4. DOMAIN <<>> = {}
      OBVIOUS
    <2> QED
      BY <2>2, <2>3, <2>4
  <1> QED
    BY <1>2, <1>3, <1>4 DEF Texts

(* A step of the two together is one of the reader, and the decoder is     *)
(* called with one of its lines or left alone.                             *)
LEMMA FeedStep ==
    CsvInv /\ [FeedNext]_feedVars => [Next]_vars /\ [DecoderNext]_decoderVars
  <1> SUFFICES ASSUME CsvInv, [FeedNext]_feedVars
               PROVE  [Next]_vars /\ [DecoderNext]_decoderVars
    OBVIOUS
  <1>1. CASE UNCHANGED feedVars
    BY <1>1 DEF feedVars
  <1>2. CASE CallReader
    BY <1>2 DEF CallReader, Next
  <1>3. CASE ReadAndDecode
    <2>1. Next
      BY <1>3 DEF ReadAndDecode, Next
    <2>2. CASE task = "row" /\ CutNow # <<>>
      <3>1. CellsOf[TextOf(file, CutNow)] \in Lines
        BY <2>2, CutIsText, FeedAssumption
      <3>2. decode_csv(CellsOf[TextOf(file, CutNow)])
        BY <1>3, <2>2 DEF ReadAndDecode
      <3> QED
        BY <2>1, <3>1, <3>2 DEF DecoderNext
    <2>3. CASE ~ (task = "row" /\ CutNow # <<>>)
      BY <1>3, <2>1, <2>3 DEF ReadAndDecode
    <2> QED
      BY <2>2, <2>3
  <1> QED
    BY <1>1, <1>2, <1>3 DEF FeedNext

(* The reader's promise and the decoder's hold of the two together: while  *)
(* the lines that read_line cuts are decoded as they come, over refills,   *)
(* resets and one file after another, rows come out whole and in order,    *)
(* and their symbols are faithful.                                         *)
THEOREM FeedIsFaithful ==
    FeedSpec => ImplementsEventSource /\ []HasNextIsAccurate /\ []SymbolsAreFaithful
  <1>1. FeedInit => Init /\ DecoderInit
    BY DEF FeedInit
  <1>2. FeedSpec => []CsvInv
    BY <1>1, CsvInvInit, CsvInvStep, FeedStep, PTL DEF FeedSpec
  <1>3. FeedSpec => ImplementsEventSource
    BY <1>1, <1>2, CsvSourceInit, CsvSourceStep, FeedStep, PTL
    DEF FeedSpec, ImplementsEventSource, Source!SourceSpec
  <1>4. FeedSpec => []DecoderInv
    BY <1>1, <1>2, DecoderInvInit, DecoderInvNext, FeedStep, PTL DEF FeedSpec
  <1>5. CsvInv => HasNextIsAccurate
    BY HasNextIsRight
  <1>6. DecoderInv => SymbolsAreFaithful
    BY DEF DecoderInv, IdsDiffer, EventsMatchMap, SymbolsAreFaithful
  <1> QED
    BY <1>2, <1>3, <1>4, <1>5, <1>6, PTL
=============================================================================
