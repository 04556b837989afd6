----------------------------- MODULE BlockProofs -----------------------------
(***************************************************************************)
(* Cut and Paste at the same place give the text back, for every text,     *)
(* block and setting, when the block is of the same kind still when it is  *)
(* pasted (RoundTrip); BufferProofs makes a theorem of MCBuffer *)
(* of it.                                                                  *)
(*                                                                         *)
(* The first part says what the operators on one row do, column by column, *)
(* and what that makes of a row that is cut and pasted: the row itself, or *)
(* the row with blanks behind it, which the file does not have.  The       *)
(* second part says what the methods make of the rows, the cursor and the  *)
(* flags of a buffer; the others follow Cut and Paste method by method.    *)
(***************************************************************************)
EXTENDS MethodProofs

-----------------------------------------------------------------------------
(***************************************************************************)
(* One row, column by column.                                              *)
(***************************************************************************)
\* t is s with nothing but blanks behind it
Padded(t, s) ==
    /\ Len(t) >= Len(s)
    /\ \A i \in 1 .. Len(s) : t[i] = s[i]
    /\ \A i \in Len(s) + 1 .. Len(t) : t[i] = Blank

\* What follows on blanks that are dropped.
IsTrim(k, s) == k \in 0 .. Len(s) /\ (\A i \in k + 1 .. Len(s) : s[i] = Blank) /\ (k > 0 => s[k] # Blank)

\* The length without the blanks at the end.
LEMMA TrimmedIs == ASSUME NEW s \in Rows PROVE IsTrim(TrimmedLen(s), s)
<1>1. s \in Seq(Letters) /\ Len(s) \in Nat
  BY LenProperties DEF Rows
<1> DEFINE n == Len(s)
           D == {i \in 1 .. n : s[i] # Blank}
<1>2. \E k \in 0 .. n : (k = 0 \/ k \in D) /\ \A j \in k + 1 .. n : j \notin D
  <2> HIDE DEF D, n
  <2> QED BY <1>1, LastStop DEF n
<1>3. \E k \in 0 .. n : (\A i \in k + 1 .. n : s[i] = Blank) /\ (k > 0 => s[k] # Blank)
  BY <1>1, <1>2
<1> QED BY <1>3 DEF TrimmedLen, IsTrim

\* Only one length can be that.
LEMMA TrimUnique ==
    ASSUME NEW s \in Rows, NEW j, NEW k, IsTrim(j, s), IsTrim(k, s) PROVE j = k
<1>1. Len(s) \in Nat
  BY LenProperties DEF Rows
<1>2. j \in Nat /\ k \in Nat /\ j <= Len(s) /\ k <= Len(s)
  BY <1>1 DEF IsTrim
<1>3. CASE j < k
  BY <1>1, <1>2, <1>3 DEF IsTrim
<1>4. CASE k < j
  BY <1>1, <1>2, <1>4 DEF IsTrim
<1> QED BY <1>2, <1>3, <1>4

\* Blanks behind a row do not come into the file.
LEMMA PaddedTrims ==
    ASSUME NEW s \in Rows, NEW t \in Rows, Padded(t, s) PROVE Trim(t) = Trim(s)
<1> DEFINE j == TrimmedLen(s)
<1>1. Len(s) \in Nat /\ Len(t) \in Nat /\ Len(s) <= Len(t) /\ s \in Seq(Letters) /\ t \in Seq(Letters)
  BY LenProperties DEF Rows, Padded
<1>2. IsTrim(j, s)
  BY TrimmedIs
<1> HIDE DEF j
<1>3. IsTrim(j, t)
  BY <1>1, <1>2 DEF IsTrim, Padded
<1>4. TrimmedLen(t) = j
  BY <1>3, TrimmedIs, TrimUnique
<1>5. SubSeq(t, 1, j) = SubSeq(s, 1, j)
  <2>1. j \in Nat /\ j <= Len(s) /\ j <= Len(t)
    BY <1>1, <1>2 DEF IsTrim
  <2>2. \A i \in 1 .. j : t[i] = s[i]
    BY <1>1, <2>1 DEF Padded
  <2>3. SubSeq(t, 1, j) = [i \in 1 .. j |-> t[i]] /\ SubSeq(s, 1, j) = [i \in 1 .. j |-> s[i]]
    BY <1>1, <2>1
  <2> QED BY <2>2, <2>3
<1> QED BY <1>4, <1>5 DEF Trim, j

\* What the operators make of a row of length n: blanks up to a column,
IsPad(t, s, n, k) ==
    /\ t \in Rows /\ Len(t) = Larger(n, k)
    /\ \A i \in 1 .. Larger(n, k) : t[i] = IF i <= n THEN s[i] ELSE Blank
\* the characters cs, of length c, put in at a column that may be behind the end,
IsInserted(t, s, n, pos, cs, c) ==
    /\ t \in Rows /\ Len(t) = Larger(n, pos) + c
    /\ \A i \in 1 .. Larger(n, pos) + c :
          t[i] = IF i <= pos THEN (IF i <= n THEN s[i] ELSE Blank)
                 ELSE IF i <= pos + c THEN cs[i - pos] ELSE s[i - c]
\* columns taken out,
IsDeleted(t, s, n, pos, num) ==
    /\ t \in Rows /\ Len(t) = pos + Larger(n - pos - num, 0)
    /\ \A i \in 1 .. pos + Larger(n - pos - num, 0) : t[i] = IF i <= pos THEN s[i] ELSE s[i + num]
\* and a block of the row, filled with some number of blanks when the row ends in it.
IsExtract(t, s, n, start, width) ==
    /\ t \in Rows /\ Len(t) \in Nat \ {0} /\ Len(t) >= Smaller(width, n - start)
    /\ start + width <= n => Len(t) = width
    /\ \A i \in 1 .. Len(t) : t[i] = IF start + i <= n THEN s[start + i] ELSE Blank

\* What is where in a row.
LEMMA RowLength == ASSUME NEW s \in Rows PROVE s \in Seq(Letters) /\ Len(s) \in Nat /\ Blank \in Letters
  BY LenProperties DEF Rows, Letters

\* A row is what its columns are.
LEMMA RowsEqual ==
    ASSUME NEW s \in Rows, NEW t \in Rows, Len(s) = Len(t), \A i \in 1 .. Len(s) : s[i] = t[i] PROVE s = t
<1>1. s \in Seq(Letters) /\ t \in Seq(Letters)
  BY DEF Rows
<1>2. s = [i \in 1 .. Len(s) |-> s[i]] /\ t = [i \in 1 .. Len(t) |-> t[i]]
  BY <1>1
<1> QED BY <1>2

\* Blanks behind the end.
LEMMA PadIs == ASSUME NEW s \in Rows, NEW k \in Int PROVE IsPad(Pad(s, k), s, Len(s), k)
<1> DEFINE n == Len(s)
           w == Blanks(k - n)
           c == Len(w)
           t == s \o w
<1>1. n \in Nat /\ s \in Seq(Letters) /\ Blank \in Letters
  BY RowLength
<1>2. w \in Seq(Letters) /\ c = Larger(k - n, 0) /\ \A i \in 1 .. Larger(k - n, 0) : w[i] = Blank
  <2>1. k - n \in Int
    BY <1>1
  <2> HIDE DEF n
  <2>2. w \in Seq(Letters) /\ Len(w) = Larger(k - n, 0)
    BY <1>1, <2>1, BlanksType
  <2>3. \A i \in 1 .. Larger(k - n, 0) : w[i] = Blank
    BY DEF Blanks
  <2> QED BY <2>2, <2>3
<1> HIDE DEF w
<1>3. IsConcat(t, Letters, s, n, w, c)
  BY <1>1, <1>2, ConcatIs
<1> HIDE DEF t, n, c
<1>4. n + c = Larger(n, k)
  BY <1>1, <1>2 DEF Larger
<1>5. t \in Rows /\ Len(t) = Larger(n, k)
  BY <1>3, <1>4 DEF IsConcat, Rows
<1>6. ASSUME NEW i \in 1 .. Larger(n, k) PROVE t[i] = IF i <= n THEN s[i] ELSE Blank
  <2>1. i \in 1 .. n + c /\ t[i] = IF i <= n THEN s[i] ELSE w[i - n]
    BY <1>3, <1>4 DEF IsConcat
  <2>2. CASE i <= n
    BY <2>1, <2>2
  <2>3. CASE ~(i <= n)
    <3>1. i - n \in 1 .. Larger(k - n, 0)
      BY <1>1, <1>2, <2>1, <2>3 DEF Larger
    <3> QED BY <1>2, <2>1, <2>3, <3>1
  <2> QED BY <2>2, <2>3
<1> QED BY <1>5, <1>6 DEF IsPad, Pad, t, w, n

\* Characters put in; none change nothing, whatever the column.
LEMMA InsertedIs ==
    ASSUME NEW s \in Rows, NEW pos \in Nat, NEW cs \in Rows
    PROVE  /\ cs = <<>> => InsChars(s, pos, cs) = s
           /\ Len(cs) > 0 => IsInserted(InsChars(s, pos, cs), s, Len(s), pos, cs, Len(cs))
<1>1. cs = <<>> => InsChars(s, pos, cs) = s
  BY DEF InsChars
<1>2. ASSUME Len(cs) > 0 PROVE IsInserted(InsChars(s, pos, cs), s, Len(s), pos, cs, Len(cs))
  <2> DEFINE n == Len(s)
             c == Len(cs)
             t == Pad(s, pos)
             m == Larger(n, pos)
             w == Put(t, pos, cs)
  <2>1. InsChars(s, pos, cs) = w
    <3>1. cs # <<>> /\ ~(pos < 0)
      BY <1>2
    <3> HIDE DEF c
    <3> QED BY <3>1 DEF InsChars, Put
  <2>2. n \in Nat /\ c \in Nat /\ cs \in Seq(Letters)
    BY RowLength
  <2>3. IsPad(t, s, n, pos)
    BY PadIs
  <2> HIDE DEF n, t, w, c
  <2>4. m \in Nat /\ pos <= m /\ Len(t) = m /\ t \in Seq(Letters)
    BY <2>2, <2>3 DEF Larger, IsPad, Rows
  <2>5. IsPut(w, Letters, t, pos, cs, c)
    <3>1. pos \in 0 .. Len(t) /\ Len(cs) = c
      BY <2>4 DEF c
    <3> QED BY <2>2, <2>4, <3>1, PutIs DEF w
  <2> HIDE DEF m
  <2>6. w \in Rows /\ Len(w) = m + c
    BY <2>4, <2>5 DEF IsPut, Rows
  <2>7. ASSUME NEW i \in 1 .. m + c
        PROVE  w[i] = IF i <= pos THEN (IF i <= n THEN s[i] ELSE Blank)
                      ELSE IF i <= pos + c THEN cs[i - pos] ELSE s[i - c]
    <3>1. w[i] = IF i <= pos THEN t[i] ELSE IF i <= pos + c THEN cs[i - pos] ELSE t[i - c]
      BY <2>4, <2>5 DEF IsPut
    <3>2. \A j \in 1 .. m : t[j] = IF j <= n THEN s[j] ELSE Blank
      BY <2>3 DEF IsPad, m
    <3>3. CASE i <= pos
      BY <2>4, <3>1, <3>2, <3>3
    <3>4. CASE ~(i <= pos) /\ ~(i <= pos + c)
      <4>1. i - c \in 1 .. m /\ i - c <= n
        BY <2>2, <2>4, <3>4 DEF m, Larger
      <4> QED BY <2>2, <3>1, <3>2, <3>4, <4>1
    <3> QED BY <3>1, <3>3, <3>4
  <2> QED BY <2>1, <2>6, <2>7 DEF IsInserted, m, n, c
<1> QED BY <1>1, <1>2

\* Columns taken out of a row; none are behind its end.
LEMMA DeletedIs ==
    ASSUME NEW s \in Rows, NEW pos \in Nat, NEW num \in Int
    PROVE  /\ num <= 0 \/ pos >= Len(s) => DelChars(s, pos, num) = s
           /\ num > 0 /\ pos < Len(s) => IsDeleted(DelChars(s, pos, num), s, Len(s), pos, num)
<1>0. Len(s) \in Nat /\ s \in Seq(Letters)
  BY RowLength
<1>1. num <= 0 \/ pos >= Len(s) => DelChars(s, pos, num) = s
  BY DEF DelChars
<1>2. ASSUME num > 0, pos < Len(s) PROVE IsDeleted(DelChars(s, pos, num), s, Len(s), pos, num)
  <2> DEFINE n == Len(s)
             x == SubSeq(s, 1, pos)
             z == SubSeq(s, pos + num + 1, n)
             m == Larger(n - pos - num, 0)
             w == x \o z
  <2>1. DelChars(s, pos, num) = w
    <3>1. ~(pos < 0 \/ num <= 0 \/ pos >= Len(s))
      BY <1>0, <1>2
    <3> QED BY <3>1, Zenon DEF DelChars
  <2>2. x \in Seq(Letters) /\ Len(x) = pos /\ \A i \in 1 .. pos : x[i] = s[i]
    BY <1>0, <1>2
  <2>3. z \in Seq(Letters) /\ Len(z) = m /\ \A i \in 1 .. m : z[i] = s[pos + num + i]
    BY <1>0, <1>2 DEF Larger
  <2> HIDE DEF x, z
  <2>4. IsConcat(w, Letters, x, pos, z, m)
    BY <2>2, <2>3, ConcatIs
  <2> HIDE DEF w
  <2>5. w \in Rows /\ Len(w) = pos + m
    BY <2>4 DEF IsConcat, Rows
  <2>6. ASSUME NEW i \in 1 .. pos + m PROVE w[i] = IF i <= pos THEN s[i] ELSE s[i + num]
    <3>0. m \in Nat
      BY <1>0, <1>2 DEF Larger
    <3>1. w[i] = IF i <= pos THEN x[i] ELSE z[i - pos]
      BY <2>4 DEF IsConcat
    <3>2. CASE i <= pos
      BY <2>2, <3>0, <3>1, <3>2
    <3>3. CASE ~(i <= pos)
      <4>1. i - pos \in 1 .. m /\ pos + num + (i - pos) = i + num
        BY <3>0, <3>3
      <4> QED BY <2>3, <3>1, <3>3, <4>1
    <3> QED BY <3>2, <3>3
  <2> QED BY <2>1, <2>5, <2>6 DEF IsDeleted
<1> QED BY <1>1, <1>2

\* As many blanks as there is room, or up to a TAB less one fewer.
LEMMA FillIs ==
    ASSUME NEW n \in Nat, NEW room \in Nat
    PROVE  Fill(n, room) \in Nat /\ (room = 0 <=> Fill(n, room) = 0)
<1>1. TabWidth \in Nat \ {0}
  BY BufferAssumption
<1>2. n % TabWidth \in 0 .. TabWidth - 1
  BY <1>1
<1> DEFINE r == n % TabWidth
<1>3. r \in Nat /\ r < TabWidth
  BY <1>1, <1>2
<1>4. Fill(n, room) = IF room <= TabWidth THEN room ELSE room - r
  BY DEF Fill
<1> HIDE DEF r
<1> QED BY <1>1, <1>3, <1>4

\* A block of a row.
LEMMA ExtractIs ==
    ASSUME NEW s \in Rows, NEW start \in Nat, NEW width \in Int
    PROVE  /\ width <= 0 => Extract(s, start, width) = <<>>
           /\ width > 0 => IsExtract(Extract(s, start, width), s, Len(s), start, width)
<1>0. Len(s) \in Nat /\ s \in Seq(Letters)
  BY RowLength
<1>1. width <= 0 => Extract(s, start, width) = <<>>
  BY DEF Extract
<1>2. ASSUME width > 0 PROVE IsExtract(Extract(s, start, width), s, Len(s), start, width)
  <2> DEFINE n == Len(s)
             m == Smaller(start + width, n)
             c == Larger(m - start, 0)
             x == SubSeq(s, start + 1, m)
             room == start + width - m
             k == IF start % TabWidth # 0 THEN Larger(width - c, 0) ELSE Fill(c, room)
             w == Blanks(k)
             t == x \o w
  <2>01. n \in Nat /\ width \in Nat /\ width > 0
    BY <1>0, <1>2
  <2> HIDE DEF n
  <2>02. m \in Nat /\ m <= n /\ m <= start + width /\ (m = n \/ m = start + width)
    BY <2>01 DEF Smaller
  <2>03. room \in Nat /\ (start + width <= n <=> room = 0)
    BY <2>01 DEF Smaller
  <2>04. c \in Nat /\ c <= width /\ width - c \in Nat /\ (room = 0 <=> c = width)
    <3> HIDE DEF m
    <3> QED BY <2>01, <2>02 DEF Larger
  <2>05. c >= Smaller(width, n - start)
    BY <2>01 DEF Larger, Smaller
  <2>06. Larger(width - c, 0) = width - c
    <3> HIDE DEF c
    <3> QED BY <2>04 DEF Larger
  <2>1. m \in Nat /\ m <= n /\ c \in Nat /\ c <= width /\ room \in Nat /\ (start + width <= n <=> room = 0)
        /\ width - c \in Nat /\ (room = 0 <=> c = width) /\ c >= Smaller(width, n - start)
        /\ Larger(width - c, 0) = width - c
    BY <2>02, <2>03, <2>04, <2>05, <2>06
  <2>2. x \in Seq(Letters) /\ Len(x) = c /\ \A i \in 1 .. c : x[i] = s[start + i]
    <3> HIDE DEF m
    <3>1. c = IF start + 1 <= m THEN m - start ELSE 0
      BY <2>1 DEF Larger
    <3>2. x \in Seq(Letters) /\ Len(x) = c
      BY <1>0, <2>1, <3>1 DEF n
    <3>3. \A i \in 1 .. c : x[i] = s[start + i]
      BY <1>0, <2>01, <2>1, <3>1 DEF n
    <3> QED BY <3>2, <3>3
  <2>3. k \in Nat /\ (room = 0 => k = 0) /\ (k = 0 => c = width)
    <3> HIDE DEF c, room
    <3>1. Fill(c, room) \in Nat /\ (room = 0 <=> Fill(c, room) = 0)
      BY <2>1, FillIs
    <3> QED BY <2>1, <3>1
  <2>4. Extract(s, start, width) = t
    <3>1. Extract(s, start, width) = IF start % TabWidth # 0 THEN Pad(x, width) ELSE x \o Blanks(Fill(Len(x), room))
      <4>1. ~(width <= 0)
        BY <1>2
      <4> QED BY <4>1, Zenon DEF Extract, room, x, m, n
    <3> HIDE DEF x, m, room
    <3>2. Pad(x, width) = x \o Blanks(width - c)
      BY <2>2 DEF Pad
    <3>3. Larger(width - c, 0) = width - c
      BY <2>1
    <3> HIDE DEF c
    <3> QED BY <2>2, <3>1, <3>2, <3>3
  <2> HIDE DEF x, k, c, room, m
  <2>5. w \in Seq(Letters) /\ Len(w) = k /\ \A i \in 1 .. k : w[i] = Blank
    <3>1. Larger(k, 0) = k /\ k \in Int
      BY <2>3 DEF Larger
    <3> QED BY <3>1, RowLength, BlanksType DEF Blanks
  <2> HIDE DEF w
  <2>6. IsConcat(t, Letters, x, c, w, k)
    BY <2>2, <2>5, ConcatIs
  <2> HIDE DEF t
  <2>7. t \in Rows /\ Len(t) = c + k /\ Len(t) \in Nat \ {0} /\ Len(t) >= Smaller(width, n - start)
    <3>1. Smaller(width, n - start) \in Int
      BY <2>01 DEF Smaller
    <3>2. t \in Rows /\ Len(t) = c + k
      BY <2>6 DEF IsConcat, Rows
    <3> QED BY <1>2, <2>1, <2>3, <3>1, <3>2
  <2>8. start + width <= n => Len(t) = width
    <3> QED BY <2>1, <2>3, <2>7
  <2>9. \A i \in 1 .. c + k : i <= c <=> start + i <= n
    <3>1. CASE room = 0
      BY <2>01, <2>1, <2>3, <3>1
    <3>2. CASE room # 0
      BY <2>01, <2>1, <2>3, <3>2 DEF Larger, Smaller, c, m, room
    <3> QED BY <3>1, <3>2
  <2>10. ASSUME NEW i \in 1 .. c + k PROVE t[i] = IF start + i <= n THEN s[start + i] ELSE Blank
    <3>1. t[i] = IF i <= c THEN x[i] ELSE w[i - c]
      BY <2>6 DEF IsConcat
    <3>2. CASE i <= c
      <4>1. i \in 1 .. c
        BY <2>1, <2>3, <3>2
      <4> QED BY <2>2, <2>9, <3>1, <3>2, <4>1
    <3>3. CASE ~(i <= c)
      <4>1. i - c \in 1 .. k
        BY <2>1, <2>3, <3>3
      <4> QED BY <2>5, <2>9, <3>1, <3>3, <4>1
    <3> QED BY <3>2, <3>3
  <2> QED BY <2>4, <2>7, <2>8, <2>10 DEF IsExtract, n
<1> QED BY <1>1, <1>2

\* The row of a column block that is cut and pasted: at most the blanks are new that fill it up.
LEMMA ColumnRow ==
    ASSUME NEW s \in Rows, NEW l \in Nat, NEW w \in Nat
    PROVE  LET t == InsChars(DelChars(s, l, w), l, Extract(s, l, w)) IN t \in Rows /\ Padded(t, s)
<1> DEFINE n == Len(s)
           d == DelChars(s, l, w)
           e == Extract(s, l, w)
           t == InsChars(d, l, e)
<1> SUFFICES t \in Rows /\ Padded(t, s)
  OBVIOUS
<1>0. n \in Nat /\ Padded(s, s)
  BY RowLength DEF Padded
<1>1. CASE w = 0
  <2>1. d = s /\ e = <<>>
    BY <1>1, DeletedIs, ExtractIs
  <2>2. t = s
    <3>1. e \in Rows
      BY <2>1 DEF Rows
    <3> HIDE DEF d, e
    <3> QED BY <2>1, <3>1, InsertedIs
  <2> QED BY <1>0, <2>2
<1>2. CASE w > 0 /\ l + w <= n
  <2>0. l < n
    BY <1>0, <1>2
  <2>1. IsDeleted(d, s, n, l, w) /\ IsExtract(e, s, n, l, w)
    BY <1>2, <2>0, DeletedIs, ExtractIs
  <2> HIDE DEF d, e
  <2> DEFINE m == Len(d)
  <2>2. m = l + Larger(n - l - w, 0) /\ m \in Nat /\ Larger(m, l) = m /\ d \in Rows /\ e \in Rows /\ Len(e) = w /\ l < n
    BY <1>0, <1>2, <2>1 DEF IsDeleted, IsExtract, Larger
  <2>3. IsInserted(t, d, m, l, e, w)
    <3> HIDE DEF t
    <3> QED BY <1>2, <2>2, InsertedIs DEF t
  <2> HIDE DEF t, m
  <2>4. t \in Rows /\ Len(t) = m + w
    BY <2>2, <2>3 DEF IsInserted
  <2>5. m + w >= n
    BY <1>0, <1>2, <2>2 DEF Larger
  <2>6. ASSUME NEW i \in 1 .. m + w PROVE t[i] = IF i <= n THEN s[i] ELSE Blank
    <3>1. t[i] = IF i <= l THEN (IF i <= m THEN d[i] ELSE Blank) ELSE IF i <= l + w THEN e[i - l] ELSE d[i - w]
      BY <2>2, <2>3 DEF IsInserted
    <3>2. CASE i <= l
      <4>1. i <= m /\ i <= n /\ i \in 1 .. m
        BY <1>2, <2>2, <3>2 DEF Larger
      <4>2. d[i] = s[i]
        BY <2>1, <2>2, <3>2, <4>1 DEF IsDeleted
      <4> QED BY <3>1, <3>2, <4>1, <4>2
    <3>3. CASE l < i /\ i <= l + w
      <4>1. i - l \in 1 .. w /\ l + (i - l) = i
        BY <3>3
      <4>2. e[i - l] = IF i <= n THEN s[i] ELSE Blank
        BY <2>1, <2>2, <4>1 DEF IsExtract
      <4> QED BY <3>1, <3>3, <4>2
    <3>4. CASE l + w < i
      <4>1. i - w \in 1 .. m /\ ~(i - w <= l) /\ (i - w) + w = i /\ i <= n
        BY <1>0, <1>2, <2>2, <3>4 DEF Larger
      <4>2. d[i - w] = s[i]
        BY <2>1, <2>2, <4>1 DEF IsDeleted
      <4> QED BY <3>1, <3>4, <4>1, <4>2
    <3> QED BY <1>2, <2>2, <3>2, <3>3, <3>4
  <2>7. Padded(t, s)
    <3> HIDE DEF n
    <3>1. \A i \in 1 .. n : t[i] = s[i]
      BY <1>0, <2>2, <2>5, <2>6
    <3>2. \A i \in n + 1 .. Len(t) : t[i] = Blank
      BY <1>0, <2>2, <2>4, <2>6
    <3> QED BY <2>4, <2>5, <3>1, <3>2 DEF Padded, n
  <2> QED BY <2>4, <2>7
<1>3. CASE w > 0 /\ l < n /\ n < l + w
  <2>1. IsDeleted(d, s, n, l, w) /\ IsExtract(e, s, n, l, w)
    BY <1>3, DeletedIs, ExtractIs
  <2> HIDE DEF d, e
  <2> DEFINE c == Len(e)
  <2>2. d \in Rows /\ Len(d) = l /\ \A i \in 1 .. l : d[i] = s[i]
    <3>1. l + Larger(n - l - w, 0) = l
      BY <1>0, <1>3 DEF Larger
    <3> HIDE DEF n
    <3> QED BY <2>1, <3>1 DEF IsDeleted
  <2>3. e \in Rows /\ c \in Nat \ {0} /\ c > 0 /\ l + c >= n
    <3>1. Smaller(w, n - l) = n - l
      BY <1>0, <1>3 DEF Smaller
    <3>2. e \in Rows /\ c \in Nat \ {0} /\ c >= n - l
      BY <2>1, <3>1 DEF IsExtract
    <3> HIDE DEF c, n
    <3> QED BY <1>0, <3>2
  <2>4. \A i \in 1 .. c : e[i] = IF l + i <= n THEN s[l + i] ELSE Blank
    BY <2>1 DEF IsExtract
  <2>5. IsInserted(t, d, l, l, e, c)
    <3> HIDE DEF t
    <3> QED BY <2>2, <2>3, InsertedIs DEF t, c
  <2> HIDE DEF t, c
  <2>6. Larger(l, l) = l
    BY DEF Larger
  <2>7. t \in Rows /\ Len(t) = l + c
    BY <2>5, <2>6 DEF IsInserted
  <2>8. ASSUME NEW i \in 1 .. l + c PROVE t[i] = IF i <= n THEN s[i] ELSE Blank
    <3>1. t[i] = IF i <= l THEN (IF i <= l THEN d[i] ELSE Blank) ELSE IF i <= l + c THEN e[i - l] ELSE d[i - c]
      BY <2>5, <2>6 DEF IsInserted
    <3>2. CASE i <= l
      <4>1. i \in 1 .. l /\ i <= n
        BY <1>0, <1>3, <3>2
      <4> QED BY <2>2, <3>1, <4>1
    <3>3. CASE ~(i <= l)
      <4>1. i - l \in 1 .. c /\ l + (i - l) = i /\ i <= l + c
        BY <2>3, <3>3
      <4> QED BY <2>4, <3>1, <3>3, <4>1
    <3> QED BY <3>2, <3>3
  <2>9. Padded(t, s)
    <3>1. \A i \in 1 .. n : t[i] = s[i]
      BY <1>0, <2>3, <2>8
    <3>2. \A i \in n + 1 .. l + c : t[i] = Blank
      BY <1>0, <2>3, <2>8
    <3> HIDE DEF n
    <3> QED BY <2>3, <2>7, <3>1, <3>2 DEF Padded, n
  <2> QED BY <2>7, <2>9
<1>4. CASE w > 0 /\ l >= n
  <2>1. d = s /\ IsExtract(e, s, n, l, w)
    BY <1>4, DeletedIs, ExtractIs
  <2> HIDE DEF d, e
  <2> DEFINE c == Len(e)
  <2>2. e \in Rows /\ c \in Nat /\ c > 0 /\ \A i \in 1 .. c : e[i] = Blank
    BY <1>0, <1>4, <2>1 DEF IsExtract
  <2>3. IsInserted(t, s, n, l, e, c)
    <3> HIDE DEF t
    <3> QED BY <1>4, <2>1, <2>2, InsertedIs DEF t
  <2> HIDE DEF t, c
  <2>4. Larger(n, l) = l
    BY <1>0, <1>4 DEF Larger
  <2>5. t \in Rows /\ Len(t) = l + c /\ \A i \in 1 .. l + c : t[i] = IF i <= n THEN s[i] ELSE Blank
    BY <1>0, <1>4, <2>2, <2>3, <2>4 DEF IsInserted
  <2>6. Padded(t, s)
    <3>1. \A i \in 1 .. n : t[i] = s[i]
      BY <1>0, <1>4, <2>2, <2>5
    <3>2. \A i \in n + 1 .. Len(t) : t[i] = Blank
      BY <1>0, <1>4, <2>2, <2>5
    <3> QED BY <1>0, <1>4, <2>2, <2>5, <3>1, <3>2 DEF Padded
  <2> QED BY <2>5, <2>6
<1> QED BY <1>0, <1>1, <1>2, <1>3, <1>4

\* The columns in front of c, when all from there on are taken out.
LEMMA FrontIs ==
    ASSUME NEW s \in Rows, NEW c \in Nat, NEW num \in Int, num >= Len(s) - c
    PROVE  LET h == DelChars(s, c, num)
           IN h \in Rows /\ Len(h) = Smaller(c, Len(s)) /\ \A i \in 1 .. Smaller(c, Len(s)) : h[i] = s[i]
<1> DEFINE n == Len(s)
           h == DelChars(s, c, num)
<1> SUFFICES h \in Rows /\ Len(h) = Smaller(c, Len(s)) /\ \A i \in 1 .. Smaller(c, Len(s)) : h[i] = s[i]
  OBVIOUS
<1>1. n \in Nat
  BY RowLength
<1>2. CASE c >= n
  <2>1. h = s
    BY <1>2, DeletedIs
  <2>2. Smaller(c, n) = n
    BY <1>1, <1>2 DEF Smaller
  <2> QED BY <2>1, <2>2
<1>3. CASE c < n
  <2>1. IsDeleted(h, s, n, c, num)
    <3>1. num > 0
      BY <1>1, <1>3
    <3> QED BY <1>3, <3>1, DeletedIs
  <2> HIDE DEF h
  <2>2. Smaller(c, n) = c /\ c + Larger(n - c - num, 0) = c
    BY <1>1, <1>3 DEF Smaller, Larger
  <2> QED BY <2>1, <2>2 DEF IsDeleted
<1> QED BY <1>1, <1>2, <1>3

\* A row that ends at column c or before, and the row t joined to it there.
IsJoined(j, h, n, c, t) ==
    /\ j \in Rows
    /\ Len(t) = 0 => j = h
    /\ Len(t) > 0 => /\ Len(j) = c + Len(t)
                     /\ \A i \in 1 .. c + Len(t) : j[i] = IF i <= c THEN (IF i <= n THEN h[i] ELSE Blank) ELSE t[i - c]

\* Characters put behind the end of a row join it.
LEMMA JoinedIs ==
    ASSUME NEW h \in Rows, NEW c \in Nat, Len(h) <= c, NEW t \in Rows
    PROVE  IsJoined(InsChars(h, c, t), h, Len(h), c, t)
<1> DEFINE j == InsChars(h, c, t)
           n == Len(h)
           m == Len(t)
<1>1. n \in Nat /\ m \in Nat /\ t \in Seq(Letters)
  BY RowLength
<1>2. CASE m = 0
  <2>1. t = <<>>
    BY <1>1, <1>2
  <2>2. j = h
    BY <2>1, InsertedIs
  <2> QED BY <1>2, <2>2 DEF IsJoined
<1>3. CASE m > 0
  <2>1. IsInserted(j, h, n, c, t, m)
    BY <1>3, InsertedIs
  <2> HIDE DEF j
  <2>2. Larger(n, c) = c
    BY <1>1 DEF Larger
  <2>3. j \in Rows /\ Len(j) = c + m
    BY <2>1, <2>2 DEF IsInserted
  <2>4. ASSUME NEW i \in 1 .. c + m PROVE j[i] = IF i <= c THEN (IF i <= n THEN h[i] ELSE Blank) ELSE t[i - c]
    BY <1>1, <2>1, <2>2 DEF IsInserted
  <2> HIDE DEF m, n
  <2> QED BY <1>1, <1>3, <2>3, <2>4 DEF IsJoined, m, n, j
<1> QED BY <1>1, <1>2, <1>3

\* What is split off at c is the row that was joined there,
LEMMA JoinedTail ==
    ASSUME NEW h \in Rows, NEW c \in Nat, Len(h) <= c, NEW t \in Rows, NEW j, IsJoined(j, h, Len(h), c, t)
    PROVE  TailFrom(j, c) = t
<1> DEFINE n == Len(h)
           m == Len(t)
           k == Smaller(c, Len(j))
           d == DelChars(j, 0, k)
<1>1. n \in Nat /\ m \in Nat /\ j \in Rows /\ Len(j) \in Nat /\ t \in Seq(Letters) /\ 0 \in Nat /\ k \in Int
  BY RowLength DEF IsJoined, Smaller
<1>2. CASE m = 0
  <2>1. j = h /\ k = n /\ t = <<>>
    BY <1>1, <1>2 DEF IsJoined, Smaller
  <2>2. d \in Rows /\ Len(d) = Smaller(0, Len(j))
    <3>1. k >= Len(j) - 0
      BY <1>1, <2>1
    <3> HIDE DEF k
    <3> QED BY <1>1, <3>1, FrontIs
  <2> HIDE DEF d
  <2>3. Len(d) = 0 /\ d \in Seq(Letters)
    BY <1>1, <2>2 DEF Smaller, Rows
  <2>4. d = <<>>
    BY <2>3
  <2> QED BY <2>1, <2>4 DEF TailFrom, d
<1>3. CASE m > 0
  <2>1. Len(j) = c + m /\ k = c
    BY <1>1, <1>3 DEF IsJoined, Smaller
  <2>2. \A i \in 1 .. m : j[i + c] = t[i]
    <3> TAKE i \in 1 .. m
    <3>1. i + c \in 1 .. c + m /\ ~(i + c <= c) /\ i + c - c = i
      BY <1>1
    <3> QED BY <1>3, <3>1 DEF IsJoined
  <2>3. CASE c = 0
    <3>1. d = j
      BY <1>1, <2>1, <2>3, DeletedIs
    <3>2. j = t
      BY <1>1, <2>1, <2>2, <2>3, RowsEqual
    <3> QED BY <3>1, <3>2 DEF TailFrom
  <2>4. CASE c > 0
    <3>1. IsDeleted(d, j, Len(j), 0, k)
      <4>1. k > 0 /\ 0 < Len(j)
        BY <1>1, <1>3, <2>1, <2>4
      <4> HIDE DEF k
      <4> QED BY <1>1, <4>1, DeletedIs
    <3> HIDE DEF d
    <3>2. 0 + Larger(Len(j) - 0 - k, 0) = m
      BY <1>1, <2>1 DEF Larger
    <3>5. d \in Rows /\ Len(d) = m
      BY <3>1, <3>2 DEF IsDeleted
    <3>6. ASSUME NEW i \in 1 .. m PROVE d[i] = j[i + c]
      <4>1. d[i] = IF i <= 0 THEN j[i] ELSE j[i + k]
        BY <3>1, <3>2 DEF IsDeleted
      <4>2. i + k = i + c /\ ~(i <= 0)
        BY <1>1, <2>1
      <4> HIDE DEF k
      <4> QED BY <4>1, <4>2
    <3>3. d \in Rows /\ Len(d) = m /\ \A i \in 1 .. m : d[i] = j[i + c]
      BY <3>5, <3>6
    <3>4. d = t
      BY <2>2, <3>3, RowsEqual
    <3> QED BY <3>4 DEF TailFrom, d
  <2> QED BY <2>3, <2>4
<1> QED BY <1>1, <1>2, <1>3

\* and what is left in front of it is the row it was joined to, maybe with blanks up to c.
LEMMA JoinedFront ==
    ASSUME NEW h \in Rows, NEW c \in Nat, Len(h) <= c, NEW t \in Rows, NEW j, IsJoined(j, h, Len(h), c, t)
    PROVE  LET p == DelChars(j, c, Len(j)) IN p \in Rows /\ Padded(p, h) /\ Len(p) <= c
<1> DEFINE n == Len(h)
           m == Len(t)
           p == DelChars(j, c, Len(j))
<1> SUFFICES p \in Rows /\ Padded(p, h) /\ Len(p) <= c
  OBVIOUS
<1>1. n \in Nat /\ m \in Nat /\ j \in Rows /\ Len(j) \in Nat
  BY RowLength DEF IsJoined
<1>2. p \in Rows /\ Len(p) = Smaller(c, Len(j)) /\ \A i \in 1 .. Smaller(c, Len(j)) : p[i] = j[i]
  <2>1. Len(j) \in Int /\ Len(j) >= Len(j) - c
    BY <1>1
  <2> QED BY <1>1, <2>1, FrontIs
<1> HIDE DEF p
<1>3. CASE m = 0
  <2>1. j = h /\ Smaller(c, Len(j)) = n
    BY <1>1, <1>3 DEF IsJoined, Smaller
  <2> QED BY <1>1, <1>2, <2>1 DEF Padded
<1>4. CASE m > 0
  <2>1. Len(j) = c + m /\ Smaller(c, Len(j)) = c
    BY <1>1, <1>4 DEF IsJoined, Smaller
  <2>2. \A i \in 1 .. c : p[i] = IF i <= n THEN h[i] ELSE Blank
    <3> TAKE i \in 1 .. c
    <3>1. i \in 1 .. c + m /\ i <= c
      BY <1>1
    <3> QED BY <1>2, <1>4, <2>1, <3>1 DEF IsJoined
  <2> QED BY <1>1, <1>2, <2>1, <2>2 DEF Padded
<1> QED BY <1>1, <1>3, <1>4

\* The first row of a stream block: cut off at c, joined to another, and pasted again.
LEMMA FirstRow ==
    ASSUME NEW s \in Rows, NEW c \in Nat, NEW t \in Rows
    PROVE  LET h == DelChars(s, c, Len(s) - c)
               j == InsChars(h, c, t)
               a == InsChars(DelChars(j, c, Len(j)), c, Extract(s, c, Len(s) - c))
           IN h \in Rows /\ Len(h) <= c /\ j \in Rows /\ TailFrom(j, c) = t /\ a \in Rows /\ Padded(a, s)
<1> DEFINE n == Len(s)
           h == DelChars(s, c, n - c)
           j == InsChars(h, c, t)
           p == DelChars(j, c, Len(j))
           e == Extract(s, c, n - c)
           a == InsChars(p, c, e)
<1> SUFFICES h \in Rows /\ Len(h) <= c /\ j \in Rows /\ TailFrom(j, c) = t /\ a \in Rows /\ Padded(a, s)
  OBVIOUS
<1>1. n \in Nat /\ n - c \in Int /\ n - c >= n - c
  BY RowLength
<1>2. h \in Rows /\ Len(h) = Smaller(c, n) /\ (\A i \in 1 .. Smaller(c, n) : h[i] = s[i]) /\ Len(h) <= c
  <2>1. h \in Rows /\ Len(h) = Smaller(c, n) /\ \A i \in 1 .. Smaller(c, n) : h[i] = s[i]
    BY <1>1, FrontIs
  <2> QED BY <1>1, <2>1 DEF Smaller
<1> HIDE DEF h
<1>3. IsJoined(j, h, Len(h), c, t)
  BY <1>2, JoinedIs
<1> HIDE DEF j
<1>4. j \in Rows /\ TailFrom(j, c) = t
  BY <1>2, <1>3, JoinedTail DEF IsJoined
<1>5. p \in Rows /\ Padded(p, h) /\ Len(p) <= c
  BY <1>2, <1>3, JoinedFront
<1> HIDE DEF p
<1>6. Len(p) \in Nat
  BY <1>5, RowLength
<1>7. CASE n <= c
  <2>1. e = <<>> /\ e \in Rows
    <3>1. e = <<>>
      BY <1>1, <1>7, ExtractIs
    <3> HIDE DEF e
    <3> QED BY <3>1 DEF Rows
  <2> HIDE DEF e
  <2>2. a = p
    BY <1>5, <2>1, InsertedIs
  <2>3. Smaller(c, n) = n
    BY <1>1, <1>7 DEF Smaller
  <2>4. Padded(p, s)
    <3>1. \A i \in 1 .. n : p[i] = s[i]
      BY <1>2, <1>5, <2>3 DEF Padded
    <3> QED BY <1>1, <1>2, <1>5, <1>6, <2>3, <3>1 DEF Padded
  <2> QED BY <1>2, <1>4, <1>5, <2>2, <2>4
<1>8. CASE c < n
  <2>1. IsExtract(e, s, n, c, n - c)
    BY <1>1, <1>8, ExtractIs
  <2> HIDE DEF e
  <2>2. e \in Rows /\ Len(e) = n - c /\ n - c \in Nat /\ n - c > 0 /\ \A i \in 1 .. n - c : e[i] = s[c + i]
    <3>1. c + (n - c) <= n /\ n - c \in Nat /\ n - c > 0 /\ \A i \in 1 .. n - c : c + i <= n
      BY <1>1, <1>8
    <3> HIDE DEF n
    <3> QED BY <2>1, <3>1 DEF IsExtract
  <2>3. Smaller(c, n) = c /\ Len(p) = c
    BY <1>1, <1>2, <1>5, <1>6, <1>8 DEF Smaller, Padded
  <2>4. \A i \in 1 .. c : p[i] = s[i]
    BY <1>2, <1>5, <2>3 DEF Padded
  <2>5. IsInserted(a, p, c, c, e, n - c)
    <3> HIDE DEF a, n
    <3> QED BY <1>5, <2>2, <2>3, InsertedIs DEF a
  <2> HIDE DEF a
  <2>6. Larger(c, c) + (n - c) = n /\ c + (n - c) = n
    BY <1>1 DEF Larger
  <2>7. a \in Rows /\ Len(a) = n
    BY <2>5, <2>6 DEF IsInserted
  <2>8. ASSUME NEW i \in 1 .. n PROVE a[i] = s[i]
    <3>1. a[i] = IF i <= c THEN (IF i <= c THEN p[i] ELSE Blank) ELSE IF i <= c + (n - c) THEN e[i - c] ELSE p[i - (n - c)]
      BY <2>5, <2>6 DEF IsInserted
    <3>2. CASE i <= c
      BY <2>4, <3>1, <3>2
    <3>3. CASE i > c
      <4>1. i - c \in 1 .. n - c /\ c + (i - c) = i /\ ~(i <= c) /\ i <= c + (n - c)
        BY <1>1, <3>3
      <4> QED BY <2>2, <3>1, <4>1
    <3> QED BY <3>2, <3>3
  <2>9. Padded(a, s)
    BY <1>1, <2>7, <2>8 DEF Padded
  <2> QED BY <1>2, <1>4, <2>7, <2>9
<1> QED BY <1>1, <1>7, <1>8

\* The last row of a stream block: what the block takes of it goes back in front of the rest.
LEMMA LastRow ==
    ASSUME NEW s \in Rows, NEW c \in Nat
    PROVE  LET t == DelChars(s, 0, c)
           IN t \in Rows /\ InsChars(t, 0, Extract(s, 0, Smaller(c, Len(s)))) = s
<1> DEFINE n == Len(s)
           w == Smaller(c, n)
           t == DelChars(s, 0, c)
           e == Extract(s, 0, w)
           a == InsChars(t, 0, e)
<1> SUFFICES t \in Rows /\ a = s
  OBVIOUS
<1>1. n \in Nat /\ 0 \in Nat /\ w \in Nat /\ c \in Int /\ w \in Int
  BY RowLength DEF Smaller
<1>2. CASE c = 0 \/ n = 0
  <2>1. t = s
    BY <1>1, <1>2, DeletedIs
  <2>2. e = <<>> /\ e \in Rows
    <3>1. w <= 0
      BY <1>1, <1>2 DEF Smaller
    <3> HIDE DEF w
    <3>2. e = <<>>
      BY <1>1, <3>1, ExtractIs
    <3> HIDE DEF e
    <3> QED BY <3>2 DEF Rows
  <2> HIDE DEF t, e
  <2>3. a = s
    BY <1>1, <2>1, <2>2, InsertedIs
  <2> QED BY <2>1, <2>3
<1>3. CASE c > 0 /\ n > 0
  <2> DEFINE m == Larger(n - c, 0)
  <2>1. IsDeleted(t, s, n, 0, c)
    BY <1>1, <1>3, DeletedIs
  <2>2. w > 0 /\ m \in Nat /\ m + w = n /\ w <= n /\ 0 + Larger(n - 0 - c, 0) = m /\ (m > 0 => c = w)
    <3> HIDE DEF n
    <3>1. n \in Nat /\ n > 0 /\ c > 0 /\ n - 0 - c = n - c
      BY <1>1, <1>3
    <3> QED BY <3>1 DEF Smaller, Larger
  <2>3. IsExtract(e, s, n, 0, w)
    <3> HIDE DEF w
    <3> QED BY <1>1, <2>2, ExtractIs
  <2> HIDE DEF t, e, w, m
  <2>4. t \in Rows /\ Len(t) = m /\ \A i \in 1 .. m : t[i] = s[i + w]
    <3>1. t \in Rows /\ Len(t) = m /\ \A i \in 1 .. m : t[i] = s[i + c]
      BY <1>1, <2>1, <2>2 DEF IsDeleted
    <3> QED BY <2>2, <3>1
  <2>5. e \in Rows /\ Len(e) = w /\ \A i \in 1 .. w : e[i] = s[i]
    <3>1. 0 + w <= n /\ \A i \in 1 .. w : 0 + i <= n /\ 0 + i = i
      BY <1>1, <2>2
    <3> HIDE DEF n
    <3> QED BY <2>3, <3>1 DEF IsExtract
  <2>6. IsInserted(a, t, m, 0, e, w)
    <3> HIDE DEF a
    <3> QED BY <1>1, <2>2, <2>4, <2>5, InsertedIs DEF a
  <2> HIDE DEF a
  <2>7. Larger(m, 0) + w = n
    BY <2>2 DEF Larger
  <2>8. a \in Rows /\ Len(a) = n
    BY <2>6, <2>7 DEF IsInserted
  <2>9. ASSUME NEW i \in 1 .. n PROVE a[i] = s[i]
    <3>1. a[i] = IF i <= w THEN e[i] ELSE t[i - w]
      <4>1. ~(i <= 0) /\ 0 + w = w /\ i - 0 = i /\ i \in 1 .. Larger(m, 0) + w
        BY <1>1, <2>2, <2>7
      <4> QED BY <2>6, <4>1 DEF IsInserted
    <3>2. CASE i <= w
      BY <2>5, <3>1, <3>2
    <3>3. CASE i > w
      <4>1. i - w \in 1 .. m /\ (i - w) + w = i /\ ~(i <= w)
        BY <1>1, <2>2, <3>3
      <4> QED BY <2>4, <3>1, <4>1
    <3> QED BY <1>1, <3>2, <3>3
  <2> QED BY <2>4, <2>8, <2>9, RowsEqual
<1> QED BY <1>1, <1>2, <1>3

-----------------------------------------------------------------------------
(***************************************************************************)
(* The methods: what they make of the rows, the cursor and the block mode. *)
(***************************************************************************)
Column(b) == Has(b, "ColumnBlock")
\* c is what became of b, with the rows ls and the cursor at row and col
Now(b, c, ls, row, col) ==
    c \in Good /\ c.lines = ls /\ c.row = row /\ c.col = col /\ c.trap = b.trap /\ (Column(c) <=> Column(b))

\* One method after the other.
LEMMA NowOn ==
    ASSUME NEW a, NEW b, NEW c, NEW ms, NEW r, NEW k, NEW ls, NEW row, NEW col,
           Now(a, b, ms, r, k), Now(b, c, ls, row, col)
    PROVE  Now(a, c, ls, row, col)
  BY DEF Now

\* The cursor goes to a row of the text and to a column.
LEMMA CursorNow ==
    ASSUME NEW b \in Good
    PROVE  /\ \A n \in 0 .. Count(b) - 1 : Now(b, GotoLine(b, n), b.lines, n, b.col)
           /\ \A k \in Nat : Now(b, GotoCol(b, k), b.lines, b.row, k)
<1>1. ASSUME NEW n \in 0 .. Count(b) - 1 PROVE Now(b, GotoLine(b, n), b.lines, n, b.col)
  <2>1. n \in Int
    BY GoodParts
  <2> DEFINE c == GotoLine(b, n)
  <2>2. Goes(b, c) /\ c.col = b.col /\ c.row = n
    BY <2>1, GotoGoes
  <2> HIDE DEF c
  <2>3. Now(b, c, b.lines, n, b.col)
    BY <2>2 DEF Goes, Moved, Now, Column, Has
  <2> QED BY <2>3 DEF c
<1>2. ASSUME NEW k \in Nat PROVE Now(b, GotoCol(b, k), b.lines, b.row, k)
  <2> DEFINE c == GotoCol(b, k)
  <2>1. c = MoveCol(b, k) \/ c = SetCol(b, k)
    BY DEF GotoCol
  <2>2. Goes(b, c) /\ c.col = k /\ c.row = b.row
    BY <2>1, ColGoes
  <2> HIDE DEF c
  <2>3. Now(b, c, b.lines, b.row, k)
    BY <2>2 DEF Goes, Moved, Now, Column, Has
  <2> QED BY <2>3 DEF c
<1> QED BY <1>1, <1>2

\* Flags are set, but not that of the block mode.
LEMMA FlagColumn ==
    ASSUME NEW b \in Tracked, NEW flag \in Flags \ {"Tracking", "ColumnBlock"}, NEW on \in BOOLEAN
    PROVE  Column(SetFlag(b, flag, on)) <=> Column(b)
<1> DEFINE t == Track(b, "SetFlags", 0, b.flags \ {"Tracking", "Saved"})
           c == SetFlag(b, flag, on)
<1>1. b \in Buffers /\ b.flags \in SUBSET Flags
  BY BufferParts DEF Tracked
<1>2. t \in Buffers /\ t.flags = b.flags
  <2>1. b.flags \ {"Tracking", "Saved"} \in SUBSET Flags
    BY <1>1
  <2>2. [op |-> "SetFlags", n |-> 0, what |-> b.flags \ {"Tracking", "Saved"}] \in Notes
    BY <2>1, NoteTypes
  <2> DEFINE fs == b.flags \ {"Tracking", "Saved"}
  <2> HIDE DEF fs
  <2>3. Track(b, "SetFlags", 0, fs) \in Tracked /\ Moved(b, Track(b, "SetFlags", 0, fs))
    BY <2>2, TrackNotes DEF fs
  <2> QED BY <2>3 DEF Moved, Tracked, fs
<1>3. c = [t EXCEPT !.flags = IF on THEN @ \cup {flag} ELSE @ \ {flag}]
  BY DEF SetFlag
<1> HIDE DEF t, c
<1>4. c.flags = IF on THEN t.flags \cup {flag} ELSE t.flags \ {flag}
  BY <1>2, <1>3 DEF Buffers
<1> QED BY <1>2, <1>4 DEF Column, Has, c

\* The flags of the text and the mark.
LEMMA FlagsNow ==
    ASSUME NEW b \in Good
    PROVE  /\ Now(b, SetChanged(b, TRUE), b.lines, b.row, b.col)
           /\ Now(b, Unmark(b), b.lines, b.row, b.col)
           /\ Now(b, Modified(b), b.lines, b.row, b.col)
           /\ LET c == SetChanged(b, TRUE) IN c.mrow = b.mrow /\ c.mcol = b.mcol /\ (Marked(c) <=> Marked(b))
<1>1. ASSUME NEW x \in Good PROVE Column(SetChanged(x, TRUE)) <=> Column(x)
  <2> DEFINE t == SetFlag(x, "Changed", TRUE)
             c == SetFlag(t, "Saved", FALSE)
  <2>1. {"Changed", "Saved"} \subseteq Flags \ {"Tracking", "MarkState"}
        /\ {"Changed", "Saved"} \subseteq Flags \ {"Tracking", "ColumnBlock"}
    BY DEF Flags
  <2>2. x \in Tracked /\ TRUE \in BOOLEAN /\ FALSE \in BOOLEAN
    BY GoodParts
  <2>3. t \in Tracked
    BY <2>1, <2>2, SetFlagNoted
  <2>4. Column(t) <=> Column(x)
    BY <2>1, <2>2, FlagColumn
  <2> HIDE DEF t
  <2>5. Column(c) <=> Column(t)
    BY <2>1, <2>2, <2>3, FlagColumn
  <2> QED BY <2>4, <2>5 DEF SetChanged, t, c
<1>2. ASSUME NEW x \in Good PROVE Column(Unmark(x)) <=> Column(x)
  <2>1. x \in Tracked
    BY GoodParts
  <2> QED BY <2>1, UnmarkNoted DEF Column, Has
<1> DEFINE c == SetChanged(b, TRUE)
           u == Unmark(b)
           m == Modified(b)
<1>3. /\ c \in Good /\ Flagged(b, c) /\ Kept(b, c) /\ u \in Good /\ Flagged(b, u)
      /\ m \in Good /\ Flagged(b, m)
  BY FlagMethods DEF Makes
<1>4. (Column(c) <=> Column(b)) /\ (Column(u) <=> Column(b))
  BY <1>1, <1>2
<1>5. Column(m) <=> Column(b)
  <2>1. m = SetChanged(u, TRUE)
    BY DEF Modified
  <2> HIDE DEF m, u
  <2> QED BY <1>1, <1>3, <1>4, <2>1
<1> HIDE DEF c, u, m
<1>6. /\ Now(b, c, b.lines, b.row, b.col) /\ Now(b, u, b.lines, b.row, b.col) /\ Now(b, m, b.lines, b.row, b.col)
      /\ c.mrow = b.mrow /\ c.mcol = b.mcol /\ (Marked(c) <=> Marked(b))
  BY <1>3, <1>4, <1>5 DEF Now, Flagged, Kept
<1> QED BY <1>6 DEF c, u, m

\* The text becomes another with one note.
LEMMA TextNow ==
    ASSUME NEW b \in Good, NEW c, NEW ls, TextOf(b, c, ls), b.row < Len(ls)
    PROVE  Now(b, c, ls, b.row, b.col)
<1>1. Makes(b, c)
  BY TextMade
<1> QED BY <1>1 DEF Makes, TextOf, Edited, Now, Column, Has

\* The line of the cursor becomes another.
LEMMA LineNow ==
    ASSUME NEW b \in Good, NEW s \in Rows
    PROVE  Now(b, UpdateLine(b, s), [b.lines EXCEPT ![b.row + 1] = s], b.row, b.col)
<1> DEFINE ls == [b.lines EXCEPT ![b.row + 1] = s]
<1>1. b \in Tracked /\ b.row < Count(b) /\ b.row < Len(ls)
  <2>1. b.lines \in Seq(Rows) /\ b.row < Len(b.lines)
    BY GoodParts DEF Good
  <2> DEFINE ms == b.lines
  <2> HIDE DEF ms
  <2>2. DOMAIN [ms EXCEPT ![b.row + 1] = s] = DOMAIN ms
    OBVIOUS
  <2>3. Len([ms EXCEPT ![b.row + 1] = s]) = Len(ms)
    BY <2>1, <2>2, LenProperties DEF ms
  <2> QED BY <2>1, <2>3, GoodParts DEF Good, ms
<1>2. TextOf(b, UpdateLine(b, s), ls)
  BY <1>1, UpdateNoted
<1> HIDE DEF ls
<1> QED BY <1>1, <1>2, TextNow DEF ls

\* A line is noted whole and made another.
LEMMA RestoreNow ==
    ASSUME NEW b \in Good, NEW i \in Nat, i < Count(b), NEW s \in Rows
    PROVE  Now(b, RestoreStep(b, i, s), [b.lines EXCEPT ![i + 1] = s], b.row, b.col)
<1> DEFINE ls == [b.lines EXCEPT ![i + 1] = s]
           c == RestoreStep(b, i, s)
<1>1. TextOf(b, c, ls)
  BY GoodParts, RestoreNoted
<1>2. Count(c) = Count(b) /\ b.row < Count(b)
  BY RestoreEdits DEF Good
<1> HIDE DEF ls, c
<1>3. b.row < Len(ls)
  BY <1>1, <1>2 DEF TextOf, Count
<1> QED BY <1>1, <1>3, TextNow DEF ls, c

\* A line is put in.
LEMMA InsNow ==
    ASSUME NEW b \in Good, NEW i \in Nat, i <= Count(b), NEW s \in Rows
    PROVE  Now(b, InsStep(b, i, s), Put(b.lines, i, <<s>>), b.row, b.col)
<1> DEFINE ls == Put(b.lines, i, <<s>>)
           c == InsStep(b, i, s)
<1>1. TextOf(b, c, ls) /\ Count(c) = Count(b) + 1
  BY GoodParts, InsNoted
<1>2. b.row < Count(b) /\ Count(b) \in Nat /\ b.row \in Nat
  BY GoodParts DEF Good
<1> HIDE DEF ls, c
<1>3. b.row < Len(ls)
  BY <1>1, <1>2 DEF TextOf, Count
<1> QED BY <1>1, <1>3, TextNow DEF ls, c

\* The next line is joined to the one of the cursor.
LEMMA MergeNow ==
    ASSUME NEW b \in Good, b.row + 1 < Count(b)
    PROVE  LET i == b.row + 1
           IN Now(b, MergeNext(b), [Drop(b.lines, i, i + 1) EXCEPT ![i] = InsChars(AbsLine(b), b.col, Row(b, i))],
                  b.row, b.col)
<1> DEFINE i == b.row + 1
           d == DelStep(b, i)
           ls == Drop(b.lines, i, i + 1)
           t == Row(b, i)
           j == InsChars(AbsLine(b), b.col, t)
           c == UpdateLine(d, j)
<1>0. /\ b \in Tracked /\ b \in Buffers /\ i \in Nat /\ i < Count(b) /\ b.col \in Int /\ b.row \in Nat /\ b.row < i
      /\ Count(b) \in Nat /\ Count(b) = Len(b.lines) /\ b.lines \in Seq(Rows) /\ AbsLine(b) \in Rows
  BY GoodParts
<1>1. t \in Rows
  BY <1>0, RowType
<1>2. TextOf(b, d, ls) /\ Count(d) = Count(b) - 1 /\ Track(RemoveRow(b, i), "InsLine", i, t) = d
  BY <1>0, DelNoted
<1>3. j \in Rows
  BY <1>0, <1>1, RowLength, InsCharsType DEF Rows
<1>4. MergeNext(b) = LineIns(d, b.col, t)
  BY <1>0, <1>2 DEF MergeNext
<1>5. IsDrop(ls, Rows, b.lines, Count(b), i, i + 1)
  <2>1. i + 1 \in i .. Len(b.lines)
    BY <1>0
  <2> HIDE DEF i
  <2> QED BY <1>0, <2>1, DropIs
<1> HIDE DEF d, ls, t, j, i
<1>6. Len(ls) = Count(b) - 1 /\ b.row < Len(ls)
  <2>1. Len(ls) = Count(d)
    BY <1>2 DEF TextOf, Count
  <2> QED BY <1>0, <1>2, <2>1 DEF i
<1>7. Now(b, d, ls, b.row, b.col)
  BY <1>2, <1>6, TextNow
<1>8. AbsLine(d) = AbsLine(b)
  <2>1. d.lines = ls /\ d.row = b.row
    BY <1>7 DEF Now
  <2>2. b.row + 1 \in 1 .. Count(b) - (i + 1 - i) /\ b.row + 1 <= i
    BY <1>0, <1>6 DEF i
  <2>3. ls[b.row + 1] = b.lines[b.row + 1]
    <3> DEFINE k == b.row + 1
               m == i + 1
    <3>1. k \in 1 .. Count(b) - (m - i) /\ k <= i
      BY <1>0, <1>6, <2>2
    <3>2. IsDrop(ls, Rows, b.lines, Count(b), i, m)
      BY <1>5
    <3> HIDE DEF k, m
    <3>3. ls[k] = b.lines[k]
      BY <3>1, <3>2 DEF IsDrop
    <3> QED BY <3>3 DEF k
  <2>4. AbsLine(d) = d.lines[d.row + 1] /\ AbsLine(b) = b.lines[b.row + 1]
    BY <1>0, <1>6, <2>1 DEF AbsLine, Row, Count
  <2> QED BY <2>1, <2>3, <2>4
<1>9. LineIns(d, b.col, t) = c
  BY <1>8 DEF LineIns, j
<1> HIDE DEF c
<1>10. Now(d, c, [d.lines EXCEPT ![d.row + 1] = j], d.row, d.col)
  BY <1>3, <1>7, LineNow DEF Now, c
<1>11. Now(b, c, [ls EXCEPT ![i] = j], b.row, b.col)
  <2>1. d.lines = ls /\ d.row + 1 = i /\ d.row = b.row /\ d.col = b.col
    BY <1>7 DEF Now, i
  <2> QED BY <1>7, <1>10, <2>1, NowOn
<1> QED BY <1>4, <1>9, <1>11 DEF i, ls, j, t

\* Delete behind the end of a line joins the next one.
LEMMA DelCharNow ==
    ASSUME NEW b \in Good, b.row + 1 < Count(b), b.col >= Len(AbsLine(b))
    PROVE  LET i == b.row + 1
           IN Now(b, DelChar(b), [Drop(b.lines, i, i + 1) EXCEPT ![i] = InsChars(AbsLine(b), b.col, Row(b, i))],
                  b.row, b.col)
<1> DEFINE a == Modified(b)
           i == b.row + 1
<1>1. Now(b, a, b.lines, b.row, b.col)
  BY FlagsNow
<1> HIDE DEF a
<1>2. a \in Good /\ a.lines = b.lines /\ a.row = b.row /\ a.col = b.col
  BY <1>1 DEF Now
<1>3. AbsLine(a) = AbsLine(b) /\ Row(a, i) = Row(b, i) /\ Count(a) = Count(b)
  BY <1>2 DEF AbsLine, Row, Count
<1>4. DropBlanks(a) = a
  <2>1. AbsLine(a) \in Rows /\ a.col \in Nat /\ Len(AbsLine(a)) \in Nat
    BY <1>2, GoodParts
  <2>2. CharAt(AbsLine(a), a.col) = Nul
    BY <1>2, <1>3, <2>1 DEF CharAt
  <2>3. Nul # Blank
    BY DEF Nul, Blank
  <2> QED BY <2>2, <2>3 DEF DropBlanks, AllBlankFrom
<1>5. DelChar(b) = MergeNext(a)
  <2>1. DelChar(b) = DelOrMerge(DropBlanks(a))
    BY DEF DelChar, a
  <2>2. DelOrMerge(a) = MergeNext(a)
    BY <1>2, <1>3 DEF DelOrMerge
  <2> QED BY <1>4, <2>1, <2>2
<1>6. Now(a, MergeNext(a), [Drop(a.lines, a.row + 1, a.row + 1 + 1) EXCEPT ![a.row + 1] =
             InsChars(AbsLine(a), a.col, Row(a, a.row + 1))], a.row, a.col)
  BY <1>2, <1>3, MergeNow
<1>7. Now(a, MergeNext(a), [Drop(b.lines, i, i + 1) EXCEPT ![i] = InsChars(AbsLine(b), b.col, Row(b, i))], b.row, b.col)
  BY <1>2, <1>3, <1>6
<1> DEFINE ls == [Drop(b.lines, i, i + 1) EXCEPT ![i] = InsChars(AbsLine(b), b.col, Row(b, i))]
<1> HIDE DEF ls
<1>8. Now(b, MergeNext(a), ls, b.row, b.col)
  BY <1>1, <1>7, NowOn DEF ls
<1> QED BY <1>5, <1>8 DEF ls

\* The rows between the ends of a block are taken out, and the cursor is set on the upper end.
LEMMA DropRowsNow ==
    ASSUME NEW b \in Good, NEW beg \in Nat, NEW end \in Nat, beg < end, end < Count(b)
    PROVE  Now(b, GotoLine(DropRows(b, beg, end), beg), Drop(b.lines, beg + 1, end), beg, b.col)
<1> DEFINE d == DropRows(b, beg, end)
           c == GotoLine(d, beg)
           i == beg + 1
           ls == Drop(b.lines, i, end)
<1>0. /\ b \in Tracked /\ b \in Buffers /\ b.lines \in Seq(Rows) /\ Count(b) \in Nat /\ Count(b) = Len(b.lines)
      /\ beg \in 0 .. Count(b) - 1 /\ i \in Nat /\ i <= end /\ end <= Count(b)
  BY GoodParts
<1>1. IsDrop(ls, Rows, b.lines, Count(b), i, end)
  <2>1. end \in i .. Len(b.lines)
    BY <1>0
  <2> HIDE DEF i
  <2> QED BY <1>0, <2>1, DropIs
<1>2. CASE end <= beg + 1
  <2>1. d = b
    BY <1>2 DEF DropRows
  <2>2. ls = b.lines
    <3> DEFINE ms == b.lines
               R == Rows
    <3>1. ms \in Seq(R) /\ Len(ms) = Count(b)
      BY <1>0
    <3>2. end - i = 0 /\ Count(b) - (end - i) = Count(b)
      BY <1>0, <1>2
    <3> HIDE DEF ls, ms, R, i
    <3>3. ls \in Seq(R) /\ Len(ls) = Len(ms) /\ \A k \in 1 .. Len(ms) : ls[k] = ms[k]
      <4>1. ls \in Seq(R) /\ Len(ls) = Len(ms)
        BY <1>1, <3>1, <3>2 DEF IsDrop, R
      <4>2. ASSUME NEW k \in 1 .. Len(ms) PROVE ls[k] = ms[k]
        <5>1. k \in 1 .. Count(b) - (end - i) /\ k + (end - i) = k
          BY <3>1, <3>2
        <5> QED BY <1>1, <5>1 DEF IsDrop, ms
      <4> QED BY <4>1, <4>2
    <3>4. ls = [k \in 1 .. Len(ls) |-> ls[k]] /\ ms = [k \in 1 .. Len(ms) |-> ms[k]]
      BY <3>1, <3>3
    <3>5. ls = ms
      BY <3>3, <3>4
    <3> QED BY <3>5 DEF ms
  <2> HIDE DEF d, ls
  <2>3. Now(b, c, b.lines, beg, b.col)
    <3>1. c = GotoLine(b, beg)
      BY <2>1
    <3> HIDE DEF c
    <3> QED BY <1>0, <3>1, CursorNow
  <2> QED BY <2>2, <2>3 DEF ls, c, d, i
<1>3. CASE ~(end <= beg + 1)
  <2> DEFINE t == Track(b, "InsBlock", i, SubSeq(b.lines, i + 1, end))
             e == [t EXCEPT !.lines = ls]
  <2>1. d = e
    <3>1. i + 1 = beg + 2 /\ Smaller(end, Count(b)) = end
      BY <1>0 DEF Smaller
    <3>2. t.lines = b.lines
      <4> HIDE DEF i
      <4> QED BY <1>0, BlockNoted
    <3>3. d = [t EXCEPT !.lines = SubSeq(@, 1, beg + 1) \o SubSeq(@, end + 1, Len(@))]
      <4>1. d = [Track(b, "InsBlock", beg + 1, SubSeq(b.lines, beg + 2, Smaller(end, Count(b)))) EXCEPT
             !.lines = SubSeq(@, 1, beg + 1) \o SubSeq(@, end + 1, Len(@))]
        BY <1>3, Zenon DEF DropRows
      <4>2. t = Track(b, "InsBlock", beg + 1, SubSeq(b.lines, beg + 2, Smaller(end, Count(b))))
        BY <3>1
      <4> QED BY <4>1, <4>2, Zenon
    <3> HIDE DEF t
    <3>4. d = [t EXCEPT !.lines = SubSeq(t.lines, 1, beg + 1) \o SubSeq(t.lines, end + 1, Len(t.lines))]
      BY <3>3
    <3> HIDE DEF d
    <3> QED BY <3>2, <3>4 DEF Drop
  <2>2. TextOf(b, e, ls)
    <3> HIDE DEF i
    <3> QED BY <1>0, BlockNoted
  <2>3. Len(ls) = Count(b) - (end - i)
    BY <1>1 DEF IsDrop
  <2> HIDE DEF e, ls, t, d
  <2>4. d \in Tracked /\ Edited(b, d) /\ d.lines = ls /\ Count(d) = Count(b) - (end - i)
    BY <2>1, <2>2, <2>3 DEF TextOf, Count
  <2>5. beg \in 0 .. Count(d) - 1
    BY <1>0, <2>4
  <2>6. c = SetRow(d, beg)
    BY <2>5 DEF GotoLine
  <2> HIDE DEF c
  <2>7. c \in Tracked /\ Moved(d, c) /\ c.row = beg /\ c.col = d.col
    BY <2>4, <2>6, SetRowNoted
  <2>8. c \in Good
    BY <2>4, <2>5, <2>7 DEF Good, Moved, Count
  <2>9. Now(b, c, ls, beg, b.col)
    BY <2>4, <2>7, <2>8 DEF Now, Edited, Moved, Column, Has
  <2> QED BY <2>9 DEF c, ls, d
<1> QED BY <1>2, <1>3

-----------------------------------------------------------------------------
(***************************************************************************)
(* Cut.                                                                    *)
(***************************************************************************)
\* ls is ms, of length n, where d rows more than row beg have become the row j
IsGap(ls, ms, n, beg, d, j) ==
    /\ ls \in Seq(Rows) /\ Len(ls) = n - d
    /\ \A k \in 1 .. n - d : ls[k] = IF k <= beg THEN ms[k] ELSE IF k = beg + 1 THEN j ELSE ms[k + d]

\* What comes of rows of which two become others, those between them go, and the two are joined.
GapMade(ms, beg, end, h, t, j) ==
    LET ns == [[ms EXCEPT ![beg + 1] = h] EXCEPT ![end + 1] = t]
        ps == Drop(ns, beg + 1, end)
        ls == [Drop(ps, beg + 1, beg + 1 + 1) EXCEPT ![beg + 1] = j]
    IN /\ ns \in Seq(Rows) /\ Len(ns) = Len(ms)
       /\ ps \in Seq(Rows) /\ beg + 2 <= Len(ps) /\ ps[beg + 1] = h /\ ps[beg + 2] = t
       /\ IsGap(ls, ms, Len(ms), beg, end - beg, j)

\* The gap is there once the rows between are gone.
LEMMA GapIs ==
    ASSUME NEW ms \in Seq(Rows), NEW beg \in Nat, NEW end \in Nat, beg < end, end < Len(ms),
           NEW h \in Rows, NEW t \in Rows, NEW j \in Rows
    PROVE  GapMade(ms, beg, end, h, t, j)
<1> DEFINE R == Rows
           n == Len(ms)
           i == beg + 1
           ns == [[ms EXCEPT ![beg + 1] = h] EXCEPT ![end + 1] = t]
           ps == Drop(ns, i, end)
           qs == Drop(ps, i, i + 1)
           ls == [qs EXCEPT ![i] = j]
           p == n - (end - i)
           q == p - 1
<1>0. /\ n \in Nat /\ i \in Nat /\ ms \in Seq(R) /\ h \in R /\ t \in R /\ j \in R /\ beg \in Nat /\ end \in Nat /\ i <= end
      /\ end < n /\ i = beg + 1 /\ p \in Nat /\ q \in Nat /\ q = n - (end - beg) /\ i + 1 <= p /\ i <= q
      /\ p = n - (end - i) /\ q = p - (i + 1 - i) /\ i + 1 - i = 1 /\ i + 1 \in Nat
  BY LenProperties
<1> HIDE DEF R
<1>1. ns \in Seq(R) /\ Len(ns) = n /\ \A k \in 1 .. n : ns[k] = IF k = i THEN h ELSE IF k = end + 1 THEN t ELSE ms[k]
  BY <1>0
<1> HIDE DEF ns
<1>2. IsDrop(ps, R, ns, n, i, end)
  <2>1. end \in i .. Len(ns)
    BY <1>0, <1>1
  <2>2. IsDrop(ps, R, ns, Len(ns), i, end)
    <3> HIDE DEF i
    <3> QED BY <1>0, <1>1, <2>1, DropIs
  <2> HIDE DEF n, ps
  <2> QED BY <1>1, <2>2
<1> HIDE DEF ps, i, p, q, n
<1>3. ps \in Seq(R) /\ Len(ps) = p /\ \A k \in 1 .. p : ps[k] = IF k <= i THEN ns[k] ELSE ns[k + (end - i)]
  BY <1>0, <1>2 DEF IsDrop
<1>4. ps[i] = h /\ ps[i + 1] = t
  <2>1. i \in 1 .. p /\ i \in 1 .. n /\ i + 1 \in 1 .. p /\ i + 1 + (end - i) = end + 1 /\ end + 1 \in 1 .. n /\ ~(i + 1 <= i)
        /\ end + 1 # i
    BY <1>0
  <2>2. ps[i] = ns[i] /\ ps[i + 1] = ns[end + 1]
    BY <1>0, <1>3, <2>1
  <2> QED BY <1>1, <2>1, <2>2
<1>5. qs \in Seq(R) /\ Len(qs) = q /\ \A k \in 1 .. q : qs[k] = IF k <= i THEN ps[k] ELSE ps[k + 1]
  <2>1. IsDrop(qs, R, ps, p, i, i + 1)
    <3>1. i + 1 \in i .. Len(ps)
      BY <1>0, <1>3
    <3>2. IsDrop(qs, R, ps, Len(ps), i, i + 1)
      BY <1>0, <1>3, <3>1, DropIs
    <3> QED BY <1>3, <3>2
  <2> HIDE DEF qs
  <2> DEFINE m == i + 1
  <2>2. IsDrop(qs, R, ps, p, i, m) /\ m - i = 1 /\ p - 1 = q
    BY <1>0, <2>1 DEF q
  <2> HIDE DEF m
  <2> QED BY <2>2 DEF IsDrop
<1> HIDE DEF qs
<1>6. ls \in Seq(R) /\ Len(ls) = q /\ \A k \in 1 .. q : ls[k] = IF k = i THEN j ELSE qs[k]
  BY <1>0, <1>5
<1> HIDE DEF ls
<1>7. ASSUME NEW k \in 1 .. q
      PROVE  ls[k] = IF k <= beg THEN ms[k] ELSE IF k = beg + 1 THEN j ELSE ms[k + (end - beg)]
  <2>1. CASE k <= beg
    <3>1. k # i /\ k <= i /\ k \in 1 .. p /\ k \in 1 .. n /\ k # end + 1
      BY <1>0, <2>1
    <3>2. ls[k] = ps[k] /\ ps[k] = ns[k]
      BY <1>3, <1>5, <1>6, <3>1
    <3> QED BY <1>1, <2>1, <3>1, <3>2
  <2>2. CASE k = i
    BY <1>0, <1>6, <2>2
  <2>3. CASE k > i
    <3> DEFINE m == k + 1
               z == k + (end - beg)
    <3>1. k # i /\ ~(k <= i) /\ m \in 1 .. p /\ ~(m <= i) /\ z \in 1 .. n /\ z # i /\ z # end + 1 /\ m + (end - i) = z
          /\ ~(k <= beg)
      BY <1>0, <2>3
    <3> HIDE DEF m, z
    <3>2. ls[k] = ps[m]
      BY <1>5, <1>6, <3>1 DEF m
    <3>3. ps[m] = ns[z]
      BY <1>3, <3>1
    <3>4. ns[z] = ms[z]
      BY <1>1, <3>1
    <3> QED BY <1>0, <3>1, <3>2, <3>3, <3>4 DEF z
  <2> QED BY <1>0, <2>1, <2>2, <2>3
<1>8. IsGap(ls, ms, n, beg, end - beg, j)
  BY <1>0, <1>6, <1>7 DEF IsGap, R
<1>9. ns \in Seq(Rows) /\ ps \in Seq(Rows) /\ beg + 2 <= Len(ps) /\ ps[beg + 1] = h /\ ps[beg + 2] = t
  <2>1. beg + 2 = i + 1
    BY <1>0
  <2> QED BY <1>0, <1>1, <1>3, <1>4, <2>1 DEF R
<1> QED BY <1>1, <1>8, <1>9 DEF GapMade, ls, qs, ps, ns, i, n

\* A stream block is cleared: what is left of its first row and its last is one row.
LEMMA ClearedStream ==
    ASSUME NEW b \in Good, ~StaleMark(b), BegRow(b) < EndRow(b)
    PROVE  LET beg == BegRow(b)
               end == EndRow(b)
               from == BegCol(b)
               h == DelChars(Row(b, beg), from, Len(Row(b, beg)) - from)
               t == DelChars(Row(b, end), 0, EndCol(b))
           IN \E ls : /\ Now(b, ClearStream(b), ls, beg, from)
                      /\ IsGap(ls, b.lines, Count(b), beg, end - beg, InsChars(h, from, t))
<1> DEFINE beg == BegRow(b)
           end == EndRow(b)
           from == BegCol(b)
           to == EndCol(b)
           n == Count(b)
           ms == b.lines
           s0 == Row(b, beg)
           s1 == Row(b, end)
           h == DelChars(s0, from, Len(s0) - from)
           t == DelChars(s1, 0, to)
           j == InsChars(h, from, t)
           ls2 == [ms EXCEPT ![beg + 1] = h]
           ns == [ls2 EXCEPT ![end + 1] = t]
           ps == Drop(ns, beg + 1, end)
           ls == [Drop(ps, beg + 1, beg + 1 + 1) EXCEPT ![beg + 1] = j]
           c1 == GotoLine(b, beg)
           c2 == CutLine(c1, from)
           c3 == GotoLine(c2, end)
           c4 == LineDel(c3, 0, to)
           c5 == GotoLine(DropRows(c4, beg, end), beg)
           c6 == GotoCol(c5, from)
           c7 == DelChar(c6)
           c8 == Unmark(c7)
<1>0. ClearStream(b) = c8
  <2>1. ClearStream(b) = IF StaleMark(b) /\ to > 0 THEN Trap(b) ELSE c8
    BY Zenon DEF ClearStream, c8, c7, c6, c5, c4, c3, c2, c1, beg, end, from, to
  <2> QED BY <2>1
<1>1. /\ beg \in Nat /\ end \in Nat /\ beg < end /\ end < n /\ n = Len(ms) /\ n \in Nat /\ ms \in Seq(Rows)
      /\ from \in Nat /\ to \in Nat /\ beg \in 0 .. n - 1 /\ end \in 0 .. n - 1 /\ b \in Buffers
  BY BlockParts, GoodParts
<1> HIDE DEF beg, end, from, to
<1>2. s0 \in Rows /\ s1 \in Rows /\ s0 = ms[beg + 1] /\ s1 = ms[end + 1]
  <2>1. s0 \in Rows /\ s1 \in Rows
    BY <1>1, RowType
  <2> QED BY <1>1, <2>1 DEF Row
<1> HIDE DEF s0, s1
<1>3. h \in Rows /\ Len(h) <= from /\ t \in Rows
  <2>1. t \in Rows
    BY <1>1, <1>2, LastRow
  <2> HIDE DEF t
  <2> QED BY <1>1, <1>2, <2>1, FirstRow
<1> HIDE DEF h, t
<1>4. j \in Rows
  BY <1>1, <1>3, JoinedIs DEF IsJoined
<1> HIDE DEF j
<1>5. /\ ns \in Seq(Rows) /\ Len(ns) = n /\ ps \in Seq(Rows) /\ beg + 2 <= Len(ps) /\ ps[beg + 1] = h
      /\ ps[beg + 2] = t /\ IsGap(ls, ms, n, beg, end - beg, j)
  <2> HIDE DEF ms, n
  <2>1. end < Len(ms) /\ ms \in Seq(Rows)
    BY <1>1
  <2>2. /\ ns \in Seq(Rows) /\ Len(ns) = Len(ms) /\ ps \in Seq(Rows) /\ beg + 2 <= Len(ps) /\ ps[beg + 1] = h
        /\ ps[beg + 2] = t /\ IsGap(ls, ms, Len(ms), beg, end - beg, j)
    <3>1. GapMade(ms, beg, end, h, t, j)
      BY <1>1, <1>3, <1>4, <2>1, GapIs
    <3> QED BY <3>1, Zenon DEF GapMade
  <2> QED BY <1>1, <2>2
<1> HIDE DEF ps, ls
<1>6. Now(b, c1, ms, beg, b.col)
  BY <1>1, CursorNow
<1> HIDE DEF c1
<1>7. Now(b, c2, ls2, beg, b.col)
  <2>1. c1 \in Good /\ c1.lines = ms /\ c1.row = beg /\ c1.col = b.col
    BY <1>6 DEF Now
  <2>2. AbsLine(c1) = s0
    BY <2>1 DEF AbsLine, Row, Count, s0
  <2>3. c2 = UpdateLine(c1, h)
    BY <2>2 DEF CutLine, LineDel, h
  <2>4. Now(c1, UpdateLine(c1, h), [c1.lines EXCEPT ![c1.row + 1] = h], c1.row, c1.col)
    BY <1>3, <2>1, LineNow
  <2> HIDE DEF c2
  <2>5. Now(c1, c2, ls2, beg, b.col)
    BY <2>1, <2>3, <2>4
  <2> HIDE DEF ls2, ms
  <2> QED BY <1>6, <2>5, NowOn
<1> HIDE DEF c2
<1>8. Len(ls2) = n /\ ls2 \in Seq(Rows) /\ ls2[end + 1] = s1
  <2> DEFINE R == Rows
  <2>1. ms \in Seq(R) /\ h \in R
    BY <1>1, <1>3
  <2> HIDE DEF R, ms, n
  <2>2. Len(ls2) = n /\ ls2 \in Seq(R) /\ ls2[end + 1] = ms[end + 1]
    BY <1>1, <2>1
  <2> QED BY <1>2, <2>2 DEF R, ms
<1> HIDE DEF ls2
<1>9. Now(b, c3, ls2, end, b.col)
  <2>1. c2 \in Good /\ c2.lines = ls2 /\ c2.col = b.col /\ Count(c2) = n
    BY <1>7, <1>8 DEF Now, Count
  <2>2. Now(c2, c3, ls2, end, b.col)
    BY <1>1, <2>1, CursorNow
  <2> HIDE DEF c3
  <2> QED BY <1>7, <2>2, NowOn
<1> HIDE DEF c3
<1>10. Now(b, c4, ns, end, b.col)
  <2>1. c3 \in Good /\ c3.lines = ls2 /\ c3.row = end /\ c3.col = b.col
    BY <1>9 DEF Now
  <2>2. AbsLine(c3) = s1
    BY <1>1, <1>8, <2>1 DEF AbsLine, Row, Count
  <2>3. c4 = UpdateLine(c3, t)
    BY <2>2 DEF LineDel, t
  <2>4. Now(c3, UpdateLine(c3, t), [c3.lines EXCEPT ![c3.row + 1] = t], c3.row, c3.col)
    BY <1>3, <2>1, LineNow
  <2> HIDE DEF c4
  <2>5. Now(c3, c4, ns, end, b.col)
    BY <2>1, <2>3, <2>4
  <2> HIDE DEF ns
  <2> QED BY <1>9, <2>5, NowOn
<1> HIDE DEF c4, ns
<1>11. Now(b, c5, ps, beg, b.col)
  <2>1. c4 \in Good /\ c4.lines = ns /\ c4.col = b.col /\ Count(c4) = n
    BY <1>5, <1>10 DEF Now, Count
  <2>2. Now(c4, c5, Drop(c4.lines, beg + 1, end), beg, c4.col)
    BY <1>1, <2>1, DropRowsNow
  <2> HIDE DEF c5
  <2>3. Now(c4, c5, ps, beg, b.col)
    BY <2>1, <2>2 DEF ps
  <2> QED BY <1>10, <2>3, NowOn
<1> HIDE DEF c5
<1>12. Now(b, c6, ps, beg, from)
  <2>1. c5 \in Good /\ c5.lines = ps /\ c5.row = beg
    BY <1>11 DEF Now
  <2>2. Now(c5, c6, ps, beg, from)
    BY <1>1, <2>1, CursorNow
  <2> HIDE DEF c6
  <2> QED BY <1>11, <2>2, NowOn
<1> HIDE DEF c6
<1>13. Now(b, c7, ls, beg, from)
  <2>1. c6 \in Good /\ c6.lines = ps /\ c6.row = beg /\ c6.col = from /\ Len(ps) \in Nat
    BY <1>5, <1>12, LenProperties DEF Now
  <2>2. AbsLine(c6) = h /\ Row(c6, beg + 1) = t /\ c6.row + 1 < Count(c6)
    BY <1>1, <1>5, <2>1 DEF AbsLine, Row, Count
  <2>3. Now(c6, c7, [Drop(c6.lines, c6.row + 1, c6.row + 1 + 1) EXCEPT ![c6.row + 1] =
               InsChars(AbsLine(c6), c6.col, Row(c6, c6.row + 1))], c6.row, c6.col)
    <3>1. c6.col >= Len(AbsLine(c6))
      BY <1>1, <1>3, <2>1, <2>2, RowLength
    <3> QED BY <2>1, <2>2, <3>1, DelCharNow
  <2> HIDE DEF c7
  <2>4. Now(c6, c7, ls, beg, from)
    BY <2>1, <2>2, <2>3 DEF ls, j
  <2> QED BY <1>12, <2>4, NowOn
<1> HIDE DEF c7
<1>14. Now(b, c8, ls, beg, from)
  <2>1. c7 \in Good /\ c7.lines = ls /\ c7.row = beg /\ c7.col = from
    BY <1>13 DEF Now
  <2>2. Now(c7, c8, ls, beg, from)
    BY <2>1, FlagsNow
  <2> HIDE DEF c8
  <2> QED BY <1>13, <2>2, NowOn
<1> HIDE DEF c8
<1>15. Now(b, ClearStream(b), ls, beg, from) /\ IsGap(ls, b.lines, Count(b), beg, end - beg, j)
  BY <1>0, <1>5, <1>14
<1> QED BY <1>15 DEF beg, end, from, j, h, t, s0, s1, to

\* The notes of a column block change nothing else.
LEMMA NotesKeep ==
    ASSUME NEW b \in Good, ~StaleMark(b)
    PROVE  LET t == BlockNotes(b) IN t \in Tracked /\ Moved(b, t) /\ Edited(b, t)
<1> DEFINE n == EndRow(b) - BegRow(b) + 1
           rows == BlockRows(b)
           beg == BegRow(b)
           size == Count(b)
<1>0. /\ n \in Nat /\ beg \in Nat /\ beg + n <= size /\ size \in Nat /\ b \in Tracked /\ b \in Buffers
  <2> DEFINE end == EndRow(b)
  <2>1. beg \in Nat /\ end \in Nat /\ beg <= end /\ end < size
    BY BlockParts
  <2>2. size \in Nat /\ b \in Tracked /\ b \in Buffers
    BY GoodParts
  <2> HIDE DEF beg, end, size
  <2>3. n = end - beg + 1
    BY DEF beg, end
  <2> QED BY <2>1, <2>2, <2>3
<1>1. DOMAIN rows = 1 .. n /\ \A k \in 1 .. n : rows[k] = beg + k - 1
  BY DEF BlockRows
<1> HIDE DEF rows, n, beg
<1>2. PICK a : NoteFold!IsTrace(a, b, b, rows, n)
  BY <1>0, <1>1, NoteFold!FoldTrace
<1>3. /\ a[0] = b
      /\ \A k \in 1 .. n : a[k] = Track(a[k - 1], "RestoreLine", rows[k], Row(b, rows[k]))
      /\ NoteFold!Fold(b, b, rows) = a[n]
  BY <1>2 DEF NoteFold!IsTrace, NoteRound
<1>4. BlockNotes(b) = a[n]
  <2>1. FoldLeft(LAMBDA t, i : Track(t, "RestoreLine", i, Row(b, i)), b, rows) = NoteFold!Fold(b, b, rows)
    BY DEF NoteFold!Fold, NoteRound, FoldLeft, MapThenFoldSet, Max,
           NoteFold!FoldLeft, NoteFold!MapThenFoldSet, NoteFold!Max
  <2> QED BY <1>3, <2>1, Zenon DEF BlockNotes, rows
<1> DEFINE T == {k \in 0 .. n : a[k] \in Tracked /\ Moved(b, a[k]) /\ Edited(b, a[k])}
<1>5. 0 \in T
  BY <1>0, <1>3 DEF Moved, Edited
<1>6. ASSUME NEW k \in 1 .. n, k - 1 \in T PROVE k \in T
  <2> DEFINE i == rows[k]
             s == Row(b, i)
             p == a[k - 1]
             t == Track(p, "RestoreLine", i, s)
  <2>1. p \in Tracked /\ Moved(b, p) /\ Edited(b, p) /\ k \in 0 .. n /\ a[k] = t
    BY <1>3, <1>6
  <2>2. i \in Nat
    BY <1>0, <1>1
  <2>3. s \in Rows
    <3> HIDE DEF i
    <3> QED BY <1>0, <2>2, RowType
  <2> HIDE DEF i, s, p
  <2>4. [op |-> "RestoreLine", n |-> i, what |-> s] \in Notes
    BY <2>2, <2>3, NoteTypes
  <2>5. t \in Tracked /\ Moved(p, t) /\ Edited(p, t)
    BY <2>1, <2>4, TrackNotes
  <2> HIDE DEF t
  <2>6. Moved(b, t) /\ Edited(b, t)
    BY <2>1, <2>5 DEF Moved, Edited
  <2> QED BY <2>1, <2>5, <2>6
<1> HIDE DEF T
<1>7. n \in T
  BY <1>0, <1>5, <1>6, NoteFold!IntervalIsIn
<1>8. a[n] \in Tracked /\ Moved(b, a[n]) /\ Edited(b, a[n])
  BY <1>7 DEF T
<1> QED BY <1>4, <1>8

\* The rows of the block become the rows f says.
IsRewritten(ls, b, f) ==
    /\ ls \in Seq(Rows) /\ Len(ls) = Count(b)
    /\ \A k \in 1 .. Count(b) : ls[k] = IF k - 1 \in BegRow(b) .. EndRow(b) THEN f[k - 1] ELSE b.lines[k]

\* The rows of a block are rewritten.
LEMMA RewrittenNow ==
    ASSUME NEW b \in Good, ~StaleMark(b), NEW f, \A i \in Nat : f[i] \in Rows
    PROVE  \E ls : IsRewritten(ls, b, f) /\ Now(b, Rewritten(b, f), ls, b.row, b.col)
<1> DEFINE R == Rows
           rs == b.lines
           n == Count(b)
           beg == BegRow(b)
           end == EndRow(b)
           ls == [i \in 1 .. n |-> IF i - 1 \in beg .. end THEN f[i - 1] ELSE rs[i]]
           t == BlockNotes(b)
           c == Rewritten(b, f)
<1>1. rs \in Seq(R) /\ n = Len(rs) /\ n \in Nat /\ b.row < n /\ \A i \in Nat : f[i] \in R
  BY GoodParts DEF Good
<1> HIDE DEF R, rs, n, beg, end
<1>2. ls \in Seq(R) /\ Len(ls) = n /\ \A k \in 1 .. n : ls[k] = IF k - 1 \in beg .. end THEN f[k - 1] ELSE rs[k]
  BY <1>1
<1>3. t \in Tracked /\ Moved(b, t) /\ Edited(b, t)
  BY NotesKeep
<1>4. c = [t EXCEPT !.lines = [i \in 1 .. Len(@) |-> IF i - 1 \in BegRow(b) .. EndRow(b) THEN f[i - 1] ELSE @[i]]]
  BY DEF Rewritten
<1> HIDE DEF t, c
<1>5. c = [t EXCEPT !.lines = [i \in 1 .. Len(t.lines) |-> IF i - 1 \in beg .. end THEN f[i - 1] ELSE t.lines[i]]]
  BY <1>4 DEF beg, end
<1>6. t.lines = rs
  BY <1>3 DEF Moved, rs
<1>7. c = [t EXCEPT !.lines = ls]
  BY <1>1, <1>5, <1>6
<1> HIDE DEF ls
<1>8. t \in Buffers /\ ls \in Seq(Rows)
  BY <1>2, <1>3 DEF Tracked, R
<1>9. c \in Buffers /\ c.lines = ls /\ c.flags = t.flags /\ c.trap = t.trap /\ c.row = t.row /\ c.col = t.col
  <2>1. c \in Buffers /\ Edited(t, c) /\ c.lines = ls
    BY <1>7, <1>8, LinesParts
  <2> QED BY <2>1 DEF Edited
<1>10. c \in Good
  BY <1>1, <1>2, <1>3, <1>9 DEF Good, Tracked, Has, Count, Edited
<1>11. Now(b, c, ls, b.row, b.col)
  BY <1>3, <1>9, <1>10 DEF Now, Edited, Column, Has
<1>12. IsRewritten(ls, b, f)
  BY <1>2 DEF IsRewritten, R, n, beg, end, rs
<1> QED BY <1>11, <1>12 DEF c

\* The cursor goes to the corner.
LEMMA CornerNow ==
    ASSUME NEW b \in Good, NEW row \in 0 .. Count(b) - 1, NEW col \in Nat
    PROVE  Now(b, ToCorner(b, row, col), b.lines, row, col)
<1> DEFINE x == IF b.col # col THEN GotoCol(b, col) ELSE b
           y == IF b.row # row THEN GotoLine(x, row) ELSE x
           z == Unmark(y)
<1>0. Now(b, b, b.lines, b.row, b.col)
  BY DEF Now
<1>1. Now(b, x, b.lines, b.row, col)
  BY <1>0, CursorNow
<1> HIDE DEF x
<1>2. x \in Good /\ x.lines = b.lines /\ x.row = b.row /\ x.col = col /\ Count(x) = Count(b)
  BY <1>1 DEF Now, Count
<1>3. Now(b, y, b.lines, row, col)
  <2>1. CASE b.row # row
    <3>1. Now(x, GotoLine(x, row), b.lines, row, col)
      BY <1>2, CursorNow
    <3>2. y = GotoLine(x, row)
      BY <2>1
    <3> HIDE DEF y
    <3> QED BY <1>1, <3>1, <3>2, NowOn
  <2>2. CASE b.row = row
    BY <1>1, <2>2
  <2> QED BY <2>1, <2>2
<1> HIDE DEF y
<1>4. y \in Good /\ y.lines = b.lines /\ y.row = row /\ y.col = col
  BY <1>3 DEF Now
<1>5. Now(y, z, b.lines, row, col)
  BY <1>4, FlagsNow
<1> HIDE DEF z
<1>6. Now(b, z, b.lines, row, col)
  BY <1>3, <1>5, NowOn
<1> QED BY <1>6 DEF ToCorner, x, y, z

\* A column block is cleared.
LEMMA ClearedColumns ==
    ASSUME NEW b \in Good, ~StaleMark(b)
    PROVE  LET f == [i \in Nat |-> DelChars(Row(b, i), LeftCol(b), RightCol(b) - LeftCol(b))]
           IN \E ls : IsRewritten(ls, b, f) /\ Now(b, ClearColumns(b), ls, BegRow(b), LeftCol(b))
<1> DEFINE num == RightCol(b) - LeftCol(b)
           left == LeftCol(b)
           beg == BegRow(b)
           f == [i \in Nat |-> DelChars(Row(b, i), left, num)]
           c == RewriteBlock(b, LAMBDA i : DelChars(Row(b, i), left, num))
           d == ToCorner(c, beg, left)
<1>1. b \in Buffers /\ left \in Nat /\ num \in Int /\ beg \in 0 .. Count(b) - 1
  BY BlockParts, GoodParts DEF Good
<1> HIDE DEF num, left
<1>2. \A i \in Nat : f[i] \in Rows
  BY <1>1, RowType, DelCharsType DEF Rows
<1>3. c = Rewritten(b, f)
  <2> DEFINE t == BlockNotes(b)
             g == [i \in 1 .. Len(t.lines) |->
                     IF i - 1 \in BegRow(b) .. EndRow(b) THEN DelChars(Row(b, i - 1), left, num) ELSE t.lines[i]]
             h == [i \in 1 .. Len(t.lines) |-> IF i - 1 \in BegRow(b) .. EndRow(b) THEN f[i - 1] ELSE t.lines[i]]
  <2>1. c = IF StaleMark(b) THEN Trap(b) ELSE [t EXCEPT !.lines = g]
    BY Zenon DEF RewriteBlock, BlockNotes, BlockRows
  <2> HIDE DEF t
  <2>2. g = h
    <3>1. BegRow(b) \in Nat
      BY BlockParts
    <3> QED BY <3>1
  <2>3. [t EXCEPT !.lines = h] = [t EXCEPT !.lines = [i \in 1 .. Len(@) |->
            IF i - 1 \in BegRow(b) .. EndRow(b) THEN f[i - 1] ELSE @[i]]]
    BY Zenon
  <2> HIDE DEF g, h, c
  <2> QED BY <2>1, <2>2, <2>3 DEF t, Rewritten
<1> HIDE DEF c, f
<1>4. PICK ls : IsRewritten(ls, b, f) /\ Now(b, c, ls, b.row, b.col)
  BY <1>2, <1>3, RewrittenNow
<1>5. c \in Good /\ c.lines = ls /\ Count(c) = Count(b)
  BY <1>4 DEF Now, IsRewritten, Count
<1> HIDE DEF beg
<1>6. Now(c, d, ls, beg, left)
  BY <1>1, <1>5, CornerNow
<1> HIDE DEF d
<1>7. Now(b, d, ls, beg, left)
  BY <1>4, <1>6, NowOn
<1>8. ClearColumns(b) = d
  BY DEF ClearColumns, d, c, num, left, beg
<1> QED BY <1>4, <1>7, <1>8 DEF f, left, num, beg

-----------------------------------------------------------------------------
(***************************************************************************)
(* Paste.                                                                  *)
(***************************************************************************)
\* The rows of ls from row on, j of them, have taken in those of cs at column col.
IsOverlaid(ls, ms, n, row, col, cs, j) ==
    /\ ls \in Seq(Rows) /\ Len(ls) = n
    /\ \A k \in 1 .. n : ls[k] = IF k \in row + 1 .. row + j THEN InsChars(ms[k], col, cs[k - row]) ELSE ms[k]

\* One row more.
LEMMA OverlaidOn ==
    ASSUME NEW ms \in Seq(Rows), NEW row \in Nat, NEW col \in Nat, NEW cs, NEW j \in Nat, row + j < Len(ms),
           NEW ls, IsOverlaid(ls, ms, Len(ms), row, col, cs, j), InsChars(ms[row + j + 1], col, cs[j + 1]) \in Rows
    PROVE  /\ ls[row + j + 1] = ms[row + j + 1]
           /\ IsOverlaid([ls EXCEPT ![row + j + 1] = InsChars(ms[row + j + 1], col, cs[j + 1])],
                         ms, Len(ms), row, col, cs, j + 1)
<1> DEFINE R == Rows
           n == Len(ms)
           i == row + j + 1
           s == InsChars(ms[i], col, cs[j + 1])
           qs == [ls EXCEPT ![i] = s]
<1>1. /\ n \in Nat /\ i \in 1 .. n /\ i - row = j + 1 /\ i \notin row + 1 .. row + j /\ s \in R
      /\ \A k \in 1 .. n : k \in row + 1 .. row + (j + 1) <=> k \in row + 1 .. row + j \/ k = i
  BY LenProperties
<1>2. /\ ls \in Seq(R) /\ Len(ls) = n
      /\ \A k \in 1 .. n : ls[k] = IF k \in row + 1 .. row + j THEN InsChars(ms[k], col, cs[k - row]) ELSE ms[k]
  BY DEF IsOverlaid
<1> HIDE DEF R, n, s
<1>3. qs \in Seq(R) /\ Len(qs) = n /\ \A k \in 1 .. n : qs[k] = IF k = i THEN s ELSE ls[k]
  <2> HIDE DEF i
  <2> QED BY <1>1, <1>2
<1> HIDE DEF qs
<1>4. \A k \in 1 .. n : qs[k] = IF k \in row + 1 .. row + (j + 1) THEN InsChars(ms[k], col, cs[k - row]) ELSE ms[k]
  <2> TAKE k \in 1 .. n
  <2> HIDE DEF i
  <2>1. CASE k = i
    BY <1>1, <1>3, <2>1 DEF s
  <2>2. CASE k # i
    BY <1>1, <1>2, <1>3, <2>2
  <2> QED BY <2>1, <2>2
<1>5. ls[i] = ms[i]
  BY <1>1, <1>2
<1> QED BY <1>3, <1>4, <1>5 DEF IsOverlaid, qs, s, n, R

\* A block is pasted into rows that are all there.
LEMMA PastedRows ==
    ASSUME NEW b \in Good, NEW c \in Clips, b.row + Len(c.lines) <= Count(b)
    PROVE  \E ls, k : /\ Now(b, PasteRows(b, c), ls, b.row, k)
                      /\ IsOverlaid(ls, b.lines, Count(b), b.row, b.col, c.lines, Len(c.lines))
<1> DEFINE n == Len(c.lines)
           p == Pairs(b, c)
           s == [k \in 1 .. n |-> k - 1]
           done == PasteAll(b, c)
           cs == c.lines
           ms == b.lines
           row == b.row
           col == b.col
<1>0. /\ n \in Nat \ {0} /\ n \in Nat /\ row \in Nat /\ col \in Nat /\ Len(cs[1]) \in Nat /\ ms \in Seq(Rows)
      /\ Count(b) = Len(ms) /\ Count(b) \in Nat /\ n = Len(cs) /\ row + n <= Count(b)
      /\ \A i \in 1 .. n : cs[i] \in Rows
  BY ClipParts, GoodParts DEF Good
<1>1. DOMAIN s = 1 .. n /\ \A k \in 1 .. n : s[k] = k - 1
  OBVIOUS
<1>2. p.b = b /\ p.c = c
  BY DEF Pairs
<1>3. PasteFold!Fold(p, b, s) = done
  <2> DEFINE All(x, y, z, q) == FoldLeft(LAMBDA t, i : PasteStep(x, y, t, i), z, q)
  <2>1. PasteFold!Fold(p, b, s) = All(p.b, p.c, b, s)
    BY DEF PasteFold!Fold, PasteRound, FoldLeft, MapThenFoldSet, Max,
           PasteFold!FoldLeft, PasteFold!MapThenFoldSet, PasteFold!Max
  <2>2. done = All(b, c, b, s)
    BY Zenon DEF PasteAll
  <2> HIDE DEF All, p, s, done
  <2> QED BY <1>2, <2>1, <2>2
<1> HIDE DEF n, p, s, done
<1>4. PICK a : PasteFold!IsTrace(a, p, b, s, n)
  BY <1>0, <1>1, PasteFold!FoldTrace
<1>5. a[0] = b /\ PasteFold!Fold(p, b, s) = a[n] /\ \A k \in 1 .. n : a[k] = PasteStep(b, c, a[k - 1], k - 1)
  BY <1>1, <1>2, <1>4 DEF PasteFold!IsTrace, PasteRound
<1> HIDE DEF ms, row, col, cs
<1> DEFINE Reached(k, x) == \E ls : Now(b, x, ls, row, col) /\ IsOverlaid(ls, ms, Len(ms), row, col, cs, k)
           T == {k \in 0 .. n : Reached(k, a[k])}
<1>6. 0 \in T
  <2>1. Now(b, b, ms, row, col)
    BY DEF Now, ms, row, col
  <2>2. IsOverlaid(ms, ms, Len(ms), row, col, cs, 0)
    BY <1>0 DEF IsOverlaid
  <2> QED BY <1>0, <1>5, <2>1, <2>2
<1>7. ASSUME NEW k \in 1 .. n, k - 1 \in T PROVE k \in T
  <2> DEFINE i == k - 1
             x == a[i]
             r == row + i
             d == PasteStep(b, c, x, i)
             w == RestoreStep(x, r, InsChars(Row(x, r), col, cs[i + 1]))
             v == InsertRows(Track(w, "DelLine", Count(w), 0), Count(w), << <<>> >>)
  <2>1. /\ i \in Nat /\ i < n /\ i + 1 = k /\ k \in 0 .. n /\ a[k] = d /\ r \in Nat /\ row + i < Len(ms) /\ r < Len(ms)
        /\ r = row + i /\ cs[i + 1] \in Rows
    BY <1>0, <1>5
  <2>2. PICK ls : Now(b, x, ls, row, col) /\ IsOverlaid(ls, ms, Len(ms), row, col, cs, i)
    BY <1>7, <2>1
  <2>3. d = IF i < n - 1 /\ r = Count(w) - 1 THEN v ELSE w
    BY Zenon DEF PasteStep, RestoreStep, n, row, col, cs
  <2> HIDE DEF i, x, d, v, r
  <2>4. x \in Good /\ x.lines = ls /\ Count(x) = Len(ms) /\ x.row = row /\ x.col = col /\ x \in Buffers
    BY <2>2, GoodParts DEF Now, IsOverlaid, Count
  <2>5. Row(x, r) = ls[r + 1]
    BY <1>0, <2>1, <2>4 DEF Row, Count
  <2> DEFINE new == InsChars(ms[r + 1], col, cs[i + 1])
             qs == [ls EXCEPT ![r + 1] = new]
  <2>6. new \in Rows
    <3> DEFINE R == Rows
    <3>1. ms \in Seq(R) /\ r + 1 \in 1 .. Len(ms)
      BY <1>0, <2>1
    <3> HIDE DEF R
    <3>2. ms[r + 1] \in R
      BY <3>1
    <3> HIDE DEF ms
    <3>3. ms[r + 1] \in Rows
      BY <3>2 DEF R
    <3> DEFINE y == ms[r + 1]
               e == cs[i + 1]
    <3> HIDE DEF y, e
    <3>4. y \in Rows /\ e \in Rows /\ Blank \in Letters /\ col \in Int
      BY <1>0, <2>1, <3>3 DEF Letters, y, e
    <3>5. InsChars(y, col, e) \in Rows
      BY <3>4, InsCharsType DEF Rows
    <3> QED BY <3>5 DEF y, e
  <2>7. ls[r + 1] = ms[r + 1] /\ IsOverlaid(qs, ms, Len(ms), row, col, cs, k)
    <3>1. InsChars(ms[row + i + 1], col, cs[i + 1]) \in Rows
      BY <2>1, <2>6
    <3>2. /\ ls[row + i + 1] = ms[row + i + 1]
          /\ IsOverlaid([ls EXCEPT ![row + i + 1] = InsChars(ms[row + i + 1], col, cs[i + 1])],
                        ms, Len(ms), row, col, cs, i + 1)
      BY <1>0, <2>1, <2>2, <3>1, OverlaidOn
    <3> QED BY <2>1, <3>2
  <2>8. w = RestoreStep(x, r, new)
    BY <2>5, <2>7
  <2> HIDE DEF w, new
  <2>9. Now(x, w, qs, row, col)
    BY <2>1, <2>4, <2>6, <2>8, RestoreNow
  <2> HIDE DEF qs
  <2>10. Count(w) = Len(ms)
    BY <2>7, <2>9 DEF Now, IsOverlaid, Count
  <2>11. d = w
    <3>1. ~(i < n - 1 /\ r = Count(w) - 1)
      BY <1>0, <2>1, <2>10
    <3> QED BY <2>3, <3>1
  <2>12. Now(b, w, qs, row, col)
    BY <2>2, <2>9, NowOn
  <2>13. Reached(k, d)
    BY <2>7, <2>11, <2>12
  <2> HIDE DEF Reached
  <2> QED BY <2>1, <2>13
<1> HIDE DEF T
<1>8. 0 .. n \subseteq T
  BY <1>0, <1>6, <1>7, PasteFold!IntervalIsIn
<1>81. n \in T
  BY <1>0, <1>8
<1>9. PICK ls : Now(b, done, ls, row, col) /\ IsOverlaid(ls, ms, Len(ms), row, col, cs, n)
  BY <1>3, <1>5, <1>81 DEF T
<1>10. PasteRows(b, c) = IF AfterBlock /\ n = 1 THEN GotoCol(done, col + Len(cs[1])) ELSE done
  BY Zenon DEF PasteRows, PasteAll, PasteStep, done, n, cs, col
<1> DEFINE z == GotoCol(done, col + Len(cs[1]))
<1>11. Now(b, z, ls, row, col + Len(cs[1]))
  <2>1. done \in Good /\ done.lines = ls /\ done.row = row /\ col + Len(cs[1]) \in Nat
    BY <1>0, <1>9 DEF Now
  <2>2. Now(done, z, ls, row, col + Len(cs[1]))
    BY <2>1, CursorNow
  <2> HIDE DEF z
  <2> QED BY <1>9, <2>2, NowOn
<1> HIDE DEF z
<1>12. \E k : Now(b, PasteRows(b, c), ls, row, k)
  BY <1>9, <1>10, <1>11 DEF z
<1> QED BY <1>0, <1>9, <1>12 DEF n, row, col, ms, cs

\* A row of the text is another one, without a note.
LEMMA SetNow ==
    ASSUME NEW b \in Good, NEW i \in Nat, i < Count(b), NEW s \in Rows
    PROVE  Now(b, SetLine(b, i, s), [b.lines EXCEPT ![i + 1] = s], b.row, b.col)
<1> DEFINE c == SetLine(b, i, s)
           ls == [b.lines EXCEPT ![i + 1] = s]
<1>1. b \in Buffers /\ b \in Tracked /\ b.lines \in Seq(Rows) /\ Count(b) = Len(b.lines) /\ b.row < Count(b)
  BY GoodParts DEF Good
<1>2. ls \in Seq(Rows) /\ Len(ls) = Len(b.lines)
  <2> DEFINE R == Rows
             ms == b.lines
             m == i + 1
  <2>1. ms \in Seq(R) /\ s \in R /\ m \in 1 .. Len(ms)
    BY <1>1
  <2> HIDE DEF R, ms, m
  <2>2. [ms EXCEPT ![m] = s] \in Seq(R) /\ Len([ms EXCEPT ![m] = s]) = Len(ms)
    BY <2>1
  <2> QED BY <2>2 DEF R, ms, m
<1>3. c = [b EXCEPT !.lines = ls]
  BY <1>1, TextIs
<1> HIDE DEF ls, c
<1>4. c \in Buffers /\ Edited(b, c) /\ c.lines = ls
  BY <1>1, <1>2, <1>3, LinesParts
<1>5. c \in Good
  BY <1>1, <1>2, <1>4 DEF Good, Tracked, Edited, Has, Count
<1> QED BY <1>4, <1>5 DEF Now, Edited, Column, Has, c, ls

\* The rows ls are ms, of length n, with the one behind row replaced by a, the rows of cs from its second one on,
\* j of them, and t.
IsFed(ls, ms, n, row, a, cs, j, t) ==
    /\ ls \in Seq(Rows) /\ Len(ls) = n + 1 + j
    /\ \A k \in 1 .. n + 1 + j : ls[k] = IF k <= row THEN ms[k]
                                         ELSE IF k = row + 1 THEN a
                                         ELSE IF k <= row + 1 + j THEN cs[k - row]
                                         ELSE IF k = row + 2 + j THEN t
                                         ELSE ms[k - 1 - j]

\* The row is split.
LEMMA FedFirst ==
    ASSUME NEW ms \in Seq(Rows), NEW row \in Nat, row < Len(ms), NEW a \in Rows, NEW t \in Rows, NEW cs
    PROVE  IsFed(Put([ms EXCEPT ![row + 1] = a], row + 1, <<t>>), ms, Len(ms), row, a, cs, 0, t)
<1> DEFINE R == Rows
           n == Len(ms)
           m == row + 1
           ns == [ms EXCEPT ![m] = a]
           q == <<t>>
           ls == Put(ns, m, q)
<1>1. n \in Nat /\ m \in 1 .. n /\ m \in 0 .. n /\ ms \in Seq(R) /\ a \in R /\ t \in R
  BY LenProperties
<1> HIDE DEF R, n, m
<1>2. ns \in Seq(R) /\ Len(ns) = n /\ \A k \in 1 .. n : ns[k] = IF k = m THEN a ELSE ms[k]
  BY <1>1 DEF n
<1>3. q \in Seq(R) /\ Len(q) = 1 /\ q[1] = t
  BY <1>1
<1> HIDE DEF ns, q
<1>4. IsPut(ls, R, ns, m, q, 1)
  BY <1>1, <1>2, <1>3, PutIs
<1> HIDE DEF ls
<1>5. /\ ls \in Seq(R) /\ Len(ls) = n + 1
      /\ \A k \in 1 .. n + 1 : ls[k] = IF k <= m THEN ns[k] ELSE IF k <= m + 1 THEN q[k - m] ELSE ns[k - 1]
  BY <1>2, <1>4 DEF IsPut
<1>6. \A k \in 1 .. n + 1 + 0 : ls[k] = IF k <= row THEN ms[k]
                                        ELSE IF k = row + 1 THEN a
                                        ELSE IF k <= row + 1 + 0 THEN cs[k - row]
                                        ELSE IF k = row + 2 + 0 THEN t
                                        ELSE ms[k - 1 - 0]
  <2> TAKE k \in 1 .. n + 1 + 0
  <2>1. k \in 1 .. n + 1 /\ k \in Nat /\ m = row + 1
    BY <1>1 DEF m
  <2>2. CASE k <= m
    BY <1>1, <1>2, <1>5, <2>1, <2>2
  <2>3. CASE k = m + 1
    <3>1. k - m = 1
      BY <1>1, <2>1, <2>3
    <3> QED BY <1>1, <1>3, <1>5, <2>1, <2>3, <3>1
  <2>4. CASE k > m + 1
    <3>1. k - 1 \in 1 .. n /\ k - 1 # m /\ k - 1 - 0 = k - 1
      BY <1>1, <2>1, <2>4
    <3> QED BY <1>1, <1>2, <1>5, <2>1, <2>4, <3>1
  <2> QED BY <1>1, <2>1, <2>2, <2>3, <2>4
<1>7. IsFed(ls, ms, n, row, a, cs, 0, t)
  <2>1. n + 1 + 0 = n + 1
    BY <1>1
  <2> QED BY <1>5, <1>6, <2>1 DEF IsFed, R
<1> QED BY <1>7 DEF ls, ns, q, m, n

\* One row more.
LEMMA FedOn ==
    ASSUME NEW ms \in Seq(Rows), NEW row \in Nat, row < Len(ms), NEW a \in Rows, NEW t \in Rows, NEW cs, NEW j \in Nat,
           cs[j + 2] \in Rows, NEW ls, IsFed(ls, ms, Len(ms), row, a, cs, j, t)
    PROVE  IsFed(Put(ls, row + 1 + j, <<cs[j + 2]>>), ms, Len(ms), row, a, cs, j + 1, t)
<1> DEFINE R == Rows
           n == Len(ms)
           i == row + 1 + j
           e == cs[j + 2]
           q == <<e>>
           w == Put(ls, i, q)
           nn == n + 1 + j
<1>1. n \in Nat /\ i \in 0 .. nn /\ i \in Nat /\ nn \in Nat /\ e \in R /\ nn = n + 1 + j /\ i = row + 1 + j /\ row < n
      /\ nn + 1 = n + 1 + (j + 1)
  BY LenProperties
<1>2. /\ ls \in Seq(R) /\ Len(ls) = nn
      /\ \A k \in 1 .. nn : ls[k] = IF k <= row THEN ms[k]
                                    ELSE IF k = row + 1 THEN a
                                    ELSE IF k <= row + 1 + j THEN cs[k - row]
                                    ELSE IF k = row + 2 + j THEN t
                                    ELSE ms[k - 1 - j]
  BY DEF IsFed
<1> HIDE DEF R, n, e, nn, i
<1>3. q \in Seq(R) /\ Len(q) = 1 /\ q[1] = e
  BY <1>1
<1> HIDE DEF q
<1>4. IsPut(w, R, ls, i, q, 1)
  BY <1>1, <1>2, <1>3, PutIs
<1> HIDE DEF w
<1>5. /\ w \in Seq(R) /\ Len(w) = nn + 1
      /\ \A k \in 1 .. nn + 1 : w[k] = IF k <= i THEN ls[k] ELSE IF k <= i + 1 THEN q[k - i] ELSE ls[k - 1]
  BY <1>2, <1>4 DEF IsPut
<1>6. \A k \in 1 .. nn + 1 : w[k] = IF k <= row THEN ms[k]
                                    ELSE IF k = row + 1 THEN a
                                    ELSE IF k <= row + 1 + (j + 1) THEN cs[k - row]
                                    ELSE IF k = row + 2 + (j + 1) THEN t
                                    ELSE ms[k - 1 - (j + 1)]
  <2> TAKE k \in 1 .. nn + 1
  <2>1. CASE k <= i
    <3>1. k \in 1 .. nn /\ w[k] = ls[k]
      BY <1>1, <1>5, <2>1
    <3> QED BY <1>1, <1>2, <2>1, <3>1
  <2>2. CASE k = i + 1
    <3>1. k - i = 1 /\ k - row = j + 2 /\ ~(k <= i) /\ k <= i + 1
      BY <1>1, <2>2
    <3>2. w[k] = e
      BY <1>3, <1>5, <3>1
    <3>3. cs[k - row] = e
      BY <3>1 DEF e
    <3> QED BY <1>1, <2>2, <3>2, <3>3
  <2>3. CASE k > i + 1
    <3> DEFINE p == k - 1
    <3>1. p \in 1 .. nn /\ p > i /\ w[k] = ls[p] /\ k - 1 - (j + 1) = p - 1 - j /\ k = p + 1
      BY <1>1, <1>5, <2>3
    <3> HIDE DEF p
    <3>2. ls[p] = IF p = row + 2 + j THEN t ELSE ms[p - 1 - j]
      BY <1>1, <1>2, <3>1
    <3>3. (k = row + 2 + (j + 1)) <=> (p = row + 2 + j)
      <4>1. p \in Int /\ k = p + 1
        BY <1>1, <3>1
      <4> QED BY <4>1
    <3>4. ~(k <= row) /\ k # row + 1 /\ ~(k <= row + 1 + (j + 1))
      BY <1>1, <2>3
    <3> QED BY <3>1, <3>2, <3>3, <3>4
  <2> QED BY <1>1, <2>1, <2>2, <2>3
<1>7. IsFed(w, ms, n, row, a, cs, j + 1, t)
  BY <1>1, <1>5, <1>6 DEF IsFed, R
<1> QED BY <1>7 DEF w, i, q, e, n

\* The last row is another one.
LEMMA FedLast ==
    ASSUME NEW ms \in Seq(Rows), NEW row \in Nat, row < Len(ms), NEW a \in Rows, NEW t \in Rows, NEW cs, NEW j \in Nat,
           NEW ls, IsFed(ls, ms, Len(ms), row, a, cs, j, t), NEW z \in Rows
    PROVE  /\ row + 2 + j <= Len(ls) /\ ls[row + 2 + j] = t
           /\ IsFed([ls EXCEPT ![row + 2 + j] = z], ms, Len(ms), row, a, cs, j, z)
<1> DEFINE R == Rows
           n == Len(ms)
           i == row + 2 + j
           w == [ls EXCEPT ![i] = z]
           nn == n + 1 + j
<1>1. n \in Nat /\ i \in 1 .. nn /\ i \in Nat /\ nn \in Nat /\ z \in R /\ nn = n + 1 + j /\ i = row + 2 + j /\ row < n
  BY LenProperties
<1>2. /\ ls \in Seq(R) /\ Len(ls) = nn
      /\ \A k \in 1 .. nn : ls[k] = IF k <= row THEN ms[k]
                                    ELSE IF k = row + 1 THEN a
                                    ELSE IF k <= row + 1 + j THEN cs[k - row]
                                    ELSE IF k = row + 2 + j THEN t
                                    ELSE ms[k - 1 - j]
  BY DEF IsFed
<1> HIDE DEF R, n, nn, i
<1>3. w \in Seq(R) /\ Len(w) = nn /\ \A k \in 1 .. nn : w[k] = IF k = i THEN z ELSE ls[k]
  BY <1>1, <1>2
<1> HIDE DEF w
<1>4. \A k \in 1 .. nn : w[k] = IF k <= row THEN ms[k]
                                    ELSE IF k = row + 1 THEN a
                                    ELSE IF k <= row + 1 + j THEN cs[k - row]
                                    ELSE IF k = row + 2 + j THEN z
                                    ELSE ms[k - 1 - j]
  <2> TAKE k \in 1 .. nn
  <2>1. CASE k = i
    BY <1>1, <1>3, <2>1
  <2>2. CASE k # i
    <3>1. w[k] = ls[k] /\ k # row + 2 + j
      BY <1>1, <1>3, <2>2
    <3> QED BY <1>2, <3>1
  <2> QED BY <2>1, <2>2
<1>5. IsFed(w, ms, n, row, a, cs, j, z)
  BY <1>1, <1>3, <1>4 DEF IsFed, R, nn
<1>6. ls[i] = t
  <2>1. ~(i <= row) /\ i # row + 1 /\ ~(i <= row + 1 + j)
    BY <1>1
  <2> QED BY <1>1, <1>2, <2>1
<1> QED BY <1>1, <1>2, <1>5, <1>6 DEF w, i, n

\* The rows between the first and the last of a stream go in one after the other.
LEMMA InsertedAll ==
    ASSUME NEW b \in Good, NEW c \in Clips, Len(c.lines) > 1, NEW x, NEW ls, NEW a \in Rows, NEW t \in Rows,
           Now(b, x, ls, b.row, b.col), IsFed(ls, b.lines, Count(b), b.row, a, c.lines, 0, t)
    PROVE  \E qs : /\ Now(b, InsertAll(b, c, x), qs, b.row, b.col)
                   /\ IsFed(qs, b.lines, Count(b), b.row, a, c.lines, Len(c.lines) - 2, t)
<1> DEFINE n == Len(c.lines) - 2
           p == Pairs(b, c)
           q == [i \in 1 .. n |-> i]
           done == InsertAll(b, c, x)
           ms == b.lines
           cs == c.lines
           row == b.row
           col == b.col
<1>0. /\ n \in Nat /\ Len(cs) = n + 2 /\ row \in Nat /\ col \in Nat /\ ms \in Seq(Rows) /\ Count(b) = Len(ms)
      /\ Len(ms) \in Nat /\ row < Len(ms) /\ \A i \in 1 .. n + 2 : cs[i] \in Rows
  BY ClipParts, GoodParts DEF Good
<1>1. DOMAIN q = 1 .. n /\ \A k \in 1 .. n : q[k] = k
  OBVIOUS
<1>2. p.b = b /\ p.c = c
  BY DEF Pairs
<1>3. InsertFold!Fold(p, x, q) = done
  <2> DEFINE All(e, f, z, w) ==
                 FoldLeft(LAMBDA d, i : InsertRows(Track(d, "DelLine", e.row + i, 0), e.row + i, <<f.lines[i + 1]>>), z, w)
  <2>1. InsertFold!Fold(p, x, q) = All(p.b, p.c, x, q)
    BY DEF InsertFold!Fold, InsertRound, FoldLeft, MapThenFoldSet, Max,
           InsertFold!FoldLeft, InsertFold!MapThenFoldSet, InsertFold!Max
  <2>2. done = All(b, c, x, q)
    BY Zenon DEF InsertAll
  <2> HIDE DEF All, p, q, done
  <2> QED BY <1>2, <2>1, <2>2
<1> HIDE DEF n, p, q, done
<1>4. PICK d : InsertFold!IsTrace(d, p, x, q, n)
  BY <1>0, <1>1, InsertFold!FoldTrace
<1>5. /\ d[0] = x /\ InsertFold!Fold(p, x, q) = d[n]
      /\ \A k \in 1 .. n : d[k] = InsStep(d[k - 1], row + k, cs[k + 1])
  BY <1>1, <1>2, <1>4 DEF InsertFold!IsTrace, InsertRound, InsStep
<1> HIDE DEF ms, cs, row, col
<1> DEFINE Reached(k, z) == \E qs : Now(b, z, qs, row, col) /\ IsFed(qs, ms, Len(ms), row, a, cs, k, t)
           T == {k \in 0 .. n : Reached(k, d[k])}
<1>6. 0 \in T
  <2>1. Now(b, x, ls, row, col) /\ IsFed(ls, ms, Len(ms), row, a, cs, 0, t)
    BY <1>0 DEF ms, cs, row, col
  <2> QED BY <1>0, <1>5, <2>1
<1>7. ASSUME NEW k \in 1 .. n, k - 1 \in T PROVE k \in T
  <2> DEFINE j == k - 1
             i == row + 1 + j
             r == cs[j + 2]
             z == d[j]
             w == InsStep(z, i, r)
  <2>1. j \in Nat /\ k \in 0 .. n /\ i \in Nat /\ row + k = i /\ k + 1 = j + 2 /\ j + 1 = k /\ r \in Rows /\ i <= Len(ms) + 1 + j
        /\ i = row + 1 + j
    BY <1>0
  <2>2. d[k] = w
    BY <1>5, <2>1
  <2>3. PICK qs : Now(b, z, qs, row, col) /\ IsFed(qs, ms, Len(ms), row, a, cs, j, t)
    BY <1>7
  <2> HIDE DEF j, i, z, w
  <2> DEFINE us == Put(qs, i, <<r>>)
  <2>4. z \in Good /\ Count(z) = Len(ms) + 1 + j /\ z.lines = qs /\ z.row = row /\ z.col = col
    BY <2>3 DEF Now, IsFed, Count
  <2> HIDE DEF r
  <2>5. Now(z, w, us, row, col)
    BY <2>1, <2>4, InsNow DEF w
  <2>6. IsFed(us, ms, Len(ms), row, a, cs, k, t)
    <3>1. cs[j + 2] \in Rows
      BY <2>1 DEF r
    <3>2. IsFed(Put(qs, row + 1 + j, <<cs[j + 2]>>), ms, Len(ms), row, a, cs, j + 1, t)
      BY <1>0, <2>1, <2>3, <3>1, FedOn
    <3> QED BY <2>1, <3>2 DEF r
  <2> HIDE DEF us
  <2>7. Now(b, w, us, row, col)
    BY <2>3, <2>5, NowOn
  <2>8. Reached(k, w)
    BY <2>6, <2>7
  <2> HIDE DEF Reached
  <2> QED BY <2>1, <2>2, <2>8
<1> HIDE DEF T
<1>8. 0 .. n \subseteq T
  BY <1>0, <1>6, <1>7, InsertFold!IntervalIsIn
<1>9. n \in T
  BY <1>0, <1>8
<1>10. PICK qs : Now(b, done, qs, row, col) /\ IsFed(qs, ms, Len(ms), row, a, cs, n, t)
  BY <1>3, <1>5, <1>9 DEF T
<1> QED BY <1>0, <1>10 DEF done, n, ms, cs, row, col

\* The rows of a stream are in: the row of the cursor ends with the first of them, what followed
\* the cursor comes behind the last.
LEMMA PastedStream ==
    ASSUME NEW b \in Good, NEW c \in Clips, Len(c.lines) > 1
    PROVE  LET s == AbsLine(b)
               n == Len(c.lines)
               a == InsChars(DelChars(s, b.col, Len(s)), b.col, c.lines[1])
               z == InsChars(TailFrom(s, b.col), 0, c.lines[n])
           IN \E ls, i, k : /\ Now(b, PasteStream(b, c), ls, i, k)
                            /\ IsFed(ls, b.lines, Count(b), b.row, a, c.lines, n - 2, z)
<1> DEFINE n == Len(c.lines)
           s == AbsLine(b)
           first == InsChars(DelChars(s, b.col, Len(s)), b.col, c.lines[1])
           tail == TailFrom(s, b.col)
           rest == InsChars(tail, 0, c.lines[n])
           r == RestoreStep(b, b.row, first)
           x == InsStep(r, b.row + 1, tail)
           u == InsertAll(b, c, x)
           pos == b.row + (n - 1)
           last == GotoLine(u, pos)
           d == SetLine(last, last.row, InsChars(AbsLine(last), 0, c.lines[n]))
           e == GotoCol(d, Len(c.lines[n]))
           ms == b.lines
           row == b.row
           col == b.col
           cs == c.lines
<1>0. n \in Nat /\ n > 1 /\ cs[1] \in Rows /\ cs[n] \in Rows /\ Len(cs[n]) \in Nat /\ pos \in Nat
      /\ row < Count(b) /\ Count(b) \in Nat /\ pos < Count(b) + (n - 1) /\ row \in Nat /\ ms \in Seq(Rows)
      /\ Count(b) = Len(ms) /\ row + 2 + (n - 2) = pos + 1 /\ n - 2 \in Nat /\ row < Len(ms) /\ row + 1 \in Nat
  <2>1. n \in Nat /\ 1 \in 1 .. n /\ n \in 1 .. n
    BY ClipParts
  <2>2. n > 1 /\ cs[1] \in Rows /\ cs[n] \in Rows /\ Len(cs[n]) \in Nat
    BY <2>1, ClipParts
  <2>3. row < Count(b) /\ Count(b) \in Nat /\ row \in Nat /\ ms \in Seq(Rows) /\ Count(b) = Len(ms)
    BY GoodParts DEF Good
  <2> HIDE DEF n, cs, row, ms
  <2>4. pos \in Nat /\ pos < Count(b) + (n - 1) /\ row + 2 + (n - 2) = pos + 1 /\ n - 2 \in Nat /\ row < Len(ms) /\ row + 1 \in Nat
    <3>1. pos = row + (n - 1)
      BY DEF row
    <3> HIDE DEF pos
    <3> QED BY <2>1, <2>2, <2>3, <3>1
  <2> QED BY <2>1, <2>2, <2>3, <2>4
<1>1. first \in Rows /\ tail \in Rows /\ rest \in Rows
  <2>1. s \in Rows /\ Len(s) \in Int /\ b.col \in Int /\ Blank \in Letters
    BY GoodParts DEF Letters
  <2> HIDE DEF s
  <2> DEFINE cut == DelChars(s, b.col, Len(s))
  <2>2. cut \in Rows /\ tail \in Rows
    BY <2>1, DelCharsType, TailFromType DEF Rows
  <2> HIDE DEF cut, tail
  <2> DEFINE f == c.lines[1]
             g == c.lines[n]
  <2>4. f \in Rows /\ g \in Rows
    BY <1>0
  <2> HIDE DEF f, g
  <2>3. InsChars(cut, b.col, f) \in Rows /\ InsChars(tail, 0, g) \in Rows
    BY <2>1, <2>2, <2>4, InsCharsType DEF Rows
  <2> QED BY <2>2, <2>3 DEF cut, f, g
<1>2. PasteStream(b, c) = e
  <2> DEFINE split == InsertRows(SetLine(Track(Track(b, "RestoreLine", b.row, s), "DelLine", b.row + 1, 0),
                                         b.row, first), b.row + 1, <<tail>>)
             end == GotoLine(InsertAll(b, c, split), b.row + n - 1)
  <2>1. PasteStream(b, c) = GotoCol(SetLine(end, end.row, InsChars(AbsLine(end), 0, c.lines[n])), Len(c.lines[n]))
    BY Zenon DEF PasteStream, InsertAll
  <2>2. b.row + n - 1 = pos
    BY <1>0, GoodParts
  <2>3. split = x
    <3> HIDE DEF first, tail, rest
    <3> QED BY <1>1, SplitTwins
  <2> HIDE DEF split, x
  <2>4. end = last
    BY <2>2, <2>3
  <2> HIDE DEF end, last
  <2> QED BY <2>1, <2>4
<1> HIDE DEF first, tail, rest
<1> DEFINE ns == [ms EXCEPT ![row + 1] = first]
           xs == Put(ns, row + 1, <<tail>>)
<1>3. Now(b, r, ns, row, col)
  BY <1>0, <1>1, RestoreNow
<1>4. Len(ns) = Len(ms)
  OBVIOUS
<1> HIDE DEF r, ns, row, col
<1>5. Now(r, x, xs, row, col)
  <2>1. r \in Good /\ Count(r) = Count(b) /\ r.row = row /\ r.col = col /\ r.lines = ns /\ row + 1 <= Count(r)
    BY <1>0, <1>3, <1>4 DEF Now, Count
  <2>2. b.row + 1 = row + 1
    BY DEF row
  <2> QED BY <1>0, <1>1, <2>1, <2>2, InsNow
<1> HIDE DEF x, ms, cs
<1>6. IsFed(xs, ms, Len(ms), row, first, cs, 0, tail)
  BY <1>0, <1>1, FedFirst DEF ns
<1> HIDE DEF xs
<1>7. Now(b, x, xs, row, col)
  BY <1>3, <1>5, NowOn
<1>8. PICK us : Now(b, u, us, row, col) /\ IsFed(us, ms, Len(ms), row, first, cs, n - 2, tail)
  <2>1. \E us : Now(b, u, us, b.row, b.col) /\ IsFed(us, b.lines, Count(b), b.row, first, c.lines, Len(c.lines) - 2, tail)
    <3>1. Now(b, x, xs, b.row, b.col) /\ IsFed(xs, b.lines, Count(b), b.row, first, c.lines, 0, tail)
      BY <1>0, <1>6, <1>7 DEF ms, cs, row, col
    <3> HIDE DEF u
    <3> QED BY <1>1, <3>1, InsertedAll DEF u
  <2> HIDE DEF u
  <2> QED BY <1>0, <2>1 DEF ms, cs, row, col, n
<1> HIDE DEF u
<1>9. u \in Good /\ u.lines = us /\ Count(u) = Count(b) + (n - 1) /\ u.row = row /\ u.col = col
  <2>1. u \in Good /\ u.lines = us /\ u.row = row /\ u.col = col /\ Len(us) = Len(ms) + 1 + (n - 2)
    BY <1>8 DEF Now, IsFed
  <2>2. Len(ms) + 1 + (n - 2) = Count(b) + (n - 1)
    <3> HIDE DEF n
    <3> QED BY <1>0
  <2>3. Count(u) = Len(us)
    BY <2>1 DEF Count
  <2> QED BY <2>1, <2>2, <2>3
<1> HIDE DEF pos, n
<1>10. Now(u, last, us, pos, col)
  <2>1. pos \in 0 .. Count(u) - 1
    BY <1>0, <1>9
  <2> QED BY <1>9, <2>1, CursorNow
<1> HIDE DEF last
<1>11. last \in Good /\ last.row = pos /\ last.lines = us /\ last.col = col /\ pos < Count(last) /\ Count(last) = Len(us)
  BY <1>0, <1>9, <1>10 DEF Now, Count
<1> DEFINE ws == [us EXCEPT ![pos + 1] = rest]
<1>12. us[pos + 1] = tail /\ IsFed(ws, ms, Len(ms), row, first, cs, n - 2, rest)
  <2> DEFINE j == n - 2
             i == row + 2 + j
  <2>1. i = pos + 1 /\ j \in Nat /\ ms \in Seq(Rows) /\ row \in Nat /\ row < Len(ms)
    BY <1>0
  <2>2. IsFed(us, ms, Len(ms), row, first, cs, j, tail)
    BY <1>8
  <2> HIDE DEF j
  <2>3. us[i] = tail /\ IsFed([us EXCEPT ![i] = rest], ms, Len(ms), row, first, cs, j, rest)
    BY <1>1, <2>1, <2>2, FedLast
  <2> HIDE DEF i
  <2> QED BY <2>1, <2>3 DEF j
<1>13. d = SetLine(last, pos, rest)
  <2>1. AbsLine(last) = us[pos + 1]
    <3>1. pos \in 0 .. Count(last) - 1
      BY <1>0, <1>11
    <3> QED BY <1>11, <3>1 DEF AbsLine, Row
  <2> QED BY <1>11, <1>12, <2>1 DEF rest, cs
<1>14. Now(last, d, ws, pos, col)
  <2> HIDE DEF d
  <2> QED BY <1>0, <1>1, <1>11, <1>13, SetNow
<1> HIDE DEF d, ws
<1>15. Now(d, e, ws, pos, Len(cs[n]))
  <2>1. d \in Good /\ d.lines = ws /\ d.row = pos
    BY <1>14 DEF Now
  <2>2. e = GotoCol(d, Len(cs[n]))
    BY DEF cs
  <2> HIDE DEF e
  <2> QED BY <1>0, <2>1, <2>2, CursorNow
<1> HIDE DEF e
<1>16. Now(b, e, ws, pos, Len(cs[n]))
  BY <1>8, <1>10, <1>14, <1>15, NowOn
<1>17. \E ls, i, k : Now(b, e, ls, i, k) /\ IsFed(ls, ms, Count(b), row, first, cs, n - 2, rest)
  BY <1>0, <1>12, <1>16
<1> QED BY <1>2, <1>17 DEF n, ms, row, cs, first, rest, tail

-----------------------------------------------------------------------------
(***************************************************************************)
(* Cut, then paste.                                                        *)
(***************************************************************************)
\* the same rows but for blanks at their ends
Agree(qs, ms) == Len(qs) = Len(ms) /\ \A k \in 1 .. Len(ms) : Trim(qs[k]) = Trim(ms[k])

\* what the block takes out of row i
Piece(b, i) ==
    IF IsColumn(b) THEN Extract(Row(b, i), LeftCol(b), RightCol(b) - LeftCol(b))
    ELSE IF i = BegRow(b) THEN Extract(Row(b, i), BegCol(b), Len(Row(b, i)) - BegCol(b))
    ELSE IF i = EndRow(b) THEN Extract(Row(b, i), 0, Smaller(EndCol(b), Len(Row(b, i))))
    ELSE Row(b, i)
IsCopy(c, b) ==
    /\ c \in Clips /\ (c.column <=> Column(b)) /\ Len(c.lines) = EndRow(b) - BegRow(b) + 1
    /\ \A k \in 1 .. EndRow(b) - BegRow(b) + 1 : c.lines[k] = Piece(b, BegRow(b) + k - 1)

\* the block lies in the same place of the same rows
SameBlock(a, b) ==
    /\ a.lines = b.lines /\ a.row = b.row /\ a.col = b.col /\ a.mrow = b.mrow /\ a.mcol = b.mcol
    /\ (Column(a) <=> Column(b))

\* The clipboard holds the pieces, of any buffer where the block is the same.
LEMMA CopyIs ==
    ASSUME NEW b \in Good, NEW a \in Good, Marked(b), SameBlock(a, b)
    PROVE  IsCopy(Copy(b), a)
<1> DEFINE beg == BegRow(b)
           n == EndRow(b) - BegRow(b) + 1
           ls == [k \in 1 .. n |-> Piece(b, beg + k - 1)]
           c == Copy(b)
<1>1. c = [lines |-> ls, column |-> Has(b, "ColumnBlock")]
  BY Zenon DEF Copy, Piece, Marked
<1>2. c \in Clips
  <2>1. c \in Clips \cup {NoClip}
    BY CopyType, GoodParts
  <2>2. c # NoClip
    <3>1. n \in Nat \ {0}
      BY BlockParts
    <3> HIDE DEF n
    <3>2. Len(ls) = n
      BY <3>1
    <3> HIDE DEF ls, c
    <3>3. c.lines = ls
      BY <1>1
    <3>4. NoClip.lines = <<>> /\ Len(<<>>) = 0
      BY DEF NoClip
    <3> QED BY <3>1, <3>2, <3>3, <3>4
  <2> QED BY <2>1, <2>2
<1>3. BegRow(a) = BegRow(b) /\ EndRow(a) = EndRow(b) /\ n \in Nat
  BY BlockParts DEF SameBlock, BegRow, EndRow
<1>4. \A i : Piece(a, i) = Piece(b, i)
  <2>1. \A i : Row(a, i) = Row(b, i)
    BY DEF SameBlock, Row, Count
  <2>2. BegCol(a) = BegCol(b) /\ EndCol(a) = EndCol(b) /\ LeftCol(a) = LeftCol(b) /\ RightCol(a) = RightCol(b)
    BY <1>3 DEF SameBlock, BegCol, EndCol, LeftCol, RightCol
  <2>3. IsColumn(a) <=> IsColumn(b)
    BY DEF SameBlock, IsColumn, Column
  <2> QED BY <1>3, <2>1, <2>2, <2>3 DEF Piece
<1> HIDE DEF n, ls, c
<1>5. c.lines = ls /\ c.column = Has(b, "ColumnBlock")
  BY <1>1
<1>6. Len(ls) = n /\ \A k \in 1 .. n : ls[k] = Piece(b, beg + k - 1)
  BY <1>3 DEF ls
<1> HIDE DEF beg
<1>7. EndRow(a) - BegRow(a) + 1 = n /\ BegRow(a) = beg
  BY <1>3 DEF n, beg
<1>8. \A k \in 1 .. n : c.lines[k] = Piece(a, beg + k - 1)
  BY <1>4, <1>5, <1>6
<1>9. c.column <=> Column(a)
  BY <1>5 DEF SameBlock, Column
<1> QED BY <1>2, <1>5, <1>6, <1>7, <1>8, <1>9 DEF IsCopy, c

\* The columns of a block come back.
LEMMA ColumnsReturn ==
    ASSUME NEW b \in Good, ~StaleMark(b), IsColumn(b), NEW c, IsCopy(c, b), NEW ls, NEW qs,
           IsRewritten(ls, b, [i \in Nat |-> DelChars(Row(b, i), LeftCol(b), RightCol(b) - LeftCol(b))]),
           IsOverlaid(qs, ls, Len(ls), BegRow(b), LeftCol(b), c.lines, Len(c.lines))
    PROVE  Agree(qs, b.lines)
<1> DEFINE f == [i \in Nat |-> DelChars(Row(b, i), LeftCol(b), RightCol(b) - LeftCol(b))]
           beg == BegRow(b)
           end == EndRow(b)
           left == LeftCol(b)
           w == RightCol(b) - LeftCol(b)
           ms == b.lines
           n == Len(ms)
           cs == c.lines
           m == end - beg + 1
<1>0. beg \in Nat /\ end \in Nat /\ beg <= end /\ end < n /\ left \in Nat /\ w \in Nat /\ m \in Nat /\ n \in Nat
      /\ Count(b) = n
  <2>1. beg \in Nat /\ end \in Nat /\ beg <= end /\ end < Count(b) /\ left \in Nat /\ RightCol(b) \in Nat /\ Count(b) = n /\ n \in Nat
    BY BlockParts, GoodParts
  <2>2. left <= RightCol(b)
    BY GoodParts DEF LeftCol, RightCol, Smaller, Larger
  <2> HIDE DEF beg, end, left, n
  <2> QED BY <2>1, <2>2 DEF left
<1>1. /\ Len(ls) = n
      /\ \A k \in 1 .. n : ls[k] = IF k - 1 \in beg .. end THEN f[k - 1] ELSE ms[k]
  BY <1>0 DEF IsRewritten
<1>2. /\ Len(qs) = n
      /\ \A k \in 1 .. n : qs[k] = IF k \in beg + 1 .. beg + m THEN InsChars(ls[k], left, cs[k - beg]) ELSE ls[k]
  BY <1>1 DEF IsOverlaid, IsCopy
<1>3. \A k \in 1 .. m : cs[k] = Extract(Row(b, beg + k - 1), left, w)
  BY DEF IsCopy, Piece
<1>31. m = end - beg + 1
  OBVIOUS
<1> HIDE DEF m, beg, end, n
<1>4. ASSUME NEW k \in 1 .. n PROVE Trim(qs[k]) = Trim(ms[k])
  <2> DEFINE i == k - 1
             s == Row(b, i)
             j == k - beg
  <2>1. i \in Nat /\ i + 1 = k /\ i < n /\ k \in Nat
    BY <1>0
  <2>2. s = ms[k] /\ s \in Rows
    <3>1. i \in 0 .. Count(b) - 1
      BY <1>0, <2>1
    <3>2. b \in Buffers
      BY GoodParts
    <3> HIDE DEF i
    <3>3. Row(b, i) \in Rows
      BY <2>1, <3>2, RowType
    <3>4. Row(b, i) = ms[i + 1]
      BY <3>1 DEF Row
    <3> QED BY <2>1, <3>3, <3>4
  <2>3. CASE i \in beg .. end
    <3>1. k \in beg + 1 .. beg + m
      BY <1>0, <1>31, <2>1, <2>3
    <3>2. j \in 1 .. m /\ beg + j - 1 = i
      BY <1>0, <2>1, <3>1
    <3> HIDE DEF j
    <3>3. cs[j] = Extract(s, left, w)
      BY <1>3, <3>2
    <3>4. ls[k] = DelChars(s, left, w)
      BY <1>1, <2>1, <2>3
    <3> HIDE DEF s, left, w, i, f
    <3>5. qs[k] = InsChars(DelChars(s, left, w), left, Extract(s, left, w))
      BY <1>2, <3>1, <3>3, <3>4 DEF j
    <3> DEFINE t == InsChars(DelChars(s, left, w), left, Extract(s, left, w))
    <3>6. t \in Rows /\ Padded(t, s)
      BY <1>0, <2>2, ColumnRow
    <3> HIDE DEF t
    <3>7. Trim(t) = Trim(s)
      BY <2>2, <3>6, PaddedTrims
    <3> QED BY <2>2, <3>5, <3>7 DEF t
  <2>4. CASE i \notin beg .. end
    <3>1. k \notin beg + 1 .. beg + m
      BY <1>0, <1>31, <2>1, <2>4
    <3> HIDE DEF f
    <3> QED BY <1>1, <1>2, <2>4, <3>1
  <2> QED BY <2>3, <2>4
<1>5. Agree(qs, ms)
  BY <1>2, <1>4 DEF Agree, n
<1> QED BY <1>5

\* The rows of a stream come back.
LEMMA StreamReturns ==
    ASSUME NEW b \in Good, ~StaleMark(b), ~IsColumn(b), BegRow(b) < EndRow(b), NEW c, IsCopy(c, b), NEW ls, NEW qs,
           LET beg == BegRow(b)
               end == EndRow(b)
               from == BegCol(b)
               s == Row(b, beg)
               h == DelChars(s, from, Len(s) - from)
               t == DelChars(Row(b, end), 0, EndCol(b))
               j == InsChars(h, from, t)
               n == Len(c.lines)
               a == InsChars(DelChars(j, from, Len(j)), from, c.lines[1])
               z == InsChars(TailFrom(j, from), 0, c.lines[n])
           IN IsGap(ls, b.lines, Count(b), beg, end - beg, j) /\ IsFed(qs, ls, Len(ls), beg, a, c.lines, n - 2, z)
    PROVE  Agree(qs, b.lines)
<1> DEFINE beg == BegRow(b)
           end == EndRow(b)
           from == BegCol(b)
           to == EndCol(b)
           s == Row(b, beg)
           e == Row(b, end)
           h == DelChars(s, from, Len(s) - from)
           t == DelChars(e, 0, to)
           j == InsChars(h, from, t)
           cs == c.lines
           m == Len(cs)
           a == InsChars(DelChars(j, from, Len(j)), from, cs[1])
           z == InsChars(TailFrom(j, from), 0, cs[m])
           ms == b.lines
           n == Len(ms)
           d == end - beg
<1>0. beg \in Nat /\ end \in Nat /\ beg < end /\ end < n /\ from \in Nat /\ to \in Nat /\ n \in Nat /\ Count(b) = n
  BY BlockParts, GoodParts
<1>1. IsGap(ls, ms, n, beg, d, j) /\ IsFed(qs, ls, Len(ls), beg, a, cs, m - 2, z)
  BY <1>0
<1>2. m = d + 1 /\ \A k \in 1 .. m : cs[k] = Piece(b, beg + k - 1)
  BY DEF IsCopy
<1>3. /\ \A i \in 0 .. n - 1 : Row(b, i) = ms[i + 1] /\ Row(b, i) \in Rows
      /\ s \in Rows /\ e \in Rows /\ s = ms[beg + 1] /\ e = ms[end + 1]
  <2>1. \A i \in 0 .. n - 1 : Row(b, i) = ms[i + 1] /\ Row(b, i) \in Rows
    <3>1. b \in Buffers
      BY GoodParts
    <3> HIDE DEF n
    <3>2. \A i \in 0 .. n - 1 : i \in Nat
      BY <1>0
    <3>3. \A i \in 0 .. n - 1 : Row(b, i) = ms[i + 1]
      BY <1>0 DEF Row
    <3>4. \A i \in 0 .. n - 1 : Row(b, i) \in Rows
      BY <3>1, <3>2, RowType
    <3> QED BY <3>3, <3>4
  <2> HIDE DEF beg, end, n
  <2>2. beg \in 0 .. n - 1 /\ end \in 0 .. n - 1
    BY <1>0
  <2> QED BY <2>1, <2>2
<1> DEFINE x == Extract(s, from, Len(s) - from)
           y == Extract(e, 0, Smaller(to, Len(e)))
<1>4. cs[1] = x /\ cs[m] = y /\ \A k \in 2 .. m - 1 : cs[k] = ms[beg + k]
  <2>0. /\ Piece(b, beg) = x /\ Piece(b, end) = y
        /\ \A i \in beg + 1 .. end - 1 : Piece(b, i) = Row(b, i)
    <3>1. Piece(b, beg) = x
      BY DEF Piece
    <3>2. Piece(b, end) = y
      <4>1. ~IsColumn(b) /\ EndRow(b) # BegRow(b)
        BY <1>0
      <4> QED BY <4>1 DEF Piece
    <3>3. ASSUME NEW i \in beg + 1 .. end - 1 PROVE Piece(b, i) = Row(b, i)
      <4> HIDE DEF beg, end
      <4>1. i # beg /\ i # end
        BY <1>0
      <4>2. ~IsColumn(b) /\ i # BegRow(b) /\ i # EndRow(b)
        BY <4>1 DEF beg, end
      <4> QED BY <4>2 DEF Piece
    <3> QED BY <3>1, <3>2, <3>3
  <2> HIDE DEF beg, end, x, y, m, n
  <2>1. 1 \in 1 .. m /\ m \in 1 .. m /\ beg + 1 - 1 = beg /\ beg + m - 1 = end
    <3>1. m = d + 1 /\ d \in Nat
      BY <1>0, <1>2
    <3>2. beg + d = end
      BY <1>0
    <3> HIDE DEF d
    <3> QED BY <1>0, <3>1, <3>2
  <2>2. ASSUME NEW k \in 2 .. m - 1 PROVE cs[k] = ms[beg + k]
    <3> DEFINE i == beg + k - 1
    <3>1. k \in 1 .. m /\ i \in beg + 1 .. end - 1 /\ i \in 0 .. n - 1 /\ i + 1 = beg + k
      BY <1>0, <1>2, <2>1
    <3> HIDE DEF i
    <3>2. cs[k] = Piece(b, i)
      BY <1>2, <3>1 DEF i
    <3>3. Row(b, i) = ms[beg + k]
      BY <1>3, <3>1
    <3> QED BY <2>0, <3>1, <3>2, <3>3
  <2> QED BY <1>2, <2>0, <2>1, <2>2
<1> HIDE DEF s, e, from, to, beg, end, cs, m, ms, n, d
<1>5. j \in Rows /\ TailFrom(j, from) = t /\ a \in Rows /\ Padded(a, s)
  <2> HIDE DEF t
  <2>1. t \in Rows
    BY <1>0, <1>3, LastRow DEF t
  <2>2. LET g == InsChars(DelChars(j, from, Len(j)), from, x)
        IN j \in Rows /\ TailFrom(j, from) = t /\ g \in Rows /\ Padded(g, s)
    <3>0. s \in Rows /\ from \in Nat /\ t \in Rows
      BY <1>0, <1>3, <2>1
    <3>1. LET hh == DelChars(s, from, Len(s) - from)
              jj == InsChars(hh, from, t)
              aa == InsChars(DelChars(jj, from, Len(jj)), from, Extract(s, from, Len(s) - from))
          IN hh \in Rows /\ Len(hh) <= from /\ jj \in Rows /\ TailFrom(jj, from) = t /\ aa \in Rows /\ Padded(aa, s)
      BY <3>0, FirstRow, Zenon
    <3> QED BY <3>1
  <2> HIDE DEF j, x
  <2> QED BY <1>4, <2>2
<1>6. z = e
  <2>1. InsChars(t, 0, y) = e
    BY <1>0, <1>3, LastRow
  <2> HIDE DEF t, j, y
  <2> QED BY <1>4, <1>5, <2>1
<1> HIDE DEF j, a, z, x, y, t
<1>7. Trim(a) = Trim(s)
  BY <1>3, <1>5, PaddedTrims
<1>8. d \in Nat \ {0} /\ m - 2 = d - 1 /\ beg + d = end /\ d - 1 \in Nat
  BY <1>0, <1>2 DEF d
<1>9. /\ Len(ls) = n - d
      /\ \A k \in 1 .. n - d : ls[k] = IF k <= beg THEN ms[k] ELSE IF k = beg + 1 THEN j ELSE ms[k + d]
  BY <1>1 DEF IsGap
<1>10. /\ Len(qs) = n
       /\ \A k \in 1 .. n : qs[k] = IF k <= beg THEN ls[k]
                                    ELSE IF k = beg + 1 THEN a
                                    ELSE IF k <= end THEN cs[k - beg]
                                    ELSE IF k = end + 1 THEN z
                                    ELSE ls[k - d]
  <2>1. IsFed(qs, ls, n - d, beg, a, cs, d - 1, z)
    BY <1>1, <1>8, <1>9
  <2>2. n - d + 1 + (d - 1) = n /\ beg + 1 + (d - 1) = end /\ beg + 2 + (d - 1) = end + 1
        /\ \A k \in 1 .. n : k - 1 - (d - 1) = k - d
    BY <1>0, <1>8
  <2>3. Len(qs) = n /\ \A k \in 1 .. n : qs[k] = IF k <= beg THEN ls[k]
                                    ELSE IF k = beg + 1 THEN a
                                    ELSE IF k <= beg + 1 + (d - 1) THEN cs[k - beg]
                                    ELSE IF k = beg + 2 + (d - 1) THEN z
                                    ELSE ls[k - 1 - (d - 1)]
    BY <2>1, <2>2 DEF IsFed
  <2> QED BY <2>2, <2>3
<1>11. ASSUME NEW k \in 1 .. n PROVE Trim(qs[k]) = Trim(ms[k])
  <2>1. CASE k <= beg
    BY <1>0, <1>8, <1>9, <1>10, <2>1
  <2>2. CASE k = beg + 1
    BY <1>0, <1>3, <1>7, <1>10, <2>2
  <2>3. CASE k > beg + 1 /\ k <= end
    <3> DEFINE i == k - beg
    <3>1. i \in 2 .. m - 1 /\ beg + i = k
      BY <1>0, <1>2, <1>8, <2>3
    <3> HIDE DEF i
    <3>2. cs[i] = ms[k]
      BY <1>4, <3>1
    <3>3. ~(k <= beg) /\ k # beg + 1
      BY <1>0, <2>3
    <3>4. qs[k] = cs[k - beg]
      BY <1>10, <2>3, <3>3
    <3> QED BY <3>2, <3>4 DEF i
  <2>4. CASE k = end + 1
    BY <1>0, <1>3, <1>6, <1>10, <2>4
  <2>5. CASE k > end + 1
    <3> DEFINE i == k - d
    <3>1. i \in 1 .. n - d /\ i + d = k /\ i > beg + 1
      BY <1>0, <1>8, <2>5
    <3> HIDE DEF i
    <3>2. ls[i] = ms[k]
      BY <1>0, <1>9, <3>1
    <3>3. qs[k] = ls[i]
      BY <1>0, <1>10, <2>5 DEF i
    <3> QED BY <3>2, <3>3
  <2>6. k <= beg \/ k = beg + 1 \/ (k > beg + 1 /\ k <= end) \/ k = end + 1 \/ k > end + 1
    BY <1>0
  <2> QED BY <2>1, <2>2, <2>3, <2>4, <2>5, <2>6
<1> QED BY <1>10, <1>11 DEF Agree, n, ms

\* A column block, or a block of one row, comes back.
LEMMA ColumnsAgain ==
    ASSUME NEW b \in Good, ~StaleMark(b), IsColumn(b), NEW c, IsCopy(c, b), NEW d,
           \E ls : Now(ClearColumns(b), d, ls, BegRow(b), LeftCol(b)) /\ ls = ClearColumns(b).lines
    PROVE  Agree(PasteRows(d, c).lines, b.lines)
<1> DEFINE f == [i \in Nat |-> DelChars(Row(b, i), LeftCol(b), RightCol(b) - LeftCol(b))]
           k == ClearColumns(b)
           p == PasteRows(d, c)
           beg == BegRow(b)
           left == LeftCol(b)
<1>1. PICK ls : IsRewritten(ls, b, f) /\ Now(b, k, ls, beg, left)
  BY ClearedColumns
<1> HIDE DEF f, k
<1>2. Now(k, d, ls, beg, left)
  BY <1>1 DEF Now, k
<1>3. d \in Good /\ d.lines = ls /\ d.row = beg /\ d.col = left /\ Count(d) = Len(ls) /\ Len(ls) = Count(b)
  BY <1>1, <1>2 DEF Now, Count, IsRewritten
<1>4. c \in Clips /\ beg + Len(c.lines) <= Count(d)
  <2>1. beg \in Nat /\ EndRow(b) \in Nat /\ EndRow(b) < Count(b) /\ Count(b) \in Nat
    BY BlockParts, GoodParts
  <2>2. c \in Clips /\ Len(c.lines) = EndRow(b) - beg + 1
    BY DEF IsCopy
  <2> HIDE DEF beg
  <2> QED BY <1>3, <2>1, <2>2
<1> HIDE DEF beg, left, p
<1>5. PICK qs, j : Now(d, p, qs, beg, j) /\ IsOverlaid(qs, ls, Len(ls), beg, left, c.lines, Len(c.lines))
  <2>1. \E qs, j : /\ Now(d, PasteRows(d, c), qs, d.row, j)
                   /\ IsOverlaid(qs, d.lines, Count(d), d.row, d.col, c.lines, Len(c.lines))
    BY <1>3, <1>4, PastedRows
  <2> QED BY <1>3, <2>1 DEF p
<1>6. Agree(qs, b.lines)
  BY <1>1, <1>5, ColumnsReturn DEF f, beg, left
<1> QED BY <1>5, <1>6 DEF Now, p

\* A stream block of several rows comes back.
LEMMA StreamAgain ==
    ASSUME NEW b \in Good, ~StaleMark(b), ~IsColumn(b), NEW c, IsCopy(c, b), NEW d,
           \E ls : Now(ClearStream(b), d, ls, BegRow(b), BegCol(b)) /\ ls = ClearStream(b).lines
    PROVE  Agree(PasteStream(d, c).lines, b.lines) /\ Len(c.lines) > 1
<1> DEFINE k == ClearStream(b)
           p == PasteStream(d, c)
           beg == BegRow(b)
           end == EndRow(b)
           from == BegCol(b)
           s == Row(b, beg)
           h == DelChars(s, from, Len(s) - from)
           t == DelChars(Row(b, end), 0, EndCol(b))
           j == InsChars(h, from, t)
           n == Len(c.lines)
           a == InsChars(DelChars(j, from, Len(j)), from, c.lines[1])
           z == InsChars(TailFrom(j, from), 0, c.lines[n])
<1>0. beg \in Nat /\ end \in Nat /\ beg < end /\ end < Count(b) /\ Count(b) \in Nat /\ n = end - beg + 1 /\ c \in Clips
  <2>1. beg \in Nat /\ end \in Nat /\ end < Count(b) /\ Count(b) \in Nat
    BY BlockParts, GoodParts
  <2>2. c \in Clips /\ n = end - beg + 1
    BY DEF IsCopy
  <2>3. beg < end
    BY GoodParts DEF IsColumn, BegRow, EndRow, Smaller, Larger
  <2> QED BY <2>1, <2>2, <2>3
<1>1. PICK ls : Now(b, k, ls, beg, from) /\ IsGap(ls, b.lines, Count(b), beg, end - beg, j)
  BY <1>0, ClearedStream
<1> HIDE DEF k, j
<1>2. Now(k, d, ls, beg, from)
  BY <1>1 DEF Now, k
<1>3. d \in Good /\ d.lines = ls /\ d.row = beg /\ d.col = from /\ Count(d) = Len(ls)
  BY <1>2 DEF Now, Count
<1>4. AbsLine(d) = j
  <2>1. Len(ls) = Count(b) - (end - beg)
        /\ \A i \in 1 .. Count(b) - (end - beg) :
               ls[i] = IF i <= beg THEN b.lines[i] ELSE IF i = beg + 1 THEN j ELSE b.lines[i + (end - beg)]
    BY <1>1 DEF IsGap
  <2> HIDE DEF beg, end
  <2>2. beg + 1 \in 1 .. Count(b) - (end - beg) /\ beg \in 0 .. Len(ls) - 1 /\ ~(beg + 1 <= beg)
    BY <1>0, <2>1
  <2>3. ls[beg + 1] = j
    BY <2>1, <2>2
  <2> QED BY <1>3, <2>2, <2>3 DEF AbsLine, Row
<1>5. n > 1
  <2> HIDE DEF beg, end, n
  <2> QED BY <1>0
<1> HIDE DEF p
<1>6. PICK qs, i, m : Now(d, p, qs, i, m) /\ IsFed(qs, ls, Len(ls), beg, a, c.lines, n - 2, z)
  <2> HIDE DEF beg, from
  <2>1. \E qs, i, m : /\ Now(d, PasteStream(d, c), qs, i, m)
                      /\ IsFed(qs, d.lines, Count(d), d.row,
                               InsChars(DelChars(AbsLine(d), d.col, Len(AbsLine(d))), d.col, c.lines[1]), c.lines, n - 2,
                               InsChars(TailFrom(AbsLine(d), d.col), 0, c.lines[n]))
    BY <1>0, <1>3, <1>5, PastedStream
  <2> QED BY <1>3, <1>4, <2>1 DEF p
<1>7. Agree(qs, b.lines)
  <2>1. IsGap(ls, b.lines, Count(b), beg, end - beg, j) /\ IsFed(qs, ls, Len(ls), beg, a, c.lines, n - 2, z)
    BY <1>1, <1>6
  <2> QED BY <1>0, <2>1, StreamReturns DEF j
<1> QED BY <1>5, <1>6, <1>7 DEF Now, p

\* Cut and paste give the text back, when the block is pasted as what it was.
LEMMA RoundTrip ==
    ASSUME NEW b \in Good, Marked(b), ~b.trap, AsColumns(b, Copy(b)) <=> IsColumn(b)
    PROVE  Agree(Paste(Cut(b), Copy(b)).lines, b.lines)
<1> DEFINE a == SetChanged(b, TRUE)
           k == IF IsColumn(a) THEN ClearColumns(a) ELSE ClearStream(a)
           e == SetChanged(k, TRUE)
           d == SetChanged(e, TRUE)
           c == Copy(b)
           byRow == AsColumns(e, c)
<1>0. Agree(b.lines, b.lines)
  BY DEF Agree
<1>1. CASE StaleMark(b)
  <2>1. Cut(b) = Trap(b)
    BY <1>1 DEF Cut, Marked
  <2>2. Trap(b).trap /\ Trap(b).lines = b.lines
    <3>1. Trap(b).lines = b.lines
      BY TrapTurns
    <3>2. b \in Buffers
      BY GoodParts
    <3> QED BY <3>1, <3>2, BufferParts DEF Trap, Buffers
  <2>3. Paste(Trap(b), c) = Trap(b)
    BY <2>2, Zenon DEF Paste
  <2> QED BY <1>0, <2>1, <2>2, <2>3
<1>2. CASE ~StaleMark(b)
  <2>1. a \in Good /\ SameBlock(a, b) /\ ~a.trap
    BY FlagsNow DEF Now, SameBlock
  <2>2. ~StaleMark(a)
    BY <1>2, <2>1 DEF StaleMark, SameBlock, Count
  <2>3. IsCopy(c, a)
    BY <2>1, CopyIs
  <2>4. Cut(b) = e
    <3>1. IsColumn(a) <=> IsColumn(b)
      BY <2>1 DEF SameBlock, IsColumn, Column
    <3>2. Clear(b) = IF IsColumn(b) THEN ClearColumns(a) ELSE ClearStream(a)
      BY Zenon DEF Clear, Marked
    <3>3. Clear(b) = k
      <4> HIDE DEF a
      <4> QED BY <3>1, <3>2
    <3> HIDE DEF k
    <3> QED BY <1>2, <3>3 DEF Cut, Marked
  <2>41. (IsColumn(a) <=> IsColumn(b)) /\ (Column(a) <=> Column(b)) /\ (AsColumns(b, c) <=> IsColumn(b))
    BY <2>1 DEF SameBlock, IsColumn, Column
  <2> HIDE DEF a, c
  <2> DEFINE beg == BegRow(a)
             from == IF IsColumn(a) THEN LeftCol(a) ELSE BegCol(a)
  <2>5. Now(a, k, k.lines, beg, from) 
    <3>1. CASE IsColumn(a)
      <4>1. \E ls : Now(a, ClearColumns(a), ls, BegRow(a), LeftCol(a))
        BY <2>1, <2>2, ClearedColumns
      <4> QED BY <3>1, <4>1 DEF Now
    <3>2. CASE ~IsColumn(a)
      <4>0. BegRow(a) < EndRow(a)
        BY <2>1, <3>2, GoodParts DEF IsColumn, BegRow, EndRow, Smaller, Larger
      <4>1. \E ls : Now(a, ClearStream(a), ls, BegRow(a), BegCol(a))
        BY <2>1, <2>2, <4>0, ClearedStream
      <4> QED BY <3>2, <4>1 DEF Now
    <3> QED BY <3>1, <3>2
  <2> HIDE DEF k
  <2>6. Now(k, e, k.lines, beg, from)
    <3>1. k \in Good /\ k.row = beg /\ k.col = from
      BY <2>5 DEF Now
    <3> QED BY <3>1, FlagsNow
  <2> HIDE DEF e
  <2>7. Now(e, d, k.lines, beg, from)
    <3>1. e \in Good /\ e.row = beg /\ e.col = from /\ e.lines = k.lines
      BY <2>6 DEF Now
    <3>2. Now(e, SetChanged(e, TRUE), e.lines, e.row, e.col)
      BY <3>1, FlagsNow
    <3> QED BY <3>1, <3>2
  <2> HIDE DEF d
  <2>8. Now(k, d, k.lines, beg, from) /\ ~e.trap /\ (Column(e) <=> Column(a))
    <3>1. Now(k, d, k.lines, beg, from)
      BY <2>6, <2>7, NowOn
    <3> QED BY <2>1, <2>5, <2>6, <3>1 DEF Now
  <2>9. c \in Clips /\ c # NoClip
    <3>1. c \in Clips
      BY <2>3 DEF IsCopy
    <3>2. c.lines # <<>>
      BY <3>1 DEF Clips
    <3>3. NoClip.lines = <<>>
      BY DEF NoClip
    <3> QED BY <3>1, <3>2, <3>3
  <2>10. Paste(e, c) = IF byRow THEN PasteRows(d, c) ELSE PasteStream(d, c)
    BY <2>8, <2>9, Zenon DEF Paste, d
  <2>101. byRow <=> IsColumn(a)
    BY <2>8, <2>41 DEF AsColumns, Column
  <2> HIDE DEF byRow
  <2>11. CASE IsColumn(a)
    <3>3. Agree(PasteRows(d, c).lines, a.lines)
      BY <2>1, <2>2, <2>3, <2>8, <2>11, ColumnsAgain DEF k
    <3> QED BY <2>1, <2>4, <2>10, <2>101, <2>11, <3>3 DEF SameBlock, c
  <2>12. CASE ~IsColumn(a)
    <3>1. Agree(PasteStream(d, c).lines, a.lines) /\ Len(c.lines) > 1
      BY <2>1, <2>2, <2>3, <2>8, <2>12, StreamAgain DEF k
    <3> QED BY <2>1, <2>4, <2>10, <2>101, <2>12, <3>1 DEF SameBlock, c
  <2> QED BY <2>11, <2>12
<1> QED BY <1>1, <1>2
=============================================================================
