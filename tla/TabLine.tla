------------------------------ MODULE TabLine -------------------------------
(***************************************************************************)
(* Lines with TABs (line.cpp).  A line is kept as it was read from the     *)
(* file, TABs included, until the first change that needs its columns; on  *)
(* the screen a TAB reaches to the next multiple of the width w.  Columns  *)
(* start at 0, characters of a sequence at 1.                              *)
(***************************************************************************)
EXTENDS Integers, Sequences, SequencesExt

Tab == "\t"
Spaces(n) == [i \in 1 .. n |-> " "]
NextStop(col, w) == ((col \div w) + 1) * w
Least(a, b) == IF a < b THEN a ELSE b

\* recalc_sz: the column behind each character, and the width of the line
ColumnsOf(s, w) ==
    LET col[i \in 0 .. Len(s)] ==
            IF i = 0 THEN 0 ELSE IF s[i] = Tab THEN NextStop(col[i - 1], w) ELSE col[i - 1] + 1
    IN col
WidthOf(s, w) == ColumnsOf(s, w)[Len(s)]

\* build_print and touch: the TABs replaced by blanks
Expanded(s, w) ==
    FoldLeft(LAMBDA out, c : IF c = Tab THEN out \o Spaces(NextStop(Len(out), w) - Len(out))
                             ELSE Append(out, c), <<>>, s)

(***************************************************************************)
(* get_print fills width cells from column start on: each character stores *)
(* what lies in the window, and the cells behind the line become blank.    *)
(***************************************************************************)
PrintedFrom(s, w, start, width) ==
    LET cols == ColumnsOf(s, w)
        stop == {i \in 1 .. Len(s) : cols[i] >= start + width}
        last == IF stop = {} THEN Len(s) ELSE CHOOSE i \in stop : \A j \in stop : i <= j
        under == [c \in start .. start + width - 1 |-> {i \in 1 .. last : cols[i - 1] <= c /\ c < cols[i]}]
    IN [k \in 1 .. width |->
          IF under[start + k - 1] = {} THEN " "
          ELSE LET ch == s[CHOOSE i \in under[start + k - 1] : TRUE] IN IF ch = Tab THEN " " ELSE ch]

\* the characters of a set of places, which follow each other
Picked(s, places) ==
    IF places = {} THEN <<>>
    ELSE SubSeq(s, CHOOSE i \in places : \A j \in places : i <= j,
                   CHOOSE i \in places : \A j \in places : i >= j)

\* a mistake: a TAB that reaches out of the block is taken whole
SubLineWholeTab(s, w, start, width) ==
    LET cols == ColumnsOf(s, w)
        in   == {i \in 1 .. Len(s) : cols[i - 1] >= start /\ cols[i - 1] < start + width}
        short == start + width - WidthOf(s, w)
    IN Picked(s, in) \o Spaces(IF short > 0 THEN short ELSE 0)

(***************************************************************************)
(* Line(master, start, width, force): a block of a line with its TABs kept *)
(* when it starts at a TAB stop; a TAB that reaches out of the block is    *)
(* cut to blanks, and a line that ends before the block does is filled up  *)
(* from its own end, wherever that is, with TABs for as long as more than  *)
(* a whole one is missing and with blanks then.                            *)
(***************************************************************************)
SubLine(s, w, start, width) ==
    LET cols == ColumnsOf(s, w)
        in   == {i \in 1 .. Len(s) : cols[i - 1] >= start /\ cols[i] <= start + width}
        ends == WidthOf(s, w) < start + width
        room == start + width - (IF ends THEN WidthOf(s, w) ELSE start + WidthOf(Picked(s, in), w))
        tabs == IF ends THEN (room - 1) \div w ELSE 0
    IN IF width <= 0 THEN <<>>
       ELSE IF start % w # 0 THEN PrintedFrom(s, w, start, width)
       ELSE Picked(s, in) \o [i \in 1 .. tabs |-> Tab] \o Spaces(room - tabs * w)

-----------------------------------------------------------------------------
(***************************************************************************)
(* Columns asked of a line.                                                *)
(***************************************************************************)
\* is_empty: nothing but blanks up to a column; the character that reaches past it ends the look
IsEmptyTo(s, w, end) ==
    LET cols == ColumnsOf(s, w) IN \A i \in 1 .. Len(s) : cols[i - 1] <= end => s[i] \in {" ", Tab}

\* get_prev_pos: the column where the character before a column begins
PrevPos(s, w, from) ==
    LET cols == ColumnsOf(s, w)
        at   == {i \in 1 .. Len(s) : cols[i - 1] <= from - 1 /\ from - 1 < cols[i]}
    IN IF from <= 1 THEN 0
       ELSE IF from > WidthOf(s, w) THEN from - 1
       ELSE IF at = {} THEN 0 ELSE cols[(CHOOSE i \in at : TRUE) - 1]

\* find_word: the columns of the word under the cursor, between blanks; <<>> if there is none
FindWord(s, w, at) ==
    LET t == Expanded(s, w)
        blank(i) == t[i] = " "
        left  == {i \in 1 .. at : blank(i)}
        right == {i \in at + 2 .. Len(t) : blank(i)}
    IN IF at >= Len(t) \/ t[at + 1] \notin {"a", "b", "_"} THEN <<>>
       ELSE << IF left = {} THEN 0 ELSE CHOOSE i \in left : \A j \in left : i >= j,
               IF right = {} THEN Len(t) ELSE (CHOOSE i \in right : \A j \in right : i <= j) - 1 >>

\* indent_offset: every TAB counts as a whole one
IndentWidth(s, w) ==
    LET text == {i \in 1 .. Len(s) : s[i] \notin {" ", Tab}}
        lead == IF text = {} THEN s ELSE SubSeq(s, 1, (CHOOSE i \in text : \A j \in text : i <= j) - 1)
    IN FoldLeft(LAMBDA n, c : n + IF c = Tab THEN w ELSE 1, 0, lead)

\* the leading blanks of src that fit into offset columns, by the same count
Fitting(src, w, offset) ==
    LET lead == {n \in 0 .. Len(src) : /\ \A i \in 1 .. n : src[i] \in {" ", Tab}
                                       /\ IndentWidth(SubSeq(src, 1, n), w) <= offset}
    IN SubSeq(src, 1, CHOOSE n \in lead : \A m \in lead : n >= m)

\* indent: a new line gets the blanks of the line before it, then TABs, then blanks
IndentOf(src, w, offset, useTabs) ==
    LET lead == Fitting(src, w, offset)
        rest == offset - IndentWidth(lead, w)
    IN IF offset <= 0 THEN <<>>
       ELSE IF ~useTabs THEN Spaces(offset)
       ELSE lead \o [i \in 1 .. rest \div w |-> Tab] \o Spaces(rest % w)
=============================================================================
