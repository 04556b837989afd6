------------------------------ MODULE Drawing -------------------------------
(***************************************************************************)
(* What Buffer::draw (bdraw.cpp) puts on the rows of the window: the text  *)
(* with the colours of its tokens, the marked block, the match of the last *)
(* search and the mark at the end of the line.                             *)
(*                                                                         *)
(* The window w has rows and cols and shows the text from w.row and w.col  *)
(* on.  A row of the window is a sequence of cells, a character and a      *)
(* colour each; the functions of vio.cpp write into it.                    *)
(***************************************************************************)
EXTENDS Scanners, Integers, Sequences, SequencesExt

Lesser(a, b)  == IF a < b THEN a ELSE b
Greater(a, b) == IF a > b THEN a ELSE b

\* get_print: the text from column start on, width characters, blanks behind its end
PrintOf(s, start, width) ==
    [i \in 1 .. width |-> IF start + i <= Len(s) THEN s[start + i] ELSE " "]

\* the cell that vio_print and its kind write: within the row only
Painted(row, from, n, Cell(_, _)) ==
    [i \in 1 .. Len(row) |-> IF i > from /\ i <= from + n THEN Cell(i, row[i]) ELSE row[i]]

\* vio_print, vio_draw_attr, vio_draw_chr
Printed(row, from, text, n, color) ==
    Painted(row, from, n, LAMBDA i, c :
        [chr |-> IF i - from <= Len(text) THEN text[i - from] ELSE " ", color |-> color])
Attributed(row, from, n, color) == Painted(row, from, n, LAMBDA i, c : [c EXCEPT !.color = color])

-----------------------------------------------------------------------------
(***************************************************************************)
(* The colours of a row.  The line is scanned from its beginning; tokens   *)
(* that end before the window are passed over, and the one that reaches    *)
(* into it is cut at the edge.                                             *)
(***************************************************************************)
Ends(toks)  == [k \in 0 .. Len(toks) |-> FoldLeft(LAMBDA n, t : n + t.len, 0, SubSeq(toks, 1, k))]

\* a mistake: a token that ends at the edge of the window is not passed over, nor cut
CutNowhere(toks, ends, k, w) ==
    PrintOf(FlattenSeq([i \in 1 .. Len(toks) - k + 1 |-> [n \in 1 .. toks[i + k - 1].len |-> toks[i + k - 1].color]]),
            0, w.cols)
\* the colours of the tokens from k on
CutAtEdge(toks, ends, k, w) ==
    FlattenSeq([i \in 1 .. Len(toks) - k + 1 |->
                  LET t == toks[i + k - 1]
                  IN [n \in 1 .. IF i = 1 THEN ends[k] - w.col ELSE t.len |-> t.color]])

Coloured(lang, state, s, w) ==
    LET from(toks, ends) == CutAtEdge(toks, ends, First(1, {i \in 1 .. Len(toks) : ends[i] >= w.col}), w)
        all(toks) == from(toks, Ends(toks))
    IN all(Tokens(lang, state, PrintOf(s, 0, w.cols + w.col)).toks)

TextRow(lang, state, s, w) ==
    LET text == PrintOf(s, w.col, w.cols)
        blank == [i \in 1 .. w.cols |-> [chr |-> " ", color |-> "Default"]]
    IN IF w.col >= Len(s) THEN blank
       ELSE IF lang = "none" THEN Printed(blank, 0, text, w.cols, "Default")
       ELSE LET colors == Coloured(lang, state, s, w)
            IN [i \in 1 .. w.cols |-> [chr |-> text[i], color |-> colors[i]]]

(***************************************************************************)
(* The block between the mark and the cursor: a rectangle, or the rest of  *)
(* its first row, the beginning of its last one and the rows between.      *)
(***************************************************************************)
BlockRows(b) == Lesser(b.mrow, b.row) .. Greater(b.mrow, b.row)

\* a mistake: the first row begins at the smaller of the two columns, whichever end it is
MarkedFromLeft(b, j, w) ==
    LET left == Lesser(b.mcol, b.col)  right == Greater(b.mcol, b.col)
        edge == w.col + w.cols
    IN IF j \notin BlockRows(b) THEN <<0, 0>>
       ELSE IF b.column \/ b.mrow = b.row THEN <<Greater(left, w.col), Lesser(right, edge)>>
       ELSE << IF j = Lesser(b.mrow, b.row) THEN Greater(left, w.col) ELSE w.col,
               IF j = Greater(b.mrow, b.row) THEN Lesser(right, edge) ELSE edge >>

\* the columns of row j, from and up to, before they are moved into the window
Marked(b, j, w) ==
    LET beg == Lesser(b.mrow, b.row)   end == Greater(b.mrow, b.row)
        left == Lesser(b.mcol, b.col)  right == Greater(b.mcol, b.col)
        edge == w.col + w.cols
    IN IF j \notin BlockRows(b) THEN <<0, 0>>
       ELSE IF b.column \/ beg = end THEN <<Greater(left, w.col), Lesser(right, edge)>>
       ELSE IF j = beg THEN <<Greater(IF beg = b.mrow THEN b.mcol ELSE b.col, w.col), edge>>
       ELSE IF j = end THEN <<w.col, Lesser(IF end = b.mrow THEN b.mcol ELSE b.col, edge)>>
       ELSE <<w.col, edge>>

\* colours only: a row without characters has the first cell of the block set to 0 before
\* (bdraw.cpp:189), which is outside of the row when the block is
BlockShown(row, b, j, w) ==
    LET m == Marked(b, j, w)
    IN IF b.marking THEN Attributed(row, m[1] - w.col, m[2] - m[1], "Selection") ELSE row

\* the match of the last search
FoundShown(row, b, j, w) ==
    IF j = b.found.row /\ b.found.len > 0 /\ w.col <= b.found.col /\ b.found.col <= w.col + w.cols
    THEN Attributed(row, b.found.col - w.col,
                    Lesser(b.found.len, w.col + w.cols - b.found.col), "Matching")
    ELSE row

\* the mark at the end of the line keeps the colour of a block or a match
EolShown(row, s, w) ==
    LET at == Len(s) - w.col + 1
    IN IF at \notin 1 .. w.cols THEN row
       ELSE [row EXCEPT ![at].chr = "EOL",
                        ![at].color = IF @ \in {"Selection", "Matching"} THEN @ ELSE "Eol"]

RowDrawn(lang, state, b, s, j, w) ==
    EolShown(FoundShown(BlockShown(TextRow(lang, state, s, w), b, j, w), b, j, w), s, w)

=============================================================================
