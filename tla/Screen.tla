------------------------------- MODULE Screen -------------------------------
(***************************************************************************)
(* The screen and the windows of dialogs on it (vio.cpp, dialog.cpp): one  *)
(* run of cells, a row after the other, that all drawing writes to.  A     *)
(* dialog keeps what was under it when it is drawn first and puts it back  *)
(* when it is closed.                                                      *)
(***************************************************************************)
EXTENDS Integers, Sequences, SequencesExt

CONSTANTS Height, Width            \* the rows and columns of the screen

Offset(row, col) == row * Width + col
\* n cells from an offset on are written; vals[i] is what cell i of them gets
Written(screen, at, n, vals(_)) ==
    [i \in DOMAIN screen |-> IF i \in at + 1 .. at + n THEN vals(i - at) ELSE screen[i]]

\* vio_print, vio_hdraw: cut at the right edge of the screen
HDraw(screen, row, col, len, char) ==
    Written(screen, Offset(row, col), Min({len, Width - col}), LAMBDA i : char)
\* vio_vdraw: cut at the bottom; past the right edge it goes down in the next row
VDraw(screen, row, col, len, char) ==
    [i \in DOMAIN screen |->
        IF \E n \in 0 .. Min({len, Height - row}) - 1 : i = Offset(row + n, col) + 1 THEN char ELSE screen[i]]

\* vio_box: the corners, then the sides
Box(screen, row, col, rows, cols, char) ==
    LET corners == FoldLeft(LAMBDA s, p : HDraw(s, p[1], p[2], 1, char), screen,
                            <<<<row, col>>, <<row, col + cols - 1>>,
                              <<row + rows - 1, col>>, <<row + rows - 1, col + cols - 1>> >>)
        top    == HDraw(corners, row, col + 1, cols - 2, char)
        bottom == HDraw(top, row + rows - 1, col + 1, cols - 2, char)
        left   == VDraw(bottom, row + 1, col, rows - 2, char)
    IN VDraw(left, row + 1, col + cols - 1, rows - 2, char)

\* vio_save_box: the rows of the box one after the other, not cut at the edge of the screen
SaveBox(screen, row, col, rows, cols) ==
    [row |-> row, col |-> col, rows |-> rows, cols |-> cols,
     data |-> [i \in 1 .. rows * cols |-> screen[Offset(row + (i - 1) \div cols, col) + ((i - 1) % cols) + 1]]]

\* a mistake: the rows of the box are taken to be as long as those of the screen
RestoreWide(screen, box) ==
    FoldLeft(LAMBDA s, n : Written(s, Offset(box.row + n - 1, box.col), box.cols,
                                   LAMBDA i : box.data[Min({(n - 1) * Width + i, Len(box.data)})]),
             screen, [n \in 1 .. box.rows |-> n])
RestoreBox(screen, box) ==
    FoldLeft(LAMBDA s, n : Written(s, Offset(box.row + n - 1, box.col), box.cols,
                                   LAMBDA i : box.data[(n - 1) * box.cols + i]),
             screen, [n \in 1 .. box.rows |-> n])

-----------------------------------------------------------------------------
\* a dialog: its place, what was under it, and the character that it and its controls are drawn in
DrawControls(screen, d) ==
    FoldLeft(LAMBDA s, n : HDraw(s, d.row + n, d.col + 1, d.cols - 2, d.char), screen, [n \in 1 .. d.rows - 2 |-> n])
\* Dialog::draw
Draw(t) ==
    LET d    == Last(t.dialogs)
        kept == IF d.under # <<>> THEN d
                ELSE [d EXCEPT !.under = <<SaveBox(t.screen, d.row, d.col, d.rows + 1, d.cols + 1)>>]
        boxed == Box(t.screen, d.row, d.col, d.rows, d.cols, d.char)
    IN [screen |-> DrawControls(boxed, d), dialogs |-> Append(Front(t.dialogs), kept)]
Open(t, row, col, rows, cols) ==
    LET d == [row |-> row, col |-> col, rows |-> rows, cols |-> cols, under |-> <<>>, char |-> -Len(t.dialogs) - 1]
    IN Draw([t EXCEPT !.dialogs = Append(@, d)])
\* ~Dialog
Close(t) ==
    [screen |-> RestoreBox(t.screen, Last(t.dialogs).under[1]), dialogs |-> Front(t.dialogs)]

\* dialogs opened over each other, drawn again and closed
Perform(t, op) ==
    CASE op[1] = "open"  -> Open(t, op[2], op[3], op[4], op[5])
      [] t.dialogs = <<>> -> t
      [] op[1] = "draw"  -> Draw(t)
      [] op[1] = "close" -> Close(t)
Before == [i \in 1 .. Height * Width |-> i]
Performed(ops) == FoldLeft(Perform, [screen |-> Before, dialogs |-> <<>>], ops)
=============================================================================
