--------------------------------- MODULE Rows ---------------------------------
(***************************************************************************)
(* What a Buffer keeps beside the text of its rows: the state the parser   *)
(* starts each row in (fill_hiliting, check_hiliting) and the bookmarks    *)
(* (line_added, line_removed), under the edits that add, remove or change  *)
(* rows and under undo.                                                    *)
(*                                                                         *)
(* A text is a record: rows, each with its pieces, the state kept with it  *)
(* and a number of its own; cur, the row of the cursor; on, whether the    *)
(* text is coloured; bmk, the row of a bookmark (0 none) and of, the       *)
(* number of the row it was set on; log, the undo list; next, the next     *)
(* number.  Rows count from 1.  A piece opens or closes a comment, is a    *)
(* quote or plain text.                                                    *)
(***************************************************************************)
LOCAL INSTANCE Integers
LOCAL INSTANCE Sequences
LOCAL INSTANCE SequencesExt

\* the state of the parser after the pieces, if the text is coloured
Step(state, piece) ==
    CASE state = "Initial" /\ piece = "/*" -> "Comment"
      [] state = "Comment" /\ piece = "*/" -> "Initial"
      [] state = "Initial" /\ piece = "'"  -> "Quote"
      [] state = "Quote"   /\ piece = "'"  -> "Initial"
      [] OTHER -> state
EndOf(t, pieces, state) == IF t.on THEN FoldLeft(Step, state, pieces) ELSE state

\* fill_hiliting: from row start on, whatever it says there
StartStates(t, start, state) ==
    LET at[i \in start .. Len(t.rows) + 1] ==
            IF i = start THEN state ELSE EndOf(t, t.rows[i - 1].pieces, at[i - 1])
    IN at
FillHiliting(t, start, state) ==
    LET at == StartStates(t, start, state)
    IN [t EXCEPT !.rows = [i \in DOMAIN @ |-> IF i < start THEN @[i] ELSE [@[i] EXCEPT !.state = at[i]]]]

\* a mistake: the rows after the next one are thought to follow from it
CheckNextOnly(t) ==
    LET end == EndOf(t, t.rows[t.cur].pieces, t.rows[t.cur].state)
    IN IF t.on /\ t.cur < Len(t.rows) THEN [t EXCEPT !.rows[t.cur + 1].state = end] ELSE t
CheckHiliting(t) ==
    LET end == EndOf(t, t.rows[t.cur].pieces, t.rows[t.cur].state)
    IN IF t.on /\ t.cur < Len(t.rows) /\ t.rows[t.cur + 1].state # end
       THEN FillHiliting(t, t.cur + 1, end) ELSE t

\* a row was added as row n: what was row n before is not counted among those that moved
LineAdded(t, n, count) == IF t.bmk > n THEN [t EXCEPT !.bmk = @ + count] ELSE t
LineRemovedLate(t, n, count) ==     \* a mistake
    IF t.bmk > n THEN [t EXCEPT !.bmk = @ - count] ELSE t
LineRemoved(t, n, count) ==
    IF t.bmk \in n .. n + count - 1 THEN [t EXCEPT !.bmk = 0]
    ELSE IF t.bmk > n THEN [t EXCEPT !.bmk = @ - count] ELSE t

InsRows(t, n, rs) == [t EXCEPT !.rows = SubSeq(@, 1, n - 1) \o rs \o SubSeq(@, n, Len(@))]
DropRows(t, n, count) == [t EXCEPT !.rows = SubSeq(@, 1, n - 1) \o SubSeq(@, n + count, Len(@))]
SetPieces(t, n, pieces) == [t EXCEPT !.rows[n].pieces = pieces]
InsLine(t, n, r) == LineAdded(InsRows(t, n, <<r>>), n, 1)

\* a new Line, also one that is a copy of a row, starts in the state Initial
NewLine(t, pieces) == [pieces |-> pieces, state |-> "Initial", id |-> t.next]
Noted(t, notes) == [t EXCEPT !.log = <<notes>> \o @, !.next = @ + 1]
Note(op, at, what) == [op |-> op, at |-> at, what |-> what]
Goto(t, r) == [t EXCEPT !.cur = r]
HeadOf(pieces) == IF pieces = <<>> THEN <<>> ELSE <<Head(pieces)>>
TailOf(pieces) == IF pieces = <<>> THEN <<>> ELSE Tail(pieces)

-----------------------------------------------------------------------------
(***************************************************************************)
(* The edits; a note of the undo list is written newest first.  A row is   *)
(* cut behind its first piece.                                             *)
(***************************************************************************)
TypePiece(t, r, piece) ==
    LET u == SetPieces(Goto(t, r), r, <<piece>> \o t.rows[r].pieces)
    IN Noted(CheckHiliting(u), <<Note("UpdateLine", r, t.rows[r].pieces)>>)

SplitRow(t, r) ==
    LET all == t.rows[r].pieces
        u   == InsLine(SetPieces(Goto(t, r), r, HeadOf(all)), r + 1, NewLine(t, TailOf(all)))
    IN Noted(IF t.on THEN FillHiliting(u, r, t.rows[r].state) ELSE u,
             <<Note("DelLine", r + 1, <<>>), Note("UpdateLine", r, all)>>)

\* Del at the end of a row; the bookmarks are not told of the row that goes
JoinRow(t, r) == DropRows(SetPieces(t, r, t.rows[r].pieces \o t.rows[r + 1].pieces), r + 1, 1)
JoinNotes(t, r) == <<Note("UpdateLine", r, t.rows[r].pieces), Note("InsLine", r + 1, <<t.rows[r + 1]>>)>>
MergeRow(t, r) ==
    IF r >= Len(t.rows) THEN t
    ELSE Noted(CheckHiliting(Goto(JoinRow(t, r), r)), JoinNotes(t, r))

DupRow(t, r) ==
    Noted(CheckHiliting(InsLine(Goto(t, r), r + 1, NewLine(t, t.rows[r].pieces))),
          <<Note("DelLine", r + 1, <<>>)>>)

DelRow(t, r) ==
    LET u == IF t.on /\ t.rows[r].state # t.rows[r + 1].state
             THEN FillHiliting(t, r + 1, t.rows[r].state) ELSE t
    IN IF r >= Len(t.rows) THEN t
       ELSE Noted(DropRows(LineRemoved(Goto(u, r), r, 1), r, 1), <<Note("InsLine", r, <<t.rows[r]>>)>>)

\* clear: the block from row r to row q goes; then its ends are joined
ClearRows(t, r, q) ==
    LET first == t.rows[r].pieces
        last  == t.rows[q].pieces
        n     == q - r - 1
        cut   == SetPieces(SetPieces(t, r, HeadOf(first)), q, TailOf(last))
        u     == IF n > 0 THEN LineRemoved(DropRows(cut, r + 1, n), r + 1, n + 1) ELSE cut
        inner == IF n > 0 THEN <<Note("InsLine", r + 1, SubSeq(t.rows, r + 1, q - 1))>> ELSE <<>>
    IN IF q > Len(t.rows) THEN t
       ELSE Noted(FillHiliting(CheckHiliting(Goto(JoinRow(u, r), r)), r, t.rows[r].state),
                  JoinNotes(u, r) \o inner \o <<Note("UpdateLine", q, last), Note("UpdateLine", r, first)>>)

\* paste of a block of two rows
PasteRows(t, r, clip) ==
    LET all == t.rows[r].pieces
        u   == InsLine(SetPieces(t, r, HeadOf(all) \o clip[1]), r + 1, NewLine(t, clip[2] \o TailOf(all)))
        from == IF r = 1 THEN 1 ELSE r - 1
    IN Noted(FillHiliting(Goto(u, r + 1), from, t.rows[from].state),
             <<Note("DelLine", r + 1, <<>>), Note("RestoreLine", r, <<[t.rows[r] EXCEPT !.state = "Initial"]>>)>>)

\* undo: RestoreLine tells the bookmarks of the row that is put back, not of the one taken out
TakeBack(t, e) ==
    CASE e.op = "DelLine"     -> LineRemoved(DropRows(t, e.at, 1), e.at, 1)
      [] e.op = "InsLine"     -> LineAdded(InsRows(t, e.at, e.what), e.at, Len(e.what))
      [] e.op = "RestoreLine" -> LineAdded(InsRows(DropRows(t, e.at, 1), e.at, e.what), e.at, 1)
      [] e.op = "UpdateLine"  -> SetPieces(t, e.at, e.what)
UndoRows(t) ==
    LET u == FoldLeft(TakeBack, [t EXCEPT !.log = Tail(@), !.cur = 1], Head(t.log))
    IN IF t.log = <<>> THEN t ELSE IF t.on THEN FillHiliting(u, 1, "Initial") ELSE u

PlaceBookmark(t, r) == IF r > Len(t.rows) THEN t ELSE [t EXCEPT !.bmk = r, !.of = t.rows[r].id]
FlipHiliting(t) == IF t.on THEN [t EXCEPT !.on = FALSE] ELSE FillHiliting([t EXCEPT !.on = TRUE], 1, "Initial")

\* an edit is a tuple: its name, a row and what it puts in
Perform(t, e) ==
    IF Len(e) > 1 /\ e[2] > Len(t.rows) THEN t
    ELSE CASE e[1] = "type"  -> TypePiece(t, e[2], e[3])
           [] e[1] = "split" -> SplitRow(t, e[2])
           [] e[1] = "merge" -> MergeRow(t, e[2])
           [] e[1] = "dup"   -> DupRow(t, e[2])
           [] e[1] = "del"   -> DelRow(t, e[2])
           [] e[1] = "clear" -> ClearRows(t, e[2], e[3])
           [] e[1] = "paste" -> PasteRows(t, e[2], e[3])
           [] e[1] = "place" -> PlaceBookmark(t, e[2])
           [] e[1] = "flip"  -> FlipHiliting(t)
           [] e[1] = "undo"  -> UndoRows(t)

\* a text as load leaves it, and after a sequence of edits
LoadedRows(texts) ==
    FillHiliting([rows |-> [i \in DOMAIN texts |-> [pieces |-> texts[i], state |-> "Initial", id |-> i]],
                  cur |-> 1, on |-> TRUE, bmk |-> 0, of |-> 0, log |-> <<>>, next |-> Len(texts) + 1],
                 1, "Initial")
Performed(texts, edits) == FoldLeft(Perform, LoadedRows(texts), edits)
=============================================================================
