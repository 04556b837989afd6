------------------------------- MODULE UndoLog -------------------------------
(***************************************************************************)
(* The undo log at the grain of one note (bundo.cpp): a command, between   *)
(* track_beg and track_end, is any sequence of primitive changes, each of  *)
(* which adds to track_head the note that takes it back; undo() takes the  *)
(* newest log off undobuff and reverts its notes one by one.  Module       *)
(* Buffer has the commands of the key table whole; this one has the        *)
(* discipline all of them rely on, in the form in which it is proved.      *)
(*                                                                         *)
(* A primitive is a note and the change it stands for, in one step: both   *)
(* happen under the editor's mutex.  text.mark is NoMark where the code's  *)
(* old_abs_row and old_abs_col are not to be looked at.                    *)
(*                                                                         *)
(* Auxiliary, not in the code: the fields pre and post of a note, doc and  *)
(* snaps.  They remember texts, and no action's guard looks at them.       *)
(***************************************************************************)
EXTENDS Line, Integers, Sequences

CONSTANTS
    Chars,      \* the characters of a line
    Lines,      \* the lines a text may hold
    Flags,      \* the flags that are noted, "MarkState" one of them
    MaxRows,    \* bound on the rows of a text
    MaxCol,     \* bound on the cursor column
    MaxNotes,   \* bound on the notes of one command
    MaxUndo     \* bound on the length of undobuff

ASSUME UndoLogAssumption ==
    /\ "MarkState" \in Flags
    /\ {MaxRows, MaxCol, MaxNotes, MaxUndo} \subseteq Nat

\* a line is a C string: no character of it is the one that ends it
ASSUME LinesAssumption == Lines \subseteq Seq(Chars) /\ Nul \notin Chars

VARIABLES
    phase,      \* "idle", "tracking" (the flag Tracking is on) or "undoing"
    text,       \* the buffer: lines, cursor, flags and mark
    track,      \* track_head, newest note first
    undobuff,   \* the logs that can be undone, newest first
    pending,    \* the notes undo() has still to revert
    doc,        \* auxiliary: the text when the command began, or the one undo() is to reach
    snaps       \* auxiliary: the text before each log of undobuff

vars == <<phase, text, track, undobuff, pending, doc, snaps>>

NoMark == <<>>
Marks  == {NoMark} \cup (Nat \X Nat)
States == {b \in [lines : Seq(Lines), row : Nat, col : Nat, flags : SUBSET Flags, mark : Marks] :
               b.mark # NoMark => "MarkState" \in b.flags}

\* what a note of each kind carries
NotesOf(ops, ns, whats) == [op : ops, n : ns, what : whats, pre : States, post : States]
Notes ==
    NotesOf({"CurRow", "CurCol", "DelLine"}, Nat, {0})
        \cup NotesOf({"SetFlags"}, {0}, SUBSET Flags)
        \cup NotesOf({"MarkPos"}, {0}, Marks)
        \cup NotesOf({"InsLine", "RestoreLine"}, Nat, Lines)
        \cup NotesOf({"InsBlock"}, Nat, Seq(Lines))
        \cup NotesOf({"UpdateLine"}, {0}, {GenDiff(old, new) : old \in Lines, new \in Lines})

-----------------------------------------------------------------------------
\* rows put into and taken out of a text, at row i (counted from 0)
Inserted(s, i, ls) ==
    [k \in 1 .. Len(s) + Len(ls) |-> IF k <= i THEN s[k]
                                     ELSE IF k <= i + Len(ls) THEN ls[k - i]
                                     ELSE s[k - Len(ls)]]
Removed(s, i, n) == [k \in 1 .. Len(s) - n |-> IF k <= i THEN s[k] ELSE s[k + n]]
Taken(s, i, n)   == [k \in 1 .. n |-> s[i + k]]

\* what undo() does for one note; UpdateLine changes the line the cursor is on
Revert(b, e) ==
    CASE e.op = "CurRow"      -> [b EXCEPT !.row = e.n]
      [] e.op = "CurCol"      -> [b EXCEPT !.col = e.n]
      [] e.op = "MarkPos"     -> [b EXCEPT !.mark = e.what]
      [] e.op = "SetFlags"    -> [b EXCEPT !.flags = e.what,
                                           !.mark = IF "MarkState" \in e.what THEN @ ELSE NoMark]
      [] e.op = "DelLine"     -> [b EXCEPT !.lines = Removed(@, e.n, 1)]
      [] e.op = "InsLine"     -> [b EXCEPT !.lines = Inserted(@, e.n, <<e.what>>)]
      [] e.op = "InsBlock"    -> [b EXCEPT !.lines = Inserted(@, e.n, e.what)]
      [] e.op = "RestoreLine" -> [b EXCEPT !.lines = Inserted(Removed(@, e.n, 1), e.n, <<e.what>>)]
      [] e.op = "UpdateLine"  -> [b EXCEPT !.lines[b.row + 1] = ApplyDiff(e.what, @, "undo")]

-----------------------------------------------------------------------------
(***************************************************************************)
(* The primitive changes of a command.                                     *)
(***************************************************************************)
Note(op, n, what, pre, post) == [op |-> op, n |-> n, what |-> what, pre |-> pre, post |-> post]

\* track: the notes go to the head of the log
Noting(notes) ==
    /\ phase = "tracking"
    /\ Len(track) + Len(notes) <= MaxNotes /\ Len(undobuff) < MaxUndo
    /\ track' = notes \o track
    /\ UNCHANGED <<phase, undobuff, pending, doc, snaps>>

Change(op, n, what, after) ==
    /\ Noting(<<Note(op, n, what, text, after)>>)
    /\ text' = after

MoveRow == \E r \in 0 .. MaxRows : Change("CurRow", text.row, 0, [text EXCEPT !.row = r])
MoveCol == \E c \in 0 .. MaxCol  : Change("CurCol", text.col, 0, [text EXCEPT !.col = c])

SetFlag ==
    \E f \in Flags \ {"MarkState"}, on \in BOOLEAN :
        Change("SetFlags", 0, text.flags,
               [text EXCEPT !.flags = IF on THEN @ \cup {f} ELSE @ \ {f}])

Mark ==
    /\ "MarkState" \notin text.flags
    /\ Change("SetFlags", 0, text.flags,
              [text EXCEPT !.flags = @ \cup {"MarkState"}, !.mark = <<text.row, text.col>>])

\* a mistake: where the mark was is not noted
UnmarkFlagOnly ==
    /\ "MarkState" \in text.flags
    /\ Change("SetFlags", 0, text.flags, [text EXCEPT !.flags = @ \ {"MarkState"}, !.mark = NoMark])

\* two notes: the mark, and then the flags
Unmark ==
    LET open   == [text EXCEPT !.mark = NoMark]
        closed == [open EXCEPT !.flags = @ \ {"MarkState"}]
    IN /\ "MarkState" \in text.flags
       /\ Noting(<<Note("SetFlags", 0, text.flags, open, closed),
                   Note("MarkPos", 0, text.mark, text, open)>>)
       /\ text' = closed

\* an edit of the line under the cursor, kept as a difference
UpdateLine ==
    \E new \in Lines :
        /\ text.row < Len(text.lines)
        /\ Change("UpdateLine", 0, GenDiff(text.lines[text.row + 1], new),
                  [text EXCEPT !.lines[text.row + 1] = new])

\* a line replaced as a whole, the old one kept
RestoreLine ==
    \E i \in 0 .. Len(text.lines) - 1, new \in Lines :
        Change("RestoreLine", i, text.lines[i + 1], [text EXCEPT !.lines[i + 1] = new])

AddLine ==
    \E i \in 0 .. Len(text.lines), new \in Lines :
        /\ Len(text.lines) < MaxRows
        /\ Change("DelLine", i, 0, [text EXCEPT !.lines = Inserted(@, i, <<new>>)])

RemoveLine ==
    \E i \in 0 .. Len(text.lines) - 1 :
        /\ Len(text.lines) > 1
        /\ Change("InsLine", i, text.lines[i + 1], [text EXCEPT !.lines = Removed(@, i, 1)])

\* remove_items: rows i .. i + n - 1 go to a buffer of their own
RemoveBlock ==
    \E i \in 0 .. Len(text.lines) - 1, n \in 1 .. Len(text.lines) - 1 :
        /\ i + n <= Len(text.lines)
        /\ Change("InsBlock", i, Taken(text.lines, i, n), [text EXCEPT !.lines = Removed(@, i, n)])

Primitive == MoveRow \/ MoveCol \/ SetFlag \/ Mark \/ Unmark \/ UpdateLine \/ RestoreLine
                \/ AddLine \/ RemoveLine \/ RemoveBlock

-----------------------------------------------------------------------------
TrackBeg ==
    /\ phase = "idle"
    /\ phase' = "tracking"
    /\ doc' = text
    /\ UNCHANGED <<text, track, undobuff, pending, snaps>>

\* a command that noted nothing leaves nothing to undo
TrackEnd ==
    /\ phase = "tracking"
    /\ phase' = "idle"
    /\ \/ /\ track = <<>>
          /\ UNCHANGED <<undobuff, snaps>>
       \/ /\ track # <<>>
          /\ undobuff' = <<track>> \o undobuff
          /\ snaps' = <<doc>> \o snaps
    /\ track' = <<>>
    /\ UNCHANGED <<text, pending, doc>>

\* doUndo: track_cancel drops the log of the running command, which is still
\* empty when undo is bound to a key, and undo takes the newest log
UndoBegin ==
    /\ phase = "tracking" /\ track = <<>>
    /\ undobuff # <<>>
    /\ phase' = "undoing"
    /\ pending' = Head(undobuff)
    /\ undobuff' = Tail(undobuff)
    /\ doc' = Head(snaps)
    /\ snaps' = Tail(snaps)
    /\ UNCHANGED <<text, track>>

\* a mistake: the oldest note first
UndoStepOldestFirst ==
    /\ phase = "undoing" /\ pending # <<>>
    /\ text' = Revert(text, pending[Len(pending)])
    /\ pending' = SubSeq(pending, 1, Len(pending) - 1)
    /\ UNCHANGED <<phase, track, undobuff, doc, snaps>>

UndoStep ==
    /\ phase = "undoing" /\ pending # <<>>
    /\ text' = Revert(text, Head(pending))
    /\ pending' = Tail(pending)
    /\ UNCHANGED <<phase, track, undobuff, doc, snaps>>

UndoEnd ==
    /\ phase = "undoing" /\ pending = <<>>
    /\ phase' = "idle"
    /\ UNCHANGED <<text, track, undobuff, pending, doc, snaps>>

Init ==
    /\ phase = "idle"
    /\ text \in [lines : {<<l>> : l \in Lines}, row : {0}, col : {0}, flags : {{}}, mark : {NoMark}]
    /\ doc = text
    /\ track = <<>> /\ undobuff = <<>> /\ pending = <<>> /\ snaps = <<>>

Next == Primitive \/ TrackBeg \/ TrackEnd \/ UndoBegin \/ UndoStep \/ UndoEnd

Spec == Init /\ [][Next]_vars

-----------------------------------------------------------------------------
\* The shape of every variable; the notes carry what their kind needs.
TypeOK ==
    /\ phase \in {"idle", "tracking", "undoing"}
    /\ text \in States /\ doc \in States
    /\ track \in Seq(Notes) /\ pending \in Seq(Notes)
    /\ undobuff \in Seq(Seq(Notes))
    /\ snaps \in Seq(States)

(***************************************************************************)
(* A log leads from the text top back to the text bottom when its notes    *)
(* are reverted in order, each on exactly the text it was noted on.        *)
(***************************************************************************)
Sound(e) == Revert(e.post, e) = e.pre

Chain(top, log, bottom) ==
    /\ log = <<>> => top = bottom
    /\ log # <<>> => log[1].post = top /\ log[Len(log)].pre = bottom
    /\ \A i \in 1 .. Len(log) - 1 : log[i].pre = log[i + 1].post
    /\ \A i \in 1 .. Len(log) : Sound(log[i])

\* the document a user sees: an undo has it at once, a command when it is done
Doc == IF phase = "idle" THEN text ELSE doc

\* The log that is being written leads back to where the command began, the one
\* being undone leads from what is reached so far to the text before its
\* command, and each log of undobuff leads to the text that the next one is for.
LogsConnect ==
    /\ phase = "tracking" => Chain(text, track, doc)
    /\ phase # "tracking" => track = <<>>
    /\ phase = "undoing" => Chain(text, pending, doc)
    /\ phase # "undoing" => pending = <<>>
    /\ Len(snaps) = Len(undobuff)
    /\ \A j \in 1 .. Len(undobuff) :
            /\ undobuff[j] # <<>>
            /\ Chain(IF j = 1 THEN Doc ELSE snaps[j - 1], undobuff[j], snaps[j])

Hist == INSTANCE History WITH doc <- Doc, past <- snaps

\* The undo list implements History: reverting the notes of a command one by one
\* ends in exactly the text, cursor, flags and mark the command found (undo()).
UndoIsExact == Hist!Spec
=============================================================================
