---------------------------- MODULE MethodProofs ----------------------------
(***************************************************************************)
(* Proofs about the methods of Buffer, which move the cursor and edit      *)
(* characters, lines and blocks: the text stays a text, the cursor stays   *)
(* in it, and what was noted on the way takes all of it back.              *)
(*                                                                         *)
(* The argument is one relation, Noted(b, c): what the methods made of b,  *)
(* c, has noted how to get back.  It holds of every primitive change with  *)
(* its note and is transitive, so it holds of the methods, which are       *)
(* compositions of primitives.  BufferProofs goes on with word wrap and    *)
(* with the commands, which are compositions of methods.                   *)
(***************************************************************************)
EXTENDS Buffer, LineProofs, SequenceTheorems, TLAPS

RevertRound(p, b, e) == Revert(b, e)
LogFold == INSTANCE Folding WITH Op <- RevertRound

\* the characters of a text; what a method can type, "A" is the upper case of one
Letters == Chars \cup Delims \cup {Blank, "A"}
Rows    == Seq(Letters)

\* the flags of a buffer
Flags == {"Tracking", "Saved", "Changed", "MarkState", "ColumnBlock", "InsMode", "AutoIndent", "IsUnix"}

NoteOps  == {"CurRow", "CurCol", "MarkPos", "SetFlags", "DelLine", "InsLine", "InsBlock", "RestoreLine",
             "UpdateLine"}
Contents == Nat \cup Rows \cup Seq(Rows) \cup (SUBSET Flags) \cup Seq(Runs(Letters))
Notes    == [op : NoteOps, n : Nat, what : Contents]

Buffers == [lines : Seq(Rows), row : Nat, col : Nat, mrow : Nat, mcol : Nat,
            flags : SUBSET Flags, track : Seq(Notes), undo : Seq(Seq(Notes)), trap : BOOLEAN]

Unseen == {"Tracking", "Saved"}
Marked(b) == Has(b, "MarkState")

\* the same for the user: where the mark was does not matter once it is off
Alike(x, y) ==
    /\ x.lines = y.lines /\ x.row = y.row /\ x.col = y.col
    /\ x.flags \ Unseen = y.flags \ Unseen
    /\ Marked(y) => x.mrow = y.mrow /\ x.mcol = y.mcol

\* reverting the notes es on what looks like c gives what looks like b
BackTo(y, x, b) == /\ y \in Buffers /\ Alike(y, b) /\ y.undo = x.undo /\ y.track = x.track /\ y.trap = x.trap
                   /\ Has(y, "Tracking") => Has(x, "Tracking")
                   /\ Has(y, "Saved") => Has(x, "Saved")
Reverted(x, es) == LogFold!Fold(0, x, es)
Leads(es, c, b) == \A x \in Buffers : Alike(x, c) => BackTo(Reverted(x, es), x, b)

\* c has noted how to get back to b; and does not say that it is saved unless b did
Logged(b, c) ==
    /\ c \in Buffers /\ Has(c, "Tracking") /\ c.undo = b.undo
    /\ \E es \in Seq(Notes) : c.track = es \o b.track /\ Leads(es, c, b)
Noted(b, c) == Logged(b, c) /\ (Has(c, "Saved") => Has(b, "Saved"))

Tracked == {b \in Buffers : Has(b, "Tracking")}

\* taking back all that is noted does not make a buffer saved; it leaves it not saved
Clean(b) == \A x \in Buffers : Alike(x, b) => (Has(Reverted(x, b.track), "Saved") => Has(x, "Saved"))
Forgotten(b) == \A x \in Buffers : Alike(x, b) => ~Has(Reverted(x, b.track), "Saved")
Dirty(b) == ~Has(b, "Saved") /\ Forgotten(b)
Dirties(b, c) == Clean(b) => Dirty(c)
\* the same in the file
Same(b, c) == c.lines = b.lines /\ (Has(c, "IsUnix") <=> Has(b, "IsUnix"))
Owns(b, c) == Same(b, c) \/ Dirties(b, c)

-----------------------------------------------------------------------------
(***************************************************************************)
(* The relation.                                                           *)
(***************************************************************************)
\* No note leads from a buffer to what looks like it.
LEMMA NoNotes == ASSUME NEW c, NEW b, Alike(c, b) PROVE Leads(<<>>, c, b)
<1>1. \A x : Reverted(x, <<>>) = x
  BY LogFold!FoldEmpty DEF Reverted
<1>2. \A x \in Buffers : Alike(x, c) => Alike(x, b)
  BY DEF Alike, Marked, Has, Unseen
<1> QED BY <1>1, <1>2 DEF Leads, BackTo

\* What leads from c to b and what leads from b to a, one after the other.
LEMMA LeadsOn ==
    ASSUME NEW es \in Seq(Notes), NEW fs \in Seq(Notes), NEW a, NEW b, NEW c,
           Leads(es, c, b), Leads(fs, b, a)
    PROVE  Leads(es \o fs, c, a)
<1> SUFFICES ASSUME NEW x \in Buffers, Alike(x, c) PROVE BackTo(Reverted(x, es \o fs), x, a)
  BY DEF Leads
<1> DEFINE y == Reverted(x, es)
           z == Reverted(y, fs)
<1>1. Reverted(x, es \o fs) = z
  BY LogFold!FoldConcat DEF Reverted
<1>2. BackTo(y, x, b)
  BY DEF Leads
<1> HIDE DEF y
<1>3. BackTo(z, y, a)
  BY <1>2 DEF Leads, BackTo
<1> HIDE DEF z
<1>4. BackTo(z, x, a)
  BY <1>2, <1>3 DEF BackTo
<1> QED BY <1>1, <1>4

\* Reverting one note.
LEMMA OneNote ==
    ASSUME NEW e \in Notes, NEW x PROVE Reverted(x, <<e>>) = Revert(x, e)
<1> DEFINE none == <<>>
<1>1. none \in Seq(Notes) /\ <<e>> = Append(none, e)
  OBVIOUS
<1>2. Reverted(x, none) = x
  BY LogFold!FoldEmpty DEF Reverted
<1> HIDE DEF none
<1>3. LogFold!Fold(0, x, Append(none, e)) = RevertRound(0, LogFold!Fold(0, x, none), e)
  BY <1>1, LogFold!FoldAppend
<1>4. Reverted(x, Append(none, e)) = Revert(Reverted(x, none), e)
  BY <1>3 DEF Reverted, RevertRound
<1> QED BY <1>1, <1>2, <1>4

\* undo reverts the notes of its log.
LEMMA UndoReverts == \A x, es : FoldLeft(Revert, x, es) = Reverted(x, es)
  BY DEF Reverted, LogFold!Fold, RevertRound, FoldLeft, MapThenFoldSet, Max,
         LogFold!FoldLeft, LogFold!MapThenFoldSet, LogFold!Max

\* Noted is reflexive
LEMMA NotedSelf == ASSUME NEW b \in Tracked PROVE Noted(b, b)
<1>1. <<>> \in Seq(Notes) /\ <<>> \o b.track = b.track
  BY DEF Tracked, Buffers
<1>2. Leads(<<>>, b, b)
  BY NoNotes DEF Alike
<1> QED BY <1>1, <1>2 DEF Noted, Logged, Tracked

\* and transitive.
LEMMA LoggedOn ==
    ASSUME NEW a \in Tracked, NEW b, NEW c, Logged(a, b), Logged(b, c) PROVE Logged(a, c)
<1>1. PICK fs \in Seq(Notes) : b.track = fs \o a.track /\ Leads(fs, b, a)
  BY DEF Logged
<1>2. PICK es \in Seq(Notes) : c.track = es \o b.track /\ Leads(es, c, b)
  BY DEF Logged
<1>3. Leads(es \o fs, c, a)
  BY <1>1, <1>2, LeadsOn
<1>4. es \o (fs \o a.track) = (es \o fs) \o a.track /\ es \o fs \in Seq(Notes)
  <2> DEFINE at == a.track
             N == Notes
  <2>1. at \in Seq(N) /\ es \in Seq(N) /\ fs \in Seq(N)
    BY DEF Tracked, Buffers
  <2> HIDE DEF at, N
  <2>2. es \o (fs \o at) = (es \o fs) \o at /\ es \o fs \in Seq(N)
    BY <2>1
  <2> QED BY <2>2 DEF at, N
<1> DEFINE gs == es \o fs
<1> HIDE DEF gs
<1>5. gs \in Seq(Notes) /\ c.track = gs \o a.track /\ Leads(gs, c, a)
  BY <1>1, <1>2, <1>3, <1>4 DEF gs
<1> QED BY <1>5 DEF Logged

\* So is the relation with the flag.
LEMMA NotedOn ==
    ASSUME NEW a \in Tracked, NEW b, NEW c, Noted(a, b), Noted(b, c) PROVE Noted(a, c)
  BY LoggedOn DEF Noted

\* A change with one note that takes it back.
LEMMA LoggedOne ==
    ASSUME NEW b \in Tracked, NEW c \in Tracked, NEW e \in Notes,
           c.undo = b.undo, c.track = <<e>> \o b.track,
           \A x \in Buffers : Alike(x, c) => BackTo(Revert(x, e), x, b)
    PROVE  Logged(b, c)
<1>1. <<e>> \in Seq(Notes)
  OBVIOUS
<1>2. Leads(<<e>>, c, b)
  BY OneNote DEF Leads
<1> QED BY <1>1, <1>2 DEF Logged, Tracked

\* What is noted after a note is reverted before it.
LEMMA LogReverted ==
    ASSUME NEW b \in Tracked, NEW c, NEW es \in Seq(Notes), c.track = es \o b.track, NEW x
    PROVE  Reverted(x, c.track) = Reverted(Reverted(x, es), b.track)
<1>1. b.track \in Seq(Notes)
  BY DEF Tracked, Buffers
<1> QED BY <1>1, LogFold!FoldConcat DEF Reverted

\* A log stays clean, and what it has forgotten it has forgotten for good.
LEMMA CleanOn ==
    ASSUME NEW b \in Tracked, NEW c, Logged(b, c)
    PROVE  (Clean(b) => Clean(c)) /\ (Forgotten(b) => Forgotten(c))
<1>1. PICK es \in Seq(Notes) : c.track = es \o b.track /\ Leads(es, c, b)
  BY DEF Logged
<1>2. ASSUME NEW x \in Buffers, Alike(x, c)
      PROVE  LET y == Reverted(x, es)
             IN /\ Reverted(x, c.track) = Reverted(y, b.track) /\ y \in Buffers /\ Alike(y, b)
                /\ Has(y, "Saved") => Has(x, "Saved")
  <2>1. Reverted(x, c.track) = Reverted(Reverted(x, es), b.track)
    BY <1>1, LogReverted
  <2>2. BackTo(Reverted(x, es), x, b)
    BY <1>1, <1>2 DEF Leads
  <2> QED BY <2>1, <2>2 DEF BackTo
<1>3. Clean(b) => Clean(c)
  BY <1>2 DEF Clean
<1>4. Forgotten(b) => Forgotten(c)
  BY <1>2 DEF Forgotten
<1> QED BY <1>3, <1>4

\* A buffer that is not saved stays so.
LEMMA DirtyOn ==
    ASSUME NEW b \in Tracked, NEW c, Noted(b, c) PROVE Dirty(b) => Dirty(c)
  BY CleanOn DEF Dirty, Noted

\* What is not saved is not, whatever was done before and is done after.
LEMMA DirtiesOn ==
    ASSUME NEW a \in Tracked, NEW b \in Tracked, NEW c, Noted(a, b), Noted(b, c), Dirties(a, b) \/ Dirties(b, c)
    PROVE  Dirties(a, c)
<1>1. Clean(a) => Clean(b)
  BY CleanOn DEF Noted
<1>2. Dirty(b) => Dirty(c)
  BY DirtyOn
<1> QED BY <1>1, <1>2 DEF Dirties

\* What is the same or not saved, one after the other
LEMMA OwnsOn ==
    ASSUME NEW a \in Tracked, NEW b \in Tracked, NEW c, Noted(a, b), Noted(b, c), Owns(a, b), Owns(b, c)
    PROVE  Owns(a, c)
<1>1. CASE Same(a, b) /\ Same(b, c)
  BY <1>1 DEF Same, Owns
<1>2. CASE Dirties(a, b) \/ Dirties(b, c)
  BY <1>2, DirtiesOn DEF Owns
<1> QED BY <1>1, <1>2 DEF Owns

\* One note whose reverting takes the flag back is enough.
LEMMA ForgottenOne ==
    ASSUME NEW b \in Tracked, NEW c, NEW e \in Notes, c.track = <<e>> \o b.track,
           \A x \in Buffers : Alike(x, c) => BackTo(Revert(x, e), x, b) /\ ~Has(Revert(x, e), "Saved")
    PROVE  Clean(b) => Forgotten(c)
<1> SUFFICES ASSUME Clean(b), NEW x \in Buffers, Alike(x, c) PROVE ~Has(Reverted(x, c.track), "Saved")
  BY DEF Forgotten
<1> DEFINE y == Revert(x, e)
<1>1. y \in Buffers /\ Alike(y, b) /\ ~Has(y, "Saved")
  BY DEF BackTo
<1>2. Reverted(x, c.track) = Reverted(y, b.track)
  <2> DEFINE es == <<e>>
  <2>1. es \in Seq(Notes) /\ Reverted(x, es) = y /\ c.track = es \o b.track
    BY OneNote
  <2> HIDE DEF es, y
  <2>2. Reverted(x, c.track) = Reverted(Reverted(x, es), b.track)
    BY <2>1, LogReverted, ZenonT(60)
  <2> QED BY <2>1, <2>2
<1> HIDE DEF y
<1> QED BY <1>1, <1>2 DEF Clean

-----------------------------------------------------------------------------
(***************************************************************************)
(* The primitives: the cursor, the flags and the mark.                     *)
(***************************************************************************)
\* What the typing of a buffer gives, and what changing one part of it keeps.
LEMMA BufferParts ==
    ASSUME NEW b \in Buffers
    PROVE  /\ b.lines \in Seq(Rows) /\ b.row \in Nat /\ b.col \in Nat /\ b.mrow \in Nat /\ b.mcol \in Nat
           /\ b.flags \in SUBSET Flags /\ b.track \in Seq(Notes) /\ b.undo \in Seq(Seq(Notes))
           /\ b.trap \in BOOLEAN
           /\ \A r \in Nat : [b EXCEPT !.row = r] \in Buffers /\ [b EXCEPT !.col = r] \in Buffers
           /\ \A ls \in Seq(Rows) : [b EXCEPT !.lines = ls] \in Buffers
           /\ \A fs \in SUBSET Flags : [b EXCEPT !.flags = fs] \in Buffers
           /\ \A es \in Seq(Notes) : [b EXCEPT !.track = es] \in Buffers
           /\ \A us \in Seq(Seq(Notes)) : [b EXCEPT !.undo = us] \in Buffers
           /\ [b EXCEPT !.trap = TRUE] \in Buffers
  BY DEF Buffers

\* only the cursor is elsewhere; only the text is another; only flags and mark are others
Moved(b, c)   == /\ c.lines = b.lines /\ c.mrow = b.mrow /\ c.mcol = b.mcol
                 /\ c.flags = b.flags /\ c.trap = b.trap
Edited(b, c)  == /\ c.row = b.row /\ c.col = b.col /\ c.mrow = b.mrow /\ c.mcol = b.mcol
                 /\ c.flags = b.flags /\ c.trap = b.trap
Flagged(b, c) == c.lines = b.lines /\ c.row = b.row /\ c.col = b.col /\ c.trap = b.trap

\* What track does while tracking is on.
LEMMA TrackNotes ==
    ASSUME NEW b \in Tracked, NEW op, NEW n, NEW what, [op |-> op, n |-> n, what |-> what] \in Notes
    PROVE  LET c == Track(b, op, n, what)
           IN /\ c \in Tracked /\ Moved(b, c) /\ Edited(b, c) /\ c.undo = b.undo
              /\ c.track = <<[op |-> op, n |-> n, what |-> what]>> \o b.track
<1> DEFINE e == [op |-> op, n |-> n, what |-> what]
           es == <<e>> \o b.track
           c == Track(b, op, n, what)
<1>1. c = [b EXCEPT !.track = es]
  BY DEF Track, Tracked
<1>2. es \in Seq(Notes)
  <2>1. b.track \in Seq(Notes)
    BY BufferParts DEF Tracked
  <2>2. <<e>> \in Seq(Notes)
    OBVIOUS
  <2> HIDE DEF e
  <2> QED BY <2>1, <2>2
<1> HIDE DEF es, c
<1>3. c \in Buffers
  BY <1>1, <1>2, BufferParts DEF Tracked
<1>4. c.track = es /\ c.undo = b.undo /\ Moved(b, c) /\ Edited(b, c)
  BY <1>1 DEF Tracked, Buffers, Moved, Edited
<1>5. Has(c, "Tracking")
  BY <1>4 DEF Moved, Has, Tracked
<1> QED BY <1>3, <1>4, <1>5 DEF Tracked, c, es

\* The notes are notes.
LEMMA NoteTypes ==
    /\ \A op \in {"CurRow", "CurCol", "DelLine"}, n \in Nat : [op |-> op, n |-> n, what |-> 0] \in Notes
    /\ \A fs \in SUBSET Flags : [op |-> "SetFlags", n |-> 0, what |-> fs] \in Notes
    /\ \A n, m \in Nat : [op |-> "MarkPos", n |-> n, what |-> m] \in Notes
    /\ \A op \in {"InsLine", "RestoreLine"}, n \in Nat, s \in Rows : [op |-> op, n |-> n, what |-> s] \in Notes
    /\ \A n \in Nat, ls \in Seq(Rows) : [op |-> "InsBlock", n |-> n, what |-> ls] \in Notes
    /\ \A old, new \in Rows : [op |-> "UpdateLine", n |-> 0, what |-> GenDiff(old, new)] \in Notes
<1>1. /\ \A m \in Nat : m \in Contents
      /\ \A fs \in SUBSET Flags : fs \in Contents
      /\ \A s \in Rows : s \in Contents
      /\ \A ls \in Seq(Rows) : ls \in Contents
      /\ \A runs \in Seq(Runs(Letters)) : runs \in Contents
  <2> DEFINE sets == SUBSET Flags
             rows == Seq(Rows)
             runs == Seq(Runs(Letters))
  <2>1. Contents = Nat \cup Rows \cup rows \cup sets \cup runs
    BY Zenon DEF Contents
  <2> HIDE DEF sets, rows, runs
  <2>2. Nat \subseteq Contents /\ sets \subseteq Contents /\ Rows \subseteq Contents /\ rows \subseteq Contents
        /\ runs \subseteq Contents
    BY <2>1
  <2> QED BY <2>2, Zenon DEF sets, rows, runs
<1>2. \A op \in NoteOps, n \in Nat, what \in Contents : [op |-> op, n |-> n, what |-> what] \in Notes
  BY DEF Notes
<1> 0 \in Nat
  OBVIOUS
<1>3. \A op \in {"CurRow", "CurCol", "DelLine"}, n \in Nat : [op |-> op, n |-> n, what |-> 0] \in Notes
  BY <1>1, <1>2, Zenon DEF NoteOps
<1>4. \A fs \in SUBSET Flags : [op |-> "SetFlags", n |-> 0, what |-> fs] \in Notes
  BY <1>1, <1>2, Zenon DEF NoteOps
<1>5. \A n, m \in Nat : [op |-> "MarkPos", n |-> n, what |-> m] \in Notes
  BY <1>1, <1>2, Zenon DEF NoteOps
<1>6. \A op \in {"InsLine", "RestoreLine"}, n \in Nat, s \in Rows : [op |-> op, n |-> n, what |-> s] \in Notes
  BY <1>1, <1>2, Zenon DEF NoteOps
<1>7. \A n \in Nat, ls \in Seq(Rows) : [op |-> "InsBlock", n |-> n, what |-> ls] \in Notes
  BY <1>1, <1>2, Zenon DEF NoteOps
<1>8. \A old, new \in Rows : [op |-> "UpdateLine", n |-> 0, what |-> GenDiff(old, new)] \in Notes
  <2>1. \A old, new \in Rows : GenDiff(old, new) \in Seq(Runs(Letters))
    BY GenDiffType DEF Rows
  <2> QED BY <1>1, <1>2, <2>1, Zenon DEF NoteOps
<1> QED BY <1>3, <1>4, <1>5, <1>6, <1>7, <1>8

\* The cursor goes to another row
LEMMA SetRowNoted ==
    ASSUME NEW b \in Tracked, NEW r \in Nat
    PROVE  LET c == SetRow(b, r)
           IN c \in Tracked /\ Noted(b, c) /\ Moved(b, c) /\ c.row = r /\ c.col = b.col
<1> DEFINE e == [op |-> "CurRow", n |-> b.row, what |-> 0]
           t == Track(b, "CurRow", b.row, 0)
           c == [t EXCEPT !.row = r]
<1>1. e \in Notes
  BY NoteTypes, BufferParts DEF Tracked
<1>2. t \in Tracked /\ Moved(b, t) /\ Edited(b, t) /\ t.undo = b.undo /\ t.track = <<e>> \o b.track
  BY <1>1, TrackNotes
<1> HIDE DEF t
<1>3. c \in Buffers
  BY <1>2, BufferParts DEF Tracked
<1>4. /\ c.row = r /\ c.col = b.col /\ c.undo = b.undo /\ c.track = <<e>> \o b.track
      /\ Moved(b, c)
  BY <1>2 DEF Tracked, Buffers, Moved, Edited
<1>5. c \in Tracked
  BY <1>3, <1>4 DEF Tracked, Moved, Has
<1>6. ASSUME NEW x \in Buffers, Alike(x, c) PROVE BackTo(Revert(x, e), x, b)
  <2> DEFINE y == [x EXCEPT !.row = b.row]
  <2>1. Revert(x, e) = y
    BY DEF Revert
  <2>2. y \in Buffers
    BY BufferParts DEF Tracked
  <2>3. /\ y.lines = x.lines /\ y.row = b.row /\ y.col = x.col /\ y.mrow = x.mrow /\ y.mcol = x.mcol
        /\ y.flags = x.flags /\ y.track = x.track /\ y.undo = x.undo /\ y.trap = x.trap
    BY DEF Buffers
  <2> HIDE DEF y, c
  <2>4. Alike(y, b)
    BY <1>4, <1>6, <2>3 DEF Alike, Moved, Marked, Has
  <2> QED BY <2>1, <2>2, <2>3, <2>4 DEF BackTo, Has
<1> HIDE DEF c, e
<1>7. Noted(b, c)
  <2>1. Logged(b, c)
    BY <1>1, <1>4, <1>5, <1>6, LoggedOne
  <2> QED BY <1>4, <2>1 DEF Noted, Moved, Has
<1> QED BY <1>4, <1>5, <1>7 DEF SetRow, c, t

\* or another column.
LEMMA SetColNoted ==
    ASSUME NEW b \in Tracked, NEW k \in Nat
    PROVE  LET c == SetCol(b, k)
           IN c \in Tracked /\ Noted(b, c) /\ Moved(b, c) /\ c.row = b.row /\ c.col = k
<1> DEFINE e == [op |-> "CurCol", n |-> b.col, what |-> 0]
           t == Track(b, "CurCol", b.col, 0)
           c == [t EXCEPT !.col = k]
<1>1. e \in Notes
  BY NoteTypes, BufferParts DEF Tracked
<1>2. t \in Tracked /\ Moved(b, t) /\ Edited(b, t) /\ t.undo = b.undo /\ t.track = <<e>> \o b.track
  BY <1>1, TrackNotes
<1> HIDE DEF t
<1>3. c \in Buffers
  BY <1>2, BufferParts DEF Tracked
<1>4. /\ c.row = b.row /\ c.col = k /\ c.undo = b.undo /\ c.track = <<e>> \o b.track
      /\ Moved(b, c)
  BY <1>2 DEF Tracked, Buffers, Moved, Edited
<1>5. c \in Tracked
  BY <1>3, <1>4 DEF Tracked, Moved, Has
<1>6. ASSUME NEW x \in Buffers, Alike(x, c) PROVE BackTo(Revert(x, e), x, b)
  <2> DEFINE y == [x EXCEPT !.col = b.col]
  <2>1. Revert(x, e) = y
    BY DEF Revert
  <2>2. y \in Buffers
    BY BufferParts DEF Tracked
  <2>3. /\ y.lines = x.lines /\ y.row = x.row /\ y.col = b.col /\ y.mrow = x.mrow /\ y.mcol = x.mcol
        /\ y.flags = x.flags /\ y.track = x.track /\ y.undo = x.undo /\ y.trap = x.trap
    BY DEF Buffers
  <2> HIDE DEF y, c
  <2>4. Alike(y, b)
    BY <1>4, <1>6, <2>3 DEF Alike, Moved, Marked, Has
  <2> QED BY <2>1, <2>2, <2>3, <2>4 DEF BackTo, Has
<1> HIDE DEF c, e
<1>7. Noted(b, c)
  <2>1. Logged(b, c)
    BY <1>1, <1>4, <1>5, <1>6, LoggedOne
  <2> QED BY <1>4, <2>1 DEF Noted, Moved, Has
<1> QED BY <1>4, <1>5, <1>7 DEF SetCol, c, t

\* what setting a flag of m, which is b or b with a new mark, does
FlagSet(b, m, c, flag, on) ==
    /\ c \in Tracked /\ Logged(b, c) /\ Flagged(b, c) /\ c.mrow = m.mrow /\ c.mcol = m.mcol
    /\ (flag = "Saved" => ~on) => Noted(b, c)
    /\ Clean(b) => Forgotten(c)
    /\ c.flags = IF on THEN b.flags \cup {flag} ELSE b.flags \ {flag}

\* A flag is set or taken back; the mark may have been set where there was none.
LEMMA FlagNoted ==
    ASSUME NEW b \in Tracked, NEW m \in Tracked, Flagged(b, m), m.flags = b.flags,
           m.track = b.track, m.undo = b.undo, Marked(b) => m.mrow = b.mrow /\ m.mcol = b.mcol,
           NEW flag \in Flags \ {"Tracking"}, NEW on \in BOOLEAN,
           Marked(b) /\ flag = "MarkState" => on
    PROVE  FlagSet(b, m, SetFlag(m, flag, on), flag, on)
<1> DEFINE fs == b.flags \ Unseen
           gs == IF on THEN b.flags \cup {flag} ELSE b.flags \ {flag}
           e == [op |-> "SetFlags", n |-> 0, what |-> fs]
           t == Track(m, "SetFlags", 0, fs)
           c == [t EXCEPT !.flags = IF on THEN @ \cup {flag} ELSE @ \ {flag}]
<1>1. fs \in SUBSET Flags /\ gs \in SUBSET Flags
  <2>1. b.flags \in SUBSET Flags
    BY BufferParts DEF Tracked
  <2> QED BY <2>1
<1>2. e \in Notes
  BY <1>1, NoteTypes
<1>3. t \in Tracked /\ Moved(m, t) /\ Edited(m, t) /\ t.undo = m.undo /\ t.track = <<e>> \o m.track
  <2>1. [op |-> "SetFlags", n |-> 0, what |-> fs] \in Notes /\ m \in Tracked
    BY <1>2
  <2> HIDE DEF fs, gs, c
  <2> QED BY <2>1, TrackNotes
<1>4. SetFlag(m, flag, on) = c
  <2>1. m.flags \ {"Tracking", "Saved"} = fs
    BY DEF Unseen
  <2> QED BY <2>1 DEF SetFlag
<1> HIDE DEF t
<1>5. t.flags = b.flags /\ c = [t EXCEPT !.flags = gs]
  BY <1>3 DEF Moved
<1> HIDE DEF c, gs, fs
<1>6. c \in Buffers
  BY <1>1, <1>3, <1>5, BufferParts DEF Tracked
<1>7. /\ c.flags = gs /\ c.lines = t.lines /\ c.row = t.row /\ c.col = t.col /\ c.mrow = t.mrow /\ c.mcol = t.mcol
      /\ c.track = t.track /\ c.undo = t.undo /\ c.trap = t.trap
  BY <1>3, <1>5 DEF Tracked, Buffers
<1>8. Flagged(b, c) /\ c.mrow = m.mrow /\ c.mcol = m.mcol /\ c.undo = b.undo /\ c.track = <<e>> \o b.track
  BY <1>3, <1>7 DEF Flagged, Moved, Edited
<1>9. c \in Tracked
  <2>1. "Tracking" \in gs
    BY DEF gs, Tracked, Has
  <2> QED BY <1>6, <1>7, <2>1 DEF Tracked, Has
<1>10. ASSUME NEW x \in Buffers, Alike(x, c) PROVE BackTo(Revert(x, e), x, b) /\ ~Has(Revert(x, e), "Saved")
  <2> DEFINE y == [x EXCEPT !.flags = fs]
  <2>1. Revert(x, e) = y
    BY DEF Revert
  <2>2. y \in Buffers
    BY <1>1, BufferParts
  <2>3. /\ y.lines = x.lines /\ y.row = x.row /\ y.col = x.col /\ y.mrow = x.mrow /\ y.mcol = x.mcol
        /\ y.flags = fs /\ y.track = x.track /\ y.undo = x.undo /\ y.trap = x.trap
    BY DEF Buffers
  <2> HIDE DEF y
  <2>4. x.lines = c.lines /\ x.row = c.row /\ x.col = c.col /\ (Marked(c) => x.mrow = c.mrow /\ x.mcol = c.mcol)
    BY <1>10 DEF Alike
  <2>5. Marked(b) => Marked(c)
    BY <1>7 DEF gs, Marked, Has
  <2>6. fs \ Unseen = b.flags \ Unseen /\ "Tracking" \notin fs /\ "Saved" \notin fs
    BY DEF fs, Unseen
  <2>7. Alike(y, b)
    BY <1>8, <2>3, <2>4, <2>5, <2>6 DEF Alike, Flagged
  <2> QED BY <2>1, <2>2, <2>3, <2>6, <2>7 DEF BackTo, Has
<1> HIDE DEF e
<1>11. Logged(b, c)
  BY <1>2, <1>8, <1>9, <1>10, LoggedOne
<1>12. (flag = "Saved" => ~on) => ("Saved" \in gs => "Saved" \in b.flags)
  BY DEF gs
<1>13. (flag = "Saved" => ~on) => Noted(b, c)
  BY <1>7, <1>11, <1>12 DEF Noted, Has
<1>14. Clean(b) => Forgotten(c)
  BY <1>2, <1>8, <1>10, ForgottenOne
<1> QED BY <1>4, <1>7, <1>8, <1>9, <1>11, <1>13, <1>14 DEF gs, FlagSet

\* the same mark
Kept(b, c) == c.mrow = b.mrow /\ c.mcol = b.mcol /\ (Marked(c) <=> Marked(b))

\* A flag that is neither of the tracking nor of the mark leaves the mark.
LEMMA SetFlagNoted ==
    ASSUME NEW b \in Tracked, NEW flag \in Flags \ {"Tracking", "MarkState"}, NEW on \in BOOLEAN
    PROVE  LET c == SetFlag(b, flag, on)
           IN /\ c \in Tracked /\ Logged(b, c) /\ Flagged(b, c) /\ Kept(b, c)
              /\ (flag = "Saved" => ~on) => Noted(b, c)
              /\ Clean(b) => Forgotten(c)
              /\ c.flags = IF on THEN b.flags \cup {flag} ELSE b.flags \ {flag}
<1> DEFINE c == SetFlag(b, flag, on)
<1>1. Flagged(b, b)
  BY DEF Flagged
<1>2. FlagSet(b, b, c, flag, on)
  <2>1. flag \in Flags \ {"Tracking"} /\ flag # "MarkState"
    OBVIOUS
  <2>2. b.flags = b.flags /\ b.track = b.track /\ b.undo = b.undo
        /\ (Marked(b) => b.mrow = b.mrow /\ b.mcol = b.mcol)
        /\ (Marked(b) /\ flag = "MarkState" => on)
    BY <2>1
  <2> QED BY <1>1, <2>1, <2>2, FlagNoted, Zenon
<1> HIDE DEF c
<1>3. "MarkState" \in c.flags <=> "MarkState" \in b.flags
  BY <1>2 DEF FlagSet
<1>4. Kept(b, c)
  BY <1>2, <1>3 DEF FlagSet, Kept, Marked, Has
<1> QED BY <1>2, <1>4 DEF FlagSet, c

\* The changed flag, and the saved one with it
LEMMA SetChangedNoted ==
    ASSUME NEW b \in Tracked, NEW on \in BOOLEAN
    PROVE  LET c == SetChanged(b, on)
           IN c \in Tracked /\ Noted(b, c) /\ Flagged(b, c) /\ Kept(b, c) /\ (on => Dirties(b, c))
<1> DEFINE t == SetFlag(b, "Changed", on)
           c == SetFlag(t, "Saved", FALSE)
<1>1. {"Changed", "Saved"} \subseteq Flags \ {"Tracking", "MarkState"}
  BY DEF Flags
<1>2. t \in Tracked /\ Noted(b, t) /\ Flagged(b, t) /\ Kept(b, t)
  <2>1. "Changed" \in Flags \ {"Tracking", "MarkState"} /\ "Changed" # "Saved"
    BY <1>1
  <2> QED BY <2>1, SetFlagNoted
<1> HIDE DEF t
<1>3. /\ c \in Tracked /\ Noted(t, c) /\ Flagged(t, c) /\ Kept(t, c)
      /\ (Clean(t) => Forgotten(c)) /\ ~Has(c, "Saved")
  <2> DEFINE flag == "Saved"
             off == FALSE
  <2>1. flag \in Flags \ {"Tracking", "MarkState"} /\ off \in BOOLEAN /\ c = SetFlag(t, flag, off) /\ ~off
    BY <1>1
  <2> HIDE DEF c, flag, off
  <2>2. /\ c \in Tracked /\ Flagged(t, c) /\ Kept(t, c) /\ Noted(t, c)
        /\ (Clean(t) => Forgotten(c))
        /\ c.flags = IF off THEN t.flags \cup {flag} ELSE t.flags \ {flag}
    BY <1>2, <2>1, SetFlagNoted
  <2> QED BY <2>1, <2>2 DEF flag, Has
<1> HIDE DEF c
<1>7. Dirties(t, c)
  BY <1>3 DEF Dirties, Dirty
<1>8. Dirties(b, c)
  BY <1>2, <1>3, <1>7, DirtiesOn
<1>4. Noted(b, c)
  BY <1>2, <1>3, NotedOn
<1>5. Flagged(b, c) /\ Kept(b, c)
  BY <1>2, <1>3 DEF Flagged, Kept
<1>6. SetChanged(b, on) = IF on THEN c ELSE t
  BY DEF SetChanged, c, t
<1> QED BY <1>2, <1>3, <1>4, <1>5, <1>6, <1>8

\* A mark is set where there was none
LEMMA MarkNoted ==
    ASSUME NEW b \in Tracked
    PROVE  LET c == Mark(b)
           IN /\ c \in Tracked /\ Noted(b, c) /\ Flagged(b, c) /\ c.flags = b.flags \cup {"MarkState"}
              /\ c.mrow = IF Marked(b) THEN b.mrow ELSE b.row
<1> DEFINE x == [b EXCEPT !.mrow = b.row, !.mcol = b.col]
           m == IF Has(b, "MarkState") THEN b ELSE x
<1>1. x = [f \in DOMAIN b |-> IF f = "mcol" THEN b.col ELSE IF f = "mrow" THEN b.row ELSE b[f]]
  BY Zenon
<1>2. DOMAIN b = {"lines", "row", "col", "mrow", "mcol", "flags", "track", "undo", "trap"}
  BY DEF Tracked, Buffers
<1>3. b \in Buffers /\ Has(b, "Tracking")
  BY DEF Tracked
<1> HIDE DEF x
<1>4. /\ x.lines = b.lines /\ x.row = b.row /\ x.col = b.col /\ x.mrow = b.row /\ x.mcol = b.col
      /\ x.flags = b.flags /\ x.track = b.track /\ x.undo = b.undo /\ x.trap = b.trap
  BY <1>1, <1>2
<1>5. x = [lines |-> b.lines, row |-> b.row, col |-> b.col, mrow |-> b.row, mcol |-> b.col,
           flags |-> b.flags, track |-> b.track, undo |-> b.undo, trap |-> b.trap]
  BY <1>1, <1>2
<1>6. x \in Buffers
  BY <1>3, <1>5, BufferParts DEF Buffers
<1>7. m \in Tracked /\ Flagged(b, m) /\ m.flags = b.flags /\ m.track = b.track /\ m.undo = b.undo
      /\ (Marked(b) => m.mrow = b.mrow /\ m.mcol = b.mcol) /\ m.mrow = IF Marked(b) THEN b.mrow ELSE b.row
  BY <1>3, <1>4, <1>6 DEF Tracked, Flagged, Marked, Has
<1> HIDE DEF m
<1>8. "MarkState" \in Flags \ {"Tracking"}
  BY DEF Flags
<1> DEFINE c == SetFlag(m, "MarkState", TRUE)
<1>9. c \in Tracked /\ Noted(b, c) /\ Flagged(b, c) /\ c.mrow = m.mrow /\ c.flags = b.flags \cup {"MarkState"}
  <2>1. FlagSet(b, m, c, "MarkState", TRUE)
    BY <1>7, <1>8, FlagNoted
  <2> HIDE DEF c
  <2> QED BY <2>1, <1>7 DEF FlagSet
<1>10. Mark(b) = c
  BY DEF Mark, m, x
<1> HIDE DEF c
<1> QED BY <1>7, <1>9, <1>10

\* Where the mark was comes back.
LEMMA MarkBack ==
    ASSUME NEW x \in Buffers, NEW n \in Nat, NEW m \in Nat
    PROVE  LET y == Revert(x, [op |-> "MarkPos", n |-> n, what |-> m])
           IN /\ y \in Buffers /\ y.lines = x.lines /\ y.row = x.row /\ y.col = x.col /\ y.mrow = n /\ y.mcol = m
              /\ y.flags = x.flags /\ y.track = x.track /\ y.undo = x.undo /\ y.trap = x.trap
<1> DEFINE y == [x EXCEPT !.mrow = n, !.mcol = m]
<1>1. Revert(x, [op |-> "MarkPos", n |-> n, what |-> m]) = y
  BY DEF Revert
<1>2. y = [f \in DOMAIN x |-> IF f = "mcol" THEN m ELSE IF f = "mrow" THEN n ELSE x[f]]
  BY Zenon
<1>3. DOMAIN x = {"lines", "row", "col", "mrow", "mcol", "flags", "track", "undo", "trap"}
  BY DEF Buffers
<1> HIDE DEF y
<1>4. /\ y.lines = x.lines /\ y.row = x.row /\ y.col = x.col /\ y.mrow = n /\ y.mcol = m
      /\ y.flags = x.flags /\ y.track = x.track /\ y.undo = x.undo /\ y.trap = x.trap
  BY <1>2, <1>3
<1>5. y = [lines |-> x.lines, row |-> x.row, col |-> x.col, mrow |-> n, mcol |-> m,
           flags |-> x.flags, track |-> x.track, undo |-> x.undo, trap |-> x.trap]
  BY <1>2, <1>3
<1>6. y \in Buffers
  BY <1>5, BufferParts DEF Buffers
<1> QED BY <1>1, <1>4, <1>6

\* and is taken back, with where it was.
LEMMA UnmarkNoted ==
    ASSUME NEW b \in Tracked
    PROVE  LET c == Unmark(b)
           IN /\ c \in Tracked /\ Noted(b, c) /\ Flagged(b, c) /\ ~Marked(c)
              /\ c.flags = b.flags \ {"MarkState"}
<1>0. "MarkState" \in Flags \ {"Tracking"}
  BY DEF Flags
<1>1. CASE ~Marked(b)
  <2> DEFINE c == SetFlag(b, "MarkState", FALSE)
  <2>1. Unmark(b) = c
    BY <1>1 DEF Unmark, Marked
  <2>2. Flagged(b, b)
    BY DEF Flagged
  <2>3. FlagSet(b, b, c, "MarkState", FALSE)
    BY <1>0, <1>1, <2>2, FlagNoted
  <2> HIDE DEF c
  <2>4. Noted(b, c)
    BY <2>3 DEF FlagSet
  <2> QED BY <2>1, <2>3, <2>4 DEF FlagSet, Marked, Has
<1>2. CASE Marked(b)
  <2> DEFINE fs == b.flags \ Unseen
             gs == b.flags \ {"MarkState"}
             d == [op |-> "MarkPos", n |-> b.mrow, what |-> b.mcol]
             e == [op |-> "SetFlags", n |-> 0, what |-> fs]
             m == Track(b, "MarkPos", b.mrow, b.mcol)
             t == Track(m, "SetFlags", 0, fs)
             c == [t EXCEPT !.flags = gs]
  <2>1. fs \in SUBSET Flags /\ gs \in SUBSET Flags /\ b.mrow \in Nat /\ b.mcol \in Nat
    <3>1. b.flags \in SUBSET Flags /\ b.mrow \in Nat /\ b.mcol \in Nat
      BY BufferParts DEF Tracked
    <3> QED BY <3>1
  <2>2. d \in Notes /\ e \in Notes
    <3> HIDE DEF fs
    <3> QED BY <2>1, NoteTypes
  <2>3. m \in Tracked /\ Moved(b, m) /\ Edited(b, m) /\ m.undo = b.undo /\ m.track = <<d>> \o b.track
    BY <2>2, TrackNotes
  <2> HIDE DEF m
  <2>4. t \in Tracked /\ Moved(m, t) /\ Edited(m, t) /\ t.undo = m.undo /\ t.track = <<e>> \o m.track
    <3>1. [op |-> "SetFlags", n |-> 0, what |-> fs] \in Notes /\ m \in Tracked
      BY <2>2, <2>3
    <3> HIDE DEF fs
    <3> QED BY <3>1, TrackNotes
  <2>5. Unmark(b) = c
    <3>1. Unmark(b) = SetFlag(m, "MarkState", FALSE)
      BY <1>2 DEF Unmark, Marked, m
    <3>2. m.flags = b.flags
      BY <2>3 DEF Moved
    <3>3. m.flags \ {"Tracking", "Saved"} = fs
      BY <3>2 DEF Unseen
    <3>4. SetFlag(m, "MarkState", FALSE) = [t EXCEPT !.flags = @ \ {"MarkState"}]
      BY <3>3 DEF SetFlag
    <3>5. t.flags = b.flags
      BY <2>4, <3>2 DEF Moved
    <3> HIDE DEF t
    <3> QED BY <3>1, <3>4, <3>5
  <2> HIDE DEF t, c, gs, fs
  <2>6. c \in Buffers
    BY <2>1, <2>4, BufferParts DEF Tracked, c
  <2>7. /\ c.flags = gs /\ c.lines = t.lines /\ c.row = t.row /\ c.col = t.col /\ c.mrow = t.mrow /\ c.mcol = t.mcol
        /\ c.track = t.track /\ c.undo = t.undo /\ c.trap = t.trap
    BY <2>4 DEF Tracked, Buffers, c
  <2>8. Flagged(b, c) /\ c.undo = b.undo
    BY <2>3, <2>4, <2>7 DEF Flagged, Moved, Edited
  <2>9. c \in Tracked /\ ~Marked(c)
    <3>1. "Tracking" \in gs /\ "MarkState" \notin gs
      BY DEF gs, Tracked, Has
    <3> QED BY <2>6, <2>7, <3>1 DEF Tracked, Marked, Has
  <2> HIDE DEF d, e
  <2>10. c.track = (<<e>> \o <<d>>) \o b.track /\ <<e>> \o <<d>> \in Seq(Notes)
    <3> DEFINE old == b.track
               N == Notes
    <3>1. old \in Seq(N) /\ d \in N /\ e \in N
      BY <2>2, BufferParts DEF Tracked
    <3> HIDE DEF old, N
    <3>2. <<e>> \o (<<d>> \o old) = (<<e>> \o <<d>>) \o old /\ <<e>> \o <<d>> \in Seq(N)
      BY <3>1
    <3> QED BY <2>3, <2>4, <2>7, <3>2 DEF old, N
  <2>11. ASSUME NEW x \in Buffers, Alike(x, c) PROVE BackTo(Reverted(x, <<e>> \o <<d>>), x, b)
    <3> DEFINE y == [x EXCEPT !.flags = fs]
               z == Revert(y, d)
    <3>1. Revert(x, e) = y
      BY DEF Revert, e
    <3>2. y \in Buffers
      BY <2>1, BufferParts
    <3>3. /\ y.lines = x.lines /\ y.row = x.row /\ y.col = x.col
          /\ y.flags = fs /\ y.track = x.track /\ y.undo = x.undo /\ y.trap = x.trap
      BY DEF Buffers
    <3> HIDE DEF y
    <3>4. /\ z \in Buffers /\ z.lines = y.lines /\ z.row = y.row /\ z.col = y.col /\ z.mrow = b.mrow /\ z.mcol = b.mcol
          /\ z.flags = y.flags /\ z.track = y.track /\ z.undo = y.undo /\ z.trap = y.trap
      BY <2>1, <3>2, MarkBack DEF d
    <3>5. Reverted(x, <<e>> \o <<d>>) = z
      <4> DEFINE u == <<e>>
                 v == <<d>>
      <4>1. u \in Seq(Notes) /\ v \in Seq(Notes)
        BY <2>2
      <4>2. Reverted(x, u) = y /\ Reverted(y, v) = z
        BY <2>2, <3>1, OneNote
      <4> HIDE DEF u, v
      <4>3. LogFold!Fold(0, x, u \o v) = LogFold!Fold(0, LogFold!Fold(0, x, u), v)
        BY <4>1, LogFold!FoldConcat
      <4>4. Reverted(x, u \o v) = z
        BY <4>2, <4>3 DEF Reverted
      <4> QED BY <4>4 DEF u, v
    <3> HIDE DEF z
    <3>6. x.lines = c.lines /\ x.row = c.row /\ x.col = c.col
      BY <2>11 DEF Alike
    <3>7. fs \ Unseen = b.flags \ Unseen /\ "Tracking" \notin fs
      BY DEF fs, Unseen
    <3>8. Alike(z, b)
      BY <2>8, <3>3, <3>4, <3>6, <3>7 DEF Alike, Flagged
    <3>9. "Saved" \notin fs
      BY DEF fs, Unseen
    <3> QED BY <3>3, <3>4, <3>5, <3>7, <3>8, <3>9 DEF BackTo, Has
  <2>12. Leads(<<e>> \o <<d>>, c, b)
    BY <2>11 DEF Leads
  <2> DEFINE es == <<e>> \o <<d>>
  <2> HIDE DEF es
  <2>13. es \in Seq(Notes) /\ c.track = es \o b.track /\ Leads(es, c, b)
    BY <2>10, <2>12 DEF es
  <2>14. Noted(b, c)
    <3>1. Logged(b, c)
      BY <2>8, <2>9, <2>13 DEF Logged, Tracked
    <3> QED BY <2>7, <3>1 DEF Noted, Has, gs
  <2>15. c.flags = b.flags \ {"MarkState"}
    BY <2>7 DEF gs
  <2> QED BY <2>5, <2>8, <2>9, <2>14, <2>15
<1> QED BY <1>1, <1>2

\* What most editing begins with.
LEMMA ModifiedNoted ==
    ASSUME NEW b \in Tracked
    PROVE  LET c == Modified(b)
           IN c \in Tracked /\ Noted(b, c) /\ Flagged(b, c) /\ ~Marked(c) /\ Dirties(b, c)
<1> DEFINE t == Unmark(b)
           c == SetChanged(t, TRUE)
<1>1. t \in Tracked /\ Noted(b, t) /\ Flagged(b, t) /\ ~Marked(t)
  BY UnmarkNoted
<1> HIDE DEF t
<1>2. c \in Tracked /\ Noted(t, c) /\ Flagged(t, c) /\ Kept(t, c) /\ Dirties(t, c)
  BY <1>1, SetChangedNoted
<1> HIDE DEF c
<1>3. Noted(b, c) /\ Dirties(b, c)
  BY <1>1, <1>2, NotedOn, DirtiesOn
<1>4. Flagged(b, c) /\ ~Marked(c)
  BY <1>1, <1>2 DEF Flagged, Kept
<1> QED BY <1>2, <1>3, <1>4 DEF Modified, c, t

-----------------------------------------------------------------------------
(***************************************************************************)
(* Sequences of rows: rows that go in and rows that come out.              *)
(***************************************************************************)
Put(ls, i, m)  == SubSeq(ls, 1, i) \o m \o SubSeq(ls, i + 1, Len(ls))
Drop(ls, i, j) == SubSeq(ls, 1, i) \o SubSeq(ls, j + 1, Len(ls))

\* w is ls with m, of length c, at i
IsPut(w, S, ls, i, m, c) ==
    /\ w \in Seq(S) /\ Len(w) = Len(ls) + c
    /\ \A k \in 1 .. Len(ls) + c : w[k] = IF k <= i THEN ls[k] ELSE IF k <= i + c THEN m[k - i] ELSE ls[k - c]
\* w is ls, of length n, without what is between i and j
IsDrop(w, S, ls, n, i, j) ==
    /\ w \in Seq(S) /\ Len(w) = n - (j - i)
    /\ \A k \in 1 .. n - (j - i) : w[k] = IF k <= i THEN ls[k] ELSE ls[k + (j - i)]

\* w is s, of length n, and behind it t, of length c
IsConcat(w, S, s, n, t, c) ==
    /\ w \in Seq(S) /\ Len(w) = n + c
    /\ \A k \in 1 .. n + c : w[k] = IF k <= n THEN s[k] ELSE t[k - n]

\* Two sequences in a row.
LEMMA ConcatIs ==
    ASSUME NEW S, NEW s \in Seq(S), NEW t \in Seq(S)
    PROVE  IsConcat(s \o t, S, s, Len(s), t, Len(t))
  BY DEF IsConcat

\* Where the rows are after some went in,
LEMMA PutIs ==
    ASSUME NEW S, NEW ls \in Seq(S), NEW i \in 0 .. Len(ls), NEW m \in Seq(S), NEW c \in Nat, Len(m) = c
    PROVE  IsPut(Put(ls, i, m), S, ls, i, m, c)
<1> DEFINE n == Len(ls)
           x == SubSeq(ls, 1, i)
           z == SubSeq(ls, i + 1, n)
<1>0. n \in Nat /\ i \in Nat /\ n - i \in Nat /\ i + c \in Nat
  OBVIOUS
<1>1. x \in Seq(S) /\ Len(x) = i /\ \A k \in 1 .. i : x[k] = ls[k]
  OBVIOUS
<1>2. z \in Seq(S) /\ Len(z) = n - i /\ \A k \in 1 .. n - i : z[k] = ls[i + k]
  OBVIOUS
<1> HIDE DEF x, z
<1> DEFINE y == x \o m
<1>3. y \in Seq(S) /\ Len(y) = i + c /\ \A k \in 1 .. i + c : y[k] = IF k <= i THEN x[k] ELSE m[k - i]
  <2>1. IsConcat(y, S, x, i, m, c)
    BY <1>1, ConcatIs
  <2> QED BY <2>1 DEF IsConcat
<1> HIDE DEF y
<1> DEFINE w == y \o z
<1>4. w \in Seq(S) /\ Len(w) = (i + c) + (n - i)
      /\ \A k \in 1 .. (i + c) + (n - i) : w[k] = IF k <= i + c THEN y[k] ELSE z[k - (i + c)]
  <2>1. IsConcat(w, S, y, i + c, z, n - i)
    <3>1. IsConcat(y \o z, S, y, Len(y), z, Len(z))
      BY <1>2, <1>3, ConcatIs
    <3> QED BY <1>2, <1>3, <3>1
  <2> QED BY <2>1 DEF IsConcat
<1> HIDE DEF w
<1>5. (i + c) + (n - i) = n + c
  BY <1>0
<1>6. ASSUME NEW k \in 1 .. n + c
      PROVE  w[k] = IF k <= i THEN ls[k] ELSE IF k <= i + c THEN m[k - i] ELSE ls[k - c]
  <2>1. CASE k <= i + c
    <3>1. k \in 1 .. (i + c) + (n - i) /\ k \in 1 .. i + c /\ (k <= i => k \in 1 .. i)
      BY <1>0, <1>5, <2>1
    <3>2. w[k] = y[k] /\ y[k] = IF k <= i THEN x[k] ELSE m[k - i]
      BY <1>3, <1>4, <2>1, <3>1
    <3> QED BY <1>1, <2>1, <3>1, <3>2
  <2>2. CASE k > i + c
    <3>1. k - (i + c) \in 1 .. n - i /\ i + (k - (i + c)) = k - c /\ ~(k <= i) /\ ~(k <= i + c)
      BY <1>0, <2>2
    <3> QED BY <1>2, <1>4, <1>5, <3>1
  <2> QED BY <1>0, <2>1, <2>2
<1>7. Put(ls, i, m) = w
  BY DEF Put, w, y, x, z
<1> QED BY <1>4, <1>5, <1>6, <1>7 DEF IsPut

\* and after some came out.
LEMMA DropIs ==
    ASSUME NEW S, NEW ls \in Seq(S), NEW i \in Nat, NEW j \in i .. Len(ls)
    PROVE  IsDrop(Drop(ls, i, j), S, ls, Len(ls), i, j)
<1> DEFINE n == Len(ls)
           x == SubSeq(ls, 1, i)
           z == SubSeq(ls, j + 1, n)
<1>0. n \in Nat
  OBVIOUS
<1>1. x \in Seq(S) /\ Len(x) = i /\ \A k \in 1 .. i : x[k] = ls[k]
  BY <1>0
<1>2. z \in Seq(S) /\ Len(z) = n - j /\ \A k \in 1 .. n - j : z[k] = ls[j + k]
  BY <1>0
<1> HIDE DEF x, z
<1> DEFINE w == x \o z
<1>4. w \in Seq(S) /\ Len(w) = n - (j - i) /\ \A k \in 1 .. n - (j - i) : w[k] = IF k <= i THEN x[k] ELSE z[k - i]
  <2>1. n - j \in Nat /\ i + (n - j) = n - (j - i)
    BY <1>0
  <2>2. w \in Seq(S) /\ Len(w) = i + (n - j) /\ \A k \in 1 .. i + (n - j) : w[k] = IF k <= i THEN x[k] ELSE z[k - i]
    <3>1. IsConcat(w, S, x, Len(x), z, Len(z))
      BY <1>1, <1>2, ConcatIs
    <3>2. IsConcat(w, S, x, i, z, n - j)
      BY <1>1, <1>2, <3>1
    <3> QED BY <3>2 DEF IsConcat
  <2> HIDE DEF w
  <2> QED BY <2>1, <2>2
<1> HIDE DEF w
<1>5. ASSUME NEW k \in 1 .. n - (j - i) PROVE w[k] = IF k <= i THEN ls[k] ELSE ls[k + (j - i)]
  <2>1. CASE k <= i
    BY <1>0, <1>1, <1>4, <2>1
  <2>2. CASE k > i
    <3>1. k - i \in 1 .. n - j /\ j + (k - i) = k + (j - i) /\ ~(k <= i)
      BY <1>0, <2>2
    <3> QED BY <1>0, <1>2, <1>4, <2>2, <3>1
  <2> QED BY <1>0, <2>1, <2>2
<1>6. Drop(ls, i, j) = w
  BY DEF Drop, w, x, z
<1> QED BY <1>4, <1>5, <1>6 DEF IsDrop

\* Rows that came out go back in,
LEMMA PutBack ==
    ASSUME NEW S, NEW ls \in Seq(S), NEW i \in Nat, NEW j \in i .. Len(ls)
    PROVE  Put(Drop(ls, i, j), i, SubSeq(ls, i + 1, j)) = ls
<1> DEFINE d == Drop(ls, i, j)
           m == SubSeq(ls, i + 1, j)
           n == Len(ls)
<1>0. n \in Nat
  OBVIOUS
<1>1. d \in Seq(S) /\ Len(d) = n - (j - i) /\ \A k \in 1 .. n - (j - i) : d[k] = IF k <= i THEN ls[k] ELSE ls[k + (j - i)]
  <2>1. IsDrop(d, S, ls, n, i, j)
    BY DropIs
  <2> QED BY <2>1 DEF IsDrop
<1>2. m \in Seq(S) /\ Len(m) = j - i /\ \A k \in 1 .. j - i : m[k] = ls[i + k]
  BY <1>0
<1> HIDE DEF d, m
<1> DEFINE w == Put(d, i, m)
<1> DEFINE c == j - i
<1>3. i \in 0 .. Len(d) /\ Len(d) + c = n /\ c \in Nat /\ i + c = j
  BY <1>0, <1>1, <1>2
<1>4. /\ w \in Seq(S) /\ Len(w) = n
      /\ \A k \in 1 .. n : w[k] = IF k <= i THEN d[k] ELSE IF k <= j THEN m[k - i] ELSE d[k - c]
  <2>1. /\ w \in Seq(S) /\ Len(w) = Len(d) + c
        /\ \A k \in 1 .. Len(d) + c : w[k] = IF k <= i THEN d[k] ELSE IF k <= i + c THEN m[k - i] ELSE d[k - c]
    <3> HIDE DEF c
    <3>1. Len(m) = c
      BY <1>2 DEF c
    <3>2. IsPut(w, S, d, i, m, c)
      BY <1>1, <1>2, <1>3, <3>1, PutIs
    <3> QED BY <3>2 DEF IsPut
  <2> HIDE DEF w, c
  <2> QED BY <1>3, <2>1
<1> HIDE DEF w
<1>5. ASSUME NEW k \in 1 .. n PROVE w[k] = ls[k]
  <2>1. CASE k <= i
    <3>1. k \in 1 .. n - (j - i)
      BY <1>0, <2>1
    <3> QED BY <1>1, <1>4, <2>1, <3>1
  <2>2. CASE k > i /\ k <= j
    <3>1. k - i \in 1 .. j - i /\ k <= j /\ i + (k - i) = k /\ ~(k <= i)
      BY <1>0, <1>2, <2>2
    <3> QED BY <1>2, <1>4, <3>1
  <2>3. CASE k > j
    <3>1. k - (j - i) \in 1 .. n - (j - i) /\ (k - (j - i)) + (j - i) = k /\ ~(k - (j - i) <= i) /\ ~(k <= i)
          /\ ~(k <= j)
      BY <1>0, <1>2, <2>3
    <3> QED BY <1>1, <1>2, <1>4, <3>1
  <2> QED BY <1>0, <2>1, <2>2, <2>3
<1> QED BY <1>0, <1>4, <1>5, SeqEqual DEF w, d, m

\* rows that went in come out,
LEMMA DropBack ==
    ASSUME NEW S, NEW ls \in Seq(S), NEW i \in 0 .. Len(ls), NEW m \in Seq(S)
    PROVE  Drop(Put(ls, i, m), i, i + Len(m)) = ls
<1> DEFINE p == Put(ls, i, m)
           n == Len(ls)
           c == Len(m)
<1>0. n \in Nat /\ c \in Nat /\ i \in Nat
  OBVIOUS
<1>1. /\ p \in Seq(S) /\ Len(p) = n + c
      /\ \A k \in 1 .. n + c : p[k] = IF k <= i THEN ls[k] ELSE IF k <= i + c THEN m[k - i] ELSE ls[k - c]
  <2>1. IsPut(p, S, ls, i, m, c)
    BY <1>0, PutIs
  <2> HIDE DEF c, p
  <2> QED BY <2>1 DEF IsPut
<1> HIDE DEF p, c
<1> DEFINE w == Drop(p, i, i + c)
<1>2. i + c \in i .. Len(p) /\ Len(p) - ((i + c) - i) = n /\ (i + c) - i = c
  BY <1>0, <1>1
<1>3. w \in Seq(S) /\ Len(w) = n /\ \A k \in 1 .. n : w[k] = IF k <= i THEN p[k] ELSE p[k + c]
  <2>1. /\ w \in Seq(S) /\ Len(w) = Len(p) - ((i + c) - i)
        /\ \A k \in 1 .. Len(p) - ((i + c) - i) : w[k] = IF k <= i THEN p[k] ELSE p[k + ((i + c) - i)]
    <3>1. IsDrop(w, S, p, Len(p), i, i + c)
      BY <1>0, <1>1, <1>2, DropIs
    <3> HIDE DEF w
    <3> QED BY <3>1 DEF IsDrop
  <2> HIDE DEF w
  <2> QED BY <1>2, <2>1
<1> HIDE DEF w
<1>4. ASSUME NEW k \in 1 .. n PROVE w[k] = ls[k]
  <2>1. CASE k <= i
    BY <1>0, <1>1, <1>3, <2>1
  <2>2. CASE k > i
    <3>1. k + c \in 1 .. n + c /\ ~(k <= i) /\ ~(k + c <= i + c) /\ ~(k + c <= i) /\ (k + c) - c = k
      BY <1>0, <2>2
    <3> QED BY <1>1, <1>3, <3>1
  <2> QED BY <1>0, <2>1, <2>2
<1> QED BY <1>0, <1>3, <1>4, SeqEqual DEF w, p, c

\* and a row that was changed is put back whole.
LEMMA RowBack ==
    ASSUME NEW S, NEW ls \in Seq(S), NEW i \in 0 .. Len(ls) - 1, NEW s \in S
    PROVE  LET u == [ls EXCEPT ![i + 1] = s]
           IN u \in Seq(S) /\ Len(u) = Len(ls) /\ Put(Drop(u, i, i + 1), i, <<ls[i + 1]>>) = ls
<1> DEFINE u == [ls EXCEPT ![i + 1] = s]
           n == Len(ls)
<1>0. n \in Nat /\ i \in Nat /\ i + 1 \in 1 .. n
  OBVIOUS
<1>1. u \in Seq(S) /\ Len(u) = n /\ \A k \in 1 .. n : u[k] = IF k = i + 1 THEN s ELSE ls[k]
  BY <1>0
<1> HIDE DEF u
<1> DEFINE d == Drop(u, i, i + 1)
           m == <<ls[i + 1]>>
           w == Put(d, i, m)
<1>2. d \in Seq(S) /\ Len(d) = n - 1 /\ \A k \in 1 .. n - 1 : d[k] = IF k <= i THEN u[k] ELSE u[k + 1]
  <2>1. i + 1 \in i .. Len(u) /\ (i + 1) - i = 1
    BY <1>0, <1>1
  <2>2. /\ d \in Seq(S) /\ Len(d) = Len(u) - ((i + 1) - i)
        /\ \A k \in 1 .. Len(u) - ((i + 1) - i) : d[k] = IF k <= i THEN u[k] ELSE u[k + ((i + 1) - i)]
    <3>1. IsDrop(d, S, u, Len(u), i, i + 1)
      BY <1>0, <1>1, <2>1, DropIs
    <3> HIDE DEF d
    <3> QED BY <3>1 DEF IsDrop
  <2> HIDE DEF d
  <2> QED BY <1>1, <2>1, <2>2
<1>3. m \in Seq(S) /\ Len(m) = 1 /\ m[1] = ls[i + 1]
  BY <1>0
<1> HIDE DEF d, m
<1>4. /\ w \in Seq(S) /\ Len(w) = n
      /\ \A k \in 1 .. n : w[k] = IF k <= i THEN d[k] ELSE IF k <= i + 1 THEN m[k - i] ELSE d[k - 1]
  <2>1. i \in 0 .. Len(d) /\ Len(d) + 1 = n /\ 1 \in Nat
    BY <1>0, <1>2
  <2>2. /\ w \in Seq(S) /\ Len(w) = Len(d) + 1
        /\ \A k \in 1 .. Len(d) + 1 : w[k] = IF k <= i THEN d[k] ELSE IF k <= i + 1 THEN m[k - i] ELSE d[k - 1]
    <3>1. IsPut(w, S, d, i, m, 1)
      BY <1>2, <1>3, <2>1, PutIs
    <3> HIDE DEF w
    <3> QED BY <3>1 DEF IsPut
  <2> HIDE DEF w
  <2> QED BY <2>1, <2>2
<1> HIDE DEF w
<1>5. ASSUME NEW k \in 1 .. n PROVE w[k] = ls[k]
  <2>1. CASE k <= i
    BY <1>0, <1>1, <1>2, <1>4, <2>1
  <2>2. CASE k = i + 1
    <3>1. k - i = 1 /\ ~(k <= i)
      BY <1>0, <2>2
    <3> QED BY <1>3, <1>4, <2>2, <3>1
  <2>3. CASE k > i + 1
    <3>1. k - 1 \in 1 .. n - 1 /\ ~(k - 1 <= i) /\ (k - 1) + 1 = k /\ ~(k <= i) /\ ~(k <= i + 1)
      BY <1>0, <2>3
    <3> QED BY <1>1, <1>2, <1>4, <2>3, <3>1
  <2> QED BY <1>0, <2>1, <2>2, <2>3
<1>6. w = ls
  BY <1>0, <1>4, <1>5, SeqEqual
<1> QED BY <1>1, <1>6 DEF u, w, d, m

-----------------------------------------------------------------------------
(***************************************************************************)
(* The primitives: the lines.                                              *)
(***************************************************************************)
\* The text with one line changed, without a row, and with more rows.
LEMMA TextIs ==
    ASSUME NEW b \in Buffers, NEW i \in Nat
    PROVE  /\ i < Count(b) => /\ \A s : SetLine(b, i, s) = [b EXCEPT !.lines = [b.lines EXCEPT ![i + 1] = s]]
                              /\ RemoveRow(b, i) = [b EXCEPT !.lines = Drop(b.lines, i, i + 1)]
                              /\ Row(b, i) = b.lines[i + 1] /\ Row(b, i) \in Rows
           /\ i <= Count(b) => \A m : InsertRows(b, i, m) = [b EXCEPT !.lines = Put(b.lines, i, m)]
           /\ Count(b) \in Nat
<1>1. b.lines \in Seq(Rows) /\ Count(b) \in Nat
  <2>1. b.lines \in Seq(Rows)
    BY BufferParts
  <2> QED BY <2>1, LenProperties DEF Count
<1>2. ASSUME i < Count(b) PROVE Row(b, i) = b.lines[i + 1] /\ Row(b, i) \in Rows
  <2>1. i \in 0 .. Count(b) - 1 /\ i + 1 \in 1 .. Len(b.lines)
    BY <1>1, <1>2 DEF Count
  <2> QED BY <1>1, <2>1 DEF Row
<1>3. ASSUME i < Count(b), NEW s PROVE SetLine(b, i, s) = [b EXCEPT !.lines = [b.lines EXCEPT ![i + 1] = s]]
  BY Zenon DEF SetLine
<1>4. ASSUME i < Count(b) PROVE RemoveRow(b, i) = [b EXCEPT !.lines = Drop(b.lines, i, i + 1)]
  <2>1. i \in 0 .. Count(b) - 1 /\ (i + 1) - 1 = i
    BY <1>1, <1>4
  <2>2. RemoveAt(b.lines, i + 1) = Drop(b.lines, i, i + 1)
    BY <2>1 DEF RemoveAt, Drop
  <2> QED BY <2>1, <2>2 DEF RemoveRow
<1>5. ASSUME i <= Count(b), NEW m PROVE InsertRows(b, i, m) = [b EXCEPT !.lines = Put(b.lines, i, m)]
  <2>1. Smaller(i, Count(b)) = i
    BY <1>1, <1>5 DEF Smaller
  <2> QED BY <2>1 DEF InsertRows, Put
<1> QED BY <1>1, <1>2, <1>3, <1>4, <1>5

\* What changing the text leaves alone.
LEMMA LinesParts ==
    ASSUME NEW b \in Buffers, NEW ls \in Seq(Rows)
    PROVE  LET c == [b EXCEPT !.lines = ls]
           IN c \in Buffers /\ Edited(b, c) /\ c.lines = ls /\ c.undo = b.undo /\ c.track = b.track
<1> DEFINE c == [b EXCEPT !.lines = ls]
<1>1. c \in Buffers
  BY BufferParts
<1>2. Edited(b, c) /\ c.lines = ls /\ c.undo = b.undo /\ c.track = b.track
  BY DEF Buffers, Edited
<1> QED BY <1>1, <1>2

\* the note e makes the text of b out of ls; only the text may differ, and it is ls
TakesBack(e, ls, b) == \A x \in Buffers : x.lines = ls /\ x.row = b.row => Revert(x, e) = [x EXCEPT !.lines = b.lines]
TextOf(b, c, ls)    == c \in Tracked /\ Noted(b, c) /\ Edited(b, c) /\ c.lines = ls

\* A change of the text with one note that takes it back.
LEMMA TextNoted ==
    ASSUME NEW b \in Tracked, NEW op, NEW n, NEW what, [op |-> op, n |-> n, what |-> what] \in Notes,
           NEW ls \in Seq(Rows), TakesBack([op |-> op, n |-> n, what |-> what], ls, b)
    PROVE  TextOf(b, [Track(b, op, n, what) EXCEPT !.lines = ls], ls)
<1> DEFINE e == [op |-> op, n |-> n, what |-> what]
           t == Track(b, op, n, what)
           c == [t EXCEPT !.lines = ls]
<1>1. t \in Tracked /\ Moved(b, t) /\ Edited(b, t) /\ t.undo = b.undo /\ t.track = <<e>> \o b.track
  BY TrackNotes
<1> HIDE DEF t
<1>2. c \in Buffers /\ Edited(t, c) /\ c.lines = ls /\ c.undo = t.undo /\ c.track = t.track
  BY <1>1, LinesParts DEF Tracked
<1> HIDE DEF c
<1>3. Edited(b, c) /\ c.undo = b.undo /\ c.track = <<e>> \o b.track
  BY <1>1, <1>2 DEF Edited
<1>4. c \in Tracked
  BY <1>2, <1>3 DEF Tracked, Has, Edited
<1>5. ASSUME NEW x \in Buffers, Alike(x, c) PROVE BackTo(Revert(x, e), x, b)
  <2> DEFINE y == [x EXCEPT !.lines = b.lines]
  <2>1. x.lines = ls /\ x.row = b.row
    BY <1>2, <1>3, <1>5 DEF Alike, Edited
  <2>2. Revert(x, e) = y
    BY <2>1 DEF TakesBack
  <2>3. b.lines \in Seq(Rows)
    BY BufferParts DEF Tracked
  <2>4. y \in Buffers /\ Edited(x, y) /\ y.lines = b.lines /\ y.undo = x.undo /\ y.track = x.track
    BY <2>3, LinesParts
  <2> HIDE DEF y
  <2>5. Alike(y, b)
    BY <1>3, <1>5, <2>4 DEF Alike, Edited, Marked, Has
  <2> QED BY <2>2, <2>4, <2>5 DEF BackTo, Edited, Has
<1> HIDE DEF e
<1>6. Noted(b, c)
  <2>1. e \in Notes
    BY DEF e
  <2>2. Logged(b, c)
    BY <1>3, <1>4, <1>5, <2>1, LoggedOne
  <2> QED BY <1>3, <2>2 DEF Noted, Edited, Has
<1> QED BY <1>2, <1>3, <1>4, <1>6 DEF c, t, TextOf


\* A line that is noted whole
RestoreStep(b, i, s) == SetLine(Track(b, "RestoreLine", i, Row(b, i)), i, s)
\* comes back when its note is reverted.
LEMMA RestoreNoted ==
    ASSUME NEW b \in Tracked, NEW i \in Nat, i < Count(b), NEW s \in Rows
    PROVE  TextOf(b, RestoreStep(b, i, s), [b.lines EXCEPT ![i + 1] = s])
<1> DEFINE old == Row(b, i)
           ls == [b.lines EXCEPT ![i + 1] = s]
           t == Track(b, "RestoreLine", i, old)
           e == [op |-> "RestoreLine", n |-> i, what |-> old]
           c == [t EXCEPT !.lines = ls]
<1>0. b \in Buffers /\ b.lines \in Seq(Rows) /\ i \in 0 .. Len(b.lines) - 1 /\ Count(b) = Len(b.lines)
  <2>1. b.lines \in Seq(Rows)
    BY BufferParts DEF Tracked
  <2>2. Len(b.lines) \in Nat
    BY <2>1, LenProperties
  <2> QED BY <2>1, <2>2 DEF Tracked, Count
<1>1. old \in Rows /\ old = b.lines[i + 1]
  BY <1>0, TextIs
<1>2. ls \in Seq(Rows) /\ Len(ls) = Len(b.lines) /\ Put(Drop(ls, i, i + 1), i, <<b.lines[i + 1]>>) = b.lines
  BY <1>0, RowBack
<1>3. e \in Notes
  BY <1>1, NoteTypes
<1> HIDE DEF ls
<1>4. ASSUME NEW x \in Buffers, x.lines = ls /\ x.row = b.row
      PROVE  Revert(x, e) = [x EXCEPT !.lines = b.lines]
  <2> DEFINE u == [x EXCEPT !.lines = Drop(ls, i, i + 1)]
  <2>1. i < Count(x) /\ Count(x) = Len(ls)
    BY <1>0, <1>2, <1>4 DEF Count
  <2>2. RemoveRow(x, i) = u
    BY <1>4, <2>1, TextIs
  <2>3. IsDrop(Drop(ls, i, i + 1), Rows, ls, Len(ls), i, i + 1)
    <3>1. i + 1 \in i .. Len(ls)
      BY <1>0, <1>2
    <3> QED BY <1>2, <3>1, DropIs
  <2>4. Drop(ls, i, i + 1) \in Seq(Rows) /\ Len(Drop(ls, i, i + 1)) = Len(ls) - 1
    <3>1. (i + 1) - i = 1
      OBVIOUS
    <3> QED BY <2>3, <3>1 DEF IsDrop
  <2>5. u \in Buffers /\ u.lines = Drop(ls, i, i + 1)
    BY <2>4, LinesParts
  <2>6. i <= Count(u)
    BY <1>0, <1>2, <2>4, <2>5 DEF Count
  <2>7. InsertRows(u, i, <<old>>) = [u EXCEPT !.lines = b.lines]
    <3>1. InsertRows(u, i, <<old>>) = [u EXCEPT !.lines = Put(u.lines, i, <<old>>)]
      <4> HIDE DEF u
      <4> QED BY <2>5, <2>6, TextIs
    <3> QED BY <1>1, <1>2, <2>5, <3>1
  <2>8. [u EXCEPT !.lines = b.lines] = [x EXCEPT !.lines = b.lines]
    OBVIOUS
  <2>9. Revert(x, e) = InsertRows(RemoveRow(x, i), i, <<old>>)
    BY DEF Revert
  <2> QED BY <2>2, <2>7, <2>8, <2>9
<1> HIDE DEF old
<1>5. TextOf(b, c, ls)
  <2>1. TakesBack(e, ls, b)
    BY <1>4 DEF TakesBack
  <2> QED BY <1>2, <1>3, <2>1, TextNoted
<1>6. RestoreStep(b, i, s) = c
  <2>0. t \in Tracked /\ Moved(b, t)
    BY <1>3, TrackNotes, Zenon
  <2>1. t \in Tracked /\ t.lines = b.lines
    BY <2>0 DEF Moved
  <2> HIDE DEF t
  <2>2. SetLine(t, i, s) = [t EXCEPT !.lines = [t.lines EXCEPT ![i + 1] = s]]
    <3>1. i < Count(t)
      BY <2>1 DEF Count
    <3> QED BY <2>1, <3>1, TextIs DEF Tracked
  <2> QED BY <2>1, <2>2 DEF RestoreStep, t, old, ls
<1> HIDE DEF c
<1> QED BY <1>5, <1>6 DEF ls


\* What track leaves of the text, for the change that follows it.
LEMMA TrackText ==
    ASSUME NEW b \in Tracked, NEW op, NEW n, NEW what, [op |-> op, n |-> n, what |-> what] \in Notes
    PROVE  LET t == Track(b, op, n, what)
           IN t \in Buffers /\ t.lines = b.lines /\ Count(t) = Count(b) /\ t.row = b.row /\ t.col = b.col
<1> DEFINE t == Track(b, op, n, what)
<1>1. t \in Tracked /\ Moved(b, t) /\ Edited(b, t)
  BY TrackNotes
<1> HIDE DEF t
<1>2. t \in Buffers /\ t.lines = b.lines /\ Count(t) = Count(b) /\ t.row = b.row /\ t.col = b.col
  BY <1>1 DEF Tracked, Moved, Edited, Count
<1> QED BY <1>2 DEF t

\* a line that is inserted
InsStep(b, i, s) == InsertRows(Track(b, "DelLine", i, 0), i, <<s>>)
\* is taken out again.
LEMMA InsNoted ==
    ASSUME NEW b \in Tracked, NEW i \in Nat, i <= Count(b), NEW s \in Rows
    PROVE  TextOf(b, InsStep(b, i, s), Put(b.lines, i, <<s>>)) /\ Count(InsStep(b, i, s)) = Count(b) + 1
<1> DEFINE m == <<s>>
           ls == Put(b.lines, i, m)
           t == Track(b, "DelLine", i, 0)
           e == [op |-> "DelLine", n |-> i, what |-> 0]
           c == [t EXCEPT !.lines = ls]
<1>0. b \in Buffers /\ b.lines \in Seq(Rows) /\ i \in 0 .. Len(b.lines) /\ Count(b) = Len(b.lines)
  <2>1. b.lines \in Seq(Rows)
    BY BufferParts DEF Tracked
  <2>2. Len(b.lines) \in Nat
    BY <2>1, LenProperties
  <2> QED BY <2>1, <2>2 DEF Tracked, Count
<1>1. m \in Seq(Rows) /\ Len(m) = 1
  OBVIOUS
<1> HIDE DEF m
<1>2. ls \in Seq(Rows) /\ Len(ls) = Len(b.lines) + 1 /\ Drop(ls, i, i + 1) = b.lines
  <2>1. IsPut(ls, Rows, b.lines, i, m, 1)
    BY <1>0, <1>1, PutIs
  <2>2. Drop(ls, i, i + Len(m)) = b.lines
    BY <1>0, <1>1, DropBack
  <2> QED BY <1>1, <2>1, <2>2 DEF IsPut
<1>3. e \in Notes
  BY NoteTypes
<1> HIDE DEF ls
<1>4. TakesBack(e, ls, b)
  <2> SUFFICES ASSUME NEW x \in Buffers, x.lines = ls /\ x.row = b.row
               PROVE  Revert(x, e) = [x EXCEPT !.lines = b.lines]
    BY DEF TakesBack
  <2>1. i < Count(x)
    <3>1. Len(b.lines) \in Nat
      BY <1>0, LenProperties
    <3> QED BY <1>0, <1>2, <3>1 DEF Count
  <2>2. RemoveRow(x, i) = [x EXCEPT !.lines = b.lines]
    BY <1>2, <2>1, TextIs
  <2> QED BY <2>2 DEF Revert
<1>5. TextOf(b, c, ls)
  BY <1>2, <1>3, <1>4, TextNoted
<1>6. InsStep(b, i, s) = c
  <2>1. t \in Buffers /\ t.lines = b.lines /\ Count(t) = Count(b)
    BY <1>3, TrackText
  <2> HIDE DEF t
  <2>2. InsertRows(t, i, m) = [t EXCEPT !.lines = Put(t.lines, i, m)]
    BY <2>1, TextIs
  <2> QED BY <2>1, <2>2 DEF InsStep, t, m, ls
<1> HIDE DEF c
<1>7. Count(c) = Count(b) + 1
  BY <1>0, <1>2, <1>5 DEF TextOf, Count
<1> QED BY <1>5, <1>6, <1>7 DEF ls, m

\* and rows that are deleted, one or a block.
LEMMA BlockNoted ==
    ASSUME NEW b \in Tracked, NEW i \in Nat, NEW j \in Nat, i <= j, j <= Count(b)
    PROVE  /\ [Track(b, "InsBlock", i, SubSeq(b.lines, i + 1, j)) EXCEPT !.lines = Drop(b.lines, i, j)] \in Tracked
           /\ TextOf(b, [Track(b, "InsBlock", i, SubSeq(b.lines, i + 1, j)) EXCEPT !.lines = Drop(b.lines, i, j)],
                     Drop(b.lines, i, j))
           /\ Len(Drop(b.lines, i, j)) = Count(b) - (j - i)
           /\ Track(b, "InsBlock", i, SubSeq(b.lines, i + 1, j)).lines = b.lines
<1> DEFINE m == SubSeq(b.lines, i + 1, j)
           ls == Drop(b.lines, i, j)
           e == [op |-> "InsBlock", n |-> i, what |-> m]
           c == [Track(b, "InsBlock", i, m) EXCEPT !.lines = ls]
<1>0. b \in Buffers /\ b.lines \in Seq(Rows) /\ j \in i .. Len(b.lines) /\ Count(b) = Len(b.lines) /\ Count(b) \in Nat
  <2>1. b.lines \in Seq(Rows)
    BY BufferParts DEF Tracked
  <2>2. Len(b.lines) \in Nat
    BY <2>1, LenProperties
  <2> QED BY <2>1, <2>2 DEF Tracked, Count
<1>1. m \in Seq(Rows) /\ ls \in Seq(Rows) /\ Len(ls) = Count(b) - (j - i) /\ Put(ls, i, m) = b.lines
  <2>1. IsDrop(ls, Rows, b.lines, Len(b.lines), i, j)
    BY <1>0, DropIs
  <2>2. Put(ls, i, m) = b.lines
    BY <1>0, PutBack
  <2>3. m \in Seq(Rows)
    <3> DEFINE R == Rows
               rows == b.lines
               k == i + 1
    <3>1. rows \in Seq(R) /\ k \in 1 .. Len(rows) + 1 /\ j \in 0 .. Len(rows)
      BY <1>0
    <3> HIDE DEF R, rows, k
    <3>2. SubSeq(rows, k, j) \in Seq(R)
      BY <3>1
    <3> QED BY <3>2 DEF R, rows, k
  <2> QED BY <1>0, <2>1, <2>2, <2>3 DEF IsDrop
<1> HIDE DEF m, ls
<1>3. e \in Notes
  BY <1>1, NoteTypes
<1>4. TakesBack(e, ls, b)
  <2> SUFFICES ASSUME NEW x \in Buffers, x.lines = ls /\ x.row = b.row
               PROVE  Revert(x, e) = [x EXCEPT !.lines = b.lines]
    BY DEF TakesBack
  <2>1. i <= Count(x)
    BY <1>0, <1>1 DEF Count
  <2>2. InsertRows(x, i, m) = [x EXCEPT !.lines = b.lines]
    BY <1>1, <2>1, TextIs
  <2> QED BY <2>2 DEF Revert
<1>5. TextOf(b, c, ls)
  BY <1>1, <1>3, <1>4, TextNoted
<1>6. Track(b, "InsBlock", i, m).lines = b.lines
  BY <1>3, TrackText
<1> QED BY <1>1, <1>5, <1>6 DEF TextOf, m, ls


\* One row is a block of one.
LEMMA OneRow ==
    ASSUME NEW S, NEW ls \in Seq(S), NEW i \in 0 .. Len(ls) - 1
    PROVE  SubSeq(ls, i + 1, i + 1) = <<ls[i + 1]>>
<1>1. i + 1 \in 1 .. Len(ls) /\ Len(ls) \in Nat
  OBVIOUS
<1> DEFINE k == i + 1
           u == SubSeq(ls, k, k)
           v == <<ls[k]>>
<1> HIDE DEF k
<1>2. k \in 1 .. Len(ls)
  BY <1>1 DEF k
<1>3. u \in Seq(S) /\ Len(u) = 1 /\ u[1] = ls[k] /\ v \in Seq(S) /\ Len(v) = 1 /\ v[1] = ls[k]
  BY <1>2
<1> HIDE DEF u, v
<1>4. u = v
  <2>1. \A j \in 1 .. Len(u) : u[j] = v[j]
    BY <1>3
  <2> QED BY <1>3, <2>1, SeqEqual
<1> QED BY <1>4 DEF u, v, k

\* A line that is deleted and noted, whichever comes first.
DelStep(b, i) == RemoveRow(Track(b, "InsLine", i, Row(b, i)), i)
\* is put back.
LEMMA DelNoted ==
    ASSUME NEW b \in Tracked, NEW i \in Nat, i < Count(b)
    PROVE  /\ TextOf(b, DelStep(b, i), Drop(b.lines, i, i + 1)) /\ Count(DelStep(b, i)) = Count(b) - 1
           /\ Track(RemoveRow(b, i), "InsLine", i, Row(b, i)) = DelStep(b, i)
<1> DEFINE old == Row(b, i)
           ls == Drop(b.lines, i, i + 1)
           t == Track(b, "InsLine", i, old)
           e == [op |-> "InsLine", n |-> i, what |-> old]
           c == [t EXCEPT !.lines = ls]
<1>0. b \in Buffers /\ b.lines \in Seq(Rows) /\ i \in 0 .. Len(b.lines) - 1 /\ Count(b) = Len(b.lines) /\ Count(b) \in Nat
  <2>1. b.lines \in Seq(Rows)
    BY BufferParts DEF Tracked
  <2>2. Len(b.lines) \in Nat
    BY <2>1, LenProperties
  <2> QED BY <2>1, <2>2 DEF Tracked, Count
<1>1. old \in Rows /\ old = b.lines[i + 1] /\ RemoveRow(b, i) = [b EXCEPT !.lines = ls]
  BY <1>0, TextIs
<1>2. ls \in Seq(Rows) /\ Len(ls) = Count(b) - 1 /\ Put(ls, i, <<old>>) = b.lines
  <2>0. i + 1 \in i .. Len(b.lines) /\ (i + 1) - i = 1
    BY <1>0
  <2>1. IsDrop(ls, Rows, b.lines, Len(b.lines), i, i + 1)
    BY <1>0, <2>0, DropIs
  <2>2. Put(ls, i, SubSeq(b.lines, i + 1, i + 1)) = b.lines
    BY <1>0, <2>0, PutBack
  <2>3. SubSeq(b.lines, i + 1, i + 1) = <<old>>
    BY <1>0, <1>1, OneRow
  <2> QED BY <1>0, <2>0, <2>1, <2>2, <2>3 DEF IsDrop
<1>3. e \in Notes
  BY <1>1, NoteTypes
<1> HIDE DEF ls, old
<1>4. TakesBack(e, ls, b)
  <2> SUFFICES ASSUME NEW x \in Buffers, x.lines = ls /\ x.row = b.row
               PROVE  Revert(x, e) = [x EXCEPT !.lines = b.lines]
    BY DEF TakesBack
  <2>1. i <= Count(x)
    BY <1>0, <1>2 DEF Count
  <2>2. InsertRows(x, i, <<old>>) = [x EXCEPT !.lines = b.lines]
    BY <1>2, <2>1, TextIs
  <2> QED BY <2>2 DEF Revert
<1>5. TextOf(b, c, ls)
  BY <1>2, <1>3, <1>4, TextNoted
<1>6. DelStep(b, i) = c
  <2>1. t \in Buffers /\ t.lines = b.lines /\ Count(t) = Count(b)
    BY <1>3, TrackText
  <2> HIDE DEF t
  <2>2. RemoveRow(t, i) = [t EXCEPT !.lines = Drop(t.lines, i, i + 1)]
    BY <1>0, <2>1, TextIs
  <2> QED BY <2>1, <2>2 DEF DelStep, t, old, ls
<1>7. Track([b EXCEPT !.lines = ls], "InsLine", i, old) = c
  <2> DEFINE d == [b EXCEPT !.lines = ls]
             es == <<e>> \o b.track
  <2>1. Has(b, "Tracking") /\ Has(d, "Tracking") /\ d.track = b.track
    BY DEF Tracked, Buffers, Has
  <2>2. t = [b EXCEPT !.track = es]
    BY <2>1 DEF Track
  <2>3. Track(d, "InsLine", i, old) = [d EXCEPT !.track = <<e>> \o @]
    BY <2>1 DEF Track
  <2>4. Track(d, "InsLine", i, old) = [d EXCEPT !.track = es]
    BY <2>1, <2>3
  <2> HIDE DEF es, t
  <2>5. [d EXCEPT !.track = es] = [[b EXCEPT !.track = es] EXCEPT !.lines = ls]
    BY DEF Tracked, Buffers
  <2> QED BY <2>2, <2>4, <2>5
<1> HIDE DEF c
<1>8. Count(c) = Count(b) - 1
  BY <1>2, <1>5 DEF TextOf, Count
<1> QED BY <1>1, <1>5, <1>6, <1>7, <1>8 DEF ls, old

\* An edit of the line under the cursor, noted as a difference.
LEMMA UpdateNoted ==
    ASSUME NEW b \in Tracked, b.row < Count(b), NEW new \in Rows
    PROVE  TextOf(b, UpdateLine(b, new), [b.lines EXCEPT ![b.row + 1] = new])
<1> DEFINE i == b.row
           old == AbsLine(b)
           ls == [b.lines EXCEPT ![i + 1] = new]
           diff == GenDiff(old, new)
           t == Track(b, "UpdateLine", 0, diff)
           e == [op |-> "UpdateLine", n |-> 0, what |-> diff]
           c == [t EXCEPT !.lines = ls]
<1>0. b \in Buffers /\ b.lines \in Seq(Rows) /\ i \in 0 .. Len(b.lines) - 1 /\ Count(b) = Len(b.lines) /\ i \in Nat
  <2>1. b.lines \in Seq(Rows) /\ b.row \in Nat
    BY BufferParts DEF Tracked
  <2>2. Len(b.lines) \in Nat
    BY <2>1, LenProperties
  <2> QED BY <2>1, <2>2 DEF Tracked, Count
<1>1. old \in Rows /\ old = b.lines[i + 1]
  BY <1>0, TextIs DEF AbsLine
<1>2. ls \in Seq(Rows) /\ Len(ls) = Len(b.lines) /\ ls[i + 1] = new
  <2> DEFINE R == Rows
             rows == b.lines
             k == i + 1
  <2>1. rows \in Seq(R) /\ k \in 1 .. Len(rows) /\ new \in R
    BY <1>0
  <2> HIDE DEF R, rows, k
  <2>2. LET u == [rows EXCEPT ![k] = new] IN u \in Seq(R) /\ Len(u) = Len(rows) /\ u[k] = new
    BY <2>1
  <2> QED BY <2>2 DEF R, rows, k
<1>3. [ls EXCEPT ![i + 1] = old] = b.lines
  <2> DEFINE R == Rows
             rows == b.lines
             k == i + 1
  <2>1. rows \in Seq(R) /\ k \in 1 .. Len(rows) /\ new \in R /\ old = rows[k]
    BY <1>0, <1>1
  <2> HIDE DEF R, rows, k, old
  <2>2. [[rows EXCEPT ![k] = new] EXCEPT ![k] = old] = rows
    <3> DEFINE w == [[rows EXCEPT ![k] = new] EXCEPT ![k] = old]
    <3>1. old \in R
      BY <2>1
    <3>2. w \in Seq(R) /\ Len(w) = Len(rows) /\ \A j \in 1 .. Len(w) : w[j] = rows[j]
      BY <2>1, <3>1
    <3> HIDE DEF w
    <3>3. w = rows
      BY <2>1, <3>2, SeqEqual
    <3> QED BY <3>3 DEF w
  <2> QED BY <2>2 DEF rows, k
<1>4. ApplyDiff(diff, new, "undo") = old
  <2>1. Nul \notin Letters
    BY BufferAssumption DEF Letters, Nul, Blank
  <2> QED BY <1>1, <2>1, DiffIsExact DEF Rows
<1>5. e \in Notes
  BY <1>1, NoteTypes
<1>6. TextOf(b, b, b.lines)
  <2>1. Noted(b, b) /\ Edited(b, b)
    BY NotedSelf DEF Edited
  <2> QED BY <2>1 DEF TextOf
<1>7. CASE new = old
  <2>1. ls = b.lines
    BY <1>0, <1>1, <1>7
  <2>2. UpdateLine(b, new) = b
    BY <1>7 DEF UpdateLine
  <2> QED BY <1>6, <2>1, <2>2
<1>8. CASE new # old
  <2> HIDE DEF ls, old, diff
  <2>1. TakesBack(e, ls, b)
    <3> SUFFICES ASSUME NEW x \in Buffers, x.lines = ls /\ x.row = b.row
                 PROVE  Revert(x, e) = [x EXCEPT !.lines = b.lines]
      BY DEF TakesBack
    <3>1. i < Count(x) /\ x.row = i
      BY <1>0, <1>2 DEF Count
    <3>2. AbsLine(x) = new
      BY <1>0, <1>2, <3>1, TextIs DEF AbsLine
    <3>3. Revert(x, e) = SetLine(x, i, ApplyDiff(diff, new, "undo"))
      BY <3>1, <3>2 DEF Revert
    <3>4. SetLine(x, i, old) = [x EXCEPT !.lines = [x.lines EXCEPT ![i + 1] = old]]
      BY <1>0, <3>1, TextIs
    <3> QED BY <1>3, <1>4, <3>3, <3>4
  <2>2. TextOf(b, c, ls)
    BY <1>2, <1>5, <2>1, TextNoted
  <2>3. UpdateLine(b, new) = SetLine(t, i, new)
    BY <1>8 DEF UpdateLine, old, diff
  <2>4. SetLine(t, i, new) = c
    <3>1. t \in Buffers /\ t.lines = b.lines /\ Count(t) = Count(b)
      BY <1>5, TrackText
    <3>2. i \in Nat /\ i < Count(t)
      BY <1>0, <3>1
    <3> HIDE DEF t, i
    <3>3. SetLine(t, i, new) = [t EXCEPT !.lines = [t.lines EXCEPT ![i + 1] = new]]
      BY <3>1, <3>2, TextIs
    <3> QED BY <3>1, <3>3 DEF t, i, ls
  <2> QED BY <2>2, <2>3, <2>4 DEF ls
<1> QED BY <1>7, <1>8

-----------------------------------------------------------------------------
(***************************************************************************)
(* What methods do.  The cursor goes elsewhere; the text is edited, which  *)
(* may take the mark away; a command runs, after which nothing is wrong    *)
(* that was not wrong before: no line was used that does not exist, and    *)
(* the mark, if commands that mark are bound at all, is in the text.       *)
(***************************************************************************)
CanMark  == Commands \cap {"Mark", "MouseShift"} # {}
Sound(b) == ~b.trap /\ (Marked(b) => CanMark /\ b.mrow < Count(b))

Good == {b \in Tracked : b.row < Count(b)}
Goes(b, c)  == c \in Good /\ Noted(b, c) /\ Moved(b, c)
Makes(b, c) == c \in Good /\ Noted(b, c) /\ c.trap = b.trap /\ (Marked(c) => Marked(b))
Turns(b, c) == c \in Good /\ Noted(b, c) /\ (Sound(b) => Sound(c))
\* what commands are made of; the saved flag is off where the text or its newlines are others
Acts(b, c)   == Turns(b, c) /\ Owns(b, c)
Writes(b, c) == Turns(b, c) /\ Dirties(b, c)

\* What is where in a buffer.
LEMMA GoodParts ==
    ASSUME NEW b \in Good
    PROVE  /\ b \in Tracked /\ b \in Buffers /\ b.lines \in Seq(Rows) /\ Count(b) = Len(b.lines) /\ Count(b) \in Nat
           /\ b.row \in 0 .. Count(b) - 1 /\ b.row \in Nat /\ b.col \in Nat /\ b.mrow \in Nat /\ b.mcol \in Nat
           /\ AbsLine(b) \in Rows /\ Len(AbsLine(b)) \in Nat
<1>1. b \in Tracked /\ b \in Buffers /\ b.row < Count(b)
  BY DEF Good, Tracked
<1>2. b.lines \in Seq(Rows) /\ b.row \in Nat /\ b.col \in Nat /\ b.mrow \in Nat /\ b.mcol \in Nat
  BY <1>1, BufferParts
<1>3. Count(b) \in Nat
  BY <1>1, <1>2, TextIs
<1>4. AbsLine(b) \in Rows
  BY <1>1, <1>2, TextIs DEF AbsLine
<1>5. Len(AbsLine(b)) \in Nat
  BY <1>4, LenProperties DEF Rows
<1>6. b.row \in 0 .. Count(b) - 1
  BY <1>1, <1>2, <1>3
<1> QED BY <1>1, <1>2, <1>3, <1>4, <1>5, <1>6 DEF Count

\* Doing nothing is doing any of it,
LEMMA NothingDone == ASSUME NEW b \in Good PROVE Goes(b, b) /\ Makes(b, b) /\ Turns(b, b)
<1>1. Noted(b, b) /\ Moved(b, b)
  BY NotedSelf, GoodParts DEF Moved
<1> QED BY <1>1 DEF Goes, Makes, Turns

\* and one after the other is doing it, too.
LEMMA GoesOn ==
    ASSUME NEW a \in Good, NEW b, NEW c, Goes(a, b), Goes(b, c) PROVE Goes(a, c)
<1>1. Noted(a, c)
  BY NotedOn, GoodParts DEF Goes
<1>2. Moved(a, c)
  BY DEF Goes, Moved
<1> QED BY <1>1, <1>2 DEF Goes
\* The same of edits,
LEMMA MakesOn ==
    ASSUME NEW a \in Good, NEW b, NEW c, Makes(a, b), Makes(b, c) PROVE Makes(a, c)
<1>1. Noted(a, c)
  BY NotedOn, GoodParts DEF Makes
<1> QED BY <1>1 DEF Makes
\* and of what commands are made of.
LEMMA TurnsOn ==
    ASSUME NEW a \in Good, NEW b, NEW c, Turns(a, b), Turns(b, c) PROVE Turns(a, c)
<1>1. Noted(a, c)
  BY NotedOn, GoodParts DEF Turns
<1> QED BY <1>1 DEF Turns

\* A move is an edit and a command; an edit is a command when nothing is marked.
LEMMA MovesAre == ASSUME NEW b \in Good, NEW c, Goes(b, c) PROVE Makes(b, c) /\ Turns(b, c) /\ Count(c) = Count(b)
<1>1. c.trap = b.trap /\ (Marked(c) <=> Marked(b)) /\ c.mrow = b.mrow /\ Count(c) = Count(b)
  BY DEF Goes, Moved, Marked, Has, Count
<1> QED BY <1>1 DEF Goes, Makes, Turns, Sound
\* Without a mark an edit can always be part of a command.
LEMMA EditsAre == ASSUME NEW b \in Good, NEW c, Makes(b, c), ~Marked(b) PROVE Turns(b, c) /\ ~Marked(c)
  BY DEF Makes, Turns, Sound

\* A move leaves what is saved alone.
LEMMA MovesAct == ASSUME NEW b \in Good, NEW c, Goes(b, c) PROVE Acts(b, c)
<1>1. Same(b, c)
  BY DEF Goes, Moved, Same, Has
<1> QED BY <1>1, MovesAre DEF Acts, Owns
\* Commands are made of what commands are made of.
LEMMA ActsOn == ASSUME NEW a \in Good, NEW b, NEW c, Acts(a, b), Acts(b, c) PROVE Acts(a, c)
<1>1. a \in Tracked /\ b \in Tracked /\ Noted(a, b) /\ Noted(b, c)
  BY DEF Acts, Turns, Good
<1>2. Owns(a, c)
  BY <1>1, OwnsOn DEF Acts
<1> QED BY <1>2, TurnsOn DEF Acts
\* If one of them writes, all do.
LEMMA WritesOn ==
    ASSUME NEW a \in Good, NEW b, NEW c, Turns(a, b), Turns(b, c), Writes(a, b) \/ Writes(b, c)
    PROVE  Writes(a, c)
<1>1. a \in Tracked /\ b \in Tracked /\ Noted(a, b) /\ Noted(b, c)
  BY DEF Turns, Good
<1>2. Dirties(a, c)
  BY <1>1, DirtiesOn DEF Writes
<1> QED BY <1>2, TurnsOn DEF Writes
\* Writing is acting.
LEMMA WritesAct == ASSUME NEW b, NEW c, Writes(b, c) PROVE Acts(b, c)
  BY DEF Writes, Acts, Owns

\* A change of the text that leaves the cursor in it; it disturbs no mark unless the text gets shorter.
LEMMA TextMade ==
    ASSUME NEW b \in Good, NEW c, NEW ls, TextOf(b, c, ls), b.row < Len(ls)
    PROVE  Makes(b, c) /\ c.row = b.row /\ c.col = b.col /\ Count(c) = Len(ls) /\ (Len(ls) >= Count(b) => Turns(b, c))
<1>1. c \in Tracked /\ Noted(b, c) /\ c.row = b.row /\ c.col = b.col /\ c.mrow = b.mrow /\ c.flags = b.flags
      /\ c.trap = b.trap /\ Count(c) = Len(ls)
  BY DEF TextOf, Edited, Count
<1>2. c \in Good /\ (Marked(c) <=> Marked(b))
  BY <1>1 DEF Good, Marked, Has
<1>3. ASSUME Len(ls) >= Count(b), Sound(b) PROVE Sound(c)
  <2>1. b.mrow \in Nat /\ Count(b) \in Nat /\ Count(c) \in Nat
    BY <1>2, GoodParts
  <2>2. Marked(b) => b.mrow < Count(c)
    BY <1>1, <1>3, <2>1 DEF Sound
  <2> QED BY <1>1, <1>2, <1>3, <2>2 DEF Sound
<1> QED BY <1>1, <1>2, <1>3 DEF Makes, Turns

\* A change of flags.
LEMMA FlagMade ==
    ASSUME NEW b \in Good, NEW c, c \in Tracked, Noted(b, c), Flagged(b, c)
    PROVE  /\ (Marked(c) => Marked(b)) => Makes(b, c)
           /\ Kept(b, c) => Turns(b, c)
           /\ c.row = b.row /\ c.col = b.col /\ c.lines = b.lines /\ Count(c) = Count(b)
<1>1. c.row = b.row /\ c.col = b.col /\ c.lines = b.lines /\ Count(c) = Count(b) /\ c.trap = b.trap
  BY DEF Flagged, Count
<1>2. c \in Good
  BY <1>1 DEF Good
<1>3. Kept(b, c) => (Sound(b) => Sound(c))
  BY <1>1 DEF Kept, Sound
<1> QED BY <1>1, <1>2, <1>3 DEF Makes, Turns

\* The flags, as methods.
LEMMA FlagMethods ==
    ASSUME NEW b \in Good
    PROVE  /\ \A on \in BOOLEAN : LET c == SetChanged(b, on)
                                  IN /\ Makes(b, c) /\ Turns(b, c) /\ Flagged(b, c) /\ Kept(b, c) /\ Count(c) = Count(b)
                                     /\ on => Dirties(b, c)
           /\ LET c == Unmark(b) IN Makes(b, c) /\ Turns(b, c) /\ Flagged(b, c) /\ ~Marked(c) /\ Count(c) = Count(b)
           /\ LET c == Modified(b) IN Makes(b, c) /\ Turns(b, c) /\ Flagged(b, c) /\ ~Marked(c) /\ Count(c) = Count(b)
           /\ Dirties(b, Modified(b)) /\ Same(b, Unmark(b))
<1>0. b \in Tracked
  BY GoodParts
<1>1. ASSUME NEW on \in BOOLEAN
      PROVE  LET c == SetChanged(b, on) IN /\ Makes(b, c) /\ Turns(b, c) /\ Flagged(b, c) /\ Kept(b, c) /\ Count(c) = Count(b)
                                           /\ on => Dirties(b, c)
  <2> DEFINE c == SetChanged(b, on)
  <2>1. c \in Tracked /\ Noted(b, c) /\ Flagged(b, c) /\ Kept(b, c) /\ (on => Dirties(b, c))
    BY <1>0, SetChangedNoted
  <2> HIDE DEF c
  <2>2. Marked(c) => Marked(b)
    BY <2>1 DEF Kept
  <2>3. Makes(b, c) /\ Turns(b, c) /\ Count(c) = Count(b)
    BY <2>1, <2>2, FlagMade
  <2> QED BY <2>1, <2>3 DEF c
<1>2. ASSUME NEW c, c \in Tracked, Noted(b, c), Flagged(b, c), ~Marked(c)
      PROVE  Makes(b, c) /\ Turns(b, c) /\ Flagged(b, c) /\ ~Marked(c) /\ Count(c) = Count(b)
  <2>1. Makes(b, c) /\ Count(c) = Count(b)
    BY <1>2, FlagMade
  <2>2. Turns(b, c)
    BY <1>2, <2>1 DEF Makes, Turns, Sound
  <2> QED BY <1>2, <2>1, <2>2
<1>3. LET c == Unmark(b) IN Makes(b, c) /\ Turns(b, c) /\ Flagged(b, c) /\ ~Marked(c) /\ Count(c) = Count(b)
  BY <1>0, <1>2, UnmarkNoted
<1>4. LET c == Modified(b) IN Makes(b, c) /\ Turns(b, c) /\ Flagged(b, c) /\ ~Marked(c) /\ Count(c) = Count(b)
  BY <1>0, <1>2, ModifiedNoted
<1>5. Dirties(b, Modified(b))
  BY <1>0, ModifiedNoted
<1>6. Same(b, Unmark(b))
  BY <1>0, UnmarkNoted DEF Same, Flagged, Has
<1> QED BY <1>1, <1>3, <1>4, <1>5, <1>6

-----------------------------------------------------------------------------
(***************************************************************************)
(* The cursor methods.                                                     *)
(***************************************************************************)
\* The cursor goes to a row of the text, noted always or only when it is another,
LEMMA RowGoes ==
    ASSUME NEW b \in Good, NEW r \in 0 .. Count(b) - 1
    PROVE  /\ Goes(b, SetRow(b, r)) /\ SetRow(b, r).row = r /\ SetRow(b, r).col = b.col
           /\ Goes(b, MoveRow(b, r)) /\ MoveRow(b, r).row = r /\ MoveRow(b, r).col = b.col
<1> DEFINE c == SetRow(b, r)
<1>0. b \in Tracked /\ r \in Nat /\ r < Count(b)
  BY GoodParts
<1>1. c \in Tracked /\ Noted(b, c) /\ Moved(b, c) /\ c.row = r /\ c.col = b.col
  BY <1>0, SetRowNoted
<1> HIDE DEF c
<1>2. Goes(b, c)
  BY <1>0, <1>1 DEF Goes, Good, Moved, Count
<1>3. MoveRow(b, r) = IF r = b.row THEN b ELSE c
  BY DEF MoveRow, c
<1>4. Goes(b, b)
  BY NothingDone
<1> QED BY <1>1, <1>2, <1>3, <1>4 DEF c
\* to a column, of the text or behind the end of the line,
LEMMA ColGoes ==
    ASSUME NEW b \in Good, NEW k \in Nat
    PROVE  /\ Goes(b, SetCol(b, k)) /\ SetCol(b, k).col = k /\ SetCol(b, k).row = b.row
           /\ Goes(b, MoveCol(b, k)) /\ MoveCol(b, k).col = k /\ MoveCol(b, k).row = b.row
<1> DEFINE c == SetCol(b, k)
<1>0. b \in Tracked /\ b.row < Count(b)
  BY DEF Good
<1>1. c \in Tracked /\ Noted(b, c) /\ Moved(b, c) /\ c.row = b.row /\ c.col = k
  BY <1>0, SetColNoted
<1> HIDE DEF c
<1>2. Goes(b, c)
  BY <1>0, <1>1 DEF Goes, Good, Moved, Count
<1>3. MoveCol(b, k) = IF k = b.col THEN b ELSE c
  BY DEF MoveCol, c
<1>4. Goes(b, b)
  BY NothingDone
<1> QED BY <1>1, <1>2, <1>3, <1>4 DEF c
\* to where it is told if that is possible,
LEMMA GotoGoes ==
    ASSUME NEW b \in Good, NEW n \in Int
    PROVE  /\ Goes(b, GotoLine(b, n)) /\ GotoLine(b, n).col = b.col
           /\ n \in 0 .. Count(b) - 1 => GotoLine(b, n).row = n
           /\ n \notin 0 .. Count(b) - 1 => GotoLine(b, n) = b
           /\ Goes(b, GotoCol(b, n)) /\ GotoCol(b, n).row = b.row
<1>1. Goes(b, b)
  BY NothingDone
<1>2. n \in 0 .. Count(b) - 1 => /\ Goes(b, GotoLine(b, n)) /\ GotoLine(b, n).col = b.col
                                 /\ GotoLine(b, n).row = n
  BY RowGoes DEF GotoLine
<1>3. n \notin 0 .. Count(b) - 1 => GotoLine(b, n) = b
  BY DEF GotoLine
<1>4. n >= 0 => n \in Nat
  OBVIOUS
<1>5. Goes(b, GotoCol(b, n)) /\ GotoCol(b, n).row = b.row
  BY <1>1, <1>4, ColGoes DEF GotoCol
<1> QED BY <1>1, <1>2, <1>3, <1>5
\* one step or a page,
LEMMA StepGoes ==
    ASSUME NEW b \in Good, NEW n \in Int
    PROVE  /\ Goes(b, CursorUp(b)) /\ Goes(b, CursorDown(b)) /\ Goes(b, CursorLeft(b, n)) /\ Goes(b, CursorRight(b, n))
           /\ Goes(b, PageUp(b)) /\ Goes(b, PageDown(b)) /\ Goes(b, LineBegin(b))
           /\ CursorUp(b).col = b.col /\ CursorDown(b).col = b.col
           /\ CursorLeft(b, n).row = b.row /\ CursorRight(b, n).row = b.row
<1>0. /\ b.row \in Nat /\ Count(b) \in Nat /\ b.row < Count(b) /\ b.col \in Nat /\ PageRows \in Nat \ {0}
      /\ Goes(b, b)
  BY GoodParts, NothingDone, BufferAssumption DEF Good
<1>1. /\ Larger(b.row - 1, 0) \in 0 .. Count(b) - 1 /\ Smaller(b.row + 1, Count(b) - 1) \in 0 .. Count(b) - 1
      /\ Larger(b.row - (PageRows - 1), 0) \in 0 .. Count(b) - 1
      /\ Smaller(b.row + (PageRows - 1), Count(b) - 1) \in 0 .. Count(b) - 1
  BY <1>0 DEF Larger, Smaller
<1>2. Larger(b.col - n, 0) \in Nat /\ (~(n <= 0) => b.col + n \in Nat) /\ 0 \in Nat
  BY <1>0 DEF Larger
<1>3. Goes(b, CursorUp(b)) /\ CursorUp(b).col = b.col
  BY <1>1, RowGoes DEF CursorUp
<1>4. Goes(b, CursorDown(b)) /\ CursorDown(b).col = b.col
  BY <1>1, RowGoes DEF CursorDown
<1>5. Goes(b, PageUp(b)) /\ Goes(b, PageDown(b))
  BY <1>1, RowGoes DEF PageUp, PageDown
<1>6. Goes(b, CursorLeft(b, n)) /\ CursorLeft(b, n).row = b.row
  BY <1>0, <1>2, ColGoes DEF CursorLeft
<1>7. Goes(b, CursorRight(b, n)) /\ CursorRight(b, n).row = b.row
  BY <1>0, <1>2, ColGoes DEF CursorRight
<1>8. Goes(b, LineBegin(b))
  BY <1>2, ColGoes DEF LineBegin
<1> QED BY <1>3, <1>4, <1>5, <1>6, <1>7, <1>8

-----------------------------------------------------------------------------
(***************************************************************************)
(* Lines: what is looked for in them is found, and what is made of them    *)
(* are lines.                                                              *)
(***************************************************************************)
\* The last place that stops the way back to the beginning of the line,
LEMMA LastStop ==
    ASSUME NEW c \in Nat, NEW D
    PROVE  \E k \in 0 .. c : (k = 0 \/ k \in D) /\ \A j \in k + 1 .. c : j \notin D
<1> DEFINE T == {n \in 0 .. c : n = c \/ c - n \in D}
<1>1. T \in SUBSET Nat /\ T # {}
  <2>1. c \in T
    OBVIOUS
  <2> QED BY <2>1
<1>2. PICK n \in T : \A m \in T : n <= m
  BY <1>1, LogFold!Least
<1> DEFINE k == c - n
<1>3. n \in 0 .. c /\ (n = c \/ c - n \in D)
  BY <1>2
<1>4. k \in 0 .. c /\ (k = 0 \/ k \in D)
  BY <1>3
<1>5. ASSUME NEW j \in k + 1 .. c, j \in D PROVE FALSE
  <2>1. c - j \in 0 .. c /\ c - (c - j) = j /\ c - j < n
    BY <1>3
  <2>2. c - j \in T
    BY <1>5, <2>1
  <2>3. n <= c - j
    BY <1>2, <2>2
  <2> QED BY <1>3, <2>1, <2>3
<1> QED BY <1>4, <1>5
\* and the first one the way on to its end.
LEMMA FirstStop ==
    ASSUME NEW c \in Nat, NEW limit \in Nat, NEW D
    PROVE  \E k \in c .. Larger(c, limit) : (k >= limit \/ k \in D) /\ \A j \in c .. k - 1 : j \notin D
<1> DEFINE l == Larger(c, limit)
<1>0. l \in Nat /\ c <= l /\ limit <= l
  BY DEF Larger
<1> HIDE DEF l
<1> DEFINE T == {k \in c .. l : k >= limit \/ k \in D}
<1>1. T \in SUBSET Nat /\ T # {}
  <2>1. l \in T
    BY <1>0
  <2> QED BY <1>0, <2>1
<1>2. PICK k \in T : \A m \in T : k <= m
  BY <1>1, LogFold!Least
<1>3. k \in c .. l /\ (k >= limit \/ k \in D)
  BY <1>2
<1>4. ASSUME NEW j \in c .. k - 1, j \in D PROVE FALSE
  <2>1. j \in T
    BY <1>0, <1>3, <1>4
  <2>2. k <= j
    BY <1>2, <2>1
  <2> QED BY <1>3, <2>2
<1> QED BY <1>3, <1>4 DEF l

\* The indent of a line and its length without the blanks that end it.
LEMMA LineMeasures ==
    ASSUME NEW S, NEW s \in Seq(S)
    PROVE  TrimmedLen(s) \in 0 .. Len(s) /\ IndentOffset(s) \in 0 .. Len(s)
<1> DEFINE n == Len(s)
           D == {i \in 1 .. n : s[i] # Blank}
           E == {k \in 0 .. n - 1 : s[k + 1] # Blank}
<1>0. n \in Nat
  BY LenProperties
<1>1. \E k \in 0 .. n : (\A i \in k + 1 .. n : s[i] = Blank) /\ (k > 0 => s[k] # Blank)
  <2>1. PICK k \in 0 .. n : (k = 0 \/ k \in D) /\ \A j \in k + 1 .. n : j \notin D
    BY <1>0, LastStop
  <2>2. (\A i \in k + 1 .. n : s[i] = Blank) /\ (k > 0 => s[k] # Blank)
    BY <1>0, <2>1
  <2> QED BY <2>2
<1>2. \E k \in 0 .. n : (\A i \in 1 .. k : s[i] = Blank) /\ (k < n => s[k + 1] # Blank)
  <2>0. 0 \in Nat
    OBVIOUS
  <2>1. PICK k \in 0 .. Larger(0, n) : (k >= n \/ k \in E) /\ \A j \in 0 .. k - 1 : j \notin E
    <3> HIDE DEF E, n
    <3> QED BY <1>0, <2>0, FirstStop, Zenon
  <2>2. k \in 0 .. n
    BY <1>0 DEF Larger
  <2>3. ASSUME NEW i \in 1 .. k PROVE s[i] = Blank
    <3>1. i - 1 \in 0 .. k - 1 /\ i - 1 \in 0 .. n - 1 /\ (i - 1) + 1 = i
      BY <1>0, <2>2
    <3> QED BY <2>1, <3>1
  <2>4. k < n => s[k + 1] # Blank
    BY <1>0, <2>1, <2>2
  <2> QED BY <2>2, <2>3, <2>4
<1>3. TrimmedLen(s) \in 0 .. n
  BY <1>1 DEF TrimmedLen
<1>4. IndentOffset(s) \in 0 .. n
  BY <1>2 DEF IndentOffset
<1> QED BY <1>3, <1>4


\* A part of a line,
LEMMA PartType ==
    ASSUME NEW S, NEW s \in Seq(S), NEW m \in Nat \ {0}, NEW n \in Int, n <= Len(s)
    PROVE  SubSeq(s, m, n) \in Seq(S)
<1>1. \A i \in m .. n : s[i] \in S
  <2>1. Len(s) \in Nat
    BY LenProperties
  <2>2. \A i \in m .. n : i \in 1 .. Len(s)
    BY <2>1
  <2> QED BY <2>2, ElementOfSeq
<1> QED BY <1>1, SubSeqProperties
\* a row of blanks,
LEMMA BlanksType ==
    ASSUME NEW S, Blank \in S, NEW n \in Int
    PROVE  Blanks(n) \in Seq(S) /\ Len(Blanks(n)) = Larger(n, 0)
<1>1. Larger(n, 0) \in Nat
  BY DEF Larger
<1> QED BY <1>1 DEF Blanks
\* a line with blanks up to a column,
LEMMA PadType ==
    ASSUME NEW S, Blank \in S, NEW s \in Seq(S), NEW n \in Int
    PROVE  Pad(s, n) \in Seq(S) /\ Len(Pad(s, n)) = Larger(Len(s), n)
<1> DEFINE k == n - Len(s)
           w == Blanks(k)
<1>0. Len(s) \in Nat /\ k \in Int
  BY LenProperties
<1> HIDE DEF k
<1>1. w \in Seq(S) /\ Len(w) = Larger(k, 0)
  BY <1>0, BlanksType
<1> HIDE DEF w
<1>2. s \o w \in Seq(S) /\ Len(s \o w) = Len(s) + Len(w)
  BY <1>1
<1>3. Len(s) + Larger(k, 0) = Larger(Len(s), n)
  BY <1>0 DEF k, Larger
<1> QED BY <1>1, <1>2, <1>3 DEF Pad, w, k
\* a line with more characters,
LEMMA InsCharsType ==
    ASSUME NEW S, Blank \in S, NEW s \in Seq(S), NEW pos \in Int, NEW cs \in Seq(S)
    PROVE  InsChars(s, pos, cs) \in Seq(S)
<1>1. CASE pos < 0 \/ cs = <<>>
  BY <1>1 DEF InsChars
<1>2. CASE ~(pos < 0 \/ cs = <<>>)
  <2> DEFINE t == Pad(s, pos)
             x == SubSeq(t, 1, pos)
             z == SubSeq(t, pos + 1, Len(t))
  <2>1. t \in Seq(S) /\ Len(t) = Larger(Len(s), pos)
    BY PadType
  <2> HIDE DEF t
  <2>2. Len(s) \in Nat /\ Len(t) \in Nat
    BY <2>1, LenProperties
  <2>3. pos <= Len(t) /\ pos + 1 \in Nat \ {0} /\ 1 \in Nat \ {0} /\ Len(t) <= Len(t) /\ Len(t) \in Int
    BY <1>2, <2>1, <2>2 DEF Larger
  <2>4. x \in Seq(S) /\ z \in Seq(S)
    BY <2>1, <2>3, PartType
  <2> HIDE DEF x, z
  <2>5. x \o cs \o z \in Seq(S)
    BY <2>4
  <2> QED BY <1>2, <2>5 DEF InsChars, t, x, z
<1> QED BY <1>1, <1>2
\* or fewer of them,
LEMMA DelCharsType ==
    ASSUME NEW S, NEW s \in Seq(S), NEW pos \in Int, NEW num \in Int
    PROVE  DelChars(s, pos, num) \in Seq(S)
<1>1. CASE pos < 0 \/ num <= 0 \/ pos >= Len(s)
  BY <1>1 DEF DelChars
<1>2. CASE ~(pos < 0 \/ num <= 0 \/ pos >= Len(s))
  <2> DEFINE x == SubSeq(s, 1, pos)
             z == SubSeq(s, pos + num + 1, Len(s))
  <2>1. Len(s) \in Nat
    BY LenProperties
  <2>2. pos <= Len(s) /\ pos + num + 1 \in Nat \ {0} /\ 1 \in Nat \ {0} /\ Len(s) <= Len(s) /\ Len(s) \in Int
    BY <1>2, <2>1
  <2>3. x \in Seq(S) /\ z \in Seq(S)
    BY <2>2, PartType
  <2> HIDE DEF x, z
  <2>4. x \o z \in Seq(S)
    BY <2>3
  <2> QED BY <1>2, <2>4 DEF DelChars, x, z
<1> QED BY <1>1, <1>2
\* the rest of a line,
LEMMA TailFromType ==
    ASSUME NEW S, NEW s \in Seq(S), NEW pos \in Int
    PROVE  TailFrom(s, pos) \in Seq(S)
<1>1. Len(s) \in Nat
  BY LenProperties
<1>2. Smaller(pos, Len(s)) \in Int /\ 0 \in Int
  BY <1>1 DEF Smaller
<1> QED BY <1>2, DelCharsType DEF TailFrom
\* a block of a line.
LEMMA ExtractType ==
    ASSUME NEW S, Blank \in S, NEW s \in Seq(S), NEW start \in Nat, NEW width \in Int
    PROVE  Extract(s, start, width) \in Seq(S)
<1>0. Len(s) \in Nat
  BY LenProperties
<1> DEFINE n == Smaller(start + width, Len(s))
           x == SubSeq(s, start + 1, n)
           f == Fill(Len(x), start + width - n)
           y == x \o Blanks(f)
<1>1. n \in Int /\ n <= Len(s) /\ start + 1 \in Nat \ {0}
  BY <1>0 DEF Smaller
<1>2. x \in Seq(S) /\ Len(x) \in Nat
  BY <1>1, PartType, LenProperties
<1>3. f \in Int
  <2> DEFINE l == Len(x)
             room == start + width - n
  <2>1. room \in Int /\ l \in Nat
    BY <1>1, <1>2
  <2> HIDE DEF room, l
  <2>2. l % TabWidth \in Int
    BY <2>1, BufferAssumption
  <2>3. Fill(l, room) \in Int
    BY <2>1, <2>2 DEF Fill
  <2> QED BY <2>3 DEF l, room
<1> HIDE DEF x, f, n
<1>4. Blanks(f) \in Seq(S)
  BY <1>3, BlanksType
<1>5. Pad(x, width) \in Seq(S) /\ y \in Seq(S)
  BY <1>2, <1>4, PadType
<1>6. <<>> \in Seq(S)
  OBVIOUS
<1>7. Extract(s, start, width) = IF width <= 0 THEN <<>> ELSE IF start % TabWidth # 0 THEN Pad(x, width) ELSE y
  BY Zenon DEF Extract, n, x, f, y
<1> HIDE DEF y
<1> QED BY <1>5, <1>6, <1>7


\* The cursor goes to an end of the line or of the text, or to where the mouse is,
LEMMA EndGoes ==
    ASSUME NEW b \in Good, NEW r \in Nat, NEW k \in Nat
    PROVE  /\ Goes(b, LineEnd(b)) /\ LineEnd(b).row = b.row
           /\ Goes(b, TextBegin(b)) /\ Goes(b, TextEnd(b)) /\ Goes(b, PutMouse(b, r, k))
<1>0. /\ b.row \in Nat /\ Count(b) \in Nat /\ b.row < Count(b) /\ b.col \in Nat /\ b \in Good
      /\ 0 \in 0 .. Count(b) - 1 /\ Count(b) - 1 \in 0 .. Count(b) - 1 /\ Smaller(r, Count(b) - 1) \in 0 .. Count(b) - 1
  BY GoodParts DEF Good, Smaller
<1>1. ASSUME NEW c \in Good PROVE Goes(c, LineEnd(c)) /\ LineEnd(c).row = c.row
  <2>1. AbsLine(c) \in Rows /\ Len(AbsLine(c)) \in Nat
    BY GoodParts
  <2>2. TrimmedLen(AbsLine(c)) \in Nat
    BY <2>1, LineMeasures DEF Rows
  <2> QED BY <2>2, ColGoes DEF LineEnd
<1>2. Goes(b, TextBegin(b))
  <2> DEFINE c == MoveRow(b, 0)
  <2>1. Goes(b, c)
    BY <1>0, RowGoes
  <2> HIDE DEF c
  <2>2. Goes(c, MoveCol(c, 0))
    BY <2>1, ColGoes DEF Goes
  <2>3. Goes(b, MoveCol(c, 0))
    BY <2>1, <2>2, GoesOn
  <2> QED BY <2>3 DEF TextBegin, c
<1>3. Goes(b, TextEnd(b))
  <2> DEFINE c == MoveRow(b, Count(b) - 1)
  <2>1. Goes(b, c)
    BY <1>0, RowGoes
  <2> HIDE DEF c
  <2>2. Goes(c, LineEnd(c))
    BY <1>1, <2>1 DEF Goes
  <2>3. Goes(b, LineEnd(c))
    BY <2>1, <2>2, GoesOn
  <2> QED BY <2>3 DEF TextEnd, c
<1>4. Goes(b, PutMouse(b, r, k))
  <2> DEFINE c == SetRow(b, Smaller(r, Count(b) - 1))
  <2>1. Goes(b, c)
    BY <1>0, RowGoes
  <2> HIDE DEF c
  <2>2. Goes(c, SetCol(c, k))
    BY <2>1, ColGoes DEF Goes
  <2>3. Goes(b, SetCol(c, k))
    BY <2>1, <2>2, GoesOn
  <2> QED BY <2>3 DEF PutMouse, c
<1> QED BY <1>0, <1>1, <1>2, <1>3, <1>4

\* a word to the left
LEMMA WordLeftGoes == ASSUME NEW b \in Good PROVE Goes(b, WordLeft(b))
<1> DEFINE At(k)     == CharAt(AbsLine(b), k)
           Delim(k)  == IsDelim(At(k))
           Text(k)   == At(k) # Nul
           Soft(k)   == ~Text(k) \/ Delim(k)
           Word(k)   == Text(k) /\ ~Delim(k)
           Gap(k)    == ~Delim(k)
           ToDelim(n) == Back(n, Delim)
           ToText(n)  == Back(n, Text)
           ToGap(n)   == Back(n, Gap)
           onto      == LET k == ToDelim(IF Soft(b.col) THEN b.col - 1 ELSE b.col)
                        IN IF Delim(k) /\ k # b.col THEN k + 1 ELSE k
           over      == LET from == IF Soft(b.col) THEN b.col ELSE b.col - 1
                            k    == ToGap(ToText(from))
                        IN IF Word(k) /\ k # b.col THEN k + 1 ELSE k
           u         == CursorUp(b)
           c         == IF u.row # b.row THEN LineEnd(u) ELSE u
<1>0. b.col \in Nat
  BY GoodParts
<1>1. ASSUME NEW n \in Nat PROVE ToDelim(n) \in 0 .. n
  <2> DEFINE D == {k \in 0 .. n : Delim(k)}
  <2>1. \E k \in 0 .. n : (k = 0 \/ k \in D) /\ \A j \in k + 1 .. n : j \notin D
    <3> HIDE DEF D
    <3> QED BY LastStop
  <2>2. \E k \in 0 .. n : (k = 0 \/ Delim(k)) /\ \A j \in k + 1 .. n : ~Delim(j)
    BY <2>1
  <2> QED BY <2>2 DEF Back
<1>2. ASSUME NEW n \in Nat PROVE ToText(n) \in 0 .. n
  <2> DEFINE D == {k \in 0 .. n : Text(k)}
  <2>1. \E k \in 0 .. n : (k = 0 \/ k \in D) /\ \A j \in k + 1 .. n : j \notin D
    <3> HIDE DEF D
    <3> QED BY LastStop
  <2>2. \E k \in 0 .. n : (k = 0 \/ Text(k)) /\ \A j \in k + 1 .. n : ~Text(j)
    BY <2>1
  <2> QED BY <2>2 DEF Back
<1>3. ASSUME NEW n \in Nat PROVE ToGap(n) \in 0 .. n
  <2> DEFINE D == {k \in 0 .. n : Gap(k)}
  <2>1. \E k \in 0 .. n : (k = 0 \/ k \in D) /\ \A j \in k + 1 .. n : j \notin D
    <3> HIDE DEF D
    <3> QED BY LastStop
  <2>2. \E k \in 0 .. n : (k = 0 \/ Gap(k)) /\ \A j \in k + 1 .. n : ~Gap(j)
    BY <2>1
  <2> QED BY <2>2 DEF Back
<1>4. b.col # 0 => b.col - 1 \in Nat
  BY <1>0
<1>5. WordLeft(b) = IF b.col = 0 THEN c ELSE IF ~Soft(b.col - 1) THEN MoveCol(b, onto) ELSE MoveCol(b, over)
  BY Zenon DEF WordLeft
<1> HIDE DEF ToDelim, ToText, ToGap, Soft, Delim, Text, Word, Gap, At
<1>6. b.col # 0 => onto \in Nat
  BY <1>0, <1>1, <1>4
<1>7. b.col # 0 => over \in Nat
  <2>1. ASSUME b.col # 0 PROVE ToText(IF Soft(b.col) THEN b.col ELSE b.col - 1) \in Nat
    BY <1>0, <1>2, <1>4, <2>1
  <2>2. ASSUME b.col # 0 PROVE ToGap(ToText(IF Soft(b.col) THEN b.col ELSE b.col - 1)) \in Nat
    BY <1>3, <2>1, <2>2
  <2> QED BY <2>2
<1>8. Goes(b, u)
  BY StepGoes
<1> HIDE DEF u
<1>9. Goes(b, c)
  <2>1. Goes(u, LineEnd(u))
    BY <1>8, EndGoes DEF Goes
  <2>2. Goes(b, LineEnd(u))
    BY <1>8, <2>1, GoesOn
  <2> QED BY <1>8, <2>2
<1> HIDE DEF c, onto, over
<1>10. b.col # 0 => Goes(b, MoveCol(b, onto)) /\ Goes(b, MoveCol(b, over))
  BY <1>6, <1>7, ColGoes
<1> QED BY <1>5, <1>9, <1>10

\* and to the right.
LEMMA WordRightGoes == ASSUME NEW b \in Good PROVE Goes(b, WordRight(b))
<1> DEFINE At(k)    == CharAt(AbsLine(b), k)
           Delim(k) == IsDelim(At(k))
           Text(k)  == At(k) # Nul
           Soft(k)  == ~Text(k) \/ Delim(k)
           Gap(k)   == ~Delim(k)
           end      == Larger(TrimmedLen(AbsLine(b)) - 1, 0)
           ToGap    == Ahead(b.col, end + 1, Gap)
           ToDelim  == Ahead(b.col, end + 1, Delim)
           to       == IF Soft(b.col) # Soft(b.col + 1) THEN b.col + 1 ELSE IF Soft(b.col) THEN ToGap ELSE ToDelim
           r        == CursorRight(b, 1)
           d        == CursorDown(r)
           c        == IF d.row # b.row THEN LineBegin(d) ELSE CursorLeft(d, 1)
<1>0. b.col \in Nat /\ end + 1 \in Nat
  <2>1. b.col \in Nat /\ AbsLine(b) \in Rows /\ Len(AbsLine(b)) \in Nat
    BY GoodParts
  <2>2. TrimmedLen(AbsLine(b)) \in 0 .. Len(AbsLine(b))
    BY <2>1, LineMeasures DEF Rows
  <2> QED BY <2>1, <2>2 DEF Larger
<1>1. ToGap \in b.col .. Larger(b.col, end + 1)
  <2> DEFINE l == end + 1
             D == {k \in b.col .. Larger(b.col, l) : Gap(k)}
  <2>1. \E k \in b.col .. Larger(b.col, l) : (k >= l \/ k \in D) /\ \A j \in b.col .. k - 1 : j \notin D
    <3> HIDE DEF D, l
    <3>1. b.col \in Nat /\ l \in Nat
      BY <1>0 DEF l
    <3> QED BY <3>1, FirstStop
  <2>2. \E k \in b.col .. Larger(b.col, l) : (k >= l \/ Gap(k)) /\ \A j \in b.col .. k - 1 : ~Gap(j)
    <3> HIDE DEF l, Gap
    <3>1. PICK k \in b.col .. Larger(b.col, l) : (k >= l \/ k \in D) /\ \A j \in b.col .. k - 1 : j \notin D
      BY <2>1
    <3>2. b.col .. k - 1 \subseteq b.col .. Larger(b.col, l)
      <4>1. l \in Nat
        BY <1>0 DEF l
      <4> QED BY <1>0, <4>1 DEF Larger
    <3> QED BY <3>1, <3>2
  <2> HIDE DEF l
  <2>3. Ahead(b.col, l, Gap) \in b.col .. Larger(b.col, l)
    BY <2>2 DEF Ahead
  <2> QED BY <2>3 DEF l
<1>2. ToDelim \in b.col .. Larger(b.col, end + 1)
  <2> DEFINE l == end + 1
             D == {k \in b.col .. Larger(b.col, l) : Delim(k)}
  <2>1. \E k \in b.col .. Larger(b.col, l) : (k >= l \/ k \in D) /\ \A j \in b.col .. k - 1 : j \notin D
    <3> HIDE DEF D, l
    <3>1. b.col \in Nat /\ l \in Nat
      BY <1>0 DEF l
    <3> QED BY <3>1, FirstStop
  <2>2. \E k \in b.col .. Larger(b.col, l) : (k >= l \/ Delim(k)) /\ \A j \in b.col .. k - 1 : ~Delim(j)
    <3> HIDE DEF l, Delim
    <3>1. PICK k \in b.col .. Larger(b.col, l) : (k >= l \/ k \in D) /\ \A j \in b.col .. k - 1 : j \notin D
      BY <2>1
    <3>2. b.col .. k - 1 \subseteq b.col .. Larger(b.col, l)
      <4>1. l \in Nat
        BY <1>0 DEF l
      <4> QED BY <1>0, <4>1 DEF Larger
    <3> QED BY <3>1, <3>2
  <2> HIDE DEF l
  <2>3. Ahead(b.col, l, Delim) \in b.col .. Larger(b.col, l)
    BY <2>2 DEF Ahead
  <2> QED BY <2>3 DEF l
<1>3. WordRight(b) = IF end <= b.col THEN c ELSE MoveCol(b, to)
  BY Zenon DEF WordRight
<1> HIDE DEF ToGap, ToDelim, end, Soft, Delim, Text, Gap, At
<1>4. to \in Nat
  BY <1>0, <1>1, <1>2 DEF Larger
<1> HIDE DEF to
<1>5. Goes(b, MoveCol(b, to))
  BY <1>4, ColGoes
<1>6. Goes(b, r)
  BY StepGoes
<1> HIDE DEF r
<1>7. Goes(b, d)
  <2>0. r \in Good /\ 1 \in Int
    BY <1>6 DEF Goes
  <2>1. Goes(r, d)
    BY <2>0, StepGoes
  <2> QED BY <1>6, <2>1, GoesOn
<1> HIDE DEF d
<1>8. Goes(b, c)
  <2>0. d \in Good /\ 1 \in Int
    BY <1>7 DEF Goes
  <2>1. Goes(d, LineBegin(d)) /\ Goes(d, CursorLeft(d, 1))
    BY <2>0, StepGoes
  <2>2. Goes(b, LineBegin(d)) /\ Goes(b, CursorLeft(d, 1))
    BY <1>7, <2>1, GoesOn
  <2> QED BY <2>2
<1> HIDE DEF c
<1> QED BY <1>3, <1>5, <1>8

-----------------------------------------------------------------------------
(***************************************************************************)
(* The editing methods.                                                    *)
(***************************************************************************)
\* The line under the cursor is edited.
LEMMA LineEdits ==
    ASSUME NEW b \in Good, NEW new \in Rows
    PROVE  LET c == UpdateLine(b, new)
           IN /\ Makes(b, c) /\ Turns(b, c) /\ c.row = b.row /\ c.col = b.col /\ Count(c) = Count(b)
              /\ AbsLine(c) = new /\ \A i \in Nat : i # b.row => Row(c, i) = Row(b, i)
<1> DEFINE c == UpdateLine(b, new)
           ls == [b.lines EXCEPT ![b.row + 1] = new]
<1>0. b \in Tracked /\ b.row < Count(b) /\ b.row \in Nat /\ b.row \in 0 .. Count(b) - 1 /\ Count(b) = Len(b.lines)
      /\ Count(b) \in Nat /\ b.lines \in Seq(Rows)
  BY GoodParts DEF Good
<1>1. TextOf(b, c, ls)
  BY <1>0, UpdateNoted
<1>2. Len(ls) = Count(b) /\ \A k \in 1 .. Count(b) : ls[k] = IF k = b.row + 1 THEN new ELSE b.lines[k]
  BY <1>0
<1> HIDE DEF c, ls
<1>3. Makes(b, c) /\ Turns(b, c) /\ c.row = b.row /\ c.col = b.col /\ Count(c) = Count(b)
  BY <1>0, <1>1, <1>2, TextMade
<1>4. ASSUME NEW i \in Nat PROVE Row(c, i) = IF i = b.row THEN new ELSE Row(b, i)
  <2>1. c.lines = ls
    BY <1>1 DEF TextOf
  <2>2. i \in 0 .. Count(b) - 1 => i + 1 \in 1 .. Count(b) /\ (i + 1 = b.row + 1 <=> i = b.row)
    BY <1>0
  <2> QED BY <1>0, <1>2, <1>3, <2>1, <2>2 DEF Row
<1>5. AbsLine(c) = new
  BY <1>0, <1>3, <1>4 DEF AbsLine
<1> QED BY <1>3, <1>4, <1>5 DEF c

\* Characters go into the line or come out of it.
LEMMA CharEdits ==
    ASSUME NEW b \in Good, NEW pos \in Int
    PROVE  /\ \A cs \in Rows : LET c == LineIns(b, pos, cs)
                               IN Makes(b, c) /\ Turns(b, c) /\ c.row = b.row /\ c.col = b.col /\ Count(c) = Count(b)
           /\ \A num \in Int : LET c == LineDel(b, pos, num)
                               IN Makes(b, c) /\ Turns(b, c) /\ c.row = b.row /\ c.col = b.col /\ Count(c) = Count(b)
           /\ LET c == CutLine(b, pos)
              IN Makes(b, c) /\ Turns(b, c) /\ c.row = b.row /\ c.col = b.col /\ Count(c) = Count(b)
<1>0. AbsLine(b) \in Rows /\ Len(AbsLine(b)) \in Nat /\ Blank \in Letters
  BY GoodParts DEF Letters
<1>1. ASSUME NEW cs \in Rows PROVE InsChars(AbsLine(b), pos, cs) \in Rows
  BY <1>0, InsCharsType DEF Rows
<1>2. ASSUME NEW num \in Int PROVE DelChars(AbsLine(b), pos, num) \in Rows
  BY <1>0, DelCharsType DEF Rows
<1>3. ASSUME NEW cs \in Rows
      PROVE  LET c == LineIns(b, pos, cs)
             IN Makes(b, c) /\ Turns(b, c) /\ c.row = b.row /\ c.col = b.col /\ Count(c) = Count(b)
  BY <1>1, LineEdits DEF LineIns
<1>4. ASSUME NEW num \in Int
      PROVE  LET c == LineDel(b, pos, num)
             IN Makes(b, c) /\ Turns(b, c) /\ c.row = b.row /\ c.col = b.col /\ Count(c) = Count(b)
  BY <1>2, LineEdits DEF LineDel
<1>5. LET c == CutLine(b, pos)
      IN Makes(b, c) /\ Turns(b, c) /\ c.row = b.row /\ c.col = b.col /\ Count(c) = Count(b)
  <2>1. Len(AbsLine(b)) - pos \in Int
    BY <1>0
  <2> QED BY <1>4, <2>1 DEF CutLine
<1> QED BY <1>3, <1>4, <1>5


\* a method that edits may be used as a command
Edits(b, c) == Makes(b, c) /\ Turns(b, c)

\* One after the other is an edit, too.
LEMMA EditsOn ==
    ASSUME NEW a \in Good, NEW b, NEW c, Edits(a, b), Edits(b, c) PROVE Edits(a, c)
  BY MakesOn, TurnsOn DEF Edits

\* An edit that turns the saved flag off, and one before or after it
Alters(b, c) == Edits(b, c) /\ Dirties(b, c)
\* are another.
LEMMA AltersOn ==
    ASSUME NEW a \in Good, NEW b, NEW c, Edits(a, b), Edits(b, c), Dirties(a, b) \/ Dirties(b, c) PROVE Alters(a, c)
<1>1. a \in Tracked /\ b \in Tracked /\ Noted(a, b) /\ Noted(b, c)
  BY DEF Edits, Makes, Good
<1>2. Dirties(a, c)
  BY <1>1, DirtiesOn
<1> QED BY <1>2, EditsOn DEF Alters

\* What begins by taking the mark away and setting the flags may go on with any edit.
LEMMA ModifiedFirst ==
    ASSUME NEW b \in Good, NEW c, Makes(Modified(b), c) PROVE Edits(b, c) /\ ~Marked(c) /\ Alters(b, c)
<1> DEFINE a == Modified(b)
<1>1. Makes(b, a) /\ Turns(b, a) /\ ~Marked(a) /\ a \in Good /\ Dirties(b, a)
  BY FlagMethods DEF Makes
<1> HIDE DEF a
<1>2. Makes(a, c)
  BY DEF a
<1>3. Turns(a, c) /\ ~Marked(c)
  BY <1>1, <1>2, EditsAre
<1>4. Makes(b, c)
  BY <1>1, <1>2, MakesOn
<1>5. Turns(b, c)
  BY <1>1, <1>3, TurnsOn
<1>6. Dirties(b, c)
  <2>1. b \in Tracked /\ a \in Tracked /\ Noted(b, a) /\ Noted(a, c)
    BY <1>1, <1>2 DEF Makes, Good
  <2> QED BY <1>1, <2>1, DirtiesOn
<1> QED BY <1>3, <1>4, <1>5, <1>6 DEF Edits, Alters

\* A character is typed,
LEMMA InsertEdits ==
    ASSUME NEW b \in Good, NEW ch \in Letters
    PROVE  Edits(b, InsertHere(b, ch)) /\ InsertHere(b, ch).row = b.row
<1> DEFINE c == LineIns(b, b.col, <<ch>>)
           d == CursorRight(c, 1)
<1>0. <<ch>> \in Rows /\ b.col \in Int /\ 1 \in Int
  BY GoodParts DEF Rows
<1>1. Makes(b, c) /\ Turns(b, c) /\ c.row = b.row
  BY <1>0, CharEdits
<1> HIDE DEF c
<1>2. c \in Good
  BY <1>1 DEF Makes
<1>3. Goes(c, d) /\ d.row = c.row
  BY <1>0, <1>2, StepGoes
<1> HIDE DEF d
<1>4. Makes(c, d) /\ Turns(c, d)
  BY <1>2, <1>3, MovesAre
<1>5. Edits(b, d)
  BY <1>1, <1>4, EditsOn DEF Edits
<1> QED BY <1>1, <1>3, <1>5 DEF InsertHere, c, d

\* is deleted,
LEMMA DeleteEdits == ASSUME NEW b \in Good PROVE Edits(b, DeleteHere(b))
<1>0. b.col \in Int /\ 1 \in Int
  BY GoodParts
<1> QED BY <1>0, CharEdits DEF DeleteHere, Edits

\* takes the place of another,
LEMMA ReplaceEdits ==
    ASSUME NEW b \in Good, NEW ch \in Letters
    PROVE  Alters(b, ReplaceChar(b, ch)) /\ Alters(b, ReplaceNewline(b))
<1> DEFINE a == Modified(b)
           c == DeleteHere(a)
           d == InsertHere(c, ch)
           e == CursorDown(a)
           f == LineBegin(e)
<1>1. a \in Good
  BY FlagMethods DEF Makes
<1> HIDE DEF a
<1>2. Edits(a, c)
  BY <1>1, DeleteEdits
<1> HIDE DEF c
<1>3. c \in Good
  BY <1>2 DEF Edits, Makes
<1>4. Edits(c, d)
  BY <1>3, InsertEdits
<1> HIDE DEF d
<1>5. Makes(a, d)
  BY <1>1, <1>2, <1>4, MakesOn DEF Edits
<1>6. Goes(a, e)
  BY <1>1, StepGoes
<1> HIDE DEF e
<1>7. e \in Good
  BY <1>6 DEF Goes
<1>8. Goes(e, f)
  BY <1>7, StepGoes
<1> HIDE DEF f
<1>9. Makes(a, f)
  BY <1>1, <1>6, <1>8, GoesOn, MovesAre
<1>10. Alters(b, d) /\ Alters(b, f)
  BY <1>5, <1>9, ModifiedFirst DEF a
<1> QED BY <1>10 DEF ReplaceChar, ReplaceNewline, a, c, d, e, f

\* The next line is joined, and at the end of a line that is what deleting does.
LEMMA DelCharEdits ==
    ASSUME NEW b \in Good
    PROVE  /\ Makes(b, MergeNext(b)) /\ Makes(b, DropBlanks(b)) /\ Makes(b, DelOrMerge(b))
           /\ Edits(b, DelChar(b)) /\ ~Marked(DelChar(b)) /\ Alters(b, DelChar(b))
<1>1. ASSUME NEW x \in Good PROVE Makes(x, MergeNext(x))
  <2>0. x \in Tracked /\ Count(x) \in Nat /\ x.row \in Nat /\ x.col \in Int /\ x.row + 1 \in Nat /\ Count(x) = Len(x.lines)
    BY GoodParts
  <2>1. CASE x.row + 1 >= Count(x)
    BY <2>1, NothingDone DEF MergeNext
  <2>2. CASE ~(x.row + 1 >= Count(x))
    <3> DEFINE i == x.row + 1
               d == DelStep(x, i)
               ls == Drop(x.lines, i, i + 1)
               s == Row(x, i)
    <3>1. i \in Nat /\ i < Count(x)
      BY <2>0, <2>2
    <3>2. TextOf(x, d, ls) /\ Count(d) = Count(x) - 1 /\ Track(RemoveRow(x, i), "InsLine", i, s) = d
      BY <2>0, <3>1, DelNoted
    <3>3. s \in Rows
      BY <2>0, <3>1, TextIs DEF Tracked
    <3>4. MergeNext(x) = LineIns(d, x.col, s)
      BY <2>2, <3>2 DEF MergeNext
    <3> HIDE DEF d, ls, s
    <3>5. Len(ls) = Count(x) - 1
      BY <3>2 DEF TextOf, Count
    <3>6. x.row < Len(ls)
      BY <2>0, <3>1, <3>5
    <3>7. Makes(x, d)
      BY <3>2, <3>6, TextMade
    <3>8. Makes(d, LineIns(d, x.col, s))
      BY <2>0, <3>3, <3>7, CharEdits DEF Makes
    <3> QED BY <3>4, <3>7, <3>8, MakesOn
  <2> QED BY <2>1, <2>2
<1>2. ASSUME NEW x \in Good PROVE Makes(x, DropBlanks(x))
  <2>1. x.col \in Int
    BY GoodParts
  <2> QED BY <2>1, NothingDone, CharEdits DEF DropBlanks
<1>3. ASSUME NEW x \in Good PROVE Makes(x, DelOrMerge(x))
  BY <1>1, DeleteEdits DEF DelOrMerge, Edits
<1> DEFINE a == Modified(b)
           c == DropBlanks(a)
           d == DelOrMerge(c)
<1>4. a \in Good
  BY FlagMethods DEF Makes
<1> HIDE DEF a
<1>5. Makes(a, c)
  BY <1>2, <1>4
<1> HIDE DEF c
<1>6. Makes(c, d)
  BY <1>3, <1>5 DEF Makes
<1> HIDE DEF d
<1>7. Makes(a, d)
  BY <1>4, <1>5, <1>6, MakesOn
<1>8. Edits(b, d) /\ ~Marked(d) /\ Alters(b, d)
  BY <1>7, ModifiedFirst DEF a
<1> QED BY <1>1, <1>2, <1>3, <1>8 DEF DelChar, a, c, d


\* A line is noted whole and made another.
LEMMA RestoreEdits ==
    ASSUME NEW b \in Good, NEW i \in Nat, i < Count(b), NEW s \in Rows
    PROVE  LET c == RestoreStep(b, i, s)
           IN /\ Edits(b, c) /\ c.row = b.row /\ c.col = b.col /\ Count(c) = Count(b)
              /\ c.lines = [b.lines EXCEPT ![i + 1] = s]
<1> DEFINE c == RestoreStep(b, i, s)
           ls == [b.lines EXCEPT ![i + 1] = s]
<1>0. b \in Tracked /\ b.row < Count(b) /\ Count(b) = Len(b.lines) /\ Count(b) \in Nat /\ b.lines \in Seq(Rows)
  BY GoodParts DEF Good
<1>1. TextOf(b, c, ls)
  BY <1>0, RestoreNoted
<1>2. Len(ls) = Count(b)
  BY <1>0
<1> HIDE DEF c, ls
<1>3. Makes(b, c) /\ Turns(b, c) /\ c.row = b.row /\ c.col = b.col /\ Count(c) = Count(b)
  BY <1>0, <1>1, <1>2, TextMade
<1> QED BY <1>1, <1>3 DEF Edits, TextOf, c, ls

\* Columns are deleted,
LEMMA DelColsEdits ==
    ASSUME NEW b \in Good, NEW from \in Int, NEW to \in Int
    PROVE  LET c == DelCols(b, from, to) IN Edits(b, c) /\ c.row = b.row /\ c.col = b.col /\ Count(c) = Count(b)
<1> DEFINE s == DelChars(AbsLine(b), from, to - from)
<1>1. s \in Rows /\ b.row \in Nat /\ b.row < Count(b)
  <2>1. AbsLine(b) \in Rows /\ to - from \in Int /\ b.row \in Nat /\ b.row < Count(b)
    BY GoodParts DEF Good
  <2> QED BY <2>1, DelCharsType DEF Rows
<1>2. DelCols(b, from, to) = RestoreStep(b, b.row, s)
  BY DEF DelCols, RestoreStep, AbsLine
<1> DEFINE c == RestoreStep(b, b.row, s)
<1> HIDE DEF s
<1>3. Edits(b, c) /\ c.row = b.row /\ c.col = b.col /\ Count(c) = Count(b)
  BY <1>1, RestoreEdits
<1> HIDE DEF c
<1> QED BY <1>2, <1>3 DEF c

\* a word to the right,
LEMMA DelWordRightEdits ==
    ASSUME NEW b \in Good
    PROVE  Edits(b, DelWordRight(b)) /\ ~Marked(DelWordRight(b)) /\ Alters(b, DelWordRight(b))
<1> DEFINE a == Modified(b)
           s == AbsLine(b)
           Other(k) == ~SameRun(CharAt(s, k), CharAt(s, a.col))
           to == Ahead(a.col, Len(s), Other)
           c == IF a.col >= Len(s) THEN DelChar(a) ELSE DelCols(a, a.col, to)
<1>1. a \in Good
  BY FlagMethods DEF Makes
<1>2. s \in Rows /\ Len(s) \in Nat
  BY GoodParts
<1> HIDE DEF a, s
<1>3. a.col \in Nat
  BY <1>1, GoodParts
<1>4. to \in a.col .. Larger(a.col, Len(s))
  <2> DEFINE l == Len(s)
             D == {k \in a.col .. Larger(a.col, l) : Other(k)}
  <2>0. l \in Nat
    BY <1>2
  <2> HIDE DEF l, Other
  <2>1. PICK k \in a.col .. Larger(a.col, l) : (k >= l \/ k \in D) /\ \A j \in a.col .. k - 1 : j \notin D
    <3> HIDE DEF D
    <3> QED BY <1>3, <2>0, FirstStop
  <2>2. a.col .. k - 1 \subseteq a.col .. Larger(a.col, l)
    BY <1>3, <2>0 DEF Larger
  <2>3. \E j \in a.col .. Larger(a.col, l) : (j >= l \/ Other(j)) /\ \A i \in a.col .. j - 1 : ~Other(i)
    BY <2>1, <2>2
  <2>4. Ahead(a.col, l, Other) \in a.col .. Larger(a.col, l)
    BY <2>3 DEF Ahead
  <2> QED BY <2>4 DEF l
<1>5. DelWordRight(b) = c
  BY Zenon DEF DelWordRight, DelWordAfter, a, s
<1> HIDE DEF to
<1>6. to \in Int /\ a.col \in Int
  BY <1>2, <1>3, <1>4 DEF Larger
<1>7. Makes(a, c)
  <2>1. Makes(a, DelChar(a))
    BY <1>1, DelCharEdits DEF Edits
  <2>2. Makes(a, DelCols(a, a.col, to))
    BY <1>1, <1>6, DelColsEdits DEF Edits
  <2> QED BY <2>1, <2>2
<1> HIDE DEF c
<1>8. Edits(b, c) /\ ~Marked(c) /\ Alters(b, c)
  BY <1>7, ModifiedFirst DEF a
<1> QED BY <1>5, <1>8

\* the rest of the line,
LEMMA DelToEOLEdits == ASSUME NEW b \in Good PROVE Alters(b, DelToEOL(b))
<1> DEFINE a == Modified(b)
<1>1. a \in Good
  BY FlagMethods DEF Makes
<1> HIDE DEF a
<1>2. Makes(a, LineEnd(a))
  <2>1. Goes(a, LineEnd(a))
    <3>1. 0 \in Nat
      OBVIOUS
    <3> QED BY <1>1, <3>1, EndGoes
  <2> QED BY <1>1, <2>1, MovesAre
<1>3. Makes(a, CutLine(a, a.col))
  <2>1. a.col \in Int
    BY <1>1, GoodParts
  <2> QED BY <1>1, <2>1, CharEdits
<1>4. Makes(a, DelRest(a))
  BY <1>2, <1>3 DEF DelRest
<1>5. Alters(b, DelRest(a))
  BY <1>4, ModifiedFirst DEF a
<1> QED BY <1>5 DEF DelToEOL, a

\* A line is inserted;
LEMMA InsEdits ==
    ASSUME NEW b \in Good, NEW i \in Nat, i <= Count(b), NEW s \in Rows
    PROVE  LET c == InsStep(b, i, s)
           IN /\ Edits(b, c) /\ c.row = b.row /\ c.col = b.col /\ Count(c) = Count(b) + 1
              /\ c.lines = Put(b.lines, i, <<s>>)
<1> DEFINE c == InsStep(b, i, s)
           ls == Put(b.lines, i, <<s>>)
<1>0. b \in Tracked /\ b.row < Count(b) /\ Count(b) \in Nat /\ b.row \in Nat
  BY GoodParts DEF Good
<1>1. TextOf(b, c, ls) /\ Count(c) = Count(b) + 1
  BY <1>0, InsNoted
<1> HIDE DEF c, ls
<1>2. Len(ls) = Count(b) + 1
  BY <1>1 DEF TextOf, Count
<1>3. b.row < Len(ls) /\ Len(ls) >= Count(b)
  BY <1>0, <1>2
<1>4. Makes(b, c) /\ Turns(b, c) /\ c.row = b.row /\ c.col = b.col
  BY <1>1, <1>3, TextMade
<1> QED BY <1>1, <1>4 DEF Edits, TextOf, c, ls

\* the line is doubled
LEMMA DupLineEdits == ASSUME NEW b \in Good PROVE Alters(b, DupLine(b))
<1> DEFINE a == SetChanged(b, TRUE)
<1>1. Edits(b, a) /\ a \in Good /\ Dirties(b, a)
  BY FlagMethods DEF Edits, Makes
<1> HIDE DEF a
<1>2. AbsLine(a) \in Rows /\ a.row + 1 \in Nat /\ a.row + 1 <= Count(a)
  <2>1. AbsLine(a) \in Rows /\ a.row \in Nat /\ Count(a) \in Nat /\ a.row < Count(a)
    BY <1>1, GoodParts DEF Good
  <2> QED BY <2>1
<1>3. Edits(a, InsStep(a, a.row + 1, AbsLine(a)))
  BY <1>1, <1>2, InsEdits
<1>4. DupLine(b) = InsStep(a, a.row + 1, AbsLine(a))
  BY DEF DupLine, DupAt, InsStep, a
<1> QED BY <1>1, <1>3, <1>4, AltersOn

\* or deleted, and then a mark may be behind the end of the text.
LEMMA DelLineMakes ==
    ASSUME NEW b \in Good
    PROVE  Makes(b, DelLine(b)) /\ (~Marked(b) => Turns(b, DelLine(b))) /\ Dirties(b, DelLine(b))
<1> DEFINE a == SetChanged(b, TRUE)
           i == a.row
           d == DelStep(a, i)
           ls == Drop(a.lines, i, i + 1)
<1>1. Edits(b, a) /\ a \in Good /\ Count(a) = Count(b) /\ a.row = b.row /\ Dirties(b, a)
  BY FlagMethods DEF Edits, Makes, Flagged
<1> HIDE DEF a
<1>2. a \in Tracked /\ i \in Nat /\ Count(a) \in Nat /\ i < Count(a)
  BY <1>1, GoodParts DEF Good
<1>3. TextOf(a, d, ls) /\ Count(d) = Count(a) - 1
  BY <1>2, DelNoted
<1>4. DelRow(a) = d
  BY DEF DelRow, DelStep, AbsLine
<1> HIDE DEF d, ls
<1>5. Len(ls) = Count(a) - 1
  BY <1>3 DEF TextOf, Count
<1>6. b.row # Count(b) - 1 => Makes(a, d)
  <2>1. b.row # Count(b) - 1 => i < Len(ls)
    BY <1>1, <1>2, <1>5
  <2> QED BY <1>1, <1>3, <2>1, TextMade
<1>7. DelLine(b) = IF b.row = Count(b) - 1 THEN a ELSE d
  BY <1>4 DEF DelLine, a
<1>8. Makes(b, DelLine(b))
  BY <1>1, <1>6, <1>7, MakesOn DEF Edits
<1>9. Dirties(b, DelLine(b))
  <2>1. b \in Tracked /\ a \in Tracked /\ Noted(b, a)
    BY <1>1 DEF Edits, Makes, Good
  <2>2. b.row # Count(b) - 1 => Dirties(b, d)
    BY <1>1, <1>6, <2>1, DirtiesOn DEF Makes
  <2> QED BY <1>1, <1>7, <2>2
<1> QED BY <1>8, <1>9, EditsAre


-----------------------------------------------------------------------------
(***************************************************************************)
(* Lines that are changed without a note of their own: a row that was just *)
(* inserted goes as a whole when that is taken back, so that it may still  *)
(* be changed, before or after the notes that follow.                      *)
(***************************************************************************)
\* A note and the cursor have nothing to do with the text,
LEMMA Commutes ==
    ASSUME NEW b \in Buffers, NEW ls
    PROVE  /\ \A op, n, what : Track([b EXCEPT !.lines = ls], op, n, what) = [Track(b, op, n, what) EXCEPT !.lines = ls]
           /\ \A r : SetRow([b EXCEPT !.lines = ls], r) = [SetRow(b, r) EXCEPT !.lines = ls]
           /\ \A k : SetCol([b EXCEPT !.lines = ls], k) = [SetCol(b, k) EXCEPT !.lines = ls]
<1>1. ASSUME NEW m, NEW p, NEW w
      PROVE  Track([b EXCEPT !.lines = ls], m, p, w) = [Track(b, m, p, w) EXCEPT !.lines = ls]
  <2> DEFINE d == [b EXCEPT !.lines = ls]
             es == <<[op |-> m, n |-> p, what |-> w]>> \o b.track
  <2>1. (Has(d, "Tracking") <=> Has(b, "Tracking")) /\ d.track = b.track
    BY DEF Buffers, Has
  <2>2. CASE Has(b, "Tracking")
    <3>1. Track(b, m, p, w) = [b EXCEPT !.track = es]
      BY <2>2 DEF Track
    <3>2. Track(d, m, p, w) = [d EXCEPT !.track = <<[op |-> m, n |-> p, what |-> w]>> \o @]
      BY <2>1, <2>2, Zenon DEF Track
    <3>3. Track(d, m, p, w) = [d EXCEPT !.track = es]
      BY <2>1, <3>2
    <3> HIDE DEF es
    <3>4. [d EXCEPT !.track = es] = [[b EXCEPT !.track = es] EXCEPT !.lines = ls]
      BY DEF Buffers
    <3> QED BY <3>1, <3>3, <3>4
  <2>3. CASE ~Has(b, "Tracking")
    BY <2>1, <2>3 DEF Track
  <2> QED BY <2>2, <2>3
<1>2. ASSUME NEW r PROVE SetRow([b EXCEPT !.lines = ls], r) = [SetRow(b, r) EXCEPT !.lines = ls]
  <2> DEFINE d == [b EXCEPT !.lines = ls]
             t == Track(b, "CurRow", b.row, 0)
             u == Track(d, "CurRow", b.row, 0)
  <2>1. d.row = b.row
    BY DEF Buffers
  <2>2. SetRow(d, r) = [u EXCEPT !.row = r] /\ SetRow(b, r) = [t EXCEPT !.row = r]
    BY <2>1 DEF SetRow
  <2>3. u = [t EXCEPT !.lines = ls]
    BY <1>1
  <2>4. DOMAIN t = DOMAIN b
    <3>1. DOMAIN [b EXCEPT !.track = <<[op |-> "CurRow", n |-> b.row, what |-> 0]>> \o @] = DOMAIN b
      BY Zenon
    <3> QED BY <3>1 DEF Track
  <2>5. DOMAIN t = {"lines", "row", "col", "mrow", "mcol", "flags", "track", "undo", "trap"}
    BY <2>4 DEF Buffers
  <2> HIDE DEF t, u, d
  <2>6. [[t EXCEPT !.lines = ls] EXCEPT !.row = r] = [[t EXCEPT !.row = r] EXCEPT !.lines = ls]
    <3> DEFINE v == [[t EXCEPT !.lines = ls] EXCEPT !.row = r]
               w == [[t EXCEPT !.row = r] EXCEPT !.lines = ls]
    <3>1. v = [f \in DOMAIN t |-> IF f = "row" THEN r ELSE IF f = "lines" THEN ls ELSE t[f]]
      BY Zenon
    <3>2. w = [f \in DOMAIN t |-> IF f = "lines" THEN ls ELSE IF f = "row" THEN r ELSE t[f]]
      BY Zenon
    <3>3. \A f : (IF f = "row" THEN r ELSE IF f = "lines" THEN ls ELSE t[f])
                    = (IF f = "lines" THEN ls ELSE IF f = "row" THEN r ELSE t[f])
      OBVIOUS
    <3> QED BY <3>1, <3>2, <3>3
  <2>7. SetRow(d, r) = [SetRow(b, r) EXCEPT !.lines = ls]
    BY <2>2, <2>3, <2>6
  <2> QED BY <2>7 DEF d
<1>3. ASSUME NEW r PROVE SetCol([b EXCEPT !.lines = ls], r) = [SetCol(b, r) EXCEPT !.lines = ls]
  <2> DEFINE d == [b EXCEPT !.lines = ls]
             t == Track(b, "CurCol", b.col, 0)
             u == Track(d, "CurCol", b.col, 0)
  <2>1. d.col = b.col
    BY DEF Buffers
  <2>2. SetCol(d, r) = [u EXCEPT !.col = r] /\ SetCol(b, r) = [t EXCEPT !.col = r]
    BY <2>1 DEF SetCol
  <2>3. u = [t EXCEPT !.lines = ls]
    BY <1>1
  <2>4. DOMAIN t = DOMAIN b
    <3>1. DOMAIN [b EXCEPT !.track = <<[op |-> "CurCol", n |-> b.col, what |-> 0]>> \o @] = DOMAIN b
      BY Zenon
    <3> QED BY <3>1 DEF Track
  <2>5. DOMAIN t = {"lines", "row", "col", "mrow", "mcol", "flags", "track", "undo", "trap"}
    BY <2>4 DEF Buffers
  <2> HIDE DEF t, u, d
  <2>6. [[t EXCEPT !.lines = ls] EXCEPT !.col = r] = [[t EXCEPT !.col = r] EXCEPT !.lines = ls]
    <3> DEFINE v == [[t EXCEPT !.lines = ls] EXCEPT !.col = r]
               w == [[t EXCEPT !.col = r] EXCEPT !.lines = ls]
    <3>1. v = [f \in DOMAIN t |-> IF f = "col" THEN r ELSE IF f = "lines" THEN ls ELSE t[f]]
      BY Zenon
    <3>2. w = [f \in DOMAIN t |-> IF f = "lines" THEN ls ELSE IF f = "col" THEN r ELSE t[f]]
      BY Zenon
    <3>3. \A f : (IF f = "col" THEN r ELSE IF f = "lines" THEN ls ELSE t[f])
                    = (IF f = "lines" THEN ls ELSE IF f = "col" THEN r ELSE t[f])
      OBVIOUS
    <3> QED BY <3>1, <3>2, <3>3
  <2>7. SetCol(d, r) = [SetCol(b, r) EXCEPT !.lines = ls]
    BY <2>2, <2>3, <2>6
  <2> QED BY <2>7 DEF d
<1> QED BY <1>1, <1>2, <1>3

\* and the row that went in is the one that is there.
LEMMA PutOther ==
    ASSUME NEW S, NEW ls \in Seq(S), NEW i \in 0 .. Len(ls), NEW s \in S, NEW t \in S
    PROVE  /\ Put(ls, i, <<s>>)[i + 1] = s
           /\ [Put(ls, i, <<s>>) EXCEPT ![i + 1] = t] = Put(ls, i, <<t>>)
<1> DEFINE n == Len(ls)
           ms == <<s>>
           mt == <<t>>
           u == Put(ls, i, ms)
           v == Put(ls, i, mt)
           k == i + 1
<1>0. n \in Nat /\ i \in Nat /\ k \in 1 .. n + 1 /\ k - i = 1 /\ ~(k <= i) /\ k <= i + 1
  OBVIOUS
<1>1. ms \in Seq(S) /\ Len(ms) = 1 /\ mt \in Seq(S) /\ Len(mt) = 1 /\ ms[1] = s /\ mt[1] = t
  OBVIOUS
<1> HIDE DEF ms, mt
<1>2. IsPut(u, S, ls, i, ms, 1) /\ IsPut(v, S, ls, i, mt, 1)
  BY <1>1, PutIs
<1> HIDE DEF u, v, k
<1>3. u \in Seq(S) /\ v \in Seq(S) /\ Len(u) = n + 1 /\ Len(v) = n + 1 /\ u[k] = s /\ v[k] = t
  <2>1. u[k] = ms[k - i] /\ v[k] = mt[k - i]
    BY <1>0, <1>2 DEF IsPut
  <2> QED BY <1>0, <1>1, <1>2, <2>1 DEF IsPut
<1>4. ASSUME NEW j \in 1 .. n + 1, j # k PROVE u[j] = v[j]
  <2>1. j <= i \/ ~(j <= i + 1)
    BY <1>0, <1>4 DEF k
  <2>2. CASE j <= i
    BY <1>2, <2>2 DEF IsPut
  <2>3. CASE ~(j <= i + 1)
    <3>1. ~(j <= i)
      BY <1>0, <2>3
    <3> QED BY <1>2, <2>3, <3>1 DEF IsPut
  <2> QED BY <2>1, <2>2, <2>3
<1>5. [u EXCEPT ![k] = t] = v
  <2> DEFINE w == [u EXCEPT ![k] = t]
  <2>1. w \in Seq(S) /\ Len(w) = n + 1 /\ \A j \in 1 .. n + 1 : w[j] = IF j = k THEN t ELSE u[j]
    BY <1>0, <1>3
  <2> HIDE DEF w
  <2>2. \A j \in 1 .. Len(w) : w[j] = v[j]
    BY <1>3, <1>4, <2>1
  <2>3. w = v
    BY <1>3, <2>1, <2>2, SeqEqual
  <2> QED BY <2>3 DEF w
<1> QED BY <1>3, <1>5 DEF u, v, k, ms, mt

\* A line that was just inserted may be changed instead.
LEMMA InsOther ==
    ASSUME NEW b \in Tracked, NEW i \in Nat, i <= Count(b), NEW s \in Rows, NEW t \in Rows
    PROVE  /\ Row(InsStep(b, i, s), i) = s
           /\ SetLine(InsStep(b, i, s), i, t) = InsStep(b, i, t)
           /\ [InsStep(b, i, s) EXCEPT !.lines = [InsStep(b, i, s).lines EXCEPT ![i + 1] = t]] = InsStep(b, i, t)
<1> DEFINE d == Track(b, "DelLine", i, 0)
           c(x) == [d EXCEPT !.lines = Put(b.lines, i, <<x>>)]
<1>0. b \in Buffers /\ b.lines \in Seq(Rows) /\ i \in 0 .. Len(b.lines) /\ Count(b) = Len(b.lines) /\ Count(b) \in Nat
  <2>1. b.lines \in Seq(Rows)
    BY BufferParts DEF Tracked
  <2>2. Len(b.lines) \in Nat
    BY <2>1, LenProperties
  <2> QED BY <2>1, <2>2 DEF Tracked, Count
<1>1. [op |-> "DelLine", n |-> i, what |-> 0] \in Notes
  BY NoteTypes
<1>2. d \in Buffers /\ d.lines = b.lines /\ Count(d) = Count(b)
  BY <1>1, TrackText
<1> HIDE DEF d
<1>3. ASSUME NEW x \in Rows PROVE InsStep(b, i, x) = c(x) /\ c(x).lines = Put(b.lines, i, <<x>>) /\ c(x) \in Buffers
                                  /\ Count(c(x)) = Count(b) + 1
  <2>1. InsertRows(d, i, <<x>>) = [d EXCEPT !.lines = Put(d.lines, i, <<x>>)]
    BY <1>2, TextIs
  <2>2. InsStep(b, i, x) = c(x)
    BY <1>2, <2>1 DEF InsStep, d
  <2>3. InsStep(b, i, x).lines = Put(b.lines, i, <<x>>) /\ InsStep(b, i, x) \in Buffers
        /\ Count(InsStep(b, i, x)) = Count(b) + 1
    BY InsNoted DEF TextOf, Tracked
  <2> QED BY <2>2, <2>3
<1>4. Put(b.lines, i, <<s>>)[i + 1] = s /\ [Put(b.lines, i, <<s>>) EXCEPT ![i + 1] = t] = Put(b.lines, i, <<t>>)
  BY <1>0, PutOther
<1> DEFINE u == c(s)
           ls == Put(b.lines, i, <<s>>)
           lt == Put(b.lines, i, <<t>>)
<1>5. u \in Buffers /\ u.lines = ls /\ i < Count(u)
  BY <1>0, <1>3
<1>6. [u EXCEPT !.lines = lt] = c(t)
  OBVIOUS
<1> HIDE DEF u, ls, lt, c
<1>7. Row(u, i) = s /\ SetLine(u, i, t) = [u EXCEPT !.lines = lt] /\ [u EXCEPT !.lines = [u.lines EXCEPT ![i + 1] = t]] = [u EXCEPT !.lines = lt]
  <2>1. Row(u, i) = u.lines[i + 1] /\ SetLine(u, i, t) = [u EXCEPT !.lines = [u.lines EXCEPT ![i + 1] = t]]
    BY <1>5, TextIs
  <2> QED BY <1>4, <1>5, <2>1 DEF ls, lt
<1>8. InsStep(b, i, s) = u /\ InsStep(b, i, t) = c(t)
  BY <1>3 DEF u
<1> QED BY <1>6, <1>7, <1>8


\* The line is split: the rest goes to a row of its own, behind the indent, and the cursor to it.
LEMMA BreakEdits ==
    ASSUME NEW b \in Good, NEW rest \in Rows
    PROVE  Edits(b, BreakAfter(b, rest))
<1> DEFINE i == b.row + 1
           at(s) == InsStep(b, i, s)
           on(s) == SetRow(at(s), i)
           offset == IF Has(b, "AutoIndent") THEN IndentOffset(AbsLine(b)) ELSE 0
           indented == InsChars(rest, 0, Blanks(offset))
           x == on(rest)
           y == on(indented)
<1>0. /\ b \in Tracked /\ b.row \in Nat /\ Count(b) \in Nat /\ b.row < Count(b)
      /\ AbsLine(b) \in Rows /\ Len(AbsLine(b)) \in Nat /\ Blank \in Letters
  BY GoodParts DEF Good, Letters
<1>1. i \in Nat /\ i <= Count(b) /\ i # b.row /\ i - 1 = b.row
  BY <1>0
<1>2. offset \in Nat
  <2>1. IndentOffset(AbsLine(b)) \in 0 .. Len(AbsLine(b))
    BY <1>0, LineMeasures DEF Rows
  <2> QED BY <1>0, <2>1
<1> HIDE DEF offset
<1>3. indented \in Rows
  <2>1. Blanks(offset) \in Rows /\ 0 \in Int
    BY <1>0, <1>2, BlanksType DEF Rows
  <2> QED BY <1>0, <2>1, InsCharsType DEF Rows
<1> HIDE DEF indented, i
<1>4. ASSUME NEW s \in Rows
      PROVE  /\ at(s) \in Good /\ Edits(b, at(s)) /\ at(s).row = b.row /\ Count(at(s)) = Count(b) + 1
             /\ Row(at(s), i) = s /\ at(s) \in Buffers
  <2>1. Edits(b, at(s)) /\ at(s).row = b.row /\ Count(at(s)) = Count(b) + 1
    BY <1>1, InsEdits
  <2>2. Row(at(s), i) = s
    BY <1>0, <1>1, InsOther
  <2> HIDE DEF at
  <2>3. at(s) \in Good
    BY <2>1 DEF Edits, Makes
  <2>4. at(s) \in Buffers
    BY <2>3, GoodParts
  <2> QED BY <2>1, <2>2, <2>3, <2>4
<1>5. at(indented) = [at(rest) EXCEPT !.lines = [at(rest).lines EXCEPT ![i + 1] = indented]]
  BY <1>0, <1>1, <1>3, InsOther
<1> HIDE DEF at
<1>6. ASSUME NEW s \in Rows
      PROVE  /\ CursorDown(at(s)) = on(s) /\ on(s) \in Good /\ Edits(b, on(s)) /\ on(s).row = i
             /\ on(s).lines = at(s).lines /\ AbsLine(on(s)) = s /\ on(s) \in Buffers
  <2> DEFINE c == at(s)
             d == SetRow(c, i)
  <2>0. c \in Good /\ Edits(b, c) /\ c.row = b.row /\ Count(c) = Count(b) + 1 /\ Row(c, i) = s
    BY <1>4
  <2> HIDE DEF c
  <2>1. Smaller(c.row + 1, Count(c) - 1) = i /\ i # c.row /\ i \in 0 .. Count(c) - 1
    BY <1>0, <1>1, <2>0 DEF Smaller, i
  <2>2. CursorDown(c) = d
    BY <2>1 DEF CursorDown, MoveRow
  <2>3. Goes(c, d) /\ d.row = i
    BY <2>0, <2>1, RowGoes
  <2> HIDE DEF d
  <2>4. Edits(c, d) /\ Count(d) = Count(c)
    BY <2>0, <2>3, MovesAre DEF Edits
  <2>5. Edits(b, d)
    BY <2>0, <2>4, EditsOn
  <2>6. d \in Good /\ d.lines = c.lines
    BY <2>3 DEF Goes, Moved
  <2>7. AbsLine(d) = s
    BY <2>0, <2>3, <2>6 DEF AbsLine, Row, Count
  <2> QED BY <2>2, <2>3, <2>5, <2>6, <2>7, GoodParts DEF c, d
<1>7. SetLine(x, x.row, indented) = y
  <2>1. x.row = i /\ x \in Buffers /\ x.lines = at(rest).lines /\ x \in Good
    BY <1>6
  <2>2. SetLine(x, i, indented) = [x EXCEPT !.lines = [x.lines EXCEPT ![i + 1] = indented]]
    <3>1. i < Count(x)
      BY <2>1 DEF Good
    <3> QED BY <1>1, <2>1, <3>1, TextIs
  <2> DEFINE ls == [at(rest).lines EXCEPT ![i + 1] = indented]
  <2>3. SetRow([at(rest) EXCEPT !.lines = ls], i) = [SetRow(at(rest), i) EXCEPT !.lines = ls]
    <3>1. at(rest) \in Buffers
      BY <1>4
    <3> HIDE DEF ls
    <3> QED BY <3>1, Commutes
  <2> HIDE DEF x
  <2> QED BY <1>5, <2>1, <2>2, <2>3 DEF x
<1>8. BreakAfter(b, rest) = IndentBy(x, offset)
  <2>1. CursorDown(at(rest)) = x
    BY <1>6
  <2> QED BY <2>1 DEF BreakAfter, InsStep, at, i, offset
<1>9. x \in Good /\ Edits(b, x) /\ AbsLine(x) = rest
  BY <1>6
<1>10. y \in Good /\ Edits(b, y)
  BY <1>3, <1>6
<1> HIDE DEF x, y, on
<1>11. IndentBy(x, offset) = IF offset > 0 THEN GotoCol(y, offset) ELSE LineBegin(x)
  BY <1>7, <1>9 DEF IndentBy, indented
<1>12. Edits(y, GotoCol(y, offset))
  <2>1. Goes(y, GotoCol(y, offset))
    BY <1>2, <1>10, GotoGoes
  <2> QED BY <1>10, <2>1, MovesAre DEF Edits
<1>13. Edits(x, LineBegin(x))
  <2>1. Goes(x, LineBegin(x))
    <3>1. 1 \in Int
      OBVIOUS
    <3> QED BY <1>9, <3>1, StepGoes
  <2> QED BY <1>9, <2>1, MovesAre DEF Edits
<1>14. Edits(b, GotoCol(y, offset)) /\ Edits(b, LineBegin(x))
  BY <1>9, <1>10, <1>12, <1>13, EditsOn
<1> QED BY <1>8, <1>11, <1>14

\* Enter breaks the row at the cursor.
LEMMA SplitEdits == ASSUME NEW b \in Good PROVE Alters(b, SplitLine(b)) /\ ~Marked(SplitLine(b))
<1> DEFINE a == Modified(b)
           c == CutLine(a, a.col)
           rest == TailFrom(AbsLine(a), a.col)
           d == BreakAfter(c, rest)
<1>1. a \in Good
  BY FlagMethods DEF Makes
<1> HIDE DEF a
<1>2. a.col \in Int /\ AbsLine(a) \in Rows
  BY <1>1, GoodParts
<1>3. rest \in Rows
  BY <1>2, TailFromType DEF Rows
<1>4. Makes(a, c) /\ c \in Good
  BY <1>1, <1>2, CharEdits DEF Makes
<1> HIDE DEF c, rest
<1>5. Makes(c, d)
  BY <1>3, <1>4, BreakEdits DEF Edits
<1> HIDE DEF d
<1>6. Makes(a, d)
  BY <1>1, <1>4, <1>5, MakesOn
<1>7. Alters(b, d) /\ ~Marked(d)
  BY <1>6, ModifiedFirst DEF a
<1> QED BY <1>7 DEF SplitLine, SplitAt, a, c, rest, d


\* A character is typed with its keyword left where it is.
LEMMA InsCharEdits ==
    ASSUME NEW b \in Good, NEW ch \in Letters, ~UnindentKeywords PROVE Alters(b, InsChar(b, ch))
<1> DEFINE a == Modified(b)
           c == InsertHere(a, ch)
<1>1. a \in Good
  BY FlagMethods DEF Makes
<1> HIDE DEF a
<1>2. Makes(a, c)
  BY <1>1, InsertEdits DEF Edits
<1> HIDE DEF c
<1>3. Alters(b, c)
  BY <1>2, ModifiedFirst DEF a
<1>4. InsChar(b, ch) = c
  BY DEF InsChar, UnindentKeyword, a, c
<1> QED BY <1>3, <1>4

-----------------------------------------------------------------------------
(***************************************************************************)
(* The methods on the marked block.                                        *)
(***************************************************************************)
\* The loops of these methods, each as what one round of it does.
NoteRound(p, t, i) == Track(t, "RestoreLine", i, Row(p, i))
NoteFold == INSTANCE Folding WITH Op <- NoteRound
PasteStep(b, c, t, i) ==
    LET r == b.row + i
        w == SetLine(Track(t, "RestoreLine", r, Row(t, r)), r, InsChars(Row(t, r), b.col, c.lines[i + 1]))
    IN IF i < Len(c.lines) - 1 /\ r = Count(w) - 1
       THEN InsertRows(Track(w, "DelLine", Count(w), 0), Count(w), << <<>> >>)
       ELSE w
PasteRound(p, t, i) == PasteStep(p.b, p.c, t, i)
PasteFold == INSTANCE Folding WITH Op <- PasteRound
InsertRound(p, t, i) ==
    InsertRows(Track(t, "DelLine", p.b.row + i, 0), p.b.row + i, <<p.c.lines[i + 1]>>)
InsertFold == INSTANCE Folding WITH Op <- InsertRound

BlockRows(b)  == [k \in 1 .. EndRow(b) - BegRow(b) + 1 |-> BegRow(b) + k - 1]
BlockNotes(b) == FoldLeft(LAMBDA t, i : Track(t, "RestoreLine", i, Row(b, i)), b, BlockRows(b))

\* Where a block lies.
LEMMA BlockParts ==
    ASSUME NEW b \in Good
    PROVE  /\ BegRow(b) \in 0 .. b.row /\ BegRow(b) \in Nat /\ EndRow(b) \in Nat /\ BegRow(b) <= EndRow(b)
           /\ BegCol(b) \in Nat /\ EndCol(b) \in Nat /\ LeftCol(b) \in Nat /\ RightCol(b) \in Nat
           /\ ~StaleMark(b) => EndRow(b) < Count(b)
<1>1. b.row \in Nat /\ b.col \in Nat /\ b.mrow \in Nat /\ b.mcol \in Nat /\ b.row < Count(b) /\ Count(b) \in Nat
  BY GoodParts DEF Good
<1>2. BegRow(b) \in 0 .. b.row /\ BegRow(b) \in Nat /\ EndRow(b) \in Nat /\ BegRow(b) <= EndRow(b)
  BY <1>1 DEF BegRow, EndRow, Smaller, Larger
<1>3. BegCol(b) \in Nat /\ EndCol(b) \in Nat /\ LeftCol(b) \in Nat /\ RightCol(b) \in Nat
  BY <1>1 DEF BegCol, EndCol, LeftCol, RightCol, Smaller, Larger
<1>4. ~StaleMark(b) => EndRow(b) < Count(b)
  BY <1>1 DEF StaleMark, EndRow, Larger
<1> QED BY <1>2, <1>3, <1>4

\* All rows of the block are noted whole before one of them is another: that is as good as row by row.
LEMMA RewriteEdits ==
    ASSUME NEW b \in Good, ~StaleMark(b), NEW ls \in Seq(Rows), Len(ls) = Count(b),
           \A k \in 1 .. Count(b) : k - 1 \notin BegRow(b) .. EndRow(b) => ls[k] = b.lines[k]
    PROVE  /\ BlockNotes(b).lines = b.lines
           /\ LET c == [BlockNotes(b) EXCEPT !.lines = ls]
              IN Edits(b, c) /\ c.row = b.row /\ c.col = b.col /\ Count(c) = Count(b)
<1> DEFINE n == EndRow(b) - BegRow(b) + 1
           rows == BlockRows(b)
           beg == BegRow(b)
           size == Count(b)
<1>0. /\ n \in Nat /\ beg \in Nat /\ beg + n <= size /\ size \in Nat /\ beg + n - 1 = EndRow(b)
      /\ b.lines \in Seq(Rows) /\ size = Len(b.lines) /\ b \in Tracked /\ b \in Buffers
  BY BlockParts, GoodParts
<1>1. DOMAIN rows = 1 .. n /\ \A k \in 1 .. n : rows[k] = beg + k - 1
  BY DEF BlockRows
<1> HIDE DEF rows, n, beg
<1>2. PICK a : NoteFold!IsTrace(a, b, b, rows, n)
  BY <1>0, <1>1, NoteFold!FoldTrace
<1>3. /\ a[0] = b
      /\ \A k \in 1 .. n : a[k] = Track(a[k - 1], "RestoreLine", rows[k], Row(b, rows[k]))
      /\ NoteFold!Fold(b, b, rows) = a[n]
  BY <1>2 DEF NoteFold!IsTrace, NoteRound
<1>4. BlockNotes(b) = a[n]
  <2>1. FoldLeft(LAMBDA t, i : Track(t, "RestoreLine", i, Row(b, i)), b, rows) = NoteFold!Fold(b, b, rows)
    BY DEF NoteFold!Fold, NoteRound, FoldLeft, MapThenFoldSet, Max,
           NoteFold!FoldLeft, NoteFold!MapThenFoldSet, NoteFold!Max
  <2> QED BY <1>3, <2>1 DEF BlockNotes, rows
<1> DEFINE m(k) == [j \in 1 .. size |-> IF j \in beg + 1 .. beg + k THEN ls[j] ELSE b.lines[j]]
           c(k) == [a[k] EXCEPT !.lines = m(k)]
           T == {k \in 0 .. n : /\ a[k] \in Buffers /\ a[k].lines = b.lines
                                /\ Edits(b, c(k)) /\ c(k).row = b.row /\ c(k).col = b.col}
<1>5. \A k \in Nat : m(k) \in Seq(Rows) /\ Len(m(k)) = size
  <2> DEFINE R == Rows
             rs == b.lines
  <2>1. rs \in Seq(R) /\ ls \in Seq(R) /\ Len(rs) = size /\ Len(ls) = size
    BY <1>0
  <2> HIDE DEF R, rs, size
  <2>2. \A k \in Nat : LET w == [j \in 1 .. size |-> IF j \in beg + 1 .. beg + k THEN ls[j] ELSE rs[j]]
                       IN w \in Seq(R) /\ Len(w) = size
    BY <1>0, <2>1
  <2> QED BY <2>2 DEF R, rs
<1>6. 0 \in T
  <2>1. m(0) = b.lines
    <3>1. \A j \in 1 .. size : m(0)[j] = b.lines[j]
      BY <1>0
    <3>2. m(0) \in Seq(Rows) /\ Len(m(0)) = size
      BY <1>5
    <3> HIDE DEF m
    <3> QED BY <1>0, <3>1, <3>2, SeqEqual
  <2> HIDE DEF m
  <2>2. [b EXCEPT !.lines = b.lines] = b
    BY <1>0 DEF Buffers
  <2>3. Edits(b, b)
    BY NothingDone DEF Edits
  <2>4. c(0) = b
    BY <1>3, <2>1, <2>2
  <2> HIDE DEF c
  <2> QED BY <1>0, <1>3, <2>3, <2>4
<1>7. ASSUME NEW k \in 1 .. n, k - 1 \in T PROVE k \in T
  <2> DEFINE i == beg + k - 1
             p == a[k - 1]
             q == c(k - 1)
             ms == m(k - 1)
             s == ls[i + 1]
  <2>1. p \in Buffers /\ p.lines = b.lines /\ Edits(b, q) /\ q.row = b.row /\ q.col = b.col
    BY <1>7
  <2>2. i \in Nat /\ i < size /\ i + 1 = beg + k /\ k \in Nat /\ k - 1 \in Nat /\ k \in 0 .. n /\ rows[k] = i
    BY <1>0, <1>1
  <2>3. ms \in Seq(Rows) /\ Len(ms) = size /\ m(k) \in Seq(Rows) /\ Len(m(k)) = size
    BY <1>5, <2>2
  <2>4. ms[i + 1] = b.lines[i + 1] /\ [ms EXCEPT ![i + 1] = s] = m(k)
    <3>1. i + 1 \in 1 .. size /\ i + 1 \notin beg + 1 .. beg + (k - 1)
      BY <1>0, <2>2
    <3>2. \A j \in 1 .. size : (j \in beg + 1 .. beg + k) <=> (j = i + 1 \/ j \in beg + 1 .. beg + (k - 1))
      BY <1>0, <2>2, SMTT(30)
    <3> DEFINE w == [ms EXCEPT ![i + 1] = s]
    <3>3. \A j \in 1 .. size : w[j] = m(k)[j]
      BY <3>1, <3>2
    <3>4. w = m(k)
      BY <3>3
    <3> QED BY <3>1, <3>4
  <2>5. s \in Rows
    <3>1. i + 1 \in 1 .. Len(ls)
      BY <1>0, <2>2, SMTT(30)
    <3> QED BY <3>1, ElementOfSeq
  <2>6. q \in Good /\ q \in Buffers
    BY <2>1, GoodParts DEF Edits, Makes
  <2>7. q = [p EXCEPT !.lines = ms]
    OBVIOUS
  <2> HIDE DEF m, c
  <2> HIDE DEF p, q, ms, s, i, size
  <2>8. q.lines = ms
    BY <2>1, <2>7 DEF Buffers
  <2>9. i < Count(q) /\ Row(q, i) = Row(p, i)
    <3>1. i < Count(q) /\ i < Count(p)
      BY <1>0, <2>1, <2>2, <2>3, <2>8 DEF Count
    <3>2. Row(q, i) = ms[i + 1] /\ Row(p, i) = b.lines[i + 1]
      BY <2>1, <2>2, <2>6, <2>8, <3>1, TextIs
    <3> QED BY <2>4, <3>1, <3>2
  <2> DEFINE r == RestoreStep(q, i, s)
             t == Track(p, "RestoreLine", i, Row(p, i))
  <2>10. Edits(q, r) /\ r.row = q.row /\ r.col = q.col /\ r.lines = [q.lines EXCEPT ![i + 1] = s]
    BY <2>2, <2>5, <2>6, <2>9, RestoreEdits
  <2>11. t = a[k] /\ t \in Buffers /\ t.lines = b.lines
    <3>0. Row(b, i) = Row(p, i)
      BY <2>1 DEF Row, Count
    <3>1. t = a[k]
      BY <1>3, <2>2, <3>0 DEF p
    <3>2. [op |-> "RestoreLine", n |-> i, what |-> Row(p, i)] \in Notes
      <4>1. Row(p, i) \in Rows
        BY <2>2, <2>6, <2>9, TextIs
      <4> QED BY <2>2, <4>1, NoteTypes
    <3>3. p \in Tracked
      <4>1. p.flags = q.flags
        BY <2>1, <2>7 DEF Buffers
      <4> QED BY <2>1, <2>6, <4>1, GoodParts DEF Tracked, Has
    <3>4. t \in Buffers /\ t.lines = p.lines
      BY <3>2, <3>3, TrackText
    <3> QED BY <2>1, <3>1, <3>4
  <2>12. r = [t EXCEPT !.lines = m(k)]
    <3>1. Track(q, "RestoreLine", i, Row(p, i)) = [t EXCEPT !.lines = ms]
      <4> DEFINE w == Row(p, i)
      <4> HIDE DEF w
      <4>0. p \in Buffers
        BY <2>1
      <4>2. \A op, m1, what : Track([p EXCEPT !.lines = ms], op, m1, what) = [Track(p, op, m1, what) EXCEPT !.lines = ms]
        BY <4>0, Commutes
      <4>1. Track([p EXCEPT !.lines = ms], "RestoreLine", i, w) = [Track(p, "RestoreLine", i, w) EXCEPT !.lines = ms]
        BY <4>2, Zenon
      <4> QED BY <2>7, <4>1 DEF w
    <3>2. r = SetLine([t EXCEPT !.lines = ms], i, s)
      BY <2>9, <3>1 DEF RestoreStep
    <3> DEFINE u == [t EXCEPT !.lines = ms]
    <3>3. u \in Buffers /\ u.lines = ms
      BY <2>3, <2>11, LinesParts
    <3>4. i < Count(u)
      BY <2>2, <2>3, <3>3 DEF Count
    <3> HIDE DEF t
    <3>5. [u EXCEPT !.lines = m(k)] = [t EXCEPT !.lines = m(k)]
      OBVIOUS
    <3> HIDE DEF u
    <3>6. SetLine(u, i, s) = [u EXCEPT !.lines = [u.lines EXCEPT ![i + 1] = s]]
      BY <2>2, <3>3, <3>4, TextIs
    <3>7. SetLine(u, i, s) = [u EXCEPT !.lines = m(k)]
      BY <2>4, <3>3, <3>6
    <3> QED BY <3>2, <3>5, <3>7 DEF u
  <2>13. Edits(b, r)
    BY <2>1, <2>10, EditsOn
  <2>14. r = c(k)
    BY <2>11, <2>12 DEF c
  <2> HIDE DEF r, t
  <2>15. /\ a[k] \in Buffers /\ a[k].lines = b.lines
         /\ Edits(b, c(k)) /\ c(k).row = b.row /\ c(k).col = b.col
    BY <2>1, <2>10, <2>11, <2>13, <2>14
  <2> QED BY <2>2, <2>15
<1> HIDE DEF T
<1>8. 0 .. n \subseteq T
  BY <1>0, <1>6, <1>7, NoteFold!IntervalIsIn
<1>9. n \in T
  BY <1>0, <1>8
<1>10. m(n) = ls
  <2>1. \A j \in 1 .. size : j \notin beg + 1 .. beg + n => ls[j] = b.lines[j]
    <3>1. \A j \in 1 .. size : j \notin beg + 1 .. beg + n => j - 1 \notin beg .. EndRow(b)
      BY <1>0
    <3> QED BY <3>1 DEF beg
  <2>2. \A j \in 1 .. size : m(n)[j] = ls[j]
    BY <2>1
  <2>3. m(n) \in Seq(Rows) /\ Len(m(n)) = size
    BY <1>0, <1>5
  <2> HIDE DEF m
  <2> QED BY <2>2, <2>3, SeqEqual
<1>11. c(n) = [a[n] EXCEPT !.lines = ls]
  BY <1>10
<1> HIDE DEF c, m
<1>12. a[n].lines = b.lines /\ a[n] \in Buffers /\ Edits(b, c(n)) /\ c(n).row = b.row /\ c(n).col = b.col
  BY <1>9 DEF T
<1> DEFINE d == [BlockNotes(b) EXCEPT !.lines = ls]
<1>13. d = c(n) /\ d.lines = ls
  BY <1>4, <1>11, <1>12 DEF Buffers
<1> HIDE DEF d
<1> QED BY <1>4, <1>12, <1>13 DEF d, Count

\* A row that is not there is used only where the mark is stale; nothing is noted then.
LEMMA TrapTurns ==
    ASSUME NEW b \in Good
    PROVE  LET c == Trap(b)
           IN /\ c \in Good /\ Noted(b, c) /\ c.row = b.row /\ c.col = b.col /\ Count(c) = Count(b)
              /\ c.lines = b.lines /\ c.flags = b.flags
              /\ Marked(b) /\ StaleMark(b) => Turns(b, c)
<1> DEFINE c == Trap(b)
<1>1. b \in Tracked /\ b \in Buffers /\ b.row < Count(b)
  BY GoodParts DEF Good
<1>2. c \in Buffers /\ c.row = b.row /\ c.col = b.col /\ c.lines = b.lines /\ c.flags = b.flags
      /\ c.mrow = b.mrow /\ c.mcol = b.mcol /\ c.track = b.track /\ c.undo = b.undo
  BY <1>1, BufferParts DEF Trap, Buffers
<1> HIDE DEF c
<1>3. c \in Good /\ Count(c) = Count(b)
  BY <1>1, <1>2 DEF Good, Tracked, Has, Count
<1>4. Noted(b, c)
  <2>1. Leads(<<>>, c, b)
    BY <1>2, NoNotes DEF Alike
  <2>2. <<>> \in Seq(Notes) /\ b.track = <<>> \o b.track
    BY <1>1 DEF Buffers
  <2> QED BY <1>2, <1>3, <2>1, <2>2 DEF Noted, Logged, Good, Tracked, Has
<1>5. Marked(b) /\ StaleMark(b) => ~Sound(b)
  BY <1>1, BufferParts, GoodParts DEF Sound, StaleMark
<1> QED BY <1>2, <1>3, <1>4, <1>5 DEF Turns, c

\* Rewriting the rows of the block, whatever they become.
Rewritten(b, f) ==
    IF StaleMark(b) THEN Trap(b)
    ELSE [BlockNotes(b) EXCEPT !.lines = [i \in 1 .. Len(@) |->
             IF i - 1 \in BegRow(b) .. EndRow(b) THEN f[i - 1] ELSE @[i]]]
\* Each row of it may become any other; a block that reaches behind the text is not sound.
LEMMA RewriteTo ==
    ASSUME NEW b \in Good, Marked(b), NEW f, \A i \in Nat : f[i] \in Rows, NEW c, c = Rewritten(b, f)
    PROVE  Turns(b, c) /\ c.row = b.row /\ c.col = b.col /\ Count(c) = Count(b)
<1>1. CASE StaleMark(b)
  BY <1>1, TrapTurns DEF Rewritten
<1>2. CASE ~StaleMark(b)
  <2> DEFINE R == Rows
             rs == b.lines
             n == Count(b)
             beg == BegRow(b)
             end == EndRow(b)
             ls == [i \in 1 .. n |-> IF i - 1 \in beg .. end THEN f[i - 1] ELSE rs[i]]
  <2>1. rs \in Seq(R) /\ n = Len(rs) /\ n \in Nat /\ \A i \in Nat : f[i] \in R
    BY GoodParts
  <2> HIDE DEF R, rs, n, beg, end
  <2>2. ls \in Seq(R) /\ Len(ls) = n /\ \A k \in 1 .. n : k - 1 \notin beg .. end => ls[k] = rs[k]
    BY <2>1
  <2> HIDE DEF ls
  <2>3. /\ BlockNotes(b).lines = b.lines
        /\ LET d == [BlockNotes(b) EXCEPT !.lines = ls]
           IN Edits(b, d) /\ d.row = b.row /\ d.col = b.col /\ Count(d) = Count(b)
    BY <1>2, <2>2, RewriteEdits DEF R, rs, n, beg, end
  <2> DEFINE t == BlockNotes(b)
  <2>4. c = [t EXCEPT !.lines = [i \in 1 .. Len(@) |-> IF i - 1 \in BegRow(b) .. EndRow(b) THEN f[i - 1] ELSE @[i]]]
    BY <1>2 DEF Rewritten
  <2> HIDE DEF t
  <2>5. c = [t EXCEPT !.lines = [i \in 1 .. Len(t.lines) |-> IF i - 1 \in beg .. end THEN f[i - 1] ELSE t.lines[i]]]
    BY <2>4 DEF beg, end
  <2>6. t.lines = rs
    BY <2>3 DEF t, rs
  <2>7. c = [t EXCEPT !.lines = ls]
    BY <2>1, <2>5, <2>6 DEF ls
  <2> QED BY <2>3, <2>7 DEF t, Edits
<1> QED BY <1>1, <1>2

\* A row of the text, the empty one beyond it.
LEMMA RowType == ASSUME NEW b \in Buffers, NEW i \in Nat PROVE Row(b, i) \in Rows
<1>1. CASE i < Count(b)
  BY <1>1, TextIs
<1>2. CASE ~(i < Count(b))
  <2>1. Count(b) \in Nat
    BY TextIs
  <2>2. <<>> \in Rows
    BY DEF Rows
  <2> QED BY <1>2, <2>1, <2>2 DEF Row
<1> QED BY <1>1, <1>2

\* To the corner of what was the block; there is none then.
LEMMA CornerEdits ==
    ASSUME NEW b \in Good, NEW row \in Int, NEW col \in Int
    PROVE  LET c == ToCorner(b, row, col) IN Edits(b, c) /\ ~Marked(c)
<1> DEFINE x == IF b.col # col THEN GotoCol(b, col) ELSE b
           y == IF b.row # row THEN GotoLine(x, row) ELSE x
           z == Unmark(y)
<1>1. Edits(b, x) /\ x \in Good
  <2>1. CASE b.col # col
    BY <2>1, GotoGoes, MovesAre DEF Edits, Makes
  <2>2. CASE b.col = col
    BY <2>2, NothingDone DEF Edits
  <2> QED BY <2>1, <2>2
<1> HIDE DEF x
<1>2. Edits(x, y) /\ y \in Good
  <2>1. CASE b.row # row
    BY <1>1, <2>1, GotoGoes, MovesAre DEF Edits, Makes
  <2>2. CASE b.row = row
    BY <1>1, <2>2, NothingDone DEF Edits
  <2> QED BY <2>1, <2>2
<1> HIDE DEF y
<1>3. Edits(y, z) /\ ~Marked(z)
  BY <1>2, FlagMethods DEF Edits
<1> HIDE DEF z
<1>4. Edits(b, y)
  BY <1>1, <1>2, EditsOn
<1>5. Edits(b, z)
  BY <1>3, <1>4, EditsOn
<1> QED BY <1>3, <1>5 DEF ToCorner, x, y, z

\* The columns of the block are deleted,
LEMMA ClearColumnsTurns ==
    ASSUME NEW b \in Good, Marked(b)
    PROVE  LET c == ClearColumns(b) IN Turns(b, c) /\ ~Marked(c)
<1> DEFINE num == RightCol(b) - LeftCol(b)
           left == LeftCol(b)
           f == [i \in Nat |-> DelChars(Row(b, i), left, num)]
           c == RewriteBlock(b, LAMBDA i : DelChars(Row(b, i), left, num))
           d == ToCorner(c, BegRow(b), left)
<1>1. b \in Buffers /\ left \in Int /\ num \in Int /\ BegRow(b) \in Int
  BY BlockParts, GoodParts
<1> HIDE DEF num, left
<1>2. \A i \in Nat : f[i] \in Rows
  BY <1>1, RowType, DelCharsType DEF Rows
<1>3. c = Rewritten(b, f)
  <2> DEFINE t == BlockNotes(b)
             g == [i \in 1 .. Len(t.lines) |->
                     IF i - 1 \in BegRow(b) .. EndRow(b) THEN DelChars(Row(b, i - 1), left, num) ELSE t.lines[i]]
             h == [i \in 1 .. Len(t.lines) |-> IF i - 1 \in BegRow(b) .. EndRow(b) THEN f[i - 1] ELSE t.lines[i]]
  <2>1. c = IF StaleMark(b) THEN Trap(b) ELSE [t EXCEPT !.lines = g]
    BY Zenon DEF RewriteBlock, BlockNotes, BlockRows
  <2> HIDE DEF t
  <2>2. g = h
    OBVIOUS
  <2>3. [t EXCEPT !.lines = h] = [t EXCEPT !.lines = [i \in 1 .. Len(@) |->
            IF i - 1 \in BegRow(b) .. EndRow(b) THEN f[i - 1] ELSE @[i]]]
    BY Zenon
  <2> HIDE DEF g, h, c
  <2> QED BY <2>1, <2>2, <2>3 DEF t, Rewritten
<1> HIDE DEF c, f
<1>4. Turns(b, c) /\ c \in Good
  BY <1>2, <1>3, RewriteTo DEF Turns
<1>5. Edits(c, d) /\ ~Marked(d)
  BY <1>1, <1>4, CornerEdits
<1> HIDE DEF d
<1>6. Turns(b, d)
  BY <1>4, <1>5, TurnsOn DEF Edits
<1> QED BY <1>5, <1>6 DEF ClearColumns, d, c, num, left

\* Where the block begins and ends in a row.
LEMMA BlockColumns ==
    ASSUME NEW b \in Good, NEW i \in Nat
    PROVE  FirstCol(b, i) \in Nat /\ ToCol(b, i) \in Nat
<1>1. BegCol(b) \in Nat /\ EndCol(b) \in Nat /\ LeftCol(b) \in Nat /\ RightCol(b) \in Nat
  BY BlockParts
<1>2. Len(Row(b, i)) \in Nat
  BY GoodParts, RowType, LenProperties DEF Rows
<1> QED BY <1>1, <1>2 DEF FirstCol, ToCol

\* The columns of a line in upper case.
LEMMA UpperType ==
    ASSUME NEW s \in Rows, NEW from \in Nat, NEW to \in Nat PROVE UpperCols(s, from, to) \in Rows
<1> DEFINE t == Pad(s, to - 1)
<1>1. Blank \in Letters
  BY DEF Letters
<1>2. t \in Seq(Letters)
  BY <1>1, PadType DEF Rows
<1> HIDE DEF t
<1>3. \A ch \in Letters : Upper(ch) \in Letters
  <2>1. "A" \in Letters
    BY DEF Letters
  <2> HIDE DEF Letters
  <2> QED BY <2>1 DEF Upper
<1> DEFINE u == [i \in 1 .. Len(t) |-> IF i \in from + 1 .. to THEN Upper(t[i]) ELSE t[i]]
           L == Letters
<1>4. u \in Seq(L)
  <2> DEFINE w == [i \in 1 .. Len(t) |-> Upper(t[i])]
  <2>1. t \in Seq(L) /\ \A i \in 1 .. Len(t) : Upper(t[i]) \in L
    BY <1>2, <1>3
  <2> HIDE DEF L
  <2> QED BY <2>1
<1> HIDE DEF u
<1> QED BY <1>4 DEF UpperCols, Rows, t, u

\* or the rows of the block are indented,
LEMMA IndentBlockTurns ==
    ASSUME NEW b \in Good, Marked(b)
    PROVE  LET c == IndentBlock(b) IN Turns(b, c) /\ c.row = b.row /\ c.col = b.col /\ Count(c) = Count(b)
<1> DEFINE Of(i) == IF Untouched(b, i) THEN Row(b, i) ELSE InsChars(Row(b, i), FirstCol(b, i), <<Blank>>)
           f == [i \in Nat |-> Of(i)]
           c == IndentBlock(b)
<1>1. b \in Buffers
  BY GoodParts
<1>2. ASSUME NEW i \in Nat PROVE Of(i) \in Rows
  <2>1. Row(b, i) \in Rows /\ FirstCol(b, i) \in Int
    BY <1>1, RowType, BlockColumns
  <2>2. <<Blank>> \in Seq(Letters) /\ Blank \in Letters
    BY DEF Letters
  <2> QED BY <2>1, <2>2, InsCharsType DEF Rows
<1>3. \A i \in Nat : f[i] \in Rows
  BY <1>2
<1>4. c = Rewritten(b, f)
  <2> DEFINE t == BlockNotes(b)
             g == [i \in 1 .. Len(t.lines) |->
                     IF i - 1 \in BegRow(b) .. EndRow(b) THEN Of(i - 1) ELSE t.lines[i]]
             h == [i \in 1 .. Len(t.lines) |-> IF i - 1 \in BegRow(b) .. EndRow(b) THEN f[i - 1] ELSE t.lines[i]]
  <2>1. c = IF StaleMark(b) THEN Trap(b) ELSE [t EXCEPT !.lines = g]
    BY Zenon DEF IndentBlock, RewriteBlock, BlockNotes, BlockRows
  <2> HIDE DEF t, Of
  <2>2. g = h
    <3>1. \A i \in Nat : f[i] = Of(i)
      OBVIOUS
    <3> HIDE DEF f
    <3> QED BY <3>1
  <2>3. [t EXCEPT !.lines = h] = [t EXCEPT !.lines = [i \in 1 .. Len(@) |->
            IF i - 1 \in BegRow(b) .. EndRow(b) THEN f[i - 1] ELSE @[i]]]
    BY Zenon
  <2> HIDE DEF g, h, c
  <2> QED BY <2>1, <2>2, <2>3 DEF t, Rewritten
<1> HIDE DEF c, f, Of
<1>5. Turns(b, c) /\ c.row = b.row /\ c.col = b.col /\ Count(c) = Count(b)
  BY <1>3, <1>4, RewriteTo
<1> QED BY <1>5 DEF c

\* or unindented,
LEMMA UnindentBlockTurns ==
    ASSUME NEW b \in Good, Marked(b)
    PROVE  LET c == UnindentBlock(b) IN Turns(b, c) /\ c.row = b.row /\ c.col = b.col /\ Count(c) = Count(b)
<1> DEFINE keep(i) == \/ Untouched(b, i)
                      \/ SpacesOnly /\ ~IsColumn(b) /\ CharAt(Row(b, i), FirstCol(b, i)) # Blank
           Of(i) == IF keep(i) THEN Row(b, i) ELSE DelChars(Row(b, i), FirstCol(b, i), 1)
           f == [i \in Nat |-> Of(i)]
           c == UnindentBlock(b)
<1>1. b \in Buffers
  BY GoodParts
<1>2. ASSUME NEW i \in Nat PROVE Of(i) \in Rows
  <2>1. Row(b, i) \in Rows /\ FirstCol(b, i) \in Int
    BY <1>1, RowType, BlockColumns
  <2> QED BY <2>1, DelCharsType DEF Rows
<1>3. \A i \in Nat : f[i] \in Rows
  BY <1>2
<1>4. c = Rewritten(b, f)
  <2> DEFINE t == BlockNotes(b)
             g == [i \in 1 .. Len(t.lines) |->
                     IF i - 1 \in BegRow(b) .. EndRow(b) THEN Of(i - 1) ELSE t.lines[i]]
             h == [i \in 1 .. Len(t.lines) |-> IF i - 1 \in BegRow(b) .. EndRow(b) THEN f[i - 1] ELSE t.lines[i]]
  <2>1. c = IF StaleMark(b) THEN Trap(b) ELSE [t EXCEPT !.lines = g]
    BY Zenon DEF UnindentBlock, RewriteBlock, BlockNotes, BlockRows
  <2> HIDE DEF t, Of, keep
  <2>2. g = h
    <3>1. \A i \in Nat : f[i] = Of(i)
      OBVIOUS
    <3> HIDE DEF f
    <3> QED BY <3>1
  <2>3. [t EXCEPT !.lines = h] = [t EXCEPT !.lines = [i \in 1 .. Len(@) |->
            IF i - 1 \in BegRow(b) .. EndRow(b) THEN f[i - 1] ELSE @[i]]]
    BY Zenon
  <2> HIDE DEF g, h, c
  <2> QED BY <2>1, <2>2, <2>3 DEF t, Rewritten
<1> HIDE DEF c, f, Of
<1>5. Turns(b, c) /\ c.row = b.row /\ c.col = b.col /\ Count(c) = Count(b)
  BY <1>3, <1>4, RewriteTo
<1> QED BY <1>5 DEF c

\* or put in upper case.
LEMMA UpperBlockTurns ==
    ASSUME NEW b \in Good, Marked(b)
    PROVE  LET c == UpperBlock(b) IN Turns(b, c) /\ c.row = b.row /\ c.col = b.col /\ Count(c) = Count(b)
<1> DEFINE Of(i) == UpperCols(Row(b, i), FirstCol(b, i), ToCol(b, i))
           f == [i \in Nat |-> Of(i)]
           c == UpperBlock(b)
<1>1. b \in Buffers
  BY GoodParts
<1>2. ASSUME NEW i \in Nat PROVE Of(i) \in Rows
  BY <1>1, RowType, BlockColumns, UpperType
<1>3. \A i \in Nat : f[i] \in Rows
  BY <1>2
<1>4. c = Rewritten(b, f)
  <2> DEFINE t == BlockNotes(b)
             g == [i \in 1 .. Len(t.lines) |->
                     IF i - 1 \in BegRow(b) .. EndRow(b) THEN Of(i - 1) ELSE t.lines[i]]
             h == [i \in 1 .. Len(t.lines) |-> IF i - 1 \in BegRow(b) .. EndRow(b) THEN f[i - 1] ELSE t.lines[i]]
  <2>1. c = IF StaleMark(b) THEN Trap(b) ELSE [t EXCEPT !.lines = g]
    BY Zenon DEF UpperBlock, RewriteBlock, BlockNotes, BlockRows
  <2> HIDE DEF t, Of
  <2>2. g = h
    <3>1. \A i \in Nat : f[i] = Of(i)
      OBVIOUS
    <3> HIDE DEF f
    <3> QED BY <3>1
  <2>3. [t EXCEPT !.lines = h] = [t EXCEPT !.lines = [i \in 1 .. Len(@) |->
            IF i - 1 \in BegRow(b) .. EndRow(b) THEN f[i - 1] ELSE @[i]]]
    BY Zenon
  <2> HIDE DEF g, h, c
  <2> QED BY <2>1, <2>2, <2>3 DEF t, Rewritten
<1> HIDE DEF c, f, Of
<1>5. Turns(b, c) /\ c.row = b.row /\ c.col = b.col /\ Count(c) = Count(b)
  BY <1>3, <1>4, RewriteTo
<1> QED BY <1>5 DEF c

\* What left no mark behind is an edit like the others.
LEMMA UnmarkedEdits == ASSUME NEW b \in Good, NEW c, Makes(b, c), ~Marked(c) PROVE Edits(b, c)
  BY DEF Edits, Makes, Turns, Sound

\* The rows between the ends of a stream go as one block, and the cursor goes to the first of the ends.
LEMMA DropRowsMakes ==
    ASSUME NEW b \in Good, NEW beg \in 0 .. Count(b) - 1, NEW end \in Nat
    PROVE  LET c == GotoLine(DropRows(b, beg, end), beg) IN Makes(b, c)
<1> DEFINE d == DropRows(b, beg, end)
           c == GotoLine(d, beg)
<1>0. b \in Tracked /\ b \in Buffers /\ b.lines \in Seq(Rows) /\ Count(b) \in Nat /\ Count(b) = Len(b.lines) /\ beg \in Nat
      /\ beg \in Int
  BY GoodParts
<1>1. CASE end <= beg + 1
  <2>1. d = b
    BY <1>1 DEF DropRows
  <2> HIDE DEF d
  <2>2. Goes(b, c)
    BY <1>0, <2>1, GotoGoes
  <2> HIDE DEF c
  <2> QED BY <2>2, MovesAre DEF c, d
<1>2. CASE ~(end <= beg + 1)
  <2> DEFINE i == beg + 1
             size == Count(b)
             j == Smaller(end, size)
             ls == Drop(b.lines, i, j)
             t == Track(b, "InsBlock", i, SubSeq(b.lines, i + 1, j))
  <2>1. i \in Nat /\ j \in Nat /\ i <= j /\ j <= size /\ size \in Nat /\ size - (j - i) \in Nat /\ beg < size - (j - i)
    <3>1. size \in Nat /\ beg \in Nat /\ beg < size /\ end > beg + 1
      BY <1>0, <1>2
    <3>2. (end < size /\ j = end) \/ (end >= size /\ j = size)
      BY <3>1 DEF Smaller
    <3> HIDE DEF size, j
    <3> QED BY <3>1, <3>2
  <2>2. t.lines = b.lines
    <3> HIDE DEF i, j
    <3> QED BY <1>0, <2>1, BlockNoted
  <2>3. d = [t EXCEPT !.lines = ls]
    <3>1. i + 1 = beg + 2
      BY <1>0
    <3>2. SubSeq(b.lines, end + 1, size) = SubSeq(b.lines, j + 1, size)
      <4>1. CASE end <= size
        <5>1. j = end
          BY <1>0, <4>1 DEF Smaller
        <5> QED BY <5>1
      <4>2. CASE ~(end <= size)
        <5>1. j = size
          BY <1>0, <4>2 DEF Smaller
        <5>2. end + 1 > size /\ size + 1 > size /\ end + 1 \in Nat
          BY <1>0, <4>2
        <5> DEFINE rs == b.lines
                   R == Rows
        <5>3. rs \in Seq(R) /\ size = Len(rs)
          BY <1>0
        <5> HIDE DEF rs, R, size
        <5>4. SubSeq(rs, end + 1, size) = << >> /\ SubSeq(rs, size + 1, size) = << >>
          BY <1>0, <2>1, <5>2, <5>3
        <5> QED BY <5>1, <5>4 DEF rs
      <4> QED BY <4>1, <4>2
    <3>3. d = [t EXCEPT !.lines = SubSeq(@, 1, beg + 1) \o SubSeq(@, end + 1, Len(@))]
      <4>1. d = [Track(b, "InsBlock", beg + 1, SubSeq(b.lines, beg + 2, Smaller(end, Count(b)))) EXCEPT
             !.lines = SubSeq(@, 1, beg + 1) \o SubSeq(@, end + 1, Len(@))]
        BY <1>2, Zenon DEF DropRows
      <4>2. t = Track(b, "InsBlock", beg + 1, SubSeq(b.lines, beg + 2, Smaller(end, Count(b))))
        BY <3>1
      <4> QED BY <4>1, <4>2, Zenon
    <3> HIDE DEF t
    <3>4. d = [t EXCEPT !.lines = SubSeq(t.lines, 1, beg + 1) \o SubSeq(t.lines, end + 1, Len(t.lines))]
      BY <3>3
    <3> HIDE DEF d
    <3> QED BY <1>0, <2>2, <3>2, <3>4 DEF Drop
  <2>4. TextOf(b, d, ls) /\ Len(ls) = size - (j - i)
    <3> HIDE DEF i, j, d
    <3> QED BY <1>0, <2>1, <2>3, BlockNoted
  <2> HIDE DEF d, ls, i, j, size, t
  <2>5. d \in Tracked /\ Noted(b, d) /\ Edited(b, d) /\ Count(d) = size - (j - i)
    BY <2>4 DEF TextOf, Count
  <2>6. c = SetRow(d, beg)
    BY <1>0, <2>1, <2>5 DEF GotoLine
  <2> HIDE DEF c
  <2>7. c \in Tracked /\ Noted(d, c) /\ Moved(d, c) /\ c.row = beg
    BY <1>0, <2>5, <2>6, SetRowNoted
  <2>8. Noted(b, c)
    BY <1>0, <2>5, <2>7, NotedOn
  <2>9. c \in Good
    BY <2>1, <2>5, <2>7 DEF Good, Moved, Count
  <2>10. c.trap = b.trap /\ (Marked(c) => Marked(b))
    BY <2>5, <2>7 DEF Edited, Moved, Marked, Has
  <2> QED BY <2>8, <2>9, <2>10 DEF Makes, c, d
<1> QED BY <1>1, <1>2

\* The stream of the block is deleted; a mark below the text is fatal unless the cursor is in column 0.
LEMMA ClearStreamTurns == ASSUME NEW b \in Good, Marked(b) PROVE Turns(b, ClearStream(b))
<1> DEFINE beg == BegRow(b)
           end == EndRow(b)
           from == BegCol(b)
           to == EndCol(b)
           c1 == GotoLine(b, beg)
           c2 == CutLine(c1, from)
           c3 == GotoLine(c2, end)
           c4 == LineDel(c3, 0, to)
           c5 == GotoLine(DropRows(c4, beg, end), beg)
           c6 == GotoCol(c5, from)
           c7 == DelChar(c6)
           c8 == Unmark(c7)
<1>0. /\ beg \in 0 .. Count(b) - 1 /\ beg \in Int /\ end \in Nat /\ end \in Int /\ from \in Int /\ to \in Int
      /\ 0 \in Int
  BY BlockParts, GoodParts DEF Good
<1> HIDE DEF beg, end, from, to
<1>1. Makes(b, c1) /\ Count(c1) = Count(b) /\ c1 \in Good
  BY <1>0, GotoGoes, MovesAre DEF Makes
<1> HIDE DEF c1
<1>2. Makes(c1, c2) /\ Count(c2) = Count(c1) /\ c2 \in Good
  BY <1>0, <1>1, CharEdits DEF Makes
<1> HIDE DEF c2
<1>3. Makes(c2, c3) /\ Count(c3) = Count(c2) /\ c3 \in Good
  BY <1>0, <1>2, GotoGoes, MovesAre DEF Makes
<1> HIDE DEF c3
<1>4. Makes(c3, c4) /\ Count(c4) = Count(c3) /\ c4 \in Good
  BY <1>0, <1>3, CharEdits, ZenonT(60) DEF Makes
<1> HIDE DEF c4
<1>5. Makes(c4, c5) /\ c5 \in Good
  <2>1. beg \in 0 .. Count(c4) - 1
    BY <1>0, <1>1, <1>2, <1>3, <1>4
  <2>2. Makes(c4, c5)
    BY <1>0, <1>4, <2>1, DropRowsMakes
  <2> HIDE DEF c5
  <2> QED BY <2>2 DEF Makes
<1> HIDE DEF c5
<1>6. Makes(c5, c6) /\ c6 \in Good
  BY <1>0, <1>5, GotoGoes, MovesAre DEF Makes
<1> HIDE DEF c6
<1>7. Makes(c6, c7) /\ c7 \in Good
  BY <1>6, DelCharEdits DEF Makes, Edits
<1> HIDE DEF c7
<1>8. Makes(c7, c8) /\ ~Marked(c8)
  BY <1>7, FlagMethods
<1> HIDE DEF c8
<1>9. Makes(b, c4)
  <2>1. Makes(b, c2)
    BY <1>1, <1>2, MakesOn
  <2>2. Makes(b, c3)
    BY <1>3, <2>1, MakesOn
  <2> QED BY <1>4, <2>2, MakesOn
<1>10. Makes(b, c8)
  <2>1. Makes(b, c5)
    BY <1>5, <1>9, MakesOn
  <2>2. Makes(b, c6)
    BY <1>6, <2>1, MakesOn
  <2>3. Makes(b, c7)
    BY <1>7, <2>2, MakesOn
  <2> QED BY <1>8, <2>3, MakesOn
<1>11. Turns(b, c8)
  BY <1>8, <1>10, UnmarkedEdits DEF Edits
<1>12. ClearStream(b) = IF StaleMark(b) /\ to > 0 THEN Trap(b) ELSE c8
  BY Zenon DEF ClearStream, c8, c7, c6, c5, c4, c3, c2, c1, beg, end, from, to
<1> QED BY <1>11, <1>12, TrapTurns

\* The block is deleted, whatever its shape.
LEMMA ClearTurns ==
    ASSUME NEW b \in Good
    PROVE  Acts(b, Clear(b)) /\ (~Marked(b) => Clear(b) = b)
<1> DEFINE a == SetChanged(b, TRUE)
<1>1. CASE ~Marked(b)
  <2>1. Clear(b) = b
    BY <1>1 DEF Clear, Marked
  <2>2. Same(b, b)
    BY DEF Same
  <2> QED BY <2>1, <2>2, NothingDone DEF Acts, Owns
<1>2. CASE Marked(b)
  <2>1. Turns(b, a) /\ Marked(a) /\ a \in Good /\ Writes(b, a)
    BY <1>2, FlagMethods DEF Kept, Turns, Writes
  <2>2. Clear(b) = IF IsColumn(b) THEN ClearColumns(a) ELSE ClearStream(a)
    BY <1>2 DEF Clear, Marked
  <2> HIDE DEF a
  <2>3. Turns(a, ClearColumns(a)) /\ Turns(a, ClearStream(a))
    BY <2>1, ClearColumnsTurns, ClearStreamTurns
  <2>4. Acts(b, ClearColumns(a)) /\ Acts(b, ClearStream(a))
    BY <2>1, <2>3, WritesOn, WritesAct
  <2> QED BY <1>2, <2>2, <2>4
<1> QED BY <1>1, <1>2

\* The block is cut.
LEMMA CutTurns == ASSUME NEW b \in Good PROVE Acts(b, Cut(b))
<1> DEFINE c == Clear(b)
           d == SetChanged(c, TRUE)
<1>1. Turns(b, c) /\ c \in Good
  BY ClearTurns DEF Turns, Acts
<1> HIDE DEF c
<1>2. Turns(c, d) /\ Writes(c, d)
  BY <1>1, FlagMethods DEF Writes
<1>3. Acts(b, d)
  BY <1>1, <1>2, WritesOn, WritesAct
<1>5. Marked(b) /\ StaleMark(b) => Acts(b, Trap(b))
  <2>1. Same(b, Trap(b))
    BY TrapTurns DEF Same, Has
  <2> QED BY <2>1, TrapTurns DEF Acts, Owns
<1>6. Acts(b, b)
  BY NothingDone DEF Acts, Owns, Same
<1>4. Cut(b) = IF ~Marked(b) THEN b ELSE IF StaleMark(b) THEN Trap(b) ELSE d
  BY DEF Cut, Marked, d, c
<1> QED BY <1>3, <1>4, <1>5, <1>6

\* The commands that indent the block or the line,
LEMMA IndentTurns == ASSUME NEW b \in Good PROVE Writes(b, Indent(b)) /\ Writes(b, Unindent(b))
<1> DEFINE a == SetChanged(b, TRUE)
           c == IF Marked(b) THEN IndentBlock(a) ELSE LineIns(a, 0, <<Blank>>)
           d == IF Marked(b) THEN UnindentBlock(a) ELSE DelCols(a, 0, 1)
<1>1. Turns(b, a) /\ a \in Good /\ (Marked(a) <=> Marked(b)) /\ Writes(b, a)
  BY FlagMethods DEF Turns, Kept, Writes
<1>2. Indent(b) = c /\ Unindent(b) = d
  BY DEF Indent, Unindent, Marked
<1>3. <<Blank>> \in Rows
  <2>1. Blank \in Letters
    BY DEF Letters
  <2> QED BY <2>1 DEF Rows
<1> HIDE DEF a
<1>4. Turns(a, c)
  <2>1. 0 \in Int
    OBVIOUS
  <2>2. Turns(a, LineIns(a, 0, <<Blank>>))
    BY <1>1, <1>3, <2>1, CharEdits
  <2>3. Marked(b) => Turns(a, IndentBlock(a))
    BY <1>1, IndentBlockTurns
  <2> QED BY <2>2, <2>3
<1>5. Turns(a, d)
  <2>1. 0 \in Int /\ 1 \in Int
    OBVIOUS
  <2>2. Turns(a, DelCols(a, 0, 1))
    BY <1>1, <2>1, DelColsEdits DEF Edits
  <2>3. Marked(b) => Turns(a, UnindentBlock(a))
    BY <1>1, UnindentBlockTurns
  <2> QED BY <2>2, <2>3
<1> HIDE DEF c, d
<1> QED BY <1>1, <1>2, <1>4, <1>5, WritesOn

\* or put the block or the character in upper case.
LEMMA UpperTurns == ASSUME NEW b \in Good PROVE Writes(b, ToUpper(b))
<1> DEFINE a == SetChanged(b, TRUE)
           ch == Upper(AbsChar(b, 0))
           r == ReplaceChar(a, ch)
           c == CursorLeft(r, 1)
<1>1. Turns(b, a) /\ a \in Good /\ (Marked(a) <=> Marked(b)) /\ Writes(b, a)
  BY FlagMethods DEF Turns, Kept, Writes
<1>2. ToUpper(b) = IF Marked(b) THEN UpperBlock(a) ELSE IF AbsChar(b, 0) = Nul THEN a ELSE c
  BY DEF ToUpper, Marked
<1> HIDE DEF a
<1>3. AbsChar(b, 0) # Nul => ch \in Letters
  <2> DEFINE s == AbsLine(b)
             L == Letters
             k == b.col + 0
  <2>1. s \in Seq(L) /\ k \in Nat
    BY GoodParts DEF Rows
  <2> HIDE DEF s, L, k
  <2>2. CharAt(s, k) # Nul => CharAt(s, k) \in L
    BY <2>1 DEF CharAt
  <2>3. \A x \in Letters : Upper(x) \in Letters
    <3>1. "A" \in Letters
      BY DEF Letters
    <3> QED BY <3>1 DEF Upper
  <2>4. AbsChar(b, 0) = CharAt(s, k)
    BY DEF AbsChar, s, k
  <2> QED BY <2>2, <2>3, <2>4 DEF L
<1> HIDE DEF ch
<1>4. AbsChar(b, 0) # Nul => Turns(a, c)
  <2> SUFFICES ASSUME AbsChar(b, 0) # Nul PROVE Turns(a, c)
    OBVIOUS
  <2>1. Turns(a, r) /\ r \in Good
    BY <1>1, <1>3, ReplaceEdits DEF Alters, Edits, Turns
  <2> HIDE DEF r
  <2>2. Turns(r, c)
    <3>1. 1 \in Int
      OBVIOUS
    <3> QED BY <2>1, <3>1, StepGoes, MovesAre
  <2> HIDE DEF c
  <2> QED BY <1>1, <2>1, <2>2, TurnsOn
<1> HIDE DEF c
<1>5. Marked(b) => Turns(a, UpperBlock(a))
  BY <1>1, UpperBlockTurns
<1>6. Turns(a, ToUpper(b)) 
  BY <1>1, <1>2, <1>4, <1>5, NothingDone
<1> QED BY <1>1, <1>6, WritesOn

\* Backspace deletes to the left of the cursor, or joins the line to the one above, after the block is gone.
LEMMA DelBeforeTurns == ASSUME NEW b \in Good PROVE Turns(b, DelBefore(b))
<1> DEFINE l == CursorLeft(b, 1)
           c == DeleteHere(l)
           u == CursorUp(b)
           e == LineEnd(u)
           d == DelChar(e)
<1>1. Goes(b, l) /\ l \in Good
  <2>1. 1 \in Int
    OBVIOUS
  <2> QED BY <2>1, StepGoes DEF Goes
<1> HIDE DEF l
<1>2. Turns(b, c)
  <2>1. Turns(b, l)
    BY <1>1, MovesAre
  <2>2. Turns(l, c)
    BY <1>1, DeleteEdits DEF Edits
  <2> HIDE DEF c
  <2> QED BY <2>1, <2>2, TurnsOn
<1> HIDE DEF c
<1>3. Goes(b, u) /\ u \in Good
  BY StepGoes DEF Goes
<1> HIDE DEF u
<1>4. Goes(u, e) /\ e \in Good
  BY <1>3, EndGoes DEF Goes
<1> HIDE DEF e
<1>5. Goes(b, e)
  BY <1>3, <1>4, GoesOn
<1>6. Turns(b, e)
  BY <1>5, MovesAre
<1>7. Turns(e, d)
  BY <1>4, DelCharEdits DEF Edits
<1> HIDE DEF d
<1>8. Turns(b, d)
  BY <1>6, <1>7, TurnsOn
<1>9. DelBefore(b) = IF b.trap THEN b ELSE IF b.col > 0 THEN c ELSE IF b.row > 0 THEN d ELSE b
  BY DEF DelBefore, c, l, d, e, u
<1> QED BY <1>2, <1>8, <1>9, NothingDone

\* Backspace clears the block first, if there is one.
LEMMA BackSpaceTurns == ASSUME NEW b \in Good PROVE Writes(b, BackSpace(b))
<1> DEFINE a == SetChanged(b, TRUE)
           c == Clear(a)
           d == DelBefore(c)
<1>1. Turns(b, a) /\ a \in Good /\ Writes(b, a)
  BY FlagMethods DEF Turns, Writes
<1> HIDE DEF a
<1>2. Turns(a, c) /\ c \in Good
  BY <1>1, ClearTurns DEF Turns, Acts
<1> HIDE DEF c
<1>3. Turns(c, d)
  BY <1>2, DelBeforeTurns
<1> HIDE DEF d
<1>4. Turns(b, c) /\ Writes(b, c)
  BY <1>1, <1>2, WritesOn DEF Writes
<1>5. Writes(b, d)
  BY <1>3, <1>4, WritesOn
<1> QED BY <1>5 DEF BackSpace, a, c, d

\* The word to the left of the cursor: the cursor moves while the line is cut, as if it had moved after it.
LEMMA DelWordToTurns ==
    ASSUME NEW b \in Good, NEW from \in Nat
    PROVE  Turns(b, DelWordTo(b, from, AbsLine(b)))
<1> DEFINE row == b.row
           num == b.col - from
           new == DelChars(AbsLine(b), from, num)
           r == RestoreStep(b, row, new)
           t == Track(b, "RestoreLine", row, Row(b, row))
           ls == [b.lines EXCEPT ![row + 1] = new]
           c == MoveCol(r, from)
           w == MoveCol(t, from)
<1>0. b \in Tracked /\ b \in Buffers /\ row \in Nat /\ row < Count(b) /\ AbsLine(b) = Row(b, row) /\ AbsLine(b) \in Rows
  BY GoodParts DEF AbsLine, Good
<1>1. new \in Rows
  <2>1. num \in Int
    BY GoodParts
  <2> HIDE DEF num
  <2> QED BY <1>0, <2>1, DelCharsType DEF Rows
<1> HIDE DEF new
<1>2. Turns(b, r) /\ r \in Good /\ r.lines = ls /\ r.col = b.col
  BY <1>0, <1>1, RestoreEdits DEF Edits, Turns
<1>3. t \in Buffers /\ t.lines = b.lines /\ t.col = b.col
  <2>1. [op |-> "RestoreLine", n |-> row, what |-> Row(b, row)] \in Notes
    <3> DEFINE old == Row(b, row)
    <3>1. old \in Rows
      BY <1>0
    <3> HIDE DEF old
    <3> QED BY <1>0, <3>1, NoteTypes
  <2> DEFINE old == Row(b, row)
  <2> HIDE DEF old
  <2> QED BY <1>0, <2>1, TrackText DEF old
<1>4. r = [t EXCEPT !.lines = ls]
  <2>1. r = SetLine(t, row, new)
    BY DEF RestoreStep
  <2>2. row < Count(t)
    BY <1>0, <1>3 DEF Count
  <2> HIDE DEF t, r
  <2> QED BY <1>0, <1>3, <2>1, <2>2, TextIs
<1> HIDE DEF t, r
<1>5. c = [w EXCEPT !.lines = ls] /\ w.lines = b.lines /\ w \in Buffers
  <2>1. CASE from = b.col
    BY <1>2, <1>3, <1>4, <2>1 DEF MoveCol
  <2>2. CASE from # b.col
    <3>1. c = SetCol(r, from) /\ w = SetCol(t, from)
      BY <1>2, <1>3, <2>2 DEF MoveCol
    <3>2. SetCol([t EXCEPT !.lines = ls], from) = [SetCol(t, from) EXCEPT !.lines = ls]
      <4>1. \A k : SetCol([t EXCEPT !.lines = ls], k) = [SetCol(t, k) EXCEPT !.lines = ls]
        BY <1>3, Commutes
      <4> QED BY <4>1, Zenon
    <3>3. t \in Tracked
      <4>1. r.flags = t.flags
        BY <1>3, <1>4, LinesParts DEF Buffers
      <4> QED BY <1>2, <1>3, <4>1, GoodParts DEF Tracked, Has
    <3>4. w \in Buffers /\ w.lines = t.lines
      BY <3>1, <3>3, SetColNoted DEF Moved, Tracked
    <3> QED BY <1>3, <1>4, <3>1, <3>2, <3>4
  <2> QED BY <2>1, <2>2
<1>6. DelWordTo(b, from, AbsLine(b)) = SetLine(w, row, new)
  BY <1>0 DEF DelWordTo, t, new
<1> HIDE DEF w, c
<1>7. SetLine(w, row, new) = c
  <2>1. row < Count(w)
    BY <1>0, <1>5 DEF Count
  <2> QED BY <1>0, <1>5, <2>1, TextIs
<1>8. Turns(r, c)
  BY <1>2, ColGoes, MovesAre DEF c
<1>9. Turns(b, c)
  BY <1>2, <1>8, TurnsOn
<1> QED BY <1>6, <1>7, <1>9

\* The word before the cursor is deleted, or what Backspace deletes where there is none.
LEMMA DelWordLeftTurns == ASSUME NEW b \in Good PROVE Writes(b, DelWordLeft(b))
<1> DEFINE a == Modified(b)
           s == AbsLine(a)
           Other(k) == ~SameRun(CharAt(s, k - 1), CharAt(s, a.col - 1))
           from == Back(a.col, Other)
           l == LineEnd(a)
           r == BackSpace(a)
           w == DelWordTo(a, from, s)
<1>1. Turns(b, a) /\ a \in Good /\ AbsLine(b) = s /\ Writes(b, a)
  BY FlagMethods DEF Turns, Flagged, AbsLine, Row, Count, Writes
<1>2. DelWordLeft(b) = IF a.col > Len(s) THEN l ELSE IF a.col = 0 THEN r ELSE w
  <2>1. DelWordLeft(b) = DelWordBefore(a, s)
    BY <1>1 DEF DelWordLeft
  <2>2. DelWordBefore(a, s) = IF a.col > Len(s) THEN l ELSE IF a.col = 0 THEN r ELSE w
    BY Zenon DEF DelWordBefore, WordStart
  <2> QED BY <2>1, <2>2
<1>3. a.col \in Nat
  BY <1>1, GoodParts
<1> HIDE DEF a, s
<1>4. from \in 0 .. a.col
  <2> DEFINE D == {k \in 0 .. a.col : Other(k)}
  <2> HIDE DEF Other
  <2>1. \E k \in 0 .. a.col : (k = 0 \/ k \in D) /\ \A j \in k + 1 .. a.col : j \notin D
    <3> HIDE DEF D
    <3> QED BY <1>3, LastStop
  <2>2. \E k \in 0 .. a.col : (k = 0 \/ Other(k)) /\ \A j \in k + 1 .. a.col : ~Other(j)
    BY <1>3, <2>1
  <2> QED BY <2>2 DEF Back
<1> HIDE DEF from
<1>5. Turns(a, w)
  BY <1>1, <1>3, <1>4, DelWordToTurns DEF s
<1>6. Turns(a, l)
  BY <1>1, EndGoes, MovesAre
<1>7. Turns(a, r)
  BY <1>1, BackSpaceTurns DEF Writes
<1> HIDE DEF w, l, r
<1>8. Turns(a, DelWordLeft(b))
  BY <1>2, <1>5, <1>6, <1>7
<1> QED BY <1>1, <1>8, WritesOn

-----------------------------------------------------------------------------
(***************************************************************************)
(* The clipboard.                                                          *)
(***************************************************************************)
Clips == {c \in [lines : Seq(Rows), column : BOOLEAN] : c.lines # <<>>}
Pairs(b, c) == [b |-> b, c |-> c]

\* What is where in a clipboard that holds something.
LEMMA ClipParts ==
    ASSUME NEW c \in Clips
    PROVE  /\ c.lines \in Seq(Rows) /\ Len(c.lines) \in Nat \ {0}
           /\ \A i \in 1 .. Len(c.lines) : c.lines[i] \in Rows /\ Len(c.lines[i]) \in Nat
<1> DEFINE ls == c.lines
           R == Rows
<1>1. ls \in Seq(R) /\ ls # <<>>
  BY DEF Clips
<1>2. \A s \in R : Len(s) \in Nat
  BY LenProperties DEF Rows
<1> HIDE DEF ls, R
<1>3. Len(ls) \in Nat \ {0} /\ \A i \in 1 .. Len(ls) : ls[i] \in R
  BY <1>1
<1> QED BY <1>1, <1>2, <1>3 DEF ls, R

\* One row of the clipboard goes into its line of the text; the next line is made when there is none.
LEMMA PasteStepEdits ==
    ASSUME NEW b \in Good, NEW c \in Clips, NEW t \in Good, NEW i \in Nat, i < Len(c.lines), b.row + i < Count(t)
    PROVE  LET d == PasteStep(b, c, t, i)
           IN Edits(t, d) /\ d \in Good /\ (i + 1 < Len(c.lines) => b.row + (i + 1) < Count(d))
<1> DEFINE n == Len(c.lines)
           r == b.row + i
           new == InsChars(Row(t, r), b.col, c.lines[i + 1])
           w == RestoreStep(t, r, new)
           size == Count(w)
           v == InsStep(w, size, <<>>)
           d == PasteStep(b, c, t, i)
<1>0. n \in Nat /\ r \in Nat /\ b.row \in Nat /\ b.col \in Int /\ c.lines[i + 1] \in Rows /\ t \in Buffers
  <2>1. i + 1 \in 1 .. n
    BY ClipParts
  <2> QED BY <2>1, ClipParts, GoodParts, SMTT(30)
<1>1. new \in Rows
  <2>1. Row(t, r) \in Rows
    BY <1>0, RowType
  <2>2. Blank \in Letters
    BY DEF Letters
  <2> QED BY <1>0, <2>1, <2>2, InsCharsType DEF Rows
<1>2. Edits(t, w) /\ w \in Good /\ size = Count(t)
  <2> HIDE DEF new, r
  <2> QED BY <1>0, <1>1, RestoreEdits, ZenonT(60) DEF r, Edits, Makes
<1>3. d = IF i < n - 1 /\ r = size - 1 THEN v ELSE w
  BY Zenon DEF PasteStep, RestoreStep, InsStep
<1> HIDE DEF d, w
<1>4. Edits(w, v) /\ v \in Good /\ Count(v) = size + 1
  <2> DEFINE none == <<>>
  <2>1. none \in Rows /\ size \in Nat /\ size <= Count(w)
    BY <1>2, GoodParts DEF Rows
  <2>2. size = Count(w)
    OBVIOUS
  <2> HIDE DEF size, none
  <2>3. LET y == InsStep(w, size, none) IN Edits(w, y) /\ Count(y) = Count(w) + 1
    BY <1>2, <2>1, InsEdits
  <2> QED BY <2>2, <2>3 DEF Edits, Makes, none
<1> HIDE DEF v, size, n, r
<1>5. Edits(t, v)
  BY <1>2, <1>4, EditsOn
<1>6. size \in Nat /\ r < size
  BY <1>2, GoodParts DEF r, size
<1>7. i + 1 < n => b.row + (i + 1) < Count(d)
  BY <1>0, <1>3, <1>4, <1>6 DEF r, size
<1> QED BY <1>2, <1>3, <1>4, <1>5, <1>7 DEF d, n

\* Pasting row by row.
PasteAll(b, c) == FoldLeft(LAMBDA t, i : PasteStep(b, c, t, i), b, [k \in 1 .. Len(c.lines) |-> k - 1])
\* A block is pasted row by row; rows are added at the end of the text when there are too few.
LEMMA PasteRowsEdits == ASSUME NEW b \in Good, NEW c \in Clips PROVE Edits(b, PasteRows(b, c))
<1> DEFINE n == Len(c.lines)
           p == Pairs(b, c)
           s == [k \in 1 .. n |-> k - 1]
           done == PasteAll(b, c)
<1>0. n \in Nat \ {0} /\ n \in Nat /\ b.row \in Nat /\ b.row < Count(b) /\ b.col \in Nat /\ Len(c.lines[1]) \in Nat
  BY ClipParts, GoodParts DEF Good
<1>1. DOMAIN s = 1 .. n /\ \A k \in 1 .. n : s[k] = k - 1
  OBVIOUS
<1>2. p.b = b /\ p.c = c
  BY DEF Pairs
<1>3. PasteFold!Fold(p, b, s) = done
  <2> DEFINE All(x, y, z, q) == FoldLeft(LAMBDA t, i : PasteStep(x, y, t, i), z, q)
  <2>1. PasteFold!Fold(p, b, s) = All(p.b, p.c, b, s)
    BY DEF PasteFold!Fold, PasteRound, FoldLeft, MapThenFoldSet, Max,
           PasteFold!FoldLeft, PasteFold!MapThenFoldSet, PasteFold!Max
  <2>2. done = All(b, c, b, s)
    BY Zenon DEF PasteAll
  <2> HIDE DEF All, p, s, done
  <2> QED BY <1>2, <2>1, <2>2
<1> HIDE DEF n, p, s, done
<1>4. PICK a : PasteFold!IsTrace(a, p, b, s, n)
  BY <1>0, <1>1, PasteFold!FoldTrace
<1>5. a[0] = b /\ PasteFold!Fold(p, b, s) = a[n] /\ \A k \in 1 .. n : a[k] = PasteStep(b, c, a[k - 1], k - 1)
  BY <1>1, <1>2, <1>4 DEF PasteFold!IsTrace, PasteRound
<1> DEFINE T == {k \in 0 .. n : Edits(b, a[k]) /\ a[k] \in Good /\ (k < n => b.row + k < Count(a[k]))}
<1>6. 0 \in T
  BY <1>0, <1>5, NothingDone DEF Edits
<1>7. ASSUME NEW k \in 1 .. n, k - 1 \in T PROVE k \in T
  <2> DEFINE i == k - 1
             x == a[i]
             d == PasteStep(b, c, x, i)
  <2>1. i \in Nat /\ i < n /\ i + 1 = k /\ k \in 0 .. n /\ a[k] = d
    BY <1>0, <1>5
  <2>2. Edits(b, x) /\ x \in Good /\ b.row + i < Count(x)
    BY <1>7, <2>1
  <2> HIDE DEF i, x
  <2>3. Edits(x, d) /\ d \in Good /\ (i + 1 < Len(c.lines) => b.row + (i + 1) < Count(d))
    BY <2>1, <2>2, PasteStepEdits DEF n
  <2> HIDE DEF d
  <2>4. Edits(b, d)
    BY <2>2, <2>3, EditsOn
  <2> QED BY <2>1, <2>3, <2>4 DEF n
<1> HIDE DEF T
<1>8. 0 .. n \subseteq T
  BY <1>0, <1>6, <1>7, PasteFold!IntervalIsIn
<1>9. Edits(b, done) /\ done \in Good
  <2>1. n \in T
    BY <1>0, <1>8
  <2> QED BY <1>3, <1>5, <2>1 DEF T
<1>10. Edits(b, GotoCol(done, b.col + Len(c.lines[1])))
  <2> DEFINE k == b.col + Len(c.lines[1])
  <2>1. k \in Int
    BY <1>0
  <2> HIDE DEF k
  <2>2. Goes(done, GotoCol(done, k))
    BY <1>9, <2>1, GotoGoes
  <2>3. Edits(done, GotoCol(done, k))
    BY <1>9, <2>2, MovesAre DEF Edits
  <2>4. Edits(b, GotoCol(done, k))
    BY <1>9, <2>3, EditsOn
  <2> QED BY <2>4 DEF k
<1>11. PasteRows(b, c) = IF AfterBlock /\ n = 1 THEN GotoCol(done, b.col + Len(c.lines[1])) ELSE done
  BY Zenon DEF PasteRows, PasteAll, PasteStep, done, n
<1> QED BY <1>9, <1>10, <1>11

\* A row goes in above one that is another.
LEMMA PutAbove ==
    ASSUME NEW S, NEW ls \in Seq(S), NEW i \in 0 .. Len(ls) - 1, NEW r \in S, NEW t \in S
    PROVE  /\ [ls EXCEPT ![i + 1] = t] \in Seq(S) /\ Len([ls EXCEPT ![i + 1] = t]) = Len(ls)
           /\ Put(ls, i, <<r>>)[i + 2] = ls[i + 1]
           /\ [Put(ls, i, <<r>>) EXCEPT ![i + 2] = t] = Put([ls EXCEPT ![i + 1] = t], i, <<r>>)
<1> DEFINE n == Len(ls)
           m == <<r>>
           x == [ls EXCEPT ![i + 1] = t]
           u == Put(ls, i, m)
           v == Put(x, i, m)
           k == i + 2
<1>0. n \in Nat /\ i \in Nat /\ i < n /\ k \in 1 .. n + 1 /\ k - 1 = i + 1 /\ ~(k <= i) /\ ~(k <= i + 1)
  OBVIOUS
<1>1. m \in Seq(S) /\ Len(m) = 1
  OBVIOUS
<1>2. x \in Seq(S) /\ Len(x) = n /\ \A j \in 1 .. n : x[j] = IF j = i + 1 THEN t ELSE ls[j]
  BY <1>0
<1> HIDE DEF m, x
<1>3. IsPut(u, S, ls, i, m, 1) /\ IsPut(v, S, x, i, m, 1)
  <2>1. i \in 0 .. Len(ls) /\ i \in 0 .. Len(x) /\ 1 \in Nat
    BY <1>2
  <2>2. IsPut(u, S, ls, i, m, 1)
    BY <1>1, <2>1, PutIs
  <2>3. IsPut(v, S, x, i, m, 1)
    BY <1>1, <1>2, <2>1, PutIs
  <2> QED BY <2>2, <2>3
<1> HIDE DEF u, v
<1>4. u \in Seq(S) /\ v \in Seq(S) /\ Len(u) = n + 1 /\ Len(v) = n + 1
  BY <1>2, <1>3 DEF IsPut
<1>5. \A j \in 1 .. n + 1 : /\ u[j] = IF j <= i THEN ls[j] ELSE IF j <= i + 1 THEN m[j - i] ELSE ls[j - 1]
                            /\ v[j] = IF j <= i THEN x[j] ELSE IF j <= i + 1 THEN m[j - i] ELSE x[j - 1]
  BY <1>2, <1>3 DEF IsPut
<1>6. u[k] = ls[i + 1] /\ v[k] = t
  BY <1>0, <1>2, <1>5
<1>7. ASSUME NEW j \in 1 .. n + 1, j # k PROVE u[j] = v[j]
  <2>1. CASE j <= i
    BY <1>0, <1>2, <1>5, <2>1
  <2>2. CASE j = i + 1
    BY <1>0, <1>5, <2>2
  <2>3. CASE j > i + 2
    <3>1. j - 1 \in 1 .. n /\ j - 1 # i + 1 /\ ~(j <= i) /\ ~(j <= i + 1)
      BY <1>0, <2>3
    <3> QED BY <1>2, <1>5, <3>1
  <2> QED BY <1>0, <1>7, <2>1, <2>2, <2>3
<1> DEFINE w == [u EXCEPT ![k] = t]
<1>8. w \in Seq(S) /\ Len(w) = n + 1 /\ \A j \in 1 .. n + 1 : w[j] = IF j = k THEN t ELSE u[j]
  BY <1>0, <1>4
<1> HIDE DEF w, k
<1>9. \A j \in 1 .. Len(w) : w[j] = v[j]
  BY <1>6, <1>7, <1>8
<1>10. w = v
  BY <1>4, <1>8, <1>9, SeqEqual
<1> QED BY <1>2, <1>6, <1>10 DEF w, v, u, k, x, m

\* What one row will be is settled later: the changes above it go on all the same.
Twins(x, y, i, s, t) == x \in Tracked /\ i < Count(x) /\ Row(x, i) = s /\ y = SetLine(x, i, t)
\* Such twins stay twins when a row goes in above the row that differs.
LEMMA InsAbove ==
    ASSUME NEW x, NEW y, NEW i \in Nat, NEW s \in Rows, NEW t \in Rows, NEW r \in Rows, Twins(x, y, i, s, t)
    PROVE  Twins(InsStep(x, i, r), InsStep(y, i, r), i + 1, s, t)
<1> DEFINE xs == x.lines
           ys == [xs EXCEPT ![i + 1] = t]
           xp == Put(xs, i, <<r>>)
           yp == Put(ys, i, <<r>>)
           tx == Track(x, "DelLine", i, 0)
           ty == Track(y, "DelLine", i, 0)
           xx == InsStep(x, i, r)
           yy == InsStep(y, i, r)
<1>0. x \in Tracked /\ x \in Buffers /\ i < Count(x) /\ i <= Count(x) /\ Row(x, i) = s /\ y = SetLine(x, i, t)
      /\ xs \in Seq(Rows) /\ Count(x) = Len(xs) /\ Count(x) \in Nat /\ i \in 0 .. Len(xs) - 1
  <2>1. x \in Tracked /\ i < Count(x) /\ Row(x, i) = s /\ y = SetLine(x, i, t)
    BY DEF Twins
  <2>2. xs \in Seq(Rows)
    BY <2>1, BufferParts DEF Tracked
  <2>3. Len(xs) \in Nat
    BY <2>2, LenProperties
  <2> QED BY <2>1, <2>2, <2>3 DEF Tracked, Count
<1>1. y = [x EXCEPT !.lines = ys] /\ s = xs[i + 1]
  BY <1>0, TextIs
<1>2. ys \in Seq(Rows) /\ Len(ys) = Len(xs) /\ xp[i + 2] = xs[i + 1] /\ [xp EXCEPT ![i + 2] = t] = yp
  BY <1>0, PutAbove
<1> HIDE DEF xs, ys, xp, yp
<1>3. y \in Buffers /\ y.lines = ys /\ Count(y) = Count(x)
  BY <1>0, <1>1, <1>2, LinesParts DEF Count
<1>4. tx \in Buffers /\ tx.lines = xs /\ Count(tx) = Count(x)
  <2>1. [op |-> "DelLine", n |-> i, what |-> 0] \in Notes
    BY NoteTypes
  <2> QED BY <1>0, <2>1, TrackText DEF xs
<1>5. ty = [tx EXCEPT !.lines = ys]
  <2>1. \A op, m, what : Track([x EXCEPT !.lines = ys], op, m, what) = [Track(x, op, m, what) EXCEPT !.lines = ys]
    BY <1>0, Commutes
  <2>2. Track([x EXCEPT !.lines = ys], "DelLine", i, 0) = [Track(x, "DelLine", i, 0) EXCEPT !.lines = ys]
    BY <2>1, Zenon
  <2> QED BY <1>1, <2>2
<1> HIDE DEF tx, ty
<1>6. ty \in Buffers /\ ty.lines = ys /\ Count(ty) = Count(x)
  BY <1>2, <1>3, <1>4, <1>5, LinesParts DEF Count
<1>7. xx = [tx EXCEPT !.lines = xp] /\ yy = [ty EXCEPT !.lines = yp]
  <2>1. InsertRows(tx, i, <<r>>) = [tx EXCEPT !.lines = Put(tx.lines, i, <<r>>)]
    BY <1>0, <1>4, TextIs
  <2>2. InsertRows(ty, i, <<r>>) = [ty EXCEPT !.lines = Put(ty.lines, i, <<r>>)]
    BY <1>0, <1>6, TextIs
  <2> QED BY <1>4, <1>6, <2>1, <2>2 DEF InsStep, tx, ty, xp, yp
<1>8. xx \in Tracked /\ xx \in Buffers /\ Count(xx) = Count(x) + 1 /\ xx.lines = xp
  <2>1. TextOf(x, InsStep(x, i, r), Put(x.lines, i, <<r>>)) /\ Count(InsStep(x, i, r)) = Count(x) + 1
    BY <1>0, InsNoted
  <2> QED BY <2>1 DEF TextOf, Tracked, xp, xs
<1> HIDE DEF xx, yy
<1>9. yy = [xx EXCEPT !.lines = yp]
  <2>1. yy = [tx EXCEPT !.lines = yp]
    BY <1>5, <1>7
  <2>2. [xx EXCEPT !.lines = yp] = [tx EXCEPT !.lines = yp]
    BY <1>7
  <2> QED BY <2>1, <2>2
<1>10. Row(xx, i + 1) = s /\ SetLine(xx, i + 1, t) = yy
  <2> DEFINE j == i + 1
  <2>1. j \in Nat /\ j < Count(xx) /\ j + 1 = i + 2
    BY <1>0, <1>8
  <2> HIDE DEF j
  <2>2. Row(xx, j) = xx.lines[j + 1] /\ SetLine(xx, j, t) = [xx EXCEPT !.lines = [xx.lines EXCEPT ![j + 1] = t]]
    BY <1>8, <2>1, TextIs
  <2>3. SetLine(xx, j, t) = [xx EXCEPT !.lines = yp]
    BY <1>2, <1>8, <2>1, <2>2
  <2>4. Row(xx, j) = s
    BY <1>1, <1>2, <1>8, <2>1, <2>2
  <2> QED BY <1>9, <2>3, <2>4 DEF j
<1>11. i + 1 < Count(xx)
  BY <1>0, <1>8
<1> QED BY <1>8, <1>10, <1>11 DEF Twins, xx, yy

\* The line is split for a stream; what follows the split is settled later.
LEMMA SplitTwins ==
    ASSUME NEW b \in Good, NEW first \in Rows, NEW s \in Rows, NEW t \in Rows
    PROVE  LET r == RestoreStep(b, b.row, first)
               x == InsStep(r, b.row + 1, s)
               y == InsStep(r, b.row + 1, t)
           IN /\ Twins(x, y, b.row + 1, s, t)
              /\ Edits(b, y) /\ y.row = b.row /\ y.col = b.col /\ Count(x) = Count(b) + 1 /\ Count(y) = Count(b) + 1
              /\ x = InsertRows(SetLine(Track(Track(b, "RestoreLine", b.row, AbsLine(b)), "DelLine", b.row + 1, 0),
                                        b.row, first), b.row + 1, <<s>>)
<1> DEFINE row == b.row
           r == RestoreStep(b, row, first)
           x == InsStep(r, row + 1, s)
           y == InsStep(r, row + 1, t)
           n == Track(b, "RestoreLine", row, Row(b, row))
           ls == [b.lines EXCEPT ![row + 1] = first]
           m == Track(n, "DelLine", row + 1, 0)
<1>0. b \in Tracked /\ b \in Buffers /\ row \in Nat /\ row + 1 \in Nat /\ row < Count(b) /\ AbsLine(b) = Row(b, row)
      /\ Row(b, row) \in Rows /\ Count(b) \in Nat
  BY GoodParts DEF AbsLine, Good
<1>1. Edits(b, r) /\ r \in Good /\ r.lines = ls /\ Count(r) = Count(b) /\ r.row = row /\ r.col = b.col
  <2> HIDE DEF row
  <2> QED BY <1>0, RestoreEdits DEF Edits, Makes, row
<1>2. n \in Tracked /\ n \in Buffers /\ n.lines = b.lines
  <2>1. [op |-> "RestoreLine", n |-> row, what |-> Row(b, row)] \in Notes
    <3> DEFINE old == Row(b, row)
    <3>1. old \in Rows
      BY <1>0
    <3> HIDE DEF old
    <3> QED BY <1>0, <3>1, NoteTypes
  <2> DEFINE old == Row(b, row)
  <2> HIDE DEF old, row
  <2>2. n \in Tracked /\ Moved(b, n)
    BY <1>0, <2>1, TrackNotes, Zenon DEF old
  <2> QED BY <2>2 DEF Moved, Tracked
<1>3. r = [n EXCEPT !.lines = ls]
  <2>1. r = SetLine(n, row, first)
    BY DEF RestoreStep
  <2>2. row < Count(n)
    BY <1>0, <1>2 DEF Count
  <2> HIDE DEF n, r
  <2> QED BY <1>0, <1>2, <2>1, <2>2, TextIs
<1> HIDE DEF r, n
<1>4. Track(r, "DelLine", row + 1, 0) = [m EXCEPT !.lines = ls]
  <2>1. \A op, k, what : Track([n EXCEPT !.lines = ls], op, k, what) = [Track(n, op, k, what) EXCEPT !.lines = ls]
    BY <1>2, Commutes
  <2>2. Track([n EXCEPT !.lines = ls], "DelLine", row + 1, 0) = [Track(n, "DelLine", row + 1, 0) EXCEPT !.lines = ls]
    BY <2>1, Zenon
  <2> QED BY <1>3, <2>2
<1>5. m \in Buffers /\ m.lines = b.lines
  <2>1. [op |-> "DelLine", n |-> row + 1, what |-> 0] \in Notes
    BY <1>0, NoteTypes
  <2> QED BY <1>2, <2>1, TrackText
<1> HIDE DEF m
<1>6. SetLine(m, row, first) = [m EXCEPT !.lines = ls]
  <2>1. row < Count(m)
    BY <1>0, <1>5 DEF Count
  <2> QED BY <1>0, <1>5, <2>1, TextIs
<1>7. x = InsertRows(SetLine(m, row, first), row + 1, <<s>>)
  BY <1>4, <1>6 DEF InsStep
<1>8. r \in Tracked /\ row + 1 <= Count(r)
  BY <1>0, <1>1 DEF Good
<1>9. x \in Tracked /\ Count(x) = Count(b) + 1
  <2>1. LET z == InsStep(r, row + 1, s) IN TextOf(r, z, Put(r.lines, row + 1, <<s>>)) /\ Count(z) = Count(r) + 1
    BY <1>0, <1>8, InsNoted
  <2> QED BY <1>1, <2>1 DEF TextOf
<1>10. Edits(r, y) /\ y.row = row /\ y.col = b.col /\ Count(y) = Count(b) + 1
  <2> DEFINE i == row + 1
  <2>1. i \in Nat /\ i <= Count(r)
    BY <1>0, <1>8
  <2> HIDE DEF i, row
  <2>2. r \in Good
    BY <1>1
  <2>3. /\ Edits(r, InsStep(r, i, t)) /\ InsStep(r, i, t).row = r.row
        /\ InsStep(r, i, t).col = r.col /\ Count(InsStep(r, i, t)) = Count(r) + 1
        /\ InsStep(r, i, t).lines = Put(r.lines, i, <<t>>)
    BY <2>1, <2>2, InsEdits
  <2> QED BY <1>1, <2>3 DEF i
<1>11. Row(x, row + 1) = s /\ SetLine(x, row + 1, t) = y
  BY <1>0, <1>8, InsOther
<1>12. Twins(x, y, row + 1, s, t)
  BY <1>0, <1>9, <1>11 DEF Twins
<1>13. Edits(b, y)
  <2> HIDE DEF y
  <2> QED BY <1>1, <1>10, EditsOn
<1>14. AbsLine(b) = Row(b, row)
  BY <1>0
<1> QED BY <1>7, <1>9, <1>10, <1>12, <1>13, <1>14 DEF r, m, n

\* The rows between the first and the last of a stream go in above the rest of the line.
InsertAll(b, c, x) ==
    FoldLeft(LAMBDA t, i : InsertRows(Track(t, "DelLine", b.row + i, 0), b.row + i, <<c.lines[i + 1]>>), x,
             [i \in 1 .. Len(c.lines) - 2 |-> i])
\* Nor do the rows of a stream block, put in one after the other, touch the row that differs.
LEMMA InsertAllTwins ==
    ASSUME NEW b \in Good, NEW c \in Clips, Len(c.lines) > 1, NEW s \in Rows, NEW t \in Rows, NEW x, NEW y,
           Twins(x, y, b.row + 1, s, t), Edits(b, y), y.row = b.row, y.col = b.col, Count(y) = Count(b) + 1
    PROVE  \E u, v : /\ u = InsertAll(b, c, x) /\ Twins(u, v, b.row + (Len(c.lines) - 1), s, t)
                     /\ Edits(b, v) /\ v.row = b.row /\ v.col = b.col /\ Count(v) = Count(b) + (Len(c.lines) - 1)
<1> DEFINE n == Len(c.lines) - 2
           p == Pairs(b, c)
           q == [i \in 1 .. n |-> i]
           done == InsertAll(b, c, x)
<1>0. n \in Nat /\ b.row \in Nat /\ b.row < Count(b) /\ Count(b) \in Nat /\ Len(c.lines) = n + 2
      /\ b.row + (Len(c.lines) - 1) = b.row + (n + 1) /\ Count(b) + (Len(c.lines) - 1) = Count(b) + (n + 1)
  BY ClipParts, GoodParts DEF Good
<1>1. DOMAIN q = 1 .. n /\ \A k \in 1 .. n : q[k] = k
  OBVIOUS
<1>2. p.b = b /\ p.c = c
  BY DEF Pairs
<1>3. InsertFold!Fold(p, x, q) = done
  <2> DEFINE All(e, f, z, w) ==
                 FoldLeft(LAMBDA d, i : InsertRows(Track(d, "DelLine", e.row + i, 0), e.row + i, <<f.lines[i + 1]>>), z, w)
  <2>1. InsertFold!Fold(p, x, q) = All(p.b, p.c, x, q)
    BY DEF InsertFold!Fold, InsertRound, FoldLeft, MapThenFoldSet, Max,
           InsertFold!FoldLeft, InsertFold!MapThenFoldSet, InsertFold!Max
  <2>2. done = All(b, c, x, q)
    BY Zenon DEF InsertAll
  <2> HIDE DEF All, p, q, done
  <2> QED BY <1>2, <2>1, <2>2
<1> HIDE DEF n, p, q, done
<1>4. PICK a : InsertFold!IsTrace(a, p, x, q, n)
  BY <1>0, <1>1, InsertFold!FoldTrace
<1>5. PICK d : InsertFold!IsTrace(d, p, y, q, n)
  BY <1>0, <1>1, InsertFold!FoldTrace
<1>6. /\ a[0] = x /\ InsertFold!Fold(p, x, q) = a[n]
      /\ \A k \in 1 .. n : a[k] = InsStep(a[k - 1], b.row + k, c.lines[k + 1])
  BY <1>1, <1>2, <1>4 DEF InsertFold!IsTrace, InsertRound, InsStep
<1>7. d[0] = y /\ \A k \in 1 .. n : d[k] = InsStep(d[k - 1], b.row + k, c.lines[k + 1])
  BY <1>1, <1>2, <1>5 DEF InsertFold!IsTrace, InsertRound, InsStep
<1> DEFINE T == {k \in 0 .. n : /\ Twins(a[k], d[k], b.row + (k + 1), s, t)
                                /\ Edits(b, d[k]) /\ d[k].row = b.row /\ d[k].col = b.col
                                /\ Count(d[k]) = Count(b) + (k + 1)}
<1>8. 0 \in T
  <2>1. b.row + (0 + 1) = b.row + 1 /\ Count(b) + (0 + 1) = Count(b) + 1 /\ 0 \in 0 .. n
    BY <1>0
  <2> QED BY <1>6, <1>7, <2>1
<1>9. ASSUME NEW k \in 1 .. n, k - 1 \in T PROVE k \in T
  <2> DEFINE i == b.row + k
             r == c.lines[k + 1]
             u == a[k - 1]
             v == d[k - 1]
             uu == InsStep(u, i, r)
             vv == InsStep(v, i, r)
  <2>1. k \in Nat /\ k \in 0 .. n /\ i \in Nat /\ i + 1 = b.row + (k + 1) /\ k - 1 + 1 = k /\ a[k] = uu /\ d[k] = vv
    BY <1>0, <1>6, <1>7
  <2>2. r \in Rows
    <3>1. k + 1 \in 1 .. Len(c.lines)
      BY <1>0
    <3> QED BY <3>1, ClipParts
  <2>3. Twins(u, v, i, s, t) /\ Edits(b, v) /\ v.row = b.row /\ v.col = b.col /\ Count(v) = Count(b) + k
    BY <1>9, <2>1
  <2> HIDE DEF u, v, r
  <2>4. Twins(uu, vv, i + 1, s, t)
    <3> HIDE DEF i, uu, vv
    <3> QED BY <2>1, <2>2, <2>3, InsAbove DEF uu, vv
  <2>5. v \in Good /\ i <= Count(v)
    BY <1>0, <2>1, <2>3 DEF Edits, Makes
  <2>6. Edits(v, vv) /\ vv.row = v.row /\ vv.col = v.col /\ Count(vv) = Count(v) + 1
    <3> HIDE DEF i
    <3> QED BY <2>1, <2>2, <2>5, InsEdits
  <2> HIDE DEF uu, vv
  <2>7. Edits(b, vv)
    BY <2>3, <2>6, EditsOn
  <2>8. Count(vv) = Count(b) + (k + 1)
    BY <1>0, <2>1, <2>3, <2>6
  <2> QED BY <2>1, <2>3, <2>4, <2>6, <2>7, <2>8
<1> HIDE DEF T
<1>10. 0 .. n \subseteq T
  BY <1>0, <1>8, <1>9, InsertFold!IntervalIsIn
<1>11. n \in T
  BY <1>0, <1>10
<1>12. /\ Twins(a[n], d[n], b.row + (n + 1), s, t) /\ Edits(b, d[n]) /\ d[n].row = b.row /\ d[n].col = b.col
       /\ Count(d[n]) = Count(b) + (n + 1) /\ a[n] = done
  BY <1>3, <1>6, <1>11 DEF T
<1> QED BY <1>0, <1>12 DEF done

\* A stream block is pasted: the row of the cursor is split, its first and last rows are joined to the pieces.
LEMMA PasteStreamEdits == ASSUME NEW b \in Good, NEW c \in Clips, Len(c.lines) > 1 PROVE Edits(b, PasteStream(b, c))
<1> DEFINE n == Len(c.lines)
           s == AbsLine(b)
           first == InsChars(DelChars(s, b.col, Len(s)), b.col, c.lines[1])
           tail == TailFrom(s, b.col)
           rest == InsChars(tail, 0, c.lines[n])
           r == RestoreStep(b, b.row, first)
           x == InsStep(r, b.row + 1, tail)
           y == InsStep(r, b.row + 1, rest)
           pos == b.row + (n - 1)
           last == GotoLine(InsertAll(b, c, x), pos)
           d == SetLine(last, last.row, InsChars(AbsLine(last), 0, c.lines[n]))
           e == GotoCol(d, Len(c.lines[n]))
<1>0. n \in Nat /\ n > 1 /\ c.lines[1] \in Rows /\ c.lines[n] \in Rows /\ Len(c.lines[n]) \in Int /\ pos \in Nat
      /\ b.row < Count(b) /\ Count(b) \in Nat /\ pos < Count(b) + (n - 1)
  <2>1. n \in Nat /\ 1 \in 1 .. n /\ n \in 1 .. n
    BY ClipParts
  <2> QED BY <2>1, ClipParts, GoodParts DEF Good
<1>1. first \in Rows /\ tail \in Rows /\ rest \in Rows
  <2>1. s \in Rows /\ Len(s) \in Int /\ b.col \in Int /\ Blank \in Letters
    BY GoodParts DEF Letters
  <2> HIDE DEF s
  <2> DEFINE cut == DelChars(s, b.col, Len(s))
  <2>2. cut \in Rows /\ tail \in Rows
    BY <2>1, DelCharsType, TailFromType DEF Rows
  <2> HIDE DEF cut, tail
  <2>3. InsChars(cut, b.col, c.lines[1]) \in Rows /\ InsChars(tail, 0, c.lines[n]) \in Rows
    BY <1>0, <2>1, <2>2, InsCharsType DEF Rows
  <2> QED BY <2>2, <2>3 DEF cut
<1>2. PasteStream(b, c) = e
  <2> DEFINE split == InsertRows(SetLine(Track(Track(b, "RestoreLine", b.row, s), "DelLine", b.row + 1, 0),
                                         b.row, first), b.row + 1, <<tail>>)
             end == GotoLine(InsertAll(b, c, split), b.row + n - 1)
  <2>1. PasteStream(b, c) = GotoCol(SetLine(end, end.row, InsChars(AbsLine(end), 0, c.lines[n])), Len(c.lines[n]))
    BY Zenon DEF PasteStream, InsertAll
  <2>2. b.row + n - 1 = pos
    BY <1>0, GoodParts
  <2>3. split = x
    <3> HIDE DEF first, tail, rest
    <3> QED BY <1>1, SplitTwins
  <2> HIDE DEF split, x
  <2>4. end = last
    BY <2>2, <2>3
  <2> HIDE DEF end, last
  <2> QED BY <2>1, <2>4
<1> HIDE DEF first, tail
<1>3. /\ Twins(x, y, b.row + 1, tail, rest)
      /\ Edits(b, y) /\ y.row = b.row /\ y.col = b.col /\ Count(y) = Count(b) + 1
  <2> HIDE DEF rest
  <2>1. LET rr == RestoreStep(b, b.row, first)
            xx == InsStep(rr, b.row + 1, tail)
            yy == InsStep(rr, b.row + 1, rest)
        IN /\ Twins(xx, yy, b.row + 1, tail, rest)
           /\ Edits(b, yy) /\ yy.row = b.row /\ yy.col = b.col /\ Count(xx) = Count(b) + 1 /\ Count(yy) = Count(b) + 1
           /\ xx = InsertRows(SetLine(Track(Track(b, "RestoreLine", b.row, AbsLine(b)), "DelLine", b.row + 1, 0),
                                      b.row, first), b.row + 1, <<tail>>)
    BY <1>1, SplitTwins
  <2> QED BY <2>1
<1> HIDE DEF x, y
<1>4. PICK u, v : /\ u = InsertAll(b, c, x) /\ Twins(u, v, pos, tail, rest)
                  /\ Edits(b, v) /\ v.row = b.row /\ v.col = b.col /\ Count(v) = Count(b) + (n - 1)
  <2> HIDE DEF rest
  <2> QED BY <1>0, <1>1, <1>3, InsertAllTwins
<1>5. v \in Good /\ pos < Count(v) /\ u \in Tracked /\ u \in Buffers /\ pos < Count(u) /\ Row(u, pos) = tail
      /\ v = SetLine(u, pos, rest)
  BY <1>0, <1>4 DEF Edits, Makes, Twins, Tracked
<1> HIDE DEF pos, n, rest
<1>6. last = SetRow(u, pos) /\ GotoLine(v, pos) = SetRow(v, pos)
  <2>1. Count(u) \in Nat /\ Count(v) \in Nat
    BY <1>5, GoodParts, TextIs
  <2>2. pos \in 0 .. Count(u) - 1 /\ pos \in 0 .. Count(v) - 1
    BY <1>0, <1>5, <2>1
  <2> QED BY <1>4, <2>2 DEF GotoLine
<1> HIDE DEF last
<1>7. last \in Tracked /\ last.row = pos /\ last.lines = u.lines
  BY <1>0, <1>5, <1>6, SetRowNoted DEF Moved
<1>8. AbsLine(last) = tail
  <2>1. AbsLine(last) = Row(last, pos)
    BY <1>7 DEF AbsLine
  <2>2. Row(last, pos) = Row(u, pos)
    BY <1>7 DEF Row, Count
  <2> QED BY <1>5, <2>1, <2>2
<1>9. d = SetRow(v, pos)
  <2> DEFINE ls == [u.lines EXCEPT ![pos + 1] = rest]
  <2>1. v = [u EXCEPT !.lines = ls]
    BY <1>0, <1>5, TextIs
  <2>2. d = SetLine(last, pos, rest)
    BY <1>7, <1>8 DEF rest
  <2>3. SetLine(last, pos, rest) = [last EXCEPT !.lines = [last.lines EXCEPT ![pos + 1] = rest]]
    <3>1. pos < Count(last)
      BY <1>5, <1>7 DEF Count
    <3> QED BY <1>0, <1>7, <3>1, TextIs DEF Tracked
  <2>4. SetLine(last, pos, rest) = [last EXCEPT !.lines = ls]
    BY <1>7, <2>3
  <2> HIDE DEF ls, d
  <2>5. SetRow([u EXCEPT !.lines = ls], pos) = [SetRow(u, pos) EXCEPT !.lines = ls]
    <3>1. \A k : SetRow([u EXCEPT !.lines = ls], k) = [SetRow(u, k) EXCEPT !.lines = ls]
      BY <1>5, Commutes
    <3> QED BY <3>1, Zenon
  <2> QED BY <1>6, <2>1, <2>2, <2>4, <2>5
<1> HIDE DEF d
<1>10. Edits(v, d) /\ d \in Good
  <2>1. Goes(v, GotoLine(v, pos))
    BY <1>0, <1>5, GotoGoes
  <2>2. Goes(v, d)
    BY <1>6, <1>9, <2>1
  <2> QED BY <1>5, <2>2, MovesAre DEF Edits, Goes
<1>11. Edits(d, e)
  <2> DEFINE k == Len(c.lines[n])
  <2>1. Goes(d, GotoCol(d, k))
    <3> HIDE DEF k
    <3>1. k \in Int
      BY <1>0 DEF k
    <3> QED BY <1>10, <3>1, GotoGoes
  <2> HIDE DEF k
  <2>2. Edits(d, GotoCol(d, k))
    BY <1>10, <2>1, MovesAre DEF Edits
  <2> QED BY <2>2 DEF k
<1> HIDE DEF e
<1>12. Edits(b, d)
  BY <1>4, <1>10, EditsOn
<1>13. Edits(b, e)
  BY <1>11, <1>12, EditsOn
<1> QED BY <1>2, <1>13

\* Pasting, and what there is to paste.
LEMMA PasteTurns == ASSUME NEW b \in Good, NEW c \in Clips \cup {NoClip} PROVE Acts(b, Paste(b, c))
<1> DEFINE a == SetChanged(b, TRUE)
           r == PasteRows(a, c)
           s == PasteStream(a, c)
           byRow == AsColumns(b, c)
<1>1. Turns(b, a) /\ a \in Good /\ Writes(b, a)
  BY FlagMethods DEF Turns, Writes
<1>2. Paste(b, c) = IF b.trap \/ c = NoClip THEN b ELSE IF byRow THEN r ELSE s
  BY Zenon DEF Paste
<1> HIDE DEF a
<1>3. c # NoClip => Turns(a, r)
  BY <1>1, PasteRowsEdits DEF Edits
<1>4. c # NoClip /\ ~byRow => Turns(a, s)
  <2> SUFFICES ASSUME c \in Clips, ~byRow PROVE Turns(a, s)
    OBVIOUS
  <2>1. Len(c.lines) > 1
    <3> DEFINE l == Len(c.lines)
    <3>1. l \in Nat \ {0}
      BY ClipParts
    <3>2. l # 1
      BY DEF AsColumns
    <3> HIDE DEF l
    <3>3. l > 1
      BY <3>1, <3>2
    <3> QED BY <3>3 DEF l
  <2> QED BY <1>1, <2>1, PasteStreamEdits DEF Edits
<1> HIDE DEF r, s, byRow
<1>5. c # NoClip => Acts(b, r)
  BY <1>1, <1>3, WritesOn, WritesAct
<1>6. c # NoClip /\ ~byRow => Acts(b, s)
  BY <1>1, <1>4, WritesOn, WritesAct
<1>7. Acts(b, b)
  BY NothingDone DEF Acts, Owns, Same
<1> QED BY <1>2, <1>5, <1>6, <1>7

\* What is copied is a block of lines or nothing.
LEMMA CopyType == ASSUME NEW b \in Buffers PROVE Copy(b) \in Clips \cup {NoClip}
<1> DEFINE beg == BegRow(b)
           end == EndRow(b)
           n == end - beg + 1
           piece(i) ==
               IF IsColumn(b) THEN Extract(Row(b, i), LeftCol(b), RightCol(b) - LeftCol(b))
               ELSE IF i = BegRow(b) THEN Extract(Row(b, i), BegCol(b), Len(Row(b, i)) - BegCol(b))
               ELSE IF i = EndRow(b) THEN Extract(Row(b, i), 0, Smaller(EndCol(b), Len(Row(b, i))))
               ELSE Row(b, i)
           ls == [k \in 1 .. n |-> piece(beg + k - 1)]
           ls0 == [k \in 1 .. EndRow(b) - BegRow(b) + 1 |-> piece(BegRow(b) + k - 1)]
           R == Rows
           column == Has(b, "ColumnBlock")
<1>0. b.row \in Nat /\ b.col \in Nat /\ b.mrow \in Nat /\ b.mcol \in Nat
  BY BufferParts
<1>1. beg \in Nat /\ end \in Nat /\ beg <= end /\ n \in Nat \ {0}
  BY <1>0 DEF BegRow, EndRow, Smaller, Larger
<1>2. BegCol(b) \in Nat /\ EndCol(b) \in Nat /\ LeftCol(b) \in Nat /\ RightCol(b) \in Nat
  BY <1>0 DEF BegCol, EndCol, LeftCol, RightCol, Smaller, Larger
<1>3. ASSUME NEW i \in Nat PROVE piece(i) \in R
  <2> DEFINE s == Row(b, i)
             l == Len(s)
             w1 == RightCol(b) - LeftCol(b)
             w2 == l - BegCol(b)
             w3 == Smaller(EndCol(b), l)
  <2>1. s \in Rows /\ l \in Nat /\ Blank \in Letters
    BY RowType, LenProperties DEF Rows, Letters
  <2> HIDE DEF l
  <2>2. w1 \in Int /\ w2 \in Int /\ w3 \in Int /\ 0 \in Nat
    BY <1>2, <2>1 DEF Smaller
  <2> HIDE DEF s, w1, w2, w3
  <2>3. Extract(s, LeftCol(b), w1) \in R /\ Extract(s, BegCol(b), w2) \in R /\ Extract(s, 0, w3) \in R
    BY <1>2, <2>1, <2>2, ExtractType DEF Rows
  <2> QED BY <2>1, <2>3 DEF s, l, w1, w2, w3
<1>4. Copy(b) = IF ~Marked(b) THEN NoClip ELSE [lines |-> ls0, column |-> column]
  BY Zenon DEF Copy, Marked
<1>5. ls \in Seq(R) /\ ls # <<>>
  <2> HIDE DEF piece, beg, n, R
  <2>1. \A k \in 1 .. n : beg + k - 1 \in Nat
    BY <1>1
  <2>2. \A k \in 1 .. n : piece(beg + k - 1) \in R
    BY <1>3, <2>1
  <2>3. ls \in Seq(R) /\ Len(ls) = n
    BY <1>1, <2>2
  <2> HIDE DEF ls
  <2> QED BY <1>1, <2>3
<1>6. ls = ls0
  OBVIOUS
<1> HIDE DEF ls, ls0, R
<1>7. column \in BOOLEAN
  BY DEF Has
<1> HIDE DEF column
<1>8. [lines |-> ls, column |-> column] \in Clips
  BY <1>5, <1>7 DEF Clips, R
<1> QED BY <1>4, <1>6, <1>8
=============================================================================
