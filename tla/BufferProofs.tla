---------------------------- MODULE BufferProofs ----------------------------
(***************************************************************************)
(* Proofs about the buffer and its commands, for every text, key table and *)
(* setting: undo takes every command back exactly (ImplementsHistory), the *)
(* cursor is always in the text (CursorInText), a text that says it is     *)
(* saved is in the file (SavedIsOnDisk), and a block that is cut comes     *)
(* back when it is pasted (CutPasteRoundTrip).                             *)
(*                                                                         *)
(* What MethodProofs shows of the methods is shown of word wrap and of the *)
(* commands.  The undo list is then a row of logs, each of which leads     *)
(* from a text to the one before it, and leaves it not saved unless both   *)
(* are the same in the file.                                               *)
(***************************************************************************)
EXTENDS MCBuffer, BlockProofs

\* The loops of word wrap and undo, each as what one round of it does.
FollowRound(p, t, i) ==
    IF t.on /\ WwNeed(t.b, p, i) /\ i < Count(t.b)
    THEN [t EXCEPT !.b = WwPerform(t.b, p, i)] ELSE [t EXCEPT !.on = FALSE]
FollowFold == INSTANCE Folding WITH Op <- FollowRound
BackRound(p, t, i) == Undo(t)
BackFold == INSTANCE Folding WITH Op <- BackRound
SeriesRound(p, t, log) == IF IsCursorOnly(t) THEN Undo(t) ELSE t
SeriesFold == INSTANCE Folding WITH Op <- SeriesRound

-----------------------------------------------------------------------------
(***************************************************************************)
(* Word wrap.                                                              *)
(***************************************************************************)
\* Where a row is broken.
LEMMA BreakPosType ==
    ASSUME NEW s \in Rows, NEW width \in Nat PROVE BreakPos(s, width) \in Nat
<1> DEFINE l == TrimmedLen(s)
           before == {i \in 1 .. width - 1 : CharAt(s, i) = Blank}
           after  == {i \in width .. l - 1 : CharAt(s, i) = Blank}
<1>0. l \in Nat
  <2>1. Len(s) \in Nat
    BY LenProperties DEF Rows
  <2>2. l \in 0 .. Len(s)
    BY LineMeasures DEF Rows
  <2> QED BY <2>1, <2>2
<1>1. BreakPos(s, width) = IF l < width THEN 0 ELSE IF before # {} THEN Max(before) + 1
                           ELSE IF after # {} THEN Min(after) + 1 ELSE 0
  BY Zenon DEF BreakPos
<1>2. before \subseteq Nat /\ after \subseteq Nat
  BY <1>0
<1>3. before # {} => Max(before) \in Nat
  <2> SUFFICES ASSUME before # {} PROVE Max(before) \in Nat
    OBVIOUS
  <2>1. width - 1 \in Nat /\ before \subseteq 1 .. width - 1
    OBVIOUS
  <2> HIDE DEF before
  <2> DEFINE c == width - 1
  <2>2. c \in Nat
    BY <2>1
  <2> HIDE DEF c
  <2>3. PICK k \in 0 .. c : (k = 0 \/ k \in before) /\ \A j \in k + 1 .. c : j \notin before
    BY <2>2, LastStop
  <2>4. k \in before
    <3> SUFFICES ASSUME k = 0 PROVE FALSE
      BY <2>3
    <3>1. PICK y : y \in before
      OBVIOUS
    <3>2. y \in 1 .. c
      BY <2>1, <3>1 DEF c
    <3>3. y \in k + 1 .. c
      BY <3>2
    <3> QED BY <2>3, <3>1, <3>3
  <2>5. ASSUME NEW y \in before PROVE k >= y
    <3>1. y \in 1 .. c /\ y \notin k + 1 .. c
      BY <2>1, <2>3 DEF c
    <3> QED BY <2>2, <3>1
  <2>6. \E x \in before : \A y \in before : x >= y
    BY <2>4, <2>5
  <2>7. Max(before) \in before
    BY <2>6, Zenon DEF Max
  <2> QED BY <1>2, <2>7
<1>4. after # {} => Min(after) \in Nat
  <2> SUFFICES ASSUME after # {} PROVE Min(after) \in Nat
    OBVIOUS
  <2>1. after \subseteq width .. l - 1
    OBVIOUS
  <2> HIDE DEF after, l
  <2>2. PICK k \in width .. Larger(width, l) : (k >= l \/ k \in after) /\ \A j \in width .. k - 1 : j \notin after
    BY <1>0, FirstStop
  <2>3. k \in Int
    BY <1>0 DEF Larger
  <2>4. k \in after
    <3> SUFFICES ASSUME k >= l PROVE FALSE
      BY <2>2
    <3>1. PICK y : y \in after
      OBVIOUS
    <3>2. y \in width .. l - 1
      BY <2>1, <3>1
    <3>3. y \in width .. k - 1
      BY <1>0, <2>3, <3>2
    <3> QED BY <2>2, <3>1, <3>3
  <2>5. ASSUME NEW y \in after PROVE k <= y
    <3>1. y \in width .. l - 1 /\ y \notin width .. k - 1
      BY <2>1, <2>2
    <3> QED BY <1>0, <2>3, <3>1
  <2>6. \E x \in after : \A y \in after : x <= y
    BY <2>4, <2>5
  <2>7. Min(after) \in after
    BY <2>6, Zenon DEF Min
  <2> QED BY <1>2, <2>7
<1> HIDE DEF before, after, l
<1> QED BY <1>1, <1>3, <1>4

\* The next row is joined to this one.
LEMMA JoinNextEdits == ASSUME NEW b \in Good PROVE Edits(b, JoinNext(b))
<1> DEFINE e == LineEnd(b)
           joined == DelChar(e)
           word == DelWordRight(joined)
           m == Modified(IF AbsChar(joined, 0) = Blank THEN word ELSE joined)
           c == InsertHere(m, Blank)
<1>1. Edits(b, e) /\ e \in Good
  BY EndGoes, MovesAre DEF Edits, Goes
<1> HIDE DEF e
<1>2. Edits(e, joined) /\ joined \in Good
  BY <1>1, DelCharEdits DEF Edits, Makes
<1> HIDE DEF joined
<1>3. Edits(joined, word) /\ word \in Good
  BY <1>2, DelWordRightEdits DEF Edits, Makes
<1> HIDE DEF word
<1> DEFINE x == IF AbsChar(joined, 0) = Blank THEN word ELSE joined
<1>4. Edits(joined, x) /\ x \in Good
  <2>1. Edits(joined, joined)
    BY <1>2, NothingDone DEF Edits
  <2> QED BY <1>2, <1>3, <2>1
<1> HIDE DEF x
<1>5. Edits(x, m) /\ m \in Good
  <2>1. m = Modified(x)
    BY DEF x
  <2> QED BY <1>4, <2>1, FlagMethods DEF Edits, Makes
<1> HIDE DEF m
<1>6. Edits(m, c)
  <2>1. Blank \in Letters
    BY DEF Letters
  <2> QED BY <1>5, <2>1, InsertEdits
<1> HIDE DEF c
<1>7. Edits(b, c)
  <2>1. Edits(b, joined)
    BY <1>1, <1>2, EditsOn
  <2>2. Edits(b, x)
    BY <1>4, <2>1, EditsOn
  <2>3. Edits(b, m)
    BY <1>5, <2>2, EditsOn
  <2> QED BY <1>6, <2>3, EditsOn
<1> QED BY <1>7 DEF JoinNext, c, m, word, joined, e

\* A row is broken, and the cursor put back.
LEMMA BrokenAtEdits ==
    ASSUME NEW b \in Good, NEW w, NEW row \in Int, NEW pos \in Nat PROVE Edits(b, BrokenAt(b, w, row, pos))
<1> DEFINE c1 == GotoLine(b, row)
           c2 == Merged(c1, w)
           c3 == GotoCol(c2, pos)
           c4 == SplitLine(c3)
           c5 == GotoLine(c4, b.row)
           c6 == GotoCol(c5, b.col)
<1>0. pos \in Int /\ b.row \in Int /\ b.col \in Int
  BY GoodParts
<1>1. Edits(b, c1) /\ c1 \in Good
  BY GotoGoes, MovesAre DEF Edits, Goes
<1> HIDE DEF c1
<1>2. Edits(c1, c2) /\ c2 \in Good
  <2>1. Edits(c1, c1) /\ Edits(c1, JoinNext(c1))
    BY <1>1, NothingDone, JoinNextEdits DEF Edits
  <2>2. Edits(c1, c2)
    BY <2>1 DEF Merged
  <2> HIDE DEF c2
  <2> QED BY <2>2 DEF Edits, Makes
<1> HIDE DEF c2
<1>3. Edits(c2, c3) /\ c3 \in Good
  BY <1>0, <1>2, GotoGoes, MovesAre DEF Edits, Goes
<1> HIDE DEF c3
<1>4. Edits(c3, c4) /\ c4 \in Good
  BY <1>3, SplitEdits DEF Alters, Edits, Makes
<1> HIDE DEF c4
<1>5. Edits(c4, c5) /\ c5 \in Good
  BY <1>0, <1>4, GotoGoes, MovesAre DEF Edits, Goes
<1> HIDE DEF c5
<1>6. Edits(c5, c6)
  BY <1>0, <1>5, GotoGoes, MovesAre DEF Edits, Goes
<1> HIDE DEF c6
<1>7. Edits(b, c6)
  <2>1. Edits(b, c2)
    BY <1>1, <1>2, EditsOn
  <2>2. Edits(b, c3)
    BY <1>3, <2>1, EditsOn
  <2>3. Edits(b, c4)
    BY <1>4, <2>2, EditsOn
  <2>4. Edits(b, c5)
    BY <1>5, <2>3, EditsOn
  <2> QED BY <1>6, <2>4, EditsOn
<1>8. BrokenAt(b, w, row, pos) = IF pos = 0 THEN b ELSE c6
  BY DEF BrokenAt, c6, c5, c4, c3, c2, c1
<1>9. Edits(b, b)
  BY NothingDone DEF Edits
<1> QED BY <1>7, <1>8, <1>9

\* A row is broken at the last blank before the margin.
LEMMA WwPerformEdits ==
    ASSUME NEW b \in Good, NEW w \in Wraps, NEW row \in Nat PROVE Edits(b, WwPerform(b, w, row))
<1> DEFINE s == Row(b, row)
           pos == BreakPos(s, w.width)
<1>1. s \in Rows /\ w.width \in Nat /\ row \in Int
  BY GoodParts, RowType, WrapsAssumption
<1> HIDE DEF s
<1>2. pos \in Nat
  BY <1>1, BreakPosType
<1> HIDE DEF pos
<1>3. Edits(b, BrokenAt(b, w, row, pos))
  BY <1>1, <1>2, BrokenAtEdits
<1> QED BY <1>3 DEF WwPerform, pos, s

\* The rows that follow are wrapped as well; there may be no end of it (the trap), but all of it is noted.
Keeps(b, c) == c \in Good /\ Noted(b, c)
\* One after the other keeps it, too.
LEMMA KeepsOn == ASSUME NEW a \in Good, NEW b, NEW c, Keeps(a, b), Keeps(b, c) PROVE Keeps(a, c)
<1>1. a \in Tracked
  BY DEF Good
<1> QED BY <1>1, NotedOn DEF Keeps

FollowAll(b, w, s) ==
    FoldLeft(LAMBDA t, i : IF t.on /\ WwNeed(t.b, w, i) /\ i < Count(t.b)
                           THEN [t EXCEPT !.b = WwPerform(t.b, w, i)] ELSE [t EXCEPT !.on = FALSE],
             [b |-> b, on |-> TRUE], s)
\* The rows below are wrapped one after the other, as far as they need it; only this may never end.
LEMMA FollowKeeps == ASSUME NEW b \in Good, NEW w \in Wraps PROVE Keeps(b, WwFollow(b, w))
<1> DEFINE n == 2 * MaxLines + 2
           start == [b |-> b, on |-> TRUE]
           s == [k \in 1 .. n |-> b.row + k]
           done == FollowAll(b, w, s)
           ended == IF done.on THEN Trap(done.b) ELSE done.b
<1>0. n \in Nat /\ b.row \in Nat
  BY BufferAssumption, GoodParts
<1>1. DOMAIN s = 1 .. n /\ \A k \in 1 .. n : s[k] = b.row + k
  OBVIOUS
<1>2. WwFollow(b, w) = ended
  BY Zenon DEF WwFollow, FollowAll
<1>3. FollowFold!Fold(w, start, s) = done
  BY DEF FollowAll, FollowFold!Fold, FollowRound, FoldLeft, MapThenFoldSet, Max,
         FollowFold!FoldLeft, FollowFold!MapThenFoldSet, FollowFold!Max
<1> HIDE DEF n, s, done
<1>4. PICK a : FollowFold!IsTrace(a, w, start, s, n)
  BY <1>0, <1>1, FollowFold!FoldTrace
<1>5. /\ a[0] = start /\ FollowFold!Fold(w, start, s) = a[n]
      /\ \A k \in 1 .. n : a[k] = FollowRound(w, a[k - 1], s[k])
  BY <1>4 DEF FollowFold!IsTrace
<1> DEFINE States == [b : Good, on : BOOLEAN]
           T == {k \in 0 .. n : a[k] \in States /\ Keeps(b, a[k].b)}
<1>6. 0 \in T
  <2>1. start \in States /\ start.b = b
    OBVIOUS
  <2>2. Keeps(b, b)
    BY NothingDone DEF Keeps, Turns
  <2> HIDE DEF start, States
  <2> QED BY <1>0, <1>5, <2>1, <2>2
<1>7. ASSUME NEW k \in 1 .. n, k - 1 \in T PROVE k \in T
  <2> DEFINE t == a[k - 1]
             i == s[k]
             c == WwPerform(t.b, w, i)
             d == FollowRound(w, t, i)
  <2>1. t \in States /\ Keeps(b, t.b)
    BY <1>7
  <2>2. i \in Nat /\ k \in 0 .. n /\ a[k] = d
    BY <1>0, <1>1, <1>5
  <2> HIDE DEF t, i
  <2>3. Keeps(t.b, c) /\ c \in Good
    BY <2>1, <2>2, WwPerformEdits DEF Edits, Makes, Keeps
  <2>4. d = [t EXCEPT !.b = c] \/ d = [t EXCEPT !.on = FALSE]
    BY DEF FollowRound
  <2> HIDE DEF c, d
  <2>5. Keeps(b, c)
    BY <2>1, <2>3, KeepsOn
  <2>6. d \in States /\ (d.b = c \/ d.b = t.b)
    BY <2>1, <2>3, <2>4
  <2>7. Keeps(b, d.b)
    BY <2>1, <2>5, <2>6
  <2> QED BY <2>2, <2>6, <2>7
<1> HIDE DEF T
<1>8. 0 .. n \subseteq T
  BY <1>0, <1>6, <1>7, FollowFold!IntervalIsIn
<1>9. done.b \in Good /\ Keeps(b, done.b)
  <2>1. n \in T
    BY <1>0, <1>8
  <2> QED BY <1>3, <1>5, <2>1 DEF T
<1> DEFINE e == done.b
<1> HIDE DEF e
<1>10. Keeps(e, Trap(e))
  BY <1>9, TrapTurns DEF Keeps, e
<1>11. Keeps(b, Trap(e))
  BY <1>9, <1>10, KeepsOn DEF e
<1> QED BY <1>2, <1>9, <1>11 DEF e

\* Typing that wraps.
LEMMA WrapKeeps ==
    ASSUME NEW b \in Good, NEW w \in Wraps
    PROVE  Keeps(b, Wrap(b, w)) /\ (~w.long => Turns(b, Wrap(b, w)))
<1> DEFINE s == AbsLine(b)
           pos == BreakPos(s, w.width)
           c == BrokenAt(b, w, b.row, pos)
           d == IF w.long THEN WwFollow(c, w) ELSE c
           offset == IF Has(d, "AutoIndent") THEN IndentOffset(AbsLine(d)) ELSE 0
           k == d.col - pos + offset
           e == GotoLine(d, d.row + 1)
           f == GotoCol(e, k)
           g == IF d.col >= pos THEN f ELSE d
<1>1. s \in Rows /\ w.width \in Nat /\ b.row \in Int
  BY GoodParts, WrapsAssumption
<1>2. Wrap(b, w) = IF ~WwNeed(b, w, b.row) \/ pos = 0 THEN b ELSE g
  BY Zenon DEF Wrap, CursorFollows
<1> HIDE DEF s
<1>3. pos \in Nat
  BY <1>1, BreakPosType
<1> HIDE DEF pos
<1>4. Edits(b, c) /\ c \in Good
  <2>1. Edits(b, c)
    BY <1>1, <1>3, BrokenAtEdits
  <2> QED BY <2>1 DEF Edits, Makes
<1> HIDE DEF c
<1>5. Keeps(b, d) /\ (~w.long => Turns(b, d)) /\ d \in Good
  <2>1. Keeps(b, c) /\ Turns(b, c)
    BY <1>4 DEF Edits, Turns, Keeps
  <2>2. Keeps(c, WwFollow(c, w))
    BY <1>4, FollowKeeps
  <2>3. Keeps(b, WwFollow(c, w))
    BY <2>1, <2>2, KeepsOn
  <2>4. Keeps(b, d) /\ (~w.long => Turns(b, d))
    BY <2>1, <2>3
  <2> HIDE DEF d
  <2> QED BY <2>4 DEF Keeps
<1> HIDE DEF d
<1>6. Goes(d, e) /\ e \in Good
  <2>1. d.row + 1 \in Int
    BY <1>5, GoodParts
  <2> QED BY <1>5, <2>1, GotoGoes DEF Goes
<1> HIDE DEF e
<1>7. k \in Int
  <2>1. AbsLine(d) \in Rows /\ d.col \in Nat /\ Len(AbsLine(d)) \in Nat
    BY <1>5, GoodParts
  <2>2. IndentOffset(AbsLine(d)) \in 0 .. Len(AbsLine(d))
    BY <2>1, LineMeasures DEF Rows
  <2>3. offset \in Int
    BY <2>1, <2>2
  <2> HIDE DEF offset
  <2> QED BY <1>3, <2>1, <2>3
<1> HIDE DEF k
<1>8. Goes(e, f)
  BY <1>6, <1>7, GotoGoes
<1> HIDE DEF f
<1>9. Goes(d, f)
  BY <1>5, <1>6, <1>8, GoesOn
<1>10. Keeps(d, g) /\ Turns(d, g)
  <2>1. Goes(d, g)
    BY <1>5, <1>9, NothingDone
  <2> HIDE DEF g
  <2> QED BY <1>5, <2>1, MovesAre DEF Keeps, Turns
<1> HIDE DEF g
<1>11. Keeps(b, g) /\ (~w.long => Turns(b, g))
  BY <1>5, <1>10, KeepsOn, TurnsOn
<1>12. Keeps(b, b) /\ Turns(b, b)
  BY NothingDone DEF Keeps, Turns
<1> QED BY <1>2, <1>11, <1>12

\* A character is typed and its row wrapped.
LEMMA InsWrapKeeps ==
    ASSUME NEW b \in Good, NEW w \in Wraps, NEW ch \in Letters
    PROVE  LET c == InsCharWrapped(b, w, ch) IN Keeps(b, c) /\ (~w.long => Turns(b, c)) /\ Dirties(b, c)
<1> DEFINE a == Modified(b)
           c == InsertHere(a, ch)
           d == Wrap(c, w)
<1>1. Turns(b, a) /\ a \in Good /\ Dirties(b, a)
  BY FlagMethods DEF Turns
<1> HIDE DEF a
<1>2. Turns(a, c) /\ c \in Good
  BY <1>1, InsertEdits DEF Edits, Makes
<1> HIDE DEF c
<1>3. Turns(b, c)
  BY <1>1, <1>2, TurnsOn
<1>4. Keeps(c, d) /\ (~w.long => Turns(c, d))
  BY <1>2, WrapKeeps
<1> HIDE DEF d
<1>5. Keeps(b, d)
  <2>1. Keeps(b, c)
    BY <1>3 DEF Keeps, Turns
  <2> QED BY <1>4, <2>1, KeepsOn
<1>6. ~w.long => Turns(b, d)
  BY <1>3, <1>4, TurnsOn
<1>7. Dirties(b, d)
  <2>1. b \in Tracked /\ a \in Tracked /\ c \in Tracked /\ Noted(b, a) /\ Noted(a, c) /\ Noted(c, d) /\ Noted(b, c)
    BY <1>1, <1>2, <1>3, <1>4 DEF Good, Turns, Keeps
  <2>2. Dirties(b, c)
    BY <1>1, <2>1, DirtiesOn
  <2> QED BY <2>1, <2>2, DirtiesOn
<1> QED BY <1>5, <1>6, <1>7 DEF InsCharWrapped, a, c, d

-----------------------------------------------------------------------------
(***************************************************************************)
(* A command, between track_beg and track_end.                             *)
(***************************************************************************)
\* a buffer between two commands
Rest == {b \in Buffers : ~Has(b, "Tracking") /\ b.track = <<>> /\ b.row < Count(b)}

\* Looking the same is an equivalence, and what is seen is the view.
LEMMA AlikeOn ==
    ASSUME NEW x, NEW y, Alike(x, y)
    PROVE  /\ Alike(y, x) /\ View(x) = View(y) /\ (Marked(x) <=> Marked(y)) /\ Same(x, y)
           /\ \A z : Alike(y, z) => Alike(x, z)
<1>1. Marked(x) <=> Marked(y)
  BY DEF Alike, Marked, Has, Unseen
<1>2. Alike(y, x)
  BY <1>1 DEF Alike
<1>3. \A z : Alike(y, z) => Alike(x, z)
  BY <1>1 DEF Alike, Marked, Has, Unseen
<1>4. View(x) = View(y)
  <2>1. x.flags \ {"Tracking", "Saved"} = y.flags \ {"Tracking", "Saved"}
    BY DEF Alike, Unseen
  <2>2. (IF Has(x, "MarkState") THEN <<x.mrow, x.mcol>> ELSE <<>>) = (IF Has(y, "MarkState") THEN <<y.mrow, y.mcol>> ELSE <<>>)
    BY <1>1 DEF Alike, Marked
  <2> QED BY <2>1, <2>2 DEF View, Alike
<1>5. Same(x, y)
  <2>1. "IsUnix" \in x.flags \ Unseen <=> "IsUnix" \in y.flags \ Unseen
    BY DEF Alike
  <2>2. "IsUnix" \notin Unseen
    BY DEF Unseen
  <2> QED BY <2>1, <2>2 DEF Alike, Same, Has
<1> QED BY <1>1, <1>2, <1>3, <1>4, <1>5

\* Turning tracking on or off is not seen.
LEMMA TrackingFlag ==
    ASSUME NEW b \in Buffers, NEW on \in BOOLEAN
    PROVE  LET c == SetFlag(b, "Tracking", on)
           IN /\ c \in Buffers /\ Alike(c, b) /\ c.undo = b.undo /\ c.track = b.track /\ c.trap = b.trap
              /\ (Has(c, "Tracking") <=> on) /\ c.lines = b.lines /\ c.row = b.row /\ c.mrow = b.mrow
              /\ (Marked(c) <=> Marked(b)) /\ (Has(c, "Saved") <=> Has(b, "Saved"))
<1> DEFINE fs == IF on THEN b.flags \cup {"Tracking"} ELSE b.flags \ {"Tracking"}
           c == [b EXCEPT !.flags = fs]
<1>1. SetFlag(b, "Tracking", on) = c
  BY DEF SetFlag
<1>2. fs \in SUBSET Flags
  <2>1. b.flags \in SUBSET Flags /\ "Tracking" \in Flags
    BY BufferParts DEF Flags
  <2> QED BY <2>1
<1>3. fs \ Unseen = b.flags \ Unseen /\ ("Tracking" \in fs <=> on) /\ ("MarkState" \in fs <=> "MarkState" \in b.flags)
      /\ ("Saved" \in fs <=> "Saved" \in b.flags)
  BY DEF Unseen
<1> HIDE DEF fs
<1>4. c \in Buffers
  BY <1>2, BufferParts
<1>5. /\ c.flags = fs /\ c.lines = b.lines /\ c.row = b.row /\ c.col = b.col /\ c.mrow = b.mrow /\ c.mcol = b.mcol
      /\ c.track = b.track /\ c.undo = b.undo /\ c.trap = b.trap
  BY DEF Buffers
<1> HIDE DEF c
<1> QED BY <1>1, <1>3, <1>4, <1>5 DEF Alike, Has, Marked

\* track_beg
LEMMA OpenRest ==
    ASSUME NEW b \in Rest
    PROVE  LET o == TrackBeg(b)
           IN /\ o \in Good /\ Alike(o, b) /\ o.undo = b.undo /\ o.track = <<>> /\ o.trap = b.trap
              /\ o.lines = b.lines /\ o.row = b.row /\ o.mrow = b.mrow /\ (Marked(o) <=> Marked(b))
              /\ (Sound(b) <=> Sound(o)) /\ (Has(o, "Saved") <=> Has(b, "Saved")) /\ Clean(o)
<1> DEFINE o == TrackBeg(b)
<1>1. b \in Buffers /\ b.track = <<>> /\ b.row < Count(b)
  BY DEF Rest
<1>2. /\ o \in Buffers /\ Alike(o, b) /\ o.undo = b.undo /\ o.track = b.track /\ o.trap = b.trap
      /\ Has(o, "Tracking") /\ o.lines = b.lines /\ o.row = b.row /\ o.mrow = b.mrow /\ (Marked(o) <=> Marked(b))
      /\ (Has(o, "Saved") <=> Has(b, "Saved"))
  BY <1>1, TrackingFlag DEF TrackBeg
<1> HIDE DEF o
<1>3. o \in Good
  BY <1>1, <1>2 DEF Good, Tracked, Count
<1>4. Sound(b) <=> Sound(o)
  BY <1>2 DEF Sound, Count
<1>5. Clean(o)
  <2>1. \A x : Reverted(x, <<>>) = x
    BY LogFold!FoldEmpty DEF Reverted
  <2>2. o.track = <<>>
    BY <1>1, <1>2
  <2> QED BY <2>1, <2>2 DEF Clean
<1> QED BY <1>1, <1>2, <1>3, <1>4, <1>5 DEF o

\* track_end
LEMMA CloseKeeps ==
    ASSUME NEW c \in Buffers, c.row < Count(c)
    PROVE  LET d == TrackEnd(c)
           IN /\ d \in Buffers /\ Alike(d, c) /\ d.trap = c.trap /\ ~Has(d, "Tracking") /\ (Sound(c) => Sound(d))
              /\ d.row < Count(d) /\ (Has(d, "Saved") <=> Has(c, "Saved"))
              /\ Has(c, "Tracking") => d \in Rest /\ d.undo = IF c.track = <<>> THEN c.undo ELSE <<c.track>> \o c.undo
              /\ ~Has(c, "Tracking") => d = c
<1> DEFINE es == c.track
           us == <<es>> \o c.undo
           m == IF es = <<>> THEN c ELSE [c EXCEPT !.undo = us, !.track = <<>>]
           d == SetFlag(m, "Tracking", FALSE)
<1>1. TrackEnd(c) = IF ~Has(c, "Tracking") THEN c ELSE d
  <2>1. [c EXCEPT !.undo = us, !.track = <<>>] = [c EXCEPT !.undo = <<c.track>> \o @, !.track = <<>>]
    BY Zenon
  <2> QED BY <2>1, Zenon DEF TrackEnd
<1>2. es \in Seq(Notes) /\ c.undo \in Seq(Seq(Notes)) /\ us \in Seq(Seq(Notes)) /\ <<>> \in Seq(Notes)
  <2> DEFINE N == Seq(Notes)
  <2>1. es \in N /\ c.undo \in Seq(N)
    BY BufferParts
  <2> HIDE DEF N, es
  <2>2. <<es>> \in Seq(N)
    BY <2>1
  <2>3. us \in Seq(N)
    BY <2>1, <2>2
  <2> QED BY <2>1, <2>3 DEF N, es
<1> HIDE DEF us, es
<1>3. /\ m \in Buffers /\ m.lines = c.lines /\ m.row = c.row /\ m.col = c.col /\ m.mrow = c.mrow /\ m.mcol = c.mcol
      /\ m.flags = c.flags /\ m.trap = c.trap /\ m.track = <<>>
      /\ m.undo = IF es = <<>> THEN c.undo ELSE us
  <2>1. CASE es = <<>>
    BY <2>1 DEF es
  <2>2. CASE es # <<>>
    <3> DEFINE n == [c EXCEPT !.undo = us]
    <3>1. m = [n EXCEPT !.track = <<>>]
      <4>1. [c EXCEPT !.undo = us, !.track = <<>>] = [n EXCEPT !.track = <<>>]
        BY Zenon
      <4> QED BY <2>2, <4>1
    <3>2. n \in Buffers /\ n.undo = us /\ n.lines = c.lines /\ n.row = c.row /\ n.col = c.col /\ n.mrow = c.mrow
          /\ n.mcol = c.mcol /\ n.flags = c.flags /\ n.trap = c.trap
      BY <1>2 DEF Buffers
    <3> HIDE DEF n, m
    <3> QED BY <1>2, <2>2, <3>1, <3>2 DEF Buffers
  <2> QED BY <2>1, <2>2
<1> HIDE DEF m
<1>4. /\ d \in Buffers /\ Alike(d, m) /\ d.undo = m.undo /\ d.track = m.track /\ d.trap = m.trap
      /\ ~Has(d, "Tracking") /\ d.lines = m.lines /\ d.row = m.row /\ d.mrow = m.mrow /\ (Marked(d) <=> Marked(m))
      /\ (Has(d, "Saved") <=> Has(m, "Saved"))
  BY <1>3, TrackingFlag
<1> HIDE DEF d
<1>5. Alike(m, c)
  BY <1>3 DEF Alike
<1>6. Alike(d, c) /\ Alike(c, c)
  BY <1>4, <1>5, AlikeOn DEF Alike
<1>7. Sound(c) => Sound(d)
  BY <1>3, <1>4 DEF Sound, Count, Marked, Has
<1>8. d \in Rest
  BY <1>3, <1>4 DEF Rest, Count
<1>9. Has(d, "Saved") <=> Has(c, "Saved")
  BY <1>3, <1>4 DEF Has
<1> QED BY <1>1, <1>3, <1>4, <1>6, <1>7, <1>8, <1>9 DEF es, us, Count

-----------------------------------------------------------------------------
(***************************************************************************)
(* The commands.  The mark of a buffer stays in its text as long as the    *)
(* one command that shortens the text under a mark is not bound, or none   *)
(* that sets a mark; and no command runs for ever as long as the rows      *)
(* below the cursor are not wrapped.                                       *)
(***************************************************************************)
Calm == /\ "DelLine" \in Commands => ~CanMark
        /\ "TypeWrap" \in Commands => \A w \in Wraps : ~w.long

\* FlipType leaves the saved flag on when it changes the newlines the file is to have.
Settled == "FlipType" \notin Commands

Performs(b, c) == c \in Good /\ Logged(b, c) /\ (Calm /\ Sound(b) => Sound(c))
\* what a command other than Save does, as far as the saved flag goes; Save writes the text as it is
Allows(b, c) == Performs(b, c) /\ (Settled => Noted(b, c) /\ Owns(b, c))
Honest(c) ==
    \/ disk' = disk /\ Noted(Opened, c) /\ Owns(Opened, c)
    \/ disk' = Written(buf) /\ Same(Opened, c)
Contained  == clip \in Clips \cup {NoClip}
Does(c)    == Performs(Opened, c) /\ (Settled => Honest(c)) /\ buf' = TrackEnd(c) /\ Contained'
Commanded  == ~buf.trap /\ \E c : Does(c)

\* What keeps a buffer sound and owns up to its changes is right for a command in any case.
LEMMA ActsAllow == ASSUME NEW b, NEW c, Acts(b, c) PROVE Allows(b, c)
  BY DEF Acts, Turns, Performs, Allows, Noted

\* What a key does.
LEMMA KeyDoes ==
    ASSUME Contained', disk' = disk, ~buf.trap, NEW c, buf' = TrackEnd(c), Allows(Opened, c) PROVE Commanded
  BY DEF Allows, Honest, Commanded, Does
\* What a key does that leaves the clipboard alone.
LEMMA EditDoes ==
    ASSUME Contained, NEW name, NEW c, Edit(name, c), Allows(Opened, c) PROVE Commanded
<1>1. buf' = TrackEnd(c) /\ ~buf.trap /\ clip' = clip /\ disk' = disk
  BY DEF Edit, Key, Become
<1>2. Contained'
  BY <1>1 DEF Contained
<1> QED BY <1>1, <1>2, KeyDoes

\* Every motion of the cursor stays in the text.
LEMMA MotionGoes == ASSUME NEW b \in Good, NEW m \in Motions PROVE Goes(b, Motion(m, b))
<1>1. /\ Goes(b, CursorLeft(b, 1)) /\ Goes(b, CursorRight(b, 1)) /\ Goes(b, CursorUp(b)) /\ Goes(b, CursorDown(b))
      /\ Goes(b, LineBegin(b)) /\ Goes(b, PageUp(b)) /\ Goes(b, PageDown(b))
  BY StepGoes
<1>2. Goes(b, LineEnd(b)) /\ Goes(b, TextBegin(b)) /\ Goes(b, TextEnd(b))
  BY EndGoes
<1>3. Goes(b, WordLeft(b)) /\ Goes(b, WordRight(b))
  BY WordLeftGoes, WordRightGoes
<1>4. m \in {"Left", "Right", "Up", "Down", "Home", "End", "PgUp", "PgDn",
            "WordLeft", "WordRight", "FileBegin", "FileEnd"}
  BY DEF Motions
<1>5. CASE m = "Left"
  <2>1. Motion(m, b) = CursorLeft(b, 1)
    BY <1>5 DEF Motion
  <2> QED BY <1>1, <1>2, <1>3, <2>1
<1>6. CASE m = "Right"
  <2>1. Motion(m, b) = CursorRight(b, 1)
    BY <1>6 DEF Motion
  <2> QED BY <1>1, <1>2, <1>3, <2>1
<1>7. CASE m = "Up"
  <2>1. Motion(m, b) = CursorUp(b)
    BY <1>7 DEF Motion
  <2> QED BY <1>1, <1>2, <1>3, <2>1
<1>8. CASE m = "Down"
  <2>1. Motion(m, b) = CursorDown(b)
    BY <1>8 DEF Motion
  <2> QED BY <1>1, <1>2, <1>3, <2>1
<1>9. CASE m = "Home"
  <2>1. Motion(m, b) = LineBegin(b)
    BY <1>9 DEF Motion
  <2> QED BY <1>1, <1>2, <1>3, <2>1
<1>10. CASE m = "End"
  <2>1. Motion(m, b) = LineEnd(b)
    BY <1>10 DEF Motion
  <2> QED BY <1>1, <1>2, <1>3, <2>1
<1>11. CASE m = "PgUp"
  <2>1. Motion(m, b) = PageUp(b)
    BY <1>11 DEF Motion
  <2> QED BY <1>1, <1>2, <1>3, <2>1
<1>12. CASE m = "PgDn"
  <2>1. Motion(m, b) = PageDown(b)
    BY <1>12 DEF Motion
  <2> QED BY <1>1, <1>2, <1>3, <2>1
<1>13. CASE m = "WordLeft"
  <2>1. Motion(m, b) = WordLeft(b)
    BY <1>13 DEF Motion
  <2> QED BY <1>1, <1>2, <1>3, <2>1
<1>14. CASE m = "WordRight"
  <2>1. Motion(m, b) = WordRight(b)
    BY <1>14 DEF Motion
  <2> QED BY <1>1, <1>2, <1>3, <2>1
<1>15. CASE m = "FileBegin"
  <2>1. Motion(m, b) = TextBegin(b)
    BY <1>15 DEF Motion
  <2> QED BY <1>1, <1>2, <1>3, <2>1
<1>16. CASE m = "FileEnd"
  <2>1. Motion(m, b) = TextEnd(b)
    BY <1>16 DEF Motion
  <2> QED BY <1>1, <1>2, <1>3, <2>1
<1> QED BY <1>4, <1>5, <1>6, <1>7, <1>8, <1>9, <1>10, <1>11, <1>12, <1>13, <1>14, <1>15, <1>16

\* A mark is set by a command that marks, in the text.
LEMMA MarkTurns == ASSUME NEW b \in Good, CanMark PROVE Acts(b, Mark(b))
<1> DEFINE c == Mark(b)
<1>1. /\ c \in Tracked /\ Noted(b, c) /\ Flagged(b, c) /\ c.mrow = IF Marked(b) THEN b.mrow ELSE b.row
      /\ c.flags = b.flags \cup {"MarkState"}
  BY GoodParts, MarkNoted
<1> HIDE DEF c
<1>2. c \in Good /\ Count(c) = Count(b) /\ c.trap = b.trap /\ b.row < Count(b)
  BY <1>1 DEF Good, Flagged, Count
<1>3. Sound(b) => Sound(c)
  BY <1>1, <1>2 DEF Sound
<1>4. Same(b, c)
  BY <1>1 DEF Same, Flagged, Has
<1> QED BY <1>1, <1>2, <1>3, <1>4 DEF Turns, Acts, Owns, c
\* The mark is taken away.
LEMMA UnmarkActs == ASSUME NEW b \in Good PROVE Acts(b, Unmark(b))
  BY FlagMethods DEF Acts, Owns

\* Turning a flag on or off that is neither the mark's nor the saved one; one of them is the format of the file.
LEMMA FlipTurns ==
    ASSUME NEW b \in Good, NEW flag \in Flags \ {"Tracking", "MarkState", "Saved"}, NEW on \in BOOLEAN
    PROVE  Turns(b, SetFlag(b, flag, on)) /\ (flag # "IsUnix" => Acts(b, SetFlag(b, flag, on)))
<1> DEFINE c == SetFlag(b, flag, on)
<1>0. b \in Tracked
  BY GoodParts
<1>1. /\ c \in Tracked /\ Noted(b, c) /\ Flagged(b, c) /\ Kept(b, c)
      /\ c.flags = IF on THEN b.flags \cup {flag} ELSE b.flags \ {flag}
  <2>1. flag \in Flags \ {"Tracking", "MarkState"} /\ flag # "Saved"
    OBVIOUS
  <2> QED BY <1>0, <2>1, SetFlagNoted
<1> HIDE DEF c
<1>2. Turns(b, c)
  BY <1>1, FlagMade
<1>3. flag # "IsUnix" => Same(b, c)
  BY <1>1 DEF Same, Flagged, Has
<1> QED BY <1>2, <1>3 DEF c, Acts, Owns

\* Saving sets the flags of a text that it leaves as it is.
LEMMA SaveTurns ==
    ASSUME NEW b \in Good
    PROVE  LET c == SetFlag(SetChanged(b, FALSE), "Saved", TRUE) IN Performs(b, c) /\ Same(b, c)
<1> DEFINE changed == "Changed"
           saved == "Saved"
           off == FALSE
           on == TRUE
           a == SetFlag(b, changed, off)
           c == SetFlag(a, saved, on)
<1>1. changed \in Flags \ {"Tracking", "MarkState"} /\ saved \in Flags \ {"Tracking", "MarkState"}
      /\ off \in BOOLEAN /\ on \in BOOLEAN
  BY DEF Flags
<1>2. changed # "IsUnix" /\ saved # "IsUnix"
  OBVIOUS
<1>3. SetFlag(SetChanged(b, FALSE), "Saved", TRUE) = c
  BY DEF SetChanged
<1>4. b \in Tracked
  BY GoodParts
<1> HIDE DEF c, a, changed, saved, off, on
<1>5. /\ a \in Tracked /\ Logged(b, a) /\ Flagged(b, a) /\ Kept(b, a)
      /\ a.flags = IF off THEN b.flags \cup {changed} ELSE b.flags \ {changed}
  BY <1>1, <1>4, SetFlagNoted DEF a
<1>6. /\ c \in Tracked /\ Logged(a, c) /\ Flagged(a, c) /\ Kept(a, c)
      /\ c.flags = IF on THEN a.flags \cup {saved} ELSE a.flags \ {saved}
  BY <1>1, <1>5, SetFlagNoted, ZenonT(60) DEF c
<1>7. Logged(b, c)
  BY <1>4, <1>5, <1>6, LoggedOn
<1>8. Flagged(b, c) /\ Kept(b, c)
  BY <1>5, <1>6 DEF Flagged, Kept
<1>9. Same(b, c)
  <2>1. "IsUnix" \in c.flags <=> "IsUnix" \in b.flags
    BY <1>2, <1>5, <1>6
  <2> QED BY <1>8, <2>1 DEF Same, Flagged, Has
<1>10. c \in Good
  BY <1>6, <1>8 DEF Good, Flagged, Count
<1>11. Sound(b) => Sound(c)
  BY <1>8 DEF Sound, Kept, Flagged, Count
<1> QED BY <1>3, <1>7, <1>9, <1>10, <1>11 DEF Performs

\* What every command but undo does.
LEMMA CommandsDo ==
    ASSUME buf \in Rest, Contained, ~UnindentKeywords, Next \/ TypeWrap, ~Undoing
    PROVE  Commanded
<1> DEFINE o == Opened
<1>1. o \in Good /\ (Marked(o) <=> Marked(buf)) /\ o.mrow = buf.mrow /\ Count(o) = Count(buf)
  BY OpenRest DEF Opened, Count
<1>2. \A c : Acts(o, c) => c \in Good
  BY DEF Acts, Turns
<1>3. \A name, c : Edit(name, c) /\ Acts(o, c) => Commanded
  <2> TAKE name, c
  <2> HAVE Edit(name, c) /\ Acts(o, c)
  <2>1. Allows(Opened, c)
    BY ActsAllow
  <2> QED BY <2>1, EditDoes
<1>4. \A ch \in Chars : ch \in Letters
  BY DEF Letters
<1>22. \A x \in Good : Acts(x, x)
  BY NothingDone DEF Acts, Owns, Same
<1>23. \A x, c : Alters(x, c) => Acts(x, c)
  BY WritesAct DEF Alters, Edits, Writes
<1>5. Acts(o, o) /\ Acts(o, Clear(o)) /\ Clear(o) \in Good
  BY <1>1, <1>2, <1>22, ClearTurns
<1> HIDE DEF o
<1>6. \A name, c : Edit(name, c) /\ Acts(Clear(o), c) => Commanded
  <2> TAKE name, c
  <2> HAVE Edit(name, c) /\ Acts(Clear(o), c)
  <2>1. Acts(o, c)
    BY <1>1, <1>5, ActsOn
  <2> QED BY <1>3, <2>1
<1>7. ASSUME TypeChar PROVE Commanded
  <2> DEFINE b == Clear(o)
  <2>1. PICK ch \in Chars : Edit("Type", TypeIn(b, ch))
    BY <1>7 DEF TypeChar, o
  <2>2. b \in Good /\ ch \in Letters
    BY <1>4, <1>5
  <2> HIDE DEF b
  <2>3. Acts(b, b) /\ Acts(b, InsChar(b, ch)) /\ Acts(b, ReplaceChar(b, ch))
    BY <1>22, <1>23, <2>2, InsCharEdits, ReplaceEdits
  <2>4. Acts(b, TypeIn(b, ch))
    BY <2>3 DEF TypeIn
  <2> QED BY <1>6, <2>1, <2>4 DEF b
<1>8. ASSUME TypeEnter PROVE Commanded
  <2> DEFINE b == Clear(o)
  <2>1. Edit("Enter", EnterIn(b))
    BY <1>8 DEF TypeEnter, o
  <2>2. b \in Good /\ "A" \in Letters
    BY <1>5 DEF Letters
  <2> HIDE DEF b
  <2>3. Acts(b, b) /\ Acts(b, SplitLine(b)) /\ Acts(b, ReplaceNewline(b))
    BY <1>22, <1>23, <2>2, SplitEdits, ReplaceEdits
  <2>4. Acts(b, EnterIn(b))
    BY <2>3 DEF EnterIn
  <2> QED BY <1>6, <2>1, <2>4 DEF b
<1>9. \A c, m : c \in Good /\ Acts(o, c) /\ m \in Motions => Acts(o, Motion(m, c))
  <2> TAKE c, m
  <2> HAVE c \in Good /\ Acts(o, c) /\ m \in Motions
  <2>1. Acts(c, Motion(m, c))
    BY MotionGoes, MovesAct
  <2> QED BY <1>1, <2>1, ActsOn
<1>10. ASSUME Move PROVE Commanded
  <2>1. PICK m \in Motions \cap Commands : Edit(m, Motion(m, Unmark(o)))
    BY <1>10 DEF Move, o
  <2>2. Acts(o, Unmark(o))
    BY <1>1, UnmarkActs
  <2>3. Acts(o, Motion(m, Unmark(o)))
    BY <1>2, <1>9, <2>2
  <2> QED BY <1>3, <2>1, <2>3
<1>11. ASSUME MoveMark PROVE Commanded
  <2>1. PICK m \in Motions \cap Commands : Edit(m, Motion(m, Mark(o)))
    BY <1>11 DEF MoveMark, o
  <2>2. CanMark
    BY <1>11 DEF MoveMark, CanMark
  <2>3. Acts(o, Mark(o))
    BY <1>1, <2>2, MarkTurns
  <2>4. Acts(o, Motion(m, Mark(o)))
    BY <1>2, <1>9, <2>3
  <2> QED BY <1>3, <2>1, <2>4
<1>12. ASSUME JumpLine \/ JumpCol PROVE Commanded
  <2>0. MaxLines \in Nat /\ MaxWidth \in Nat
    BY BufferAssumption
  <2>1. PICK n \in Nat : Edit("JumpLine", GotoLine(o, n - 1)) \/ Edit("JumpCol", GotoCol(o, n - 1))
    BY <1>12, <2>0 DEF JumpLine, JumpCol, o
  <2> DEFINE k == n - 1
  <2>2. k \in Int
    OBVIOUS
  <2>3. Edit("JumpLine", GotoLine(o, k)) \/ Edit("JumpCol", GotoCol(o, k))
    BY <2>1
  <2> HIDE DEF k
  <2>4. Acts(o, GotoLine(o, k)) /\ Acts(o, GotoCol(o, k))
    BY <1>1, <2>2, GotoGoes, MovesAct
  <2> QED BY <1>3, <2>3, <2>4
<1>13. ASSUME DoBksp \/ DoDelLine \/ DoDupLine \/ DoDelWordLeft \/ DoDelWordRight \/ DoDelToEOL PROVE Commanded
  <2>1. \/ Edit("Bksp", BackSpace(o)) \/ Edit("DelLine", DelLine(o)) \/ Edit("DupLine", DupLine(o))
        \/ Edit("DelWordLeft", DelWordLeft(o)) \/ Edit("DelWordRight", DelWordRight(o)) \/ Edit("DelToEOL", DelToEOL(o))
    BY <1>13 DEF DoBksp, DoDelLine, DoDupLine, DoDelWordLeft, DoDelWordRight, DoDelToEOL, o
  <2>2. Acts(o, BackSpace(o)) /\ Acts(o, DelWordLeft(o))
    BY <1>1, BackSpaceTurns, DelWordLeftTurns, WritesAct
  <2>3. Acts(o, DupLine(o)) /\ Acts(o, DelWordRight(o)) /\ Acts(o, DelToEOL(o))
    BY <1>1, <1>23, DupLineEdits, DelWordRightEdits, DelToEOLEdits
  <2>4. ASSUME Edit("DelLine", DelLine(o)) PROVE Commanded
    <3> DEFINE c == DelLine(o)
    <3>1. Makes(o, c) /\ (~Marked(o) => Turns(o, c)) /\ Dirties(o, c)
      BY <1>1, DelLineMakes
    <3>2. Calm => ~CanMark
      BY <2>4 DEF Edit, Key, Calm
    <3>3. Edit("DelLine", c)
      BY <2>4
    <3> HIDE DEF c
    <3>4. ~CanMark /\ Sound(o) => Sound(c)
      <4>1. ~CanMark /\ Sound(o) => ~Marked(o)
        BY DEF Sound
      <4> QED BY <3>1, <4>1 DEF Turns
    <3>5. Allows(Opened, c)
      BY <3>1, <3>2, <3>4 DEF Allows, Performs, Makes, Noted, Owns, o
    <3> QED BY <3>3, <3>5, EditDoes
  <2> QED BY <1>3, <2>1, <2>2, <2>3, <2>4
<1>14. ASSUME DoDel PROVE Commanded
  <2> DEFINE c == IF Has(buf, "MarkState") THEN Clear(o) ELSE DelChar(o)
  <2>1. Edit("Del", Unmark(c))
    BY <1>14 DEF DoDel, o
  <2>2. Acts(o, c)
    BY <1>1, <1>5, <1>23, DelCharEdits
  <2> HIDE DEF c
  <2>3. Acts(c, Unmark(c))
    BY <1>2, <2>2, UnmarkActs
  <2>4. Acts(o, Unmark(c))
    BY <1>1, <2>2, <2>3, ActsOn
  <2> QED BY <1>3, <2>1, <2>4
<1>15. ASSUME DoIndent \/ DoUnindent \/ DoUpper PROVE Commanded
  <2>1. Edit("Indent", Indent(o)) \/ Edit("Unindent", Unindent(o)) \/ Edit("Upper", ToUpper(o))
    BY <1>15 DEF DoIndent, DoUnindent, DoUpper, o
  <2>2. Acts(o, Indent(o)) /\ Acts(o, Unindent(o)) /\ Acts(o, ToUpper(o))
    BY <1>1, IndentTurns, UpperTurns, WritesAct
  <2> QED BY <1>3, <2>1, <2>2
<1>16. ASSUME DoCopy \/ DoCut PROVE Commanded
  <2> DEFINE c == IF Has(buf, "MarkState") /\ StaleMark(buf) THEN Trap(o) ELSE o
  <2>1. PICK d \in {c, Cut(o)} : (Key("Copy", d) \/ Key("Cut", d)) /\ clip' = Copy(buf) /\ disk' = disk
    BY <1>16 DEF DoCopy, DoCut, o
  <2>2. Acts(o, c)
    <3>1. Has(buf, "MarkState") /\ StaleMark(buf) => Marked(o) /\ StaleMark(o)
      BY <1>1 DEF Marked, StaleMark
    <3>2. Marked(o) /\ StaleMark(o) => Acts(o, Trap(o))
      <4>1. Same(o, Trap(o))
        BY <1>1, TrapTurns DEF Same, Has
      <4> QED BY <1>1, <4>1, TrapTurns DEF Acts, Owns
    <3> QED BY <1>5, <3>1, <3>2
  <2>3. Acts(o, d)
    BY <1>1, <2>2, CutTurns
  <2>4. buf' = TrackEnd(d) /\ ~buf.trap
    BY <2>1 DEF Key, Become
  <2>5. Contained'
    <3>1. Copy(buf) \in Clips \cup {NoClip}
      BY CopyType DEF Rest
    <3> QED BY <2>1, <3>1 DEF Contained
  <2>6. Allows(Opened, d)
    BY <2>3, ActsAllow DEF o
  <2> QED BY <2>1, <2>4, <2>5, <2>6, KeyDoes
<1>17. ASSUME DoPaste PROVE Commanded
  <2> DEFINE c == IF Has(buf, "MarkState") THEN Unmark(Clear(o)) ELSE o
  <2>1. Edit("Paste", Paste(c, clip))
    BY <1>17 DEF DoPaste, o
  <2>2. Acts(o, c)
    <3>1. Acts(Clear(o), Unmark(Clear(o)))
      BY <1>5, UnmarkActs
    <3>2. Acts(o, Unmark(Clear(o)))
      BY <1>1, <1>5, <3>1, ActsOn
    <3> QED BY <1>5, <3>2
  <2> HIDE DEF c
  <2>3. c \in Good /\ clip \in Clips \cup {NoClip}
    BY <1>2, <2>2 DEF Contained
  <2>4. Acts(c, Paste(c, clip))
    BY <2>3, PasteTurns
  <2>5. Acts(o, Paste(c, clip))
    BY <1>1, <2>2, <2>4, ActsOn
  <2> QED BY <1>3, <2>1, <2>5
<1>18. ASSUME FlipIns \/ FlipBlockMode \/ FlipAutoindent \/ FlipType PROVE Commanded
  <2>1. PICK flag \in Flags \ {"Tracking", "MarkState", "Saved"}, name \in {"Ins", "FlipBlockMode", "FlipAutoIndent", "FlipType"} :
            Edit(name, Flip(o, flag)) /\ (flag = "IsUnix" => name = "FlipType")
    BY <1>18 DEF FlipIns, FlipBlockMode, FlipAutoindent, FlipType, Flags, o
  <2> DEFINE on == ~Has(o, flag)
             c == Flip(o, flag)
  <2>2. on \in BOOLEAN /\ c = SetFlag(o, flag, on)
    BY DEF Flip
  <2> HIDE DEF on, c
  <2>3. Turns(o, c) /\ (flag # "IsUnix" => Acts(o, c))
    BY <1>1, <2>2, FlipTurns
  <2>4. Edit(name, c)
    BY <2>1 DEF c
  <2>5. Settled => flag # "IsUnix"
    BY <2>1 DEF Settled, Edit, Key
  <2>6. Allows(Opened, c)
    BY <2>3, <2>5 DEF Allows, Performs, Turns, Acts, Noted, o
  <2> QED BY <2>4, <2>6, EditDoes
<1>19. ASSUME Save PROVE Commanded
  <2> DEFINE c == SetFlag(SetChanged(o, FALSE), "Saved", TRUE)
  <2>1. Edit("Save", o) \/ (Key("Save", c) /\ clip' = clip /\ disk' = Written(buf))
    BY <1>19 DEF Save, o
  <2>2. Performs(o, c) /\ Same(o, c)
    BY <1>1, SaveTurns
  <2> HIDE DEF c
  <2>3. ASSUME Key("Save", c), clip' = clip, disk' = Written(buf) PROVE Commanded
    <3>1. buf' = TrackEnd(c) /\ ~buf.trap /\ Contained'
      BY <2>3 DEF Key, Become, Contained
    <3>2. Honest(c)
      BY <2>2, <2>3 DEF Honest, o
    <3> QED BY <2>2, <3>1, <3>2 DEF Commanded, Does, o
  <2> QED BY <1>3, <1>5, <2>1, <2>3
<1>20. ASSUME MouseEvent PROVE Commanded
  <2>1. PICK r \in 0 .. PageRows - 1, k \in 0 .. MaxWidth :
            \/ Edit("Mouse", PutMouse(o, r, k)) \/ Edit("MouseShift", PutMouse(Mark(o), r, k))
            \/ Edit("MouseShift", PutMouse(Unmark(o), r, k))
    BY <1>20 DEF MouseEvent, o
  <2>2. r \in Nat /\ k \in Nat
    OBVIOUS
  <2>3. ASSUME NEW c, Acts(o, c) PROVE Acts(o, PutMouse(c, r, k))
    <3>1. Acts(c, PutMouse(c, r, k))
      BY <1>2, <2>2, <2>3, EndGoes, MovesAct
    <3> QED BY <1>1, <2>3, <3>1, ActsOn
  <2>4. Acts(o, PutMouse(o, r, k)) /\ Acts(o, PutMouse(Unmark(o), r, k))
    BY <1>1, <1>5, <2>3, UnmarkActs
  <2>5. ASSUME Edit("MouseShift", PutMouse(Mark(o), r, k)) PROVE Commanded
    <3>1. CanMark
      BY <2>5 DEF Edit, Key, CanMark
    <3>2. Acts(o, PutMouse(Mark(o), r, k))
      BY <1>1, <2>3, <3>1, MarkTurns
    <3> QED BY <1>3, <2>5, <3>2
  <2> QED BY <1>3, <2>1, <2>4, <2>5
<1>21. ASSUME TypeWrap PROVE Commanded
  <2> DEFINE b == Clear(o)
  <2>1. PICK ch \in Chars, w \in Wraps : Edit("TypeWrap", InsCharWrapped(b, w, ch))
    BY <1>21 DEF TypeWrap, o
  <2> DEFINE c == InsCharWrapped(b, w, ch)
  <2>2. b \in Good /\ ch \in Letters /\ Acts(o, b)
    BY <1>4, <1>5
  <2>3. Edit("TypeWrap", c)
    BY <2>1
  <2> HIDE DEF b
  <2>4. Keeps(b, c) /\ (~w.long => Turns(b, c)) /\ Dirties(b, c)
    BY <2>2, InsWrapKeeps
  <2> HIDE DEF c
  <2>5. Keeps(o, c) /\ Dirties(o, c)
    <3>1. Keeps(o, b) /\ o \in Tracked /\ b \in Tracked /\ Noted(o, b) /\ Noted(b, c)
      BY <1>1, <2>2, <2>4 DEF Acts, Turns, Keeps, Good
    <3>2. Dirties(o, c)
      BY <2>4, <3>1, DirtiesOn
    <3> QED BY <1>1, <2>4, <3>1, <3>2, KeepsOn
  <2>6. Calm => ~w.long
    BY <2>3 DEF Edit, Key, Calm
  <2>7. Calm => Turns(o, c)
    BY <1>1, <2>2, <2>4, <2>6, TurnsOn DEF Acts
  <2>8. Allows(Opened, c)
    BY <2>5, <2>7 DEF Allows, Performs, Keeps, Noted, Turns, Owns, o
  <2> QED BY <2>3, <2>8, EditDoes
<1> QED BY <1>7, <1>8, <1>10, <1>11, <1>12, <1>13, <1>14, <1>15, <1>16, <1>17, <1>18, <1>19, <1>20, <1>21 DEF Next

-----------------------------------------------------------------------------
(***************************************************************************)
(* The past of a buffer: h[0] looks like the buffer, h[k] like what it was *)
(* k commands ago, and each log of the undo list leads from one to the     *)
(* next.                                                                   *)
(***************************************************************************)
Past(b, h) ==
    /\ Alike(b, h[0])
    /\ \A k \in 0 .. Len(b.undo) : h[k] \in Buffers /\ h[k].row < Count(h[k])
    /\ \A k \in 1 .. Len(b.undo) : Leads(b.undo[k], h[k - 1], h[k])
Sounds(b, h) == \A k \in 0 .. Len(b.undo) : Sound(h[k])
\* reverting the log leaves what looks like c not saved
Forgets(es, c) == \A x \in Buffers : Alike(x, c) => ~Has(Reverted(x, es), "Saved")
\* between two of them the file would be the same, or going back does not end with a saved buffer
Safes(b, h) == \A k \in 1 .. Len(b.undo) : Forgets(b.undo[k], h[k - 1]) \/ Same(h[k - 1], h[k])

\* the same past, one command earlier
Earlier(h)  == [k \in Nat |-> h[k + 1]]
\* the past with one more command
Later(d, h) == [k \in Nat |-> IF k = 0 THEN d ELSE h[k - 1]]

\* What looks the same and has the same undo list has the same past.
LEMMA PastStays ==
    ASSUME NEW b, NEW d, NEW h, Past(b, h), Alike(d, b), d.undo = b.undo
    PROVE  Past(d, h) /\ (Sounds(b, h) => Sounds(d, h)) /\ (Safes(b, h) => Safes(d, h))
<1>1. Alike(d, h[0])
  BY AlikeOn DEF Past
<1> QED BY <1>1 DEF Past, Sounds, Safes

\* A buffer that looks like one whose cursor is in the text has its cursor in the text, and its
\* mark, too.
LEMMA PastNow ==
    ASSUME NEW b \in Buffers, NEW h, Past(b, h)
    PROVE  b.row < Count(b) /\ (Sounds(b, h) /\ ~b.trap => Sound(b))
<1>1. Len(b.undo) \in Nat
  BY BufferParts
<1>2. 0 \in 0 .. Len(b.undo)
  BY <1>1
<1>3. Alike(b, h[0]) /\ h[0].row < Count(h[0]) /\ (Sounds(b, h) => Sound(h[0]))
  BY <1>2 DEF Past, Sounds
<1>4. Marked(b) <=> Marked(h[0])
  BY <1>3, AlikeOn
<1>5. b.row = h[0].row /\ Count(b) = Count(h[0]) /\ (Marked(b) => b.mrow = h[0].mrow)
  BY <1>3, <1>4 DEF Alike, Count
<1> QED BY <1>3, <1>4, <1>5 DEF Sound

\* A command that was noted becomes the newest of the past.
LEMMA PastGrows ==
    ASSUME NEW b \in Buffers, NEW h, Past(b, h), NEW es \in Seq(Notes), NEW d \in Buffers,
           d.undo = <<es>> \o b.undo, d.row < Count(d), Leads(es, d, b)
    PROVE  /\ Past(d, Later(d, h)) /\ (Sounds(b, h) /\ Sound(d) => Sounds(d, Later(d, h)))
           /\ Safes(b, h) /\ (Forgets(es, d) \/ Same(b, d)) => Safes(d, Later(d, h))
<1> DEFINE g == Later(d, h)
           N == Seq(Notes)
           us == b.undo
           n == Len(us)
           vs == <<es>> \o us
<1>1. us \in Seq(N) /\ es \in N /\ n \in Nat
  <2>1. us \in Seq(N) /\ es \in N
    BY BufferParts
  <2> HIDE DEF N, us
  <2>2. n \in Nat
    BY <2>1
  <2> QED BY <2>1, <2>2
<1> HIDE DEF N, us
<1>2. Len(vs) = n + 1 /\ vs[1] = es /\ \A k \in 2 .. n + 1 : vs[k] = us[k - 1]
  BY <1>1
<1>3. g[0] = d /\ \A k \in 1 .. n + 1 : g[k] = h[k - 1]
  BY <1>1 DEF Later
<1> HIDE DEF vs, n, g
<1>4. d.undo = vs /\ Len(d.undo) = n + 1
  BY <1>2 DEF vs, us
<1>5. Alike(d, g[0])
  BY <1>3 DEF Alike
<1>6. /\ \A k \in 0 .. n : h[k] \in Buffers /\ h[k].row < Count(h[k])
      /\ \A k \in 1 .. n : Leads(us[k], h[k - 1], h[k])
      /\ Sounds(b, h) => \A k \in 0 .. n : Sound(h[k])
      /\ Safes(b, h) => \A k \in 1 .. n : Forgets(us[k], h[k - 1]) \/ Same(h[k - 1], h[k])
  BY DEF Past, Sounds, Safes, us, n
<1>7. ASSUME NEW k \in 0 .. n + 1
      PROVE  g[k] \in Buffers /\ g[k].row < Count(g[k]) /\ (Sounds(b, h) /\ Sound(d) => Sound(g[k]))
  <2>1. CASE k = 0
    BY <1>3, <2>1
  <2>2. CASE k # 0
    <3>1. k \in 1 .. n + 1 /\ k - 1 \in 0 .. n
      BY <1>1, <2>2
    <3> QED BY <1>3, <1>6, <3>1
  <2> QED BY <2>1, <2>2
<1>8. ASSUME NEW k \in 1 .. n + 1 PROVE Leads(vs[k], g[k - 1], g[k])
  <2>1. CASE k = 1
    <3>1. g[k - 1] = d /\ g[k] = h[0] /\ vs[k] = es
      BY <1>1, <1>2, <1>3, <2>1
    <3>2. Alike(b, h[0])
      BY DEF Past
    <3>3. \A z : Alike(z, b) => Alike(z, h[0])
      BY <3>2, AlikeOn
    <3>4. Leads(es, d, h[0])
      BY <3>3 DEF Leads, BackTo
    <3> QED BY <3>1, <3>4
  <2>2. CASE k # 1
    <3> DEFINE j == k - 1
    <3>1. k \in 2 .. n + 1 /\ j \in 1 .. n /\ j \in 1 .. n + 1 /\ k \in 1 .. n + 1
      BY <1>1, <2>2
    <3>2. g[k] = h[j] /\ vs[k] = us[j] /\ g[j] = h[j - 1]
      BY <1>2, <1>3, <3>1
    <3> HIDE DEF j
    <3>3. Leads(vs[k], g[j], g[k])
      BY <1>6, <3>1, <3>2
    <3> QED BY <3>3 DEF j
  <2> QED BY <2>1, <2>2
<1>9. ASSUME Safes(b, h), Forgets(es, d) \/ Same(b, d), NEW k \in 1 .. n + 1
      PROVE  Forgets(vs[k], g[k - 1]) \/ Same(g[k - 1], g[k])
  <2>1. CASE k = 1
    <3>1. g[k - 1] = d /\ g[k] = h[0] /\ vs[k] = es
      BY <1>1, <1>2, <1>3, <2>1
    <3>2. Same(b, h[0])
      BY AlikeOn DEF Past
    <3>3. Forgets(es, d) \/ Same(d, h[0])
      BY <1>9, <3>2 DEF Same
    <3> QED BY <3>1, <3>3
  <2>2. CASE k # 1
    <3> DEFINE j == k - 1
    <3>1. k \in 2 .. n + 1 /\ j \in 1 .. n /\ j \in 1 .. n + 1 /\ k \in 1 .. n + 1
      BY <1>1, <2>2
    <3>2. g[k] = h[j] /\ vs[k] = us[j] /\ g[j] = h[j - 1]
      BY <1>2, <1>3, <3>1
    <3> HIDE DEF j
    <3>3. Forgets(vs[k], g[j]) \/ Same(g[j], g[k])
      BY <1>6, <1>9, <3>1, <3>2
    <3> QED BY <3>3 DEF j
  <2> QED BY <2>1, <2>2
<1>10. Safes(b, h) /\ (Forgets(es, d) \/ Same(b, d)) => Safes(d, g)
  BY <1>4, <1>9 DEF Safes
<1> QED BY <1>4, <1>5, <1>7, <1>8, <1>10 DEF Past, Sounds, g

\* Undo goes one command back.
LEMMA PastUndone ==
    ASSUME NEW b \in Buffers, NEW h, Past(b, h), b.undo # <<>>
    PROVE  LET y == Undo(b)
           IN /\ y \in Buffers /\ y.undo = Tail(b.undo) /\ y.track = b.track /\ y.trap = b.trap
              /\ Has(y, "Tracking") => Has(b, "Tracking")
              /\ Past(y, Earlier(h)) /\ (Sounds(b, h) => Sounds(y, Earlier(h)))
              /\ Safes(b, h) => Safes(y, Earlier(h)) /\ (Has(y, "Saved") => Has(b, "Saved") /\ Same(b, y))
<1> DEFINE us == b.undo
           es == Head(us)
           vs == Tail(us)
           x == [b EXCEPT !.undo = vs]
           y == Reverted(x, es)
           N == Seq(Notes)
           n == Len(vs)
           g == Earlier(h)
<1>1. us \in Seq(N) /\ us # <<>>
  BY BufferParts
<1> HIDE DEF us, N
<1>2. es \in N /\ vs \in Seq(N) /\ n \in Nat /\ Len(us) = n + 1 /\ us[1] = es /\ \A k \in 1 .. n : vs[k] = us[k + 1]
  BY <1>1
<1>3. Undo(b) = y
  <2>1. b.undo # <<>>
    OBVIOUS
  <2>2. Undo(b) = FoldLeft(Revert, [b EXCEPT !.undo = Tail(@)], Head(b.undo))
    BY <2>1, Zenon DEF Undo
  <2>3. [b EXCEPT !.undo = Tail(@)] = x
    BY Zenon DEF us
  <2>4. FoldLeft(Revert, x, es) = y
    BY UndoReverts
  <2> QED BY <2>2, <2>3, <2>4 DEF us
<1> HIDE DEF vs, es, n
<1>4. /\ x \in Buffers /\ x.undo = vs /\ x.lines = b.lines /\ x.row = b.row /\ x.col = b.col /\ x.mrow = b.mrow
      /\ x.mcol = b.mcol /\ x.flags = b.flags /\ x.track = b.track /\ x.trap = b.trap
  BY <1>2 DEF Buffers, N
<1> HIDE DEF x
<1>5. /\ Alike(b, h[0])
      /\ \A k \in 0 .. n + 1 : h[k] \in Buffers /\ h[k].row < Count(h[k])
      /\ \A k \in 1 .. n + 1 : Leads(us[k], h[k - 1], h[k])
      /\ Sounds(b, h) => \A k \in 0 .. n + 1 : Sound(h[k])
      /\ Safes(b, h) => \A k \in 1 .. n + 1 : Forgets(us[k], h[k - 1]) \/ Same(h[k - 1], h[k])
  BY <1>2 DEF Past, Sounds, Safes, us
<1>6. BackTo(y, x, h[1])
  <2>1. Alike(x, h[0])
    BY <1>4, <1>5 DEF Alike, Marked, Has
  <2>2. Leads(es, h[0], h[1])
    <3>1. 1 \in 1 .. n + 1 /\ 1 - 1 = 0
      BY <1>2
    <3> QED BY <1>2, <1>5, <3>1
  <2> QED BY <1>4, <2>1, <2>2 DEF Leads
<1>12. Forgets(es, h[0]) => ~Has(y, "Saved")
  <2>1. Alike(x, h[0])
    BY <1>4, <1>5 DEF Alike, Marked, Has
  <2> QED BY <1>4, <2>1 DEF Forgets
<1> HIDE DEF y
<1>7. y \in Buffers /\ y.undo = vs /\ y.track = b.track /\ y.trap = b.trap /\ Alike(y, h[1])
      /\ (Has(y, "Tracking") => Has(b, "Tracking"))
  BY <1>4, <1>6 DEF BackTo, Has
<1>8. g[0] = h[1] /\ \A k \in 0 .. n : g[k] = h[k + 1]
  BY <1>2 DEF Earlier
<1> HIDE DEF g
<1>9. ASSUME NEW k \in 0 .. n
      PROVE  g[k] \in Buffers /\ g[k].row < Count(g[k]) /\ (Sounds(b, h) => Sound(g[k]))
  <2>1. k + 1 \in 0 .. n + 1
    BY <1>2
  <2> QED BY <1>5, <1>8, <2>1
<1>10. ASSUME NEW k \in 1 .. n PROVE Leads(vs[k], g[k - 1], g[k])
  <2> DEFINE j == k + 1
  <2>1. j \in 1 .. n + 1 /\ j - 1 = k /\ k - 1 \in 0 .. n /\ k \in 0 .. n /\ k - 1 + 1 = k
    BY <1>2
  <2>2. g[k] = h[j] /\ g[k - 1] = h[k] /\ vs[k] = us[j]
    BY <1>2, <1>8, <2>1
  <2> HIDE DEF j
  <2>3. Leads(us[j], h[k], h[j])
    BY <1>5, <2>1
  <2> QED BY <2>2, <2>3
<1>11. Past(y, g) /\ (Sounds(b, h) => Sounds(y, g))
  BY <1>7, <1>8, <1>9, <1>10 DEF Past, Sounds, n
<1>13. ASSUME Safes(b, h), NEW k \in 1 .. n PROVE Forgets(vs[k], g[k - 1]) \/ Same(g[k - 1], g[k])
  <2> DEFINE j == k + 1
  <2>1. j \in 1 .. n + 1 /\ j - 1 = k /\ k - 1 \in 0 .. n /\ k \in 0 .. n /\ k - 1 + 1 = k
    BY <1>2
  <2>2. g[k] = h[j] /\ g[k - 1] = h[k] /\ vs[k] = us[j]
    BY <1>2, <1>8, <2>1
  <2> HIDE DEF j
  <2>3. Forgets(us[j], h[k]) \/ Same(h[k], h[j])
    BY <1>5, <1>13, <2>1
  <2> QED BY <2>2, <2>3
<1>14. Safes(b, h) => Safes(y, g)
  BY <1>7, <1>13 DEF Safes, n
<1>15. ASSUME Safes(b, h), Has(y, "Saved") PROVE Has(b, "Saved") /\ Same(b, y)
  <2>1. Has(b, "Saved")
    BY <1>4, <1>6, <1>15 DEF BackTo, Has
  <2>2. 1 \in 1 .. n + 1 /\ 1 - 1 = 0
    BY <1>2
  <2>3. Same(h[0], h[1])
    BY <1>2, <1>5, <1>12, <1>15, <2>2
  <2>4. Same(b, h[0]) /\ Same(y, h[1])
    BY <1>5, <1>7, AlikeOn
  <2> QED BY <2>1, <2>3, <2>4 DEF Same
<1> QED BY <1>3, <1>7, <1>11, <1>14, <1>15 DEF g, vs, us

\* the past, k commands earlier
Ago(h, k) == [j \in Nat |-> h[j + k]]

\* Going one command back from there is going back one more.
LEMMA AgoEarlier == ASSUME NEW h, NEW k \in Nat PROVE Earlier(Ago(h, k)) = Ago(h, k + 1)
<1>1. ASSUME NEW j \in Nat PROVE Ago(h, k)[j + 1] = Ago(h, k + 1)[j]
  <2>1. j + 1 \in Nat /\ j + 1 + k = j + (k + 1)
    OBVIOUS
  <2> QED BY <2>1 DEF Ago
<1>2. Earlier(Ago(h, k)) = [j \in Nat |-> Ago(h, k)[j + 1]]
  BY DEF Earlier
<1>3. Ago(h, k + 1) = [j \in Nat |-> Ago(h, k + 1)[j]]
  BY DEF Ago
<1> QED BY <1>1, <1>2, <1>3

\* The buffers that undoing goes through: there is such a row of them, so that the one HistoryOf
\* chooses is one.
IsUndone(u, b, n) == u = [k \in 0 .. n |-> IF k = 0 THEN b ELSE Undo(u[k - 1])]
\* Undoing n times goes through such a row of buffers.
LEMMA UndoneExists == ASSUME NEW b, NEW n \in Nat PROVE \E u : IsUndone(u, b, n)
<1> DEFINE rows == [k \in 1 .. n |-> k]
<1>1. n \in Nat /\ DOMAIN rows = 1 .. n
  OBVIOUS
<1> HIDE DEF rows
<1>2. PICK a : BackFold!IsTrace(a, b, b, rows, n)
  BY <1>1, BackFold!FoldTrace
<1>3. a[0] = b /\ \A k \in 1 .. n : a[k] = Undo(a[k - 1])
  BY <1>2 DEF BackFold!IsTrace, BackRound
<1> DEFINE u == [k \in 0 .. n |-> a[k]]
<1>4. ASSUME NEW k \in 0 .. n PROVE u[k] = IF k = 0 THEN b ELSE Undo(u[k - 1])
  <2>1. CASE k = 0
    BY <1>3, <2>1
  <2>2. CASE k # 0
    <3>1. k \in 1 .. n /\ k - 1 \in 0 .. n
      BY <2>2
    <3> QED BY <1>3, <2>2, <3>1
  <2> QED BY <2>1, <2>2
<1>5. u = [k \in 0 .. n |-> u[k]]
  OBVIOUS
<1> HIDE DEF u
<1>6. IsUndone(u, b, n)
  BY <1>4, <1>5 DEF IsUndone
<1> QED BY <1>6

\* The history of a buffer is its past.
StoryOf(n, h) == [doc |-> View(h[0]), past |-> [k \in 1 .. n |-> View(h[k])]]
\* The history is that past as the user sees it.
LEMMA HistoryIs ==
    ASSUME NEW b \in Buffers, NEW h, Past(b, h) PROVE HistoryOf(b) = StoryOf(Len(b.undo), h)
<1> DEFINE n == Len(b.undo)
           u == CHOOSE u : u = [k \in 0 .. n |-> IF k = 0 THEN b ELSE Undo(u[k - 1])]
<1>1. n \in Nat
  BY BufferParts
<1>2. HistoryOf(b) = [doc |-> View(b), past |-> [k \in 1 .. n |-> View(u[k])]]
  BY Zenon DEF HistoryOf
<1> HIDE DEF n
<1>3. IsUndone(u, b, n)
  <2>1. \E v : IsUndone(v, b, n)
    BY <1>1, UndoneExists
  <2>2. \E v : v = [k \in 0 .. n |-> IF k = 0 THEN b ELSE Undo(v[k - 1])]
    BY <2>1 DEF IsUndone
  <2>3. u = [k \in 0 .. n |-> IF k = 0 THEN b ELSE Undo(u[k - 1])]
    BY <2>2, Zenon
  <2> QED BY <2>3 DEF IsUndone
<1> HIDE DEF u
<1>4. u[0] = b /\ \A k \in 1 .. n : u[k] = Undo(u[k - 1])
  <2>1. 0 \in 0 .. n /\ \A k \in 1 .. n : k \in 0 .. n /\ k # 0
    BY <1>1
  <2>2. \A k \in 0 .. n : u[k] = IF k = 0 THEN b ELSE Undo(u[k - 1])
    BY <1>3 DEF IsUndone
  <2> QED BY <2>1, <2>2
<1> DEFINE T == {k \in 0 .. n : u[k] \in Buffers /\ Len(u[k].undo) = n - k /\ Past(u[k], Ago(h, k))}
<1>5. 0 \in T
  <2> DEFINE g == Ago(h, 0)
  <2>1. \A k \in 0 .. n : g[k] = h[k]
    BY <1>1 DEF Ago
  <2>2. 0 \in 0 .. n /\ \A k \in 1 .. n : k \in 0 .. n /\ k - 1 \in 0 .. n
    BY <1>1
  <2> HIDE DEF g
  <2>3. Past(b, g)
    BY <2>1, <2>2 DEF Past, n
  <2>4. Len(b.undo) = n - 0
    BY <1>1 DEF n
  <2> QED BY <1>4, <2>2, <2>3, <2>4 DEF g
<1>6. ASSUME NEW k \in 1 .. n, k - 1 \in T PROVE k \in T
  <2> DEFINE j == k - 1
             x == u[j]
             g == Ago(h, j)
             m == Len(x.undo)
  <2>1. j \in Nat /\ k = j + 1 /\ n - j # 0 /\ k \in 0 .. n
    BY <1>1
  <2>2. x \in Buffers /\ m = n - j /\ Past(x, g)
    BY <1>6
  <2>3. u[k] = Undo(x)
    BY <1>4
  <2> HIDE DEF j, x, g
  <2>4. x.undo # <<>> /\ Len(Tail(x.undo)) = n - k
    <3> DEFINE us == x.undo
               N == Seq(Notes)
    <3>1. us \in Seq(N)
      BY <2>2, BufferParts
    <3> HIDE DEF us, N
    <3>2. Len(us) = n - j
      BY <2>2 DEF us
    <3>3. us # <<>>
      BY <1>1, <2>1, <3>2
    <3>4. Len(Tail(us)) = n - j - 1
      BY <3>1, <3>2, <3>3
    <3> QED BY <1>1, <2>1, <3>3, <3>4 DEF us
  <2>5. LET y == Undo(x)
        IN y \in Buffers /\ y.undo = Tail(x.undo) /\ Past(y, Earlier(g))
    BY <2>2, <2>4, PastUndone
  <2>6. Earlier(g) = Ago(h, k)
    BY <2>1, AgoEarlier DEF g
  <2> QED BY <2>1, <2>3, <2>4, <2>5, <2>6
<1> HIDE DEF T
<1>7. 0 .. n \subseteq T
  BY <1>1, <1>5, <1>6, BackFold!IntervalIsIn
<1>8. ASSUME NEW k \in 1 .. n PROVE View(u[k]) = View(h[k])
  <2>1. k \in 0 .. n /\ 0 \in Nat /\ 0 + k = k
    BY <1>1
  <2>2. Past(u[k], Ago(h, k))
    BY <1>7, <2>1 DEF T
  <2>3. Alike(u[k], h[k])
    <3>1. Ago(h, k)[0] = h[k]
      BY <2>1 DEF Ago
    <3> QED BY <2>2, <3>1 DEF Past
  <2> QED BY <2>3, AlikeOn
<1>9. View(b) = View(h[0])
  BY AlikeOn DEF Past
<1> QED BY <1>2, <1>8, <1>9 DEF StoryOf, n

-----------------------------------------------------------------------------
(***************************************************************************)
(* The invariant.                                                          *)
(***************************************************************************)
Remembers(b, h) == Past(b, h) /\ (Calm => Sounds(b, h)) /\ (Settled => Safes(b, h))
Backed == {b \in Rest : \E h : Remembers(b, h)}
OnDisk(b, w) == Has(b, "Saved") => Written(b) = w
BInv   == buf \in Backed /\ Contained /\ (Calm => ~buf.trap) /\ (Settled => OnDisk(buf, disk))

\* What is the same is written the same.
LEMMA SameWritten == ASSUME NEW b, NEW c, Same(b, c) PROVE Written(b) = Written(c)
<1>1. b.lines = c.lines /\ (Has(b, "IsUnix") <=> Has(c, "IsUnix")) /\ Count(b) = Count(c)
  BY DEF Same, Count
<1>2. Has(b, "IsUnix") = Has(c, "IsUnix")
  BY <1>1 DEF Has
<1> QED BY <1>1, <1>2 DEF Written

\* A command leaves what looks the same, with the same past, or the past has one more.
LEMMA CommandPast ==
    ASSUME buf \in Rest, Commanded, NEW h, Past(buf, h)
    PROVE  /\ buf' \in Rest /\ Contained'
           /\ Calm /\ Sounds(buf, h) => ~buf'.trap
           /\ Settled /\ OnDisk(buf, disk) => OnDisk(buf', disk')
           /\ \/ Remembers(buf, h) => Remembers(buf', h)
              \/ Remembers(buf, h) => Remembers(buf', Later(buf', h))
           /\ \/ Past(buf', h) /\ buf'.undo = buf.undo
              \/ Past(buf', Later(buf', h)) /\ Len(buf'.undo) = Len(buf.undo) + 1
<1> DEFINE o == Opened
           d == buf'
<1>1. /\ o \in Good /\ Alike(o, buf) /\ o.undo = buf.undo /\ o.track = <<>> /\ o.trap = buf.trap
      /\ (Sound(buf) <=> Sound(o)) /\ (Has(o, "Saved") <=> Has(buf, "Saved")) /\ Clean(o)
  BY OpenRest DEF Opened
<1>20. Opened = o
  OBVIOUS
<1> HIDE DEF o
<1>2. PICK c : Performs(o, c) /\ (Settled => Honest(c)) /\ d = TrackEnd(c) /\ Contained'
  BY DEF Commanded, Does, o
<1>3. ~buf.trap /\ buf \in Buffers
  BY DEF Commanded, Rest
<1>4. c \in Good /\ Logged(o, c) /\ (Calm /\ Sound(o) => Sound(c))
  BY <1>2 DEF Performs
<1>5. c \in Buffers /\ c.row < Count(c) /\ Has(c, "Tracking")
  BY <1>4, GoodParts DEF Good, Tracked
<1>6. PICK es \in Seq(Notes) : c.track = es /\ Leads(es, c, o) /\ c.undo = buf.undo
  <2>1. PICK es \in Seq(Notes) : c.track = es \o o.track /\ Leads(es, c, o) /\ c.undo = o.undo
    BY <1>4 DEF Logged
  <2>2. es \o <<>> = es
    OBVIOUS
  <2> QED BY <1>1, <2>1, <2>2
<1>7. /\ d \in Rest /\ Alike(d, c) /\ d.trap = c.trap /\ (Sound(c) => Sound(d))
      /\ d.undo = IF es = <<>> THEN buf.undo ELSE <<es>> \o buf.undo
      /\ (Has(d, "Saved") <=> Has(c, "Saved"))
  BY <1>2, <1>5, <1>6, CloseKeeps
<1>21. Same(c, d) /\ Same(o, buf)
  BY <1>1, <1>7, AlikeOn DEF Same
<1>22. Settled =>
         \/ disk' = disk /\ (Has(c, "Saved") => Has(o, "Saved")) /\ Owns(o, c)
         \/ disk' = Written(buf) /\ Same(o, c)
  BY <1>2, <1>20 DEF Honest, Noted
<1>23. Dirties(o, c) => ~Has(c, "Saved") /\ Forgets(es, c)
  BY <1>1, <1>6 DEF Dirties, Dirty, Forgotten, Forgets
<1>24. Same(o, c) => Same(buf, d)
  BY <1>21 DEF Same
<1>25. Settled => Forgets(es, d) \/ Same(buf, d)
  <2>1. Forgets(es, c) => Forgets(es, d)
    BY <1>7, AlikeOn DEF Forgets
  <2> QED BY <1>22, <1>23, <1>24, <2>1 DEF Owns
<1>26. ASSUME Settled, OnDisk(buf, disk), Has(d, "Saved") PROVE Written(d) = disk'
  <2>1. Has(c, "Saved")
    BY <1>7, <1>26
  <2>2. Same(buf, d)
    BY <1>22, <1>23, <1>24, <1>26, <2>1 DEF Owns
  <2>3. Written(d) = Written(buf)
    BY <2>2, SameWritten
  <2>4. disk' = disk /\ (Has(c, "Saved") => Has(o, "Saved")) => Written(buf) = disk'
    BY <1>1, <1>26, <2>1 DEF OnDisk
  <2> QED BY <1>22, <1>26, <2>3, <2>4
<1>27. Settled /\ OnDisk(buf, disk) => OnDisk(d, disk')
  BY <1>26 DEF OnDisk
<1> HIDE DEF d
<1>8. d \in Buffers /\ d.row < Count(d)
  BY <1>7 DEF Rest
<1>9. Calm /\ Sounds(buf, h) => Sound(d)
  <2>1. Sounds(buf, h) => Sound(buf)
    BY <1>3, PastNow
  <2> QED BY <1>1, <1>4, <1>7, <2>1
<1>10. CASE es = <<>>
  <2>1. Reverted(c, es) = c
    BY <1>10, LogFold!FoldEmpty DEF Reverted
  <2>2. Alike(c, o)
    <3>1. Alike(c, c)
      BY DEF Alike
    <3> QED BY <1>5, <1>6, <2>1, <3>1 DEF Leads, BackTo
  <2>3. Alike(d, buf)
    BY <1>1, <1>7, <2>2, AlikeOn
  <2>4. Past(d, h) /\ (Sounds(buf, h) => Sounds(d, h)) /\ (Safes(buf, h) => Safes(d, h)) /\ d.undo = buf.undo
    BY <1>7, <1>10, <2>3, PastStays
  <2> QED BY <1>2, <1>7, <1>9, <1>27, <2>4 DEF Remembers, Sound, d
<1>11. CASE es # <<>>
  <2> DEFINE us == buf.undo
             g == Later(d, h)
             N == Seq(Notes)
  <2>1. d.undo = <<es>> \o us /\ us \in Seq(N) /\ es \in N
    BY <1>3, <1>7, <1>11, BufferParts
  <2>2. Leads(es, d, buf)
    <3>1. \A x : Alike(x, d) => Alike(x, c)
      BY <1>7, AlikeOn
    <3>2. \A y : Alike(y, o) => Alike(y, buf)
      BY <1>1, AlikeOn
    <3> QED BY <1>6, <3>1, <3>2 DEF Leads, BackTo
  <2> HIDE DEF N, us
  <2>3. Len(<<es>> \o us) = Len(us) + 1
    BY <2>1
  <2>4. /\ Past(d, g) /\ (Sounds(buf, h) /\ Sound(d) => Sounds(d, g))
        /\ Safes(buf, h) /\ (Forgets(es, d) \/ Same(buf, d)) => Safes(d, g)
    BY <1>3, <1>8, <2>1, <2>2, PastGrows DEF us
  <2> HIDE DEF g
  <2>5. Remembers(buf, h) => Remembers(d, g)
    BY <1>9, <1>25, <2>4 DEF Remembers
  <2>6. Calm /\ Sounds(buf, h) => ~d.trap
    BY <1>9 DEF Sound
  <2> QED BY <1>2, <1>7, <1>27, <2>1, <2>3, <2>4, <2>5, <2>6 DEF us, d, g
<1> QED BY <1>10, <1>11

\* Undo goes back one command, if there is one.
LEMMA UndoPast ==
    ASSUME NEW b \in Rest, NEW h, Past(b, h)
    PROVE  LET d == Undo(b)
           IN /\ d \in Rest /\ d.trap = b.trap
              /\ b.undo = <<>> => d = b
              /\ b.undo # <<>> => /\ d.undo = Tail(b.undo) /\ Past(d, Earlier(h))
                                  /\ Remembers(b, h) => Remembers(d, Earlier(h))
              /\ Safes(b, h) /\ Has(d, "Saved") => Has(b, "Saved") /\ Same(b, d)
<1> DEFINE d == Undo(b)
<1>1. b \in Buffers /\ ~Has(b, "Tracking") /\ b.track = <<>> /\ b.row < Count(b)
  BY DEF Rest
<1>2. b.undo = <<>> => d = b
  BY DEF Undo
<1>3. b.undo # <<>> => /\ d \in Buffers /\ d.undo = Tail(b.undo) /\ d.track = b.track /\ d.trap = b.trap
                       /\ (Has(d, "Tracking") => Has(b, "Tracking"))
                       /\ Past(d, Earlier(h)) /\ (Sounds(b, h) => Sounds(d, Earlier(h)))
                       /\ (Safes(b, h) => Safes(d, Earlier(h)) /\ (Has(d, "Saved") => Has(b, "Saved") /\ Same(b, d)))
  BY <1>1, PastUndone
<1>5. Same(b, b)
  BY DEF Same
<1> HIDE DEF d
<1>4. b.undo # <<>> => d.row < Count(d)
  BY <1>3, PastNow
<1> QED BY <1>1, <1>2, <1>3, <1>4, <1>5 DEF Rest, Remembers, d

\* What undo begins with.
LEMMA CancelRest ==
    ASSUME NEW b \in Rest
    PROVE  LET c == TrackCancel(TrackBeg(b)) IN c \in Rest /\ Alike(c, b) /\ c.undo = b.undo /\ c.trap = b.trap /\ (Has(c, "Saved") <=> Has(b, "Saved"))
<1> DEFINE o == TrackBeg(b)
           m == [o EXCEPT !.track = <<>>]
           c == SetFlag(m, "Tracking", FALSE)
<1>1. /\ o \in Good /\ Alike(o, b) /\ o.undo = b.undo /\ o.track = <<>> /\ o.trap = b.trap
      /\ o.lines = b.lines /\ o.row = b.row /\ (Has(o, "Saved") <=> Has(b, "Saved"))
  BY OpenRest
<1>2. TrackCancel(o) = c
  BY DEF TrackCancel
<1> HIDE DEF o
<1>3. m = o
  BY <1>1, GoodParts DEF Buffers
<1>4. /\ c \in Buffers /\ Alike(c, o) /\ c.undo = o.undo /\ c.track = o.track /\ c.trap = o.trap
      /\ ~Has(c, "Tracking") /\ c.lines = o.lines /\ c.row = o.row /\ (Has(c, "Saved") <=> Has(o, "Saved"))
  BY <1>1, <1>3, GoodParts, TrackingFlag
<1> HIDE DEF c
<1>5. Alike(c, b)
  BY <1>1, <1>4, AlikeOn
<1>6. c.row < Count(c)
  BY <1>1, <1>4 DEF Rest, Count
<1> QED BY <1>1, <1>2, <1>4, <1>5, <1>6 DEF Rest, c, o

\* What undo leaves is again backed, also when it takes back a series of moves.
LEMMA UndoingBacked ==
    ASSUME buf \in Backed, Settled => OnDisk(buf, disk), Undoing
    PROVE  buf' \in Backed /\ buf'.trap = buf.trap /\ (Settled => OnDisk(buf', disk'))
<1> DEFINE x == TrackCancel(TrackBeg(buf))
           T == {y \in Backed : y.trap = buf.trap /\ (Settled => OnDisk(y, disk))}
<1>1. x \in T
  <2>1. buf \in Rest
    BY DEF Backed
  <2>2. PICK h : Remembers(buf, h)
    BY DEF Backed
  <2>3. x \in Rest /\ Alike(x, buf) /\ x.undo = buf.undo /\ x.trap = buf.trap /\ (Has(x, "Saved") <=> Has(buf, "Saved"))
    BY <2>1, CancelRest
  <2> HIDE DEF x
  <2>4. Remembers(x, h)
    BY <2>2, <2>3, PastStays DEF Remembers
  <2>5. Settled => OnDisk(x, disk)
    <3>1. Written(x) = Written(buf)
      BY <2>3, AlikeOn, SameWritten
    <3> QED BY <2>3, <3>1 DEF OnDisk
  <2> QED BY <2>3, <2>4, <2>5 DEF Backed
<1>2. ASSUME NEW y \in T PROVE Undo(y) \in T
  <2>1. y \in Rest /\ y.trap = buf.trap /\ (Settled => OnDisk(y, disk))
    BY DEF Backed
  <2>2. PICK h : Remembers(y, h)
    BY DEF Backed
  <2> DEFINE d == Undo(y)
  <2>3. d \in Rest /\ d.trap = y.trap /\ (y.undo = <<>> => d = y) /\ (y.undo # <<>> => Remembers(d, Earlier(h)))
        /\ (Safes(y, h) /\ Has(d, "Saved") => Has(y, "Saved") /\ Same(y, d))
    BY <2>1, <2>2, UndoPast DEF Remembers
  <2> HIDE DEF d
  <2>4. d \in Backed
    BY <2>2, <2>3 DEF Backed
  <2>5. Settled => OnDisk(d, disk)
    <3>1. Same(y, d) => Written(d) = Written(y)
      BY SameWritten
    <3> QED BY <2>1, <2>2, <2>3, <3>1 DEF OnDisk, Remembers
  <2> QED BY <2>1, <2>3, <2>4, <2>5 DEF d
<1> DEFINE us == x.undo
           S == Seq(Notes)
           d == FoldLeft(LAMBDA t, log : IF IsCursorOnly(t) THEN Undo(t) ELSE t, x, us)
<1>3. DoUndo(Opened) = IF CompressMoves /\ IsCursorOnly(x) THEN d ELSE Undo(x)
  BY DEF DoUndo, Opened
<1>4. SeriesFold!Fold(x, x, us) = d
  BY DEF SeriesFold!Fold, SeriesRound, FoldLeft, MapThenFoldSet, Max,
         SeriesFold!FoldLeft, SeriesFold!MapThenFoldSet, SeriesFold!Max
<1> HIDE DEF d
<1>5. us \in Seq(S)
  BY <1>1, BufferParts DEF Backed, Rest
<1> HIDE DEF x, us, S, T
<1>6. ASSUME NEW t \in T, NEW log \in S PROVE SeriesRound(x, t, log) \in T
  BY <1>2 DEF SeriesRound
<1>7. d \in T
  BY <1>1, <1>4, <1>5, <1>6, SeriesFold!FoldIsIn
<1> DEFINE e == DoUndo(Opened)
<1>8. e \in T
  BY <1>1, <1>2, <1>3, <1>7
<1>9. buf' = TrackEnd(e) /\ disk' = disk
  BY DEF Undoing, Edit, Key, Become
<1> HIDE DEF e
<1>10. e \in Buffers /\ e.row < Count(e) /\ ~Has(e, "Tracking") /\ e \in Backed /\ e.trap = buf.trap
       /\ (Settled => OnDisk(e, disk))
  BY <1>8 DEF T, Backed, Rest
<1>11. TrackEnd(e) = e
  BY <1>10, CloseKeeps
<1> QED BY <1>9, <1>10, <1>11

\* A file just loaded has no past.
LEMMA LoadedBacked == ASSUME Init PROVE BInv
<1>0. PICK doc \in Texts, col \in SavedCols :
          \E row \in 0 .. Len(doc) - 1 : buf = Loaded(doc, row, col) /\ clip = [lines |-> << <<>> >>, column |-> FALSE]
  BY DEF Init
<1>1. PICK row \in 0 .. Len(doc) - 1 :
          buf = Loaded(doc, row, col) /\ clip = [lines |-> << <<>> >>, column |-> FALSE]
  BY <1>0
<1>2. doc \in Seq(Seq(Chars \cup Delims)) /\ doc # <<>> /\ col \in Nat
  BY BufferAssumption
<1>3. doc \in Seq(Rows)
  <2>1. Chars \cup Delims \subseteq Letters
    BY DEF Letters
  <2>2. Seq(Chars \cup Delims) \subseteq Rows
    BY <2>1 DEF Rows
  <2> DEFINE Old == Seq(Chars \cup Delims)
             R == Rows
  <2>3. doc \in Seq(Old) /\ Old \subseteq R
    BY <1>2, <2>2
  <2> HIDE DEF Old, R
  <2>4. doc \in Seq(R)
    BY <2>3
  <2> QED BY <2>4 DEF R
<1>4. Len(doc) \in Nat /\ row \in Nat /\ row < Len(doc)
  <2> DEFINE R == Rows
  <2>1. doc \in Seq(R)
    BY <1>3
  <2> HIDE DEF R
  <2>2. Len(doc) \in Nat
    BY <2>1
  <2> DEFINE n == Len(doc)
  <2>3. n \in Nat /\ row \in 0 .. n - 1
    BY <2>2
  <2> HIDE DEF n
  <2> QED BY <2>3 DEF n
<1>5. /\ buf.lines = doc /\ buf.row = row /\ buf.col = col /\ buf.mrow = 0 /\ buf.mcol = 0
      /\ buf.flags = {"AutoIndent", "InsMode", "Saved"} /\ buf.track = <<>> /\ buf.undo = <<>> /\ buf.trap = FALSE
  BY <1>1 DEF Loaded
<1>6. buf \in Buffers
  <2>1. <<>> \in Seq(Notes) /\ <<>> \in Seq(Seq(Notes)) /\ {"AutoIndent", "InsMode", "Saved"} \in SUBSET Flags
        /\ 0 \in Nat /\ FALSE \in BOOLEAN
    BY DEF Flags
  <2> QED BY <1>1, <1>2, <1>3, <1>4, <2>1 DEF Loaded, Buffers
<1>7. buf \in Rest /\ Sound(buf)
  BY <1>4, <1>5, <1>6 DEF Rest, Count, Has, Sound, Marked
<1> DEFINE h == [k \in Nat |-> buf]
<1>8. Remembers(buf, h)
  <2>1. h[0] = buf /\ Len(buf.undo) = 0 /\ (\A k \in 0 .. 0 : h[k] = buf) /\ 1 .. 0 = {}
    BY <1>5
  <2> HIDE DEF h
  <2>2. Alike(buf, h[0])
    BY <2>1 DEF Alike
  <2> QED BY <1>6, <1>7, <2>1, <2>2 DEF Remembers, Past, Sounds, Safes, Rest
<1>9. clip \in Clips
  <2>1. <<>> \in Rows
    BY DEF Rows
  <2>2. << <<>> >> \in Seq(Rows) /\ << <<>> >> # <<>>
    <3> DEFINE e == <<>>
               R == Rows
    <3>1. e \in R
      BY <2>1
    <3> HIDE DEF e, R
    <3>2. <<e>> \in Seq(R) /\ <<e>> # <<>>
      BY <3>1
    <3> QED BY <3>2 DEF e, R
  <2> QED BY <1>1, <2>2 DEF Clips
<1> HIDE DEF h
<1>10. OnDisk(buf, disk)
  BY DEF Init, OnDisk
<1> QED BY <1>5, <1>7, <1>8, <1>9, <1>10 DEF BInv, Backed, Contained

\* Every step keeps the invariant.
LEMMA BInvStep == ASSUME ~UnindentKeywords, BInv, [MCNext]_<<vars, hist>> PROVE BInv'
<1>1. buf \in Backed /\ buf \in Rest /\ Contained /\ (Calm => ~buf.trap) /\ (Settled => OnDisk(buf, disk))
  BY DEF BInv, Backed
<1>2. CASE Undoing
  <2>1. buf' \in Backed /\ buf'.trap = buf.trap /\ (Settled => OnDisk(buf', disk'))
    BY <1>1, <1>2, UndoingBacked
  <2>2. clip' = clip
    BY <1>2 DEF Undoing, Edit
  <2> QED BY <1>1, <2>1, <2>2 DEF BInv, Contained
<1>3. CASE (Next \/ TypeWrap) /\ ~Undoing
  <2>1. Commanded
    BY <1>1, <1>3, CommandsDo
  <2>2. PICK h : Remembers(buf, h)
    BY <1>1 DEF Backed
  <2>3. /\ buf' \in Rest /\ Contained' /\ (Calm /\ Sounds(buf, h) => ~buf'.trap)
        /\ (Settled /\ OnDisk(buf, disk) => OnDisk(buf', disk'))
        /\ \/ Remembers(buf, h) => Remembers(buf', h)
           \/ Remembers(buf, h) => Remembers(buf', Later(buf', h))
    BY <1>1, <2>1, <2>2, CommandPast DEF Remembers
  <2>4. buf' \in Backed
    BY <2>2, <2>3 DEF Backed
  <2>5. Calm => ~buf'.trap
    BY <2>2, <2>3 DEF Remembers
  <2> QED BY <1>1, <2>3, <2>4, <2>5 DEF BInv
<1>4. CASE UNCHANGED <<vars, hist>>
  BY <1>1, <1>4 DEF BInv, Contained, vars
<1> QED BY <1>2, <1>3, <1>4 DEF MCNext

\* In every state the buffer looks like the head of a past in which each log of the undo list leads
\* from one text to the one before it, the cursor is on a line of the text, and the clipboard holds
\* a block of lines or nothing (buffer.cpp, bundo.cpp, editbox.cpp).
THEOREM BufferInvariant == ASSUME ~UnindentKeywords PROVE MCSpec => []BInv
<1>1. MCInit => BInv
  BY LoadedBacked DEF MCInit
<1>2. BInv /\ [MCNext]_<<vars, hist>> => BInv'
  BY BInvStep
<1> QED BY <1>1, <1>2, PTL DEF MCSpec

\* The cursor is on a line of the text and no command uses a line that does not exist, whatever
\* keys are pressed, as long as none of the two commands is bound that may: DelLine where a block
\* can be marked, whose fixed end it leaves behind (buffer.cpp, del_line), and typing with WW_LONG,
\* which may never end (buffer.cpp, ww_perform).
THEOREM CursorStays == ASSUME ~UnindentKeywords, Calm PROVE MCSpec => []CursorInText
<1>1. BInv => CursorInText
  BY DEF BInv, Backed, Rest, CursorInText
<1>2. MCSpec => []BInv
  BY BufferInvariant
<1> QED BY <1>1, <1>2, PTL

\* A buffer that says it is saved equals the file, through edits, saves and undoing past them, as
\* long as FlipType is not bound, which leaves the flag on (buffer.cpp, set_changed, undo; editbox.cpp, save).
THEOREM SavedStays == ASSUME ~UnindentKeywords, Settled PROVE MCSpec => []SavedIsOnDisk
<1>1. BInv => SavedIsOnDisk
  BY DEF BInv, OnDisk, SavedIsOnDisk
<1>2. MCSpec => []BInv
  BY BufferInvariant
<1> QED BY <1>1, <1>2, PTL

\* What cut takes out of the text and copies, paste at the same place puts back, but for blanks at the
\* ends of rows: for stream and column blocks, of one row or several, with corners anywhere, past the
\* end of a line included (buffer.cpp, cut, copy, paste; line.cpp, ins_chars, del_chars).  The two
\* commands that may use a line that does not exist are not bound.
THEOREM BlocksReturn == ASSUME ~UnindentKeywords, Calm PROVE MCSpec => []CutPasteRoundTrip
<1>1. BInv => CutPasteRoundTrip
  <2> SUFFICES ASSUME BInv PROVE CutPasteRoundTrip
    OBVIOUS
  <2> DEFINE b == TrackBeg(buf)
             d == Paste(Cut(b), Copy(b))
  <2>1. buf \in Rest /\ ~buf.trap
    BY DEF BInv, Backed
  <2>2. b \in Good /\ ~b.trap
    BY <2>1, OpenRest
  <2> HIDE DEF b
  <2>3. Has(b, "MarkState") /\ (AsColumns(b, Copy(b)) <=> IsColumn(b)) => Agree(d.lines, b.lines)
    BY <2>2, RoundTrip DEF Marked
  <2> HIDE DEF d
  <2>4. Agree(d.lines, b.lines) => Written(d).text = Written(b).text
    BY DEF Agree, Written, Count
  <2> QED BY <2>3, <2>4 DEF CutPasteRoundTrip, b, d
<1>2. MCSpec => []BInv
  BY BufferInvariant
<1> QED BY <1>1, <1>2, PTL

\* What the variable hist keeps is the history of the buffer.
HInv == BInv /\ hist = HistoryOf(buf)

\* A step of the buffer is one of History.
LEMMA StepIsHistorys ==
    ASSUME ~UnindentKeywords, ~CompressMoves, HInv, HInv', [MCNext]_<<vars, hist>>
    PROVE  [Hist!Next]_<<hist.doc, hist.past>>
<1> DEFINE n == Len(buf.undo)
<1>1. buf \in Rest /\ buf \in Buffers /\ Contained /\ hist = HistoryOf(buf) /\ buf' \in Buffers /\ hist' = HistoryOf(buf')
  BY DEF HInv, BInv, Backed, Rest
<1>2. PICK h : Remembers(buf, h) /\ Past(buf, h)
  BY DEF HInv, BInv, Backed, Remembers
<1>3. hist = StoryOf(n, h) /\ n \in Nat
  BY <1>1, <1>2, HistoryIs, BufferParts
<1>4. hist.doc = View(h[0]) /\ hist.past = [k \in 1 .. n |-> View(h[k])]
  BY <1>3 DEF StoryOf
<1>5. ASSUME NEW g, Past(buf', g)
      PROVE  hist'.doc = View(g[0]) /\ hist'.past = [k \in 1 .. Len(buf'.undo) |-> View(g[k])]
  BY <1>1, <1>5, HistoryIs DEF StoryOf
<1>6. ASSUME Past(buf', h), buf'.undo = buf.undo PROVE Hist!Idle
  BY <1>4, <1>5, <1>6 DEF Hist!Idle
<1>7. ASSUME Past(buf', Later(buf', h)), Len(buf'.undo) = n + 1 PROVE Hist!Edit
  <2> DEFINE d == buf'
             g == Later(d, h)
             past == [k \in 1 .. n |-> View(h[k])]
             next == [k \in 1 .. n + 1 |-> View(g[k])]
             was == View(h[0])
  <2>1. \A k \in 1 .. n + 1 : g[k] = h[k - 1]
    BY <1>3 DEF Later
  <2>2. hist'.past = next
    BY <1>5, <1>7
  <2> HIDE DEF g, d
  <2>3. \A k \in 1 .. n + 1 : next[k] = View(h[k - 1])
    BY <2>1
  <2>4. Len(past) = n /\ \A k \in 1 .. n : past[k] = View(h[k])
    BY <1>3
  <2>5. next = <<was>> \o past
    <3>1. Len(next) = n + 1 /\ DOMAIN next = 1 .. n + 1
      BY <1>3
    <3> DEFINE S == {was} \cup {View(h[k]) : k \in 1 .. n}
    <3>2. was \in S /\ \A k \in 1 .. n : View(h[k]) \in S
      OBVIOUS
    <3>3. past \in Seq(S)
      BY <1>3, <3>2
    <3>4. next \in Seq(S)
      <4>1. ASSUME NEW k \in 1 .. n + 1 PROVE View(g[k]) \in S
        <5>1. CASE k = 1
          BY <1>3, <2>1, <3>2, <5>1
        <5>2. CASE k # 1
          <6>1. k - 1 \in 1 .. n
            BY <1>3, <5>2
          <6> QED BY <2>1, <3>2, <6>1
        <5> QED BY <5>1, <5>2
      <4> QED BY <1>3, <4>1
    <3> HIDE DEF next, past, n, S, was
    <3>5. <<was>> \o past \in Seq(S) /\ Len(<<was>> \o past) = n + 1
      BY <2>4, <3>2, <3>3
    <3>6. ASSUME NEW k \in 1 .. n + 1 PROVE next[k] = (<<was>> \o past)[k]
      <4>1. CASE k = 1
        BY <1>3, <2>3, <3>3, <4>1 DEF was
      <4>2. CASE k # 1
        <5>1. k - 1 \in 1 .. n
          BY <1>3, <4>2
        <5> QED BY <1>3, <2>3, <2>4, <3>3, <4>2, <5>1
      <4> QED BY <4>1, <4>2
    <3> QED BY <1>3, <3>1, <3>4, <3>5, <3>6, SeqEqual
  <2> QED BY <1>4, <2>2, <2>5 DEF Hist!Edit
<1>8. CASE Undoing
  <2> DEFINE x == TrackCancel(TrackBeg(buf))
             d == Undo(x)
  <2>1. x \in Rest /\ Alike(x, buf) /\ x.undo = buf.undo
    BY <1>1, CancelRest
  <2>2. buf' = TrackEnd(d)
    <3>1. buf' = TrackEnd(DoUndo(Opened))
      BY <1>8 DEF Undoing, Edit, Key, Become
    <3>2. DoUndo(Opened) = d
      BY DEF DoUndo, Opened
    <3> QED BY <3>1, <3>2
  <2> HIDE DEF x
  <2>3. Past(x, h)
    BY <1>2, <2>1, PastStays
  <2>4. /\ d \in Rest /\ (x.undo = <<>> => d = x)
        /\ x.undo # <<>> => d.undo = Tail(x.undo) /\ Past(d, Earlier(h))
    BY <2>1, <2>3, UndoPast
  <2> HIDE DEF d
  <2>5. buf' = d
    BY <2>2, <2>4, CloseKeeps DEF Rest
  <2>6. CASE buf.undo = <<>>
    BY <1>6, <2>1, <2>3, <2>4, <2>5, <2>6 DEF Hist!Next
  <2>7. CASE buf.undo # <<>>
    <3> DEFINE us == buf.undo
               N == Seq(Notes)
               g == Earlier(h)
               past == [k \in 1 .. n |-> View(h[k])]
               next == [k \in 1 .. n - 1 |-> View(g[k])]
    <3>1. us \in Seq(N) /\ us # <<>>
      BY <1>1, <2>7, BufferParts
    <3> HIDE DEF N, us
    <3>2. Len(Tail(us)) = Len(us) - 1 /\ Len(us) # 0
      BY <3>1
    <3>3. Past(buf', g) /\ Len(buf'.undo) = n - 1 /\ n # 0
      BY <2>1, <2>4, <2>5, <2>7, <3>2 DEF us
    <3>4. g[0] = h[1] /\ \A k \in 1 .. n - 1 : g[k] = h[k + 1]
      BY <1>3 DEF Earlier
    <3> HIDE DEF g
    <3>5. hist'.doc = View(h[1]) /\ hist'.past = next
      BY <1>5, <3>3, <3>4
    <3> HIDE DEF n
    <3>6. past # <<>> /\ Head(past) = View(h[1])
      BY <1>3, <3>3
    <3>7. Tail(past) = next
      <4>1. Tail(past) = [k \in 1 .. n - 1 |-> past[k + 1]]
        BY <1>3, <3>3
      <4>2. \A k \in 1 .. n - 1 : past[k + 1] = next[k]
        BY <1>3, <3>4
      <4> QED BY <4>1, <4>2
    <3> HIDE DEF past, next
    <3>8. hist.past = past
      BY <1>4 DEF past
    <3> QED BY <3>5, <3>6, <3>7, <3>8 DEF Hist!Next, Hist!Undo
  <2> QED BY <2>6, <2>7
<1>9. CASE (Next \/ TypeWrap) /\ ~Undoing
  <2>1. Commanded
    BY <1>1, <1>9, CommandsDo
  <2>2. \/ Past(buf', h) /\ buf'.undo = buf.undo
        \/ Past(buf', Later(buf', h)) /\ Len(buf'.undo) = Len(buf.undo) + 1
    BY <1>1, <1>2, <2>1, CommandPast
  <2> QED BY <1>6, <1>7, <2>2 DEF Hist!Next
<1>10. CASE UNCHANGED <<vars, hist>>
  BY <1>10
<1> QED BY <1>8, <1>9, <1>10 DEF MCNext

\* The buffer implements History: whatever the text and the key table are, each command that
\* changed what the user sees can be taken back, and undo visits the earlier texts, cursors, marks
\* and flags exactly.  The keyword unindent, which changes a line without a note (buffer.cpp:269),
\* and the series of moves taken back at once (CompressMoves) are what this is not true of.
THEOREM UndoIsExact == ASSUME ~UnindentKeywords, ~CompressMoves PROVE MCSpec => ImplementsHistory
<1>1. MCInit => HInv /\ Hist!Init
  <2> SUFFICES ASSUME MCInit PROVE HInv /\ Hist!Init
    OBVIOUS
  <2>1. HInv
    BY LoadedBacked DEF MCInit, HInv
  <2>2. buf.undo = <<>> /\ buf \in Buffers
    <3>1. buf.undo = <<>>
      BY DEF MCInit, Init, Loaded
    <3> QED BY <2>1, <3>1 DEF HInv, BInv, Backed, Rest
  <2>3. PICK h : Past(buf, h)
    BY <2>1 DEF HInv, BInv, Backed, Remembers
  <2>4. hist = StoryOf(0, h)
    <3>1. Len(buf.undo) = 0
      BY <2>2
    <3>2. HistoryOf(buf) = StoryOf(Len(buf.undo), h)
      BY <2>2, <2>3, HistoryIs
    <3> QED BY <2>1, <3>1, <3>2 DEF HInv
  <2>5. hist.past = <<>>
    BY <2>4 DEF StoryOf
  <2> QED BY <2>1, <2>5 DEF Hist!Init
<1>2. HInv /\ [MCNext]_<<vars, hist>> => HInv'
  <2> SUFFICES ASSUME HInv, [MCNext]_<<vars, hist>> PROVE HInv'
    OBVIOUS
  <2>1. BInv'
    BY BInvStep DEF HInv
  <2>2. hist' = HistoryOf(buf')
    BY DEF HInv, MCNext, vars
  <2> QED BY <2>1, <2>2 DEF HInv
<1>3. HInv /\ HInv' /\ [MCNext]_<<vars, hist>> => [Hist!Next]_<<hist.doc, hist.past>>
  BY StepIsHistorys
<1> QED BY <1>1, <1>2, <1>3, PTL DEF MCSpec, ImplementsHistory, Hist!Spec
=============================================================================
