---------------------------- MODULE UndoLogProofs ----------------------------
(***************************************************************************)
(* Proofs about the undo log, for every value of the constants: the types, *)
(* the invariant LogsConnect, and that the log implements History.         *)
(***************************************************************************)
EXTENDS UndoLog, LineProofs, SequenceTheorems, TLAPS

-----------------------------------------------------------------------------
(***************************************************************************)
(* Rows taken out and put back.                                            *)
(***************************************************************************)

\* Rows that are put into a text and taken out again leave it as it was.
LEMMA RemovedInserted ==
    ASSUME NEW S, NEW s \in Seq(S), NEW i \in 0 .. Len(s), NEW ls \in Seq(S)
    PROVE  /\ Inserted(s, i, ls) \in Seq(S)
           /\ Removed(Inserted(s, i, ls), i, Len(ls)) = s
<1> DEFINE t == Inserted(s, i, ls)
           u == Removed(t, i, Len(ls))
<1>1. /\ t \in Seq(S)
      /\ Len(t) = Len(s) + Len(ls)
  <2>1. \A k \in 1 .. Len(s) + Len(ls) :
            (IF k <= i THEN s[k] ELSE IF k <= i + Len(ls) THEN ls[k - i] ELSE s[k - Len(ls)]) \in S
    OBVIOUS
  <2> QED BY <2>1 DEF Inserted
<1>2. /\ u \in Seq(S)
      /\ Len(u) = Len(s)
  BY <1>1 DEF Removed
<1>3. ASSUME NEW k \in 1 .. Len(s)
      PROVE  u[k] = s[k]
  BY <1>1 DEF Inserted, Removed
<1>4. u = s
  BY <1>2, <1>3, SeqEqual
<1> QED BY <1>1, <1>4

\* Rows that are taken out of a text and put back leave it as it was.
LEMMA InsertedRemoved ==
    ASSUME NEW S, NEW s \in Seq(S), NEW i \in Nat, NEW n \in Nat, i + n <= Len(s)
    PROVE  /\ Removed(s, i, n) \in Seq(S)
           /\ Taken(s, i, n) \in Seq(S)
           /\ Inserted(Removed(s, i, n), i, Taken(s, i, n)) = s
<1> DEFINE t == Removed(s, i, n)
           ls == Taken(s, i, n)
           u == Inserted(t, i, ls)
<1>1. /\ t \in Seq(S)
      /\ Len(t) = Len(s) - n
  BY DEF Removed
<1>2. /\ ls \in Seq(S)
      /\ Len(ls) = n
  BY DEF Taken
<1>3. /\ u \in Seq(S)
      /\ Len(u) = Len(s)
  <2>1. \A k \in 1 .. Len(t) + Len(ls) :
            (IF k <= i THEN t[k] ELSE IF k <= i + Len(ls) THEN ls[k - i] ELSE t[k - Len(ls)]) \in S
    BY <1>1, <1>2
  <2> QED BY <1>1, <1>2, <2>1 DEF Inserted
<1>4. ASSUME NEW k \in 1 .. Len(s)
      PROVE  u[k] = s[k]
  BY <1>1, <1>2 DEF Inserted, Removed, Taken
<1>5. u = s
  BY <1>3, <1>4, SeqEqual
<1> QED BY <1>1, <1>2, <1>5

-----------------------------------------------------------------------------
(***************************************************************************)
(* Logs that connect.                                                      *)
(***************************************************************************)

\* A note that is reverted on exactly the text it was made on extends a chain.
LEMMA ChainPush ==
    ASSUME NEW log \in Seq(Notes), NEW e \in Notes, NEW bottom,
           Chain(e.pre, log, bottom), Sound(e)
    PROVE  /\ <<e>> \o log \in Seq(Notes)
           /\ Chain(e.post, <<e>> \o log, bottom)
<1> DEFINE longer == <<e>> \o log
<1>1. /\ longer \in Seq(Notes)
      /\ Len(longer) = Len(log) + 1
      /\ longer # <<>>
  OBVIOUS
<1>2. longer[1] = e
  OBVIOUS
<1>3. \A i \in 1 .. Len(log) : longer[i + 1] = log[i]
  OBVIOUS
<1>4. longer[Len(longer)].pre = bottom
  <2>1. CASE log = <<>>
    BY <1>1, <1>2, <2>1 DEF Chain
  <2>2. CASE log # <<>>
    <3>1. Len(log) \in 1 .. Len(log)
      BY <2>2
    <3> QED BY <1>1, <1>3, <2>2, <3>1 DEF Chain
  <2> QED BY <2>1, <2>2
<1>5. ASSUME NEW i \in 1 .. Len(longer) - 1
      PROVE  longer[i].pre = longer[i + 1].post
  <2>1. CASE i = 1
    <3>1. log # <<>>
      BY <1>1, <2>1
    <3> QED BY <1>1, <1>2, <1>3, <2>1, <3>1 DEF Chain
  <2>2. CASE i # 1
    <3>1. /\ i - 1 \in 1 .. Len(log) - 1
          /\ i - 1 \in 1 .. Len(log)
          /\ i \in 1 .. Len(log)
      BY <1>1, <2>2
    <3>2. longer[i] = log[i - 1] /\ longer[i + 1] = log[i]
      BY <1>3, <3>1
    <3>3. log[i - 1].pre = log[(i - 1) + 1].post
      BY <3>1 DEF Chain
    <3> QED BY <3>2, <3>3
  <2> QED BY <2>1, <2>2
<1>6. ASSUME NEW i \in 1 .. Len(longer)
      PROVE  Sound(longer[i])
  <2>1. CASE i = 1
    BY <1>2, <2>1
  <2>2. CASE i # 1
    <3>1. i - 1 \in 1 .. Len(log)
      BY <1>1, <2>2
    <3> QED BY <1>3, <3>1 DEF Chain
  <2> QED BY <2>1, <2>2
<1> QED BY <1>1, <1>2, <1>4, <1>5, <1>6 DEF Chain

\* Reverting the newest note of a chain leaves the chain of the others.
LEMMA ChainPop ==
    ASSUME NEW log \in Seq(Notes), log # <<>>, NEW top, NEW bottom, Chain(top, log, bottom)
    PROVE  /\ Tail(log) \in Seq(Notes)
           /\ Revert(top, Head(log)) \in States
           /\ Chain(Revert(top, Head(log)), Tail(log), bottom)
<1> DEFINE rest == Tail(log)
           back == Revert(top, Head(log))
<1>1. /\ rest \in Seq(Notes)
      /\ Len(rest) = Len(log) - 1
      /\ Head(log) = log[1]
      /\ Len(log) \in Nat \ {0}
  OBVIOUS
<1>2. \A i \in 1 .. Len(rest) : rest[i] = log[i + 1]
  BY <1>1
<1>3. back = log[1].pre
  BY <1>1 DEF Chain, Sound
<1>4. back \in States
  <2>1. log[1] \in Notes
    BY <1>1
  <2> QED BY <1>3, <2>1 DEF Notes, NotesOf
<1>5. rest = <<>> => back = bottom
  <2>1. rest = <<>> => Len(log) = 1
    BY <1>1
  <2> QED BY <1>3, <2>1 DEF Chain
<1>6. rest # <<>> => rest[1].post = back /\ rest[Len(rest)].pre = bottom
  <2> SUFFICES ASSUME rest # <<>>
               PROVE  rest[1].post = back /\ rest[Len(rest)].pre = bottom
    OBVIOUS
  <2>1. 1 \in 1 .. Len(rest) /\ Len(rest) \in 1 .. Len(rest) /\ 1 \in 1 .. Len(log) - 1
    BY <1>1
  <2>2. rest[1] = log[2] /\ rest[Len(rest)] = log[Len(log)]
    BY <1>1, <1>2, <2>1
  <2>3. log[1].pre = log[1 + 1].post /\ log[Len(log)].pre = bottom
    BY <2>1 DEF Chain
  <2> QED BY <1>3, <2>2, <2>3
<1>7. ASSUME NEW i \in 1 .. Len(rest) - 1
      PROVE  rest[i].pre = rest[i + 1].post
  <2>1. i \in 1 .. Len(rest) /\ i + 1 \in 1 .. Len(rest) /\ i + 1 \in 1 .. Len(log) - 1
    BY <1>1
  <2>2. log[i + 1].pre = log[(i + 1) + 1].post
    BY <2>1 DEF Chain
  <2> QED BY <1>2, <2>1, <2>2
<1>8. ASSUME NEW i \in 1 .. Len(rest)
      PROVE  Sound(rest[i])
  <2>1. i + 1 \in 1 .. Len(log)
    BY <1>1
  <2> QED BY <1>2, <2>1 DEF Chain
<1> QED BY <1>1, <1>4, <1>5, <1>6, <1>7, <1>8 DEF Chain

-----------------------------------------------------------------------------
(***************************************************************************)
(* The primitives: each of their notes takes back exactly its own change.  *)
(***************************************************************************)

\* The change of a primitive, with the note that it adds to the log.
NotedChange(e) == Noting(<<e>>) /\ e.pre = text /\ text' = e.post

\* The notes the primitives make are notes.
LEMMA NoteTypes ==
    ASSUME NEW pre \in States, NEW post \in States
    PROVE  /\ \A op \in {"CurRow", "CurCol", "DelLine"}, n \in Nat : Note(op, n, 0, pre, post) \in Notes
           /\ \A fs \in SUBSET Flags : Note("SetFlags", 0, fs, pre, post) \in Notes
           /\ \A m \in Marks : Note("MarkPos", 0, m, pre, post) \in Notes
           /\ \A op \in {"InsLine", "RestoreLine"}, n \in Nat, l \in Lines : Note(op, n, l, pre, post) \in Notes
           /\ \A n \in Nat, ls \in Seq(Lines) : Note("InsBlock", n, ls, pre, post) \in Notes
           /\ \A old, new \in Lines : Note("UpdateLine", 0, GenDiff(old, new), pre, post) \in Notes
<1>1. \A op \in {"CurRow", "CurCol", "DelLine"}, n \in Nat : Note(op, n, 0, pre, post) \in Notes
  BY DEF Note, Notes, NotesOf
<1>2. \A fs \in SUBSET Flags : Note("SetFlags", 0, fs, pre, post) \in Notes
  BY DEF Note, Notes, NotesOf
<1>3. \A m \in Marks : Note("MarkPos", 0, m, pre, post) \in Notes
  BY DEF Note, Notes, NotesOf
<1>4. \A op \in {"InsLine", "RestoreLine"}, n \in Nat, l \in Lines : Note(op, n, l, pre, post) \in Notes
  BY DEF Note, Notes, NotesOf
<1>5. \A n \in Nat, ls \in Seq(Lines) : Note("InsBlock", n, ls, pre, post) \in Notes
  BY DEF Note, Notes, NotesOf
<1>6. \A old, new \in Lines : Note("UpdateLine", 0, GenDiff(old, new), pre, post) \in Notes
  BY DEF Note, Notes, NotesOf
<1> QED BY <1>1, <1>2, <1>3, <1>4, <1>5, <1>6

\* What the typing of a text gives, and what changing one part of it keeps.
LEMMA StateParts ==
    ASSUME NEW b \in States
    PROVE  /\ b.lines \in Seq(Lines) /\ b.row \in Nat /\ b.col \in Nat
           /\ b.flags \in SUBSET Flags /\ b.mark \in Marks
           /\ \A r \in Nat : [b EXCEPT !.row = r] \in States
           /\ \A c \in Nat : [b EXCEPT !.col = c] \in States
           /\ b.mark # NoMark => "MarkState" \in b.flags
           /\ \A fs \in SUBSET Flags :
                  (b.mark # NoMark => "MarkState" \in fs) => [b EXCEPT !.flags = fs] \in States
           /\ \A fs \in SUBSET Flags, m \in Marks :
                  (m # NoMark => "MarkState" \in fs) => [b EXCEPT !.flags = fs, !.mark = m] \in States
           /\ \A s \in Seq(Lines) : [b EXCEPT !.lines = s] \in States
BY DEF States

\* A step of the cursor is taken back by the position it left.
LEMMA CursorIsSound ==
    ASSUME TypeOK, MoveRow \/ MoveCol
    PROVE  \E e \in Notes : Sound(e) /\ NotedChange(e)
<1>0. text \in States
  BY DEF TypeOK
<1>1. CASE MoveRow
  <2>1. PICK r \in 0 .. MaxRows : Change("CurRow", text.row, 0, [text EXCEPT !.row = r])
    BY <1>1 DEF MoveRow
  <2> DEFINE after == [text EXCEPT !.row = r]
             e == Note("CurRow", text.row, 0, text, after)
  <2>2. after \in States
    <3>1. r \in Nat
      BY UndoLogAssumption
    <3> QED BY <1>0, <3>1, StateParts
  <2>3. e \in Notes
    BY <1>0, <2>2, NoteTypes, StateParts
  <2>4. Sound(e)
    BY <1>0 DEF Note, Sound, Revert, States
  <2>5. NotedChange(e)
    BY <2>1 DEF Change, Note, NotedChange
  <2> QED BY <2>3, <2>4, <2>5
<1>2. CASE MoveCol
  <2>1. PICK c \in 0 .. MaxCol : Change("CurCol", text.col, 0, [text EXCEPT !.col = c])
    BY <1>2 DEF MoveCol
  <2> DEFINE after == [text EXCEPT !.col = c]
             e == Note("CurCol", text.col, 0, text, after)
  <2>2. after \in States
    <3>1. c \in Nat
      BY UndoLogAssumption
    <3> QED BY <1>0, <3>1, StateParts
  <2>3. e \in Notes
    BY <1>0, <2>2, NoteTypes, StateParts
  <2>4. Sound(e)
    BY <1>0 DEF Note, Sound, Revert, States
  <2>5. NotedChange(e)
    BY <2>1 DEF Change, Note, NotedChange
  <2> QED BY <2>3, <2>4, <2>5
<1> QED BY <1>1, <1>2

\* A change of the flags is taken back by the flags it found; marking sets a
\* mark where none was, so that the flags take it back as well.
LEMMA FlagsAreSound ==
    ASSUME TypeOK, SetFlag \/ Mark
    PROVE  \E e \in Notes : Sound(e) /\ NotedChange(e)
<1>0. text \in States
  BY DEF TypeOK
<1>1. CASE SetFlag
  <2>1. PICK f \in Flags \ {"MarkState"}, on \in BOOLEAN :
            Change("SetFlags", 0, text.flags,
                   [text EXCEPT !.flags = IF on THEN @ \cup {f} ELSE @ \ {f}])
    BY <1>1 DEF SetFlag
  <2> DEFINE fs == IF on THEN text.flags \cup {f} ELSE text.flags \ {f}
             after == [text EXCEPT !.flags = fs]
             e == Note("SetFlags", 0, text.flags, text, after)
  <2>2. after \in States
    <3>1. fs \in SUBSET Flags /\ (text.mark # NoMark => "MarkState" \in fs)
      BY <1>0, StateParts
    <3> QED BY <1>0, <3>1, StateParts
  <2>3. e \in Notes
    BY <1>0, <2>2, NoteTypes, StateParts
  <2>4. Sound(e)
    <3>1. "MarkState" \notin text.flags => text.mark = NoMark
      BY <1>0, StateParts
    <3> QED BY <1>0, <3>1 DEF Note, Sound, Revert, States
  <2>5. NotedChange(e)
    BY <2>1 DEF Change, Note, NotedChange
  <2> QED BY <2>3, <2>4, <2>5
<1>2. CASE Mark
  <2> DEFINE fs == text.flags \cup {"MarkState"}
             after == [text EXCEPT !.flags = fs, !.mark = <<text.row, text.col>>]
             e == Note("SetFlags", 0, text.flags, text, after)
  <2>2. after \in States
    <3>1. fs \in SUBSET Flags /\ <<text.row, text.col>> \in Marks
      BY <1>0, StateParts, UndoLogAssumption DEF Marks
    <3> QED BY <1>0, <3>1, StateParts
  <2>3. e \in Notes
    BY <1>0, <2>2, NoteTypes, StateParts
  <2>4. Sound(e)
    <3>1. "MarkState" \notin text.flags /\ text.mark = NoMark
      BY <1>0, <1>2, StateParts DEF Mark
    <3> QED BY <1>0, <3>1 DEF Note, Sound, Revert, States
  <2>5. NotedChange(e)
    BY <1>2 DEF Mark, Change, Note, NotedChange
  <2> QED BY <2>3, <2>4, <2>5
<1> QED BY <1>1, <1>2

\* A line that is changed under the cursor is taken back by the difference, a
\* line replaced as a whole by the old one.
LEMMA LineEditsAreSound ==
    ASSUME TypeOK, UpdateLine \/ RestoreLine
    PROVE  \E e \in Notes : Sound(e) /\ NotedChange(e)
<1>0. text \in States
  BY DEF TypeOK
<1>1. CASE UpdateLine
  <2>1. PICK new \in Lines :
            /\ text.row < Len(text.lines)
            /\ Change("UpdateLine", 0, GenDiff(text.lines[text.row + 1], new),
                      [text EXCEPT !.lines[text.row + 1] = new])
    BY <1>1 DEF UpdateLine
  <2> DEFINE i == text.row + 1
             old == text.lines[i]
             ls == [text.lines EXCEPT ![i] = new]
             after == [text EXCEPT !.lines = ls]
             e == Note("UpdateLine", 0, GenDiff(old, new), text, after)
  <2>2. i \in 1 .. Len(text.lines) /\ text.lines \in Seq(Lines)
    <3>1. text.lines \in Seq(Lines) /\ text.row \in Nat
      BY <1>0, StateParts
    <3> QED BY <2>1, <3>1
  <2>3. old \in Lines /\ ls \in Seq(Lines) /\ ls[i] = new
    BY <2>2
  <2>4. after \in States
    BY <1>0, <2>3, StateParts
  <2>5. e \in Notes
    BY <1>0, <2>3, <2>4, NoteTypes
  <2>6. Sound(e)
    <3>1. Revert(after, e) = [after EXCEPT !.lines[i] = ApplyDiff(GenDiff(old, new), @, "undo")]
      BY <1>0 DEF Note, Revert, States
    <3>2. ApplyDiff(GenDiff(old, new), new, "undo") = old
      <4>1. old \in Seq(Chars) /\ new \in Seq(Chars) /\ Nul \notin Chars
        BY <2>3, LinesAssumption
      <4> QED BY <4>1, DiffIsExact
    <3>3. [ls EXCEPT ![i] = old] = text.lines
      BY <2>2
    <3>4. Revert(after, e) = [after EXCEPT !.lines = [ls EXCEPT ![i] = old]]
      BY <1>0, <2>3, <3>1, <3>2 DEF States
    <3> QED BY <1>0, <3>3, <3>4 DEF Note, Sound, States
  <2>7. NotedChange(e)
    BY <1>0, <2>1 DEF Change, Note, NotedChange, States
  <2> QED BY <2>5, <2>6, <2>7
<1>2. CASE RestoreLine
  <2>1. PICK i \in 0 .. Len(text.lines) - 1, new \in Lines :
            Change("RestoreLine", i, text.lines[i + 1], [text EXCEPT !.lines[i + 1] = new])
    BY <1>2 DEF RestoreLine
  <2> DEFINE old == text.lines[i + 1]
             ls == [text.lines EXCEPT ![i + 1] = new]
             after == [text EXCEPT !.lines = ls]
             e == Note("RestoreLine", i, old, text, after)
  <2>2. i \in Nat /\ i + 1 \in 1 .. Len(text.lines) /\ text.lines \in Seq(Lines)
    <3>1. text.lines \in Seq(Lines)
      BY <1>0, StateParts
    <3> QED BY <3>1
  <2>3. old \in Lines /\ ls \in Seq(Lines) /\ Len(ls) = Len(text.lines)
    BY <2>2
  <2>4. after \in States
    BY <1>0, <2>3, StateParts
  <2>5. e \in Notes
    BY <1>0, <2>2, <2>3, <2>4, NoteTypes
  <2>6. Sound(e)
    <3> DEFINE one == Taken(text.lines, i, 1)
    <3>1. Removed(ls, i, 1) = Removed(text.lines, i, 1)
      BY <2>2, <2>3 DEF Removed
    <3>2. Inserted(Removed(text.lines, i, 1), i, one) = text.lines
      BY <2>2, InsertedRemoved
    <3>3. one = <<old>>
      BY <2>2 DEF Taken
    <3> QED BY <1>0, <3>1, <3>2, <3>3 DEF Note, Sound, Revert, States
  <2>7. NotedChange(e)
    BY <1>0, <2>1 DEF Change, Note, NotedChange, States
  <2> QED BY <2>5, <2>6, <2>7
<1> QED BY <1>1, <1>2

\* Rows that are added are taken back by removing them, and rows that are
\* removed by putting them back where they were.
LEMMA RowEditsAreSound ==
    ASSUME TypeOK, AddLine \/ RemoveLine \/ RemoveBlock
    PROVE  \E e \in Notes : Sound(e) /\ NotedChange(e)
<1>0. text \in States /\ text.lines \in Seq(Lines)
  BY StateParts DEF TypeOK
<1>1. CASE AddLine
  <2>1. PICK i \in 0 .. Len(text.lines), new \in Lines :
            Change("DelLine", i, 0, [text EXCEPT !.lines = Inserted(@, i, <<new>>)])
    BY <1>1 DEF AddLine
  <2> DEFINE ls == Inserted(text.lines, i, <<new>>)
             after == [text EXCEPT !.lines = ls]
             e == Note("DelLine", i, 0, text, after)
  <2>2. ls \in Seq(Lines) /\ Removed(ls, i, 1) = text.lines
    <3>1. <<new>> \in Seq(Lines) /\ Len(<<new>>) = 1
      OBVIOUS
    <3> QED BY <1>0, <3>1, RemovedInserted
  <2>3. after \in States
    BY <1>0, <2>2, StateParts
  <2>4. e \in Notes
    <3>1. i \in Nat
      BY <1>0
    <3> QED BY <1>0, <2>3, <3>1, NoteTypes
  <2>5. Sound(e)
    BY <1>0, <2>2 DEF Note, Sound, Revert, States
  <2>6. NotedChange(e)
    BY <1>0, <2>1 DEF Change, Note, NotedChange, States
  <2> QED BY <2>4, <2>5, <2>6
<1>2. CASE RemoveLine
  <2>1. PICK i \in 0 .. Len(text.lines) - 1 :
            Change("InsLine", i, text.lines[i + 1], [text EXCEPT !.lines = Removed(@, i, 1)])
    BY <1>2 DEF RemoveLine
  <2> DEFINE old == text.lines[i + 1]
             ls == Removed(text.lines, i, 1)
             after == [text EXCEPT !.lines = ls]
             e == Note("InsLine", i, old, text, after)
  <2>2. i \in Nat /\ i + 1 \in 1 .. Len(text.lines) /\ old \in Lines
    BY <1>0
  <2>3. ls \in Seq(Lines) /\ Inserted(ls, i, <<old>>) = text.lines
    <3>1. Taken(text.lines, i, 1) = <<old>>
      BY <2>2 DEF Taken
    <3>2. i + 1 <= Len(text.lines)
      BY <2>2
    <3>3. /\ ls \in Seq(Lines)
          /\ Inserted(ls, i, Taken(text.lines, i, 1)) = text.lines
      BY <1>0, <2>2, <3>2, InsertedRemoved
    <3> QED BY <3>1, <3>3
  <2>4. after \in States
    BY <1>0, <2>3, StateParts
  <2>5. e \in Notes
    BY <1>0, <2>2, <2>4, NoteTypes
  <2>6. Sound(e)
    BY <1>0, <2>3 DEF Note, Sound, Revert, States
  <2>7. NotedChange(e)
    BY <1>0, <2>1 DEF Change, Note, NotedChange, States
  <2> QED BY <2>5, <2>6, <2>7
<1>3. CASE RemoveBlock
  <2>1. PICK i \in 0 .. Len(text.lines) - 1, n \in 1 .. Len(text.lines) - 1 :
            /\ i + n <= Len(text.lines)
            /\ Change("InsBlock", i, Taken(text.lines, i, n), [text EXCEPT !.lines = Removed(@, i, n)])
    BY <1>3 DEF RemoveBlock
  <2> DEFINE old == Taken(text.lines, i, n)
             ls == Removed(text.lines, i, n)
             after == [text EXCEPT !.lines = ls]
             e == Note("InsBlock", i, old, text, after)
  <2>2. i \in Nat /\ n \in Nat /\ i + n <= Len(text.lines)
    BY <1>0, <2>1
  <2>3. old \in Seq(Lines) /\ ls \in Seq(Lines) /\ Inserted(ls, i, old) = text.lines
    BY <1>0, <2>2, InsertedRemoved
  <2>4. after \in States
    BY <1>0, <2>3, StateParts
  <2>5. e \in Notes
    BY <1>0, <2>2, <2>3, <2>4, NoteTypes
  <2>6. Sound(e)
    BY <1>0, <2>3 DEF Note, Sound, Revert, States
  <2>7. NotedChange(e)
    BY <1>0, <2>1 DEF Change, Note, NotedChange, States
  <2> QED BY <2>5, <2>6, <2>7
<1> QED BY <1>1, <1>2, <1>3

\* Every primitive extends the log of the running command by sound notes, so
\* the log keeps leading back to where the command began.
LEMMA PrimitiveExtends ==
    ASSUME TypeOK, Primitive
    PROVE  /\ phase = "tracking"
           /\ UNCHANGED <<phase, undobuff, pending, doc, snaps>>
           /\ track' \in Seq(Notes)
           /\ text' \in States
           /\ \A bottom : Chain(text, track, bottom) => Chain(text', track', bottom)
<1>0. text \in States /\ track \in Seq(Notes)
  BY DEF TypeOK
<1>1. ASSUME NEW e \in Notes, Sound(e), NotedChange(e)
      PROVE  /\ phase = "tracking"
             /\ UNCHANGED <<phase, undobuff, pending, doc, snaps>>
             /\ track' \in Seq(Notes)
             /\ text' \in States
             /\ \A bottom : Chain(text, track, bottom) => Chain(text', track', bottom)
  <2>1. /\ phase = "tracking"
        /\ UNCHANGED <<phase, undobuff, pending, doc, snaps>>
        /\ track' = <<e>> \o track /\ e.pre = text /\ text' = e.post
    BY <1>1 DEF NotedChange, Noting
  <2>2. e.post \in States /\ <<e>> \o track \in Seq(Notes)
    BY <1>0 DEF Notes, NotesOf
  <2>3. ASSUME NEW bottom, Chain(text, track, bottom)
        PROVE  Chain(text', track', bottom)
    BY <1>0, <1>1, <2>1, <2>3, ChainPush
  <2> QED BY <2>1, <2>2, <2>3
<1>2. CASE MoveRow \/ MoveCol
  BY <1>1, <1>2, CursorIsSound
<1>3. CASE SetFlag \/ Mark
  BY <1>1, <1>3, FlagsAreSound
<1>4. CASE UpdateLine \/ RestoreLine
  BY <1>1, <1>4, LineEditsAreSound
<1>5. CASE AddLine \/ RemoveLine \/ RemoveBlock
  BY <1>1, <1>5, RowEditsAreSound
<1>6. CASE Unmark
  <2> DEFINE fs     == text.flags \ {"MarkState"}
             open   == [text EXCEPT !.mark = NoMark]
             closed == [open EXCEPT !.flags = fs]
             m      == Note("MarkPos", 0, text.mark, text, open)
             f      == Note("SetFlags", 0, text.flags, open, closed)
  <2>1. /\ phase = "tracking"
        /\ UNCHANGED <<phase, undobuff, pending, doc, snaps>>
        /\ track' = <<f, m>> \o track /\ text' = closed
    BY <1>6 DEF Unmark, Noting
  <2>2. open \in States /\ closed \in States
    <3>1. NoMark \in Marks /\ fs \in SUBSET Flags
      BY <1>0, StateParts DEF Marks
    <3>2. open \in States
      <4>1. open = [text EXCEPT !.flags = text.flags, !.mark = NoMark]
        BY <1>0 DEF States
      <4> QED BY <1>0, <3>1, <4>1, StateParts
    <3>3. open.mark = NoMark
      BY <1>0 DEF States
    <3> QED BY <3>1, <3>2, <3>3, StateParts
  <2>3. m \in Notes /\ f \in Notes
    BY <1>0, <2>2, NoteTypes, StateParts
  <2>4. Sound(m) /\ Sound(f)
    <3>1. "MarkState" \in text.flags
      BY <1>6 DEF Unmark
    <3> QED BY <1>0, <3>1 DEF Note, Sound, Revert, States
  <2>5. /\ m.pre = text /\ m.post = open /\ f.pre = open /\ f.post = closed
    BY DEF Note
  <2>6. track' = <<f>> \o (<<m>> \o track)
    <3>1. <<f, m>> \o track = <<f>> \o (<<m>> \o track)
      BY <1>0, <2>3
    <3> QED BY <2>1, <3>1
  <2>7. <<m>> \o track \in Seq(Notes) /\ track' \in Seq(Notes)
    BY <1>0, <2>3, <2>6
  <2>8. ASSUME NEW bottom, Chain(text, track, bottom)
        PROVE  Chain(text', track', bottom)
    <3> HIDE DEF m, f, open, closed
    <3>1. Chain(open, <<m>> \o track, bottom)
      BY <1>0, <2>3, <2>4, <2>5, <2>8, ChainPush
    <3>2. Chain(closed, <<f>> \o (<<m>> \o track), bottom)
      BY <2>3, <2>4, <2>5, <2>7, <3>1, ChainPush
    <3> QED BY <2>1, <2>6, <3>2
  <2> QED BY <2>1, <2>2, <2>7, <2>8
<1> QED BY <1>2, <1>3, <1>4, <1>5, <1>6 DEF Primitive

-----------------------------------------------------------------------------
(***************************************************************************)
(* The inductive invariant, and what follows from it.                      *)
(***************************************************************************)

\* The logs stay typed.
LEMMA TypesAreKept ==
    ASSUME TypeOK, LogsConnect, [Next]_vars
    PROVE  TypeOK'
<1> USE DEF TypeOK
<1>1. CASE Primitive
  BY <1>1, PrimitiveExtends
<1>2. CASE TrackBeg
  BY <1>2 DEF TrackBeg
<1>3. CASE TrackEnd
  <2>1. undobuff' \in Seq(Seq(Notes)) /\ snaps' \in Seq(States)
    <3>1. <<track>> \o undobuff \in Seq(Seq(Notes)) /\ <<doc>> \o snaps \in Seq(States)
      OBVIOUS
    <3> QED BY <1>3, <3>1 DEF TrackEnd
  <2>2. <<>> \in Seq(Notes)
    OBVIOUS
  <2> QED BY <1>3, <2>1, <2>2 DEF TrackEnd
<1>4. CASE UndoBegin
  <2>1. undobuff # <<>> /\ snaps # <<>>
    BY <1>4 DEF UndoBegin, LogsConnect
  <2>2. /\ Head(undobuff) \in Seq(Notes) /\ Tail(undobuff) \in Seq(Seq(Notes))
        /\ Head(snaps) \in States /\ Tail(snaps) \in Seq(States)
    BY <2>1
  <2> QED BY <1>4, <2>2 DEF UndoBegin
<1>5. CASE UndoStep
  <2>1. Chain(text, pending, doc) /\ pending # <<>>
    BY <1>5 DEF UndoStep, LogsConnect
  <2>2. Tail(pending) \in Seq(Notes) /\ Revert(text, Head(pending)) \in States
    BY <2>1, ChainPop
  <2> QED BY <1>5, <2>2 DEF UndoStep
<1>6. CASE UndoEnd
  BY <1>6 DEF UndoEnd
<1>7. CASE UNCHANGED vars
  BY <1>7 DEF vars
<1> QED BY <1>1, <1>2, <1>3, <1>4, <1>5, <1>6, <1>7 DEF Next

\* What LogsConnect says of undobuff, for a given document.
LogsBehind(d, logs, texts) ==
    /\ Len(texts) = Len(logs)
    /\ \A j \in 1 .. Len(logs) :
            /\ logs[j] # <<>>
            /\ Chain(IF j = 1 THEN d ELSE texts[j - 1], logs[j], texts[j])

\* A log that leads from the new document to the old one may be put on top.
LEMMA LogsPush ==
    ASSUME NEW logs \in Seq(Seq(Notes)), NEW texts \in Seq(States), NEW d \in States, NEW new \in States,
           NEW log \in Seq(Notes), log # <<>>, LogsBehind(d, logs, texts), Chain(new, log, d)
    PROVE  LogsBehind(new, <<log>> \o logs, <<d>> \o texts)
<1> DEFINE ls == <<log>> \o logs
           ts == <<d>> \o texts
<1>1. /\ Len(ls) = Len(logs) + 1 /\ Len(ts) = Len(texts) + 1
      /\ ls[1] = log /\ ts[1] = d
      /\ \A j \in 1 .. Len(logs) : ls[j + 1] = logs[j]
      /\ \A j \in 1 .. Len(texts) : ts[j + 1] = texts[j]
  OBVIOUS
<1>2. ASSUME NEW j \in 1 .. Len(ls)
      PROVE  /\ ls[j] # <<>>
             /\ Chain(IF j = 1 THEN new ELSE ts[j - 1], ls[j], ts[j])
  <2>1. CASE j = 1
    BY <1>1, <2>1
  <2>2. CASE j # 1
    <3> DEFINE k == j - 1
    <3>1. k \in 1 .. Len(logs) /\ Len(texts) = Len(logs)
      BY <1>1, <2>2 DEF LogsBehind
    <3>2. ls[j] = logs[k] /\ ts[j] = texts[k]
      <4>1. j = k + 1
        OBVIOUS
      <4> QED BY <1>1, <3>1, <4>1
    <3>3. ts[j - 1] = IF k = 1 THEN d ELSE texts[k - 1]
      <4>1. CASE k = 1
        BY <1>1, <4>1
      <4>2. CASE k # 1
        <5>1. k - 1 \in 1 .. Len(texts) /\ j - 1 = (k - 1) + 1
          BY <3>1, <4>2
        <5> QED BY <1>1, <4>2, <5>1
      <4> QED BY <4>1, <4>2
    <3>4. logs[k] # <<>> /\ Chain(IF k = 1 THEN d ELSE texts[k - 1], logs[k], texts[k])
      BY <3>1 DEF LogsBehind
    <3> QED BY <2>2, <3>2, <3>3, <3>4
  <2> QED BY <2>1, <2>2
<1>3. Len(ts) = Len(ls)
  BY <1>1 DEF LogsBehind
<1> QED BY <1>2, <1>3 DEF LogsBehind

\* The newest log may be taken off; the document is then the one it leads to.
LEMMA LogsPop ==
    ASSUME NEW logs \in Seq(Seq(Notes)), NEW texts \in Seq(States), NEW d,
           logs # <<>>, LogsBehind(d, logs, texts)
    PROVE  /\ Chain(d, Head(logs), Head(texts))
           /\ LogsBehind(Head(texts), Tail(logs), Tail(texts))
<1>1. /\ Len(texts) = Len(logs) /\ Len(logs) \in Nat \ {0}
      /\ Head(logs) = logs[1] /\ Head(texts) = texts[1]
      /\ Len(Tail(logs)) = Len(logs) - 1 /\ Len(Tail(texts)) = Len(texts) - 1
  BY DEF LogsBehind
<1>2. /\ \A j \in 1 .. Len(logs) - 1 : Tail(logs)[j] = logs[j + 1]
      /\ \A j \in 1 .. Len(texts) - 1 : Tail(texts)[j] = texts[j + 1]
  BY <1>1
<1>3. Chain(d, Head(logs), Head(texts))
  <2>1. 1 \in 1 .. Len(logs)
    BY <1>1
  <2> QED BY <1>1, <2>1 DEF LogsBehind
<1>4. ASSUME NEW j \in 1 .. Len(Tail(logs))
      PROVE  /\ Tail(logs)[j] # <<>>
             /\ Chain(IF j = 1 THEN Head(texts) ELSE Tail(texts)[j - 1], Tail(logs)[j], Tail(texts)[j])
  <2>1. /\ j \in 1 .. Len(logs) - 1
        /\ j + 1 \in 1 .. Len(logs) /\ j + 1 # 1 /\ (j + 1) - 1 = j
    BY <1>1
  <2>2. Tail(logs)[j] = logs[j + 1] /\ Tail(texts)[j] = texts[j + 1]
    BY <1>1, <1>2, <2>1
  <2>3. logs[j + 1] # <<>> /\ Chain(texts[j], logs[j + 1], texts[j + 1])
    BY <2>1 DEF LogsBehind
  <2>4. texts[j] = IF j = 1 THEN Head(texts) ELSE Tail(texts)[j - 1]
    <3>1. CASE j = 1
      BY <1>1, <3>1
    <3>2. CASE j # 1
      <4>1. j - 1 \in 1 .. Len(texts) - 1 /\ (j - 1) + 1 = j
        BY <1>1, <2>1, <3>2
      <4> QED BY <1>2, <3>2, <4>1
    <3> QED BY <3>1, <3>2
  <2> QED BY <2>2, <2>3, <2>4
<1> QED BY <1>1, <1>3, <1>4 DEF LogsBehind

\* Two ways to write what LogsConnect says of undobuff.
LEMMA LogsConnectParts ==
    LogsConnect <=> /\ phase = "tracking" => Chain(text, track, doc)
                    /\ phase # "tracking" => track = <<>>
                    /\ phase = "undoing" => Chain(text, pending, doc)
                    /\ phase # "undoing" => pending = <<>>
                    /\ LogsBehind(Doc, undobuff, snaps)
BY DEF LogsConnect, LogsBehind

\* At the start nothing is logged.
LEMMA InitConnects == Init => TypeOK /\ LogsConnect
<1> SUFFICES ASSUME Init PROVE TypeOK /\ LogsConnect
  OBVIOUS
<1>1. text \in States
  <2> DEFINE firsts == {<<l>> : l \in Lines}
  <2>1. text \in [lines : firsts, row : {0}, col : {0}, flags : {{}}, mark : {NoMark}]
    BY DEF Init
  <2>2. firsts \subseteq Seq(Lines)
    <3>1. \A l \in Lines : <<l>> \in Seq(Lines)
      OBVIOUS
    <3> QED BY <3>1
  <2> HIDE DEF firsts
  <2>3. text \in [lines : Seq(Lines), row : Nat, col : Nat, flags : SUBSET Flags, mark : Marks]
    BY <2>1, <2>2 DEF Marks
  <2>4. text.mark = NoMark
    BY <2>1
  <2> QED BY <2>3, <2>4 DEF States
<1>2. TypeOK
  BY <1>1 DEF Init, TypeOK
<1>3. LogsConnect
  BY DEF Init, LogsConnect
<1> QED BY <1>2, <1>3

\* Every step keeps the logs connected.
LEMMA ConnectionIsKept ==
    ASSUME TypeOK, LogsConnect, [Next]_vars
    PROVE  LogsConnect'
<1>0. /\ phase = "tracking" => Chain(text, track, doc)
      /\ phase # "tracking" => track = <<>>
      /\ phase = "undoing" => Chain(text, pending, doc)
      /\ phase # "undoing" => pending = <<>>
      /\ LogsBehind(Doc, undobuff, snaps)
  BY LogsConnectParts
<1> SUFFICES /\ phase' = "tracking" => Chain(text', track', doc')
             /\ phase' # "tracking" => track' = <<>>
             /\ phase' = "undoing" => Chain(text', pending', doc')
             /\ phase' # "undoing" => pending' = <<>>
             /\ LogsBehind(Doc', undobuff', snaps')
  BY DEF LogsConnect, LogsBehind
<1>1. CASE Primitive
  <2>1. /\ phase = "tracking"
        /\ UNCHANGED <<phase, undobuff, pending, doc, snaps>>
        /\ \A bottom : Chain(text, track, bottom) => Chain(text', track', bottom)
    BY <1>1, PrimitiveExtends
  <2>2. Doc' = Doc
    BY <2>1 DEF Doc
  <2> QED BY <1>0, <2>1, <2>2
<1>2. CASE TrackBeg
  <2>1. Chain(text', track', doc')
    BY <1>0, <1>2 DEF TrackBeg, Chain
  <2>2. Doc' = Doc
    BY <1>2 DEF TrackBeg, Doc
  <2> QED BY <1>0, <1>2, <2>1, <2>2 DEF TrackBeg
<1>3. CASE TrackEnd
  <2>1. /\ Doc = doc /\ Doc' = text /\ Chain(text, track, doc)
        /\ phase' = "idle" /\ track' = <<>> /\ pending' = <<>>
    BY <1>0, <1>3 DEF TrackEnd, Doc
  <2>2. CASE track = <<>>
    <3>1. text = doc
      BY <2>1, <2>2 DEF Chain
    <3> QED BY <1>0, <1>3, <2>1, <2>2, <3>1 DEF TrackEnd
  <2>3. CASE track # <<>>
    <3>1. LogsBehind(text, <<track>> \o undobuff, <<doc>> \o snaps)
      BY <1>0, <2>1, <2>3, LogsPush DEF TypeOK
    <3> QED BY <1>3, <2>1, <2>3, <3>1 DEF TrackEnd
  <2> QED BY <2>2, <2>3
<1>4. CASE UndoBegin
  <2>1. /\ Doc = doc /\ track = <<>> /\ undobuff # <<>> /\ Chain(text, track, doc)
        /\ phase' = "undoing" /\ pending' = Head(undobuff) /\ undobuff' = Tail(undobuff)
        /\ doc' = Head(snaps) /\ snaps' = Tail(snaps) /\ text' = text /\ track' = track
        /\ Doc' = doc'
    BY <1>0, <1>4 DEF UndoBegin, Doc
  <2>2. text = doc
    BY <2>1 DEF Chain
  <2>3. /\ Chain(Doc, Head(undobuff), Head(snaps))
        /\ LogsBehind(Head(snaps), Tail(undobuff), Tail(snaps))
    BY <1>0, <2>1, LogsPop DEF TypeOK
  <2> QED BY <2>1, <2>2, <2>3
<1>5. CASE UndoStep
  <2>1. /\ phase = "undoing" /\ phase' = phase /\ pending # <<>> /\ Chain(text, pending, doc)
        /\ text' = Revert(text, Head(pending)) /\ pending' = Tail(pending)
        /\ UNCHANGED <<track, undobuff, doc, snaps>>
    BY <1>0, <1>5 DEF UndoStep
  <2>2. Chain(text', pending', doc')
    BY <2>1, ChainPop DEF TypeOK
  <2>3. Doc' = Doc
    BY <2>1 DEF Doc
  <2> QED BY <1>0, <2>1, <2>2, <2>3
<1>6. CASE UndoEnd
  <2>1. text = doc
    BY <1>0, <1>6 DEF UndoEnd, Chain
  <2>2. Doc' = Doc
    BY <1>6, <2>1 DEF UndoEnd, Doc
  <2> QED BY <1>0, <1>6, <2>2 DEF UndoEnd
<1>7. CASE UNCHANGED vars
  BY <1>0, <1>7 DEF vars, Doc
<1> QED BY <1>1, <1>2, <1>3, <1>4, <1>5, <1>6, <1>7 DEF Next

\* The logs always connect: reverting the notes that are there, log after log,
\* visits the text before each command that can be undone (track, undo).
THEOREM LogsAlwaysConnect == Spec => [](TypeOK /\ LogsConnect)
<1>1. Init => TypeOK /\ LogsConnect
  BY InitConnects
<1>2. TypeOK /\ LogsConnect /\ [Next]_vars => (TypeOK /\ LogsConnect)'
  BY TypesAreKept, ConnectionIsKept
<1> QED BY <1>1, <1>2, PTL DEF Spec

\* The undo log is well typed in every reachable state.
THEOREM TypesAreCorrect == Spec => []TypeOK
<1>1. TypeOK /\ LogsConnect => TypeOK
  OBVIOUS
<1> QED BY <1>1, LogsAlwaysConnect, PTL

\* A step of the log is a step of History on the document.
LEMMA StepsOfHistory ==
    ASSUME TypeOK, LogsConnect, [Next]_vars
    PROVE  [Hist!Next]_<<Doc, snaps>>
<1>1. CASE Primitive
  <2>1. UNCHANGED <<phase, doc, snaps>> /\ phase = "tracking"
    BY <1>1, PrimitiveExtends
  <2> QED BY <2>1 DEF Doc
<1>2. CASE TrackBeg
  BY <1>2 DEF TrackBeg, Doc
<1>3. CASE TrackEnd
  <2>1. Doc = doc /\ Doc' = text /\ Chain(text, track, doc)
    BY <1>3 DEF TrackEnd, Doc, LogsConnect
  <2>2. CASE track = <<>>
    BY <1>3, <2>1, <2>2 DEF TrackEnd, Chain
  <2>3. CASE track # <<>>
    BY <1>3, <2>1, <2>3 DEF TrackEnd, Hist!Next, Hist!Edit
  <2> QED BY <2>2, <2>3
<1>4. CASE UndoBegin
  <2>1. snaps # <<>>
    BY <1>4 DEF UndoBegin, LogsConnect, TypeOK
  <2>2. Doc' = Head(snaps) /\ snaps' = Tail(snaps)
    BY <1>4 DEF UndoBegin, Doc
  <2> QED BY <2>1, <2>2 DEF Hist!Next, Hist!Undo
<1>5. CASE UndoStep
  BY <1>5 DEF UndoStep, Doc
<1>6. CASE UndoEnd
  BY <1>6 DEF UndoEnd, Doc, LogsConnect, Chain
<1>7. CASE UNCHANGED vars
  BY <1>7 DEF vars, Doc
<1> QED BY <1>1, <1>2, <1>3, <1>4, <1>5, <1>6, <1>7 DEF Next

\* Undo is exact: whatever a command noted, undoing it ends in the very text,
\* cursor, flags and mark it found, and older commands stay undoable (undo()).
THEOREM UndoAlwaysExact == Spec => UndoIsExact
<1>1. Init => Hist!Init
  BY DEF Init, Hist!Init
<1>2. TypeOK /\ LogsConnect /\ [Next]_vars => [Hist!Next]_<<Doc, snaps>>
  BY StepsOfHistory
<1> QED BY <1>1, <1>2, LogsAlwaysConnect, PTL DEF Spec, UndoIsExact, Hist!Spec
=============================================================================
