---------------------------- MODULE EditorProofs ----------------------------
(***************************************************************************)
(* Proofs about the threads of the editor, for every key table, every set  *)
(* of names, every number of open files.  The first part is about the      *)
(* threads: the mutex excludes, there is always a current file, tracking   *)
(* is balanced, and logs are not mixed.  The second is about the files:    *)
(* what says it is saved is, and no text is lost unasked.  The third is    *)
(* about the logs: every change of a text is in one.                       *)
(***************************************************************************)
EXTENDS Editor, SequenceTheorems, TLAPS

Steps == Commands \cup Inner
Plain == Steps \ {"check_save"}

\* the last of the steps is the end of the outermost Dispatcher
EndsTracking(steps) == steps # <<>> /\ steps[Len(steps)] = "track_end"

\* What a thread asks the mutex for is the work of a Dispatcher, or one of the
\* two messages of the pipe that are handled without one.
Orders ==
    \A t \in Threads : \/ todo[t] = <<>>
                       \/ EndsTracking(todo[t])
                       \/ todo[t] \in {<<"OpenFile">>, <<"set_xy">>}

\* While a file tracks, the thread that holds the mutex has the end of its
\* Dispatcher still before it.
Tracking == \A t \in Threads : Holds(t) => NoneTracks \/ EndsTracking(todo[t])

\* The notes that are in the logs being written are of the thread with the mutex.
Owned == \A i \in DOMAIN boxes : \A n \in boxes[i].head : n[1] = owner

\* The questions of Exit are asked by the thread with the mutex, before anything
\* else it has to do, and the file they began with is still there.
Asking ==
    \A t \in Threads :
        \/ todo[t] \in Seq(Plain)
        \/ /\ Holds(t) /\ todo[t] # <<>> /\ Head(todo[t]) = "check_save"
           /\ Tail(todo[t]) \in Seq(Plain) /\ first \in DOMAIN boxes

IInv == /\ TypeOK
        /\ CurrentExists /\ (pc["main"] = "over" => owner = "main")
        /\ TrackingBalanced /\ Orders /\ Tracking /\ Owned /\ Asking

-----------------------------------------------------------------------------
(***************************************************************************)
(* Sequences of steps.                                                     *)
(***************************************************************************)

\* Putting steps in front of the rest keeps the last one (play_macro, SendKey).
LEMMA InFront ==
    ASSUME NEW S, NEW s \in Seq(S), s # <<>>, NEW r \in Seq(S)
    PROVE  /\ r \o Tail(s) \in Seq(S)
           /\ (EndsTracking(s) /\ Head(s) # "track_end") => EndsTracking(r \o Tail(s))
           /\ Len(s) = 1 => r \o Tail(s) = r
<1> DEFINE q == r \o Tail(s)
<1>1. /\ Tail(s) \in Seq(S) /\ Len(Tail(s)) = Len(s) - 1
      /\ \A i \in 1 .. Len(s) - 1 : Tail(s)[i] = s[i + 1]
      /\ Head(s) = s[1] /\ Len(s) \in Nat /\ Len(s) # 0
  OBVIOUS
<1>2. /\ q \in Seq(S) /\ Len(q) = Len(r) + Len(s) - 1
      /\ \A i \in 1 .. Len(r) : q[i] = r[i]
      /\ \A i \in 1 .. Len(s) - 1 : q[Len(r) + i] = Tail(s)[i]
      /\ Len(r) \in Nat
  BY <1>1
<1>3. ASSUME EndsTracking(s), Head(s) # "track_end"
      PROVE  EndsTracking(q)
  <2>1. Len(s) > 1
    BY <1>1, <1>3 DEF EndsTracking
  <2>2. q[Len(r) + (Len(s) - 1)] = s[Len(s)]
    BY <1>1, <1>2, <2>1
  <2>3. Len(q) > 0 /\ q[Len(q)] = s[Len(s)]
    BY <1>1, <1>2, <2>1, <2>2
  <2> QED BY <1>2, <1>3, <2>3 DEF EndsTracking
<1>4. ASSUME Len(s) = 1
      PROVE  q = r
  BY <1>1, <1>2, <1>4, SeqEqual
<1> QED BY <1>2, <1>3, <1>4

\* The steps of s without the first one, with r in front of them.
LEMMA PartsInFront ==
    ASSUME NEW S, NEW s \in Seq(S), s # <<>>, NEW r \in Seq(S)
    PROVE  LET q == r \o Tail(s)
           IN /\ q \in Seq(S) /\ DOMAIN q = 1 .. Len(r) + Len(s) - 1
              /\ \A i \in DOMAIN r : q[i] = r[i]
              /\ \A i \in 2 .. Len(s) : q[Len(r) + i - 1] = s[i]
              /\ DOMAIN s = 1 .. Len(s) /\ DOMAIN r = 1 .. Len(r)
              /\ Len(r) \in Nat /\ Len(s) \in Nat /\ Len(s) # 0 /\ Head(s) = s[1]
<1> DEFINE tl == Tail(s)
<1>1. /\ tl \in Seq(S) /\ Len(tl) = Len(s) - 1
      /\ \A i \in 1 .. Len(s) - 1 : tl[i] = s[i + 1]
      /\ Head(s) = s[1] /\ Len(s) \in Nat /\ Len(s) # 0 /\ DOMAIN s = 1 .. Len(s)
      /\ Len(r) \in Nat /\ DOMAIN r = 1 .. Len(r)
  OBVIOUS
<1> HIDE DEF tl
<1>2. /\ r \o tl \in Seq(S) /\ DOMAIN (r \o tl) = 1 .. Len(r) + Len(tl)
      /\ \A i \in 1 .. Len(r) : (r \o tl)[i] = r[i]
      /\ \A i \in 1 .. Len(tl) : (r \o tl)[Len(r) + i] = tl[i]
  BY <1>1
<1>3. ASSUME NEW i \in 2 .. Len(s)
      PROVE  (r \o tl)[Len(r) + i - 1] = s[i]
  <2>1. i - 1 \in 1 .. Len(s) - 1 /\ Len(r) + (i - 1) = Len(r) + i - 1 /\ (i - 1) + 1 = i
    BY <1>1
  <2>2. (r \o tl)[Len(r) + (i - 1)] = tl[i - 1] /\ tl[i - 1] = s[(i - 1) + 1]
    BY <1>1, <1>2, <2>1
  <2> QED BY <2>1, <2>2
<1>4. 1 .. Len(r) + Len(tl) = 1 .. Len(r) + Len(s) - 1
  BY <1>1
<1> QED BY <1>1, <1>2, <1>3, <1>4 DEF tl

\* The steps that call nothing are steps.
LEMMA PlainSteps == Seq(Plain) \subseteq Seq(Steps)
BY DEF Plain

\* The head and the rest of what was put in front.
LEMMA ConsHeadTail ==
    ASSUME NEW S, NEW s \in Seq(S), NEW e
    PROVE  <<e>> \o s # <<>> /\ Head(<<e>> \o s) = e /\ Tail(<<e>> \o s) = s
<1> DEFINE T == S \cup {e}
           q == <<e>> \o s
<1>1. s \in Seq(T) /\ <<e>> \in Seq(T) /\ Len(<<e>>) = 1 /\ Len(s) \in Nat
  OBVIOUS
<1>2. /\ q \in Seq(T) /\ Len(q) = Len(s) + 1
      /\ \A i \in 1 .. Len(s) + 1 : q[i] = IF i <= 1 THEN <<e>>[i] ELSE s[i - 1]
  BY <1>1, ConcatProperties
<1> HIDE DEF q
<1>3. q # <<>> /\ Head(q) = e
  BY <1>1, <1>2
<1>4. /\ Tail(q) \in Seq(T) /\ Len(Tail(q)) = Len(s)
      /\ \A i \in 1 .. Len(s) : Tail(q)[i] = q[i + 1]
  BY <1>1, <1>2, <1>3
<1>5. \A i \in 1 .. Len(s) : Tail(q)[i] = s[i]
  BY <1>1, <1>2, <1>4
<1>6. Tail(q) = s
  BY <1>1, <1>4, <1>5, SeqEqual
<1> QED BY <1>3, <1>6 DEF q

\* Without its first step a sequence is done, or ends as before (play_macro).
LEMMA TailEnds ==
    ASSUME NEW S, NEW s \in Seq(S), EndsTracking(s)
    PROVE  Tail(s) = <<>> \/ EndsTracking(Tail(s))
<1>1. /\ Len(s) \in Nat /\ Len(s) # 0 /\ Tail(s) \in Seq(S) /\ Len(Tail(s)) = Len(s) - 1
      /\ \A i \in 1 .. Len(s) - 1 : Tail(s)[i] = s[i + 1]
  BY DEF EndsTracking
<1>2. CASE Len(s) = 1
  <2>1. Len(Tail(s)) = 0
    BY <1>1, <1>2
  <2> QED BY <1>1, <2>1, EmptySeq
<1>3. CASE Len(s) # 1
  <2>1. Len(s) - 1 \in 1 .. Len(s) - 1 /\ Len(s) - 1 + 1 = Len(s)
    BY <1>1, <1>3
  <2>2. Tail(s)[Len(s) - 1] = s[Len(s)]
    BY <1>1, <2>1
  <2> QED BY <1>1, <2>1, <2>2 DEF EndsTracking
<1> QED BY <1>2, <1>3

\* The remainder of a product and a smaller rest is the rest.
LEMMA Remainder ==
    ASSUME NEW k \in Nat, NEW l \in Nat \ {0}, NEW r \in 0 .. l - 1
    PROVE  (k * l + r) % l = r
<1> DEFINE a == k * l + r
           d == a \div l
           m == a % l
<1>1. k * l \in Nat /\ a \in Nat
  OBVIOUS
<1>2. d \in Int /\ m \in 0 .. l - 1 /\ a = l * d + m
  <2> HIDE DEF a
  <2> QED BY <1>1
<1>3. l * (k - d) = m - r
  BY <1>1, <1>2
<1>4. k - d = 0
  <2>1. CASE k - d >= 1
    <3>1. l * (k - d) >= l
      BY <1>2, <2>1
    <3> QED BY <1>2, <1>3, <3>1
  <2>2. CASE k - d <= -1
    <3>1. l * (k - d) <= -l
      BY <1>2, <2>2
    <3> QED BY <1>2, <1>3, <3>1
  <2> QED BY <1>2, <2>1, <2>2
<1>5. l * (k - d) = 0
  BY <1>2, <1>4
<1> QED BY <1>2, <1>3, <1>5

\* Repeating a key repeats its steps, the last one included (main).
LEMMA RepeatedEnds ==
    ASSUME NEW S, NEW s \in Seq(S), EndsTracking(s), NEW n \in Nat \ {0}
    PROVE  Repeated(s, n) \in Seq(S) /\ EndsTracking(Repeated(s, n))
<1> DEFINE l == Len(s)
           q == Repeated(s, n)
<1>1. l \in Nat \ {0}
  BY DEF EndsTracking
<1>2. n * l \in Nat /\ n * l >= l
  <2>1. n - 1 \in Nat /\ (n - 1) * l \in Nat
    BY <1>1
  <2>2. n * l = (n - 1) * l + l
    BY <1>1
  <2> QED BY <1>1, <2>1, <2>2
<1>3. ASSUME NEW i \in 1 .. n * l
      PROVE  s[((i - 1) % l) + 1] \in S
  <2>1. (i - 1) % l \in 0 .. l - 1
    BY <1>1, <1>2
  <2> QED BY <1>1, <2>1
<1>4. q \in Seq(S) /\ Len(q) = n * l
  BY <1>2, <1>3 DEF Repeated
<1>5. (n * l - 1) % l = l - 1
  <2>1. n * l - 1 = (n - 1) * l + (l - 1) /\ n - 1 \in Nat /\ l - 1 \in 0 .. l - 1
    BY <1>1
  <2> QED BY <1>1, <2>1, Remainder
<1>6. q[n * l] = s[l]
  <2>1. q[n * l] = s[((n * l - 1) % l) + 1]
    BY <1>1, <1>2 DEF Repeated
  <2> QED BY <1>1, <1>5, <2>1
<1> QED BY <1>1, <1>2, <1>4, <1>6 DEF EndsTracking

\* What a Dispatcher does are steps, and the last of them ends tracking.
LEMMA DispatchEnds ==
    /\ \A key \in Pseudo : Dispatch(key) \in Seq(Plain) /\ EndsTracking(Dispatch(key))
    /\ \A key \in Keys : DispatchKey(key) \in Seq(Plain) /\ EndsTracking(DispatchKey(key))
    /\ Tracked(<<"put_mouse">>) \in Seq(Plain) /\ EndsTracking(Tracked(<<"put_mouse">>))
<1>1. ASSUME NEW s \in Seq(Plain)
      PROVE  Tracked(s) \in Seq(Plain) /\ EndsTracking(Tracked(s))
  <2>1. <<"track_beg">> \in Seq(Plain) /\ <<"track_end">> \in Seq(Plain)
    BY DEF Plain, Steps, Inner
  <2>2. <<"track_beg">> \o s \in Seq(Plain)
    BY <2>1
  <2>3. Len(Tracked(s)) = Len(s) + 2 /\ Tracked(s)[Len(s) + 2] = "track_end"
    BY <2>1, <2>2 DEF Tracked
  <2> QED BY <2>1, <2>2, <2>3 DEF Tracked, EndsTracking
<1>2. \A key \in Keys \cup Pseudo : Macro[key] \in Seq(Plain)
  <2>1. \A s \in Seq(Commands) : s \in Seq(Plain)
    BY DEF Plain, Steps, Commands
  <2> QED BY <2>1, EditorAssumption DEF EditorAssumption
<1>3. "kbBeforeKey" \in Pseudo /\ "kbAfterKey" \in Pseudo
  BY DEF Pseudo
<1>4. ASSUME NEW key \in Keys
      PROVE  Macro["kbBeforeKey"] \o Macro[key] \o Macro["kbAfterKey"] \in Seq(Plain)
  BY <1>2, <1>3
<1>5. <<"put_mouse">> \in Seq(Plain)
  BY DEF Plain, Steps, Inner
<1> QED BY <1>1, <1>2, <1>4, <1>5 DEF Dispatch, DispatchKey

-----------------------------------------------------------------------------
(***************************************************************************)
(* One file.  Clean: it does not track and has no notes.                   *)
(***************************************************************************)
Clean(b)  == ~b.tracks /\ b.head = {}
Own(b, t) == \A n \in b.head : n[1] = t

\* c is a file again, starts to track no sooner than b, and has no notes of
\* other threads than t if b has none
Follows(b, c, t) == /\ c \in Box
                    /\ Clean(b) => Clean(c)
                    /\ Own(b, t) => Own(c, t)

\* New files are clean files.
LEMMA NewBoxes ==
    /\ Fresh \in Box /\ Clean(Fresh)
    /\ \A name \in Names, exists \in BOOLEAN : Loaded(name, exists) \in Box /\ Clean(Loaded(name, exists))
BY DEF Fresh, Loaded, Box, Clean

\* Every change the thread t makes to a file keeps the notes its own.
LEMMA NoteFollows ==
    ASSUME NEW b \in Box, NEW t \in Threads, NEW kind \in {"text", "flags", "cursor"}
    PROVE  /\ Follows(b, Note(b, t, kind), t)
           /\ Note(b, t, kind).tracks = b.tracks
<1>1. CASE b.tracks
  <2>1. <<t, kind>> \in Threads \X {"text", "flags", "cursor"} /\ <<t, kind>>[1] = t
    OBVIOUS
  <2> QED BY <1>1, <2>1 DEF Note, Follows, Box, Clean, Own
<1>2. CASE ~b.tracks
  BY <1>2 DEF Note, Follows
<1> QED BY <1>1, <1>2

\* Typing, saving and asking leave a file that follows the one before.
LEMMA EditsFollow ==
    ASSUME NEW b \in Box, NEW t \in Threads
    PROVE  /\ Follows(b, Typed(b, t), t)
           /\ Follows(b, Written(b, t), t)
           /\ Follows(b, Asked(b), t)
           /\ Follows(b, Overwritten(b), t)
           /\ \A name \in Names : Follows(b, Named(b, t, name), t)
<1>1. /\ Follows(b, Note(b, t, "text"), t)
      /\ Follows(b, Note(b, t, "flags"), t)
  BY NoteFollows
<1>2. Follows(b, Typed(b, t), t)
  BY <1>1 DEF Typed, Follows, Box, Clean, Own
<1>3. Follows(b, Written(b, t), t)
  BY <1>1 DEF Written, Follows, Box, Clean, Own
<1>4. ASSUME NEW name \in Names
      PROVE  Follows(b, Named(b, t, name), t)
  BY <1>1 DEF Named, Follows, Box, Clean, Own
<1>5. Follows(b, Asked(b), t) /\ Follows(b, Overwritten(b), t)
  BY DEF Asked, Overwritten, Follows, Box, Clean, Own
<1> QED BY <1>2, <1>3, <1>4, <1>5

\* The end of tracking, and what an undo does first, leave a clean file.
LEMMA EndsClean ==
    ASSUME NEW b \in Box, NEW t \in Threads
    PROVE  /\ Ended(b) \in Box /\ Clean(Ended(b))
           /\ Begun(b) \in Box /\ Begun(b).head = b.head
           /\ Cancelled(b) \in Box /\ Clean(Cancelled(b))
           /\ \A more \in BOOLEAN : LET c == [Cancelled(b) EXCEPT !.undo = more]
                                    IN c \in Box /\ Clean(c)
           /\ \A more, changed \in BOOLEAN : LET c == Undone(Cancelled(b), changed, more)
                                             IN c \in Box /\ Clean(c)
<1>1. Ended(b) \in Box /\ Clean(Ended(b))
  BY DEF Ended, Box, Clean
<1>2. Begun(b) \in Box /\ Begun(b).head = b.head
  BY DEF Begun, Box
<1>3. Cancelled(b) \in Box /\ Clean(Cancelled(b))
  BY DEF Cancelled, Box, Clean
<1>4. ASSUME NEW c \in Box, Clean(c), NEW more \in BOOLEAN, NEW changed \in BOOLEAN
      PROVE  /\ [c EXCEPT !.undo = more] \in Box /\ Clean([c EXCEPT !.undo = more])
             /\ Undone(c, changed, more) \in Box /\ Clean(Undone(c, changed, more))
  <2>1. KeptAfter(c, changed) \in SUBSET {"disk", "empty", "asked"}
    BY DEF KeptAfter
  <2> QED BY <1>4, <2>1 DEF Undone, Box, Clean
<1> QED BY <1>1, <1>2, <1>3, <1>4

-----------------------------------------------------------------------------
(***************************************************************************)
(* The list of files.                                                      *)
(***************************************************************************)
AllClean(bs)  == \A i \in DOMAIN bs : Clean(bs[i])
AllOwn(bs, t) == \A i \in DOMAIN bs : Own(bs[i], t)

AllFollow(bs, cs, t) == /\ cs \in Seq(Box) /\ cs # <<>>
                        /\ AllClean(bs) => AllClean(cs)
                        /\ AllOwn(bs, t) => AllOwn(cs, t)

\* When one file follows its old self, all of them do.
LEMMA OneChanged ==
    ASSUME NEW bs \in Seq(Box), NEW t \in Threads, NEW i \in DOMAIN bs, NEW c, Follows(bs[i], c, t)
    PROVE  /\ AllFollow(bs, [bs EXCEPT ![i] = c], t)
           /\ DOMAIN [bs EXCEPT ![i] = c] = DOMAIN bs
<1> DEFINE cs == [bs EXCEPT ![i] = c]
<1>1. cs \in Seq(Box) /\ DOMAIN cs = DOMAIN bs /\ Len(cs) = Len(bs) /\ cs # <<>>
  <2>1. c \in Box /\ i \in 1 .. Len(bs)
    BY DEF Follows
  <2>2. cs \in Seq(Box) /\ Len(cs) = Len(bs)
    BY <2>1, ExceptSeq
  <2> QED BY <2>1, <2>2
<1>2. \A k \in DOMAIN bs : cs[k] = IF k = i THEN c ELSE bs[k]
  OBVIOUS
<1> QED BY <1>1, <1>2 DEF AllFollow, AllClean, AllOwn, Follows

\* Saving any of the files, in their order (doSaveAll, save).
LEMMA SavedFollow ==
    ASSUME NEW bs \in Seq(Box), bs # <<>>, NEW t \in Threads, NEW which \in SUBSET DOMAIN bs
    PROVE  /\ AllFollow(bs, SavedAll(bs, which, t), t)
           /\ DOMAIN SavedAll(bs, which, t) = DOMAIN bs
<1> DEFINE cs == SavedAll(bs, which, t)
<1>1. DOMAIN cs = DOMAIN bs
  BY DEF SavedAll
<1>2. ASSUME NEW k \in DOMAIN bs
      PROVE  Follows(bs[k], cs[k], t)
  <2>1. bs[k] \in Box
    OBVIOUS
  <2>2. Follows(bs[k], bs[k], t)
    BY <2>1 DEF Follows
  <2>3. Follows(bs[k], Written(bs[k], t), t)
    BY <2>1, EditsFollow
  <2>4. \A b \in Box : Follows(b, Overwritten(b), t)
    BY EditsFollow
  <2>5. cs[k] \in {bs[k], Written(bs[k], t), Overwritten(bs[k]), Overwritten(Written(bs[k], t))}
    BY DEF SavedAll
  <2> QED BY <2>1, <2>2, <2>3, <2>4, <2>5 DEF Follows
<1>3. cs \in Seq(Box) /\ cs # <<>>
  <2>1. \A k \in 1 .. Len(bs) : cs[k] \in Box
    BY <1>2 DEF Follows
  <2>2. cs = [k \in 1 .. Len(bs) |-> cs[k]]
    BY DEF SavedAll
  <2> HIDE DEF cs
  <2>3. cs \in Seq(Box) /\ Len(cs) = Len(bs)
    BY <2>1, <2>2
  <2> QED BY <2>3
<1> QED BY <1>1, <1>2, <1>3 DEF AllFollow, AllClean, AllOwn, Follows

\* A new file at the end of the list (open).
LEMMA Appended ==
    ASSUME NEW bs \in Seq(Box), NEW t \in Threads, NEW c \in Box, Clean(c)
    PROVE  AllFollow(bs, Append(bs, c), t) /\ Len(bs) + 1 \in DOMAIN Append(bs, c)
<1> DEFINE cs == Append(bs, c)
<1>1. Own(c, t)
  BY DEF Clean, Own
<1>2. /\ cs \in Seq(Box) /\ cs # <<>> /\ Len(cs) = Len(bs) + 1
      /\ \A i \in 1 .. Len(bs) : cs[i] = bs[i]
      /\ cs[Len(bs) + 1] = c
  BY AppendProperties
<1> HIDE DEF cs
<1>3. DOMAIN cs = 1 .. Len(bs) + 1 /\ DOMAIN bs = 1 .. Len(bs) /\ Len(bs) \in Nat
  BY <1>2, LenProperties
<1>4. \A i \in DOMAIN cs : cs[i] = c \/ (i \in DOMAIN bs /\ cs[i] = bs[i])
  BY <1>2, <1>3
<1> QED BY <1>1, <1>2, <1>3, <1>4 DEF AllFollow, AllClean, AllOwn

\* What is left of a sequence without one element was in it before.
LEMMA Without ==
    ASSUME NEW S, NEW s \in Seq(S), NEW i \in 1 .. Len(s)
    PROVE  /\ RemoveAt(s, i) \in Seq(S) /\ Len(RemoveAt(s, i)) = Len(s) - 1
           /\ \A k \in 1 .. Len(s) - 1 : RemoveAt(s, i)[k] \in {s[j] : j \in 1 .. Len(s)}
<1> DEFINE p == SubSeq(s, 1, i - 1)
           q == SubSeq(s, i + 1, Len(s))
<1>1. Len(s) \in Nat /\ \A k \in 1 .. Len(s) : s[k] \in S
  BY LenProperties
<1>2. p \in Seq(S) /\ Len(p) = i - 1 /\ \A k \in 1 .. i - 1 : p[k] = s[k]
  BY <1>1, SubSeqProperties
<1>3. q \in Seq(S) /\ Len(q) = Len(s) - i /\ \A k \in 1 .. Len(s) - i : q[k] = s[i + k]
  BY <1>1, SubSeqProperties
<1>4. RemoveAt(s, i) = p \o q
  BY DEF RemoveAt
<1> HIDE DEF p, q
<1>5. /\ p \o q \in Seq(S) /\ Len(p \o q) = Len(s) - 1
      /\ \A k \in 1 .. Len(s) - 1 : (p \o q)[k] = IF k <= i - 1 THEN p[k] ELSE q[k - (i - 1)]
  <2>1. Len(p) + Len(q) = Len(s) - 1
    BY <1>1, <1>2, <1>3
  <2>2. /\ p \o q \in Seq(S) /\ Len(p \o q) = Len(p) + Len(q)
        /\ \A k \in 1 .. Len(p) + Len(q) : (p \o q)[k] = IF k <= Len(p) THEN p[k] ELSE q[k - Len(p)]
    BY <1>2, <1>3, ConcatProperties
  <2> QED BY <1>2, <2>1, <2>2, Zenon
<1>6. ASSUME NEW k \in 1 .. Len(s) - 1
      PROVE  (p \o q)[k] \in {s[j] : j \in 1 .. Len(s)}
  <2>1. CASE k <= i - 1
    <3>1. k \in 1 .. i - 1 /\ k \in 1 .. Len(s)
      BY <1>1, <2>1
    <3>2. (p \o q)[k] = s[k]
      BY <1>2, <1>5, <2>1, <3>1
    <3> QED BY <3>1, <3>2
  <2>2. CASE k > i - 1
    <3>1. k - (i - 1) \in 1 .. Len(s) - i /\ k + 1 \in 1 .. Len(s) /\ i + (k - (i - 1)) = k + 1
      BY <1>1, <2>2
    <3>2. (p \o q)[k] = s[k + 1]
      BY <1>1, <1>3, <1>5, <2>2, <3>1
    <3> QED BY <3>1, <3>2
  <2>3. k <= i - 1 \/ k > i - 1
    <3>1. i \in Int /\ k \in Int
      BY <1>1
    <3> QED BY <3>1
  <2> QED BY <2>1, <2>2, <2>3
<1> QED BY <1>4, <1>5, <1>6

\* A file taken out of the list; the last one leaves a new one behind (close).
LEMMA Removed ==
    ASSUME NEW bs \in Seq(Box), NEW t \in Threads, NEW i \in DOMAIN bs
    PROVE  AllFollow(bs, IF Len(bs) = 1 THEN <<Fresh>> ELSE RemoveAt(bs, i), t)
<1>1. CASE Len(bs) = 1
  <2>1. <<Fresh>> \in Seq(Box) /\ <<Fresh>> # <<>> /\ \A k \in DOMAIN <<Fresh>> : <<Fresh>>[k] = Fresh
    BY NewBoxes
  <2>2. Own(Fresh, t)
    BY NewBoxes DEF Clean, Own
  <2> QED BY <1>1, <2>1, <2>2, NewBoxes DEF AllFollow, AllClean, AllOwn
<1>2. CASE Len(bs) # 1
  <2>1. i \in 1 .. Len(bs) /\ DOMAIN bs = 1 .. Len(bs) /\ Len(bs) \in Nat
    BY LenProperties, Zenon
  <2> DEFINE cs == RemoveAt(bs, i)
  <2>2. cs \in Seq(Box) /\ Len(cs) = Len(bs) - 1
    BY <2>1, Without, Zenon
  <2>3. ASSUME NEW k \in 1 .. Len(bs) - 1
        PROVE  \E j \in DOMAIN bs : cs[k] = bs[j]
    <3>1. cs[k] \in {bs[j] : j \in 1 .. Len(bs)}
      BY <2>1, Without, Zenon
    <3> QED BY <2>1, <3>1
  <2> HIDE DEF cs
  <2>4. DOMAIN cs = 1 .. Len(bs) - 1 /\ cs # <<>>
    BY <1>2, <2>1, <2>2, LenProperties
  <2>5. AllFollow(bs, cs, t)
    BY <2>1, <2>2, <2>3, <2>4 DEF AllFollow, AllClean, AllOwn
  <2> QED BY <1>2, <2>5 DEF cs
<1> QED BY <1>1, <1>2

-----------------------------------------------------------------------------
(***************************************************************************)
(* The steps under the mutex.                                              *)
(***************************************************************************)

\* the thread t has the mutex and files to work on
LEMMA AtWork ==
    ASSUME IInv, NEW t \in Threads, Holds(t)
    PROVE  /\ owner = t /\ pc["main"] # "over"
           /\ boxes \in Seq(Box) /\ cur \in DOMAIN boxes /\ boxes # <<>> /\ boxes[cur] \in Box
           /\ todo[t] \in Seq(Steps)
<1>1. owner = t /\ boxes \in Seq(Box) /\ todo[t] \in Seq(Steps)
  BY DEF IInv, TypeOK, Steps
<1>2. pc["main"] # "over"
  <2>1. SUFFICES ASSUME pc["main"] = "over" PROVE FALSE
    OBVIOUS
  <2>2. t = "main"
    BY <1>1, <2>1 DEF IInv
  <2> QED BY <2>1, <2>2 DEF Holds
<1>3. cur \in DOMAIN boxes
  BY <1>2 DEF IInv, CurrentExists
<1>4. boxes # <<>> /\ boxes[cur] \in Box
  BY <1>1, <1>3
<1> QED BY <1>1, <1>2, <1>3, <1>4

\* What a step of the thread t does to the files.
Keeps(t) == /\ boxes' \in Seq(Box) /\ cur' \in DOMAIN boxes'
            /\ NoneTracks => NoneTracks'
            /\ AllOwn(boxes, t) => AllOwn(boxes', t)

\* What it does to its own steps: takes the first one and puts others in front.
\* The two orders without a Dispatcher are replaced by one, or done.
Goes(t) == \E r \in Seq(Plain) \cup {<<"check_save">>} :
              /\ todo[t] # <<>> /\ Head(todo[t]) # "track_end"
              /\ todo' = [todo EXCEPT ![t] = r \o Tail(@)]
              /\ r = <<>> \/ EndsTracking(r) \/ Head(todo[t]) \notin {"OpenFile", "set_xy"}
              /\ r \in Seq(Plain) \/ first' \in DOMAIN boxes'

Rest == /\ UNCHANGED <<owner, pc>>
        /\ shutdown' \in BOOLEAN /\ aborted' \in BOOLEAN /\ lost' \in BOOLEAN /\ first' \in Nat

\* No file is tracked: both ways of saying it agree,
LEMMA CleanIsNone == NoneTracks <=> AllClean(boxes)
BY DEF NoneTracks, AllClean, Clean

\* in the next state too.
LEMMA CleanIsNonePrimed == NoneTracks' <=> AllClean(boxes')
BY DEF NoneTracks, AllClean, Clean

\* A step after which every file follows keeps what holds of the files.
LEMMA FollowKeeps ==
    ASSUME NEW t \in Threads, AllFollow(boxes, boxes', t), cur' \in DOMAIN boxes'
    PROVE  Keeps(t)
BY CleanIsNone, CleanIsNonePrimed DEF Keeps, AllFollow

\* Steps that keep the files and go on keep the invariant; the first step of a
\* Dispatcher may begin to track, its end is still to come.
LEMMA WorkKeepsInvariant ==
    ASSUME IInv, NEW t \in Threads, Holds(t), Rest, Goes(t),
           boxes' \in Seq(Box), cur' \in DOMAIN boxes', AllOwn(boxes, t) => AllOwn(boxes', t),
           EndsTracking(todo[t]) \/ (NoneTracks => NoneTracks')
    PROVE  IInv'
<1>1. owner = t /\ pc["main"] # "over" /\ todo[t] \in Seq(Steps) /\ todo \in [Threads -> Seq(Steps)]
  BY AtWork DEF IInv, TypeOK, Steps
<1>2. PICK r \in Seq(Plain) \cup {<<"check_save">>} :
          /\ todo[t] # <<>> /\ Head(todo[t]) # "track_end"
          /\ todo' = [todo EXCEPT ![t] = r \o Tail(@)]
          /\ r = <<>> \/ EndsTracking(r) \/ Head(todo[t]) \notin {"OpenFile", "set_xy"}
          /\ r \in Seq(Plain) \/ first' \in DOMAIN boxes'
  BY DEF Goes
<1>a. r \in Seq(Steps)
  <2>1. <<"check_save">> \in Seq(Steps)
    BY DEF Steps, Inner
  <2> QED BY <2>1, PlainSteps
<1>3. /\ r \o Tail(todo[t]) \in Seq(Steps)
      /\ EndsTracking(todo[t]) => EndsTracking(r \o Tail(todo[t]))
      /\ Len(todo[t]) = 1 => r \o Tail(todo[t]) = r
  BY <1>1, <1>2, <1>a, InFront
<1>4. todo' \in [Threads -> Seq(Steps)] /\ todo'[t] = r \o Tail(todo[t]) /\ \A u \in Threads \ {t} : todo'[u] = todo[u]
  BY <1>1, <1>2, <1>3
<1>5. /\ owner' = owner /\ pc' = pc /\ \A u \in Threads : Holds(u)' <=> Holds(u)
  BY DEF Rest, Holds
<1>6. ASSUME NEW u \in Threads, u # t
      PROVE  ~Holds(u)
  BY <1>1, <1>6 DEF IInv, TypeOK
<1>7. \/ EndsTracking(todo[t])
      \/ todo[t] \in {<<"OpenFile">>, <<"set_xy">>} /\ (r = <<>> \/ EndsTracking(r)) /\ r \o Tail(todo[t]) = r
  <2>1. \/ EndsTracking(todo[t])
        \/ todo[t] \in {<<"OpenFile">>, <<"set_xy">>}
    BY <1>2 DEF IInv, Orders
  <2>2. ASSUME todo[t] \in {<<"OpenFile">>, <<"set_xy">>}
        PROVE  Len(todo[t]) = 1 /\ Head(todo[t]) \in {"OpenFile", "set_xy"}
    BY <2>2
  <2> QED BY <1>2, <1>3, <2>1, <2>2
<1>8. TypeOK'
  BY <1>1, <1>4, <1>5, <1>6 DEF IInv, TypeOK, Rest, Steps
<1>9. Orders'
  BY <1>3, <1>4, <1>7 DEF IInv, Orders
<1>10. Tracking'
  <2>1. EndsTracking(todo'[t]) \/ NoneTracks'
    <3>1. CASE EndsTracking(todo[t])
      BY <1>3, <1>4, <3>1
    <3>2. CASE ~EndsTracking(todo[t])
      BY <3>2 DEF IInv, Tracking
    <3> QED BY <3>1, <3>2
  <2> QED BY <1>5, <1>6, <2>1 DEF Tracking
<1>11. CurrentExists' /\ (pc'["main"] = "over" => owner' = "main")
  BY <1>1, <1>5 DEF CurrentExists
<1>12. TrackingBalanced'
  BY <1>1, <1>5 DEF TrackingBalanced, Threads
<1>13. Owned'
  BY <1>1, <1>5 DEF IInv, Owned, AllOwn, Own
<1>14. Asking'
  <2>1. Tail(todo[t]) \in Seq(Plain)
    <3>1. CASE todo[t] \in Seq(Plain)
      BY <1>2, <3>1
    <3>2. CASE todo[t] \notin Seq(Plain)
      BY <3>2 DEF IInv, Asking
    <3> QED BY <3>1, <3>2
  <2>2. CASE r \in Seq(Plain)
    <3>1. r \o Tail(todo[t]) \in Seq(Plain)
      BY <2>1, <2>2
    <3> QED BY <1>4, <1>5, <1>6, <3>1 DEF IInv, Asking
  <2>3. CASE r \notin Seq(Plain)
    <3>1. r = <<"check_save">> /\ first' \in DOMAIN boxes'
      BY <1>2, <2>3
    <3>2. /\ <<"check_save">> \o Tail(todo[t]) # <<>>
          /\ Head(<<"check_save">> \o Tail(todo[t])) = "check_save"
          /\ Tail(<<"check_save">> \o Tail(todo[t])) = Tail(todo[t])
      BY <2>1, ConsHeadTail
    <3> QED BY <1>4, <1>5, <1>6, <2>1, <3>1, <3>2 DEF IInv, Asking
  <2> QED BY <2>2, <2>3
<1> QED BY <1>8, <1>9, <1>10, <1>11, <1>12, <1>13, <1>14 DEF IInv

\* A step without the end of tracking at its head goes on with r in front.
LEMMA StepGoes ==
    ASSUME NEW t \in Threads, todo[t] # <<>>, Head(todo[t]) # "track_end", NEW r \in Seq(Plain), Then(t, r),
           r = <<>> \/ EndsTracking(r) \/ Head(todo[t]) \notin {"OpenFile", "set_xy"}
    PROVE  Goes(t)
BY DEF Goes, Then

\* Nothing to do is a list of steps.
LEMMA EmptySteps == <<>> \in Seq(Plain)
OBVIOUS

\* Tracking begins: only a Dispatcher does that.
LEMMA TrackBegKeeps ==
    ASSUME IInv, NEW t \in Threads, TrackBeg(t)
    PROVE  IInv'
<1>1. /\ Holds(t) /\ todo[t] # <<>> /\ Head(todo[t]) = "track_beg" /\ Rest /\ cur' = cur
      /\ boxes' = [i \in DOMAIN boxes |-> Begun(boxes[i])] /\ Then(t, <<>>)
  BY DEF TrackBeg, Takes, Quiet, SetBoxes, Rest, IInv, TypeOK
<1>2. /\ owner = t /\ boxes \in Seq(Box) /\ cur \in DOMAIN boxes
  BY <1>1, AtWork
<1>3. \A i \in DOMAIN boxes : boxes[i] \in Box
  BY <1>2
<1>4. \A i \in DOMAIN boxes : Begun(boxes[i]) \in Box /\ Begun(boxes[i]).head = boxes[i].head
  BY <1>2, <1>3, EndsClean
<1>5. boxes' \in Seq(Box) /\ DOMAIN boxes' = DOMAIN boxes
  <2>1. boxes' = [i \in 1 .. Len(boxes) |-> Begun(boxes[i])] /\ Len(boxes) \in Nat
    BY <1>1, <1>2
  <2>2. \A i \in 1 .. Len(boxes) : Begun(boxes[i]) \in Box
    BY <1>2, <1>4
  <2> QED BY <1>1, <2>1, <2>2
<1>6. AllOwn(boxes, t) => AllOwn(boxes', t)
  BY <1>1, <1>4 DEF AllOwn, Own
<1>7. EndsTracking(todo[t])
  <2>1. todo[t] \notin {<<"OpenFile">>, <<"set_xy">>}
    BY <1>1
  <2> QED BY <1>1, <2>1 DEF IInv, Orders
<1>8. Goes(t)
  BY <1>1, StepGoes, EmptySteps
<1> QED BY <1>1, <1>2, <1>5, <1>6, <1>7, <1>8, WorkKeepsInvariant

\* Tracking ends: no file tracks, and what follows may be anything.
LEMMA TrackEndKeeps ==
    ASSUME IInv, NEW t \in Threads, TrackEnd(t)
    PROVE  IInv'
<1>1. /\ Holds(t) /\ todo[t] # <<>> /\ Head(todo[t]) = "track_end" /\ Rest /\ cur' = cur
      /\ boxes' = [i \in DOMAIN boxes |-> Ended(boxes[i])] /\ todo' = [todo EXCEPT ![t] = <<>> \o Tail(@)]
  BY DEF TrackEnd, Takes, Quiet, SetBoxes, Rest, Then, IInv, TypeOK
<1>2. /\ owner = t /\ boxes \in Seq(Box) /\ cur \in DOMAIN boxes /\ pc["main"] # "over"
      /\ todo[t] \in Seq(Steps) /\ todo \in [Threads -> Seq(Steps)]
  BY <1>1, AtWork DEF IInv, TypeOK, Steps
<1>3. \A i \in DOMAIN boxes : boxes[i] \in Box
  BY <1>2
<1>4. \A i \in DOMAIN boxes : Ended(boxes[i]) \in Box /\ Clean(Ended(boxes[i]))
  BY <1>2, <1>3, EndsClean
<1>5. boxes' \in Seq(Box) /\ DOMAIN boxes' = DOMAIN boxes
  <2>1. boxes' = [i \in 1 .. Len(boxes) |-> Ended(boxes[i])] /\ Len(boxes) \in Nat
    BY <1>1, <1>2
  <2>2. \A i \in 1 .. Len(boxes) : Ended(boxes[i]) \in Box
    BY <1>2, <1>4
  <2> QED BY <1>1, <2>1, <2>2
<1>6. NoneTracks'
  BY <1>1, <1>4 DEF NoneTracks, Clean
<1>7. /\ todo' \in [Threads -> Seq(Steps)] /\ todo'[t] = Tail(todo[t])
      /\ \A u \in Threads \ {t} : todo'[u] = todo[u]
  <2>1. <<>> \o Tail(todo[t]) = Tail(todo[t]) /\ Tail(todo[t]) \in Seq(Steps)
    BY <1>1, <1>2
  <2> QED BY <1>1, <1>2, <2>1
<1>8. owner' = owner /\ pc' = pc /\ \A u \in Threads : Holds(u)' <=> Holds(u)
  BY <1>1 DEF Rest, Holds
<1>9. ASSUME NEW u \in Threads, u # t
      PROVE  ~Holds(u)
  BY <1>2, <1>9 DEF IInv, TypeOK
<1>10. Tail(todo[t]) = <<>> \/ EndsTracking(Tail(todo[t]))
  <2>1. EndsTracking(todo[t])
    <3>1. todo[t] \notin {<<"OpenFile">>, <<"set_xy">>}
      BY <1>1
    <3> QED BY <1>1, <3>1 DEF IInv, Orders
  <2> QED BY <1>2, <2>1, TailEnds
<1>11. TypeOK'
  BY <1>1, <1>2, <1>5, <1>7, <1>8, <1>9 DEF IInv, TypeOK, Rest, Steps
<1>12. Orders' /\ Tracking'
  BY <1>6, <1>7, <1>8, <1>9, <1>10 DEF IInv, Orders, Tracking
<1>13. CurrentExists' /\ (pc'["main"] = "over" => owner' = "main") /\ TrackingBalanced'
  BY <1>1, <1>2, <1>5, <1>6, <1>8 DEF CurrentExists, TrackingBalanced
<1>14. Owned'
  BY <1>6 DEF Owned, NoneTracks
<1>15. Asking'
  <2>1. todo[t] \in Seq(Plain)
    BY <1>1 DEF IInv, Asking
  <2>2. Tail(todo[t]) \in Seq(Plain)
    BY <1>1, <2>1
  <2> QED BY <1>7, <1>8, <1>9, <2>2 DEF IInv, Asking
<1> QED BY <1>11, <1>12, <1>13, <1>14, <1>15 DEF IInv

\* Steps that change the list of files as AllFollow says, and take a step.
LEMMA FollowingKeeps ==
    ASSUME IInv, NEW t \in Threads, Holds(t), Rest, Goes(t),
           AllFollow(boxes, boxes', t), cur' \in DOMAIN boxes'
    PROVE  IInv'
<1>1. Keeps(t)
  BY FollowKeeps
<1> QED BY <1>1, WorkKeepsInvariant DEF Keeps

\* The list stays as it is.
LEMMA SameFollows ==
    ASSUME boxes \in Seq(Box), boxes # <<>>, boxes' = boxes, NEW t \in Threads
    PROVE  AllFollow(boxes, boxes', t)
BY DEF AllFollow

\* Only the current file changes.
LEMMA CurrentKeeps ==
    ASSUME IInv, NEW t \in Threads, Holds(t), Rest, Goes(t),
           NEW c, SetCurrent(c), Follows(boxes[cur], c, t)
    PROVE  IInv'
<1>1. boxes \in Seq(Box) /\ cur \in DOMAIN boxes
  BY AtWork
<1>2. boxes' = [boxes EXCEPT ![cur] = c] /\ cur' = cur
  BY DEF SetCurrent, SetBoxes
<1>3. AllFollow(boxes, boxes', t) /\ DOMAIN boxes' = DOMAIN boxes
  BY <1>1, <1>2, OneChanged
<1> QED BY <1>1, <1>2, <1>3, FollowingKeeps

\* Commands on the text of one file, mouse and pipe included.
LEMMA EditKeeps ==
    ASSUME IInv, NEW t \in Threads, Type(t) \/ PutMouse(t) \/ SetXY(t)
    PROVE  IInv'
<1>1. /\ Holds(t) /\ todo[t] # <<>> /\ Head(todo[t]) # "track_end" /\ Then(t, <<>>)
      /\ Rest
  BY DEF Type, PutMouse, SetXY, Takes, Quiet, SetCurrent, SetBoxes, Rest, IInv, TypeOK
<1>2. Goes(t)
  BY <1>1, StepGoes, EmptySteps
<1>3. boxes[cur] \in Box
  BY <1>1, AtWork
<1>4. CASE Type(t)
  BY <1>1, <1>2, <1>3, <1>4, EditsFollow, CurrentKeeps DEF Type
<1>5. CASE PutMouse(t) \/ SetXY(t)
  <2>1. SetCurrent(Note(boxes[cur], t, "cursor")) /\ Follows(boxes[cur], Note(boxes[cur], t, "cursor"), t)
    BY <1>3, <1>5, NoteFollows DEF PutMouse, SetXY
  <2> QED BY <1>1, <1>2, <2>1, CurrentKeeps
<1> QED BY <1>4, <1>5

\* Undo, and the command that selects the next file.
LEMMA UndoKeeps ==
    ASSUME IInv, NEW t \in Threads, Undo(t)
    PROVE  IInv'
<1>1. /\ Holds(t) /\ todo[t] # <<>> /\ Head(todo[t]) # "track_end" /\ Then(t, <<>>)
      /\ Rest
  BY DEF Undo, Takes, Quiet, SetCurrent, SetBoxes, Rest, IInv, TypeOK
<1>2. Goes(t)
  BY <1>1, StepGoes, EmptySteps
<1>3. boxes[cur] \in Box
  BY <1>1, AtWork
<1>4. \A c \in Box : Clean(c) => Follows(boxes[cur], c, t)
  BY DEF Follows, Clean, Own
<1>5. PICK c \in Box : Clean(c) /\ SetCurrent(c)
  BY <1>3, EndsClean DEF Undo
<1> QED BY <1>1, <1>2, <1>4, <1>5, CurrentKeeps

\* The file after the current one is open.
LEMMA NextIsFile ==
    ASSUME boxes \in Seq(Box), boxes # <<>>, cur \in DOMAIN boxes
    PROVE  Next1 \in DOMAIN boxes
<1>1. Len(boxes) \in Nat \ {0} /\ cur \in Nat /\ DOMAIN boxes = 1 .. Len(boxes)
  OBVIOUS
<1>2. cur % Len(boxes) \in 0 .. Len(boxes) - 1
  BY <1>1
<1> QED BY <1>1, <1>2 DEF Next1

\* nextFile keeps the invariant.
LEMMA NextFileKeeps ==
    ASSUME IInv, NEW t \in Threads, NextFile(t)
    PROVE  IInv'
<1>1. /\ Holds(t) /\ todo[t] # <<>> /\ Head(todo[t]) # "track_end" /\ Then(t, <<>>)
      /\ Rest /\ boxes' = boxes /\ cur' = Next1
  BY DEF NextFile, Takes, Quiet, Rest, IInv, TypeOK
<1>2. Goes(t)
  BY <1>1, StepGoes, EmptySteps
<1>3. boxes \in Seq(Box) /\ boxes # <<>> /\ Next1 \in DOMAIN boxes
  BY <1>1, AtWork, NextIsFile
<1> QED BY <1>1, <1>2, <1>3, SameFollows, FollowingKeeps

\* Files are opened: a new one is a clean one, kbOpen is dispatched next.
LEMMA OpenKeeps ==
    ASSUME IInv, NEW t \in Threads, New(t) \/ Load(t) \/ OpenFile(t)
    PROVE  IInv'
<1>1. /\ Holds(t) /\ todo[t] # <<>> /\ Head(todo[t]) # "track_end"
      /\ Rest
  <2>1. lost' \in BOOLEAN
    BY DEF New, Load, OpenFile, files, IInv, TypeOK
  <2> QED BY <2>1 DEF New, Load, OpenFile, Takes, Quiet, Rest, IInv, TypeOK
<1>2. /\ boxes \in Seq(Box) /\ boxes # <<>> /\ cur \in DOMAIN boxes
  BY <1>1, AtWork
<1>3. Dispatch("kbOpen") \in Seq(Plain) /\ EndsTracking(Dispatch("kbOpen"))
  BY DispatchEnds DEF Pseudo
<1>4. <<>> \in Seq(Plain) /\ <<"OpenFile">> \in Seq(Plain)
  BY DEF Plain, Steps, Inner
<1>5. CASE New(t)
  <2>1. boxes' = Append(boxes, Fresh) /\ cur' = Len(boxes) + 1 /\ Then(t, Dispatch("kbOpen"))
    BY <1>5 DEF New
  <2>2. AllFollow(boxes, boxes', t) /\ cur' \in DOMAIN boxes'
    BY <1>2, <2>1, Appended, NewBoxes
  <2>3. Goes(t)
    BY <1>1, <1>3, <2>1, StepGoes
  <2> QED BY <1>1, <2>2, <2>3, FollowingKeeps
<1>6. CASE Load(t)
  <2>1. boxes' = boxes /\ cur' = cur /\ (Then(t, <<>>) \/ Then(t, <<"OpenFile">>)) /\ Head(todo[t]) = "Load"
    BY <1>6 DEF Load, files, Takes
  <2>2. Goes(t)
    BY <1>1, <1>4, <2>1, StepGoes
  <2> QED BY <1>1, <1>2, <2>1, <2>2, SameFollows, FollowingKeeps
<1>7. CASE OpenFile(t)
  <2>1. /\ Then(t, <<>>) \/ Then(t, Dispatch("kbOpen"))
        /\ \/ boxes' = boxes /\ cur' \in DOMAIN boxes
           \/ \E name \in Names, exists \in BOOLEAN :
                 \/ boxes' = Append(boxes, Loaded(name, exists)) /\ cur' = Len(boxes) + 1
                 \/ boxes' = [boxes EXCEPT ![cur] = Loaded(name, exists)] /\ cur' = cur
    BY <1>7 DEF OpenFile
  <2>2. Goes(t)
    BY <1>1, <1>3, <1>4, <2>1, StepGoes
  <2>3. CASE boxes' = boxes /\ cur' \in DOMAIN boxes
    BY <1>1, <1>2, <2>2, <2>3, SameFollows, FollowingKeeps
  <2>4. ASSUME NEW c \in Box, Clean(c), boxes' = Append(boxes, c), cur' = Len(boxes) + 1
        PROVE  IInv'
    <3>1. AllFollow(boxes, boxes', t) /\ cur' \in DOMAIN boxes'
      BY <1>2, <2>4, Appended
    <3> QED BY <1>1, <2>2, <3>1, FollowingKeeps
  <2>5. ASSUME NEW c \in Box, Clean(c), boxes' = [boxes EXCEPT ![cur] = c], cur' = cur
        PROVE  IInv'
    <3>1. Follows(boxes[cur], c, t)
      BY <2>5 DEF Follows, Clean, Own
    <3>2. AllFollow(boxes, boxes', t) /\ cur' \in DOMAIN boxes'
      BY <1>2, <2>5, <3>1, OneChanged
    <3> QED BY <1>1, <2>2, <3>2, FollowingKeeps
  <2> QED BY <2>1, <2>3, <2>4, <2>5, NewBoxes
<1> QED BY <1>5, <1>6, <1>7

\* A file gets a name, or a name and a place on disk.
LEMMA NamedFollow ==
    ASSUME NEW t \in Threads, boxes \in Seq(Box), boxes # <<>>, cur \in DOMAIN boxes
    PROVE  /\ AllFollow(boxes, Saved(boxes, cur, t), t)
           /\ DOMAIN Saved(boxes, cur, t) = DOMAIN boxes
           /\ \A name \in NewNames(cur) :
                 /\ AllFollow(boxes, NamedAt(cur, t, name), t)
                 /\ DOMAIN NamedAt(cur, t, name) = DOMAIN boxes
                 /\ AllFollow(boxes, Saved(NamedAt(cur, t, name), cur, t), t)
                 /\ DOMAIN Saved(NamedAt(cur, t, name), cur, t) = DOMAIN boxes
<1>1. /\ AllFollow(boxes, Saved(boxes, cur, t), t)
      /\ DOMAIN Saved(boxes, cur, t) = DOMAIN boxes
  <2>1. {cur} \in SUBSET DOMAIN boxes
    OBVIOUS
  <2> QED BY <2>1, SavedFollow DEF Saved
<1>2. ASSUME NEW name \in NewNames(cur)
      PROVE  /\ AllFollow(boxes, NamedAt(cur, t, name), t)
             /\ DOMAIN NamedAt(cur, t, name) = DOMAIN boxes
             /\ AllFollow(boxes, Saved(NamedAt(cur, t, name), cur, t), t)
             /\ DOMAIN Saved(NamedAt(cur, t, name), cur, t) = DOMAIN boxes
  <2> DEFINE bs == NamedAt(cur, t, name)
  <2>1. name \in Names /\ boxes[cur] \in Box
    BY DEF NewNames
  <2>2. Follows(boxes[cur], Named(boxes[cur], t, name), t)
    BY <2>1, EditsFollow
  <2>3. AllFollow(boxes, bs, t) /\ DOMAIN bs = DOMAIN boxes
    BY <2>2, OneChanged DEF NamedAt
  <2> HIDE DEF bs
  <2>4. bs \in Seq(Box) /\ bs # <<>> /\ {cur} \in SUBSET DOMAIN bs
    BY <2>3 DEF AllFollow
  <2>5. AllFollow(bs, Saved(bs, cur, t), t) /\ DOMAIN Saved(bs, cur, t) = DOMAIN bs
    BY <2>4, SavedFollow DEF Saved
  <2> QED BY <2>3, <2>5 DEF AllFollow, bs
<1> QED BY <1>1, <1>2

\* The commands that write files.
LEMMA SaveKeeps ==
    ASSUME IInv, NEW t \in Threads, Save(t) \/ SaveAll(t)
    PROVE  IInv'
<1>1. /\ Holds(t) /\ todo[t] # <<>> /\ Head(todo[t]) # "track_end" /\ Then(t, <<>>)
      /\ Rest /\ cur' = cur
  BY DEF Save, SaveAll, Takes, Quiet, SetBoxes, Rest, IInv, TypeOK
<1>2. /\ boxes \in Seq(Box) /\ boxes # <<>> /\ cur \in DOMAIN boxes
  BY <1>1, AtWork
<1>3. Goes(t)
  BY <1>1, StepGoes, EmptySteps
<1>4. CASE Save(t)
  <2>1. \/ boxes' = boxes
        \/ boxes' = Saved(boxes, cur, t)
        \/ \E name \in NewNames(cur) : boxes' \in {NamedAt(cur, t, name), Saved(NamedAt(cur, t, name), cur, t)}
    BY <1>4 DEF Save
  <2>2. AllFollow(boxes, boxes', t) /\ DOMAIN boxes' = DOMAIN boxes
    BY <1>2, <2>1, SameFollows, NamedFollow
  <2> QED BY <1>1, <1>2, <1>3, <2>2, FollowingKeeps
<1>5. CASE SaveAll(t)
  <2>1. PICK written \in SUBSET DOMAIN boxes : boxes' = SavedAll(boxes, written, t)
    BY <1>5 DEF SaveAll, SetBoxes
  <2>2. AllFollow(boxes, boxes', t) /\ DOMAIN boxes' = DOMAIN boxes
    BY <1>2, <2>1, SavedFollow
  <2> QED BY <1>1, <1>2, <1>3, <2>2, FollowingKeeps
<1> QED BY <1>4, <1>5

\* Closing a file: kbClose first, then the question and the removal.
LEMMA CloseKeeps ==
    ASSUME IInv, NEW t \in Threads, Close(t) \/ Drop(t)
    PROVE  IInv'
<1>1. /\ Holds(t) /\ todo[t] # <<>> /\ Head(todo[t]) \in {"Close", "close"}
      /\ Rest
  <2>1. lost' \in BOOLEAN
    BY DEF Close, Drop, files, IInv, TypeOK
  <2> QED BY <2>1 DEF Close, Drop, Takes, Quiet, Rest, IInv, TypeOK
<1>2. /\ boxes \in Seq(Box) /\ boxes # <<>> /\ cur \in DOMAIN boxes
  BY <1>1, AtWork
<1>3. Dispatch("kbClose") \o <<"close">> \in Seq(Plain)
  <2>1. Dispatch("kbClose") \in Seq(Plain) /\ <<"close">> \in Seq(Plain)
    BY DispatchEnds DEF Pseudo, Plain, Steps, Inner
  <2> QED BY <2>1
<1>4. Goes(t)
  BY <1>1, <1>3, StepGoes, EmptySteps DEF Close, Drop
<1>5. CASE boxes' = boxes /\ cur' = cur
  BY <1>1, <1>2, <1>4, <1>5, SameFollows, FollowingKeeps
<1>6. CASE RemoveBox(cur)
  <2>1. AllFollow(boxes, boxes', t) /\ cur' = 1
    BY <1>2, <1>6, Removed DEF RemoveBox
  <2>2. cur' \in DOMAIN boxes'
    <3>1. boxes' \in Seq(Box) /\ boxes' # <<>>
      BY <2>1 DEF AllFollow
    <3> QED BY <2>1, <3>1
  <2> QED BY <1>1, <1>4, <2>1, <2>2, FollowingKeeps
<1> QED BY <1>5, <1>6 DEF Close, Drop, files

\* The questions go on: the next one, at the same place.
LEMMA AskGoes ==
    ASSUME NEW t \in Threads, todo[t] # <<>>, Head(todo[t]) \in {"Exit", "check_save"},
           Then(t, <<"check_save">>), first' \in DOMAIN boxes'
    PROVE  Goes(t)
BY DEF Goes, Then

\* A question that is asked for the next file stays at the head of the steps.
LEMMA Stays ==
    ASSUME IInv, NEW t \in Threads, Holds(t), todo[t] # <<>>, todo' = todo,
           Head(todo[t]) = "check_save"
    PROVE  Then(t, <<"check_save">>)
<1>1. todo[t] \in Seq(Steps) /\ todo \in [Threads -> Seq(Steps)]
  BY AtWork DEF IInv, TypeOK, Steps
<1>2. <<"check_save">> \o Tail(todo[t]) = todo[t]
  <2>1. todo[t] = <<Head(todo[t])>> \o Tail(todo[t])
    BY <1>1
  <2> QED BY <2>1
<1>3. todo' = [todo EXCEPT ![t] = <<"check_save">> \o Tail(@)]
  BY <1>1, <1>2
<1> QED BY <1>3 DEF Then

\* Exit and its questions, file by file.
LEMMA ExitKeeps ==
    ASSUME IInv, NEW t \in Threads, Exit(t) \/ CheckSave(t) \/ ExitCancelled(t) \/ Abort(t)
    PROVE  IInv'
<1>1. /\ Holds(t) /\ todo[t] # <<>> /\ Head(todo[t]) \in {"Exit", "check_save", "Abort"}
  BY DEF Exit, CheckSave, ExitCancelled, Abort, Takes
<1>2. /\ boxes \in Seq(Box) /\ boxes # <<>> /\ cur \in DOMAIN boxes /\ boxes[cur] \in Box /\ cur \in Nat
      /\ shutdown \in BOOLEAN /\ aborted \in BOOLEAN /\ lost \in BOOLEAN /\ first \in Nat
  BY <1>1, AtWork DEF IInv, TypeOK
<1>3. Head(todo[t]) = "check_save" => first \in DOMAIN boxes
  <2>1. SUFFICES ASSUME Head(todo[t]) = "check_save" PROVE first \in DOMAIN boxes
    OBVIOUS
  <2>2. todo[t] \notin Seq(Plain)
    BY <1>1, <2>1 DEF Plain
  <2> QED BY <2>2 DEF IInv, Asking
<1>4. CASE Exit(t)
  <2>1. Rest /\ boxes' = boxes /\ cur' = cur /\ Then(t, <<"check_save">>)
        /\ first' = cur /\ Head(todo[t]) = "Exit"
    BY <1>2, <1>4 DEF Exit, Rest, files, Takes
  <2>2. Goes(t)
    BY <1>1, <1>2, <2>1, AskGoes
  <2> QED BY <1>1, <1>2, <2>1, <2>2, SameFollows, FollowingKeeps
<1>5. CASE Abort(t)
  <2>1. Rest /\ boxes' = boxes /\ cur' = cur /\ Then(t, <<>>)
    BY <1>2, <1>5 DEF Abort, Rest, files
  <2>2. Goes(t)
    BY <1>1, <2>1, StepGoes, EmptySteps
  <2> QED BY <1>1, <1>2, <2>1, <2>2, SameFollows, FollowingKeeps
<1>6. CASE ExitCancelled(t)
  <2>1. Rest /\ Then(t, <<>>)
    BY <1>2, <1>6 DEF ExitCancelled, Rest
  <2>2. Goes(t)
    BY <1>1, <2>1, StepGoes, EmptySteps
  <2>3. cur' \in DOMAIN boxes
    <3>1. Head(todo[t]) = "check_save"
      BY <1>6 DEF ExitCancelled, Takes
    <3> QED BY <1>2, <1>3, <1>6, <3>1 DEF ExitCancelled
  <2>4. AllFollow(boxes, boxes', t) /\ DOMAIN boxes' = DOMAIN boxes
    BY <1>2, <1>6, SameFollows, NamedFollow DEF ExitCancelled
  <2> QED BY <1>1, <2>1, <2>2, <2>3, <2>4, FollowingKeeps
<1>7. CASE CheckSave(t)
  <2>1. PICK bs : AskNext(t, bs) /\ AllFollow(boxes, bs, t) /\ DOMAIN bs = DOMAIN boxes
    <3>1. AllFollow(boxes, boxes, t)
      BY <1>2 DEF AllFollow
    <3>2. AllFollow(boxes, [boxes EXCEPT ![cur] = Asked(@)], t) /\ DOMAIN [boxes EXCEPT ![cur] = Asked(@)] = DOMAIN boxes
      BY <1>2, EditsFollow, OneChanged
    <3> QED BY <1>2, <1>7, <3>1, <3>2, NamedFollow DEF CheckSave
  <2>2. boxes' = bs /\ cur' \in DOMAIN boxes
    BY <1>2, <2>1, NextIsFile DEF AskNext
  <2>3. Rest
    <3>1. UNCHANGED <<owner, pc, aborted, lost>>
      BY <1>7 DEF CheckSave
    <3>2. shutdown' \in BOOLEAN /\ first' \in Nat
      <4>1. CASE Next1 = first
        BY <2>1, <4>1 DEF AskNext
      <4>2. CASE Next1 # first
        BY <1>2, <2>1, <4>2 DEF AskNext
      <4> QED BY <4>1, <4>2
    <3> QED BY <1>2, <3>1, <3>2 DEF Rest
  <2>4. Goes(t)
    <3>1. Head(todo[t]) = "check_save"
      BY <1>7 DEF CheckSave, Takes
    <3>2. CASE Then(t, <<>>)
      BY <1>1, <3>1, <3>2, StepGoes, EmptySteps
    <3>3. CASE todo' = todo /\ first' = first
      BY <1>1, <1>3, <2>1, <2>2, <3>1, <3>3, Stays, AskGoes
    <3> QED BY <2>1, <3>2, <3>3 DEF AskNext
  <2> QED BY <1>1, <2>1, <2>2, <2>3, <2>4, FollowingKeeps
<1> QED BY <1>4, <1>5, <1>6, <1>7

-----------------------------------------------------------------------------
(***************************************************************************)
(* What the threads do without the mutex, and taking and giving it.        *)
(***************************************************************************)

\* what a thread may ask the mutex for
Order(s) == s \in Seq(Plain) /\ (EndsTracking(s) \/ s \in {<<"OpenFile">>, <<"set_xy">>})

\* A thread that goes to another place without the mutex, with nothing to do
\* under it or with an order, touches nothing that is protected.
LEMMA OutsideKeeps ==
    ASSUME IInv, NEW t \in Threads, pc[t] \in Places \ {"in", "inlast", "over", "want", "wantlast"},
           UNCHANGED <<owner, files, first, aborted>>, shutdown' \in BOOLEAN,
           NEW place \in Places \ {"in", "inlast", "over"}, Goto(t, place),
           \/ todo' = todo
           \/ \E s : Order(s) /\ todo' = [todo EXCEPT ![t] = s] /\ place \in {"want", "wantlast"}
    PROVE  IInv'
<1>1. /\ pc \in [Threads -> Places] /\ todo \in [Threads -> Seq(Steps)] /\ todo[t] = <<>>
      /\ boxes' = boxes /\ cur' = cur /\ lost' = lost /\ owner' = owner /\ first' = first /\ aborted' = aborted
  BY DEF IInv, TypeOK, Steps, Holds, files
<1>2. /\ pc' \in [Threads -> Places] /\ pc'[t] = place /\ \A u \in Threads \ {t} : pc'[u] = pc[u]
  BY <1>1 DEF Goto
<1>3. ~Holds(t) /\ ~Holds(t)' /\ \A u \in Threads : Holds(u)' <=> Holds(u)
  BY <1>2 DEF Holds
<1>4. PICK s : /\ todo' = [todo EXCEPT ![t] = s]
               /\ s = <<>> \/ (Order(s) /\ place \in {"want", "wantlast"})
  <2>1. CASE todo' = todo
    <3>1. todo' = [todo EXCEPT ![t] = <<>>]
      BY <1>1, <2>1
    <3> QED BY <3>1
  <2> QED BY <2>1
<1>5. s \in Seq(Plain) /\ s \in Seq(Steps)
  BY <1>4, EmptySteps, PlainSteps DEF Order
<1>6. todo' \in [Threads -> Seq(Steps)] /\ todo'[t] = s /\ \A u \in Threads \ {t} : todo'[u] = todo[u]
  BY <1>1, <1>4, <1>5
<1>7. TypeOK'
  <2>1. owner # t
    BY <1>3 DEF IInv, TypeOK
  <2>2. \A u \in Threads : /\ Holds(u)' => owner' = u
                           /\ owner' = u => (Holds(u)' \/ pc'[u] = "over")
                           /\ todo'[u] # <<>> => (Holds(u)' \/ pc'[u] \in {"want", "wantlast"})
    BY <1>1, <1>2, <1>3, <1>4, <1>6, <2>1 DEF IInv, TypeOK
  <2> QED BY <1>1, <1>2, <1>6, <2>2 DEF IInv, TypeOK, Steps
<1>8. Orders' /\ Tracking' /\ Asking'
  BY <1>1, <1>3, <1>4, <1>5, <1>6 DEF IInv, Orders, Tracking, Asking, Order, NoneTracks
<1>9. CurrentExists' /\ (pc'["main"] = "over" => owner' = "main")
  <2>1. pc'["main"] = "over" <=> pc["main"] = "over"
    BY <1>2 DEF Threads
  <2> QED BY <1>1, <2>1 DEF IInv, CurrentExists
<1>10. TrackingBalanced' /\ Owned'
  BY <1>1 DEF IInv, TrackingBalanced, NoneTracks, Owned
<1> QED BY <1>7, <1>8, <1>9, <1>10 DEF IInv

\* The orders of the four threads.
LEMMA OrdersOfThreads ==
    /\ \A key \in Pseudo : Order(Dispatch(key))
    /\ \A key \in Keys, n \in Reps : Order(Repeated(DispatchKey(key), n))
    /\ Order(Tracked(<<"put_mouse">>))
    /\ \A m \in Messages : Order(Handler(m))
<1>1. /\ \A key \in Pseudo : Order(Dispatch(key))
      /\ Order(Tracked(<<"put_mouse">>))
  BY DispatchEnds DEF Order
<1>2. ASSUME NEW key \in Keys, NEW n \in Reps
      PROVE  Order(Repeated(DispatchKey(key), n))
  <2>1. n \in Nat \ {0}
    BY EditorAssumption DEF EditorAssumption
  <2> QED BY <2>1, DispatchEnds, RepeatedEnds DEF Order
<1>3. ASSUME NEW m \in Messages
      PROVE  Order(Handler(m))
  <2>1. m \in {"open", "cursor", "execute"}
    BY EditorAssumption DEF EditorAssumption
  <2>2. <<"OpenFile">> \in Seq(Plain) /\ <<"set_xy">> \in Seq(Plain)
    BY DEF Plain, Steps, Inner
  <2>3. Order(Dispatch("kbPipe"))
    BY <1>1 DEF Pseudo
  <2> QED BY <2>1, <2>2, <2>3 DEF Handler, Order
<1> QED BY <1>1, <1>2, <1>3

\* The loops of the threads.
LEMMA LoopsKeep ==
    ASSUME IInv,
           \/ MainTest \/ MainDraw \/ MainLeave \/ Done \/ Outside
           \/ TimerTick \/ MouseWait \/ PipeWait \/ \E u \in {"timer", "mouse", "pipe"} : Leave(u)
    PROVE  IInv'
<1>1. shutdown \in BOOLEAN
  BY DEF IInv, TypeOK
<1>2. CASE MainTest \/ MainDraw \/ Done
  BY <1>1, <1>2, OutsideKeeps DEF MainTest, MainDraw, Done, Threads, Places
<1>3. CASE MouseWait \/ PipeWait
  BY <1>1, <1>3, OutsideKeeps DEF MouseWait, PipeWait, Threads, Places
<1>4. ASSUME NEW u \in {"timer", "mouse", "pipe"}, Leave(u)
      PROVE  IInv'
  BY <1>1, <1>4, OutsideKeeps DEF Leave, Threads, Places
<1>5. CASE MainLeave
  <2>1. Order(Dispatch("kbDone"))
    BY OrdersOfThreads DEF Pseudo
  <2> QED BY <1>1, <1>5, <2>1, OutsideKeeps DEF MainLeave, Threads, Places
<1>6. CASE MainRead
  <2>1. PICK key \in Keys, n \in Reps : Ask("main", Repeated(DispatchKey(key), n))
    BY <1>6 DEF MainRead
  <2>2. Order(Repeated(DispatchKey(key), n))
    BY OrdersOfThreads
  <2> QED BY <1>1, <1>6, <2>1, <2>2, OutsideKeeps DEF MainRead, Ask, Threads, Places
<1>7. CASE TimerTick
  <2>1. PICK key \in {"kbTimer", "kbActivate"} : Ask("timer", Dispatch(key))
    BY <1>7 DEF TimerTick
  <2>2. Order(Dispatch(key))
    BY OrdersOfThreads DEF Pseudo
  <2> QED BY <1>1, <1>7, <2>1, <2>2, OutsideKeeps DEF TimerTick, Ask, Threads, Places
<1>8. CASE MouseEvent
  <2>1. Order(Tracked(<<"put_mouse">>))
    BY OrdersOfThreads
  <2> QED BY <1>1, <1>8, <2>1, OutsideKeeps DEF MouseEvent, Ask, Threads, Places
<1>9. CASE PipeMessage
  <2>1. CASE shutdown
    BY <1>1, <1>9, <2>1, OutsideKeeps DEF PipeMessage, Threads, Places
  <2>2. CASE ~shutdown
    <3>1. PICK m \in Messages : Ask("pipe", Handler(m))
      BY <1>9, <2>2 DEF PipeMessage
    <3>2. Order(Handler(m))
      BY OrdersOfThreads
    <3> QED BY <1>1, <1>9, <3>1, <3>2, OutsideKeeps DEF PipeMessage, Ask, Threads, Places
  <2> QED BY <2>1, <2>2
<1> QED BY <1>2, <1>3, <1>4, <1>5, <1>6, <1>7, <1>8, <1>9 DEF Outside

\* Taking the mutex: nobody has it, so no file tracks.
LEMMA LockKeeps ==
    ASSUME IInv, NEW t \in Threads, Lock(t)
    PROVE  IInv'
<1> DEFINE place == IF pc[t] = "want" THEN "in" ELSE "inlast"
<1>1. /\ pc[t] \in {"want", "wantlast"} /\ owner = "none" /\ owner' = t /\ pc' = [pc EXCEPT ![t] = place]
      /\ boxes' = boxes /\ cur' = cur /\ lost' = lost /\ shutdown' = shutdown /\ todo' = todo
      /\ first' = first /\ aborted' = aborted
  BY DEF Lock, Goto, files
<1>2. pc \in [Threads -> Places] /\ place \in Places /\ place \in {"in", "inlast"}
  BY DEF IInv, TypeOK, Places
<1> HIDE DEF place
<1>3. pc' \in [Threads -> Places] /\ pc'[t] = place /\ \A u \in Threads \ {t} : pc'[u] = pc[u]
  BY <1>1, <1>2
<1>4. ASSUME NEW u \in Threads
      PROVE  ~Holds(u)
  BY <1>1 DEF IInv, TypeOK, Threads
<1>5. Holds(t)' /\ \A u \in Threads \ {t} : ~Holds(u)'
  BY <1>2, <1>3, <1>4 DEF Holds
<1>6. NoneTracks /\ NoneTracks'
  BY <1>1 DEF IInv, TrackingBalanced, NoneTracks
<1>7. TypeOK'
  <2>1. \A u \in Threads : /\ Holds(u)' => owner' = u
                           /\ owner' = u => (Holds(u)' \/ pc'[u] = "over")
                           /\ todo'[u] # <<>> => (Holds(u)' \/ pc'[u] \in {"want", "wantlast"})
    BY <1>1, <1>3, <1>4, <1>5 DEF IInv, TypeOK
  <2> QED BY <1>1, <1>3, <2>1 DEF IInv, TypeOK
<1>8. CurrentExists' /\ (pc'["main"] = "over" => owner' = "main")
  <2>1. pc["main"] # "over" /\ pc'["main"] # "over"
    BY <1>1, <1>2, <1>3 DEF IInv, Threads
  <2> QED BY <1>1, <2>1 DEF IInv, CurrentExists
<1>9. TrackingBalanced' /\ Tracking' /\ Owned'
  BY <1>6 DEF TrackingBalanced, Tracking, Owned, NoneTracks
<1>10. Orders' /\ Asking'
  BY <1>1, <1>4, <1>5 DEF IInv, Orders, Asking
<1> QED BY <1>7, <1>8, <1>9, <1>10 DEF IInv

\* Giving it back: there is nothing left to do, so tracking has ended.
LEMMA UnlockKeeps ==
    ASSUME IInv, NEW t \in Threads, Unlock(t)
    PROVE  IInv'
<1> DEFINE place == IF pc[t] = "in" THEN "test" ELSE "done"
<1>1. /\ Holds(t) /\ todo[t] = <<>> /\ owner' = "none" /\ pc' = [pc EXCEPT ![t] = place]
      /\ boxes' = boxes /\ cur' = cur /\ lost' = lost /\ shutdown' = shutdown /\ todo' = todo
      /\ first' = first /\ aborted' = aborted
  BY DEF Unlock, Goto, files
<1>2. pc \in [Threads -> Places] /\ place \in Places \ {"in", "inlast", "over"}
  BY DEF IInv, TypeOK, Places
<1> HIDE DEF place
<1>3. pc' \in [Threads -> Places] /\ pc'[t] = place /\ \A u \in Threads \ {t} : pc'[u] = pc[u]
  BY <1>1, <1>2
<1>4. owner = t /\ pc["main"] # "over"
  BY <1>1, AtWork
<1>5. ASSUME NEW u \in Threads
      PROVE  ~Holds(u)' /\ (u # t => ~Holds(u))
  BY <1>2, <1>3, <1>4 DEF IInv, TypeOK, Holds
<1>6. NoneTracks /\ NoneTracks'
  BY <1>1 DEF IInv, Tracking, EndsTracking, NoneTracks
<1>7. TypeOK'
  <2>1. \A u \in Threads : /\ Holds(u)' => owner' = u
                           /\ owner' = u => (Holds(u)' \/ pc'[u] = "over")
                           /\ todo'[u] # <<>> => (Holds(u)' \/ pc'[u] \in {"want", "wantlast"})
    BY <1>1, <1>3, <1>5 DEF IInv, TypeOK, Threads
  <2> QED BY <1>1, <1>3, <2>1 DEF IInv, TypeOK
<1>8. CurrentExists' /\ (pc'["main"] = "over" => owner' = "main")
  <2>1. pc'["main"] # "over"
    BY <1>2, <1>3, <1>4 DEF Threads
  <2> QED BY <1>1, <1>4, <2>1 DEF IInv, CurrentExists
<1>9. TrackingBalanced' /\ Tracking' /\ Owned'
  BY <1>6 DEF TrackingBalanced, Tracking, Owned, NoneTracks
<1>10. Orders' /\ Asking'
  BY <1>1, <1>5, EmptySteps DEF IInv, Orders, Asking
<1> QED BY <1>7, <1>8, <1>9, <1>10 DEF IInv

\* The end: main keeps the mutex, and there are no files any more.
LEMMA RemovalKeeps ==
    ASSUME IInv, DoneRemoveAll
    PROVE  IInv'
<1>1. /\ pc["main"] = "wantall" /\ owner = "none" /\ owner' = "main" /\ pc' = [pc EXCEPT !["main"] = "over"]
      /\ boxes' = <<>> /\ lost' \in BOOLEAN /\ cur' = cur /\ shutdown' = shutdown /\ todo' = todo
      /\ first' = first /\ aborted' = aborted
  BY DEF DoneRemoveAll, Goto, IInv, TypeOK
<1>2. /\ pc \in [Threads -> Places] /\ pc' \in [Threads -> Places] /\ pc'["main"] = "over"
      /\ \A u \in Threads \ {"main"} : pc'[u] = pc[u]
  BY <1>1 DEF IInv, TypeOK, Places, Threads
<1>3. ASSUME NEW u \in Threads
      PROVE  ~Holds(u)' /\ ~Holds(u)
  BY <1>1, <1>2 DEF IInv, TypeOK, Holds, Threads
<1>4. boxes' \in Seq(Box) /\ DOMAIN boxes' = {}
  BY <1>1
<1>5. TypeOK'
  <2>1. \A u \in Threads : /\ Holds(u)' => owner' = u
                           /\ owner' = u => (Holds(u)' \/ pc'[u] = "over")
                           /\ todo'[u] # <<>> => (Holds(u)' \/ pc'[u] \in {"want", "wantlast"})
    BY <1>1, <1>2, <1>3 DEF IInv, TypeOK, Holds
  <2> QED BY <1>1, <1>2, <1>4, <2>1 DEF IInv, TypeOK, Threads
<1>6. CurrentExists' /\ (pc'["main"] = "over" => owner' = "main")
  BY <1>1, <1>2 DEF CurrentExists
<1>7. TrackingBalanced' /\ Tracking' /\ Owned'
  BY <1>3, <1>4 DEF TrackingBalanced, Tracking, Owned, NoneTracks
<1>8. Orders' /\ Asking'
  BY <1>1, <1>3 DEF IInv, Orders, Asking
<1> QED BY <1>5, <1>6, <1>7, <1>8 DEF IInv

-----------------------------------------------------------------------------
\* It holds at the start
LEMMA InitHolds == Init => IInv
<1> SUFFICES ASSUME Init PROVE IInv
  OBVIOUS
<1>1. /\ owner = "none" /\ shutdown = FALSE /\ aborted = FALSE /\ lost = FALSE /\ first = 0
      /\ boxes = <<Fresh>> /\ cur = 1
  BY DEF Init
<1>2. /\ boxes \in Seq(Box) /\ DOMAIN boxes = {1} /\ boxes[1] = Fresh
  BY <1>1, NewBoxes
<1>3. /\ Order(Dispatch("kbInit")) /\ Dispatch("kbInit") \in Seq(Plain) /\ Dispatch("kbInit") \in Seq(Steps)
  BY OrdersOfThreads, PlainSteps DEF Pseudo, Order
<1>4. /\ todo \in [Threads -> Seq(Steps)]
      /\ \A t \in Threads : todo[t] = IF t = "main" THEN Dispatch("kbInit") ELSE <<>>
  BY <1>3 DEF Init
<1>5. /\ pc \in [Threads -> Places] /\ pc["main"] = "want"
      /\ \A t \in Threads : pc[t] \in {"want", "test", "left"}
  BY DEF Init, Places, Threads
<1>6. TypeOK
  BY <1>1, <1>2, <1>4, <1>5 DEF TypeOK, Holds, Steps, Threads
<1>7. CurrentExists /\ (pc["main"] = "over" => owner = "main")
  BY <1>1, <1>2, <1>5 DEF CurrentExists
<1>8. NoneTracks
  BY <1>2, NewBoxes DEF NoneTracks, Clean
<1>9. Orders /\ Asking
  BY <1>3, <1>4, EmptySteps DEF Orders, Order, Asking
<1> QED BY <1>6, <1>7, <1>8, <1>9 DEF IInv, TrackingBalanced, Tracking, Owned, NoneTracks

\* and every step keeps it.
LEMMA NextKeeps == IInv /\ [Next]_vars => IInv'
<1> SUFFICES ASSUME IInv, [Next]_vars PROVE IInv'
  OBVIOUS
<1>1. ASSUME NEW t \in Threads, Step(t)
      PROVE  IInv'
  BY <1>1, LockKeeps, UnlockKeeps, TrackBegKeeps, TrackEndKeeps, EditKeeps, NextFileKeeps, UndoKeeps,
     OpenKeeps, SaveKeeps, CloseKeeps, ExitKeeps DEF Step
<1>2. CASE UNCHANGED vars
  BY <1>2 DEF vars, files, IInv, TypeOK, CurrentExists, TrackingBalanced, NoneTracks, Orders, Tracking,
              Owned, Asking, Holds
<1>3. CASE Main
  BY <1>1, <1>3, LoopsKeep, RemovalKeeps DEF Main, Threads
<1>4. CASE Timer \/ Mouse \/ Pipe \/ Outside
  BY <1>1, <1>4, LoopsKeep DEF Timer, Mouse, Pipe, Threads
<1> QED BY <1>2, <1>3, <1>4 DEF Next, Over

\* The invariant holds always.
LEMMA InvariantHolds == Spec => []IInv
BY InitHolds, NextKeeps, PTL DEF Spec

-----------------------------------------------------------------------------
\* Every variable keeps its shape, and at most one thread works on the files:
\* a thread that does so holds the mutex (lock and unlock around every command).
THEOREM EditorTypes == Spec => []TypeOK
<1>1. IInv => TypeOK
  BY DEF IInv
<1> QED BY <1>1, InvariantHolds, PTL

\* current() always finds a file, whatever macros open and close.
THEOREM CurrentAlwaysExists == Spec => []CurrentExists
<1>1. IInv => CurrentExists
  BY DEF IInv
<1> QED BY <1>1, InvariantHolds, PTL

\* A thread that gives back the mutex leaves no file tracking, whatever its
\* commands opened, closed or switched to, and however they nest Dispatcher.
THEOREM TrackingAlwaysBalanced == Spec => []TrackingBalanced
<1>1. IInv => TrackingBalanced
  BY DEF IInv
<1> QED BY <1>1, InvariantHolds, PTL

\* A log holds the notes of one thread only.
THEOREM LogsNeverMixed == Spec => []LogsUnmixed
<1>1. IInv => LogsUnmixed
  BY DEF IInv, Owned, LogsUnmixed
<1> QED BY <1>1, InvariantHolds, PTL

\* Done frees the files when no other thread is at work on them.
THEOREM NothingEverAfterRemoval == Spec => []NothingAfterRemoval
<1>1. IInv => NothingAfterRemoval
  BY DEF IInv, TypeOK, NothingAfterRemoval, Threads
<1> QED BY <1>1, InvariantHolds, PTL
-----------------------------------------------------------------------------
(***************************************************************************)
(* A file that says it is saved may be dropped, as long as no macro saves  *)
(* all files at once and no file is given the name of another open one:    *)
(* with either, a file is written over one that still counts as saved.     *)
(***************************************************************************)
Careful == ~MayOverwrite /\ \A key \in Keys \cup Pseudo : Macro[key] \in Seq(Commands \ {"SaveAll"})

\* the steps of such macros
Safe      == Plain \ {"SaveAll"}
Asks      == Safe \cup {"check_save"}
NoSaveAll == \A t \in Threads : todo[t] \in Seq(Asks)

\* A file that is saved may be dropped, and so may one that is untitled and unchanged when
\* all its changes were noted: close, load and the questions of Exit take the flags for it.
Droppable(b) == /\ b.saved => b.kept # {}
                /\ b.name = Untitled /\ ~b.changed /\ ~b.unnoted => b.kept # {}

\* Only files without a name have the same one.
Apart(bs) == \A i, k \in DOMAIN bs : bs[i].name = bs[k].name => i = k \/ bs[i].name = Untitled

Kept(bs) == Apart(bs) /\ \A i \in DOMAIN bs : Droppable(bs[i])

KInv == Kept(boxes) /\ NoSaveAll

-----------------------------------------------------------------------------
(***************************************************************************)
(* One file.                                                               *)
(***************************************************************************)

\* c takes the place of b under the same name
Replaces(b, c) == c \in Box /\ Droppable(c) /\ c.name = b.name

\* A file with a new note replaces the one before, and is kept where that was.
LEMMA NotesReplace ==
    ASSUME NEW b \in Box, Droppable(b), NEW t \in Threads, NEW kind \in {"text", "flags", "cursor"}
    PROVE  /\ Replaces(b, Note(b, t, kind))
           /\ Note(b, t, kind).kept = b.kept
<1>1. Note(b, t, kind) \in Box
  BY NoteFollows DEF Follows
<1>2. /\ Note(b, t, kind).saved = b.saved /\ Note(b, t, kind).changed = b.changed
      /\ Note(b, t, kind).kept = b.kept /\ Note(b, t, kind).name = b.name
      /\ Note(b, t, kind).unnoted = b.unnoted
  BY DEF Note, Box
<1> QED BY <1>1, <1>2 DEF Replaces, Droppable

\* What the commands do to a file leaves its flags right.
LEMMA EditsReplace ==
    ASSUME NEW b \in Box, Droppable(b), NEW t \in Threads
    PROVE  /\ Replaces(b, Typed(b, t))
           /\ Replaces(b, Written(b, t))
           /\ Replaces(b, Asked(b))
           /\ \A name \in Names : LET c == Named(b, t, name)
                                  IN c \in Box /\ Droppable(c) /\ c.name = name
<1>1. /\ Replaces(b, Note(b, t, "text")) /\ Replaces(b, Note(b, t, "flags"))
  BY NotesReplace
<1>2. /\ Typed(b, t) \in Box /\ Written(b, t) \in Box /\ Asked(b) \in Box
      /\ \A name \in Names : Named(b, t, name) \in Box
  BY EditsFollow DEF Follows
<1>3. Replaces(b, Typed(b, t))
  BY <1>1, <1>2 DEF Typed, Replaces, Droppable, Box
<1>4. Replaces(b, Written(b, t))
  BY <1>1, <1>2 DEF Written, Replaces, Droppable, Box
<1>5. Replaces(b, Asked(b))
  BY <1>2 DEF Asked, Replaces, Droppable, Box
<1>6. ASSUME NEW name \in Names
      PROVE  Droppable(Named(b, t, name)) /\ Named(b, t, name).name = name
  BY <1>1 DEF Named, Replaces, Droppable, Box
<1> QED BY <1>2, <1>3, <1>4, <1>5, <1>6

\* So does tracking, and undo.
LEMMA TracksReplace ==
    ASSUME NEW b \in Box, Droppable(b)
    PROVE  /\ Replaces(b, Begun(b)) /\ Replaces(b, Ended(b)) /\ Replaces(b, Cancelled(b))
           /\ \A more \in BOOLEAN : Replaces(b, [Cancelled(b) EXCEPT !.undo = more])
           /\ \A more, changed \in BOOLEAN : Replaces(b, Undone(Cancelled(b), changed, more))
<1>1. /\ Begun(b) \in Box /\ Ended(b) \in Box /\ Cancelled(b) \in Box
      /\ \A more \in BOOLEAN : [Cancelled(b) EXCEPT !.undo = more] \in Box
      /\ \A more, changed \in BOOLEAN : Undone(Cancelled(b), changed, more) \in Box
  BY EndsClean DEF Threads
<1> DEFINE Same(c) == /\ c.name = b.name /\ c.saved = b.saved /\ c.changed = b.changed /\ c.kept = b.kept
                      /\ b.unnoted => c.unnoted
<1>2. Same(Begun(b)) /\ Same(Ended(b))
  <2>1. Same(Begun(b))
    BY DEF Begun, Box
  <2>2. \A undo : Same([b EXCEPT !.tracks = FALSE, !.undo = undo, !.head = {}])
    BY DEF Box
  <2>3. Same(Ended(b))
    BY <2>2 DEF Ended
  <2> QED BY <2>1, <2>3
<1>3. Same(Cancelled(b)) /\ \A more \in BOOLEAN : Same([Cancelled(b) EXCEPT !.undo = more])
  <2>1. \A noted : LET c == [b EXCEPT !.tracks = FALSE, !.head = {}, !.unnoted = b.unnoted \/ noted]
                   IN Same(c) /\ \A more \in BOOLEAN : Same([c EXCEPT !.undo = more])
    BY DEF Box
  <2> QED BY <2>1 DEF Cancelled
<1>4. \A c \in Box : Same(c) => Replaces(b, c)
  BY DEF Replaces, Droppable
<1> HIDE DEF Same
<1>5. /\ Replaces(b, Begun(b)) /\ Replaces(b, Ended(b)) /\ Replaces(b, Cancelled(b))
      /\ \A more \in BOOLEAN : Replaces(b, [Cancelled(b) EXCEPT !.undo = more])
  BY <1>1, <1>2, <1>3, <1>4
<1>6. ASSUME NEW more \in BOOLEAN, NEW changed \in BOOLEAN
      PROVE  Replaces(b, Undone(Cancelled(b), changed, more))
  <2>1. ASSUME NEW c \in Box
        PROVE  LET u == Undone(c, changed, more)
               IN /\ u.name = c.name /\ ~u.saved /\ u.changed = changed /\ u.unnoted = c.unnoted
                  /\ u.kept = KeptAfter(c, changed)
    BY DEF Undone, Box
  <2>2. Cancelled(b) \in Box /\ Cancelled(b).name = b.name
    BY <1>5 DEF Replaces
  <2>3. Droppable(Undone(Cancelled(b), changed, more))
    BY <2>1, <2>2 DEF Droppable, KeptAfter
  <2> QED BY <1>1, <2>1, <2>2, <2>3 DEF Replaces
<1> QED BY <1>5, <1>6

\* A new file, or one just loaded, may be dropped.
LEMMA NewDroppable ==
    /\ Droppable(Fresh) /\ Fresh.name = Untitled
    /\ \A name \in Names, exists \in BOOLEAN :
          Droppable(Loaded(name, exists)) /\ Loaded(name, exists).name = name
BY DEF Fresh, Loaded, Droppable

-----------------------------------------------------------------------------
(***************************************************************************)
(* The list of files.                                                      *)
(***************************************************************************)

\* One file is replaced; its name is the old one, or one no other file has.
LEMMA OneKept ==
    ASSUME NEW bs \in Seq(Box), Kept(bs), NEW i \in DOMAIN bs, NEW c \in Box, Droppable(c),
           c.name \in {bs[i].name, Untitled} \/ \A k \in DOMAIN bs \ {i} : bs[k].name # c.name
    PROVE  Kept([bs EXCEPT ![i] = c])
<1> DEFINE cs == [bs EXCEPT ![i] = c]
<1>1. DOMAIN cs = DOMAIN bs /\ cs[i] = c /\ \A k \in DOMAIN bs \ {i} : cs[k] = bs[k]
  OBVIOUS
<1> HIDE DEF cs
<1>2. \A k \in DOMAIN cs : Droppable(cs[k])
  BY <1>1 DEF Kept
<1>3. Apart(cs)
  BY <1>1 DEF Kept, Apart
<1> QED BY <1>2, <1>3 DEF Kept, cs

\* Saving a file with a name writes over no other open file.
LEMMA SavedEach ==
    ASSUME NEW bs \in Seq(Box), Kept(bs), NEW i \in DOMAIN bs, NEW t \in Threads, bs[i].name # Untitled,
           NEW k \in DOMAIN bs
    PROVE  Saved(bs, i, t)[k] = IF k = i /\ ~bs[i].saved THEN Written(bs[k], t) ELSE bs[k]
<1>1. k # i => bs[i].name # bs[k].name
  BY DEF Kept, Apart
<1>2. Saved(bs, i, t)[k] = LET saving == {j \in {i} : ~bs[j].saved}
                               over == \E j \in saving : /\ bs[j].name = bs[k].name
                                                         /\ IF k \in saving THEN j > k ELSE j # k
                               new == IF k \in saving THEN Written(bs[k], t) ELSE bs[k]
                           IN IF over THEN Overwritten(new) ELSE new
  BY DEF Saved, SavedAll
<1>3. ASSUME NEW j \in {i}, bs[j].name = bs[k].name
      PROVE  j = k /\ ~(j > k)
  BY <1>1, <1>3
<1> QED BY <1>2, <1>3

\* Saving one file keeps all of them,
LEMMA SavedKept ==
    ASSUME NEW bs \in Seq(Box), Kept(bs), NEW i \in DOMAIN bs, NEW t \in Threads, bs[i].name # Untitled
    PROVE  Kept(Saved(bs, i, t))
<1> DEFINE cs == Saved(bs, i, t)
<1>1. DOMAIN cs = DOMAIN bs
  BY DEF Saved, SavedAll
<1>2. ASSUME NEW k \in DOMAIN bs
      PROVE  Replaces(bs[k], cs[k])
  <2>1. bs[k] \in Box /\ Droppable(bs[k])
    BY DEF Kept
  <2>2. Replaces(bs[k], bs[k]) /\ Replaces(bs[k], Written(bs[k], t))
    BY <2>1, EditsReplace DEF Replaces
  <2> QED BY <2>2, SavedEach
<1> HIDE DEF cs
<1> QED BY <1>1, <1>2 DEF Kept, Apart, Replaces, cs

\* and so does opening one with a name of its own,
LEMMA AppendedKept ==
    ASSUME NEW bs \in Seq(Box), Kept(bs), NEW c \in Box, Droppable(c),
           c.name = Untitled \/ \A k \in DOMAIN bs : bs[k].name # c.name
    PROVE  Kept(Append(bs, c))
<1> DEFINE cs == Append(bs, c)
           n == Len(bs)
<1>1. /\ n \in Nat /\ cs \in Seq(Box) /\ Len(cs) = n + 1
      /\ \A i \in 1 .. n : cs[i] = bs[i]
      /\ cs[n + 1] = c
  BY AppendProperties
<1> HIDE DEF cs
<1>2. DOMAIN cs = 1 .. n + 1 /\ DOMAIN bs = 1 .. n
  BY <1>1, LenProperties
<1>3. \A i \in DOMAIN cs : (i = n + 1 /\ cs[i] = c) \/ (i \in DOMAIN bs /\ cs[i] = bs[i])
  BY <1>1, <1>2
<1>4. Apart(cs)
  BY <1>3 DEF Kept, Apart
<1> QED BY <1>3, <1>4 DEF Kept, cs

\* The files after the one that is removed move up, none is there twice.
LEMMA OneLess ==
    ASSUME NEW S, NEW s \in Seq(S), NEW i \in 1 .. Len(s), NEW k \in 1 .. Len(s) - 1
    PROVE  RemoveAt(s, i)[k] = s[IF k < i THEN k ELSE k + 1]
<1> DEFINE p == SubSeq(s, 1, i - 1)
           q == SubSeq(s, i + 1, Len(s))
<1>1. Len(s) \in Nat /\ \A j \in 1 .. Len(s) : s[j] \in S
  BY LenProperties
<1>2. p \in Seq(S) /\ Len(p) = i - 1 /\ \A j \in 1 .. i - 1 : p[j] = s[j]
  BY <1>1, SubSeqProperties
<1>3. q \in Seq(S) /\ Len(q) = Len(s) - i /\ \A j \in 1 .. Len(s) - i : q[j] = s[i + j]
  BY <1>1, SubSeqProperties
<1>4. RemoveAt(s, i) = p \o q
  BY DEF RemoveAt
<1> HIDE DEF p, q
<1>5. \A j \in 1 .. Len(p) + Len(q) : (p \o q)[j] = IF j <= Len(p) THEN p[j] ELSE q[j - Len(p)]
  BY <1>2, <1>3, ConcatProperties
<1>6. Len(p) + Len(q) = Len(s) - 1 /\ k \in 1 .. Len(p) + Len(q)
  BY <1>1, <1>2, <1>3
<1>7. CASE k < i
  <2>1. k \in 1 .. i - 1 /\ k <= Len(p)
    BY <1>1, <1>2, <1>7
  <2> QED BY <1>2, <1>4, <1>5, <1>6, <1>7, <2>1
<1>8. CASE ~(k < i)
  <2>1. ~(k <= Len(p)) /\ k - Len(p) \in 1 .. Len(s) - i /\ i + (k - Len(p)) = k + 1
    BY <1>1, <1>2, <1>8
  <2> QED BY <1>3, <1>4, <1>5, <1>6, <1>8, <2>1
<1> QED BY <1>7, <1>8

\* and closing one.
LEMMA RemovedKept ==
    ASSUME NEW bs \in Seq(Box), Kept(bs), NEW i \in DOMAIN bs
    PROVE  Kept(IF Len(bs) = 1 THEN <<Fresh>> ELSE RemoveAt(bs, i))
<1>1. CASE Len(bs) = 1
  <2>1. DOMAIN <<Fresh>> = {1} /\ <<Fresh>>[1] = Fresh
    OBVIOUS
  <2> QED BY <1>1, <2>1, NewDroppable DEF Kept, Apart
<1>2. CASE Len(bs) # 1
  <2> DEFINE cs == RemoveAt(bs, i)
             from(k) == IF k < i THEN k ELSE k + 1
  <2>1. i \in 1 .. Len(bs) /\ DOMAIN bs = 1 .. Len(bs) /\ Len(bs) \in Nat
    BY LenProperties, Zenon
  <2>2. cs \in Seq(Box) /\ Len(cs) = Len(bs) - 1
    BY <2>1, Without, Zenon
  <2>3. \A k \in 1 .. Len(bs) - 1 : cs[k] = bs[from(k)]
    BY <2>1, OneLess, Zenon
  <2> HIDE DEF cs
  <2>4. DOMAIN cs = 1 .. Len(bs) - 1
    BY <2>1, <2>2, LenProperties
  <2>5. /\ \A k \in 1 .. Len(bs) - 1 : from(k) \in DOMAIN bs
        /\ \A k, j \in 1 .. Len(bs) - 1 : from(k) = from(j) => k = j
    BY <2>1
  <2> HIDE DEF from
  <2>6. Apart(cs)
    <3> SUFFICES ASSUME NEW k \in 1 .. Len(bs) - 1, NEW j \in 1 .. Len(bs) - 1, cs[k].name = cs[j].name
                 PROVE  k = j \/ cs[k].name = Untitled
      BY <2>4 DEF Apart
    <3>1. from(k) \in DOMAIN bs /\ from(j) \in DOMAIN bs /\ cs[k] = bs[from(k)] /\ cs[j] = bs[from(j)]
      BY <2>3, <2>5
    <3>2. from(k) = from(j) \/ cs[k].name = Untitled
      BY <3>1 DEF Kept, Apart
    <3> QED BY <2>5, <3>2
  <2>7. \A k \in 1 .. Len(bs) - 1 : Droppable(cs[k])
    BY <2>3, <2>5 DEF Kept
  <2>8. Kept(cs)
    BY <2>4, <2>6, <2>7 DEF Kept
  <2> QED BY <1>2, <2>8 DEF cs
<1> QED BY <1>1, <1>2

-----------------------------------------------------------------------------
(***************************************************************************)
(* The steps.                                                              *)
(***************************************************************************)

\* No order of a thread saves all files.
LEMMA SafeOrders ==
    ASSUME Careful
    PROVE  /\ \A key \in Pseudo : Dispatch(key) \in Seq(Safe)
           /\ \A key \in Keys, n \in Reps : Repeated(DispatchKey(key), n) \in Seq(Safe)
           /\ Tracked(<<"put_mouse">>) \in Seq(Safe)
           /\ \A m \in Messages : Handler(m) \in Seq(Safe)
<1>1. ASSUME NEW s \in Seq(Safe)
      PROVE  Tracked(s) \in Seq(Safe)
  <2>1. <<"track_beg">> \in Seq(Safe) /\ <<"track_end">> \in Seq(Safe)
    BY DEF Safe, Plain, Steps, Inner
  <2> QED BY <2>1 DEF Tracked
<1>2. \A key \in Keys \cup Pseudo : Macro[key] \in Seq(Safe)
  <2>1. \A s \in Seq(Commands \ {"SaveAll"}) : s \in Seq(Safe)
    BY DEF Safe, Plain, Steps, Commands
  <2> QED BY <2>1 DEF Careful
<1>3. \A key \in Pseudo : Dispatch(key) \in Seq(Safe)
  BY <1>1, <1>2 DEF Dispatch
<1>4. ASSUME NEW key \in Keys, NEW n \in Reps
      PROVE  Repeated(DispatchKey(key), n) \in Seq(Safe)
  <2>1. Macro["kbBeforeKey"] \o Macro[key] \o Macro["kbAfterKey"] \in Seq(Safe)
    BY <1>2 DEF Pseudo
  <2>2. DispatchKey(key) \in Seq(Safe) /\ EndsTracking(DispatchKey(key))
    BY <1>1, <2>1, DispatchEnds DEF DispatchKey
  <2>3. n \in Nat \ {0}
    BY EditorAssumption DEF EditorAssumption
  <2> QED BY <2>2, <2>3, RepeatedEnds
<1>5. Tracked(<<"put_mouse">>) \in Seq(Safe)
  <2>1. <<"put_mouse">> \in Seq(Safe)
    BY DEF Safe, Plain, Steps, Inner
  <2> QED BY <1>1, <2>1
<1>6. ASSUME NEW m \in Messages
      PROVE  Handler(m) \in Seq(Safe)
  <2>1. m \in {"open", "cursor", "execute"}
    BY EditorAssumption DEF EditorAssumption
  <2>2. <<"OpenFile">> \in Seq(Safe) /\ <<"set_xy">> \in Seq(Safe)
    BY DEF Safe, Plain, Steps, Inner
  <2>3. Dispatch("kbPipe") \in Seq(Safe)
    BY <1>3 DEF Pseudo
  <2> QED BY <2>1, <2>2, <2>3 DEF Handler
<1> QED BY <1>3, <1>4, <1>5, <1>6

\* A thread at work takes its first step and puts r in front of the others.
LEMMA WorkKept ==
    ASSUME IInv, KInv, NEW t \in Threads, Holds(t), todo[t] # <<>>,
           NEW r \in Seq(Asks), Then(t, r) \/ todo' = todo,
           Kept(boxes')
    PROVE  KInv'
<1>1. NoSaveAll'
  <2>1. CASE todo' = todo
    BY <2>1 DEF KInv, NoSaveAll
  <2>2. CASE Then(t, r)
    <3>1. todo[t] \in Seq(Asks) /\ todo \in [Threads -> Seq(Steps)]
      BY DEF KInv, NoSaveAll, IInv, TypeOK, Steps
    <3>2. r \o Tail(todo[t]) \in Seq(Asks)
      BY <3>1
    <3>3. \A u \in Threads : todo'[u] = IF u = t THEN r \o Tail(todo[t]) ELSE todo[u]
      BY <2>2, <3>1 DEF Then
    <3> QED BY <3>2, <3>3 DEF KInv, NoSaveAll
  <2> QED BY <2>1, <2>2
<1> QED BY <1>1 DEF KInv

\* The steps that are safe are steps that ask.
LEMMA SafeSteps ==
    /\ Seq(Safe) \subseteq Seq(Asks)
    /\ <<>> \in Seq(Asks) /\ <<"check_save">> \in Seq(Asks) /\ <<"OpenFile">> \in Seq(Asks)
    /\ <<"close">> \in Seq(Asks)
BY DEF Asks, Safe, Plain, Steps, Inner

\* A file of the list, while a thread is at work.
LEMMA AtWorkKept ==
    ASSUME IInv, KInv, NEW t \in Threads, Holds(t)
    PROVE  /\ boxes \in Seq(Box) /\ Kept(boxes)
           /\ cur \in DOMAIN boxes /\ boxes[cur] \in Box /\ Droppable(boxes[cur])
BY AtWork DEF KInv, Kept

\* Only the current file changes, and keeps its name.
LEMMA CurrentKept ==
    ASSUME IInv, KInv, NEW t \in Threads, Holds(t), todo[t] # <<>>, Then(t, <<>>),
           NEW c, SetCurrent(c), Replaces(boxes[cur], c)
    PROVE  KInv'
<1>1. boxes \in Seq(Box) /\ Kept(boxes) /\ cur \in DOMAIN boxes
  BY AtWorkKept
<1>2. Kept([boxes EXCEPT ![cur] = c])
  BY <1>1, OneKept DEF Replaces
<1> QED BY <1>2, WorkKept, SafeSteps DEF SetCurrent, SetBoxes

\* Editing keeps the invariant.
LEMMA EditsKeep ==
    ASSUME IInv, KInv, NEW t \in Threads, Type(t) \/ PutMouse(t) \/ SetXY(t) \/ Undo(t)
    PROVE  KInv'
<1>1. Holds(t) /\ todo[t] # <<>> /\ Then(t, <<>>)
  BY DEF Type, PutMouse, SetXY, Undo, Takes
<1>2. boxes[cur] \in Box /\ Droppable(boxes[cur])
  BY <1>1, AtWorkKept
<1>3. CASE Type(t)
  BY <1>1, <1>2, <1>3, EditsReplace, CurrentKept DEF Type
<1>4. CASE PutMouse(t) \/ SetXY(t)
  BY <1>1, <1>2, <1>4, NotesReplace, CurrentKept DEF PutMouse, SetXY
<1>5. CASE Undo(t)
  <2>1. PICK c : SetCurrent(c) /\ Replaces(boxes[cur], c)
    BY <1>2, <1>5, TracksReplace DEF Undo
  <2> QED BY <1>1, <2>1, CurrentKept
<1> QED BY <1>3, <1>4, <1>5

\* So does the tracking.
LEMMA TracksKeep ==
    ASSUME IInv, KInv, NEW t \in Threads, TrackBeg(t) \/ TrackEnd(t) \/ NextFile(t)
    PROVE  KInv'
<1>1. Holds(t) /\ todo[t] # <<>> /\ Then(t, <<>>)
  BY DEF TrackBeg, TrackEnd, NextFile, Takes
<1>2. boxes \in Seq(Box) /\ Kept(boxes)
  BY <1>1, AtWorkKept
<1>3. ASSUME DOMAIN boxes' = DOMAIN boxes, \A i \in DOMAIN boxes : Replaces(boxes[i], boxes'[i])
      PROVE  Kept(boxes')
  BY <1>2, <1>3 DEF Kept, Apart, Replaces
<1>4. \A i \in DOMAIN boxes : Replaces(boxes[i], Begun(boxes[i])) /\ Replaces(boxes[i], Ended(boxes[i]))
  BY <1>2, TracksReplace DEF Kept
<1>5. Kept(boxes')
  <2>1. CASE TrackBeg(t)
    BY <1>3, <1>4, <2>1 DEF TrackBeg, SetBoxes
  <2>2. CASE TrackEnd(t)
    BY <1>3, <1>4, <2>2 DEF TrackEnd, SetBoxes
  <2>3. CASE NextFile(t)
    BY <1>2, <2>3 DEF NextFile
  <2> QED BY <2>1, <2>2, <2>3
<1> QED BY <1>1, <1>5, WorkKept, SafeSteps

\* A file is opened under a name no open file has.
LEMMA OpensKeep ==
    ASSUME Careful, IInv, KInv, NEW t \in Threads, New(t) \/ Load(t) \/ OpenFile(t)
    PROVE  KInv'
<1>1. Holds(t) /\ todo[t] # <<>>
  BY DEF New, Load, OpenFile, Takes
<1>2. boxes \in Seq(Box) /\ Kept(boxes) /\ cur \in DOMAIN boxes
  BY <1>1, AtWorkKept
<1>3. PICK r \in Seq(Asks) : Then(t, r)
  <2>1. Dispatch("kbOpen") \in Seq(Asks)
    BY SafeOrders, SafeSteps DEF Pseudo
  <2> QED BY <2>1, SafeSteps DEF New, Load, OpenFile
<1>4. CASE New(t)
  <2>1. Kept(boxes')
    BY <1>2, <1>4, AppendedKept, NewDroppable, NewBoxes DEF New
  <2> QED BY <1>1, <1>3, <2>1, WorkKept
<1>5. CASE Load(t)
  BY <1>1, <1>2, <1>3, <1>5, WorkKept DEF Load, files
<1>6. CASE OpenFile(t)
  <2>1. CASE UNCHANGED boxes
    BY <1>1, <1>2, <1>3, <2>1, WorkKept
  <2>2. CASE ~UNCHANGED boxes
    <3>1. PICK name \in Names, exists \in BOOLEAN :
             /\ \A i \in DOMAIN boxes : boxes[i].name # name
             /\ \/ boxes' = Append(boxes, Loaded(name, exists))
                \/ boxes' = [boxes EXCEPT ![cur] = Loaded(name, exists)]
      BY <1>6, <2>2 DEF OpenFile
    <3> DEFINE c == Loaded(name, exists)
    <3>2. c \in Box /\ Droppable(c) /\ c.name = name
      BY NewBoxes, NewDroppable
    <3> HIDE DEF c
    <3>3. Kept(Append(boxes, c)) /\ Kept([boxes EXCEPT ![cur] = c])
      BY <1>2, <3>1, <3>2, AppendedKept, OneKept
    <3>4. Kept(boxes')
      BY <3>1, <3>3 DEF c
    <3> QED BY <1>1, <1>3, <3>4, WorkKept
  <2> QED BY <2>1, <2>2
<1> QED BY <1>4, <1>5, <1>6

\* A file gets a name no other open file has, and may be saved under it.
LEMMA NamesKept ==
    ASSUME Careful, boxes \in Seq(Box), Kept(boxes), cur \in DOMAIN boxes, NEW t \in Threads
    PROVE  /\ boxes[cur].name # Untitled => Kept(Saved(boxes, cur, t))
           /\ \A name \in NewNames(cur) : /\ Kept(NamedAt(cur, t, name))
                                          /\ Kept(Saved(NamedAt(cur, t, name), cur, t))
<1>1. boxes[cur].name # Untitled => Kept(Saved(boxes, cur, t))
  BY SavedKept
<1>2. ASSUME NEW name \in NewNames(cur)
      PROVE  /\ Kept(NamedAt(cur, t, name))
             /\ Kept(Saved(NamedAt(cur, t, name), cur, t))
  <2> DEFINE c == Named(boxes[cur], t, name)
             bs == [boxes EXCEPT ![cur] = c]
  <2>1. name \in Names /\ name # Untitled /\ \A k \in DOMAIN boxes \ {cur} : boxes[k].name # name
    BY EditorAssumption DEF NewNames, Careful, Untitled, EditorAssumption
  <2>2. boxes[cur] \in Box /\ Droppable(boxes[cur])
    BY DEF Kept
  <2>3. c \in Box /\ Droppable(c) /\ c.name = name
    BY <2>1, <2>2, EditsReplace
  <2> HIDE DEF c
  <2>4. Kept(bs) /\ bs \in Seq(Box) /\ cur \in DOMAIN bs /\ bs[cur] = c
    <3>1. bs \in Seq(Box) /\ cur \in DOMAIN bs /\ bs[cur] = c
      BY <2>3, ExceptSeq
    <3> QED BY <2>1, <2>3, <3>1, OneKept
  <2>5. NamedAt(cur, t, name) = bs
    BY DEF NamedAt, c
  <2> HIDE DEF bs
  <2>6. Kept(Saved(bs, cur, t))
    BY <2>1, <2>3, <2>4, SavedKept
  <2> QED BY <2>4, <2>5, <2>6
<1> QED BY <1>1, <1>2

\* So does saving.
LEMMA SaveKept ==
    ASSUME Careful, IInv, KInv, NEW t \in Threads, Save(t)
    PROVE  KInv'
<1>1. Holds(t) /\ todo[t] # <<>> /\ Then(t, <<>>)
  BY DEF Save, Takes
<1>2. boxes \in Seq(Box) /\ Kept(boxes) /\ cur \in DOMAIN boxes
  BY <1>1, AtWorkKept
<1>3. Kept(boxes')
  BY <1>2, NamesKept DEF Save
<1> QED BY <1>1, <1>3, WorkKept, SafeSteps

\* No thread ever comes to save all files.
LEMMA SaveAllNever ==
    ASSUME KInv, NEW t \in Threads
    PROVE  ~SaveAll(t)
<1>1. SUFFICES ASSUME SaveAll(t) PROVE FALSE
  OBVIOUS
<1>2. todo[t] \in Seq(Asks) /\ todo[t] # <<>> /\ Head(todo[t]) = "SaveAll"
  BY <1>1 DEF KInv, NoSaveAll, SaveAll, Takes
<1>3. Head(todo[t]) \in Asks
  BY <1>2
<1> QED BY <1>2, <1>3 DEF Asks, Safe

\* Closing: the file is saved and may go, or the user was asked.
LEMMA ClosesKeep ==
    ASSUME Careful, IInv, KInv, NEW t \in Threads, Close(t) \/ Drop(t)
    PROVE  KInv'
<1>1. Holds(t) /\ todo[t] # <<>>
  BY DEF Close, Drop, Takes
<1>2. boxes \in Seq(Box) /\ Kept(boxes) /\ cur \in DOMAIN boxes
  BY <1>1, AtWorkKept
<1>3. CASE Close(t)
  <2>1. Dispatch("kbClose") \in Seq(Asks)
    BY SafeOrders, SafeSteps DEF Pseudo
  <2>2. Dispatch("kbClose") \o <<"close">> \in Seq(Asks)
    BY <2>1, SafeSteps
  <2> QED BY <1>1, <1>2, <1>3, <2>2, WorkKept DEF Close, files
<1>4. CASE Drop(t)
  <2>1. Kept(boxes')
    BY <1>2, <1>4, RemovedKept DEF Drop, RemoveBox, files
  <2> QED BY <1>1, <1>4, <2>1, WorkKept, SafeSteps DEF Drop
<1> QED BY <1>3, <1>4

\* Exit: a file is saved under its own name, or the user was asked about it.
LEMMA ExitKept ==
    ASSUME Careful, IInv, KInv, NEW t \in Threads, Exit(t) \/ CheckSave(t) \/ ExitCancelled(t) \/ Abort(t)
    PROVE  KInv'
<1>1. Holds(t) /\ todo[t] # <<>>
  BY DEF Exit, CheckSave, ExitCancelled, Abort, Takes
<1>2. /\ boxes \in Seq(Box) /\ Kept(boxes)
      /\ cur \in DOMAIN boxes /\ boxes[cur] \in Box /\ Droppable(boxes[cur])
  BY <1>1, AtWorkKept
<1>3. \E r \in Seq(Asks) : Then(t, r) \/ todo' = todo
  BY SafeSteps DEF Exit, CheckSave, ExitCancelled, Abort, AskNext
<1>4. Kept(boxes')
  <2>1. CASE Exit(t) \/ Abort(t)
    BY <1>2, <2>1 DEF Exit, Abort, files
  <2>2. CASE ExitCancelled(t)
    BY <1>2, <2>2, NamesKept DEF ExitCancelled
  <2>3. CASE CheckSave(t)
    <3>1. Kept([boxes EXCEPT ![cur] = Asked(@)])
      BY <1>2, EditsReplace, OneKept DEF Replaces
    <3> QED BY <1>2, <2>3, <3>1, NamesKept DEF CheckSave, AskNext
  <2> QED BY <2>1, <2>2, <2>3
<1> QED BY <1>1, <1>3, <1>4, WorkKept

-----------------------------------------------------------------------------
\* Without the mutex a thread changes no file, and asks for safe steps only.
LEMMA OutsideKept ==
    ASSUME KInv, NEW t \in Threads, UNCHANGED files, todo \in [Threads -> Seq(Steps)],
           todo' = todo \/ \E s \in Seq(Safe) : todo' = [todo EXCEPT ![t] = s]
    PROVE  KInv'
<1>1. NoSaveAll'
  BY SafeSteps DEF KInv, NoSaveAll
<1> QED BY <1>1 DEF KInv, files

\* So do the loops.
LEMMA LoopsKept ==
    ASSUME Careful, IInv, KInv,
           \/ MainTest \/ MainDraw \/ MainLeave \/ Done \/ Outside
           \/ TimerTick \/ MouseWait \/ PipeWait \/ \E u \in {"timer", "mouse", "pipe"} : Leave(u)
           \/ \E u \in Threads : Lock(u) \/ Unlock(u)
    PROVE  KInv'
<1>1. todo \in [Threads -> Seq(Steps)]
  BY DEF IInv, TypeOK, Steps
<1>2. CASE MainTest \/ MainDraw \/ Done
  BY <1>1, <1>2, OutsideKept DEF MainTest, MainDraw, Done, Threads
<1>3. CASE MouseWait \/ PipeWait
  BY <1>1, <1>3, OutsideKept DEF MouseWait, PipeWait, Threads
<1>4. ASSUME NEW u \in {"timer", "mouse", "pipe"}, Leave(u)
      PROVE  KInv'
  BY <1>1, <1>4, OutsideKept DEF Leave, Threads
<1>5. CASE MainLeave
  <2>1. Dispatch("kbDone") \in Seq(Safe)
    BY SafeOrders DEF Pseudo
  <2> QED BY <1>1, <1>5, <2>1, OutsideKept DEF MainLeave, Threads
<1>6. CASE MainRead
  <2>1. PICK key \in Keys, n \in Reps : Ask("main", Repeated(DispatchKey(key), n))
    BY <1>6 DEF MainRead
  <2>2. Repeated(DispatchKey(key), n) \in Seq(Safe)
    BY SafeOrders
  <2> QED BY <1>1, <1>6, <2>1, <2>2, OutsideKept DEF MainRead, Ask, Threads
<1>7. CASE TimerTick
  <2>1. PICK key \in {"kbTimer", "kbActivate"} : Ask("timer", Dispatch(key))
    BY <1>7 DEF TimerTick
  <2>2. Dispatch(key) \in Seq(Safe)
    BY SafeOrders DEF Pseudo
  <2> QED BY <1>1, <1>7, <2>1, <2>2, OutsideKept DEF TimerTick, Ask, Threads
<1>8. CASE MouseEvent
  <2>1. Tracked(<<"put_mouse">>) \in Seq(Safe)
    BY SafeOrders
  <2> QED BY <1>1, <1>8, <2>1, OutsideKept DEF MouseEvent, Ask, Threads
<1>9. CASE PipeMessage
  <2>1. CASE shutdown
    BY <1>1, <1>9, <2>1, OutsideKept DEF PipeMessage, Threads
  <2>2. CASE ~shutdown
    <3>1. PICK m \in Messages : Ask("pipe", Handler(m))
      BY <1>9, <2>2 DEF PipeMessage
    <3>2. Handler(m) \in Seq(Safe)
      BY SafeOrders
    <3> QED BY <1>1, <1>9, <3>1, <3>2, OutsideKept DEF PipeMessage, Ask, Threads
  <2> QED BY <2>1, <2>2
<1>10. ASSUME NEW u \in Threads, Lock(u) \/ Unlock(u)
       PROVE  KInv'
  <2>1. UNCHANGED files /\ todo' = todo
    BY <1>10 DEF Lock, Unlock
  <2> QED BY <1>1, <2>1, OutsideKept
<1> QED BY <1>2, <1>3, <1>4, <1>5, <1>6, <1>7, <1>8, <1>9, <1>10 DEF Outside

\* So does removing all files.
LEMMA RemovalKept ==
    ASSUME KInv, DoneRemoveAll
    PROVE  KInv'
<1>1. boxes' = <<>> /\ todo' = todo
  BY DEF DoneRemoveAll
<1>2. DOMAIN boxes' = {}
  BY <1>1
<1> QED BY <1>1, <1>2 DEF KInv, Kept, Apart, NoSaveAll

\* It holds at the start
LEMMA InitKept == ASSUME Careful PROVE Init => KInv
<1> SUFFICES ASSUME Init PROVE KInv
  OBVIOUS
<1>1. boxes = <<Fresh>>
  BY DEF Init
<1>2. DOMAIN boxes = {1} /\ boxes[1] = Fresh
  BY <1>1
<1>3. Kept(boxes)
  BY <1>2, NewDroppable DEF Kept, Apart
<1>4. Dispatch("kbInit") \in Seq(Asks)
  BY SafeOrders, SafeSteps DEF Pseudo
<1>5. NoSaveAll
  BY <1>4, SafeSteps DEF NoSaveAll, Init
<1> QED BY <1>3, <1>5 DEF KInv

\* and every step keeps it,
LEMMA NextKept == ASSUME Careful PROVE IInv /\ KInv /\ [Next]_vars => KInv'
<1> SUFFICES ASSUME IInv, KInv, [Next]_vars PROVE KInv'
  OBVIOUS
<1>1. ASSUME NEW t \in Threads, Step(t)
      PROVE  KInv'
  BY <1>1, LoopsKept, EditsKeep, TracksKeep, OpensKeep, SaveKept, SaveAllNever, ClosesKeep, ExitKept DEF Step
<1>2. CASE UNCHANGED vars
  BY <1>2 DEF vars, files, KInv, NoSaveAll
<1>3. CASE Main
  BY <1>1, <1>3, LoopsKept, RemovalKept DEF Main, Threads
<1>4. CASE Timer \/ Mouse \/ Pipe \/ Outside
  BY <1>1, <1>4, LoopsKept DEF Timer, Mouse, Pipe, Threads
<1> QED BY <1>2, <1>3, <1>4 DEF Next, Over

\* so it holds always.
LEMMA KeptAlways == ASSUME Careful PROVE Spec => []KInv
<1>1. Init => KInv
  BY InitKept
<1>2. IInv /\ KInv /\ [Next]_vars => KInv'
  BY NextKept
<1> QED BY <1>1, <1>2, InvariantHolds, PTL DEF Spec

-----------------------------------------------------------------------------
\* A file that says it is saved is on disk as it is, is empty, or the user was
\* asked about it, whatever is typed, undone, named, written and closed by the
\* threads (set_name and save of EditBox, undo of Buffer).
THEOREM SavedAlwaysKept == ASSUME Careful PROVE Spec => []SavedIsKept
<1>1. KInv => SavedIsKept
  BY DEF KInv, Kept, Droppable, SavedIsKept
<1> QED BY <1>1, KeptAlways, PTL

-----------------------------------------------------------------------------
(***************************************************************************)
(* Every change of a text is in its undo log, for every key table in which *)
(* no command that ends tracking, or that cancels it, comes before a       *)
(* change in the same macro, and none changes a text and undoes.           *)
(***************************************************************************)
\* After these a file may not track: what they call ends tracking, or they add
\* a file that does not track yet, or they cancel it.
Breakers == {"New", "Load", "OpenFile", "Close", "close", "Undo", "track_end"}

\* Between a breaker and a later change tracking begins again.
Covered(s) ==
    \A i, j \in DOMAIN s : i < j /\ s[i] \in Breakers /\ s[j] = "Type" =>
        \E k \in DOMAIN s : i < k /\ k < j /\ s[k] = "track_beg"

\* Between a change and a later undo tracking ends.
Parted(s) ==
    \A i, j \in DOMAIN s : i < j /\ s[i] = "Type" /\ s[j] = "Undo" =>
        \E k \in DOMAIN s : i < k /\ k < j /\ s[k] = "track_end"

Tidy == /\ \A key \in Pseudo : Covered(Dispatch(key)) /\ Parted(Dispatch(key))
        /\ \A key \in Keys, n \in Reps :
              LET steps == Repeated(DispatchKey(key), n) IN Covered(steps) /\ Parted(steps)
        /\ \A key \in {"kbOpen", "kbClose"} : Macro[key] \in Seq(Commands \ {"Undo"})

\* A change comes before tracking begins the next time.
Typing(s) == \E j \in DOMAIN s : s[j] = "Type" /\ \A k \in DOMAIN s : k < j => s[k] # "track_beg"

\* Before every undo tracking ends.
EndsFirst(s) == \A j \in DOMAIN s : s[j] = "Undo" => \E k \in DOMAIN s : k < j /\ s[k] = "track_end"

HasText(b)   == \E t \in Threads : <<t, "text">> \in b.head
AnyText(bs)  == \E i \in DOMAIN bs : HasText(bs[i])
AllTrack(bs) == \A i \in DOMAIN bs : bs[i].tracks
AllNoted(bs) == \A i \in DOMAIN bs : ~bs[i].unnoted

\* what a thread has to do is tidy;
Wary == \A t \in Threads : Covered(todo[t]) /\ Parted(todo[t])
\* all files track when it comes to a change;
TracksToType == \A t \in Threads : Typing(todo[t]) => Holds(t) /\ AllTrack(boxes)
\* and it does not come to an undo when a change was noted in the same log.
EndsToUndo == \A t \in Threads : Holds(t) /\ AnyText(boxes) => EndsFirst(todo[t])

NInv == AllNoted(boxes) /\ Wary /\ TracksToType /\ EndsToUndo

-----------------------------------------------------------------------------
(***************************************************************************)
(* Sequences of steps.                                                     *)
(***************************************************************************)

\* What a command calls begins tracking before it changes a text and ends it
\* afterwards, and does not undo.
Called(r) == /\ r \in Seq(Steps) /\ Covered(r)
             /\ \A i \in DOMAIN r : r[i] # "Undo"
             /\ \A i \in DOMAIN r : r[i] = "Type" => \E k \in DOMAIN r : k < i /\ r[k] = "track_beg"
             /\ \A i \in DOMAIN r : r[i] = "Type" => \E k \in DOMAIN r : k > i /\ r[k] = "track_end"

\* A call put in front of the rest keeps the order of the steps.
LEMMA CallsKeepOrder ==
    ASSUME NEW s \in Seq(Steps), s # <<>>, NEW r, Called(r),
           Head(s) \in Breakers \/ \A i \in DOMAIN r : r[i] \notin Breakers
    PROVE  LET q == r \o Tail(s)
           IN /\ q \in Seq(Steps)
              /\ Covered(s) => Covered(q)
              /\ Parted(s) => Parted(q)
              /\ Covered(s) /\ Typing(q) /\ Head(s) # "track_beg" => Typing(s) /\ Head(s) \notin Breakers
              /\ Parted(s) /\ Head(s) = "Type" => EndsFirst(q)
              /\ EndsFirst(s) /\ Head(s) # "track_end" => EndsFirst(q)
<1> DEFINE q == r \o Tail(s)
           m == Len(r)
           n == Len(s)
<1>1. r \in Seq(Steps)
  BY DEF Called
<1>2. /\ q \in Seq(Steps)
      /\ DOMAIN q = 1 .. m + n - 1 /\ DOMAIN s = 1 .. n /\ DOMAIN r = 1 .. m
      /\ \A i \in DOMAIN r : q[i] = r[i]
      /\ \A i \in 2 .. n : q[m + i - 1] = s[i]
      /\ m \in Nat /\ n \in Nat /\ n # 0 /\ Head(s) = s[1]
  BY <1>1, PartsInFront
<1> HIDE DEF q, m, n
\* where a step of q comes from, and where one of s goes
<1>3. ASSUME NEW j \in DOMAIN q
      PROVE  \/ j <= m /\ j \in DOMAIN r /\ q[j] = r[j]
             \/ j > m /\ j - m + 1 \in DOMAIN s /\ j - m + 1 > 1 /\ q[j] = s[j - m + 1]
  <2>1. CASE j <= m
    BY <1>2, <2>1
  <2>2. CASE ~(j <= m)
    <3>1. j - m + 1 \in 2 .. n /\ m + (j - m + 1) - 1 = j
      BY <1>2, <2>2
    <3> QED BY <1>2, <2>2, <3>1
  <2> QED BY <2>1, <2>2
<1>4. ASSUME NEW k \in DOMAIN s, k > 1
      PROVE  m + k - 1 \in DOMAIN q /\ q[m + k - 1] = s[k] /\ m + k - 1 > m
  BY <1>2, <1>4
\* a step of s between two places is between the same places of q
<1>5. ASSUME NEW step, NEW i \in DOMAIN s, NEW j \in DOMAIN q, j > m,
             \E k \in DOMAIN s : i < k /\ k < j - m + 1 /\ s[k] = step
      PROVE  \E k \in DOMAIN q : k > m /\ m + i - 1 < k /\ k < j /\ q[k] = step
  <2>1. PICK k \in DOMAIN s : i < k /\ k < j - m + 1 /\ s[k] = step
    BY <1>5
  <2>2. k > 1
    BY <1>2, <2>1
  <2>3. m + k - 1 \in DOMAIN q /\ m + k - 1 > m /\ m + i - 1 < m + k - 1 /\ m + k - 1 < j /\ q[m + k - 1] = step
    BY <1>2, <1>4, <2>1, <2>2
  <2> QED BY <2>3, Zenon
<1>6. Covered(s) => Covered(q)
  <2>1. SUFFICES ASSUME Covered(s), NEW i \in DOMAIN q, NEW j \in DOMAIN q,
                        i < j, q[i] \in Breakers, q[j] = "Type"
                 PROVE  \E k \in DOMAIN q : i < k /\ k < j /\ q[k] = "track_beg"
    BY DEF Covered
  <2>2. CASE j <= m
    <3>1. i \in DOMAIN r /\ j \in DOMAIN r /\ r[i] \in Breakers /\ r[j] = "Type"
      BY <1>2, <1>3, <2>1, <2>2
    <3>2. PICK k \in DOMAIN r : i < k /\ k < j /\ r[k] = "track_beg"
      BY <2>1, <3>1 DEF Called, Covered
    <3>3. k \in DOMAIN q /\ q[k] = "track_beg"
      BY <1>2, <2>2, <3>2
    <3> QED BY <3>2, <3>3
  <2>3. CASE j > m /\ i > m
    <3>1. /\ i - m + 1 \in DOMAIN s /\ s[i - m + 1] \in Breakers
          /\ j - m + 1 \in DOMAIN s /\ s[j - m + 1] = "Type" /\ i - m + 1 < j - m + 1
      BY <1>2, <1>3, <2>1, <2>3
    <3>2. \E k \in DOMAIN s : i - m + 1 < k /\ k < j - m + 1 /\ s[k] = "track_beg"
      BY <2>1, <3>1 DEF Covered
    <3>3. PICK k \in DOMAIN q : k > m /\ m + (i - m + 1) - 1 < k /\ k < j /\ q[k] = "track_beg"
      BY <1>5, <2>3, <3>1, <3>2, Zenon
    <3> QED BY <1>2, <3>3
  <2>4. CASE j > m /\ i <= m
    <3>1. Head(s) \in Breakers
      BY <1>3, <1>2, <2>1, <2>4
    <3>2. /\ 1 \in DOMAIN s /\ s[1] \in Breakers
          /\ j - m + 1 \in DOMAIN s /\ s[j - m + 1] = "Type" /\ 1 < j - m + 1
      BY <1>2, <1>3, <2>1, <2>4, <3>1
    <3>3. \E k \in DOMAIN s : 1 < k /\ k < j - m + 1 /\ s[k] = "track_beg"
      BY <2>1, <3>2 DEF Covered
    <3>4. PICK k \in DOMAIN q : k > m /\ m + 1 - 1 < k /\ k < j /\ q[k] = "track_beg"
      BY <1>5, <2>4, <3>2, <3>3, Zenon
    <3> QED BY <1>2, <2>4, <3>4
  <2> QED BY <1>2, <2>2, <2>3, <2>4
<1>7. Parted(s) => Parted(q)
  <2>1. SUFFICES ASSUME Parted(s), NEW i \in DOMAIN q, NEW j \in DOMAIN q,
                        i < j, q[i] = "Type", q[j] = "Undo"
                 PROVE  \E k \in DOMAIN q : i < k /\ k < j /\ q[k] = "track_end"
    BY DEF Parted
  <2>2. j > m /\ j - m + 1 \in DOMAIN s /\ s[j - m + 1] = "Undo"
    BY <1>3, <2>1 DEF Called
  <2>3. CASE i > m
    <3>1. i - m + 1 \in DOMAIN s /\ s[i - m + 1] = "Type" /\ i - m + 1 < j - m + 1
      BY <1>2, <1>3, <2>1, <2>3
    <3>2. \E k \in DOMAIN s : i - m + 1 < k /\ k < j - m + 1 /\ s[k] = "track_end"
      BY <2>1, <2>2, <3>1 DEF Parted
    <3>3. PICK k \in DOMAIN q : k > m /\ m + (i - m + 1) - 1 < k /\ k < j /\ q[k] = "track_end"
      BY <1>5, <2>2, <3>1, <3>2, Zenon
    <3> QED BY <1>2, <3>3
  <2>4. CASE i <= m
    <3>1. i \in DOMAIN r /\ r[i] = "Type"
      BY <1>2, <1>3, <2>1, <2>4
    <3>2. PICK k \in DOMAIN r : k > i /\ r[k] = "track_end"
      BY <3>1 DEF Called
    <3>3. k \in DOMAIN q /\ q[k] = "track_end" /\ k < j
      BY <1>2, <2>2, <3>2
    <3> QED BY <3>2, <3>3
  <2> QED BY <1>2, <2>3, <2>4
<1>8. ASSUME Covered(s), Typing(q), Head(s) # "track_beg"
      PROVE  Typing(s) /\ Head(s) \notin Breakers
  <2>1. PICK j \in DOMAIN q : q[j] = "Type" /\ \A k \in DOMAIN q : k < j => q[k] # "track_beg"
    BY <1>8 DEF Typing
  <2>2. j > m
    <3>1. SUFFICES ASSUME j <= m PROVE FALSE
      BY <1>3
    <3>2. PICK k \in DOMAIN r : k < j /\ r[k] = "track_beg"
      <4>1. j \in DOMAIN r /\ r[j] = "Type"
        BY <1>2, <1>3, <2>1, <3>1
      <4> QED BY <4>1 DEF Called
    <3>3. k \in DOMAIN q /\ q[k] = "track_beg"
      BY <1>2, <3>1, <3>2
    <3> QED BY <2>1, <3>2, <3>3
  <2>3. /\ j - m + 1 \in DOMAIN s /\ j - m + 1 > 1 /\ s[j - m + 1] = "Type" /\ 1 \in DOMAIN s
    BY <1>2, <1>3, <2>1, <2>2
  <2>4. ~\E k \in DOMAIN s : 1 < k /\ k < j - m + 1 /\ s[k] = "track_beg"
    <3>1. ASSUME \E k \in DOMAIN s : 1 < k /\ k < j - m + 1 /\ s[k] = "track_beg"
          PROVE  FALSE
      <4>1. PICK k \in DOMAIN q : k > m /\ m + 1 - 1 < k /\ k < j /\ q[k] = "track_beg"
        BY <1>5, <2>2, <2>3, <3>1, Zenon
      <4> QED BY <2>1, <4>1
    <3> QED BY <3>1
  <2>5. ASSUME NEW k \in DOMAIN s, k < j - m + 1
        PROVE  s[k] # "track_beg"
    BY <1>2, <1>8, <2>4, <2>5
  <2>6. Typing(s)
    BY <2>3, <2>5 DEF Typing
  <2>7. Head(s) \notin Breakers
    BY <1>2, <1>8, <2>3, <2>4 DEF Covered
  <2> QED BY <2>6, <2>7
<1>9. ASSUME Head(s) # "track_end", NEW j \in DOMAIN q, q[j] = "Undo",
             \E k \in DOMAIN s : k < j - m + 1 /\ s[k] = "track_end"
      PROVE  \E k \in DOMAIN q : k < j /\ q[k] = "track_end"
  <2>1. PICK k \in DOMAIN s : k < j - m + 1 /\ s[k] = "track_end"
    BY <1>9
  <2>2. k > 1
    BY <1>2, <1>9, <2>1
  <2>3. m + k - 1 \in DOMAIN q /\ m + k - 1 < j /\ q[m + k - 1] = "track_end"
    BY <1>2, <1>4, <2>1, <2>2
  <2> QED BY <2>3, Zenon
<1>10. \A j \in DOMAIN q : q[j] = "Undo" => /\ j - m + 1 \in DOMAIN s /\ j - m + 1 > 1
                                            /\ s[j - m + 1] = "Undo"
  BY <1>3 DEF Called
<1>11. ASSUME Parted(s), Head(s) = "Type"
       PROVE  EndsFirst(q)
  <2>1. SUFFICES ASSUME NEW j \in DOMAIN q, q[j] = "Undo"
                 PROVE  \E k \in DOMAIN q : k < j /\ q[k] = "track_end"
    BY DEF EndsFirst
  <2>2. 1 \in DOMAIN s /\ s[1] = "Type" /\ j - m + 1 \in DOMAIN s /\ j - m + 1 > 1 /\ s[j - m + 1] = "Undo"
    BY <1>2, <1>10, <1>11, <2>1
  <2>3. \E k \in DOMAIN s : k < j - m + 1 /\ s[k] = "track_end"
    BY <1>11, <2>2 DEF Parted
  <2> QED BY <1>9, <1>11, <2>1, <2>3
<1>12. ASSUME EndsFirst(s), Head(s) # "track_end"
       PROVE  EndsFirst(q)
  BY <1>9, <1>10, <1>12 DEF EndsFirst
<1> QED BY <1>2, <1>6, <1>7, <1>8, <1>11, <1>12 DEF q

\* What tracking of every kind calls: a Dispatcher begins and ends tracking.
LEMMA DispatchTracks ==
    ASSUME NEW s \in Seq(Steps)
    PROVE  LET q == Tracked(s)
           IN /\ q \in Seq(Steps) /\ q # <<>> /\ q[1] = "track_beg" /\ ~Typing(q)
              /\ DOMAIN q = 1 .. Len(s) + 2 /\ Len(s) \in Nat /\ q[Len(s) + 2] = "track_end"
              /\ \A i \in 1 .. Len(s) : q[i + 1] = s[i]
<1> DEFINE q == Tracked(s)
           p == <<"track_beg">> \o s
<1>1. <<"track_beg">> \in Seq(Steps) /\ <<"track_end">> \in Seq(Steps)
  BY DEF Steps, Inner
<1>2. /\ p \in Seq(Steps) /\ Len(p) = Len(s) + 1 /\ Len(s) \in Nat /\ p[1] = "track_beg"
      /\ \A i \in 1 .. Len(s) : p[i + 1] = s[i]
  BY <1>1
<1> HIDE DEF p
<1>3. /\ p \o <<"track_end">> \in Seq(Steps) /\ Len(p \o <<"track_end">>) = Len(s) + 2
      /\ \A i \in 1 .. Len(p) : (p \o <<"track_end">>)[i] = p[i]
      /\ (p \o <<"track_end">>)[Len(s) + 2] = "track_end"
  BY <1>1, <1>2
<1>4. q = p \o <<"track_end">>
  BY DEF Tracked, p
<1> HIDE DEF q
<1>5. /\ q \in Seq(Steps) /\ DOMAIN q = 1 .. Len(s) + 2 /\ q # <<>> /\ q[1] = "track_beg"
      /\ q[Len(s) + 2] = "track_end" /\ \A i \in 1 .. Len(s) : q[i + 1] = s[i]
  BY <1>2, <1>3, <1>4
<1>6. ~Typing(q)
  <2>1. SUFFICES ASSUME NEW j \in DOMAIN q, q[j] = "Type", \A k \in DOMAIN q : k < j => q[k] # "track_beg"
                 PROVE  FALSE
    BY DEF Typing
  <2> QED BY <1>2, <1>5, <2>1
<1> QED BY <1>2, <1>5, <1>6 DEF q

\* What the commands put in front of the other steps.
LEMMA Calls ==
    ASSUME Tidy
    PROVE  /\ Called(<<>>) /\ Called(<<"check_save">>) /\ Called(<<"OpenFile">>)
           /\ Called(Dispatch("kbOpen")) /\ Called(Dispatch("kbClose") \o <<"close">>)
<1>1. ASSUME NEW e \in {"check_save", "OpenFile"}
      PROVE  Called(<<e>>)
  <2>1. e \in Steps
    BY DEF Steps, Inner
  <2>2. <<e>> \in Seq(Steps) /\ DOMAIN <<e>> = {1} /\ <<e>>[1] = e
    BY <2>1
  <2> QED BY <2>2 DEF Called, Covered
<1>2. Called(<<>>)
  BY DEF Called, Covered
<1>3. ASSUME NEW key \in {"kbOpen", "kbClose"}
      PROVE  /\ Called(Dispatch(key)) /\ Dispatch(key) # <<>>
             /\ \E n \in DOMAIN Dispatch(key) : \A i \in DOMAIN Dispatch(key) : i <= n
  <2> DEFINE s == Macro[key]
             q == Dispatch(key)
  <2>1. s \in Seq(Commands \ {"Undo"}) /\ key \in Pseudo /\ Covered(q)
    BY DEF Tidy, Pseudo
  <2>2. s \in Seq(Steps) /\ \A i \in 1 .. Len(s) : s[i] # "Undo" /\ s[i] \in Commands
    BY <2>1 DEF Steps
  <2> HIDE DEF s
  <2>3. /\ q \in Seq(Steps) /\ q # <<>> /\ q[1] = "track_beg"
        /\ DOMAIN q = 1 .. Len(s) + 2 /\ Len(s) \in Nat /\ q[Len(s) + 2] = "track_end"
        /\ \A i \in 1 .. Len(s) : q[i + 1] = s[i]
    BY <2>2, DispatchTracks DEF Dispatch, s
  <2> HIDE DEF q
  <2>4. \A i \in DOMAIN q : \/ i = 1 \/ i = Len(s) + 2
                            \/ i - 1 \in 1 .. Len(s) /\ i > 1 /\ i < Len(s) + 2 /\ q[i] = s[i - 1]
    <3>1. ASSUME NEW i \in DOMAIN q, i # 1, i # Len(s) + 2
          PROVE  i - 1 \in 1 .. Len(s) /\ i > 1 /\ i < Len(s) + 2 /\ q[i] = s[i - 1]
      <4>1. i - 1 \in 1 .. Len(s) /\ (i - 1) + 1 = i /\ i > 1 /\ i < Len(s) + 2
        BY <2>3, <3>1
      <4>2. q[(i - 1) + 1] = s[i - 1]
        BY <2>3, <4>1
      <4> QED BY <4>1, <4>2
    <3> QED BY <3>1
  <2>5. \A i \in DOMAIN q : q[i] # "Undo"
    BY <2>2, <2>3, <2>4
  <2>6. \A i \in DOMAIN q : q[i] = "Type" => i > 1 /\ i < Len(s) + 2
    BY <2>3, <2>4
  <2>7. 1 \in DOMAIN q /\ Len(s) + 2 \in DOMAIN q
    BY <2>3
  <2>8. Called(q)
    BY <2>1, <2>3, <2>5, <2>6, <2>7 DEF Called
  <2>9. \A i \in DOMAIN q : i <= Len(s) + 2
    BY <2>3
  <2> QED BY <2>3, <2>7, <2>8, <2>9 DEF q
<1>4. Called(Dispatch("kbClose") \o <<"close">>)
  <2> DEFINE d == Dispatch("kbClose")
             q == d \o <<"close">>
             n == Len(d)
  <2>1. Called(d)
    BY <1>3
  <2>2. d \in Seq(Steps) /\ <<"close">> \in Seq(Steps)
    BY <2>1 DEF Called, Steps, Inner
  <2> HIDE DEF d
  <2>3. /\ q \in Seq(Steps) /\ DOMAIN q = 1 .. n + 1 /\ DOMAIN d = 1 .. n /\ n \in Nat
        /\ \A i \in 1 .. n : q[i] = d[i]
        /\ q[n + 1] = "close"
    BY <2>2
  <2> HIDE DEF q, n
  <2>4. \A i \in DOMAIN q : (i \in DOMAIN d /\ q[i] = d[i]) \/ (i = n + 1 /\ q[i] = "close")
    BY <2>3
  <2>5. \A i \in DOMAIN d : i \in DOMAIN q /\ q[i] = d[i] /\ i < n + 1
    BY <2>3
  <2>6. Covered(q)
    <3>1. SUFFICES ASSUME NEW i \in DOMAIN q, NEW j \in DOMAIN q, i < j, q[i] \in Breakers, q[j] = "Type"
                   PROVE  \E k \in DOMAIN q : i < k /\ k < j /\ q[k] = "track_beg"
      BY DEF Covered
    <3>2. i \in DOMAIN d /\ j \in DOMAIN d /\ d[i] \in Breakers /\ d[j] = "Type"
      BY <2>3, <2>4, <3>1
    <3>3. PICK k \in DOMAIN d : i < k /\ k < j /\ d[k] = "track_beg"
      BY <2>1, <3>1, <3>2 DEF Called, Covered
    <3> QED BY <2>5, <3>3
  <2>7. /\ \A i \in DOMAIN q : q[i] # "Undo"
        /\ \A i \in DOMAIN q : q[i] = "Type" => \E k \in DOMAIN q : k < i /\ q[k] = "track_beg"
        /\ \A i \in DOMAIN q : q[i] = "Type" => \E k \in DOMAIN q : k > i /\ q[k] = "track_end"
    BY <2>1, <2>4, <2>5 DEF Called
  <2> QED BY <2>3, <2>6, <2>7 DEF Called, q, d
<1> QED BY <1>1, <1>2, <1>3, <1>4

-----------------------------------------------------------------------------
(***************************************************************************)
(* One file.                                                               *)
(***************************************************************************)

\* c tracks if b does, and has neither a change of the text noted nor one that
\* is not noted unless b has it
Still(b, c) == /\ b.tracks => c.tracks
               /\ c.unnoted => b.unnoted
               /\ HasText(c) => HasText(b)

AllStill(bs, cs) == DOMAIN cs = DOMAIN bs /\ \A i \in DOMAIN bs : Still(bs[i], cs[i])

\* What is no change of the text is none for the log.
LEMMA NotesStill ==
    ASSUME NEW b \in Box, NEW t \in Threads
    PROVE  /\ \A kind \in {"flags", "cursor"} : Still(b, Note(b, t, kind)) /\ Note(b, t, kind) \in Box
           /\ Still(b, Written(b, t)) /\ Still(b, Asked(b)) /\ Still(b, Overwritten(b)) /\ Still(b, Begun(b))
           /\ \A name \in Names : Still(b, Named(b, t, name))
           /\ Begun(b).tracks
<1>1. ASSUME NEW kind \in {"flags", "cursor"}
      PROVE  Still(b, Note(b, t, kind)) /\ Note(b, t, kind) \in Box
  <2>1. Note(b, t, kind) \in Box
    BY NoteFollows DEF Follows
  <2>2. \A u \in Threads : <<u, "text">> # <<t, kind>>
    OBVIOUS
  <2>3. CASE b.tracks
    <3>1. /\ Note(b, t, kind).tracks = b.tracks /\ Note(b, t, kind).unnoted = b.unnoted
          /\ Note(b, t, kind).head = b.head \cup {<<t, kind>>}
      BY <2>3 DEF Note, Box
    <3> QED BY <2>1, <2>2, <3>1 DEF Still, HasText
  <2>4. CASE ~b.tracks
    BY <2>1, <2>4 DEF Note, Still
  <2> QED BY <2>3, <2>4
<1>2. ASSUME NEW c \in Box
      PROVE  /\ \A kept : Still(c, [c EXCEPT !.saved = TRUE, !.changed = FALSE, !.kept = kept])
             /\ \A kept : Still(c, [c EXCEPT !.kept = kept])
             /\ \A name : Still(c, [c EXCEPT !.name = name, !.saved = FALSE, !.changed = TRUE])
  BY DEF Still, HasText, Box
<1>3. Still(b, Begun(b)) /\ Begun(b).tracks
  BY DEF Begun, Still, HasText, Box
<1>4. Still(b, Written(b, t)) /\ \A name \in Names : Still(b, Named(b, t, name))
  <2> DEFINE c == Note(b, t, "flags")
  <2>1. c \in Box /\ Still(b, c)
    BY <1>1
  <2> HIDE DEF c
  <2>2. Still(c, [c EXCEPT !.saved = TRUE, !.changed = FALSE, !.kept = @ \cup {"disk"}])
    BY <1>2, <2>1
  <2>3. \A name \in Names : Still(c, [c EXCEPT !.name = name, !.saved = FALSE, !.changed = TRUE])
    BY <1>2, <2>1
  <2> QED BY <2>1, <2>2, <2>3 DEF Still, Written, Named, c
<1>5. Still(b, Asked(b)) /\ Still(b, Overwritten(b))
  BY <1>2 DEF Asked, Overwritten
<1> QED BY <1>1, <1>3, <1>4, <1>5

\* A change of a file that tracks is noted.
LEMMA TypedNoted ==
    ASSUME NEW b \in Box, NEW t \in Threads, b.tracks
    PROVE  Typed(b, t).tracks /\ (Typed(b, t).unnoted => b.unnoted)
<1> DEFINE c == Note(b, t, "text")
<1>1. c \in Box /\ c.tracks /\ c.unnoted = b.unnoted
  <2>1. c \in Box /\ c.tracks = b.tracks
    BY NoteFollows DEF Follows
  <2>2. c.unnoted = b.unnoted
    BY DEF Note, Box
  <2> QED BY <2>1, <2>2
<1> HIDE DEF c
<1>2. \A v : LET d == [c EXCEPT !.saved = FALSE, !.changed = TRUE, !.kept = {}, !.unnoted = v]
             IN d.tracks = c.tracks /\ d.unnoted = v
  BY <1>1 DEF Box
<1>3. Typed(b, t).tracks = c.tracks /\ Typed(b, t).unnoted = (c.unnoted \/ ~b.tracks)
  BY <1>2 DEF Typed, c
<1> QED BY <1>1, <1>3

\* The end of tracking leaves no note behind; nor does an undo, and it drops no
\* change when none was noted in the same log.
LEMMA EndsStill ==
    ASSUME NEW b \in Box
    PROVE  /\ ~HasText(Ended(b)) /\ (Ended(b).unnoted => b.unnoted)
           /\ ~HasText(b) =>
                 /\ ~HasText(Cancelled(b)) /\ (Cancelled(b).unnoted => b.unnoted)
                 /\ \A more, changed \in BOOLEAN :
                       /\ LET c == [Cancelled(b) EXCEPT !.undo = more]
                          IN ~HasText(c) /\ (c.unnoted => b.unnoted)
                       /\ LET c == Undone(Cancelled(b), changed, more)
                          IN ~HasText(c) /\ (c.unnoted => b.unnoted)
<1>1. ~HasText(Ended(b)) /\ (Ended(b).unnoted => b.unnoted)
  <2>1. \A undo : LET c == [b EXCEPT !.tracks = FALSE, !.undo = undo, !.head = {}]
                  IN c.unnoted = b.unnoted /\ c.head = {}
    BY DEF Box
  <2>2. Ended(b).unnoted = b.unnoted /\ Ended(b).head = {}
    BY <2>1 DEF Ended
  <2> QED BY <2>2 DEF HasText
<1>2. ASSUME ~HasText(b)
      PROVE  Cancelled(b) \in Box /\ Cancelled(b).head = {} /\ (Cancelled(b).unnoted => b.unnoted)
  <2>1. \A v : LET c == [b EXCEPT !.tracks = FALSE, !.head = {}, !.unnoted = v]
               IN c.unnoted = v /\ c.head = {}
    BY DEF Box
  <2>2. Cancelled(b).unnoted = (b.unnoted \/ \E t \in Threads : <<t, "text">> \in b.head) /\ Cancelled(b).head = {}
    BY <2>1 DEF Cancelled
  <2>3. Cancelled(b) \in Box
    BY EndsClean DEF Threads
  <2> QED BY <1>2, <2>2, <2>3 DEF HasText
<1>3. ASSUME NEW c \in Box, c.head = {}, NEW more \in BOOLEAN, NEW changed \in BOOLEAN
      PROVE  /\ ~HasText([c EXCEPT !.undo = more]) /\ [c EXCEPT !.undo = more].unnoted = c.unnoted
             /\ ~HasText(Undone(c, changed, more)) /\ Undone(c, changed, more).unnoted = c.unnoted
  <2>1. \A kept : LET d == [c EXCEPT !.saved = FALSE, !.changed = changed, !.undo = more, !.kept = kept]
                  IN d.head = c.head /\ d.unnoted = c.unnoted
    BY DEF Box
  <2>2. [c EXCEPT !.undo = more].head = c.head /\ [c EXCEPT !.undo = more].unnoted = c.unnoted
    BY DEF Box
  <2>3. Undone(c, changed, more).head = c.head /\ Undone(c, changed, more).unnoted = c.unnoted
    BY <2>1 DEF Undone
  <2> QED BY <1>3, <2>2, <2>3 DEF HasText
<1>4. ASSUME ~HasText(b), NEW more \in BOOLEAN, NEW changed \in BOOLEAN
      PROVE  /\ ~HasText([Cancelled(b) EXCEPT !.undo = more])
             /\ [Cancelled(b) EXCEPT !.undo = more].unnoted => b.unnoted
             /\ ~HasText(Undone(Cancelled(b), changed, more))
             /\ Undone(Cancelled(b), changed, more).unnoted => b.unnoted
  <2> DEFINE c == Cancelled(b)
  <2>1. c \in Box /\ c.head = {} /\ (c.unnoted => b.unnoted)
    BY <1>2, <1>4
  <2> HIDE DEF c
  <2>2. /\ ~HasText([c EXCEPT !.undo = more]) /\ [c EXCEPT !.undo = more].unnoted = c.unnoted
        /\ ~HasText(Undone(c, changed, more)) /\ Undone(c, changed, more).unnoted = c.unnoted
    BY <1>3, <2>1
  <2> QED BY <2>1, <2>2 DEF c
<1> QED BY <1>1, <1>2, <1>4 DEF HasText

\* A new file, or one just loaded, has nothing unnoted.
LEMMA NewStill ==
    /\ ~Fresh.unnoted /\ ~HasText(Fresh)
    /\ \A name \in Names, exists \in BOOLEAN : ~Loaded(name, exists).unnoted /\ ~HasText(Loaded(name, exists))
<1>1. Fresh.unnoted = FALSE /\ Fresh.head = {}
  BY DEF Fresh
<1>2. ASSUME NEW name \in Names, NEW exists \in BOOLEAN
      PROVE  Loaded(name, exists).unnoted = FALSE /\ Loaded(name, exists).head = {}
  <2>1. \A n, e, c, k : LET d == [Fresh EXCEPT !.name = n, !.saved = e, !.changed = c, !.kept = k]
                        IN d.unnoted = FALSE /\ d.head = {}
    BY DEF Fresh
  <2> QED BY <2>1 DEF Loaded
<1> QED BY <1>1, <1>2 DEF HasText

-----------------------------------------------------------------------------
(***************************************************************************)
(* The list of files.                                                      *)
(***************************************************************************)

\* One file changed without a new text leaves all as they were.
LEMMA OneStill ==
    ASSUME NEW bs \in Seq(Box), NEW i \in DOMAIN bs, NEW c, Still(bs[i], c)
    PROVE  AllStill(bs, [bs EXCEPT ![i] = c])
BY DEF AllStill, Still

\* Saving changes no text,
LEMMA SavedStill ==
    ASSUME NEW bs \in Seq(Box), NEW t \in Threads, NEW which \in SUBSET DOMAIN bs
    PROVE  AllStill(bs, SavedAll(bs, which, t))
<1> DEFINE cs == SavedAll(bs, which, t)
<1>1. DOMAIN cs = DOMAIN bs
  BY DEF SavedAll
<1>2. ASSUME NEW k \in DOMAIN bs
      PROVE  Still(bs[k], cs[k])
  <2>1. bs[k] \in Box
    OBVIOUS
  <2>2. Written(bs[k], t) \in Box /\ Still(bs[k], Written(bs[k], t))
    BY <2>1, NotesStill, EditsFollow DEF Follows
  <2>3. \A b \in Box : Still(b, Overwritten(b)) /\ Still(b, b)
    BY NotesStill DEF Still, Threads
  <2>4. cs[k] \in {bs[k], Written(bs[k], t), Overwritten(bs[k]), Overwritten(Written(bs[k], t))}
    BY DEF SavedAll
  <2> QED BY <2>1, <2>2, <2>3, <2>4 DEF Still
<1> QED BY <1>1, <1>2 DEF AllStill

\* and naming does not.
LEMMA NamedStill ==
    ASSUME NEW t \in Threads, boxes \in Seq(Box), boxes # <<>>, cur \in DOMAIN boxes
    PROVE  /\ AllStill(boxes, boxes)
           /\ AllStill(boxes, Saved(boxes, cur, t))
           /\ \A name \in NewNames(cur) : /\ AllStill(boxes, NamedAt(cur, t, name))
                                          /\ AllStill(boxes, Saved(NamedAt(cur, t, name), cur, t))
<1>1. AllStill(boxes, boxes)
  BY DEF AllStill, Still
<1>2. AllStill(boxes, Saved(boxes, cur, t))
  <2>1. {cur} \in SUBSET DOMAIN boxes
    OBVIOUS
  <2> QED BY <2>1, SavedStill DEF Saved
<1>3. ASSUME NEW name \in NewNames(cur)
      PROVE  /\ AllStill(boxes, NamedAt(cur, t, name))
             /\ AllStill(boxes, Saved(NamedAt(cur, t, name), cur, t))
  <2> DEFINE bs == NamedAt(cur, t, name)
  <2>1. name \in Names /\ boxes[cur] \in Box
    BY DEF NewNames
  <2>2. AllStill(boxes, bs)
    BY <2>1, NotesStill, OneStill DEF NamedAt
  <2>3. bs \in Seq(Box) /\ DOMAIN bs = DOMAIN boxes
    BY NamedFollow DEF AllFollow
  <2> HIDE DEF bs
  <2>4. AllStill(bs, Saved(bs, cur, t))
    <3>1. {cur} \in SUBSET DOMAIN bs
      BY <2>3
    <3> QED BY <2>3, <3>1, SavedStill DEF Saved
  <2> QED BY <2>2, <2>3, <2>4 DEF AllStill, Still, bs
<1> QED BY <1>1, <1>2, <1>3

\* Files come and go; those that are new have no note and no change.
LEMMA OpenedStill ==
    ASSUME NEW bs \in Seq(Box), AllNoted(bs), NEW c \in Box, ~c.unnoted, ~HasText(c), NEW i \in DOMAIN bs
    PROVE  /\ AllNoted(Append(bs, c)) /\ AllNoted([bs EXCEPT ![i] = c])
           /\ AnyText(Append(bs, c)) => AnyText(bs)
           /\ AnyText([bs EXCEPT ![i] = c]) => AnyText(bs)
<1> DEFINE n == Len(bs)
           cs == Append(bs, c)
<1>1. /\ n \in Nat /\ DOMAIN bs = 1 .. n /\ cs \in Seq(Box) /\ Len(cs) = n + 1
      /\ \A k \in 1 .. n : cs[k] = bs[k]
      /\ cs[n + 1] = c
  BY AppendProperties
<1> HIDE DEF cs
<1>2. \A k \in DOMAIN cs : cs[k] = c \/ (k \in DOMAIN bs /\ cs[k] = bs[k])
  BY <1>1, LenProperties
<1>3. AllNoted(cs) /\ (AnyText(cs) => AnyText(bs))
  BY <1>2 DEF AllNoted, AnyText
<1>4. AllNoted([bs EXCEPT ![i] = c]) /\ (AnyText([bs EXCEPT ![i] = c]) => AnyText(bs))
  BY DEF AllNoted, AnyText
<1> QED BY <1>3, <1>4 DEF cs

\* Closing a file adds no text that is not noted.
LEMMA ClosedStill ==
    ASSUME NEW bs \in Seq(Box), AllNoted(bs), NEW i \in DOMAIN bs
    PROVE  LET cs == IF Len(bs) = 1 THEN <<Fresh>> ELSE RemoveAt(bs, i)
           IN AllNoted(cs) /\ (AnyText(cs) => AnyText(bs))
<1>1. CASE Len(bs) = 1
  <2>1. DOMAIN <<Fresh>> = {1} /\ <<Fresh>>[1] = Fresh
    OBVIOUS
  <2> QED BY <1>1, <2>1, NewStill DEF AllNoted, AnyText
<1>2. CASE Len(bs) # 1
  <2> DEFINE cs == RemoveAt(bs, i)
  <2>1. i \in 1 .. Len(bs) /\ DOMAIN bs = 1 .. Len(bs) /\ Len(bs) \in Nat
    BY LenProperties, Zenon
  <2>2. cs \in Seq(Box) /\ Len(cs) = Len(bs) - 1 /\ \A k \in 1 .. Len(bs) - 1 : cs[k] \in {bs[j] : j \in 1 .. Len(bs)}
    BY <2>1, Without, Zenon
  <2> HIDE DEF cs
  <2>3. DOMAIN cs = 1 .. Len(bs) - 1
    BY <2>1, <2>2, LenProperties
  <2>4. \A k \in DOMAIN cs : \E j \in DOMAIN bs : cs[k] = bs[j]
    BY <2>1, <2>2, <2>3
  <2>5. AllNoted(cs) /\ (AnyText(cs) => AnyText(bs))
    BY <2>4 DEF AllNoted, AnyText
  <2> QED BY <1>2, <2>5 DEF cs
<1> QED BY <1>1, <1>2

-----------------------------------------------------------------------------
(***************************************************************************)
(* The steps under the mutex.                                              *)
(***************************************************************************)

\* A thread at work takes its first step and puts what it calls in front of the
\* others.
LEMMA WorkNotes ==
    ASSUME IInv, NInv, NEW t \in Threads, Holds(t), todo[t] # <<>>, NEW r, Called(r), Then(t, r), pc' = pc,
           Head(todo[t]) \in Breakers \/ \A i \in DOMAIN r : r[i] \notin Breakers,
           AllNoted(boxes'),
           Head(todo[t]) \notin {"track_end", "Type"} => (AnyText(boxes') => AnyText(boxes)),
           Head(todo[t]) = "track_end" => ~AnyText(boxes'),
           Head(todo[t]) \notin Breakers \cup {"track_beg"} => (AllTrack(boxes) => AllTrack(boxes')),
           Head(todo[t]) = "track_beg" => AllTrack(boxes')
    PROVE  NInv'
<1>1. owner = t /\ todo \in [Threads -> Seq(Steps)] /\ todo[t] \in Seq(Steps)
  BY AtWork DEF IInv, TypeOK, Steps
<1>2. todo'[t] = r \o Tail(todo[t]) /\ \A u \in Threads \ {t} : todo'[u] = todo[u]
  BY <1>1 DEF Then
<1>3. \A u \in Threads : Holds(u)' <=> Holds(u)
  BY DEF Holds
<1>4. \A u \in Threads \ {t} : ~Holds(u)
  BY <1>1 DEF IInv, TypeOK
<1>5. /\ Covered(todo[t]) => Covered(todo'[t])
      /\ Parted(todo[t]) => Parted(todo'[t])
      /\ Covered(todo[t]) /\ Typing(todo'[t]) /\ Head(todo[t]) # "track_beg" =>
            Typing(todo[t]) /\ Head(todo[t]) \notin Breakers
      /\ Parted(todo[t]) /\ Head(todo[t]) = "Type" => EndsFirst(todo'[t])
      /\ EndsFirst(todo[t]) /\ Head(todo[t]) # "track_end" => EndsFirst(todo'[t])
  BY <1>1, <1>2, CallsKeepOrder
<1>6. Wary'
  BY <1>2, <1>5 DEF NInv, Wary
<1>7. TracksToType'
  <2>1. SUFFICES ASSUME NEW u \in Threads, Typing(todo'[u]) PROVE Holds(u)' /\ AllTrack(boxes')
    BY DEF TracksToType, AllTrack
  <2>2. u = t
    BY <1>2, <1>4, <2>1 DEF NInv, TracksToType
  <2>3. CASE Head(todo[t]) = "track_beg"
    BY <1>3, <2>2, <2>3
  <2>4. CASE Head(todo[t]) # "track_beg"
    <3>1. Typing(todo[t]) /\ Head(todo[t]) \notin Breakers
      BY <1>5, <2>1, <2>2, <2>4 DEF NInv, Wary
    <3>2. AllTrack(boxes)
      BY <3>1 DEF NInv, TracksToType
    <3>3. AllTrack(boxes')
      BY <2>4, <3>1, <3>2
    <3> QED BY <1>3, <2>2, <3>3
  <2> QED BY <2>3, <2>4
<1>8. EndsToUndo'
  <2>1. SUFFICES ASSUME NEW u \in Threads, Holds(u)', AnyText(boxes') PROVE EndsFirst(todo'[u])
    BY DEF EndsToUndo, AnyText, HasText
  <2>2. u = t
    BY <1>3, <1>4, <2>1
  <2>3. CASE Head(todo[t]) = "Type"
    BY <1>5, <2>2, <2>3 DEF NInv, Wary
  <2>4. CASE Head(todo[t]) # "Type"
    <3>1. Head(todo[t]) # "track_end" /\ AnyText(boxes)
      BY <2>1, <2>4
    <3>2. EndsFirst(todo[t])
      BY <3>1 DEF NInv, EndsToUndo
    <3> QED BY <1>5, <2>2, <3>1, <3>2
  <2> QED BY <2>3, <2>4
<1> QED BY <1>6, <1>7, <1>8 DEF NInv, AllNoted

\* The files stay as they are but for flags, names and notes of other kinds.
LEMMA StillNotes ==
    ASSUME Tidy, IInv, NInv, NEW t \in Threads, Holds(t), todo[t] # <<>>, Head(todo[t]) # "track_end",
           Head(todo[t]) # "track_beg", AllStill(boxes, boxes'), pc' = pc,
           NEW r \in {<<>>, <<"check_save">>}, Then(t, r)
    PROVE  NInv'
<1>1. Called(r) /\ \A i \in DOMAIN r : r[i] \notin Breakers
  <2>1. DOMAIN <<>> = {} /\ DOMAIN <<"check_save">> = {1} /\ <<"check_save">>[1] = "check_save"
    OBVIOUS
  <2> QED BY <2>1, Calls DEF Breakers
<1>2. AllNoted(boxes') /\ (AnyText(boxes') => AnyText(boxes)) /\ (AllTrack(boxes) => AllTrack(boxes'))
  BY DEF AllStill, Still, NInv, AllNoted, AnyText, AllTrack
<1> QED BY <1>1, <1>2, WorkNotes

\* The steps that change no text keep the invariant.
LEMMA StillSteps ==
    ASSUME Tidy, IInv, NInv, NEW t \in Threads,
           \/ PutMouse(t) \/ SetXY(t) \/ NextFile(t) \/ Save(t) \/ SaveAll(t)
           \/ Exit(t) \/ CheckSave(t) \/ ExitCancelled(t) \/ Abort(t)
    PROVE  NInv'
<1>1. /\ Holds(t) /\ todo[t] # <<>> /\ Head(todo[t]) # "track_end" /\ Head(todo[t]) # "track_beg" /\ pc' = pc
  BY DEF PutMouse, SetXY, NextFile, Save, SaveAll, Exit, CheckSave, ExitCancelled, Abort, Takes, Quiet
<1>2. /\ boxes \in Seq(Box) /\ boxes # <<>> /\ cur \in DOMAIN boxes /\ boxes[cur] \in Box
  BY <1>1, AtWork
<1>3. AllStill(boxes, boxes) /\ AllStill(boxes, Saved(boxes, cur, t))
  BY <1>2, NamedStill
<1>4. \A name \in NewNames(cur) : /\ AllStill(boxes, NamedAt(cur, t, name))
                                  /\ AllStill(boxes, Saved(NamedAt(cur, t, name), cur, t))
  BY <1>2, NamedStill
<1>5. AllStill(boxes, [boxes EXCEPT ![cur] = Asked(@)]) /\ AllStill(boxes, [boxes EXCEPT ![cur] = Note(@, t, "cursor")])
  BY <1>2, NotesStill, OneStill
<1>6. AllStill(boxes, boxes')
  <2>1. CASE PutMouse(t) \/ SetXY(t)
    BY <1>5, <2>1 DEF PutMouse, SetXY, SetCurrent, SetBoxes
  <2>2. CASE NextFile(t) \/ Exit(t) \/ Abort(t)
    BY <1>3, <2>2 DEF NextFile, Exit, Abort, files
  <2>3. CASE Save(t)
    BY <1>3, <1>4, <2>3 DEF Save
  <2>4. CASE SaveAll(t)
    BY <1>2, <2>4, SavedStill DEF SaveAll, SetBoxes
  <2>5. CASE CheckSave(t)
    BY <1>3, <1>4, <1>5, <2>5 DEF CheckSave, AskNext
  <2>6. CASE ExitCancelled(t)
    BY <1>3, <1>4, <2>6 DEF ExitCancelled
  <2> QED BY <2>1, <2>2, <2>3, <2>4, <2>5, <2>6
<1>7. \E r \in {<<>>, <<"check_save">>} : Then(t, r)
  <2>1. CASE CheckSave(t)
    <3>1. Head(todo[t]) = "check_save" /\ (Then(t, <<>>) \/ todo' = todo)
      BY <2>1 DEF CheckSave, Takes, AskNext
    <3> QED BY <1>1, <3>1, Stays
  <2>2. CASE ~CheckSave(t)
    BY <2>2 DEF PutMouse, SetXY, NextFile, Save, SaveAll, Exit, ExitCancelled, Abort
  <2> QED BY <2>1, <2>2
<1> QED BY <1>1, <1>6, <1>7, StillNotes

\* Tracking, and what is tracked.
LEMMA TrackingNotes ==
    ASSUME Tidy, IInv, NInv, NEW t \in Threads, TrackBeg(t) \/ TrackEnd(t) \/ Type(t) \/ Undo(t)
    PROVE  NInv'
<1>1. Holds(t) /\ todo[t] # <<>> /\ pc' = pc /\ Then(t, <<>>)
  BY DEF TrackBeg, TrackEnd, Type, Undo, Takes, Quiet
<1>2. /\ boxes \in Seq(Box) /\ cur \in DOMAIN boxes /\ boxes[cur] \in Box /\ todo[t] \in Seq(Steps)
      /\ \A i \in DOMAIN boxes : boxes[i] \in Box
  BY <1>1, AtWork
<1>3. Called(<<>>) /\ \A i \in DOMAIN <<>> : <<>>[i] \notin Breakers
  BY Calls
<1>4. AllNoted(boxes)
  BY DEF NInv
<1>5. CASE TrackBeg(t)
  <2>1. Head(todo[t]) = "track_beg" /\ boxes' = [i \in DOMAIN boxes |-> Begun(boxes[i])]
    BY <1>5 DEF TrackBeg, Takes, SetBoxes
  <2>2. \A i \in DOMAIN boxes : Still(boxes[i], Begun(boxes[i])) /\ Begun(boxes[i]).tracks
    BY <1>2, NotesStill
  <2>3. AllNoted(boxes') /\ (AnyText(boxes') => AnyText(boxes)) /\ AllTrack(boxes')
    BY <1>4, <2>1, <2>2 DEF AllNoted, AnyText, AllTrack, Still
  <2> QED BY <1>1, <1>3, <2>1, <2>3, WorkNotes
<1>6. CASE TrackEnd(t)
  <2>1. Head(todo[t]) = "track_end" /\ boxes' = [i \in DOMAIN boxes |-> Ended(boxes[i])]
    BY <1>6 DEF TrackEnd, Takes, SetBoxes
  <2>2. \A i \in DOMAIN boxes : ~HasText(Ended(boxes[i])) /\ (Ended(boxes[i]).unnoted => boxes[i].unnoted)
    BY <1>2, EndsStill
  <2>3. AllNoted(boxes') /\ ~AnyText(boxes')
    BY <1>4, <2>1, <2>2 DEF AllNoted, AnyText
  <2> QED BY <1>1, <1>3, <2>1, <2>3, WorkNotes DEF Breakers
<1>7. CASE Type(t)
  <2>1. Head(todo[t]) = "Type" /\ boxes' = [boxes EXCEPT ![cur] = Typed(boxes[cur], t)]
    BY <1>7 DEF Type, Takes, SetCurrent, SetBoxes
  <2>2. AllTrack(boxes)
    <3>1. 1 \in DOMAIN todo[t] /\ todo[t][1] = "Type" /\ \A k \in DOMAIN todo[t] : ~(k < 1)
      BY <1>1, <1>2, <2>1
    <3>2. Typing(todo[t])
      BY <3>1 DEF Typing
    <3> QED BY <3>2 DEF NInv, TracksToType
  <2>3. Typed(boxes[cur], t).tracks /\ (Typed(boxes[cur], t).unnoted => boxes[cur].unnoted)
    BY <1>2, <2>2, TypedNoted DEF AllTrack
  <2>4. AllNoted(boxes') /\ AllTrack(boxes')
    BY <1>2, <1>4, <2>1, <2>2, <2>3 DEF AllNoted, AllTrack
  <2> QED BY <1>1, <1>3, <2>1, <2>4, WorkNotes
<1>8. CASE Undo(t)
  <2>1. Head(todo[t]) = "Undo"
    BY <1>8 DEF Undo, Takes
  <2>2. ~AnyText(boxes)
    <3>1. 1 \in DOMAIN todo[t] /\ todo[t][1] = "Undo" /\ \A k \in DOMAIN todo[t] : ~(k < 1)
      BY <1>1, <1>2, <2>1
    <3>2. ~EndsFirst(todo[t])
      BY <3>1 DEF EndsFirst
    <3> QED BY <1>1, <3>2 DEF NInv, EndsToUndo
  <2>3. ~HasText(boxes[cur])
    BY <1>2, <2>2 DEF AnyText
  <2>4. PICK c : boxes' = [boxes EXCEPT ![cur] = c] /\ ~HasText(c) /\ (c.unnoted => boxes[cur].unnoted)
    <3>1. \/ SetCurrent(Cancelled(boxes[cur]))
          \/ \E more, changed \in BOOLEAN : \/ SetCurrent([Cancelled(boxes[cur]) EXCEPT !.undo = more])
                                            \/ SetCurrent(Undone(Cancelled(boxes[cur]), changed, more))
      BY <1>8 DEF Undo
    <3>2. /\ ~HasText(Cancelled(boxes[cur])) /\ (Cancelled(boxes[cur]).unnoted => boxes[cur].unnoted)
          /\ \A more, changed \in BOOLEAN :
                /\ LET c == [Cancelled(boxes[cur]) EXCEPT !.undo = more]
                   IN ~HasText(c) /\ (c.unnoted => boxes[cur].unnoted)
                /\ LET c == Undone(Cancelled(boxes[cur]), changed, more)
                   IN ~HasText(c) /\ (c.unnoted => boxes[cur].unnoted)
      BY <1>2, <2>3, EndsStill
    <3>3. PICK c : /\ SetCurrent(c) /\ ~HasText(c) /\ (c.unnoted => boxes[cur].unnoted)
      BY <3>1, <3>2
    <3> QED BY <3>3 DEF SetCurrent, SetBoxes
  <2>5. AllNoted(boxes') /\ (AnyText(boxes') => AnyText(boxes))
    BY <1>2, <1>4, <2>4 DEF AllNoted, AnyText
  <2> QED BY <1>1, <1>3, <2>1, <2>5, WorkNotes DEF Breakers
<1> QED BY <1>5, <1>6, <1>7, <1>8

\* Opening and closing files.
LEMMA OpenNotes ==
    ASSUME Tidy, IInv, NInv, NEW t \in Threads, New(t) \/ Load(t) \/ OpenFile(t) \/ Close(t) \/ Drop(t)
    PROVE  NInv'
<1>1. /\ Holds(t) /\ todo[t] # <<>> /\ pc' = pc
      /\ Head(todo[t]) \in {"New", "Load", "OpenFile", "Close", "close"}
  BY DEF New, Load, OpenFile, Close, Drop, Takes, Quiet
<1>2. boxes \in Seq(Box) /\ cur \in DOMAIN boxes /\ AllNoted(boxes)
  BY <1>1, AtWork DEF NInv
<1>3. \E r : Called(r) /\ Then(t, r)
  BY Calls DEF New, Load, OpenFile, Close, Drop
<1>4. ASSUME AllNoted(boxes'), AnyText(boxes') => AnyText(boxes)
      PROVE  NInv'
  <2>1. Head(todo[t]) \in Breakers /\ Head(todo[t]) # "track_beg" /\ Head(todo[t]) # "track_end"
    BY <1>1 DEF Breakers
  <2> QED BY <1>1, <1>3, <1>4, <2>1, WorkNotes
<1>5. CASE boxes' = boxes
  BY <1>2, <1>4, <1>5
<1>6. CASE New(t)
  BY <1>2, <1>4, <1>6, NewBoxes, NewStill, OpenedStill DEF New
<1>7. CASE Load(t) \/ Close(t)
  BY <1>5, <1>7 DEF Load, Close, files
<1>8. CASE OpenFile(t) /\ boxes' # boxes
  <2>1. PICK name \in Names, exists \in BOOLEAN :
           boxes' \in {Append(boxes, Loaded(name, exists)), [boxes EXCEPT ![cur] = Loaded(name, exists)]}
    BY <1>8 DEF OpenFile
  <2>2. Loaded(name, exists) \in Box /\ ~Loaded(name, exists).unnoted /\ ~HasText(Loaded(name, exists))
    BY NewBoxes, NewStill
  <2> QED BY <1>2, <1>4, <2>1, <2>2, OpenedStill
<1>9. CASE Drop(t)
  <2>1. boxes' = boxes \/ boxes' = IF Len(boxes) = 1 THEN <<Fresh>> ELSE RemoveAt(boxes, cur)
    BY <1>9 DEF Drop, RemoveBox, files
  <2> QED BY <1>2, <1>4, <1>5, <2>1, ClosedStill
<1> QED BY <1>5, <1>6, <1>7, <1>8, <1>9

-----------------------------------------------------------------------------
(***************************************************************************)
(* The loops of the threads.                                               *)
(***************************************************************************)

\* what a thread asks the mutex for
TidyOrder(s) == Covered(s) /\ Parted(s) /\ ~Typing(s)

\* Every key calls its operations in a tidy order.
LEMMA OrdersTidy ==
    ASSUME Tidy
    PROVE  /\ \A key \in Pseudo : TidyOrder(Dispatch(key))
           /\ \A key \in Keys, n \in Reps : TidyOrder(Repeated(DispatchKey(key), n))
           /\ TidyOrder(Tracked(<<"put_mouse">>))
           /\ \A m \in Messages : TidyOrder(Handler(m))
<1>1. \A s \in Seq(Commands) : s \in Seq(Steps)
  BY DEF Steps
<1>2. /\ \A key \in Keys \cup Pseudo : Macro[key] \in Seq(Steps)
      /\ "kbBeforeKey" \in Pseudo /\ "kbAfterKey" \in Pseudo /\ "kbPipe" \in Pseudo
  BY <1>1, EditorAssumption DEF EditorAssumption, Pseudo
\* nothing that is typed
<1>3. ASSUME NEW s, \A i \in DOMAIN s : s[i] # "Type"
      PROVE  TidyOrder(s)
  BY <1>3 DEF TidyOrder, Covered, Parted, Typing
<1>4. ASSUME NEW key \in Pseudo
      PROVE  TidyOrder(Dispatch(key))
  <2>1. ~Typing(Dispatch(key))
    BY <1>2, DispatchTracks DEF Dispatch
  <2> QED BY <2>1 DEF TidyOrder, Tidy
<1>5. ASSUME NEW key \in Keys, NEW n \in Reps
      PROVE  TidyOrder(Repeated(DispatchKey(key), n))
  <2> DEFINE d == DispatchKey(key)
             m == Macro["kbBeforeKey"] \o Macro[key] \o Macro["kbAfterKey"]
             q == Repeated(d, n)
  <2>1. m \in Seq(Steps)
    BY <1>2
  <2>2. d = Tracked(m)
    BY DEF DispatchKey
  <2> HIDE DEF m, d
  <2>3. d \in Seq(Steps) /\ d[1] = "track_beg" /\ Len(d) \in Nat \ {0}
    BY <2>1, <2>2, DispatchTracks, LenProperties
  <2>4. n \in Nat \ {0}
    BY EditorAssumption DEF EditorAssumption
  <2>5. DOMAIN q = 1 .. n * Len(d) /\ n * Len(d) \in Nat
    BY <2>3, <2>4 DEF Repeated
  <2>6. n * Len(d) >= 1
    <3>1. n - 1 \in Nat /\ (n - 1) * Len(d) \in Nat /\ n * Len(d) = (n - 1) * Len(d) + Len(d)
      BY <2>3, <2>4
    <3> QED BY <2>3, <3>1
  <2>7. q[1] = d[((1 - 1) % Len(d)) + 1]
    BY <2>5, <2>6 DEF Repeated
  <2>8. 0 % Len(d) = 0
    BY <2>3
  <2>9. q[1] = "track_beg"
    BY <2>3, <2>7, <2>8
  <2>10. ~Typing(q)
    <3>1. SUFFICES ASSUME NEW j \in DOMAIN q, q[j] = "Type", \A k \in DOMAIN q : k < j => q[k] # "track_beg"
                   PROVE  FALSE
      BY DEF Typing
    <3>2. j # 1 /\ 1 \in DOMAIN q
      BY <2>5, <2>6, <2>9, <3>1
    <3> QED BY <2>5, <2>9, <3>1, <3>2
  <2>11. Covered(q) /\ Parted(q)
    BY DEF Tidy, d
  <2> QED BY <2>10, <2>11 DEF TidyOrder, d
<1>6. TidyOrder(Tracked(<<"put_mouse">>))
  <2>1. \A i \in DOMAIN Tracked(<<"put_mouse">>) : Tracked(<<"put_mouse">>)[i] # "Type"
    BY DEF Tracked
  <2> QED BY <1>3, <2>1
<1>7. ASSUME NEW m \in Messages
      PROVE  TidyOrder(Handler(m))
  <2>1. m \in {"open", "cursor", "execute"}
    BY EditorAssumption DEF EditorAssumption
  <2>2. TidyOrder(<<"OpenFile">>) /\ TidyOrder(<<"set_xy">>)
    BY <1>3
  <2> QED BY <1>2, <1>4, <2>1, <2>2 DEF Handler
<1> QED BY <1>4, <1>5, <1>6, <1>7

\* Without the mutex a thread changes no file, and asks for what is tidy.
LEMMA OutsideNotes ==
    ASSUME NInv, NEW t \in Threads, UNCHANGED boxes,
           todo \in [Threads -> Seq(Steps)], pc \in [Threads -> Places],
           NEW place \in Places \ {"in", "inlast"}, Goto(t, place),
           \/ todo' = todo /\ (~Holds(t) \/ todo[t] = <<>>)
           \/ \E s : TidyOrder(s) /\ todo' = [todo EXCEPT ![t] = s]
    PROVE  NInv'
<1>1. ~Holds(t)' /\ \A u \in Threads \ {t} : Holds(u)' <=> Holds(u)
  BY DEF Goto, Holds
<1>2. \A u \in Threads \ {t} : todo'[u] = todo[u]
  OBVIOUS
<1>3. ~Typing(<<>>)
  BY DEF Typing
<1>4. TidyOrder(todo'[t])
  <2>1. CASE todo' = todo /\ (~Holds(t) \/ todo[t] = <<>>)
    <3>1. ~Typing(todo[t])
      BY <1>3, <2>1 DEF NInv, TracksToType
    <3> QED BY <2>1, <3>1 DEF NInv, Wary, TidyOrder
  <2>2. CASE \E s : TidyOrder(s) /\ todo' = [todo EXCEPT ![t] = s]
    BY <2>2
  <2> QED BY <2>1, <2>2
<1>5. Wary'
  BY <1>2, <1>4 DEF NInv, Wary, TidyOrder
<1>6. TracksToType'
  BY <1>1, <1>2, <1>4 DEF NInv, TracksToType, TidyOrder, AllTrack
<1>7. EndsToUndo'
  BY <1>1, <1>2 DEF NInv, EndsToUndo, AnyText, HasText
<1> QED BY <1>5, <1>6, <1>7 DEF NInv, AllNoted

\* The steps of the loops keep the invariant.
LEMMA LoopsNote ==
    ASSUME Tidy, IInv, NInv,
           \/ MainTest \/ MainDraw \/ MainLeave \/ Done \/ Outside
           \/ TimerTick \/ MouseWait \/ PipeWait \/ \E u \in {"timer", "mouse", "pipe"} : Leave(u)
           \/ \E u \in Threads : Unlock(u)
    PROVE  NInv'
<1>1. todo \in [Threads -> Seq(Steps)] /\ pc \in [Threads -> Places]
  BY DEF IInv, TypeOK, Steps
<1>2. CASE MainTest \/ MainDraw \/ Done
  BY <1>1, <1>2, OutsideNotes DEF MainTest, MainDraw, Done, Threads, Places, Holds, files
<1>3. CASE MouseWait \/ PipeWait
  BY <1>1, <1>3, OutsideNotes DEF MouseWait, PipeWait, Threads, Places, Holds, files
<1>4. ASSUME NEW u \in {"timer", "mouse", "pipe"}, Leave(u)
      PROVE  NInv'
  BY <1>1, <1>4, OutsideNotes DEF Leave, Threads, Places, Holds, files
<1>5. CASE MainLeave
  <2>1. TidyOrder(Dispatch("kbDone"))
    BY OrdersTidy DEF Pseudo
  <2> QED BY <1>1, <1>5, <2>1, OutsideNotes DEF MainLeave, Threads, Places, files
<1>6. CASE MainRead
  <2>1. PICK key \in Keys, n \in Reps : Ask("main", Repeated(DispatchKey(key), n))
    BY <1>6 DEF MainRead
  <2>2. TidyOrder(Repeated(DispatchKey(key), n))
    BY OrdersTidy
  <2> QED BY <1>1, <1>6, <2>1, <2>2, OutsideNotes DEF MainRead, Ask, Threads, Places, files
<1>7. CASE TimerTick
  <2>1. PICK key \in {"kbTimer", "kbActivate"} : Ask("timer", Dispatch(key))
    BY <1>7 DEF TimerTick
  <2>2. TidyOrder(Dispatch(key))
    BY OrdersTidy DEF Pseudo
  <2> QED BY <1>1, <1>7, <2>1, <2>2, OutsideNotes DEF TimerTick, Ask, Threads, Places, files
<1>8. CASE MouseEvent
  <2>1. TidyOrder(Tracked(<<"put_mouse">>))
    BY OrdersTidy
  <2> QED BY <1>1, <1>8, <2>1, OutsideNotes DEF MouseEvent, Ask, Threads, Places, files
<1>9. CASE PipeMessage
  <2>1. CASE shutdown
    BY <1>1, <1>9, <2>1, OutsideNotes DEF PipeMessage, Threads, Places, Holds, files
  <2>2. CASE ~shutdown
    <3>1. PICK m \in Messages : Ask("pipe", Handler(m))
      BY <1>9, <2>2 DEF PipeMessage
    <3>2. TidyOrder(Handler(m))
      BY OrdersTidy
    <3> QED BY <1>1, <1>9, <3>1, <3>2, OutsideNotes DEF PipeMessage, Ask, Threads, Places, files
  <2> QED BY <2>1, <2>2
<1>10. ASSUME NEW u \in Threads, Unlock(u)
       PROVE  NInv'
  <2>1. PICK place \in Places \ {"in", "inlast"} : Goto(u, place)
    BY <1>10 DEF Unlock, Places
  <2>2. UNCHANGED boxes /\ todo' = todo /\ todo[u] = <<>>
    BY <1>10 DEF Unlock, files
  <2> QED BY <1>1, <2>1, <2>2, OutsideNotes
<1> QED BY <1>2, <1>3, <1>4, <1>5, <1>6, <1>7, <1>8, <1>9, <1>10 DEF Outside

\* Taking the mutex: nobody had it, so there is no note, and no change comes
\* before tracking begins.
LEMMA LockNotes ==
    ASSUME IInv, NInv, NEW t \in Threads, Lock(t)
    PROVE  NInv'
<1>1. boxes' = boxes /\ todo' = todo /\ owner = "none" /\ ~Holds(t)
  BY DEF Lock, files, Holds
<1>2. ~AnyText(boxes)
  <2>1. \A i \in DOMAIN boxes : boxes[i].head = {}
    BY <1>1 DEF IInv, TrackingBalanced, NoneTracks
  <2> QED BY <2>1 DEF AnyText, HasText
<1>3. \A u \in Threads : ~Holds(u)
  BY <1>1 DEF IInv, TypeOK, Threads
<1>4. \A u \in Threads : ~Typing(todo[u])
  BY <1>3 DEF NInv, TracksToType
<1> QED BY <1>1, <1>2, <1>4 DEF NInv, AllNoted, Wary, TracksToType, EndsToUndo, AnyText, HasText

\* Removing all files does.
LEMMA RemovalNotes ==
    ASSUME IInv, NInv, DoneRemoveAll
    PROVE  NInv'
<1>1. boxes' = <<>> /\ todo' = todo /\ owner = "none"
  BY DEF DoneRemoveAll
<1>2. \A u \in Threads : ~Holds(u)
  BY <1>1 DEF IInv, TypeOK, Threads
<1>3. \A u \in Threads : ~Typing(todo[u])
  BY <1>2 DEF NInv, TracksToType
<1>4. DOMAIN boxes' = {}
  BY <1>1
<1>5. AllNoted(boxes') /\ ~AnyText(boxes')
  BY <1>4 DEF AllNoted, AnyText
<1> QED BY <1>1, <1>3, <1>5 DEF NInv, AllNoted, Wary, TracksToType, EndsToUndo, AnyText, HasText

\* It holds at the start
LEMMA InitNotes == ASSUME Tidy PROVE Init => NInv
<1> SUFFICES ASSUME Init PROVE NInv
  OBVIOUS
<1>1. DOMAIN boxes = {1} /\ boxes[1] = Fresh
  BY DEF Init
<1>2. AllNoted(boxes) /\ ~AnyText(boxes)
  BY <1>1, NewStill DEF AllNoted, AnyText
<1>3. TidyOrder(<<>>) /\ TidyOrder(Dispatch("kbInit"))
  BY OrdersTidy DEF Pseudo, TidyOrder, Covered, Parted, Typing
<1>4. \A t \in Threads : TidyOrder(todo[t])
  BY <1>3 DEF Init
<1> QED BY <1>2, <1>4 DEF NInv, Wary, TracksToType, EndsToUndo, TidyOrder

\* and every step keeps it,
LEMMA NextNotes == ASSUME Tidy PROVE IInv /\ NInv /\ [Next]_vars => NInv'
<1> SUFFICES ASSUME IInv, NInv, [Next]_vars PROVE NInv'
  OBVIOUS
<1>1. ASSUME NEW t \in Threads, Step(t)
      PROVE  NInv'
  BY <1>1, LockNotes, LoopsNote, TrackingNotes, StillSteps, OpenNotes DEF Step
<1>2. CASE UNCHANGED vars
  BY <1>2 DEF vars, files, NInv, AllNoted, Wary, TracksToType, EndsToUndo, AnyText, AllTrack, HasText, Holds
<1>3. CASE Main
  BY <1>1, <1>3, LoopsNote, RemovalNotes DEF Main, Threads
<1>4. CASE Timer \/ Mouse \/ Pipe \/ Outside
  BY <1>1, <1>4, LoopsNote DEF Timer, Mouse, Pipe, Threads
<1> QED BY <1>2, <1>3, <1>4 DEF Next, Over

\* so it holds always.
LEMMA NotedAlways == ASSUME Tidy PROVE Spec => []NInv
<1>1. Init => NInv
  BY InitNotes
<1>2. IInv /\ NInv /\ [Next]_vars => NInv'
  BY NextNotes
<1> QED BY <1>1, <1>2, InvariantHolds, PTL DEF Spec

-----------------------------------------------------------------------------
\* Every change of a text comes into its undo log (track_beg and track_end of
\* Dispatcher), whatever files the threads open, close, switch to and undo in
\* between, as long as no macro changes a text after a command that ends or
\* cancels the tracking it is dispatched with, nor undoes after a change.
THEOREM ChangesAlwaysNoted == ASSUME Tidy PROVE Spec => []EveryChangeNoted
<1>1. NInv => EveryChangeNoted
  BY DEF NInv, AllNoted, EveryChangeNoted
<1> QED BY <1>1, NotedAlways, PTL

-----------------------------------------------------------------------------
(***************************************************************************)
(* No text is lost while the editor runs, where both hold: a file that is  *)
(* saved may be dropped, and one that is untitled and unchanged is empty,  *)
(* since no change of it went unnoted.                                     *)
(***************************************************************************)
\* Until Done has removed the files no text was dropped unasked.
LostAtEndOnly == pc["main"] # "over" => ~lost

\* A thread at work drops a file only where the flags allow it.
LEMMA AtWorkLoses ==
    ASSUME IInv, KInv, NInv, NEW t \in Threads, Step(t), ~lost
    PROVE  ~lost'
<1>1. CASE OpenFile(t) \/ Drop(t)
  <2>1. Holds(t)
    BY <1>1 DEF OpenFile, Drop, Takes
  <2>2. Droppable(boxes[cur]) /\ ~boxes[cur].unnoted
    BY <2>1, AtWorkKept DEF NInv, AllNoted
  <2> QED BY <1>1, <2>2 DEF OpenFile, Drop, Droppable, files
<1>2. CASE ~(OpenFile(t) \/ Drop(t))
  <2>1. lost' = lost
    BY <1>2 DEF Step, Lock, Unlock, TrackBeg, TrackEnd, Type, PutMouse, SetXY, NextFile, Undo, New, Load,
                Save, SaveAll, Close, Exit, CheckSave, ExitCancelled, Abort, SetCurrent, SetBoxes, files
  <2> QED BY <2>1
<1> QED BY <1>1, <1>2

\* No other step but the removal of all files drops any.
LEMMA NextLoses ==
    ASSUME IInv, KInv, NInv, [Next]_vars, LostAtEndOnly
    PROVE  LostAtEndOnly'
<1>1. ASSUME NEW t \in Threads, Step(t) PROVE LostAtEndOnly'
  <2>1. pc["main"] = "over" => pc'["main"] = "over"
    <3>1. CASE Lock(t) \/ Unlock(t)
      BY <3>1 DEF Lock, Unlock, Goto, Holds, IInv, TypeOK, Threads
    <3>2. CASE ~(Lock(t) \/ Unlock(t))
      <4>1. pc' = pc
        BY <1>1, <3>2 DEF Step, TrackBeg, TrackEnd, Type, PutMouse, SetXY, NextFile, Undo, New, Load, OpenFile,
                          Save, SaveAll, Close, Drop, Exit, CheckSave, ExitCancelled, Abort, Takes, Quiet
      <4> QED BY <4>1
    <3> QED BY <3>1, <3>2
  <2>2. ~lost => ~lost'
    BY <1>1, AtWorkLoses
  <2> QED BY <2>1, <2>2 DEF LostAtEndOnly
<1>2. CASE UNCHANGED vars
  BY <1>2 DEF vars, files, LostAtEndOnly
<1>3. CASE DoneRemoveAll
  <2>1. pc'["main"] = "over"
    BY <1>3 DEF DoneRemoveAll, Goto, IInv, TypeOK, Threads
  <2> QED BY <2>1 DEF LostAtEndOnly
<1>4. CASE MainTest \/ MainDraw \/ MainRead \/ MainLeave \/ Done
  <2>1. lost' = lost /\ pc["main"] # "over"
    BY <1>4 DEF MainTest, MainDraw, MainRead, MainLeave, Done, files
  <2> QED BY <2>1 DEF LostAtEndOnly
<1>5. CASE \/ TimerTick \/ MouseWait \/ MouseEvent \/ PipeWait \/ PipeMessage
           \/ \E u \in {"timer", "mouse", "pipe"} : Leave(u)
  <2>1. lost' = lost
    BY <1>5 DEF TimerTick, MouseWait, MouseEvent, PipeWait, PipeMessage, Leave, files
  <2>2. pc'["main"] = pc["main"]
    BY <1>5 DEF TimerTick, MouseWait, MouseEvent, PipeWait, PipeMessage, Leave, Ask, Goto, IInv, TypeOK, Threads
  <2> QED BY <2>1, <2>2 DEF LostAtEndOnly
<1>6. "main" \in Threads /\ "timer" \in Threads /\ "mouse" \in Threads /\ "pipe" \in Threads
  BY DEF Threads
<1> QED BY <1>1, <1>2, <1>3, <1>4, <1>5, <1>6 DEF Next, Main, Timer, Mouse, Pipe, Outside, Over

\* Until Done removes all files no text is dropped that the user was not asked
\* about: not by close, and not by a file that takes the place of an untitled one
\* (doOpenFile); only what is changed after the questions of Exit can be lost.  A
\* change that undo does not know of is excluded: undoing what came before it takes
\* the changed flag off, and doOpenFile then replaces the text.
THEOREM NothingLostWhileRunning == ASSUME Careful, Tidy PROVE Spec => [](pc["main"] # "over" => ~lost)
<1>1. Init => LostAtEndOnly
  BY DEF Init, LostAtEndOnly
<1>2. IInv /\ KInv /\ NInv /\ LostAtEndOnly /\ [Next]_vars => LostAtEndOnly'
  BY NextLoses
<1>3. LostAtEndOnly => (pc["main"] # "over" => ~lost)
  BY DEF LostAtEndOnly
<1> QED BY <1>1, <1>2, <1>3, InvariantHolds, KeptAlways, NotedAlways, PTL DEF Spec

-----------------------------------------------------------------------------
(***************************************************************************)
(* Leaving the editor loses no text unasked, for every key table in which  *)
(* no macro but those of keys changes a text or exits, none changes a text *)
(* after Exit without another Exit after that, and every change is noted.  *)
(***************************************************************************)
Changing == {"Type", "Undo"}

\* After every change there is an Exit.
Late(s) == \A j \in DOMAIN s : s[j] \in Changing => \E k \in DOMAIN s : k > j /\ s[k] = "Exit"

\* Every change after an Exit has an Exit after it.
Ordered(s) ==
    \A i, j \in DOMAIN s :
        i < j /\ s[i] = "Exit" /\ s[j] \in Changing => \E k \in DOMAIN s : k > j /\ s[k] = "Exit"

Discreet ==
    /\ \A key \in Pseudo \ {"kbInit", "kbBeforeKey", "kbAfterKey"} :
          Macro[key] \in Seq(Commands \ (Changing \cup {"Exit", "SaveAll"}))
    /\ Ordered(Dispatch("kbInit"))
    /\ \A key \in Keys, n \in Reps : Ordered(Repeated(DispatchKey(key), n))

\* steps that neither change a text nor begin the questions of Exit, and those
\* of them that do not go on with the questions either
Tame == Steps \ (Changing \cup {"Exit", "SaveAll"})
Mild == Tame \ {"check_save"}

\* The questions of Exit are still to come, or to be gone on with.
Awaits(s) == \E k \in DOMAIN s : s[k] \in {"Exit", "check_save"}

AllKept(bs) == \A i \in DOMAIN bs : bs[i].kept # {}

\* the files between the one check_save began with and the current one
Visited(i) == IF first <= cur THEN i >= first /\ i < cur ELSE i >= first \/ i < cur

Others == \A t \in Threads \ {"main"} : todo[t] \in Seq(Mild)

\* Once main has left its loop it changes nothing any more.
Leaving == pc["main"] \in {"wantlast", "inlast", "done", "wantall"} => todo["main"] \in Seq(Mild) /\ shutdown

\* While the questions are asked every file they came by may be dropped.
Walk == todo["main"] # <<>> /\ Head(todo["main"]) = "check_save" =>
            /\ Late(todo["main"])
            /\ \A i \in DOMAIN boxes : Visited(i) => boxes[i].kept # {}

\* When shutdown is set every file may be dropped, or the questions come again.
Settled == shutdown /\ ~aborted /\ pc["main"] # "over" =>
               /\ Late(todo["main"]) /\ pc["main"] \notin {"draw", "read", "want"}
               /\ AllKept(boxes) \/ Awaits(todo["main"])

EInv == Others /\ Ordered(todo["main"]) /\ Leaving /\ Walk /\ Settled

-----------------------------------------------------------------------------
(***************************************************************************)
(* Sequences of steps.                                                     *)
(***************************************************************************)

\* A step is taken from s, and r is put in front of the rest.
LEMMA Fronted ==
    ASSUME NEW s \in Seq(Steps), s # <<>>, NEW r \in Seq(Tame)
    PROVE  LET q == r \o Tail(s)
           IN /\ Late(s) => Late(q)
              /\ Ordered(s) => Ordered(q)
              /\ Ordered(s) /\ Head(s) = "Exit" => Late(q)
              /\ Late(s) /\ Head(s) \in Changing => Awaits(q)
              /\ Awaits(s) /\ Head(s) \notin {"Exit", "check_save"} => Awaits(q)
<1> DEFINE q == r \o Tail(s)
           m == Len(r)
           n == Len(s)
<1>1. r \in Seq(Steps) /\ \A i \in DOMAIN r : r[i] \notin Changing /\ r[i] # "Exit"
  BY DEF Tame
<1>2. /\ DOMAIN q = 1 .. m + n - 1 /\ DOMAIN s = 1 .. n /\ DOMAIN r = 1 .. m
      /\ \A i \in DOMAIN r : q[i] = r[i]
      /\ \A i \in 2 .. n : q[m + i - 1] = s[i]
      /\ m \in Nat /\ n \in Nat /\ n # 0 /\ Head(s) = s[1]
  BY <1>1, PartsInFront
<1> HIDE DEF q, m, n
\* where a step of q comes from, and where one of s goes
<1>3. ASSUME NEW j \in DOMAIN q, q[j] \in Changing \/ q[j] = "Exit"
      PROVE  j - m + 1 \in 2 .. n /\ q[j] = s[j - m + 1]
  <2>1. ~(j <= m)
    BY <1>1, <1>2, <1>3
  <2>2. j - m + 1 \in 2 .. n /\ m + (j - m + 1) - 1 = j
    BY <1>2, <2>1
  <2> QED BY <1>2, <2>2
<1>4. ASSUME NEW k \in DOMAIN s, k # 1
      PROVE  m + k - 1 \in DOMAIN q /\ q[m + k - 1] = s[k]
  BY <1>2, <1>4
<1>5. ASSUME NEW j \in DOMAIN q, q[j] \in Changing,
             \E k \in DOMAIN s : k > j - m + 1 /\ s[k] = "Exit"
      PROVE  \E k \in DOMAIN q : k > j /\ q[k] = "Exit"
  <2>1. PICK k \in DOMAIN s : k > j - m + 1 /\ s[k] = "Exit"
    BY <1>5
  <2>2. j - m + 1 \in 2 .. n
    BY <1>3, <1>5
  <2>3. k # 1 /\ m + k - 1 > j
    BY <1>2, <2>1, <2>2
  <2> QED BY <1>4, <2>1, <2>3
<1>6. Late(s) => Late(q)
  <2>1. SUFFICES ASSUME Late(s), NEW j \in DOMAIN q, q[j] \in Changing
                 PROVE  \E k \in DOMAIN q : k > j /\ q[k] = "Exit"
    BY DEF Late
  <2>2. j - m + 1 \in DOMAIN s /\ s[j - m + 1] \in Changing
    BY <1>2, <1>3, <2>1
  <2> QED BY <1>5, <2>1, <2>2 DEF Late
<1>7. Ordered(s) => Ordered(q)
  <2>1. SUFFICES ASSUME Ordered(s), NEW i \in DOMAIN q, NEW j \in DOMAIN q,
                        i < j, q[i] = "Exit", q[j] \in Changing
                 PROVE  \E k \in DOMAIN q : k > j /\ q[k] = "Exit"
    BY DEF Ordered
  <2>2. /\ i - m + 1 \in DOMAIN s /\ s[i - m + 1] = "Exit"
        /\ j - m + 1 \in DOMAIN s /\ s[j - m + 1] \in Changing
        /\ i - m + 1 < j - m + 1
    BY <1>2, <1>3, <2>1
  <2> QED BY <1>5, <2>1, <2>2 DEF Ordered
<1>8. ASSUME Ordered(s), Head(s) = "Exit"
      PROVE  Late(q)
  <2>1. SUFFICES ASSUME NEW j \in DOMAIN q, q[j] \in Changing
                 PROVE  \E k \in DOMAIN q : k > j /\ q[k] = "Exit"
    BY DEF Late
  <2>2. /\ j - m + 1 \in DOMAIN s /\ s[j - m + 1] \in Changing
        /\ 1 < j - m + 1 /\ 1 \in DOMAIN s /\ s[1] = "Exit"
    BY <1>2, <1>3, <1>8, <2>1
  <2> QED BY <1>5, <1>8, <2>1, <2>2 DEF Ordered
<1>9. ASSUME Late(s), Head(s) \in Changing
      PROVE  Awaits(q)
  <2>1. PICK k \in DOMAIN s : k > 1 /\ s[k] = "Exit"
    <3>1. 1 \in DOMAIN s /\ s[1] \in Changing
      BY <1>2, <1>9
    <3> QED BY <1>9, <3>1 DEF Late
  <2>2. m + k - 1 \in DOMAIN q /\ q[m + k - 1] = "Exit"
    BY <1>2, <1>4, <2>1
  <2> QED BY <2>2, Zenon DEF Awaits
<1>10. ASSUME Awaits(s), Head(s) \notin {"Exit", "check_save"}
       PROVE  Awaits(q)
  <2>1. PICK k \in DOMAIN s : s[k] \in {"Exit", "check_save"}
    BY <1>10 DEF Awaits
  <2>2. m + k - 1 \in DOMAIN q /\ q[m + k - 1] \in {"Exit", "check_save"}
    BY <1>2, <1>4, <1>10, <2>1
  <2> QED BY <2>2, Zenon DEF Awaits
<1> QED BY <1>6, <1>7, <1>8, <1>9, <1>10 DEF q

\* Mild steps change nothing and ask nothing.
LEMMA MildSteps ==
    /\ \A s \in Seq(Mild) : Late(s) /\ Ordered(s) /\ ~Awaits(s)
    /\ Seq(Mild) \subseteq Seq(Tame) /\ Seq(Tame) \subseteq Seq(Steps)
    /\ <<>> \in Seq(Mild) /\ <<"OpenFile">> \in Seq(Mild) /\ <<"close">> \in Seq(Mild)
    /\ <<"check_save">> \in Seq(Tame)
<1>1. \A s \in Seq(Mild) : Late(s) /\ Ordered(s) /\ ~Awaits(s)
  <2>1. \A s \in Seq(Mild) : \A i \in DOMAIN s : s[i] \notin Changing \cup {"Exit", "check_save"}
    BY DEF Mild, Tame
  <2> QED BY <2>1 DEF Late, Ordered, Awaits
<1>2. Seq(Mild) \subseteq Seq(Tame) /\ Seq(Tame) \subseteq Seq(Steps)
  BY DEF Mild, Tame
<1>3. "OpenFile" \in Mild /\ "close" \in Mild /\ "check_save" \in Tame
  BY DEF Mild, Tame, Steps, Inner, Changing
<1> QED BY <1>1, <1>2, <1>3

\* What the keys of the loops call is mild.
LEMMA MildOrders ==
    ASSUME Discreet
    PROVE  /\ \A key \in Pseudo \ {"kbInit", "kbBeforeKey", "kbAfterKey"} : Dispatch(key) \in Seq(Mild)
           /\ Dispatch("kbClose") \o <<"close">> \in Seq(Mild)
           /\ Tracked(<<"put_mouse">>) \in Seq(Mild)
           /\ \A m \in Messages : Handler(m) \in Seq(Mild)
<1>1. /\ Commands \ (Changing \cup {"Exit", "SaveAll"}) \subseteq Mild
      /\ {"track_beg", "track_end", "put_mouse", "OpenFile", "set_xy", "close"} \subseteq Mild
  BY DEF Mild, Tame, Steps, Commands, Inner, Changing
<1>2. ASSUME NEW s \in Seq(Mild)
      PROVE  Tracked(s) \in Seq(Mild)
  <2>1. <<"track_beg">> \in Seq(Mild) /\ <<"track_end">> \in Seq(Mild)
    BY <1>1
  <2> QED BY <2>1 DEF Tracked
<1>3. \A key \in Pseudo \ {"kbInit", "kbBeforeKey", "kbAfterKey"} : Dispatch(key) \in Seq(Mild)
  <2>1. \A s \in Seq(Commands \ (Changing \cup {"Exit", "SaveAll"})) : s \in Seq(Mild)
    BY <1>1
  <2> QED BY <1>2, <2>1 DEF Discreet, Dispatch
<1>4. Dispatch("kbClose") \o <<"close">> \in Seq(Mild)
  BY <1>3, MildSteps DEF Pseudo
<1>5. Tracked(<<"put_mouse">>) \in Seq(Mild)
  <2>1. <<"put_mouse">> \in Seq(Mild)
    BY <1>1
  <2> QED BY <1>2, <2>1
<1>6. ASSUME NEW m \in Messages
      PROVE  Handler(m) \in Seq(Mild)
  <2>1. m \in {"open", "cursor", "execute"}
    BY EditorAssumption DEF EditorAssumption
  <2>2. <<"OpenFile">> \in Seq(Mild) /\ <<"set_xy">> \in Seq(Mild)
    BY <1>1
  <2>3. Dispatch("kbPipe") \in Seq(Mild)
    BY <1>3 DEF Pseudo
  <2> QED BY <2>1, <2>2, <2>3 DEF Handler
<1> QED BY <1>3, <1>4, <1>5, <1>6

-----------------------------------------------------------------------------
(***************************************************************************)
(* Files that may be dropped.                                              *)
(***************************************************************************)

\* Only typing and undo take the right to drop a file away.
LEMMA MildKept ==
    ASSUME NEW b \in Box, NEW t \in Threads
    PROVE  /\ Begun(b).kept = b.kept /\ Ended(b).kept = b.kept
           /\ Note(b, t, "cursor").kept = b.kept
           /\ Written(b, t).kept # {} /\ Asked(b).kept # {}
           /\ \A name \in Names : Named(b, t, name).kept = b.kept
<1>1. Begun(b).kept = b.kept
  BY DEF Begun, Box
<1>2. Ended(b).kept = b.kept
  <2>1. \A undo : [b EXCEPT !.tracks = FALSE, !.undo = undo, !.head = {}].kept = b.kept
    BY DEF Box
  <2> QED BY <2>1 DEF Ended
<1>3. Note(b, t, "cursor").kept = b.kept
  BY DEF Note, Box
<1>4. Note(b, t, "flags") \in Box /\ Note(b, t, "flags").kept = b.kept
  <2>1. Note(b, t, "flags") \in Box
    BY NoteFollows DEF Follows
  <2> QED BY <2>1 DEF Note, Box
<1>5. Written(b, t).kept # {}
  BY <1>4 DEF Written, Box
<1>6. \A name \in Names : Named(b, t, name).kept = b.kept
  BY <1>4 DEF Named, Box
<1>7. Asked(b).kept # {}
  BY DEF Asked, Box
<1> QED BY <1>1, <1>2, <1>3, <1>5, <1>6, <1>7

\* One file is named, and then it may be saved.
LEMMA NamedSavedKept ==
    ASSUME Careful, boxes \in Seq(Box), Kept(boxes), cur \in DOMAIN boxes, NEW t \in Threads,
           NEW bs,
           \/ boxes[cur].name # Untitled /\ bs = Saved(boxes, cur, t)
           \/ \E name \in NewNames(cur) : bs \in {NamedAt(cur, t, name), Saved(NamedAt(cur, t, name), cur, t)}
    PROVE  /\ DOMAIN bs = DOMAIN boxes
           /\ \A i \in DOMAIN bs : boxes[i].kept # {} => bs[i].kept # {}
           /\ \/ ~boxes[cur].saved /\ boxes[cur].name # Untitled /\ bs = Saved(boxes, cur, t)
              \/ \E name \in NewNames(cur) : bs = Saved(NamedAt(cur, t, name), cur, t)
              => bs[cur].kept # {}
<1>1. ASSUME NEW cs \in Seq(Box), Kept(cs), cur \in DOMAIN cs, cs[cur].name # Untitled
      PROVE  /\ DOMAIN Saved(cs, cur, t) = DOMAIN cs
             /\ \A i \in DOMAIN cs : cs[i].kept # {} => Saved(cs, cur, t)[i].kept # {}
             /\ ~cs[cur].saved => Saved(cs, cur, t)[cur].kept # {}
  <2>1. \A k \in DOMAIN cs :
           Saved(cs, cur, t)[k] = IF k = cur /\ ~cs[cur].saved THEN Written(cs[k], t) ELSE cs[k]
    BY <1>1, SavedEach
  <2>2. DOMAIN Saved(cs, cur, t) = DOMAIN cs
    BY DEF Saved, SavedAll
  <2>3. \A k \in DOMAIN cs : Written(cs[k], t).kept # {}
    BY <1>1, MildKept
  <2> QED BY <1>1, <2>1, <2>2, <2>3
<1>2. ASSUME NEW name \in NewNames(cur)
      PROVE  LET cs == NamedAt(cur, t, name)
             IN /\ cs \in Seq(Box) /\ Kept(cs) /\ DOMAIN cs = DOMAIN boxes /\ cs[cur].name # Untitled
                /\ ~cs[cur].saved
                /\ \A i \in DOMAIN boxes : cs[i].kept = boxes[i].kept
  <2> DEFINE c == Named(boxes[cur], t, name)
  <2>1. name \in Names /\ name # Untitled
    BY EditorAssumption DEF NewNames, Careful, Untitled, EditorAssumption
  <2>2. boxes[cur] \in Box /\ Droppable(boxes[cur])
    BY DEF Kept
  <2>3. c \in Box /\ c.name = name /\ c.kept = boxes[cur].kept
    BY <2>1, <2>2, EditsReplace, MildKept
  <2>4. ~c.saved
    <3>1. Note(boxes[cur], t, "flags") \in Box
      BY <2>2, NoteFollows DEF Follows
    <3> QED BY <3>1 DEF Named, Box
  <2>5. Kept(NamedAt(cur, t, name))
    BY NamesKept
  <2> HIDE DEF c
  <2>6. NamedAt(cur, t, name) = [boxes EXCEPT ![cur] = c]
    BY DEF NamedAt, c
  <2> QED BY <2>1, <2>3, <2>4, <2>5, <2>6, ExceptSeq
<1>3. ASSUME boxes[cur].name # Untitled, bs = Saved(boxes, cur, t)
      PROVE  /\ DOMAIN bs = DOMAIN boxes
             /\ \A i \in DOMAIN bs : boxes[i].kept # {} => bs[i].kept # {}
             /\ ~boxes[cur].saved => bs[cur].kept # {}
  BY <1>1, <1>3
<1>4. ASSUME NEW name \in NewNames(cur), bs = NamedAt(cur, t, name)
      PROVE  /\ DOMAIN bs = DOMAIN boxes
             /\ \A i \in DOMAIN bs : boxes[i].kept # {} => bs[i].kept # {}
  BY <1>2, <1>4
<1>5. ASSUME NEW name \in NewNames(cur), bs = Saved(NamedAt(cur, t, name), cur, t)
      PROVE  /\ DOMAIN bs = DOMAIN boxes
             /\ \A i \in DOMAIN bs : boxes[i].kept # {} => bs[i].kept # {}
             /\ bs[cur].kept # {}
  <2> DEFINE cs == NamedAt(cur, t, name)
  <2>1. /\ cs \in Seq(Box) /\ Kept(cs) /\ DOMAIN cs = DOMAIN boxes /\ cs[cur].name # Untitled
        /\ ~cs[cur].saved
        /\ \A i \in DOMAIN boxes : cs[i].kept = boxes[i].kept
    BY <1>2
  <2> HIDE DEF cs
  <2>2. bs = Saved(cs, cur, t)
    BY <1>5 DEF cs
  <2> QED BY <1>1, <2>1, <2>2
<1> QED BY <1>3, <1>4, <1>5

\* The files a mild step opens, closes, names and saves.
LEMMA OpenedKept ==
    ASSUME NEW bs \in Seq(Box), AllKept(bs), NEW c \in Box, c.kept # {}, NEW i \in DOMAIN bs
    PROVE  AllKept(Append(bs, c)) /\ AllKept([bs EXCEPT ![i] = c])
<1> DEFINE n == Len(bs)
<1>1. /\ n \in Nat /\ DOMAIN bs = 1 .. n /\ Append(bs, c) \in Seq(Box) /\ Len(Append(bs, c)) = n + 1
      /\ \A k \in 1 .. n : Append(bs, c)[k] = bs[k]
      /\ Append(bs, c)[n + 1] = c
  BY AppendProperties
<1>2. DOMAIN Append(bs, c) = 1 .. n + 1
  BY <1>1, LenProperties
<1>3. \A k \in 1 .. n + 1 : k = n + 1 \/ k \in 1 .. n
  BY <1>1
<1>4. AllKept(Append(bs, c))
  BY <1>1, <1>2, <1>3 DEF AllKept
<1>5. AllKept([bs EXCEPT ![i] = c])
  BY DEF AllKept
<1> QED BY <1>4, <1>5

\* Closing a file leaves the others, or a fresh one.
LEMMA ClosedKept ==
    ASSUME NEW bs \in Seq(Box), AllKept(bs), NEW i \in DOMAIN bs
    PROVE  AllKept(IF Len(bs) = 1 THEN <<Fresh>> ELSE RemoveAt(bs, i))
<1>1. CASE Len(bs) = 1
  <2>1. DOMAIN <<Fresh>> = {1} /\ <<Fresh>>[1] = Fresh /\ Fresh.kept # {}
    BY DEF Fresh
  <2> QED BY <1>1, <2>1 DEF AllKept
<1>2. CASE Len(bs) # 1
  <2> DEFINE cs == RemoveAt(bs, i)
  <2>1. i \in 1 .. Len(bs) /\ DOMAIN bs = 1 .. Len(bs) /\ Len(bs) \in Nat
    BY LenProperties, Zenon
  <2>2. cs \in Seq(Box) /\ Len(cs) = Len(bs) - 1 /\ \A k \in 1 .. Len(bs) - 1 : cs[k] \in {bs[j] : j \in 1 .. Len(bs)}
    BY <2>1, Without, Zenon
  <2> HIDE DEF cs
  <2>3. DOMAIN cs = 1 .. Len(bs) - 1
    BY <2>1, <2>2, LenProperties
  <2>4. AllKept(cs)
    BY <2>1, <2>2, <2>3 DEF AllKept
  <2> QED BY <1>2, <2>4 DEF cs
<1> QED BY <1>1, <1>2

-----------------------------------------------------------------------------
(***************************************************************************)
(* The steps under the mutex.                                              *)
(***************************************************************************)

\* Only the thread that is at work has check_save at the head of its steps.
LEMMA NoQuestion ==
    ASSUME IInv, todo["main"] # <<>>, Head(todo["main"]) = "check_save"
    PROVE  /\ Holds("main") /\ Tail(todo["main"]) \in Seq(Plain)
           /\ first \in DOMAIN boxes /\ todo["main"] \in Seq(Steps)
<1>1. todo["main"] \notin Seq(Plain)
  BY DEF Plain
<1> QED BY <1>1 DEF IInv, Asking, TypeOK, Steps, Threads

\* the steps that are left of a thread whose first one is no question
LEMMA RestIsPlain ==
    ASSUME IInv, NEW t \in Threads, todo[t] # <<>>, Head(todo[t]) # "check_save"
    PROVE  todo[t] \in Seq(Plain) /\ Tail(todo[t]) \in Seq(Plain)
<1>1. todo[t] \in Seq(Plain)
  BY DEF IInv, Asking
<1> QED BY <1>1

\* A mild step opens, names, saves and closes files, but gives no reason to ask.
Mildly(t) ==
    \E r \in Seq(Mild) :
        /\ Holds(t) /\ todo[t] # <<>> /\ Head(todo[t]) \in Mild
        /\ Then(t, r) /\ pc' = pc
        /\ \/ UNCHANGED <<shutdown, aborted>> /\ (AllKept(boxes) => AllKept(boxes'))
           \/ shutdown' /\ aborted'

\* A mild step keeps what Exit has answered.
LEMMA MildlyKeeps ==
    ASSUME IInv, IInv', EInv, NEW t \in Threads, Mildly(t)
    PROVE  EInv'
<1>1. PICK r \in Seq(Mild) :
        /\ Holds(t) /\ todo[t] # <<>> /\ Head(todo[t]) \in Mild
        /\ Then(t, r) /\ pc' = pc
        /\ \/ UNCHANGED <<shutdown, aborted>> /\ (AllKept(boxes) => AllKept(boxes'))
           \/ shutdown' /\ aborted'
  BY DEF Mildly
<1>2. /\ todo \in [Threads -> Seq(Steps)] /\ todo[t] \in Seq(Steps) /\ r \in Seq(Tame)
      /\ todo' = [todo EXCEPT ![t] = r \o Tail(todo[t])]
      /\ Head(todo[t]) \notin Changing \cup {"Exit", "check_save"}
  BY <1>1, MildSteps DEF IInv, TypeOK, Steps, Then, Mild, Tame
<1>3. todo'[t] = r \o Tail(todo[t]) /\ \A u \in Threads \ {t} : todo'[u] = todo[u]
  BY <1>2
<1>4. todo[t] \in Seq(Mild) => todo'[t] \in Seq(Mild)
  BY <1>1, <1>2, <1>3
<1>5. Others'
  BY <1>3, <1>4 DEF EInv, Others
<1>s. /\ shutdown => shutdown'
      /\ shutdown' /\ ~aborted' => shutdown /\ ~aborted /\ (AllKept(boxes) => AllKept(boxes'))
  <2>1. CASE UNCHANGED <<shutdown, aborted>> /\ (AllKept(boxes) => AllKept(boxes'))
    <3>1. (shutdown <=> shutdown') /\ (aborted <=> aborted')
      BY <2>1
    <3> QED BY <2>1, <3>1, Zenon
  <2>2. CASE shutdown' /\ aborted'
    BY <2>2, Zenon
  <2> QED BY <1>1, <2>1, <2>2, Zenon
<1>6. Leaving'
  <2>1. todo["main"] \in Seq(Mild) => todo'["main"] \in Seq(Mild)
    BY <1>3, <1>4 DEF Threads
  <2> QED BY <1>1, <1>s, <2>1, Zenon DEF EInv, Leaving
<1>7. /\ Ordered(todo["main"]) => Ordered(todo'["main"])
      /\ Late(todo["main"]) => Late(todo'["main"])
      /\ Awaits(todo["main"]) => Awaits(todo'["main"])
  <2>1. CASE t = "main"
    BY <1>1, <1>2, <1>3, <2>1, Fronted
  <2>2. CASE t # "main"
    BY <1>3, <2>2 DEF Threads
  <2> QED BY <2>1, <2>2
<1>8. Walk'
  <2>1. SUFFICES ASSUME todo'["main"] # <<>>, Head(todo'["main"]) = "check_save" PROVE FALSE
    BY DEF Walk
  <2>2. CASE t # "main"
    <3>1. todo["main"] # <<>> /\ Head(todo["main"]) = "check_save"
      BY <1>3, <2>1, <2>2 DEF Threads
    <3>2. Holds("main")
      BY <3>1, NoQuestion
    <3> QED BY <1>1, <2>2, <3>2, AtWork DEF Threads
  <2>3. CASE t = "main"
    <3>1. r \in Seq(Plain) /\ Tail(todo[t]) \in Seq(Plain)
      BY <1>1, <1>2, RestIsPlain DEF Mild, Tame, Plain
    <3>2. r \o Tail(todo[t]) \in Seq(Plain)
      BY <3>1
    <3>3. todo'["main"] \in Seq(Plain)
      BY <1>3, <2>3, <3>2, Zenon
    <3> QED BY <2>1, <3>3 DEF Plain
  <2> QED BY <2>2, <2>3
<1>9. Settled'
  BY <1>1, <1>7, <1>s, Zenon DEF EInv, Settled, AllKept
<1> QED BY <1>5, <1>6, <1>7, <1>8, <1>9 DEF EInv

\* Each of the operations that are mild does.
LEMMA MildStepsKeep ==
    ASSUME Careful, Discreet, IInv, IInv', KInv, EInv, NEW t \in Threads,
           \/ TrackBeg(t) \/ TrackEnd(t) \/ PutMouse(t) \/ SetXY(t) \/ NextFile(t)
           \/ New(t) \/ Load(t) \/ OpenFile(t) \/ Save(t) \/ Close(t) \/ Drop(t) \/ Abort(t)
    PROVE  EInv'
<1>1. Holds(t) /\ todo[t] # <<>> /\ Head(todo[t]) \in Mild /\ pc' = pc
  <2>1. {"track_beg", "track_end", "put_mouse", "set_xy", "NextFile", "New", "Load", "OpenFile",
         "Save", "Close", "close", "Abort"} \subseteq Mild
    BY DEF Mild, Tame, Steps, Commands, Inner, Changing
  <2> QED BY <2>1 DEF TrackBeg, TrackEnd, PutMouse, SetXY, NextFile, New, Load, OpenFile, Save, Close,
                      Drop, Abort, Takes, Quiet
<1>2. /\ boxes \in Seq(Box) /\ Kept(boxes) /\ cur \in DOMAIN boxes /\ boxes[cur] \in Box
      /\ \A i \in DOMAIN boxes : boxes[i] \in Box
  BY <1>1, AtWorkKept
<1>3. \E r \in Seq(Mild) : Then(t, r)
  <2>1. Dispatch("kbOpen") \in Seq(Mild) /\ Dispatch("kbClose") \o <<"close">> \in Seq(Mild)
    BY MildOrders DEF Pseudo
  <2> QED BY <2>1, MildSteps DEF TrackBeg, TrackEnd, PutMouse, SetXY, NextFile, New, Load, OpenFile, Save,
                                 Close, Drop, Abort
<1>4. ASSUME UNCHANGED <<shutdown, aborted>>, AllKept(boxes) => AllKept(boxes')
      PROVE  EInv'
  BY <1>1, <1>3, <1>4, MildlyKeeps DEF Mildly
<1>5. CASE Abort(t)
  BY <1>1, <1>3, <1>5, MildlyKeeps DEF Mildly, Abort
<1>6. CASE TrackBeg(t) \/ TrackEnd(t)
  <2>1. \A i \in DOMAIN boxes : Begun(boxes[i]).kept = boxes[i].kept /\ Ended(boxes[i]).kept = boxes[i].kept
    BY <1>2, MildKept
  <2> QED BY <1>4, <1>6, <2>1 DEF TrackBeg, TrackEnd, SetBoxes, Quiet, AllKept
<1>7. CASE PutMouse(t) \/ SetXY(t)
  <2>1. boxes' = [boxes EXCEPT ![cur] = Note(boxes[cur], t, "cursor")] /\ UNCHANGED <<shutdown, aborted>>
    BY <1>7 DEF PutMouse, SetXY, SetCurrent, SetBoxes, Quiet
  <2>2. Note(boxes[cur], t, "cursor").kept = boxes[cur].kept
    BY <1>2, MildKept
  <2> QED BY <1>2, <1>4, <2>1, <2>2 DEF AllKept
<1>8. CASE NextFile(t) \/ Load(t) \/ Close(t)
  BY <1>4, <1>8 DEF NextFile, Load, Close, files, Quiet
<1>9. CASE New(t)
  <2>1. Fresh \in Box /\ Fresh.kept # {}
    BY NewBoxes DEF Fresh
  <2> QED BY <1>2, <1>4, <1>9, <2>1, OpenedKept DEF New, Quiet
<1>10. CASE OpenFile(t)
  <2>1. UNCHANGED <<shutdown, aborted>>
    BY <1>10 DEF OpenFile, Quiet
  <2>2. CASE boxes' = boxes
    BY <1>4, <2>1, <2>2
  <2>3. CASE boxes' # boxes
    <3>1. PICK name \in Names, exists \in BOOLEAN :
             boxes' \in {Append(boxes, Loaded(name, exists)), [boxes EXCEPT ![cur] = Loaded(name, exists)]}
      BY <1>10, <2>3 DEF OpenFile
    <3>2. Loaded(name, exists) \in Box /\ Loaded(name, exists).kept # {}
      BY NewBoxes DEF Loaded, Fresh
    <3> QED BY <1>2, <1>4, <2>1, <3>1, <3>2, OpenedKept
  <2> QED BY <2>2, <2>3
<1>11. CASE Save(t)
  <2>1. UNCHANGED <<shutdown, aborted>>
    BY <1>11 DEF Save, Quiet
  <2>2. CASE boxes' = boxes
    BY <1>4, <2>1, <2>2
  <2>3. CASE boxes' # boxes
    <3>1. \/ boxes[cur].name # Untitled /\ boxes' = Saved(boxes, cur, t)
          \/ \E name \in NewNames(cur) : boxes' \in {NamedAt(cur, t, name), Saved(NamedAt(cur, t, name), cur, t)}
      BY <1>11, <2>3 DEF Save
    <3>2. DOMAIN boxes' = DOMAIN boxes /\ \A i \in DOMAIN boxes' : boxes[i].kept # {} => boxes'[i].kept # {}
      BY <1>2, <3>1, NamedSavedKept
    <3> QED BY <1>4, <2>1, <3>2 DEF AllKept
  <2> QED BY <2>2, <2>3
<1>12. CASE Drop(t)
  <2>1. UNCHANGED <<shutdown, aborted>>
    BY <1>12 DEF Drop, Quiet
  <2>2. boxes' = boxes \/ boxes' = IF Len(boxes) = 1 THEN <<Fresh>> ELSE RemoveAt(boxes, cur)
    BY <1>12 DEF Drop, RemoveBox, files
  <2> QED BY <1>2, <1>4, <2>1, <2>2, ClosedKept
<1> QED BY <1>5, <1>6, <1>7, <1>8, <1>9, <1>10, <1>11, <1>12

\* Only main changes texts and asks the questions of Exit, and not any more
\* when it has left its loop.
LEMMA OnlyMain ==
    ASSUME IInv, EInv, NEW t \in Threads, Holds(t), todo[t] # <<>>, Head(todo[t]) \notin Mild
    PROVE  t = "main" /\ pc["main"] = "in" /\ todo["main"] \in Seq(Steps) /\ todo \in [Threads -> Seq(Steps)]
<1>1. todo \in [Threads -> Seq(Steps)]
  BY DEF IInv, TypeOK, Steps
<1>2. todo[t] \notin Seq(Mild)
  OBVIOUS
<1>3. t = "main"
  BY <1>2 DEF EInv, Others
<1>4. pc["main"] # "inlast"
  BY <1>2, <1>3 DEF EInv, Leaving
<1> QED BY <1>1, <1>3, <1>4 DEF Holds, Threads

\* A change: either shutdown is not set, or an Exit is still to come.
LEMMA ChangesKeep ==
    ASSUME IInv, EInv, NEW t \in Threads, Type(t) \/ Undo(t)
    PROVE  EInv'
<1>1. /\ Holds(t) /\ todo[t] # <<>> /\ Head(todo[t]) \in Changing /\ Then(t, <<>>)
      /\ UNCHANGED <<pc, shutdown, aborted>>
  BY DEF Type, Undo, Takes, Quiet, Changing
<1>2. Head(todo[t]) \notin Mild /\ Head(todo[t]) # "check_save"
  BY <1>1 DEF Mild, Tame, Changing
<1>3. /\ t = "main" /\ pc["main"] = "in"
      /\ todo["main"] \in Seq(Steps) /\ todo \in [Threads -> Seq(Steps)]
  BY <1>1, <1>2, OnlyMain
<1>4. /\ todo'["main"] = <<>> \o Tail(todo["main"])
      /\ \A u \in Threads \ {"main"} : todo'[u] = todo[u]
  BY <1>1, <1>3 DEF Then, Threads
<1>5. /\ Ordered(todo["main"]) => Ordered(todo'["main"])
      /\ Late(todo["main"]) => Late(todo'["main"]) /\ Awaits(todo'["main"])
  BY <1>1, <1>3, <1>4, Fronted, MildSteps
<1>6. Others' /\ Leaving'
  BY <1>1, <1>3, <1>4 DEF EInv, Others, Leaving
<1>7. Walk'
  <2>1. Tail(todo["main"]) \in Seq(Plain)
    BY <1>1, <1>2, <1>3, RestIsPlain
  <2>2. todo'["main"] \in Seq(Plain)
    BY <1>4, <2>1
  <2> QED BY <2>2 DEF Walk, Plain
<1>8. Settled'
  <2>1. (shutdown <=> shutdown') /\ (aborted <=> aborted') /\ pc' = pc
    BY <1>1
  <2> QED BY <1>5, <2>1, Zenon DEF EInv, Settled
<1> QED BY <1>5, <1>6, <1>7, <1>8 DEF EInv

\* Exit begins to ask, with the current file.
LEMMA BeginsToAsk ==
    ASSUME IInv, EInv, NEW t \in Threads, Exit(t)
    PROVE  EInv'
<1>1. /\ Holds(t) /\ todo[t] # <<>> /\ Head(todo[t]) = "Exit" /\ Then(t, <<"check_save">>)
      /\ UNCHANGED <<pc, shutdown, aborted, boxes, cur>> /\ first' = cur
  BY DEF Exit, Takes, files
<1>2. /\ t = "main" /\ pc["main"] = "in"
      /\ todo["main"] \in Seq(Steps) /\ todo \in [Threads -> Seq(Steps)]
  BY <1>1, OnlyMain DEF Mild, Tame
<1>3. /\ todo'["main"] = <<"check_save">> \o Tail(todo["main"])
      /\ \A u \in Threads \ {"main"} : todo'[u] = todo[u]
  BY <1>1, <1>2 DEF Then, Threads
<1>4. Ordered(todo'["main"]) /\ Late(todo'["main"])
  BY <1>1, <1>2, <1>3, Fronted, MildSteps DEF EInv
<1>5. Awaits(todo'["main"])
  <2>1. DOMAIN todo'["main"] # {} /\ todo'["main"][1] = "check_save" /\ 1 \in DOMAIN todo'["main"]
    <3>1. Tail(todo["main"]) \in Seq(Steps) /\ <<"check_save">> \in Seq(Steps)
      <4>1. Tail(todo["main"]) \in Seq(Steps)
        BY <1>1, <1>2
      <4>2. <<"check_save">> \in Seq(Steps)
        BY DEF Steps, Inner
      <4> QED BY <4>1, <4>2
    <3> QED BY <1>3, <3>1
  <2> QED BY <2>1 DEF Awaits
<1>6. Others' /\ Leaving'
  BY <1>1, <1>2, <1>3 DEF EInv, Others, Leaving
<1>7. Walk'
  <2>1. cur \in Nat
    BY DEF IInv, TypeOK
  <2>2. ASSUME NEW i \in DOMAIN boxes
        PROVE  ~Visited(i)'
    <3>1. i \in Nat
      BY <1>1, AtWork
    <3> QED BY <1>1, <2>1, <3>1 DEF Visited
  <2> QED BY <1>1, <1>4, <2>2 DEF Walk
<1>8. Settled'
  <2>1. pc' = pc /\ pc["main"] = "in"
    BY <1>1, <1>2
  <2> QED BY <1>4, <1>5, <2>1 DEF Settled
<1> QED BY <1>4, <1>6, <1>7, <1>8 DEF EInv

\* From the next file on, one more file is visited; back at the first, all are.
LEMMA NextVisited ==
    ASSUME boxes \in Seq(Box), cur \in DOMAIN boxes, first \in DOMAIN boxes, NEW i \in DOMAIN boxes, i # cur
    PROVE  /\ Next1 = first => Visited(i)
           /\ Next1 # first /\ first' = first /\ cur' = Next1 => (Visited(i)' => Visited(i))
<1>1. Len(boxes) \in Nat \ {0} /\ DOMAIN boxes = 1 .. Len(boxes)
  OBVIOUS
<1>2. Next1 = IF cur = Len(boxes) THEN 1 ELSE cur + 1
  <2>1. CASE cur = Len(boxes)
    BY <1>1, <2>1 DEF Next1
  <2>2. CASE cur # Len(boxes)
    <3>1. cur \in 0 .. Len(boxes) - 1
      BY <1>1, <2>2
    <3>2. cur % Len(boxes) = cur
      BY <1>1, <3>1
    <3> QED BY <2>2, <3>2 DEF Next1
  <2> QED BY <2>1, <2>2
<1> QED BY <1>1, <1>2 DEF Visited

\* One question is answered: with Yes, or No, or it is not asked.
LEMMA AsksNext ==
    ASSUME Careful, IInv, IInv', KInv, EInv, NEW t \in Threads, CheckSave(t)
    PROVE  EInv'
<1>1. Holds(t) /\ todo[t] # <<>> /\ Head(todo[t]) = "check_save" /\ UNCHANGED <<pc, aborted>>
  BY DEF CheckSave, Takes
<1>2. /\ t = "main" /\ pc["main"] = "in"
      /\ todo["main"] \in Seq(Steps) /\ todo \in [Threads -> Seq(Steps)]
  BY <1>1, OnlyMain DEF Mild
<1>3. /\ boxes \in Seq(Box) /\ Kept(boxes) /\ cur \in DOMAIN boxes
      /\ boxes[cur] \in Box /\ Droppable(boxes[cur]) /\ first \in DOMAIN boxes
  BY <1>1, <1>2, AtWorkKept, NoQuestion
<1>4. PICK bs : /\ AskNext(t, bs) /\ DOMAIN bs = DOMAIN boxes /\ bs[cur].kept # {}
                /\ \A i \in DOMAIN boxes : boxes[i].kept # {} => bs[i].kept # {}
  <2>1. CASE boxes[cur].saved /\ AskNext(t, boxes)
    BY <1>3, <2>1 DEF Droppable
  <2>2. CASE AskNext(t, [boxes EXCEPT ![cur] = Asked(@)])
    <3> DEFINE cs == [boxes EXCEPT ![cur] = Asked(boxes[cur])]
    <3>1. Asked(boxes[cur]).kept # {}
      BY <1>3, MildKept
    <3>2. /\ DOMAIN cs = DOMAIN boxes /\ cs[cur].kept # {}
          /\ \A i \in DOMAIN boxes : boxes[i].kept # {} => cs[i].kept # {}
      BY <1>3, <3>1
    <3>3. AskNext(t, cs)
      BY <2>2
    <3> HIDE DEF cs
    <3> QED BY <3>2, <3>3
  <2>3. ASSUME NEW bs, AskNext(t, bs), ~boxes[cur].saved,
               \/ boxes[cur].name # Untitled /\ bs = Saved(boxes, cur, t)
               \/ \E name \in NewNames(cur) : bs = Saved(NamedAt(cur, t, name), cur, t)
        PROVE  /\ DOMAIN bs = DOMAIN boxes /\ bs[cur].kept # {}
               /\ \A i \in DOMAIN boxes : boxes[i].kept # {} => bs[i].kept # {}
    BY <1>3, <2>3, NamedSavedKept
  <2> QED BY <2>1, <2>2, <2>3 DEF CheckSave
<1>5. boxes' = bs /\ cur' = Next1
  BY <1>4 DEF AskNext
<1>6. /\ Late(todo["main"]) /\ Ordered(todo["main"])
      /\ \A i \in DOMAIN boxes : Visited(i) => bs[i].kept # {}
  BY <1>1, <1>2, <1>4 DEF EInv, Walk
<1>7. CASE Next1 = first
  <2>1. shutdown' = TRUE /\ Then(t, <<>>)
    BY <1>4, <1>7 DEF AskNext
  <2>2. /\ todo'["main"] = <<>> \o Tail(todo["main"])
        /\ \A u \in Threads \ {"main"} : todo'[u] = todo[u]
    BY <1>2, <2>1 DEF Then, Threads
  <2>3. Ordered(todo'["main"]) /\ Late(todo'["main"])
    BY <1>1, <1>2, <1>6, <2>2, Fronted, MildSteps
  <2>4. AllKept(boxes')
    BY <1>3, <1>4, <1>5, <1>6, <1>7, NextVisited DEF AllKept
  <2>5. Others' /\ Leaving'
    BY <1>1, <1>2, <2>2 DEF EInv, Others, Leaving
  <2>6. Walk'
    <3>1. todo'["main"] \in Seq(Plain)
      BY <1>1, <1>2, <2>2, NoQuestion
    <3> QED BY <3>1 DEF Walk, Plain
  <2>7. Settled'
    BY <1>1, <1>2, <2>3, <2>4 DEF Settled, AllKept
  <2> QED BY <2>3, <2>5, <2>6, <2>7 DEF EInv
<1>8. CASE Next1 # first
  <2>1. UNCHANGED <<shutdown, first, todo>>
    BY <1>4, <1>8 DEF AskNext
  <2>2. Others' /\ Leaving' /\ Ordered(todo'["main"])
    BY <1>1, <1>2, <1>6, <2>1 DEF EInv, Others, Leaving
  <2>3. \A i \in DOMAIN boxes' : Visited(i)' => boxes'[i].kept # {}
    BY <1>3, <1>4, <1>5, <1>6, <1>8, <2>1, NextVisited
  <2>4. Walk'
    BY <1>6, <2>1, <2>3 DEF Walk
  <2>5. Awaits(todo["main"])
    BY <1>1, <1>2 DEF Awaits
  <2>6. Settled'
    BY <1>1, <1>2, <1>6, <2>1, <2>5 DEF Settled
  <2> QED BY <2>2, <2>4, <2>6 DEF EInv
<1> QED BY <1>7, <1>8

\* Cancel, or a save that fails: the editor goes on.
LEMMA CancelKeeps ==
    ASSUME IInv, EInv, NEW t \in Threads, ExitCancelled(t)
    PROVE  EInv'
<1>1. /\ Holds(t) /\ todo[t] # <<>> /\ Head(todo[t]) = "check_save" /\ Then(t, <<>>)
      /\ UNCHANGED <<pc, aborted>> /\ shutdown' = FALSE
  BY DEF ExitCancelled, Takes
<1>2. /\ t = "main" /\ pc["main"] = "in"
      /\ todo["main"] \in Seq(Steps) /\ todo \in [Threads -> Seq(Steps)]
  BY <1>1, OnlyMain DEF Mild
<1>3. /\ todo'["main"] = <<>> \o Tail(todo["main"])
      /\ \A u \in Threads \ {"main"} : todo'[u] = todo[u]
  BY <1>1, <1>2 DEF Then, Threads
<1>4. Ordered(todo'["main"])
  BY <1>1, <1>2, <1>3, Fronted, MildSteps DEF EInv
<1>5. Others' /\ Leaving' /\ Settled'
  BY <1>1, <1>2, <1>3 DEF EInv, Others, Leaving, Settled
<1>6. Walk'
  <2>1. todo'["main"] \in Seq(Plain)
    BY <1>1, <1>2, <1>3, NoQuestion
  <2> QED BY <2>1 DEF Walk, Plain
<1> QED BY <1>4, <1>5, <1>6 DEF EInv

-----------------------------------------------------------------------------
(***************************************************************************)
(* The steps without the mutex, and the end.                               *)
(***************************************************************************)

\* The other threads ask for mild steps only, and leave main where it is.
LEMMA OthersOutside ==
    ASSUME EInv, NEW t \in Threads \ {"main"}, UNCHANGED <<boxes, cur, shutdown, first, aborted>>,
           todo \in [Threads -> Seq(Steps)], pc \in [Threads -> Places],
           NEW place \in Places, Goto(t, place),
           todo' = todo \/ \E s \in Seq(Mild) : todo' = [todo EXCEPT ![t] = s]
    PROVE  EInv'
<1>1. pc'["main"] = pc["main"] /\ todo'["main"] = todo["main"]
  BY DEF Goto, Threads
<1>2. Others'
  BY DEF EInv, Others
<1>3. Leaving' /\ Walk' /\ Settled'
  BY <1>1 DEF EInv, Leaving, Walk, Visited, Settled
<1> QED BY <1>1, <1>2, <1>3 DEF EInv

\* The other loops keep it.
LEMMA OthersLoop ==
    ASSUME Discreet, IInv, EInv,
           \/ TimerTick \/ MouseWait \/ MouseEvent \/ PipeWait \/ PipeMessage
           \/ \E u \in {"timer", "mouse", "pipe"} : Leave(u)
           \/ \E u \in Threads \ {"main"} : Lock(u) \/ Unlock(u)
    PROVE  EInv'
<1>1. /\ todo \in [Threads -> Seq(Steps)] /\ pc \in [Threads -> Places]
      /\ {"timer", "mouse", "pipe"} = Threads \ {"main"}
      /\ {"test", "event", "message", "want", "in", "inlast", "done", "left"} \subseteq Places
  BY DEF IInv, TypeOK, Steps, Threads, Places
<1>2. CASE MouseWait \/ PipeWait
  BY <1>1, <1>2, OthersOutside DEF MouseWait, PipeWait, files
<1>3. ASSUME NEW u \in {"timer", "mouse", "pipe"}, Leave(u)
      PROVE  EInv'
  BY <1>1, <1>3, OthersOutside DEF Leave, files
<1>4. ASSUME NEW u \in Threads \ {"main"}, Lock(u) \/ Unlock(u)
      PROVE  EInv'
  BY <1>1, <1>4, OthersOutside DEF Lock, Unlock, files
<1>5. CASE TimerTick
  <2>1. PICK key \in {"kbTimer", "kbActivate"} : Ask("timer", Dispatch(key))
    BY <1>5 DEF TimerTick
  <2>2. Dispatch(key) \in Seq(Mild)
    BY MildOrders DEF Pseudo
  <2> QED BY <1>1, <1>5, <2>1, <2>2, OthersOutside DEF TimerTick, Ask, files
<1>6. CASE MouseEvent
  <2>1. Tracked(<<"put_mouse">>) \in Seq(Mild)
    BY MildOrders
  <2> QED BY <1>1, <1>6, <2>1, OthersOutside DEF MouseEvent, Ask, files
<1>7. CASE PipeMessage
  <2>1. CASE shutdown
    BY <1>1, <1>7, <2>1, OthersOutside DEF PipeMessage, files
  <2>2. CASE ~shutdown
    <3>1. PICK m \in Messages : Ask("pipe", Handler(m))
      BY <1>7, <2>2 DEF PipeMessage
    <3>2. Handler(m) \in Seq(Mild)
      BY MildOrders
    <3> QED BY <1>1, <1>7, <3>1, <3>2, OthersOutside DEF PipeMessage, Ask, files
  <2> QED BY <2>1, <2>2
<1> QED BY <1>2, <1>3, <1>4, <1>5, <1>6, <1>7

\* main goes round its loop, and out of it when shutdown is set: then all files
\* may be dropped, as it has no step left.
LEMMA MainLoop ==
    ASSUME Careful, Discreet, IInv, EInv,
           \/ MainTest \/ MainDraw \/ MainRead \/ MainLeave \/ Done \/ Lock("main") \/ Unlock("main")
    PROVE  EInv'
<1>1. /\ todo \in [Threads -> Seq(Steps)] /\ pc \in [Threads -> Places] /\ "main" \in Threads
      /\ shutdown \in BOOLEAN /\ aborted \in BOOLEAN
  BY DEF IInv, TypeOK, Steps, Threads
<1>2. UNCHANGED <<boxes, cur, first, aborted>> /\ \A u \in Threads \ {"main"} : todo'[u] = todo[u]
  BY <1>1 DEF MainTest, MainDraw, MainRead, MainLeave, Done, Lock, Unlock, Ask, files
<1>3. Others'
  BY <1>2 DEF EInv, Others
<1>4. ASSUME todo' = todo, ~Holds("main") \/ todo["main"] = <<>>
      PROVE  Walk' /\ Ordered(todo'["main"])
  <2>1. ~(todo["main"] # <<>> /\ Head(todo["main"]) = "check_save")
    BY <1>4, NoQuestion
  <2> QED BY <1>4, <2>1 DEF Walk, EInv
<1>5. todo["main"] = <<>> => (Settled => (shutdown /\ ~aborted /\ pc["main"] # "over" => AllKept(boxes)))
  <2>1. todo["main"] = <<>> => ~Awaits(todo["main"])
    BY MildSteps
  <2> QED BY <2>1 DEF Settled
<1>6. CASE MainTest
  <2>1. pc'["main"] = "draw" /\ todo' = todo /\ ~shutdown' /\ ~Holds("main")
    BY <1>1, <1>6 DEF MainTest, Goto, Holds
  <2>2. Leaving' /\ Settled'
    BY <2>1 DEF Leaving, Settled
  <2> QED BY <1>3, <1>4, <2>1, <2>2 DEF EInv
<1>7. CASE MainDraw
  <2>1. pc["main"] = "draw" /\ pc'["main"] = "read" /\ todo' = todo /\ shutdown' = shutdown /\ ~Holds("main")
    BY <1>1, <1>7 DEF MainDraw, Goto, Holds
  <2>2. Leaving' /\ Settled'
    BY <1>1, <1>2, <2>1 DEF EInv, Leaving, Settled
  <2> QED BY <1>3, <1>4, <2>1, <2>2 DEF EInv
<1>8. CASE MainRead
  <2>1. PICK key \in Keys, n \in Reps : Ask("main", Repeated(DispatchKey(key), n))
    BY <1>8 DEF MainRead
  <2>2. pc["main"] = "read" /\ pc'["main"] = "want" /\ todo'["main"] = Repeated(DispatchKey(key), n)
        /\ shutdown' = shutdown
    BY <1>1, <1>8, <2>1 DEF MainRead, Ask, Goto
  <2>3. Repeated(DispatchKey(key), n) \in Seq(Safe) /\ Ordered(Repeated(DispatchKey(key), n))
    BY SafeOrders DEF Discreet
  <2>4. Walk'
    BY <2>2, <2>3 DEF Walk, Safe, Plain
  <2>5. Leaving' /\ Settled'
    BY <1>1, <1>2, <2>2 DEF EInv, Leaving, Settled
  <2> QED BY <1>3, <2>2, <2>3, <2>4, <2>5 DEF EInv
<1>9. CASE MainLeave
  <2>1. /\ pc["main"] = "test" /\ pc'["main"] = "wantlast" /\ todo'["main"] = Dispatch("kbDone")
        /\ shutdown /\ shutdown' = shutdown
    BY <1>1, <1>9 DEF MainLeave, Goto
  <2>2. todo["main"] = <<>>
    BY <1>1, <2>1 DEF IInv, TypeOK, Holds
  <2>3. Dispatch("kbDone") \in Seq(Mild)
    BY MildOrders DEF Pseudo
  <2>4. Late(todo'["main"]) /\ Ordered(todo'["main"])
    BY <2>1, <2>3, MildSteps
  <2>5. Walk'
    BY <2>1, <2>3 DEF Walk, Mild
  <2>6. Leaving'
    BY <2>1, <2>3 DEF Leaving
  <2>7. Settled'
    BY <1>1, <1>2, <1>5, <2>1, <2>2, <2>4 DEF EInv, Settled, AllKept
  <2> QED BY <1>3, <2>4, <2>5, <2>6, <2>7 DEF EInv
<1>10. CASE Done
  <2>1. pc["main"] = "done" /\ pc'["main"] = "wantall" /\ todo' = todo /\ shutdown' /\ ~Holds("main")
    BY <1>1, <1>10 DEF Done, Goto, Holds
  <2>2. todo["main"] \in Seq(Mild) /\ shutdown
    BY <2>1 DEF EInv, Leaving
  <2>3. Leaving' /\ Settled'
    BY <1>1, <1>2, <2>1, <2>2 DEF EInv, Leaving, Settled, AllKept
  <2> QED BY <1>3, <1>4, <2>1, <2>3 DEF EInv
<1>11. CASE Lock("main")
  <2>1. /\ \/ pc["main"] = "want" /\ pc'["main"] = "in"
           \/ pc["main"] = "wantlast" /\ pc'["main"] = "inlast"
        /\ todo' = todo /\ shutdown' = shutdown /\ ~Holds("main")
    BY <1>1, <1>11 DEF Lock, Goto, Holds
  <2>2. Leaving' /\ Settled'
    BY <1>1, <1>2, <2>1 DEF EInv, Leaving, Settled, AllKept
  <2> QED BY <1>3, <1>4, <2>1, <2>2 DEF EInv
<1>12. CASE Unlock("main")
  <2>1. /\ \/ pc["main"] = "in" /\ pc'["main"] = "test"
           \/ pc["main"] = "inlast" /\ pc'["main"] = "done"
        /\ todo' = todo /\ shutdown' = shutdown /\ todo["main"] = <<>>
    BY <1>1, <1>12 DEF Unlock, Goto, Holds
  <2>2. Leaving' /\ Settled'
    BY <1>1, <1>2, <2>1 DEF EInv, Leaving, Settled, AllKept
  <2> QED BY <1>3, <1>4, <2>1, <2>2 DEF EInv
<1> QED BY <1>6, <1>7, <1>8, <1>9, <1>10, <1>11, <1>12

\* Done frees the files when each of them may be dropped.
LEMMA RemovalLosesNone ==
    ASSUME IInv, EInv, ~lost, DoneRemoveAll
    PROVE  EInv' /\ ~lost'
<1>1. /\ pc["main"] = "wantall" /\ pc' = [pc EXCEPT !["main"] = "over"] /\ todo' = todo
      /\ lost' = (lost \/ (~aborted /\ \E i \in DOMAIN boxes : boxes[i].kept = {}))
  BY DEF DoneRemoveAll, Goto
<1>2. pc'["main"] = "over" /\ ~Holds("main")
  BY <1>1 DEF IInv, TypeOK, Threads, Holds
<1>3. todo["main"] \in Seq(Mild) /\ shutdown
  BY <1>1 DEF EInv, Leaving
<1>4. aborted \/ AllKept(boxes)
  BY <1>1, <1>3, MildSteps DEF EInv, Settled
<1>5. ~lost'
  BY <1>1, <1>4 DEF AllKept
<1>6. Walk'
  BY <1>1, <1>2, NoQuestion DEF Walk
<1>7. Others' /\ Leaving' /\ Settled' /\ Ordered(todo'["main"])
  BY <1>1, <1>2 DEF EInv, Others, Leaving, Settled
<1> QED BY <1>5, <1>6, <1>7 DEF EInv

\* It holds at the start
LEMMA InitAsks == ASSUME Discreet PROVE Init => EInv /\ ~lost
<1> SUFFICES ASSUME Init PROVE EInv /\ ~lost
  OBVIOUS
<1>1. /\ pc["main"] = "want" /\ todo["main"] = Dispatch("kbInit") /\ shutdown = FALSE /\ lost = FALSE
      /\ \A t \in Threads \ {"main"} : todo[t] = <<>>
  BY DEF Init, Threads
<1>2. Others
  BY <1>1, MildSteps DEF Others
<1>3. Dispatch("kbInit") \in Seq(Plain)
  BY OrdersOfThreads DEF Order, Pseudo
<1>4. Walk
  BY <1>1, <1>3 DEF Walk, Plain
<1> QED BY <1>1, <1>2, <1>4 DEF EInv, Leaving, Settled, Discreet

\* and every step keeps it.
LEMMA NextAsks ==
    ASSUME Careful, Discreet
    PROVE  IInv /\ KInv /\ NInv /\ EInv /\ ~lost /\ [Next]_vars => EInv' /\ ~lost'
<1> SUFFICES ASSUME IInv, KInv, NInv, EInv, ~lost, [Next]_vars PROVE EInv' /\ ~lost'
  OBVIOUS
<1>1. IInv' /\ KInv'
  BY NextKeeps, NextKept
<1>2. ASSUME NEW t \in Threads, Step(t)
      PROVE  EInv' /\ ~lost'
  <2>1. CASE Lock(t) \/ Unlock(t)
    <3>1. EInv'
      BY <1>2, <2>1, OthersLoop, MainLoop
    <3> QED BY <2>1, <3>1 DEF Lock, Unlock, files
  <2>2. CASE ~(Lock(t) \/ Unlock(t))
    <3>1. Holds(t) /\ pc' = pc
      BY <1>2, <2>2 DEF Step, TrackBeg, TrackEnd, Type, PutMouse, SetXY, NextFile, Undo, New, Load, OpenFile,
                        Save, SaveAll, Close, Drop, Exit, CheckSave, ExitCancelled, Abort, Takes, Quiet
    <3>2. ~lost'
      BY <1>2, AtWorkLoses
    <3>3. EInv'
      BY <1>1, <1>2, <2>2, SaveAllNever, MildStepsKeep, ChangesKeep, BeginsToAsk, AsksNext, CancelKeeps DEF Step
    <3> QED BY <3>2, <3>3
  <2> QED BY <2>1, <2>2
<1>3. CASE UNCHANGED vars
  BY <1>3 DEF vars, EInv, Others, Leaving, Walk, Visited, Settled, AllKept
<1>4. CASE MainTest \/ MainDraw \/ MainRead \/ MainLeave \/ Done
  <2>1. ~lost'
    BY <1>4 DEF MainTest, MainDraw, MainRead, MainLeave, Done, files
  <2> QED BY <1>4, <2>1, MainLoop
<1>5. CASE \/ TimerTick \/ MouseWait \/ MouseEvent \/ PipeWait \/ PipeMessage
           \/ \E u \in {"timer", "mouse", "pipe"} : Leave(u)
  <2>1. ~lost'
    BY <1>5 DEF TimerTick, MouseWait, MouseEvent, PipeWait, PipeMessage, Leave, files
  <2> QED BY <1>5, <2>1, OthersLoop
<1>6. CASE DoneRemoveAll
  BY <1>6, RemovalLosesNone
<1>7. "main" \in Threads /\ "timer" \in Threads /\ "mouse" \in Threads /\ "pipe" \in Threads
  BY DEF Threads
<1> QED BY <1>2, <1>3, <1>4, <1>5, <1>6, <1>7 DEF Next, Main, Timer, Mouse, Pipe, Outside, Over

-----------------------------------------------------------------------------
\* Exit asks about every file: when the editor ends, by Exit and not by Abort,
\* each text it drops is on disk, empty, or one the user was asked about, whatever
\* the other threads open, name, save and close while Exit is under way and
\* between its questions and Done (check_save of EditBoxCollection, fed.cpp).
THEOREM ExitAsksForAll == ASSUME Careful, Discreet, Tidy PROVE Spec => []NothingLostUnasked
<1>1. Init => EInv /\ ~lost
  BY InitAsks
<1>2. IInv /\ KInv /\ NInv /\ EInv /\ ~lost /\ [Next]_vars => EInv' /\ ~lost'
  BY NextAsks
<1>3. EInv /\ ~lost => NothingLostUnasked
  BY DEF NothingLostUnasked
<1> QED BY <1>1, <1>2, <1>3, InvariantHolds, KeptAlways, NotedAlways, PTL DEF Spec
=============================================================================
