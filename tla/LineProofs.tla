----------------------------- MODULE LineProofs -----------------------------
(***************************************************************************)
(* The difference of two lines takes the new one back to the old one,      *)
(* for any two lines: gen_diff and apply_diff of line.cpp fit together.    *)
(*                                                                         *)
(* A line has no Nul in it (its text is a C string), and that is all that  *)
(* is needed of its characters.  The argument follows the loops.  undo     *)
(* over the runs of some operations is in the same place, and has put out  *)
(* the same, as one operation at a time (UndoneAppend); after each round   *)
(* of diff_str it has put out the part of the old line that was passed,    *)
(* and stands in the new line where diff_str does (DiffPrefix).            *)
(***************************************************************************)
EXTENDS Line, TLAPS

DiffRound(p, d, c)    == DiffChar(d, c)
RunsRound(p, runs, o) == AddToRuns(runs, o)
ApplyRound(p, acc, r) == ApplyRun(acc, r, p)
DiffFold == INSTANCE Folding WITH Op <- DiffRound
RunsFold == INSTANCE Folding WITH Op <- RunsRound
UndoFold == INSTANCE Folding WITH Op <- ApplyRound

\* the operations of diff_str and their runs, over the characters S
Ops(S)  == [op : {"EQ", "ADD", "SUB"}, ch : S]
Runs(S) == [op : {"EQ", "ADD", "SUB"}, cnt : Nat, chars : Seq(S)]

RunsOf(ops)      == FoldLeft(AddToRuns, <<>>, ops)
Undone(ops, new) == UndoFold!Fold("undo", [base |-> new, pos |-> 0, out |-> <<>>], RunsOf(ops))

-----------------------------------------------------------------------------
\* The runs are a fold over the operations.
LEMMA RunsOfIsFold == \A p, ops : RunsOf(ops) = RunsFold!Fold(p, <<>>, ops)
  BY DEF RunsOf, RunsFold!Fold, RunsRound, FoldLeft, MapThenFoldSet, Max,
         RunsFold!FoldLeft, RunsFold!MapThenFoldSet, RunsFold!Max

\* So is the loop of diff_str over the old line,
LEMMA DiffIsFold ==
    \A p, old, new : FoldLeft(DiffChar, [new |-> new, start |-> 1, ops |-> <<>>], old)
                        = DiffFold!Fold(p, [new |-> new, start |-> 1, ops |-> <<>>], old)
  BY DEF DiffFold!Fold, DiffRound, FoldLeft, MapThenFoldSet, Max,
         DiffFold!FoldLeft, DiffFold!MapThenFoldSet, DiffFold!Max

\* and that of apply_diff over the runs; its result ends at no Nul when there is none.
LEMMA ApplyIsFold ==
    ASSUME NEW runs, NEW new
    PROVE  LET out  == UndoFold!Fold("undo", [base |-> new, pos |-> 0, out |-> <<>>], runs).out
               stop == {i \in 1 .. Len(out) : out[i] = Nul}
           IN stop = {} => ApplyDiff(runs, new, "undo") = out
  BY DEF ApplyDiff, UndoFold!Fold, ApplyRound, FoldLeft, MapThenFoldSet, Max,
         UndoFold!FoldLeft, UndoFold!MapThenFoldSet, UndoFold!Max

-----------------------------------------------------------------------------
(***************************************************************************)
(* undo over the runs, one operation at a time.                            *)
(***************************************************************************)
Accs(new, S) == [base : {new}, pos : Nat, out : Seq(S \cup {Nul})]

\* what one operation adds to what undo has done
After(u, o) ==
    [base |-> u.base,
     pos  |-> IF o.op = "ADD" THEN u.pos ELSE u.pos + 1,
     out  |-> IF o.op = "EQ" THEN Append(u.out, CharAt(u.base, u.pos))
              ELSE IF o.op = "ADD" THEN Append(u.out, o.ch) ELSE u.out]

\* char_at answers a character of the line, or Nul.
LEMMA CharAtType ==
    ASSUME NEW S, NEW s \in Seq(S), NEW i \in Nat
    PROVE  CharAt(s, i) \in S \cup {Nul}
  BY DEF CharAt

\* What is not empty is its front and its last.
LEMMA LastRun ==
    ASSUME NEW S, NEW runs \in Seq(S), runs # <<>>
    PROVE  Front(runs) \in Seq(S) /\ Last(runs) \in S /\ runs = Append(Front(runs), Last(runs))
  BY DEF Front, Last

\* the two ways in which an operation comes into the runs: a run of its own, or the last one grows
Data(o)     == IF o.op = "EQ" THEN <<>> ELSE <<o.ch>>
NewRun(o)   == [op |-> o.op, cnt |-> 1, chars |-> Data(o)]
Grown(l, o) == [op |-> l.op, cnt |-> l.cnt + 1, chars |-> l.chars \o Data(o)]

\* What an operation has to put out is characters.
LEMMA DataType == ASSUME NEW S, NEW o \in Ops(S) PROVE Data(o) \in Seq(S)
  BY DEF Data, Ops

\* A run of one operation is a run,
LEMMA NewRunType == ASSUME NEW S, NEW o \in Ops(S) PROVE NewRun(o) \in Runs(S)
  BY DataType DEF NewRun, Runs, Ops

\* and so is one that grew.
LEMMA GrownType ==
    ASSUME NEW S, NEW l \in Runs(S), NEW o \in Ops(S)
    PROVE  Grown(l, o) \in Runs(S)
<1>1. l.chars \o Data(o) \in Seq(S) /\ l.cnt + 1 \in Nat /\ l.op \in {"EQ", "ADD", "SUB"}
  BY DataType DEF Runs
<1> QED BY <1>1 DEF Grown, Runs

\* gen_diff makes the last run grow like that.
LEMMA GrownRun ==
    ASSUME NEW S, NEW r \in Runs(S), NEW o \in Ops(S)
    PROVE  [r EXCEPT !.cnt = @ + 1, !.chars = @ \o Data(o)] = Grown(r, o)
<1> DEFINE x == [r EXCEPT !.cnt = @ + 1, !.chars = @ \o Data(o)]
<1>1. x = [f \in DOMAIN r |-> IF f = "chars" THEN r.chars \o Data(o) ELSE IF f = "cnt" THEN r.cnt + 1 ELSE r[f]]
  BY Zenon
<1>2. DOMAIN r = {"op", "cnt", "chars"}
  BY DEF Runs
<1> HIDE DEF x
<1>3. x = [op |-> r.op, cnt |-> r.cnt + 1, chars |-> r.chars \o Data(o)]
  BY <1>1, <1>2
<1> QED BY <1>3 DEF x, Grown

IsAdded(S, runs, o) ==
    \/ AddToRuns(runs, o) = Append(runs, NewRun(o))
    \/ \E f \in Seq(Runs(S)), l \in Runs(S) :
          runs = Append(f, l) /\ l.op = o.op /\ AddToRuns(runs, o) = Append(f, Grown(l, o))

\* An operation comes into the runs in one of the two ways.
LEMMA AddToRunsCases ==
    ASSUME NEW S, NEW runs \in Seq(Runs(S)), NEW o \in Ops(S)
    PROVE  IsAdded(S, runs, o)
<1> DEFINE l == Last(runs)
<1>1. CASE runs # <<>> /\ l.op = o.op /\ l.cnt < MaxCnt
  <2>1. Front(runs) \in Seq(Runs(S)) /\ l \in Runs(S) /\ runs = Append(Front(runs), l)
    BY <1>1, LastRun
  <2>2. AddToRuns(runs, o) = Front(runs) \o <<[l EXCEPT !.cnt = @ + 1, !.chars = @ \o Data(o)]>>
    BY <1>1 DEF AddToRuns, Data
  <2> HIDE DEF l
  <2>3. AddToRuns(runs, o) = Front(runs) \o <<Grown(l, o)>>
    BY <2>1, <2>2, GrownRun
  <2>4. Grown(l, o) \in Runs(S)
    BY <2>1, GrownType
  <2>5. Front(runs) \o <<Grown(l, o)>> = Append(Front(runs), Grown(l, o))
    BY <2>1, <2>4
  <2> QED BY <1>1, <2>1, <2>3, <2>5 DEF IsAdded
<1>2. CASE ~(runs # <<>> /\ l.op = o.op /\ l.cnt < MaxCnt)
  BY <1>2 DEF AddToRuns, NewRun, Data, IsAdded
<1> QED BY <1>1, <1>2

\* Both leave runs,
LEMMA AddToRunsType ==
    ASSUME NEW S, NEW runs \in Seq(Runs(S)), NEW o \in Ops(S)
    PROVE  AddToRuns(runs, o) \in Seq(Runs(S))
<1>1. \A f \in Seq(Runs(S)), r \in Runs(S) : Append(f, r) \in Seq(Runs(S))
  OBVIOUS
<1>2. CASE AddToRuns(runs, o) = Append(runs, NewRun(o))
  BY <1>1, <1>2, NewRunType
<1>3. ASSUME NEW f \in Seq(Runs(S)), NEW l \in Runs(S), AddToRuns(runs, o) = Append(f, Grown(l, o))
      PROVE  AddToRuns(runs, o) \in Seq(Runs(S))
  BY <1>1, <1>3, GrownType
<1> QED BY <1>2, <1>3, AddToRunsCases DEF IsAdded

\* so any operations have runs.
LEMMA RunsOfType ==
    ASSUME NEW S, NEW ops \in Seq(Ops(S))
    PROVE  RunsOf(ops) \in Seq(Runs(S))
<1>1. <<>> \in Seq(Runs(S))
  OBVIOUS
<1>2. \A runs \in Seq(Runs(S)), o \in Ops(S) : RunsRound(0, runs, o) \in Seq(Runs(S))
  BY AddToRunsType DEF RunsRound
<1>3. RunsFold!Fold(0, <<>>, ops) \in Seq(Runs(S))
  BY <1>1, <1>2, RunsFold!FoldIsIn
<1> QED BY <1>3, RunsOfIsFold

\* a run, field by field
Copied(acc, n) == [i \in 1 .. n |-> CharAt(acc.base, acc.pos + i - 1)]
Applied(acc, run) ==
    [base |-> acc.base,
     pos  |-> IF run.op = "ADD" THEN acc.pos ELSE acc.pos + run.cnt,
     out  |-> IF run.op = "EQ" THEN acc.out \o Copied(acc, run.cnt)
              ELSE IF run.op = "ADD" THEN acc.out \o run.chars ELSE acc.out]

\* What apply does with a run when it undoes.
LEMMA ApplyRunIs ==
    ASSUME NEW S, NEW new, NEW acc \in Accs(new, S), NEW run \in Runs(S)
    PROVE  ApplyRun(acc, run, "undo") = Applied(acc, run)
<1>1. DOMAIN acc = {"base", "pos", "out"}
  BY DEF Accs
<1>2. CASE run.op = "EQ"
  <2> DEFINE x == [acc EXCEPT !.out = @ \o Copied(acc, run.cnt), !.pos = @ + run.cnt]
  <2>1. x = [f \in DOMAIN acc |-> IF f = "pos" THEN acc.pos + run.cnt
                                  ELSE IF f = "out" THEN acc.out \o Copied(acc, run.cnt) ELSE acc[f]]
    BY Zenon
  <2>2. ApplyRun(acc, run, "undo") = x
    BY <1>2 DEF ApplyRun, Copied
  <2> HIDE DEF x
  <2>3. x = [base |-> acc.base, pos |-> acc.pos + run.cnt, out |-> acc.out \o Copied(acc, run.cnt)]
    BY <1>1, <2>1
  <2> QED BY <1>2, <2>2, <2>3 DEF Applied
<1>3. CASE run.op = "ADD"
  <2> DEFINE x == [acc EXCEPT !.out = @ \o run.chars]
  <2>1. x = [f \in DOMAIN acc |-> IF f = "out" THEN acc.out \o run.chars ELSE acc[f]]
    BY Zenon
  <2>2. ApplyRun(acc, run, "undo") = x
    BY <1>3 DEF ApplyRun
  <2> HIDE DEF x
  <2>3. x = [base |-> acc.base, pos |-> acc.pos, out |-> acc.out \o run.chars]
    BY <1>1, <2>1
  <2> QED BY <1>3, <2>2, <2>3 DEF Applied
<1>4. CASE run.op = "SUB"
  <2> DEFINE x == [acc EXCEPT !.pos = @ + run.cnt]
  <2>1. x = [f \in DOMAIN acc |-> IF f = "pos" THEN acc.pos + run.cnt ELSE acc[f]]
    BY Zenon
  <2>2. ApplyRun(acc, run, "undo") = x
    BY <1>4 DEF ApplyRun
  <2> HIDE DEF x
  <2>3. x = [base |-> acc.base, pos |-> acc.pos + run.cnt, out |-> acc.out]
    BY <1>1, <2>1
  <2> QED BY <1>4, <2>2, <2>3 DEF Applied
<1> QED BY <1>2, <1>3, <1>4 DEF Runs

\* An element at the end of two sequences.
LEMMA AppendToConcat ==
    ASSUME NEW T, NEW s \in Seq(T), NEW t \in Seq(T), NEW x \in T
    PROVE  s \o <<x>> = Append(s, x) /\ s \o Append(t, x) = Append(s \o t, x)
  OBVIOUS

\* What is copied are characters of the new line, or Nul.
LEMMA CopiedType ==
    ASSUME NEW S, NEW new \in Seq(S), NEW acc \in Accs(new, S), NEW n \in Nat
    PROVE  Copied(acc, n) \in Seq(S \cup {Nul})
<1> DEFINE T == S \cup {Nul}
           c == Copied(acc, n)
<1>1. acc.base = new /\ acc.pos \in Nat
  BY DEF Accs
<1>2. \A i \in 1 .. n : CharAt(acc.base, acc.pos + i - 1) \in T
  <2> TAKE i \in 1 .. n
  <2>1. acc.pos + i - 1 \in Nat
    BY <1>1
  <2> QED BY <1>1, <2>1, CharAtType
<1> HIDE DEF T
<1>3. c \in [1 .. n -> T]
  BY <1>2 DEF Copied
<1> HIDE DEF c
<1>4. c \in Seq(T)
  BY <1>3
<1> QED BY <1>4 DEF T, c

\* One character more is copied.
LEMMA CopiedMore ==
    ASSUME NEW S, NEW new \in Seq(S), NEW acc \in Accs(new, S), NEW n \in Nat
    PROVE  Copied(acc, n + 1) = Append(Copied(acc, n), CharAt(new, acc.pos + n))
<1> DEFINE T == S \cup {Nul}
           a == Copied(acc, n)
           b == Copied(acc, n + 1)
           x == CharAt(new, acc.pos + n)
<1>1. acc.base = new /\ acc.pos \in Nat
  BY DEF Accs
<1>2. a \in Seq(T) /\ b \in Seq(T)
  BY CopiedType
<1>3. Len(a) = n /\ Len(b) = n + 1
  <2>1. DOMAIN a = 1 .. n /\ DOMAIN b = 1 .. n + 1
    BY DEF Copied
  <2> HIDE DEF a, b
  <2> QED BY <1>2, <2>1
<1>4. \A i \in 1 .. n : b[i] = a[i]
  BY DEF Copied
<1>5. b[n + 1] = x
  <2>1. b[n + 1] = CharAt(acc.base, acc.pos + (n + 1) - 1)
    BY DEF Copied
  <2>2. acc.pos + (n + 1) - 1 = acc.pos + n
    BY <1>1
  <2> QED BY <1>1, <2>1, <2>2
<1>6. x \in T
  <2>1. acc.pos + n \in Nat
    BY <1>1
  <2> QED BY <2>1, CharAtType
<1> HIDE DEF a, b, x, T
<1>7. b = Append(a, x)
  BY <1>2, <1>3, <1>4, <1>5, <1>6
<1> QED BY <1>7 DEF a, b, x

\* apply leaves a state of its loop.
LEMMA ApplyRunType ==
    ASSUME NEW S, NEW new \in Seq(S), NEW acc \in Accs(new, S), NEW run \in Runs(S)
    PROVE  ApplyRun(acc, run, "undo") \in Accs(new, S)
<1>1. acc.base = new /\ acc.pos \in Nat /\ acc.out \in Seq(S \cup {Nul}) /\ run.cnt \in Nat
      /\ run.chars \in Seq(S \cup {Nul}) /\ run.op \in {"EQ", "ADD", "SUB"}
  BY DEF Accs, Runs
<1>2. Copied(acc, run.cnt) \in Seq(S \cup {Nul})
  BY <1>1, CopiedType
<1>3. acc.out \o Copied(acc, run.cnt) \in Seq(S \cup {Nul})
      /\ acc.out \o run.chars \in Seq(S \cup {Nul}) /\ acc.pos + run.cnt \in Nat
  BY <1>1, <1>2
<1>4. Applied(acc, run) \in Accs(new, S)
  BY <1>1, <1>3 DEF Applied, Accs
<1> QED BY <1>4, ApplyRunIs

\* A run of one operation does what that operation does.
LEMMA ApplyNewRun ==
    ASSUME NEW S, NEW new \in Seq(S), NEW u \in Accs(new, S), NEW o \in Ops(S)
    PROVE  ApplyRun(u, NewRun(o), "undo") = After(u, o)
<1>1. u.base = new /\ u.pos \in Nat /\ u.out \in Seq(S \cup {Nul}) /\ o.ch \in S \cup {Nul}
      /\ o.op \in {"EQ", "ADD", "SUB"}
  BY DEF Accs, Ops
<1>2. ApplyRun(u, NewRun(o), "undo") = Applied(u, NewRun(o))
  BY NewRunType, ApplyRunIs
<1>3. o.op = "EQ" => u.out \o Copied(u, 1) = Append(u.out, CharAt(u.base, u.pos))
  <2> DEFINE T == S \cup {Nul}
             x == CharAt(u.base, u.pos)
             c == Copied(u, 1)
  <2>1. x \in T /\ u.out \in Seq(T)
    BY <1>1, CharAtType
  <2>2. u.pos + 1 - 1 = u.pos
    BY <1>1
  <2>3. c = <<x>>
    <3>1. c \in Seq(T)
      BY CopiedType
    <3>2. DOMAIN c = 1 .. 1 /\ c[1] = x
      BY <2>2 DEF Copied
    <3> HIDE DEF c, x, T
    <3> QED BY <2>1, <3>1, <3>2
  <2> HIDE DEF c, x, T
  <2>4. u.out \o c = Append(u.out, x)
    BY <2>1, <2>3
  <2> QED BY <2>4 DEF c, x
<1>4. o.op = "ADD" => u.out \o <<o.ch>> = Append(u.out, o.ch)
  BY <1>1
<1> QED BY <1>1, <1>2, <1>3, <1>4 DEF Applied, After, NewRun, Data

\* A run that grew by an operation does what the run did, and then the operation.
LEMMA ApplyGrown ==
    ASSUME NEW S, NEW new \in Seq(S), NEW f \in Accs(new, S), NEW l \in Runs(S), NEW o \in Ops(S),
           l.op = o.op
    PROVE  ApplyRun(f, Grown(l, o), "undo") = After(ApplyRun(f, l, "undo"), o)
<1>1. f.base = new /\ f.pos \in Nat /\ f.out \in Seq(S \cup {Nul}) /\ o.ch \in S \cup {Nul}
      /\ o.op \in {"EQ", "ADD", "SUB"} /\ l.cnt \in Nat /\ l.chars \in Seq(S \cup {Nul})
  BY DEF Accs, Ops, Runs
<1>2. ApplyRun(f, Grown(l, o), "undo") = Applied(f, Grown(l, o)) /\ ApplyRun(f, l, "undo") = Applied(f, l)
  BY GrownType, ApplyRunIs
<1> DEFINE T == S \cup {Nul}
           out == f.out
           chars == l.chars
           ch == o.ch
<1>3. out \o Copied(f, l.cnt + 1) = Append(out \o Copied(f, l.cnt), CharAt(new, f.pos + l.cnt))
  <2> DEFINE c == Copied(f, l.cnt)
             x == CharAt(new, f.pos + l.cnt)
  <2>1. Copied(f, l.cnt + 1) = Append(c, x)
    BY <1>1, CopiedMore
  <2>2. c \in Seq(T) /\ out \in Seq(T)
    BY <1>1, CopiedType
  <2>3. f.pos + l.cnt \in Nat
    BY <1>1
  <2>4. x \in T
    BY <2>3, CharAtType
  <2> HIDE DEF T, out, c, x
  <2>5. out \o Append(c, x) = Append(out \o c, x)
    BY <2>2, <2>4
  <2> QED BY <2>1, <2>5 DEF c, x
<1>4. out \o (chars \o <<ch>>) = Append(out \o chars, ch)
  <2>1. out \in Seq(T) /\ chars \in Seq(T) /\ ch \in T
    BY <1>1
  <2> HIDE DEF T, out, chars, ch
  <2> QED BY <2>1
<1>5. f.pos + (l.cnt + 1) = f.pos + l.cnt + 1
  BY <1>1
<1> DEFINE a == Applied(f, l)
           b == Applied(f, Grown(l, o))
<1>6. CASE o.op = "EQ"
  <2>1. b = [base |-> f.base, pos |-> f.pos + (l.cnt + 1), out |-> f.out \o Copied(f, l.cnt + 1)]
    BY <1>6 DEF Applied, Grown
  <2>2. a.base = f.base /\ a.pos = f.pos + l.cnt /\ a.out = f.out \o Copied(f, l.cnt)
    BY <1>6 DEF Applied
  <2>3. After(a, o) = [base |-> a.base, pos |-> a.pos + 1, out |-> Append(a.out, CharAt(a.base, a.pos))]
    BY <1>6 DEF After
  <2> HIDE DEF a, b
  <2>4. b = After(a, o)
    BY <1>1, <1>3, <1>5, <2>1, <2>2, <2>3
  <2> QED BY <1>2, <2>4 DEF a, b
<1>7. CASE o.op = "ADD"
  <2>1. b = [base |-> f.base, pos |-> f.pos, out |-> f.out \o (l.chars \o <<o.ch>>)]
    BY <1>7 DEF Applied, Grown, Data
  <2>2. a.base = f.base /\ a.pos = f.pos /\ a.out = f.out \o l.chars
    BY <1>7 DEF Applied
  <2>3. After(a, o) = [base |-> a.base, pos |-> a.pos, out |-> Append(a.out, o.ch)]
    BY <1>7 DEF After
  <2> HIDE DEF a, b
  <2>4. b = After(a, o)
    BY <1>4, <1>7, <2>1, <2>2, <2>3
  <2> QED BY <1>2, <2>4 DEF a, b
<1>8. CASE o.op = "SUB"
  <2>1. b = [base |-> f.base, pos |-> f.pos + (l.cnt + 1), out |-> f.out]
    BY <1>8 DEF Applied, Grown
  <2>2. a.base = f.base /\ a.pos = f.pos + l.cnt /\ a.out = f.out
    BY <1>8 DEF Applied
  <2>3. After(a, o) = [base |-> a.base, pos |-> a.pos + 1, out |-> a.out]
    BY <1>8 DEF After
  <2> HIDE DEF a, b
  <2>4. b = After(a, o)
    BY <1>5, <2>1, <2>2, <2>3
  <2> QED BY <1>2, <2>4 DEF a, b
<1> QED BY <1>1, <1>6, <1>7, <1>8

\* undo over any operations leaves a state of its loop.
LEMMA UndoneType ==
    ASSUME NEW S, NEW new \in Seq(S), NEW ops \in Seq(Ops(S))
    PROVE  Undone(ops, new) \in Accs(new, S)
<1> DEFINE start == [base |-> new, pos |-> 0, out |-> <<>>]
<1>1. start \in Accs(new, S)
  BY DEF Accs
<1>2. \A acc \in Accs(new, S), r \in Runs(S) : ApplyRound("undo", acc, r) \in Accs(new, S)
  BY ApplyRunType DEF ApplyRound
<1>3. RunsOf(ops) \in Seq(Runs(S))
  BY RunsOfType
<1> HIDE DEF start
<1>4. UndoFold!Fold("undo", start, RunsOf(ops)) \in Accs(new, S)
  BY <1>1, <1>2, <1>3, UndoFold!FoldIsIn
<1> QED BY <1>4 DEF Undone, start

\* Undo over the runs of some operations and one more does what that one does last.
LEMMA UndoneAppend ==
    ASSUME NEW S, NEW new \in Seq(S), NEW ops \in Seq(Ops(S)), NEW o \in Ops(S)
    PROVE  Undone(Append(ops, o), new) = After(Undone(ops, new), o)
<1> DEFINE start == [base |-> new, pos |-> 0, out |-> <<>>]
           runs == RunsOf(ops)
<1>0. start \in Accs(new, S)
  BY DEF Accs
<1>1. \A acc \in Accs(new, S), r \in Runs(S) : ApplyRound("undo", acc, r) \in Accs(new, S)
  BY ApplyRunType DEF ApplyRound
<1>2. \A rs \in Seq(Runs(S)) : UndoFold!Fold("undo", start, rs) \in Accs(new, S)
  BY <1>0, <1>1, UndoFold!FoldIsIn
<1>3. runs \in Seq(Runs(S))
  BY RunsOfType
<1>4. RunsOf(Append(ops, o)) = AddToRuns(runs, o)
  <2>1. RunsFold!Fold(0, <<>>, Append(ops, o)) = RunsRound(0, RunsFold!Fold(0, <<>>, ops), o)
    BY RunsFold!FoldAppend
  <2> QED BY <2>1, RunsOfIsFold DEF RunsRound
<1> HIDE DEF start, runs
<1>5. \A rs \in Seq(Runs(S)), r \in Runs(S) :
          UndoFold!Fold("undo", start, Append(rs, r)) = ApplyRun(UndoFold!Fold("undo", start, rs), r, "undo")
  BY UndoFold!FoldAppend DEF ApplyRound
<1> DEFINE u == UndoFold!Fold("undo", start, runs)
           v == UndoFold!Fold("undo", start, AddToRuns(runs, o))
<1>6. u \in Accs(new, S)
  BY <1>2, <1>3
<1>7. v = After(u, o)
  <2>1. CASE AddToRuns(runs, o) = Append(runs, NewRun(o))
    BY <1>3, <1>5, <1>6, <2>1, NewRunType, ApplyNewRun
  <2>2. ASSUME NEW f \in Seq(Runs(S)), NEW l \in Runs(S), runs = Append(f, l), l.op = o.op,
               AddToRuns(runs, o) = Append(f, Grown(l, o))
        PROVE  v = After(u, o)
    <3> DEFINE w == UndoFold!Fold("undo", start, f)
    <3>1. w \in Accs(new, S)
      BY <1>2
    <3>2. Grown(l, o) \in Runs(S)
      BY GrownType
    <3>3. v = ApplyRun(w, Grown(l, o), "undo") /\ u = ApplyRun(w, l, "undo")
      BY <1>5, <2>2, <3>2
    <3> HIDE DEF u, v, w
    <3> QED BY <2>2, <3>1, <3>3, ApplyGrown
  <2> HIDE DEF u, v
  <2>3. IsAdded(S, runs, o)
    BY <1>3, AddToRunsCases
  <2> QED BY <2>1, <2>2, <2>3 DEF IsAdded
<1> QED BY <1>4, <1>7 DEF Undone, start, runs

\* characters that are only passed over in the new line
LEMMA UndoneSubs ==
    ASSUME NEW S, NEW new \in Seq(S), NEW ops \in Seq(Ops(S)), NEW chars \in Seq(S)
    PROVE  /\ ops \o Op("SUB", chars) \in Seq(Ops(S))
           /\ Undone(ops \o Op("SUB", chars), new).out = Undone(ops, new).out
           /\ Undone(ops \o Op("SUB", chars), new).pos = Undone(ops, new).pos + Len(chars)
<1> DEFINE u == Undone(ops, new)
           on(cs) == ops \o Op("SUB", cs)
           T == {cs \in Seq(S) : /\ on(cs) \in Seq(Ops(S))
                                 /\ Undone(on(cs), new).out = u.out
                                 /\ Undone(on(cs), new).pos = u.pos + Len(cs)}
<1>1. u.pos \in Nat
  <2>1. <<>> \in Seq(S)
    OBVIOUS
  <2> QED BY UndoneType DEF Accs
<1>2. <<>> \in T
  <2>1. Op("SUB", <<>>) = <<>>
    BY DEF Op
  <2>2. on(<<>>) = ops
    BY <2>1
  <2>3. <<>> \in Seq(S) /\ Len(<<>>) = 0
    OBVIOUS
  <2> HIDE DEF on, u
  <2>4. Undone(ops, new).pos = u.pos + 0 /\ Undone(ops, new).out = u.out
    BY <1>1 DEF u
  <2> QED BY <2>2, <2>3, <2>4
<1>3. ASSUME NEW cs \in Seq(S), NEW c \in S, cs \in T PROVE Append(cs, c) \in T
  <2> DEFINE o == [op |-> "SUB", ch |-> c]
             before == on(cs)
             after == on(Append(cs, c))
  <2>1. o \in Ops(S)
    BY DEF Ops
  <2>2. Op("SUB", Append(cs, c)) = Append(Op("SUB", cs), o)
    BY DEF Op
  <2>3. Op("SUB", cs) \in Seq(Ops(S))
    BY DEF Op, Ops
  <2> HIDE DEF o
  <2>4. after = Append(before, o)
    <3> DEFINE w == Op("SUB", cs)
               T0 == Ops(S)
    <3>1. w \in Seq(T0) /\ o \in T0 /\ ops \in Seq(T0)
      BY <2>1, <2>3
    <3>2. after = ops \o Append(w, o)
      BY <2>2
    <3> HIDE DEF w, T0, after
    <3>3. ops \o Append(w, o) = Append(ops \o w, o)
      BY <3>1
    <3> QED BY <3>2, <3>3 DEF w
  <2>5. before \in Seq(Ops(S)) /\ Undone(before, new).out = u.out /\ Undone(before, new).pos = u.pos + Len(cs)
    BY <1>3
  <2>6. Append(cs, c) \in Seq(S) /\ Len(Append(cs, c)) = Len(cs) + 1
    OBVIOUS
  <2> HIDE DEF before, after, u, T
  <2>7. Undone(after, new) = After(Undone(before, new), o)
    BY <2>1, <2>4, <2>5, UndoneAppend
  <2>8. Undone(after, new).out = u.out /\ Undone(after, new).pos = u.pos + (Len(cs) + 1)
    <3>1. Undone(after, new).out = Undone(before, new).out
          /\ Undone(after, new).pos = Undone(before, new).pos + 1
      BY <2>7 DEF After, o
    <3> DEFINE at == u.pos
               n == Len(cs)
    <3>2. Undone(after, new).pos = (at + n) + 1
      BY <2>5, <3>1
    <3>3. at \in Nat /\ n \in Nat
      BY <1>1
    <3> HIDE DEF at, n
    <3>4. (at + n) + 1 = at + (n + 1)
      BY <3>3
    <3> QED BY <2>5, <3>1, <3>2, <3>4 DEF at, n
  <2>9. after \in Seq(Ops(S))
    BY <2>1, <2>4, <2>5
  <2> QED BY <2>6, <2>8, <2>9 DEF T, after
<1> HIDE DEF T
<1>4. chars \in T
  BY <1>2, <1>3, UndoFold!SeqIsIn
<1> QED BY <1>4 DEF T

-----------------------------------------------------------------------------
(***************************************************************************)
(* The rounds of diff_str.                                                 *)
(***************************************************************************)
\* what diff_str has after the part s of the old line
DiffPassed(d, s, new, S) ==
    /\ DOMAIN d = {"new", "start", "ops"}
    /\ d.new = new /\ d.start \in 1 .. Len(new) + 1 /\ d.ops \in Seq(Ops(S))
    /\ Undone(d.ops, new).out = s
    /\ Undone(d.ops, new).pos = d.start - 1

\* One character makes one operation.
LEMMA OneOp == \A op, c : Op(op, <<c>>) = <<[op |-> op, ch |-> c]>>
  BY DEF Op

\* A round of diff_str passes one character of the old line.
LEMMA DiffCharPasses ==
    ASSUME NEW S, NEW new \in Seq(S), NEW s \in Seq(S), NEW c \in S, NEW d, DiffPassed(d, s, new, S)
    PROVE  DiffPassed(DiffChar(d, c), Append(s, c), new, S)
<1> DEFINE start == d.start
           ops == d.ops
           found == {j \in start .. Len(new) : new[j] = c}
           e == DiffChar(d, c)
<1>1. /\ DOMAIN d = {"new", "start", "ops"}
      /\ d.new = new /\ start \in 1 .. Len(new) + 1 /\ ops \in Seq(Ops(S))
      /\ Undone(ops, new).out = s /\ Undone(ops, new).pos = start - 1
  BY DEF DiffPassed
<1>2. Undone(ops, new).base = new
  <2> HIDE DEF ops
  <2> QED BY <1>1, UndoneType DEF Accs
<1>3. CASE found = {}
  <2> DEFINE o == [op |-> "ADD", ch |-> c]
             x == [d EXCEPT !.ops = @ \o Op("ADD", <<c>>)]
  <2>1. e = x
    BY <1>1, <1>3 DEF DiffChar
  <2>2. o \in Ops(S)
    BY DEF Ops
  <2>3. x = [f \in DOMAIN d |-> IF f = "ops" THEN ops \o <<o>> ELSE d[f]]
    BY OneOp, Zenon
  <2>4. DOMAIN x = {"new", "start", "ops"} /\ x.new = new /\ x.start = start /\ x.ops = ops \o <<o>>
    BY <1>1, <2>3
  <2> HIDE DEF x, e, ops, start, o
  <2>5. ops \o <<o>> = Append(ops, o) /\ Append(ops, o) \in Seq(Ops(S))
    BY <1>1, <2>2
  <2>6. Undone(Append(ops, o), new) = After(Undone(ops, new), o)
    BY <1>1, <2>2, UndoneAppend
  <2>7. Undone(Append(ops, o), new).out = Append(s, c) /\ Undone(Append(ops, o), new).pos = start - 1
    BY <1>1, <2>6 DEF After, o
  <2> QED BY <1>1, <2>1, <2>4, <2>5, <2>7 DEF DiffPassed, e
<1>4. CASE found # {}
  <2> DEFINE j == CHOOSE j \in found : \A k \in found : j <= k
             o == [op |-> "EQ", ch |-> c]
             gap == SubSeq(new, start, j - 1)
             mid == ops \o Op("SUB", gap)
             x == [d EXCEPT !.ops = @ \o Op("SUB", gap) \o Op("EQ", <<c>>), !.start = j + 1]
  <2>1. e = x
    BY <1>1, <1>4 DEF DiffChar
  <2>2. j \in found
    <3>1. found \in SUBSET Nat
      BY <1>1
    <3>2. \E n \in found : \A m \in found : n <= m
      <4> HIDE DEF found
      <4> QED BY <1>4, <3>1, UndoFold!Least
    <3> QED BY <3>2, Zenon
  <2> HIDE DEF j
  <2>3. j \in Nat /\ start \in Nat /\ start <= j /\ 1 <= start /\ j <= Len(new) /\ new[j] = c
    BY <1>1, <2>2
  <2>4. o \in Ops(S)
    BY DEF Ops
  <2>5. x = [f \in DOMAIN d |-> IF f = "start" THEN j + 1 ELSE IF f = "ops" THEN mid \o <<o>> ELSE d[f]]
    BY OneOp, Zenon
  <2> HIDE DEF x, mid
  <2>6. DOMAIN x = {"new", "start", "ops"} /\ x.new = new /\ x.start = j + 1 /\ x.ops = mid \o <<o>>
    BY <1>1, <2>5
  <2> HIDE DEF e, ops, start, o, found
  <2>7. gap \in Seq(S) /\ Len(gap) = j - start
    BY <2>3
  <2> HIDE DEF gap
  <2>8. mid \in Seq(Ops(S)) /\ Undone(mid, new).out = s /\ Undone(mid, new).pos = j - 1
    <3>1. mid \in Seq(Ops(S)) /\ Undone(mid, new).out = s /\ Undone(mid, new).pos = start - 1 + (j - start)
      BY <1>1, <2>7, UndoneSubs DEF mid
    <3>2. start - 1 + (j - start) = j - 1
      BY <2>3
    <3> QED BY <3>1, <3>2
  <2>9. mid \o <<o>> = Append(mid, o) /\ Append(mid, o) \in Seq(Ops(S))
    BY <2>4, <2>8
  <2>10. Undone(mid, new).base = new
    BY <2>8, UndoneType DEF Accs
  <2>11. Undone(Append(mid, o), new) = After(Undone(mid, new), o)
    BY <2>4, <2>8, UndoneAppend
  <2>12. CharAt(new, j - 1) = c
    <3>1. j - 1 \in 0 .. Len(new) - 1 /\ j - 1 + 1 = j
      BY <2>3
    <3> QED BY <2>3, <3>1 DEF CharAt
  <2>13. Undone(Append(mid, o), new).out = Append(s, c) /\ Undone(Append(mid, o), new).pos = j + 1 - 1
    <3>1. Undone(Append(mid, o), new).out = Append(s, CharAt(new, j - 1))
          /\ Undone(Append(mid, o), new).pos = j - 1 + 1
      BY <2>8, <2>10, <2>11 DEF After, o
    <3>2. j - 1 + 1 = j + 1 - 1
      BY <2>3
    <3> QED BY <2>12, <3>1, <3>2
  <2>14. j + 1 \in 1 .. Len(new) + 1
    BY <2>3
  <2>15. x.start - 1 = j + 1 - 1
    <3>1. x.start = j + 1
      BY <2>6
    <3> QED BY <2>3, <3>1
  <2>16. x.start \in 1 .. Len(new) + 1 /\ x.ops \in Seq(Ops(S)) /\ Undone(x.ops, new).out = Append(s, c)
         /\ Undone(x.ops, new).pos = x.start - 1
    BY <2>6, <2>9, <2>13, <2>14, <2>15
  <2>17. DiffPassed(x, Append(s, c), new, S)
    BY <2>6, <2>16 DEF DiffPassed
  <2> QED BY <2>1, <2>17 DEF e
<1> QED BY <1>3, <1>4

\* All of them pass the old line.
LEMMA DiffPasses ==
    ASSUME NEW S, NEW new \in Seq(S), NEW old \in Seq(S)
    PROVE  DiffPassed(FoldLeft(DiffChar, [new |-> new, start |-> 1, ops |-> <<>>], old), old, new, S)
<1> DEFINE first == [new |-> new, start |-> 1, ops |-> <<>>]
           d(s) == DiffFold!Fold(0, first, s)
           T == {s \in Seq(S) : DiffPassed(d(s), s, new, S)}
<1>1. <<>> \in T
  <2>1. d(<<>>) = first
    BY DiffFold!FoldEmpty
  <2>2. RunsOf(<<>>) = <<>>
    BY RunsOfIsFold, RunsFold!FoldEmpty
  <2>3. Undone(<<>>, new) = [base |-> new, pos |-> 0, out |-> <<>>]
    BY <2>2, UndoFold!FoldEmpty DEF Undone
  <2>4. first.ops = <<>> /\ first.start = 1 /\ first.new = new /\ DOMAIN first = {"new", "start", "ops"}
    OBVIOUS
  <2>5. 1 \in 1 .. Len(new) + 1 /\ <<>> \in Seq(S) /\ <<>> \in Seq(Ops(S))
    OBVIOUS
  <2> HIDE DEF first, d
  <2>6. DiffPassed(first, <<>>, new, S)
    BY <2>3, <2>4, <2>5 DEF DiffPassed
  <2> QED BY <2>1, <2>5, <2>6
<1>2. ASSUME NEW s \in Seq(S), NEW c \in S, s \in T PROVE Append(s, c) \in T
  <2>1. d(Append(s, c)) = DiffChar(d(s), c)
    <3> HIDE DEF first
    <3>1. DiffFold!Fold(0, first, Append(s, c)) = DiffRound(0, DiffFold!Fold(0, first, s), c)
      BY DiffFold!FoldAppend
    <3> QED BY <3>1 DEF DiffRound
  <2> HIDE DEF d
  <2>2. Append(s, c) \in Seq(S)
    OBVIOUS
  <2> QED BY <1>2, <2>1, <2>2, DiffCharPasses
<1> HIDE DEF T
<1>3. old \in T
  BY <1>1, <1>2, UndoFold!SeqIsIn
<1>4. DiffPassed(d(old), old, new, S)
  BY <1>3 DEF T
<1> QED BY <1>4, DiffIsFold

\* What is kept of a difference are runs.
LEMMA GenDiffType ==
    ASSUME NEW S, NEW old \in Seq(S), NEW new \in Seq(S)
    PROVE  GenDiff(old, new) \in Seq(Runs(S))
<1> DEFINE d == FoldLeft(DiffChar, [new |-> new, start |-> 1, ops |-> <<>>], old)
           rest == SubSeq(new, d.start, Len(new))
           ops == DiffOps(old, new)
<1>1. ops = d.ops \o Op("SUB", rest)
  BY DEF DiffOps
<1>2. DiffPassed(d, old, new, S)
  BY DiffPasses
<1> HIDE DEF d, ops
<1>3. rest \in Seq(S)
  BY <1>2 DEF DiffPassed
<1> HIDE DEF rest
<1>4. ops \in Seq(Ops(S))
  BY <1>1, <1>2, <1>3, UndoneSubs DEF DiffPassed
<1> QED BY <1>4, RunsOfType DEF GenDiff, RunsOf, ops

(***************************************************************************)
(* The difference of two lines, applied to the new one, gives back the old *)
(* one, whatever the lines, and however many runs a byte's count makes of  *)
(* them (gen_diff, apply_diff).                                            *)
(***************************************************************************)
THEOREM DiffIsExact ==
    ASSUME NEW S, Nul \notin S, NEW old \in Seq(S), NEW new \in Seq(S)
    PROVE  ApplyDiff(GenDiff(old, new), new, "undo") = old
<1> DEFINE d == FoldLeft(DiffChar, [new |-> new, start |-> 1, ops |-> <<>>], old)
           rest == SubSeq(new, d.start, Len(new))
           ops == DiffOps(old, new)
<1>1. ops = d.ops \o Op("SUB", rest)
  BY DEF DiffOps
<1>2. DiffPassed(d, old, new, S)
  BY DiffPasses
<1> HIDE DEF d, ops
<1>3. rest \in Seq(S)
  BY <1>2 DEF DiffPassed
<1> HIDE DEF rest
<1>4. Undone(ops, new).out = old
  <2>1. Undone(d.ops \o Op("SUB", rest), new).out = Undone(d.ops, new).out
    BY <1>2, <1>3, UndoneSubs DEF DiffPassed
  <2> QED BY <1>1, <1>2, <2>1 DEF DiffPassed
<1>5. GenDiff(old, new) = RunsOf(ops)
  BY DEF GenDiff, RunsOf, ops
<1> DEFINE out == UndoFold!Fold("undo", [base |-> new, pos |-> 0, out |-> <<>>], RunsOf(ops)).out
<1>6. out = old
  BY <1>4 DEF Undone
<1>7. {i \in 1 .. Len(old) : old[i] = Nul} = {}
  OBVIOUS
<1>8. {i \in 1 .. Len(out) : out[i] = Nul} = {}
  BY <1>6, <1>7
<1>9. ApplyDiff(RunsOf(ops), new, "undo") = out
  BY <1>8, ApplyIsFold
<1> QED BY <1>5, <1>6, <1>9
=============================================================================
