---------------------------- MODULE DialogProofs ----------------------------
(***************************************************************************)
(* Proofs about the dialogs, for every set of fields, directories, menu    *)
(* and size of the histories: what a user has fixed stays, the histories   *)
(* come back when the editor is started again, and no key leaves a dialog  *)
(* without a focus or a list without the item it has chosen.               *)
(***************************************************************************)
EXTENDS MCDialogs, SequenceTheorems, TLAPS

\* The loops, each as what one round of it does.
LoadRound(p, h, e) == LoadItem(h, e)
LoadFold == INSTANCE Folding WITH Op <- LoadRound
PrevRound(p, lb, k) == Prev(lb)
PrevFold == INSTANCE Folding WITH Op <- PrevRound
NextRound(p, lb, k) == Next1(lb)
NextFold == INSTANCE Folding WITH Op <- NextRound
ShownRound(p, items, it) == IF Found(p, it) THEN Append(items, it) ELSE items
ShownFold == INSTANCE Folding WITH Op <- ShownRound

-----------------------------------------------------------------------------
(***************************************************************************)
(* What the parts of a dialog are.                                         *)
(***************************************************************************)
\* the items that are offered, and the characters that can come into a text
Offered == ToSet(MenuItems) \cup UNION {ToSet(Tree[dir]) : dir \in Directories}
Stored  == UNION {ToSet(h) : h \in Histories}
OfferedChars == UNION {ToSet(it.text) : it \in Offered}
StoredChars  == UNION {ToSet(e.text) : e \in Stored}
Chr == Typed \cup {LN!Blank} \cup Directories \cup OfferedChars \cup StoredChars
Strings == Seq(Chr)

Entries == {e \in [text : Strings, fixed : BOOLEAN] : e.text # <<>>}
\* a history as PutItem keeps it
Kept == {h \in Seq(Entries) : /\ Len(h) <= MaxHistory
                              /\ \A i, j \in DOMAIN h : h[i].text = h[j].text => i = j}

Keys  == {0, 1, 2} \cup {it.key : it \in Offered}
Marks == {" ", "fixed"} \cup {it.mark : it \in Offered}
Items == [text : Strings, key : Keys, mark : Marks, sel : BOOLEAN]
Boxes == [kind : {"list"}, items : Seq(Items), start : Int, cur : Int, rows : Nat \ {0}, wrap : BOOLEAN,
          bykey : BOOLEAN, trap : BOOLEAN, active : BOOLEAN]

-----------------------------------------------------------------------------
(***************************************************************************)
(* Sequences that an element goes out of or comes into.                    *)
(***************************************************************************)
AreJoined(w, S, s, n, t, c) ==
    /\ w \in Seq(S) /\ Len(w) = n + c
    /\ \A k \in 1 .. n + c : w[k] = IF k <= n THEN s[k] ELSE t[k - n]

\* Two sequences in a row.
LEMMA JoinedIs ==
    ASSUME NEW S, NEW s \in Seq(S), NEW t \in Seq(S)
    PROVE  AreJoined(s \o t, S, s, Len(s), t, Len(t))
  BY DEF AreJoined

\* A sequence without element i,
LEMMA RemovedIs ==
    ASSUME NEW S, NEW s \in Seq(S), NEW i \in 1 .. Len(s)
    PROVE  /\ RemoveAt(s, i) \in Seq(S) /\ Len(RemoveAt(s, i)) = Len(s) - 1
           /\ \A j \in 1 .. Len(s) - 1 : RemoveAt(s, i)[j] = IF j < i THEN s[j] ELSE s[j + 1]
<1> DEFINE n == Len(s)
           x == SubSeq(s, 1, i - 1)
           z == SubSeq(s, i + 1, n)
           w == x \o z
<1>1. n \in Nat /\ i \in 1 .. n
  OBVIOUS
<1>2. x \in Seq(S) /\ Len(x) = i - 1 /\ \A k \in 1 .. i - 1 : x[k] = s[k]
  BY <1>1
<1>3. z \in Seq(S) /\ Len(z) = n - i /\ \A k \in 1 .. n - i : z[k] = s[i + k]
  BY <1>1
<1> HIDE DEF x, z, n
<1>4. w \in Seq(S) /\ Len(w) = Len(x) + Len(z)
      /\ \A k \in 1 .. Len(x) + Len(z) : w[k] = IF k <= Len(x) THEN x[k] ELSE z[k - Len(x)]
  <2>1. AreJoined(w, S, x, Len(x), z, Len(z))
    BY <1>2, <1>3, JoinedIs
  <2> QED BY <2>1 DEF AreJoined
<1> HIDE DEF w
<1>5. ASSUME NEW j \in 1 .. n - 1 PROVE w[j] = IF j < i THEN s[j] ELSE s[j + 1]
  <2>1. CASE j < i
    BY <1>1, <1>2, <1>3, <1>4, <2>1
  <2>2. CASE ~(j < i)
    <3>1. j - (i - 1) \in 1 .. n - i /\ i + (j - (i - 1)) = j + 1 /\ ~(j <= i - 1) /\ j \in 1 .. (i - 1) + (n - i)
      BY <1>1, <2>2
    <3> QED BY <1>2, <1>3, <1>4, <2>2, <3>1
  <2> QED BY <2>1, <2>2
<1>6. RemoveAt(s, i) = w
  BY DEF RemoveAt, w, x, z, n
<1> QED BY <1>1, <1>2, <1>3, <1>4, <1>5, <1>6 DEF n

\* and with a new one in front.
LEMMA InFrontIs ==
    ASSUME NEW S, NEW s \in Seq(S), NEW x \in S
    PROVE  /\ <<x>> \o s \in Seq(S) /\ Len(<<x>> \o s) = Len(s) + 1
           /\ (<<x>> \o s)[1] = x /\ \A j \in 1 .. Len(s) : (<<x>> \o s)[j + 1] = s[j]
<1> DEFINE w == <<x>> \o s
           o == <<x>>
<1>1. o \in Seq(S) /\ Len(o) = 1 /\ o[1] = x /\ w = o \o s /\ Len(s) \in Nat
  OBVIOUS
<1> HIDE DEF w, o
<1>2. /\ w \in Seq(S) /\ Len(w) = 1 + Len(s)
      /\ \A k \in 1 .. 1 + Len(s) : w[k] = IF k <= 1 THEN o[k] ELSE s[k - 1]
  <2>1. AreJoined(w, S, o, Len(o), s, Len(s))
    BY <1>1, JoinedIs
  <2> QED BY <1>1, <2>1 DEF AreJoined
<1>3. ASSUME NEW j \in 1 .. Len(s) PROVE w[j + 1] = s[j]
  BY <1>1, <1>2
<1> QED BY <1>1, <1>2, <1>3 DEF w

-----------------------------------------------------------------------------
(***************************************************************************)
(* Histories.                                                              *)
(***************************************************************************)
\* The place of an entry, which only one has.
LEMMA PlaceIs ==
    ASSUME NEW h \in Kept, NEW s
    PROVE  /\ PlaceOf(h, s) \in 0 .. Len(h)
           /\ PlaceOf(h, s) = 0 <=> s \notin Texts(h)
           /\ PlaceOf(h, s) # 0 => h[PlaceOf(h, s)].text = s
<1> DEFINE old == {i \in DOMAIN h : h[i].text = s}
<1>1. h \in Seq(Entries) /\ DOMAIN h = 1 .. Len(h) /\ Len(h) \in Nat
  BY DEF Kept
<1>2. old \in SUBSET Nat /\ (old = {} <=> s \notin Texts(h))
  BY <1>1 DEF Texts
<1>3. CASE old = {}
  <2>1. PlaceOf(h, s) = 0
    BY <1>3 DEF PlaceOf
  <2> QED BY <1>1, <1>2, <1>3, <2>1
<1>4. CASE old # {}
  <2> DEFINE k == CHOOSE i \in old : \A j \in old : i <= j
  <2>1. PlaceOf(h, s) = k
    BY <1>4 DEF PlaceOf
  <2> HIDE DEF old
  <2>2. \E i \in old : \A j \in old : i <= j
    BY <1>2, <1>4, LoadFold!Least
  <2>3. k \in old
    BY <2>2
  <2> HIDE DEF k
  <2>4. k \in 1 .. Len(h) /\ h[k].text = s
    BY <1>1, <2>3 DEF old
  <2>5. k \in 0 .. Len(h) /\ k # 0
    BY <1>1, <2>4
  <2>6. s \in Texts(h)
    BY <1>2, <1>4
  <2> QED BY <2>1, <2>4, <2>5, <2>6
<1> QED BY <1>3, <1>4

\* A history without one of its entries.
LEMMA WithoutIs ==
    ASSUME NEW h \in Kept, NEW i \in 1 .. Len(h)
    PROVE  /\ RemoveAt(h, i) \in Kept /\ Len(RemoveAt(h, i)) = Len(h) - 1
           /\ \A j \in 1 .. Len(h) - 1 : RemoveAt(h, i)[j] = IF j < i THEN h[j] ELSE h[j + 1]
           /\ \A k \in DOMAIN h : k # i => \E j \in DOMAIN RemoveAt(h, i) : RemoveAt(h, i)[j] = h[k]
           /\ Texts(RemoveAt(h, i)) = Texts(h) \ {h[i].text}
<1> DEFINE r == RemoveAt(h, i)
<1>1. /\ h \in Seq(Entries) /\ DOMAIN h = 1 .. Len(h) /\ Len(h) \in Nat /\ Len(h) <= MaxHistory
      /\ \A m, n \in DOMAIN h : h[m].text = h[n].text => m = n
  BY DEF Kept
<1>2. /\ r \in Seq(Entries) /\ Len(r) = Len(h) - 1
      /\ \A j \in 1 .. Len(h) - 1 : r[j] = IF j < i THEN h[j] ELSE h[j + 1]
  BY <1>1, RemovedIs
<1> HIDE DEF r
<1>3. DOMAIN r = 1 .. Len(h) - 1
  BY <1>2
<1>4. r \in Kept
  <2>1. ASSUME NEW m \in DOMAIN r, NEW n \in DOMAIN r, r[m].text = r[n].text PROVE m = n
    <3> DEFINE u == IF m < i THEN m ELSE m + 1
               v == IF n < i THEN n ELSE n + 1
    <3>1. u \in DOMAIN h /\ v \in DOMAIN h /\ r[m] = h[u] /\ r[n] = h[v]
      BY <1>1, <1>2, <1>3
    <3>2. u = v
      <4> HIDE DEF u, v
      <4> QED BY <1>1, <2>1, <3>1
    <3> QED BY <1>3, <3>2
  <2>2. Len(r) <= MaxHistory
    BY <1>1, <1>2, MaxHistoryAssumption
  <2> QED BY <1>2, <2>1, <2>2 DEF Kept
<1>5. ASSUME NEW k \in DOMAIN h, k # i PROVE \E j \in DOMAIN r : r[j] = h[k]
  <2> DEFINE j == IF k < i THEN k ELSE k - 1
  <2>1. j \in DOMAIN r /\ r[j] = h[k]
    BY <1>1, <1>2, <1>3, <1>5
  <2> QED BY <2>1
<1>6. Texts(r) = Texts(h) \ {h[i].text}
  <2>1. ASSUME NEW t \in Texts(r) PROVE t \in Texts(h) \ {h[i].text}
    <3>1. PICK j \in DOMAIN r : t = r[j].text
      BY DEF Texts
    <3> DEFINE u == IF j < i THEN j ELSE j + 1
    <3>2. u \in DOMAIN h /\ r[j] = h[u] /\ u # i
      BY <1>1, <1>2, <1>3
    <3> HIDE DEF u
    <3> QED BY <1>1, <3>1, <3>2 DEF Texts
  <2>2. ASSUME NEW t \in Texts(h), t # h[i].text PROVE t \in Texts(r)
    <3>1. PICK k \in DOMAIN h : t = h[k].text
      BY DEF Texts
    <3> QED BY <1>5, <2>2, <3>1 DEF Texts
  <2> QED BY <2>1, <2>2
<1> QED BY <1>2, <1>4, <1>5, <1>6 DEF r

\* A new entry in front of a history that does not have it.
LEMMA NewInFront ==
    ASSUME NEW h \in Kept, NEW e \in Entries, e.text \notin Texts(h), Len(h) < MaxHistory
    PROVE  <<e>> \o h \in Kept /\ Texts(<<e>> \o h) = Texts(h) \cup {e.text}
<1> DEFINE g == <<e>> \o h
<1>1. /\ h \in Seq(Entries) /\ DOMAIN h = 1 .. Len(h) /\ Len(h) \in Nat
      /\ \A m, n \in DOMAIN h : h[m].text = h[n].text => m = n
  BY DEF Kept
<1>2. /\ g \in Seq(Entries) /\ Len(g) = Len(h) + 1 /\ g[1] = e
      /\ \A j \in 1 .. Len(h) : g[j + 1] = h[j]
  BY <1>1, InFrontIs
<1> HIDE DEF g
<1>3. \A k \in DOMAIN g : k = 1 \/ (k - 1 \in DOMAIN h /\ g[k] = h[k - 1])
  <2> SUFFICES ASSUME NEW k \in DOMAIN g, k # 1 PROVE k - 1 \in DOMAIN h /\ g[k] = h[k - 1]
    OBVIOUS
  <2>1. k \in 1 .. Len(h) + 1
    BY <1>2
  <2>2. k - 1 \in 1 .. Len(h) /\ (k - 1) + 1 = k
    BY <1>1, <2>1
  <2> QED BY <1>1, <1>2, <2>2
<1>4. ASSUME NEW m \in DOMAIN g, NEW n \in DOMAIN g, g[m].text = g[n].text PROVE m = n
  <2>1. m \in Int /\ n \in Int
    BY <1>2
  <2>2. \A k \in DOMAIN h : h[k].text # e.text
    BY DEF Texts
  <2>3. CASE m = 1
    BY <1>2, <1>3, <1>4, <2>2, <2>3
  <2>4. CASE n = 1
    BY <1>2, <1>3, <1>4, <2>2, <2>4
  <2>5. CASE m # 1 /\ n # 1
    <3>1. m - 1 = n - 1
      BY <1>1, <1>3, <1>4, <2>5
    <3> QED BY <2>1, <3>1
  <2> QED BY <2>3, <2>4, <2>5
<1>5. Len(g) <= MaxHistory
  BY <1>1, <1>2, MaxHistoryAssumption
<1>6. g \in Kept
  BY <1>2, <1>4, <1>5 DEF Kept
<1>7. Texts(g) = Texts(h) \cup {e.text}
  <2>1. ASSUME NEW t \in Texts(g) PROVE t \in Texts(h) \cup {e.text}
    BY <1>2, <1>3 DEF Texts
  <2>2. ASSUME NEW t \in Texts(h) PROVE t \in Texts(g)
    <3>1. PICK k \in DOMAIN h : t = h[k].text
      BY DEF Texts
    <3>2. k + 1 \in DOMAIN g /\ g[k + 1] = h[k]
      BY <1>1, <1>2
    <3> QED BY <3>1, <3>2 DEF Texts
  <2>3. 1 \in DOMAIN g
    BY <1>1, <1>2
  <2>4. e.text \in Texts(g)
    BY <1>2, <2>3 DEF Texts
  <2> QED BY <2>1, <2>2, <2>4
<1> QED BY <1>6, <1>7 DEF g

\* What is fixed in h is in g, too, and fixed there.
FixedIn(h, g) == FixedTexts(h) \subseteq FixedTexts(g)

\* It is if each entry that is fixed is an entry of the other,
LEMMA FixedMove ==
    ASSUME NEW h, NEW g, \A i \in DOMAIN h : h[i].fixed => \E j \in DOMAIN g : g[j] = h[i]
    PROVE  FixedIn(h, g)
  BY DEF FixedIn, FixedTexts

\* and what is put in front of a history leaves the entries of it fixed.
LEMMA FixedFront ==
    ASSUME NEW g \in Kept, NEW e \in Entries
    PROVE  FixedIn(g, <<e>> \o g) /\ (e.fixed => e.text \in FixedTexts(<<e>> \o g))
<1> DEFINE w == <<e>> \o g
<1>1. g \in Seq(Entries) /\ DOMAIN g = 1 .. Len(g) /\ Len(g) \in Nat
  BY DEF Kept
<1>2. w \in Seq(Entries) /\ Len(w) = Len(g) + 1 /\ w[1] = e /\ \A j \in 1 .. Len(g) : w[j + 1] = g[j]
  BY <1>1, InFrontIs
<1> HIDE DEF w
<1>3. DOMAIN w = 1 .. Len(g) + 1
  BY <1>1, <1>2
<1>4. ASSUME NEW i \in DOMAIN g PROVE i + 1 \in DOMAIN w /\ w[i + 1] = g[i]
  BY <1>1, <1>2, <1>3
<1>5. FixedIn(g, w)
  BY <1>4, FixedMove
<1>6. 1 \in DOMAIN w
  BY <1>1, <1>3
<1>7. e.fixed => e.text \in FixedTexts(w)
  BY <1>2, <1>6 DEF FixedTexts
<1> QED BY <1>5, <1>7 DEF w

\* The entry that a full history gives up.
LEMMA OldestIs ==
    ASSUME NEW h \in Kept, NEW free, free = {i \in DOMAIN h : ~h[i].fixed}, free # {}
    PROVE  (CHOOSE i \in free : \A j \in free : j <= i) \in free
<1>1. DOMAIN h = 1 .. Len(h) /\ Len(h) \in Nat
  BY DEF Kept
<1> DEFINE n == Len(h)
           T == {n - i : i \in free}
<1>2. T \in SUBSET Nat /\ T # {}
  BY <1>1
<1> HIDE DEF T
<1>3. PICK x \in T : \A y \in T : x <= y
  BY <1>2, LoadFold!Least
<1>4. PICK i \in free : x = n - i
  BY <1>3 DEF T
<1>5. ASSUME NEW j \in free PROVE j <= i
  <2>1. n - j \in T
    BY DEF T
  <2>2. n - i <= n - j /\ i \in Int /\ j \in Int /\ n \in Int
    BY <1>1, <1>3, <1>4, <2>1
  <2> QED BY <2>2
<1>6. \E k \in free : \A j \in free : j <= k
  BY <1>4, <1>5
<1> QED BY <1>6

\* PutItem keeps a history in order and what is fixed in it.
LEMMA PutKeeps ==
    ASSUME NEW h \in Kept, NEW s \in Strings
    PROVE  PutItem(h, s) \in Kept /\ FixedIn(h, PutItem(h, s))
<1> DEFINE place == PlaceOf(h, s)
           less == Without(h, place)
           new  == NewEntry(h, place, s)
           free == {i \in DOMAIN less : ~less[i].fixed}
           oldest == CHOOSE i \in free : \A j \in free : j <= i
<1>1. place \in 0 .. Len(h) /\ (place = 0 <=> s \notin Texts(h)) /\ (place # 0 => h[place].text = s)
  BY PlaceIs
<1>2. h \in Seq(Entries) /\ Len(h) \in Nat /\ Len(h) <= MaxHistory /\ DOMAIN h = 1 .. Len(h)
  BY DEF Kept
<1> HIDE DEF place
<1>3. /\ less \in Kept /\ Texts(less) = Texts(h) \ {s}
      /\ \A k \in DOMAIN h : h[k].text # s => \E j \in DOMAIN less : less[j] = h[k]
      /\ place # 0 => Len(less) < MaxHistory
  <2>1. CASE place = 0
    BY <1>1, <2>1 DEF Without
  <2>2. CASE place # 0
    <3>1. place \in 1 .. Len(h) /\ less = RemoveAt(h, place)
      BY <1>1, <1>2, <2>2 DEF Without
    <3> HIDE DEF less
    <3>2. /\ less \in Kept /\ Texts(less) = Texts(h) \ {s} /\ Len(less) = Len(h) - 1
          /\ \A k \in DOMAIN h : k # place => \E j \in DOMAIN less : less[j] = h[k]
      BY <1>1, <2>2, <3>1, WithoutIs
    <3>3. Len(h) - 1 < MaxHistory
      BY <1>2, MaxHistoryAssumption
    <3> QED BY <1>1, <2>2, <3>2, <3>3
  <2> QED BY <2>1, <2>2
<1> HIDE DEF less
<1>4. ASSUME s # <<>> PROVE new \in Entries /\ new.text = s
  <2>1. place # 0 => h[place] \in Entries
    BY <1>1, <1>2
  <2>2. (place # 0 /\ h[place].fixed) \in BOOLEAN
    BY <2>1 DEF Entries
  <2> QED BY <1>4, <2>2 DEF NewEntry, Entry, Entries
<1>5. ASSUME NEW i \in DOMAIN h, h[i].fixed, h[i].text # s
      PROVE  \E j \in DOMAIN less : less[j] = h[i]
  BY <1>3, <1>5
<1>0. ASSUME NEW i \in DOMAIN h, h[i].fixed, h[i].text = s
      PROVE  new.fixed
  <2>1. place # 0
    BY <1>0, <1>1 DEF Texts
  <2>2. place = i
    BY <1>0, <1>1, <1>2, <2>1 DEF Kept
  <2> QED BY <1>0, <2>1, <2>2 DEF NewEntry, Entry
<1> HIDE DEF new
<1>10. ASSUME NEW r, \A i \in DOMAIN h : h[i].fixed /\ h[i].text # s => \E j \in DOMAIN r : r[j] = h[i],
              r \in Kept, s # <<>>
       PROVE  FixedIn(h, <<new>> \o r)
  <2>1. FixedIn(r, <<new>> \o r) /\ (new.fixed => s \in FixedTexts(<<new>> \o r))
    BY <1>4, <1>10, FixedFront
  <2>2. ASSUME NEW i \in DOMAIN h, h[i].fixed PROVE h[i].text \in FixedTexts(<<new>> \o r)
    <3>1. CASE h[i].text = s
      BY <1>0, <2>1, <2>2, <3>1
    <3>2. CASE h[i].text # s
      <4>1. h[i].text \in FixedTexts(r)
        BY <1>10, <2>2, <3>2 DEF FixedTexts
      <4> QED BY <2>1, <4>1 DEF FixedIn
    <3> QED BY <3>1, <3>2
  <2> QED BY <2>2 DEF FixedIn, FixedTexts
<1>6. CASE s = <<>>
  <2>1. PutItem(h, s) = h
    BY <1>6 DEF PutItem
  <2> QED BY <2>1 DEF FixedIn
<1>7. CASE s # <<>> /\ Len(less) # MaxHistory
  <2>1. PutItem(h, s) = <<new>> \o less
    BY <1>7 DEF PutItem, less, new, place
  <2>2. Len(less) < MaxHistory /\ s \notin Texts(less)
    <3>1. Len(less) \in Nat /\ Len(less) <= MaxHistory
      BY <1>3 DEF Kept
    <3> QED BY <1>3, <1>7, <3>1, MaxHistoryAssumption
  <2>3. <<new>> \o less \in Kept /\ Texts(<<new>> \o less) = Texts(less) \cup {s}
    BY <1>3, <1>4, <1>7, <2>2, NewInFront
  <2>4. FixedIn(h, <<new>> \o less)
    BY <1>3, <1>5, <1>7, <1>10
  <2> QED BY <2>1, <2>3, <2>4
<1>8. CASE s # <<>> /\ Len(less) = MaxHistory /\ free # {}
  <2>1. PutItem(h, s) = <<new>> \o RemoveAt(less, oldest)
    BY <1>8 DEF PutItem, less, new, place
  <2>2. oldest \in free
    BY <1>3, <1>8, OldestIs
  <2> HIDE DEF oldest
  <2>3. oldest \in 1 .. Len(less) /\ ~less[oldest].fixed /\ Len(less) \in Nat
    BY <1>3, <2>2 DEF Kept
  <2> DEFINE r == RemoveAt(less, oldest)
  <2>4. /\ r \in Kept /\ Len(r) = Len(less) - 1 /\ Texts(r) = Texts(less) \ {less[oldest].text}
        /\ \A k \in DOMAIN less : k # oldest => \E j \in DOMAIN r : r[j] = less[k]
    BY <1>3, <2>3, WithoutIs
  <2> HIDE DEF r
  <2>5. s \notin Texts(r) /\ Len(r) < MaxHistory
    BY <1>3, <1>8, <2>3, <2>4, MaxHistoryAssumption
  <2>6. <<new>> \o r \in Kept /\ Texts(<<new>> \o r) = Texts(r) \cup {s}
    BY <1>4, <1>8, <2>4, <2>5, NewInFront
  <2>7. ASSUME NEW i \in DOMAIN h, h[i].fixed, h[i].text # s PROVE \E k \in DOMAIN r : r[k] = h[i]
    <3>1. PICK j \in DOMAIN less : less[j] = h[i]
      BY <1>5, <2>7
    <3>2. j # oldest
      BY <2>3, <2>7, <3>1
    <3>3. PICK k \in DOMAIN r : r[k] = less[j]
      BY <2>4, <3>2
    <3> QED BY <3>1, <3>3
  <2>8. FixedIn(h, <<new>> \o r)
    BY <1>8, <1>10, <2>4, <2>7
  <2> QED BY <2>1, <2>6, <2>8 DEF r
<1>9. CASE s # <<>> /\ Len(less) = MaxHistory /\ free = {}
  <2>1. PutItem(h, s) = less
    BY <1>9, Zenon DEF PutItem, less, new, place
  <2>2. place = 0
    BY <1>3, <1>9, MaxHistoryAssumption
  <2>3. less = h
    BY <2>2 DEF less, Without
  <2> QED BY <2>1, <2>3 DEF FixedIn
<1> QED BY <1>6, <1>7, <1>8, <1>9

\* What LoadHistory makes of a history and an entry that it does not have.
LEMMA LoadedIs ==
    ASSUME NEW g \in Kept, NEW e \in Entries, e.text \notin Texts(g), Len(g) < MaxHistory
    PROVE  LoadItem(g, e) = <<e>> \o g
<1> DEFINE new == Entry(e.text, FALSE)
           w == <<new>> \o g
           x == <<e>> \o g
<1>1. PutItem(g, e.text) = w
  <2>1. PlaceOf(g, e.text) = 0
    BY PlaceIs
  <2>2. e.text # <<>> /\ Len(g) # MaxHistory
    BY MaxHistoryAssumption DEF Entries, Kept
  <2> DEFINE s == e.text
  <2>3. PlaceOf(g, s) = 0 /\ s # <<>>
    BY <2>1, <2>2
  <2> HIDE DEF s
  <2>4. (PlaceOf(g, s) # 0 /\ g[PlaceOf(g, s)].fixed) = FALSE
    BY <2>3
  <2>5. PutItem(g, s) = <<Entry(s, FALSE)>> \o g
    BY <2>2, <2>3, <2>4 DEF PutItem, Without, NewEntry
  <2> QED BY <2>5 DEF s
<1>2. g \in Seq(Entries) /\ new \in Entries /\ new.text = e.text /\ Len(g) \in Nat
  BY DEF Kept, Entries, Entry
<1>3. /\ w \in Seq(Entries) /\ Len(w) = Len(g) + 1 /\ w[1] = new
      /\ \A j \in 1 .. Len(g) : w[j + 1] = g[j]
  <2> HIDE DEF new
  <2> QED BY <1>2, InFrontIs
<1>4. /\ x \in Seq(Entries) /\ Len(x) = Len(g) + 1 /\ x[1] = e
      /\ \A j \in 1 .. Len(g) : x[j + 1] = g[j]
  BY <1>2, InFrontIs
<1> HIDE DEF w, x
<1>5. w # <<>>
  BY <1>2, <1>3
<1>6. \A k \in 1 .. Len(g) + 1 : k # 1 => w[k] = x[k]
  <2> SUFFICES ASSUME NEW k \in 1 .. Len(g) + 1, k # 1 PROVE w[k] = x[k]
    OBVIOUS
  <2>1. k - 1 \in 1 .. Len(g) /\ (k - 1) + 1 = k
    BY <1>2
  <2> QED BY <1>3, <1>4, <2>1
<1>7. CASE e.fixed
  <2> DEFINE y == [w EXCEPT ![1].fixed = ~@]
  <2>1. LoadItem(g, e) = y
    BY <1>1, <1>2, <1>3, <1>5, <1>7 DEF LoadItem, Fix
  <2>2. 1 \in DOMAIN w
    BY <1>2, <1>3
  <2>3. [new EXCEPT !.fixed = TRUE] = e
    <3>1. e = [text |-> e.text, fixed |-> e.fixed] /\ e.fixed = TRUE
      BY <1>7 DEF Entries
    <3> QED BY <3>1 DEF Entry
  <2>4. y = [w EXCEPT ![1] = e]
    <3>1. y = [w EXCEPT ![1] = [w[1] EXCEPT !.fixed = ~ w[1].fixed]]
      OBVIOUS
    <3>2. new.fixed = FALSE
      BY DEF Entry
    <3> HIDE DEF new, y
    <3>3. (~ w[1].fixed) = TRUE
      BY <1>3, <3>2
    <3> QED BY <1>3, <2>3, <3>1, <3>3
  <2> HIDE DEF y
  <2>5. y \in Seq(Entries) /\ Len(y) = Len(g) + 1 /\ \A k \in 1 .. Len(g) + 1 : y[k] = x[k]
    BY <1>2, <1>3, <1>4, <1>6, <2>2, <2>4
  <2>6. y = x
    BY <1>4, <2>5, SeqEqual
  <2> QED BY <2>1, <2>6 DEF x
<1>8. CASE ~e.fixed
  <2>1. LoadItem(g, e) = w
    BY <1>1, <1>8 DEF LoadItem, Fix
  <2>2. new = e
    <3>1. e = [text |-> e.text, fixed |-> e.fixed] /\ e.fixed = FALSE
      BY <1>8 DEF Entries
    <3> QED BY <3>1 DEF Entry
  <2> QED BY <2>1, <2>2 DEF w, x
<1> QED BY <1>7, <1>8 DEF x

\* The loop of LoadHistory as a fold.
LEMMA LoadIsFold == \A ea : Load(ea) = LoadFold!Fold({}, <<>>, ea)
  BY DEF Load, LoadFold!Fold, LoadRound, FoldLeft, MapThenFoldSet, Max,
         LoadFold!FoldLeft, LoadFold!MapThenFoldSet, LoadFold!Max

\* A history comes back after it was stored and loaded.
LEMMA HistoryComesBack == ASSUME NEW h \in Kept PROVE Load(Store(h)) = h
<1> DEFINE n == Len(h)
           ea == Store(h)
           S(k) == SubSeq(h, n - k + 1, n)
<1>1. /\ h \in Seq(Entries) /\ n \in Nat /\ n <= MaxHistory /\ DOMAIN h = 1 .. n
      /\ \A i, j \in DOMAIN h : h[i].text = h[j].text => i = j
  BY DEF Kept
<1>2. DOMAIN ea = 1 .. n /\ \A k \in 1 .. n : ea[k] = h[n - k + 1]
  BY <1>1 DEF Store, Reverse
<1> HIDE DEF ea
<1>3. Load(ea) = LoadFold!Fold({}, <<>>, ea)
  BY LoadIsFold
<1>4. PICK a : LoadFold!IsTrace(a, {}, <<>>, ea, n)
  BY <1>1, <1>2, LoadFold!FoldTrace
<1>5. /\ a[0] = <<>> /\ Load(ea) = a[n]
      /\ \A k \in 1 .. n : a[k] = LoadItem(a[k - 1], ea[k])
  BY <1>3, <1>4 DEF LoadFold!IsTrace, LoadRound
<1>6. ASSUME NEW k \in 0 .. n
      PROVE  S(k) \in Kept /\ Len(S(k)) = k /\ \A i \in 1 .. k : S(k)[i] = h[n - k + i]
  <2>1. k \in Nat /\ n - k \in Nat
    BY <1>1
  <2> DEFINE g == S(k)
  <2>2. g \in Seq(Entries) /\ Len(g) = k /\ \A i \in 1 .. k : g[i] = h[n - k + i]
    BY <1>1, <2>1
  <2> HIDE DEF g
  <2>3. ASSUME NEW i \in DOMAIN g, NEW j \in DOMAIN g, g[i].text = g[j].text PROVE i = j
    <3>1. i \in 1 .. k /\ j \in 1 .. k
      BY <2>2
    <3>2. n - k + i \in DOMAIN h /\ n - k + j \in DOMAIN h
      BY <1>1, <2>1, <3>1
    <3>3. n - k + i = n - k + j
      BY <1>1, <2>2, <2>3, <3>1, <3>2
    <3> QED BY <1>1, <2>1, <3>1, <3>3
  <2>4. k <= MaxHistory
    BY <1>1, MaxHistoryAssumption
  <2>5. g \in Kept
    BY <2>2, <2>3, <2>4 DEF Kept
  <2> QED BY <2>2, <2>5 DEF g
<1> DEFINE T == {k \in 0 .. n : a[k] = S(k)}
<1>7. 0 \in T
  <2>1. S(0) \in Kept /\ Len(S(0)) = 0
    BY <1>1, <1>6
  <2>2. S(0) = <<>>
    BY <2>1 DEF Kept
  <2>3. 0 \in 0 .. n /\ a[0] = S(0)
    BY <1>1, <1>5, <2>2
  <2> QED BY <2>3
<1>8. ASSUME NEW k \in 1 .. n, k - 1 \in T PROVE k \in T
  <2> DEFINE g == S(k - 1)
             e == h[n - k + 1]
             x == S(k)
  <2>1. k - 1 \in 0 .. n /\ k \in 0 .. n /\ n - k + 1 \in 1 .. n /\ k \in Nat
    BY <1>1
  <2>2. g \in Kept /\ Len(g) = k - 1 /\ \A i \in 1 .. k - 1 : g[i] = h[n - (k - 1) + i]
    BY <1>6, <2>1
  <2>3. x \in Kept /\ Len(x) = k /\ \A i \in 1 .. k : x[i] = h[n - k + i]
    BY <1>6, <2>1
  <2>4. a[k - 1] = g
    BY <1>8
  <2> HIDE DEF g, x, S, T
  <2>5. e \in Entries
    BY <1>1, <2>1
  <2>6. e.text \notin Texts(g)
    <3> SUFFICES ASSUME NEW i \in DOMAIN g, g[i].text = e.text PROVE FALSE
      BY DEF Texts
    <3>1. i \in 1 .. k - 1
      BY <2>1, <2>2 DEF Kept
    <3>2. n - (k - 1) + i \in DOMAIN h /\ n - k + 1 \in DOMAIN h /\ n - (k - 1) + i # n - k + 1
      BY <1>1, <2>1, <3>1
    <3>3. h[n - (k - 1) + i].text = h[n - k + 1].text
      BY <2>2, <3>1
    <3> QED BY <1>1, <3>2, <3>3
  <2>7. Len(g) < MaxHistory
    BY <1>1, <2>1, <2>2, MaxHistoryAssumption
  <2>8. a[k] = <<e>> \o g
    <3> HIDE DEF e
    <3>1. LoadItem(g, e) = <<e>> \o g
      BY <2>2, <2>5, <2>6, <2>7, LoadedIs
    <3> QED BY <1>2, <1>5, <2>4, <3>1 DEF e
  <2>9. <<e>> \o g = x
    <3> DEFINE w == <<e>> \o g
    <3> HIDE DEF e
    <3>1. g \in Seq(Entries) /\ x \in Seq(Entries)
      BY <2>2, <2>3 DEF Kept
    <3>2. /\ w \in Seq(Entries) /\ Len(w) = Len(g) + 1 /\ w[1] = e
          /\ \A j \in 1 .. Len(g) : w[j + 1] = g[j]
      BY <2>5, <3>1, InFrontIs
    <3> HIDE DEF w
    <3>3. ASSUME NEW i \in 1 .. k PROVE w[i] = x[i]
      <4>1. CASE i = 1
        BY <1>1, <2>1, <2>3, <3>2, <4>1 DEF e
      <4>2. CASE i # 1
        <5>1. i - 1 \in 1 .. k - 1 /\ (i - 1) + 1 = i /\ n - (k - 1) + (i - 1) = n - k + i
          BY <1>1, <2>1, <4>2
        <5>2. w[i] = g[i - 1] /\ g[i - 1] = h[n - k + i]
          BY <2>2, <3>2, <5>1
        <5> QED BY <2>3, <5>2
      <4> QED BY <4>1, <4>2
    <3>4. Len(w) = Len(x)
      BY <2>1, <2>2, <2>3, <3>2
    <3>5. \A i \in 1 .. Len(w) : w[i] = x[i]
      BY <2>3, <3>3, <3>4
    <3>6. w = x
      BY <3>1, <3>2, <3>4, <3>5, SeqEqual
    <3> QED BY <3>6 DEF w
  <2> QED BY <2>1, <2>8, <2>9 DEF T, x
<1> HIDE DEF T
<1>9. n \in T
  <2>1. 0 .. n \subseteq T
    BY <1>1, <1>7, <1>8, LoadFold!IntervalIsIn
  <2>2. n \in 0 .. n
    BY <1>1
  <2> QED BY <2>1, <2>2
<1>10. a[n] = S(n)
  BY <1>9 DEF T
<1>11. S(n) = h
  <2> DEFINE g == S(n)
  <2>1. g \in Kept /\ Len(g) = n /\ \A i \in 1 .. n : g[i] = h[n - n + i]
    BY <1>1, <1>6
  <2> HIDE DEF g
  <2>2. g \in Seq(Entries) /\ \A i \in 1 .. Len(g) : g[i] = h[i]
    BY <1>1, <2>1 DEF Kept
  <2>3. g = h
    BY <1>1, <2>1, <2>2, SeqEqual
  <2> QED BY <2>3 DEF g
<1> QED BY <1>5, <1>10, <1>11 DEF ea

-----------------------------------------------------------------------------
(***************************************************************************)
(* List boxes.                                                             *)
(***************************************************************************)
\* A box with the highlight on one of its items.  Without wrapping no other item is flagged.
Held == {lb \in Boxes : /\ lb.start \in Nat /\ lb.cur \in Nat /\ Present(lb) /\ ~lb.trap
                        /\ ~lb.wrap => \A j \in DOMAIN lb.items : lb.items[j].sel => j = AbsRow(lb) + 1}

\* The same items, but for their flags,
SameItems(s, t) ==
    /\ Len(s) = Len(t)
    /\ \A i \in 1 .. Len(t) : s[i].text = t[i].text /\ s[i].key = t[i].key /\ s[i].mark = t[i].mark
\* and the same box, but for them and for where the highlight is.
Kin(lb, x) == /\ x \in Held /\ x.wrap = lb.wrap /\ x.rows = lb.rows /\ x.active = lb.active
              /\ SameItems(x.items, lb.items)

\* An item gets or loses its flag.
IsReflagged(s, items, i, v) ==
    /\ s \in Seq(Items) /\ SameItems(s, items)
    /\ \A j \in 1 .. Len(items) : s[j].sel = IF j = i THEN v ELSE items[j].sel

\* What setting one flag leaves of the items.
LEMMA ReflaggedIs ==
    ASSUME NEW items \in Seq(Items), NEW i \in 1 .. Len(items), NEW v \in BOOLEAN
    PROVE  IsReflagged([items EXCEPT ![i].sel = v], items, i, v)
<1> DEFINE s == [items EXCEPT ![i].sel = v]
           it == [items[i] EXCEPT !.sel = v]
<1>1. items[i] \in Items /\ DOMAIN items = 1 .. Len(items) /\ Len(items) \in Nat
  OBVIOUS
<1>2. /\ it \in Items /\ it.sel = v
      /\ it.text = items[i].text /\ it.key = items[i].key /\ it.mark = items[i].mark
  BY <1>1 DEF Items
<1>3. s = [items EXCEPT ![i] = it]
  OBVIOUS
<1> HIDE DEF s, it
<1>4. /\ s \in Seq(Items) /\ Len(s) = Len(items)
      /\ \A j \in 1 .. Len(items) : s[j] = IF j = i THEN it ELSE items[j]
  BY <1>1, <1>2, <1>3
<1>5. SameItems(s, items)
  BY <1>2, <1>4 DEF SameItems
<1>6. \A j \in 1 .. Len(items) : s[j].sel = IF j = i THEN v ELSE items[j].sel
  BY <1>2, <1>4
<1> QED BY <1>4, <1>5, <1>6 DEF IsReflagged, s

\* Flagged changes the flag and nothing else.
LEMMA FlaggedIs ==
    ASSUME NEW lb \in Boxes, lb.start \in Nat, lb.cur \in Nat, Present(lb), NEW v \in BOOLEAN
    PROVE  /\ Flagged(lb, v) \in Boxes
           /\ Flagged(lb, v).start = lb.start /\ Flagged(lb, v).cur = lb.cur
           /\ Flagged(lb, v).rows = lb.rows /\ Flagged(lb, v).wrap = lb.wrap
           /\ Flagged(lb, v).trap = lb.trap /\ Flagged(lb, v).active = lb.active
           /\ Flagged(lb, v).bykey = lb.bykey
           /\ IsReflagged(Flagged(lb, v).items, lb.items, AbsRow(lb) + 1, v)
<1> DEFINE i == AbsRow(lb) + 1
           s == [lb.items EXCEPT ![i].sel = v]
<1>1. lb.items \in Seq(Items) /\ i \in 1 .. Len(lb.items)
  BY DEF Boxes, Present, AbsRow, Count
<1>2. IsReflagged(s, lb.items, i, v)
  BY <1>1, ReflaggedIs
<1>3. Flagged(lb, v) = [lb EXCEPT !.items = s]
  BY DEF Flagged
<1>4. s \in Seq(Items)
  BY <1>2 DEF IsReflagged
<1> HIDE DEF s
<1> QED BY <1>2, <1>3, <1>4 DEF Boxes

\* The same texts and keys twice are the same texts and keys.
LEMMA SameItemsOn ==
    ASSUME NEW r, NEW s, NEW t, SameItems(r, s), SameItems(s, t) PROVE SameItems(r, t)
  BY DEF SameItems

\* The highlight leaves an item and comes to another one.
LEMMA MovedIs ==
    ASSUME NEW lb \in Held, NEW up \in Boxes, up.start \in Nat, up.cur \in Nat, Present(up),
           LET off == Flagged(lb, FALSE)
           IN /\ up.items = off.items /\ up.wrap = off.wrap /\ up.rows = off.rows
              /\ up.active = off.active /\ up.trap = off.trap
    PROVE  Kin(lb, Flagged(up, TRUE)) /\ AbsRow(Flagged(up, TRUE)) = AbsRow(up)
<1> DEFINE off == Flagged(lb, FALSE)
           x == Flagged(up, TRUE)
           i == AbsRow(lb) + 1
           k == AbsRow(up) + 1
<1>1. lb \in Boxes /\ lb.start \in Nat /\ lb.cur \in Nat /\ Present(lb) /\ ~lb.trap
  BY DEF Held
<1>2. /\ off \in Boxes /\ off.rows = lb.rows /\ off.wrap = lb.wrap
      /\ off.trap = lb.trap /\ off.active = lb.active
      /\ IsReflagged(off.items, lb.items, i, FALSE)
  BY <1>1, FlaggedIs
<1>3. /\ up.items = off.items /\ up.wrap = off.wrap /\ up.rows = off.rows
      /\ up.active = off.active /\ up.trap = off.trap
  OBVIOUS
<1>4. /\ x \in Boxes /\ x.start = up.start /\ x.cur = up.cur /\ x.rows = up.rows /\ x.wrap = up.wrap
      /\ x.trap = up.trap /\ x.active = up.active
      /\ IsReflagged(x.items, up.items, k, TRUE)
  BY FlaggedIs
<1>5. SameItems(x.items, lb.items)
  BY <1>2, <1>3, <1>4, SameItemsOn DEF IsReflagged
<1> HIDE DEF off, x
<1>6. AbsRow(x) = AbsRow(up)
  BY <1>4 DEF AbsRow
<1>7. Present(x)
  BY <1>4, <1>6 DEF Present, Count, IsReflagged, SameItems
<1>8. ASSUME ~x.wrap, NEW j \in DOMAIN x.items, x.items[j].sel PROVE j = k
  <2>1. j \in 1 .. Len(lb.items) /\ Len(up.items) = Len(lb.items)
    <3>1. Len(x.items) = Len(up.items) /\ Len(up.items) = Len(lb.items) /\ x.items \in Seq(Items)
      BY <1>2, <1>3, <1>4 DEF IsReflagged, SameItems
    <3>2. DOMAIN x.items = 1 .. Len(x.items)
      BY <3>1, LenProperties
    <3> QED BY <3>1, <3>2
  <2> SUFFICES ASSUME j # k PROVE FALSE
    OBVIOUS
  <2>2. off.items[j].sel
    BY <1>3, <1>4, <1>8, <2>1 DEF IsReflagged
  <2>3. j # i /\ lb.items[j].sel
    BY <1>2, <2>1, <2>2 DEF IsReflagged
  <2>4. ~lb.wrap
    BY <1>2, <1>3, <1>4, <1>8
  <2>5. j \in DOMAIN lb.items
    BY <1>1, <2>1 DEF Boxes
  <2> QED BY <2>3, <2>4, <2>5 DEF Held
<1>9. x \in Held
  BY <1>1, <1>2, <1>3, <1>4, <1>6, <1>7, <1>8 DEF Held
<1> QED BY <1>2, <1>3, <1>4, <1>5, <1>6, <1>9 DEF Kin, x

\* Kin is reflexive and transitive, so loops of keys stay in it.
LEMMA KinSelf == ASSUME NEW lb \in Held PROVE Kin(lb, lb)
  BY DEF Kin, SameItems

\* Any number of steps is one.
LEMMA KinOn == ASSUME NEW lb, NEW x, NEW y, Kin(lb, x), Kin(x, y) PROVE Kin(lb, y)
<1>1. SameItems(y.items, lb.items)
  BY SameItemsOn DEF Kin
<1> QED BY <1>1 DEF Kin

\* The highlight is moved without a change of the flags.
Placed(lb, x, s, c) ==
    /\ x \in Boxes /\ x.items = lb.items /\ x.start = s /\ x.cur = c
    /\ x.rows = lb.rows /\ x.wrap = lb.wrap /\ x.trap = lb.trap /\ x.active = lb.active

\* What setting the highlighted row, the first row shown, or both, leaves of a box.
LEMMA CurIs ==
    ASSUME NEW lb \in Boxes, NEW c \in Int PROVE Placed(lb, [lb EXCEPT !.cur = c], lb.start, c)
  BY DEF Placed, Boxes

\* The first row shown.
LEMMA StartIs ==
    ASSUME NEW lb \in Boxes, NEW s \in Int PROVE Placed(lb, [lb EXCEPT !.start = s], s, lb.cur)
  BY DEF Placed, Boxes

\* Both, in either order.
LEMMA BothAre ==
    ASSUME NEW lb \in Boxes, NEW s \in Int, NEW c \in Int
    PROVE  /\ Placed(lb, [lb EXCEPT !.cur = c, !.start = s], s, c)
           /\ Placed(lb, [lb EXCEPT !.start = s, !.cur = c], s, c)
<1>1. Placed(lb, [lb EXCEPT !.cur = c, !.start = s], s, c)
  <2> DEFINE y == [lb EXCEPT !.cur = c]
  <2>1. Placed(lb, y, lb.start, c) /\ y \in Boxes
    BY CurIs DEF Placed
  <2> HIDE DEF y
  <2>2. Placed(y, [y EXCEPT !.start = s], s, y.cur)
    BY <2>1, StartIs
  <2>3. Placed(lb, [y EXCEPT !.start = s], s, c)
    BY <2>1, <2>2 DEF Placed
  <2> QED BY <2>3 DEF y
<1>2. Placed(lb, [lb EXCEPT !.start = s, !.cur = c], s, c)
  <2> DEFINE y == [lb EXCEPT !.start = s]
  <2>1. Placed(lb, y, s, lb.cur) /\ y \in Boxes
    BY StartIs DEF Placed
  <2> HIDE DEF y
  <2>2. Placed(y, [y EXCEPT !.cur = c], y.start, c)
    BY <2>1, CurIs
  <2>3. Placed(lb, [y EXCEPT !.cur = c], s, c)
    BY <2>1, <2>2 DEF Placed
  <2> QED BY <2>3 DEF y
<1> QED BY <1>1, <1>2

\* Whether a key found an item, and where the highlight is without a change of the flags.
LEMMA KinMarked ==
    ASSUME NEW lb \in Held, NEW b \in BOOLEAN PROVE Kin(lb, [lb EXCEPT !.bykey = b])
<1> DEFINE x == [lb EXCEPT !.bykey = b]
<1>1. /\ x \in Boxes /\ x.items = lb.items /\ x.start = lb.start /\ x.cur = lb.cur
      /\ x.rows = lb.rows /\ x.wrap = lb.wrap /\ x.trap = lb.trap /\ x.active = lb.active
  BY DEF Boxes, Held
<1> HIDE DEF x
<1>2. AbsRow(x) = AbsRow(lb) /\ (Present(x) <=> Present(lb))
  BY <1>1 DEF AbsRow, Present, Count
<1>3. x \in Held
  BY <1>1, <1>2 DEF Held
<1> QED BY <1>1, <1>3 DEF Kin, SameItems, x

\* A box that wraps may highlight any of its rows.
LEMMA KinWrapped ==
    ASSUME NEW lb \in Held, lb.wrap, NEW s \in Nat, NEW c \in Nat, s + c < Count(lb)
    PROVE  /\ Kin(lb, [lb EXCEPT !.cur = c, !.start = s])
           /\ AbsRow([lb EXCEPT !.cur = c, !.start = s]) = s + c
<1> DEFINE x == [lb EXCEPT !.cur = c, !.start = s]
<1>1. /\ x \in Boxes /\ x.items = lb.items /\ x.start = s /\ x.cur = c
      /\ x.rows = lb.rows /\ x.wrap = lb.wrap /\ x.trap = lb.trap /\ x.active = lb.active
  <2>1. lb \in Boxes /\ s \in Int /\ c \in Int
    BY DEF Held
  <2>2. Placed(lb, x, s, c)
    BY <2>1, BothAre
  <2> HIDE DEF x
  <2> QED BY <2>2 DEF Placed
<1> HIDE DEF x
<1>2. AbsRow(x) = s + c /\ Present(x)
  BY <1>1 DEF AbsRow, Present, Count
<1>3. x \in Held
  BY <1>1, <1>2 DEF Held
<1> QED BY <1>1, <1>2, <1>3 DEF Kin, SameItems, x

\* A box has its highlight where its numbers say.
LEMMA HeldIs ==
    ASSUME NEW lb \in Held
    PROVE  /\ lb \in Boxes /\ lb.start \in Nat /\ lb.cur \in Nat /\ lb.rows \in Nat /\ lb.rows > 0
           /\ AbsRow(lb) = lb.start + lb.cur /\ AbsRow(lb) \in Nat /\ AbsRow(lb) < Count(lb)
           /\ Count(lb) \in Nat /\ lb.items \in Seq(Items) /\ ~lb.trap /\ Present(lb)
           /\ lb.wrap \in BOOLEAN /\ lb.active \in BOOLEAN
  BY DEF Held, Boxes, Present, AbsRow, Count

\* prev takes the highlight up by a row, or from the first item to the last.
LEMMA PrevIs ==
    ASSUME NEW lb \in Held
    PROVE  /\ Kin(lb, Prev(lb))
           /\ ~lb.wrap => AbsRow(Prev(lb)) = LN!Larger(0, AbsRow(lb) - 1)
<1>1. /\ lb \in Boxes /\ lb.start \in Nat /\ lb.cur \in Nat /\ lb.rows \in Nat /\ lb.rows > 0
      /\ AbsRow(lb) = lb.start + lb.cur /\ AbsRow(lb) \in Nat /\ AbsRow(lb) < Count(lb)
      /\ Count(lb) \in Nat /\ ~lb.trap /\ Present(lb)
  BY HeldIs
<1>2. CASE lb.wrap /\ AbsRow(lb) = 0
  <2>1. CASE Count(lb) < 2
    BY <1>2, <2>1, KinSelf DEF Prev
  <2>2. CASE ~(Count(lb) < 2)
    <3> DEFINE c == LN!Smaller(Count(lb), lb.rows) - 1
               s == Count(lb) - 1 - c
    <3>1. c \in Nat /\ s \in Nat /\ s + c < Count(lb)
      BY <1>1 DEF LN!Smaller
    <3>2. Prev(lb) = [lb EXCEPT !.cur = c, !.start = s]
      BY <1>2, <2>2 DEF Prev
    <3> HIDE DEF c, s
    <3>3. Kin(lb, [lb EXCEPT !.cur = c, !.start = s])
      BY <1>2, <3>1, KinWrapped
    <3> QED BY <1>2, <3>2, <3>3
  <2> QED BY <2>1, <2>2
<1>3. CASE ~(lb.wrap /\ AbsRow(lb) = 0)
  <2> DEFINE off == Flagged(lb, FALSE)
             up == IF lb.cur > 0 THEN [off EXCEPT !.cur = @ - 1]
                   ELSE [off EXCEPT !.start = LN!Larger(0, @ - 1)]
  <2>1. Prev(lb) = Flagged(up, TRUE)
    BY <1>3 DEF Prev
  <2>2. /\ off \in Boxes /\ off.start = lb.start /\ off.cur = lb.cur
        /\ IsReflagged(off.items, lb.items, AbsRow(lb) + 1, FALSE)
    BY <1>1, FlaggedIs
  <2>3. Len(off.items) = Count(lb)
    BY <2>2 DEF IsReflagged, SameItems, Count
  <2> HIDE DEF off
  <2>4. /\ up \in Boxes /\ up.start \in Nat /\ up.cur \in Nat
        /\ up.start + up.cur = LN!Larger(0, AbsRow(lb) - 1)
        /\ up.items = off.items /\ up.wrap = off.wrap /\ up.rows = off.rows
        /\ up.active = off.active /\ up.trap = off.trap
    <3>1. CASE lb.cur > 0
      <4>1. up = [off EXCEPT !.cur = off.cur - 1] /\ off.cur - 1 \in Int
        BY <1>1, <2>2, <3>1
      <4>2. Placed(off, [off EXCEPT !.cur = off.cur - 1], off.start, off.cur - 1)
        BY <2>2, <4>1, CurIs
      <4> QED BY <1>1, <2>2, <3>1, <4>1, <4>2 DEF Placed, LN!Larger
    <3>2. CASE ~(lb.cur > 0)
      <4> DEFINE z == LN!Larger(0, off.start - 1)
      <4>1. up = [off EXCEPT !.start = z] /\ z \in Nat /\ lb.cur = 0
        BY <1>1, <2>2, <3>2 DEF LN!Larger
      <4>2. z = LN!Larger(0, AbsRow(lb) - 1)
        BY <1>1, <2>2, <4>1
      <4> HIDE DEF z
      <4>3. Placed(off, [off EXCEPT !.start = z], z, off.cur)
        BY <2>2, <4>1, StartIs
      <4> QED BY <1>1, <2>2, <4>1, <4>2, <4>3 DEF Placed
    <3> QED BY <3>1, <3>2
  <2> HIDE DEF up
  <2>5. AbsRow(up) = LN!Larger(0, AbsRow(lb) - 1) /\ Present(up)
    <3>1. LN!Larger(0, AbsRow(lb) - 1) \in 0 .. Count(lb) - 1
      BY <1>1 DEF LN!Larger
    <3>2. AbsRow(up) = LN!Larger(0, AbsRow(lb) - 1)
      BY <2>4 DEF AbsRow
    <3> QED BY <2>3, <2>4, <3>1, <3>2 DEF Present, Count
  <2>6. Kin(lb, Flagged(up, TRUE)) /\ AbsRow(Flagged(up, TRUE)) = AbsRow(up)
    BY <2>4, <2>5, MovedIs DEF off
  <2> QED BY <2>1, <2>5, <2>6
<1> QED BY <1>2, <1>3

\* next takes it down by a row, or from the last item to the first.
LEMMA NextIs == ASSUME NEW lb \in Held PROVE Kin(lb, Next1(lb))
<1>1. /\ lb \in Boxes /\ lb.start \in Nat /\ lb.cur \in Nat /\ lb.rows \in Nat /\ lb.rows > 0
      /\ AbsRow(lb) = lb.start + lb.cur /\ AbsRow(lb) \in Nat /\ AbsRow(lb) < Count(lb)
      /\ Count(lb) \in Nat /\ ~lb.trap /\ Present(lb)
  BY HeldIs
<1>2. CASE lb.wrap /\ AbsRow(lb) = Count(lb) - 1
  <2>1. Next1(lb) = [lb EXCEPT !.cur = 0, !.start = 0]
    BY <1>2 DEF Next1
  <2>2. Kin(lb, [lb EXCEPT !.cur = 0, !.start = 0])
    <3>1. 0 \in Nat /\ 0 + 0 < Count(lb)
      BY <1>1
    <3> DEFINE z == 0
    <3>2. z \in Nat /\ z + z < Count(lb)
      BY <3>1
    <3> HIDE DEF z
    <3>3. Kin(lb, [lb EXCEPT !.cur = z, !.start = z])
      BY <1>2, <3>2, KinWrapped
    <3> QED BY <3>3 DEF z
  <2> QED BY <2>1, <2>2
<1>3. CASE ~(lb.wrap /\ AbsRow(lb) = Count(lb) - 1)
  <2> DEFINE off == Flagged(lb, FALSE)
             c   == LN!Smaller(lb.cur + 1, Count(lb) - lb.start - 1)
             down == IF c < lb.rows THEN [off EXCEPT !.cur = c]
                     ELSE [off EXCEPT !.start = @ + c - lb.rows + 1, !.cur = lb.rows - 1]
  <2>1. Next1(lb) = Flagged(down, TRUE)
    BY <1>3 DEF Next1
  <2>2. /\ off \in Boxes /\ off.start = lb.start /\ off.cur = lb.cur
        /\ IsReflagged(off.items, lb.items, AbsRow(lb) + 1, FALSE)
    BY <1>1, FlaggedIs
  <2>3. Len(off.items) = Count(lb)
    BY <2>2 DEF IsReflagged, SameItems, Count
  <2>4. c \in Nat /\ lb.start + c < Count(lb)
    BY <1>1 DEF LN!Smaller
  <2> HIDE DEF off, c
  <2>5. /\ down \in Boxes /\ down.start \in Nat /\ down.cur \in Nat
        /\ down.start + down.cur = lb.start + c
        /\ down.items = off.items /\ down.wrap = off.wrap /\ down.rows = off.rows
        /\ down.active = off.active /\ down.trap = off.trap
    <3>1. CASE c < lb.rows
      <4>1. down = [off EXCEPT !.cur = c] /\ c \in Int
        BY <2>4, <3>1
      <4>2. Placed(off, [off EXCEPT !.cur = c], off.start, c)
        BY <2>2, <4>1, CurIs
      <4> QED BY <1>1, <2>2, <2>4, <4>1, <4>2 DEF Placed
    <3>2. CASE ~(c < lb.rows)
      <4> DEFINE z == off.start + c - lb.rows + 1
                 w == lb.rows - 1
      <4>1. down = [off EXCEPT !.start = z, !.cur = w] /\ z \in Nat /\ w \in Nat /\ z + w = lb.start + c
        BY <1>1, <2>2, <2>4, <3>2
      <4> HIDE DEF z, w
      <4>2. Placed(off, [off EXCEPT !.start = z, !.cur = w], z, w)
        <5>1. z \in Int /\ w \in Int
          BY <4>1
        <5> QED BY <2>2, <5>1, BothAre
      <4> QED BY <4>1, <4>2 DEF Placed
    <3> QED BY <3>1, <3>2
  <2> HIDE DEF down
  <2>6. Present(down)
    <3>1. AbsRow(down) = lb.start + c /\ Count(down) = Count(lb)
      BY <2>3, <2>5 DEF AbsRow, Count
    <3>2. 0 <= lb.start + c
      BY <1>1, <2>4
    <3> QED BY <1>1, <2>4, <2>5, <3>1, <3>2 DEF Present
  <2>7. Kin(lb, Flagged(down, TRUE))
    BY <2>5, <2>6, MovedIs DEF off
  <2> QED BY <2>1, <2>7
<1> QED BY <1>2, <1>3

\* The same key again and again.
LEMMA AgainPrevIsFold == \A lb, n : Again(Prev, lb, n) = PrevFold!Fold({}, lb, [k \in 1 .. n |-> k])
  BY DEF Again, PrevFold!Fold, PrevRound, FoldLeft, MapThenFoldSet, Max,
         PrevFold!FoldLeft, PrevFold!MapThenFoldSet, PrevFold!Max

\* The other key.
LEMMA AgainNextIsFold == \A lb, n : Again(Next1, lb, n) = NextFold!Fold({}, lb, [k \in 1 .. n |-> k])
  BY DEF Again, NextFold!Fold, NextRound, FoldLeft, MapThenFoldSet, Max,
         NextFold!FoldLeft, NextFold!MapThenFoldSet, NextFold!Max

\* The box after n rows up: without wrapping the highlight stops at the first item.
AreRowsUp(lb, x, n) == Kin(lb, x) /\ (~lb.wrap => AbsRow(x) = LN!Larger(0, AbsRow(lb) - n))

\* PgUp and Home: the highlight goes up row by row.
LEMMA RowsUp ==
    ASSUME NEW lb \in Held, NEW n \in Nat PROVE AreRowsUp(lb, Again(Prev, lb, n), n)
<1> DEFINE s == [k \in 1 .. n |-> k]
<1>1. DOMAIN s = 1 .. n
  OBVIOUS
<1>2. Again(Prev, lb, n) = PrevFold!Fold({}, lb, s)
  BY AgainPrevIsFold
<1> HIDE DEF s
<1> DEFINE z == {}
<1> HIDE DEF z
<1>3. PICK a : PrevFold!IsTrace(a, z, lb, s, n)
  BY <1>1, PrevFold!FoldTrace
<1>4. a[0] = lb /\ \A k \in 1 .. n : a[k] = Prev(a[k - 1])
  BY <1>3 DEF PrevFold!IsTrace, PrevRound
<1>5. Again(Prev, lb, n) = a[n]
  BY <1>2, <1>3 DEF PrevFold!IsTrace, z
<1> DEFINE T == {k \in 0 .. n : AreRowsUp(lb, a[k], k)}
<1>6. 0 \in T
  <2>1. AreRowsUp(lb, lb, 0)
    BY KinSelf, HeldIs DEF AreRowsUp, LN!Larger
  <2> QED BY <1>4, <2>1
<1>7. ASSUME NEW k \in 1 .. n, k - 1 \in T PROVE k \in T
  <2> DEFINE x == a[k - 1]
  <2>1. Kin(lb, x) /\ (~lb.wrap => AbsRow(x) = LN!Larger(0, AbsRow(lb) - (k - 1)))
    BY <1>7 DEF AreRowsUp
  <2> HIDE DEF x
  <2>2. x \in Held /\ x.wrap = lb.wrap
    BY <2>1 DEF Kin
  <2>3. Kin(x, Prev(x)) /\ (~x.wrap => AbsRow(Prev(x)) = LN!Larger(0, AbsRow(x) - 1))
    BY <2>2, PrevIs
  <2>4. Kin(lb, Prev(x))
    BY <2>1, <2>3, KinOn
  <2>5. AbsRow(lb) \in Nat /\ k \in Nat /\ k \in 0 .. n
    BY HeldIs
  <2>6. LN!Larger(0, LN!Larger(0, AbsRow(lb) - (k - 1)) - 1) = LN!Larger(0, AbsRow(lb) - k)
    BY <2>5 DEF LN!Larger
  <2>7. AreRowsUp(lb, Prev(x), k)
    BY <2>1, <2>2, <2>3, <2>4, <2>6 DEF AreRowsUp
  <2> QED BY <1>4, <2>5, <2>7 DEF x
<1> HIDE DEF T
<1>8. n \in T
  BY <1>6, <1>7, PrevFold!IntervalIsIn
<1> QED BY <1>5, <1>8 DEF T

\* PgDn and End: it goes down row by row.
LEMMA RowsDown ==
    ASSUME NEW lb \in Held, NEW n \in Nat PROVE Kin(lb, Again(Next1, lb, n))
<1> DEFINE s == [k \in 1 .. n |-> k]
           T == {x \in Held : Kin(lb, x)}
           z == {}
<1>1. s \in Seq(Nat)
  OBVIOUS
<1>2. Again(Next1, lb, n) = NextFold!Fold(z, lb, s)
  BY AgainNextIsFold
<1> HIDE DEF s, z
<1>3. lb \in T
  BY KinSelf
<1>4. ASSUME NEW x \in T, NEW k \in Nat PROVE NextRound(z, x, k) \in T
  <2>1. Kin(lb, x) /\ x \in Held
    OBVIOUS
  <2>2. Kin(x, Next1(x))
    BY <2>1, NextIs
  <2>3. Kin(lb, Next1(x))
    BY <2>1, <2>2, KinOn
  <2>4. Next1(x) \in Held
    BY <2>2 DEF Kin
  <2> QED BY <2>3, <2>4 DEF NextRound
<1> HIDE DEF T
<1>5. NextFold!Fold(z, lb, s) \in T
  BY <1>1, <1>3, <1>4, NextFold!FoldIsIn
<1> QED BY <1>2, <1>5 DEF T

\* go_item keeps the box; without wrapping the highlight comes to an item above it.
LEMMA GoItemIs ==
    ASSUME NEW lb \in Held, NEW i \in Int
    PROVE  /\ Kin(lb, GoItem(lb, i))
           /\ ~lb.wrap /\ i \in 0 .. AbsRow(lb) - 1 => AbsRow(GoItem(lb, i)) = i
<1>1. AbsRow(lb) \in Nat /\ Count(lb) \in Nat /\ AbsRow(lb) < Count(lb)
  BY HeldIs
<1>2. CASE i < 0 \/ i > Count(lb)
  BY <1>1, <1>2, KinSelf DEF GoItem
<1>3. CASE ~(i < 0 \/ i > Count(lb)) /\ i < AbsRow(lb)
  <2> DEFINE n == AbsRow(lb) - i
  <2>1. n \in Nat /\ AbsRow(lb) - n = i /\ i >= 0
    BY <1>1, <1>3
  <2>2. GoItem(lb, i) = Again(Prev, lb, n)
    BY <1>3 DEF GoItem
  <2> HIDE DEF n
  <2>3. AreRowsUp(lb, Again(Prev, lb, n), n)
    BY <2>1, RowsUp
  <2> QED BY <2>1, <2>2, <2>3 DEF AreRowsUp, LN!Larger
<1>4. CASE ~(i < 0 \/ i > Count(lb)) /\ ~(i < AbsRow(lb))
  <2> DEFINE n == i - AbsRow(lb)
  <2>1. n \in Nat
    BY <1>1, <1>4
  <2>2. GoItem(lb, i) = Again(Next1, lb, n)
    BY <1>4 DEF GoItem
  <2> HIDE DEF n
  <2>3. Kin(lb, Again(Next1, lb, n))
    BY <2>1, RowsDown
  <2> QED BY <1>1, <1>4, <2>2, <2>3
<1> QED BY <1>2, <1>3, <1>4

\* A letter takes the highlight to an item of the box.
LEMMA TypeAheadIs == ASSUME NEW lb \in Held, NEW c PROVE Kin(lb, TypeAhead(lb, c))
<1> DEFINE here    == AbsRow(lb)
           hits(S) == {i \in S \cap (0 .. Count(lb) - 1) : Begins(lb, i, c)}
           below   == hits(here + 1 .. Count(lb) - 1)
           above   == hits(0 .. here - 1)
           First(S) == CHOOSE i \in S : \A j \in S : i <= j
<1>1. \A S : hits(S) \in SUBSET Nat
  BY HeldIs
<1>2. ASSUME NEW S \in SUBSET Nat, S # {} PROVE First(S) \in Int
  <2>1. \E i \in S : \A j \in S : i <= j
    BY <1>2, LoadFold!Least
  <2>2. First(S) \in S
    BY <2>1
  <2> HIDE DEF First
  <2>3. S \subseteq Int
    OBVIOUS
  <2> QED BY <2>2, <2>3
<1>3. ASSUME NEW i \in Int, NEW b \in BOOLEAN PROVE Kin(lb, [GoItem(lb, i) EXCEPT !.bykey = b])
  <2> DEFINE x == GoItem(lb, i)
  <2>1. Kin(lb, x) /\ x \in Held
    BY GoItemIs DEF Kin
  <2> HIDE DEF x
  <2>2. Kin(x, [x EXCEPT !.bykey = b])
    BY <2>1, KinMarked
  <2>3. Kin(lb, [x EXCEPT !.bykey = b])
    BY <2>1, <2>2, KinOn
  <2> QED BY <2>3 DEF x
<1>4. CASE below # {}
  <2>1. TypeAhead(lb, c) = [GoItem(lb, First(below)) EXCEPT !.bykey = TRUE]
    BY <1>4 DEF TypeAhead
  <2>2. First(below) \in Int
    <3>1. below \in SUBSET Nat
      BY <1>1
    <3> HIDE DEF below, First
    <3> QED BY <1>2, <1>4, <3>1
  <2> HIDE DEF First, below
  <2> QED BY <1>3, <2>1, <2>2
<1>5. CASE below = {} /\ above # {}
  <2>1. TypeAhead(lb, c) = [GoItem(lb, First(above)) EXCEPT !.bykey = TRUE]
    BY <1>5 DEF TypeAhead
  <2>2. First(above) \in Int
    <3>1. above \in SUBSET Nat
      BY <1>1
    <3> HIDE DEF above, First
    <3> QED BY <1>2, <1>5, <3>1
  <2> HIDE DEF First, above
  <2> QED BY <1>3, <2>1, <2>2
<1>6. CASE below = {} /\ above = {}
  <2> DEFINE b == here \in hits({here})
  <2>1. TypeAhead(lb, c) = [lb EXCEPT !.bykey = b]
    BY <1>6 DEF TypeAhead
  <2>2. b \in BOOLEAN
    OBVIOUS
  <2> HIDE DEF b
  <2> QED BY <2>1, <2>2, KinMarked
<1> QED BY <1>4, <1>5, <1>6

\* No key takes the highlight off the items of a box.
LEMMA ListKeyIs == ASSUME NEW old \in Held, NEW key PROVE Kin(old, ListKey(old, key))
<1> DEFINE lb == [old EXCEPT !.bykey = FALSE]
<1>1. Kin(old, lb) /\ lb \in Held
  BY KinMarked DEF Kin
<1>2. SUFFICES Kin(lb, ListKey(old, key))
  <2> HIDE DEF lb
  <2> QED BY <1>1, <1>2, KinOn
<1> DEFINE up == AbsRow(lb)
           down == LN!Larger(0, Count(lb) - 1 - AbsRow(lb))
<1>3. ListKey(old, key) \in {Prev(lb), Next1(lb), Again(Prev, lb, lb.rows), Again(Next1, lb, lb.rows),
                             Again(Next1, lb, down), Again(Prev, lb, up), TypeAhead(lb, key), lb}
  BY DEF ListKey
<1> HIDE DEF lb
<1>4. up \in Nat /\ down \in Nat /\ lb.rows \in Nat
  BY <1>1, HeldIs DEF LN!Larger
<1> HIDE DEF up, down
<1>5. Kin(lb, Prev(lb)) /\ Kin(lb, Next1(lb)) /\ Kin(lb, TypeAhead(lb, key)) /\ Kin(lb, lb)
  BY <1>1, PrevIs, NextIs, TypeAheadIs, KinSelf
<1>6. /\ Kin(lb, Again(Prev, lb, lb.rows)) /\ Kin(lb, Again(Next1, lb, lb.rows))
      /\ Kin(lb, Again(Next1, lb, down)) /\ Kin(lb, Again(Prev, lb, up))
  BY <1>1, <1>4, RowsUp, RowsDown DEF AreRowsUp
<1> QED BY <1>3, <1>5, <1>6

-----------------------------------------------------------------------------
(***************************************************************************)
(* Items that come and go.                                                 *)
(***************************************************************************)
\* A list without items has no highlight.
EmptyBoxes == {lb \in Boxes : lb.items = <<>> /\ ~lb.wrap}

\* What giving a box other items leaves of it.
LEMMA ItemsAre ==
    ASSUME NEW lb \in Boxes, NEW s \in Seq(Items)
    PROVE  LET x == [lb EXCEPT !.items = s]
           IN /\ x \in Boxes /\ x.items = s /\ x.start = lb.start /\ x.cur = lb.cur /\ x.rows = lb.rows
              /\ x.wrap = lb.wrap /\ x.trap = lb.trap /\ x.active = lb.active
  BY DEF Boxes

\* Asking an empty list for an item traps, and changes where it stands and nothing else.
LEMMA EmptyFlagged ==
    ASSUME NEW lb \in EmptyBoxes, NEW v
    PROVE  Flagged(lb, v) \in EmptyBoxes /\ Flagged(lb, v).active = lb.active
<1>1. Flagged(lb, v) = [lb EXCEPT !.trap = TRUE]
  <2>1. Len(lb.items) = 0 /\ lb.start \in Int /\ lb.cur \in Int
    BY DEF EmptyBoxes, Boxes
  <2>2. ~Present(lb)
    BY <2>1 DEF Present, Count, AbsRow
  <2> QED BY <2>2 DEF Flagged
<1> QED BY <1>1 DEF EmptyBoxes, Boxes

\* A box without items stays one when its rows are set.
LEMMA EmptyPlaced ==
    ASSUME NEW lb \in EmptyBoxes, NEW x, NEW s, NEW c, Placed(lb, x, s, c)
    PROVE  x \in EmptyBoxes /\ x.active = lb.active
  BY DEF EmptyBoxes, Placed

\* Up in it.
LEMMA EmptyPrev ==
    ASSUME NEW lb \in EmptyBoxes PROVE Prev(lb) \in EmptyBoxes /\ Prev(lb).active = lb.active
<1> DEFINE off == Flagged(lb, FALSE)
           up == IF lb.cur > 0 THEN [off EXCEPT !.cur = @ - 1]
                 ELSE [off EXCEPT !.start = LN!Larger(0, @ - 1)]
<1>1. Prev(lb) = Flagged(up, TRUE)
  BY DEF Prev, EmptyBoxes
<1>2. off \in EmptyBoxes /\ off.active = lb.active
  BY EmptyFlagged
<1> HIDE DEF off
<1>3. off \in Boxes /\ off.start \in Int /\ off.cur \in Int
  BY <1>2 DEF EmptyBoxes, Boxes
<1>4. up \in EmptyBoxes /\ up.active = lb.active
  <2> DEFINE c == off.cur - 1
             s == LN!Larger(0, off.start - 1)
  <2>1. up = [off EXCEPT !.cur = c] \/ up = [off EXCEPT !.start = s]
    OBVIOUS
  <2>2. c \in Int /\ s \in Int
    BY <1>3 DEF LN!Larger
  <2> HIDE DEF c, s, up
  <2>3. Placed(off, [off EXCEPT !.cur = c], off.start, c) /\ Placed(off, [off EXCEPT !.start = s], s, off.cur)
    BY <1>3, <2>2, CurIs, StartIs
  <2> QED BY <1>2, <2>1, <2>3, EmptyPlaced
<1> HIDE DEF up
<1> QED BY <1>1, <1>4, EmptyFlagged

\* Down in it.
LEMMA EmptyNext ==
    ASSUME NEW lb \in EmptyBoxes PROVE Next1(lb) \in EmptyBoxes /\ Next1(lb).active = lb.active
<1> DEFINE off == Flagged(lb, FALSE)
           c   == LN!Smaller(lb.cur + 1, Count(lb) - lb.start - 1)
           down == IF c < lb.rows THEN [off EXCEPT !.cur = c]
                   ELSE [off EXCEPT !.start = @ + c - lb.rows + 1, !.cur = lb.rows - 1]
<1>1. Next1(lb) = Flagged(down, TRUE)
  BY DEF Next1, EmptyBoxes
<1>2. off \in EmptyBoxes /\ off.active = lb.active
  BY EmptyFlagged
<1> HIDE DEF off
<1>3. off \in Boxes /\ off.start \in Int
  BY <1>2 DEF EmptyBoxes, Boxes
<1>4. lb.cur \in Int /\ lb.start \in Int /\ lb.rows \in Int /\ Count(lb) = 0
  BY DEF EmptyBoxes, Boxes, Count
<1>5. c \in Int
  BY <1>4 DEF LN!Smaller
<1> HIDE DEF c
<1>6. down \in EmptyBoxes /\ down.active = lb.active
  <2> DEFINE w == lb.rows - 1
             s == off.start + c - lb.rows + 1
  <2>1. down = [off EXCEPT !.cur = c] \/ down = [off EXCEPT !.start = s, !.cur = w]
    OBVIOUS
  <2>2. w \in Int /\ s \in Int
    BY <1>3, <1>4, <1>5
  <2> HIDE DEF w, s, down
  <2>3. Placed(off, [off EXCEPT !.cur = c], off.start, c)
    BY <1>3, <1>5, CurIs
  <2>4. Placed(off, [off EXCEPT !.start = s, !.cur = w], s, w)
    BY <1>3, <2>2, BothAre
  <2> QED BY <1>2, <2>1, <2>3, <2>4, EmptyPlaced
<1> HIDE DEF down
<1> QED BY <1>1, <1>6, EmptyFlagged

\* Any number of these.
LEMMA EmptyAgain ==
    ASSUME NEW lb \in EmptyBoxes, NEW n \in Int
    PROVE  /\ Again(Prev, lb, n) \in EmptyBoxes /\ Again(Prev, lb, n).active = lb.active
           /\ Again(Next1, lb, n) \in EmptyBoxes /\ Again(Next1, lb, n).active = lb.active
<1> DEFINE s == [k \in 1 .. n |-> k]
           T == {x \in EmptyBoxes : x.active = lb.active}
           z == {}
<1>1. s \in Seq(Nat)
  <2>1. CASE n \in Nat
    BY <2>1
  <2>2. CASE n \notin Nat
    <3>1. s = <<>>
      BY <2>2
    <3> QED BY <3>1
  <2> QED BY <2>1, <2>2
<1>2. Again(Prev, lb, n) = PrevFold!Fold(z, lb, s) /\ Again(Next1, lb, n) = NextFold!Fold(z, lb, s)
  BY AgainPrevIsFold, AgainNextIsFold
<1> HIDE DEF s, z
<1>3. lb \in T
  OBVIOUS
<1>4. ASSUME NEW x \in T, NEW k \in Nat PROVE PrevRound(z, x, k) \in T /\ NextRound(z, x, k) \in T
  BY EmptyPrev, EmptyNext DEF PrevRound, NextRound
<1> HIDE DEF T
<1>5. PrevFold!Fold(z, lb, s) \in T
  BY <1>1, <1>3, <1>4, PrevFold!FoldIsIn
<1>6. NextFold!Fold(z, lb, s) \in T
  BY <1>1, <1>3, <1>4, NextFold!FoldIsIn
<1> QED BY <1>2, <1>5, <1>6 DEF T

\* No key gives an empty list an item.
LEMMA EmptyKey ==
    ASSUME NEW old \in EmptyBoxes, NEW key
    PROVE  ListKey(old, key) \in EmptyBoxes /\ ListKey(old, key).active = old.active
<1> DEFINE lb == [old EXCEPT !.bykey = FALSE]
           up == AbsRow(lb)
           down == LN!Larger(0, Count(lb) - 1 - AbsRow(lb))
<1>1. lb \in EmptyBoxes /\ lb.active = old.active
  BY DEF EmptyBoxes, Boxes
<1>2. ListKey(old, key) \in {Prev(lb), Next1(lb), Again(Prev, lb, lb.rows), Again(Next1, lb, lb.rows),
                             Again(Next1, lb, down), Again(Prev, lb, up), TypeAhead(lb, key), lb}
  BY DEF ListKey
<1> HIDE DEF lb
<1>3. up \in Int /\ down \in Int /\ lb.rows \in Int /\ Count(lb) = 0
  BY <1>1 DEF EmptyBoxes, Boxes, AbsRow, Count, LN!Larger
<1>4. TypeAhead(lb, key) \in EmptyBoxes /\ TypeAhead(lb, key).active = lb.active
  <2> DEFINE here    == AbsRow(lb)
             hits(S) == {i \in S \cap (0 .. Count(lb) - 1) : Begins(lb, i, key)}
             b == here \in hits({here})
  <2>1. \A S : hits(S) = {}
    BY <1>3
  <2>2. TypeAhead(lb, key) = [lb EXCEPT !.bykey = b]
    BY <2>1 DEF TypeAhead
  <2>3. b \in BOOLEAN
    OBVIOUS
  <2> HIDE DEF b
  <2> QED BY <1>1, <2>2, <2>3 DEF EmptyBoxes, Boxes
<1> HIDE DEF up, down
<1>5. /\ Prev(lb) \in EmptyBoxes /\ Prev(lb).active = lb.active
      /\ Next1(lb) \in EmptyBoxes /\ Next1(lb).active = lb.active
  BY <1>1, EmptyPrev, EmptyNext
<1>6. \A n \in Int : /\ Again(Prev, lb, n) \in EmptyBoxes /\ Again(Prev, lb, n).active = lb.active
                     /\ Again(Next1, lb, n) \in EmptyBoxes /\ Again(Next1, lb, n).active = lb.active
  BY <1>1, EmptyAgain
<1> QED BY <1>1, <1>2, <1>3, <1>4, <1>5, <1>6

\* The texts, keys and marks of s are those of t without element i.
AreWithout(s, t, i) ==
    /\ Len(s) = Len(t) - 1
    /\ \A j \in 1 .. Len(t) - 1 :
          LET u == IF j < i THEN j ELSE j + 1
          IN s[j].text = t[u].text /\ s[j].key = t[u].key /\ s[j].mark = t[u].mark

\* The box without the item under the highlight, which comes to the next one or to the new last
\* one, if there is one.
IsDeleted(lb, x) ==
    /\ x.active = lb.active /\ ~x.wrap
    /\ AreWithout(x.items, lb.items, AbsRow(lb) + 1)
    /\ IF Count(lb) = 1 THEN x \in EmptyBoxes ELSE x \in Held

\* del_item takes out the chosen item and highlights one that is left, if one is.
LEMMA DelItemIs ==
    ASSUME NEW lb \in Held, ~lb.wrap PROVE IsDeleted(lb, DelItem(lb, AbsRow(lb)))
<1> DEFINE i == AbsRow(lb)
           moved == IF i = Count(lb) - 1 THEN GoItem(lb, i - 1) ELSE lb
           s == RemoveAt(moved.items, i + 1)
           x == [moved EXCEPT !.items = s]
<1>1. lb \in Boxes /\ i \in Nat /\ Count(lb) \in Nat /\ i < Count(lb) /\ Count(lb) = Len(lb.items)
  BY HeldIs DEF Count
<1>2. DelItem(lb, i) = x
  BY <1>1 DEF DelItem
<1>3. Kin(lb, moved)
  BY <1>1, KinSelf, GoItemIs
<1>4. AbsRow(moved) = IF i = Count(lb) - 1 /\ i > 0 THEN i - 1 ELSE i
  <2>1. CASE i = Count(lb) - 1 /\ i > 0
    BY <1>1, <2>1, GoItemIs
  <2>2. CASE i = Count(lb) - 1 /\ ~(i > 0)
    BY <1>1, <2>2 DEF GoItem
  <2>3. CASE i # Count(lb) - 1
    BY <2>3
  <2> QED BY <2>1, <2>2, <2>3
<1> HIDE DEF moved
<1>5. /\ moved \in Held /\ moved \in Boxes /\ ~moved.wrap /\ moved.active = lb.active /\ ~moved.trap
      /\ moved.start \in Nat /\ moved.cur \in Nat /\ AbsRow(moved) = moved.start + moved.cur
      /\ moved.items \in Seq(Items) /\ SameItems(moved.items, lb.items)
  BY <1>3, HeldIs DEF Kin
<1>6. Len(moved.items) = Count(lb) /\ i + 1 \in 1 .. Len(moved.items)
  BY <1>1, <1>5 DEF SameItems
<1>7. /\ s \in Seq(Items) /\ Len(s) = Count(lb) - 1
      /\ \A j \in 1 .. Count(lb) - 1 : s[j] = IF j < i + 1 THEN moved.items[j] ELSE moved.items[j + 1]
  BY <1>5, <1>6, RemovedIs
<1> HIDE DEF s
<1>8. /\ x \in Boxes /\ x.items = s /\ x.start = moved.start /\ x.cur = moved.cur
      /\ x.wrap = moved.wrap /\ x.trap = moved.trap /\ x.active = moved.active
  BY <1>5, <1>7, ItemsAre
<1> HIDE DEF x
<1>9. AreWithout(x.items, lb.items, i + 1)
  <2>1. ASSUME NEW j \in 1 .. Count(lb) - 1, NEW u, u = IF j < i + 1 THEN j ELSE j + 1
        PROVE  /\ s[j].text = lb.items[u].text /\ s[j].key = lb.items[u].key
               /\ s[j].mark = lb.items[u].mark
    <3>1. u \in 1 .. Len(lb.items) /\ s[j] = moved.items[u]
      BY <1>1, <1>7, <2>1
    <3> QED BY <1>5, <3>1 DEF SameItems
  <2>2. ASSUME NEW j \in 1 .. Len(lb.items) - 1
        PROVE  LET u == IF j < i + 1 THEN j ELSE j + 1
               IN /\ s[j].text = lb.items[u].text /\ s[j].key = lb.items[u].key
                  /\ s[j].mark = lb.items[u].mark
    <3> DEFINE u == IF j < i + 1 THEN j ELSE j + 1
    <3>1. j \in 1 .. Count(lb) - 1 /\ u = IF j < i + 1 THEN j ELSE j + 1
      BY <1>1
    <3> HIDE DEF u
    <3>2. /\ s[j].text = lb.items[u].text /\ s[j].key = lb.items[u].key
          /\ s[j].mark = lb.items[u].mark
      BY <2>1, <3>1
    <3> QED BY <3>2 DEF u
  <2>3. x.items = s /\ Len(s) = Len(lb.items) - 1
    BY <1>1, <1>7, <1>8
  <2> QED BY <2>2, <2>3 DEF AreWithout
<1>10. CASE Count(lb) = 1
  <2>1. s = <<>>
    BY <1>7, <1>10
  <2>2. x \in EmptyBoxes
    BY <1>5, <1>8, <2>1 DEF EmptyBoxes
  <2> QED BY <1>2, <1>5, <1>8, <1>9, <1>10, <2>2 DEF IsDeleted
<1>11. CASE Count(lb) # 1
  <2>1. Present(x) /\ AbsRow(x) = AbsRow(moved)
    <3>1. AbsRow(x) = AbsRow(moved)
      BY <1>8 DEF AbsRow
    <3>2. AbsRow(moved) \in 0 .. Count(lb) - 2 /\ Count(x) = Count(lb) - 1
      <4> DEFINE n == Count(lb)
      <4>1. Count(x) = n - 1 /\ n \in Nat /\ n # 1 /\ i < n /\ i \in Nat
        BY <1>1, <1>7, <1>8, <1>11 DEF Count
      <4>2. AbsRow(moved) = IF i = n - 1 /\ i > 0 THEN i - 1 ELSE i
        BY <1>4
      <4> HIDE DEF n, i
      <4> QED BY <4>1, <4>2 DEF n
    <3> QED BY <1>1, <3>1, <3>2 DEF Present
  <2>2. ASSUME NEW j \in DOMAIN x.items, x.items[j].sel PROVE j = AbsRow(x) + 1
    <3> DEFINE u == IF j < i + 1 THEN j ELSE j + 1
    <3>1. j \in 1 .. Count(lb) - 1
      BY <1>7, <1>8, LenProperties
    <3>2. u \in 1 .. Count(lb) /\ moved.items[u].sel
      BY <1>1, <1>7, <1>8, <2>2, <3>1
    <3>3. u \in DOMAIN moved.items
      BY <1>5, <1>6, <3>2, LenProperties
    <3>4. u = AbsRow(moved) + 1
      <4> HIDE DEF u
      <4> QED BY <1>5, <3>2, <3>3 DEF Held
    <3> QED BY <1>1, <1>4, <2>1, <3>1, <3>4
  <2>3. x \in Held
    BY <1>5, <1>8, <2>1, <2>2 DEF Held
  <2> QED BY <1>2, <1>5, <1>8, <1>9, <1>11, <2>3 DEF IsDeleted
<1> QED BY <1>10, <1>11

\* A sequence over a set is one over a larger set.
LEMMA SeqInto == ASSUME NEW S, NEW T, S \subseteq T, NEW s \in Seq(S) PROVE s \in Seq(T)
  OBVIOUS

Plain == {it \in Items : ~it.sel}

\* What is offered for a list box can be shown in one.
LEMMA OfferedArePlain ==
    ASSUME NEW items, AreItems(items), ToSet(items) \subseteq Offered PROVE items \in Seq(Plain)
<1>1. items \in Seq(ToSet(items))
  BY DEF AreItems, IsSequence
<1>2. ASSUME NEW it \in ToSet(items) PROVE it \in Plain
  <2>1. it = Item(it.text, it.key, it.mark) /\ it.text \in Seq(ToSet(it.text)) /\ it \in Offered
    BY DEF AreItems, IsSequence
  <2>2. ToSet(it.text) \subseteq Chr
    <3>1. ToSet(it.text) \subseteq OfferedChars
      BY <2>1 DEF OfferedChars
    <3> QED BY <3>1 DEF Chr
  <2>3. it.text \in Strings
    BY <2>1, <2>2, SeqInto DEF Strings
  <2>4. it.key \in Keys /\ it.mark \in Marks
    BY <2>1 DEF Keys, Marks
  <2>5. Item(it.text, it.key, it.mark) \in Plain
    BY <2>3, <2>4 DEF Item, Plain, Items
  <2> QED BY <2>1, <2>5
<1> QED BY <1>1, <1>2, SeqInto

\* A directory is a list of items, one of them a drive or a directory.
LEMMA DirectoryIs ==
    ASSUME NEW dir \in Directories
    PROVE  /\ Tree[dir] \in Seq(Plain)
           /\ \E i \in 1 .. Len(Tree[dir]) : Tree[dir][i].key # 0
<1>1. AreItems(Tree[dir]) /\ \E i \in DOMAIN Tree[dir] : Tree[dir][i].key # 0
  BY TreeAssumption DEF Directories
<1>2. ToSet(Tree[dir]) \subseteq Offered
  BY DEF Offered
<1>3. Tree[dir] \in Seq(Plain)
  BY <1>1, <1>2, OfferedArePlain
<1> QED BY <1>1, <1>3

\* The loop over a directory as a fold.
LEMMA ShownIsFold == \A dir, mask : Shown(dir, mask) = ShownFold!Fold(mask, <<>>, Tree[dir])
  BY DEF Shown, ShownFold!Fold, ShownRound, FoldLeft, MapThenFoldSet, Max,
         ShownFold!FoldLeft, ShownFold!MapThenFoldSet, ShownFold!Max

\* A list of files has an item, for the drives are shown whatever the mask is.
LEMMA ShownIs ==
    ASSUME NEW dir \in Directories, NEW mask
    PROVE  Shown(dir, mask) \in Seq(Plain) /\ Len(Shown(dir, mask)) > 0
<1> DEFINE s == Tree[dir]
           n == Len(s)
<1>1. s \in Seq(Plain) /\ n \in Nat /\ DOMAIN s = 1 .. n
  BY DirectoryIs
<1>2. PICK i \in 1 .. n : s[i].key # 0
  BY DirectoryIs
<1>3. Shown(dir, mask) = ShownFold!Fold(mask, <<>>, s)
  BY ShownIsFold
<1> HIDE DEF s
<1> DEFINE z == <<>>
<1>4. z \in Seq(Plain)
  OBVIOUS
<1> HIDE DEF z
<1>5. PICK a : ShownFold!IsTrace(a, mask, z, s, n)
  BY <1>1, ShownFold!FoldTrace
<1> HIDE DEF n
<1>6. /\ a[0] = z
      /\ \A k \in 1 .. n : a[k] = IF Found(mask, s[k]) THEN Append(a[k - 1], s[k]) ELSE a[k - 1]
  BY <1>5 DEF ShownFold!IsTrace, ShownRound
<1>7. Shown(dir, mask) = a[n]
  BY <1>3, <1>5 DEF ShownFold!IsTrace, z
<1> DEFINE T == {k \in 0 .. n : a[k] \in Seq(Plain) /\ (i <= k => Len(a[k]) > 0)}
<1>8. 0 \in T
  BY <1>1, <1>2, <1>4, <1>6
<1>9. ASSUME NEW k \in 1 .. n, k - 1 \in T PROVE k \in T
  <2> DEFINE x == a[k - 1]
             e == s[k]
  <2>1. x \in Seq(Plain) /\ (i <= k - 1 => Len(x) > 0) /\ k \in 0 .. n /\ k \in Nat /\ i \in Nat
    BY <1>1, <1>9
  <2>2. e \in Plain /\ a[k] = IF Found(mask, e) THEN Append(x, e) ELSE x
    BY <1>1, <1>6
  <2>3. i = k => Found(mask, e)
    BY <1>2 DEF Found
  <2> HIDE DEF x, e
  <2>4. Append(x, e) \in Seq(Plain) /\ Len(Append(x, e)) > 0
    BY <2>1, <2>2
  <2>5. a[k] \in Seq(Plain) /\ (i <= k => Len(a[k]) > 0)
    <3>1. CASE Found(mask, e)
      BY <2>2, <2>4, <3>1
    <3>2. CASE ~Found(mask, e)
      BY <2>1, <2>2, <2>3, <3>2
    <3> QED BY <3>1, <3>2
  <2> QED BY <2>1, <2>5
<1> HIDE DEF T
<1>10. n \in T
  BY <1>1, <1>8, <1>9, ShownFold!IntervalIsIn
<1> QED BY <1>2, <1>7, <1>10 DEF T

\* go_item to the row where the highlight is
LEMMA GoHere ==
    ASSUME NEW lb, AbsRow(lb) = 0, Count(lb) \in Nat PROVE GoItem(lb, 0) = lb
<1>1. GoItem(lb, 0) = Again(Next1, lb, 0)
  BY DEF GoItem
<1>2. Again(Next1, lb, 0) = NextFold!Fold({}, lb, [k \in 1 .. 0 |-> k])
  BY AgainNextIsFold
<1>3. [k \in 1 .. 0 |-> k] = <<>>
  OBVIOUS
<1> DEFINE z == {}
<1> HIDE DEF z
<1>4. NextFold!Fold(z, lb, <<>>) = lb
  BY NextFold!FoldEmpty
<1> QED BY <1>1, <1>2, <1>3, <1>4 DEF z

\* and plain items for a box with the highlight on the first row.
LEMMA FirstHeld ==
    ASSUME NEW lb \in Boxes, lb.start \in Nat, lb.cur \in Nat, AbsRow(lb) = 0, ~lb.trap,
           NEW s \in Seq(Plain), Len(s) > 0
    PROVE  LET x == [lb EXCEPT !.items = s]
           IN x \in Held /\ x.wrap = lb.wrap /\ x.active = lb.active /\ x.items = s
<1> DEFINE x == [lb EXCEPT !.items = s]
<1>1. s \in Seq(Items) /\ \A j \in DOMAIN s : ~s[j].sel
  BY DEF Plain
<1>2. /\ x \in Boxes /\ x.items = s /\ x.start = lb.start /\ x.cur = lb.cur /\ x.rows = lb.rows
      /\ x.wrap = lb.wrap /\ x.trap = lb.trap /\ x.active = lb.active
  BY <1>1, ItemsAre
<1> HIDE DEF x
<1>3. Present(x)
  BY <1>2 DEF Present, AbsRow, Count
<1> QED BY <1>1, <1>2, <1>3 DEF Held, x

\* FillFileList: a list with its highlight on the first item.
LEMMA FilledIs ==
    ASSUME NEW lb \in Boxes, ~lb.wrap, NEW dir \in Directories, NEW mask,
           lb \in Held \/ (lb.start = 0 /\ lb.cur = 0 /\ lb.items = <<>> /\ ~lb.trap)
    PROVE  LET x == FillFileList(lb, dir, mask)
           IN x \in Held /\ ~x.wrap /\ x.active = lb.active
<1> DEFINE g == GoItem(lb, 0)
           r == RemoveItems(g)
           s == Shown(dir, mask)
<1>1. s \in Seq(Plain) /\ Len(s) > 0
  BY ShownIs
<1>2. /\ g \in Boxes /\ g.start \in Nat /\ g.cur \in Nat /\ AbsRow(g) = 0
      /\ ~g.trap /\ ~g.wrap /\ g.active = lb.active
  <2>1. CASE lb \in Held
    <3>1. CASE AbsRow(lb) = 0
      BY <2>1, <3>1, HeldIs, GoHere
    <3>2. CASE AbsRow(lb) # 0
      <4>1. 0 \in 0 .. AbsRow(lb) - 1 /\ 0 \in Int
        BY <2>1, <3>2, HeldIs
      <4>2. Kin(lb, g) /\ AbsRow(g) = 0
        BY <2>1, <4>1, GoItemIs
      <4> HIDE DEF g
      <4> QED BY <4>2, HeldIs DEF Kin
    <3> QED BY <3>1, <3>2
  <2>2. CASE lb.start = 0 /\ lb.cur = 0 /\ lb.items = <<>> /\ ~lb.trap
    <3>1. AbsRow(lb) = 0 /\ Count(lb) = 0
      BY <2>2 DEF AbsRow, Count
    <3>2. g = lb
      BY <3>1, GoHere
    <3> HIDE DEF g
    <3> QED BY <2>2, <3>1, <3>2
  <2> QED BY <2>1, <2>2
<1> HIDE DEF g, s
<1>3. <<>> \in Seq(Items)
  OBVIOUS
<1>4. /\ r \in Boxes /\ r.start = g.start /\ r.cur = g.cur
      /\ r.wrap = g.wrap /\ r.trap = g.trap /\ r.active = g.active
  BY <1>2, <1>3, ItemsAre DEF RemoveItems
<1> HIDE DEF r
<1>5. AbsRow(r) = 0
  BY <1>2, <1>4 DEF AbsRow
<1> DEFINE x == [r EXCEPT !.items = s]
<1>6. x \in Held /\ x.wrap = r.wrap /\ x.active = r.active
  BY <1>1, <1>2, <1>4, <1>5, FirstHeld
<1>7. FillFileList(lb, dir, mask) = x
  BY DEF FillFileList, r, g, s
<1> HIDE DEF x
<1> QED BY <1>2, <1>4, <1>6, <1>7

-----------------------------------------------------------------------------
(***************************************************************************)
(* Input lines.                                                            *)
(***************************************************************************)
Lines == [kind : {"line"}, text : Strings, col : Nat, mark : Int, ins : BOOLEAN, active : BOOLEAN]

\* The last place up to n that is in a set, or 0.
LEMMA LastIs ==
    ASSUME NEW n \in Nat, NEW D
    PROVE  \E k \in 0 .. n : (k > 0 => k \in D) /\ \A j \in k + 1 .. n : j \notin D
<1> DEFINE T == {m \in 0 .. n : m = n \/ n - m \in D}
<1>1. T \in SUBSET Nat /\ n \in T
  OBVIOUS
<1>2. PICK m \in T : \A j \in T : m <= j
  BY <1>1, LoadFold!Least
<1>3. m \in 0 .. n /\ (m = n \/ n - m \in D)
  BY <1>2
<1>4. ASSUME NEW j \in n - m + 1 .. n, j \in D PROVE FALSE
  <2>1. n - j \in 0 .. n /\ n - (n - j) = j /\ ~(m <= n - j)
    BY <1>3
  <2>2. n - j \in T
    BY <1>4, <2>1
  <2> QED BY <1>2, <2>1, <2>2
<1>5. n - m \in 0 .. n /\ (n - m > 0 => n - m \in D)
  BY <1>3
<1> QED BY <1>4, <1>5

\* The first place below n that is in a set, or n.
LEMMA FirstIs ==
    ASSUME NEW n \in Nat, NEW D
    PROVE  \E k \in 0 .. n : (k < n => k + 1 \in D) /\ \A j \in 1 .. k : j \notin D
<1> DEFINE T == {m \in 0 .. n : m = n \/ m + 1 \in D}
<1>1. T \in SUBSET Nat /\ n \in T
  OBVIOUS
<1>2. PICK k \in T : \A j \in T : k <= j
  BY <1>1, LoadFold!Least
<1>3. k \in 0 .. n /\ (k < n => k + 1 \in D)
  BY <1>2
<1>4. ASSUME NEW j \in 1 .. k, j \in D PROVE FALSE
  <2>1. j - 1 \in 0 .. n /\ (j - 1) + 1 = j /\ ~(k <= j - 1)
    BY <1>3
  <2>2. j - 1 \in T
    BY <1>4, <2>1
  <2> QED BY <1>2, <2>1, <2>2
<1> QED BY <1>3, <1>4

\* The length of a text without the blanks that end it, and its indent.
LEMMA MeasuresAre ==
    ASSUME NEW s \in Strings
    PROVE  LN!TrimmedLen(s) \in 0 .. Len(s) /\ LN!IndentOffset(s) \in 0 .. Len(s)
<1> DEFINE n == Len(s)
           D == {i \in 1 .. n : s[i] # LN!Blank}
<1>1. n \in Nat
  BY LenProperties DEF Strings
<1>2. \E k \in 0 .. n : (\A i \in k + 1 .. n : s[i] = LN!Blank) /\ (k > 0 => s[k] # LN!Blank)
  <2>1. PICK k \in 0 .. n : (k > 0 => k \in D) /\ \A j \in k + 1 .. n : j \notin D
    BY <1>1, LastIs
  <2>2. (\A i \in k + 1 .. n : s[i] = LN!Blank) /\ (k > 0 => s[k] # LN!Blank)
    BY <1>1, <2>1
  <2> QED BY <2>2
<1>3. \E k \in 0 .. n : (\A i \in 1 .. k : s[i] = LN!Blank) /\ (k < n => s[k + 1] # LN!Blank)
  <2>1. PICK k \in 0 .. n : (k < n => k + 1 \in D) /\ \A j \in 1 .. k : j \notin D
    BY <1>1, FirstIs
  <2>2. (\A i \in 1 .. k : s[i] = LN!Blank) /\ (k < n => s[k + 1] # LN!Blank)
    BY <1>1, <2>1
  <2> QED BY <2>2
<1>4. LN!TrimmedLen(s) \in 0 .. n
  BY <1>2 DEF LN!TrimmedLen
<1>5. LN!IndentOffset(s) \in 0 .. n
  BY <1>3 DEF LN!IndentOffset
<1> QED BY <1>4, <1>5

\* What comes into a text and goes out of it leaves it one.
LEMMA InsertedIs ==
    ASSUME NEW s \in Strings, NEW pos \in Nat, NEW t \in Strings PROVE LN!InsChars(s, pos, t) \in Strings
<1> DEFINE b == LN!Blanks(pos - Len(s))
           p == LN!Pad(s, pos)
<1>1. b \in Strings
  <2>1. LN!Larger(pos - Len(s), 0) \in Nat /\ LN!Blank \in Chr
    BY LenProperties DEF Strings, LN!Larger, Chr
  <2> QED BY <2>1 DEF LN!Blanks, Strings
<1>2. p \in Strings
  <2> HIDE DEF b
  <2> QED BY <1>1 DEF LN!Pad, Strings, b
<1> HIDE DEF p
<1> DEFINE n == Len(p)
           u == SubSeq(p, 1, pos)
           v == SubSeq(p, pos + 1, n)
<1>3. n \in Nat
  BY <1>2, LenProperties DEF Strings
<1>4. u \in Strings \/ pos > n
  BY <1>2, <1>3 DEF Strings
<1>5. n >= pos
  <2> DEFINE m == Len(s)
  <2>1. m \in Nat
    BY LenProperties DEF Strings
  <2>2. Len(b) = LN!Larger(pos - m, 0)
    BY <2>1 DEF LN!Blanks, LN!Larger
  <2>3. n = m + Len(b)
    <3> HIDE DEF b
    <3> QED BY <1>1 DEF p, LN!Pad, Strings, b
  <2> HIDE DEF n, b
  <2> QED BY <2>1, <2>2, <2>3 DEF LN!Larger
<1>6. v \in Strings
  BY <1>2, <1>3 DEF Strings
<1> HIDE DEF u, v
<1>7. u \o t \o v \in Strings
  BY <1>3, <1>4, <1>5, <1>6 DEF Strings
<1> QED BY <1>7 DEF LN!InsChars, p, u, v

\* A string with characters taken out is a string.
LEMMA CutIs ==
    ASSUME NEW s \in Strings, NEW pos \in Int, NEW num \in Int PROVE LN!DelChars(s, pos, num) \in Strings
<1> DEFINE n == Len(s)
<1>1. n \in Nat
  BY LenProperties DEF Strings
<1>2. CASE pos < 0 \/ num <= 0 \/ pos >= n
  BY <1>2 DEF LN!DelChars
<1>3. CASE ~(pos < 0 \/ num <= 0 \/ pos >= n)
  <2> DEFINE u == SubSeq(s, 1, pos)
             v == SubSeq(s, pos + num + 1, n)
  <2>1. u \in Strings
    BY <1>1, <1>3 DEF Strings
  <2>2. v \in Strings
    BY <1>1, <1>3 DEF Strings
  <2>3. LN!DelChars(s, pos, num) = u \o v
    BY <1>3 DEF LN!DelChars
  <2> HIDE DEF u, v
  <2> QED BY <2>1, <2>2, <2>3 DEF Strings
<1> QED BY <1>2, <1>3

\* Each operation on a line leaves it one, in focus or not as before.
LEMMA SetTextIs ==
    ASSUME NEW l \in Lines, NEW s \in Strings
    PROVE  SetText(l, s) \in Lines /\ SetText(l, s).active = l.active
<1> DEFINE c == LN!TrimmedLen(s)
           m == IF l.mark < 0 THEN 0 ELSE l.mark
<1>1. c \in Nat
  BY MeasuresAre, LenProperties DEF Strings
<1>2. m \in Int
  BY DEF Lines
<1>3. SetText(l, s) = [l EXCEPT !.text = s, !.col = c, !.mark = m]
  BY DEF SetText
<1> HIDE DEF c, m
<1> QED BY <1>1, <1>2, <1>3 DEF Lines

\* A line without its marked part is a line.
LEMMA ClearedIs ==
    ASSUME NEW l \in Lines PROVE ClearMarked(l) \in Lines /\ ClearMarked(l).active = l.active
<1> DEFINE from == LN!Smaller(l.mark, l.col)
           num  == LN!Larger(l.mark, l.col) - from
           s    == LN!DelChars(l.text, from, num)
<1>1. CASE l.mark < 0
  BY <1>1 DEF ClearMarked
<1>2. CASE ~(l.mark < 0)
  <2>1. from \in Nat /\ num \in Int
    BY <1>2 DEF Lines, LN!Smaller, LN!Larger
  <2>2. ClearMarked(l) = [l EXCEPT !.text = s, !.col = from, !.mark = -1]
    BY <1>2 DEF ClearMarked
  <2> DEFINE none == -1
  <2>3. none \in Int /\ ClearMarked(l) = [l EXCEPT !.text = s, !.col = from, !.mark = none]
    BY <2>2
  <2> HIDE DEF from, num, none
  <2>4. s \in Strings
    BY <2>1, CutIs DEF Lines
  <2> HIDE DEF s
  <2> QED BY <2>1, <2>3, <2>4 DEF Lines
<1> QED BY <1>1, <1>2

\* No key makes a line anything else.
LEMMA LineKeyIs ==
    ASSUME NEW l \in Lines, NEW key, NEW shift
    PROVE  LineKey(l, key, shift) \in Lines /\ LineKey(l, key, shift).active = l.active
<1>1. /\ l.text \in Strings /\ l.col \in Nat /\ l.mark \in Int /\ l.ins \in BOOLEAN
      /\ LN!TrimmedLen(l.text) \in Nat /\ Len(l.text) \in Nat
  <2>1. l.text \in Strings
    BY DEF Lines
  <2>2. LN!TrimmedLen(l.text) \in 0 .. Len(l.text) /\ Len(l.text) \in Nat
    BY <2>1, MeasuresAre, LenProperties DEF Strings
  <2> QED BY <2>1, <2>2 DEF Lines
<1>2. ASSUME NEW c \in Nat PROVE MoveTo(l, c, shift) \in Lines /\ MoveTo(l, c, shift).active = l.active
  <2> DEFINE m == IF shift THEN MarkAt(l) ELSE -1
  <2>1. m \in Int
    BY <1>1 DEF MarkAt
  <2>2. MoveTo(l, c, shift) = [l EXCEPT !.col = c, !.mark = m]
    BY DEF MoveTo
  <2> HIDE DEF m
  <2> QED BY <2>1, <2>2 DEF Lines
<1> DEFINE k == ClearMarked(l)
<1>3. k \in Lines /\ k.active = l.active
  BY ClearedIs
<1>4. BackSpace(l) \in Lines /\ BackSpace(l).active = l.active
  <2> DEFINE s == LN!DelChars(k.text, k.col - 1, 1)
  <2>1. BackSpace(l) = IF k.col = 0 THEN k ELSE [k EXCEPT !.col = k.col - 1, !.text = s]
    BY DEF BackSpace
  <2> HIDE DEF k
  <2>2. k.text \in Strings /\ k.col \in Nat
    BY <1>3 DEF Lines
  <2>3. s \in Strings
    BY <2>2, CutIs
  <2> HIDE DEF s
  <2>4. CASE k.col = 0
    BY <1>3, <2>1, <2>4
  <2>5. CASE k.col # 0
    <3>1. k.col - 1 \in Nat
      BY <2>2, <2>5
    <3> QED BY <1>3, <2>1, <2>3, <2>5, <3>1 DEF Lines
  <2> QED BY <2>4, <2>5
<1>5. ASSUME key \in Typed PROVE TypeInto(l, key) \in Lines /\ TypeInto(l, key).active = l.active
  <2> DEFINE rest == IF k.ins THEN k.text ELSE LN!DelChars(k.text, k.col, 1)
             o == <<key>>
             s == LN!InsChars(rest, k.col, o)
  <2>1. TypeInto(l, key) = [k EXCEPT !.text = s, !.col = k.col + 1]
    BY DEF TypeInto
  <2> HIDE DEF k
  <2>2. k.text \in Strings /\ k.col \in Nat /\ k.col + 1 \in Nat
    BY <1>3 DEF Lines
  <2>3. rest \in Strings
    BY <2>2, CutIs
  <2>4. o \in Strings
    BY <1>5 DEF Strings, Chr
  <2> HIDE DEF rest, o
  <2>5. s \in Strings
    BY <2>2, <2>3, <2>4, InsertedIs
  <2> HIDE DEF s
  <2> QED BY <1>3, <2>1, <2>2, <2>5 DEF Lines
<1>6. DelAt(l) \in Lines /\ DelAt(l).active = l.active
  <2> DEFINE n == Len(l.text)
             u == LN!DelChars(l.text, l.col, n)
             v == LN!DelChars(l.text, l.col, 1)
             s == IF LN!TrimmedLen(l.text) <= l.col THEN u ELSE v
  <2>1. DelAt(l) = [l EXCEPT !.text = s]
    BY DEF DelAt
  <2>2. u \in Strings /\ v \in Strings
    BY <1>1, CutIs
  <2> HIDE DEF u, v
  <2>3. s \in Strings
    BY <2>2
  <2> HIDE DEF s
  <2> QED BY <2>1, <2>3 DEF Lines
<1> HIDE DEF k
<1> DEFINE d == IF l.mark >= 0 THEN k ELSE DelAt(l)
<1>7. d \in Lines /\ d.active = l.active
  BY <1>3, <1>6
<1> HIDE DEF d
<1>8. [d EXCEPT !.mark = -1] \in Lines /\ [d EXCEPT !.mark = -1].active = l.active
  BY <1>7 DEF Lines
<1>9. [l EXCEPT !.ins = ~l.ins] \in Lines /\ [l EXCEPT !.ins = ~l.ins].active = l.active
  BY DEF Lines
<1>10. LN!Larger(0, l.col - 1) \in Nat /\ l.col + 1 \in Nat
  BY <1>1 DEF LN!Larger
<1>11. LineKey(l, key, shift) \in
          {MoveTo(l, LN!Larger(0, l.col - 1), shift), MoveTo(l, l.col + 1, shift), MoveTo(l, 0, shift),
           MoveTo(l, LN!TrimmedLen(l.text), shift), [l EXCEPT !.ins = ~l.ins], BackSpace(l),
           [d EXCEPT !.mark = -1], l}
       \/ (key \in Typed /\ LineKey(l, key, shift) = TypeInto(l, key))
  BY DEF LineKey, d, k
<1> QED BY <1>1, <1>2, <1>4, <1>5, <1>8, <1>9, <1>10, <1>11

-----------------------------------------------------------------------------
(***************************************************************************)
(* Dialogs: each kind has its controls in their places, and the focus is   *)
(* on one that accepts it.                                                 *)
(***************************************************************************)
Parts == Held \cup Lines \cup {StaticText}
Size(kind) == IF kind = "search" THEN Len(Fields) + 1 ELSE IF kind = "file" THEN 3 ELSE 1
Lists1 == {lb \in Held : ~lb.wrap}
Slot(kind, i) == IF kind = "menu" THEN Held
                 ELSE IF i = 1 THEN {StaticText}
                 ELSE IF kind = "file" /\ i = 3 THEN Lists1 ELSE Lines
Panels == [kind : {"search", "file", "menu"}, current : Nat, controls : Seq(Parts)]
Sound == {d \in Panels : /\ Len(d.controls) = Size(d.kind) /\ d.current \in 1 .. Size(d.kind)
                         /\ \A i \in 1 .. Size(d.kind) : /\ d.controls[i] \in Slot(d.kind, i)
                                                         /\ d.controls[i].active = (i = d.current)}

\* What is in a place, and what the one in focus can be.
LEMMA SoundIs ==
    ASSUME NEW d \in Sound
    PROVE  /\ d.kind \in {"search", "file", "menu"} /\ Size(d.kind) \in Nat /\ Len(Fields) \in Nat
           /\ d.controls \in Seq(Parts) /\ DOMAIN d.controls = 1 .. Size(d.kind)
           /\ d.current \in 1 .. Size(d.kind) /\ d.current \in Nat
           /\ \A i \in 1 .. Size(d.kind) : d.controls[i] \in Slot(d.kind, i) /\ d.controls[i].active \in BOOLEAN
<1>1. Len(Fields) \in Nat
  BY FieldsAssumption DEF IsSequence
<1>2. Size(d.kind) \in Nat
  BY <1>1 DEF Size
<1>3. d.controls \in Seq(Parts) /\ DOMAIN d.controls = 1 .. Size(d.kind)
  BY LenProperties DEF Sound, Panels
<1> QED BY <1>1, <1>2, <1>3 DEF Sound, Panels

\* What is in a slot is a line, a list or a text, and its kind tells which.
LEMMA SlotIs ==
    ASSUME NEW kind, NEW i, NEW c \in Slot(kind, i)
    PROVE  /\ c \in Parts
           /\ c \in Lines => c.kind = "line" /\ c \notin Held /\ c # StaticText
           /\ c \in Held => c.kind = "list" /\ c \notin Lines /\ c # StaticText
           /\ c = StaticText => c.kind = "text" /\ c.active = FALSE /\ c \notin Held /\ c \notin Lines
  BY DEF Slot, Parts, Lists1, Held, Boxes, Lines, StaticText

\* A control is changed, not its focus.
LEMMA ControlSet ==
    ASSUME NEW d \in Sound, NEW i \in 1 .. Size(d.kind), NEW c \in Slot(d.kind, i), c.active = d.controls[i].active
    PROVE  LET e == [d EXCEPT !.controls[i] = c]
           IN e \in Sound /\ e.kind = d.kind /\ e.current = d.current /\ e.controls = [d.controls EXCEPT ![i] = c]
<1> DEFINE t == [d.controls EXCEPT ![i] = c]
           e == [d EXCEPT !.controls = t]
           n == Size(d.kind)
<1>1. d \in Panels /\ d.controls \in Seq(Parts) /\ Len(d.controls) = n /\ n \in Nat
  BY SoundIs DEF Sound
<1>2. c \in Parts
  BY SlotIs
<1>3. t \in Seq(Parts) /\ Len(t) = n /\ \A j \in 1 .. n : t[j] = IF j = i THEN c ELSE d.controls[j]
  BY <1>1, <1>2
<1> HIDE DEF t
<1>4. e \in Panels /\ e.kind = d.kind /\ e.current = d.current /\ e.controls = t
  BY <1>1, <1>3 DEF Panels
<1> HIDE DEF e
<1>5. \A j \in 1 .. n : t[j] \in Slot(d.kind, j) /\ t[j].active = (j = d.current)
  BY <1>3 DEF Sound
<1>6. e \in Sound
  BY <1>1, <1>3, <1>4, <1>5 DEF Sound
<1> QED BY <1>4, <1>6 DEF e, t

\* Select changes the focus and nothing else.
LEMMA SelectIs ==
    ASSUME NEW kind, NEW i, NEW c \in Slot(kind, i), NEW v \in BOOLEAN, Selectable(c)
    PROVE  Select(c, v) \in Slot(kind, i) /\ Select(c, v).active = v
<1>1. Select(c, v) = [c EXCEPT !.active = v]
  BY DEF Select
<1> DEFINE x == [c EXCEPT !.active = v]
<1>2. ASSUME c \in Held PROVE x \in Held /\ x.wrap = c.wrap /\ x.active = v
  <2>1. /\ x \in Boxes /\ x.items = c.items /\ x.start = c.start /\ x.cur = c.cur
        /\ x.wrap = c.wrap /\ x.trap = c.trap /\ x.active = v
    BY <1>2 DEF Held, Boxes
  <2> HIDE DEF x
  <2>2. AbsRow(x) = AbsRow(c) /\ (Present(x) <=> Present(c))
    BY <2>1 DEF AbsRow, Present, Count
  <2> QED BY <1>2, <2>1, <2>2 DEF Held
<1>3. ASSUME c \in Lines PROVE x \in Lines /\ x.active = v
  BY <1>3 DEF Lines
<1>4. c # StaticText
  BY SlotIs DEF Selectable
<1> HIDE DEF x
<1> QED BY <1>1, <1>2, <1>3, <1>4 DEF Slot, Lists1, x

\* The focus goes to another control.
LEMMA FocusedIs ==
    ASSUME NEW d \in Sound, NEW i \in Others(d)
    PROVE  Focused(d, i) \in Sound /\ Focused(d, i).kind = d.kind
<1> DEFINE n == Size(d.kind)
           c == d.current
           s == d.controls
           x == Select(s[i], TRUE)
           y == Select(s[c], FALSE)
           t == [s EXCEPT ![i] = x]
           u == [t EXCEPT ![c] = y]
           e == [d EXCEPT !.controls = u, !.current = i]
<1>1. /\ s \in Seq(Parts) /\ Len(s) = n /\ n \in Nat /\ DOMAIN s = 1 .. n /\ c \in 1 .. n
      /\ d \in Panels
      /\ \A j \in 1 .. n : s[j] \in Slot(d.kind, j) /\ s[j].active = (j = c)
  BY SoundIs DEF Sound
<1>2. i \in 1 .. n /\ i # c /\ Selectable(s[i])
  BY <1>1 DEF Others
<1>3. Selectable(s[c])
  <2>1. s[c] \in Slot(d.kind, c) /\ s[c].active = TRUE
    BY <1>1
  <2> HIDE DEF s, c
  <2>2. s[c] # StaticText
    BY <2>1 DEF StaticText
  <2>3. s[c] \in Held \/ s[c] \in Lines
    BY <2>1, <2>2, SlotIs DEF Parts
  <2> QED BY <2>1, <2>3, SlotIs DEF Selectable
<1>4. x \in Slot(d.kind, i) /\ x.active = TRUE /\ y \in Slot(d.kind, c) /\ y.active = FALSE
  <2>1. TRUE \in BOOLEAN /\ FALSE \in BOOLEAN /\ s[i] \in Slot(d.kind, i) /\ s[c] \in Slot(d.kind, c)
    BY <1>1, <1>2
  <2> DEFINE b == TRUE
             o == FALSE
  <2>2. b \in BOOLEAN /\ o \in BOOLEAN
    OBVIOUS
  <2> HIDE DEF b, o
  <2>3. Select(s[i], b) \in Slot(d.kind, i) /\ Select(s[i], b).active = b
    BY <1>2, <2>1, <2>2, SelectIs
  <2>4. Select(s[c], o) \in Slot(d.kind, c) /\ Select(s[c], o).active = o
    BY <1>3, <2>1, <2>2, SelectIs
  <2> QED BY <2>3, <2>4 DEF b, o
<1>5. x \in Parts /\ y \in Parts
  BY <1>4, SlotIs
<1>6. Focused(d, i) = e
  <2>1. Focused(d, i) = [d EXCEPT !.controls[i] = Select(@, TRUE), !.controls[d.current] = Select(@, FALSE), !.current = i]
    BY DEF Focused
  <2>2. t[c] = s[c]
    BY <1>1, <1>2
  <2>3. "controls" \in DOMAIN d
    BY <1>1 DEF Panels
  <2> QED BY <2>1, <2>2, <2>3
<1> HIDE DEF x, y
<1>7. u \in Seq(Parts) /\ Len(u) = n /\ \A j \in 1 .. n : u[j] = IF j = c THEN y ELSE IF j = i THEN x ELSE s[j]
  BY <1>1, <1>2, <1>5
<1> HIDE DEF u
<1>8. e \in Panels /\ e.kind = d.kind /\ e.current = i /\ e.controls = u
  <2>1. i \in Nat
    BY <1>1, <1>2
  <2> QED BY <1>1, <1>7, <2>1 DEF Panels
<1> HIDE DEF e
<1>9. \A j \in 1 .. n : u[j] \in Slot(d.kind, j) /\ u[j].active = (j = i)
  <2> SUFFICES ASSUME NEW j \in 1 .. n PROVE u[j] \in Slot(d.kind, j) /\ u[j].active = (j = i)
    OBVIOUS
  <2>1. CASE j = c
    BY <1>2, <1>4, <1>7, <2>1
  <2>2. CASE j = i
    BY <1>2, <1>4, <1>7, <2>2
  <2>3. CASE j # c /\ j # i
    <3>1. u[j] = s[j] /\ s[j] \in Slot(d.kind, j) /\ s[j].active = (j = c)
      BY <1>1, <1>7, <2>3
    <3> QED BY <2>3, <3>1
  <2> QED BY <2>1, <2>2, <2>3
<1>10. e \in Sound
  BY <1>1, <1>2, <1>7, <1>8, <1>9 DEF Sound
<1> QED BY <1>6, <1>8, <1>10

\* next and prev.
LEMMA NextControlIs ==
    ASSUME NEW d \in Sound PROVE NextControl(d) \in Sound /\ NextControl(d).kind = d.kind
<1> DEFINE S == Others(d)
           after == {i \in S : i > d.current}
           C == IF after # {} THEN after ELSE S
           k == CHOOSE i \in C : \A j \in C : i <= j
<1>1. CASE S = {}
  BY <1>1 DEF NextControl
<1>2. CASE S # {}
  <2>1. NextControl(d) = Focused(d, k)
    BY <1>2 DEF NextControl
  <2>2. C \in SUBSET Nat /\ C # {} /\ C \subseteq S
    BY <1>2, SoundIs DEF Others
  <2> HIDE DEF C
  <2>3. \E i \in C : \A j \in C : i <= j
    BY <2>2, LoadFold!Least
  <2>4. k \in C
    BY <2>3
  <2> HIDE DEF k
  <2>5. k \in Others(d)
    BY <2>2, <2>4
  <2> QED BY <2>1, <2>5, FocusedIs
<1> QED BY <1>1, <1>2

\* Back to the control before it that can have the focus.
LEMMA PrevControlIs ==
    ASSUME NEW d \in Sound PROVE PrevControl(d) \in Sound /\ PrevControl(d).kind = d.kind
<1> DEFINE S == Others(d)
           before == {i \in S : i < d.current}
           C == IF before # {} THEN before ELSE S
           k == CHOOSE i \in C : \A j \in C : i >= j
           n == Size(d.kind)
<1>1. CASE S = {}
  BY <1>1 DEF PrevControl
<1>2. CASE S # {}
  <2>1. PrevControl(d) = Focused(d, k)
    BY <1>2 DEF PrevControl
  <2>2. C \subseteq 1 .. n /\ C # {} /\ C \subseteq S /\ n \in Nat
    BY <1>2, SoundIs DEF Others
  <2> HIDE DEF C, n
  <2>3. PICK m \in 0 .. n : (m > 0 => m \in C) /\ \A j \in m + 1 .. n : j \notin C
    BY <2>2, LastIs
  <2>4. \A j \in C : m >= j
    BY <2>2, <2>3
  <2>5. m \in C
    <3>1. PICK j \in C : TRUE
      BY <2>2
    <3>2. j \in 1 .. n /\ m >= j
      BY <2>2, <2>4, <3>1
    <3> QED BY <2>2, <2>3, <3>2
  <2>6. k \in C
    BY <2>4, <2>5
  <2> HIDE DEF k
  <2>7. k \in Others(d)
    BY <2>2, <2>6
  <2> QED BY <2>1, <2>7, FocusedIs
<1> QED BY <1>1, <1>2

\* The control in focus.
LEMMA FocusIs ==
    ASSUME NEW d \in Sound
    PROVE  /\ Focus(d) \in Slot(d.kind, d.current) /\ Focus(d).active = TRUE /\ Selectable(Focus(d))
           /\ Focus(d) \in Held \/ Focus(d) \in Lines
           /\ Focus(d) \in Held <=> Focus(d).kind = "list"
           /\ Focus(d) \in Lines <=> Focus(d).kind = "line"
<1>1. Focus(d) \in Slot(d.kind, d.current) /\ Focus(d).active = TRUE
  BY SoundIs DEF Sound, Focus
<1>2. Focus(d) # StaticText
  BY <1>1 DEF StaticText
<1>3. Focus(d) \in Held \/ Focus(d) \in Lines
  BY <1>1, <1>2, SlotIs DEF Parts
<1> QED BY <1>1, <1>3, SlotIs DEF Selectable

\* No key takes the focus off the controls that accept it, or changes their order.
LEMMA DialogKeyIs ==
    ASSUME NEW d \in Sound, NEW key, NEW shift
    PROVE  DialogKey(d, key, shift) \in Sound /\ DialogKey(d, key, shift).kind = d.kind
<1> DEFINE i == d.current
           f == Focus(d)
           c == IF f.kind = "line" THEN LineKey(f, key, shift) ELSE ListKey(f, key)
           e == [d EXCEPT !.controls[i] = c]
<1>1. DialogKey(d, key, shift) \in {PrevControl(d), NextControl(d), e}
  BY DEF DialogKey, Focus
<1>2. f \in Slot(d.kind, i)
  BY FocusIs
<1>3. c \in Slot(d.kind, i) /\ c.active = f.active
  <2>1. CASE f \in Lines
    <3>1. c = LineKey(f, key, shift) /\ f \notin Held /\ f # StaticText
      BY <1>2, <2>1, FocusIs, SlotIs
    <3>2. c \in Lines /\ c.active = f.active
      BY <2>1, <3>1, LineKeyIs
    <3> HIDE DEF c, f
    <3> QED BY <1>2, <3>1, <3>2 DEF Slot, Lists1
  <2>2. CASE f \in Held
    <3>1. c = ListKey(f, key) /\ f \notin Lines /\ f # StaticText
      BY <1>2, <2>2, FocusIs, SlotIs
    <3>2. Kin(f, c)
      BY <2>2, <3>1, ListKeyIs
    <3>3. c \in Held /\ c.wrap = f.wrap /\ c.active = f.active
      BY <3>2 DEF Kin
    <3> HIDE DEF c, f
    <3> QED BY <1>2, <3>1, <3>3 DEF Slot, Lists1
  <2> QED BY <2>1, <2>2, FocusIs
<1>4. f = d.controls[i] /\ i \in 1 .. Size(d.kind)
  BY SoundIs DEF Focus
<1> HIDE DEF c
<1>5. e \in Sound /\ e.kind = d.kind
  BY <1>3, <1>4, ControlSet
<1> QED BY <1>1, <1>5, NextControlIs, PrevControlIs

-----------------------------------------------------------------------------
(***************************************************************************)
(* The file dialog.                                                        *)
(***************************************************************************)
IsFile(d) == d \in Sound /\ d.kind = "file"

\* The parts of the file dialog.
LEMMA FileIs ==
    ASSUME NEW d, IsFile(d)
    PROVE  /\ NameLine(d) \in Lines /\ NameLine(d).text \in Strings
           /\ DirList(d) \in Lists1 /\ DirList(d) \in Held /\ ~DirList(d).wrap
           /\ d.current \in {2, 3} /\ 2 \in 1 .. Size(d.kind) /\ 3 \in 1 .. Size(d.kind)
           /\ Slot(d.kind, 2) = Lines /\ Slot(d.kind, 3) = Lists1
<1>1. /\ d \in Sound /\ d.kind = "file" /\ Size(d.kind) = 3
      /\ 2 \in 1 .. Size(d.kind) /\ 3 \in 1 .. Size(d.kind)
  BY DEF IsFile, Size
<1>2. Slot(d.kind, 1) = {StaticText} /\ Slot(d.kind, 2) = Lines /\ Slot(d.kind, 3) = Lists1
  BY <1>1 DEF Slot
<1>3. d.controls[2] \in Lines /\ d.controls[3] \in Lists1
  BY <1>1, <1>2, SoundIs
<1>4. d.current # 1
  <2> SUFFICES ASSUME d.current = 1 PROVE FALSE
    OBVIOUS
  <2>1. d.controls[1] = StaticText /\ d.controls[1].active = TRUE
    BY <1>1, <1>2 DEF Sound
  <2> QED BY <2>1 DEF StaticText
<1>5. d.current \in 1 .. 3
  BY <1>1, SoundIs
<1> QED BY <1>1, <1>2, <1>3, <1>4, <1>5 DEF NameLine, DirList, Lists1, Lines

\* Another name in its line leaves it a file dialog.
LEMMA NamedIs == ASSUME NEW d, IsFile(d), NEW s \in Strings PROVE IsFile(WithName(d, s))
<1> DEFINE i == 2
           l == d.controls[i]
           c == SetText(l, s)
<1>1. d \in Sound /\ i \in 1 .. Size(d.kind) /\ l \in Lines /\ Slot(d.kind, i) = Lines
  BY FileIs DEF NameLine, IsFile
<1>2. WithName(d, s) = [d EXCEPT !.controls[i] = c]
  BY DEF WithName
<1> HIDE DEF i
<1>3. c \in Lines /\ c.active = l.active
  <2> HIDE DEF l
  <2> QED BY <1>1, SetTextIs
<1> HIDE DEF c
<1>4. [d EXCEPT !.controls[i] = c] \in Sound /\ [d EXCEPT !.controls[i] = c].kind = d.kind
  BY <1>1, <1>3, ControlSet
<1> QED BY <1>2, <1>4 DEF IsFile

\* Another list in it too.
LEMMA ListSet ==
    ASSUME NEW d, IsFile(d), NEW x \in Lists1, x.active = DirList(d).active
    PROVE  IsFile([d EXCEPT !.controls[3] = x])
<1> DEFINE i == 3
<1>1. d \in Sound /\ i \in 1 .. Size(d.kind) /\ Slot(d.kind, i) = Lists1 /\ x.active = d.controls[i].active
  BY FileIs DEF DirList, IsFile
<1> HIDE DEF i
<1>2. [d EXCEPT !.controls[i] = x] \in Sound /\ [d EXCEPT !.controls[i] = x].kind = d.kind
  BY <1>1, ControlSet
<1> QED BY <1>2 DEF IsFile, i

\* The list filled from a directory is one of these.
LEMMA FilledDialog ==
    ASSUME NEW d, IsFile(d), NEW dir \in Directories, NEW mask PROVE IsFile(Filled(d, dir, mask))
<1> DEFINE lb == DirList(d)
           x == FillFileList(lb, dir, mask)
<1>1. lb \in Held /\ lb \in Boxes /\ ~lb.wrap
  BY FileIs, HeldIs
<1>2. Filled(d, dir, mask) = [d EXCEPT !.controls[3] = x]
  BY DEF Filled, DirList
<1>3. x \in Held /\ ~x.wrap /\ x.active = lb.active
  <2> HIDE DEF lb
  <2> QED BY <1>1, FilledIs
<1> HIDE DEF x
<1> QED BY <1>2, <1>3, ListSet DEF Lists1

\* Two texts have a longest common beginning.
LEMMA CommonIs ==
    ASSUME NEW s \in Strings, NEW t \in Strings PROVE Common(s, t) \in 0 .. Len(s)
<1> DEFINE m == LN!Smaller(Len(s), Len(t))
           D == {j \in 1 .. m : s[j] # t[j]}
<1>1. Len(s) \in Nat /\ Len(t) \in Nat
  BY LenProperties DEF Strings
<1>2. m \in Nat /\ m <= Len(s) /\ m <= Len(t)
  BY <1>1 DEF LN!Smaller
<1>3. Common(s, t) = CHOOSE n \in 0 .. m : /\ SubSeq(s, 1, n) = SubSeq(t, 1, n)
                                           /\ n < m => s[n + 1] # t[n + 1]
  BY DEF Common
<1> HIDE DEF m
<1>4. PICK k \in 0 .. m : (k < m => k + 1 \in D) /\ \A j \in 1 .. k : j \notin D
  BY <1>2, FirstIs
<1>5. k < m => s[k + 1] # t[k + 1]
  BY <1>4
<1>6. SubSeq(s, 1, k) = SubSeq(t, 1, k)
  <2> DEFINE u == SubSeq(s, 1, k)
             v == SubSeq(t, 1, k)
  <2>1. k \in Nat /\ k <= Len(s) /\ k <= Len(t)
    BY <1>1, <1>2
  <2>2. u \in Strings /\ Len(u) = k /\ \A j \in 1 .. k : u[j] = s[j]
    BY <1>1, <2>1 DEF Strings
  <2>3. v \in Strings /\ Len(v) = k /\ \A j \in 1 .. k : v[j] = t[j]
    BY <1>1, <2>1 DEF Strings
  <2> HIDE DEF u, v
  <2>4. \A j \in 1 .. k : u[j] = v[j]
    BY <1>2, <1>4, <2>2, <2>3
  <2>5. u = v
    BY <2>2, <2>3, <2>4, SeqEqual DEF Strings
  <2> QED BY <2>5 DEF u, v
<1>7. Common(s, t) \in 0 .. m
  BY <1>3, <1>5, <1>6
<1> QED BY <1>1, <1>2, <1>7

\* The list goes to an item that it has.
LEMMA SoughtIs == ASSUME NEW d, IsFile(d) PROVE IsFile(Sought(d))
<1> DEFINE lb == DirList(d)
           s == NameLine(d).text
           C == Candidates(lb, s)
           Length(i) == Common(s, lb.items[i].text)
           best == CHOOSE i \in C : \A j \in C : /\ Length(j) <= Length(i)
                                                  /\ Length(j) = Length(i) => i <= j
           x == GoItem(lb, best - 1)
<1>1. lb \in Held /\ ~lb.wrap /\ s \in Strings
  BY FileIs
<1>2. Sought(d) = IF C = {} THEN d ELSE [d EXCEPT !.controls[3] = x]
  BY DEF Sought, DirList
<1> SUFFICES ASSUME C # {} PROVE IsFile([d EXCEPT !.controls[3] = x])
  BY <1>2
<1>3. C \in SUBSET Nat /\ \A i \in C : lb.items[i].text \in Strings
  <2>1. lb.items \in Seq(Items)
    BY <1>1, HeldIs
  <2> HIDE DEF lb, s
  <2>2. DOMAIN lb.items \subseteq Nat /\ \A i \in DOMAIN lb.items : lb.items[i] \in Items
    BY <2>1
  <2>3. C \subseteq DOMAIN lb.items
    BY DEF Candidates
  <2> QED BY <2>2, <2>3 DEF Items
<1> HIDE DEF lb, s, C
<1> DEFINE m == Len(s)
<1>4. m \in Nat /\ \A i \in C : Length(i) \in 0 .. m
  <2>1. m \in Nat
    BY <1>1, LenProperties DEF Strings
  <2> QED BY <1>1, <1>3, <2>1, CommonIs
<1> HIDE DEF m, Length
<1>5. best \in C
  <2> DEFINE D == {Length(i) : i \in C}
  <2>1. PICK n \in 0 .. m : (n > 0 => n \in D) /\ \A j \in n + 1 .. m : j \notin D
    BY <1>4, LastIs
  <2>2. \A i \in C : Length(i) <= n
    <3> SUFFICES ASSUME NEW i \in C, ~(Length(i) <= n) PROVE FALSE
      OBVIOUS
    <3>1. Length(i) \in n + 1 .. m /\ Length(i) \in D
      BY <1>4
    <3> HIDE DEF D
    <3> QED BY <2>1, <3>1
  <2> DEFINE E == {i \in C : Length(i) = n}
  <2>3. E # {}
    <3>1. CASE n > 0
      BY <2>1, <3>1
    <3>2. CASE ~(n > 0)
      <4>1. PICK i \in C : TRUE
        OBVIOUS
      <4>2. Length(i) = n
        BY <1>4, <2>2, <3>2, <4>1
      <4> QED BY <4>2
    <3> QED BY <3>1, <3>2
  <2>4. E \in SUBSET Nat
    BY <1>3
  <2> HIDE DEF E, D
  <2>5. PICK k \in E : \A j \in E : k <= j
    BY <2>3, <2>4, LoadFold!Least
  <2>6. k \in C /\ Length(k) = n
    BY DEF E
  <2>7. \A j \in C : Length(j) <= Length(k) /\ (Length(j) = Length(k) => k <= j)
    BY <2>2, <2>5, <2>6 DEF E
  <2>8. \E i \in C : \A j \in C : Length(j) <= Length(i) /\ (Length(j) = Length(i) => i <= j)
    BY <2>6, <2>7
  <2> QED BY <2>8
<1> HIDE DEF best
<1>6. best - 1 \in Int
  BY <1>3, <1>5
<1>7. Kin(lb, x)
  BY <1>1, <1>6, GoItemIs
<1>8. x \in Lists1 /\ x.active = lb.active
  BY <1>1, <1>7 DEF Kin, Lists1
<1> HIDE DEF x
<1> QED BY <1>8, ListSet DEF lb

\* The text of an item.
LEMMA TextAtIs == ASSUME NEW lb \in Held PROVE TextAt(lb) \in Strings
<1>1. lb.items \in Seq(Items) /\ AbsRow(lb) + 1 \in 1 .. Len(lb.items)
  BY HeldIs DEF Count
<1>2. lb.items[AbsRow(lb) + 1] \in Items
  BY <1>1
<1> QED BY <1>2 DEF TextAt, Items

\* The search in the list that follows a typed character keeps the dialog sound.
LEMMA FollowedIs == ASSUME NEW d, IsFile(d), NEW key PROVE IsFile(Followed(d, key))
<1>1. TextAt(DirList(d)) \in Strings
  BY FileIs, TextAtIs
<1>2. Followed(d, key) \in {WithName(d, TextAt(DirList(d))), Sought(d), d}
  BY DEF Followed
<1> QED BY <1>1, <1>2, NamedIs, SoughtIs

\* A key of the dialog and the search after it.
LEMMA FileKeyIs ==
    ASSUME NEW d, IsFile(d), NEW key, NEW other PROVE IsFile(Followed(DialogKey(d, key, FALSE), other))
<1>1. IsFile(DialogKey(d, key, FALSE))
  BY DialogKeyIs DEF IsFile
<1> QED BY <1>1, FollowedIs

\* A full name.
LEMMA FullNameIs ==
    ASSUME NEW dir \in Directories, NEW s \in Strings PROVE FullName(dir, s) \in Strings
<1> DEFINE o == <<dir>>
<1>1. o \in Strings
  BY DEF Strings, Chr
<1>2. FullName(dir, s) \in {s, o \o s}
  BY DEF FullName
<1> HIDE DEF o
<1>3. o \o s \in Strings
  BY <1>1 DEF Strings
<1> QED BY <1>2, <1>3

-----------------------------------------------------------------------------
(***************************************************************************)
(* Dialogs that are opened.                                                *)
(***************************************************************************)
\* The first control that accepts it has the focus.
LEMMA OpenedIs ==
    ASSUME NEW kind, NEW s, NEW k \in DOMAIN s, DOMAIN s \subseteq Nat \ {0}, Selectable(s[k]),
           \A j \in 1 .. k - 1 : ~Selectable(s[j])
    PROVE  LET d == Dialog(kind, s)
           IN d.kind = kind /\ d.current = k /\ d.controls = [s EXCEPT ![k] = Select(s[k], TRUE)]
              /\ d = [kind |-> d.kind, current |-> d.current, controls |-> d.controls]
<1> DEFINE P(i) == Selectable(s[i]) /\ \A j \in 1 .. i - 1 : ~Selectable(s[j])
           c == CHOOSE i \in DOMAIN s : P(i)
<1>1. P(k)
  OBVIOUS
<1>2. c \in DOMAIN s /\ P(c)
  <2> HIDE DEF P
  <2> QED BY <1>1
<1>3. c = k
  <2>1. c \in Nat /\ k \in Nat /\ c > 0 /\ k > 0 /\ Selectable(s[c]) /\ \A j \in 1 .. c - 1 : ~Selectable(s[j])
    BY <1>2
  <2>2. ~(c < k) /\ ~(k < c)
    <3> HIDE DEF c
    <3>1. ASSUME c < k PROVE FALSE
      <4>1. c \in 1 .. k - 1
        BY <2>1, <3>1
      <4> QED BY <2>1, <4>1
    <3>2. ASSUME k < c PROVE FALSE
      <4>1. k \in 1 .. c - 1
        BY <2>1, <3>2
      <4> QED BY <2>1, <4>1
    <3> QED BY <3>1, <3>2
  <2> HIDE DEF c
  <2> QED BY <2>1, <2>2
<1>4. Dialog(kind, s) = [kind |-> kind, current |-> c, controls |-> [s EXCEPT ![c] = Select(@, TRUE)]]
  BY DEF Dialog
<1> HIDE DEF c
<1> QED BY <1>3, <1>4

\* A new edit line is empty, its cursor is in it, and it has no focus.
LEMMA EditLineIs == EditLine \in Lines /\ EditLine.active = FALSE
<1>1. <<>> \in Strings /\ 0 \in Nat /\ -1 \in Int
  BY DEF Strings
<1> QED BY <1>1 DEF EditLine, Lines

\* A line with a text, and then with the focus.
LEMMA GivenIs ==
    ASSUME NEW s \in Strings
    PROVE  /\ SetText(EditLine, s) \in Lines /\ SetText(EditLine, s).active = FALSE
           /\ Selectable(SetText(EditLine, s))
           /\ Select(SetText(EditLine, s), TRUE) \in Lines /\ Select(SetText(EditLine, s), TRUE).active = TRUE
<1> DEFINE l == SetText(EditLine, s)
<1>1. l \in Lines /\ l.active = FALSE
  BY EditLineIs, SetTextIs
<1> HIDE DEF l
<1>2. Selectable(l)
  BY <1>1 DEF Lines, Selectable
<1>3. Select(l, TRUE) = [l EXCEPT !.active = TRUE]
  BY <1>2 DEF Select
<1> QED BY <1>1, <1>2, <1>3 DEF Lines, l

Answers == [Lists \ {"file"} -> Strings]

\* There is a field, and each but that of the file dialog is in the search dialog.
LEMMA FieldsAre ==
    /\ Len(Fields) \in Nat /\ Len(Fields) > 0 /\ DOMAIN Fields = 1 .. Len(Fields)
    /\ \A i \in 1 .. Len(Fields) : Fields[i] \in Lists \ {"file"}
    /\ \A l \in Lists \ {"file"} : \E i \in 1 .. Len(Fields) : Fields[i] = l
<1>1. Fields \in Seq(ToSet(Fields)) /\ Fields # <<>> /\ \A i \in DOMAIN Fields : Fields[i] # "file"
  BY FieldsAssumption DEF IsSequence
<1> DEFINE S == ToSet(Fields)
<1> HIDE DEF S
<1>2. Fields \in Seq(S)
  BY <1>1 DEF S
<1>3. Len(Fields) \in Nat /\ Len(Fields) > 0 /\ DOMAIN Fields = 1 .. Len(Fields)
  BY <1>1, <1>2
<1> QED BY <1>1, <1>3 DEF Lists

\* The search dialog is opened sound, with what was asked before in its lines.
LEMMA SearchOpened == ASSUME asked \in Answers PROVE SearchDialog \in Sound /\ SearchDialog.kind = "search"
<1> DEFINE n == Len(Fields)
           f == [i \in DOMAIN Fields |-> SetText(EditLine, asked[Fields[i]])]
           s == <<StaticText>> \o f
           k == 2
           x == Select(s[k], TRUE)
           t == [s EXCEPT ![k] = x]
           d == SearchDialog
<1>1. n \in Nat /\ n > 0 /\ DOMAIN Fields = 1 .. n
  BY FieldsAre
<1>2. ASSUME NEW i \in 1 .. n
      PROVE  /\ f[i] \in Lines /\ f[i].active = FALSE /\ Selectable(f[i])
             /\ Select(f[i], TRUE) \in Lines /\ Select(f[i], TRUE).active = TRUE
  <2>1. asked[Fields[i]] \in Strings
    BY FieldsAre DEF Answers
  <2>2. f[i] = SetText(EditLine, asked[Fields[i]])
    BY <1>1
  <2> HIDE DEF f
  <2> QED BY <2>1, <2>2, GivenIs
<1>3. f \in Seq(Parts) /\ Len(f) = n
  <2>1. \A i \in 1 .. n : f[i] \in Parts
    BY <1>2 DEF Parts
  <2>2. DOMAIN f = 1 .. n /\ f = [i \in 1 .. n |-> f[i]]
    BY <1>1
  <2> HIDE DEF f, n
  <2> QED BY <1>1, <2>1, <2>2
<1> HIDE DEF f, n
<1>4. StaticText \in Parts
  BY DEF Parts
<1>5. s \in Seq(Parts) /\ Len(s) = n + 1 /\ s[1] = StaticText /\ \A j \in 1 .. n : s[j + 1] = f[j]
  <2> DEFINE o == StaticText
  <2> HIDE DEF o
  <2>1. o \in Parts
    BY <1>4 DEF o
  <2>2. /\ <<o>> \o f \in Seq(Parts) /\ Len(<<o>> \o f) = Len(f) + 1
        /\ (<<o>> \o f)[1] = o /\ \A j \in 1 .. Len(f) : (<<o>> \o f)[j + 1] = f[j]
    BY <1>3, <2>1, InFrontIs
  <2> QED BY <1>3, <2>2 DEF o
<1>6. SearchDialog = Dialog("search", s)
  BY DEF SearchDialog, f
<1> HIDE DEF s
<1>7. DOMAIN s = 1 .. n + 1 /\ k \in DOMAIN s /\ s[k] = f[1] /\ 1 \in 1 .. n
  BY <1>1, <1>5
<1>8. Selectable(s[k]) /\ \A j \in 1 .. k - 1 : ~Selectable(s[j])
  <2>1. Selectable(s[k])
    BY <1>2, <1>7
  <2>2. ~Selectable(s[1])
    BY <1>5 DEF Selectable, StaticText
  <2>3. \A j \in 1 .. k - 1 : j = 1
    OBVIOUS
  <2> QED BY <2>1, <2>2, <2>3
<1>9. /\ d.kind = "search" /\ d.current = k /\ d.controls = t
      /\ d = [kind |-> d.kind, current |-> d.current, controls |-> d.controls]
  <2>1. DOMAIN s \subseteq Nat \ {0}
    BY <1>1, <1>7
  <2> HIDE DEF k
  <2> DEFINE c == "search"
  <2> HIDE DEF c
  <2>2. LET e == Dialog(c, s)
        IN e.kind = c /\ e.current = k /\ e.controls = [s EXCEPT ![k] = Select(s[k], TRUE)]
           /\ e = [kind |-> e.kind, current |-> e.current, controls |-> e.controls]
    BY <1>7, <1>8, <2>1, OpenedIs
  <2> QED BY <1>6, <2>2 DEF c
<1> HIDE DEF d
<1>10. x \in Lines /\ x.active = TRUE
  BY <1>2, <1>7
<1> HIDE DEF x
<1>11. t \in Seq(Parts) /\ Len(t) = n + 1 /\ \A j \in 1 .. n + 1 : t[j] = IF j = k THEN x ELSE s[j]
  BY <1>5, <1>7, <1>10 DEF Parts
<1> HIDE DEF t
<1>12. d \in Panels
  BY <1>9, <1>11 DEF Panels
<1>13. Size("search") = n + 1 /\ k \in 1 .. n + 1
  BY <1>1 DEF Size, n
<1>14. ASSUME NEW j \in 1 .. n + 1 PROVE t[j] \in Slot("search", j) /\ t[j].active = (j = k)
  <2>1. CASE j = 1
    <3>1. t[j] = StaticText /\ j # k
      BY <1>5, <1>11, <2>1
    <3>2. StaticText.active = FALSE /\ (j = k) = FALSE
      BY <3>1 DEF StaticText
    <3>3. Slot("search", j) = {StaticText}
      BY <2>1 DEF Slot
    <3> HIDE DEF k
    <3> QED BY <3>1, <3>2, <3>3
  <2>2. CASE j # 1
    <3>1. j - 1 \in 1 .. n /\ (j - 1) + 1 = j
      BY <1>1, <2>2
    <3>2. t[j] \in Lines /\ t[j].active = (j = k)
      <4>1. s[j] = f[j - 1] /\ f[j - 1] \in Lines /\ f[j - 1].active = FALSE
        BY <1>2, <1>5, <3>1
      <4>2. CASE j = k
        BY <1>10, <1>11, <4>2
      <4>3. CASE j # k
        BY <1>11, <4>1, <4>3
      <4> QED BY <4>2, <4>3
    <3> QED BY <2>2, <3>2 DEF Slot
  <2> QED BY <2>1, <2>2
<1>15. d \in Sound
  BY <1>9, <1>11, <1>12, <1>13, <1>14 DEF Sound
<1> QED BY <1>9, <1>15 DEF d

\* A new list box.
LEMMA BoxIs ==
    ASSUME NEW rows \in Nat \ {0}, NEW wrap \in BOOLEAN
    PROVE  LET lb == ListBox(rows, wrap)
           IN /\ lb \in Boxes /\ lb.start = 0 /\ lb.cur = 0 /\ lb.items = <<>> /\ AbsRow(lb) = 0
              /\ ~lb.trap /\ lb.wrap = wrap /\ lb.active = FALSE /\ lb.kind = "list"
<1>1. <<>> \in Seq(Items)
  OBVIOUS
<1> QED BY <1>1 DEF ListBox, Boxes, AbsRow

\* A list box has the focus now, or no more.
LEMMA HeldActive ==
    ASSUME NEW lb \in Held, NEW v \in BOOLEAN
    PROVE  LET x == [lb EXCEPT !.active = v]
           IN x \in Held /\ x.wrap = lb.wrap /\ x.items = lb.items /\ x.active = v
<1> DEFINE x == [lb EXCEPT !.active = v]
<1>1. /\ x \in Boxes /\ x.items = lb.items /\ x.start = lb.start /\ x.cur = lb.cur
      /\ x.wrap = lb.wrap /\ x.trap = lb.trap /\ x.active = v
  BY DEF Held, Boxes
<1> HIDE DEF x
<1>2. AbsRow(x) = AbsRow(lb) /\ (Present(x) <=> Present(lb))
  BY <1>1 DEF AbsRow, Present, Count
<1> QED BY <1>1, <1>2 DEF Held, x

\* A menu is opened with an item chosen.
LEMMA MenuOpened ==
    LET d == Dialog("menu", <<MenuOf(MenuItems)>>) IN d \in Sound /\ d.kind = "menu"
<1> DEFINE n == Len(MenuItems)
           m == MenuOf(MenuItems)
           s == <<m>>
           x == Select(m, TRUE)
           d == Dialog("menu", s)
<1>1. MenuItems \in Seq(Plain) /\ MenuItems # <<>>
  BY MenuAssumption, OfferedArePlain DEF Offered
<1>2. n \in Nat \ {0}
  BY <1>1
<1>3. m \in Held /\ m.active = FALSE
  <2> DEFINE lb == ListBox(n, TRUE)
  <2>1. lb \in Boxes /\ lb.start = 0 /\ lb.cur = 0 /\ AbsRow(lb) = 0 /\ ~lb.trap /\ lb.active = FALSE
    BY <1>2, BoxIs
  <2>2. m = [lb EXCEPT !.items = MenuItems]
    BY DEF MenuOf
  <2> HIDE DEF lb, m
  <2>3. lb.start \in Nat /\ lb.cur \in Nat /\ Len(MenuItems) > 0
    BY <1>1, <2>1
  <2> DEFINE y == [lb EXCEPT !.items = MenuItems]
  <2>4. y \in Held /\ y.active = lb.active
    BY <1>1, <2>1, <2>3, FirstHeld
  <2> QED BY <2>1, <2>2, <2>4
<1> HIDE DEF m, n
<1>4. Selectable(m)
  BY <1>3 DEF Held, Boxes, Selectable
<1>5. x \in Held /\ x.active = TRUE
  <2>1. x = [m EXCEPT !.active = TRUE]
    BY <1>4 DEF Select
  <2> DEFINE b == TRUE
  <2> HIDE DEF b, x
  <2>2. b \in BOOLEAN
    BY DEF b
  <2>3. [m EXCEPT !.active = b] \in Held /\ [m EXCEPT !.active = b].active = b
    BY <1>3, <2>2, HeldActive
  <2> QED BY <2>1, <2>3 DEF b
<1>6. /\ d.kind = "menu" /\ d.current = 1 /\ d.controls = [s EXCEPT ![1] = x]
      /\ d = [kind |-> d.kind, current |-> d.current, controls |-> d.controls]
  <2> DEFINE k == 1
             c == "menu"
  <2>1. k \in DOMAIN s /\ DOMAIN s \subseteq Nat \ {0} /\ s[k] = m /\ \A j \in 1 .. k - 1 : ~Selectable(s[j])
    OBVIOUS
  <2> HIDE DEF s, k, c
  <2>2. LET e == Dialog(c, s)
        IN e.kind = c /\ e.current = k /\ e.controls = [s EXCEPT ![k] = Select(s[k], TRUE)]
           /\ e = [kind |-> e.kind, current |-> e.current, controls |-> e.controls]
    BY <1>4, <2>1, OpenedIs
  <2> QED BY <2>1, <2>2 DEF c, k
<1> HIDE DEF d, x
<1>7. d.controls = <<x>>
  BY <1>6
<1>8. x \in Parts
  BY <1>5 DEF Parts
<1>9. d.controls \in Seq(Parts) /\ Len(d.controls) = 1 /\ d.controls[1] = x
  BY <1>7, <1>8
<1>10. d \in Panels
  <2> DEFINE k == 1
  <2>1. k \in Nat /\ d = [kind |-> "menu", current |-> k, controls |-> d.controls]
    BY <1>6
  <2> HIDE DEF k
  <2> QED BY <1>9, <2>1 DEF Panels
<1>11. Size("menu") = 1 /\ Slot("menu", 1) = Held
  BY DEF Size, Slot
<1>12. \A j \in 1 .. 1 : d.controls[j] \in Slot("menu", j) /\ d.controls[j].active = (j = 1)
  <2> SUFFICES ASSUME NEW j \in 1 .. 1 PROVE d.controls[j] \in Slot("menu", j) /\ d.controls[j].active = (j = 1)
    OBVIOUS
  <2>1. j = 1 /\ (j = 1) = TRUE
    OBVIOUS
  <2> QED BY <1>5, <1>9, <1>11, <2>1
<1>13. d \in Sound
  <2> DEFINE k == 1
  <2>1. /\ d.kind = "menu" /\ Size("menu") = k /\ Len(d.controls) = k /\ d.current = k /\ k \in 1 .. k
        /\ \A j \in 1 .. k : d.controls[j] \in Slot("menu", j) /\ d.controls[j].active = (j = k)
    BY <1>6, <1>9, <1>11, <1>12
  <2> HIDE DEF k
  <2> QED BY <1>10, <2>1 DEF Sound
<1> QED BY <1>6, <1>13 DEF d, s, m

\* The file dialog is opened with the mask in its line and the list filled.
LEMMA FileOpened ==
    ASSUME NEW dir \in Directories, NEW mask \in Strings
    PROVE  IsFile(Filled(Dialog("file", <<StaticText, SetText(EditLine, mask), ListBox(PopupRows, FALSE)>>), dir, mask))
<1> DEFINE o == StaticText
           l == SetText(EditLine, mask)
           lb == ListBox(PopupRows, FALSE)
           s == <<o, l, lb>>
           x == Select(l, TRUE)
           y == FillFileList(lb, dir, mask)
           d == Dialog("file", s)
           e == Filled(d, dir, mask)
<1>1. l \in Lines /\ Selectable(l) /\ x \in Lines /\ x.active = TRUE
  BY GivenIs
<1>2. y \in Held /\ ~y.wrap /\ y.active = FALSE
  <2>1. /\ lb \in Boxes /\ lb.start = 0 /\ lb.cur = 0 /\ lb.items = <<>>
        /\ ~lb.trap /\ ~lb.wrap /\ lb.active = FALSE
    <3>1. PopupRows \in Nat \ {0} /\ FALSE \in BOOLEAN
      BY PopupRowsAssumption
    <3> QED BY <3>1, BoxIs
  <2> HIDE DEF lb
  <2> QED BY <2>1, FilledIs
<1>3. ~Selectable(o) /\ o.active = FALSE /\ o \in {StaticText}
  BY DEF Selectable, StaticText
<1>4. y = FillFileList(lb, dir, mask)
  OBVIOUS
<1> HIDE DEF o, l, lb, x, y
<1>5. /\ d.kind = "file" /\ d.current = 2 /\ d.controls = [s EXCEPT ![2] = x]
      /\ d = [kind |-> d.kind, current |-> d.current, controls |-> d.controls]
  <2> DEFINE k == 2
             c == "file"
  <2>1. k \in DOMAIN s /\ DOMAIN s \subseteq Nat \ {0} /\ s[k] = l /\ s[1] = o /\ \A j \in 1 .. k - 1 : j = 1
    OBVIOUS
  <2> HIDE DEF s, k, c
  <2>2. Selectable(s[k]) /\ \A j \in 1 .. k - 1 : ~Selectable(s[j])
    BY <1>1, <1>3, <2>1
  <2>3. LET a == Dialog(c, s)
        IN a.kind = c /\ a.current = k /\ a.controls = [s EXCEPT ![k] = Select(s[k], TRUE)]
           /\ a = [kind |-> a.kind, current |-> a.current, controls |-> a.controls]
    BY <2>1, <2>2, OpenedIs
  <2> QED BY <2>1, <2>3 DEF c, k, x
<1>6. e = [d EXCEPT !.controls[3] = FillFileList(@, dir, mask)]
  BY DEF Filled
<1> HIDE DEF d
<1>7. d.controls = <<o, x, lb>>
  BY <1>5
<1>8. e = [kind |-> "file", current |-> 2, controls |-> <<o, x, y>>]
  <2> DEFINE t == d.controls
  <2>1. t[3] = lb /\ [t EXCEPT ![3] = y] = <<o, x, y>>
    BY <1>7
  <2>2. e = [d EXCEPT !.controls = [t EXCEPT ![3] = FillFileList(t[3], dir, mask)]]
    BY <1>5, <1>6
  <2> HIDE DEF t
  <2>3. e = [d EXCEPT !.controls = <<o, x, y>>]
    BY <1>4, <2>1, <2>2
  <2> QED BY <1>5, <2>3
<1> HIDE DEF e
<1> DEFINE u == <<o, x, y>>
<1>9. o \in Parts /\ x \in Parts /\ y \in Parts
  BY <1>1, <1>2, <1>3 DEF Parts
<1>10. u \in Seq(Parts) /\ Len(u) = 3 /\ u[1] = o /\ u[2] = x /\ u[3] = y
  BY <1>9
<1> HIDE DEF u
<1>11. e.kind = "file" /\ e.current = 2 /\ e.controls = u
  BY <1>8 DEF u
<1>12. e \in Panels
  <2> DEFINE k == 2
  <2>1. k \in Nat /\ e = [kind |-> "file", current |-> k, controls |-> u]
    BY <1>8 DEF u
  <2> HIDE DEF k
  <2> QED BY <1>10, <2>1 DEF Panels
<1>13. ASSUME NEW j \in 1 .. 3 PROVE u[j] \in Slot("file", j) /\ u[j].active = (j = 2)
  <2>1. CASE j = 1
    <3>1. Slot("file", j) = {StaticText} /\ u[j] = o /\ (j = 2) = FALSE
      BY <1>10, <2>1 DEF Slot
    <3> QED BY <1>3, <3>1
  <2>2. CASE j = 2
    <3>1. Slot("file", j) = Lines /\ u[j] = x /\ (j = 2) = TRUE
      BY <1>10, <2>2 DEF Slot
    <3> QED BY <1>1, <3>1
  <2>3. CASE j = 3
    <3>1. Slot("file", j) = Lists1 /\ u[j] = y /\ (j = 2) = FALSE
      BY <1>10, <2>3 DEF Slot
    <3> QED BY <1>2, <3>1 DEF Lists1
  <2> QED BY <2>1, <2>2, <2>3
<1>14. Size("file") = 3 /\ 2 \in 1 .. 3
  BY DEF Size
<1>15. e \in Sound
  <2> DEFINE n == 3
             k == 2
  <2>1. /\ e.kind = "file" /\ Size("file") = n /\ Len(e.controls) = n /\ e.current = k /\ k \in 1 .. n
        /\ \A j \in 1 .. n : e.controls[j] \in Slot("file", j) /\ e.controls[j].active = (j = k)
    BY <1>10, <1>11, <1>13, <1>14
  <2> HIDE DEF n, k
  <2> QED BY <1>12, <2>1 DEF Sound
<1> QED BY <1>11, <1>15 DEF IsFile, e, d, s, o, l, lb

-----------------------------------------------------------------------------
(***************************************************************************)
(* The list over a history.                                                *)
(***************************************************************************)
\* The list shows the entries and has its highlight on one of them, if there is one.
Mirrors(box, h) ==
    /\ ~box.wrap /\ Len(box.items) = Len(h)
    /\ \A i \in 1 .. Len(h) : box.items[i].text = h[i].text /\ box.items[i].mark = MarkOf(h[i])
    /\ IF h = <<>> THEN box \in EmptyBoxes ELSE box \in Held

\* A history is a row of entries.
LEMMA KeptIs ==
    ASSUME NEW h \in Kept
    PROVE  /\ h \in Seq(Entries) /\ Len(h) \in Nat /\ DOMAIN h = 1 .. Len(h)
           /\ \A i \in 1 .. Len(h) : h[i] \in Entries /\ h[i].text \in Strings /\ h[i].fixed \in BOOLEAN
           /\ h = <<>> <=> Len(h) = 0
<1>1. h \in Seq(Entries)
  BY DEF Kept
<1>2. \A i \in 1 .. Len(h) : h[i] \in Entries
  BY <1>1
<1> QED BY <1>1, <1>2 DEF Entries

\* DoHistory opens it.
LEMMA ListedIs ==
    ASSUME NEW h \in Kept, h # <<>>
    PROVE  Mirrors([ListBox(PopupRows, FALSE) EXCEPT !.items = FillList(h), !.active = TRUE], h)
<1> DEFINE lb == ListBox(PopupRows, FALSE)
           s == FillList(h)
           y == [lb EXCEPT !.items = s]
           b == TRUE
           x == [y EXCEPT !.active = b]
<1>1. /\ lb \in Boxes /\ lb.start = 0 /\ lb.cur = 0 /\ AbsRow(lb) = 0 /\ ~lb.trap /\ ~lb.wrap
  <2>1. PopupRows \in Nat \ {0} /\ FALSE \in BOOLEAN
    BY PopupRowsAssumption
  <2> QED BY <2>1, BoxIs
<1>2. Len(h) \in Nat /\ Len(h) > 0 /\ DOMAIN h = 1 .. Len(h)
  BY KeptIs
<1>3. ASSUME NEW k \in 1 .. Len(h)
      PROVE  Item(h[k].text, 0, MarkOf(h[k])) \in Plain
  BY KeptIs DEF Item, Plain, Items, MarkOf, Keys, Marks
<1>4. s \in Seq(Plain) /\ Len(s) = Len(h) /\ \A k \in 1 .. Len(h) : s[k] = Item(h[k].text, 0, MarkOf(h[k]))
  BY <1>2, <1>3 DEF FillList
<1> HIDE DEF lb, s, b
<1>5. y \in Held /\ y.wrap = lb.wrap /\ y.items = s
  <2>1. lb.start \in Nat /\ lb.cur \in Nat /\ Len(s) > 0
    BY <1>1, <1>2, <1>4
  <2> QED BY <1>1, <1>4, <2>1, FirstHeld
<1>6. b \in BOOLEAN
  BY DEF b
<1> HIDE DEF y
<1>7. x \in Held /\ x.wrap = lb.wrap /\ x.items = s
  BY <1>5, <1>6, HeldActive
<1>8. x = [lb EXCEPT !.items = s, !.active = b]
  BY DEF y
<1> HIDE DEF x
<1>9. Mirrors(x, h)
  <2>1. \A k \in 1 .. Len(h) : s[k].text = h[k].text /\ s[k].mark = MarkOf(h[k])
    <3> SUFFICES ASSUME NEW k \in 1 .. Len(h) PROVE s[k].text = h[k].text /\ s[k].mark = MarkOf(h[k])
      OBVIOUS
    <3>1. s[k] = Item(h[k].text, 0, MarkOf(h[k]))
      BY <1>4
    <3> QED BY <3>1 DEF Item
  <2> QED BY <1>1, <1>4, <1>7, <2>1 DEF Mirrors
<1> QED BY <1>8, <1>9 DEF lb, s, b

\* Keys move the highlight.
LEMMA ListedKey ==
    ASSUME NEW h \in Kept, NEW box, Mirrors(box, h), NEW key PROVE Mirrors(ListKey(box, key), h)
<1> DEFINE x == ListKey(box, key)
<1>1. CASE h = <<>>
  <2>1. x \in EmptyBoxes
    BY <1>1, EmptyKey DEF Mirrors
  <2> HIDE DEF x
  <2>2. ~x.wrap /\ Len(x.items) = 0 /\ Len(h) = 0
    BY <1>1, <2>1 DEF EmptyBoxes
  <2> QED BY <1>1, <2>1, <2>2 DEF Mirrors, x
<1>2. CASE h # <<>>
  <2>1. Kin(box, x)
    BY <1>2, ListKeyIs DEF Mirrors
  <2> HIDE DEF x
  <2> QED BY <1>2, <2>1 DEF Mirrors, Kin, SameItems, x
<1> QED BY <1>1, <1>2

\* A list that asks for an item it does not have.
LEMMA ListedTrap ==
    ASSUME NEW h \in Kept, NEW box, Mirrors(box, h), NEW old, Mirrors(old, h), ~Present(box)
    PROVE  Mirrors([old EXCEPT !.trap = TRUE], h)
<1>1. h = <<>>
  BY HeldIs DEF Mirrors
<1>2. old \in EmptyBoxes /\ Len(old.items) = Len(h)
  BY <1>1 DEF Mirrors
<1> DEFINE x == [old EXCEPT !.trap = TRUE]
<1>3. x \in EmptyBoxes /\ x.items = old.items /\ ~x.wrap
  BY <1>2 DEF EmptyBoxes, Boxes
<1> HIDE DEF x
<1>4. \A i \in 1 .. Len(h) : FALSE
  BY <1>1
<1> QED BY <1>1, <1>2, <1>3, <1>4 DEF Mirrors, x

\* An item is chosen in the list over a history: it is an entry.
LEMMA ListedPresent ==
    ASSUME NEW h \in Kept, NEW box, Mirrors(box, h), Present(box)
    PROVE  /\ h # <<>> /\ box \in Held /\ ~box.wrap /\ At(box) \in 1 .. Len(h) /\ At(box) = AbsRow(box) + 1
           /\ Count(box) = Len(h)
<1>1. h # <<>>
  <2> SUFFICES ASSUME h = <<>> PROVE FALSE
    OBVIOUS
  <2>1. box \in Boxes /\ box.items = <<>>
    BY DEF Mirrors, EmptyBoxes
  <2> QED BY <2>1 DEF Present, Count, AbsRow, Boxes
<1>2. box \in Held /\ ~box.wrap /\ Count(box) = Len(h)
  BY <1>1 DEF Mirrors, Count
<1> QED BY <1>1, <1>2, HeldIs DEF At

\* Del takes an entry out of the list and of the history.
LEMMA ListedDel ==
    ASSUME NEW h \in Kept, NEW box, Mirrors(box, h), Present(box)
    PROVE  Mirrors(DelItem(box, AbsRow(box)), RemoveAt(h, At(box)))
<1> DEFINE i == At(box)
           x == DelItem(box, AbsRow(box))
           g == RemoveAt(h, i)
<1>1. /\ h # <<>> /\ box \in Held /\ ~box.wrap /\ i \in 1 .. Len(h) /\ i = AbsRow(box) + 1
      /\ Count(box) = Len(h) /\ Len(box.items) = Len(h)
  BY ListedPresent DEF Count
<1>2. /\ x.active = box.active /\ ~x.wrap /\ AreWithout(x.items, box.items, i)
      /\ IF Count(box) = 1 THEN x \in EmptyBoxes ELSE x \in Held
  BY <1>1, DelItemIs DEF IsDeleted
<1>3. /\ g \in Kept /\ Len(g) = Len(h) - 1
      /\ \A j \in 1 .. Len(h) - 1 : g[j] = IF j < i THEN h[j] ELSE h[j + 1]
  BY <1>1, WithoutIs
<1>4. Len(h) \in Nat
  BY KeptIs
<1> HIDE DEF x, g, i
<1>5. ASSUME NEW j \in 1 .. Len(g)
      PROVE  x.items[j].text = g[j].text /\ x.items[j].mark = MarkOf(g[j])
  <2> DEFINE u == IF j < i THEN j ELSE j + 1
  <2>1. u \in 1 .. Len(h) /\ j \in 1 .. Len(h) - 1
    BY <1>1, <1>3, <1>4
  <2>2. g[j] = h[u]
    BY <1>3, <2>1
  <2>3. x.items[j].text = box.items[u].text /\ x.items[j].mark = box.items[u].mark
    BY <1>1, <1>2, <2>1 DEF AreWithout
  <2> HIDE DEF u
  <2> QED BY <2>1, <2>2, <2>3 DEF Mirrors
<1>6. Len(x.items) = Len(g)
  BY <1>1, <1>2, <1>3 DEF AreWithout
<1>7. g = <<>> <=> Count(box) = 1
  BY <1>1, <1>3, <1>4, KeptIs
<1> QED BY <1>2, <1>5, <1>6, <1>7 DEF Mirrors, x, g, i

\* An entry is fixed or freed.
LEMMA RefixedIs ==
    ASSUME NEW h \in Kept, NEW i \in 1 .. Len(h), NEW b \in BOOLEAN
    PROVE  LET g == [h EXCEPT ![i].fixed = b]
           IN /\ g \in Kept /\ Len(g) = Len(h) /\ g[i].fixed = b
              /\ \A j \in 1 .. Len(h) : g[j].text = h[j].text /\ (j # i => g[j] = h[j])
<1> DEFINE e == [h[i] EXCEPT !.fixed = b]
           g == [h EXCEPT ![i] = e]
<1>1. /\ h \in Seq(Entries) /\ Len(h) \in Nat /\ DOMAIN h = 1 .. Len(h) /\ h[i] \in Entries
      /\ Len(h) <= MaxHistory /\ \A m, n \in DOMAIN h : h[m].text = h[n].text => m = n
  BY KeptIs DEF Kept
<1>2. e \in Entries /\ e.text = h[i].text /\ e.fixed = b
  BY <1>1 DEF Entries
<1> HIDE DEF e
<1>3. g \in Seq(Entries) /\ Len(g) = Len(h) /\ \A j \in 1 .. Len(h) : g[j] = IF j = i THEN e ELSE h[j]
  BY <1>1, <1>2
<1> HIDE DEF g
<1>4. \A j \in 1 .. Len(h) : g[j].text = h[j].text
  BY <1>2, <1>3
<1>5. DOMAIN g = 1 .. Len(h)
  BY <1>1, <1>3
<1>6. \A m, n \in DOMAIN g : g[m].text = g[n].text => m = n
  BY <1>1, <1>4, <1>5
<1>7. g \in Kept
  BY <1>1, <1>3, <1>6 DEF Kept
<1> QED BY <1>2, <1>3, <1>4, <1>7 DEF g, e

\* Ins does it, and shows it in the list.
LEMMA ListedIns ==
    ASSUME NEW h \in Kept, NEW box, Mirrors(box, h), Present(box), NEW g \in Kept, Len(g) = Len(h),
           \A j \in 1 .. Len(h) : g[j].text = h[j].text /\ (j # At(box) => g[j] = h[j])
    PROVE  Mirrors([box EXCEPT !.items[At(box)].mark = MarkOf(g[At(box)])], g)
<1> DEFINE i == At(box)
           m == MarkOf(g[i])
           s == box.items
           it == [s[i] EXCEPT !.mark = m]
           t == [s EXCEPT ![i] = it]
           x == [box EXCEPT !.items = t]
<1>1. /\ h # <<>> /\ box \in Held /\ box \in Boxes /\ ~box.wrap /\ i \in 1 .. Len(h) /\ i = AbsRow(box) + 1
      /\ Len(s) = Len(h) /\ s \in Seq(Items)
  BY ListedPresent, HeldIs DEF Count
<1>2. m \in Marks
  BY DEF MarkOf, Marks
<1> HIDE DEF i, m, s
<1>3. s[i] \in Items
  BY <1>1
<1>4. it \in Items /\ it.text = s[i].text /\ it.mark = m /\ it.sel = s[i].sel
  BY <1>2, <1>3 DEF Items
<1> HIDE DEF it
<1>5. t \in Seq(Items) /\ Len(t) = Len(h) /\ \A j \in 1 .. Len(h) : t[j] = IF j = i THEN it ELSE s[j]
  BY <1>1, <1>4
<1>6. x = [box EXCEPT !.items[i].mark = m]
  BY <1>1 DEF t, it, s, Boxes
<1> HIDE DEF t
<1>7. /\ x \in Boxes /\ x.items = t /\ x.start = box.start /\ x.cur = box.cur
      /\ x.wrap = box.wrap /\ x.trap = box.trap /\ x.active = box.active
  BY <1>1, <1>5, ItemsAre
<1> HIDE DEF x
<1>8. AbsRow(x) = AbsRow(box) /\ (Present(x) <=> Present(box))
  BY <1>1, <1>5, <1>7 DEF AbsRow, Present, Count, s
<1>9. ASSUME NEW j \in DOMAIN x.items, x.items[j].sel PROVE j = AbsRow(x) + 1
  <2>1. j \in 1 .. Len(h) /\ j \in DOMAIN s
    BY <1>1, <1>5, <1>7, LenProperties
  <2>2. s[j].sel
    BY <1>4, <1>5, <1>7, <1>9, <2>1
  <2> QED BY <1>1, <1>8, <2>1, <2>2 DEF Held, s
<1>10. x \in Held
  BY <1>1, <1>7, <1>8, <1>9 DEF Held
<1>11. ASSUME NEW j \in 1 .. Len(h) PROVE x.items[j].text = g[j].text /\ x.items[j].mark = MarkOf(g[j])
  <2>1. s[j].text = h[j].text /\ s[j].mark = MarkOf(h[j])
    BY DEF Mirrors, s
  <2>2. g[j].text = h[j].text /\ (j # i => g[j] = h[j])
    BY DEF i
  <2>3. CASE j = i
    BY <1>4, <1>5, <1>7, <2>1, <2>2, <2>3 DEF m
  <2>4. CASE j # i
    BY <1>5, <1>7, <2>1, <2>2, <2>4
  <2> QED BY <2>3, <2>4
<1>12. g # <<>>
  BY <1>1, KeptIs
<1>13. Mirrors(x, g)
  BY <1>1, <1>5, <1>7, <1>10, <1>11, <1>12 DEF Mirrors
<1> QED BY <1>6, <1>13 DEF i, m

-----------------------------------------------------------------------------
(***************************************************************************)
(* The invariant: what PutItem keeps of each history, a dialog with its    *)
(* controls in their places, and over one of its lines perhaps the list of *)
(* the history that belongs to the line.                                   *)
(***************************************************************************)
PopSound == \/ pop = NoPopup
            \/ /\ pop \in [list : Lists, box : Boxes] /\ Mirrors(pop.box, hist[pop.list])
               /\ dlg \in Sound /\ dlg.kind \in {"search", "file"} /\ Focus(dlg) \in Lines
DInv == /\ hist \in [Lists -> Kept] /\ asked \in Answers /\ cwd \in Directories
        /\ dlg = NoDialog \/ dlg \in Sound
        /\ PopSound

\* What a step keeps besides: all that is fixed, but for the entry that the user frees.
FixedKept == \A l \in Lists : \A t \in FixedTexts(hist[l]) \ FixedTexts(hist'[l]) :
                /\ PopupIns /\ pop.list = l
                /\ t = hist[l][At(pop.box)].text /\ t \in Texts(hist'[l])

LEMMA FixedAll == ASSUME \A l \in Lists : FixedIn(hist[l], hist'[l]) PROVE FixedKept
  BY DEF FixedIn, FixedKept

\* A history that nothing is done to keeps its fixed entries.
LEMMA FixedSelf == ASSUME NEW h PROVE FixedIn(h, h)
  BY DEF FixedIn
LEMMA FixedSame == ASSUME hist' = hist PROVE FixedKept
  BY FixedSelf, FixedAll

\* The invariant holds when the editor starts.
LEMMA DInvInit == Init => DInv
<1> SUFFICES ASSUME Init PROVE DInv
  OBVIOUS
<1>1. ASSUME NEW h \in Histories PROVE h \in Kept
  <2>1. /\ h \in Seq(ToSet(h)) /\ Len(h) <= MaxHistory
        /\ \A i \in DOMAIN h : /\ h[i] = Entry(h[i].text, h[i].fixed) /\ h[i].fixed \in BOOLEAN
                               /\ h[i].text \in Seq(ToSet(h[i].text)) /\ h[i].text # <<>>
                               /\ PlaceOf(h, h[i].text) = i
    BY HistoriesAssumption DEF IsSequence
  <2>2. ASSUME NEW e \in ToSet(h) PROVE e \in Entries
    <3>1. PICK i \in DOMAIN h : e = h[i]
      BY DEF ToSet
    <3>2. e \in Stored
      BY DEF Stored
    <3>3. ToSet(e.text) \subseteq Chr
      <4>1. ToSet(e.text) \subseteq StoredChars
        BY <3>2 DEF StoredChars
      <4> QED BY <4>1 DEF Chr
    <3>4. e.text \in Seq(ToSet(e.text))
      BY <2>1, <3>1
    <3>5. e.text \in Strings
      BY <3>3, <3>4, SeqInto DEF Strings
    <3>6. e = Entry(e.text, e.fixed) /\ e.fixed \in BOOLEAN /\ e.text # <<>>
      BY <2>1, <3>1
    <3> QED BY <3>5, <3>6 DEF Entry, Entries
  <2>3. h \in Seq(Entries)
    BY <2>1, <2>2, SeqInto
  <2>4. \A i, j \in DOMAIN h : h[i].text = h[j].text => i = j
    BY <2>1
  <2> QED BY <2>1, <2>3, <2>4 DEF Kept
<1>2. <<>> \in Kept
  <2>1. <<>> \in Seq(Entries) /\ Len(<<>>) <= MaxHistory /\ DOMAIN <<>> = {}
    BY MaxHistoryAssumption
  <2> QED BY <2>1 DEF Kept
<1>3. hist \in [Lists -> Kept]
  <2>1. PICK h \in Histories : hist = [l \in Lists |-> IF l = use THEN h ELSE <<>>]
    BY DEF Init
  <2> QED BY <1>1, <1>2, <2>1
<1>4. asked \in Answers
  <2>1. <<>> \in Strings
    BY DEF Strings
  <2> QED BY <2>1 DEF Init, NoAnswers, Answers
<1> QED BY <1>3, <1>4 DEF Init, DInv, PopSound

\* What a step makes of the state: the invariant again, and each history with what is fixed in it.
Kept1 == DInv' /\ FixedKept

\* A step that leaves the histories and the list over them alone, with no list there,
LEMMA DialogStep ==
    ASSUME DInv, pop = NoPopup, UNCHANGED <<hist, asked, pop>>, cwd' \in Directories,
           dlg' = NoDialog \/ dlg' \in Sound
    PROVE  Kept1
  BY FixedSame DEF Kept1, DInv, PopSound

\* one that enters an answer into a history,
LEMMA HistoryStep ==
    ASSUME DInv, pop = NoPopup, UNCHANGED <<cwd, pop>>, dlg' = NoDialog, asked' \in Answers,
           hist' \in [Lists -> Kept], FixedKept
    PROVE  Kept1
  BY DEF Kept1, DInv, PopSound

\* and none at all.
LEMMA StutterStep == ASSUME DInv, UNCHANGED vars PROVE Kept1
  BY FixedSame DEF Kept1, DInv, PopSound, vars, Focus

\* A popup lies over a dialog.
LEMMA NoPopOver == ASSUME DInv, dlg = NoDialog PROVE pop = NoPopup
<1>1. ASSUME dlg \in Sound PROVE dlg.kind # "none"
  BY <1>1, SoundIs
<1>2. NoDialog.kind = "none"
  BY DEF NoDialog
<1> QED BY <1>1, <1>2 DEF DInv, PopSound

\* A dialog that is there is sound.
LEMMA KindIs ==
    ASSUME DInv, dlg.kind # "none" PROVE dlg \in Sound
  BY DEF DInv, NoDialog

\* Opening a dialog keeps the invariant and the fixed entries.
LEMMA OpenSteps == ASSUME DInv, OpenSearch \/ OpenMenu \/ OpenFile PROVE Kept1
<1>1. dlg = NoDialog /\ pop = NoPopup /\ UNCHANGED <<hist, asked, pop>> /\ cwd' = cwd
  BY NoPopOver DEF OpenSearch, OpenMenu, OpenFile
<1>2. cwd \in Directories /\ asked \in Answers
  BY DEF DInv
<1>3. CASE OpenSearch
  BY <1>1, <1>2, <1>3, SearchOpened, DialogStep DEF OpenSearch
<1>4. CASE OpenMenu
  BY <1>1, <1>2, <1>4, MenuOpened, DialogStep DEF OpenMenu
<1>5. CASE OpenFile
  <2> DEFINE m == <<"*">>
  <2>1. m \in Strings
    BY DEF Strings, Chr, Typed
  <2> HIDE DEF m
  <2>2. IsFile(Filled(Dialog("file", <<StaticText, SetText(EditLine, m), ListBox(PopupRows, FALSE)>>), cwd, m))
    BY <1>2, <2>1, FileOpened
  <2>3. IsFile(dlg')
    BY <1>5, <2>2 DEF OpenFile, m
  <2> QED BY <1>1, <1>2, <2>3, DialogStep DEF IsFile
<1> QED BY <1>3, <1>4, <1>5

\* A key in the search dialog does.
LEMMA SearchKeyStep == ASSUME DInv, NEW key, NEW shift, SearchKey(key, shift) PROVE Kept1
<1>1. dlg.kind = "search" /\ pop = NoPopup /\ dlg' = DialogKey(dlg, key, shift) /\ UNCHANGED <<hist, asked, cwd, pop>>
  BY DEF SearchKey
<1>2. dlg \in Sound
  BY <1>1, KindIs
<1>3. dlg' \in Sound
  BY <1>1, <1>2, DialogKeyIs
<1> QED BY <1>1, <1>3, DialogStep DEF DInv

\* A key in a menu does.
LEMMA MenuKeyStep == ASSUME DInv, NEW key, MenuKey(key) PROVE Kept1
<1> DEFINE d == DialogKey(dlg, key, FALSE)
<1>1. dlg.kind = "menu" /\ dlg' \in {NoDialog, d} /\ UNCHANGED <<hist, asked, cwd, pop>>
  BY DEF MenuKey
<1>2. dlg \in Sound
  BY <1>1, KindIs
<1>3. d \in Sound
  BY <1>2, DialogKeyIs
<1> HIDE DEF d
<1>4. pop = NoPopup
  BY <1>1 DEF DInv, PopSound
<1> QED BY <1>1, <1>3, <1>4, DialogStep DEF DInv

\* A key in the file dialog does.
LEMMA FileKeyStep == ASSUME DInv, NEW key, FileKey(key) PROVE Kept1
<1>1. dlg.kind = "file" /\ pop = NoPopup /\ UNCHANGED <<hist, asked, cwd, pop>>
      /\ dlg' = Followed(DialogKey(dlg, key, FALSE), key)
  BY DEF FileKey
<1>2. IsFile(dlg)
  BY <1>1, KindIs DEF IsFile
<1>3. IsFile(dlg')
  BY <1>1, <1>2, FileKeyIs
<1> QED BY <1>1, <1>3, DialogStep DEF DInv, IsFile

\* Going to a directory, chosen or by its drive, does.
LEMMA GoToStep ==
    ASSUME DInv, dlg.kind = "file", pop = NoPopup, NEW dir \in Directories, GoTo(dir) PROVE Kept1
<1> DEFINE m == <<"*">>
<1>1. cwd' = dir /\ dlg' = Filled(WithName(dlg, m), dir, m) /\ UNCHANGED <<hist, asked, pop>>
  BY DEF GoTo
<1>2. m \in Strings
  BY DEF Strings, Chr, Typed
<1> HIDE DEF m
<1>3. IsFile(dlg)
  BY KindIs DEF IsFile
<1>4. IsFile(WithName(dlg, m))
  BY <1>2, <1>3, NamedIs
<1>5. IsFile(dlg')
  BY <1>1, <1>4, FilledDialog
<1> QED BY <1>1, <1>5, DialogStep DEF IsFile

LEMMA EnterDirectoryStep == ASSUME DInv, EnterDirectory PROVE Kept1
  BY GoToStep DEF EnterDirectory

\* A file that is taken is entered into its history.
LEMMA TakeStep == ASSUME DInv, pop = NoPopup, NEW name \in Strings, Take(name) PROVE Kept1
<1> DEFINE f == "file"
           s == FullName(cwd, name)
<1>1. hist \in [Lists -> Kept] /\ asked \in Answers /\ cwd \in Directories /\ f \in Lists
  BY DEF DInv, Lists
<1>2. hist' = [hist EXCEPT ![f] = PutItem(hist[f], s)] /\ dlg' = NoDialog /\ UNCHANGED <<asked, cwd, pop>>
  BY DEF Take
<1> HIDE DEF f
<1>3. s \in Strings
  BY <1>1, FullNameIs
<1> HIDE DEF s
<1>4. PutItem(hist[f], s) \in Kept /\ FixedIn(hist[f], PutItem(hist[f], s))
  BY <1>1, <1>3, PutKeeps
<1>5. hist' \in [Lists -> Kept] /\ FixedKept
  BY <1>1, <1>2, <1>4, FixedSelf, FixedAll
<1> QED BY <1>1, <1>2, <1>5, HistoryStep

\* Taking the file of the list does.
LEMMA EnterFileStep == ASSUME DInv, EnterFile PROVE Kept1
<1>1. dlg.kind = "file" /\ pop = NoPopup /\ Take(TextAt(DirList(dlg)))
  BY DEF EnterFile
<1>2. IsFile(dlg)
  BY <1>1, KindIs DEF IsFile
<1>3. TextAt(DirList(dlg)) \in Strings
  BY <1>2, FileIs, TextAtIs
<1> QED BY <1>1, <1>3, TakeStep

\* Entering a name, a mask or a path does.
LEMMA EnterNameStep == ASSUME DInv, EnterName PROVE Kept1
<1> DEFINE line == NameLine(dlg).text
           name == SubSeq(line, LN!IndentOffset(line) + 1, Len(line))
           kept == LN!Trim(name)
           x == Followed(DialogKey(Filled(dlg, cwd, name), "Enter", FALSE), "Enter")
           y == Followed(DialogKey(dlg, "Enter", FALSE), "Enter")
<1>1. dlg.kind = "file" /\ pop = NoPopup
  BY DEF EnterName
<1>2. \/ dlg' \in {x, y} /\ UNCHANGED <<hist, asked, cwd, pop>>
      \/ Take(kept)
      \/ \E dir \in Directories : GoTo(dir)
  BY DEF EnterName
<1>3. IsFile(dlg) /\ cwd \in Directories
  BY <1>1, KindIs DEF IsFile, DInv
<1>4. line \in Strings
  BY <1>3, FileIs
<1> HIDE DEF line
<1>5. name \in Strings
  <2>1. LN!IndentOffset(line) \in 0 .. Len(line) /\ Len(line) \in Nat
    BY <1>4, MeasuresAre, LenProperties DEF Strings
  <2> QED BY <1>4, <2>1 DEF Strings
<1> HIDE DEF name
<1>6. kept \in Strings
  <2>1. LN!TrimmedLen(name) \in 0 .. Len(name) /\ Len(name) \in Nat
    BY <1>5, MeasuresAre, LenProperties DEF Strings
  <2> QED BY <1>5, <2>1 DEF Strings, LN!Trim
<1> HIDE DEF kept
<1>7. IsFile(x) /\ IsFile(y)
  <2>1. IsFile(Filled(dlg, cwd, name))
    BY <1>3, FilledDialog
  <2> QED BY <1>3, <2>1, FileKeyIs
<1> HIDE DEF x, y
<1>8. CASE Take(kept)
  BY <1>1, <1>6, <1>8, TakeStep
<1>9. CASE dlg' \in {x, y} /\ UNCHANGED <<hist, asked, cwd, pop>>
  BY <1>1, <1>3, <1>7, <1>9, DialogStep DEF IsFile
<1>10. CASE \E dir \in Directories : GoTo(dir)
  BY <1>1, <1>10, GoToStep
<1> QED BY <1>2, <1>8, <1>9, <1>10

\* The answers of the search dialog are entered into theirs.
LEMMA AcceptSearchStep == ASSUME DInv, NEW ctrl, AcceptSearch(ctrl) PROVE Kept1
<1>1. /\ dlg.kind = "search" /\ pop = NoPopup /\ dlg' = NoDialog /\ UNCHANGED <<cwd, pop>>
      /\ asked' = [f \in DOMAIN asked |-> LineOf(dlg, CHOOSE i \in DOMAIN Fields : Fields[i] = f).text]
      /\ hist' = [l \in Lists |-> IF l \in DOMAIN asked THEN PutItem(hist[l], asked'[l]) ELSE hist[l]]
  BY DEF AcceptSearch
<1>2. dlg \in Sound /\ asked \in Answers /\ hist \in [Lists -> Kept]
  BY <1>1, KindIs DEF DInv
<1> DEFINE n == Len(Fields)
<1>3. ASSUME NEW i \in 1 .. n PROVE LineOf(dlg, i) \in Lines /\ LineOf(dlg, i).text \in Strings
  <2>1. n \in Nat /\ Size(dlg.kind) = n + 1
    BY <1>1, FieldsAre DEF Size
  <2>2. i + 1 \in 1 .. Size(dlg.kind) /\ i + 1 # 1
    BY <2>1
  <2>3. dlg.controls[i + 1] \in Slot(dlg.kind, i + 1)
    BY <1>2, <2>2, SoundIs
  <2>4. dlg.controls[i + 1] \in Lines
    BY <1>1, <2>2, <2>3 DEF Slot
  <2> QED BY <2>4 DEF LineOf, Lines
<1>4. asked' \in Answers
  <2>1. ASSUME NEW f \in Lists \ {"file"}
        PROVE  LineOf(dlg, CHOOSE i \in DOMAIN Fields : Fields[i] = f).text \in Strings
    <3> DEFINE k == CHOOSE i \in DOMAIN Fields : Fields[i] = f
    <3>1. k \in 1 .. n
      BY FieldsAre
    <3> HIDE DEF k
    <3>2. LineOf(dlg, k).text \in Strings
      BY <1>3, <3>1
    <3> QED BY <3>2 DEF k
  <2>2. DOMAIN asked = Lists \ {"file"}
    BY <1>2 DEF Answers
  <2> QED BY <1>1, <2>1, <2>2 DEF Answers
<1>5. ASSUME NEW l \in Lists PROVE hist'[l] \in Kept /\ FixedIn(hist[l], hist'[l])
  <2>1. CASE l \in DOMAIN asked
    <3>1. asked'[l] \in Strings
      BY <1>2, <1>4, <2>1 DEF Answers
    <3>2. hist'[l] = PutItem(hist[l], asked'[l])
      BY <1>1, <2>1
    <3> QED BY <1>2, <3>1, <3>2, PutKeeps
  <2>2. CASE l \notin DOMAIN asked
    BY <1>1, <1>2, <2>2, FixedSelf
  <2> QED BY <2>1, <2>2
<1>6. hist' \in [Lists -> Kept] /\ FixedKept
  <2>1. hist' = [l \in Lists |-> hist'[l]]
    BY <1>1
  <2> QED BY <1>5, <2>1, FixedAll
<1> QED BY <1>1, <1>4, <1>6, HistoryStep

\* The list over a history opens, moves and closes,
LEMMA PopStep ==
    ASSUME DInv, UNCHANGED <<hist, asked, cwd>>, dlg \in Sound, dlg.kind \in {"search", "file"}, Focus(dlg) \in Lines,
           dlg' = dlg, NEW l \in Lists, NEW box, Mirrors(box, hist[l]), pop' = [list |-> l, box |-> box]
    PROVE  Kept1
<1>1. box \in Boxes
  BY HeldIs DEF Mirrors, EmptyBoxes
<1>2. PopSound'
  <2>1. pop' \in [list : Lists, box : Boxes] /\ pop'.box = box /\ pop'.list = l
    BY <1>1
  <2> QED BY <2>1 DEF PopSound, Focus
<1> QED BY <1>2, FixedSame DEF Kept1, DInv

\* A popup lies over a line of a dialog and shows the history of the line.
LEMMA PopIs ==
    ASSUME DInv, pop # NoPopup
    PROVE  /\ pop.list \in Lists /\ pop.box \in Boxes /\ Mirrors(pop.box, hist[pop.list]) /\ hist[pop.list] \in Kept
           /\ dlg \in Sound /\ dlg.kind \in {"search", "file"} /\ Focus(dlg) \in Lines
           /\ pop = [list |-> pop.list, box |-> pop.box]
  BY DEF DInv, PopSound

\* Opening a popup keeps the invariant and the fixed entries.
LEMMA OpenPopupStep == ASSUME DInv, OpenPopup PROVE Kept1
<1> DEFINE l == ListInFocus
           box == [ListBox(PopupRows, FALSE) EXCEPT !.items = FillList(hist[l]), !.active = TRUE]
<1>1. /\ dlg.kind \in {"search", "file"} /\ Focus(dlg).kind = "line" /\ hist[l] # <<>>
      /\ pop' = [list |-> l, box |-> box] /\ UNCHANGED <<hist, asked, cwd, dlg>>
  BY DEF OpenPopup
<1>2. dlg \in Sound
  BY <1>1, KindIs
<1>3. Focus(dlg) \in Lines
  BY <1>1, <1>2, FocusIs
<1>4. l \in Lists
  <2>1. CASE dlg.kind = "file"
    BY <2>1 DEF ListInFocus, Lists
  <2>2. CASE dlg.kind = "search"
    <3>1. dlg.current # 1
      <4> SUFFICES ASSUME dlg.current = 1 PROVE FALSE
        OBVIOUS
      <4>1. Focus(dlg) \in Slot(dlg.kind, dlg.current)
        BY <1>2, FocusIs
      <4>2. Focus(dlg) = StaticText
        BY <2>2, <4>1 DEF Slot
      <4> QED BY <1>3, <4>2 DEF Lines, StaticText
    <3>2. dlg.current \in 1 .. Len(Fields) + 1 /\ Len(Fields) \in Nat
      BY <1>2, <2>2, SoundIs DEF Size
    <3>3. dlg.current - 1 \in 1 .. Len(Fields)
      BY <3>1, <3>2
    <3> QED BY <2>2, <3>3, FieldsAre DEF ListInFocus
  <2> QED BY <1>1, <2>1, <2>2
<1>5. hist[l] \in Kept
  BY <1>4 DEF DInv
<1>6. Mirrors(box, hist[l])
  <2> DEFINE h == hist[l]
  <2>1. h \in Kept /\ h # <<>>
    BY <1>1, <1>5
  <2> HIDE DEF h
  <2>2. Mirrors([ListBox(PopupRows, FALSE) EXCEPT !.items = FillList(h), !.active = TRUE], h)
    BY <2>1, ListedIs
  <2> QED BY <2>2 DEF h
<1> HIDE DEF l, box
<1> QED BY <1>1, <1>2, <1>3, <1>4, <1>6, PopStep

\* A key in it does.
LEMMA PopupKeyStep == ASSUME DInv, NEW key, PopupKey(key) PROVE Kept1
<1> DEFINE h == hist[pop.list]
           l == pop.list
           old == pop.box
           box == ListKey(old, key)
           x == [old EXCEPT !.trap = TRUE]
<1>1. pop # NoPopup /\ UNCHANGED <<hist, asked, cwd>>
      /\ IF key = "Enter" \/ box.bykey THEN Choose(box) ELSE pop' = [pop EXCEPT !.box = box] /\ UNCHANGED dlg
  BY DEF PopupKey
<1>2. /\ l \in Lists /\ Mirrors(old, h) /\ h \in Kept /\ dlg \in Sound /\ dlg.kind \in {"search", "file"}
      /\ Focus(dlg) \in Lines /\ pop = [list |-> l, box |-> old]
  BY <1>1, PopIs
<1>3. Mirrors(box, h)
  <2> HIDE DEF h, old
  <2> QED BY <1>2, ListedKey
<1> HIDE DEF box
<1>4. CASE pop' = [pop EXCEPT !.box = box] /\ UNCHANGED dlg
  <2>1. pop' = [list |-> l, box |-> box]
    <3> HIDE DEF l, old
    <3> QED BY <1>2, <1>4
  <2> QED BY <1>1, <1>2, <1>3, <1>4, <2>1, PopStep
<1>5. CASE Choose(box) /\ Present(box)
  <2> DEFINE i == dlg.current
             f == dlg.controls[i]
             s == h[At(box)].text
             c == SetText(f, s)
  <2>1. dlg' = [dlg EXCEPT !.controls[i] = c] /\ pop' = NoPopup
    BY <1>5 DEF Choose
  <2>2. s \in Strings
    <3> HIDE DEF h
    <3>1. At(box) \in 1 .. Len(h)
      BY <1>2, <1>3, <1>5, ListedPresent
    <3> QED BY <1>2, <3>1, KeptIs
  <2> HIDE DEF s
  <2>3. f \in Lines /\ f \in Slot(dlg.kind, i) /\ i \in 1 .. Size(dlg.kind)
    BY <1>2, FocusIs, SoundIs DEF Focus
  <2>4. c \in Lines /\ c.active = f.active
    <3> HIDE DEF f
    <3> QED BY <2>2, <2>3, SetTextIs
  <2>5. f \notin Held /\ f # StaticText
    BY <2>3, SlotIs
  <2>6. c \in Slot(dlg.kind, i)
    <3> HIDE DEF c, f
    <3> QED BY <2>3, <2>4, <2>5 DEF Slot, Lists1
  <2> HIDE DEF c
  <2>7. dlg' \in Sound
    BY <1>2, <2>1, <2>3, <2>4, <2>6, ControlSet
  <2> QED BY <1>1, <2>1, <2>7, FixedSame DEF Kept1, DInv, PopSound
<1>6. CASE Choose(box) /\ ~Present(box)
  <2>1. pop' = [pop EXCEPT !.box.trap = TRUE] /\ UNCHANGED dlg
    BY <1>6 DEF Choose
  <2>2. Mirrors(x, h)
    <3> HIDE DEF h, old
    <3> QED BY <1>2, <1>3, <1>6, ListedTrap
  <2>3. pop' = [list |-> l, box |-> x]
    <3>1. pop' = [pop EXCEPT !.box = x]
      BY <1>2, <2>1
    <3> HIDE DEF l, x, old
    <3> QED BY <1>2, <3>1
  <2> HIDE DEF x
  <2> QED BY <1>1, <1>2, <2>1, <2>2, <2>3, PopStep
<1> QED BY <1>1, <1>4, <1>5, <1>6

\* an entry leaves both, is fixed or freed in both,
LEMMA BothStep ==
    ASSUME DInv, pop # NoPopup, UNCHANGED <<asked, cwd, dlg>>, NEW g \in Kept, NEW box, Mirrors(box, g),
           hist' = [hist EXCEPT ![pop.list] = g], pop' = [pop EXCEPT !.box = box], FixedKept
    PROVE  Kept1
<1> DEFINE l == pop.list
<1>1. /\ l \in Lists /\ dlg \in Sound /\ dlg.kind \in {"search", "file"} /\ Focus(dlg) \in Lines
      /\ pop = [list |-> l, box |-> pop.box] /\ hist \in [Lists -> Kept]
  BY PopIs DEF DInv
<1>2. box \in Boxes
  BY HeldIs DEF Mirrors, EmptyBoxes
<1>3. hist' \in [Lists -> Kept] /\ hist'[l] = g
  <2> HIDE DEF l
  <2>1. hist' = [hist EXCEPT ![l] = g]
    BY DEF l
  <2> QED BY <1>1, <2>1
<1>4. pop' \in [list : Lists, box : Boxes] /\ pop'.box = box /\ pop'.list = l
  <2>1. pop' = [list |-> l, box |-> box]
    <3> DEFINE o == pop.box
    <3>1. pop = [list |-> l, box |-> o] /\ pop' = [pop EXCEPT !.box = box]
      BY <1>1
    <3> HIDE DEF o, l
    <3> QED BY <3>1
  <2> QED BY <1>1, <1>2, <2>1
<1>5. PopSound'
  BY <1>1, <1>3, <1>4 DEF PopSound, Focus
<1> QED BY <1>3, <1>5 DEF Kept1, DInv

\* Deleting an entry through it does.
LEMMA PopupDelStep == ASSUME DInv, PopupDel PROVE Kept1
<1> DEFINE h == hist[pop.list]
           box == pop.box
           g == RemoveAt(h, At(box))
           x == DelItem(box, AbsRow(box))
<1>1. /\ pop # NoPopup /\ Present(box) /\ ~h[At(box)].fixed /\ UNCHANGED <<asked, cwd, dlg>>
      /\ hist' = [hist EXCEPT ![pop.list] = g] /\ pop' = [pop EXCEPT !.box = x]
  <2>1. hist' = [hist EXCEPT ![pop.list] = RemoveAt(@, At(pop.box))] /\ pop' = [pop EXCEPT !.box = DelItem(@, AbsRow(pop.box))]
    BY DEF PopupDel
  <2> QED BY <2>1 DEF PopupDel
<1>2. Mirrors(box, h) /\ h \in Kept
  BY <1>1, PopIs
<1> HIDE DEF h, box
<1>3. At(box) \in 1 .. Len(h)
  BY <1>1, <1>2, ListedPresent
<1>4. Mirrors(x, g)
  BY <1>1, <1>2, ListedDel
<1> HIDE DEF x
<1>5. g \in Kept /\ \A k \in DOMAIN h : k # At(box) => \E j \in DOMAIN g : g[j] = h[k]
  BY <1>2, <1>3, WithoutIs
<1> HIDE DEF g
<1>6. FixedIn(h, g)
  <2>1. ASSUME NEW i \in DOMAIN h, h[i].fixed PROVE \E j \in DOMAIN g : g[j] = h[i]
    BY <1>1, <1>5, <2>1
  <2> QED BY <2>1, FixedMove
<1>7. FixedKept
  <2>1. hist \in [Lists -> Kept]
    BY DEF DInv
  <2> QED BY <1>1, <1>6, <2>1, FixedSelf, FixedAll DEF h
<1> QED BY <1>1, <1>4, <1>5, <1>7, BothStep DEF h

\* Fixing or releasing an entry through it does.
LEMMA PopupInsStep == ASSUME DInv, PopupIns PROVE Kept1
<1> DEFINE l == pop.list
           h == hist[l]
           box == pop.box
           i == At(box)
           b == ~h[i].fixed
           g == [h EXCEPT ![i].fixed = b]
           m == MarkOf(g[i])
           x == [box EXCEPT !.items[i].mark = m]
           z == [box EXCEPT !.trap = TRUE]
<1>1. pop # NoPopup /\ UNCHANGED <<asked, cwd, dlg>>
  BY DEF PopupIns
<1>2. /\ l \in Lists /\ Mirrors(box, h) /\ h \in Kept /\ dlg \in Sound /\ dlg.kind \in {"search", "file"}
      /\ Focus(dlg) \in Lines /\ pop = [list |-> l, box |-> box] /\ hist \in [Lists -> Kept]
  BY <1>1, PopIs DEF DInv
<1>3. CASE Present(box)
  <2>1. hist' = [hist EXCEPT ![l][i].fixed = ~@] /\ pop' = [pop EXCEPT !.box.items[i].mark = MarkOf(hist'[l][i])]
    BY <1>3 DEF PopupIns
  <2>2. hist' = [hist EXCEPT ![l] = g]
    BY <2>1
  <2>3. hist'[l] = g
    BY <1>2, <2>2
  <2>4. pop' = [pop EXCEPT !.box = x]
    BY <2>1, <2>3
  <2> HIDE DEF g, x, h, l, box, i
  <2>5. i \in 1 .. Len(h)
    BY <1>2, <1>3, ListedPresent DEF i
  <2>6. b \in BOOLEAN
    OBVIOUS
  <2> HIDE DEF b
  <2>7. /\ g \in Kept /\ Len(g) = Len(h)
        /\ \A j \in 1 .. Len(h) : g[j].text = h[j].text /\ (j # i => g[j] = h[j])
    BY <1>2, <2>5, <2>6, RefixedIs DEF g
  <2>8. Mirrors(x, g)
    BY <1>2, <1>3, <2>7, ListedIns DEF x, i, m
  <2>9. ASSUME NEW t \in FixedTexts(h) \ FixedTexts(g) PROVE t = h[i].text /\ t \in Texts(g)
    <3>1. DOMAIN h = 1 .. Len(h) /\ DOMAIN g = 1 .. Len(h)
      BY <1>2, <2>7, KeptIs
    <3>2. PICK j \in DOMAIN h : h[j].fixed /\ t = h[j].text
      BY <2>9 DEF FixedTexts
    <3>3. j = i
      BY <2>7, <2>9, <3>1, <3>2 DEF FixedTexts
    <3> QED BY <2>7, <3>1, <3>2, <3>3 DEF Texts
  <2>10. FixedKept
    <3>1. \A k \in Lists : k # l => hist'[k] = hist[k]
      BY <1>2, <2>2
    <3>2. hist[l] = h /\ hist'[l] = g /\ pop.list = l /\ At(pop.box) = i
      BY <2>3 DEF h, l, i, box
    <3> QED BY <2>9, <3>1, <3>2 DEF FixedKept
  <2> QED BY <1>1, <2>2, <2>4, <2>7, <2>8, <2>10, BothStep DEF l, h
<1>4. CASE ~Present(box)
  <2>1. pop' = [pop EXCEPT !.box.trap = TRUE] /\ UNCHANGED hist
    BY <1>4 DEF PopupIns
  <2>2. Mirrors(z, h)
    <3> HIDE DEF h, box
    <3> QED BY <1>2, <1>4, ListedTrap
  <2>3. pop' = [list |-> l, box |-> z]
    <3>1. pop' = [pop EXCEPT !.box = z]
      BY <1>2, <2>1
    <3> HIDE DEF l, z, box
    <3> QED BY <1>2, <3>1
  <2> HIDE DEF z
  <2> QED BY <1>1, <1>2, <2>1, <2>2, <2>3, PopStep
<1> QED BY <1>3, <1>4

\* a dialog or a list is left,
LEMMA EscStep == ASSUME DInv, Esc PROVE Kept1
<1>1. UNCHANGED <<hist, asked, cwd>> /\ IF pop # NoPopup THEN pop' = NoPopup /\ UNCHANGED dlg
                                         ELSE dlg' = NoDialog /\ UNCHANGED pop
  BY DEF Esc
<1>2. CASE pop # NoPopup
  BY <1>1, <1>2, FixedSame DEF Kept1, DInv, PopSound
<1>3. CASE pop = NoPopup
  BY <1>1, <1>3, DialogStep DEF DInv
<1> QED BY <1>2, <1>3

\* and the editor is left and started again.
LEMMA ExitStep == ASSUME DInv, Exit PROVE Kept1
<1>1. /\ dlg = NoDialog /\ asked' = NoAnswers /\ UNCHANGED <<cwd, dlg, pop>>
      /\ hist' = [l \in Lists |-> Load(Store(hist[l]))]
  BY DEF Exit
<1>2. pop = NoPopup /\ hist \in [Lists -> Kept]
  BY <1>1, NoPopOver DEF DInv
<1>3. \A l \in Lists : hist'[l] = hist[l]
  BY <1>1, <1>2, HistoryComesBack
<1>4. hist' \in [Lists -> Kept] /\ FixedKept
  <2>1. hist' = [l \in Lists |-> hist'[l]]
    BY <1>1
  <2> QED BY <1>2, <1>3, <2>1, FixedSelf, FixedAll
<1>5. asked' \in Answers
  <2>1. <<>> \in Strings
    BY DEF Strings
  <2> QED BY <1>1, <2>1 DEF NoAnswers, Answers
<1> QED BY <1>1, <1>2, <1>4, <1>5, HistoryStep

-----------------------------------------------------------------------------
(***************************************************************************)
(* The theorems.                                                           *)
(***************************************************************************)
LEMMA DInvStep == ASSUME DInv, [Next]_allvars PROVE Kept1
<1>1. CASE UNCHANGED allvars
  BY <1>1, StutterStep DEF allvars, vars
<1>2. CASE SearchNext
  BY <1>2, OpenSteps, OpenPopupStep, AcceptSearchStep, SearchKeyStep DEF SearchNext
<1>3. CASE MenuNext
  BY <1>3, OpenSteps, MenuKeyStep DEF MenuNext
<1>4. CASE FileNext
  BY <1>4, OpenSteps, OpenPopupStep, EnterDirectoryStep, EnterFileStep, EnterNameStep, FileKeyStep DEF FileNext
<1>5. CASE PopupDel \/ PopupIns \/ \E key \in {"Up", "Down", "Enter", "b"} : PopupKey(key)
  BY <1>5, PopupDelStep, PopupInsStep, PopupKeyStep
<1>6. CASE Esc \/ Exit
  BY <1>6, EscStep, ExitStep
<1> QED BY <1>1, <1>2, <1>3, <1>4, <1>5, <1>6 DEF Next

\* The invariant holds in every state: PutItem keeps each history in order, and a dialog keeps its
\* controls, its focus and the rows of its lists (Dialog::do_key, ListBox::do_key, DoHistory).
THEOREM DialogInvariant == Spec => []DInv
<1>1. Init => DInv
  BY DInvInit
<1>2. DInv /\ [Next]_allvars => DInv'
  BY DInvStep DEF Kept1
<1> QED BY <1>1, <1>2, PTL DEF Spec

\* The histories come back from the extended attributes as they were when the editor was left
\* (StoreHistory, LoadHistory), whatever was entered, chosen, fixed and deleted before.
THEOREM HistoriesSurvive == Spec => []SurvivesExit
<1>1. DInv => SurvivesExit
  BY HistoryComesBack DEF DInv, SurvivesExit
<1> QED BY <1>1, DialogInvariant, PTL

\* A fixed entry stays in its history, a full one included, and stays fixed until the user frees that
\* entry with Ins (PutItem, DoHistory, StoreHistory, LoadHistory).
THEOREM FixedStay == Spec => FixedStays
<1>1. ASSUME DInv, [Next]_allvars
      PROVE  [\A l \in Lists : \A t \in FixedTexts(hist[l]) \ FixedTexts(hist'[l]) :
                 /\ PopupIns /\ pop.list = l
                 /\ t = hist[l][At(pop.box)].text /\ t \in Texts(hist'[l])]_vars
  BY <1>1, DInvStep DEF Kept1, FixedKept
<1> QED BY <1>1, DialogInvariant, PTL DEF Spec, FixedStays

\* A sound dialog has one focus and its lists an item chosen.
LEMMA ControlledIs == ASSUME NEW d \in Sound PROVE Controlled(d)
<1> SUFFICES ASSUME NEW i \in DOMAIN d.controls
             PROVE  /\ d.controls[i].active = (i = d.current)
                    /\ d.controls[i].kind = "list" =>
                         /\ Present(d.controls[i]) /\ ~d.controls[i].trap
                         /\ ~d.controls[i].wrap =>
                              \A j \in DOMAIN d.controls[i].items :
                                 d.controls[i].items[j].sel => j = AbsRow(d.controls[i]) + 1
  BY DEF Controlled
<1> DEFINE c == d.controls[i]
<1>1. c \in Slot(d.kind, i) /\ c.active = (i = d.current)
  BY SoundIs DEF Sound
<1> HIDE DEF c
<1>2. c.kind = "list" => c \in Held
  BY <1>1, SlotIs DEF Parts
<1>3. c.kind = "list" => /\ Present(c) /\ ~c.trap
                         /\ ~c.wrap => \A j \in DOMAIN c.items : c.items[j].sel => j = AbsRow(c) + 1
  BY <1>2 DEF Held
<1> QED BY <1>1, <1>3 DEF c

\* The dialogs are sound after any keys.
THEOREM DialogsAreSound == Spec => []DialogIsSound
<1>1. ASSUME DInv PROVE DialogIsSound
  <2>1. ASSUME dlg.kind # "none" PROVE Controlled(dlg)
    BY <1>1, <2>1, KindIs, ControlledIs
  <2>2. ASSUME pop.list # "none"
        PROVE  /\ Len(pop.box.items) = Len(hist[pop.list])
               /\ \A i \in DOMAIN hist[pop.list] : pop.box.items[i].text = hist[pop.list][i].text
               /\ \A i \in DOMAIN hist[pop.list] : pop.box.items[i].mark = MarkOf(hist[pop.list][i])
               /\ hist[pop.list] # <<>> => Present(pop.box)
    <3> DEFINE h == hist[pop.list]
               box == pop.box
    <3>1. Mirrors(box, h) /\ h \in Kept
      BY <1>1, <2>2, PopIs DEF NoPopup
    <3> HIDE DEF h, box
    <3>2. DOMAIN h = 1 .. Len(h)
      BY <3>1, KeptIs
    <3>3. /\ Len(box.items) = Len(h)
          /\ \A i \in DOMAIN h : box.items[i].text = h[i].text
          /\ \A i \in DOMAIN h : box.items[i].mark = MarkOf(h[i])
          /\ h # <<>> => Present(box)
      BY <3>1, <3>2, HeldIs DEF Mirrors
    <3> QED BY <3>3 DEF h, box
  <2> QED BY <2>1, <2>2 DEF DialogIsSound
<1> QED BY <1>1, DialogInvariant, PTL
=============================================================================
