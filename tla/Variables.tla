----------------------------- MODULE Variables ------------------------------
(***************************************************************************)
(* The variables of profiles and REXX macros (bindery.cpp) and the keys    *)
(* (keycoll.cpp).  A variable made by setVar only keeps its value; those   *)
(* of the editor are permanent and bound to a setting: a value is a        *)
(* number, or NoNumber for a text that is none.                            *)
(***************************************************************************)
EXTENDS Collections

NoNumber == -1
AsInt(v) == IF v = NoNumber THEN 0 ELSE v
Largest  == 1                  \* the live setting takes no more, as rows and columns do

\* the permanent variables, one of each kind: settings with a number, a color or a text that grows,
\* values of the current file that can be set or not, and groups
Globals    == << [name |-> <<"z">>, kind |-> "int", value |-> 0],
                 [name |-> <<"b">>, kind |-> "color", value |-> 0],
                 [name |-> <<"b", ".", "z">>, kind |-> "library", value |-> 0] >>
EditorInts == << [name |-> <<"z", ".", "a">>, kind |-> "live", value |-> 0],
                 [name |-> <<"z", ".", "b">>, kind |-> "fixed", value |-> 0] >>
Groups     == << [name |-> <<"k">>, kind |-> "keys", value |-> 0],
                 [name |-> <<"m">>, kind |-> "bookmarks", value |-> 0] >>
Permanents == Globals \o EditorInts \o Groups
Settings   == {Permanents[i].name : i \in DOMAIN Permanents}
IsPermanent(v) == v.kind # "plain"
IsGroup(v)     == v.kind \in {"keys", "bookmarks"}
Bookmarks == << <<3, 4>>, <<0, 0>> >>        \* of the current file: the row and column of each

\* a name compared with those of all variables or keys
Named(c, name) == [i \in 1 .. c.last |-> Compare(name, c.cells[i].name)]
AddVar(c, v)   == SortedAdd(c, v, Named(c, v.name))
LoadDefaults   == [vars |-> FoldLeft(AddVar, NewCollection(4), Permanents),
                  data |-> [s \in Settings |-> 0], library |-> <<>>, keys |-> NewCollection(1), hung |-> FALSE]

\* LocateVar: the variable of that name, or the group it is in, which is looked for right before
LocateVar(b, name) ==
    LET pos   == Look(Named(b.vars, name))
        group == Get(b.vars, pos - 1)
    IN IF Found(Named(b.vars, name)) THEN pos
       ELSE IF pos < b.vars.last /\ pos > 0 /\ IsGroup(group) /\ IsPrefix(Append(group.name, "."), name) THEN pos - 1
       ELSE -1
KeyOf(b, pos, name) == SubSeq(name, Len(Get(b.vars, pos).name) + 2, Len(name))

InsKeyOnce(keys, key, macro) ==      \* a mistake: an existing definition stays
    IF macro = 0 THEN keys ELSE SortedAdd(keys, [name |-> key, macro |-> macro], Named(keys, key))
\* InsKey: an existing definition is replaced at its place; one without commands is not taken
InsKey(keys, key, macro) ==
    LET place == Named(keys, key)
        def   == [name |-> key, macro |-> macro]
    IN IF macro = 0 THEN keys
       ELSE IF Found(place) THEN At(RemoveItem(keys, Look(place)), def, Look(place))
       ELSE SortedAdd(keys, def, place)
RemoveDef(keys, key) ==
    IF Found(Named(keys, key)) THEN RemoveItem(keys, Look(Named(keys, key))) ELSE keys
GetDef(keys, key) ==
    IF Found(Named(keys, key)) THEN Get(keys, Look(Named(keys, key))).macro ELSE 0

\* A member of a group that begins with a digit is that of the number: 1.key and 1.macro are the first
\* key and what it does, 0 is how many there are; 0.row and 0.col are where the first bookmark is.
Numerals == <<"0", "1", "2">>
OrdOf(member) == (CHOOSE n \in 1 .. 3 : Numerals[n] = member[1]) - 1
PartOf(member) == SubSeq(member, 2, Len(member))
IsNumbered(member) == member # <<>> /\ \E n \in 1 .. 3 : Numerals[n] = member[1]
KeyShown(keys, member) ==
    LET def == keys.cells[OrdOf(member)]
    IN IF ~IsNumbered(member) THEN GetDef(keys, member)
       ELSE IF OrdOf(member) = 0 THEN keys.last
       ELSE IF PartOf(member) \notin {<<".", "key">>, <<".", "macro">>} \/ OrdOf(member) > keys.last THEN None
       ELSE IF PartOf(member) = <<".", "key">> THEN def.name ELSE def.macro
BookmarkShown(member) ==
    LET part(bmk) == CASE PartOf(member) = <<".", "row">> -> bmk[1]
                       [] PartOf(member) = <<".", "col">> -> bmk[2]
                       [] OTHER -> None
    IN part(Bookmarks[OrdOf(member) + 1])

\* any value for a key removes its definition, and an empty one defines nothing (bindery.cpp:720)
SetKey(keys, key, v) == IF v # 0 THEN RemoveDef(keys, key) ELSE InsKey(keys, key, v)

\* setValue of each kind: what is shown is v, and the setting takes it
SetShown(b, pos, v) == [b EXCEPT !.vars.cells[pos + 1].value = v]
SetValue(b, pos, name, v) ==
    LET var == Get(b.vars, pos)
        shown == SetShown(b, pos, v)
    IN CASE var.kind = "plain"   -> shown
         [] var.kind = "int"     -> [shown EXCEPT !.data[name] = AsInt(v)]
         [] var.kind = "color"   -> IF v = NoNumber THEN b ELSE [shown EXCEPT !.data[name] = v]
         [] var.kind = "library" -> [shown EXCEPT !.library = Append(@, v)]
         [] var.kind = "live"    -> [shown EXCEPT !.data[name] = Min({AsInt(v), Largest})]
         [] var.kind = "fixed"   -> b
         [] var.kind = "keys"    -> [b EXCEPT !.keys = SetKey(@, KeyOf(b, pos, name), v)]
         [] var.kind = "bookmarks" -> b

SetVar(b, name, v) ==
    LET made    == [b EXCEPT !.vars = AddVar(@, [name |-> name, kind |-> "plain", value |-> 0])]
        new(c)  == SetValue(c, LocateVar(c, name), name, v)
        at(pos) == IF pos >= 0 THEN SetValue(b, pos, name, v) ELSE new(made)
    IN at(LocateVar(b, name))

\* getVar: a live or fixed variable shows the setting, the others what they were set to
GetVar(b, name) ==
    LET shown(var, key) == CASE var.kind \in {"live", "fixed"} -> b.data[name]
                             [] var.kind = "keys"              -> KeyShown(b.keys, key)
                             [] var.kind = "bookmarks"         -> BookmarkShown(key)
                             [] OTHER                          -> var.value
        at(pos) == IF pos < 0 THEN None ELSE shown(Get(b.vars, pos), KeyOf(b, pos, name))
    IN at(LocateVar(b, name))

DelVar(b, name) ==
    LET pos == Look(Named(b.vars, name))
    IN IF Found(Named(b.vars, name)) /\ ~IsPermanent(Get(b.vars, pos))
       THEN [b EXCEPT !.vars = RemoveItem(@, pos)] ELSE b

\* dropVar: all variables from the place of the name on that are it or begin with it and a point;
\* a permanent one is not removed and not passed either, so that the loop never ends
DropVar(b, name) ==
    LET from == Look(Named(b.vars, name))
        begins(pos) == LET n == b.vars.cells[pos + 1].name
                       IN n = name \/ IsPrefix(Append(name, "."), n)
        run == {pos \in from .. b.vars.last - 1 : \A p \in from .. pos : begins(p)}
        bad == {pos \in run : IsPermanent(Get(b.vars, pos))}
        n   == IF bad = {} THEN Cardinality(run) ELSE Min(bad) - from
    IN [b EXCEPT !.vars = FoldLeft(LAMBDA c, i : RemoveItem(c, from), @, [i \in 1 .. n |-> i]),
                 !.hung = @ \/ bad # {}]

\* what a profile, a macro or the user does
Do(b, op) ==
    CASE op[1] = "set"  -> SetVar(b, op[2], op[3])
      [] op[1] = "del"  -> DelVar(b, op[2])
      [] op[1] = "drop" -> DropVar(b, op[2])
      [] op[1] = "key"  -> [b EXCEPT !.keys = InsKey(@, op[2], op[3])]
Done(ops) == FoldLeft(Do, LoadDefaults, ops)
=============================================================================
