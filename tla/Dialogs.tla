------------------------------ MODULE Dialogs -------------------------------
(***************************************************************************)
(* The standard dialogs (stddlg.cpp) over the controls, and the histories  *)
(* behind their input lines (history.cpp), which outlive the process in    *)
(* extended attributes of the profile.                                     *)
(*                                                                         *)
(* A dialog owns the keyboard until it is answered or cancelled; the list  *)
(* of a history pops up over it and owns the keyboard in its turn.  So the *)
(* state is the dialog on the screen, the popup over it, and what survives *)
(* both: the histories and the last answers.                               *)
(***************************************************************************)
EXTENDS Controls, FiniteSets

CONSTANTS
    Fields,        \* the input lines of the search dialog: "search", "replace", "flags"
    MaxHistory,    \* MAX_HISTORY, the size of a history (32)
    PopupRows,     \* the rows of the list of a history (5)
    Tree,          \* the items of each directory: subdirectories (key 1), files (0), drives (2)
    MenuItems      \* the items of a menu

ASSUME MaxHistoryAssumption == MaxHistory \in Nat \ {0}
ASSUME PopupRowsAssumption  == PopupRows \in Nat \ {0}
\* "file" is the list of the other dialog
ASSUME FieldsAssumption == /\ IsSequence(Fields) /\ Fields # <<>>
                           /\ \A i \in DOMAIN Fields : Fields[i] # "file"
\* the list of a directory ends with the drives, one at least
ASSUME TreeAssumption ==
    \A dir \in DOMAIN Tree : AreItems(Tree[dir]) /\ \E i \in DOMAIN Tree[dir] : Tree[dir][i].key # 0
ASSUME MenuAssumption == AreItems(MenuItems) /\ MenuItems # <<>>

VARIABLES
    hist,          \* hSearch, hReplace, hFlags and hFile: entries, the newest first
    asked,         \* Search, Replace and Flags: the last answers
    cwd,           \* the current directory
    dlg,           \* the dialog on the screen
    pop            \* the list of a history over it
vars == <<hist, asked, cwd, dlg, pop>>

Lists == {Fields[i] : i \in DOMAIN Fields} \cup {"file"}
Directories == DOMAIN Tree
NoDialog == [kind |-> "none"]
NoPopup  == [list |-> "none"]

-----------------------------------------------------------------------------
(***************************************************************************)
(* A history.                                                              *)
(***************************************************************************)
Entry(text, fixed) == [text |-> text, fixed |-> fixed]
Texts(h) == {h[i].text : i \in DOMAIN h}

\* the first entry with the text, which is taken out; 0 if there is none
PlaceOf(h, s) == LET old == {i \in DOMAIN h : h[i].text = s}
                 IN IF old = {} THEN 0 ELSE CHOOSE i \in old : \A j \in old : i <= j
Without(h, i) == IF i = 0 THEN h ELSE RemoveAt(h, i)

\* an entry that is put in again keeps its mark
NewEntryUnmarked(h, place, s) == Entry(s, FALSE)    \* a mistake: it loses it
NewEntry(h, place, s) == Entry(s, place # 0 /\ h[place].fixed)

\* PutItem: an entry already there moves to the front and stays fixed; a full history gives up
\* the oldest entry that is not fixed, or else the new one
PutItem(h, s) ==
    LET place  == PlaceOf(h, s)
        less   == Without(h, place)
        new    == NewEntry(h, place, s)
        free   == {i \in DOMAIN less : ~less[i].fixed}
        oldest == CHOOSE i \in free : \A j \in free : j <= i
    IN CASE s = <<>> -> h
         [] s # <<>> /\ Len(less) # MaxHistory -> <<new>> \o less
         [] s # <<>> /\ Len(less) = MaxHistory /\ free # {} -> <<new>> \o RemoveAt(less, oldest)
         [] OTHER -> less

\* a mistake: the newest entry is written first
StoreNewestFirst(h) == h

\* StoreHistory: the oldest entry first, each with a mark that tells whether it is fixed.  In the
\* file they are one string with the characters 1 and 2 as marks between them; no entry holds these
Store(h) == Reverse(h)

\* LoadHistory puts the entries in again, one after the other; one that was put in is in front
Fix(h, e) == IF e.fixed /\ h # <<>> /\ h[1].text = e.text THEN [h EXCEPT ![1].fixed = ~@] ELSE h
LoadItem(h, e) == Fix(PutItem(h, e.text), e)
Load(ea) == FoldLeft(LoadItem, <<>>, ea)

MarkOf(e) == IF e.fixed THEN "fixed" ELSE " "
FillList(h) == [k \in DOMAIN h |-> Item(h[k].text, 0, MarkOf(h[k]))]

-----------------------------------------------------------------------------
(***************************************************************************)
(* A dialog: controls in the order they were inserted, one of them with    *)
(* the focus.  The first control that accepts it gets it.                  *)
(***************************************************************************)
Selectable(c) == c.kind # "text"
Select(c, v)  == IF Selectable(c) THEN [c EXCEPT !.active = v] ELSE c

\* Ins, for a list of controls
Dialog(kind, controls) ==
    LET current == CHOOSE i \in DOMAIN controls :
                       Selectable(controls[i]) /\ \A j \in 1 .. i - 1 : ~Selectable(controls[j])
    IN [kind |-> kind, current |-> current, controls |-> [controls EXCEPT ![current] = Select(@, TRUE)]]

Focus(d) == d.controls[d.current]

\* the new control is told first and the old one then
Focused(d, i) == [d EXCEPT !.controls[i] = Select(@, TRUE), !.controls[d.current] = Select(@, FALSE), !.current = i]
Others(d) == {i \in DOMAIN d.controls : i # d.current /\ Selectable(d.controls[i])}
\* next and prev: the nearest control in that direction, or from the other end
NextControl(d) ==
    LET S == Others(d)  after == {i \in S : i > d.current}
        Least(T) == CHOOSE i \in T : \A j \in T : i <= j
    IN IF S = {} THEN d ELSE Focused(d, Least(IF after # {} THEN after ELSE S))
PrevControl(d) ==
    LET S == Others(d)  before == {i \in S : i < d.current}
        Greatest(T) == CHOOSE i \in T : \A j \in T : i >= j
    IN IF S = {} THEN d ELSE Focused(d, Greatest(IF before # {} THEN before ELSE S))

\* Dialog::do_key
DialogKey(d, key, shift) ==
    CASE key = "Tab"   -> IF shift THEN PrevControl(d) ELSE NextControl(d)
      [] key = "Enter" -> NextControl(d)
      [] OTHER -> [d EXCEPT !.controls[d.current] =
                      IF @.kind = "line" THEN LineKey(@, key, shift) ELSE ListKey(@, key)]

Trapped == \/ dlg.kind # "none" /\ Focus(dlg).kind = "list" /\ Focus(dlg).trap
           \/ pop.list # "none" /\ pop.box.trap

-----------------------------------------------------------------------------
(***************************************************************************)
(* SearchReplace: an input line for each of the fields.                    *)
(***************************************************************************)
SearchDialog ==
    Dialog("search", <<StaticText>> \o [i \in DOMAIN Fields |-> SetText(EditLine, asked[Fields[i]])])
LineOf(d, i) == d.controls[i + 1]

OpenSearch == /\ dlg = NoDialog
              /\ dlg' = SearchDialog
              /\ UNCHANGED <<hist, asked, cwd, pop>>

\* Enter in the last field, or with Ctrl in any, takes the answers and closes the dialog
AcceptSearch(ctrl) ==
    /\ dlg.kind = "search" /\ pop = NoPopup
    /\ ctrl \/ dlg.current = Len(Fields) + 1
    /\ asked' = [f \in DOMAIN asked |-> LineOf(dlg, CHOOSE i \in DOMAIN Fields : Fields[i] = f).text]
    /\ hist' = [l \in Lists |-> IF l \in DOMAIN asked THEN PutItem(hist[l], asked'[l]) ELSE hist[l]]
    /\ dlg' = NoDialog
    /\ UNCHANGED <<cwd, pop>>

SearchKey(key, shift) ==
    /\ dlg.kind = "search" /\ pop = NoPopup
    /\ key \notin {"Esc", "Up", "Down"}
    /\ ~(key = "Enter" /\ dlg.current = Len(Fields) + 1)
    /\ dlg' = DialogKey(dlg, key, shift)
    /\ UNCHANGED <<hist, asked, cwd, pop>>

-----------------------------------------------------------------------------
(***************************************************************************)
(* AChoice: a menu; Enter or the letter of an item chooses it.             *)
(***************************************************************************)
OpenMenu == /\ dlg = NoDialog
            /\ dlg' = Dialog("menu", <<MenuOf(MenuItems)>>)
            /\ UNCHANGED <<hist, asked, cwd, pop>>

MenuKey(key) ==
    /\ dlg.kind = "menu" /\ key # "Esc"
    /\ LET d == DialogKey(dlg, key, FALSE)
       IN dlg' = IF key = "Enter" \/ Focus(d).bykey THEN NoDialog ELSE d
    /\ UNCHANGED <<hist, asked, cwd, pop>>

-----------------------------------------------------------------------------
(***************************************************************************)
(* FileDialog: a file name, which may be a mask, over the list of a        *)
(* directory.  A full name begins with its directory.                      *)
(***************************************************************************)
FullName(dir, s) == IF s[1] \in Directories THEN s ELSE <<dir>> \o s
IsDrive(s) == Len(s) = 2 /\ s[2] = ":"
HasMask(s) == \E i \in DOMAIN s : s[i] = "*"
\* what "*" means to the file system
Matches(mask, s) ==
    LET match[i \in 1 .. Len(mask) + 1, j \in 1 .. Len(s) + 1] ==
            IF i > Len(mask) THEN j > Len(s)
            ELSE IF mask[i] = "*" THEN \E k \in j .. Len(s) + 1 : match[i + 1, k]
            ELSE j <= Len(s) /\ s[j] = mask[i] /\ match[i + 1, j + 1]
    IN match[1, 1]

\* FillFileList: the highlight goes to the first row before the items go
Found(mask, it) == it.key = 0 => Matches(mask, it.text)
Shown(dir, mask) == FoldLeft(LAMBDA items, it : IF Found(mask, it) THEN Append(items, it) ELSE items, <<>>, Tree[dir])
FillFileList(lb, dir, mask) == [RemoveItems(GoItem(lb, 0)) EXCEPT !.items = Shown(dir, mask)]

NameLine(d) == d.controls[2]
DirList(d)  == d.controls[3]
WithName(d, s) == [d EXCEPT !.controls[2] = SetText(@, s)]
Filled(d, dir, mask) == [d EXCEPT !.controls[3] = FillFileList(@, dir, mask)]
KeyAt(lb) == IF Present(lb) THEN lb.items[AbsRow(lb) + 1].key ELSE 0
TextAt(lb) == lb.items[AbsRow(lb) + 1].text

OpenFile ==
    /\ dlg = NoDialog
    /\ dlg' = Filled(Dialog("file", <<StaticText, SetText(EditLine, <<"*">>), ListBox(PopupRows, FALSE)>>), cwd, <<"*">>)
    /\ UNCHANGED <<hist, asked, cwd, pop>>

\* the first item, but for the drives, with the longest common beginning with the name
Common(s, t) == CHOOSE n \in 0 .. LN!Smaller(Len(s), Len(t)) :
                    /\ SubSeq(s, 1, n) = SubSeq(t, 1, n)
                    /\ n < LN!Smaller(Len(s), Len(t)) => s[n + 1] # t[n + 1]
Candidates(lb, s) ==
    {i \in DOMAIN lb.items : /\ \A j \in 1 .. i : lb.items[j].key # 2
                             /\ Common(s, lb.items[i].text) > 0}
Sought(d) ==
    LET lb   == DirList(d)
        s    == NameLine(d).text
        C    == Candidates(lb, s)
        Length(i) == Common(s, lb.items[i].text)
        best == CHOOSE i \in C : \A j \in C : /\ Length(j) <= Length(i)
                                               /\ Length(j) = Length(i) => i <= j
    IN IF C = {} THEN d ELSE [d EXCEPT !.controls[3] = GoItem(@, best - 1)]

\* after a key the name follows the list, or the list the name
Followed(d, key) ==
    IF d.current = 3 THEN IF KeyAt(DirList(d)) = 0 THEN WithName(d, TextAt(DirList(d))) ELSE d
    ELSE IF key \in Typed \cup {"Bksp", "Del"} THEN Sought(d) ELSE d

FileKey(key) ==
    /\ dlg.kind = "file" /\ pop = NoPopup
    /\ key \notin {"Enter", "Esc"}
    /\ dlg.current = 2 => key \notin {"Up", "Down"}
    /\ dlg' = Followed(DialogKey(dlg, key, FALSE), key)
    /\ UNCHANGED <<hist, asked, cwd, pop>>

GoTo(dir) == /\ cwd' = dir
             /\ dlg' = Filled(WithName(dlg, <<"*">>), dir, <<"*">>)
             /\ UNCHANGED <<hist, asked, pop>>

\* Enter on a directory or a drive goes there, on a file takes it
EnterDirectory ==
    /\ dlg.kind = "file" /\ pop = NoPopup /\ dlg.current = 3 /\ KeyAt(DirList(dlg)) # 0
    /\ \E dir \in Directories : /\ KeyAt(DirList(dlg)) = 1 => dir = TextAt(DirList(dlg))[1]
                                /\ GoTo(dir)
Take(name) == /\ hist' = [hist EXCEPT !["file"] = PutItem(@, FullName(cwd, name))]
              /\ dlg' = NoDialog
              /\ UNCHANGED <<asked, cwd, pop>>
EnterFile == /\ dlg.kind = "file" /\ pop = NoPopup /\ dlg.current = 3
             /\ KeyAt(DirList(dlg)) = 0
             /\ Take(TextAt(DirList(dlg)))

\* Enter on a name takes it, on a drive goes to the directory used there, on a mask lists it; a mask and an empty name then leave the line,
\* and so does a name of one character, the loop that cuts blanks ending on the first
EnterName ==
    LET line == NameLine(dlg).text
        name == SubSeq(line, LN!IndentOffset(line) + 1, Len(line))
        kept == LN!Trim(name)
    IN /\ dlg.kind = "file" /\ pop = NoPopup /\ dlg.current = 2
       /\ \/ IsDrive(name) /\ \E dir \in Directories : GoTo(dir)
          \/ ~IsDrive(name) /\ HasMask(name)
                           /\ dlg' = Followed(DialogKey(Filled(dlg, cwd, name), "Enter", FALSE), "Enter")
                           /\ UNCHANGED <<hist, asked, cwd, pop>>
          \/ ~IsDrive(name) /\ ~HasMask(name) /\ Len(kept) > 1 /\ Take(kept)
          \/ ~HasMask(name) /\ Len(kept) <= 1 /\ dlg' = Followed(DialogKey(dlg, "Enter", FALSE), "Enter")
                           /\ UNCHANGED <<hist, asked, cwd, pop>>

-----------------------------------------------------------------------------
(***************************************************************************)
(* DoHistory: the history of the input line in focus.                      *)
(***************************************************************************)
ListInFocus == IF dlg.kind = "file" THEN "file" ELSE Fields[dlg.current - 1]

OpenPopup ==
    /\ dlg.kind \in {"search", "file"} /\ pop = NoPopup
    /\ Focus(dlg).kind = "line"
    /\ hist[ListInFocus] # <<>>
    /\ pop' = [list |-> ListInFocus, box |-> [ListBox(PopupRows, FALSE) EXCEPT !.items = FillList(hist[ListInFocus]),
                                                                               !.active = TRUE]]
    /\ UNCHANGED <<hist, asked, cwd, dlg>>

At(box) == AbsRow(box) + 1
\* the entry leaves the history and the item the list
PopupDel ==
    /\ pop # NoPopup /\ ~Trapped
    /\ Present(pop.box) /\ ~hist[pop.list][At(pop.box)].fixed
    /\ hist' = [hist EXCEPT ![pop.list] = RemoveAt(@, At(pop.box))]
    /\ pop' = [pop EXCEPT !.box = DelItem(@, AbsRow(pop.box))]
    /\ UNCHANGED <<asked, cwd, dlg>>
\* Ins fixes and frees an entry; an empty list has none
PopupIns ==
    /\ pop # NoPopup /\ ~Trapped
    /\ IF Present(pop.box)
       THEN /\ hist' = [hist EXCEPT ![pop.list][At(pop.box)].fixed = ~@]
            /\ pop' = [pop EXCEPT !.box.items[At(pop.box)].mark = MarkOf(hist'[pop.list][At(pop.box)])]
       ELSE pop' = [pop EXCEPT !.box.trap = TRUE] /\ UNCHANGED hist
    /\ UNCHANGED <<asked, cwd, dlg>>
\* Enter, or a letter that finds an entry, puts it into the line; an empty list has none
Choose(box) ==
    IF Present(box)
    THEN /\ dlg' = [dlg EXCEPT !.controls[dlg.current] = SetText(@, hist[pop.list][At(box)].text)]
         /\ pop' = NoPopup
    ELSE pop' = [pop EXCEPT !.box.trap = TRUE] /\ UNCHANGED dlg
PopupKey(key) ==
    /\ pop # NoPopup /\ ~Trapped
    /\ key \notin {"Esc", "Del", "Ins"}
    /\ LET box == ListKey(pop.box, key)
       IN IF key = "Enter" \/ box.bykey THEN Choose(box)
          ELSE pop' = [pop EXCEPT !.box = box] /\ UNCHANGED dlg
    /\ UNCHANGED <<hist, asked, cwd>>

Esc == /\ dlg # NoDialog /\ ~Trapped
       /\ IF pop # NoPopup THEN pop' = NoPopup /\ UNCHANGED dlg
          ELSE dlg' = NoDialog /\ UNCHANGED pop
       /\ UNCHANGED <<hist, asked, cwd>>

-----------------------------------------------------------------------------
NoAnswers == [f \in Lists \ {"file"} |-> <<>>]

\* the editor ends and is started again: the histories go through the extended attributes of
\* the profile; a trap ends the process without them
Exit == /\ dlg = NoDialog
        /\ hist' = [l \in Lists |-> Load(Store(hist[l]))]
        /\ asked' = NoAnswers
        /\ UNCHANGED <<cwd, dlg, pop>>
=============================================================================
