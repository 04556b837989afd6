----------------------------- MODULE MCDialogs ------------------------------
(***************************************************************************)
(* The dialogs with two fields, two directories and short texts.           *)
(***************************************************************************)
EXTENDS Dialogs

CONSTANTS MaxText,     \* the bound on the length of a typed text, and on the cursor
          Letters,     \* the characters that are typed
          Histories    \* what a history may hold when the editor starts

ASSUME HistoriesAssumption ==
    \A h \in Histories : /\ IsSequence(h) /\ Len(h) <= MaxHistory
                         /\ \A i \in DOMAIN h : /\ h[i] = Entry(h[i].text, h[i].fixed) /\ h[i].fixed \in BOOLEAN
                                                /\ IsSequence(h[i].text) /\ h[i].text # <<>>
                                                /\ PlaceOf(h, h[i].text) = i

MCFields == <<"search", "flags">>
MCTree == [r |-> <<Item(<<"s">>, 1, "dir"), Item(<<"a", "b">>, 0, " "), Item(<<"R">>, 2, 0)>>,
           s |-> <<Item(<<"r">>, 1, "dir"), Item(<<"R">>, 2, 0)>>]
MCHistories == {<<>>, <<Entry(<<"b">>, TRUE)>>, <<Entry(<<"b">>, TRUE), Entry(<<"b", "a">>, FALSE)>>}
MCMenu == <<Item(<<"a">>, 0, 0), Item(<<"b">>, 0, 0), Item(<<>>, 0, 0)>>

\* a user of one kind of dialogs, so that the histories of the others do not multiply the states
VARIABLE use
allvars == <<vars, use>>

Init == /\ use \in {"search", "file", "menu"}
        /\ hist \in {[l \in Lists |-> IF l = use THEN h ELSE <<>>] : h \in Histories}
        /\ asked = NoAnswers
        /\ cwd \in Directories
        /\ dlg = NoDialog
        /\ pop = NoPopup

\* the line in focus has room for another key
Roomy(key) == IF Focus(dlg).kind # "line" THEN key # ":"
              ELSE
                 /\ key \in Letters => ClearMarked(Focus(dlg)).col < MaxText /\ Len(ClearMarked(Focus(dlg)).text) < MaxText
                 /\ key = ":" => Focus(dlg).col = MaxText /\ Len(Focus(dlg).text) = MaxText
                 /\ key = "Right" => Focus(dlg).col < MaxText

ListKeys == {"Up", "Down", "PgUp", "PgDown", "Home", "End", "b", "Tab"}

SearchNext ==
    \/ OpenSearch \/ OpenPopup
    \/ \E ctrl \in BOOLEAN : AcceptSearch(ctrl)
    \/ \E key \in {"a", "Left", "Right", "Bksp", "Del", "Tab", "Enter"}, shift \in BOOLEAN :
          /\ dlg.kind = "search" => Roomy(key) /\ (shift => key = "Tab" \/ (key = "Left" /\ dlg.current = 2))
          /\ SearchKey(key, shift)
MenuNext == OpenMenu \/ \E key \in ListKeys \cup {"Enter"} : MenuKey(key)
FileNext ==
    \/ OpenFile \/ OpenPopup \/ EnterDirectory \/ EnterFile \/ EnterName
    \/ \E key \in {"Bksp", "*", "a", ":"} \cup ListKeys : (dlg.kind = "file" => Roomy(key)) /\ FileKey(key)

Next == /\ \/ use = "search" /\ SearchNext
           \/ use = "menu" /\ MenuNext
           \/ use = "file" /\ FileNext
           \/ PopupDel \/ PopupIns \/ \E key \in {"Up", "Down", "Enter", "b"} : PopupKey(key)
           \/ Esc \/ Exit
        /\ UNCHANGED use
Spec == Init /\ [][Next]_allvars

\* What a history holds is in it, in its order and with its marks, after the editor was left and
\* started again: the entries are stored and loaded one at a time (StoreHistory, LoadHistory).
SurvivesExit == \A l \in Lists : Load(Store(hist[l])) = hist[l]

FixedTexts(h) == {h[i].text : i \in {k \in DOMAIN h : h[k].fixed}}

\* An entry that the user has fixed stays in its history and stays fixed, whatever is typed, chosen,
\* stored or deleted, until the user frees that very entry with Ins in the popup, and then it is still
\* there (PutItem, StoreHistory, LoadHistory, DoHistory).
FixedStays == [][\A l \in Lists : \A t \in FixedTexts(hist[l]) \ FixedTexts(hist'[l]) :
                    /\ PopupIns /\ pop.list = l
                    /\ t = hist[l][At(pop.box)].text /\ t \in Texts(hist'[l])]_vars

\* Exactly one control of a dialog has the focus, and the row a list shows as chosen is one it has
Controlled(d) ==
    \A i \in DOMAIN d.controls :
        /\ d.controls[i].active = (i = d.current)
        /\ d.controls[i].kind = "list" =>
              /\ Present(d.controls[i]) /\ ~d.controls[i].trap
              /\ ~d.controls[i].wrap =>
                    \A j \in DOMAIN d.controls[i].items : d.controls[i].items[j].sel => j = AbsRow(d.controls[i]) + 1

\* Keys never leave a dialog without a focus or a list on an item it does not have, and the list over
\* a history shows its entries and their marks while they are deleted and fixed through it
\* (Dialog::do_key, ListBox::do_key, del_item, DoHistory).
DialogIsSound ==
    /\ dlg.kind # "none" => Controlled(dlg)
    /\ pop.list # "none" => /\ Len(pop.box.items) = Len(hist[pop.list])
                            /\ \A i \in DOMAIN hist[pop.list] : pop.box.items[i].text = hist[pop.list][i].text
                            /\ \A i \in DOMAIN hist[pop.list] : pop.box.items[i].mark = MarkOf(hist[pop.list][i])
                            /\ hist[pop.list] # <<>> => Present(pop.box)
=============================================================================
