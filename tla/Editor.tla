------------------------------- MODULE Editor -------------------------------
(***************************************************************************)
(* The four threads of the editor (main, thTimer, thMouse, thPipe) over    *)
(* one list of open files.  Every command runs under hMtx, a recursive     *)
(* mutex; the threads look at shutdown without it.                         *)
(*                                                                         *)
(* A thread waits for the mutex ("want") with the steps it will take       *)
(* under it in todo, and takes them one by one ("in").  Dispatcher is the  *)
(* sequence track_beg, the commands of the key's macro, track_end; a       *)
(* command that calls SendKey puts the steps of that Dispatcher in front   *)
(* of what is left.  The mutex is recursive, so only the outermost lock()  *)
(* of a thread counts.  Of a file the model keeps what the threads and     *)
(* the questions before closing depend on, not its text.  A dialog is an   *)
(* answer the user gives.                                                  *)
(***************************************************************************)
EXTENDS Integers, Sequences, FiniteSets, SequencesExt

CONSTANTS
    Keys,        \* the keys the user may press
    Macro,       \* the commands bound to each key and pseudo key
    Reps,        \* how often a key may have been repeated when it is read
    Messages,    \* the messages that may come through the pipe
    Started,     \* the threads beside main that run
    Names,       \* the names of files
    MayOverwrite,\* whether the user gives a file the name of another open one
    MaxBoxes     \* bound on the open files

Threads  == {"main", "timer", "mouse", "pipe"}
Pseudo   == {"kbInit", "kbDone", "kbOpen", "kbClose", "kbTimer", "kbActivate", "kbPipe",
             "kbBeforeKey", "kbAfterKey"}
Commands == {"Type", "NextFile", "New", "Load", "Save", "SaveAll", "Close", "Exit", "Abort", "Undo"}
Inner    == {"track_beg", "track_end", "OpenFile", "set_xy", "put_mouse", "close", "check_save"}

ASSUME EditorAssumption ==
    /\ Macro \in [Keys \cup Pseudo -> Seq(Commands)]
    /\ Reps \subseteq Nat \ {0}
    /\ Messages \subseteq {"open", "cursor", "execute"}
    /\ Started \subseteq Threads \ {"main"}
    /\ MayOverwrite \in BOOLEAN /\ "untitled" \notin Names
    /\ MaxBoxes \in Nat \ {0}

VARIABLES
    owner,     \* the thread that holds hMtx, or "none"
    shutdown,  \* EditBoxCollection::shutdown
    boxes,     \* the open files
    cur,       \* cur_box, counted from 1
    pc,        \* where each thread is
    todo,      \* the steps each thread will take under the mutex
    first,     \* the file check_save of all files began with
    aborted,   \* history: the user chose Abort
    lost       \* history: a text was dropped that the user was not asked about

files == <<boxes, cur, lost>>
vars  == <<owner, shutdown, boxes, cur, pc, todo, first, aborted, lost>>

(***************************************************************************)
(* A file: saved, changed and tracks are flags of its buffer;              *)
(*   head     the notes in track_head, by thread and kind;                 *)
(*   undo     whether undobuff has any;                                    *)
(*   kept     history: why the text may be dropped without a question: it  *)
(*            is on disk, it is empty as it was created, the user was      *)
(*            asked about it;                                              *)
(*   unnoted  history: a change of the text is not in the undo log.        *)
(***************************************************************************)
Untitled == "untitled"
Fresh == [name |-> Untitled, saved |-> TRUE, changed |-> FALSE, tracks |-> FALSE,
          head |-> {}, undo |-> FALSE, kept |-> {"empty"}, unnoted |-> FALSE]

\* a file that does not exist yet is opened as changed
Loaded(name, exists) ==
    [Fresh EXCEPT !.name = name, !.saved = exists, !.changed = ~exists,
                  !.kept = IF exists THEN {"disk"} ELSE {"empty"}]

Note(b, t, kind) == IF b.tracks THEN [b EXCEPT !.head = @ \cup {<<t, kind>>}] ELSE b
Typed(b, t)      == [Note(b, t, "text") EXCEPT !.saved = FALSE, !.changed = TRUE, !.kept = {},
                                               !.unnoted = @ \/ ~b.tracks]
Named(b, t, name) == [Note(b, t, "flags") EXCEPT !.name = name, !.saved = FALSE, !.changed = TRUE]
Written(b, t)    == [Note(b, t, "flags") EXCEPT !.saved = TRUE, !.changed = FALSE, !.kept = @ \cup {"disk"}]
Overwritten(b)   == [b EXCEPT !.kept = @ \ {"disk"}]
Asked(b)         == [b EXCEPT !.kept = @ \cup {"asked"}]

\* The files in which, one after the other, are saved: save does nothing for one
\* that is saved already; a text takes the place of what was on disk under its name.
SavedAll(bs, which, t) ==
    LET saving == {i \in which : ~bs[i].saved}
        written(k) == IF k \in saving THEN Written(bs[k], t) ELSE bs[k]
        over(k) == \E i \in saving : /\ bs[i].name = bs[k].name
                                     /\ IF k \in saving THEN i > k ELSE i # k
    IN [k \in DOMAIN bs |-> IF over(k) THEN Overwritten(written(k)) ELSE written(k)]

Saved(bs, i, t) == SavedAll(bs, {i}, t)

\* the names the user may give to file i
NewNames(i) == {name \in Names : MayOverwrite \/ \A k \in DOMAIN boxes \ {i} : boxes[k].name # name}
NamedAt(i, t, name) == [boxes EXCEPT ![i] = Named(@, t, name)]

Begun(b)     == [b EXCEPT !.tracks = TRUE]
Ended(b)     == [b EXCEPT !.tracks = FALSE, !.undo = @ \/ b.head # {}, !.head = {}]
\* track_cancel drops what the running command noted; its changes stay
Cancelled(b) == [b EXCEPT !.tracks = FALSE, !.head = {},
                          !.unnoted = @ \/ \E t \in Threads : <<t, "text">> \in b.head]
\* undo gives back the text before the newest log, and with it its changed flag: an
\* untitled text that was not changed then was empty, but for what no log notes (and
\* but for a text that SaveAll wrote: no table has SaveAll besides Undo)
KeptAfter(b, changed) == IF b.name = Untitled /\ ~changed /\ ~b.unnoted THEN {"empty"} ELSE {}

\* a mistake: the saved flag comes back with the other flags
UndoneSaved(b, changed, more) ==
    [b EXCEPT !.changed = changed, !.undo = more, !.kept = KeptAfter(b, changed)]
Undone(b, changed, more) ==
    [b EXCEPT !.saved = FALSE, !.changed = changed, !.undo = more, !.kept = KeptAfter(b, changed)]

-----------------------------------------------------------------------------
Tracked(steps)  == <<"track_beg">> \o steps \o <<"track_end">>
Dispatch(key)   == Tracked(Macro[key])
\* a key of the keyboard is dispatched with the user's macros around it
DispatchKey(key) == Tracked(Macro["kbBeforeKey"] \o Macro[key] \o Macro["kbAfterKey"])

Repeated(steps, n) == [i \in 1 .. n * Len(steps) |-> steps[((i - 1) % Len(steps)) + 1]]

Goto(t, where) == pc' = [pc EXCEPT ![t] = where]
Ask(t, steps)  == Goto(t, "want") /\ todo' = [todo EXCEPT ![t] = steps]

\* the bound: no key or message is taken that could open more files
Opens(steps)   == Cardinality({i \in DOMAIN steps : steps[i] \in {"New", "Load", "OpenFile"}})
Opening        == Opens(todo["main"]) + Opens(todo["pipe"])
RoomFor(steps) == Opens(steps) > 0 => Len(boxes) + Opening + Opens(steps) <= MaxBoxes

-----------------------------------------------------------------------------
(***************************************************************************)
(* What the threads do without the mutex.                                  *)
(***************************************************************************)
MainTest == /\ pc["main"] = "test" /\ ~shutdown
            /\ Goto("main", "draw")
            /\ UNCHANGED <<owner, shutdown, files, todo, first, aborted>>

MainDraw == /\ pc["main"] = "draw" /\ owner = "none"
            /\ Goto("main", "read")
            /\ UNCHANGED <<owner, shutdown, files, todo, first, aborted>>

\* a key that was held down is dispatched several times under one lock
MainRead == /\ pc["main"] = "read"
            /\ \E key \in Keys, n \in Reps :
                  LET steps == Repeated(DispatchKey(key), n)
                  IN RoomFor(steps) /\ Ask("main", steps)
            /\ UNCHANGED <<owner, shutdown, files, first, aborted>>

\* the loop is over: kbDone, and then Done
MainLeave == /\ pc["main"] = "test" /\ shutdown
             /\ Goto("main", "wantlast")
             /\ todo' = [todo EXCEPT !["main"] = Dispatch("kbDone")]
             /\ UNCHANGED <<owner, shutdown, files, first, aborted>>

\* Done sets shutdown again before it waits for the mutex, and never gives it back
Done == /\ pc["main"] = "done"
        /\ Goto("main", "wantall") /\ shutdown' = TRUE
        /\ UNCHANGED <<owner, files, todo, first, aborted>>

\* a mistake: the mutex is given back
DoneUnlocks == /\ pc["main"] = "wantall" /\ owner = "none"
               /\ Goto("main", "over") /\ boxes' = <<>>
               /\ UNCHANGED <<owner, shutdown, cur, todo, first, aborted, lost>>
DoneRemoveAll == /\ pc["main"] = "wantall" /\ owner = "none"
                 /\ Goto("main", "over") /\ owner' = "main"
                 /\ boxes' = <<>>
                 /\ lost' = (lost \/ (~aborted /\ \E i \in DOMAIN boxes : boxes[i].kept = {}))
                 /\ UNCHANGED <<shutdown, cur, todo, first, aborted>>

\* the other threads leave their loop when they see shutdown
Leave(t) == /\ pc[t] = "test" /\ shutdown
            /\ Goto(t, "left")
            /\ UNCHANGED <<owner, shutdown, files, todo, first, aborted>>

\* a mistake: the loop goes on for ever
TimerTickAlways == /\ pc["timer"] = "test"
                   /\ Ask("timer", Dispatch("kbTimer"))
                   /\ UNCHANGED <<owner, shutdown, files, first, aborted>>
\* shutdown is tested before DosSleep and not again before lock(); here it is tested for each of the
\* two locks, the one for the change of windows and the one for the timer
TimerTick == /\ pc["timer"] = "test" /\ ~shutdown
             /\ \E key \in {"kbTimer", "kbActivate"} : Ask("timer", Dispatch(key))
             /\ UNCHANGED <<owner, shutdown, files, first, aborted>>

MouseWait == /\ pc["mouse"] = "test" /\ ~shutdown
             /\ Goto("mouse", "event")
             /\ UNCHANGED <<owner, shutdown, files, todo, first, aborted>>
MouseEvent == /\ pc["mouse"] = "event"
              /\ Ask("mouse", Tracked(<<"put_mouse">>))
              /\ UNCHANGED <<owner, shutdown, files, first, aborted>>

PipeWait == /\ pc["pipe"] = "test" /\ ~shutdown
            /\ Goto("pipe", "message")
            /\ UNCHANGED <<owner, shutdown, files, todo, first, aborted>>

Handler(message) == CASE message = "open"    -> <<"OpenFile">>
                      [] message = "cursor"  -> <<"set_xy">>
                      [] message = "execute" -> Dispatch("kbPipe")

\* ReadMsg returned: shutdown is tested once more, but before lock()
PipeMessage == /\ pc["pipe"] = "message"
               /\ IF shutdown THEN Goto("pipe", "test") /\ UNCHANGED todo
                  ELSE \E m \in Messages : RoomFor(Handler(m)) /\ Ask("pipe", Handler(m))
               /\ UNCHANGED <<owner, shutdown, files, first, aborted>>

-----------------------------------------------------------------------------
(***************************************************************************)
(* The mutex.                                                              *)
(***************************************************************************)
\* a mistake: the thread never takes the mutex
LockNothing(t) == /\ pc[t] \in {"want", "wantlast"}
                  /\ Goto(t, IF pc[t] = "want" THEN "in" ELSE "inlast")
                  /\ UNCHANGED <<owner, shutdown, files, todo, first, aborted>>
Lock(t) == /\ pc[t] \in {"want", "wantlast"} /\ owner = "none"
           /\ owner' = t
           /\ Goto(t, IF pc[t] = "want" THEN "in" ELSE "inlast")
           /\ UNCHANGED <<shutdown, files, todo, first, aborted>>

Holds(t) == pc[t] \in {"in", "inlast"}

\* a mistake: the thread goes on without having given the mutex back
UnlockForgotten(t) == /\ Holds(t) /\ todo[t] = <<>>
                      /\ Goto(t, IF pc[t] = "in" THEN "test" ELSE "done")
                      /\ UNCHANGED <<owner, shutdown, files, todo, first, aborted>>
Unlock(t) == /\ Holds(t) /\ todo[t] = <<>>
             /\ owner' = "none"
             /\ Goto(t, IF pc[t] = "in" THEN "test" ELSE "done")
             /\ UNCHANGED <<shutdown, files, todo, first, aborted>>

(***************************************************************************)
(* The steps under the mutex.                                              *)
(***************************************************************************)
Takes(t, step) == Holds(t) /\ todo[t] # <<>> /\ Head(todo[t]) = step
Then(t, steps) == todo' = [todo EXCEPT ![t] = steps \o Tail(@)]
SetBoxes(bs)   == boxes' = bs /\ UNCHANGED <<cur, lost>>
SetCurrent(b)  == SetBoxes([boxes EXCEPT ![cur] = b])
Quiet(t)       == UNCHANGED <<owner, pc, shutdown, first, aborted>>

\* a mistake: tracking begins for the current file only
TrackBegCurrent(t) == Takes(t, "track_beg") /\ SetCurrent(Begun(boxes[cur])) /\ Then(t, <<>>) /\ Quiet(t)
TrackBeg(t) == /\ Takes(t, "track_beg")
               /\ SetBoxes([i \in DOMAIN boxes |-> Begun(boxes[i])])
               /\ Then(t, <<>>) /\ Quiet(t)
\* a mistake: tracking ends for the current file only
TrackEndCurrent(t) == Takes(t, "track_end") /\ SetCurrent(Ended(boxes[cur])) /\ Then(t, <<>>) /\ Quiet(t)
TrackEnd(t) == /\ Takes(t, "track_end")
               /\ SetBoxes([i \in DOMAIN boxes |-> Ended(boxes[i])])
               /\ Then(t, <<>>) /\ Quiet(t)

Type(t)     == Takes(t, "Type") /\ SetCurrent(Typed(boxes[cur], t)) /\ Then(t, <<>>) /\ Quiet(t)
PutMouse(t) == Takes(t, "put_mouse") /\ SetCurrent(Note(boxes[cur], t, "cursor")) /\ Then(t, <<>>) /\ Quiet(t)
\* the pipe moves the cursor outside of tracking: nothing is noted
SetXY(t)    == Takes(t, "set_xy") /\ SetCurrent(Note(boxes[cur], t, "cursor")) /\ Then(t, <<>>) /\ Quiet(t)

Next1 == (cur % Len(boxes)) + 1
NextFile(t) == /\ Takes(t, "NextFile")
               /\ cur' = Next1
               /\ Then(t, <<>>) /\ Quiet(t) /\ UNCHANGED <<boxes, lost>>

Undo(t) == /\ Takes(t, "Undo")
           /\ \/ ~boxes[cur].undo /\ SetCurrent(Cancelled(boxes[cur]))
              \/ /\ boxes[cur].undo
                 /\ \E more, changed \in BOOLEAN :
                       \/ SetCurrent([Cancelled(boxes[cur]) EXCEPT !.undo = more])
                       \/ SetCurrent(Undone(Cancelled(boxes[cur]), changed, more))
           /\ Then(t, <<>>) /\ Quiet(t)

\* doNew: the new file does not track yet; the Dispatcher of kbOpen begins
\* tracking and, at its end, ends it for the command that called it as well
New(t) == /\ Takes(t, "New")
          /\ boxes' = Append(boxes, Fresh) /\ cur' = Len(boxes) + 1
          /\ Then(t, Dispatch("kbOpen")) /\ Quiet(t) /\ UNCHANGED lost

\* the file dialog of doLoad
Load(t) == /\ Takes(t, "Load")
           /\ Then(t, <<>>) \/ Then(t, <<"OpenFile">>)
           /\ Quiet(t) /\ UNCHANGED files

\* doOpenFile: a file that is open is selected; an untitled and unchanged
\* current one gives its place to the file
OpenFile(t) ==
    /\ Takes(t, "OpenFile")
    /\ \/ /\ \E i \in DOMAIN boxes : boxes[i].name # Untitled /\ cur' = i
          /\ Then(t, <<>>) /\ UNCHANGED <<boxes, lost>>
       \/ \E name \in Names, exists \in BOOLEAN :
          /\ \A i \in DOMAIN boxes : boxes[i].name # name
          /\ \/ /\ boxes[cur].name # Untitled \/ boxes[cur].changed
                /\ boxes' = Append(boxes, Loaded(name, exists)) /\ cur' = Len(boxes) + 1
                /\ UNCHANGED lost
             \/ /\ boxes[cur].name = Untitled /\ ~boxes[cur].changed
                /\ boxes' = [boxes EXCEPT ![cur] = Loaded(name, exists)]
                /\ lost' = (lost \/ boxes[cur].kept = {}) /\ UNCHANGED cur
          /\ Then(t, Dispatch("kbOpen"))
    /\ Quiet(t)

\* doSave: an untitled file needs a name; the dialog may be left, the write may fail
Save(t) ==
    /\ Takes(t, "Save")
    /\ \/ UNCHANGED boxes
       \/ boxes[cur].name # Untitled /\ boxes' = Saved(boxes, cur, t)
       \/ /\ boxes[cur].name = Untitled
          /\ \E name \in NewNames(cur) : boxes' \in {NamedAt(cur, t, name), Saved(NamedAt(cur, t, name), cur, t)}
    /\ Then(t, <<>>) /\ Quiet(t) /\ UNCHANGED <<cur, lost>>

\* doSaveAll asks for no name and looks at no result
SaveAll(t) ==
    /\ Takes(t, "SaveAll")
    /\ \E written \in SUBSET DOMAIN boxes : SetBoxes(SavedAll(boxes, written, t))
    /\ Then(t, <<>>) /\ Quiet(t)

-----------------------------------------------------------------------------
(***************************************************************************)
(* Close and Exit ask for every file that is not saved: Yes, No or Cancel. *)
(***************************************************************************)
Close(t) == /\ Takes(t, "Close")
            /\ Then(t, Dispatch("kbClose") \o <<"close">>)
            /\ Quiet(t) /\ UNCHANGED files

\* a mistake: the list is shorter and the current file is not chosen anew
RemoveBoxKeepingCur(i) == boxes' = (IF Len(boxes) = 1 THEN <<Fresh>> ELSE RemoveAt(boxes, i)) /\ UNCHANGED cur
\* without a file left a new one is opened
RemoveBox(i) == boxes' = (IF Len(boxes) = 1 THEN <<Fresh>> ELSE RemoveAt(boxes, i)) /\ cur' = 1

\* EditBox::check_save looks at no result of save: the file goes when the
\* user says Yes and the write fails, as it does when the user says No
Drop(t) ==
    /\ Takes(t, "close")
    /\ \/ boxes[cur].saved /\ RemoveBox(cur) /\ lost' = (lost \/ boxes[cur].kept = {})
       \/ ~boxes[cur].saved /\ RemoveBox(cur) /\ UNCHANGED lost
       \/ ~boxes[cur].saved /\ UNCHANGED files    \* Cancel
    /\ Then(t, <<>>) /\ Quiet(t)

Exit(t) == /\ Takes(t, "Exit")
           /\ first' = cur
           /\ Then(t, <<"check_save">>)
           /\ UNCHANGED <<owner, pc, shutdown, aborted, files>>

\* the file is done with: the next one, or back where it began
AskNext(t, bs) ==
    /\ boxes' = bs
    /\ cur' = Next1
    /\ IF Next1 = first THEN shutdown' = TRUE /\ first' = 0 /\ Then(t, <<>>)
       ELSE UNCHANGED <<shutdown, first, todo>>

CheckSave(t) ==
    /\ Takes(t, "check_save")
    /\ \/ boxes[cur].saved /\ AskNext(t, boxes)
       \/ ~boxes[cur].saved /\ AskNext(t, [boxes EXCEPT ![cur] = Asked(@)])                   \* No
       \/ ~boxes[cur].saved /\ boxes[cur].name # Untitled /\ AskNext(t, Saved(boxes, cur, t)) \* Yes
       \/ /\ ~boxes[cur].saved /\ boxes[cur].name = Untitled
          /\ \E name \in NewNames(cur) : AskNext(t, Saved(NamedAt(cur, t, name), cur, t))
    /\ UNCHANGED <<owner, pc, aborted, lost>>

\* a mistake: doExit takes any answer for a yes
ExitAnyway(t) ==
    /\ Takes(t, "check_save") /\ ~boxes[cur].saved
    /\ shutdown' = TRUE /\ first' = 0
    /\ Then(t, <<>>) /\ UNCHANGED <<owner, pc, aborted, files>>
\* Cancel goes back to the file the command was given in; a save that fails,
\* or has no name, stays where it is
ExitCancelled(t) ==
    /\ Takes(t, "check_save") /\ ~boxes[cur].saved
    /\ \/ cur' \in {first, cur} /\ UNCHANGED boxes
       \/ /\ boxes[cur].name = Untitled
          /\ \E name \in NewNames(cur) : boxes' = NamedAt(cur, t, name)
          /\ UNCHANGED cur
    /\ shutdown' = FALSE /\ first' = 0
    /\ Then(t, <<>>) /\ UNCHANGED <<owner, pc, aborted, lost>>

Abort(t) == /\ Takes(t, "Abort")
            /\ shutdown' = TRUE /\ aborted' = TRUE
            /\ Then(t, <<>>) /\ UNCHANGED <<owner, pc, first, files>>

-----------------------------------------------------------------------------
Init == /\ owner = "none" /\ shutdown = FALSE
        /\ boxes = <<Fresh>> /\ cur = 1
        /\ pc   = [t \in Threads |-> IF t = "main" THEN "want" ELSE IF t \in Started THEN "test" ELSE "left"]
        /\ todo = [t \in Threads |-> IF t = "main" THEN Dispatch("kbInit") ELSE <<>>]
        /\ first = 0 /\ aborted = FALSE /\ lost = FALSE

Step(t) ==
    \/ Lock(t) \/ Unlock(t) \/ TrackBeg(t) \/ TrackEnd(t)
    \/ Type(t) \/ PutMouse(t) \/ SetXY(t) \/ NextFile(t) \/ Undo(t)
    \/ New(t) \/ Load(t) \/ OpenFile(t) \/ Save(t) \/ SaveAll(t)
    \/ Close(t) \/ Drop(t) \/ Exit(t) \/ CheckSave(t) \/ ExitCancelled(t) \/ Abort(t)

Main   == MainTest \/ MainDraw \/ MainLeave \/ Done \/ DoneRemoveAll \/ Step("main")
Timer  == TimerTick \/ Leave("timer") \/ Step("timer")
Mouse  == MouseWait \/ Leave("mouse") \/ Step("mouse")
Pipe   == PipeWait \/ Leave("pipe") \/ Step("pipe")
\* what comes from outside: keys, the mouse, messages
Outside == MainRead \/ MouseEvent \/ PipeMessage

\* the end of the process; until it comes the other threads still run
Over == pc["main"] = "over" /\ UNCHANGED vars

Next == Main \/ Timer \/ Mouse \/ Pipe \/ Outside \/ Over

\* every thread goes on while it can, and the user answers every dialog; keys,
\* mouse events and messages may fail to come
Spec == /\ Init /\ [][Next]_vars
        /\ WF_vars(Main) /\ WF_vars(Timer) /\ WF_vars(Mouse) /\ WF_vars(Pipe)
-----------------------------------------------------------------------------
Box == [name : Names \cup {Untitled}, saved : BOOLEAN, changed : BOOLEAN,
        tracks : BOOLEAN, head : SUBSET (Threads \X {"text", "flags", "cursor"}),
        undo : BOOLEAN, kept : SUBSET {"disk", "empty", "asked"}, unnoted : BOOLEAN]

Places == {"test", "draw", "read", "event", "message", "want", "in", "left",
           "wantlast", "inlast", "done", "wantall", "over"}

\* The shape of the state: a thread has steps to take only from the time it
\* asks for the mutex until it gives it back, and it holds it in between.
TypeOK ==
    /\ owner \in Threads \cup {"none"}
    /\ shutdown \in BOOLEAN /\ aborted \in BOOLEAN /\ lost \in BOOLEAN
    /\ boxes \in Seq(Box)
    /\ cur \in Nat /\ first \in Nat
    /\ pc \in [Threads -> Places]
    /\ todo \in [Threads -> Seq(Commands \cup Inner)]
    /\ \A t \in Threads :
          /\ Holds(t) => owner = t
          /\ owner = t => (Holds(t) \/ pc[t] = "over")
          /\ todo[t] # <<>> => (Holds(t) \/ pc[t] \in {"want", "wantlast"})

\* There is always a current file: current() is used unchecked (boxcoll.cpp).
CurrentExists == pc["main"] # "over" => cur \in DOMAIN boxes

\* A thread that gives the mutex back leaves no file tracking and no note
\* behind, whatever files its commands opened, closed or switched to.
NoneTracks == \A i \in DOMAIN boxes : ~boxes[i].tracks /\ boxes[i].head = {}
TrackingBalanced == owner = "none" => NoneTracks

\* One log never mixes the changes of two threads, so that one Undo takes back
\* what one key did (the mutex around track_beg and track_end).
LogsUnmixed ==
    \A i \in DOMAIN boxes : \A m, n \in boxes[i].head : m[1] = n[1]

\* Every change of a text is in its undo log, also in files that a macro
\* switches to or that are opened and closed around it (Dispatcher).
EveryChangeNoted == \A i \in DOMAIN boxes : ~boxes[i].unnoted

\* A file that says it is saved can be dropped without a loss: its text is on
\* disk, or it is a new file that is still empty (save, check_save).
SavedIsKept == \A i \in DOMAIN boxes : boxes[i].saved => boxes[i].kept # {}

\* "Exit - exit with acknowledgement for saving files" (docs/config.txt): only
\* Abort drops a text that is not saved and that the user was not asked about.
NothingLostUnasked == ~lost

\* No thread is at work on the files once Done has freed them.
NothingAfterRemoval == pc["main"] = "over" => \A t \in Threads \ {"main"} : ~Holds(t)

\* Once shutdown stays set the editor ends: no thread keeps the mutex from
\* main, although they all test shutdown without it (fed.cpp, boxcoll.cpp).
EditorEnds == <>[]shutdown => <>(pc["main"] = "over")
=============================================================================
