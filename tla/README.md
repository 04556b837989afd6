# A TLA+ model of FED, the FAST Editor Lite for OS/2

FED is a text-mode programmer's editor written in C++ (`source/`, `include/`; about
21 000 lines of its own, and a vendored PCRE). This directory holds TLA+ modules that
model its core, configurations that let TLC check them on small instances, and proofs
that TLAPS checks for every instance.

- `PROJECT.json` lists components, runs, mutants, hazards, findings and theorems, and maps every
  modelling definition to the source lines it stands for.
- Run a check with `tlc -config MCEdit.cfg MCBuffer`, a proof with `tlapm UndoLogProofs.tla`.

## 1. The system

### Components

| Component | State it keeps | Operations | What makes it correct |
|---|---|---|---|
| Line (`line.cpp`) | the characters of a line | insert, delete, split, extract, TAB columns; `gen_diff`, `apply_diff` | a difference applied to the new line gives the old one back; columns and characters agree |
| Collections (`collect.cpp`) | array of pointers, count, limit, delta | `Add`, `At`, `Remove`, `move_items`, `remove_items`; `SortedCollection::Add`, `Look` | order kept, no element lost or doubled, sorted order and lookup agree |
| Buffer (`buffer.cpp`) | lines, cursor, mark, flags, bookmarks, hiliting, word-wrap state | editing of characters, words, lines; marking; word wrap | cursor on a line; flags true; bookmarks stay with their text; wrapping keeps the words |
| Undo log (`bundo.cpp`) | `track_head`, `undobuff`, `undo_count` | `track_beg`, `track`, `track_end`, `track_cancel`, `undo` | undo restores text, cursor, mark and flags exactly |
| Cursor (`cursor.cpp`) | window origin and position in the window | motions, `goto_line`, `goto_col`, `put_mouse` | cursor stays in the text and in the window; each step is noted |
| Blocks and clipboard (`block.cpp`, `clipbrd.cpp`, `pmclip.cpp`) | mark and cursor, the clipboard buffer, the PM clipboard | indent, unindent, case, copy, cut, clear, paste | rows of the block exist; cut and paste are inverse |
| Search and replace (`bsearch.cpp`, `search.cpp`) | search strings, tables of skips, last match | search, replace with questions, replace-all | the first match is found; each match is asked for once |
| Sort, brackets (`sort.cpp`, `bracket.cpp`) | - | sort by column, match bracket | rows in order; matching is mutual |
| Completion (`idcoll.cpp`) | sorted identifiers, last match | collect, list, cycle | every candidate is offered once |
| Histories (`history.cpp`) | bounded list of strings, some fixed | `PutItem`, store and load | newest first, fixed ones stay, a restart keeps it |
| File window (`editbox.cpp`, `fio.cpp`, `cp_cvt.cpp`) | a buffer, its name and number; a block buffer; extended attributes | `load`, `save`, `save_as`, `put_xy`, `close`, `check_save`, `BlockWrite` | nothing is dropped that is not on disk; a file comes back as it was |
| Open files and threads (`boxcoll.cpp`, `fed.cpp`, `pipe.cpp`) | list of boxes, current and last one, mutex, `shutdown`, pipe | `open`, `close`, `select`, `next`, `prev`, `check_save`; main, timer, mouse and pipe threads | boxes touched under the mutex only, every command tracked, exit asks for every unsaved file |
| Dispatcher and recorder (`dispatch.cpp`, `keycoll.cpp`, `compile.cpp`, `fntable.cpp`) | key definitions as compiled programs, recording list | `Dispatcher`, `play_macro`, `SendKey`, recording, compiling and showing definitions | a key is one tracked command; a macro does what its text says; a recording replays what was done |
| Variables (`bindery.cpp`) | a sorted collection of names and values | set, get, delete, drop, settings of the editor | the last value is read back; permanent ones stay |
| Profiles and dictionary (`profile.cpp`, `dict.cpp`) | the profiles loaded; the keywords | two passes over each line; binary search | both passes agree; keywords are found |
| Hiliting (`parser.cpp`, `pars_*.cpp`, `line.cpp`) | tokens and start state of each row | nine scanners, `check_hiliting`, `GuessType` | tokens cover the line; the end state is the language's; start states are current |
| Dialogs (`dialog.cpp`, `editline.cpp`, `stddlg.cpp`) | controls, focus, chosen rows, histories | keys in dialogs, lists, edit lines, popups | one focus, chosen rows exist |
| Screen (`bdraw.cpp`, `vio.cpp`) | cells of the screen, the cells under each dialog | `draw`, `vio_save_box`, `vio_restore_box` | colours do not depend on scrolling; what is under a dialog comes back |
| Characters (`cvt.cpp`, `_ctype.cpp`) | case tables | numbers and texts, comparison without case | numbers are read back; tables agree |
| REXX (`rx.cpp`), launcher, PCRE | - | - | outside the model, see section 7 |

### How they interact

A key, a macro, a timer tick, a mouse event and a pipe message all end in methods of the
current `EditBox`, called under one recursive mutex (`EditBoxCollection::lock`). The
dispatcher brackets a command with `track_beg` and `track_end`; in between, every method of
Buffer that changes something first calls `track`, which puts a note of how to take the
change back at the head of `track_head`. `track_end` moves the notes as one log to
`undobuff`. `undo` takes the newest log and reverts its notes in order. So the correctness
of undo depends on every method of `buffer.cpp`, `block.cpp`, `clipbrd.cpp` and
`cursor.cpp` noting its changes completely and in the right order - that is the
behaviour this project starts from.

### What is hard here

- long sequences of commands: a change that is not noted shows only when an older one is undone;
- state relations across commands: mark and rows, saved flag and disk, bookmarks and lines;
- blocks and cursors beyond the end of a line, the first and the last row, runs of a
  difference at their maximal count;
- nested dispatching: a command that calls the dispatcher ends the tracking of its caller;
- four threads, one mutex, a shutdown that closes the mutex under the waiting threads;
- failing saves, boxes removed from the middle of a list that is addressed by index;
- two passes or two functions that must count alike: profile values, compiled macros, columns with TABs, skips of the
  search, cells under a dialog;
- state computed once and kept: start states of rows, bookmarks, chosen rows of lists, the last word offered.

The full list, line by line, is `hazards` in `PROJECT.json`.

## 2. Modules

| Module | Models | Kind |
|---|---|---|
| `Line` | `line.cpp`: editing of one line, `gen_diff`, `apply_diff` | operators |
| `Folding` | induction over numbers and sequences, with sets in place of predicates | proofs |
| `LineProofs` | the theorem that `apply_diff` undoes `gen_diff`, over `Folding` | proofs |
| `Buffer` | one buffer and its commands: `buffer.cpp`, `cursor.cpp`, `block.cpp`, `clipbrd.cpp`, `bundo.cpp`, `save` | state machine, a command is a step |
| `MethodProofs` | what each method of `Buffer` does to text, cursor and log, over `LineProofs` | proofs |
| `BlockProofs` | what cut and paste do to rows and columns, over `MethodProofs` | proofs |
| `BufferProofs` | word wrap, the commands and undo; the theorems about `MCBuffer`, over `BlockProofs` | proofs |
| `History` | what undo promises | abstract specification |
| `UndoLog` | `bundo.cpp` note by note: tracking and undoing of any changes | state machine, a note is a step |
| `UndoLogProofs` | theorems about `UndoLog` | proofs |
| `Editor` | the threads, the mutex, the dispatcher and the list of open files: `boxcoll.cpp`, `dispatch.cpp`, `fed.cpp`, the commands on files of `bcommand.cpp`, `save` and `check_save` of `editbox.cpp` | state machine, a call under the mutex is a step |
| `EditorProofs` | theorems about `Editor`: its threads and files, what it saves and drops, that Exit loses nothing unasked, that every change is in its undo log | proofs |
| `Wrapping` | word wrap of `buffer.cpp` (`ww_need`, `ww_perform`), on the buffer of `Buffer` | operators and an action |
| `Scanners` | the parsers `pars_*.cpp` and `parser.cpp`: from a line and its start state to tokens and an end state | operators |
| `Drawing` | `bdraw.cpp`: the cells of a row | operators, extends `Scanners` |
| `Brackets` | `bracket.cpp` | operators, extends `Scanners` |
| `Rows` | rows with start states and a bookmark, edited and undone: `buffer.cpp`, `bundo.cpp` | operations on a record |
| `TabLine` | `line.cpp` with TABs | operators |
| `Characters` | `cvt.cpp`, `_ctype.cpp` | operators |
| `Searching` | `search.cpp`, `bsearch.cpp`, the search loop of `boxcoll.cpp`, `sort.cpp` | operators |
| `Files` | `load`, `save` and `put_xy` of `editbox.cpp`, `fio.cpp`, `cp_cvt.cpp`, `GuessType` | operators |
| `Profile` | `profile.cpp` | operators |
| `Macros` | `compile.cpp`, `fntable.cpp`, the recorder of `dispatch.cpp` | operations on a record |
| `Collections` | `collect.cpp`, `idcoll.cpp`, `dict.cpp` | operators |
| `Variables` | `bindery.cpp`, `keycoll.cpp`, over `Collections` | operations on a record |
| `Screen` | boxes on the screen: `vio.cpp`, `dialog.cpp` | operations on a record |
| `Controls` | list box, menu, edit line: `dialog.cpp`, `editline.cpp` | operators |
| `Dialogs` | a user of the dialogs: `stddlg.cpp`, `history.cpp`, over `Controls` | state machine, a key is a step |
| `DialogProofs` | theorems about `MCDialogs`: histories and dialogs | proofs |
| `MCBuffer`, `MCUndoLog`, `MCEditor`, `MCTexts`, `MCDialogs` | instances and properties for TLC | model checking |

`Buffer` and `UndoLog` model the same log at two grains. `Buffer` has the real commands of
the key table, each the composition of the methods it calls, with the notes each of them
makes in the order it makes them; here TLC finds a command that forgets a note. `UndoLog` has the
discipline that is common to all of them - a primitive change and its note - and
no command in particular; here it is proved that the discipline suffices, whatever
the texts, the commands and the length of the list. Both implement `History`.

### State of Buffer

`buf` is one record: `lines`, the cursor `row` and `col` (`abs_row()`, `abs_col()`: the origin of the
window is folded into them), the mark `mrow` and `mcol` (`old_abs_row`, `old_abs_col`), `flags`
(the bits of `flags` by name), `track` (`track_head`), `undo` (`undobuff`) and `trap`, which
becomes TRUE when the code would use the null pointer that `line()` gives for
a row that does not exist; after it nothing happens. `clip` is the clipboard, `disk` the file as
the last load or save left it. Every command is an action; its methods are operators from buffer to
buffer that carry the name of the method. A command is atomic: the dispatcher and the
mouse thread hold the mutex around it.

Abstractions: no TABs in the text, so a column is an index; the part of a line that copy takes is filled up as `Line(...)` does
it, which at a TAB stop puts TABs and counts from the end of the line (`Extract`, `Fill`); with `PMClipboard` a block goes through
the clipboard of Presentation Manager, which forgets its kind (`ThroughPM`). The delimiters are a set; the upper case of one
letter stands for the conversion of all; completion is left out, hiliting and bookmarks are in `Rows`, TABs in `TabLine`;
`editor.cursor.follow.tabs`, smart indent and unindent of brackets are off. `Wrapping` adds word wrap: the action
`TypeWrap` types into a buffer that wraps, and its notes are part of the log that undo reverts.

### State of Editor

`Editor` takes from a file only what the threads and the questions before closing depend on: its `name`, whether it
is `saved` and `changed`, whether it `tracks` and which notes are in its `head`, whether there is anything to
`undo`. The text is not there: that a tracked command is undone exactly is what
`Buffer` and `UndoLog` show, and `Editor` shows that the threads and nested dispatching use tracking as those two assume.
`kept` and `unnoted` are histories for the properties: why a text may be
dropped without a question, and whether a change is missing in the log.

`owner` is the thread that holds the mutex. `pc` says where a thread is: outside (`test`, `read`, `event`, `message`...), waiting
for the mutex (`want`), or under it (`in`), where it takes the steps in `todo` one by one. `Dispatcher` is the
sequence `track_beg`, macro, `track_end`; a command that calls `SendKey` (New, OpenFile, Close) puts the
steps of that Dispatcher before what is left of its caller's, which is how tracking ends early in the code
too. The mutex is recursive, so locks inside a Dispatcher take nothing and are left out. Between two locks the threads
look at `shutdown` unprotected, where the code does: the pipe thread tests it before `lock` and not after it, `Done`
sets it before it waits for the mutex and keeps the mutex for good.

A dialog is an answer of the user; a file may fail to open for a save. Repeated keys (`Reps`) are dispatched under one lock,
so that Exit can be asked twice. The key tables have New, Load and Close as the last command of a macro
and Undo alone: what comes after them in a macro is not tracked any more (see the hazards at `dispatch.cpp`). Undo itself has no
such guard in the model: with a table where it follows an unnoted change, the changed flag comes back off as in the code.
One test of `shutdown` by the timer leads to one lock; the code may send kbActivate and kbTimer under two locks after the same test.

In `Editor`, bounds: `MaxBoxes` open files (`RoomFor` refuses a key or message that could open more), `Reps`, the macros and messages.

### The parts that compute

Most of the editor's other code takes an input and gives a result: a line to tokens, a pattern to a match, a profile to
variables, a key definition to a program. These are operators or recursive functions, and `MCTexts` checks all of them in one
run: its state is the kind of an input (`lang`), the state it starts in and the input (`text`), which `Type` makes longer by one
character or operation. Each property holds of every input of its kind, so each is compared with a definition that is
written in another way than the code: a grammar instead of a scanner, the set of places instead of tables of skips, a sorted
sequence of distinct words instead of an array with a binary search, the line without TABs instead of walks over columns.

Where the code keeps state between operations - rows with their start states and bookmark (`Rows`), variables and keys
(`Variables`), dialogs on the screen (`Screen`), keys pressed while a macro is recorded (`Macros`) - the input is a sequence of
operations and the model a record that `Performed` or `Done` folds them over, one operator per function of the code.

Data is abstracted to what those definitions tell apart: a name of a command is one element, the letters are a few that the
scanners treat differently, a character code is one of five with its place on each code page, a value of a variable
is a number or no number, `REXX` stands for an embedded program. Width matters where the code overflows: the numbers of `Characters`
are modulo 2^Bits.

### Dialogs

`Dialogs` is a state machine: `hist` are the histories, `dlg` the dialog that is open with its controls (`Controls`), `pop` the
popup over a history, `asked` the answers, `cwd` the directory of the file dialog. Each key is a step and does what
`Dialog::do_key` and the control in focus do. Leaving the editor (`Exit`) stores the histories and loads them again, entry for
entry. When the code would use a null pointer (the popup of an empty history), the dialog is `Trapped`.

## 3. Runs

| Run | Instance | Properties | Size |
|---|---|---|---|
| `edit` | texts of up to 3 lines of 3 characters with blanks; typing with and without word wrap, Enter, deletions of characters and words, Save, Undo; 3 logs | SavedIsOnDisk, WrapKeepsWords, ImplementsHistory | 41,689 |
| `block` | 3 lines of different length, columns to 4, TAB stops every 2; marks, copy, cut, paste through the PM clipboard, column and stream; 3 logs | CutPasteRoundTrip, ImplementsHistory | 73,086 |
| `rewrite` | the same text; a block under the mouse; indent, unindent, upper, typing, Backspace, Del, deletions and copies of lines; 2 logs | ImplementsHistory | 25,312 |
| `cursor` | 4 lines, one empty, one of delimiters; all motions, jumps, mouse, mode switches, word deletions; 2 logs | CursorInText | 30,396 |
| `undo_log` | 2 lines with a run longer than the maximal count of 1; up to 2 notes per command, 2 logs | LogsConnect, UndoIsExact | 756,246 |
| `threads` | all threads, one file; keys pressed once or twice, autosave by the timer, the pipe's messages | TypeOK, LogsUnmixed, NothingLostUnasked, NothingAfterRemoval, EditorEnds | 124,211 |
| `files` | main and pipe, two files; open, close, switch, type, save, undo, exit; a macro before closing | CurrentExists, TrackingBalanced, EveryChangeNoted, SavedIsKept | 384,747 |
| `texts` | inputs of 20 kinds, up to 4 characters or operations (3 for variables and dialogs on the screen, 5 for files and keys to sort) | 19, see below | 297,793 |
| `dialogs` | search and file dialogs, menu; two fields with histories of at most 2 entries, two directories, a typed drive | SurvivesExit, DialogIsSound, FixedStays | 1,251,067 |
| `stale_mark` | mark, up, delete line | BlockCanBeCleared (violated) | |
| `exit_race` | Exit, and a message of the pipe that types | NothingLostUnasked (violated) | |
| `save_all` | two untitled files, SaveAll | SavedIsKept (violated) | |

What the properties say:

- **ImplementsHistory** (and **UndoIsExact**): the buffer implements `History`. The document - lines,
  cursor, mark and all noted flags - is what the last command left, each
  command is one entry of the past, and undo visits the past exactly. In `MCBuffer` the past is
  computed by undoing (`HistoryOf`), so the property says in every state what *all* further undos give.
- **CursorInText**: the cursor is on an existing row and no command used a row that is not there.
- **SavedIsOnDisk**: a buffer that would be closed without a question equals its file,
  also when commands were undone past a save.
- **CutPasteRoundTrip**: for every mark and cursor reached, cutting and pasting in place
  gives the text that would be written back (trailing blanks do not count, pasting pads), if paste takes the block for the
  kind it was cut as. Through the PM clipboard it does not always: with `editor.block.ins_mode` off, as it is by default,
  a stream whose rows happen to be equally long is pasted as columns, and columns of no width or, at a TAB stop, with parts filled
  to unlike lengths are pasted as a stream. Such blocks are reached in the run and left out by the hypothesis.
- **WrapKeepsWords**: typing with word wrap, in every text the run reaches and with every combination of its options, gives the
  words that typing without it gives, and the cursor is behind the same character.
- **LogsConnect**: each log is a chain of notes, each sound on the text it was made on, from the
  text it starts at to the one its command found.
- **LogsUnmixed**: the notes in one `track_head` come from one thread, so one undo takes back what one key did.
- **TrackingBalanced**: a thread that gives the mutex back leaves no file tracking and no note behind, whatever its
  commands opened, closed or switched to, nested dispatching included.
- **EveryChangeNoted**: every change of a text is in its log, also in the file a macro switches to.
- **SavedIsKept**: a file that says it is saved is on disk under its name, or is new and empty.
- **NothingLostUnasked**: only Abort drops a text that is not on disk and that the user was not asked about.
- **CurrentExists**, **NothingAfterRemoval**: `current()` is used unchecked and always finds a file; no thread is at work under
  the mutex once `Done` has freed the files.
- **EditorEnds**: if `shutdown` stays set, the process ends. (It need not stay set: Exit twice and Cancel on the second
  resets it, and the editor goes on.)

In `dialogs`:

- **SurvivesExit**: storing and loading a history gives it back, order and fixed marks included: it is replayed through
  `PutItem`, newest last.
- **FixedStays**: a fixed entry stays in its history and stays fixed, whatever is entered, moved, deleted or stored and
  loaded; only Ins on that very entry in the popup unfixes it.
- **DialogIsSound**: one control has the focus, a list shows a row it has, and the popup shows its history's entries and marks
  while they are deleted and fixed through it.

In `texts`:

- **TokensTileTheLine**, **EndStateIsTheGrammars**: tokens cover the line and end with it; the state at its end is the one
  the quotes, comments and escapes of the language leave open (C++, REXX, Pascal, assembler).
- **ScrollingKeepsColours**, **BlockIsShown**: a scrolled window shows each cell in the colour it has unscrolled, and exactly the
  cells that copy would take as marked.
- **MatchIsMutual**: the match of the match of a bracket is the bracket.
- **TabsKeepColumns**: printing, parts, words, blanks, indentation of a line with TABs are those of the expanded line.
- **FilesComeBack**: a file saved and loaded has the rows, line ends, place, bookmarks, code page and hiliting it had, and what
  is typed is seen on every code page that has the letter.
- **MacrosReplay**: a program shown as text compiles to itself and counts its own length; a recorded macro does what was done.
- **CasesAgree**: comparison without case and the classes of letters agree on every code page whose capitals come first.
- **SearchFindsFirst**, **RepliesAreObeyed**: each engine finds the first match; replacing asks once for every
  match, forward and backward and over rows, and changes those that were answered Yes.
- **SortOrders**: the rows of a column block are sorted and are the same rows.
- **StartStatesCurrent**, **BookmarksFollow**: after any edits and undos the start state of each row is that of the rows above it,
  and a bookmark is on the line it was placed on.
- **ProfileReads**: the two passes over a value agree; a line that is closed does what it does whatever follows; a file included twice
  is read once.
- **CompletionOffersAll**: the sorted array keeps order and uniqueness when it grows; completion lists and cycles through exactly
  the words with the typed beginning.
- **KeywordsFound**: the dictionary finds every keyword, with case and, with the exceptions below, without.
- **VariablesAreKept**: variables, settings, keys and bookmarks read what was set last, whatever else was set, deleted and
  dropped; permanent ones stay; integers are read back from their texts.
- **ScreenComesBack**: dialogs closed in order leave the screen as it was.

Each of these properties names in its comment the inputs it leaves out because the code does not keep it there; they are listed
in section 4.

The bounds suffice for what the properties are about: a note can be wrong only with respect to the notes of its own
command and the cursor left by the commands after it, which two or three logs
show; blocks need three rows for a head, a middle and a tail; words need a word,
a delimiter, blanks and a line end on both sides. Texts and columns have at most 4 rows and 4 columns. With a
TAB stop every 2 columns, blocks start at a stop and between stops, before and behind the end of a line by more and by less than a TAB.
`SavedCols` are the columns in which the cursor starts, because `load` restores the cursor from the
extended attribute `.FEDSTATE`. The Buffer runs allow the system to stop: at the
bounds no command is enabled.

For the threads, one file and a key that is repeated once give every order of two locks, the shutdown and the end; two
files are the smallest list in which a file that is not current can be left tracking, closed or overwritten.

For `texts`, a scanner decides on at most three characters at a time (`<!-`, `(*`, an escape and what follows it), and the states a
line can start in are given (`Starts`), so four characters show each sign inside and behind each other one; three operations on variables, rows
or dialogs show one disturbing two others. `Delta`, by which arrays grow, is 1 there, so growth happens all the time. `Height` and `Width` of the screen
are 5 and 6 cells, and dialogs lie inside, over each other and over the right edge. The histories of `dialogs` hold 2 entries, which the third pushes out.

Fairness is assumed in `threads` only, for EditorEnds: each thread weakly fair in its own steps, its dialogs
answered. Keys, mouse events and messages get none, the user may never come back. The
mutex needs no more: a thread that sees `shutdown` leaves its loop, so each other thread
takes the mutex at most once more (the timer of the code: twice) before main has it for itself. All other properties are safety properties.

The runs of `Editor` check for deadlock: a state in which every thread waits for another one would stop the run. Waiting for
a key is a step of `Outside`, and `Over` is the end of the process.

Each property of a passing run has a mutant: an operator marked "a mistake" next to the definition it
would replace, which TLC shows to violate the property.

## 4. Findings

- `stale_mark`: `del_line` does not adjust the mark. When the rows below the
  mark shrink, Del, Cut, typing or Indent reach for a row that does not exist. `config.txt:417`
  promises that Del clears a marked block.
- `exit_race`: main gives the mutex back between the last answer to Exit and `Done`; a message of the
  pipe that waits in between changes a file after the question, and `Done` drops it. `config.txt:427` promises
  exit "with acknowledgement for saving files".
- `save_all`: SaveAll asks for no names, so all untitled files are written to the same `.Untitled`, one over the
  other, and all of them are marked as saved. `config.txt:472`: "save all opened files".

The passing runs keep away from these: they do not combine marks with DelLine, bind nothing that types to the pipe or the timer, and do not
combine SaveAll with more than one file or give a file the name of another open one.

Other disagreements met while modelling, which no run of their own shows; the properties name them where they leave them out:

- Undo: the unindenting of keywords (`buffer.cpp:269`) edits the line without noting it (the option is off in the runs; `readme.txt:17` promises full
  undo); `is_cursor_only` is never true for a motion command, since each of them calls `unmark`, which notes the flags, so the option
  of `history.txt:60-61` has no effect; FlipType leaves the saved flag on; undo restores the changed flag but not a
  change that no log has, so after a macro <Undo, Type> and another undo an untitled text is replaced by the next open without a question
  (`bundo.cpp:168`, `boxcoll.cpp:741`).
- Rows: the copy of a row (`dup_line`), sorting and completion leave start states behind; a merge and a row put in right before a
  bookmark move it to another line, and so does undoing a deletion (`bundo.cpp:205`).
- Word wrap with the paragraph flag and auto indent breaks rows of blanks for ever (`buffer.cpp:179`).
- Lines: a part taken past the end of a line is padded from the line's own end and, at a TAB stop, with TABs that are counted
  from there (`line.cpp:125`), so it is not as wide as asked for; `Extract` and `SubLine` do the same.
- Scanners: the makefile scanner reads past a line that ends in a backslash inside quotes.
- Search: a regular expression that matches no character makes the loop over a row endless (`bsearch.cpp:135`).
- Completion: the way back to the first candidate ends at place 0 without looking at it (`idcoll.cpp:53`).
- Keywords are sorted with case and searched without for REXX, Pascal and assembler: `abs` and `absolute` are never found (`parser.cpp:271`, `parser.cpp:322`).
- Profiles: `\x` without a hexadecimal digit swallows the next character, a trailing backslash or a word at the end of the
  text is read past it, a file that includes itself is included again (`profile.cpp:100` adds the name after loading).
- Macros: `\x` is written but not counted (`compile.cpp:115`), a backslash is not escaped when a program is shown (322), the text of a REXX program is
  shown with a blank behind it (262), the key that starts a recording is recorded (`dispatch.cpp:48`).
- Files: text after a NUL is dropped; the sign of the end of file comes back as a character of the last row; with it, an empty last row is lost.
- Variables: `dropVar` does not end at a permanent variable with the prefix (`bindery.cpp:862`).
- Dialogs: the popup over an empty history uses null pointers (`stddlg.cpp:85`, `dialog.cpp:420`); `set_text` of an edit line keeps an older mark.
- Screen: `vio_save_box` keeps one row below the dialog and does not cut it at the bottom (`vio.cpp:536`).
- Characters: a code page with a capital behind its small letter gives tables that disagree (`_ctype.cpp:71`).
- Threads: the timer ends for good when a second Exit is cancelled (`fed.cpp:172`; `faq.txt:27` knows of it).

## 5. Proofs

`UndoLogProofs` proves, for all values of the constants:

- `TypesAreCorrect`: `Spec => []TypeOK`;
- `LogsAlwaysConnect`: `Spec => [](TypeOK /\ LogsConnect)`;
- `UndoAlwaysExact`: `Spec => UndoIsExact`, that is, UndoLog implements History.

The invariant `LogsConnect` is what makes undo exact and is inductive together with `TypeOK`. A log is a *chain*: its
first note was made on the present text, its last on the text the command found, neighbours meet in a common text, and
reverting a note on the text after it gives the text before it (`Sound`). The argument:

1. `CursorIsSound`, `FlagsAreSound`, `LineEditsAreSound`, `RowEditsAreSound`: the note of every primitive is sound.
   The row edits rest on `RemovedInserted` and `InsertedRemoved`, that taking rows out and putting them in are inverse.
2. `ChainPush`, `ChainPop`: a sound note extends a chain at its head, reverting the head shortens it.
3. `PrimitiveExtends`, `LogsPush`, `LogsPop`, `ConnectionIsKept`: every action keeps the chains connected.
4. `StepsOfHistory`: every step is a step of History or a stutter; reverting a
   single note is a stutter, since the document already counts as undone when undo begins.

Assumptions: `UndoLogAssumption` (the flag MarkState exists, bounds are naturals), `LinesAssumption` (a line is a row of characters, and the
one that ends a C string is not among them) and `MaxCntAssumption`. That `apply_diff` inverts `gen_diff` is no assumption but a theorem:

- `DiffIsExact` (`LineProofs`): for any two lines, the difference of the new one to the old one, applied to the new one, is the old one.

`gen_diff` is a walk over both lines, `apply_diff` a walk over the difference, and both are folds. An induction theorem that takes a
predicate as a parameter is of no use to the provers, so `Folding` states induction with a set instead: `NatIsIn` and `SeqIsIn` (a set of
numbers, or of sequences, that contains the first and is closed under the next contains all), `FoldTrace` and `FoldIsIn` (a fold visits only
members of a set its step is closed in). The invariant of the walk in `gen_diff` is that the runs written so far, applied to what was read of the
new line, give what was read of the old one.

`doc`, `snaps` and the fields `pre` and `post` of a note are auxiliary: they record texts for the
invariant and the refinement and no guard reads them.

`EditorProofs` proves five properties of `Editor` as `Spec => []P`, for every key table (so for macros of any length that open, close, switch
and exit in any order), any set of threads, names and messages, and any number of files:

- `EditorTypes`: `TypeOK`, which includes mutual exclusion: a thread at work under the mutex owns it;
- `CurrentAlwaysExists`: `CurrentExists`;
- `TrackingAlwaysBalanced`: `TrackingBalanced`;
- `LogsNeverMixed`: `LogsUnmixed`;
- `NothingEverAfterRemoval`: `NothingAfterRemoval`.

They follow from one inductive invariant, `IInv`. None of the five is inductive alone: that tracking
is balanced when the mutex is given back depends on what the thread has still to do. The invariant adds:

- `Orders`: what a thread waits to do, or is doing, ends in `track_end`, or is one of the two messages of the pipe
  that run without a Dispatcher;
- `Tracking`: while any file tracks, the owner has a `track_end` before it, so nested dispatching may end
  tracking early but not leave it on;
- `Owned`: all notes being written are of the owner;
- `Asking`: the questions of Exit come before anything else the thread has to do, and the file they began with
  still exists, so that Cancel selects a file that is there.

The argument: `InFront`, `TailEnds` and `RepeatedEnds` say how the end of a sequence of steps survives calls, returns and repeated keys;
`EditsFollow`, `EndsClean` and `AllFollow` with its lemmas (`OneChanged`, `SavedFollow`, `Appended`, `Removed`)
what commands do to a file and to the list; `WorkKeepsInvariant` puts both together for any step under
the mutex and `OutsideKeeps` does so for any step without it, and one lemma for each group of actions cites them.

The only assumption is `EditorAssumption`, the types of the constants.

The second part of `EditorProofs` proves for every key table without SaveAll and a user that gives no file the name of another open one
(`Careful`; the run `save_all` shows why the first is needed):

- `SavedAlwaysKept`: `Spec => []SavedIsKept`.

The invariant `KInv` says of each file that its flags are right about its text (`Droppable`): a saved one is on disk or empty, and an
untitled, unchanged one is empty if all its changes were noted. It holds only while no two files
with a name have the same one (`Apart`), which holds only while no thread comes to save all untitled files (`NoSaveAll`).
`EditsReplace` and `TracksReplace` show it for what a command does to a file, `OneKept`, `SavedKept`, `AppendedKept` and `RemovedKept` for
the list, one lemma for each group of actions puts them together, with `IInv` for the current file to exist.

The third part proves that undo misses nothing:

- `ChangesAlwaysNoted`: `Spec => []EveryChangeNoted`, for tables that are `Tidy`: after a command that ends or cancels tracking (New,
  Load, Close, Undo) a macro changes no text, and it does not undo after a change.

These are the conditions under which a file tracks when it is changed, and the hazards at `dispatch.cpp` and `bundo.cpp` are what
happens without them. The invariant `NInv`: what a thread has to do is tidy (`Wary`); if the next change comes before the next
`track_beg`, the thread holds the mutex and all files track (`TracksToType`); if a change is noted in a log that
is being written, tracking ends before any undo (`EndsToUndo`). `CallsKeepOrder` is the lemma about nesting:
what a command calls is put in front of the rest, and tidiness survives; `WorkNotes` uses it for every step under the mutex, `OutsideNotes` and
`LockNotes` for the others. The macro of `kbClose` is inside: it may change the text, as in the run `files`, because its own
Dispatcher begins tracking again.

From both follows that no text is dropped without a question:

- `NothingLostWhileRunning`: for tables that are `Careful` and `Tidy`, until `Done` removes the files no text was dropped that the
  user was not asked about;
- `ExitAsksForAll`: `Spec => []NothingLostUnasked`, for tables that are `Careful`, `Tidy` and `Discreet`: only keys change
  texts and exit - no macro of the timer, the pipe, opening or closing a file - and a macro that changes a text after Exit exits again after that.

`Tidy` is needed: opening a file replaces an untitled, unchanged one unasked, and undo turns the changed flag off by the
flags in its log although a change that no log has is still in the text. In a tidy table no change is unnoted (`NInv`), and then
`Droppable` says that such a text is empty.

The run `exit_race` is a table that breaks the first condition and loses a text; typing after Exit in the same macro
would be lost as well, since the questions are over. The invariant `EInv` follows the questions of Exit: every
file that `check_save` has come by since the one it began with may be dropped (`Walk`, `Visited`); once `shutdown` is set all may be
dropped, or main still has an Exit before it (`Settled`); what the other threads do changes no text (`Others`), and what main does after its
loop neither (`Leaving`). `Fronted` says how Exit stays behind each change when steps are taken and put in front of others;
`MildlyKeeps` that naming, writing, opening and closing of files disturb nothing; `NextVisited` and `AsksNext` are the walk around the
list; `RemovalLosesNone` is its end in `Done`.

The conditions are properties of the key table that can be read off it. The table of the run `files` is `Careful` and
`Tidy`, and `Discreet` when its macro of `kbClose` is taken away; that of `threads` is `Tidy`, and saves everything from the timer,
which is safe there because there is one file only.

`BufferProofs`, over `MethodProofs`, proves that the commands of the key table keep the discipline that `UndoLog` shows to suffice,
for every text, key table, width, limit and setting except the ones named:

- `BufferInvariant`: `MCSpec => []BInv`, if `UnindentKeywords` is off;
- `UndoIsExact`: `MCSpec => ImplementsHistory`, if also `CompressMoves` is off;
- `CursorStays`: `MCSpec => []CursorInText`, if `UnindentKeywords` is off and the key table is `Calm`;
- `SavedStays`: `MCSpec => []SavedIsOnDisk`, if `UnindentKeywords` is off and FlipType is not bound (`Settled`);
- `BlocksReturn`: `MCSpec => []CutPasteRoundTrip`, if `UnindentKeywords` is off and the key table is `Calm`; whatever the TAB width
  and through either clipboard, for the blocks that paste takes for the kind they were cut as.

The argument compares buffers by what undo can tell apart: `Alike(x, y)`, the same text, cursor, mark (if there is one) and flags except
Tracking and Saved. A log *leads* from `c` back to `b` (`Leads`) when reverting it on anything that looks like `c`
gives something that looks like `b`. The relation everything rests on is `Noted(b, c)`: the notes that `c` has more than `b` lead from
`c` back to `b`. It is reflexive and transitive (`NotedOn`, by `LeadsOn`: logs lead on one after the other), and one note is enough for it
(`OneNote`). From there:

1. The primitives that note and change - `SetRowNoted`, `SetColNoted`, `FlagNoted`, `MarkNoted`, `UnmarkNoted`, `RestoreNoted`, `InsNoted`,
   `DelNoted`, `UpdateNoted` - are `Noted`. The one that edits a row rests on `DiffIsExact`.
2. Each method is a composition of them: it `Makes` (text changed and noted), `Turns` (a mark may come), `Goes` (only the cursor moves) or
   `Edits` (the cursor stays) - one lemma for each method of `cursor.cpp`, `buffer.cpp`, `block.cpp`, `clipbrd.cpp` and for `ww_perform`.
3. Where the code changes a row whose note is made only later - pasting splits a row and notes its end when the rest is in - `Twins`, two buffers
   that differ in this one row, take the same insertions, and the late note takes back both.
4. `CommandsDo`: whatever command is pressed, what happens between `track_beg` and `track_end` is such a composition (`Performs`).
5. `track_end` pushes the log, or drops it when there is nothing to undo; undo reverts it. A buffer *has a past* `h` (`Past`) when it looks like
   `h[0]` and its k-th log leads from `h[k - 1]` to `h[k]`. A command either keeps the past or puts its text in front (`Later`), undo
   takes the first off (`Earlier`), and what `MCBuffer` computes by undoing is the past (`HistoryIs`).

6. The flag Saved is not part of `Alike`: undo takes it from the notes it reverts, whatever the text. A log *is clean* (`Clean`) when reverting it turns
   the flag on only if it was on, and *forgets* (`Forgotten`) when it leaves the flag off. `set_changed` notes at the first change that the flag goes
   off, so every method leaves the text as the file has it (`Same`) or makes a clean log forget and the flag go off (`Dirties`): this is `Owns`, and it composes.
   Two neighbours in the past are therefore the same in the file, or the log between them forgets (`Safes`). Undo that ends with a saved buffer
   was saved before it, and has gone only through texts that are the same in the file.

`BInv` is that there is such a past, that the row of the cursor exists, no log is open between commands, the clipboard holds rows, and a buffer that
says it is saved is on disk. It is stronger than the properties, because these only speak of the next undo or of the present row: the row is in the text *after* an undo only because the
log leads to a text the cursor was in.

The conditions are where the code does otherwise. Keyword unindent changes a row without a note (`buffer.cpp:269`). With `CompressMoves` one undo takes back a series of
logs, so a step is several of History's; `BufferInvariant`, `CursorStays`, `SavedStays` and `BlocksReturn` hold there, too. FlipType changes how the file is to be
written and leaves the flag on (`bcommand.cpp:658`). `Calm`: DelLine leaves a stale mark (the run `stale_mark`), so it is
not bound together with marks, and typing with `WW_LONG` may break rows for ever, so no wrapping with it is bound.

`BlocksReturn` needs little of the invariant - the cursor is in the text, no line was used that is not there - and much of what the methods do to each row,
which is `BlockProofs`:

1. *One row.* `PadIs`, `InsertedIs`, `DeletedIs` and `ExtractIs` say for each column what the operators of `Line` and `Extract` leave there, past the end of the row
included: what a part is filled up with is blank, however many there are.
   From these: the columns taken out and put in again give a row that is the old one with blanks behind it (`ColumnRow`), and so does the first row of a stream,
   which is split where the last row was joined to it (`FirstRow`); the last row comes back as it was (`LastRow`). `PaddedTrims`: what `save` writes of such a row
   is the same.
2. *The methods.* `Now(b, c, ls, row, col)` says that `c` is what became of `b`, with rows `ls`, the cursor at `row` and `col`, and the
   flag of column blocks as it was. It composes (`NowOn`), with one lemma for each method (`RestoreNow`, `InsNow`, `MergeNow`, `DelCharNow`, `DropRowsNow`, ...).
3. *Cut.* `ClearedStream` and `ClearedColumns`: a gap in the rows with the ends joined (`IsGap`), or the columns gone from each row
   (`IsRewritten`); the cursor is at the corner of the block.
4. *Paste.* `PastedRows` and `PastedStream` follow the loops of `paste` by induction over the rows put in (`IsOverlaid`, `IsFed`).
5. `ColumnsReturn` and `StreamReturns` compare the rows after both with those before, row by row; `RoundTrip` chooses between them as the code does: a block within one row and a column block
   are pasted as columns, the others as a stream - and by the hypothesis `paste` chooses what `cut` chose.

`DialogProofs` proves the three properties of `MCDialogs`, for every set of fields, tree of directories, menu, limit of entries, height of
a popup, set of letters and length of a text, and for histories that hold anything that `PutItem` may have made of them when the editor starts:

- `DialogInvariant`: `Spec => []DInv`;
- `HistoriesSurvive`: `Spec => []SurvivesExit`;
- `FixedStay`: `Spec => FixedStays`;
- `DialogsAreSound`: `Spec => []DialogIsSound`.

`DInv` says that each history is `Kept` - its entries are not empty, no two have the same text, there are at most `MaxHistory` -, that the dialog is
`Sound` - each control is of the kind its place asks for, and exactly the current one is active - and that the list of a popup `Mirrors` the history
of the line it lies over. None of the properties is inductive without it: a history with the same text twice does not come back, a key
moves the highlight of a list to an item only if there was one before, and Del in the popup takes the entry that is highlighted. The argument:

1. `HistoryComesBack`: reading is a fold over what was written, in which the entry read last is in front; because the texts
   differ and there is room, none takes out another, and the mark is put on the entry just read. (`Load`, `Fix`, `LoadFold`)
2. `PutItem` and the two keys of the popup keep `Kept` and the marks of the fixed entries, one lemma for each: the entry put in is moved to the
   front with its mark (`FixedFront`, `FixedMove`), what is pushed out is not fixed.
3. `Kin(x, y)`: the same items, but for flags, the highlight on an item and flagged. `PrevIs` and `NextIs` show it for a row up or down, `RowsUp`,
   `RowsDown` for pages by induction over the rows, `ListKeyIs` for every key and what is typed ahead. `DelItemIs` is the one that changes the items.
4. Each of the three dialogs is opened sound, `NextControl` and `PrevControl` find another control that can have the focus, and keys leave each control in
   its place. One lemma for each action puts these together (`Kept1`).

Assumptions: `FieldsAssumption` (there is a field to search for, "file" is the list of the other dialog), `TreeAssumption` (a list of files ends with the
drives, one at least), `MenuAssumption` (a menu has items), `HistoriesAssumption` (as above), and that of `Line`.

Model-checked only:

- `WrapKeepsWords` of `Buffer`: the words are a fold over the characters of all rows, and that it does not see where rows are broken and joined
  needs an induction over them for each method that wrapping is made of;
- EditorEnds, which is liveness under fairness;
- all properties of `texts`, most of whose operators are defined by recursion over their input: what they compute for every input needs
  induction over data. For those that are folds, `Folding` is the way, as in `LineProofs` and `DialogProofs`.

## 6. Plan

Done: all modules of section 2.

Next, proofs:

1. `Rows`: the start states are those of the rows above.
2. `Screen`: what a dialog keeps is what was under it.
3. `Wrapping`: wrapped words are the words that were typed.

And to model: `last_box` and file numbers, the exception handler's dump of unsaved files, the command line; smart TABs; palettes.

## 7. Not modelled

The REXX bindings (`rx.cpp`, each calls a command that is modelled), the launcher and the clipboard utility (programs of
their own), PCRE (vendored: `Searching` takes a regular expression for a literal with a substitution), the calls of the system behind the
screen, keyboard, mouse and pipe (pure input and output), palettes, errors of the system while a file is written (the code ignores them),
what other programs put on the clipboard of Presentation Manager, TABs copied as they are (`editor.clipboard.spaces_only` off). The window origin of the cursor is folded away in `Buffer`.

Smaller things left out on purpose: the 0 that `bdraw.cpp:189` writes behind the marked part also when that is outside the window
(no property speaks of memory next to the buffer); the bytes 1 and 2 that separate and mark the entries of a stored history
(`stddlg.cpp:33`, `stddlg.cpp:67`; a text with one of these bytes would be read back as two, and the letters of the model are others).
