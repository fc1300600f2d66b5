# TLA+ models of Texinfo

This directory holds TLA+ models of parts of Texinfo, checked with TLC, and
proofs about them, checked with TLAPS. Paths of code are relative to the
repository. Six parts are modelled so far:

* the input of the Texinfo parser: the stack of files, macro expansions and
  values that the parser of `tta/C/parsetexi` reads from;
* the keyboard input of the Info reader: the ring of bytes of `info/session.c`
  and the decoder that turns bytes into keys;
* the open elements of the Texinfo parser, with the stacks of contexts, commands
  and counters that are to follow them through every way of opening and closing;
* the windows of the Info reader: their layout on a screen that changes, and the
  window for footnotes;
* `js/info.js`: the manual in a browser, with pages that load in their own time,
  messages between them, the browser's history and a search over pages;
* `infog`, the graphical reader of HTML manuals: its main process and the two web
  processes that load pages for it.

`PROJECT.json` lists, for each definition, the lines of code it stands for; it
also lists the runs, the hazards they are aimed at, a mutation of the model for
every property, and the theorems.

## 1. The system and its parts

| part | state | operations | what is hard in it |
|---|---|---|---|
| parser input stack: `input.c`, and its users in `parser.c`, `macro.c`, `end_line.c`, `handle_commands.c`, `source_marks.c`, `parser_api.c` | `input_stack`, two expansion counters, the current source position, a pushed back line, counters of source marks | push of text or a file, `next_text`, macro calls, `@value`, `@include`, `#line`, `@bye` | frames are popped in the middle of whatever asked for more text; counters, positions and marks are updated in other functions than those that open an expansion; recursion |
| parser contexts and tree: `context_stack.c`, `close.c`, `separator.c`, `menus.c` and the rest of the parser | context and command stacks, region stack, conditional stack, the element being built | opening and closing of commands, paragraphs, menus, lines | opening and closing are far apart, errors close several elements at once |
| structuring: `structuring_transfo`, `output_unit.c` | relations between nodes and sections, output units | construction passes over the tree | order of the passes, cycles in node directions |
| document registry: `document.c`, `errors.c` | documents by descriptor, messages | register, retrieve, remove | reuse after removal |
| converters: `tta/C/convert`, `tta/perl` | state of one conversion | one function for each command | text formatting, sequential |
| `texi2any.c` | options, list of files | one document after another | command line, sequential |
| Info key input: `session.c`, `terminal.c` | ring buffer, two indices, input stream, the sequence being decoded | fill, take, rewind, flush | the terminal and signals are concurrent; a timeout; two full/empty cases of a ring |
| Info signals: `signals.c` | flag that a resize is due | handlers, deferred redisplay | a signal between test and reset |
| Info windows and nodes: `window.c`, `nodes.c`, `display.c` | windows in a list, history of each, cached files | split, delete, go to a node, follow | sharing, an index into a history that is cut |
| Info echo area and commands | nested input with its own windows | read a line, complete, search | re-entry of the command loop |
| `infog`: `main.c`, `extension.c` | current manual, sidebar, index and list of index nodes in one process, current manual and flags of a page in another | load a manual or a node, new manual, table of contents, index | messages between processes that load pages; a page that is loaded selects a row, and a row that is selected loads a page |
| `js/info.js` | a store in the main page, one in each iframe | actions, `postMessage` | pages load in any order, messages arrive before the page is ready |
| `install-info` | the `dir` file | read, change, rename | two installations at once, a crash, no lock |
| `texindex`, `texi2dvi`, `Pod-Simple-Texinfo` | files | text in, text out | `texi2dvi` repeats until the auxiliary files do not change |

How they interact. `texi2any` calls the parser, which returns a document; the
structuring passes change its tree; a converter walks it. These are calls in
one thread. Within the parser, every function that runs out of text calls
`next_text`, and several of them push on the stack that `next_text` pops: the
interaction lies in this shared stack. Info reads files written by
`texi2any`, found with the `dir` file that `install-info` maintains. In Info,
the display calls the key input (it stops drawing when the user types), and
key input calls the display after a signal. `info.js` runs in a browser on the
HTML output, and `infog` shows that output in a web process of its own.

What would make each part correct: the parser reads each piece of text once,
in order, with the right line number, and stops on every input; contexts are
balanced; node relations are inverse to one another; in Info no typed byte is
lost or used twice, windows always show a node of their history, a resize is
never forgotten; in `info.js` and `infog` the page shown is the one asked for
last; `install-info` never leaves a damaged `dir` file and does not lose
entries.

## 2. Modules

    ParserText    InputQueue           abstract: what is promised
        |             |
    ParserInput   InfoKeyInput         the code
        |     \       |       \
        |      \      |      InfoKeyInputProofs
        |       \     |
        |   ParserInputProofs
        |      |  ParserMarksProofs, ParserTextProofs
        |             |
    ParserReading     |                the text that is left to read
        |             |
    MCParserInput MCInfoKeyInput       instances for TLC

    ParserContext   InfoWindows   InfoJs     Infog           the code
      |    \            |    \       |   \       |   \
      | ParserContext-  | InfoWin-  | InfoJs-   | Infog-
      |    Proofs       | dowsProofs|   Proofs  |   Proofs
    MCParserContext MCInfoWindows MCInfoJs   MCInfog         instances for TLC

### Parser input

`ParserInput` models the stack as a sequence of records with the fields of
`INPUT`. `next_text` is a loop that either returns a line or pops an
exhausted frame; each turn is an action (`NextTextPushback`, `NextTextLine`,
`NextTextFileLine`, `NextTextPop`, `NextTextEnd`). The code is one thread of
nested calls; where a caller waits for a line, `pc` is `"next_text"` and `ret`
says where the line goes. The callers are the preamble of a document, the line
loop of `parse_texi` (`"newline"`, `"process"`), the argument of a macro called
without braces (`"line_arg"`) and `@bye`. All of `Init` is a call of
`parse_file`, `parse_text` or `parse_piece`.

An @include or @setfilename stays open until its line ends (`line_commands`), and
another one may be met in its argument. `end_line` then ends them one by one, the
innermost first, by calling itself (`EndCommand`, a step for each): an @include that finds
its file pushes it and leaves the tree, and so the argument of the outer command is
again the name of a file; a command that stays in the tree spoils the name of the outer
one. @bye closes what is open on its line before it takes the rest of the line (`EndLine`
with the caller `"bye_line"`).

Text is a sequence of tokens. Told apart are the tokens that change the input
state: the end of a line, a macro call, `@value`, `@include`, `@setfilename`,
`#line`, `@bye`, the DEL comment that ends the useful part of a line and the
macro argument; anything else is a word. A macro has no argument or the rest of
the line, `\arg\` stands once in a body. `out` has the words in the order of
the tree, `marks` the source marks in the order they enter it.

`ParserText` says what this is for: one flat text, in which a call is replaced
by its expansion followed by an end mark. An expansion is active as long as its
mark is in the text. A call that takes its argument from the line (`LineCall`) is refused
or not when it is met, and replaced when the argument is read (`Argument`): up to the
newline, or up to the first end after some text. A newline is put back after the
argument even if there was none. `commands` are the @include and @setfilename whose
line is being read, one in the argument of the other. The end of the line ends the
innermost (`EndCommand`); its file, if it names one, comes after the newline, where the
outer command ends in turn: of `@include f@include g` both files are read, that of the
outer command first.

`ParserReading` states that the stack implements it (`ReadsFlatText`). The flat text is
what is left of the line in hand and of what the frames hold, top first, each frame followed by
the end that its pop registers. A file is read by lines (`Content`, a recursive
function): a line that a DEL comment cuts goes on with the end `comment`, as the code
has then pushed a frame without text to hold the source mark (`next_text`, `input.c:303`).

### Info key input

`InfoKeyInput` models `info/session.c` from `info_any_buffered_input_p` to
`get_input_key_internal`. The bytes in the terminal (`tty`) are put there by
`Type` at any moment at which the program reads from a terminal, or are all
there from the start when a session is replayed (`--restore`). The read of what
is available is one action, as `read` is; the bytes then go to the ring one by
one (`StoreByte`), and the user may type between. `pc` says which function is
executing; `ret` is the continuation of `info_gather_typeahead`, which is
called from six places. `path` is the sequence of bytes that leads to the
current node `b` of the tree of key sequences. `Entry` is that tree.

The select with its timeout (`MoreBytes`) returns "ready" at any time (input or
a signal) and "not ready" only while nothing was typed: how long the pause is,
is not modelled. `FD_SET` and `FIONREAD` are taken as available. Error returns
of `read` are: interrupted, the end of a recorded session, the end of the
terminal. The user variable `key-time` is zero or not at any use. Sequences are
such that none begins another. A redisplay forced by a signal looks for
typeahead, that is, reads; where the program is about to read without waiting
the two reads in a row put the same bytes in the ring as one, so only the one
before a wait is an action (`UpdateAfterSignal`).

`InputQueue` is the abstract queue: bytes typed and not read, bytes waiting,
bytes in hand that can be put back. `ImplementsQueue` is the refinement; its
mapping takes the slots from `pop_index` to `push_index` for the bytes that wait
and `path` for the bytes in hand.

### Parser contexts

`ParserContext` models what is open while the parser reads: `path` is the chain
of elements from the root to `current`, and beside it stand the stacks that
separate functions push and pop: contexts, four stacks of commands that
restrict what may be nested in them, the counters of arguments and of items, and
the stack of conditionals. What is complete in the tree is left out. An entry
of a stack has the depth of the element it was pushed for in place of the
pointer.

The input is any sequence of tokens: text, ends of lines, braces, commas, form
feeds, the `@` of a command, and the end of the input anywhere. A command is
known by its entry in `tta/data/command_data.txt`; `CommandTable` names the
agreements between flags that the code relies on, and `MCParserContext` gives
the entries of thirty commands, of which a run takes some. The functions that
close elements call one another in loops (`close_commands`,
`end_line`, `close_all_style_commands`, `close_brace_command`); what is left
for them to do is `agenda`, and each turn of a loop is an action. A pop that
finds another context than it expects calls `fatal`: `status`.

### Info windows

`InfoWindows` models the layout in `info/window.c`: heights and first rows of
the chain of windows, the active window, temporary windows. Nothing in the code
computes a layout as a whole: splitting, deleting, growing, tiling and a change
of the size of the screen each move lines between neighbours. These are
operators on a layout, and the commands of `info/session-cmd.c` and
`info/footnotes.c` compose them as the functions call one another. Of a node
only matters whether it has footnotes or is the `*Footnotes*` node itself. A
change of size may come between any two commands, as the signal handler defers
it to that moment. The loops over the chain are recursive functions on the number
of turns (`Rows`, `Lines`, `Fewer`, `Shared`, `OneKept`), so that they can be
proved about. For that the module takes nothing from `SequencesExt`: with it the
theorem that the natural numbers are well founded cannot be cited.

### info.js

`InfoJs` models the store of the top page (`state`), the component that shows
pages (`pages`, what it remembers of its last rendering), the browser's history,
and one record for each iframe: how far it has loaded, the messages that
`post_message` holds back until then, those on their way, and the highlighted
match. An action dispatched to the store is one step with its rendering, as in
the code: `Rendered` is `Pages.prototype.render`, and each operator named after
an action of `updater` sets the state and renders it. Timers and messages to the top
page are queues that the browser empties at any time. Loading is two events, the
content and the load event, for every page in any order. The user follows links,
navigates, goes back and forth, and searches, at any time and before the answer
to what was done last.

### infog

`Infog` models the three processes of `infog`. The main process (`main.c`) has
the window; its variables are `main`, and `handle_script_message` and the
functions it calls are operators on them and on what the two views are asked to
load, so that each callback is one step, as it is in the main loop. `page` and
`hidden` are the processes of the view that shows pages and of the hidden one
that loads the top page and the pages with indices; what the extension does in
them (`request_callback`, `document_loaded_callback`) are the other steps. What a
view is asked for and what it sends are queues: a request is not seen before the
process takes it, and a message not before the main loop does. A view that is
asked for another page gives up the one that it loads. What WebKit does is
external: `load_uri`, the order of messages, and that the view's address follows
its messages. Every link of a page, entry of the index and row of the sidebar is
a node; links of pages lead to any node of any manual, a link by name to a manual
that is not installed too. The user asks for manuals, follows links of both kinds
and the keys, and selects rows and index entries.

## 3. What the runs check

| run | shows | bounds |
|---|---|---|
| `parser_input` | type correctness, counters, nesting limits, line numbers, marks, and that parsing ends, on all documents of `MCTexts` | two lines, each from lists of starts and ends that contain every kind of token; three macros (one recursive, one that takes its argument from the line, one that illegally calls itself), a value that calls a macro, two files; lines that name a file by a value or with a call in the name, and lines with one to three @include and @setfilename in one another; `MAX_MACRO_CALL_NESTING` 2 |
| `parser_flat_text` | the stack implements the flat text | the same |
| `info_key_input` | type correctness, intact rewinds, the queue, no broken known keys, decoding ends | ring of 4 slots, at most 3 bytes outstanding and 4 typed, seven byte values, key sequences of three and of four bytes |
| `info_control_g` | a disagreement, see 6 | six byte values, keys of three bytes |
| `parser_context` | the stacks follow the open elements, no fatal error, closing ends | fourteen commands, one of each way to open and close; open elements to a depth of 6, one true conditional, one numbered item, two counters of items |
| `parser_items` | a disagreement | five commands, a depth of 7 |
| `info_windows` | the layout covers and keeps the screen, windows show a line, footnotes leave | screens of 1, 14 and 19 lines, two changes of size, splits up to three windows, footnotes of 3 lines; automatic footnotes and tiling |
| `info_shrink` | a disagreement | the same without automatic tiling |
| `info_js` | history, container, searches and highlights; a search ends | three pages and an anchor, one page outside the table of contents, an expression with three matches; opened at two pages; three commands of the user |
| `info_js_result` | a disagreement | the same |
| `infog` | the processes agree on the manual, come to rest, and then show what belongs together | three manuals, one of them without a table of contents, and one that is not installed, three nodes, one manual with two index nodes; three commands of a user who waits for each, or one at any moment while the first manual is loaded |
| `infog_toc` | a disagreement | the same, one command |

Why the bounds are enough. The parser's limits act on the count of open
expansions: with 2, the limit is reached from a macro in a macro, in a value and
in a file, which are the three ways a frame can be under another. Two lines make
a frame end on a line other than the one it was pushed on. A third line or a
larger limit repeats these situations. `MCTexts` contains the value whose text
calls a macro that uses the value, which only the limits stop.

In Info, four bytes in a ring of four make both indices wrap. Three outstanding
bytes are a whole key with nothing behind it, or a prefix and a byte that breaks
it, or a C-g inside a sequence. The bytes are ESC, both second bytes, the final
byte, a parameter byte, an intermediate byte and C-g. One key has four bytes, as
rxvt sends them: a prefix of a known key is then also an unknown control
sequence.
`MaxBacklog` is less than `Size` because a burst of `Size` bytes loses input:
as many bytes as the ring has slots make it look empty (`session.c:479`). With
`MaxBacklog` 4 in `MCInfoKeyInput.cfg` TLC finds `ImplementsQueue` violated; all that holds below that limit is proved to hold for any size.

The parser's stacks disagree, if they do, when an element is closed by what was
not meant to close it. A depth of 6 holds a root command, a block, its line, a
brace command on it and the arguments of each, so that every kind of element
can be closed from inside every other; what lies deeper is closed by the same
loops, one element a turn. The fourteen commands have every kind of entry that
decides a push or a pop. Two counters of items are a list in a list, and one
that was left behind.

A screen of one line has no room for a window, one of 14 holds two windows and
the footnotes, one of 19 three; between them every branch of the distribution of
lines is taken, with remainders and with windows that are deleted for lack of
room. In `info_js` three commands are a search, another action while it is under
way, and a third that meets the answers of both; three pages are the one that is
left, the one that is shown and one that was never loaded.

In `infog` two manuals are one to leave and one to come to, and the third has no `div.contents`
in its top page, so that `send_toc` sends nothing (`extension.c:355`): the sidebar stays empty
and the node waits for it; two index nodes are
one that is being loaded and one that waits in the list; a node in the table of
contents and one that is not are told apart by the selection. A user in a hurry
meets every state of the loading of a manual with every command. Two commands in a
hurry were too many states.

The runs of the parser, of key input, of `info.js` and of `infog` have `CHECK_DEADLOCK
FALSE`: the parser stops when the document has been read, Info exits at the end
of the terminal's input, and a user of the browser or of `infog` may stop
after the last command. The windows are checked for deadlock: some command is always possible.

The properties, in words:

* `CountersMatchFrames`: the two counters the limits rest on always count the
  open expansions and the pending call. They are incremented when a call is
  entered and decremented when its frame is popped or an error is found.
* `NestingBounded`, `NoSelfNesting`: the limits do what they are for.
* `PendingCallAllowed`: the tests made when a call is entered hold when the body
  is pushed, after an argument that may have closed expansions.
* `LineHasFrame`: `save_line_directive`, which does not test the stack, has a
  frame to write to.
* `LineNumberOfFile`: positions of messages are those of the file being read.
* `MarksWellNested`: every start mark has one end, in the tree or to come.
* `ParsingEnds`: for every document.
* `ReadsFlatText`, `ImplementsQueue`: the refinements.
* `HeldInRing`: setting `pop_index` back finds the bytes that were taken.
* `KnownKeyNotBroken`: a key whose whole sequence is in the ring is never given
  up for its first byte.
* `DecodingEnds`: a started sequence becomes a key, or is given up.
* `ContextsFollowPath`, `RemainingArgsFollowPath`, `NestingFollowsPath`: each
  stack has an entry for exactly those open elements that call for one, in their
  order. They are pushed where an element is opened and popped in other
  functions, some of which close several elements after an error.
* `NeverFatal`: no `fatal` of the parser is reached on any input.
* `ClosingEnds`: the loops that close elements and call one another end.
* `Stacked`, `AtLeastALine`, `LinesKept`: windows lie one below the other
  without a gap, each with at least a line, and no command loses lines.
* `FootnotesLeave`: the window of footnotes goes when a node without footnotes
  is selected.
* `HistoryInStep`: the entry of the browser's history is the page that is shown,
  though both are changed by actions that come from messages, keys and the
  browser.
* `PageHasContainer`: `resolve_page` does not throw.
* `SkipsNoMatch`, `OnlyShownMarked`, `SearchEnds`: a search over pages stops at
  the first page with a match, leaves no highlight elsewhere, and ends. The
  first two exclude searches that overlap: nothing in an answer tells which
  search it is for, and the code promises nothing then.

* `ManualsAgree`: the main process and the extension each keep the current
  manual and both change it. They agree, or the extension's is not installed,
  when no page is asked for and no change is announced, hurried or not.
* `SettledRight`: when all is quiet after a command, sidebar, selection, index
  and keys belong to the page that is shown, in whatever order the two views
  loaded. In a manual without a table of contents the sidebar is empty and
  `pending_node` is the node that is shown. Not said of a user in a hurry (section 6), nor of one who asks for the
  manual that is shown: `load_manual` clears sidebar and index, and the extension
  sees no change that would fill them again. Nor after such a pending node was left to
  the next manual that has a sidebar (`user.left`): its table of contents may come before the node that
  is loaded is heard of, `load_toc` then selects the node of the manual before, and its page
  is asked for in place of the one that was chosen, in the manual that the view's address still
  has (section 6).
* `Settles`: the processes come to rest. In a hurry they may not: with two pages on
  their way each selects its own row, which asks for its page again. The same three
  users are left out.
* `TypeOK` of `Infog` has the forms of all messages and requests on their way between the
  three processes: `handle_script_message` takes a message apart by its first line, and a `toc`
  message is only sent of a manual that has one.

Fairness. The parser's only assumption is that the program takes its next step
(`WF_vars(Next)`): one thread, nothing to wait for. In Info the assumption is
that the program goes on (`WF_vars(Read \/ Decode)`), `Type` is not fair: the
user need never type again. Waiting for a byte is then a disabled step, and a
select that has nothing to report times out, which is a step of the program. In
the parser the steps of the agenda are fair (`WF_vars(Step)`): they are calls
under way; the tokens of the input are not. In `info.js` the browser loads every
page and delivers every message and timer, and in `infog` each view loads what it is asked for and
each message is delivered; the user is not fair. Weak fairness
of the actions of `info.js` that render is written out (`[]<>~enabled` or `[]<><<A>>_vars`),
with what enables the action in place of `ENABLED`, as this is what the guards
say and is much faster to evaluate.

## 4. What is proved

`ParserInputProofs`, for all constants that satisfy `ParserInputAssumption`
(any macros, files, values, documents and limit, 0 for no limit included):
`TypeCorrect`, `CountersCorrect`, `NestingCorrect`, `NoSelfNestingCorrect`,
`PendingCallCorrect`, `LineHasFrameCorrect`. The invariant that is inductive is

    TypeOK /\ LineHasFrame /\ CallControl /\ PendingCallAllowed /\ StacksAgree

`CallControl` says where in the program a call can be pending. `StacksAgree`
relates the stack to the counters: each counter is the number of frames of its
kind, a frame that holds the body of a macro records that macro as the one being
read, and the limits and the ban on recursion hold of the frames. The limits alone are not inductive:
a step that opens an expansion must know that the counter it tests counts the
frames, and that what `expanding_macro` looks at (the macro recorded for
messages) agrees with the macros that are open.

`ParserMarksProofs` has `MarksWellNestedCorrect`. That the marks are well nested
follows from `MarksInv`, which says more of both sides: of each kind the marks
are numbered from 1 without a gap (`CountersGrow`), each frame with a mark to come
has its start mark in the tree (`FramesStarted`) and each start mark an end mark or
one such frame (`OpenOrEnded`), the frames lie in the order in which their marks
started (`OpenInOrder`), and pairs are nested (`EndedNested`). While
the preamble is read `next_text` has no element to put marks on and drops them:
`PreambleUnmarked` says that nothing that would need one is open then. The numbering
needs that a frame without a mark is told from one with a mark (`NoMarkAssumption`:
`NULL` is no source mark).

`ParserInputProofs` also has `LineNumberCorrect`. The property speaks of the frame on top
while a line is processed; the invariant (`LinesInv`) of all frames. Two kinds of
frame keep a line number in two ways: the body of a macro and the text of a value
keep the number of the line that called them, and count nothing, while the rest
of a line that is pushed back, being no expansion, counts when it is read, and
so is pushed with the number before (`FrameAgrees`). It may then only have
one line: `OneLine` says so of the line being read, of what is pushed back and of
those frames. `ValuesReadAtOnce` says that the frame of a value is read by
the next call of `next_text`. `ValueAssumption` is that no value contains the end of
a line. It holds of `@set`, which takes the value from the rest of its line
(`handle_commands.c:220`); not of a value given on the command line with a
newline in it: a `#line` in such a value would set the number of the value's
frame, and not of the file.

`ParserTextProofs` has `FlatTextCorrect`: the refinement, `ReadsFlatText`, for every
document. It rests on the two invariants above and on `FlatInv`, which says what the
mapping needs. A macro recorded as being read by a frame is open, in that frame or below it
(`FrameSound`): so the macros `expanding_macro` sees are those whose ends are
in the text. A text that lacks the newline of its last line is followed by an end
(`EndsWell`), so that an argument that goes as far as the line in hand does not go on in
the flat text. When the input has ended nothing is left to read, and no command is open
between two lines. A turn of `end_line` is the end of a command in `ParserText`: the newline
stands for the line in hand as long as a command is open on it (`Pending`). With it there is a lemma for each action: the step is one of
`ParserText` or leaves the flat text as it is (`NextFlat`). `ValueAssumption` is needed
here as well, through `LinesInv`.

The mapping has two recursive functions, `Content` and the text of a stack, and
`ParserText` counts ends in a text where the code has counters. What is needed of them
is proved by induction (`SeqInduct`, from the least element of a set of numbers: the
library's induction theorems take an operator): that the functions exist and satisfy the
equations they are written with (`ContentRead`, `GatheredText`), and that the
active expansions of a text are the frames (`ReadsActive`), with which `StacksAgree`
makes the two tests for nesting agree.

`InfoKeyInputProofs`: `KeyInputTypeCorrect` and `KnownKeyNotBrokenCorrect` without any further
hypothesis, and `HeldInRingCorrect` and `RingImplementsQueue` under the hypothesis
`MaxBacklog < Size`, which is needed, see section 3.
The inductive invariant is

    TypeOK /\ Control /\ HeldWhileDecoding /\ Room

`Control` relates `pc` and `ret` to what is held (bytes are held only while a
sequence is decoded, nothing is read then but for that sequence).
`HeldWhileDecoding` says that the ring from `pop_start` to `pop_index` is
`path`. `Room` counts: all the bytes in the terminal, in `input`, in the ring
and in hand are at most `MaxBacklog`, so that no write reaches the slot that a
rewind needs. Lemmas about rings (`RingTake`, `RingPut`, `RingJoin`, ...) do the
index arithmetic once; the step simulation then has a lemma for each action
that does something to the queue. All other actions stutter.
For `KnownKeyNotBroken` the invariant is `Walk`: `path` is nothing, ESC alone or the
beginning of a key, until it is given up, and then no key begins with what was
in hand and what is in the ring. It rests on `LeavesAssumption`: no
key's sequence begins another's, since `add_seq_to_byte_map` puts keys at the
leaves of its tree (`terminal.c:758`).

`InfoJsProofs`, for every manual (`InfoJsAssumption`): `TypeCorrect`, and
`PageHasContainerCorrect` and `HistoryInStepCorrect` under the hypothesis
`NavInToc`, that the next, prev and up links of pages lead to pages in the table
of contents. The hypothesis is needed: an action that follows such a link
registers `action.url`, which it does not have, instead of the link
(`info.js:376`), and `resolve_page` throws at a page it does not know. The
inductive invariant is

    Sound(World) /\ (NavInToc => Known(World) /\ InStep(World))

`Sound` has the types and says that mail is only delivered to loaded pages.
`Known` says that the table of contents is registered, and that the page that is
shown and the one that is searched have containers: the answer to a search
takes the reader to the latter. `InStep` adds what the last
rendering remembers: it decides whether the history is written. The lemmas
follow the parts of a rendering (`LeavePageSound`, `ShowPageSound`,
`StartSearchSound`, ...); `RenderedSound` says what a rendering makes of a state
that an action has changed, and there is one lemma for each action of the store
and one for each step.

The second half of `InfoJsProofs` has `SkipsNoMatchCorrect` and `OnlyShownMarkedCorrect`, on top of
that invariant and under the same hypothesis. An answer says neither which search nor
which page it is for, so the properties rest on there being one search under way.
`Going` says of a state: when no search has overlapped another, that search is in
one of four places (`OneAtATime`): at rest, in one timer, in one message on its way
to the page of the state, or in one answer, and an answer without a match comes from a
page without a highlight. `Passed` is what the search knows of the pages it has been
through. `MarksEnd` follows each highlight to its end: its page is the one that
was just found, the one shown, the one the search was started in (whose second match
is looked for), or has a message in its mail, before any search, that takes it away.
`Loading` and `Seen` are what it takes to know that no message to a page that
has a highlight waits, and that a search is started once. Lemmas on queues (what an
added, a taken and a joined message make of "none", "one" and "before any search") come
first; a step that has no part in the search is a `FrameFollows` of every page and
a `LeftUnmarked` of the page that is left, and `FollowsKept` does the rest.
`SkipsNoMatchCorrect` needs `PageLinksFirst` too: in the table of contents the
link of a page comes before those of its anchors. `forward_pageid` (`info.js:2124`)
passes over a page whose link directly follows one to an anchor of the
same page, and the search would never come to it. `NullAssumption` is that `null`
is no highlight. The manual of `MCInfoJs` satisfies the hypotheses.

`ParserContextProofs`, for every table of commands that `CommandTable` admits, all
expanded formats and all bounds: `TypeCorrect`, `ContextsFollowPathCorrect`,
`RemainingArgsFollowPathCorrect`, `NestingFollowsPathCorrect` and
`NeverFatalCorrect`. `CommandTable` has the agreements between the kinds and flags of
commands that the parser relies on; each entry of `command_data.txt` has them,
and an entry added there has to. The three properties that relate a stack to the path are
not inductive even together: a function closes the element it finds, and pops
what that function is written for. The inductive invariant is

    status = "parsing" => Parsing         status = "finished" => TypeOK

where `Parsing` has three parts. `PathOK` is a grammar of paths: which element may be in
which (`Fits`), that the second element and no other is a root command or the
content before the first node, and that the command of an element is of the kind
its type says. `StacksOK` is the three properties, what a counter of arguments may be
(below zero only for a brace command without arguments), and that there are at least as
many counters of items as lists; exactly as many there are not, which is the finding about
`end_line.c:2094`. `AgendaOK` and `AgendaFits` say where a
function may be called: an element is closed in the middle of a line by
`close_to_line` only with the context of that line at the top of the stack; the root
command is opened only by a token that has closed all that was open before it; and a
brace command whose argument is not begun (`unbraced`), or whose argument has just been
closed, is current only for the tasks that expect it. The proof goes up in four
layers: what an `Append` to the path and a `Front` of it make of each
stack (`CtxPush`, `ArgPush`, ...), what they make of the path and all the stacks
for each kind of element (`BraceCommandOpened`, `LineArgClosed`, ...), what
`close_current` and `OpenLine` do whatever is current (`CloseCurrent`), and one
lemma for each action (`ParsingClosing`, ...). `NeverFatal` then is
that every pop is of the innermost entry, and that the parse ends with the root's
context alone on the stack (`RootContext`).

`InfoWindowsProofs`, for screens of any height, any number of windows, any arguments
and both settings of both variables (`InfoWindowsAssumption`): `TypeCorrect`,
`AlwaysStacked`, `AlwaysALine`, `LinesAlwaysKept` and `FootnotesAlwaysLeave`. Of the
layout the inductive invariant is

    Good(Layout) /\ Room(Layout)

`Good` says that the windows are in `Chains`: the first begins at the top, each
other one below the modeline of the one before, and none of several is without a line. (`Stacked`
says it with the operator `Restacked`; `ChainIsStacked` has that it is the
same.) `Room` is needed for `LinesKept`: windows that cover the screen have more
than two rows each. When the screen grows and windows are deleted even so, the
share of the change is still computed for the windows that there were
(`window.c:110`); that it is then zero, and all the lines are left to
distribute, follows from `Room`. A window is split only when
it has six lines or more (`window.c:275`), and on a smaller screen windows are deleted
until each has `WINDOW_MIN_SIZE` rows, so both keep it.

Each operator of the model is shown to take a layout that is `Sound` to one that is,
on the same rows of the same screen (`Kept`): `MakeWindowSound`,
`DeleteWindowSound`, `ChangeHeightKeeps`, `TileKeeps`, `FootnotesSound`. Each
command is a composition of them that obeys (`Obeyed`); only a change of the size of
the screen moves the last row (`NewScreenSizeFacts`). What the loops compute is proved by
induction on their turns. The theorems of the library that do this take an operator
as parameter, which the provers cannot instantiate; `Induction` states it with a set instead, and
follows from `NatLessThanWellFounded`. `Iterated` has from it that a
recursive function is what its definition says, and each loop has an
invariant of its own: `LinesFacts` and `LeveledFacts` (what tiling takes is what it
gives), `FewerFacts` (the screen is the same when fewer windows cover it, and one is
left), `SharedFacts` (the turns that are done and what is left over are the change so far),
`KeepOneObeys`. `FootnotesLeave` needs no invariant but these: `Settled` says
what the footnotes of a window come to, whether it is the active one or the
one that a command is about to select.

`InfogProofs`, for all manuals, links, tables of contents and indices and any number of
commands (`InfogAssumption`, which also says that `NULL` is no manual, node, page, row
or request): `TypeCorrect`, `ManualsAgreeCorrect` and `SettledRightCorrect`. The
inductive invariant `IInv` adds to the types of variables and messages that the
last change announced is to the manual that the extension is in (`LastSays`), and
that when none is announced the main process has that manual, or it is not
installed, or a page of the main process's own manual is still asked for
(`Bound`): the last case is what holds after the user has chosen a manual and
before the view has heard of it. Lemmas on queues say what a message in front, at
the end or in between makes of `LastSays`; that every callback but two leaves the
manual and only adds to what is asked for is `Keeps`, one lemma for each function.
`SettledRightCorrect` needs to know where a command stands between the moment it is
given and the rest that follows. `Story` says it: the page of another manual is asked for
(`Asked`) or its manual announced (`Told`), a link by name is not yet a page (`LinkTold`,
`LinkKnown`), or both processes are in the manual of the page (`Heading`). A page
that is headed for and its manual are two independent parts. `Showing`: the main process will
hear of the page (`Coming`), or sidebar, pending node and keys are already right for it.
`Filling`: how far the hidden view is, whether the table of contents is wanted or there
(`TocWanted`, `TocThere`), which entry of the index is wanted next (`IndexWanted`), or all
is there (`AllThere`). The parts meet in one step, the table of contents that comes while a
node is pending (`ShowingToc`); in all others one part moves and the other is as it
was (`ShowingSame`, `FillingSame`). At rest only `Heading` with `AllThere` is left
(`QuietSettled`), so a command of a user who waits starts from there (one lemma for each).
In a manual without a table of contents nothing is wanted of the sidebar (`Sidebar`), and the
node keeps waiting. `NoneWaits` says that no node waits when a manual with a sidebar
is headed for, and `Leads` is the move between manuals that keeps it so.

## 5. What is only model-checked, and what is not modelled

Liveness (`ParsingEnds`, `DecodingEnds`, `ClosingEnds`, `SearchEnds`, `Settles`) is out of
reach of the proof system as it is used here, and only checked on the instances. Every
other property that a passing run checks is also stated by a theorem of section 4.

Not modelled of the parser's input: `@linemacro` and arguments in braces that
span lines, raw blocks, ignored blocks and conditionals, encodings, the search
for files in directories, and a file that includes itself (the code does not
end, and neither would the model). Of key input: bytes above 127, the dribble
file, systems without `FIONREAD`.

Of the parser's contexts: rows and cells of multitables, entries and descriptions
of menus, `@verb`, accents without braces, index entries and the content of the
tree. The two models of the parser are separate: `ParserInput` has lines as its
interface, `ParserContext` tokens, and the calls between them (`next_text` in
the middle of an argument) are those of `ParserInput`.

Of Info's windows: the text that is shown, the place in it, the history of nodes
in a window and the files they are read from, the echo area's own window. Of
`info.js`: the sidebar and its iframe, help, the index and minibuffer, titles
and focus, and pages that never load. Of `infog`: the Back button, the tree of
the table of contents, dialogs, links to the web, pages that do not exist, and the
requests of a page for its style sheets and images, each of which clears the
page's flags too (`extension.c:91`).

Other parts are listed in section 1 and in `PROJECT.json` with the reason:
those that write text in one pass have little a state machine could say;
the others are in the plan.

## 6. Where the code and what is said of it differ

Each has a run that ends in a violation.

* `ControlGQuitsSearch`: a C-g read ahead is flushed, not stored, and the
  search that looks for it never sees it (`session.c:400`).
* `ItemsNumberedByTheirList`: a list that an error closes leaves its counter on
  the stack, and an item of the list around it gets no number
  (`end_line.c:2094`).
* `CoversAlways`: when the screen gets smaller, the share of a window that is too
  small for it may be taken from no window, and the layout is longer than the
  screen (`window.c:176`).
* `ScrollFindsResult`: a highlight that a search has made may be removed before
  the page is scrolled to it (`info.js:986`).
* `TocComes`: an answer of the hidden view about the manual before takes it away
  from the top page of the new manual, whose table of contents then never comes
  (`main.c:594` of `infog`).

Six more were met and have no run: in `infog`, after a manual without a table of contents,
a link by name to another one may end in the manual before, at the node that was shown there, as
`pending_node` says of no manual and is not forgotten by `new_manual` (`main.c:579`;
`SettledRight` and `Settles` are violated without `user.left`); a `#line` that ends in a DEL comment sets the number
of the frame that holds the rest of its line and not of the file, and has no effect
(`input.c:187`); the argument of a macro called without braces
ends where an expansion in the line ends and not with the line, as the test for a
missing newline is never true (`macro.c:937`); a burst of as many bytes as Info's
ring has slots is lost (`session.c:479`, section 3); an included file's
`@setfilename` is taken when the including file was already popped
(`parser.c:350`); and the line after `#line 100` has the number 101
(`input.c:201`).

## 7. Plan

1. `InstallInfo`: concurrent installations and crashes on one `dir` file.
2. Structuring as pure operators against a reference definition; the registry
   of documents.
3. The history of nodes in a window, and the echo area as a nested input.
4. Composition of `ParserInput` with `ParserContext`.
5. Proofs: the refinements for the modules of 1 to 4, as they are written.
