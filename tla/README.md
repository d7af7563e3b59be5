# Verification of the helper-process stacks of .emacs.d-windows

The repository is an Emacs configuration (`src/init.el`, `src/init/`,
`src/customize.el`) together with the packages it runs (`src/elpa/`).  The
configuration itself sets variables and hooks; the stateful programs are three
packages that talk to a helper process of their own:

| stack | Emacs side | process | enabled in |
|---|---|---|---|
| irony (C/C++ completion, checking) | `irony-iotask.el`, `irony.el`, `irony-completion.el`, ... | `irony-server` (`server/src/*.cpp`) | `init/programming/languages/init-prog-lang-C-common.el` |
| EmacSQL (database of forge) | `emacsql.el`, `emacsql-sqlite.el`, closql | `emacsql-sqlite` (`sqlite/emacsql.c`) | `init/programming/vcs/init-prog-vcs-git.el` |
| pdf-tools | `pdf-info.el`, `pdf-cache.el`, `pdf-annot.el`, ... | `epdfinfo` (`build/server/epdfinfo.c`) | `init/Emacs/init-emacs-pdf.el` |

What they share makes them hard to test: Emacs is one thread, but filters,
sentinels and timers run whenever any code waits; a process answers in pieces,
late, or not at all; and the two sides keep records of each other.

## Components

**irony I/O task queue** (`irony-iotask.el`).  State: the queue `:ectx-q` of
requests, each a chain of packaged tasks with a callback; the result of the
current task; the process buffer.  Operations: `irony-iotask-schedule`,
`-run`, the filter, the sentinel, and the mutually recursive `--start-next`,
`--check-result`, `--abort-all`.  Hard: callbacks that schedule, wait or kill
buffers; death of the process at any point; the process buffer all tasks share.
Correct when: every request is answered once, in order, with its own output.

**irony unsaved buffers** (`irony.el` 735-868, `Irony.cpp` 529-578).  State: the
record `:unsaved-buffers` of the states sent to the process; the server's
`filenameToContent_`.  Operations: a request is scheduled with the set-unsaved
and reset-unsaved tasks the buffers need at that moment, and these run later,
between edits, saves, kills and restarts.  Correct when: a parse sees the text
of the time of its request, and neither side keeps what the other has forgotten.

**irony-server** (`main.cpp`, `Command.cpp`, `CommandLineParser.cpp`, `Irony.cpp`,
`TUManager.cpp`, `CompDBCache.cpp`).  State: translation units with their flags, the
active one and its file, completion results, unsaved texts, the cached
compilation database.  Operations: a line is taken apart, accepted or rejected
(which ends the process), and executed.  Hard: pointers into caches whose entries
are disposed of; queries that name no file; two programs that must agree on
quoting; files that tools rewrite.  Correct when: no unit is lost or used after
its disposal, a query is answered about its own request, a line arrives as sent,
a database is not older than its file.

**irony completion** (`Irony::candidates`, `irony-completion.el`).  The server cuts a
completion string of libclang into texts and indices, the client cuts again at
the indices.  Hard: counting bytes on one side and characters on the other.  Correct
when: both cut at the same places.

**irony diagnostics, compilation databases of the client**: chains of tasks over
the queue, and searches of files.

**EmacSQL protocol** (`emacsql.el`, `emacsql-sqlite.el`, `emacsql.c`).  State: the
process buffer, the two pipes, the stdio buffer and the position of `main()`.
Operations: clear, send, wait (timeout, C-g), parse; read, prepare, print,
finalize.  Correct when: a call returns the answer to its own query.

**emacsql-with-transaction**.  State: the nesting level, SQLite's transaction and
locks.  Hard: SQLITE_BUSY at any statement, nested levels, errors that unwind,
statements left by C-g or a timeout and executed all the same, a COMMIT without an
answer.  Correct when: the body is in the file all or nothing.

**pdf-info, pdf-cache, epdfinfo**.  State: the transaction queue (`tq`), the
caches of data and images of a buffer, the open documents, the annotation lists
and key tables of the server.  Hard: asynchronous answers that are stale when
they arrive, restarts, re-entrant waits.

**pdf-annot** (`pdf-annot.el`) over the annotation lists and key tables of `epdfinfo.c`.
State: the annotations of a document in poppler, the list of a page and the table
of keys in the server; the list buffer, the edit buffer and the modified flag in
Emacs.  Hard: keys that are given again, or anew after a close; edits and deletions
that fail half-way.  Correct when: list and table agree, a key names what it named,
what is shown and announced is what there is.

**Others** (about 170 packages, among them company, flycheck, async, deferred):
not modelled.  PROJECT.json lists every component with its status.

## Modules

| module | models | checked by |
|---|---|---|
| `RequestService` | what a user of the queue is promised (abstract) | refinement in `iotask_eot` |
| `IOTask` | `irony-iotask.el` | `MCIOTask` |
| `IOTask_proofs` | proofs about `IOTask` | tlapm |
| `IronyServer` | the requests of `irony.el` and the server's commands, units and results | `MCIronyServer` |
| `CommandLine` | quoting, reading and parsing of a command line | `MCIronyServer`, in `IronyServer` |
| `Completion` | candidates, made and cut | `MCIronyServer`, in `IronyServer` |
| `CompDBCache` | the cache of compilation databases, with build tools | `MCIronyServer`, in `IronyServer` |
| `IronyServer_proofs` | proofs about `CompDBCache`, `CommandLine` and `IronyServer` | tlapm |
| `Emacsql` | one connection: `emacsql.el`, `emacsql-sqlite.el`, `emacsql.c` | `MCEmacsql` |
| `Emacsql_proofs` | proofs about it | tlapm |
| `EmacsqlTransaction` | `emacsql-with-transaction`, several clients | `MCEmacsqlTransaction` |
| `EmacsqlTransaction_proofs` | proofs about it | tlapm |
| `IronyUnsaved` | unsaved buffers, `irony.el` and `Irony.cpp` | `MCIronyUnsaved` |
| `IronyUnsaved_proofs` | proofs about it | tlapm |
| `PdfInfo` | queries, image cache, edit, save and revert, `pdf-*.el` and `epdfinfo.c` | `MCPdfInfo` |
| `PdfInfo_proofs` | proofs about it | tlapm |
| `Epdfinfo` | the annotation list and key table of a page, as operators on a document | `MCPdfAnnot`, in `PdfAnnot` |
| `PdfAnnot` | `pdf-annot.el` over `Epdfinfo`, with saves, reverts and deaths | `MCPdfAnnot` |
| `PdfAnnot_proofs` | proofs about `Epdfinfo` and `PdfAnnot` | tlapm |
| `SeqLemmas` | facts about sequences and least elements, for the proofs | tlapm |

`IronyUnsaved` stands on what `IOTask` establishes: the tasks of a request run
one at a time, requests in order, each with its own answer.  `IronyServer` stands on
it too, and takes from `IronyUnsaved` only that a request may start with a
set-unsaved or reset-unsaved.  `EmacsqlTransaction` stands on `Emacsql` in the same way: a
statement that is waited for returns its own result, one that is left is executed later, and
only the call after it, the cleanup's ROLLBACK, may be given its answer.  `PdfAnnot` takes a query and its answer as one step,
which is what `InStep` of `PdfInfo` justifies, and puts the rest of Emacs between steps.

### IOTask

`q` is `:ectx-q`; `left[r]` the tasks of a request from the current one to the
last; `tag[r]` the tag of the current task's result; `text` the process buffer.
`stack` is the Lisp call stack: a frame names what remains to be executed of
`--start-next` ("start"), `--check-result` ("check"), the callback, the
`--start-next-safe` that follows a callback ("safe") and the loop of
`--abort-all` ("abort").  One action is one stretch of Lisp between two points
where other code may run: `Filter` ends where the filter calls `--check-result`,
`StartNext` where `--start-next` does.  A callback is a frame the event loop may
run in, so it may schedule, kill buffers, wait for output or for the death of
the process, to any depth.

The process answers messages in order, each in one piece or in two; a piece
stands for any part of a response, and `last` for the part with the
end-of-transmission line (`irony--eot`).  `EarlyReject` tells `:update` functions
that wait for that line (all of `irony.el`'s) from those that throw
`'invalid-msg` before it, which the interface (irony-iotask.el:145-150) allows.
`:start` is atomic: it sends a message, sets the result, or signals.

Not modelled: the process buffer is killed by hand; two processes at a time
(`irony-server-kill` followed by a new request while the old sentinel is still
to run); the loop of `irony-iotask-run`, which is a schedule followed by the
event loop and which its docstring forbids to call from another task.

### Emacsql

A piece of output is marked with the query it answers, which Emacs cannot see.
`Call`, `Return`, `Abandon` are the parts of `emacsql` around its wait; `Receive`
inserts any prefix of the pipe into the process buffer, in the wait or between
calls.  `loop` is the place in `main()`: "prompt", "read", "prepare", "finalize",
"exit".  `skewed` says that stdin starts inside the text of a message that was
too long (emacsql.c:116-119); the next `scanf` finds no number there and the
program ends.  `unsettled` is a history variable: the queries sent while the
answer to an earlier one was still to come.

`accept-process-output` (emacsql.el:161) runs timers and filters, which may call `emacsql`
on the same connection.  `waiting` is the stack of calls, innermost first; only the
innermost can return, as in Lisp.  Such a call clears the buffer under the one
that waits, and the prompt that ends its own wait may be the one the other waits
for; `overlapped` is a history variable for the calls this has happened to.
They may return a wrong answer; the properties show that all others do not, and
that every call still ends.

### EmacsqlTransaction

Each client runs one `emacsql-with-transaction` whose body makes a query, goes
through a nested one (as closql's inside forge's), then reads a counter and
writes it back incremented.  `level` is `emacsql--transaction-level`; `pc` the next
statement.  `Locked` is SQLITE_BUSY (codes 5 and 6 of
`emacsql-sqlite-condition-alist`), `Fail` any other error that SQLite answers, and an error or C-g
between statements.  SQLite's locks, its deferred BEGIN and the pending lock of a COMMIT that
waits for readers are the environment, marked external in the map.

What SQLite does with a statement (`Executes`) and what the macro does are apart, since a
call can be left before its answer.  `Abandon` is C-g or the timeout in `emacsql-wait`
(emacsql.el:161-163): neither is `emacsql-locked`, so every level is left, and the statement
waits in `late`.  The cleanup's ROLLBACK goes behind it; it gets its own answer (`Unwind`), or is
left in its turn or takes the answer to the statement before (`Leave`).  `Late` executes what
nobody waits for, or refuses it.  `Die` is the death of the process at any place, and
`DieAfterCommit` its death when COMMIT has taken effect and Emacs has not got the answer.  After
`DieAfterCommit`, or `Abandon` at COMMIT and `Late`, the macro signals with its body in the
file: nothing in emacsql.el:268-275 can tell.  `unsure` is the history variable for these
clients, and `SingleUnlessInnerRetry` allows it of them only; what a client has in the file is all or
nothing in any case.

### IronyServer, CommandLine, Completion, CompDBCache

One command is on its way at a time: `todo` is what is left of the chain of a
request, `sent` the words of the current command, `pipe` its line of characters, `reply` the
answer.  `Send` quotes the words as `irony--quote-strings` does; `ServerStep` is one turn of
the loop of `main()`: `Unescape` reads the line a character at a time, `ParseCommand` accepts
or rejects it, `Execute` is the switch.  `Receive` is the update function and decides
whether the chain goes on.

A word is a sequence of characters; the keywords and numbers, in which no
character is special, are one character long.  A newline in a word is left out: it
would be two lines.  `erange` says that `errno` is `ERANGE`, which `strtol` does not clear and
any call of libclang may set (Command.cpp:48).

Translation units are addresses in `heap`; an address is used again after
`clang_disposeTranslationUnit`, so a pointer to a disposed unit would be seen as one to
nothing or to another unit.  A unit carries its file, its flags and the unsaved texts
of its last parse; an answer carries the same (`about`), which the properties compare
with the request.  `libclang` is external: it may fail in `parse`, `reparse` and
`codeCompleteAt`.  In `Reparse` the first parse and the reparse that follows it are one
step, since nothing can come between.

`Completion` is the loop of `Irony::candidates` over the chunks, as a function folded over
a completion string, and the cutting functions of `irony-completion.el`.  `CutsAreRight` is
the reference: what the annotation and the template should be, said in terms of
chunks, and when the cuts of the code give it.  A wide character in front of a cut moves
it, since the server counts bytes and Emacs characters, but one move is not seen: behind a
wide character in the last placeholder the brace that ends the field goes behind as many
characters more, and if these are `}` themselves the template is the one that was meant
(`MovesNothing`).  Priority, result type and brief comment are passed through unread and left
out.

`CompDBCache` splits `fromDirectory` at its `stat`: a tool may write the file between the
`stat` and the load.  Versions of a file are counted, its time is in seconds;
`rewritten` records a file that was written twice within one.  Times that go
backwards, and databases other than `compile_commands.json`, are not modelled.

`IronyServer` extends these three; the lookup is two of its actions, `LookUp` and
`Options`, and `UsesCache` proves that it implements `CdbSpec`.

Not modelled: `help`, `set-debug`, `exit` and `completion-diagnostics`, which the client never
sends, `invalidateCachedTU` and `invalidateAllCachedTUs`, which nothing calls, the options of
`main()`, and the decoding of the process output, taken to be UTF-8.

### IronyUnsaved

`text` is the tick of a buffer, `disk` the version in its file (0: no file),
`known` the record, `entry` the server's table, `flight` the command of the current
task with the reply it got.  A request keeps the set of its tasks; the code runs
them in the order of a list, the model in any order.  `Schedule` computes the
tasks as `irony--unsaved-buffers-tasks` does; `StartSet` writes the text of the
moment under the path of the moment, while `SetSucceeded` records the state of the
time of scheduling.  `needs`, `calm`, `failed` and `stale` are history variables.
The early exit of set-unsaved (`eq` of the record and the state) is left out: the
state was created for this task, so it is never the recorded object.  Undo
back to the saved text and reverting a buffer are not modelled.

### PdfInfo

One buffer, one page, one document.  A content of the document is a number, made
by an edit or by another program; an image is the content it shows, so the cache
is a set of contents (page widths and the limit of the cache are left out).
`stack` holds the tasks that wait in `pdf-info-query`, innermost last: only the top
one can go on, and while it waits anything the event loop may run can push
another.  `tq` is the transaction queue, `inq` and `out` the pipes; an answer is one
unit, since `tq` waits for its last line.  `call` numbers are the model's own: the
program matches answers and closures by order alone, which is what `InStep` is
about.

Commands of the user (`PutAnnot`, `Save`) run when nothing waits; `Render` and
`Prefetch` at any time, as redisplay and timers do; `Revert` at any time when
auto-revert may, that is when the flag is off and the file has changed.  `Query`
contains `pdf-info-process-assert-running` with its restart, `NoRestart` is its
refusal.  `PutAnnotReturns` is what follows the answer to `editannot`, alone or in
the body of `pdf-annot-with-atomic-modifications`; `Signal` is every error that
leaves a task, with the unwind form of that macro.  `calm` is a history variable:
it is lost when the server dies or the cache is cleared under a waiting rendering
(pdf-cache.el:289 then puts an old image), and regained by a clearing that finds
neither.

Not modelled: adding and deleting annotations (see `PdfAnnot`), the data cache,
`pdf-info-quit` and `pdf-info-kill`, several documents, a query whose file cannot be opened
(it is among the errors of `CmdFails`).

### Epdfinfo, PdfAnnot

`Epdfinfo` has the handlers of `epdfinfo.c` on one page as operators: `GetForPage` is
`annoation_get_for_page`, which reads the page when the list is empty, numbering from 0;
`AddAnnot`, `DelAnnot` and `Printed` are the commands.  An annotation of poppler is a number,
a key `annot-<page>-<i>` is its `i`.

`PdfAnnot` has the functions of `pdf-annot.el`.  An entry the client holds is a key, and
besides, for the properties, the annotation it stood for and the opening of the
document (`epoch`) it was got in.  `task` is the function that waits between two
queries: the edit after an addition, its undoing, or a loop of deletions with the
entries still to go.  Anything Emacs does in a wait (display, auto-revert, the death
of the process) comes between.  The hooks read the list buffer anew; a close does
so too, and opens the document again (pdf-annot.el:1702).

Three history variables bound what is claimed: `lost` after the error path of
`cmd_delannot` has freed an annotation that stays in the list (epdfinfo.c:2752-2764), `crossed`
after a key of a closed document has been used on the new one, `touched` while the
file has been changed by others.  Other pages, the column editor of the list, C-g in a query
and poppler's own bookkeeping are not modelled.

## Runs

| run | instance | states | shows |
|---|---|---|---|
| `iotask_eot` | 3 requests, 2 buffers, chains of 1-2 tasks | 1.8 M | safety and refinement |
| `iotask_early` | 3 requests, 1 buffer, 1 task, early rejection, fairness | 91 k | every request is answered |
| `irony_server` | 2 files, 2 lists of flags, 2 texts, 3 requests; 2 directories, 3 versions, 3 seconds; 79 words; 1620 completion strings | 3.5 M | units, answers, lines, candidates, databases |
| `emacsql` | 3 queries, 2 of them nested, fairness | 206 k | answers and queries in step; every call returns |
| `emacsql_late` | 2 queries | violation | a late answer is taken for the next one |
| `transaction` | 3 clients, 2 levels, symmetry | 379 k | all or nothing, also with statements executed late; no lost update, nothing left open |
| `transaction_nested` | 2 clients, 2 levels | violation | a retry of an inner level |
| `unsaved` | 2 buffers, one of a new file, 3 versions, 3 requests, 2 queued | 3.2 M | records and entries agree, parses see edits |
| `unsaved_race` | 1 buffer | violation | a request in the middle of a first set-unsaved |
| `pdfinfo` | 4 queries, 3 contents, fairness | 534 k | closures and answers in step, fresh images, no hidden edits, queries end |
| `pdf_annot` | 3 annotations, 3 openings | 1.6 M | list, table and keys agree; list buffer and modified flag are right |
| `pdfinfo_restart` | 2 queries, fairness | violation | a query orphaned by a nested restart |

Why the bounds are enough.  Three requests give a running head, one queued behind
it and one that a callback schedules; two tasks make a chain (in `iotask_early`, where liveness is checked, chains have one task: what happens between two tasks is left to the safety properties and the refinement of `iotask_eot`).  Three queries give
one that is abandoned, one that takes its answer, and one that may be back in
step.  Two clients meet a lock at every statement, a third lets two readers be in
the way of a commit.  Three versions of a text are the one sent, the one saved
and one more; three requests let a set, a reset and a second set meet.  Four queries of
`pdfinfo` are an edit, a save, its close and one that is prefetched or nested; or a
rendering with a close nested in it and two to follow; three contents are that of
the file, an edited one and one written by another program.  In `emacsql` a call nested in
another leaves one query for a call that comes after both; with four queries and
nesting to depth three the safety properties hold too (6.4 M states, run by hand).

`irony_server` runs four kinds of sessions that share only the loop, and splitting
them loses nothing: commands on files read and write no variable of the cache of
databases, the words of a line matter only until it has been parsed, and a
completion string only in `candidates`.  In the session "files" two files make one active
while the other's unit is parsed or disposed of; two lists of flags of one length,
with a backslash and with `--`, make flags change and change back; three requests are a
first one, one that changes something and one that asks.  In "databases" three
versions and three seconds make a file be written twice in one second, or between
a `stat` and a load.  "words" has all words of up to two characters of six, alone and
inside others; "strings" has a name with up to one chunk before and three behind
it, in which two placeholders, a wide character, a closing brace and a second name may
occur.
In `pdf_annot` one annotation is deleted and its key given to another while
a third remains; with three openings a key is carried over a save or revert, and
over a death after that.  Deadlock
is not checked because every instance stops when its bound is reached.
Symmetry is used in `transaction` only, where all properties are symmetric in the
clients and none is a liveness property.

Fairness.  `IOTask`: weak fairness of the Lisp code (callbacks return), of the
event loop (Emacs delivers output and deaths when it waits) and of the process
finishing an answer, unless it dies.  Nothing is assumed of scheduling, killing or
dying.  `Emacsql`: weak fairness of the Emacs side (the wait loop tests again
after each `accept-process-output`) and of `main()`, whose SQLite calls terminate.
`PdfInfo`: weak fairness of what follows a wait, of the filter, and of the server, which answers every command
line it reads unless it dies; nothing is assumed of what starts a query.

Properties that exclude something say so: `SettledReturnsOwnResult` is about
queries sent when nothing was outstanding, `SingleUnlessInnerRetry` about clients
that did not retry an inner level, and allows a body in the file after an error to those
whose COMMIT gave no answer, `CalmParseSeesEdits` about requests not
scheduled in the middle of a first set-unsaved, about files that exist, and
about a record none of whose set-unsaved has failed, `AnswersOwnRequest` about
requests of a process all of whose words so far survive quoting, `ExitsOnlyFor` allows those that do not
and an `errno` left at `ERANGE`, `ServedIsFresh` a file written twice in one second,
`KeyNamesOwn` is about keys of the open document, `ListIsCurrent` and `UnmodifiedIsFile` exclude
`lost` and `crossed`, `SettledReturnsOwnResult`, `AnswersInOrder` and `OutOfStepOnlyAfterAbandon` the
calls that overlap, `CalmCacheFresh` about times
when `calm` holds, `SavedIsShown` about a file nobody else has changed, and
`EveryUndisturbedCallReturns` about a stack without a task whose server was replaced
under it.

## Findings

Four runs end in a violation of what a docstring or the protocol says:
`emacsql_late` (an abandoned query's answer is returned to the next call),
`transaction_nested` (a lock in a nested level splits the transaction),
`unsaved_race` (a request in the middle of a first set-unsaved is parsed with old
text) and `pdfinfo_restart` (a query waits for ever when a nested one has replaced
its dead server).  PROJECT.json quotes the lines.

## Proofs

`IOTask_proofs` proves, for any sets of requests and buffers, chains of any length
and either kind of `:update`: `TypeOK`, `Accounted`, `HeadRuns`, `NoOrphans`, and that
`IOTask` implements `RequestService`.  The only assumption is `IOTaskAssumption`.

None of the invariants is inductive alone.  `HeadRuns` speaks of moments when the
Lisp stack is empty, but an unstarted head is left behind by design while a
callback runs; what makes it right is that a frame that will start it, or abort
it, is on the stack.  `IInv` is

- `TypeOK` and `Accounted`;
- `QueueInv`: the queue has no duplicates, its members have tasks left, and only
  its head may have been started;
- `ControlInv`: below the top of the stack there are only callbacks and the frames
  that follow them; the frames that use the head find one; an unstarted head has
  a "start", "safe" or "abort" frame; a dead process with a queue has an "abort".

Each action has a lemma that it preserves `IInv`; actions that only pop or push
frames share lemmas about the stack, and `SeqLemmas` holds the facts about
sequences.  `OutputBelongsToHead` needs two invariants more: `ProcessInv`, that a dead
process sends nothing and the queue is aborted only after its last output was
read, and `AnswerInv`, that at most one message is under way, none while the head of
the queue `Resting`, and that a piece of output is of the head's message.  The refinement maps `accepted` to `submitted` and `left` to `todo`:
`Schedule` is `Submit`, `CheckContinue` is `Advance`, `CheckAnswer` and `AbortNext` are
`Answer`, all other steps stutter; the head of the queue is the abstract
`Current` by `Accounted`.

`IronyServer_proofs` proves, for any files, directories, flags, texts, prefixes, words and
number of requests:

- `NoStaleDatabase`, for the cache of databases alone: `ServedIsFresh` speaks of what was
  just served; the inductive `CdbInv` adds types, that what is cached was loaded from its
  own directory (`CacheIsOwn`), that no file is newer than the clock (`FilesInv`), that a
  cached version with the time of its file is the file's (`CacheInv`), and that a
  cached version which a lookup is about to take is not older than what the lookup has
  seen (`LookupInv`);
- `UsesCache`: `Spec => CdbSpec`, the refinement of the cache's own specification, and
  from it `OptionsAreFresh`;
- `NoUnitLost`: `NoDangling` always holds.  Every action leaves the units alone, resets
  `activeTu_`, or sets it to the unit just parsed; the lemmas about `TuRef`, `Reparse`,
  `Dispose`, `ParseOutcomes` and `GetOutcomes` show that they preserve `MapsInv`.  A unit carries
  its file, so `MapsInv` implies that no two files share one, without which disposing
  of one would take the other's;
- `WordsArrive`: quoting and scanning fit together for words of any length, but for the
  apostrophe.  `Takes(P, line, Q)` says that a scanner in a state of `P` is in one of `Q`
  behind the line; it holds of a line when it holds of its characters, and of a line
  when it holds of its pieces.  A quoted word takes the scanner from the gap before it
  to the end of the argument it was.  Conversely the first apostrophe that is not quoted makes the
  argument lack it, whatever comes behind (`Pending`, `Broken`), so the words read are not
  those sent;
- `NoForeignAnswer` and `NoOtherExit`: `RequestInv` follows a request through its commands.
  `Stage` says which of them can be on its way, `PipeInv` and `ReplyInv` what the line or
  the answer in its place is, `ToldInv` that the texts of the server are those the
  client was told of, and `ReadyInv` that the active unit, or the results, are those
  of the request when its query is next.  Each line of the client is accepted and read
  as it was meant (`CommandRead` and the lemmas before it);
- `ServerTypes`;
- `CutsHold`, for completion strings of any length.  What the loop has collected
  after each chunk is said by `Nameless` before the typed text and by `Named` behind it: its
  texts are the joined texts of the chunks so far, and its marks the sizes in bytes of
  the text before and after each placeholder (`AllMarks`).  `Posts` has the text after each chunk, and the cuts that were
  meant are its lengths (`LengthsCut`, `MeantIs`).  A template says of each character
  of the text where it is (`IsWhole`), so two lists of cuts give the same template only if they
  are the same, but for the end of the last field (`SameOnlyIf`, `Shows`), and that one may
  move over closing braces (`MoveOver`).  The marks exceed the lengths by the number
  of wide characters in front, which grows along the text (`Unmoved`).

The scanner, and the argument of `Flatten`, are recursive functions.  The theorems about
induction of the library cannot be used (they take an operator as a parameter), but
induction over one set of numbers can: `Induct` of `SeqLemmas` follows from
`LessNatWF` by a least counterexample, with the set written out.

The attempt at `NoForeignAnswer` showed that the earlier form of `AnswersOwnRequest` was too
strong for larger instances: a set-unsaved of a name with an even number of apostrophes
is accepted and leaves a text under another name, which a later request, all of
whose words survive, finds or does not find in its place.  The property is now about
requests before which, in the life of the process, no word was lost (field `intact`
of `asked`).

The attempt at `CutsHold` found the exception of `MovesNothing`: `CutsAreRight` had said that
the template is right exactly when all characters up to the end of the last placeholder are one byte
long.  TLC had not found it, since no completion string of the instance had a `}`; it does
since one has.  A cut that fails is now an error of the whole template, as the signal of
`substring` is, where the model had put a text in place of the piece.

Assumptions: `CompDBAssumption`, `ServerAssumption` (addresses are not the null pointer),
`CharacterAssumption` (what the client writes between characters, or signals, is no character itself),
`StringAssumption` (a completion string is a sequence of chunks of the kinds of `CXCompletionChunkKind`),
`CommandLineAssumption` (numbers have no special character), `WordsAssumption` (file names, directories and
prefixes are not the separator `--`; `irony.el` sends absolute names or a single `-`).

`Emacsql_proofs` proves, for any number of queries and any depth of calls in the wait of
others: `TypeOK`, `AnswersInOrder`, `OutOfStepOnlyAfterAbandon`, `SettledReturnsOwnResult`.  No field
of a message says which query it answers, so the argument is about `Output`, the process
buffer, the pipe and the stdio buffer one behind the other: steps of the back-end
add a piece at its end (`Grown`), Emacs takes pieces from its start (`Kept`), and a
read from the pipe leaves it as it is.  `EmacsqlInv` consists of

- `MachineInv`, what the place in `main()` says of the streams, and `CallsInv`, who waits in
  whose wait;
- `StdinInv` and `OutputInv`: queries are read in the order they were sent in, and behind a prompt
  there are only answers to later ones.  `PassedInv` says of a call that was answered
  that everything still to come belongs to later queries; with it `AnswersInOrder` is
  kept by a `Return`;
- `StepsInv`: in a connection where no call was abandoned or overlapped there is one
  prompt at most, and none once the last call is over; so a call that starts out of
  step must have such a call before it;
- `OwnInv`: what a query in step and alone finds in the output until it returns.

Assumption: `EmacsqlAssumption`.

`EmacsqlTransaction_proofs` proves, for any number of clients and any depth of nesting:
`TypeOK`, `SingleUnlessInnerRetry`, `ReturnedIsComplete`, `NothingLeftOpen` and `NoLostUpdate`, all
properties of the run.  The first four speak of the end of a transaction; on the way there,
`TransactionInv` says what its draft must hold: a client that has not repeated an inner level
(`Progress`) has one increment for every level it has been through at its place in the macro,
and all of them while a COMMIT it has left waits to be executed.  A client that has left a
statement only rolls back (`LateInv`): behind that statement there are ROLLBACKs alone, and the
last of them closes what is open, however late it is executed.  A client that repeated an
inner level alone has lost the transaction around it, and never has one again; no BEGIN of
its own is still to be executed.  `KeptInv` is the property itself.
`NoLostUpdate` rests on `CountInv`, which holds while nobody is alone: a client with a
draft holds the write lock and its draft continues the counter of the file by its
own increments, and a client between its read and its write, waited for or left, holds a lock
and has read what is still current.  A commit therefore finds no other client with a
draft or a value it has read (`CommitAlone`).  That the sum over all clients grows by what one of
them publishes (`TotalGrows`) goes by the cardinality of the sets the fold runs through.
Assumption: `TransactionAssumption`.

`IronyUnsaved_proofs` proves, for any buffers, versions, requests and lengths of the queue:
`TypeOK`, `CalmParseSeesEdits`, `NothingHeldUnknown`, `RecordNotAhead`.  A parse is right because
of tasks that were put before it by requests long answered, or by requests still in
front of it.  `UnsavedInv` therefore follows what a queued request relies on through
the tasks ahead of its parse: what it needs is brought by a task of its own or of a
request in front (`Provided`), or is in the server, or is in the file while the server
holds nothing; a reset ahead of it only forgets what has been saved (`ResetInv`).  `FlightInv`
says the same of the command under way, whose effect on the server comes before its
effect on the record.  Lemmas of its own say that ticks only grow, what sending
a command does, and what finishing a task, a request or a buffer removes.
Assumption: `UnsavedAssumption`.

`PdfInfo_proofs` proves, for any number of queries and of contents: `TypeOK`, `InStep`,
`SavedIsShown` and `CalmCacheFresh`.
`InStep` compares concatenated sequences; `StepInv` says it place by place, which a step
at either end of a pipe keeps.  `TypeOK` is not inductive either, because an answer is written
to the cache or to the file as it comes: `CarryInv` says that an answer under way carries
the content its command promises, `TaskInv` that the task which waits for it is of that
kind, and `EditIsBase` that an edit waits below everything else on the stack.
The other two are true between commands only; what makes them true then is under way
before.  `TasksInv` has the order of the calls, on the stack, in the queue and in the
pipes.  `ShownInv`: a buffer without the modified flag that does not show its file has a
close or the end of an edit under way.  `OutFresh`: an answer that tells of another
content than the document has is followed by the answer of the edit or the close that made it.
`CalmInv`: an image of another content is thrown away by the end of a task that
waits, or by the delayed hooks.
Assumption: `PdfAssumption`.

`PdfAnnot_proofs` proves, for any number of annotations and of openings: `TypeOK`, `Bookkeeping`,
`KeyNamesOwn`, `ListIsCurrent` and `UnmodifiedIsFile`, all properties of the run.  `Sound` is what
`Consistent` leaves out: poppler has no annotation twice, the table has none under two
keys, and the keys are below the number of annotations made, which the search for a
free key keeps because a page has no more annotations than were made.  Each
handler of `Epdfinfo` has a lemma that its result is `Sound` and `Follows` from what it
found, that is, that a key which named its own annotation still does.  `HeldInv` says so
of every entry of the client (`Kept`), for openings that are over too.  `ListInv` and `FileInv`
are the two last properties while a function waits: the list lacks the annotation it has added, and
an unmodified buffer has it besides those of the file.
Assumption: `AnnotAssumption`.

Every invariant and action property of a passing run is a theorem.  Only model-checked is
liveness (`EveryRequestAnswered`, `EveryCallReturns`, `EveryUndisturbedCallReturns`), which needs
ENABLED.

## Not modelled

Besides what the sections above name: the compiler of EmacSQL and closql (pure
translations), the searches of compile options in `irony-cdb*.el`, the display of the
three packages, synctex, the configuration itself, and the other packages.
PROJECT.json gives the reason for each.

SQLite is not part of the repository, only its header `sqlite3.h` is, which declares an
interface; `EmacsqlTransaction` has its locks as the environment.

## Plan

1. Process replacement: two processes that share one buffer (irony.el:631,655), and
   the frame of `irony-iotask-run` (irony-iotask.el:399), in a composition with `IOTask`.
2. Several documents and the data cache in `PdfInfo`.
