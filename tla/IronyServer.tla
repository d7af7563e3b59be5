---------------------------- MODULE IronyServer ----------------------------
(***************************************************************************)
(* irony-server and the requests of irony.el: the command loop (main.cpp), *)
(* the commands on files (Irony.cpp), the translation units and their      *)
(* flags (TUManager.cpp) and the compilation databases (CompDBCache).      *)
(*                                                                         *)
(* A request of the client is a chain of commands, each a line of words    *)
(* (CommandLine).  One command is on its way at a time and a chain is not  *)
(* interrupted by another one (that is what IOTask shows of                *)
(* irony-iotask.el), but queries such as "diagnostics" name no file: they  *)
(* are about whatever the server has active.                               *)
(*                                                                         *)
(* A translation unit is a handle into a heap, so that a pointer to a unit *)
(* that was disposed of can be told; handles are used again, as addresses  *)
(* are.  libclang (external) may fail in every call.                       *)
(***************************************************************************)
EXTENDS CommandLine, CompDBCache, Completion, TLC

CONSTANTS
    File,           \* the paths the client names, words
    Flags,          \* the lists of compile options, sequences of words
    Text,           \* the versions of unsaved text, characters
    Handle,         \* addresses of translation units, numbers from 1
    String,         \* libclang's completion strings
    Prefix,         \* the prefixes completed, words
    MaxRequests     \* bound: requests in a behaviour

ASSUME ServerAssumption == MaxRequests \in Nat /\ Handle \subseteq Nat \ {0}

\* The client names files by their absolute paths or by a single "-", and
\* completes identifiers: none of these words is "--".
ASSUME WordsAssumption ==
    /\ \A w \in File \cup Prefix \cup Dir : w \in Seq(STRING) /\ w # <<Dash, Dash>>
    /\ \A flags \in Flags : flags \in Seq(Seq(STRING))
    /\ Text \subseteq STRING \ Special

ASSUME StringAssumption == String \subseteq CompletionString

VARIABLES
    \* the client
    asked,          \* the request: what it is, its file and flags, whether its words
                    \* survive quoting, and all those sent to this process before
    todo,           \* its commands that have not been sent yet
    told,           \* the unsaved text of a file, as far as the server has confirmed it
    requests,       \* requests so far
    \* the pipes
    sent,           \* the words of the command on its way
    pipe,           \* its line, until it is answered
    reply,          \* the answer, until it is received
    \* the server
    units,          \* TUManager::translationUnits_, a map
    flagsFor,       \* TUManager::flagsPerFileCache_, a map
    heap,           \* the live translation units by handle
    activeTu,       \* Irony::activeTu_
    file,           \* Irony::file_
    results,        \* Irony::activeCompletionResults_, what they are about
    content,        \* Irony::filenameToContent_, a map
    cxUnsaved,      \* Irony::cxUnsavedFiles_, what libclang gets to see
    erange          \* errno is ERANGE

clientVars == <<asked, todo, told, requests>>
unitVars == <<units, flagsFor, heap>>
ironyVars == <<activeTu, file, results, content, cxUnsaved>>
serverVars == <<unitVars, ironyVars, erange>>
fileVars == <<clientVars, sent, pipe, reply, serverVars>>
vars == <<fileVars, cdbVars>>

NoMap == [x \in {} |-> 0]
Set(map, key, value) ==
    [k \in DOMAIN map \cup {key} |-> IF k = key THEN value ELSE map[k]]
Without(map, key) == [k \in DOMAIN map \ {key} |-> map[k]]
Get(map, key, default) == IF key \in DOMAIN map THEN map[key] ELSE default

Null == 0
Nothing == [kind |-> "nothing"]
NoLine == <<>>

ServerInit ==
    /\ units = NoMap /\ flagsFor = NoMap /\ heap = NoMap
    /\ activeTu = Null /\ file = <<>> /\ results = Nothing
    /\ content = NoMap /\ cxUnsaved = NoMap
    /\ erange = FALSE

Init ==
    /\ asked = Nothing /\ todo = <<>> /\ told = NoMap /\ requests = 0
    /\ sent = <<>> /\ pipe = NoLine /\ reply = Nothing
    /\ ServerInit
    /\ CdbInit

-----------------------------------------------------------------------------
(***************************************************************************)
(* irony.el: the commands of a request, in order.                          *)
(***************************************************************************)
K(keyword) == <<keyword>>
One == K(CHOOSE n \in Number : TRUE)
Separator == <<Dash, Dash>>

ParseLine(f, flags) == <<K("parse"), f, Separator>> \o flags
CompleteLine(f, flags) == <<K("complete"), f, One, One, Separator>> \o flags

\* irony--parse-task, irony--diagnostics-task, irony--get-type-task and
\* irony--candidates-task, without the tasks for unsaved buffers
Chain(kind, f, flags, prefix) ==
    CASE kind = "parse" -> <<ParseLine(f, flags)>>
      [] kind = "diagnostics" -> <<ParseLine(f, flags), <<K("diagnostics")>>>>
      [] kind = "get-type" -> <<ParseLine(f, flags), <<K("get-type"), One, One>>>>
      [] kind = "candidates" ->
            <<CompleteLine(f, flags), <<K("candidates"), prefix, K("smart-case")>>>>

\* irony--unsaved-buffers-tasks, of one buffer; which one and why is the
\* subject of IronyUnsaved.
Unsaved ==
    {<<>>} \cup {<<<<K("set-unsaved"), f, K(t)>>>> : f \in File, t \in Text}
           \cup {<<<<K("reset-unsaved"), f>>>> : f \in File}

Idle == todo = <<>> /\ pipe = NoLine /\ reply = Nothing
MayAsk == Idle /\ requests < MaxRequests

Quotable(lines) == \A i \in 1..Len(lines) : AllSurvive(lines[i])

Request(kind, f, flags, lines) ==
    [kind |-> kind, file |-> f, flags |-> flags, survives |-> Quotable(lines),
     intact |-> Quotable(lines) /\ (asked = Nothing \/ asked.intact)]

Ask(kind, f, flags, prefix, unsaved) ==
    /\ requests' = requests + 1
    /\ todo' = unsaved \o Chain(kind, f, flags, prefix)
    /\ asked' = Request(kind, f, flags, todo')
    /\ UNCHANGED <<told, sent, pipe, reply, serverVars, cdbVars>>

\* irony--get-compile-options-task
AskOptions(d, f) ==
    /\ requests' = requests + 1
    /\ todo' = <<<<K("get-compile-options"), d, f>>>>
    /\ asked' = Request("get-compile-options", f, <<d>>, todo')
    /\ UNCHANGED <<told, sent, pipe, reply, serverVars, cdbVars>>

\* irony--server-send-command
Send ==
    /\ todo # <<>> /\ pipe = NoLine /\ reply = Nothing
    /\ sent' = Head(todo)
    /\ pipe' = QuoteStrings(Head(todo))
    /\ todo' = Tail(todo)
    /\ UNCHANGED <<asked, told, requests, reply, serverVars, cdbVars>>

\* What an answer to set-unsaved or reset-unsaved tells: after an error the
\* server has no text for the file.
Confirmed ==
    IF sent[1] = K("set-unsaved") /\ reply.kind = "success"
    THEN Set(told, Substituted(sent[2]), sent[3][1])
    ELSE IF sent[1] \in {K("set-unsaved"), K("reset-unsaved")}
    THEN Without(told, Substituted(sent[2]))
    ELSE told

Succeeded == reply.kind \in {"success", "answer", "list", "options"}

\* irony--server-command-update and irony--server-query-update.  A chain goes
\* on after a success only; it ends with an answer that cannot be read, too.
Receive ==
    /\ reply.kind \notin {"nothing", "exit"}
    /\ told' = Confirmed
    /\ todo' = IF Succeeded THEN todo ELSE <<>>
    /\ sent' = <<>>
    /\ reply' = Nothing
    /\ UNCHANGED <<asked, requests, pipe, serverVars, cdbVars>>

-----------------------------------------------------------------------------
(***************************************************************************)
(* TUManager.cpp.  A manager is [units, flagsFor, heap].                   *)
(***************************************************************************)
Manager == [units |-> units, flagsFor |-> flagsFor, heap |-> heap]

\* Fault: only the number of flags is compared.
Bug_SameFlags(m, f, flags) == Len(Get(m.flagsFor, f, <<>>)) = Len(flags)

SameFlags(m, f, flags) == Get(m.flagsFor, f, <<>>) = flags

Dispose(m, f) ==
    [m EXCEPT !.units = Set(@, f, Null), !.heap = Without(@, Get(m.units, f, Null))]

\* Fault: the unit is forgotten and not disposed of.
Bug_TuRef(m, f, flags) ==
    IF SameFlags(m, f, flags)
    THEN [m EXCEPT !.units = Set(@, f, Get(@, f, Null)), !.flagsFor = Set(@, f, flags)]
    ELSE [m EXCEPT !.units = Set(@, f, Null), !.flagsFor = Set(@, f, flags)]

\* tuRef: looking a file up makes entries for it; other flags than the last
\* time dispose of its unit.
TuRef(m, f, flags) ==
    IF SameFlags(m, f, flags)
    THEN [m EXCEPT !.units = Set(@, f, Get(@, f, Null)), !.flagsFor = Set(@, f, flags)]
    ELSE [Dispose(m, f) EXCEPT !.flagsFor = Set(@, f, flags)]

Free(m) == Handle \ DOMAIN m.heap

\* The address of a new unit
Fresh(m) == CHOOSE h \in Free(m) : TRUE

\* clang_parseTranslationUnit if there is no unit, clang_reparseTranslationUnit
Reparse(m, f, flags) ==
    LET h == IF m.units[f] = Null THEN Fresh(m) ELSE m.units[f]
        unit == [file |-> f,
                 flags |-> IF m.units[f] = Null THEN flags ELSE m.heap[h].flags,
                 seen |-> cxUnsaved]
    IN  [m EXCEPT !.units = Set(@, f, h), !.heap = Set(@, h, unit)]

\* parse: the managers it may leave.  When libclang cannot parse there is
\* still no unit; one that cannot be reparsed is disposed of.
ParseOutcomes(f, flags) ==
    LET m == TuRef(Manager, f, flags)
    IN  {Dispose(m, f)} \cup {r \in {Reparse(m, f, flags)} : m.units[f] # Null \/ Free(m) # {}}

\* getOrCreateTU: a unit that there is is taken as it is.
GetOutcomes(f, flags) ==
    LET m == TuRef(Manager, f, flags)
    IN  IF m.units[f] # Null THEN {m} ELSE ParseOutcomes(f, flags)

Install(m) == units' = m.units /\ flagsFor' = m.flagsFor /\ heap' = m.heap

-----------------------------------------------------------------------------
(***************************************************************************)
(* main.cpp and Irony.cpp: one line, one command, one answer.              *)
(***************************************************************************)
Answer(r) ==
    /\ pipe' = NoLine
    /\ reply' = r
    /\ UNCHANGED clientVars /\ UNCHANGED sent

Success == [kind |-> "success"]
Failure == [kind |-> "error"]

\* The error answers of set-unsaved and reset-unsaved lack a parenthesis.
Unreadable == [kind |-> "unreadable"]

\* Fault: the active unit is left.
Bug_ActiveAfterReset == activeTu

\* resetCache, which also disposes of the completion results
ActiveAfterReset == Null

\* Irony::parse
Parse(c) ==
    /\ c.action = "parse"
    /\ \E m \in ParseOutcomes(c.args[1], c.flags), range \in BOOLEAN :
          /\ Install(m)
          /\ activeTu' = m.units[c.args[1]]
          /\ Answer(IF activeTu' = Null THEN Failure ELSE Success)
          /\ erange' = (erange \/ range)
    /\ file' = c.args[1]
    /\ results' = Nothing
    /\ UNCHANGED <<content, cxUnsaved, cdbVars>>

\* Irony::complete
Complete(c) ==
    /\ c.action = "complete"
    /\ \E m \in GetOutcomes(c.args[1], c.flags), ok, range \in BOOLEAN :
          LET tu == m.units[c.args[1]] IN
          /\ Install(m)
          /\ results' = IF tu # Null /\ ok
                        THEN [file |-> m.heap[tu].file, flags |-> m.heap[tu].flags,
                              seen |-> cxUnsaved]
                        ELSE Nothing
          /\ Answer(IF results' = Nothing THEN Failure ELSE Success)
          /\ erange' = (erange \/ range)
    /\ activeTu' = ActiveAfterReset
    /\ UNCHANGED <<file, content, cxUnsaved, cdbVars>>

\* What a pointer points to; a unit that was disposed of is no longer there.
Deref(h) == IF h \in DOMAIN heap THEN heap[h] ELSE Nothing

\* Irony::diagnostics: an empty list if no unit is active
Diagnostics(c) ==
    /\ c.action = "diagnostics"
    /\ Answer([kind |-> "answer", about |-> Deref(activeTu)])
    /\ UNCHANGED <<serverVars, cdbVars>>

\* Irony::getType: a place in file_, in the active unit
GetType(c) ==
    /\ c.action = "get-type"
    /\ Answer([kind |-> "answer",
               about |-> IF activeTu = Null THEN Nothing ELSE [Deref(activeTu) EXCEPT !.file = file]])
    /\ UNCHANGED <<serverVars, cdbVars>>

\* Irony::candidates.  The completion string is chosen when it is looked at.
Candidates(c, strings) ==
    /\ c.action = "candidates"
    /\ \E string \in strings :
          LET style == c.args[2][1]
              prefix == c.args[1]
              printed == results # Nothing /\ IsPrinted(string, prefix, style)
          IN  Answer([kind |-> "list", about |-> results, string |-> string,
                      list |-> IF printed THEN <<CandidateOf(string, prefix, style)>> ELSE <<>>])
    /\ UNCHANGED <<serverVars, cdbVars>>

\* Irony::setUnsaved, with computeCxUnsaved, which runs after a failure too
SetUnsaved(c) ==
    /\ c.action = "set-unsaved"
    /\ \E readable \in BOOLEAN :
          LET f == c.args[1] IN
          /\ content' = IF readable THEN Set(content, f, c.args[2][1]) ELSE Without(content, f)
          /\ cxUnsaved' = content'
          /\ Answer(IF readable THEN Success ELSE Unreadable)
    /\ activeTu' = ActiveAfterReset
    /\ results' = Nothing
    /\ UNCHANGED <<unitVars, file, erange, cdbVars>>

\* Irony::resetUnsaved
ResetUnsaved(c) ==
    /\ c.action = "reset-unsaved"
    /\ content' = Without(content, c.args[1])
    /\ cxUnsaved' = content'
    /\ Answer(IF c.args[1] \in DOMAIN content THEN Success ELSE Unreadable)
    /\ activeTu' = ActiveAfterReset
    /\ results' = Nothing
    /\ UNCHANGED <<unitVars, file, erange, cdbVars>>

\* Irony::getCompileOptions: the stat, and the rest of fromDirectory
LookUp(c) ==
    /\ c.action = "get-compile-options"
    /\ c.args[1] \in Dir
    /\ Stat(c.args[1])
    /\ UNCHANGED fileVars

Options(c) ==
    /\ c.action = "get-compile-options"
    /\ FromDirectory
    /\ Answer(IF served'.version = 0 THEN Failure ELSE [kind |-> "options"])
    /\ UNCHANGED serverVars

\* A line that is rejected ends the loop, and the process.
Exit(c) ==
    /\ c.action = "rejected"
    /\ Answer([kind |-> "exit"])
    /\ UNCHANGED <<serverVars, cdbVars>>

\* The process is gone: it has ended, crashed or been killed (irony-server-kill).
\* The request is aborted; the next one starts a process.
NewProcess ==
    /\ asked # Nothing
    /\ asked' = Nothing /\ todo' = <<>> /\ told' = NoMap
    /\ sent' = <<>> /\ pipe' = NoLine /\ reply' = Nothing
    /\ units' = NoMap /\ flagsFor' = NoMap /\ heap' = NoMap
    /\ activeTu' = Null /\ file' = <<>> /\ results' = Nothing
    /\ content' = NoMap /\ cxUnsaved' = NoMap
    /\ erange' = FALSE
    /\ NewCache
    /\ UNCHANGED requests

\* The switch of main()
Execute(c, strings) ==
    \/ Parse(c) \/ Complete(c) \/ Diagnostics(c) \/ GetType(c)
    \/ Candidates(c, strings)
    \/ SetUnsaved(c) \/ ResetUnsaved(c)
    \/ LookUp(c) \/ Options(c) \/ Exit(c)

\* One turn of the loop: nextCommand, parse, and the command
ServerStep(strings) ==
    /\ pipe # NoLine /\ reply = Nothing
    /\ LET c == ParseCommand(Unescape(pipe), erange) IN Execute(c, strings)

AskAny ==
    MayAsk /\ \E kind \in {"parse", "diagnostics", "get-type", "candidates"},
       f \in File, flags \in Flags, prefix \in Prefix, unsaved \in Unsaved :
          Ask(kind, f, flags, prefix, unsaved)

AskAnyOptions == MayAsk /\ \E d \in Dir, f \in File : AskOptions(d, f)

Tools ==
    /\ Tick \/ \E d \in Dir : Write(d) \/ Delete(d)
    /\ UNCHANGED fileVars

Next == AskAny \/ AskAnyOptions \/ Send \/ Receive \/ ServerStep(String) \/ NewProcess \/ Tools

Spec == Init /\ [][Next]_vars

-----------------------------------------------------------------------------
(***************************************************************************)
(* Properties.                                                             *)
(***************************************************************************)
MapInto(map, S) == \A k \in DOMAIN map : map[k] \in S

TypeOK ==
    /\ requests \in 0..MaxRequests
    /\ MapInto(told, Text) /\ MapInto(content, Text)
    /\ DOMAIN units = DOMAIN flagsFor
    /\ MapInto(units, Handle \cup {Null})
    /\ DOMAIN heap \subseteq Handle
    /\ activeTu \in Handle \cup {Null} /\ (activeTu = Null \/ results = Nothing)
    /\ erange \in BOOLEAN
    /\ CdbTypeOK

\* No unit is lost and none is used after it was disposed of (TUManager.cpp:71
\* disposes of a unit while Irony has its address in activeTu_): the live
\* units are those in the map, each is the unit of its file with the flags
\* remembered for it, and the active one is the unit of file_.  The texts
\* libclang gets to see are pointers into the map of unsaved texts as it is.
NoDangling ==
    /\ DOMAIN heap = {units[f] : f \in DOMAIN units} \ {Null}
    /\ \A f \in DOMAIN units : units[f] # Null =>
          heap[units[f]].file = f /\ heap[units[f]].flags = flagsFor[f]
    /\ activeTu # Null => file \in DOMAIN units /\ activeTu = units[file]
    /\ cxUnsaved = content

\* A query names no file, but its answer is about the file and the compile
\* options of the request it belongs to, with the unsaved texts that the
\* server has confirmed: never about an earlier request, never with the flags
\* or texts of one, and never empty because a command between dropped the
\* unit or the results.  (A word that does not survive quoting may have left
\* the server with a text under another name.)
AnswersOwnRequest ==
    reply.kind \in {"answer", "list"} /\ asked.intact =>
        reply.about = [file |-> Substituted(asked.file), flags |-> asked.flags, seen |-> told]

\* The words of a command arrive at the server as the client sent them, as
\* many and each the same, if and only if each of them survives quoting: what
\* irony--quote-strings leaves alone, and what unescapeCommandLine joins,
\* splits and unescapes, fit together everywhere but for the apostrophe.
ArrivesAsSent == pipe # NoLine => (Unescape(pipe) = sent <=> AllSurvive(sent))

\* The client's commands do not end the server: each has the arguments that
\* CommandParser::parse asks for, however many compile options follow and
\* whatever is in them.  A line is rejected only if a word did not survive
\* quoting, or if errno was left at ERANGE by an earlier call.
ExitsOnlyFor == reply.kind = "exit" => ~asked.survives \/ erange

\* The client cuts a candidate where the server meant it to, exactly when no
\* wide character in front of a cut moves it (see CutsAreRight).
CutsWhereMeant ==
    reply.kind = "list" /\ reply.list # <<>> => CutsAreRight(reply.string, reply.list[1])
=============================================================================
