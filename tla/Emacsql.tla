------------------------------ MODULE Emacsql ------------------------------
(***************************************************************************)
(* The EmacSQL protocol: emacsql.el and emacsql-sqlite.el in Emacs, and    *)
(* the main loop of emacsql.c in the process behind the connection.        *)
(*                                                                         *)
(* A query is cleared for, sent, waited for and parsed; the only thing     *)
(* that ties an answer to its query is that the process buffer is empty    *)
(* when the query is sent, and that a prompt ends the answer.  The wait    *)
(* may be abandoned: by emacsql-global-timeout, or by the user's C-g; and  *)
(* a timer or a filter that runs in the wait may call emacsql itself.      *)
(***************************************************************************)
EXTENDS Naturals, Sequences

CONSTANTS
    MaxQuery,       \* bound: the queries sent over one connection
    MaxDepth        \* bound: the calls that wait at one time

ASSUME EmacsqlAssumption == MaxQuery \in Nat \ {0} /\ MaxDepth \in Nat \ {0}

VARIABLES
    connected,      \* the constructor has returned the connection
    issued,         \* calls of `emacsql' so far; a query is named by its number
    waiting,        \* the queries emacsql-wait waits for, the innermost first
    buffer,         \* the process buffer, a sequence of pieces of output
    result,         \* what each call returned or signalled
    process,        \* "run", "exited" (sentinel not yet run), "reaped"
    pipe,           \* output Emacs has not read
    stdin,          \* queries emacsql.c has not read
    eof,            \* stdin is closed after them
    skewed,         \* stdin starts in the middle of a message
    loop,           \* where main() of emacsql.c is
    current,        \* the query it works on
    stdio,          \* its standard output not yet flushed
    unsettled,      \* history: queries sent with an earlier answer to come
    overlapped      \* history: queries in whose wait another call was made

historyVars == <<unsettled, overlapped>>
emacsVars == <<connected, issued, waiting, buffer, result, historyVars>>
streamVars == <<pipe, stdin, eof>>
backendVars == <<skewed, loop, current, stdio>>
vars == <<emacsVars, process, streamVars, backendVars>>

Query == 1..MaxQuery

\* The pieces of output the protocol tells apart.  A piece of an answer is
\* marked with its query, which Emacs does not see.
Piece == [kind : {"rows", "success", "error"}, of : Query]
           \cup [kind : {"prompt", "complaint"}, of : {0}]

Prompt == [kind |-> "prompt", of |-> 0]

Kinds == {"unsent", "waiting", "abandoned", "lost", "garbled", "value", "error"}
Results == [kind : Kinds, of : 0..MaxQuery]

Init ==
    /\ connected = FALSE
    /\ issued = 0 /\ waiting = <<>>
    /\ buffer = <<>>
    /\ result = [n \in Query |-> [kind |-> "unsent", of |-> 0]]
    /\ process = "run"
    /\ pipe = <<>> /\ stdin = <<>> /\ eof = FALSE
    /\ skewed = FALSE /\ loop = "prompt" /\ current = 0 /\ stdio = <<>>
    /\ unsettled = {} /\ overlapped = {}

-----------------------------------------------------------------------------
(***************************************************************************)
(* Emacs.                                                                  *)
(***************************************************************************)

\* The innermost call ends.
Finish(kind, of) ==
    /\ result' = [result EXCEPT ![Head(waiting)] = [kind |-> kind, of |-> of]]
    /\ waiting' = Tail(waiting)

\* emacsql-waiting-p: the process buffer ends with a prompt
WaitingP == buffer # <<>> /\ buffer[Len(buffer)] = Prompt

\* initialize-instance, the wait for the first prompt; the pragma it sends
\* next is an ordinary query
Connect ==
    /\ ~connected
    /\ WaitingP
    /\ connected' = TRUE
    /\ UNCHANGED <<issued, waiting, buffer, result, historyVars, process,
                   streamVars, backendVars>>

\* Every prompt that answers to the queries sent so far will ever get is in
\* the process buffer.
Settled ==
    /\ stdin = <<>> /\ loop \in {"read", "exit"}
    /\ \A i \in 1..Len(pipe) : pipe[i] # Prompt

\* Fault: the buffer keeps the answer to the previous query.
Bug_Clear == buffer' = buffer

Clear == buffer' = <<>>

\* Emacs calls emacsql between other calls, or in the wait of one.
MayCall == connected /\ issued < MaxQuery /\ Len(waiting) < MaxDepth

Overlap == overlapped' = overlapped \cup {waiting[i] : i \in 1..Len(waiting)}

\* emacsql: clear the buffer and send the message.  Emacs may not know yet
\* that the process is gone; after process-send-eof it writes to nowhere.
Call ==
    /\ MayCall
    /\ process # "reaped"
    /\ LET n == issued + 1 IN
       /\ issued' = n
       /\ waiting' = <<n>> \o waiting
       /\ result' = [result EXCEPT ![n].kind = "waiting"]
       /\ stdin' = IF process = "run" /\ ~eof THEN Append(stdin, n) ELSE stdin
       /\ unsettled' = IF Settled THEN unsettled ELSE unsettled \cup {n}
    /\ Clear /\ Overlap
    /\ UNCHANGED <<connected, process, pipe, eof, backendVars>>

\* emacsql over a connection whose process is gone: the buffer is killed, or
\* process-send-string signals
CallFails ==
    /\ MayCall
    /\ process # "run"
    /\ issued' = issued + 1
    /\ result' = [result EXCEPT ![issued + 1].kind = "lost"]
    /\ IF process = "reaped" THEN buffer' = buffer ELSE Clear
    /\ Overlap
    /\ UNCHANGED <<connected, waiting, unsettled, process, streamVars, backendVars>>

\* Fault: what `read' returns first is returned, whatever it is.
Bug_Parse == Finish(buffer[1].kind, buffer[1].of)

\* emacsql-parse on the whole buffer: an error, or a value and its status;
\* `read' cannot read a prompt, nor make sense of a status without rows
Parse ==
    LET first == buffer[1] IN
    IF first.kind = "error" THEN Finish("error", first.of)
    ELSE IF first.kind = "rows"
         THEN Finish(IF buffer[2].kind = "success" THEN "value" ELSE "error", first.of)
         ELSE Finish("garbled", 0)

\* the end of emacsql-wait, then emacsql-parse
Return ==
    /\ waiting # <<>>
    /\ process # "reaped"
    /\ WaitingP
    /\ Parse
    /\ UNCHANGED <<connected, issued, buffer, historyVars, process, streamVars, backendVars>>

\* emacsql-wait gives up: 'emacsql-timeout, or `quit'
Abandon ==
    /\ waiting # <<>>
    /\ ~WaitingP
    /\ Finish("abandoned", 0)
    /\ UNCHANGED <<connected, issued, buffer, historyVars, process, streamVars, backendVars>>

\* emacsql-waiting-p in a process buffer the sentinel has killed
WaitFails ==
    /\ waiting # <<>>
    /\ process = "reaped"
    /\ Finish("lost", 0)
    /\ UNCHANGED <<connected, issued, buffer, historyVars, process, streamVars, backendVars>>

\* accept-process-output, or the event loop between two calls: whatever part
\* of the output has arrived is inserted into the process buffer
Receive ==
    /\ process # "reaped"
    /\ \E k \in 1..Len(pipe) :
          /\ buffer' = buffer \o SubSeq(pipe, 1, k)
          /\ pipe' = SubSeq(pipe, k + 1, Len(pipe))
    /\ UNCHANGED <<connected, issued, waiting, result, historyVars, process,
                   stdin, eof, backendVars>>

\* Fault: the connection has no sentinel.
Bug_Sentinel == FALSE

\* the process sentinel kills the process buffer
Sentinel ==
    /\ process = "exited"
    /\ pipe = <<>>
    /\ process' = "reaped"
    /\ buffer' = <<>>
    /\ UNCHANGED <<connected, issued, waiting, result, historyVars, streamVars, backendVars>>

\* emacsql-close
Close ==
    /\ connected /\ process = "run" /\ ~eof
    /\ eof' = TRUE
    /\ UNCHANGED <<emacsVars, process, pipe, stdin, backendVars>>

-----------------------------------------------------------------------------
(***************************************************************************)
(* main() of emacsql.c.                                                    *)
(***************************************************************************)

Write(kind) == stdio' = Append(stdio, [kind |-> kind, of |-> current])

Goto(place) == loop' = place

\* printf("#\n"); fflush(stdout);
PrintPrompt == stdio' = <<>> /\ pipe' = pipe \o Append(stdio, Prompt)

NextPrompt ==
    /\ process = "run" /\ loop = "prompt"
    /\ PrintPrompt
    /\ Goto("read")
    /\ UNCHANGED <<emacsVars, process, stdin, eof, skewed, current>>

\* scanf and buffer_read
Read ==
    /\ process = "run" /\ loop = "read" /\ ~skewed
    /\ stdin # <<>>
    /\ current' = Head(stdin)
    /\ stdin' = Tail(stdin)
    /\ Goto("prepare")
    /\ UNCHANGED <<emacsVars, process, pipe, eof, skewed, stdio>>

\* Fault: the whole message is read again after the failure.
Bug_ReadTooLong ==
    /\ process = "run" /\ loop = "read" /\ ~skewed
    /\ stdin # <<>>
    /\ current' = Head(stdin)
    /\ stdio' = Append(stdio, [kind |-> "error", of |-> Head(stdin)])
    /\ Goto("prompt")
    /\ UNCHANGED <<emacsVars, process, streamVars, skewed>>

\* buffer_grow fails before anything of the message has been read
ReadTooLong ==
    /\ process = "run" /\ loop = "read" /\ ~skewed
    /\ stdin # <<>>
    /\ stdin' = Tail(stdin)
    /\ skewed' = TRUE
    /\ current' = Head(stdin)
    /\ stdio' = Append(stdio, [kind |-> "error", of |-> Head(stdin)])
    /\ Goto("prompt")
    /\ UNCHANGED <<emacsVars, process, pipe, eof>>

\* exit() flushes what is left in the stdio buffer, a crash does not.
Exit(last) ==
    /\ process' = "exited"
    /\ pipe' = pipe \o stdio \o last
    /\ stdin' = <<>> /\ stdio' = <<>>
    /\ Goto("exit")
    /\ UNCHANGED <<emacsVars, eof, skewed, current>>

\* Fault: the program goes on behind the bytes it could not parse.
Bug_ReadOutOfSync ==
    /\ process = "run" /\ loop = "read" /\ skewed
    /\ skewed' = FALSE
    /\ stdio' = Append(stdio, [kind |-> "complaint", of |-> 0])
    /\ Goto("prompt")
    /\ UNCHANGED <<emacsVars, process, streamVars, current>>

\* "middleware parsing error": stream out of sync, quit program
ReadOutOfSync ==
    /\ process = "run" /\ loop = "read" /\ skewed
    /\ Exit(<<[kind |-> "complaint", of |-> 0]>>)

ReadEof ==
    /\ process = "run" /\ loop = "read" /\ ~skewed
    /\ stdin = <<>> /\ eof
    /\ Exit(<<>>)

PrepareFails ==
    /\ process = "run" /\ loop = "prepare"
    /\ Write("error")
    /\ Goto("prompt")
    /\ UNCHANGED <<emacsVars, process, streamVars, skewed, current>>

PrintRows ==
    /\ process = "run" /\ loop = "prepare"
    /\ Write("rows")
    /\ Goto("finalize")
    /\ UNCHANGED <<emacsVars, process, streamVars, skewed, current>>

\* printf flushes a full stdio buffer in the middle of the rows
Overflow ==
    /\ process = "run" /\ loop = "finalize"
    /\ stdio # <<>>
    /\ pipe' = pipe \o stdio
    /\ stdio' = <<>>
    /\ UNCHANGED <<emacsVars, process, stdin, eof, skewed, loop, current>>

Finalize ==
    /\ process = "run" /\ loop = "finalize"
    /\ Write("success") \/ Write("error")
    /\ Goto("prompt")
    /\ UNCHANGED <<emacsVars, process, streamVars, skewed, current>>

Crash ==
    /\ process = "run"
    /\ process' = "exited"
    /\ stdin' = <<>> /\ stdio' = <<>>
    /\ Goto("exit")
    /\ UNCHANGED <<emacsVars, pipe, eof, skewed, current>>

-----------------------------------------------------------------------------

Emacs == Connect \/ Return \/ WaitFails \/ Receive \/ Sentinel

Backend ==
    \/ NextPrompt \/ Read \/ ReadTooLong \/ ReadOutOfSync \/ ReadEof
    \/ PrepareFails \/ PrintRows \/ Finalize

Environment == Call \/ CallFails \/ Abandon \/ Close \/ Overflow \/ Crash

Next == Emacs \/ Backend \/ Environment

Spec == Init /\ [][Next]_vars

\* accept-process-output reads what there is and returns, so the loop of
\* emacsql-wait tests again; emacsql.c runs on and SQLite's steps terminate.
Fairness == WF_vars(Emacs) /\ WF_vars(Backend)

FairSpec == Spec /\ Fairness

-----------------------------------------------------------------------------
(***************************************************************************)
(* Properties.                                                             *)
(***************************************************************************)

TypeOK ==
    /\ connected \in BOOLEAN
    /\ issued \in 0..MaxQuery /\ waiting \in Seq(Query)
    /\ buffer \in Seq(Piece)
    /\ result \in [Query -> Results]
    /\ process \in {"run", "exited", "reaped"}
    /\ pipe \in Seq(Piece) /\ stdin \in Seq(Query) /\ eof \in BOOLEAN
    /\ skewed \in BOOLEAN
    /\ loop \in {"prompt", "read", "prepare", "finalize", "exit"}
    /\ current \in 0..MaxQuery
    /\ stdio \in Seq(Piece)
    /\ unsettled \subseteq Query /\ overlapped \subseteq Query

Answered(n) == result[n].kind \in {"value", "error", "garbled"}

\* "Send SQL s-expression to CONNECTION and return the results": a call of
\* `emacsql' that returns, returns what the database answered to its query.
ReturnsOwnResult ==
    \A n \in Query : Answered(n) => result[n].kind # "garbled" /\ result[n].of = n

\* A query sent when the process had answered all earlier ones gets its own
\* answer, however late, in whatever pieces and after whatever errors, unless
\* another call was made in its wait.
SettledReturnsOwnResult ==
    \A n \in Query \ (unsettled \cup overlapped) :
        Answered(n) => result[n].kind # "garbled" /\ result[n].of = n

\* A query meets an earlier answer only after an earlier call was abandoned
\* or had another one made in its wait: no answer, error or crash leaves
\* output behind that the next call could take for its own.
OutOfStepOnlyAfterAbandon ==
    \A n \in unsettled :
        \E m \in 1..n-1 : result[m].kind = "abandoned" \/ m \in overlapped

\* Even out of step, calls get answers in the order of their queries, none
\* gets the answer to a later query, and no answer is returned twice; but for
\* calls with others in their wait, which get what the last of those has left
\* in the buffer.
AnswersInOrder ==
    \A m, n \in Query \ overlapped :
        /\ Answered(n) => result[n].of <= n
        /\ m < n /\ Answered(m) /\ Answered(n) /\ result[n].of # 0 =>
              result[m].of < result[n].of

\* Every call that is not abandoned returns or signals, whether the process
\* answers, exits or crashes, and although calls made in its wait clear the
\* buffer with the prompt it waits for.
EveryCallReturns ==
    \A n \in Query : (result[n].kind = "waiting") ~> (result[n].kind # "waiting")

=============================================================================
