------------------------------- MODULE IOTask -------------------------------
(***************************************************************************)
(* irony-iotask.el: the queue of I/O tasks in front of one helper process. *)
(*                                                                         *)
(* A request (the code's "ectx") is a chain of packaged tasks, a callback  *)
(* and the buffer it was scheduled from.  The head of the queue talks to   *)
(* the process; the process answers each message with a response the event *)
(* loop hands to the filter in pieces.  All of it is one Lisp thread, but  *)
(* the callback is arbitrary code: it may schedule requests, kill buffers, *)
(* or wait, and while it waits the filter and the sentinel run inside it.  *)
(* The model therefore keeps the Lisp call stack: a frame is what remains  *)
(* to be executed of one of the mutually recursive functions of the code.  *)
(***************************************************************************)
EXTENDS Naturals, Sequences

CONSTANTS
    Req,            \* the requests that may be scheduled, each at most once
    Buf,            \* the buffers requests are scheduled from
    NoBuf,          \* the schedule-buffer of a request not yet scheduled
    MaxChain,       \* the longest chain of tasks of a request
    EarlyReject     \* may an :update function give up before the response ends?

ASSUME IOTaskAssumption ==
    /\ MaxChain \in Nat \ {0}
    /\ EarlyReject \in BOOLEAN
    /\ NoBuf \notin Buf

VARIABLES
    q,              \* process property :ectx-q
    started,        \* the requests whose `started' slot is t
    left,           \* tasks of a request from the current one to the last
    tag,            \* irony-iotask-result--tag of the current packaged task
    buf,            \* the schedule-buffer slot
    live,           \* the live buffers
    status,         \* "run", "dead" (sentinel not yet run), "reaped"
    inbox,          \* messages sent to the process and not yet answered
    halfway,        \* part of the answer to the first message is written
    pipe,           \* output of the process Emacs has not yet read
    text,           \* the process buffer: output since the last erase-buffer
    stack,          \* what the Lisp thread has still to execute, top first
    accepted,       \* history: requests accepted by irony-iotask-schedule
    answered,       \* history: requests popped from the queue
    outcome         \* history: the result a request was popped with

queueVars == <<q, started, left, tag, buf>>
serverVars == <<inbox, halfway>>
history == <<accepted, answered, outcome>>
vars == <<queueVars, live, status, serverVars, pipe, text, stack, history>>

Tags == {"unset", "value", "error"}
Frames == {"start", "check", "callback", "safe", "abort"}
Outcomes == {"value", "error", "aborted"}

\* A message is named by the request and the task of its chain that sent it.
Message == [req : Req, task : 1..MaxChain]
Chunk == [msg : Message, last : BOOLEAN]

Init ==
    /\ q = <<>>
    /\ started = {}
    /\ left = [r \in Req |-> 0]
    /\ tag = [r \in Req |-> "unset"]
    /\ buf = [r \in Req |-> NoBuf]
    /\ live = Buf
    /\ status = "run"
    /\ inbox = <<>> /\ halfway = FALSE
    /\ pipe = <<>> /\ text = <<>>
    /\ stack = <<>>
    /\ accepted = <<>> /\ answered = <<>>
    /\ outcome = [r \in Req |-> "none"]

-----------------------------------------------------------------------------
(***************************************************************************)
(* The Lisp thread.                                                        *)
(***************************************************************************)

Push(frames, s) == frames \o s

Top(f) == stack # <<>> /\ Head(stack) = f

OnStack(f) == \E i \in 1..Len(stack) : stack[i] = f

\* Return from the function on top of the stack, or go on with others.
Continue(frames) == stack' = Push(frames, Tail(stack))

\* Emacs runs filters, sentinels and commands between two commands, or when
\* the code of a callback waits.
EventLoop == stack = <<>> \/ Top("callback")

\* The callback is called in the schedule buffer, and not at all when that
\* buffer is dead; an error it signals is demoted to a message.
CallCallback(r) == IF buf[r] \in live THEN <<"callback">> ELSE <<>>

\* (pop (process-get process :ectx-q)), with the result its callback gets
Pop(how) ==
    /\ q' = Tail(q)
    /\ answered' = Append(answered, Head(q))
    /\ outcome' = [outcome EXCEPT ![Head(q)] = how]

\* Fault: the new request is put in front of the queue.
Bug_Enqueue(r) == q' = <<r>> \o q

\* append the new task to the queue
Enqueue(r) == q' = Append(q, r)

\* Fault: the test for a running task is made before the append.
Bug_StartIfAlone ==
    stack' = IF Len(q) = 1 THEN Push(<<"start">>, stack) ELSE stack

\* run task if none were running
StartIfAlone ==
    stack' = IF Len(q') = 1 THEN Push(<<"start">>, stack) ELSE stack

\* irony-iotask-schedule, from a command or from inside a callback.  The call
\* is refused once Emacs knows that the process is gone; "dead" is the moment
\* between its death and the sentinel, where process-live-p may say either.
Schedule(r, b, n) ==
    /\ EventLoop
    /\ left[r] = 0
    /\ b \in live
    /\ status # "reaped"
    /\ Enqueue(r)
    /\ left' = [left EXCEPT ![r] = n]
    /\ buf' = [buf EXCEPT ![r] = b]
    /\ accepted' = Append(accepted, r)
    /\ StartIfAlone
    /\ UNCHANGED <<started, tag, live, status, serverVars, pipe, text,
                   answered, outcome>>

\* Fault: the output of the previous task stays in the process buffer.
Bug_EraseBuffer == text' = text

\* erase the buffer before we call :start so the next :update starts anew
EraseBuffer == text' = <<>>

\* irony-iotask--start-next up to its call of --check-result.  The :start
\* function sends its message, or knows the result already, or signals: a
\* send to a process that is gone always does.
StartNext ==
    /\ Top("start")
    /\ LET r == Head(q) IN
       /\ started' = started \cup {r}
       /\ EraseBuffer
       /\ \/ /\ status = "run"
             /\ inbox' = Append(inbox, [req |-> r, task |-> left[r]])
             /\ tag' = tag
          \/ /\ \E t \in {"value", "error"} : tag' = [tag EXCEPT ![r] = t]
             /\ inbox' = inbox
    /\ Continue(<<"check">>)
    /\ UNCHANGED <<q, left, buf, live, status, halfway, pipe, history>>

\* irony-iotask--check-result while the head has no result yet
CheckNoResult ==
    /\ Top("check")
    /\ tag[Head(q)] = "unset"
    /\ Continue(<<>>)
    /\ UNCHANGED <<queueVars, live, status, serverVars, pipe, text, history>>

\* irony-iotask--check-result with a result: :on-success or :on-error, then
\* :finish; an error signalled by one of them becomes the result.
FinalTag(t) == IF t = "value" THEN {"value", "error"} ELSE {"error"}

\* Fault: the continuations are forgotten.
Bug_DropContinuation(r) == FALSE

\* Fault: a nil continuation is taken for one.
Bug_NilContinuation(r) == left[r] > 0

HasContinuation(r) == left[r] > 1

\* we got a non-error, we can chain to the next continuation
CheckContinue ==
    /\ Top("check")
    /\ LET r == Head(q) IN
       /\ tag[r] = "value"
       /\ HasContinuation(r)
       /\ left' = [left EXCEPT ![r] = @ - 1]
       /\ tag' = [tag EXCEPT ![r] = "unset"]
    /\ Continue(<<"start">>)
    /\ UNCHANGED <<q, started, buf, live, status, serverVars, pipe, text, history>>

\* no continuation or an error, call the callback
CheckAnswer ==
    /\ Top("check")
    /\ LET r == Head(q) IN
       /\ tag[r] # "unset"
       /\ \E t \in FinalTag(tag[r]) :
             /\ t = "value" => ~HasContinuation(r)
             /\ tag' = [tag EXCEPT ![r] = t]
             /\ Pop(t)
       /\ Continue(CallCallback(r) \o <<"safe">>)
    /\ UNCHANGED <<started, left, buf, live, status, serverVars, pipe, text, accepted>>

CallbackReturns ==
    /\ Top("callback")
    /\ Continue(<<>>)
    /\ UNCHANGED <<queueVars, live, status, serverVars, pipe, text, history>>

\* Fault: only the first request after an idle period is ever started.
Bug_HeadMustStart == FALSE

HeadMustStart == q # <<>> /\ Head(q) \notin started

\* irony-iotask--start-next-safe
StartNextSafe ==
    /\ Top("safe")
    /\ Continue(IF HeadMustStart THEN <<"start">> ELSE <<>>)
    /\ UNCHANGED <<queueVars, live, status, serverVars, pipe, text, history>>

-----------------------------------------------------------------------------
(***************************************************************************)
(* The event loop: process output, process death, killed buffers.          *)
(***************************************************************************)

\* What an :update function makes of the process buffer.  Those of irony.el
\* wait for the end-of-transmission line; the interface lets others throw
\* 'invalid-msg as soon as they see something wrong.
UpdateTags(chunk) ==
    IF chunk.last THEN {"value", "error"}
    ELSE {"unset"} \cup (IF EarlyReject THEN {"error"} ELSE {})

\* irony-iotask-process-filter up to its call of --check-result
Filter ==
    /\ EventLoop
    /\ pipe # <<>>
    /\ q # <<>>
    /\ text' = Append(text, Head(pipe))
    /\ pipe' = Tail(pipe)
    /\ \E t \in UpdateTags(Head(pipe)) : tag' = [tag EXCEPT ![Head(q)] = t]
    /\ stack' = Push(<<"check">>, stack)
    /\ UNCHANGED <<q, started, left, buf, live, status, serverVars, history>>

\* irony-iotask-process-filter without a task: it signals "spurious output"
FilterSpurious ==
    /\ EventLoop
    /\ pipe # <<>>
    /\ q = <<>>
    /\ pipe' = Tail(pipe)
    /\ UNCHANGED <<queueVars, live, status, serverVars, text, stack, history>>

\* Fault: the death of the process is only reported.
Bug_Sentinel ==
    /\ EventLoop
    /\ status = "dead" /\ pipe = <<>>
    /\ status' = "reaped"
    /\ UNCHANGED <<queueVars, live, serverVars, pipe, text, stack, history>>

\* irony-iotask-process-sentinel: Emacs calls it once, after the last output
Sentinel ==
    /\ EventLoop
    /\ status = "dead"
    /\ pipe = <<>>
    /\ status' = "reaped"
    /\ stack' = Push(<<"abort">>, stack)
    /\ UNCHANGED <<queueVars, live, serverVars, pipe, text, history>>

\* Fault: only the running task is aborted.
Bug_AbortNext ==
    /\ Top("abort")
    /\ q # <<>>
    /\ Pop("aborted")
    /\ Continue(CallCallback(Head(q)))
    /\ UNCHANGED <<started, left, tag, buf, live, status, serverVars, pipe, text, accepted>>

\* one turn of the loop of irony-iotask--abort-all
AbortNext ==
    /\ Top("abort")
    /\ q # <<>>
    /\ Pop("aborted")
    /\ stack' = Push(CallCallback(Head(q)), stack)
    /\ UNCHANGED <<started, left, tag, buf, live, status, serverVars, pipe, text, accepted>>

AbortDone ==
    /\ Top("abort")
    /\ q = <<>>
    /\ Continue(<<>>)
    /\ UNCHANGED <<queueVars, live, status, serverVars, pipe, text, history>>

KillBuffer(b) ==
    /\ EventLoop
    /\ b \in live
    /\ live' = live \ {b}
    /\ UNCHANGED <<queueVars, status, serverVars, pipe, text, stack, history>>

-----------------------------------------------------------------------------
(***************************************************************************)
(* The helper process: it answers its messages in order, each with a       *)
(* response that Emacs may receive in one piece or in two, until it dies.  *)
(***************************************************************************)

Output(last) == pipe' = Append(pipe, [msg |-> Head(inbox), last |-> last])

ServerPart ==
    /\ status = "run" /\ inbox # <<>> /\ ~halfway
    /\ Output(FALSE)
    /\ halfway' = TRUE
    /\ UNCHANGED <<queueVars, live, status, inbox, text, stack, history>>

ServerLast ==
    /\ status = "run" /\ inbox # <<>>
    /\ Output(TRUE)
    /\ inbox' = Tail(inbox)
    /\ halfway' = FALSE
    /\ UNCHANGED <<queueVars, live, status, text, stack, history>>

Die ==
    /\ status = "run"
    /\ status' = "dead"
    /\ inbox' = <<>> /\ halfway' = FALSE
    /\ UNCHANGED <<queueVars, live, pipe, text, stack, history>>

-----------------------------------------------------------------------------

Lisp ==
    \/ StartNext \/ CheckNoResult \/ CheckContinue \/ CheckAnswer
    \/ CallbackReturns \/ StartNextSafe \/ AbortNext \/ AbortDone

Events == Filter \/ FilterSpurious \/ Sentinel

Environment ==
    \/ \E r \in Req, b \in Buf, n \in 1..MaxChain : Schedule(r, b, n)
    \/ \E b \in Buf : KillBuffer(b)
    \/ ServerPart \/ ServerLast \/ Die

Next == Lisp \/ Events \/ Environment

Spec == Init /\ [][Next]_vars

\* Lisp code runs on (a callback returns), the event loop delivers output and
\* deaths, and the process answers each message unless it dies.
Fairness == WF_vars(Lisp) /\ WF_vars(Events) /\ WF_vars(ServerLast)

FairSpec == Spec /\ Fairness

-----------------------------------------------------------------------------
(***************************************************************************)
(* Properties.                                                             *)
(***************************************************************************)

\* The variables have the shapes the declarations describe.
TypeOK ==
    /\ q \in Seq(Req)
    /\ started \in SUBSET Req
    /\ left \in [Req -> 0..MaxChain]
    /\ tag \in [Req -> Tags]
    /\ buf \in [Req -> Buf \cup {NoBuf}]
    /\ live \in SUBSET Buf
    /\ status \in {"run", "dead", "reaped"}
    /\ inbox \in Seq(Message)
    /\ halfway \in BOOLEAN
    /\ pipe \in Seq(Chunk)
    /\ text \in Seq(Chunk)
    /\ stack \in Seq(Frames)
    /\ accepted \in Seq(Req)
    /\ answered \in Seq(Req)
    /\ outcome \in [Req -> Outcomes \cup {"none"}]

\* No request is lost, duplicated or overtaken, whatever its callbacks
\* schedule and wherever the process dies: those popped and those queued are,
\* in this order, those accepted.
Accounted == accepted = answered \o q

\* No lost wake-up: when Emacs is idle the head of a non-empty queue has been
\* started, although start-next-safe is only called after the callback and
\* schedule starts a request only when it is alone in the queue.  The process
\* is never given two requests at once.
HeadRuns ==
    /\ stack = <<>> /\ q # <<>> => Head(q) \in started
    /\ \A i \in 2..Len(q) : q[i] \notin started

\* Nobody waits for a process that is gone: after the sentinel has emptied the
\* queue no request is left in it, nor put into it again by a callback.
NoOrphans == status = "reaped" /\ ~OnStack("abort") => q = <<>>

\* The output the filter will hand to :update was written for the task that
\* will read it, for the :update functions that wait for the end of their
\* response: no result is computed from the answer to another message.
Concerns(msg) == q # <<>> /\ msg = [req |-> Head(q), task |-> left[Head(q)]]

OutputBelongsToHead ==
    ~EarlyReject =>
        /\ \A i \in 1..Len(pipe) : Concerns(pipe[i].msg)
        /\ \A i \in 1..Len(inbox) : Concerns(inbox[i])
        /\ EventLoop /\ q # <<>> /\ Head(q) \in started =>
              \A i \in 1..Len(text) : Concerns(text[i].msg)

\* irony-iotask.el implements the abstract request service.
Service == INSTANCE RequestService WITH
    submitted <- accepted, todo <- left

ImplementsService == Service!RSSpec

\* Every accepted request is answered: by its result or, when the process
\* dies, by 'irony-iotask-aborted or by the error of the failed send.
EveryRequestAnswered ==
    \A r \in Req : (left[r] > 0) ~> (outcome[r] # "none")

=============================================================================
