---------------------------- MODULE IronyUnsaved ----------------------------
(***************************************************************************)
(* How irony-server gets to know the text of modified buffers: the         *)
(* set-unsaved and reset-unsaved tasks of irony.el and the table of        *)
(* unsaved files of irony-server (Irony.cpp).                              *)
(*                                                                         *)
(* A request is scheduled with the tasks that its buffers need at that     *)
(* moment, and ends with a parse; the tasks run later, one at a time and   *)
(* in the order of the requests (what IOTask shows of irony-iotask.el),    *)
(* while the user goes on editing, saving and killing buffers.             *)
(***************************************************************************)
EXTENDS Naturals, Sequences

CONSTANTS
    Buf,            \* the irony-mode buffers, each visiting a file of its own
    NewFile,        \* those whose file does not exist before it is saved
    NoPath,         \* "-", the path of a file that does not exist
    MaxTick,        \* bound: the number of versions of a buffer
    MaxReq,         \* bound: the number of requests scheduled
    MaxQueue        \* bound: requests in the queue at a time

ASSUME UnsavedAssumption ==
    /\ NewFile \subseteq Buf /\ NoPath \notin Buf
    /\ MaxTick \in Nat \ {0} /\ MaxReq \in Nat /\ MaxQueue \in Nat

VARIABLES
    text,           \* version of a buffer's text, its chars-modified-tick
    modified,       \* buffer-modified-p
    disk,           \* version in the file, 0 when there is no file
    live,           \* the live buffers
    known,          \* process property :unsaved-buffers
    queue,          \* the requests in the queue
    flight,         \* the command of the current task, as sent
    scheduled,      \* requests scheduled so far
    entry,          \* irony-server: filenameToContent_, 0 when there is none
    failed,         \* history: the records whose set-unsaved has failed since
    stale           \* history: what the last parse got to see too late

bufferVars == <<text, modified, disk, live>>
vars == <<bufferVars, known, queue, flight, scheduled, entry, failed, stale>>

Version == 0..MaxTick
Path == Buf \cup {NoPath}

\* The state of a buffer as recorded for the process.  Only states with the
\* modified flag are ever recorded.
State == [tick : Version, exists : BOOLEAN]
NoState == [tick |-> 0, exists |-> FALSE]

Task == [cmd : {"set", "reset"}, buf : Buf, state : State]

\* needs: the version a parse has to see of a buffer, 0 for any; calm: no
\* set-unsaved was on its way when the request was scheduled.
Request == [tasks : SUBSET Task, needs : [Buf -> Version], calm : BOOLEAN]

ParseTask == [cmd |-> "parse"]
Idle == [reply |-> "idle"]

Init ==
    /\ text = [b \in Buf |-> 1]
    /\ modified = [b \in Buf |-> FALSE]
    /\ disk = [b \in Buf |-> IF b \in NewFile THEN 0 ELSE 1]
    /\ live = Buf
    /\ known = [b \in Buf |-> NoState]
    /\ queue = <<>>
    /\ flight = Idle
    /\ scheduled = 0
    /\ entry = [p \in Path |-> 0]
    /\ failed = {}
    /\ stale = [bufs |-> {}, calm |-> TRUE]

Exists(b) == disk[b] # 0

\* irony--get-buffer-path-for-server
PathForServer(b) == IF Exists(b) THEN b ELSE NoPath

-----------------------------------------------------------------------------
(***************************************************************************)
(* The user.                                                               *)
(***************************************************************************)

Edit(b) ==
    /\ b \in live /\ text[b] < MaxTick
    /\ text' = [text EXCEPT ![b] = @ + 1]
    /\ modified' = [modified EXCEPT ![b] = TRUE]
    /\ UNCHANGED <<disk, live, known, queue, flight, scheduled, entry, failed, stale>>

Save(b) ==
    /\ b \in live /\ modified[b]
    /\ disk' = [disk EXCEPT ![b] = text[b]]
    /\ modified' = [modified EXCEPT ![b] = FALSE]
    /\ UNCHANGED <<text, live, known, queue, flight, scheduled, entry, failed, stale>>

\* A killed buffer keeps its modified flag, its file name and its tick.
KillBuffer(b) ==
    /\ b \in live
    /\ live' = live \ {b}
    /\ UNCHANGED <<text, modified, disk, known, queue, flight, scheduled, entry, failed, stale>>

-----------------------------------------------------------------------------
(***************************************************************************)
(* irony.el: what a request is made of when it is scheduled.               *)
(***************************************************************************)

\* Fault: (and (file-exists-p file) file) for (and file (file-exists-p file)).
Bug_StateOf(b) == [tick |-> text[b], exists |-> IF Exists(b) THEN b ELSE FALSE]

\* irony--buffer-state-create
StateOf(b) == [tick |-> text[b], exists |-> Exists(b)]

Known(b) == known[b] # NoState

\* `equal' of the recorded state and the new one
Same(b) == modified[b] /\ known[b] = StateOf(b)

\* irony--get-buffer-change-alist: recorded buffers, dead ones included, and
\* the modified ones among the live
Considered(b) == Known(b) \/ (b \in live /\ modified[b])

NeedsReset(b) == ~modified[b] /\ Known(b) /\ known[b].exists

\* irony--buffer-state-compare, and the task for its outcome
TasksFor(b) ==
    IF ~Considered(b) \/ Same(b) THEN {}
    ELSE IF modified[b] THEN {[cmd |-> "set", buf |-> b, state |-> StateOf(b)]}
    ELSE IF NeedsReset(b) THEN {[cmd |-> "reset", buf |-> b, state |-> NoState]}
    ELSE {}

SetOnItsWay ==
    flight # Idle /\ flight.task.cmd = "set" /\ ~Known(flight.task.buf)

\* irony--parse-task scheduled by irony--run-task-asynchronously
Schedule ==
    /\ scheduled < MaxReq /\ Len(queue) < MaxQueue
    /\ scheduled' = scheduled + 1
    /\ queue' = Append(queue,
          [tasks |-> UNION {TasksFor(b) : b \in Buf},
           needs |-> [b \in Buf |-> IF b \in live /\ Exists(b) THEN text[b] ELSE 0],
           calm |-> ~SetOnItsWay])
    /\ UNCHANGED <<bufferVars, known, flight, entry, failed, stale>>

-----------------------------------------------------------------------------
(***************************************************************************)
(* irony.el: the tasks of the first request.                               *)
(***************************************************************************)

Send(task, path, version) ==
    flight' = [reply |-> "none", task |-> task, path |-> path, version |-> version]

\* The task is done, the next one of the chain is up.
TaskDone(task) ==
    /\ queue' = [queue EXCEPT ![1].tasks = @ \ {task}]
    /\ flight' = Idle

\* An error skips the continuations.
RequestDone ==
    /\ queue' = Tail(queue)
    /\ flight' = Idle

\* irony--t-set-unsaved, :start: the text as it is now, under the path of now
StartSet(task) ==
    /\ task.cmd = "set" /\ task.buf \in live
    /\ Send(task, PathForServer(task.buf), text[task.buf])
    /\ UNCHANGED <<bufferVars, known, queue, scheduled, entry, failed, stale>>

\* with-current-buffer signals: the buffer is dead
StartSetFails(task) ==
    /\ task.cmd = "set" /\ task.buf \notin live
    /\ RequestDone
    /\ UNCHANGED <<bufferVars, known, scheduled, entry, failed, stale>>

\* irony--t-reset-unsaved, :start
StartReset(task) ==
    /\ task.cmd = "reset"
    /\ IF Known(task.buf)
       THEN Send(task, PathForServer(task.buf), 0) /\ queue' = queue
       ELSE TaskDone(task)
    /\ UNCHANGED <<bufferVars, known, scheduled, entry, failed, stale>>

StartTask ==
    /\ queue # <<>> /\ flight = Idle
    /\ \E task \in queue[1].tasks :
          StartSet(task) \/ StartSetFails(task) \/ StartReset(task)

StartParse ==
    /\ queue # <<>> /\ flight = Idle
    /\ queue[1].tasks = {}
    /\ Send(ParseTask, NoPath, 0)
    /\ UNCHANGED <<bufferVars, known, queue, scheduled, entry, failed, stale>>

Replied(cmd, reply) == flight # Idle /\ flight.reply = reply /\ flight.task.cmd = cmd

\* Fault: the state of now is recorded, not the one the task was made for.
Bug_Recorded(task) == StateOf(task.buf)

Recorded(task) == task.state

\* irony--t-set-unsaved, :on-success
SetSucceeded ==
    /\ Replied("set", "success")
    /\ known' = [known EXCEPT ![flight.task.buf] = Recorded(flight.task)]
    /\ TaskDone(flight.task)
    /\ UNCHANGED <<bufferVars, scheduled, entry, failed, stale>>

SetFailed ==
    /\ Replied("set", "error")
    /\ RequestDone
    /\ UNCHANGED <<bufferVars, known, scheduled, entry, failed, stale>>

\* irony--t-reset-unsaved, :finish, whatever the reply
ResetFinished ==
    /\ Replied("reset", "success") \/ Replied("reset", "error")
    /\ known' = [known EXCEPT ![flight.task.buf] = NoState]
    /\ failed' = failed \ {flight.task.buf}
    /\ IF flight.reply = "success" THEN TaskDone(flight.task) ELSE RequestDone
    /\ UNCHANGED <<bufferVars, scheduled, entry, stale>>

ParseFinished ==
    /\ Replied("parse", "success") \/ Replied("parse", "error")
    /\ RequestDone
    /\ UNCHANGED <<bufferVars, known, scheduled, entry, failed, stale>>

-----------------------------------------------------------------------------
(***************************************************************************)
(* irony-server.                                                           *)
(***************************************************************************)

Reply(reply) == flight' = [flight EXCEPT !.reply = reply]

\* Irony::setUnsaved
SetUnsaved ==
    /\ Replied("set", "none")
    /\ entry' = [entry EXCEPT ![flight.path] = flight.version]
    /\ failed' = failed \ {flight.task.buf}
    /\ Reply("success")
    /\ UNCHANGED <<bufferVars, known, queue, scheduled, stale>>

\* Irony::setUnsaved, "file-read-error"
SetUnsavedFails ==
    /\ Replied("set", "none")
    /\ entry' = [entry EXCEPT ![flight.path] = 0]
    /\ failed' = failed \cup {b \in {flight.task.buf} : Known(b)}
    /\ Reply("error")
    /\ UNCHANGED <<bufferVars, known, queue, scheduled, stale>>

\* Fault: the entry is not erased.
Bug_Erase == entry' = entry

Erase == entry' = [entry EXCEPT ![flight.path] = 0]

\* Irony::resetUnsaved; "no-such-entry" when there was none
ResetUnsaved ==
    /\ Replied("reset", "none")
    /\ Reply(IF entry[flight.path] = 0 THEN "error" ELSE "success")
    /\ Erase
    /\ UNCHANGED <<bufferVars, known, queue, scheduled, failed, stale>>

\* What libclang reads for the file of a buffer.
Seen(b) == IF entry[b] # 0 THEN entry[b] ELSE disk[b]

\* Irony::parse
Parse ==
    /\ Replied("parse", "none")
    /\ stale' = [bufs |-> {b \in live : Seen(b) < queue[1].needs[b]},
                 calm |-> queue[1].calm /\ failed = {}]
    /\ Reply("success")
    /\ UNCHANGED <<bufferVars, known, queue, scheduled, entry, failed>>

\* Irony::parse, "parse-error"
ParseFails ==
    /\ Replied("parse", "none")
    /\ Reply("error")
    /\ UNCHANGED <<bufferVars, known, queue, scheduled, entry, failed, stale>>

\* Fault: what was recorded for the old process is kept for the new one.
Bug_Forget == known' = known

Forget == known' = [b \in Buf |-> NoState]

\* The process dies, its requests are aborted, and the next request starts
\* another one, which has neither entries nor properties.
Restart ==
    /\ scheduled > 0
    /\ queue' = <<>> /\ flight' = Idle
    /\ entry' = [p \in Path |-> 0]
    /\ failed' = {}
    /\ Forget
    /\ UNCHANGED <<bufferVars, scheduled, stale>>

-----------------------------------------------------------------------------

User == \E b \in Buf : Edit(b) \/ Save(b) \/ KillBuffer(b)

Client ==
    \/ Schedule \/ StartTask \/ StartParse
    \/ SetSucceeded \/ SetFailed \/ ResetFinished \/ ParseFinished

Server == SetUnsaved \/ SetUnsavedFails \/ ResetUnsaved \/ Parse \/ ParseFails \/ Restart

Next == User \/ Client \/ Server

Spec == Init /\ [][Next]_vars

-----------------------------------------------------------------------------
(***************************************************************************)
(* Properties.                                                             *)
(***************************************************************************)

Flight ==
    {Idle} \cup [reply : {"none", "success", "error"}, task : Task \cup {ParseTask},
                 path : Path, version : Version]

TypeOK ==
    /\ text \in [Buf -> Version] /\ disk \in [Buf -> Version]
    /\ modified \in [Buf -> BOOLEAN]
    /\ live \in SUBSET Buf
    /\ known \in [Buf -> State]
    /\ queue \in Seq(Request)
    /\ flight \in Flight
    /\ scheduled \in 0..MaxReq
    /\ entry \in [Path -> Version]
    /\ failed \in SUBSET Buf
    /\ stale \in [bufs : SUBSET Buf, calm : BOOLEAN]

\* "UNSAVED-CONTENT-FILE contains the effective content of FILE": a parse sees
\* every live buffer at least as it was when the request was scheduled.
ParseSeesEdits == stale.bufs = {}

\* It does for files that exist from the start and requests not scheduled in
\* the middle of a first set-unsaved, as long as no set-unsaved of a buffer with a
\* record has failed, however requests, edits, saves, kills and restarts
\* interleave.
CalmParseSeesEdits == stale.calm => stale.bufs \subseteq NewFile

\* The server holds text only for files the client has a record of, or is
\* about to make one: nothing it holds can be forgotten there for ever.
NothingHeldUnknown ==
    \A b \in Buf \ NewFile :
        entry[b] # 0 =>
            \/ Known(b)
            \/ /\ flight # Idle /\ flight.task.cmd = "set"
               /\ flight.task.buf = b /\ flight.reply = "success"

\* The record never claims more than the server was sent.
RecordNotAhead ==
    \A b \in Buf \ NewFile : entry[b] # 0 => known[b].tick <= entry[b]

=============================================================================
