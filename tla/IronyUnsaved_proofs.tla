------------------------- MODULE IronyUnsaved_proofs -------------------------
(***************************************************************************)
(* Proofs about IronyUnsaved, for any number of buffers, versions and      *)
(* requests: what the server holds is known to the client, the client's    *)
(* record is never ahead of it, and a calm parse sees what it needs.       *)
(*                                                                         *)
(* The last one needs to follow what a queued request relies on through    *)
(* all the tasks that run before its parse.                                *)
(***************************************************************************)
EXTENDS IronyUnsaved, TLAPS

-----------------------------------------------------------------------------
(***************************************************************************)
(* The inductive invariant.                                                *)
(***************************************************************************)

\* The buffers whose file exists from the start
Old == Buf \ NewFile

SetOf(i, b) == \E t \in queue[i].tasks : t.cmd = "set" /\ t.buf = b
ResetOf(i, b) == \E t \in queue[i].tasks : t.cmd = "reset" /\ t.buf = b
ResetAhead(i, b) == \E j \in 1..Len(queue) : j <= i /\ ResetOf(j, b)

InFlight(cmd, b) == flight # Idle /\ flight.task.cmd = cmd /\ flight.task.buf = b

\* A buffer is modified when it is ahead of its file.
BufferInv(b) ==
    /\ 1 <= text[b] /\ disk[b] <= text[b]
    /\ b \in Old => /\ 1 <= disk[b]
                    /\ modified[b] <=> disk[b] # text[b]

\* A record is of a text there was, and of a text the server has, unless a
\* set-unsaved has failed or the record is about to be dropped.
KnownInv(b) ==
    /\ known[b].tick <= text[b]
    /\ b \in Old /\ Known(b) =>
          /\ known[b].exists
          /\ entry[b] = 0 => \/ b \in failed
                             \/ InFlight("reset", b) /\ flight.reply # "none"

\* What the server holds is known, and not older than what is known of it.
EntryInv(b) ==
    b \in Old /\ entry[b] # 0 =>
        /\ Known(b) \/ (InFlight("set", b) /\ flight.reply = "success")
        /\ known[b].tick <= entry[b]

\* A request has one task for a buffer at most.
TasksInv(i) ==
    /\ \A t, u \in queue[i].tasks : t.buf = u.buf => t = u
    /\ \A t \in queue[i].tasks : t.cmd = "set" =>
          /\ t.state.tick <= text[t.buf]
          /\ t.buf \in Old => t.state.exists

\* What a reset-unsaved will make the server forget has been saved.
ResetInv(i, b) ==
    ResetOf(i, b) =>
        /\ known[b].tick <= disk[b]
        /\ \A j \in 1..Len(queue) : \A t \in queue[j].tasks :
              j < i /\ t.cmd = "set" /\ t.buf = b => t.state.tick <= disk[b]

\* A set-unsaved on its way carries a text at least as new as its state.
SetFlightInv ==
    /\ flight.task \in queue[1].tasks
    /\ flight.path \in {flight.task.buf, NoPath}
    /\ 1 <= flight.version /\ flight.version <= text[flight.task.buf]
    /\ flight.task.state.tick <= flight.version
    /\ known[flight.task.buf].tick <= flight.version
    /\ flight.task.buf \in Old =>
          /\ flight.path = flight.task.buf
          /\ flight.reply = "success" => entry[flight.path] = flight.version

ResetFlightInv ==
    /\ flight.task \in queue[1].tasks
    /\ flight.path \in {flight.task.buf, NoPath}
    /\ flight.task.buf \in Old =>
          /\ flight.path = flight.task.buf
          /\ flight.reply # "none" => entry[flight.path] = 0

FlightInv ==
    flight # Idle =>
        /\ queue # <<>>
        /\ flight.task.cmd = "set" => SetFlightInv
        /\ flight.task.cmd = "reset" => ResetFlightInv
        /\ flight.task.cmd = "parse" => queue[1].tasks = {}

\* What request i needs of b will be there when it is parsed: it brings it
\* along, the server has it, the server has nothing and the file has it, or
\* a set-unsaved has failed and nothing in the queue hides that.
Provided(i, b) ==
    \/ SetOf(i, b) \/ ResetOf(i, b)
    \/ entry[b] # 0 /\ queue[i].needs[b] <= entry[b]
    \/ entry[b] = 0 /\ queue[i].needs[b] <= disk[b]
    \/ entry[b] = 0 /\ b \in failed /\ Known(b) /\ ~ResetAhead(i, b)

\* A reset ahead of a request, its own included, and an older text on its way
\* do no harm.
RequestInv(i, b) ==
    /\ queue[i].needs[b] <= text[b]
    /\ queue[i].calm /\ b \in live =>
          /\ ResetAhead(i, b) => SetOf(i, b) \/ queue[i].needs[b] <= disk[b]
          /\ InFlight("set", b) /\ flight.version < queue[i].needs[b] =>
                1 < i /\ (SetOf(i, b) \/ ResetOf(i, b))
          /\ Provided(i, b)

QueueInv ==
    \A i \in 1..Len(queue) :
        /\ TasksInv(i)
        /\ \A b \in Old : ResetInv(i, b) /\ RequestInv(i, b)

UnsavedInv ==
    /\ TypeOK
    /\ \A b \in Buf : BufferInv(b) /\ KnownInv(b) /\ EntryInv(b)
    /\ FlightInv
    /\ QueueInv
    /\ CalmParseSeesEdits

-----------------------------------------------------------------------------
(***************************************************************************)
(* Types.                                                                  *)
(***************************************************************************)

LEMMA Constants ==
    /\ NewFile \subseteq Buf /\ NoPath \notin Buf
    /\ MaxTick \in Nat /\ MaxTick >= 1 /\ MaxReq \in Nat /\ MaxQueue \in Nat
BY UnsavedAssumption

LEMMA RequestType ==
    ASSUME TypeOK, NEW i \in 1..Len(queue)
    PROVE  /\ queue[i] \in Request
           /\ queue[i].tasks \subseteq Task
           /\ queue[i].needs \in [Buf -> Version]
           /\ queue[i].calm \in BOOLEAN
<1>1. queue \in Seq(Request)
  BY DEF TypeOK
<1>2. queue[i] \in Request
  BY <1>1
<1> QED
  BY <1>2 DEF Request

LEMMA FlightType ==
    ASSUME TypeOK, flight # Idle
    PROVE  /\ flight \in [reply : {"none", "success", "error"}, task : Task \cup {ParseTask},
                          path : Path, version : Version]
           /\ flight.reply \in {"none", "success", "error"}
           /\ flight.path \in Path /\ flight.version \in Version
           /\ flight.task \in Task \cup {ParseTask}
           /\ flight.task.cmd # "parse" => flight.task \in Task
BY DEF TypeOK, Flight, ParseTask

\* What the two ways to go on do with the queue
LEMMA TaskDoneQueue ==
    ASSUME TypeOK, queue # <<>>, NEW task, TaskDone(task)
    PROVE  /\ queue' \in Seq(Request)
           /\ Len(queue') = Len(queue) /\ flight' = Idle
           /\ \A i \in 1..Len(queue) :
                 /\ queue'[i].needs = queue[i].needs /\ queue'[i].calm = queue[i].calm
                 /\ queue'[i].tasks = IF i = 1 THEN queue[1].tasks \ {task} ELSE queue[i].tasks
<1>1. queue \in Seq(Request) /\ 1 \in 1..Len(queue)
  BY DEF TypeOK
<1>2. queue[1] \in Request
  BY <1>1
<1> DEFINE first == [queue[1] EXCEPT !.tasks = queue[1].tasks \ {task}]
<1>3. first \in Request
  BY <1>2 DEF Request
<1>4. queue' = [queue EXCEPT ![1] = first]
  BY DEF TaskDone
<1>5. /\ first.needs = queue[1].needs /\ first.calm = queue[1].calm
      /\ first.tasks = queue[1].tasks \ {task}
  BY <1>2 DEF Request
<1> HIDE DEF first
<1>6. queue' \in Seq(Request) /\ Len(queue') = Len(queue)
  BY <1>1, <1>3, <1>4
<1>7. queue'[1] = first
  BY <1>1, <1>4
<1>8. \A i \in 1..Len(queue) : i # 1 => queue'[i] = queue[i]
  BY <1>1, <1>4
<1> QED
  BY <1>5, <1>6, <1>7, <1>8 DEF TaskDone

LEMMA RequestDoneQueue ==
    ASSUME TypeOK, queue # <<>>, RequestDone
    PROVE  /\ queue' \in Seq(Request)
           /\ Len(queue') = Len(queue) - 1 /\ flight' = Idle
           /\ \A i \in 1..Len(queue') : i + 1 \in 1..Len(queue) /\ queue'[i] = queue[i + 1]
<1>1. queue \in Seq(Request)
  BY DEF TypeOK
<1>2. queue' = Tail(queue) /\ flight' = Idle
  BY DEF RequestDone
<1>3. queue' \in Seq(Request) /\ Len(queue') = Len(queue) - 1
  BY <1>1, <1>2
<1>4. \A i \in 1..Len(queue') : queue'[i] = queue[i + 1]
  BY <1>1, <1>2, <1>3
<1> QED
  BY <1>1, <1>2, <1>3, <1>4

LEMMA TasksForType == ASSUME TypeOK, NEW b \in Buf PROVE TasksFor(b) \subseteq Task
<1>1. StateOf(b) \in State /\ NoState \in State
  BY Constants DEF TypeOK, State, StateOf, NoState, Exists, Version
<1>2. /\ [cmd |-> "set", buf |-> b, state |-> StateOf(b)] \in Task
      /\ [cmd |-> "reset", buf |-> b, state |-> NoState] \in Task
  BY <1>1 DEF Task
<1> QED
  BY <1>2 DEF TasksFor

\* What the types say of the numbers that are compared
ValuesOK ==
    /\ \A b \in Buf : /\ text[b] \in Nat /\ disk[b] \in Nat /\ entry[b] \in Nat
                      /\ modified[b] \in BOOLEAN
                      /\ known[b].tick \in Nat /\ known[b].exists \in BOOLEAN
    /\ \A i \in 1..Len(queue) :
          /\ \A b \in Buf : queue[i].needs[b] \in Nat
          /\ \A t \in queue[i].tasks : /\ t \in Task /\ t.buf \in Buf
                                       /\ t.cmd \in {"set", "reset"}
                                       /\ t.state.tick \in Nat
    /\ flight # Idle => /\ flight.version \in Nat /\ flight.path \in Path
                        /\ flight.reply \in {"none", "success", "error"}
                        /\ flight.task.cmd \in {"set", "reset"} => flight.task.buf \in Buf

LEMMA Values == TypeOK => ValuesOK
<1> SUFFICES ASSUME TypeOK PROVE ValuesOK
  OBVIOUS
<1>1. Version \subseteq Nat
  BY Constants DEF Version
<1>2. ASSUME NEW b \in Buf
      PROVE  /\ text[b] \in Nat /\ disk[b] \in Nat /\ entry[b] \in Nat
             /\ modified[b] \in BOOLEAN
             /\ known[b].tick \in Nat /\ known[b].exists \in BOOLEAN
  BY <1>1 DEF TypeOK, State, Path
<1>3. ASSUME NEW i \in 1..Len(queue), NEW b \in Buf PROVE queue[i].needs[b] \in Nat
  BY <1>1, RequestType
<1>4. ASSUME NEW i \in 1..Len(queue), NEW t \in queue[i].tasks
      PROVE  t \in Task /\ t.buf \in Buf /\ t.cmd \in {"set", "reset"} /\ t.state.tick \in Nat
  BY <1>1, RequestType DEF Task, State
<1>5. ASSUME flight # Idle
      PROVE  /\ flight.version \in Nat /\ flight.path \in Path
             /\ flight.reply \in {"none", "success", "error"}
             /\ flight.task.cmd \in {"set", "reset"} => flight.task.buf \in Buf
  BY <1>1, <1>5, FlightType DEF Task
<1> QED
  BY <1>2, <1>3, <1>4, <1>5 DEF ValuesOK

-----------------------------------------------------------------------------
(***************************************************************************)
(* The user: texts and files only get newer.                               *)
(***************************************************************************)

LEMMA Grows ==
    ASSUME UnsavedInv, TypeOK', \A b \in Buf : BufferInv(b)',
           \A b \in Buf : text[b] <= text'[b] /\ disk[b] <= disk'[b],
           live' \subseteq live,
           UNCHANGED <<known, queue, flight, scheduled, entry, failed, stale>>
    PROVE  UnsavedInv'
<1>1. ValuesOK /\ ValuesOK'
  BY Values, PTL DEF UnsavedInv
<1>2. ASSUME NEW b \in Buf PROVE KnownInv(b)' /\ EntryInv(b)'
  <2>1. KnownInv(b) /\ EntryInv(b) /\ text[b] <= text'[b]
    BY DEF UnsavedInv
  <2> QED
    BY <1>1, <2>1 DEF KnownInv, EntryInv, ValuesOK, InFlight, Known
<1>3. FlightInv'
  <2> SUFFICES ASSUME flight # Idle PROVE FlightInv'
    BY DEF FlightInv
  <2>1. CASE flight.task.cmd = "set"
    <3>1. SetFlightInv /\ queue # <<>>
      BY <2>1 DEF UnsavedInv, FlightInv
    <3>2. flight.task.buf \in Buf
      BY <1>1, <2>1 DEF ValuesOK
    <3>3. SetFlightInv'
      BY <1>1, <3>1, <3>2 DEF SetFlightInv, ValuesOK
    <3> QED
      BY <2>1, <3>1, <3>3 DEF FlightInv
  <2>2. CASE flight.task.cmd # "set"
    BY <2>2 DEF UnsavedInv, FlightInv, ResetFlightInv
  <2> QED
    BY <2>1, <2>2
<1>4. QueueInv'
  <2> SUFFICES ASSUME NEW i \in 1..Len(queue)
               PROVE  TasksInv(i)' /\ \A b \in Old : ResetInv(i, b)' /\ RequestInv(i, b)'
    BY DEF QueueInv
  <2>1. TasksInv(i)'
    <3>1. TasksInv(i)
      BY DEF UnsavedInv, QueueInv
    <3> QED
      BY <1>1, <3>1 DEF TasksInv, ValuesOK
  <2>2. ASSUME NEW b \in Old PROVE ResetInv(i, b)'
    <3>1. ResetInv(i, b) /\ b \in Buf /\ disk[b] <= disk'[b]
      BY DEF UnsavedInv, QueueInv, Old
    <3> QED
      BY <1>1, <3>1 DEF ResetInv, ResetOf, ValuesOK
  <2>3. ASSUME NEW b \in Old PROVE RequestInv(i, b)'
    <3>1. RequestInv(i, b) /\ b \in Buf /\ disk[b] <= disk'[b] /\ text[b] <= text'[b]
      BY DEF UnsavedInv, QueueInv, Old
    <3>2. /\ SetOf(i, b)' <=> SetOf(i, b)
          /\ ResetOf(i, b)' <=> ResetOf(i, b)
          /\ ResetAhead(i, b)' <=> ResetAhead(i, b)
          /\ InFlight("set", b)' <=> InFlight("set", b)
          /\ Known(b)' <=> Known(b)
      BY DEF SetOf, ResetOf, ResetAhead, InFlight, Known
    <3>3. queue[i].calm /\ b \in live => (Provided(i, b) => Provided(i, b)')
      BY <1>1, <3>1, <3>2 DEF Provided, ValuesOK
    <3> QED
      BY <1>1, <3>1, <3>2, <3>3 DEF RequestInv, ValuesOK
  <2> QED
    BY <2>1, <2>2, <2>3
<1>5. CalmParseSeesEdits'
  BY DEF UnsavedInv, CalmParseSeesEdits
<1> QED
  BY <1>2, <1>3, <1>4, <1>5 DEF UnsavedInv

LEMMA EditInv ==
    ASSUME UnsavedInv, NEW b \in Buf, Edit(b) PROVE UnsavedInv'
<1>1. ValuesOK /\ TypeOK
  BY Values DEF UnsavedInv
<1>2. text' \in [Buf -> Version] /\ modified' \in [Buf -> BOOLEAN]
  BY <1>1, Constants DEF TypeOK, Edit, Version, ValuesOK
<1>3. TypeOK'
  BY <1>1, <1>2 DEF TypeOK, Edit, Flight
<1>4. ASSUME NEW c \in Buf PROVE text[c] <= text'[c] /\ disk[c] <= disk'[c] /\ BufferInv(c)'
  <2>1. BufferInv(c)
    BY DEF UnsavedInv
  <2>2. CASE c = b
    <3>1. text'[c] = text[c] + 1 /\ modified'[c] = TRUE /\ disk' = disk
      BY <1>1, <2>2 DEF Edit, TypeOK
    <3> QED
      BY <1>1, <2>1, <3>1 DEF BufferInv, ValuesOK
  <2>3. CASE c # b
    <3>1. text'[c] = text[c] /\ modified'[c] = modified[c] /\ disk' = disk
      BY <1>1, <2>3 DEF Edit, TypeOK
    <3> QED
      BY <1>1, <2>1, <3>1 DEF BufferInv, ValuesOK
  <2> QED
    BY <2>2, <2>3
<1> QED
  BY <1>3, <1>4, Grows DEF Edit

LEMMA SaveInv ==
    ASSUME UnsavedInv, NEW b \in Buf, Save(b) PROVE UnsavedInv'
<1>1. ValuesOK /\ TypeOK
  BY Values DEF UnsavedInv
<1>2. disk' \in [Buf -> Version] /\ modified' \in [Buf -> BOOLEAN]
  BY <1>1 DEF TypeOK, Save
<1>3. TypeOK'
  BY <1>1, <1>2 DEF TypeOK, Save, Flight
<1>4. ASSUME NEW c \in Buf PROVE text[c] <= text'[c] /\ disk[c] <= disk'[c] /\ BufferInv(c)'
  <2>1. BufferInv(c)
    BY DEF UnsavedInv
  <2>2. CASE c = b
    <3>1. disk'[c] = text[c] /\ modified'[c] = FALSE /\ text' = text
      BY <1>1, <2>2 DEF Save, TypeOK
    <3> QED
      BY <1>1, <2>1, <3>1 DEF BufferInv, ValuesOK
  <2>3. CASE c # b
    <3>1. disk'[c] = disk[c] /\ modified'[c] = modified[c] /\ text' = text
      BY <1>1, <2>3 DEF Save, TypeOK
    <3> QED
      BY <1>1, <2>1, <3>1 DEF BufferInv, ValuesOK
  <2> QED
    BY <2>2, <2>3
<1> QED
  BY <1>3, <1>4, Grows DEF Save

LEMMA KillInv ==
    ASSUME UnsavedInv, NEW b \in Buf, KillBuffer(b) PROVE UnsavedInv'
<1>1. ValuesOK /\ TypeOK
  BY Values DEF UnsavedInv
<1>2. TypeOK'
  BY <1>1 DEF TypeOK, KillBuffer, Flight
<1>3. ASSUME NEW c \in Buf PROVE text[c] <= text'[c] /\ disk[c] <= disk'[c] /\ BufferInv(c)'
  <2>1. BufferInv(c)
    BY DEF UnsavedInv
  <2> QED
    BY <1>1, <2>1 DEF BufferInv, KillBuffer, ValuesOK
<1> QED
  BY <1>2, <1>3, Grows DEF KillBuffer

-----------------------------------------------------------------------------
(***************************************************************************)
(* A command is sent.  Nothing else changes, and no command was under way. *)
(***************************************************************************)

LEMMA Sends ==
    ASSUME UnsavedInv, TypeOK', flight = Idle, FlightInv',
           UNCHANGED <<bufferVars, known, queue, scheduled, entry, failed, stale>>,
           \A b \in Buf : InFlight("set", b)' => flight'.version = text[b]
    PROVE  UnsavedInv'
<1>1. ValuesOK /\ ValuesOK'
  BY Values, PTL DEF UnsavedInv
<1>2. ASSUME NEW b \in Buf PROVE BufferInv(b)' /\ KnownInv(b)' /\ EntryInv(b)'
  <2>1. BufferInv(b) /\ KnownInv(b) /\ EntryInv(b)
    BY DEF UnsavedInv
  <2> QED
    BY <2>1 DEF BufferInv, KnownInv, EntryInv, InFlight, Known, bufferVars
<1>3. ASSUME NEW i \in 1..Len(queue)
      PROVE  TasksInv(i)' /\ \A b \in Old : ResetInv(i, b)' /\ RequestInv(i, b)'
  <2>1. TasksInv(i)'
    BY DEF UnsavedInv, QueueInv, TasksInv, bufferVars
  <2>2. ASSUME NEW b \in Old PROVE ResetInv(i, b)' /\ RequestInv(i, b)'
    <3>1. ResetInv(i, b) /\ RequestInv(i, b) /\ b \in Buf
      BY DEF UnsavedInv, QueueInv, Old
    <3>2. /\ SetOf(i, b)' <=> SetOf(i, b)
          /\ ResetOf(i, b)' <=> ResetOf(i, b)
          /\ ResetAhead(i, b)' <=> ResetAhead(i, b)
          /\ Known(b)' <=> Known(b)
      BY DEF SetOf, ResetOf, ResetAhead, Known
    <3>3. ResetInv(i, b)'
      BY <3>1, <3>2 DEF ResetInv, bufferVars
    <3>4. Provided(i, b) <=> Provided(i, b)'
      BY <3>2 DEF Provided, bufferVars
    <3>5. InFlight("set", b)' => ~(flight'.version < queue'[i].needs[b])
      BY <1>1, <3>1 DEF RequestInv, ValuesOK, bufferVars
    <3>6. RequestInv(i, b)'
      BY <3>1, <3>2, <3>4, <3>5 DEF RequestInv, bufferVars
    <3> QED
      BY <3>3, <3>6
  <2> QED
    BY <2>1, <2>2
<1>4. QueueInv'
  BY <1>3 DEF QueueInv
<1>5. CalmParseSeesEdits'
  BY DEF UnsavedInv, CalmParseSeesEdits
<1> QED
  BY <1>2, <1>4, <1>5 DEF UnsavedInv

LEMMA StartParseInv == ASSUME UnsavedInv, StartParse PROVE UnsavedInv'
<1>1. TypeOK
  BY DEF UnsavedInv
<1>2. flight' = [reply |-> "none", task |-> ParseTask, path |-> NoPath, version |-> 0]
  BY DEF StartParse, Send
<1>3. flight' \in Flight
  BY <1>2, Constants DEF Flight, Path, Version
<1>4. TypeOK'
  BY <1>1, <1>3 DEF TypeOK, StartParse, bufferVars, Flight
<1>5. flight'.task.cmd = "parse"
  BY <1>2 DEF ParseTask
<1>6. FlightInv'
  BY <1>5 DEF FlightInv, StartParse
<1>7. \A b \in Buf : ~InFlight("set", b)'
  BY <1>5 DEF InFlight
<1> QED
  BY <1>4, <1>6, <1>7, Sends DEF StartParse

LEMMA StartSetInv ==
    ASSUME UnsavedInv, queue # <<>>, flight = Idle, NEW task \in queue[1].tasks, StartSet(task)
    PROVE  UnsavedInv'
<1>1. TypeOK /\ ValuesOK
  BY Values DEF UnsavedInv
<1>2. 1 \in 1..Len(queue)
  BY <1>1 DEF TypeOK
<1> DEFINE b == task.buf
<1>3. task \in Task /\ task.cmd = "set" /\ b \in Buf /\ task.state.tick \in Nat
  BY <1>1, <1>2 DEF ValuesOK, StartSet
<1>4. flight' = [reply |-> "none", task |-> task, path |-> PathForServer(b), version |-> text[b]]
  BY DEF StartSet, Send
<1>5. flight' \in Flight /\ PathForServer(b) \in {b, NoPath}
  BY <1>1, <1>3, <1>4 DEF Flight, Path, PathForServer, TypeOK
<1>6. TypeOK'
  BY <1>1, <1>5 DEF TypeOK, StartSet, bufferVars, Flight
<1>7. BufferInv(b) /\ KnownInv(b) /\ TasksInv(1)
  BY <1>2, <1>3 DEF UnsavedInv, QueueInv
<1>8. b \in Old => PathForServer(b) = b
  BY <1>1, <1>3, <1>7 DEF BufferInv, PathForServer, Exists, ValuesOK
<1>9. task.state.tick <= text[b] /\ known[b].tick <= text[b] /\ 1 <= text[b]
  BY <1>3, <1>7 DEF TasksInv, KnownInv, BufferInv
<1>10. /\ flight'.task = task /\ flight'.path = PathForServer(b)
       /\ flight'.version = text[b] /\ flight'.reply = "none"
  BY <1>4
<1>11. UNCHANGED <<bufferVars, text, known, queue, scheduled, entry, failed, stale>>
  BY DEF StartSet, bufferVars
<1>12. SetFlightInv'
  BY <1>1, <1>3, <1>5, <1>8, <1>9, <1>10, <1>11 DEF SetFlightInv, ValuesOK
<1>13. FlightInv'
  BY <1>3, <1>10, <1>11, <1>12 DEF FlightInv
<1>14. \A c \in Buf : InFlight("set", c)' => flight'.version = text[c]
  BY <1>10 DEF InFlight
<1> QED
  BY <1>6, <1>11, <1>13, <1>14, Sends

LEMMA StartResetKnownInv ==
    ASSUME UnsavedInv, queue # <<>>, flight = Idle, NEW task \in queue[1].tasks,
           StartReset(task), Known(task.buf)
    PROVE  UnsavedInv'
<1>1. TypeOK /\ ValuesOK
  BY Values DEF UnsavedInv
<1>2. 1 \in 1..Len(queue)
  BY <1>1 DEF TypeOK
<1> DEFINE b == task.buf
<1>3. task \in Task /\ task.cmd = "reset" /\ b \in Buf
  BY <1>1, <1>2 DEF ValuesOK, StartReset
<1>4. /\ flight' = [reply |-> "none", task |-> task, path |-> PathForServer(b), version |-> 0]
      /\ queue' = queue
  BY DEF StartReset, Send
<1>5. flight' \in Flight /\ PathForServer(b) \in {b, NoPath}
  BY <1>3, <1>4, Constants DEF Flight, Path, PathForServer, Version
<1>6. TypeOK'
  BY <1>1, <1>4, <1>5 DEF TypeOK, StartReset, bufferVars, Flight
<1>7. BufferInv(b)
  BY <1>3 DEF UnsavedInv
<1>8. b \in Old => PathForServer(b) = b
  BY <1>1, <1>3, <1>7 DEF BufferInv, PathForServer, Exists, ValuesOK
<1>9. flight'.task = task /\ flight'.path = PathForServer(b) /\ flight'.reply = "none"
  BY <1>4
<1>10. UNCHANGED <<bufferVars, known, queue, scheduled, entry, failed, stale>>
  BY <1>4 DEF StartReset
<1>11. ResetFlightInv'
  BY <1>5, <1>8, <1>9, <1>10 DEF ResetFlightInv
<1>12. FlightInv'
  BY <1>3, <1>9, <1>10, <1>11 DEF FlightInv
<1>13. \A c \in Buf : ~InFlight("set", c)'
  BY <1>3, <1>9 DEF InFlight
<1> QED
  BY <1>6, <1>10, <1>12, <1>13, Sends

-----------------------------------------------------------------------------
(***************************************************************************)
(* A command has been answered, and the records of the buffers R are       *)
(* dropped: the queue goes on with the next task or the next request.      *)
(***************************************************************************)

Drops(R) ==
    /\ known' = [b \in Buf |-> IF b \in R THEN NoState ELSE known[b]]
    /\ failed' = failed \ R
    /\ flight' = Idle
    /\ UNCHANGED <<bufferVars, entry, stale>>

LEMMA DropsBuffers ==
    ASSUME UnsavedInv, NEW R \in SUBSET Buf, Drops(R),
           \A b \in Old : b \in R => entry[b] = 0,
           \A b \in Old : b \notin R =>
               /\ ~(InFlight("reset", b) /\ flight.reply # "none")
               /\ ~(InFlight("set", b) /\ flight.reply = "success")
    PROVE  /\ \A b \in Buf : BufferInv(b)' /\ KnownInv(b)' /\ EntryInv(b)'
           /\ FlightInv' /\ CalmParseSeesEdits'
<1>1. TypeOK /\ ValuesOK
  BY Values DEF UnsavedInv
<1>2. NoState.tick = 0
  BY DEF NoState
<1>3. ASSUME NEW b \in Buf PROVE BufferInv(b)' /\ KnownInv(b)' /\ EntryInv(b)'
  <2>1. BufferInv(b) /\ KnownInv(b) /\ EntryInv(b)
    BY DEF UnsavedInv
  <2>2. BufferInv(b)'
    BY <2>1 DEF BufferInv, Drops, bufferVars
  <2>3. CASE b \in R
    <3>1. known'[b] = NoState /\ ~Known(b)'
      BY <2>3 DEF Drops, Known
    <3>2. b \in Old => entry'[b] = 0
      BY <2>3 DEF Drops
    <3> QED
      BY <1>1, <1>2, <2>1, <2>2, <3>1, <3>2 DEF KnownInv, EntryInv, BufferInv, Drops,
         bufferVars, ValuesOK
  <2>4. CASE b \notin R
    <3>1. known'[b] = known[b] /\ (Known(b)' <=> Known(b)) /\ (b \in failed' <=> b \in failed)
      BY <2>4 DEF Drops, Known
    <3> QED
      BY <2>1, <2>2, <2>4, <3>1 DEF KnownInv, EntryInv, Drops, bufferVars
  <2> QED
    BY <2>3, <2>4
<1>4. FlightInv'
  BY DEF FlightInv, Drops
<1>5. CalmParseSeesEdits'
  BY DEF UnsavedInv, CalmParseSeesEdits, Drops
<1> QED
  BY <1>3, <1>4, <1>5

LEMMA DropsRequest ==
    ASSUME UnsavedInv, TypeOK', queue # <<>>, RequestDone, NEW R \in SUBSET Buf, Drops(R),
           \A b \in Old : b \in R => entry[b] = 0 /\ ResetOf(1, b)
    PROVE  QueueInv'
<1>1. TypeOK /\ ValuesOK /\ ValuesOK'
  BY Values, PTL DEF UnsavedInv
<1>2. /\ Len(queue) \in Nat /\ Len(queue') = Len(queue) - 1
      /\ \A i \in 1..Len(queue') : i + 1 \in 1..Len(queue) /\ queue'[i] = queue[i + 1]
  BY <1>1, RequestDoneQueue DEF TypeOK
<1>3. flight' = Idle
  BY DEF Drops
<1> SUFFICES ASSUME NEW i \in 1..Len(queue')
             PROVE  TasksInv(i)' /\ \A b \in Old : ResetInv(i, b)' /\ RequestInv(i, b)'
  BY DEF QueueInv
<1>4. i \in Nat /\ i + 1 \in 1..Len(queue) /\ queue'[i] = queue[i + 1]
  BY <1>2
<1>5. TasksInv(i)'
  <2>1. TasksInv(i + 1)
    BY <1>4 DEF UnsavedInv, QueueInv
  <2> QED
    BY <1>4, <2>1 DEF TasksInv, Drops, bufferVars
<1>6. ASSUME NEW b \in Old PROVE ResetInv(i, b)' /\ RequestInv(i, b)'
  <2>1. ResetInv(i + 1, b) /\ RequestInv(i + 1, b) /\ b \in Buf /\ KnownInv(b)
    BY <1>4 DEF UnsavedInv, QueueInv, Old
  <2>2. (SetOf(i, b)' <=> SetOf(i + 1, b)) /\ (ResetOf(i, b)' <=> ResetOf(i + 1, b))
    BY <1>4 DEF SetOf, ResetOf
  <2>3. ResetAhead(i, b)' => ResetAhead(i + 1, b)
    <3> SUFFICES ASSUME NEW j \in 1..Len(queue'), j <= i, ResetOf(j, b)'
                 PROVE  ResetAhead(i + 1, b)
      BY DEF ResetAhead
    <3>1. j + 1 \in 1..Len(queue) /\ queue'[j] = queue[j + 1] /\ j + 1 <= i + 1
      BY <1>2, <1>4
    <3>2. ResetOf(j + 1, b)
      BY <3>1 DEF ResetOf
    <3> QED
      BY <3>1, <3>2 DEF ResetAhead
  <2>4. ResetInv(i, b)'
    <3> SUFFICES ASSUME ResetOf(i, b)'
                 PROVE  /\ known'[b].tick <= disk'[b]
                        /\ \A j \in 1..Len(queue') : \A t \in queue'[j].tasks :
                              j < i /\ t.cmd = "set" /\ t.buf = b => t.state.tick <= disk'[b]
      BY DEF ResetInv
    <3>1. known'[b].tick <= known[b].tick /\ known'[b].tick \in Nat /\ disk' = disk
      BY <1>1, <2>1 DEF Drops, NoState, ValuesOK, bufferVars
    <3>2. known'[b].tick <= disk'[b]
      BY <1>1, <2>1, <2>2, <3>1 DEF ResetInv, ValuesOK
    <3>3. ASSUME NEW j \in 1..Len(queue'), NEW t \in queue'[j].tasks,
                 j < i, t.cmd = "set", t.buf = b
          PROVE  t.state.tick <= disk'[b]
      <4>1. j + 1 \in 1..Len(queue) /\ t \in queue[j + 1].tasks /\ j + 1 < i + 1
        BY <1>2, <1>4, <3>3
      <4> QED
        BY <2>1, <2>2, <3>1, <3>3, <4>1 DEF ResetInv
    <3> QED
      BY <3>2, <3>3
  <2>5. ~InFlight("set", b)'
    BY <1>3 DEF InFlight
  <2>6. /\ queue'[i].needs = queue[i + 1].needs /\ queue'[i].calm = queue[i + 1].calm
        /\ text' = text /\ live' = live /\ disk' = disk /\ entry' = entry
    BY <1>4 DEF Drops, bufferVars
  <2>7. queue[i + 1].calm /\ b \in live => Provided(i, b)'
    <3> SUFFICES ASSUME queue[i + 1].calm, b \in live PROVE Provided(i, b)'
      OBVIOUS
    <3>1. /\ Provided(i + 1, b)
          /\ ResetAhead(i + 1, b) => SetOf(i + 1, b) \/ queue[i + 1].needs[b] <= disk[b]
      BY <2>1 DEF RequestInv
    <3>2. CASE b \in R
      <4>1. entry[b] = 0 /\ ResetOf(1, b)
        BY <3>2
      <4>2. ResetAhead(i + 1, b)
        BY <1>2, <1>4, <4>1 DEF ResetAhead
      <4> QED
        BY <2>2, <2>6, <3>1, <4>1, <4>2 DEF Provided
    <3>3. CASE b \notin R
      <4>1. (Known(b)' <=> Known(b)) /\ (b \in failed' <=> b \in failed)
        BY <2>1, <3>3 DEF Drops, Known
      <4> QED
        BY <2>2, <2>3, <2>6, <3>1, <4>1 DEF Provided
    <3> QED
      BY <3>2, <3>3
  <2>8. RequestInv(i, b)'
    BY <2>1, <2>2, <2>3, <2>5, <2>6, <2>7 DEF RequestInv
  <2> QED
    BY <2>4, <2>8
<1> QED
  BY <1>5, <1>6

\* What a buffer's part of a request is when one of the tasks is done
LEMMA DoneTasks ==
    ASSUME UnsavedInv, queue # <<>>, NEW task \in queue[1].tasks, TaskDone(task),
           NEW i \in 1..Len(queue), NEW b \in Old
    PROVE  /\ SetOf(i, b)' => SetOf(i, b)
           /\ ResetOf(i, b)' => ResetOf(i, b)
           /\ ResetAhead(i, b)' => ResetAhead(i, b)
           /\ 1 < i \/ b # task.buf =>
                 (SetOf(i, b)' <=> SetOf(i, b)) /\ (ResetOf(i, b)' <=> ResetOf(i, b))
           /\ b = task.buf => /\ ~SetOf(1, b)' /\ ~ResetOf(1, b)'
                              /\ SetOf(1, b) => task.cmd = "set"
                              /\ ResetOf(1, b) => task.cmd = "reset"
<1>1. TypeOK
  BY DEF UnsavedInv
<1>2. /\ Len(queue') = Len(queue) /\ 1 \in 1..Len(queue)
      /\ \A j \in 1..Len(queue) :
            queue'[j].tasks = IF j = 1 THEN queue[1].tasks \ {task} ELSE queue[j].tasks
  <2>1. 1 \in 1..Len(queue)
    BY <1>1 DEF TypeOK
  <2> QED
    BY <1>1, <2>1, TaskDoneQueue
<1>3. \A j \in 1..Len(queue) : ResetOf(j, b)' => ResetOf(j, b)
  BY <1>2 DEF ResetOf
<1>4. SetOf(i, b)' => SetOf(i, b)
  BY <1>2 DEF SetOf
<1>5. ResetAhead(i, b)' => ResetAhead(i, b)
  BY <1>2, <1>3 DEF ResetAhead
<1>6. 1 < i \/ b # task.buf =>
         (SetOf(i, b)' <=> SetOf(i, b)) /\ (ResetOf(i, b)' <=> ResetOf(i, b))
  BY <1>2 DEF SetOf, ResetOf
<1>7. TasksInv(1)
  BY <1>2 DEF UnsavedInv, QueueInv
<1>8. ASSUME b = task.buf
      PROVE  /\ ~SetOf(1, b)' /\ ~ResetOf(1, b)'
             /\ SetOf(1, b) => task.cmd = "set"
             /\ ResetOf(1, b) => task.cmd = "reset"
  BY <1>2, <1>7, <1>8 DEF SetOf, ResetOf, TasksInv
<1> QED
  BY <1>3, <1>4, <1>5, <1>6, <1>8

LEMMA DropsTask ==
    ASSUME UnsavedInv, TypeOK', queue # <<>>, NEW task \in queue[1].tasks,
           task.cmd = "reset", TaskDone(task), NEW R \in SUBSET {task.buf}, Drops(R),
           task.buf \in Old => entry[task.buf] = 0 /\ ~Known(task.buf)'
    PROVE  QueueInv'
<1>1. TypeOK /\ ValuesOK /\ ValuesOK'
  BY Values, PTL DEF UnsavedInv
<1>2. /\ Len(queue') = Len(queue) /\ 1 \in 1..Len(queue) /\ flight' = Idle
      /\ \A j \in 1..Len(queue) :
            /\ queue'[j].needs = queue[j].needs /\ queue'[j].calm = queue[j].calm
            /\ queue'[j].tasks = IF j = 1 THEN queue[1].tasks \ {task} ELSE queue[j].tasks
  <2>1. 1 \in 1..Len(queue)
    BY <1>1 DEF TypeOK
  <2> QED
    BY <1>1, <2>1, TaskDoneQueue
<1> SUFFICES ASSUME NEW i \in 1..Len(queue)
             PROVE  TasksInv(i)' /\ \A b \in Old : ResetInv(i, b)' /\ RequestInv(i, b)'
  BY <1>2 DEF QueueInv
<1>3. \A j \in 1..Len(queue) : queue'[j].tasks \subseteq queue[j].tasks
  BY <1>2
<1>4. TasksInv(i)'
  <2>1. TasksInv(i)
    BY DEF UnsavedInv, QueueInv
  <2> QED
    BY <1>3, <2>1 DEF TasksInv, Drops, bufferVars
<1>5. ASSUME NEW b \in Old PROVE ResetInv(i, b)' /\ RequestInv(i, b)'
  <2>1. ResetInv(i, b) /\ RequestInv(i, b) /\ b \in Buf
    BY DEF UnsavedInv, QueueInv, Old
  <2>2. /\ SetOf(i, b)' => SetOf(i, b)
        /\ ResetOf(i, b)' => ResetOf(i, b)
        /\ ResetAhead(i, b)' => ResetAhead(i, b)
        /\ 1 < i \/ b # task.buf =>
              (SetOf(i, b)' <=> SetOf(i, b)) /\ (ResetOf(i, b)' <=> ResetOf(i, b))
        /\ b = task.buf /\ SetOf(1, b) => task.cmd = "set"
    BY DoneTasks
  <2>3. known'[b].tick <= known[b].tick /\ known'[b].tick \in Nat /\ disk' = disk
    BY <1>1, <2>1 DEF Drops, NoState, ValuesOK, bufferVars
  <2>4. ResetInv(i, b)'
    <3> SUFFICES ASSUME ResetOf(i, b)'
                 PROVE  /\ known'[b].tick <= disk'[b]
                        /\ \A j \in 1..Len(queue') : \A t \in queue'[j].tasks :
                              j < i /\ t.cmd = "set" /\ t.buf = b => t.state.tick <= disk'[b]
      BY DEF ResetInv
    <3>1. known'[b].tick <= disk'[b]
      BY <1>1, <2>1, <2>2, <2>3 DEF ResetInv, ValuesOK
    <3>2. ASSUME NEW j \in 1..Len(queue'), NEW t \in queue'[j].tasks,
                 j < i, t.cmd = "set", t.buf = b
          PROVE  t.state.tick <= disk'[b]
      BY <1>2, <1>3, <2>1, <2>2, <2>3, <3>2 DEF ResetInv
    <3> QED
      BY <3>1, <3>2
  <2>5. ~InFlight("set", b)'
    BY <1>2 DEF InFlight
  <2>6. /\ queue'[i].needs = queue[i].needs /\ queue'[i].calm = queue[i].calm
        /\ text' = text /\ live' = live /\ disk' = disk /\ entry' = entry
    BY <1>2 DEF Drops, bufferVars
  <2>7. ASSUME queue[i].calm, b \in live
        PROVE  /\ ResetAhead(i, b)' => SetOf(i, b)' \/ queue[i].needs[b] <= disk[b]
               /\ Provided(i, b)'
    <3>1. /\ ResetAhead(i, b) => SetOf(i, b) \/ queue[i].needs[b] <= disk[b]
          /\ Provided(i, b)
      BY <2>1, <2>7 DEF RequestInv
    <3>2. CASE b = task.buf
      <4>1. ResetAhead(i, b)
        BY <1>2, <3>2 DEF ResetAhead, ResetOf
      <4>2. (SetOf(i, b)' <=> SetOf(i, b)) \/ ~SetOf(i, b)
        BY <2>2, <3>2
      <4>3. entry[b] = 0
        BY <3>2
      <4> QED
        BY <2>2, <2>6, <3>1, <4>1, <4>2, <4>3 DEF Provided
    <3>3. CASE b # task.buf
      <4>1. (Known(b)' <=> Known(b)) /\ (b \in failed' <=> b \in failed)
        BY <2>1, <3>3 DEF Drops, Known
      <4> QED
        BY <2>2, <2>6, <3>1, <3>3, <4>1 DEF Provided
    <3> QED
      BY <3>2, <3>3
  <2>8. RequestInv(i, b)'
    BY <2>1, <2>5, <2>6, <2>7 DEF RequestInv
  <2> QED
    BY <2>4, <2>8
<1> QED
  BY <1>4, <1>5

\* A step that ends the first request and records nothing
LEMMA RequestEnds ==
    ASSUME UnsavedInv, queue # <<>>, RequestDone, flight.reply # "success" \/ flight = Idle
              \/ flight.task.cmd = "parse",
           flight = Idle \/ flight.task.cmd # "reset",
           UNCHANGED <<bufferVars, known, scheduled, entry, failed, stale>>
    PROVE  UnsavedInv'
<1>1. TypeOK
  BY DEF UnsavedInv
<1>2. queue' \in Seq(Request) /\ flight' = Idle
  BY <1>1, RequestDoneQueue
<1>3. TypeOK'
  BY <1>1, <1>2 DEF TypeOK, Flight, bufferVars
<1>4. Drops({})
  BY <1>1, <1>2 DEF Drops, TypeOK
<1>5. \A b \in Old : /\ ~(InFlight("reset", b) /\ flight.reply # "none")
                     /\ ~(InFlight("set", b) /\ flight.reply = "success")
  BY DEF InFlight
<1>6. QueueInv'
  BY <1>3, <1>4, DropsRequest
<1>7. /\ \A b \in Buf : BufferInv(b)' /\ KnownInv(b)' /\ EntryInv(b)'
      /\ FlightInv' /\ CalmParseSeesEdits'
  BY <1>4, <1>5, DropsBuffers
<1> QED
  BY <1>3, <1>6, <1>7 DEF UnsavedInv

LEMMA StartSetFailsInv ==
    ASSUME UnsavedInv, queue # <<>>, flight = Idle, NEW task \in queue[1].tasks,
           StartSetFails(task)
    PROVE  UnsavedInv'
BY RequestEnds DEF StartSetFails

LEMMA SetFailedInv == ASSUME UnsavedInv, SetFailed PROVE UnsavedInv'
<1>1. queue # <<>>
  BY DEF UnsavedInv, FlightInv, SetFailed, Replied
<1> QED
  BY <1>1, RequestEnds DEF SetFailed, Replied

LEMMA ParseFinishedInv == ASSUME UnsavedInv, ParseFinished PROVE UnsavedInv'
<1>1. queue # <<>>
  BY DEF UnsavedInv, FlightInv, ParseFinished, Replied
<1> QED
  BY <1>1, RequestEnds DEF ParseFinished, Replied

LEMMA StartResetUnknownInv ==
    ASSUME UnsavedInv, queue # <<>>, flight = Idle, NEW task \in queue[1].tasks,
           StartReset(task), ~Known(task.buf)
    PROVE  UnsavedInv'
<1>1. TypeOK /\ ValuesOK
  BY Values DEF UnsavedInv
<1>2. 1 \in 1..Len(queue)
  BY <1>1 DEF TypeOK
<1>3. task.cmd = "reset" /\ task.buf \in Buf /\ TaskDone(task)
  BY <1>1, <1>2 DEF ValuesOK, StartReset
<1>4. queue' \in Seq(Request) /\ flight' = Idle
  BY <1>1, <1>3, TaskDoneQueue
<1>5. TypeOK'
  BY <1>1, <1>4 DEF TypeOK, Flight, StartReset, bufferVars
<1>6. Drops({})
  BY <1>1, <1>4 DEF Drops, TypeOK, StartReset
<1>7. task.buf \in Old => entry[task.buf] = 0 /\ ~Known(task.buf)'
  BY <1>3 DEF UnsavedInv, EntryInv, InFlight, Known, StartReset
<1>8. QueueInv'
  BY <1>3, <1>5, <1>6, <1>7, DropsTask
<1>9. /\ \A b \in Buf : BufferInv(b)' /\ KnownInv(b)' /\ EntryInv(b)'
      /\ FlightInv' /\ CalmParseSeesEdits'
  BY <1>6, DropsBuffers DEF InFlight
<1> QED
  BY <1>5, <1>8, <1>9 DEF UnsavedInv

LEMMA ResetFinishedInv == ASSUME UnsavedInv, ResetFinished PROVE UnsavedInv'
<1>1. TypeOK /\ ValuesOK
  BY Values DEF UnsavedInv
<1>0. PICK task : task = flight.task
  OBVIOUS
<1> DEFINE b == task.buf
<1>2. /\ flight # Idle /\ task.cmd = "reset" /\ flight.reply \in {"success", "error"}
      /\ known' = [known EXCEPT ![b] = NoState] /\ failed' = failed \ {b}
      /\ IF flight.reply = "success" THEN TaskDone(task) ELSE RequestDone
      /\ UNCHANGED <<bufferVars, scheduled, entry, stale>>
  BY <1>0 DEF ResetFinished, Replied
<1>3. ResetFlightInv /\ queue # <<>> /\ b \in Buf /\ 1 \in 1..Len(queue)
  BY <1>0, <1>1, <1>2 DEF UnsavedInv, FlightInv, ValuesOK, TypeOK
<1>4. /\ task \in queue[1].tasks
      /\ b \in Old => entry[b] = 0
      /\ ResetOf(1, b)
  BY <1>0, <1>2, <1>3 DEF ResetFlightInv, ResetOf
<1>5. queue' \in Seq(Request) /\ flight' = Idle
  BY <1>1, <1>2, <1>3, TaskDoneQueue, RequestDoneQueue
<1>6. known' \in [Buf -> State]
  <2>1. NoState \in State
    BY Constants DEF NoState, State, Version
  <2> QED
    BY <1>1, <1>2, <2>1 DEF TypeOK
<1>7. TypeOK'
  BY <1>1, <1>2, <1>5, <1>6 DEF TypeOK, Flight, bufferVars
<1>8. Drops({b}) /\ ~Known(b)'
  BY <1>1, <1>2, <1>3, <1>5 DEF Drops, TypeOK, Known
<1>9. \A c \in Old : c \notin {b} => ~InFlight("reset", c) /\ ~InFlight("set", c)
  BY <1>0 DEF InFlight
<1>10. QueueInv'
  <2>1. CASE flight.reply = "success"
    BY <1>2, <1>3, <1>4, <1>7, <1>8, <2>1, DropsTask
  <2>2. CASE flight.reply # "success"
    BY <1>2, <1>3, <1>4, <1>7, <1>8, <2>2, DropsRequest
  <2> QED
    BY <2>1, <2>2
<1>11. /\ \A c \in Buf : BufferInv(c)' /\ KnownInv(c)' /\ EntryInv(c)'
       /\ FlightInv' /\ CalmParseSeesEdits'
  BY <1>3, <1>4, <1>8, <1>9, DropsBuffers
<1> QED
  BY <1>7, <1>10, <1>11 DEF UnsavedInv

-----------------------------------------------------------------------------
(***************************************************************************)
(* A successful set-unsaved is recorded.                                   *)
(***************************************************************************)

LEMMA SetSucceededInv == ASSUME UnsavedInv, SetSucceeded PROVE UnsavedInv'
<1>0. PICK task : task = flight.task
  OBVIOUS
<1> DEFINE b == task.buf
<1>1. TypeOK /\ ValuesOK
  BY Values DEF UnsavedInv
<1>2. /\ flight # Idle /\ task.cmd = "set" /\ flight.reply = "success"
      /\ known' = [known EXCEPT ![b] = task.state] /\ TaskDone(task)
      /\ UNCHANGED <<bufferVars, scheduled, entry, failed, stale>>
  BY <1>0 DEF SetSucceeded, Replied, Recorded
<1>3. SetFlightInv /\ queue # <<>> /\ b \in Buf /\ 1 \in 1..Len(queue) /\ TasksInv(1)
  BY <1>0, <1>1, <1>2 DEF UnsavedInv, FlightInv, ValuesOK, TypeOK, QueueInv
<1>4. task \in queue[1].tasks /\ task \in Task /\ task.state.tick \in Nat
  BY <1>0, <1>1, <1>3 DEF SetFlightInv, ValuesOK
<1>5. /\ queue' \in Seq(Request) /\ Len(queue') = Len(queue) /\ flight' = Idle
      /\ \A i \in 1..Len(queue) :
            /\ queue'[i].needs = queue[i].needs /\ queue'[i].calm = queue[i].calm
            /\ queue'[i].tasks = IF i = 1 THEN queue[1].tasks \ {task} ELSE queue[i].tasks
  BY <1>1, <1>2, <1>3, TaskDoneQueue
<1>6. task.state \in State
  BY <1>4 DEF Task
<1>7. known' \in [Buf -> State] /\ known'[b] = task.state
      /\ \A c \in Buf : c # b => known'[c] = known[c]
  BY <1>1, <1>2, <1>3, <1>6 DEF TypeOK
<1>8. TypeOK'
  BY <1>1, <1>2, <1>5, <1>7 DEF TypeOK, Flight, bufferVars
<1>9. ValuesOK'
  BY <1>8, Values, PTL
<1>10. /\ text' = text /\ disk' = disk /\ modified' = modified /\ live' = live
       /\ entry' = entry /\ failed' = failed
  BY <1>2 DEF bufferVars
<1>11. /\ task.state.tick <= text[b]
       /\ b \in Old => task.state.exists /\ task.state # NoState
  BY <1>2, <1>3, <1>4 DEF TasksInv, NoState
<1>12. b \in Old => /\ entry[b] # 0 /\ entry[b] = flight.version
                    /\ task.state.tick <= entry[b]
  BY <1>0, <1>1, <1>2, <1>3 DEF SetFlightInv, ValuesOK
<1>13. ASSUME NEW c \in Buf PROVE BufferInv(c)' /\ KnownInv(c)' /\ EntryInv(c)'
  <2>1. BufferInv(c) /\ KnownInv(c) /\ EntryInv(c)
    BY DEF UnsavedInv
  <2>2. BufferInv(c)'
    BY <1>10, <2>1 DEF BufferInv
  <2>3. CASE c = b
    BY <1>7, <1>10, <1>11, <1>12, <2>2, <2>3 DEF KnownInv, EntryInv, Known
  <2>4. CASE c # b
    <3>1. ~InFlight("reset", c) /\ ~InFlight("set", c)
      BY <1>0, <2>4 DEF InFlight
    <3>2. known'[c] = known[c] /\ (Known(c)' <=> Known(c))
      BY <1>7, <2>4 DEF Known
    <3> QED
      BY <1>10, <2>1, <2>2, <3>1, <3>2 DEF KnownInv, EntryInv
  <2> QED
    BY <2>3, <2>4
<1>14. FlightInv'
  BY <1>5 DEF FlightInv
<1>15. ASSUME NEW i \in 1..Len(queue)
       PROVE  TasksInv(i)' /\ \A c \in Old : ResetInv(i, c)' /\ RequestInv(i, c)'
  <2>1. TasksInv(i)'
    <3>1. TasksInv(i) /\ queue'[i].tasks \subseteq queue[i].tasks
      BY <1>5 DEF UnsavedInv, QueueInv
    <3> QED
      BY <1>10, <3>1 DEF TasksInv
  <2>2. ASSUME NEW c \in Old PROVE ResetInv(i, c)' /\ RequestInv(i, c)'
    <3>1. ResetInv(i, c) /\ RequestInv(i, c) /\ c \in Buf
      BY DEF UnsavedInv, QueueInv, Old
    <3>2. /\ SetOf(i, c)' => SetOf(i, c)
          /\ ResetOf(i, c)' => ResetOf(i, c)
          /\ ResetAhead(i, c)' => ResetAhead(i, c)
          /\ 1 < i \/ c # b =>
                (SetOf(i, c)' <=> SetOf(i, c)) /\ (ResetOf(i, c)' <=> ResetOf(i, c))
          /\ c = b => ~SetOf(1, c)' /\ ~ResetOf(1, c)'
      BY <1>2, <1>3, <1>4, DoneTasks
    <3>3. ResetInv(i, c)'
      <4> SUFFICES ASSUME ResetOf(i, c)'
                   PROVE  /\ known'[c].tick <= disk'[c]
                          /\ \A j \in 1..Len(queue') : \A t \in queue'[j].tasks :
                                j < i /\ t.cmd = "set" /\ t.buf = c => t.state.tick <= disk'[c]
        BY DEF ResetInv
      <4>1. /\ known[c].tick <= disk[c]
            /\ \A j \in 1..Len(queue) : \A t \in queue[j].tasks :
                  j < i /\ t.cmd = "set" /\ t.buf = c => t.state.tick <= disk[c]
        BY <3>1, <3>2 DEF ResetInv
      <4>2. known'[c].tick <= disk'[c]
        <5>1. CASE c = b
          <6>1. 1 < i
            BY <3>2, <5>1
          <6> QED
            BY <1>2, <1>3, <1>4, <1>7, <1>10, <4>1, <5>1, <6>1
        <5>2. CASE c # b
          BY <1>7, <1>10, <3>1, <4>1, <5>2
        <5> QED
          BY <5>1, <5>2
      <4>3. \A j \in 1..Len(queue) : queue'[j].tasks \subseteq queue[j].tasks
        BY <1>5
      <4> QED
        BY <1>5, <1>10, <4>1, <4>2, <4>3
    <3>4. ~InFlight("set", c)'
      BY <1>5 DEF InFlight
    <3>5. queue'[i].needs = queue[i].needs /\ queue'[i].calm = queue[i].calm
      BY <1>5
    <3>6. ASSUME queue[i].calm, c \in live
          PROVE  /\ ResetAhead(i, c)' => SetOf(i, c)' \/ queue[i].needs[c] <= disk[c]
                 /\ Provided(i, c)'
      <4>1. /\ ResetAhead(i, c) => SetOf(i, c) \/ queue[i].needs[c] <= disk[c]
            /\ InFlight("set", c) /\ flight.version < queue[i].needs[c] => 1 < i
            /\ Provided(i, c)
        BY <3>1, <3>6 DEF RequestInv
      <4>2. CASE c = b /\ i = 1
        <5>1. InFlight("set", c)
          BY <1>0, <1>2, <4>2 DEF InFlight
        <5>2. queue[i].needs[c] <= entry[c] /\ entry[c] # 0
          BY <1>1, <1>2, <1>12, <3>1, <4>1, <4>2, <5>1 DEF ValuesOK
        <5>3. ~ResetAhead(i, c)'
          BY <1>5, <3>2, <4>2 DEF ResetAhead
        <5> QED
          BY <1>10, <3>5, <5>2, <5>3 DEF Provided
      <4>3. CASE c = b /\ 1 < i
        BY <1>10, <1>12, <3>2, <3>5, <4>1, <4>3 DEF Provided
      <4>4. CASE c # b
        <5>1. Known(c)' <=> Known(c)
          BY <1>7, <3>1, <4>4 DEF Known
        <5> QED
          BY <1>10, <3>2, <3>5, <4>1, <4>4, <5>1 DEF Provided
      <4> QED
        BY <1>3, <4>2, <4>3, <4>4
    <3>7. RequestInv(i, c)'
      BY <1>10, <3>1, <3>4, <3>5, <3>6 DEF RequestInv
    <3> QED
      BY <3>3, <3>7
  <2> QED
    BY <2>1, <2>2
<1>16. QueueInv'
  BY <1>5, <1>15 DEF QueueInv
<1>17. CalmParseSeesEdits'
  BY <1>2 DEF UnsavedInv, CalmParseSeesEdits
<1> QED
  BY <1>8, <1>13, <1>14, <1>16, <1>17 DEF UnsavedInv

-----------------------------------------------------------------------------
(***************************************************************************)
(* irony-server answers: only its table, the reply and the history change. *)
(***************************************************************************)

Answers(r) ==
    /\ flight # Idle /\ flight.reply = "none" /\ r \in {"success", "error"}
    /\ flight' = [flight EXCEPT !.reply = r]
    /\ UNCHANGED <<bufferVars, known, queue, scheduled>>

\* What does not depend on the table
LEMMA AnswerKeeps ==
    ASSUME UnsavedInv, NEW r, Answers(r)
    PROVE  /\ flight' \in Flight
           /\ flight' # Idle /\ flight'.reply = r /\ flight'.task = flight.task
           /\ flight'.path = flight.path /\ flight'.version = flight.version
           /\ \A cmd, b : InFlight(cmd, b)' <=> InFlight(cmd, b)
           /\ \A b : Known(b)' <=> Known(b)
           /\ \A i, b : /\ SetOf(i, b)' <=> SetOf(i, b)
                        /\ ResetOf(i, b)' <=> ResetOf(i, b)
                        /\ ResetAhead(i, b)' <=> ResetAhead(i, b)
           /\ \A b \in Buf : BufferInv(b)' /\ known'[b].tick <= text'[b]
           /\ \A i \in 1..Len(queue) : TasksInv(i)' /\ \A b \in Old : ResetInv(i, b)'
<1>1. flight \in [reply : {"none", "success", "error"}, task : Task \cup {ParseTask},
                  path : Path, version : Version]
  BY FlightType DEF Answers, UnsavedInv
<1>2. /\ flight'.reply = r /\ flight'.task = flight.task
      /\ flight'.path = flight.path /\ flight'.version = flight.version
      /\ flight' \in Flight
  BY <1>1 DEF Answers, Flight
<1>3. flight' # Idle
  BY <1>2 DEF Answers, Idle
<1>4. \A cmd, b : InFlight(cmd, b)' <=> InFlight(cmd, b)
  BY <1>2, <1>3 DEF InFlight, Answers
<1>5. \A b : Known(b)' <=> Known(b)
  BY DEF Known, Answers
<1>6. \A i, b : /\ SetOf(i, b)' <=> SetOf(i, b)
                /\ ResetOf(i, b)' <=> ResetOf(i, b)
                /\ ResetAhead(i, b)' <=> ResetAhead(i, b)
  BY DEF SetOf, ResetOf, ResetAhead, Answers
<1>7. ASSUME NEW b \in Buf PROVE BufferInv(b)' /\ known'[b].tick <= text'[b]
  <2>1. BufferInv(b) /\ KnownInv(b)
    BY DEF UnsavedInv
  <2> QED
    BY <2>1 DEF BufferInv, KnownInv, Answers, bufferVars
<1>8. ASSUME NEW i \in 1..Len(queue)
      PROVE  TasksInv(i)' /\ \A b \in Old : ResetInv(i, b)'
  <2>1. TasksInv(i) /\ \A b \in Old : ResetInv(i, b)
    BY DEF UnsavedInv, QueueInv
  <2> QED
    BY <2>1 DEF TasksInv, ResetInv, ResetOf, Answers, bufferVars
<1> QED
  BY <1>2, <1>3, <1>4, <1>5, <1>6, <1>7, <1>8

\* The buffers that the command is not about
LEMMA Untouched ==
    ASSUME UnsavedInv, NEW r, Answers(r), NEW b \in Old,
           entry'[b] = entry[b], b \in failed' <=> b \in failed,
           ~InFlight("set", b), ~InFlight("reset", b)
    PROVE  /\ KnownInv(b)' /\ EntryInv(b)'
           /\ \A i \in 1..Len(queue) : queue[i].calm /\ b \in live => Provided(i, b)'
<1>1. KnownInv(b) /\ EntryInv(b) /\ known' = known /\ text' = text /\ disk' = disk /\ queue' = queue
  BY DEF UnsavedInv, Answers, bufferVars, Old
<1>2. /\ Known(b)' <=> Known(b)
      /\ \A i : /\ SetOf(i, b)' <=> SetOf(i, b)
                /\ ResetOf(i, b)' <=> ResetOf(i, b)
                /\ ResetAhead(i, b)' <=> ResetAhead(i, b)
  BY AnswerKeeps
<1>3. KnownInv(b)' /\ EntryInv(b)'
  BY <1>1, <1>2 DEF KnownInv, EntryInv
<1>4. ASSUME NEW i \in 1..Len(queue), queue[i].calm, b \in live PROVE Provided(i, b)'
  <2>1. Provided(i, b)
    BY <1>4 DEF UnsavedInv, QueueInv, RequestInv
  <2> QED
    BY <1>1, <1>2, <2>1 DEF Provided
<1> QED
  BY <1>3, <1>4

LEMMA AnswerInv ==
    ASSUME UnsavedInv, NEW r, Answers(r), TypeOK', FlightInv', CalmParseSeesEdits',
           \A b \in Old :
               /\ KnownInv(b)' /\ EntryInv(b)'
               /\ \A i \in 1..Len(queue) : queue[i].calm /\ b \in live => Provided(i, b)'
    PROVE  UnsavedInv'
<1>1. /\ \A cmd, b : InFlight(cmd, b)' <=> InFlight(cmd, b)
      /\ \A i, b : /\ SetOf(i, b)' <=> SetOf(i, b)
                   /\ ResetOf(i, b)' <=> ResetOf(i, b)
                   /\ ResetAhead(i, b)' <=> ResetAhead(i, b)
      /\ flight'.version = flight.version
  BY AnswerKeeps
<1>2. \A b \in Buf : BufferInv(b)' /\ known'[b].tick <= text'[b]
  BY AnswerKeeps
<1>3. \A b \in Buf : KnownInv(b)' /\ EntryInv(b)'
  BY <1>2 DEF KnownInv, EntryInv
<1>4. ASSUME NEW i \in 1..Len(queue), NEW b \in Old PROVE RequestInv(i, b)'
  <2>1. RequestInv(i, b)
    BY <1>4 DEF UnsavedInv, QueueInv
  <2>2. queue' = queue /\ text' = text /\ disk' = disk /\ live' = live
    BY DEF Answers, bufferVars
  <2> QED
    BY <1>1, <2>1, <2>2 DEF RequestInv
<1>5. \A i \in 1..Len(queue) : TasksInv(i)' /\ \A b \in Old : ResetInv(i, b)'
  BY AnswerKeeps
<1>6. QueueInv'
  BY <1>4, <1>5 DEF QueueInv, Answers
<1> QED
  BY <1>2, <1>3, <1>6 DEF UnsavedInv

LEMMA SetUnsavedInv == ASSUME UnsavedInv, SetUnsaved PROVE UnsavedInv'
<1>0. PICK b : b = flight.task.buf
  OBVIOUS
<1>1. TypeOK /\ ValuesOK
  BY Values DEF UnsavedInv
<1>2. /\ Answers("success") /\ flight # Idle /\ flight.task.cmd = "set" /\ flight.reply = "none"
      /\ entry' = [entry EXCEPT ![flight.path] = flight.version]
      /\ failed' = failed \ {b} /\ stale' = stale
  BY <1>0 DEF SetUnsaved, Replied, Reply, Answers
<1>3. SetFlightInv /\ queue # <<>>
  BY <1>2 DEF UnsavedInv, FlightInv
<1>4. /\ flight.path \in {b, NoPath} /\ 1 <= flight.version /\ b \in Buf
      /\ known[b].tick <= flight.version
      /\ b \in Old => flight.path = b
  BY <1>0, <1>1, <1>2, <1>3 DEF SetFlightInv, ValuesOK
<1>5. entry'[flight.path] = flight.version /\ entry' \in [Path -> Version]
  <2>1. flight.path \in Path /\ flight.version \in Version
    BY <1>1, <1>2, FlightType
  <2> QED
    BY <1>1, <1>2, <2>1 DEF TypeOK
<1>6. /\ flight' \in Flight /\ flight' # Idle /\ flight'.task = flight.task
      /\ flight'.path = flight.path /\ flight'.version = flight.version
      /\ flight'.reply = "success"
  BY <1>2, AnswerKeeps
<1>7. TypeOK'
  BY <1>1, <1>2, <1>5, <1>6 DEF TypeOK, SetUnsaved, bufferVars
<1>8. UNCHANGED <<text, disk, live, known, queue>>
  BY <1>2 DEF Answers, bufferVars
<1>9. FlightInv'
  <2>1. SetFlightInv'
    BY <1>3, <1>5, <1>6, <1>8 DEF SetFlightInv
  <2> QED
    BY <1>2, <1>3, <1>6, <1>8, <2>1 DEF FlightInv
<1>10. CalmParseSeesEdits'
  BY <1>2 DEF UnsavedInv, CalmParseSeesEdits
<1>11. ASSUME NEW c \in Old
       PROVE  /\ KnownInv(c)' /\ EntryInv(c)'
              /\ \A i \in 1..Len(queue) : queue[i].calm /\ c \in live => Provided(i, c)'
  <2>1. CASE c = b
    <3>1. entry'[c] = flight.version /\ entry'[c] # 0 /\ InFlight("set", c)
      BY <1>0, <1>1, <1>2, <1>4, <1>5, <2>1 DEF ValuesOK, InFlight
    <3>2. KnownInv(c)'
      <4>1. KnownInv(c)
        BY <1>4, <2>1 DEF UnsavedInv
      <4> QED
        BY <1>8, <3>1, <4>1 DEF KnownInv, Known
    <3>3. EntryInv(c)'
      BY <1>0, <1>2, <1>4, <1>6, <1>8, <2>1, <3>1 DEF EntryInv, InFlight
    <3>4. ASSUME NEW i \in 1..Len(queue), queue[i].calm, c \in live PROVE Provided(i, c)'
      <4>1. flight.version < queue[i].needs[c] => SetOf(i, c) \/ ResetOf(i, c)
        BY <3>1, <3>4 DEF UnsavedInv, QueueInv, RequestInv
      <4>2. queue[i].needs[c] \in Nat /\ flight.version \in Nat
        BY <1>1, <1>2 DEF ValuesOK, Old
      <4>3. (SetOf(i, c)' <=> SetOf(i, c)) /\ (ResetOf(i, c)' <=> ResetOf(i, c))
        BY <1>2, AnswerKeeps
      <4> QED
        BY <1>8, <3>1, <4>1, <4>2, <4>3 DEF Provided
    <3> QED
      BY <3>2, <3>3, <3>4
  <2>2. CASE c # b
    <3>1. entry'[c] = entry[c] /\ (c \in failed' <=> c \in failed)
      BY <1>1, <1>2, <1>4, <2>2, Constants DEF TypeOK, Path, Old
    <3>2. ~InFlight("set", c) /\ ~InFlight("reset", c)
      BY <1>0, <2>2 DEF InFlight
    <3> QED
      BY <1>2, <3>1, <3>2, Untouched
  <2> QED
    BY <2>1, <2>2
<1> QED
  BY <1>2, <1>7, <1>9, <1>10, <1>11, AnswerInv

LEMMA SetUnsavedFailsInv == ASSUME UnsavedInv, SetUnsavedFails PROVE UnsavedInv'
<1>0. PICK b : b = flight.task.buf
  OBVIOUS
<1>1. TypeOK /\ ValuesOK
  BY Values DEF UnsavedInv
<1>2. /\ Answers("error") /\ flight # Idle /\ flight.task.cmd = "set" /\ flight.reply = "none"
      /\ entry' = [entry EXCEPT ![flight.path] = 0]
      /\ failed' = failed \cup {c \in {b} : Known(c)} /\ stale' = stale
  BY <1>0 DEF SetUnsavedFails, Replied, Reply, Answers
<1>3. SetFlightInv /\ queue # <<>>
  BY <1>2 DEF UnsavedInv, FlightInv
<1>4. /\ flight.path \in {b, NoPath} /\ b \in Buf
      /\ b \in Old => flight.path = b
  BY <1>0, <1>1, <1>2, <1>3 DEF SetFlightInv, ValuesOK
<1>5. entry'[flight.path] = 0 /\ entry' \in [Path -> Version]
  <2>1. flight.path \in Path /\ 0 \in Version
    BY <1>1, <1>2, FlightType, Constants DEF Version
  <2> QED
    BY <1>1, <1>2, <2>1 DEF TypeOK
<1>6. /\ flight' \in Flight /\ flight' # Idle /\ flight'.task = flight.task
      /\ flight'.path = flight.path /\ flight'.version = flight.version
      /\ flight'.reply = "error"
  BY <1>2, AnswerKeeps
<1>7. TypeOK'
  BY <1>1, <1>2, <1>4, <1>5, <1>6 DEF TypeOK, SetUnsavedFails, bufferVars
<1>8. UNCHANGED <<text, disk, live, known, queue>>
  BY <1>2 DEF Answers, bufferVars
<1>9. FlightInv'
  <2>1. SetFlightInv'
    BY <1>3, <1>6, <1>8 DEF SetFlightInv
  <2> QED
    BY <1>2, <1>3, <1>6, <1>8, <2>1 DEF FlightInv
<1>10. CalmParseSeesEdits'
  BY <1>2 DEF UnsavedInv, CalmParseSeesEdits
<1>11. ASSUME NEW c \in Old
       PROVE  /\ KnownInv(c)' /\ EntryInv(c)'
              /\ \A i \in 1..Len(queue) : queue[i].calm /\ c \in live => Provided(i, c)'
  <2>1. CASE c = b
    <3>1. entry'[c] = 0 /\ (Known(c) => c \in failed') /\ (Known(c)' <=> Known(c))
      BY <1>2, <1>4, <1>5, <1>8, <2>1 DEF Known
    <3>2. KnownInv(c)'
      <4>1. KnownInv(c)
        BY <1>4, <2>1 DEF UnsavedInv
      <4> QED
        BY <1>8, <3>1, <4>1 DEF KnownInv
    <3>3. EntryInv(c)'
      BY <3>1 DEF EntryInv
    <3>4. ASSUME NEW i \in 1..Len(queue), queue[i].calm, c \in live PROVE Provided(i, c)'
      <4>1. /\ Provided(i, c)
            /\ ResetAhead(i, c) => SetOf(i, c) \/ queue[i].needs[c] <= disk[c]
        BY <3>4 DEF UnsavedInv, QueueInv, RequestInv
      <4>2. /\ SetOf(i, c)' <=> SetOf(i, c)
            /\ ResetOf(i, c)' <=> ResetOf(i, c)
            /\ ResetAhead(i, c)' <=> ResetAhead(i, c)
        BY <1>2, AnswerKeeps
      <4>3. ~Known(c) => entry[c] = 0
        BY <1>2, <1>4, <2>1 DEF UnsavedInv, EntryInv, InFlight
      <4> QED
        BY <1>8, <3>1, <4>1, <4>2, <4>3 DEF Provided
    <3> QED
      BY <3>2, <3>3, <3>4
  <2>2. CASE c # b
    <3>1. entry'[c] = entry[c] /\ (c \in failed' <=> c \in failed)
      BY <1>1, <1>2, <1>4, <2>2, Constants DEF TypeOK, Path, Old
    <3>2. ~InFlight("set", c) /\ ~InFlight("reset", c)
      BY <1>0, <2>2 DEF InFlight
    <3> QED
      BY <1>2, <3>1, <3>2, Untouched
  <2> QED
    BY <2>1, <2>2
<1> QED
  BY <1>2, <1>7, <1>9, <1>10, <1>11, AnswerInv

LEMMA ResetUnsavedInv == ASSUME UnsavedInv, ResetUnsaved PROVE UnsavedInv'
<1>0. PICK b, r : b = flight.task.buf /\ r = IF entry[flight.path] = 0 THEN "error" ELSE "success"
  OBVIOUS
<1>1. TypeOK /\ ValuesOK
  BY Values DEF UnsavedInv
<1>2. /\ Answers(r) /\ flight # Idle /\ flight.task.cmd = "reset" /\ flight.reply = "none"
      /\ entry' = [entry EXCEPT ![flight.path] = 0]
      /\ failed' = failed /\ stale' = stale
  BY <1>0 DEF ResetUnsaved, Replied, Reply, Answers, Erase
<1>3. ResetFlightInv /\ queue # <<>>
  BY <1>2 DEF UnsavedInv, FlightInv
<1>4. /\ flight.path \in {b, NoPath} /\ b \in Buf
      /\ b \in Old => flight.path = b
      /\ ResetOf(1, b) /\ 1 \in 1..Len(queue)
  BY <1>0, <1>1, <1>2, <1>3 DEF ResetFlightInv, ValuesOK, ResetOf, TypeOK
<1>5. entry'[flight.path] = 0 /\ entry' \in [Path -> Version]
  <2>1. flight.path \in Path /\ 0 \in Version
    BY <1>1, <1>2, FlightType, Constants DEF Version
  <2> QED
    BY <1>1, <1>2, <2>1 DEF TypeOK
<1>6. /\ flight' \in Flight /\ flight' # Idle /\ flight'.task = flight.task
      /\ flight'.path = flight.path /\ flight'.version = flight.version
      /\ flight'.reply = r
  BY <1>2, AnswerKeeps
<1>7. TypeOK'
  BY <1>1, <1>2, <1>5, <1>6 DEF TypeOK, ResetUnsaved, bufferVars
<1>8. UNCHANGED <<text, disk, live, known, queue>>
  BY <1>2 DEF Answers, bufferVars
<1>9. FlightInv'
  <2>1. ResetFlightInv'
    BY <1>3, <1>5, <1>6, <1>8 DEF ResetFlightInv
  <2> QED
    BY <1>2, <1>3, <1>6, <1>8, <2>1 DEF FlightInv
<1>10. CalmParseSeesEdits'
  BY <1>2 DEF UnsavedInv, CalmParseSeesEdits
<1>11. ASSUME NEW c \in Old
       PROVE  /\ KnownInv(c)' /\ EntryInv(c)'
              /\ \A i \in 1..Len(queue) : queue[i].calm /\ c \in live => Provided(i, c)'
  <2>1. CASE c = b
    <3>1. entry'[c] = 0 /\ InFlight("reset", c)' /\ flight'.reply # "none"
      BY <1>0, <1>2, <1>4, <1>5, <1>6, <2>1 DEF InFlight
    <3>2. KnownInv(c)'
      <4>1. KnownInv(c)
        BY <1>4, <2>1 DEF UnsavedInv
      <4> QED
        BY <1>8, <3>1, <4>1 DEF KnownInv, Known
    <3>3. EntryInv(c)'
      BY <3>1 DEF EntryInv
    <3>4. ASSUME NEW i \in 1..Len(queue), queue[i].calm, c \in live PROVE Provided(i, c)'
      <4>1. ResetAhead(i, c)
        BY <1>4, <2>1 DEF ResetAhead
      <4>2. SetOf(i, c) \/ queue[i].needs[c] <= disk[c]
        BY <3>4, <4>1 DEF UnsavedInv, QueueInv, RequestInv
      <4>3. SetOf(i, c)' <=> SetOf(i, c)
        BY <1>2, AnswerKeeps
      <4> QED
        BY <1>8, <3>1, <4>2, <4>3 DEF Provided
    <3> QED
      BY <3>2, <3>3, <3>4
  <2>2. CASE c # b
    <3>1. entry'[c] = entry[c] /\ (c \in failed' <=> c \in failed)
      BY <1>1, <1>2, <1>4, <2>2, Constants DEF TypeOK, Path, Old
    <3>2. ~InFlight("set", c) /\ ~InFlight("reset", c)
      BY <1>0, <2>2 DEF InFlight
    <3> QED
      BY <1>2, <3>1, <3>2, Untouched
  <2> QED
    BY <2>1, <2>2
<1> QED
  BY <1>2, <1>7, <1>9, <1>10, <1>11, AnswerInv

\* Both answers to a parse leave the table alone.
LEMMA ParseAnswers ==
    ASSUME UnsavedInv, flight # Idle, flight.task.cmd = "parse", NEW r, Answers(r),
           UNCHANGED <<entry, failed>>, stale' \in [bufs : SUBSET Buf, calm : BOOLEAN],
           CalmParseSeesEdits'
    PROVE  UnsavedInv'
<1>1. TypeOK /\ queue[1].tasks = {} /\ queue # <<>>
  BY DEF UnsavedInv, FlightInv
<1>2. /\ flight' \in Flight /\ flight' # Idle /\ flight'.task = flight.task
  BY AnswerKeeps
<1>3. TypeOK'
  BY <1>1, <1>2 DEF TypeOK, Answers, bufferVars
<1>4. FlightInv'
  BY <1>1, <1>2 DEF FlightInv, Answers
<1>5. \A b \in Old : ~InFlight("set", b) /\ ~InFlight("reset", b)
  BY DEF InFlight
<1>6. \A b \in Old :
         /\ KnownInv(b)' /\ EntryInv(b)'
         /\ \A i \in 1..Len(queue) : queue[i].calm /\ b \in live => Provided(i, b)'
  BY <1>5, Untouched
<1> QED
  BY <1>3, <1>4, <1>6, AnswerInv

LEMMA ParseFailsInv == ASSUME UnsavedInv, ParseFails PROVE UnsavedInv'
<1>1. Answers("error")
  BY DEF ParseFails, Replied, Reply, Answers
<1>2. stale' \in [bufs : SUBSET Buf, calm : BOOLEAN] /\ CalmParseSeesEdits'
  BY DEF ParseFails, UnsavedInv, TypeOK, CalmParseSeesEdits
<1> QED
  BY <1>1, <1>2, ParseAnswers DEF ParseFails, Replied

\* With no task left and no failure, what is provided is in the server or,
\* when it has nothing, in the file.
LEMMA ParseInv == ASSUME UnsavedInv, Parse PROVE UnsavedInv'
<1>1. TypeOK /\ ValuesOK
  BY Values DEF UnsavedInv
<1>2. Answers("success") /\ flight # Idle /\ flight.task.cmd = "parse"
  BY DEF Parse, Replied, Reply, Answers
<1>3. queue[1].tasks = {} /\ 1 \in 1..Len(queue)
  BY <1>1, <1>2 DEF UnsavedInv, FlightInv, TypeOK
<1>4. stale' = [bufs |-> {b \in live : Seen(b) < queue[1].needs[b]},
                calm |-> queue[1].calm /\ failed = {}]
  BY DEF Parse
<1>5. stale' \in [bufs : SUBSET Buf, calm : BOOLEAN]
  <2>1. live \subseteq Buf /\ queue[1].calm \in BOOLEAN
    BY <1>1, <1>3, RequestType DEF TypeOK
  <2> QED
    BY <1>4, <2>1
<1>6. CalmParseSeesEdits'
  <2> SUFFICES ASSUME queue[1].calm, failed = {}, NEW b \in live,
                      Seen(b) < queue[1].needs[b], b \notin NewFile
               PROVE  FALSE
    BY <1>4 DEF CalmParseSeesEdits
  <2>1. b \in Old /\ b \in Buf
    BY <1>1 DEF Old, TypeOK
  <2>2. Provided(1, b)
    BY <1>3, <2>1 DEF UnsavedInv, QueueInv, RequestInv
  <2>3. ~SetOf(1, b) /\ ~ResetOf(1, b)
    BY <1>3 DEF SetOf, ResetOf
  <2>4. queue[1].needs[b] <= Seen(b) /\ Seen(b) \in Nat /\ queue[1].needs[b] \in Nat
    BY <1>1, <1>3, <2>1, <2>2, <2>3 DEF Provided, Seen, ValuesOK
  <2> QED
    BY <2>4
<1> QED
  BY <1>2, <1>5, <1>6, ParseAnswers DEF Parse

LEMMA RestartInv == ASSUME UnsavedInv, Restart PROVE UnsavedInv'
<1>1. TypeOK /\ ValuesOK
  BY Values DEF UnsavedInv
<1>2. /\ queue' = <<>> /\ flight' = Idle /\ failed' = {}
      /\ entry' = [p \in Path |-> 0] /\ known' = [b \in Buf |-> NoState]
      /\ UNCHANGED <<text, disk, modified, live, scheduled, stale>>
  BY DEF Restart, Forget, bufferVars
<1>3. NoState \in State /\ 0 \in Version
  BY Constants DEF NoState, State, Version
<1>4. TypeOK'
  BY <1>1, <1>2, <1>3 DEF TypeOK, Flight
<1>5. ASSUME NEW b \in Buf PROVE BufferInv(b)' /\ KnownInv(b)' /\ EntryInv(b)'
  <2>1. BufferInv(b)
    BY DEF UnsavedInv
  <2>2. known'[b] = NoState /\ NoState.tick = 0 /\ entry'[b] = 0
    BY <1>2 DEF NoState, Path
  <2> QED
    BY <1>1, <1>2, <2>1, <2>2 DEF BufferInv, KnownInv, EntryInv, Known, ValuesOK
<1>6. FlightInv' /\ QueueInv'
  BY <1>2 DEF FlightInv, QueueInv
<1>7. CalmParseSeesEdits'
  BY <1>2 DEF UnsavedInv, CalmParseSeesEdits
<1> QED
  BY <1>4, <1>5, <1>6, <1>7 DEF UnsavedInv

LEMMA InitInv == Init => UnsavedInv
<1> SUFFICES ASSUME Init PROVE UnsavedInv
  OBVIOUS
<1>1. NoState \in State /\ 0 \in Version /\ 1 \in Version
  BY Constants DEF NoState, State, Version
<1>2. TypeOK
  BY <1>1, Constants DEF Init, TypeOK, Flight
<1>3. ASSUME NEW b \in Buf PROVE BufferInv(b) /\ KnownInv(b) /\ EntryInv(b)
  <2>1. known[b] = NoState /\ NoState.tick = 0 /\ entry[b] = 0 /\ text[b] = 1 /\ modified[b] = FALSE
    BY DEF Init, NoState, Path
  <2>2. disk[b] = IF b \in NewFile THEN 0 ELSE 1
    BY DEF Init
  <2> QED
    BY <2>1, <2>2 DEF BufferInv, KnownInv, EntryInv, Known, Old
<1>4. FlightInv /\ QueueInv /\ CalmParseSeesEdits
  BY DEF FlightInv, QueueInv, CalmParseSeesEdits, Init
<1> QED
  BY <1>2, <1>3, <1>4 DEF UnsavedInv

-----------------------------------------------------------------------------
(***************************************************************************)
(* A request is scheduled.                                                 *)
(***************************************************************************)

NewTasks == UNION {TasksFor(b) : b \in Buf}

NewRequest ==
    [tasks |-> NewTasks,
     needs |-> [b \in Buf |-> IF b \in live /\ Exists(b) THEN text[b] ELSE 0],
     calm |-> ~SetOnItsWay]

\* The tasks of a buffer in a new request
LEMMA NewTasksOf ==
    ASSUME NEW t \in NewTasks
    PROVE  /\ t.buf \in Buf /\ t \in TasksFor(t.buf)
           /\ TasksFor(t.buf) = {t}
           /\ t.cmd = "set" => /\ modified[t.buf] /\ t.state = StateOf(t.buf)
           /\ t.cmd = "reset" => /\ ~modified[t.buf] /\ Known(t.buf)
<1>1. PICK b \in Buf : t \in TasksFor(b)
  BY Zenon DEF NewTasks
<1>2. t.buf = b
  BY <1>1 DEF TasksFor
<1>3. TasksFor(b) = {t}
  BY <1>1 DEF TasksFor
<1>4. t.cmd = "set" => modified[b] /\ t.state = StateOf(b)
  BY <1>1 DEF TasksFor
<1>5. t.cmd = "reset" => ~modified[b] /\ Known(b)
  BY <1>1 DEF TasksFor, NeedsReset
<1> QED
  BY <1>1, <1>2, <1>3, <1>4, <1>5

\* What a new request has and what it relies on
LEMMA NewSet ==
    ASSUME NEW b \in Buf, b \in live, modified[b], ~Same(b)
    PROVE  \E t \in NewTasks : t.cmd = "set" /\ t.buf = b
<1> DEFINE t == [cmd |-> "set", buf |-> b, state |-> StateOf(b)]
<1>1. t \in TasksFor(b)
  BY DEF TasksFor, Considered
<1>2. t \in NewTasks
  BY <1>1 DEF NewTasks
<1> QED
  BY <1>2

LEMMA NewReset ==
    ASSUME NEW b \in Buf, ~modified[b], Known(b), known[b].exists
    PROVE  \E t \in NewTasks : t.cmd = "reset" /\ t.buf = b
<1> DEFINE t == [cmd |-> "reset", buf |-> b, state |-> NoState]
<1>1. t \in TasksFor(b)
  BY DEF TasksFor, Considered, Same, NeedsReset
<1>2. t \in NewTasks
  BY <1>1 DEF NewTasks
<1> QED
  BY <1>2

LEMMA ScheduleInv == ASSUME UnsavedInv, Schedule PROVE UnsavedInv'
<1>1. TypeOK /\ ValuesOK
  BY Values DEF UnsavedInv
<1>0. PICK n : n = Len(queue) + 1
  OBVIOUS
<1>2. /\ queue' = Append(queue, NewRequest) /\ scheduled' = scheduled + 1
      /\ scheduled < MaxReq
      /\ UNCHANGED <<text, disk, modified, live, known, flight, entry, failed, stale>>
  BY DEF Schedule, NewRequest, NewTasks, bufferVars
<1>3. NewRequest \in Request
  <2>1. NewTasks \subseteq Task
    BY <1>1, TasksForType DEF NewTasks
  <2>2. NewRequest.needs \in [Buf -> Version]
    BY <1>1, Constants DEF NewRequest, TypeOK, Version
  <2>3. NewRequest.calm \in BOOLEAN
    BY DEF NewRequest, SetOnItsWay
  <2> QED
    BY <2>1, <2>2, <2>3 DEF NewRequest, Request
<1>4. /\ queue' \in Seq(Request) /\ Len(queue') = n /\ Len(queue) \in Nat
      /\ queue'[n] = NewRequest
      /\ n = Len(queue) + 1
      /\ \A i \in 1..Len(queue) : i \in 1..n /\ i < n /\ queue'[i] = queue[i]
  BY <1>0, <1>1, <1>2, <1>3 DEF TypeOK
<1>5. TypeOK'
  BY <1>1, <1>2, <1>4, Constants DEF TypeOK, Flight
<1>6. \A b \in Buf : BufferInv(b) /\ KnownInv(b) /\ EntryInv(b)
  BY DEF UnsavedInv
<1>7. \A b \in Buf : BufferInv(b)' /\ KnownInv(b)' /\ EntryInv(b)'
  BY <1>2, <1>6 DEF BufferInv, KnownInv, EntryInv, InFlight, Known
<1>8. flight # Idle => queue # <<>> /\ 1 \in 1..Len(queue) /\ queue'[1] = queue[1]
  BY <1>1, <1>4 DEF UnsavedInv, FlightInv, TypeOK
<1>9. FlightInv'
  <2> SUFFICES ASSUME flight # Idle PROVE FlightInv'
    BY <1>2 DEF FlightInv
  <2>1. queue' # <<>>
    BY <1>4
  <2> QED
    BY <1>2, <1>8, <2>1 DEF UnsavedInv, FlightInv, SetFlightInv, ResetFlightInv
<1>10. CalmParseSeesEdits'
  BY <1>2 DEF UnsavedInv, CalmParseSeesEdits
<1>11. ASSUME NEW i \in 1..Len(queue)
       PROVE  TasksInv(i)' /\ \A b \in Old : ResetInv(i, b)' /\ RequestInv(i, b)'
  <2>1. queue'[i] = queue[i] /\ i \in 1..n /\ TasksInv(i)
    BY <1>4 DEF UnsavedInv, QueueInv
  <2>2. TasksInv(i)'
    BY <1>2, <2>1 DEF TasksInv
  <2>3. ASSUME NEW b \in Old PROVE ResetInv(i, b)' /\ RequestInv(i, b)'
    <3>1. ResetInv(i, b) /\ RequestInv(i, b)
      BY DEF UnsavedInv, QueueInv
    <3>2. \A j \in 1..Len(queue') : j <= i => j \in 1..Len(queue) /\ queue'[j] = queue[j]
      BY <1>4
    <3>3. /\ SetOf(i, b)' <=> SetOf(i, b)
          /\ ResetOf(i, b)' <=> ResetOf(i, b)
          /\ InFlight("set", b)' <=> InFlight("set", b)
          /\ Known(b)' <=> Known(b)
      BY <1>2, <2>1 DEF SetOf, ResetOf, InFlight, Known
    <3>4. ResetAhead(i, b)' <=> ResetAhead(i, b)
      BY <1>4, <3>2 DEF ResetAhead, ResetOf
    <3>5. ResetInv(i, b)'
      <4> SUFFICES ASSUME ResetOf(i, b)'
                   PROVE  /\ known'[b].tick <= disk'[b]
                          /\ \A j \in 1..Len(queue') : \A t \in queue'[j].tasks :
                                j < i /\ t.cmd = "set" /\ t.buf = b => t.state.tick <= disk'[b]
        BY DEF ResetInv
      <4>1. \A j \in 1..Len(queue') : j < i => j \in 1..Len(queue) /\ queue'[j] = queue[j]
        BY <1>4
      <4> QED
        BY <1>2, <3>1, <3>3, <4>1 DEF ResetInv
    <3>6. Provided(i, b)' <=> Provided(i, b)
      BY <1>2, <2>1, <3>3, <3>4 DEF Provided
    <3> QED
      BY <1>2, <2>1, <3>1, <3>3, <3>4, <3>5, <3>6 DEF RequestInv
  <2> QED
    BY <2>2, <2>3
<1>12. queue'[n].tasks = NewTasks
  BY <1>4 DEF NewRequest
<1>13. TasksInv(n)'
  <2>1. ASSUME NEW t \in NewTasks, NEW u \in NewTasks, t.buf = u.buf PROVE t = u
    BY <2>1, NewTasksOf
  <2>2. ASSUME NEW t \in NewTasks, t.cmd = "set"
        PROVE  t.state.tick <= text[t.buf] /\ (t.buf \in Old => t.state.exists)
    <3>1. t.buf \in Buf /\ t.state = StateOf(t.buf)
      BY <2>2, NewTasksOf
    <3>2. t.state.tick = text[t.buf] /\ t.state.exists = (disk[t.buf] # 0)
      BY <3>1 DEF StateOf, Exists
    <3>3. t.state.tick <= text[t.buf] /\ (t.buf \in Old => disk[t.buf] # 0)
      BY <1>1, <1>6, <3>1, <3>2 DEF BufferInv, ValuesOK
    <3> QED
      BY Zenon, <3>2, <3>3
  <2> QED
    BY <1>2, <1>12, <2>1, <2>2 DEF TasksInv
<1>14. ASSUME NEW b \in Old PROVE ResetInv(n, b)' /\ RequestInv(n, b)'
  <2>1. b \in Buf /\ BufferInv(b) /\ KnownInv(b) /\ EntryInv(b)
    BY <1>6 DEF Old
  <2>2. /\ text[b] \in Nat /\ disk[b] \in Nat /\ entry[b] \in Nat /\ known[b].tick \in Nat
        /\ modified[b] \in BOOLEAN
    BY <1>1, <2>1 DEF ValuesOK
  <2>3. Exists(b) /\ (modified[b] => disk[b] < text[b]) /\ (~modified[b] => disk[b] = text[b])
    BY <2>1, <2>2 DEF BufferInv, Exists
  <2>4. ResetInv(n, b)'
    <3> SUFFICES ASSUME ResetOf(n, b)'
                 PROVE  /\ known'[b].tick <= disk'[b]
                        /\ \A j \in 1..Len(queue') : \A t \in queue'[j].tasks :
                              j < n /\ t.cmd = "set" /\ t.buf = b => t.state.tick <= disk'[b]
      BY <1>4 DEF ResetInv
    <3>1. ~modified[b]
      BY <1>12, NewTasksOf DEF ResetOf
    <3>2. known[b].tick <= disk[b]
      BY <2>1, <2>3, <3>1 DEF KnownInv
    <3>3. ASSUME NEW j \in 1..Len(queue'), NEW t \in queue'[j].tasks,
                 j < n, t.cmd = "set", t.buf = b
          PROVE  t.state.tick <= disk[b]
      <4>1. j \in 1..Len(queue) /\ t \in queue[j].tasks
        BY <1>4, <3>3
      <4>2. TasksInv(j)
        BY <4>1 DEF UnsavedInv, QueueInv
      <4> QED
        BY <2>3, <3>1, <3>3, <4>1, <4>2 DEF TasksInv
    <3> QED
      BY <1>2, <3>2, <3>3
  <2> DEFINE need == IF b \in live THEN text[b] ELSE 0
  <2>5. queue'[n].needs[b] = need /\ queue'[n].calm = ~SetOnItsWay
    BY <1>4, <2>1, <2>3 DEF NewRequest
  <2>6. b \in live /\ modified[b] /\ ~Same(b) => SetOf(n, b)'
    BY <1>12, <2>1, NewSet DEF SetOf
  <2>7. ~modified[b] /\ Known(b) => ResetOf(n, b)'
    BY <1>12, <2>1, NewReset DEF ResetOf, KnownInv
  <2>8. ASSUME Same(b) PROVE ~ResetAhead(n, b)' /\ known[b].tick = text[b] /\ modified[b]
                             /\ Known(b) /\ ~InFlight("reset", b)
    <3>1. known[b].tick = text[b] /\ modified[b] /\ Known(b)
      BY <2>3, <2>8 DEF Same, StateOf, Known, NoState
    <3>2. \A j \in 1..Len(queue) : ~ResetOf(j, b)
      <4> SUFFICES ASSUME NEW j \in 1..Len(queue), ResetOf(j, b) PROVE FALSE
        OBVIOUS
      <4>1. known[b].tick <= disk[b]
        BY DEF UnsavedInv, QueueInv, ResetInv
      <4> QED
        BY <2>2, <2>3, <3>1, <4>1
    <3>3. ~ResetOf(n, b)'
      BY <1>12, <3>1, NewTasksOf DEF ResetOf
    <3>4. \A j \in 1..n : ~ResetOf(j, b)'
      <4>1. \A j \in 1..n : j \in 1..Len(queue) \/ j = n
        BY <1>4
      <4> QED
        BY <1>4, <3>2, <3>3, <4>1 DEF ResetOf
    <3>5. ~InFlight("reset", b)
      BY <1>8, <3>2 DEF InFlight, UnsavedInv, FlightInv, ResetFlightInv, ResetOf
    <3> QED
      BY <1>4, <3>1, <3>4, <3>5 DEF ResetAhead
  <2>9. ASSUME ~SetOnItsWay, b \in live
        PROVE  /\ ResetAhead(n, b)' => SetOf(n, b)' \/ text[b] <= disk[b]
               /\ InFlight("set", b) /\ flight.version < text[b] =>
                     1 < n /\ (SetOf(n, b)' \/ ResetOf(n, b)')
               /\ Provided(n, b)'
    <3>1. queue'[n].needs[b] = text[b]
      BY <2>5, <2>9
    <3>2. InFlight("set", b) => Known(b) /\ 1 < n
      BY <1>4, <1>8, <2>9 DEF InFlight, SetOnItsWay
    <3>3. Known(b)' <=> Known(b)
      BY <1>2 DEF Known
    <3>4. CASE modified[b] /\ ~Same(b)
      BY <2>6, <2>9, <3>2, <3>4 DEF Provided
    <3>5. CASE Same(b)
      <4>1. ~(InFlight("set", b) /\ flight.version < text[b])
        <5> SUFFICES ASSUME InFlight("set", b) PROVE text[b] <= flight.version
          BY <1>1, <2>2 DEF ValuesOK, InFlight
        <5> QED
          BY <2>8, <3>5 DEF InFlight, UnsavedInv, FlightInv, SetFlightInv
      <4>2. Provided(n, b)'
        BY <1>2, <2>1, <2>8, <3>1, <3>3, <3>5 DEF Provided, EntryInv, KnownInv
      <4> QED
        BY <2>8, <3>5, <4>1, <4>2
    <3>6. CASE ~modified[b]
      <4>1. CASE Known(b)
        BY <2>2, <2>3, <2>7, <3>2, <3>6, <4>1 DEF Provided
      <4>2. CASE ~Known(b)
        <5>1. entry[b] = 0
          BY <2>1, <3>2, <4>2 DEF EntryInv
        <5> QED
          BY <1>2, <2>2, <2>3, <3>1, <3>2, <3>6, <4>2, <5>1 DEF Provided
      <4> QED
        BY <4>1, <4>2
    <3> QED
      BY <3>4, <3>5, <3>6 DEF Same
  <2>10. (InFlight("set", b)' <=> InFlight("set", b)) /\ need <= text[b]
    BY <1>2, <2>2 DEF InFlight
  <2>11. RequestInv(n, b)'
    BY <1>2, <2>5, <2>9, <2>10 DEF RequestInv
  <2> QED
    BY <2>4, <2>11
<1>15. QueueInv'
  <2>1. \A i \in 1..Len(queue') : i \in 1..Len(queue) \/ i = n
    BY <1>4
  <2> QED
    BY <1>11, <1>13, <1>14, <2>1 DEF QueueInv
<1> QED
  BY <1>5, <1>7, <1>9, <1>10, <1>15 DEF UnsavedInv

-----------------------------------------------------------------------------
(***************************************************************************)
(* The theorems.                                                           *)
(***************************************************************************)

LEMMA NextInv == UnsavedInv /\ [Next]_vars => UnsavedInv'
<1> SUFFICES ASSUME UnsavedInv, [Next]_vars PROVE UnsavedInv'
  OBVIOUS
<1>1. ASSUME NEW b \in Buf, Edit(b) \/ Save(b) \/ KillBuffer(b) PROVE UnsavedInv'
  BY <1>1, EditInv, SaveInv, KillInv
<1>2. CASE Schedule
  BY <1>2, ScheduleInv
<1>3. CASE StartTask
  <2>1. PICK task \in queue[1].tasks : StartSet(task) \/ StartSetFails(task) \/ StartReset(task)
    BY <1>3 DEF StartTask
  <2>2. queue # <<>> /\ flight = Idle
    BY <1>3 DEF StartTask
  <2> QED
    BY <2>1, <2>2, StartSetInv, StartSetFailsInv, StartResetKnownInv, StartResetUnknownInv
<1>4. CASE StartParse
  BY <1>4, StartParseInv
<1>5. CASE SetSucceeded
  BY <1>5, SetSucceededInv
<1>6. CASE SetFailed
  BY <1>6, SetFailedInv
<1>7. CASE ResetFinished
  BY <1>7, ResetFinishedInv
<1>8. CASE ParseFinished
  BY <1>8, ParseFinishedInv
<1>9. CASE SetUnsaved
  BY <1>9, SetUnsavedInv
<1>10. CASE SetUnsavedFails
  BY <1>10, SetUnsavedFailsInv
<1>11. CASE ResetUnsaved
  BY <1>11, ResetUnsavedInv
<1>12. CASE Parse
  BY <1>12, ParseInv
<1>13. CASE ParseFails
  BY <1>13, ParseFailsInv
<1>14. CASE Restart
  BY <1>14, RestartInv
<1>15. CASE UNCHANGED vars
  <2>1. TypeOK' /\ CalmParseSeesEdits'
    BY <1>15 DEF UnsavedInv, TypeOK, CalmParseSeesEdits, vars, bufferVars, Flight
  <2>2. \A b \in Buf : text[b] <= text'[b] /\ disk[b] <= disk'[b] /\ BufferInv(b)'
    BY <1>15, Values DEF UnsavedInv, BufferInv, ValuesOK, vars, bufferVars
  <2> QED
    BY <1>15, <2>1, <2>2, Grows DEF vars, bufferVars
<1> QED
  BY <1>1, <1>2, <1>3, <1>4, <1>5, <1>6, <1>7, <1>8, <1>9, <1>10, <1>11, <1>12, <1>13, <1>14,
     <1>15 DEF Next, User, Client, Server

\* The inductive invariant: types, and what every queued request can rely on.
THEOREM UnsavedInvariant == Spec => []UnsavedInv
BY InitInv, NextInv, PTL DEF Spec

\* All variables keep their types.
THEOREM UnsavedTypes == Spec => []TypeOK
<1>1. UnsavedInv => TypeOK
  BY DEF UnsavedInv
<1> QED
  BY <1>1, UnsavedInvariant, PTL

\* A calm parse sees every edit made before its request, in all files that
\* exist from the start.
THEOREM ParsesSeeEdits == Spec => []CalmParseSeesEdits
<1>1. UnsavedInv => CalmParseSeesEdits
  BY DEF UnsavedInv
<1> QED
  BY <1>1, UnsavedInvariant, PTL

\* Nothing the server holds is forgotten there: the client knows of it.
THEOREM ServerIsKnown == Spec => []NothingHeldUnknown
<1>1. UnsavedInv => NothingHeldUnknown
  BY DEF UnsavedInv, EntryInv, InFlight, Old, NothingHeldUnknown
<1> QED
  BY <1>1, UnsavedInvariant, PTL

\* The client's record of a file is never newer than what the server has.
THEOREM RecordsAreSent == Spec => []RecordNotAhead
<1>1. UnsavedInv => RecordNotAhead
  BY DEF UnsavedInv, EntryInv, Old, RecordNotAhead
<1> QED
  BY <1>1, UnsavedInvariant, PTL
=============================================================================
