------------------------- MODULE EmacsqlTransaction -------------------------
(***************************************************************************)
(* emacsql-with-transaction, used by several Emacs processes on one SQLite *)
(* file.  Every client runs one transaction.  Its body looks something up, *)
(* goes through an emacsql-with-transaction inside it (as closql's inside  *)
(* forge's), Depth levels in all, and then reads a counter and writes it   *)
(* back incremented; the innermost body only does the latter.              *)
(*                                                                         *)
(* A statement can be left before its answer, by C-g or a timeout; SQLite  *)
(* executes it all the same, when it gets to it.  The process can die,     *)
(* also between the execution of COMMIT and its answer.  A call gets the   *)
(* answer to its own statement; only the ROLLBACK of an unwound macro may  *)
(* get that to a statement left before it.                                 *)
(*                                                                         *)
(* SQLite's part (BEGIN is deferred; a statement that cannot get its lock  *)
(* fails with SQLITE_BUSY) is what the code relies on.                     *)
(***************************************************************************)
EXTENDS Naturals, Sequences, FiniteSets, FiniteSetsExt

CONSTANTS
    Conn,           \* the clients, one connection each
    Depth           \* how deep each nests emacsql-with-transaction

ASSUME TransactionAssumption ==
    /\ IsFiniteSet(Conn)
    /\ Depth \in Nat \ {0}

VARIABLES
    level,          \* emacsql--transaction-level
    pc,             \* the next statement of the macro or of its body
    seen,           \* the counter as the client last read it
    intx,           \* the connection is inside BEGIN ... COMMIT
    lock,           \* the lock it holds on the file
    draft,          \* increments of its open transaction, and the counter then
    x,              \* the counter in the file
    kept,           \* history: increments each client has got into the file
    late,           \* statements the client has left and SQLite has still to execute
    alone,          \* history: clients that repeated an inner level by itself
    unsure          \* history: clients whose COMMIT never gave them its answer

dbVars == <<intx, lock, draft, x, kept>>
vars == <<level, pc, seen, dbVars, late, alone, unsure>>

NoDraft == [n |-> 0, x |-> 0]

Init ==
    /\ level = [c \in Conn |-> 1]
    /\ pc = [c \in Conn |-> "begin"]
    /\ seen = [c \in Conn |-> 0]
    /\ intx = [c \in Conn |-> FALSE]
    /\ lock = [c \in Conn |-> "none"]
    /\ draft = [c \in Conn |-> NoDraft]
    /\ x = 0
    /\ kept = [c \in Conn |-> 0]
    /\ late = [c \in Conn |-> <<>>]
    /\ alone = {}
    /\ unsure = {}

-----------------------------------------------------------------------------
(***************************************************************************)
(* SQLite.                                                                 *)
(***************************************************************************)

Others(c, locks) == \E d \in Conn \ {c} : lock[d] \in locks

\* A reader is kept out by a writer that waits to commit, a writer by any
\* other writer, a commit (and a write outside a transaction) by everybody.
MayRead(c) == lock[c] # "none" \/ ~Others(c, {"pending"})
MayWrite(c) ==
    IF intx[c] THEN MayRead(c) /\ ~Others(c, {"reserved", "pending"})
    ELSE ~Others(c, {"shared", "reserved", "pending"})
MayCommit(c) == lock[c] \in {"none", "shared"} \/ ~Others(c, {"shared", "reserved", "pending"})

\* What a client sees: its own writes, then the file.
Value(c) == IF draft[c].n > 0 THEN draft[c].x ELSE x

EndTransaction(c) ==
    /\ intx' = [intx EXCEPT ![c] = FALSE]
    /\ lock' = [lock EXCEPT ![c] = "none"]
    /\ draft' = [draft EXCEPT ![c] = NoDraft]

Publish(c, value, n) ==
    /\ x' = value
    /\ kept' = [kept EXCEPT ![c] = @ + n]

\* Fault: BEGIN is left out.
Bug_BeginTransaction(c) == UNCHANGED dbVars

BeginTransaction(c) ==
    /\ intx' = [intx EXCEPT ![c] = TRUE]
    /\ UNCHANGED <<lock, draft, x, kept>>

Query(c) ==
    /\ MayRead(c)
    /\ lock' = IF intx[c] /\ lock[c] = "none" THEN [lock EXCEPT ![c] = "shared"] ELSE lock
    /\ UNCHANGED <<intx, draft, x, kept>>

WriteInTransaction(c) ==
    /\ intx[c] /\ MayWrite(c)
    /\ draft' = [draft EXCEPT ![c] = [n |-> @.n + 1, x |-> seen[c] + 1]]
    /\ lock' = [lock EXCEPT ![c] = IF @ = "pending" THEN @ ELSE "reserved"]
    /\ UNCHANGED <<intx, x, kept>>

WriteOutside(c) ==
    /\ ~intx[c] /\ MayWrite(c)
    /\ Publish(c, seen[c] + 1, 1)
    /\ UNCHANGED <<intx, lock, draft>>

CommitTransaction(c) ==
    /\ intx[c] /\ MayCommit(c)
    /\ IF draft[c].n > 0 THEN Publish(c, draft[c].x, draft[c].n)
       ELSE UNCHANGED <<x, kept>>
    /\ EndTransaction(c)

\* Fault: the transaction of an unwound body is committed.
Bug_Undo(c) == Publish(c, Value(c), draft[c].n) /\ EndTransaction(c)

\* Fault: an unwound body leaves its transaction open.
Bug_Leave(c) == UNCHANGED dbVars

\* ROLLBACK, an error without effect when there is no transaction
Undo(c) == EndTransaction(c) /\ UNCHANGED <<x, kept>>

Executes(c, statement) ==
    \/ statement = "begin" /\ BeginTransaction(c)
    \/ statement \in {"select", "read"} /\ Query(c)
    \/ statement = "write" /\ (WriteInTransaction(c) \/ WriteOutside(c))
    \/ statement = "commit" /\ CommitTransaction(c)
    \/ statement = "rollback" /\ Undo(c)

-----------------------------------------------------------------------------
(***************************************************************************)
(* emacsql-with-transaction.                                               *)
(***************************************************************************)

Goto(c, place) == pc' = [pc EXCEPT ![c] = place]

\* An error that no level catches: out of all of them, to the cleanup form.
ToLowest(c) == level' = [level EXCEPT ![c] = 1]

\* The first statement of the body at a level.
BodyOf(l) == IF l < Depth THEN "select" ELSE "read"

\* (when (= 1 emacsql--transaction-level) (emacsql ... [:begin]))
Begin(c) ==
    /\ pc[c] = "begin"
    /\ Executes(c, "begin")
    /\ Goto(c, BodyOf(1))
    /\ UNCHANGED <<level, seen, late, alone, unsure>>

\* a query, and the transaction of the next level (a BEGIN is not sent)
Select(c) ==
    /\ pc[c] = "select"
    /\ Executes(c, "select")
    /\ level' = [level EXCEPT ![c] = @ + 1]
    /\ Goto(c, BodyOf(level[c] + 1))
    /\ UNCHANGED <<seen, late, alone, unsure>>

Read(c) ==
    /\ pc[c] = "read"
    /\ Executes(c, "read")
    /\ seen' = [seen EXCEPT ![c] = Value(c)]
    /\ Goto(c, "write")
    /\ UNCHANGED <<level, late, alone, unsure>>

\* Fault: level 1 is taken for the body of another level.
Bug_AfterWrite(c) == level' = [level EXCEPT ![c] = @ - 1] /\ Goto(c, "read")

\* The body of a level ends: back to that of the level around it.
AfterWrite(c) ==
    IF level[c] > 1
    THEN level' = [level EXCEPT ![c] = @ - 1] /\ Goto(c, "read")
    ELSE level' = level /\ Goto(c, "commit")

Write(c) ==
    /\ pc[c] = "write"
    /\ Executes(c, "write")
    /\ AfterWrite(c)
    /\ UNCHANGED <<seen, late, alone, unsure>>

\* (when (= 1 emacsql--transaction-level) (emacsql ... [:commit])) and
\* (setf emacsql--completed t)
Commit(c) ==
    /\ pc[c] = "commit"
    /\ Executes(c, "commit")
    /\ Goto(c, "returned")
    /\ UNCHANGED <<level, seen, late, alone, unsure>>

\* A COMMIT, waited for or left, waits for the readers to leave, and lets no
\* new one in.
CommitWaits(c) ==
    /\ \/ pc[c] = "commit"
       \/ late[c] # <<>> /\ Head(late[c]) = "commit"
    /\ intx[c] /\ ~MayCommit(c) /\ lock[c] = "reserved"
    /\ lock' = [lock EXCEPT ![c] = "pending"]
    /\ UNCHANGED <<level, pc, seen, intx, draft, x, kept, late, alone, unsure>>

\* SQLITE_BUSY: 'emacsql-locked reaches the handler of the innermost level
Locked(c) ==
    /\ \/ pc[c] \in {"select", "read"} /\ ~MayRead(c)
       \/ pc[c] = "write" /\ ~MayWrite(c)
       \/ pc[c] = "commit" /\ intx[c] /\ ~MayCommit(c)
    /\ Goto(c, "locked")
    /\ UNCHANGED <<level, seen, dbVars, late, alone, unsure>>

\* Any other error unwinds every level: a statement that SQLite refuses (a
\* COMMIT without a transaction is one), an error or C-g between statements.
Fail(c) ==
    /\ pc[c] \in {"begin", "select", "read", "write", "commit"}
    /\ Goto(c, "unwind") /\ ToLowest(c)
    /\ UNCHANGED <<seen, dbVars, late, alone, unsure>>

\* Fault: the handler leaves the loop.
Bug_Again(c) == Goto(c, "returned")

\* the next turn of the while loop
Again(c) == Goto(c, IF level[c] = 1 THEN "begin" ELSE BodyOf(level[c]))

\* (emacsql-locked (emacsql emacsql--connection [:rollback]) (sleep-for 0.05))
Retry(c) ==
    /\ pc[c] = "locked" /\ intx[c]
    /\ EndTransaction(c)
    /\ Again(c)
    /\ alone' = IF level[c] > 1 THEN alone \cup {c} ELSE alone
    /\ UNCHANGED <<level, seen, x, kept, late, unsure>>

\* ROLLBACK without a transaction is an error, signalled from the handler.
RetryFails(c) ==
    /\ pc[c] = "locked" /\ ~intx[c]
    /\ Goto(c, "unwind") /\ ToLowest(c)
    /\ UNCHANGED <<seen, dbVars, late, alone, unsure>>

\* the cleanup form: ROLLBACK when level 1 is left without completion (which
\* is an error of its own when there is no transaction)
Unwind(c) ==
    /\ pc[c] = "unwind" /\ late[c] = <<>>
    /\ Executes(c, "rollback")
    /\ Goto(c, "signalled")
    /\ UNCHANGED <<level, seen, late, alone, unsure>>

-----------------------------------------------------------------------------
(***************************************************************************)
(* Calls that are left before their answer.  Neither C-g nor               *)
(* 'emacsql-timeout is caught by the handler, so every level is left.      *)
(***************************************************************************)

\* the statement on its way at a place; at "locked" it is the handler's
Statement(place) == IF place = "locked" THEN "rollback" ELSE place

\* C-g in accept-process-output, or (signal 'emacsql-timeout ...)
Abandon(c) ==
    /\ pc[c] \in {"begin", "select", "read", "write", "commit", "locked"}
    /\ late' = [late EXCEPT ![c] = <<Statement(pc[c])>>]
    /\ unsure' = IF pc[c] = "commit" THEN unsure \cup {c} ELSE unsure
    /\ Goto(c, "unwind") /\ ToLowest(c)
    /\ UNCHANGED <<seen, dbVars, alone>>

\* The cleanup's ROLLBACK is left the same way, or takes the answer to the
\* statement before it for its own.
Leave(c) ==
    /\ pc[c] = "unwind"
    /\ late' = [late EXCEPT ![c] = Append(@, "rollback")]
    /\ Goto(c, "signalled")
    /\ UNCHANGED <<level, seen, dbVars, alone, unsure>>

\* SQLite gets to a statement that nobody waits for, and executes or, a
\* ROLLBACK excepted, refuses it.
Late(c) ==
    /\ late[c] # <<>>
    /\ \/ Executes(c, Head(late[c]))
       \/ Head(late[c]) # "rollback" /\ UNCHANGED dbVars
    /\ late' = [late EXCEPT ![c] = Tail(@)]
    /\ UNCHANGED <<level, pc, seen, alone, unsure>>

\* The process dies: SQLite drops its transaction, the call that waits and
\* the cleanup's ROLLBACK both signal.
Die(c) ==
    /\ pc[c] # "returned"
    /\ EndTransaction(c)
    /\ late' = [late EXCEPT ![c] = <<>>]
    /\ Goto(c, "signalled") /\ ToLowest(c)
    /\ UNCHANGED <<seen, x, kept, alone, unsure>>

\* It dies when it has executed COMMIT and before Emacs has got the answer.
DieAfterCommit(c) ==
    /\ pc[c] = "commit"
    /\ Executes(c, "commit")
    /\ unsure' = unsure \cup {c}
    /\ Goto(c, "signalled") /\ ToLowest(c)
    /\ UNCHANGED <<seen, late, alone>>

-----------------------------------------------------------------------------

Step(c) ==
    \/ Begin(c) \/ Select(c) \/ Read(c) \/ Write(c) \/ Commit(c) \/ CommitWaits(c)
    \/ Locked(c) \/ Fail(c) \/ Retry(c) \/ RetryFails(c) \/ Unwind(c)
    \/ Abandon(c) \/ Leave(c) \/ Late(c) \/ Die(c) \/ DieAfterCommit(c)

Next == \E c \in Conn : Step(c)

Spec == Init /\ [][Next]_vars

-----------------------------------------------------------------------------
(***************************************************************************)
(* Properties.                                                             *)
(***************************************************************************)

TypeOK ==
    /\ level \in [Conn -> 1..Depth]
    /\ pc \in [Conn -> {"begin", "select", "read", "write", "commit", "locked",
                        "unwind", "returned", "signalled"}]
    /\ seen \in [Conn -> Nat]
    /\ intx \in [Conn -> BOOLEAN]
    /\ lock \in [Conn -> {"none", "shared", "reserved", "pending"}]
    /\ draft \in [Conn -> [n : Nat, x : Nat]]
    /\ x \in Nat
    /\ kept \in [Conn -> Nat]
    /\ late \in [Conn -> Seq({"begin", "select", "read", "write", "commit", "rollback"})]
    /\ alone \in SUBSET Conn
    /\ unsure \in SUBSET Conn

\* "wrapping everything in a single transaction at the lowest level": what is
\* in the file of a body, nested levels included, is all of it or nothing.
SingleTransaction == \A c \in Conn : kept[c] \in {0, Depth}

\* This holds as long as no inner level met a lock, through retries at the
\* lowest level, errors and deaths at any level, and statements executed late;
\* and the file tells it from how the macro was left: all of the body is there
\* when it has returned, nothing when it has not, except that a COMMIT whose
\* answer never came may have taken effect although the macro signals.
SingleUnlessInnerRetry ==
    \A c \in Conn \ alone :
        /\ kept[c] \in {0, Depth}
        /\ pc[c] = "returned" => kept[c] = Depth
        /\ kept[c] > 0 => pc[c] = "returned" \/ c \in unsure

\* A transaction that returns is complete in any case.
ReturnedIsComplete ==
    \A c \in Conn : pc[c] = "returned" => kept[c] = Depth

\* Nobody's increment is lost to another client: the body is repeated from
\* its first read, never from the value it had read before, and a write or a
\* COMMIT that is executed late still has the locks its value was read under.
NoLostUpdate ==
    alone = {} => x = MapThenSumSet(LAMBDA c : kept[c], Conn)

\* However the macro is left, no transaction and no lock stays behind, as
\* soon as SQLite has got through what it was sent.
NothingLeftOpen ==
    \A c \in Conn :
        pc[c] \in {"returned", "signalled"} /\ late[c] = <<>>
            => ~intx[c] /\ lock[c] = "none"

=============================================================================
