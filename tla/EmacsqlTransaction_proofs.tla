---------------------- MODULE EmacsqlTransaction_proofs ----------------------
(***************************************************************************)
(* Proofs about EmacsqlTransaction, for any number of clients and of       *)
(* nested levels.  What a client has in its open transaction is known from *)
(* the place it has reached: the levels below the one it is in have each   *)
(* added one increment.  A client that has repeated an inner level by      *)
(* itself has no transaction, and will not have one again.  A client that  *)
(* has left a statement does nothing but roll back, and a ROLLBACK is the  *)
(* last of what SQLite has still to execute for it.                        *)
(* Locks keep two clients from reading one counter and both writing it:    *)
(* whoever has read it is in the way of every commit but its own.          *)
(***************************************************************************)
EXTENDS EmacsqlTransaction, SeqLemmas, FiniteSetTheorems, TLAPS

\* The body of a level, in the transaction or, for those alone, outside
Inside == {"select", "read", "write", "commit"}

Left == {"unwind", "signalled"}

Places == Inside \cup Left \cup {"begin", "locked", "returned"}

Statements == {"begin", "select", "read", "write", "commit", "rollback"}

\* The statement SQLite gets to next, of those nobody waits for
Next1(c, statement) == late[c] # <<>> /\ late[c][1] = statement

\* What is left when there is no transaction
Closed(c) == ~intx[c] => lock[c] = "none" /\ draft[c].n = 0

\* What has been left is followed by ROLLBACKs only.
LateInv(c) ==
    /\ late[c] # <<>> => pc[c] \in Left
    /\ \A i \in 1..Len(late[c]) : i > 1 => late[c][i] = "rollback"
    /\ pc[c] = "signalled" =>
          IF late[c] = <<>> THEN ~intx[c] ELSE late[c][Len(late[c])] = "rollback"

\* Where a client that is not alone can be, with what in its transaction
Progress(c) ==
    /\ pc[c] \in Inside => intx[c]
    /\ pc[c] = "begin" => level[c] = 1 /\ draft[c].n = 0
    /\ pc[c] = "select" => draft[c].n = 0
    /\ pc[c] \in {"read", "write"} => draft[c].n = Depth - level[c]
    /\ pc[c] = "commit" => draft[c].n = Depth
    /\ Next1(c, "write") => intx[c]
    /\ Next1(c, "commit") => draft[c].n = Depth /\ kept[c] = 0 /\ c \in unsure

\* What it has got into the file
KeptInv(c) ==
    /\ kept[c] \in {0, Depth}
    /\ pc[c] = "returned" => kept[c] = Depth
    /\ kept[c] > 0 => pc[c] = "returned" \/ c \in unsure

ClientInv(c) ==
    /\ Closed(c)
    /\ LateInv(c)
    /\ pc[c] = "select" => level[c] < Depth
    /\ pc[c] = "returned" => ~intx[c]
    /\ c \in unsure => pc[c] \in Left
    /\ c \in alone => ~intx[c] /\ pc[c] \notin {"begin", "returned"} /\ ~Next1(c, "begin")
    /\ c \notin alone => Progress(c) /\ KeptInv(c)

TransactionInv == TypeOK /\ \A c \in Conn : ClientInv(c)

LEMMA DepthType == Depth \in Nat /\ Depth >= 1
BY TransactionAssumption

LEMMA InitInv == Init => TransactionInv
<1> USE DepthType
<1> SUFFICES ASSUME Init PROVE TransactionInv
  OBVIOUS
<1>1. TypeOK
  BY DEF Init, TypeOK, NoDraft
<1>2. \A c \in Conn : ClientInv(c)
  BY DEF Init, ClientInv, Closed, LateInv, Next1, Progress, KeptInv, Inside, Left, NoDraft
<1> QED
  BY <1>1, <1>2 DEF TransactionInv

-----------------------------------------------------------------------------
(***************************************************************************)
(* SQLite's part of a step.                                                *)
(***************************************************************************)

LEMMA ExecutesIs ==
    ASSUME NEW c
    PROVE  /\ Executes(c, "begin") <=> BeginTransaction(c)
           /\ Executes(c, "select") <=> Query(c)
           /\ Executes(c, "read") <=> Query(c)
           /\ Executes(c, "write") <=> WriteInTransaction(c) \/ WriteOutside(c)
           /\ Executes(c, "commit") <=> CommitTransaction(c)
           /\ Executes(c, "rollback") <=> Undo(c)
BY DEF Executes

LEMMA ExecutesOne ==
    ASSUME NEW c, NEW statement, Executes(c, statement)
    PROVE  \/ BeginTransaction(c) \/ Query(c) \/ WriteInTransaction(c) \/ WriteOutside(c)
           \/ CommitTransaction(c) \/ Undo(c)
BY DEF Executes

DbType ==
    /\ intx \in [Conn -> BOOLEAN]
    /\ lock \in [Conn -> {"none", "shared", "reserved", "pending"}]
    /\ draft \in [Conn -> [n : Nat, x : Nat]]
    /\ x \in Nat
    /\ kept \in [Conn -> Nat]

LEMMA ExecutesType ==
    ASSUME TypeOK, NEW c \in Conn, NEW statement, Executes(c, statement)
    PROVE  DbType'
<1> USE DEF TypeOK, DbType, NoDraft
<1>1. CASE BeginTransaction(c) \/ Query(c)
  BY <1>1 DEF BeginTransaction, Query
<1>2. CASE WriteInTransaction(c)
  BY <1>2 DEF WriteInTransaction
<1>3. CASE WriteOutside(c)
  BY <1>3 DEF WriteOutside, Publish
<1>4. CASE CommitTransaction(c)
  <2>1. /\ intx' \in [Conn -> BOOLEAN] /\ draft' \in [Conn -> [n : Nat, x : Nat]]
        /\ lock' \in [Conn -> {"none", "shared", "reserved", "pending"}]
    BY <1>4 DEF CommitTransaction, EndTransaction
  <2>2. /\ x \in Nat /\ kept \in [Conn -> Nat]
        /\ draft[c].n \in Nat /\ draft[c].x \in Nat
    OBVIOUS
  <2>3. \/ x' = draft[c].x /\ kept' = [kept EXCEPT ![c] = @ + draft[c].n]
        \/ x' = x /\ kept' = kept
    BY ONLY <1>4 DEF CommitTransaction, Publish
  <2>4. x' \in Nat /\ kept' \in [Conn -> Nat]
    BY ONLY <2>2, <2>3
  <2> QED
    BY <2>1, <2>4
<1>5. CASE Undo(c)
  BY <1>5 DEF Undo, EndTransaction
<1> QED
  BY <1>1, <1>2, <1>3, <1>4, <1>5, ExecutesOne

LEMMA ExecutesFrame ==
    ASSUME TypeOK, NEW c \in Conn, NEW d \in Conn, d # c,
           NEW statement, Executes(c, statement)
    PROVE  /\ intx'[d] = intx[d] /\ lock'[d] = lock[d]
           /\ draft'[d] = draft[d] /\ kept'[d] = kept[d]
<1> USE DEF TypeOK
<1>1. CASE BeginTransaction(c) \/ Query(c)
  BY <1>1 DEF BeginTransaction, Query
<1>2. CASE WriteInTransaction(c) \/ WriteOutside(c)
  BY <1>2 DEF WriteInTransaction, WriteOutside, Publish
<1>3. CASE CommitTransaction(c)
  BY <1>3 DEF CommitTransaction, Publish, EndTransaction
<1>4. CASE Undo(c)
  BY <1>4 DEF Undo, EndTransaction
<1> QED
  BY <1>1, <1>2, <1>3, <1>4, ExecutesOne

\* Without a transaction there is no lock and no draft, before and after.
LEMMA ExecutesClosed ==
    ASSUME TypeOK, NEW c \in Conn, NEW statement, Executes(c, statement), Closed(c)
    PROVE  Closed(c)'
<1> USE DEF TypeOK, Closed, NoDraft
<1>1. CASE BeginTransaction(c) \/ Query(c)
  BY <1>1 DEF BeginTransaction, Query
<1>2. CASE WriteInTransaction(c) \/ WriteOutside(c)
  BY <1>2 DEF WriteInTransaction, WriteOutside
<1>3. CASE CommitTransaction(c) \/ Undo(c)
  BY <1>3 DEF CommitTransaction, Undo, EndTransaction
<1> QED
  BY <1>1, <1>2, <1>3, ExecutesOne

\* What is left of the statements still to execute
LEMMA LateRest ==
    ASSUME TypeOK, NEW c \in Conn, LateInv(c), Late(c)
    PROVE  /\ Head(late[c]) = late[c][1] /\ late[c] # <<>> /\ pc[c] \in Left
           /\ late'[c] \in Seq(Statements)
           /\ \A i \in 1..Len(late'[c]) : late'[c][i] = "rollback"
           /\ late'[c] = <<>> /\ pc[c] = "signalled" => late[c][1] = "rollback"
<1>1. late[c] \in Seq(Statements) /\ late[c] # <<>> /\ late'[c] = Tail(late[c])
  BY DEF TypeOK, Late, Statements
<1>2. /\ Len(late[c]) \in Nat /\ Len(late[c]) >= 1 /\ Head(late[c]) = late[c][1]
      /\ late'[c] \in Seq(Statements) /\ Len(late'[c]) = Len(late[c]) - 1
      /\ \A i \in 1..Len(late'[c]) : late'[c][i] = late[c][i + 1]
  BY <1>1, HeadTail
<1>3. ASSUME NEW i \in 1..Len(late'[c]) PROVE late'[c][i] = "rollback"
  <2>1. i + 1 \in 1..Len(late[c]) /\ i + 1 > 1
    BY <1>2
  <2> QED
    BY <1>2, <2>1 DEF LateInv
<1>4. ASSUME late'[c] = <<>>, pc[c] = "signalled" PROVE late[c][1] = "rollback"
  <2>1. Len(late[c]) = 1
    BY <1>2, <1>4
  <2> QED
    BY <1>1, <1>4, <2>1 DEF LateInv
<1> QED
  BY <1>1, <1>2, <1>3, <1>4 DEF LateInv

-----------------------------------------------------------------------------

LEMMA StepPlace ==
    ASSUME TransactionInv, NEW c \in Conn, Step(c)
    PROVE  pc' \in [Conn -> Places]
<1>1. pc \in [Conn -> Places]
  BY DEF TransactionInv, TypeOK, Places, Inside, Left
<1>2. \A l : BodyOf(l) \in Places
  BY DEF BodyOf, Places, Inside
<1>3. ASSUME NEW p \in Places, Goto(c, p) PROVE pc' \in [Conn -> Places]
  BY <1>1, <1>3 DEF Goto
<1>4. /\ "read" \in Places /\ "write" \in Places /\ "commit" \in Places /\ "locked" \in Places
      /\ "unwind" \in Places /\ "returned" \in Places /\ "signalled" \in Places
      /\ "begin" \in Places
  BY DEF Places, Inside, Left
<1>5. CASE Begin(c) \/ Select(c)
  BY <1>2, <1>3, <1>5 DEF Begin, Select
<1>6. CASE Read(c) \/ Write(c) \/ Commit(c)
  BY <1>3, <1>4, <1>6 DEF Read, Write, AfterWrite, Commit
<1>7. CASE CommitWaits(c) \/ Late(c)
  BY <1>1, <1>7 DEF CommitWaits, Late
<1>8. CASE Locked(c) \/ Fail(c) \/ RetryFails(c) \/ Unwind(c)
  BY <1>3, <1>4, <1>8 DEF Locked, Fail, RetryFails, Unwind
<1>9. CASE Retry(c)
  BY <1>2, <1>3, <1>4, <1>9 DEF Retry, Again
<1>10. CASE Abandon(c) \/ Leave(c) \/ Die(c) \/ DieAfterCommit(c)
  BY <1>3, <1>4, <1>10 DEF Abandon, Leave, Die, DieAfterCommit
<1> QED
  BY <1>5, <1>6, <1>7, <1>8, <1>9, <1>10 DEF Step

LEMMA StepType ==
    ASSUME TransactionInv, NEW c \in Conn, Step(c)
    PROVE  TypeOK'
<1> DEFINE ControlType ==
              /\ level \in [Conn -> 1..Depth]
              /\ seen \in [Conn -> Nat]
              /\ late \in [Conn -> Seq(Statements)]
              /\ alone \in SUBSET Conn
              /\ unsure \in SUBSET Conn
<1>1. ControlType /\ DbType /\ TypeOK
  BY DEF TransactionInv, TypeOK, DbType, Statements
<1>2. ASSUME ControlType', DbType' PROVE TypeOK'
  BY <1>2, StepPlace DEF TypeOK, DbType, Places, Inside, Left, Statements
<1> USE DepthType DEF ToLowest
<1>3. CASE Begin(c) \/ Commit(c) \/ Unwind(c) \/ DieAfterCommit(c)
  <2>1. DbType'
    BY <1>1, <1>3, ExecutesType DEF Begin, Commit, Unwind, DieAfterCommit
  <2>2. ControlType'
    BY <1>1, <1>3 DEF Begin, Commit, Unwind, DieAfterCommit
  <2> QED
    BY <2>1, <2>2, <1>2
<1>4. CASE Select(c)
  <2>1. DbType'
    BY <1>1, <1>4, ExecutesType DEF Select
  <2>2. level[c] < Depth
    BY <1>4 DEF Select, TransactionInv, ClientInv
  <2>3. ControlType'
    BY <1>1, <1>4, <2>2 DEF Select
  <2> QED
    BY <2>1, <2>3, <1>2
<1>5. CASE Read(c)
  <2>1. DbType'
    BY <1>1, <1>5, ExecutesType DEF Read
  <2>2. Value(c) \in Nat
    BY <1>1 DEF DbType, Value
  <2>3. ControlType'
    BY <1>1, <1>5, <2>2 DEF Read
  <2> QED
    BY <2>1, <2>3, <1>2
<1>6. CASE Write(c)
  <2>1. DbType'
    BY <1>1, <1>6, ExecutesType DEF Write
  <2>2. \/ level[c] > 1 /\ level' = [level EXCEPT ![c] = level[c] - 1]
        \/ level' = level
    BY <1>6 DEF Write, AfterWrite
  <2>3. level' \in [Conn -> 1..Depth]
    <3>1. level[c] \in 1..Depth /\ (level[c] > 1 => level[c] - 1 \in 1..Depth)
      BY <1>1
    <3>2. CASE level' = level
      BY <1>1, <3>2
    <3>3. CASE level[c] > 1 /\ level' = [level EXCEPT ![c] = level[c] - 1]
      BY <1>1, <3>1, <3>3
    <3> QED
      BY <2>2, <3>2, <3>3
  <2>4. ControlType'
    BY <1>1, <1>6, <2>3 DEF Write
  <2> QED
    BY <2>1, <2>4, <1>2
<1>7. CASE CommitWaits(c)
  <2>1. DbType' /\ ControlType'
    BY <1>1, <1>7 DEF CommitWaits, DbType
  <2> QED
    BY <2>1, <1>2
<1>8. CASE Locked(c) \/ Fail(c) \/ RetryFails(c)
  <2>1. DbType'
    BY <1>1, <1>8 DEF Locked, Fail, RetryFails, DbType, dbVars
  <2>2. ControlType'
    BY <1>1, <1>8 DEF Locked, Fail, RetryFails
  <2> QED
    BY <2>1, <2>2, <1>2
<1>9. CASE Retry(c)
  <2>1. DbType' /\ ControlType'
    BY <1>1, <1>9 DEF Retry, EndTransaction, Again, DbType, NoDraft
  <2> QED
    BY <2>1, <1>2
<1>10. CASE Abandon(c)
  <2>1. <<Statement(pc[c])>> \in Seq(Statements)
    BY <1>10 DEF Abandon, Statement, Statements
  <2>2. DbType' /\ ControlType'
    BY <1>1, <1>10, <2>1 DEF Abandon, DbType, dbVars
  <2> QED
    BY <2>2, <1>2
<1>11. CASE Leave(c)
  <2>1. Append(late[c], "rollback") \in Seq(Statements)
    BY <1>1, AppendProperties DEF Statements
  <2>2. DbType' /\ ControlType'
    BY <1>1, <1>11, <2>1 DEF Leave, DbType, dbVars
  <2> QED
    BY <2>2, <1>2
<1>12. CASE Late(c)
  <2>1. DbType'
    BY <1>1, <1>12, ExecutesType DEF Late, DbType, dbVars
  <2>2. late'[c] \in Seq(Statements)
    BY <1>1, <1>12, LateRest DEF TransactionInv, ClientInv
  <2>3. ControlType'
    BY <1>1, <1>12, <2>2 DEF Late
  <2> QED
    BY <2>1, <2>3, <1>2
<1>13. CASE Die(c)
  <2>1. DbType' /\ ControlType'
    BY <1>1, <1>13 DEF Die, EndTransaction, DbType, NoDraft
  <2> QED
    BY <2>1, <1>2
<1> QED
  BY <1>3, <1>4, <1>5, <1>6, <1>7, <1>8, <1>9, <1>10, <1>11, <1>12, <1>13 DEF Step

\* A step of one client leaves what is said of the others.
LEMMA OthersKeep ==
    ASSUME TransactionInv, NEW c \in Conn, NEW d \in Conn, d # c,
           level'[d] = level[d], pc'[d] = pc[d], intx'[d] = intx[d], lock'[d] = lock[d],
           draft'[d] = draft[d], kept'[d] = kept[d], late'[d] = late[d],
           d \in alone' <=> d \in alone, d \in unsure' <=> d \in unsure
    PROVE  ClientInv(d)'
BY DEF TransactionInv, ClientInv, Closed, LateInv, Next1, Progress, KeptInv

LEMMA OthersFrame ==
    ASSUME TransactionInv, NEW c \in Conn, NEW d \in Conn, d # c, Step(c)
    PROVE  /\ level'[d] = level[d] /\ pc'[d] = pc[d] /\ intx'[d] = intx[d]
           /\ lock'[d] = lock[d] /\ draft'[d] = draft[d] /\ kept'[d] = kept[d]
           /\ seen'[d] = seen[d] /\ late'[d] = late[d]
           /\ d \in alone' <=> d \in alone
           /\ d \in unsure' <=> d \in unsure
<1>0. TypeOK
  BY DEF TransactionInv
<1> USE DEF TypeOK, Goto, ToLowest, dbVars
<1>1. CASE Begin(c) \/ Select(c) \/ Read(c) \/ Write(c)
  BY <1>0, <1>1, ExecutesFrame DEF Begin, Select, Read, Write, AfterWrite
<1>2. CASE Commit(c) \/ Unwind(c) \/ DieAfterCommit(c)
  BY <1>0, <1>2, ExecutesFrame DEF Commit, Unwind, DieAfterCommit
<1>3. CASE CommitWaits(c) \/ Locked(c) \/ Fail(c) \/ RetryFails(c)
  BY <1>0, <1>3 DEF CommitWaits, Locked, Fail, RetryFails
<1>4. CASE Retry(c) \/ Die(c)
  BY <1>0, <1>4 DEF Retry, Again, Die, EndTransaction
<1>5. CASE Abandon(c) \/ Leave(c)
  BY <1>0, <1>5 DEF Abandon, Leave
<1>6. CASE Late(c)
  BY <1>0, <1>6, ExecutesFrame DEF Late
<1> QED
  BY <1>1, <1>2, <1>3, <1>4, <1>5, <1>6 DEF Step

LEMMA StepOthers ==
    ASSUME TransactionInv, NEW c \in Conn, NEW d \in Conn, d # c, Step(c)
    PROVE  ClientInv(d)'
BY OthersFrame, OthersKeep

\* The step of a client keeps what is said of itself: one that goes on has
\* left nothing, in the steps of the macro,
LEMMA NothingLate ==
    ASSUME TransactionInv, NEW c \in Conn, pc[c] \notin Left
    PROVE  late[c] = <<>> /\ c \notin unsure
BY DEF TransactionInv, ClientInv, LateInv

LEMMA StillNothingLate ==
    ASSUME NEW c \in Conn, late'[c] = <<>>, pc'[c] # "signalled"
    PROVE  LateInv(c)' /\ \A s : ~Next1(c, s)'
BY DEF LateInv, Next1

LEMMA MacroOwn ==
    ASSUME TransactionInv, NEW c \in Conn,
           \/ Begin(c) \/ Select(c) \/ Read(c) \/ Write(c) \/ Commit(c)
           \/ Locked(c) \/ Fail(c) \/ Retry(c) \/ RetryFails(c)
    PROVE  ClientInv(c)'
<1> USE DepthType DEF Goto, ToLowest, BodyOf, NoDraft
<1>1. /\ TypeOK /\ Closed(c) /\ LateInv(c)
      /\ pc[c] = "select" => level[c] < Depth
      /\ c \in alone => ~intx[c] /\ pc[c] \notin {"begin", "returned"}
      /\ c \notin alone => Progress(c) /\ KeptInv(c)
  BY DEF TransactionInv, ClientInv
<1>2. pc[c] \notin Left
  BY DEF Begin, Select, Read, Write, Commit, Locked, Fail, Retry, RetryFails, Left
<1>3. late[c] = <<>> /\ c \notin unsure
  BY <1>2, NothingLate
<1>4. late' = late /\ unsure' = unsure /\ pc'[c] # "signalled"
  BY <1>1 DEF Begin, Select, Read, Write, Commit, Locked, Fail, Retry, RetryFails,
              AfterWrite, Again, TypeOK
<1>5. LateInv(c)' /\ ~Next1(c, "begin")' /\ ~Next1(c, "write")' /\ ~Next1(c, "commit")'
  BY <1>3, <1>4, StillNothingLate
<1>6. c \notin unsure'
  BY <1>3, <1>4
<1>7. kept[c] = 0 \/ c \in alone
  BY <1>1, <1>2, <1>3 DEF KeptInv, TypeOK, Begin, Select, Read, Write, Commit, Locked,
                          Fail, Retry, RetryFails
<1> HIDE DEF Left
<1> USE DEF TypeOK, Inside
<1>8. CASE Begin(c)
  <2>1. BeginTransaction(c) /\ Closed(c)'
    BY <1>1, <1>8, ExecutesIs, ExecutesClosed DEF Begin
  <2> QED
    BY <1>1, <1>5, <1>6, <1>7, <1>8, <2>1
       DEF Begin, BeginTransaction, ClientInv, Progress, KeptInv
<1>9. CASE Select(c)
  <2>1. Query(c) /\ Closed(c)'
    BY <1>1, <1>9, ExecutesIs, ExecutesClosed DEF Select
  <2>2. /\ level'[c] = level[c] + 1 /\ level[c] < Depth
        /\ pc'[c] = IF level[c] + 1 < Depth THEN "select" ELSE "read"
        /\ intx' = intx /\ draft' = draft /\ kept' = kept /\ alone' = alone
    BY <1>1, <1>9, <2>1 DEF Select, Query
  <2>3. c \notin alone => Progress(c)'
    BY <1>1, <1>5, <1>9, <2>2 DEF Select, Progress
  <2> QED
    BY <1>1, <1>5, <1>6, <1>7, <2>1, <2>2, <2>3 DEF ClientInv, KeptInv
<1>10. CASE Read(c)
  <2>1. Query(c) /\ Closed(c)'
    BY <1>1, <1>10, ExecutesIs, ExecutesClosed DEF Read
  <2> QED
    BY <1>1, <1>5, <1>6, <1>7, <1>10, <2>1 DEF Read, Query, ClientInv, Progress, KeptInv
<1>11. CASE Write(c) /\ WriteInTransaction(c)
  <2>1. Closed(c)'
    BY <1>1, <1>11, ExecutesClosed DEF Write
  <2>2. c \notin alone /\ draft[c].n = Depth - level[c] /\ draft'[c].n = draft[c].n + 1
    BY <1>1, <1>11 DEF Write, WriteInTransaction, Progress
  <2> QED
    BY <1>1, <1>5, <1>6, <1>7, <1>11, <2>1, <2>2
       DEF Write, WriteInTransaction, AfterWrite, ClientInv, Progress, KeptInv
<1>12. CASE Write(c) /\ WriteOutside(c)
  <2>1. Closed(c)' /\ c \in alone
    BY <1>1, <1>12, ExecutesClosed DEF Write, WriteOutside, Progress
  <2> QED
    BY <1>1, <1>5, <1>6, <1>12, <2>1 DEF Write, WriteOutside, AfterWrite, ClientInv
<1>13. CASE Commit(c)
  <2>1. CommitTransaction(c) /\ Closed(c)'
    BY <1>1, <1>13, ExecutesIs, ExecutesClosed DEF Commit
  <2>2. c \notin alone /\ draft[c].n = Depth /\ kept[c] = 0
    BY <1>1, <1>7, <1>13, <2>1 DEF Commit, CommitTransaction, Progress
  <2>3. kept'[c] = Depth /\ ~intx'[c] /\ pc'[c] = "returned" /\ alone' = alone
    BY <1>13, <2>1, <2>2, <1>1 DEF Commit, CommitTransaction, Publish, EndTransaction
  <2> QED
    BY <1>5, <1>6, <2>1, <2>2, <2>3 DEF ClientInv, Progress, KeptInv
<1>14. CASE Locked(c) \/ Fail(c)
  BY <1>1, <1>5, <1>6, <1>7, <1>14 DEF Locked, Fail, dbVars, ClientInv, Closed, Progress, KeptInv
<1>15. CASE Retry(c)
  BY <1>1, <1>5, <1>6, <1>7, <1>15
     DEF Retry, EndTransaction, Again, ClientInv, Closed, Progress, KeptInv
<1>16. CASE RetryFails(c)
  BY <1>1, <1>5, <1>6, <1>7, <1>16 DEF RetryFails, dbVars, ClientInv, Closed, Progress, KeptInv
<1> QED
  BY <1>8, <1>9, <1>10, <1>11, <1>12, <1>13, <1>14, <1>15, <1>16, ExecutesIs DEF Write

\* or has left a statement, the cleanup's ROLLBACK or the macro;
LEMMA LeavingOwn ==
    ASSUME TransactionInv, NEW c \in Conn,
           \/ Unwind(c) \/ Abandon(c) \/ Leave(c) \/ Die(c) \/ DieAfterCommit(c)
    PROVE  ClientInv(c)'
<1> USE DepthType DEF Goto, ToLowest, NoDraft
<1>1. /\ TypeOK /\ Closed(c) /\ LateInv(c)
      /\ c \in unsure => pc[c] \in Left
      /\ c \in alone => ~intx[c] /\ pc[c] \notin {"begin", "returned"} /\ ~Next1(c, "begin")
      /\ c \notin alone => Progress(c) /\ KeptInv(c)
  BY DEF TransactionInv, ClientInv
<1> USE DEF TypeOK, Inside, Left
<1>2. CASE Unwind(c)
  <2>1. Undo(c) /\ pc'[c] = "signalled" /\ late' = late /\ late[c] = <<>>
    BY <1>1, <1>2, ExecutesIs DEF Unwind
  <2>2. ~intx'[c] /\ Closed(c)' /\ kept' = kept
    BY <1>1, <2>1 DEF Undo, EndTransaction, Closed
  <2>3. LateInv(c)' /\ Progress(c)'
    BY <2>1, <2>2 DEF LateInv, Next1, Progress
  <2> QED
    BY <1>1, <1>2, <2>1, <2>2, <2>3 DEF Unwind, ClientInv, Next1, KeptInv
<1>3. CASE Abandon(c)
  <2>1. /\ pc[c] \notin {"unwind", "signalled", "returned"}
        /\ late'[c] = <<Statement(pc[c])>> /\ pc'[c] = "unwind"
        /\ intx' = intx /\ lock' = lock /\ draft' = draft /\ kept' = kept /\ alone' = alone
    BY <1>1, <1>3 DEF Abandon, dbVars
  <2>2. Len(late'[c]) = 1 /\ late'[c][1] = Statement(pc[c])
    BY <2>1
  <2>3. LateInv(c)' /\ Closed(c)'
    BY <1>1, <2>1, <2>2 DEF LateInv, Closed
  <2>4. \A s : Next1(c, s)' => s = Statement(pc[c])
    BY <2>2 DEF Next1
  <2>5. /\ Next1(c, "begin")' => pc[c] = "begin"
        /\ Next1(c, "write")' => pc[c] = "write"
        /\ Next1(c, "commit")' => pc[c] = "commit"
    BY <2>4 DEF Statement
  <2>6. c \notin unsure
    BY <1>1, <2>1
  <2>7. c \in unsure' <=> pc[c] = "commit"
    BY <1>3, <2>6 DEF Abandon
  <2>8. c \notin alone => Progress(c)' /\ KeptInv(c)'
    BY <1>1, <2>1, <2>5, <2>6, <2>7 DEF Progress, KeptInv
  <2> QED
    BY <1>1, <2>1, <2>3, <2>5, <2>8 DEF ClientInv
<1>4. CASE Leave(c)
  <2>1. /\ pc[c] = "unwind" /\ pc'[c] = "signalled" /\ late'[c] = Append(late[c], "rollback")
        /\ intx' = intx /\ lock' = lock /\ draft' = draft /\ kept' = kept /\ alone' = alone
        /\ unsure' = unsure
    BY <1>1, <1>4 DEF Leave, dbVars
  <2>2. late[c] \in Seq(Statements) /\ "rollback" \in Statements
    BY <1>1 DEF Statements
  <2>3. /\ Len(late[c]) \in Nat /\ Len(late'[c]) = Len(late[c]) + 1
        /\ \A i \in 1..Len(late[c]) : late'[c][i] = late[c][i]
        /\ late'[c][Len(late[c]) + 1] = "rollback"
        /\ late[c] # <<>> => Len(late[c]) >= 1
    BY <2>1, <2>2, AppendProperties, EmptySeq, LenProperties
  <2>4. late'[c] # <<>>
    BY <2>3, EmptySeq
  <2>5. LateInv(c)'
    BY <1>1, <2>1, <2>3, <2>4 DEF LateInv
  <2>6. /\ Next1(c, "begin")' => Next1(c, "begin")
        /\ Next1(c, "write")' => Next1(c, "write")
        /\ Next1(c, "commit")' => Next1(c, "commit")
    <3>1. CASE late[c] = <<>>
      <4>1. late'[c][1] = "rollback"
        BY <2>3, <3>1, EmptySeq
      <4> QED
        BY <4>1 DEF Next1
    <3>2. CASE late[c] # <<>>
      BY <2>3, <3>2 DEF Next1
    <3> QED
      BY <3>1, <3>2
  <2>7. c \notin alone => Progress(c)' /\ KeptInv(c)'
    BY <1>1, <2>1, <2>6 DEF Progress, KeptInv
  <2> QED
    BY <1>1, <2>1, <2>5, <2>6, <2>7 DEF ClientInv, Closed
<1>5. CASE Die(c)
  <2>1. /\ pc[c] # "returned" /\ pc'[c] = "signalled" /\ late'[c] = <<>>
        /\ ~intx'[c] /\ lock'[c] = "none" /\ draft'[c].n = 0
        /\ kept' = kept /\ alone' = alone /\ unsure' = unsure
    BY <1>1, <1>5 DEF Die, EndTransaction
  <2>2. LateInv(c)' /\ Closed(c)'
    BY <2>1 DEF LateInv, Closed
  <2>3. Progress(c)' /\ ~Next1(c, "begin")'
    BY <2>1 DEF Progress, Next1
  <2>4. c \notin alone => KeptInv(c)'
    BY <1>1, <2>1 DEF KeptInv
  <2> QED
    BY <1>1, <2>1, <2>2, <2>3, <2>4 DEF ClientInv
<1>6. CASE DieAfterCommit(c)
  <2>1. CommitTransaction(c) /\ pc[c] = "commit" /\ pc'[c] = "signalled"
    BY <1>1, <1>6, ExecutesIs DEF DieAfterCommit
  <2>2. late'[c] = <<>> /\ c \in unsure' /\ alone' = alone
    BY <1>1, <1>6, <2>1, NothingLate DEF DieAfterCommit
  <2>3. c \notin alone /\ draft[c].n = Depth /\ kept[c] = 0
    <3>1. c \notin alone /\ c \notin unsure
      BY <1>1, <2>1 DEF CommitTransaction
    <3> QED
      BY <1>1, <2>1, <3>1 DEF Progress, KeptInv
  <2>4. kept'[c] = Depth /\ ~intx'[c] /\ lock'[c] = "none" /\ draft'[c].n = 0
    BY <1>1, <2>1, <2>3 DEF CommitTransaction, Publish, EndTransaction
  <2>5. LateInv(c)' /\ Closed(c)' /\ Progress(c)'
    BY <2>1, <2>2, <2>4 DEF LateInv, Closed, Progress, Next1
  <2> QED
    BY <2>1, <2>2, <2>3, <2>4, <2>5 DEF ClientInv, KeptInv
<1> QED
  BY <1>2, <1>3, <1>4, <1>5, <1>6

\* and so does what SQLite does by itself.
LEMMA LateOwn ==
    ASSUME TransactionInv, NEW c \in Conn, Late(c)
    PROVE  ClientInv(c)'
<1> USE DepthType DEF NoDraft
<1>1. /\ TypeOK /\ Closed(c) /\ LateInv(c)
      /\ c \in alone => ~intx[c] /\ ~Next1(c, "begin")
      /\ c \notin alone => Progress(c) /\ KeptInv(c)
  BY DEF TransactionInv, ClientInv
<1>2. /\ Head(late[c]) = late[c][1] /\ late[c] # <<>> /\ pc[c] \in Left
      /\ late'[c] \in Seq(Statements)
      /\ \A i \in 1..Len(late'[c]) : late'[c][i] = "rollback"
      /\ late'[c] = <<>> /\ pc[c] = "signalled" => late[c][1] = "rollback"
  BY <1>1, LateRest
<1>3. /\ level' = level /\ pc' = pc /\ alone' = alone /\ unsure' = unsure
      /\ \/ Executes(c, late[c][1])
         \/ UNCHANGED dbVars /\ late[c][1] # "rollback"
  BY <1>2 DEF Late
<1>4. Len(late'[c]) \in Nat /\ (late'[c] # <<>> => Len(late'[c]) >= 1)
  BY <1>2, EmptySeq, LenProperties
<1>5. ~Next1(c, "begin")' /\ ~Next1(c, "write")' /\ ~Next1(c, "commit")'
  <2>1. late'[c] # <<>> => late'[c][1] = "rollback"
    BY <1>2, <1>4
  <2> QED
    BY <2>1 DEF Next1
<1>6. Closed(c)'
  BY <1>1, <1>3, ExecutesClosed DEF Closed, dbVars
<1>7. late[c][1] = "rollback" => ~intx'[c]
  BY <1>1, <1>3, ExecutesIs DEF Undo, EndTransaction, TypeOK
<1>8. LateInv(c)'
  <2>1. late'[c] # <<>> => late'[c][Len(late'[c])] = "rollback"
    BY <1>2, <1>4
  <2> QED
    BY <1>2, <1>3, <1>7, <2>1 DEF LateInv
<1>9. c \in alone => ~intx'[c]
  <2> SUFFICES ASSUME c \in alone PROVE ~intx'[c]
    OBVIOUS
  <2>1. ~intx[c] /\ late[c][1] # "begin"
    BY <1>1, <1>2 DEF Next1
  <2>2. CASE UNCHANGED dbVars
    BY <2>1, <2>2 DEF dbVars
  <2>3. CASE Executes(c, late[c][1])
    <3>1. Query(c) \/ WriteInTransaction(c) \/ WriteOutside(c) \/ CommitTransaction(c) \/ Undo(c)
      BY <2>1, <2>3 DEF Executes
    <3> QED
      BY <2>1, <3>1, <1>1 DEF Query, WriteInTransaction, WriteOutside, CommitTransaction,
                              Undo, EndTransaction, TypeOK
  <2> QED
    BY <1>3, <2>2, <2>3
<1>10. c \notin alone => KeptInv(c)'
  <2> SUFFICES ASSUME c \notin alone PROVE KeptInv(c)'
    OBVIOUS
  <2>1. Progress(c) /\ KeptInv(c) /\ pc[c] # "returned"
    BY <1>1, <1>2 DEF Left
  <2>2. CASE kept' = kept
    BY <1>3, <2>1, <2>2 DEF KeptInv
  <2>3. CASE kept' # kept
    <3>1. Executes(c, late[c][1])
      BY <1>3, <2>3 DEF dbVars
    <3>2. \/ WriteOutside(c) /\ late[c][1] = "write"
          \/ CommitTransaction(c) /\ late[c][1] = "commit"
      BY <2>3, <3>1 DEF Executes, BeginTransaction, Query, WriteInTransaction, Undo
    <3>3. CommitTransaction(c) /\ draft[c].n = Depth /\ kept[c] = 0 /\ c \in unsure
      BY <1>2, <2>1, <3>2 DEF Progress, Next1, WriteOutside
    <3>4. kept'[c] = Depth
      BY <1>1, <3>3 DEF CommitTransaction, Publish, TypeOK
    <3> QED
      BY <1>3, <2>1, <3>3, <3>4 DEF KeptInv
  <2> QED
    BY <2>2, <2>3
<1>11. Progress(c)'
  BY <1>2, <1>3, <1>5 DEF Progress, Inside, Left
<1> QED
  BY <1>2, <1>3, <1>5, <1>6, <1>8, <1>9, <1>10, <1>11 DEF ClientInv, Left

LEMMA StepOwn ==
    ASSUME TransactionInv, NEW c \in Conn, Step(c)
    PROVE  ClientInv(c)'
<1>1. CASE CommitWaits(c)
  <2>1. /\ intx[c] /\ intx' = intx /\ late' = late /\ pc' = pc /\ level' = level
        /\ draft' = draft /\ kept' = kept /\ alone' = alone /\ unsure' = unsure
    BY <1>1 DEF CommitWaits
  <2> QED
    BY <2>1 DEF TransactionInv, ClientInv, Closed, LateInv, Next1, Progress, KeptInv
<1> QED
  BY <1>1, MacroOwn, LeavingOwn, LateOwn DEF Step

\* The inductive invariant: types, and for each client what its place says of
\* its transaction, of what SQLite has still to execute and of what it has got
\* into the file.
THEOREM TransactionInvariant == Spec => []TransactionInv
<1>1. TransactionInv /\ [Next]_vars => TransactionInv'
  <2> SUFFICES ASSUME TransactionInv, [Next]_vars PROVE TransactionInv'
    OBVIOUS
  <2>1. CASE UNCHANGED vars
    BY <2>1 DEF TransactionInv, TypeOK, ClientInv, Closed, LateInv, Next1, Progress, KeptInv,
                vars, dbVars
  <2>2. CASE Next
    <3>1. PICK c \in Conn : Step(c)
      BY <2>2 DEF Next
    <3>2. TypeOK'
      BY <3>1, StepType
    <3>3. \A d \in Conn : ClientInv(d)'
      BY <3>1, StepOwn, StepOthers
    <3> QED
      BY <3>2, <3>3 DEF TransactionInv
  <2> QED
    BY <2>1, <2>2
<1> QED
  BY <1>1, InitInv, PTL DEF Spec

\* All variables keep their types.
THEOREM TransactionTypes == Spec => []TypeOK
<1>1. TransactionInv => TypeOK
  BY DEF TransactionInv
<1> QED
  BY <1>1, TransactionInvariant, PTL

\* All or nothing: unless a client has repeated an inner level by itself, its
\* body is in the file with all its levels or not at all; all of it when the
\* macro has returned, nothing before that and after an error, but for a
\* client whose COMMIT was sent and gave it no answer.
THEOREM AllOrNothing == Spec => []SingleUnlessInnerRetry
<1>1. TransactionInv => SingleUnlessInnerRetry
  BY DEF TransactionInv, ClientInv, KeptInv, SingleUnlessInnerRetry
<1> QED
  BY <1>1, TransactionInvariant, PTL

\* A transaction that returns is complete, repeated or not: those that have
\* repeated an inner level by itself do not return.
THEOREM CompleteOnReturn == Spec => []ReturnedIsComplete
<1>1. TransactionInv => ReturnedIsComplete
  BY DEF TransactionInv, ClientInv, KeptInv, ReturnedIsComplete
<1> QED
  BY <1>1, TransactionInvariant, PTL

\* However the macro is left, no transaction and no lock stays behind, as
\* soon as SQLite has got through what it was sent.
THEOREM AllClosed == Spec => []NothingLeftOpen
<1>1. TransactionInv => NothingLeftOpen
  BY DEF TransactionInv, ClientInv, Closed, LateInv, NothingLeftOpen
<1> QED
  BY <1>1, TransactionInvariant, PTL

-----------------------------------------------------------------------------
(***************************************************************************)
(* The increments of all clients: MapThenSumSet is a recursive function on *)
(* the sets of clients.  What is proved of it goes by their cardinality.   *)
(***************************************************************************)

Total(k) == MapThenSumSet(LAMBDA c : k[c], Conn)

\* The value of a sum on s, from that on smaller sets
Added(k, g, s) ==
    IF s = {} THEN 0
    ELSE LET c == CHOOSE c \in s : TRUE IN k[c] + g[s \ {c}]

LEMMA Smaller ==
    ASSUME NEW s \in SUBSET Conn, s # {}
    PROVE  LET c == CHOOSE c \in s : TRUE
           IN  /\ c \in s /\ s \ {c} \in SUBSET Conn
               /\ Cardinality(s) \in Nat /\ Cardinality(s \ {c}) = Cardinality(s) - 1
<1>1. IsFiniteSet(s)
  BY TransactionAssumption, FS_Subset
<1>2. PICK d \in s : TRUE
  OBVIOUS
<1> DEFINE c == CHOOSE c \in s : TRUE
<1>3. c \in s
  BY <1>2
<1> HIDE DEF c
<1>4. Cardinality(s) \in Nat /\ Cardinality(s \ {c}) = Cardinality(s) - 1
  BY <1>1, <1>3, FS_CardinalityType, FS_RemoveElement
<1> QED
  BY <1>3, <1>4 DEF c

LEMMA Nobody ==
    ASSUME NEW s \in SUBSET Conn
    PROVE  Cardinality(s) \in Nat /\ (Cardinality(s) = 0 <=> s = {})
<1>1. IsFiniteSet(s)
  BY TransactionAssumption, FS_Subset
<1> QED
  BY <1>1, FS_CardinalityType, FS_EmptySet

LEMMA SumExists ==
    ASSUME NEW k
    PROVE  \E g : g = [s \in SUBSET Conn |-> Added(k, g, s)]
<1> DEFINE T == {m \in Nat : \E g : \A s \in SUBSET Conn :
                                Cardinality(s) <= m => g[s] = Added(k, g, s)}
<1>1. 0 \in T
  <2> DEFINE g == [s \in SUBSET Conn |-> 0]
  <2>1. \A s \in SUBSET Conn : Cardinality(s) <= 0 => g[s] = Added(k, g, s)
    BY Nobody DEF Added
  <2> HIDE DEF g
  <2> QED
    BY <2>1
<1>2. ASSUME NEW m \in Nat, m \in T PROVE m + 1 \in T
  <2>1. PICK g : \A s \in SUBSET Conn : Cardinality(s) <= m => g[s] = Added(k, g, s)
    BY <1>2
  <2> DEFINE h == [s \in SUBSET Conn |-> IF Cardinality(s) <= m THEN g[s] ELSE Added(k, g, s)]
  <2>2. ASSUME NEW s \in SUBSET Conn, Cardinality(s) <= m + 1 PROVE h[s] = Added(k, h, s)
    <3>1. h[s] = Added(k, g, s)
      BY <2>1
    <3>2. CASE s = {}
      BY <3>1, <3>2 DEF Added
    <3>3. CASE s # {}
      <4> DEFINE c == CHOOSE c \in s : TRUE
      <4>1. /\ c \in s /\ s \ {c} \in SUBSET Conn
            /\ Cardinality(s) \in Nat /\ Cardinality(s \ {c}) = Cardinality(s) - 1
        BY <3>3, Smaller
      <4>2. Cardinality(s \ {c}) <= m
        BY <2>2, <4>1
      <4>3. h[s \ {c}] = g[s \ {c}]
        BY <4>1, <4>2
      <4>4. Added(k, g, s) = k[c] + g[s \ {c}] /\ Added(k, h, s) = k[c] + h[s \ {c}]
        BY <3>3 DEF Added
      <4> QED
        BY <3>1, <4>3, <4>4
    <3> QED
      BY <3>2, <3>3
  <2> HIDE DEF h
  <2>3. \E f : \A s \in SUBSET Conn : Cardinality(s) <= m + 1 => f[s] = Added(k, f, s)
    BY <2>2
  <2>4. m + 1 \in Nat
    OBVIOUS
  <2> QED
    BY <2>3, <2>4, Zenon DEF T
<1> HIDE DEF T
<1>3. Nat \subseteq T
  BY <1>1, <1>2, Induct
<1>4. Cardinality(Conn) \in Nat /\ \A s \in SUBSET Conn : Cardinality(s) <= Cardinality(Conn)
  BY TransactionAssumption, FS_Subset, FS_CardinalityType
<1>5. PICK g : \A s \in SUBSET Conn : Cardinality(s) <= Cardinality(Conn) => g[s] = Added(k, g, s)
  BY <1>3, <1>4 DEF T
<1> DEFINE h == [s \in SUBSET Conn |-> g[s]]
<1>6. ASSUME NEW s \in SUBSET Conn PROVE Added(k, g, s) = Added(k, h, s)
  <2>1. \A c : h[s \ {c}] = g[s \ {c}]
    OBVIOUS
  <2> HIDE DEF h
  <2> DEFINE c == CHOOSE c \in s : TRUE
  <2>2. Added(k, g, s) = IF s = {} THEN 0 ELSE k[c] + g[s \ {c}]
    BY DEF Added
  <2>3. Added(k, h, s) = IF s = {} THEN 0 ELSE k[c] + h[s \ {c}]
    BY DEF Added
  <2> HIDE DEF c
  <2> QED
    BY <2>1, <2>2, <2>3
<1>7. \A s \in SUBSET Conn : h[s] = Added(k, h, s)
  BY <1>4, <1>5, <1>6
<1>8. h = [s \in SUBSET Conn |-> h[s]]
  OBVIOUS
<1> HIDE DEF h
<1>9. h = [s \in SUBSET Conn |-> Added(k, h, s)]
  BY <1>7, <1>8
<1> QED
  BY <1>9

LEMMA TotalIs ==
    ASSUME NEW k
    PROVE  \E g : Total(k) = g[Conn] /\ \A s \in SUBSET Conn : g[s] = Added(k, g, s)
<1> DEFINE g == CHOOSE f : f = [s \in SUBSET Conn |-> Added(k, f, s)]
<1>1. g = [s \in SUBSET Conn |-> Added(k, g, s)]
  BY SumExists, Zenon
<1>2. Total(k) = g[Conn]
  BY DEF Total, MapThenSumSet, MapThenFoldSet, Added
<1> HIDE DEF g
<1>3. \A s \in SUBSET Conn : g[s] = Added(k, g, s)
  BY <1>1
<1> QED
  BY <1>2, <1>3

\* Nobody has an increment in the file at first, and those one client gets
\* into it are added to the sum.
LEMMA TotalOfNone ==
    Total([c \in Conn |-> 0]) = 0
<1> DEFINE k == [c \in Conn |-> 0]
<1>1. PICK g : Total(k) = g[Conn] /\ \A s \in SUBSET Conn : g[s] = Added(k, g, s)
  BY TotalIs
<1> DEFINE T == {m \in Nat : \A s \in SUBSET Conn : Cardinality(s) = m => g[s] = 0}
<1>2. 0 \in T
  BY <1>1, Nobody DEF Added
<1>3. ASSUME NEW m \in Nat, m \in T PROVE m + 1 \in T
  <2> SUFFICES ASSUME NEW s \in SUBSET Conn, Cardinality(s) = m + 1 PROVE g[s] = 0
    OBVIOUS
  <2>1. s # {}
    BY Nobody
  <2> DEFINE c == CHOOSE c \in s : TRUE
  <2>2. /\ c \in s /\ s \ {c} \in SUBSET Conn
        /\ Cardinality(s) \in Nat /\ Cardinality(s \ {c}) = Cardinality(s) - 1
    BY <2>1, Smaller
  <2>3. g[s] = k[c] + g[s \ {c}]
    BY <1>1, <2>1 DEF Added
  <2>4. g[s \ {c}] = 0
    BY <1>3, <2>2
  <2> QED
    BY <2>2, <2>3, <2>4
<1> HIDE DEF T
<1>4. Nat \subseteq T
  BY <1>2, <1>3, Induct
<1>5. Cardinality(Conn) \in Nat /\ Conn \in SUBSET Conn
  BY Nobody
<1> QED
  BY <1>1, <1>4, <1>5 DEF T

LEMMA TotalGrows ==
    ASSUME NEW k \in [Conn -> Nat], NEW c \in Conn, NEW n \in Nat
    PROVE  Total([k EXCEPT ![c] = @ + n]) = Total(k) + n /\ Total(k) \in Nat
<1> DEFINE l == [k EXCEPT ![c] = @ + n]
           More(s) == IF c \in s THEN n ELSE 0
<1>1. l[c] = k[c] + n /\ \A d \in Conn : d # c => l[d] = k[d]
  OBVIOUS
<1> HIDE DEF l
<1>2. PICK g : Total(k) = g[Conn] /\ \A s \in SUBSET Conn : g[s] = Added(k, g, s)
  BY TotalIs
<1>3. PICK h : Total(l) = h[Conn] /\ \A s \in SUBSET Conn : h[s] = Added(l, h, s)
  BY TotalIs
<1> DEFINE T == {m \in Nat : \A s \in SUBSET Conn :
                    Cardinality(s) = m => g[s] \in Nat /\ h[s] = g[s] + More(s)}
<1>4. 0 \in T
  BY <1>2, <1>3, Nobody DEF Added
<1>5. ASSUME NEW m \in Nat, m \in T PROVE m + 1 \in T
  <2> SUFFICES ASSUME NEW s \in SUBSET Conn, Cardinality(s) = m + 1
               PROVE  g[s] \in Nat /\ h[s] = g[s] + More(s)
    OBVIOUS
  <2>1. s # {}
    BY Nobody
  <2> DEFINE d == CHOOSE d \in s : TRUE
  <2>2. /\ d \in s /\ s \ {d} \in SUBSET Conn
        /\ Cardinality(s) \in Nat /\ Cardinality(s \ {d}) = Cardinality(s) - 1
    BY <2>1, Smaller
  <2>3. g[s] = k[d] + g[s \ {d}] /\ h[s] = l[d] + h[s \ {d}]
    BY <1>2, <1>3, <2>1 DEF Added
  <2>4. g[s \ {d}] \in Nat /\ h[s \ {d}] = g[s \ {d}] + More(s \ {d})
    BY <1>5, <2>2
  <2>5. k[d] \in Nat /\ d \in Conn
    BY <2>2
  <2> HIDE DEF d
  <2>6. l[d] + More(s \ {d}) = k[d] + More(s)
    BY <1>1, <2>2, <2>5
  <2>7. More(s \ {d}) \in Nat /\ More(s) \in Nat /\ l[d] \in Nat
    BY <1>1, <2>2, <2>5
  <2> HIDE DEF More
  <2> QED
    BY <2>3, <2>4, <2>5, <2>6, <2>7
<1> HIDE DEF T
<1>6. Nat \subseteq T
  BY <1>4, <1>5, Induct
<1>7. Cardinality(Conn) \in Nat /\ Conn \in SUBSET Conn
  BY Nobody
<1>8. g[Conn] \in Nat /\ h[Conn] = g[Conn] + n
  BY <1>6, <1>7 DEF T
<1> QED
  BY <1>2, <1>3, <1>8 DEF l

-----------------------------------------------------------------------------
(***************************************************************************)
(* The counter, as long as nobody has repeated an inner level by itself: a *)
(* client that has read it keeps a lock until it has written, and so keeps *)
(* the commit of any other client out.                                     *)
(***************************************************************************)

Writing == {"reserved", "pending"}

\* A draft continues the counter of the file, and what was read, to be
\* written now or late, is current.
Current(c) ==
    /\ draft[c].n > 0 => lock[c] \in Writing /\ draft[c].x = x + draft[c].n
    /\ pc[c] = "write" \/ Next1(c, "write") => lock[c] # "none" /\ seen[c] = Value(c)

CountInv == alone = {} => x = Total(kept) /\ \A c \in Conn : Current(c)

LEMMA InitCount == Init => CountInv
<1> SUFFICES ASSUME Init PROVE CountInv
  OBVIOUS
<1>1. x = Total(kept)
  BY TotalOfNone DEF Init
<1>2. \A c \in Conn : Current(c)
  BY DEF Init, Current, Next1, NoDraft
<1> QED
  BY <1>1, <1>2 DEF CountInv

\* Nobody is taken off the list of those alone.
LEMMA AloneStays ==
    ASSUME NEW c \in Conn, Step(c)
    PROVE  alone' = {} => alone = {}
BY DEF Step, Begin, Select, Read, Write, Commit, CommitWaits, Locked, Fail, Retry,
       RetryFails, Unwind, Abandon, Leave, Late, Die, DieAfterCommit

\* A client that commits increments is the only one with a lock.
LEMMA CommitAlone ==
    ASSUME TransactionInv, NEW c \in Conn, NEW d \in Conn, d # c,
           CommitTransaction(c), draft[c].n > 0, Current(c)
    PROVE  lock[d] = "none"
<1>1. lock[c] \in Writing
  BY DEF Current
<1>2. ~Others(c, {"shared", "reserved", "pending"})
  BY <1>1 DEF CommitTransaction, MayCommit, Writing
<1>3. lock[d] \notin {"shared", "reserved", "pending"}
  BY <1>2 DEF Others
<1> QED
  BY <1>3 DEF TransactionInv, TypeOK

\* No statement is a write outside a transaction, waited for or left.
LEMMA AllInside ==
    ASSUME TransactionInv, alone = {}, NEW c \in Conn
    PROVE  /\ Write(c) => WriteInTransaction(c)
           /\ Late(c) /\ Executes(c, late[c][1]) => ~WriteOutside(c) \/ late[c][1] # "write"
<1>1. Progress(c)
  BY DEF TransactionInv, ClientInv
<1>2. ASSUME Write(c) PROVE WriteInTransaction(c)
  BY <1>1, <1>2, ExecutesIs DEF Write, WriteOutside, Progress, Inside
<1>3. ASSUME Late(c), late[c][1] = "write" PROVE ~WriteOutside(c)
  BY <1>1, <1>3 DEF Late, WriteOutside, Progress, Next1
<1> QED
  BY <1>2, <1>3

\* Only a commit changes the file, and counts what it puts there.
LEMMA FileStep ==
    ASSUME TransactionInv, alone = {}, NEW c \in Conn, Step(c)
    PROVE  \/ x' = x /\ kept' = kept
           \/ /\ CommitTransaction(c) /\ draft[c].n > 0
              /\ x' = draft[c].x /\ kept' = [kept EXCEPT ![c] = @ + draft[c].n]
<1> DEFINE Same == x' = x /\ kept' = kept
           Published == /\ CommitTransaction(c) /\ draft[c].n > 0
                        /\ x' = draft[c].x /\ kept' = [kept EXCEPT ![c] = @ + draft[c].n]
<1>1. ASSUME NEW s, Executes(c, s), ~(s = "write" /\ WriteOutside(c))
      PROVE  Same \/ Published
  <2>1. CASE CommitTransaction(c)
    BY <2>1 DEF CommitTransaction, Publish
  <2>2. CASE BeginTransaction(c) \/ Query(c) \/ WriteInTransaction(c) \/ Undo(c)
    BY <2>2 DEF BeginTransaction, Query, WriteInTransaction, Undo
  <2> QED
    BY <1>1, <2>1, <2>2 DEF Executes
<1>2. CASE Begin(c) \/ Select(c) \/ Read(c) \/ Commit(c) \/ Unwind(c) \/ DieAfterCommit(c)
  BY <1>1, <1>2 DEF Begin, Select, Read, Commit, Unwind, DieAfterCommit
<1>3. CASE Write(c)
  BY <1>3, AllInside DEF WriteInTransaction
<1>4. CASE CommitWaits(c) \/ Locked(c) \/ Fail(c) \/ Retry(c) \/ RetryFails(c)
           \/ Abandon(c) \/ Leave(c) \/ Die(c)
  BY <1>4 DEF CommitWaits, Locked, Fail, Retry, RetryFails, Abandon, Leave, Die, dbVars
<1>5. CASE Late(c)
  <2>1. Head(late[c]) = late[c][1]
    BY <1>5, LateRest DEF TransactionInv, ClientInv
  <2>2. Executes(c, late[c][1]) \/ UNCHANGED dbVars
    BY <1>5, <2>1 DEF Late
  <2> QED
    BY <1>1, <1>5, <2>2, AllInside DEF dbVars
<1> QED
  BY <1>2, <1>3, <1>4, <1>5 DEF Step

\* What is said of the counter and of the other clients stays.
LEMMA CurrentOthers ==
    ASSUME TransactionInv, alone = {}, NEW c \in Conn, NEW d \in Conn, d # c,
           Current(c), Current(d), Step(c)
    PROVE  Current(d)'
<1>1. /\ pc'[d] = pc[d] /\ lock'[d] = lock[d] /\ draft'[d] = draft[d] /\ seen'[d] = seen[d]
      /\ late'[d] = late[d]
  BY OthersFrame
<1>2. CASE x' = x
  BY <1>1, <1>2 DEF Current, Value, Next1
<1>3. CASE x' # x
  <2>1. lock[d] = "none"
    BY <1>3, FileStep, CommitAlone
  <2>2. ~(draft[d].n > 0) /\ pc[d] # "write" /\ ~Next1(d, "write")
    BY <2>1 DEF Current, Writing
  <2> QED
    BY <1>1, <2>2 DEF Current, Next1
<1> QED
  BY <1>2, <1>3

\* The client that makes the step writes what it has read, incremented.
LEMMA WritesCurrent ==
    ASSUME TransactionInv, NEW c \in Conn, WriteInTransaction(c), seen[c] = Value(c), Current(c)
    PROVE  /\ draft'[c].n > 0 /\ lock'[c] \in Writing
           /\ draft'[c].x = x' + draft'[c].n
<1>1. /\ draft'[c].n = draft[c].n + 1 /\ draft'[c].x = seen[c] + 1 /\ x' = x
      /\ lock'[c] \in Writing
  BY DEF WriteInTransaction, TransactionInv, TypeOK, Writing
<1>2. draft[c].n \in Nat /\ x \in Nat
  BY DEF TransactionInv, TypeOK
<1>3. seen[c] = x + draft[c].n
  BY <1>2 DEF Current, Value
<1> QED
  BY ONLY <1>1, <1>2, <1>3

\* What any other statement leaves of the draft and its lock
LEMMA DraftStays ==
    ASSUME TransactionInv, NEW c \in Conn, NEW s, Executes(c, s), s # "write", Current(c)
    PROVE  draft'[c].n > 0 =>
              lock'[c] \in Writing /\ draft'[c].x = x' + draft'[c].n
<1> USE DEF TransactionInv, TypeOK, Current, Writing, NoDraft
<1>1. CASE BeginTransaction(c) \/ Query(c)
  BY <1>1 DEF BeginTransaction, Query
<1>2. CASE CommitTransaction(c) \/ Undo(c)
  BY <1>2 DEF CommitTransaction, Undo, EndTransaction
<1> QED
  BY <1>1, <1>2 DEF Executes

LEMMA CurrentOwn ==
    ASSUME TransactionInv, alone = {}, NEW c \in Conn, Current(c), Step(c)
    PROVE  Current(c)'
<1>0. Progress(c) /\ Closed(c) /\ LateInv(c) /\ TypeOK
  BY DEF TransactionInv, ClientInv
<1>1. pc[c] \notin Left => late[c] = <<>>
  BY NothingLate
<1> USE DEF Goto, ToLowest, BodyOf
<1>2. CASE Begin(c) \/ Select(c) \/ Commit(c) \/ Unwind(c) \/ DieAfterCommit(c)
  <2>1. /\ late'[c] = <<>> /\ pc'[c] # "write"
        /\ \E s : s # "write" /\ Executes(c, s)
    BY <1>0, <1>1, <1>2 DEF Begin, Select, Commit, Unwind, DieAfterCommit, Left, TypeOK
  <2> QED
    BY <2>1, DraftStays DEF Current, Next1
<1>3. CASE Read(c)
  <2>1. intx[c] /\ Query(c) /\ Executes(c, "read") /\ late'[c] = <<>>
    BY <1>0, <1>1, <1>3, ExecutesIs DEF Read, Progress, Inside, Left
  <2>2. lock'[c] # "none" /\ draft' = draft /\ x' = x
    BY <1>0, <2>1 DEF Query, TypeOK
  <2>3. seen'[c] = Value(c)
    BY <1>0, <1>3 DEF Read, TypeOK
  <2> QED
    BY <2>1, <2>2, <2>3, DraftStays DEF Current, Value
<1>4. CASE Write(c)
  <2>1. WriteInTransaction(c) /\ pc[c] = "write" /\ late'[c] = <<>> /\ pc'[c] # "write"
    BY <1>0, <1>1, <1>4, AllInside DEF Write, AfterWrite, Left, TypeOK
  <2>2. seen[c] = Value(c)
    BY <2>1 DEF Current
  <2> QED
    BY <2>1, <2>2, WritesCurrent DEF Current, Next1
<1>5. CASE CommitWaits(c)
  BY <1>0, <1>5 DEF CommitWaits, Current, Value, Next1, Writing, TypeOK
<1>6. CASE Locked(c) \/ Fail(c) \/ RetryFails(c)
  <2>1. pc'[c] # "write" /\ late' = late /\ UNCHANGED dbVars /\ late[c] = <<>>
    BY <1>0, <1>1, <1>6 DEF Locked, Fail, RetryFails, Left, TypeOK
  <2> QED
    BY <2>1 DEF Current, Next1, dbVars
<1>7. CASE Retry(c) \/ Die(c)
  <2>1. pc'[c] # "write" /\ late'[c] = <<>> /\ draft'[c].n = 0
    BY <1>0, <1>1, <1>7 DEF Retry, Die, EndTransaction, Again, Left, NoDraft, TypeOK
  <2> QED
    BY <2>1 DEF Current, Next1
<1>8. CASE Abandon(c)
  <2>1. /\ pc'[c] = "unwind" /\ UNCHANGED dbVars /\ seen' = seen
        /\ late'[c] = <<Statement(pc[c])>>
    BY <1>0, <1>8 DEF Abandon, TypeOK
  <2>2. Next1(c, "write")' => pc[c] = "write"
    BY <2>1 DEF Next1, Statement
  <2> QED
    BY <2>1, <2>2 DEF Current, Value, dbVars
<1>9. CASE Leave(c)
  <2>1. /\ pc'[c] = "signalled" /\ UNCHANGED dbVars /\ seen' = seen
        /\ late'[c] = Append(late[c], "rollback")
    BY <1>0, <1>9 DEF Leave, TypeOK
  <2>2. late[c] \in Seq(Statements) /\ "rollback" \in Statements
    BY <1>0 DEF TypeOK, Statements
  <2>3. Next1(c, "write")' => Next1(c, "write")
    <3>1. CASE late[c] = <<>>
      <4>1. late'[c][1] = "rollback"
        BY <2>1, <2>2, <3>1, AppendProperties, EmptySeq
      <4> QED
        BY <4>1 DEF Next1
    <3>2. CASE late[c] # <<>>
      <4>1. late'[c][1] = late[c][1]
        BY <2>1, <2>2, <3>2, AppendProperties, EmptySeq, LenProperties
      <4> QED
        BY <3>2, <4>1 DEF Next1
    <3> QED
      BY <3>1, <3>2
  <2> QED
    BY <2>1, <2>3 DEF Current, Value, dbVars
<1>10. CASE Late(c)
  <2>1. /\ Head(late[c]) = late[c][1] /\ late[c] # <<>> /\ pc[c] \in Left /\ pc' = pc
        /\ late'[c] \in Seq(Statements)
        /\ \A i \in 1..Len(late'[c]) : late'[c][i] = "rollback"
    BY <1>0, <1>10, LateRest DEF Late
  <2>2. ~Next1(c, "write")' /\ pc'[c] # "write"
    <3>1. late'[c] # <<>> => late'[c][1] = "rollback"
      BY <2>1, EmptySeq, LenProperties
    <3> QED
      BY <2>1, <3>1 DEF Next1, Left
  <2>3. CASE UNCHANGED dbVars
    BY <2>2, <2>3 DEF Current, dbVars
  <2>4. CASE Executes(c, late[c][1]) /\ late[c][1] # "write"
    BY <2>2, <2>4, DraftStays DEF Current
  <2>5. CASE Executes(c, late[c][1]) /\ late[c][1] = "write"
    <3>1. WriteInTransaction(c) /\ seen[c] = Value(c)
      BY <1>10, <2>1, <2>5, AllInside, ExecutesIs DEF Current, Next1
    <3> QED
      BY <2>2, <3>1, WritesCurrent DEF Current
  <2> QED
    BY <1>10, <2>1, <2>3, <2>4, <2>5 DEF Late
<1> QED
  BY <1>2, <1>3, <1>4, <1>5, <1>6, <1>7, <1>8, <1>9, <1>10 DEF Step

LEMMA CountStep ==
    ASSUME TransactionInv, CountInv, NEW c \in Conn, Step(c)
    PROVE  CountInv'
<1> SUFFICES ASSUME alone' = {} PROVE x' = Total(kept') /\ \A d \in Conn : Current(d)'
  BY DEF CountInv
<1>1. alone = {}
  BY AloneStays
<1>2. x = Total(kept) /\ \A d \in Conn : Current(d)
  BY <1>1 DEF CountInv
<1>3. \A d \in Conn : Current(d)'
  BY <1>1, <1>2, CurrentOwn, CurrentOthers
<1>4. x' = Total(kept')
  <2>1. CASE x' = x /\ kept' = kept
    BY <1>2, <2>1
  <2>2. CASE /\ draft[c].n > 0 /\ x' = draft[c].x
             /\ kept' = [kept EXCEPT ![c] = @ + draft[c].n]
    <3>1. kept \in [Conn -> Nat] /\ draft[c].n \in Nat
      BY DEF TransactionInv, TypeOK
    <3>2. Total(kept') = Total(kept) + draft[c].n
      BY <2>2, <3>1, TotalGrows
    <3>3. x' = x + draft[c].n
      BY <1>2, <2>2 DEF Current
    <3> QED
      BY <1>2, <3>2, <3>3
  <2> QED
    BY <1>1, <2>1, <2>2, FileStep
<1> QED
  BY <1>3, <1>4

\* No increment is lost: as long as no client has repeated an inner level by
\* itself, the counter in the file is the sum of the increments the clients
\* have got into it, however their transactions, retries and the statements
\* executed late interleave.
THEOREM NothingLost == Spec => []NoLostUpdate
<1>1. TransactionInv /\ CountInv /\ [Next]_vars => CountInv'
  <2> SUFFICES ASSUME TransactionInv, CountInv, [Next]_vars PROVE CountInv'
    OBVIOUS
  <2>1. CASE UNCHANGED vars
    BY <2>1 DEF CountInv, Current, Value, Next1, vars, dbVars
  <2>2. CASE Next
    BY <2>2, CountStep DEF Next
  <2> QED
    BY <2>1, <2>2
<1>2. CountInv => NoLostUpdate
  BY DEF CountInv, NoLostUpdate, Total
<1> QED
  BY <1>1, <1>2, InitCount, TransactionInvariant, PTL DEF Spec

=============================================================================
