---------------------------- MODULE Emacsql_proofs ----------------------------
(***************************************************************************)
(* Proofs about Emacsql, for any number of queries and of calls one in the *)
(* wait of another.  Nothing in the protocol ties an answer to its query,  *)
(* so the invariant follows the output: what Emacs has in its buffer, what *)
(* is in the pipe and what is in the stdio buffer are, one behind the      *)
(* other, the answers to queries in their order, with prompts between      *)
(* them.                                                                   *)
(***************************************************************************)
EXTENDS Emacsql, SeqLemmas

\* All output Emacs has not thrown away, in its order
Output == (buffer \o pipe) \o stdio

\* emacsql.c works on a query; it will print a prompt before it reads on
Busy == loop \in {"prepare", "finalize"}
Live == loop \in {"prompt", "prepare", "finalize"}

MachineInv ==
    /\ process = "run" <=> loop # "exit"
    /\ process # "run" => stdin = <<>> /\ stdio = <<>>
    /\ process = "reaped" => pipe = <<>> /\ buffer = <<>>
    /\ Busy => current > 0
    /\ loop = "read" => stdio = <<>>
    /\ loop = "read" /\ pipe # <<>> => pipe[Len(pipe)] = Prompt
    /\ \A i \in 1..Len(stdio) : stdio[i] # Prompt

\* Calls end from the innermost outwards; who was called in whose wait.
CallsInv ==
    /\ ~connected => issued = 0
    /\ \A i \in 1..Len(waiting) : waiting[i] <= issued /\ result[waiting[i]].kind = "waiting"
    /\ \A i \in 2..Len(waiting) : waiting[i] \in overlapped
    /\ \A i, j \in 1..Len(waiting) : waiting[i] = waiting[j] => i = j
    /\ waiting # <<>> /\ Head(waiting) \notin overlapped => Head(waiting) = issued
    /\ \A n \in Query : n > issued =>
          n \notin overlapped /\ n \notin unsettled /\ result[n].kind = "unsent"

\* Queries are read in the order they were sent in.
StdinInv ==
    /\ current <= issued
    /\ \A i \in 1..Len(stdin) : current < stdin[i] /\ stdin[i] <= issued
    /\ \A i, j \in 1..Len(stdin) : i < j => stdin[i] < stdin[j]

\* Behind a prompt there are only answers to later queries.
OutputInv ==
    /\ \A i, p, j \in 1..Len(Output) :
          i < p /\ p < j /\ Output[p] = Prompt /\ Output[j].of # 0 => Output[i].of < Output[j].of
    /\ \A i \in 1..Len(Output) : Output[i].of <= current
    /\ Busy => \A i, p \in 1..Len(Output) : i < p /\ Output[p] = Prompt => Output[i].of < current

\* All answers still to come, those after place f of the output among them,
\* are to queries later than k.
Passed(k, f) ==
    /\ \A j \in 1..Len(Output) : j > f /\ Output[j].of # 0 => Output[j].of > k
    /\ Busy => current > k
    /\ k <= current

\* The call whose answer the next prompt ends, if no other got in between
Undisturbed == waiting # <<>> /\ Head(waiting) \notin overlapped

PassedInv ==
    \A m \in Query \ overlapped :
        Answered(m) =>
           /\ result[m].of <= m
           /\ Passed(result[m].of, Len(buffer))
           /\ Undisturbed => Passed(result[m].of, 0)

\* No call has been abandoned or overlapped.
Clean == \A m \in 1..issued : result[m].kind # "abandoned" /\ m \notin overlapped

NoPrompt(f) == \A j \in 1..Len(Output) : j > f => Output[j] # Prompt

\* In a clean connection there is at most one prompt: in the output, or in
\* what emacsql.c is doing or about to do.
StepsInv ==
    Clean =>
      /\ connected /\ waiting = <<>> => stdin = <<>> /\ ~Live /\ NoPrompt(Len(buffer))
      /\ \A i, j \in 1..Len(Output) : Output[i] = Prompt /\ Output[j] = Prompt => i = j
      /\ Live => stdin = <<>> /\ NoPrompt(0)
      /\ stdin # <<>> => Len(stdin) = 1 /\ ~Live /\ NoPrompt(0)

\* The output starts with the answer to n.
Starts(n) == Len(Output) > 0 /\ Output[1].kind \in {"rows", "error"} /\ Output[1].of = n

\* Only n is asked and answered.
Own(n) ==
    /\ \A i \in 1..Len(Output) : Output[i] = Prompt => Starts(n)
    /\ Live => current = n /\ stdin = <<>>
    /\ loop = "prepare" => Len(Output) = 0
    /\ loop \in {"finalize", "prompt"} => Starts(n)
    /\ stdin # <<>> => stdin = <<n>> /\ Len(Output) = 0

OwnInv == Undisturbed /\ Head(waiting) \notin unsettled => Own(Head(waiting))

EmacsqlInv ==
    /\ TypeOK /\ MachineInv /\ CallsInv /\ StdinInv /\ OutputInv
    /\ PassedInv /\ AnswersInOrder
    /\ StepsInv /\ OutOfStepOnlyAfterAbandon
    /\ OwnInv /\ SettledReturnsOwnResult

-----------------------------------------------------------------------------
(***************************************************************************)
(* Types.                                                                  *)
(***************************************************************************)

\* The numbers the protocol works with
LEMMA QueryType ==
    /\ MaxQuery \in Nat /\ MaxQuery >= 1
    /\ \A n \in Query : n \in Nat /\ n > 0 /\ n <= MaxQuery /\ n \in 0..MaxQuery
    /\ \A n \in Nat : n > 0 /\ n <= MaxQuery => n \in Query
BY EmacsqlAssumption DEF Query

\* What a piece of output can be
LEMMA PieceType ==
    /\ Prompt \in Piece /\ Prompt.of = 0 /\ Prompt.kind = "prompt"
    /\ [kind |-> "complaint", of |-> 0] \in Piece /\ [kind |-> "complaint", of |-> 0] # Prompt
    /\ \A k \in {"rows", "success", "error"}, n \in Query :
          [kind |-> k, of |-> n] \in Piece /\ [kind |-> k, of |-> n] # Prompt
    /\ \A e \in Piece :
          /\ e.of \in Nat /\ e.of \in 0..MaxQuery
          /\ e.kind \in {"rows", "success", "error"} => e.of \in Query
          /\ e.kind \notin {"rows", "success", "error"} => e.of = 0
          /\ e = Prompt <=> e.kind = "prompt"
<1>1. 0 \in Nat /\ 0 \in 0..MaxQuery /\ \A n \in Query : n \in Nat /\ n \in 0..MaxQuery
  BY QueryType
<1>2. Prompt \in Piece /\ Prompt.of = 0 /\ Prompt.kind = "prompt"
  BY DEF Prompt, Piece
<1>3. /\ [kind |-> "complaint", of |-> 0] \in Piece
      /\ [kind |-> "complaint", of |-> 0] # Prompt
  BY DEF Prompt, Piece
<1>4. ASSUME NEW k \in {"rows", "success", "error"}, NEW n \in Query
      PROVE  [kind |-> k, of |-> n] \in Piece /\ [kind |-> k, of |-> n] # Prompt
  BY DEF Prompt, Piece
<1>5. ASSUME NEW e \in Piece
      PROVE  /\ e.of \in Nat /\ e.of \in 0..MaxQuery
             /\ e.kind \in {"rows", "success", "error"} => e.of \in Query
             /\ e.kind \notin {"rows", "success", "error"} => e.of = 0
             /\ e = Prompt <=> e.kind = "prompt"
  <2>1. CASE e \in [kind : {"rows", "success", "error"}, of : Query]
    BY <1>1, <2>1 DEF Prompt
  <2>2. CASE e \in [kind : {"prompt", "complaint"}, of : {0}]
    BY <1>1, <2>2 DEF Prompt
  <2> QED
    BY <2>1, <2>2 DEF Piece
<1> QED
  BY <1>2, <1>3, <1>4, <1>5

\* The parts of a joined sequence
LEMMA Concat3 ==
    ASSUME NEW S, NEW a \in Seq(S), NEW b \in Seq(S), NEW c \in Seq(S)
    PROVE  /\ (a \o b) \o c \in Seq(S)
           /\ Len((a \o b) \o c) = Len(a) + Len(b) + Len(c)
           /\ \A i \in 1..Len(a) : ((a \o b) \o c)[i] = a[i]
           /\ \A i \in 1..Len(b) : ((a \o b) \o c)[Len(a) + i] = b[i]
           /\ \A i \in 1..Len(c) : ((a \o b) \o c)[Len(a) + Len(b) + i] = c[i]
<1> DEFINE ab == a \o b
           abc == ab \o c
<1>1. Len(a) \in Nat /\ Len(b) \in Nat /\ Len(c) \in Nat /\ c \in Seq(S)
  BY LenProperties
<1>2. /\ ab \in Seq(S) /\ Len(ab) = Len(a) + Len(b)
      /\ \A i \in 1..(Len(a) + Len(b)) : ab[i] = IF i <= Len(a) THEN a[i] ELSE b[i - Len(a)]
  BY ConcatProperties
<1> HIDE DEF ab
<1>3. /\ abc \in Seq(S) /\ Len(abc) = Len(ab) + Len(c)
      /\ \A i \in 1..(Len(ab) + Len(c)) : abc[i] = IF i <= Len(ab) THEN ab[i] ELSE c[i - Len(ab)]
  <2>1. ab \in Seq(S) /\ c \in Seq(S)
    BY <1>1, <1>2
  <2> QED
    BY ONLY <2>1, ConcatProperties
<1> HIDE DEF abc
<1>4. ASSUME NEW i \in 1..Len(a) PROVE abc[i] = a[i]
  <2>1. /\ i \in 1..(Len(ab) + Len(c)) /\ i <= Len(ab)
        /\ i \in 1..(Len(a) + Len(b)) /\ i <= Len(a)
    BY <1>1, <1>2
  <2>2. abc[i] = ab[i]
    BY <1>3, <2>1
  <2>3. ab[i] = a[i]
    BY <1>2, <2>1
  <2> QED
    BY <2>2, <2>3
<1>5. ASSUME NEW i \in 1..Len(b) PROVE abc[Len(a) + i] = b[i]
  <2>1. /\ Len(a) + i \in 1..(Len(ab) + Len(c)) /\ Len(a) + i <= Len(ab)
        /\ Len(a) + i \in 1..(Len(a) + Len(b)) /\ ~(Len(a) + i <= Len(a))
        /\ (Len(a) + i) - Len(a) = i
    BY <1>1, <1>2
  <2>2. abc[Len(a) + i] = ab[Len(a) + i]
    BY <1>3, <2>1
  <2>3. ab[Len(a) + i] = b[(Len(a) + i) - Len(a)]
    BY <1>2, <2>1
  <2> QED
    BY <2>1, <2>2, <2>3
<1>6. ASSUME NEW i \in 1..Len(c) PROVE abc[Len(a) + Len(b) + i] = c[i]
  <2>1. /\ Len(a) + Len(b) + i \in 1..(Len(ab) + Len(c)) /\ ~(Len(a) + Len(b) + i <= Len(ab))
        /\ (Len(a) + Len(b) + i) - Len(ab) = i
    BY <1>1, <1>2
  <2>2. abc[Len(a) + Len(b) + i] = c[(Len(a) + Len(b) + i) - Len(ab)]
    BY <1>3, <2>1
  <2> QED
    BY <2>1, <2>2
<1> QED
  BY <1>2, <1>3, <1>4, <1>5, <1>6 DEF ab, abc

LEMMA OutputType ==
    ASSUME TypeOK
    PROVE  /\ Output \in Seq(Piece)
           /\ Len(buffer) \in Nat /\ Len(pipe) \in Nat /\ Len(stdio) \in Nat
           /\ Len(Output) = Len(buffer) + Len(pipe) + Len(stdio)
           /\ \A i \in 1..Len(Output) : Output[i] \in Piece
           /\ \A i \in 1..Len(buffer) : Output[i] = buffer[i]
           /\ \A i \in 1..Len(pipe) : Output[Len(buffer) + i] = pipe[i]
           /\ \A i \in 1..Len(stdio) : Output[Len(buffer) + Len(pipe) + i] = stdio[i]
<1>1. buffer \in Seq(Piece) /\ pipe \in Seq(Piece) /\ stdio \in Seq(Piece)
  BY DEF TypeOK
<1>2. Len(buffer) \in Nat /\ Len(pipe) \in Nat /\ Len(stdio) \in Nat
  BY <1>1, LenProperties
<1>3. Output \in Seq(Piece)
  BY <1>1, Concat3 DEF Output
<1>4. \A i \in 1..Len(Output) : Output[i] \in Piece
  BY <1>3, ElementOfSeq
<1> QED
  BY ONLY <1>1, <1>2, <1>3, <1>4, Concat3 DEF Output

-----------------------------------------------------------------------------
(***************************************************************************)
(* What steps do to the output.                                            *)
(***************************************************************************)

\* The first d pieces go, and perhaps some at the end.
Kept(d) ==
    /\ d \in Nat /\ Len(Output') + d <= Len(Output)
    /\ \A i \in 1..Len(Output') : Output'[i] = Output[i + d]

\* One piece more
Grown(p) ==
    /\ Len(Output') = Len(Output) + 1
    /\ \A i \in 1..Len(Output) : Output'[i] = Output[i]
    /\ Output'[Len(Output) + 1] = p

LEMMA SameOutput == ASSUME TypeOK, Output' = Output PROVE Kept(0)
<1>1. Output \in Seq(Piece) /\ Len(Output) \in Nat
  BY OutputType, LenProperties
<1> QED
  BY <1>1 DEF Kept

LEMMA MoreOutput ==
    ASSUME TypeOK, NEW p \in Piece, Output' = Append(Output, p)
    PROVE  Grown(p)
<1>1. Output \in Seq(Piece) /\ Len(Output) \in Nat
  BY OutputType, LenProperties
<1>2. /\ Len(Append(Output, p)) = Len(Output) + 1
      /\ \A i \in 1..Len(Output) : Append(Output, p)[i] = Output[i]
      /\ Append(Output, p)[Len(Output) + 1] = p
  BY ONLY <1>1, p \in Piece, AppendProperties
<1> QED
  BY <1>2 DEF Grown

LEMMA ReceiveOutput == ASSUME TypeOK, Receive PROVE Output' = Output
<1>1. buffer \in Seq(Piece) /\ pipe \in Seq(Piece) /\ stdio \in Seq(Piece)
  BY DEF TypeOK
<1>2. PICK k \in 1..Len(pipe) :
          /\ buffer' = buffer \o SubSeq(pipe, 1, k)
          /\ pipe' = SubSeq(pipe, k + 1, Len(pipe))
  BY DEF Receive
<1>3. stdio' = stdio
  BY DEF Receive, backendVars
<1> DEFINE a == SubSeq(pipe, 1, k)
           b == SubSeq(pipe, k + 1, Len(pipe))
<1>4. a \in Seq(Piece) /\ b \in Seq(Piece)
  <2>1. Len(pipe) \in Nat /\ k \in Nat /\ \A i \in 1..Len(pipe) : pipe[i] \in Piece
    BY <1>1, LenProperties, ElementOfSeq
  <2>2. /\ 1 \in Int /\ k \in Int /\ k + 1 \in Int /\ Len(pipe) \in Int
        /\ \A i \in 1..k : pipe[i] \in Piece
        /\ \A i \in (k + 1)..Len(pipe) : pipe[i] \in Piece
    BY <2>1
  <2> QED
    BY ONLY <2>2, SubSeqProperties
<1>5. a \o b = pipe
  <2>1. /\ 1 \in 1..(Len(pipe) + 1) /\ k \in (1 - 1)..Len(pipe) /\ Len(pipe) \in k..Len(pipe)
    BY <1>1, LenProperties
  <2>2. SubSeq(pipe, 1, k) \o SubSeq(pipe, k + 1, Len(pipe)) = SubSeq(pipe, 1, Len(pipe))
    BY ONLY <1>1, <2>1, ConcatAdjacentSubSeq
  <2> QED
    BY <1>1, <2>2, SubSeqFull
<1> HIDE DEF a, b
<1>6. (buffer \o a) \o b = buffer \o (a \o b)
  <2>1. buffer \in Seq(Piece) /\ a \in Seq(Piece) /\ b \in Seq(Piece)
    BY <1>1, <1>4
  <2> QED
    BY ONLY <2>1, ConcatAssociative
<1> QED
  BY <1>2, <1>3, <1>5, <1>6 DEF Output, a, b

LEMMA PromptOutput == ASSUME TypeOK, NextPrompt PROVE Output' = Append(Output, Prompt)
<1>1. buffer \in Seq(Piece) /\ pipe \in Seq(Piece) /\ stdio \in Seq(Piece) /\ Prompt \in Piece
  BY PieceType DEF TypeOK
<1>2. buffer' = buffer /\ pipe' = pipe \o Append(stdio, Prompt) /\ stdio' = <<>>
  BY DEF NextPrompt, PrintPrompt, emacsVars
<1>3. Append(stdio, Prompt) \in Seq(Piece)
  BY <1>1, AppendProperties
<1>4. pipe \o Append(stdio, Prompt) \in Seq(Piece)
  BY <1>1, <1>3, ConcatProperties
<1>5. buffer \o (pipe \o Append(stdio, Prompt)) = (buffer \o pipe) \o Append(stdio, Prompt)
  <2> DEFINE d == Append(stdio, Prompt)
  <2>1. buffer \in Seq(Piece) /\ pipe \in Seq(Piece) /\ d \in Seq(Piece)
    BY <1>1, <1>3
  <2> HIDE DEF d
  <2>2. buffer \o (pipe \o d) = (buffer \o pipe) \o d
    BY ONLY <2>1, ConcatAssociative
  <2> QED
    BY <2>2 DEF d
<1>6. buffer \o pipe \in Seq(Piece)
  BY <1>1, ConcatProperties
<1>7. (buffer \o pipe) \o Append(stdio, Prompt) = Append((buffer \o pipe) \o stdio, Prompt)
  BY <1>1, <1>6, AppendToConcat
<1>8. buffer \o (pipe \o Append(stdio, Prompt)) \in Seq(Piece)
  BY <1>1, <1>4, ConcatProperties
<1> QED
  BY <1>2, <1>5, <1>7, <1>8, ConcatEmptySeq DEF Output

LEMMA PrintOutput ==
    ASSUME TypeOK, NEW p \in Piece, stdio' = Append(stdio, p), UNCHANGED <<buffer, pipe>>
    PROVE  Output' = Append(Output, p)
<1>1. buffer \in Seq(Piece) /\ pipe \in Seq(Piece) /\ stdio \in Seq(Piece)
  BY DEF TypeOK
<1>2. buffer \o pipe \in Seq(Piece)
  BY <1>1, ConcatProperties
<1> QED
  BY <1>1, <1>2, AppendToConcat DEF Output

\* What emacsql.c has printed is flushed.
LEMMA FlushOutput ==
    ASSUME TypeOK, buffer' = buffer, pipe' = pipe \o stdio, stdio' = <<>>
    PROVE  Output' = Output
<1>1. buffer \in Seq(Piece) /\ pipe \in Seq(Piece) /\ stdio \in Seq(Piece)
  BY DEF TypeOK
<1>2. pipe \o stdio \in Seq(Piece)
  BY <1>1, ConcatProperties
<1>3. buffer \o (pipe \o stdio) = (buffer \o pipe) \o stdio
  BY ONLY <1>1, ConcatAssociative
<1>4. buffer \o (pipe \o stdio) \in Seq(Piece)
  BY <1>1, <1>2, ConcatProperties
<1> QED
  BY <1>3, <1>4, ConcatEmptySeq DEF Output

LEMMA ExitOutput ==
    ASSUME TypeOK, NEW p \in Piece, buffer' = buffer, pipe' = pipe \o stdio \o <<p>>, stdio' = <<>>
    PROVE  Output' = Append(Output, p)
<1>1. buffer \in Seq(Piece) /\ pipe \in Seq(Piece) /\ stdio \in Seq(Piece) /\ <<p>> \in Seq(Piece)
  BY DEF TypeOK
<1>2. pipe \o stdio \in Seq(Piece)
  BY <1>1, ConcatProperties
<1>3. (pipe \o stdio) \o <<p>> \in Seq(Piece)
  BY <1>1, <1>2, ConcatProperties
<1>4. buffer \o ((pipe \o stdio) \o <<p>>) = (buffer \o (pipe \o stdio)) \o <<p>>
  BY <1>1, <1>2, ConcatAssociative
<1>5. buffer \o (pipe \o stdio) = Output
  BY <1>1, ConcatAssociative DEF Output
<1>6. buffer \o ((pipe \o stdio) \o <<p>>) \in Seq(Piece)
  BY <1>1, <1>3, ConcatProperties
<1>7. Output' = Output \o <<p>>
  BY <1>4, <1>5, <1>6, ConcatEmptySeq DEF Output
<1>8. Append(Output, p) = Output \o <<p>>
  BY OutputType, AppendIsConcat
<1> QED
  BY <1>7, <1>8

\* The process buffer is cleared, or what is in the stdio buffer is lost.
LEMMA ClearedOutput ==
    ASSUME TypeOK, TypeOK', buffer' = <<>>, UNCHANGED <<pipe, stdio>>
    PROVE  Kept(Len(buffer))
<1>1. buffer \in Seq(Piece) /\ pipe \in Seq(Piece) /\ stdio \in Seq(Piece) /\ <<>> \in Seq(Piece)
  BY DEF TypeOK
<1>2. /\ Len(Output) = Len(buffer) + Len(pipe) + Len(stdio)
      /\ \A i \in 1..Len(pipe) : Output[Len(buffer) + i] = pipe[i]
      /\ \A i \in 1..Len(stdio) : Output[Len(buffer) + Len(pipe) + i] = stdio[i]
      /\ Len(buffer) \in Nat /\ Len(pipe) \in Nat /\ Len(stdio) \in Nat
  BY OutputType
<1>3. Output' = pipe \o stdio
  BY <1>1, ConcatEmptySeq DEF Output
<1>4. /\ Len(pipe \o stdio) = Len(pipe) + Len(stdio)
      /\ \A i \in 1..(Len(pipe) + Len(stdio)) :
            (pipe \o stdio)[i] = IF i <= Len(pipe) THEN pipe[i] ELSE stdio[i - Len(pipe)]
  BY <1>1, ConcatProperties
<1>5. ASSUME NEW i \in 1..(Len(pipe) + Len(stdio))
      PROVE  (pipe \o stdio)[i] = Output[i + Len(buffer)]
  <2>1. CASE i <= Len(pipe)
    <3>1. i \in 1..Len(pipe) /\ Len(buffer) + i = i + Len(buffer)
      BY <1>2, <2>1
    <3>2. (pipe \o stdio)[i] = pipe[i]
      BY <1>4, <2>1
    <3> QED
      BY <1>2, <3>1, <3>2
  <2>2. CASE ~(i <= Len(pipe))
    <3>1. /\ i - Len(pipe) \in 1..Len(stdio)
          /\ Len(buffer) + Len(pipe) + (i - Len(pipe)) = i + Len(buffer)
      BY <1>2, <2>2
    <3>2. (pipe \o stdio)[i] = stdio[i - Len(pipe)]
      BY <1>4, <2>2
    <3>3. Output[Len(buffer) + Len(pipe) + (i - Len(pipe))] = stdio[i - Len(pipe)]
      BY <1>2, <3>1
    <3> QED
      BY <3>1, <3>2, <3>3
  <2> QED
    BY <2>1, <2>2
<1>6. Len(Output') = Len(pipe) + Len(stdio)
  BY <1>3, <1>4
<1>7. \A i \in 1..Len(Output') : Output'[i] = Output[i + Len(buffer)]
  BY <1>3, <1>5, <1>6
<1>8. Len(buffer) \in Nat /\ Len(Output') + Len(buffer) <= Len(Output)
  BY <1>2, <1>6
<1> QED
  BY <1>7, <1>8 DEF Kept

LEMMA LostOutput ==
    ASSUME TypeOK, UNCHANGED <<buffer, pipe>>, stdio' = <<>>
    PROVE  Kept(0)
<1>1. buffer \in Seq(Piece) /\ pipe \in Seq(Piece) /\ stdio \in Seq(Piece)
  BY DEF TypeOK
<1>2. buffer \o pipe \in Seq(Piece)
  BY <1>1, ConcatProperties
<1>3. Output' = buffer \o pipe
  BY <1>2, ConcatEmptySeq DEF Output
<1>4. /\ Len(Output) = Len(buffer \o pipe) + Len(stdio)
      /\ \A i \in 1..(Len(buffer \o pipe) + Len(stdio)) :
            Output[i] = IF i <= Len(buffer \o pipe) THEN (buffer \o pipe)[i]
                                                    ELSE stdio[i - Len(buffer \o pipe)]
  BY <1>1, <1>2, ConcatProperties DEF Output
<1>5. Len(buffer \o pipe) \in Nat /\ Len(stdio) \in Nat
  BY <1>1, <1>2, LenProperties
<1> DEFINE n == Len(buffer \o pipe)
<1> HIDE DEF n
<1>6. ASSUME NEW i \in 1..n PROVE (buffer \o pipe)[i] = Output[i + 0]
  <2>1. i \in 1..(Len(buffer \o pipe) + Len(stdio)) /\ i <= Len(buffer \o pipe) /\ i + 0 = i
    BY <1>5 DEF n
  <2> QED
    BY <1>4, <2>1
<1>7. Len(Output') = n /\ n + 0 <= Len(Output)
  BY <1>3, <1>4, <1>5 DEF n
<1> QED
  BY <1>3, <1>6, <1>7 DEF Kept

-----------------------------------------------------------------------------
(***************************************************************************)
(* The types and the process.                                              *)
(***************************************************************************)

LEMMA InitEmacsql == Init => EmacsqlInv
<1> SUFFICES ASSUME Init PROVE EmacsqlInv
  OBVIOUS
<1> USE QueryType DEF Init
<1>1. TypeOK
  <2>1. 0 \in 0..MaxQuery
    OBVIOUS
  <2>2. result \in [Query -> Results]
    <3>1. [kind |-> "unsent", of |-> 0] \in Results
      BY <2>1 DEF Results, Kinds
    <3> QED
      BY <3>1
  <2>3. /\ waiting \in Seq(Query) /\ stdin \in Seq(Query)
        /\ buffer \in Seq(Piece) /\ pipe \in Seq(Piece) /\ stdio \in Seq(Piece)
    OBVIOUS
  <2> QED
    BY <2>1, <2>2, <2>3 DEF TypeOK
<1>2. /\ Len(Output) = 0 /\ Len(stdin) = 0 /\ Len(stdio) = 0 /\ Len(waiting) = 0
      /\ Len(buffer) = 0
  BY <1>1, OutputType
<1>3. MachineInv
  BY <1>2 DEF MachineInv, Busy
<1>4. CallsInv
  BY <1>2 DEF CallsInv
<1>5. StdinInv /\ OutputInv
  BY <1>2 DEF StdinInv, OutputInv, Busy
<1>6. \A n \in Query : ~Answered(n)
  BY DEF Answered
<1>7. PassedInv /\ AnswersInOrder /\ SettledReturnsOwnResult /\ OwnInv
  BY <1>6 DEF PassedInv, AnswersInOrder, SettledReturnsOwnResult, OwnInv, Undisturbed
<1>8. StepsInv /\ OutOfStepOnlyAfterAbandon
  BY <1>2 DEF StepsInv, OutOfStepOnlyAfterAbandon, NoPrompt
<1> QED
  BY <1>1, <1>3, <1>4, <1>5, <1>7, <1>8 DEF EmacsqlInv

\* The innermost call
LEMMA HeadWaiting ==
    ASSUME TypeOK, CallsInv, waiting # <<>>
    PROVE  /\ Head(waiting) \in Query /\ Head(waiting) = waiting[1] /\ Head(waiting) <= issued
           /\ result[Head(waiting)].kind = "waiting"
           /\ Tail(waiting) \in Seq(Query) /\ Len(waiting) \in Nat /\ Len(waiting) >= 1
           /\ Len(Tail(waiting)) = Len(waiting) - 1
           /\ \A i \in 1..Len(Tail(waiting)) : Tail(waiting)[i] = waiting[i + 1]
<1>1. waiting \in Seq(Query)
  BY DEF TypeOK
<1>2. /\ Len(waiting) \in Nat /\ Len(waiting) >= 1
      /\ Head(waiting) = waiting[1] /\ Head(waiting) \in Query
      /\ Tail(waiting) \in Seq(Query)
      /\ Len(Tail(waiting)) = Len(waiting) - 1
      /\ \A i \in 1..Len(Tail(waiting)) : Tail(waiting)[i] = waiting[i + 1]
  BY <1>1, HeadTail
<1>3. 1 \in 1..Len(waiting)
  BY <1>2
<1> QED
  BY <1>2, <1>3 DEF CallsInv

\* A call ends with a result.
LEMMA FinishType ==
    ASSUME TypeOK, CallsInv, waiting # <<>>, NEW kind \in Kinds, NEW of \in 0..MaxQuery,
           Finish(kind, of)
    PROVE  /\ result' \in [Query -> Results] /\ waiting' \in Seq(Query)
           /\ result'[Head(waiting)] = [kind |-> kind, of |-> of]
           /\ \A n \in Query : n # Head(waiting) => result'[n] = result[n]
           /\ waiting' = Tail(waiting)
<1>1. Head(waiting) \in Query /\ Tail(waiting) \in Seq(Query)
  BY HeadWaiting
<1>2. [kind |-> kind, of |-> of] \in Results /\ result \in [Query -> Results]
  BY DEF TypeOK, Results
<1> QED
  BY <1>1, <1>2 DEF Finish

\* What emacsql-parse makes of the buffer it waited for
LEMMA ParseResult ==
    ASSUME TypeOK, WaitingP, Parse
    PROVE  \E kind \in {"value", "error", "garbled"}, of \in 0..MaxQuery :
              /\ Finish(kind, of)
              /\ Len(buffer) > 0 /\ buffer[1] \in Piece
              /\ buffer[1].kind \in {"rows", "error"} => of = buffer[1].of /\ kind # "garbled"
              /\ of = 0 \/ of = buffer[1].of
<1>1. buffer \in Seq(Piece) /\ buffer # <<>>
  BY DEF TypeOK, WaitingP
<1>2. Len(buffer) \in Nat /\ Len(buffer) > 0 /\ buffer[1] \in Piece
  BY <1>1, HeadTail
<1>3. buffer[1].of \in 0..MaxQuery /\ 0 \in 0..MaxQuery
  BY <1>2, PieceType, QueryType
<1>4. CASE buffer[1].kind = "error"
  BY <1>2, <1>3, <1>4 DEF Parse
<1>5. CASE buffer[1].kind = "rows"
  <2>1. CASE buffer[2].kind = "success"
    BY <1>2, <1>3, <1>5, <2>1 DEF Parse
  <2>2. CASE buffer[2].kind # "success"
    BY <1>2, <1>3, <1>5, <2>2 DEF Parse
  <2> QED
    BY <2>1, <2>2
<1>6. CASE buffer[1].kind \notin {"rows", "error"}
  BY <1>2, <1>3, <1>6 DEF Parse
<1> QED
  BY <1>4, <1>5, <1>6

LEMMA EmacsType ==
    ASSUME TypeOK, MachineInv, CallsInv, Emacs \/ Abandon \/ Close
    PROVE  TypeOK'
<1>1. CASE Connect
  BY <1>1 DEF Connect, TypeOK, historyVars, streamVars, backendVars
<1>2. CASE Return
  <2>1. PICK kind \in {"value", "error", "garbled"}, of \in 0..MaxQuery : Finish(kind, of)
    BY <1>2, ParseResult DEF Return
  <2>2. result' \in [Query -> Results] /\ waiting' \in Seq(Query)
    BY <1>2, <2>1, FinishType DEF Kinds, Return
  <2> QED
    BY <1>2, <2>2 DEF Return, TypeOK, historyVars, streamVars, backendVars
<1>3. CASE Abandon
  <2>1. result' \in [Query -> Results] /\ waiting' \in Seq(Query)
    <3>1. "abandoned" \in Kinds /\ 0 \in 0..MaxQuery /\ waiting # <<>> /\ Finish("abandoned", 0)
      BY <1>3, QueryType DEF Kinds, Abandon
    <3> QED
      BY <3>1, FinishType
  <2> QED
    BY <1>3, <2>1 DEF Abandon, TypeOK, historyVars, streamVars, backendVars
<1>4. CASE WaitFails
  <2>1. result' \in [Query -> Results] /\ waiting' \in Seq(Query)
    <3>1. "lost" \in Kinds /\ 0 \in 0..MaxQuery /\ waiting # <<>> /\ Finish("lost", 0)
      BY <1>4, QueryType DEF Kinds, WaitFails
    <3> QED
      BY <3>1, FinishType
  <2> QED
    BY <1>4, <2>1 DEF WaitFails, TypeOK, historyVars, streamVars, backendVars
<1>5. CASE Receive
  <2>1. buffer \in Seq(Piece) /\ pipe \in Seq(Piece)
    BY DEF TypeOK
  <2>2. PICK k \in 1..Len(pipe) :
          /\ buffer' = buffer \o SubSeq(pipe, 1, k)
          /\ pipe' = SubSeq(pipe, k + 1, Len(pipe))
    BY <1>5 DEF Receive
  <2>3. SubSeq(pipe, 1, k) \in Seq(Piece) /\ SubSeq(pipe, k + 1, Len(pipe)) \in Seq(Piece)
    <3>1. Len(pipe) \in Nat /\ \A i \in 1..Len(pipe) : pipe[i] \in Piece
      BY <2>1, LenProperties, ElementOfSeq
    <3>2. /\ 1 \in Int /\ k \in Int /\ k + 1 \in Int /\ Len(pipe) \in Int
          /\ \A i \in 1..k : pipe[i] \in Piece
          /\ \A i \in (k + 1)..Len(pipe) : pipe[i] \in Piece
      BY <3>1
    <3> QED
      BY ONLY <3>2, SubSeqProperties
  <2>4. buffer' \in Seq(Piece) /\ pipe' \in Seq(Piece)
    BY <2>1, <2>2, <2>3, ConcatProperties
  <2> QED
    BY <1>5, <2>4 DEF Receive, TypeOK, historyVars, backendVars
<1>6. CASE Sentinel
  BY <1>6 DEF Sentinel, TypeOK, historyVars, streamVars, backendVars
<1>7. CASE Close
  BY <1>7 DEF Close, TypeOK, emacsVars, historyVars, backendVars
<1> QED
  BY <1>1, <1>2, <1>3, <1>4, <1>5, <1>6, <1>7 DEF Emacs

\* The calls that wait are marked when another is made.
LEMMA OverlapType ==
    ASSUME TypeOK, CallsInv, MayCall, Overlap
    PROVE  /\ overlapped' \subseteq Query /\ overlapped \subseteq overlapped'
           /\ issued + 1 \in Query /\ issued + 1 \notin overlapped'
           /\ \A n \in overlapped' : n <= issued
           /\ \A i \in 1..Len(waiting) : waiting[i] \in overlapped'
<1>1. waiting \in Seq(Query) /\ overlapped \subseteq Query /\ issued \in Nat /\ issued < MaxQuery
  BY QueryType DEF TypeOK, MayCall
<1>2. \A i \in 1..Len(waiting) : waiting[i] \in Query /\ waiting[i] <= issued
  BY <1>1, ElementOfSeq DEF CallsInv
<1>3. \A n \in overlapped : n <= issued
  <2> SUFFICES ASSUME NEW n \in overlapped, n > issued PROVE FALSE
    BY <1>1, QueryType
  <2> QED
    BY <1>1 DEF CallsInv
<1>4. issued + 1 \in Query /\ ~(issued + 1 <= issued)
  BY <1>1, QueryType
<1>5. overlapped' = overlapped \cup {waiting[i] : i \in 1..Len(waiting)}
  BY DEF Overlap
<1>6. \A n \in overlapped' : n \in Query /\ n <= issued
  BY <1>1, <1>2, <1>3, <1>5
<1> QED
  BY <1>4, <1>5, <1>6

\* A call is sent.
LEMMA CallType ==
    ASSUME TypeOK, CallsInv, Call
    PROVE  /\ TypeOK'
           /\ issued + 1 \in Query /\ issued \in Nat
           /\ waiting' \in Seq(Query) /\ waiting' # <<>>
           /\ Len(waiting) \in Nat /\ Len(waiting') = Len(waiting) + 1
           /\ Head(waiting') = issued + 1 /\ waiting'[1] = issued + 1
           /\ \A i \in 1..Len(waiting) : waiting'[i + 1] = waiting[i]
           /\ result'[issued + 1].kind = "waiting"
           /\ \A n \in Query : n # issued + 1 => result'[n] = result[n]
<1>1. issued + 1 \in Query /\ issued \in Nat /\ overlapped' \subseteq Query /\ issued' = issued + 1
  BY OverlapType, QueryType DEF Call, TypeOK
<1>2. waiting \in Seq(Query) /\ <<issued + 1>> \in Seq(Query) /\ waiting' = <<issued + 1>> \o waiting
  BY <1>1 DEF TypeOK, Call
<1>3. /\ waiting' \in Seq(Query)
      /\ Len(waiting') = Len(<<issued + 1>>) + Len(waiting)
      /\ \A i \in 1..(Len(<<issued + 1>>) + Len(waiting)) :
            waiting'[i] = IF i <= Len(<<issued + 1>>) THEN <<issued + 1>>[i]
                                                      ELSE waiting[i - Len(<<issued + 1>>)]
  BY ONLY <1>2, ConcatProperties
<1>4. Len(<<issued + 1>>) = 1 /\ <<issued + 1>>[1] = issued + 1 /\ Len(waiting) \in Nat
  BY <1>2, LenProperties
<1>5. /\ Len(waiting') = Len(waiting) + 1 /\ waiting'[1] = issued + 1
      /\ \A i \in 1..Len(waiting) : waiting'[i + 1] = waiting[i]
  <2>1. waiting'[1] = issued + 1
    <3>1. 1 \in 1..(1 + Len(waiting))
      BY <1>4
    <3> QED
      BY <1>3, <1>4, <3>1
  <2>2. ASSUME NEW i \in 1..Len(waiting) PROVE waiting'[i + 1] = waiting[i]
    <3>1. i + 1 \in 1..(1 + Len(waiting)) /\ ~(i + 1 <= 1) /\ (i + 1) - 1 = i
      BY <1>4
    <3> QED
      BY <1>3, <1>4, <3>1
  <2> QED
    BY <1>3, <1>4, <2>1, <2>2
<1>6. waiting' # <<>> /\ Head(waiting') = waiting'[1]
  BY <1>3, <1>4, <1>5, EmptySeq, HeadTail
<1>7. /\ result' \in [Query -> Results] /\ result'[issued + 1].kind = "waiting"
      /\ \A n \in Query : n # issued + 1 => result'[n] = result[n]
  BY <1>1 DEF Call, TypeOK, Results, Kinds
<1>8. stdin' \in Seq(Query)
  BY <1>1 DEF Call, TypeOK
<1>9. issued' \in 0..MaxQuery /\ unsettled' \subseteq Query
  BY <1>1, QueryType DEF Call, TypeOK
<1>10. TypeOK'
  BY <1>1, <1>3, <1>7, <1>8, <1>9 DEF Call, TypeOK, Clear, backendVars
<1> QED
  BY <1>1, <1>3, <1>4, <1>5, <1>6, <1>7, <1>10

LEMMA CallFailsType ==
    ASSUME TypeOK, MachineInv, CallsInv, CallFails
    PROVE  /\ TypeOK' /\ buffer' = <<>>
           /\ issued + 1 \in Query /\ issued \in Nat
           /\ result'[issued + 1].kind = "lost"
           /\ \A n \in Query : n # issued + 1 => result'[n] = result[n]
<1>1. issued + 1 \in Query /\ issued \in Nat /\ overlapped' \subseteq Query
  BY OverlapType, QueryType DEF CallFails, TypeOK
<1>2. /\ result' \in [Query -> Results] /\ result'[issued + 1].kind = "lost"
      /\ \A n \in Query : n # issued + 1 => result'[n] = result[n]
  BY <1>1 DEF CallFails, TypeOK, Results, Kinds
<1>3. buffer' = <<>>
  BY DEF CallFails, Clear, MachineInv
<1>4. issued' \in 0..MaxQuery
  BY <1>1, QueryType DEF CallFails
<1> QED
  BY <1>1, <1>2, <1>3, <1>4 DEF CallFails, TypeOK, streamVars, backendVars

\* A piece of output of the query that is worked on
LEMMA PrintType ==
    ASSUME TypeOK, MachineInv, Busy, NEW kind \in {"rows", "success", "error"}, Write(kind)
    PROVE  \E p \in Piece :
              /\ stdio' = Append(stdio, p) /\ stdio' \in Seq(Piece)
              /\ p = [kind |-> kind, of |-> current] /\ p # Prompt
<1>1. current \in Query
  BY QueryType DEF TypeOK, MachineInv
<1> DEFINE p == [kind |-> kind, of |-> current]
<1>2. p \in Piece /\ p # Prompt
  BY <1>1, PieceType
<1>3. Append(stdio, p) \in Seq(Piece)
  BY <1>2, AppendProperties DEF TypeOK
<1> QED
  BY <1>2, <1>3 DEF Write

LEMMA BackendType ==
    ASSUME TypeOK, MachineInv, Backend \/ Overflow \/ Crash
    PROVE  TypeOK'
<1>1. pipe \in Seq(Piece) /\ stdio \in Seq(Piece) /\ stdin \in Seq(Query) /\ pipe \o stdio \in Seq(Piece)
  BY ConcatProperties DEF TypeOK
<1> USE DEF emacsVars, historyVars, streamVars, backendVars
<1>2. CASE NextPrompt
  <2>1. Append(stdio, Prompt) \in Seq(Piece)
    BY <1>1, PieceType, AppendProperties
  <2>2. pipe' \in Seq(Piece)
    BY <1>1, <1>2, <2>1, ConcatProperties DEF NextPrompt, PrintPrompt
  <2> QED
    BY <1>2, <2>2 DEF NextPrompt, PrintPrompt, TypeOK, Goto
<1>3. CASE Read
  <2>1. current' \in 0..MaxQuery /\ stdin' \in Seq(Query)
    BY <1>1, <1>3, HeadTail, QueryType DEF Read
  <2> QED
    BY <1>3, <2>1 DEF Read, TypeOK, Goto
<1>4. CASE ReadTooLong
  <2>1. Head(stdin) \in Query /\ current' \in 0..MaxQuery /\ stdin' \in Seq(Query)
    BY <1>1, <1>4, HeadTail, QueryType DEF ReadTooLong
  <2>2. [kind |-> "error", of |-> Head(stdin)] \in Piece
    BY <2>1, PieceType
  <2>3. stdio' \in Seq(Piece)
    BY <1>1, <1>4, <2>2, AppendProperties DEF ReadTooLong
  <2> QED
    BY <1>4, <2>1, <2>3 DEF ReadTooLong, TypeOK, Goto
<1>5. CASE ReadOutOfSync
  <2>1. <<[kind |-> "complaint", of |-> 0]>> \in Seq(Piece)
    BY PieceType
  <2>2. pipe' \in Seq(Piece)
    BY <1>1, <1>5, <2>1, ConcatProperties DEF ReadOutOfSync, Exit
  <2> QED
    BY <1>5, <2>2 DEF ReadOutOfSync, Exit, TypeOK, Goto
<1>6. CASE ReadEof
  <2>1. pipe' \in Seq(Piece)
    <3>1. pipe' = (pipe \o stdio) \o <<>>
      BY <1>6 DEF ReadEof, Exit
    <3> QED
      BY <1>1, <3>1, ConcatEmptySeq
  <2> QED
    BY <1>6, <2>1 DEF ReadEof, Exit, TypeOK, Goto
<1>7. CASE PrepareFails
  <2>1. stdio' \in Seq(Piece)
    BY <1>7, PrintType DEF PrepareFails, Busy
  <2> QED
    BY <1>7, <2>1 DEF PrepareFails, TypeOK, Goto
<1>8. CASE PrintRows
  <2>1. stdio' \in Seq(Piece)
    BY <1>8, PrintType DEF PrintRows, Busy
  <2> QED
    BY <1>8, <2>1 DEF PrintRows, TypeOK, Goto
<1>9. CASE Finalize
  <2>1. stdio' \in Seq(Piece)
    BY <1>9, PrintType DEF Finalize, Busy
  <2> QED
    BY <1>9, <2>1 DEF Finalize, TypeOK, Goto
<1>10. CASE Overflow
  BY <1>1, <1>10 DEF Overflow, TypeOK
<1>11. CASE Crash
  BY <1>11 DEF Crash, TypeOK, Goto
<1> QED
  BY <1>2, <1>3, <1>4, <1>5, <1>6, <1>7, <1>8, <1>9, <1>10, <1>11 DEF Backend

LEMMA NoPromptAdded ==
    ASSUME TypeOK, MachineInv, NEW p \in Piece, p # Prompt, stdio' = Append(stdio, p)
    PROVE  \A i \in 1..Len(stdio') : stdio'[i] # Prompt
<1>1. stdio \in Seq(Piece) /\ Len(stdio) \in Nat
  BY LenProperties DEF TypeOK
<1>2. /\ Len(stdio') = Len(stdio) + 1 /\ stdio'[Len(stdio) + 1] = p
      /\ \A i \in 1..Len(stdio) : stdio'[i] = stdio[i]
  BY <1>1, AppendProperties
<1>3. \A i \in 1..Len(stdio') : i \in 1..Len(stdio) \/ i = Len(stdio) + 1
  BY <1>1, <1>2
<1> QED
  BY <1>2, <1>3 DEF MachineInv

\* main() keeps the process invariant.
LEMMA BackendMachine ==
    ASSUME TypeOK, MachineInv, Backend \/ Overflow \/ Crash
    PROVE  MachineInv'
<1> USE DEF emacsVars, historyVars, streamVars, backendVars
<1>1. pipe \in Seq(Piece) /\ stdio \in Seq(Piece) /\ stdin \in Seq(Query)
  BY DEF TypeOK
<1>2. CASE NextPrompt
  <2>1. pipe \o stdio \in Seq(Piece) /\ Prompt \in Piece
    BY <1>1, ConcatProperties, PieceType
  <2>2. pipe' = Append(pipe \o stdio, Prompt)
    BY <1>1, <1>2, PieceType, AppendToConcat DEF NextPrompt, PrintPrompt
  <2>3. pipe'[Len(pipe')] = Prompt
    BY <2>1, <2>2, AppendProperties
  <2>4. process' = "run" /\ loop' = "read" /\ stdio' = <<>>
    BY <1>2 DEF NextPrompt, PrintPrompt, Goto
  <2>5. \A i \in 1..Len(stdio') : stdio'[i] # Prompt
    BY <2>4
  <2> QED
    BY <2>3, <2>4, <2>5 DEF MachineInv, Busy
<1>3. CASE Read
  <2>1. current' > 0
    BY <1>1, <1>3, HeadTail, QueryType DEF Read
  <2> QED
    BY <1>3, <2>1 DEF Read, MachineInv, Goto, Busy
<1>4. CASE ReadTooLong
  <2>1. Head(stdin) \in Query
    BY <1>1, <1>4, HeadTail DEF ReadTooLong
  <2>2. /\ [kind |-> "error", of |-> Head(stdin)] \in Piece
        /\ [kind |-> "error", of |-> Head(stdin)] # Prompt
    BY <2>1, PieceType
  <2>3. \A i \in 1..Len(stdio') : stdio'[i] # Prompt
    BY <1>4, <2>2, NoPromptAdded DEF ReadTooLong
  <2> QED
    BY <1>4, <2>3 DEF ReadTooLong, MachineInv, Goto, Busy
<1>5. CASE ReadOutOfSync \/ ReadEof \/ Crash
  <2>1. process' = "exited" /\ loop' = "exit" /\ stdin' = <<>> /\ stdio' = <<>>
    BY <1>5 DEF ReadOutOfSync, ReadEof, Crash, Exit, Goto
  <2>2. \A i \in 1..Len(stdio') : stdio'[i] # Prompt
    BY <2>1
  <2> QED
    BY <2>1, <2>2 DEF MachineInv, Busy
<1>6. ASSUME Busy, process = "run", UNCHANGED <<buffer, process, current>>,
             loop' \in {"finalize", "prompt"},
             NEW kind \in {"rows", "success", "error"}, Write(kind)
      PROVE  MachineInv'
  <2>1. \A i \in 1..Len(stdio') : stdio'[i] # Prompt
    BY <1>6, PrintType, NoPromptAdded
  <2> QED
    BY <1>6, <2>1 DEF MachineInv, Busy
<1>7. CASE PrepareFails
  BY <1>6, <1>7 DEF PrepareFails, Goto, Busy
<1>8. CASE PrintRows
  BY <1>6, <1>8 DEF PrintRows, Goto, Busy
<1>9. CASE Finalize
  BY <1>6, <1>9 DEF Finalize, Goto, Busy
<1>10. CASE Overflow
  <2>1. process' = "run" /\ loop' = "finalize" /\ current' = current /\ stdio' = <<>> /\ loop = "finalize"
    BY <1>10 DEF Overflow
  <2>2. \A i \in 1..Len(stdio') : stdio'[i] # Prompt
    BY <2>1
  <2> QED
    BY <2>1, <2>2 DEF MachineInv, Busy
<1> QED
  BY <1>2, <1>3, <1>4, <1>5, <1>7, <1>8, <1>9, <1>10 DEF Backend

\* And so does Emacs.
LEMMA EmacsMachine ==
    ASSUME TypeOK, MachineInv, CallsInv, Emacs \/ Call \/ CallFails \/ Abandon \/ Close
    PROVE  MachineInv'
<1> USE DEF emacsVars, historyVars, streamVars, backendVars
<1>1. CASE Connect \/ Return \/ Abandon \/ WaitFails \/ Close
  <2>1. UNCHANGED <<process, loop, stdin, stdio, pipe, buffer, current>>
    BY <1>1 DEF Connect, Return, Abandon, WaitFails, Close
  <2> QED
    BY <2>1 DEF MachineInv, Busy
<1>2. CASE Receive
  <2>1. pipe \in Seq(Piece) /\ Len(pipe) \in Nat
    BY LenProperties DEF TypeOK
  <2>2. PICK k \in 1..Len(pipe) : pipe' = SubSeq(pipe, k + 1, Len(pipe))
    BY <1>2 DEF Receive
  <2>3. pipe' # <<>> => pipe # <<>> /\ pipe'[Len(pipe')] = pipe[Len(pipe)]
    <3> SUFFICES ASSUME pipe' # <<>> PROVE pipe # <<>> /\ pipe'[Len(pipe')] = pipe[Len(pipe)]
      OBVIOUS
    <3>1. /\ k + 1 \in Int /\ Len(pipe) \in Int
          /\ \A i \in (k + 1)..Len(pipe) : pipe[i] \in Piece
      BY <2>1, ElementOfSeq
    <3>2. /\ pipe' \in Seq(Piece)
          /\ Len(pipe') = IF k + 1 <= Len(pipe) THEN Len(pipe) - (k + 1) + 1 ELSE 0
          /\ \A i \in 1..(Len(pipe) - (k + 1) + 1) : pipe'[i] = pipe[(k + 1) + i - 1]
      BY ONLY <2>2, <3>1, SubSeqProperties
    <3>3. Len(pipe') > 0
      BY <3>2, EmptySeq, LenProperties
    <3>4. k + 1 <= Len(pipe) /\ Len(pipe') = Len(pipe) - k
      BY <2>1, <3>2, <3>3
    <3>5. /\ Len(pipe') \in 1..(Len(pipe) - (k + 1) + 1)
          /\ (k + 1) + Len(pipe') - 1 = Len(pipe)
      BY <2>1, <3>4
    <3>6. pipe'[Len(pipe')] = pipe[(k + 1) + Len(pipe') - 1]
      BY <3>2, <3>5
    <3>7. Len(pipe) # 0
      BY <2>1, <3>4
    <3>8. pipe # <<>>
      BY <3>7, EmptySeq
    <3> QED
      BY <3>5, <3>6, <3>8
  <2>4. UNCHANGED <<process, loop, stdin, stdio, current>> /\ process # "reaped"
    BY <1>2 DEF Receive
  <2> QED
    BY <2>3, <2>4 DEF MachineInv, Busy
<1>3. CASE Sentinel
  BY <1>3 DEF Sentinel, MachineInv, Busy
<1>4. CASE Call
  BY <1>4 DEF Call, Clear, MachineInv, Busy
<1>5. CASE CallFails
  <2>1. buffer' = <<>> /\ UNCHANGED <<process, loop, stdin, stdio, pipe, current>>
    BY <1>5, CallFailsType DEF CallFails
  <2> QED
    BY <2>1 DEF MachineInv, Busy
<1> QED
  BY <1>1, <1>2, <1>3, <1>4, <1>5 DEF Emacs

-----------------------------------------------------------------------------
(***************************************************************************)
(* The calls.                                                              *)
(***************************************************************************)

\* When a call ends, the one around it has been overlapped.
LEMMA FinishCalls ==
    ASSUME TypeOK, CallsInv, waiting # <<>>, NEW kind \in Kinds, NEW of \in 0..MaxQuery,
           Finish(kind, of), UNCHANGED <<connected, issued, historyVars>>
    PROVE  CallsInv' /\ ~Undisturbed'
<1>1. /\ waiting' = Tail(waiting) /\ \A n \in Query : n # Head(waiting) => result'[n] = result[n]
      /\ UNCHANGED <<connected, issued, unsettled, overlapped>>
  BY FinishType DEF historyVars
<1>2. /\ Head(waiting) \in Query /\ Head(waiting) = waiting[1] /\ Head(waiting) <= issued
      /\ waiting' \in Seq(Query) /\ Len(waiting) \in Nat /\ Len(waiting) >= 1
      /\ Len(waiting') = Len(waiting) - 1
      /\ \A i \in 1..Len(waiting') : waiting'[i] = waiting[i + 1]
  BY <1>1, HeadWaiting
<1>3. /\ Len(waiting') \in Nat
      /\ \A i \in 1..Len(waiting') : /\ i + 1 \in 2..Len(waiting) /\ i + 1 \in 1..Len(waiting)
                                     /\ i \in Nat /\ i + 1 # 1
  BY <1>2
<1>4. 1 \in 1..Len(waiting)
  BY <1>2
<1>5. \A i \in 1..Len(waiting') : waiting'[i] # Head(waiting) /\ waiting'[i] \in Query
  <2> SUFFICES ASSUME NEW i \in 1..Len(waiting')
               PROVE  waiting'[i] # Head(waiting) /\ waiting'[i] \in Query
    OBVIOUS
  <2>1. waiting'[i] = waiting[i + 1] /\ i + 1 \in 1..Len(waiting) /\ i + 1 # 1
    BY <1>2, <1>3
  <2>2. waiting[i + 1] # waiting[1]
    BY <1>4, <2>1 DEF CallsInv
  <2> QED
    BY <1>2, <2>1, <2>2, ElementOfSeq
<1>6. \A i \in 1..Len(waiting') :
          waiting'[i] <= issued /\ result'[waiting'[i]].kind = "waiting" /\ waiting'[i] \in overlapped
  <2> SUFFICES ASSUME NEW i \in 1..Len(waiting')
               PROVE  /\ waiting'[i] <= issued /\ result'[waiting'[i]].kind = "waiting"
                      /\ waiting'[i] \in overlapped
    OBVIOUS
  <2>1. waiting'[i] = waiting[i + 1] /\ i + 1 \in 1..Len(waiting) /\ i + 1 \in 2..Len(waiting)
    BY <1>2, <1>3
  <2>2. result'[waiting'[i]] = result[waiting'[i]]
    BY <1>1, <1>5
  <2> QED
    BY <2>1, <2>2 DEF CallsInv
<1>7. \A i, j \in 1..Len(waiting') : waiting'[i] = waiting'[j] => i = j
  <2> SUFFICES ASSUME NEW i \in 1..Len(waiting'), NEW j \in 1..Len(waiting'),
                      waiting'[i] = waiting'[j]
               PROVE  i = j
    OBVIOUS
  <2>1. /\ waiting'[i] = waiting[i + 1] /\ i + 1 \in 1..Len(waiting)
        /\ waiting'[j] = waiting[j + 1] /\ j + 1 \in 1..Len(waiting)
    BY <1>2, <1>3
  <2>2. i + 1 = j + 1
    BY <2>1 DEF CallsInv
  <2> QED
    BY <1>3, <2>2
<1>8. waiting' # <<>> => Head(waiting') \in overlapped
  <2> SUFFICES ASSUME waiting' # <<>> PROVE Head(waiting') \in overlapped
    OBVIOUS
  <2>1. Head(waiting') = waiting'[1] /\ 1 \in 1..Len(waiting')
    BY <1>2, HeadTail
  <2> QED
    BY <1>6, <2>1
<1>9. \A n \in Query : n > issued =>
          n \notin overlapped /\ n \notin unsettled /\ result'[n].kind = "unsent"
  <2> SUFFICES ASSUME NEW n \in Query, n > issued
               PROVE  n \notin overlapped /\ n \notin unsettled /\ result'[n].kind = "unsent"
    OBVIOUS
  <2>1. n # Head(waiting)
    BY <1>2, QueryType DEF TypeOK
  <2>2. result'[n] = result[n]
    BY <1>1, <2>1
  <2> QED
    BY <2>2 DEF CallsInv
<1>10. \A i \in 2..Len(waiting') : i \in 1..Len(waiting')
  BY <1>3
<1> QED
  BY <1>1, <1>6, <1>7, <1>8, <1>9, <1>10 DEF CallsInv, Undisturbed

LEMMA CallCalls == ASSUME TypeOK, CallsInv, Call PROVE CallsInv'
<1>1. /\ issued + 1 \in Query /\ issued \in Nat
      /\ waiting' \in Seq(Query) /\ waiting' # <<>>
      /\ Len(waiting) \in Nat /\ Len(waiting') = Len(waiting) + 1
      /\ Head(waiting') = issued + 1 /\ waiting'[1] = issued + 1
      /\ \A i \in 1..Len(waiting) : waiting'[i + 1] = waiting[i]
      /\ result'[issued + 1].kind = "waiting"
      /\ \A n \in Query : n # issued + 1 => result'[n] = result[n]
  BY CallType
<1>2. /\ issued' = issued + 1 /\ connected' = connected /\ connected = TRUE
      /\ unsettled' \in {unsettled, unsettled \cup {issued + 1}}
  BY DEF Call, MayCall, TypeOK
<1>3. /\ overlapped' \subseteq Query /\ issued + 1 \notin overlapped'
      /\ \A n \in overlapped' : n <= issued
      /\ \A i \in 1..Len(waiting) : waiting[i] \in overlapped'
  BY OverlapType DEF Call
<1>4. \A i \in 1..Len(waiting) : /\ waiting[i] \in Query /\ waiting[i] <= issued
                                 /\ waiting[i] # issued + 1
                                 /\ result'[waiting[i]].kind = "waiting"
  <2> SUFFICES ASSUME NEW i \in 1..Len(waiting)
               PROVE  /\ waiting[i] \in Query /\ waiting[i] <= issued
                      /\ waiting[i] # issued + 1 /\ result'[waiting[i]].kind = "waiting"
    OBVIOUS
  <2>1. waiting[i] \in Query /\ waiting[i] <= issued /\ result[waiting[i]].kind = "waiting"
    BY ElementOfSeq DEF TypeOK, CallsInv
  <2>2. waiting[i] # issued + 1
    BY <1>1, <2>1, QueryType
  <2> QED
    BY <1>1, <2>1, <2>2
<1>5. \A i \in 1..Len(waiting') : i = 1 \/ \E k \in 1..Len(waiting) : i = k + 1
  <2> SUFFICES ASSUME NEW i \in 1..Len(waiting'), i # 1
               PROVE  \E k \in 1..Len(waiting) : i = k + 1
    OBVIOUS
  <2>1. i - 1 \in 1..Len(waiting) /\ i = (i - 1) + 1
    BY <1>1
  <2> QED
    BY <2>1
<1>6. ASSUME NEW i \in 1..Len(waiting')
      PROVE  /\ waiting'[i] <= issued + 1 /\ result'[waiting'[i]].kind = "waiting"
             /\ i # 1 => waiting'[i] \in overlapped'
  <2>1. CASE i = 1
    BY <1>1, <2>1
  <2>2. CASE i # 1
    <3>1. PICK k \in 1..Len(waiting) : i = k + 1
      BY <1>5, <2>2
    <3>2. waiting'[i] = waiting[k]
      BY <1>1, <3>1
    <3>3. waiting[k] <= issued + 1
      BY <1>1, <1>4, QueryType
    <3> QED
      BY <1>3, <1>4, <3>2, <3>3
  <2> QED
    BY <2>1, <2>2
<1>7. ASSUME NEW i \in 1..Len(waiting'), NEW j \in 1..Len(waiting'), waiting'[i] = waiting'[j]
      PROVE  i = j
  <2>1. CASE i = 1
    <3>1. \A k \in 1..Len(waiting) : waiting'[k + 1] # issued + 1
      BY <1>1, <1>4
    <3> QED
      BY <1>1, <1>5, <1>7, <2>1, <3>1
  <2>2. CASE j = 1
    <3>1. \A k \in 1..Len(waiting) : waiting'[k + 1] # issued + 1
      BY <1>1, <1>4
    <3> QED
      BY <1>1, <1>5, <1>7, <2>2, <3>1
  <2>3. CASE i # 1 /\ j # 1
    <3>1. PICK k \in 1..Len(waiting) : i = k + 1
      BY <1>5, <2>3
    <3>2. PICK l \in 1..Len(waiting) : j = l + 1
      BY <1>5, <2>3
    <3>3. waiting[k] = waiting[l]
      BY <1>1, <1>7, <3>1, <3>2
    <3>4. k = l
      BY <3>3 DEF CallsInv
    <3> QED
      BY <3>1, <3>2, <3>4
  <2> QED
    BY <2>1, <2>2, <2>3
<1>8. \A n \in Query : n > issued + 1 =>
          n \notin overlapped' /\ n \notin unsettled' /\ result'[n].kind = "unsent"
  <2> SUFFICES ASSUME NEW n \in Query, n > issued + 1
               PROVE  n \notin overlapped' /\ n \notin unsettled' /\ result'[n].kind = "unsent"
    OBVIOUS
  <2>1. n > issued /\ n # issued + 1 /\ ~(n <= issued)
    BY <1>1, QueryType
  <2>2. n \notin unsettled /\ result[n].kind = "unsent"
    BY <2>1 DEF CallsInv
  <2> QED
    BY <1>1, <1>2, <1>3, <2>1, <2>2
<1>9. \A i \in 2..Len(waiting') : i \in 1..Len(waiting') /\ i # 1
  BY <1>1
<1> QED
  BY <1>1, <1>2, <1>6, <1>7, <1>8, <1>9 DEF CallsInv

LEMMA CallFailsCalls == ASSUME TypeOK, MachineInv, CallsInv, CallFails PROVE CallsInv' /\ ~Undisturbed'
<1>1. /\ issued + 1 \in Query /\ issued \in Nat /\ issued' = issued + 1
      /\ \A n \in Query : n # issued + 1 => result'[n] = result[n]
      /\ UNCHANGED <<connected, waiting, unsettled>> /\ connected = TRUE
  BY CallFailsType DEF CallFails, MayCall, TypeOK
<1>2. /\ overlapped' \subseteq Query /\ issued + 1 \notin overlapped'
      /\ \A n \in overlapped' : n <= issued
      /\ \A i \in 1..Len(waiting) : waiting[i] \in overlapped'
  BY OverlapType DEF CallFails
<1>3. \A i \in 1..Len(waiting) :
          waiting[i] <= issued + 1 /\ result'[waiting[i]].kind = "waiting"
  <2> SUFFICES ASSUME NEW i \in 1..Len(waiting)
               PROVE  waiting[i] <= issued + 1 /\ result'[waiting[i]].kind = "waiting"
    OBVIOUS
  <2>1. waiting[i] \in Query /\ waiting[i] <= issued /\ result[waiting[i]].kind = "waiting"
    BY ElementOfSeq DEF TypeOK, CallsInv
  <2>2. waiting[i] # issued + 1 /\ waiting[i] <= issued + 1
    BY <1>1, <2>1, QueryType
  <2> QED
    BY <1>1, <2>1, <2>2
<1>4. \A n \in Query : n > issued + 1 =>
          n \notin overlapped' /\ n \notin unsettled /\ result'[n].kind = "unsent"
  <2> SUFFICES ASSUME NEW n \in Query, n > issued + 1
               PROVE  n \notin overlapped' /\ n \notin unsettled /\ result'[n].kind = "unsent"
    OBVIOUS
  <2>1. n > issued /\ n # issued + 1 /\ ~(n <= issued)
    BY <1>1, QueryType
  <2>2. n \notin unsettled /\ result[n].kind = "unsent"
    BY <2>1 DEF CallsInv
  <2> QED
    BY <1>1, <1>2, <2>1, <2>2
<1>5. waiting # <<>> => Head(waiting) \in overlapped'
  <2> SUFFICES ASSUME waiting # <<>> PROVE Head(waiting) \in overlapped'
    OBVIOUS
  <2>1. Head(waiting) = waiting[1] /\ 1 \in 1..Len(waiting)
    BY HeadWaiting
  <2> QED
    BY <1>2, <2>1
<1>6. \A i \in 2..Len(waiting) : i \in 1..Len(waiting)
  BY LenProperties DEF TypeOK
<1>7. \A i, j \in 1..Len(waiting) : waiting[i] = waiting[j] => i = j
  BY DEF CallsInv
<1> QED
  BY <1>1, <1>2, <1>3, <1>4, <1>5, <1>6, <1>7 DEF CallsInv, Undisturbed

-----------------------------------------------------------------------------
(***************************************************************************)
(* The order of the output.                                                *)
(***************************************************************************)

\* Passed(k, f) after a step
PassedAfter(k, f) ==
    /\ \A j \in 1..Len(Output') : j > f /\ Output'[j].of # 0 => Output'[j].of > k
    /\ Busy' => current' > k
    /\ k <= current'

LEMMA KeptStep ==
    ASSUME TypeOK, TypeOK', OutputInv, NEW d \in Nat, Kept(d), Len(buffer') + d >= Len(buffer),
           current' >= current, Busy' => Busy \/ current' > current
    PROVE  /\ OutputInv'
           /\ \A k \in Nat : /\ Passed(k, Len(buffer)) => PassedAfter(k, Len(buffer'))
                             /\ Passed(k, 0) => PassedAfter(k, 0)
<1>1. /\ Len(Output) \in Nat /\ Len(buffer) \in Nat
      /\ \A i \in 1..Len(Output) : Output[i].of \in Nat
  BY OutputType, PieceType, LenProperties
<1>2. Len(Output') \in Nat /\ Len(buffer') \in Nat
  BY LenProperties, Concat3 DEF TypeOK, Output
<1>3. \A i \in 1..Len(Output') : i + d \in 1..Len(Output) /\ Output'[i] = Output[i + d] /\ i \in Nat
  BY <1>1, <1>2 DEF Kept
<1>4. current \in Nat /\ current' \in Nat
  BY QueryType DEF TypeOK
<1>5. ASSUME NEW i \in 1..Len(Output'), NEW p \in 1..Len(Output'), NEW j \in 1..Len(Output'),
             i < p, p < j, Output'[p] = Prompt, Output'[j].of # 0
      PROVE  Output'[i].of < Output'[j].of
  <2>1. i + d < p + d /\ p + d < j + d
    BY <1>3, <1>5
  <2>2. /\ i + d \in 1..Len(Output) /\ p + d \in 1..Len(Output) /\ j + d \in 1..Len(Output)
        /\ Output'[i] = Output[i + d] /\ Output'[p] = Output[p + d] /\ Output'[j] = Output[j + d]
    BY <1>3
  <2> QED
    BY <1>5, <2>1, <2>2 DEF OutputInv
<1>6. \A i \in 1..Len(Output') : Output'[i].of <= current /\ Output'[i].of \in Nat
  BY <1>1, <1>3 DEF OutputInv
<1>7. \A i \in 1..Len(Output') : Output'[i].of <= current'
  BY <1>4, <1>6
<1>8. ASSUME Busy', NEW i \in 1..Len(Output'), NEW p \in 1..Len(Output'), i < p, Output'[p] = Prompt
      PROVE  Output'[i].of < current'
  <2>1. CASE current' > current
    BY <1>4, <1>6, <2>1
  <2>2. CASE Busy
    <3>1. i + d < p + d /\ i + d \in 1..Len(Output) /\ p + d \in 1..Len(Output)
      BY <1>3, <1>8
    <3>2. Output[i + d].of < current
      BY <1>3, <1>8, <2>2, <3>1 DEF OutputInv
    <3> QED
      BY <1>3, <1>4, <1>6, <3>2
  <2> QED
    BY <1>8, <2>1, <2>2
<1>9. OutputInv'
  BY <1>5, <1>7, <1>8 DEF OutputInv
<1>10. ASSUME NEW k \in Nat, NEW f \in Nat, NEW g \in Nat, g + d >= f, Passed(k, f)
       PROVE  PassedAfter(k, g)
  <2>1. ASSUME NEW j \in 1..Len(Output'), j > g, Output'[j].of # 0 PROVE Output'[j].of > k
    <3>1. j + d > f
      BY <1>3, <1>10, <2>1
    <3> QED
      BY <1>3, <1>10, <2>1, <3>1 DEF Passed
  <2>2. (Busy' => current' > k) /\ k <= current'
    BY <1>4, <1>10 DEF Passed
  <2> QED
    BY <2>1, <2>2 DEF PassedAfter
<1>11. 0 + d >= 0 /\ 0 \in Nat
  OBVIOUS
<1> QED
  BY <1>1, <1>2, <1>9, <1>10, <1>11

LEMMA GrownStep ==
    ASSUME TypeOK, TypeOK', OutputInv, NEW p \in Piece, Grown(p), buffer' = buffer,
           current' >= current, p.of <= current',
           p.of # 0 => (p.of = current /\ Busy) \/ p.of > current,
           Busy' => Busy /\ p # Prompt
    PROVE  /\ OutputInv'
           /\ \A k \in Nat : /\ Passed(k, Len(buffer)) => PassedAfter(k, Len(buffer'))
                             /\ Passed(k, 0) => PassedAfter(k, 0)
<1>1. /\ Len(Output) \in Nat /\ Len(buffer) \in Nat
      /\ \A i \in 1..Len(Output) : Output[i].of \in Nat
      /\ p.of \in Nat /\ current \in Nat /\ current' \in Nat
  <2>1. Len(Output) \in Nat /\ Len(buffer) \in Nat
    BY OutputType, LenProperties
  <2>2. \A i \in 1..Len(Output) : Output[i].of \in Nat
    BY OutputType, PieceType
  <2>3. p.of \in Nat
    BY PieceType
  <2>4. current \in Nat /\ current' \in Nat
    BY QueryType DEF TypeOK
  <2> QED
    BY <2>1, <2>2, <2>3, <2>4
<1>2. /\ Len(Output') = Len(Output) + 1 /\ Output'[Len(Output) + 1] = p
      /\ \A i \in 1..Len(Output) : Output'[i] = Output[i]
  BY DEF Grown
<1>3. \A i \in 1..Len(Output') : i \in Nat /\ (i \in 1..Len(Output) \/ i = Len(Output) + 1)
  BY <1>1, <1>2
<1>4. ASSUME NEW i \in 1..Len(Output'), NEW q \in 1..Len(Output'), NEW j \in 1..Len(Output'),
             i < q, q < j, Output'[q] = Prompt, Output'[j].of # 0
      PROVE  Output'[i].of < Output'[j].of
  <2>1. i \in 1..Len(Output) /\ q \in 1..Len(Output)
    BY <1>1, <1>3, <1>4
  <2>2. Output'[i] = Output[i] /\ Output'[q] = Output[q]
    BY <1>2, <2>1
  <2>3. CASE j \in 1..Len(Output)
    BY <1>2, <1>4, <2>1, <2>2, <2>3 DEF OutputInv
  <2>4. CASE j = Len(Output) + 1
    <3>1. Output'[j] = p
      BY <1>2, <2>4
    <3>2. CASE p.of = current /\ Busy
      BY <1>4, <2>1, <2>2, <3>1, <3>2 DEF OutputInv
    <3>3. CASE p.of > current
      <4>1. Output[i].of <= current
        BY <2>1 DEF OutputInv
      <4> QED
        BY <1>1, <2>1, <2>2, <3>1, <3>3, <4>1
    <3> QED
      BY <1>4, <3>1, <3>2, <3>3
  <2> QED
    BY <1>3, <2>3, <2>4
<1>5. ASSUME NEW i \in 1..Len(Output') PROVE Output'[i].of <= current'
  <2>1. CASE i \in 1..Len(Output)
    <3>1. Output[i].of <= current /\ Output'[i] = Output[i]
      BY <1>2, <2>1 DEF OutputInv
    <3> QED
      BY <1>1, <2>1, <3>1
  <2>2. CASE i = Len(Output) + 1
    BY <1>2, <2>2
  <2> QED
    BY <1>3, <2>1, <2>2
<1>6. ASSUME Busy', NEW i \in 1..Len(Output'), NEW q \in 1..Len(Output'), i < q, Output'[q] = Prompt
      PROVE  Output'[i].of < current'
  <2>1. q # Len(Output) + 1
    BY <1>2, <1>6
  <2>2. q \in 1..Len(Output) /\ i \in 1..Len(Output)
    BY <1>1, <1>3, <1>6, <2>1
  <2>3. Output'[q] = Output[q] /\ Output'[i] = Output[i]
    BY <1>2, <2>2
  <2>4. Output[i].of < current
    BY <1>6, <2>2, <2>3 DEF OutputInv
  <2> QED
    BY <1>1, <2>2, <2>3, <2>4
<1>7. OutputInv'
  BY <1>4, <1>5, <1>6 DEF OutputInv
<1>8. ASSUME NEW k \in Nat, NEW f \in Nat, Passed(k, f)
      PROVE  PassedAfter(k, f)
  <2>1. ASSUME NEW j \in 1..Len(Output'), j > f, Output'[j].of # 0 PROVE Output'[j].of > k
    <3>1. CASE j \in 1..Len(Output)
      BY <1>2, <1>8, <2>1, <3>1 DEF Passed
    <3>2. CASE j = Len(Output) + 1
      <4>1. Output'[j] = p
        BY <1>2, <3>2
      <4>2. CASE p.of = current /\ Busy
        BY <1>8, <4>1, <4>2 DEF Passed
      <4>3. CASE p.of > current
        BY <1>1, <1>8, <4>1, <4>3 DEF Passed
      <4> QED
        BY <2>1, <4>1, <4>2, <4>3
    <3> QED
      BY <1>3, <3>1, <3>2
  <2>2. Busy' => current' > k
    BY <1>1, <1>8 DEF Passed
  <2>3. k <= current'
    BY <1>1, <1>8 DEF Passed
  <2> QED
    BY <2>1, <2>2, <2>3 DEF PassedAfter
<1> QED
  BY <1>1, <1>7, <1>8

\* What passes for one call passes for all, when none begins or ends.
LEMMA PassedKept ==
    ASSUME TypeOK, PassedInv, UNCHANGED <<waiting, result, overlapped>>,
           \A k \in Nat : /\ Passed(k, Len(buffer)) => PassedAfter(k, Len(buffer'))
                          /\ Passed(k, 0) => PassedAfter(k, 0)
    PROVE  PassedInv'
<1>1. \A m \in Query : result[m].of \in Nat
  BY QueryType DEF TypeOK, Results
<1>2. \A m \in Query : Answered(m)' <=> Answered(m)
  BY DEF Answered
<1>3. Undisturbed' <=> Undisturbed
  BY DEF Undisturbed
<1>4. ASSUME NEW m \in Query \ overlapped', Answered(m)'
      PROVE  /\ result'[m].of <= m
             /\ PassedAfter(result'[m].of, Len(buffer'))
             /\ Undisturbed' => PassedAfter(result'[m].of, 0)
  <2>1. /\ result[m].of <= m /\ Passed(result[m].of, Len(buffer))
        /\ Undisturbed => Passed(result[m].of, 0)
    BY <1>2, <1>4 DEF PassedInv
  <2> QED
    BY <1>1, <1>3, <2>1
<1> QED
  BY <1>4 DEF PassedInv, Passed, PassedAfter

LEMMA StdinKept ==
    ASSUME TypeOK, TypeOK', StdinInv, current' = current, stdin' \in {stdin, <<>>}, issued' >= issued
    PROVE  StdinInv'
<1>1. issued \in Nat /\ issued' \in Nat /\ current \in Nat
  BY QueryType DEF TypeOK
<1>2. CASE stdin' = stdin
  <2>1. \A i \in 1..Len(stdin) : stdin[i] \in Nat
    BY ElementOfSeq, QueryType DEF TypeOK
  <2> QED
    BY <1>1, <1>2, <2>1 DEF StdinInv
<1>3. CASE stdin' = <<>>
  <2>1. Len(stdin') = 0
    BY <1>3
  <2> QED
    BY <1>1, <2>1 DEF StdinInv
<1> QED
  BY <1>2, <1>3

\* emacsql.c takes the next query.
LEMMA StdinRead ==
    ASSUME TypeOK, TypeOK', StdinInv, stdin # <<>>, current' = Head(stdin), stdin' = Tail(stdin),
           issued' = issued
    PROVE  StdinInv' /\ current' > current
<1>1. stdin \in Seq(Query)
  BY DEF TypeOK
<1>2. /\ Len(stdin) \in Nat /\ Len(stdin) >= 1 /\ current' = stdin[1]
      /\ Len(stdin') = Len(stdin) - 1
      /\ \A i \in 1..Len(stdin') : stdin'[i] = stdin[i + 1]
  BY <1>1, HeadTail
<1>3. /\ 1 \in 1..Len(stdin) /\ Len(stdin') \in Nat
      /\ \A i \in 1..Len(stdin') : i + 1 \in 1..Len(stdin) /\ 1 < i + 1 /\ i \in Nat
  BY <1>2
<1>4. current' > current /\ current' <= issued
  BY <1>2, <1>3 DEF StdinInv
<1>5. \A i \in 1..Len(stdin') : current' < stdin'[i] /\ stdin'[i] <= issued
  BY <1>2, <1>3 DEF StdinInv
<1>6. ASSUME NEW i \in 1..Len(stdin'), NEW j \in 1..Len(stdin'), i < j PROVE stdin'[i] < stdin'[j]
  <2>1. i + 1 < j + 1
    BY <1>3, <1>6
  <2> QED
    BY <1>2, <1>3, <2>1 DEF StdinInv
<1> QED
  BY <1>4, <1>5, <1>6 DEF StdinInv

\* Emacs sends one.
LEMMA StdinSent ==
    ASSUME TypeOK, TypeOK', StdinInv, issued + 1 \in Query, issued' = issued + 1,
           stdin' = Append(stdin, issued + 1), current' = current
    PROVE  StdinInv'
<1>1. /\ stdin \in Seq(Query) /\ issued \in Nat /\ current \in Nat /\ Len(stdin) \in Nat
      /\ \A i \in 1..Len(stdin) : stdin[i] \in Nat
  BY QueryType, LenProperties, ElementOfSeq DEF TypeOK
<1>2. /\ Len(stdin') = Len(stdin) + 1 /\ stdin'[Len(stdin) + 1] = issued + 1
      /\ \A i \in 1..Len(stdin) : stdin'[i] = stdin[i]
  BY <1>1, AppendProperties
<1>3. \A i \in 1..Len(stdin') : i \in Nat /\ (i \in 1..Len(stdin) \/ i = Len(stdin) + 1)
  BY <1>1, <1>2
<1>4. \A i \in 1..Len(stdin) : current < stdin[i] /\ stdin[i] <= issued
  BY DEF StdinInv
<1>5. current <= issued
  BY DEF StdinInv
<1>6. \A i \in 1..Len(stdin') : current < stdin'[i] /\ stdin'[i] <= issued + 1
  BY <1>1, <1>2, <1>3, <1>4, <1>5
<1>7. ASSUME NEW i \in 1..Len(stdin'), NEW j \in 1..Len(stdin'), i < j PROVE stdin'[i] < stdin'[j]
  <2>1. i \in 1..Len(stdin)
    BY <1>1, <1>3, <1>7
  <2>2. CASE j \in 1..Len(stdin)
    BY <1>2, <1>7, <2>1, <2>2 DEF StdinInv
  <2>3. CASE j = Len(stdin) + 1
    BY <1>1, <1>2, <1>4, <2>1, <2>3
  <2> QED
    BY <1>3, <2>2, <2>3
<1> QED
  BY <1>1, <1>5, <1>6, <1>7 DEF StdinInv

\* What each step of main() does to the output
LEMMA BackendOutput ==
    ASSUME TypeOK, TypeOK', MachineInv
    PROVE  /\ NextPrompt => Grown(Prompt)
           /\ Read \/ ReadEof \/ Overflow \/ Crash => Kept(0)
           /\ ReadTooLong => Grown([kind |-> "error", of |-> Head(stdin)])
           /\ ReadOutOfSync => Grown([kind |-> "complaint", of |-> 0])
           /\ PrepareFails => Grown([kind |-> "error", of |-> current])
           /\ PrintRows => Grown([kind |-> "rows", of |-> current])
           /\ Finalize => \/ Grown([kind |-> "success", of |-> current])
                          \/ Grown([kind |-> "error", of |-> current])
           /\ Overflow => Output' = Output
<1> USE DEF emacsVars, historyVars, streamVars, backendVars
<1>1. ASSUME NextPrompt PROVE Grown(Prompt)
  BY <1>1, PromptOutput, MoreOutput, PieceType
<1>2. ASSUME Read PROVE Kept(0)
  BY <1>2, SameOutput DEF Read, Output
<1>3. ASSUME ReadEof PROVE Kept(0)
  <2>1. pipe' = (pipe \o stdio) \o <<>> /\ pipe \o stdio \in Seq(Piece)
    BY <1>3, ConcatProperties DEF ReadEof, Exit, TypeOK
  <2>2. pipe' = pipe \o stdio /\ stdio' = <<>> /\ buffer' = buffer
    BY <1>3, <2>1, ConcatEmptySeq DEF ReadEof, Exit
  <2> QED
    BY <2>2, FlushOutput, SameOutput
<1>4. ASSUME Overflow PROVE Output' = Output
  BY <1>4, FlushOutput DEF Overflow
<1>5. ASSUME Crash PROVE Kept(0)
  BY <1>5, LostOutput DEF Crash
<1>6. ASSUME ReadTooLong PROVE Grown([kind |-> "error", of |-> Head(stdin)])
  <2>1. Head(stdin) \in Query
    BY <1>6, HeadTail DEF ReadTooLong, TypeOK
  <2>2. [kind |-> "error", of |-> Head(stdin)] \in Piece
    BY <2>1, PieceType
  <2> QED
    BY <1>6, <2>2, PrintOutput, MoreOutput DEF ReadTooLong
<1>7. ASSUME ReadOutOfSync PROVE Grown([kind |-> "complaint", of |-> 0])
  <2>1. [kind |-> "complaint", of |-> 0] \in Piece
    BY PieceType
  <2>2. /\ pipe' = pipe \o stdio \o <<[kind |-> "complaint", of |-> 0]>>
        /\ stdio' = <<>> /\ buffer' = buffer
    BY <1>7 DEF ReadOutOfSync, Exit
  <2> QED
    BY <2>1, <2>2, ExitOutput, MoreOutput
<1>8. ASSUME Busy, UNCHANGED <<buffer, pipe>>,
             NEW kind \in {"rows", "success", "error"}, Write(kind)
      PROVE  Grown([kind |-> kind, of |-> current])
  <2>1. PICK p \in Piece : stdio' = Append(stdio, p) /\ p = [kind |-> kind, of |-> current]
    BY <1>8, PrintType
  <2> QED
    BY <1>8, <2>1, PrintOutput, MoreOutput
<1>9. ASSUME PrepareFails PROVE Grown([kind |-> "error", of |-> current])
  BY <1>8, <1>9 DEF PrepareFails, Busy
<1>10. ASSUME PrintRows PROVE Grown([kind |-> "rows", of |-> current])
  BY <1>8, <1>10 DEF PrintRows, Busy
<1>11. ASSUME Finalize
       PROVE  \/ Grown([kind |-> "success", of |-> current])
              \/ Grown([kind |-> "error", of |-> current])
  BY <1>8, <1>11 DEF Finalize, Busy
<1> QED
  BY <1>1, <1>2, <1>3, <1>4, <1>5, <1>6, <1>7, <1>9, <1>10, <1>11, SameOutput

\* The pieces main() prints
LEMMA PrintedPieces ==
    ASSUME TypeOK, MachineInv, Busy
    PROVE  /\ current \in Query
           /\ \A k \in {"rows", "success", "error"} :
                 LET p == [kind |-> k, of |-> current] IN
                 p \in Piece /\ p # Prompt /\ p.of = current /\ p.kind = k
<1>1. current \in Query
  BY QueryType DEF TypeOK, MachineInv
<1> QED
  BY <1>1, PieceType

LEMMA BackendOrder ==
    ASSUME TypeOK, TypeOK', MachineInv, StdinInv, OutputInv, PassedInv,
           Backend \/ Overflow \/ Crash
    PROVE  StdinInv' /\ OutputInv' /\ PassedInv'
<1>1. UNCHANGED <<waiting, result, overlapped, issued, buffer>>
  BY DEF Backend, NextPrompt, Read, ReadTooLong, ReadOutOfSync, ReadEof, PrepareFails, PrintRows,
         Finalize, Overflow, Crash, Exit, emacsVars, historyVars
<1>2. /\ current \in Nat /\ Len(buffer) \in Nat /\ 0 \in Nat /\ issued \in Nat
      /\ current >= current /\ issued' >= issued /\ Len(buffer') + 0 >= Len(buffer)
  BY <1>1, QueryType, LenProperties DEF TypeOK
<1>3. CASE Read
  <2>1. StdinInv' /\ current' > current
    BY <1>1, <1>3, StdinRead DEF Read
  <2>2. current' \in Nat /\ current' >= current
    BY <1>2, <2>1, QueryType DEF TypeOK
  <2> QED
    BY <1>1, <1>2, <1>3, <2>1, <2>2, BackendOutput, KeptStep, PassedKept
<1>4. CASE ReadTooLong
  <2>1. StdinInv' /\ current' > current
    BY <1>1, <1>4, StdinRead DEF ReadTooLong
  <2> DEFINE p == [kind |-> "error", of |-> Head(stdin)]
  <2>2. current' \in Nat /\ current' >= current
    BY <1>2, <2>1, QueryType DEF TypeOK
  <2>3. p \in Piece /\ p.of = current'
    BY <1>4, HeadTail, PieceType DEF ReadTooLong, TypeOK
  <2>4. ~Busy' /\ Grown(p)
    BY <1>4, BackendOutput DEF ReadTooLong, Goto, Busy
  <2> HIDE DEF p
  <2>5. p.of <= current' /\ p.of > current
    BY <2>1, <2>2, <2>3
  <2> QED
    BY <1>1, <2>1, <2>2, <2>3, <2>4, <2>5, GrownStep, PassedKept
<1>5. CASE NextPrompt \/ ReadOutOfSync
  <2>1. /\ current' = current /\ stdin' \in {stdin, <<>>} /\ ~Busy'
    BY <1>5 DEF NextPrompt, ReadOutOfSync, Exit, Goto, Busy
  <2>2. PICK p \in Piece : Grown(p) /\ p.of = 0
    BY <1>5, BackendOutput, PieceType
  <2>3. p.of <= current' /\ current' >= current
    BY <1>2, <2>1, <2>2
  <2>4. StdinInv'
    BY <1>2, <2>1, StdinKept
  <2> QED
    BY <1>1, <2>1, <2>2, <2>3, <2>4, GrownStep, PassedKept
<1>6. CASE PrepareFails \/ PrintRows \/ Finalize
  <2>1. /\ current' = current /\ stdin' = stdin /\ Busy
    BY <1>6 DEF PrepareFails, PrintRows, Finalize, Busy, streamVars
  <2>2. PICK k \in {"rows", "success", "error"} : Grown([kind |-> k, of |-> current])
    BY <1>6, BackendOutput
  <2> DEFINE p == [kind |-> k, of |-> current]
  <2>3. p \in Piece /\ p # Prompt /\ p.of = current /\ Grown(p)
    BY <2>1, <2>2, PrintedPieces
  <2> HIDE DEF p
  <2>4. p.of <= current' /\ current' >= current
    BY <1>2, <2>1, <2>3
  <2>5. StdinInv'
    BY <1>2, <2>1, StdinKept
  <2> QED
    BY <1>1, <2>1, <2>3, <2>4, <2>5, GrownStep, PassedKept
<1>7. CASE ReadEof \/ Overflow \/ Crash
  <2>1. /\ current' = current /\ stdin' \in {stdin, <<>>} /\ (Busy' => Busy) /\ Kept(0)
    BY <1>7, BackendOutput DEF ReadEof, Overflow, Crash, Exit, Goto, Busy
  <2>2. StdinInv'
    BY <1>2, <2>1, StdinKept
  <2>3. current' >= current
    BY <1>2, <2>1
  <2> QED
    BY <1>1, <1>2, <2>1, <2>2, <2>3, KeptStep, PassedKept
<1> QED
  BY <1>3, <1>4, <1>5, <1>6, <1>7 DEF Backend

\* Emacs takes no output away but from the start.
LEMMA EventOutput ==
    ASSUME TypeOK, TypeOK', Connect \/ Receive \/ Sentinel \/ Close
    PROVE  \E d \in Nat : Kept(d) /\ Len(buffer') + d >= Len(buffer)
<1> USE DEF emacsVars, historyVars, streamVars, backendVars
<1>0. Len(buffer) \in Nat /\ Len(buffer') \in Nat
  BY LenProperties DEF TypeOK
<1>1. CASE Connect \/ Close
  <2>1. Output' = Output /\ buffer' = buffer
    BY <1>1 DEF Connect, Close, Output
  <2> QED
    BY <1>0, <2>1, SameOutput
<1>2. CASE Receive
  <2>1. PICK k \in 1..Len(pipe) : buffer' = buffer \o SubSeq(pipe, 1, k)
    BY <1>2 DEF Receive
  <2>2. pipe \in Seq(Piece) /\ buffer \in Seq(Piece)
    BY DEF TypeOK
  <2>3. SubSeq(pipe, 1, k) \in Seq(Piece)
    <3>1. 1 \in Int /\ k \in Int /\ \A i \in 1..k : pipe[i] \in Piece
      BY <2>2, LenProperties, ElementOfSeq
    <3> QED
      BY ONLY <3>1, SubSeqProperties
  <2>4. Len(buffer') = Len(buffer) + Len(SubSeq(pipe, 1, k)) /\ Len(SubSeq(pipe, 1, k)) \in Nat
    BY <2>1, <2>2, <2>3, ConcatProperties, LenProperties
  <2>5. Len(buffer') + 0 >= Len(buffer)
    BY <1>0, <2>4
  <2> QED
    BY <1>2, <2>5, ReceiveOutput, SameOutput
<1>3. CASE Sentinel
  <2>1. Kept(Len(buffer)) /\ Len(buffer') = 0
    BY <1>3, ClearedOutput DEF Sentinel
  <2> QED
    BY <1>0, <2>1
<1> QED
  BY <1>1, <1>2, <1>3

LEMMA EventOrder ==
    ASSUME TypeOK, TypeOK', MachineInv, StdinInv, OutputInv, PassedInv,
           Connect \/ Receive \/ Sentinel \/ Close
    PROVE  StdinInv' /\ OutputInv' /\ PassedInv'
<1> USE DEF emacsVars, historyVars, streamVars, backendVars
<1>1. UNCHANGED <<waiting, result, overlapped, issued, current, stdin, loop>>
  BY DEF Connect, Receive, Sentinel, Close
<1>2. /\ current \in Nat /\ Len(buffer) \in Nat /\ Len(buffer') \in Nat /\ issued \in Nat
      /\ current' >= current /\ issued' >= issued /\ (Busy' => Busy)
  BY <1>1, QueryType, LenProperties DEF TypeOK, Busy
<1>3. StdinInv'
  BY <1>1, <1>2, StdinKept
<1>4. \E d \in Nat : Kept(d) /\ Len(buffer') + d >= Len(buffer)
  BY EventOutput
<1> QED
  BY <1>1, <1>2, <1>3, <1>4, KeptStep, PassedKept

\* A call is made, and the buffer cleared.
LEMMA CallOrder ==
    ASSUME TypeOK, TypeOK', MachineInv, CallsInv, StdinInv, OutputInv, PassedInv, Call \/ CallFails
    PROVE  StdinInv' /\ OutputInv' /\ PassedInv'
<1> USE DEF emacsVars, historyVars, streamVars, backendVars
<1>1. /\ UNCHANGED <<current, loop, pipe, stdio>> /\ buffer' = <<>> /\ issued' = issued + 1
      /\ issued + 1 \in Query /\ issued \in Nat /\ overlapped \subseteq overlapped'
      /\ \A n \in Query : n # issued + 1 => result'[n] = result[n]
      /\ result'[issued + 1].kind \in {"waiting", "lost"}
  BY CallType, CallFailsType, OverlapType DEF Call, CallFails, Clear
<1>2. /\ current \in Nat /\ Len(buffer) \in Nat /\ Len(buffer') = 0
      /\ current' >= current /\ issued' >= issued /\ (Busy' => Busy)
      /\ Len(buffer') + Len(buffer) >= Len(buffer)
  BY <1>1, QueryType, LenProperties DEF TypeOK, Busy
<1>3. StdinInv'
  <2>1. CASE stdin' \in {stdin, <<>>}
    BY <1>1, <1>2, <2>1, StdinKept
  <2>2. CASE stdin' = Append(stdin, issued + 1)
    BY <1>1, <2>2, StdinSent
  <2> QED
    BY <2>1, <2>2 DEF Call, CallFails
<1>4. Kept(Len(buffer))
  BY <1>1, ClearedOutput
<1>5. /\ OutputInv'
      /\ \A k \in Nat : Passed(k, Len(buffer)) => PassedAfter(k, Len(buffer'))
  BY <1>2, <1>4, KeptStep
<1>6. ASSUME NEW m \in Query \ overlapped', Answered(m)'
      PROVE  /\ result'[m].of <= m
             /\ PassedAfter(result'[m].of, Len(buffer'))
             /\ PassedAfter(result'[m].of, 0)
  <2>1. m # issued + 1
    BY <1>1, <1>6 DEF Answered
  <2>2. result'[m] = result[m] /\ Answered(m) /\ m \notin overlapped
    BY <1>1, <1>6, <2>1 DEF Answered
  <2>3. result[m].of <= m /\ Passed(result[m].of, Len(buffer)) /\ result[m].of \in Nat
    BY <2>2, QueryType DEF PassedInv, TypeOK, Results
  <2> QED
    BY <1>2, <1>5, <2>2, <2>3
<1> QED
  BY <1>3, <1>5, <1>6 DEF PassedInv, Passed, PassedAfter

-----------------------------------------------------------------------------
(***************************************************************************)
(* The end of a call.                                                      *)
(***************************************************************************)

\* What the end of any call leaves as it is
LEMMA FinishKeeps ==
    ASSUME TypeOK, CallsInv, StdinInv, OutputInv, PassedInv, OutOfStepOnlyAfterAbandon,
           Return \/ Abandon \/ WaitFails
    PROVE  /\ UNCHANGED <<connected, issued, buffer, historyVars, process, streamVars, backendVars>>
           /\ Output' = Output /\ StdinInv' /\ OutputInv'
           /\ \A k, f \in Nat : Passed(k, f) <=> PassedAfter(k, f)
           /\ waiting # <<>> /\ CallsInv' /\ ~Undisturbed'
           /\ \A n \in Query : n # Head(waiting) => result'[n] = result[n]
           /\ OutOfStepOnlyAfterAbandon'
<1>1. UNCHANGED <<connected, issued, buffer, historyVars, process, streamVars, backendVars>>
  BY DEF Return, Abandon, WaitFails
<1>2. /\ UNCHANGED <<buffer, pipe, stdio, stdin, loop, current, issued, overlapped, unsettled>>
      /\ Output' = Output
  BY <1>1 DEF historyVars, streamVars, backendVars, Output
<1>3. StdinInv' /\ OutputInv'
  BY <1>2 DEF StdinInv, OutputInv, Busy
<1>4. \A k, f \in Nat : Passed(k, f) <=> PassedAfter(k, f)
  BY <1>2 DEF Passed, PassedAfter, Busy
<1>5. /\ waiting # <<>>
      /\ \E kind \in Kinds, of \in 0..MaxQuery : Finish(kind, of)
  <2>1. CASE Return
    <3>1. PICK kind \in {"value", "error", "garbled"}, of \in 0..MaxQuery : Finish(kind, of)
      BY <2>1, ParseResult DEF Return
    <3> QED
      BY <2>1, <3>1 DEF Return, Kinds
  <2>2. CASE Abandon
    BY <2>2, QueryType DEF Abandon, Kinds
  <2>3. CASE WaitFails
    BY <2>3, QueryType DEF WaitFails, Kinds
  <2> QED
    BY <2>1, <2>2, <2>3
<1>6. PICK kind \in Kinds, of \in 0..MaxQuery : Finish(kind, of)
  BY <1>5
<1>7. CallsInv' /\ ~Undisturbed'
  BY <1>1, <1>5, <1>6, FinishCalls
<1>8. /\ \A n \in Query : n # Head(waiting) => result'[n] = result[n]
      /\ Head(waiting) \in Query /\ result[Head(waiting)].kind = "waiting"
  BY <1>5, <1>6, FinishType, HeadWaiting
<1>9. OutOfStepOnlyAfterAbandon'
  <2> SUFFICES ASSUME NEW n \in unsettled
               PROVE  \E m \in 1..(n - 1) : result'[m].kind = "abandoned" \/ m \in overlapped
    BY <1>2 DEF OutOfStepOnlyAfterAbandon
  <2>1. PICK m \in 1..(n - 1) : result[m].kind = "abandoned" \/ m \in overlapped
    BY DEF OutOfStepOnlyAfterAbandon
  <2>2. m \in Query
    BY QueryType DEF TypeOK
  <2>3. result[m].kind = "abandoned" => m # Head(waiting)
    BY <1>8
  <2> QED
    BY <1>8, <2>1, <2>2, <2>3
<1> QED
  BY <1>1, <1>2, <1>3, <1>4, <1>5, <1>7, <1>8, <1>9

\* A call that returns no answer
LEMMA NoAnswerOrder ==
    ASSUME TypeOK, CallsInv, StdinInv, OutputInv, PassedInv, OutOfStepOnlyAfterAbandon,
           AnswersInOrder, SettledReturnsOwnResult, Abandon \/ WaitFails
    PROVE  PassedInv' /\ AnswersInOrder' /\ SettledReturnsOwnResult'
<1>1. /\ UNCHANGED <<buffer, unsettled, overlapped>> /\ waiting # <<>> /\ ~Undisturbed'
      /\ \A k, f \in Nat : Passed(k, f) <=> PassedAfter(k, f)
      /\ \A n \in Query : n # Head(waiting) => result'[n] = result[n]
  BY FinishKeeps DEF historyVars
<1>2. result'[Head(waiting)].kind \in {"abandoned", "lost"}
  <2>1. /\ "abandoned" \in Kinds /\ "lost" \in Kinds /\ 0 \in 0..MaxQuery
    BY QueryType DEF Kinds
  <2>2. CASE Abandon
    <3>1. Finish("abandoned", 0)
      BY <2>2 DEF Abandon
    <3>2. result'[Head(waiting)] = [kind |-> "abandoned", of |-> 0]
      BY <1>1, <2>1, <3>1, FinishType
    <3> QED
      BY <3>2
  <2>3. CASE WaitFails
    <3>1. Finish("lost", 0)
      BY <2>3 DEF WaitFails
    <3>2. result'[Head(waiting)] = [kind |-> "lost", of |-> 0]
      BY <1>1, <2>1, <3>1, FinishType
    <3> QED
      BY <3>2
  <2> QED
    BY <2>2, <2>3
<1>3. \A n \in Query : Answered(n)' => Answered(n) /\ result'[n] = result[n]
  BY <1>1, <1>2 DEF Answered
<1>4. \A n \in Query : result[n].of \in Nat
  BY QueryType DEF TypeOK, Results
<1>5. Len(buffer) \in Nat
  BY LenProperties DEF TypeOK
<1>6. PassedInv'
  <2>1. ASSUME NEW m \in Query \ overlapped', Answered(m)'
        PROVE  result'[m].of <= m /\ PassedAfter(result'[m].of, Len(buffer'))
    <3>1. m \in Query \ overlapped /\ Answered(m) /\ result'[m] = result[m]
      BY <1>1, <1>3, <2>1
    <3>2. result[m].of <= m /\ Passed(result[m].of, Len(buffer))
      BY <3>1 DEF PassedInv
    <3> QED
      BY <1>1, <1>4, <1>5, <3>1, <3>2
  <2> QED
    BY <1>1, <2>1 DEF PassedInv, Passed, PassedAfter
<1>7. AnswersInOrder'
  BY <1>1, <1>3 DEF AnswersInOrder
<1>8. SettledReturnsOwnResult'
  BY <1>1, <1>3 DEF SettledReturnsOwnResult
<1> QED
  BY <1>6, <1>7, <1>8

\* A call that returns an answer: that of the first piece of the buffer, which
\* is not behind the prompt that ended the wait.
LEMMA ReturnOrder ==
    ASSUME TypeOK, TypeOK', MachineInv, CallsInv, StdinInv, OutputInv, PassedInv,
           OutOfStepOnlyAfterAbandon, AnswersInOrder, SettledReturnsOwnResult, OwnInv, Return
    PROVE  PassedInv' /\ AnswersInOrder' /\ SettledReturnsOwnResult'
<1>1. /\ UNCHANGED <<buffer, unsettled, overlapped>> /\ waiting # <<>> /\ ~Undisturbed'
      /\ \A k, f \in Nat : Passed(k, f) <=> PassedAfter(k, f)
      /\ \A n \in Query : n # Head(waiting) => result'[n] = result[n]
  BY FinishKeeps DEF historyVars
<1> DEFINE h == Head(waiting)
<1>2. h \in Query /\ (h \notin overlapped => Undisturbed /\ h = issued)
  BY <1>1, HeadWaiting DEF CallsInv, Undisturbed
<1>3. PICK kind \in {"value", "error", "garbled"}, of \in 0..MaxQuery :
          /\ Finish(kind, of)
          /\ Len(buffer) > 0
          /\ buffer[1].kind \in {"rows", "error"} => of = buffer[1].of /\ kind # "garbled"
          /\ of = 0 \/ of = buffer[1].of
  BY ParseResult DEF Return
<1>4. result'[h] = [kind |-> kind, of |-> of]
  BY <1>1, <1>3, FinishType DEF Kinds
<1>5. of \in Nat /\ Len(buffer) \in Nat /\ Len(Output) \in Nat /\ current \in Nat /\ issued \in Nat
  BY OutputType, QueryType DEF TypeOK
<1>6. /\ 1 \in 1..Len(buffer) /\ Len(buffer) \in 1..Len(buffer)
      /\ 1 \in 1..Len(Output) /\ Len(buffer) \in 1..Len(Output)
  BY <1>3, <1>5, OutputType
<1>7. Output[1] = buffer[1] /\ Output[Len(buffer)] = Prompt
  BY <1>6, OutputType DEF Return, WaitingP
<1>8. of <= current /\ of <= issued
  <2>1. Output[1].of <= current /\ current <= issued
    BY <1>6 DEF OutputInv, StdinInv
  <2> QED
    BY <1>3, <1>5, <1>7, <2>1
<1>9. Passed(of, Len(buffer))
  <2>1. CASE of = 0
    <3>1. \A j \in 1..Len(Output) : Output[j].of \in Nat
      BY OutputType, PieceType
    <3>2. Busy => current > 0
      BY DEF MachineInv
    <3> QED
      BY <1>5, <2>1, <3>1, <3>2 DEF Passed
  <2>2. CASE of # 0
    <3>1. Output[1].of = of /\ Output[1] # Prompt
      BY <1>3, <1>7, <2>2, PieceType
    <3>2. 1 < Len(buffer)
      BY <1>5, <1>6, <1>7, <3>1
    <3>3. ASSUME NEW j \in 1..Len(Output), j > Len(buffer), Output[j].of # 0
          PROVE  Output[j].of > of
      <4>1. Output[1].of < Output[j].of
        BY <1>6, <1>7, <3>2, <3>3 DEF OutputInv
      <4> QED
        BY <1>5, <3>1, <4>1, OutputType, PieceType
    <3>4. Busy => current > of
      BY <1>5, <1>6, <1>7, <3>1, <3>2 DEF OutputInv
    <3> QED
      BY <1>8, <3>3, <3>4 DEF Passed
  <2> QED
    BY <2>1, <2>2
<1>10. \A n \in Query : n # h => result'[n] = result[n] /\ (Answered(n)' <=> Answered(n))
  BY <1>1 DEF Answered
<1>11. \A n \in Query : result[n].of \in Nat
  BY QueryType DEF TypeOK, Results
<1>12. PassedInv'
  <2>1. ASSUME NEW m \in Query \ overlapped', Answered(m)'
        PROVE  result'[m].of <= m /\ PassedAfter(result'[m].of, Len(buffer'))
    <3>1. CASE m = h
      <4>1. result'[m].of = of /\ m = issued
        BY <1>1, <1>2, <1>4, <2>1, <3>1
      <4>2. PassedAfter(of, Len(buffer))
        BY <1>1, <1>5, <1>9
      <4> QED
        BY <1>1, <1>8, <4>1, <4>2
    <3>2. CASE m # h
      <4>1. m \in Query \ overlapped /\ Answered(m) /\ result'[m] = result[m]
        BY <1>1, <1>10, <2>1, <3>2
      <4>2. result[m].of <= m /\ Passed(result[m].of, Len(buffer))
        BY <4>1 DEF PassedInv
      <4> QED
        BY <1>1, <1>5, <1>11, <4>1, <4>2
    <3> QED
      BY <3>1, <3>2
  <2> QED
    BY <1>1, <2>1 DEF PassedInv, Passed, PassedAfter
<1>13. AnswersInOrder'
  <2>1. ASSUME NEW m \in Query \ overlapped', NEW n \in Query \ overlapped', m < n,
               Answered(m)', Answered(n)', result'[n].of # 0
        PROVE  result'[m].of < result'[n].of
    <3>1. m # n
      BY <2>1, QueryType
    <3>2. CASE n = h
      <4>1. Answered(m) /\ result'[m] = result[m] /\ m \in Query \ overlapped
        BY <1>1, <1>10, <2>1, <3>1, <3>2
      <4>2. Undisturbed
        BY <1>1, <1>2, <2>1, <3>2
      <4>3. Passed(result[m].of, 0)
        BY <4>1, <4>2 DEF PassedInv
      <4>4. result'[n].of = of /\ of = Output[1].of
        BY <1>3, <1>4, <1>7, <2>1, <3>2
      <4>5. Output[1].of > result[m].of
        BY <1>6, <2>1, <4>3, <4>4 DEF Passed
      <4> QED
        BY <1>5, <1>11, <4>1, <4>4, <4>5
    <3>3. CASE m = h
      <4>1. n > issued
        BY <1>1, <1>2, <2>1, <3>3, QueryType
      <4>2. result[n].kind = "unsent" /\ result'[n] = result[n]
        BY <1>1, <2>1, <3>1, <3>3, <4>1 DEF CallsInv
      <4> QED
        BY <2>1, <4>2 DEF Answered
    <3>4. CASE m # h /\ n # h
      <4>1. /\ Answered(m) /\ Answered(n) /\ result'[m] = result[m] /\ result'[n] = result[n]
            /\ m \in Query \ overlapped /\ n \in Query \ overlapped
        BY <1>1, <1>10, <2>1, <3>4
      <4> QED
        BY <2>1, <4>1 DEF AnswersInOrder
    <3> QED
      BY <3>2, <3>3, <3>4
  <2>2. \A n \in Query \ overlapped' : Answered(n)' => result'[n].of <= n
    BY <1>12 DEF PassedInv
  <2> QED
    BY <2>1, <2>2 DEF AnswersInOrder
<1>14. SettledReturnsOwnResult'
  <2>1. ASSUME NEW n \in Query \ (unsettled' \cup overlapped'), Answered(n)'
        PROVE  result'[n].kind # "garbled" /\ result'[n].of = n
    <3>1. CASE n = h
      <4>1. Own(n)
        BY <1>1, <1>2, <2>1, <3>1 DEF OwnInv
      <4>2. Starts(n)
        BY <1>6, <1>7, <4>1 DEF Own
      <4>3. buffer[1].kind \in {"rows", "error"} /\ buffer[1].of = n
        BY <1>7, <4>2 DEF Starts
      <4> QED
        BY <1>3, <1>4, <3>1, <4>3
    <3>2. CASE n # h
      <4>1. Answered(n) /\ result'[n] = result[n] /\ n \in Query \ (unsettled \cup overlapped)
        BY <1>1, <1>10, <2>1, <3>2
      <4> QED
        BY <4>1 DEF SettledReturnsOwnResult
    <3> QED
      BY <3>1, <3>2
  <2> QED
    BY <2>1 DEF SettledReturnsOwnResult
<1> QED
  BY <1>12, <1>13, <1>14

-----------------------------------------------------------------------------
(***************************************************************************)
(* A clean connection is in step.                                          *)
(***************************************************************************)

\* Steps that print no prompt, and neither begin nor end a call
LEMMA StepsKept ==
    ASSUME TypeOK, TypeOK', StepsInv,
           UNCHANGED <<connected, waiting, issued, result, overlapped>>,
           NEW d \in Nat, Len(buffer') + d >= Len(buffer),
           \A j \in 1..Len(Output') :
              Output'[j] = Prompt => j + d \in 1..Len(Output) /\ Output[j + d] = Prompt,
           \/ stdin' \in {stdin, <<>>} /\ (Live' => Live)
           \/ stdin # <<>> /\ stdin' = Tail(stdin)
    PROVE  StepsInv'
<1> SUFFICES ASSUME Clean'
             PROVE  /\ connected' /\ waiting' = <<>> => stdin' = <<>> /\ ~Live' /\ NoPrompt(Len(buffer))'
                    /\ \A i, j \in 1..Len(Output') :
                          Output'[i] = Prompt /\ Output'[j] = Prompt => i = j
                    /\ Live' => stdin' = <<>> /\ NoPrompt(0)'
                    /\ stdin' # <<>> => Len(stdin') = 1 /\ ~Live' /\ NoPrompt(0)'
  BY DEF StepsInv
<1>1. Clean
  BY DEF Clean
<1>2. /\ connected /\ waiting = <<>> => stdin = <<>> /\ ~Live /\ NoPrompt(Len(buffer))
      /\ \A i, j \in 1..Len(Output) : Output[i] = Prompt /\ Output[j] = Prompt => i = j
      /\ Live => stdin = <<>> /\ NoPrompt(0)
      /\ stdin # <<>> => Len(stdin) = 1 /\ ~Live /\ NoPrompt(0)
  BY <1>1 DEF StepsInv
<1>3. /\ Len(Output) \in Nat /\ Len(buffer) \in Nat /\ stdin \in Seq(Query)
      /\ Len(Output') \in Nat /\ Len(buffer') \in Nat
  BY OutputType, LenProperties, Concat3 DEF TypeOK, Output
<1>4. NoPrompt(0) => NoPrompt(0)'
  <2> SUFFICES ASSUME NoPrompt(0), NEW j \in 1..Len(Output'), Output'[j] = Prompt
               PROVE  FALSE
    BY DEF NoPrompt
  <2>1. j + d \in 1..Len(Output) /\ Output[j + d] = Prompt /\ j + d > 0
    BY <1>3
  <2> QED
    BY <2>1 DEF NoPrompt
<1>5. NoPrompt(Len(buffer)) => NoPrompt(Len(buffer))'
  <2> SUFFICES ASSUME NoPrompt(Len(buffer)), NEW j \in 1..Len(Output'), j > Len(buffer'),
                      Output'[j] = Prompt
               PROVE  FALSE
    BY DEF NoPrompt
  <2>1. j + d \in 1..Len(Output) /\ Output[j + d] = Prompt /\ j + d > Len(buffer)
    BY <1>3
  <2> QED
    BY <2>1 DEF NoPrompt
<1>6. ASSUME NEW i \in 1..Len(Output'), NEW j \in 1..Len(Output'),
             Output'[i] = Prompt, Output'[j] = Prompt
      PROVE  i = j
  <2>1. i + d = j + d
    BY <1>2, <1>6
  <2> QED
    BY <1>3, <2>1
<1>7. CASE stdin' \in {stdin, <<>>} /\ (Live' => Live)
  BY <1>2, <1>4, <1>5, <1>6, <1>7
<1>8. CASE stdin # <<>> /\ stdin' = Tail(stdin)
  <2>1. Len(stdin) = 1 /\ ~Live /\ NoPrompt(0) /\ ~(connected /\ waiting = <<>>)
    BY <1>2, <1>8
  <2>2. stdin' = <<>>
    <3>1. Len(stdin') = 0 /\ stdin' \in Seq(Query)
      BY <1>3, <1>8, <2>1, HeadTail
    <3> QED
      BY <3>1, HeadTail
  <2> QED
    BY <1>4, <1>6, <2>1, <2>2
<1> QED
  BY <1>7, <1>8

\* The steps of main()
LEMMA BackendSteps ==
    ASSUME TypeOK, TypeOK', MachineInv, StepsInv, Backend \/ Overflow \/ Crash
    PROVE  StepsInv'
<1> USE DEF emacsVars, historyVars, streamVars, backendVars
<1>1. UNCHANGED <<connected, waiting, issued, result, overlapped, buffer>>
  BY DEF Backend, NextPrompt, Read, ReadTooLong, ReadOutOfSync, ReadEof, PrepareFails, PrintRows,
         Finalize, Overflow, Crash, Exit
<1>2. /\ Len(Output) \in Nat /\ Len(Output') \in Nat /\ Len(buffer) \in Nat
      /\ 0 \in Nat /\ Len(buffer') + 0 >= Len(buffer)
  BY <1>1, OutputType, LenProperties, Concat3 DEF TypeOK, Output
<1>3. CASE NextPrompt
  <2>1. Grown(Prompt) /\ stdin' = stdin /\ ~Live' /\ Live
    BY <1>3, BackendOutput DEF NextPrompt, Goto, Live
  <2> SUFFICES ASSUME Clean'
               PROVE  /\ stdin' = <<>> /\ ~(connected' /\ waiting' = <<>>)
                      /\ \A i, j \in 1..Len(Output') :
                            Output'[i] = Prompt /\ Output'[j] = Prompt => i = j
    BY <2>1 DEF StepsInv
  <2>2. Clean
    BY <1>1 DEF Clean
  <2>3. stdin = <<>> /\ NoPrompt(0) /\ ~(connected /\ waiting = <<>>)
    BY <2>1, <2>2 DEF StepsInv
  <2>4. ASSUME NEW i \in 1..Len(Output'), Output'[i] = Prompt PROVE i = Len(Output) + 1
    <3> SUFFICES ASSUME i # Len(Output) + 1 PROVE FALSE
      OBVIOUS
    <3>1. i \in 1..Len(Output) /\ i > 0
      BY <1>2, <2>1 DEF Grown
    <3>2. Output[i] = Prompt
      BY <2>1, <2>4, <3>1 DEF Grown
    <3> QED
      BY <2>3, <3>1, <3>2 DEF NoPrompt
  <2> QED
    BY <1>1, <2>1, <2>3, <2>4
<1>4. ASSUME ~NextPrompt
      PROVE  \A j \in 1..Len(Output') :
                Output'[j] = Prompt => j + 0 \in 1..Len(Output) /\ Output[j + 0] = Prompt
  <2>1. ASSUME NEW p, p # Prompt, Grown(p), NEW j \in 1..Len(Output'), Output'[j] = Prompt
        PROVE  j + 0 \in 1..Len(Output) /\ Output[j + 0] = Prompt
    <3>1. j # Len(Output) + 1
      BY <2>1 DEF Grown
    <3>2. j \in 1..Len(Output) /\ j + 0 = j
      BY <1>2, <2>1, <3>1 DEF Grown
    <3> QED
      BY <2>1, <3>2 DEF Grown
  <2>2. CASE Read \/ ReadEof \/ Overflow \/ Crash
    <3>1. Kept(0)
      BY <2>2, BackendOutput
    <3> QED
      BY <1>2, <3>1 DEF Kept
  <2>3. CASE ReadTooLong \/ ReadOutOfSync \/ PrepareFails \/ PrintRows \/ Finalize
    <3>1. PICK p : Grown(p) /\ p # Prompt
      BY <2>3, BackendOutput DEF Prompt
    <3> QED
      BY <2>1, <3>1
  <2> QED
    BY <1>4, <2>2, <2>3 DEF Backend
<1>5. ASSUME ~NextPrompt
      PROVE  \/ stdin' \in {stdin, <<>>} /\ (Live' => Live)
             \/ stdin # <<>> /\ stdin' = Tail(stdin)
  BY <1>5 DEF Backend, NextPrompt, Read, ReadTooLong, ReadOutOfSync, ReadEof, PrepareFails, PrintRows,
              Finalize, Overflow, Crash, Exit, Goto, Live
<1> QED
  BY <1>1, <1>2, <1>3, <1>4, <1>5, StepsKept

\* What happens to the process buffer; the constructor returns.
LEMMA EventSteps ==
    ASSUME TypeOK, TypeOK', CallsInv, StepsInv, Connect \/ Receive \/ Sentinel \/ Close
    PROVE  StepsInv'
<1> USE DEF emacsVars, historyVars, streamVars, backendVars
<1>1. /\ UNCHANGED <<waiting, issued, result, overlapped, stdin, loop>>
      /\ Len(buffer) \in Nat /\ Len(buffer') \in Nat /\ Len(Output') \in Nat
  BY LenProperties, Concat3 DEF Connect, Receive, Sentinel, Close, TypeOK, Output
<1>2. CASE Receive \/ Sentinel \/ Close
  <2>1. PICK d \in Nat : Kept(d) /\ Len(buffer') + d >= Len(buffer)
    BY <1>2, EventOutput
  <2>2. \A j \in 1..Len(Output') :
            Output'[j] = Prompt => j + d \in 1..Len(Output) /\ Output[j + d] = Prompt
    BY <1>1, <2>1, OutputType DEF Kept
  <2>3. connected' = connected /\ (Live' => Live) /\ stdin' \in {stdin, <<>>}
    BY <1>1, <1>2 DEF Receive, Sentinel, Close, Live
  <2> QED
    BY <1>1, <2>1, <2>2, <2>3, StepsKept
<1>3. CASE Connect
  <2>1. Output' = Output /\ buffer' = buffer
    BY <1>3 DEF Connect, Output
  <2>2. Len(buffer) \in 1..Len(Output) /\ Len(buffer) > 0 /\ Output[Len(buffer)] = Prompt
    <3>1. buffer \in Seq(Piece) /\ buffer # <<>> /\ buffer[Len(buffer)] = Prompt
      BY <1>3 DEF Connect, WaitingP, TypeOK
    <3>2. Len(buffer) > 0
      BY <3>1, HeadTail
    <3> QED
      BY <1>1, <3>1, <3>2, OutputType
  <2> SUFFICES ASSUME Clean
               PROVE  /\ stdin = <<>> /\ ~Live /\ NoPrompt(Len(buffer))
                      /\ \A i, j \in 1..Len(Output) : Output[i] = Prompt /\ Output[j] = Prompt => i = j
    BY <1>1, <2>1 DEF StepsInv, Clean, NoPrompt, Live
  <2>3. ~NoPrompt(0)
    BY <2>2 DEF NoPrompt
  <2>4. NoPrompt(Len(buffer))
    BY <2>2, OutputType DEF StepsInv, NoPrompt
  <2> QED
    BY <2>3, <2>4 DEF StepsInv
<1> QED
  BY <1>2, <1>3

\* The end of a call: the prompt that it waited for was the last to come, the
\* process is gone, or the connection is clean no more.
LEMMA FinishSteps ==
    ASSUME TypeOK, MachineInv, CallsInv, StdinInv, OutputInv, PassedInv, StepsInv,
           OutOfStepOnlyAfterAbandon, Return \/ Abandon \/ WaitFails
    PROVE  StepsInv'
<1>1. /\ UNCHANGED <<connected, issued, buffer, overlapped, stdin, loop>> /\ Output' = Output
      /\ waiting # <<>> /\ \A n \in Query : n # Head(waiting) => result'[n] = result[n]
  BY FinishKeeps DEF historyVars, streamVars, backendVars
<1>2. /\ Head(waiting) \in Query /\ Head(waiting) \in 1..issued
      /\ result[Head(waiting)].kind = "waiting"
  BY <1>1, HeadWaiting, QueryType DEF TypeOK
<1>3. 1..issued \subseteq Query
  BY QueryType DEF TypeOK
<1>4. Clean' => Clean
  <2> SUFFICES ASSUME Clean', NEW m \in 1..issued
               PROVE  result[m].kind # "abandoned" /\ m \notin overlapped
    BY DEF Clean
  <2>1. result'[m].kind # "abandoned" /\ m \notin overlapped
    BY <1>1 DEF Clean
  <2> QED
    BY <1>1, <1>2, <1>3, <2>1
<1> SUFFICES ASSUME Clean'
             PROVE  /\ stdin = <<>> /\ ~Live /\ NoPrompt(Len(buffer))
                    /\ \A i, j \in 1..Len(Output) : Output[i] = Prompt /\ Output[j] = Prompt => i = j
  BY <1>1 DEF StepsInv, NoPrompt, Live
<1>5. /\ \A i, j \in 1..Len(Output) : Output[i] = Prompt /\ Output[j] = Prompt => i = j
      /\ Live => stdin = <<>> /\ NoPrompt(0)
      /\ stdin # <<>> => Len(stdin) = 1 /\ ~Live /\ NoPrompt(0)
  BY <1>4 DEF StepsInv
<1>6. CASE Return
  <2>1. Len(buffer) \in 1..Len(Output) /\ Len(buffer) > 0 /\ Output[Len(buffer)] = Prompt
    <3>1. buffer \in Seq(Piece) /\ buffer # <<>> /\ buffer[Len(buffer)] = Prompt
      BY <1>6 DEF Return, WaitingP, TypeOK
    <3>2. Len(buffer) > 0
      BY <3>1, HeadTail
    <3> QED
      BY <3>1, <3>2, OutputType
  <2>2. ~NoPrompt(0) /\ NoPrompt(Len(buffer))
    BY <1>5, <2>1, OutputType DEF NoPrompt
  <2> QED
    BY <1>5, <2>2
<1>7. CASE Abandon
  <2>1. "abandoned" \in Kinds /\ 0 \in 0..MaxQuery /\ Finish("abandoned", 0)
    BY <1>7, QueryType DEF Kinds, Abandon
  <2>2. result'[Head(waiting)] = [kind |-> "abandoned", of |-> 0]
    BY <1>1, <2>1, FinishType
  <2>3. Head(waiting) \in 1..issued'
    BY <1>1, <1>2
  <2> QED
    BY <2>2, <2>3 DEF Clean
<1>8. CASE WaitFails
  <2>1. process = "reaped" /\ pipe = <<>> /\ buffer = <<>> /\ stdio = <<>> /\ stdin = <<>> /\ ~Live
    BY <1>8 DEF WaitFails, MachineInv, Live
  <2>2. Len(Output) = 0
    BY <2>1, OutputType
  <2> QED
    BY <1>5, <2>1, <2>2 DEF NoPrompt
<1> QED
  BY <1>6, <1>7, <1>8

-----------------------------------------------------------------------------
(***************************************************************************)
(* A call is made.                                                         *)
(***************************************************************************)

\* What the settled process leaves in front of the next query
LEMMA SettledOutput ==
    ASSUME TypeOK, MachineInv
    PROVE  /\ Settled <=> stdin = <<>> /\ ~Live /\ \A i \in 1..Len(pipe) : pipe[i] # Prompt
           /\ Settled /\ loop = "read" => Len(Output) = Len(buffer)
           /\ Settled => NoPrompt(Len(buffer))
<1>1. Settled <=> stdin = <<>> /\ ~Live /\ \A i \in 1..Len(pipe) : pipe[i] # Prompt
  BY DEF Settled, Live, TypeOK
<1>2. /\ Len(buffer) \in Nat /\ Len(pipe) \in Nat /\ Len(stdio) \in Nat
      /\ Len(Output) = Len(buffer) + Len(pipe) + Len(stdio)
      /\ \A i \in 1..Len(pipe) : Output[Len(buffer) + i] = pipe[i]
      /\ pipe \in Seq(Piece)
  BY OutputType DEF TypeOK
<1>3. Settled => stdio = <<>>
  BY DEF Settled, MachineInv
<1>4. Settled => Len(stdio) = 0
  BY <1>3
<1>5. ASSUME Settled, loop = "read" PROVE pipe = <<>>
  <2> SUFFICES ASSUME pipe # <<>> PROVE FALSE
    OBVIOUS
  <2>1. Len(pipe) \in 1..Len(pipe)
    BY <1>2, HeadTail
  <2> QED
    BY <1>5, <2>1 DEF Settled, MachineInv
<1>6. Settled /\ loop = "read" => Len(pipe) = 0
  BY <1>5
<1>7. ASSUME Settled, NEW j \in 1..Len(Output), j > Len(buffer) PROVE Output[j] # Prompt
  <2>1. /\ j - Len(buffer) \in 1..Len(pipe)
        /\ Len(buffer) + (j - Len(buffer)) = j
    BY <1>2, <1>4, <1>7
  <2>2. Output[j] = pipe[j - Len(buffer)]
    BY <1>2, <2>1
  <2> QED
    BY <1>7, <2>1, <2>2 DEF Settled
<1> QED
  BY <1>1, <1>2, <1>4, <1>6, <1>7 DEF NoPrompt

\* In a clean connection without a call the process has settled.
LEMMA CleanSettled ==
    ASSUME TypeOK, MachineInv, StepsInv, Clean, connected, waiting = <<>>
    PROVE  Settled
<1>1. stdin = <<>> /\ ~Live /\ NoPrompt(Len(buffer))
  BY DEF StepsInv
<1>2. \A i \in 1..Len(pipe) : pipe[i] # Prompt
  <2> SUFFICES ASSUME NEW i \in 1..Len(pipe), pipe[i] = Prompt PROVE FALSE
    OBVIOUS
  <2>1. Output[Len(buffer) + i] = Prompt
    BY OutputType
  <2>2. Len(buffer) + i \in 1..Len(Output) /\ Len(buffer) + i > Len(buffer)
    BY OutputType
  <2> QED
    BY <1>1, <2>1, <2>2 DEF NoPrompt
<1> QED
  BY <1>1, <1>2, SettledOutput

LEMMA CallSteps ==
    ASSUME TypeOK, TypeOK', MachineInv, CallsInv, StepsInv, OutOfStepOnlyAfterAbandon,
           Call \/ CallFails
    PROVE  StepsInv' /\ OutOfStepOnlyAfterAbandon'
<1> USE DEF emacsVars, historyVars, streamVars, backendVars
<1>1. /\ UNCHANGED <<connected, loop, pipe, stdio>> /\ buffer' = <<>> /\ issued' = issued + 1
      /\ issued + 1 \in Query /\ issued \in Nat /\ overlapped \subseteq overlapped' /\ connected
      /\ \A n \in Query : n # issued + 1 => result'[n] = result[n]
      /\ \A i \in 1..Len(waiting) : waiting[i] \in overlapped'
      /\ stdin' \in {stdin, Append(stdin, issued + 1)}
      /\ unsettled' \in {unsettled, unsettled \cup {issued + 1}}
      /\ Settled => unsettled' = unsettled
  BY CallType, CallFailsType, OverlapType DEF Call, CallFails, Clear, MayCall
<1>2. /\ Len(Output) \in Nat /\ Len(buffer) \in Nat /\ Len(Output') \in Nat /\ Len(buffer') = 0
      /\ stdin \in Seq(Query) /\ waiting \in Seq(Query)
  BY <1>1, OutputType, LenProperties, Concat3 DEF TypeOK, Output
<1>3. 1..issued \subseteq Query /\ \A m \in 1..issued : m \in 1..(issued + 1) /\ m # issued + 1
  BY <1>1, QueryType DEF TypeOK
<1>4. ASSUME waiting # <<>> PROVE \E m \in 1..issued : m \in overlapped'
  <2>1. waiting[1] \in 1..issued /\ 1 \in 1..Len(waiting)
    BY <1>4, HeadWaiting, QueryType
  <2> QED
    BY <1>1, <2>1
<1>5. Clean' => Clean /\ waiting = <<>>
  <2> SUFFICES ASSUME Clean' PROVE Clean /\ waiting = <<>>
    OBVIOUS
  <2>1. \A m \in 1..issued : result'[m].kind # "abandoned" /\ m \notin overlapped'
    BY <1>1, <1>3 DEF Clean
  <2> QED
    BY <1>1, <1>3, <1>4, <2>1 DEF Clean
<1>6. ASSUME Clean', Settled
      PROVE  /\ connected' /\ waiting' = <<>> => stdin' = <<>> /\ ~Live' /\ NoPrompt(Len(buffer))'
             /\ \A i, j \in 1..Len(Output') : Output'[i] = Prompt /\ Output'[j] = Prompt => i = j
             /\ Live' => stdin' = <<>> /\ NoPrompt(0)'
             /\ stdin' # <<>> => Len(stdin') = 1 /\ ~Live' /\ NoPrompt(0)'
  <2>1. stdin = <<>> /\ ~Live /\ NoPrompt(Len(buffer))
    BY <1>6, SettledOutput
  <2>2. ~Live'
    BY <1>1, <2>1 DEF Live
  <2>3. \A j \in 1..Len(Output') : Output'[j] # Prompt
    <3> SUFFICES ASSUME NEW j \in 1..Len(Output'), Output'[j] = Prompt PROVE FALSE
      OBVIOUS
    <3>1. Kept(Len(buffer))
      BY <1>1, ClearedOutput
    <3>2. j + Len(buffer) \in 1..Len(Output) /\ j + Len(buffer) > Len(buffer)
      BY <1>2, <3>1 DEF Kept
    <3> QED
      BY <2>1, <3>1, <3>2 DEF Kept, NoPrompt
  <2>4. stdin' = <<>> \/ Len(stdin') = 1
    BY <1>1, <1>2, <2>1, AppendProperties
  <2>5. waiting' = <<>> => stdin' = stdin
    BY CallType DEF CallFails
  <2> QED
    BY <2>1, <2>2, <2>3, <2>4, <2>5 DEF NoPrompt
<1>7. StepsInv'
  BY <1>1, <1>5, <1>6, CleanSettled DEF StepsInv
<1>8. ASSUME NEW n \in unsettled'
      PROVE  \E m \in 1..(n - 1) : result'[m].kind = "abandoned" \/ m \in overlapped'
  <2>1. CASE n \in unsettled
    <3>1. PICK m \in 1..(n - 1) : result[m].kind = "abandoned" \/ m \in overlapped
      BY <2>1 DEF OutOfStepOnlyAfterAbandon
    <3>2. n \in Query /\ n <= issued
      BY <1>1, <2>1, QueryType DEF CallsInv, TypeOK
    <3>3. m \in 1..issued
      BY <1>1, <3>2, QueryType
    <3> QED
      BY <1>1, <1>3, <3>1, <3>3
  <2>2. CASE n \notin unsettled
    <3>1. n = issued + 1 /\ ~Settled /\ n - 1 = issued
      BY <1>1, <1>8, <2>2
    <3>2. waiting # <<>> \/ ~Clean
      BY <1>1, <3>1, CleanSettled
    <3>3. CASE waiting # <<>>
      BY <1>4, <3>1, <3>3
    <3>4. CASE ~Clean
      <4>1. PICK m \in 1..issued : result[m].kind = "abandoned" \/ m \in overlapped
        BY <3>4 DEF Clean
      <4> QED
        BY <1>1, <1>3, <3>1, <4>1
    <3> QED
      BY <3>2, <3>3, <3>4
  <2> QED
    BY <2>1, <2>2
<1> QED
  BY <1>7, <1>8 DEF OutOfStepOnlyAfterAbandon

\* Nothing is answered by a call that begins, or by any step but the end of a
\* call: the new query is not, and the others keep their results.
LEMMA ResultsKept ==
    ASSUME TypeOK, CallsInv, AnswersInOrder, SettledReturnsOwnResult,
           \A n \in Query : Answered(n)' => Answered(n) /\ result'[n] = result[n],
           \A n \in Query : Answered(n)' /\ n \notin overlapped' => n \notin overlapped,
           \A n \in Query : Answered(n)' /\ n \notin unsettled' => n \notin unsettled
    PROVE  AnswersInOrder' /\ SettledReturnsOwnResult'
<1>1. AnswersInOrder'
  BY DEF AnswersInOrder
<1>2. SettledReturnsOwnResult'
  BY DEF SettledReturnsOwnResult
<1> QED
  BY <1>1, <1>2

LEMMA CallResults ==
    ASSUME TypeOK, TypeOK', MachineInv, CallsInv, AnswersInOrder, SettledReturnsOwnResult,
           Call \/ CallFails
    PROVE  AnswersInOrder' /\ SettledReturnsOwnResult'
<1>1. /\ overlapped \subseteq overlapped' /\ unsettled \subseteq unsettled'
      /\ \A n \in Query : n # issued + 1 => result'[n] = result[n]
      /\ result'[issued + 1].kind \in {"waiting", "lost"}
  BY CallType, CallFailsType, OverlapType DEF Call, CallFails
<1>2. \A n \in Query : Answered(n)' => Answered(n) /\ result'[n] = result[n]
  BY <1>1 DEF Answered
<1> QED
  BY <1>1, <1>2, ResultsKept

-----------------------------------------------------------------------------
(***************************************************************************)
(* The query that is asked and answered alone.                             *)
(***************************************************************************)

LEMMA BackendOwn ==
    ASSUME TypeOK, TypeOK', MachineInv, NEW n \in Query, Own(n), Backend \/ Overflow \/ Crash
    PROVE  Own(n)'
<1> USE DEF emacsVars, historyVars, streamVars, backendVars
<1>1. Len(Output) \in Nat /\ Len(Output') \in Nat /\ n # 0
  BY OutputType, LenProperties, Concat3, QueryType DEF TypeOK, Output
<1>2. CASE NextPrompt
  <2>1. Starts(n) /\ stdin = <<>> /\ stdin' = <<>> /\ loop' = "read" /\ Grown(Prompt)
    BY <1>2, BackendOutput DEF Own, NextPrompt, Goto, Live
  <2>2. Starts(n)'
    BY <1>1, <2>1 DEF Starts, Grown
  <2> QED
    BY <2>1, <2>2 DEF Own, Live
<1>3. CASE Read \/ ReadTooLong
  <2>1. /\ stdin = <<n>> /\ Len(Output) = 0 /\ current' = Head(stdin) /\ stdin' = Tail(stdin)
    BY <1>3 DEF Own, Read, ReadTooLong
  <2>2. current' = n /\ stdin' = <<>>
    BY <2>1
  <2>3. CASE Read
    <3>1. Kept(0) /\ loop' = "prepare"
      BY <2>3, BackendOutput DEF Read, Goto
    <3>2. Len(Output') = 0
      BY <1>1, <2>1, <3>1 DEF Kept
    <3> QED
      BY <2>2, <3>1, <3>2 DEF Own, Live
  <2>4. CASE ReadTooLong
    <3>1. Grown([kind |-> "error", of |-> n]) /\ loop' = "prompt"
      BY <2>1, <2>4, BackendOutput DEF ReadTooLong, Goto
    <3>2. Starts(n)'
      BY <1>1, <2>1, <3>1 DEF Starts, Grown
    <3> QED
      BY <2>2, <3>1, <3>2 DEF Own, Live
  <2> QED
    BY <1>3, <2>3, <2>4
<1>4. CASE PrepareFails \/ PrintRows
  <2>1. Len(Output) = 0 /\ current = n /\ stdin = <<>> /\ stdin' = <<>> /\ current' = current
    BY <1>4 DEF Own, PrepareFails, PrintRows, Live
  <2>2. /\ loop' \in {"prompt", "finalize"}
        /\ \/ Grown([kind |-> "error", of |-> n])
           \/ Grown([kind |-> "rows", of |-> n])
    BY <1>4, <2>1, BackendOutput DEF PrepareFails, PrintRows, Goto
  <2>3. Starts(n)'
    BY <1>1, <2>1, <2>2 DEF Starts, Grown
  <2> QED
    BY <2>1, <2>2, <2>3 DEF Own, Live
<1>5. CASE Finalize
  <2>1. /\ Starts(n) /\ current = n /\ stdin = <<>> /\ stdin' = <<>> /\ current' = current
        /\ loop' = "prompt" /\ \E p : Grown(p)
    BY <1>5, BackendOutput DEF Own, Finalize, Live, Goto
  <2>2. Starts(n)'
    BY <1>1, <2>1 DEF Starts, Grown
  <2> QED
    BY <2>1, <2>2 DEF Own, Live
<1>6. CASE ReadOutOfSync
  <2>1. loop' = "exit" /\ stdin' = <<>> /\ Grown([kind |-> "complaint", of |-> 0])
    BY <1>6, BackendOutput DEF ReadOutOfSync, Exit, Goto
  <2>2. ASSUME NEW i \in 1..Len(Output'), Output'[i] = Prompt PROVE Starts(n)'
    <3>1. i # Len(Output) + 1
      BY <2>1, <2>2 DEF Grown, Prompt
    <3>2. i \in 1..Len(Output) /\ Output[i] = Prompt
      BY <1>1, <2>1, <2>2, <3>1 DEF Grown
    <3>3. Starts(n)
      BY <3>2 DEF Own
    <3> QED
      BY <1>1, <2>1, <3>3 DEF Starts, Grown
  <2> QED
    BY <2>1, <2>2 DEF Own, Live
<1>7. CASE ReadEof \/ Crash
  <2>1. loop' = "exit" /\ stdin' = <<>> /\ Kept(0)
    BY <1>7, BackendOutput DEF ReadEof, Crash, Exit, Goto
  <2>2. ASSUME NEW i \in 1..Len(Output'), Output'[i] = Prompt PROVE Starts(n)'
    <3>1. i \in 1..Len(Output) /\ Output[i] = Prompt /\ 1 \in 1..Len(Output') /\ Output'[1] = Output[1]
      BY <1>1, <2>1, <2>2 DEF Kept
    <3>2. Starts(n)
      BY <3>1 DEF Own
    <3> QED
      BY <1>1, <3>1, <3>2 DEF Starts
  <2> QED
    BY <2>1, <2>2 DEF Own, Live
<1>8. CASE Overflow
  <2>1. Output' = Output /\ UNCHANGED <<loop, current, stdin>>
    BY <1>8, BackendOutput DEF Overflow
  <2> QED
    BY <2>1 DEF Own, Starts, Live
<1> QED
  BY <1>2, <1>3, <1>4, <1>5, <1>6, <1>7, <1>8 DEF Backend

LEMMA EventOwn ==
    ASSUME TypeOK, TypeOK', MachineInv, NEW n \in Query, Own(n),
           Connect \/ Receive \/ Sentinel \/ Close
    PROVE  Own(n)'
<1> USE DEF emacsVars, historyVars, streamVars, backendVars
<1>1. UNCHANGED <<loop, current, stdin>>
  BY DEF Connect, Receive, Sentinel, Close
<1>2. CASE Connect \/ Receive \/ Close
  <2>1. Output' = Output
    BY <1>2, ReceiveOutput DEF Connect, Close, Output
  <2> QED
    BY <1>1, <2>1 DEF Own, Starts, Live
<1>3. CASE Sentinel
  <2>1. pipe = <<>> /\ stdio = <<>> /\ stdin = <<>> /\ loop = "exit"
    BY <1>3 DEF Sentinel, MachineInv
  <2>2. buffer' = <<>> /\ pipe' = <<>> /\ stdio' = <<>>
    BY <1>3, <2>1 DEF Sentinel
  <2>3. Len(Output') = 0
    BY <2>2 DEF Output
  <2> QED
    BY <1>1, <2>1, <2>3 DEF Own, Live
<1> QED
  BY <1>2, <1>3

\* The invariant through steps in which no call begins or ends
LEMMA OwnKept ==
    ASSUME TypeOK, TypeOK', MachineInv, CallsInv, OwnInv,
           Backend \/ Overflow \/ Crash \/ Connect \/ Receive \/ Sentinel \/ Close
    PROVE  OwnInv' /\ UNCHANGED <<issued, waiting, result, unsettled, overlapped>>
<1>1. UNCHANGED <<issued, waiting, result, unsettled, overlapped>>
  BY DEF Backend, NextPrompt, Read, ReadTooLong, ReadOutOfSync, ReadEof, PrepareFails, PrintRows,
         Finalize, Overflow, Crash, Exit, Connect, Receive, Sentinel, Close,
         emacsVars, historyVars
<1>2. ASSUME Undisturbed, Head(waiting) \notin unsettled PROVE Own(Head(waiting))'
  <2>1. PICK n \in Query : n = Head(waiting)
    BY <1>2, HeadWaiting DEF Undisturbed
  <2>2. Own(n)
    BY <1>2, <2>1 DEF OwnInv
  <2>3. Own(n)'
    BY <2>2, BackendOwn, EventOwn
  <2>4. Head(waiting') = n
    BY <1>1, <2>1
  <2> QED
    BY <2>3, <2>4 DEF Own, Starts
<1> QED
  BY <1>1, <1>2 DEF OwnInv, Undisturbed

LEMMA CallOwn ==
    ASSUME TypeOK, TypeOK', MachineInv, CallsInv, Call, Head(waiting') \notin unsettled'
    PROVE  Own(Head(waiting))'
<1> USE DEF emacsVars, historyVars, streamVars, backendVars
<1>1. PICK n \in Query : n = issued + 1 /\ Head(waiting') = n
  BY CallType
<1>2. /\ Settled /\ UNCHANGED <<loop, pipe, stdio, current>> /\ buffer' = <<>>
      /\ stdin' = IF process = "run" /\ ~eof THEN Append(stdin, n) ELSE stdin
  BY <1>1 DEF Call, Clear
<1>3. stdin = <<>> /\ ~Live /\ NoPrompt(Len(buffer))
  BY <1>2, SettledOutput
<1>4. Kept(Len(buffer))
  BY <1>2, ClearedOutput
<1>5. Len(Output) \in Nat /\ Len(Output') \in Nat /\ Len(buffer) \in Nat
  BY OutputType, LenProperties, Concat3 DEF TypeOK, Output
<1>6. \A j \in 1..Len(Output') : Output'[j] # Prompt
  <2> SUFFICES ASSUME NEW j \in 1..Len(Output'), Output'[j] = Prompt PROVE FALSE
    OBVIOUS
  <2>1. j + Len(buffer) \in 1..Len(Output) /\ j + Len(buffer) > Len(buffer)
    BY <1>4, <1>5 DEF Kept
  <2> QED
    BY <1>3, <1>4, <2>1 DEF Kept, NoPrompt
<1>7. ~Live'
  BY <1>2, <1>3 DEF Live
<1>8. stdin' # <<>> => stdin' = <<n>> /\ Len(Output') = 0
  <2> SUFFICES ASSUME stdin' # <<>> PROVE stdin' = <<n>> /\ Len(Output') = 0
    OBVIOUS
  <2>1. process = "run" /\ stdin' = Append(<<>>, n)
    BY <1>2, <1>3
  <2>2. loop = "read"
    BY <1>3, <2>1 DEF Live, MachineInv, TypeOK
  <2>3. Len(Output) = Len(buffer)
    BY <1>2, <2>2, SettledOutput
  <2>4. Len(Output') = 0
    BY <1>4, <1>5, <2>3 DEF Kept
  <2> QED
    BY <2>1, <2>4
<1>9. Own(n)'
  BY <1>2, <1>6, <1>7, <1>8 DEF Own, Live
<1> QED
  BY <1>1, <1>9 DEF Own, Starts

-----------------------------------------------------------------------------
(***************************************************************************)
(* The invariant, and what follows from it.                                *)
(***************************************************************************)

LEMMA NextInv == EmacsqlInv /\ [Next]_vars => EmacsqlInv'
<1> SUFFICES ASSUME EmacsqlInv, [Next]_vars PROVE EmacsqlInv'
  OBVIOUS
<1>1. /\ TypeOK /\ MachineInv /\ CallsInv /\ StdinInv /\ OutputInv
      /\ PassedInv /\ AnswersInOrder
      /\ StepsInv /\ OutOfStepOnlyAfterAbandon
      /\ OwnInv /\ SettledReturnsOwnResult
  BY DEF EmacsqlInv
<1>2. CASE Backend \/ Overflow \/ Crash \/ Connect \/ Receive \/ Sentinel \/ Close
  <2>1. TypeOK'
    BY <1>1, <1>2, BackendType, EmacsType DEF Emacs
  <2>2. MachineInv'
    BY <1>1, <1>2, BackendMachine, EmacsMachine DEF Emacs
  <2>3. StdinInv' /\ OutputInv' /\ PassedInv'
    BY <1>1, <1>2, <2>1, BackendOrder, EventOrder
  <2>4. StepsInv'
    BY <1>1, <1>2, <2>1, BackendSteps, EventSteps
  <2>5. OwnInv' /\ UNCHANGED <<issued, waiting, result, unsettled, overlapped>>
    BY <1>1, <1>2, <2>1, OwnKept
  <2>6. CallsInv'
    <3>1. connected' = connected \/ connected'
      BY <1>2 DEF Backend, NextPrompt, Read, ReadTooLong, ReadOutOfSync, ReadEof, PrepareFails,
                  PrintRows, Finalize, Overflow, Crash, Exit, Connect, Receive, Sentinel, Close,
                  emacsVars
    <3> QED
      BY <1>1, <2>5, <3>1 DEF CallsInv
  <2>7. AnswersInOrder' /\ OutOfStepOnlyAfterAbandon' /\ SettledReturnsOwnResult'
    BY <1>1, <2>5 DEF AnswersInOrder, OutOfStepOnlyAfterAbandon, SettledReturnsOwnResult, Answered
  <2> QED
    BY <2>1, <2>2, <2>3, <2>4, <2>5, <2>6, <2>7 DEF EmacsqlInv
<1>3. CASE Call \/ CallFails
  <2>1. TypeOK'
    BY <1>1, <1>3, CallType, CallFailsType
  <2>2. MachineInv'
    BY <1>1, <1>3, EmacsMachine
  <2>3. CallsInv'
    BY <1>1, <1>3, CallCalls, CallFailsCalls
  <2>4. StdinInv' /\ OutputInv' /\ PassedInv'
    BY <1>1, <1>3, <2>1, CallOrder
  <2>5. StepsInv' /\ OutOfStepOnlyAfterAbandon'
    BY <1>1, <1>3, <2>1, CallSteps
  <2>6. AnswersInOrder' /\ SettledReturnsOwnResult'
    BY <1>1, <1>3, <2>1, CallResults
  <2>7. OwnInv'
    BY <1>1, <1>3, <2>1, CallOwn, CallFailsCalls DEF OwnInv
  <2> QED
    BY <2>1, <2>2, <2>3, <2>4, <2>5, <2>6, <2>7 DEF EmacsqlInv
<1>4. CASE Return \/ Abandon \/ WaitFails
  <2>1. TypeOK'
    BY <1>1, <1>4, EmacsType DEF Emacs
  <2>2. MachineInv'
    BY <1>1, <1>4, EmacsMachine DEF Emacs
  <2>3. /\ CallsInv' /\ StdinInv' /\ OutputInv' /\ OutOfStepOnlyAfterAbandon' /\ ~Undisturbed'
    BY <1>1, <1>4, FinishKeeps
  <2>4. PassedInv' /\ AnswersInOrder' /\ SettledReturnsOwnResult'
    BY <1>1, <1>4, <2>1, NoAnswerOrder, ReturnOrder
  <2>5. StepsInv'
    BY <1>1, <1>4, FinishSteps
  <2>6. OwnInv'
    BY <2>3 DEF OwnInv
  <2> QED
    BY <2>1, <2>2, <2>3, <2>4, <2>5, <2>6 DEF EmacsqlInv
<1>5. CASE UNCHANGED vars
  <2>1. /\ UNCHANGED <<connected, issued, waiting, buffer, result, unsettled, overlapped, process>>
        /\ UNCHANGED <<pipe, stdin, eof, skewed, loop, current, stdio>>
    BY <1>5 DEF vars, emacsVars, historyVars, streamVars, backendVars
  <2>2. TypeOK' /\ MachineInv' /\ CallsInv' /\ StdinInv'
    BY <1>1, <2>1 DEF TypeOK, MachineInv, CallsInv, StdinInv, Busy
  <2>3. Output' = Output
    BY <2>1 DEF Output
  <2>4. OutputInv' /\ PassedInv' /\ AnswersInOrder'
    BY <1>1, <2>1, <2>3
    DEF OutputInv, PassedInv, Passed, Busy, Undisturbed, AnswersInOrder, Answered
  <2>5. StepsInv' /\ OutOfStepOnlyAfterAbandon'
    BY <1>1, <2>1, <2>3 DEF StepsInv, Clean, NoPrompt, Live, OutOfStepOnlyAfterAbandon
  <2>6. OwnInv' /\ SettledReturnsOwnResult'
    BY <1>1, <2>1, <2>3
    DEF OwnInv, Own, Starts, Live, Undisturbed, SettledReturnsOwnResult, Answered
  <2> QED
    BY <2>2, <2>4, <2>5, <2>6 DEF EmacsqlInv
<1> QED
  BY <1>2, <1>3, <1>4, <1>5 DEF Next, Emacs, Environment

\* No step of Emacs, of emacsql.c or of the environment breaks the invariant.
THEOREM EmacsqlInvariant == Spec => []EmacsqlInv
BY InitEmacsql, NextInv, PTL DEF Spec

\* Whatever is sent, printed, read and given up, the streams hold pieces of
\* output and queries, and the calls results.
THEOREM EmacsqlTypes == Spec => []TypeOK
<1>1. EmacsqlInv => TypeOK
  BY DEF EmacsqlInv
<1> QED
  BY <1>1, EmacsqlInvariant, PTL

\* Calls get answers in the order of their queries, none the answer to a later
\* query, and no answer twice, however many calls are abandoned: clearing the
\* buffer before each query is enough for that.
THEOREM QueriesInOrder == Spec => []AnswersInOrder
<1>1. EmacsqlInv => AnswersInOrder
  BY DEF EmacsqlInv
<1> QED
  BY <1>1, EmacsqlInvariant, PTL

\* The process is behind with its answers only after a call that was abandoned
\* or had another made in its wait: emacsql.c prints one prompt a query, and
\* emacsql-wait waits for it.
THEOREM OutOfStepNeedsAbandon == Spec => []OutOfStepOnlyAfterAbandon
<1>1. EmacsqlInv => OutOfStepOnlyAfterAbandon
  BY DEF EmacsqlInv
<1> QED
  BY <1>1, EmacsqlInvariant, PTL

\* emacsql returns the answer to its own query when the process had answered
\* all earlier ones as it was sent and no other call is made in its wait.
THEOREM SettledOwn == Spec => []SettledReturnsOwnResult
<1>1. EmacsqlInv => SettledReturnsOwnResult
  BY DEF EmacsqlInv
<1> QED
  BY <1>1, EmacsqlInvariant, PTL

=============================================================================
