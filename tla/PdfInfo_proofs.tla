--------------------------- MODULE PdfInfo_proofs ---------------------------
(***************************************************************************)
(* Proofs about PdfInfo, for any number of queries and contents: types,    *)
(* that the transaction queue stays in step with the process, however      *)
(* queries are nested and however often the process is replaced, and that  *)
(* the buffer and its images show the document between commands.           *)
(***************************************************************************)
EXTENDS PdfInfo, SequenceTheorems, SeqLemmas, TLAPS

-----------------------------------------------------------------------------
(***************************************************************************)
(* The inductive invariant.                                                *)
(***************************************************************************)

\* An edit is the outermost task: nothing waits when one is started, and
\* another one of the same body takes its place.
EditIsBase == \A i \in 1..Len(stack) : stack[i].cmd = "editannot" => i = 1

\* InStep, place by place
StepInv ==
    IF proc = "run"
    THEN /\ Len(tq) = Len(out) + Len(inq)
         /\ \A i \in 1..Len(out) : tq[i].call = out[i].call
         /\ \A i \in 1..Len(inq) : tq[Len(out) + i].call = inq[i].call
    ELSE /\ Len(out) <= Len(tq)
         /\ \A i \in 1..Len(out) : tq[i].call = out[i].call

\* The answers to these commands tell of a content.
Carries(cmd) == cmd \in {"renderpage", "save"}

\* An answer that a task or a closure will use has what its command carries:
\* the numbers of the calls lead from the tasks to their commands and answers.
TaskInv(j) ==
    /\ stack[j].call <= calls
    /\ Carries(stack[j].cmd) /\ stack[j].answer.status = "ok" =>
          stack[j].answer.content \in Content
    /\ \A i \in 1..Len(inq) : inq[i].call = stack[j].call => inq[i].cmd = stack[j].cmd
    /\ \A i \in 1..Len(out) :
          /\ out[i].call = stack[j].call /\ Carries(stack[j].cmd)
          /\ out[i].answer.status = "ok"
          => out[i].answer.content \in Content

CarryInv ==
    /\ \A j \in 1..Len(stack) : TaskInv(j)
    /\ \A i \in 1..Len(inq) :
          /\ inq[i].call <= calls
          /\ tq[Len(out) + i].async => inq[i].cmd = "renderpage"
    /\ \A i \in 1..Len(out) :
          /\ out[i].call <= calls
          /\ tq[i].async /\ out[i].answer.status = "ok" => out[i].answer.content \in Content

PdfInv == TypeOK /\ EditIsBase /\ StepInv /\ CarryInv

-----------------------------------------------------------------------------

Queued == [call : Call, async : BOOLEAN]
Sent == [call : Call, cmd : Command]
Replied == [call : Call, answer : Answer]

LEMMA Bounds ==
    /\ MaxCall \in Nat /\ MaxContent \in Nat /\ MaxContent >= 1
    /\ NoAnswer \in Answer /\ Error \in Answer
    /\ \A c \in 0..MaxContent : Ok(c) \in Answer
    /\ Content \subseteq 0..MaxContent
BY PdfAssumption DEF NoAnswer, Error, Ok, Answer, Content

LEMMA Numbers ==
    ASSUME TypeOK
    PROVE  /\ calls \in Nat
           /\ \A i \in 1..Len(inq) : inq[i] \in Sent /\ inq[i].call \in Nat
           /\ \A i \in 1..Len(out) : /\ out[i] \in Replied /\ out[i].call \in Nat
                                    /\ out[i].answer \in Answer
           /\ \A i \in 1..Len(tq) : tq[i] \in Queued
           /\ \A j \in 1..Len(stack) : stack[j] \in Frame /\ stack[j].call \in Nat
<1>1. Call \subseteq Nat /\ calls \in Nat
  BY DEF Call, TypeOK
<1>2. inq \in Seq(Sent) /\ out \in Seq(Replied) /\ tq \in Seq(Queued) /\ stack \in Seq(Frame)
  BY DEF TypeOK, Sent, Replied, Queued
<1>3. /\ \A i \in 1..Len(inq) : inq[i] \in Sent
      /\ \A i \in 1..Len(out) : out[i] \in Replied
      /\ \A i \in 1..Len(tq) : tq[i] \in Queued
      /\ \A j \in 1..Len(stack) : stack[j] \in Frame
  BY <1>2
<1> QED
  BY <1>1, <1>3 DEF Sent, Replied, Frame

\* What a query does with the queue and the pipes
LEMMA QueryInv ==
    ASSUME PdfInv, NEW cmd \in Command, NEW async \in BOOLEAN, Query(cmd, async)
    PROVE  /\ calls + 1 \in Call /\ calls' \in 0..MaxCall /\ proc' = "run"
           /\ tq' \in Seq(Queued) /\ inq' \in Seq(Sent) /\ out' \in Seq(Replied)
           /\ StepInv'
<1>1. /\ tq \in Seq(Queued) /\ inq \in Seq(Sent) /\ out \in Seq(Replied)
      /\ calls \in 0..MaxCall /\ (proc # "run" => inq = <<>>)
  BY DEF PdfInv, TypeOK, Queued, Sent, Replied
<1>2. calls + 1 \in Call /\ calls' \in 0..MaxCall
  BY <1>1, Bounds DEF Query, Call
<1> DEFINE q == [call |-> calls + 1, async |-> async]
           s == [call |-> calls + 1, cmd |-> cmd]
<1>3. q \in Queued /\ s \in Sent
  BY <1>2 DEF Queued, Sent
<1>4. tq' = Append(Restarted(tq), q) /\ inq' = Append(inq, s) /\ out' = Restarted(out)
      /\ proc' = "run"
  BY DEF Query
<1>5. q.call = s.call
  OBVIOUS
<1> HIDE DEF q, s
<1>6. CASE proc = "run"
  <2>1. tq' = Append(tq, q) /\ out' = out
    BY <1>4, <1>6 DEF Restarted
  <2>2. /\ Len(tq) = Len(out) + Len(inq)
        /\ \A i \in 1..Len(out) : tq[i].call = out[i].call
        /\ \A i \in 1..Len(inq) : tq[Len(out) + i].call = inq[i].call
    BY <1>6 DEF PdfInv, StepInv
  <2>3. /\ Len(tq') = Len(tq) + 1 /\ tq'[Len(tq) + 1] = q
        /\ \A i \in 1..Len(tq) : tq'[i] = tq[i]
        /\ Len(inq') = Len(inq) + 1 /\ inq'[Len(inq) + 1] = s
        /\ \A i \in 1..Len(inq) : inq'[i] = inq[i]
        /\ Len(tq) \in Nat /\ Len(inq) \in Nat /\ Len(out) \in Nat
    BY <1>1, <1>3, <1>4, <2>1
  <2>4. \A i \in 1..Len(out') : tq'[i].call = out'[i].call
    BY <2>1, <2>2, <2>3
  <2>5. ASSUME NEW i \in 1..Len(inq') PROVE tq'[Len(out') + i].call = inq'[i].call
    <3>1. CASE i = Len(inq) + 1
      BY <1>5, <2>1, <2>2, <2>3, <3>1
    <3>2. CASE i \in 1..Len(inq)
      <4>1. Len(out) + i \in 1..Len(tq)
        BY <2>2, <2>3, <3>2
      <4> QED
        BY <2>1, <2>2, <2>3, <3>2, <4>1
    <3> QED
      BY <2>3, <3>1, <3>2
  <2>6. StepInv'
    BY <1>4, <2>1, <2>2, <2>3, <2>4, <2>5 DEF StepInv
  <2>7. tq' \in Seq(Queued) /\ inq' \in Seq(Sent) /\ out' \in Seq(Replied)
    BY <1>1, <1>3, <1>4, <2>1
  <2> QED
    BY <1>2, <1>4, <2>6, <2>7
<1>7. CASE proc # "run"
  <2>1. tq' = Append(<<>>, q) /\ out' = <<>> /\ inq' = Append(<<>>, s)
    BY <1>1, <1>4, <1>7 DEF Restarted
  <2>2. /\ Len(tq') = 1 /\ tq'[1] = q /\ Len(inq') = 1 /\ inq'[1] = s /\ Len(out') = 0
        /\ tq' \in Seq(Queued) /\ inq' \in Seq(Sent) /\ out' \in Seq(Replied)
    BY <1>3, <2>1
  <2>3. StepInv'
    BY <1>4, <1>5, <2>2 DEF StepInv
  <2> QED
    BY <1>2, <1>4, <2>2, <2>3
<1> QED
  BY <1>6, <1>7

LEMMA NoRestartInv ==
    ASSUME PdfInv, NoRestart
    PROVE  /\ calls' \in 0..MaxCall /\ proc' = "none"
           /\ tq' \in Seq(Queued) /\ inq' = <<>> /\ out' \in Seq(Replied)
           /\ StepInv'
<1>1. /\ tq' = <<>> /\ out' = <<>> /\ inq' = <<>> /\ proc' = "none" /\ calls' = calls
  BY DEF NoRestart, PdfInv, TypeOK
<1>2. StepInv'
  BY <1>1 DEF StepInv
<1> QED
  BY <1>1, <1>2 DEF PdfInv, TypeOK

-----------------------------------------------------------------------------
(***************************************************************************)
(* The parts of the invariant.                                             *)
(***************************************************************************)

PipesOK ==
    /\ calls \in 0..MaxCall
    /\ proc \in {"new", "run", "dead", "none"}
    /\ tq \in Seq(Queued) /\ inq \in Seq(Sent) /\ out \in Seq(Replied)
    /\ proc # "run" => inq = <<>>
    /\ StepInv

StackOK ==
    /\ stack \in Seq(Frame)
    /\ delayed => stack # <<>> /\ stack[1].cmd = "editannot"
    /\ EditIsBase

FlagsOK ==
    /\ modified \in BOOLEAN /\ delayed \in BOOLEAN /\ calm \in BOOLEAN
    /\ cache \subseteq Content

FilesOK ==
    /\ disk \in Content /\ made \in Content /\ touched \in BOOLEAN
    /\ doc \in 0..MaxContent
    /\ proc # "run" => doc = 0

LEMMA Parts == PdfInv <=> PipesOK /\ StackOK /\ FlagsOK /\ FilesOK /\ CarryInv
BY DEF PdfInv, TypeOK, PipesOK, StackOK, FlagsOK, FilesOK, Queued, Sent, Replied, Idle

LEMMA QueryPipes ==
    ASSUME PdfInv, NEW cmd \in Command, NEW async \in BOOLEAN, Query(cmd, async)
    PROVE  PipesOK' /\ calls + 1 \in Call /\ proc' = "run"
BY QueryInv DEF PipesOK

LEMMA NoRestartPipes ==
    ASSUME PdfInv, NoRestart PROVE PipesOK' /\ (FilesOK => doc = 0)
<1>1. PipesOK'
  BY NoRestartInv, EmptySeq DEF PipesOK
<1>2. FilesOK => doc = 0
  BY DEF NoRestart, FilesOK
<1> QED
  BY <1>1, <1>2

LEMMA PipesStay == ASSUME PdfInv, UNCHANGED pipeVars PROVE PipesOK' /\ proc' = proc
<1>1. PipesOK
  BY Parts
<1> QED
  BY <1>1 DEF PipesOK, StepInv, pipeVars

LEMMA WaitingType ==
    ASSUME calls + 1 \in Call, NEW cmd \in Command, NEW saving \in BOOLEAN
    PROVE  Waiting(cmd, saving) \in Frame /\ Waiting(cmd, saving).cmd = cmd
BY Bounds DEF Waiting, Frame

\* A task is pushed, in front of the others or in the place of the top.
LEMMA Push ==
    ASSUME StackOK, NEW f \in Frame, stack' = Append(stack, f), delayed' = delayed,
           f.cmd = "editannot" => stack = <<>>
    PROVE  StackOK'
<1>1. /\ stack' \in Seq(Frame) /\ Len(stack') = Len(stack) + 1 /\ Len(stack) \in Nat
      /\ stack'[Len(stack) + 1] = f /\ \A i \in 1..Len(stack) : stack'[i] = stack[i]
  BY DEF StackOK
<1>2. delayed' => stack' # <<>> /\ stack'[1].cmd = "editannot"
  BY <1>1 DEF StackOK
<1>3. EditIsBase'
  <2> SUFFICES ASSUME NEW i \in 1..Len(stack'), stack'[i].cmd = "editannot" PROVE i = 1
    BY DEF EditIsBase
  <2>1. CASE i \in 1..Len(stack)
    BY <1>1, <2>1 DEF StackOK, EditIsBase
  <2>2. CASE i = Len(stack) + 1
    <3>1. stack = <<>>
      BY <1>1, <2>2
    <3>2. Len(stack) = 0
      BY <3>1
    <3> QED
      BY <2>2, <3>2
  <2> QED
    BY <1>1, <2>1, <2>2
<1> QED
  BY <1>1, <1>2, <1>3 DEF StackOK

LEMMA BelowStack ==
    ASSUME StackOK, stack # <<>>
    PROVE  /\ Below \in Seq(Frame) /\ Len(Below) = Len(stack) - 1
           /\ Len(stack) \in Nat \ {0} /\ Top = stack[Len(stack)] /\ Top \in Frame
           /\ \A i \in 1..Len(Below) : Below[i] = stack[i]
           /\ Top.cmd = "editannot" => Len(stack) = 1
           /\ Len(Below) = 0 <=> Below = <<>>
<1>1. stack \in Seq(Frame) /\ Len(stack) \in Nat \ {0}
  BY EmptySeq, LenProperties DEF StackOK
<1>2. Below \in Seq(Frame) /\ Len(Below) = Len(stack) - 1
  <2>1. \A i \in 1..(Len(stack) - 1) : stack[i] \in Frame
    BY <1>1
  <2>2. 1 \in Int /\ Len(stack) - 1 \in Int
    BY <1>1
  <2>3. /\ Below \in Seq(Frame)
        /\ Len(Below) = IF 1 <= Len(stack) - 1 THEN (Len(stack) - 1) - 1 + 1 ELSE 0
    <3>1. /\ SubSeq(stack, 1, Len(stack) - 1) \in Seq(Frame)
          /\ Len(SubSeq(stack, 1, Len(stack) - 1)) =
                IF 1 <= Len(stack) - 1 THEN (Len(stack) - 1) - 1 + 1 ELSE 0
      BY ONLY <2>1, <2>2, SubSeqProperties
    <3> QED
      BY ONLY Zenon, <3>1 DEF Below
  <2>4. \A n \in Nat \ {0} : (IF 1 <= n - 1 THEN (n - 1) - 1 + 1 ELSE 0) = n - 1
    BY ONLY SMT
  <2>5. (IF 1 <= Len(stack) - 1 THEN (Len(stack) - 1) - 1 + 1 ELSE 0) = Len(stack) - 1
    BY ONLY <1>1, <2>4
  <2> QED
    BY ONLY <2>3, <2>5
<1>3. \A i \in 1..Len(Below) : Below[i] = stack[i]
  <2>1. ASSUME NEW i \in 1..Len(Below) PROVE Below[i] = stack[i]
    <3>1. \A k \in 1..(Len(stack) - 1) : stack[k] \in Frame
      BY <1>1
    <3>2. i \in 1..((Len(stack) - 1) - 1 + 1) /\ 1 + i - 1 = i
      BY <1>1, <1>2, <2>1
    <3>3. 1 \in Int /\ Len(stack) - 1 \in Int
      BY <1>1
    <3>4. SubSeq(stack, 1, Len(stack) - 1)[i] = stack[1 + i - 1]
      BY ONLY <3>1, <3>2, <3>3, SubSeqProperties
    <3> QED
      BY <3>2, <3>4 DEF Below
  <2> QED
    BY <2>1
<1>4. Top = stack[Len(stack)] /\ Top \in Frame
  BY <1>1 DEF Top
<1>5. Top.cmd = "editannot" => Len(stack) = 1
  <2>1. Len(stack) \in 1..Len(stack)
    BY <1>1
  <2> QED
    BY <1>4, <2>1 DEF StackOK, EditIsBase
<1>6. Len(Below) = 0 <=> Below = <<>>
  BY <1>2, EmptySeq, LenProperties
<1> QED
  BY <1>1, <1>2, <1>3, <1>4, <1>5, <1>6

LEMMA Pop ==
    ASSUME StackOK, stack # <<>>, stack' = Below,
           delayed' => delayed /\ Top.cmd # "editannot"
    PROVE  StackOK'
<1>1. /\ Below \in Seq(Frame) /\ Len(Below) = Len(stack) - 1
      /\ Len(stack) \in Nat \ {0} /\ Top = stack[Len(stack)]
      /\ \A i \in 1..Len(Below) : Below[i] = stack[i]
  BY BelowStack
<1>2. ASSUME delayed' PROVE Below # <<>> /\ Below[1].cmd = "editannot"
  <2>1. stack[1].cmd = "editannot" /\ Top.cmd # "editannot"
    BY <1>2 DEF StackOK
  <2>2. Len(stack) # 1
    BY <1>1, <2>1
  <2>3. Len(Below) >= 1
    BY <1>1, <2>2
  <2> QED
    BY <1>1, <2>1, <2>3, EmptySeq
<1>3. EditIsBase'
  BY <1>1 DEF StackOK, EditIsBase
<1> QED
  BY <1>1, <1>2, <1>3 DEF StackOK

LEMMA Replace ==
    ASSUME StackOK, stack # <<>>, NEW f \in Frame, stack' = Append(Below, f),
           f.cmd = "editannot" <=> Top.cmd = "editannot",
           delayed' => delayed \/ f.cmd = "editannot"
    PROVE  StackOK'
<1>1. /\ Below \in Seq(Frame) /\ Len(Below) = Len(stack) - 1
      /\ Len(stack) \in Nat \ {0} /\ Top = stack[Len(stack)]
      /\ \A i \in 1..Len(Below) : Below[i] = stack[i]
      /\ Top.cmd = "editannot" => Len(stack) = 1
  BY BelowStack
<1>2. /\ stack' \in Seq(Frame) /\ Len(stack') = Len(stack)
      /\ stack'[Len(stack)] = f
      /\ \A i \in 1..Len(stack) : i < Len(stack) => stack'[i] = stack[i]
  BY <1>1
<1>3. EditIsBase'
  <2> SUFFICES ASSUME NEW i \in 1..Len(stack'), stack'[i].cmd = "editannot" PROVE i = 1
    BY DEF EditIsBase
  <2>1. CASE i = Len(stack)
    BY <1>1, <1>2, <2>1
  <2>2. CASE i < Len(stack)
    BY <1>1, <1>2, <2>2 DEF StackOK, EditIsBase
  <2> QED
    BY <1>1, <1>2, <2>1, <2>2
<1>4. ASSUME delayed' PROVE stack' # <<>> /\ stack'[1].cmd = "editannot"
  <2>1. stack' # <<>>
    BY <1>1, <1>2, EmptySeq
  <2>2. CASE f.cmd = "editannot"
    BY <1>1, <1>2, <2>2
  <2>3. CASE f.cmd # "editannot"
    <3>1. stack[1].cmd = "editannot"
      BY <1>4, <2>3 DEF StackOK
    <3>2. Len(stack) # 1
      BY <1>1, <2>3, <3>1
    <3> QED
      BY <1>1, <1>2, <2>1, <3>1, <3>2
  <2> QED
    BY <2>1, <2>2, <2>3
<1> QED
  BY <1>2, <1>3, <1>4 DEF StackOK

-----------------------------------------------------------------------------
(***************************************************************************)
(* What the answers carry.                                                 *)
(***************************************************************************)

LEMMA CarryQuery ==
    ASSUME PdfInv, NEW cmd \in Command, NEW async \in BOOLEAN, Query(cmd, async),
           async => cmd = "renderpage",
           \A j \in 1..Len(stack') :
               \/ \E k \in 1..Len(stack) : stack'[j] = stack[k]
               \/ \E saving \in BOOLEAN : stack'[j] = Waiting(cmd, saving)
    PROVE  CarryInv'
<1>1. /\ tq \in Seq(Queued) /\ inq \in Seq(Sent) /\ out \in Seq(Replied)
      /\ calls \in Nat /\ (proc # "run" => inq = <<>>)
      /\ Len(tq) \in Nat /\ Len(inq) \in Nat /\ Len(out) \in Nat
  BY DEF PdfInv, TypeOK, Queued, Sent, Replied
<1>2. CarryInv /\ StepInv
  BY DEF PdfInv
<1>2a. /\ \A i \in 1..Len(inq) : inq[i].call \in Nat
       /\ \A i \in 1..Len(out) : out[i].call \in Nat
       /\ \A j \in 1..Len(stack) : stack[j].call \in Nat
  BY Numbers DEF PdfInv
<1> DEFINE q == [call |-> calls + 1, async |-> async]
           s == [call |-> calls + 1, cmd |-> cmd]
<1>3. /\ tq' = Append(Restarted(tq), q) /\ inq' = Append(inq, s) /\ out' = Restarted(out)
      /\ calls' = calls + 1
  BY DEF Query
<1>3a. calls \in Nat /\ calls' = calls + 1
  BY <1>1, <1>3
<1>4. calls + 1 \in Call /\ q \in Queued /\ s \in Sent
  BY QueryInv DEF Queued, Sent
<1>5. q.async = async /\ s.call = calls + 1 /\ s.cmd = cmd
  OBVIOUS
<1> HIDE DEF q, s
<1>6. /\ Len(inq') = Len(inq) + 1 /\ inq'[Len(inq) + 1] = s
      /\ \A i \in 1..Len(inq) : inq'[i] = inq[i]
  BY <1>1, <1>3, <1>4
<1>7. \A i \in 1..Len(inq') : i \in 1..Len(inq) \/ i = Len(inq) + 1
  BY <1>1, <1>6
<1>8. \A i \in 1..Len(out') : i \in 1..Len(out) /\ out'[i] = out[i] /\ tq'[i] = tq[i]
  <2>1. CASE proc = "run"
    <3>1. out' = out /\ tq' = Append(tq, q)
      BY <1>3, <2>1 DEF Restarted
    <3>2. Len(tq) = Len(out) + Len(inq)
      BY <1>2, <2>1 DEF StepInv
    <3> QED
      BY <1>1, <1>4, <3>1, <3>2
  <2>2. CASE proc # "run"
    BY <1>3, <2>2, EmptySeq DEF Restarted
  <2> QED
    BY <2>1, <2>2
<1>9. ASSUME NEW i \in 1..Len(inq')
      PROVE  /\ inq'[i].call <= calls'
             /\ tq'[Len(out') + i].async => inq'[i].cmd = "renderpage"
  <2>1. CASE i \in 1..Len(inq)
    <3>1. proc = "run"
      BY <1>1, <2>1, EmptySeq
    <3>2. out' = out /\ tq' = Append(tq, q) /\ Len(tq) = Len(out) + Len(inq)
      BY <1>2, <1>3, <3>1 DEF Restarted, StepInv
    <3>3. Len(out) + i \in 1..Len(tq)
      BY <1>1, <2>1, <3>2
    <3>4. tq'[Len(out) + i] = tq[Len(out) + i]
      BY <1>1, <1>4, <3>2, <3>3
    <3>5. inq[i].call <= calls /\ inq[i].call \in Nat
      BY <1>2, <1>2a, <2>1 DEF CarryInv
    <3>6. inq'[i] = inq[i] /\ inq'[i].call <= calls'
      BY <1>3a, <1>6, <2>1, <3>5
    <3>7. tq'[Len(out') + i] = tq[Len(out) + i]
      BY <3>2, <3>4
    <3>8. tq[Len(out) + i].async => inq[i].cmd = "renderpage"
      BY <1>2, <2>1 DEF CarryInv
    <3> QED
      BY <3>6, <3>7, <3>8
  <2>2. CASE i = Len(inq) + 1
    <3>1. tq'[Len(out') + i] = q
      <4>1. CASE proc = "run"
        <5>1. out' = out /\ tq' = Append(tq, q) /\ Len(tq) = Len(out) + Len(inq)
          BY <1>2, <1>3, <4>1 DEF Restarted, StepInv
        <5>2. Len(out') + i = Len(tq) + 1
          BY <1>1, <2>2, <5>1
        <5>3. tq \in Seq(Queued) /\ q \in Queued
          BY <1>1, <1>4
        <5>4. Append(tq, q)[Len(tq) + 1] = q
          BY ONLY <5>3, AppendProperties
        <5> QED
          BY <5>1, <5>2, <5>4
      <4>2. CASE proc # "run"
        <5>1. out' = <<>> /\ tq' = Append(<<>>, q) /\ Len(inq) = 0
          BY <1>1, <1>3, <4>2 DEF Restarted
        <5>2. Len(out') + i = 1
          BY <2>2, <5>1
        <5> QED
          BY <1>4, <5>1, <5>2
      <4> QED
        BY <4>1, <4>2
    <3> QED
      BY <1>1, <1>3, <1>5, <1>6, <2>2, <3>1
  <2> QED
    BY <1>7, <2>1, <2>2
<1>10. ASSUME NEW i \in 1..Len(out')
       PROVE  /\ out'[i].call <= calls'
              /\ tq'[i].async /\ out'[i].answer.status = "ok" => out'[i].answer.content \in Content
  <2>1. out[i].call <= calls /\ out[i].call \in Nat
    BY <1>2, <1>8, <1>2a DEF CarryInv
  <2>2. out'[i].call <= calls'
    BY <1>3a, <1>8, <2>1
  <2>3. tq[i].async /\ out[i].answer.status = "ok" => out[i].answer.content \in Content
    BY <1>2, <1>8 DEF CarryInv
  <2> QED
    BY <1>8, <2>2, <2>3
<1>11. ASSUME NEW j \in 1..Len(stack') PROVE TaskInv(j)'
  <2>1. CASE \E k \in 1..Len(stack) : stack'[j] = stack[k]
    <3>1. PICK k \in 1..Len(stack) : stack'[j] = stack[k]
      BY <2>1
    <3>2. TaskInv(k) /\ stack[k].call \in Nat /\ stack[k].call <= calls
      BY <1>2, <1>2a DEF CarryInv, TaskInv
    <3>3. \A i \in 1..Len(inq') : inq'[i].call = stack[k].call => inq'[i].cmd = stack[k].cmd
      <4>1. \A i \in 1..Len(inq) : inq[i].call = stack[k].call => inq[i].cmd = stack[k].cmd
        BY <3>2 DEF TaskInv
      <4>2. stack[k].call # s.call
        BY <1>3a, <1>5, <3>2
      <4> QED
        BY <1>6, <1>7, <4>1, <4>2
    <3>4. stack[k].call <= calls'
      BY <1>3a, <3>2
    <3>5. \A i \in 1..Len(out') :
             /\ out'[i].call = stack[k].call /\ Carries(stack[k].cmd)
             /\ out'[i].answer.status = "ok"
             => out'[i].answer.content \in Content
      BY <1>8, <3>2 DEF TaskInv
    <3>6. Carries(stack[k].cmd) /\ stack[k].answer.status = "ok" =>
             stack[k].answer.content \in Content
      BY <3>2 DEF TaskInv
    <3> QED
      BY <3>1, <3>3, <3>4, <3>5, <3>6 DEF TaskInv
  <2>2. CASE \E saving \in BOOLEAN : stack'[j] = Waiting(cmd, saving)
    <3>1. /\ stack'[j].call = calls + 1 /\ stack'[j].cmd = cmd
          /\ stack'[j].answer.status = "none"
      BY <2>2 DEF Waiting, NoAnswer
    <3>2. \A i \in 1..Len(inq) : inq[i].call # calls + 1
      <4>1. \A i \in 1..Len(inq) : inq[i].call <= calls /\ inq[i].call \in Nat
        BY <1>2, <1>2a DEF CarryInv
      <4> QED
        BY <1>1, <4>1
    <3>3. \A i \in 1..Len(out) : out[i].call # calls + 1
      <4>1. \A i \in 1..Len(out) : out[i].call <= calls /\ out[i].call \in Nat
        BY <1>2, <1>2a DEF CarryInv
      <4> QED
        BY <1>1, <4>1
    <3>4. \A i \in 1..Len(inq') : inq'[i].call = calls + 1 => inq'[i].cmd = cmd
      BY <1>5, <1>6, <1>7, <3>2
    <3> QED
      BY <1>1, <1>3, <1>8, <3>1, <3>3, <3>4 DEF TaskInv
  <2> QED
    BY <2>1, <2>2
<1> QED
  BY <1>9, <1>10, <1>11 DEF CarryInv

\* Nothing is sent, tasks may have ended, the pipes may have been dropped.
LEMMA CarryLess ==
    ASSUME CarryInv, calls' = calls, tq' = tq \/ out' = <<>>,
           out' = out \/ out' = <<>>, inq' = <<>> \/ (inq' = inq /\ out' = out /\ tq' = tq),
           \A j \in 1..Len(stack') : \E k \in 1..Len(stack) : stack'[j] = stack[k]
    PROVE  CarryInv'
<1>1. \A i \in 1..Len(inq') : i \in 1..Len(inq) /\ inq' = inq /\ out' = out /\ tq' = tq
  BY EmptySeq
<1>2. \A i \in 1..Len(out') : i \in 1..Len(out) /\ out' = out /\ tq' = tq
  BY EmptySeq
<1>3. ASSUME NEW j \in 1..Len(stack') PROVE TaskInv(j)'
  <2>1. PICK k \in 1..Len(stack) : stack'[j] = stack[k]
    OBVIOUS
  <2>2. TaskInv(k)
    BY DEF CarryInv
  <2> QED
    BY <1>1, <1>2, <2>1, <2>2 DEF TaskInv
<1> QED
  BY <1>1, <1>2, <1>3 DEF CarryInv

-----------------------------------------------------------------------------
(***************************************************************************)
(* The filter and the process.                                             *)
(***************************************************************************)

LEMMA ReceiveInv == ASSUME PdfInv, Receive PROVE PdfInv'
<1>1. PipesOK /\ StackOK /\ FlagsOK /\ FilesOK /\ CarryInv
  BY Parts
<1>2. /\ tq' = Tail(tq) /\ out' = Tail(out)
      /\ UNCHANGED <<modified, delayed, calls, proc, inq, fileVars, doc, calm>>
      /\ tq # <<>> /\ out # <<>>
  BY DEF Receive, Popped
<1>3. tq \in Seq(Queued) /\ out \in Seq(Replied) /\ inq \in Seq(Sent)
  BY <1>1 DEF PipesOK
<1>4. /\ Len(tq) \in Nat /\ Len(tq) >= 1 /\ Head(tq) = tq[1] /\ tq' \in Seq(Queued)
      /\ Len(tq') = Len(tq) - 1 /\ \A i \in 1..Len(tq') : tq'[i] = tq[i + 1]
  BY <1>2, <1>3, HeadTail
<1>5. /\ Len(out) \in Nat /\ Len(out) >= 1 /\ Head(out) = out[1] /\ out' \in Seq(Replied)
      /\ Len(out') = Len(out) - 1 /\ \A i \in 1..Len(out') : out'[i] = out[i + 1]
  BY <1>2, <1>3, HeadTail
<1>6. 1 \in 1..Len(out) /\ 1 \in 1..Len(tq) /\ Len(inq) \in Nat
  BY <1>3, <1>4, <1>5
<1>7. tq[1].call = out[1].call
  BY <1>1, <1>6 DEF PipesOK, StepInv
<1>8. out[1].answer \in Answer /\ tq[1] \in Queued /\ tq[1].async \in BOOLEAN
  BY <1>6, Numbers DEF PdfInv, Queued
<1>9. StepInv'
  <2>1. CASE proc = "run"
    <3>1. /\ Len(tq) = Len(out) + Len(inq)
          /\ \A i \in 1..Len(out) : tq[i].call = out[i].call
          /\ \A i \in 1..Len(inq) : tq[Len(out) + i].call = inq[i].call
      BY <1>1, <2>1 DEF PipesOK, StepInv
    <3>2. \A i \in 1..Len(out') : i + 1 \in 1..Len(out) /\ i \in 1..Len(tq')
      BY <1>4, <1>5, <1>6, <3>1
    <3>3. \A i \in 1..Len(inq) : Len(out') + i \in 1..Len(tq') /\ Len(out') + i + 1 = Len(out) + i
      BY <1>4, <1>5, <1>6, <3>1
    <3>4. \A i \in 1..Len(out') : tq'[i].call = out'[i].call
      BY <1>4, <1>5, <3>1, <3>2
    <3>5. \A i \in 1..Len(inq) : tq'[Len(out') + i].call = inq[i].call
      BY <1>4, <3>1, <3>3
    <3>6. Len(tq') = Len(out') + Len(inq)
      BY <1>4, <1>5, <1>6, <3>1
    <3>7. proc' = "run" /\ inq' = inq
      BY <1>2, <2>1
    <3> QED
      BY <3>4, <3>5, <3>6, <3>7 DEF StepInv
  <2>2. CASE proc # "run"
    <3>1. /\ Len(out) <= Len(tq)
          /\ \A i \in 1..Len(out) : tq[i].call = out[i].call
      BY <1>1, <2>2 DEF PipesOK, StepInv
    <3>2. \A i \in 1..Len(out') : i + 1 \in 1..Len(out) /\ i \in 1..Len(tq')
      BY <1>4, <1>5, <1>6, <3>1
    <3>3. \A i \in 1..Len(out') : tq'[i].call = out'[i].call
      BY <1>4, <1>5, <3>1, <3>2
    <3> QED
      BY <1>2, <1>4, <1>5, <2>2, <3>1, <3>3 DEF StepInv
  <2> QED
    BY <2>1, <2>2
<1>10. PipesOK'
  BY <1>1, <1>2, <1>4, <1>5, <1>9 DEF PipesOK
<1>11. FilesOK'
  BY <1>1, <1>2 DEF FilesOK, fileVars
<1>12. FlagsOK'
  <2>1. cache' \subseteq Content
    <3>1. CASE tq[1].async
      <4>1. PutPrefetched(out[1].answer)
        BY <1>4, <1>5, <3>1 DEF Receive
      <4>2. out[1].answer.status = "ok" => out[1].answer.content \in Content
        BY <1>1, <1>6, <3>1 DEF CarryInv
      <4> QED
        BY <1>1, <4>1, <4>2 DEF PutPrefetched, FlagsOK
    <3>2. CASE ~tq[1].async
      BY <1>1, <1>4, <3>2 DEF Receive, FlagsOK
    <3> QED
      BY <3>1, <3>2
  <2> QED
    BY <1>1, <1>2, <2>1 DEF FlagsOK
\* a task that gets the answer, and the others
<1>13. /\ Len(stack') = Len(stack) /\ stack' \in Seq(Frame)
       /\ \A j \in 1..Len(stack) :
             \/ stack'[j] = stack[j]
             \/ /\ stack[j].call = out[1].call
                /\ stack'[j] = [stack[j] EXCEPT !.answer = out[1].answer]
  <2>1. stack \in Seq(Frame) /\ Len(stack) \in Nat
    BY <1>1 DEF StackOK
  <2>2. CASE tq[1].async
    BY <1>4, <2>1, <2>2 DEF Receive
  <2>3. CASE ~tq[1].async
    <3>1. stack' = [i \in DOMAIN stack |->
                       IF stack[i].call = tq[1].call
                       THEN [stack[i] EXCEPT !.answer = out[1].answer] ELSE stack[i]]
      BY <1>4, <1>5, <2>3 DEF Receive, Deliver
    <3>2. DOMAIN stack = 1..Len(stack)
      BY <2>1
    <3>3. \A i \in 1..Len(stack) :
             stack[i] \in Frame /\ [stack[i] EXCEPT !.answer = out[1].answer] \in Frame
      <4>1. \A f \in Frame : [f EXCEPT !.answer = out[1].answer] \in Frame
        BY <1>8 DEF Frame
      <4>2. \A i \in 1..Len(stack) : stack[i] \in Frame
        BY Numbers DEF PdfInv
      <4> QED
        BY <4>1, <4>2
    <3>4. stack' \in [1..Len(stack) -> Frame]
      BY <3>1, <3>2, <3>3
    <3>5. stack' \in Seq(Frame) /\ Len(stack') = Len(stack)
      BY <2>1, <3>4
    <3> QED
      BY <1>7, <3>1, <3>2, <3>5
  <2> QED
    BY <2>2, <2>3
<1>14. \A j \in 1..Len(stack) : stack'[j].cmd = stack[j].cmd /\ stack'[j].call = stack[j].call
  <2>1. \A j \in 1..Len(stack) : stack[j] \in Frame
    BY Numbers DEF PdfInv
  <2> QED
    BY <1>13, <2>1 DEF Frame
<1>15. StackOK'
  <2>1. EditIsBase'
    BY <1>1, <1>13, <1>14 DEF StackOK, EditIsBase
  <2>2. ASSUME delayed' PROVE stack' # <<>> /\ stack'[1].cmd = "editannot"
    <3>1. stack # <<>> /\ stack[1].cmd = "editannot" /\ stack \in Seq(Frame)
      BY <1>1, <1>2, <2>2 DEF StackOK
    <3>2. Len(stack) \in Nat /\ Len(stack) # 0
      BY <3>1, EmptySeq, LenProperties
    <3> QED
      BY <1>13, <1>14, <3>1, <3>2, EmptySeq
  <2> QED
    BY <1>13, <2>1, <2>2 DEF StackOK
<1>16. CarryInv'
  <2>1. ASSUME NEW j \in 1..Len(stack) PROVE TaskInv(j)'
    <3>1. TaskInv(j) /\ stack[j] \in Frame
      BY <1>1, Numbers DEF CarryInv, PdfInv
    <3>2. \A i \in 1..Len(out') : i + 1 \in 1..Len(out)
      BY <1>5
    <3>3. Carries(stack[j].cmd) /\ stack'[j].answer.status = "ok" =>
             stack'[j].answer.content \in Content
      <4>1. CASE stack'[j] = stack[j]
        BY <3>1, <4>1 DEF TaskInv
      <4>2. CASE /\ stack[j].call = out[1].call
                 /\ stack'[j] = [stack[j] EXCEPT !.answer = out[1].answer]
        <5>1. stack'[j].answer = out[1].answer
          BY <3>1, <4>2 DEF Frame
        <5> QED
          BY <1>6, <3>1, <4>2, <5>1 DEF TaskInv
      <4> QED
        BY <1>13, <4>1, <4>2
    <3>4. \A i \in 1..Len(out') :
             /\ out'[i].call = stack[j].call /\ Carries(stack[j].cmd)
             /\ out'[i].answer.status = "ok"
             => out'[i].answer.content \in Content
      BY <1>5, <3>1, <3>2 DEF TaskInv
    <3>5. /\ stack[j].call <= calls
          /\ \A i \in 1..Len(inq) : inq[i].call = stack[j].call => inq[i].cmd = stack[j].cmd
      BY <3>1 DEF TaskInv
    <3> QED
      BY <1>2, <1>14, <3>3, <3>4, <3>5 DEF TaskInv
  <2>2. ASSUME NEW i \in 1..Len(inq)
        PROVE  /\ inq[i].call <= calls
               /\ tq'[Len(out') + i].async => inq[i].cmd = "renderpage"
    <3>1. proc = "run"
      BY <1>1, EmptySeq DEF PipesOK
    <3>2. Len(tq) = Len(out) + Len(inq)
      BY <1>1, <3>1 DEF PipesOK, StepInv
    <3>3. Len(out') + i \in 1..Len(tq') /\ Len(out') + i + 1 = Len(out) + i
      BY <1>4, <1>5, <1>6, <3>2
    <3>4. tq'[Len(out') + i] = tq[Len(out) + i]
      BY <1>4, <3>3
    <3> QED
      BY <1>1, <3>4 DEF CarryInv
  <2>3. ASSUME NEW i \in 1..Len(out')
        PROVE  /\ out'[i].call <= calls
               /\ tq'[i].async /\ out'[i].answer.status = "ok" => out'[i].answer.content \in Content
    <3>1. Len(out) <= Len(tq)
      BY <1>1, <1>4, <1>5, <1>6 DEF PipesOK, StepInv
    <3>2. i + 1 \in 1..Len(out) /\ i \in 1..Len(tq')
      BY <1>4, <1>5, <3>1
    <3>3. out'[i] = out[i + 1] /\ tq'[i] = tq[i + 1]
      BY <1>4, <1>5, <3>2
    <3> QED
      BY <1>1, <3>2, <3>3 DEF CarryInv
  <2> QED
    BY <1>2, <1>13, <2>1, <2>2, <2>3 DEF CarryInv
<1> QED
  BY <1>10, <1>11, <1>12, <1>15, <1>16, Parts, PTL

\* The process takes a command and answers.
LEMMA ServeInv ==
    ASSUME PdfInv, NEW cmd, Serve(cmd), NEW a \in Answer, PutsReply(a),
           Carries(cmd) /\ a.status = "ok" => a.content \in Content,
           made' \in Content, doc' \in 0..MaxContent
    PROVE  PdfInv'
<1>1. PipesOK /\ StackOK /\ FlagsOK /\ FilesOK /\ CarryInv
  BY Parts
<1>2. /\ inq' = Tail(inq) /\ inq # <<>> /\ Head(inq).cmd = cmd
      /\ UNCHANGED <<modified, cache, delayed, stack, calls, tq, proc, disk, touched, calm>>
  BY DEF Serve, lispVars
<1>3. tq \in Seq(Queued) /\ out \in Seq(Replied) /\ inq \in Seq(Sent) /\ proc = "run"
  BY <1>1, <1>2 DEF PipesOK
<1>4. /\ Len(inq) \in Nat /\ Len(inq) >= 1 /\ Head(inq) = inq[1] /\ inq' \in Seq(Sent)
      /\ Len(inq') = Len(inq) - 1 /\ \A i \in 1..Len(inq') : inq'[i] = inq[i + 1]
  BY <1>2, <1>3, HeadTail
<1> DEFINE r == [call |-> inq[1].call, answer |-> a]
<1>5. 1 \in 1..Len(inq) /\ inq[1] \in Sent /\ inq[1].call \in Call
  BY <1>4, Numbers DEF PdfInv, Sent
<1>6. r \in Replied /\ r.call = inq[1].call /\ r.answer = a
  BY <1>5 DEF Replied
<1>7. out' = Append(out, r)
  BY <1>4 DEF PutsReply
<1> HIDE DEF r
<1>8. /\ out' \in Seq(Replied) /\ Len(out') = Len(out) + 1 /\ Len(out) \in Nat
      /\ out'[Len(out) + 1] = r /\ \A i \in 1..Len(out) : out'[i] = out[i]
  BY <1>3, <1>6, <1>7
<1>9. \A i \in 1..Len(out') : i \in 1..Len(out) \/ i = Len(out) + 1
  BY <1>8
<1>10. \A i \in 1..Len(inq') : i + 1 \in 1..Len(inq) /\ Len(out') + i = Len(out) + (i + 1)
  BY <1>4, <1>8
<1>11. /\ Len(tq) = Len(out) + Len(inq)
       /\ \A i \in 1..Len(out) : tq[i].call = out[i].call
       /\ \A i \in 1..Len(inq) : tq[Len(out) + i].call = inq[i].call
  BY <1>1, <1>3 DEF PipesOK, StepInv
<1>12. StepInv'
  <2>1. \A i \in 1..Len(out') : tq[i].call = out'[i].call
    BY <1>5, <1>6, <1>8, <1>9, <1>11
  <2>2. \A i \in 1..Len(inq') : tq[Len(out') + i].call = inq'[i].call
    BY <1>4, <1>10, <1>11
  <2>3. Len(tq) = Len(out') + Len(inq')
    BY <1>4, <1>8, <1>11
  <2> QED
    BY <1>2, <1>3, <2>1, <2>2, <2>3 DEF StepInv
<1>13. PipesOK'
  BY <1>1, <1>2, <1>3, <1>4, <1>8, <1>12 DEF PipesOK
<1>14. StackOK' /\ FlagsOK' /\ FilesOK'
  BY <1>1, <1>2, <1>3 DEF StackOK, EditIsBase, FlagsOK, FilesOK
<1>15. CarryInv'
  <2>1. ASSUME NEW j \in 1..Len(stack) PROVE TaskInv(j)'
    <3>1. TaskInv(j)
      BY <1>1 DEF CarryInv
    <3>2. \A i \in 1..Len(inq') : inq'[i].call = stack[j].call => inq'[i].cmd = stack[j].cmd
      BY <1>4, <1>10, <3>1 DEF TaskInv
    <3>3. ASSUME NEW i \in 1..Len(out'), out'[i].call = stack[j].call, Carries(stack[j].cmd),
                 out'[i].answer.status = "ok"
          PROVE  out'[i].answer.content \in Content
      <4>1. CASE i \in 1..Len(out)
        BY <1>8, <3>1, <3>3, <4>1 DEF TaskInv
      <4>2. CASE i = Len(out) + 1
        <5>1. inq[1].call = stack[j].call /\ a.status = "ok"
          BY <1>6, <1>8, <3>3, <4>2
        <5>2. cmd = stack[j].cmd
          BY <1>2, <1>4, <1>5, <3>1, <5>1 DEF TaskInv
        <5> QED
          BY <1>6, <1>8, <3>3, <4>2, <5>1, <5>2
      <4> QED
        BY <1>9, <4>1, <4>2
    <3>4. /\ stack[j].call <= calls
          /\ Carries(stack[j].cmd) /\ stack[j].answer.status = "ok" =>
                stack[j].answer.content \in Content
      BY <3>1 DEF TaskInv
    <3> QED
      BY <1>2, <3>2, <3>3, <3>4 DEF TaskInv
  <2>2. ASSUME NEW i \in 1..Len(inq')
        PROVE  /\ inq'[i].call <= calls
               /\ tq[Len(out') + i].async => inq'[i].cmd = "renderpage"
    <3>1. i + 1 \in 1..Len(inq) /\ Len(out') + i = Len(out) + (i + 1) /\ inq'[i] = inq[i + 1]
      BY <1>4, <1>10
    <3> QED
      BY <1>1, <3>1 DEF CarryInv
  <2>3. ASSUME NEW i \in 1..Len(out')
        PROVE  /\ out'[i].call <= calls
               /\ tq[i].async /\ out'[i].answer.status = "ok" => out'[i].answer.content \in Content
    <3>1. CASE i \in 1..Len(out)
      BY <1>1, <1>8, <3>1 DEF CarryInv
    <3>2. CASE i = Len(out) + 1
      <4>1. inq[1].call <= calls /\ (tq[i].async => inq[1].cmd = "renderpage")
        BY <1>1, <1>5, <3>2 DEF CarryInv
      <4>2. tq[i].async => Carries(cmd)
        BY <1>2, <1>4, <4>1 DEF Carries
      <4> QED
        BY <1>6, <1>8, <3>2, <4>1, <4>2
    <3> QED
      BY <1>9, <3>1, <3>2
  <2> QED
    BY <1>2, <2>1, <2>2, <2>3 DEF CarryInv
<1> QED
  BY <1>13, <1>14, <1>15, Parts, PTL

-----------------------------------------------------------------------------
(***************************************************************************)
(* Emacs: what starts a query, and what follows one.                       *)
(***************************************************************************)

\* A query on top of the tasks that wait
LEMMA PushInv ==
    ASSUME PdfInv, NEW cmd \in Command, Query(cmd, FALSE),
           stack' = Append(stack, Waiting(cmd, FALSE)), cmd = "editannot" => Idle,
           UNCHANGED <<cache, delayed, disk, made, doc, calm>>,
           modified' \in BOOLEAN, touched' \in BOOLEAN
    PROVE  PdfInv'
<1>1. PipesOK /\ StackOK /\ FlagsOK /\ FilesOK /\ CarryInv
  BY Parts
<1>2. PipesOK' /\ calls + 1 \in Call /\ proc' = "run"
  BY QueryPipes
<1>3. Waiting(cmd, FALSE) \in Frame /\ Waiting(cmd, FALSE).cmd = cmd
  BY <1>2, WaitingType
<1>4. StackOK'
  BY <1>1, <1>3, Push DEF Idle
<1>5. FlagsOK' /\ FilesOK'
  BY <1>1, <1>2 DEF FlagsOK, FilesOK
<1>6. stack \in Seq(Frame)
  BY <1>1 DEF StackOK
<1>7. \A j \in 1..Len(stack') :
         \/ \E k \in 1..Len(stack) : stack'[j] = stack[k]
         \/ \E saving \in BOOLEAN : stack'[j] = Waiting(cmd, saving)
  <2>1. PICK w \in Frame : w = Waiting(cmd, FALSE)
    BY <1>3
  <2>2. stack' = Append(stack, w)
    BY Zenon, <2>1
  <2>3. \A j \in 1..Len(stack') : (j \in 1..Len(stack) /\ stack'[j] = stack[j]) \/ stack'[j] = w
    BY ONLY <1>6, <2>2
  <2>4. FALSE \in BOOLEAN
    OBVIOUS
  <2> QED
    BY Zenon, <2>1, <2>3, <2>4
<1>8. CarryInv'
  BY <1>7, CarryQuery
<1> QED
  BY <1>2, <1>4, <1>5, <1>8, Parts, PTL

LEMMA StartInv == ASSUME PdfInv, Start PROVE PdfInv'
<1>1. PipesOK /\ StackOK /\ FlagsOK /\ FilesOK /\ CarryInv
  BY Parts
<1>2. modified \in BOOLEAN /\ touched \in BOOLEAN
  BY <1>1 DEF FlagsOK, FilesOK
<1>3. CASE Render
  BY <1>2, <1>3, PushInv DEF Render, Command, fileVars
<1>4. CASE Prefetch
  <2>1. Query("renderpage", TRUE) /\ "renderpage" \in Command
    BY <1>4 DEF Prefetch, Command
  <2>2. PipesOK' /\ proc' = "run"
    BY <2>1, QueryPipes
  <2>3. StackOK' /\ FlagsOK' /\ FilesOK'
    BY <1>1, <1>4, <2>2 DEF Prefetch, lispVars, fileVars, StackOK, EditIsBase, FlagsOK, FilesOK
  <2>4. stack' = stack
    BY <1>4 DEF Prefetch, lispVars
  <2>5. \A j \in 1..Len(stack') :
           \/ \E k \in 1..Len(stack) : stack'[j] = stack[k]
           \/ \E saving \in BOOLEAN : stack'[j] = Waiting("renderpage", saving)
    BY <2>4
  <2>6. CarryInv'
    BY <2>1, <2>5, CarryQuery
  <2> QED
    BY <2>2, <2>3, <2>6, Parts, PTL
<1>5. CASE PutAnnot
  BY <1>2, <1>5, PushInv DEF PutAnnot, Command, fileVars
<1>6. CASE Save
  BY <1>2, <1>6, PushInv DEF Save, Command, fileVars
<1>7. CASE Revert
  BY <1>7, PushInv DEF Revert, Command
<1>8. CASE Refused
  <2>1. /\ NoRestart /\ modified' \in BOOLEAN /\ touched' \in BOOLEAN
        /\ UNCHANGED <<cache, delayed, stack, disk, made, doc, calm>>
    BY <1>2, <1>8 DEF Refused
  <2>2. PipesOK' /\ doc = 0
    BY <1>1, <2>1, NoRestartPipes
  <2>3. StackOK' /\ FlagsOK' /\ FilesOK'
    BY <1>1, <2>1, <2>2 DEF StackOK, EditIsBase, FlagsOK, FilesOK
  <2>4. calls' = calls /\ out' = <<>> /\ inq' = <<>>
    BY <2>1, NoRestartInv DEF NoRestart
  <2>5. CarryInv'
    BY <1>1, <2>1, <2>4, CarryLess
  <2> QED
    BY <2>2, <2>3, <2>5, Parts, PTL
<1> QED
  BY <1>3, <1>4, <1>5, <1>6, <1>7, <1>8 DEF Start

\* The innermost task ends; a new process may have been refused.
LEMMA PopInv ==
    ASSUME PdfInv, stack # <<>>, stack' = Below, NoRestart \/ UNCHANGED pipeVars,
           delayed' = FALSE \/ (delayed' = delayed /\ (delayed => Top.cmd # "editannot")),
           modified' \in BOOLEAN, calm' \in BOOLEAN, cache' \subseteq Content,
           disk' \in Content, touched' \in BOOLEAN, UNCHANGED <<made, doc>>
    PROVE  PdfInv'
<1>1. PipesOK /\ StackOK /\ FlagsOK /\ FilesOK /\ CarryInv
  BY Parts
<1>2. PipesOK' /\ (proc' # "run" => doc = 0)
  BY <1>1, NoRestartPipes, PipesStay DEF FilesOK
<1>3. StackOK'
  BY <1>1, Pop
<1>4. FlagsOK' /\ FilesOK'
  BY <1>1, <1>2 DEF FlagsOK, FilesOK
<1>5. \A j \in 1..Len(stack') : \E k \in 1..Len(stack) : stack'[j] = stack[k]
  <2>1. \A j \in 1..Len(Below) : j \in 1..Len(stack) /\ Below[j] = stack[j]
    BY <1>1, BelowStack
  <2> QED
    BY <2>1
<1>6. CarryInv'
  <2>1. CASE NoRestart
    <3>1. calls' = calls /\ out' = <<>> /\ inq' = <<>>
      BY <2>1, NoRestartInv DEF NoRestart
    <3> QED
      BY <1>1, <1>5, <3>1, CarryLess
  <2>2. CASE UNCHANGED pipeVars
    <3>1. calls' = calls /\ out' = out /\ inq' = inq /\ tq' = tq
      BY <2>2 DEF pipeVars
    <3> QED
      BY <1>1, <1>5, <3>1, CarryLess
  <2> QED
    BY <2>1, <2>2
<1> QED
  BY <1>2, <1>3, <1>4, <1>6, Parts, PTL

\* The innermost task goes on with another query.
LEMMA ReplaceInv ==
    ASSUME PdfInv, stack # <<>>, NEW cmd \in Command, NEW saving \in BOOLEAN, Query(cmd, FALSE),
           stack' = Append(Below, Waiting(cmd, saving)),
           cmd = "editannot" <=> Top.cmd = "editannot",
           delayed' = delayed \/ (delayed' = TRUE /\ cmd = "editannot"),
           modified' \in BOOLEAN, disk' \in Content, touched' \in BOOLEAN,
           UNCHANGED <<made, doc, cache, calm>>
    PROVE  PdfInv'
<1>1. PipesOK /\ StackOK /\ FlagsOK /\ FilesOK /\ CarryInv
  BY Parts
<1>2. PipesOK' /\ calls + 1 \in Call /\ proc' = "run"
  BY QueryPipes
<1>3. Waiting(cmd, saving) \in Frame /\ Waiting(cmd, saving).cmd = cmd
  BY <1>2, WaitingType
<1>4. StackOK'
  BY <1>1, <1>3, Replace
<1>5. FlagsOK' /\ FilesOK'
  BY <1>1, <1>2 DEF FlagsOK, FilesOK
<1>6. \A j \in 1..Len(stack') :
         \/ \E k \in 1..Len(stack) : stack'[j] = stack[k]
         \/ \E s \in BOOLEAN : stack'[j] = Waiting(cmd, s)
  <2>1. /\ Below \in Seq(Frame) /\ Len(Below) = Len(stack) - 1 /\ Len(stack) \in Nat
        /\ \A i \in 1..Len(Below) : Below[i] = stack[i]
    BY <1>1, BelowStack
  <2>2. \A j \in 1..Len(stack') :
           (j \in 1..Len(stack) /\ stack'[j] = stack[j]) \/ stack'[j] = Waiting(cmd, saving)
    BY <1>3, <2>1
  <2> QED
    BY <2>2
<1>7. CarryInv'
  BY <1>6, CarryQuery
<1> QED
  BY <1>2, <1>4, <1>5, <1>7, Parts, PTL

LEMMA ReturnInv == ASSUME PdfInv, Return PROVE PdfInv'
<1>1. PipesOK /\ StackOK /\ FlagsOK /\ FilesOK /\ CarryInv
  BY Parts
<1>2. stack # <<>>
  BY DEF Return, PutImage, PutAnnotReturns, SaveReturns, CloseReturns, Signal, Returned, Idle
<1>3. Len(stack) \in 1..Len(stack) /\ Top = stack[Len(stack)] /\ TaskInv(Len(stack))
  BY <1>1, <1>2, BelowStack DEF CarryInv
<1>4. Carries(Top.cmd) /\ Top.answer.status = "ok" => Top.answer.content \in Content
  BY <1>3 DEF TaskInv
<1>5. /\ modified \in BOOLEAN /\ delayed \in BOOLEAN /\ calm \in BOOLEAN /\ touched \in BOOLEAN
      /\ cache \subseteq Content /\ disk \in Content
  BY <1>1 DEF FlagsOK, FilesOK
<1>6. ClearImages => cache' \subseteq Content /\ calm' \in BOOLEAN
  BY DEF ClearImages
<1>7. CASE PutImage
  <2>1. Top.cmd = "renderpage" /\ Top.answer.content \in Content
    BY <1>4, <1>7 DEF PutImage, Returned, Carries
  <2>2. cache' \subseteq Content
    BY <1>5, <1>7, <2>1 DEF PutImage
  <2> QED
    BY <1>2, <1>5, <1>7, <2>1, <2>2, PopInv DEF PutImage, fileVars
<1>8. CASE PutAnnotReturns
  <2>1. Top.cmd = "editannot" /\ "editannot" \in Command
    BY <1>8 DEF PutAnnotReturns, Returned, Command
  <2>2. modified' = TRUE /\ UNCHANGED <<disk, touched, made, doc>>
    BY <1>8 DEF PutAnnotReturns, fileVars
  <2>3. CASE /\ Query("editannot", FALSE)
             /\ stack' = Append(Below, Waiting("editannot", FALSE))
             /\ delayed' = TRUE
             /\ UNCHANGED <<cache, calm>>
    BY <1>2, <1>5, <2>1, <2>2, <2>3, ReplaceInv
  <2>4. CASE RunModifiedHooks /\ stack' = Below /\ (NoRestart \/ UNCHANGED pipeVars)
    BY <1>2, <1>5, <1>6, <2>2, <2>4, PopInv DEF RunModifiedHooks
  <2> QED
    BY <1>8, <2>3, <2>4 DEF PutAnnotReturns
<1>9. CASE SaveReturns
  <2>1. Top.cmd = "save" /\ Top.answer.content \in Content /\ "close" \in Command
    BY <1>4, <1>9 DEF SaveReturns, Returned, Carries, Command
  <2>2. /\ disk' = Top.answer.content /\ touched' = FALSE
        /\ UNCHANGED <<modified, cache, delayed, made, doc, calm>>
    BY <1>9 DEF SaveReturns
  <2>3. CASE Query("close", FALSE) /\ stack' = Append(Below, Waiting("close", TRUE))
    BY <1>2, <1>5, <2>1, <2>2, <2>3, ReplaceInv
  <2>4. CASE NoRestart /\ stack' = Below
    BY <1>2, <1>5, <2>1, <2>2, <2>4, PopInv
  <2> QED
    BY <1>9, <2>3, <2>4 DEF SaveReturns
<1>10. CASE CloseReturns
  <2>1. Top.cmd = "close" /\ modified' \in BOOLEAN
    BY <1>5, <1>10 DEF CloseReturns, Returned
  <2> QED
    BY <1>2, <1>5, <1>6, <1>10, <2>1, PopInv DEF CloseReturns, fileVars
<1>11. CASE Signal
  <2>1. /\ cache' \subseteq Content /\ calm' \in BOOLEAN
        /\ delayed' = FALSE \/ (delayed' = delayed /\ (delayed => Top.cmd # "editannot"))
    BY <1>5, <1>6, <1>11 DEF Signal, RunModifiedHooks
  <2> QED
    BY <1>2, <1>5, <1>11, <2>1, PopInv DEF Signal, fileVars
<1> QED
  BY <1>7, <1>8, <1>9, <1>10, <1>11 DEF Return

-----------------------------------------------------------------------------
(***************************************************************************)
(* The process, its death, and other programs.                             *)
(***************************************************************************)

LEMMA ServerInv == ASSUME PdfInv, ServerStep PROVE PdfInv'
<1>1. disk \in Content /\ made \in Content /\ doc \in 0..MaxContent
  BY DEF PdfInv, TypeOK
<1>2. Opened \in Content
  BY <1>1, Bounds DEF Opened, Content
<1>3. Opened \in 0..MaxContent /\ 0 \in 0..MaxContent
  BY <1>2, Bounds
<1>4. Ok(Opened) \in Answer /\ Ok(0) \in Answer /\ Error \in Answer
  BY <1>3, Bounds
<1>5. Ok(Opened).content = Opened /\ Error.status = "error"
  BY DEF Ok, Error
<1>6. CASE CmdRenderpage
  BY <1>1, <1>2, <1>3, <1>4, <1>5, <1>6, ServeInv DEF CmdRenderpage
<1>7. CASE CmdEditannot
  <2>1. made' \in Content /\ doc' \in 0..MaxContent
    BY <1>1, <1>7, Bounds DEF CmdEditannot, Content
  <2>2. ~Carries("editannot")
    BY DEF Carries
  <2> QED
    BY <1>4, <1>7, <2>1, <2>2, ServeInv DEF CmdEditannot
<1>8. CASE CmdSave
  BY <1>1, <1>2, <1>3, <1>4, <1>5, <1>8, ServeInv DEF CmdSave
<1>9. CASE CmdClose
  <2>1. ~Carries("close")
    BY DEF Carries
  <2> QED
    BY <1>1, <1>3, <1>4, <1>9, <2>1, ServeInv DEF CmdClose
<1>10. CASE CmdFails
  <2>1. PICK cmd \in Command \ {"close"} : Serve(cmd)
    BY <1>10 DEF CmdFails
  <2> QED
    BY <1>1, <1>3, <1>4, <1>5, <1>10, <2>1, ServeInv DEF CmdFails
<1> QED
  BY <1>6, <1>7, <1>8, <1>9, <1>10 DEF ServerStep

LEMMA DieInv == ASSUME PdfInv, Die PROVE PdfInv'
<1>1. PipesOK /\ StackOK /\ FlagsOK /\ FilesOK /\ CarryInv
  BY Parts
<1>2. /\ proc = "run" /\ proc' = "dead" /\ doc' = 0 /\ inq' = <<>> /\ calm' = FALSE
      /\ UNCHANGED <<modified, cache, delayed, stack, disk, touched, made, calls, tq, out>>
  BY DEF Die, lispVars, fileVars
<1>3. Len(out) <= Len(tq) /\ \A i \in 1..Len(out) : tq[i].call = out[i].call
  <2>1. Len(inq) \in Nat /\ Len(out) \in Nat
    BY <1>1 DEF PipesOK
  <2> QED
    BY <1>1, <1>2, <2>1 DEF PipesOK, StepInv
<1>4. StepInv'
  BY <1>2, <1>3 DEF StepInv
<1>5. PipesOK'
  BY <1>1, <1>2, <1>4 DEF PipesOK
<1>6. StackOK' /\ FlagsOK'
  BY <1>1, <1>2 DEF StackOK, EditIsBase, FlagsOK
<1>8. FilesOK'
  BY <1>1, <1>2, Bounds DEF FilesOK
<1>7. CarryInv'
  BY <1>1, <1>2, CarryLess
<1> QED
  BY <1>5, <1>6, <1>7, <1>8, Parts, PTL

LEMMA FileChangedInv == ASSUME PdfInv, FileChanged PROVE PdfInv'
<1>1. PipesOK /\ StackOK /\ FlagsOK /\ FilesOK /\ CarryInv
  BY Parts
<1>2. /\ made < MaxContent /\ made' = made + 1 /\ disk' = made + 1 /\ touched' = TRUE
      /\ UNCHANGED <<modified, cache, delayed, stack, doc, calm>>
      /\ UNCHANGED pipeVars
  BY DEF FileChanged, lispVars
<1>3. PipesOK' /\ proc' = proc
  BY <1>2, PipesStay
<1>4. made' \in Content
  BY <1>1, <1>2, Bounds DEF FilesOK, Content
<1>5. StackOK' /\ FlagsOK' /\ FilesOK'
  BY <1>1, <1>2, <1>3, <1>4 DEF StackOK, EditIsBase, FlagsOK, FilesOK
<1>6. CarryInv'
  BY <1>1, <1>2, CarryLess DEF pipeVars
<1> QED
  BY <1>3, <1>5, <1>6, Parts, PTL

LEMMA InitInv == Init => PdfInv
<1> SUFFICES ASSUME Init PROVE PdfInv
  OBVIOUS
<1>1. 1 \in Content /\ 0 \in 0..MaxContent /\ 0 \in 0..MaxCall
  BY Bounds DEF Content
<1>2. PipesOK /\ StackOK
  BY <1>1 DEF Init, PipesOK, StackOK, StepInv, EditIsBase
<1>3. FlagsOK /\ FilesOK
  BY <1>1 DEF Init, FlagsOK, FilesOK
<1>4. CarryInv
  BY DEF Init, CarryInv
<1> QED
  BY <1>2, <1>3, <1>4, Parts

LEMMA NextInv == PdfInv /\ [Next]_vars => PdfInv'
<1> SUFFICES ASSUME PdfInv, [Next]_vars PROVE PdfInv'
  OBVIOUS
<1>1. CASE UNCHANGED vars
  BY <1>1 DEF PdfInv, TypeOK, EditIsBase, StepInv, CarryInv, TaskInv, Idle, vars, lispVars, pipeVars,
     fileVars
<1> QED
  BY <1>1, StartInv, ReturnInv, ReceiveInv, ServerInv, DieInv, FileChangedInv DEF Next

-----------------------------------------------------------------------------
(***************************************************************************)
(* The theorems.                                                           *)
(***************************************************************************)

\* Place by place, the queue is the answers under way and then the commands.
LEMMA StepByPlace == ASSUME PdfInv PROVE InStep
<1>1. /\ tq \in Seq(Queued) /\ inq \in Seq(Sent) /\ out \in Seq(Replied)
      /\ Len(tq) \in Nat /\ Len(inq) \in Nat /\ Len(out) \in Nat
  BY DEF PdfInv, TypeOK, Queued, Sent, Replied
<1>2. /\ \A i \in 1..Len(tq) : tq[i].call \in Nat
      /\ \A i \in 1..Len(inq) : inq[i].call \in Nat
      /\ \A i \in 1..Len(out) : out[i].call \in Nat
  BY Numbers DEF PdfInv, Queued, Call
<1>3. /\ CallsOf(tq) = [i \in 1..Len(tq) |-> tq[i].call]
      /\ CallsOf(inq) = [i \in 1..Len(inq) |-> inq[i].call]
      /\ CallsOf(out) = [i \in 1..Len(out) |-> out[i].call]
  BY <1>1 DEF CallsOf
<1>4. /\ CallsOf(tq) \in Seq(Nat) /\ Len(CallsOf(tq)) = Len(tq)
      /\ CallsOf(inq) \in Seq(Nat) /\ Len(CallsOf(inq)) = Len(inq)
      /\ CallsOf(out) \in Seq(Nat) /\ Len(CallsOf(out)) = Len(out)
  BY <1>1, <1>2, <1>3
<1>5. CASE proc = "run"
  <2>1. /\ Len(tq) = Len(out) + Len(inq)
        /\ \A i \in 1..Len(out) : tq[i].call = out[i].call
        /\ \A i \in 1..Len(inq) : tq[Len(out) + i].call = inq[i].call
    BY <1>5 DEF PdfInv, StepInv
  <2> DEFINE c == CallsOf(out) \o CallsOf(inq)
  <2>2. /\ c \in Seq(Nat) /\ Len(c) = Len(tq)
        /\ \A i \in 1..Len(tq) :
              c[i] = IF i <= Len(out) THEN CallsOf(out)[i] ELSE CallsOf(inq)[i - Len(out)]
    <3>1. /\ c \in Seq(Nat)
          /\ Len(c) = Len(CallsOf(out)) + Len(CallsOf(inq))
          /\ \A i \in 1..(Len(CallsOf(out)) + Len(CallsOf(inq))) :
                c[i] = IF i <= Len(CallsOf(out)) THEN CallsOf(out)[i]
                                                 ELSE CallsOf(inq)[i - Len(CallsOf(out))]
      BY ONLY <1>4, ConcatProperties
    <3> HIDE DEF c
    <3> QED
      BY <1>4, <2>1, <3>1
  <2> HIDE DEF c
  <2>3. \A i \in 1..Len(tq) : c[i] = CallsOf(tq)[i]
    <3> SUFFICES ASSUME NEW i \in 1..Len(tq) PROVE c[i] = CallsOf(tq)[i]
      OBVIOUS
    <3>1. CASE i <= Len(out)
      <4>1. i \in 1..Len(out)
        BY <1>1, <3>1
      <4>2. tq[i].call = out[i].call
        BY <2>1, <4>1
      <4>3. c[i] = CallsOf(out)[i]
        BY <2>2, <3>1
      <4>4. CallsOf(out)[i] = out[i].call
        BY <1>3, <4>1
      <4>5. CallsOf(tq)[i] = tq[i].call
        BY <1>3
      <4> QED
        BY <4>2, <4>3, <4>4, <4>5
    <3>2. CASE ~(i <= Len(out))
      <4>1. i - Len(out) \in 1..Len(inq) /\ Len(out) + (i - Len(out)) = i
        BY <1>1, <2>1, <3>2
      <4>2. tq[i].call = inq[i - Len(out)].call
        BY <2>1, <4>1
      <4>3. c[i] = CallsOf(inq)[i - Len(out)]
        BY <2>2, <3>2
      <4>4. CallsOf(inq)[i - Len(out)] = inq[i - Len(out)].call
        BY <1>3, <4>1
      <4>5. CallsOf(tq)[i] = tq[i].call
        BY <1>3
      <4> QED
        BY <4>2, <4>3, <4>4, <4>5
    <3> QED
      BY <3>1, <3>2
  <2>4. c = CallsOf(tq)
    BY <1>4, <2>2, <2>3, SeqEqual
  <2> QED
    BY <1>5, <2>4 DEF InStep, c
<1>6. CASE proc # "run"
  <2>1. Len(out) <= Len(tq) /\ \A i \in 1..Len(out) : tq[i].call = out[i].call
    BY <1>6 DEF PdfInv, StepInv
  <2> DEFINE c == SubSeq(CallsOf(tq), 1, Len(out))
  <2>2. /\ c \in Seq(Nat) /\ Len(c) = Len(out)
        /\ \A i \in 1..Len(out) : c[i] = CallsOf(tq)[i]
    BY <1>1, <1>4, <2>1
  <2>3. \A i \in 1..Len(out) : c[i] = CallsOf(out)[i]
    BY <1>1, <1>3, <2>1, <2>2
  <2>4. c = CallsOf(out)
    BY <1>4, <2>2, <2>3, SeqEqual
  <2> QED
    BY <1>6, <2>4 DEF InStep
<1> QED
  BY <1>5, <1>6

\* The inductive invariant: types, the places of the queue, and what the
\* answers under way carry for the tasks that wait for them.
THEOREM PdfInvariant == Spec => []PdfInv
BY InitInv, NextInv, PTL DEF Spec

\* All variables keep their types.
THEOREM PdfTypes == Spec => []TypeOK
<1>1. PdfInv => TypeOK
  BY DEF PdfInv
<1> QED
  BY <1>1, PdfInvariant, PTL

\* No closure is called with the answer to another query, for any number of
\* queries, nested to any depth, and any number of processes.
THEOREM AlwaysInStep == Spec => []InStep
<1>1. PdfInv => InStep
  BY StepByPlace
<1> QED
  BY <1>1, PdfInvariant, PTL

-----------------------------------------------------------------------------
(***************************************************************************)
(* What is shown: the numbers of the calls order the tasks that wait and   *)
(* the answers under way, so that an image of an older content is always   *)
(* followed by the answer whose hooks will throw it away.                  *)
(***************************************************************************)

\* Later calls wait inside earlier ones, and an answered one is earlier than
\* all that are still in the queue.
OrderInv ==
    /\ \A i, j \in 1..Len(tq) : i < j => tq[i].call < tq[j].call
    /\ \A i \in 1..Len(tq) : tq[i].call <= calls
    /\ \A i, j \in 1..Len(stack) : i < j => stack[i].call < stack[j].call
    /\ \A j \in 1..Len(stack) : stack[j].answer.status # "none" =>
          \A i \in 1..Len(tq) : stack[j].call < tq[i].call
    /\ \A j \in 1..Len(stack), i \in 1..Len(tq) :
          tq[i].call = stack[j].call => ~tq[i].async
    /\ \A j \in 1..Len(stack) :
          stack[j].answer.status = "none" => stack[j].answer.content = 0
    /\ \A i \in 1..Len(out) : out[i].answer.status # "none"

\* Only renderings are sent without a task that waits for them.
WaitInv ==
    \A i \in 1..Len(inq) :
        inq[i].cmd # "renderpage" => \E j \in 1..Len(stack) : stack[j].call = inq[i].call

\* A save is the outermost task, of a buffer with the modified flag.
SaveInv ==
    \A j \in 1..Len(stack) :
        /\ stack[j].saving => stack[j].cmd = "close"
        /\ stack[j].cmd = "save" \/ stack[j].saving => j = 1 /\ modified

TasksInv == OrderInv /\ WaitInv /\ SaveInv

-----------------------------------------------------------------------------
(***************************************************************************)
(* The steps, place by place.                                              *)
(***************************************************************************)

\* The first n tasks stay, alone or below another one.
Tasks(n) ==
    /\ n \in 0..Len(stack) /\ Len(stack') = n
    /\ \A i \in 1..n : i \in 1..Len(stack) /\ stack'[i] = stack[i]

TasksAnd(n, w) ==
    /\ n \in 0..Len(stack) /\ Len(stack') = n + 1
    /\ \A i \in 1..n : i \in 1..Len(stack) /\ stack'[i] = stack[i]
    /\ stack'[n + 1] = w

\* A query follows those under way, or starts with a new process.
Sends(cmd, async) ==
    /\ calls' = calls + 1 /\ proc' = "run" /\ Len(tq') \in Nat
    /\ \A i \in 1..Len(tq') :
          \/ proc = "run" /\ i \in 1..Len(tq) /\ tq'[i] = tq[i]
          \/ i = Len(tq') /\ tq'[i].call = calls + 1 /\ tq'[i].async = async
    /\ \A i \in 1..Len(inq') :
          \/ proc = "run" /\ i \in 1..Len(inq) /\ inq'[i] = inq[i]
          \/ inq'[i].call = calls + 1 /\ inq'[i].cmd = cmd
    /\ \A i \in 1..Len(inq) : i \in 1..Len(inq') /\ inq'[i] = inq[i]
    /\ \E i \in 1..Len(inq') : inq'[i].cmd = cmd
    /\ IF proc = "run" THEN out' = out ELSE Len(out') = 0

LEMMA Sending ==
    ASSUME PdfInv, NEW cmd \in Command, NEW async \in BOOLEAN, Query(cmd, async)
    PROVE  Sends(cmd, async)
<1>1. /\ tq \in Seq(Queued) /\ inq \in Seq(Sent) /\ out \in Seq(Replied)
      /\ calls \in 0..MaxCall /\ (proc # "run" => inq = <<>>)
  BY DEF PdfInv, TypeOK, Queued, Sent, Replied
<1>2. calls + 1 \in Call
  BY QueryInv
<1> DEFINE q == [call |-> calls + 1, async |-> async]
           s == [call |-> calls + 1, cmd |-> cmd]
<1>3. /\ q \in Queued /\ s \in Sent /\ q.call = calls + 1 /\ q.async = async
      /\ s.call = calls + 1 /\ s.cmd = cmd
  BY <1>2 DEF Queued, Sent
<1>4. /\ tq' = Append(Restarted(tq), q) /\ inq' = Append(inq, s) /\ out' = Restarted(out)
      /\ proc' = "run" /\ calls' = calls + 1
  BY DEF Query
<1> HIDE DEF q, s
<1>5. /\ Len(inq') = Len(inq) + 1 /\ Len(inq) \in Nat /\ inq'[Len(inq) + 1] = s
      /\ \A i \in 1..Len(inq) : inq'[i] = inq[i]
  BY <1>1, <1>3, <1>4
<1>6. \A i \in 1..Len(inq) : i \in 1..Len(inq') /\ inq'[i] = inq[i]
  BY <1>5
<1>7. \E i \in 1..Len(inq') : inq'[i].cmd = cmd
  <2>1. Len(inq) + 1 \in 1..Len(inq')
    BY <1>5
  <2> QED
    BY <1>3, <1>5, <2>1
<1>8. \A i \in 1..Len(inq') : i \in 1..Len(inq) \/ inq'[i] = s
  BY <1>5
<1>9. CASE proc = "run"
  <2>1. tq' = Append(tq, q) /\ out' = out
    BY <1>4, <1>9 DEF Restarted
  <2>2. \A i \in 1..Len(tq') :
           (i \in 1..Len(tq) /\ tq'[i] = tq[i]) \/ (i = Len(tq') /\ tq'[i] = q)
    BY <1>1, <1>3, <2>1
  <2> QED
    BY <1>3, <1>4, <1>6, <1>7, <1>8, <1>9, <2>1, <2>2 DEF Sends
<1>10. CASE proc # "run"
  <2>1. tq' = Append(<<>>, q) /\ Len(out') = 0 /\ Len(inq) = 0
    BY <1>1, <1>4, <1>10 DEF Restarted
  <2>2. Len(tq') = 1 /\ tq'[1] = q
    BY <1>3, <2>1
  <2>3. \A i \in 1..Len(tq') : i = Len(tq') /\ tq'[i] = q
    BY <2>2
  <2>4. \A i \in 1..Len(inq') : inq'[i] = s
    BY <1>8, <2>1
  <2> QED
    BY <1>3, <1>4, <1>6, <1>7, <1>10, <2>1, <2>3, <2>4 DEF Sends
<1> QED
  BY <1>9, <1>10

LEMMA PushTasks ==
    ASSUME PdfInv, NEW w \in Frame, stack' = Append(stack, w)
    PROVE  TasksAnd(Len(stack), w)
<1>1. stack \in Seq(Frame) /\ Len(stack) \in Nat
  BY DEF PdfInv, TypeOK
<1> QED
  BY <1>1 DEF TasksAnd

LEMMA PopTasks ==
    ASSUME PdfInv, stack # <<>>, stack' = Below
    PROVE  Tasks(Len(stack) - 1) /\ Len(stack) \in Nat \ {0}
<1>1. StackOK
  BY Parts
<1> QED
  BY <1>1, BelowStack DEF Tasks

LEMMA ReplaceTasks ==
    ASSUME PdfInv, stack # <<>>, NEW w \in Frame, stack' = Append(Below, w)
    PROVE  TasksAnd(Len(stack) - 1, w) /\ Len(stack) \in Nat \ {0}
<1>1. StackOK
  BY Parts
<1>2. /\ Below \in Seq(Frame) /\ Len(Below) = Len(stack) - 1
      /\ Len(stack) \in Nat \ {0}
      /\ \A i \in 1..Len(Below) : Below[i] = stack[i]
  BY <1>1, BelowStack
<1>3. /\ Len(stack') = Len(Below) + 1 /\ stack'[Len(Below) + 1] = w
      /\ \A i \in 1..Len(Below) : stack'[i] = Below[i]
  BY <1>2
<1> QED
  BY <1>2, <1>3 DEF TasksAnd

\* The filter takes an answer and its query off the queue, for the task with
\* that call.
Receives ==
    /\ calls' = calls /\ proc' = proc /\ inq' = inq
    /\ 1 \in 1..Len(tq) /\ 1 \in 1..Len(out) /\ tq[1].call = out[1].call
    /\ \A i \in 1..Len(tq') : i + 1 \in 1..Len(tq) /\ tq'[i] = tq[i + 1]
    /\ Len(out) \in Nat /\ Len(out') = Len(out) - 1
    /\ \A i \in 1..Len(out') : i + 1 \in 1..Len(out) /\ out'[i] = out[i + 1]
    /\ Len(stack') = Len(stack)
    /\ \A j \in 1..Len(stack) :
          /\ stack'[j].call = stack[j].call /\ stack'[j].cmd = stack[j].cmd
          /\ stack'[j].saving = stack[j].saving
          /\ stack'[j].answer = IF ~tq[1].async /\ stack[j].call = out[1].call
                                THEN out[1].answer ELSE stack[j].answer

LEMMA Receiving == ASSUME PdfInv, Receive PROVE Receives
<1>1. PipesOK /\ StackOK
  BY Parts
<1>2. /\ tq' = Tail(tq) /\ out' = Tail(out) /\ UNCHANGED <<calls, proc, inq>>
      /\ tq # <<>> /\ out # <<>>
  BY DEF Receive, Popped
<1>3. tq \in Seq(Queued) /\ out \in Seq(Replied) /\ stack \in Seq(Frame) /\ Len(stack) \in Nat
      /\ Len(inq) \in Nat
  BY <1>1 DEF PipesOK, StackOK
<1>4. /\ Len(tq) \in Nat /\ Len(tq) >= 1 /\ Head(tq) = tq[1]
      /\ Len(tq') = Len(tq) - 1 /\ \A i \in 1..Len(tq') : tq'[i] = tq[i + 1]
  BY <1>2, <1>3, HeadTail
<1>5. /\ Len(out) \in Nat /\ Len(out) >= 1 /\ Head(out) = out[1]
      /\ Len(out') = Len(out) - 1 /\ \A i \in 1..Len(out') : out'[i] = out[i + 1]
  BY <1>2, <1>3, HeadTail
<1>6. 1 \in 1..Len(out) /\ 1 \in 1..Len(tq)
  BY <1>4, <1>5
<1>7. tq[1].call = out[1].call
  BY <1>1, <1>6 DEF PipesOK, StepInv
<1>8. /\ Len(stack') = Len(stack)
      /\ \A j \in 1..Len(stack) :
            stack'[j] = IF ~tq[1].async /\ stack[j].call = out[1].call
                        THEN [stack[j] EXCEPT !.answer = out[1].answer] ELSE stack[j]
  <2>1. CASE tq[1].async
    BY <1>3, <1>4, <2>1 DEF Receive
  <2>2. CASE ~tq[1].async
    <3>1. stack' = [i \in DOMAIN stack |->
                       IF stack[i].call = tq[1].call
                       THEN [stack[i] EXCEPT !.answer = out[1].answer] ELSE stack[i]]
      BY <1>4, <1>5, <2>2 DEF Receive, Deliver
    <3>2. DOMAIN stack = 1..Len(stack)
      BY <1>3
    <3>3. DOMAIN stack' = 1..Len(stack)
      BY <3>1, <3>2
    <3>4. Len(stack') = Len(stack)
      BY <1>3, <3>3, ReceiveInv DEF PdfInv, TypeOK
    <3> QED
      BY <1>7, <2>2, <3>1, <3>2, <3>4
  <2> QED
    BY <2>1, <2>2
<1>9. \A j \in 1..Len(stack) :
         /\ stack'[j].call = stack[j].call /\ stack'[j].cmd = stack[j].cmd
         /\ stack'[j].saving = stack[j].saving
         /\ stack'[j].answer = IF ~tq[1].async /\ stack[j].call = out[1].call
                               THEN out[1].answer ELSE stack[j].answer
  <2>1. \A f \in Frame : \A a :
           LET g == [f EXCEPT !.answer = a]
           IN  g.call = f.call /\ g.cmd = f.cmd /\ g.saving = f.saving /\ g.answer = a
    BY DEF Frame
  <2> TAKE j \in 1..Len(stack)
  <2>2. stack[j] \in Frame
    BY Numbers DEF PdfInv
  <2>3. CASE ~tq[1].async /\ stack[j].call = out[1].call
    <3>1. stack'[j] = [stack[j] EXCEPT !.answer = out[1].answer]
      BY <1>8, <2>3
    <3> QED
      BY <2>1, <2>2, <2>3, <3>1
  <2>4. CASE ~(~tq[1].async /\ stack[j].call = out[1].call)
    BY <1>8, <2>4
  <2> QED
    BY <2>3, <2>4
<1>10. \A i \in 1..Len(tq') : i + 1 \in 1..Len(tq)
  BY <1>4
<1>11. \A i \in 1..Len(out') : i + 1 \in 1..Len(out)
  BY <1>5
<1> QED
  BY <1>2, <1>4, <1>5, <1>6, <1>7, <1>8, <1>9, <1>10, <1>11 DEF Receives

\* The process answers the first command.
Serves(cmd, a) ==
    /\ UNCHANGED <<modified, cache, delayed, stack, calls, tq, proc, disk, touched, calm>>
    /\ proc = "run"
    /\ 1 \in 1..Len(inq) /\ inq[1].cmd = cmd
    /\ \A i \in 1..Len(inq') : i + 1 \in 1..Len(inq) /\ inq'[i] = inq[i + 1]
    /\ Len(inq) \in Nat /\ Len(inq') = Len(inq) - 1
    /\ Len(out) \in Nat /\ Len(out') = Len(out) + 1
    /\ \A i \in 1..Len(out) : out'[i] = out[i]
    /\ out'[Len(out) + 1].call = inq[1].call /\ out'[Len(out) + 1].answer = a
    /\ Len(out) + 1 \in 1..Len(tq) /\ tq[Len(out) + 1].call = inq[1].call

LEMMA Serving ==
    ASSUME PdfInv, NEW cmd, Serve(cmd), NEW a \in Answer, PutsReply(a)
    PROVE  Serves(cmd, a)
<1>1. PipesOK
  BY Parts
<1>2. /\ inq' = Tail(inq) /\ inq # <<>> /\ Head(inq).cmd = cmd
      /\ UNCHANGED <<modified, cache, delayed, stack, calls, tq, proc, disk, touched, calm>>
  BY DEF Serve, lispVars
<1>3. tq \in Seq(Queued) /\ out \in Seq(Replied) /\ inq \in Seq(Sent) /\ proc = "run"
  BY <1>1, <1>2 DEF PipesOK
<1>4. /\ Len(inq) \in Nat /\ Len(inq) >= 1 /\ Head(inq) = inq[1]
      /\ Len(inq') = Len(inq) - 1 /\ \A i \in 1..Len(inq') : inq'[i] = inq[i + 1]
  BY <1>2, <1>3, HeadTail
<1> DEFINE r == [call |-> inq[1].call, answer |-> a]
<1>5. 1 \in 1..Len(inq) /\ inq[1] \in Sent /\ inq[1].call \in Call
  BY <1>4, Numbers DEF PdfInv, Sent
<1>6. r \in Replied /\ r.call = inq[1].call /\ r.answer = a
  BY <1>5 DEF Replied
<1>7. out' = Append(out, r)
  BY <1>4 DEF PutsReply
<1> HIDE DEF r
<1>8. /\ Len(out') = Len(out) + 1 /\ Len(out) \in Nat
      /\ out'[Len(out) + 1] = r /\ \A i \in 1..Len(out) : out'[i] = out[i]
  BY <1>3, <1>6, <1>7
<1>9. Len(tq) = Len(out) + Len(inq) /\ tq[Len(out) + 1].call = inq[1].call
  BY <1>1, <1>3, <1>5 DEF PipesOK, StepInv
<1>10. Len(out) + 1 \in 1..Len(tq)
  BY <1>4, <1>8, <1>9
<1>11. \A i \in 1..Len(inq') : i + 1 \in 1..Len(inq) /\ inq'[i] = inq[i + 1]
  BY <1>4
<1> QED
  BY <1>2, <1>3, <1>4, <1>5, <1>6, <1>8, <1>9, <1>10, <1>11 DEF Serves

-----------------------------------------------------------------------------
(***************************************************************************)
(* The order of the calls.                                                 *)
(***************************************************************************)

\* The numbers of calls that wait or are under way.
LEMMA CallsSoFar ==
    ASSUME PdfInv
    PROVE  /\ calls \in Nat
           /\ \A j \in 1..Len(stack) : stack[j].call \in Nat /\ stack[j].call <= calls
           /\ \A i \in 1..Len(tq) : tq[i].call \in Nat
           /\ \A i \in 1..Len(out) : i \in 1..Len(tq) /\ tq[i].call = out[i].call
           /\ \A i \in 1..Len(out) : out[i].call \in Nat /\ out[i].call <= calls
           /\ proc = "run" => \A i \in 1..Len(inq) : /\ Len(out) + i \in 1..Len(tq)
                                                     /\ tq[Len(out) + i].call = inq[i].call
           /\ proc # "run" => Len(inq) = 0 /\ \A i \in 1..Len(inq) : FALSE
           /\ Len(stack) \in Nat /\ Len(tq) \in Nat /\ Len(out) \in Nat /\ Len(inq) \in Nat
<1>1. PipesOK /\ StackOK /\ CarryInv
  BY Parts
<1>2. Len(tq) \in Nat /\ Len(out) \in Nat /\ Len(inq) \in Nat /\ Len(stack) \in Nat
  BY <1>1 DEF PipesOK, StackOK
<1>3. /\ calls \in Nat
      /\ \A j \in 1..Len(stack) : stack[j].call \in Nat /\ stack[j].call <= calls
      /\ \A i \in 1..Len(out) : out[i].call \in Nat /\ out[i].call <= calls
  BY <1>1, Numbers DEF PdfInv, CarryInv, TaskInv
<1>4. \A i \in 1..Len(tq) : tq[i].call \in Nat
  BY Numbers DEF PdfInv, Queued, Call
<1>5. CASE proc = "run"
  <2>1. /\ Len(tq) = Len(out) + Len(inq)
        /\ \A i \in 1..Len(out) : tq[i].call = out[i].call
        /\ \A i \in 1..Len(inq) : tq[Len(out) + i].call = inq[i].call
    BY <1>1, <1>5 DEF PipesOK, StepInv
  <2>2. \A i \in 1..Len(out) : i \in 1..Len(tq)
    BY <1>2, <2>1
  <2>3. \A i \in 1..Len(inq) : Len(out) + i \in 1..Len(tq)
    BY <1>2, <2>1
  <2> QED
    BY <1>2, <1>3, <1>4, <1>5, <2>1, <2>2, <2>3
<1>6. CASE proc # "run"
  <2>1. /\ Len(out) <= Len(tq)
        /\ \A i \in 1..Len(out) : tq[i].call = out[i].call
    BY <1>1, <1>6 DEF PipesOK, StepInv
  <2>2. \A i \in 1..Len(out) : i \in 1..Len(tq)
    BY <1>2, <2>1
  <2>3. Len(inq) = 0
    BY <1>1, <1>6 DEF PipesOK
  <2>4. \A i \in 1..Len(inq) : FALSE
    BY <2>3
  <2> QED
    BY <1>2, <1>3, <1>4, <1>6, <2>1, <2>2, <2>3, <2>4
<1> QED
  BY <1>5, <1>6

\* A task whose call is still in the queue has no answer.
LEMMA Unanswered ==
    ASSUME PdfInv, OrderInv, NEW j \in 1..Len(stack), NEW i \in 1..Len(tq),
           tq[i].call = stack[j].call
    PROVE  stack[j].answer.status = "none"
<1>1. stack[j].call \in Nat
  BY CallsSoFar
<1>2. stack[j].answer.status # "none" => stack[j].call < tq[i].call
  BY DEF OrderInv
<1> QED
  BY <1>1, <1>2

\* A new task, or none, for a new query
NewTask(n, async) ==
    \/ Tasks(n)
    \/ ~async /\ \E cmd, saving : TasksAnd(n, Waiting(cmd, saving))

LEMMA NewTaskPlaces ==
    ASSUME NEW n, NEW async, NewTask(n, async), Len(stack) \in Nat
    PROVE  \A j \in 1..Len(stack') :
              \/ j \in 1..n /\ j \in 1..Len(stack) /\ stack'[j] = stack[j]
              \/ /\ j = n + 1 /\ ~async
                 /\ stack'[j].call = calls + 1 /\ stack'[j].answer = NoAnswer
<1>1. CASE Tasks(n)
  BY <1>1 DEF Tasks
<1>2. CASE ~Tasks(n)
  <2>1. PICK cmd, saving : TasksAnd(n, Waiting(cmd, saving))
    BY <1>2 DEF NewTask
  <2>2. Waiting(cmd, saving).call = calls + 1 /\ Waiting(cmd, saving).answer = NoAnswer
    BY DEF Waiting
  <2>3. /\ n \in Nat /\ Len(stack') = n + 1 /\ stack'[n + 1] = Waiting(cmd, saving)
        /\ \A i \in 1..n : i \in 1..Len(stack) /\ stack'[i] = stack[i]
    BY <2>1 DEF TasksAnd
  <2>4. \A j \in 1..Len(stack') : j \in 1..n \/ j = n + 1
    BY <2>3
  <2>5. ~async
    BY <1>2 DEF NewTask
  <2> QED
    BY <2>2, <2>3, <2>4, <2>5
<1> QED
  BY <1>1, <1>2

LEMMA OrderQuery ==
    ASSUME PdfInv, OrderInv, NEW cmd, NEW async, Sends(cmd, async),
           NEW n, NewTask(n, async)
    PROVE  OrderInv'
<1>1. /\ calls \in Nat /\ calls' = calls + 1
      /\ \A j \in 1..Len(stack) : stack[j].call \in Nat /\ stack[j].call <= calls
      /\ \A i \in 1..Len(tq) : tq[i].call \in Nat /\ tq[i].call <= calls
      /\ Len(stack) \in Nat
  BY CallsSoFar DEF OrderInv, Sends
<1>2. \A i \in 1..Len(tq') :
         \/ i \in 1..Len(tq) /\ tq'[i] = tq[i]
         \/ i = Len(tq') /\ tq'[i].call = calls + 1 /\ tq'[i].async = async
  BY DEF Sends
<1>3. \A j \in 1..Len(stack') :
         \/ j \in 1..n /\ j \in 1..Len(stack) /\ stack'[j] = stack[j]
         \/ /\ j = n + 1 /\ ~async
            /\ stack'[j].call = calls + 1 /\ stack'[j].answer = NoAnswer
  BY <1>1, NewTaskPlaces
<1>4. n \in Nat
  BY <1>1 DEF NewTask, Tasks, TasksAnd
<1>5. NoAnswer.status = "none" /\ NoAnswer.content = 0
  BY DEF NoAnswer
<1>6. Len(tq') \in Nat
  BY DEF Sends
<1>7. ASSUME NEW i \in 1..Len(tq'), NEW j \in 1..Len(tq'), i < j
      PROVE  tq'[i].call < tq'[j].call
  <2>1. i # Len(tq')
    BY <1>6, <1>7
  <2>2. i \in 1..Len(tq) /\ tq'[i] = tq[i]
    BY <1>2, <2>1
  <2> QED
    BY <1>1, <1>2, <1>7, <2>2 DEF OrderInv
<1>8. \A i \in 1..Len(tq') : tq'[i].call <= calls'
  BY <1>1, <1>2
<1>9. ASSUME NEW i \in 1..Len(stack'), NEW j \in 1..Len(stack'), i < j
      PROVE  stack'[i].call < stack'[j].call
  <2>1. i \in 1..Len(stack) /\ stack'[i] = stack[i]
    BY <1>3, <1>4, <1>9
  <2> QED
    BY <1>1, <1>3, <1>9, <2>1 DEF OrderInv
<1>10. ASSUME NEW j \in 1..Len(stack'), stack'[j].answer.status # "none",
              NEW i \in 1..Len(tq')
       PROVE  stack'[j].call < tq'[i].call
  <2>1. j \in 1..Len(stack) /\ stack'[j] = stack[j]
    BY <1>3, <1>5, <1>10
  <2> QED
    BY <1>1, <1>2, <1>10, <2>1 DEF OrderInv
<1>11. ASSUME NEW j \in 1..Len(stack'), NEW i \in 1..Len(tq'), tq'[i].call = stack'[j].call
       PROVE  ~tq'[i].async
  <2>1. CASE i \in 1..Len(tq) /\ tq'[i] = tq[i]
    <3>1. CASE j \in 1..Len(stack) /\ stack'[j] = stack[j]
      BY <1>11, <2>1, <3>1 DEF OrderInv
    <3>2. CASE stack'[j].call = calls + 1
      BY <1>1, <1>11, <2>1, <3>2
    <3> QED
      BY <1>3, <3>1, <3>2
  <2>2. CASE tq'[i].call = calls + 1 /\ tq'[i].async = async
    <3>1. CASE j \in 1..Len(stack) /\ stack'[j] = stack[j]
      <4>1. stack[j].call \in Nat /\ stack[j].call <= calls /\ stack[j].call = calls + 1
        BY <1>1, <1>11, <2>2, <3>1
      <4> QED
        BY ONLY <4>1, <1>1
    <3>2. CASE ~async
      BY <2>2, <3>2
    <3> QED
      BY <1>3, <3>1, <3>2
  <2> QED
    BY <1>2, <2>1, <2>2
<1>12. ASSUME NEW j \in 1..Len(stack'), stack'[j].answer.status = "none"
       PROVE  stack'[j].answer.content = 0
  BY <1>3, <1>5, <1>12 DEF OrderInv
<1>13. \A i \in 1..Len(out') : out'[i].answer.status # "none"
  BY DEF Sends, OrderInv
<1> QED
  BY <1>7, <1>8, <1>9, <1>10, <1>11, <1>12, <1>13 DEF OrderInv

\* Nothing new is in the queue.
LEMMA OrderFewer ==
    ASSUME OrderInv, NEW n, Tasks(n), calls' = calls,
           UNCHANGED <<tq, out>> \/ (Len(tq') = 0 /\ Len(out') = 0)
    PROVE  OrderInv'
<1>1. \A j \in 1..Len(stack') : j \in 1..Len(stack) /\ stack'[j] = stack[j]
  BY DEF Tasks
<1>2. CASE UNCHANGED <<tq, out>>
  BY <1>1, <1>2 DEF OrderInv
<1>3. CASE Len(tq') = 0 /\ Len(out') = 0
  <2>1. (\A i \in 1..Len(tq') : FALSE) /\ (\A i \in 1..Len(out') : FALSE)
    BY <1>3
  <2> QED
    BY <1>1, <2>1 DEF OrderInv
<1> QED
  BY <1>2, <1>3

LEMMA OrderReceive == ASSUME PdfInv, OrderInv, Receives PROVE OrderInv'
<1>1. /\ 1 \in 1..Len(tq) /\ 1 \in 1..Len(out) /\ tq[1].call = out[1].call
      /\ \A i \in 1..Len(tq') : i + 1 \in 1..Len(tq) /\ tq'[i] = tq[i + 1]
      /\ \A i \in 1..Len(out') : i + 1 \in 1..Len(out) /\ out'[i] = out[i + 1]
      /\ Len(stack') = Len(stack) /\ calls' = calls
  BY DEF Receives
<1>2. \A j \in 1..Len(stack) :
          /\ stack'[j].call = stack[j].call
          /\ stack'[j].answer = IF ~tq[1].async /\ stack[j].call = out[1].call
                                THEN out[1].answer ELSE stack[j].answer
  BY DEF Receives
<1>3. \A i, j \in 1..Len(tq') : i < j => tq'[i].call < tq'[j].call
  <2> TAKE i, j \in 1..Len(tq')
  <2> HAVE i < j
  <2>1. i + 1 \in 1..Len(tq) /\ j + 1 \in 1..Len(tq) /\ i + 1 < j + 1
    BY <1>1
  <2>2. tq[i + 1].call < tq[j + 1].call
    BY <2>1 DEF OrderInv
  <2> QED
    BY <1>1, <2>2
<1>4. \A i \in 1..Len(tq') : tq'[i].call <= calls'
  BY <1>1 DEF OrderInv
<1>5. \A i, j \in 1..Len(stack') : i < j => stack'[i].call < stack'[j].call
  BY <1>1, <1>2 DEF OrderInv
<1>6. ASSUME NEW j \in 1..Len(stack'), stack'[j].answer.status # "none",
             NEW i \in 1..Len(tq')
      PROVE  stack'[j].call < tq'[i].call
  <2>1. i + 1 \in 1..Len(tq) /\ tq'[i] = tq[i + 1] /\ 1 < i + 1
    BY <1>1
  <2>2. CASE stack[j].call = out[1].call
    BY <1>1, <1>2, <2>1, <2>2 DEF OrderInv
  <2>3. CASE stack[j].call # out[1].call
    BY <1>1, <1>2, <1>6, <2>1, <2>3 DEF OrderInv
  <2> QED
    BY <2>2, <2>3
<1>7. \A j \in 1..Len(stack'), i \in 1..Len(tq') :
         tq'[i].call = stack'[j].call => ~tq'[i].async
  <2> TAKE j \in 1..Len(stack'), i \in 1..Len(tq')
  <2>1. i + 1 \in 1..Len(tq) /\ tq'[i] = tq[i + 1]
    BY <1>1
  <2>2. j \in 1..Len(stack) /\ stack'[j].call = stack[j].call
    BY <1>1, <1>2
  <2>3. tq[i + 1].call = stack[j].call => ~tq[i + 1].async
    BY <2>1, <2>2 DEF OrderInv
  <2> QED
    BY <2>1, <2>2, <2>3
<1>8. \A j \in 1..Len(stack') :
         stack'[j].answer.status = "none" => stack'[j].answer.content = 0
  BY <1>1, <1>2 DEF OrderInv
<1>9. \A i \in 1..Len(out') : out'[i].answer.status # "none"
  BY <1>1 DEF OrderInv
<1> QED
  BY <1>3, <1>4, <1>5, <1>6, <1>7, <1>8, <1>9 DEF OrderInv

LEMMA OrderServe ==
    ASSUME OrderInv, NEW cmd, NEW a, Serves(cmd, a), a.status # "none"
    PROVE  OrderInv'
<1>1. \A i \in 1..Len(out') : out'[i].answer.status # "none"
  <2>1. \A i \in 1..Len(out') : i \in 1..Len(out) \/ i = Len(out) + 1
    BY DEF Serves
  <2> QED
    BY <2>1 DEF Serves, OrderInv
<1>2. UNCHANGED <<stack, tq, calls>>
  BY DEF Serves
<1> QED
  BY <1>1, <1>2 DEF OrderInv

-----------------------------------------------------------------------------
(***************************************************************************)
(* The tasks of commands and saves.                                        *)
(***************************************************************************)

\* The tasks above the first n are at their end.
Ended(n) ==
    proc = "run" =>
        \A j \in 1..Len(stack) : stack[j].answer.status = "none" => j \in 1..n

\* Those that wait for an answer under way stay.
LEMMA StillWaits ==
    ASSUME PdfInv, OrderInv, NEW n, Ended(n), Tasks(n) \/ \E w : TasksAnd(n, w),
           proc = "run", NEW j \in 1..Len(stack), NEW i \in 1..Len(tq),
           tq[i].call = stack[j].call
    PROVE  j \in 1..Len(stack') /\ stack'[j] = stack[j]
<1>1. j \in 1..n
  BY Unanswered DEF Ended
<1>2. Len(stack) \in Nat
  BY CallsSoFar
<1>3. n \in Nat /\ Len(stack') \in {n, n + 1}
  BY <1>2 DEF Tasks, TasksAnd
<1>4. j \in 1..Len(stack')
  BY <1>1, <1>3
<1> QED
  BY <1>1, <1>4 DEF Tasks, TasksAnd

LEMMA WaitQuery ==
    ASSUME PdfInv, OrderInv, WaitInv, NEW cmd, NEW async, Sends(cmd, async), NEW n, Ended(n),
           \/ cmd = "renderpage" /\ Tasks(n)
           \/ \E saving : TasksAnd(n, Waiting(cmd, saving))
    PROVE  WaitInv'
<1> SUFFICES ASSUME NEW i \in 1..Len(inq'), inq'[i].cmd # "renderpage"
             PROVE  \E j \in 1..Len(stack') : stack'[j].call = inq'[i].call
  BY DEF WaitInv
<1>1. CASE proc = "run" /\ i \in 1..Len(inq) /\ inq'[i] = inq[i]
  <2>1. PICK j \in 1..Len(stack) : stack[j].call = inq[i].call
    BY <1>1 DEF WaitInv
  <2>2. Len(out) + i \in 1..Len(tq) /\ tq[Len(out) + i].call = inq[i].call
    BY <1>1, CallsSoFar
  <2>3. j \in 1..Len(stack') /\ stack'[j] = stack[j]
    BY <1>1, <2>1, <2>2, StillWaits
  <2> QED
    BY <1>1, <2>1, <2>3
<1>2. CASE inq'[i].call = calls + 1 /\ inq'[i].cmd = cmd
  <2>1. PICK saving : TasksAnd(n, Waiting(cmd, saving))
    BY <1>2
  <2>2. Len(stack) \in Nat
    BY CallsSoFar
  <2>3. n + 1 \in 1..Len(stack') /\ stack'[n + 1].call = calls + 1
    BY <2>1, <2>2 DEF TasksAnd, Waiting
  <2> QED
    BY <1>2, <2>3
<1> QED
  BY <1>1, <1>2 DEF Sends

LEMMA WaitFewer ==
    ASSUME PdfInv, OrderInv, WaitInv, NEW n, Ended(n), Tasks(n), inq' = inq
    PROVE  WaitInv'
<1> SUFFICES ASSUME NEW i \in 1..Len(inq), inq[i].cmd # "renderpage"
             PROVE  \E j \in 1..Len(stack') : stack'[j].call = inq[i].call
  BY DEF WaitInv
<1>1. proc = "run"
  BY CallsSoFar
<1>2. PICK j \in 1..Len(stack) : stack[j].call = inq[i].call
  BY DEF WaitInv
<1>3. Len(out) + i \in 1..Len(tq) /\ tq[Len(out) + i].call = inq[i].call
  BY <1>1, CallsSoFar
<1>4. j \in 1..Len(stack') /\ stack'[j] = stack[j]
  BY <1>1, <1>2, <1>3, StillWaits
<1> QED
  BY <1>2, <1>4

LEMMA WaitReceive == ASSUME WaitInv, Receives PROVE WaitInv'
<1>1. inq' = inq /\ Len(stack') = Len(stack)
  BY DEF Receives
<1>2. \A j \in 1..Len(stack) : stack'[j].call = stack[j].call
  BY DEF Receives
<1> QED
  BY <1>1, <1>2 DEF WaitInv

LEMMA WaitServe == ASSUME WaitInv, NEW cmd, NEW a, Serves(cmd, a) PROVE WaitInv'
<1> SUFFICES ASSUME NEW i \in 1..Len(inq'), inq'[i].cmd # "renderpage"
             PROVE  \E j \in 1..Len(stack') : stack'[j].call = inq'[i].call
  BY DEF WaitInv
<1>1. i + 1 \in 1..Len(inq) /\ inq'[i] = inq[i + 1] /\ stack' = stack
  BY DEF Serves
<1> QED
  BY <1>1 DEF WaitInv

\* What a new task may be, for the flag that it finds or leaves
LEMMA SaveStep ==
    ASSUME SaveInv, NEW n, Tasks(n) \/ \E cmd, saving :
                              /\ TasksAnd(n, Waiting(cmd, saving))
                              /\ saving => cmd = "close"
                              /\ cmd = "save" \/ saving => n = 0 /\ modified',
           n = 0 \/ (modified => modified'), Len(stack) \in Nat
    PROVE  SaveInv'
<1>1. ASSUME NEW j \in 1..n, j \in 1..Len(stack), stack'[j] = stack[j]
      PROVE  /\ stack'[j].saving => stack'[j].cmd = "close"
             /\ stack'[j].cmd = "save" \/ stack'[j].saving => j = 1 /\ modified'
  <2>1. n # 0
    OBVIOUS
  <2> QED
    BY <1>1, <2>1 DEF SaveInv
<1>2. CASE Tasks(n)
  BY <1>1, <1>2 DEF Tasks, SaveInv
<1>3. CASE ~Tasks(n)
  <2>1. PICK cmd, saving : /\ TasksAnd(n, Waiting(cmd, saving))
                           /\ saving => cmd = "close"
                           /\ cmd = "save" \/ saving => n = 0 /\ modified'
    BY <1>3
  <2>2. /\ n \in Nat /\ Len(stack') = n + 1 /\ stack'[n + 1] = Waiting(cmd, saving)
        /\ \A i \in 1..n : i \in 1..Len(stack) /\ stack'[i] = stack[i]
    BY <2>1 DEF TasksAnd
  <2>3. Waiting(cmd, saving).cmd = cmd /\ Waiting(cmd, saving).saving = saving
    BY DEF Waiting
  <2>4. /\ stack'[n + 1].saving => stack'[n + 1].cmd = "close"
        /\ stack'[n + 1].cmd = "save" \/ stack'[n + 1].saving => n + 1 = 1 /\ modified'
    BY <2>1, <2>2, <2>3
  <2>5. \A j \in 1..Len(stack') : j \in 1..n \/ j = n + 1
    BY <2>2
  <2> QED
    BY <1>1, <2>2, <2>4, <2>5 DEF SaveInv
<1> QED
  BY <1>2, <1>3

LEMMA SaveReceive == ASSUME SaveInv, Receives, modified' = modified PROVE SaveInv'
BY DEF SaveInv, Receives

-----------------------------------------------------------------------------
(***************************************************************************)
(* What the buffer shows.                                                  *)
(***************************************************************************)

\* The task has its answer, or the answer is under way, and it is not an
\* error.
Done(j) ==
    \/ stack[j].answer.status = "ok"
    \/ \E i \in 1..Len(out) :
          out[i].call = stack[j].call /\ out[i].answer.status = "ok"

\* The file, or what another program has put in its place
Shown == touched \/ doc \in {0, disk}

\* A buffer without the modified flag that does not show its file will be
\* told: the close is under way, or the end of the edit that sets the flag.
\* A save whose close is done has made them one.
ShownInv ==
    /\ ~modified /\ ~Shown =>
          \/ \E i \in 1..Len(inq) : inq[i].cmd = "close"
          \/ 1 \in 1..Len(stack) /\ stack[1].cmd = "editannot" /\ Done(1)
    /\ 1 \in 1..Len(stack) /\ stack[1].saving /\ Done(1) => Shown

\* The answer to a task that stays is the same and as near.
LEMMA DoneStays ==
    ASSUME NEW j, stack'[j] = stack[j], out' = out
    PROVE  Done(j)' <=> Done(j)
BY DEF Done

LEMMA DoneReceive ==
    ASSUME PdfInv, OrderInv, Receives, NEW j \in 1..Len(stack)
    PROVE  Done(j)' <=> Done(j)
<1>1. /\ 1 \in 1..Len(tq) /\ 1 \in 1..Len(out) /\ tq[1].call = out[1].call
      /\ Len(out) \in Nat /\ Len(out') = Len(out) - 1
      /\ \A i \in 1..Len(out') : i + 1 \in 1..Len(out) /\ out'[i] = out[i + 1]
      /\ stack'[j].call = stack[j].call
      /\ stack'[j].answer = IF ~tq[1].async /\ stack[j].call = out[1].call
                            THEN out[1].answer ELSE stack[j].answer
  BY DEF Receives
<1>2. stack[j].call = out[1].call => ~tq[1].async /\ stack[j].answer.status = "none"
  BY <1>1, Unanswered DEF OrderInv
<1>3. ASSUME Done(j) PROVE Done(j)'
  <2>1. CASE stack[j].answer.status = "ok"
    <3>1. stack'[j].answer = stack[j].answer
      BY <1>1, <1>2, <2>1
    <3> QED
      BY <2>1, <3>1 DEF Done
  <2>2. CASE stack[j].answer.status # "ok"
    <3>1. PICK i \in 1..Len(out) : out[i].call = stack[j].call /\ out[i].answer.status = "ok"
      BY <1>3, <2>2 DEF Done
    <3>2. CASE i = 1
      BY <1>1, <1>2, <3>1, <3>2 DEF Done
    <3>3. CASE i # 1
      <4>1. i - 1 \in 1..Len(out') /\ (i - 1) + 1 = i
        BY <1>1, <3>3
      <4>2. out'[i - 1] = out[i]
        BY <1>1, <4>1
      <4> QED
        BY <1>1, <3>1, <4>1, <4>2 DEF Done
    <3> QED
      BY <3>2, <3>3
  <2> QED
    BY <2>1, <2>2
<1>4. ASSUME Done(j)' PROVE Done(j)
  <2>1. CASE stack'[j].answer.status = "ok"
    BY <1>1, <2>1 DEF Done
  <2>2. CASE stack'[j].answer.status # "ok"
    <3>1. PICK i \in 1..Len(out') :
             out'[i].call = stack'[j].call /\ out'[i].answer.status = "ok"
      BY <1>4, <2>2 DEF Done
    <3> QED
      BY <1>1, <3>1 DEF Done
  <2> QED
    BY <2>1, <2>2
<1> QED
  BY <1>3, <1>4

LEMMA DoneServe ==
    ASSUME NEW cmd, NEW a, Serves(cmd, a), NEW j
    PROVE  Done(j)' <=> Done(j) \/ (a.status = "ok" /\ inq[1].call = stack[j].call)
<1>1. /\ Len(out) \in Nat /\ Len(out') = Len(out) + 1 /\ stack' = stack
      /\ \A i \in 1..Len(out) : out'[i] = out[i]
      /\ out'[Len(out) + 1].call = inq[1].call /\ out'[Len(out) + 1].answer = a
  BY DEF Serves
<1>2. /\ \A i \in 1..Len(out') : i \in 1..Len(out) \/ i = Len(out) + 1
      /\ \A i \in 1..Len(out) : i \in 1..Len(out')
      /\ Len(out) + 1 \in 1..Len(out')
  BY <1>1
<1>3. ASSUME Done(j)' PROVE Done(j) \/ (a.status = "ok" /\ inq[1].call = stack[j].call)
  <2>1. CASE stack[j].answer.status = "ok"
    BY <2>1 DEF Done
  <2>2. CASE stack[j].answer.status # "ok"
    <3>1. PICK i \in 1..Len(out') :
             out'[i].call = stack'[j].call /\ out'[i].answer.status = "ok"
      BY <1>1, <1>3, <2>2 DEF Done
    <3> QED
      BY <1>1, <1>2, <3>1 DEF Done
  <2> QED
    BY <2>1, <2>2
<1>4. Done(j) => Done(j)'
  BY <1>1, <1>2 DEF Done
<1>5. a.status = "ok" /\ inq[1].call = stack[j].call => Done(j)'
  BY <1>1, <1>2 DEF Done
<1> QED
  BY <1>3, <1>4, <1>5

\* A task whose answer is an error is not done.
LEMMA ErrorNotDone ==
    ASSUME PdfInv, OrderInv, NEW j \in 1..Len(stack), stack[j].answer.status = "error"
    PROVE  ~Done(j)
<1> SUFFICES ASSUME NEW i \in 1..Len(out), out[i].call = stack[j].call PROVE FALSE
  BY DEF Done
<1>1. i \in 1..Len(tq) /\ tq[i].call = stack[j].call
  BY CallsSoFar
<1> QED
  BY <1>1, Unanswered

\* Neither is a new one.
LEMMA NewNotDone ==
    ASSUME PdfInv, NEW j, stack'[j].call = calls + 1, stack'[j].answer = NoAnswer,
           out' = out \/ Len(out') = 0
    PROVE  ~Done(j)'
<1>1. NoAnswer.status = "none"
  BY DEF NoAnswer
<1>2. ASSUME NEW i \in 1..Len(out'), out'[i].call = stack'[j].call PROVE FALSE
  <2>1. calls \in Nat /\ \A k \in 1..Len(out) : out[k].call \in Nat /\ out[k].call <= calls
    BY CallsSoFar
  <2>2. out' = out
    BY <1>2
  <2>3. out[i].call = calls + 1 /\ i \in 1..Len(out)
    BY <1>2, <2>2
  <2> QED
    BY <2>1, <2>3
<1> QED
  BY <1>1, <1>2 DEF Done

\* The task of the first command, for all but renderings
LEMMA Served ==
    ASSUME PdfInv, WaitInv, NEW cmd, NEW a, Serves(cmd, a), cmd # "renderpage"
    PROVE  \E j \in 1..Len(stack) : stack[j].call = inq[1].call /\ stack[j].cmd = cmd
<1>1. 1 \in 1..Len(inq) /\ inq[1].cmd = cmd
  BY DEF Serves
<1>2. PICK j \in 1..Len(stack) : stack[j].call = inq[1].call
  BY <1>1 DEF WaitInv
<1>3. TaskInv(j)
  BY DEF PdfInv, CarryInv
<1>4. inq[1].cmd = stack[j].cmd
  BY <1>1, <1>2, <1>3 DEF TaskInv
<1> QED
  BY <1>1, <1>2, <1>4

\* A query leaves what the buffer shows as it is.
LEMMA ShownQuery ==
    ASSUME PdfInv, ShownInv, NEW cmd, NEW async, Sends(cmd, async),
           Tasks(Len(stack)) \/ \E c : TasksAnd(Len(stack), Waiting(c, FALSE)),
           UNCHANGED <<modified, touched, disk, doc>>
    PROVE  ShownInv'
<1>1. CASE proc # "run"
  <2>1. doc = 0
    BY <1>1 DEF PdfInv, TypeOK
  <2>2. Shown'
    BY <2>1 DEF Shown
  <2> QED
    BY <2>2 DEF ShownInv
<1>2. CASE proc = "run"
  <2>1. out' = out /\ \A i \in 1..Len(inq) : i \in 1..Len(inq') /\ inq'[i] = inq[i]
    BY <1>2 DEF Sends
  <2>2. Shown' <=> Shown
    BY DEF Shown
  <2>3. Len(stack) \in Nat
    BY CallsSoFar
  <2>4. ASSUME 1 \in 1..Len(stack)
        PROVE  1 \in 1..Len(stack') /\ stack'[1] = stack[1]
    <3>1. stack'[1] = stack[1] /\ Len(stack') \in {Len(stack), Len(stack) + 1}
      BY <2>4 DEF Tasks, TasksAnd
    <3> QED
      BY <2>3, <2>4, <3>1
  <2>5. ASSUME 1 \notin 1..Len(stack), 1 \in 1..Len(stack')
        PROVE  ~stack'[1].saving
    <3>1. Len(stack) = 0
      BY <2>3, <2>5
    <3>2. PICK c : TasksAnd(Len(stack), Waiting(c, FALSE))
      BY <2>5, <3>1 DEF Tasks
    <3>3. stack'[Len(stack) + 1] = Waiting(c, FALSE) /\ Len(stack) + 1 = 1
      BY <3>1, <3>2 DEF TasksAnd
    <3> QED
      BY <3>3 DEF Waiting
  <2>6. ASSUME 1 \in 1..Len(stack) PROVE Done(1)' <=> Done(1)
    BY <2>1, <2>4, <2>6, DoneStays
  <2>7. ASSUME ~modified', ~Shown'
        PROVE  \/ \E i \in 1..Len(inq') : inq'[i].cmd = "close"
               \/ 1 \in 1..Len(stack') /\ stack'[1].cmd = "editannot" /\ Done(1)'
    <3>1. CASE \E i \in 1..Len(inq) : inq[i].cmd = "close"
      BY <2>1, <3>1
    <3>2. CASE 1 \in 1..Len(stack) /\ stack[1].cmd = "editannot" /\ Done(1)
      BY <2>4, <2>6, <3>2
    <3> QED
      BY <2>2, <2>7, <3>1, <3>2 DEF ShownInv
  <2>8. ASSUME 1 \in 1..Len(stack'), stack'[1].saving, Done(1)' PROVE Shown'
    BY <2>2, <2>4, <2>5, <2>6, <2>8 DEF ShownInv
  <2> QED
    BY <2>7, <2>8 DEF ShownInv
<1> QED
  BY <1>1, <1>2

LEMMA ShownRevert ==
    ASSUME PdfInv, SaveInv, Sends("close", FALSE), Idle \/ ~modified,
           TasksAnd(Len(stack), Waiting("close", FALSE))
    PROVE  ShownInv'
<1>1. \E i \in 1..Len(inq') : inq'[i].cmd = "close"
  BY DEF Sends
<1>2. Len(stack) \in Nat
  BY CallsSoFar
<1>3. ASSUME 1 \in 1..Len(stack), stack'[1].saving PROVE FALSE
  <2>1. stack'[1] = stack[1]
    BY <1>3 DEF TasksAnd
  <2>2. modified
    BY <1>3, <2>1 DEF SaveInv
  <2>3. stack # <<>>
    BY <1>3
  <2> QED
    BY <2>2, <2>3 DEF Idle
<1>4. ASSUME 1 \notin 1..Len(stack) PROVE ~stack'[1].saving
  <2>1. Len(stack) = 0
    BY <1>2, <1>4
  <2>2. stack'[Len(stack) + 1] = Waiting("close", FALSE) /\ Len(stack) + 1 = 1
    BY <2>1 DEF TasksAnd
  <2> QED
    BY <2>2 DEF Waiting
<1> QED
  BY <1>1, <1>3, <1>4 DEF ShownInv

\* The innermost task ends without changing anything that counts here.
LEMMA ShownFewer ==
    ASSUME PdfInv, ShownInv, NEW n, Tasks(n),
           UNCHANGED <<modified, touched, disk, doc, inq, out>>,
           proc = "run" /\ 1 \in 1..Len(stack) /\ stack[1].cmd = "editannot" /\ Done(1)
           => 1 \in 1..n
    PROVE  ShownInv'
<1>1. Shown' <=> Shown
  BY DEF Shown
<1>2. ASSUME 1 \in 1..Len(stack')
      PROVE  1 \in 1..Len(stack) /\ stack'[1] = stack[1] /\ (Done(1)' <=> Done(1))
  <2>1. 1 \in 1..Len(stack) /\ stack'[1] = stack[1]
    BY <1>2 DEF Tasks
  <2> QED
    BY <2>1, DoneStays
<1>3. proc # "run" => Shown
  BY DEF Shown, PdfInv, TypeOK
<1>4. ASSUME ~modified', ~Shown'
      PROVE  \/ \E i \in 1..Len(inq') : inq'[i].cmd = "close"
             \/ 1 \in 1..Len(stack') /\ stack'[1].cmd = "editannot" /\ Done(1)'
  <2>1. CASE \E i \in 1..Len(inq) : inq[i].cmd = "close"
    BY <2>1
  <2>2. CASE 1 \in 1..Len(stack) /\ stack[1].cmd = "editannot" /\ Done(1)
    <3>1. 1 \in 1..Len(stack')
      BY <1>1, <1>3, <1>4, <2>2 DEF Tasks
    <3> QED
      BY <1>2, <2>2, <3>1
  <2> QED
    BY <1>1, <1>4, <2>1, <2>2 DEF ShownInv
<1>5. ASSUME 1 \in 1..Len(stack'), stack'[1].saving, Done(1)' PROVE Shown'
  BY <1>1, <1>2, <1>5 DEF ShownInv
<1> QED
  BY <1>4, <1>5 DEF ShownInv

LEMMA ShownReceive ==
    ASSUME PdfInv, OrderInv, ShownInv, Receives, UNCHANGED <<modified, touched, disk, doc>>
    PROVE  ShownInv'
<1>1. Shown' <=> Shown
  BY DEF Shown
<1>2. inq' = inq /\ Len(stack') = Len(stack)
  BY DEF Receives
<1>3. ASSUME 1 \in 1..Len(stack)
      PROVE  /\ stack'[1].cmd = stack[1].cmd /\ stack'[1].saving = stack[1].saving
             /\ Done(1)' <=> Done(1)
  BY <1>3, DoneReceive DEF Receives
<1>4. ASSUME ~modified', ~Shown'
      PROVE  \/ \E i \in 1..Len(inq') : inq'[i].cmd = "close"
             \/ 1 \in 1..Len(stack') /\ stack'[1].cmd = "editannot" /\ Done(1)'
  <2>1. CASE \E i \in 1..Len(inq) : inq[i].cmd = "close"
    BY <1>2, <2>1
  <2>2. CASE 1 \in 1..Len(stack) /\ stack[1].cmd = "editannot" /\ Done(1)
    BY <1>2, <1>3, <2>2
  <2> QED
    BY <1>1, <1>4, <2>1, <2>2 DEF ShownInv
<1>5. ASSUME 1 \in 1..Len(stack'), stack'[1].saving, Done(1)' PROVE Shown'
  BY <1>1, <1>2, <1>3, <1>5 DEF ShownInv
<1> QED
  BY <1>4, <1>5 DEF ShownInv

\* A document that is opened shows its file.
LEMMA ShownOpen ==
    ASSUME PdfInv, SaveInv, ShownInv, NEW cmd, NEW a, Serves(cmd, a), doc' = Opened,
           cmd # "close"
    PROVE  ShownInv'
<1>1. UNCHANGED <<modified, touched, disk, stack>>
  BY DEF Serves
<1>2. Shown => Shown'
  BY <1>1 DEF Shown, Opened
<1>3. \A j : Done(j) => Done(j)'
  BY DoneServe
<1>4. ASSUME ~modified', ~Shown'
      PROVE  \/ \E i \in 1..Len(inq') : inq'[i].cmd = "close"
             \/ 1 \in 1..Len(stack') /\ stack'[1].cmd = "editannot" /\ Done(1)'
  <2>1. ASSUME NEW i \in 1..Len(inq), inq[i].cmd = "close"
        PROVE  \E k \in 1..Len(inq') : inq'[k].cmd = "close"
    <3>1. Len(inq) \in Nat /\ Len(inq') = Len(inq) - 1 /\ i # 1
      BY <2>1 DEF Serves
    <3>2. i - 1 \in 1..Len(inq') /\ (i - 1) + 1 = i
      BY <3>1
    <3>3. inq'[i - 1] = inq[i]
      BY <3>2 DEF Serves
    <3> QED
      BY <2>1, <3>2, <3>3
  <2>2. CASE 1 \in 1..Len(stack) /\ stack[1].cmd = "editannot" /\ Done(1)
    BY <1>1, <1>3, <2>2
  <2> QED
    BY <1>1, <1>2, <1>4, <2>1, <2>2 DEF ShownInv
<1>5. ASSUME 1 \in 1..Len(stack), stack[1].saving, Done(1)' PROVE Shown'
  <2>1. TaskInv(1)
    BY <1>5 DEF PdfInv, CarryInv
  <2>2. 1 \in 1..Len(inq) /\ inq[1].cmd = cmd
    BY DEF Serves
  <2>3. stack[1].cmd = "close"
    BY <1>5 DEF SaveInv
  <2>4. inq[1].call # stack[1].call
    BY <2>1, <2>2, <2>3 DEF TaskInv
  <2>5. Done(1)
    BY <1>5, <2>4, DoneServe
  <2> QED
    BY <1>2, <1>5, <2>5 DEF ShownInv
<1> QED
  BY <1>1, <1>4, <1>5 DEF ShownInv

\* An edit is always waited for.
LEMMA ShownEdit ==
    ASSUME PdfInv, WaitInv, SaveInv, NEW a, Serves("editannot", a), a.status = "ok"
    PROVE  ShownInv'
<1>1. PICK j \in 1..Len(stack) : stack[j].call = inq[1].call /\ stack[j].cmd = "editannot"
  BY Served
<1>2. j = 1 /\ stack' = stack
  BY <1>1 DEF PdfInv, EditIsBase, Serves
<1>3. Done(1)'
  BY <1>1, <1>2, DoneServe
<1>4. ~(stack[1].saving)
  BY <1>1, <1>2 DEF SaveInv
<1> QED
  BY <1>1, <1>2, <1>3, <1>4 DEF ShownInv

-----------------------------------------------------------------------------
(***************************************************************************)
(* What the images show.                                                   *)
(***************************************************************************)

\* The hooks that follow these commands throw the images away.
Clears(j) == stack[j].cmd \in {"editannot", "close"}

\* An answer that tells of another content than that of the document is
\* followed by the answer to the edit, or the close, that made it.
OutFresh ==
    proc = "run" =>
        \A i \in 1..Len(out) : out[i].answer.content \notin {0, doc} =>
            \E k \in 1..Len(out), j \in 1..Len(stack) :
                /\ i < k /\ stack[j].call = out[k].call
                /\ out[k].answer.status = "ok" /\ Clears(j)

\* As long as no image can have outlived its content: an image of another
\* content is thrown away by the end of a task that waits or by the hooks
\* that are delayed, and a rendering that will put one waits around the close
\* that will throw it away.
CalmInv ==
    calm =>
        /\ proc = "run" \/ (proc = "new" /\ stack = <<>> /\ out = <<>> /\ cache = {})
        /\ \/ cache \subseteq {doc} \/ delayed
           \/ \E j \in 1..Len(stack) : Clears(j) /\ Done(j)
        /\ \A j \in 1..Len(stack) :
              stack[j].cmd = "renderpage" /\ stack[j].answer.content \notin {0, doc} =>
                  \E k \in 1..Len(stack) : j < k /\ stack[k].cmd = "close" /\ Done(k)

LEMMA FreshStack ==
    ASSUME PdfInv, OrderInv, OutFresh, NEW n, Ended(n), Tasks(n) \/ \E w : TasksAnd(n, w),
           doc' = doc, IF proc = "run" THEN out' = out ELSE Len(out') = 0 \/ proc' # "run"
    PROVE  OutFresh'
<1> SUFFICES ASSUME proc = "run", NEW i \in 1..Len(out), out[i].answer.content \notin {0, doc}
             PROVE  \E k \in 1..Len(out), j \in 1..Len(stack') :
                       /\ i < k /\ stack'[j].call = out[k].call
                       /\ out[k].answer.status = "ok"
                       /\ stack'[j].cmd \in {"editannot", "close"}
  <2>1. Len(out') = 0 => \A i \in 1..Len(out') : FALSE
    OBVIOUS
  <2> QED
    BY <2>1 DEF OutFresh, Clears
<1>1. PICK k \in 1..Len(out), j \in 1..Len(stack) :
         /\ i < k /\ stack[j].call = out[k].call
         /\ out[k].answer.status = "ok" /\ Clears(j)
  BY DEF OutFresh
<1>2. k \in 1..Len(tq) /\ tq[k].call = stack[j].call
  BY <1>1, CallsSoFar
<1>3. j \in 1..Len(stack') /\ stack'[j] = stack[j]
  BY <1>1, <1>2, StillWaits
<1> QED
  BY <1>1, <1>3 DEF Clears

LEMMA FreshReceive ==
    ASSUME OutFresh, Receives, doc' = doc
    PROVE  OutFresh'
<1> SUFFICES ASSUME proc = "run", NEW i \in 1..Len(out'),
                    out'[i].answer.content \notin {0, doc}
             PROVE  \E k \in 1..Len(out'), j \in 1..Len(stack') :
                       /\ i < k /\ stack'[j].call = out'[k].call
                       /\ out'[k].answer.status = "ok"
                       /\ stack'[j].cmd \in {"editannot", "close"}
  BY DEF OutFresh, Clears, Receives
<1>1. /\ i + 1 \in 1..Len(out) /\ out'[i] = out[i + 1]
      /\ Len(out) \in Nat /\ Len(out') = Len(out) - 1 /\ Len(stack') = Len(stack)
  BY DEF Receives
<1>2. PICK k \in 1..Len(out), j \in 1..Len(stack) :
         /\ i + 1 < k /\ stack[j].call = out[k].call
         /\ out[k].answer.status = "ok" /\ Clears(j)
  BY <1>1 DEF OutFresh
<1>3. k - 1 \in 1..Len(out') /\ i < k - 1 /\ (k - 1) + 1 = k
  BY <1>1, <1>2
<1>4. out'[k - 1] = out[k]
  BY <1>3 DEF Receives
<1>5. stack'[j].call = stack[j].call /\ stack'[j].cmd = stack[j].cmd
  BY DEF Receives
<1> QED
  BY <1>1, <1>2, <1>3, <1>4, <1>5 DEF Clears

LEMMA FreshServe ==
    ASSUME PdfInv, WaitInv, OutFresh, NEW cmd, NEW a, Serves(cmd, a),
           a.content \in {0, doc'},
           \/ doc' = Opened
           \/ cmd \in {"editannot", "close"} /\ a.status = "ok"
    PROVE  OutFresh'
<1>1. /\ Len(out) \in Nat /\ Len(out') = Len(out) + 1 /\ stack' = stack
      /\ \A i \in 1..Len(out) : out'[i] = out[i]
      /\ out'[Len(out) + 1].call = inq[1].call /\ out'[Len(out) + 1].answer = a
      /\ proc = "run"
  BY DEF Serves
<1>2. /\ \A i \in 1..Len(out') : i \in 1..Len(out) \/ i = Len(out) + 1
      /\ \A i \in 1..Len(out) : i \in 1..Len(out') /\ i < Len(out) + 1
      /\ Len(out) + 1 \in 1..Len(out')
  BY <1>1
<1> SUFFICES ASSUME NEW i \in 1..Len(out'), out'[i].answer.content \notin {0, doc'}
             PROVE  \E k \in 1..Len(out'), j \in 1..Len(stack) :
                       /\ i < k /\ stack[j].call = out'[k].call
                       /\ out'[k].answer.status = "ok" /\ Clears(j)
  BY <1>1 DEF OutFresh, Clears
<1>3. i \in 1..Len(out) /\ out'[i] = out[i]
  BY <1>1, <1>2
<1>4. CASE out[i].answer.content \notin {0, doc}
  <2>1. PICK k \in 1..Len(out), j \in 1..Len(stack) :
           /\ i < k /\ stack[j].call = out[k].call
           /\ out[k].answer.status = "ok" /\ Clears(j)
    BY <1>1, <1>3, <1>4 DEF OutFresh
  <2> QED
    BY <1>1, <1>2, <2>1
<1>5. CASE out[i].answer.content \in {0, doc}
  <2>1. cmd \in {"editannot", "close"} /\ a.status = "ok"
    BY <1>3, <1>5 DEF Opened
  <2>2. PICK j \in 1..Len(stack) : stack[j].call = inq[1].call /\ stack[j].cmd = cmd
    BY <2>1, Served
  <2> QED
    BY <1>1, <1>2, <1>3, <2>1, <2>2 DEF Clears
<1> QED
  BY <1>4, <1>5

\* A query: a new task has no image, and nothing else changes here.
LEMMA CalmPush ==
    ASSUME PdfInv, CalmInv, NEW cmd, NEW async, Sends(cmd, async),
           Tasks(Len(stack)) \/ \E c, saving : TasksAnd(Len(stack), Waiting(c, saving)),
           UNCHANGED <<cache, delayed, doc, calm>>
    PROVE  CalmInv'
<1> SUFFICES ASSUME calm
             PROVE  /\ proc' = "run"
                    /\ \/ cache \subseteq {doc} \/ delayed
                       \/ \E j \in 1..Len(stack') : Clears(j)' /\ Done(j)'
                    /\ \A j \in 1..Len(stack') :
                          stack'[j].cmd = "renderpage" /\ stack'[j].answer.content \notin {0, doc} =>
                              \E k \in 1..Len(stack') : j < k /\ stack'[k].cmd = "close" /\ Done(k)'
  BY DEF CalmInv
<1>1. proc' = "run" /\ Len(stack) \in Nat
  BY CallsSoFar DEF Sends
<1>2. CASE proc # "run"
  <2>1. cache = {} /\ Len(stack) = 0
    BY <1>2 DEF CalmInv
  <2>2. \A j \in 1..Len(stack') : stack'[j].answer.content = 0
    <3>1. CASE Tasks(Len(stack))
      BY <2>1, <3>1 DEF Tasks
    <3>2. ASSUME NEW c, NEW saving, TasksAnd(Len(stack), Waiting(c, saving))
          PROVE  \A j \in 1..Len(stack') : stack'[j].answer.content = 0
      <4>1. Len(stack') = 1 /\ stack'[Len(stack) + 1] = Waiting(c, saving) /\ Len(stack) + 1 = 1
        BY <2>1, <3>2 DEF TasksAnd
      <4> QED
        BY <4>1 DEF Waiting, NoAnswer
    <3> QED
      BY <3>1, <3>2
  <2> QED
    BY <1>1, <2>1, <2>2
<1>3. CASE proc = "run"
  <2>1. out' = out
    BY <1>3 DEF Sends
  <2>2. ASSUME NEW j \in 1..Len(stack)
        PROVE  j \in 1..Len(stack') /\ stack'[j] = stack[j] /\ (Done(j)' <=> Done(j))
    <3>1. stack'[j] = stack[j] /\ Len(stack') \in {Len(stack), Len(stack) + 1}
      BY DEF Tasks, TasksAnd
    <3>2. j \in 1..Len(stack')
      BY <1>1, <3>1
    <3> QED
      BY <2>1, <3>1, <3>2, DoneStays
  <2>3. ASSUME NEW j \in 1..Len(stack'), j \notin 1..Len(stack)
        PROVE  stack'[j].answer.content = 0
    <3>1. PICK c, saving : TasksAnd(Len(stack), Waiting(c, saving))
      BY <2>3 DEF Tasks
    <3>2. Len(stack') = Len(stack) + 1 /\ stack'[Len(stack) + 1] = Waiting(c, saving)
      BY <3>1 DEF TasksAnd
    <3>3. j = Len(stack) + 1
      BY <1>1, <2>3, <3>2
    <3> QED
      BY <3>2, <3>3 DEF Waiting, NoAnswer
  <2>4. \/ cache \subseteq {doc} \/ delayed
        \/ \E j \in 1..Len(stack') : Clears(j)' /\ Done(j)'
    BY <2>2 DEF CalmInv, Clears
  <2>5. ASSUME NEW j \in 1..Len(stack'), stack'[j].cmd = "renderpage",
               stack'[j].answer.content \notin {0, doc}
        PROVE  \E k \in 1..Len(stack') : j < k /\ stack'[k].cmd = "close" /\ Done(k)'
    <3>1. j \in 1..Len(stack)
      BY <2>3, <2>5
    <3>2. PICK k \in 1..Len(stack) : j < k /\ stack[k].cmd = "close" /\ Done(k)
      BY <2>2, <2>5, <3>1 DEF CalmInv
    <3> QED
      BY <2>2, <3>2
  <2> QED
    BY <1>1, <2>4, <2>5
<1> QED
  BY <1>2, <1>3

\* A task takes the place of the only one that waits.
LEMMA CalmReplace ==
    ASSUME NEW cmd, NEW saving, TasksAnd(0, Waiting(cmd, saving)), proc' = "run",
           calm' => cache' \subseteq {doc'} \/ delayed'
    PROVE  CalmInv'
<1>1. Len(stack') = 1 /\ stack'[1].answer.content = 0
  <2>1. Len(stack') = 1 /\ stack'[0 + 1] = Waiting(cmd, saving) /\ 0 + 1 = 1
    BY DEF TasksAnd
  <2> QED
    BY <2>1 DEF Waiting, NoAnswer
<1> QED
  BY <1>1 DEF CalmInv

\* The images are thrown away.
LEMMA CalmCleared ==
    ASSUME ClearImages, stack' = Below, UNCHANGED proc \/ (proc # "run" /\ proc' # "run"),
           Below \in Seq(Frame)
    PROVE  CalmInv'
<1>1. cache' = {} /\ (calm' => proc = "run" /\ \A i \in DOMAIN Below : Below[i].cmd # "renderpage")
  BY DEF ClearImages
<1>2. DOMAIN Below = 1..Len(Below)
  OBVIOUS
<1> HIDE DEF Below
<1> QED
  BY <1>1, <1>2 DEF CalmInv

\* The innermost task ends: one that throws no image away, and puts one of
\* the document at most.
LEMMA CalmFewer ==
    ASSUME PdfInv, CalmInv, stack # <<>>, Tasks(Len(stack) - 1),
           UNCHANGED <<delayed, proc, out, doc, calm>>,
           calm => cache' \subseteq cache \cup {doc},
           proc = "run" => ~(Clears(Len(stack)) /\ Done(Len(stack)))
    PROVE  CalmInv'
<1> DEFINE n == Len(stack) - 1
<1>1. Len(stack) \in Nat /\ Len(stack) # 0 /\ n \in Nat
  <2>1. stack \in Seq(Frame)
    BY DEF PdfInv, TypeOK
  <2> QED
    BY <2>1
<1>2. /\ Len(stack') = n
      /\ \A j \in 1..n : j \in 1..Len(stack) /\ stack'[j] = stack[j]
  BY DEF Tasks
<1>3. \A j \in 1..Len(stack) : j \in 1..n \/ j = Len(stack)
  BY <1>1
<1> HIDE DEF n
<1>4. \A j \in 1..n : Done(j)' <=> Done(j)
  BY <1>2, DoneStays
<1> SUFFICES ASSUME calm
             PROVE  /\ proc = "run"
                    /\ \/ cache' \subseteq {doc} \/ delayed
                       \/ \E j \in 1..n : Clears(j) /\ Done(j)
                    /\ \A j \in 1..n :
                          stack[j].cmd = "renderpage" /\ stack[j].answer.content \notin {0, doc} =>
                              \E k \in 1..n : j < k /\ stack[k].cmd = "close" /\ Done(k)
  BY <1>2, <1>4 DEF CalmInv, Clears
<1>5. proc = "run"
  BY DEF CalmInv
<1>6. \A j \in 1..Len(stack) : Clears(j) /\ Done(j) => j \in 1..n
  BY <1>3, <1>5
<1>7. \/ cache' \subseteq {doc} \/ delayed
      \/ \E j \in 1..n : Clears(j) /\ Done(j)
  BY <1>6 DEF CalmInv
<1>8. \A j \in 1..n :
         stack[j].cmd = "renderpage" /\ stack[j].answer.content \notin {0, doc} =>
             \E k \in 1..n : j < k /\ stack[k].cmd = "close" /\ Done(k)
  <2> SUFFICES ASSUME NEW j \in 1..n, stack[j].cmd = "renderpage",
                      stack[j].answer.content \notin {0, doc}
               PROVE  \E k \in 1..n : j < k /\ stack[k].cmd = "close" /\ Done(k)
    OBVIOUS
  <2>1. PICK k \in 1..Len(stack) : j < k /\ stack[k].cmd = "close" /\ Done(k)
    BY <1>2 DEF CalmInv
  <2>2. k \in 1..n
    BY <1>6, <2>1 DEF Clears
  <2> QED
    BY <2>1, <2>2
<1> QED
  BY <1>5, <1>7, <1>8

\* Inner tasks have later calls.
LEMMA CallOrder ==
    ASSUME PdfInv, OrderInv, NEW j \in 1..Len(stack), NEW k \in 1..Len(stack),
           stack[j].call < stack[k].call
    PROVE  j < k
<1>1. stack[j].call \in Nat /\ stack[k].call \in Nat
  BY CallsSoFar
<1>2. k < j => stack[k].call < stack[j].call
  BY DEF OrderInv
<1>3. k # j /\ ~(k < j)
  BY <1>1, <1>2
<1> QED
  BY <1>3

\* When the first answer tells of another content, the task that will throw
\* its image away waits inside the one that it is for.
LEMMA FirstAnswer ==
    ASSUME PdfInv, OrderInv, OutFresh, proc = "run", Receives,
           out[1].answer.content \notin {0, doc}
    PROVE  \E j \in 1..Len(stack) :
              Clears(j) /\ Done(j) /\ out[1].call < stack[j].call
<1>1. 1 \in 1..Len(out) /\ tq[1].call = out[1].call
  BY DEF Receives
<1>2. PICK k \in 1..Len(out), j \in 1..Len(stack) :
         /\ 1 < k /\ stack[j].call = out[k].call
         /\ out[k].answer.status = "ok" /\ Clears(j)
  BY <1>1 DEF OutFresh
<1>3. k \in 1..Len(tq) /\ 1 \in 1..Len(tq) /\ tq[k].call = out[k].call
  BY CallsSoFar DEF Receives
<1>4. tq[1].call < tq[k].call
  BY <1>2, <1>3 DEF OrderInv
<1>5. Done(j)
  BY <1>2 DEF Done
<1> QED
  BY <1>1, <1>2, <1>3, <1>4, <1>5

LEMMA CalmReceive ==
    ASSUME PdfInv, OrderInv, OutFresh, CalmInv, Receives, UNCHANGED <<delayed, doc, calm>>,
           \/ cache' = cache
           \/ out[1].answer.content \in Content /\ cache' = cache \cup {out[1].answer.content}
    PROVE  CalmInv'
<1> SUFFICES ASSUME calm
             PROVE  /\ proc = "run"
                    /\ \/ cache' \subseteq {doc} \/ delayed
                       \/ \E j \in 1..Len(stack) : Clears(j) /\ Done(j)
                    /\ \A j \in 1..Len(stack) :
                          stack[j].cmd = "renderpage" /\ stack'[j].answer.content \notin {0, doc} =>
                              \E k \in 1..Len(stack) : j < k /\ stack[k].cmd = "close" /\ Done(k)
  <2>1. \A j \in 1..Len(stack) : Done(j)' <=> Done(j)
    BY DoneReceive
  <2>2. /\ Len(stack') = Len(stack) /\ proc' = proc
        /\ \A j \in 1..Len(stack) : stack'[j].cmd = stack[j].cmd
    BY DEF Receives
  <2> QED
    BY <2>1, <2>2 DEF CalmInv, Clears
<1>1. proc = "run"
  <2>1. 1 \in 1..Len(out) /\ 1 \in 1..Len(tq)
    BY DEF Receives
  <2> QED
    BY <2>1 DEF CalmInv
<1>2. ASSUME ~(cache' \subseteq {doc}), ~delayed
      PROVE  \E j \in 1..Len(stack) : Clears(j) /\ Done(j)
  <2>1. CASE cache \subseteq {doc}
    <3>1. out[1].answer.content \in Content /\ out[1].answer.content # doc
      BY <1>2, <2>1
    <3>2. out[1].answer.content \notin {0, doc}
      BY <3>1 DEF Content
    <3> QED
      BY <1>1, <3>2, FirstAnswer
  <2>2. CASE ~(cache \subseteq {doc})
    BY <1>2, <2>2 DEF CalmInv
  <2> QED
    BY <2>1, <2>2
<1>3. ASSUME NEW j \in 1..Len(stack), stack[j].cmd = "renderpage",
             stack'[j].answer.content \notin {0, doc}
      PROVE  \E k \in 1..Len(stack) : j < k /\ stack[k].cmd = "close" /\ Done(k)
  <2>1. stack'[j].answer = IF ~tq[1].async /\ stack[j].call = out[1].call
                           THEN out[1].answer ELSE stack[j].answer
    BY DEF Receives
  <2>2. CASE stack'[j].answer = stack[j].answer
    BY <1>3, <2>2 DEF CalmInv
  <2>3. CASE stack[j].call = out[1].call /\ stack'[j].answer = out[1].answer
    <3>1. PICK k \in 1..Len(stack) : Clears(k) /\ Done(k) /\ out[1].call < stack[k].call
      BY <1>1, <1>3, <2>3, FirstAnswer
    <3>2. j < k
      BY <2>3, <3>1, CallOrder
    <3>3. stack[k].cmd # "editannot"
      BY <3>2 DEF PdfInv, EditIsBase
    <3> QED
      BY <3>1, <3>2, <3>3 DEF Clears
  <2> QED
    BY <2>1, <2>2, <2>3
<1> QED
  BY <1>1, <1>2, <1>3

\* The process opens its document.
LEMMA CalmOpen ==
    ASSUME PdfInv, CalmInv, NEW cmd, NEW a, Serves(cmd, a), doc' = Opened
    PROVE  CalmInv'
<1>1. UNCHANGED <<stack, cache, delayed, proc, calm>> /\ proc = "run"
  BY DEF Serves
<1>2. \A j : Done(j) => Done(j)'
  BY DoneServe
<1>3. doc' = doc \/ doc = 0
  BY DEF Opened
<1>4. cache \subseteq {doc} => cache \subseteq {doc'}
  <2>1. cache \subseteq Content
    BY DEF PdfInv, TypeOK
  <2>2. 0 \notin cache
    BY <2>1 DEF Content
  <2> QED
    BY <1>3, <2>2
<1>5. \A x : x \notin {0, doc'} => x \notin {0, doc}
  BY <1>3
<1> QED
  BY <1>1, <1>2, <1>4, <1>5 DEF CalmInv, Clears

\* The process leaves the content: the task of that command is the innermost
\* that has an answer under way.
LEMMA CalmLeave ==
    ASSUME PdfInv, OrderInv, WaitInv, CalmInv, NEW cmd \in {"editannot", "close"},
           NEW a, Serves(cmd, a), a.status = "ok"
    PROVE  CalmInv'
<1>1. UNCHANGED <<stack, cache, delayed, proc, calm>> /\ proc = "run"
  BY DEF Serves
<1>2. PICK m \in 1..Len(stack) : stack[m].call = inq[1].call /\ stack[m].cmd = cmd
  BY Served
<1>3. Done(m)'
  BY <1>2, DoneServe
<1>4. ASSUME NEW j \in 1..Len(stack), stack[j].cmd = "renderpage",
             stack[j].answer.content # 0
      PROVE  j < m /\ cmd = "close"
  <2>1. Len(out) + 1 \in 1..Len(tq) /\ tq[Len(out) + 1].call = stack[m].call
    BY <1>2 DEF Serves
  <2>2. stack[j].call < stack[m].call
    BY <1>4, <2>1 DEF OrderInv
  <2>3. j < m
    BY <2>2, CallOrder
  <2>4. m # 1
    BY <2>3
  <2> QED
    BY <1>2, <2>3, <2>4 DEF PdfInv, EditIsBase
<1>5. \E j \in 1..Len(stack) : Clears(j)' /\ Done(j)'
  BY <1>1, <1>2, <1>3 DEF Clears
<1> QED
  BY <1>1, <1>2, <1>3, <1>4, <1>5 DEF CalmInv

-----------------------------------------------------------------------------
(***************************************************************************)
(* Every step.                                                             *)
(***************************************************************************)

ShowInv == TasksInv /\ ShownInv /\ OutFresh /\ CalmInv

\* A query with a task that waits inside the others
LEMMA PushShow ==
    ASSUME PdfInv, ShowInv, NEW cmd \in Command, Query(cmd, FALSE),
           stack' = Append(stack, Waiting(cmd, FALSE)),
           UNCHANGED <<cache, delayed, doc, calm>>,
           cmd = "save" => Idle /\ modified',
           \/ UNCHANGED <<modified, touched, disk>>
           \/ MayRevert /\ cmd = "close" /\ ~modified'
    PROVE  ShowInv'
<1>1. Sends(cmd, FALSE)
  BY Sending
<1>2. TasksAnd(Len(stack), Waiting(cmd, FALSE))
  BY QueryInv, WaitingType, PushTasks
<1>3. Len(stack) \in Nat /\ (Idle => Len(stack) = 0) /\ Ended(Len(stack))
  BY CallsSoFar DEF Idle, Ended
<1>4. OrderInv'
  BY <1>1, <1>2, OrderQuery DEF ShowInv, TasksInv, NewTask
<1>5. WaitInv'
  BY <1>1, <1>2, <1>3, WaitQuery DEF ShowInv, TasksInv
<1>6. SaveInv'
  <2>1. Len(stack) = 0 \/ (modified => modified')
    BY <1>3 DEF MayRevert
  <2>2. cmd = "save" => Len(stack) = 0 /\ modified'
    BY <1>3
  <2> QED
    BY <1>2, <1>3, <2>1, <2>2, SaveStep DEF ShowInv, TasksInv
<1>7. ShownInv'
  <2>1. CASE UNCHANGED <<modified, touched, disk>>
    BY <1>1, <1>2, <2>1, ShownQuery DEF ShowInv
  <2>2. CASE MayRevert /\ cmd = "close" /\ ~modified'
    BY <1>1, <1>2, <2>2, ShownRevert DEF ShowInv, TasksInv, MayRevert
  <2> QED
    BY <2>1, <2>2
<1>8. OutFresh'
  <2>1. IF proc = "run" THEN out' = out ELSE Len(out') = 0
    BY <1>1 DEF Sends
  <2> QED
    BY <1>2, <1>3, <2>1, FreshStack DEF ShowInv, TasksInv
<1>9. CalmInv'
  BY <1>1, <1>2, CalmPush DEF ShowInv
<1> QED
  BY <1>4, <1>5, <1>6, <1>7, <1>8, <1>9 DEF ShowInv, TasksInv

\* A query that no task waits for
LEMMA PrefetchShow == ASSUME PdfInv, ShowInv, Prefetch PROVE ShowInv'
<1>1. /\ Query("renderpage", TRUE) /\ "renderpage" \in Command
      /\ UNCHANGED <<modified, cache, delayed, stack, disk, touched, doc, calm>>
  BY DEF Prefetch, lispVars, fileVars, Command
<1>2. Sends("renderpage", TRUE)
  BY <1>1, Sending
<1>3. Len(stack) \in Nat /\ Ended(Len(stack))
  BY CallsSoFar DEF Ended
<1>4. Tasks(Len(stack))
  BY <1>1, <1>3 DEF Tasks
<1>5. OrderInv'
  BY <1>2, <1>4, OrderQuery DEF ShowInv, TasksInv, NewTask
<1>6. WaitInv'
  BY <1>2, <1>3, <1>4, WaitQuery DEF ShowInv, TasksInv
<1>7. SaveInv'
  BY <1>1, <1>3, <1>4, SaveStep DEF ShowInv, TasksInv
<1>8. ShownInv'
  BY <1>1, <1>2, <1>4, ShownQuery DEF ShowInv
<1>9. OutFresh'
  <2>1. IF proc = "run" THEN out' = out ELSE Len(out') = 0
    BY <1>2 DEF Sends
  <2> QED
    BY <1>1, <1>3, <1>4, <2>1, FreshStack DEF ShowInv, TasksInv
<1>10. CalmInv'
  BY <1>1, <1>2, <1>4, CalmPush DEF ShowInv
<1> QED
  BY <1>5, <1>6, <1>7, <1>8, <1>9, <1>10 DEF ShowInv, TasksInv

\* Without a process there is nothing under way, and no document.
LEMMA NoRestartShow ==
    ASSUME PdfInv, ShowInv, NoRestart, NEW n, Tasks(n), doc' = doc,
           n = 0 \/ (modified => modified'), CalmInv'
    PROVE  ShowInv'
<1>1. /\ proc # "run" /\ proc' = "none" /\ tq' = <<>> /\ out' = <<>>
      /\ calls' = calls /\ inq' = inq
  BY DEF NoRestart
<1>2. doc = 0 /\ Len(stack) \in Nat
  BY <1>1, CallsSoFar DEF PdfInv, TypeOK
<1>3. Ended(n)
  BY <1>1 DEF Ended
<1>4. OrderInv'
  <2>1. Len(tq') = 0 /\ Len(out') = 0
    BY <1>1
  <2> QED
    BY <1>1, <2>1, OrderFewer DEF ShowInv, TasksInv
<1>5. WaitInv'
  BY <1>1, <1>3, WaitFewer DEF ShowInv, TasksInv
<1>6. SaveInv'
  BY <1>2, SaveStep DEF ShowInv, TasksInv
<1>7. ShownInv'
  BY <1>2 DEF ShownInv, Shown
<1>8. OutFresh'
  BY <1>1 DEF OutFresh
<1> QED
  BY <1>4, <1>5, <1>6, <1>7, <1>8 DEF ShowInv, TasksInv

\* The innermost task ends, and the rest is left as it is.
LEMMA PopShow ==
    ASSUME PdfInv, ShowInv, ~Idle, stack' = Below, UNCHANGED pipeVars,
           Top.answer.status # "none" \/ ServerQuit, doc' = doc,
           Len(stack) = 1 \/ (modified => modified'),
           ShownInv', CalmInv'
    PROVE  ShowInv'
<1>1. UNCHANGED <<calls, tq, proc, inq, out>> /\ stack # <<>>
  BY DEF pipeVars, Idle
<1>2. Tasks(Len(stack) - 1)
  BY <1>1, PopTasks
<1>3. Len(stack) \in Nat
  BY CallsSoFar
<1>4. Ended(Len(stack) - 1)
  <2> SUFFICES ASSUME proc = "run", NEW j \in 1..Len(stack), stack[j].answer.status = "none"
               PROVE  j \in 1..(Len(stack) - 1)
    BY DEF Ended
  <2>1. Top.answer.status # "none"
    BY DEF ServerQuit
  <2>2. j # Len(stack)
    BY <2>1 DEF Top
  <2> QED
    BY <1>3, <2>2
<1>5. OrderInv'
  BY <1>1, <1>2, OrderFewer DEF ShowInv, TasksInv
<1>6. WaitInv'
  BY <1>1, <1>2, <1>4, WaitFewer DEF ShowInv, TasksInv
<1>7. SaveInv'
  <2>1. Len(stack) - 1 = 0 \/ (modified => modified')
    BY <1>3
  <2> QED
    BY <1>2, <1>3, <2>1, SaveStep DEF ShowInv, TasksInv
<1>8. OutFresh'
  <2>1. IF proc = "run" THEN out' = out ELSE proc' # "run"
    BY <1>1
  <2> QED
    BY <1>2, <1>4, <2>1, FreshStack DEF ShowInv, TasksInv
<1> QED
  BY <1>5, <1>6, <1>7, <1>8 DEF ShowInv, TasksInv

LEMMA StartShow == ASSUME PdfInv, ShowInv, Start PROVE ShowInv'
<1>1. {"renderpage", "editannot", "save", "close"} \subseteq Command
  BY DEF Command
<1>2. CASE Render
  BY <1>1, <1>2, PushShow DEF Render, fileVars
<1>3. CASE Prefetch
  BY <1>3, PrefetchShow
<1>4. CASE PutAnnot
  BY <1>1, <1>4, PushShow DEF PutAnnot, fileVars
<1>5. CASE Save
  BY <1>1, <1>5, PushShow DEF Save, fileVars
<1>6. CASE Revert
  BY <1>1, <1>6, PushShow DEF Revert
<1>7. CASE Refused
  <2>1. /\ NoRestart /\ UNCHANGED <<cache, delayed, stack, doc, calm>>
        /\ Idle \/ (modified => modified')
    BY <1>7 DEF Refused, MayRevert
  <2>2. Len(stack) \in Nat /\ (Idle => Len(stack) = 0)
    BY CallsSoFar DEF Idle
  <2>3. Tasks(Len(stack))
    BY <2>1, <2>2 DEF Tasks
  <2>4. ~calm
    BY <2>1 DEF NoRestart, ShowInv, CalmInv
  <2>5. CalmInv'
    BY <2>1, <2>4 DEF CalmInv
  <2> QED
    BY <2>1, <2>2, <2>3, <2>5, NoRestartShow
<1> QED
  BY <1>2, <1>3, <1>4, <1>5, <1>6, <1>7 DEF Start

\* An edit, a save and the close of a save are the outermost task; the flag
\* is set while the content is saved.
LEMMA TopIsBase ==
    ASSUME PdfInv, ShowInv, ~Idle
    PROVE  /\ Len(stack) \in 1..Len(stack) /\ Len(stack) \in Nat /\ Top = stack[Len(stack)]
           /\ Top.cmd \in {"editannot", "save"} \/ Top.saving => Len(stack) = 1
           /\ Top.cmd = "save" \/ Top.saving => modified
<1>1. stack \in Seq(Frame) /\ stack # <<>>
  BY DEF PdfInv, TypeOK, Idle
<1>2. Len(stack) \in 1..Len(stack) /\ Len(stack) \in Nat /\ Top = stack[Len(stack)]
  BY <1>1 DEF Top
<1>3. Top.cmd = "editannot" => Len(stack) = 1
  BY <1>2 DEF PdfInv, EditIsBase
<1>4. Top.cmd = "save" \/ Top.saving => Len(stack) = 1 /\ modified
  BY <1>2 DEF ShowInv, TasksInv, SaveInv
<1> QED
  BY <1>2, <1>3, <1>4

\* A task takes the place of the only one.
LEMMA ReplaceShow ==
    ASSUME PdfInv, ShowInv, ~Idle, Top.cmd \in {"editannot", "save"}, Top.answer.status = "ok",
           NEW cmd \in Command, NEW saving \in BOOLEAN, cmd # "save", saving => cmd = "close",
           Query(cmd, FALSE), stack' = Append(Below, Waiting(cmd, saving)),
           modified', doc' = doc, calm' => cache' \subseteq {doc'} \/ delayed'
    PROVE  ShowInv'
<1>1. Sends(cmd, FALSE)
  BY Sending
<1>2. Len(stack) = 1 /\ stack # <<>> /\ Top = stack[1]
  BY TopIsBase DEF Idle
<1>3. TasksAnd(0, Waiting(cmd, saving))
  <2>1. TasksAnd(Len(stack) - 1, Waiting(cmd, saving))
    BY <1>2, QueryInv, WaitingType, ReplaceTasks
  <2>2. Len(stack) - 1 = 0
    BY <1>2
  <2> QED
    BY <2>1, <2>2
<1>4. Ended(0)
  BY <1>2 DEF Ended
<1>5. OrderInv'
  BY <1>1, <1>3, OrderQuery DEF ShowInv, TasksInv, NewTask
<1>6. WaitInv'
  BY <1>1, <1>3, <1>4, WaitQuery DEF ShowInv, TasksInv
<1>7. SaveInv'
  BY <1>2, <1>3, SaveStep DEF ShowInv, TasksInv
<1>8. IF proc = "run" THEN out' = out ELSE Len(out') = 0
  BY <1>1 DEF Sends
<1>9. ShownInv'
  <2>1. stack'[0 + 1] = Waiting(cmd, saving) /\ 0 + 1 = 1
    BY <1>3 DEF TasksAnd
  <2>2. stack'[1].call = calls + 1 /\ stack'[1].answer = NoAnswer
    BY <2>1 DEF Waiting
  <2>3. ~Done(1)'
    BY <1>8, <2>2, NewNotDone
  <2> QED
    BY <2>3 DEF ShownInv
<1>10. OutFresh'
  BY <1>3, <1>4, <1>8, FreshStack DEF ShowInv, TasksInv
<1>11. CalmInv'
  BY <1>1, <1>3, CalmReplace DEF Sends
<1> QED
  BY <1>5, <1>6, <1>7, <1>9, <1>10, <1>11 DEF ShowInv, TasksInv

LEMMA PutImageShow == ASSUME PdfInv, ShowInv, PutImage PROVE ShowInv'
<1>1. /\ ~Idle /\ Top.cmd = "renderpage" /\ Top.answer.status = "ok" /\ stack' = Below
      /\ cache' = cache \cup {Top.answer.content}
      /\ UNCHANGED <<modified, delayed, disk, touched, doc, calm>> /\ UNCHANGED pipeVars
  BY DEF PutImage, Returned, fileVars
<1>2. /\ Len(stack) \in 1..Len(stack) /\ Len(stack) \in Nat /\ Top = stack[Len(stack)]
      /\ stack # <<>>
  BY <1>1, TopIsBase DEF Idle
<1>3. Tasks(Len(stack) - 1) /\ UNCHANGED <<proc, inq, out>>
  BY <1>1, <1>2, PopTasks DEF pipeVars
<1>4. ShownInv'
  <2>1. 1 \in 1..Len(stack) /\ stack[1].cmd = "editannot" => 1 \in 1..(Len(stack) - 1)
    BY <1>1, <1>2
  <2> QED
    BY <1>1, <1>3, <2>1, ShownFewer DEF ShowInv
<1>5. calm => cache' \subseteq cache \cup {doc}
  <2>1. TaskInv(Len(stack))
    BY <1>2 DEF PdfInv, CarryInv
  <2>2. Top.answer.content \in Content
    BY <1>1, <1>2, <2>1 DEF TaskInv, Carries
  <2>3. Top.answer.content # 0
    BY <2>2 DEF Content
  <2>4. \A k \in 1..Len(stack) : ~(Len(stack) < k)
    BY <1>2
  <2>5. calm => Top.answer.content = doc
    BY <1>1, <1>2, <2>3, <2>4 DEF ShowInv, CalmInv
  <2> QED
    BY <1>1, <2>5
<1>6. CalmInv'
  <2>1. ~Clears(Len(stack))
    BY <1>1, <1>2 DEF Clears
  <2> QED
    BY <1>1, <1>2, <1>3, <1>5, <2>1, CalmFewer DEF ShowInv
<1> QED
  BY <1>1, <1>4, <1>6, PopShow

LEMMA PutAnnotShow == ASSUME PdfInv, ShowInv, PutAnnotReturns PROVE ShowInv'
<1>1. /\ ~Idle /\ Top.cmd = "editannot" /\ Top.answer.status = "ok" /\ modified' = TRUE
      /\ UNCHANGED <<disk, touched, doc>>
  BY DEF PutAnnotReturns, Returned, fileVars
<1>2. CASE /\ Query("editannot", FALSE)
           /\ stack' = Append(Below, Waiting("editannot", FALSE))
           /\ delayed' = TRUE
           /\ UNCHANGED <<cache, calm>>
  BY <1>1, <1>2, ReplaceShow DEF Command
<1>3. CASE RunModifiedHooks /\ stack' = Below /\ (NoRestart \/ UNCHANGED pipeVars)
  <2>1. Len(stack) = 1 /\ stack # <<>> /\ Len(stack) - 1 = 0 /\ Below \in Seq(Frame)
    BY <1>1, TopIsBase, BelowStack, Parts DEF Idle
  <2>2. Tasks(0)
    BY <1>3, <2>1, PopTasks
  <2>3. CalmInv'
    BY <1>3, <2>1, CalmCleared DEF RunModifiedHooks, NoRestart, pipeVars
  <2>4. ShownInv'
    BY <1>1, <2>2 DEF ShownInv, Tasks
  <2>5. CASE NoRestart
    BY <1>1, <2>2, <2>3, <2>5, NoRestartShow
  <2>6. CASE UNCHANGED pipeVars
    BY <1>1, <1>3, <2>1, <2>3, <2>4, <2>6, PopShow
  <2> QED
    BY <1>3, <2>5, <2>6
<1> QED
  BY <1>2, <1>3 DEF PutAnnotReturns

LEMMA SaveReturnsShow == ASSUME PdfInv, ShowInv, SaveReturns PROVE ShowInv'
<1>1. /\ ~Idle /\ Top.cmd = "save" /\ Top.answer.status = "ok"
      /\ UNCHANGED <<modified, cache, delayed, doc, calm>>
  BY DEF SaveReturns, Returned
<1>2. Len(stack) = 1 /\ stack # <<>> /\ modified /\ Top = stack[1] /\ Len(stack) - 1 = 0
  <2>1. Len(stack) = 1 /\ Top = stack[Len(stack)]
    BY <1>1, TopIsBase
  <2>2. modified
    BY <1>1, TopIsBase
  <2> QED
    BY <1>1, <2>1, <2>2 DEF Idle
<1>3. ~delayed
  BY <1>1, <1>2 DEF PdfInv, TypeOK
<1>4. CASE Query("close", FALSE) /\ stack' = Append(Below, Waiting("close", TRUE))
  <2>1. \A j \in 1..Len(stack) : ~Clears(j)
    BY <1>1, <1>2 DEF Clears
  <2>2. calm => cache \subseteq {doc}
    BY <1>3, <2>1 DEF ShowInv, CalmInv
  <2> QED
    BY <1>1, <1>2, <1>4, <2>2, ReplaceShow DEF Command
<1>5. CASE NoRestart /\ stack' = Below
  <2>1. Tasks(0)
    BY <1>2, <1>5, PopTasks
  <2>2. ~calm
    BY <1>5 DEF NoRestart, ShowInv, CalmInv
  <2>3. CalmInv'
    BY <1>1, <2>2 DEF CalmInv
  <2> QED
    BY <1>1, <1>5, <2>1, <2>3, NoRestartShow
<1> QED
  BY <1>4, <1>5 DEF SaveReturns

LEMMA CloseShow == ASSUME PdfInv, ShowInv, CloseReturns PROVE ShowInv'
<1>1. /\ ~Idle /\ Top.cmd = "close" /\ Top.answer.status = "ok" /\ stack' = Below /\ ClearImages
      /\ modified' = (modified /\ ~Top.saving) /\ UNCHANGED pipeVars
      /\ UNCHANGED <<delayed, disk, touched, doc>>
  BY DEF CloseReturns, Returned, fileVars
<1>2. /\ Len(stack) \in Nat /\ Top = stack[Len(stack)] /\ stack # <<>> /\ Below \in Seq(Frame)
      /\ Top.saving => Len(stack) = 1
      /\ Len(stack) \in 1..Len(stack)
  BY <1>1, TopIsBase, BelowStack, Parts DEF Idle
<1>3. Tasks(Len(stack) - 1) /\ UNCHANGED <<proc, inq, out>>
  BY <1>1, <1>2, PopTasks DEF pipeVars
<1>4. CalmInv'
  BY <1>1, <1>2, <1>3, CalmCleared
<1>5. ShownInv'
  <2>1. CASE Top.saving
    <3>1. Len(stack) = 1 /\ Done(1) /\ stack[1].saving /\ Len(stack') = 0
      BY <1>1, <1>2, <1>3, <2>1 DEF Done, Tasks
    <3>2. Shown
      BY <1>2, <3>1 DEF ShowInv, ShownInv
    <3>3. Shown' /\ 1 \notin 1..Len(stack')
      BY <1>1, <3>1, <3>2 DEF Shown
    <3> QED
      BY <3>3 DEF ShownInv
  <2>2. CASE ~Top.saving
    <3>1. modified' = modified
      BY <1>1, <2>2 DEF PdfInv, TypeOK
    <3>2. 1 \in 1..Len(stack) /\ stack[1].cmd = "editannot" => 1 \in 1..(Len(stack) - 1)
      BY <1>1, <1>2
    <3> QED
      BY <1>1, <1>3, <3>1, <3>2, ShownFewer DEF ShowInv
  <2> QED
    BY <2>1, <2>2
<1>6. Len(stack) = 1 \/ (modified => modified')
  BY <1>1, <1>2
<1> QED
  BY <1>1, <1>4, <1>5, <1>6, PopShow

LEMMA SignalShow == ASSUME PdfInv, ShowInv, Signal PROVE ShowInv'
<1>1. /\ ~Idle /\ stack' = Below
      /\ Top.answer.status = "error" \/ ServerQuit
      /\ UNCHANGED <<modified, disk, touched, doc>> /\ UNCHANGED pipeVars
  BY DEF Signal, fileVars
<1>2. /\ Len(stack) \in Nat /\ Top = stack[Len(stack)] /\ stack # <<>> /\ Below \in Seq(Frame)
      /\ Len(stack) \in 1..Len(stack)
  BY <1>1, TopIsBase, BelowStack, Parts DEF Idle
<1>3. Tasks(Len(stack) - 1) /\ UNCHANGED <<proc, inq, out>>
  BY <1>1, <1>2, PopTasks DEF pipeVars
<1>4. proc = "run" => ~Done(Len(stack))
  <2>1. proc = "run" => Top.answer.status = "error"
    BY <1>1 DEF ServerQuit
  <2> QED
    BY <1>2, <2>1, ErrorNotDone DEF ShowInv, TasksInv
<1>5. ShownInv'
  <2>1. proc = "run" /\ 1 \in 1..Len(stack) /\ stack[1].cmd = "editannot" /\ Done(1)
        => 1 \in 1..(Len(stack) - 1)
    BY <1>2, <1>4
  <2> QED
    BY <1>1, <1>3, <2>1, ShownFewer DEF ShowInv
<1>6. CalmInv'
  <2>1. CASE RunModifiedHooks
    BY <1>1, <1>2, <1>3, <2>1, CalmCleared DEF RunModifiedHooks
  <2>2. CASE UNCHANGED <<cache, calm, delayed>>
    BY <1>1, <1>2, <1>3, <1>4, <2>2, CalmFewer DEF ShowInv
  <2> QED
    BY <2>1, <2>2 DEF Signal
<1>7. Top.answer.status # "none" \/ ServerQuit
  BY <1>1
<1> QED
  BY <1>1, <1>5, <1>6, <1>7, PopShow

LEMMA ReceiveShow == ASSUME PdfInv, ShowInv, Receive PROVE ShowInv'
<1>1. Receives
  BY Receiving
<1>2. UNCHANGED <<modified, delayed, disk, touched, doc, calm>>
  BY DEF Receive, fileVars
<1>3. OrderInv' /\ WaitInv' /\ SaveInv' /\ ShownInv' /\ OutFresh'
  BY <1>1, <1>2, OrderReceive, WaitReceive, SaveReceive, ShownReceive, FreshReceive
     DEF ShowInv, TasksInv
<1>4. \/ cache' = cache
      \/ out[1].answer.content \in Content /\ cache' = cache \cup {out[1].answer.content}
  <2>1. tq \in Seq(Queued) /\ out \in Seq(Replied) /\ tq # <<>> /\ out # <<>>
    BY DEF PdfInv, TypeOK, Queued, Replied, Receive
  <2>2. Head(tq) = tq[1] /\ Head(out) = out[1] /\ 1 \in 1..Len(out)
    BY <2>1, HeadTail
  <2>3. CASE ~tq[1].async
    BY <2>2, <2>3 DEF Receive
  <2>4. CASE tq[1].async
    <3>1. out[1].answer.status = "ok" => out[1].answer.content \in Content
      BY <2>2, <2>4 DEF PdfInv, CarryInv
    <3> QED
      BY <2>2, <2>4, <3>1 DEF Receive, PutPrefetched
  <2> QED
    BY <2>3, <2>4
<1>5. CalmInv'
  BY <1>1, <1>2, <1>4, CalmReceive DEF ShowInv, TasksInv
<1> QED
  BY <1>3, <1>5 DEF ShowInv, TasksInv

\* What the process does with the first command
LEMMA ServeShow ==
    ASSUME PdfInv, ShowInv, NEW cmd, NEW a \in Answer, Serve(cmd), PutsReply(a),
           a.status # "none", a.content \in {0, doc'},
           \/ doc' = Opened /\ cmd # "close"
           \/ cmd = "editannot" /\ a.status = "ok"
           \/ cmd = "close" /\ a.status = "ok" /\ doc' = 0
    PROVE  ShowInv'
<1>1. Serves(cmd, a)
  BY Serving
<1>2. UNCHANGED <<stack, modified>>
  BY <1>1 DEF Serves
<1>3. OrderInv' /\ WaitInv' /\ SaveInv'
  BY <1>1, <1>2, OrderServe, WaitServe DEF ShowInv, TasksInv, SaveInv
<1>4. OutFresh'
  BY <1>1, FreshServe DEF ShowInv, TasksInv
<1>5. CASE doc' = Opened /\ cmd # "close"
  BY <1>1, <1>3, <1>4, <1>5, ShownOpen, CalmOpen DEF ShowInv, TasksInv
<1>6. CASE cmd = "editannot" /\ a.status = "ok"
  BY <1>1, <1>3, <1>4, <1>6, ShownEdit, CalmLeave DEF ShowInv, TasksInv
<1>7. CASE cmd = "close" /\ a.status = "ok" /\ doc' = 0
  <2>1. ShownInv'
    BY <1>7 DEF ShownInv, Shown
  <2> QED
    BY <1>1, <1>3, <1>4, <1>7, <2>1, CalmLeave DEF ShowInv, TasksInv
<1> QED
  BY <1>5, <1>6, <1>7

LEMMA ServerShow == ASSUME PdfInv, ShowInv, ServerStep PROVE ShowInv'
<1>1. Opened \in 0..MaxContent /\ 0 \in 0..MaxContent
  BY Bounds DEF Opened, PdfInv, TypeOK, Content
<1>2. Ok(Opened) \in Answer /\ Ok(0) \in Answer /\ Error \in Answer
  BY <1>1, Bounds
<1>3. /\ Ok(Opened).content = Opened /\ Ok(Opened).status = "ok"
      /\ Ok(0).content = 0 /\ Ok(0).status = "ok"
      /\ Error.content = 0 /\ Error.status = "error"
  BY DEF Ok, Error
<1>4. CASE CmdRenderpage
  BY <1>2, <1>3, <1>4, ServeShow DEF CmdRenderpage
<1>5. CASE CmdEditannot
  BY <1>2, <1>3, <1>5, ServeShow DEF CmdEditannot
<1>6. CASE CmdSave
  BY <1>2, <1>3, <1>6, ServeShow DEF CmdSave
<1>7. CASE CmdClose
  BY <1>2, <1>3, <1>7, ServeShow DEF CmdClose
<1>8. CASE CmdFails
  <2>1. PICK cmd \in Command \ {"close"} : Serve(cmd)
    BY <1>8 DEF CmdFails
  <2> QED
    BY <1>2, <1>3, <1>8, <2>1, ServeShow DEF CmdFails
<1> QED
  BY <1>4, <1>5, <1>6, <1>7, <1>8 DEF ServerStep

LEMMA DieShow == ASSUME PdfInv, ShowInv, Die PROVE ShowInv'
<1>1. /\ proc' = "dead" /\ doc' = 0 /\ inq' = <<>> /\ calm' = FALSE
      /\ UNCHANGED <<modified, cache, delayed, stack, calls, tq, out>>
  BY DEF Die, lispVars
<1>2. OrderInv' /\ SaveInv'
  BY <1>1 DEF ShowInv, TasksInv, OrderInv, SaveInv
<1>3. WaitInv' /\ ShownInv' /\ OutFresh' /\ CalmInv'
  BY <1>1 DEF WaitInv, ShownInv, Shown, OutFresh, CalmInv
<1> QED
  BY <1>2, <1>3 DEF ShowInv, TasksInv

LEMMA FileChangedShow == ASSUME PdfInv, ShowInv, FileChanged PROVE ShowInv'
<1>1. /\ touched' = TRUE
      /\ UNCHANGED <<modified, cache, delayed, stack, doc, calm, calls, tq, proc, inq, out>>
  BY DEF FileChanged, lispVars, pipeVars
<1>2. OrderInv' /\ WaitInv' /\ SaveInv'
  BY <1>1 DEF ShowInv, TasksInv, OrderInv, WaitInv, SaveInv
<1>3. ShownInv' /\ OutFresh' /\ CalmInv'
  BY <1>1 DEF ShowInv, ShownInv, Shown, OutFresh, CalmInv, Clears, Done
<1> QED
  BY <1>2, <1>3 DEF ShowInv, TasksInv

LEMMA InitShow == Init => ShowInv
<1> SUFFICES ASSUME Init PROVE ShowInv
  OBVIOUS
<1>1. stack = <<>> /\ tq = <<>> /\ inq = <<>> /\ out = <<>>
  BY DEF Init
<1>2. TasksInv
  BY <1>1 DEF TasksInv, OrderInv, WaitInv, SaveInv
<1>3. ShownInv /\ OutFresh
  BY <1>1 DEF Init, ShownInv, Shown, OutFresh
<1>4. CalmInv
  BY <1>1 DEF Init, CalmInv
<1> QED
  BY <1>2, <1>3, <1>4 DEF ShowInv

LEMMA NextShow == PdfInv /\ ShowInv /\ [Next]_vars => ShowInv'
<1> SUFFICES ASSUME PdfInv, ShowInv, [Next]_vars PROVE ShowInv'
  OBVIOUS
<1>1. CASE UNCHANGED vars
  <2>1. UNCHANGED <<modified, cache, delayed, stack, touched, disk, doc, calm, calls, tq, proc,
                    inq, out>>
    BY <1>1 DEF vars, lispVars, pipeVars, fileVars
  <2>2. TasksInv'
    BY <2>1 DEF ShowInv, TasksInv, OrderInv, WaitInv, SaveInv
  <2>3. ShownInv' /\ OutFresh' /\ CalmInv'
    BY <2>1 DEF ShowInv, ShownInv, Shown, OutFresh, CalmInv, Clears, Done
  <2> QED
    BY <2>2, <2>3 DEF ShowInv
<1>2. CASE Return
  BY <1>2, PutImageShow, PutAnnotShow, SaveReturnsShow, CloseShow, SignalShow DEF Return
<1> QED
  BY <1>1, <1>2, StartShow, ReceiveShow, ServerShow, DieShow, FileChangedShow DEF Next

\* The order of the calls, and with it what the buffer and its images show.
THEOREM ShowInvariant == Spec => [](PdfInv /\ ShowInv)
BY InitInv, NextInv, InitShow, NextShow, PTL DEF Spec

\* Between commands a buffer without the modified flag shows the content of
\* its file, however edits, saves, reverts and redisplays were nested and
\* wherever the process died: no edit is left to the process alone.
THEOREM SavedShown == Spec => []SavedIsShown
<1>1. ASSUME PdfInv, ShowInv, Idle, ~modified, ~touched PROVE doc \in {0, disk}
  <2>1. Len(stack) = 0
    BY <1>1 DEF Idle
  <2>2. \A j \in 1..Len(stack) : FALSE
    BY <2>1
  <2>3. ~(\E i \in 1..Len(inq) : inq[i].cmd = "close")
    BY <1>1, <2>2 DEF ShowInv, TasksInv, WaitInv
  <2>4. Shown
    BY <1>1, <2>2, <2>3 DEF ShowInv, ShownInv
  <2> QED
    BY <1>1, <2>4 DEF Shown
<1>2. PdfInv /\ ShowInv => SavedIsShown
  BY <1>1 DEF SavedIsShown
<1> QED
  BY <1>2, ShowInvariant, PTL

\* Between commands the images show what the server would render, for any
\* interleaving of renderings, prefetches, edits and closes, as long as the
\* cache was not cleared under a rendering and the server has not died.
THEOREM CalmFresh == Spec => []CalmCacheFresh
<1>1. ASSUME PdfInv, ShowInv, Idle, calm PROVE cache \subseteq {doc}
  <2>1. Len(stack) = 0 /\ ~delayed
    BY <1>1 DEF Idle, PdfInv, TypeOK
  <2>2. \A j \in 1..Len(stack) : FALSE
    BY <2>1
  <2> QED
    BY <1>1, <2>1, <2>2 DEF ShowInv, CalmInv
<1>2. PdfInv /\ ShowInv => CalmCacheFresh
  BY <1>1 DEF CalmCacheFresh
<1> QED
  BY <1>2, ShowInvariant, PTL

=============================================================================
