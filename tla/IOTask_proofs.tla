--------------------------- MODULE IOTask_proofs ---------------------------
(***************************************************************************)
(* Proofs about IOTask, for any set of requests and buffers, chains of any *)
(* length and either kind of :update function.                             *)
(***************************************************************************)
EXTENDS IOTask, SeqLemmas

\* Only these frames are ever covered by others: the callback, and what the
\* function that called it does next.
Below == {"callback", "safe", "abort"}

\* The queue holds each request once, and only its head may be running.
QueueInv ==
    /\ \A i \in 1..Len(q) : left[q[i]] > 0
    /\ \A i, j \in 1..Len(q) : q[i] = q[j] => i = j
    /\ \A i \in 2..Len(q) : q[i] \notin started
    /\ \A r \in started : left[r] > 0

\* What is still to be executed accounts for a head that is not running, and
\* for a queue that outlives its process.
ControlInv ==
    /\ AllFrom(stack, 2, Below)
    /\ Top("start") \/ Top("check") => q # <<>>
    /\ q # <<>> /\ Head(q) \notin started =>
          Has(stack, "start") \/ Has(stack, "safe") \/ Has(stack, "abort")
    /\ status = "reaped" /\ q # <<>> => Has(stack, "abort")

IInv == TypeOK /\ Accounted /\ QueueInv /\ ControlInv

-----------------------------------------------------------------------------
\* The stack after the frame on top of it has been replaced by others.
LEMMA ReplaceTop ==
    ASSUME NEW s \in Seq(Frames), s # <<>>, AllFrom(s, 2, Below),
           NEW frames \in Seq(Frames), AllFrom(frames, 2, Below),
           NEW t, t = Push(frames, Tail(s))
    PROVE  /\ t \in Seq(Frames) /\ AllFrom(t, 2, Below)
           /\ \A f : Has(t, f) <=> Has(frames, f) \/ Has(Tail(s), f)
           /\ \A f : Has(s, f) <=> Head(s) = f \/ Has(Tail(s), f)
           /\ frames # <<>> => t # <<>> /\ Head(t) = Head(frames)
           /\ frames = <<>> /\ t # <<>> => Head(t) \in Below
<1>1. Tail(s) \in Seq(Frames) /\ AllFrom(Tail(s), 1, Below)
  BY HeadTail, AllFromTail
<1>2. t = frames \o Tail(s)
  BY DEF Push
<1>3. t \in Seq(Frames) /\ Len(t) = Len(frames) + Len(Tail(s))
  BY <1>1, <1>2, ConcatProperties
<1>4. ASSUME NEW f
      PROVE  /\ Has(t, f) <=> Has(frames, f) \/ Has(Tail(s), f)
             /\ Has(s, f) <=> Head(s) = f \/ Has(Tail(s), f)
  <2>1. Has(frames \o Tail(s), f) <=> Has(frames, f) \/ Has(Tail(s), f)
    BY <1>1, HasConcat
  <2> QED
    BY <1>2, <2>1, HasTail
<1>6. ASSUME frames # <<>>
      PROVE  t # <<>> /\ Head(t) = Head(frames) /\ AllFrom(t, 2, Below)
  <2>1. /\ Len(frames) \in Nat /\ Len(frames) >= 1 /\ Head(frames) = frames[1]
        /\ Len(Tail(s)) \in Nat
    BY <1>1, <1>6, HeadTail, LenProperties
  <2>2. t # <<>>
    BY <1>3, <2>1, EmptySeq
  <2>3. t[1] = frames[1]
    BY <1>1, <1>2, <2>1, ConcatProperties
  <2>4. Head(t) = t[1]
    BY <1>3, <2>2, HeadTail
  <2> QED
    BY <1>1, <1>2, <1>6, <2>1, <2>2, <2>3, <2>4, AllFromConcat
<1>7. ASSUME frames = <<>>
      PROVE  AllFrom(t, 2, Below) /\ (t # <<>> => Head(t) \in Below)
  <2>1. t = Tail(s)
    BY <1>1, <1>2, <1>7, ConcatEmptySeq
  <2>2. Len(t) \in Nat /\ (t # <<>> => Len(t) >= 1 /\ Head(t) = t[1])
    BY <1>3, HeadTail, LenProperties
  <2>3. \A i \in 1..Len(t) : t[i] \in Below
    BY <1>1, <2>1 DEF AllFrom
  <2> QED
    BY <2>2, <2>3 DEF AllFrom
<1> QED
  BY <1>3, <1>4, <1>6, <1>7

\* The stack after frames have been pushed from the event loop.
LEMMA PushFrames ==
    ASSUME NEW s \in Seq(Frames), AllFrom(s, 2, Below),
           s # <<>> => Head(s) \in Below,
           NEW frames \in Seq(Frames), frames # <<>>, AllFrom(frames, 2, Below),
           NEW t, t = Push(frames, s)
    PROVE  /\ t \in Seq(Frames) /\ AllFrom(t, 2, Below)
           /\ \A f : Has(t, f) <=> Has(frames, f) \/ Has(s, f)
           /\ t # <<>> /\ Head(t) = Head(frames)
<1>1. AllFrom(s, 1, Below)
  <2>1. s # <<>> => s[1] \in Below
    BY HeadTail
  <2>2. Len(s) \in Nat /\ (s = <<>> => Len(s) = 0)
    BY LenProperties, EmptySeq
  <2> QED
    BY <2>1, <2>2 DEF AllFrom
<1>2. /\ Len(frames) \in Nat /\ Len(frames) >= 1 /\ Head(frames) = frames[1]
      /\ Len(s) \in Nat
  BY HeadTail, LenProperties
<1>3. t \in Seq(Frames) /\ Len(t) = Len(frames) + Len(s) /\ t[1] = frames[1]
  BY <1>2, ConcatProperties DEF Push
<1>4. t # <<>> /\ Head(t) = t[1]
  BY <1>2, <1>3, EmptySeq, HeadTail
<1>5. AllFrom(t, 2, Below)
  BY <1>1, AllFromConcat DEF Push
<1>6. ASSUME NEW f PROVE Has(t, f) <=> Has(frames, f) \/ Has(s, f)
  BY HasConcat DEF Push
<1> QED
  BY <1>2, <1>3, <1>4, <1>5, <1>6

\* The short lists of frames the code pushes.
LEMMA FrameLists ==
    /\ \A f \in Frames : /\ <<f>> \in Seq(Frames) /\ <<f>> # <<>>
                         /\ Head(<<f>>) = f
                         /\ AllFrom(<<f>>, 2, Below)
                         /\ \A g : Has(<<f>>, g) <=> f = g
    /\ \A f \in Frames : \A g \in Below :
          /\ <<f, g>> \in Seq(Frames) /\ <<f, g>> # <<>>
          /\ Head(<<f, g>>) = f
          /\ AllFrom(<<f, g>>, 2, Below)
          /\ \A h : Has(<<f, g>>, h) <=> f = h \/ g = h
    /\ <<>> \in Seq(Frames) /\ AllFrom(<<>>, 2, Below)
    /\ \A f : ~Has(<<>>, f)
BY DEF Frames, Below, AllFrom, Has

-----------------------------------------------------------------------------
\* The queue after an element has been appended to it.
LEMMA QueueAppend ==
    ASSUME NEW s \in Seq(Req), NEW r \in Req, NEW t, t = Append(s, r)
    PROVE  /\ t \in Seq(Req) /\ t # <<>> /\ Len(t) = Len(s) + 1 /\ Len(s) \in Nat
           /\ \A i \in 1..Len(s) : t[i] = s[i]
           /\ t[Len(t)] = r
           /\ Head(t) = IF s = <<>> THEN r ELSE Head(s)
           /\ s = <<>> <=> Len(t) = 1
BY AppendProperties, HeadTailAppend, LenProperties, EmptySeq

LEMMA InitInv == Init => IInv
<1> SUFFICES ASSUME Init PROVE IInv
  OBVIOUS
<1> USE IOTaskAssumption DEF Init
<1>1. TypeOK
  <2>1. left \in [Req -> 0..MaxChain] /\ buf \in [Req -> Buf \cup {NoBuf}]
    OBVIOUS
  <2>2. tag \in [Req -> Tags] /\ outcome \in [Req -> Outcomes \cup {"none"}]
    BY DEF Tags
  <2>3. q \in Seq(Req) /\ accepted \in Seq(Req) /\ answered \in Seq(Req)
        /\ inbox \in Seq(Message) /\ pipe \in Seq(Chunk) /\ text \in Seq(Chunk)
        /\ stack \in Seq(Frames)
    BY EmptySeq
  <2> QED
    BY <2>1, <2>2, <2>3 DEF TypeOK
<1>2. Accounted
  BY DEF Accounted
<1>3. QueueInv
  BY DEF QueueInv
<1>4. ControlInv
  BY DEF ControlInv, AllFrom, Top
<1> QED
  BY <1>1, <1>2, <1>3, <1>4 DEF IInv

LEMMA ScheduleInv ==
    ASSUME IInv, NEW r \in Req, NEW b \in Buf, NEW n \in 1..MaxChain,
           Schedule(r, b, n)
    PROVE  IInv'
<1> USE IOTaskAssumption
<1>1. /\ TypeOK /\ Accounted /\ QueueInv /\ ControlInv
  BY DEF IInv
<1>2. q \in Seq(Req) /\ q' = Append(q, r)
  BY <1>1 DEF TypeOK, Schedule, Enqueue
<1>3. /\ q' \in Seq(Req) /\ q' # <<>> /\ Len(q') = Len(q) + 1 /\ Len(q) \in Nat
      /\ \A i \in 1..Len(q) : q'[i] = q[i]
      /\ q'[Len(q')] = r
      /\ Head(q') = IF q = <<>> THEN r ELSE Head(q)
      /\ q = <<>> <=> Len(q') = 1
  BY <1>2, QueueAppend
<1>4. stack \in Seq(Frames) /\ AllFrom(stack, 2, Below)
      /\ (stack # <<>> => Head(stack) \in Below)
  BY <1>1 DEF TypeOK, ControlInv, Schedule, EventLoop, Top, Below
<1>5. /\ stack' \in Seq(Frames) /\ AllFrom(stack', 2, Below)
      /\ \A f : Has(stack, f) => Has(stack', f)
      /\ q = <<>> => Has(stack', "start")
  <2>1. CASE q = <<>>
    <3>1. stack' = Push(<<"start">>, stack) /\ "start" \in Frames
      BY <1>3, <2>1 DEF Schedule, StartIfAlone, Frames
    <3>2. <<"start">> \in Seq(Frames) /\ <<"start">> # <<>>
          /\ AllFrom(<<"start">>, 2, Below) /\ Has(<<"start">>, "start")
      BY <3>1, FrameLists
    <3>3. /\ stack' \in Seq(Frames) /\ AllFrom(stack', 2, Below)
          /\ \A f : Has(stack', f) <=> Has(<<"start">>, f) \/ Has(stack, f)
      BY <1>4, <3>1, <3>2, PushFrames
    <3> QED
      BY <3>2, <3>3
  <2>2. CASE q # <<>>
    BY <1>3, <1>4, <2>2 DEF Schedule, StartIfAlone
  <2> QED
    BY <2>1, <2>2
<1>6. TypeOK'
  <2>1. accepted' \in Seq(Req)
    BY <1>1, AppendProperties DEF TypeOK, Schedule
  <2>2. left' \in [Req -> 0..MaxChain] /\ buf' \in [Req -> Buf \cup {NoBuf}]
    BY <1>1 DEF TypeOK, Schedule
  <2>3. UNCHANGED <<started, tag, live, status, inbox, halfway, pipe, text,
                    answered, outcome>>
    BY DEF Schedule, serverVars
  <2> QED
    BY <1>1, <1>3, <1>5, <2>1, <2>2, <2>3 DEF TypeOK
<1>7. Accounted'
  <2>1. Append(answered \o q, r) = answered \o Append(q, r)
    <3>1. answered \in Seq(Req) /\ q \in Seq(Req)
      BY <1>1 DEF TypeOK
    <3> QED
      BY <3>1, AppendToConcat
  <2> QED
    BY <1>1, <1>2, <2>1 DEF Accounted, Schedule
<1>8. QueueInv'
  <2>1. left[r] = 0 /\ left' = [left EXCEPT ![r] = n] /\ started' = started
        /\ left \in [Req -> 0..MaxChain] /\ started \subseteq Req
    BY <1>1 DEF TypeOK, Schedule
  <2>2. \A i \in 1..Len(q) : q[i] \in Req /\ q[i] # r
    BY <1>1, <1>2, <2>1, ElementOfSeq DEF QueueInv
  <2>3. r \notin started
    BY <1>1, <2>1 DEF QueueInv
  <2>4. \A i \in 1..Len(q') : i \in 1..Len(q) \/ i = Len(q')
    BY <1>3
  <2>5. \A i \in 1..Len(q') : left'[q'[i]] > 0
    BY <1>1, <1>3, <2>1, <2>2, <2>4 DEF QueueInv
  <2>6. \A i, j \in 1..Len(q') : q'[i] = q'[j] => i = j
    BY <1>1, <1>3, <2>2, <2>4 DEF QueueInv
  <2>7. \A i \in 2..Len(q') : q'[i] \notin started'
    BY <1>1, <1>3, <2>1, <2>2, <2>3, <2>4 DEF QueueInv
  <2>8. \A p \in started' : left'[p] > 0
    BY <1>1, <2>1, <2>3 DEF QueueInv
  <2> QED
    BY <2>5, <2>6, <2>7, <2>8 DEF QueueInv
<1>9. ControlInv'
  <2>1. started' = started /\ status' = status /\ status # "reaped"
    BY DEF Schedule
  <2>2. q # <<>> => Head(q') = Head(q)
    BY <1>3
  <2> QED
    BY <1>1, <1>3, <1>5, <2>1, <2>2 DEF ControlInv, Top
<1> QED
  BY <1>6, <1>7, <1>8, <1>9 DEF IInv

-----------------------------------------------------------------------------
\* Steps that replace the top of the stack: what was waiting below it still is.
LEMMA ContinueWith ==
    ASSUME stack \in Seq(Frames), AllFrom(stack, 2, Below),
           NEW f \in Frames, Top(f),
           NEW frames \in Seq(Frames), AllFrom(frames, 2, Below),
           Continue(frames)
    PROVE  /\ stack' \in Seq(Frames) /\ AllFrom(stack', 2, Below)
           /\ \A g : g # f /\ Has(stack, g) => Has(stack', g)
           /\ \A g : Has(frames, g) => Has(stack', g)
           /\ frames # <<>> => stack' # <<>> /\ Head(stack') = Head(frames)
           /\ frames = <<>> /\ stack' # <<>> => Head(stack') \in Below
<1>1. stack # <<>> /\ Head(stack) = f /\ stack' = Push(frames, Tail(stack))
  BY DEF Top, Continue
<1>2. /\ stack' \in Seq(Frames) /\ AllFrom(stack', 2, Below)
      /\ \A g : Has(stack', g) <=> Has(frames, g) \/ Has(Tail(stack), g)
      /\ \A g : Has(stack, g) <=> Head(stack) = g \/ Has(Tail(stack), g)
      /\ frames # <<>> => stack' # <<>> /\ Head(stack') = Head(frames)
      /\ frames = <<>> /\ stack' # <<>> => Head(stack') \in Below
  BY <1>1, ReplaceTop
<1> QED
  BY <1>1, <1>2

\* Steps that do nothing but go on with the stack.
LEMMA OnlyStack ==
    ASSUME IInv, stack' \in Seq(Frames), ControlInv',
           UNCHANGED <<queueVars, live, status, serverVars, pipe, text, history>>
    PROVE  IInv'
<1>1. UNCHANGED <<q, started, left, tag, buf, live, status, inbox, halfway,
                  pipe, text, accepted, answered, outcome>>
  BY DEF queueVars, serverVars, history
<1>2. TypeOK'
  BY <1>1 DEF IInv, TypeOK
<1> QED
  BY <1>1, <1>2 DEF IInv, Accounted, QueueInv

\* A request leaves the queue for the history, and nothing else moves.
LEMMA PopQueue ==
    ASSUME TypeOK, Accounted, QueueInv, q # <<>>,
           NEW how \in Outcomes, Pop(how), UNCHANGED <<started, left, accepted>>
    PROVE  /\ q' \in Seq(Req) /\ answered' \in Seq(Req)
           /\ outcome' \in [Req -> Outcomes \cup {"none"}]
           /\ Accounted' /\ QueueInv'
<1>1. q \in Seq(Req) /\ answered \in Seq(Req)
  BY DEF TypeOK
<1>2. /\ Len(q) \in Nat /\ Len(q) >= 1
      /\ Head(q) = q[1] /\ Head(q) \in Req
      /\ Tail(q) \in Seq(Req) /\ Len(Tail(q)) = Len(q) - 1
      /\ \A i \in 1..Len(Tail(q)) : Tail(q)[i] = q[i + 1]
  BY <1>1, HeadTail
<1>3. q' = Tail(q) /\ answered' = Append(answered, Head(q))
  BY DEF Pop
<1>4. answered' \in Seq(Req)
  BY <1>1, <1>2, <1>3, AppendProperties
<1>5. outcome' \in [Req -> Outcomes \cup {"none"}]
  BY <1>2 DEF TypeOK, Pop
<1>6. Append(answered, Head(q)) \o Tail(q) = answered \o q
  BY <1>1, MoveHead
<1>7. Accounted'
  BY <1>3, <1>6 DEF Accounted
<1>8. \A i \in 1..Len(q') : i + 1 \in 1..Len(q) /\ q'[i] = q[i + 1]
  BY <1>2, <1>3
<1>9. QueueInv'
  <2>1. \A i \in 1..Len(q') : left'[q'[i]] > 0
    BY <1>8 DEF QueueInv
  <2>2. \A i, j \in 1..Len(q') : q'[i] = q'[j] => i = j
    <3> TAKE i, j \in 1..Len(q')
    <3> HAVE q'[i] = q'[j]
    <3>1. i + 1 = j + 1
      BY <1>8 DEF QueueInv
    <3> QED
      BY <3>1, <1>2, <1>3
  <2>3. \A i \in 2..Len(q') : q'[i] \notin started'
    <3> TAKE i \in 2..Len(q')
    <3>1. i \in 1..Len(q') /\ i + 1 \in 2..Len(q)
      BY <1>2, <1>3
    <3> QED
      BY <3>1, <1>8 DEF QueueInv
  <2> QED
    BY <2>1, <2>2, <2>3 DEF QueueInv
<1> QED
  BY <1>2, <1>3, <1>4, <1>5, <1>7, <1>9

-----------------------------------------------------------------------------
LEMMA StartNextInv == ASSUME IInv, StartNext PROVE IInv'
<1> USE IOTaskAssumption
<1>1. TypeOK /\ Accounted /\ QueueInv /\ ControlInv
  BY DEF IInv
<1>2. /\ q \in Seq(Req) /\ q # <<>> /\ q' = q
  BY <1>1 DEF StartNext, ControlInv, TypeOK
<1>3. /\ Head(q) = q[1] /\ Head(q) \in Req /\ Len(q) \in Nat /\ Len(q) >= 1
  BY <1>2, HeadTail
<1>4. /\ started' = started \cup {Head(q)}
      /\ UNCHANGED <<left, buf, live, status, halfway, pipe, accepted, answered, outcome>>
      /\ text' = <<>>
  BY DEF StartNext, EraseBuffer, history
<1>5. /\ stack' \in Seq(Frames) /\ AllFrom(stack', 2, Below)
      /\ \A g : g # "start" /\ Has(stack, g) => Has(stack', g)
  <2>1. <<"check">> \in Seq(Frames) /\ AllFrom(<<"check">>, 2, Below)
        /\ "start" \in Frames
    BY FrameLists DEF Frames
  <2> QED
    BY <1>1, <2>1, ContinueWith DEF TypeOK, ControlInv, StartNext
<1>6. left[Head(q)] \in 1..MaxChain
  <2>1. left[q[1]] > 0
    BY <1>1, <1>3 DEF QueueInv
  <2> QED
    BY <1>1, <1>3, <2>1 DEF TypeOK
<1>7. TypeOK'
  <2>1. tag' \in [Req -> Tags]
    BY <1>1, <1>3 DEF TypeOK, StartNext, Tags
  <2>2. inbox' \in Seq(Message)
    <3> DEFINE m == [req |-> Head(q), task |-> left[Head(q)]]
    <3>1. m \in Message
      BY <1>3, <1>6 DEF Message
    <3>2. inbox' = Append(inbox, m) \/ inbox' = inbox
      BY DEF StartNext
    <3>3. inbox \in Seq(Message)
      BY <1>1 DEF TypeOK
    <3> HIDE DEF m
    <3> QED
      BY <3>1, <3>2, <3>3, AppendProperties
  <2>3. text' \in Seq(Chunk)
    BY <1>4
  <2>4. started' \in SUBSET Req
    BY <1>1, <1>3, <1>4 DEF TypeOK
  <2> QED
    BY <1>1, <1>2, <1>4, <1>5, <2>1, <2>2, <2>3, <2>4 DEF TypeOK
<1>8. Accounted'
  BY <1>1, <1>2, <1>4 DEF Accounted
<1>9. QueueInv'
  BY <1>1, <1>2, <1>3, <1>4 DEF QueueInv
<1>10. ControlInv'
  BY <1>1, <1>2, <1>4, <1>5 DEF ControlInv
<1> QED
  BY <1>7, <1>8, <1>9, <1>10 DEF IInv

LEMMA ReturnInv ==
    ASSUME IInv, CheckNoResult \/ CallbackReturns \/ StartNextSafe \/ AbortDone
    PROVE  IInv'
<1>1. TypeOK /\ ControlInv
  BY DEF IInv
<1>2. UNCHANGED <<queueVars, live, status, serverVars, pipe, text, history>>
  BY DEF CheckNoResult, CallbackReturns, StartNextSafe, AbortDone
<1>3. UNCHANGED <<q, started, status>>
  BY <1>2 DEF queueVars
<1>4. <<>> \in Seq(Frames) /\ AllFrom(<<>>, 2, Below)
      /\ <<"start">> \in Seq(Frames) /\ AllFrom(<<"start">>, 2, Below)
      /\ <<"start">> # <<>> /\ Head(<<"start">>) = "start" /\ Has(<<"start">>, "start")
      /\ Frames = {"start", "check", "callback", "safe", "abort"}
  BY FrameLists DEF Frames
<1>5. CASE CheckNoResult
  <2>1. /\ stack' \in Seq(Frames) /\ AllFrom(stack', 2, Below)
        /\ \A g : g # "check" /\ Has(stack, g) => Has(stack', g)
        /\ stack' # <<>> => Head(stack') \in Below
    BY <1>1, <1>4, <1>5, ContinueWith DEF TypeOK, ControlInv, CheckNoResult
  <2>2. ControlInv'
    BY <1>1, <1>3, <2>1 DEF ControlInv, Top, Below
  <2> QED
    BY <1>2, <2>1, <2>2, OnlyStack
<1>6. CASE CallbackReturns
  <2>1. /\ stack' \in Seq(Frames) /\ AllFrom(stack', 2, Below)
        /\ \A g : g # "callback" /\ Has(stack, g) => Has(stack', g)
        /\ stack' # <<>> => Head(stack') \in Below
    BY <1>1, <1>4, <1>6, ContinueWith DEF TypeOK, ControlInv, CallbackReturns
  <2>2. ControlInv'
    BY <1>1, <1>3, <2>1 DEF ControlInv, Top, Below
  <2> QED
    BY <1>2, <2>1, <2>2, OnlyStack
<1>7. CASE StartNextSafe /\ HeadMustStart
  <2>1. /\ stack' \in Seq(Frames) /\ AllFrom(stack', 2, Below)
        /\ \A g : g # "safe" /\ Has(stack, g) => Has(stack', g)
        /\ Has(stack', "start")
    BY <1>1, <1>4, <1>7, ContinueWith DEF TypeOK, ControlInv, StartNextSafe
  <2>2. ControlInv'
    BY <1>1, <1>3, <1>7, <2>1 DEF ControlInv, Top, Below, HeadMustStart
  <2> QED
    BY <1>2, <2>1, <2>2, OnlyStack
<1>8. CASE StartNextSafe /\ ~HeadMustStart
  <2>1. /\ stack' \in Seq(Frames) /\ AllFrom(stack', 2, Below)
        /\ \A g : g # "safe" /\ Has(stack, g) => Has(stack', g)
        /\ stack' # <<>> => Head(stack') \in Below
    BY <1>1, <1>4, <1>8, ContinueWith DEF TypeOK, ControlInv, StartNextSafe
  <2>2. ControlInv'
    BY <1>1, <1>3, <1>8, <2>1 DEF ControlInv, Top, Below, HeadMustStart
  <2> QED
    BY <1>2, <2>1, <2>2, OnlyStack
<1>9. CASE AbortDone
  <2>1. /\ stack' \in Seq(Frames) /\ AllFrom(stack', 2, Below)
        /\ stack' # <<>> => Head(stack') \in Below
    BY <1>1, <1>4, <1>9, ContinueWith DEF TypeOK, ControlInv, AbortDone
  <2>2. q' = <<>>
    BY <1>3, <1>9 DEF AbortDone
  <2>3. ControlInv'
    BY <1>1, <2>1, <2>2 DEF ControlInv, Top, Below
  <2> QED
    BY <1>2, <2>1, <2>3, OnlyStack
<1> QED
  BY <1>5, <1>6, <1>7, <1>8, <1>9

LEMMA CheckContinueInv == ASSUME IInv, CheckContinue PROVE IInv'
<1>1. TypeOK /\ Accounted /\ QueueInv /\ ControlInv
  BY DEF IInv
<1>2. /\ q \in Seq(Req) /\ q # <<>> /\ Head(q) \in Req
  BY <1>1, HeadTail DEF CheckContinue, ControlInv, TypeOK
<1>3. UNCHANGED <<q, started, buf, live, status, inbox, halfway, pipe, text,
                  accepted, answered, outcome>>
  BY DEF CheckContinue, serverVars, history
<1>4. left[Head(q)] > 1 /\ left' = [left EXCEPT ![Head(q)] = @ - 1]
      /\ tag' = [tag EXCEPT ![Head(q)] = "unset"]
  BY DEF CheckContinue, HasContinuation
<1>5. /\ stack' \in Seq(Frames) /\ AllFrom(stack', 2, Below)
      /\ \A g : g # "check" /\ Has(stack, g) => Has(stack', g)
      /\ Has(stack', "start")
  <2>1. <<"start">> \in Seq(Frames) /\ AllFrom(<<"start">>, 2, Below)
        /\ "check" \in Frames /\ Has(<<"start">>, "start")
    BY FrameLists DEF Frames
  <2> QED
    BY <1>1, <2>1, ContinueWith DEF TypeOK, ControlInv, CheckContinue
<1>6. left' \in [Req -> 0..MaxChain] /\ \A r \in Req : left[r] > 0 => left'[r] > 0
  BY <1>1, <1>2, <1>4, IOTaskAssumption DEF TypeOK
<1>7. TypeOK'
  <2>1. tag' \in [Req -> Tags]
    BY <1>1, <1>2, <1>4 DEF TypeOK, Tags
  <2> QED
    BY <1>1, <1>3, <1>5, <1>6, <2>1 DEF TypeOK
<1>8. Accounted'
  BY <1>1, <1>3 DEF Accounted
<1>9. QueueInv'
  <2>1. \A i \in 1..Len(q) : q[i] \in Req
    BY <1>2, ElementOfSeq
  <2>2. started \subseteq Req
    BY <1>1 DEF TypeOK
  <2> QED
    BY <1>1, <1>3, <1>6, <2>1, <2>2 DEF QueueInv
<1>10. ControlInv'
  BY <1>1, <1>2, <1>3, <1>5 DEF ControlInv
<1> QED
  BY <1>7, <1>8, <1>9, <1>10 DEF IInv

\* The frames the end of --check-result and one turn of --abort-all leave.
LEMMA CallbackFrames ==
    ASSUME NEW r, NEW f \in {"safe", "abort"}
    PROVE  LET frames == CallCallback(r) \o <<f>>
           IN  /\ frames \in Seq(Frames) /\ frames # <<>>
               /\ AllFrom(frames, 2, Below)
               /\ Head(frames) \in Below
               /\ Has(frames, f)
<1>1. CASE buf[r] \in live
  <2>1. <<"callback">> \o <<f>> = <<"callback", f>>
    <3>1. <<"callback">> \in Seq(Frames) /\ <<f>> \in Seq(Frames)
          /\ <<"callback", f>> \in Seq(Frames)
      BY FrameLists DEF Frames, Below
    <3>2. /\ Len(<<"callback">>) = 1 /\ <<"callback">>[1] = "callback"
          /\ Len(<<f>>) = 1 /\ <<f>>[1] = f
          /\ Len(<<"callback", f>>) = 2
          /\ <<"callback", f>>[1] = "callback" /\ <<"callback", f>>[2] = f
      OBVIOUS
    <3> DEFINE s == <<"callback">>
               t == <<f>>
               u == <<"callback", f>>
    <3> HIDE DEF s, t, u
    <3>3. /\ s \o t \in Seq(Frames) /\ Len(s \o t) = 2
          /\ (s \o t)[1] = u[1] /\ (s \o t)[2] = u[2]
      <4>1. /\ s \in Seq(Frames) /\ t \in Seq(Frames)
            /\ Len(s) = 1 /\ Len(t) = 1 /\ s[1] = u[1] /\ t[1] = u[2]
        BY <3>1, <3>2 DEF s, t, u
      <4>2. /\ s \o t \in Seq(Frames)
            /\ Len(s \o t) = Len(s) + Len(t)
            /\ \A i \in 1..(Len(s) + Len(t)) :
                  (s \o t)[i] = IF i <= Len(s) THEN s[i] ELSE t[i - Len(s)]
        BY <4>1, ConcatProperties
      <4>3. (s \o t)[1] = s[1] /\ (s \o t)[2] = t[1]
        <5>1. 1 \in 1..(Len(s) + Len(t)) /\ 2 \in 1..(Len(s) + Len(t))
          BY <4>1
        <5>2. (s \o t)[1] = IF 1 <= Len(s) THEN s[1] ELSE t[1 - Len(s)]
          BY <4>2, <5>1
        <5>3. (s \o t)[2] = IF 2 <= Len(s) THEN s[2] ELSE t[2 - Len(s)]
          BY <4>2, <5>1
        <5>4. 2 - Len(s) = 1 /\ 1 <= Len(s) /\ ~(2 <= Len(s))
          BY <4>1
        <5> QED
          BY <5>2, <5>3, <5>4
      <4> QED
        BY <4>1, <4>2, <4>3
    <3>4. u \in Seq(Frames) /\ Len(u) = 2
      BY <3>1, <3>2 DEF u
    <3>5. s \o t = u
      <4>1. \A i \in 1..2 : (s \o t)[i] = u[i]
        BY <3>3
      <4> QED
        BY ONLY <3>3, <3>4, <4>1, SeqEqual
    <3> QED
      BY <3>5 DEF s, t, u
  <2>2. CallCallback(r) \o <<f>> = <<"callback", f>>
    BY <1>1, <2>1 DEF CallCallback
  <2> QED
    BY <2>2, FrameLists DEF Frames, Below
<1>2. CASE buf[r] \notin live
  <2>1. CallCallback(r) \o <<f>> = <<f>>
    BY <1>2 DEF CallCallback
  <2> QED
    BY <2>1, FrameLists DEF Frames, Below
<1> QED
  BY <1>1, <1>2

LEMMA CheckAnswerInv == ASSUME IInv, CheckAnswer PROVE IInv'
<1>1. TypeOK /\ Accounted /\ QueueInv /\ ControlInv
  BY DEF IInv
<1>2. /\ q \in Seq(Req) /\ q # <<>> /\ Head(q) \in Req
  BY <1>1, HeadTail DEF CheckAnswer, ControlInv, TypeOK
<1>3. UNCHANGED <<started, left, buf, live, status, inbox, halfway, pipe, text, accepted>>
  BY DEF CheckAnswer, serverVars
<1>4. PICK t \in FinalTag(tag[Head(q)]) :
         tag' = [tag EXCEPT ![Head(q)] = t] /\ Pop(t)
  BY DEF CheckAnswer
<1>5. t \in Tags /\ t \in Outcomes
  BY DEF FinalTag, Tags, Outcomes
<1>6. /\ q' \in Seq(Req) /\ answered' \in Seq(Req)
      /\ outcome' \in [Req -> Outcomes \cup {"none"}]
      /\ Accounted' /\ QueueInv'
  BY <1>1, <1>2, <1>3, <1>4, <1>5, PopQueue
<1>7. /\ stack' \in Seq(Frames) /\ AllFrom(stack', 2, Below)
      /\ \A g : g # "check" /\ Has(stack, g) => Has(stack', g)
      /\ Has(stack', "safe")
      /\ Head(stack') \in Below
  <2> DEFINE frames == CallCallback(Head(q)) \o <<"safe">>
  <2>1. /\ frames \in Seq(Frames) /\ frames # <<>> /\ AllFrom(frames, 2, Below)
        /\ Head(frames) \in Below /\ Has(frames, "safe")
    BY CallbackFrames
  <2>2. stack \in Seq(Frames) /\ AllFrom(stack, 2, Below) /\ "check" \in Frames
        /\ Top("check") /\ Continue(frames)
    BY <1>1 DEF TypeOK, ControlInv, CheckAnswer, Frames
  <2> HIDE DEF frames
  <2> QED
    BY <2>1, <2>2, ContinueWith
<1>8. TypeOK'
  <2>1. tag' \in [Req -> Tags]
    BY <1>1, <1>2, <1>4, <1>5 DEF TypeOK
  <2> QED
    BY <1>1, <1>3, <1>6, <1>7, <2>1 DEF TypeOK
<1>9. ControlInv'
  BY <1>1, <1>2, <1>3, <1>7 DEF ControlInv, Top, Below
<1> QED
  BY <1>6, <1>8, <1>9 DEF IInv

LEMMA AbortNextInv == ASSUME IInv, AbortNext PROVE IInv'
<1>1. TypeOK /\ Accounted /\ QueueInv /\ ControlInv
  BY DEF IInv
<1>2. UNCHANGED <<started, left, tag, buf, live, status, inbox, halfway, pipe,
                  text, accepted>>
  BY DEF AbortNext, serverVars
<1>3. /\ q' \in Seq(Req) /\ answered' \in Seq(Req)
      /\ outcome' \in [Req -> Outcomes \cup {"none"}]
      /\ Accounted' /\ QueueInv'
  BY <1>1, <1>2, PopQueue DEF AbortNext, Outcomes
<1>4. stack \in Seq(Frames) /\ AllFrom(stack, 2, Below) /\ stack # <<>>
      /\ Head(stack) = "abort" /\ "abort" \in Below
  BY <1>1 DEF TypeOK, ControlInv, AbortNext, Top, Below
<1>5. /\ stack' \in Seq(Frames) /\ AllFrom(stack', 2, Below)
      /\ Has(stack', "abort") /\ stack' # <<>> /\ Head(stack') \in Below
  <2>1. CASE buf[Head(q)] \in live
    <3>1. stack' = Push(<<"callback">>, stack)
      BY <2>1 DEF AbortNext, CallCallback
    <3>2. <<"callback">> \in Seq(Frames) /\ <<"callback">> # <<>>
          /\ AllFrom(<<"callback">>, 2, Below) /\ Head(<<"callback">>) = "callback"
      BY FrameLists DEF Frames
    <3>3. Has(stack, "abort")
      BY <1>4, HasTail
    <3>4. /\ stack' \in Seq(Frames) /\ AllFrom(stack', 2, Below)
          /\ \A f : Has(stack', f) <=> Has(<<"callback">>, f) \/ Has(stack, f)
          /\ stack' # <<>> /\ Head(stack') = Head(<<"callback">>)
      BY <1>4, <3>1, <3>2, PushFrames
    <3> QED
      BY <3>2, <3>3, <3>4 DEF Below
  <2>2. CASE buf[Head(q)] \notin live
    <3>1. stack' = stack
      BY <1>4, <2>2, ConcatEmptySeq DEF AbortNext, CallCallback, Push
    <3> QED
      BY <1>4, <3>1, HasTail
  <2> QED
    BY <2>1, <2>2
<1>6. TypeOK'
  BY <1>1, <1>2, <1>3, <1>5 DEF TypeOK
<1>7. ControlInv'
  BY <1>5 DEF ControlInv, Top, Below
<1> QED
  BY <1>3, <1>6, <1>7 DEF IInv

-----------------------------------------------------------------------------
LEMMA FilterInv == ASSUME IInv, Filter PROVE IInv'
<1>1. TypeOK /\ Accounted /\ QueueInv /\ ControlInv
  BY DEF IInv
<1>2. /\ q \in Seq(Req) /\ q # <<>> /\ Head(q) \in Req
      /\ pipe \in Seq(Chunk) /\ pipe # <<>> /\ text \in Seq(Chunk)
  BY <1>1, HeadTail DEF Filter, TypeOK
<1>3. UNCHANGED <<q, started, left, buf, live, status, inbox, halfway,
                  accepted, answered, outcome>>
  BY DEF Filter, serverVars, history
<1>4. pipe' \in Seq(Chunk) /\ text' \in Seq(Chunk)
  <2>1. Head(pipe) \in Chunk /\ Tail(pipe) \in Seq(Chunk)
    BY <1>2, HeadTail
  <2>2. Append(text, Head(pipe)) \in Seq(Chunk)
    BY <1>2, <2>1, AppendProperties
  <2> QED
    BY <2>1, <2>2 DEF Filter
<1>5. /\ stack' \in Seq(Frames) /\ AllFrom(stack', 2, Below)
      /\ \A g : Has(stack, g) => Has(stack', g)
  <2>1. <<"check">> \in Seq(Frames) /\ <<"check">> # <<>>
        /\ AllFrom(<<"check">>, 2, Below)
    BY FrameLists DEF Frames
  <2>2. /\ stack \in Seq(Frames) /\ AllFrom(stack, 2, Below)
        /\ (stack # <<>> => Head(stack) \in Below)
        /\ stack' = Push(<<"check">>, stack)
    BY <1>1 DEF TypeOK, ControlInv, Filter, EventLoop, Top, Below
  <2> QED
    BY <2>1, <2>2, PushFrames
<1>6. TypeOK'
  <2>1. tag' \in [Req -> Tags]
    <3>1. PICK t \in UpdateTags(Head(pipe)) : tag' = [tag EXCEPT ![Head(q)] = t]
      BY DEF Filter
    <3>2. t \in Tags
      BY DEF UpdateTags, Tags
    <3> QED
      BY <1>1, <1>2, <3>1, <3>2 DEF TypeOK
  <2> QED
    BY <1>1, <1>3, <1>4, <1>5, <2>1 DEF TypeOK
<1>7. Accounted' /\ QueueInv'
  BY <1>1, <1>3 DEF Accounted, QueueInv
<1>8. ControlInv'
  BY <1>1, <1>2, <1>3, <1>5 DEF ControlInv
<1> QED
  BY <1>6, <1>7, <1>8 DEF IInv

LEMMA SentinelInv == ASSUME IInv, Sentinel PROVE IInv'
<1>1. TypeOK /\ Accounted /\ QueueInv /\ ControlInv
  BY DEF IInv
<1>2. UNCHANGED <<q, started, left, tag, buf, live, inbox, halfway, pipe, text,
                  accepted, answered, outcome>>
  BY DEF Sentinel, queueVars, serverVars, history
<1>3. /\ stack' \in Seq(Frames) /\ AllFrom(stack', 2, Below)
      /\ Has(stack', "abort") /\ stack' # <<>> /\ Head(stack') = "abort"
  <2>1. <<"abort">> \in Seq(Frames) /\ <<"abort">> # <<>>
        /\ AllFrom(<<"abort">>, 2, Below) /\ Has(<<"abort">>, "abort")
        /\ Head(<<"abort">>) = "abort"
    BY FrameLists DEF Frames
  <2>2. /\ stack \in Seq(Frames) /\ AllFrom(stack, 2, Below)
        /\ (stack # <<>> => Head(stack) \in Below)
        /\ stack' = Push(<<"abort">>, stack)
    BY <1>1 DEF TypeOK, ControlInv, Sentinel, EventLoop, Top, Below
  <2> QED
    BY <2>1, <2>2, PushFrames
<1>4. TypeOK'
  BY <1>1, <1>2, <1>3 DEF TypeOK, Sentinel
<1>5. Accounted' /\ QueueInv'
  BY <1>1, <1>2 DEF Accounted, QueueInv
<1>6. ControlInv'
  BY <1>3 DEF ControlInv, Top
<1> QED
  BY <1>4, <1>5, <1>6 DEF IInv

\* Steps of the process and of the user that leave the Lisp thread alone.
LEMMA OutsideInv ==
    ASSUME IInv,
           FilterSpurious \/ ServerPart \/ ServerLast \/ Die
             \/ \E b \in Buf : KillBuffer(b)
    PROVE  IInv'
<1>1. TypeOK /\ Accounted /\ QueueInv /\ ControlInv
  BY DEF IInv
<1>2. /\ UNCHANGED <<q, started, left, tag, buf, text, stack, accepted,
                     answered, outcome>>
      /\ status' \in {status, "dead"}
  BY DEF FilterSpurious, ServerPart, ServerLast, Die, KillBuffer,
         queueVars, serverVars, history
<1>3. inbox \in Seq(Message) /\ pipe \in Seq(Chunk)
  BY <1>1 DEF TypeOK
<1>4. ASSUME NEW last \in BOOLEAN, inbox # <<>>, Output(last)
      PROVE  pipe' \in Seq(Chunk) /\ Tail(inbox) \in Seq(Message)
  <2> DEFINE c == [msg |-> Head(inbox), last |-> last]
  <2>1. Head(inbox) \in Message /\ Tail(inbox) \in Seq(Message)
    BY <1>3, <1>4, HeadTail
  <2>2. c \in Chunk
    BY <2>1 DEF Chunk
  <2>3. pipe' = Append(pipe, c)
    BY <1>4 DEF Output
  <2> HIDE DEF c
  <2> QED
    BY <1>3, <2>1, <2>2, <2>3, AppendProperties
<1>5. pipe' \in Seq(Chunk) /\ inbox' \in Seq(Message)
      /\ halfway' \in BOOLEAN /\ live' \subseteq Buf
  <2>1. CASE FilterSpurious
    <3>1. Tail(pipe) \in Seq(Chunk)
      BY <1>3, <2>1, HeadTail DEF FilterSpurious
    <3> QED
      BY <1>1, <2>1, <3>1 DEF FilterSpurious, TypeOK, serverVars
  <2>2. CASE ServerPart
    BY <1>1, <1>4, <2>2 DEF ServerPart, TypeOK
  <2>3. CASE ServerLast
    BY <1>1, <1>4, <2>3 DEF ServerLast, TypeOK
  <2>4. CASE Die
    <3>1. inbox' = <<>> /\ halfway' = FALSE /\ pipe' = pipe /\ live' = live
      BY <2>4 DEF Die
    <3>2. inbox' \in Seq(Message)
      BY <3>1
    <3> QED
      BY <1>1, <3>1, <3>2 DEF TypeOK
  <2>5. CASE \E b \in Buf : KillBuffer(b)
    BY <1>1, <2>5 DEF KillBuffer, TypeOK, serverVars
  <2> QED
    BY <2>1, <2>2, <2>3, <2>4, <2>5
<1>6. TypeOK'
  BY <1>1, <1>2, <1>5 DEF TypeOK
<1>7. Accounted' /\ QueueInv'
  BY <1>1, <1>2 DEF Accounted, QueueInv
<1>8. ControlInv'
  BY <1>1, <1>2 DEF ControlInv, Top
<1> QED
  BY <1>6, <1>7, <1>8 DEF IInv

LEMMA StutterInv == ASSUME IInv, UNCHANGED vars PROVE IInv'
BY DEF vars, queueVars, serverVars, history, IInv, TypeOK, Accounted, QueueInv,
       ControlInv, Top

-----------------------------------------------------------------------------
\* The inductive invariant holds in every reachable state.
THEOREM InductiveInv == Spec => []IInv
<1>1. Init => IInv
  BY InitInv
<1>2. IInv /\ [Next]_vars => IInv'
  <2> SUFFICES ASSUME IInv, [Next]_vars PROVE IInv'
    OBVIOUS
  <2>1. ASSUME NEW r \in Req, NEW b \in Buf, NEW n \in 1..MaxChain,
               Schedule(r, b, n)
        PROVE  IInv'
    BY <2>1, ScheduleInv
  <2>2. CASE Lisp
    BY <2>2, StartNextInv, ReturnInv, CheckContinueInv, CheckAnswerInv,
       AbortNextInv DEF Lisp
  <2>3. CASE Events
    BY <2>3, FilterInv, SentinelInv, OutsideInv DEF Events
  <2>4. CASE Environment
    BY <2>1, <2>4, OutsideInv DEF Environment
  <2>5. CASE UNCHANGED vars
    BY <2>5, StutterInv
  <2> QED
    BY <2>2, <2>3, <2>4, <2>5 DEF Next
<1> QED
  BY <1>1, <1>2, PTL DEF Spec

\* Every variable keeps its shape: in particular start-next and check-result
\* never run on an empty queue, where they would take the car of nil apart.
THEOREM TypeCorrect == Spec => []TypeOK
<1>1. IInv => TypeOK
  BY DEF IInv
<1> QED
  BY <1>1, InductiveInv, PTL

\* Requests leave the queue in the order irony-iotask-schedule accepted them,
\* and none is lost or answered twice.
THEOREM ExactlyOnceInOrder == Spec => []Accounted
<1>1. IInv => Accounted
  BY DEF IInv
<1> QED
  BY <1>1, InductiveInv, PTL

\* When Emacs is idle the head of the queue is running, and only the head.
THEOREM NoLostWakeup == Spec => []HeadRuns
<1>1. IInv => HeadRuns
  <2> SUFFICES ASSUME IInv PROVE HeadRuns
    OBVIOUS
  <2>1. stack = <<>> => ~Has(stack, "start") /\ ~Has(stack, "safe") /\ ~Has(stack, "abort")
    BY FrameLists
  <2> QED
    BY <2>1 DEF IInv, QueueInv, ControlInv, HeadRuns
<1> QED
  BY <1>1, InductiveInv, PTL

\* No request is left waiting for a process whose sentinel has run.
THEOREM NobodyWaitsForTheDead == Spec => []NoOrphans
<1>1. IInv => NoOrphans
  BY DEF IInv, ControlInv, NoOrphans, OnStack, Has
<1> QED
  BY <1>1, InductiveInv, PTL

-----------------------------------------------------------------------------
\* The request whose turn it is in the abstract service is the head of the
\* queue.
LEMMA CurrentIsHead ==
    ASSUME IInv, q # <<>>
    PROVE  Service!Open /\ Service!Current = Head(q)
<1>1. /\ q \in Seq(Req) /\ answered \in Seq(Req)
      /\ accepted = answered \o q
  BY DEF IInv, TypeOK, Accounted
<1>2. /\ Len(answered) < Len(answered \o q)
      /\ (answered \o q)[Len(answered) + 1] = Head(q)
  BY <1>1, NextAfterHistory
<1> QED
  BY <1>1, <1>2 DEF Service!Open, Service!Current

LEMMA ScheduleSubmits ==
    ASSUME IInv, NEW r \in Req, NEW b \in Buf, NEW n \in 1..MaxChain,
           Schedule(r, b, n)
    PROVE  Service!Submit(r)
<1>1. left \in [Req -> 0..MaxChain] /\ MaxChain \in Nat
  BY IOTaskAssumption DEF IInv, TypeOK
<1>2. /\ left[r] = 0 /\ left' = [left EXCEPT ![r] = n]
      /\ accepted' = Append(accepted, r)
      /\ UNCHANGED <<answered, outcome>>
  BY DEF Schedule
<1>3. left'[r] = n /\ n \in Nat \ {0}
  BY <1>1, <1>2
<1> QED
  BY <1>2, <1>3 DEF Service!Submit

LEMMA ContinueAdvances == ASSUME IInv, CheckContinue PROVE Service!Advance
<1>1. q # <<>>
  BY DEF IInv, ControlInv, CheckContinue
<1>2. Service!Open /\ Service!Current = Head(q)
  BY <1>1, CurrentIsHead
<1> QED
  BY <1>2 DEF CheckContinue, HasContinuation, history, Service!Advance

LEMMA PopAnswers ==
    ASSUME IInv, q # <<>>, NEW how, Pop(how), UNCHANGED <<accepted, left>>,
           how = "value" => left[Head(q)] = 1
    PROVE  Service!Answer(how)
<1>1. Service!Open /\ Service!Current = Head(q)
  BY CurrentIsHead
<1> QED
  BY <1>1 DEF Pop, Service!Answer

LEMMA CheckAnswers ==
    ASSUME IInv, CheckAnswer
    PROVE  \E how \in Service!Outcomes : Service!Answer(how)
<1>1. q # <<>>
  BY DEF IInv, ControlInv, CheckAnswer
<1>2. PICK t \in FinalTag(tag[Head(q)]) :
          (t = "value" => ~HasContinuation(Head(q))) /\ Pop(t)
  BY DEF CheckAnswer
<1>3. Head(q) \in Req /\ left[Head(q)] \in Nat /\ left[Head(q)] > 0
  <2>1. q \in Seq(Req) /\ left \in [Req -> 0..MaxChain] /\ MaxChain \in Nat
    BY IOTaskAssumption DEF IInv, TypeOK
  <2>2. Head(q) \in Req /\ Head(q) = q[1] /\ 1 \in 1..Len(q)
    BY <1>1, <2>1, HeadTail
  <2>3. left[q[1]] > 0
    BY <2>2 DEF IInv, QueueInv
  <2> QED
    BY <2>1, <2>2, <2>3
<1>4. t = "value" => left[Head(q)] = 1
  BY <1>2, <1>3 DEF HasContinuation
<1>5. Service!Answer(t)
  BY <1>1, <1>2, <1>4, PopAnswers DEF CheckAnswer
<1>6. t \in Service!Outcomes
  BY <1>2 DEF FinalTag, Service!Outcomes
<1> QED
  BY <1>5, <1>6

\* irony-iotask.el implements the abstract request service: a chain is a
\* request that advances task by task, and an answer is a pop of the queue.
THEOREM Refinement == Spec => ImplementsService
<1>1. Init => Service!RSInit
  BY DEF Init, Service!RSInit
<1>2. IInv /\ [Next]_vars => [Service!RSNext]_(Service!svars)
  <2> SUFFICES ASSUME IInv, [Next]_vars
               PROVE  Service!RSNext \/ UNCHANGED <<accepted, answered, left, outcome>>
    BY DEF Service!svars
  <2>1. CASE Lisp
    <3>1. CASE StartNext \/ CheckNoResult \/ CallbackReturns \/ StartNextSafe
                 \/ AbortDone
      BY <3>1 DEF StartNext, CheckNoResult, CallbackReturns, StartNextSafe,
                  AbortDone, history, queueVars
    <3>2. CASE CheckContinue
      BY <3>2, ContinueAdvances DEF Service!RSNext
    <3>3. CASE CheckAnswer
      BY <3>3, CheckAnswers DEF Service!RSNext
    <3>4. CASE AbortNext
      <4>1. Service!Answer("aborted")
        BY <3>4, PopAnswers DEF AbortNext
      <4> QED
        BY <4>1 DEF Service!RSNext, Service!Outcomes
    <3> QED
      BY <2>1, <3>1, <3>2, <3>3, <3>4 DEF Lisp
  <2>2. CASE Events
    BY <2>2 DEF Events, Filter, FilterSpurious, Sentinel, history, queueVars
  <2>3. ASSUME NEW r \in Req, NEW b \in Buf, NEW n \in 1..MaxChain,
               Schedule(r, b, n)
        PROVE  Service!RSNext
    BY <2>3, ScheduleSubmits DEF Service!RSNext
  <2>4. CASE ServerPart \/ ServerLast \/ Die \/ \E b \in Buf : KillBuffer(b)
    BY <2>4 DEF ServerPart, ServerLast, Die, KillBuffer, history, queueVars
  <2>5. CASE UNCHANGED vars
    BY <2>5 DEF vars, history, queueVars
  <2> QED
    BY <2>1, <2>2, <2>3, <2>4, <2>5 DEF Next, Environment
<1> QED
  BY <1>1, <1>2, InductiveInv, PTL DEF Spec, ImplementsService, Service!RSSpec

-----------------------------------------------------------------------------
(***************************************************************************)
(* Which output the filter may hand to which task.                         *)
(***************************************************************************)

\* A process that is gone sends nothing more, and the queue is only aborted
\* after its last output has been read.
ProcessInv ==
    /\ status # "run" => inbox = <<>>
    /\ status = "reaped" => pipe = <<>>
    /\ Has(stack, "abort") => status = "reaped"

\* The head of the queue waits for no answer: it has not sent its message, or
\* it has its result.
Resting ==
    \/ q = <<>> \/ Head(q) \notin started
    \/ Top("start")
    \/ Top("check") /\ tag[Head(q)] # "unset"

\* When no :update function gives up early, at most one message is under way,
\* the one of the task at the head, and the last piece of its answer ends it.
AnswerInv ==
    /\ \A r \in Req : r \notin started => tag[r] = "unset"
    /\ Top("start") => tag[Head(q)] = "unset"
    /\ Top("check") => Head(q) \in started
    /\ Resting => inbox = <<>> /\ pipe = <<>>
    /\ \A i \in 1..Len(pipe) : Concerns(pipe[i].msg)
    /\ \A i \in 1..Len(inbox) : Concerns(inbox[i])
    /\ q # <<>> /\ Head(q) \in started /\ ~Top("start") =>
          \A i \in 1..Len(text) : Concerns(text[i].msg)
    /\ \A i \in 1..Len(pipe) : pipe[i].last => i = Len(pipe) /\ inbox = <<>>
    /\ Len(inbox) <= 1

OutputInv == ProcessInv /\ (~EarlyReject => AnswerInv)

\* Frames for --abort-all come from the sentinel only.
LEMMA OnlySentinelAborts ==
    ASSUME IInv, Next, ~Sentinel, Has(stack', "abort")
    PROVE  Has(stack, "abort")
<1>1. stack \in Seq(Frames) /\ (stack # <<>> => Tail(stack) \in Seq(Frames))
  BY HeadTail DEF IInv, TypeOK
<1>2. ASSUME NEW frames \in Seq(Frames), ~Has(frames, "abort"),
             (stack # <<>> /\ Continue(frames)) \/ stack' = Push(frames, stack)
      PROVE  Has(stack, "abort")
  <2>1. CASE stack' = Push(frames, stack)
    BY <1>1, <1>2, <2>1, HasConcat DEF Push
  <2>2. CASE stack # <<>> /\ Continue(frames)
    BY <1>1, <1>2, <2>2, HasConcat, HasTail DEF Push, Continue
  <2> QED
    BY <1>2, <2>1, <2>2
<1>3. /\ <<>> \in Seq(Frames) /\ ~Has(<<>>, "abort")
      /\ <<"start">> \in Seq(Frames) /\ ~Has(<<"start">>, "abort")
      /\ <<"check">> \in Seq(Frames) /\ ~Has(<<"check">>, "abort")
      /\ <<"safe">> \in Seq(Frames) /\ ~Has(<<"safe">>, "abort")
      /\ <<"callback">> \in Seq(Frames) /\ ~Has(<<"callback">>, "abort")
  BY FrameLists DEF Frames
<1>4. ASSUME NEW r
      PROVE  /\ CallCallback(r) \in Seq(Frames) /\ ~Has(CallCallback(r), "abort")
             /\ CallCallback(r) \o <<"safe">> \in Seq(Frames)
             /\ ~Has(CallCallback(r) \o <<"safe">>, "abort")
  <2>1. CallCallback(r) \in Seq(Frames) /\ ~Has(CallCallback(r), "abort")
    BY <1>3 DEF CallCallback
  <2>2. Has(CallCallback(r) \o <<"safe">>, "abort")
            => Has(CallCallback(r), "abort") \/ Has(<<"safe">>, "abort")
    BY <1>3, <2>1, HasConcat
  <2>3. CallCallback(r) \o <<"safe">> \in Seq(Frames)
    BY <1>3, <2>1, ConcatProperties
  <2> QED
    BY <1>3, <2>1, <2>2, <2>3
<1>5. CASE Lisp
  <2>1. CASE StartNext
    BY <1>2, <1>3, <2>1 DEF StartNext, Top
  <2>2. CASE CheckNoResult \/ CallbackReturns \/ AbortDone
    BY <1>2, <1>3, <2>2 DEF CheckNoResult, CallbackReturns, AbortDone, Top
  <2>3. CASE StartNextSafe
    <3>1. Continue(<<"start">>) \/ Continue(<<>>)
      BY <2>3 DEF StartNextSafe
    <3> QED
      BY <1>2, <1>3, <2>3, <3>1 DEF StartNextSafe, Top
  <2>4. CASE CheckContinue
    BY <1>2, <1>3, <2>4 DEF CheckContinue, Top
  <2>5. CASE CheckAnswer
    <3>1. Continue(CallCallback(Head(q)) \o <<"safe">>) /\ stack # <<>>
      BY <2>5 DEF CheckAnswer, Top
    <3> QED
      BY <1>2, <1>4, <3>1
  <2>6. CASE AbortNext
    <3>1. stack' = Push(CallCallback(Head(q)), stack)
      BY <2>6 DEF AbortNext
    <3> QED
      BY <1>2, <1>4, <3>1
  <2> QED
    BY <1>5, <2>1, <2>2, <2>3, <2>4, <2>5, <2>6 DEF Lisp
<1>6. CASE Events
  <2>1. CASE Filter
    BY <1>2, <1>3, <2>1 DEF Filter
  <2>2. CASE FilterSpurious
    BY <2>2 DEF FilterSpurious
  <2> QED
    BY <1>6, <2>1, <2>2 DEF Events
<1>7. CASE Environment
  <2>1. ASSUME NEW r \in Req, NEW b \in Buf, NEW n \in 1..MaxChain,
               Schedule(r, b, n)
        PROVE  Has(stack, "abort")
    BY <1>2, <1>3, <2>1 DEF Schedule, StartIfAlone
  <2>2. CASE ServerPart \/ ServerLast \/ Die \/ \E b \in Buf : KillBuffer(b)
    BY <2>2 DEF ServerPart, ServerLast, Die, KillBuffer
  <2> QED
    BY <1>7, <2>1, <2>2 DEF Environment
<1> QED
  BY <1>5, <1>6, <1>7 DEF Next

LEMMA ProcessStep == ASSUME IInv, ProcessInv, Next PROVE ProcessInv'
<1>1. CASE Sentinel
  BY <1>1 DEF ProcessInv, Sentinel, serverVars
<1>2. CASE ~Sentinel
  <2>1. Has(stack', "abort") => Has(stack, "abort")
    BY <1>2, OnlySentinelAborts
  <2>2. CASE Lisp
    <3>1. status' = status /\ pipe' = pipe
          /\ (status # "run" => inbox' = inbox)
      BY <2>2 DEF Lisp, StartNext, CheckNoResult, CheckContinue, CheckAnswer,
                  CallbackReturns, StartNextSafe, AbortNext, AbortDone, serverVars
    <3> QED
      BY <2>1, <3>1 DEF ProcessInv
  <2>3. CASE Filter \/ FilterSpurious
    <3>1. status' = status /\ inbox' = inbox /\ pipe # <<>>
      BY <2>3 DEF Filter, FilterSpurious, serverVars
    <3> QED
      BY <2>1, <3>1 DEF ProcessInv
  <2>4. CASE Environment
    <3>1. ASSUME NEW r \in Req, NEW b \in Buf, NEW n \in 1..MaxChain,
                 Schedule(r, b, n)
          PROVE  ProcessInv'
      BY <2>1, <3>1 DEF ProcessInv, Schedule, serverVars
    <3>2. CASE ServerPart \/ ServerLast
      <4>1. status = "run" /\ status' = status
        BY <3>2 DEF ServerPart, ServerLast
      <4> QED
        BY <2>1, <4>1 DEF ProcessInv
    <3>3. CASE Die
      BY <2>1, <3>3 DEF ProcessInv, Die
    <3>4. CASE \E b \in Buf : KillBuffer(b)
      BY <2>1, <3>4 DEF ProcessInv, KillBuffer, serverVars
    <3> QED
      BY <2>4, <3>1, <3>2, <3>3, <3>4 DEF Environment
  <2> QED
    BY <1>2, <2>2, <2>3, <2>4 DEF Next, Events
<1> QED
  BY <1>1, <1>2

\* Steps that leave the queue, its results and the output alone.
LEMMA QuietStep ==
    ASSUME AnswerInv, ~Top("start"), ~Top("check") \/ tag[Head(q)] = "unset",
           UNCHANGED <<q, started, left, tag, inbox, pipe, text>>,
           ~Top("check")', Top("start")' => HeadMustStart,
           q \in Seq(Req)
    PROVE  AnswerInv'
<1>1. Resting' => Resting
  BY DEF Resting, HeadMustStart
<1>2. Top("start")' => tag'[Head(q')] = "unset"
  <2>1. q # <<>> => Head(q) \in Req
    BY HeadTail
  <2> QED
    BY <2>1 DEF HeadMustStart, AnswerInv
<1> QED
  BY <1>1, <1>2 DEF AnswerInv, Concerns

LEMMA ReturnAnswer ==
    ASSUME IInv, AnswerInv,
           \/ CheckNoResult \/ CallbackReturns \/ StartNextSafe \/ AbortDone
           \/ Sentinel \/ \E b \in Buf : KillBuffer(b)
    PROVE  AnswerInv'
<1>1. /\ stack \in Seq(Frames) /\ AllFrom(stack, 2, Below) /\ q \in Seq(Req)
  BY DEF IInv, TypeOK, ControlInv
<1>2. UNCHANGED <<q, started, left, tag, inbox, pipe, text>>
  BY DEF CheckNoResult, CallbackReturns, StartNextSafe, AbortDone, Sentinel,
         KillBuffer, queueVars, serverVars
<1>3. ASSUME NEW f \in Frames, Top(f), Continue(<<>>)
      PROVE  ~Top("check")' /\ ~Top("start")'
  <2>1. stack' # <<>> => Head(stack') \in Below
    BY <1>1, <1>3, FrameLists, ContinueWith
  <2> QED
    BY <2>1 DEF Top, Below
<1>4. "check" \in Frames /\ "callback" \in Frames /\ "safe" \in Frames
      /\ "abort" \in Frames /\ "start" \in Frames
  BY DEF Frames
<1>5. CASE CheckNoResult
  BY <1>1, <1>2, <1>3, <1>4, <1>5, QuietStep DEF CheckNoResult, Top
<1>6. CASE CallbackReturns
  BY <1>1, <1>2, <1>3, <1>4, <1>6, QuietStep DEF CallbackReturns, Top
<1>7. CASE AbortDone
  BY <1>1, <1>2, <1>3, <1>4, <1>7, QuietStep DEF AbortDone, Top
<1>8. CASE StartNextSafe
  <2>1. ~Top("start") /\ ~Top("check")
    BY <1>8 DEF StartNextSafe, Top
  <2>2. CASE HeadMustStart
    <3>1. Continue(<<"start">>) /\ Top("safe")
      BY <1>8, <2>2 DEF StartNextSafe
    <3>2. Head(stack') = "start"
      BY <1>1, <1>4, <3>1, FrameLists, ContinueWith
    <3> QED
      BY <1>1, <1>2, <2>1, <2>2, <3>2, QuietStep DEF Top
  <2>3. CASE ~HeadMustStart
    <3>1. Continue(<<>>) /\ Top("safe")
      BY <1>8, <2>3 DEF StartNextSafe
    <3> QED
      BY <1>1, <1>2, <1>3, <1>4, <2>1, <3>1, QuietStep
  <2> QED
    BY <2>2, <2>3
<1>9. CASE Sentinel
  <2>1. ~Top("start") /\ ~Top("check")
    BY <1>9 DEF Sentinel, EventLoop, Top
  <2>2. Head(stack') = "abort"
    <3>1. stack # <<>> => Head(stack) \in Below
      BY <1>9 DEF Sentinel, EventLoop, Top, Below
    <3>2. stack' = Push(<<"abort">>, stack)
      BY <1>9 DEF Sentinel
    <3>3. <<"abort">> \in Seq(Frames) /\ <<"abort">> # <<>>
          /\ AllFrom(<<"abort">>, 2, Below) /\ Head(<<"abort">>) = "abort"
      BY <1>4, FrameLists
    <3> QED
      BY <1>1, <3>1, <3>2, <3>3, PushFrames
  <2> QED
    BY <1>1, <1>2, <2>1, <2>2, QuietStep DEF Top
<1>10. CASE \E b \in Buf : KillBuffer(b)
  <2>1. stack' = stack /\ EventLoop
    BY <1>10 DEF KillBuffer
  <2>2. ~Top("start") /\ ~Top("check")
    BY <2>1 DEF EventLoop, Top
  <2> QED
    BY <1>1, <1>2, <2>1, <2>2, QuietStep DEF Top
<1> QED
  BY <1>5, <1>6, <1>7, <1>8, <1>9, <1>10

\* The process writes the answer to the only message it has.
LEMMA ServerAnswer ==
    ASSUME IInv, AnswerInv, ServerPart \/ ServerLast \/ Die
    PROVE  AnswerInv'
<1>1. inbox \in Seq(Message) /\ pipe \in Seq(Chunk)
  BY DEF IInv, TypeOK
<1>2. UNCHANGED <<q, started, left, tag, text, stack>>
  BY DEF ServerPart, ServerLast, Die, queueVars
<1>3. Resting' <=> Resting
  BY <1>2 DEF Resting, Top
<1>4. \A m : Concerns(m)' <=> Concerns(m)
  BY <1>2 DEF Concerns
<1>5. CASE Die
  BY <1>2, <1>3, <1>4, <1>5 DEF AnswerInv, Die, Top
<1>6. ASSUME NEW last \in BOOLEAN, inbox # <<>>, Output(last),
             inbox' = IF last THEN Tail(inbox) ELSE inbox
      PROVE  AnswerInv'
  <2> DEFINE c == [msg |-> Head(inbox), last |-> last]
  <2>1. /\ Len(inbox) = 1 /\ Head(inbox) = inbox[1] /\ Head(inbox) \in Message
        /\ Tail(inbox) \in Seq(Message) /\ Len(Tail(inbox)) = 0
    <3>1. /\ Len(inbox) \in Nat /\ Len(inbox) >= 1
          /\ Head(inbox) = inbox[1] /\ Head(inbox) \in Message
          /\ Tail(inbox) \in Seq(Message) /\ Len(Tail(inbox)) = Len(inbox) - 1
      BY <1>1, <1>6, HeadTail
    <3>2. Len(inbox) <= 1
      BY DEF AnswerInv
    <3> QED
      BY <3>1, <3>2
  <2>2. c \in Chunk /\ c.msg = inbox[1] /\ c.last = last
    BY <2>1 DEF Chunk
  <2>3. Concerns(c.msg) /\ ~Resting
    BY <1>6, <2>1, <2>2 DEF AnswerInv
  <2>4. /\ Len(pipe) \in Nat /\ Len(pipe') = Len(pipe) + 1
        /\ \A i \in 1..Len(pipe) : pipe'[i] = pipe[i]
        /\ pipe'[Len(pipe) + 1] = c
    <3> HIDE DEF c
    <3>1. pipe' = Append(pipe, c)
      BY <1>6 DEF Output, c
    <3> QED
      BY <1>1, <2>2, <3>1, AppendProperties, LenProperties
  <2>5. inbox' = IF last THEN <<>> ELSE inbox
    <3>1. Tail(inbox) = <<>>
      BY <2>1, EmptySeq
    <3> QED
      BY <1>6, <3>1
  <2> HIDE DEF c
  <2>6. ASSUME NEW i \in 1..Len(pipe')
        PROVE  /\ Concerns(pipe'[i].msg)
               /\ pipe'[i].last => i = Len(pipe') /\ inbox' = <<>>
    <3>1. CASE i \in 1..Len(pipe)
      BY <1>6, <2>4, <3>1 DEF AnswerInv
    <3>2. CASE i = Len(pipe) + 1
      BY <2>2, <2>3, <2>4, <2>5, <3>2
    <3> QED
      BY <2>4, <3>1, <3>2
  <2>7. Len(inbox') <= 1 /\ \A i \in 1..Len(inbox') : Concerns(inbox'[i])
    <3>1. Len(inbox) <= 1 /\ \A i \in 1..Len(inbox) : Concerns(inbox[i])
      BY DEF AnswerInv
    <3>2. CASE last
      <4>1. Len(inbox') = 0 /\ \A i \in 1..Len(inbox') : FALSE
        BY <2>5, <3>2
      <4> QED
        BY <4>1
    <3>3. CASE ~last
      BY <2>5, <3>1, <3>3
    <3> QED
      BY <3>2, <3>3
  <2> QED
    BY <1>2, <1>3, <1>4, <2>3, <2>6, <2>7 DEF AnswerInv, Top
<1>7. CASE ServerPart
  BY <1>6, <1>7 DEF ServerPart
<1>8. CASE ServerLast
  BY <1>6, <1>8 DEF ServerLast
<1> QED
  BY <1>5, <1>7, <1>8

LEMMA ScheduleAnswer ==
    ASSUME IInv, AnswerInv, NEW r \in Req, NEW b \in Buf, NEW n \in 1..MaxChain,
           Schedule(r, b, n)
    PROVE  AnswerInv'
<1>1. /\ q \in Seq(Req) /\ left \in [Req -> 0..MaxChain] /\ QueueInv
      /\ stack \in Seq(Frames) /\ AllFrom(stack, 2, Below)
      /\ (stack # <<>> => Head(stack) \in Below)
  BY DEF IInv, TypeOK, ControlInv, Schedule, EventLoop, Top, Below
<1>2. /\ UNCHANGED <<started, tag, inbox, pipe, text>>
      /\ left[r] = 0 /\ left' = [left EXCEPT ![r] = n] /\ q' = Append(q, r)
      /\ ~Top("start") /\ ~Top("check")
  BY DEF Schedule, serverVars, Enqueue, EventLoop, Top
<1>3. /\ q' \in Seq(Req) /\ q' # <<>> /\ Len(q') = Len(q) + 1 /\ Len(q) \in Nat
      /\ \A i \in 1..Len(q) : q'[i] = q[i]
      /\ q'[Len(q')] = r
      /\ Head(q') = IF q = <<>> THEN r ELSE Head(q)
      /\ q = <<>> <=> Len(q') = 1
  <2>1. q \in Seq(Req) /\ q' = Append(q, r)
    BY <1>1, <1>2
  <2> QED
    BY <2>1, QueueAppend
<1>4. r \notin started
  BY <1>1, <1>2 DEF QueueInv
<1>5. CASE q = <<>>
  <2>1. Resting /\ inbox = <<>> /\ pipe = <<>>
    BY <1>5 DEF Resting, AnswerInv
  <2>2. ~Top("check")'
    <3>1. stack' = Push(<<"start">>, stack) /\ "start" \in Frames
      BY <1>3, <1>5 DEF Schedule, StartIfAlone, Frames
    <3>2. <<"start">> \in Seq(Frames) /\ <<"start">> # <<>>
          /\ AllFrom(<<"start">>, 2, Below) /\ Head(<<"start">>) = "start"
      BY <3>1, FrameLists
    <3>3. Head(stack') = "start"
      BY <1>1, <3>1, <3>2, PushFrames
    <3> QED
      BY <3>3 DEF Top
  <2>3. Head(q') \notin started' /\ tag'[Head(q')] = "unset"
    BY <1>2, <1>3, <1>4, <1>5 DEF AnswerInv
  <2>4. \A i \in 1..Len(pipe) : FALSE
    BY <2>1
  <2>5. \A i \in 1..Len(inbox) : FALSE
    BY <2>1
  <2> QED
    BY <1>2, <2>1, <2>2, <2>3, <2>4, <2>5 DEF AnswerInv
<1>6. CASE q # <<>>
  <2>1. stack' = stack /\ Head(q') = Head(q)
    BY <1>3, <1>6 DEF Schedule, StartIfAlone
  <2>2. left'[Head(q)] = left[Head(q)]
    <3>1. Head(q) = q[1] /\ 1 \in 1..Len(q) /\ Head(q) \in Req
      BY <1>1, <1>6, HeadTail
    <3>2. left[Head(q)] > 0
      BY <1>1, <3>1 DEF QueueInv
    <3> QED
      BY <1>1, <1>2, <3>1, <3>2
  <2>3. \A m : Concerns(m)' <=> Concerns(m)
    BY <1>3, <1>6, <2>1, <2>2 DEF Concerns
  <2>4. Resting' <=> Resting
    BY <1>2, <1>3, <1>6, <2>1 DEF Resting, Top
  <2> QED
    BY <1>2, <1>3, <1>6, <2>1, <2>3, <2>4 DEF AnswerInv, Top
<1> QED
  BY <1>5, <1>6

LEMMA StartNextAnswer == ASSUME IInv, AnswerInv, StartNext PROVE AnswerInv'
<1>1. /\ q \in Seq(Req) /\ q # <<>> /\ tag \in [Req -> Tags]
      /\ stack \in Seq(Frames) /\ AllFrom(stack, 2, Below)
  BY DEF IInv, TypeOK, ControlInv, StartNext
<1>2. Head(q) \in Req
  BY <1>1, HeadTail
<1>3. /\ UNCHANGED <<q, left, pipe>> /\ Top("start") /\ text' = <<>>
      /\ started' = started \cup {Head(q)}
  BY DEF StartNext, EraseBuffer
<1>4. inbox = <<>> /\ pipe = <<>> /\ tag[Head(q)] = "unset"
  BY <1>3 DEF Resting, AnswerInv
<1>5. Head(stack') = "check"
  <2>1. <<"check">> \in Seq(Frames) /\ <<"check">> # <<>>
        /\ AllFrom(<<"check">>, 2, Below) /\ Head(<<"check">>) = "check"
        /\ "start" \in Frames
    BY FrameLists DEF Frames
  <2> QED
    BY <1>1, <2>1, ContinueWith DEF StartNext
<1>6. (\A i \in 1..Len(pipe') : FALSE) /\ (\A i \in 1..Len(text') : FALSE)
  <2>1. pipe' = <<>> /\ text' = <<>>
    BY <1>3, <1>4
  <2> QED
    BY <2>1
<1>7. \A r \in Req : r \notin started' => tag'[r] = "unset"
  <2>1. PICK t : tag' = tag \/ tag' = [tag EXCEPT ![Head(q)] = t]
    BY DEF StartNext
  <2> QED
    BY <1>1, <1>3, <2>1 DEF AnswerInv
<1>8. CASE inbox' = Append(inbox, [req |-> Head(q), task |-> left[Head(q)]])
           /\ tag' = tag
  <2> DEFINE m == [req |-> Head(q), task |-> left[Head(q)]]
  <2>1. q' # <<>> /\ m = [req |-> Head(q'), task |-> left'[Head(q')]]
    BY <1>1, <1>3
  <2>2. Len(inbox') = 1 /\ inbox'[1] = m
    <3> HIDE DEF m
    <3>1. Append(<<>>, m) = <<m>>
      OBVIOUS
    <3>2. inbox' = <<m>>
      BY <1>4, <1>8, <3>1 DEF m
    <3> QED
      BY <3>2
  <2>3. ~Resting'
    BY <1>1, <1>3, <1>4, <1>5, <1>8 DEF Resting, Top
  <2>4. (\A i \in 1..Len(inbox) : Concerns(inbox[i]))'
    <3> HIDE DEF m
    <3> QED
      BY <2>1, <2>2 DEF Concerns
  <2> QED
    BY <1>1, <1>3, <1>5, <1>6, <1>7, <2>2, <2>3, <2>4 DEF AnswerInv, Top
<1>9. CASE inbox' = inbox
  <2>1. inbox' = <<>> /\ pipe' = <<>> /\ Len(inbox') = 0
        /\ \A i \in 1..Len(inbox') : FALSE
    BY <1>3, <1>4, <1>9
  <2> QED
    BY <1>1, <1>3, <1>5, <1>6, <1>7, <2>1 DEF AnswerInv, Top
<1> QED
  BY <1>8, <1>9 DEF StartNext

\* Steps that need neither a message nor output to be under way.
LEMMA AtRest ==
    ASSUME inbox' = <<>>, pipe' = <<>>,
           \A r \in Req : r \notin started' => tag'[r] = "unset",
           Top("start")' => tag'[Head(q')] = "unset",
           ~Top("check")',
           q' # <<>> /\ Head(q') \in started' => Top("start")'
    PROVE  AnswerInv'
<1>1. /\ \A i \in 1..Len(pipe') : FALSE
      /\ \A i \in 1..Len(inbox') : FALSE
      /\ Len(inbox') = 0
  OBVIOUS
<1> QED
  BY <1>1 DEF AnswerInv

LEMMA ContinueAnswer == ASSUME IInv, AnswerInv, CheckContinue PROVE AnswerInv'
<1>1. /\ q \in Seq(Req) /\ q # <<>> /\ tag \in [Req -> Tags]
      /\ stack \in Seq(Frames) /\ AllFrom(stack, 2, Below)
  BY DEF IInv, TypeOK, ControlInv, CheckContinue
<1>2. Head(q) \in Req
  BY <1>1, HeadTail
<1>3. /\ UNCHANGED <<q, started, pipe, inbox>> /\ Top("check")
      /\ tag[Head(q)] = "value" /\ tag' = [tag EXCEPT ![Head(q)] = "unset"]
  BY DEF CheckContinue, serverVars
<1>4. inbox' = <<>> /\ pipe' = <<>>
  BY <1>3 DEF Resting, AnswerInv
<1>5. stack' # <<>> /\ Head(stack') = "start"
  <2>1. <<"start">> \in Seq(Frames) /\ <<"start">> # <<>>
        /\ AllFrom(<<"start">>, 2, Below) /\ Head(<<"start">>) = "start"
        /\ "check" \in Frames
    BY FrameLists DEF Frames
  <2> QED
    BY <1>1, <2>1, ContinueWith DEF CheckContinue
<1>6. \A r \in Req : r \notin started' => tag'[r] = "unset"
  BY <1>1, <1>3 DEF AnswerInv
<1>7. tag'[Head(q')] = "unset"
  BY <1>1, <1>2, <1>3
<1> QED
  BY <1>4, <1>5, <1>6, <1>7, AtRest DEF Top

\* The next request of the queue has not been started.
LEMMA NextNotStarted ==
    ASSUME QueueInv, q \in Seq(Req), q # <<>>, Tail(q) # <<>>
    PROVE  Head(Tail(q)) \notin started
<1>1. /\ Tail(q) \in Seq(Req) /\ Len(q) \in Nat /\ Len(Tail(q)) = Len(q) - 1
      /\ \A i \in 1..Len(Tail(q)) : Tail(q)[i] = q[i + 1]
  BY HeadTail
<1>2. Head(Tail(q)) = Tail(q)[1] /\ Len(Tail(q)) >= 1
  BY <1>1, HeadTail
<1>3. 1 \in 1..Len(Tail(q)) /\ 2 \in 2..Len(q)
  BY <1>1, <1>2
<1>4. Tail(q)[1] = q[2]
  BY <1>1, <1>3
<1> QED
  BY <1>2, <1>3, <1>4 DEF QueueInv

LEMMA PopAnswer ==
    ASSUME IInv, ProcessInv, AnswerInv, CheckAnswer \/ AbortNext
    PROVE  AnswerInv'
<1>1. /\ q \in Seq(Req) /\ q # <<>> /\ tag \in [Req -> Tags] /\ QueueInv
      /\ stack \in Seq(Frames) /\ AllFrom(stack, 2, Below)
  BY DEF IInv, TypeOK, ControlInv, CheckAnswer, AbortNext
<1>2. Head(q) \in Req
  BY <1>1, HeadTail
<1>3. UNCHANGED <<started, pipe, inbox>> /\ q' = Tail(q)
  BY DEF CheckAnswer, AbortNext, serverVars, Pop
<1>4. q' # <<>> => Head(q') \notin started'
  BY <1>1, <1>3, NextNotStarted
<1>5. CASE CheckAnswer
  <2>1. inbox' = <<>> /\ pipe' = <<>> /\ Head(q) \in started
    BY <1>3, <1>5 DEF CheckAnswer, Resting, AnswerInv
  <2>2. Head(stack') \in Below
    <3> DEFINE frames == CallCallback(Head(q)) \o <<"safe">>
    <3>1. /\ frames \in Seq(Frames) /\ frames # <<>> /\ AllFrom(frames, 2, Below)
          /\ Head(frames) \in Below
      BY CallbackFrames
    <3>2. "check" \in Frames /\ Top("check") /\ Continue(frames)
      BY <1>5 DEF CheckAnswer, Frames
    <3> HIDE DEF frames
    <3> QED
      BY <1>1, <3>1, <3>2, ContinueWith
  <2>3. \A r \in Req : r \notin started' => tag'[r] = "unset"
    <3>1. PICK t : tag' = [tag EXCEPT ![Head(q)] = t]
      BY <1>5 DEF CheckAnswer
    <3> QED
      BY <1>1, <1>3, <2>1, <3>1 DEF AnswerInv
  <2> QED
    BY <1>4, <2>1, <2>2, <2>3, AtRest DEF Top, Below
<1>6. CASE AbortNext
  <2>1. stack # <<>> /\ Head(stack) = "abort" /\ tag' = tag
    BY <1>6 DEF AbortNext, Top
  <2>2. inbox' = <<>> /\ pipe' = <<>>
    <3>1. Has(stack, "abort")
      BY <1>1, <2>1, HasTail
    <3> QED
      BY <1>3, <3>1 DEF ProcessInv
  <2>3. Head(stack') \in Below
    <3>1. CASE buf[Head(q)] \in live
      <4>1. stack' = Push(<<"callback">>, stack)
        BY <1>6, <3>1 DEF AbortNext, CallCallback
      <4>2. <<"callback">> \in Seq(Frames) /\ <<"callback">> # <<>>
            /\ AllFrom(<<"callback">>, 2, Below) /\ Head(<<"callback">>) = "callback"
        BY FrameLists DEF Frames
      <4>3. Head(stack) \in Below
        BY <2>1 DEF Below
      <4>4. Head(stack') = Head(<<"callback">>)
        BY <1>1, <4>1, <4>2, <4>3, PushFrames
      <4> QED
        BY <4>2, <4>4 DEF Below
    <3>2. CASE buf[Head(q)] \notin live
      <4>1. stack' = stack
        BY <1>1, <1>6, <3>2, ConcatEmptySeq DEF AbortNext, CallCallback, Push
      <4> QED
        BY <2>1, <4>1 DEF Below
    <3> QED
      BY <3>1, <3>2
  <2> QED
    BY <1>3, <1>4, <2>1, <2>2, <2>3, AtRest DEF Top, Below, AnswerInv
<1> QED
  BY <1>5, <1>6

\* The filter reads output of the task at the head, and its last piece only
\* when nothing else is under way.
LEMMA FilterAnswer ==
    ASSUME IInv, AnswerInv, ~EarlyReject, Filter
    PROVE  AnswerInv'
<1>1. /\ q \in Seq(Req) /\ q # <<>> /\ tag \in [Req -> Tags]
      /\ pipe \in Seq(Chunk) /\ text \in Seq(Chunk) /\ pipe # <<>>
      /\ stack \in Seq(Frames) /\ AllFrom(stack, 2, Below)
  BY DEF IInv, TypeOK, ControlInv, Filter
<1>2. /\ Head(q) \in Req /\ Len(pipe) \in Nat /\ Len(pipe) >= 1
      /\ Head(pipe) = pipe[1] /\ Head(pipe) \in Chunk
      /\ Tail(pipe) \in Seq(Chunk) /\ Len(Tail(pipe)) = Len(pipe) - 1
      /\ \A i \in 1..Len(Tail(pipe)) : Tail(pipe)[i] = pipe[i + 1]
  BY <1>1, HeadTail
<1>3. /\ UNCHANGED <<q, started, left, inbox>> /\ ~Top("start") /\ ~Top("check")
      /\ pipe' = Tail(pipe) /\ text' = Append(text, Head(pipe))
  BY DEF Filter, serverVars, EventLoop, Top
<1>4. ~Resting /\ Head(q) \in started
  BY <1>1 DEF AnswerInv, Resting
<1>5. \A m : Concerns(m)' <=> Concerns(m)
  BY <1>3 DEF Concerns
<1>6. stack' # <<>> /\ Head(stack') = "check"
  <2>1. stack # <<>> => Head(stack) \in Below
    BY DEF Filter, EventLoop, Top, Below
  <2>2. stack' = Push(<<"check">>, stack)
    BY DEF Filter
  <2>3. <<"check">> \in Seq(Frames) /\ <<"check">> # <<>>
        /\ AllFrom(<<"check">>, 2, Below) /\ Head(<<"check">>) = "check"
    BY FrameLists DEF Frames
  <2> QED
    BY <1>1, <2>1, <2>2, <2>3, PushFrames
<1>7. PICK t \in UpdateTags(Head(pipe)) : tag' = [tag EXCEPT ![Head(q)] = t]
  BY DEF Filter
<1>8. \A r \in Req : r \notin started' => tag'[r] = "unset"
  BY <1>1, <1>3, <1>4, <1>7 DEF AnswerInv
<1>9. Resting' => inbox' = <<>> /\ pipe' = <<>>
  <2>1. CASE Head(pipe).last
    <3>1. 1 \in 1..Len(pipe) /\ pipe[1].last
      BY <1>2, <2>1
    <3>2. Len(pipe) = 1 /\ inbox = <<>>
      BY <3>1 DEF AnswerInv
    <3>3. Len(pipe') = 0 /\ pipe' \in Seq(Chunk)
      BY <1>2, <1>3, <3>2
    <3> QED
      BY <1>3, <3>2, <3>3, EmptySeq
  <2>2. CASE ~Head(pipe).last
    <3>1. t = "unset"
      BY <1>7, <2>2 DEF UpdateTags
    <3>2. tag'[Head(q)] = "unset"
      BY <1>1, <1>2, <1>7, <3>1
    <3> QED
      BY <1>1, <1>3, <1>4, <1>6, <3>2 DEF Resting, Top
  <2> QED
    BY <2>1, <2>2
<1>10. ASSUME NEW i \in 1..Len(pipe')
       PROVE  /\ Concerns(pipe'[i].msg)
              /\ pipe'[i].last => i = Len(pipe') /\ inbox' = <<>>
  <2>1. /\ i \in Int /\ i + 1 \in 1..Len(pipe) /\ pipe'[i] = pipe[i + 1]
        /\ Len(pipe) \in Int /\ Len(pipe') = Len(pipe) - 1
    BY <1>2, <1>3
  <2>2. Concerns(pipe[i + 1].msg)
        /\ (pipe[i + 1].last => i + 1 = Len(pipe) /\ inbox = <<>>)
    BY <2>1 DEF AnswerInv
  <2>3. i + 1 = Len(pipe) => i = Len(pipe')
    BY ONLY <2>1
  <2>4. inbox' = inbox
    BY <1>3
  <2> QED
    BY <2>1, <2>2, <2>3, <2>4
<1>11. \A i \in 1..Len(text') : Concerns(text'[i].msg)
  <2>1. /\ Len(text) \in Nat /\ Len(text') = Len(text) + 1
        /\ \A i \in 1..Len(text) : text'[i] = text[i]
        /\ text'[Len(text) + 1] = pipe[1]
    BY <1>1, <1>2, <1>3, AppendProperties, LenProperties
  <2>2. \A i \in 1..Len(text) : Concerns(text[i].msg)
    BY <1>1, <1>3, <1>4 DEF AnswerInv
  <2>3. Concerns(pipe[1].msg)
    <3>1. 1 \in 1..Len(pipe)
      BY <1>2
    <3> QED
      BY <3>1 DEF AnswerInv
  <2> TAKE i \in 1..Len(text')
  <2>4. i \in 1..Len(text) \/ i = Len(text) + 1
    BY <2>1
  <2> QED
    BY <2>1, <2>2, <2>3, <2>4
<1> QED
  BY <1>3, <1>4, <1>5, <1>6, <1>8, <1>9, <1>10, <1>11 DEF AnswerInv, Top

LEMMA AnswerStep ==
    ASSUME IInv, ProcessInv, AnswerInv, ~EarlyReject, Next
    PROVE  AnswerInv'
<1>1. CASE Lisp
  BY <1>1, StartNextAnswer, ReturnAnswer, ContinueAnswer, PopAnswer DEF Lisp
<1>2. CASE Events
  <2>1. CASE FilterSpurious
    <3>1. Resting /\ pipe # <<>>
      BY <2>1 DEF FilterSpurious, Resting
    <3> QED
      BY <3>1 DEF AnswerInv
  <2> QED
    BY <1>2, <2>1, FilterAnswer, ReturnAnswer DEF Events
<1>3. CASE Environment
  <2>1. ASSUME NEW r \in Req, NEW b \in Buf, NEW n \in 1..MaxChain,
               Schedule(r, b, n)
        PROVE  AnswerInv'
    BY <2>1, ScheduleAnswer
  <2> QED
    BY <1>3, <2>1, ServerAnswer, ReturnAnswer DEF Environment
<1> QED
  BY <1>1, <1>2, <1>3 DEF Next

\* The output the filter hands to an :update function, the messages under way
\* and the text in the process buffer are all of the task that will read them,
\* as long as no :update function gives up before the end of its answer.
THEOREM NoForeignOutput == Spec => []OutputBelongsToHead
<1>1. Init => OutputInv
  <2> SUFFICES ASSUME Init PROVE OutputInv
    OBVIOUS
  <2>1. ProcessInv
    BY FrameLists DEF Init, ProcessInv
  <2>2. AnswerInv
    <3>1. inbox = <<>> /\ pipe = <<>> /\ q = <<>> /\ stack = <<>>
          /\ \A r \in Req : tag[r] = "unset"
      BY DEF Init
    <3>2. /\ \A i \in 1..Len(pipe) : FALSE
          /\ \A i \in 1..Len(inbox) : FALSE
          /\ Len(inbox) = 0
      BY <3>1
    <3> QED
      BY <3>1, <3>2 DEF AnswerInv, Top
  <2> QED
    BY <2>1, <2>2 DEF OutputInv
<1>2. IInv /\ OutputInv /\ [Next]_vars => OutputInv'
  <2> SUFFICES ASSUME IInv, OutputInv, [Next]_vars PROVE OutputInv'
    OBVIOUS
  <2>1. CASE Next
    BY <2>1, ProcessStep, AnswerStep DEF OutputInv
  <2>2. CASE UNCHANGED vars
    BY <2>2 DEF vars, queueVars, serverVars, history, OutputInv, ProcessInv,
                AnswerInv, Resting, Concerns, Top
  <2> QED
    BY <2>1, <2>2
<1>3. IInv /\ OutputInv => OutputBelongsToHead
  <2> SUFFICES ASSUME IInv, OutputInv, ~EarlyReject PROVE
          /\ \A i \in 1..Len(pipe) : Concerns(pipe[i].msg)
          /\ \A i \in 1..Len(inbox) : Concerns(inbox[i])
          /\ EventLoop /\ q # <<>> /\ Head(q) \in started =>
                \A i \in 1..Len(text) : Concerns(text[i].msg)
    BY DEF OutputBelongsToHead
  <2>1. EventLoop => ~Top("start")
    BY DEF EventLoop, Top
  <2> QED
    BY <2>1 DEF OutputInv, AnswerInv
<1> QED
  BY <1>1, <1>2, <1>3, InductiveInv, PTL DEF Spec

=============================================================================
