--------------------------- MODULE RequestService ---------------------------
(***************************************************************************)
(* What a user of irony-iotask.el is promised, without queues, stacks,     *)
(* buffers or a process: requests are answered one after the other in the  *)
(* order they were accepted, each exactly once, and a request made of      *)
(* several chained tasks is answered with a value only when every one of   *)
(* its tasks has succeeded.                                                *)
(***************************************************************************)
EXTENDS Naturals, Sequences

CONSTANT Req            \* the requests

VARIABLES
    submitted,          \* the requests accepted, in order
    answered,           \* the requests answered, in order
    todo,               \* tasks of a request not yet completed
    outcome             \* how a request was answered

svars == <<submitted, answered, todo, outcome>>

Outcomes == {"value", "error", "aborted"}

\* The request whose turn it is: the oldest one without an answer.
Current == submitted[Len(answered) + 1]

Open == Len(answered) < Len(submitted)

RSInit ==
    /\ submitted = <<>>
    /\ answered = <<>>
    /\ todo = [r \in Req |-> 0]
    /\ outcome = [r \in Req |-> "none"]

Submit(r) ==
    /\ todo[r] = 0
    /\ submitted' = Append(submitted, r)
    /\ todo'[r] \in Nat \ {0}
    /\ todo' = [todo EXCEPT ![r] = todo'[r]]
    /\ UNCHANGED <<answered, outcome>>

\* One task of the current request succeeded and another one follows it.
Advance ==
    /\ Open
    /\ todo[Current] > 1
    /\ todo' = [todo EXCEPT ![Current] = @ - 1]
    /\ UNCHANGED <<submitted, answered, outcome>>

Answer(how) ==
    /\ Open
    /\ how = "value" => todo[Current] = 1
    /\ answered' = Append(answered, Current)
    /\ outcome' = [outcome EXCEPT ![Current] = how]
    /\ UNCHANGED <<submitted, todo>>

RSNext ==
    \/ \E r \in Req : Submit(r)
    \/ Advance
    \/ \E how \in Outcomes : Answer(how)

RSSpec == RSInit /\ [][RSNext]_svars

=============================================================================
