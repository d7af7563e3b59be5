------------------------------ MODULE PdfInfo -------------------------------
(***************************************************************************)
(* pdf-info.el, the image cache of pdf-cache.el and epdfinfo.c, seen from  *)
(* one pdf-view buffer and one page of its document.                       *)
(*                                                                         *)
(* Queries go through a transaction queue (tq).  An asynchronous one has   *)
(* its closure called when the answer arrives; a synchronous one waits in  *)
(* accept-process-output, and what runs there -- timers, redisplay, the    *)
(* closures of other queries -- may send queries of its own.  Contents of  *)
(* the document are numbered; an image is the content it was rendered      *)
(* from.                                                                   *)
(***************************************************************************)
EXTENDS Naturals, Sequences

CONSTANTS
    MaxCall,        \* bound: the number of queries
    MaxContent      \* bound: the number of contents of the document

ASSUME PdfAssumption == MaxCall \in Nat /\ MaxContent \in Nat \ {0}

VARIABLES
    disk,           \* content of the file
    touched,        \* the file was changed since the buffer visited it
    made,           \* contents made so far
    modified,       \* buffer-modified-p
    cache,          \* pdf-cache--image-cache
    delayed,        \* pdf-annot-delayed-modified-annotations is not nil
    stack,          \* the tasks waiting in pdf-info-query, innermost last
    calls,          \* queries sent so far
    tq,             \* the transaction queue: queries and their closures
    proc,           \* the process: "new" before its first start, "run",
                    \* "dead", or "none" when its queue has been given up
    inq, out,       \* the pipes to and from the process
    doc,            \* epdfinfo: content of the open document, 0 when closed
    calm            \* history: no image can have outlived its content

lispVars == <<modified, cache, delayed, stack>>
pipeVars == <<calls, tq, proc, inq, out>>
fileVars == <<disk, touched, made>>
vars == <<lispVars, pipeVars, fileVars, doc, calm>>

Content == 1..MaxContent
Call == 1..MaxCall
Command == {"renderpage", "editannot", "save", "close"}

\* The content an answer tells of, 0 when it has none to tell.
Answer == [status : {"none", "ok", "error"}, content : 0..MaxContent]
NoAnswer == [status |-> "none", content |-> 0]
Ok(c) == [status |-> "ok", content |-> c]
Error == [status |-> "error", content |-> 0]

\* saving: the close that ends pdf-view--write-contents-function
Frame == [cmd : Command, call : Call, answer : Answer, saving : BOOLEAN]

CallsOf(s) == [i \in DOMAIN s |-> s[i].call]

Init ==
    /\ disk = 1 /\ touched = FALSE /\ made = 1
    /\ modified = FALSE /\ cache = {} /\ delayed = FALSE /\ stack = <<>>
    /\ calls = 0 /\ tq = <<>> /\ proc = "new" /\ inq = <<>> /\ out = <<>>
    /\ doc = 0
    /\ calm = TRUE

-----------------------------------------------------------------------------
(***************************************************************************)
(* Sending.  pdf-info-query first asserts a running process: a new one     *)
(* comes with a new queue, and what was in the old one is dropped.         *)
(***************************************************************************)

\* tq-close on the queue of a process that does not run
Restarted(s) == IF proc = "run" THEN s ELSE <<>>

Query(cmd, async) ==
    /\ calls < MaxCall
    /\ calls' = calls + 1
    /\ proc' = "run"
    /\ tq' = Append(Restarted(tq), [call |-> calls + 1, async |-> async])
    /\ inq' = Append(inq, [call |-> calls + 1, cmd |-> cmd])
    /\ out' = Restarted(out)

\* The process is not to be restarted: "The epdfinfo server quit".
NoRestart ==
    /\ proc \in {"dead", "none"}
    /\ proc' = "none" /\ tq' = <<>> /\ out' = <<>>
    /\ UNCHANGED <<calls, inq>>

Waiting(cmd, saving) ==
    [cmd |-> cmd, call |-> calls + 1, answer |-> NoAnswer, saving |-> saving]

Idle == stack = <<>>
Top == stack[Len(stack)]
Below == SubSeq(stack, 1, Len(stack) - 1)

-----------------------------------------------------------------------------
(***************************************************************************)
(* What starts a query.  Commands run when nothing waits; rendering is     *)
(* also started by redisplay and by timers, and the revert of a buffer     *)
(* without changes whose file has changed by that of auto-revert.          *)
(***************************************************************************)

\* pdf-cache-renderpage, for a width that is not in the cache
Render ==
    /\ Query("renderpage", FALSE)
    /\ stack' = Append(stack, Waiting("renderpage", FALSE))
    /\ UNCHANGED <<modified, cache, delayed, fileVars, doc, calm>>

\* pdf-cache--prefetch-pages
Prefetch ==
    /\ Query("renderpage", TRUE)
    /\ UNCHANGED <<lispVars, fileVars, doc, calm>>

\* pdf-annot-put, alone or in pdf-annot-with-atomic-modifications
PutAnnot ==
    /\ Idle
    /\ Query("editannot", FALSE)
    /\ stack' = Append(stack, Waiting("editannot", FALSE))
    /\ UNCHANGED <<modified, cache, delayed, fileVars, doc, calm>>

\* pdf-view--write-contents-function
Save ==
    /\ Idle /\ modified
    /\ Query("save", FALSE)
    /\ stack' = Append(stack, Waiting("save", FALSE))
    /\ UNCHANGED <<modified, cache, delayed, fileVars, doc, calm>>

MayRevert == Idle \/ (touched /\ ~modified)

Bug_Revert ==
    /\ MayRevert
    /\ modified' = FALSE /\ touched' = FALSE
    /\ UNCHANGED <<cache, delayed, stack, pipeVars, disk, made, doc, calm>>

\* pdf-view-revert-buffer: the file is visited again, then pdf-info-close
Revert ==
    /\ MayRevert
    /\ modified' = FALSE /\ touched' = FALSE
    /\ Query("close", FALSE)
    /\ stack' = Append(stack, Waiting("close", FALSE))
    /\ UNCHANGED <<cache, delayed, disk, made, doc, calm>>

\* A query that would need a new process and does not get one.
Refused ==
    /\ NoRestart
    /\ \/ UNCHANGED <<modified, touched>>
       \/ MayRevert /\ modified' = FALSE /\ touched' = FALSE
    /\ UNCHANGED <<cache, delayed, stack, disk, made, doc, calm>>

-----------------------------------------------------------------------------
(***************************************************************************)
(* What follows the wait of the innermost task.                            *)
(***************************************************************************)

\* pdf-cache-clear-images, run by the hooks.  A rendering that waits below
\* will put its image later; a process that has died has lost the contents
\* that images were made from.
ClearImages ==
    /\ cache' = {}
    /\ calm' = (proc = "run" /\ \A i \in DOMAIN Below :
                                    Below[i].cmd # "renderpage")

Returned(cmd, status) ==
    ~Idle /\ Top.cmd = cmd /\ Top.answer.status = status

\* pdf-cache-put-image in pdf-cache-renderpage
PutImage ==
    /\ Returned("renderpage", "ok")
    /\ cache' = cache \cup {Top.answer.content}
    /\ stack' = Below
    /\ UNCHANGED <<modified, delayed, pipeVars, fileVars, doc, calm>>

\* pdf-annot-run-modified-hooks, when modifications are no longer inhibited
Bug_RunModifiedHooks == ClearImages /\ UNCHANGED delayed
RunModifiedHooks == ClearImages /\ delayed' = FALSE

\* The annotation has been edited.  Within the body of
\* pdf-annot-with-atomic-modifications the hooks have to wait, and another
\* edit may follow; when it cannot be sent, the body is left.
PutAnnotReturns ==
    /\ Returned("editannot", "ok")
    /\ modified' = TRUE
    /\ \/ /\ Query("editannot", FALSE)
          /\ stack' = Append(Below, Waiting("editannot", FALSE))
          /\ delayed' = TRUE
          /\ UNCHANGED <<cache, calm>>
       \/ /\ RunModifiedHooks
          /\ stack' = Below
          /\ NoRestart \/ UNCHANGED pipeVars
    /\ UNCHANGED <<fileVars, doc>>

\* The saved content is copied to the file, which is then closed.
SaveReturns ==
    /\ Returned("save", "ok")
    /\ disk' = Top.answer.content /\ touched' = FALSE
    /\ \/ /\ Query("close", FALSE)
          /\ stack' = Append(Below, Waiting("close", TRUE))
       \/ NoRestart /\ stack' = Below
    /\ UNCHANGED <<modified, cache, delayed, made, doc, calm>>

\* pdf-info-close runs pdf-info-close-document-hook.
CloseReturns ==
    /\ Returned("close", "ok")
    /\ ClearImages
    /\ modified' = (modified /\ ~Top.saving)
    /\ stack' = Below
    /\ UNCHANGED <<delayed, pipeVars, fileVars, doc>>

Bug_ServerQuit == Top.answer.status = "none" /\ proc = "none"

\* "The epdfinfo server quit unexpectedly."
ServerQuit == Top.answer.status = "none" /\ proc # "run"

\* The task signals.  The unwind form of pdf-annot-with-atomic-modifications
\* runs the hooks for the edits made before.
Bug_Signal ==
    /\ ~Idle
    /\ Top.answer.status = "error" \/ ServerQuit
    /\ stack' = Below
    /\ delayed' = (delayed /\ Top.cmd # "editannot")
    /\ UNCHANGED <<cache, calm, modified, pipeVars, fileVars, doc>>

Signal ==
    /\ ~Idle
    /\ Top.answer.status = "error" \/ ServerQuit
    /\ stack' = Below
    /\ IF delayed /\ Top.cmd = "editannot"
       THEN RunModifiedHooks
       ELSE UNCHANGED <<cache, calm, delayed>>
    /\ UNCHANGED <<modified, pipeVars, fileVars, doc>>

-----------------------------------------------------------------------------
(***************************************************************************)
(* The filter: tq-process-buffer, as advised by pdf-info.el.               *)
(***************************************************************************)

\* The queue as the closure of its head finds it.
Bug_Popped(s) == IF Head(s).async THEN s ELSE Tail(s)
Popped(s) == Tail(s)

\* The closure of a synchronous query sets variables of its call.
Deliver(c, a) ==
    stack' = [i \in DOMAIN stack |->
                 IF stack[i].call = c THEN [stack[i] EXCEPT !.answer = a]
                                      ELSE stack[i]]

\* The closure of a prefetch puts the image unless the window has gone.
PutPrefetched(a) ==
    \/ a.status = "ok" /\ cache' = cache \cup {a.content}
    \/ UNCHANGED cache

Receive ==
    /\ tq # <<>> /\ out # <<>>
    /\ tq' = Popped(tq) /\ out' = Tail(out)
    /\ IF Head(tq).async
       THEN PutPrefetched(Head(out).answer) /\ UNCHANGED stack
       ELSE Deliver(Head(tq).call, Head(out).answer) /\ UNCHANGED cache
    /\ UNCHANGED <<modified, delayed, calls, proc, inq, fileVars, doc, calm>>

-----------------------------------------------------------------------------
(***************************************************************************)
(* epdfinfo.                                                               *)
(***************************************************************************)

\* document_open: the open document, or else the file
Opened == IF doc = 0 THEN disk ELSE doc

Serve(cmd) ==
    /\ inq # <<>> /\ Head(inq).cmd = cmd
    /\ inq' = Tail(inq)
    /\ UNCHANGED <<lispVars, calls, tq, proc, disk, touched, calm>>

PutsReply(answer) ==
    out' = Append(out, [call |-> Head(inq).call, answer |-> answer])

CmdRenderpage ==
    /\ Serve("renderpage")
    /\ doc' = Opened
    /\ PutsReply(Ok(Opened))
    /\ UNCHANGED made

CmdEditannot ==
    /\ Serve("editannot")
    /\ made < MaxContent
    /\ made' = made + 1
    /\ doc' = made + 1
    /\ PutsReply(Ok(0))

CmdSave ==
    /\ Serve("save")
    /\ doc' = Opened
    /\ PutsReply(Ok(Opened))
    /\ UNCHANGED made

CmdClose ==
    /\ Serve("close")
    /\ doc' = 0
    /\ PutsReply(Ok(0))
    /\ UNCHANGED made

\* An argument is refused or the work fails; the document has been opened.
CmdFails ==
    /\ \E cmd \in Command \ {"close"} : Serve(cmd)
    /\ doc' = Opened
    /\ PutsReply(Error)
    /\ UNCHANGED made

ServerStep ==
    CmdRenderpage \/ CmdEditannot \/ CmdSave \/ CmdClose \/ CmdFails

Die ==
    /\ proc = "run"
    /\ proc' = "dead"
    /\ doc' = 0
    /\ inq' = <<>>
    /\ calm' = FALSE
    /\ UNCHANGED <<lispVars, fileVars, calls, tq, out>>

\* Another program writes the file.
FileChanged ==
    /\ made < MaxContent
    /\ made' = made + 1
    /\ disk' = made + 1
    /\ touched' = TRUE
    /\ UNCHANGED <<lispVars, pipeVars, doc, calm>>

-----------------------------------------------------------------------------
Start == Render \/ Prefetch \/ PutAnnot \/ Save \/ Revert \/ Refused

Return ==
    \/ PutImage \/ PutAnnotReturns \/ SaveReturns \/ CloseReturns \/ Signal

Next == Start \/ Return \/ Receive \/ ServerStep \/ Die \/ FileChanged

Spec == Init /\ [][Next]_vars

\* Emacs goes on when it waits, and the server answers unless it dies.
FairSpec ==
    Spec /\ WF_vars(Return) /\ WF_vars(Receive) /\ WF_vars(ServerStep)

-----------------------------------------------------------------------------
(***************************************************************************)
(* Properties.                                                             *)
(***************************************************************************)

\* Types.  A server that does not run has no document and no input, and
\* delayed modifications are those of an atomic edit that is under way.
TypeOK ==
    /\ disk \in Content /\ made \in Content /\ doc \in 0..MaxContent
    /\ {touched, modified, delayed, calm} \subseteq BOOLEAN
    /\ cache \subseteq Content
    /\ stack \in Seq(Frame)
    /\ calls \in 0..MaxCall
    /\ tq \in Seq([call : Call, async : BOOLEAN])
    /\ proc \in {"new", "run", "dead", "none"}
    /\ inq \in Seq([call : Call, cmd : Command])
    /\ out \in Seq([call : Call, answer : Answer])
    /\ proc # "run" => doc = 0 /\ inq = <<>>
    /\ delayed => ~Idle /\ stack[1].cmd = "editannot"

\* The queue holds the queries whose answers are to come, in their order,
\* whatever the closures do and however often the process is replaced: no
\* closure gets the answer to another query, no answer finds the queue empty
\* (pdf-info.el:314-348).
InStep ==
    IF proc = "run"
    THEN CallsOf(tq) = CallsOf(out) \o CallsOf(inq)
    ELSE CallsOf(out) = SubSeq(CallsOf(tq), 1, Len(out))

\* Between commands the cached images show what the server would render
\* (pdf-cache.el:246-291, 407), unless the cache was cleared under a
\* rendering that was waiting, or the server has died.
CalmCacheFresh == Idle /\ calm => cache \subseteq {doc}

\* Between commands a buffer without the modified flag, whose file nobody
\* else has changed, shows the content of its file: no edit is kept by the
\* server alone (pdf-view.el:484-507, pdf-annot.el:487-493).
SavedIsShown == Idle /\ ~modified /\ ~touched => doc \in {0, disk}

WaitsFor(c) ==
    \E i \in DOMAIN stack :
        stack[i].call = c /\ stack[i].answer.status = "none"

\* A task waits for an answer that was dropped with the queue of a server
\* that died, and another server runs.
Orphaned ==
    \E i \in DOMAIN stack :
        /\ stack[i].answer.status = "none"
        /\ proc = "run"
        /\ \A j \in DOMAIN tq : tq[j].call # stack[i].call

\* Every synchronous query ends, with its answer or with the death of its
\* server, unless a query nested in it, or in one it is nested in, has
\* replaced that server (pdf-info.el:378-387).
EveryUndisturbedCallReturns ==
    \A c \in Call : WaitsFor(c) ~> (~WaitsFor(c) \/ Orphaned)

\* Every synchronous query ends: when its server quits, with the error
\* "The epdfinfo server quit unexpectedly." (pdf-info.el:383-387).
EveryCallReturns == \A c \in Call : WaitsFor(c) ~> ~WaitsFor(c)

=============================================================================
