------------------------------ MODULE PdfAnnot ------------------------------
(***************************************************************************)
(* pdf-annot.el over epdfinfo: annotations of a document added, edited and *)
(* deleted by their keys, with the list of annotations and the buffer in   *)
(* which contents are edited, which remember keys, and the closings that   *)
(* make the keys of the server anew. The bindings of mouse clicks on a     *)
(* page remember keys as well; mouse commands are left out.                *)
(*                                                                         *)
(* A query and its answer are one step (PdfInfo has the queue between      *)
(* them); what Emacs runs while it waits comes between the steps.          *)
(***************************************************************************)
EXTENDS Epdfinfo

CONSTANTS
    MaxAnnot,       \* bound: the annotations made
    MaxEpoch        \* bound: how often the document is opened

ASSUME AnnotAssumption == MaxAnnot \in Nat \ {0, 1} /\ MaxEpoch \in Nat \ {0}

VARIABLES
    file,           \* the annotations in the file, in its order
    touched,        \* the file was changed since the buffer visited it
    made,           \* annotations made so far
    open,           \* epdfinfo has the document open
    doc,            \* ... as this document_t
    epoch,          \* history: how often the document has been opened
    modified,       \* buffer-modified-p
    listed,         \* the opening its list buffer was last read from, or 0
    rows,           \* the entries it shows
    edit,           \* pdf-annot-edit-contents--annotation, in a set
    task,           \* the function that waits: what it does, with which
                    \* entries, and whether it has delayed modifications
    lost,           \* history: a deletion failed for want of a page, and
                    \* the document holds memory that has been freed
    crossed         \* history: a key was used after its document was closed

serverVars == <<file, touched, made, open, doc, epoch>>
listVars == <<listed, rows>>
clientVars == <<modified, listVars, edit, task>>
vars == <<serverVars, clientVars, lost, crossed>>

Annot == 1..MaxAnnot
Key == 0..MaxAnnot
Epoch == 0..MaxEpoch

\* What the client keeps of an annotation: its key, and here also which it
\* was, and in which opening of the document.
Entry == [key : Key, annot : Annot, epoch : Epoch]

Idle == task.kind = "none"
NoTask == [kind |-> "none", with |-> <<>>, delayed |-> FALSE]

Init ==
    /\ file \in {<<>>, <<1>>, <<1, 2>>} /\ made = Len(file)
    /\ touched = FALSE /\ open = FALSE /\ doc = Loaded(<<>>) /\ epoch = 0
    /\ modified = FALSE /\ listed = 0 /\ rows = {} /\ edit = {}
    /\ task = NoTask
    /\ lost = FALSE /\ crossed = FALSE

-----------------------------------------------------------------------------
(***************************************************************************)
(* The document that a query finds, and what it leaves.                    *)
(***************************************************************************)

\* document_open: the open document, or else the file
CanOpen == open \/ epoch < MaxEpoch
Opened == IF open THEN doc ELSE Loaded(file)
Opening == IF open THEN epoch ELSE epoch + 1

Leaves(d) == open' = TRUE /\ doc' = d /\ epoch' = Opening

Entries(d, e) ==
    {[key |-> p.key, annot |-> p.annot, epoch |-> e] : p \in Printed(d)}

\* Fault: the hooks are not run.
Bug_RunModifiedHooks(d) == Leaves(d) /\ UNCHANGED listVars

\* pdf-annot-run-modified-hooks, which leaves d to pdf-annot-list-update: the
\* list is read again.
RunModifiedHooks(d) ==
    IF listed = 0
    THEN Leaves(d) /\ UNCHANGED listVars
    ELSE /\ Leaves(GetForPage(d))
         /\ listed' = Opening /\ rows' = Entries(GetForPage(d), Opening)

\* A key from an earlier opening names something.
Crosses(e) == crossed' = (crossed \/ (e.epoch # Opening /\ Names(Opened, e.key)))

-----------------------------------------------------------------------------
(***************************************************************************)
(* Opening the list and the edit buffer.                                   *)
(***************************************************************************)

\* pdf-annot-getannots, for the display or the hotspots of a page
GetAnnots ==
    /\ CanOpen
    /\ Leaves(GetForPage(Opened))
    /\ UNCHANGED <<file, touched, made, clientVars, lost, crossed>>

\* pdf-annot-list-annotations
ListAnnotations ==
    /\ Idle /\ CanOpen
    /\ LET d == GetForPage(Opened)
       IN  Leaves(d) /\ rows' = Entries(d, Opening)
    /\ listed' = Opening
    /\ UNCHANGED <<file, touched, made, modified, edit, task, lost, crossed>>

\* pdf-annot-edit-contents of an annotation clicked on or found in the list,
\* which is asked for anew
EditContents ==
    /\ Idle /\ CanOpen
    /\ LET d == GetForPage(Opened)
       IN  Leaves(d) /\ \E e \in Entries(d, Opening) : edit' = {e}
    /\ UNCHANGED <<file, touched, made, modified, listVars, task, lost, crossed>>

-----------------------------------------------------------------------------
(***************************************************************************)
(* Editing: pdf-annot-edit-contents-save-annotation and pdf-annot-put.     *)
(***************************************************************************)

\* The edit buffer keeps the annotation it had.
Commit(e) ==
    /\ Idle /\ CanOpen /\ e \in edit
    /\ Crosses(e)
    /\ IF Names(Opened, e.key)
       THEN /\ RunModifiedHooks(Opened)
            /\ modified' = TRUE
       ELSE Leaves(Opened) /\ UNCHANGED <<listVars, modified>>
    /\ UNCHANGED <<file, touched, made, edit, task, lost>>

-----------------------------------------------------------------------------
(***************************************************************************)
(* Adding: pdf-annot-add-annotation.  A property list is sent by an edit   *)
(* of its own; when that fails the annotation is deleted again.            *)
(***************************************************************************)

Waits(kind, with, delayed) ==
    task' = [kind |-> kind, with |-> with, delayed |-> delayed]

AddAnnotation ==
    /\ Idle /\ CanOpen /\ made < MaxAnnot
    /\ made' = made + 1
    /\ LET d == AddAnnot(Opened, made + 1)
           e == CHOOSE x \in Entries(d, Opening) : x.annot = made + 1
       IN  \/ /\ Leaves(d) /\ Waits("edit", <<e>>, FALSE)
              /\ UNCHANGED <<modified, listVars, edit>>
           \/ /\ RunModifiedHooks(d) /\ modified' = TRUE
              /\ edit' \in {edit, {e}}      \* activated or not
              /\ UNCHANGED task
    /\ UNCHANGED <<file, touched, lost, crossed>>

\* The answer to the edit: the annotation, or an error.
EditAdded ==
    /\ task.kind = "edit" /\ CanOpen
    /\ LET e == Head(task.with)
       IN  /\ Crosses(e)
           /\ Names(Opened, e.key)
           /\ RunModifiedHooks(Opened)
           /\ modified' = TRUE
           /\ edit' \in {edit, {e}}
    /\ task' = NoTask
    /\ UNCHANGED <<file, touched, made, lost>>

\* Fault: the error is signaled and the annotation left.
Bug_EditAddedFails ==
    /\ task.kind = "edit" /\ CanOpen
    /\ Leaves(Opened)
    /\ task' = NoTask
    /\ UNCHANGED <<file, touched, made, modified, listVars, edit, lost, crossed>>

EditAddedFails ==
    /\ task.kind = "edit" /\ CanOpen
    /\ Leaves(Opened)
    /\ Waits("undo", task.with, FALSE)
    /\ UNCHANGED <<file, touched, made, modified, listVars, edit, lost, crossed>>

-----------------------------------------------------------------------------
(***************************************************************************)
(* Deleting, by pdf-annot-delete, by the delete operation of the list, and *)
(* when an edit of a new annotation has failed.                            *)
(***************************************************************************)

\* pdf-annot-delete of an annotation clicked on
DeleteClicked ==
    /\ Idle /\ CanOpen
    /\ Leaves(GetForPage(Opened))
    /\ \E e \in Entries(doc', epoch') : Waits("delete", <<e>>, FALSE)
    /\ UNCHANGED <<file, touched, made, modified, listVars, edit, lost, crossed>>

\* pdf-annot-list-operation-function asks for all before it deletes one; it
\* gets what their keys name now.
DeleteListed(marked) ==
    /\ Idle /\ CanOpen
    /\ Leaves(Opened)
    /\ \A i \in DOMAIN marked : Names(Opened, marked[i].key)
    /\ crossed' = (crossed \/ \E i \in DOMAIN marked : marked[i].epoch # Opening)
    /\ Waits("delete", [i \in DOMAIN marked |->
                            [key |-> marked[i].key, epoch |-> Opening,
                             annot |-> Opened.keys[marked[i].key].annot]], FALSE)
    /\ UNCHANGED <<file, touched, made, modified, listVars, edit, lost>>

\* Fault: the loop goes on after the last one.
Bug_DeleteNext ==
    /\ task.kind = "delete" /\ CanOpen
    /\ LET e == Head(task.with)
       IN  /\ Crosses(e)
           /\ Names(Opened, e.key)
           /\ Leaves(DelAnnot(Opened, e.key))
    /\ modified' = TRUE
    /\ Waits("delete", Tail(task.with), TRUE)
    /\ UNCHANGED <<file, touched, made, listVars, edit, lost>>

\* The next annotation of the list is deleted; the hooks wait for the last.
DeleteNext ==
    /\ task.kind = "delete" /\ CanOpen
    /\ LET e == Head(task.with)
           d == DelAnnot(Opened, e.key)
       IN  /\ Crosses(e)
           /\ Names(Opened, e.key)
           /\ modified' = TRUE
           /\ IF Len(task.with) = 1
              THEN RunModifiedHooks(d) /\ task' = NoTask
              ELSE /\ Leaves(d) /\ UNCHANGED listVars
                   /\ Waits("delete", Tail(task.with), TRUE)
    /\ UNCHANGED <<file, touched, made, edit, lost>>

Undo ==
    /\ task.kind = "undo" /\ CanOpen
    /\ LET e == Head(task.with)
       IN  /\ Crosses(e)
           /\ Names(Opened, e.key)
           /\ Leaves(DelAnnot(Opened, e.key))
    /\ task' = NoTask
    /\ UNCHANGED <<file, touched, made, modified, listVars, edit, lost>>

\* There is no such annotation, or poppler has no page for it; then the error
\* path of cmd_delannot frees what the list and the table still hold, and
\* later uses of it find it as it was, or end the process.  The unwind form
\* of pdf-annot-with-atomic-modifications runs the hooks for those deleted.
DeleteFails ==
    /\ task.kind \in {"delete", "undo"} /\ CanOpen
    /\ LET e == Head(task.with)
       IN  /\ IF task.delayed THEN RunModifiedHooks(Opened)
              ELSE Leaves(Opened) /\ UNCHANGED listVars
           /\ lost' = (lost \/ Names(Opened, e.key))
    /\ task' = NoTask
    /\ UNCHANGED <<file, touched, made, modified, edit, crossed>>

-----------------------------------------------------------------------------
(***************************************************************************)
(* Closing: pdf-info-close and its hook, which reads the list anew.        *)
(***************************************************************************)

Closed ==
    open' = FALSE /\ doc' = Loaded(<<>>) /\ UNCHANGED <<epoch, listVars>>

Reopened(annots) ==
    /\ epoch < MaxEpoch
    /\ open' = TRUE /\ epoch' = epoch + 1
    /\ doc' = GetForPage(Loaded(annots))
    /\ listed' = epoch' /\ rows' = Entries(doc', epoch')

Closes(annots) ==
    IF listed = 0 THEN Closed ELSE Reopened(annots)

\* pdf-view--write-contents-function
Save ==
    /\ Idle /\ modified /\ CanOpen
    /\ file' = Opened.pdf
    /\ Closes(Opened.pdf)
    /\ modified' = FALSE /\ touched' = FALSE
    /\ UNCHANGED <<made, edit, task, lost, crossed>>

\* pdf-view-revert-buffer, by a command, or by auto-revert while Emacs waits
Revert ==
    /\ Idle \/ (touched /\ ~modified)
    /\ Closes(file)
    /\ modified' = FALSE /\ touched' = FALSE
    /\ UNCHANGED <<file, made, edit, task, lost, crossed>>

\* The process dies.  A function that waits for it signals; the hooks for
\* what it has deleted find a new process, or the user wants none.
Die ==
    /\ open
    /\ task' \in {task, NoTask}
    /\ \/ task # task' /\ task.delayed /\ listed # 0 /\ Reopened(file)
       \/ Closed
    /\ UNCHANGED <<file, touched, made, modified, edit, lost, crossed>>

\* Another program writes the file, with one annotation more or less.
FileChanged ==
    /\ \/ made < MaxAnnot /\ made' = made + 1 /\ file' = <<made + 1>> \o file
       \/ file # <<>> /\ file' = Tail(file) /\ UNCHANGED made
    /\ touched' = TRUE
    /\ UNCHANGED <<open, doc, epoch, clientVars, lost, crossed>>

-----------------------------------------------------------------------------
\* One row, or two in the order they are deleted in
Marked == {<<e>> : e \in rows} \cup {s \in rows \X rows : s[1] # s[2]}

Next ==
    \/ GetAnnots \/ ListAnnotations \/ EditContents
    \/ \E e \in edit : Commit(e)
    \/ AddAnnotation \/ EditAdded \/ EditAddedFails
    \/ DeleteClicked \/ \E marked \in Marked : DeleteListed(marked)
    \/ DeleteNext \/ Undo \/ DeleteFails
    \/ Save \/ Revert \/ Die \/ FileChanged

Spec == Init /\ [][Next]_vars

-----------------------------------------------------------------------------
(***************************************************************************)
(* Properties.                                                             *)
(***************************************************************************)

\* Types; a function that deletes still has something to delete.
TypeOK ==
    /\ file \in Seq(Annot) /\ made \in 0..MaxAnnot /\ epoch \in Epoch /\ listed \in 0..epoch
    /\ {touched, open, modified, lost, crossed} \subseteq BOOLEAN
    /\ IsDocument(doc, Annot, Key)
    /\ rows \subseteq Entry /\ edit \subseteq Entry
    /\ task \in [kind : {"none", "edit", "undo", "delete"}, with : Seq(Entry),
                 delayed : BOOLEAN]
    /\ (task.with = <<>>) = Idle

\* The list of a page and the table of keys hold the same annotations, those
\* that poppler has, each under its own key, however additions, deletions
\* and first reads of the page are mixed; so no freed annotation_t can be
\* found by a key, and the assertion at epdfinfo.c:1293 holds.
Bookkeeping == Consistent(doc)

\* Every key the client holds of the document that is open names the
\* annotation it was got with as long as there is that annotation, whatever
\* is added and deleted besides; after its deletion it names nothing, or one
\* that was added later and has got its key (epdfinfo.c:2709-2715).
Held == rows \cup edit \cup ToSet(task.with)
KeyNamesOwn ==
    \A e \in Held :
        open /\ e.epoch = epoch =>
            IF e.annot \in ToSet(doc.pdf)
            THEN Names(doc, e.key) /\ doc.keys[e.key].annot = e.annot
            ELSE Names(doc, e.key) => doc.keys[e.key].annot > e.annot

\* Between commands the list shows the annotations there are, unless the
\* process has died since, or a failed deletion has left an annotation that
\* was not to be there (pdf-annot.el:1055-1061, 1702).
ListIsCurrent ==
    Idle /\ open /\ listed = epoch /\ ~lost /\ ~crossed => rows = Entries(doc, epoch)

\* Between commands the open document of a buffer without the modified flag
\* has the annotations of the file: an annotation that could not be edited
\* is gone again, the unwritten ones are announced; unless the file was
\* changed, or one of the two failures has happened.
UnmodifiedIsFile ==
    Idle /\ open /\ ~modified /\ ~touched /\ ~lost /\ ~crossed => doc.pdf = file

=============================================================================
