------------------------------ MODULE Epdfinfo ------------------------------
(***************************************************************************)
(* epdfinfo.c: the annotations of one page of a document, as the server    *)
(* keeps them.                                                             *)
(*                                                                         *)
(* A client names an annotation by a key, "annot-<page>-<i>", here i.  The *)
(* server has a list of annotation_t for each page that has been asked     *)
(* for, and one table from keys to annotation_t; poppler has the           *)
(* annotations themselves, here numbers.  The operators say what a handler *)
(* makes of the document.                                                  *)
(***************************************************************************)
EXTENDS Naturals, SequencesExt

\* document_t: pdf is the page in poppler, pages the list, keys the table
AnnotationT(Annot, Key) == [annot : Annot, key : Key]
IsDocument(d, Annot, Key) ==
    /\ d.pdf \in Seq(Annot)
    /\ d.pages \in Seq(AnnotationT(Annot, Key))
    /\ DOMAIN d.keys \subseteq Key
    /\ Range(d.keys) \subseteq AnnotationT(Annot, Key)

\* document_open of a file with these annotations
Loaded(annots) == [pdf |-> annots, pages |-> <<>>, keys |-> <<>>]

\* g_hash_table_insert of what new has under its keys
Inserted(table, new) ==
    [k \in DOMAIN new \cup DOMAIN table |-> IF k \in DOMAIN new THEN new[k] ELSE table[k]]

\* annoation_get_for_page: an empty list is read again.  The keys count
\* poppler's annotations from 0, and each one is put before the last.
GetForPage(d) ==
    IF d.pages # <<>> THEN d
    ELSE LET read == [i \in DOMAIN d.pdf |-> [annot |-> d.pdf[i], key |-> i - 1]]
         IN  [d EXCEPT !.pages = Reverse(read),
                       !.keys = Inserted(@, [k \in 0..Len(read)-1 |-> read[k + 1]])]

\* Fault: the key is the number of annotations, in use or not.
Bug_NewKey(d) == Len(d.pages)

\* The first key at or above the number of annotations that is not in use.
NewKey(d) ==
    LET n == Len(d.pages)
        unused == (n..n + Cardinality(DOMAIN d.keys)) \ DOMAIN d.keys
    IN  CHOOSE k \in unused : \A j \in unused : k <= j

Entered(d, annot) ==
    LET a == [annot |-> annot, key |-> NewKey(d)]
    IN  [d EXCEPT !.pages = <<a>> \o @, !.keys = Inserted(@, [k \in {a.key} |-> a])]

\* Fault: poppler gets the annotation before the list is read.
Bug_AddAnnot(d, annot) ==
    Entered(GetForPage([d EXCEPT !.pdf = Append(@, annot)]), annot)

\* cmd_addannot, when poppler has made the annotation
AddAnnot(d, annot) ==
    [Entered(GetForPage(d), annot) EXCEPT !.pdf = Append(@, annot)]

\* annotation_get_by_key, as cmd_getannot and cmd_editannot use it
Names(d, key) == key \in DOMAIN d.keys

\* cmd_delannot
DelAnnot(d, key) ==
    LET a == d.keys[key]
    IN  [d EXCEPT !.pdf = RemoveFirst(@, a.annot),
                  !.pages = RemoveFirst(@, a),
                  !.keys = Restrict(@, DOMAIN @ \ {a.key})]

\* cmd_getannots: what is printed
Printed(d) == ToSet(d.pages)

\* The list and the table hold the same annotation_t, each one under its own
\* key, and once the page has been read they are poppler's annotations, each
\* one once.  A table that is not empty when the list is would make the
\* assertion of annoation_get_for_page fail.
Consistent(d) ==
    /\ ToSet(d.pages) = Range(d.keys)
    /\ \A k \in DOMAIN d.keys : d.keys[k].key = k
    /\ IsInjective(d.pages)
    /\ d.pages # <<>> =>
          /\ Len(d.pages) = Len(d.pdf)
          /\ {a.annot : a \in ToSet(d.pages)} = ToSet(d.pdf)

=============================================================================
