----------------------------- MODULE MCPdfAnnot -----------------------------
(***************************************************************************)
(* Instances of PdfAnnot for TLC.  Three annotations are enough for one to *)
(* be deleted and its key to be given to another while a third remains;    *)
(* with three openings a key can be carried over a save or a revert, and   *)
(* over the death of the process after that.                               *)
(***************************************************************************)
EXTENDS PdfAnnot

=============================================================================
