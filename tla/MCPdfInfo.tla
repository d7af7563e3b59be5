----------------------------- MODULE MCPdfInfo ------------------------------
(***************************************************************************)
(* Instances of PdfInfo for TLC.  Four queries are an edit, a save and     *)
(* its close, and one that is nested or prefetched; or a rendering, a      *)
(* close nested in it and two that follow.  Three contents are that of the *)
(* file, an edited one and one written by another program.                 *)
(***************************************************************************)
EXTENDS PdfInfo

=============================================================================
