----------------------------- MODULE MCEmacsql -----------------------------
(***************************************************************************)
(* Instances of Emacsql for TLC.  Three queries: one that is abandoned,    *)
(* one that may take its answer, and one that may be back in step; or two  *)
(* made one in the wait of the other, and one after them.                  *)
(***************************************************************************)
EXTENDS Emacsql, TLC

=============================================================================
