--------------------------- MODULE MCIronyUnsaved ---------------------------
(***************************************************************************)
(* Instances of IronyUnsaved for TLC.  Two buffers, one of a new file;     *)
(* three requests, two of them queued at a time; three versions of a text: *)
(* the one sent, the one saved and one more.                               *)
(***************************************************************************)
EXTENDS IronyUnsaved, TLC

CONSTANTS b1, b2

=============================================================================
