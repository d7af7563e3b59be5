------------------------ MODULE MCEmacsqlTransaction ------------------------
(***************************************************************************)
(* Instances of EmacsqlTransaction for TLC.  Two clients are enough for a  *)
(* lock to be met at every statement; a third lets two of them be readers  *)
(* in the way of a commit.                                                 *)
(***************************************************************************)
EXTENDS EmacsqlTransaction, TLC

CONSTANTS c1, c2, c3

Symmetry == Permutations(Conn)

=============================================================================
