------------------------------ MODULE MCIOTask ------------------------------
(***************************************************************************)
(* Instances of IOTask for TLC.  Three requests are the fewest that give a *)
(* running head, a request queued behind it and one a callback schedules;  *)
(* two tasks make a chain; two buffers tell a killed one from a live one.  *)
(***************************************************************************)
EXTENDS IOTask, TLC

CONSTANTS r1, r2, r3, b1, b2

=============================================================================
