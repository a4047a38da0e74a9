------------------------------ MODULE MCJournal ------------------------------
(***************************************************************************)
(* Two processes, a few passes each, limits of a few lines.                *)
(***************************************************************************)
EXTENDS Journal

CONSTANTS p1, p2   \* model values

=============================================================================
