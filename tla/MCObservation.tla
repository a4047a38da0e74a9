---------------------------- MODULE MCObservation ----------------------------
(***************************************************************************)
(* Two recorders on one volume.                                            *)
(***************************************************************************)
EXTENDS Observation

CONSTANTS r1, r2   \* model values

MCRegex == [v \in {} |-> {}]
MCRank == [i \in {} |-> 0]

=============================================================================
