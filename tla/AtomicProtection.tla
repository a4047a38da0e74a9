--------------------------- MODULE AtomicProtection ---------------------------
(***************************************************************************)
(* What the protection file promises its users: every completed protect or *)
(* unprotect takes effect as one indivisible change of the current         *)
(* contents, so no completed update is lost, and an update never happens   *)
(* while some process relies on the contents it read under its guard.      *)
(***************************************************************************)
CONSTANTS Updates, InitEntries, Apply(_, _)

VARIABLES protection, guarded   \* guarded: the processes relying on it

Init ==
  /\ protection \in InitEntries
  /\ guarded = {}

Update ==
  /\ guarded = {}
  /\ \E update \in Updates : protection' = Apply(update, protection)
  /\ UNCHANGED guarded

\* Readers come and go.
Guard == UNCHANGED protection

Spec == Init /\ [][Update \/ Guard]_<<protection, guarded>>

=============================================================================
