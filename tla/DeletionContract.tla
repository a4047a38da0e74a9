--------------------------- MODULE DeletionContract ---------------------------
(***************************************************************************)
(* What applying a plan promises, whatever happens around it.  A plan      *)
(* grants nothing that a protection entry named when the plan took its     *)
(* snapshot of them; entries added later do not change it.  A cleaner      *)
(* removes only what its plan granted it, each grant at most once, only    *)
(* while the object is there, and never while a protection entry names it. *)
(* Grants can be given up but never added once the plan is made.           *)
(***************************************************************************)
CONSTANTS Cleaners, Ids

VARIABLES
  planned,   \* the cleaners that made their plan
  spared,    \* [Cleaners -> ids the plan under way must not grant]
  granted,   \* [Cleaners -> ids the cleaner may still remove]
  present,   \* ids in the engine
  shield,    \* present ids a protection entry names
  removed    \* history of removals, records [by, id]

vars == <<planned, spared, granted, present, shield, removed>>

Init ==
  /\ planned = {}
  /\ spared = [c \in Cleaners |-> Ids]
  /\ granted = [c \in Cleaners |-> {}]
  /\ present \subseteq Ids
  /\ shield \subseteq present
  /\ removed = {}

\* Before its snapshot a plan can grant nothing.
Snapshot(c) ==
  /\ c \notin planned
  /\ \E S \in SUBSET Ids : shield \subseteq S /\ spared' = [spared EXCEPT ![c] = S]
  /\ UNCHANGED <<planned, granted, present, shield, removed>>

Grant(c) ==
  /\ c \notin planned
  /\ planned' = planned \cup {c}
  /\ granted' \in {[granted EXCEPT ![c] = S] : S \in SUBSET (Ids \ spared[c])}
  /\ spared' = [spared EXCEPT ![c] = Ids]
  /\ UNCHANGED <<present, shield, removed>>

Delete(c, i) ==
  /\ i \in (granted[c] \cap present) \ shield
  /\ granted' = [granted EXCEPT ![c] = @ \ {i}]
  /\ present' = present \ {i}
  /\ shield' = shield \ {i}
  /\ removed' = removed \cup {[by |-> c, id |-> i]}
  /\ UNCHANGED <<planned, spared>>

GiveUp(c) ==
  /\ \E S \in SUBSET granted[c] : granted' = [granted EXCEPT ![c] = S]
  /\ UNCHANGED <<planned, spared, present, shield, removed>>

\* The engine and the protection file change under other hands.
World ==
  /\ present' \subseteq Ids
  /\ shield' \subseteq present'
  /\ UNCHANGED <<planned, spared, granted, removed>>

Next ==
  \/ World
  \/ \E c \in Cleaners : Snapshot(c) \/ Grant(c) \/ GiveUp(c) \/ \E i \in Ids : Delete(c, i)

Spec == Init /\ [][Next]_vars

=============================================================================
