--------------------------- MODULE ReleaseLifecycle ---------------------------
(***************************************************************************)
(* What the life of one release promises to everyone who holds its id: the *)
(* states of CanonicalState (domain/publication/mod.rs) and the steps the  *)
(* typed transitions allow between them.  A release is created once, every *)
(* step raises its version, and a superseded or cancelled release is dead. *)
(***************************************************************************)
EXTENDS Naturals

VARIABLES
  state,    (* CanonicalState, or "absent" while no row exists *)
  version   (* the row's version, 0 while no row exists        *)

vars == <<state, version>>

Init == state = "absent" /\ version = 0

(* `by` counts the typed transitions one transaction applies in a row. *)
Step(from, to, by) ==
  /\ state \in from
  /\ state' = to
  /\ version' = version + by

(* CanonicalPublication::schedule, and schedule + begin_activation_now *)
Schedule    == Step({"absent"}, "scheduled", 1)
StartNow    == Step({"absent"}, "activating", 2)

Reschedule  == Step({"scheduled"}, "scheduled", 1)
Start       == Step({"scheduled", "blocked"}, "activating", 1)
(* begin_activation followed by block_activation in one transaction *)
Block       == Step({"scheduled"}, "blocked", 2)
Cancel      == Step({"scheduled", "blocked"}, "cancelled", 1)
Publish     == Step({"activating"}, "published", 1)
Supersede   == Step({"published"}, "superseded", 1)

Next ==
  \/ Schedule \/ StartNow \/ Reschedule \/ Start
  \/ Block \/ Cancel \/ Publish \/ Supersede

Spec == Init /\ [][Next]_vars
=============================================================================
