------------------------------ MODULE PublicSite ------------------------------
(***************************************************************************)
(* What readers are promised: a post, once public, stays public, keeps the *)
(* time it was first published, and moves only to a revision somebody      *)
(* approved and has not withdrawn; nothing else changes it, whatever       *)
(* crashes in between.  docs/design.md, "Publication".                     *)
(***************************************************************************)
CONSTANTS Posts, Revisions, Times

VARIABLES
  page,     (* post -> the revision readers get and when it first appeared *)
  approved  (* approvals still in force: pairs of post and revision        *)

vars == <<page, approved>>

Init == page = [p \in {} |-> p] /\ approved = {}

Approve(p, rev) ==
  /\ approved' = approved \cup {<<p, rev>>}
  /\ UNCHANGED page

Shown(p, rev) == p \in DOMAIN page /\ page[p].rev = rev

(* An approval is given up, unless readers already have what it approved. *)
Withdraw(p, rev) ==
  /\ ~Shown(p, rev)
  /\ approved' = approved \ {<<p, rev>>}
  /\ UNCHANGED page

(* The approval is used up now or once it is known to be durable. *)
Reveal(p, rev, at) ==
  /\ <<p, rev>> \in approved
  /\ page' = [q \in DOMAIN page \cup {p} |->
       IF q # p THEN page[q]
       ELSE [rev |-> rev, since |-> IF p \in DOMAIN page THEN page[p].since ELSE at]]
  /\ approved' \in {approved, approved \ {<<p, rev>>}}

Settle(p, rev) ==
  /\ Shown(p, rev)
  /\ approved' = approved \ {<<p, rev>>}
  /\ UNCHANGED page

Next ==
  \E p \in Posts, rev \in Revisions :
    \/ Approve(p, rev) \/ Withdraw(p, rev) \/ Settle(p, rev)
    \/ \E at \in Times : Reveal(p, rev, at)

Spec == Init /\ [][Next]_vars
=============================================================================
