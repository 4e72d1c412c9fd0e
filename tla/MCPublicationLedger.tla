------------------------- MODULE MCPublicationLedger -------------------------
(* The publication ledger on two posts.  Tree t1 holds the first revision of *)
(* p1 and a post p2; tree t2 renames p1 and keeps its old slug as an alias,  *)
(* where the new slug is the one p2 wants as well.                           *)
EXTENDS PublicationLedger, TLC

CONSTANTS p1, p2, v1, v2, t1, t2, a, b

MCRoutesOf ==
  [x \in Posts \X Revisions |->
     CASE x = <<p1, v1>> -> {a}
       [] x = <<p1, v2>> -> {a, b}
       [] OTHER          -> {b}]

MCPostsOf == [t \in Trees |->
  IF t = t1 THEN {<<p1, v1>>, <<p2, v1>>} ELSE {<<p1, v2>>, <<p2, v1>>}]

(* Rows and digests are told apart only by equality. *)
Interchangeable == Permutations(Releases) \cup Permutations(Digests)
=============================================================================
