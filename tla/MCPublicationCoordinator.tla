----------------------- MODULE MCPublicationCoordinator -----------------------
(* The coordinator on two posts.  Tree t1 holds the first revision of both   *)
(* posts; t2 updates p1, whose alias is the route p2 wants, and drops p2.    *)
EXTENDS PublicationCoordinator, TLC

CONSTANTS p1, p2, v1, v2, t1, t2, a, b

MCRoutesOf ==
  [x \in Posts \X Revisions |-> IF x = <<p1, v2>> THEN {a, b} ELSE IF x[1] = p1 THEN {a} ELSE {b}]

MCPostsOf == [t \in Trees |->
  (Posts \X Revisions) \cap IF t = t1 THEN {<<p1, v1>>, <<p2, v1>>} ELSE {<<p1, v2>>}]

CONSTANTS s1, s2
MCSettingsOf == [t \in Trees |-> IF t = t1 \/ s2 \notin Settings THEN s1 ELSE s2]
=============================================================================
