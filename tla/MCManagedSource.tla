---------------------------- MODULE MCManagedSource ----------------------------
(* One repository: revisions of its configuration may keep the branch m and *)
(* change only what is not modelled (the poll interval), or move to n.      *)
EXTENDS ManagedSource

CONSTANTS m, n, c1, c2, x1, x2, x3

(* The branches hold the same content at c1, and differ at c2. *)
MCTreeOf == [y \in Settings \X Commits |->
  IF y[2] = c1 THEN x1 ELSE IF y[1] = m THEN x2 ELSE x3]
=============================================================================
