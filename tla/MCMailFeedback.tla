--------------------------- MODULE MCMailFeedback ---------------------------
(***************************************************************************)
(* A small instance of MailFeedback.                                       *)
(***************************************************************************)
EXTENDS MailFeedback, TLC

CONSTANTS e1, e2, q1, q2, b1, b2

Symmetry == Permutations(Queues) \cup Permutations(Bindings)
=============================================================================
