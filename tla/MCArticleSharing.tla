-------------------------- MODULE MCArticleSharing --------------------------
(***************************************************************************)
(* A small instance of ArticleSharing.                                     *)
(***************************************************************************)
EXTENDS ArticleSharing

CONSTANTS p1, p2
=============================================================================
