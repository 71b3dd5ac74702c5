-------------------------- MODULE MCChildCollection --------------------------
(* Model values for ChildCollection: two values of a child's member. *)
EXTENDS ChildCollection

CONSTANTS v1, v2

=============================================================================
