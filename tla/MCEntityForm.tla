---------------------------- MODULE MCEntityForm ----------------------------
(* Model values for EntityForm: two values of a member. *)
EXTENDS EntityForm

CONSTANTS v1, v2

=============================================================================
