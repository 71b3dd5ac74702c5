---------------------------- MODULE MCEntityTable ----------------------------
(* Model values for EntityTable: two columns, a search term beside the empty one. *)
EXTENDS EntityTable

CONSTANTS a, b, word

=============================================================================
