----------------------- MODULE MCListSynchronization -----------------------
(* Model values for ListSynchronization: requests are interchangeable. *)
EXTENDS ListSynchronization, TLC

CONSTANTS p1, p2, p3

Symmetry == Permutations(Requests)

=============================================================================
