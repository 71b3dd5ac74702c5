---------------------------- MODULE MCTypeAhead ----------------------------
(* Model values for TypeAhead: two entries that one text finds, one of which is not *)
(* found by its own label.                                                          *)
EXTENDS TypeAhead

CONSTANTS e1, e2, x, y

MCMatches == [t \in Texts |-> IF t = x THEN <<e1, e2>> ELSE <<>>]
MCLabel == [e \in Entries |-> IF e = e1 THEN x ELSE y]
=============================================================================
