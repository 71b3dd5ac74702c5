SPECIFICATION Spec
CONSTANTS
  Requests = {r1, r2, r3, r4}
  Keys = {k, l}
  Amounts <- MCAmounts
  Limit = 3
  Absent = Absent
  MaxItems = 2
  MaxCarts = 2
SYMMETRY MCSymmetry
INVARIANT TypeOK
INVARIANT DuplicatesHaveACause
PROPERTY ImplementsAtomicCart
CHECK_DEADLOCK FALSE
