SPECIFICATION Spec
CONSTANTS
  v1 = v1  v2 = v2
  Values = {v1, v2}
  Initially = v1
  Watched = {1, 2}
  PageSize = 1
  MaxRows = 1
  MaxActs = 5
INVARIANT TypeOK
INVARIANT DuplicateRowsHaveACause
INVARIANT SubmittedChildrenAreStored
PROPERTY ChildrenFollowTheParent
CHECK_DEADLOCK FALSE
