SPECIFICATION Spec
CONSTANTS
  a = a  b = b  word = word
  Columns = {a, b}
  SortedBy = a
  Unsorted = Unsorted
  Terms = {NoTerm, word}
  NoTerm = NoTerm
  PageSize = 2
  MaxRows = 3
  MaxActs = 3
INVARIANT TypeOK
INVARIANT WrongTableHasACause
PROPERTY NewestLoadIsRendered
CHECK_DEADLOCK FALSE
