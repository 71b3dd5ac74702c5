SPECIFICATION Spec
CONSTANTS
  e1 = e1  e2 = e2  x = x  y = y
  Entries = {e1, e2}
  NoEntry = NoEntry
  Texts = {Empty, x, y}
  Empty = Empty
  Matches <- MCMatches
  Label <- MCLabel
  MaxActs = 6
INVARIANT TypeOK
PROPERTY LostChoiceHasACause
PROPERTY LastTextIsSearched
CHECK_DEADLOCK FALSE
