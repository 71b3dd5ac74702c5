SPECIFICATION Spec
CONSTANTS
  v1 = v1  v2 = v2
  Values = {v1, v2}
  Initially = v1
  NoData = NoData
  MaxCalls = 3
INVARIANT TypeOK
INVARIANT OneRowPerCreate
INVARIANT LinksAgreeWhenQuiet
INVARIANT SequentialSubmitsArePersisted
INVARIANT DialogsMatchClicks
PROPERTY CreatedBecomesUpdatable
CHECK_DEADLOCK FALSE
