SPECIFICATION Spec
CONSTANTS
  p1 = p1  p2 = p2  p3 = p3
  Requests = {r1, r2, r3}
  NoRequest = NoRequest
  Properties = {p1, p2, p3}
  Fresh = {p3}
  Initial = {p1}
  MaxFailures = 1
SYMMETRY Symmetry
CHECK_DEADLOCK FALSE
INVARIANT TypeOK
INVARIANT TwinsHaveACause
INVARIANT KeptPropertiesStay
INVARIANT ListIsAsSubmitted
