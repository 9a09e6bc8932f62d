\* Two requests of a phone beside a user, an operator, failing tools and a kill.
CONSTANTS
  None = None  r1 = r1  r2 = r2
  Requests = {r1, r2}
  Addresses = {x1, x2}
  Windows = {w1, w2}
  Grants <- SomeGrants
  Delta <- Movements
  Limit = 2
  MaxCursor = 0
  MaxMishaps = 1
  Used = {"continue", "close", "take", "move", "key", "shot"}
SPECIFICATION FairSpec
INVARIANTS
  TypeOK
  RefusedLeavesNothing
  LeftoversFitAnswer
  ReachesMeantWindow
  MovesAddUp
PROPERTIES
  EveryRequestEnds
\* Every request is made once, so the model comes to an end.
CHECK_DEADLOCK FALSE
