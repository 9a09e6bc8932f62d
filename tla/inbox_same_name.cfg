\* Two uploads with the same name at once.
CONSTANTS
  i1 = i1  i2 = i2  a = a  a1 = a1  a11 = a11
  NoPath = NoPath
  Items = {i1, i2}
  Names <- CompetingNames
  NamesOf <- AnyName
  Paths = {a, a1, a11}
  Candidates <- CompetingCandidates
  Handlers = {"h1"}
  Clis = {"c1"}
  InboxTTL = 1
  SecretTTL = 0
  MaxTime = 2
  MaxKills = 0
SPECIFICATION Spec
PROPERTIES
  NothingOverwritten
\* The bounded clock and the used-up ids let the system stop.
CHECK_DEADLOCK FALSE
