\* Overlapping and interrupted operations on files with different names.
CONSTANTS
  i1 = i1  i2 = i2  a = a  a1 = a1  a11 = a11
  NoPath = NoPath
  Items = {i1, i2}
  Names = {"n1", "n2"}
  NamesOf <- OwnName
  Paths = {a, a1, a11}
  Candidates <- OwnCandidates
  Handlers = {"h1", "h2"}
  Clis = {}
  InboxTTL = 1
  SecretTTL = 0
  MaxTime = 2
  MaxKills = 2
SPECIFICATION FairSpec
INVARIANTS
  TypeOK
  RowsAndFilesAgree
PROPERTIES
  ExpiredItemsGo
\* The bounded clock and the used-up ids let the system stop.
CHECK_DEADLOCK FALSE
