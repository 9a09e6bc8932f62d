\* Three transfers of a secret, a text with foreign line ends and nothing, beside other programs.
CONSTANTS
  Transfers = {x1, x2, x3}
  Texts = {empty, secret, foreign}
  Empty = empty
  Sensitive = {secret}
  Foreign = {foreign}
  Changed = changed
  Delays = {0, 1}
  Limit = 1
  HistoryTTL = 1
  MaxTime = 2
  MaxKills = 1
SPECIFICATION FairSpec
INVARIANTS
  HistoryKeepsNewest
  ClearsTransferredText
PROPERTIES
  SecretsGo
CHECK_DEADLOCK FALSE
