\* The service's daemon and commands, while the network changes.
CONSTANTS
  Service = Service
  Terminals = {t1}
  Commands = {c1}
  Gone = Gone
  None = None
  Addresses = {a1, a2}
  Identities = {i1, i2, i3, i4, i5}
  MaxCommands = 1
  MaxKills = 1
SPECIFICATION FairSpec
INVARIANTS
  TypeOK
  RuntimeNamesServer
  ServesItsAddress
PROPERTIES
  SettlesAtAddress
