\* Two threads resolve one marker at once.
CONSTANTS
  NoSession = NoSession
  Sessions = {s1}
  Addresses = {x1}
  Windows = {w1, u1}
  Unnamed = {u1}
  Markers = {m1}
  Handlers = {h1, h2}
  Clis = {c1}
  VisionTTL = 1
  Grace = 0
  MaxTime = 1
  MaxKills = 0
SPECIFICATION Spec
INVARIANTS
  SingleUse
\* The bounded clock and the used-up markers let the system stop.
CHECK_DEADLOCK FALSE
