\* Two threads and a status command, while Vision is switched, stopped and interrupted.
CONSTANTS
  NoSession = NoSession
  Sessions = {s1}
  Addresses = {x1}
  Windows = {w1, u1}
  Unnamed = {u1}
  Markers = {m1}
  Handlers = {h1, h2}
  Clis = {c1}
  VisionTTL = 0
  Grace = 0
  MaxTime = 1
  MaxKills = 1
SPECIFICATION Spec
INVARIANTS
  TypeOK
  ReuseOnlyByOverlap
  ReplacedAreRejected
  StopDeletes
\* The bounded clock and the used-up markers let the system stop.
CHECK_DEADLOCK FALSE
