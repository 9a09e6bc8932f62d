\* One operator, two HTTP threads, two phones.
CONSTANTS
  s1 = s1  s2 = s2  r1 = r1  r2 = r2  f1 = f1
  p1 = p1  p2 = p2  h1 = h1  h2 = h2  c1 = c1  c2 = c2
  Secrets = {s1}
  Requests = {r1, r2}
  FreshTokens = {f1}
  Phones = {p1, p2}
  Caps = {"send_receive"}
  DefaultCaps = {"send_receive"}
  SendReceive = "send_receive"
  Handlers = {h1, h2}
  Clis = {c1}
  PairTTL = 0
  RequestTTL = 1
  SessionTTL = 1
  Grace = 0
  MaxTime = 2
SYMMETRY Symmetry
SPECIFICATION Spec
INVARIANTS
  TypeOK
  ReuseOnlyByOverlap
  AccessNeedsDecision
PROPERTIES
  DecisionIsFinal
  TokenDiesOnce
  ImplementsAccessControl
\* The bounded clock and the used-up random values let the system stop.
CHECK_DEADLOCK FALSE
