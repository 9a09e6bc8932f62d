\* Two pages of one phone, two approvals, polls that overlap, a marker or another control
\* that is tapped, a lost call.
CONSTANTS
  None = None
  a = a
  b = b
  Pages = {a, b}
  Requests = {r1, r2}
  FreshTokens = {f1}
  MaxPolls <- Polls
  MaxRefreshes = 1
  MaxTaps = 1
  Tapped = {b}
  MaxLoads = 2
  MaxMishaps = 1
SPECIFICATION FairSpec
INVARIANTS
  CredentialIsCurrent
  RevokedIsNotConnected
  TrustedPhoneGetsIn
PROPERTIES
  DropsForOthersOnly
  ImplementsAccessControl
  PagesCatchUp
\* Every page load is made, so the model comes to an end.
CHECK_DEADLOCK FALSE
