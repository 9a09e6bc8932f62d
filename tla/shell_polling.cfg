\* Two switches of Vision and one failing command; two daemons come and go.
CONSTANTS
  MaxSwitches = 2
  MaxFailures = 1
SPECIFICATION FairSpec
INVARIANTS
  NoHiddenMarkers
  RelitAtMostOnce
PROPERTIES
  FollowsVision
  FollowsDaemon
