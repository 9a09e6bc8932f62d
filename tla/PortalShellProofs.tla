------------------------- MODULE PortalShellProofs -------------------------
(***************************************************************************)
(* Theorems about PortalShell, for any number of switches of Vision and of *)
(* commands that fail.                                                     *)
(***************************************************************************)
EXTENDS PortalShell, TLAPS

-----------------------------------------------------------------------------
(***************************************************************************)
(* Type correctness.                                                       *)
(***************************************************************************)
\* What a poller can be.
StatusProc == {Idle, Asked} \cup Broken \cup HalfAnswer \cup StatusAnswer
VisionProc == {Idle, Asked} \cup Broken \cup VisionAnswer

\* Asking a poller (refresh, Service.qml 36-48) leaves it one.
LEMMA PollIsProc ==
  /\ \A proc \in StatusProc : Poll(proc) \in StatusProc
  /\ \A proc \in VisionProc : Poll(proc) \in VisionProc
BY DEF Poll, StatusProc, VisionProc

\* A poller whose step is "reading" or "answered" has the fields of its answer.
LEMMA ProcFields ==
  /\ \A proc \in StatusProc : proc.step = "reading" => proc.running \in BOOLEAN
  /\ \A proc \in StatusProc :
       proc.step = "answered" => proc.running \in BOOLEAN /\ proc.active \in BOOLEAN
  /\ \A proc \in VisionProc :
       proc.step = "answered" => proc.active \in BOOLEAN /\ proc.markers \in BOOLEAN
BY DEF StatusProc, VisionProc, Idle, Asked, Broken, HalfAnswer, StatusAnswer, VisionAnswer

\* Showing an answer keeps the types of what is shown.
LEMMA ShowType ==
  ASSUME TypeOK, NEW on \in BOOLEAN, NEW markers \in BOOLEAN, Show(on, markers)
  PROVE  visionActive' \in BOOLEAN /\ visionMarkers' \in BOOLEAN /\ relit' \in Nat
BY DEF Show, TypeOK

\* The service starts well typed (Service.qml 22-27).
LEMMA TypeInit == Init => TypeOK
<1> SUFFICES ASSUME Init PROVE TypeOK
  OBVIOUS
<1>1. switches \in 0..MaxSwitches /\ failures \in 0..MaxFailures /\ relit \in Nat
  BY ShellAssumption DEF Init
<1>2. statusProc \in {Idle, Asked} /\ visionProc \in {Idle, Asked}
  BY DEF Init
<1>3. /\ active \in BOOLEAN /\ said \in BOOLEAN /\ actionProc \in BOOLEAN
      /\ ready \in BOOLEAN /\ status \in BOOLEAN
      /\ visionActive \in BOOLEAN /\ visionMarkers \in BOOLEAN
      /\ daemon \in [Daemons -> DaemonStep]
      /\ runtime \in Daemons \cup {"none"} /\ intruded \in BOOLEAN
  BY DEF Init, DaemonStep
<1>4. QED
  BY <1>1, <1>2, <1>3 DEF TypeOK

\* Every step of the desktop, the panel and the pollers keeps the types.
LEMMA TypeStep == TypeOK /\ [Next]_vars => TypeOK'
<1> SUFFICES ASSUME TypeOK, [Next]_vars PROVE TypeOK'
  OBVIOUS
<1> USE ShellAssumption DEF desktop, pollers, shown
<1>1. ASSUME NEW p \in Daemons, Launch(p) \/ Announce(p) \/ Leave(p) \/ DaemonExits(p)
      PROVE  TypeOK'
  <2>1. PICK step \in DaemonStep : Step(p, step)
    BY <1>1 DEF Launch, Announce, Leave, DaemonExits, DaemonStep
  <2>2. daemon' \in [Daemons -> DaemonStep]
    BY <2>1 DEF Step, TypeOK
  <2>3. UNCHANGED <<active, said, statusProc, visionProc, actionProc, status,
                    visionActive, visionMarkers, switches, failures, relit>>
    BY <1>1 DEF Launch, Announce, Leave, DaemonExits
  <2>4. runtime' \in Daemons \cup {"none"} /\ intruded' \in BOOLEAN /\ ready' \in BOOLEAN
    <3>1. CASE Launch(p)
      <4>1. intruded' \in BOOLEAN
        BY <3>1, Zenon DEF Launch
      <4>2. QED
        BY <3>1, <4>1 DEF Launch, TypeOK
    <3>2. CASE Announce(p) \/ Leave(p)
      BY <3>2 DEF Announce, Leave, TypeOK
    <3>3. CASE DaemonExits(p)
      BY <3>3 DEF DaemonExits, TypeOK
    <3>4. QED
      BY <1>1, <3>1, <3>2, <3>3
  <2>5. QED
    BY <2>2, <2>3, <2>4 DEF TypeOK
<1>2. CASE Serve
  <2>1. daemon' \in [Daemons -> DaemonStep]
    BY <1>2 DEF Serve, Step, DaemonStep, TypeOK
  <2>2. QED
    BY <1>2, <2>1 DEF Serve, TypeOK
<1>3. CASE ReadyLine BY <1>3 DEF ReadyLine, TypeOK
<1>4. CASE PanelActs BY <1>4 DEF PanelActs, TypeOK
<1>5. CASE PanelDone
  <2>1. visionProc' \in VisionProc
    BY <1>5, PollIsProc DEF PanelDone, TypeOK, VisionProc
  <2>2. QED
    BY <1>5, <2>1 DEF PanelDone, TypeOK, VisionProc
<1>6. ASSUME NEW on \in BOOLEAN, Switch(on) PROVE TypeOK'
  BY <1>6 DEF Switch, TypeOK
<1>7. CASE Refresh
  <2>1. statusProc' \in StatusProc
    BY <1>7, PollIsProc DEF Refresh, TypeOK, StatusProc
  <2>2. QED
    BY <1>7, <2>1 DEF Refresh, TypeOK, StatusProc
<1>8. CASE ReadRuntime
  <2>1. statusProc' \in HalfAnswer
    <3>1. Running \in BOOLEAN
      BY Zenon DEF Running
    <3>2. QED
      BY <1>8, <3>1 DEF ReadRuntime, HalfAnswer
  <2>2. QED
    BY <1>8, <2>1 DEF ReadRuntime, TypeOK
<1>9. CASE ReadStatus
  <2>1. statusProc' \in StatusAnswer
    BY <1>9, ProcFields DEF ReadStatus, StatusAnswer, TypeOK, StatusProc
  <2>2. QED
    BY <1>9, <2>1 DEF ReadStatus, TypeOK
<1>10. CASE StatusFinished
  <2>1. CASE statusProc.step = "answered"
    <3>1. statusProc.running \in BOOLEAN /\ statusProc.active \in BOOLEAN
      BY <2>1, ProcFields DEF TypeOK, StatusProc
    <3>2. MarkersAfter(statusProc) \in BOOLEAN
      BY <3>1 DEF MarkersAfter, TypeOK
    <3>3. Show(statusProc.active, MarkersAfter(statusProc))
      BY <1>10, <2>1 DEF StatusFinished
    <3>4. visionActive' \in BOOLEAN /\ visionMarkers' \in BOOLEAN /\ relit' \in Nat
      BY <3>1, <3>2, <3>3, ShowType
    <3>5. QED
      BY <1>10, <2>1, <3>1, <3>4 DEF StatusFinished, TypeOK
  <2>2. CASE statusProc.step # "answered"
    BY <1>10, <2>2 DEF StatusFinished, TypeOK
  <2>3. QED
    BY <2>1, <2>2
<1>11. CASE StatusBreaks BY <1>11 DEF StatusBreaks, Breaks, TypeOK
<1>12. CASE RefreshVision
  <2>1. visionProc' \in VisionProc
    BY <1>12, PollIsProc DEF RefreshVision, TypeOK, VisionProc
  <2>2. QED
    BY <1>12, <2>1 DEF RefreshVision, TypeOK, VisionProc
<1>13. CASE ReadVision
  <2>1. visionProc' \in VisionAnswer
    <3>1. PICK markers \in MarkersFor(active) :
            visionProc' = [step |-> "answered", active |-> active, markers |-> markers]
      BY <1>13 DEF ReadVision
    <3>2. active \in BOOLEAN /\ markers \in BOOLEAN
      BY Zenon DEF MarkersFor, TypeOK
    <3>3. QED
      BY <3>1, <3>2 DEF VisionAnswer
  <2>2. QED
    BY <1>13, <2>1 DEF ReadVision, TypeOK
<1>14. CASE VisionFinished
  <2>1. \E on \in BOOLEAN, markers \in BOOLEAN : Show(on, markers)
    <3>1. CASE visionProc.step = "answered"
      BY <1>14, <3>1, ProcFields DEF VisionFinished, TypeOK, VisionProc
    <3>2. CASE visionProc.step = "empty"
      BY <1>14, <3>2 DEF VisionFinished
    <3>3. CASE visionProc.step \notin {"answered", "empty"}
      BY <1>14, <3>3 DEF VisionFinished, TypeOK
    <3>4. QED
      BY <3>1, <3>2, <3>3
  <2>2. visionActive' \in BOOLEAN /\ visionMarkers' \in BOOLEAN /\ relit' \in Nat
    BY <2>1, ShowType
  <2>3. QED
    BY <1>14, <2>2 DEF VisionFinished, TypeOK
<1>15. CASE VisionBreaks BY <1>15 DEF VisionBreaks, Breaks, TypeOK
<1>16. CASE UNCHANGED vars BY <1>16 DEF vars, TypeOK
<1>17. QED
  BY <1>1, <1>2, <1>3, <1>4, <1>5, <1>6, <1>7, <1>8, <1>9, <1>10, <1>11,
     <1>12, <1>13, <1>14, <1>15, <1>16 DEF Next

\* Every state of the shell service is well typed.
THEOREM TypeCorrect == Spec => []TypeOK
BY TypeInit, TypeStep, PTL DEF Spec

-----------------------------------------------------------------------------
(***************************************************************************)
(* Markers that were hidden stay hidden, and come back at most once.       *)
(***************************************************************************)
\* The answer of a poll that was made before Vision stopped and has not been read.
Late == visionProc.step = "answered" /\ visionProc.active /\ visionProc.markers

\* An answer has markers only when it says that Vision is on.
Honest == visionProc.step = "answered" => (visionProc.markers => visionProc.active)

\* Why one poll only: after the stop no poll finds Vision on, and an answer of
\* status brings no markers.
RelitInv ==
  /\ NoHiddenMarkers
  /\ Honest
  /\ active => relit = 0
  /\ Late => relit = 0 \/ active
  /\ relit <= 1

\* Nothing is shown, or under way, at the start.
LEMMA RelitInit == Init => RelitInv
BY DEF Init, RelitInv, NoHiddenMarkers, Honest, Late, Idle

\* An answer that empties the list, or finds it as it is, lights nothing anew.
LEMMA ShowKeeps ==
  ASSUME TypeOK, RelitInv, NEW on \in BOOLEAN, NEW markers \in BOOLEAN, Show(on, markers),
         markers => on /\ visionMarkers
  PROVE  relit' = relit /\ (visionMarkers' => visionActive')
BY DEF Show, RelitInv, NoHiddenMarkers, Lit, TypeOK

\* Every step keeps RelitInv.
LEMMA RelitStep == TypeOK /\ RelitInv /\ [Next]_vars => RelitInv'
<1> SUFFICES ASSUME TypeOK, RelitInv, [Next]_vars PROVE RelitInv'
  OBVIOUS
<1> USE DEF desktop, pollers, shown
<1>1. ASSUME UNCHANGED <<active, visionProc, shown, relit>> PROVE RelitInv'
  BY <1>1 DEF RelitInv, NoHiddenMarkers, Honest, Late
<1>2. CASE \/ \E p \in Daemons : Launch(p) \/ Announce(p) \/ Leave(p) \/ DaemonExits(p)
           \/ Serve \/ ReadyLine \/ PanelActs
           \/ Refresh \/ ReadRuntime \/ ReadStatus \/ StatusBreaks
  BY <1>1, <1>2 DEF Launch, Announce, Leave, DaemonExits, Serve, ReadyLine, PanelActs,
                    Refresh, ReadRuntime, ReadStatus, StatusBreaks
<1>3. CASE PanelDone \/ RefreshVision
  <2>1. UNCHANGED <<active, shown, relit>> /\ visionProc' = Poll(visionProc)
    BY <1>3 DEF PanelDone, RefreshVision
  <2>2. (Late' => Late) /\ (Honest => Honest')
    BY <2>1 DEF Late, Honest, Poll, Asked
  <2>3. QED
    BY <2>1, <2>2 DEF RelitInv, NoHiddenMarkers
<1>4. ASSUME NEW on \in BOOLEAN, Switch(on) PROVE RelitInv'
  BY <1>4 DEF Switch, RelitInv, NoHiddenMarkers, Honest
<1>5. CASE StatusFinished
  <2>1. CASE statusProc.step = "answered"
    <3>1. statusProc.active \in BOOLEAN
      BY <2>1, ProcFields DEF TypeOK, StatusProc
    <3>2. MarkersAfter(statusProc) \in BOOLEAN
      BY <3>1 DEF MarkersAfter, TypeOK
    <3>3. MarkersAfter(statusProc) => statusProc.active /\ visionMarkers
      BY DEF MarkersAfter
    <3>4. relit' = relit /\ (visionMarkers' => visionActive')
      BY <1>5, <2>1, <3>1, <3>2, <3>3, ShowKeeps DEF StatusFinished
    <3>5. QED
      BY <1>5, <3>4 DEF StatusFinished, RelitInv, NoHiddenMarkers, Honest, Late
  <2>2. CASE statusProc.step # "answered"
    BY <1>1, <1>5, <2>2 DEF StatusFinished
  <2>3. QED
    BY <2>1, <2>2
<1>6. CASE ReadVision
  <2>1. (Late' => active) /\ Honest'
    <3>1. PICK markers \in MarkersFor(active) :
            visionProc' = [step |-> "answered", active |-> active, markers |-> markers]
      BY <1>6 DEF ReadVision
    <3>2. markers => active
      BY Zenon DEF MarkersFor
    <3>3. QED
      BY <3>1, <3>2 DEF Late, Honest
  <2>2. QED
    BY <1>6, <2>1 DEF ReadVision, RelitInv, NoHiddenMarkers
<1>7. CASE VisionFinished
  <2>1. UNCHANGED active /\ ~Late' /\ Honest'
    BY <1>7 DEF VisionFinished, Late, Honest, Idle
  <2>2. CASE Late
    BY <1>7, <2>1, <2>2 DEF VisionFinished, Show, Late, Honest, RelitInv, NoHiddenMarkers, TypeOK
  <2>3. CASE ~Late /\ visionProc.step = "answered"
    <3>1. visionProc.active \in BOOLEAN /\ visionProc.markers \in BOOLEAN
      BY <2>3, ProcFields DEF TypeOK, VisionProc
    <3>2. QED
      BY <1>7, <2>1, <2>3, <3>1 DEF VisionFinished, Show, Late, Honest, RelitInv, NoHiddenMarkers, TypeOK
  <2>4. CASE visionProc.step # "answered"
    BY <1>7, <2>1, <2>4 DEF VisionFinished, Show, RelitInv, NoHiddenMarkers, TypeOK
  <2>5. QED
    BY <2>2, <2>3, <2>4
<1>8. CASE VisionBreaks
  <2>1. ~Late' /\ Honest'
    BY <1>8 DEF VisionBreaks, Late, Honest, Broken
  <2>2. QED
    BY <1>8, <2>1 DEF VisionBreaks, RelitInv, NoHiddenMarkers
<1>9. CASE UNCHANGED vars BY <1>1, <1>9 DEF vars
<1>10. QED
  BY <1>2, <1>3, <1>4, <1>5, <1>6, <1>7, <1>8, <1>9 DEF Next

\* The service has no markers while it takes Vision for off (Service.qml 98-101 and
\* 111-118).
THEOREM HiddenMarkersGo == Spec => []NoHiddenMarkers
<1>1. RelitInv => NoHiddenMarkers
  BY DEF RelitInv
<1>2. QED
  BY <1>1, TypeInit, TypeStep, RelitInit, RelitStep, PTL DEF Spec

\* After Vision stopped markers come back at most once, however often Vision is
\* switched, commands fail and answers are late.
THEOREM RelitOnce == Spec => []RelitAtMostOnce
<1>1. RelitInv => RelitAtMostOnce
  BY DEF RelitInv, RelitAtMostOnce
<1>2. QED
  BY <1>1, TypeInit, TypeStep, RelitInit, RelitStep, PTL DEF Spec
=============================================================================
