---------------------------- MODULE PortalShell ----------------------------
(***************************************************************************)
(* The shell service src/Service.qml: what it knows of the daemon and of   *)
(* Portal Vision, and the overlay of Vision markers it shows.              *)
(*                                                                         *)
(* It learns of both from two pollers, statusProc (`portal status`) and    *)
(* visionProc (`portal vision status`), each a process that reads and      *)
(* whose answer arrives later, and from the daemon itself, which is its    *)
(* child.  `portal status` takes the daemon for running when the process   *)
(* that runtime.json names lives, and a daemon launched by hand ("other")  *)
(* writes and removes that file as well.  Vision is switched by anybody;   *)
(* the panel (Panel.qml) asks for a poll of its own when a command of it   *)
(* is done.                                                                *)
(***************************************************************************)
EXTENDS Integers

CONSTANTS MaxSwitches,    \* bound on the number of times Vision is switched
          MaxFailures     \* bound on the number of commands that fail

ASSUME ShellAssumption == MaxSwitches \in Nat /\ MaxFailures \in Nat

VARIABLES
  active,         \* the setting `vision`, in the database
  daemon,         \* how far each daemon is
  runtime,        \* the daemon that runtime.json names, or "none"
  said,           \* the child's line "ready" has been printed and not been read
  statusProc, visionProc,   \* the two pollers
  actionProc,     \* the panel runs a command
  \* What Service.qml keeps.
  ready,          \* the daemon is reported as running
  status,         \* status.vision.active of the last answer
  visionActive,
  visionMarkers,  \* the list of markers is not empty
  \* Bounds and history.
  switches, failures,
  intruded,       \* another daemon was at runtime.json since the child was launched
  relit           \* times the overlay came on since Vision was switched off

desktop == <<active, daemon, runtime, said, intruded>>
pollers == <<statusProc, visionProc, actionProc>>
shown == <<visionActive, visionMarkers>>
vars == <<desktop, pollers, ready, status, shown, switches, failures, relit>>

-----------------------------------------------------------------------------
\* The daemon that the service keeps, and one that somebody launched by hand.
Daemons == {"child", "other"}

\* The file is truncated and then written; it is removed by a daemon that ends and has
\* found its own pid there.
DaemonStep == {"down", "writing", "announced", "serving", "leaving"}

Idle == [step |-> "idle"]
Asked == [step |-> "asked"]

\* The output of a command that fails is empty, which reads as {}; one that is
\* killed half-way leaves what is no JSON.
Broken == [step : {"empty", "garbled"}]
HalfAnswer == [step : {"reading"}, running : BOOLEAN]
StatusAnswer == [step : {"answered"}, running : BOOLEAN, active : BOOLEAN]
VisionAnswer == [step : {"answered"}, active : BOOLEAN, markers : BOOLEAN]

TypeOK ==
  /\ active \in BOOLEAN /\ said \in BOOLEAN
  /\ daemon \in [Daemons -> DaemonStep]
  /\ runtime \in Daemons \cup {"none"} /\ intruded \in BOOLEAN
  /\ statusProc \in {Idle, Asked} \cup Broken \cup HalfAnswer \cup StatusAnswer
  /\ visionProc \in {Idle, Asked} \cup Broken \cup VisionAnswer
  /\ actionProc \in BOOLEAN
  /\ ready \in BOOLEAN /\ status \in BOOLEAN
  /\ visionActive \in BOOLEAN /\ visionMarkers \in BOOLEAN
  /\ switches \in 0..MaxSwitches /\ failures \in 0..MaxFailures
  /\ relit \in Nat

Init ==
  /\ active = FALSE /\ said = FALSE
  /\ daemon = [p \in Daemons |-> "down"] /\ runtime = "none" /\ intruded = FALSE
  /\ statusProc = Idle /\ visionProc = Idle /\ actionProc = FALSE
  /\ ready = FALSE /\ status = FALSE
  /\ visionActive = FALSE /\ visionMarkers = FALSE
  /\ switches = 0 /\ failures = 0 /\ relit = 0

\* A marker window is visible: some screen has a marker to show.
Lit == visionActive /\ visionMarkers

Show(on, markers) ==
  /\ visionActive' = on
  /\ visionMarkers' = markers
  /\ relit' = IF on /\ markers /\ ~Lit /\ ~active THEN relit + 1 ELSE relit

-----------------------------------------------------------------------------
(***************************************************************************)
(* The daemons.  Whether one can serve beside another depends on its port, *)
(* and is left open.                                                       *)
(***************************************************************************)
Step(p, step) == daemon' = [daemon EXCEPT ![p] = step]

\* write_text truncates the file first.
Launch(p) ==
  /\ daemon[p] = "down"
  /\ Step(p, "writing")
  /\ runtime' = "none"
  /\ intruded' = \/ p = "child" /\ daemon["other"] \in {"writing", "leaving"}
                 \/ p = "other" /\ (intruded \/ daemon["child"] # "down")
  /\ UNCHANGED <<active, said, pollers, ready, status, shown, switches, failures, relit>>

Announce(p) ==
  /\ daemon[p] = "writing"
  /\ Step(p, "announced")
  /\ runtime' = p
  /\ UNCHANGED <<active, said, intruded, pollers, ready, status, shown, switches,
                 failures, relit>>

\* Whether the other one serves is nothing to the service.
Serve ==
  /\ daemon["child"] = "announced"
  /\ Step("child", "serving")
  /\ said' = TRUE
  /\ UNCHANGED <<active, runtime, intruded, pollers, ready, status, shown, switches,
                 failures, relit>>

\* The finally clause of main: is runtime.json about this process?
Leave(p) ==
  /\ daemon[p] \in {"announced", "serving"}
  /\ runtime = p
  /\ Step(p, "leaving")
  /\ UNCHANGED <<active, runtime, said, intruded, pollers, ready, status, shown,
                 switches, failures, relit>>

\* A daemon ends at any time; when it is leaving, with or without the unlink.  The
\* child's onExited comes before or after its last line is read.
DaemonExits(p) ==
  /\ daemon[p] # "down"
  /\ Step(p, "down")
  /\ \/ UNCHANGED runtime
     \/ daemon[p] = "leaving" /\ runtime' = "none"
  /\ ready' = (ready /\ p # "child")
  /\ UNCHANGED <<active, said, intruded, pollers, status, shown, switches, failures, relit>>

\* onRead of the daemon's output.
ReadyLine ==
  /\ said
  /\ said' = FALSE
  /\ ready' = TRUE
  /\ UNCHANGED <<active, daemon, runtime, intruded, pollers, status, shown, switches,
                 failures, relit>>

-----------------------------------------------------------------------------
(***************************************************************************)
(* Vision, and the panel.                                                  *)
(***************************************************************************)
PollsWhenBusy(proc) == IF proc = Idle THEN proc ELSE Asked
Poll(proc) == IF proc = Idle THEN Asked ELSE proc

\* The setting is written, by a thread, by `portal vision`, or by the panel.
Switch(on) ==
  /\ switches < MaxSwitches
  /\ switches' = switches + 1
  /\ active' = on
  /\ relit' = 0
  /\ UNCHANGED <<daemon, runtime, said, intruded, pollers, ready, status, shown, failures>>

\* The panel runs one command at a time and polls Vision when it has ended.
PanelActs ==
  /\ ~actionProc
  /\ actionProc' = TRUE
  /\ UNCHANGED <<desktop, statusProc, visionProc, ready, status, shown, switches,
                 failures, relit>>

PanelDone ==
  /\ actionProc
  /\ actionProc' = FALSE
  /\ visionProc' = Poll(visionProc)
  /\ UNCHANGED <<desktop, statusProc, ready, status, shown, switches, failures, relit>>

-----------------------------------------------------------------------------
(***************************************************************************)
(* statusProc.                                                             *)
(***************************************************************************)
Refresh ==
  /\ statusProc = Idle
  /\ statusProc' = Poll(statusProc)
  /\ UNCHANGED <<desktop, visionProc, actionProc, ready, status, shown, switches, failures, relit>>

\* runtime_status looks for the daemon first and at Vision last.
Named == runtime # "none"
Running == runtime # "none" /\ daemon[runtime] # "down"

ReadRuntime ==
  /\ statusProc = Asked
  /\ statusProc' = [step |-> "reading", running |-> Running]
  /\ UNCHANGED <<desktop, visionProc, actionProc, ready, status, shown, switches, failures, relit>>

ReadStatus ==
  /\ statusProc.step = "reading"
  /\ statusProc' = [step |-> "answered", running |-> statusProc.running, active |-> active]
  /\ UNCHANGED <<desktop, visionProc, actionProc, ready, status, shown, switches, failures, relit>>

\* An answer that says Vision is off empties the list. One without `vision` ends in
\* an exception, when visionActive is assigned undefined.
KeepsMarkers(answer) == visionMarkers
MarkersAfter(answer) == answer.active /\ visionMarkers

StatusFinished ==
  /\ statusProc.step \in {"answered", "empty", "garbled"}
  /\ statusProc' = Idle
  /\ CASE statusProc.step = "answered" ->
            /\ ready' = statusProc.running
            /\ status' = statusProc.active
            /\ Show(statusProc.active, MarkersAfter(statusProc))
       [] statusProc.step = "empty" ->
            /\ ready' = FALSE /\ status' = FALSE
            /\ UNCHANGED <<shown, relit>>
       [] OTHER -> UNCHANGED <<ready, status, shown, relit>>
  /\ UNCHANGED <<desktop, visionProc, actionProc, switches, failures>>

-----------------------------------------------------------------------------
(***************************************************************************)
(* visionProc, whose timer runs only while Vision seems to be on.          *)
(***************************************************************************)
TimerRuns == visionActive \/ status

RefreshVision ==
  /\ TimerRuns
  /\ visionProc = Idle
  /\ visionProc' = Poll(visionProc)
  /\ UNCHANGED <<desktop, statusProc, actionProc, ready, status, shown, switches, failures, relit>>

\* vision_status: no markers while Vision is off, and none without a window or a
\* session.
MarkersFor(on) == IF on THEN BOOLEAN ELSE {FALSE}

ReadVision ==
  /\ visionProc = Asked
  /\ \E markers \in MarkersFor(active) :
       visionProc' = [step |-> "answered", active |-> active, markers |-> markers]
  /\ UNCHANGED <<desktop, statusProc, actionProc, ready, status, shown, switches, failures, relit>>

VisionFinished ==
  /\ visionProc.step \in {"answered", "empty", "garbled"}
  /\ visionProc' = Idle
  /\ CASE visionProc.step = "answered" -> Show(visionProc.active, visionProc.markers)
       [] visionProc.step = "empty" -> Show(FALSE, FALSE)
       [] OTHER -> Show(visionActive, FALSE)
  /\ UNCHANGED <<desktop, statusProc, actionProc, ready, status, switches, failures>>

\* A command fails: a tool it calls does, the database is busy, it is killed.
Breaks(proc) == proc.step \in {"asked", "reading"} /\ failures < MaxFailures

StatusBreaks ==
  /\ Breaks(statusProc)
  /\ failures' = failures + 1
  /\ statusProc' \in Broken
  /\ UNCHANGED <<desktop, visionProc, actionProc, ready, status, shown, switches, relit>>

VisionBreaks ==
  /\ Breaks(visionProc)
  /\ failures' = failures + 1
  /\ visionProc' \in Broken
  /\ UNCHANGED <<desktop, statusProc, actionProc, ready, status, shown, switches, relit>>

-----------------------------------------------------------------------------
Next ==
  \/ \E p \in Daemons : Launch(p) \/ Announce(p) \/ Leave(p) \/ DaemonExits(p)
  \/ Serve \/ ReadyLine
  \/ PanelActs \/ PanelDone \/ \E on \in BOOLEAN : Switch(on)
  \/ Refresh \/ ReadRuntime \/ ReadStatus \/ StatusFinished \/ StatusBreaks
  \/ RefreshVision \/ ReadVision \/ VisionFinished \/ VisionBreaks

Spec == Init /\ [][Next]_vars

(***************************************************************************)
(* Fairness: timers go off (Service.qml 123-136), commands end, and their  *)
(* output is read.  Nothing launches a daemon or switches Vision.          *)
(***************************************************************************)
FairSpec ==
  /\ Spec
  /\ WF_vars(ReadyLine)
  /\ WF_vars(Refresh) /\ WF_vars(ReadRuntime) /\ WF_vars(ReadStatus) /\ WF_vars(StatusFinished)
  /\ WF_vars(RefreshVision) /\ WF_vars(ReadVision) /\ WF_vars(VisionFinished)

-----------------------------------------------------------------------------
\* The service never keeps markers while it takes Vision for off: an answer of
\* status that arrives late and says that Vision is on (Service.qml 98-101)
\* finds none to bring back to the screen.
NoHiddenMarkers == visionMarkers => visionActive

\* "Markers disappear as soon as Vision stops" (README.md, line 82) but for what
\* was under way: the answer of one poll that was asked before can bring them back
\* once (Service.qml 111-118), whatever the order the answers arrive in.
RelitAtMostOnce == relit <= 1

\* When Vision stays off the overlay goes dark in the end, also after commands
\* that failed; when it stays on the service knows in the end.
FollowsVision ==
  /\ <>[](~active) => <>[](~Lit)
  /\ <>[]active => <>[]visionActive

\* What bar and panel say of the daemon (Service.qml 50-80 and 93-96) becomes
\* true when the daemons stay as they are, although the sources, the child's output and
\* the polls, arrive in any order and runtime.json is shared: not ready when none is up,
\* ready when the child serves and no other daemon was at that file since its launch
\* (cli.py 36-46, 247-275).
FollowsDaemon ==
  /\ <>[](\A p \in Daemons : daemon[p] = "down") => <>[](~ready)
  /\ <>[](daemon["child"] = "serving" /\ ~intruded) => <>[]ready
=============================================================================
