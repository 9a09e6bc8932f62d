---------------------------- MODULE PortalVision ----------------------------
(***************************************************************************)
(* Portal Vision of src/portal/core.py: the setting `vision`, the markers  *)
(* that `vision status` mints for the windows on the desktop, and the      *)
(* phone that resolves one.                                                *)
(*                                                                         *)
(* Vision is switched by HTTP threads (Handlers) and by processes of the   *)
(* desktop (Clis); Service.qml polls `vision status` in processes of its   *)
(* own, which are Clis as well.  The windows belong to the compositor and  *)
(* change at any time.  Hyprland tells them apart by their stable ids; for *)
(* a window of Unnamed it gives none, and the code keeps the empty string. *)
(***************************************************************************)
EXTENDS Integers, FiniteSets, Tables

CONSTANTS
  Sessions, NoSession,
  Addresses,      \* window addresses, which the compositor reuses
  Windows,        \* windows, which never come back
  Unnamed,        \* those without a stable id
  Markers,        \* marker tokens security.token can draw
  Handlers, Clis,
  VisionTTL,
  Grace,          \* how long cleanup keeps expired markers
  MaxTime,        \* bound on the clock, for model checking
  MaxKills        \* bound on the number of interrupted processes

Actors == Handlers \cup Clis

ASSUME VisionAssumption ==
  /\ VisionTTL \in Nat /\ Grace \in Nat /\ MaxTime \in Nat /\ MaxKills \in Nat
  /\ Unnamed \subseteq Windows
  /\ NoSession \notin Sessions
  /\ Handlers \cap Clis = {}

VARIABLES
  now,        \* the clock
  vision,     \* the setting: [active, session]
  markers,    \* table: marker -> [session, address, window, expires, used]
  live,       \* sessions that authenticate
  desktop,    \* table: address -> the window there
  job,        \* what each process is in the middle of
  kills,      \* processes interrupted so far
  \* History variables.
  drawn,      \* markers already drawn
  opened,     \* windows that were ever opened
  uses,       \* <<marker, thread>> for each UPDATE that used a marker
  answered,   \* <<window of the marker, window of the answer, whether the first
              \* was at its address when it was looked for (fresh in job)>>
  leftovers   \* since the last deletion: markers inserted while Vision was off, and
              \* those whose deletion was interrupted

environment == <<live, desktop, opened>>
history == <<drawn, uses, answered, leftovers>>
vars == <<now, vision, markers, environment, job, kills, history>>

-----------------------------------------------------------------------------
Idle == [step |-> "idle"]

Setting == [active : BOOLEAN, session : Sessions \cup {NoSession}]

Marker == [session : Sessions, address : Addresses, window : Windows,
           expires : Nat, used : BOOLEAN]

Job ==
  {Idle}
  \cup [step : {"set"}, active : BOOLEAN, session : Sessions \cup {NoSession}]
  \cup [step : {"erase"}]
  \cup [step : {"survey"}, session : Sessions \cup {NoSession}]
  \cup [step : {"mint"}, session : Sessions, at : Nat,
        left : SUBSET (Addresses \X Windows)]
  \cup [step : {"find"}, marker : Markers, address : Addresses, window : Windows]
  \cup [step : {"use", "detail"}, marker : Markers, address : Addresses,
        window : Windows, fresh : BOOLEAN]

TypeOK ==
  /\ now \in Nat /\ kills \in Nat
  /\ vision \in Setting
  /\ IsTable(markers, Markers, Marker)
  /\ live \subseteq Sessions
  /\ IsTable(desktop, Addresses, Windows)
  /\ job \in [Actors -> Job]
  /\ drawn \subseteq Markers /\ opened \subseteq Windows
  /\ uses \subseteq Markers \X Handlers
  /\ answered \subseteq Windows \X Windows \X BOOLEAN
  /\ leftovers \subseteq Markers

Init ==
  /\ now = 0
  /\ vision = [active |-> FALSE, session |-> NoSession]
  /\ markers = EmptyTable
  /\ live = Sessions
  /\ desktop = EmptyTable
  /\ job = [a \in Actors |-> Idle]
  /\ kills = 0
  /\ drawn = {}
  /\ opened = {}
  /\ uses = {}
  /\ answered = {}
  /\ leftovers = {}

Become(a, what) == job' = [job EXCEPT ![a] = what]

\* A thread switches Vision for the session it authenticated, a process of the
\* desktop for none.
Owners(a) == IF a \in Handlers THEN live ELSE {NoSession}

-----------------------------------------------------------------------------
(***************************************************************************)
(* set_vision, given a value or (run_action, `vision toggle`) the opposite *)
(* of the value read before.                                               *)
(***************************************************************************)
Switch(a, active, session) ==
  /\ job[a] = Idle
  /\ session \in Owners(a)
  /\ Become(a, [step |-> "set", active |-> active, session |-> session])
  /\ UNCHANGED <<now, vision, markers, environment, kills, history>>

Toggle(a, session) == Switch(a, ~vision.active, session)

SetVision(a) ==
  /\ job[a].step = "set"
  /\ vision' = [active |-> job[a].active, session |-> job[a].session]
  /\ Become(a, IF job[a].active THEN Idle ELSE [step |-> "erase"])
  /\ UNCHANGED <<now, markers, environment, kills, history>>

\* A second transaction deletes the markers, whichever they are.
UsedErased(table) == Keep(table, LAMBDA row : ~row.used)
Erased(table) == EmptyTable

EraseMarkers(a) ==
  /\ job[a].step = "erase"
  /\ markers' = Erased(markers)
  /\ leftovers' = {}
  /\ Become(a, Idle)
  /\ UNCHANGED <<now, vision, environment, kills, drawn, uses, answered>>

-----------------------------------------------------------------------------
(***************************************************************************)
(* vision_status.                                                          *)
(***************************************************************************)
BeginStatus(c) ==
  /\ job[c] = Idle
  /\ vision.active
  /\ Become(c, [step |-> "survey", session |-> vision.session])
  /\ UNCHANGED <<now, vision, markers, environment, kills, history>>

\* The session to mint for: the one the setting names, whether it still
\* authenticates or not, or else one that does. Which was seen last is left open.
NamedOwner(session) == {session}
OwnersFor(session) == IF session = NoSession THEN live ELSE {session}

\* The clock is read, and hyprctl lists the windows.
Survey(c) ==
  /\ job[c].step = "survey"
  /\ IF OwnersFor(job[c].session) = {}
       THEN Become(c, Idle)
       ELSE \E s \in OwnersFor(job[c].session) :
              Become(c, [step |-> "mint", session |-> s, at |-> now,
                         left |-> {<<x, desktop[x]>> : x \in DOMAIN desktop}])
  /\ UNCHANGED <<now, vision, markers, environment, kills, history>>

\* One INSERT for each window.
MintMarker(c, m) ==
  /\ job[c].step = "mint"
  /\ m \in Markers \ drawn
  /\ \E w \in job[c].left :
       /\ markers' = Put(markers, m,
                         [session |-> job[c].session, address |-> w[1],
                          window |-> w[2], expires |-> job[c].at + VisionTTL,
                          used |-> FALSE])
       /\ job' = [job EXCEPT ![c].left = @ \ {w}]
  /\ drawn' = drawn \cup {m}
  /\ leftovers' = IF vision.active THEN leftovers ELSE leftovers \cup {m}
  /\ UNCHANGED <<now, vision, environment, kills, uses, answered>>

EndStatus(c) ==
  /\ job[c].step = "mint"
  /\ job[c].left = {}
  /\ Become(c, Idle)
  /\ UNCHANGED <<now, vision, markers, environment, kills, history>>

-----------------------------------------------------------------------------
(***************************************************************************)
(* resolve_vision.                                                         *)
(***************************************************************************)
Resolvable(row, at) == ~row.used /\ row.expires >= at

ReadMarker(h, m) ==
  /\ job[h] = Idle
  /\ m \in DOMAIN markers
  /\ Resolvable(markers[m], now)
  /\ markers[m].session \in live
  /\ Become(h, [step |-> "find", marker |-> m, address |-> markers[m].address,
                window |-> markers[m].window])
  /\ UNCHANGED <<now, vision, markers, environment, kills, history>>

\* hyprctl is asked for the window at the address.  One with another stable id is
\* refused; a marker that has none admits whatever is there.
AnyAtAddress(j) == j.address \in DOMAIN desktop
MarkedWindow(j) ==
  /\ j.address \in DOMAIN desktop
  /\ j.window \in Unnamed \/ desktop[j.address] = j.window

FindWindow(h) ==
  /\ job[h].step = "find"
  /\ LET j == job[h] IN
     Become(h, IF MarkedWindow(j)
                 THEN [step |-> "use", marker |-> j.marker, address |-> j.address,
                       window |-> j.window, fresh |-> desktop[j.address] = j.window]
                 ELSE Idle)
  /\ UNCHANGED <<now, vision, markers, environment, kills, history>>

StillUnused(row) == row
Used(row) == [row EXCEPT !.used = TRUE]

UseMarker(h) ==
  /\ job[h].step = "use"
  /\ markers' = Change(markers, {job[h].marker}, Used)
  /\ uses' = uses \cup {<<job[h].marker, h>>}
  /\ Become(h, [job[h] EXCEPT !.step = "detail"])
  /\ UNCHANGED <<now, vision, environment, kills, drawn, answered, leftovers>>

\* window_detail asks hyprctl once more, by the address alone.
WindowDetail(h) ==
  /\ job[h].step = "detail"
  /\ LET j == job[h] IN
     answered' = IF j.address \in DOMAIN desktop
                   THEN answered \cup {<<j.window, desktop[j.address], j.fresh>>}
                   ELSE answered
  /\ Become(h, Idle)
  /\ UNCHANGED <<now, vision, markers, environment, kills, drawn, uses, leftovers>>

\* cleanup, which works with a clock it read earlier.
Cleanup ==
  /\ \E at \in 0..now :
       markers' = Keep(markers, LAMBDA row : row.expires + Grace >= at /\ ~row.used)
  /\ UNCHANGED <<now, vision, environment, job, kills, history>>

-----------------------------------------------------------------------------
(***************************************************************************)
(* The compositor, the sessions and the clock.                             *)
(***************************************************************************)
OpenWindow(x, w) ==
  /\ x \in Addresses \ DOMAIN desktop
  /\ w \in Windows \ opened
  /\ desktop' = Put(desktop, x, w)
  /\ opened' = opened \cup {w}
  /\ UNCHANGED <<now, vision, markers, live, job, kills, history>>

CloseWindow(x) ==
  /\ x \in DOMAIN desktop
  /\ desktop' = Restrict(desktop, DOMAIN desktop \ {x})
  /\ UNCHANGED <<now, vision, markers, live, opened, job, kills, history>>

EndSession(s) ==
  /\ s \in live
  /\ live' = live \ {s}
  /\ UNCHANGED <<now, vision, markers, desktop, opened, job, kills, history>>

Tick ==
  /\ now < MaxTime
  /\ now' = now + 1
  /\ UNCHANGED <<vision, markers, environment, job, kills, history>>

\* A process ends between two steps: it is killed, or a call raises.
Interrupt(a) ==
  /\ kills < MaxKills
  /\ kills' = kills + 1
  /\ job[a] # Idle
  /\ leftovers' = IF job[a].step = "erase" /\ ~vision.active
                    THEN leftovers \cup DOMAIN markers ELSE leftovers
  /\ Become(a, Idle)
  /\ UNCHANGED <<now, vision, markers, environment, drawn, uses, answered>>

\* The steps of an operation that has begun.
Continue(a) ==
  \/ SetVision(a)
  \/ EraseMarkers(a)
  \/ Survey(a)
  \/ \E m \in Markers : MintMarker(a, m)
  \/ EndStatus(a)
  \/ FindWindow(a)
  \/ UseMarker(a)
  \/ WindowDetail(a)

Next ==
  \/ \E a \in Actors, s \in Sessions \cup {NoSession} :
       Toggle(a, s) \/ \E on \in BOOLEAN : Switch(a, on, s)
  \/ \E c \in Clis : BeginStatus(c)
  \/ \E h \in Handlers, m \in Markers : ReadMarker(h, m)
  \/ \E a \in Actors : Continue(a) \/ Interrupt(a)
  \/ Cleanup
  \/ \E x \in Addresses, w \in Windows : OpenWindow(x, w)
  \/ \E x \in Addresses : CloseWindow(x)
  \/ \E s \in Sessions : EndSession(s)
  \/ Tick

Spec == Init /\ [][Next]_vars

-----------------------------------------------------------------------------
\* A marker that was used once is only ever used again by a thread that had
\* looked at it before: no thread uses a marker twice (resolve_vision,
\* core.py 652-678), whatever cleanup and stopping Vision delete meanwhile.
UsedMarker(m) == m \in DOMAIN markers => markers[m].used
ReuseOnlyByOverlap ==
  \A u \in uses :
    /\ UsedMarker(u[1])
    /\ job[u[2]].step \in {"find", "use"} => job[u[2]].marker # u[1]

\* "It is single-use" (SECURITY.md, line 41; README.md, line 82): no two threads use one
\* marker. The code looks at it in one statement and marks it used in a later one
\* (core.py 655-677).
SingleUse == \A u, v \in uses : u[1] = v[1] => u[2] = v[2]

\* "Destroyed or replaced windows are rejected" (SECURITY.md, line 41): an answer
\* describes the window the marker was drawn on, or one that took its address over after
\* that was checked (core.py 669-678 looks the address up twice and compares once), or
\* the marker was drawn on a window without a stable id, and nothing is compared.
ReplacedAreRejected == \A w \in answered : w[1] = w[2] \/ w[3] \/ w[1] \in Unnamed

\* "Stopping Vision deletes live markers" (SECURITY.md, line 41), however often it is
\* switched by how many at once: while Vision is off and nobody is about to delete them,
\* the only markers are those a status command that was under way inserted after the
\* stop, and those whose deletion was interrupted (core.py 603-610 against 612-650).
StopDeletes ==
  ~vision.active =>
    (\E a \in Actors : job[a].step = "erase") \/ DOMAIN markers \subseteq leftovers
=============================================================================
