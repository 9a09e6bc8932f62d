--------------------------- MODULE PortalDesktop ---------------------------
(***************************************************************************)
(* What a phone does to the desktop: the requests of src/portal/service.py *)
(* and the tools of src/portal/backend.py that carry them out.             *)
(*                                                                         *)
(* A request is accepted and does its TLS handshake in the one accept      *)
(* loop, and is then carried out in a thread of its own, which reads what  *)
(* the phone sends, authenticates it once and calls one tool after         *)
(* another.  Neither the handshake nor the reading has a limit in time.    *)
(* Between two calls windows open and close, the focus and the pointer     *)
(* move, the operator edits the device or ends its session, and other      *)
(* requests do the same.  All requests come from one phone, which has      *)
(* listed the windows before.                                              *)
(***************************************************************************)
EXTENDS Integers, FiniteSets, Sequences, Tables

CONSTANTS
  Requests,
  Addresses,      \* window addresses, which the compositor reuses
  Windows,        \* windows, which never come back
  None,           \* no window, no request, no session
  Grants,         \* sets of capabilities the operator may give the device
  Delta,          \* Requests -> the movement each asks for, if it is one
  Limit,          \* what one request may move the pointer at most
  MaxCursor,      \* bound on the pointer's movements by hand, for model checking
  Used,           \* the kinds of requests the phone makes
  MaxMishaps      \* bound on what fails (steps, handshakes, the daemon) and on edits

ASSUME DesktopAssumption ==
  /\ None \notin Windows \cup Requests
  /\ Delta \in [Requests -> Int] /\ Limit \in Nat /\ MaxCursor \in Int
  /\ MaxMishaps \in Nat
  /\ Addresses # {}

VARIABLES
  accepting,  \* the request whose handshake the accept loop is doing
  caps,       \* capabilities of the device, None when its session has ended
  windows,    \* table: address -> the window there
  focus,      \* the active window
  cursor,     \* where the pointer is
  clipboard,  \* the request whose text is in the clipboard
  inbox,      \* items: <<request, window it tells of>>
  shots,      \* requests whose temporary screenshot exists
  job,        \* what each request is about and what it has left to do
  mishaps,
  \* History variables.
  known,      \* <<address, window>> for every window there ever was
  acted,      \* <<request, window acted on>>
  turned,     \* requests to take a window before which the focus moved
  pushed,     \* all the movement the pointer was asked for
  crossed     \* the pointer was moved between a reading of it and its use

server == <<accepting, caps>>
screen == <<windows, focus, cursor, clipboard>>
files == <<inbox, shots>>
history == <<known, acted, turned, pushed, crossed>>
vars == <<server, screen, files, job, mishaps, history>>

-----------------------------------------------------------------------------
(***************************************************************************)
(* The requests: the capabilities they need, and the steps they take.      *)
(***************************************************************************)
Kinds == {"text", "continue", "open", "clipboard", "close", "arrange", "take",
          "move", "click", "key", "media", "audio", "launch", "shot"}

Required(kind) ==
  CASE kind \in {"text", "open"} -> {"send_receive"}
    [] kind = "continue" -> {"send_receive", "clipboard"}
    [] kind \in {"close", "arrange", "take"} -> {"window_control"}
    [] kind \in {"move", "click"} -> {"pointer"}
    [] kind = "key" -> {"keyboard"}
    [] kind = "launch" -> {"command_palette"}
    [] kind = "shot" -> {"screenshots"}
    [] OTHER -> {kind}

LooksFirst == <<"context", "keep", "find", "focus", "again">>
TakePlan == <<"find", "focus", "again", "context", "keep">>

KeepsFirst == <<"temporary", "keep", "grim", "remove">>
ShotPlan == <<"temporary", "grim", "keep", "remove">>

Plan(kind) ==
  CASE kind = "text" -> <<"store">>
    [] kind = "continue" -> <<"store", "copy">>
    [] kind = "open" -> <<"store", "press">>
    [] kind = "clipboard" -> <<"copy">>
    [] kind \in {"close", "arrange"} -> <<"find", "act">>
    [] kind = "take" -> TakePlan
    [] kind = "move" -> <<"cursor", "point">>
    [] kind = "shot" -> ShotPlan
    [] OTHER -> <<"press">>

Steps == {"auth", "store", "copy", "press", "find", "act", "focus", "again",
          "context", "keep", "cursor", "point", "temporary", "grim", "remove"}

\* Steps that call a program, which may fail, or fill the inbox, which may be full.
Fallible == {"store", "keep", "copy", "press", "find", "act", "focus", "cursor",
             "point", "grim"}

\* The states in which a request has a connection.
Open == {"waiting", "sending", "working"}

\* at and meant: the window of the request, as the phone knows it; saw: what an
\* earlier step read.
Job == [kind : Kinds, state : {"new", "waiting", "sending", "working", "ok", "refused",
                               "failed", "lost"},
        todo : Seq(Steps), at : Addresses, meant : Windows \cup {None},
        saw : Windows \cup {None} \cup Int]

TypeOK ==
  /\ accepting \in Requests \cup {None}
  /\ caps \in Grants \cup {None}
  /\ IsTable(windows, Addresses, Windows)
  /\ focus \in Windows \cup {None}
  /\ cursor \in Int /\ pushed \in Int
  /\ clipboard \in Requests \cup {None}
  /\ inbox \subseteq Requests \X (Windows \cup {None})
  /\ shots \subseteq Requests
  /\ job \in [Requests -> Job]
  /\ \A r \in Requests : job[r].todo = <<>> <=> job[r].state \notin Open
  /\ mishaps \in 0..MaxMishaps
  /\ known \subseteq Addresses \X Windows
  /\ acted \subseteq Requests \X Windows
  /\ turned \subseteq Requests /\ crossed \in BOOLEAN

New == [kind |-> "text", state |-> "new", todo |-> <<>>,
        at |-> CHOOSE x \in Addresses : TRUE, meant |-> None, saw |-> None]

Init ==
  /\ accepting = None
  /\ caps \in Grants
  /\ windows = EmptyTable
  /\ focus = None /\ cursor = 0 /\ clipboard = None
  /\ inbox = {} /\ shots = {}
  /\ job = [r \in Requests |-> New]
  /\ mishaps = 0
  /\ known = {} /\ acted = {} /\ turned = {}
  /\ pushed = 0 /\ crossed = FALSE

At(r, step) ==
  job[r].state = "working" /\ job[r].todo # <<>> /\ Head(job[r].todo) = step

Ended(j, state) == [j EXCEPT !.state = state, !.todo = <<>>, !.saw = None]

GoesOn(j) == [j EXCEPT !.todo = Tail(@)]
Past(j) == IF Len(j.todo) = 1 THEN Ended(j, "ok") ELSE [j EXCEPT !.todo = Tail(@)]

Goes(r) == job' = [job EXCEPT ![r] = Past(@)]
Ends(r, state) == job' = [job EXCEPT ![r] = Ended(@, state)]

\* A program did what it should; whether it is known to have in time is open.
Ran(r) ==
  \/ Goes(r) /\ UNCHANGED mishaps
  \/ mishaps < MaxMishaps /\ mishaps' = mishaps + 1 /\ Ends(r, "failed")

-----------------------------------------------------------------------------
(***************************************************************************)
(* Connections.                                                            *)
(***************************************************************************)
\* A request about a window gives the address under which the phone listed it, at
\* some time or other.
Connect(r, kind) ==
  /\ job[r].state = "new" /\ kind \in Used
  /\ \E window \in IF kind \in {"close", "arrange", "take"}
                    THEN known ELSE {<<New.at, None>>} :
       job' = [job EXCEPT ![r] =
                 [kind |-> kind, state |-> "waiting", todo |-> <<"auth">> \o Plan(kind),
                  at |-> window[1], meant |-> window[2], saw |-> None]]
  /\ UNCHANGED <<server, screen, files, mishaps, history>>

\* get_request: the handshake happens before the next connection is accepted.
Accept(r) ==
  /\ accepting = None /\ job[r].state = "waiting"
  /\ accepting' = r
  /\ UNCHANGED <<caps, screen, files, job, mishaps, history>>

Handshake(r) ==
  /\ accepting = r /\ job[r].state = "waiting"
  /\ accepting' = None
  /\ job' = [job EXCEPT ![r].state = "sending"]
  /\ UNCHANGED <<caps, screen, files, mishaps, history>>

\* The accept loop of socketserver goes on after an exception of get_request.
StillBusy(r) == r
AfterError(r) == None

HandshakeFails(r) ==
  /\ accepting = r /\ job[r].state = "waiting"
  /\ mishaps < MaxMishaps /\ mishaps' = mishaps + 1
  /\ accepting' = AfterError(r)
  /\ Ends(r, "lost")
  /\ UNCHANGED <<caps, screen, files, history>>

\* body_json, in the thread: the request is read to its end before its sender is
\* authenticated.
ReadBody(r) ==
  /\ job[r].state = "sending"
  /\ job' = [job EXCEPT ![r].state = "working"]
  /\ UNCHANGED <<server, screen, files, mishaps, history>>

\* It is cut short, too long, or no object.
BodyFails(r) ==
  /\ job[r].state = "sending"
  /\ mishaps < MaxMishaps /\ mishaps' = mishaps + 1
  /\ Ends(r, "failed")
  /\ UNCHANGED <<server, screen, files, history>>

Authenticate(r) ==
  /\ At(r, "auth")
  /\ IF caps # None /\ Required(job[r].kind) \subseteq caps THEN Goes(r) ELSE Ends(r, "refused")
  /\ UNCHANGED <<server, screen, files, mishaps, history>>

\* `take` authenticates again, after it gave the window the focus.
AuthenticateAgain(r) ==
  /\ At(r, "again")
  /\ IF caps # None THEN Goes(r) ELSE Ends(r, "refused")
  /\ UNCHANGED <<server, screen, files, mishaps, history>>

-----------------------------------------------------------------------------
(***************************************************************************)
(* Items, the clipboard, and programs that change nothing the models see.  *)
(***************************************************************************)
Store(r) ==
  /\ At(r, "store")
  /\ inbox' = inbox \cup {<<r, None>>}
  /\ Goes(r)
  /\ UNCHANGED <<server, screen, shots, mishaps, history>>

Copy(r) ==
  /\ At(r, "copy")
  /\ clipboard' = r
  /\ Ran(r)
  /\ UNCHANGED <<server, windows, focus, cursor, files, history>>

Press(r) ==
  /\ At(r, "press")
  /\ Ran(r)
  /\ UNCHANGED <<server, screen, files, history>>

\* A step fails and did nothing: a program is missing, refuses, or Hyprland does.
StepFails(r) ==
  /\ \E step \in Fallible : At(r, step)
  /\ mishaps < MaxMishaps /\ mishaps' = mishaps + 1
  /\ Ends(r, "failed")
  /\ UNCHANGED <<server, screen, files, history>>

-----------------------------------------------------------------------------
(***************************************************************************)
(* Windows.                                                                *)
(***************************************************************************)
Find(r) ==
  /\ At(r, "find")
  /\ IF job[r].at \in DOMAIN windows THEN Goes(r) ELSE Ends(r, "failed")
  /\ UNCHANGED <<server, screen, files, mishaps, history>>

\* The window an action reaches: whatever has the address now.
ActiveWindow(x) == {focus} \ {None}
Target(x) == {windows[y] : y \in {x} \cap DOMAIN windows}

\* Requests that gave a window the focus and have not looked at it since.
Taking == {r \in Requests : At(r, "again") \/ At(r, "context")}

\* Windows close: another has the focus then, or none.
LosesFocus(gone) ==
  IF focus \in gone THEN focus' \in Range(windows') \cup {None} /\ turned' = turned \cup Taking
                    ELSE UNCHANGED <<focus, turned>>

\* The dispatcher that closes, moves or enlarges a window.
Act(r) ==
  /\ At(r, "act")
  /\ acted' = acted \cup ({r} \X Target(job[r].at))
  /\ IF job[r].kind = "close"
       THEN \E gone \in SUBSET Target(job[r].at) :   \* a program may stay or ask
              /\ windows' = RestrictValues(windows, LAMBDA w : w \notin gone)
              /\ LosesFocus(gone)
       ELSE UNCHANGED <<windows, focus, turned>>
  /\ Ran(r)
  /\ UNCHANGED <<server, cursor, clipboard, files, known, pushed, crossed>>

FocusWindow(r) ==
  /\ At(r, "focus")
  /\ IF Target(job[r].at) = {}
       THEN UNCHANGED <<focus, turned>>
       ELSE focus' \in Target(job[r].at) /\ turned' = turned \cup Taking
  /\ Ran(r)
  /\ UNCHANGED <<server, windows, cursor, clipboard, files, known,
                 acted, pushed, crossed>>

\* current_context: the active window, with a directory, the clipboard or the name
\* of the application; that there is none is no failure.
Context(r) ==
  /\ At(r, "context")
  /\ job' = [job EXCEPT ![r] = Past([@ EXCEPT !.saw = focus])]
  /\ UNCHANGED <<server, screen, files, mishaps, history>>

Keep_(r) ==
  /\ At(r, "keep")
  /\ inbox' = inbox \cup {<<r, job[r].saw>>}
  /\ Goes(r)
  /\ UNCHANGED <<server, screen, shots, mishaps, history>>

-----------------------------------------------------------------------------
(***************************************************************************)
(* The pointer: its place is read, and it is put to another.               *)
(***************************************************************************)
Clamped(d) == IF d > Limit THEN Limit ELSE IF d < -Limit THEN -Limit ELSE d

Pointing == \E r \in Requests : At(r, "point")

ReadCursor(r) ==
  /\ At(r, "cursor")
  /\ job' = [job EXCEPT ![r] = Past([@ EXCEPT !.saw = cursor])]
  /\ UNCHANGED <<server, screen, files, mishaps, history>>

DeltaOnly(saw, d) == Clamped(d)
Destination(saw, d) == saw + Clamped(d)

Point(r) ==
  /\ At(r, "point")
  /\ cursor' = Destination(job[r].saw, Delta[r])
  /\ pushed' = pushed + Clamped(Delta[r])
  /\ crossed' = (crossed \/ \E q \in Requests \ {r} : At(q, "point"))
  /\ Ran(r)
  /\ UNCHANGED <<server, windows, focus, clipboard, files, known,
                 acted, turned>>

-----------------------------------------------------------------------------
(***************************************************************************)
(* Screenshots: a temporary file, grim, a copy in the inbox, no file.      *)
(***************************************************************************)
Temporary(r) ==
  /\ At(r, "temporary")
  /\ shots' = shots \cup {r}
  /\ Goes(r)
  /\ UNCHANGED <<server, screen, inbox, mishaps, history>>

Grim(r) ==
  /\ At(r, "grim")
  /\ Ran(r)
  /\ UNCHANGED <<server, screen, files, history>>

Remove(r) ==
  /\ At(r, "remove")
  /\ shots' = shots \ {r}
  /\ Goes(r)
  /\ UNCHANGED <<server, screen, inbox, mishaps, history>>

-----------------------------------------------------------------------------
(***************************************************************************)
(* The user at the desktop, the operator, and the end of the daemon.       *)
(***************************************************************************)
Fresh == Windows \ {k[2] : k \in known}
NewWindow == CHOOSE w \in Fresh : TRUE

OpenWindow(x) ==
  /\ x \notin DOMAIN windows /\ Fresh # {}
  /\ windows' = Put(windows, x, NewWindow)
  /\ known' = known \cup {<<x, NewWindow>>}
  /\ focus' = NewWindow /\ turned' = turned \cup Taking
  /\ UNCHANGED <<server, cursor, clipboard, files, job, mishaps,
                 acted, pushed, crossed>>

CloseWindow(w) ==
  /\ w \in Range(windows)
  /\ windows' = RestrictValues(windows, LAMBDA v : v # w)
  /\ LosesFocus({w})
  /\ UNCHANGED <<server, cursor, clipboard, files, job, mishaps, known,
                 acted, pushed, crossed>>

SwitchFocus(w) ==
  /\ w \in Range(windows) \ {focus}
  /\ focus' = w /\ turned' = turned \cup Taking
  /\ UNCHANGED <<server, windows, cursor, clipboard, files, job, mishaps,
                 known, acted, pushed, crossed>>

MovePointer ==
  /\ cursor < MaxCursor
  /\ cursor' = cursor + 1 /\ pushed' = pushed + 1
  /\ crossed' = (crossed \/ Pointing)
  /\ UNCHANGED <<server, windows, focus, clipboard, files, job, mishaps,
                 known, acted, turned>>

EditDevice(granted) ==
  /\ caps # None /\ caps' = granted
  /\ mishaps < MaxMishaps /\ mishaps' = mishaps + 1
  /\ UNCHANGED <<accepting, screen, files, job, history>>

EndSession ==
  /\ caps # None /\ caps' = None
  /\ mishaps < MaxMishaps /\ mishaps' = mishaps + 1
  /\ UNCHANGED <<accepting, screen, files, job, history>>

Kill ==
  /\ mishaps < MaxMishaps /\ mishaps' = mishaps + 1
  /\ accepting' = None
  /\ job' = [r \in Requests |-> IF job[r].state \in Open
                                  THEN Ended(job[r], "lost") ELSE job[r]]
  /\ UNCHANGED <<caps, screen, files, history>>

-----------------------------------------------------------------------------
\* The steps of a thread.
Continue(r) ==
  \/ Authenticate(r) \/ AuthenticateAgain(r)
  \/ Store(r) \/ Copy(r) \/ Press(r) \/ StepFails(r)
  \/ Find(r) \/ Act(r) \/ FocusWindow(r) \/ Context(r) \/ Keep_(r)
  \/ ReadCursor(r) \/ Point(r)
  \/ Temporary(r) \/ Grim(r) \/ Remove(r)

Next ==
  \/ \E r \in Requests :
       \/ \E kind \in Kinds : Connect(r, kind)
       \/ Accept(r) \/ Handshake(r) \/ HandshakeFails(r)
       \/ ReadBody(r) \/ BodyFails(r) \/ Continue(r)
  \/ \E x \in Addresses : OpenWindow(x)
  \/ \E w \in Windows : CloseWindow(w) \/ SwitchFocus(w)
  \/ MovePointer
  \/ \E granted \in Grants : EditDevice(granted)
  \/ EndSession
  \/ Kill

Spec == Init /\ [][Next]_vars

(***************************************************************************)
(* Fairness: the accept loop and the threads go on.  Nothing makes a phone *)
(* end its handshake or send the rest of its request.  Every request is    *)
(* made once, so no stream of others passes one that waits.                *)
(***************************************************************************)
FairSpec ==
  /\ Spec
  /\ \A r \in Requests : WF_vars(Accept(r)) /\ WF_vars(Continue(r))

-----------------------------------------------------------------------------
Closed == {k[2] : k \in known} \ Range(windows)

Answered(r, states) == job[r].state \in states

\* A request that is refused has left nothing behind, even if the operator edits
\* the device or ends the session while it is carried out: all its checks come
\* before its effects, but for the focus of a window to take (service.py 304-441).
RefusedLeavesNothing ==
  \A r \in Requests : Answered(r, {"refused"}) =>
    /\ r \notin shots /\ clipboard # r
    /\ \A e \in inbox \cup acted : e[1] # r

\* One that failed has left an item only if it was to be continued or opened on
\* the PC (service.py 345-353: the item is stored first, and sent again by a user
\* who tries again), and one that went well has left exactly what it should.
ItemsAreAccountedFor ==
  /\ \A e \in inbox : Answered(e[1], {"failed"}) => job[e[1]].kind \in {"continue", "open"}
  /\ \A r \in Requests :
       Answered(r, {"ok"}) /\ job[r].kind \in {"text", "continue", "open", "take", "shot"}
         => Cardinality({e \in inbox : e[1] = r}) = 1

\* A temporary screenshot stays behind only when grim or the copy of it failed,
\* or the daemon ended (core.py 740-744, backend.py 421-433).
ShotsAreRemoved ==
  \A r \in shots : Answered(r, {"working", "failed", "lost"})

\* A window action that names a window by its address (backend.py 101-136) reaches
\* the window the phone or one that got the address after that was closed.
HitsListedWindow ==
  \A a \in acted : a[2] = job[a[1]].meant \/ job[a[1]].meant \in Closed

\* "Take This" tells of the window it was asked for, unless that was closed or the
\* focus moved before it looked (service.py 385-389).
TakesListedWindow ==
  \A e \in inbox : job[e[1]].kind = "take" =>
    \/ e[2] = job[e[1]].meant
    \/ job[e[1]].meant \in Closed \/ e[1] \in turned

\* The pointer goes where all its movements together lead, unless two were under
\* way at once (backend.py 138-144).
MovesAddUp == crossed \/ cursor = pushed

\* No request waits for ever, but behind a handshake that does not end: handshakes happen
\* in the accept loop and have no limit in time, and one that fails raises there
\* (service.py 39-63).
Shakes(r) == accepting = r /\ Answered(r, {"waiting"})

ReachesThread ==
  \A r \in Requests :
    <>[]Answered(r, {"waiting"}) => \E q \in Requests : <>[]Shakes(q)

\* A request that was read is answered in the end, or the daemon ends; one that the
\* phone does not send to its end holds its own thread only (service.py 162-175).
ThreadEnds == \A r \in Requests : []<>~Answered(r, {"working"})

EveryRequestEnds == ReachesThread /\ ThreadEnds

\* What a request left behind fits its answer, whatever failed on the way.
LeftoversFitAnswer == ItemsAreAccountedFor /\ ShotsAreRemoved

\* "context-aware controls for exactly that live window" (README.md, line 17), but
\* for what changed at the desktop meanwhile.
ReachesMeantWindow == HitsListedWindow /\ TakesListedWindow
=============================================================================
