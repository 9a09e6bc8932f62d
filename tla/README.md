# A verification project for Portal

Portal connects a phone's browser with an Omarchy desktop: a local HTTPS daemon
(`portal serve`), one-shot commands (`portal pair`, `approve`, `device`, `vision`,
`send`, `discard`, ...), a long-lived shell service and a panel in QML, and a web
app for the phone. This directory holds TLA+ specifications of its core, the TLC
instances that check them, and theorems that TLAPS proves about them. Paths below
are relative to the repository; `core.py`, `store.py`, `service.py`,
`backend.py`, `cli.py` and `security.py` are in `src/portal/`, `Service.qml` and `Panel.qml` in
`src/`, `app.js` in `src/web/`.

## 1. The system

All processes meet in one SQLite database (`store.py`) and one state directory.
What matters most for every model is how they meet (`store.py` 61-87):

* `Store.execute`, `one` and `all` open a connection each, so every one of them is
  a transaction of its own.
* inside one `with store.connect()` block the `sqlite3` module opens a transaction
  at the first *write*. A `SELECT` before it runs in autocommit mode: what it read
  may be stale when the block writes. The writes of a block are atomic and are
  rolled back together.
* the HTTP server runs every request in a daemon thread; each `portal` command is
  a process; the shell service polls with processes of its own.

| component | state | operations | meets others through | what is hard |
|---|---|---|---|---|
| Pairing and sessions (`core.py` 96-348) | tables `pairing_tokens`, `pair_requests`, `devices`, `sessions` | start_pairing, request_pair, decide_pair, poll_pair, resume, authenticate, edit_device, disconnect, revoke, cleanup | database: HTTP threads against commands | reads outside the transaction, derived tokens, revoke against resume, cleanup with an old clock, processes that die half-way |
| Portal Inbox (`core.py` 350-525, `service.py` 250-266) | table `inbox`, the inbox directory, partial files | add_text, add_file, inbox, inbox_content, inbox_action, cleanup | database and directory, which no transaction covers together | destination chosen early and used late, interruption between directory and table, cleanup in three steps |
| Portal Vision (`core.py` 603-678) | setting `vision`, table `vision_markers` | set_vision, vision_status, resolve_vision, cleanup | database; the compositor, which changes on its own | a marker read, a subprocess call, then an update; minting while Vision is stopped; window addresses that are reused |
| Clipboard (`core.py` 527-550, `service.py` 182-196) | the clipboard, table `clipboard_history`, pending timers | clipboard_set, clipboard_get, schedule_clipboard_clear | compositor clipboard shared with all programs | compare, then clear; timers lost with the daemon |
| Daemon lifecycle (`service.py` 692-823, `cli.py` 36-60 and 216-275, `security.py` 44-58, `Service.qml` 50-87) | runtime.json, key, certificate, the port, watch_network's memory | serve, shutdown, watch_network, restart | files, port, pids | two daemons, a killed daemon, first start of two processes, network changes; it must come back |
| Shell service and Vision overlay (`Service.qml` 36-136) | `ready`, `status`, `visionActive`, `visionMarkers`: the last answers | refresh, refreshVision, the output and the exit of the daemon | `portal status` and `portal vision status` as processes, the daemon as a child, runtime.json, the panel's commands | answers out of order, late, empty or cut short, or about another daemon |
| Desktop requests (`service.py` 26-63 and 304-441, `backend.py`) | the requests under way; windows, focus, pointer, clipboard, temporary files of the desktop | the TLS handshake, body_json, do_POST, the actions on windows, pointer, screenshots, context | the accept loop, one thread a request, programs one after another | a handshake that stalls, a window that changes between two programs, a step that fails after another one took effect |
| Phone web app (`app.js` 9-36, 61-91 and 94) | token and credential of each page, localStorage, calls in flight | bootstrap, pair, poll, saveSession, resume, refresh, visionSelect and the other controls, logout on a 401 | HTTP, one answer at a time, in any order | lost and late answers, polls that do not wait for the one before, two pages with one store, a 401 that is not about the session |
| Device presence (`core.py` 270-272, 298-324) | `last_seen` columns | authenticate, resume, devices | database | a revoked device that still counts as connected |
| Route selection (`service.py` 547-632) | none | lan_ip | `ip` | order of routes, stale sources |
| Panel, bar widget, command line, doctor, QR codes, scripts | none that outlives a call | | | presentation, parsing and I/O |

What makes the components correct:

* pairing: a secret admits one request; nobody has access without a decision of the
  operator; a decision is final; a session that was ended stays ended; a device
  that was revoked stays out until it is approved again;
* inbox: rows and files agree, no file is overwritten, an expired item loses row
  and file, a download sends the item that was asked for, partial files go;
* vision: a marker is resolved once, for the window it was drawn on, and is deleted when
  Vision is stopped;
* clipboard: a secret is cleared when its time has come and nothing else is;
* lifecycle: at most one daemon serves, runtime.json names it, and it comes back;
* shell service: markers do not come back after Vision stopped, and what it shows of Vision
  and of the daemon becomes true, although a second daemon writes the same runtime.json;
* desktop requests: a request that is refused leaves nothing, one that fails leaves only
  what the user was told of, an action reaches the window it was meant for, every request
  is answered;
* phone: its credential is the one the desktop has, a trusted phone gets in without
  scanning again, an approval is collected, and no page drops a session that works.

## 2. Modules

| module | what it is |
|---|---|
| `Tables` | SQLite tables as functions from primary keys to rows, with the effects of INSERT, UPDATE and DELETE |
| `AccessControl` | the abstract promise of pairing: phones ask, the operator decides each request once, trusted phones use the desktop |
| `PortalAuth` | pairing and sessions, with every statement that stands alone as a step |
| `PortalAuthProofs` | theorems about `PortalAuth` and their proofs |
| `PortalInbox` | the inbox: directory, partial files, table |
| `PortalInboxProofs` | theorems about `PortalInbox` and their proofs |
| `PortalVision` | the setting, the markers, the windows |
| `PortalVisionProofs` | theorems about `PortalVision` and their proofs |
| `PortalLifecycle` | daemons and commands that share runtime.json, the server key, the certificate and the port |
| `PortalLifecycleProofs` | theorems about `PortalLifecycle`, and about `RouteSelect`, which finds its addresses, and their proofs |
| `PortalClipboard` | the clipboard, the history of previews, the timers that clear secrets |
| `PortalClipboardProofs` | theorems about `PortalClipboard` and their proofs |
| `PortalShell` | the shell service: two pollers, the daemon's output, the overlay |
| `PortalShellProofs` | theorems about `PortalShell` and their proofs |
| `PortalDesktop` | requests of a phone, carried out tool by tool on a desktop that changes |
| `PortalDesktopProofs` | theorems about `PortalDesktop` and their proofs |
| `PortalPhone` | pages of a phone with their calls in flight, against the server's sessions |
| `PortalPhoneProofs` | theorems about `PortalPhone` and their proofs |
| `RouteSelect` | which address is advertised, over listings the kernel changes |
| `MCPortalAuth`, `MCPortalInbox`, `MCPortalVision`, `MCPortalLifecycle`, `MCPortalClipboard`, `MCPortalDesktop`, `MCPortalPhone`, `MCRouteSelect` | instances for TLC; `PortalShell` needs only its `.cfg` |

### PortalAuth

A table is a variable of its own name. A row keeps what the operations test: times,
flags, status, capability sets; digests are the secrets themselves. A phone is its
public id (the UNIQUE column of `devices`); rows of `devices` are never deleted, so
the public id also stands for the device id. An approval derives the session token
and the device credential from the request (`security.derive`), so the request id
stands for both: this is what makes "the token comes back" expressible.

`job[a]` is what process `a` remembers between two of its statements. An operation
whose read and write are not one transaction is two or three actions:

| code | actions |
|---|---|
| start_pairing | `StartPairing` |
| request_pair | `RequestPairRead` (SELECT and checks), `RequestPairWrite` (UPDATE and INSERT, one transaction) |
| decide_pair, deny | `DenyRead`, `Deny` |
| decide_pair, allow | `ApproveRead`, `FindDevice` (second SELECT), `Approve` (device, session and request in one transaction, with its UNIQUE constraints) |
| poll_pair | `PollPair` |
| resume | `ResumeRead`, `ResumeWrite` |
| authenticate | `Authenticates`, used by `InboxRead` |
| cleanup | `InboxRead` reads the clock, `CleanupWrite` deletes |
| edit_device, disconnect, revoke | `EditDevice`, `Disconnect`, `Revoke` |
| an exception, a kill, the end of the daemon | `Abandon` |

History variables (`drawn`, `admitted`, `consented`, `issued`) record what happened
and guard nothing the code does not guard: `drawn` makes random values fresh.

`AccessControl` is its abstract specification. The mapping: a request is open while
its row is pending or an approval of it is under way, a phone is trusted while its
device is not revoked, it has access while one of its sessions authenticates.

### PortalInbox

`files` maps the paths of the inbox directory to the item whose bytes they hold,
`parts` is the set of items with a partial file, `inbox` the table. `Candidates`
gives the paths `_destination` tries for a name, cut to two (the code tries 10000);
an upload for which all of them exist is not begun. `add_file` is `BeginUpload`,
then `PublishUpload` (rename, clock) or `UploadFails`, then `RecordUpload`; a
discard is `BeginDiscard`, `DiscardFile`, `DiscardRow`; a download `BeginDownload`,
`Download`; cleanup `BeginSweep`, one `SweepFile` or `SweepFails` for each file, `SweepRows`. A file
that cannot be removed stays, and its row goes (`store.py` 112-117).
`Interrupt` ends a process anywhere and leaves the directory as it is. `strays`
records the items an interruption hit between directory and table, and those whose
row was inserted after they had expired.

### PortalVision

`vision` is the setting, `markers` the table, `desktop` what the compositor shows
(address to window; addresses are reused, windows are not). Hyprland tells windows apart by
their stable ids, so a window stands for its id; for those in `Unnamed` the compositor gives
none, and `backend.py` 55 keeps the empty string. A switch reads (`Switch`, `Toggle`), writes
the setting (`SetVision`) and erases the markers (`EraseMarkers`). A status command reads the
setting (`BeginStatus`), picks the session, the clock and the windows (`Survey`), and
inserts one marker after another (`MintMarker`). A resolution reads the marker
(`ReadMarker`), asks for the window (`FindWindow`), marks it used (`UseMarker`) and
looks the window up again (`WindowDetail`). `MarkedWindow` is the check of `core.py` 669-671:
the window at the address is the one the marker was drawn on, or the marker has no stable id
and whatever is there will do. `fresh`, which `FindWindow` puts into the thread's memory, says
whether the marker's own window stood there when hyprctl was asked: the properties tell apart
what was replaced before that and after. `leftovers` records the markers that stopping
Vision did not delete: those inserted while it was off, and those there when a process ended
between the setting and the DELETE.

### PortalLifecycle

`proc[p]` is the step process `p` is at and what it remembers. Daemons are named by
who launches them, the shell service or somebody at a terminal; the pid in
`runtime` is that name while the process runs and `Gone` after it ended. `tls` holds
the key and the certificate and the two temporary files they are made in. An
identity, a key with its certificate, is one that no file and no process holds when
it is generated; openssl never runs out of them, so `Identities` is a bound.

| code | actions |
|---|---|
| core() and load_or_create_key | `LaunchService`, `LaunchTerminal`, `LaunchCommand` (the base URL), `ReadKey`, `CreateKey`, `WriteKey` |
| serve in `cli.py` | `Look` (the address), `Announce` (runtime.json), `Leave` and `Unlink` (the finally clause) |
| serve in `service.py` | `Bind`, `Load`, `Watch` (one look of watch_network), `Close` |
| ensure_certificate | `Check`, `Clean`, `GenerateKey`, `GenerateCertificate`, `MoveKey`, `MoveCertificate` |
| outside | `MoveNetwork`, `Age` (the certificate comes into its renewal window), `Interrupt` (a kill, an exception, a failure of openssl, a signal) |

An exception takes a daemon that has written runtime.json through the finally clause
(`Raise`); a kill does not (`Exit`). `portal pair` stands for every command that
makes a certificate, the other commands end after the server key.

### PortalClipboard

A transfer is the HTTP thread that runs clipboard_set and then the timer it starts:
`Begin` (wl-copy and the clock), `Record` and `Trim` (two transactions) for a text
that is no secret, `Answer` for a secret, whose timer is `Fire` (wl-paste and the
comparison) and `Clear` (wl-copy of nothing). `Pasted` is what reading the clipboard
makes of a text: subprocess in text mode changes foreign line ends, so such a text
never equals itself. `OtherCopies` stands for all other programs and for the inbox
actions `copy` and `open`. `Interrupt` is a tool that fails, or the daemon's end, which
takes all timers with it.

### RouteSelect

`routes` and `interfaces` are what `ip` lists; each action changes one entry. `Choice`
is select_default_route_address: of the `Usable` routes, those its tests do not skip, it takes
the one that `Precedes` all others in the order of its sort (`Chosen`), and `SourceOf` picks
among the `Candidates` of its device, the `First` in the listing where the code takes the first.
`Own`, `Live` and `Best` say the same declaratively, and the properties compare the
two. `PortalLifecycle` takes the result as `network`.

### PortalShell

`statusProc` and `visionProc` are the two processes Service.qml starts: idle, asked, and
then an answer that is complete, empty (the command failed) or garbled (it was killed).
`portal status` looks for the daemon first and at the setting last, so it is `ReadRuntime`
and then `ReadStatus`; `portal vision status` is `ReadVision`. `StatusFinished` and
`VisionFinished` are the two onStreamFinished handlers, with what an exception in them leaves
undone. `ReadyLine` and `DaemonExits` are the handlers of the daemon's process; the last
line may be read after the exit.

`portal status` does not look at the service's daemon but at runtime.json: `Running` is
active_runtime, which wants the process named there to live. There are two daemons, the
service's own ("child") and one launched by hand ("other"). Each truncates the file (`Launch`),
writes it (`Announce`), may come to serve (`Serve`; for the other one this is nothing
the service sees, nor is whether its port is free), and at its end removes the file if it finds its
own pid there: `Leave` is the look, `DaemonExits` the unlink and the end, or a kill. A pid that
runtime.json still names after its process ended is not running. `intruded` records that the
other daemon was at the file since the child was launched.

`relit` counts how often a marker window became visible since Vision was switched off.
`Switch` is anybody who writes the setting: `PortalVision` has the statements of that, and
`MarkersFor` is all that is kept of `vision_status` here.

### PortalDesktop

A request is a program: `Plan` gives its steps in the order of do_POST and the back end,
`Required` its capabilities, and `Continue` is the one step at the head of what is left to
do. `Accept` and `Handshake` are get_request, which does the handshake before the next
connection is accepted. A request is then "sending": its thread reads the body to the end
(`ReadBody`, or `BodyFails` when it is cut short or no JSON object) before it authenticates the
sender. A step of `Fallible` may fail before it did anything
(`StepFails`); a program that did its work may be taken for failed by its time limit
(`Ran`). After a failure do_POST answers with an error and the remaining steps are not taken.
Windows have an address, which is reused, and an identity, which is not; the phone lists
windows at some time (`known`) and names their address later. `OpenWindow`, `CloseWindow`,
`SwitchFocus` and `MovePointer` are the user, `EditDevice` and `EndSession` the operator,
`Kill` is the end of the daemon. History variables (`known`, `acted`, `turned`, `pushed`,
`crossed`) record which window was meant and reached, when the focus moved, and all the
movement the pointer was asked for.

| code | kinds and steps |
|---|---|
| text, Continue on PC, open on PC | `Store`, then `Copy` or `Press` |
| clipboard, keys, media, audio, launch, click | `Copy` or `Press` |
| close, arrange | `Find` (window_detail), `Act` (the dispatcher) |
| Take This | `Find`, `FocusWindow`, `AuthenticateAgain`, `Context`, `Keep_` |
| move | `ReadCursor`, `Point` |
| screenshot | `Temporary`, `Grim`, `Keep_`, `Remove` |

### PortalPhone

`page[p]` is what a page keeps in its variables, `store` localStorage, `calls` the
calls in flight with their answers. bootstrap is `Load` and then the three calls it waits
for in turn, `BootDone`, `ResumeDone` and `StateDone` (kind `enter`); pair is the call `ask`
and the polls of its interval; refresh is the call `state`. An interval does not wait for the
answer of the last time (`app.js` 36 and 94), so several polls for one request, and several
refreshes, can be in flight at once and be answered in any order; `nth` tells them apart, and
`MaxPolls` and `MaxRefreshes` bound how many there are at a time.

`Tap` is a control on a page that shows the desktop. All controls send a call with the page's
session and refresh afterwards or do not, which is what a call of kind `state` does here; only
the selection of a Vision marker is a kind of its own, `select`, because the server answers it
with a 401 when the marker is unknown, used or expired, although the session is accepted
(`core.py` 658-663): `ServeSelect` gives that answer ("spent"), and `AfterAnswer`, api's
treatment of a 401, drops the session for it as for any other. `SelectDone` sends the call
that ends Vision, or the refresh after it.

`Saved` is saveSession. A page that is loaded anew forgets its calls, and the
server answers them all the same (`Orphans`). The server's side keeps of `PortalAuth` what a
phone can tell apart: the state of each request, the device's credential, whether it is
revoked and the sessions that work; resume is two steps, since a revocation between them
matters. A request stands for the token and the credential derived from it, as there. Time is
left out: a request or a session may expire at any time. `waits` in a page is the request whose
decision it has not been told yet. History variables: `collected`
(credentials saved), `rivals` (a request was approved while the phone could still save another,
`Savable`), `overtook` (a revocation between the steps of a resume), `upset` (something went
wrong since the page started).

`AccessControl` is the abstract specification of this server, too, with the phone as the only
one: a request is open while it is pending, the phone is trusted while its device is not
revoked, and has access while some token is accepted. Two models of one server, which differ
in what they keep of it, so keep the same promise.

## 3. Runs

`cd tla && tlc -workers 2 -config <run>.cfg <module>.tla`. The module is the `MC` module where
there is one. The runs of `PortalAuth`, `PortalInbox`, `PortalVision`, `PortalClipboard`,
`PortalDesktop` and `PortalPhone` disable the deadlock check: their clocks, random values,
requests or page loads are bounded, so the models come to an end where the program would
not. The daemon's lifecycle, the shell service and the network never end, and their runs
check that they do not.

| run | property | what it shows |
|---|---|---|
| auth_one_operator | TypeOK, ReuseOnlyByOverlap, AccessNeedsDecision, DecisionIsFinal, TokenDiesOnce, ImplementsAccessControl | two threads, one command at a time: what pairing promises holds |
| auth_secret_reuse | SingleUse *violated* | two overlapping requests use one secret |
| inbox_concurrent | TypeOK, RowsAndFilesAgree, ExpiredItemsGo | overlapping and interrupted operations, files that cannot be removed, names of their own |
| inbox_same_name | NothingOverwritten *violated* | two overlapping uploads of one name |
| vision_switching | TypeOK, ReuseOnlyByOverlap, ReplacedAreRejected, StopDeletes | resolutions, switching, polling, cleanup, interruptions, windows with and without a stable id that are replaced |
| vision_single_use | SingleUse *violated* | two overlapping resolutions use one marker |
| lifecycle_restarts | TypeOK, RuntimeNamesServer, ServesItsAddress, SettlesAtAddress | the service's daemon, one kill, one command or second daemon, a network that moves, certificates that age: the daemon comes back, at the right address, with a certificate that fits |
| clipboard_transfers | HistoryKeepsNewest, ClearsTransferredText, SecretsGo | three transfers with their timers beside other programs, cleanup and failures |
| routes_change | ChoiceIsDocumented, OnlyBestRouteMatters | every listing of two routes and two devices, and every single change of it |
| shell_polling | NoHiddenMarkers, RelitAtMostOnce, FollowsVision, FollowsDaemon | two pollers whose answers arrive in any order, beside the service's daemon, a second one that shares runtime.json, and Vision that is switched |
| desktop_requests | TypeOK, RefusedLeavesNothing, LeftoversFitAnswer, ReachesMeantWindow, MovesAddUp, EveryRequestEnds | two requests, tool by tool, beside a user, an operator, failing tools, handshakes that fail or never end, bodies that are cut short or never end, and a kill |
| phone_pages | CredentialIsCurrent, RevokedIsNotConnected, TrustedPhoneGetsIn, DropsForOthersOnly, ImplementsAccessControl, PagesCatchUp | two pages of one phone, two approvals, polls that overlap, lost and late answers, a Vision marker or another control, revocations, sessions and requests that expire |

Some properties are conjunctions of named parts, each with its own comment in its module:
`RowsAndFilesAgree` of `ListedItemsHaveTheirFile` and `FilesAreAccountedFor`, `HistoryKeepsNewest`
of `HistoryIsShort` and `NewestAreKept`, `ChoiceIsDocumented` of `ChoiceIsOnBestRoute` and
`StaleSourceFallsBack`, `OnlyBestRouteMatters` of `UnrelatedDevicesAreIgnored` and
`WorseRoutesAreIgnored`, `EveryRequestEnds` of `ReachesThread` and `ThreadEnds`,
`LeftoversFitAnswer` of `ItemsAreAccountedFor` and `ShotsAreRemoved`, `ReachesMeantWindow` of
`HitsListedWindow` and `TakesListedWindow`, `PagesCatchUp` of `ApprovalIsCollected` and
`UnpairedPageRecovers`. The type invariants of `PortalClipboard`, `PortalShell` and
`PortalPhone` are not run but proved.

The three violated properties quote the documents they come from; each is a finding of
PROJECT.json. They share one cause: a value is read (in one transaction, or from the
directory) and relied on in a later one. Pairing secrets and Vision markers are both read
in autocommit mode and consumed by an UPDATE that does not look again; for each of them
`ReuseOnlyByOverlap` says that nothing but such an overlap leads to a second use.

`SettlesAtAddress` leaves out one case, `KeyLost`: a process that dies after it
created server.key and before it wrote the 32 bytes. Every later start reads a short
file and fails to create it again (`security.py` 44-54); without the exclusion TLC
shows a daemon that never serves. `ServesItsAddress` and `RuntimeNamesServer` say
what they say while nothing is started by hand: `portal pair` at another address can
slip its certificate between the check and the load of a daemon, and a second daemon
overwrites runtime.json before it finds the port taken. That the certificate on disk
need not be the one a running daemon has loaded, until it restarts, is in the model and no
property forbids it; README.md 44 computes its fingerprint from the disk.

Other properties state what a document says with the exception the code makes, and
hold. The exceptions are part of what the runs show:

| property | exception | document |
|---|---|---|
| ReuseOnlyByOverlap (both) | requests that overlap share a pairing secret, resolutions that overlap share a marker: the two SingleUse runs | docs/ARCHITECTURE.md 26 and SECURITY.md 18; SECURITY.md 41 and README.md 82 |
| RowsAndFilesAgree | an interrupted upload leaves its partial file for ever; a file that could not be removed stays | README.md 56 |
| ReplacedAreRejected | a window that is replaced after hyprctl was asked; a marker whose window has no stable id, for which nothing is compared | SECURITY.md 41 |
| StopDeletes | markers inserted after the stop by a status command under way, and markers whose deletion was interrupted, live until they expire (DarkWithinTTL, section 4) | SECURITY.md 41 |
| ClearsTransferredText | a copy made between the comparison and the clearing is lost | SECURITY.md 37 |
| HistoryKeepsNewest | an eleventh preview lives until the thread that inserted it trims | SECURITY.md 37 and docs/PRIVACY.md 15 ("at most ten") |
| SecretsGo | texts that do not read as they were written; a daemon and tools that fail | |
| RelitAtMostOnce | one answer that was under way when Vision stopped lights the overlay again | README.md 82 |
| FollowsDaemon | another daemon was at runtime.json since the service's was launched: it overwrites the entry, or removes it, and the one that serves is then shown as stopped for good; while it lives itself it is shown as ready | |
| RevokedIsNotConnected | a resume that was under way (`overtook`) opens a session all the same, which works once the phone is trusted again | SECURITY.md 22 |
| CredentialIsCurrent | a request is approved while the phone can still save another, by a poll of another page or a second, late poll of the same one: the one answered last stays | |
| DropsForOthersOnly | a Vision marker that is not valid is answered with a 401 as well, and the page drops the session it was sent with; a session that survived a revocation (`overtook`) | |
| ReachesMeantWindow | the window was closed, or the focus moved, in between | README.md 17 |
| MovesAddUp | of two movements that overlap one is lost | |
| EveryRequestEnds | a handshake that does not end keeps everybody waiting; a request that is never sent to its end keeps its own thread | |

**Bounds.** The threats are overlaps of two operations, so two actors of the kind
in question are enough to produce them and a third only repeats one. Random values
are the resource that limits a behaviour: one secret and two
requests let a secret be reused, a phone be approved twice, and a revoked phone come
back; overlapping decisions are covered by the theorem AccessDecided, for any number
of commands. Capability
sets are one element, which distinguishes "granted" from "not". The clock needs to
pass an expiry after something was read: two ticks for a time to live of one, one
tick for a time to live of zero. Inbox: two items; in inbox_same_name two names that compete,
with three paths of which they share one, in inbox_concurrent one name for each item. Vision: one
address and two windows, one of them without a stable id, replace each other there, one marker
is resolved by two threads. `MaxKills` bounds interruptions to one, and in inbox_concurrent, where
it also counts files that could not be removed, to two. Symmetry is used for
the auth runs, whose constants the modules never tell apart and which check no liveness. In the lifecycle two addresses, one
interruption and one thing started by hand suffice for the hazards it lists; five
identities never run out (GenerateKey would wait, and the run checks deadlock and progress); network and age change without a bound. Three transfers
with a history of one preview let a preview be trimmed by a thread that inserted
before it, and two timers meet. Two routes, two devices and addresses of two bits, in
subnets of one bit, have every combination of order, source and subnet that the
selection tells apart.

In the shell two switches turn Vision on and off again, or off a second time, with an answer under
way at each, and one command fails (theorems HiddenMarkersGo and RelitOnce are for any number of
both); the two daemons come and go without a bound. At the desktop two requests
meet, one handshake, tool or daemon fails or one edit is made, and two windows share two
addresses, so that an address is reused. `Used` has one kind of each shape of plan: an item
that is stored and then copied, a window found and acted on, a window taken, a movement, a
screenshot, and a single step, for which keys stand; the other kinds differ from these in
their capability only. Movements are -1 and 3 with a limit of 2, so that one is clamped and
two that overlap go opposite ways; the user moves the pointer only while it is below zero.
The phone has two pages, two requests, two page loads and one mishap: both pages collect one
approval each, or one page is loaded before and one after a revocation. `MaxPolls` lets two polls
of page a be in flight for one request, which is what it takes for a late one to bring the older
credential back, and one of page b; one timed refresh of a page for each session is in flight at a time
(`MaxRefreshes`), beside the one a poll or a control sends, and one control is used, on page b
(`MaxTaps`, `Tapped`). The theorems are for any number of all of these. A fresh token is enough
because a token nobody holds is drawn again. A session that survived a revocation, which
DropsForOthersOnly excepts, takes more page loads or mishaps than the run has; the theorem DropsForOthers
includes it.

**Fairness.** `PortalInbox!FairSpec`: the clock ticks; an operation that has begun
goes on, since threads are scheduled and a sender sends or gives up; a listing
happens again and again, since a phone that shows Portal refreshes every 5 s
(`app.js` 94). The listing has strong fairness because its thread may be busy in
between. `PortalVision` checks safety only and assumes no fairness.
`PortalClipboard!FairSpec`: the clock, the threads and their timers.
`PortalLifecycle!FairSpec`: processes go on, watch_network looks every 3 s, and the
service launches its daemon again 3 s after it ended (`Service.qml` 74-87); nobody has
to run a command.
`PortalShell!FairSpec`: the timers of Service.qml (123-136) go off, the commands end, and
their output is read; nobody has to launch the daemon or switch Vision.
`PortalDesktop!FairSpec`: the threads go on with a request that they have read, and the accept loop
takes a connection that keeps waiting. Weak fairness is enough for the latter because each request
is made once: a loop that others keep busy is one that is in a handshake for good. Of the phone
nothing is assumed: `Handshake`, `HandshakeFails`, `ReadBody` and `BodyFails` have no fairness, since neither
the handshake (`service.py` 39-52) nor the reading of the body (`service.py` 162-170) has a limit in
time. `ReachesThread` says instead that a request that never gets a thread waits for a
handshake that never ends, and `ThreadEnds` that nothing else, no failure of a
handshake, a program or another request, keeps a request that was read from its answer.
`PortalPhone!FairSpec`: the intervals of an open page go off (`app.js` 36 and 94) and what they
send is answered unless it is lost, which may happen `MaxMishaps` times. Nobody has to load a
page or decide.

**Assumption OneOperator.** `DecisionIsFinal`, `TokenDiesOnce` and the refinement
hold when one command at a time decides about devices. The panel sees to that for
its own commands (`Panel.qml` 45-50); a terminal beside the panel breaks it: of two
commands that overlap, the later overwrites the decision of the earlier one.

**Interruptions and competing names.** inbox_concurrent has no competing names. Competing names
are the subject of the theorems SerialFilesAgree, SerialOwnDownloads and SerialNeverOverwritten,
for operations that neither overlap nor are interrupted. Interruptions together with them break
DownloadsAreOwn, which is proved but checked by no run: a discard killed between file and row
leaves a row whose path a later upload of that name takes over. PROJECT.json lists it as a hazard.

## 4. Proofs

`tlapm <module>` for each of the eight modules `...Proofs`. A theorem holds for every value
of the constants its module's ASSUME admits, and so for any number of actors, rows, texts and
failures, and without the bounds of the runs: a bound like `MaxTime` or `MaxKills` is any
natural number there.

| module | what is assumed of the constants |
|---|---|
| `PortalAuth` | times are naturals, random values of different kinds differ, a thread is not a command |
| `PortalInbox` | times are naturals, a thread is not a process, a row without a file has no path; FilesAgree, OwnDownloads and NeverOverwritten also assume `OwnNames`, the theorems named Serial... `[]Serial`, below |
| `PortalVision` | times are naturals, a thread is not a process, no session is called none; any windows may be without a stable id |
| `PortalLifecycle` | the service is not a terminal, a command is not a daemon, what stands for nothing is nothing else |
| `RouteSelect` | lengths and metrics are naturals, routes and sources name addresses of the given width; what stands for none and loopback are not among them |
| `PortalClipboard` | reading changes a text with foreign line ends into none of the others; the empty text has none |
| `PortalShell` | bounds are naturals |
| `PortalDesktop` | no window and no request is called none, there is an address, movements are integers and their limit is a natural |
| `PortalPhone` | answers, tokens of requests and tokens of resume differ, no page is called none, bounds are naturals |

| theorem | property | argument |
|---|---|---|
| PortalAuthProofs!TypeCorrect | TypeOK | inductive as it stands, action by action |
| SecretReuse | ReuseOnlyByOverlap | `ReuseInv`: a secret that was admitted is consumed in the table or gone from it, and was drawn, so it cannot be inserted again; a thread about to consume a secret has not admitted it. Cleanup deletes rows, which is why "gone" is needed |
| SingleUseOneThread | SingleUse | from SecretReuse, when all threads are one |
| AccessDecided | AccessNeedsDecision | `ConsentInv`: also approvals under way, approved rows and resumes under way go back to a consent; needed because a session is inserted from what was read earlier |
| DecisionsFinal | DecisionIsFinal, under OneOperator | `DecisionInv`: the request a command is about is pending or gone |
| TokensDieOnce | TokenDiesOnce, under OneOperator | `DecisionInv`: a request that has had a session is never pending again, and a request under decision has had none |
| Implements | ImplementsAccessControl, under OneOperator | `RefineInv` beside DecisionInv: a decision is about the phone that made the request, a cleanup read its clock in the past, tokens in the table were issued. Then a statement is one step of AccessControl or none: the second half of request_pair is Ask, Deny and Approve decide, resume's INSERT is Resume, revoking, disconnecting, editing, expiring and sweeping are Revoke, Lapse or a stutter (one lemma for each kind of step) |
| TrustTakesRequest, RequestsStayClosed | (how a phone gets in, under OneOperator) | from Implements: of the steps of AccessControl only Allow lets a phone in, and it closes a request; only Ask opens one, and it takes one that was not drawn before |
| PortalInboxProofs!TypeCorrect | TypeOK | inductive |
| FilesAgree | RowsAndFilesAgree, under OwnNames | `InboxInv`, by rely and guarantee: what each step of a thread knows of its files and rows (`JobsInv`) survives whatever the others' steps may do (`Grants`: they add files and rows of their own item, and remove files of settled items only) |
| OwnDownloads, NeverOverwritten | DownloadsAreOwn, NothingOverwritten, under OwnNames | from InboxInv: the file a row names holds the bytes of its item, and an upload publishes to a path no other item can have |
| SerialFilesAgree, SerialOwnDownloads, SerialNeverOverwritten | the same three, while `Serial` holds | `AloneInv`: directory and table differ by what the one operation under way has done so far (`RowsAlone`, `FilesAlone`, `PartsAlone`), and what it found when it looked is still so (`StepAlone`): the destination is free, the row still has the file |
| PortalVisionProofs!TypeCorrect | TypeOK | inductive with: only threads resolve |
| ReusedByOverlap | ReuseOnlyByOverlap | `ReuseInv`: a marker that is in the table, being resolved or used was drawn, so it is never inserted anew after cleanup or a stop deleted it |
| ReplacedRejected | ReplacedAreRejected | `ReplaceInv`: a window that was not there when hyprctl was asked is never opened again, so whoever got past the comparison either found the marker's own window in place, or has a marker without a stable id |
| StoppingDeletes | StopDeletes | inductive with TypeOK: while Vision is off, a step that inserts a marker adds it to `leftovers`, and whoever is about to delete the markers (`Erasing`) goes on to delete them, or leaves them behind by an interruption (`StopKeeps`, `OthersErase`) |
| DarkWithinTTL | (the bound for the exceptions of StopDeletes) | `DarkInv`: a marker expires VisionTTL after its status command read the clock, and after the time T no command reads it. `OffFrom` says of the behaviour that Vision is off from T on and that no status command is under way at T; it says nothing of the markers, so the process that switched Vision off may have been killed before it erased them |
| PortalLifecycleProofs!TypeCorrect | TypeOK | inductive, step by step of each process |
| OneServer | (at most one daemon serves) | `PortInv`: from bind to close a daemon holds the port |
| RuntimeNames | RuntimeNamesServer | `RuntimeInv`: the file is right from the moment it is written, before the port is bound, and no command writes it |
| ServesOwnAddress | ServesItsAddress | `IdentityInv`: also the key and the certificate that openssl has written, on both sides of the two moves, are a pair (`IsPair`) made for this daemon's address, whatever one that was killed before it left behind |
| RenewalGoesThrough | (a renewal finds its files, and what is loaded is a pair) | from IdentityInv |
| KeyLostByKill | (`KeyLost` takes an interruption) | `KeyInv`: a key that is created and not written is being written by somebody; two that create it at the same time do not both get to write (O_EXCL) |
| KeyStaysLost | (`KeyLost` lasts) | `KeySteps`: a process reaches the step that writes only from a missing key |
| RouteTypeCorrect | (RouteTypeOK) | inductive |
| ChoosesDocumented, AdvertisesPrivate | ChoiceIsDocumented; (never a public address) | `OrderIsStrict`: the order of the sort is total and strict on positions, so a set of usable routes has a first one (`FirstRoute`, from the well-foundedness of the naturals), and it is a best one (`ChosenIsBest`) |
| BestRouteMatters | OnlyBestRouteMatters | what the choice depends on is the best routes and the addresses of their devices (`ChoiceFacts`), so a step that keeps these keeps it (`UnrelatedStep`, `WorseStep`) |
| PortalShellProofs!TypeCorrect | TypeOK | inductive; a poller whose step is "answered" has the fields of its answer |
| HiddenMarkersGo | NoHiddenMarkers | `RelitInv`, below |
| RelitOnce | RelitAtMostOnce | `RelitInv`: while Vision is on the count is zero; an answer of `portal status` can only keep or empty the list (`ShowKeeps`); an answer of the other poller has markers only when it found Vision on (`Honest`), and one that did so before the stop (`Late`) is the only one that can light the overlay: it exists only while the count is zero, and there is one such process |
| PortalClipboardProofs!TypeCorrect | TypeOK | inductive |
| ClearsOwnText | ClearsTransferredText | inductive with TypeOK: a timer that passed its comparison either sees the clipboard unchanged, or whoever copied put it among the `overtaken` (`CopyOvertakes`), where it stays (`OvertakenStays`) |
| KeepsNewest | HistoryKeepsNewest | `HistoryInv`: a thread inserts once, rows are what was inserted, and a thread that has still to trim, or never will, has inserted; so an INSERT adds one on both sides of HistoryIsShort, and what a DELETE takes has Limit rows before it (cardinalities by FiniteSetTheorems) |
| PortalPhoneProofs!TypeCorrect | TypeOK | inductive; what a call bears depends on its kind (`Call`) |
| RevokedDisconnected | RevokedIsNotConnected | `ResumeInv`: also resumes under way, since what they insert was decided before: while the device is revoked there is one only if it was overtaken, and there is one only if the device was approved once |
| Implements | ImplementsAccessControl | from TypeOK and ResumeInv: approving is Allow, inserting a session is Resume while the device is trusted and a stutter after a revocation, disconnecting and expiring is Lapse, and what only moves answers (`SameServer`) is a stutter |
| TrustedGetsIn | TrustedPhoneGetsIn | `TrustInv`: on a page that nothing upset since it started, bootstrap has sent only what fits: a resume bears the device's credential and its answer is a session that works, and no poll is under way that could replace the credential (`Welcome`, `Fits`) |
| DropsForOthers | DropsForOthersOnly | `HandedInv`: every token a page, localStorage or a call has was handed out after the decision about its request, so no later approval revives it; hence `RefusedInv`: a token that was refused does not work any more; and `DropStep`: only a 401 clears a page's token, and one that is no refusal of the session is about a marker ("spent") |
| CredentialsAgree | CredentialIsCurrent | `SavedInv`: unless there are rivals, the only request the phone can still save, by an answer under way or by a poll that will find it approved, is the one whose credential the device has. An approval that finds another makes rivals (`Savable`); no other step makes a request savable that was not (`SavedKeeps`, `SavedQuiet`), however many polls are in flight; so the poll that saves a credential saves the device's (`CredStep`) |
| PortalDesktopProofs!TypeCorrect | TypeOK | inductive with `Sane`: what is left of a request is a rest of its plan |
| RefusalsLeaveNothing, LeftoversFit | RefusedLeavesNothing, LeftoversFitAnswer | `LeftInv`: at which steps of which plan a request has its item or its screenshot, and that who copied or acted is over. `RequestSteps`: whatever happens, it takes each request through one of six kinds of step |
| MovementsAddUp | MovesAddUp | `PointerInv`: unless two crossed, who is about to move the pointer has read where it is |
| MeantWindowReached | ReachesMeantWindow | `WindowInv`: a window keeps its address, so what has the address the phone knows is that window or one opened after it was closed; and what Take This gave the focus is still in focus unless it was turned |

`OwnNames` says that the paths `_destination` may try for two items are never the same; it
speaks of what people call their files, and run inbox_concurrent has constants of that kind. It cannot be
dropped: run inbox_same_name shows a file overwritten without it. The theorems named Serial...
hold for all names instead, of behaviours in which `Serial` stays true: at most one operation is
going on at any time, whichever thread or process carries it out, while texts arrive and time
passes, and nothing is interrupted or refused. Interruptions cannot be let in:
a discard that ends after its unlink leaves a row whose path the next upload takes.
`OneOperator` is explained in section 3.

Only model-checked: liveness (ExpiredItemsGo, SettlesAtAddress, SecretsGo, FollowsVision,
FollowsDaemon, EveryRequestEnds, PagesCatchUp), which is out of TLAPS's reach, as are ENABLED and
induction over data. The models avoid RECURSIVE operators and, where theorems need it, operators
that are defined by recursion: `RouteSelect` says which route comes first instead of sorting
them. Every invariant and every action property that a passing run checks, and the two
refinements, are proved.

## 5. Not modelled

* Names, texts, formatting, HTTP parsing, headers and origin checks, static files and the
  GET requests that only read, rendering in QML and in the browser: no state the properties
  tell apart. Uploads and downloads by the phone, whose requests do not go through api
  (`app.js` 72 and 84) and do not end a session. What TLS negotiates.
* The 90 s window of `last_seen` (`core.py` 312-316): it makes `connected` narrower than
  "some session works", which `RevokedIsNotConnected` takes it for.
* The parsers of `playerctl`, `busctl` and `wpctl` output (`backend.py`): long, but without
  state; keys, media and audio are one step that may fail in `PortalDesktop`.
* `portal doctor`, the QR code (a call of qrencode), the installation and quality scripts.
* Of the lifecycle: overrides by environment and arguments, plain HTTP, a reader that sees
  runtime.json half written, a pid given to another process.
* The composition of `PortalPhone` with `PortalAuth` statement by statement, because the
  product is beyond TLC: both implement `AccessControl`, which is what the phone relies on, and
  no more of the relation between them is checked. The composition of `PortalShell` with
  `PortalVision`, of which it keeps the setting and the markers: no refinement is checked.

## 6. Plan

Done: all modules of section 2, and the theorems of section 4. What the code has beyond the
modules is listed in section 5.

Worth doing next, in this order:

1. A refinement of `PortalShell`'s setting and markers by `PortalVision`, in the style of
   `AccessControl`, so that RelitAtMostOnce speaks of the markers that are minted.
2. A bound like DarkWithinTTL for the other liveness properties: which step of an operation
   that has begun is the last one, and what it needs.
3. The commands started by hand in ServesItsAddress and RuntimeNamesServer: which of their
   steps suffice to break them, as a weaker hypothesis than `commands = 0`.
