-------------------------- MODULE PortalLifecycle --------------------------
(***************************************************************************)
(* The daemon `portal serve`, from its start to its end and back, and the  *)
(* commands that share files with it: src/portal/cli.py (serve, pair),     *)
(* src/portal/service.py (ensure_certificate, serve, watch_network),       *)
(* src/portal/security.py (load_or_create_key), and the restart timer of   *)
(* src/Service.qml.                                                        *)
(*                                                                         *)
(* A daemon is named by who launches it (the shell service, or somebody at *)
(* a terminal) and a command by its slot; the pid in runtime.json is that  *)
(* name while the process runs and Gone afterwards.  An identity is a TLS  *)
(* key with its certificate, which never equals one generated before.      *)
(***************************************************************************)
EXTENDS Integers, FiniteSets

CONSTANTS
  Service,        \* the daemon Service.qml launches, again and again
  Terminals,      \* daemons launched by hand
  Commands,       \* slots for `portal pair`, `portal status` and the like
  Gone,           \* the pid of a process that has ended
  Addresses,      \* addresses lan_ip can find
  Identities,     \* the identities that exist at one time; enough not to run out
  None,           \* no file, no process, no address
  MaxCommands,    \* bound on what is started by hand, for model checking
  MaxKills        \* bound on the number of interrupted processes

Daemons == {Service} \cup Terminals
Processes == Daemons \cup Commands

ASSUME LifecycleAssumption ==
  /\ MaxCommands \in Nat /\ MaxKills \in Nat
  /\ Daemons \cap Commands = {}
  /\ None \notin Processes \cup Addresses \cup Identities \cup {Gone}
  /\ None \notin [id : Identities, address : Addresses]
  /\ Gone \notin Processes
  /\ Service \notin Terminals

VARIABLES
  network,      \* the address lan_ip finds now
  runtime,      \* runtime.json: [pid, address], or None
  port,         \* who listens on the port, or None
  server_key,   \* server.key: "none", "short" (created, not written), "whole"
  tls,          \* tls.key, tls.crt and the two .new files
  aging,        \* identities whose certificate is due for renewal
  proc,         \* what each process is doing
  by_hand,      \* the daemons launched at a terminal so far
  commands, kills

vars == <<network, runtime, port, server_key, tls, aging, proc, by_hand, commands, kills>>

-----------------------------------------------------------------------------
Certificate == [id : Identities, address : Addresses]

Tls == [key : Identities \cup {None}, cert : Certificate \cup {None},
        new_key : Identities \cup {None}, new_cert : Certificate \cup {None}]

Off == [step |-> "off"]

Process ==
  {Off}
  \cup [step : {"key", "create", "write"}, address : Addresses, pair : BOOLEAN]
  \cup [step : {"look"}]
  \cup [step : {"announce", "bind", "check", "clean", "keygen", "move_key",
                "move_cert", "load", "close", "leave", "unlink"},
        address : Addresses]
  \cup [step : {"certgen"}, address : Addresses, id : Identities]
  \cup [step : {"serve"}, address : Addresses, loaded : Certificate,
        mismatch : Addresses \cup {None}]

TypeOK ==
  /\ network \in Addresses
  /\ runtime \in [pid : Daemons \cup {Gone}, address : Addresses] \cup {None}
  /\ port \in Daemons \cup {None}
  /\ server_key \in {"none", "short", "whole"}
  /\ tls \in Tls
  /\ aging \subseteq Identities
  /\ proc \in [Processes -> Process]
  /\ by_hand \subseteq Terminals
  /\ commands \in 0..MaxCommands /\ kills \in 0..MaxKills

Init ==
  /\ network \in Addresses
  /\ runtime = None
  /\ port = None
  /\ server_key = "none"
  /\ tls = [key |-> None, cert |-> None, new_key |-> None, new_cert |-> None]
  /\ aging = {}
  /\ proc = [p \in Processes |-> Off]
  /\ by_hand = {} /\ commands = 0 /\ kills = 0

Become(p, what) == proc' = [proc EXCEPT ![p] = what]
Step(p, step) == Become(p, [proc[p] EXCEPT !.step = step])

\* The process ends: its pid goes, and with it its hold on the port.
Ended(file, p) ==
  IF file # None /\ file.pid = p THEN [file EXCEPT !.pid = Gone] ELSE file

Exit(p) ==
  /\ Become(p, Off)
  /\ runtime' = Ended(runtime, p)
  /\ port' = IF port = p THEN None ELSE port

\* An exception: a daemon that has written runtime.json goes through the finally
\* clause of main, every other process ends.
BeforeTry == {"key", "create", "write", "look", "announce"}

Raise(p) ==
  IF p \in Daemons /\ proc[p].step \notin BeforeTry
    THEN /\ Become(p, [step |-> "leave", address |-> proc[p].address])
         /\ UNCHANGED <<runtime, port>>
    ELSE Exit(p)

-----------------------------------------------------------------------------
(***************************************************************************)
(* Starting: core() and load_or_create_key.                                *)
(***************************************************************************)
Advertised == IF runtime # None /\ runtime.pid # Gone
                THEN runtime.address ELSE network

\* Every process computes the base URL first.
Launch(p, pair) ==
  /\ proc[p] = Off
  /\ Become(p, [step |-> "key", address |-> Advertised, pair |-> pair])
  /\ UNCHANGED <<network, runtime, port, server_key, tls, aging, kills>>

LaunchService == Launch(Service, FALSE) /\ UNCHANGED <<by_hand, commands>>

LaunchTerminal(d) ==
  /\ commands < MaxCommands
  /\ commands' = commands + 1
  /\ by_hand' = by_hand \cup {d}
  /\ Launch(d, FALSE)

LaunchCommand(c) ==
  /\ commands < MaxCommands
  /\ commands' = commands + 1
  /\ \E pair \in BOOLEAN : Launch(c, pair)
  /\ UNCHANGED by_hand

\* A daemon goes on to its address, `pair` to the certificate; other commands
\* have nothing more to do with these files.
AfterKey(p) ==
  CASE p \in Daemons -> [step |-> "look"]
    [] p \in Commands /\ proc[p].pair ->
         [step |-> "check", address |-> proc[p].address]
    [] OTHER -> Off

ReadKey(p) ==
  /\ proc[p].step = "key"
  /\ CASE server_key = "whole" ->
            Become(p, AfterKey(p)) /\ UNCHANGED <<runtime, port>>
       [] server_key = "none" -> Step(p, "create") /\ UNCHANGED <<runtime, port>>
       [] server_key = "short" -> Raise(p)
  /\ UNCHANGED <<network, server_key, tls, aging, by_hand, commands, kills>>

\* O_EXCL: the file must not exist.
CreateKey(p) ==
  /\ proc[p].step = "create"
  /\ IF server_key = "none"
       THEN /\ server_key' = "short"
            /\ Step(p, "write")
            /\ UNCHANGED <<runtime, port>>
       ELSE Raise(p) /\ UNCHANGED server_key
  /\ UNCHANGED <<network, tls, aging, by_hand, commands, kills>>

WriteKey(p) ==
  /\ proc[p].step = "write"
  /\ server_key' = "whole"
  /\ Become(p, AfterKey(p))
  /\ UNCHANGED <<network, runtime, port, tls, aging, by_hand, commands, kills>>

-----------------------------------------------------------------------------
(***************************************************************************)
(* The daemon takes its address, says so, and binds the port.              *)
(***************************************************************************)
Look(d) ==
  /\ proc[d].step = "look"
  /\ Become(d, [step |-> "announce", address |-> network])
  /\ UNCHANGED <<network, runtime, port, server_key, tls, aging, by_hand, commands, kills>>

LooksAgain(d) == [pid |-> d, address |-> network]
NoAddressGiven(d) == [pid |-> d, address |-> None]
RuntimeOf(d) == [pid |-> d, address |-> proc[d].address]

Announce(d) ==
  /\ proc[d].step = "announce"
  /\ runtime' = RuntimeOf(d)
  /\ Step(d, "bind")
  /\ UNCHANGED <<network, port, server_key, tls, aging, by_hand, commands, kills>>

Bind(d) ==
  /\ proc[d].step = "bind"
  /\ IF port = None
       THEN port' = d /\ Step(d, "check") /\ UNCHANGED runtime
       ELSE Raise(d)
  /\ UNCHANGED <<network, server_key, tls, aging, by_hand, commands, kills>>

-----------------------------------------------------------------------------
(***************************************************************************)
(* ensure_certificate, for daemons and for `portal pair`.                  *)
(***************************************************************************)
AnyAddress(address) ==
  /\ tls.key # None /\ tls.cert # None
  /\ tls.cert.id = tls.key /\ tls.cert.id \notin aging

Compatible(address) ==
  /\ tls.key # None /\ tls.cert # None
  /\ tls.cert.id = tls.key /\ tls.cert.id \notin aging
  /\ tls.cert.address = address

Check(p) ==
  /\ proc[p].step = "check"
  /\ Step(p, IF Compatible(proc[p].address) THEN "load" ELSE "clean")
  /\ UNCHANGED <<network, runtime, port, server_key, tls, aging, by_hand, commands, kills>>

Clean(p) ==
  /\ proc[p].step = "clean"
  /\ tls' = [tls EXCEPT !.new_key = None, !.new_cert = None]
  /\ Step(p, "keygen")
  /\ UNCHANGED <<network, runtime, port, server_key, aging, by_hand, commands, kills>>

\* Identities that some file or process holds.
InUse ==
  {tls.key, tls.new_key}
    \cup {c.id : c \in {tls.cert, tls.new_cert} \ {None}}
    \cup {proc[p].id : p \in {p \in Processes : proc[p].step = "certgen"}}
    \cup {proc[d].loaded.id : d \in {d \in Daemons : proc[d].step = "serve"}}

\* openssl writes the new key, then the certificate.
GenerateKey(p) ==
  /\ proc[p].step = "keygen"
  /\ Identities \ InUse # {}
  /\ LET id == CHOOSE id \in Identities : id \notin InUse IN
     /\ tls' = [tls EXCEPT !.new_key = id]
     /\ aging' = aging \ {id}
     /\ Become(p, [step |-> "certgen", address |-> proc[p].address, id |-> id])
  /\ UNCHANGED <<network, runtime, port, server_key, by_hand, commands, kills>>

GenerateCertificate(p) ==
  /\ proc[p].step = "certgen"
  /\ tls' = [tls EXCEPT !.new_cert = [id |-> proc[p].id,
                                      address |-> proc[p].address]]
  /\ Become(p, [step |-> "move_key", address |-> proc[p].address])
  /\ UNCHANGED <<network, runtime, port, server_key, aging, by_hand, commands, kills>>

\* Both new files must be there for chmod.
MoveKey(p) ==
  /\ proc[p].step = "move_key"
  /\ IF tls.new_key # None /\ tls.new_cert # None
       THEN /\ tls' = [tls EXCEPT !.key = tls.new_key, !.new_key = None]
            /\ Step(p, "move_cert")
            /\ UNCHANGED <<runtime, port>>
       ELSE Raise(p) /\ UNCHANGED tls
  /\ UNCHANGED <<network, server_key, aging, by_hand, commands, kills>>

MoveCertificate(p) ==
  /\ proc[p].step = "move_cert"
  /\ IF tls.new_cert # None
       THEN /\ tls' = [tls EXCEPT !.cert = tls.new_cert, !.new_cert = None]
            /\ Step(p, "load")
            /\ UNCHANGED <<runtime, port>>
       ELSE Raise(p) /\ UNCHANGED tls
  /\ UNCHANGED <<network, server_key, aging, by_hand, commands, kills>>

\* load_cert_chain refuses a key and a certificate that do not belong together.
\* `portal pair` reads the certificate for its fingerprint and ends.
Load(p) ==
  /\ proc[p].step = "load"
  /\ IF p \in Daemons /\ tls.key # None /\ tls.cert # None /\ tls.cert.id = tls.key
       THEN /\ Become(p, [step |-> "serve", address |-> proc[p].address,
                          loaded |-> tls.cert, mismatch |-> None])
            /\ UNCHANGED <<runtime, port>>
       ELSE Raise(p)
  /\ UNCHANGED <<network, server_key, tls, aging, by_hand, commands, kills>>

-----------------------------------------------------------------------------
(***************************************************************************)
(* Serving, watch_network, and the end.                                    *)
(***************************************************************************)
Forgets(d) == None
Mismatch(d) == IF network = proc[d].address THEN None ELSE network

\* Two looks in a row that agree on another address stop the daemon.
Watch(d) ==
  /\ proc[d].step = "serve"
  /\ IF Mismatch(d) # None /\ Mismatch(d) = proc[d].mismatch
       THEN Become(d, [step |-> "close", address |-> proc[d].address])
       ELSE proc' = [proc EXCEPT ![d].mismatch = Mismatch(d)]
  /\ UNCHANGED <<network, runtime, port, server_key, tls, aging, by_hand, commands, kills>>

Close(d) ==
  /\ proc[d].step = "close"
  /\ port' = None
  /\ Step(d, "leave")
  /\ UNCHANGED <<network, runtime, server_key, tls, aging, by_hand, commands, kills>>

\* The finally clause of main: is runtime.json about this process?
Leave(d) ==
  /\ proc[d].step = "leave"
  /\ IF runtime # None /\ runtime.pid = d
       THEN Step(d, "unlink") /\ UNCHANGED <<runtime, port>>
       ELSE Exit(d)
  /\ UNCHANGED <<network, server_key, tls, aging, by_hand, commands, kills>>

Unlink(d) ==
  /\ proc[d].step = "unlink"
  /\ Become(d, Off)
  /\ runtime' = None
  /\ port' = IF port = d THEN None ELSE port
  /\ UNCHANGED <<network, server_key, tls, aging, by_hand, commands, kills>>

-----------------------------------------------------------------------------
(***************************************************************************)
(* The network, the age of certificates, and processes that are stopped.   *)
(***************************************************************************)
MoveNetwork(a) ==
  /\ a # network
  /\ network' = a
  /\ UNCHANGED <<runtime, port, server_key, tls, aging, proc, by_hand, commands, kills>>

Age ==
  /\ tls.cert # None
  /\ aging' = aging \cup {tls.cert.id}
  /\ UNCHANGED <<network, runtime, port, server_key, tls, proc, by_hand, commands, kills>>

\* A process is killed, a call raises, openssl fails (its files are removed), or a
\* daemon that serves gets a signal it handles.
Interrupt(p) ==
  /\ kills < MaxKills
  /\ kills' = kills + 1
  /\ proc[p] # Off
  /\ \/ Exit(p) /\ UNCHANGED tls
     \/ /\ proc[p].step \notin {"serve", "close", "leave", "unlink"}
        /\ Raise(p)
        /\ UNCHANGED tls
     \/ /\ proc[p].step = "certgen"
        /\ tls' = [tls EXCEPT !.new_key = None, !.new_cert = None]
        /\ Raise(p)
     \/ /\ proc[p].step = "serve"
        /\ Become(p, [step |-> "close", address |-> proc[p].address])
        /\ UNCHANGED <<runtime, port, tls>>
  /\ UNCHANGED <<network, server_key, aging, by_hand, commands>>

Continue(p) ==
  \/ ReadKey(p) \/ CreateKey(p) \/ WriteKey(p)
  \/ Look(p) \/ Announce(p) \/ Bind(p)
  \/ Check(p) \/ Clean(p) \/ GenerateKey(p) \/ GenerateCertificate(p)
  \/ MoveKey(p) \/ MoveCertificate(p) \/ Load(p)
  \/ Watch(p) \/ Close(p) \/ Leave(p) \/ Unlink(p)

Next ==
  \/ LaunchService
  \/ \E d \in Terminals : LaunchTerminal(d)
  \/ \E c \in Commands : LaunchCommand(c)
  \/ \E p \in Processes : Continue(p) \/ Interrupt(p)
  \/ \E a \in Addresses : MoveNetwork(a)
  \/ Age

Spec == Init /\ [][Next]_vars

(***************************************************************************)
(* Fairness: processes are scheduled, watch_network wakes every 3 s, and   *)
(* Service.qml launches its daemon 3 s after it ended (lines 74-87).       *)
(***************************************************************************)
FairSpec ==
  /\ Spec
  /\ \A p \in Processes : WF_vars(Continue(p))
  /\ WF_vars(LaunchService)

-----------------------------------------------------------------------------
Serves(d, a) == proc[d].step = "serve" /\ proc[d].address = a

\* While nobody has launched a second daemon, runtime.json names the daemon that
\* serves and the address it advertises, whatever daemons were killed before it
\* (cli.py 244-275).
RuntimeNamesServer ==
  by_hand = {} =>
    \A a \in Addresses : Serves(Service, a) => runtime = [pid |-> Service, address |-> a]

\* "TLS certificates, runtime status [...] tied to the advertised LAN address"
\* (CHANGELOG.md, line 15): what a daemon serves was made for the address it
\* advertises, also after an identity was replaced half-way, as long as nothing
\* else wrote the files.
ServesItsAddress ==
  commands = 0 =>
    \A d \in Daemons :
      proc[d].step = "serve" => proc[d].loaded.address = proc[d].address

\* A process died between creating server.key and writing it.
KeyLost == server_key = "short" /\ \A p \in Processes : proc[p].step # "write"

\* "A stable route change shuts down the shell-owned daemon, whose existing
\* lifecycle contract restarts it with fresh addressing and TLS identity"
\* (docs/ARCHITECTURE.md, line 18): once the address stays, a daemon serves there
\* in the end, unless the server key was lost.
SettlesAtAddress ==
  \A a \in Addresses :
    (<>[](network = a) /\ []~KeyLost) => <>[](\E d \in Daemons : Serves(d, a))
=============================================================================
