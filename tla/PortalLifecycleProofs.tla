----------------------- MODULE PortalLifecycleProofs -----------------------
(***************************************************************************)
(* Theorems about PortalLifecycle, for any number of daemons launched by   *)
(* hand, commands, addresses, identities and killed processes, and about   *)
(* RouteSelect, which finds the address a daemon takes.                    *)
(***************************************************************************)
EXTENDS PortalLifecycle, RouteSelect, TLAPS, WellFoundedInduction, FiniteSetTheorems

Starting == {"key", "create", "write"}
Plain == {"announce", "bind", "check", "clean", "keygen", "move_key", "move_cert",
          "load", "close", "leave", "unlink"}
DaemonSteps == {"look", "announce", "bind", "serve", "close", "leave", "unlink"}

\* Commands never take an address, bind or serve.
Typed == TypeOK /\ \A c \in Commands : proc[c].step \notin DaemonSteps

\* What a process remembers, by the step it is at.
LEMMA ProcessFields ==
  ASSUME NEW v \in Process
  PROVE  /\ v.step \notin {"off", "look"} => v.address \in Addresses
         /\ v.step = "certgen" => v.id \in Identities
         /\ v.step = "serve" => /\ v.loaded \in Certificate
                                /\ v.mismatch \in Addresses \cup {None}
         /\ v.step \in Starting \cup Plain \cup {"off", "look", "certgen", "serve"}
         /\ v.step = "off" => v = Off
BY DEF Process, Off, Starting, Plain

\* The steps at which a process has an address and nothing else.
LEMMA PlainProcess ==
  ASSUME NEW s \in Plain, NEW a \in Addresses
  PROVE  [step |-> s, address |-> a] \in Process
BY DEF Process, Plain

\* A process that changes changes alone.
LEMMA Becomes ==
  ASSUME TypeOK, NEW p \in Processes, NEW v \in Process, Become(p, v)
  PROVE  /\ proc' \in [Processes -> Process]
         /\ proc'[p] = v
         /\ \A q \in Processes \ {p} : proc'[q] = proc[q]
BY DEF TypeOK, Become

\* A process that goes on to the next step keeps its address.
LEMMA Steps ==
  ASSUME TypeOK, NEW p \in Processes, NEW s, Step(p, s),
         \/ proc[p].step \in Starting /\ s \in Starting
         \/ proc[p].step \in Plain /\ s \in Plain
  PROVE  /\ proc' \in [Processes -> Process]
         /\ proc'[p].step = s /\ proc'[p].address = proc[p].address
         /\ \A q \in Processes \ {p} : proc'[q] = proc[q]
<1> DEFINE v == [proc[p] EXCEPT !.step = s]
<1>1. proc[p] \in Process
  BY DEF TypeOK
<1>2. v \in Process /\ v.step = s /\ v.address = proc[p].address
  BY <1>1 DEF Process, Starting, Plain, Off
<1>3. Become(p, v)
  BY DEF Step
<1> HIDE DEF v
<1>4. QED
  BY <1>2, <1>3, Becomes

\* When a process ends, or a daemon goes to the finally clause of main, nothing else
\* than its own traces in runtime.json and on the port change.
LEMMA Ends ==
  ASSUME Typed, NEW p \in Processes, Exit(p) \/ (proc[p] # Off /\ Raise(p))
  PROVE  /\ proc' \in [Processes -> Process]
         /\ proc'[p].step \in {"off", "leave"}
         /\ p \notin Daemons => proc'[p] = Off
         /\ \A q \in Processes \ {p} : proc'[q] = proc[q]
         /\ runtime' \in [pid : Daemons \cup {Gone}, address : Addresses] \cup {None}
         /\ p \notin Daemons => runtime' = runtime
         /\ port' \in Daemons \cup {None}
         /\ port' = port \/ port = p
<1>1. TypeOK
  BY DEF Typed
<1>2. CASE Exit(p)
  <2>1. Off \in Process
    BY DEF Process
  <2>2. /\ proc' \in [Processes -> Process] /\ proc'[p] = Off
        /\ \A q \in Processes \ {p} : proc'[q] = proc[q]
    BY <1>1, <1>2, <2>1, Becomes DEF Exit
  <2>3. runtime' \in [pid : Daemons \cup {Gone}, address : Addresses] \cup {None}
    BY <1>1, <1>2 DEF Exit, Ended, TypeOK
  <2>4. p \notin Daemons => runtime' = runtime
    BY <1>1, <1>2, LifecycleAssumption DEF Exit, Ended, TypeOK
  <2>5. QED
    BY <1>1, <1>2, <2>2, <2>3, <2>4 DEF Exit, Off, TypeOK
<1>3. CASE ~Exit(p)
  <2>1. /\ p \in Daemons /\ proc[p].step \notin BeforeTry /\ proc[p] # Off
        /\ Become(p, [step |-> "leave", address |-> proc[p].address])
        /\ UNCHANGED <<runtime, port>>
    BY <1>3 DEF Raise
  <2>2. proc[p] \in Process
    BY <1>1 DEF TypeOK
  <2>3. [step |-> "leave", address |-> proc[p].address] \in Process
    BY <2>1, <2>2, ProcessFields, PlainProcess DEF BeforeTry, Plain
  <2>4. QED
    BY <1>1, <2>1, <2>3, Becomes DEF TypeOK
<1>4. QED
  BY <1>2, <1>3

-----------------------------------------------------------------------------
(***************************************************************************)
(* Type correctness.                                                       *)
(***************************************************************************)
\* No process runs and no file exists at first.
LEMMA TypeInit == Init => Typed
<1> SUFFICES ASSUME Init PROVE Typed
  OBVIOUS
<1>1. proc \in [Processes -> Process] /\ \A c \in Commands : proc[c].step \notin DaemonSteps
  BY DEF Init, Process, Off, DaemonSteps, Processes
<1>2. QED
  BY <1>1, LifecycleAssumption DEF Init, Typed, TypeOK, Tls

\* A step that changes one process, not to a step of daemons if it is a command.
LEMMA TypedProcess ==
  ASSUME Typed, NEW p \in Processes, proc' \in [Processes -> Process],
         p \in Commands => proc'[p].step \notin DaemonSteps,
         \A q \in Processes \ {p} : proc'[q] = proc[q]
  PROVE  /\ proc' \in [Processes -> Process]
         /\ \A c \in Commands : proc'[c].step \notin DaemonSteps
BY DEF Typed, Processes

\* Launching, for the service and by hand.
LEMMA TypeLaunch ==
  ASSUME Typed, NEW p \in Processes, NEW pair \in BOOLEAN, Launch(p, pair),
         by_hand' \subseteq Terminals, commands' \in 0..MaxCommands
  PROVE  Typed'
<1>1. TypeOK
  BY DEF Typed
<1>2. Advertised \in Addresses
  BY <1>1 DEF Advertised, TypeOK
<1> DEFINE v == [step |-> "key", address |-> Advertised, pair |-> pair]
<1>3. v \in Process /\ v.step = "key"
  BY <1>2 DEF Process
<1>4. Become(p, v)
  BY DEF Launch
<1> HIDE DEF v
<1>5. proc' \in [Processes -> Process] /\ \A c \in Commands : proc'[c].step \notin DaemonSteps
  BY <1>1, <1>3, <1>4, Becomes, TypedProcess DEF DaemonSteps
<1>6. QED
  BY <1>1, <1>5 DEF Launch, Typed, TypeOK

\* After the server key comes a step of the process's kind.
LEMMA AfterKeyType ==
  ASSUME Typed, NEW p \in Processes, proc[p].step \in Starting
  PROVE  /\ AfterKey(p) \in Process
         /\ AfterKey(p).step \in {"off", "look", "check"}
         /\ p \in Commands => AfterKey(p).step \notin DaemonSteps
         /\ p \in Daemons => AfterKey(p).step = "look"
<1>1. proc[p] \in Process
  BY DEF Typed, TypeOK
<1>2. proc[p].address \in Addresses
  BY <1>1, ProcessFields DEF Starting
<1>3. [step |-> "check", address |-> proc[p].address] \in Process
  BY <1>2, PlainProcess DEF Plain
<1>4. [step |-> "look"] \in Process /\ Off \in Process
  BY DEF Process
<1>5. QED
  BY <1>3, <1>4, LifecycleAssumption DEF AfterKey, Off, DaemonSteps

\* Every step of a process, the network and the clock keeps the types.
LEMMA TypeStep == Typed /\ [Next]_vars => Typed'
<1> SUFFICES ASSUME Typed, [Next]_vars PROVE Typed'
  OBVIOUS
<1>1. TypeOK /\ \A p \in Processes : proc[p] \in Process
  BY DEF Typed, TypeOK
<1>2. Service \in Processes /\ Terminals \subseteq Processes /\ Commands \subseteq Processes
  BY DEF Processes, Daemons
<1>3. ASSUME NEW p \in Processes, proc' \in [Processes -> Process],
             p \in Commands => proc'[p].step \notin DaemonSteps,
             \A q \in Processes \ {p} : proc'[q] = proc[q],
             runtime' \in [pid : Daemons \cup {Gone}, address : Addresses] \cup {None},
             port' \in Daemons \cup {None},
             tls' \in Tls, aging' \subseteq Identities, server_key' \in {"none", "short", "whole"},
             UNCHANGED network, UNCHANGED by_hand, UNCHANGED commands, kills' \in 0..MaxKills
      PROVE  Typed'
  BY <1>1, <1>3, TypedProcess DEF Typed, TypeOK
<1> USE DEF DaemonSteps
<1>4. CASE LaunchService
  BY <1>1, <1>2, <1>4, TypeLaunch DEF LaunchService, TypeOK
<1>5. ASSUME NEW d \in Terminals, LaunchTerminal(d) PROVE Typed'
  <2>1. commands' \in 0..MaxCommands
    BY <1>1, <1>5, LifecycleAssumption DEF LaunchTerminal, TypeOK
  <2>2. by_hand' \subseteq Terminals
    BY <1>1, <1>5 DEF LaunchTerminal, TypeOK
  <2>3. Launch(d, FALSE) /\ d \in Processes
    BY <1>2, <1>5 DEF LaunchTerminal
  <2>4. QED
    BY <2>1, <2>2, <2>3, TypeLaunch
<1>6. ASSUME NEW c \in Commands, LaunchCommand(c) PROVE Typed'
  BY <1>1, <1>2, <1>6, TypeLaunch, LifecycleAssumption DEF LaunchCommand, TypeOK
<1>7. ASSUME NEW p \in Processes, ReadKey(p) PROVE Typed'
  <2>1. CASE server_key = "whole"
    <3>1. Become(p, AfterKey(p)) /\ UNCHANGED <<runtime, port>>
      BY <1>7, <2>1 DEF ReadKey
    <3>2. proc[p].step \in Starting
      BY <1>7 DEF ReadKey, Starting
    <3>3. QED
      BY <1>1, <1>3, <1>7, <3>1, <3>2, AfterKeyType, Becomes DEF ReadKey, TypeOK
  <2>2. CASE server_key = "none"
    <3>1. Step(p, "create") /\ UNCHANGED <<runtime, port>>
      BY <1>7, <2>2 DEF ReadKey
    <3>2. proc[p].step \in Starting
      BY <1>7 DEF ReadKey, Starting
    <3>3. QED
      BY <1>1, <1>3, <1>7, <3>1, <3>2, Steps DEF ReadKey, TypeOK, Starting
  <2>3. CASE server_key = "short"
    <3>1. Raise(p) /\ proc[p] # Off
      BY <1>7, <2>3 DEF ReadKey, Off
    <3>2. p \in Commands => proc'[p].step \notin DaemonSteps
      BY <3>1, Ends, LifecycleAssumption DEF Off
    <3>3. QED
      BY <1>1, <1>3, <1>7, <3>1, <3>2, Ends DEF ReadKey, TypeOK
  <2>4. QED
    BY <1>1, <2>1, <2>2, <2>3 DEF TypeOK
<1>8. ASSUME NEW p \in Processes, CreateKey(p) PROVE Typed'
  <2>1. proc[p].step \in Starting /\ proc[p] # Off
    BY <1>8 DEF CreateKey, Starting, Off
  <2>2. CASE server_key = "none"
    BY <1>1, <1>3, <1>8, <2>1, <2>2, Steps DEF CreateKey, TypeOK, Starting
  <2>3. CASE server_key # "none"
    BY <1>1, <1>3, <1>8, <2>1, <2>3, Ends, LifecycleAssumption DEF CreateKey, TypeOK, Off, Processes
  <2>4. QED
    BY <2>2, <2>3
<1>9. ASSUME NEW p \in Processes, WriteKey(p) PROVE Typed'
  <2>1. proc[p].step \in Starting
    BY <1>9 DEF WriteKey, Starting
  <2>2. QED
    BY <1>1, <1>3, <1>9, <2>1, AfterKeyType, Becomes DEF WriteKey, TypeOK
<1>10. ASSUME NEW p \in Processes, Look(p) PROVE Typed'
  <2>1. [step |-> "announce", address |-> network] \in Process /\ p \notin Commands
    BY <1>1, <1>10, PlainProcess DEF Look, TypeOK, Typed, Plain
  <2>2. QED
    BY <1>1, <1>3, <1>10, <2>1, Becomes DEF Look, TypeOK
<1>11. ASSUME NEW p \in Processes, Announce(p) PROVE Typed'
  <2>1. p \in Daemons /\ proc[p].address \in Addresses
    BY <1>1, <1>11, ProcessFields DEF Announce, Typed, Processes
  <2>2. RuntimeOf(p) \in [pid : Daemons \cup {Gone}, address : Addresses]
    BY <2>1 DEF RuntimeOf
  <2>3. QED
    BY <1>1, <1>3, <1>11, <2>1, <2>2, Steps, LifecycleAssumption DEF Announce, TypeOK, Plain
<1>12. ASSUME NEW p \in Processes, Bind(p) PROVE Typed'
  <2>1. p \in Daemons /\ p \notin Commands /\ proc[p] # Off
    BY <1>1, <1>12, LifecycleAssumption DEF Bind, Typed, Processes, Off
  <2>2. CASE port = None
    BY <1>1, <1>3, <1>12, <2>1, <2>2, Steps DEF Bind, TypeOK, Plain
  <2>3. CASE port # None
    BY <1>1, <1>3, <1>12, <2>1, <2>3, Ends DEF Bind, TypeOK
  <2>4. QED
    BY <2>2, <2>3
<1>13. ASSUME NEW p \in Processes, Check(p) PROVE Typed'
  <2>1. PICK s \in {"load", "clean"} : Step(p, s)
    BY <1>13 DEF Check
  <2>2. QED
    BY <1>1, <1>3, <1>13, <2>1, Steps DEF Check, TypeOK, Plain
<1>14. ASSUME NEW p \in Processes, Clean(p) PROVE Typed'
  <2>1. tls' \in Tls
    BY <1>1, <1>14 DEF Clean, TypeOK, Tls
  <2>2. QED
    BY <1>1, <1>3, <1>14, <2>1, Steps DEF Clean, TypeOK, Plain
<1>15. ASSUME NEW p \in Processes, GenerateKey(p) PROVE Typed'
  <2> DEFINE id == CHOOSE id \in Identities : id \notin InUse
  <2>1. id \in Identities
    BY <1>15 DEF GenerateKey
  <2>2. /\ tls' = [tls EXCEPT !.new_key = id] /\ aging' = aging \ {id}
        /\ Become(p, [step |-> "certgen", address |-> proc[p].address, id |-> id])
    BY <1>15 DEF GenerateKey
  <2> HIDE DEF id
  <2>3. proc[p].address \in Addresses
    BY <1>1, <1>15, ProcessFields DEF GenerateKey
  <2>4. [step |-> "certgen", address |-> proc[p].address, id |-> id] \in Process
    BY <2>1, <2>3 DEF Process
  <2>5. tls' \in Tls
    BY <1>1, <2>1, <2>2 DEF TypeOK, Tls
  <2>6. QED
    BY <1>1, <1>3, <1>15, <2>2, <2>4, <2>5, Becomes DEF GenerateKey, TypeOK
<1>16. ASSUME NEW p \in Processes, GenerateCertificate(p) PROVE Typed'
  <2>1. proc[p].address \in Addresses /\ proc[p].id \in Identities
    BY <1>1, <1>16, ProcessFields DEF GenerateCertificate
  <2>2. [id |-> proc[p].id, address |-> proc[p].address] \in Certificate
    BY <2>1 DEF Certificate
  <2>3. tls' \in Tls
    BY <1>1, <1>16, <2>2 DEF GenerateCertificate, TypeOK, Tls
  <2>4. [step |-> "move_key", address |-> proc[p].address] \in Process
    BY <2>1, PlainProcess DEF Plain
  <2>5. QED
    BY <1>1, <1>3, <1>16, <2>3, <2>4, Becomes DEF GenerateCertificate, TypeOK
<1>17. ASSUME NEW p \in Processes, MoveKey(p) PROVE Typed'
  <2>1. CASE tls.new_key # None /\ tls.new_cert # None
    <3>1. tls' \in Tls
      BY <1>1, <1>17, <2>1 DEF MoveKey, TypeOK, Tls
    <3>2. QED
      BY <1>1, <1>3, <1>17, <2>1, <3>1, Steps DEF MoveKey, TypeOK, Plain
  <2>2. CASE ~(tls.new_key # None /\ tls.new_cert # None)
    <3>1. proc[p] # Off
      BY <1>17 DEF MoveKey, Off
    <3>2. QED
      BY <1>1, <1>3, <1>17, <2>2, <3>1, Ends, LifecycleAssumption DEF MoveKey, TypeOK, Off, Processes
  <2>3. QED
    BY <2>1, <2>2
<1>18. ASSUME NEW p \in Processes, MoveCertificate(p) PROVE Typed'
  <2>1. CASE tls.new_cert # None
    <3>1. tls' \in Tls
      BY <1>1, <1>18, <2>1 DEF MoveCertificate, TypeOK, Tls
    <3>2. QED
      BY <1>1, <1>3, <1>18, <2>1, <3>1, Steps DEF MoveCertificate, TypeOK, Plain
  <2>2. CASE tls.new_cert = None
    <3>1. proc[p] # Off
      BY <1>18 DEF MoveCertificate, Off
    <3>2. QED
      BY <1>1, <1>3, <1>18, <2>2, <3>1, Ends, LifecycleAssumption
      DEF MoveCertificate, TypeOK, Off, Processes
  <2>3. QED
    BY <2>1, <2>2
<1>19. ASSUME NEW p \in Processes, Load(p) PROVE Typed'
  <2>1. CASE p \in Daemons /\ tls.key # None /\ tls.cert # None /\ tls.cert.id = tls.key
    <3>1. proc[p].address \in Addresses /\ tls.cert \in Certificate /\ p \notin Commands
      BY <1>1, <1>19, <2>1, ProcessFields, LifecycleAssumption DEF Load, TypeOK, Tls
    <3> DEFINE v == [step |-> "serve", address |-> proc[p].address,
                     loaded |-> tls.cert, mismatch |-> None]
    <3>2. v \in Process
      BY <3>1 DEF Process
    <3>3. Become(p, v) /\ UNCHANGED <<runtime, port>>
      BY <1>19, <2>1 DEF Load
    <3> HIDE DEF v
    <3>4. QED
      BY <1>1, <1>3, <1>19, <3>1, <3>2, <3>3, Becomes DEF Load, TypeOK
  <2>2. CASE ~(p \in Daemons /\ tls.key # None /\ tls.cert # None /\ tls.cert.id = tls.key)
    <3>1. proc[p] # Off /\ Raise(p)
      BY <1>19, <2>2 DEF Load, Off
    <3>2. p \in Commands => proc'[p].step \notin DaemonSteps
      BY <3>1, Ends, LifecycleAssumption DEF Off
    <3>3. QED
      BY <1>1, <1>3, <1>19, <3>1, <3>2, Ends DEF Load, TypeOK
  <2>3. QED
    BY <2>1, <2>2
<1>20. ASSUME NEW p \in Processes, Watch(p) PROVE Typed'
  <2>1. /\ proc[p].address \in Addresses /\ proc[p].loaded \in Certificate
        /\ proc[p].mismatch \in Addresses \cup {None} /\ p \notin Commands
    BY <1>1, <1>20, ProcessFields DEF Watch, Typed
  <2>2. CASE Mismatch(p) # None /\ Mismatch(p) = proc[p].mismatch
    <3>1. [step |-> "close", address |-> proc[p].address] \in Process
      BY <2>1, PlainProcess DEF Plain
    <3>2. QED
      BY <1>1, <1>3, <1>20, <2>1, <2>2, <3>1, Becomes DEF Watch, TypeOK
  <2>3. CASE ~(Mismatch(p) # None /\ Mismatch(p) = proc[p].mismatch)
    <3> DEFINE v == [proc[p] EXCEPT !.mismatch = Mismatch(p)]
    <3>1. Mismatch(p) \in Addresses \cup {None}
      BY <1>1 DEF Mismatch, TypeOK
    <3>2. v \in Process
      BY <1>1, <1>20, <3>1 DEF Process, Off, Watch
    <3>3. Become(p, v)
      BY <1>1, <1>20, <2>3 DEF Watch, Become, TypeOK
    <3> HIDE DEF v
    <3>4. QED
      BY <1>1, <1>3, <1>20, <2>1, <3>2, <3>3, Becomes DEF Watch, TypeOK
  <2>4. QED
    BY <2>2, <2>3
<1>21. ASSUME NEW p \in Processes, Close(p) PROVE Typed'
  <2>1. p \notin Commands
    BY <1>21 DEF Close, Typed
  <2>2. QED
    BY <1>1, <1>3, <1>21, <2>1, Steps DEF Close, TypeOK, Plain
<1>22. ASSUME NEW p \in Processes, Leave(p) PROVE Typed'
  <2>1. p \notin Commands
    BY <1>22 DEF Leave, Typed
  <2>2. CASE runtime # None /\ runtime.pid = p
    BY <1>1, <1>3, <1>22, <2>1, <2>2, Steps DEF Leave, TypeOK, Plain
  <2>3. CASE ~(runtime # None /\ runtime.pid = p)
    BY <1>1, <1>3, <1>22, <2>1, <2>3, Ends DEF Leave, TypeOK
  <2>4. QED
    BY <2>2, <2>3
<1>23. ASSUME NEW p \in Processes, Unlink(p) PROVE Typed'
  <2>1. p \notin Commands /\ Off \in Process
    BY <1>23 DEF Unlink, Typed, Process
  <2>2. QED
    BY <1>1, <1>3, <1>23, <2>1, Becomes DEF Unlink, TypeOK
<1>24. ASSUME NEW p \in Processes, Interrupt(p) PROVE Typed'
  <2>1. kills' \in 0..MaxKills
    BY <1>1, <1>24, LifecycleAssumption DEF Interrupt, TypeOK
  <2>2. CASE proc[p].step = "serve" /\ Become(p, [step |-> "close", address |-> proc[p].address])
              /\ UNCHANGED <<runtime, port, tls>>
    <3>1. proc[p].address \in Addresses /\ p \notin Commands
      BY <1>1, <2>2, ProcessFields DEF Typed
    <3>2. [step |-> "close", address |-> proc[p].address] \in Process
      BY <3>1, PlainProcess DEF Plain
    <3>3. QED
      BY <1>1, <1>3, <1>24, <2>1, <2>2, <3>1, <3>2, Becomes DEF Interrupt, TypeOK
  <2>3. CASE Exit(p) \/ (proc[p] # Off /\ Raise(p))
    <3>1. tls' \in Tls
      BY <1>1, <1>24 DEF Interrupt, TypeOK, Tls
    <3>2. p \in Commands => proc'[p].step \notin DaemonSteps
      BY <2>3, Ends, LifecycleAssumption DEF Off
    <3>3. QED
      BY <1>1, <1>3, <1>24, <2>1, <2>3, <3>1, <3>2, Ends DEF Interrupt, TypeOK
  <2>4. QED
    BY <1>24, <2>2, <2>3 DEF Interrupt
<1>25. ASSUME NEW a \in Addresses, MoveNetwork(a) PROVE Typed'
  BY <1>1, <1>25 DEF MoveNetwork, Typed, TypeOK
<1>26. CASE Age
  BY <1>1, <1>26 DEF Age, Typed, TypeOK, Tls, Certificate
<1>27. CASE UNCHANGED vars
  BY <1>1, <1>27 DEF vars, Typed, TypeOK
<1>28. QED
  BY <1>4, <1>5, <1>6, <1>7, <1>8, <1>9, <1>10, <1>11, <1>12, <1>13, <1>14, <1>15, <1>16, <1>17,
     <1>18, <1>19, <1>20, <1>21, <1>22, <1>23, <1>24, <1>25, <1>26, <1>27 DEF Next, Continue

\* Every reachable state of PortalLifecycle is well typed.
THEOREM TypeCorrect == Spec => []TypeOK
<1>1. Typed => TypeOK
  BY DEF Typed
<1>2. QED
  BY <1>1, TypeInit, TypeStep, PTL DEF Spec

-----------------------------------------------------------------------------
(***************************************************************************)
(* The steps of a process, as far as runtime.json and the port see them.   *)
(***************************************************************************)
Bound == {"check", "clean", "keygen", "certgen", "move_key", "move_cert", "load",
          "serve", "close"}

Ending(p) == Exit(p) \/ (proc[p] # Off /\ Raise(p))

\* Until a daemon has its address, runtime.json and the port are left alone.
LEMMA Begins ==
  ASSUME Typed, NEW p \in Processes, ReadKey(p) \/ CreateKey(p) \/ WriteKey(p) \/ Look(p)
  PROVE  /\ UNCHANGED <<network, tls, by_hand, commands>>
         /\ proc[p] # Off
         /\ \/ Ending(p)
            \/ /\ UNCHANGED <<runtime, port>>
               /\ p \in Daemons => proc'[p].step \in BeforeTry
               /\ \A q \in Processes \ {p} : proc'[q] = proc[q]
<1>1. TypeOK /\ proc[p] \in Process
  BY DEF Typed, TypeOK
<1>2. proc[p] # Off /\ UNCHANGED <<network, tls, by_hand, commands>>
  <2>1. CASE ReadKey(p)
    BY <2>1 DEF ReadKey, Off
  <2>2. CASE CreateKey(p)
    BY <2>2 DEF CreateKey, Off
  <2>3. CASE WriteKey(p)
    BY <2>3 DEF WriteKey, Off
  <2>4. CASE Look(p)
    BY <2>4 DEF Look, Off
  <2>5. QED
    BY <2>1, <2>2, <2>3, <2>4
<1>3. ASSUME proc[p].step \in Starting, Become(p, AfterKey(p))
      PROVE  /\ p \in Daemons => proc'[p].step \in BeforeTry
             /\ \A q \in Processes \ {p} : proc'[q] = proc[q]
  BY <1>1, <1>3, AfterKeyType, Becomes DEF BeforeTry
<1>4. ASSUME NEW s \in Starting, proc[p].step \in Starting, Step(p, s)
      PROVE  /\ p \in Daemons => proc'[p].step \in BeforeTry
             /\ \A q \in Processes \ {p} : proc'[q] = proc[q]
  BY <1>1, <1>4, Steps DEF BeforeTry, Starting
<1>5. CASE ReadKey(p)
  <2>1. proc[p].step \in Starting
    BY <1>5 DEF ReadKey, Starting
  <2>2. CASE server_key = "whole"
    BY <1>2, <1>3, <1>5, <2>1, <2>2 DEF ReadKey
  <2>3. CASE server_key = "none"
    <3>1. Step(p, "create") /\ UNCHANGED <<runtime, port>>
      BY <1>5, <2>3 DEF ReadKey
    <3>2. QED
      BY <1>2, <1>4, <2>1, <3>1 DEF Starting
  <2>4. CASE server_key = "short"
    <3>1. Raise(p)
      BY <1>5, <2>4 DEF ReadKey
    <3>2. QED
      BY <1>2, <3>1 DEF Ending
  <2>5. QED
    BY <1>1, <2>2, <2>3, <2>4 DEF TypeOK
<1>6. CASE CreateKey(p)
  <2>1. proc[p].step \in Starting
    BY <1>6 DEF CreateKey, Starting
  <2>2. CASE server_key = "none"
    <3>1. Step(p, "write") /\ UNCHANGED <<runtime, port>>
      BY <1>6, <2>2 DEF CreateKey
    <3>2. QED
      BY <1>2, <1>4, <2>1, <3>1 DEF Starting
  <2>3. CASE server_key # "none"
    BY <1>2, <1>6, <2>3 DEF CreateKey, Ending
  <2>4. QED
    BY <2>2, <2>3
<1>7. CASE WriteKey(p)
  <2>1. proc[p].step \in Starting
    BY <1>7 DEF WriteKey, Starting
  <2>2. QED
    BY <1>2, <1>3, <1>7, <2>1 DEF WriteKey
<1>8. CASE Look(p)
  <2>1. [step |-> "announce", address |-> network] \in Process
    BY <1>1, PlainProcess DEF TypeOK, Plain
  <2>2. QED
    BY <1>1, <1>2, <1>8, <2>1, Becomes DEF Look, BeforeTry
<1>9. QED
  BY <1>5, <1>6, <1>7, <1>8

\* From the bound port to the end of serving a process keeps its address, and nobody
\* else's state changes.
LEMMA Serving ==
  ASSUME Typed, NEW p \in Processes,
         \/ Check(p) \/ Clean(p) \/ GenerateKey(p) \/ GenerateCertificate(p)
         \/ MoveKey(p) \/ MoveCertificate(p) \/ Load(p) \/ Watch(p)
  PROVE  /\ UNCHANGED <<network, by_hand, commands>>
         /\ proc[p] # Off
         /\ \/ Ending(p)
            \/ /\ UNCHANGED <<runtime, port>>
               /\ proc[p].step \in Bound /\ proc'[p].step \in Bound
               /\ proc'[p].address = proc[p].address
               /\ \A q \in Processes \ {p} : proc'[q] = proc[q]
<1>1. TypeOK /\ proc[p] \in Process
  BY DEF Typed, TypeOK
<1>2. proc[p] # Off /\ UNCHANGED <<network, by_hand, commands>> /\ proc[p].step \in Bound
  BY DEF Check, Clean, GenerateKey, GenerateCertificate, MoveKey, MoveCertificate, Load, Watch,
         Off, Bound
<1>3. proc[p].address \in Addresses
  BY <1>1, <1>2, ProcessFields DEF Bound
<1>4. ASSUME NEW s \in Bound \cap Plain, proc[p].step \in Plain, Step(p, s)
      PROVE  /\ proc'[p].step \in Bound /\ proc'[p].address = proc[p].address
             /\ \A q \in Processes \ {p} : proc'[q] = proc[q]
  BY <1>1, <1>4, Steps
<1>5. ASSUME NEW v \in Process, Become(p, v), v.step \in Bound, v.address = proc[p].address
      PROVE  /\ proc'[p].step \in Bound /\ proc'[p].address = proc[p].address
             /\ \A q \in Processes \ {p} : proc'[q] = proc[q]
  BY <1>1, <1>5, Becomes
<1>6. CASE Check(p)
  <2>1. PICK s \in {"load", "clean"} : Step(p, s)
    BY <1>6 DEF Check
  <2>2. QED
    BY <1>2, <1>4, <1>6, <2>1 DEF Check, Bound, Plain
<1>7. CASE Clean(p)
  BY <1>2, <1>4, <1>7 DEF Clean, Bound, Plain
<1>8. CASE GenerateKey(p)
  <2> DEFINE id == CHOOSE id \in Identities : id \notin InUse
             v == [step |-> "certgen", address |-> proc[p].address, id |-> id]
  <2>1. id \in Identities
    BY <1>8 DEF GenerateKey
  <2>2. Become(p, v) /\ UNCHANGED <<runtime, port>>
    BY <1>8 DEF GenerateKey
  <2> HIDE DEF id
  <2>3. v \in Process /\ v.step \in Bound /\ v.address = proc[p].address
    BY <1>3, <2>1 DEF Process, Bound
  <2> HIDE DEF v
  <2>4. QED
    BY <1>2, <1>5, <2>2, <2>3
<1>9. CASE GenerateCertificate(p)
  <2>1. [step |-> "move_key", address |-> proc[p].address] \in Process
    BY <1>3, PlainProcess DEF Plain
  <2>2. QED
    BY <1>2, <1>5, <1>9, <2>1 DEF GenerateCertificate, Bound
<1>10. CASE MoveKey(p)
  <2>1. CASE tls.new_key # None /\ tls.new_cert # None
    BY <1>2, <1>4, <1>10, <2>1 DEF MoveKey, Bound, Plain
  <2>2. CASE ~(tls.new_key # None /\ tls.new_cert # None)
    BY <1>2, <1>10, <2>2 DEF MoveKey, Ending
  <2>3. QED
    BY <2>1, <2>2
<1>11. CASE MoveCertificate(p)
  <2>1. CASE tls.new_cert # None
    BY <1>2, <1>4, <1>11, <2>1 DEF MoveCertificate, Bound, Plain
  <2>2. CASE tls.new_cert = None
    BY <1>2, <1>11, <2>2 DEF MoveCertificate, Ending
  <2>3. QED
    BY <2>1, <2>2
<1>12. CASE Load(p)
  <2>1. CASE p \in Daemons /\ tls.key # None /\ tls.cert # None /\ tls.cert.id = tls.key
    <3> DEFINE v == [step |-> "serve", address |-> proc[p].address,
                     loaded |-> tls.cert, mismatch |-> None]
    <3>1. v \in Process /\ v.step \in Bound /\ v.address = proc[p].address
      BY <1>1, <1>3, <2>1 DEF Process, TypeOK, Tls, Bound
    <3>2. Become(p, v) /\ UNCHANGED <<runtime, port>>
      BY <1>12, <2>1 DEF Load
    <3> HIDE DEF v
    <3>3. QED
      BY <1>2, <1>5, <3>1, <3>2
  <2>2. CASE ~(p \in Daemons /\ tls.key # None /\ tls.cert # None /\ tls.cert.id = tls.key)
    BY <1>2, <1>12, <2>2 DEF Load, Ending
  <2>3. QED
    BY <2>1, <2>2
<1>13. CASE Watch(p)
  <2>1. CASE Mismatch(p) # None /\ Mismatch(p) = proc[p].mismatch
    <3>1. [step |-> "close", address |-> proc[p].address] \in Process
      BY <1>3, PlainProcess DEF Plain
    <3>2. QED
      BY <1>2, <1>5, <1>13, <2>1, <3>1 DEF Watch, Bound
  <2>2. CASE ~(Mismatch(p) # None /\ Mismatch(p) = proc[p].mismatch)
    <3> DEFINE v == [proc[p] EXCEPT !.mismatch = Mismatch(p)]
    <3>1. v \in Process /\ v.step = "serve" /\ v.address = proc[p].address
      BY <1>1, <1>13 DEF Process, Off, Watch, TypeOK, Mismatch
    <3>2. Become(p, v) /\ UNCHANGED <<runtime, port>>
      BY <1>1, <1>13, <2>2 DEF Watch, Become, TypeOK
    <3> HIDE DEF v
    <3>3. QED
      BY <1>2, <1>5, <3>1, <3>2 DEF Bound
  <2>3. QED
    BY <2>1, <2>2
<1>14. QED
  BY <1>6, <1>7, <1>8, <1>9, <1>10, <1>11, <1>12, <1>13

\* An interrupted process ends, or a daemon that serves begins to close.
LEMMA Interrupted ==
  ASSUME Typed, NEW p \in Processes, Interrupt(p)
  PROVE  /\ UNCHANGED <<network, by_hand, commands>>
         /\ proc[p] # Off
         /\ \/ Ending(p)
            \/ /\ UNCHANGED <<runtime, port>>
               /\ proc[p].step \in Bound /\ proc'[p].step = "close"
               /\ proc'[p].address = proc[p].address
               /\ \A q \in Processes \ {p} : proc'[q] = proc[q]
<1>1. TypeOK /\ proc[p] \in Process
  BY DEF Typed, TypeOK
<1>2. CASE proc[p].step = "serve" /\ Become(p, [step |-> "close", address |-> proc[p].address])
           /\ UNCHANGED <<runtime, port, tls>>
  <2>1. [step |-> "close", address |-> proc[p].address] \in Process
    BY <1>1, <1>2, ProcessFields, PlainProcess DEF Plain
  <2>2. QED
    BY <1>1, <1>2, <2>1, Becomes DEF Interrupt, Bound
<1>3. QED
  BY <1>2 DEF Interrupt, Ending

\* Launching changes a process that was off, and says so.
LEMMA Launched ==
  ASSUME Typed, NEW p \in Processes, NEW pair \in BOOLEAN, Launch(p, pair)
  PROVE  /\ UNCHANGED <<runtime, port>>
         /\ proc'[p].step \in BeforeTry
         /\ \A q \in Processes \ {p} : proc'[q] = proc[q]
<1>1. TypeOK
  BY DEF Typed
<1> DEFINE v == [step |-> "key", address |-> Advertised, pair |-> pair]
<1>2. v \in Process /\ v.step \in BeforeTry
  BY <1>1 DEF Process, BeforeTry, Advertised, TypeOK
<1>3. Become(p, v) /\ UNCHANGED <<runtime, port>>
  BY DEF Launch
<1> HIDE DEF v
<1>4. QED
  BY <1>1, <1>2, <1>3, Becomes

-----------------------------------------------------------------------------
(***************************************************************************)
(* One daemon holds the port, so at most one serves.                       *)
(***************************************************************************)
\* From bind to close a daemon holds the port (service.py, serve).
PortInv == \A d \in Daemons : proc[d].step \in Bound => port = d

\* No daemon runs at first.
LEMMA PortInit == Init => PortInv
BY DEF Init, PortInv, Off, Bound, Processes

\* Whoever ends or closes gives up only its own hold on the port.
LEMMA PortStep == Typed /\ PortInv /\ [Next]_vars => PortInv'
<1> SUFFICES ASSUME Typed, PortInv, [Next]_vars PROVE PortInv'
  OBVIOUS
<1>1. TypeOK /\ Daemons \subseteq Processes
  BY DEF Typed, Processes
<1>2. Service \in Processes /\ Terminals \subseteq Processes /\ Commands \subseteq Processes
  BY DEF Processes, Daemons
<1>3. ASSUME NEW p \in Processes, \A q \in Processes \ {p} : proc'[q] = proc[q],
             p \in Daemons /\ proc'[p].step \in Bound => port' = p,
             port' = port \/ port = p
      PROVE  PortInv'
  BY <1>1, <1>3 DEF PortInv
<1>4. ASSUME NEW p \in Processes, Ending(p) PROVE PortInv'
  <2>1. proc'[p].step \notin Bound
    BY <1>4, Ends DEF Ending, Bound
  <2>2. QED
    BY <1>3, <1>4, <2>1, Ends DEF Ending
<1>5. ASSUME NEW p \in Processes, NEW pair \in BOOLEAN, Launch(p, pair) PROVE PortInv'
  <2>1. proc'[p].step \notin Bound
    BY <1>5, Launched DEF BeforeTry, Bound
  <2>2. QED
    BY <1>3, <1>5, <2>1, Launched
<1>6. ASSUME NEW p \in Processes, ReadKey(p) \/ CreateKey(p) \/ WriteKey(p) \/ Look(p)
      PROVE  PortInv'
  <2>1. CASE Ending(p)
    BY <1>4, <2>1
  <2>2. CASE ~Ending(p)
    <3>1. p \in Daemons => proc'[p].step \notin Bound
      BY <1>6, <2>2, Begins DEF BeforeTry, Bound
    <3>2. QED
      BY <1>3, <1>6, <2>2, <3>1, Begins
  <2>3. QED
    BY <2>1, <2>2
<1>7. ASSUME NEW p \in Processes, Announce(p) PROVE PortInv'
  <2>1. proc'[p].step \notin Bound /\ \A q \in Processes \ {p} : proc'[q] = proc[q]
    BY <1>1, <1>7, Steps DEF Announce, Plain, Bound
  <2>2. QED
    BY <1>3, <1>7, <2>1 DEF Announce
<1>8. ASSUME NEW p \in Processes, Bind(p) PROVE PortInv'
  <2>1. CASE port = None
    <3>1. \A q \in Processes \ {p} : proc'[q] = proc[q]
      BY <1>1, <1>8, <2>1, Steps DEF Bind, Plain
    <3>2. port' = p /\ \A d \in Daemons : proc[d].step \notin Bound
      BY <1>8, <2>1, LifecycleAssumption DEF Bind, PortInv, Processes
    <3>3. QED
      BY <1>1, <3>1, <3>2 DEF PortInv
  <2>2. CASE port # None
    BY <1>4, <1>8, <2>2 DEF Bind, Ending, Off
  <2>3. QED
    BY <2>1, <2>2
<1>9. ASSUME NEW p \in Processes,
             \/ Check(p) \/ Clean(p) \/ GenerateKey(p) \/ GenerateCertificate(p)
             \/ MoveKey(p) \/ MoveCertificate(p) \/ Load(p) \/ Watch(p)
      PROVE  PortInv'
  <2>1. CASE Ending(p)
    BY <1>4, <2>1
  <2>2. CASE ~Ending(p)
    BY <1>3, <1>9, <2>2, Serving DEF PortInv
  <2>3. QED
    BY <2>1, <2>2
<1>10. ASSUME NEW p \in Processes, Close(p) PROVE PortInv'
  <2>1. p \in Daemons /\ port = p
    BY <1>10 DEF Close, PortInv, Bound, Typed, DaemonSteps, Processes
  <2>2. proc'[p].step \notin Bound /\ \A q \in Processes \ {p} : proc'[q] = proc[q]
    BY <1>1, <1>10, Steps DEF Close, Plain, Bound
  <2>3. QED
    BY <1>3, <2>1, <2>2
<1>11. ASSUME NEW p \in Processes, Leave(p) PROVE PortInv'
  <2>1. CASE runtime # None /\ runtime.pid = p
    <3>1. proc'[p].step \notin Bound /\ \A q \in Processes \ {p} : proc'[q] = proc[q]
      BY <1>1, <1>11, <2>1, Steps DEF Leave, Plain, Bound
    <3>2. QED
      BY <1>3, <1>11, <2>1, <3>1 DEF Leave
  <2>2. CASE ~(runtime # None /\ runtime.pid = p)
    BY <1>4, <1>11, <2>2 DEF Leave, Ending
  <2>3. QED
    BY <2>1, <2>2
<1>12. ASSUME NEW p \in Processes, Unlink(p) PROVE PortInv'
  <2>1. Off \in Process
    BY DEF Process
  <2>2. proc'[p].step \notin Bound /\ \A q \in Processes \ {p} : proc'[q] = proc[q]
    BY <1>1, <1>12, <2>1, Becomes DEF Unlink, Off, Bound
  <2>3. QED
    BY <1>3, <1>12, <2>2 DEF Unlink
<1>13. ASSUME NEW p \in Processes, Interrupt(p) PROVE PortInv'
  <2>1. CASE Ending(p)
    BY <1>4, <2>1
  <2>2. CASE ~Ending(p)
    BY <1>3, <1>13, <2>2, Interrupted DEF PortInv
  <2>3. QED
    BY <2>1, <2>2
<1>14. ASSUME UNCHANGED <<proc, port>> PROVE PortInv'
  BY <1>14 DEF PortInv
<1>15. CASE LaunchService \/ (\E d \in Terminals : LaunchTerminal(d))
              \/ (\E c \in Commands : LaunchCommand(c))
  BY <1>2, <1>5, <1>15 DEF LaunchService, LaunchTerminal, LaunchCommand
<1>16. CASE Age \/ (\E a \in Addresses : MoveNetwork(a)) \/ UNCHANGED vars
  BY <1>14, <1>16 DEF Age, MoveNetwork, vars
<1>17. QED
  BY <1>6, <1>7, <1>8, <1>9, <1>10, <1>11, <1>12, <1>13, <1>15, <1>16 DEF Next, Continue

\* However many daemons are launched by hand beside the service's, at most one serves:
\* binding the port decides (service.py, serve), and whoever loses it leaves.
THEOREM OneServer ==
  Spec => [](\A d, e \in Daemons :
               proc[d].step = "serve" /\ proc[e].step = "serve" => d = e)
<1>1. PortInv => \A d, e \in Daemons :
                   proc[d].step = "serve" /\ proc[e].step = "serve" => d = e
  BY DEF PortInv, Bound
<1>2. Typed /\ PortInv /\ [Next]_vars => (Typed /\ PortInv)'
  BY TypeStep, PortStep
<1>3. QED
  BY <1>1, <1>2, TypeInit, PortInit, PTL DEF Spec

-----------------------------------------------------------------------------
(***************************************************************************)
(* runtime.json names the daemon that serves.                              *)
(***************************************************************************)
\* Already when it binds the port the daemon has said which address it takes, and
\* nobody else writes or removes the file as long as nothing was launched by hand.
Announced == Bound \cup {"bind"}

RuntimeInv ==
  by_hand = {} =>
    /\ \A t \in Terminals : proc[t] = Off
    /\ proc[Service].step \in Announced =>
         runtime = [pid |-> Service, address |-> proc[Service].address]

\* No daemon runs at first.
LEMMA RuntimeInit == Init => RuntimeInv
BY DEF Init, RuntimeInv, Off, Announced, Bound, Processes, Daemons

\* Every step of the service's daemon and of the commands keeps the file.
LEMMA RuntimeStep == Typed /\ RuntimeInv /\ [Next]_vars => RuntimeInv'
<1> SUFFICES ASSUME Typed, RuntimeInv, [Next]_vars, by_hand' = {}
             PROVE  /\ \A t \in Terminals : proc'[t] = Off
                    /\ proc'[Service].step \in Announced =>
                         runtime' = [pid |-> Service, address |-> proc'[Service].address]
  BY DEF RuntimeInv
<1> DEFINE Kept == /\ \A t \in Terminals : proc'[t] = Off
                   /\ proc'[Service].step \in Announced =>
                        runtime' = [pid |-> Service, address |-> proc'[Service].address]
<1>1. TypeOK /\ Service \in Processes /\ Terminals \subseteq Processes /\ Service \notin Terminals
  BY LifecycleAssumption DEF Typed, Processes, Daemons
<1>2. ASSUME NEW p \in Processes, proc[p] # Off, UNCHANGED by_hand,
             \A q \in Processes \ {p} : proc'[q] = proc[q],
             p = Service /\ proc'[p].step \in Announced =>
               runtime' = [pid |-> Service, address |-> proc'[p].address],
             p # Service => runtime' = runtime \/ p \in Daemons
      PROVE  Kept
  BY <1>1, <1>2 DEF RuntimeInv, Daemons
<1>3. ASSUME NEW p \in Processes, proc[p] # Off, UNCHANGED by_hand, Ending(p) PROVE Kept
  <2>1. proc'[p].step \notin Announced
    BY <1>3, Ends DEF Ending, Announced, Bound
  <2>2. QED
    BY <1>2, <1>3, <2>1, Ends DEF Ending
<1>4. CASE LaunchService
  <2>1. /\ UNCHANGED <<runtime, port, by_hand>> /\ proc'[Service].step \in BeforeTry
        /\ \A q \in Processes \ {Service} : proc'[q] = proc[q]
    BY <1>1, <1>4, Launched DEF LaunchService
  <2>2. QED
    BY <1>1, <2>1 DEF RuntimeInv, BeforeTry, Announced, Bound
<1>5. ASSUME NEW d \in Terminals, LaunchTerminal(d) PROVE Kept
  BY <1>5 DEF LaunchTerminal
<1>6. ASSUME NEW c \in Commands, LaunchCommand(c) PROVE Kept
  <2>1. c \in Processes /\ c # Service /\ c \notin Terminals
    BY LifecycleAssumption DEF Processes, Daemons
  <2>2. /\ UNCHANGED <<runtime, port, by_hand>>
        /\ \A q \in Processes \ {c} : proc'[q] = proc[q]
    BY <1>6, <2>1, Launched DEF LaunchCommand
  <2>3. QED
    BY <1>1, <2>1, <2>2 DEF RuntimeInv
<1>7. ASSUME NEW p \in Processes, ReadKey(p) \/ CreateKey(p) \/ WriteKey(p) \/ Look(p)
      PROVE  Kept
  <2>1. CASE Ending(p)
    BY <1>3, <1>7, <2>1, Begins
  <2>2. CASE ~Ending(p)
    <3>1. p = Service => proc'[p].step \notin Announced
      BY <1>7, <2>2, Begins DEF BeforeTry, Announced, Bound, Daemons
    <3>2. QED
      BY <1>2, <1>7, <2>2, <3>1, Begins
  <2>3. QED
    BY <2>1, <2>2
<1>8. ASSUME NEW p \in Processes, Announce(p) PROVE Kept
  <2>1. proc[p] # Off /\ p \in Daemons
    BY <1>8 DEF Announce, Off, Typed, DaemonSteps, Processes
  <2>2. /\ proc'[p].address = proc[p].address
        /\ \A q \in Processes \ {p} : proc'[q] = proc[q]
    BY <1>1, <1>8, Steps DEF Announce, Plain
  <2>3. runtime' = [pid |-> p, address |-> proc[p].address] /\ UNCHANGED by_hand
    BY <1>8 DEF Announce, RuntimeOf
  <2>4. QED
    BY <1>2, <2>1, <2>2, <2>3
<1>9. ASSUME NEW p \in Processes, Bind(p) PROVE Kept
  <2>1. proc[p] # Off /\ UNCHANGED by_hand
    BY <1>9 DEF Bind, Off
  <2>2. CASE port = None
    <3>1. /\ proc'[p].address = proc[p].address /\ UNCHANGED runtime
          /\ proc[p].step \in Announced /\ proc'[p].step \in Announced
          /\ \A q \in Processes \ {p} : proc'[q] = proc[q]
      BY <1>1, <1>9, <2>2, Steps DEF Bind, Plain, Announced, Bound
    <3>2. QED
      BY <1>2, <2>1, <3>1 DEF RuntimeInv
  <2>3. CASE port # None
    BY <1>3, <1>9, <2>1, <2>3 DEF Bind, Ending
  <2>4. QED
    BY <2>2, <2>3
<1>10. ASSUME NEW p \in Processes,
             \/ Check(p) \/ Clean(p) \/ GenerateKey(p) \/ GenerateCertificate(p)
             \/ MoveKey(p) \/ MoveCertificate(p) \/ Load(p) \/ Watch(p)
      PROVE  Kept
  <2>1. CASE Ending(p)
    BY <1>3, <1>10, <2>1, Serving
  <2>2. CASE ~Ending(p)
    BY <1>2, <1>10, <2>2, Serving DEF RuntimeInv, Announced
  <2>3. QED
    BY <2>1, <2>2
<1>11. ASSUME NEW p \in Processes, Close(p) PROVE Kept
  <2>1. proc[p] # Off /\ UNCHANGED <<by_hand, runtime>>
    BY <1>11 DEF Close, Off
  <2>2. proc'[p].step \notin Announced /\ \A q \in Processes \ {p} : proc'[q] = proc[q]
    BY <1>1, <1>11, Steps DEF Close, Plain, Announced, Bound
  <2>3. QED
    BY <1>2, <2>1, <2>2
<1>12. ASSUME NEW p \in Processes, Leave(p) PROVE Kept
  <2>1. proc[p] # Off /\ UNCHANGED by_hand
    BY <1>12 DEF Leave, Off
  <2>2. CASE runtime # None /\ runtime.pid = p
    <3>1. /\ proc'[p].step \notin Announced /\ UNCHANGED runtime
          /\ \A q \in Processes \ {p} : proc'[q] = proc[q]
      BY <1>1, <1>12, <2>2, Steps DEF Leave, Plain, Announced, Bound
    <3>2. QED
      BY <1>2, <2>1, <3>1
  <2>3. CASE ~(runtime # None /\ runtime.pid = p)
    BY <1>3, <1>12, <2>1, <2>3 DEF Leave, Ending
  <2>4. QED
    BY <2>2, <2>3
<1>13. ASSUME NEW p \in Processes, Unlink(p) PROVE Kept
  <2>1. proc[p] # Off /\ UNCHANGED by_hand /\ p \in Daemons /\ Off \in Process
    BY <1>13 DEF Unlink, Off, Typed, DaemonSteps, Processes, Process
  <2>2. proc'[p].step \notin Announced /\ \A q \in Processes \ {p} : proc'[q] = proc[q]
    BY <1>1, <1>13, <2>1, Becomes DEF Unlink, Off, Announced, Bound
  <2>3. QED
    BY <1>2, <2>1, <2>2
<1>14. ASSUME NEW p \in Processes, Interrupt(p) PROVE Kept
  <2>1. CASE Ending(p)
    BY <1>3, <1>14, <2>1, Interrupted
  <2>2. CASE ~Ending(p)
    BY <1>2, <1>14, <2>2, Interrupted DEF RuntimeInv, Announced
  <2>3. QED
    BY <2>1, <2>2
<1>15. CASE Age \/ (\E a \in Addresses : MoveNetwork(a)) \/ UNCHANGED vars
  BY <1>15 DEF Age, MoveNetwork, vars, RuntimeInv
<1>16. QED
  BY <1>4, <1>5, <1>6, <1>7, <1>8, <1>9, <1>10, <1>11, <1>12, <1>13, <1>14, <1>15
  DEF Next, Continue

\* While nobody has launched a second daemon, runtime.json (cli.py 244-275) names the
\* daemon that serves and the address it advertises, after any number of killed and
\* restarted daemons.
THEOREM RuntimeNames == Spec => []RuntimeNamesServer
<1>1. RuntimeInv => RuntimeNamesServer
  BY DEF RuntimeInv, RuntimeNamesServer, Serves, Announced, Bound
<1>2. Typed /\ RuntimeInv /\ [Next]_vars => (Typed /\ RuntimeInv)'
  BY TypeStep, RuntimeStep
<1>3. QED
  BY <1>1, <1>2, TypeInit, RuntimeInit, PTL DEF Spec

-----------------------------------------------------------------------------
(***************************************************************************)
(* What a daemon serves was made for its address.                          *)
(***************************************************************************)
\* The files that openssl wrote, before and after they are moved, are a key with its
\* certificate, made for the daemon's address, whatever became of earlier ones; nobody
\* else writes the files as long as nothing was launched by hand.
IsPair(key, cert, address) ==
  /\ key # None /\ cert # None
  /\ cert.id = key /\ cert.address = address

Fitting(v, files) ==
  /\ v.step = "certgen" => files.new_key = v.id
  /\ v.step = "move_key" => IsPair(files.new_key, files.new_cert, v.address)
  /\ v.step = "move_cert" => IsPair(files.key, files.new_cert, v.address)
  /\ v.step = "load" => IsPair(files.key, files.cert, v.address)
  /\ v.step = "serve" => v.loaded.address = v.address

IdentityInv ==
  commands = 0 =>
    /\ \A p \in Processes \ {Service} : proc[p] = Off
    /\ Fitting(proc[Service], tls)

\* No daemon runs at first.
LEMMA IdentityInit == Init => IdentityInv
BY DEF Init, IdentityInv, Fitting, Off, Processes, Daemons

\* Every step of the service's daemon keeps what it made for its own address.
LEMMA IdentityStep == Typed /\ IdentityInv /\ [Next]_vars => IdentityInv'
<1> SUFFICES ASSUME Typed, IdentityInv, [Next]_vars, commands' = 0
             PROVE  /\ \A p \in Processes \ {Service} : proc'[p] = Off
                    /\ Fitting(proc'[Service], tls')
  BY DEF IdentityInv
<1> DEFINE Kept == /\ \A p \in Processes \ {Service} : proc'[p] = Off
                   /\ Fitting(proc'[Service], tls')
<1>1. TypeOK /\ Service \in Processes /\ Service \in Daemons /\ proc[Service] \in Process
  BY DEF Typed, TypeOK, Processes, Daemons
<1>2. ASSUME NEW p \in Processes, proc[p] # Off, UNCHANGED commands,
             \A q \in Processes \ {p} : proc'[q] = proc[q],
             p = Service => Fitting(proc'[p], tls')
      PROVE  Kept
  BY <1>1, <1>2 DEF IdentityInv
<1>3. ASSUME NEW p \in Processes, proc[p] # Off, UNCHANGED commands, Ending(p) PROVE Kept
  <2>1. proc'[p].step \in {"off", "leave"} /\ \A q \in Processes \ {p} : proc'[q] = proc[q]
    BY <1>3, Ends DEF Ending
  <2>2. QED
    BY <1>2, <1>3, <2>1 DEF Fitting
<1>4. CASE LaunchService
  <2>1. /\ proc'[Service].step \in BeforeTry /\ UNCHANGED commands
        /\ \A q \in Processes \ {Service} : proc'[q] = proc[q]
    BY <1>1, <1>4, Launched DEF LaunchService
  <2>2. QED
    BY <1>1, <2>1 DEF IdentityInv, Fitting, BeforeTry
<1>5. CASE (\E d \in Terminals : LaunchTerminal(d)) \/ (\E c \in Commands : LaunchCommand(c))
  <2>1. commands' = commands + 1
    BY <1>5 DEF LaunchTerminal, LaunchCommand
  <2>2. commands \in Nat
    BY <1>1, LifecycleAssumption DEF TypeOK
  <2>3. QED
    BY <2>1, <2>2
<1>6. ASSUME NEW p \in Processes, ReadKey(p) \/ CreateKey(p) \/ WriteKey(p) \/ Look(p)
      PROVE  Kept
  <2>1. CASE Ending(p)
    BY <1>3, <1>6, <2>1, Begins
  <2>2. CASE ~Ending(p)
    <3>1. p = Service => Fitting(proc'[p], tls')
      BY <1>1, <1>6, <2>2, Begins DEF BeforeTry, Fitting
    <3>2. QED
      BY <1>2, <1>6, <2>2, <3>1, Begins
  <2>3. QED
    BY <2>1, <2>2
<1>7. ASSUME NEW p \in Processes, NEW s \in Plain, Step(p, s), proc[p].step \in Plain,
             UNCHANGED commands,
             s \in {"move_key", "move_cert", "load"} /\ p = Service =>
               Fitting([step |-> s, address |-> proc[p].address], tls')
      PROVE  Kept
  <2>1. /\ proc'[p].step = s /\ proc'[p].address = proc[p].address
        /\ \A q \in Processes \ {p} : proc'[q] = proc[q]
    BY <1>1, <1>7, Steps
  <2>2. proc[p] # Off
    BY <1>7 DEF Off, Plain
  <2>3. p = Service => Fitting(proc'[p], tls')
    BY <1>7, <2>1 DEF Fitting, Plain
  <2>4. QED
    BY <1>2, <1>7, <2>1, <2>2, <2>3
<1>8. ASSUME NEW p \in Processes, Announce(p) \/ Clean(p) \/ Close(p) PROVE Kept
  BY <1>7, <1>8 DEF Announce, Clean, Close, Plain
<1>9. ASSUME NEW p \in Processes, Bind(p) PROVE Kept
  <2>1. CASE port = None
    BY <1>7, <1>9, <2>1 DEF Bind, Plain
  <2>2. CASE port # None
    BY <1>3, <1>9, <2>2 DEF Bind, Ending, Off
  <2>3. QED
    BY <2>1, <2>2
<1>10. ASSUME NEW p \in Processes, Check(p) PROVE Kept
  <2>1. CASE Compatible(proc[p].address)
    <3>1. Fitting([step |-> "load", address |-> proc[p].address], tls)
      BY <2>1 DEF Compatible, Fitting, IsPair
    <3>2. QED
      BY <1>7, <1>10, <2>1, <3>1 DEF Check, Plain
  <2>2. CASE ~Compatible(proc[p].address)
    BY <1>7, <1>10, <2>2 DEF Check, Plain
  <2>3. QED
    BY <2>1, <2>2
<1>11. ASSUME NEW p \in Processes, GenerateKey(p) PROVE Kept
  <2> DEFINE id == CHOOSE id \in Identities : id \notin InUse
             v == [step |-> "certgen", address |-> proc[p].address, id |-> id]
  <2>1. id \in Identities /\ Become(p, v) /\ UNCHANGED commands /\ proc[p].step = "keygen"
        /\ tls' = [tls EXCEPT !.new_key = id]
    BY <1>11 DEF GenerateKey
  <2> HIDE DEF id
  <2>2. proc[p].address \in Addresses
    BY <1>1, <2>1, ProcessFields DEF TypeOK
  <2>3. v \in Process /\ v.step = "certgen" /\ v.id = id /\ proc[p] # Off
    BY <2>1, <2>2 DEF Process, Off
  <2>4. tls'.new_key = id
    BY <1>1, <2>1 DEF TypeOK, Tls
  <2> HIDE DEF v
  <2>5. proc'[p] = v /\ \A q \in Processes \ {p} : proc'[q] = proc[q]
    BY <1>1, <2>1, <2>3, Becomes
  <2>6. QED
    BY <1>2, <2>1, <2>3, <2>4, <2>5 DEF Fitting
<1>12. ASSUME NEW p \in Processes, GenerateCertificate(p) PROVE Kept
  <2> DEFINE v == [step |-> "move_key", address |-> proc[p].address]
  <2>1. proc[p].address \in Addresses /\ proc[p] # Off
    BY <1>1, <1>12, ProcessFields DEF GenerateCertificate, TypeOK, Off
  <2>2. v \in Process
    BY <2>1, PlainProcess DEF Plain
  <2>3. Become(p, v) /\ UNCHANGED commands
    BY <1>12 DEF GenerateCertificate
  <2>4. proc'[p] = v /\ \A q \in Processes \ {p} : proc'[q] = proc[q]
    BY <1>1, <2>2, <2>3, Becomes
  <2>5. proc[p].id \in Identities
    BY <1>1, <1>12, ProcessFields DEF GenerateCertificate, TypeOK
  <2>6. /\ tls'.new_cert = [id |-> proc[p].id, address |-> proc[p].address]
        /\ tls'.new_key = tls.new_key
    BY <1>1, <1>12 DEF GenerateCertificate, TypeOK, Tls
  <2>7. p = Service => tls.new_key = proc[p].id
    BY <1>12, <2>3 DEF GenerateCertificate, IdentityInv, Fitting
  <2>8. p = Service => IsPair(tls'.new_key, tls'.new_cert, proc[p].address)
    BY <2>1, <2>5, <2>6, <2>7, LifecycleAssumption DEF IsPair
  <2>9. p = Service => Fitting(proc'[p], tls')
    BY <2>4, <2>8 DEF Fitting
  <2>10. QED
    BY <1>2, <2>1, <2>3, <2>4, <2>9
<1>13. ASSUME NEW p \in Processes, MoveKey(p) PROVE Kept
  <2>1. CASE tls.new_key # None /\ tls.new_cert # None
    <3>1. /\ Step(p, "move_cert") /\ UNCHANGED commands
          /\ tls'.new_cert = tls.new_cert /\ tls'.key = tls.new_key
      BY <1>1, <1>13, <2>1 DEF MoveKey, TypeOK, Tls
    <3>2. p = Service => Fitting([step |-> "move_cert", address |-> proc[p].address], tls')
      BY <1>13, <3>1 DEF MoveKey, IdentityInv, Fitting
    <3>3. QED
      BY <1>7, <1>13, <3>1, <3>2 DEF MoveKey, Plain
  <2>2. CASE ~(tls.new_key # None /\ tls.new_cert # None)
    BY <1>3, <1>13, <2>2 DEF MoveKey, Ending, Off
  <2>3. QED
    BY <2>1, <2>2
<1>14. ASSUME NEW p \in Processes, MoveCertificate(p) PROVE Kept
  <2>1. CASE tls.new_cert # None
    <3>1. /\ Step(p, "load") /\ UNCHANGED commands
          /\ tls'.cert = tls.new_cert /\ tls'.key = tls.key
      BY <1>1, <1>14, <2>1 DEF MoveCertificate, TypeOK, Tls
    <3>2. p = Service => Fitting([step |-> "load", address |-> proc[p].address], tls')
      BY <1>14, <3>1 DEF MoveCertificate, IdentityInv, Fitting
    <3>3. QED
      BY <1>7, <1>14, <3>1, <3>2 DEF MoveCertificate, Plain
  <2>2. CASE tls.new_cert = None
    BY <1>3, <1>14, <2>2 DEF MoveCertificate, Ending, Off
  <2>3. QED
    BY <2>1, <2>2
<1>15. ASSUME NEW p \in Processes, Load(p) PROVE Kept
  <2>1. CASE p \in Daemons /\ tls.key # None /\ tls.cert # None /\ tls.cert.id = tls.key
    <3> DEFINE v == [step |-> "serve", address |-> proc[p].address,
                     loaded |-> tls.cert, mismatch |-> None]
    <3>1. proc[p].address \in Addresses /\ tls.cert \in Certificate /\ proc[p] # Off
      BY <1>1, <1>15, <2>1, ProcessFields DEF Load, TypeOK, Tls, Off
    <3>2. v \in Process
      BY <3>1 DEF Process
    <3>3. Become(p, v) /\ UNCHANGED commands
      BY <1>15, <2>1 DEF Load
    <3>4. p = Service => tls.cert.address = proc[p].address
      BY <1>15, <2>1, <3>3 DEF Load, IdentityInv, Fitting, IsPair
    <3>5. p = Service => Fitting(v, tls')
      BY <3>4 DEF Fitting
    <3> HIDE DEF v
    <3>6. QED
      BY <1>1, <1>2, <3>1, <3>2, <3>3, <3>5, Becomes
  <2>2. CASE ~(p \in Daemons /\ tls.key # None /\ tls.cert # None /\ tls.cert.id = tls.key)
    BY <1>3, <1>15, <2>2 DEF Load, Ending, Off
  <2>3. QED
    BY <2>1, <2>2
<1>16. ASSUME NEW p \in Processes, Watch(p) PROVE Kept
  <2>1. proc[p] # Off /\ UNCHANGED commands /\ proc[p] \in Process /\ proc[p].address \in Addresses
    BY <1>1, <1>16, ProcessFields DEF Watch, Off, TypeOK
  <2>2. CASE Mismatch(p) # None /\ Mismatch(p) = proc[p].mismatch
    <3>1. [step |-> "close", address |-> proc[p].address] \in Process
      BY <2>1, PlainProcess DEF Plain
    <3>2. proc'[p].step = "close" /\ \A q \in Processes \ {p} : proc'[q] = proc[q]
      BY <1>1, <1>16, <2>2, <3>1, Becomes DEF Watch
    <3>3. QED
      BY <1>2, <2>1, <3>2 DEF Fitting
  <2>3. CASE ~(Mismatch(p) # None /\ Mismatch(p) = proc[p].mismatch)
    <3> DEFINE v == [proc[p] EXCEPT !.mismatch = Mismatch(p)]
    <3>1. /\ v \in Process /\ v.step = "serve" /\ v.address = proc[p].address
          /\ v.loaded = proc[p].loaded
      BY <1>1, <1>16, <2>1 DEF Process, Off, Watch, TypeOK, Mismatch
    <3>2. Become(p, v)
      BY <1>1, <1>16, <2>3 DEF Watch, Become, TypeOK
    <3> HIDE DEF v
    <3>3. p = Service => v.loaded.address = v.address
      BY <1>16, <2>1, <3>1 DEF Watch, IdentityInv, Fitting
    <3>4. QED
      BY <1>1, <1>2, <2>1, <3>1, <3>2, <3>3, Becomes DEF Fitting
  <2>4. QED
    BY <2>2, <2>3
<1>17. ASSUME NEW p \in Processes, Leave(p) PROVE Kept
  <2>1. CASE runtime # None /\ runtime.pid = p
    BY <1>7, <1>17, <2>1 DEF Leave, Plain
  <2>2. CASE ~(runtime # None /\ runtime.pid = p)
    BY <1>3, <1>17, <2>2 DEF Leave, Ending, Off
  <2>3. QED
    BY <2>1, <2>2
<1>18. ASSUME NEW p \in Processes, Unlink(p) PROVE Kept
  <2>1. proc[p] # Off /\ UNCHANGED commands /\ Off \in Process
    BY <1>18 DEF Unlink, Off, Process
  <2>2. proc'[p] = Off /\ \A q \in Processes \ {p} : proc'[q] = proc[q]
    BY <1>1, <1>18, <2>1, Becomes DEF Unlink
  <2>3. QED
    BY <1>2, <2>1, <2>2 DEF Fitting, Off
<1>19. ASSUME NEW p \in Processes, Interrupt(p) PROVE Kept
  <2>1. CASE Ending(p)
    BY <1>3, <1>19, <2>1, Interrupted
  <2>2. CASE ~Ending(p)
    BY <1>2, <1>19, <2>2, Interrupted DEF Fitting
  <2>3. QED
    BY <2>1, <2>2
<1>20. CASE Age \/ (\E a \in Addresses : MoveNetwork(a)) \/ UNCHANGED vars
  BY <1>20 DEF Age, MoveNetwork, vars, IdentityInv
<1>21. QED
  BY <1>4, <1>5, <1>6, <1>8, <1>9, <1>10, <1>11, <1>12, <1>13, <1>14, <1>15, <1>16, <1>17,
     <1>18, <1>19, <1>20 DEF Next, Continue

\* As long as nothing but the service's daemon ran, what it serves was made for the address
\* it advertises (ensure_certificate), whenever it was killed and however often the network
\* moved.
THEOREM ServesOwnAddress == Spec => []ServesItsAddress
<1>1. Typed /\ IdentityInv => ServesItsAddress
  BY DEF Typed, IdentityInv, Fitting, ServesItsAddress, Daemons, Processes, Off
<1>2. Typed /\ IdentityInv /\ [Next]_vars => (Typed /\ IdentityInv)'
  BY TypeStep, IdentityStep
<1>3. QED
  BY <1>1, <1>2, TypeInit, IdentityInit, PTL DEF Spec

\* The files a daemon is about to move or to load are there and belong together.
FilesReady ==
  commands = 0 =>
    \A d \in Daemons :
      /\ proc[d].step = "move_key" => tls.new_key # None /\ tls.new_cert # None
      /\ proc[d].step = "move_cert" => tls.new_cert # None
      /\ proc[d].step = "load" =>
           tls.key # None /\ tls.cert # None /\ tls.cert.id = tls.key

\* As long as nothing but the service's daemon ran, a renewal that is not interrupted goes
\* through: neither chmod nor the moves of ensure_certificate (service.py 692-732) miss a file,
\* and load_cert_chain never refuses a key with the certificate of another, whatever an
\* interrupted renewal left behind, between the two moves as well.
THEOREM RenewalGoesThrough == Spec => []FilesReady
<1>1. Typed /\ IdentityInv => FilesReady
  BY DEF Typed, IdentityInv, Fitting, IsPair, FilesReady, Daemons, Processes, Off
<1>2. Typed /\ IdentityInv /\ [Next]_vars => (Typed /\ IdentityInv)'
  BY TypeStep, IdentityStep
<1>3. QED
  BY <1>1, <1>2, TypeInit, IdentityInit, PTL DEF Spec

-----------------------------------------------------------------------------
(***************************************************************************)
(* When the server key is lost.                                            *)
(***************************************************************************)
\* A server key that is created and not written yet is being written.
KeyInv ==
  server_key = "short" /\ kills = 0 => \E p \in Processes : proc[p].step = "write"

\* A step of a process changes that process alone.
LEMMA OthersKeep ==
  ASSUME Typed, NEW p \in Processes, Continue(p) \/ Interrupt(p), NEW q \in Processes \ {p}
  PROVE  proc'[q] = proc[q]
<1>1. proc \in [Processes -> Process]
  BY DEF Typed, TypeOK
<1>2. ASSUME NEW v, Become(p, v) PROVE proc'[q] = proc[q]
  BY <1>1, <1>2 DEF Become
<1>3. ASSUME NEW s, Step(p, s) PROVE proc'[q] = proc[q]
  BY <1>2, <1>3 DEF Step
<1>4. ASSUME Exit(p) \/ Raise(p) PROVE proc'[q] = proc[q]
  BY <1>2, <1>4 DEF Exit, Raise
<1>5. CASE ReadKey(p) \/ CreateKey(p) \/ WriteKey(p) \/ Look(p) \/ Announce(p) \/ Bind(p)
  <2>1. CASE ReadKey(p)
    <3>1. server_key \in {"none", "short", "whole"}
      BY DEF Typed, TypeOK
    <3>2. Become(p, AfterKey(p)) \/ Step(p, "create") \/ Raise(p)
      BY <2>1, <3>1 DEF ReadKey
    <3>3. QED
      BY <1>2, <1>3, <1>4, <3>2
  <2>2. CASE CreateKey(p) \/ WriteKey(p)
    BY <1>2, <1>3, <1>4, <2>2 DEF CreateKey, WriteKey
  <2>3. CASE Look(p) \/ Announce(p) \/ Bind(p)
    BY <1>2, <1>3, <1>4, <2>3 DEF Look, Announce, Bind
  <2>4. QED
    BY <1>5, <2>1, <2>2, <2>3
<1>6. CASE Check(p) \/ Clean(p) \/ GenerateKey(p) \/ GenerateCertificate(p)
  BY <1>1, <1>2, <1>3, <1>6 DEF Check, Clean, GenerateKey, GenerateCertificate
<1>7. CASE MoveKey(p) \/ MoveCertificate(p) \/ Load(p)
  BY <1>2, <1>3, <1>4, <1>7 DEF MoveKey, MoveCertificate, Load
<1>8. CASE Watch(p) \/ Close(p) \/ Leave(p) \/ Unlink(p)
  BY <1>1, <1>2, <1>3, <1>4, <1>8 DEF Watch, Close, Leave, Unlink
<1>9. CASE Interrupt(p)
  BY <1>2, <1>4, <1>9 DEF Interrupt
<1>10. QED
  BY <1>5, <1>6, <1>7, <1>8, <1>9 DEF Continue

\* Only the step that writes the key takes a process away from writing it, unless the
\* process is interrupted; only CreateKey brings one there, when there is no key.
LEMMA KeySteps ==
  ASSUME Typed, NEW p \in Processes, Continue(p)
  PROVE  /\ kills' = kills
         /\ \/ proc[p].step = "write" /\ server_key' = "whole"
            \/ server_key = "none" /\ server_key' = "short" /\ proc'[p].step = "write"
            \/ server_key' = server_key /\ proc[p].step # "write" /\ proc'[p].step # "write"
<1> DEFINE Reading == server_key' = server_key /\ proc[p].step # "write" /\ proc'[p].step # "write"
<1>1. /\ proc \in [Processes -> Process] /\ proc[p] \in Process
      /\ server_key \in {"none", "short", "whole"}
  BY DEF Typed, TypeOK
<1>2. ASSUME NEW v, Become(p, v) PROVE proc'[p] = v
  BY <1>1, <1>2 DEF Become
<1>3. ASSUME NEW s, Step(p, s) PROVE proc'[p].step = s
  <2>1. [proc[p] EXCEPT !.step = s].step = s
    BY <1>1 DEF Process, Off
  <2>2. QED
    BY <1>2, <1>3, <2>1 DEF Step
<1>4. ASSUME Raise(p) \/ Exit(p) PROVE proc'[p].step \in {"off", "leave"}
  BY <1>2, <1>4 DEF Raise, Exit, Off
<1>5. CASE ReadKey(p)
  <2>1. proc[p].step = "key" /\ UNCHANGED <<server_key, kills>>
    BY <1>5 DEF ReadKey
  <2>2. Become(p, AfterKey(p)) \/ Step(p, "create") \/ Raise(p)
    BY <1>1, <1>5 DEF ReadKey
  <2>3. AfterKey(p).step # "write"
    BY <2>1, AfterKeyType DEF Starting
  <2>4. QED
    BY <1>2, <1>3, <1>4, <2>1, <2>2, <2>3
<1>6. CASE CreateKey(p)
  BY <1>3, <1>4, <1>6 DEF CreateKey
<1>7. CASE WriteKey(p)
  BY <1>7 DEF WriteKey
<1>8. CASE Look(p) \/ Announce(p) \/ Bind(p)
  <2>1. Reading
    BY <1>2, <1>3, <1>4, <1>8 DEF Look, Announce, Bind
  <2>2. QED
    BY <1>8, <2>1 DEF Look, Announce, Bind
<1>9. CASE Check(p) \/ Clean(p) \/ GenerateKey(p) \/ GenerateCertificate(p)
  <2>1. Reading
    BY <1>2, <1>3, <1>9 DEF Check, Clean, GenerateKey, GenerateCertificate
  <2>2. QED
    BY <1>9, <2>1 DEF Check, Clean, GenerateKey, GenerateCertificate
<1>10. CASE MoveKey(p) \/ MoveCertificate(p) \/ Load(p)
  <2>1. Reading
    BY <1>2, <1>3, <1>4, <1>10 DEF MoveKey, MoveCertificate, Load
  <2>2. QED
    BY <1>10, <2>1 DEF MoveKey, MoveCertificate, Load
<1>11. CASE Close(p) \/ Leave(p) \/ Unlink(p)
  <2>1. Reading
    BY <1>2, <1>3, <1>4, <1>11 DEF Close, Leave, Unlink, Off
  <2>2. QED
    BY <1>11, <2>1 DEF Close, Leave, Unlink
<1>12. CASE Watch(p)
  <2>1. [proc[p] EXCEPT !.mismatch = Mismatch(p)].step = proc[p].step
    BY <1>1 DEF Process, Off
  <2>2. \/ Become(p, [step |-> "close", address |-> proc[p].address])
        \/ Become(p, [proc[p] EXCEPT !.mismatch = Mismatch(p)])
    BY <1>1, <1>12 DEF Watch, Become
  <2>3. proc'[p].step \in {"serve", "close"}
    <3>1. proc[p].step = "serve"
      BY <1>12 DEF Watch
    <3>2. CASE Become(p, [step |-> "close", address |-> proc[p].address])
      BY <1>2, <3>2
    <3>3. CASE Become(p, [proc[p] EXCEPT !.mismatch = Mismatch(p)])
      <4>1. proc'[p] = [proc[p] EXCEPT !.mismatch = Mismatch(p)]
        BY <1>2, <3>3
      <4>2. QED
        BY <2>1, <3>1, <4>1
    <3>4. QED
      BY <2>2, <3>2, <3>3
  <2>4. QED
    BY <1>12, <2>3 DEF Watch
<1>13. QED
  BY <1>5, <1>6, <1>7, <1>8, <1>9, <1>10, <1>11, <1>12 DEF Continue

\* No step but those of one process touches the server key or what processes write.
LEMMA KeyElsewhere ==
  ASSUME Typed,
         \/ LaunchService \/ (\E d \in Terminals : LaunchTerminal(d))
         \/ (\E c \in Commands : LaunchCommand(c))
         \/ (\E a \in Addresses : MoveNetwork(a)) \/ Age \/ UNCHANGED vars
  PROVE  /\ UNCHANGED <<server_key, kills>>
         /\ \A q \in Processes : proc'[q].step = "write" <=> proc[q].step = "write"
<1>1. proc \in [Processes -> Process] /\ TypeOK
  BY DEF Typed, TypeOK
<1>2. ASSUME NEW p \in Processes, NEW pair \in BOOLEAN, Launch(p, pair)
      PROVE  /\ UNCHANGED <<server_key, kills>>
             /\ \A q \in Processes : proc'[q].step = "write" <=> proc[q].step = "write"
  <2>1. /\ proc[p] = Off /\ UNCHANGED <<server_key, kills>>
        /\ Become(p, [step |-> "key", address |-> Advertised, pair |-> pair])
    BY <1>2 DEF Launch
  <2>2. /\ proc'[p].step = "key" /\ proc[p].step = "off"
        /\ \A q \in Processes \ {p} : proc'[q] = proc[q]
    BY <1>1, <2>1 DEF Become, Off
  <2>3. QED
    BY <2>1, <2>2
<1>3. Service \in Processes /\ Terminals \subseteq Processes /\ Commands \subseteq Processes
  BY DEF Processes, Daemons
<1>4. QED
  BY <1>2, <1>3 DEF LaunchService, LaunchTerminal, LaunchCommand, MoveNetwork, Age, vars

\* Every step keeps a writer for a key that is not written, unless one is interrupted.
LEMMA KeyStep == Typed /\ KeyInv /\ [Next]_vars => KeyInv'
<1> SUFFICES ASSUME Typed, KeyInv, [Next]_vars, server_key' = "short", kills' = 0
             PROVE  \E q \in Processes : proc'[q].step = "write"
  BY DEF KeyInv
<1>1. ASSUME NEW p \in Processes, Continue(p) PROVE \E q \in Processes : proc'[q].step = "write"
  <2>1. kills = 0 /\ server_key' # "whole"
    BY <1>1, KeySteps
  <2>2. CASE proc'[p].step = "write"
    BY <2>2
  <2>3. CASE proc'[p].step # "write"
    <3>1. server_key = "short" /\ proc[p].step # "write"
      BY <1>1, <2>1, <2>3, KeySteps
    <3>2. PICK q \in Processes : proc[q].step = "write"
      BY <2>1, <3>1 DEF KeyInv
    <3>3. proc'[q] = proc[q]
      BY <1>1, <3>1, <3>2, OthersKeep
    <3>4. QED
      BY <3>2, <3>3
  <2>4. QED
    BY <2>2, <2>3
<1>2. ASSUME NEW p \in Processes, Interrupt(p) PROVE FALSE
  <2>1. kills' = kills + 1 /\ kills \in 0..MaxKills /\ MaxKills \in Nat
    BY <1>2, LifecycleAssumption DEF Interrupt, Typed, TypeOK
  <2>2. QED
    BY <2>1
<1>3. CASE \/ LaunchService \/ (\E d \in Terminals : LaunchTerminal(d))
           \/ (\E c \in Commands : LaunchCommand(c))
           \/ (\E a \in Addresses : MoveNetwork(a)) \/ Age \/ UNCHANGED vars
  BY <1>3, KeyElsewhere DEF KeyInv
<1>4. QED
  BY <1>1, <1>2, <1>3 DEF Next

\* The server key is lost only when a process is interrupted between creating the file and
\* writing it (load_or_create_key, security.py 44-58), however many processes create it at
\* the same time: what SettlesAtAddress rules out takes a killed process or a failed write.
THEOREM KeyLostByKill == Spec => [](KeyLost => kills > 0)
<1>1. Init => KeyInv
  BY DEF Init, KeyInv
<1>2. Typed /\ KeyInv => (KeyLost => kills > 0)
  BY DEF Typed, TypeOK, KeyInv, KeyLost
<1>3. QED
  BY <1>1, <1>2, TypeInit, TypeStep, KeyStep, PTL DEF Spec

\* A lost server key stays lost: no later process writes or removes the short file
\* (load_or_create_key refuses it), so that no daemon starts from then on.
THEOREM KeyStaysLost == Spec => [][KeyLost => KeyLost']_vars
<1>1. ASSUME Typed, [Next]_vars, KeyLost PROVE KeyLost'
  <2>1. ASSUME NEW p \in Processes, Continue(p) PROVE KeyLost'
    <3>1. server_key' = server_key /\ proc'[p].step # "write"
      BY <1>1, <2>1, KeySteps DEF KeyLost
    <3>2. QED
      BY <1>1, <2>1, <3>1, OthersKeep DEF KeyLost
  <2>2. ASSUME NEW p \in Processes, Interrupt(p) PROVE KeyLost'
    <3>1. server_key' = server_key /\ proc'[p].step # "write"
      BY <1>1, <2>2, Interrupted, Ends DEF Interrupt, KeyLost, Ending
    <3>2. QED
      BY <1>1, <2>2, <3>1, OthersKeep DEF KeyLost
  <2>3. CASE \/ LaunchService \/ (\E d \in Terminals : LaunchTerminal(d))
             \/ (\E c \in Commands : LaunchCommand(c))
             \/ (\E a \in Addresses : MoveNetwork(a)) \/ Age \/ UNCHANGED vars
    BY <1>1, <2>3, KeyElsewhere DEF KeyLost
  <2>4. QED
    BY <1>1, <2>1, <2>2, <2>3 DEF Next
<1>2. Typed /\ [Next]_vars => [KeyLost => KeyLost']_vars
  BY <1>1
<1>3. QED
  BY <1>2, TypeInit, TypeStep, PTL DEF Spec

-----------------------------------------------------------------------------
(***************************************************************************)
(* RouteSelect, whose choice is the network of PortalLifecycle, for any    *)
(* routes, devices, addresses and widths.                                  *)
(***************************************************************************)
\* A nonempty set of naturals has a least element.
LEMMA LeastExists ==
  ASSUME NEW K \in SUBSET Nat, K # {}
  PROVE  \E k \in K : \A j \in K : k <= j
<1> DEFINE Less == {p \in Nat \X Nat : p[1] < p[2]}
<1>1. IsWellFoundedOn(Less, Nat)
  BY NatLessThanWellFounded DEF OpToRel
<1>2. \A j, k \in Nat : j < k => <<j, k>> \in Less
  OBVIOUS
<1> HIDE DEF Less
<1>3. PICK k \in K : \A j \in K : <<j, k>> \notin Less
  BY <1>1, WFMin
<1>4. ASSUME NEW j \in K PROVE k <= j
  <2>1. j \in Nat /\ k \in Nat /\ ~(j < k)
    BY <1>2, <1>3
  <2>2. QED
    BY <2>1
<1>5. QED
  BY <1>4

\* What the code takes as the first of several addresses is one of them.
LEMMA FirstIsLeast ==
  ASSUME NEW K \in SUBSET Nat, K # {}
  PROVE  First(K) \in K /\ \A j \in K : First(K) <= j
BY LeastExists DEF First

\* The listings are empty at first.
LEMMA RouteTypeInit == RouteInit => RouteTypeOK
BY DEF RouteInit, RouteTypeOK

\* A sequence with an element inserted is one.
LEMMA InsertIsSeq ==
  ASSUME NEW S, NEW s \in Seq(S), NEW e \in S, NEW i \in 1..(Len(s) + 1)
  PROVE  InsertAt(s, i, e) \in Seq(S)
<1>1. SubSeq(s, 1, i - 1) \in Seq(S) /\ SubSeq(s, i, Len(s)) \in Seq(S) /\ <<e>> \in Seq(S)
  OBVIOUS
<1>2. QED
  BY <1>1 DEF InsertAt

\* A sequence with an element removed is one.
LEMMA RemoveIsSeq ==
  ASSUME NEW S, NEW s \in Seq(S), NEW i \in 1..Len(s)
  PROVE  RemoveAt(s, i) \in Seq(S)
<1>1. SubSeq(s, 1, i - 1) \in Seq(S) /\ SubSeq(s, i + 1, Len(s)) \in Seq(S)
  OBVIOUS
<1>2. QED
  BY <1>1 DEF RemoveAt

\* They stay well typed whatever the kernel changes.
LEMMA RouteTypeStep == RouteTypeOK /\ [RouteNext]_listings => RouteTypeOK'
<1> SUFFICES ASSUME RouteTypeOK, [RouteNext]_listings PROVE RouteTypeOK'
  OBVIOUS
<1>1. ASSUME NEW route \in Route, NEW i \in 1..(Len(routes) + 1), AddRoute(route, i)
      PROVE  RouteTypeOK'
  BY <1>1, InsertIsSeq DEF AddRoute, RouteTypeOK
<1>2. ASSUME NEW i \in DOMAIN routes, DeleteRoute(i) PROVE RouteTypeOK'
  <2>1. i \in 1..Len(routes)
    BY DEF RouteTypeOK
  <2>2. QED
    BY <1>2, <2>1, RemoveIsSeq DEF DeleteRoute, RouteTypeOK
<1>3. ASSUME NEW i \in DOMAIN routes, Link(i) PROVE RouteTypeOK'
  <2>1. routes[i] \in Route
    BY DEF RouteTypeOK
  <2>2. [routes[i] EXCEPT !.up = ~routes[i].up] \in Route
    BY <2>1 DEF Route
  <2>3. QED
    BY <1>3, <2>2 DEF Link, RouteTypeOK
<1>4. ASSUME NEW d \in Devices, NEW info \in Info, AddAddress(d, info) PROVE RouteTypeOK'
  <2>1. Append(interfaces[d], info) \in Seq(Info)
    BY DEF RouteTypeOK
  <2>2. QED
    BY <1>4, <2>1 DEF AddAddress, RouteTypeOK
<1>5. ASSUME NEW d \in Devices, NEW i \in DOMAIN interfaces[d], DeleteAddress(d, i)
      PROVE  RouteTypeOK'
  <2>1. interfaces[d] \in Seq(Info) /\ i \in 1..Len(interfaces[d])
    BY DEF RouteTypeOK
  <2>2. RemoveAt(interfaces[d], i) \in Seq(Info)
    BY <2>1, RemoveIsSeq
  <2>3. QED
    BY <1>5, <2>2 DEF DeleteAddress, RouteTypeOK
<1>6. CASE UNCHANGED listings
  BY <1>6 DEF listings, RouteTypeOK
<1>7. QED
  BY <1>1, <1>2, <1>3, <1>4, <1>5, <1>6 DEF RouteNext

\* What `ip` lists is well typed in every reachable state.
THEOREM RouteTypeCorrect == RouteSpec => []RouteTypeOK
BY RouteTypeInit, RouteTypeStep, PTL DEF RouteSpec

\* The routes that are not skipped are those of a device with an own private address.
LEMMA LiveRoutes ==
  ASSUME RouteTypeOK
  PROVE  /\ Live = {i \in DOMAIN routes : Usable(routes[i])}
         /\ DOMAIN routes \subseteq Nat
         /\ \A i \in DOMAIN routes : routes[i] \in Route
<1>1. DOMAIN routes \subseteq Nat /\ \A i \in DOMAIN routes : routes[i] \in Route
  BY DEF RouteTypeOK
<1>2. \A d \in Devices : Own(d) # {} <=> Candidates(d) # {}
  BY DEF Own, Candidates
<1>3. \A i \in DOMAIN routes : routes[i].dev \in Devices
  BY <1>1 DEF Route
<1>4. QED
  BY <1>1, <1>2, <1>3 DEF Live, Usable

\* The order of the sort leaves no doubt about the first of the routes it is given.
LEMMA FirstRoute ==
  ASSUME RouteTypeOK, NEW U \in SUBSET DOMAIN routes, U # {}
  PROVE  /\ Chosen(U) \in U
         /\ \A j \in U \ {Chosen(U)} : Precedes(Chosen(U), j)
<1> USE RouteAssumption
<1>1. U \subseteq Nat /\ \A i \in U : routes[i] \in Route /\ routes[i].metric \in Nat
  BY LiveRoutes DEF Route
<1> DEFINE backed == {i \in U : routes[i].gateway # NoAddress}
           class == IF backed = {} THEN U ELSE backed
           metrics == {routes[i].metric : i \in class}
<1>2. class # {} /\ class \subseteq U
  OBVIOUS
<1>3. PICK m \in metrics : \A n \in metrics : m <= n
  <2>1. metrics # {} /\ metrics \subseteq Nat
    BY <1>1, <1>2
  <2> HIDE DEF metrics
  <2>2. QED
    BY <2>1, LeastExists
<1> DEFINE least == {i \in class : routes[i].metric = m}
<1>4. PICK k \in least : \A j \in least : k <= j
  <2>1. least # {} /\ least \subseteq Nat
    BY <1>1, <1>2
  <2> HIDE DEF least
  <2>2. QED
    BY <2>1, LeastExists
<1>5. ASSUME NEW j \in U \ {k} PROVE Precedes(k, j)
  <2>1. k \in U /\ k \in class /\ routes[k].metric = m /\ k \in Nat /\ j \in Nat
    BY <1>1, <1>2, <1>4
  <2>2. CASE j \notin class
    BY <2>1, <2>2 DEF Precedes
  <2>3. CASE j \in class
    <3>1. (routes[j].gateway = NoAddress) = (routes[k].gateway = NoAddress)
      BY <2>1, <2>3
    <3>2. m <= routes[j].metric /\ m \in Nat /\ routes[j].metric \in Nat
      BY <1>1, <1>3, <2>1, <2>3
    <3>3. routes[j].metric = m => k < j
      BY <1>4, <2>1, <2>3
    <3>4. QED
      BY <2>1, <3>1, <3>2, <3>3 DEF Precedes
  <2>4. QED
    BY <2>2, <2>3
<1>6. QED
  BY <1>4, <1>2, <1>5 DEF Chosen

\* Of two routes only one comes first.
LEMMA OrderIsStrict ==
  ASSUME RouteTypeOK, NEW i \in DOMAIN routes, NEW j \in DOMAIN routes, Precedes(i, j)
  PROVE  ~Precedes(j, i)
<1>1. i \in Nat /\ j \in Nat /\ routes[i].metric \in Nat /\ routes[j].metric \in Nat
  BY LiveRoutes, RouteAssumption DEF Route
<1>2. QED
  BY <1>1 DEF Precedes

\* The route that is chosen is a best one.
LEMMA ChosenIsBest ==
  ASSUME RouteTypeOK, Live # {}
  PROVE  /\ Chosen(Live) \in Best
         /\ Choice = SourceOf(routes[Chosen(Live)])
<1>1. \A i \in Live : i \in DOMAIN routes /\ routes[i].metric \in Nat
  BY LiveRoutes, RouteAssumption DEF Live, Route
<1>2. /\ Chosen(Live) \in Live
      /\ \A j \in Live \ {Chosen(Live)} : Precedes(Chosen(Live), j)
  BY <1>1, FirstRoute
<1>3. Chosen(Live) \in Best
  <2> DEFINE c == Chosen(Live)
             backed == {i \in Live : routes[i].gateway # NoAddress}
             class == IF backed = {} THEN Live ELSE backed
  <2>1. c \in class
    BY <1>2 DEF Precedes
  <2>2. \A j \in class : routes[c].metric <= routes[j].metric
    BY <1>1, <1>2, <2>1 DEF Precedes
  <2>3. QED
    BY <2>1, <2>2 DEF Best
<1>4. QED
  BY <1>3, LiveRoutes DEF Choice

\* The source is an own private address of the device, near the gateway if one is.
LEMMA SourceIsOwn ==
  ASSUME RouteTypeOK, NEW r \in Route, Own(r.dev) # {}
  PROVE  /\ SourceOf(r) \in Own(r.dev)
         /\ LET near == {info \in ToSet(interfaces[r.dev]) :
                           info.local \in Private /\ Covers(info, r.gateway)}
            IN  r.source \notin Own(r.dev) /\ near # {} =>
                  SourceOf(r) \in {info.local : info \in near}
<1> DEFINE infos == interfaces[r.dev]
           candidates == Candidates(r.dev)
           nearby == {k \in candidates : Covers(infos[k], r.gateway)}
           pick == First(IF nearby # {} THEN nearby ELSE candidates)
<1>1. r.dev \in Devices /\ infos \in Seq(Info)
  BY DEF Route, RouteTypeOK
<1>2. candidates # {} /\ candidates \subseteq DOMAIN infos /\ DOMAIN infos \subseteq Nat
  BY <1>1 DEF Own, Candidates
<1>3. pick \in candidates /\ (nearby # {} => pick \in nearby)
  BY <1>2, FirstIsLeast
<1>4. \A k \in candidates : infos[k].local \in Own(r.dev)
  BY DEF Candidates, Own
<1>5. SourceOf(r) = IF \E k \in candidates : infos[k].local = r.source
                      THEN r.source ELSE infos[pick].local
  BY DEF SourceOf
<1>6. (\E k \in candidates : infos[k].local = r.source) <=> r.source \in Own(r.dev)
  BY DEF Candidates, Own
<1>7. ASSUME NEW info \in ToSet(infos), info.local \in Private, Covers(info, r.gateway)
      PROVE  nearby # {}
  <2>1. PICK k \in DOMAIN infos : info = infos[k]
    BY DEF ToSet
  <2>2. k \in nearby
    BY <1>7, <2>1 DEF Candidates
  <2>3. QED
    BY <2>2
<1>8. nearby # {} => /\ infos[pick] \in ToSet(infos)
                     /\ infos[pick].local \in Private /\ Covers(infos[pick], r.gateway)
  BY <1>3 DEF ToSet, Candidates
<1> HIDE DEF infos, candidates, nearby, pick
<1>9. SourceOf(r) \in Own(r.dev)
  BY <1>3, <1>4, <1>5, <1>6
<1>10. QED
  BY <1>5, <1>6, <1>7, <1>8, <1>9 DEF infos

\* Both halves of ChoiceIsDocumented, in any well-typed state.
LEMMA Documented == RouteTypeOK => ChoiceIsDocumented
<1> SUFFICES ASSUME RouteTypeOK PROVE ChoiceIsDocumented
  OBVIOUS
<1>1. \A i \in Live : routes[i] \in Route /\ Own(routes[i].dev) # {}
  BY LiveRoutes DEF Live
<1>2. Best \subseteq Live
  BY DEF Best
<1>3. ChoiceIsOnBestRoute
  <2>1. CASE Live = {}
    BY <2>1, LiveRoutes DEF ChoiceIsOnBestRoute, Choice
  <2>2. CASE Live # {}
    BY <1>1, <1>2, <2>2, ChosenIsBest, SourceIsOwn DEF ChoiceIsOnBestRoute
  <2>3. QED
    BY <2>1, <2>2
<1>4. StaleSourceFallsBack
  <2> SUFFICES ASSUME NEW i \in Best, Best = {i}
               PROVE  LET r == routes[i]
                          near == {info \in ToSet(interfaces[r.dev]) :
                                     info.local \in Private /\ Covers(info, r.gateway)}
                      IN  r.source \notin Own(r.dev) /\ near # {} =>
                            Choice \in {info.local : info \in near}
    BY DEF StaleSourceFallsBack
  <2>1. Choice = SourceOf(routes[i])
    BY <1>2, ChosenIsBest
  <2>2. routes[i] \in Route /\ Own(routes[i].dev) # {}
    BY <1>1, <1>2
  <2>3. QED
    BY <2>1, <2>2, SourceIsOwn
<1>5. QED
  BY <1>3, <1>4 DEF ChoiceIsDocumented

\* The address that is advertised is what docs/ARCHITECTURE.md, line 18, describes: an own
\* private address of the device of a best route, near its gateway if the preferred source is
\* stale and one is, for listings of any length.
THEOREM ChoosesDocumented == RouteSpec => []ChoiceIsDocumented
BY RouteTypeCorrect, Documented, PTL

\* No public address is ever advertised: what PortalLifecycle reads as its network is private
\* or the loopback address.
THEOREM AdvertisesPrivate == RouteSpec => [](Choice \in Private \cup {Loopback})
<1>1. ChoiceIsDocumented => Choice \in Private \cup {Loopback}
  BY DEF ChoiceIsDocumented, ChoiceIsOnBestRoute, Own
<1>2. QED
  BY <1>1, ChoosesDocumented, PTL

\* What the source depends on.
LEMMA SameSource ==
  ASSUME RouteTypeOK, RouteTypeOK', NEW r \in Route, interfaces'[r.dev] = interfaces[r.dev]
  PROVE  /\ SourceOf(r)' = SourceOf(r)
         /\ Own(r.dev)' = Own(r.dev)
BY DEF SourceOf, Own, Candidates, Covers, First

\* What the choice is, in a formula that may be primed.
ChoiceFacts ==
  /\ Live = {} => Choice = Loopback
  /\ Live # {} => /\ Chosen(Live) \in Live /\ Chosen(Live) \in Best
                  /\ Choice = SourceOf(routes[Chosen(Live)])
                  /\ \A j \in Live \ {Chosen(Live)} : Precedes(Chosen(Live), j)

\* They hold in every well-typed state.
LEMMA ChoiceFactsHold == RouteTypeOK => ChoiceFacts
<1> SUFFICES ASSUME RouteTypeOK PROVE ChoiceFacts
  OBVIOUS
<1>1. Live = {i \in DOMAIN routes : Usable(routes[i])}
  BY LiveRoutes
<1>2. Live = {} => Choice = Loopback
  BY <1>1 DEF Choice
<1>3. Live \subseteq DOMAIN routes
  BY <1>1
<1>4. QED
  BY <1>2, <1>3, FirstRoute, ChosenIsBest DEF ChoiceFacts

\* An address that comes or goes changes one device only.
LEMMA OneDeviceChanges ==
  ASSUME RouteTypeOK, RouteNext, NEW d \in Devices, interfaces'[d] # interfaces[d]
  PROVE  routes' = routes /\ \A e \in Devices \ {d} : interfaces'[e] = interfaces[e]
<1>1. interfaces \in [Devices -> Seq(Info)]
  BY DEF RouteTypeOK
<1>2. QED
  BY <1>1 DEF RouteNext, AddRoute, DeleteRoute, Link, AddAddress, DeleteAddress

\* watch_network stops the daemon for no change of a device without a best route.
LEMMA UnrelatedStep ==
  ASSUME RouteTypeOK, RouteTypeOK', ChoiceFacts, ChoiceFacts', RouteNext,
         NEW d \in Devices, interfaces'[d] # interfaces[d],
         \A i \in Best \cup Best' : routes[i].dev # d
  PROVE  Choice' = Choice
<1>1. routes' = routes /\ \A e \in Devices \ {d} : interfaces'[e] = interfaces[e]
  BY OneDeviceChanges
<1>2. \A i \in DOMAIN routes : routes[i] \in Route /\ routes[i].dev \in Devices
  BY LiveRoutes DEF Route
<1>3. \A i \in DOMAIN routes : routes[i].dev # d => (i \in Live' <=> i \in Live)
  BY <1>1, <1>2 DEF Live, Own
<1>4. CASE Live = {} /\ Live' = {}
  BY <1>4 DEF ChoiceFacts
<1>5. CASE Live # {} \/ Live' # {}
  <2>1. Live # {} => Chosen(Live) \in Live'
    BY <1>3 DEF ChoiceFacts, Live
  <2>2. Live' # {} => Chosen(Live)' \in Live
    BY <1>1, <1>3 DEF ChoiceFacts, Live
  <2>3. PICK c, k : c = Chosen(Live) /\ k = Chosen(Live)'
    OBVIOUS
  <2>4. c \in Live /\ k \in Live /\ c \in Live' /\ k \in Live' /\ c \in Best
    BY <1>5, <2>1, <2>2, <2>3 DEF ChoiceFacts
  <2>5. c = k
    <3> SUFFICES ASSUME c # k PROVE FALSE
      OBVIOUS
    <3>1. Precedes(c, k)
      BY <2>3, <2>4 DEF ChoiceFacts
    <3>2. Precedes(k, c)'
      BY <2>3, <2>4 DEF ChoiceFacts
    <3>3. Precedes(k, c)
      BY <1>1, <3>2 DEF Precedes
    <3>4. QED
      BY <2>4, <3>1, <3>3, OrderIsStrict DEF Live
  <2>6. PICK r \in Route : r = routes[c] /\ r.dev # d /\ r.dev \in Devices
    BY <1>2, <2>4 DEF Live
  <2>7. Choice = SourceOf(r) /\ Choice' = SourceOf(r)'
    BY <1>1, <2>3, <2>4, <2>5, <2>6 DEF ChoiceFacts
  <2>8. QED
    BY <1>1, <2>6, <2>7, SameSource
<1>6. QED
  BY <1>4, <1>5

\* Nor for a route that comes or goes while the best one stays the best.
LEMMA WorseStep ==
  ASSUME RouteTypeOK, RouteTypeOK', ChoiceFacts, ChoiceFacts', UNCHANGED interfaces,
         {routes[i] : i \in Best} = {routes'[i] : i \in Best'},
         Cardinality({routes[i] : i \in Best}) = 1
  PROVE  Choice' = Choice
<1> DEFINE best == {routes[i] : i \in Best}
<1>1. PICK r : best = {r}
  <2>1. IsFiniteSet(DOMAIN routes)
    BY FS_Interval DEF RouteTypeOK
  <2>2. Best \subseteq DOMAIN routes
    BY DEF Best, Live
  <2>3. IsFiniteSet(Best)
    BY <2>1, <2>2, FS_Subset
  <2>4. IsFiniteSet(best)
    <3>1. [i \in Best |-> routes[i]] \in Surjection(Best, best)
      BY DEF Surjection
    <3> HIDE DEF best
    <3>2. QED
      BY <2>3, <3>1, FS_Surjection
  <2>5. Cardinality(best) = 1
    OBVIOUS
  <2> HIDE DEF best
  <2>6. QED
    BY <2>4, <2>5, FS_Singleton
<1>2. Best # {} /\ Best' # {}
  BY <1>1
<1>3. Live # {} /\ Live' # {}
  BY <1>2 DEF Best
<1>4. routes[Chosen(Live)] \in best /\ routes'[Chosen(Live)'] \in best
  BY <1>3 DEF ChoiceFacts
<1>5. routes[Chosen(Live)] = r /\ routes'[Chosen(Live)'] = r
  BY <1>1, <1>4
<1>6. r \in Route
  BY <1>3, <1>5, LiveRoutes DEF ChoiceFacts, Live
<1>7. Choice = SourceOf(r) /\ Choice' = SourceOf(r)'
  BY <1>3, <1>5 DEF ChoiceFacts
<1>8. QED
  BY <1>6, <1>7, SameSource

\* The daemon restarts for a change of the best route only (service.py 793-799).
THEOREM BestRouteMatters == RouteSpec => OnlyBestRouteMatters
<1>1. RouteSpec => [](RouteTypeOK /\ ChoiceFacts)
  BY RouteTypeCorrect, ChoiceFactsHold, PTL
<1>2. /\ RouteTypeOK /\ ChoiceFacts /\ (RouteTypeOK /\ ChoiceFacts)' /\ [RouteNext]_listings
      => [\A d \in Devices :
            (/\ interfaces'[d] # interfaces[d]
             /\ \A i \in Best \cup Best' : routes[i].dev # d)
            => Choice' = Choice]_listings
  BY UnrelatedStep DEF listings
<1>3. /\ RouteTypeOK /\ ChoiceFacts /\ (RouteTypeOK /\ ChoiceFacts)' /\ [RouteNext]_listings
      => [({routes[i] : i \in Best} = {routes'[i] : i \in Best'}
             /\ Cardinality({routes[i] : i \in Best}) = 1
             /\ UNCHANGED interfaces)
            => Choice' = Choice]_listings
  BY WorseStep
<1>4. QED
  BY <1>1, <1>2, <1>3, PTL DEF RouteSpec, OnlyBestRouteMatters, UnrelatedDevicesAreIgnored,
     WorseRoutesAreIgnored
=============================================================================
