------------------------- MODULE PortalVisionProofs -------------------------
(***************************************************************************)
(* Theorems about PortalVision, for any number of windows, addresses,      *)
(* markers, sessions, threads and processes, and any times.                *)
(***************************************************************************)
EXTENDS PortalVision, TLAPS

\* A new row keeps a table a table (the INSERT of vision_status, a window that opens).
LEMMA PutIsTable ==
  ASSUME NEW K, NEW R, NEW f, IsTable(f, K, R), NEW k \in K, NEW row \in R
  PROVE  IsTable(Put(f, k, row), K, R)
BY DEF IsTable, Put

\* What is left after a DELETE, or after a window closed, is a table.
LEMMA RestrictIsTable ==
  ASSUME NEW K, NEW R, NEW f, IsTable(f, K, R), NEW S \in SUBSET DOMAIN f
  PROVE  IsTable(Restrict(f, S), K, R)
BY DEF IsTable, Restrict

\* What a process remembers, by the step it is at.
LEMMA JobFields ==
  ASSUME NEW j \in Job
  PROVE  /\ j.step = "set" => j.active \in BOOLEAN /\ j.session \in Sessions \cup {NoSession}
         /\ j.step = "survey" => j.session \in Sessions \cup {NoSession}
         /\ j.step = "mint" => /\ j.session \in Sessions /\ j.at \in Nat
                               /\ j.left \in SUBSET (Addresses \X Windows)
         /\ j.step \in {"find", "use", "detail"} =>
              j.marker \in Markers /\ j.address \in Addresses /\ j.window \in Windows
         /\ j.step \in {"use", "detail"} => j.fresh \in BOOLEAN
BY DEF Job, Idle

\* A process goes on to its next step.
LEMMA JobUpdate ==
  ASSUME TypeOK, NEW a \in Actors, NEW v \in Job, Become(a, v)
  PROVE  /\ job' \in [Actors -> Job]
         /\ job'[a] = v
         /\ \A b \in Actors \ {a} : job'[b] = job[b]
BY DEF TypeOK, Become

\* What a resolution remembers when it has found the window (core.py 668-677).
Found(j) == [step |-> "use", marker |-> j.marker, address |-> j.address,
             window |-> j.window, fresh |-> desktop[j.address] = j.window]

\* It goes on with what it remembers of the marker.
LEMMA FoundJob ==
  ASSUME NEW j \in Job, j.step = "find"
  PROVE  /\ Found(j) \in Job /\ Found(j).step = "use" /\ Found(j).marker = j.marker
         /\ Found(j).window = j.window /\ (Found(j).fresh <=> desktop[j.address] = j.window)
<1>1. (desktop[j.address] = j.window) \in BOOLEAN
  OBVIOUS
<1>2. QED
  BY <1>1, JobFields DEF Found, Job

\* It remembers the same when the marker is used.
LEMMA NextStep ==
  ASSUME NEW j \in Job, j.step = "use"
  PROVE  /\ [j EXCEPT !.step = "detail"] \in Job
         /\ [j EXCEPT !.step = "detail"].step = "detail"
         /\ [j EXCEPT !.step = "detail"].marker = j.marker
         /\ [j EXCEPT !.step = "detail"].window = j.window
         /\ [j EXCEPT !.step = "detail"].fresh = j.fresh
BY DEF Job, Idle

\* A status command goes on with fewer windows.
LEMMA FewerLeft ==
  ASSUME TypeOK, NEW c \in Actors, NEW m \in Markers, MintMarker(c, m)
  PROVE  \E v \in Job : /\ Become(c, v) /\ v.step = "mint"
                        /\ v.left \subseteq job[c].left
<1>1. job[c] \in Job /\ job[c].step = "mint"
  BY DEF TypeOK, MintMarker
<1>2. PICK w \in job[c].left : job' = [job EXCEPT ![c].left = @ \ {w}]
  BY DEF MintMarker
<1> DEFINE v == [job[c] EXCEPT !.left = job[c].left \ {w}]
<1>3. v \in Job /\ v.step = "mint" /\ v.left = job[c].left \ {w}
  BY <1>1 DEF Job, Idle
<1>4. Become(c, v)
  BY <1>1, <1>2 DEF Become, TypeOK
<1>5. QED
  BY <1>3, <1>4

-----------------------------------------------------------------------------
(***************************************************************************)
(* Type correctness.  Only threads resolve markers.                        *)
(***************************************************************************)
Resolving == {"find", "use", "detail"}

Typed == TypeOK /\ \A c \in Clis : job[c].step \notin Resolving

\* Vision is off, no window was opened and nobody does anything at first.
LEMMA TypeInit == Init => Typed
<1> SUFFICES ASSUME Init PROVE Typed
  OBVIOUS
<1>1. job \in [Actors -> Job] /\ \A c \in Clis : job[c].step \notin Resolving
  BY DEF Init, Job, Idle, Resolving, Actors
<1>2. IsTable(markers, Markers, Marker) /\ IsTable(desktop, Addresses, Windows)
  BY DEF Init, IsTable, EmptyTable
<1>3. QED
  BY <1>1, <1>2 DEF Init, Typed, TypeOK, Setting

\* A step that gives one process a job of its type keeps the types of all of them.
LEMMA TypedJobs ==
  ASSUME Typed, NEW a \in Actors, NEW v \in Job, Become(a, v),
         v.step \in Resolving => a \in Handlers
  PROVE  /\ job' \in [Actors -> Job]
         /\ \A c \in Clis : job'[c].step \notin Resolving
BY JobUpdate, VisionAssumption DEF Typed, Actors

\* Every step of a thread, a command, the compositor and the clock keeps the types.
LEMMA TypeStep == Typed /\ [Next]_vars => Typed'
<1> SUFFICES ASSUME Typed, [Next]_vars PROVE Typed'
  OBVIOUS
<1> USE VisionAssumption DEF environment, history
<1>1. TypeOK
  BY DEF Typed
<1>2. Idle \in Job /\ Idle.step \notin Resolving
  BY DEF Job, Idle, Resolving
<1>3. ASSUME NEW a \in Actors, NEW v \in Job, Become(a, v), v.step \in Resolving => a \in Handlers,
             UNCHANGED <<now, vision, markers, live, desktop, opened, kills, history>>
      PROVE  Typed'
  BY <1>1, <1>3, TypedJobs DEF Typed, TypeOK
<1>4. ASSUME NEW a \in Actors, NEW s \in Sessions \cup {NoSession}, NEW on \in BOOLEAN, Switch(a, on, s)
      PROVE  Typed'
  <2>1. [step |-> "set", active |-> on, session |-> s] \in Job
    BY DEF Job
  <2>2. QED
    BY <1>3, <1>4, <2>1 DEF Switch, Resolving
<1>5. ASSUME NEW a \in Actors, NEW s \in Sessions \cup {NoSession}, Toggle(a, s) PROVE Typed'
  BY <1>4, <1>5 DEF Toggle
<1>6. ASSUME NEW a \in Actors, SetVision(a) PROVE Typed'
  <2>1. vision' \in Setting
    BY <1>1, <1>6, JobFields DEF SetVision, TypeOK, Setting
  <2>2. PICK v \in Job : Become(a, v) /\ v.step \notin Resolving
    BY <1>2, <1>6 DEF SetVision, Job, Resolving
  <2>3. QED
    BY <1>1, <1>6, <2>1, <2>2, TypedJobs DEF SetVision, Typed, TypeOK
<1>7. ASSUME NEW a \in Actors, EraseMarkers(a) PROVE Typed'
  <2>1. IsTable(EmptyTable, Markers, Marker)
    BY DEF IsTable, EmptyTable
  <2>2. QED
    BY <1>1, <1>2, <1>7, <2>1, TypedJobs DEF EraseMarkers, Erased, Typed, TypeOK
<1>8. ASSUME NEW c \in Clis, BeginStatus(c) PROVE Typed'
  <2>1. [step |-> "survey", session |-> vision.session] \in Job
    BY <1>1 DEF Job, TypeOK, Setting
  <2>2. QED
    BY <1>3, <1>8, <2>1 DEF BeginStatus, Resolving, Actors
<1>9. ASSUME NEW a \in Actors, Survey(a) PROVE Typed'
  <2>1. CASE OwnersFor(job[a].session) = {}
    BY <1>2, <1>3, <1>9, <2>1 DEF Survey
  <2>2. CASE OwnersFor(job[a].session) # {}
    <3>1. PICK s \in OwnersFor(job[a].session) :
            Become(a, [step |-> "mint", session |-> s, at |-> now,
                       left |-> {<<x, desktop[x]>> : x \in DOMAIN desktop}])
      BY <1>9, <2>2 DEF Survey
    <3>2. s \in Sessions
      BY <1>1, <1>9, JobFields DEF Survey, OwnersFor, TypeOK
    <3>3. {<<x, desktop[x]>> : x \in DOMAIN desktop} \in SUBSET (Addresses \X Windows)
      BY <1>1 DEF TypeOK, IsTable
    <3>4. [step |-> "mint", session |-> s, at |-> now,
           left |-> {<<x, desktop[x]>> : x \in DOMAIN desktop}] \in Job
      BY <1>1, <3>2, <3>3 DEF Job, TypeOK
    <3>5. QED
      BY <1>3, <1>9, <3>1, <3>4 DEF Survey, Resolving
  <2>3. QED
    BY <2>1, <2>2
<1>10. ASSUME NEW a \in Actors, NEW m \in Markers, MintMarker(a, m) PROVE Typed'
  <2>1. job[a].session \in Sessions /\ job[a].at \in Nat
        /\ job[a].left \in SUBSET (Addresses \X Windows)
    BY <1>1, <1>10, JobFields DEF MintMarker, TypeOK
  <2>2. PICK w \in job[a].left :
          markers' = Put(markers, m, [session |-> job[a].session, address |-> w[1],
                                      window |-> w[2], expires |-> job[a].at + VisionTTL,
                                      used |-> FALSE])
    BY <1>10 DEF MintMarker
  <2>3. [session |-> job[a].session, address |-> w[1], window |-> w[2],
         expires |-> job[a].at + VisionTTL, used |-> FALSE] \in Marker
    BY <2>1 DEF Marker
  <2>4. IsTable(markers', Markers, Marker)
    BY <1>1, <2>2, <2>3, PutIsTable DEF TypeOK
  <2>5. PICK v \in Job : Become(a, v) /\ v.step = "mint"
    BY <1>1, <1>10, FewerLeft
  <2>6. QED
    BY <1>1, <1>10, <2>4, <2>5, TypedJobs DEF MintMarker, Typed, TypeOK, Resolving
<1>11. ASSUME NEW a \in Actors, EndStatus(a) PROVE Typed'
  BY <1>2, <1>3, <1>11 DEF EndStatus
<1>12. ASSUME NEW h \in Handlers, NEW m \in Markers, ReadMarker(h, m) PROVE Typed'
  <2> DEFINE v == [step |-> "find", marker |-> m, address |-> markers[m].address,
                   window |-> markers[m].window]
  <2>1. markers[m].address \in Addresses /\ markers[m].window \in Windows
    BY <1>1, <1>12 DEF ReadMarker, TypeOK, IsTable, Marker
  <2>2. v \in Job
    BY <2>1 DEF Job
  <2>3. Become(h, v) /\ h \in Actors
    BY <1>12 DEF ReadMarker, Actors
  <2>4. QED
    BY <1>3, <1>12, <2>2, <2>3 DEF ReadMarker
<1>13. ASSUME NEW a \in Actors, FindWindow(a) PROVE Typed'
  <2>1. job[a] \in Job /\ job[a].step = "find" /\ a \in Handlers
    BY <1>1, <1>13 DEF FindWindow, TypeOK, Typed, Actors, Resolving
  <2>2. Found(job[a]) \in Job
    BY <2>1, FoundJob
  <2>3. PICK v \in Job : Become(a, v)
    BY <1>2, <1>13, <2>2 DEF FindWindow, Found
  <2>4. QED
    BY <1>3, <1>13, <2>1, <2>3 DEF FindWindow
<1>14. ASSUME NEW a \in Actors, UseMarker(a) PROVE Typed'
  <2>1. job[a] \in Job /\ job[a].step = "use" /\ a \in Handlers
    BY <1>1, <1>14 DEF UseMarker, TypeOK, Typed, Actors, Resolving
  <2>2. job[a].marker \in Markers
    BY <2>1, JobFields
  <2>3. IsTable(markers', Markers, Marker)
    BY <1>1, <1>14 DEF UseMarker, TypeOK, IsTable, Change, Used, Marker
  <2>4. [job[a] EXCEPT !.step = "detail"] \in Job
    BY <2>1, NextStep
  <2>5. QED
    BY <1>1, <1>14, <2>1, <2>2, <2>3, <2>4, TypedJobs DEF UseMarker, Typed, TypeOK
<1>15. ASSUME NEW a \in Actors, WindowDetail(a) PROVE Typed'
  <2>1. job[a].address \in Addresses /\ job[a].window \in Windows /\ job[a].fresh \in BOOLEAN
    BY <1>1, <1>15, JobFields DEF WindowDetail, TypeOK
  <2>2. answered' \subseteq Windows \X Windows \X BOOLEAN
    BY <1>1, <1>15, <2>1 DEF WindowDetail, TypeOK, IsTable
  <2>3. QED
    BY <1>1, <1>2, <1>15, <2>2, TypedJobs DEF WindowDetail, Typed, TypeOK
<1>16. ASSUME NEW a \in Actors, Interrupt(a) PROVE Typed'
  <2>1. leftovers' \subseteq Markers
    BY <1>1, <1>16 DEF Interrupt, TypeOK, IsTable
  <2>2. QED
    BY <1>1, <1>2, <1>16, <2>1, TypedJobs DEF Interrupt, Typed, TypeOK
<1>17. CASE Cleanup
  <2>1. IsTable(markers', Markers, Marker)
    BY <1>1, <1>17 DEF Cleanup, Keep, RestrictValues, Restrict, IsTable, TypeOK
  <2>2. QED
    BY <1>1, <1>17, <2>1 DEF Cleanup, Typed, TypeOK
<1>18. ASSUME NEW x \in Addresses, NEW w \in Windows, OpenWindow(x, w) PROVE Typed'
  BY <1>1, <1>18, PutIsTable DEF OpenWindow, Typed, TypeOK
<1>19. ASSUME NEW x \in Addresses, CloseWindow(x) PROVE Typed'
  BY <1>1, <1>19, RestrictIsTable DEF CloseWindow, Typed, TypeOK
<1>20. ASSUME NEW s \in Sessions, EndSession(s) PROVE Typed'
  BY <1>1, <1>20 DEF EndSession, Typed, TypeOK
<1>21. CASE Tick
  BY <1>1, <1>21 DEF Tick, Typed, TypeOK
<1>22. CASE UNCHANGED vars
  BY <1>22 DEF vars, Typed, TypeOK
<1>23. QED
  BY <1>4, <1>5, <1>6, <1>7, <1>8, <1>9, <1>10, <1>11, <1>12, <1>13, <1>14, <1>15, <1>16,
     <1>17, <1>18, <1>19, <1>20, <1>21, <1>22 DEF Next, Continue

\* Every reachable state of PortalVision is well typed.
THEOREM TypeCorrect == Spec => []TypeOK
<1>1. Typed => TypeOK
  BY DEF Typed
<1>2. QED
  BY <1>1, TypeInit, TypeStep, PTL DEF Spec

-----------------------------------------------------------------------------
(***************************************************************************)
(* A marker is used again only by who had looked at it before.             *)
(***************************************************************************)
\* Markers that are in the table, being resolved or used were drawn, so that no later
\* status command inserts them anew.
DrawnInv ==
  /\ DOMAIN markers \subseteq drawn
  /\ \A h \in Handlers : job[h].step \in Resolving => job[h].marker \in drawn
  /\ \A u \in uses : u[1] \in drawn

ReuseInv == DrawnInv /\ ReuseOnlyByOverlap

\* No marker was drawn at first.
LEMMA ReuseInit == Init => ReuseInv
BY DEF Init, ReuseInv, DrawnInv, ReuseOnlyByOverlap, EmptyTable, Idle, Actors, Resolving

\* A process that takes up no marker changes nothing, if the table keeps what was used.
LEMMA ReuseKeeps ==
  ASSUME Typed, ReuseInv, drawn \subseteq drawn', uses' = uses,
         DOMAIN markers' \subseteq drawn',
         \A m \in DOMAIN markers' \cap drawn :
           m \in DOMAIN markers /\ (markers[m].used => markers'[m].used),
         \A h \in Handlers : \/ job'[h].step \notin Resolving
                             \/ job'[h] = job[h]
                             \/ job'[h].marker = job[h].marker /\ job[h].step = "find"
  PROVE  ReuseInv'
<1>1. DrawnInv'
  BY DEF ReuseInv, DrawnInv, Resolving
<1>2. ASSUME NEW u \in uses PROVE UsedMarker(u[1])'
  BY <1>2 DEF ReuseInv, DrawnInv, ReuseOnlyByOverlap, UsedMarker
<1>3. ASSUME NEW u \in uses PROVE job'[u[2]].step \in {"find", "use"} => job'[u[2]].marker # u[1]
  BY <1>3 DEF Typed, TypeOK, ReuseInv, ReuseOnlyByOverlap, Resolving
<1>4. QED
  BY <1>1, <1>2, <1>3 DEF ReuseInv, ReuseOnlyByOverlap

\* Every step keeps used markers used.
LEMMA ReuseStep == Typed /\ ReuseInv /\ [Next]_vars => ReuseInv'
<1> SUFFICES ASSUME Typed, ReuseInv, [Next]_vars PROVE ReuseInv'
  OBVIOUS
<1> USE VisionAssumption DEF environment, history
<1>1. TypeOK /\ DrawnInv
  BY DEF Typed, ReuseInv
<1>2. Idle \in Job /\ Idle.step \notin Resolving
  BY DEF Job, Idle, Resolving
<1>3. ASSUME UNCHANGED <<markers, job, drawn, uses>> PROVE ReuseInv'
  BY <1>3 DEF ReuseInv, DrawnInv, ReuseOnlyByOverlap, UsedMarker
<1>4. ASSUME NEW a \in Actors, NEW v \in Job, Become(a, v), v.step \notin Resolving,
             UNCHANGED <<markers, drawn, uses>>
      PROVE  ReuseInv'
  BY <1>1, <1>4, JobUpdate, ReuseKeeps DEF DrawnInv, Actors
<1>5. ASSUME NEW a \in Actors, NEW s \in Sessions \cup {NoSession}, NEW on \in BOOLEAN, Switch(a, on, s)
      PROVE  ReuseInv'
  <2>1. [step |-> "set", active |-> on, session |-> s] \in Job
    BY DEF Job
  <2>2. QED
    BY <1>4, <1>5, <2>1 DEF Switch, Resolving
<1>6. ASSUME NEW a \in Actors, NEW s \in Sessions \cup {NoSession}, Toggle(a, s) PROVE ReuseInv'
  BY <1>5, <1>6 DEF Toggle
<1>7. ASSUME NEW a \in Actors, SetVision(a) PROVE ReuseInv'
  <2>1. PICK v \in Job : Become(a, v) /\ v.step \notin Resolving
    BY <1>2, <1>7 DEF SetVision, Job, Resolving
  <2>2. QED
    BY <1>4, <1>7, <2>1 DEF SetVision
<1>8. ASSUME NEW a \in Actors, EraseMarkers(a) PROVE ReuseInv'
  <2>1. DOMAIN markers' = {}
    BY <1>8 DEF EraseMarkers, Erased, EmptyTable
  <2>2. QED
    BY <1>1, <1>2, <1>8, <2>1, JobUpdate, ReuseKeeps DEF EraseMarkers, Actors
<1>9. ASSUME NEW c \in Clis, BeginStatus(c) PROVE ReuseInv'
  <2>1. [step |-> "survey", session |-> vision.session] \in Job
    BY <1>1 DEF Job, TypeOK, Setting
  <2>2. QED
    BY <1>4, <1>9, <2>1 DEF BeginStatus, Resolving, Actors
<1>10. ASSUME NEW a \in Actors, Survey(a) PROVE ReuseInv'
  <2>1. Typed'
    BY TypeStep
  <2>2. PICK v : Become(a, v) /\ v.step \notin Resolving
    <3>1. CASE OwnersFor(job[a].session) = {}
      BY <1>2, <1>10, <3>1 DEF Survey
    <3>2. CASE OwnersFor(job[a].session) # {}
      <4>1. PICK s \in OwnersFor(job[a].session) :
              Become(a, [step |-> "mint", session |-> s, at |-> now,
                         left |-> {<<x, desktop[x]>> : x \in DOMAIN desktop}])
        BY <1>10, <3>2 DEF Survey
      <4>2. QED
        BY <4>1 DEF Resolving
    <3>3. QED
      BY <3>1, <3>2
  <2>3. v \in Job
    BY <1>1, <2>1, <2>2 DEF Typed, TypeOK, Become
  <2>4. QED
    BY <1>4, <1>10, <2>2, <2>3 DEF Survey
<1>11. ASSUME NEW a \in Actors, NEW m \in Markers, MintMarker(a, m) PROVE ReuseInv'
  <2>1. PICK v \in Job : Become(a, v) /\ v.step = "mint"
    BY <1>1, <1>11, FewerLeft
  <2>2. /\ DOMAIN markers' = DOMAIN markers \cup {m} /\ drawn' = drawn \cup {m}
        /\ m \notin drawn /\ uses' = uses
        /\ \A n \in DOMAIN markers : n # m => markers'[n] = markers[n]
    BY <1>1, <1>11 DEF MintMarker, Put
  <2>3. QED
    BY <1>1, <2>1, <2>2, JobUpdate, ReuseKeeps DEF DrawnInv, Actors, Resolving
<1>12. ASSUME NEW a \in Actors, EndStatus(a) PROVE ReuseInv'
  BY <1>2, <1>4, <1>12 DEF EndStatus
<1>13. ASSUME NEW h \in Handlers, NEW m \in Markers, ReadMarker(h, m) PROVE ReuseInv'
  <2>1. m \in DOMAIN markers /\ ~markers[m].used
    BY <1>13 DEF ReadMarker, Resolvable
  <2>2. \A u \in uses : u[1] # m
    BY <2>1 DEF ReuseInv, ReuseOnlyByOverlap, UsedMarker
  <2>3. job'[h].marker = m /\ \A b \in Actors \ {h} : job'[b] = job[b]
    BY <1>1, <1>13 DEF ReadMarker, Become, TypeOK, Actors
  <2>4. UNCHANGED <<markers, drawn, uses>>
    BY <1>13 DEF ReadMarker
  <2>5. DrawnInv'
    BY <1>1, <2>1, <2>3, <2>4 DEF DrawnInv, Actors
  <2>6. ReuseOnlyByOverlap'
    BY <1>1, <2>2, <2>3, <2>4 DEF ReuseInv, ReuseOnlyByOverlap, UsedMarker, Actors, TypeOK
  <2>7. QED
    BY <2>5, <2>6 DEF ReuseInv
<1>14. ASSUME NEW a \in Actors, FindWindow(a) PROVE ReuseInv'
  <2>1. job[a] \in Job /\ job[a].step = "find"
    BY <1>1, <1>14 DEF FindWindow, TypeOK
  <2>2. Found(job[a]) \in Job /\ Found(job[a]).marker = job[a].marker
    BY <2>1, FoundJob
  <2>3. PICK v \in Job : Become(a, v) /\ (v.step \in Resolving => v.marker = job[a].marker)
    BY <1>2, <1>14, <2>2 DEF FindWindow, Found
  <2>4. QED
    BY <1>1, <1>14, <2>1, <2>3, JobUpdate, ReuseKeeps DEF FindWindow, DrawnInv, Actors
<1>15. ASSUME NEW a \in Actors, UseMarker(a) PROVE ReuseInv'
  <2>1. job[a] \in Job /\ job[a].step = "use" /\ a \in Handlers
    BY <1>1, <1>15 DEF UseMarker, TypeOK, Typed, Actors, Resolving
  <2>2. job'[a].step = "detail" /\ job'[a].marker = job[a].marker
        /\ \A b \in Actors \ {a} : job'[b] = job[b]
    <3> DEFINE v == [job[a] EXCEPT !.step = "detail"]
    <3>1. v \in Job /\ v.step = "detail" /\ v.marker = job[a].marker
      BY <2>1, NextStep
    <3>2. Become(a, v)
      BY <1>15 DEF UseMarker
    <3> HIDE DEF v
    <3>3. QED
      BY <1>1, <3>1, <3>2, JobUpdate
  <2>3. /\ DOMAIN markers' = DOMAIN markers
        /\ \A m \in DOMAIN markers : markers'[m].used = (markers[m].used \/ m = job[a].marker)
    BY <1>1, <1>15 DEF UseMarker, Change, Used, TypeOK, IsTable, Marker
  <2>4. uses' = uses \cup {<<job[a].marker, a>>} /\ drawn' = drawn
    BY <1>15 DEF UseMarker
  <2>5. job[a].marker \in drawn
    BY <1>1, <2>1 DEF DrawnInv, Resolving
  <2>6. DrawnInv'
    BY <1>1, <2>1, <2>2, <2>3, <2>4, <2>5 DEF DrawnInv, Actors, Resolving
  <2>7. \A u \in uses' : UsedMarker(u[1])'
    <3>1. ASSUME NEW u \in uses, u[1] \in DOMAIN markers' PROVE markers'[u[1]].used
      <4>1. markers[u[1]].used
        BY <2>3, <3>1 DEF ReuseInv, ReuseOnlyByOverlap, UsedMarker
      <4>2. QED
        BY <2>3, <3>1, <4>1
    <3>2. job[a].marker \in DOMAIN markers' => markers'[job[a].marker].used
      BY <2>3
    <3>3. ASSUME NEW u \in uses', u[1] \in DOMAIN markers' PROVE markers'[u[1]].used
      BY <2>4, <3>1, <3>2, <3>3
    <3>4. QED
      BY <3>3 DEF UsedMarker
  <2>8. \A u \in uses' : job'[u[2]].step \in {"find", "use"} => job'[u[2]].marker # u[1]
    BY <1>1, <2>2, <2>4 DEF ReuseInv, ReuseOnlyByOverlap, Actors, TypeOK
  <2>9. QED
    BY <2>6, <2>7, <2>8 DEF ReuseInv, ReuseOnlyByOverlap
<1>16. ASSUME NEW a \in Actors, WindowDetail(a) PROVE ReuseInv'
  BY <1>2, <1>4, <1>16 DEF WindowDetail
<1>17. ASSUME NEW a \in Actors, Interrupt(a) PROVE ReuseInv'
  BY <1>2, <1>4, <1>17 DEF Interrupt
<1>18. CASE Cleanup
  <2>1. DOMAIN markers' \subseteq DOMAIN markers /\ \A m \in DOMAIN markers' : markers'[m] = markers[m]
    BY <1>18 DEF Cleanup, Keep, RestrictValues, Restrict
  <2>2. QED
    BY <1>1, <1>18, <2>1, ReuseKeeps DEF Cleanup, DrawnInv
<1>19. CASE \/ \E x \in Addresses, w \in Windows : OpenWindow(x, w)
            \/ \E x \in Addresses : CloseWindow(x)
            \/ \E s \in Sessions : EndSession(s)
            \/ Tick
  BY <1>3, <1>19 DEF OpenWindow, CloseWindow, EndSession, Tick
<1>20. CASE UNCHANGED vars
  BY <1>3, <1>20 DEF vars
<1>21. QED
  BY <1>5, <1>6, <1>7, <1>8, <1>9, <1>10, <1>11, <1>12, <1>13, <1>14, <1>15, <1>16, <1>17,
     <1>18, <1>19, <1>20 DEF Next, Continue

\* For any number of threads, also when markers are deleted and interrupted meanwhile, a
\* thread uses a marker (core.py 652-678) only if it looked at it before it was used.
THEOREM ReusedByOverlap == Spec => []ReuseOnlyByOverlap
<1>1. ReuseInv => ReuseOnlyByOverlap
  BY DEF ReuseInv
<1>2. QED
  BY <1>1, TypeInit, TypeStep, ReuseInit, ReuseStep, PTL DEF Spec

-----------------------------------------------------------------------------
(***************************************************************************)
(* An answer is about the window of the marker, or about one that replaced *)
(* it while the request was carried out.                                   *)
(***************************************************************************)
\* Whoever got past the comparison found the marked window at its address, or the marker
\* has no stable id to compare.
ComparedInv ==
  \A h \in Handlers : job[h].step \in {"use", "detail"} =>
    job[h].fresh \/ job[h].window \in Unnamed

ReplaceInv == ComparedInv /\ ReplacedAreRejected

\* Nobody resolves a marker at first.
LEMMA ReplaceInit == Init => ReplaceInv
BY DEF Init, ReplaceInv, ComparedInv, ReplacedAreRejected, Idle, Actors

\* A step that answers nothing, after which its process is at another step, or past the
\* comparison, or where it was.
LEMMA ReplaceKeeps ==
  ASSUME ReplaceInv, UNCHANGED answered,
         \A h \in Handlers : \/ job'[h].step \notin {"use", "detail"}
                             \/ job'[h].fresh \/ job'[h].window \in Unnamed
                             \/ job'[h] = job[h]
  PROVE  ReplaceInv'
BY DEF ReplaceInv, ComparedInv, ReplacedAreRejected

\* The same, of a step that gives one process something else to do.
LEMMA ReplaceMoves ==
  ASSUME Typed, ReplaceInv, UNCHANGED answered, NEW a \in Actors, NEW v \in Job, Become(a, v),
         v.step \in {"use", "detail"} => v.fresh \/ v.window \in Unnamed
  PROVE  ReplaceInv'
<1>1. job'[a] = v /\ \A b \in Actors \ {a} : job'[b] = job[b]
  BY JobUpdate DEF Typed
<1>2. QED
  BY <1>1, ReplaceKeeps DEF Actors

\* Every step keeps replaced windows rejected.
LEMMA ReplaceStep == Typed /\ ReplaceInv /\ [Next]_vars => ReplaceInv'
<1> SUFFICES ASSUME Typed, ReplaceInv, [Next]_vars PROVE ReplaceInv'
  OBVIOUS
<1> USE VisionAssumption DEF environment, history
<1>1. TypeOK /\ ComparedInv /\ TypeOK'
  BY TypeStep DEF Typed, ReplaceInv
<1>2. Idle \in Job /\ Idle.step \notin {"use", "detail"}
  BY DEF Job, Idle
<1>3. ASSUME UNCHANGED <<answered, job>> PROVE ReplaceInv'
  BY <1>3, ReplaceKeeps
<1>4. ASSUME NEW a \in Actors, NEW v, Become(a, v), v.step \notin {"use", "detail"},
             UNCHANGED answered
      PROVE  ReplaceInv'
  <2>1. v \in Job
    BY <1>1, <1>4 DEF TypeOK, Become
  <2>2. QED
    BY <1>4, <2>1, ReplaceMoves
<1>5. ASSUME NEW a \in Actors, NEW s \in Sessions \cup {NoSession},
             Toggle(a, s) \/ \E on \in BOOLEAN : Switch(a, on, s)
      PROVE  ReplaceInv'
  BY <1>4, <1>5 DEF Toggle, Switch
<1>6. ASSUME NEW a \in Actors, SetVision(a) PROVE ReplaceInv'
  <2>1. PICK v : Become(a, v) /\ v.step \notin {"use", "detail"}
    BY <1>2, <1>6 DEF SetVision
  <2>2. QED
    BY <1>4, <1>6, <2>1 DEF SetVision
<1>7. ASSUME NEW a \in Actors, EraseMarkers(a) \/ EndStatus(a) PROVE ReplaceInv'
  BY <1>2, <1>4, <1>7 DEF EraseMarkers, EndStatus
<1>8. ASSUME NEW c \in Clis, BeginStatus(c) PROVE ReplaceInv'
  BY <1>4, <1>8 DEF BeginStatus, Actors
<1>9. ASSUME NEW a \in Actors, Survey(a) PROVE ReplaceInv'
  <2>1. PICK v : Become(a, v) /\ v.step \notin {"use", "detail"}
    <3>1. CASE OwnersFor(job[a].session) = {}
      BY <1>2, <1>9, <3>1 DEF Survey
    <3>2. CASE OwnersFor(job[a].session) # {}
      <4>1. PICK s \in OwnersFor(job[a].session) :
              Become(a, [step |-> "mint", session |-> s, at |-> now,
                         left |-> {<<x, desktop[x]>> : x \in DOMAIN desktop}])
        BY <1>9, <3>2 DEF Survey
      <4>2. QED
        BY <4>1
    <3>3. QED
      BY <3>1, <3>2
  <2>2. QED
    BY <1>4, <1>9, <2>1 DEF Survey
<1>10. ASSUME NEW a \in Actors, NEW m \in Markers, MintMarker(a, m) PROVE ReplaceInv'
  <2>1. PICK v \in Job : Become(a, v) /\ v.step = "mint"
    BY <1>1, <1>10, FewerLeft
  <2>2. QED
    BY <1>4, <1>10, <2>1 DEF MintMarker
<1>11. ASSUME NEW h \in Handlers, NEW m \in Markers, ReadMarker(h, m) PROVE ReplaceInv'
  BY <1>4, <1>11 DEF ReadMarker, Actors
<1>12. ASSUME NEW a \in Actors, FindWindow(a) PROVE ReplaceInv'
  <2>1. job[a] \in Job /\ job[a].step = "find"
    BY <1>1, <1>12 DEF FindWindow, TypeOK
  <2>2. CASE MarkedWindow(job[a])
    <3>1. Found(job[a]) \in Job /\ Found(job[a]).window = job[a].window
          /\ (Found(job[a]).fresh <=> desktop[job[a].address] = job[a].window)
      BY <2>1, FoundJob
    <3>2. Become(a, Found(job[a])) /\ UNCHANGED answered
      BY <1>12, <2>2 DEF FindWindow, Found
    <3>3. QED
      BY <2>2, <3>1, <3>2, ReplaceMoves DEF MarkedWindow
  <2>3. CASE ~MarkedWindow(job[a])
    BY <1>2, <1>4, <1>12, <2>3 DEF FindWindow
  <2>4. QED
    BY <2>2, <2>3
<1>13. ASSUME NEW a \in Actors, UseMarker(a) PROVE ReplaceInv'
  <2>1. job[a] \in Job /\ job[a].step = "use" /\ a \in Handlers
    BY <1>1, <1>13 DEF UseMarker, TypeOK, Typed, Actors, Resolving
  <2> DEFINE v == [job[a] EXCEPT !.step = "detail"]
  <2>2. v \in Job /\ v.fresh = job[a].fresh /\ v.window = job[a].window
    BY <2>1, NextStep
  <2>3. job[a].fresh \/ job[a].window \in Unnamed
    BY <1>1, <2>1 DEF ComparedInv
  <2>4. Become(a, v) /\ UNCHANGED answered
    BY <1>13 DEF UseMarker
  <2> HIDE DEF v
  <2>5. QED
    BY <2>2, <2>3, <2>4, ReplaceMoves
<1>14. ASSUME NEW a \in Actors, WindowDetail(a) PROVE ReplaceInv'
  <2>1. a \in Handlers /\ (job[a].fresh \/ job[a].window \in Unnamed)
    BY <1>1, <1>14 DEF WindowDetail, Typed, ComparedInv, Actors, Resolving
  <2>2. answered' \subseteq
          answered \cup {<<job[a].window, desktop[job[a].address], job[a].fresh>>}
    BY <1>14 DEF WindowDetail
  <2>3. ReplacedAreRejected'
    BY <2>1, <2>2 DEF ReplaceInv, ReplacedAreRejected
  <2>4. job'[a] = Idle /\ \A b \in Actors \ {a} : job'[b] = job[b]
    BY <1>1, <1>2, <1>14, JobUpdate DEF WindowDetail
  <2>5. ComparedInv'
    BY <1>1, <1>2, <2>4 DEF ComparedInv, Actors
  <2>6. QED
    BY <2>3, <2>5 DEF ReplaceInv
<1>15. ASSUME NEW a \in Actors, Interrupt(a) PROVE ReplaceInv'
  BY <1>2, <1>4, <1>15 DEF Interrupt
<1>16. CASE \/ Cleanup \/ Tick
            \/ \E x \in Addresses, w \in Windows : OpenWindow(x, w)
            \/ \E x \in Addresses : CloseWindow(x)
            \/ \E s \in Sessions : EndSession(s)
            \/ UNCHANGED vars
  BY <1>3, <1>16 DEF Cleanup, Tick, OpenWindow, CloseWindow, EndSession, vars
<1>17. QED
  BY <1>5, <1>6, <1>7, <1>8, <1>9, <1>10, <1>11, <1>12, <1>13, <1>14, <1>15, <1>16
     DEF Next, Continue

\* For any number of windows and reused addresses, a marker leads to an answer about another
\* window only if that came after hyprctl was asked (core.py 668-678), or if its own window
\* has no stable id.
THEOREM ReplacedRejected == Spec => []ReplacedAreRejected
<1>1. ReplaceInv => ReplacedAreRejected
  BY DEF ReplaceInv
<1>2. QED
  BY <1>1, TypeInit, TypeStep, ReplaceInit, ReplaceStep, PTL DEF Spec

-----------------------------------------------------------------------------
(***************************************************************************)
(* Stopping Vision deletes the markers.                                    *)
(***************************************************************************)
\* Somebody has switched Vision off and is about to delete the markers.
Erasing == \E a \in Actors : job[a].step = "erase"

\* There are no markers at first.
LEMMA StopInit == Init => StopDeletes
BY DEF Init, StopDeletes, EmptyTable

\* A step that inserts no marker and leaves Vision as it is, or switches it on; and after
\* which whoever was about to delete the markers still is, or has left them behind.
LEMMA StopKeeps ==
  ASSUME StopDeletes, leftovers \subseteq leftovers', ~vision'.active => ~vision.active,
         DOMAIN markers' \subseteq DOMAIN markers,
         ~vision'.active /\ Erasing => Erasing' \/ DOMAIN markers' \subseteq leftovers'
  PROVE  StopDeletes'
BY DEF StopDeletes, Erasing

\* A process that is not about to delete markers may go on to anything.
LEMMA OthersErase ==
  ASSUME TypeOK, NEW a \in Actors, job[a].step # "erase", NEW v \in Job, Become(a, v)
  PROVE  Erasing => Erasing'
BY JobUpdate DEF Erasing

\* Every step keeps it so.
LEMMA StopStep == Typed /\ StopDeletes /\ [Next]_vars => StopDeletes'
<1> SUFFICES ASSUME Typed, StopDeletes, [Next]_vars PROVE StopDeletes'
  OBVIOUS
<1> USE VisionAssumption DEF environment, history
<1>1. TypeOK /\ TypeOK'
  BY TypeStep DEF Typed
<1>2. ASSUME UNCHANGED <<vision, leftovers, job>>, DOMAIN markers' \subseteq DOMAIN markers
      PROVE  StopDeletes'
  BY <1>2, StopKeeps DEF Erasing
<1>3. ASSUME NEW a \in Actors, NEW v, Become(a, v), job[a].step # "erase",
             UNCHANGED <<vision, leftovers>>, DOMAIN markers' \subseteq DOMAIN markers
      PROVE  StopDeletes'
  <2>1. v \in Job
    BY <1>1, <1>3 DEF TypeOK, Become
  <2>2. QED
    BY <1>1, <1>3, <2>1, OthersErase, StopKeeps
<1>4. ASSUME NEW a \in Actors, NEW s \in Sessions \cup {NoSession},
             Toggle(a, s) \/ \E on \in BOOLEAN : Switch(a, on, s)
      PROVE  StopDeletes'
  <2>1. PICK on \in BOOLEAN : Switch(a, on, s)
    BY <1>1, <1>4 DEF Toggle, TypeOK, Setting
  <2>2. job[a].step # "erase"
    BY <2>1 DEF Switch, Idle
  <2>3. \E v : Become(a, v)
    BY <2>1 DEF Switch
  <2>4. UNCHANGED <<vision, leftovers, markers>>
    BY <2>1 DEF Switch
  <2>5. QED
    BY <1>3, <2>2, <2>3, <2>4
<1>5. ASSUME NEW a \in Actors, SetVision(a) PROVE StopDeletes'
  <2>1. job[a] \in Job /\ job[a].step = "set" /\ job[a].active \in BOOLEAN
    BY <1>1, <1>5, JobFields DEF SetVision, TypeOK
  <2>2. CASE job[a].active
    BY <1>5, <2>2 DEF SetVision, StopDeletes
  <2>3. CASE ~job[a].active
    <3>1. [step |-> "erase"] \in Job /\ Become(a, [step |-> "erase"])
      BY <1>5, <2>3 DEF SetVision, Job
    <3>2. job'[a].step = "erase"
      BY <1>1, <3>1, JobUpdate
    <3>3. QED
      BY <3>2 DEF StopDeletes
  <2>4. QED
    BY <2>1, <2>2, <2>3
<1>6. ASSUME NEW a \in Actors, EraseMarkers(a) PROVE StopDeletes'
  BY <1>6 DEF EraseMarkers, Erased, EmptyTable, StopDeletes
<1>7. ASSUME NEW c \in Clis, BeginStatus(c) PROVE StopDeletes'
  BY <1>3, <1>7 DEF BeginStatus, Idle, Actors
<1>8. ASSUME NEW a \in Actors, Survey(a) PROVE StopDeletes'
  <2>1. \E v : Become(a, v)
    <3>1. CASE OwnersFor(job[a].session) = {}
      BY <1>8, <3>1 DEF Survey
    <3>2. CASE OwnersFor(job[a].session) # {}
      BY <1>8, <3>2 DEF Survey
    <3>3. QED
      BY <3>1, <3>2
  <2>2. QED
    BY <1>3, <1>8, <2>1 DEF Survey
<1>9. ASSUME NEW a \in Actors, NEW m \in Markers, MintMarker(a, m) PROVE StopDeletes'
  <2>1. PICK v \in Job : Become(a, v)
    BY <1>1, <1>9, FewerLeft
  <2>2. Erasing => Erasing'
    BY <1>1, <1>9, <2>1, OthersErase DEF MintMarker
  <2>3. DOMAIN markers' = DOMAIN markers \cup {m} /\ vision' = vision
        /\ leftovers' = IF vision.active THEN leftovers ELSE leftovers \cup {m}
    BY <1>9 DEF MintMarker, Put
  <2>4. QED
    BY <2>2, <2>3 DEF StopDeletes, Erasing
<1>10. ASSUME NEW h \in Handlers, NEW m \in Markers, ReadMarker(h, m) PROVE StopDeletes'
  BY <1>3, <1>10 DEF ReadMarker, Idle, Actors
<1>11. ASSUME NEW a \in Actors, FindWindow(a) \/ EndStatus(a) \/ WindowDetail(a) PROVE StopDeletes'
  BY <1>3, <1>11 DEF FindWindow, EndStatus, WindowDetail
<1>12. ASSUME NEW a \in Actors, UseMarker(a) PROVE StopDeletes'
  <2>1. DOMAIN markers' = DOMAIN markers
    BY <1>12 DEF UseMarker, Change
  <2>2. QED
    BY <1>3, <1>12, <2>1 DEF UseMarker
<1>13. ASSUME NEW a \in Actors, Interrupt(a) PROVE StopDeletes'
  <2>1. CASE job[a].step = "erase"
    BY <1>13, <2>1, StopKeeps DEF Interrupt
  <2>2. CASE job[a].step # "erase"
    BY <1>3, <1>13, <2>2 DEF Interrupt
  <2>3. QED
    BY <2>1, <2>2
<1>14. CASE Cleanup
  <2>1. DOMAIN markers' \subseteq DOMAIN markers
    BY <1>14 DEF Cleanup, Keep, RestrictValues, Restrict
  <2>2. QED
    BY <1>2, <1>14, <2>1 DEF Cleanup
<1>15. CASE \/ \E x \in Addresses, w \in Windows : OpenWindow(x, w)
            \/ \E x \in Addresses : CloseWindow(x)
            \/ \E s \in Sessions : EndSession(s)
            \/ Tick \/ UNCHANGED vars
  BY <1>2, <1>15 DEF OpenWindow, CloseWindow, EndSession, Tick, vars
<1>16. QED
  BY <1>4, <1>5, <1>6, <1>7, <1>8, <1>9, <1>10, <1>11, <1>12, <1>13, <1>14, <1>15
     DEF Next, Continue

\* For any number of threads and commands that switch Vision, of status commands under way
\* and of interruptions: stopping Vision deletes the markers there are (core.py 603-610).
THEOREM StoppingDeletes == Spec => []StopDeletes
BY TypeInit, TypeStep, StopInit, StopStep, PTL DEF Spec

-----------------------------------------------------------------------------
(***************************************************************************)
(* How long markers work after Vision was switched off.                    *)
(***************************************************************************)
\* A status command is under way that may still insert markers.
Surveying == {"survey", "mint"}
Minting == \E a \in Actors : job[a].step \in Surveying

\* Vision is off from time T on, and at time T no status command is under way.
OffFrom(T) ==
  /\ now >= T => ~vision.active
  /\ now = T => ~Minting

\* A marker expires VisionTTL after its command read the clock, and from T on no command
\* reads it.
DarkInv(T) ==
  /\ now >= T => ~Minting
  /\ \A a \in Actors : job[a].step = "mint" => job[a].at <= now
  /\ \A m \in DOMAIN markers :
       /\ markers[m].expires <= now + VisionTTL
       /\ now >= T => markers[m].expires <= T + VisionTTL

\* There are no markers at first.
LEMMA DarkInit == ASSUME NEW T \in Nat, Init, OffFrom(T) PROVE DarkInv(T)
BY DEF Init, DarkInv, OffFrom, Minting, Surveying, EmptyTable, Idle, Actors

\* A step before T, or one that neither inserts a marker nor begins a status command.
LEMMA DarkKeeps ==
  ASSUME NEW T \in Nat, Typed, DarkInv(T), OffFrom(T)', now' \in {now, now + 1},
         \A a \in Actors : job'[a].step \in Surveying =>
           \/ job'[a] = job[a]
           \/ now < T /\ now' = now /\ (job'[a].step = "mint" => job'[a].at <= now),
         \A m \in DOMAIN markers' :
           \/ m \in DOMAIN markers /\ markers'[m].expires = markers[m].expires
           \/ now < T /\ now' = now /\ markers'[m].expires <= now + VisionTTL
  PROVE  DarkInv(T)'
<1> USE VisionAssumption
<1>1. now \in Nat /\ TypeOK /\ \A m \in DOMAIN markers : markers[m].expires \in Nat
  BY DEF Typed, TypeOK, IsTable, Marker
<1>2. \A a \in Actors : job[a].step = "mint" => job[a].at \in Nat
  BY <1>1, JobFields DEF TypeOK
<1>3. (now >= T => ~Minting)'
  BY <1>1 DEF DarkInv, OffFrom, Minting
<1>4. \A a \in Actors : job'[a].step = "mint" => job'[a].at <= now'
  BY <1>1, <1>2 DEF DarkInv, Surveying
<1>5. ASSUME NEW m \in DOMAIN markers'
      PROVE  /\ markers'[m].expires <= now' + VisionTTL
             /\ now' >= T => markers'[m].expires <= T + VisionTTL
  BY <1>1, <1>5 DEF DarkInv
<1>6. QED
  BY <1>3, <1>4, <1>5 DEF DarkInv

\* Once Vision is off no status command begins, and those under way ended before T.
LEMMA DarkStep ==
  ASSUME NEW T \in Nat, Typed, DarkInv(T), OffFrom(T), OffFrom(T)', [Next]_vars
  PROVE  DarkInv(T)'
<1> USE VisionAssumption DEF environment, history
<1>1. TypeOK /\ now \in Nat
  BY DEF Typed, TypeOK
<1>2. Idle \in Job /\ Idle.step \notin Surveying
  BY DEF Job, Idle, Surveying
<1>3. ASSUME NEW a \in Actors, job[a].step \in Surveying PROVE now < T
  BY <1>1, <1>3 DEF DarkInv, Minting
<1>4. ASSUME UNCHANGED <<now, markers, job>> PROVE DarkInv(T)'
  BY <1>4 DEF DarkInv, Minting
<1>5. ASSUME NEW a \in Actors, NEW v \in Job, Become(a, v), UNCHANGED <<now, markers>>,
             v.step \in Surveying => now < T /\ (v.step = "mint" => v.at <= now)
      PROVE  DarkInv(T)'
  BY <1>1, <1>5, JobUpdate, DarkKeeps
<1>6. ASSUME NEW a \in Actors, NEW s \in Sessions \cup {NoSession}, NEW on \in BOOLEAN, Switch(a, on, s)
      PROVE  DarkInv(T)'
  <2>1. [step |-> "set", active |-> on, session |-> s] \in Job
    BY DEF Job
  <2>2. QED
    BY <1>5, <1>6, <2>1 DEF Switch, Surveying
<1>7. ASSUME NEW a \in Actors, NEW s \in Sessions \cup {NoSession}, Toggle(a, s) PROVE DarkInv(T)'
  BY <1>6, <1>7 DEF Toggle
<1>8. ASSUME NEW a \in Actors, SetVision(a) PROVE DarkInv(T)'
  <2>1. PICK v \in Job : Become(a, v) /\ v.step \notin Surveying
    BY <1>2, <1>8 DEF SetVision, Job, Surveying
  <2>2. QED
    BY <1>5, <1>8, <2>1 DEF SetVision
<1>9. ASSUME NEW a \in Actors, EraseMarkers(a) PROVE DarkInv(T)'
  <2>1. DOMAIN markers' = {}
    BY <1>9 DEF EraseMarkers, Erased, EmptyTable
  <2>2. QED
    BY <1>1, <1>2, <1>9, <2>1, JobUpdate, DarkKeeps DEF EraseMarkers
<1>10. ASSUME NEW c \in Clis, BeginStatus(c) PROVE DarkInv(T)'
  <2>1. [step |-> "survey", session |-> vision.session] \in Job /\ c \in Actors
    BY <1>1 DEF Job, TypeOK, Setting, Actors
  <2>2. now < T
    BY <1>1, <1>10 DEF BeginStatus, OffFrom
  <2>3. QED
    BY <1>5, <1>10, <2>1, <2>2 DEF BeginStatus
<1>11. ASSUME NEW a \in Actors, Survey(a) PROVE DarkInv(T)'
  <2>1. now < T
    BY <1>3, <1>11 DEF Survey, Surveying
  <2>2. PICK v : Become(a, v) /\ (v.step = "mint" => v.at = now)
    <3>1. CASE OwnersFor(job[a].session) = {}
      BY <1>11, <3>1 DEF Survey, Idle
    <3>2. CASE OwnersFor(job[a].session) # {}
      <4>1. PICK s \in OwnersFor(job[a].session) :
              Become(a, [step |-> "mint", session |-> s, at |-> now,
                         left |-> {<<x, desktop[x]>> : x \in DOMAIN desktop}])
        BY <1>11, <3>2 DEF Survey
      <4>2. QED
        BY <4>1
    <3>3. QED
      BY <3>1, <3>2
  <2>3. v \in Job
    BY <1>1, <1>11, <2>2, TypeStep DEF Typed, TypeOK, Become
  <2>4. QED
    BY <1>1, <1>5, <1>11, <2>1, <2>2, <2>3 DEF Survey
<1>12. ASSUME NEW a \in Actors, NEW m \in Markers, MintMarker(a, m) PROVE DarkInv(T)'
  <2>1. now < T /\ job[a].at <= now /\ job[a].at \in Nat
    BY <1>1, <1>3, <1>12, JobFields DEF MintMarker, Surveying, DarkInv, TypeOK
  <2>2. PICK w \in job[a].left :
          /\ markers' = Put(markers, m, [session |-> job[a].session, address |-> w[1],
                                         window |-> w[2], expires |-> job[a].at + VisionTTL,
                                         used |-> FALSE])
          /\ job' = [job EXCEPT ![a].left = @ \ {w}]
    BY <1>12 DEF MintMarker
  <2>3. \A k \in DOMAIN markers' : \/ k \in DOMAIN markers /\ markers'[k] = markers[k]
                                   \/ markers'[k].expires = job[a].at + VisionTTL
    BY <2>2 DEF Put
  <2>4. \A b \in Actors \ {a} : job'[b] = job[b]
    BY <1>1, <2>2 DEF TypeOK
  <2>5. job'[a].at = job[a].at
    BY <1>1, <1>12, <2>2 DEF TypeOK, MintMarker, Job, Idle
  <2>6. now' = now
    BY <1>12 DEF MintMarker
  <2>7. QED
    BY <1>1, <2>1, <2>3, <2>4, <2>5, <2>6, DarkKeeps
<1>13. ASSUME NEW a \in Actors, EndStatus(a) PROVE DarkInv(T)'
  BY <1>2, <1>5, <1>13 DEF EndStatus
<1>14. ASSUME NEW h \in Handlers, NEW m \in Markers, ReadMarker(h, m) PROVE DarkInv(T)'
  <2>1. [step |-> "find", marker |-> m, address |-> markers[m].address,
         window |-> markers[m].window] \in Job
    BY <1>1, <1>14 DEF ReadMarker, TypeOK, IsTable, Marker, Job
  <2>2. QED
    BY <1>5, <1>14, <2>1 DEF ReadMarker, Actors, Surveying
<1>15. ASSUME NEW a \in Actors, FindWindow(a) PROVE DarkInv(T)'
  <2>1. Found(job[a]) \in Job /\ Found(job[a]).step = "use"
    BY <1>1, <1>15, FoundJob DEF FindWindow, TypeOK
  <2>2. PICK v \in Job : Become(a, v) /\ v.step \notin Surveying
    BY <1>2, <1>15, <2>1 DEF FindWindow, Found, Surveying
  <2>3. QED
    BY <1>5, <1>15, <2>2 DEF FindWindow
<1>16. ASSUME NEW a \in Actors, UseMarker(a) PROVE DarkInv(T)'
  <2>1. /\ [job[a] EXCEPT !.step = "detail"] \in Job
        /\ [job[a] EXCEPT !.step = "detail"].step = "detail"
    BY <1>1, <1>16, NextStep DEF UseMarker, TypeOK
  <2>2. \A m \in DOMAIN markers' : m \in DOMAIN markers /\ markers'[m].expires = markers[m].expires
    BY <1>1, <1>16 DEF UseMarker, Change, Used, TypeOK, IsTable, Marker
  <2>3. QED
    BY <1>1, <1>16, <2>1, <2>2, JobUpdate, DarkKeeps DEF UseMarker, Surveying
<1>17. ASSUME NEW a \in Actors, WindowDetail(a) PROVE DarkInv(T)'
  BY <1>2, <1>5, <1>17 DEF WindowDetail
<1>18. ASSUME NEW a \in Actors, Interrupt(a) PROVE DarkInv(T)'
  BY <1>2, <1>5, <1>18 DEF Interrupt
<1>19. CASE Cleanup
  <2>1. \A m \in DOMAIN markers' : m \in DOMAIN markers /\ markers'[m] = markers[m]
    BY <1>19 DEF Cleanup, Keep, RestrictValues, Restrict
  <2>2. QED
    BY <1>1, <1>19, <2>1, DarkKeeps DEF Cleanup
<1>20. CASE Tick
  BY <1>1, <1>20, DarkKeeps DEF Tick
<1>21. CASE \/ \E x \in Addresses, w \in Windows : OpenWindow(x, w)
            \/ \E x \in Addresses : CloseWindow(x)
            \/ \E s \in Sessions : EndSession(s)
            \/ UNCHANGED vars
  BY <1>4, <1>21 DEF OpenWindow, CloseWindow, EndSession, vars
<1>22. QED
  BY <1>6, <1>7, <1>8, <1>9, <1>10, <1>11, <1>12, <1>13, <1>14, <1>15, <1>16, <1>17, <1>18,
     <1>19, <1>20, <1>21 DEF Next, Continue

\* When Vision stays off (set_vision) from a time at which no `vision status` was under way,
\* then VisionTTL later no marker can be resolved, even if the process that switched it off
\* was killed before it deleted the markers (core.py 603-610): the bound for the markers
\* that StopDeletes makes an exception of.
THEOREM DarkWithinTTL ==
  ASSUME NEW T \in Nat
  PROVE  Spec /\ []OffFrom(T) =>
           [](now > T + VisionTTL => \A m \in DOMAIN markers : ~Resolvable(markers[m], now))
<1> DEFINE Dark == now > T + VisionTTL => \A m \in DOMAIN markers : ~Resolvable(markers[m], now)
<1>1. Init /\ OffFrom(T) => Typed /\ DarkInv(T)
  BY TypeInit, DarkInit
<1>2. Typed /\ DarkInv(T) /\ OffFrom(T) /\ OffFrom(T)' /\ [Next]_vars => (Typed /\ DarkInv(T))'
  BY TypeStep, DarkStep
<1>3. Typed /\ DarkInv(T) => Dark
  BY VisionAssumption DEF Typed, TypeOK, IsTable, Marker, DarkInv, Resolvable
<1>4. QED
  BY <1>1, <1>2, <1>3, PTL DEF Spec
=============================================================================
