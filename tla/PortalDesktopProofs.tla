------------------------ MODULE PortalDesktopProofs ------------------------
(***************************************************************************)
(* Theorems about PortalDesktop, for any number of requests, windows and   *)
(* addresses, any movements and capabilities, and any number of mishaps.   *)
(***************************************************************************)
EXTENDS PortalDesktop, FiniteSetTheorems, TLAPS

-----------------------------------------------------------------------------
(***************************************************************************)
(* What is left of a plan.                                                 *)
(***************************************************************************)
\* The ends of the plan of each kind of request.
IsRest(s, kind) ==
  \/ kind = "text" /\ s = <<"store">>
  \/ kind = "continue" /\ s \in {<<"store", "copy">>, <<"copy">>}
  \/ kind = "open" /\ s \in {<<"store", "press">>, <<"press">>}
  \/ kind = "clipboard" /\ s = <<"copy">>
  \/ kind \in {"close", "arrange"} /\ s \in {<<"find", "act">>, <<"act">>}
  \/ kind = "take" /\ s \in {<<"find", "focus", "again", "context", "keep">>,
                             <<"focus", "again", "context", "keep">>,
                             <<"again", "context", "keep">>,
                             <<"context", "keep">>, <<"keep">>}
  \/ kind = "move" /\ s \in {<<"cursor", "point">>, <<"point">>}
  \/ kind = "shot" /\ s \in {<<"temporary", "grim", "keep", "remove">>,
                             <<"grim", "keep", "remove">>,
                             <<"keep", "remove">>, <<"remove">>}
  \/ kind \in {"click", "key", "media", "audio", "launch"} /\ s = <<"press">>

\* The step that follows one, or the answer.
After(kind, step) ==
  CASE step = "auth" -> Head(Plan(kind))
    [] step = "store" -> IF kind = "text" THEN "ok"
                         ELSE IF kind = "continue" THEN "copy" ELSE "press"
    [] step = "find" -> IF kind = "take" THEN "focus" ELSE "act"
    [] step = "focus" -> "again"
    [] step = "again" -> "context"
    [] step = "context" -> "keep"
    [] step = "keep" -> IF kind = "take" THEN "ok" ELSE "remove"
    [] step = "cursor" -> "point"
    [] step = "temporary" -> "grim"
    [] step = "grim" -> "keep"
    [] OTHER -> "ok"

\* The kinds whose plans have a step.
TakenBy(kind, step) ==
  CASE step = "store" -> kind \in {"text", "continue", "open"}
    [] step = "copy" -> kind \in {"continue", "clipboard"}
    [] step = "act" -> kind \in {"close", "arrange"}
    [] step = "find" -> kind \in {"close", "arrange", "take"}
    [] step \in {"focus", "again", "context"} -> kind = "take"
    [] step = "keep" -> kind \in {"take", "shot"}
    [] step \in {"cursor", "point"} -> kind = "move"
    [] step \in {"temporary", "grim", "remove"} -> kind = "shot"
    [] step = "press" -> kind \in {"open", "click", "key", "media", "audio", "launch"}
    [] OTHER -> TRUE

\* Short sequences, taken apart.
LEMMA ShortSequences ==
  /\ \A a : Head(<<a>>) = a /\ Len(<<a>>) = 1 /\ <<a>> # <<>>
  /\ \A a, b :
       /\ Head(<<a, b>>) = a /\ Tail(<<a, b>>) = <<b>>
       /\ Len(<<a, b>>) = 2 /\ <<a, b>> # <<>>
  /\ \A a, b, c :
       /\ Head(<<a, b, c>>) = a /\ Tail(<<a, b, c>>) = <<b, c>>
       /\ Len(<<a, b, c>>) = 3 /\ <<a, b, c>> # <<>>
  /\ \A a, b, c, d :
       /\ Head(<<a, b, c, d>>) = a /\ Tail(<<a, b, c, d>>) = <<b, c, d>>
       /\ Len(<<a, b, c, d>>) = 4 /\ <<a, b, c, d>> # <<>>
  /\ \A a, b, c, d, e :
       /\ Head(<<a, b, c, d, e>>) = a /\ Tail(<<a, b, c, d, e>>) = <<b, c, d, e>>
       /\ Len(<<a, b, c, d, e>>) = 5 /\ <<a, b, c, d, e>> # <<>>
OBVIOUS

\* A step before a sequence.
LEMMA ConsSequence ==
  ASSUME NEW S, NEW e \in S, NEW s \in Seq(S)
  PROVE  /\ <<e>> \o s \in Seq(S) /\ <<e>> \o s # <<>>
         /\ Head(<<e>> \o s) = e /\ Tail(<<e>> \o s) = s
         /\ Len(<<e>> \o s) = Len(s) + 1
OBVIOUS

\* What is left of a plan is a step that belongs to it, with the right rest after it.
LEMMA RestParts ==
  ASSUME NEW kind \in Kinds, NEW s, IsRest(s, kind)
  PROVE  /\ s # <<>> /\ s \in Seq(Steps)
         /\ Head(s) \in Steps \ {"auth"} /\ TakenBy(kind, Head(s))
         /\ IF Len(s) = 1
              THEN After(kind, Head(s)) = "ok"
              ELSE IsRest(Tail(s), kind) /\ Head(Tail(s)) = After(kind, Head(s))
<1> DEFINE Parted(t) ==
      /\ t # <<>> /\ t \in Seq(Steps)
      /\ Head(t) \in Steps \ {"auth"} /\ TakenBy(kind, Head(t))
      /\ IF Len(t) = 1
           THEN After(kind, Head(t)) = "ok"
           ELSE IsRest(Tail(t), kind) /\ Head(Tail(t)) = After(kind, Head(t))
<1>1. ASSUME kind = "text" PROVE Parted(<<"store">>)
  BY <1>1, ShortSequences DEF IsRest, After, Steps, TakenBy
<1>2. ASSUME kind = "continue" PROVE Parted(<<"store", "copy">>) /\ Parted(<<"copy">>)
  BY <1>2, ShortSequences DEF IsRest, After, Steps, TakenBy
<1>3. ASSUME kind = "open" PROVE Parted(<<"store", "press">>) /\ Parted(<<"press">>)
  BY <1>3, ShortSequences DEF IsRest, After, Steps, TakenBy
<1>4. ASSUME kind = "clipboard" PROVE Parted(<<"copy">>)
  BY <1>4, ShortSequences DEF IsRest, After, Steps, TakenBy
<1>5. ASSUME kind \in {"close", "arrange"}
      PROVE  Parted(<<"find", "act">>) /\ Parted(<<"act">>)
  BY <1>5, ShortSequences DEF IsRest, After, Steps, TakenBy
<1>6. ASSUME kind = "take"
      PROVE  /\ Parted(<<"find", "focus", "again", "context", "keep">>)
             /\ Parted(<<"focus", "again", "context", "keep">>)
             /\ Parted(<<"again", "context", "keep">>)
             /\ Parted(<<"context", "keep">>) /\ Parted(<<"keep">>)
  BY <1>6, ShortSequences DEF IsRest, After, Steps, TakenBy
<1>7. ASSUME kind = "move" PROVE Parted(<<"cursor", "point">>) /\ Parted(<<"point">>)
  BY <1>7, ShortSequences DEF IsRest, After, Steps, TakenBy
<1>8. ASSUME kind = "shot"
      PROVE  /\ Parted(<<"temporary", "grim", "keep", "remove">>)
             /\ Parted(<<"grim", "keep", "remove">>)
             /\ Parted(<<"keep", "remove">>) /\ Parted(<<"remove">>)
  BY <1>8, ShortSequences DEF IsRest, After, Steps, TakenBy
<1>9. ASSUME kind \in {"click", "key", "media", "audio", "launch"}
      PROVE  Parted(<<"press">>)
  BY <1>9, ShortSequences DEF IsRest, After, Steps, TakenBy
<1> QED
  BY <1>1, <1>2, <1>3, <1>4, <1>5, <1>6, <1>7, <1>8, <1>9 DEF IsRest

\* A plan is what is left of it at first.
LEMMA PlanIsRest == ASSUME NEW kind \in Kinds PROVE IsRest(Plan(kind), kind)
BY DEF Kinds, IsRest, Plan, TakePlan, ShotPlan

-----------------------------------------------------------------------------
(***************************************************************************)
(* What a request remembers.                                               *)
(***************************************************************************)
Endings == {"ok", "refused", "failed", "lost"}

\* Where a request is: its next step while it is worked on.
Stage(j) == IF j.state = "working" THEN Head(j.todo) ELSE j.state

\* What is left to do belongs to the plan, and saw holds what the last reading saw.
Planned(j) ==
  /\ j \in Job
  /\ j.state \in Endings \cup {"new"} => j.todo = <<>>
  /\ j.state \in {"waiting", "sending"} => j.todo = <<"auth">> \o Plan(j.kind)
  /\ j.state = "working" =>
       j.todo = <<"auth">> \o Plan(j.kind) \/ IsRest(j.todo, j.kind)

Sane(j) ==
  /\ Planned(j)
  /\ IF Stage(j) = "point" THEN j.saw \in Int
     ELSE IF Stage(j) = "keep" /\ j.kind = "take" THEN j.saw \in Windows \cup {None}
     ELSE j.saw = None

Same(j, k) == k.kind = j.kind /\ k.at = j.at /\ k.meant = j.meant

\* A request at a step, in terms of its stage.
LEMMA StageFacts ==
  ASSUME NEW j, Planned(j)
  PROVE  /\ j.kind \in Kinds /\ j.at \in Addresses /\ j.meant \in Windows \cup {None}
         /\ Stage(j) \in Steps \cup Endings \cup {"new", "waiting", "sending"}
         /\ Stage(j) \in Steps <=> j.state = "working"
         /\ Stage(j) \in Steps => TakenBy(j.kind, Stage(j)) /\ j.todo # <<>>
         /\ \A s \in Endings \cup {"new", "waiting", "sending"} : Stage(j) = s <=> j.state = s
<1>1. /\ j.kind \in Kinds /\ j.at \in Addresses /\ j.meant \in Windows \cup {None}
      /\ j.state \in {"new", "ok", "refused", "failed", "lost"} \cup Open
  BY DEF Planned, Job, Open
<1>2. ASSUME j.state = "working"
      PROVE  Head(j.todo) \in Steps /\ TakenBy(j.kind, Head(j.todo)) /\ j.todo # <<>>
  <2>1. CASE IsRest(j.todo, j.kind)
    BY <1>1, <2>1, RestParts
  <2>2. CASE j.todo = <<"auth">> \o Plan(j.kind)
    <3>1. "auth" \in Steps /\ Plan(j.kind) \in Seq(Steps)
      BY <1>1, PlanIsRest, RestParts DEF Steps
    <3>2. Head(j.todo) = "auth" /\ j.todo # <<>>
      BY <2>2, <3>1, ConsSequence
    <3> QED BY <3>2 DEF Steps, TakenBy
  <2> QED BY <1>2, <2>1, <2>2 DEF Planned
<1> QED BY <1>1, <1>2 DEF Stage, Steps, Endings, Open

\* The end of a request.
LEMMA EndedJob ==
  ASSUME NEW j, Planned(j), NEW s \in Endings
  PROVE  LET k == Ended(j, s)
         IN  Sane(k) /\ Same(j, k) /\ Stage(k) = s
<1>1. PICK k : k = Ended(j, s)
  OBVIOUS
<1>2. /\ k \in Job /\ k.kind = j.kind /\ k.at = j.at /\ k.meant = j.meant
      /\ k.state = s /\ k.todo = <<>> /\ k.saw = None
  <2>1. j \in Job /\ <<>> \in Seq(Steps) /\ s \in {"ok", "refused", "failed", "lost"}
    BY DEF Planned, Endings
  <2> QED BY <1>1, <2>1 DEF Ended, Job
<1>3. Sane(k) /\ Same(j, k) /\ Stage(k) = s
  BY <1>2 DEF Sane, Planned, Same, Stage, Endings
<1> QED BY <1>1, <1>3

\* The next step of a request that has seen v.
LEMMA PastJob ==
  ASSUME NEW j, Planned(j), j.state = "working",
         NEW v \in Windows \cup {None} \cup Int
  PROVE  LET k == Past([j EXCEPT !.saw = v])
         IN  /\ Planned(k) /\ Same(j, k) /\ Stage(k) = After(j.kind, Stage(j))
             /\ k.saw = IF Stage(k) = "ok" THEN None ELSE v
<1>1. PICK i : i = [j EXCEPT !.saw = v]
  OBVIOUS
<1>2. /\ i \in Job /\ i.kind = j.kind /\ i.at = j.at /\ i.meant = j.meant
      /\ i.state = "working" /\ i.todo = j.todo /\ i.saw = v
  BY <1>1 DEF Planned, Job
<1>3. Planned(i) /\ Stage(i) = Stage(j)
  BY <1>2 DEF Planned, Endings, Stage
<1>4. j.kind \in Kinds /\ Plan(j.kind) \in Seq(Steps) /\ Plan(j.kind) # <<>>
  BY <1>2, PlanIsRest, RestParts DEF Job
<1>5. PICK t : t = j.todo
  OBVIOUS
<1>6. IF Len(t) = 1
        THEN After(j.kind, Head(t)) = "ok"
        ELSE IsRest(Tail(t), j.kind) /\ Head(Tail(t)) = After(j.kind, Head(t))
  <2>1. CASE IsRest(t, j.kind)
    BY <1>4, <2>1, RestParts
  <2>2. CASE t = <<"auth">> \o Plan(j.kind)
    <3>1. "auth" \in Steps /\ Len(Plan(j.kind)) # 0
      BY <1>4 DEF Steps
    <3>2. Head(t) = "auth" /\ Tail(t) = Plan(j.kind) /\ Len(t) # 1
      BY <1>4, <2>2, <3>1, ConsSequence
    <3>3. After(j.kind, "auth") = Head(Plan(j.kind))
      BY DEF After
    <3> QED BY <1>4, <3>2, <3>3, PlanIsRest
  <2> QED BY <1>5, <2>1, <2>2 DEF Planned
<1>7. CASE Len(t) = 1
  <2>1. Past(i) = Ended(i, "ok")
    BY <1>2, <1>5, <1>7 DEF Past
  <2>2. Sane(Past(i)) /\ Same(i, Past(i)) /\ Stage(Past(i)) = "ok"
    BY <1>3, <2>1, EndedJob DEF Endings
  <2>3. Past(i).saw = None
    BY <2>2 DEF Sane
  <2>4. Stage(j) = Head(t)
    BY <1>5 DEF Stage
  <2> QED BY <1>1, <1>2, <1>6, <1>7, <2>2, <2>3, <2>4 DEF Sane, Same
<1>8. CASE Len(t) # 1
  <2>1. PICK k : k = Past(i)
    OBVIOUS
  <2>2. k = [i EXCEPT !.todo = Tail(t)]
    BY <1>2, <1>5, <1>8, <2>1 DEF Past
  <2>3. Tail(t) \in Seq(Steps) /\ Head(Tail(t)) \in Steps
    BY <1>4, <1>6, <1>8, RestParts
  <2>4. /\ k \in Job /\ k.kind = j.kind /\ k.at = j.at /\ k.meant = j.meant
        /\ k.state = "working" /\ k.todo = Tail(t) /\ k.saw = v
    BY <1>2, <2>2, <2>3 DEF Job
  <2>5. Planned(k) /\ Same(j, k)
    BY <1>6, <1>8, <2>4 DEF Planned, Same, Endings
  <2>6. Stage(k) = After(j.kind, Stage(j)) /\ Stage(k) # "ok"
    BY <1>5, <1>6, <1>8, <2>3, <2>4 DEF Stage, Steps
  <2> QED BY <1>1, <2>1, <2>4, <2>5, <2>6
<1> QED BY <1>7, <1>8

\* A request that goes on without looking.
LEMMA GoesJob ==
  ASSUME NEW j, Sane(j), j.state = "working", Stage(j) \notin {"context", "cursor"}
  PROVE  LET k == Past(j)
         IN  Sane(k) /\ Same(j, k) /\ Stage(k) = After(j.kind, Stage(j))
<1>1. PICK v : v = j.saw
  OBVIOUS
<1>2. j \in Job /\ [j EXCEPT !.saw = v] = j /\ v \in Windows \cup {None} \cup Int
  BY <1>1 DEF Sane, Planned, Job
<1>3. PICK k : k = Past(j)
  OBVIOUS
<1>4. /\ Planned(k) /\ Same(j, k) /\ Stage(k) = After(j.kind, Stage(j))
      /\ k.saw = IF Stage(k) = "ok" THEN None ELSE v
  BY <1>2, <1>3, PastJob DEF Sane
<1>5. /\ j.kind \in Kinds /\ Stage(j) \in Steps /\ TakenBy(j.kind, Stage(j))
  BY StageFacts DEF Sane
<1>6. PICK step, next : step = Stage(j) /\ next = After(j.kind, step)
  OBVIOUS
<1>7. /\ next # "point" /\ (j.kind = "take" => next # "keep")
      /\ step = "point" \/ (step = "keep" /\ j.kind = "take") => next = "ok"
  <2>1. CASE step = "auth"
    BY <1>5, <1>6, <2>1, ShortSequences DEF After, Plan, TakePlan, ShotPlan, Kinds
  <2>2. CASE step \in {"store", "find", "focus", "again"}
    BY <1>6, <2>2 DEF After
  <2>3. CASE step \in {"keep", "temporary", "grim"}
    BY <1>5, <1>6, <2>3 DEF After, TakenBy
  <2>4. CASE step \in {"copy", "press", "act", "point", "remove"}
    BY <1>6, <2>4 DEF After
  <2> QED BY <1>5, <1>6, <2>1, <2>2, <2>3, <2>4 DEF Steps
<1>8. k.kind = j.kind
  BY <1>4 DEF Same
<1>9. k.saw = None
  BY <1>1, <1>4, <1>6, <1>7 DEF Sane
<1> QED BY <1>3, <1>4, <1>6, <1>7, <1>8, <1>9 DEF Sane

-----------------------------------------------------------------------------
(***************************************************************************)
(* What a step does to one request and to what that request left behind.   *)
(***************************************************************************)
Typed == TypeOK /\ \A r \in Requests : Sane(job[r])

ItemsOf(r) == {e \in inbox : e[1] = r}
ActedOf(r) == {a \in acted : a[1] = r}

\* Steps that leave something behind, or take it away.
Effects == {"store", "keep", "copy", "act", "temporary", "remove"}

SameItems(r) == ItemsOf(r)' = ItemsOf(r)
SameActs(r) == ActedOf(r)' = ActedOf(r)
SameShot(r) == r \in shots' <=> r \in shots
NotCopied(r) == clipboard' = r => clipboard = r
Untouched(r) == SameItems(r) /\ SameActs(r) /\ SameShot(r) /\ NotCopied(r)

Advances(j, k) ==
  Stage(j) \in Steps /\ Same(j, k) /\ Stage(k) = After(j.kind, Stage(j))

Stops(j, k) ==
  /\ Same(j, k)
  /\ \/ Stage(j) \in Fallible \cup {"sending"} /\ Stage(k) = "failed"
     \/ Stage(j) \in {"auth", "again"} /\ Stage(k) = "refused"
     \/ Stage(j) \in Steps \cup {"waiting", "sending"} /\ Stage(k) = "lost"

\* A phone asks, its handshake ends, and its request is read.
Begins(j, k) ==
  \/ /\ Stage(j) = "new" /\ Stage(k) = "waiting"
     /\ k.kind \in {"close", "arrange", "take"} => <<k.at, k.meant>> \in known
  \/ Stage(j) = "waiting" /\ Stage(k) = "sending" /\ Same(j, k)
  \/ Stage(j) = "sending" /\ Stage(k) = "auth" /\ Same(j, k)

Stays(r) == job'[r] = job[r] /\ Untouched(r)

Proceeds(r) ==
  /\ \/ Begins(job[r], job'[r])
     \/ Stops(job[r], job'[r])
     \/ /\ Advances(job[r], job'[r]) /\ Stage(job[r]) \notin Effects
        /\ Stage(job[r]) = "focus" => FocusWindow(r)
        /\ Stage(job[r]) = "context" => job'[r].saw = focus
        /\ Stage(job[r]) = "cursor" => job'[r].saw = cursor
  /\ Untouched(r)

Stores(r) ==
  /\ Stage(job[r]) \in {"store", "keep"} /\ Advances(job[r], job'[r])
  /\ ItemsOf(r)' = ItemsOf(r) \cup {<<r, job[r].saw>>}
  /\ SameActs(r) /\ SameShot(r) /\ NotCopied(r)

Copies(r) ==
  /\ Stage(job[r]) = "copy"
  /\ Advances(job[r], job'[r]) \/ Stops(job[r], job'[r])
  /\ SameItems(r) /\ SameActs(r) /\ SameShot(r)

Acts(r) ==
  /\ Stage(job[r]) = "act"
  /\ Advances(job[r], job'[r]) \/ Stops(job[r], job'[r])
  /\ ActedOf(r)' = ActedOf(r) \cup ({r} \X Target(job[r].at))
  /\ SameItems(r) /\ SameShot(r) /\ NotCopied(r)

Shoots(r) ==
  /\ Stage(job[r]) \in {"temporary", "remove"} /\ Advances(job[r], job'[r])
  /\ r \in shots' <=> Stage(job[r]) = "temporary"
  /\ SameItems(r) /\ SameActs(r) /\ NotCopied(r)

RequestStep(r) ==
  Stays(r) \/ Proceeds(r) \/ Stores(r) \/ Copies(r) \/ Acts(r) \/ Shoots(r)

\* The actions of a request, and those of everybody else.
Own(r) ==
  \/ \E kind \in Kinds : Connect(r, kind)
  \/ Accept(r) \/ Handshake(r) \/ HandshakeFails(r) \/ ReadBody(r) \/ BodyFails(r)
  \/ Continue(r)

Around ==
  \/ \E x \in Addresses : OpenWindow(x)
  \/ \E w \in Windows : CloseWindow(w) \/ SwitchFocus(w)
  \/ MovePointer
  \/ \E granted \in Grants : EditDevice(granted)
  \/ EndSession
  \/ UNCHANGED vars

\* Next is one or the other, or the end of the daemon.
LEMMA NextCases == [Next]_vars => (\E r \in Requests : Own(r)) \/ Around \/ Kill
BY DEF Next, Own, Around

\* At says what the stage is.
LEMMA AtStage ==
  ASSUME Typed, NEW r \in Requests, NEW step \in Steps
  PROVE  At(r, step) <=> Stage(job[r]) = step
<1>1. Planned(job[r])
  BY DEF Typed, Sane
<1>2. Stage(job[r]) \in Steps <=> job[r].state = "working"
  BY <1>1, StageFacts
<1>3. Stage(job[r]) \in Steps => job[r].todo # <<>>
  BY <1>1, StageFacts
<1> QED BY <1>2, <1>3 DEF At, Stage

\* A thread goes on to its next step.
LEMMA GoesStep ==
  ASSUME Typed, NEW r \in Requests, NEW step \in Steps \ {"context", "cursor"},
         At(r, step), Goes(r)
  PROVE  Sane(job'[r]) /\ Advances(job[r], job'[r])
<1>1. Sane(job[r]) /\ job[r].state = "working" /\ Stage(job[r]) = step
  BY AtStage DEF Typed, At
<1>2. job'[r] = Past(job[r])
  BY DEF Goes, Typed, TypeOK
<1>3. PICK j, k : j = job[r] /\ k = job'[r]
  OBVIOUS
<1>4. Sane(k) /\ Same(j, k) /\ Stage(k) = After(j.kind, Stage(j))
  BY <1>1, <1>2, <1>3, GoesJob
<1> QED BY <1>1, <1>3, <1>4 DEF Advances

\* A request is answered.
LEMMA EndsStep ==
  ASSUME Typed, NEW r \in Requests, NEW s \in Endings, Ends(r, s)
  PROVE  Sane(job'[r]) /\ Same(job[r], job'[r]) /\ Stage(job'[r]) = s
<1>1. Planned(job[r])
  BY DEF Typed, Sane
<1>2. job'[r] = Ended(job[r], s)
  BY DEF Ends, Typed, TypeOK
<1>3. PICK j, k : j = job[r] /\ k = job'[r]
  OBVIOUS
<1>4. Sane(k) /\ Same(j, k) /\ Stage(k) = s
  BY <1>1, <1>2, <1>3, EndedJob
<1> QED BY <1>3, <1>4

\* A thread fails at a step that may fail.
LEMMA FailsStep ==
  ASSUME Typed, NEW r \in Requests, NEW step \in Fallible, At(r, step),
         Ends(r, "failed")
  PROVE  Sane(job'[r]) /\ Stops(job[r], job'[r])
BY AtStage, EndsStep DEF Stops, Fallible, Steps, Endings

\* A program ran, in time or not.
LEMMA RanStep ==
  ASSUME Typed, NEW r \in Requests, NEW step \in Fallible \ {"context", "cursor"},
         At(r, step), Ran(r)
  PROVE  Sane(job'[r]) /\ (Advances(job[r], job'[r]) \/ Stops(job[r], job'[r]))
<1>1. step \in Steps
  BY DEF Fallible, Steps
<1> QED BY <1>1, GoesStep, FailsStep DEF Ran

\* A thread reads the active window or the pointer.
LEMMA ReadsStep ==
  ASSUME Typed, NEW r \in Requests,
         NEW step \in {"context", "cursor"}, At(r, step),
         NEW v, v \in IF step = "context" THEN Windows \cup {None} ELSE Int,
         job' = [job EXCEPT ![r] = Past([@ EXCEPT !.saw = v])]
  PROVE  Sane(job'[r]) /\ Advances(job[r], job'[r]) /\ job'[r].saw = v
<1>1. Sane(job[r]) /\ job[r].state = "working" /\ Stage(job[r]) = step
  BY AtStage DEF Typed, At, Steps
<1>2. job'[r] = Past([job[r] EXCEPT !.saw = v])
  BY DEF Typed, TypeOK
<1>3. PICK j, k : j = job[r] /\ k = job'[r]
  OBVIOUS
<1>4. v \in Windows \cup {None} \cup Int
  OBVIOUS
<1>5. /\ Planned(k) /\ Same(j, k) /\ Stage(k) = After(j.kind, Stage(j))
      /\ k.saw = IF Stage(k) = "ok" THEN None ELSE v
  BY <1>1, <1>2, <1>3, <1>4, PastJob DEF Sane
<1>6. TakenBy(j.kind, step) /\ step \in Steps
  BY <1>1, <1>3, StageFacts DEF Sane, Steps
<1>7. /\ step = "context" => Stage(k) = "keep" /\ k.kind = "take"
      /\ step = "cursor" => Stage(k) = "point"
  BY <1>1, <1>3, <1>5, <1>6 DEF After, TakenBy, Same
<1>8. Sane(k) /\ k.saw = v
  BY <1>5, <1>7 DEF Sane
<1> QED BY <1>1, <1>3, <1>5, <1>6, <1>8 DEF Advances

\* What a request does to itself.
LEMMA OwnStep ==
  ASSUME Typed, NEW r \in Requests, Own(r)
  PROVE  Sane(job'[r]) /\ RequestStep(r)
<1> DEFINE Goal == Sane(job'[r]) /\ RequestStep(r)
<1>1. Sane(job[r]) /\ job[r] \in Job /\ \A step \in Steps : At(r, step) <=> Stage(job[r]) = step
  BY AtStage DEF Typed, TypeOK
<1>2. ASSUME NEW kind \in Kinds, Connect(r, kind) PROVE Goal
  <2>1. PICK x, w : /\ kind \in {"close", "arrange", "take"} => <<x, w>> \in known
                    /\ x \in Addresses /\ w \in Windows \cup {None}
                    /\ job' = [job EXCEPT ![r] =
                         [kind |-> kind, state |-> "waiting",
                          todo |-> <<"auth">> \o Plan(kind),
                          at |-> x, meant |-> w, saw |-> None]]
    <3>1. PICK window \in IF kind \in {"close", "arrange", "take"}
                            THEN known ELSE {<<New.at, None>>} :
            job' = [job EXCEPT ![r] =
                      [kind |-> kind, state |-> "waiting",
                       todo |-> <<"auth">> \o Plan(kind),
                       at |-> window[1], meant |-> window[2], saw |-> None]]
      BY <1>2 DEF Connect
    <3>2. New.at \in Addresses
      BY DesktopAssumption DEF New
    <3>3. CASE kind \in {"close", "arrange", "take"}
      <4>1. window \in known /\ window \in Addresses \X Windows
        BY <3>3 DEF Typed, TypeOK
      <4>2. window = <<window[1], window[2]>>
        BY <4>1
      <4> QED BY <3>1, <4>1, <4>2
    <3>4. CASE kind \notin {"close", "arrange", "take"}
      <4>1. window = <<New.at, None>>
        BY <3>4
      <4>2. window[1] = New.at /\ window[2] = None
        BY <4>1
      <4> QED BY <3>1, <3>2, <3>4, <4>2
    <3> QED BY <3>3, <3>4
  <2>2. PICK t : t = <<"auth">> \o Plan(kind)
    OBVIOUS
  <2>3. t \in Seq(Steps)
    <3>1. "auth" \in Steps /\ Plan(kind) \in Seq(Steps)
      BY PlanIsRest, RestParts DEF Steps
    <3> QED BY <2>2, <3>1, ConsSequence
  <2>4. PICK k : k = job'[r]
    OBVIOUS
  <2>5. k = [kind |-> kind, state |-> "waiting", todo |-> t,
             at |-> x, meant |-> w, saw |-> None]
    BY <2>1, <2>2, <2>4 DEF Typed, TypeOK
  <2>6. k \in Job
    BY <2>1, <2>3, <2>5 DEF Job
  <2>7. Stage(k) = "waiting" /\ Sane(k)
    BY <2>2, <2>5, <2>6 DEF Sane, Planned, Stage, Endings
  <2>8. Stage(job[r]) = "new"
    BY <1>2 DEF Connect, Stage
  <2>9. UNCHANGED <<inbox, acted, shots, clipboard>>
    BY <1>2 DEF Connect, screen, files, history
  <2>10. Begins(job[r], job'[r])
    <3>1. k.kind = kind /\ k.at = x /\ k.meant = w
      BY <2>5
    <3>2. k.kind \in {"close", "arrange", "take"} => <<k.at, k.meant>> \in known
      BY <2>1, <3>1
    <3> QED BY <2>4, <2>7, <2>8, <3>2 DEF Begins
  <2> QED
    BY <2>4, <2>7, <2>9, <2>10
       DEF RequestStep, Proceeds, Untouched, SameItems, SameActs, SameShot, NotCopied,
           ItemsOf, ActedOf
<1>3. CASE Accept(r)
  <2>1. UNCHANGED <<job, inbox, acted, shots, clipboard>>
    BY <1>3 DEF Accept, screen, files, history
  <2> QED
    BY <1>1, <2>1
       DEF RequestStep, Stays, Untouched, SameItems, SameActs, SameShot, NotCopied,
           ItemsOf, ActedOf
<1>4. CASE Handshake(r)
  <2>1. PICK j, k : j = job[r] /\ k = job'[r]
    OBVIOUS
  <2>2. /\ k \in Job /\ k.kind = j.kind /\ k.at = j.at /\ k.meant = j.meant
        /\ k.state = "sending" /\ k.todo = j.todo /\ k.saw = j.saw /\ j.state = "waiting"
    BY <1>1, <1>4, <2>1 DEF Handshake, Typed, TypeOK, Job
  <2>3. k.todo = <<"auth">> \o Plan(k.kind) /\ j.saw = None
    BY <1>1, <2>1, <2>2 DEF Sane, Planned, Stage
  <2>4. Sane(k) /\ Begins(j, k)
    BY <2>2, <2>3 DEF Sane, Planned, Begins, Same, Stage, Endings
  <2>5. UNCHANGED <<inbox, acted, shots, clipboard>>
    BY <1>4 DEF Handshake, screen, files, history
  <2> QED
    BY <2>1, <2>4, <2>5
       DEF RequestStep, Proceeds, Untouched, SameItems, SameActs, SameShot, NotCopied,
           ItemsOf, ActedOf
<1>14. CASE ReadBody(r)
  <2>1. PICK j, k : j = job[r] /\ k = job'[r]
    OBVIOUS
  <2>2. /\ k \in Job /\ k.kind = j.kind /\ k.at = j.at /\ k.meant = j.meant
        /\ k.state = "working" /\ k.todo = j.todo /\ k.saw = j.saw /\ j.state = "sending"
    BY <1>1, <1>14, <2>1 DEF ReadBody, Typed, TypeOK, Job
  <2>3. k.todo = <<"auth">> \o Plan(k.kind) /\ j.saw = None
    BY <1>1, <2>1, <2>2 DEF Sane, Planned, Stage
  <2>4. Head(k.todo) = "auth"
    <3>1. "auth" \in Steps /\ Plan(k.kind) \in Seq(Steps)
      BY <2>2, PlanIsRest, RestParts DEF Steps, Job
    <3> QED BY <2>3, <3>1, ConsSequence
  <2>5. Sane(k) /\ Begins(j, k)
    BY <2>2, <2>3, <2>4 DEF Sane, Planned, Begins, Same, Stage, Endings
  <2>6. UNCHANGED <<inbox, acted, shots, clipboard>>
    BY <1>14 DEF ReadBody, screen, files, history
  <2> QED
    BY <2>1, <2>5, <2>6
       DEF RequestStep, Proceeds, Untouched, SameItems, SameActs, SameShot, NotCopied,
           ItemsOf, ActedOf
<1>5. CASE HandshakeFails(r) \/ BodyFails(r)
  <2>1. PICK s \in Endings :
          /\ Sane(job'[r]) /\ Same(job[r], job'[r]) /\ Stage(job'[r]) = s
          /\ \/ s = "lost" /\ job[r].state = "waiting"
             \/ s = "failed" /\ job[r].state = "sending"
    BY <1>5, EndsStep DEF HandshakeFails, BodyFails, Endings
  <2>2. Stage(job[r]) = job[r].state
    BY <2>1 DEF Stage
  <2>3. UNCHANGED <<inbox, acted, shots, clipboard>>
    BY <1>5 DEF HandshakeFails, BodyFails, screen, files, history
  <2> QED
    BY <2>1, <2>2, <2>3
       DEF RequestStep, Proceeds, Stops, Untouched, SameItems, SameActs, SameShot,
           NotCopied, ItemsOf, ActedOf
<1>6. CASE Authenticate(r) \/ AuthenticateAgain(r) \/ Find(r)
  <2>1. PICK step \in {"auth", "again", "find"} :
          /\ At(r, step)
          /\ \/ Goes(r)
             \/ step \in {"auth", "again"} /\ Ends(r, "refused")
             \/ step = "find" /\ Ends(r, "failed")
    BY <1>6 DEF Authenticate, AuthenticateAgain, Find
  <2>2. Sane(job'[r]) /\ (Advances(job[r], job'[r]) \/ Stops(job[r], job'[r]))
    BY <1>1, <2>1, GoesStep, EndsStep DEF Stops, Steps, Endings, Fallible
  <2>3. Stage(job[r]) \in {"auth", "again", "find"}
    BY <1>1, <2>1 DEF Steps
  <2>4. UNCHANGED <<inbox, acted, shots, clipboard>>
    BY <1>6 DEF Authenticate, AuthenticateAgain, Find, screen, files, history
  <2> QED
    BY <2>2, <2>3, <2>4
       DEF RequestStep, Proceeds, Effects, Untouched, SameItems, SameActs, SameShot,
           NotCopied, ItemsOf, ActedOf
<1>7. CASE Store(r) \/ Keep_(r)
  <2>1. PICK step \in {"store", "keep"} : At(r, step) /\ Goes(r)
    BY <1>7 DEF Store, Keep_
  <2>2. Sane(job'[r]) /\ Advances(job[r], job'[r])
    BY <2>1, GoesStep DEF Steps
  <2>3. Stage(job[r]) = step
    BY <1>1, <2>1 DEF Steps
  <2>4. inbox' = inbox \cup {<<r, job[r].saw>>}
    <3>1. CASE Store(r)
      <4>1. Stage(job[r]) = "store"
        BY <1>1, <3>1 DEF Store, Steps
      <4>2. job[r].saw = None
        BY <1>1, <4>1 DEF Sane
      <4> QED BY <3>1, <4>2 DEF Store
    <3> QED BY <1>7, <3>1 DEF Keep_
  <2>5. UNCHANGED <<acted, shots, clipboard>>
    BY <1>7 DEF Store, Keep_, screen, history
  <2> QED
    BY <2>2, <2>3, <2>4, <2>5
       DEF RequestStep, Stores, SameActs, SameShot, NotCopied, ItemsOf, ActedOf
<1>8. CASE Copy(r)
  <2>1. Sane(job'[r]) /\ (Advances(job[r], job'[r]) \/ Stops(job[r], job'[r]))
    BY <1>8, RanStep DEF Copy, Fallible
  <2>2. UNCHANGED <<inbox, acted, shots>> /\ Stage(job[r]) = "copy"
    BY <1>1, <1>8 DEF Copy, files, history, Steps
  <2> QED
    BY <2>1, <2>2 DEF RequestStep, Copies, SameItems, SameActs, SameShot, ItemsOf, ActedOf
<1>9. CASE Press(r) \/ Grim(r) \/ FocusWindow(r) \/ Point(r)
  <2>1. PICK step \in {"press", "grim", "focus", "point"} :
          At(r, step) /\ Ran(r) /\ (step = "focus" => FocusWindow(r))
    BY <1>9 DEF Press, Grim, FocusWindow, Point
  <2>2. Sane(job'[r]) /\ (Advances(job[r], job'[r]) \/ Stops(job[r], job'[r]))
    BY <2>1, RanStep DEF Fallible
  <2>3. Stage(job[r]) = step
    BY <1>1, <2>1 DEF Steps
  <2>4. UNCHANGED <<inbox, acted, shots, clipboard>>
    BY <1>9 DEF Press, Grim, FocusWindow, Point, screen, files, history
  <2> QED
    BY <2>1, <2>2, <2>3, <2>4
       DEF RequestStep, Proceeds, Effects, Untouched, SameItems, SameActs, SameShot,
           NotCopied, ItemsOf, ActedOf
<1>10. CASE StepFails(r)
  <2>1. Sane(job'[r]) /\ Stops(job[r], job'[r])
    BY <1>10, FailsStep DEF StepFails
  <2>2. UNCHANGED <<inbox, acted, shots, clipboard>>
    BY <1>10 DEF StepFails, screen, files, history
  <2> QED
    BY <2>1, <2>2
       DEF RequestStep, Proceeds, Untouched, SameItems, SameActs, SameShot, NotCopied,
           ItemsOf, ActedOf
<1>11. CASE Act(r)
  <2>1. Sane(job'[r]) /\ (Advances(job[r], job'[r]) \/ Stops(job[r], job'[r]))
    BY <1>11, RanStep DEF Act, Fallible
  <2>2. /\ UNCHANGED <<inbox, shots, clipboard>> /\ Stage(job[r]) = "act"
        /\ acted' = acted \cup ({r} \X Target(job[r].at))
    BY <1>1, <1>11 DEF Act, files, Steps
  <2>3. ActedOf(r)' = ActedOf(r) \cup ({r} \X Target(job[r].at))
    BY <2>2 DEF ActedOf
  <2> QED
    BY <2>1, <2>2, <2>3 DEF RequestStep, Acts, SameItems, SameShot, NotCopied, ItemsOf
<1>12. CASE Context(r) \/ ReadCursor(r)
  <2>1. PICK step, v :
          /\ step \in {"context", "cursor"}
          /\ v \in IF step = "context" THEN Windows \cup {None} ELSE Int
          /\ At(r, step)
          /\ step = "context" => v = focus
          /\ step = "cursor" => v = cursor
          /\ job' = [job EXCEPT ![r] = Past([@ EXCEPT !.saw = v])]
    <3>1. focus \in Windows \cup {None} /\ cursor \in Int
      BY DEF Typed, TypeOK
    <3> DEFINE Reads(step, v) ==
          /\ step \in {"context", "cursor"}
          /\ v \in IF step = "context" THEN Windows \cup {None} ELSE Int
          /\ At(r, step)
          /\ step = "context" => v = focus
          /\ step = "cursor" => v = cursor
          /\ job' = [job EXCEPT ![r] = Past([@ EXCEPT !.saw = v])]
    <3>2. ASSUME Context(r) PROVE Reads("context", focus)
      BY <3>1, <3>2 DEF Context
    <3>3. ASSUME ReadCursor(r) PROVE Reads("cursor", cursor)
      BY <3>1, <3>3 DEF ReadCursor
    <3>4. \E step, v : Reads(step, v)
      <4> HIDE DEF Reads
      <4> QED BY <1>12, <3>2, <3>3
    <3> QED BY <3>4
  <2>2. Sane(job'[r]) /\ Advances(job[r], job'[r]) /\ job'[r].saw = v
    BY <2>1, ReadsStep
  <2>3. Stage(job[r]) = step
    BY <1>1, <2>1 DEF Steps
  <2>4. UNCHANGED <<inbox, acted, shots, clipboard>>
    BY <1>12 DEF Context, ReadCursor, screen, files, history
  <2> QED
    BY <2>1, <2>2, <2>3, <2>4
       DEF RequestStep, Proceeds, Effects, Untouched, SameItems, SameActs, SameShot,
           NotCopied, ItemsOf, ActedOf
<1>13. CASE Temporary(r) \/ Remove(r)
  <2>1. PICK step \in {"temporary", "remove"} : At(r, step) /\ Goes(r)
    BY <1>13 DEF Temporary, Remove
  <2>2. Sane(job'[r]) /\ Advances(job[r], job'[r])
    BY <2>1, GoesStep DEF Steps
  <2>3. UNCHANGED <<inbox, acted, clipboard>>
    BY <1>13 DEF Temporary, Remove, screen, history
  <2>4. CASE Temporary(r)
    <3>1. Stage(job[r]) = "temporary" /\ r \in shots'
      BY <1>1, <2>4 DEF Temporary, Steps
    <3> QED
      BY <2>2, <2>3, <3>1 DEF RequestStep, Shoots, SameItems, SameActs, NotCopied,
                              ItemsOf, ActedOf
  <2>5. CASE Remove(r)
    <3>1. Stage(job[r]) = "remove" /\ r \notin shots'
      BY <1>1, <2>5 DEF Remove, Steps
    <3> QED
      BY <2>2, <2>3, <3>1 DEF RequestStep, Shoots, SameItems, SameActs, NotCopied,
                              ItemsOf, ActedOf
  <2> QED BY <1>13, <2>4, <2>5
<1> QED
  BY <1>2, <1>3, <1>4, <1>5, <1>6, <1>7, <1>8, <1>9, <1>10, <1>11, <1>12, <1>13,
     <1>14 DEF Own, Continue

\* What a request does to another.
LEMMA OtherStep ==
  ASSUME Typed, NEW q \in Requests, Own(q), NEW r \in Requests \ {q}
  PROVE  Stays(r)
<1>1. job'[r] = job[r]
  <2>1. (\E v : job' = [job EXCEPT ![q] = v]) \/ UNCHANGED job
    BY DEF Own, Continue, Connect, Accept, Handshake, HandshakeFails,
           ReadBody, BodyFails, Authenticate,
           AuthenticateAgain, Store, Copy, Press, StepFails, Find, Act, FocusWindow,
           Context, Keep_, ReadCursor, Point, Temporary, Grim, Remove, Goes, Ends, Ran
  <2> QED BY <2>1 DEF Typed, TypeOK
<1>2. SameItems(r)
  <2>1. UNCHANGED inbox \/ \E w : inbox' = inbox \cup {<<q, w>>}
    BY DEF Own, Continue, Connect, Accept, Handshake, HandshakeFails,
           ReadBody, BodyFails, Authenticate,
           AuthenticateAgain, Store, Copy, Press, StepFails, Find, Act, FocusWindow,
           Context, Keep_, ReadCursor, Point, Temporary, Grim, Remove, files
  <2> QED BY <2>1 DEF SameItems, ItemsOf
<1>3. SameActs(r)
  <2>1. UNCHANGED acted \/ \E W : acted' = acted \cup ({q} \X W)
    BY DEF Own, Continue, Connect, Accept, Handshake, HandshakeFails,
           ReadBody, BodyFails, Authenticate,
           AuthenticateAgain, Store, Copy, Press, StepFails, Find, Act, FocusWindow,
           Context, Keep_, ReadCursor, Point, Temporary, Grim, Remove, history
  <2> QED BY <2>1 DEF SameActs, ActedOf
<1>4. SameShot(r) /\ NotCopied(r)
  <2>1. /\ shots' \in {shots, shots \cup {q}, shots \ {q}}
        /\ clipboard' \in {clipboard, q}
    BY DEF Own, Continue, Connect, Accept, Handshake, HandshakeFails,
           ReadBody, BodyFails, Authenticate,
           AuthenticateAgain, Store, Copy, Press, StepFails, Find, Act, FocusWindow,
           Context, Keep_, ReadCursor, Point, Temporary, Grim, Remove, files, screen
  <2> QED BY <2>1 DEF SameShot, NotCopied
<1> QED BY <1>1, <1>2, <1>3, <1>4 DEF Stays, Untouched

\* Whatever happens, each request stays sane and takes one of its steps, or none.
LEMMA RequestSteps ==
  ASSUME Typed, [Next]_vars, NEW r \in Requests
  PROVE  Sane(job'[r]) /\ RequestStep(r)
<1>1. Sane(job[r])
  BY DEF Typed
<1>2. ASSUME NEW q \in Requests, Own(q) PROVE Sane(job'[r]) /\ RequestStep(r)
  BY <1>1, <1>2, OwnStep, OtherStep DEF RequestStep, Stays
<1>3. CASE Around
  <2>1. UNCHANGED <<job, inbox, acted, shots, clipboard>>
    BY <1>3 DEF Around, OpenWindow, CloseWindow, SwitchFocus, MovePointer, EditDevice,
                EndSession, screen, files, history, vars
  <2> QED
    BY <1>1, <2>1 DEF RequestStep, Stays, Untouched, SameItems, SameActs, SameShot,
                      NotCopied, ItemsOf, ActedOf
<1>4. CASE Kill
  <2>1. UNCHANGED <<inbox, acted, shots, clipboard>>
    BY <1>4 DEF Kill, screen, files, history
  <2>2. Untouched(r)
    BY <2>1 DEF Untouched, SameItems, SameActs, SameShot, NotCopied, ItemsOf, ActedOf
  <2>3. PICK j, k : j = job[r] /\ k = job'[r]
    OBVIOUS
  <2>4. k = IF j.state \in Open THEN Ended(j, "lost") ELSE j
    BY <1>4, <2>3 DEF Kill, Open
  <2>5. CASE j.state \in Open
    <3>1. Sane(k) /\ Same(j, k) /\ Stage(k) = "lost"
      BY <1>1, <2>3, <2>4, <2>5, EndedJob DEF Sane, Endings
    <3>2. Stage(j) \in Steps \cup {"waiting", "sending"}
      BY <1>1, <2>3, <2>5, StageFacts DEF Sane, Open
    <3> QED BY <2>2, <2>3, <3>1, <3>2 DEF RequestStep, Proceeds, Stops
  <2>6. CASE j.state \notin Open
    BY <1>1, <2>2, <2>3, <2>4, <2>6 DEF RequestStep, Stays
  <2> QED BY <2>5, <2>6
<1> QED BY <1>2, <1>3, <1>4, NextCases

-----------------------------------------------------------------------------
(***************************************************************************)
(* Type correctness, with what a request remembers.                        *)
(***************************************************************************)
\* A daemon that has just started, without a request.
LEMMA TypedInit == Init => Typed
<1> SUFFICES ASSUME Init PROVE Typed
  OBVIOUS
<1>1. PICK new : new = New
  OBVIOUS
<1>2. /\ new \in Job /\ new.state = "new" /\ new.todo = <<>> /\ new.saw = None
  <2>1. <<>> \in Seq(Steps) /\ New.at \in Addresses
    BY DesktopAssumption DEF New
  <2> QED BY <1>1, <2>1 DEF New, Job, Kinds
<1>3. Sane(new)
  BY <1>2 DEF Sane, Planned, Stage
<1>4. \A r \in Requests : job[r] = new
  BY <1>1 DEF Init
<1>5. job \in [Requests -> Job]
  BY <1>1, <1>2 DEF Init
<1>6. \A r \in Requests : /\ Sane(job[r])
                          /\ job[r].todo = <<>> <=> job[r].state \notin Open
  BY <1>2, <1>3, <1>4 DEF Open
<1>7. IsTable(windows, Addresses, Windows)
  BY DEF Init, IsTable, EmptyTable
<1>8. /\ mishaps \in 0..MaxMishaps /\ cursor \in Int /\ pushed \in Int
      /\ caps \in Grants \cup {None} /\ crossed \in BOOLEAN
      /\ accepting = None /\ focus = None /\ clipboard = None
      /\ inbox = {} /\ shots = {} /\ known = {} /\ acted = {} /\ turned = {}
  <2>1. mishaps = 0 /\ MaxMishaps \in Nat /\ crossed = FALSE /\ cursor = 0 /\ pushed = 0
    BY DesktopAssumption DEF Init
  <2>2. mishaps \in 0..MaxMishaps /\ cursor \in Int /\ pushed \in Int
    BY <2>1
  <2>3. crossed \in BOOLEAN
    BY <2>1
  <2> QED BY <2>2, <2>3 DEF Init
<1>9. TypeOK
  BY <1>5, <1>6, <1>7, <1>8 DEF TypeOK
<1> QED BY <1>6, <1>9 DEF Typed

\* The windows that stay when some go.
Without(gone) == RestrictValues(windows, LAMBDA w : w \notin gone)

\* Windows that go leave a table of windows.
LEMMA FewerWindows ==
  ASSUME IsTable(windows, Addresses, Windows), NEW gone
  PROVE  /\ IsTable(Without(gone), Addresses, Windows)
         /\ DOMAIN Without(gone) = {x \in DOMAIN windows : windows[x] \notin gone}
         /\ \A x \in DOMAIN Without(gone) : Without(gone)[x] = windows[x]
<1>1. /\ DOMAIN Without(gone) = {x \in DOMAIN windows : windows[x] \notin gone}
      /\ Without(gone) = [x \in DOMAIN Without(gone) |-> windows[x]]
  BY Zenon DEF Without, RestrictValues, Restrict
<1> QED BY <1>1 DEF IsTable

\* What happens to the windows: none, one more that there never was, or some fewer.
WindowOpens ==
  \E x \in Addresses, w \in Windows :
    /\ \A k \in known : k[2] # w
    /\ x \notin DOMAIN windows
    /\ windows' = Put(windows, x, w) /\ known' = known \cup {<<x, w>>}

WindowsGo ==
  /\ known' = known
  /\ DOMAIN windows' \subseteq DOMAIN windows
  /\ \A x \in DOMAIN windows' : windows'[x] = windows[x]

\* The focus stays, or goes to a window there is; then everybody who gave a window the
\* focus and has not looked yet knows.
FocusMoves ==
  /\ turned \subseteq turned' /\ turned' \subseteq turned \cup Requests
  /\ \/ focus' = focus
     \/ focus' \in Windows \cup {None} /\ Taking \subseteq turned'

\* What the actions do to the windows and to the focus.
LEMMA WindowsStep ==
  ASSUME Typed, [Next]_vars
  PROVE  /\ IsTable(windows', Addresses, Windows) /\ known' \subseteq Addresses \X Windows
         /\ WindowOpens \/ WindowsGo
         /\ FocusMoves
<1> DEFINE Goal == /\ IsTable(windows', Addresses, Windows)
                   /\ known' \subseteq Addresses \X Windows
                   /\ WindowOpens \/ WindowsGo
                   /\ FocusMoves
<1>1. /\ IsTable(windows, Addresses, Windows) /\ known \subseteq Addresses \X Windows
      /\ \A x \in DOMAIN windows : windows[x] \in Windows
      /\ Taking \subseteq Requests /\ turned \subseteq Requests
  BY DEF Typed, TypeOK, IsTable, Taking
<1>2. ASSUME UNCHANGED <<windows, known, focus, turned>> PROVE Goal
  BY <1>1, <1>2 DEF WindowsGo, FocusMoves
<1>3. ASSUME NEW gone, windows' = Without(gone),
             LosesFocus(gone), UNCHANGED known
      PROVE  Goal
  <2>1. /\ IsTable(windows', Addresses, Windows)
        /\ DOMAIN windows' = {x \in DOMAIN windows : windows[x] \notin gone}
        /\ \A x \in DOMAIN windows' : windows'[x] = windows[x]
    BY <1>1, <1>3, FewerWindows
  <2>2. WindowsGo
    BY <1>3, <2>1 DEF WindowsGo
  <2>3. FocusMoves
    <3>1. Range(windows') \subseteq Windows
      BY <2>1 DEF Range, IsTable
    <3> QED BY <1>1, <1>3, <3>1 DEF LosesFocus, FocusMoves
  <2> QED BY <1>1, <1>3, <2>1, <2>2, <2>3
<1>4. ASSUME NEW x \in Addresses, OpenWindow(x) PROVE Goal
  <2>1. PICK w : w = NewWindow
    OBVIOUS
  <2>2. w \in Fresh
    BY <1>4, <2>1 DEF OpenWindow, NewWindow
  <2>3. w \in Windows /\ \A k \in known : k[2] # w
    BY <2>2 DEF Fresh
  <2>4. /\ x \notin DOMAIN windows /\ windows' = Put(windows, x, w)
        /\ known' = known \cup {<<x, w>>}
        /\ focus' = w /\ turned' = turned \cup Taking
    BY <1>4, <2>1 DEF OpenWindow
  <2>5. IsTable(windows', Addresses, Windows)
    BY <1>1, <2>3, <2>4 DEF IsTable, Put
  <2> QED BY <1>1, <2>3, <2>4, <2>5 DEF WindowOpens, FocusMoves
<1>5. ASSUME NEW w \in Windows, CloseWindow(w) PROVE Goal
  <2>1. /\ windows' = RestrictValues(windows, LAMBDA v : v # w)
        /\ LosesFocus({w}) /\ UNCHANGED known
    BY <1>5 DEF CloseWindow
  <2>2. windows' = Without({w})
    BY <2>1, Zenon DEF Without, RestrictValues
  <2> QED BY <2>1, <2>2, <1>3
<1>6. ASSUME NEW w \in Windows, SwitchFocus(w) PROVE Goal
  BY <1>1, <1>6 DEF SwitchFocus, WindowsGo, FocusMoves
<1>7. ASSUME NEW r \in Requests, Act(r) PROVE Goal
  <2>1. CASE job[r].kind = "close"
    <3>1. PICK gone : windows' = Without(gone) /\ LosesFocus(gone)
      BY <1>7, <2>1, Zenon DEF Act, Without
    <3>2. UNCHANGED known
      BY <1>7 DEF Act
    <3> QED BY <1>3, <3>1, <3>2
  <2>2. CASE job[r].kind # "close"
    BY <1>2, <1>7, <2>2 DEF Act
  <2> QED BY <2>1, <2>2
<1>8. ASSUME NEW r \in Requests, FocusWindow(r) PROVE Goal
  <2>1. Target(job[r].at) \subseteq Windows /\ UNCHANGED <<windows, known>>
    BY <1>1, <1>8 DEF Target, FocusWindow
  <2> QED BY <1>1, <1>8, <2>1 DEF FocusWindow, WindowsGo, FocusMoves
<1>9. ASSUME NEW r \in Requests, Own(r), ~Act(r), ~FocusWindow(r) PROVE Goal
  <2>1. UNCHANGED <<windows, known, focus, turned>>
    BY <1>9 DEF Own, Continue, Connect, Accept, Handshake, HandshakeFails,
           ReadBody, BodyFails, Authenticate,
           AuthenticateAgain, Store, Copy, Press, StepFails, Find, Context, Keep_,
           ReadCursor, Point, Temporary, Grim, Remove, screen, history
  <2> QED BY <1>2, <2>1
<1>10. ASSUME \/ MovePointer \/ EndSession \/ Kill \/ UNCHANGED vars
              \/ \E granted \in Grants : EditDevice(granted)
       PROVE  Goal
  <2>1. UNCHANGED <<windows, known, focus, turned>>
    BY <1>10 DEF MovePointer, EndSession, Kill, EditDevice, vars, screen, history
  <2> QED BY <1>2, <2>1
<1> QED
  BY <1>4, <1>5, <1>6, <1>7, <1>8, <1>9, <1>10, NextCases DEF Around

\* Every step keeps everything well typed.
LEMMA TypedStep == Typed /\ [Next]_vars => Typed'
<1> SUFFICES ASSUME Typed, [Next]_vars PROVE Typed'
  OBVIOUS
<1>1. \A r \in Requests : Sane(job'[r])
  BY RequestSteps
<1>2. job' \in [Requests -> Job]
  <2>1. \A r \in Requests : job'[r] \in Job
    BY <1>1 DEF Sane, Planned
  <2>2. job' = [r \in Requests |-> job'[r]]
    <3>1. \A r : (\E v : job' = [job EXCEPT ![r] = v]) => job' = [q \in Requests |-> job'[q]]
      BY DEF Typed, TypeOK
    <3>2. ASSUME NEW r \in Requests, Own(r) PROVE (\E v : job' = [job EXCEPT ![r] = v])
                                                  \/ UNCHANGED job
      BY <3>2 DEF Own, Continue, Connect, Accept, Handshake, HandshakeFails,
           ReadBody, BodyFails, Authenticate,
           AuthenticateAgain, Store, Copy, Press, StepFails, Find, Act, FocusWindow,
           Context, Keep_, ReadCursor, Point, Temporary, Grim, Remove, Goes, Ends, Ran
    <3>3. CASE Around
      BY <3>3 DEF Around, OpenWindow, CloseWindow, SwitchFocus, MovePointer, EditDevice,
                  EndSession, vars, Typed, TypeOK
    <3>4. CASE Kill
      BY <3>4 DEF Kill
    <3>5. UNCHANGED job => job' = [q \in Requests |-> job'[q]]
      BY DEF Typed, TypeOK
    <3> QED BY <3>1, <3>2, <3>3, <3>4, <3>5, NextCases
  <2> QED BY <2>1, <2>2
<1>3. \A r \in Requests : job'[r].todo = <<>> <=> job'[r].state \notin Open
  <2>1. TAKE r \in Requests
  <2>2. PICK k : k = job'[r]
    OBVIOUS
  <2>3. Planned(k) /\ k.kind \in Kinds
        /\ k.state \in {"new", "ok", "refused", "failed", "lost"} \cup Open
    BY <1>1, <2>2 DEF Sane, Planned, Job, Open
  <2>4. k.state \in {"waiting", "sending"} => k.todo # <<>>
    <3>1. "auth" \in Steps /\ Plan(k.kind) \in Seq(Steps)
      BY <2>3, PlanIsRest, RestParts DEF Steps
    <3> QED BY <2>3, <3>1, ConsSequence DEF Planned
  <2>5. k.state = "working" => k.todo # <<>>
    BY <2>3, StageFacts
  <2> QED BY <2>2, <2>3, <2>4, <2>5 DEF Planned, Endings, Open
<1>4. /\ IsTable(windows', Addresses, Windows) /\ known' \subseteq Addresses \X Windows
      /\ focus' \in Windows \cup {None} /\ turned' \subseteq Requests
  BY WindowsStep DEF FocusMoves, Typed, TypeOK
<1>5. /\ accepting' \in Requests \cup {None} /\ caps' \in Grants \cup {None}
      /\ clipboard' \in Requests \cup {None} /\ shots' \subseteq Requests
      /\ crossed' \in BOOLEAN
  <2>1. ASSUME NEW r \in Requests, Own(r)
        PROVE  /\ accepting' \in {accepting, r, None} /\ caps' = caps
               /\ clipboard' \in {clipboard, r} /\ shots' \subseteq shots \cup {r}
               /\ crossed' \in BOOLEAN
    BY <2>1 DEF Own, Continue, Connect, Accept, Handshake, HandshakeFails, AfterError,
           ReadBody, BodyFails, Authenticate, AuthenticateAgain, Store, Copy, Press, StepFails, Find, Act,
           FocusWindow, Context, Keep_, ReadCursor, Point, Temporary, Grim, Remove,
           server, screen, files, history, Typed, TypeOK
  <2>2. ASSUME Around \/ Kill
        PROVE  /\ accepting' \in {accepting, None} /\ caps' \in Grants \cup {None}
               /\ UNCHANGED <<clipboard, shots>> /\ crossed' \in BOOLEAN
    BY <2>2 DEF Around, OpenWindow, CloseWindow, SwitchFocus, MovePointer, EditDevice,
                EndSession, Kill, server, screen, files, history, vars, Typed, TypeOK
  <2> QED BY <2>1, <2>2, NextCases DEF Typed, TypeOK
<1>6. mishaps' \in 0..MaxMishaps
  <2>1. mishaps' = mishaps \/ (mishaps < MaxMishaps /\ mishaps' = mishaps + 1)
    <3>1. ASSUME NEW r \in Requests, Own(r)
          PROVE  mishaps' = mishaps \/ (mishaps < MaxMishaps /\ mishaps' = mishaps + 1)
      BY <3>1 DEF Own, Continue, Connect, Accept, Handshake, HandshakeFails,
           ReadBody, BodyFails, Authenticate, AuthenticateAgain, Store, Copy, Press, StepFails, Find, Act,
           FocusWindow, Context, Keep_, ReadCursor, Point, Temporary, Grim, Remove, Ran
    <3>2. ASSUME Around \/ Kill
          PROVE  mishaps' = mishaps \/ (mishaps < MaxMishaps /\ mishaps' = mishaps + 1)
      BY <3>2 DEF Around, OpenWindow, CloseWindow, SwitchFocus, MovePointer, EditDevice,
                  EndSession, Kill, vars
    <3> QED BY <3>1, <3>2, NextCases
  <2> QED BY <2>1, DesktopAssumption DEF Typed, TypeOK
<1>7. inbox' \subseteq Requests \X (Windows \cup {None})
  <2>1. ASSUME NEW r \in Requests, Stores(r) PROVE job[r].saw \in Windows \cup {None}
    BY <2>1 DEF Stores, Typed, Sane
  <2>2. ASSUME NEW r \in Requests, NEW e \in ItemsOf(r)'
        PROVE  e \in Requests \X (Windows \cup {None})
    <3>1. RequestStep(r)
      BY RequestSteps
    <3>2. e \in ItemsOf(r) \/ (Stores(r) /\ e = <<r, job[r].saw>>)
      BY <2>2, <3>1 DEF RequestStep, Stays, Proceeds, Untouched, SameItems, Stores,
                        Copies, Acts, Shoots
    <3> QED BY <2>1, <3>2 DEF ItemsOf, Typed, TypeOK
  <2>3. \A e \in inbox' : e[1] \in Requests
    <3>1. ASSUME NEW r \in Requests, Own(r)
          PROVE  UNCHANGED inbox \/ \E w : inbox' = inbox \cup {<<r, w>>}
      BY <3>1 DEF Own, Continue, Connect, Accept, Handshake, HandshakeFails,
           ReadBody, BodyFails, Authenticate,
           AuthenticateAgain, Store, Copy, Press, StepFails, Find, Act, FocusWindow,
           Context, Keep_, ReadCursor, Point, Temporary, Grim, Remove, files
    <3>2. Around \/ Kill => UNCHANGED inbox
      BY DEF Around, OpenWindow, CloseWindow, SwitchFocus, MovePointer, EditDevice,
             EndSession, Kill, files, vars
    <3>3. \A e \in inbox : e[1] \in Requests
      BY DEF Typed, TypeOK
    <3> QED BY <3>1, <3>2, <3>3, NextCases
  <2> QED BY <2>2, <2>3 DEF ItemsOf
<1>8. acted' \subseteq Requests \X Windows
  <2>1. ASSUME NEW r \in Requests, Own(r) PROVE acted' \subseteq Requests \X Windows
    <3>1. CASE Act(r)
      <4>1. Target(job[r].at) \subseteq Windows
        BY DEF Target, Typed, TypeOK, IsTable
      <4>2. acted' = acted \cup ({r} \X Target(job[r].at))
        BY <3>1 DEF Act
      <4> QED BY <4>1, <4>2 DEF Typed, TypeOK
    <3>2. CASE ~Act(r)
      BY <2>1, <3>2 DEF Own, Continue, Connect, Accept, Handshake, HandshakeFails,
           ReadBody, BodyFails, Authenticate, AuthenticateAgain, Store, Copy, Press, StepFails, Find,
           FocusWindow, Context, Keep_, ReadCursor, Point, Temporary, Grim, Remove,
           history, Typed, TypeOK
    <3> QED BY <3>1, <3>2
  <2>2. Around \/ Kill => acted' \subseteq Requests \X Windows
    BY DEF Around, OpenWindow, CloseWindow, SwitchFocus, MovePointer, EditDevice,
           EndSession, Kill, history, vars, Typed, TypeOK
  <2> QED BY <2>1, <2>2, NextCases
<1>9. cursor' \in Int /\ pushed' \in Int
  <2>1. cursor \in Int /\ pushed \in Int
    BY DEF Typed, TypeOK
  <2>2. ASSUME NEW r \in Requests, Point(r) PROVE cursor' \in Int /\ pushed' \in Int
    <3>1. job[r].saw \in Int
      BY <2>2, AtStage DEF Point, Typed, Sane, Steps
    <3>2. Clamped(Delta[r]) \in Int
      BY DesktopAssumption DEF Clamped
    <3> QED BY <2>1, <2>2, <3>1, <3>2 DEF Point, Destination
  <2>3. MovePointer => cursor' \in Int /\ pushed' \in Int
    BY <2>1 DEF MovePointer
  <2>4. ASSUME NEW r \in Requests, Own(r), ~Point(r) PROVE UNCHANGED <<cursor, pushed>>
    BY <2>4 DEF Own, Continue, Connect, Accept, Handshake, HandshakeFails,
           ReadBody, BodyFails, Authenticate,
           AuthenticateAgain, Store, Copy, Press, StepFails, Find, Act, FocusWindow,
           Context, Keep_, ReadCursor, Temporary, Grim, Remove, screen, history
  <2>5. Around \/ Kill => MovePointer \/ UNCHANGED <<cursor, pushed>>
    BY DEF Around, OpenWindow, CloseWindow, SwitchFocus, EditDevice, EndSession, Kill,
           screen, history, vars
  <2> QED BY <2>1, <2>2, <2>3, <2>4, <2>5, NextCases
<1> QED
  BY <1>1, <1>2, <1>3, <1>4, <1>5, <1>6, <1>7, <1>8, <1>9 DEF Typed, TypeOK

\* Every reachable state is well typed: no request has a step left that its plan has not
\* (service.py 304-441), the pointer is put where a reading of it led, and what an item
\* tells of is a window or nothing.
THEOREM TypeCorrect == Spec => []TypeOK
<1>1. Typed => TypeOK
  BY DEF Typed
<1> QED BY <1>1, TypedInit, TypedStep, PTL DEF Spec

-----------------------------------------------------------------------------
(***************************************************************************)
(* What a request leaves behind.  Needed: at which steps of which plans it *)
(* has its item and its temporary screenshot, and that whoever set the     *)
(* clipboard or acted on a window has no step left that is refused.        *)
(***************************************************************************)
HasItem(j) ==
  \/ Stage(j) = "ok" /\ j.kind \in {"text", "continue", "open", "take", "shot"}
  \/ Stage(j) = "copy" /\ j.kind = "continue"
  \/ Stage(j) = "press" /\ j.kind = "open"
  \/ Stage(j) = "remove"

\* Requests that ended half-way, which may have an item or not.
HalfWay(j) ==
  \/ Stage(j) = "lost"
  \/ Stage(j) = "failed" /\ j.kind \in {"continue", "open"}

HasShot(j) ==
  \/ Stage(j) \in {"grim", "keep", "remove"} /\ j.kind = "shot"
  \/ Stage(j) \in {"failed", "lost"}

Over(j) == Stage(j) \in {"ok", "failed", "lost"}

Left(r) ==
  /\ HasItem(job[r]) => \E w : ItemsOf(r) = {<<r, w>>}
  /\ HasItem(job[r]) \/ HalfWay(job[r]) \/ ItemsOf(r) = {}
  /\ r \in shots => HasShot(job[r])
  /\ clipboard = r => Over(job[r])
  /\ ActedOf(r) # {} => Over(job[r])

LeftInv == \A r \in Requests : Left(r)

\* Before any request nothing is left behind.
LEMMA LeftInit == Init => LeftInv
BY DesktopAssumption
   DEF Init, LeftInv, Left, HasItem, HalfWay, HasShot, ItemsOf, ActedOf, New, Stage

\* Where the plans begin.
LEMMA FirstSteps ==
  ASSUME NEW kind \in Kinds, NEW step, step = Head(Plan(kind))
  PROVE  /\ step \in {"store", "copy", "press", "find", "cursor", "temporary"}
         /\ kind \in {"text", "continue", "open"} => step = "store"
BY ShortSequences DEF Plan, TakePlan, ShotPlan, Kinds

\* Steps without an effect neither leave an item nor need one.
LEMMA QuietAdvance ==
  ASSUME NEW j, NEW k, Planned(j), Advances(j, k), Stage(j) \notin Effects
  PROVE  /\ HasItem(k) <=> HasItem(j)
         /\ ~HalfWay(j) /\ ~HalfWay(k)
         /\ HasShot(j) => HasShot(k)
         /\ ~Over(j)
<1>1. PICK step, next : step = Stage(j) /\ next = Stage(k)
  OBVIOUS
<1>2. /\ step \in Steps \ Effects /\ next = After(j.kind, step) /\ k.kind = j.kind
      /\ j.kind \in Kinds /\ TakenBy(j.kind, step)
  BY <1>1, StageFacts DEF Advances, Same
<1>3. CASE step = "auth"
  <2>1. next = Head(Plan(j.kind))
    BY <1>2, <1>3 DEF After
  <2>2. /\ next \in {"store", "copy", "press", "find", "cursor", "temporary"}
        /\ j.kind \in {"text", "continue", "open"} => next = "store"
    BY <1>2, <2>1, FirstSteps
  <2> QED BY <1>1, <1>2, <1>3, <2>2 DEF HasItem, HalfWay, HasShot, Over
<1>4. CASE step \in {"press", "point"}
  BY <1>1, <1>2, <1>4 DEF After, TakenBy, HasItem, HalfWay, HasShot, Over
<1>5. CASE step \in {"find", "focus", "again", "context", "cursor", "grim"}
  BY <1>1, <1>2, <1>5 DEF After, TakenBy, HasItem, HalfWay, HasShot, Over
<1> QED BY <1>2, <1>3, <1>4, <1>5 DEF Steps, Effects

\* Each step of a request keeps account of what it has left behind.
LEMMA LeftStep == Typed /\ LeftInv /\ [Next]_vars => LeftInv'
<1> SUFFICES ASSUME Typed, LeftInv, [Next]_vars, NEW r \in Requests PROVE Left(r)'
  BY DEF LeftInv
<1>1. RequestStep(r) /\ Planned(job[r]) /\ Planned(job'[r])
  BY RequestSteps DEF Typed, Sane
<1>2. Left(r)
  BY DEF LeftInv
<1>3. PICK j, k : j = job[r] /\ k = job'[r]
  OBVIOUS
<1>4. /\ Stage(j) \in Steps => TakenBy(j.kind, Stage(j))
      /\ j.kind \in Kinds
  BY <1>1, <1>3, StageFacts
<1>5. CASE Stays(r)
  BY <1>2, <1>5
     DEF Left, Stays, Untouched, SameItems, SameActs, SameShot, NotCopied
<1>6. CASE Proceeds(r)
  <2>1. SameItems(r) /\ SameActs(r) /\ SameShot(r) /\ NotCopied(r)
    BY <1>6 DEF Proceeds, Untouched
  <2>2. CASE Begins(j, k)
    <3>1. /\ ~HasItem(j) /\ ~HalfWay(j) /\ ~HasShot(j) /\ ~Over(j)
          /\ ~HasItem(k)
      BY <2>2 DEF Begins, HasItem, HalfWay, HasShot, Over
    <3> QED BY <1>2, <1>3, <2>1, <3>1 DEF Left, SameItems, SameActs, SameShot, NotCopied
  <2>3. CASE Stops(j, k)
    <3>1. ~HasItem(k) /\ (Stage(j) \in Steps \cup {"waiting", "sending"}) /\ ~Over(j)
      BY <2>3 DEF Stops, HasItem, Fallible, Steps, Over
    <3>2. HasItem(j) => HalfWay(k)
      BY <2>3, <1>4, <3>1 DEF Stops, Same, HasItem, HalfWay, Fallible, Steps, TakenBy
    <3>3. HasShot(j) => HasShot(k)
      BY <2>3, <3>1 DEF Stops, HasShot, Steps
    <3>4. ~HalfWay(j)
      BY <3>1 DEF HalfWay, Steps
    <3> QED
      BY <1>2, <1>3, <2>1, <3>1, <3>2, <3>3, <3>4
         DEF Left, SameItems, SameActs, SameShot, NotCopied
  <2>4. CASE Advances(j, k) /\ Stage(j) \notin Effects
    <3>1. /\ HasItem(k) <=> HasItem(j)
          /\ ~HalfWay(j) /\ ~HalfWay(k)
          /\ HasShot(j) => HasShot(k)
          /\ ~Over(j)
      BY <1>1, <1>3, <2>4, QuietAdvance
    <3> QED
      BY <1>2, <1>3, <2>1, <3>1 DEF Left, SameItems, SameActs, SameShot, NotCopied
  <2> QED BY <1>3, <1>6, <2>2, <2>3, <2>4 DEF Proceeds
<1>7. CASE Stores(r)
  <2>1. /\ Stage(j) \in {"store", "keep"} /\ Same(j, k)
        /\ Stage(k) = After(j.kind, Stage(j))
        /\ ItemsOf(r)' = ItemsOf(r) \cup {<<r, j.saw>>}
        /\ SameActs(r) /\ SameShot(r) /\ NotCopied(r)
    BY <1>3, <1>7 DEF Stores, Advances
  <2>2. TakenBy(j.kind, Stage(j)) /\ ~HasItem(j) /\ ~HalfWay(j) /\ ~Over(j)
    BY <1>4, <2>1 DEF HasItem, HalfWay, Over, Steps
  <2>3. ItemsOf(r)' = {<<r, j.saw>>}
    BY <1>2, <1>3, <2>1, <2>2 DEF Left
  <2>4. HasShot(j) => HasShot(k)
    BY <2>1 DEF HasShot, After, Same
  <2>5. HasItem(k)
    BY <2>1, <2>2 DEF HasItem, After, Same, TakenBy
  <2> QED
    BY <1>2, <1>3, <2>1, <2>2, <2>3, <2>4, <2>5 DEF Left, SameActs, SameShot, NotCopied
<1>8. CASE Copies(r)
  <2>1. /\ Stage(j) = "copy" /\ (Advances(j, k) \/ Stops(j, k))
        /\ SameItems(r) /\ SameActs(r) /\ SameShot(r)
    BY <1>3, <1>8 DEF Copies
  <2>2. j.kind \in {"continue", "clipboard"} /\ k.kind = j.kind
        /\ Stage(k) \in {"ok", "failed", "lost"}
    BY <1>4, <2>1 DEF Advances, Stops, After, Same, TakenBy, Steps
  <2>3. /\ Over(k) /\ ~HalfWay(j) /\ ~HasShot(j)
        /\ HasItem(k) => HasItem(j)
        /\ HasItem(j) => HasItem(k) \/ HalfWay(k)
    BY <2>1, <2>2 DEF HasItem, HalfWay, HasShot, Over
  <2> QED BY <1>2, <1>3, <2>1, <2>3 DEF Left, SameItems, SameActs, SameShot
<1>9. CASE Acts(r)
  <2>1. /\ Stage(j) = "act" /\ (Advances(j, k) \/ Stops(j, k))
        /\ SameItems(r) /\ SameShot(r) /\ NotCopied(r)
    BY <1>3, <1>9 DEF Acts
  <2>2. j.kind \in {"close", "arrange"} /\ k.kind = j.kind
        /\ Stage(k) \in {"ok", "failed", "lost"}
    BY <1>4, <2>1 DEF Advances, Stops, After, Same, TakenBy, Steps
  <2>3. Over(k) /\ ~HalfWay(j) /\ ~HasShot(j) /\ ~HasItem(k) /\ ~HasItem(j)
    BY <2>1, <2>2 DEF HasItem, HalfWay, HasShot, Over
  <2> QED BY <1>2, <1>3, <2>1, <2>3 DEF Left, SameItems, SameShot, NotCopied
<1>10. CASE Shoots(r)
  <2>1. /\ Stage(j) \in {"temporary", "remove"} /\ Same(j, k)
        /\ Stage(k) = After(j.kind, Stage(j))
        /\ r \in shots' <=> Stage(j) = "temporary"
        /\ SameItems(r) /\ SameActs(r) /\ NotCopied(r)
    BY <1>3, <1>10 DEF Shoots, Advances
  <2>2. j.kind = "shot"
    BY <1>4, <2>1 DEF TakenBy, Steps
  <2>3. /\ ~HalfWay(j) /\ ~Over(j)
        /\ Stage(j) = "temporary" => HasShot(k)
        /\ HasItem(k) <=> HasItem(j)
    BY <2>1, <2>2 DEF HasItem, HalfWay, HasShot, Over, After, Same
  <2> QED BY <1>2, <1>3, <2>1, <2>3 DEF Left, SameItems, SameActs, NotCopied
<1> QED BY <1>1, <1>5, <1>6, <1>7, <1>8, <1>9, <1>10 DEF RequestStep

\* LeftInv holds throughout.
LEMMA LeftInvariant == Spec => [](Typed /\ LeftInv)
<1>1. Typed /\ LeftInv /\ [Next]_vars => (Typed /\ LeftInv)'
  BY TypedStep, LeftStep
<1> QED BY <1>1, TypedInit, LeftInit, PTL DEF Spec

\* A request that is answered with a refusal (service.py 304-441) has left no item, no
\* text in the clipboard, no screenshot and no trace on a window, however the operator
\* edits the device, ends its session or other requests run meanwhile.
THEOREM RefusalsLeaveNothing == Spec => []RefusedLeavesNothing
<1>1. Typed /\ LeftInv => RefusedLeavesNothing
  <2> SUFFICES ASSUME Typed, LeftInv, NEW r \in Requests, job[r].state = "refused"
               PROVE  r \notin shots /\ clipboard # r /\ \A e \in inbox \cup acted : e[1] # r
    BY DEF RefusedLeavesNothing, Answered
  <2>1. Stage(job[r]) = "refused"
    BY DEF Stage
  <2>2. Left(r)
    BY DEF LeftInv
  <2>3. ItemsOf(r) = {} /\ ActedOf(r) = {}
    BY <2>1, <2>2 DEF Left, HasItem, HalfWay, Over
  <2> QED BY <2>1, <2>2, <2>3 DEF Left, HasShot, Over, ItemsOf, ActedOf
<1> QED BY <1>1, LeftInvariant, PTL

\* A request that ended well has the one item it should have, one that failed has an item
\* only if it was to be continued or opened as well (service.py 345-353), and a temporary
\* screenshot outlives only a failure or the daemon (core.py 740-744).
THEOREM LeftoversFit == Spec => []LeftoversFitAnswer
<1>1. Typed /\ LeftInv => LeftoversFitAnswer
  <2> SUFFICES ASSUME Typed, LeftInv PROVE LeftoversFitAnswer
    OBVIOUS
  <2>1. ASSUME NEW e \in inbox, job[e[1]].state = "failed"
        PROVE  job[e[1]].kind \in {"continue", "open"}
    <3>1. PICK r \in Requests : r = e[1]
      BY DEF Typed, TypeOK
    <3>2. Left(r) /\ Stage(job[r]) = "failed" /\ ItemsOf(r) # {}
      BY <2>1, <3>1 DEF LeftInv, Stage, ItemsOf
    <3> QED BY <3>1, <3>2 DEF Left, HasItem, HalfWay
  <2>2. ASSUME NEW r \in Requests, job[r].state = "ok",
               job[r].kind \in {"text", "continue", "open", "take", "shot"}
        PROVE  Cardinality({e \in inbox : e[1] = r}) = 1
    <3>1. Left(r) /\ HasItem(job[r])
      BY <2>2 DEF LeftInv, HasItem, Stage
    <3>2. PICK w : ItemsOf(r) = {<<r, w>>}
      BY <3>1 DEF Left
    <3>3. Cardinality({<<r, w>>}) = 1
      BY FS_Singleton
    <3> QED BY <3>2, <3>3 DEF ItemsOf
  <2>3. ASSUME NEW r \in shots
        PROVE  job[r].state \in {"working", "failed", "lost"}
    <3>1. r \in Requests
      BY DEF Typed, TypeOK
    <3>2. HasShot(job[r]) /\ Planned(job[r])
      BY <3>1 DEF LeftInv, Left, Typed, Sane
    <3> QED BY <3>2, StageFacts DEF HasShot, Steps, Endings
  <2> QED
    BY <2>1, <2>2, <2>3 DEF LeftoversFitAnswer, ItemsAreAccountedFor, ShotsAreRemoved, Answered
<1> QED BY <1>1, LeftInvariant, PTL

-----------------------------------------------------------------------------
(***************************************************************************)
(* The pointer.  Needed: whoever is about to move it has read where it is, *)
(* unless movements crossed.                                               *)
(***************************************************************************)
PointerInv ==
  ~crossed => /\ cursor = pushed
              /\ \A r \in Requests : Stage(job[r]) = "point" => job[r].saw = cursor

\* At first the pointer has not moved.
LEMMA PointerInit == Init => PointerInv
BY DEF Init, PointerInv, New, Stage

\* Who is about to move the pointer was so before, or has just read it.
LEMMA PointerFrame ==
  ASSUME Typed, PointerInv, UNCHANGED <<cursor, pushed, crossed>>,
         \A r \in Requests : Stage(job'[r]) = "point" =>
           job'[r] = job[r] \/ job'[r].saw = cursor
  PROVE  PointerInv'
BY DEF PointerInv

\* Each step adds to both, or crosses another movement.
LEMMA PointerStep == Typed /\ PointerInv /\ [Next]_vars => PointerInv'
<1> SUFFICES ASSUME Typed, PointerInv, [Next]_vars PROVE PointerInv'
  OBVIOUS
<1>1. \A r \in Requests, step \in Steps : At(r, step) <=> Stage(job[r]) = step
  BY AtStage
<1>2. ASSUME NEW r \in Requests, Point(r) PROVE PointerInv'
  <2>1. PICK d : d = Clamped(Delta[r])
    OBVIOUS
  <2>2. /\ Stage(job[r]) = "point"
        /\ cursor' = job[r].saw + d /\ pushed' = pushed + d
        /\ crossed' = (crossed \/ \E q \in Requests \ {r} : At(q, "point"))
    BY <1>1, <1>2, <2>1 DEF Point, Destination, Steps
  <2>3. Stage(job'[r]) # "point"
    <3>1. Advances(job[r], job'[r]) \/ Stops(job[r], job'[r])
      BY <1>2, RanStep DEF Point, Fallible
    <3> QED BY <2>2, <3>1 DEF Advances, Stops, After
  <2>4. ASSUME NEW q \in Requests \ {r}, ~crossed' PROVE Stage(job'[q]) # "point"
    <3>1. Stage(job[q]) # "point"
      BY <1>1, <2>2, <2>4 DEF Steps
    <3>2. Own(r)
      BY <1>2 DEF Own, Continue
    <3>3. job'[q] = job[q]
      BY <3>2, OtherStep DEF Stays
    <3> QED BY <3>1, <3>3
  <2>5. ASSUME ~crossed' PROVE cursor' = pushed'
    <3>1. ~crossed
      BY <2>2, <2>5, Zenon
    <3>2. job[r].saw = cursor /\ cursor = pushed
      BY <2>2, <3>1 DEF PointerInv
    <3> QED BY <2>2, <3>2
  <2> QED BY <2>3, <2>4, <2>5 DEF PointerInv
<1>3. CASE MovePointer
  <2>1. /\ cursor' = cursor + 1 /\ pushed' = pushed + 1 /\ UNCHANGED job
        /\ crossed' = (crossed \/ Pointing)
    BY <1>3 DEF MovePointer
  <2>2. ASSUME ~crossed'
        PROVE  ~crossed /\ \A r \in Requests : Stage(job[r]) # "point"
    <3>1. ~crossed /\ ~Pointing
      BY <2>1, <2>2, Zenon
    <3> QED BY <1>1, <3>1 DEF Pointing, Steps
  <2> QED BY <2>1, <2>2 DEF PointerInv
<1>4. ASSUME \A r \in Requests : ~Point(r), ~MovePointer PROVE PointerInv'
  <2>1. UNCHANGED <<cursor, pushed, crossed>>
    <3>1. ASSUME NEW r \in Requests, Own(r) PROVE UNCHANGED <<cursor, pushed, crossed>>
      BY <1>4, <3>1 DEF Own, Continue, Connect, Accept, Handshake, HandshakeFails,
           ReadBody, BodyFails, Authenticate, AuthenticateAgain, Store, Copy, Press, StepFails, Find, Act,
           FocusWindow, Context, Keep_, ReadCursor, Temporary, Grim, Remove, screen,
           history
    <3>2. Around \/ Kill => UNCHANGED <<cursor, pushed, crossed>>
      BY <1>4 DEF Around, OpenWindow, CloseWindow, SwitchFocus, EditDevice, EndSession,
                  Kill, screen, history, vars
    <3> QED BY <3>1, <3>2, NextCases
  <2>2. ASSUME NEW r \in Requests, Stage(job'[r]) = "point"
        PROVE  job'[r] = job[r] \/ job'[r].saw = cursor
    <3>1. RequestStep(r) /\ Planned(job[r])
      BY RequestSteps DEF Typed, Sane
    <3>2. CASE Advances(job[r], job'[r])
      <4>1. PICK kind, step : kind = job[r].kind /\ step = Stage(job[r])
        OBVIOUS
      <4>2. kind \in Kinds /\ step \in Steps /\ After(kind, step) = "point"
        BY <2>2, <3>1, <3>2, <4>1, StageFacts DEF Advances
      <4>3. step # "auth"
        BY <4>2, FirstSteps DEF After
      <4>4. step = "cursor"
        BY <4>2, <4>3 DEF After, Steps
      <4> QED
        BY <2>2, <3>1, <4>1, <4>4 DEF RequestStep, Stays, Proceeds, Begins, Stops,
                                      Stores, Copies, Acts, Shoots
    <3>3. CASE ~Advances(job[r], job'[r])
      BY <2>2, <3>1, <3>3 DEF RequestStep, Stays, Proceeds, Begins, Stops, Stores,
                              Copies, Acts, Shoots
    <3> QED BY <3>2, <3>3
  <2> QED BY <2>1, <2>2, PointerFrame
<1> QED BY <1>2, <1>3, <1>4

\* The pointer is where all its movements together lead, for any number of requests and
\* any movements, unless two were under way at once (backend.py 138-144).
THEOREM MovementsAddUp == Spec => []MovesAddUp
<1>1. PointerInv => MovesAddUp
  BY DEF PointerInv, MovesAddUp
<1>2. Typed /\ PointerInv /\ [Next]_vars => (Typed /\ PointerInv)'
  BY TypedStep, PointerStep
<1> QED BY <1>1, <1>2, TypedInit, PointerInit, PTL DEF Spec

-----------------------------------------------------------------------------
(***************************************************************************)
(* Windows.  Needed: a window has one address for life, the phone knows    *)
(* the address a window has or had, and what "Take This" gave the focus,   *)
(* and then looked at, is the window meant or came after it.               *)
(***************************************************************************)
KnownInv ==
  /\ \A x \in DOMAIN windows : <<x, windows[x]>> \in known
  /\ \A k, l \in known : k[2] = l[2] => k[1] = l[1]
  /\ \A r \in Requests :
       job[r].kind \in {"close", "arrange", "take"} /\ Stage(job[r]) # "new" =>
         <<job[r].at, job[r].meant>> \in known

\* The window of a request, or what may be taken for it.
Fits(r, w) == w = job[r].meant \/ job[r].meant \in Closed

ActsFit == \A r \in Requests : \A a \in ActedOf(r) : Fits(r, a[2])

TakesFit ==
  \A r \in Requests : job[r].kind = "take" =>
    /\ Stage(job[r]) \in {"again", "context"} => Fits(r, focus) \/ r \in turned
    /\ Stage(job[r]) = "keep" => Fits(r, job[r].saw) \/ r \in turned
    /\ \A e \in ItemsOf(r) : Fits(r, e[2]) \/ r \in turned

WindowInv == KnownInv /\ ActsFit /\ TakesFit

\* At first there is no window and no request.
LEMMA WindowInit == Init => WindowInv
BY DEF Init, WindowInv, KnownInv, ActsFit, TakesFit, New, Stage, EmptyTable, ItemsOf,
       ActedOf

\* What has the address of a request's window now is that window, or came after it.
LEMMA ReachedWindow ==
  ASSUME Typed, KnownInv, NEW r \in Requests,
         job[r].kind \in {"close", "arrange", "take"}, Stage(job[r]) # "new"
  PROVE  /\ \A w \in Target(job[r].at) : Fits(r, w)
         /\ Target(job[r].at) = {} => job[r].meant \in Closed
<1>1. PICK x, m : x = job[r].at /\ m = job[r].meant
  OBVIOUS
<1>2. <<x, m>> \in known
  BY <1>1 DEF KnownInv
<1>3. m \in {k[2] : k \in known}
  <2>1. <<x, m>>[2] = m
    OBVIOUS
  <2> QED BY <1>2, <2>1
<1>4. ASSUME m \in Range(windows) PROVE x \in DOMAIN windows /\ windows[x] = m
  <2>1. PICK y \in DOMAIN windows : windows[y] = m
    BY <1>4 DEF Range
  <2>2. <<y, m>> \in known
    BY <2>1 DEF KnownInv
  <2>3. <<y, m>>[1] = <<x, m>>[1]
    <3>1. <<y, m>>[2] = <<x, m>>[2]
      OBVIOUS
    <3> QED BY <1>2, <2>2, <3>1 DEF KnownInv
  <2>4. y = x
    BY <2>3
  <2> QED BY <2>1, <2>4
<1>5. m \in Closed \/ (x \in DOMAIN windows /\ windows[x] = m)
  BY <1>3, <1>4 DEF Closed
<1> QED BY <1>1, <1>5 DEF Target, Fits

\* Windows that were closed stay closed, and what was known stays known.
LEMMA ClosedStays ==
  ASSUME Typed, WindowInv, [Next]_vars
  PROVE  /\ Closed \subseteq Closed' /\ known \subseteq known'
         /\ \A x \in DOMAIN windows' : <<x, windows'[x]>> \in known'
         /\ \A k, l \in known' : k[2] = l[2] => k[1] = l[1]
<1>1. WindowOpens \/ WindowsGo
  BY WindowsStep
<1>2. KnownInv
  BY DEF WindowInv
<1>3. CASE WindowOpens
  <2>1. PICK x \in Addresses, w \in Windows :
          /\ \A k \in known : k[2] # w
          /\ x \notin DOMAIN windows
          /\ windows' = Put(windows, x, w) /\ known' = known \cup {<<x, w>>}
    BY <1>3 DEF WindowOpens
  <2>2. /\ DOMAIN windows' = DOMAIN windows \cup {x}
        /\ \A y \in DOMAIN windows' : windows'[y] = IF y = x THEN w ELSE windows[y]
    BY <2>1 DEF Put
  <2>3. \A k, l \in known' : k[2] = l[2] => k[1] = l[1]
    <3>1. <<x, w>>[2] = w
      OBVIOUS
    <3> QED BY <1>2, <2>1, <3>1 DEF KnownInv
  <2>4. \A y \in DOMAIN windows' : <<y, windows'[y]>> \in known'
    BY <1>2, <2>1, <2>2 DEF KnownInv
  <2>5. Closed \subseteq Closed'
    <3>1. ASSUME NEW m \in Closed PROVE m \in Closed'
      <4>1. m \in {k[2] : k \in known} /\ m \notin Range(windows)
        BY DEF Closed
      <4>2. m # w /\ m \in {k[2] : k \in known'}
        BY <2>1, <4>1
      <4>3. m \notin Range(windows')
        BY <2>1, <2>2, <4>1, <4>2 DEF Range
      <4> QED BY <4>2, <4>3 DEF Closed
    <3> QED BY <3>1
  <2> QED BY <2>1, <2>3, <2>4, <2>5
<1>4. CASE WindowsGo
  <2>1. /\ known' = known
        /\ \A y \in DOMAIN windows' : y \in DOMAIN windows /\ windows'[y] = windows[y]
    BY <1>4 DEF WindowsGo
  <2>2. Closed \subseteq Closed'
    BY <2>1 DEF Closed, Range
  <2> QED BY <1>2, <2>1, <2>2 DEF KnownInv
<1> QED BY <1>1, <1>3, <1>4

\* A window the request may be taken for stays one.
LEMMA FitsStays ==
  ASSUME Typed, WindowInv, [Next]_vars, NEW r \in Requests,
         Same(job[r], job'[r]), NEW w, Fits(r, w)
  PROVE  Fits(r, w)'
BY ClosedStays DEF Fits, Same

\* A request keeps what it is about once the phone has sent it.
LEMMA SentStays ==
  ASSUME Typed, [Next]_vars, NEW r \in Requests
  PROVE  \/ Stage(job[r]) = "new" /\ Begins(job[r], job'[r])
            /\ ItemsOf(r)' = ItemsOf(r) /\ ActedOf(r)' = ActedOf(r)
         \/ Same(job[r], job'[r]) /\ (Stage(job[r]) = "new" => job'[r] = job[r])
<1>1. RequestStep(r)
  BY RequestSteps
<1>2. PICK j, k : j = job[r] /\ k = job'[r]
  OBVIOUS
<1>3. "new" \notin Steps
  BY DEF Steps
<1>4. CASE Stays(r)
  BY <1>4 DEF Stays, Same
<1>5. CASE Proceeds(r)
  <2>1. Begins(j, k) \/ Stops(j, k) \/ Advances(j, k)
    BY <1>2, <1>5 DEF Proceeds
  <2>2. CASE Begins(j, k)
    BY <1>2, <1>5, <2>2 DEF Begins, Proceeds, Untouched, SameItems, SameActs
  <2>3. CASE Stops(j, k) \/ Advances(j, k)
    BY <1>2, <1>3, <2>3 DEF Stops, Advances, Fallible
  <2> QED BY <2>1, <2>2, <2>3
<1>6. CASE Stores(r) \/ Copies(r) \/ Acts(r) \/ Shoots(r)
  BY <1>2, <1>3, <1>6 DEF Stores, Copies, Acts, Shoots, Stops, Advances
<1> QED BY <1>1, <1>4, <1>5, <1>6 DEF RequestStep

\* The windows known, and those the requests are about.
LEMMA KnownStep == Typed /\ WindowInv /\ [Next]_vars => KnownInv'
<1> SUFFICES ASSUME Typed, WindowInv, [Next]_vars PROVE KnownInv'
  OBVIOUS
<1>1. /\ known \subseteq known'
      /\ \A x \in DOMAIN windows' : <<x, windows'[x]>> \in known'
      /\ \A k, l \in known' : k[2] = l[2] => k[1] = l[1]
  BY ClosedStays
<1>2. ASSUME NEW r \in Requests, job'[r].kind \in {"close", "arrange", "take"},
             Stage(job'[r]) # "new"
      PROVE  <<job'[r].at, job'[r].meant>> \in known'
  <2>1. CASE Stage(job[r]) = "new" /\ Begins(job[r], job'[r])
    BY <1>1, <1>2, <2>1 DEF Begins
  <2>2. CASE Same(job[r], job'[r]) /\ (Stage(job[r]) = "new" => job'[r] = job[r])
    BY <1>1, <1>2, <2>2 DEF Same, WindowInv, KnownInv
  <2> QED BY <2>1, <2>2, SentStays
<1> QED BY <1>1, <1>2 DEF KnownInv

\* The windows acted on.
LEMMA ActsFitStep == Typed /\ LeftInv /\ WindowInv /\ [Next]_vars => ActsFit'
<1> SUFFICES ASSUME Typed, LeftInv, WindowInv, [Next]_vars, NEW r \in Requests,
                    NEW a \in ActedOf(r)'
             PROVE  Fits(r, a[2])'
  BY DEF ActsFit
<1>1. RequestStep(r) /\ Planned(job[r])
  BY RequestSteps DEF Typed, Sane
<1>2. CASE a \in ActedOf(r)
  <2>1. Over(job[r])
    BY <1>2 DEF LeftInv, Left
  <2>2. Same(job[r], job'[r])
    BY <2>1, SentStays DEF Over
  <2>3. Fits(r, a[2])
    BY <1>2 DEF WindowInv, ActsFit
  <2>4. PICK w : w = a[2]
    OBVIOUS
  <2>5. Fits(r, w)'
    BY <2>2, <2>3, <2>4, FitsStays
  <2> QED BY <2>4, <2>5
<1>3. CASE a \notin ActedOf(r)
  <2>1. Acts(r)
    BY <1>1, <1>3 DEF RequestStep, Stays, Proceeds, Untouched, Stores, Copies, Shoots,
                      SameActs
  <2>2. Stage(job[r]) = "act" /\ Same(job[r], job'[r]) /\ a \in {r} \X Target(job[r].at)
    BY <1>3, <2>1 DEF Acts, Advances, Stops
  <2>3. job[r].kind \in {"close", "arrange"}
    BY <1>1, <2>2, StageFacts DEF TakenBy, Steps
  <2>4. PICK w : w = a[2]
    OBVIOUS
  <2>5. w \in Target(job[r].at)
    BY <2>2, <2>4
  <2>6. Fits(r, w)
    BY <2>2, <2>3, <2>5, ReachedWindow DEF WindowInv
  <2>7. Fits(r, w)'
    BY <2>2, <2>6, FitsStays
  <2> QED BY <2>4, <2>7
<1> QED BY <1>2, <1>3

\* The windows that were taken.
LEMMA TakesFitStep == Typed /\ LeftInv /\ WindowInv /\ [Next]_vars => TakesFit'
<1> SUFFICES ASSUME Typed, LeftInv, WindowInv, [Next]_vars, NEW r \in Requests,
                    job'[r].kind = "take"
             PROVE  /\ Stage(job'[r]) \in {"again", "context"} =>
                         Fits(r, focus)' \/ r \in turned'
                    /\ Stage(job'[r]) = "keep" =>
                         Fits(r, job[r].saw)' \/ r \in turned'
                    /\ \A e \in ItemsOf(r)' : Fits(r, e[2])' \/ r \in turned'
  BY DEF TakesFit
<1>1. /\ RequestStep(r) /\ Planned(job[r]) /\ Left(r)
      /\ turned \subseteq turned'
      /\ focus' = focus \/ Taking \subseteq turned'
  BY RequestSteps, WindowsStep DEF Typed, Sane, LeftInv, FocusMoves
<1>2. CASE Stage(job[r]) = "new" /\ Begins(job[r], job'[r]) /\ ItemsOf(r)' = ItemsOf(r)
  <2>1. Stage(job'[r]) = "waiting" /\ ItemsOf(r) = {}
    BY <1>1, <1>2 DEF Begins, Left, HasItem, HalfWay
  <2> QED BY <1>2, <2>1
<1>3. CASE Same(job[r], job'[r])
  <2>1. PICK j, k : j = job[r] /\ k = job'[r]
    OBVIOUS
  <2>2. /\ j.kind = "take" /\ j.kind \in Kinds
        /\ Stage(j) \in {"again", "context"} => Fits(r, focus) \/ r \in turned
        /\ Stage(j) = "keep" => Fits(r, j.saw) \/ r \in turned
        /\ \A e \in ItemsOf(r) : Fits(r, e[2]) \/ r \in turned
    BY <1>1, <1>3, <2>1, StageFacts DEF WindowInv, TakesFit, Same
  <2>3. \A w : Fits(r, w) => Fits(r, w)'
    BY <1>3, FitsStays
  <2>4. k = j \/ Begins(j, k) \/ Stops(j, k) \/ Advances(j, k)
    BY <1>1, <2>1 DEF RequestStep, Stays, Proceeds, Stores, Copies, Acts, Shoots
  <2>5. /\ Stage(k) = "again" => k = j \/ Stage(j) = "focus"
        /\ Stage(k) = "context" => k = j \/ Stage(j) = "again"
        /\ Stage(k) = "keep" => k = j \/ Stage(j) = "context"
    <3>1. CASE Advances(j, k)
      <4>1. PICK step : step = Stage(j)
        OBVIOUS
      <4>2. step \in Steps /\ Stage(k) = After("take", step) /\ TakenBy("take", step)
        BY <1>1, <2>1, <2>2, <3>1, <4>1, StageFacts DEF Advances
      <4>3. step = "auth" => Stage(k) = "find"
        BY <4>2, ShortSequences DEF After, Plan, TakePlan
      <4> QED BY <4>1, <4>2, <4>3 DEF After, TakenBy, Steps
    <3>2. CASE Begins(j, k) \/ Stops(j, k)
      BY <3>2 DEF Begins, Stops
    <3> QED BY <2>4, <3>1, <3>2
  <2>6. ASSUME Stage(k) \in {"again", "context"} PROVE Fits(r, focus)' \/ r \in turned'
    <3>1. CASE Stage(j) \in {"again", "context"}
      <4>1. r \in Taking
        BY <2>1, <3>1, AtStage DEF Taking, Steps
      <4>2. CASE r \notin turned'
        <5>1. focus' = focus /\ Fits(r, focus)
          BY <1>1, <2>2, <3>1, <4>1, <4>2
        <5>2. PICK w : w = focus
          OBVIOUS
        <5>3. Fits(r, w)'
          BY <2>3, <5>1, <5>2
        <5> QED BY <5>1, <5>2, <5>3 DEF Fits
      <4> QED BY <4>2
    <3>2. CASE Stage(j) = "focus"
      <4>1. FocusWindow(r)
        BY <1>1, <2>1, <2>6, <3>2
           DEF RequestStep, Stays, Proceeds, Begins, Stops, Stores, Copies, Acts, Shoots
      <4>2. /\ \A w \in Target(job[r].at) : Fits(r, w)
            /\ Target(job[r].at) = {} => job[r].meant \in Closed
        BY <2>1, <2>2, <3>2, ReachedWindow DEF WindowInv
      <4>3. PICK w : w = focus'
        OBVIOUS
      <4>4. Fits(r, w)
        BY <4>1, <4>2, <4>3 DEF FocusWindow, Fits
      <4>5. Fits(r, w)'
        BY <2>3, <4>4
      <4> QED BY <4>3, <4>5 DEF Fits
    <3> QED BY <2>5, <2>6, <3>1, <3>2
  <2>7. ASSUME Stage(k) = "keep" PROVE Fits(r, job[r].saw)' \/ r \in turned'
    <3>1. PICK w : w = job'[r].saw
      OBVIOUS
    <3>2. Fits(r, w) \/ r \in turned
      <4>1. CASE k = j
        BY <2>1, <2>2, <2>7, <3>1, <4>1
      <4>2. CASE k # j
        <5>1. Stage(j) = "context"
          BY <2>5, <2>7, <4>2
        <5>2. job'[r].saw = focus
          BY <1>1, <2>1, <2>7, <5>1
             DEF RequestStep, Stays, Proceeds, Begins, Stops, Stores, Copies, Acts, Shoots
        <5> QED BY <2>2, <3>1, <5>1, <5>2
      <4> QED BY <4>1, <4>2
    <3> QED BY <1>1, <2>3, <3>1, <3>2 DEF Fits
  <2>8. ASSUME NEW e \in ItemsOf(r)' PROVE Fits(r, e[2])' \/ r \in turned'
    <3>1. PICK w : w = e[2]
      OBVIOUS
    <3>2. Fits(r, w) \/ r \in turned
      <4>1. CASE e \in ItemsOf(r)
        BY <2>2, <3>1, <4>1
      <4>2. CASE e \notin ItemsOf(r)
        <5>1. Stores(r)
          BY <1>1, <2>8, <4>2 DEF RequestStep, Stays, Proceeds, Untouched, Copies, Acts,
                                  Shoots, SameItems
        <5>2. e = <<r, j.saw>> /\ Stage(j) \in {"store", "keep"}
          BY <2>1, <2>8, <4>2, <5>1 DEF Stores
        <5>3. Stage(j) = "keep"
          BY <1>1, <2>1, <2>2, <5>2, StageFacts DEF TakenBy, Steps
        <5>4. w = j.saw
          BY <3>1, <5>2
        <5> QED BY <2>2, <5>3, <5>4
      <4> QED BY <4>1, <4>2
    <3>3. Fits(r, w)' \/ r \in turned'
      BY <1>1, <2>3, <3>2
    <3> QED BY <3>1, <3>3
  <2> QED BY <2>1, <2>6, <2>7, <2>8
<1> QED BY <1>2, <1>3, SentStays

\* A window action that names a window by its address reaches the window the phone meant,
\* and "Take This" tells of it, for any number of requests, windows and addresses, unless
\* it was closed or, for the second, the focus moved in between (backend.py 101-136,
\* service.py 385-389).
THEOREM MeantWindowReached == Spec => []ReachesMeantWindow
<1>1. Typed /\ WindowInv => ReachesMeantWindow
  <2> SUFFICES ASSUME Typed, WindowInv PROVE ReachesMeantWindow
    OBVIOUS
  <2>1. \A a \in acted : a[1] \in Requests
    BY DEF Typed, TypeOK
  <2>2. \A e \in inbox : e[1] \in Requests
    BY DEF Typed, TypeOK
  <2>3. HitsListedWindow
    BY <2>1 DEF HitsListedWindow, WindowInv, ActsFit, ActedOf, Fits
  <2>4. TakesListedWindow
    BY <2>2 DEF TakesListedWindow, WindowInv, TakesFit, ItemsOf, Fits
  <2> QED BY <2>3, <2>4 DEF ReachesMeantWindow
<1>2. Typed /\ LeftInv /\ WindowInv /\ [Next]_vars => WindowInv'
  BY KnownStep, ActsFitStep, TakesFitStep DEF WindowInv
<1> QED BY <1>1, <1>2, LeftInvariant, WindowInit, PTL DEF Spec
=============================================================================
