-------------------------- MODULE PortalAuthProofs --------------------------
(***************************************************************************)
(* Theorems about PortalAuth, for any number of threads, operators,        *)
(* phones, secrets and requests, any lifetimes and an unbounded history.   *)
(***************************************************************************)
EXTENDS PortalAuth, TLAPS

\* A new row keeps a table a table (INSERT and UPDATE of store.py's tables).
LEMMA PutIsTable ==
  ASSUME NEW K, NEW R, NEW f, IsTable(f, K, R), NEW k \in K, NEW row \in R
  PROVE  IsTable(Put(f, k, row), K, R)
BY DEF IsTable, Put

\* The rows a DELETE keeps form a table.
LEMMA RestrictIsTable ==
  ASSUME NEW K, NEW R, NEW f, IsTable(f, K, R), NEW S \in SUBSET DOMAIN f
  PROVE  IsTable(Restrict(f, S), K, R)
BY DEF IsTable, Restrict

\* A job is replaced by another of its kind.
LEMMA JobUpdate ==
  ASSUME NEW j, DOMAIN j = Actors, NEW a \in Actors, NEW v
  PROVE  LET k == [j EXCEPT ![a] = v]
         IN  /\ DOMAIN k = Actors
             /\ k[a] = v
             /\ \A b \in Actors : b # a => k[b] = j[b]
OBVIOUS

-----------------------------------------------------------------------------
(***************************************************************************)
(* Type correctness.                                                       *)
(***************************************************************************)
\* A new database (Store.__init__, store.py 50-59) is well typed.
LEMMA TypeInit == Init => TypeOK
BY TimesAssumption
   DEF Init, TypeOK, IsTable, EmptyTable, HandlerJob, CliJob, Actors

\* Every type invariant conjunct about jobs survives a step of one actor.
LEMMA HandlerJobType ==
  ASSUME TypeOK, NEW h \in Handlers, NEW v \in HandlerJob,
         job' = [job EXCEPT ![h] = v]
  PROVE  /\ DOMAIN job' = Actors
         /\ \A g \in Handlers : job'[g] \in HandlerJob
         /\ \A c \in Clis : job'[c] \in CliJob
BY DisjointAssumption DEF TypeOK, Actors

\* The same for a step of an operator's process.
LEMMA CliJobType ==
  ASSUME TypeOK, NEW c \in Clis, NEW v \in CliJob,
         job' = [job EXCEPT ![c] = v]
  PROVE  /\ DOMAIN job' = Actors
         /\ \A g \in Handlers : job'[g] \in HandlerJob
         /\ \A d \in Clis : job'[d] \in CliJob
BY DisjointAssumption DEF TypeOK, Actors

\* A process that remembers nothing is well typed.
LEMMA IdleIsJob == Idle \in HandlerJob /\ Idle \in CliJob
BY DEF HandlerJob, CliJob

\* What a thread remembers at each step.
LEMMA HandlerJobFields ==
  ASSUME TypeOK, NEW h \in Handlers
  PROVE  /\ job[h].step = "consume" =>
              /\ job[h].secret \in Secrets /\ job[h].phone \in Phones
              /\ job[h].caps \in SUBSET Caps /\ job[h].at \in Nat
         /\ job[h].step = "mint" => job[h].phone \in Phones /\ job[h].at \in Nat
         /\ job[h].step = "sweep" => job[h].at \in Nat
BY DEF TypeOK, HandlerJob, Idle

\* What an operator's process remembers at each step.
LEMMA CliJobFields ==
  ASSUME TypeOK, NEW c \in Clis
  PROVE  /\ job[c].step = "deny" => job[c].req \in Requests
         /\ job[c].step \in {"find_device", "approve"} =>
              /\ job[c].req \in Requests /\ job[c].phone \in Phones
              /\ job[c].caps \in SUBSET Caps /\ job[c].at \in Nat
         /\ job[c].step = "approve" => job[c].known \in BOOLEAN
BY DEF TypeOK, CliJob, Idle

\* Each operation of core.py keeps the state well typed.
LEMMA TypeStep == TypeOK /\ [Next]_vars => TypeOK'
<1> SUFFICES ASSUME TypeOK, [Next]_vars PROVE TypeOK'
  OBVIOUS
<1> USE IdleIsJob
<1>1. ASSUME NEW s \in Secrets, StartPairing(s) PROVE TypeOK'
  <2>1. [expires |-> now + PairTTL, consumed |-> FALSE] \in PairingToken
    BY TimesAssumption DEF TypeOK, PairingToken
  <2>2. IsTable(pairing_tokens', Secrets, PairingToken)
    BY <1>1, <2>1, PutIsTable DEF StartPairing, TypeOK
  <2> QED BY <1>1, <2>2 DEF StartPairing, TypeOK
<1>2. ASSUME NEW r \in Requests, PollPair(r) PROVE TypeOK'
  BY <1>2 DEF PollPair, TypeOK, tables, history
<1>3. ASSUME NEW h \in Handlers, HandlerStep(h) PROVE TypeOK'
  <2>1. ASSUME NEW s \in Secrets, NEW p \in Phones, NEW q \in SUBSET Caps,
               RequestPairRead(h, s, p, q)
        PROVE  TypeOK'
    <3> DEFINE v == [step |-> "consume", secret |-> s, phone |-> p, at |-> now,
                     caps |-> IF q = {} THEN DefaultCaps ELSE q]
    <3>1. v \in HandlerJob
      BY CapsAssumption DEF HandlerJob, TypeOK
    <3>2. job' = [job EXCEPT ![h] = v]
      BY <2>1 DEF RequestPairRead, Start
    <3> HIDE DEF v
    <3> QED BY <2>1, <3>1, <3>2, HandlerJobType
            DEF RequestPairRead, TypeOK, tables, history
  <2>2. ASSUME NEW r \in Requests, RequestPairWrite(h, r) PROVE TypeOK'
    <3>1. IsTable(pairing_tokens', Secrets, PairingToken)
      BY <2>2 DEF RequestPairWrite, TypeOK, IsTable, Change, Consumed, PairingToken
    <3>2. [phone |-> job[h].phone, requested |-> job[h].caps,
           status |-> "pending", expires |-> job[h].at + RequestTTL] \in PairRequest
      BY <2>2, HandlerJobFields, TimesAssumption
         DEF RequestPairWrite, PairRequest, Statuses
    <3>3. IsTable(pair_requests', Requests, PairRequest)
      BY <2>2, <3>2, PutIsTable DEF RequestPairWrite, TypeOK
    <3>4. admitted' \subseteq Secrets \X Handlers \X Requests
      BY <2>2, HandlerJobFields DEF RequestPairWrite, TypeOK
    <3>5. job' = [job EXCEPT ![h] = Idle]
      BY <2>2 DEF RequestPairWrite, Finish
    <3>6. /\ UNCHANGED <<now, devices, sessions, delivered, consented, issued>>
          /\ drawn' = drawn \cup {r}
      BY <2>2 DEF RequestPairWrite
    <3> QED BY <3>1, <3>3, <3>4, <3>5, <3>6, HandlerJobType DEF TypeOK, Tokens
  <2>3. ASSUME NEW r \in Requests, NEW p \in Phones, ResumeRead(h, r, p)
        PROVE  TypeOK'
    <3> DEFINE v == [step |-> "mint", phone |-> p, at |-> now]
    <3>1. v \in HandlerJob
      BY DEF HandlerJob, TypeOK
    <3>2. job' = [job EXCEPT ![h] = v]
      BY <2>3 DEF ResumeRead, Start
    <3> HIDE DEF v
    <3> QED BY <2>3, <3>1, <3>2, HandlerJobType
            DEF ResumeRead, TypeOK, tables, history
  <2>4. ASSUME NEW t \in FreshTokens, ResumeWrite(h, t) PROVE TypeOK'
    <3>1. [phone |-> job[h].phone, expires |-> job[h].at + SessionTTL,
           revoked |-> FALSE] \in Session
      BY <2>4, HandlerJobFields, TimesAssumption DEF ResumeWrite, Session
    <3>2. IsTable(sessions', Tokens, Session)
      BY <2>4, <3>1, PutIsTable DEF ResumeWrite, TypeOK, Tokens
    <3>3. job' = [job EXCEPT ![h] = Idle]
      BY <2>4 DEF ResumeWrite, Finish
    <3> QED BY <2>4, <3>2, <3>3, HandlerJobType DEF ResumeWrite, TypeOK, Tokens
  <2>5. ASSUME NEW t \in Tokens, InboxRead(h, t) PROVE TypeOK'
    <3>1. [step |-> "sweep", at |-> now] \in HandlerJob
      BY DEF HandlerJob, TypeOK
    <3> QED BY <2>5, <3>1, HandlerJobType
            DEF InboxRead, Start, TypeOK, tables, history
  <2>6. ASSUME CleanupWrite(h) PROVE TypeOK'
    <3>1. /\ IsTable(sessions', Tokens, Session)
          /\ IsTable(pairing_tokens', Secrets, PairingToken)
          /\ IsTable(pair_requests', Requests, PairRequest)
      BY <2>6, RestrictIsTable
         DEF CleanupWrite, Keep, RestrictValues, TypeOK
    <3>2. job' = [job EXCEPT ![h] = Idle]
      BY <2>6 DEF CleanupWrite, Finish
    <3> QED BY <2>6, <3>1, <3>2, HandlerJobType
            DEF CleanupWrite, TypeOK, history
  <2> QED BY <1>3, <2>1, <2>2, <2>3, <2>4, <2>5, <2>6 DEF HandlerStep
<1>4. ASSUME NEW c \in Clis, CliStep(c) PROVE TypeOK'
  <2>1. ASSUME NEW r \in Requests, DenyRead(c, r) PROVE TypeOK'
    <3>1. [step |-> "deny", req |-> r] \in CliJob
      BY DEF CliJob
    <3> QED BY <2>1, <3>1, CliJobType
            DEF DenyRead, Start, TypeOK, tables, history
  <2>2. ASSUME Deny(c) PROVE TypeOK'
    <3>1. IsTable(pair_requests', Requests, PairRequest)
      BY <2>2 DEF Deny, TypeOK, IsTable, Change, Denied, PairRequest, Statuses
    <3> QED BY <2>2, <3>1, CliJobType DEF Deny, Finish, TypeOK, history
  <2>3. ASSUME NEW r \in Requests, NEW chosen \in SUBSET Caps,
               ApproveRead(c, r, chosen)
        PROVE  TypeOK'
    <3> DEFINE v == [step |-> "find_device", req |-> r,
                     phone |-> pair_requests[r].phone,
                     caps |-> chosen \cap pair_requests[r].requested, at |-> now]
    <3>1. pair_requests[r] \in PairRequest
      BY <2>3 DEF ApproveRead, TypeOK, IsTable
    <3>2. v \in CliJob
      BY <3>1 DEF CliJob, TypeOK, PairRequest
    <3>3. job' = [job EXCEPT ![c] = v]
      BY <2>3 DEF ApproveRead, Start
    <3>4. consented' \subseteq Requests \X Phones
      BY <2>3, <3>1 DEF ApproveRead, TypeOK, PairRequest
    <3> HIDE DEF v
    <3> QED BY <2>3, <3>2, <3>3, <3>4, CliJobType DEF ApproveRead, TypeOK, tables
  <2>4. ASSUME FindDevice(c) PROVE TypeOK'
    <3> DEFINE v == [step |-> "approve", req |-> job[c].req,
                     phone |-> job[c].phone, caps |-> job[c].caps,
                     at |-> job[c].at, known |-> job[c].phone \in DOMAIN devices]
    <3>1. v \in CliJob
      BY <2>4, CliJobFields DEF FindDevice, CliJob
    <3>2. job' = [job EXCEPT ![c] = v]
      BY <2>4 DEF FindDevice
    <3> HIDE DEF v
    <3> QED BY <2>4, <3>1, <3>2, CliJobType
            DEF FindDevice, TypeOK, tables, history
  <2>5. ASSUME Approve(c) PROVE TypeOK'
    <3> DEFINE j == job[c]
    <3>1. /\ [cred |-> j.req, caps |-> j.caps, revoked |-> FALSE] \in Device
          /\ [phone |-> j.phone, expires |-> j.at + SessionTTL,
              revoked |-> FALSE] \in Session
          /\ j.req \in Requests /\ j.phone \in Phones
      BY <2>5, CliJobFields, TimesAssumption DEF Approve, Device, Session
    <3>2. IsTable(devices', Phones, Device)
      BY <2>5, <3>1, PutIsTable DEF Approve, TypeOK
    <3>3. IsTable(sessions', Tokens, Session)
      BY <2>5, <3>1, PutIsTable DEF Approve, TypeOK, Tokens
    <3>4. IsTable(pair_requests', Requests, PairRequest)
      BY <2>5 DEF Approve, TypeOK, IsTable, Change, Approved, PairRequest, Statuses
    <3>5. /\ job' = [job EXCEPT ![c] = Idle]
          /\ issued' = issued \cup {j.req}
          /\ UNCHANGED <<now, pairing_tokens, delivered, drawn, admitted, consented>>
      BY <2>5 DEF Approve, Finish
    <3> QED BY <3>1, <3>2, <3>3, <3>4, <3>5, CliJobType DEF TypeOK, Tokens
  <2>6. ASSUME NEW p \in Phones, NEW caps \in SUBSET Caps, EditDevice(c, p, caps)
        PROVE  TypeOK'
    <3>1. IsTable(devices', Phones, Device)
      BY <2>6 DEF EditDevice, TypeOK, IsTable, Device
    <3> QED BY <2>6, <3>1 DEF EditDevice, TypeOK, history
  <2>7. ASSUME NEW p \in Phones, Disconnect(c, p) PROVE TypeOK'
    <3>1. IsTable(sessions', Tokens, Session)
      BY <2>7 DEF Disconnect, TypeOK, IsTable, Change, RevokedRow, Session
    <3> QED BY <2>7, <3>1 DEF Disconnect, TypeOK, history
  <2>8. ASSUME NEW p \in Phones, Revoke(c, p) PROVE TypeOK'
    <3>1. IsTable(sessions', Tokens, Session)
      BY <2>8 DEF Revoke, TypeOK, IsTable, Change, RevokedRow, Session
    <3>2. IsTable(devices', Phones, Device)
      BY <2>8 DEF Revoke, TypeOK, IsTable, Change, RevokedRow, Device
    <3> QED BY <2>8, <3>1, <3>2 DEF Revoke, TypeOK, history
  <2> QED BY <1>4, <2>1, <2>2, <2>3, <2>4, <2>5, <2>6, <2>7, <2>8 DEF CliStep
<1>5. ASSUME NEW a \in Actors, Abandon(a) PROVE TypeOK'
  <2>1. job' = [job EXCEPT ![a] = Idle]
    BY <1>5 DEF Abandon, Finish
  <2>2. /\ DOMAIN job' = Actors
        /\ \A g \in Handlers : job'[g] \in HandlerJob
        /\ \A d \in Clis : job'[d] \in CliJob
    BY <2>1, HandlerJobType, CliJobType DEF Actors
  <2> QED BY <1>5, <2>2 DEF Abandon, TypeOK, tables, history
<1>6. CASE Tick
  BY <1>6 DEF Tick, TypeOK, tables, history
<1>7. CASE UNCHANGED vars
  BY <1>7 DEF vars, TypeOK, tables, history
<1> QED BY <1>1, <1>2, <1>3, <1>4, <1>5, <1>6, <1>7 DEF Next

\* Every reachable state is well typed: the tables hold rows of the schema and
\* no process remembers anything but what its code read (core.py 96-348).
THEOREM TypeCorrect == Spec => []TypeOK
BY TypeInit, TypeStep, PTL DEF Spec

-----------------------------------------------------------------------------
(***************************************************************************)
(* A pairing secret is reused only by threads that overlap.  Needed beside *)
(* the property: a secret that was admitted is spent in the table or gone  *)
(* from it and cannot be drawn again, and a thread about to consume a      *)
(* secret has not admitted it before.                                      *)
(***************************************************************************)
ReuseInv ==
  /\ ReuseOnlyByOverlap
  /\ DOMAIN pairing_tokens \subseteq drawn
  /\ \A a \in admitted :
       /\ a[1] \in drawn
       /\ a[1] \in DOMAIN pairing_tokens => pairing_tokens[a[1]].consumed
  /\ \A h \in Handlers : job[h].step = "consume" =>
       /\ job[h].secret \in drawn
       /\ \A a \in admitted : a[2] = h => a[1] # job[h].secret

\* In a new database no secret was used.
LEMMA ReuseInit == Init => ReuseInv
BY DEF Init, ReuseInv, ReuseOnlyByOverlap, EmptyTable, Idle, Actors

\* What other actions leave alone is enough for ReuseInv.
LEMMA ReuseFrame ==
  ASSUME ReuseInv,
         UNCHANGED <<pairing_tokens, admitted>>, drawn \subseteq drawn',
         \A h \in Handlers : job'[h] = job[h] \/ job'[h].step # "consume"
  PROVE  ReuseInv'
BY DEF ReuseInv, ReuseOnlyByOverlap

\* Each operation keeps ReuseInv.
LEMMA ReuseStep == TypeOK /\ ReuseInv /\ [Next]_vars => ReuseInv'
<1> SUFFICES ASSUME TypeOK, ReuseInv, [Next]_vars PROVE ReuseInv'
  OBVIOUS
<1> USE DisjointAssumption
<1>1. ASSUME NEW s \in Secrets, StartPairing(s) PROVE ReuseInv'
  <2>1. \A a \in admitted : a[1] # s
    BY <1>1 DEF StartPairing, ReuseInv
  <2> QED BY <1>1, <2>1 DEF StartPairing, ReuseInv, ReuseOnlyByOverlap, Put
<1>2. ASSUME NEW h \in Handlers, NEW s \in Secrets, NEW p \in Phones,
             NEW q \in SUBSET Caps, RequestPairRead(h, s, p, q)
      PROVE  ReuseInv'
  <2>1. s \in drawn /\ \A a \in admitted : a[1] # s
    BY <1>2 DEF RequestPairRead, Usable, ReuseInv
  <2>2. /\ job'[h].secret = s
        /\ \A g \in Handlers : g # h => job'[g] = job[g]
    BY <1>2 DEF RequestPairRead, Start, TypeOK, Actors
  <2>3. UNCHANGED <<pairing_tokens, admitted, drawn>>
    BY <1>2 DEF RequestPairRead, tables, history
  <2> QED BY <2>1, <2>2, <2>3 DEF ReuseInv, ReuseOnlyByOverlap
<1>3. ASSUME NEW h \in Handlers, NEW r \in Requests, RequestPairWrite(h, r)
      PROVE  ReuseInv'
  <2> DEFINE s == job[h].secret
  <2>1. /\ s \in drawn
        /\ \A a \in admitted : a[2] = h => a[1] # s
    BY <1>3 DEF RequestPairWrite, ReuseInv
  <2>2. /\ admitted' = admitted \cup {<<s, h, r>>}
        /\ drawn' = drawn \cup {r}
        /\ DOMAIN pairing_tokens' = DOMAIN pairing_tokens
        /\ \A x \in DOMAIN pairing_tokens :
             pairing_tokens'[x] = IF x = s THEN Consumed(pairing_tokens[x])
                                           ELSE pairing_tokens[x]
    BY <1>3 DEF RequestPairWrite, Change
  <2>3. s \in DOMAIN pairing_tokens => pairing_tokens'[s].consumed
    BY <2>2 DEF TypeOK, IsTable, PairingToken, Consumed
  <2>4. /\ job'[h].step = "idle"
        /\ \A g \in Handlers : g # h => job'[g] = job[g]
    BY <1>3 DEF RequestPairWrite, Finish, Idle, TypeOK, Actors
  <2>5. ReuseOnlyByOverlap'
    BY <2>1, <2>2 DEF ReuseInv, ReuseOnlyByOverlap
  <2>6. DOMAIN pairing_tokens' \subseteq drawn'
    BY <2>2 DEF ReuseInv
  <2>7. \A a \in admitted' :
          /\ a[1] \in drawn'
          /\ a[1] \in DOMAIN pairing_tokens' => pairing_tokens'[a[1]].consumed
    BY <2>1, <2>2, <2>3 DEF ReuseInv
  <2>8. \A g \in Handlers : job'[g].step = "consume" =>
          /\ job'[g].secret \in drawn'
          /\ \A a \in admitted' : a[2] = g => a[1] # job'[g].secret
    BY <2>2, <2>4 DEF ReuseInv
  <2> QED BY <2>5, <2>6, <2>7, <2>8 DEF ReuseInv
<1>4. ASSUME NEW h \in Handlers, CleanupWrite(h) PROVE ReuseInv'
  <2>1. /\ DOMAIN pairing_tokens' \subseteq DOMAIN pairing_tokens
        /\ \A x \in DOMAIN pairing_tokens' : pairing_tokens'[x] = pairing_tokens[x]
    BY <1>4, Zenon DEF CleanupWrite, Keep, RestrictValues, Restrict
  <2>2. /\ job'[h].step = "idle"
        /\ \A g \in Handlers : g # h => job'[g] = job[g]
        /\ UNCHANGED <<admitted, drawn>>
    BY <1>4 DEF CleanupWrite, Finish, Idle, TypeOK, Actors, history
  <2> QED BY <2>1, <2>2 DEF ReuseInv, ReuseOnlyByOverlap
<1>5. ASSUME NEW h \in Handlers,
             \/ \E r \in Requests, p \in Phones : ResumeRead(h, r, p)
             \/ \E t \in FreshTokens : ResumeWrite(h, t)
             \/ \E t \in Tokens : InboxRead(h, t)
      PROVE  ReuseInv'
  <2>1. /\ UNCHANGED <<pairing_tokens, admitted>>
        /\ drawn \subseteq drawn'
        /\ \E v : job' = [job EXCEPT ![h] = v] /\ v.step # "consume"
    BY <1>5 DEF ResumeRead, ResumeWrite, InboxRead, Start, Finish, Idle,
                tables, history
  <2> QED BY <2>1, ReuseFrame DEF TypeOK, Actors
<1>6. ASSUME NEW c \in Clis, CliStep(c) PROVE ReuseInv'
  <2>1. UNCHANGED <<pairing_tokens, admitted, drawn>>
    BY <1>6 DEF CliStep, DenyRead, Deny, ApproveRead, FindDevice, Approve,
                EditDevice, Disconnect, Revoke, tables, history
  <2>2. job' = job \/ \E v : job' = [job EXCEPT ![c] = v]
    BY <1>6 DEF CliStep, DenyRead, Deny, ApproveRead, FindDevice, Approve,
                EditDevice, Disconnect, Revoke, Start, Finish
  <2>3. \A h \in Handlers : job'[h] = job[h]
    BY <2>2 DEF TypeOK, Actors
  <2> QED BY <2>1, <2>3, ReuseFrame
<1>7. ASSUME NEW a \in Actors, Abandon(a) PROVE ReuseInv'
  <2>1. UNCHANGED <<pairing_tokens, admitted, drawn>>
    BY <1>7 DEF Abandon, tables, history
  <2>2. \A h \in Handlers : job'[h] = job[h] \/ job'[h].step # "consume"
    BY <1>7 DEF Abandon, Finish, Idle, TypeOK, Actors
  <2> QED BY <2>1, <2>2, ReuseFrame
<1>8. CASE Tick \/ (\E r \in Requests : PollPair(r)) \/ UNCHANGED vars
  BY <1>8, ReuseFrame DEF Tick, PollPair, vars, tables, history
<1> QED BY <1>1, <1>2, <1>3, <1>4, <1>5, <1>6, <1>7, <1>8 DEF Next, HandlerStep

\* However many threads and phones there are, a pairing secret makes at most
\* one request for each thread that was looking at it when it was first used.
THEOREM SecretReuse == Spec => []ReuseOnlyByOverlap
<1>1. ReuseInv => ReuseOnlyByOverlap
  BY DEF ReuseInv
<1> QED BY <1>1, ReuseInit, ReuseStep, TypeCorrect, PTL DEF Spec

\* A server with a single thread uses each pairing secret once
\* (request_pair, core.py 110-150).
THEOREM SingleUseOneThread ==
  ASSUME \A g, h \in Handlers : g = h
  PROVE  Spec => []SingleUse
<1>1. TypeOK /\ ReuseOnlyByOverlap => SingleUse
  BY DEF TypeOK, ReuseOnlyByOverlap, SingleUse
<1> QED BY <1>1, TypeCorrect, SecretReuse, PTL

-----------------------------------------------------------------------------
(***************************************************************************)
(* Nobody gets credentials without a decision.  Needed beside the property:*)
(* an approval under way was consented to, an approved request was, and a  *)
(* resume under way is that of a device.                                   *)
(***************************************************************************)
Consented(p) == \E r \in Requests : <<r, p>> \in consented

ConsentInv ==
  /\ \A t \in DOMAIN sessions :
       /\ Consented(sessions[t].phone)
       /\ t \in Requests => <<t, sessions[t].phone>> \in consented
  /\ \A p \in DOMAIN devices : <<devices[p].cred, p>> \in consented
  /\ \A r \in delivered : \E p \in Phones : <<r, p>> \in consented
  /\ \A r \in DOMAIN pair_requests :
       pair_requests[r].status = "approved" =>
         \E p \in Phones : <<r, p>> \in consented
  /\ \A c \in Clis : job[c].step \in {"find_device", "approve"} =>
       <<job[c].req, job[c].phone>> \in consented
  /\ \A h \in Handlers : job[h].step = "mint" => Consented(job[h].phone)

\* ConsentInv says what AccessNeedsDecision says of sessions, devices and polls.
LEMMA ConsentImplies == TypeOK /\ ConsentInv => AccessNeedsDecision
<1> SUFFICES ASSUME TypeOK, ConsentInv PROVE AccessNeedsDecision
  OBVIOUS
<1>1. ASSUME NEW t \in DOMAIN sessions
      PROVE  \E r \in Requests : /\ <<r, sessions[t].phone>> \in consented
                                 /\ t \in Requests => t = r
  <2>1. CASE t \in Requests
    BY <2>1 DEF ConsentInv
  <2>2. CASE t \notin Requests
    BY <2>2 DEF ConsentInv, Consented
  <2> QED BY <2>1, <2>2
<1> QED BY <1>1 DEF ConsentInv, AccessNeedsDecision

\* In a new database there is nothing to consent to.
LEMMA ConsentInit == Init => ConsentInv
BY DisjointAssumption DEF Init, ConsentInv, EmptyTable, Idle, Actors

\* Each operation keeps ConsentInv.
LEMMA ConsentStep == TypeOK /\ ConsentInv /\ [Next]_vars => ConsentInv'
<1> SUFFICES ASSUME TypeOK, ConsentInv, [Next]_vars PROVE ConsentInv'
  OBVIOUS
<1> USE DisjointAssumption
<1>1. ASSUME NEW s \in Secrets, StartPairing(s) PROVE ConsentInv'
  BY <1>1 DEF StartPairing, ConsentInv, Consented
<1>2. ASSUME NEW r \in Requests, PollPair(r) PROVE ConsentInv'
  BY <1>2 DEF PollPair, HandsOut, ConsentInv, Consented, tables, history
<1>3. ASSUME NEW h \in Handlers, HandlerStep(h) PROVE ConsentInv'
  <2>1. ASSUME NEW s \in Secrets, NEW p \in Phones, NEW q \in SUBSET Caps,
               RequestPairRead(h, s, p, q)
        PROVE  ConsentInv'
    BY <2>1 DEF RequestPairRead, Start, TypeOK, Actors, ConsentInv, Consented,
                tables, history
  <2>2. ASSUME NEW r \in Requests, RequestPairWrite(h, r) PROVE ConsentInv'
    <3>1. \A x \in DOMAIN pair_requests' :
            pair_requests'[x].status = "approved" =>
              x \in DOMAIN pair_requests /\ pair_requests'[x] = pair_requests[x]
      BY <2>2 DEF RequestPairWrite, Put
    <3>2. /\ UNCHANGED <<sessions, devices, delivered, consented>>
          /\ job' = [job EXCEPT ![h] = Idle]
      BY <2>2 DEF RequestPairWrite, Finish
    <3> QED BY <3>1, <3>2 DEF ConsentInv, Consented, Idle, TypeOK, Actors
  <2>3. ASSUME NEW r \in Requests, NEW p \in Phones, ResumeRead(h, r, p)
        PROVE  ConsentInv'
    <3>1. Consented(p)
      BY <2>3 DEF ResumeRead, ConsentInv, Consented, TypeOK, IsTable, Device
    <3> QED BY <2>3, <3>1 DEF ResumeRead, Start, TypeOK, Actors, ConsentInv,
                              Consented, tables, history
  <2>4. ASSUME NEW t \in FreshTokens, ResumeWrite(h, t) PROVE ConsentInv'
    <3>1. Consented(job[h].phone) /\ t \notin Requests
      BY <2>4 DEF ResumeWrite, ConsentInv
    <3>2. \A u \in DOMAIN sessions' :
            \/ u = t /\ sessions'[u].phone = job[h].phone
            \/ u \in DOMAIN sessions /\ sessions'[u] = sessions[u]
      BY <2>4 DEF ResumeWrite, Put
    <3>3. /\ UNCHANGED <<pair_requests, devices, delivered, consented>>
          /\ job' = [job EXCEPT ![h] = Idle]
      BY <2>4 DEF ResumeWrite, Finish
    <3>4. \A u \in DOMAIN sessions' :
            /\ Consented(sessions'[u].phone)
            /\ u \in Requests => <<u, sessions'[u].phone>> \in consented
      BY <3>1, <3>2 DEF ConsentInv
    <3> QED BY <3>3, <3>4 DEF ConsentInv, Consented, Idle, TypeOK, Actors
  <2>5. ASSUME NEW t \in Tokens, InboxRead(h, t) PROVE ConsentInv'
    BY <2>5 DEF InboxRead, Start, TypeOK, Actors, ConsentInv, Consented,
                tables, history
  <2>6. ASSUME CleanupWrite(h) PROVE ConsentInv'
    <3>1. /\ DOMAIN sessions' \subseteq DOMAIN sessions
          /\ \A t \in DOMAIN sessions' : sessions'[t] = sessions[t]
          /\ DOMAIN pair_requests' \subseteq DOMAIN pair_requests
          /\ \A r \in DOMAIN pair_requests' : pair_requests'[r] = pair_requests[r]
      BY <2>6, Zenon DEF CleanupWrite, Keep, RestrictValues, Restrict
    <3>2. /\ UNCHANGED <<devices, delivered, consented>>
          /\ job' = [job EXCEPT ![h] = Idle]
      BY <2>6 DEF CleanupWrite, Finish, history
    <3> QED BY <3>1, <3>2 DEF ConsentInv, Consented, Idle, TypeOK, Actors
  <2> QED BY <1>3, <2>1, <2>2, <2>3, <2>4, <2>5, <2>6 DEF HandlerStep
<1>4. ASSUME NEW c \in Clis, CliStep(c) PROVE ConsentInv'
  <2>1. ASSUME NEW r \in Requests, DenyRead(c, r) PROVE ConsentInv'
    BY <2>1 DEF DenyRead, Start, TypeOK, Actors, ConsentInv, Consented,
                tables, history
  <2>2. ASSUME Deny(c) PROVE ConsentInv'
    <3>1. /\ DOMAIN pair_requests' = DOMAIN pair_requests
          /\ \A r \in DOMAIN pair_requests :
               pair_requests'[r].status = "approved" =>
                 pair_requests[r].status = "approved"
      BY <2>2 DEF Deny, Change, Denied, TypeOK, IsTable, PairRequest
    <3> QED BY <2>2, <3>1 DEF Deny, Finish, Idle, TypeOK, Actors, ConsentInv,
                              Consented, history
  <2>3. ASSUME NEW r \in Requests, NEW chosen \in SUBSET Caps,
               ApproveRead(c, r, chosen)
        PROVE  ConsentInv'
    <3>1. /\ job'[c].req = r /\ job'[c].phone = pair_requests[r].phone
          /\ \A a \in Actors : a # c => job'[a] = job[a]
      BY <2>3 DEF ApproveRead, Start, TypeOK, Actors
    <3>2. /\ UNCHANGED <<tables, delivered>>
          /\ consented' = consented \cup {<<r, pair_requests[r].phone>>}
      BY <2>3 DEF ApproveRead
    <3>3. \A h \in Handlers : job'[h] = job[h]
      BY <3>1 DEF Actors
    <3>4. consented \subseteq consented'
      BY <3>2
    <3>5. \A d \in Clis : job'[d].step \in {"find_device", "approve"} =>
            <<job'[d].req, job'[d].phone>> \in consented'
      <4>1. ASSUME NEW d \in Clis, d # c PROVE job'[d] = job[d]
        BY <3>1, <4>1 DEF Actors
      <4> QED BY <3>1, <3>2, <4>1 DEF ConsentInv
    <3>6. \A h \in Handlers : job'[h].step = "mint" =>
            \E q \in Requests : <<q, job'[h].phone>> \in consented'
      BY <3>3, <3>4 DEF ConsentInv, Consented
    <3>7. UNCHANGED <<sessions, devices, delivered, pair_requests>>
      BY <3>2 DEF tables
    <3>8. \A t \in DOMAIN sessions' :
            /\ \E q \in Requests : <<q, sessions'[t].phone>> \in consented'
            /\ t \in Requests => <<t, sessions'[t].phone>> \in consented'
      BY <3>4, <3>7 DEF ConsentInv, Consented
    <3>9. /\ \A p \in DOMAIN devices' : <<devices'[p].cred, p>> \in consented'
          /\ \A x \in delivered' : \E p \in Phones : <<x, p>> \in consented'
          /\ \A x \in DOMAIN pair_requests' :
               pair_requests'[x].status = "approved" =>
                 \E p \in Phones : <<x, p>> \in consented'
      BY <3>4, <3>7 DEF ConsentInv
    <3> QED BY <3>5, <3>6, <3>8, <3>9 DEF ConsentInv, Consented
  <2>4. ASSUME FindDevice(c) PROVE ConsentInv'
    <3>1. /\ job'[c].req = job[c].req /\ job'[c].phone = job[c].phone
          /\ \A a \in Actors : a # c => job'[a] = job[a]
          /\ job[c].step = "find_device"
      BY <2>4 DEF FindDevice, TypeOK, Actors
    <3>2. \A d \in Clis : job'[d].step \in {"find_device", "approve"} =>
            <<job'[d].req, job'[d].phone>> \in consented
      <4>1. ASSUME NEW d \in Clis, d # c PROVE job'[d] = job[d]
        BY <3>1, <4>1 DEF Actors
      <4> QED BY <3>1, <4>1 DEF ConsentInv
    <3>3. \A h \in Handlers : job'[h] = job[h]
      BY <3>1 DEF Actors
    <3>4. UNCHANGED <<tables, delivered, consented>>
      BY <2>4 DEF FindDevice, history
    <3> QED BY <3>2, <3>3, <3>4 DEF ConsentInv, Consented, tables
  <2>5. ASSUME Approve(c) PROVE ConsentInv'
    <3> DEFINE r == job[c].req
               p == job[c].phone
    <3>1. <<r, p>> \in consented /\ r \in Requests /\ p \in Phones
      BY <2>5, CliJobFields DEF Approve, ConsentInv
    <3>2. \A u \in DOMAIN sessions' :
            \/ u = r /\ sessions'[u].phone = p
            \/ u \in DOMAIN sessions /\ sessions'[u] = sessions[u]
      BY <2>5 DEF Approve, Put
    <3>3. \A q \in DOMAIN devices' :
            \/ q = p /\ devices'[q].cred = r
            \/ q \in DOMAIN devices /\ devices'[q] = devices[q]
      BY <2>5 DEF Approve, Put
    <3>4. /\ DOMAIN pair_requests' = DOMAIN pair_requests
          /\ \A x \in DOMAIN pair_requests :
               x = r \/ pair_requests'[x] = pair_requests[x]
      BY <2>5 DEF Approve, Change
    <3>5. /\ UNCHANGED <<delivered, consented>>
          /\ job' = [job EXCEPT ![c] = Idle]
      BY <2>5 DEF Approve, Finish
    <3>6. \A u \in DOMAIN sessions' :
            /\ Consented(sessions'[u].phone)
            /\ u \in Requests => <<u, sessions'[u].phone>> \in consented
      BY <3>1, <3>2 DEF ConsentInv, Consented
    <3>7. \A q \in DOMAIN devices' : <<devices'[q].cred, q>> \in consented
      BY <3>1, <3>3 DEF ConsentInv
    <3>8. \A x \in DOMAIN pair_requests' :
            pair_requests'[x].status = "approved" =>
              \E q \in Phones : <<x, q>> \in consented
      BY <3>1, <3>4 DEF ConsentInv
    <3> QED BY <3>5, <3>6, <3>7, <3>8
            DEF ConsentInv, Consented, Idle, TypeOK, Actors
  <2>6. ASSUME NEW p \in Phones, NEW caps \in SUBSET Caps, EditDevice(c, p, caps)
        PROVE  ConsentInv'
    <3>1. /\ DOMAIN devices' = DOMAIN devices
          /\ \A q \in DOMAIN devices : devices'[q].cred = devices[q].cred
      BY <2>6 DEF EditDevice, TypeOK, IsTable, Device
    <3> QED BY <2>6, <3>1 DEF EditDevice, ConsentInv, Consented, history
  <2>7. ASSUME NEW p \in Phones, Disconnect(c, p) \/ Revoke(c, p)
        PROVE  ConsentInv'
    <3>1. /\ DOMAIN sessions' = DOMAIN sessions
          /\ \A t \in DOMAIN sessions : sessions'[t].phone = sessions[t].phone
      BY <2>7 DEF Disconnect, Revoke, Change, RevokedRow, TypeOK, IsTable, Session
    <3>2. /\ DOMAIN devices' = DOMAIN devices
          /\ \A q \in DOMAIN devices : devices'[q].cred = devices[q].cred
      BY <2>7 DEF Disconnect, Revoke, Change, RevokedRow, TypeOK, IsTable, Device
    <3>3. UNCHANGED <<pair_requests, job, delivered, consented>>
      BY <2>7 DEF Disconnect, Revoke, history
    <3> QED BY <3>1, <3>2, <3>3 DEF ConsentInv, Consented
  <2> QED BY <1>4, <2>1, <2>2, <2>3, <2>4, <2>5, <2>6, <2>7 DEF CliStep
<1>5. ASSUME NEW a \in Actors, Abandon(a) PROVE ConsentInv'
  BY <1>5 DEF Abandon, Finish, Idle, TypeOK, Actors, ConsentInv, Consented,
              tables, history
<1>6. CASE Tick \/ UNCHANGED vars
  BY <1>6 DEF Tick, ConsentInv, Consented, vars, tables, history
<1> QED BY <1>1, <1>2, <1>3, <1>4, <1>5, <1>6 DEF Next

\* Every session, device credential and delivered credential goes back to a
\* request of the same phone that an operator allowed, whatever threads and
\* operators interleave, and also when their processes die half-way.
THEOREM AccessDecided == Spec => []AccessNeedsDecision
BY ConsentInit, ConsentStep, ConsentImplies, TypeCorrect, PTL DEF Spec

-----------------------------------------------------------------------------
(***************************************************************************)
(* With one operator, decisions are final and tokens die once.  Needed:    *)
(* the request a decision is about is still undecided, and no session was  *)
(* ever created for an undecided request.                                  *)
(***************************************************************************)
DecisionInv ==
  /\ DOMAIN pair_requests \subseteq drawn
  /\ issued \subseteq drawn
  /\ \A r \in DOMAIN pair_requests :
       pair_requests[r].status = "pending" => r \notin issued
  /\ \A c \in Clis : job[c].step # "idle" =>
       /\ job[c].req \in drawn
       /\ job[c].req \notin issued
       /\ job[c].req \in DOMAIN pair_requests =>
            pair_requests[job[c].req].status = "pending"

\* In a new database nothing is decided.
LEMMA DecisionInit == Init => DecisionInv
BY DEF Init, DecisionInv, EmptyTable, Idle, Actors

\* Steps of the server, the clock and the phones leave decisions alone.
LEMMA DecisionFrame ==
  ASSUME TypeOK, DecisionInv,
         issued \subseteq issued', drawn \subseteq drawn',
         issued' \ issued \subseteq drawn' \ drawn,
         DOMAIN pair_requests' \subseteq drawn',
         \A r \in DOMAIN pair_requests' :
           IF r \in drawn
             THEN r \in DOMAIN pair_requests /\ pair_requests'[r] = pair_requests[r]
             ELSE r \notin issued',
         \A c \in Clis : job'[c] = job[c] \/ job'[c].step = "idle"
  PROVE  DecisionInv'
<1>1. issued' \subseteq drawn'
  BY DEF DecisionInv
<1>2. \A r \in drawn : r \in issued' <=> r \in issued
  BY DEF DecisionInv
<1>3. \A r \in DOMAIN pair_requests' :
        pair_requests'[r].status = "pending" => r \notin issued'
  BY <1>2 DEF DecisionInv
<1>4. ASSUME NEW c \in Clis, job'[c].step # "idle"
      PROVE  /\ job'[c].req \in drawn'
             /\ job'[c].req \notin issued'
             /\ job'[c].req \in DOMAIN pair_requests' =>
                  pair_requests'[job'[c].req].status = "pending"
  <2>1. job'[c] = job[c]
    BY <1>4
  <2>2. /\ job[c].req \in drawn /\ job[c].req \notin issued
        /\ job[c].req \in DOMAIN pair_requests =>
             pair_requests[job[c].req].status = "pending"
    BY <1>4, <2>1 DEF DecisionInv
  <2> QED BY <2>1, <2>2, <1>2
<1> QED BY <1>1, <1>3, <1>4 DEF DecisionInv

\* What the threads of the server and the environment do to decisions.
LEMMA ServerFrame ==
  ASSUME TypeOK, DecisionInv,
         \/ \E h \in Handlers : HandlerStep(h)
         \/ \E s \in Secrets : StartPairing(s)
         \/ \E r \in Requests : PollPair(r)
         \/ \E a \in Actors : Abandon(a)
         \/ Tick \/ UNCHANGED vars
  PROVE  /\ issued \subseteq issued' /\ drawn \subseteq drawn'
         /\ issued' \ issued \subseteq drawn' \ drawn
         /\ DOMAIN pair_requests' \subseteq drawn'
         /\ \A r \in DOMAIN pair_requests' :
              IF r \in drawn
                THEN r \in DOMAIN pair_requests
                     /\ pair_requests'[r] = pair_requests[r]
                ELSE r \notin issued'
         /\ \A c \in Clis : job'[c] = job[c] \/ job'[c].step = "idle"
<1> DEFINE Frame ==
      /\ issued \subseteq issued' /\ drawn \subseteq drawn'
      /\ issued' \ issued \subseteq drawn' \ drawn
      /\ DOMAIN pair_requests' \subseteq drawn'
      /\ \A r \in DOMAIN pair_requests' :
           IF r \in drawn
             THEN r \in DOMAIN pair_requests
                  /\ pair_requests'[r] = pair_requests[r]
             ELSE r \notin issued'
      /\ \A c \in Clis : job'[c] = job[c] \/ job'[c].step = "idle"
<1> USE DisjointAssumption
<1>1. ASSUME NEW s \in Secrets, StartPairing(s) PROVE Frame
  BY <1>1 DEF StartPairing, DecisionInv
<1>2. ASSUME (\E r \in Requests : PollPair(r)) \/ Tick \/ UNCHANGED vars PROVE Frame
  BY <1>2 DEF PollPair, Tick, DecisionInv, vars, tables, history
<1>3. ASSUME NEW a \in Actors, Abandon(a) PROVE Frame
  <2>1. \A c \in Clis : job'[c] = job[c] \/ job'[c].step = "idle"
    BY <1>3 DEF Abandon, Finish, Idle, TypeOK, Actors
  <2> QED BY <1>3, <2>1 DEF Abandon, DecisionInv, tables, history
<1>4. ASSUME NEW h \in Handlers, HandlerStep(h) PROVE Frame
  <2>1. \A c \in Clis : job'[c] = job[c]
    <3>1. \E v : job' = [job EXCEPT ![h] = v]
      BY <1>4 DEF HandlerStep, RequestPairRead, RequestPairWrite, ResumeRead,
                  ResumeWrite, InboxRead, CleanupWrite, Start, Finish
    <3> QED BY <3>1 DEF TypeOK, Actors
  <2>2. ASSUME NEW r \in Requests, RequestPairWrite(h, r) PROVE Frame
    <3>1. /\ DOMAIN pair_requests' = DOMAIN pair_requests \cup {r}
          /\ \A x \in DOMAIN pair_requests :
               x # r => pair_requests'[x] = pair_requests[x]
          /\ r \notin drawn /\ drawn' = drawn \cup {r} /\ issued' = issued
      BY <2>2 DEF RequestPairWrite, Put
    <3> QED BY <2>1, <3>1 DEF DecisionInv
  <2>3. ASSUME NEW t \in FreshTokens, ResumeWrite(h, t) PROVE Frame
    <3>1. /\ pair_requests' = pair_requests
          /\ t \notin drawn /\ drawn' = drawn \cup {t}
          /\ issued' = issued \cup {t}
      BY <2>3 DEF ResumeWrite
    <3> QED BY <2>1, <3>1 DEF DecisionInv
  <2>4. ASSUME CleanupWrite(h) PROVE Frame
    <3>1. /\ DOMAIN pair_requests' \subseteq DOMAIN pair_requests
          /\ \A r \in DOMAIN pair_requests' : pair_requests'[r] = pair_requests[r]
      BY <2>4, Zenon DEF CleanupWrite, Keep, RestrictValues, Restrict
    <3>2. UNCHANGED <<issued, drawn>>
      BY <2>4 DEF CleanupWrite, history
    <3> QED BY <2>1, <3>1, <3>2 DEF DecisionInv
  <2>5. CASE \/ \E s \in Secrets, p \in Phones, q \in SUBSET Caps :
                  RequestPairRead(h, s, p, q)
             \/ \E r \in Requests, p \in Phones : ResumeRead(h, r, p)
             \/ \E t \in Tokens : InboxRead(h, t)
    <3>1. UNCHANGED <<pair_requests, issued, drawn>>
      BY <2>5 DEF RequestPairRead, ResumeRead, InboxRead, tables, history
    <3> QED BY <2>1, <3>1 DEF DecisionInv
  <2> QED BY <1>4, <2>2, <2>3, <2>4, <2>5 DEF HandlerStep
<1> QED BY <1>1, <1>2, <1>3, <1>4

\* Each operation of a single operator keeps DecisionInv.
LEMMA DecisionStep ==
  ASSUME OneOperator
  PROVE  TypeOK /\ DecisionInv /\ [Next]_vars => DecisionInv'
<1> SUFFICES ASSUME TypeOK, DecisionInv, [Next]_vars PROVE DecisionInv'
  OBVIOUS
<1>1. CASE \/ \E h \in Handlers : HandlerStep(h)
           \/ \E s \in Secrets : StartPairing(s)
           \/ \E r \in Requests : PollPair(r)
           \/ \E a \in Actors : Abandon(a)
           \/ Tick \/ UNCHANGED vars
  BY <1>1, ServerFrame, DecisionFrame
<1>2. ASSUME NEW c \in Clis, CliStep(c) PROVE DecisionInv'
  <2> \A d \in Clis : d = c
    BY DEF OneOperator
  <2>1. ASSUME NEW r \in Requests,
               \/ DenyRead(c, r)
               \/ \E chosen \in SUBSET Caps : ApproveRead(c, r, chosen)
        PROVE  DecisionInv'
    <3>1. /\ r \in DOMAIN pair_requests
          /\ pair_requests[r].status = "pending"
          /\ job'[c].req = r
      BY <2>1 DEF DenyRead, ApproveRead, Decidable, Start, TypeOK, Actors
    <3>2. UNCHANGED <<pair_requests, drawn, issued>>
      BY <2>1 DEF DenyRead, ApproveRead, tables, history
    <3> QED BY <3>1, <3>2 DEF DecisionInv
  <2>2. CASE FindDevice(c)
    <3>1. job'[c].req = job[c].req /\ job[c].step # "idle"
      BY <2>2 DEF FindDevice, TypeOK, Actors
    <3>2. UNCHANGED <<pair_requests, drawn, issued>>
      BY <2>2 DEF FindDevice, tables, history
    <3> QED BY <3>1, <3>2 DEF DecisionInv
  <2>3. CASE Deny(c)
    <3>1. /\ DOMAIN pair_requests' = DOMAIN pair_requests
          /\ \A r \in DOMAIN pair_requests :
               pair_requests'[r].status = "pending" =>
                 pair_requests[r].status = "pending"
      BY <2>3 DEF Deny, Change, Denied, TypeOK, IsTable, PairRequest
    <3>2. job'[c].step = "idle" /\ UNCHANGED <<drawn, issued>>
      BY <2>3 DEF Deny, Finish, Idle, TypeOK, Actors, history
    <3> QED BY <3>1, <3>2 DEF DecisionInv
  <2>4. CASE Approve(c)
    <3> DEFINE q == job[c].req
    <3>1. /\ DOMAIN pair_requests' = DOMAIN pair_requests
          /\ \A r \in DOMAIN pair_requests :
               pair_requests'[r].status = "pending" =>
                 r # q /\ pair_requests[r].status = "pending"
      BY <2>4 DEF Approve, Change, Approved, TypeOK, IsTable, PairRequest
    <3>2. /\ job'[c].step = "idle" /\ job[c].step # "idle"
          /\ drawn' = drawn /\ issued' = issued \cup {q}
      BY <2>4 DEF Approve, Finish, Idle, TypeOK, Actors
    <3> QED BY <3>1, <3>2 DEF DecisionInv
  <2>5. CASE \/ \E p \in Phones, caps \in SUBSET Caps : EditDevice(c, p, caps)
             \/ \E p \in Phones : Disconnect(c, p) \/ Revoke(c, p)
    BY <2>5 DEF EditDevice, Disconnect, Revoke, DecisionInv, history
  <2> QED BY <1>2, <2>1, <2>2, <2>3, <2>4, <2>5 DEF CliStep
<1> QED BY <1>1, <1>2 DEF Next

\* DecisionInv holds throughout when commands run one at a time (Panel.qml 45-50).
LEMMA DecisionInvariant ==
  ASSUME OneOperator
  PROVE  Spec => [](TypeOK /\ DecisionInv)
<1>1. TypeOK /\ DecisionInv /\ [Next]_vars => DecisionInv'
  BY DecisionStep
<1> QED BY <1>1, DecisionInit, TypeCorrect, PTL DEF Spec

\* Statuses that a step leaves alone.
LEMMA StatusStep ==
  ASSUME OneOperator, TypeOK, DecisionInv, [Next]_vars, NEW r \in Requests,
         Decided(r), r \in DOMAIN pair_requests'
  PROVE  pair_requests'[r].status = pair_requests[r].status
<1>1. r \in drawn /\ r \in DOMAIN pair_requests
  BY DEF Decided, DecisionInv
<1>2. CASE \/ \E h \in Handlers : HandlerStep(h)
           \/ \E s \in Secrets : StartPairing(s)
           \/ \E q \in Requests : PollPair(q)
           \/ \E a \in Actors : Abandon(a)
           \/ Tick \/ UNCHANGED vars
  BY <1>1, <1>2, ServerFrame
<1>3. ASSUME NEW c \in Clis, CliStep(c)
      PROVE  pair_requests'[r].status = pair_requests[r].status
  <2>1. CASE Deny(c) \/ Approve(c)
    <3>1. job[c].step # "idle"
      BY <2>1 DEF Deny, Approve
    <3>2. job[c].req # r
      BY <1>1, <3>1 DEF Decided, DecisionInv
    <3> QED BY <1>1, <2>1, <3>2 DEF Deny, Approve, Change
  <2>2. CASE ~(Deny(c) \/ Approve(c))
    BY <1>3, <2>2 DEF CliStep, DenyRead, ApproveRead, FindDevice, EditDevice,
                      Disconnect, Revoke, tables, history
  <2> QED BY <2>1, <2>2
<1> QED BY <1>2, <1>3 DEF Next

\* When the operator runs one command at a time, an approved or denied request
\* keeps that status for as long as its row exists.
THEOREM DecisionsFinal ==
  ASSUME OneOperator
  PROVE  Spec => DecisionIsFinal
<1>1. TypeOK /\ DecisionInv /\ [Next]_vars =>
        [\A r \in Requests :
           Decided(r) => \/ r \notin DOMAIN pair_requests'
                         \/ pair_requests'[r].status = pair_requests[r].status]_vars
  BY StatusStep
<1> QED BY <1>1, DecisionInvariant, PTL DEF Spec, DecisionIsFinal

\* What one step can do to a token that is spent.
LEMMA SpentStep ==
  ASSUME OneOperator, TypeOK, DecisionInv, [Next]_vars, NEW t \in Tokens, Spent(t)
  PROVE  Spent(t)'
<1>1. t \in drawn /\ t \in issued
  BY DEF Spent, DecisionInv
<1>2. SUFFICES /\ issued \subseteq issued'
               /\ t \in DOMAIN sessions' =>
                    t \in DOMAIN sessions
                    /\ (sessions[t].revoked => sessions'[t].revoked)
  BY <1>1 DEF Spent
<1>3. ASSUME NEW h \in Handlers, ResumeWrite(h, t) PROVE FALSE
  BY <1>1, <1>3 DEF ResumeWrite
<1>4. CASE \E h \in Handlers, u \in FreshTokens : ResumeWrite(h, u)
  BY <1>3, <1>4 DEF ResumeWrite, Put
<1>5. CASE \E h \in Handlers : CleanupWrite(h)
  BY <1>5, Zenon DEF CleanupWrite, Keep, RestrictValues, Restrict, history
<1>6. ASSUME NEW c \in Clis, Approve(c)
      PROVE  /\ issued \subseteq issued'
             /\ t \in DOMAIN sessions' =>
                  t \in DOMAIN sessions
                  /\ (sessions[t].revoked => sessions'[t].revoked)
  <2>1. job[c].req # t
    BY <1>1, <1>6 DEF Approve, DecisionInv
  <2> QED BY <1>6, <2>1 DEF Approve, Put
<1>7. CASE \E c \in Clis, p \in Phones : Disconnect(c, p) \/ Revoke(c, p)
  BY <1>7 DEF Disconnect, Revoke, Change, RevokedRow, TypeOK, IsTable, Session,
              history
<1>8. CASE /\ ~\E h \in Handlers : CleanupWrite(h)
           /\ ~\E h \in Handlers, u \in FreshTokens : ResumeWrite(h, u)
           /\ ~\E c \in Clis : Approve(c)
           /\ ~\E c \in Clis, p \in Phones : Disconnect(c, p) \/ Revoke(c, p)
  BY <1>8 DEF Next, HandlerStep, CliStep, StartPairing, RequestPairRead,
              RequestPairWrite, DenyRead, Deny, ApproveRead, FindDevice,
              PollPair, ResumeRead, InboxRead, EditDevice, Tick, Abandon,
              vars, tables, history
<1> QED BY <1>4, <1>5, <1>6, <1>7, <1>8

\* When the operator runs one command at a time, the token of a session that
\* was ended never opens a session again, not even the token of an approval,
\* which every later approval of the same request would derive again.
THEOREM TokensDieOnce ==
  ASSUME OneOperator
  PROVE  Spec => TokenDiesOnce
<1>1. TypeOK /\ DecisionInv /\ [Next]_vars =>
        [\A t \in Tokens : Spent(t) => Spent(t)']_vars
  BY SpentStep
<1> QED BY <1>1, DecisionInvariant, PTL DEF Spec, TokenDiesOnce

-----------------------------------------------------------------------------
(***************************************************************************)
(* With one operator, pairing implements AccessControl.  Needed beside     *)
(* DecisionInv: a decision is about the phone that made the request, a     *)
(* cleanup read the clock in the past, and the tokens in the table are     *)
(* those that were issued, so that a new token never replaces a session.   *)
(***************************************************************************)
Deciding(c) == job[c].step \in {"find_device", "approve"}

RefineInv ==
  /\ \A c \in Clis : Deciding(c) /\ job[c].req \in DOMAIN pair_requests =>
       pair_requests[job[c].req].phone = job[c].phone
  /\ \A h \in Handlers : job[h].step = "sweep" => job[h].at <= now
  /\ DOMAIN sessions \subseteq issued

\* In a new database nothing is decided, swept or issued.
LEMMA RefineInvInit == Init => RefineInv
BY DEF Init, RefineInv, Deciding, EmptyTable, Idle, Actors

\* A request keeps its phone; new rows have new requests.
LEMMA PhoneStep ==
  ASSUME TypeOK, DecisionInv, [Next]_vars,
         NEW r \in drawn, r \in DOMAIN pair_requests'
  PROVE  /\ r \in DOMAIN pair_requests
         /\ pair_requests'[r].phone = pair_requests[r].phone
<1>1. CASE \/ \E h \in Handlers : HandlerStep(h)
           \/ \E s \in Secrets : StartPairing(s)
           \/ \E q \in Requests : PollPair(q)
           \/ \E a \in Actors : Abandon(a)
           \/ Tick \/ UNCHANGED vars
  BY <1>1, ServerFrame
<1>2. ASSUME NEW c \in Clis, Deny(c) \/ Approve(c)
      PROVE  /\ r \in DOMAIN pair_requests
             /\ pair_requests'[r].phone = pair_requests[r].phone
  BY <1>2 DEF Deny, Approve, Change, Denied, Approved, TypeOK, IsTable, PairRequest
<1>3. ASSUME NEW c \in Clis, CliStep(c), ~(Deny(c) \/ Approve(c))
      PROVE  UNCHANGED pair_requests
  BY <1>3 DEF CliStep, DenyRead, ApproveRead, FindDevice, EditDevice, Disconnect,
              Revoke, tables
<1> QED BY <1>1, <1>2, <1>3 DEF Next

\* What an operator's process that decides goes on with.
LEMMA DecidingStep ==
  ASSUME TypeOK, [Next]_vars, NEW c \in Clis, Deciding(c)'
  PROVE  \/ /\ Deciding(c) /\ job'[c].req = job[c].req
            /\ job'[c].phone = job[c].phone
         \/ /\ job'[c].req \in DOMAIN pair_requests /\ UNCHANGED pair_requests
            /\ job'[c].phone = pair_requests[job'[c].req].phone
<1> DEFINE Goal == \/ /\ Deciding(c) /\ job'[c].req = job[c].req
                      /\ job'[c].phone = job[c].phone
                   \/ /\ job'[c].req \in DOMAIN pair_requests
                      /\ UNCHANGED pair_requests
                      /\ job'[c].phone = pair_requests[job'[c].req].phone
<1>1. CASE job'[c] = job[c]
  BY <1>1 DEF Deciding
<1>2. ASSUME NEW r \in Requests, NEW chosen \in SUBSET Caps, ApproveRead(c, r, chosen)
      PROVE  Goal
  BY <1>2 DEF ApproveRead, Start, TypeOK, Actors, tables
<1>3. CASE FindDevice(c)
  BY <1>3 DEF FindDevice, Deciding, TypeOK, Actors
<1>4. CASE \/ \E r \in Requests : DenyRead(c, r)
           \/ Deny(c) \/ Approve(c) \/ Abandon(c)
  <2>1. job'[c].step \in {"deny", "idle"}
    BY <1>4 DEF DenyRead, Start, Deny, Approve, Abandon, Finish, Idle, TypeOK, Actors
  <2> QED BY <2>1 DEF Deciding
<1>5. ASSUME NEW a \in Actors \ {c},
             \/ a \in Handlers /\ HandlerStep(a)
             \/ a \in Clis /\ CliStep(a) /\ job' # job
             \/ Abandon(a)
      PROVE  job'[c] = job[c]
  <2>1. \E v : job' = [job EXCEPT ![a] = v]
    BY <1>5 DEF HandlerStep, RequestPairRead, RequestPairWrite, ResumeRead,
                ResumeWrite, InboxRead, CleanupWrite, CliStep, DenyRead, Deny,
                ApproveRead, FindDevice, Approve, EditDevice, Disconnect, Revoke,
                Abandon, Start, Finish
  <2> QED BY <2>1 DEF TypeOK, Actors
<1>6. CASE \E p \in Phones : \/ \E caps \in SUBSET Caps : EditDevice(c, p, caps)
                             \/ Disconnect(c, p) \/ Revoke(c, p)
  BY <1>6, <1>1 DEF EditDevice, Disconnect, Revoke
<1>7. CASE \/ \E s \in Secrets : StartPairing(s)
           \/ \E r \in Requests : PollPair(r)
           \/ Tick \/ UNCHANGED vars
  BY <1>7, <1>1 DEF StartPairing, PollPair, Tick, vars
<1> QED
  BY <1>1, <1>2, <1>3, <1>4, <1>5, <1>6, <1>7, DisjointAssumption
     DEF Next, CliStep, Actors

\* Each operation keeps RefineInv.
LEMMA RefineInvStep == TypeOK /\ DecisionInv /\ RefineInv /\ [Next]_vars => RefineInv'
<1> SUFFICES ASSUME TypeOK, DecisionInv, RefineInv, [Next]_vars PROVE RefineInv'
  OBVIOUS
<1>1. ASSUME NEW c \in Clis, Deciding(c)', job'[c].req \in DOMAIN pair_requests'
      PROVE  pair_requests'[job'[c].req].phone = job'[c].phone
  <2>1. CASE Deciding(c) /\ job'[c].req = job[c].req /\ job'[c].phone = job[c].phone
    <3>1. job[c].req \in drawn
      BY <2>1 DEF DecisionInv, Deciding
    <3> QED BY <1>1, <2>1, <3>1, PhoneStep DEF RefineInv
  <2> QED BY <1>1, <2>1, DecidingStep
<1>2. ASSUME NEW h \in Handlers, job'[h].step = "sweep" PROVE job'[h].at <= now'
  <2>1. now \in Nat /\ now <= now'
    <3>1. CASE Tick
      BY <3>1 DEF Tick, TypeOK
    <3>2. CASE ~Tick
      <4>1. UNCHANGED now
        BY <3>2 DEF Next, HandlerStep, CliStep, StartPairing, RequestPairRead,
              RequestPairWrite, DenyRead, Deny, ApproveRead, FindDevice, Approve,
              PollPair, ResumeRead, ResumeWrite, InboxRead, CleanupWrite,
              EditDevice, Disconnect, Revoke, Abandon, vars
      <4> QED BY <4>1 DEF TypeOK
    <3> QED BY <3>1, <3>2
  <2>2. CASE job'[h] = job[h]
    <3>1. job[h].at <= now /\ job[h].at \in Nat
      BY <1>2, <2>2, HandlerJobFields DEF RefineInv
    <3>2. now' \in Nat
      BY TypeStep DEF TypeOK
    <3> QED BY <2>1, <2>2, <3>1, <3>2
  <2>3. CASE \E t \in Tokens : InboxRead(h, t)
    BY <2>1, <2>3 DEF InboxRead, Start, TypeOK, Actors
  <2>4. CASE \/ \E s \in Secrets, p \in Phones, requested \in SUBSET Caps :
                   RequestPairRead(h, s, p, requested)
             \/ \E r \in Requests : RequestPairWrite(h, r)
             \/ \E r \in Requests, p \in Phones : ResumeRead(h, r, p)
             \/ \E t \in FreshTokens : ResumeWrite(h, t)
             \/ CleanupWrite(h) \/ Abandon(h)
    <3>1. job'[h].step # "sweep"
      BY <2>4 DEF RequestPairRead, RequestPairWrite, ResumeRead, ResumeWrite,
                  CleanupWrite, Abandon, Start, Finish, Idle, TypeOK, Actors
    <3> QED BY <1>2, <3>1
  <2>5. ASSUME NEW a \in Actors \ {h},
               \/ a \in Handlers /\ HandlerStep(a)
               \/ a \in Clis /\ CliStep(a)
               \/ Abandon(a)
        PROVE  job'[h] = job[h]
    <3>1. \/ \E v : job' = [job EXCEPT ![a] = v]
          \/ UNCHANGED job
      BY <2>5 DEF HandlerStep, RequestPairRead, RequestPairWrite, ResumeRead,
                  ResumeWrite, InboxRead, CleanupWrite, CliStep, DenyRead, Deny,
                  ApproveRead, FindDevice, Approve, EditDevice, Disconnect, Revoke,
                  Abandon, Start, Finish
    <3> QED BY <3>1 DEF TypeOK, Actors
  <2>6. CASE \/ \E s \in Secrets : StartPairing(s)
             \/ \E r \in Requests : PollPair(r)
             \/ Tick \/ UNCHANGED vars
    BY <2>6, <2>2 DEF StartPairing, PollPair, Tick, vars
  <2> QED
    BY <2>2, <2>3, <2>4, <2>5, <2>6, DisjointAssumption DEF Next, HandlerStep, Actors
<1>3. DOMAIN sessions' \subseteq issued'
  <2>1. ASSUME NEW h \in Handlers, NEW t \in FreshTokens, ResumeWrite(h, t)
        PROVE  DOMAIN sessions' \subseteq issued'
    BY <2>1 DEF ResumeWrite, Put, RefineInv
  <2>2. ASSUME NEW c \in Clis, Approve(c) PROVE DOMAIN sessions' \subseteq issued'
    BY <2>2 DEF Approve, Put, RefineInv
  <2>3. ASSUME NEW h \in Handlers, CleanupWrite(h)
        PROVE  DOMAIN sessions' \subseteq issued'
    BY <2>3, Zenon DEF CleanupWrite, Keep, RestrictValues, Restrict, history, RefineInv
  <2>4. CASE \E c \in Clis, p \in Phones : Disconnect(c, p) \/ Revoke(c, p)
    BY <2>4 DEF Disconnect, Revoke, Change, history, RefineInv
  <2>5. CASE /\ ~\E h \in Handlers : CleanupWrite(h)
             /\ ~\E h \in Handlers, u \in FreshTokens : ResumeWrite(h, u)
             /\ ~\E c \in Clis : Approve(c)
             /\ ~\E c \in Clis, p \in Phones : Disconnect(c, p) \/ Revoke(c, p)
    BY <2>5 DEF Next, HandlerStep, CliStep, StartPairing, RequestPairRead,
                RequestPairWrite, DenyRead, Deny, ApproveRead, FindDevice,
                PollPair, ResumeRead, InboxRead, EditDevice, Tick, Abandon,
                vars, tables, history, RefineInv
  <2> QED BY <2>1, <2>2, <2>3, <2>4, <2>5
<1> QED BY <1>1, <1>2, <1>3 DEF RefineInv, Deciding

\* In a new database everything may still be asked and nobody is let in.
LEMMA RefineInit == Init => Abstract!Init
BY DisjointAssumption
   DEF Init, Abstract!Init, Open, IsOpen, Trusted, Access, EmptyTable, Idle, Actors

\* What makes a request open: a pending row, or a decision under way.
LEMMA OpenByOperator ==
  ASSUME NEW r, NEW p
  PROVE  <<r, p>> \in Open <=>
           /\ r \in Requests /\ p \in Phones
           /\ \/ /\ r \in DOMAIN pair_requests
                 /\ pair_requests[r].phone = p
                 /\ pair_requests[r].status = "pending"
              \/ \E c \in Clis : Deciding(c) /\ job[c].req = r /\ job[c].phone = p
BY DEF Open, IsOpen, Deciding

\* A phone has access by a session that authenticates.
LEMMA AccessBySession ==
  ASSUME NEW p
  PROVE  p \in Access <=>
           \E t \in DOMAIN sessions :
             /\ sessions[t].phone = p /\ p \in DOMAIN devices /\ ~devices[p].revoked
             /\ sessions[t].expires >= now /\ ~sessions[t].revoked
BY DEF Access, Authenticates

\* Requests are open or not for as long as these stay.
LEMMA OpenFrame ==
  ASSUME UNCHANGED pair_requests,
         \A c \in Clis : \/ job'[c] = job[c]
                         \/ ~Deciding(c) /\ ~Deciding(c)'
                         \/ /\ Deciding(c) /\ Deciding(c)'
                            /\ job'[c].req = job[c].req
                            /\ job'[c].phone = job[c].phone
  PROVE  UNCHANGED Open
<1>1. ASSUME NEW r \in Requests, NEW p \in Phones PROVE IsOpen(r, p)' <=> IsOpen(r, p)
  BY DEF IsOpen, Deciding
<1> QED BY <1>1 DEF Open

\* Who is let in and who has access, for as long as these stay.
LEMMA AccessFrame ==
  ASSUME UNCHANGED <<now, devices, sessions>>
  PROVE  UNCHANGED <<Trusted, Access>>
BY DEF Trusted, Access, Authenticates

\* Reads of the server, of the phones and of the operator decide nothing.
LEMMA StutterSteps ==
  ASSUME OneOperator, TypeOK, DecisionInv, RefineInv,
         \/ \E s \in Secrets : StartPairing(s)
         \/ \E r \in Requests : PollPair(r)
         \/ \E h \in Handlers :
              \/ \E s \in Secrets, p \in Phones, requested \in SUBSET Caps :
                   RequestPairRead(h, s, p, requested)
              \/ \E r \in Requests, p \in Phones : ResumeRead(h, r, p)
              \/ \E t \in Tokens : InboxRead(h, t)
         \/ \E c \in Clis :
              \/ \E r \in Requests : DenyRead(c, r)
              \/ \E r \in Requests, chosen \in SUBSET Caps : ApproveRead(c, r, chosen)
              \/ FindDevice(c)
         \/ UNCHANGED vars
  PROVE  UNCHANGED <<Requests \ drawn, Open, Trusted, Access>>
<1> DEFINE Goal == UNCHANGED <<Requests \ drawn, Open, Trusted, Access>>
<1>1. ASSUME NEW s \in Secrets, StartPairing(s) PROVE Goal
  <2>1. UNCHANGED <<now, devices, sessions, pair_requests, job>>
        /\ Requests \ drawn' = Requests \ drawn
    BY <1>1, DisjointAssumption DEF StartPairing, Tokens
  <2> QED BY <2>1, OpenFrame, AccessFrame
<1>2. CASE \/ \E r \in Requests : PollPair(r)
           \/ UNCHANGED vars
  <2>1. UNCHANGED <<now, devices, sessions, pair_requests, job, drawn>>
    BY <1>2 DEF PollPair, vars, tables, history
  <2> QED BY <2>1, OpenFrame, AccessFrame
<1>3. ASSUME NEW h \in Handlers,
             \/ \E s \in Secrets, p \in Phones, requested \in SUBSET Caps :
                  RequestPairRead(h, s, p, requested)
             \/ \E r \in Requests, p \in Phones : ResumeRead(h, r, p)
             \/ \E t \in Tokens : InboxRead(h, t)
      PROVE  Goal
  <2>1. UNCHANGED <<now, devices, sessions, pair_requests, drawn>>
        /\ \E v : job' = [job EXCEPT ![h] = v]
    BY <1>3 DEF RequestPairRead, ResumeRead, InboxRead, Start, tables, history
  <2>2. \A c \in Clis : job'[c] = job[c]
    BY <2>1, DisjointAssumption DEF TypeOK, Actors
  <2> QED BY <2>1, <2>2, OpenFrame, AccessFrame
<1>4. ASSUME NEW c \in Clis,
             FindDevice(c) \/ \E r \in Requests : DenyRead(c, r)
      PROVE  Goal
  <2>1. UNCHANGED <<now, devices, sessions, pair_requests, drawn>>
    BY <1>4 DEF FindDevice, DenyRead, tables, history
  <2>2. \A d \in Clis : d = c
    BY DEF OneOperator
  <2>3. \/ ~Deciding(c) /\ ~Deciding(c)'
        \/ /\ Deciding(c) /\ Deciding(c)'
           /\ job'[c].req = job[c].req /\ job'[c].phone = job[c].phone
    BY <1>4 DEF FindDevice, DenyRead, Start, Deciding, Idle, TypeOK, Actors
  <2> QED BY <2>1, <2>2, <2>3, OpenFrame, AccessFrame
<1>5. ASSUME NEW c \in Clis, NEW q \in Requests, NEW chosen \in SUBSET Caps,
             ApproveRead(c, q, chosen)
      PROVE  Goal
  <2>1. UNCHANGED <<now, devices, sessions, pair_requests, drawn>>
    BY <1>5 DEF ApproveRead, tables
  <2>2. \A d \in Clis : d = c
    BY DEF OneOperator
  <2>3. /\ q \in DOMAIN pair_requests /\ pair_requests[q].status = "pending"
        /\ ~Deciding(c) /\ Deciding(c)'
        /\ job'[c].req = q /\ job'[c].phone = pair_requests[q].phone
    BY <1>5 DEF ApproveRead, Decidable, Start, Deciding, Idle, TypeOK, Actors
  <2>4. ASSUME NEW r \in Requests, NEW p \in Phones PROVE IsOpen(r, p)' <=> IsOpen(r, p)
    BY <2>1, <2>2, <2>3 DEF IsOpen, Deciding
  <2>5. UNCHANGED Open
    BY <2>4 DEF Open
  <2> QED BY <2>1, <2>5, AccessFrame
<1> QED BY <1>1, <1>2, <1>3, <1>4, <1>5

\* Steps after which fewer requests wait for a decision, for whatever reason.
LEMMA CloseStep ==
  ASSUME Open' \subseteq Open, UNCHANGED <<Requests \ drawn, Trusted, Access>>
  PROVE  Abstract!Next
<1> DEFINE S == Open \ Open'
<1>1. S \in SUBSET Open /\ Open \ S = Open'
  OBVIOUS
<1>2. Abstract!Close(S)
  BY <1>1 DEF Abstract!Close
<1> QED BY <1>1, <1>2 DEF Abstract!Next

\* Steps after which fewer phones have access, for whatever reason.
LEMMA LapseStep ==
  ASSUME Access' \subseteq Access, UNCHANGED <<Requests \ drawn, Open, Trusted>>
  PROVE  Abstract!Next
<1> DEFINE S == Access \ Access'
<1>1. S \in SUBSET Access /\ Access \ S = Access'
  OBVIOUS
<1>2. Abstract!Lapse(S)
  BY <1>1 DEF Abstract!Lapse
<1> QED BY <1>1, <1>2 DEF Abstract!Next

\* The INSERT of request_pair asks.
LEMMA AskStep ==
  ASSUME TypeOK, DecisionInv, NEW h \in Handlers, NEW r \in Requests,
         RequestPairWrite(h, r)
  PROVE  Abstract!Next
<1>1. PICK q : q = job[h].phone
  OBVIOUS
<1>2. q \in Phones
  BY <1>1, HandlerJobFields DEF RequestPairWrite
<1>3. /\ r \in Requests \ drawn /\ drawn' = drawn \cup {r}
      /\ UNCHANGED <<now, devices, sessions>>
  BY DEF RequestPairWrite
<1>4. /\ DOMAIN pair_requests' = DOMAIN pair_requests \cup {r}
      /\ pair_requests'[r].phone = q /\ pair_requests'[r].status = "pending"
      /\ \A x \in DOMAIN pair_requests : x # r => pair_requests'[x] = pair_requests[x]
  BY <1>1 DEF RequestPairWrite, Put
<1>5. r \notin DOMAIN pair_requests
  BY <1>3 DEF DecisionInv
<1>6. \A c \in Clis : job'[c] = job[c] /\ (Deciding(c) => job[c].req # r)
  <2>1. job' = [job EXCEPT ![h] = Idle]
    BY DEF RequestPairWrite, Finish
  <2>2. \A c \in Clis : Deciding(c) => job[c].req # r
    BY <1>3 DEF DecisionInv, Deciding
  <2> QED BY <2>1, <2>2, DisjointAssumption DEF TypeOK, Actors
<1>7. ASSUME NEW x \in Requests, NEW p \in Phones
      PROVE  IsOpen(x, p)' <=> IsOpen(x, p) \/ (x = r /\ p = q)
  BY <1>4, <1>5, <1>6 DEF IsOpen, Deciding
<1>8. Open' = Open \cup {<<r, q>>}
  BY <1>2, <1>7 DEF Open
<1>9. UNCHANGED <<Trusted, Access>>
  BY <1>3, AccessFrame
<1>10. Abstract!Ask(r, q)
  BY <1>3, <1>8, <1>9 DEF Abstract!Ask
<1> QED BY <1>2, <1>10 DEF Abstract!Next

\* The transaction of an approval allows the request it is about.
LEMMA AllowStep ==
  ASSUME OneOperator, TypeOK, DecisionInv, RefineInv, NEW c \in Clis, Approve(c)
  PROVE  Abstract!Next
<1>1. PICK r, q, at : r = job[c].req /\ q = job[c].phone /\ at = job[c].at
  OBVIOUS
<1>2. r \in Requests /\ q \in Phones /\ at \in Nat /\ job[c].step = "approve"
  BY <1>1, CliJobFields DEF Approve
<1>3. /\ DOMAIN devices' = DOMAIN devices \cup {q}
      /\ \A p \in DOMAIN devices : p # q => devices'[p] = devices[p]
      /\ ~devices'[q].revoked
  BY <1>1 DEF Approve, Put
<1>4. /\ r \notin DOMAIN sessions
      /\ DOMAIN sessions' = DOMAIN sessions \cup {r}
      /\ \A t \in DOMAIN sessions : sessions'[t] = sessions[t]
      /\ sessions'[r].phone = q
  BY <1>1 DEF Approve, Put
<1>5. /\ DOMAIN pair_requests' = DOMAIN pair_requests
      /\ \A x \in DOMAIN pair_requests : x # r => pair_requests'[x] = pair_requests[x]
      /\ r \in DOMAIN pair_requests => pair_requests'[r].status = "approved"
  BY <1>1 DEF Approve, Change, Approved, TypeOK, IsTable, PairRequest
<1>6. UNCHANGED <<now, drawn>> /\ job'[c] = Idle
  BY DEF Approve, Finish, TypeOK, Actors
<1>7. \A d \in Clis : d = c
  BY DEF OneOperator
<1>8. r \in DOMAIN pair_requests => pair_requests[r].phone = q
  BY <1>1, <1>2 DEF RefineInv, Deciding
<1>9. ASSUME NEW x \in Requests, NEW p \in Phones
      PROVE  IsOpen(x, p)' <=> IsOpen(x, p) /\ ~(x = r /\ p = q)
  <2>1. ~Deciding(c)'
    BY <1>6 DEF Deciding, Idle
  <2>2. IsOpen(x, p)' <=> /\ x \in DOMAIN pair_requests'
                          /\ pair_requests'[x].phone = p
                          /\ pair_requests'[x].status = "pending"
    BY <1>7, <2>1 DEF IsOpen, Deciding
  <2>3. IsOpen(x, p) <=> \/ /\ x \in DOMAIN pair_requests
                            /\ pair_requests[x].phone = p
                            /\ pair_requests[x].status = "pending"
                         \/ x = r /\ p = q
    BY <1>1, <1>2, <1>7 DEF IsOpen
  <2> QED BY <1>5, <1>8, <2>2, <2>3
<1>10. <<r, q>> \in Open
  BY <1>1, <1>2 DEF Open, IsOpen
<1>11. Open' = Open \ {<<r, q>>}
  BY <1>2, <1>9 DEF Open
<1>12. Trusted' = Trusted \cup {q}
  BY <1>3 DEF Trusted
<1>13. \A p : p # q => (p \in Access' <=> p \in Access)
  BY <1>3, <1>4, <1>6, AccessBySession DEF Access, Authenticates
<1>14. q \in Access => q \in Access'
  BY <1>3, <1>4, <1>6 DEF Access, Authenticates
<1>15. Access' \in {Access, Access \cup {q}}
  BY <1>13, <1>14
<1>16. Abstract!Allow(r, q)
  BY <1>6, <1>10, <1>11, <1>12, <1>15 DEF Abstract!Allow
<1> QED BY <1>2, <1>16 DEF Abstract!Next

\* A refusal, and a decision that ends half-way, close what they were about or nothing.
LEMMA RefusalStep ==
  ASSUME OneOperator, TypeOK, DecisionInv, RefineInv,
         \/ \E c \in Clis : Deny(c)
         \/ \E a \in Actors : Abandon(a)
  PROVE  Abstract!Next
<1>1. UNCHANGED <<now, devices, sessions, drawn>>
  BY DEF Deny, Abandon, tables, history
<1>2. ASSUME NEW x \in DOMAIN pair_requests', pair_requests'[x].status = "pending"
      PROVE  /\ x \in DOMAIN pair_requests
             /\ pair_requests'[x].phone = pair_requests[x].phone
             /\ pair_requests[x].status = "pending"
  BY <1>2 DEF Deny, Change, Denied, Abandon, tables, TypeOK, IsTable, PairRequest
<1>3. ASSUME NEW d \in Clis PROVE job'[d] = job[d] \/ ~Deciding(d)'
  <2>1. PICK a \in Actors : job' = [job EXCEPT ![a] = Idle]
    BY DEF Deny, Abandon, Finish, Actors
  <2>2. job'[d] = job[d] \/ job'[d] = Idle
    BY <2>1 DEF TypeOK, Actors
  <2> QED BY <2>2 DEF Deciding, Idle
<1>4. ASSUME NEW x \in Requests, NEW p \in Phones, IsOpen(x, p)' PROVE IsOpen(x, p)
  BY <1>2, <1>3, <1>4 DEF IsOpen, Deciding
<1>5. Open' \subseteq Open
  BY <1>4 DEF Open
<1> QED BY <1>1, <1>5, AccessFrame, CloseStep

\* Cleanup forgets requests nobody decided in time, and no session that still works.
LEMMA CleanupStep ==
  ASSUME TypeOK, DecisionInv, RefineInv, NEW h \in Handlers, CleanupWrite(h)
  PROVE  Abstract!Next
<1>1. PICK at : at = job[h].at
  OBVIOUS
<1>2. at \in Nat /\ at <= now /\ now \in Nat
  BY <1>1, HandlerJobFields DEF CleanupWrite, RefineInv, TypeOK
<1>3. UNCHANGED <<now, devices, drawn>> /\ job' = [job EXCEPT ![h] = Idle]
  BY DEF CleanupWrite, Finish, history
<1>4. /\ DOMAIN pair_requests' \subseteq DOMAIN pair_requests
      /\ \A r \in DOMAIN pair_requests' : pair_requests'[r] = pair_requests[r]
  BY Zenon DEF CleanupWrite, Keep, RestrictValues, Restrict
<1>5. /\ DOMAIN sessions' = {t \in DOMAIN sessions :
                               sessions[t].expires >= at /\ ~sessions[t].revoked}
      /\ \A t \in DOMAIN sessions' : sessions'[t] = sessions[t]
  <2>1. sessions' = Keep(sessions, LAMBDA row : row.expires >= job[h].at /\ ~row.revoked)
    BY DEF CleanupWrite
  <2> QED BY <1>1, <2>1, Zenon DEF Keep, RestrictValues, Restrict
<1>6. ASSUME NEW c \in Clis PROVE job'[c] = job[c]
  BY <1>3, DisjointAssumption DEF TypeOK, Actors
<1>7. ASSUME NEW x \in Requests, NEW p \in Phones, IsOpen(x, p)' PROVE IsOpen(x, p)
  BY <1>4, <1>6, <1>7 DEF IsOpen
<1>8. Open' \subseteq Open
  BY <1>7 DEF Open
<1>9. \A t \in DOMAIN sessions : sessions[t].expires >= now => sessions[t].expires >= at
  BY <1>2 DEF TypeOK, IsTable, Session
<1>10. \A t : Authenticates(t)' <=> Authenticates(t)
  BY <1>3, <1>5, <1>9 DEF Authenticates
<1>11. Access' = Access
  BY <1>5, <1>10 DEF Access, Authenticates
<1>12. UNCHANGED <<Requests \ drawn, Trusted>>
  BY <1>3 DEF Trusted
<1> QED BY <1>8, <1>11, <1>12, CloseStep

\* The INSERT of resume lets in a phone that is trusted, or nobody: the phone was
\* revoked, or the session is too old already, since the SELECT.
LEMMA ResumeStep ==
  ASSUME TypeOK, DecisionInv, RefineInv, NEW h \in Handlers, NEW t \in FreshTokens,
         ResumeWrite(h, t)
  PROVE  Abstract!Next \/ UNCHANGED <<Requests \ drawn, Open, Trusted, Access>>
<1>1. PICK q : q = job[h].phone
  OBVIOUS
<1>2. q \in Phones
  BY <1>1, HandlerJobFields DEF ResumeWrite
<1>3. /\ t \notin DOMAIN sessions
      /\ DOMAIN sessions' = DOMAIN sessions \cup {t}
      /\ \A u \in DOMAIN sessions : sessions'[u] = sessions[u]
      /\ sessions'[t].phone = q
  <2>1. t \notin DOMAIN sessions
    BY DEF ResumeWrite, RefineInv, DecisionInv
  <2> QED BY <1>1, <2>1 DEF ResumeWrite, Put
<1>4. UNCHANGED <<now, devices, pair_requests>> /\ Requests \ drawn' = Requests \ drawn
  BY DisjointAssumption DEF ResumeWrite
<1>5. \A c \in Clis : job'[c] = job[c]
  BY DisjointAssumption DEF ResumeWrite, Finish, TypeOK, Actors
<1>6. UNCHANGED <<Open, Trusted>>
  <2>1. UNCHANGED Open
    BY <1>4, <1>5, OpenFrame
  <2> QED BY <1>4, <2>1 DEF Trusted
<1>7. \A p : p # q => (p \in Access' <=> p \in Access)
  BY <1>3, <1>4 DEF Access, Authenticates
<1>8. q \in Access => q \in Access'
  BY <1>3, <1>4 DEF Access, Authenticates
<1>9. CASE q \in Access'
  <2>1. Access' = Access \cup {q}
    BY <1>7, <1>8, <1>9
  <2>2. q \in Trusted
    BY <1>4, <1>9 DEF Access, Authenticates, Trusted
  <2>3. Abstract!Resume(q)
    BY <1>4, <1>6, <2>1, <2>2 DEF Abstract!Resume
  <2> QED BY <1>2, <2>3 DEF Abstract!Next
<1>10. CASE q \notin Access'
  <2>1. Access' = Access
    BY <1>7, <1>8, <1>10
  <2> QED BY <1>4, <1>6, <2>1
<1> QED BY <1>9, <1>10

\* disconnect ends the sessions of a phone, revoke also its trust.
LEMMA PutOutStep ==
  ASSUME TypeOK, NEW c \in Clis, NEW q \in Phones, Disconnect(c, q) \/ Revoke(c, q)
  PROVE  Abstract!Next
<1>1. UNCHANGED <<now, pair_requests, job, drawn>>
  BY DEF Disconnect, Revoke, history
<1>2. UNCHANGED <<Requests \ drawn, Open>>
  BY <1>1, OpenFrame
<1>3. /\ DOMAIN sessions' = DOMAIN sessions
      /\ \A t \in DOMAIN sessions :
           IF sessions[t].phone = q
             THEN sessions'[t].revoked
             ELSE sessions'[t] = sessions[t]
      /\ \A t \in DOMAIN sessions : sessions'[t].phone = sessions[t].phone
  BY DEF Disconnect, Revoke, Change, RevokedRow, SessionsOf, TypeOK, IsTable, Session
<1>4. CASE Disconnect(c, q)
  <2>1. UNCHANGED devices
    BY <1>4 DEF Disconnect
  <2>2. Access' \subseteq Access
    BY <1>1, <1>3, <2>1 DEF Access, Authenticates
  <2>3. UNCHANGED Trusted
    BY <2>1 DEF Trusted
  <2> QED BY <1>2, <2>2, <2>3, LapseStep
<1>5. CASE Revoke(c, q)
  <2>1. /\ DOMAIN devices' = DOMAIN devices
        /\ \A p \in DOMAIN devices : p # q => devices'[p] = devices[p]
        /\ q \in DOMAIN devices /\ devices'[q].revoked
    BY <1>5 DEF Revoke, Change, RevokedRow, TypeOK, IsTable, Device
  <2>2. Trusted' = Trusted \ {q}
    BY <2>1 DEF Trusted
  <2>3. \A p : p \in Access' <=> p \in Access /\ p # q
    BY <1>1, <1>3, <2>1 DEF Access, Authenticates
  <2>4. Access' = Access \ {q}
    BY <2>3
  <2>5. Abstract!PutOut(q)
    BY <1>2, <2>2, <2>4 DEF Abstract!PutOut
  <2> QED BY <2>5 DEF Abstract!Next
<1> QED BY <1>4, <1>5

\* A device whose permissions change is as trusted as before.
LEMMA EditStep ==
  ASSUME TypeOK, NEW c \in Clis, NEW q \in Phones, NEW caps \in SUBSET Caps,
         EditDevice(c, q, caps)
  PROVE  UNCHANGED <<Requests \ drawn, Open, Trusted, Access>>
<1>1. UNCHANGED <<now, pair_requests, sessions, job, drawn>>
  BY DEF EditDevice, history
<1>2. /\ DOMAIN devices' = DOMAIN devices
      /\ \A p \in DOMAIN devices : devices'[p].revoked = devices[p].revoked
  BY DEF EditDevice, TypeOK, IsTable, Device
<1>3. UNCHANGED Open
  BY <1>1, OpenFrame
<1>4. UNCHANGED Trusted
  BY <1>2 DEF Trusted
<1>5. UNCHANGED Access
  BY <1>1, <1>2 DEF Access, Authenticates
<1> QED BY <1>1, <1>3, <1>4, <1>5

\* As time passes sessions expire.
LEMMA TimeStep ==
  ASSUME TypeOK, Tick
  PROVE  Abstract!Next
<1>1. UNCHANGED <<pair_requests, devices, sessions, job, drawn>>
  BY DEF Tick, tables, history
<1>2. \A t \in DOMAIN sessions : sessions[t].expires >= now' => sessions[t].expires >= now
  BY DEF Tick, TypeOK, IsTable, Session
<1>3. Access' \subseteq Access
  BY <1>1, <1>2 DEF Access, Authenticates
<1>4. UNCHANGED <<Open, Trusted>>
  BY <1>1, OpenFrame DEF Trusted
<1> QED BY <1>1, <1>3, <1>4, LapseStep

\* Every step of a single operator's Portal is one of AccessControl or a stutter.
LEMMA RefineStep ==
  ASSUME OneOperator
  PROVE  TypeOK /\ DecisionInv /\ RefineInv /\ [Next]_vars
           => [Abstract!Next]_Abstract!vars
<1> SUFFICES ASSUME TypeOK, DecisionInv, RefineInv, [Next]_vars
             PROVE  \/ Abstract!Next
                    \/ UNCHANGED <<Requests \ drawn, Open, Trusted, Access>>
  BY DEF Abstract!vars
<1> QED
  BY StutterSteps, AskStep, AllowStep, RefusalStep, CleanupStep, ResumeStep,
     PutOutStep, EditStep, TimeStep
     DEF Next, HandlerStep, CliStep

\* When the operator runs one command at a time, pairing and sessions (core.py 96-348)
\* keep the promise of AccessControl, for any number of threads, phones and requests:
\* each request is decided once and a phone has access only while it is let in.
THEOREM Implements ==
  ASSUME OneOperator
  PROVE  Spec => ImplementsAccessControl
<1>1. TypeOK /\ DecisionInv /\ RefineInv /\ [Next]_vars => RefineInv'
  BY RefineInvStep
<1>2. TypeOK /\ DecisionInv /\ RefineInv /\ [Next]_vars
        => [Abstract!Next]_Abstract!vars
  BY RefineStep
<1>3. Spec => [](TypeOK /\ DecisionInv)
  BY DecisionInvariant
<1>4. Spec => []RefineInv
  BY <1>1, <1>3, RefineInvInit, PTL DEF Spec
<1> QED
  BY <1>2, <1>3, <1>4, RefineInit, PTL
     DEF Spec, ImplementsAccessControl, Abstract!Spec

-----------------------------------------------------------------------------
(***************************************************************************)
(* What follows for the code from what AccessControl promises.             *)
(***************************************************************************)
\* When the operator runs one command at a time, every step is one of AccessControl.
LEMMA Promised ==
  ASSUME OneOperator
  PROVE  Spec => [][Abstract!Next]_Abstract!vars
BY Implements, PTL DEF ImplementsAccessControl, Abstract!Spec

\* A phone gets in, for the first time or after it was revoked, only by the approval of a
\* request of its own that was open until then (decide_pair, core.py 165-235): no poll,
\* resume, edit, cleanup or interrupted command lets one in.
THEOREM TrustTakesRequest ==
  ASSUME OneOperator
  PROVE  Spec => [][\A p \in Phones : p \in Trusted' \ Trusted =>
                      \E r \in Requests : <<r, p>> \in Open \ Open']_vars
<1> DEFINE TakesRequest == \A p \in Phones : p \in Trusted' \ Trusted =>
                             \E r \in Requests : <<r, p>> \in Open \ Open'
<1>1. [Abstract!Next]_Abstract!vars => TakesRequest
  <2> SUFFICES ASSUME [Abstract!Next]_Abstract!vars, NEW p \in Phones, p \in Trusted' \ Trusted
               PROVE  \E r \in Requests : <<r, p>> \in Open \ Open'
    OBVIOUS
  <2>1. PICK r \in Requests, q \in Phones : Abstract!Allow(r, q)
    BY DEF Abstract!Next, Abstract!vars, Abstract!Ask, Abstract!Close, Abstract!Resume,
       Abstract!PutOut, Abstract!Lapse
  <2>2. <<r, q>> \in Open /\ Open' = Open \ {<<r, q>>} /\ Trusted' = Trusted \cup {q}
    BY <2>1 DEF Abstract!Allow
  <2>3. QED
    BY <2>2
<1>2. QED
  BY <1>1, Promised, PTL

\* A request is decided once (decide_pair, core.py 165-235): once it was approved, denied
\* or forgotten it is not open again, so that each time a revoked phone comes back
\* TrustTakesRequest asks for a new one.
THEOREM RequestsStayClosed ==
  ASSUME OneOperator
  PROVE  Spec => [][\A r \in drawn, p \in Phones :
                      <<r, p>> \in Open' => <<r, p>> \in Open]_vars
<1> DEFINE StayClosed == \A r \in drawn, p \in Phones : <<r, p>> \in Open' => <<r, p>> \in Open
<1>1. [Abstract!Next]_Abstract!vars => StayClosed
  <2> SUFFICES ASSUME [Abstract!Next]_Abstract!vars, NEW r \in drawn, NEW p \in Phones,
                      <<r, p>> \in Open'
               PROVE  <<r, p>> \in Open
    OBVIOUS
  <2>1. ASSUME NEW q \in Requests, NEW o \in Phones, Abstract!Ask(q, o)
        PROVE  <<r, p>> \in Open
    BY <2>1 DEF Abstract!Ask
  <2>2. CASE Open' \subseteq Open
    BY <2>2
  <2>3. QED
    BY <2>1, <2>2 DEF Abstract!Next, Abstract!vars, Abstract!Allow, Abstract!Close,
       Abstract!Resume, Abstract!PutOut, Abstract!Lapse
<1>2. QED
  BY <1>1, Promised, PTL
=============================================================================
