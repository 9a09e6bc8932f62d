----------------------------- MODULE PortalAuth -----------------------------
(***************************************************************************)
(* Pairing and sessions of src/portal/core.py over the database of         *)
(* src/portal/store.py.                                                    *)
(*                                                                         *)
(* Two kinds of processes share the database: the threads of the HTTP      *)
(* server (Handlers: request_pair, poll_pair, resume, the cleanup of       *)
(* inbox) and the processes the operator starts (Clis: pair, approve,      *)
(* approve --deny, device revoke / disconnect / permissions).  Store opens *)
(* one connection per call and sqlite3 opens a transaction at the first    *)
(* write, so a SELECT and the writes that rely on it are steps of their    *)
(* own; the writes of one `with connect()` are one step.  What a process   *)
(* remembers between its steps is job.                                     *)
(*                                                                         *)
(* A phone is identified by its public id, the UNIQUE column of devices,   *)
(* which stands for the device id too (a row of devices is never deleted). *)
(* The session token and the device credential of an approval are derived  *)
(* from the request (security.derive), so the request stands for both.     *)
(***************************************************************************)
EXTENDS Integers, FiniteSets, Tables

CONSTANTS
  Secrets,        \* pairing secrets security.token can draw
  Requests,       \* request ids (with their claim) uuid4 can draw
  FreshTokens,    \* session tokens security.token can draw in resume
  Phones,         \* public ids of phones
  Caps,           \* ALL_CAPABILITIES
  DefaultCaps,    \* DEFAULT_CAPABILITIES
  SendReceive,    \* the capability that opens the inbox
  Handlers,       \* threads of the HTTP server
  Clis,           \* processes started by the operator
  PairTTL, RequestTTL, SessionTTL,
  Grace,          \* how long cleanup keeps expired pairing rows
  MaxTime         \* bound on the clock, for model checking

Tokens == Requests \cup FreshTokens
Actors == Handlers \cup Clis

ASSUME TimesAssumption ==
  /\ PairTTL \in Nat /\ RequestTTL \in Nat /\ SessionTTL \in Nat
  /\ Grace \in Nat /\ MaxTime \in Nat

ASSUME CapsAssumption == DefaultCaps \subseteq Caps /\ SendReceive \in Caps

\* Random values of different kinds never coincide; a thread is not a process.
ASSUME DisjointAssumption ==
  /\ Requests \cap FreshTokens = {}
  /\ Secrets \cap Tokens = {}
  /\ Handlers \cap Clis = {}

VARIABLES
  now,              \* the clock
  pairing_tokens,   \* table: secret  -> [expires, consumed]
  pair_requests,    \* table: request -> [phone, requested, status, expires]
  devices,          \* table: phone   -> [cred, caps, revoked]
  sessions,         \* table: token   -> [phone, expires, revoked]
  job,              \* what each process is in the middle of
  delivered,        \* requests whose credentials poll_pair gave to the phone
  \* History variables.
  drawn,            \* random values already drawn
  admitted,         \* <<secret, handler, request>> for each request admitted
  consented,        \* <<request, phone>> for each request the operator allowed
  issued            \* tokens a session was ever created for

tables == <<pairing_tokens, pair_requests, devices, sessions>>
history == <<drawn, admitted, consented, issued>>
vars == <<now, tables, job, delivered, history>>

-----------------------------------------------------------------------------
Idle == [step |-> "idle"]

Statuses == {"pending", "approved", "denied"}

PairingToken == [expires : Nat, consumed : BOOLEAN]
PairRequest  == [phone : Phones, requested : SUBSET Caps, status : Statuses,
                 expires : Nat]
Device  == [cred : Requests, caps : SUBSET Caps, revoked : BOOLEAN]
Session == [phone : Phones, expires : Nat, revoked : BOOLEAN]

\* Between the SELECT and the write of request_pair, resume and cleanup.
HandlerJob ==
  {Idle}
  \cup [step : {"consume"}, secret : Secrets, phone : Phones,
        caps : SUBSET Caps, at : Nat]
  \cup [step : {"mint"}, phone : Phones, at : Nat]
  \cup [step : {"sweep"}, at : Nat]

\* Between the statements of decide_pair.
CliJob ==
  {Idle}
  \cup [step : {"deny"}, req : Requests]
  \cup [step : {"find_device"}, req : Requests, phone : Phones,
        caps : SUBSET Caps, at : Nat]
  \cup [step : {"approve"}, req : Requests, phone : Phones,
        caps : SUBSET Caps, at : Nat, known : BOOLEAN]

TypeOK ==
  /\ now \in Nat
  /\ IsTable(pairing_tokens, Secrets, PairingToken)
  /\ IsTable(pair_requests, Requests, PairRequest)
  /\ IsTable(devices, Phones, Device)
  /\ IsTable(sessions, Tokens, Session)
  /\ DOMAIN job = Actors
  /\ \A h \in Handlers : job[h] \in HandlerJob
  /\ \A c \in Clis : job[c] \in CliJob
  /\ delivered \subseteq Requests
  /\ drawn \subseteq Secrets \cup Tokens
  /\ admitted \subseteq Secrets \X Handlers \X Requests
  /\ consented \subseteq Requests \X Phones
  /\ issued \subseteq Tokens

Init ==
  /\ now = 0
  /\ pairing_tokens = EmptyTable
  /\ pair_requests = EmptyTable
  /\ devices = EmptyTable
  /\ sessions = EmptyTable
  /\ job = [a \in Actors |-> Idle]
  /\ delivered = {}
  /\ drawn = {}
  /\ admitted = {}
  /\ consented = {}
  /\ issued = {}

-----------------------------------------------------------------------------
(***************************************************************************)
(* Pairing secrets: start_pairing and request_pair.                        *)
(***************************************************************************)
Start(a, what) == job[a] = Idle /\ job' = [job EXCEPT ![a] = what]
Finish(a) == job' = [job EXCEPT ![a] = Idle]

\* `portal pair`, and panel-state when there is nobody to show.
StartPairing(s) ==
  /\ s \in Secrets \ drawn
  /\ pairing_tokens' = Put(pairing_tokens, s,
                           [expires |-> now + PairTTL, consumed |-> FALSE])
  /\ drawn' = drawn \cup {s}
  /\ UNCHANGED <<now, pair_requests, devices, sessions, job, delivered,
                 admitted, consented, issued>>

Usable(row, at) == ~row.consumed /\ row.expires >= at

RequestPairRead(h, s, p, requested) ==
  /\ s \in DOMAIN pairing_tokens
  /\ Usable(pairing_tokens[s], now)
  /\ Start(h, [step |-> "consume", secret |-> s, phone |-> p, at |-> now,
               caps |-> IF requested = {} THEN DefaultCaps ELSE requested])
  /\ UNCHANGED <<now, tables, delivered, history>>

NotConsumed(row) == row
Consumed(row) == [row EXCEPT !.consumed = TRUE]

\* The UPDATE of the secret and the INSERT of the request, in one transaction.
\* The UPDATE matches no row when cleanup has removed the secret meanwhile.
RequestPairWrite(h, r) ==
  /\ job[h].step = "consume"
  /\ r \in Requests \ drawn
  /\ LET j == job[h] IN
     /\ pairing_tokens' = Change(pairing_tokens, {j.secret}, Consumed)
     /\ pair_requests' = Put(pair_requests, r,
                             [phone |-> j.phone, requested |-> j.caps,
                              status |-> "pending",
                              expires |-> j.at + RequestTTL])
     /\ admitted' = admitted \cup {<<j.secret, h, r>>}
  /\ drawn' = drawn \cup {r}
  /\ Finish(h)
  /\ UNCHANGED <<now, devices, sessions, delivered, consented, issued>>

-----------------------------------------------------------------------------
(***************************************************************************)
(* The operator's decision: decide_pair, and poll_pair.                    *)
(***************************************************************************)
DecidableTwice(row, at) == row.expires >= at
Decidable(row, at) == row.status = "pending" /\ row.expires >= at

\* The SELECT of the request, for `approve --deny`.
DenyRead(c, r) ==
  /\ r \in DOMAIN pair_requests
  /\ Decidable(pair_requests[r], now)
  /\ Start(c, [step |-> "deny", req |-> r])
  /\ UNCHANGED <<now, tables, delivered, history>>

Misspelt(row) == [row EXCEPT !.status = "rejected"]
Denied(row) == [row EXCEPT !.status = "denied"]

Deny(c) ==
  /\ job[c].step = "deny"
  /\ pair_requests' = Change(pair_requests, {job[c].req}, Denied)
  /\ Finish(c)
  /\ UNCHANGED <<now, pairing_tokens, devices, sessions, delivered, history>>

\* The SELECT of the request, for `approve`; chosen is the operator's
\* --capability list, Caps when there is none.
ApproveRead(c, r, chosen) ==
  /\ r \in DOMAIN pair_requests
  /\ Decidable(pair_requests[r], now)
  /\ LET row == pair_requests[r] IN
     /\ Start(c, [step |-> "find_device", req |-> r, phone |-> row.phone,
                  caps |-> chosen \cap row.requested, at |-> now])
     /\ consented' = consented \cup {<<r, row.phone>>}
  /\ UNCHANGED <<now, tables, delivered, drawn, admitted, issued>>

\* The SELECT of the device with this public id.
FindDevice(c) ==
  /\ job[c].step = "find_device"
  /\ LET j == job[c] IN
     job' = [job EXCEPT ![c] = [step |-> "approve", req |-> j.req,
                                phone |-> j.phone, caps |-> j.caps,
                                at |-> j.at,
                                known |-> j.phone \in DOMAIN devices]]
  /\ UNCHANGED <<now, tables, delivered, history>>

Approved(row) == [row EXCEPT !.status = "approved"]

\* The transaction that trusts the device, opens its session and marks the
\* request.  The INSERT of a device violates UNIQUE(public_id) when the device
\* came into being after the SELECT, that of the session violates
\* UNIQUE(token_digest) when this request already has one: the transaction is
\* rolled back (Abandon).
Approve(c) ==
  /\ job[c].step = "approve"
  /\ LET j == job[c] IN
     /\ j.known \/ j.phone \notin DOMAIN devices
     /\ j.req \notin DOMAIN sessions
     /\ devices' = Put(devices, j.phone,
                       [cred |-> j.req, caps |-> j.caps, revoked |-> FALSE])
     /\ sessions' = Put(sessions, j.req,
                        [phone |-> j.phone, expires |-> j.at + SessionTTL,
                         revoked |-> FALSE])
     /\ pair_requests' = Change(pair_requests, {j.req}, Approved)
     /\ issued' = issued \cup {j.req}
  /\ Finish(c)
  /\ UNCHANGED <<now, pairing_tokens, delivered, drawn, admitted, consented>>

HandsOutEarly(row, at) == row.status # "denied" /\ row.expires >= at
HandsOut(row, at) == row.status = "approved" /\ row.expires >= at

\* A phone with the claim of r polls and receives its credentials.
PollPair(r) ==
  /\ r \in DOMAIN pair_requests
  /\ HandsOut(pair_requests[r], now)
  /\ delivered' = delivered \cup {r}
  /\ UNCHANGED <<now, tables, job, history>>

-----------------------------------------------------------------------------
(***************************************************************************)
(* Sessions: resume, authenticate, and the cleanup a request for the inbox *)
(* runs.  The last_seen columns are left out.                              *)
(***************************************************************************)
CredentialAccepted(row, r) == ~row.revoked /\ row.cred = r

\* The SELECT and the checks of resume: the phone presents the credential it
\* was given for r.
ResumeRead(h, r, p) ==
  /\ r \in delivered
  /\ p \in DOMAIN devices
  /\ CredentialAccepted(devices[p], r)
  /\ Start(h, [step |-> "mint", phone |-> p, at |-> now])
  /\ UNCHANGED <<now, tables, delivered, history>>

\* The INSERT of resume, which looks at nothing again.
ResumeWrite(h, t) ==
  /\ job[h].step = "mint"
  /\ t \in FreshTokens \ drawn
  /\ sessions' = Put(sessions, t,
                     [phone |-> job[h].phone,
                      expires |-> job[h].at + SessionTTL, revoked |-> FALSE])
  /\ drawn' = drawn \cup {t}
  /\ issued' = issued \cup {t}
  /\ Finish(h)
  /\ UNCHANGED <<now, pairing_tokens, pair_requests, devices, delivered,
                 admitted, consented>>

IgnoresDevice(t) ==
  /\ t \in DOMAIN sessions
  /\ sessions[t].phone \in DOMAIN devices
  /\ sessions[t].expires >= now /\ ~sessions[t].revoked

\* What authenticate checks of a token, the capability apart.
Authenticates(t) ==
  /\ t \in DOMAIN sessions
  /\ sessions[t].phone \in DOMAIN devices
  /\ sessions[t].expires >= now /\ ~sessions[t].revoked
  /\ ~devices[sessions[t].phone].revoked

\* A request that lists the inbox is authenticated and cleanup reads the clock.
InboxRead(h, t) ==
  /\ Authenticates(t)
  /\ SendReceive \in devices[sessions[t].phone].caps
  /\ Start(h, [step |-> "sweep", at |-> now])
  /\ UNCHANGED <<now, tables, delivered, history>>

\* The deletions of cleanup that concern this module, one transaction.
CleanupWrite(h) ==
  /\ job[h].step = "sweep"
  /\ LET at == job[h].at IN
     /\ sessions' = Keep(sessions, LAMBDA row : row.expires >= at /\ ~row.revoked)
     /\ pairing_tokens' = Keep(pairing_tokens,
          LAMBDA row : row.expires + Grace >= at /\ ~row.consumed)
     /\ pair_requests' = Keep(pair_requests,
          LAMBDA row : row.expires + Grace >= at)
  /\ Finish(h)
  /\ UNCHANGED <<now, devices, delivered, history>>

-----------------------------------------------------------------------------
(***************************************************************************)
(* Device management: edit_device, disconnect, revoke.  A process runs one *)
(* command, so its operator is not in the middle of a decision.            *)
(***************************************************************************)
EditDevice(c, p, caps) ==
  /\ job[c] = Idle
  /\ p \in DOMAIN devices
  /\ devices' = [devices EXCEPT ![p].caps = caps]
  /\ UNCHANGED <<now, pairing_tokens, pair_requests, sessions, job, delivered,
                 history>>

SessionsOf(p) == {t \in DOMAIN sessions : sessions[t].phone = p}
RevokedRow(row) == [row EXCEPT !.revoked = TRUE]

Disconnect(c, p) ==
  /\ job[c] = Idle
  /\ p \in DOMAIN devices
  /\ sessions' = Change(sessions, SessionsOf(p), RevokedRow)
  /\ UNCHANGED <<now, pairing_tokens, pair_requests, devices, job, delivered,
                 history>>

Revoke(c, p) ==
  /\ job[c] = Idle
  /\ p \in DOMAIN devices
  /\ devices' = Change(devices, {p}, RevokedRow)
  /\ sessions' = Change(sessions, SessionsOf(p), RevokedRow)
  /\ UNCHANGED <<now, pairing_tokens, pair_requests, job, delivered, history>>

-----------------------------------------------------------------------------
Tick ==
  /\ now < MaxTime
  /\ now' = now + 1
  /\ UNCHANGED <<tables, job, delivered, history>>

\* A process ends between two of its statements: it is killed, the daemon
\* stops with its threads, or SQLite raises (locked for 8 s, UNIQUE).  What it
\* had committed stays, an open transaction is rolled back.
Abandon(a) ==
  /\ job[a] # Idle
  /\ Finish(a)
  /\ UNCHANGED <<now, tables, delivered, history>>

HandlerStep(h) ==
  \/ \E s \in Secrets, p \in Phones, requested \in SUBSET Caps :
        RequestPairRead(h, s, p, requested)
  \/ \E r \in Requests : RequestPairWrite(h, r)
  \/ \E r \in Requests, p \in Phones : ResumeRead(h, r, p)
  \/ \E t \in FreshTokens : ResumeWrite(h, t)
  \/ \E t \in Tokens : InboxRead(h, t)
  \/ CleanupWrite(h)

CliStep(c) ==
  \/ \E r \in Requests : DenyRead(c, r)
  \/ Deny(c)
  \/ \E r \in Requests, chosen \in SUBSET Caps : ApproveRead(c, r, chosen)
  \/ FindDevice(c)
  \/ Approve(c)
  \/ \E p \in Phones, caps \in SUBSET Caps : EditDevice(c, p, caps)
  \/ \E p \in Phones : Disconnect(c, p)
  \/ \E p \in Phones : Revoke(c, p)

Next ==
  \/ \E s \in Secrets : StartPairing(s)
  \/ \E r \in Requests : PollPair(r)
  \/ \E h \in Handlers : HandlerStep(h)
  \/ \E c \in Clis : CliStep(c)
  \/ \E a \in Actors : Abandon(a)
  \/ Tick

Spec == Init /\ [][Next]_vars

-----------------------------------------------------------------------------
(***************************************************************************)
(* Safety.                                                                 *)
(***************************************************************************)

\* A pairing secret that was used once is only ever used again by a thread
\* that had looked at it before: no thread admits two requests for the same
\* secret, whatever cleanup deletes meanwhile (request_pair, core.py 110-150).
ReuseOnlyByOverlap ==
  \A a, b \in admitted : a[1] = b[1] /\ a[2] = b[2] => a = b

\* "Pairing values ... become consumed on the first valid request"
\* (SECURITY.md, line 18): one request for each pairing secret.
SingleUse == \A a, b \in admitted : a[1] = b[1] => a = b

\* "A local PC decision is required before credentials are issued"
\* (SECURITY.md, line 20): every session, every device credential and every
\* answer of poll_pair that carries credentials goes back to a request of the
\* same phone that the operator allowed.
AccessNeedsDecision ==
  /\ \A t \in DOMAIN sessions :
       \E r \in Requests : /\ <<r, sessions[t].phone>> \in consented
                           /\ t \in Requests => t = r
  /\ \A p \in DOMAIN devices : <<devices[p].cred, p>> \in consented
  /\ \A r \in delivered : \E p \in Phones : <<r, p>> \in consented

Decided(r) ==
  r \in DOMAIN pair_requests /\ pair_requests[r].status # "pending"

\* A request that was approved or denied keeps that status until cleanup
\* removes it (decide_pair, core.py 173-176).
DecisionIsFinal ==
  [][\A r \in Requests :
       Decided(r) => \/ r \notin DOMAIN pair_requests'
                     \/ pair_requests'[r].status = pair_requests[r].status]_vars

\* A session token that was issued and is gone or revoked.
Spent(t) ==
  t \in issued /\ (t \in DOMAIN sessions => sessions[t].revoked)

\* No token comes back: once disconnect, revoke or cleanup has ended a session,
\* its token is not accepted again, although the token of an approval can be
\* derived again from its request (core.py 218-230).
TokenDiesOnce == [][\A t \in Tokens : Spent(t) => Spent(t)']_vars

-----------------------------------------------------------------------------
\* One `portal` process at a time decides about devices: Panel.qml starts the
\* next command when the previous one has ended (actionProc, lines 45-50).
OneOperator == \A c, d \in Clis : c = d

(***************************************************************************)
(* Pairing implements AccessControl when there is one operator. A request  *)
(* is open while its row is pending or a decision on it is under way.      *)
(***************************************************************************)
IsOpen(r, p) ==
  \/ /\ r \in DOMAIN pair_requests
     /\ pair_requests[r].phone = p /\ pair_requests[r].status = "pending"
  \/ \E c \in Clis : /\ job[c].step \in {"find_device", "approve"}
                     /\ job[c].req = r /\ job[c].phone = p

Open == {a \in Requests \X Phones : IsOpen(a[1], a[2])}

Trusted == {p \in DOMAIN devices : ~devices[p].revoked}

Access == {sessions[t].phone : t \in {u \in DOMAIN sessions : Authenticates(u)}}

Abstract == INSTANCE AccessControl WITH
              fresh <- Requests \ drawn, open <- Open,
              trusted <- Trusted, access <- Access

\* Every step of the program is a step of AccessControl or leaves it alone.
ImplementsAccessControl == Abstract!Spec
=============================================================================
