----------------------------- MODULE PortalPhone -----------------------------
(***************************************************************************)
(* The phone web app, src/web/app.js, against the pairing and sessions of  *)
(* src/portal/core.py.                                                     *)
(*                                                                         *)
(* One phone has several pages open.  Each has its own copy of the session *)
(* token and the device credential; all share localStorage.  A page has    *)
(* calls in flight: of its start (bootstrap), of its polls for an approval *)
(* and of the refresh every five seconds, neither of which waits for the   *)
(* one before, and of what the user taps.  The server answers them one by  *)
(* one, and the answers arrive in any order, or not at all.                *)
(*                                                                         *)
(* A request stands for the session token and for the credential derived   *)
(* from it.  Time is left out: what has a time to live ends at some time.  *)
(* PortalAuth has the statements of the server; here only resume, which    *)
(* looks at the device before it inserts the session, is two steps.        *)
(***************************************************************************)
EXTENDS FiniteSets, Integers

CONSTANTS
  Pages,
  Requests,       \* pairing requests
  FreshTokens,    \* session tokens of resume
  None,
  MaxPolls,       \* bound on the polls of each page for a request at a time
  MaxRefreshes,   \* bound on the timed refreshes of a page for a session at a time
  MaxTaps,        \* bound on the controls tapped, and the pages
  Tapped,         \* they are tapped on
  MaxLoads,       \* bound on page loads
  MaxMishaps      \* bound on what is lost, fails, expires or is put to an end

Tokens == Requests \cup FreshTokens

\* Answers without a token; a call the server has not answered has "none", and one
\* it is about to answer with a new session "minting".
Words == {"none", "minting", "ok", "pending", "denied", "refused", "spent", "failed"}

ASSUME PhoneAssumption ==
  /\ Requests \cap FreshTokens = {} /\ Words \cap Tokens = {}
  /\ None \notin Pages \cup Tokens
  /\ MaxPolls \in [Pages -> Nat] /\ MaxRefreshes \in Nat /\ MaxTaps \in Nat
  /\ MaxLoads \in Nat /\ MaxMishaps \in Nat

VARIABLES
  \* The server.
  status,     \* Requests -> the state of the pairing request
  cred,       \* the request whose credential the device has
  revoked,    \* the device is revoked
  live,       \* tokens of sessions neither expired nor revoked
  \* The phone.
  page,       \* what each page keeps and shows
  store,      \* localStorage
  calls,      \* calls in flight, and their answers
  \* Bounds and history.
  loads, mishaps, taps,
  collected,  \* requests whose credentials the phone saved
  rivals,     \* a request was approved while the phone could still save another
  overtook,   \* a revocation or disconnection came between the steps of a resume
  upset       \* pages since whose start something went wrong

server == <<status, cred, revoked, live>>
phone == <<page, store, calls>>
bounds == <<loads, mishaps, taps>>
history == <<collected, rivals, overtook, upset>>
vars == <<server, phone, bounds, history>>

-----------------------------------------------------------------------------
Page == [token : Tokens \cup {None}, cred : Requests \cup {None},
         polls : SUBSET Requests,          \* requests its timer polls for
         waits : Requests \cup {None},      \* the one whose decision it has not been told
         shown : {"blank", "pairing", "in", "unpaired"}]

Store == [token : Tokens \cup {None}, cred : Requests \cup {None}]

\* boot, resume and enter are the three calls bootstrap waits for in turn, and state is a
\* refresh or any control but select, that of a Vision marker: to the page's session they
\* are the same. nth tells the calls of a timer from each other; others that are alike, and
\* not answered yet, are one.
CallOf(kinds, with) == [page : Pages \cup {None}, kind : kinds, with : with, nth : Nat,
                        answer : Words \cup Tokens]

Call == CallOf({"ask"}, {None}) \cup CallOf({"poll", "resume"}, Requests)
          \cup CallOf({"boot", "enter"}, Tokens)
          \cup CallOf({"state", "select"}, Tokens \cup {None})

TypeOK ==
  /\ status \in [Requests -> {"unused", "pending", "approved", "denied", "expired"}]
  /\ cred \in Requests \cup {None} /\ revoked \in BOOLEAN
  /\ live \subseteq Tokens
  /\ page \in [Pages -> Page] /\ store \in Store
  /\ calls \subseteq Call
  /\ loads \in 0..MaxLoads /\ mishaps \in 0..MaxMishaps /\ taps \in 0..MaxTaps
  /\ collected \subseteq Requests
  /\ rivals \in BOOLEAN /\ overtook \in BOOLEAN
  /\ upset \subseteq Pages

Init ==
  /\ status = [r \in Requests |-> "unused"]
  /\ cred = None /\ revoked = FALSE /\ live = {}
  /\ page = [p \in Pages |-> [token |-> None, cred |-> None, polls |-> {}, waits |-> None,
                            shown |-> "blank"]]
  /\ store = [token |-> None, cred |-> None]
  /\ calls = {}
  /\ loads = 0 /\ mishaps = 0 /\ taps = 0
  /\ collected = {} /\ rivals = FALSE /\ overtook = FALSE /\ upset = {}

Nth(p, kind, with, n) ==
  [page |-> p, kind |-> kind, with |-> with, nth |-> n, answer |-> "none"]
New(p, kind, with) == Nth(p, kind, with, 0)
Answered(c, answer) == [c EXCEPT !.answer = answer]

Mishap == mishaps < MaxMishaps /\ mishaps' = mishaps + 1 /\ UNCHANGED <<loads, taps>>

-----------------------------------------------------------------------------
(***************************************************************************)
(* The operator, and the end of what does not last.                        *)
(***************************************************************************)
\* The phone may still save the credential of r: an answer that has it is under way, or
\* r is approved and polled for.
Polled(r) ==
  \/ \E p \in Pages : r \in page[p].polls
  \/ \E c \in calls : /\ c.page # None
                       /\ \/ c.kind = "ask" /\ c.answer = r
                          \/ c.kind = "poll" /\ c.with = r /\ c.answer = "none"

Savable(r) ==
  \/ \E c \in calls : c.kind = "poll" /\ c.answer = r
  \/ status[r] = "approved" /\ Polled(r)

Approve(r) ==
  /\ status[r] = "pending"
  /\ status' = [status EXCEPT ![r] = "approved"]
  /\ cred' = r /\ revoked' = FALSE
  /\ live' = live \cup {r}
  /\ rivals' = (rivals \/ \E q \in Requests \ {r} : Savable(q))
  /\ upset' = Pages
  /\ UNCHANGED <<phone, bounds, collected, overtook>>

Deny(r) ==
  /\ status[r] = "pending"
  /\ status' = [status EXCEPT ![r] = "denied"]
  /\ UNCHANGED <<cred, revoked, live, phone, bounds, history>>

\* The sessions of the device end, by `disconnect` or by `revoke`.
LeavesSessions == live
NoSessions == {}

PutOut(forGood) ==
  /\ cred # None /\ Mishap
  /\ revoked' = (revoked \/ forGood)
  /\ live' = NoSessions
  /\ overtook' = (overtook \/ \E c \in calls : c.answer = "minting")
  /\ upset' = Pages
  /\ UNCHANGED <<status, cred, phone, collected, rivals>>

RequestExpires(r) ==
  /\ status[r] \in {"pending", "approved", "denied"} /\ Mishap
  /\ status' = [status EXCEPT ![r] = "expired"]
  /\ UNCHANGED <<cred, revoked, live, phone, history>>

SessionExpires(t) ==
  /\ t \in live /\ Mishap
  /\ live' = live \ {t}
  /\ upset' = Pages
  /\ UNCHANGED <<status, cred, revoked, phone, collected, rivals, overtook>>

-----------------------------------------------------------------------------
(***************************************************************************)
(* The server answers. The answer to a page that is gone goes nowhere.     *)
(***************************************************************************)
Asked(c, kind) == c \in calls /\ c.answer = "none" /\ c.kind = kind

Answers(c, answer) ==
  calls' = (calls \ {c}) \cup (IF c.page = None THEN {} ELSE {Answered(c, answer)})

\* request_pair; the secret is taken for good (PortalAuth). Which request is drawn makes
\* no difference.
ServeAsk(c, r) ==
  /\ Asked(c, "ask")
  /\ status[r] = "unused" /\ r = CHOOSE q \in Requests : status[q] = "unused"
  /\ status' = [status EXCEPT ![r] = "pending"]
  /\ Answers(c, r)
  /\ UNCHANGED <<cred, revoked, live, page, store, bounds, history>>

\* poll_pair.
ServePoll(c) ==
  /\ Asked(c, "poll")
  /\ Answers(c, CASE status[c.with] = "approved" -> c.with
                  [] status[c.with] \in {"unused", "expired"} -> "refused"
                  [] OTHER -> status[c.with])
  /\ UNCHANGED <<server, page, store, bounds, history>>

\* The SELECT and the checks of resume, and its INSERT.
ServeResume(c) ==
  /\ Asked(c, "resume")
  /\ IF ~revoked /\ c.with = cred
       THEN calls' = (calls \ {c}) \cup {Answered(c, "minting")}
       ELSE Answers(c, "refused")
  /\ UNCHANGED <<server, page, store, bounds, history>>

\* A token nobody holds or remembers: drawn anew each time.
Unheld(t) ==
  /\ t \notin live /\ store.token # t
  /\ \A p \in Pages : page[p].token # t
  /\ \A c \in calls : c.with # t /\ c.answer # t

Mint(c) ==
  /\ c \in calls /\ c.answer = "minting"
  /\ \E t \in FreshTokens : Unheld(t)
  /\ LET t == CHOOSE u \in FreshTokens : Unheld(u) IN
       live' = live \cup {t} /\ Answers(c, t)
  /\ UNCHANGED <<status, cred, revoked, page, store, bounds, history>>

\* What authenticate accepts.
IgnoresDevice(t) == t \in live
Accepted(t) == t \in live /\ ~revoked

\* /api/state, which may fail after it has authenticated.
ServeState(c) ==
  /\ \E kind \in {"boot", "enter", "state"} : Asked(c, kind)
  /\ Answers(c, IF Accepted(c.with) THEN "ok" ELSE "refused")
  /\ UNCHANGED <<server, page, store, bounds, history>>

StateFails(c) ==
  /\ \E kind \in {"boot", "enter", "state"} : Asked(c, kind)
  /\ Accepted(c.with)
  /\ Mishap
  /\ Answers(c, "failed")
  /\ upset' = Pages
  /\ UNCHANGED <<server, page, store, collected, rivals, overtook>>

\* /api/vision/select: a marker that is unknown, used or expired is answered 401 although
\* the session is accepted; otherwise it may fail, or be lost.
ServeSelect(c) ==
  /\ Asked(c, "select")
  /\ \E answer \in {"failed"} \cup (IF Accepted(c.with) THEN {"ok", "spent"} ELSE {"refused"}) :
       Answers(c, answer)
  /\ UNCHANGED <<server, page, store, bounds, history>>

\* A call gets lost on its way or its answer does; of a resume under way the
\* server does not notice.
Lose(c) ==
  /\ c \in calls /\ c.page # None /\ c.answer # "failed"
  /\ c.kind # "select"
  /\ Mishap
  /\ calls' = (calls \ {c}) \cup {Answered(c, "failed")}
                \cup (IF c.answer = "minting" THEN {[c EXCEPT !.page = None]} ELSE {})
  /\ upset' = Pages
  /\ UNCHANGED <<server, page, store, collected, rivals, overtook>>

-----------------------------------------------------------------------------
(***************************************************************************)
(* bootstrap.                                                              *)
(***************************************************************************)
GivesUp(p, known) == {}
\* What bootstrap calls when it has no session (any more): known is what the page
\* keeps.
Resume(p, known) == IF known.cred # None THEN {New(p, "resume", known.cred)} ELSE {}

ShownAfter(next, before) == IF next = {} THEN "unpaired" ELSE before

StartsWith(scanned) == IF scanned THEN "pairing" ELSE "blank"

\* The calls of a page that is gone are answered nevertheless.
Orphans(p) ==
  {[c EXCEPT !.page = None] : c \in {d \in calls : d.page = p /\ d.answer \in {"none", "minting"}
                                                  /\ d.kind \in {"ask", "resume"}}}

Load(p, scanned) ==
  /\ loads < MaxLoads /\ loads' = loads + 1
  /\ LET next == IF scanned THEN {New(p, "ask", None)}
                 ELSE IF store.token # None THEN {New(p, "boot", store.token)}
                 ELSE Resume(p, store)
     IN /\ page' = [page EXCEPT ![p] = [token |-> store.token, cred |-> store.cred, polls |-> {},
                                        waits |-> None,
                                        shown |-> ShownAfter(next, StartsWith(scanned))]]
        /\ calls' = {c \in calls : c.page # p} \cup Orphans(p) \cup next
  /\ upset' = IF revoked \/ store.cred # cred \/ cred = None
                THEN upset \cup {p} ELSE upset \ {p}
  /\ UNCHANGED <<server, store, mishaps, taps, collected, rivals, overtook>>

-----------------------------------------------------------------------------
(***************************************************************************)
(* Timers, which do not wait for the answer of the last time, and the user.*)
(***************************************************************************)
Alike(p, kind, with) == {c \in calls : c.page = p /\ c.kind = kind /\ c.with = with}

Sends(p, kind, with, bound) ==
  LET free == 0..bound - 1 \ {c.nth : c \in Alike(p, kind, with)} IN
    /\ free # {}
    /\ calls' = calls \cup {Nth(p, kind, with, CHOOSE n \in free : TRUE)}

SendPoll(p, r) ==
  /\ r \in page[p].polls
  /\ Sends(p, "poll", r, MaxPolls[p])
  /\ UNCHANGED <<server, page, store, bounds, history>>

Refreshes(p) == page[p].token # None

SendState(p) ==
  /\ Refreshes(p)
  /\ Sends(p, "state", page[p].token, MaxRefreshes)
  /\ UNCHANGED <<server, page, store, bounds, history>>

\* A marker is scanned, also by the link it is, or any other control is used.
Tap(p, kind) ==
  /\ page[p].shown = "in" /\ p \in Tapped
  /\ taps < MaxTaps /\ taps' = taps + 1
  /\ calls' = calls \cup {New(p, kind, page[p].token)}
  /\ UNCHANGED <<server, page, store, loads, mishaps, history>>

-----------------------------------------------------------------------------
(***************************************************************************)
(* Answers arrive.                                                         *)
(***************************************************************************)
Arrived(c, kinds) == c \in calls /\ c.page # None /\ c.kind \in kinds
                       /\ c.answer \notin {"none", "minting"}

\* api: a 401 ends the session the page has now, whichever it was sent for.
AnyFailure(c) == c.answer \in {"refused", "spent", "failed"}
Unauthorized(c) == c.answer \in {"refused", "spent"}

AfterAnswer(c, known) == IF Unauthorized(c) THEN [known EXCEPT !.token = None] ELSE known

\* The request for access is answered, and the page polls, or shows the error.
AskDone(c) ==
  /\ Arrived(c, {"ask"})
  /\ page' = [page EXCEPT ![c.page].polls = {c.answer} \cap Requests,
                          ![c.page].waits = IF c.answer \in Requests THEN c.answer ELSE None]
  /\ calls' = calls \ {c}
  /\ UNCHANGED <<server, store, bounds, history>>

\* saveSession; the answer to a poll has everything, that to resume only a token.
SavesSessionOnly(known, r) == [known EXCEPT !.token = r]
Saved(known, r) == [known EXCEPT !.token = r, !.cred = r]

StopsOnError(c) == c.answer \notin Requests \cup {"pending"}
StopsPolling(c) == c.answer = "denied"

\* clearInterval, and show.
Unpolled(known, r) == [known EXCEPT !.polls = @ \ {r}]
Showing(known, shown) == [known EXCEPT !.shown = shown]

\* What a page knows once it got the answer to a poll.
Told(c, known) ==
  IF c.answer \in Requests \cup {"denied"} THEN [known EXCEPT !.waits = None] ELSE known

\* A poll that is approved saves session and credential and refreshes.
PollDone(c) ==
  /\ Arrived(c, {"poll"})
  /\ IF c.answer \in Requests
       THEN /\ page' = [page EXCEPT ![c.page] = Told(c, Unpolled(Saved(@, c.answer), c.answer))]
            /\ store' = Saved(store, c.answer)
            /\ collected' = collected \cup {c.answer}
            /\ calls' = (calls \ {c}) \cup {New(c.page, "state", c.answer)}
       ELSE /\ page' = [page EXCEPT ![c.page] =
                          Told(c, IF StopsPolling(c) THEN Unpolled(@, c.with) ELSE @)]
            /\ calls' = calls \ {c}
            /\ UNCHANGED <<store, collected>>
  /\ UNCHANGED <<server, bounds, rivals, overtook, upset>>

\* The first call of bootstrap: without a session it goes on to resume.
BootDone(c) ==
  /\ Arrived(c, {"boot"})
  /\ store' = AfterAnswer(c, store)
  /\ LET next == IF c.answer = "ok" THEN {} ELSE Resume(c.page, page[c.page]) IN
       /\ page' = [page EXCEPT ![c.page] =
                     Showing(AfterAnswer(c, @),
                             IF c.answer = "ok" THEN "in" ELSE ShownAfter(next, @.shown))]
       /\ calls' = (calls \ {c}) \cup next
  /\ UNCHANGED <<server, bounds, history>>

\* The second: the new session is saved, and used.
ResumeDone(c) ==
  /\ Arrived(c, {"resume"})
  /\ IF c.answer \in Tokens
       THEN /\ page' = [page EXCEPT ![c.page].token = c.answer]
            /\ store' = [store EXCEPT !.token = c.answer]
            /\ calls' = (calls \ {c}) \cup {New(c.page, "enter", c.answer)}
       ELSE /\ page' = [page EXCEPT ![c.page] = Showing(AfterAnswer(c, @), "unpaired")]
            /\ store' = AfterAnswer(c, store)
            /\ calls' = calls \ {c}
  /\ UNCHANGED <<server, bounds, history>>

\* The third, and every other refresh, which shows nothing when it fails.
StateDone(c) ==
  /\ Arrived(c, {"enter", "state"})
  /\ page' = [page EXCEPT ![c.page] =
                Showing(AfterAnswer(c, @), IF c.answer = "ok" THEN "in"
                                           ELSE IF c.kind = "enter" THEN "unpaired"
                                           ELSE @.shown)]
  /\ store' = AfterAnswer(c, store)
  /\ calls' = calls \ {c}
  /\ UNCHANGED <<server, bounds, history>>

\* A marker that is good is followed by the end of Vision and a refresh.
SelectDone(c) ==
  /\ Arrived(c, {"select"})
  /\ page' = [page EXCEPT ![c.page] = AfterAnswer(c, @)]
  /\ store' = AfterAnswer(c, store)
  /\ calls' = (calls \ {c}) \cup (IF c.answer = "ok"
                                   THEN {New(c.page, "state", page[c.page].token)} ELSE {})
  /\ UNCHANGED <<server, bounds, history>>

-----------------------------------------------------------------------------
Serve ==
  \E c \in calls :
    \/ \E r \in Requests : ServeAsk(c, r)
    \/ ServePoll(c) \/ ServeResume(c) \/ Mint(c) \/ ServeState(c) \/ ServeSelect(c)

Arrive ==
  \E c \in calls :
    AskDone(c) \/ PollDone(c) \/ BootDone(c) \/ ResumeDone(c) \/ StateDone(c) \/ SelectDone(c)

Next ==
  \/ \E r \in Requests : Approve(r) \/ Deny(r) \/ RequestExpires(r)
  \/ \E forGood \in BOOLEAN : PutOut(forGood)
  \/ \E t \in Tokens : SessionExpires(t)
  \/ Serve \/ Arrive
  \/ \E c \in calls : StateFails(c) \/ Lose(c)
  \/ \E p \in Pages : \/ \E scanned \in BOOLEAN : Load(p, scanned)
                      \/ \E r \in Requests : SendPoll(p, r)
                      \/ SendState(p)
                      \/ \E kind \in {"select", "state"} : Tap(p, kind)

Spec == Init /\ [][Next]_vars

Of(p, kind) == {c \in calls : c.page = p /\ c.kind = kind}
PollStep(p) ==
  \/ \E r \in Requests : SendPoll(p, r)
  \/ \E c \in Of(p, "poll") : ServePoll(c) \/ PollDone(c)
StateStep(p) ==
  \/ SendState(p)
  \/ \E c \in Of(p, "state") : ServeState(c) \/ StateDone(c)

(***************************************************************************)
(* Fairness: the timers of a page that is open go off, and what they send  *)
(* is answered unless it is lost.  A page that is closed is one that is    *)
(* open and whose calls are lost.                                          *)
(***************************************************************************)
FairSpec == Spec /\ \A p \in Pages : WF_vars(PollStep(p)) /\ WF_vars(StateStep(p))

-----------------------------------------------------------------------------
\* The credential the phone stores is the one the desktop has (core.py 189-216,
\* app.js 30 and 36), once it has collected that, unless a request was approved while the
\* phone could still save another: then the one that is answered last stays, and a poll
\* that is late may bring back the older one.
CredentialIsCurrent == cred \in collected /\ ~rivals => store.cred = cred

\* A device that was revoked has no session that would make it "connected", nor one
\* that lives again with a later approval, unless a resume was under way
\* (core.py 257-269 against 341-348; devices, 312-316, calls it connected then).
RevokedIsNotConnected == revoked /\ live # {} => overtook

\* A phone that has the credential of a trusted device when a page starts is not
\* told to scan again (app.js 22-28), whatever became of its session.
TrustedPhoneGetsIn == \A p \in Pages : page[p].shown = "unpaired" => p \in upset

\* A session the desktop accepts is dropped by a page only for an answer to what was
\* sent for another session or for the credential (app.js 16), or about a marker that is
\* not valid, which is a 401 as well (core.py 658-663), unless its session survived a
\* revocation.
DropsForOthersOnly ==
  [][\A p \in Pages :
       Accepted(page[p].token) /\ page'[p].token = None /\ loads' = loads /\ ~overtook
         => \E c \in calls \ calls' :
              c.page = p /\ (c.kind = "resume" \/ c.with # page[p].token \/ c.answer = "spent")]_vars

\* No page waits for ever for a decision that was made in its favour, whatever polls fail
\* (app.js 36): the credential is collected, or the request expires, or the page is loaded
\* anew.
ApprovalIsCollected ==
  \A p \in Pages :
    []<>~(LET r == page[p].waits IN r # None /\ status[r] = "approved" /\ r \notin collected)

\* A page that asks to scan again although it has a session, for a call that failed
\* after resume, shows the desktop after all (app.js 27 and 94), or the session ends.
UnpairedPageRecovers ==
  \A p \in Pages : []<>~(page[p].shown = "unpaired" /\ Accepted(page[p].token))

\* Whatever calls fail, the timers of a page bring it where it should be.
PagesCatchUp == ApprovalIsCollected /\ UnpairedPageRecovers

-----------------------------------------------------------------------------
(***************************************************************************)
(* PortalPhone keeps less of the server than PortalAuth does, and must     *)
(* still be the same server: it implements the same promise.               *)
(***************************************************************************)
ThePhone == "phone"
PhoneIf(condition) == IF condition THEN {ThePhone} ELSE {}

Fresh == {r \in Requests : status[r] = "unused"}
Open == {<<r, ThePhone>> : r \in {q \in Requests : status[q] = "pending"}}
Trusted == PhoneIf(cred # None /\ ~revoked)
Access == PhoneIf(\E t \in Tokens : Accepted(t))

Abstract == INSTANCE AccessControl WITH
              Phones <- {ThePhone}, fresh <- Fresh, open <- Open,
              trusted <- Trusted, access <- Access

\* The phone uses the desktop only between a decision of the operator and the
\* next revocation (core.py 165-348), also with resumes under way.
ImplementsAccessControl == Abstract!Spec
=============================================================================
