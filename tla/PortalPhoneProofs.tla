------------------------- MODULE PortalPhoneProofs -------------------------
(***************************************************************************)
(* Theorems about PortalPhone, for any number of pages, requests, tokens,  *)
(* page loads and mishaps.                                                 *)
(***************************************************************************)
EXTENDS PortalPhone, TLAPS

-----------------------------------------------------------------------------
(***************************************************************************)
(* Type correctness.                                                       *)
(***************************************************************************)
\* A call that is sent, or answered, or whose page is gone, is a call.
LEMMA CallTypes ==
  /\ \A p \in Pages : New(p, "ask", None) \in Call
  /\ \A p \in Pages, r \in Requests, n \in Nat : Nth(p, "poll", r, n) \in Call
  /\ \A p \in Pages, r \in Requests : New(p, "resume", r) \in Call
  /\ \A p \in Pages, t \in Tokens, kind \in {"boot", "enter"} : New(p, kind, t) \in Call
  /\ \A p \in Pages, t \in Tokens \cup {None}, kind \in {"state", "select"}, n \in Nat :
       Nth(p, kind, t, n) \in Call /\ New(p, kind, t) \in Call
  /\ \A c \in Call, answer \in Words \cup Tokens : Answered(c, answer) \in Call
  /\ \A c \in Call : [c EXCEPT !.page = None] \in Call
<1>1. \A c \in Call, answer \in Words \cup Tokens : Answered(c, answer) \in Call
  BY DEF Answered, Call, CallOf
<1>2. \A c \in Call : [c EXCEPT !.page = None] \in Call
  BY DEF Call, CallOf
<1>3. \A p \in Pages, t \in Tokens \cup {None}, kind \in {"state", "select"}, n \in Nat :
       Nth(p, kind, t, n) \in Call
  BY DEF Nth, Call, CallOf, Words
<1>4. QED
  BY <1>1, <1>2, <1>3 DEF New, Nth, Call, CallOf, Words

\* A timer sends one call.
LEMMA SendsOne ==
  ASSUME NEW p, NEW kind, NEW with, NEW bound \in Nat, Sends(p, kind, with, bound)
  PROVE  \E n \in Nat : calls' = calls \cup {Nth(p, kind, with, n)}
BY DEF Sends

\* The fields of a call.
LEMMA CallFields ==
  ASSUME NEW c \in Call
  PROVE  /\ c.page \in Pages \cup {None}
         /\ c.answer \in Words \cup Tokens
         /\ c.kind \in {"poll", "resume"} => c.with \in Requests
         /\ c.kind \in {"boot", "enter"} => c.with \in Tokens
         /\ c.kind \in {"state", "select"} => c.with \in Tokens \cup {None}
BY DEF Call, CallOf

\* Answering a call, or forgetting its page, leaves its other fields.
LEMMA CallParts ==
  /\ \A c \in Call : \A answer :
       /\ Answered(c, answer).answer = answer /\ Answered(c, answer).page = c.page
       /\ Answered(c, answer).kind = c.kind /\ Answered(c, answer).with = c.with
  /\ \A c \in Call :
       /\ [c EXCEPT !.page = None].page = None /\ [c EXCEPT !.page = None].answer = c.answer
       /\ [c EXCEPT !.page = None].kind = c.kind /\ [c EXCEPT !.page = None].with = c.with
BY DEF Answered, Call, CallOf

\* The server's answer leaves a set of calls.
LEMMA AnswersType ==
  ASSUME TypeOK, NEW c \in calls, NEW answer \in Words \cup Tokens, Answers(c, answer)
  PROVE  calls' \subseteq Call
BY CallTypes DEF TypeOK, Answers

\* What a page keeps, and what localStorage does, after an answer (app.js 9-18 and 30).
LEMMA KeptTypes ==
  /\ \A c \in Call, kept \in Page : AfterAnswer(c, kept) \in Page
  /\ \A c \in Call, kept \in Store : AfterAnswer(c, kept) \in Store
  /\ \A kept \in Page, r \in Requests : Saved(kept, r) \in Page
  /\ \A kept \in Store, r \in Requests : Saved(kept, r) \in Store
  /\ \A kept \in Page : \A r : Unpolled(kept, r) \in Page
  /\ \A kept \in Page, shown \in {"blank", "pairing", "in", "unpaired"} :
       Showing(kept, shown) \in Page
  /\ \A c : \A kept \in Page : Told(c, kept) \in Page
<1>1. \A kept \in Page : \A r : Unpolled(kept, r) \in Page
  BY DEF Unpolled, Page
<1>2. \A kept \in Page, shown \in {"blank", "pairing", "in", "unpaired"} :
        Showing(kept, shown) \in Page
  BY DEF Showing, Page
<1>3. /\ \A c \in Call, kept \in Page : AfterAnswer(c, kept) \in Page
      /\ \A c \in Call, kept \in Store : AfterAnswer(c, kept) \in Store
  BY DEF AfterAnswer, Page, Store
<1>4. /\ \A kept \in Page, r \in Requests : Saved(kept, r) \in Page
      /\ \A kept \in Store, r \in Requests : Saved(kept, r) \in Store
  BY DEF Saved, Page, Store, Tokens
<1>5. \A c : \A kept \in Page : Told(c, kept) \in Page
  BY DEF Told, Page
<1>6. QED
  BY <1>1, <1>2, <1>3, <1>4, <1>5

\* Going on to resume is a call, or none.
LEMMA ResumeType ==
  ASSUME NEW p \in Pages, NEW known, known.cred \in Requests \cup {None}
  PROVE  Resume(p, known) \subseteq Call
BY CallTypes DEF Resume, Tokens

\* The system starts well typed.
LEMMA TypeInit == Init => TypeOK
<1> SUFFICES ASSUME Init PROVE TypeOK
  OBVIOUS
<1>1. page \in [Pages -> Page] /\ store \in Store
  BY DEF Init, Page, Store
<1>2. loads \in 0..MaxLoads /\ mishaps \in 0..MaxMishaps /\ taps \in 0..MaxTaps
  BY PhoneAssumption DEF Init
<1>3. QED
  BY <1>1, <1>2 DEF Init, TypeOK

\* Every step of the server, the pages and the operator keeps the types.
LEMMA TypeStep == TypeOK /\ [Next]_vars => TypeOK'
<1> SUFFICES ASSUME TypeOK, [Next]_vars PROVE TypeOK'
  OBVIOUS
<1> USE PhoneAssumption DEF server, phone, bounds, history
<1>1. ASSUME NEW r \in Requests, Approve(r) \/ Deny(r) \/ RequestExpires(r) PROVE TypeOK'
  <2>1. CASE Approve(r) BY <2>1 DEF Approve, TypeOK, Tokens
  <2>2. CASE Deny(r) BY <2>2 DEF Deny, TypeOK
  <2>3. CASE RequestExpires(r) BY <2>3 DEF RequestExpires, Mishap, TypeOK
  <2>4. QED
    BY <1>1, <2>1, <2>2, <2>3
<1>2. ASSUME NEW forGood \in BOOLEAN, PutOut(forGood) PROVE TypeOK'
  BY <1>2 DEF PutOut, NoSessions, Mishap, TypeOK
<1>3. ASSUME NEW t \in Tokens, SessionExpires(t) PROVE TypeOK'
  BY <1>3 DEF SessionExpires, Mishap, TypeOK
<1>4. ASSUME NEW c \in calls, NEW r \in Requests, ServeAsk(c, r) PROVE TypeOK'
  <2>1. calls' \subseteq Call
    BY <1>4, AnswersType DEF ServeAsk, Tokens
  <2>2. QED
    BY <1>4, <2>1 DEF ServeAsk, TypeOK
<1>5. ASSUME NEW c \in calls, ServePoll(c) PROVE TypeOK'
  <2> DEFINE answer == CASE status[c.with] = "approved" -> c.with
                         [] status[c.with] \in {"unused", "expired"} -> "refused"
                         [] OTHER -> status[c.with]
  <2>1. c.with \in Requests
    BY <1>5, CallFields DEF ServePoll, Asked, TypeOK
  <2>2. answer \in Words \cup Tokens
    BY <2>1 DEF TypeOK, Words, Tokens
  <2>3. Answers(c, answer)
    BY <1>5 DEF ServePoll
  <2>4. calls' \subseteq Call
    BY <2>2, <2>3, AnswersType
  <2>5. QED
    BY <1>5, <2>4 DEF ServePoll, TypeOK
<1>6. ASSUME NEW c \in calls, ServeResume(c) PROVE TypeOK'
  <2>1. calls' \subseteq Call
    <3>1. CASE ~revoked /\ c.with = cred
      BY <1>6, <3>1, CallTypes DEF ServeResume, TypeOK, Words
    <3>2. CASE ~(~revoked /\ c.with = cred)
      BY <1>6, <3>2, AnswersType DEF ServeResume, Words
    <3>3. QED
      BY <3>1, <3>2
  <2>2. QED
    BY <1>6, <2>1 DEF ServeResume, TypeOK
<1>7. ASSUME NEW c \in calls, Mint(c) PROVE TypeOK'
  <2>1. PICK t \in FreshTokens : live' = live \cup {t} /\ Answers(c, t)
    BY <1>7 DEF Mint
  <2>2. calls' \subseteq Call
    BY <2>1, AnswersType DEF Tokens
  <2>3. QED
    BY <1>7, <2>1, <2>2 DEF Mint, TypeOK, Tokens
<1>8. ASSUME NEW c \in calls, ServeState(c) PROVE TypeOK'
  <2>1. calls' \subseteq Call
    BY <1>8, AnswersType DEF ServeState, Words
  <2>2. QED
    BY <1>8, <2>1 DEF ServeState, TypeOK
<1>9. ASSUME NEW c \in calls, StateFails(c) PROVE TypeOK'
  <2>1. calls' \subseteq Call
    BY <1>9, AnswersType DEF StateFails, Words
  <2>2. QED
    BY <1>9, <2>1 DEF StateFails, Mishap, TypeOK
<1>10. ASSUME NEW c \in calls, Lose(c) PROVE TypeOK'
  <2>1. calls' \subseteq Call
    BY <1>10, CallTypes DEF Lose, TypeOK, Words
  <2>2. QED
    BY <1>10, <2>1 DEF Lose, Mishap, TypeOK
<1>11. ASSUME NEW p \in Pages, NEW scanned \in BOOLEAN, Load(p, scanned) PROVE TypeOK'
  <2> DEFINE next == IF scanned THEN {New(p, "ask", None)}
                     ELSE IF store.token # None THEN {New(p, "boot", store.token)}
                     ELSE Resume(p, store)
             start == [token |-> store.token, cred |-> store.cred, polls |-> {}, waits |-> None,
                       shown |-> ShownAfter(next, StartsWith(scanned))]
  <2>1. store.token \in Tokens \cup {None} /\ store.cred \in Requests \cup {None}
    BY DEF TypeOK, Store
  <2>2. next \subseteq Call
    BY <2>1, CallTypes, ResumeType
  <2>3. start \in Page
    BY <2>1 DEF Page, ShownAfter, StartsWith
  <2>4. Orphans(p) \subseteq Call
    BY CallTypes DEF Orphans, TypeOK
  <2>5. /\ page' = [page EXCEPT ![p] = start]
        /\ calls' = {c \in calls : c.page # p} \cup Orphans(p) \cup next
    BY <1>11 DEF Load
  <2>6. page' \in [Pages -> Page] /\ calls' \subseteq Call
    BY <2>2, <2>3, <2>4, <2>5 DEF TypeOK
  <2>7. loads' \in 0..MaxLoads /\ upset' \subseteq Pages
    BY <1>11 DEF Load, TypeOK
  <2>8. QED
    BY <1>11, <2>6, <2>7 DEF Load, TypeOK
<1>12. ASSUME NEW p \in Pages, NEW r \in Requests, SendPoll(p, r) PROVE TypeOK'
  <2>1. PICK n \in Nat : calls' = calls \cup {Nth(p, "poll", r, n)}
    BY <1>12, SendsOne DEF SendPoll
  <2>2. QED
    BY <1>12, <2>1, CallTypes DEF SendPoll, TypeOK
<1>13. ASSUME NEW p \in Pages, SendState(p) PROVE TypeOK'
  <2>1. page[p].token \in Tokens
    BY <1>13 DEF SendState, Refreshes, TypeOK, Page
  <2>2. PICK n \in Nat : calls' = calls \cup {Nth(p, "state", page[p].token, n)}
    BY <1>13, SendsOne DEF SendState
  <2>3. QED
    BY <1>13, <2>1, <2>2, CallTypes DEF SendState, TypeOK
<1>22. ASSUME NEW p \in Pages, NEW kind \in {"select", "state"}, Tap(p, kind) PROVE TypeOK'
  <2>1. page[p].token \in Tokens \cup {None}
    BY DEF TypeOK, Page
  <2>2. New(p, kind, page[p].token) \in Call
    BY <2>1, CallTypes
  <2>3. QED
    BY <1>22, <2>2 DEF Tap, TypeOK
<1>23. ASSUME NEW c \in calls, ServeSelect(c) PROVE TypeOK'
  <2>1. PICK answer \in {"ok", "spent", "failed", "refused"} : Answers(c, answer)
    BY <1>23 DEF ServeSelect
  <2>2. calls' \subseteq Call
    BY <2>1, AnswersType DEF Words
  <2>3. QED
    BY <1>23, <2>2 DEF ServeSelect, TypeOK
<1>24. ASSUME NEW c \in calls, SelectDone(c) PROVE TypeOK'
  <2>1. c.page \in Pages /\ c \in Call /\ page[c.page] \in Page /\ store \in Store
    BY <1>24, CallFields DEF SelectDone, Arrived, TypeOK
  <2>2. AfterAnswer(c, page[c.page]) \in Page /\ AfterAnswer(c, store) \in Store
    BY <2>1, KeptTypes
  <2>3. New(c.page, "state", page[c.page].token) \in Call
    BY <2>1, CallTypes DEF Page
  <2>4. QED
    BY <1>24, <2>1, <2>2, <2>3 DEF SelectDone, TypeOK
<1>14. ASSUME NEW c \in calls, AskDone(c) PROVE TypeOK'
  <2>1. c.page \in Pages
    BY <1>14, CallFields DEF AskDone, Arrived, TypeOK
  <2> DEFINE polls == {c.answer} \cap Requests
             waits == IF c.answer \in Requests THEN c.answer ELSE None
  <2>2. page[c.page] \in Page /\ polls \in SUBSET Requests /\ waits \in Requests \cup {None}
    BY <2>1 DEF TypeOK
  <2>3. page' = [page EXCEPT ![c.page].polls = polls, ![c.page].waits = waits]
    BY <1>14 DEF AskDone
  <2> HIDE DEF polls, waits
  <2>4. page' \in [Pages -> Page]
    BY <2>1, <2>2, <2>3 DEF TypeOK, Page
  <2>5. QED
    BY <1>14, <2>4 DEF AskDone, TypeOK
<1>15. ASSUME NEW c \in calls, PollDone(c) PROVE TypeOK'
  <2>1. c.page \in Pages /\ c \in Call
    BY <1>15, CallFields DEF PollDone, Arrived, TypeOK
  <2>2. CASE c.answer \in Requests
    <3>1. Told(c, Unpolled(Saved(page[c.page], c.answer), c.answer)) \in Page
      BY <2>1, <2>2, KeptTypes DEF TypeOK
    <3>2. Saved(store, c.answer) \in Store
      BY <2>2, KeptTypes DEF TypeOK
    <3>3. New(c.page, "state", c.answer) \in Call
      <4>1. c.answer \in Tokens \cup {None}
        BY <2>2 DEF Tokens
      <4>2. QED
        BY <2>1, <4>1, CallTypes
    <3>4. QED
      BY <1>15, <2>1, <2>2, <3>1, <3>2, <3>3 DEF PollDone, TypeOK
  <2>3. CASE c.answer \notin Requests
    <3>1. Told(c, IF StopsPolling(c) THEN Unpolled(page[c.page], c.with)
                   ELSE page[c.page]) \in Page
      BY <2>1, KeptTypes DEF TypeOK
    <3>2. QED
      BY <1>15, <2>1, <2>3, <3>1 DEF PollDone, TypeOK
  <2>4. QED
    BY <2>2, <2>3
<1>16. ASSUME NEW c \in calls, BootDone(c) PROVE TypeOK'
  <2> DEFINE next == IF c.answer = "ok" THEN {} ELSE Resume(c.page, page[c.page])
             shown == IF c.answer = "ok" THEN "in" ELSE ShownAfter(next, page[c.page].shown)
             kept == Showing(AfterAnswer(c, page[c.page]), shown)
  <2>1. c.page \in Pages /\ c \in Call
    BY <1>16, CallFields DEF BootDone, Arrived, TypeOK
  <2>2. page[c.page] \in Page /\ page[c.page].cred \in Requests \cup {None}
    BY <2>1 DEF TypeOK, Page
  <2>3. next \subseteq Call
    BY <2>1, <2>2, ResumeType
  <2>4. kept \in Page
    <3>1. AfterAnswer(c, page[c.page]) \in Page
      BY <2>1, <2>2, KeptTypes
    <3>2. shown \in {"blank", "pairing", "in", "unpaired"}
      BY <2>2 DEF Page, ShownAfter
    <3>3. QED
      BY <3>1, <3>2, KeptTypes
  <2>5. AfterAnswer(c, store) \in Store
    BY <2>1, KeptTypes DEF TypeOK
  <2>6. /\ page' = [page EXCEPT ![c.page] = kept]
        /\ calls' = (calls \ {c}) \cup next /\ store' = AfterAnswer(c, store)
    BY <1>16 DEF BootDone
  <2>7. QED
    BY <1>16, <2>1, <2>3, <2>4, <2>5, <2>6 DEF BootDone, TypeOK
<1>17. ASSUME NEW c \in calls, ResumeDone(c) PROVE TypeOK'
  <2>1. c.page \in Pages /\ c \in Call /\ page[c.page] \in Page /\ store \in Store
    BY <1>17, CallFields DEF ResumeDone, Arrived, TypeOK
  <2>2. CASE c.answer \in Tokens
    <3>1. [page[c.page] EXCEPT !.token = c.answer] \in Page
      BY <2>1, <2>2 DEF Page
    <3>2. [store EXCEPT !.token = c.answer] \in Store
      BY <2>1, <2>2 DEF Store
    <3>3. New(c.page, "enter", c.answer) \in Call
      BY <2>1, <2>2, CallTypes
    <3>4. QED
      BY <1>17, <2>1, <2>2, <3>1, <3>2, <3>3 DEF ResumeDone, TypeOK
  <2>3. CASE c.answer \notin Tokens
    <3>1. AfterAnswer(c, page[c.page]) \in Page /\ AfterAnswer(c, store) \in Store
      BY <2>1, KeptTypes
    <3>2. Showing(AfterAnswer(c, page[c.page]), "unpaired") \in Page
      BY <3>1, KeptTypes
    <3>3. QED
      BY <1>17, <2>1, <2>3, <3>1, <3>2 DEF ResumeDone, TypeOK
  <2>4. QED
    BY <2>2, <2>3
<1>18. ASSUME NEW c \in calls, StateDone(c) PROVE TypeOK'
  <2>1. c.page \in Pages /\ c \in Call /\ page[c.page] \in Page /\ store \in Store
    BY <1>18, CallFields DEF StateDone, Arrived, TypeOK
  <2>2. AfterAnswer(c, page[c.page]) \in Page /\ AfterAnswer(c, store) \in Store
    BY <2>1, KeptTypes
  <2>3. Showing(AfterAnswer(c, page[c.page]), IF c.answer = "ok" THEN "in"
                                              ELSE IF c.kind = "enter" THEN "unpaired"
                                              ELSE page[c.page].shown) \in Page
    BY <2>1, <2>2, KeptTypes DEF Page
  <2>4. QED
    BY <1>18, <2>1, <2>2, <2>3 DEF StateDone, TypeOK
<1>19. CASE UNCHANGED vars BY <1>19 DEF vars, TypeOK
<1>20. QED
  BY <1>1, <1>2, <1>3, <1>4, <1>5, <1>6, <1>7, <1>8, <1>9, <1>10, <1>11, <1>12, <1>13,
     <1>14, <1>15, <1>16, <1>17, <1>18, <1>19, <1>22, <1>23, <1>24 DEF Next, Serve, Arrive

\* Every reachable state of the server and the phone is well typed.
THEOREM TypeCorrect == Spec => []TypeOK
BY TypeInit, TypeStep, PTL DEF Spec

-----------------------------------------------------------------------------
(***************************************************************************)
(* A revoked device has sessions only from a resume that was overtaken.    *)
(***************************************************************************)
Minting == {c \in calls : c.answer = "minting"}

\* The server looked at the device before a resume under way, so that it was let in
\* once; while it is revoked, a resume under way has been overtaken.
ResumeInv ==
  /\ Minting # {} => cred # None
  /\ revoked /\ (live # {} \/ Minting # {}) => overtook

\* Steps that bring no resume under way.
LEMMA AnswersMintNothing ==
  ASSUME TypeOK, NEW c \in calls, NEW answer, answer # "minting", Answers(c, answer)
  PROVE  Minting' \subseteq Minting
BY CallParts DEF TypeOK, Answers, Minting

\* Nothing is under way at the start.
LEMMA ResumeInit == Init => ResumeInv
BY DEF Init, ResumeInv, Minting

\* Every step keeps ResumeInv.
LEMMA ResumeStep == TypeOK /\ ResumeInv /\ [Next]_vars => ResumeInv'
<1> SUFFICES ASSUME TypeOK, ResumeInv, [Next]_vars PROVE ResumeInv'
  OBVIOUS
<1> USE DEF server, phone, bounds, history
<1>1. ASSUME UNCHANGED <<server, overtook>>, Minting' \subseteq Minting PROVE ResumeInv'
  BY <1>1 DEF ResumeInv
<1>2. ASSUME NEW r \in Requests, Approve(r) \/ Deny(r) \/ RequestExpires(r) PROVE ResumeInv'
  <2>1. r # None
    BY PhoneAssumption DEF Tokens
  <2>2. QED
    BY <1>2, <2>1 DEF Approve, Deny, RequestExpires, ResumeInv, Minting
<1>3. ASSUME NEW forGood \in BOOLEAN, PutOut(forGood) PROVE ResumeInv'
  BY <1>3 DEF PutOut, NoSessions, ResumeInv, Minting
<1>4. ASSUME NEW t \in Tokens, SessionExpires(t) PROVE ResumeInv'
  BY <1>4 DEF SessionExpires, ResumeInv, Minting
<1>5. ASSUME NEW c \in calls, NEW r \in Requests, ServeAsk(c, r) PROVE ResumeInv'
  <2>1. r # "minting"
    BY PhoneAssumption DEF Tokens, Words
  <2>2. Minting' \subseteq Minting
    BY <1>5, <2>1, AnswersMintNothing DEF ServeAsk
  <2>3. QED
    BY <1>5, <2>2 DEF ServeAsk, ResumeInv
<1>6. ASSUME NEW c \in calls, ServePoll(c) PROVE ResumeInv'
  <2> DEFINE answer == CASE status[c.with] = "approved" -> c.with
                         [] status[c.with] \in {"unused", "expired"} -> "refused"
                         [] OTHER -> status[c.with]
  <2>1. c.with \in Requests /\ c.with # "minting"
    BY <1>6, CallFields, PhoneAssumption DEF ServePoll, Asked, TypeOK, Tokens, Words
  <2>2. answer # "minting"
    BY <2>1 DEF TypeOK
  <2>3. Answers(c, answer)
    BY <1>6 DEF ServePoll
  <2>4. Minting' \subseteq Minting
    BY <2>2, <2>3, AnswersMintNothing
  <2>5. QED
    BY <1>1, <1>6, <2>4 DEF ServePoll
<1>7. ASSUME NEW c \in calls, ServeResume(c) PROVE ResumeInv'
  <2>1. CASE ~revoked /\ c.with = cred
    <3>1. cred # None
      BY <1>7, <2>1, CallFields, PhoneAssumption DEF ServeResume, Asked, TypeOK, Tokens
    <3>2. QED
      BY <1>7, <2>1, <3>1 DEF ServeResume, ResumeInv
  <2>2. CASE ~(~revoked /\ c.with = cred)
    BY <1>1, <1>7, <2>2, AnswersMintNothing DEF ServeResume
  <2>3. QED
    BY <2>1, <2>2
<1>8. ASSUME NEW c \in calls, Mint(c) PROVE ResumeInv'
  <2>1. PICK t \in FreshTokens : live' = live \cup {t} /\ Answers(c, t)
    BY <1>8 DEF Mint
  <2>2. t # "minting"
    BY PhoneAssumption DEF Tokens, Words
  <2>3. Minting' \subseteq Minting
    BY <2>1, <2>2, AnswersMintNothing
  <2>4. Minting # {}
    BY <1>8 DEF Mint, Minting
  <2>5. QED
    BY <1>8, <2>3, <2>4 DEF Mint, ResumeInv
<1>9. ASSUME NEW c \in calls, ServeState(c) \/ StateFails(c) \/ ServeSelect(c) PROVE ResumeInv'
  <2>1. Minting' \subseteq Minting
    BY <1>9, AnswersMintNothing DEF ServeState, StateFails, ServeSelect
  <2>2. QED
    BY <1>1, <1>9, <2>1 DEF ServeState, StateFails, ServeSelect
<1>10. ASSUME NEW c \in calls, Lose(c) PROVE ResumeInv'
  <2>1. Minting' # {} => Minting # {}
    BY <1>10, CallParts DEF TypeOK, Lose, Minting
  <2>2. QED
    BY <1>10, <2>1 DEF Lose, ResumeInv
<1>11. ASSUME NEW p \in Pages, NEW scanned \in BOOLEAN, Load(p, scanned) PROVE ResumeInv'
  <2>1. ASSUME NEW c \in Orphans(p), c.answer = "minting" PROVE Minting # {}
    <3>1. PICK d \in calls : c = [d EXCEPT !.page = None]
      BY DEF Orphans
    <3>2. d.answer = "minting"
      BY <2>1, <3>1, CallParts DEF TypeOK
    <3>3. QED
      BY <3>2 DEF Minting
  <2>2. Minting' # {} => Minting # {}
    BY <1>11, <2>1 DEF Load, New, Nth, Resume, Minting
  <2>3. QED
    BY <1>11, <2>2 DEF Load, ResumeInv
<1>12. ASSUME NEW p \in Pages, \/ \E r \in Requests : SendPoll(p, r)
                               \/ SendState(p)
       PROVE  ResumeInv'
  BY <1>1, <1>12 DEF SendPoll, SendState, Sends, Nth, Minting
<1>13. ASSUME NEW p \in Pages, NEW kind \in {"select", "state"}, Tap(p, kind) PROVE ResumeInv'
  <2>1. New(p, kind, page[p].token).answer = "none"
    BY DEF New, Nth
  <2>2. Minting' \subseteq Minting
    BY <1>13, <2>1 DEF Tap, Minting
  <2>3. QED
    BY <1>1, <1>13, <2>2 DEF Tap
<1>14. ASSUME NEW c \in calls, AskDone(c) \/ PollDone(c) PROVE ResumeInv'
  BY <1>1, <1>14 DEF AskDone, PollDone, New, Nth, Minting
<1>15. ASSUME NEW c \in calls, BootDone(c) \/ ResumeDone(c) \/ StateDone(c) \/ SelectDone(c)
       PROVE  ResumeInv'
  BY <1>1, <1>15 DEF BootDone, ResumeDone, StateDone, SelectDone, New, Nth, Resume, Minting
<1>16. CASE UNCHANGED vars BY <1>1, <1>16 DEF vars, Minting
<1>17. QED
  BY <1>2, <1>3, <1>4, <1>5, <1>6, <1>7, <1>8, <1>9, <1>10, <1>11, <1>12, <1>13,
     <1>14, <1>15, <1>16 DEF Next, Serve, Arrive

\* A device that was revoked (core.py 341-348) has sessions only from a resume that
\* was under way then.
THEOREM RevokedDisconnected == Spec => []RevokedIsNotConnected
<1>1. ResumeInv => RevokedIsNotConnected
  BY DEF ResumeInv, RevokedIsNotConnected
<1>2. QED
  BY <1>1, TypeInit, TypeStep, ResumeInit, ResumeStep, PTL DEF Spec

-----------------------------------------------------------------------------
(***************************************************************************)
(* The server of PortalPhone implements AccessControl.                     *)
(***************************************************************************)
\* At the start nobody has asked, and nobody is trusted.
LEMMA RefineInit == Init => Abstract!Init
BY DEF Init, Abstract!Init, Fresh, Open, Trusted, Access, PhoneIf, Accepted

\* What AccessControl sees is the server's.
LEMMA SameServer ==
  ASSUME UNCHANGED server
  PROVE  UNCHANGED <<Fresh, Open, Trusted, Access>>
BY DEF server, Fresh, Open, Trusted, Access, PhoneIf, Accepted

\* Every step is one of AccessControl, or changes nothing of it.
LEMMA RefineStep == TypeOK /\ ResumeInv /\ [Next]_vars => [Abstract!Next]_Abstract!vars
<1> SUFFICES ASSUME TypeOK, ResumeInv, [Next]_vars
             PROVE  Abstract!Next \/ UNCHANGED <<Fresh, Open, Trusted, Access>>
  BY DEF Abstract!vars
<1>1. ASSUME UNCHANGED server PROVE UNCHANGED <<Fresh, Open, Trusted, Access>>
  BY <1>1, SameServer
<1>2. ASSUME NEW r \in Requests, Approve(r) PROVE Abstract!Next
  <2>1. <<r, ThePhone>> \in Open /\ Open' = Open \ {<<r, ThePhone>>} /\ UNCHANGED Fresh
    BY <1>2 DEF Approve, Open, Fresh, TypeOK
  <2>2. Trusted' = {ThePhone} /\ Access' = {ThePhone}
    BY <1>2, PhoneAssumption DEF Approve, Trusted, Access, PhoneIf, Accepted, Tokens
  <2>3. Trusted \subseteq {ThePhone} /\ Access \subseteq {ThePhone}
    BY DEF Trusted, Access, PhoneIf
  <2>4. Abstract!Allow(r, ThePhone)
    BY <2>1, <2>2, <2>3 DEF Abstract!Allow
  <2>5. QED
    BY <2>4 DEF Abstract!Next
<1>3. ASSUME NEW r \in Requests, Deny(r) \/ RequestExpires(r) PROVE Abstract!Next
  <2> DEFINE S == {<<r, ThePhone>>} \cap Open
  <2>1. Open' = Open \ S /\ UNCHANGED Fresh
    BY <1>3 DEF Deny, RequestExpires, Open, Fresh, TypeOK
  <2>2. UNCHANGED <<Trusted, Access>>
    BY <1>3 DEF Deny, RequestExpires, Trusted, Access, PhoneIf, Accepted
  <2>3. S \in SUBSET Open /\ Abstract!Close(S)
    BY <2>1, <2>2 DEF Abstract!Close
  <2>4. QED
    BY <2>3 DEF Abstract!Next
<1>4. ASSUME NEW forGood \in BOOLEAN, PutOut(forGood) PROVE Abstract!Next
  <2>1. UNCHANGED <<Fresh, Open>> /\ Access' = {}
    BY <1>4 DEF PutOut, NoSessions, Fresh, Open, Access, PhoneIf, Accepted
  <2>2. CASE revoked'
    <3>1. Trusted' = {} /\ Trusted \subseteq {ThePhone} /\ Access \subseteq {ThePhone}
      BY <2>2 DEF Trusted, Access, PhoneIf
    <3>2. Abstract!PutOut(ThePhone)
      BY <2>1, <3>1 DEF Abstract!PutOut
    <3>3. QED
      BY <3>2 DEF Abstract!Next
  <2>3. CASE ~revoked'
    <3>1. UNCHANGED Trusted
      BY <1>4, <2>3 DEF PutOut, Trusted, PhoneIf, TypeOK
    <3>2. Abstract!Lapse(Access)
      BY <2>1, <3>1 DEF Abstract!Lapse
    <3>3. QED
      BY <3>2 DEF Abstract!Next
  <2>4. QED
    BY <2>2, <2>3
<1>5. ASSUME NEW t \in Tokens, SessionExpires(t) PROVE Abstract!Next
  <2>1. UNCHANGED <<Fresh, Open, Trusted>>
    BY <1>5 DEF SessionExpires, Fresh, Open, Trusted, PhoneIf
  <2>2. Access' \subseteq Access
    BY <1>5 DEF SessionExpires, Access, PhoneIf, Accepted
  <2>3. Abstract!Lapse(Access \ Access')
    BY <2>1, <2>2 DEF Abstract!Lapse
  <2>4. QED
    BY <2>3 DEF Abstract!Next
<1>6. ASSUME NEW c \in calls, NEW r \in Requests, ServeAsk(c, r) PROVE Abstract!Next
  <2>1. r \in Fresh /\ Fresh' = Fresh \ {r} /\ Open' = Open \cup {<<r, ThePhone>>}
    BY <1>6 DEF ServeAsk, Fresh, Open, TypeOK
  <2>2. UNCHANGED <<Trusted, Access>>
    BY <1>6 DEF ServeAsk, Trusted, Access, PhoneIf, Accepted
  <2>3. Abstract!Ask(r, ThePhone)
    BY <2>1, <2>2 DEF Abstract!Ask
  <2>4. QED
    BY <2>3 DEF Abstract!Next
<1>7. ASSUME NEW c \in calls, Mint(c) PROVE Abstract!Next \/ UNCHANGED <<Fresh, Open, Trusted, Access>>
  <2>1. UNCHANGED <<Fresh, Open, Trusted>>
    BY <1>7 DEF Mint, Fresh, Open, Trusted, PhoneIf
  <2>2. CASE revoked
    <3>1. Access = {} /\ Access' = {}
      BY <1>7, <2>2 DEF Mint, Access, PhoneIf, Accepted
    <3>2. QED
      BY <2>1, <3>1
  <2>3. CASE ~revoked
    <3>1. cred # None
      BY <1>7 DEF Mint, ResumeInv, Minting
    <3>2. PICK t \in FreshTokens : live' = live \cup {t}
      BY <1>7 DEF Mint
    <3>3. Access' = {ThePhone} /\ Access \subseteq {ThePhone} /\ ThePhone \in Trusted
      BY <1>7, <2>3, <3>1, <3>2 DEF Mint, Access, Trusted, PhoneIf, Accepted, Tokens
    <3>4. Abstract!Resume(ThePhone)
      BY <2>1, <3>3 DEF Abstract!Resume
    <3>5. QED
      BY <3>4 DEF Abstract!Next
  <2>4. QED
    BY <2>2, <2>3
<1>8. ASSUME NEW c \in calls, \/ ServePoll(c) \/ ServeResume(c) \/ ServeState(c) \/ StateFails(c)
                              \/ Lose(c) \/ AskDone(c) \/ PollDone(c) \/ BootDone(c)
                              \/ ResumeDone(c) \/ StateDone(c) \/ ServeSelect(c)
                              \/ SelectDone(c)
      PROVE  UNCHANGED server
  BY <1>8 DEF ServePoll, ServeResume, ServeState, StateFails, Lose, AskDone, PollDone,
              BootDone, ResumeDone, StateDone, ServeSelect, SelectDone, server
<1>9. ASSUME NEW p \in Pages, \/ \E scanned \in BOOLEAN : Load(p, scanned)
                              \/ \E r \in Requests : SendPoll(p, r)
                              \/ SendState(p)
                              \/ \E kind \in {"select", "state"} : Tap(p, kind)
      PROVE  UNCHANGED server
  BY <1>9 DEF Load, SendPoll, SendState, Tap, server
<1>10. CASE UNCHANGED vars BY <1>1, <1>10 DEF vars, server
<1>11. QED
  BY <1>1, <1>2, <1>3, <1>4, <1>5, <1>6, <1>7, <1>8, <1>9, <1>10 DEF Next, Serve, Arrive

\* Pairing as a phone meets it (core.py 110-348) keeps the promise of AccessControl, for
\* any number of pages and requests, whatever calls are lost and resumes overtaken.
THEOREM Implements == Spec => ImplementsAccessControl
BY TypeInit, TypeStep, ResumeInit, ResumeStep, RefineInit, RefineStep, PTL
   DEF Spec, ImplementsAccessControl, Abstract!Spec

-----------------------------------------------------------------------------
(***************************************************************************)
(* A phone that is trusted gets in.                                        *)
(***************************************************************************)
\* Calls of bootstrap, and of pair, of a page.
Boots(p) == {c \in calls : c.page = p /\ c.kind \in {"boot", "resume", "enter"}}
Pairs(p) == {c \in calls : c.page = p /\ c.kind \in {"ask", "poll"}}

\* A resume asks with the device's credential and is answered with a session that works,
\* and the call that uses it is not refused.
Fits(c) ==
  /\ c.kind = "resume" => c.with = cred /\ c.answer \in {"none", "minting"} \cup live
  /\ c.kind = "enter" => c.answer = "ok" \/ (c.answer = "none" /\ c.with \in live)

\* Why: while a page starts and nothing goes wrong, what it sends fits.  A page that
\* pairs does not start, so that no answer to a poll changes its credential meanwhile.
Welcome(p) ==
  /\ page[p].shown # "unpaired"
  /\ Boots(p) # {} => /\ cred # None /\ ~revoked
                      /\ page[p].cred = cred /\ page[p].polls = {} /\ Pairs(p) = {}
  /\ \A c \in Boots(p) : Fits(c)

TrustInv == \A p \in Pages \ upset : Welcome(p)

\* What an answer changes of a page.
LEMMA KeptParts ==
  /\ \A c : \A kept \in Page :
       /\ AfterAnswer(c, kept).cred = kept.cred /\ AfterAnswer(c, kept).polls = kept.polls
       /\ AfterAnswer(c, kept).shown = kept.shown
       /\ AfterAnswer(c, kept).token = IF Unauthorized(c) THEN None ELSE kept.token
  /\ \A kept \in Page : \A shown :
       /\ Showing(kept, shown).cred = kept.cred /\ Showing(kept, shown).polls = kept.polls
       /\ Showing(kept, shown).shown = shown /\ Showing(kept, shown).token = kept.token
  /\ \A kept \in Page : \A r :
       /\ Unpolled(kept, r).cred = kept.cred /\ Unpolled(kept, r).polls = kept.polls \ {r}
       /\ Unpolled(kept, r).shown = kept.shown /\ Unpolled(kept, r).token = kept.token
  /\ \A kept \in Page : \A r :
       /\ Saved(kept, r).cred = r /\ Saved(kept, r).polls = kept.polls
       /\ Saved(kept, r).shown = kept.shown /\ Saved(kept, r).token = r
  /\ \A c : \A kept \in Page :
       /\ Told(c, kept).cred = kept.cred /\ Told(c, kept).polls = kept.polls
       /\ Told(c, kept).shown = kept.shown /\ Told(c, kept).token = kept.token
<1>1. \A c : \A kept \in Page :
       /\ AfterAnswer(c, kept).cred = kept.cred /\ AfterAnswer(c, kept).polls = kept.polls
       /\ AfterAnswer(c, kept).shown = kept.shown
       /\ AfterAnswer(c, kept).token = IF Unauthorized(c) THEN None ELSE kept.token
  BY DEF AfterAnswer, Page
<1>2. \A kept \in Page : \A shown :
       /\ Showing(kept, shown).cred = kept.cred /\ Showing(kept, shown).polls = kept.polls
       /\ Showing(kept, shown).shown = shown /\ Showing(kept, shown).token = kept.token
  BY DEF Showing, Page
<1>3. \A kept \in Page : \A r :
       /\ Unpolled(kept, r).cred = kept.cred /\ Unpolled(kept, r).polls = kept.polls \ {r}
       /\ Unpolled(kept, r).shown = kept.shown /\ Unpolled(kept, r).token = kept.token
  BY DEF Unpolled, Page
<1>4. \A kept \in Page : \A r :
       /\ Saved(kept, r).cred = r /\ Saved(kept, r).polls = kept.polls
       /\ Saved(kept, r).shown = kept.shown /\ Saved(kept, r).token = r
  BY DEF Saved, Page
<1>5. \A c : \A kept \in Page :
       /\ Told(c, kept).cred = kept.cred /\ Told(c, kept).polls = kept.polls
       /\ Told(c, kept).shown = kept.shown /\ Told(c, kept).token = kept.token
  BY DEF Told, Page
<1>6. QED
  BY <1>1, <1>2, <1>3, <1>4, <1>5

\* A step that starts nothing on a page leaves it welcome.
LEMMA QuietWelcome ==
  ASSUME NEW p \in Pages, Welcome(p), UNCHANGED <<cred, revoked>>, live \subseteq live',
         page'[p].shown = page[p].shown,
         Boots(p) # {} => /\ page'[p].cred = page[p].cred /\ page'[p].polls = page[p].polls
                          /\ Pairs(p)' \subseteq Pairs(p),
         Boots(p)' \subseteq Boots(p)
  PROVE  Welcome(p)'
BY DEF Welcome, Fits

\* An answer that fits leaves it welcome.
LEMMA AnswerWelcome ==
  ASSUME TypeOK, NEW p \in Pages, Welcome(p), UNCHANGED <<cred, revoked, page>>,
         live \subseteq live', NEW c \in calls, NEW answer, Answers(c, answer),
         c \in Boots(p) => Fits(Answered(c, answer))'
  PROVE  Welcome(p)'
<1>1. /\ Answered(c, answer).page = c.page /\ Answered(c, answer).kind = c.kind
  BY CallParts DEF TypeOK
<1>2. calls' \subseteq calls \cup {Answered(c, answer)}
  BY DEF Answers
<1>3. /\ Boots(p)' \subseteq Boots(p) \cup (IF c \in Boots(p) THEN {Answered(c, answer)} ELSE {})
      /\ Pairs(p)' \subseteq Pairs(p) \cup (IF c \in Pairs(p) THEN {Answered(c, answer)} ELSE {})
  BY <1>1, <1>2 DEF Boots, Pairs
<1>4. QED
  BY <1>3 DEF Welcome, Fits

\* Nothing is sent at the start.
LEMMA TrustInit == Init => TrustInv
BY DEF Init, TrustInv, Welcome, Boots

\* Every step keeps TrustInv.
LEMMA TrustStep == TypeOK /\ TrustInv /\ [Next]_vars => TrustInv'
<1> SUFFICES ASSUME TypeOK, TrustInv, [Next]_vars, NEW p \in Pages, p \notin upset'
             PROVE  Welcome(p)'
  BY DEF TrustInv
<1> USE DEF server, phone, bounds, history
<1>1. ASSUME p \notin upset PROVE Welcome(p)
  BY <1>1 DEF TrustInv
<1>2. ASSUME UNCHANGED <<cred, revoked, live, page, calls, upset>> PROVE Welcome(p)'
  BY <1>1, <1>2 DEF Welcome, Fits, Boots, Pairs
<1>3. ASSUME NEW r \in Requests, Approve(r) \/ Deny(r) \/ RequestExpires(r) PROVE Welcome(p)'
  BY <1>2, <1>3 DEF Approve, Deny, RequestExpires
<1>4. ASSUME NEW forGood \in BOOLEAN, PutOut(forGood) PROVE FALSE
  BY <1>4 DEF PutOut
<1>5. ASSUME NEW t \in Tokens, SessionExpires(t) PROVE FALSE
  BY <1>5 DEF SessionExpires
<1>6. ASSUME NEW c \in calls, NEW r \in Requests, ServeAsk(c, r) PROVE Welcome(p)'
  <2>1. c \notin Boots(p)
    BY <1>6 DEF ServeAsk, Asked, Boots
  <2>2. QED
    BY <1>1, <1>6, <2>1, AnswerWelcome DEF ServeAsk
<1>7. ASSUME NEW c \in calls, ServePoll(c) PROVE Welcome(p)'
  <2>1. c \notin Boots(p)
    BY <1>7 DEF ServePoll, Asked, Boots
  <2>2. PICK answer : Answers(c, answer)
    BY <1>7 DEF ServePoll
  <2>3. QED
    BY <1>1, <1>7, <2>1, <2>2, AnswerWelcome DEF ServePoll
<1>8. ASSUME NEW c \in calls, ServeResume(c) PROVE Welcome(p)'
  <2>1. p \notin upset /\ c.kind = "resume"
    BY <1>8 DEF ServeResume, Asked
  <2>2. CASE ~revoked /\ c.with = cred
    <3> DEFINE d == Answered(c, "minting")
    <3>1. d.page = c.page /\ d.kind = "resume" /\ d.with = c.with /\ d.answer = "minting"
      BY <2>1, CallParts DEF TypeOK
    <3>2. calls' = (calls \ {c}) \cup {d}
      BY <1>8, <2>2 DEF ServeResume
    <3>3. /\ Boots(p)' \subseteq Boots(p) \cup {d}
          /\ Boots(p)' # {} => Boots(p) # {} /\ Pairs(p)' \subseteq Pairs(p)
      BY <2>1, <3>1, <3>2 DEF Boots, Pairs
    <3>4. QED
      BY <1>1, <1>8, <2>1, <2>2, <3>1, <3>3 DEF ServeResume, Welcome, Fits
  <2>3. CASE ~(~revoked /\ c.with = cred)
    <3>1. c \notin Boots(p)
      BY <1>1, <2>1, <2>3 DEF Welcome, Fits
    <3>2. QED
      BY <1>1, <1>8, <2>1, <2>3, <3>1, AnswerWelcome DEF ServeResume
  <2>4. QED
    BY <2>2, <2>3
<1>9. ASSUME NEW c \in calls, Mint(c) PROVE Welcome(p)'
  <2>1. PICK t \in FreshTokens : live' = live \cup {t} /\ Answers(c, t)
    BY <1>9 DEF Mint
  <2>2. ASSUME c \in Boots(p) PROVE Fits(Answered(c, t))'
    <3>1. /\ Answered(c, t).kind = c.kind /\ Answered(c, t).with = c.with
          /\ Answered(c, t).answer = t
      BY CallParts DEF TypeOK
    <3>2. Fits(c) /\ c.answer = "minting"
      BY <1>1, <1>9, <2>2 DEF Mint, Welcome
    <3>3. QED
      BY <1>9, <2>1, <3>1, <3>2 DEF Mint, Fits
  <2>3. QED
    BY <1>1, <1>9, <2>1, <2>2, AnswerWelcome DEF Mint
<1>10. ASSUME NEW c \in calls, ServeState(c) PROVE Welcome(p)'
  <2>1. PICK answer : /\ Answers(c, answer) /\ c.kind # "resume" /\ c.answer = "none"
                      /\ answer = IF Accepted(c.with) THEN "ok" ELSE "refused"
    BY <1>10 DEF ServeState, Asked
  <2>2. ASSUME c \in Boots(p) PROVE Fits(Answered(c, answer))'
    <3>1. /\ Answered(c, answer).kind = c.kind /\ Answered(c, answer).with = c.with
          /\ Answered(c, answer).answer = answer
      BY CallParts DEF TypeOK
    <3>2. Fits(c) /\ ~revoked
      BY <1>1, <1>10, <2>2 DEF ServeState, Welcome
    <3>3. c.kind = "enter" => answer = "ok"
      BY <2>1, <3>2 DEF Fits, Accepted
    <3>4. QED
      BY <2>1, <3>1, <3>3 DEF Fits
  <2>3. QED
    BY <1>1, <1>10, <2>1, <2>2, AnswerWelcome DEF ServeState
<1>11. ASSUME NEW c \in calls, StateFails(c) \/ Lose(c) PROVE FALSE
  BY <1>11 DEF StateFails, Lose
<1>12. ASSUME NEW q \in Pages, NEW scanned \in BOOLEAN, Load(q, scanned) PROVE Welcome(p)'
  <2> DEFINE next == IF scanned THEN {New(q, "ask", None)}
                     ELSE IF store.token # None THEN {New(q, "boot", store.token)}
                     ELSE Resume(q, store)
             start == [token |-> store.token, cred |-> store.cred, polls |-> {}, waits |-> None,
                       shown |-> ShownAfter(next, StartsWith(scanned))]
  <2>1. /\ page' = [page EXCEPT ![q] = start]
        /\ calls' = {c \in calls : c.page # q} \cup Orphans(q) \cup next
    BY <1>12 DEF Load
  <2>2. ASSUME NEW c \in Orphans(q) PROVE c.page # p
    <3>1. PICK d \in calls : c = [d EXCEPT !.page = None]
      BY DEF Orphans
    <3>2. c.page = None
      BY <3>1, CallParts DEF TypeOK
    <3>3. QED
      BY <3>2, PhoneAssumption
  <2>3. \A c \in next : c.page = q
    BY DEF New, Nth, Resume
  <2>4. CASE q # p
    <3>1. Boots(p)' = Boots(p) /\ Pairs(p)' = Pairs(p) /\ page'[p] = page[p]
      BY <2>1, <2>2, <2>3, <2>4 DEF Boots, Pairs, TypeOK
    <3>2. p \notin upset
      BY <1>12, <2>4 DEF Load
    <3>3. QED
      BY <1>1, <1>12, <3>1, <3>2, QuietWelcome DEF Load
  <2>5. CASE q = p
    <3>1. ~revoked /\ store.cred = cred /\ cred # None
      BY <1>12, <2>5 DEF Load
    <3>2. \A c \in calls' : c.page = p => c \in next
      BY <2>1, <2>2, <2>5
    <3>3. page'[p] = start
      BY <2>1, <2>5 DEF TypeOK
    <3>4. CASE scanned
      <4>1. Boots(p)' = {}
        BY <3>2, <3>4 DEF Boots, New, Nth
      <4>2. page'[p].shown = "pairing"
        BY <3>3, <3>4 DEF ShownAfter, StartsWith
      <4>3. QED
        BY <4>1, <4>2 DEF Welcome
    <3>5. CASE ~scanned
      <4>1. next = {New(p, "boot", store.token)} \/ next = {New(p, "resume", cred)}
        BY <2>5, <3>1, <3>5 DEF Resume
      <4>2. Pairs(p)' = {} /\ \A c \in Boots(p)' : Fits(c)'
        BY <1>12, <3>2, <4>1 DEF Load, Pairs, Boots, New, Nth, Fits
      <4>3. start.shown = "blank" /\ start.cred = cred /\ start.polls = {}
        BY <3>1, <3>5, <4>1 DEF ShownAfter, StartsWith
      <4>4. QED
        BY <1>12, <3>1, <3>3, <4>2, <4>3 DEF Load, Welcome
    <3>6. QED
      BY <3>4, <3>5
  <2>6. QED
    BY <2>4, <2>5
<1>13. ASSUME NEW q \in Pages, NEW r \in Requests, SendPoll(q, r) PROVE Welcome(p)'
  <2>1. PICK n \in Nat : calls' = calls \cup {Nth(q, "poll", r, n)}
    BY <1>13, PhoneAssumption, SendsOne DEF SendPoll
  <2>2. p \notin upset /\ Boots(p)' \subseteq Boots(p)
    BY <1>13, <2>1 DEF SendPoll, Boots, Nth
  <2>3. Boots(p) # {} => Pairs(p)' \subseteq Pairs(p)
    BY <1>1, <1>13, <2>1, <2>2 DEF SendPoll, Welcome, Pairs, Nth
  <2>4. QED
    BY <1>1, <1>13, <2>2, <2>3, QuietWelcome DEF SendPoll
<1>14. ASSUME NEW q \in Pages, SendState(q) \/ \E kind \in {"select", "state"} : Tap(q, kind)
       PROVE  Welcome(p)'
  <2>1. PICK kind \in {"select", "state"}, n \in Nat :
          calls' = calls \cup {Nth(q, kind, page[q].token, n)}
    <3>1. CASE SendState(q)
      <4>1. PICK n \in Nat : calls' = calls \cup {Nth(q, "state", page[q].token, n)}
        BY <3>1, PhoneAssumption, SendsOne DEF SendState
      <4>2. QED
        BY <4>1
    <3>2. CASE \E kind \in {"select", "state"} : Tap(q, kind)
      BY <3>2 DEF Tap, New
    <3>3. QED
      BY <1>14, <3>1, <3>2
  <2>2. Nth(q, kind, page[q].token, n).kind = kind
    BY DEF Nth
  <2>3. Boots(p)' \subseteq Boots(p) /\ Pairs(p)' \subseteq Pairs(p)
    BY <2>1, <2>2 DEF Boots, Pairs
  <2>4. p \notin upset /\ UNCHANGED <<cred, revoked, live, page>>
    BY <1>14 DEF SendState, Tap
  <2>5. QED
    BY <1>1, <2>3, <2>4, QuietWelcome
<1>15. ASSUME NEW c \in calls, AskDone(c) \/ PollDone(c) PROVE Welcome(p)'
  <2>1. /\ p \notin upset /\ Boots(p)' \subseteq Boots(p) /\ Pairs(p)' \subseteq Pairs(p)
        /\ UNCHANGED <<cred, revoked, live>>
    BY <1>15 DEF AskDone, PollDone, Boots, Pairs, New, Nth
  <2>2. c.page # p => page'[p] = page[p]
    BY <1>15 DEF AskDone, PollDone, TypeOK
  <2>3. c.page = p => Boots(p) = {} /\ page'[p].shown = page[p].shown
    <3> SUFFICES ASSUME c.page = p PROVE Boots(p) = {} /\ page'[p].shown = page[p].shown
      OBVIOUS
    <3>1. c \in Pairs(p)
      BY <1>15 DEF AskDone, PollDone, Arrived, Pairs
    <3>2. page[p] \in Page
      BY DEF TypeOK
    <3>3. page'[p].shown = page[p].shown
      <4>1. CASE AskDone(c)
        BY <3>2, <4>1 DEF AskDone, TypeOK, Page
      <4>2. CASE PollDone(c) /\ c.answer \in Requests
        <5>1. page'[p] = Told(c, Unpolled(Saved(page[p], c.answer), c.answer))
          BY <4>2 DEF PollDone, TypeOK
        <5>2. /\ Saved(page[p], c.answer) \in Page
              /\ Unpolled(Saved(page[p], c.answer), c.answer) \in Page
          BY <3>2, <4>2, KeptTypes
        <5>3. QED
          BY <3>2, <5>1, <5>2, KeptParts
      <4>3. CASE PollDone(c) /\ c.answer \notin Requests
        <5>1. page'[p] = Told(c, IF StopsPolling(c) THEN Unpolled(page[p], c.with) ELSE page[p])
          BY <4>3 DEF PollDone, TypeOK
        <5>2. QED
          BY <3>2, <5>1, KeptParts, KeptTypes
      <4>4. QED
        BY <1>15, <4>1, <4>2, <4>3
    <3>4. QED
      BY <1>1, <2>1, <3>1, <3>3 DEF Welcome
  <2>4. QED
    BY <1>1, <2>1, <2>2, <2>3, QuietWelcome
<1>16. ASSUME NEW c \in calls, BootDone(c) \/ ResumeDone(c) \/ StateDone(c), c.page # p
       PROVE  Welcome(p)'
  <2>1. /\ p \notin upset /\ Boots(p)' \subseteq Boots(p) /\ Pairs(p)' \subseteq Pairs(p)
        /\ UNCHANGED <<cred, revoked, live>>
    BY <1>16 DEF BootDone, ResumeDone, StateDone, Boots, Pairs, New, Nth, Resume
  <2>2. page'[p] = page[p]
    BY <1>16 DEF BootDone, ResumeDone, StateDone, TypeOK
  <2>3. QED
    BY <1>1, <2>1, <2>2, QuietWelcome
<1>17. ASSUME NEW c \in calls, BootDone(c), c.page = p PROVE Welcome(p)'
  <2> DEFINE next == IF c.answer = "ok" THEN {} ELSE Resume(p, page[p])
  <2>1. p \notin upset /\ c \in Boots(p) /\ UNCHANGED <<cred, revoked, live>>
    BY <1>17 DEF BootDone, Arrived, Boots
  <2>2. page[p] \in Page /\ AfterAnswer(c, page[p]) \in Page
    BY KeptTypes DEF TypeOK
  <2>3. Welcome(p) /\ page[p].cred = cred /\ cred # None
    BY <1>1, <2>1 DEF Welcome
  <2>4. next \subseteq {New(p, "resume", cred)} /\ (c.answer # "ok" => next # {})
    BY <2>3 DEF Resume
  <2>5. calls' = (calls \ {c}) \cup next
    BY <1>17 DEF BootDone
  <2>6. Boots(p)' \subseteq Boots(p) \cup {New(p, "resume", cred)} /\ Pairs(p)' \subseteq Pairs(p)
    BY <2>4, <2>5 DEF Boots, Pairs, New, Nth
  <2>7. page'[p] = Showing(AfterAnswer(c, page[p]),
                           IF c.answer = "ok" THEN "in" ELSE ShownAfter(next, page[p].shown))
    BY <1>17 DEF BootDone, TypeOK
  <2>8. /\ page'[p].cred = cred /\ page'[p].polls = page[p].polls
        /\ page'[p].shown # "unpaired"
    BY <2>2, <2>3, <2>4, <2>7, KeptParts DEF ShownAfter, Welcome
  <2>9. QED
    BY <2>1, <2>3, <2>6, <2>8 DEF Welcome, Fits, New, Nth
<1>18. ASSUME NEW c \in calls, ResumeDone(c), c.page = p PROVE Welcome(p)'
  <2>1. /\ p \notin upset /\ c \in Boots(p) /\ UNCHANGED <<cred, revoked, live>>
        /\ c.answer \notin {"none", "minting"} /\ c.kind = "resume"
    BY <1>18 DEF ResumeDone, Arrived, Boots
  <2>2. Welcome(p) /\ c.answer \in live /\ c.answer \in Tokens
    BY <1>1, <2>1 DEF Welcome, Fits, TypeOK
  <2>3. /\ page' = [page EXCEPT ![p].token = c.answer]
        /\ calls' = (calls \ {c}) \cup {New(p, "enter", c.answer)}
    BY <1>18, <2>2 DEF ResumeDone
  <2>4. /\ page'[p].cred = page[p].cred /\ page'[p].polls = page[p].polls
        /\ page'[p].shown = page[p].shown
    BY <2>3 DEF TypeOK, Page
  <2>5. /\ Boots(p)' \subseteq Boots(p) \cup {New(p, "enter", c.answer)}
        /\ Pairs(p)' \subseteq Pairs(p)
    BY <2>3 DEF Boots, Pairs, New, Nth
  <2>6. QED
    BY <2>1, <2>2, <2>4, <2>5 DEF Welcome, Fits, New, Nth
<1>19. ASSUME NEW c \in calls, StateDone(c), c.page = p PROVE Welcome(p)'
  <2>1. /\ p \notin upset /\ Boots(p)' \subseteq Boots(p) /\ Pairs(p)' \subseteq Pairs(p)
        /\ UNCHANGED <<cred, revoked, live>>
    BY <1>19 DEF StateDone, Boots, Pairs
  <2>2. page[p] \in Page /\ AfterAnswer(c, page[p]) \in Page
    BY KeptTypes DEF TypeOK
  <2>3. c.kind = "enter" => c.answer = "ok"
    BY <1>1, <1>19, <2>1 DEF StateDone, Arrived, Welcome, Fits, Boots
  <2>4. page'[p] = Showing(AfterAnswer(c, page[p]), IF c.answer = "ok" THEN "in"
                                                    ELSE IF c.kind = "enter" THEN "unpaired"
                                                    ELSE page[p].shown)
    BY <1>19 DEF StateDone, TypeOK
  <2>5. /\ page'[p].cred = page[p].cred /\ page'[p].polls = page[p].polls
        /\ page'[p].shown # "unpaired"
    BY <1>1, <2>1, <2>2, <2>3, <2>4, KeptParts DEF Welcome
  <2>6. QED
    BY <1>1, <2>1, <2>5 DEF Welcome, Fits
<1>20. CASE UNCHANGED vars BY <1>2, <1>20 DEF vars
<1>22. ASSUME NEW c \in calls, ServeSelect(c) PROVE Welcome(p)'
  <2>1. PICK answer : Answers(c, answer) /\ c \notin Boots(p)
    BY <1>22 DEF ServeSelect, Asked, Boots
  <2>2. QED
    BY <1>1, <1>22, <2>1, AnswerWelcome DEF ServeSelect
<1>23. ASSUME NEW c \in calls, SelectDone(c) PROVE Welcome(p)'
  <2>1. c.page \in Pages /\ c \in Call /\ page[c.page] \in Page
    BY <1>23, CallFields DEF SelectDone, Arrived, TypeOK
  <2>2. New(c.page, "state", page[c.page].token).kind = "state"
    BY DEF New, Nth
  <2>3. /\ p \notin upset /\ Boots(p)' \subseteq Boots(p) /\ Pairs(p)' \subseteq Pairs(p)
        /\ UNCHANGED <<cred, revoked, live>>
    BY <1>23, <2>2 DEF SelectDone, Boots, Pairs
  <2>4. page'[p] \in {page[p], AfterAnswer(c, page[p])}
    BY <1>23 DEF SelectDone, TypeOK
  <2>5. /\ page'[p].cred = page[p].cred /\ page'[p].polls = page[p].polls
        /\ page'[p].shown = page[p].shown
    BY <2>4, KeptParts DEF TypeOK
  <2>6. QED
    BY <1>1, <2>3, <2>5, QuietWelcome
<1>21. QED
  BY <1>3, <1>4, <1>5, <1>6, <1>7, <1>8, <1>9, <1>10, <1>11, <1>12, <1>13, <1>14, <1>15,
     <1>16, <1>17, <1>18, <1>19, <1>20, <1>22, <1>23 DEF Next, Serve, Arrive

\* A page that starts with the credential of a trusted device (app.js 22-28) shows the
\* desktop unless something goes wrong before it does.
THEOREM TrustedGetsIn == Spec => []TrustedPhoneGetsIn
<1>1. TrustInv => TrustedPhoneGetsIn
  BY DEF TrustInv, TrustedPhoneGetsIn, Welcome
<1>2. QED
  BY <1>1, TypeInit, TypeStep, TrustInit, TrustStep, PTL DEF Spec

-----------------------------------------------------------------------------
(***************************************************************************)
(* A session that works is not dropped for an answer about itself.         *)
(***************************************************************************)
\* The token of a request is handed out only after the decision about it.
Handed(t) == t \in Requests => status[t] \notin {"unused", "pending"}

BearsToken(c) == c.kind \in {"boot", "enter", "state", "select"}

\* Tokens the phone has, or is about to have, were handed out.
HandedInCall(c) ==
  /\ BearsToken(c) => Handed(c.with)
  /\ c.kind \in {"poll", "resume"} => Handed(c.answer)

HandedInv ==
  /\ \A p \in Pages : Handed(page[p].token)
  /\ Handed(store.token)
  /\ \A c \in calls : HandedInCall(c)

\* What was refused does not work later: a token a call bears is not drawn anew, and one
\* that was handed out is not approved again.
RefusedInv ==
  ~overtook => \A c \in calls : BearsToken(c) /\ c.answer = "refused" => c.with \notin live

\* Nobody has a token at the start.
LEMMA HandedInit == Init => HandedInv /\ RefusedInv
BY PhoneAssumption DEF Init, HandedInv, RefusedInv, Handed, Tokens

\* A decision does not take back what was handed out.
LEMMA HandedStays ==
  ASSUME TypeOK, [Next]_vars, NEW t, Handed(t)
  PROVE  Handed(t)'
<1> USE DEF Handed, TypeOK
<1>1. ASSUME UNCHANGED status PROVE Handed(t)'
  BY <1>1
<1>2. ASSUME NEW r \in Requests, Approve(r) \/ Deny(r) \/ RequestExpires(r) PROVE Handed(t)'
  BY <1>2 DEF Approve, Deny, RequestExpires
<1>3. ASSUME NEW c \in calls, NEW r \in Requests, ServeAsk(c, r) PROVE Handed(t)'
  BY <1>3 DEF ServeAsk
<1>4. ASSUME NEW c \in calls, \/ ServePoll(c) \/ ServeResume(c) \/ Mint(c) \/ ServeState(c)
                              \/ StateFails(c) \/ Lose(c) \/ AskDone(c) \/ PollDone(c)
                              \/ BootDone(c) \/ ResumeDone(c) \/ StateDone(c)
                              \/ ServeSelect(c) \/ SelectDone(c)
      PROVE  UNCHANGED status
  BY <1>4 DEF ServePoll, ServeResume, Mint, ServeState, StateFails, Lose, AskDone, PollDone,
              BootDone, ResumeDone, StateDone, ServeSelect, SelectDone, server
<1>5. ASSUME \/ \E forGood \in BOOLEAN : PutOut(forGood)
             \/ \E u \in Tokens : SessionExpires(u)
             \/ \E p \in Pages : \/ \E scanned \in BOOLEAN : Load(p, scanned)
                                 \/ \E r \in Requests : SendPoll(p, r)
                                 \/ SendState(p)
                                 \/ \E kind \in {"select", "state"} : Tap(p, kind)
      PROVE  UNCHANGED status
  BY <1>5 DEF PutOut, SessionExpires, Load, SendPoll, SendState, Tap, server
<1>6. CASE UNCHANGED vars BY <1>1, <1>6 DEF vars, server
<1>7. QED
  BY <1>1, <1>2, <1>3, <1>4, <1>5, <1>6 DEF Next, Serve, Arrive

\* Words and new sessions are no tokens of requests.
LEMMA OthersHanded == \A t : t \in Words \cup FreshTokens \cup {None} => Handed(t)
BY PhoneAssumption DEF Handed, Tokens

\* It is enough to look at what a step adds.
LEMMA HandedKeeps ==
  ASSUME TypeOK, HandedInv, [Next]_vars,
         \A p \in Pages : page'[p].token = page[p].token \/ Handed(page[p].token)',
         store'.token = store.token \/ Handed(store.token)',
         \A c \in calls' : c \in calls \/ HandedInCall(c)'
  PROVE  HandedInv'
<1>1. ASSUME NEW t, Handed(t) PROVE Handed(t)'
  BY <1>1, HandedStays
<1>2. \A p \in Pages : Handed(page[p].token)'
  BY <1>1 DEF HandedInv
<1>3. Handed(store.token)'
  BY <1>1 DEF HandedInv
<1>4. \A c \in calls' : HandedInCall(c)'
  BY <1>1 DEF HandedInv, HandedInCall, BearsToken
<1>5. QED
  BY <1>2, <1>3, <1>4 DEF HandedInv

\* The server's answer adds one call, which bears the token it bore.
LEMMA HandedAnswers ==
  ASSUME TypeOK, HandedInv, [Next]_vars, UNCHANGED <<page, store>>,
         NEW c \in calls, NEW answer, Answers(c, answer),
         c.kind \in {"poll", "resume"} => Handed(answer)'
  PROVE  HandedInv'
<1>1. /\ Answered(c, answer).kind = c.kind /\ Answered(c, answer).with = c.with
      /\ Answered(c, answer).answer = answer
  BY CallParts DEF TypeOK
<1>2. calls' \subseteq calls \cup {Answered(c, answer)}
  BY DEF Answers
<1>3. HandedInCall(c)
  BY DEF HandedInv
<1>4. BearsToken(c) => Handed(c.with)'
  BY <1>3, HandedStays DEF HandedInCall
<1>5. HandedInCall(Answered(c, answer))'
  BY <1>1, <1>4 DEF HandedInCall, BearsToken
<1>6. QED
  BY <1>2, <1>5, HandedKeeps

\* Every step hands tokens out after a decision only.
LEMMA HandedStep == TypeOK /\ HandedInv /\ [Next]_vars => HandedInv'
<1> SUFFICES ASSUME TypeOK, HandedInv, [Next]_vars PROVE HandedInv'
  OBVIOUS
<1> USE DEF server, phone, bounds, history
<1>1. ASSUME UNCHANGED <<page, store, calls>> PROVE HandedInv'
  BY <1>1, HandedKeeps
<1>2. ASSUME NEW t, Handed(t) PROVE Handed(t)'
  BY <1>2, HandedStays
<1>3. ASSUME NEW t \in Words \cup FreshTokens \cup {None} PROVE Handed(t)'
  BY <1>2, OthersHanded
<1>4. CASE \/ \E r \in Requests : Approve(r) \/ Deny(r) \/ RequestExpires(r)
           \/ \E forGood \in BOOLEAN : PutOut(forGood)
           \/ \E t \in Tokens : SessionExpires(t)
  BY <1>1, <1>4 DEF Approve, Deny, RequestExpires, PutOut, SessionExpires
<1>5. ASSUME NEW c \in calls, NEW r \in Requests, ServeAsk(c, r) PROVE HandedInv'
  BY <1>5, HandedAnswers DEF ServeAsk, Asked
<1>6. ASSUME NEW c \in calls, ServePoll(c) PROVE HandedInv'
  <2>1. c.with \in Requests
    BY <1>6, CallFields DEF ServePoll, Asked, TypeOK
  <2>2. PICK answer : /\ Answers(c, answer)
                      /\ ((answer = c.with /\ status[c.with] = "approved") \/ answer \in Words)
    BY <1>6, <2>1 DEF ServePoll, TypeOK, Words
  <2>3. Handed(answer)'
    BY <1>3, <1>6, <2>2 DEF ServePoll, Handed
  <2>4. QED
    BY <1>6, <2>2, <2>3, HandedAnswers DEF ServePoll
<1>7. ASSUME NEW c \in calls, ServeResume(c) PROVE HandedInv'
  <2>1. CASE ~revoked /\ c.with = cred
    <3>1. c.kind = "resume" /\ calls' = (calls \ {c}) \cup {Answered(c, "minting")}
      BY <1>7, <2>1 DEF ServeResume, Asked
    <3>2. /\ Answered(c, "minting").kind = c.kind /\ Answered(c, "minting").with = c.with
          /\ Answered(c, "minting").answer = "minting"
      BY CallParts DEF TypeOK
    <3>3. HandedInCall(Answered(c, "minting"))'
      BY <1>3, <3>1, <3>2 DEF HandedInCall, BearsToken, Words
    <3>4. QED
      BY <1>7, <3>1, <3>3, HandedKeeps DEF ServeResume
  <2>2. CASE ~(~revoked /\ c.with = cred)
    <3>1. Handed("refused")'
      BY <1>3 DEF Words
    <3>2. QED
      BY <1>7, <2>2, <3>1, HandedAnswers DEF ServeResume
  <2>3. QED
    BY <2>1, <2>2
<1>8. ASSUME NEW c \in calls, Mint(c) PROVE HandedInv'
  <2>1. PICK t \in FreshTokens : Answers(c, t)
    BY <1>8 DEF Mint
  <2>2. Handed(t)'
    BY <1>3
  <2>3. QED
    BY <1>8, <2>1, <2>2, HandedAnswers DEF Mint
<1>9. ASSUME NEW c \in calls, ServeState(c) \/ StateFails(c) \/ ServeSelect(c) PROVE HandedInv'
  <2>1. PICK answer : Answers(c, answer)
    BY <1>9 DEF ServeState, StateFails, ServeSelect
  <2>2. QED
    BY <1>9, <2>1, HandedAnswers DEF ServeState, StateFails, ServeSelect, Asked
<1>10. ASSUME NEW c \in calls, Lose(c) PROVE HandedInv'
  <2>1. /\ Answered(c, "failed").kind = c.kind /\ Answered(c, "failed").with = c.with
        /\ Answered(c, "failed").answer = "failed"
        /\ [c EXCEPT !.page = None].kind = c.kind /\ [c EXCEPT !.page = None].with = c.with
        /\ [c EXCEPT !.page = None].answer = c.answer
    BY CallParts DEF TypeOK
  <2>2. (BearsToken(c) => Handed(c.with)') /\ (c.kind \in {"poll", "resume"} => Handed(c.answer)')
    BY <1>2 DEF HandedInv, HandedInCall
  <2>3. HandedInCall(Answered(c, "failed"))' /\ HandedInCall([c EXCEPT !.page = None])'
    BY <1>3, <2>1, <2>2 DEF HandedInCall, BearsToken, Words
  <2>4. QED
    BY <1>10, <2>3, HandedKeeps DEF Lose
<1>11. ASSUME NEW p \in Pages, NEW scanned \in BOOLEAN, Load(p, scanned) PROVE HandedInv'
  <2> DEFINE next == IF scanned THEN {New(p, "ask", None)}
                     ELSE IF store.token # None THEN {New(p, "boot", store.token)}
                     ELSE Resume(p, store)
  <2>1. Handed(store.token)' /\ Handed("none")'
    <3>1. store' = store
      BY <1>11 DEF Load
    <3>2. Handed("none")'
      BY <1>3 DEF Words
    <3>3. QED
      BY <1>2, <3>1, <3>2 DEF HandedInv
  <2>2. \A c \in next : HandedInCall(c)'
    <3>1. ASSUME NEW c \in next PROVE HandedInCall(c)'
      <4>1. CASE c = New(p, "ask", None)
        BY <2>1, <4>1 DEF New, Nth, HandedInCall, BearsToken
      <4>2. CASE c = New(p, "boot", store.token)
        <5>1. Handed(store.token)
          BY DEF HandedInv
        <5>2. c.with = store.token /\ c.kind = "boot"
          BY <4>2 DEF New, Nth
        <5>3. Handed(c.with)'
          BY <1>2, <5>1, <5>2
        <5>4. QED
          BY <5>2, <5>3 DEF HandedInCall
      <4>3. CASE c \in Resume(p, store)
        BY <2>1, <4>3 DEF New, Nth, Resume, HandedInCall, BearsToken
      <4>4. QED
        BY <3>1, <4>1, <4>2, <4>3
    <3>2. QED
      BY <3>1
  <2>3. ASSUME NEW c \in Orphans(p) PROVE HandedInCall(c)'
    <3>1. PICK d \in calls : c = [d EXCEPT !.page = None]
      BY DEF Orphans
    <3>2. c.kind = d.kind /\ c.with = d.with /\ c.answer = d.answer
      BY <3>1, CallParts DEF TypeOK
    <3>3. QED
      BY <1>2, <3>2 DEF HandedInv, HandedInCall, BearsToken
  <2>4. \A q \in Pages : page'[q].token \in {page[q].token, store.token}
    BY <1>11 DEF Load, TypeOK
  <2>5. calls' \subseteq calls \cup Orphans(p) \cup next /\ store' = store
    BY <1>11 DEF Load
  <2>6. QED
    BY <2>1, <2>2, <2>3, <2>4, <2>5, HandedKeeps
<1>12. ASSUME NEW p \in Pages, NEW r \in Requests, SendPoll(p, r) PROVE HandedInv'
  <2>1. PICK n \in Nat : calls' = calls \cup {Nth(p, "poll", r, n)}
    BY <1>12, PhoneAssumption, SendsOne DEF SendPoll
  <2>2. HandedInCall(Nth(p, "poll", r, n))'
    BY <1>3 DEF Nth, HandedInCall, BearsToken, Words
  <2>3. QED
    BY <1>12, <2>1, <2>2, HandedKeeps DEF SendPoll
<1>13. ASSUME NEW p \in Pages, SendState(p) \/ \E kind \in {"select", "state"} : Tap(p, kind)
       PROVE  HandedInv'
  <2>1. PICK kind \in {"select", "state"}, n \in Nat :
          calls' = calls \cup {Nth(p, kind, page[p].token, n)}
    <3>1. CASE SendState(p)
      <4>1. PICK n \in Nat : calls' = calls \cup {Nth(p, "state", page[p].token, n)}
        BY <3>1, PhoneAssumption, SendsOne DEF SendState
      <4>2. QED
        BY <4>1
    <3>2. CASE \E kind \in {"select", "state"} : Tap(p, kind)
      BY <3>2 DEF Tap, New
    <3>3. QED
      BY <1>13, <3>1, <3>2
  <2>2. Handed(page[p].token)'
    BY <1>2, <1>13 DEF HandedInv, SendState, Tap
  <2>3. page' = page /\ store' = store
    BY <1>13 DEF SendState, Tap
  <2>4. HandedInCall(Nth(p, kind, page[p].token, n))'
    BY <2>2, <2>3 DEF Nth, HandedInCall, BearsToken
  <2>5. QED
    BY <2>1, <2>3, <2>4, HandedKeeps
<1>14. ASSUME NEW c \in calls, AskDone(c) PROVE HandedInv'
  <2>1. \A p \in Pages : page'[p].token = page[p].token
    BY <1>14 DEF AskDone, TypeOK, Page
  <2>2. QED
    BY <1>14, <2>1, HandedKeeps DEF AskDone
<1>15. ASSUME NEW c \in calls, PollDone(c) PROVE HandedInv'
  <2>1. c.page \in Pages /\ page[c.page] \in Page /\ store \in Store
    BY <1>15, CallFields DEF PollDone, Arrived, TypeOK
  <2>2. Handed(c.answer)'
    BY <1>2, <1>15 DEF PollDone, Arrived, HandedInv, HandedInCall
  <2>3. CASE c.answer \in Requests
    <3>1. Told(c, Unpolled(Saved(page[c.page], c.answer), c.answer)).token = c.answer
      BY <2>1, <2>3, KeptTypes, KeptParts
    <3>2. \A p \in Pages : page'[p].token \in {page[p].token, c.answer}
      BY <1>15, <2>3, <3>1 DEF PollDone, TypeOK
    <3>3. store'.token = c.answer
      BY <1>15, <2>1, <2>3 DEF PollDone, Saved, Store
    <3>4. HandedInCall(New(c.page, "state", c.answer))'
      BY <2>2 DEF New, Nth, HandedInCall, BearsToken
    <3>5. QED
      BY <1>15, <2>2, <2>3, <3>2, <3>3, <3>4, HandedKeeps DEF PollDone
  <2>4. CASE c.answer \notin Requests
    <3>1. \A p \in Pages : page'[p].token = page[p].token
      BY <1>15, <2>1, <2>4, KeptParts, KeptTypes DEF PollDone, TypeOK
    <3>2. QED
      BY <1>15, <2>4, <3>1, HandedKeeps DEF PollDone
  <2>5. QED
    BY <2>3, <2>4
<1>16. ASSUME NEW c \in calls, BootDone(c) \/ ResumeDone(c) \/ StateDone(c) \/ SelectDone(c)
       PROVE  HandedInv'
  <2>1. c.page \in Pages /\ page[c.page] \in Page /\ store \in Store
    BY <1>16, CallFields DEF BootDone, ResumeDone, StateDone, SelectDone, Arrived, TypeOK
  <2>2. Handed(None)' /\ Handed("none")' /\ (ResumeDone(c) => Handed(c.answer)')
    BY <1>2, <1>3 DEF ResumeDone, Arrived, HandedInv, HandedInCall, Words
  <2>3. /\ AfterAnswer(c, page[c.page]) \in Page
        /\ AfterAnswer(c, page[c.page]).token \in {None, page[c.page].token}
        /\ AfterAnswer(c, store).token \in {None, store.token}
    <3>1. AfterAnswer(c, store).token \in {None, store.token}
      BY <2>1 DEF AfterAnswer, Store
    <3>2. QED
      BY <2>1, <3>1, KeptParts, KeptTypes DEF TypeOK
  <2>4. /\ \A p \in Pages : page'[p].token \in {page[p].token, None}
                              \/ (ResumeDone(c) /\ page'[p].token = c.answer)
        /\ store'.token \in {store.token, None} \/ (ResumeDone(c) /\ store'.token = c.answer)
    <3>1. CASE BootDone(c) \/ StateDone(c) \/ SelectDone(c)
      BY <2>1, <2>3, <3>1, KeptParts DEF BootDone, StateDone, SelectDone, TypeOK
    <3>2. CASE ResumeDone(c) /\ c.answer \in Tokens
      BY <2>1, <3>2 DEF ResumeDone, TypeOK, Page, Store
    <3>3. CASE ResumeDone(c) /\ c.answer \notin Tokens
      BY <2>1, <2>3, <3>3, KeptParts DEF ResumeDone, TypeOK
    <3>4. QED
      BY <1>16, <3>1, <3>2, <3>3
  <2>5. \A d \in calls' : d \in calls \/ HandedInCall(d)'
    <3>1. CASE BootDone(c) \/ ResumeDone(c) \/ StateDone(c)
      BY <2>2, <3>1
      DEF BootDone, ResumeDone, StateDone, Resume, New, Nth, HandedInCall, BearsToken
    <3>2. CASE SelectDone(c)
      <4>1. ASSUME NEW d \in calls', d \notin calls PROVE HandedInCall(d)'
        <5>1. d = New(c.page, "state", page[c.page].token)
          BY <3>2, <4>1 DEF SelectDone
        <5>2. d.kind = "state" /\ d.with = page[c.page].token
          BY <5>1 DEF New, Nth
        <5>3. Handed(d.with)'
          BY <1>2, <2>1, <5>2 DEF HandedInv
        <5>4. QED
          BY <5>2, <5>3 DEF HandedInCall
      <4>2. QED
        BY <4>1
    <3>3. QED
      BY <1>16, <3>1, <3>2
  <2>6. QED
    BY <2>2, <2>4, <2>5, HandedKeeps
<1>17. CASE UNCHANGED vars BY <1>1, <1>17 DEF vars
<1>18. QED
  BY <1>4, <1>5, <1>6, <1>7, <1>8, <1>9, <1>10, <1>11, <1>12, <1>13, <1>14, <1>15, <1>16, <1>17
  DEF Next, Serve, Arrive

Refused(c) == BearsToken(c) /\ c.answer = "refused"

\* It is enough to look at the calls a step adds, if no session begins.
LEMMA RefusedKeeps ==
  ASSUME RefusedInv, live' \subseteq live, overtook => overtook',
         \A c \in calls' : c \in calls \/ ~Refused(c)
  PROVE  RefusedInv'
BY DEF RefusedInv, Refused, BearsToken

\* An answer of the server other than a refusal to a call with a token.
LEMMA RefusedAnswers ==
  ASSUME TypeOK, NEW c \in calls, NEW answer, Answers(c, answer),
         BearsToken(c) => answer # "refused"
  PROVE  \A d \in calls' : d \in calls \/ ~Refused(d)
BY CallParts DEF TypeOK, Answers, Refused, BearsToken

\* Every step keeps refused tokens from working.
LEMMA RefusedStep ==
  TypeOK /\ ResumeInv /\ HandedInv /\ RefusedInv /\ [Next]_vars => RefusedInv'
<1> SUFFICES ASSUME TypeOK, ResumeInv, HandedInv, RefusedInv, [Next]_vars PROVE RefusedInv'
  OBVIOUS
<1> USE DEF server, phone, bounds, history
<1>1. ASSUME UNCHANGED <<live, overtook, calls>> PROVE RefusedInv'
  BY <1>1 DEF RefusedInv
<1>2. ASSUME NEW r \in Requests, Approve(r) PROVE RefusedInv'
  <2>1. ASSUME NEW c \in calls, BearsToken(c) PROVE c.with # r
    BY <1>2, <2>1 DEF Approve, HandedInv, HandedInCall, Handed
  <2>2. QED
    BY <1>2, <2>1 DEF Approve, RefusedInv
<1>3. ASSUME NEW r \in Requests, Deny(r) \/ RequestExpires(r) PROVE RefusedInv'
  BY <1>1, <1>3 DEF Deny, RequestExpires
<1>4. ASSUME NEW forGood \in BOOLEAN, PutOut(forGood) PROVE RefusedInv'
  BY <1>4, RefusedKeeps DEF PutOut, NoSessions
<1>5. ASSUME NEW t \in Tokens, SessionExpires(t) PROVE RefusedInv'
  BY <1>5, RefusedKeeps DEF SessionExpires
<1>6. ASSUME NEW c \in calls, NEW r \in Requests, ServeAsk(c, r) PROVE RefusedInv'
  <2>1. ~BearsToken(c)
    BY <1>6 DEF ServeAsk, Asked, BearsToken
  <2>2. QED
    BY <1>6, <2>1, RefusedAnswers, RefusedKeeps DEF ServeAsk
<1>7. ASSUME NEW c \in calls, ServePoll(c) PROVE RefusedInv'
  <2>1. ~BearsToken(c)
    BY <1>7 DEF ServePoll, Asked, BearsToken
  <2>2. PICK answer : Answers(c, answer)
    BY <1>7 DEF ServePoll
  <2>3. QED
    BY <1>7, <2>1, <2>2, RefusedAnswers, RefusedKeeps DEF ServePoll
<1>8. ASSUME NEW c \in calls, ServeResume(c) PROVE RefusedInv'
  <2>1. ~BearsToken(c)
    BY <1>8 DEF ServeResume, Asked, BearsToken
  <2>2. Answered(c, "minting").answer = "minting"
    BY CallParts DEF TypeOK
  <2>3. \A d \in calls' : d \in calls \/ ~Refused(d)
    <3>1. CASE ~revoked /\ c.with = cred
      BY <1>8, <2>2, <3>1 DEF ServeResume, Refused
    <3>2. CASE ~(~revoked /\ c.with = cred)
      BY <1>8, <2>1, <3>2, RefusedAnswers DEF ServeResume
    <3>3. QED
      BY <3>1, <3>2
  <2>4. QED
    BY <1>8, <2>3, RefusedKeeps DEF ServeResume
<1>9. ASSUME NEW c \in calls, Mint(c) PROVE RefusedInv'
  <2>1. PICK t \in FreshTokens : Unheld(t) /\ live' = live \cup {t} /\ Answers(c, t)
    BY <1>9 DEF Mint
  <2>2. t # "refused"
    BY <2>1, PhoneAssumption DEF Tokens, Words
  <2>3. \A d \in calls' : d \in calls \/ ~Refused(d)
    BY <2>1, <2>2, RefusedAnswers
  <2>4. \A d \in calls : d.with # t
    BY <2>1 DEF Unheld
  <2>5. QED
    BY <1>9, <2>1, <2>3, <2>4 DEF Mint, RefusedInv, Refused
<1>10. ASSUME NEW c \in calls, ServeState(c) \/ ServeSelect(c) PROVE RefusedInv'
  <2>1. CASE Accepted(c.with)
    <3>1. PICK answer : Answers(c, answer) /\ answer # "refused"
      BY <1>10, <2>1 DEF ServeState, ServeSelect
    <3>2. \A d \in calls' : d \in calls \/ ~Refused(d)
      BY <3>1, RefusedAnswers
    <3>3. QED
      BY <1>10, <3>2, RefusedKeeps DEF ServeState, ServeSelect
  <2>2. CASE ~Accepted(c.with)
    <3>1. ~overtook => c.with \notin live
      BY <2>2 DEF Accepted, ResumeInv
    <3>2. calls' \subseteq calls \cup {Answered(c, "refused"), Answered(c, "failed")}
      BY <1>10, <2>2 DEF ServeState, ServeSelect, Answers
    <3>3. Answered(c, "refused").with = c.with /\ Answered(c, "failed").answer = "failed"
      BY CallParts DEF TypeOK
    <3>4. UNCHANGED <<live, overtook>>
      BY <1>10 DEF ServeState, ServeSelect
    <3>5. QED
      BY <3>1, <3>2, <3>3, <3>4 DEF RefusedInv
  <2>3. QED
    BY <2>1, <2>2
<1>11. ASSUME NEW c \in calls, StateFails(c) PROVE RefusedInv'
  <2>1. \A d \in calls' : d \in calls \/ ~Refused(d)
    BY <1>11, RefusedAnswers DEF StateFails
  <2>2. QED
    BY <1>11, <2>1, RefusedKeeps DEF StateFails
<1>12. ASSUME NEW c \in calls, Lose(c) PROVE RefusedInv'
  <2>1. Answered(c, "failed").answer = "failed" /\ [c EXCEPT !.page = None].answer = c.answer
    BY CallParts DEF TypeOK
  <2>2. \A d \in calls' : d \in calls \/ ~Refused(d)
    BY <1>12, <2>1 DEF Lose, Refused
  <2>3. QED
    BY <1>12, <2>2, RefusedKeeps DEF Lose
<1>13. ASSUME NEW p \in Pages, NEW scanned \in BOOLEAN, Load(p, scanned) PROVE RefusedInv'
  <2> DEFINE next == IF scanned THEN {New(p, "ask", None)}
                     ELSE IF store.token # None THEN {New(p, "boot", store.token)}
                     ELSE Resume(p, store)
  <2>1. \A c \in Orphans(p) : ~Refused(c)
    <3>1. ASSUME NEW d \in calls PROVE [d EXCEPT !.page = None].answer = d.answer
      BY CallParts DEF TypeOK
    <3>2. QED
      BY <3>1 DEF Orphans, Refused
  <2>2. \A c \in next : ~Refused(c)
    BY DEF New, Nth, Resume, Refused
  <2>3. calls' \subseteq calls \cup Orphans(p) \cup next
    BY <1>13 DEF Load
  <2>4. \A c \in calls' : c \in calls \/ ~Refused(c)
    BY <2>1, <2>2, <2>3
  <2>5. QED
    BY <1>13, <2>4, RefusedKeeps DEF Load
<1>14. ASSUME NEW p \in Pages, \/ \E r \in Requests : SendPoll(p, r)
                               \/ SendState(p)
                               \/ \E kind \in {"select", "state"} : Tap(p, kind)
       PROVE  RefusedInv'
  <2>1. \A c \in calls' : c \in calls \/ ~Refused(c)
    BY <1>14 DEF SendPoll, SendState, Sends, Tap, New, Nth, Refused
  <2>2. QED
    BY <1>14, <2>1, RefusedKeeps DEF SendPoll, SendState, Tap
<1>15. ASSUME NEW c \in calls, \/ AskDone(c) \/ PollDone(c) \/ BootDone(c)
                               \/ ResumeDone(c) \/ StateDone(c) \/ SelectDone(c)
       PROVE  RefusedInv'
  <2>1. \A d \in calls' : d \in calls \/ ~Refused(d)
    BY <1>15
    DEF AskDone, PollDone, BootDone, ResumeDone, StateDone, SelectDone, Resume, New, Nth, Refused
  <2>2. QED
    BY <1>15, <2>1, RefusedKeeps
    DEF AskDone, PollDone, BootDone, ResumeDone, StateDone, SelectDone
<1>16. CASE UNCHANGED vars BY <1>1, <1>16 DEF vars
<1>17. QED
  BY <1>2, <1>3, <1>4, <1>5, <1>6, <1>7, <1>8, <1>9, <1>10, <1>11, <1>12, <1>13, <1>14, <1>15,
     <1>16 DEF Next, Serve, Arrive

\* Only a 401 of bootstrap, of a refresh or of a control takes a session from a page.
LEMMA DropStep ==
  ASSUME TypeOK, [Next]_vars, NEW p \in Pages,
         page[p].token # None, page'[p].token = None, loads' = loads
  PROVE  \E c \in calls \ calls' : /\ c.page = p /\ Unauthorized(c)
                                   /\ c.kind = "resume" \/ BearsToken(c)
<1> USE DEF server, phone, bounds, history
<1>1. page'[p].token # page[p].token
  OBVIOUS
<1>2. CASE \/ \E r \in Requests : Approve(r) \/ Deny(r) \/ RequestExpires(r)
           \/ \E forGood \in BOOLEAN : PutOut(forGood)
           \/ \E t \in Tokens : SessionExpires(t)
  BY <1>1, <1>2 DEF Approve, Deny, RequestExpires, PutOut, SessionExpires
<1>3. ASSUME NEW c \in calls, \/ \E r \in Requests : ServeAsk(c, r)
                              \/ ServePoll(c) \/ ServeResume(c) \/ Mint(c) \/ ServeState(c)
                              \/ StateFails(c) \/ Lose(c) \/ ServeSelect(c)
      PROVE  FALSE
  BY <1>1, <1>3
  DEF ServeAsk, ServePoll, ServeResume, Mint, ServeState, StateFails, Lose, ServeSelect
<1>4. ASSUME NEW q \in Pages, \/ \E scanned \in BOOLEAN : Load(q, scanned)
                              \/ \E r \in Requests : SendPoll(q, r)
                              \/ SendState(q)
                              \/ \E kind \in {"select", "state"} : Tap(q, kind)
      PROVE  FALSE
  BY <1>1, <1>4 DEF Load, SendPoll, SendState, Tap, TypeOK
<1>5. ASSUME NEW c \in calls, AskDone(c) PROVE FALSE
  BY <1>1, <1>5 DEF AskDone, TypeOK, Page
<1>6. ASSUME NEW c \in calls, PollDone(c) PROVE FALSE
  <2>1. c.page \in Pages /\ page[c.page] \in Page /\ page[p] \in Page
    BY <1>6, CallFields DEF PollDone, Arrived, TypeOK
  <2>2. CASE c.answer \in Requests
    <3>1. Told(c, Unpolled(Saved(page[c.page], c.answer), c.answer)).token = c.answer
      BY <2>1, <2>2, KeptTypes, KeptParts
    <3>2. c.answer # None
      BY <2>2, PhoneAssumption DEF Tokens
    <3>3. page'[p].token \in {page[p].token, c.answer}
      BY <1>6, <2>2, <3>1 DEF PollDone, TypeOK
    <3>4. QED
      BY <3>2, <3>3
  <2>3. CASE c.answer \notin Requests
    BY <1>1, <1>6, <2>1, <2>3, KeptParts, KeptTypes DEF PollDone, TypeOK
  <2>4. QED
    BY <2>2, <2>3
<1>7. ASSUME NEW c \in calls, BootDone(c) \/ ResumeDone(c) \/ StateDone(c) \/ SelectDone(c)
      PROVE  /\ c \notin calls' /\ c.page = p /\ Unauthorized(c)
             /\ c.kind = "resume" \/ BearsToken(c)
  <2>1. /\ c.page \in Pages /\ c \in Call /\ page[c.page] \in Page
        /\ AfterAnswer(c, page[c.page]) \in Page
    BY <1>7, CallFields, KeptTypes
    DEF BootDone, ResumeDone, StateDone, SelectDone, Arrived, TypeOK
  <2>2. c.kind = "resume" \/ BearsToken(c)
    BY <1>7 DEF BootDone, ResumeDone, StateDone, SelectDone, Arrived, BearsToken
  <2>3. c \notin calls'
    BY <1>7, PhoneAssumption
    DEF BootDone, ResumeDone, StateDone, SelectDone, Arrived, Resume, New, Nth, Tokens, Words
  <2>4. c.page = p
    BY <1>1, <1>7, <2>1 DEF BootDone, ResumeDone, StateDone, SelectDone, TypeOK
  <2>5. Unauthorized(c)
    <3>1. CASE BootDone(c) \/ StateDone(c) \/ SelectDone(c)
      BY <1>1, <2>1, <2>4, <3>1, KeptParts DEF BootDone, StateDone, SelectDone, TypeOK
    <3>2. CASE ResumeDone(c) /\ c.answer \in Tokens
      BY <2>1, <2>4, <3>2, PhoneAssumption DEF ResumeDone, TypeOK, Page
    <3>3. CASE ResumeDone(c) /\ c.answer \notin Tokens
      BY <1>1, <2>1, <2>4, <3>3, KeptParts DEF ResumeDone, TypeOK
    <3>4. QED
      BY <1>7, <3>1, <3>2, <3>3
  <2>6. QED
    BY <2>2, <2>3, <2>4, <2>5
<1>8. CASE UNCHANGED vars BY <1>1, <1>8 DEF vars
<1>9. QED
  BY <1>2, <1>3, <1>4, <1>5, <1>6, <1>7, <1>8 DEF Next, Serve, Arrive

\* A session the desktop accepts is dropped by a page (app.js 16) only for an answer to
\* what was sent for another session or for the credential, or about a marker that is not
\* valid (core.py 658-663).
THEOREM DropsForOthers == Spec => DropsForOthersOnly
<1>1. TypeOK /\ RefusedInv /\ [Next]_vars =>
        [\A p \in Pages :
           Accepted(page[p].token) /\ page'[p].token = None /\ loads' = loads /\ ~overtook
             => \E c \in calls \ calls' :
                  c.page = p /\ (c.kind = "resume" \/ c.with # page[p].token \/ c.answer = "spent")]_vars
  <2> SUFFICES ASSUME TypeOK, RefusedInv, [Next]_vars, NEW p \in Pages,
                      Accepted(page[p].token), page'[p].token = None, loads' = loads, ~overtook
               PROVE  \E c \in calls \ calls' :
                        c.page = p
                          /\ (c.kind = "resume" \/ c.with # page[p].token \/ c.answer = "spent")
    OBVIOUS
  <2>1. page[p].token \in live /\ page[p].token # None
    BY PhoneAssumption DEF Accepted, TypeOK
  <2>2. PICK c \in calls \ calls' : /\ c.page = p /\ Unauthorized(c)
                                    /\ c.kind = "resume" \/ BearsToken(c)
    BY <2>1, DropStep
  <2>3. c.answer = "refused" /\ BearsToken(c) => c.with \notin live
    BY <2>2 DEF RefusedInv
  <2>4. QED
    BY <2>1, <2>2, <2>3 DEF Unauthorized
<1>2. QED
  BY <1>1, TypeInit, TypeStep, ResumeInit, ResumeStep, HandedInit, HandedStep, RefusedStep, PTL
  DEF Spec, DropsForOthersOnly

-----------------------------------------------------------------------------
(***************************************************************************)
(* The credential of the phone is the desktop's.                           *)
(***************************************************************************)
\* What the phone saved was approved once, and, unless there are rivals, nothing but the
\* credential the desktop has is left to save.
SavedInv ==
  /\ \A r \in collected : Handed(r)
  /\ ~rivals => \A q \in Requests : Savable(q) => q = cred

\* Nobody has asked for anything at first.
LEMMA SavedInit == Init => SavedInv /\ CredentialIsCurrent
BY DEF Init, SavedInv, Savable, CredentialIsCurrent

\* It is enough that a step makes nothing savable that was not.
LEMMA SavedKeeps ==
  ASSUME TypeOK, SavedInv, [Next]_vars, UNCHANGED <<cred, rivals>>,
         \A r \in collected' : r \in collected \/ Handed(r),
         \A q \in Requests : Savable(q)' => Savable(q)
  PROVE  SavedInv'
BY HandedStays DEF SavedInv

\* A step that approves nothing and lets no page or call poll for more.
Quiet ==
  /\ UNCHANGED <<cred, rivals, collected>>
  /\ \A q \in Requests : status'[q] = "approved" => status[q] = "approved"
  /\ \A p \in Pages : page'[p].polls \subseteq page[p].polls
  /\ \A d \in calls' :
       \/ d \in calls \/ d.kind \notin {"ask", "poll"}
       \/ d.answer \notin Requests /\ (d.page = None \/ d.kind = "ask" \/ d.answer # "none")

\* Nothing is savable after it that was not before.
LEMMA SavedQuiet == TypeOK /\ SavedInv /\ [Next]_vars /\ Quiet => SavedInv'
<1> SUFFICES ASSUME TypeOK, SavedInv, [Next]_vars, Quiet PROVE SavedInv'
  OBVIOUS
<1>1. ASSUME NEW q \in Requests, Savable(q)' PROVE Savable(q)
  BY <1>1 DEF Quiet, Savable, Polled
<1>2. QED
  BY <1>1, SavedKeeps DEF Quiet

\* An answer of the server that is no request makes none savable.
LEMMA SavedAnswers ==
  ASSUME TypeOK, SavedInv, [Next]_vars, UNCHANGED <<status, cred, page, rivals, collected>>,
         NEW c \in calls, NEW answer, Answers(c, answer), answer \notin Requests, answer # "none"
  PROVE  SavedInv'
<1>1. Answered(c, answer).answer = answer
  BY CallParts DEF TypeOK
<1>2. \A d \in calls' : d \in calls \/ (d.answer \notin Requests /\ d.answer # "none")
  BY <1>1 DEF Answers
<1>3. Quiet
  BY <1>2 DEF Quiet
<1>4. QED
  BY <1>3, SavedQuiet

\* Every step: an approval leaves nothing else to save unless it makes rivals, and what
\* cannot be saved any more does not come back.
LEMMA SavedStep == TypeOK /\ HandedInv /\ SavedInv /\ [Next]_vars => SavedInv'
<1> SUFFICES ASSUME TypeOK, HandedInv, SavedInv, [Next]_vars PROVE SavedInv'
  OBVIOUS
<1> USE DEF server, phone, bounds, history
<1>a. /\ Words \cap Requests = {} /\ FreshTokens \cap Requests = {} /\ None \notin Pages
      /\ Words \cap FreshTokens = {}
  BY PhoneAssumption DEF Tokens
<1>b. \A p \in Pages : page[p] \in Page
  BY DEF TypeOK
<1>1. ASSUME NEW r \in Requests, Approve(r) PROVE SavedInv'
  <2>1. ASSUME NEW q \in Requests \ {r}, Savable(q)' PROVE Savable(q)
    BY <1>1, <2>1 DEF Approve, Savable, Polled, TypeOK
  <2>2. \A q \in collected' : Handed(q)'
    BY <1>1, HandedStays DEF Approve, SavedInv
  <2>3. QED
    BY <1>1, <2>1, <2>2 DEF Approve, SavedInv
<1>2. CASE \/ \E r \in Requests : Deny(r) \/ RequestExpires(r)
           \/ \E forGood \in BOOLEAN : PutOut(forGood)
           \/ \E t \in Tokens : SessionExpires(t)
  <2>1. /\ UNCHANGED <<page, calls, cred, rivals, collected>>
        /\ \A q \in Requests : status'[q] = "approved" => status[q] = "approved"
    BY <1>2 DEF Deny, RequestExpires, PutOut, SessionExpires, TypeOK
  <2>2. QED
    BY <2>1, SavedQuiet DEF Quiet
<1>3. ASSUME NEW c \in calls, NEW r \in Requests, ServeAsk(c, r) PROVE SavedInv'
  <2>1. Answered(c, r).kind = "ask" /\ Answered(c, r).answer = r
    BY <1>3, CallParts DEF ServeAsk, Asked, TypeOK
  <2>2. \A d \in calls' : d \in calls \/ (d.kind = "ask" /\ d.answer = r)
    BY <1>3, <2>1 DEF ServeAsk, Answers
  <2>3. status'[r] = "pending" /\ \A q \in Requests \ {r} : status'[q] = status[q]
    BY <1>3 DEF ServeAsk, TypeOK
  <2>4. UNCHANGED <<page, rivals, cred, collected>>
    BY <1>3 DEF ServeAsk
  <2>5. \A q \in Requests : Savable(q)' => Savable(q)
    BY <2>2, <2>3, <2>4 DEF Savable, Polled
  <2>6. QED
    BY <2>4, <2>5, SavedKeeps
<1>4. ASSUME NEW c \in calls, ServePoll(c) PROVE SavedInv'
  <2>1. c.kind = "poll" /\ c.answer = "none" /\ c.with \in Requests
    BY <1>4, CallFields DEF ServePoll, Asked, TypeOK
  <2>2. UNCHANGED <<page, rivals, cred, collected, status>>
    BY <1>4 DEF ServePoll
  <2>3. PICK answer : /\ Answers(c, answer)
                      /\ \/ answer = c.with /\ status[c.with] = "approved"
                         \/ answer \in Words /\ answer # "none"
    BY <1>4, <2>1 DEF ServePoll, TypeOK, Words
  <2>4. CASE answer \in Words /\ answer # "none"
    BY <1>a, <2>2, <2>3, <2>4, SavedAnswers
  <2>5. CASE answer = c.with /\ status[c.with] = "approved"
    <3>1. Answered(c, answer).answer = c.with
      BY <2>5, CallParts DEF TypeOK
    <3>2. \A d \in calls' : d \in calls \/ (c.page # None /\ d.answer = c.with)
      BY <2>3, <3>1 DEF Answers
    <3>3. c.page # None => Savable(c.with)
      BY <2>1, <2>5 DEF Savable, Polled
    <3>4. "none" \notin Requests
      BY <1>a DEF Words
    <3>5. ASSUME NEW q \in Requests, Savable(q)' PROVE Savable(q)
      <4>1. CASE c.page # None /\ q = c.with
        BY <3>3, <4>1
      <4>2. CASE ~(c.page # None /\ q = c.with)
        BY <2>1, <2>2, <3>2, <3>4, <3>5, <4>2 DEF Savable, Polled
      <4>3. QED
        BY <4>1, <4>2
    <3>6. QED
      BY <2>2, <3>5, SavedKeeps
  <2>6. QED
    BY <2>3, <2>4, <2>5
<1>5. ASSUME NEW c \in calls, ServeResume(c) PROVE SavedInv'
  <2>1. CASE ~revoked /\ c.with = cred
    <3>1. Answered(c, "minting").answer = "minting"
      BY CallParts DEF TypeOK
    <3>2. \A d \in calls' : d \in calls \/ (d.answer \notin Requests /\ d.answer # "none")
      BY <1>5, <1>a, <2>1, <3>1 DEF ServeResume, Words
    <3>3. QED
      <4>1. Quiet
        BY <1>5, <3>2 DEF ServeResume, Quiet
      <4>2. QED
        BY <4>1, SavedQuiet
  <2>2. CASE ~(~revoked /\ c.with = cred)
    BY <1>5, <1>a, <2>2, SavedAnswers DEF ServeResume, Words
  <2>3. QED
    BY <2>1, <2>2
<1>6. ASSUME NEW c \in calls, Mint(c) PROVE SavedInv'
  <2>1. PICK t \in FreshTokens : Answers(c, t)
    BY <1>6 DEF Mint
  <2>2. t \notin Requests /\ t # "none"
    BY <1>a DEF Words
  <2>3. QED
    BY <1>6, <2>1, <2>2, SavedAnswers DEF Mint
<1>7. ASSUME NEW c \in calls, ServeState(c) \/ StateFails(c) \/ ServeSelect(c) PROVE SavedInv'
  <2>1. PICK answer \in {"ok", "refused", "failed", "spent"} : Answers(c, answer)
    BY <1>7 DEF ServeState, StateFails, ServeSelect
  <2>2. answer \notin Requests /\ answer # "none"
    BY <1>a DEF Words
  <2>3. QED
    BY <1>7, <2>1, <2>2, SavedAnswers DEF ServeState, StateFails, ServeSelect
<1>8. ASSUME NEW c \in calls, Lose(c) PROVE SavedInv'
  <2>1. /\ Answered(c, "failed").answer = "failed"
        /\ [c EXCEPT !.page = None].answer = c.answer
    BY CallParts DEF TypeOK
  <2>2. \A d \in calls' : d \in calls \/ (d.answer \notin Requests /\ d.answer # "none")
    BY <1>8, <1>a, <2>1 DEF Lose, Words
  <2>3. QED
    <3>1. Quiet
      BY <1>8, <2>2 DEF Lose, Quiet
    <3>2. QED
      BY <3>1, SavedQuiet
<1>9. ASSUME NEW p \in Pages, NEW scanned \in BOOLEAN, Load(p, scanned) PROVE SavedInv'
  <2>1. \A d \in Orphans(p) : d.page = None /\ d.answer \notin Requests
    <3>1. ASSUME NEW d \in Orphans(p) PROVE d.page = None /\ d.answer \in {"none", "minting"}
      <4>1. PICK e \in calls : d = [e EXCEPT !.page = None] /\ e.answer \in {"none", "minting"}
        BY DEF Orphans
      <4>2. QED
        BY <4>1, CallParts DEF TypeOK
    <3>2. QED
      BY <1>a, <3>1 DEF Words
  <2>2. /\ New(p, "ask", None).kind = "ask" /\ New(p, "ask", None).answer \notin Requests
        /\ New(p, "boot", store.token).kind = "boot"
        /\ \A d \in Resume(p, store) : d.kind = "resume"
    BY <1>a DEF New, Nth, Resume, Words
  <2>3. \A d \in calls' : \/ d \in calls \/ d \in Orphans(p) \/ d = New(p, "ask", None)
                          \/ d.kind \in {"boot", "resume"}
    BY <1>9, <2>2 DEF Load
  <2>4. \A q \in Pages : page'[q].polls \subseteq page[q].polls
    BY <1>9 DEF Load, TypeOK
  <2>5. QED
    <3>1. UNCHANGED <<status, cred, rivals, collected>>
      BY <1>9 DEF Load
    <3>2. Quiet
      BY <2>1, <2>2, <2>3, <2>4, <3>1 DEF Quiet
    <3>3. QED
      BY <3>2, SavedQuiet
<1>10. ASSUME NEW p \in Pages, NEW r \in Requests, SendPoll(p, r) PROVE SavedInv'
  <2>1. PICK n \in Nat : calls' = calls \cup {Nth(p, "poll", r, n)}
    BY <1>10, PhoneAssumption, SendsOne DEF SendPoll
  <2>2. /\ Nth(p, "poll", r, n).kind = "poll" /\ Nth(p, "poll", r, n).with = r
        /\ Nth(p, "poll", r, n).answer \notin Requests
    BY <1>a DEF Nth, Words
  <2>3. r \in page[p].polls /\ UNCHANGED <<status, cred, page, rivals, collected>>
    BY <1>10 DEF SendPoll
  <2>4. \A q \in Requests : Savable(q)' => Savable(q)
    BY <2>1, <2>2, <2>3 DEF Savable, Polled
  <2>5. QED
    BY <2>3, <2>4, SavedKeeps
<1>11. ASSUME NEW p \in Pages, SendState(p) \/ \E kind \in {"select", "state"} : Tap(p, kind)
       PROVE  SavedInv'
  <2>1. \A d \in calls' : d \in calls \/ d.kind \notin {"ask", "poll"}
    BY <1>11 DEF SendState, Tap, Sends, New, Nth
  <2>2. QED
    <3>1. Quiet
      BY <1>11, <2>1 DEF SendState, Tap, Quiet
    <3>2. QED
      BY <3>1, SavedQuiet
<1>12. ASSUME NEW c \in calls, AskDone(c) PROVE SavedInv'
  <2>1. c.page \in Pages /\ c.page # None /\ c.kind = "ask"
    BY <1>12, CallFields DEF AskDone, Arrived, TypeOK
  <2>2. \A p \in Pages : \A q \in page'[p].polls : q \in page[p].polls \/ q = c.answer
    BY <1>12, <1>b, <2>1 DEF AskDone, TypeOK, Page
  <2>3. UNCHANGED <<status, rivals, cred, collected>> /\ calls' \subseteq calls
    BY <1>12 DEF AskDone
  <2>4. \A q \in Requests : Savable(q)' => Savable(q)
    BY <2>1, <2>2, <2>3 DEF Savable, Polled
  <2>5. QED
    BY <2>3, <2>4, SavedKeeps
<1>13. ASSUME NEW c \in calls, PollDone(c) PROVE SavedInv'
  <2>1. c.page \in Pages /\ c.kind = "poll"
    BY <1>13, CallFields DEF PollDone, Arrived, TypeOK
  <2>2. \A p \in Pages : page'[p].polls \subseteq page[p].polls
    <3>1. CASE c.answer \in Requests
      <4>1. /\ Saved(page[c.page], c.answer) \in Page
            /\ Unpolled(Saved(page[c.page], c.answer), c.answer) \in Page
        BY <1>b, <2>1, <3>1, KeptTypes
      <4>2. Told(c, Unpolled(Saved(page[c.page], c.answer), c.answer)).polls
              \subseteq page[c.page].polls
        BY <1>b, <2>1, <4>1, KeptParts
      <4>3. QED
        BY <1>13, <2>1, <3>1, <4>2 DEF PollDone, TypeOK
    <3>2. CASE c.answer \notin Requests
      <4>1. PICK known \in {page[c.page], Unpolled(page[c.page], c.with)} :
              page' = [page EXCEPT ![c.page] = Told(c, known)]
        BY <1>13, <2>1, <3>2 DEF PollDone
      <4>2. /\ known \in Page /\ known.polls \subseteq page[c.page].polls
        BY <1>b, <2>1, KeptTypes, KeptParts
      <4>3. Told(c, known).polls = known.polls
        BY <4>2, KeptParts
      <4>4. QED
        BY <2>1, <4>1, <4>2, <4>3 DEF TypeOK
    <3>3. QED
      BY <3>1, <3>2
  <2>3. \A d \in calls' : d \in calls \/ d.kind = "state"
    BY <1>13 DEF PollDone, New, Nth
  <2>4. UNCHANGED <<status, rivals, cred>>
    BY <1>13 DEF PollDone
  <2>5. \A r \in collected' : r \in collected \/ Handed(r)
    BY <1>13, <2>1 DEF PollDone, HandedInv, HandedInCall
  <2>6. \A q \in Requests : Savable(q)' => Savable(q)
    BY <2>2, <2>3, <2>4 DEF Savable, Polled
  <2>7. QED
    BY <2>4, <2>5, <2>6, SavedKeeps
<1>14. ASSUME NEW c \in calls, BootDone(c) \/ ResumeDone(c) \/ StateDone(c) \/ SelectDone(c)
       PROVE  SavedInv'
  <2>1. c.page \in Pages /\ page[c.page] \in Page
    BY <1>b, <1>14, CallFields
    DEF BootDone, ResumeDone, StateDone, SelectDone, Arrived, TypeOK
  <2>2. \A d \in calls' : d \in calls \/ d.kind \notin {"ask", "poll"}
    BY <1>14 DEF BootDone, ResumeDone, StateDone, SelectDone, Resume, New, Nth
  <2>3. AfterAnswer(c, page[c.page]) \in Page
    BY <2>1, KeptTypes DEF TypeOK
  <2>4. \A p \in Pages : page'[p].polls = page[p].polls
    <3>1. CASE BootDone(c) \/ StateDone(c) \/ SelectDone(c)
      BY <2>1, <2>3, <3>1, KeptParts DEF BootDone, StateDone, SelectDone, TypeOK
    <3>2. CASE ResumeDone(c)
      BY <2>1, <2>3, <3>2, KeptParts DEF ResumeDone, TypeOK, Page
    <3>3. QED
      BY <1>14, <3>1, <3>2
  <2>5. QED
    <3>1. Quiet
      BY <1>14, <2>2, <2>4 DEF BootDone, ResumeDone, StateDone, SelectDone, Quiet
    <3>2. QED
      BY <3>1, SavedQuiet
<1>15. CASE UNCHANGED vars
  BY <1>15, SavedQuiet DEF vars, Quiet
<1>16. QED
  BY <1>1, <1>2, <1>3, <1>4, <1>5, <1>6, <1>7, <1>8, <1>9, <1>10, <1>11, <1>12, <1>13, <1>14,
     <1>15 DEF Next, Serve, Arrive

\* Only an approval changes the device's credential, and only the answer to a poll the
\* phone's (core.py 189-216, app.js 30 and 36).
LEMMA CredStep ==
  TypeOK /\ SavedInv /\ CredentialIsCurrent /\ [Next]_vars => CredentialIsCurrent'
<1> SUFFICES ASSUME TypeOK, SavedInv, CredentialIsCurrent, [Next]_vars
             PROVE  CredentialIsCurrent'
  OBVIOUS
<1> USE DEF server, phone, bounds, history
<1>1. ASSUME UNCHANGED <<cred, collected, rivals>>, store'.cred = store.cred
      PROVE  CredentialIsCurrent'
  BY <1>1 DEF CredentialIsCurrent
<1>2. ASSUME NEW r \in Requests, Approve(r) PROVE CredentialIsCurrent'
  BY <1>2 DEF Approve, CredentialIsCurrent, SavedInv, Handed
<1>3. ASSUME NEW c \in calls, PollDone(c) PROVE CredentialIsCurrent'
  <2>1. CASE c.answer \in Requests
    <3>1. ~rivals => c.answer = cred
      BY <1>3, <2>1 DEF PollDone, Arrived, SavedInv, Savable
    <3>2. store'.cred = c.answer
      BY <1>3, <2>1 DEF PollDone, Saved, TypeOK, Store
    <3>3. QED
      BY <1>3, <3>1, <3>2 DEF PollDone, CredentialIsCurrent
  <2>2. CASE c.answer \notin Requests
    BY <1>1, <1>3, <2>2 DEF PollDone
  <2>3. QED
    BY <2>1, <2>2
<1>4. ASSUME NEW c \in calls, BootDone(c) \/ ResumeDone(c) \/ StateDone(c) \/ SelectDone(c)
      PROVE  CredentialIsCurrent'
  <2>1. store'.cred = store.cred
    BY <1>4 DEF BootDone, ResumeDone, StateDone, SelectDone, AfterAnswer, TypeOK, Store
  <2>2. QED
    BY <1>1, <1>4, <2>1 DEF BootDone, ResumeDone, StateDone, SelectDone
<1>5. CASE \/ \E r \in Requests : Deny(r) \/ RequestExpires(r)
           \/ \E forGood \in BOOLEAN : PutOut(forGood)
           \/ \E t \in Tokens : SessionExpires(t)
  BY <1>1, <1>5 DEF Deny, RequestExpires, PutOut, SessionExpires
<1>6. CASE \E c \in calls : \/ \E r \in Requests : ServeAsk(c, r)
                            \/ ServePoll(c) \/ ServeResume(c) \/ Mint(c) \/ ServeState(c)
                            \/ StateFails(c) \/ Lose(c) \/ AskDone(c) \/ ServeSelect(c)
  BY <1>1, <1>6 DEF ServeAsk, ServePoll, ServeResume, Mint, ServeState, StateFails, Lose, AskDone,
                    ServeSelect
<1>7. CASE \E p \in Pages : \/ \E scanned \in BOOLEAN : Load(p, scanned)
                            \/ \E r \in Requests : SendPoll(p, r)
                            \/ SendState(p)
                            \/ \E kind \in {"select", "state"} : Tap(p, kind)
  BY <1>1, <1>7 DEF Load, SendPoll, SendState, Tap
<1>8. CASE UNCHANGED vars BY <1>1, <1>8 DEF vars
<1>9. QED
  BY <1>2, <1>3, <1>4, <1>5, <1>6, <1>7, <1>8 DEF Next, Serve, Arrive

\* Once the phone has collected the credential the desktop has, this is the one it stores,
\* unless a request was approved while it could still save another (core.py 189-216, app.js
\* 30 and 36): for any number of pages, requests and polls at a time, whatever is lost and
\* in whatever order answers arrive.
THEOREM CredentialsAgree == Spec => []CredentialIsCurrent
BY TypeInit, TypeStep, HandedInit, HandedStep, SavedInit, SavedStep, CredStep, PTL DEF Spec
=============================================================================
