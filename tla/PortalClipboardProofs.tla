----------------------- MODULE PortalClipboardProofs -----------------------
(***************************************************************************)
(* Theorems about PortalClipboard, for any number of transfers, any texts, *)
(* delays and limits, and an unbounded history.                            *)
(***************************************************************************)
EXTENDS PortalClipboard, FiniteSetTheorems, TLAPS

\* A new row keeps a table a table (the INSERT of clipboard_set).
LEMMA PutIsTable ==
  ASSUME NEW K, NEW R, NEW f, IsTable(f, K, R), NEW k \in K, NEW row \in R
  PROVE  IsTable(Put(f, k, row), K, R)
BY DEF IsTable, Put

\* The rows a DELETE keeps form a table.
LEMMA RestrictIsTable ==
  ASSUME NEW K, NEW R, NEW f, IsTable(f, K, R), NEW S \in SUBSET DOMAIN f
  PROVE  IsTable(Restrict(f, S), K, R)
BY DEF IsTable, Restrict

\* A transfer takes its next step.
LEMMA JobUpdate ==
  ASSUME TypeOK, NEW x \in Transfers, NEW v \in Job, Become(x, v)
  PROVE  /\ job' \in [Transfers -> Job]
         /\ job'[x] = v
         /\ \A y \in Transfers \ {x} : job'[y] = job[y]
BY DEF TypeOK, Become

\* What a transfer remembers, by the step it is at.
LEMMA JobFields ==
  ASSUME NEW j \in Job
  PROVE  /\ j.step = "record" => j.at \in Nat
         /\ j.step = "answer" => j.text \in Texts /\ j.delay \in Nat
         /\ j.step = "wait" => j.text \in Texts /\ j.due \in Nat
         /\ j.step = "clear" => j.text \in Texts
BY DEF Job, New, Done

-----------------------------------------------------------------------------
(***************************************************************************)
(* Type correctness.                                                       *)
(***************************************************************************)
\* The clipboard is empty and nothing was transferred at first.
LEMMA TypeInit == Init => TypeOK
BY ClipboardAssumption DEF Init, TypeOK, IsTable, EmptyTable, Job

\* Every step of a transfer, of the other programs and of cleanup keeps the types.
LEMMA TypeStep == TypeOK /\ [Next]_vars => TypeOK'
<1> SUFFICES ASSUME TypeOK, [Next]_vars PROVE TypeOK'
  OBVIOUS
<1> USE ClipboardAssumption
<1>1. ASSUME NEW x \in Transfers, NEW text \in Texts, NEW secure \in BOOLEAN,
             NEW delay \in Delays, Begin(x, text, secure, delay)
      PROVE  TypeOK'
  <2>1. clipboard' \in Texts /\ overtaken' \subseteq Transfers
    BY <1>1 DEF Begin, Copy, TypeOK
  <2>2. PICK v \in Job : Become(x, v)
    BY <1>1 DEF Begin, Job, TypeOK
  <2>3. job' \in [Transfers -> Job]
    BY <2>2, JobUpdate
  <2>4. QED
    BY <1>1, <2>1, <2>3 DEF Begin, TypeOK
<1>2. ASSUME NEW x \in Transfers, Record(x) PROVE TypeOK'
  <2>1. PreviewAt(job[x].at) \in Preview
    <3>1. job[x].at \in Nat
      BY <1>2, JobFields DEF Record, TypeOK
    <3>2. QED
      BY <3>1 DEF PreviewAt, Preview
  <2>2. IsTable(history', Transfers, Preview) /\ IsTable(recorded', Transfers, Preview)
    BY <1>2, <2>1, PutIsTable DEF Record, TypeOK
  <2>3. job' \in [Transfers -> Job]
    BY <1>2, JobUpdate DEF Record, Job
  <2>4. QED
    BY <1>2, <2>2, <2>3 DEF Record, TypeOK
<1>3. ASSUME NEW x \in Transfers, Trim(x) PROVE TypeOK'
  <2>1. IsTable(history', Transfers, Preview)
    BY <1>3, RestrictIsTable DEF Trim, TypeOK
  <2>2. job' \in [Transfers -> Job]
    BY <1>3, JobUpdate DEF Trim, Job
  <2>3. QED
    BY <1>3, <2>1, <2>2 DEF Trim, TypeOK
<1>4. ASSUME NEW x \in Transfers, Answer(x) PROVE TypeOK'
  <2>1. job[x].text \in Texts /\ job[x].delay \in Nat
    BY <1>4, JobFields DEF Answer, TypeOK
  <2>2. PICK v \in Job : Become(x, v)
    BY <1>4, <2>1 DEF Answer, Job, TypeOK
  <2>3. job' \in [Transfers -> Job]
    BY <2>2, JobUpdate
  <2>4. QED
    BY <1>4, <2>3 DEF Answer, TypeOK
<1>5. ASSUME NEW x \in Transfers, Fire(x) PROVE TypeOK'
  <2>1. job[x].text \in Texts
    BY <1>5, JobFields DEF Fire, TypeOK
  <2>2. PICK v \in Job : Become(x, v)
    BY <1>5, <2>1 DEF Fire, Job
  <2>3. job' \in [Transfers -> Job]
    BY <2>2, JobUpdate
  <2>4. QED
    BY <1>5, <2>3 DEF Fire, TypeOK
<1>6. ASSUME NEW x \in Transfers, Clear(x) PROVE TypeOK'
  <2>1. clipboard' \in Texts /\ overtaken' \subseteq Transfers
    BY <1>6 DEF Clear, Copy, TypeOK
  <2>2. job' \in [Transfers -> Job]
    BY <1>6, JobUpdate DEF Clear, Job
  <2>3. QED
    BY <1>6, <2>1, <2>2 DEF Clear, TypeOK
<1>7. ASSUME NEW text \in Texts, OtherCopies(text) PROVE TypeOK'
  BY <1>7 DEF OtherCopies, Copy, TypeOK
<1>8. CASE Cleanup
  <2>1. IsTable(history', Transfers, Preview)
    BY <1>8 DEF Cleanup, Keep, RestrictValues, Restrict, IsTable, TypeOK
  <2>2. QED
    BY <1>8, <2>1 DEF Cleanup, TypeOK
<1>9. CASE Tick
  BY <1>9 DEF Tick, TypeOK
<1>10. CASE Interrupt
  <2>1. PICK S \in SUBSET Transfers : End(S)
    BY <1>10 DEF Interrupt
  <2>2. job' \in [Transfers -> Job] /\ cut' \subseteq Transfers
    BY <2>1 DEF End, Job, TypeOK
  <2>3. QED
    BY <1>10, <2>2 DEF Interrupt, TypeOK
<1>11. CASE UNCHANGED vars
  BY <1>11 DEF vars, TypeOK
<1>12. QED
  BY <1>1, <1>2, <1>3, <1>4, <1>5, <1>6, <1>7, <1>8, <1>9, <1>10, <1>11
     DEF Next, Continue

\* Every reachable state of PortalClipboard is well typed.
THEOREM TypeCorrect == Spec => []TypeOK
BY TypeInit, TypeStep, PTL DEF Spec

-----------------------------------------------------------------------------
(***************************************************************************)
(* A timer clears its own text, or what was copied in that very moment.    *)
(***************************************************************************)
\* Whoever changes the clipboard overtakes all the timers that have compared.
LEMMA CopyOvertakes ==
  ASSUME TypeOK, NEW text, Copy(text), NEW y \in Transfers, job[y].step = "clear"
  PROVE  clipboard' = clipboard \/ y \in overtaken'
BY DEF Copy

\* Being overtaken is for good.
LEMMA OvertakenStays ==
  ASSUME [Next]_vars
  PROVE  overtaken \subseteq overtaken'
BY DEF Next, Continue, vars, Begin, Record, Trim, Answer, Fire, Clear, OtherCopies,
       Copy, Cleanup, Tick, Interrupt

\* The comparison holds when it is made, and no step makes it false unnoticed.
LEMMA ClearsStep ==
  TypeOK /\ ClearsTransferredText /\ [Next]_vars => ClearsTransferredText'
<1> SUFFICES ASSUME TypeOK, ClearsTransferredText, [Next]_vars,
                    NEW y \in Transfers, job'[y].step = "clear"
             PROVE  Pasted(clipboard)' = job'[y].text \/ y \in overtaken'
  BY DEF ClearsTransferredText, Pasted
<1> DEFINE Kept == job'[y] = job[y]
<1>1. ASSUME Kept, UNCHANGED clipboard
      PROVE  Pasted(clipboard)' = job'[y].text \/ y \in overtaken'
  BY <1>1, OvertakenStays DEF ClearsTransferredText, Pasted
<1>2. ASSUME Kept, NEW text, Copy(text)
      PROVE  Pasted(clipboard)' = job'[y].text \/ y \in overtaken'
  <2>1. clipboard' = clipboard \/ y \in overtaken'
    BY <1>2, CopyOvertakes
  <2>2. QED
    BY <1>1, <1>2, <2>1
<1>3. ASSUME NEW x \in Transfers, NEW text \in Texts, NEW secure \in BOOLEAN,
             NEW delay \in Delays, Begin(x, text, secure, delay)
      PROVE  Pasted(clipboard)' = job'[y].text \/ y \in overtaken'
  <2>1. PICK v : Become(x, v) /\ v.step # "clear"
    BY <1>3 DEF Begin, Done
  <2>2. Kept
    BY <2>1 DEF Become, TypeOK
  <2>3. QED
    BY <1>2, <1>3, <2>2 DEF Begin
<1>4. ASSUME NEW x \in Transfers, Record(x) \/ Trim(x) \/ Answer(x)
      PROVE  Pasted(clipboard)' = job'[y].text \/ y \in overtaken'
  <2>1. PICK v : Become(x, v) /\ v.step # "clear"
    BY <1>4 DEF Record, Trim, Answer, Done
  <2>2. Kept
    BY <2>1 DEF Become, TypeOK
  <2>3. QED
    BY <1>1, <1>4, <2>2 DEF Record, Trim, Answer
<1>5. ASSUME NEW x \in Transfers, Fire(x)
      PROVE  Pasted(clipboard)' = job'[y].text \/ y \in overtaken'
  <2>1. CASE x = y
    <3>1. Unchanged(y)
      BY <1>5, <2>1 DEF Fire, Become, Done, TypeOK
    <3>2. job'[y].text = job[y].text
      BY <1>5, <2>1, <3>1 DEF Fire, Become, TypeOK
    <3>3. QED
      BY <1>5, <3>1, <3>2 DEF Fire, Unchanged, Pasted
  <2>2. CASE x # y
    BY <1>1, <1>5, <2>2 DEF Fire, Become, TypeOK
  <2>3. QED
    BY <2>1, <2>2
<1>6. ASSUME NEW x \in Transfers, Clear(x)
      PROVE  Pasted(clipboard)' = job'[y].text \/ y \in overtaken'
  <2>1. Kept
    BY <1>6 DEF Clear, Become, Done, TypeOK
  <2>2. QED
    BY <1>2, <1>6, <2>1 DEF Clear
<1>7. ASSUME NEW text \in Texts, OtherCopies(text)
      PROVE  Pasted(clipboard)' = job'[y].text \/ y \in overtaken'
  BY <1>2, <1>7 DEF OtherCopies
<1>8. CASE Cleanup \/ Tick \/ UNCHANGED vars
  BY <1>1, <1>8 DEF Cleanup, Tick, vars
<1>9. CASE Interrupt
  <2>1. PICK S \in SUBSET Transfers : End(S)
    BY <1>9 DEF Interrupt
  <2>2. Kept
    BY <2>1 DEF End, Done, TypeOK
  <2>3. QED
    BY <1>1, <1>9, <2>2 DEF Interrupt
<1>10. QED
  BY <1>3, <1>4, <1>5, <1>6, <1>7, <1>8, <1>9 DEF Next, Continue

\* A timer that is about to clear the clipboard clears the text it was started for,
\* unless another text was copied after it compared (service.py 187-192): for any
\* number of transfers and timers that interleave in any way.
THEOREM ClearsOwnText == Spec => []ClearsTransferredText
<1>1. Init => ClearsTransferredText
  BY DEF Init, ClearsTransferredText, New
<1>2. QED
  BY <1>1, TypeInit, TypeStep, ClearsStep, PTL DEF Spec
-----------------------------------------------------------------------------
(***************************************************************************)
(* The history holds the newest previews.                                  *)
(***************************************************************************)
\* The threads whose DELETE has not followed their INSERT, or never will.
Untrimmed == cut \cup {x \in Transfers : job[x].step = "trim"}

\* What the history is counted against: a row is one that was inserted, by a thread
\* that inserts no other, and of all of this there is only so much.
HistoryInv ==
  /\ IsFiniteSet(DOMAIN recorded)
  /\ DOMAIN history \subseteq DOMAIN recorded
  /\ \A x \in DOMAIN history : history[x] = recorded[x]
  /\ Untrimmed \subseteq DOMAIN recorded
  /\ \A x \in cut : job[x] = Done
  /\ \A x \in Transfers : job[x].step \in {"new", "record"} => x \notin DOMAIN recorded

\* HistoryIsShort in these words.
LEMMA ShortAs == HistoryIsShort <=> Cardinality(DOMAIN history) <= Limit + Cardinality(Untrimmed)
BY DEF HistoryIsShort, Untrimmed

\* All of it is finite, and counts in naturals.
LEMMA Counted ==
  ASSUME HistoryInv
  PROVE  /\ IsFiniteSet(DOMAIN history) /\ Cardinality(DOMAIN history) \in Nat
         /\ IsFiniteSet(Untrimmed) /\ Cardinality(Untrimmed) \in Nat
<1>1. IsFiniteSet(DOMAIN history) /\ IsFiniteSet(Untrimmed)
  BY FS_Subset DEF HistoryInv
<1>2. QED
  BY <1>1, FS_CardinalityType

\* The smaller of two numbers (FiniteSetsExt).
LEMMA SmallerOf ==
  ASSUME NEW m \in Nat, NEW n \in Nat
  PROVE  Min({m, n}) \in {m, n} /\ Min({m, n}) <= m /\ Min({m, n}) <= n
<1>1. \E k \in {m, n} : \A l \in {m, n} : k <= l
  OBVIOUS
<1>2. QED
  BY <1>1 DEF Min

\* What is inserted, kept and left to trim after an INSERT (core.py 534-539).
LEMMA RecordKeeps ==
  ASSUME TypeOK, HistoryInv, NEW x \in Transfers, Record(x)
  PROVE  /\ x \notin DOMAIN recorded
         /\ DOMAIN recorded' = DOMAIN recorded \cup {x}
         /\ DOMAIN history' = DOMAIN history \cup {x}
         /\ \A y \in DOMAIN recorded : recorded'[y] = recorded[y]
         /\ \A y \in DOMAIN history : history'[y] = history[y]
         /\ history'[x] = recorded'[x]
         /\ job' \in [Transfers -> Job]
         /\ job'[x].step = "trim"
         /\ \A y \in Transfers \ {x} : job'[y] = job[y]
         /\ Untrimmed' = Untrimmed \cup {x}
<1>1. x \notin DOMAIN recorded
  BY DEF HistoryInv, Record
<1>2. /\ job' \in [Transfers -> Job]
      /\ job'[x] = [step |-> "trim"]
      /\ \A y \in Transfers \ {x} : job'[y] = job[y]
  BY JobUpdate DEF Record, Job
<1>3. Untrimmed' = Untrimmed \cup {x}
  BY <1>2 DEF Untrimmed, Record
<1>4. QED
  BY <1>1, <1>2, <1>3 DEF Record, Put, HistoryInv

\* A DELETE of any rows leaves of each row what it was (core.py 540-543, store.py 89-108).
LEMMA RestrictKeeps ==
  ASSUME NEW f, NEW S, S \subseteq DOMAIN f
  PROVE  /\ DOMAIN Restrict(f, S) = S
         /\ \A x \in S : Restrict(f, S)[x] = f[x]
BY DEF Restrict

\* The inventory of previews holds at first.
LEMMA HistoryInit == Init => HistoryInv /\ HistoryKeepsNewest
<1> SUFFICES ASSUME Init PROVE HistoryInv /\ HistoryKeepsNewest
  OBVIOUS
<1>1. DOMAIN history = {} /\ DOMAIN recorded = {} /\ Untrimmed = {}
  BY DEF Init, EmptyTable, Untrimmed, New
<1>2. HistoryIsShort
  BY <1>1, FS_EmptySet, ShortAs, ClipboardAssumption
<1>3. NewestAreKept
  BY <1>1 DEF NewestAreKept
<1>4. QED
  BY <1>1, <1>2, <1>3, FS_EmptySet DEF HistoryInv, HistoryKeepsNewest, Init

\* A transfer that steps and is not inserting or trimming changes nothing of it.
LEMMA QuietHistory ==
  ASSUME TypeOK, HistoryInv, UNCHANGED <<history, recorded, cut>>,
         job' \in [Transfers -> Job],
         \A x \in Transfers :
           \/ job'[x] = job[x]
           \/ job[x].step # "trim" /\ x \notin cut /\ job'[x].step # "trim"
                /\ (job'[x].step \in {"new", "record"} => job[x].step \in {"new", "record"})
  PROVE  HistoryInv' /\ Untrimmed' = Untrimmed
<1>1. Untrimmed' = Untrimmed
  BY DEF Untrimmed
<1>2. \A x \in cut' : job'[x] = Done
  BY DEF HistoryInv, TypeOK
<1>3. \A x \in Transfers : job'[x].step \in {"new", "record"} => x \notin DOMAIN recorded'
  BY DEF HistoryInv
<1>4. QED
  BY <1>1, <1>2, <1>3 DEF HistoryInv

\* What the DELETE of a trimming thread leaves is no longer than the limit, and what it
\* takes is no newer than Limit others (core.py 540-543).
LEMMA TrimKeeps ==
  ASSUME HistoryInv, NEW kept \in SUBSET DOMAIN history, AreNewest(kept)
  PROVE  /\ Cardinality(kept) <= Limit
         /\ \A x \in DOMAIN history \ kept :
              Cardinality({y \in DOMAIN recorded \ {x} :
                             recorded[y].created >= recorded[x].created}) >= Limit
<1>1. /\ IsFiniteSet(DOMAIN history) /\ Cardinality(DOMAIN history) \in Nat
      /\ Cardinality(kept) = Min({Limit, Cardinality(DOMAIN history)})
  BY Counted DEF AreNewest
<1>2. /\ Cardinality(kept) \in {Limit, Cardinality(DOMAIN history)}
      /\ Cardinality(kept) <= Limit
  BY <1>1, SmallerOf, ClipboardAssumption
<1>3. ASSUME NEW x \in DOMAIN history \ kept
      PROVE  Cardinality({y \in DOMAIN recorded \ {x} :
                            recorded[y].created >= recorded[x].created}) >= Limit
  <2> DEFINE newer == {y \in DOMAIN recorded \ {x} : recorded[y].created >= recorded[x].created}
  <2>1. Cardinality(kept) = Limit
    BY <1>1, <1>2, <1>3, FS_Subset
  <2>2. kept \subseteq newer
    BY <1>3 DEF AreNewest, HistoryInv
  <2>3. IsFiniteSet(newer)
    BY FS_Subset DEF HistoryInv
  <2>4. Cardinality(newer) \in Nat /\ Cardinality(kept) <= Cardinality(newer)
    BY <2>2, <2>3, FS_Subset, FS_CardinalityType
  <2> HIDE DEF newer
  <2>5. Cardinality(newer) >= Limit
    BY <2>1, <2>4, ClipboardAssumption
  <2>6. QED
    BY <2>5 DEF newer
<1>4. QED
  BY <1>2, <1>3

\* What was rightly forgotten stays so while previews are only added and time goes on.
LEMMA ForgottenStays ==
  ASSUME TypeOK, HistoryInv, NewestAreKept, now' \in Nat, now <= now',
         IsFiniteSet(DOMAIN recorded'), DOMAIN recorded \subseteq DOMAIN recorded',
         \A y \in DOMAIN recorded : recorded'[y] = recorded[y],
         NEW x \in DOMAIN recorded \ DOMAIN history
  PROVE  \/ recorded'[x].expires < now'
         \/ Cardinality({y \in DOMAIN recorded' \ {x} :
                           recorded'[y].created >= recorded'[x].created}) >= Limit
<1> DEFINE before == {y \in DOMAIN recorded \ {x} : recorded[y].created >= recorded[x].created}
           after == {y \in DOMAIN recorded' \ {x} : recorded'[y].created >= recorded'[x].created}
<1>1. CASE recorded[x].expires < now
  <2>1. recorded[x].expires \in Nat
    BY DEF TypeOK, IsTable, Preview
  <2>2. QED
    BY <1>1, <2>1 DEF TypeOK
<1>2. CASE Cardinality(before) >= Limit
  <2>1. before \subseteq after
    OBVIOUS
  <2>2. IsFiniteSet(after)
    BY FS_Subset
  <2> HIDE DEF before, after
  <2>3. /\ IsFiniteSet(before) /\ Cardinality(before) <= Cardinality(after)
        /\ Cardinality(before) \in Nat /\ Cardinality(after) \in Nat
    BY <2>1, <2>2, FS_Subset, FS_CardinalityType
  <2>4. Cardinality(after) >= Limit
    BY <1>2, <2>3, ClipboardAssumption
  <2>5. QED
    BY <2>4 DEF after
<1>3. QED
  BY <1>1, <1>2 DEF NewestAreKept

\* A step that forgets nothing new keeps NewestAreKept.
LEMMA NewestStays ==
  ASSUME TypeOK, HistoryInv, NewestAreKept, now' \in Nat, now <= now',
         UNCHANGED <<history, recorded>>
  PROVE  NewestAreKept'
BY ForgottenStays DEF NewestAreKept, HistoryInv

\* Every thread's steps, the cleanup and the end of threads keep the inventory, and with
\* it the history's length and its newest previews.
LEMMA HistoryStep ==
  TypeOK /\ HistoryInv /\ HistoryKeepsNewest /\ [Next]_vars => HistoryInv' /\ HistoryKeepsNewest'
<1> SUFFICES ASSUME TypeOK, HistoryInv, HistoryKeepsNewest, [Next]_vars
             PROVE  HistoryInv' /\ HistoryKeepsNewest'
  OBVIOUS
<1> USE ClipboardAssumption
<1> NewestAreKept /\ HistoryIsShort
  BY DEF HistoryKeepsNewest
<1>a. TypeOK'
  BY TypeStep
<1>b. ASSUME HistoryInv', Untrimmed' = Untrimmed, UNCHANGED <<history, recorded, now>>
      PROVE  HistoryInv' /\ HistoryKeepsNewest'
  <2>1. HistoryIsShort'
    BY <1>b, ShortAs DEF HistoryIsShort, Untrimmed
  <2>2. NewestAreKept'
    BY <1>b, NewestStays DEF TypeOK
  <2>3. QED
    BY <1>b, <2>1, <2>2 DEF HistoryKeepsNewest
<1>1. ASSUME NEW x \in Transfers, NEW text \in Texts, NEW secure \in BOOLEAN,
             NEW delay \in Delays, Begin(x, text, secure, delay)
      PROVE  HistoryInv' /\ HistoryKeepsNewest'
  <2>1. PICK v : Become(x, v) /\ v.step # "trim"
    BY <1>1 DEF Begin, Done
  <2>2. x \notin cut /\ job[x].step = "new"
    BY <1>1 DEF Begin, HistoryInv, New, Done
  <2>3. HistoryInv' /\ Untrimmed' = Untrimmed
    BY <1>1, <1>a, <2>1, <2>2, QuietHistory DEF Begin, Become, TypeOK
  <2>4. QED
    BY <1>1, <1>b, <2>3 DEF Begin
<1>2. ASSUME NEW x \in Transfers, Record(x) PROVE HistoryInv' /\ HistoryKeepsNewest'
  <2>a. /\ x \notin DOMAIN recorded
        /\ DOMAIN recorded' = DOMAIN recorded \cup {x}
        /\ DOMAIN history' = DOMAIN history \cup {x}
        /\ \A y \in DOMAIN recorded : recorded'[y] = recorded[y]
        /\ \A y \in DOMAIN history : history'[y] = history[y]
        /\ history'[x] = recorded'[x]
    BY <1>2, RecordKeeps
  <2>b. /\ job'[x].step = "trim"
        /\ \A y \in Transfers \ {x} : job'[y] = job[y]
        /\ Untrimmed' = Untrimmed \cup {x}
    BY <1>2, RecordKeeps
  <2>1. HistoryInv'
    <3>1. IsFiniteSet(DOMAIN recorded')
      BY <2>a, FS_AddElement DEF HistoryInv
    <3>2. \A y \in cut' : job'[y] = Done
      <4>1. x \notin cut /\ cut' = cut
        BY <1>2 DEF Record, HistoryInv, Done
      <4>2. QED
        BY <2>b, <4>1 DEF HistoryInv, TypeOK
    <3>3. \A y \in Transfers : job'[y].step \in {"new", "record"} => y \notin DOMAIN recorded'
      BY <2>a, <2>b DEF HistoryInv
    <3>4. \A y \in DOMAIN history' : history'[y] = recorded'[y]
      BY <2>a, <2>b DEF HistoryInv
    <3>5. DOMAIN history' \subseteq DOMAIN recorded' /\ Untrimmed' \subseteq DOMAIN recorded'
      BY <2>a, <2>b DEF HistoryInv
    <3>6. QED
      BY <3>1, <3>2, <3>3, <3>4, <3>5 DEF HistoryInv
  <2>2. HistoryIsShort'
    <3>1. /\ Cardinality(DOMAIN history') = Cardinality(DOMAIN history) + 1
          /\ Cardinality(Untrimmed') = Cardinality(Untrimmed) + 1
      BY <2>a, <2>b, Counted, FS_AddElement DEF HistoryInv
    <3>2. Cardinality(DOMAIN history') <= Limit + Cardinality(Untrimmed')
      BY <3>1, ShortAs, Counted
    <3>3. QED
      BY <3>2 DEF HistoryIsShort, Untrimmed
  <2>3. NewestAreKept'
    <3>1. \A y \in DOMAIN recorded' \ DOMAIN history' : y \in DOMAIN recorded \ DOMAIN history
      BY <2>a
    <3>2. now' = now /\ now \in Nat
      BY <1>2 DEF Record, TypeOK
    <3>3. IsFiniteSet(DOMAIN recorded')
      BY <2>1 DEF HistoryInv
    <3>4. QED
      BY <2>a, <3>1, <3>2, <3>3, ForgottenStays DEF NewestAreKept
  <2>4. QED
    BY <2>1, <2>2, <2>3 DEF HistoryKeepsNewest
<1>3. ASSUME NEW x \in Transfers, Trim(x) PROVE HistoryInv' /\ HistoryKeepsNewest'
  <2>1. PICK kept \in SUBSET DOMAIN history : AreNewest(kept) /\ history' = Restrict(history, kept)
    BY <1>3 DEF Trim
  <2>2. DOMAIN history' = kept /\ \A y \in kept : history'[y] = history[y]
    BY <2>1, RestrictKeeps
  <2>3. job'[x] = Done /\ \A y \in Transfers \ {x} : job'[y] = job[y]
    BY <1>3, JobUpdate DEF Trim, Job
  <2>4. HistoryInv'
    <3>1. Untrimmed' \subseteq Untrimmed
      BY <1>3, <2>3 DEF Untrimmed, Trim, Done
    <3>2. \A y \in cut' : job'[y] = Done
      BY <1>3, <2>3 DEF Trim, HistoryInv, TypeOK
    <3>3. \A y \in Transfers : job'[y].step \in {"new", "record"} => y \notin DOMAIN recorded'
      BY <1>3, <2>3 DEF Trim, HistoryInv, Done
    <3>4. QED
      BY <1>3, <2>2, <3>1, <3>2, <3>3 DEF Trim, HistoryInv
  <2>5. HistoryIsShort'
    <3>1. Cardinality(Untrimmed') \in Nat
      <4>1. IsFiniteSet(Untrimmed')
        BY <2>4, FS_Subset DEF HistoryInv
      <4>2. QED
        BY <4>1, FS_CardinalityType
    <3>2. Cardinality(DOMAIN history') <= Limit /\ Cardinality(DOMAIN history') \in Nat
      BY <2>1, <2>2, TrimKeeps, Counted, FS_Subset, FS_CardinalityType
    <3>3. Cardinality(DOMAIN history') <= Limit + Cardinality(Untrimmed')
      BY <3>1, <3>2
    <3>4. QED
      BY <3>3 DEF HistoryIsShort, Untrimmed
  <2>6. NewestAreKept'
    <3> SUFFICES ASSUME NEW y \in DOMAIN recorded' \ DOMAIN history'
                 PROVE  \/ recorded'[y].expires < now'
                        \/ Cardinality({z \in DOMAIN recorded' \ {y} :
                                          recorded'[z].created >= recorded'[y].created}) >= Limit
      BY DEF NewestAreKept
    <3>1. recorded' = recorded /\ now' = now /\ now \in Nat
      BY <1>3 DEF Trim, TypeOK
    <3>2. CASE y \in DOMAIN history
      BY <2>1, <2>2, <3>1, <3>2, TrimKeeps
    <3>3. CASE y \notin DOMAIN history
      BY <3>1, <3>3, ForgottenStays DEF HistoryInv
    <3>4. QED
      BY <3>2, <3>3
  <2>7. QED
    BY <2>4, <2>5, <2>6 DEF HistoryKeepsNewest
<1>4. ASSUME NEW x \in Transfers, Answer(x) \/ Fire(x) \/ Clear(x)
      PROVE  HistoryInv' /\ HistoryKeepsNewest'
  <2>1. PICK v : Become(x, v) /\ v.step \notin {"new", "record", "trim"}
    BY <1>4 DEF Answer, Fire, Clear, Done
  <2>2. x \notin cut /\ job[x].step # "trim"
    BY <1>4 DEF Answer, Fire, Clear, HistoryInv, Done
  <2>3. UNCHANGED <<history, recorded, cut, now>>
    BY <1>4 DEF Answer, Fire, Clear
  <2>4. HistoryInv' /\ Untrimmed' = Untrimmed
    BY <1>a, <2>1, <2>2, <2>3, QuietHistory DEF Become, TypeOK
  <2>5. QED
    BY <1>b, <2>3, <2>4
<1>5. ASSUME NEW text \in Texts, OtherCopies(text) PROVE HistoryInv' /\ HistoryKeepsNewest'
  BY <1>5, <1>a, <1>b, QuietHistory DEF OtherCopies, TypeOK
<1>6. CASE Cleanup
  <2>1. PICK S \in SUBSET DOMAIN history :
          /\ history' = Restrict(history, S)
          /\ \A y \in DOMAIN history \ S : ~(history[y].expires >= now)
    BY <1>6 DEF Cleanup, Keep, RestrictValues
  <2>2. DOMAIN history' = S /\ \A y \in S : history'[y] = history[y]
    BY <2>1, RestrictKeeps
  <2>3. UNCHANGED <<now, job, recorded, cut>>
    BY <1>6 DEF Cleanup
  <2>4. HistoryInv' /\ Untrimmed' = Untrimmed
    BY <2>2, <2>3 DEF HistoryInv, Untrimmed
  <2>5. HistoryIsShort'
    <3>1. Cardinality(S) \in Nat /\ Cardinality(S) <= Cardinality(DOMAIN history)
      BY Counted, FS_Subset, FS_CardinalityType
    <3>2. Cardinality(DOMAIN history') <= Limit + Cardinality(Untrimmed')
      BY <2>2, <2>4, <3>1, ShortAs, Counted
    <3>3. QED
      BY <3>2 DEF HistoryIsShort, Untrimmed
  <2>6. NewestAreKept'
    <3>1. ASSUME NEW y \in DOMAIN history \ S PROVE recorded'[y].expires < now'
      <4>1. recorded[y] = history[y] /\ history[y].expires \in Nat /\ now \in Nat
        BY DEF HistoryInv, TypeOK, IsTable, Preview
      <4>2. QED
        BY <2>1, <2>3, <4>1
    <3>2. ASSUME NEW y \in DOMAIN recorded \ DOMAIN history
          PROVE  \/ recorded'[y].expires < now'
                 \/ Cardinality({z \in DOMAIN recorded' \ {y} :
                                   recorded'[z].created >= recorded'[y].created}) >= Limit
      BY <2>3, ForgottenStays DEF HistoryInv, TypeOK
    <3>3. QED
      BY <2>2, <2>3, <3>1, <3>2 DEF NewestAreKept
  <2>7. QED
    BY <2>4, <2>5, <2>6 DEF HistoryKeepsNewest
<1>7. CASE Tick
  <2>1. HistoryInv' /\ HistoryIsShort'
    BY <1>7 DEF Tick, HistoryInv, HistoryIsShort, Untrimmed
  <2>2. NewestAreKept'
    BY <1>7, NewestStays DEF Tick, TypeOK
  <2>3. QED
    BY <2>1, <2>2 DEF HistoryKeepsNewest
<1>8. CASE Interrupt
  <2>1. PICK S \in SUBSET Transfers : End(S)
    BY <1>8 DEF Interrupt
  <2>2. UNCHANGED <<now, history, recorded>>
    BY <1>8 DEF Interrupt
  <2>3. \A y \in Transfers : job'[y] = IF y \in S THEN Done ELSE job[y]
    BY <2>1 DEF End
  <2>4. Untrimmed' = Untrimmed
    BY <2>1, <2>3 DEF End, Untrimmed, Done
  <2>5. HistoryInv'
    <3>1. \A y \in cut' : job'[y] = Done
      BY <2>1, <2>3 DEF End, HistoryInv, TypeOK
    <3>2. \A y \in Transfers : job'[y].step \in {"new", "record"} => y \notin DOMAIN recorded'
      BY <2>2, <2>3 DEF HistoryInv, Done
    <3>3. QED
      BY <2>2, <2>4, <3>1, <3>2 DEF HistoryInv
  <2>6. QED
    BY <1>b, <2>2, <2>4, <2>5
<1>9. CASE UNCHANGED vars
  BY <1>9 DEF vars, HistoryInv, HistoryKeepsNewest, HistoryIsShort, NewestAreKept, Untrimmed
<1>10. QED
  BY <1>1, <1>2, <1>3, <1>4, <1>5, <1>6, <1>7, <1>8, <1>9 DEF Next, Continue

\* The history has no more than Limit previews but for those whose thread has not
\* trimmed, and forgets one only when it expired or Limit others are as new
\* (core.py 534-543): for any number of threads, with clocks read in any order.
THEOREM KeepsNewest == Spec => []HistoryKeepsNewest
BY TypeInit, TypeStep, HistoryInit, HistoryStep, PTL DEF Spec
=============================================================================
