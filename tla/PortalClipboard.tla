-------------------------- MODULE PortalClipboard --------------------------
(***************************************************************************)
(* Texts that phones put on the desktop's clipboard: clipboard_set of      *)
(* src/portal/core.py with its history of previews, and the timer of       *)
(* src/portal/service.py that clears a secret when its time has come.      *)
(*                                                                         *)
(* A transfer is the HTTP thread that sets the clipboard and then the      *)
(* timer it starts; the same name stands for the id of its preview.  All   *)
(* other programs use the clipboard as they like.                          *)
(***************************************************************************)
EXTENDS Integers, FiniteSets, FiniteSetsExt, Tables

CONSTANTS
  Transfers,
  Texts,          \* what can be on the clipboard
  Empty,          \* the empty text
  Sensitive,      \* texts that looks_sensitive takes for secrets
  Foreign,        \* texts with line ends that reading the clipboard changes
  Changed,        \* what such a text reads as
  Delays,         \* values of clear_after
  Limit,          \* previews the history keeps
  HistoryTTL,
  MaxTime,        \* bound on the clock, for model checking
  MaxKills        \* bound on the number of failures

ASSUME ClipboardAssumption ==
  /\ Empty \in Texts \ Foreign
  /\ Sensitive \subseteq Texts /\ Foreign \subseteq Texts
  /\ Changed \notin Texts
  /\ Delays \subseteq Nat
  /\ Limit \in Nat /\ HistoryTTL \in Nat
  /\ MaxTime \in Nat /\ MaxKills \in Nat

VARIABLES
  now,
  clipboard,
  history,      \* table: transfer -> [created, expires]
  job,          \* what each transfer is in the middle of
  kills,
  \* History variables.
  recorded,     \* table: every preview ever inserted
  cut,          \* transfers that ended between INSERT and DELETE
  overtaken     \* transfers about to clear a clipboard that has changed since

vars == <<now, clipboard, history, job, kills, recorded, cut, overtaken>>

-----------------------------------------------------------------------------
New == [step |-> "new"]
Done == [step |-> "done"]

Preview == [created : Nat, expires : Nat]

Job ==
  {New, Done}
  \cup [step : {"record"}, at : Nat]
  \cup [step : {"trim"}]
  \cup [step : {"answer"}, text : Texts, delay : Nat]
  \cup [step : {"wait"}, text : Texts, due : Nat]
  \cup [step : {"clear"}, text : Texts]

TypeOK ==
  /\ now \in Nat /\ kills \in Nat
  /\ clipboard \in Texts
  /\ IsTable(history, Transfers, Preview)
  /\ job \in [Transfers -> Job]
  /\ IsTable(recorded, Transfers, Preview)
  /\ cut \subseteq Transfers /\ overtaken \subseteq Transfers

Init ==
  /\ now = 0 /\ kills = 0
  /\ clipboard = Empty
  /\ history = EmptyTable
  /\ job = [x \in Transfers |-> New]
  /\ recorded = EmptyTable
  /\ cut = {} /\ overtaken = {}

Become(x, what) == job' = [job EXCEPT ![x] = what]

Pasted(text) == IF text \in Foreign THEN Changed ELSE text

\* Whoever copies overtakes the timers that have compared already.
Copy(text) ==
  /\ clipboard' = text
  /\ overtaken' = overtaken
       \cup (IF text = clipboard THEN {} ELSE {x \in Transfers : job[x].step = "clear"})

-----------------------------------------------------------------------------
(***************************************************************************)
(* clipboard_set.  A secret goes straight to its answer, any other text    *)
(* but the empty one leaves a preview.                                     *)
(***************************************************************************)
Begin(x, text, secure, delay) ==
  /\ job[x] = New
  /\ Copy(text)
  /\ CASE secure \/ text \in Sensitive ->
            Become(x, [step |-> "answer", text |-> text, delay |-> delay])
       [] ~secure /\ text \notin Sensitive \cup {Empty} ->
            Become(x, [step |-> "record", at |-> now])
       [] OTHER -> Become(x, Done)
  /\ UNCHANGED <<now, history, kills, recorded, cut>>

PreviewAt(at) == [created |-> at, expires |-> at + HistoryTTL]

Record(x) ==
  /\ job[x].step = "record"
  /\ history' = Put(history, x, PreviewAt(job[x].at))
  /\ recorded' = Put(recorded, x, PreviewAt(job[x].at))
  /\ Become(x, [step |-> "trim"])
  /\ UNCHANGED <<now, clipboard, kills, cut, overtaken>>

\* The rows that ORDER BY created DESC LIMIT can return: ties are left to SQLite.
OneTooMany(kept) ==
  /\ Cardinality(kept) = Min({Limit + 1, Cardinality(DOMAIN history)})
  /\ \A x \in kept, y \in DOMAIN history \ kept :
       history[x].created >= history[y].created

AreNewest(kept) ==
  /\ Cardinality(kept) = Min({Limit, Cardinality(DOMAIN history)})
  /\ \A x \in kept, y \in DOMAIN history \ kept :
       history[x].created >= history[y].created

Trim(x) ==
  /\ job[x].step = "trim"
  /\ \E kept \in SUBSET DOMAIN history :
       AreNewest(kept) /\ history' = Restrict(history, kept)
  /\ Become(x, Done)
  /\ UNCHANGED <<now, clipboard, kills, recorded, cut, overtaken>>

-----------------------------------------------------------------------------
(***************************************************************************)
(* schedule_clipboard_clear and its timer.                                 *)
(***************************************************************************)
Answer(x) ==
  /\ job[x].step = "answer"
  /\ Become(x, IF job[x].delay = 0 THEN Done
               ELSE [step |-> "wait", text |-> job[x].text,
                     due |-> now + job[x].delay])
  /\ UNCHANGED <<now, clipboard, history, kills, recorded, cut, overtaken>>

OnTheDot(x) == now = job[x].due
Due(x) == now >= job[x].due

Whatever(x) == TRUE
Unchanged(x) == Pasted(clipboard) = job[x].text

Fire(x) ==
  /\ job[x].step = "wait"
  /\ Due(x)
  /\ Become(x, IF Unchanged(x) THEN [step |-> "clear", text |-> job[x].text]
               ELSE Done)
  /\ UNCHANGED <<now, clipboard, history, kills, recorded, cut, overtaken>>

Clear(x) ==
  /\ job[x].step = "clear"
  /\ Copy(Empty)
  /\ Become(x, Done)
  /\ UNCHANGED <<now, history, kills, recorded, cut>>

-----------------------------------------------------------------------------
(***************************************************************************)
(* Everybody else.                                                         *)
(***************************************************************************)
\* Another program, or the actions `copy` and `open` of the inbox.
OtherCopies(text) ==
  /\ text # clipboard
  /\ Copy(text)
  /\ UNCHANGED <<now, history, job, kills, recorded, cut>>

Cleanup ==
  /\ history' = Keep(history, LAMBDA row : row.expires >= now)
  /\ UNCHANGED <<now, clipboard, job, kills, recorded, cut, overtaken>>

Tick ==
  /\ now < MaxTime
  /\ now' = now + 1
  /\ UNCHANGED <<clipboard, history, job, kills, recorded, cut, overtaken>>

\* The transfers in S end: wl-copy or wl-paste fails for one of them, or the
\* daemon stops and takes all its threads with it.
End(S) ==
  /\ job' = [x \in Transfers |-> IF x \in S THEN Done ELSE job[x]]
  /\ cut' = cut \cup {x \in S : job[x].step = "trim"}

Interrupt ==
  /\ kills < MaxKills
  /\ kills' = kills + 1
  /\ LET Running == {x \in Transfers : job[x] \notin {New, Done}} IN
     \/ \E x \in Running : End({x})
     \/ End(Running)
  /\ UNCHANGED <<now, clipboard, history, recorded, overtaken>>

Continue(x) == Record(x) \/ Trim(x) \/ Answer(x) \/ Fire(x) \/ Clear(x)

Next ==
  \/ \E x \in Transfers, text \in Texts, secure \in BOOLEAN, delay \in Delays :
       Begin(x, text, secure, delay)
  \/ \E x \in Transfers : Continue(x)
  \/ \E text \in Texts : OtherCopies(text)
  \/ Cleanup \/ Tick \/ Interrupt

Spec == Init /\ [][Next]_vars

\* Threads are scheduled, timers go off, the clock goes on.
FairSpec ==
  /\ Spec
  /\ WF_vars(Tick)
  /\ \A x \in Transfers : WF_vars(Continue(x))

-----------------------------------------------------------------------------
\* "The recent clipboard history stores at most ten short previews"
\* (SECURITY.md, line 37), but for those whose INSERT was not yet followed by the
\* DELETE of the same thread, or never will be (core.py 534-543).
HistoryIsShort ==
  Cardinality(DOMAIN history)
    <= Limit + Cardinality(cut \cup {x \in Transfers : job[x].step = "trim"})

\* The history forgets a preview only when it has expired or Limit others are as
\* new, although threads insert with clocks they read in another order.
NewestAreKept ==
  \A x \in DOMAIN recorded \ DOMAIN history :
    \/ recorded[x].expires < now
    \/ Cardinality({y \in DOMAIN recorded \ {x} :
                      recorded[y].created >= recorded[x].created}) >= Limit

\* "Optional clipboard clearing only clears if the clipboard still equals the
\* transferred value" (SECURITY.md, line 37): only a copy made between the
\* comparison and the clearing can be lost (service.py 189-190).
ClearsTransferredText ==
  \A x \in Transfers :
    job[x].step = "clear" =>
      Pasted(clipboard) = job[x].text \/ x \in overtaken

\* A secret whose deadline was announced leaves the clipboard, unless the daemon
\* or a tool failed (service.py 182-196).
SecretsGo ==
  \A x \in Transfers, text \in Texts \ (Foreign \cup {Empty}) :
    (job[x].step = "wait" /\ job[x].text = text /\ job[x].due <= MaxTime)
      ~> (clipboard # text \/ kills > 0)

\* The history holds the newest previews and, in the end, only these.
HistoryKeepsNewest == HistoryIsShort /\ NewestAreKept
=============================================================================
