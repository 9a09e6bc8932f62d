---------------------------- MODULE PortalInbox ----------------------------
(***************************************************************************)
(* The Portal Inbox of src/portal/core.py: payload files in the inbox      *)
(* directory, the partial files uploads are received in, and the rows of   *)
(* table inbox, which say which item a file belongs to and until when.     *)
(*                                                                         *)
(* Uploads, discards, downloads and the cleanup that a listing starts run  *)
(* in HTTP threads (Handlers); `portal send` and `portal discard` run in   *)
(* processes of their own (Clis).  Every look at the directory or at the   *)
(* database is a step, and so is every change of either.                   *)
(***************************************************************************)
EXTENDS Integers, FiniteSets, Sequences, Tables

CONSTANTS
  Items,        \* ids uuid4 can draw for inbox items
  Names,        \* file names as senders give them
  NamesOf,      \* Items -> the names the file of that item may be sent with
  Paths,        \* files of the inbox directory
  Candidates,   \* Names -> the paths _destination tries, in that order
  NoPath,       \* content_path of an item that is a text
  Handlers, Clis,
  InboxTTL, SecretTTL,
  MaxTime,      \* bound on the clock, for model checking
  MaxKills      \* bound on the number of interrupted processes and refused removals

Actors == Handlers \cup Clis

ASSUME InboxAssumption ==
  /\ InboxTTL \in Nat /\ SecretTTL \in Nat
  /\ MaxTime \in Nat /\ MaxKills \in Nat
  /\ NoPath \notin Paths
  /\ \A n \in Names : Candidates[n] \in Seq(Paths)
  /\ \A i \in Items : NamesOf[i] \subseteq Names
  /\ Handlers \cap Clis = {}

VARIABLES
  now,      \* the clock
  files,    \* the payload files: path -> the item whose bytes it holds
  parts,    \* items of which a partial file exists
  inbox,    \* table: item -> [path, expires]
  job,      \* what each process is in the middle of
  kills,    \* processes interrupted and removals refused so far
  \* History variables.
  drawn,    \* ids already drawn
  strays,   \* items over which a process was interrupted when the directory
            \* and the table differed, recorded when already expired, or whose
            \* file could not be removed
  served    \* <<item asked for, item whose bytes were sent>>

store == <<files, parts, inbox>>
vars == <<now, store, job, kills, drawn, strays, served>>

-----------------------------------------------------------------------------
Idle == [step |-> "idle"]

Row == [path : Paths \cup {NoPath}, expires : Nat]

Job ==
  {Idle}
  \cup [step : {"receive"}, item : Items, path : Paths, ttl : Nat]
  \cup [step : {"record"}, item : Items, path : Paths, expires : Nat]
  \cup [step : {"unlink", "serve"}, item : Items, path : Paths]
  \cup [step : {"forget"}, item : Items]
  \cup [step : {"sweep"}, at : Nat, expired : SUBSET Paths]

TypeOK ==
  /\ now \in Nat /\ kills \in Nat
  /\ IsTable(files, Paths, Items)
  /\ parts \subseteq Items
  /\ IsTable(inbox, Items, Row)
  /\ job \in [Actors -> Job]
  /\ drawn \subseteq Items /\ strays \subseteq Items
  /\ served \subseteq Items \X Items

Init ==
  /\ now = 0
  /\ files = EmptyTable
  /\ parts = {}
  /\ inbox = EmptyTable
  /\ job = [a \in Actors |-> Idle]
  /\ kills = 0
  /\ drawn = {}
  /\ strays = {}
  /\ served = {}

Start(a, what) == job[a] = Idle /\ job' = [job EXCEPT ![a] = what]
Become(a, what) == job' = [job EXCEPT ![a] = what]

-----------------------------------------------------------------------------
(***************************************************************************)
(* Texts and uploads.                                                      *)
(***************************************************************************)
AddText(i, ttl) ==
  /\ i \in Items \ drawn
  /\ inbox' = Put(inbox, i, [path |-> NoPath, expires |-> now + ttl])
  /\ drawn' = drawn \cup {i}
  /\ UNCHANGED <<now, files, parts, job, kills, strays, served>>

\* _destination: the first candidate that is no file yet.
Destination(name) ==
  {Candidates[name][k] : k \in
     {k \in DOMAIN Candidates[name] :
        /\ Candidates[name][k] \notin DOMAIN files
        /\ \A j \in 1..(k - 1) : Candidates[name][j] \in DOMAIN files}}

\* add_file chooses its destination and creates its partial file, which has a
\* random name.
BeginUpload(a, i, name, ttl) ==
  /\ i \in Items \ drawn
  /\ name \in NamesOf[i]
  /\ \E path \in Destination(name) :
       Start(a, [step |-> "receive", item |-> i, path |-> path, ttl |-> ttl])
  /\ parts' = parts \cup {i}
  /\ drawn' = drawn \cup {i}
  /\ UNCHANGED <<now, files, inbox, kills, strays, served>>

\* The sender stops early, or a write fails: the partial file is removed.
UploadFails(a) ==
  /\ job[a].step = "receive"
  /\ parts' = parts \ {job[a].item}
  /\ Become(a, Idle)
  /\ UNCHANGED <<now, files, inbox, kills, drawn, strays, served>>

\* All bytes are there: the partial file takes the name of the destination,
\* whatever was there, and the clock is read.
PublishUpload(a) ==
  /\ job[a].step = "receive"
  /\ LET j == job[a] IN
     /\ files' = Put(files, j.path, j.item)
     /\ parts' = parts \ {j.item}
     /\ Become(a, [step |-> "record", item |-> j.item, path |-> j.path,
                   expires |-> now + j.ttl])
  /\ UNCHANGED <<now, inbox, kills, drawn, strays, served>>

RecordUpload(a) ==
  /\ job[a].step = "record"
  /\ LET j == job[a] IN
     /\ inbox' = Put(inbox, j.item, [path |-> j.path, expires |-> j.expires])
     /\ strays' = IF j.expires < now THEN strays \cup {j.item} ELSE strays
  /\ Become(a, Idle)
  /\ UNCHANGED <<now, files, parts, kills, drawn, served>>

-----------------------------------------------------------------------------
(***************************************************************************)
(* Items are read and discarded while they have not expired.               *)
(***************************************************************************)
Unexpired(i) == i \in DOMAIN inbox /\ inbox[i].expires >= now

BeginDiscard(a, i) ==
  /\ Unexpired(i)
  /\ Start(a, IF inbox[i].path = NoPath
                THEN [step |-> "forget", item |-> i]
                ELSE [step |-> "unlink", item |-> i, path |-> inbox[i].path])
  /\ UNCHANGED <<now, store, kills, drawn, strays, served>>

Unlink(table, path) == Restrict(table, DOMAIN table \ {path})

DiscardFile(a) ==
  /\ job[a].step = "unlink"
  /\ files' = Unlink(files, job[a].path)
  /\ Become(a, [step |-> "forget", item |-> job[a].item])
  /\ UNCHANGED <<now, parts, inbox, kills, drawn, strays, served>>

DiscardRow(a) ==
  /\ job[a].step = "forget"
  /\ inbox' = Restrict(inbox, DOMAIN inbox \ {job[a].item})
  /\ Become(a, Idle)
  /\ UNCHANGED <<now, files, parts, kills, drawn, strays, served>>

BeginDownload(h, i) ==
  /\ Unexpired(i) /\ inbox[i].path # NoPath
  /\ Start(h, [step |-> "serve", item |-> i, path |-> inbox[i].path])
  /\ UNCHANGED <<now, store, kills, drawn, strays, served>>

\* The file the row named is opened and sent, if it is still there.
Download(h) ==
  /\ job[h].step = "serve"
  /\ LET j == job[h] IN
     served' = IF j.path \in DOMAIN files
                 THEN served \cup {<<j.item, files[j.path]>>} ELSE served
  /\ Become(h, Idle)
  /\ UNCHANGED <<now, store, kills, drawn, strays>>

-----------------------------------------------------------------------------
(***************************************************************************)
(* Store.cleanup, which inbox() runs first: the files of the expired rows  *)
(* are listed and removed one by one, then the expired rows are deleted.   *)
(***************************************************************************)
NoFiles(at) == {}
TextsToo(at) == {inbox[i].path : i \in {i \in DOMAIN inbox : inbox[i].expires < at}}
TickEarly(at) ==
  {inbox[i].path : i \in {i \in DOMAIN inbox : inbox[i].expires <= at}} \ {NoPath}
ExpiredFiles(at) ==
  {inbox[i].path : i \in {i \in DOMAIN inbox : inbox[i].expires < at}} \ {NoPath}

BeginSweep(h) ==
  /\ Start(h, [step |-> "sweep", at |-> now, expired |-> ExpiredFiles(now)])
  /\ UNCHANGED <<now, store, kills, drawn, strays, served>>

SweepFile(h) ==
  /\ job[h].step = "sweep"
  /\ \E path \in job[h].expired :
       /\ files' = Unlink(files, path)
       /\ job' = [job EXCEPT ![h].expired = @ \ {path}]
  /\ UNCHANGED <<now, parts, inbox, kills, drawn, strays, served>>

\* An unlink that fails is passed over, and the row goes with the others.
SweepFails(h) ==
  /\ job[h].step = "sweep"
  /\ kills < MaxKills /\ kills' = kills + 1
  /\ \E path \in job[h].expired \cap DOMAIN files :
       /\ strays' = strays \cup {files[path]}
       /\ job' = [job EXCEPT ![h].expired = @ \ {path}]
  /\ UNCHANGED <<now, store, drawn, served>>

SweepRows(h) ==
  /\ job[h].step = "sweep" /\ job[h].expired = {}
  /\ inbox' = Keep(inbox, LAMBDA row : row.expires >= job[h].at)
  /\ Become(h, Idle)
  /\ UNCHANGED <<now, files, parts, kills, drawn, strays, served>>

-----------------------------------------------------------------------------
Tick ==
  /\ now < MaxTime
  /\ now' = now + 1
  /\ UNCHANGED <<store, job, kills, drawn, strays, served>>

\* A process ends between two steps: it is killed, the daemon stops and takes
\* its threads along, or SQLite raises. Partial and payload files stay.
Interrupt(a) ==
  /\ kills < MaxKills
  /\ kills' = kills + 1
  /\ job[a] # Idle
  /\ strays' = IF job[a].step \in {"receive", "record", "forget"}
                 THEN strays \cup {job[a].item} ELSE strays
  /\ Become(a, Idle)
  /\ UNCHANGED <<now, store, drawn, served>>

\* The steps of an operation that has begun.
Continue(a) ==
  \/ UploadFails(a)
  \/ PublishUpload(a)
  \/ RecordUpload(a)
  \/ DiscardFile(a)
  \/ DiscardRow(a)
  \/ Download(a)
  \/ SweepFile(a) \/ SweepFails(a)
  \/ SweepRows(a)

\* `portal send` marks nothing as secret.
TTLs(a) == IF a \in Handlers THEN {InboxTTL, SecretTTL} ELSE {InboxTTL}

Begin(a) ==
  \/ \E i \in Items, name \in Names, ttl \in TTLs(a) : BeginUpload(a, i, name, ttl)
  \/ \E i \in Items : BeginDiscard(a, i)

Next ==
  \/ \E i \in Items, ttl \in {InboxTTL, SecretTTL} : AddText(i, ttl)
  \/ \E a \in Actors : Begin(a) \/ Continue(a) \/ Interrupt(a)
  \/ \E h \in Handlers : BeginSweep(h)
  \/ \E h \in Handlers, i \in Items : BeginDownload(h, i)
  \/ Tick

Spec == Init /\ [][Next]_vars

(***************************************************************************)
(* Fairness: time passes, an operation that has begun goes on (a sender    *)
(* sends or gives up), and a phone that is connected lists the inbox again *)
(* and again and finds a thread (app.js, line 94: every 5 s).              *)
(***************************************************************************)
FairSpec ==
  /\ Spec
  /\ WF_vars(Tick)
  /\ \A a \in Actors : WF_vars(Continue(a))
  /\ SF_vars(\E h \in Handlers : BeginSweep(h))

-----------------------------------------------------------------------------
\* "unrelated files are never overwritten" (README.md, line 56): a file in the
\* inbox directory is removed or stays as it is, it never gets other bytes.
NothingOverwritten ==
  [][\A path \in DOMAIN files \cap DOMAIN files' : files'[path] = files[path]]_vars

Forgetting(i) == \E a \in Actors : job[a].step = "forget" /\ job[a].item = i

\* An item that is listed and has not expired has its own file, unless its
\* discard is half-way or was interrupted there: no discard, cleanup or upload
\* of another item takes it away (core.py 401-460 and 506-512, store.py 105-117).
ListedItemsHaveTheirFile ==
  \A i \in DOMAIN inbox :
    (Unexpired(i) /\ inbox[i].path # NoPath) =>
      \/ inbox[i].path \in DOMAIN files /\ files[inbox[i].path] = i
      \/ Forgetting(i) \/ i \in strays

\* A file nobody will ever remove is one whose process was interrupted before
\* it recorded the file, that was recorded too late, or whose removal failed
\* (store.py 111-117): every other file is still named by its row or about to
\* be, and every partial file belongs to an upload that is going on ("partial
\* uploads remain temporary then disappear on failure", README.md, line 56).
FilesAreAccountedFor ==
  /\ \A path \in DOMAIN files :
       LET i == files[path] IN
         \/ i \in DOMAIN inbox /\ inbox[i].path = path
         \/ \E a \in Actors : job[a].step = "record" /\ job[a].item = i
         \/ i \in strays
  /\ \A i \in parts :
       \/ \E a \in Actors : job[a].step = "receive" /\ job[a].item = i
       \/ i \in strays

\* A download sends the bytes of the item that was asked for (service.py
\* 250-262 reads the row first and opens the file later).
DownloadsAreOwn == \A s \in served : s[1] = s[2]

\* "Cleanup removes expired payloads" (docs/ARCHITECTURE.md, line 56): while a
\* phone keeps listing the inbox, the row and the file of an expired item go,
\* unless it was recorded when it had expired already; its row goes also when the
\* file cannot be removed.
ExpiredItemsGo ==
  \A i \in Items :
    (i \in DOMAIN inbox /\ inbox[i].expires < now /\ i \notin strays)
      ~> (i \notin DOMAIN inbox /\ (i \notin {files[path] : path \in DOMAIN files} \/ i \in strays))

\* Directory and table, which no transaction covers together, agree.
RowsAndFilesAgree == ListedItemsHaveTheirFile /\ FilesAreAccountedFor
=============================================================================
