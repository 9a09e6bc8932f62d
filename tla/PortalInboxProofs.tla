------------------------- MODULE PortalInboxProofs -------------------------
(***************************************************************************)
(* Theorems about PortalInbox, for any number of items, names, paths,      *)
(* threads and processes, and any times and interruptions.                 *)
(***************************************************************************)
EXTENDS PortalInbox, TLAPS

\* A row or a file that is added or replaced (INSERT, rename) keeps a table a table.
LEMMA PutIsTable ==
  ASSUME NEW K, NEW R, NEW f, IsTable(f, K, R), NEW k \in K, NEW row \in R
  PROVE  /\ IsTable(Put(f, k, row), K, R)
         /\ DOMAIN Put(f, k, row) = DOMAIN f \cup {k}
         /\ Put(f, k, row)[k] = row
         /\ \A x \in DOMAIN f \ {k} : Put(f, k, row)[x] = f[x]
BY DEF IsTable, Put

\* What is left after a DELETE or an unlink is a table.
LEMMA RestrictIsTable ==
  ASSUME NEW K, NEW R, NEW f, IsTable(f, K, R), NEW S \in SUBSET DOMAIN f
  PROVE  /\ IsTable(Restrict(f, S), K, R)
         /\ DOMAIN Restrict(f, S) = S
         /\ \A x \in S : Restrict(f, S)[x] = f[x]
BY DEF IsTable, Restrict

\* What a process remembers, by the step it is at.
LEMMA JobFields ==
  ASSUME NEW j \in Job
  PROVE  /\ j.step \in {"idle", "receive", "record", "unlink", "serve", "forget", "sweep"}
         /\ j.step = "idle" <=> j = Idle
         /\ j.step \in {"receive", "record", "unlink", "serve"} =>
              j.item \in Items /\ j.path \in Paths
         /\ j.step = "receive" => j.ttl \in Nat
         /\ j.step = "record" => j.expires \in Nat
         /\ j.step = "forget" => j.item \in Items
         /\ j.step = "sweep" => j.at \in Nat /\ j.expired \in SUBSET Paths
BY DEF Job, Idle

\* A process that changes changes alone.
LEMMA JobUpdate ==
  ASSUME TypeOK, NEW a \in Actors, NEW v \in Job, Become(a, v) \/ Start(a, v)
  PROVE  /\ job' \in [Actors -> Job]
         /\ job'[a] = v
         /\ \A b \in Actors \ {a} : job'[b] = job[b]
BY DEF TypeOK, Become, Start

\* A cleanup goes on with one file less to remove.
LEMMA FewerFiles ==
  ASSUME TypeOK, NEW h \in Actors, job[h].step = "sweep", NEW path,
         job' = [job EXCEPT ![h].expired = @ \ {path}]
  PROVE  /\ job' \in [Actors -> Job]
         /\ job'[h].step = "sweep" /\ job'[h].at = job[h].at
         /\ job'[h].expired = job[h].expired \ {path}
         /\ \A b \in Actors \ {h} : job'[b] = job[b]
<1> DEFINE v == [job[h] EXCEPT !.expired = job[h].expired \ {path}]
<1>1. job[h] \in Job
  BY DEF TypeOK
<1>2. v \in Job
  BY <1>1 DEF Job, Idle
<1>3. v.step = "sweep" /\ v.at = job[h].at /\ v.expired = job[h].expired \ {path}
  BY <1>1 DEF Job, Idle
<1>4. Become(h, v)
  BY DEF Become
<1> HIDE DEF v
<1>5. QED
  BY <1>2, <1>3, <1>4, JobUpdate

-----------------------------------------------------------------------------
(***************************************************************************)
(* Type correctness.                                                       *)
(***************************************************************************)
\* The inbox is empty and nobody does anything at first.
LEMMA TypeInit == Init => TypeOK
<1> SUFFICES ASSUME Init PROVE TypeOK
  OBVIOUS
<1>1. IsTable(EmptyTable, Paths, Items) /\ IsTable(EmptyTable, Items, Row)
  BY DEF IsTable, EmptyTable
<1>2. Idle \in Job
  BY DEF Job
<1>3. QED
  BY <1>1, <1>2 DEF Init, TypeOK

\* A destination is a file of the inbox directory that the name may be stored as.
LEMMA DestinationOfName ==
  ASSUME NEW name \in Names, NEW path \in Destination(name)
  PROVE  /\ path \in Paths /\ path \in Range(Candidates[name])
         /\ path \notin DOMAIN files
BY InboxAssumption DEF Destination, Range

\* Every step of a thread, a process and the clock keeps the types.
LEMMA TypeStep == TypeOK /\ [Next]_vars => TypeOK'
<1> SUFFICES ASSUME TypeOK, [Next]_vars PROVE TypeOK'
  OBVIOUS
<1> USE InboxAssumption
<1>1. Idle \in Job /\ \A a \in Actors : job[a] \in Job
  BY DEF Job, TypeOK
<1>2. Handlers \subseteq Actors /\ Clis \subseteq Actors
  BY DEF Actors
<1>3. ASSUME NEW i \in Items, NEW ttl \in {InboxTTL, SecretTTL}, AddText(i, ttl) PROVE TypeOK'
  <2>1. [path |-> NoPath, expires |-> now + ttl] \in Row
    BY DEF Row, TypeOK
  <2>2. QED
    BY <1>3, <2>1, PutIsTable DEF AddText, TypeOK
<1>4. ASSUME NEW a \in Actors, NEW i \in Items, NEW name \in Names, NEW ttl \in TTLs(a),
             BeginUpload(a, i, name, ttl)
      PROVE  TypeOK'
  <2>1. PICK path \in Destination(name) :
          Start(a, [step |-> "receive", item |-> i, path |-> path, ttl |-> ttl])
    BY <1>4 DEF BeginUpload
  <2>2. path \in Paths /\ ttl \in Nat
    BY DestinationOfName DEF TTLs
  <2>3. [step |-> "receive", item |-> i, path |-> path, ttl |-> ttl] \in Job
    BY <2>2 DEF Job
  <2>4. QED
    BY <1>4, <2>1, <2>3, JobUpdate DEF BeginUpload, TypeOK
<1>5. ASSUME NEW a \in Actors, UploadFails(a) PROVE TypeOK'
  BY <1>1, <1>5, JobUpdate DEF UploadFails, TypeOK
<1>6. ASSUME NEW a \in Actors, PublishUpload(a) PROVE TypeOK'
  <2>1. job[a].item \in Items /\ job[a].path \in Paths /\ job[a].ttl \in Nat
    BY <1>1, <1>6, JobFields DEF PublishUpload
  <2>2. [step |-> "record", item |-> job[a].item, path |-> job[a].path,
         expires |-> now + job[a].ttl] \in Job
    BY <2>1 DEF Job, TypeOK
  <2>3. IsTable(files', Paths, Items)
    BY <1>6, <2>1, PutIsTable DEF PublishUpload, TypeOK
  <2>4. QED
    BY <1>6, <2>1, <2>2, <2>3, JobUpdate DEF PublishUpload, TypeOK
<1>7. ASSUME NEW a \in Actors, RecordUpload(a) PROVE TypeOK'
  <2>1. job[a].item \in Items /\ job[a].path \in Paths /\ job[a].expires \in Nat
    BY <1>1, <1>7, JobFields DEF RecordUpload
  <2>2. [path |-> job[a].path, expires |-> job[a].expires] \in Row
    BY <2>1 DEF Row
  <2>3. IsTable(inbox', Items, Row)
    BY <1>7, <2>1, <2>2, PutIsTable DEF RecordUpload, TypeOK
  <2>4. strays' \subseteq Items
    BY <1>7, <2>1 DEF RecordUpload, TypeOK
  <2>5. QED
    BY <1>1, <1>7, <2>3, <2>4, JobUpdate DEF RecordUpload, TypeOK
<1>8. ASSUME NEW a \in Actors, NEW i \in Items, BeginDiscard(a, i) PROVE TypeOK'
  <2>1. inbox[i].path \in Paths \cup {NoPath}
    BY <1>8 DEF BeginDiscard, Unexpired, TypeOK, IsTable, Row
  <2>2. CASE inbox[i].path = NoPath
    <3>1. [step |-> "forget", item |-> i] \in Job
      BY DEF Job
    <3>2. QED
      BY <1>8, <2>2, <3>1, JobUpdate DEF BeginDiscard, TypeOK, store
  <2>3. CASE inbox[i].path # NoPath
    <3>1. [step |-> "unlink", item |-> i, path |-> inbox[i].path] \in Job
      BY <2>1, <2>3 DEF Job
    <3>2. QED
      BY <1>8, <2>3, <3>1, JobUpdate DEF BeginDiscard, TypeOK, store
  <2>4. QED
    BY <2>2, <2>3
<1>9. ASSUME NEW a \in Actors, DiscardFile(a) PROVE TypeOK'
  <2>1. [step |-> "forget", item |-> job[a].item] \in Job
    BY <1>1, <1>9, JobFields DEF DiscardFile, Job
  <2>2. IsTable(files', Paths, Items)
    BY <1>9, RestrictIsTable DEF DiscardFile, Unlink, TypeOK
  <2>3. QED
    BY <1>9, <2>1, <2>2, JobUpdate DEF DiscardFile, TypeOK
<1>10. ASSUME NEW a \in Actors, DiscardRow(a) PROVE TypeOK'
  <2>1. IsTable(inbox', Items, Row)
    BY <1>10, RestrictIsTable DEF DiscardRow, TypeOK
  <2>2. QED
    BY <1>1, <1>10, <2>1, JobUpdate DEF DiscardRow, TypeOK
<1>11. ASSUME NEW h \in Handlers, NEW i \in Items, BeginDownload(h, i) PROVE TypeOK'
  <2>1. inbox[i].path \in Paths
    BY <1>11 DEF BeginDownload, Unexpired, TypeOK, IsTable, Row
  <2>2. [step |-> "serve", item |-> i, path |-> inbox[i].path] \in Job
    BY <2>1 DEF Job
  <2>3. QED
    BY <1>2, <1>11, <2>2, JobUpdate DEF BeginDownload, TypeOK, store
<1>12. ASSUME NEW h \in Actors, Download(h) PROVE TypeOK'
  <2>1. job[h].item \in Items
    BY <1>1, <1>12, JobFields DEF Download
  <2>2. served' \subseteq Items \X Items
    BY <1>12, <2>1 DEF Download, TypeOK, IsTable
  <2>3. QED
    BY <1>1, <1>12, <2>2, JobUpdate DEF Download, TypeOK, store
<1>13. ASSUME NEW h \in Handlers, BeginSweep(h) PROVE TypeOK'
  <2>1. ExpiredFiles(now) \in SUBSET Paths
    BY DEF ExpiredFiles, TypeOK, IsTable, Row
  <2>2. [step |-> "sweep", at |-> now, expired |-> ExpiredFiles(now)] \in Job
    BY <2>1 DEF Job, TypeOK
  <2>3. QED
    BY <1>2, <1>13, <2>2, JobUpdate DEF BeginSweep, TypeOK, store
<1>14. ASSUME NEW h \in Actors, SweepFile(h) PROVE TypeOK'
  <2>1. PICK path \in job[h].expired : /\ files' = Unlink(files, path)
                                       /\ job' = [job EXCEPT ![h].expired = @ \ {path}]
    BY <1>14 DEF SweepFile
  <2>2. IsTable(files', Paths, Items)
    BY <2>1, RestrictIsTable DEF Unlink, TypeOK
  <2>3. QED
    BY <1>14, <2>1, <2>2, FewerFiles DEF SweepFile, TypeOK
<1>15. ASSUME NEW h \in Actors, SweepFails(h) PROVE TypeOK'
  <2>1. PICK path \in job[h].expired \cap DOMAIN files :
          /\ strays' = strays \cup {files[path]}
          /\ job' = [job EXCEPT ![h].expired = @ \ {path}]
    BY <1>15 DEF SweepFails
  <2>2. strays' \subseteq Items
    BY <2>1 DEF TypeOK, IsTable
  <2>3. QED
    <3>1. job' \in [Actors -> Job]
      BY <1>15, <2>1, FewerFiles DEF SweepFails
    <3>2. kills' \in Nat
      BY <1>15 DEF SweepFails, TypeOK
    <3>3. QED
      BY <1>15, <2>2, <3>1, <3>2 DEF SweepFails, TypeOK, store
<1>16. ASSUME NEW h \in Actors, SweepRows(h) PROVE TypeOK'
  <2>1. IsTable(inbox', Items, Row)
    BY <1>16 DEF SweepRows, Keep, RestrictValues, Restrict, IsTable, TypeOK
  <2>2. QED
    BY <1>1, <1>16, <2>1, JobUpdate DEF SweepRows, TypeOK
<1>17. CASE Tick
  BY <1>17 DEF Tick, TypeOK, store
<1>18. ASSUME NEW a \in Actors, Interrupt(a) PROVE TypeOK'
  <2>1. strays' \subseteq Items
    BY <1>1, <1>18, JobFields DEF Interrupt, TypeOK
  <2>2. QED
    BY <1>1, <1>18, <2>1, JobUpdate DEF Interrupt, TypeOK, store
<1>19. CASE UNCHANGED vars
  BY <1>19 DEF vars, store, TypeOK
<1>20. QED
  BY <1>3, <1>4, <1>5, <1>6, <1>7, <1>8, <1>9, <1>10, <1>11, <1>12, <1>13, <1>14, <1>15,
     <1>16, <1>17, <1>18, <1>19 DEF Next, Begin, Continue

\* Every reachable state of PortalInbox is well typed.
THEOREM TypeCorrect == Spec => []TypeOK
BY TypeInit, TypeStep, PTL DEF Spec

-----------------------------------------------------------------------------
(***************************************************************************)
(* Files with names of their own.  _destination looks for a free name      *)
(* before the bytes arrive, so that what follows holds only when names of  *)
(* different items do not compete for a path.                              *)
(***************************************************************************)
PathsOf(i) == UNION {Range(Candidates[n]) : n \in NamesOf[i]}

OwnNames == \A i, k \in Items : i # k => PathsOf(i) \cap PathsOf(k) = {}

Incoming(a) == job[a].step \in {"receive", "record"}

\* An item that was drawn and is not being received: it has its row, or will never have one.
Settled(i) == i \in drawn /\ \A a \in Actors : Incoming(a) => job[a].item # i

FileInv == \A p \in DOMAIN files : files[p] \in drawn /\ p \in PathsOf(files[p])

RowInv == \A i \in DOMAIN inbox : Settled(i) /\ inbox[i].path \in PathsOf(i) \cup {NoPath}

UniqueInv ==
  \A a, b \in Actors : a # b /\ Incoming(a) /\ Incoming(b) => job[a].item # job[b].item

\* What holds of an operation that is going on, by its step.
ReceiveOK(j) ==
  /\ j.item \in drawn /\ j.path \in PathsOf(j.item)
  /\ \A p \in DOMAIN files : files[p] # j.item

RecordOK(j) ==
  /\ j.item \in drawn /\ j.path \in PathsOf(j.item) /\ j.path \in DOMAIN files
  /\ \A p \in DOMAIN files : files[p] = j.item <=> p = j.path

UnlinkOK(j) ==
  /\ Settled(j.item) /\ j.path \in PathsOf(j.item)
  /\ j.item \in DOMAIN inbox => inbox[j.item].path = j.path

ServeOK(j) == j.path \in PathsOf(j.item)

ForgetOK(j) ==
  /\ Settled(j.item)
  /\ j.item \in strays \/ \A p \in DOMAIN files : files[p] # j.item

SweepOK(j) ==
  /\ j.at <= now
  /\ \A p \in j.expired :
       \E i \in Items : /\ Settled(i) /\ p \in PathsOf(i)
                        /\ i \in DOMAIN inbox => inbox[i].expires < j.at
  /\ \A i \in DOMAIN inbox :
       /\ inbox[i].expires < j.at
       /\ inbox[i].path \in DOMAIN files /\ files[inbox[i].path] = i
       => inbox[i].path \in j.expired \/ i \in strays

JobOK(a) ==
  /\ job[a].step = "receive" => ReceiveOK(job[a])
  /\ job[a].step = "record" => RecordOK(job[a])
  /\ job[a].step = "unlink" => UnlinkOK(job[a])
  /\ job[a].step = "serve" => ServeOK(job[a])
  /\ job[a].step = "forget" => ForgetOK(job[a])
  /\ job[a].step = "sweep" => SweepOK(job[a])

JobsInv == \A a \in Actors : JobOK(a)

OwnInv == FileInv /\ RowInv /\ UniqueInv /\ JobsInv

(***************************************************************************)
(* What a step of the actors in A grants to all the others: it adds files  *)
(* and rows of its own item only, and removes files of settled items only. *)
(***************************************************************************)
Mine(A, i) == \E a \in A : Incoming(a) /\ job[a].item = i

Grants(A) ==
  /\ \A b \in Actors \ A : job'[b] = job[b]
  /\ now' \in Nat /\ now <= now' /\ drawn \subseteq drawn' /\ strays \subseteq strays'
  /\ \A i \in Items : Settled(i) => Settled(i)'
  /\ \A p \in DOMAIN files' :
       \/ p \in DOMAIN files /\ files'[p] = files[p]
       \/ Mine(A, files'[p]) /\ p \in PathsOf(files'[p])
  /\ \A p \in DOMAIN files \ DOMAIN files' : \E i \in Items : Settled(i) /\ p \in PathsOf(i)
  /\ \A i \in DOMAIN inbox' :
       \/ i \in DOMAIN inbox /\ inbox'[i] = inbox[i]
       \/ /\ i \notin drawn /\ Settled(i)'
          /\ inbox'[i].path = NoPath /\ inbox'[i].expires >= now
       \/ /\ Mine(A, i) /\ Settled(i)'
          /\ inbox'[i].path \in PathsOf(i)
          /\ inbox'[i].expires < now => i \in strays'

\* An operation does not see the steps of others.
LEMMA Undisturbed ==
  ASSUME OwnNames, TypeOK, TypeOK', OwnInv, NEW A \in SUBSET Actors, Grants(A), NEW b \in Actors \ A
  PROVE  JobOK(b)'
<1>1. PICK j \in Job : j = job[b]
  BY DEF TypeOK
<1>2. job'[b] = j /\ JobOK(b)
  BY <1>1 DEF Grants, OwnInv, JobsInv
<1>3. ASSUME NEW i, Mine(A, i)
      PROVE  ~Settled(i) /\ (j.step \in {"receive", "record"} => i # j.item)
  BY <1>1, <1>3 DEF Mine, Settled, OwnInv, UniqueInv, Incoming
<1>4. CASE j.step = "receive"
  <2>1. j.item \in drawn /\ j.path \in PathsOf(j.item) /\ \A p \in DOMAIN files : files[p] # j.item
    BY <1>1, <1>2, <1>4 DEF JobOK, ReceiveOK
  <2>2. \A p \in DOMAIN files' : files'[p] # j.item
    BY <1>3, <1>4, <2>1 DEF Grants
  <2>3. ReceiveOK(j)'
    BY <2>1, <2>2 DEF Grants, ReceiveOK
  <2>4. QED
    BY <1>2, <1>4, <2>3 DEF JobOK
<1>5. CASE j.step = "record"
  <2>1. /\ j.item \in drawn /\ j.path \in PathsOf(j.item) /\ j.path \in DOMAIN files
        /\ \A p \in DOMAIN files : files[p] = j.item <=> p = j.path
        /\ j.item \in Items
    BY <1>1, <1>2, <1>5, JobFields DEF JobOK, RecordOK
  <2>2. ~Settled(j.item)
    BY <1>1, <1>5 DEF Settled, Incoming
  <2>3. j.path \in DOMAIN files'
    BY <2>1, <2>2 DEF Grants, OwnNames
  <2>4. files'[j.path] = j.item
    <3>1. CASE files'[j.path] = files[j.path]
      BY <2>1, <3>1
    <3>2. CASE Mine(A, files'[j.path]) /\ j.path \in PathsOf(files'[j.path])
      BY <1>3, <1>5, <2>1, <2>3, <3>2 DEF OwnNames, TypeOK, IsTable
    <3>3. QED
      BY <2>3, <3>1, <3>2 DEF Grants
  <2>5. \A p \in DOMAIN files' : files'[p] = j.item => p = j.path
    BY <1>3, <1>5, <2>1 DEF Grants
  <2>6. RecordOK(j)'
    BY <2>1, <2>3, <2>4, <2>5 DEF Grants, RecordOK
  <2>7. QED
    BY <1>2, <1>5, <2>6 DEF JobOK
<1>6. CASE j.step = "unlink"
  <2>1. /\ Settled(j.item) /\ j.path \in PathsOf(j.item) /\ j.item \in Items
        /\ j.item \in DOMAIN inbox => inbox[j.item].path = j.path
    BY <1>1, <1>2, <1>6, JobFields DEF JobOK, UnlinkOK
  <2>2. Settled(j.item)'
    BY <2>1 DEF Grants
  <2>3. j.item \in DOMAIN inbox' => inbox'[j.item].path = j.path
    BY <1>3, <2>1 DEF Grants, Settled
  <2>4. UnlinkOK(j)'
    BY <2>1, <2>2, <2>3 DEF UnlinkOK
  <2>5. QED
    BY <1>2, <1>6, <2>4 DEF JobOK
<1>7. CASE j.step = "serve"
  BY <1>1, <1>2, <1>7 DEF JobOK, ServeOK
<1>8. CASE j.step = "forget"
  <2>1. /\ Settled(j.item) /\ j.item \in Items
        /\ j.item \in strays \/ \A p \in DOMAIN files : files[p] # j.item
    BY <1>1, <1>2, <1>8, JobFields DEF JobOK, ForgetOK
  <2>2. Settled(j.item)'
    BY <2>1 DEF Grants
  <2>3. j.item \in strays' \/ \A p \in DOMAIN files' : files'[p] # j.item
    BY <1>3, <2>1 DEF Grants
  <2>4. ForgetOK(j)'
    BY <2>2, <2>3 DEF ForgetOK
  <2>5. QED
    BY <1>2, <1>8, <2>4 DEF JobOK
<1>9. CASE j.step = "sweep"
  <2>1. SweepOK(j) /\ j.at \in Nat /\ j.expired \subseteq Paths
    BY <1>1, <1>2, <1>9, JobFields DEF JobOK
  <2>2. j.at <= now'
    <3>1. now \in Nat /\ now' \in Nat /\ now <= now'
      BY DEF TypeOK, Grants
    <3>2. QED
      BY <2>1, <3>1 DEF SweepOK
  <2>3. ASSUME NEW p \in j.expired
        PROVE  \E i \in Items : /\ Settled(i)' /\ p \in PathsOf(i)
                                /\ i \in DOMAIN inbox' => inbox'[i].expires < j.at
    <3>1. PICK i \in Items : /\ Settled(i) /\ p \in PathsOf(i)
                             /\ i \in DOMAIN inbox => inbox[i].expires < j.at
      BY <2>1 DEF SweepOK
    <3>2. Settled(i)'
      BY <3>1 DEF Grants
    <3>3. i \in DOMAIN inbox' => inbox'[i].expires < j.at
      BY <1>3, <3>1 DEF Grants, Settled
    <3>4. QED
      BY <3>1, <3>2, <3>3
  <2>4. ASSUME NEW i \in DOMAIN inbox', inbox'[i].expires < j.at,
               inbox'[i].path \in DOMAIN files', files'[inbox'[i].path] = i
        PROVE  inbox'[i].path \in j.expired \/ i \in strays'
    <3>1. CASE i \in DOMAIN inbox /\ inbox'[i] = inbox[i]
      <4>1. ~Mine(A, i)
        BY <1>3, <3>1 DEF OwnInv, RowInv
      <4>2. inbox[i].path \in DOMAIN files /\ files[inbox[i].path] = i
        BY <2>4, <3>1, <4>1 DEF Grants
      <4>3. QED
        BY <2>1, <2>4, <3>1, <4>2 DEF SweepOK, Grants
    <3>2. CASE i \notin drawn /\ inbox'[i].path = NoPath /\ inbox'[i].expires >= now
      <4>1. NoPath \notin DOMAIN files'
        BY InboxAssumption DEF TypeOK, IsTable
      <4>2. QED
        BY <2>4, <3>2, <4>1
    <3>3. CASE inbox'[i].expires < now => i \in strays'
      <4>1. inbox'[i].expires \in Nat /\ now \in Nat /\ j.at <= now
        BY <2>1 DEF TypeOK, IsTable, Row, SweepOK
      <4>2. inbox'[i].expires < now
        BY <2>1, <2>4, <4>1
      <4>3. QED
        BY <3>3, <4>2
    <3>4. QED
      BY <3>1, <3>2, <3>3 DEF Grants
  <2>5. SweepOK(j)'
    BY <2>2, <2>3, <2>4 DEF SweepOK
  <2>6. QED
    BY <1>2, <1>9, <2>5 DEF JobOK
<1>10. CASE j.step = "idle"
  BY <1>2, <1>10 DEF JobOK
<1>11. QED
  BY <1>4, <1>5, <1>6, <1>7, <1>8, <1>9, <1>10, JobFields

\* An operation that begins to receive an item draws its id: no other has it.
LEMMA Incomings ==
  ASSUME TypeOK, OwnInv, NEW a \in Actors, drawn \subseteq drawn',
         \A b \in Actors \ {a} : job'[b] = job[b],
         job'[a].step \in {"receive", "record"} =>
           \/ Incoming(a) /\ job'[a].item = job[a].item
           \/ job'[a].item \notin drawn
  PROVE  UniqueInv' /\ \A i \in Items : Settled(i) => Settled(i)'
<1>1. \A b \in Actors : Incoming(b) => job[b].item \in drawn
  BY DEF OwnInv, JobsInv, JobOK, ReceiveOK, RecordOK, Incoming
<1>2. UniqueInv'
  BY <1>1 DEF OwnInv, UniqueInv, Incoming
<1>3. \A i \in Items : Settled(i) => Settled(i)'
  BY DEF Settled, Incoming
<1>4. QED
  BY <1>2, <1>3

\* What a step grants to others, and what it leaves its own operation with, is all
\* there is to prove of it.
LEMMA Combined ==
  ASSUME OwnNames, TypeOK, TypeOK', OwnInv, NEW A \in SUBSET Actors, Grants(A), UniqueInv',
         \A a \in A : JobOK(a)'
  PROVE  OwnInv'
<1>1. JobsInv'
  BY Undisturbed DEF JobsInv
<1>2. \A a \in Actors : Incoming(a) => job[a].item \in drawn
  BY DEF OwnInv, JobsInv, JobOK, ReceiveOK, RecordOK, Incoming
<1>3. FileInv'
  BY <1>2 DEF Grants, Mine, OwnInv, FileInv
<1>4. RowInv'
  <2> SUFFICES ASSUME NEW i \in DOMAIN inbox'
               PROVE  Settled(i)' /\ inbox'[i].path \in PathsOf(i) \cup {NoPath}
    BY DEF RowInv
  <2>1. i \in Items
    BY DEF TypeOK, IsTable
  <2>2. QED
    BY <2>1 DEF Grants, OwnInv, RowInv
<1>5. QED
  BY <1>1, <1>3, <1>4 DEF OwnInv

\* A step that leaves files and rows alone.
LEMMA Quiet ==
  ASSUME TypeOK, OwnInv, NEW a \in Actors, UNCHANGED <<now, files, inbox, drawn>>,
         strays \subseteq strays', \A b \in Actors \ {a} : job'[b] = job[b],
         job'[a].step \notin {"receive", "record"}
  PROVE  Grants({a}) /\ UniqueInv'
<1>1. UniqueInv' /\ \A i \in Items : Settled(i) => Settled(i)'
  BY Incomings
<1>2. QED
  BY <1>1 DEF Grants, TypeOK

\* A process that does nothing has nothing to answer for.
LEMMA IdleOK ==
  ASSUME NEW a, job'[a] = Idle
  PROVE  JobOK(a)' /\ job'[a].step \notin {"receive", "record"}
BY DEF JobOK, Idle

\* Nothing is in the inbox at first.
LEMMA OwnInit == Init => OwnInv
<1> SUFFICES ASSUME Init PROVE OwnInv
  OBVIOUS
<1>1. FileInv /\ RowInv
  BY DEF Init, FileInv, RowInv, EmptyTable
<1>2. UniqueInv
  BY DEF Init, UniqueInv, Incoming, Idle
<1>3. JobsInv
  BY DEF Init, JobsInv, JobOK, Idle
<1>4. QED
  BY <1>1, <1>2, <1>3 DEF OwnInv

\* A file that only one item may have goes, or a row, or nothing.
LEMMA Removes ==
  ASSUME TypeOK, OwnInv, NEW a \in Actors, UNCHANGED <<now, drawn>>,
         strays \subseteq strays', \A b \in Actors \ {a} : job'[b] = job[b],
         job'[a].step \notin {"receive", "record"},
         DOMAIN files' \subseteq DOMAIN files, \A p \in DOMAIN files' : files'[p] = files[p],
         DOMAIN inbox' \subseteq DOMAIN inbox, \A i \in DOMAIN inbox' : inbox'[i] = inbox[i],
         \A p \in DOMAIN files \ DOMAIN files' : \E i \in Items : Settled(i) /\ p \in PathsOf(i)
  PROVE  Grants({a}) /\ UniqueInv'
<1>1. UniqueInv' /\ \A i \in Items : Settled(i) => Settled(i)'
  BY Incomings
<1>2. QED
  BY <1>1 DEF Grants, TypeOK

\* Every step keeps files, rows and operations of different items apart.
LEMMA OwnStep ==
  ASSUME OwnNames, TypeOK, TypeOK', OwnInv, RowsAndFilesAgree, [Next]_vars
  PROVE  OwnInv'
<1> USE InboxAssumption
<1>1. /\ Idle \in Job /\ \A a \in Actors : job[a] \in Job
      /\ Handlers \subseteq Actors /\ Clis \subseteq Actors
  BY DEF Job, TypeOK, Actors
<1>2. ASSUME NEW a \in Actors, Grants({a}), UniqueInv', JobOK(a)' PROVE OwnInv'
  BY <1>2, Combined
<1>3. ASSUME NEW i \in Items, NEW ttl \in {InboxTTL, SecretTTL}, AddText(i, ttl) PROVE OwnInv'
  <2>1. /\ inbox' = Put(inbox, i, [path |-> NoPath, expires |-> now + ttl])
        /\ i \notin drawn /\ drawn' = drawn \cup {i} /\ UNCHANGED <<now, files, job, strays>>
    BY <1>3 DEF AddText
  <2>2. \A a \in Actors : Incoming(a) => job[a].item \in drawn
    BY DEF OwnInv, JobsInv, JobOK, ReceiveOK, RecordOK, Incoming
  <2>3. UniqueInv' /\ (\A k \in Items : Settled(k) => Settled(k)') /\ Settled(i)'
    BY <2>1, <2>2 DEF OwnInv, UniqueInv, Settled, Incoming
  <2>4. /\ DOMAIN inbox' = DOMAIN inbox \cup {i}
        /\ \A k \in DOMAIN inbox \ {i} : inbox'[k] = inbox[k]
        /\ inbox'[i].path = NoPath /\ inbox'[i].expires = now + ttl
    BY <2>1 DEF Put
  <2>5. now + ttl >= now
    BY DEF TypeOK
  <2>6. Grants({})
    BY <2>1, <2>3, <2>4, <2>5 DEF Grants, TypeOK
  <2>7. QED
    BY <2>3, <2>6, Combined
<1>4. ASSUME NEW a \in Actors, NEW i \in Items, NEW name \in Names, NEW ttl \in TTLs(a),
             BeginUpload(a, i, name, ttl)
      PROVE  OwnInv'
  <2>1. PICK path \in Destination(name) :
          Start(a, [step |-> "receive", item |-> i, path |-> path, ttl |-> ttl])
    BY <1>4 DEF BeginUpload
  <2>2. path \in Paths /\ path \in PathsOf(i) /\ ttl \in Nat
    BY <1>4, DestinationOfName DEF PathsOf, BeginUpload, TTLs
  <2> DEFINE v == [step |-> "receive", item |-> i, path |-> path, ttl |-> ttl]
  <2>3. v \in Job /\ v.step = "receive" /\ v.item = i /\ v.path = path
    BY <2>2 DEF Job
  <2>4. Start(a, v)
    BY <2>1
  <2> HIDE DEF v
  <2>5. job'[a] = v /\ \A b \in Actors \ {a} : job'[b] = job[b]
    BY <2>3, <2>4, JobUpdate
  <2>6. i \notin drawn /\ drawn' = drawn \cup {i} /\ UNCHANGED <<now, files, inbox, strays>>
    BY <1>4 DEF BeginUpload
  <2>7. UniqueInv' /\ \A k \in Items : Settled(k) => Settled(k)'
    BY <2>3, <2>5, <2>6, Incomings
  <2>8. Grants({a})
    BY <2>5, <2>6, <2>7 DEF Grants, TypeOK
  <2>9. ReceiveOK(v)'
    BY <2>2, <2>3, <2>6 DEF ReceiveOK, OwnInv, FileInv
  <2>10. JobOK(a)'
    BY <2>3, <2>5, <2>9 DEF JobOK
  <2>11. QED
    BY <1>2, <2>7, <2>8, <2>10
<1>5. ASSUME NEW a \in Actors, UploadFails(a) PROVE OwnInv'
  <2>1. job'[a] = Idle /\ \A b \in Actors \ {a} : job'[b] = job[b]
    BY <1>1, <1>5, JobUpdate DEF UploadFails
  <2>2. QED
    BY <1>2, <1>5, <2>1, IdleOK, Quiet DEF UploadFails
<1>6. ASSUME NEW a \in Actors, PublishUpload(a) PROVE OwnInv'
  <2>1. PICK j \in Job : j = job[a] /\ j.step = "receive"
    BY <1>1, <1>6 DEF PublishUpload
  <2>2. /\ j.item \in Items /\ j.path \in Paths /\ j.ttl \in Nat /\ j.item \in drawn
        /\ j.path \in PathsOf(j.item) /\ \A p \in DOMAIN files : files[p] # j.item
    BY <2>1, JobFields DEF OwnInv, JobsInv, JobOK, ReceiveOK
  <2> PICK t : t = now + j.ttl
    OBVIOUS
  <2> DEFINE v == [step |-> "record", item |-> j.item, path |-> j.path, expires |-> t]
  <2>3. v \in Job /\ v.step = "record" /\ v.item = j.item /\ v.path = j.path
    BY <2>2 DEF Job, TypeOK
  <2>4. Become(a, v) /\ files' = Put(files, j.path, j.item) /\ UNCHANGED <<now, inbox, drawn, strays>>
    BY <1>6, <2>1 DEF PublishUpload
  <2> HIDE DEF v
  <2>5. job'[a] = v /\ \A b \in Actors \ {a} : job'[b] = job[b]
    BY <2>3, <2>4, JobUpdate
  <2>6. UniqueInv' /\ \A k \in Items : Settled(k) => Settled(k)'
    BY <2>1, <2>3, <2>4, <2>5, Incomings DEF Incoming
  <2>7. /\ DOMAIN files' = DOMAIN files \cup {j.path} /\ files'[j.path] = j.item
        /\ \A p \in DOMAIN files \ {j.path} : files'[p] = files[p]
    BY <2>4 DEF Put
  <2>8. Mine({a}, j.item)
    BY <2>1 DEF Mine, Incoming
  <2>9. Grants({a})
    BY <2>2, <2>4, <2>5, <2>6, <2>7, <2>8 DEF Grants, TypeOK
  <2>10. RecordOK(v)'
    BY <2>2, <2>3, <2>4, <2>7 DEF RecordOK
  <2>11. JobOK(a)'
    BY <2>3, <2>5, <2>10 DEF JobOK
  <2>12. QED
    BY <1>2, <2>6, <2>9, <2>11
<1>7. ASSUME NEW a \in Actors, RecordUpload(a) PROVE OwnInv'
  <2>1. PICK j \in Job : j = job[a] /\ j.step = "record"
    BY <1>1, <1>7 DEF RecordUpload
  <2>2. /\ j.item \in Items /\ j.path \in Paths /\ j.expires \in Nat /\ j.item \in drawn
        /\ j.path \in PathsOf(j.item)
    BY <2>1, JobFields DEF OwnInv, JobsInv, JobOK, RecordOK
  <2>3. /\ inbox' = Put(inbox, j.item, [path |-> j.path, expires |-> j.expires])
        /\ strays' = IF j.expires < now THEN strays \cup {j.item} ELSE strays
        /\ Become(a, Idle) /\ UNCHANGED <<now, files, drawn>>
    BY <1>7, <2>1 DEF RecordUpload
  <2>4. job'[a] = Idle /\ \A b \in Actors \ {a} : job'[b] = job[b]
    BY <1>1, <2>3, JobUpdate
  <2>5. UniqueInv' /\ \A k \in Items : Settled(k) => Settled(k)'
    BY <2>3, <2>4, IdleOK, Incomings
  <2>6. Mine({a}, j.item)
    BY <2>1 DEF Mine, Incoming
  <2>7. Settled(j.item)'
    <3>1. \A b \in Actors \ {a} : Incoming(b) => job[b].item # j.item
      BY <2>1 DEF OwnInv, UniqueInv, Incoming
    <3>2. QED
      BY <2>2, <2>3, <2>4, <3>1, IdleOK DEF Settled, Incoming
  <2>8. /\ DOMAIN inbox' = DOMAIN inbox \cup {j.item}
        /\ inbox'[j.item].path = j.path /\ inbox'[j.item].expires = j.expires
        /\ \A k \in DOMAIN inbox \ {j.item} : inbox'[k] = inbox[k]
    BY <2>3 DEF Put
  <2>9. Grants({a})
    <3>1. j.expires < now => j.item \in strays'
      BY <2>3
    <3>2. now' \in Nat /\ now <= now' /\ strays \subseteq strays'
      BY <2>3 DEF TypeOK
    <3>3. QED
      BY <2>2, <2>3, <2>4, <2>5, <2>6, <2>7, <2>8, <3>1, <3>2 DEF Grants
  <2>10. QED
    BY <1>2, <2>4, <2>5, <2>9, IdleOK
<1>8. ASSUME NEW a \in Actors, NEW i \in Items, BeginDiscard(a, i) PROVE OwnInv'
  <2>1. /\ i \in DOMAIN inbox /\ Settled(i) /\ inbox[i].path \in Paths \cup {NoPath}
        /\ inbox[i].path \in PathsOf(i) \cup {NoPath}
        /\ UNCHANGED <<now, files, inbox, drawn, strays>>
    BY <1>8 DEF BeginDiscard, Unexpired, OwnInv, RowInv, TypeOK, IsTable, Row, store
  <2>2. CASE inbox[i].path = NoPath
    <3> DEFINE v == [step |-> "forget", item |-> i]
    <3>1. v \in Job /\ v.step = "forget" /\ v.item = i
      BY DEF Job
    <3>2. Start(a, v)
      BY <1>8, <2>2 DEF BeginDiscard
    <3> HIDE DEF v
    <3>3. job'[a] = v /\ \A b \in Actors \ {a} : job'[b] = job[b]
      BY <3>1, <3>2, JobUpdate
    <3>4. Grants({a}) /\ UniqueInv'
      BY <2>1, <3>1, <3>3, Quiet
    <3>5. i \in strays \/ \A p \in DOMAIN files : files[p] # i
      BY <2>1, <2>2 DEF RowsAndFilesAgree, FilesAreAccountedFor, Settled, Incoming, TypeOK, IsTable
    <3>6. ForgetOK(v)'
      BY <2>1, <3>1, <3>4, <3>5 DEF ForgetOK, Grants
    <3>7. JobOK(a)'
      BY <3>1, <3>3, <3>6 DEF JobOK
    <3>8. QED
      BY <1>2, <3>4, <3>7
  <2>3. CASE inbox[i].path # NoPath
    <3> DEFINE v == [step |-> "unlink", item |-> i, path |-> inbox[i].path]
    <3>1. v \in Job /\ v.step = "unlink" /\ v.item = i /\ v.path = inbox[i].path
      BY <2>1, <2>3 DEF Job
    <3>2. Start(a, v)
      BY <1>8, <2>3 DEF BeginDiscard
    <3> HIDE DEF v
    <3>3. PICK w : w = v
      OBVIOUS
    <3>4. job'[a] = w /\ \A b \in Actors \ {a} : job'[b] = job[b]
      BY <3>1, <3>2, <3>3, JobUpdate
    <3>5. Grants({a}) /\ UniqueInv'
      BY <2>1, <3>1, <3>3, <3>4, Quiet
    <3>6. UnlinkOK(w)'
      BY <2>1, <2>3, <3>1, <3>3, <3>5 DEF UnlinkOK, Grants
    <3>7. JobOK(a)'
      BY <3>1, <3>3, <3>4, <3>6 DEF JobOK
    <3>8. QED
      BY <1>2, <3>5, <3>7
  <2>4. QED
    BY <2>2, <2>3
<1>9. ASSUME NEW a \in Actors, DiscardFile(a) PROVE OwnInv'
  <2>1. PICK j \in Job : j = job[a] /\ j.step = "unlink"
    BY <1>1, <1>9 DEF DiscardFile
  <2>2. UnlinkOK(j) /\ j.item \in Items
    BY <2>1, JobFields DEF OwnInv, JobsInv, JobOK
  <2> DEFINE v == [step |-> "forget", item |-> j.item]
  <2>3. v \in Job /\ v.step = "forget" /\ v.item = j.item
    BY <2>2 DEF Job
  <2>4. /\ Become(a, v) /\ files' = Restrict(files, DOMAIN files \ {j.path})
        /\ UNCHANGED <<now, inbox, drawn, strays>>
    BY <1>9, <2>1 DEF DiscardFile, Unlink
  <2> HIDE DEF v
  <2>5. job'[a] = v /\ \A b \in Actors \ {a} : job'[b] = job[b]
    BY <2>3, <2>4, JobUpdate
  <2>6. DOMAIN files' = DOMAIN files \ {j.path} /\ \A p \in DOMAIN files' : files'[p] = files[p]
    BY <2>4, RestrictIsTable DEF TypeOK
  <2>7. Grants({a}) /\ UniqueInv'
    BY <2>2, <2>3, <2>4, <2>5, <2>6, Removes DEF UnlinkOK
  <2>8. j.item \in strays \/ \A p \in DOMAIN files' : files'[p] # j.item
    BY <2>2, <2>6 DEF UnlinkOK, RowsAndFilesAgree, FilesAreAccountedFor, Settled, Incoming
  <2>9. ForgetOK(v)'
    BY <2>2, <2>3, <2>4, <2>7, <2>8 DEF ForgetOK, UnlinkOK, Grants
  <2>10. JobOK(a)'
    BY <2>3, <2>5, <2>9 DEF JobOK
  <2>11. QED
    BY <1>2, <2>7, <2>10
<1>10. ASSUME NEW a \in Actors, DiscardRow(a) PROVE OwnInv'
  <2>1. job'[a] = Idle /\ \A b \in Actors \ {a} : job'[b] = job[b]
    BY <1>1, <1>10, JobUpdate DEF DiscardRow
  <2>2. DOMAIN inbox' \subseteq DOMAIN inbox /\ \A i \in DOMAIN inbox' : inbox'[i] = inbox[i]
    BY <1>10, RestrictIsTable DEF DiscardRow, TypeOK
  <2>3. Grants({a}) /\ UniqueInv'
    BY <1>10, <2>1, <2>2, IdleOK, Removes DEF DiscardRow
  <2>4. QED
    BY <1>2, <2>1, <2>3, IdleOK
<1>11. ASSUME NEW h \in Handlers, NEW i \in Items, BeginDownload(h, i) PROVE OwnInv'
  <2>1. inbox[i].path \in Paths /\ inbox[i].path \in PathsOf(i)
    BY <1>11 DEF BeginDownload, Unexpired, OwnInv, RowInv, TypeOK, IsTable, Row
  <2> DEFINE v == [step |-> "serve", item |-> i, path |-> inbox[i].path]
  <2>2. v \in Job /\ v.step = "serve" /\ v.item = i /\ v.path = inbox[i].path
    BY <2>1 DEF Job
  <2>3. Start(h, v) /\ h \in Actors /\ UNCHANGED <<now, files, inbox, drawn, strays>>
    BY <1>1, <1>11 DEF BeginDownload, store
  <2> HIDE DEF v
  <2>4. PICK w : w = v
    OBVIOUS
  <2>5. job'[h] = w /\ \A b \in Actors \ {h} : job'[b] = job[b]
    BY <2>2, <2>3, <2>4, JobUpdate
  <2>6. JobOK(h)'
    BY <2>1, <2>2, <2>4, <2>5 DEF JobOK, ServeOK
  <2>7. QED
    BY <1>2, <2>2, <2>3, <2>4, <2>5, <2>6, Quiet
<1>12. ASSUME NEW h \in Actors, Download(h) PROVE OwnInv'
  <2>1. job'[h] = Idle /\ \A b \in Actors \ {h} : job'[b] = job[b]
    BY <1>1, <1>12, JobUpdate DEF Download
  <2>2. QED
    BY <1>2, <1>12, <2>1, IdleOK, Quiet DEF Download, store
<1>13. ASSUME NEW h \in Handlers, BeginSweep(h) PROVE OwnInv'
  <2>1. ExpiredFiles(now) \in SUBSET Paths
    BY DEF ExpiredFiles, TypeOK, IsTable, Row
  <2>2. PICK t, e : t = now /\ e = ExpiredFiles(now)
    OBVIOUS
  <2> DEFINE v == [step |-> "sweep", at |-> t, expired |-> e]
  <2>3. v \in Job /\ v.step = "sweep" /\ v.at = now /\ v.expired = ExpiredFiles(now)
    BY <2>1, <2>2 DEF Job, TypeOK
  <2>4. Start(h, v) /\ h \in Actors /\ UNCHANGED <<now, files, inbox, drawn, strays>>
    BY <1>1, <1>13, <2>2 DEF BeginSweep, store
  <2> HIDE DEF v
  <2>5. job'[h] = v /\ \A b \in Actors \ {h} : job'[b] = job[b]
    BY <2>3, <2>4, JobUpdate
  <2>6. Grants({h}) /\ UniqueInv'
    BY <2>3, <2>4, <2>5, Quiet
  <2>7. \A p \in v.expired :
          \E i \in Items : /\ Settled(i)' /\ p \in PathsOf(i)
                           /\ i \in DOMAIN inbox => inbox[i].expires < v.at
    <3> SUFFICES ASSUME NEW p \in v.expired
                 PROVE  \E i \in Items : /\ Settled(i)' /\ p \in PathsOf(i)
                                         /\ i \in DOMAIN inbox => inbox[i].expires < v.at
      OBVIOUS
    <3>1. PICK i \in DOMAIN inbox : p = inbox[i].path /\ inbox[i].expires < now /\ p # NoPath
      BY <2>3 DEF ExpiredFiles
    <3>2. i \in Items /\ Settled(i) /\ p \in PathsOf(i)
      BY <3>1 DEF TypeOK, IsTable, OwnInv, RowInv
    <3>3. Settled(i)'
      BY <2>6, <3>2 DEF Grants
    <3>4. QED
      BY <2>3, <3>1, <3>2, <3>3
  <2>8. \A i \in DOMAIN inbox :
          inbox[i].expires < v.at /\ inbox[i].path \in DOMAIN files => inbox[i].path \in v.expired
    BY <2>3 DEF ExpiredFiles, TypeOK, IsTable
  <2>9. v.at <= now
    BY <2>3 DEF TypeOK
  <2>10. SweepOK(v)'
    BY <2>4, <2>7, <2>8, <2>9 DEF SweepOK
  <2>11. JobOK(h)'
    BY <2>3, <2>5, <2>10 DEF JobOK
  <2>12. QED
    BY <1>2, <2>4, <2>6, <2>11
<1>14. ASSUME NEW h \in Actors, SweepFile(h) PROVE OwnInv'
  <2>1. PICK path \in job[h].expired : /\ files' = Restrict(files, DOMAIN files \ {path})
                                       /\ job' = [job EXCEPT ![h].expired = @ \ {path}]
    BY <1>14 DEF SweepFile, Unlink
  <2>2. SweepOK(job[h]) /\ UNCHANGED <<now, inbox, drawn, strays>>
    BY <1>14 DEF SweepFile, OwnInv, JobsInv, JobOK
  <2>3. PICK v : v = job'[h]
    OBVIOUS
  <2>4. /\ v.step = "sweep" /\ v.at = job[h].at /\ v.expired = job[h].expired \ {path}
        /\ \A b \in Actors \ {h} : job'[b] = job[b]
    BY <1>14, <2>1, <2>3, FewerFiles DEF SweepFile
  <2>5. DOMAIN files' = DOMAIN files \ {path} /\ \A p \in DOMAIN files' : files'[p] = files[p]
    BY <2>1, RestrictIsTable DEF TypeOK
  <2>6. Grants({h}) /\ UniqueInv'
    BY <2>1, <2>2, <2>3, <2>4, <2>5, Removes DEF SweepOK
  <2>7. SweepOK(v)'
    BY <2>2, <2>4, <2>5, <2>6 DEF SweepOK, Grants
  <2>8. JobOK(h)'
    BY <2>3, <2>4, <2>7 DEF JobOK
  <2>9. QED
    BY <1>2, <2>6, <2>8
<1>15. ASSUME NEW h \in Actors, SweepFails(h) PROVE OwnInv'
  <2>1. PICK path \in job[h].expired \cap DOMAIN files :
          /\ strays' = strays \cup {files[path]}
          /\ job' = [job EXCEPT ![h].expired = @ \ {path}]
    BY <1>15 DEF SweepFails
  <2>2. SweepOK(job[h]) /\ UNCHANGED <<now, files, inbox, drawn>>
    BY <1>15 DEF SweepFails, OwnInv, JobsInv, JobOK, store
  <2>3. PICK v : v = job'[h]
    OBVIOUS
  <2>4. /\ v.step = "sweep" /\ v.at = job[h].at /\ v.expired = job[h].expired \ {path}
        /\ \A b \in Actors \ {h} : job'[b] = job[b]
    BY <1>15, <2>1, <2>3, FewerFiles DEF SweepFails
  <2>5. Grants({h}) /\ UniqueInv'
    BY <2>1, <2>2, <2>3, <2>4, Quiet
  <2>6. SweepOK(v)'
    BY <2>1, <2>2, <2>4, <2>5 DEF SweepOK, Grants
  <2>7. JobOK(h)'
    BY <2>3, <2>4, <2>6 DEF JobOK
  <2>8. QED
    BY <1>2, <2>5, <2>7
<1>16. ASSUME NEW h \in Actors, SweepRows(h) PROVE OwnInv'
  <2>1. job'[h] = Idle /\ \A b \in Actors \ {h} : job'[b] = job[b]
    BY <1>1, <1>16, JobUpdate DEF SweepRows
  <2>2. DOMAIN inbox' \subseteq DOMAIN inbox /\ \A i \in DOMAIN inbox' : inbox'[i] = inbox[i]
    BY <1>16 DEF SweepRows, Keep, RestrictValues, Restrict
  <2>3. Grants({h}) /\ UniqueInv'
    BY <1>16, <2>1, <2>2, IdleOK, Removes DEF SweepRows
  <2>4. QED
    BY <1>2, <2>1, <2>3, IdleOK
<1>17. ASSUME NEW a \in Actors, Interrupt(a) PROVE OwnInv'
  <2>1. job'[a] = Idle /\ \A b \in Actors \ {a} : job'[b] = job[b]
    BY <1>1, <1>17, JobUpdate DEF Interrupt
  <2>2. QED
    BY <1>2, <1>17, <2>1, IdleOK, Quiet DEF Interrupt, store
<1>18. ASSUME UNCHANGED <<files, inbox, job, drawn, strays>>, now' = now \/ now' = now + 1
       PROVE  OwnInv'
  <2>1. UniqueInv' /\ \A i \in Items : Settled(i) => Settled(i)'
    BY <1>18 DEF OwnInv, UniqueInv, Settled, Incoming
  <2>2. now' \in Nat /\ now <= now'
    BY <1>18 DEF TypeOK
  <2>3. Grants({})
    BY <1>18, <2>1, <2>2 DEF Grants
  <2>4. QED
    BY <2>1, <2>3, Combined
<1>19. CASE Tick \/ UNCHANGED vars
  BY <1>18, <1>19 DEF Tick, vars, store
<1>20. QED
  BY <1>3, <1>4, <1>5, <1>6, <1>7, <1>8, <1>9, <1>10, <1>11, <1>12, <1>13, <1>14, <1>15,
     <1>16, <1>17, <1>19 DEF Next, Begin, Continue

-----------------------------------------------------------------------------
(***************************************************************************)
(* Directory and table agree.                                              *)
(***************************************************************************)
\* What a step of a must do for rows, files and partial files to stay accounted for.
KeepsRows(a) ==
  /\ job[a].step = "forget" => job[a].item \notin DOMAIN inbox' \/ job[a].item \in strays'
  /\ \A i \in DOMAIN inbox' :
       \/ inbox'[i].path = NoPath
       \/ inbox'[i].path \in DOMAIN files' /\ files'[inbox'[i].path] = i
       \/ /\ i \in DOMAIN inbox /\ inbox'[i] = inbox[i]
          /\ \/ inbox[i].path \notin DOMAIN files
             \/ files[inbox[i].path] # i
             \/ inbox[i].expires < now
             \/ job'[a].step = "forget" /\ job'[a].item = i

KeepsFiles(a) ==
  /\ job[a].step = "record" =>
       \/ job[a].item \in strays'
       \/ job[a].item \in DOMAIN inbox' /\ \A p \in DOMAIN files' :
            files'[p] = job[a].item => inbox'[job[a].item].path = p
  /\ \A p \in DOMAIN files' :
       \/ job'[a].step = "record" /\ job'[a].item = files'[p]
       \/ /\ p \in DOMAIN files /\ files'[p] = files[p]
          /\ files[p] \in DOMAIN inbox /\ inbox[files[p]].path = p =>
               \/ files[p] \in DOMAIN inbox' /\ inbox'[files[p]] = inbox[files[p]]
               \/ files[p] \in strays'

KeepsParts(a) ==
  /\ job[a].step = "receive" => job[a].item \notin parts' \/ job[a].item \in strays'
  /\ \A i \in parts' : i \in parts \/ (job'[a].step = "receive" /\ job'[a].item = i)

\* Such a step keeps the agreement.
LEMMA Agrees ==
  ASSUME TypeOK, TypeOK', RowsAndFilesAgree, NEW a \in Actors,
         \A b \in Actors \ {a} : job'[b] = job[b], UNCHANGED now, strays \subseteq strays',
         KeepsRows(a), KeepsFiles(a), KeepsParts(a)
  PROVE  RowsAndFilesAgree'
<1>1. ASSUME NEW i \in DOMAIN inbox', inbox'[i].expires >= now', inbox'[i].path # NoPath
      PROVE  \/ inbox'[i].path \in DOMAIN files' /\ files'[inbox'[i].path] = i
             \/ Forgetting(i)' \/ i \in strays'
  <2>1. CASE /\ i \in DOMAIN inbox /\ inbox'[i] = inbox[i]
             /\ \/ inbox[i].path \notin DOMAIN files
                \/ files[inbox[i].path] # i
                \/ inbox[i].expires < now
                \/ job'[a].step = "forget" /\ job'[a].item = i
    <3>1. CASE job'[a].step = "forget" /\ job'[a].item = i
      BY <3>1 DEF Forgetting
    <3>2. CASE inbox[i].path \notin DOMAIN files \/ files[inbox[i].path] # i
      <4>1. Unexpired(i)
        BY <1>1, <2>1 DEF Unexpired
      <4>2. Forgetting(i) \/ i \in strays
        BY <1>1, <2>1, <3>2, <4>1 DEF RowsAndFilesAgree, ListedItemsHaveTheirFile
      <4>3. QED
        BY <4>2 DEF Forgetting, KeepsRows
    <3>3. ~(inbox[i].expires < now)
      BY <1>1, <2>1 DEF TypeOK, IsTable, Row
    <3>4. QED
      BY <2>1, <3>1, <3>2, <3>3
  <2>2. QED
    BY <1>1, <2>1 DEF KeepsRows
<1>2. ASSUME NEW p \in DOMAIN files'
      PROVE  \/ files'[p] \in DOMAIN inbox' /\ inbox'[files'[p]].path = p
             \/ \E b \in Actors : job'[b].step = "record" /\ job'[b].item = files'[p]
             \/ files'[p] \in strays'
  <2>1. CASE /\ p \in DOMAIN files /\ files'[p] = files[p]
             /\ files[p] \in DOMAIN inbox /\ inbox[files[p]].path = p =>
                  \/ files[p] \in DOMAIN inbox' /\ inbox'[files[p]] = inbox[files[p]]
                  \/ files[p] \in strays'
    <3>1. CASE files[p] \in DOMAIN inbox /\ inbox[files[p]].path = p
      BY <2>1, <3>1
    <3>2. CASE \E b \in Actors : job[b].step = "record" /\ job[b].item = files[p]
      BY <1>2, <2>1, <3>2 DEF KeepsFiles
    <3>3. QED
      BY <2>1, <3>1, <3>2 DEF RowsAndFilesAgree, FilesAreAccountedFor
  <2>2. QED
    BY <1>2, <2>1 DEF KeepsFiles
<1>3. ASSUME NEW i \in parts'
      PROVE  \/ \E b \in Actors : job'[b].step = "receive" /\ job'[b].item = i
             \/ i \in strays'
  BY <1>3 DEF KeepsParts, RowsAndFilesAgree, FilesAreAccountedFor
<1>4. QED
  BY <1>1, <1>2, <1>3 DEF RowsAndFilesAgree, ListedItemsHaveTheirFile, Unexpired,
     FilesAreAccountedFor

\* A step that leaves the store alone and ends no upload or discard.
LEMMA AgreesQuietly ==
  ASSUME TypeOK, TypeOK', RowsAndFilesAgree, NEW a \in Actors, UNCHANGED <<now, store>>,
         \A b \in Actors \ {a} : job'[b] = job[b], strays \subseteq strays',
         job[a].step \in {"receive", "record", "forget"} => job[a].item \in strays'
  PROVE  RowsAndFilesAgree'
<1>1. KeepsRows(a)
  <2> SUFFICES ASSUME NEW i \in DOMAIN inbox, inbox[i].path \in DOMAIN files,
                      files[inbox[i].path] = i
               PROVE  inbox[i].path \in DOMAIN files' /\ files'[inbox[i].path] = i
    BY DEF KeepsRows, store
  <2>1. QED
    BY DEF store
<1>2. KeepsFiles(a) /\ KeepsParts(a)
  BY DEF KeepsFiles, KeepsParts, store
<1>3. QED
  BY <1>1, <1>2, Agrees DEF store

\* Every step keeps directory and table in agreement.
LEMMA AgreeStep ==
  ASSUME OwnNames, TypeOK, TypeOK', OwnInv, RowsAndFilesAgree, [Next]_vars
  PROVE  RowsAndFilesAgree'
<1> USE InboxAssumption
<1>1. /\ Idle \in Job /\ \A a \in Actors : job[a] \in Job
      /\ Handlers \subseteq Actors /\ Clis \subseteq Actors
  BY DEF Job, TypeOK, Actors
<1>2. ASSUME NEW a \in Actors, Start(a, job'[a]), job'[a] \in Job, UNCHANGED <<now, store, strays>>
      PROVE  RowsAndFilesAgree'
  <2>1. \A b \in Actors \ {a} : job'[b] = job[b]
    BY <1>2, JobUpdate
  <2>2. job[a].step \notin {"receive", "record", "forget"}
    BY <1>2 DEF Start, Idle
  <2>3. QED
    BY <1>2, <2>1, <2>2, AgreesQuietly
<1>3. ASSUME NEW i \in Items, NEW ttl \in {InboxTTL, SecretTTL}, AddText(i, ttl)
      PROVE  RowsAndFilesAgree'
  <2>1. /\ inbox' = Put(inbox, i, [path |-> NoPath, expires |-> now + ttl])
        /\ i \notin drawn /\ UNCHANGED <<now, files, parts, job, strays>>
    BY <1>3 DEF AddText
  <2>2. /\ DOMAIN inbox' = DOMAIN inbox \cup {i} /\ inbox'[i].path = NoPath
        /\ \A k \in DOMAIN inbox \ {i} : inbox'[k] = inbox[k]
    BY <2>1 DEF Put
  <2>3. i \notin DOMAIN inbox
    BY <2>1 DEF OwnInv, RowInv, Settled
  <2>4. ListedItemsHaveTheirFile'
    BY <2>1, <2>2, <2>3 DEF RowsAndFilesAgree, ListedItemsHaveTheirFile, Unexpired, Forgetting
  <2>5. FilesAreAccountedFor'
    BY <2>1, <2>2, <2>3 DEF RowsAndFilesAgree, FilesAreAccountedFor
  <2>6. QED
    BY <2>4, <2>5 DEF RowsAndFilesAgree
<1>4. ASSUME NEW a \in Actors, NEW i \in Items, NEW name \in Names, NEW ttl \in TTLs(a),
             BeginUpload(a, i, name, ttl)
      PROVE  RowsAndFilesAgree'
  <2>1. PICK path \in Destination(name) :
          Start(a, [step |-> "receive", item |-> i, path |-> path, ttl |-> ttl])
    BY <1>4 DEF BeginUpload
  <2> DEFINE v == [step |-> "receive", item |-> i, path |-> path, ttl |-> ttl]
  <2>2. v \in Job /\ v.step = "receive" /\ v.item = i
    BY DestinationOfName DEF Job, TTLs
  <2>3. Start(a, v)
    BY <2>1
  <2> HIDE DEF v
  <2>4. job'[a] = v /\ job[a] = Idle /\ \A b \in Actors \ {a} : job'[b] = job[b]
    BY <2>2, <2>3, JobUpdate DEF Start
  <2>5. parts' = parts \cup {i} /\ UNCHANGED <<now, files, inbox, strays>>
    BY <1>4 DEF BeginUpload
  <2>6. KeepsRows(a) /\ KeepsFiles(a) /\ KeepsParts(a)
    BY <2>2, <2>4, <2>5 DEF KeepsRows, KeepsFiles, KeepsParts, Idle
  <2>7. QED
    BY <2>4, <2>5, <2>6, Agrees
<1>5. ASSUME NEW a \in Actors, UploadFails(a) PROVE RowsAndFilesAgree'
  <2>1. job'[a] = Idle /\ \A b \in Actors \ {a} : job'[b] = job[b]
    BY <1>1, <1>5, JobUpdate DEF UploadFails
  <2>2. KeepsRows(a) /\ KeepsFiles(a) /\ KeepsParts(a)
    BY <1>5, <2>1 DEF UploadFails, KeepsRows, KeepsFiles, KeepsParts
  <2>3. QED
    BY <1>5, <2>1, <2>2, Agrees DEF UploadFails
<1>6. ASSUME NEW a \in Actors, PublishUpload(a) PROVE RowsAndFilesAgree'
  <2>1. PICK j \in Job : j = job[a] /\ j.step = "receive"
    BY <1>1, <1>6 DEF PublishUpload
  <2>2. /\ j.item \in Items /\ j.path \in Paths /\ j.path \in PathsOf(j.item)
        /\ j.ttl \in Nat /\ ~Settled(j.item)
    BY <2>1, JobFields DEF OwnInv, JobsInv, JobOK, ReceiveOK, Settled, Incoming
  <2>3. PICK v \in Job : job'[a] = v /\ v.step = "record" /\ v.item = j.item
    <3> DEFINE v == [step |-> "record", item |-> j.item, path |-> j.path, expires |-> now + j.ttl]
    <3>1. v \in Job /\ v.step = "record" /\ v.item = j.item
      BY <2>2 DEF Job, TypeOK
    <3>2. Become(a, v)
      BY <1>6, <2>1 DEF PublishUpload
    <3> HIDE DEF v
    <3>3. QED
      BY <3>1, <3>2, JobUpdate
  <2>4. /\ files' = Put(files, j.path, j.item) /\ parts' = parts \ {j.item}
        /\ UNCHANGED <<now, inbox, strays>> /\ \A b \in Actors \ {a} : job'[b] = job[b]
    BY <1>6, <2>1 DEF PublishUpload, Become, TypeOK
  <2>5. /\ DOMAIN files' = DOMAIN files \cup {j.path} /\ files'[j.path] = j.item
        /\ \A p \in DOMAIN files \ {j.path} : files'[p] = files[p]
    BY <2>4 DEF Put
  <2>6. KeepsRows(a)
    <3>1. \A i \in DOMAIN inbox : inbox[i].path # j.path
      BY <2>2, OwnNames DEF OwnNames, OwnInv, RowInv, TypeOK, IsTable
    <3>2. QED
      BY <2>1, <2>4, <2>5, <3>1 DEF KeepsRows
  <2>7. KeepsFiles(a) /\ KeepsParts(a)
    BY <2>1, <2>3, <2>4, <2>5 DEF KeepsFiles, KeepsParts
  <2>8. QED
    BY <2>4, <2>6, <2>7, Agrees
<1>7. ASSUME NEW a \in Actors, RecordUpload(a) PROVE RowsAndFilesAgree'
  <2>1. PICK j \in Job : j = job[a] /\ j.step = "record"
    BY <1>1, <1>7 DEF RecordUpload
  <2>2. j.item \in Items /\ RecordOK(j) /\ ~Settled(j.item)
    BY <2>1, JobFields DEF OwnInv, JobsInv, JobOK, Settled, Incoming
  <2>3. /\ inbox' = Put(inbox, j.item, [path |-> j.path, expires |-> j.expires])
        /\ strays' = IF j.expires < now THEN strays \cup {j.item} ELSE strays
        /\ Become(a, Idle) /\ UNCHANGED <<now, files, parts>>
    BY <1>7, <2>1 DEF RecordUpload
  <2>4. job'[a] = Idle /\ \A b \in Actors \ {a} : job'[b] = job[b]
    BY <1>1, <2>3, JobUpdate
  <2>5. /\ DOMAIN inbox' = DOMAIN inbox \cup {j.item} /\ inbox'[j.item].path = j.path
        /\ \A k \in DOMAIN inbox \ {j.item} : inbox'[k] = inbox[k]
    BY <2>3 DEF Put
  <2>6. j.item \notin DOMAIN inbox /\ strays \subseteq strays'
    BY <2>2, <2>3 DEF OwnInv, RowInv
  <2>7. KeepsRows(a)
    BY <2>1, <2>2, <2>3, <2>5 DEF KeepsRows, RecordOK
  <2>8. KeepsFiles(a)
    BY <2>1, <2>2, <2>3, <2>5, <2>6 DEF KeepsFiles, RecordOK
  <2>9. KeepsParts(a)
    BY <2>1, <2>3 DEF KeepsParts
  <2>10. QED
    BY <2>3, <2>4, <2>6, <2>7, <2>8, <2>9, Agrees
<1>8. ASSUME NEW a \in Actors, NEW i \in Items, BeginDiscard(a, i) PROVE RowsAndFilesAgree'
  <2>1. inbox[i].path \in Paths \cup {NoPath} /\ UNCHANGED <<now, store, strays>>
    BY <1>8 DEF BeginDiscard, Unexpired, TypeOK, IsTable, Row
  <2>2. PICK v \in Job : Start(a, v)
    BY <1>8, <2>1 DEF BeginDiscard, Job
  <2>3. QED
    BY <1>2, <2>1, <2>2, JobUpdate
<1>9. ASSUME NEW a \in Actors, DiscardFile(a) PROVE RowsAndFilesAgree'
  <2>1. PICK j \in Job : j = job[a] /\ j.step = "unlink"
    BY <1>1, <1>9 DEF DiscardFile
  <2>2. UnlinkOK(j) /\ j.item \in Items
    BY <2>1, JobFields DEF OwnInv, JobsInv, JobOK
  <2> DEFINE v == [step |-> "forget", item |-> j.item]
  <2>3. v \in Job /\ v.step = "forget" /\ v.item = j.item
    BY <2>2 DEF Job
  <2>4. /\ Become(a, v) /\ files' = Restrict(files, DOMAIN files \ {j.path})
        /\ UNCHANGED <<now, inbox, parts, strays>>
    BY <1>9, <2>1 DEF DiscardFile, Unlink
  <2> HIDE DEF v
  <2>5. job'[a] = v /\ \A b \in Actors \ {a} : job'[b] = job[b]
    BY <2>3, <2>4, JobUpdate
  <2>6. DOMAIN files' = DOMAIN files \ {j.path} /\ \A p \in DOMAIN files' : files'[p] = files[p]
    BY <2>4, RestrictIsTable DEF TypeOK
  <2>7. KeepsRows(a)
    <3> SUFFICES ASSUME NEW i \in DOMAIN inbox, inbox[i].path = j.path, i # j.item
                 PROVE  FALSE
      BY <2>1, <2>3, <2>4, <2>5, <2>6 DEF KeepsRows
    <3>1. j.path \in PathsOf(i) /\ i \in Items
      BY <2>1, JobFields DEF OwnInv, RowInv, TypeOK, IsTable
    <3>2. QED
      BY <2>2, <3>1 DEF OwnNames, UnlinkOK
  <2>8. KeepsFiles(a) /\ KeepsParts(a)
    BY <2>1, <2>3, <2>4, <2>5, <2>6 DEF KeepsFiles, KeepsParts
  <2>9. QED
    BY <2>4, <2>5, <2>7, <2>8, Agrees
<1>10. ASSUME NEW a \in Actors, DiscardRow(a) PROVE RowsAndFilesAgree'
  <2>1. job'[a] = Idle /\ \A b \in Actors \ {a} : job'[b] = job[b]
    BY <1>1, <1>10, JobUpdate DEF DiscardRow
  <2>2. ForgetOK(job[a]) /\ job[a].step = "forget" /\ UNCHANGED <<now, files, parts, strays>>
    BY <1>10 DEF DiscardRow, OwnInv, JobsInv, JobOK
  <2>3. /\ DOMAIN inbox' = DOMAIN inbox \ {job[a].item}
        /\ \A i \in DOMAIN inbox' : inbox'[i] = inbox[i]
    BY <1>10, RestrictIsTable DEF DiscardRow, TypeOK
  <2>4. KeepsRows(a) /\ KeepsParts(a)
    BY <2>2, <2>3 DEF KeepsRows, KeepsParts
  <2>5. KeepsFiles(a)
    BY <2>2, <2>3 DEF KeepsFiles, ForgetOK
  <2>6. QED
    BY <2>1, <2>2, <2>4, <2>5, Agrees
<1>11. ASSUME NEW h \in Handlers, NEW i \in Items, BeginDownload(h, i) PROVE RowsAndFilesAgree'
  <2>1. inbox[i].path \in Paths /\ UNCHANGED <<now, store, strays>>
    BY <1>11 DEF BeginDownload, Unexpired, TypeOK, IsTable, Row
  <2>2. PICK v \in Job : Start(h, v)
    BY <1>11, <2>1 DEF BeginDownload, Job
  <2>3. QED
    BY <1>1, <1>2, <2>1, <2>2, JobUpdate
<1>12. ASSUME NEW h \in Actors, Download(h) PROVE RowsAndFilesAgree'
  <2>1. job'[h] = Idle /\ \A b \in Actors \ {h} : job'[b] = job[b]
    BY <1>1, <1>12, JobUpdate DEF Download
  <2>2. QED
    BY <1>12, <2>1, AgreesQuietly DEF Download
<1>13. ASSUME NEW h \in Handlers, BeginSweep(h) PROVE RowsAndFilesAgree'
  <2>1. ExpiredFiles(now) \in SUBSET Paths /\ UNCHANGED <<now, store, strays>>
    BY <1>13 DEF BeginSweep, ExpiredFiles, TypeOK, IsTable, Row
  <2>2. [step |-> "sweep", at |-> now, expired |-> ExpiredFiles(now)] \in Job
    BY <2>1 DEF Job, TypeOK
  <2>3. PICK v \in Job : Start(h, v)
    BY <1>13, <2>2 DEF BeginSweep
  <2>4. QED
    BY <1>1, <1>2, <2>1, <2>3, JobUpdate
<1>14. ASSUME NEW h \in Actors, SweepFile(h) PROVE RowsAndFilesAgree'
  <2>1. PICK path \in job[h].expired : /\ files' = Restrict(files, DOMAIN files \ {path})
                                       /\ job' = [job EXCEPT ![h].expired = @ \ {path}]
    BY <1>14 DEF SweepFile, Unlink
  <2>2. /\ SweepOK(job[h]) /\ job[h].step = "sweep" /\ job[h].at \in Nat
        /\ UNCHANGED <<now, inbox, parts, strays>>
    BY <1>1, <1>14, JobFields DEF SweepFile, OwnInv, JobsInv, JobOK
  <2>3. \A b \in Actors \ {h} : job'[b] = job[b]
    BY <2>1, <2>2, FewerFiles
  <2>4. DOMAIN files' = DOMAIN files \ {path} /\ \A p \in DOMAIN files' : files'[p] = files[p]
    BY <2>1, RestrictIsTable DEF TypeOK
  <2>5. \A i \in DOMAIN inbox : inbox[i].path = path => inbox[i].expires < now
    <3> SUFFICES ASSUME NEW i \in DOMAIN inbox, inbox[i].path = path
                 PROVE  inbox[i].expires < now
      OBVIOUS
    <3>1. PICK k \in Items : /\ Settled(k) /\ path \in PathsOf(k)
                             /\ k \in DOMAIN inbox => inbox[k].expires < job[h].at
      BY <2>1, <2>2 DEF SweepOK
    <3>2. i \in Items /\ inbox[i].expires \in Nat /\ path \in Paths
      BY <1>1, <2>1, <2>2, JobFields DEF TypeOK, IsTable, Row
    <3>3. i = k
      BY <3>1, <3>2 DEF OwnNames, OwnInv, RowInv
    <3>4. job[h].at <= now /\ now \in Nat
      BY <2>2 DEF SweepOK, TypeOK
    <3>5. QED
      BY <2>2, <3>1, <3>2, <3>3, <3>4
  <2>6. KeepsRows(h)
    BY <2>2, <2>4, <2>5 DEF KeepsRows
  <2>7. KeepsFiles(h) /\ KeepsParts(h)
    BY <2>2, <2>4 DEF KeepsFiles, KeepsParts
  <2>8. QED
    BY <2>2, <2>3, <2>6, <2>7, Agrees
<1>15. ASSUME NEW h \in Actors, SweepFails(h) PROVE RowsAndFilesAgree'
  <2>1. PICK path \in job[h].expired \cap DOMAIN files :
          /\ strays' = strays \cup {files[path]}
          /\ job' = [job EXCEPT ![h].expired = @ \ {path}]
    BY <1>15 DEF SweepFails
  <2>2. job[h].step = "sweep" /\ UNCHANGED <<now, store>>
    BY <1>15 DEF SweepFails
  <2>3. \A b \in Actors \ {h} : job'[b] = job[b]
    BY <2>1, <2>2, FewerFiles
  <2>4. QED
    BY <2>1, <2>2, <2>3, AgreesQuietly
<1>16. ASSUME NEW h \in Actors, SweepRows(h) PROVE RowsAndFilesAgree'
  <2>1. job'[h] = Idle /\ \A b \in Actors \ {h} : job'[b] = job[b]
    BY <1>1, <1>16, JobUpdate DEF SweepRows
  <2>2. /\ SweepOK(job[h]) /\ job[h].step = "sweep" /\ job[h].at \in Nat /\ job[h].expired = {}
        /\ UNCHANGED <<now, files, parts, strays>>
    BY <1>1, <1>16, JobFields DEF SweepRows, OwnInv, JobsInv, JobOK
  <2>3. /\ DOMAIN inbox' = {i \in DOMAIN inbox : inbox[i].expires >= job[h].at}
        /\ \A i \in DOMAIN inbox' : inbox'[i] = inbox[i]
    BY <1>16 DEF SweepRows, Keep, RestrictValues, Restrict
  <2>4. KeepsRows(h) /\ KeepsParts(h)
    BY <2>2, <2>3 DEF KeepsRows, KeepsParts
  <2>5. KeepsFiles(h)
    <3>1. \A i \in DOMAIN inbox \ DOMAIN inbox' : inbox[i].expires < job[h].at
      BY <2>2, <2>3 DEF TypeOK, IsTable, Row
    <3>2. QED
      BY <2>2, <2>3, <3>1 DEF KeepsFiles, SweepOK
  <2>6. QED
    BY <2>1, <2>2, <2>4, <2>5, Agrees
<1>17. ASSUME NEW a \in Actors, Interrupt(a) PROVE RowsAndFilesAgree'
  <2>1. job'[a] = Idle /\ \A b \in Actors \ {a} : job'[b] = job[b]
    BY <1>1, <1>17, JobUpdate DEF Interrupt
  <2>2. QED
    BY <1>17, <2>1, AgreesQuietly DEF Interrupt
<1>18. CASE Tick
  <2>1. \A i \in DOMAIN inbox : inbox[i].expires >= now + 1 => inbox[i].expires >= now
    BY DEF TypeOK, IsTable, Row
  <2>2. ListedItemsHaveTheirFile'
    BY <1>18, <2>1 DEF Tick, store, RowsAndFilesAgree, ListedItemsHaveTheirFile, Unexpired,
       Forgetting
  <2>3. FilesAreAccountedFor'
    BY <1>18 DEF Tick, store, RowsAndFilesAgree, FilesAreAccountedFor
  <2>4. QED
    BY <2>2, <2>3 DEF RowsAndFilesAgree
<1>19. CASE UNCHANGED vars
  BY <1>19 DEF vars, store, RowsAndFilesAgree, ListedItemsHaveTheirFile, Unexpired, Forgetting,
     FilesAreAccountedFor
<1>20. QED
  BY <1>3, <1>4, <1>5, <1>6, <1>7, <1>8, <1>9, <1>10, <1>11, <1>12, <1>13, <1>14, <1>15,
     <1>16, <1>17, <1>18, <1>19 DEF Next, Begin, Continue

\* Nothing is in the inbox, so nothing disagrees, at first.
LEMMA AgreeInit == Init => RowsAndFilesAgree
BY DEF Init, RowsAndFilesAgree, ListedItemsHaveTheirFile, FilesAreAccountedFor, EmptyTable

\* The inductive invariant.
InboxInv == TypeOK /\ OwnInv /\ RowsAndFilesAgree

\* It holds when names do not compete.
LEMMA InboxInvariant ==
  ASSUME OwnNames
  PROVE  Spec => []InboxInv
<1>1. Init => InboxInv
  BY TypeInit, OwnInit, AgreeInit DEF InboxInv
<1>2. InboxInv /\ [Next]_vars => InboxInv'
  BY TypeStep, OwnStep, AgreeStep DEF InboxInv
<1>3. QED
  BY <1>1, <1>2, PTL DEF Spec

\* Directory and table (core.py 401-460 and 506-512, store.py 105-117) agree while uploads,
\* discards, downloads and cleanups of any number of threads and processes overlap and are
\* interrupted, if no two items have names that compete for a file.
THEOREM FilesAgree ==
  ASSUME OwnNames
  PROVE  Spec => []RowsAndFilesAgree
<1>1. InboxInv => RowsAndFilesAgree
  BY DEF InboxInv
<1>2. QED
  BY <1>1, InboxInvariant, PTL

\* A download, which reads the row and opens the file later (service.py 250-262), sends the
\* bytes of the item asked for, under the same condition.
THEOREM OwnDownloads ==
  ASSUME OwnNames
  PROVE  Spec => []DownloadsAreOwn
<1>1. Init => DownloadsAreOwn
  BY DEF Init, DownloadsAreOwn
<1>2. InboxInv /\ DownloadsAreOwn /\ [Next]_vars => DownloadsAreOwn'
  <2> SUFFICES ASSUME InboxInv, DownloadsAreOwn, [Next]_vars PROVE DownloadsAreOwn'
    OBVIOUS
  <2>1. ASSUME NEW h \in Actors, Download(h) PROVE DownloadsAreOwn'
    <3>1. /\ job[h].step = "serve" /\ job[h].item \in Items
          /\ job[h].path \in PathsOf(job[h].item)
      BY <2>1, JobFields DEF Download, InboxInv, TypeOK, OwnInv, JobsInv, JobOK, ServeOK
    <3>2. job[h].path \in DOMAIN files => files[job[h].path] = job[h].item
      BY <3>1 DEF InboxInv, TypeOK, IsTable, OwnInv, FileInv, OwnNames
    <3>3. QED
      BY <2>1, <3>2 DEF Download, DownloadsAreOwn
  <2>2. ASSUME UNCHANGED served PROVE DownloadsAreOwn'
    BY <2>2 DEF DownloadsAreOwn
  <2>3. QED
    BY <2>1, <2>2 DEF Next, Begin, Continue, AddText, BeginUpload, UploadFails,
       PublishUpload, RecordUpload, BeginDiscard, DiscardFile, DiscardRow, BeginDownload,
       BeginSweep, SweepFile, SweepFails, SweepRows, Tick, Interrupt, vars
<1>3. QED
  BY <1>1, <1>2, InboxInvariant, PTL DEF Spec

\* "Unrelated files are never overwritten" (README.md, line 56): no step gives other bytes to
\* a file of the inbox directory, under the same condition.
THEOREM NeverOverwritten ==
  ASSUME OwnNames
  PROVE  Spec => NothingOverwritten
<1>1. ASSUME InboxInv, [Next]_vars, NEW path \in DOMAIN files \cap DOMAIN files'
      PROVE  files'[path] = files[path]
  <2>1. ASSUME NEW a \in Actors, PublishUpload(a) PROVE files'[path] = files[path]
    <3>1. ReceiveOK(job[a]) /\ job[a].item \in Items
      BY <1>1, <2>1, JobFields DEF PublishUpload, InboxInv, TypeOK, OwnInv, JobsInv, JobOK
    <3>2. job[a].path \notin DOMAIN files
      BY <1>1, <3>1 DEF ReceiveOK, InboxInv, TypeOK, IsTable, OwnInv, FileInv, OwnNames
    <3>3. QED
      BY <2>1, <3>2 DEF PublishUpload, Put
  <2>2. ASSUME NEW S, files' = Restrict(files, DOMAIN files \ S) PROVE files'[path] = files[path]
    BY <1>1, <2>2 DEF Restrict
  <2>3. ASSUME UNCHANGED files PROVE files'[path] = files[path]
    BY <2>3
  <2>4. QED
    BY <1>1, <2>1, <2>2, <2>3 DEF Next, Begin, Continue, AddText, BeginUpload, UploadFails,
       RecordUpload, BeginDiscard, DiscardFile, DiscardRow, BeginDownload, Download, store,
       BeginSweep, SweepFile, SweepFails, SweepRows, Tick, Interrupt, vars, Unlink
<1>2. InboxInv /\ [Next]_vars =>
        [\A path \in DOMAIN files \cap DOMAIN files' : files'[path] = files[path]]_vars
  BY <1>1
<1>3. QED
  BY <1>2, InboxInvariant, PTL DEF Spec, NothingOverwritten

-----------------------------------------------------------------------------
(***************************************************************************)
(* Names that compete, when operations do not overlap and none of them is  *)
(* interrupted: a condition on behaviours, whoever carries them out.       *)
(***************************************************************************)
Serial ==
  /\ kills = 0
  /\ \A a, b \in Actors : job[a] # Idle /\ job[b] # Idle => a = b

\* An expired item whose file the cleanup has removed.
Swept(i, j) ==
  j.step = "sweep" /\ inbox[i].expires < j.at /\ inbox[i].path \notin j.expired

\* Every row has its file, but for the item whose discard is half-way and those that the
\* cleanup is about to delete.
RowsAlone(j) ==
  \A i \in DOMAIN inbox :
    /\ i \in drawn
    /\ inbox[i].path # NoPath =>
         \/ inbox[i].path \in DOMAIN files /\ files[inbox[i].path] = i
         \/ j.step = "forget" /\ j.item = i
         \/ Swept(i, j)

\* Every file has its row, but for the upload about to be recorded.
FilesAlone(j) ==
  \A p \in DOMAIN files :
    /\ files[p] \in drawn
    /\ \/ files[p] \in DOMAIN inbox /\ inbox[files[p]].path = p
       \/ j.step = "record" /\ j.item = files[p] /\ j.path = p

PartsAlone(j) == \A i \in parts : j.step = "receive" /\ j.item = i

\* What the operation found when it looked is still so.
StepAlone(j) ==
  /\ j.step \in {"receive", "record"} => j.item \in drawn \ DOMAIN inbox
  /\ j.step = "receive" => j.path \notin DOMAIN files
  /\ j.step = "record" => j.path \in DOMAIN files /\ files[j.path] = j.item
  /\ j.step = "unlink" => j.item \in DOMAIN inbox /\ inbox[j.item].path = j.path
  /\ j.step = "serve" => (j.path \in DOMAIN files => files[j.path] = j.item)
  /\ j.step = "forget" => \A p \in DOMAIN files : files[p] # j.item
  /\ j.step = "sweep" =>
       /\ j.at <= now
       /\ \A i \in DOMAIN inbox :
            inbox[i].expires < j.at /\ inbox[i].path \in DOMAIN files => inbox[i].path \in j.expired
       /\ \A p \in j.expired \cap DOMAIN files :
            files[p] \in DOMAIN inbox /\ inbox[files[p]].expires < j.at

Alone(j) == RowsAlone(j) /\ FilesAlone(j) /\ PartsAlone(j) /\ StepAlone(j)

\* At most one operation is going on, and all that differs is its doing.
AloneInv ==
  \E j \in {Idle} \cup {job[a] : a \in Actors} :
    Alone(j) /\ \A a \in Actors : job[a] \in {Idle, j}

\* The invariant speaks of the only operation there is.
LEMMA AloneOf ==
  ASSUME NEW a \in Actors, \A b \in Actors \ {a} : job[b] = Idle
  PROVE  AloneInv <=> Alone(job[a])
<1>1. ASSUME AloneInv PROVE Alone(job[a])
  <2>1. PICK j \in {Idle} \cup {job[b] : b \in Actors} :
          Alone(j) /\ \A b \in Actors : job[b] \in {Idle, j}
    BY <1>1 DEF AloneInv
  <2>2. CASE j = Idle
    BY <2>1, <2>2
  <2>3. CASE j # Idle
    BY <2>1, <2>3
  <2>4. QED
    BY <2>2, <2>3
<1>2. ASSUME Alone(job[a]) PROVE AloneInv
  <2>1. job[a] \in {Idle} \cup {job[b] : b \in Actors}
    OBVIOUS
  <2>2. \A b \in Actors : job[b] \in {Idle, job[a]}
    OBVIOUS
  <2>3. QED
    BY <1>2, <2>1, <2>2 DEF AloneInv
<1>3. QED
  BY <1>1, <1>2

\* A step of a process leaves its operation alone, if operations do not overlap.
LEMMA StepOfOne ==
  ASSUME TypeOK, AloneInv, Serial, Serial', NEW a \in Actors, NEW v \in Job,
         job' = [job EXCEPT ![a] = v], job[a] # Idle \/ v # Idle
  PROVE  /\ job'[a] = v /\ Alone(job[a])
         /\ Alone(v)' => AloneInv'
<1>1. job'[a] = v /\ \A b \in Actors \ {a} : job'[b] = job[b]
  BY DEF TypeOK
<1>2. \A b \in Actors \ {a} : job[b] = Idle /\ job'[b] = Idle
  BY <1>1 DEF Serial
<1>3. Alone(job[a])
  BY <1>2, AloneOf
<1>4. ASSUME Alone(v)' PROVE AloneInv'
  <2>1. v \in {Idle} \cup {job'[b] : b \in Actors}
    BY <1>1
  <2>2. \A b \in Actors : job'[b] \in {Idle, v}
    BY <1>1, <1>2
  <2>3. QED
    BY <1>4, <2>1, <2>2 DEF AloneInv
<1>5. QED
  BY <1>1, <1>3, <1>4

\* Nothing differs at first.
LEMMA AloneInit == Init => AloneInv
<1> SUFFICES ASSUME Init PROVE AloneInv
  OBVIOUS
<1>1. Alone(Idle)
  BY DEF Init, EmptyTable, Alone, RowsAlone, FilesAlone, PartsAlone, StepAlone, Idle
<1>2. \A a \in Actors : job[a] \in {Idle, Idle}
  BY DEF Init
<1>3. QED
  BY <1>1, <1>2 DEF AloneInv

\* Every step of an operation that is not disturbed, and every text and tick meanwhile.
LEMMA AloneStep == TypeOK /\ AloneInv /\ Serial /\ Serial' /\ [Next]_vars => AloneInv'
<1> SUFFICES ASSUME TypeOK, AloneInv, Serial, Serial', [Next]_vars PROVE AloneInv'
  OBVIOUS
<1> USE InboxAssumption
<1>1. Idle \in Job /\ \A a \in Actors : job[a] \in Job
  BY DEF Job, TypeOK
<1>2. Handlers \subseteq Actors
  BY DEF Actors
<1>3. ASSUME NEW i \in Items, NEW ttl \in {InboxTTL, SecretTTL}, AddText(i, ttl) PROVE AloneInv'
  <2>1. PICK j \in {Idle} \cup {job[a] : a \in Actors} :
          Alone(j) /\ \A a \in Actors : job[a] \in {Idle, j}
    BY DEF AloneInv
  <2>2. /\ i \notin drawn /\ drawn' = drawn \cup {i} /\ UNCHANGED <<now, files, parts, job>>
        /\ DOMAIN inbox' = DOMAIN inbox \cup {i} /\ inbox'[i].path = NoPath
        /\ inbox'[i].expires >= now
        /\ \A k \in DOMAIN inbox \ {i} : inbox'[k] = inbox[k]
    BY <1>3 DEF AddText, Put, TypeOK
  <2>3. i \notin DOMAIN inbox /\ \A p \in DOMAIN files : files[p] # i
    BY <2>1, <2>2 DEF Alone, RowsAlone, FilesAlone
  <2>4. RowsAlone(j)'
    BY <2>1, <2>2, <2>3 DEF Alone, RowsAlone, Swept
  <2>5. FilesAlone(j)' /\ PartsAlone(j)'
    BY <2>1, <2>2, <2>3 DEF Alone, FilesAlone, PartsAlone
  <2>6. StepAlone(j)'
    <3>1. j \in Job
      BY <1>1
    <3>2. j.step \in {"receive", "record"} => j.item \in drawn' \ DOMAIN inbox'
      BY <2>1, <2>2 DEF Alone, StepAlone
    <3>3. j.step = "unlink" => j.item \in DOMAIN inbox' /\ inbox'[j.item].path = j.path
      BY <2>1, <2>2, <2>3 DEF Alone, StepAlone
    <3>4. ASSUME j.step = "sweep"
          PROVE  /\ j.at <= now
                 /\ \A k \in DOMAIN inbox' : inbox'[k].expires < j.at /\ inbox'[k].path \in DOMAIN files
                      => inbox'[k].path \in j.expired
                 /\ \A p \in j.expired \cap DOMAIN files :
                      files[p] \in DOMAIN inbox' /\ inbox'[files[p]].expires < j.at
      <4>1. i \notin DOMAIN inbox /\ NoPath \notin DOMAIN files
        BY <2>3 DEF TypeOK, IsTable
      <4>2. QED
        BY <2>1, <2>2, <2>3, <3>4, <4>1 DEF Alone, StepAlone
    <3>5. QED
      BY <2>1, <2>2, <3>2, <3>3, <3>4 DEF Alone, StepAlone
  <2>7. QED
    BY <2>1, <2>2, <2>4, <2>5, <2>6 DEF AloneInv, Alone
<1>4. ASSUME NEW a \in Actors, NEW i \in Items, NEW name \in Names, NEW ttl \in TTLs(a),
             BeginUpload(a, i, name, ttl)
      PROVE  AloneInv'
  <2>1. PICK path \in Destination(name) :
          Start(a, [step |-> "receive", item |-> i, path |-> path, ttl |-> ttl])
    BY <1>4 DEF BeginUpload
  <2>2. path \notin DOMAIN files
    BY DEF Destination
  <2> DEFINE v == [step |-> "receive", item |-> i, path |-> path, ttl |-> ttl]
  <2>3. v \in Job /\ v.step = "receive" /\ v.item = i /\ v.path = path
    BY DestinationOfName DEF Job, TTLs
  <2>4. job[a] = Idle /\ job' = [job EXCEPT ![a] = v] /\ v # Idle
    BY <2>1 DEF Start, Idle
  <2> HIDE DEF v
  <2>5. Alone(Idle)
    BY <2>3, <2>4, StepOfOne
  <2>6. i \notin drawn /\ drawn' = drawn \cup {i} /\ parts' = parts \cup {i} /\ UNCHANGED <<now, files, inbox>>
    BY <1>4 DEF BeginUpload
  <2>7. RowsAlone(v)' /\ FilesAlone(v)' /\ PartsAlone(v)'
    BY <2>3, <2>5, <2>6 DEF Alone, RowsAlone, FilesAlone, PartsAlone, Swept, Idle
  <2>8. StepAlone(v)'
    BY <2>2, <2>3, <2>5, <2>6 DEF Alone, RowsAlone, StepAlone
  <2>9. QED
    BY <2>3, <2>4, <2>7, <2>8, StepOfOne DEF Alone
<1>5. ASSUME NEW a \in Actors, UploadFails(a) PROVE AloneInv'
  <2>1. PICK j \in Job : j = job[a] /\ j.step = "receive" /\ j # Idle
    BY <1>1, <1>5 DEF UploadFails, Idle
  <2>2. Alone(j) /\ job' = [job EXCEPT ![a] = Idle]
    BY <1>1, <1>5, <2>1, StepOfOne DEF UploadFails, Become
  <2>3. parts' = parts \ {j.item} /\ UNCHANGED <<now, files, inbox, drawn>>
    BY <1>5, <2>1 DEF UploadFails
  <2>4. Alone(Idle)'
    BY <2>1, <2>2, <2>3 DEF Alone, RowsAlone, FilesAlone, PartsAlone, StepAlone, Swept, Idle
  <2>5. QED
    BY <1>1, <2>1, <2>2, <2>4, StepOfOne
<1>6. ASSUME NEW a \in Actors, PublishUpload(a) PROVE AloneInv'
  <2>1. PICK j \in Job : j = job[a] /\ j.step = "receive" /\ j # Idle
    BY <1>1, <1>6 DEF PublishUpload, Idle
  <2>2. j.item \in Items /\ j.path \in Paths /\ j.ttl \in Nat
    BY <2>1, JobFields
  <2> DEFINE v == [step |-> "record", item |-> j.item, path |-> j.path, expires |-> now + j.ttl]
  <2>3. PICK w \in Job : w = v /\ w.step = "record" /\ w.item = j.item /\ w.path = j.path
    <3>1. v \in Job /\ v.step = "record" /\ v.item = j.item /\ v.path = j.path
      BY <2>2 DEF Job, TypeOK
    <3>2. QED
      BY <3>1
  <2>4. job' = [job EXCEPT ![a] = w]
    BY <1>6, <2>1, <2>3 DEF PublishUpload, Become
  <2> HIDE DEF v
  <2>5. Alone(j)
    BY <2>1, <2>3, <2>4, StepOfOne
  <2>6. /\ parts' = parts \ {j.item} /\ UNCHANGED <<now, inbox, drawn>>
        /\ DOMAIN files' = DOMAIN files \cup {j.path} /\ files'[j.path] = j.item
        /\ \A p \in DOMAIN files \ {j.path} : files'[p] = files[p]
    BY <1>6, <2>1 DEF PublishUpload, Put
  <2>7. j.path \notin DOMAIN files /\ j.item \in drawn \ DOMAIN inbox
    BY <2>1, <2>5 DEF Alone, StepAlone
  <2>8. RowsAlone(w)'
    BY <2>1, <2>3, <2>5, <2>6, <2>7 DEF Alone, RowsAlone, Swept
  <2>9. FilesAlone(w)' /\ PartsAlone(w)' /\ StepAlone(w)'
    BY <2>1, <2>3, <2>5, <2>6, <2>7 DEF Alone, FilesAlone, PartsAlone, StepAlone
  <2>10. QED
    BY <2>1, <2>3, <2>4, <2>8, <2>9, StepOfOne DEF Alone
<1>7. ASSUME NEW a \in Actors, RecordUpload(a) PROVE AloneInv'
  <2>1. PICK j \in Job : j = job[a] /\ j.step = "record" /\ j # Idle
    BY <1>1, <1>7 DEF RecordUpload, Idle
  <2>2. Alone(j) /\ job' = [job EXCEPT ![a] = Idle]
    BY <1>1, <1>7, <2>1, StepOfOne DEF RecordUpload, Become
  <2>3. /\ UNCHANGED <<now, files, parts, drawn>>
        /\ DOMAIN inbox' = DOMAIN inbox \cup {j.item} /\ inbox'[j.item].path = j.path
        /\ \A k \in DOMAIN inbox \ {j.item} : inbox'[k] = inbox[k]
    BY <1>7, <2>1 DEF RecordUpload, Put
  <2>4. /\ j.item \in drawn \ DOMAIN inbox
        /\ j.path \in DOMAIN files /\ files[j.path] = j.item
    BY <2>1, <2>2 DEF Alone, StepAlone
  <2>5. RowsAlone(Idle)' /\ FilesAlone(Idle)' /\ PartsAlone(Idle)' /\ StepAlone(Idle)'
    BY <2>1, <2>2, <2>3, <2>4 DEF Alone, RowsAlone, FilesAlone, PartsAlone, StepAlone, Swept, Idle
  <2>6. QED
    BY <1>1, <2>1, <2>2, <2>5, StepOfOne DEF Alone
<1>8. ASSUME NEW a \in Actors, NEW i \in Items, BeginDiscard(a, i) PROVE AloneInv'
  <2>1. /\ i \in DOMAIN inbox /\ inbox[i].path \in Paths \cup {NoPath}
        /\ job[a] = Idle /\ UNCHANGED <<now, store, drawn>>
    BY <1>8 DEF BeginDiscard, Start, Unexpired, TypeOK, IsTable, Row
  <2>2. PICK v \in Job : /\ job' = [job EXCEPT ![a] = v] /\ v.item = i
                         /\ \/ inbox[i].path = NoPath /\ v.step = "forget"
                            \/ v.step = "unlink" /\ v.path = inbox[i].path
    <3>1. CASE inbox[i].path = NoPath
      <4>1. [step |-> "forget", item |-> i] \in Job
        BY DEF Job
      <4>2. QED
        BY <1>8, <3>1, <4>1 DEF BeginDiscard, Start
    <3>2. CASE inbox[i].path # NoPath
      <4>1. [step |-> "unlink", item |-> i, path |-> inbox[i].path] \in Job
        BY <2>1, <3>2 DEF Job
      <4>2. QED
        BY <1>8, <3>2, <4>1 DEF BeginDiscard, Start
    <3>3. QED
      BY <3>1, <3>2
  <2>3. v # Idle
    BY <2>2 DEF Idle
  <2>4. Alone(Idle)
    BY <2>1, <2>2, <2>3, StepOfOne
  <2>5. inbox[i].path = NoPath => \A p \in DOMAIN files : files[p] # i
    BY <2>4 DEF Alone, FilesAlone, Idle, TypeOK, IsTable
  <2>6. RowsAlone(v)' /\ FilesAlone(v)' /\ PartsAlone(v)' /\ StepAlone(v)'
    BY <2>1, <2>2, <2>4, <2>5 DEF store, Alone, RowsAlone, FilesAlone, PartsAlone, StepAlone, Swept, Idle
  <2>7. QED
    BY <2>2, <2>3, <2>6, StepOfOne DEF Alone
<1>9. ASSUME NEW a \in Actors, DiscardFile(a) PROVE AloneInv'
  <2>1. PICK j \in Job : j = job[a] /\ j.step = "unlink" /\ j # Idle
    BY <1>1, <1>9 DEF DiscardFile, Idle
  <2>2. j.item \in Items /\ j.path \in Paths
    BY <2>1, JobFields
  <2>3. PICK v \in Job : v = [step |-> "forget", item |-> j.item] /\ v.step = "forget" /\ v.item = j.item
    <3>1. [step |-> "forget", item |-> j.item] \in Job
      BY <2>2 DEF Job
    <3>2. QED
      BY <3>1
  <2>4. job' = [job EXCEPT ![a] = v]
    BY <1>9, <2>1, <2>3 DEF DiscardFile, Become
  <2>5. Alone(j)
    BY <2>1, <2>3, <2>4, StepOfOne
  <2>6. /\ UNCHANGED <<now, parts, inbox, drawn>> /\ DOMAIN files' = DOMAIN files \ {j.path}
        /\ \A p \in DOMAIN files' : files'[p] = files[p]
    BY <1>9, <2>1, RestrictIsTable DEF DiscardFile, Unlink, TypeOK
  <2>7. j.item \in DOMAIN inbox /\ inbox[j.item].path = j.path
    BY <2>1, <2>5 DEF Alone, StepAlone
  <2>8. RowsAlone(v)'
    <3>1. \A i \in DOMAIN inbox : inbox[i].path = j.path => i = j.item
      BY <2>1, <2>2, <2>5, <2>7 DEF Alone, RowsAlone, Swept
    <3>2. QED
      BY <2>1, <2>3, <2>5, <2>6, <3>1 DEF Alone, RowsAlone, Swept
  <2>9. FilesAlone(v)' /\ PartsAlone(v)' /\ StepAlone(v)'
    BY <2>1, <2>3, <2>5, <2>6, <2>7 DEF Alone, FilesAlone, PartsAlone, StepAlone
  <2>10. QED
    BY <2>1, <2>3, <2>4, <2>8, <2>9, StepOfOne DEF Alone
<1>10. ASSUME NEW a \in Actors, DiscardRow(a) PROVE AloneInv'
  <2>1. PICK j \in Job : j = job[a] /\ j.step = "forget" /\ j # Idle
    BY <1>1, <1>10 DEF DiscardRow, Idle
  <2>2. Alone(j) /\ job' = [job EXCEPT ![a] = Idle]
    BY <1>1, <1>10, <2>1, StepOfOne DEF DiscardRow, Become
  <2>3. /\ UNCHANGED <<now, files, parts, drawn>> /\ DOMAIN inbox' = DOMAIN inbox \ {j.item}
        /\ \A i \in DOMAIN inbox' : inbox'[i] = inbox[i]
    BY <1>10, <2>1, RestrictIsTable DEF DiscardRow, TypeOK
  <2>4. \A p \in DOMAIN files : files[p] # j.item
    BY <2>1, <2>2 DEF Alone, StepAlone
  <2>5. RowsAlone(Idle)' /\ FilesAlone(Idle)' /\ PartsAlone(Idle)' /\ StepAlone(Idle)'
    BY <2>1, <2>2, <2>3, <2>4 DEF Alone, RowsAlone, FilesAlone, PartsAlone, StepAlone, Swept, Idle
  <2>6. QED
    BY <1>1, <2>1, <2>2, <2>5, StepOfOne DEF Alone
<1>11. ASSUME NEW h \in Handlers, NEW i \in Items, BeginDownload(h, i) PROVE AloneInv'
  <2>1. /\ i \in DOMAIN inbox /\ inbox[i].path \in Paths
        /\ job[h] = Idle /\ UNCHANGED <<now, store, drawn>>
    BY <1>11 DEF BeginDownload, Start, Unexpired, TypeOK, IsTable, Row
  <2>2. PICK v \in Job : /\ job' = [job EXCEPT ![h] = v]
                         /\ v.step = "serve" /\ v.item = i /\ v.path = inbox[i].path
    <3>1. [step |-> "serve", item |-> i, path |-> inbox[i].path] \in Job
      BY <2>1 DEF Job
    <3>2. QED
      BY <1>11, <3>1 DEF BeginDownload, Start
  <2>3. v # Idle
    BY <2>2 DEF Idle
  <2>4. Alone(Idle)
    BY <1>2, <2>1, <2>2, <2>3, StepOfOne
  <2>5. RowsAlone(v)' /\ FilesAlone(v)' /\ PartsAlone(v)'
    BY <2>1, <2>2, <2>4 DEF store, Alone, RowsAlone, FilesAlone, PartsAlone, Swept, Idle
  <2>6. StepAlone(v)'
    BY <2>1, <2>2, <2>4 DEF store, Alone, RowsAlone, StepAlone, Swept, Idle
  <2>7. QED
    BY <1>2, <2>2, <2>3, <2>5, <2>6, StepOfOne DEF Alone
<1>12. ASSUME NEW h \in Actors, Download(h) PROVE AloneInv'
  <2>1. PICK j \in Job : j = job[h] /\ j.step = "serve" /\ j # Idle
    BY <1>1, <1>12 DEF Download, Idle
  <2>2. Alone(j) /\ job' = [job EXCEPT ![h] = Idle] /\ UNCHANGED <<now, store, drawn>>
    BY <1>1, <1>12, <2>1, StepOfOne DEF Download, Become
  <2>3. Alone(Idle)'
    BY <2>1, <2>2 DEF store, Alone, RowsAlone, FilesAlone, PartsAlone, StepAlone, Swept, Idle
  <2>4. QED
    BY <1>1, <2>1, <2>2, <2>3, StepOfOne
<1>13. ASSUME NEW h \in Handlers, BeginSweep(h) PROVE AloneInv'
  <2>1. job[h] = Idle /\ UNCHANGED <<now, store, drawn>> /\ ExpiredFiles(now) \in SUBSET Paths
    BY <1>13 DEF BeginSweep, Start, ExpiredFiles, TypeOK, IsTable, Row
  <2>2. PICK v \in Job : /\ job' = [job EXCEPT ![h] = v]
                         /\ v.step = "sweep" /\ v.at = now /\ v.expired = ExpiredFiles(now)
    <3>1. [step |-> "sweep", at |-> now, expired |-> ExpiredFiles(now)] \in Job
      BY <2>1 DEF Job, TypeOK
    <3>2. QED
      BY <1>13, <3>1 DEF BeginSweep, Start
  <2>3. v # Idle
    BY <2>2 DEF Idle
  <2>4. Alone(Idle)
    BY <1>2, <2>1, <2>2, <2>3, StepOfOne
  <2>5. RowsAlone(v)' /\ FilesAlone(v)' /\ PartsAlone(v)'
    BY <2>1, <2>2, <2>4 DEF store, Alone, RowsAlone, FilesAlone, PartsAlone, Swept, Idle
  <2>6. StepAlone(v)'
    <3>1. \A i \in DOMAIN inbox : inbox[i].expires < now /\ inbox[i].path \in DOMAIN files
            => inbox[i].path \in ExpiredFiles(now)
      BY DEF ExpiredFiles, TypeOK, IsTable
    <3>2. \A p \in ExpiredFiles(now) \cap DOMAIN files :
            files[p] \in DOMAIN inbox /\ inbox[files[p]].expires < now
      BY <2>4 DEF ExpiredFiles, Alone, RowsAlone, Swept, Idle
    <3>3. now <= now
      BY DEF TypeOK
    <3>4. QED
      BY <2>1, <2>2, <3>1, <3>2, <3>3 DEF store, StepAlone
  <2>7. QED
    BY <1>2, <2>2, <2>3, <2>5, <2>6, StepOfOne DEF Alone
<1>14. ASSUME NEW h \in Actors, SweepFile(h) PROVE AloneInv'
  <2>1. PICK path \in job[h].expired : /\ files' = Unlink(files, path)
                                       /\ job' = [job EXCEPT ![h].expired = @ \ {path}]
    BY <1>14 DEF SweepFile
  <2>2. PICK j \in Job : j = job[h] /\ j.step = "sweep" /\ j # Idle
    BY <1>1, <1>14 DEF SweepFile, Idle
  <2>3. PICK v \in Job : /\ job' = [job EXCEPT ![h] = v]
                         /\ v.step = "sweep" /\ v.at = j.at /\ v.expired = j.expired \ {path}
    <3>1. /\ job'[h] \in Job /\ job' = [job EXCEPT ![h] = job'[h]]
          /\ job'[h].step = "sweep" /\ job'[h].at = j.at /\ job'[h].expired = j.expired \ {path}
      BY <2>1, <2>2, FewerFiles DEF TypeOK
    <3>2. QED
      BY <3>1
  <2>4. Alone(j)
    BY <2>2, <2>3, StepOfOne
  <2>5. j.at \in Nat /\ path \in Paths
    BY <2>1, <2>2, JobFields
  <2>6. /\ UNCHANGED <<now, parts, inbox, drawn>> /\ DOMAIN files' = DOMAIN files \ {path}
        /\ \A p \in DOMAIN files' : files'[p] = files[p]
    BY <1>14, <2>1, RestrictIsTable DEF SweepFile, Unlink, TypeOK
  <2>7. \A i \in DOMAIN inbox : inbox[i].path = path => inbox[i].expires < j.at
    BY <2>1, <2>2, <2>4, <2>5 DEF Alone, RowsAlone, StepAlone, Swept
  <2>8. RowsAlone(v)'
    BY <2>2, <2>3, <2>4, <2>6, <2>7 DEF Alone, RowsAlone, Swept
  <2>9. FilesAlone(v)' /\ PartsAlone(v)'
    BY <2>2, <2>3, <2>4, <2>6 DEF Alone, FilesAlone, PartsAlone
  <2>10. StepAlone(v)'
    BY <2>2, <2>3, <2>4, <2>6 DEF Alone, StepAlone
  <2>11. QED
    BY <2>2, <2>3, <2>8, <2>9, <2>10, StepOfOne DEF Alone
<1>15. ASSUME NEW h \in Actors, SweepFails(h) \/ Interrupt(h) PROVE AloneInv'
  BY <1>15 DEF SweepFails, Interrupt, Serial
<1>16. ASSUME NEW h \in Actors, SweepRows(h) PROVE AloneInv'
  <2>1. PICK j \in Job : j = job[h] /\ j.step = "sweep" /\ j.expired = {} /\ j # Idle
    BY <1>1, <1>16 DEF SweepRows, Idle
  <2>2. Alone(j) /\ job' = [job EXCEPT ![h] = Idle]
    BY <1>1, <1>16, <2>1, StepOfOne DEF SweepRows, Become
  <2>3. /\ UNCHANGED <<now, files, parts, drawn>>
        /\ DOMAIN inbox' = {i \in DOMAIN inbox : inbox[i].expires >= j.at}
        /\ \A i \in DOMAIN inbox' : inbox'[i] = inbox[i]
    BY <1>16, <2>1 DEF SweepRows, Keep, RestrictValues, Restrict
  <2>4. j.at \in Nat /\ \A i \in DOMAIN inbox : inbox[i].expires \in Nat
    BY <2>1, JobFields DEF TypeOK, IsTable, Row
  <2>5. RowsAlone(Idle)'
    BY <2>1, <2>2, <2>3, <2>4 DEF Alone, RowsAlone, Swept
  <2>6. FilesAlone(Idle)'
    <3>1. \A p \in DOMAIN files : files[p] \in DOMAIN inbox /\ inbox[files[p]].path = p
      BY <2>1, <2>2 DEF Alone, FilesAlone
    <3>2. \A p \in DOMAIN files : inbox[files[p]].expires >= j.at
      BY <2>1, <2>2, <2>4, <3>1 DEF Alone, StepAlone
    <3>3. QED
      BY <2>2, <2>3, <3>1, <3>2 DEF Alone, FilesAlone
  <2>7. PartsAlone(Idle)' /\ StepAlone(Idle)'
    BY <2>1, <2>2, <2>3 DEF Alone, PartsAlone, StepAlone, Idle
  <2>8. QED
    BY <1>1, <2>1, <2>2, <2>5, <2>6, <2>7, StepOfOne DEF Alone
<1>17. CASE Tick
  <2>1. PICK j \in {Idle} \cup {job[a] : a \in Actors} :
          Alone(j) /\ \A a \in Actors : job[a] \in {Idle, j}
    BY DEF AloneInv
  <2>2. now' = now + 1 /\ UNCHANGED <<files, parts, inbox, job, drawn>> /\ now \in Nat
    BY <1>17 DEF Tick, store, TypeOK
  <2>3. j \in Job /\ (j.step = "sweep" => j.at \in Nat)
    BY <1>1, JobFields
  <2>4. RowsAlone(j)' /\ FilesAlone(j)' /\ PartsAlone(j)'
    BY <2>1, <2>2 DEF Alone, RowsAlone, FilesAlone, PartsAlone, Swept
  <2>5. StepAlone(j)'
    BY <2>1, <2>2, <2>3 DEF Alone, StepAlone
  <2>6. QED
    BY <2>1, <2>2, <2>4, <2>5 DEF AloneInv, Alone
<1>18. CASE UNCHANGED vars
  BY <1>18 DEF vars, store, AloneInv, Alone, RowsAlone, FilesAlone, PartsAlone, StepAlone, Swept
<1>19. QED
  BY <1>3, <1>4, <1>5, <1>6, <1>7, <1>8, <1>9, <1>10, <1>11, <1>12, <1>13, <1>14, <1>15,
     <1>16, <1>17, <1>18 DEF Next, Begin, Continue

\* It holds while operations do not overlap.
LEMMA AloneInvariant == Spec /\ []Serial => [](TypeOK /\ AloneInv)
<1>1. Init => TypeOK /\ AloneInv
  BY TypeInit, AloneInit
<1>2. TypeOK /\ AloneInv /\ Serial /\ Serial' /\ [Next]_vars => (TypeOK /\ AloneInv)'
  BY TypeStep, AloneStep
<1>3. QED
  BY <1>1, <1>2, PTL DEF Spec

\* Directory and table (core.py 401-460 and 506-512, store.py 105-117) agree whatever names
\* the senders give, if operations do not overlap and none is interrupted.
THEOREM SerialFilesAgree == Spec /\ []Serial => []RowsAndFilesAgree
<1>1. TypeOK /\ AloneInv => RowsAndFilesAgree
  <2> SUFFICES ASSUME TypeOK, AloneInv PROVE RowsAndFilesAgree
    OBVIOUS
  <2>1. PICK j \in {Idle} \cup {job[a] : a \in Actors} : Alone(j)
    BY DEF AloneInv
  <2>2. j.step # "idle" => \E a \in Actors : job[a] = j
    BY DEF Idle
  <2>3. j.step = "sweep" => j.at <= now /\ j.at \in Nat /\ now \in Nat
    BY <2>1, <2>2, JobFields DEF Alone, StepAlone, TypeOK
  <2>4. \A i \in DOMAIN inbox : Unexpired(i) => ~Swept(i, j)
    BY <2>3 DEF Unexpired, Swept, TypeOK, IsTable, Row
  <2>5. ListedItemsHaveTheirFile
    BY <2>1, <2>2, <2>4 DEF Alone, RowsAlone, ListedItemsHaveTheirFile, Forgetting
  <2>6. FilesAreAccountedFor
    BY <2>1, <2>2 DEF Alone, FilesAlone, PartsAlone, FilesAreAccountedFor
  <2>7. QED
    BY <2>5, <2>6 DEF RowsAndFilesAgree
<1>2. QED
  BY <1>1, AloneInvariant, PTL

\* A download sends the bytes of the item asked for (service.py 250-262), under the same
\* condition.
THEOREM SerialOwnDownloads == Spec /\ []Serial => []DownloadsAreOwn
<1>1. Init => DownloadsAreOwn
  BY DEF Init, DownloadsAreOwn
<1>2. TypeOK /\ AloneInv /\ Serial /\ Serial' /\ DownloadsAreOwn /\ [Next]_vars => DownloadsAreOwn'
  <2> SUFFICES ASSUME TypeOK, AloneInv, Serial, Serial', DownloadsAreOwn, [Next]_vars
               PROVE  DownloadsAreOwn'
    OBVIOUS
  <2>1. ASSUME NEW h \in Actors, Download(h) PROVE DownloadsAreOwn'
    <3>1. Idle \in Job /\ job[h].step = "serve" /\ job[h] # Idle /\ job' = [job EXCEPT ![h] = Idle]
      BY <2>1 DEF Download, Become, Job, Idle
    <3>2. Alone(job[h])
      BY <3>1, StepOfOne
    <3>3. job[h].path \in DOMAIN files => files[job[h].path] = job[h].item
      BY <3>1, <3>2 DEF Alone, StepAlone
    <3>4. QED
      BY <2>1, <3>3 DEF Download, DownloadsAreOwn
  <2>2. ASSUME UNCHANGED served PROVE DownloadsAreOwn'
    BY <2>2 DEF DownloadsAreOwn
  <2>3. QED
    BY <2>1, <2>2 DEF Next, Begin, Continue, AddText, BeginUpload, UploadFails,
       PublishUpload, RecordUpload, BeginDiscard, DiscardFile, DiscardRow, BeginDownload,
       BeginSweep, SweepFile, SweepFails, SweepRows, Tick, Interrupt, vars
<1>3. QED
  BY <1>1, <1>2, AloneInvariant, PTL DEF Spec

\* "Unrelated files are never overwritten" (README.md, line 56), under the same condition.
THEOREM SerialNeverOverwritten == Spec /\ []Serial => NothingOverwritten
<1>1. ASSUME TypeOK, AloneInv, Serial, Serial', [Next]_vars,
             NEW path \in DOMAIN files \cap DOMAIN files'
      PROVE  files'[path] = files[path]
  <2>1. ASSUME NEW a \in Actors, PublishUpload(a) PROVE files'[path] = files[path]
    <3>1. job[a].step = "receive" /\ job[a] # Idle /\ job[a] \in Job
      BY <1>1, <2>1 DEF PublishUpload, Idle, TypeOK
    <3>2. PICK v \in Job : job' = [job EXCEPT ![a] = v]
      <4>1. [step |-> "record", item |-> job[a].item, path |-> job[a].path,
             expires |-> now + job[a].ttl] \in Job
        BY <1>1, <3>1, JobFields DEF Job, TypeOK
      <4>2. QED
        BY <2>1, <4>1 DEF PublishUpload, Become
    <3>3. Alone(job[a])
      BY <1>1, <3>1, <3>2, StepOfOne
    <3>4. job[a].path \notin DOMAIN files
      BY <3>1, <3>3 DEF Alone, StepAlone
    <3>5. QED
      BY <1>1, <2>1, <3>4 DEF PublishUpload, Put
  <2>2. ASSUME NEW S, files' = Restrict(files, DOMAIN files \ S) PROVE files'[path] = files[path]
    BY <1>1, <2>2 DEF Restrict
  <2>3. ASSUME UNCHANGED files PROVE files'[path] = files[path]
    BY <2>3
  <2>4. QED
    BY <1>1, <2>1, <2>2, <2>3 DEF Next, Begin, Continue, AddText, BeginUpload, UploadFails,
       RecordUpload, BeginDiscard, DiscardFile, DiscardRow, BeginDownload, Download, store,
       BeginSweep, SweepFile, SweepFails, SweepRows, Tick, Interrupt, vars, Unlink
<1>2. TypeOK /\ AloneInv /\ Serial /\ Serial' /\ [Next]_vars =>
        [\A path \in DOMAIN files \cap DOMAIN files' : files'[path] = files[path]]_vars
  BY <1>1
<1>3. QED
  BY <1>2, AloneInvariant, PTL DEF Spec, NothingOverwritten
=============================================================================
