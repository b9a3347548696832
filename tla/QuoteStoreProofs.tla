--------------------------- MODULE QuoteStoreProofs ---------------------------
(***************************************************************************)
(* Proofs about the quote table for any number of concurrent sessions:     *)
(* revision histories have no hole and always change bytes, and committed  *)
(* artifacts point at existing objects.                                    *)
(***************************************************************************)
EXTENDS QuoteStore, TLAPS

\* A pending row continues a history that was committed when it was read: it
\* is the first revision, or follows a committed one with other bytes.
Continues(row) ==
    \/ row.revision = 1
    \/ \E q \in quotes : /\ q.ident = row.ident
                         /\ row.revision = q.revision + 1
                         /\ q.sha # row.sha

PendingOK ==
    \A j \in Jobs :
      /\ pc[j] # "persist" => pending[j] = {}
      /\ \A row \in pending[j] : row.ident \notin todo[j] /\ Continues(row)
      /\ \A row, other \in pending[j] : row.ident = other.ident => row = other

\* The object of a job is stored before its artifact row exists.
ObjectsOK ==
    \A j \in Jobs :
      /\ pc[j] \in {"artifact", "keys", "persist"} => objects[task[j].key] # Absent
      /\ pc[j] \in {"keys", "persist"} => objects[artifact[j].uri] # Absent

IInv ==
    /\ TypeOK
    /\ RevisionsContiguous /\ RevisionsChangeBytes /\ PendingOK
    /\ ArtifactObjectExists /\ ObjectsOK

\* The placeholders of an idle session are well typed.
LEMMA Placeholders == NoTask \in Tasks /\ NoArtifact \in Artifacts
<1>1. PICK k \in Keys, p \in Payloads : TRUE
  BY NonEmptyAssumption
<1>2. [mode |-> "insert", key |-> k, bytes |-> p] \in Tasks
      /\ [sha |-> p, uri |-> k] \in Artifacts
  BY <1>1 DEF Tasks, Artifacts, Modes
<1> QED BY <1>2 DEF NoTask, NoArtifact

LEMMA InvInit == Init => IInv
<1> SUFFICES ASSUME Init PROVE IInv
  OBVIOUS
<1>1. TypeOK
  BY Placeholders, RunsAssumption DEF Init, TypeOK, Places
<1>2. RevisionsContiguous /\ RevisionsChangeBytes /\ PendingOK
      /\ ArtifactObjectExists /\ ObjectsOK
  BY DEF Init, RevisionsContiguous, RevisionsChangeBytes, PendingOK,
         ArtifactObjectExists, ObjectsOK
<1> QED BY <1>1, <1>2 DEF IInv

-------------------------------------------------------------------------------
\* Every step keeps the types.
LEMMA TypeStep == TypeOK /\ [Next]_vars => TypeOK'
<1> SUFFICES ASSUME TypeOK, [Next]_vars PROVE TypeOK'
  OBVIOUS
<1> USE DEF TypeOK, Places
<1>1. ASSUME NEW j \in Jobs, Download(j) PROVE TypeOK'
  <2>1. PICK m \in Modes, k \in Keys : \E p \in Feed[k] :
          task' = [task EXCEPT ![j] = [mode |-> m, key |-> k, bytes |-> p]]
    BY <1>1 DEF Download
  <2>2. task' \in [Jobs -> Tasks]
    BY <2>1, FeedAssumption DEF Tasks
  <2>3. runs' \in 0..MaxRuns
    BY <1>1, RunsAssumption DEF Download
  <2> QED BY <1>1, <2>2, <2>3 DEF Download
<1>2. ASSUME NEW j \in Jobs, StoreObject(j) PROVE TypeOK'
  <2>1. objects' \in [Keys -> Payloads \cup {Absent}]
    BY <1>2 DEF StoreObject, Tasks
  <2> QED BY <1>2, <2>1 DEF StoreObject
<1>3. ASSUME NEW j \in Jobs, AddArtifact(j) PROVE TypeOK'
  <2>1. artifact' \in [Jobs -> Artifacts]
    BY <1>3 DEF AddArtifact, Tasks, Artifacts
  <2> QED BY <1>3, <2>1 DEF AddArtifact
<1>4. ASSUME NEW j \in Jobs, LoadKeys(j) PROVE TypeOK'
  <2>1. known' \in [Jobs -> SUBSET Idents]
    BY <1>4 DEF LoadKeys, Rows
  <2>2. todo' \in [Jobs -> SUBSET Idents]
    BY <1>4, RowsAssumption DEF LoadKeys, Tasks
  <2> QED BY <1>4, <2>1, <2>2 DEF LoadKeys
<1>5. ASSUME NEW j \in Jobs, NEW i \in Idents, PersistRecord(j, i) PROVE TypeOK'
  <2>1. pending' \in [Jobs -> SUBSET Rows]
    <3>1. task[j].bytes \in Payloads
      BY DEF Tasks
    <3>2. ASSUME NEW n \in Nat \ {0}, AddRow(j, i, n) PROVE pending' \in [Jobs -> SUBSET Rows]
      BY <3>1, <3>2 DEF AddRow, Rows
    <3>3. CASE InsertRecord(j, i)
      BY <3>2, <3>3 DEF InsertRecord
    <3>4. CASE ReviseRecord(j, i)
      <4>1. \A q \in quotes : q.revision + 1 \in Nat \ {0}
        BY DEF Rows
      <4>2. Stored(i) \subseteq quotes
        BY DEF Stored
      <4> QED BY <3>2, <3>4, <4>1, <4>2 DEF ReviseRecord
    <3> QED BY <1>5, <3>3, <3>4 DEF PersistRecord
  <2> QED BY <1>5, <2>1 DEF PersistRecord
<1>6. ASSUME NEW j \in Jobs, SessionOver(j),
             quotes' \subseteq Rows, artifacts' \subseteq Artifacts
      PROVE  TypeOK'
  BY <1>6, Placeholders DEF SessionOver
<1>7. ASSUME NEW j \in Jobs, Commit(j) PROVE TypeOK'
  BY <1>6, <1>7 DEF Commit
<1>8. ASSUME NEW j \in Jobs, UniqueViolation(j) \/ Abort(j) PROVE TypeOK'
  BY <1>6, <1>8 DEF UniqueViolation, Abort
<1>9. ASSUME NEW j \in Jobs, FlushBatch(j) PROVE TypeOK'
  BY <1>9 DEF FlushBatch
<1>10. CASE UNCHANGED vars
  BY <1>10 DEF vars
<1> QED BY <1>1, <1>2, <1>3, <1>4, <1>5, <1>7, <1>8, <1>9, <1>10 DEF Next

-------------------------------------------------------------------------------
\* The inductive step, one action at a time.
LEMMA InvStep == IInv /\ [Next]_vars => IInv'
<1> SUFFICES ASSUME IInv, [Next]_vars PROVE IInv'
  OBVIOUS
<1>0. TypeOK /\ TypeOK'
  BY TypeStep DEF IInv
<1>h. ASSUME quotes' = quotes PROVE RevisionsContiguous' /\ RevisionsChangeBytes'
  BY <1>h DEF IInv, RevisionsContiguous, RevisionsChangeBytes
<1>1. ASSUME NEW j \in Jobs, Download(j) PROVE IInv'
  <2>1. PendingOK' /\ ArtifactObjectExists' /\ ObjectsOK'
    BY <1>0, <1>1 DEF Download, IInv, TypeOK, PendingOK, ArtifactObjectExists,
                      ObjectsOK, Continues
  <2> QED BY <1>0, <1>1, <1>h, <2>1 DEF IInv, Download
<1>2. ASSUME NEW j \in Jobs, StoreObject(j) PROVE IInv'
  <2>1. \A k \in Keys : objects[k] # Absent => objects'[k] # Absent
    BY <1>0, <1>2, AbsentAssumption DEF StoreObject, TypeOK, Tasks
  <2>2. objects'[task[j].key] # Absent
    BY <1>0, <1>2, AbsentAssumption DEF StoreObject, TypeOK, Tasks
  <2>3. ArtifactObjectExists'
    BY <1>0, <1>2, <2>1 DEF StoreObject, IInv, TypeOK, ArtifactObjectExists, Artifacts
  <2>4. ObjectsOK'
    BY <1>0, <1>2, <2>1, <2>2
       DEF StoreObject, IInv, TypeOK, ObjectsOK, Tasks, Artifacts
  <2>5. PendingOK'
    BY <1>0, <1>2 DEF StoreObject, IInv, TypeOK, PendingOK, Continues
  <2> QED BY <1>0, <1>2, <1>h, <2>3, <2>4, <2>5 DEF IInv, StoreObject
<1>3. ASSUME NEW j \in Jobs, AddArtifact(j) PROVE IInv'
  <2>1. objects[artifact'[j].uri] # Absent
    BY <1>0, <1>3 DEF AddArtifact, IInv, TypeOK, ObjectsOK, ArtifactObjectExists
  <2>2. \A other \in Jobs : other # j =>
          artifact'[other] = artifact[other] /\ pc'[other] = pc[other]
    BY <1>0, <1>3 DEF AddArtifact, TypeOK
  <2>3. pc[j] = "artifact" /\ pc'[j] = "keys" /\ UNCHANGED <<objects, task, artifacts>>
    BY <1>0, <1>3 DEF AddArtifact, TypeOK
  <2>4. ObjectsOK'
    BY <2>1, <2>2, <2>3 DEF IInv, ObjectsOK
  <2>5. PendingOK' /\ ArtifactObjectExists'
    BY <1>0, <1>3 DEF AddArtifact, IInv, TypeOK, PendingOK, Continues, ArtifactObjectExists
  <2> QED BY <1>0, <1>3, <1>h, <2>4, <2>5 DEF IInv, AddArtifact
<1>4. ASSUME NEW j \in Jobs, LoadKeys(j) PROVE IInv'
  <2>1. ObjectsOK' /\ ArtifactObjectExists'
    BY <1>0, <1>4 DEF LoadKeys, IInv, TypeOK, ObjectsOK, ArtifactObjectExists
  <2>2. PendingOK'
    BY <1>0, <1>4 DEF LoadKeys, IInv, TypeOK, PendingOK, Continues
  <2> QED BY <1>0, <1>4, <1>h, <2>1, <2>2 DEF IInv, LoadKeys
<1>5. ASSUME NEW j \in Jobs, NEW i \in Idents, PersistRecord(j, i) PROVE IInv'
  <2>1. ObjectsOK' /\ ArtifactObjectExists'
    BY <1>0, <1>5 DEF PersistRecord, IInv, TypeOK, ObjectsOK, ArtifactObjectExists
  <2>2. \/ UNCHANGED pending
        \/ \E n \in Nat : AddRow(j, i, n)
                          /\ Continues([ident |-> i, revision |-> n, sha |-> task[j].bytes])
    <3>1. CASE InsertRecord(j, i)
      BY <3>1 DEF InsertRecord, Continues
    <3>2. CASE ReviseRecord(j, i)
      <4>1. \A q \in Stored(i) : q \in quotes /\ q.ident = i /\ q.revision + 1 \in Nat
        BY <1>0 DEF Stored, TypeOK, Rows
      <4> QED BY <3>2, <4>1 DEF ReviseRecord, Continues
    <3> QED BY <1>5, <3>1, <3>2 DEF PersistRecord
  <2>3. pc[j] = "persist" /\ i \in todo[j] /\ UNCHANGED <<pc, quotes, objects, artifacts>>
        /\ todo' = [todo EXCEPT ![j] = @ \ {i}]
    BY <1>5 DEF PersistRecord
  <2>4. PendingOK'
    <3>1. CASE UNCHANGED pending
      BY <1>0, <2>3, <3>1 DEF IInv, TypeOK, PendingOK, Continues
    <3>2. ASSUME NEW n \in Nat, AddRow(j, i, n),
                 Continues([ident |-> i, revision |-> n, sha |-> task[j].bytes])
          PROVE  PendingOK'
      <4> DEFINE new == [ident |-> i, revision |-> n, sha |-> task[j].bytes]
      <4>1. pending' = [pending EXCEPT ![j] = @ \cup {new}]
        BY <3>2 DEF AddRow
      <4>2. \A row \in pending[j] : row.ident # i
        BY <2>3 DEF IInv, PendingOK
      <4>3. \A other \in Jobs : other # j => pending'[other] = pending[other]
                                              /\ todo'[other] = todo[other]
        BY <1>0, <2>3, <4>1 DEF TypeOK
      <4>4. pending'[j] = pending[j] \cup {new} /\ todo'[j] = todo[j] \ {i}
        BY <1>0, <2>3, <4>1 DEF TypeOK
      <4>5. \A row : Continues(row) => Continues(row)'
        BY <2>3 DEF Continues
      <4>6. Continues(new) /\ new.ident = i
        BY <3>2
      <4>7. ASSUME NEW k \in Jobs
            PROVE  /\ pc'[k] # "persist" => pending'[k] = {}
                   /\ \A row \in pending'[k] : row.ident \notin todo'[k] /\ Continues(row)'
                   /\ \A row, other \in pending'[k] : row.ident = other.ident => row = other
        <5> HIDE DEF new
        <5>1. CASE k # j
          BY <2>3, <4>3, <4>5, <5>1 DEF IInv, PendingOK
        <5>2. CASE k = j
          BY <2>3, <4>2, <4>4, <4>5, <4>6, <5>2 DEF IInv, PendingOK
        <5> QED BY <5>1, <5>2
      <4> QED BY <4>7 DEF PendingOK
    <3> QED BY <2>2, <3>1, <3>2
  <2> QED BY <1>0, <1>h, <2>1, <2>3, <2>4 DEF IInv
<1>6. ASSUME NEW j \in Jobs, SessionOver(j), quotes \subseteq quotes',
             artifacts' \subseteq artifacts \cup {artifact[j]},
             artifacts' # artifacts => pc[j] = "persist"
      PROVE  PendingOK' /\ ArtifactObjectExists' /\ ObjectsOK'
  <2>1. \A k \in Jobs : k # j => /\ pc'[k] = pc[k] /\ pending'[k] = pending[k]
                                 /\ todo'[k] = todo[k] /\ task'[k] = task[k]
                                 /\ artifact'[k] = artifact[k]
    BY <1>0, <1>6 DEF SessionOver, TypeOK
  <2>2. pc'[j] = "idle" /\ pending'[j] = {} /\ objects' = objects
    BY <1>0, <1>6 DEF SessionOver, TypeOK
  <2>3. PendingOK'
    BY <1>6, <2>1, <2>2 DEF IInv, PendingOK, Continues
  <2>4. ObjectsOK'
    BY <2>1, <2>2 DEF IInv, ObjectsOK
  <2>5. ArtifactObjectExists'
    BY <1>6, <2>2 DEF IInv, ArtifactObjectExists, ObjectsOK
  <2> QED BY <2>3, <2>4, <2>5
<1>q. ASSUME NEW j \in Jobs, quotes' = quotes \cup pending[j], ~Duplicate(j)
      PROVE  RevisionsContiguous' /\ RevisionsChangeBytes'
  <2>1. quotes' = quotes \cup pending[j] /\ ~Duplicate(j)
    BY <1>q
  <2>2. \A row \in pending[j] : row.revision \in Nat /\ Continues(row)
    BY <1>0 DEF IInv, PendingOK, TypeOK, Rows
  <2>3. \A q \in quotes : q.revision \in Nat
    BY <1>0 DEF TypeOK, Rows
  <2>4. RevisionsContiguous'
    <3> SUFFICES ASSUME NEW q \in quotes', NEW n \in 1..q.revision
                 PROVE  \E row \in quotes' : row.ident = q.ident /\ row.revision = n
      BY DEF RevisionsContiguous
    <3>1. CASE q \in quotes
      BY <2>1, <3>1 DEF IInv, RevisionsContiguous
    <3>2. CASE q \in pending[j]
      <4>1. CASE n = q.revision
        BY <4>1
      <4>2. CASE n # q.revision
        <5>1. PICK p \in quotes : p.ident = q.ident /\ q.revision = p.revision + 1
          BY <2>2, <3>2, <4>2 DEF Continues
        <5>2. n \in 1..p.revision
          BY <2>2, <2>3, <3>2, <4>2, <5>1
        <5> QED BY <2>1, <5>1, <5>2 DEF IInv, RevisionsContiguous
      <4> QED BY <4>1, <4>2
    <3> QED BY <2>1, <3>1, <3>2
  <2>5. RevisionsChangeBytes'
    <3> SUFFICES ASSUME NEW q \in quotes', NEW row \in quotes', q.ident = row.ident,
                        q.revision <= row.revision, row.revision <= q.revision + 1
                 PROVE  q = row \/ (q.revision < row.revision /\ q.sha # row.sha)
      BY DEF RevisionsChangeBytes
    <3>1. CASE q \in quotes /\ row \in quotes
      BY <3>1 DEF IInv, RevisionsChangeBytes
    <3>2. CASE q \in pending[j] /\ row \in pending[j]
      BY <3>2 DEF IInv, PendingOK
    <3>3. CASE q \in quotes /\ row \in pending[j]
      <4>1. row.revision = q.revision + 1
        BY <2>1, <2>2, <2>3, <3>3 DEF Duplicate
      <4>2. row.revision # 1
        BY <1>0, <3>3, <4>1 DEF TypeOK, Rows
      <4>3. PICK p \in quotes : p.ident = row.ident /\ row.revision = p.revision + 1
                                /\ p.sha # row.sha
        BY <2>2, <3>3, <4>2 DEF Continues
      <4>4. p.revision = q.revision
        BY <2>3, <3>3, <4>1, <4>3
      <4>5. p = q
        BY <2>3, <3>3, <4>3, <4>4 DEF IInv, RevisionsChangeBytes
      <4> QED BY <2>3, <3>3, <4>1, <4>3, <4>5
    <3>4. CASE q \in pending[j] /\ row \in quotes
      <4>1. q.revision \in 1..row.revision
        BY <1>0, <2>2, <2>3, <3>4 DEF TypeOK, Rows
      <4>2. \E p \in quotes : p.ident = q.ident /\ p.revision = q.revision
        BY <3>4, <4>1 DEF IInv, RevisionsContiguous
      <4> QED BY <2>1, <3>4, <4>2 DEF Duplicate
    <3> QED BY <2>1, <3>1, <3>2, <3>3, <3>4
  <2> QED BY <2>4, <2>5
<1>7. ASSUME NEW j \in Jobs, Commit(j) PROVE IInv'
  <2>1. quotes' = quotes \cup pending[j] /\ ~Duplicate(j) /\ SessionOver(j)
        /\ pc[j] = "persist" /\ artifacts' = artifacts \cup {artifact[j]}
    BY <1>7 DEF Commit, Persisted
  <2> QED BY <1>0, <1>6, <1>q, <2>1 DEF IInv
<1>8. ASSUME NEW j \in Jobs, UniqueViolation(j) \/ Abort(j) PROVE IInv'
  <2>1. SessionOver(j) /\ UNCHANGED <<artifacts, quotes>>
    BY <1>8 DEF UniqueViolation, Abort
  <2> QED BY <1>0, <1>6, <1>h, <2>1 DEF IInv
<1>9. ASSUME NEW j \in Jobs, FlushBatch(j) PROVE IInv'
  <2>1. quotes' = quotes \cup pending[j] /\ ~Duplicate(j) /\ pc[j] = "persist"
        /\ artifacts' = artifacts \cup {artifact[j]}
        /\ UNCHANGED <<objects, pc, task, artifact, todo>>
    BY <1>9 DEF FlushBatch
  <2>2. pending'[j] = {} /\ \A k \in Jobs : k # j => pending'[k] = pending[k]
    BY <1>0, <1>9 DEF FlushBatch, TypeOK
  <2>3. \A row : Continues(row) => Continues(row)'
    BY <2>1 DEF Continues
  <2>4. PendingOK'
    BY <2>1, <2>2, <2>3 DEF IInv, PendingOK
  <2>5. ArtifactObjectExists' /\ ObjectsOK'
    BY <2>1 DEF IInv, ArtifactObjectExists, ObjectsOK
  <2> QED BY <1>0, <1>q, <2>1, <2>4, <2>5 DEF IInv
<1>10. CASE UNCHANGED vars
  BY <1>0, <1>10, <1>h
     DEF vars, IInv, PendingOK, Continues, ArtifactObjectExists, ObjectsOK
<1> QED BY <1>1, <1>2, <1>3, <1>4, <1>5, <1>7, <1>8, <1>9, <1>10 DEF Next

\* The inductive invariant of the quote table.
THEOREM Invariance == Spec => []IInv
BY InvInit, InvStep, PTL DEF Spec

\* The table, the object store and the sessions keep their types.
THEOREM TypeCorrect == Spec => []TypeOK
<1>1. IInv => TypeOK
  BY DEF IInv
<1> QED BY <1>1, Invariance, PTL

\* The revisions of every identity are 1..n, for any number of sessions.
THEOREM NoRevisionHole == Spec => []RevisionsContiguous
<1>1. IInv => RevisionsContiguous
  BY DEF IInv
<1> QED BY <1>1, Invariance, PTL

\* Two consecutive revisions never come from the same bytes.
THEOREM EveryRevisionChangesBytes == Spec => []RevisionsChangeBytes
<1>1. IInv => RevisionsChangeBytes
  BY DEF IInv
<1> QED BY <1>1, Invariance, PTL

\* A committed artifact's storage_uri names an existing object.
THEOREM NoDanglingArtifact == Spec => []ArtifactObjectExists
<1>1. IInv => ArtifactObjectExists
  BY DEF IInv
<1> QED BY <1>1, Invariance, PTL

-------------------------------------------------------------------------------
(* What a session has stored of its file. *)

\* Every record a session is done with has a row, committed or its own; one of
\* a revising session has its bytes.
Recorded(j, i) ==
    /\ \E q \in quotes \cup pending[j] : q.ident = i
    /\ task[j].mode = "revise" =>
         \E q \in quotes \cup pending[j] : q.ident = i /\ q.sha = task[j].bytes

FileOK ==
    \A j \in Jobs : pc[j] = "persist" =>
      /\ known[j] \subseteq {q.ident : q \in quotes}
      /\ \A i \in RowsOf[task[j].bytes] \ todo[j] : Recorded(j, i)

\* A session another one does not touch keeps what it has.
LEMMA FileFrame ==
    ASSUME FileOK, quotes \subseteq quotes', NEW j \in Jobs, pc'[j] = "persist",
           pc[j] = "persist" /\ todo'[j] = todo[j] /\ task'[j] = task[j] /\ known'[j] = known[j],
           pending[j] \subseteq quotes' \cup pending'[j]
    PROVE  /\ known'[j] \subseteq {q.ident : q \in quotes'}
           /\ \A i \in RowsOf[task'[j].bytes] \ todo'[j] : Recorded(j, i)'
<1>1. ASSUME NEW i \in RowsOf[task'[j].bytes] \ todo'[j] PROVE Recorded(j, i)'
  <2>1. Recorded(j, i)
    BY <1>1 DEF FileOK
  <2>2. quotes \cup pending[j] \subseteq quotes' \cup pending'[j]
    OBVIOUS
  <2> QED BY <2>1, <2>2 DEF Recorded
<1> QED BY <1>1 DEF FileOK

LEMMA FileStep == ASSUME TypeOK, FileOK, [Next]_vars PROVE FileOK'
<1> USE DEF TypeOK
<1>1. ASSUME NEW j \in Jobs, Download(j) \/ StoreObject(j) \/ AddArtifact(j) PROVE FileOK'
  <2>1. /\ UNCHANGED <<quotes, todo, pending, known>>
        /\ \A k \in Jobs : pc'[k] = "persist" => pc[k] = "persist" /\ task'[k] = task[k]
    BY <1>1 DEF Download, StoreObject, AddArtifact
  <2> QED BY <2>1, FileFrame DEF FileOK
<1>2. ASSUME NEW j \in Jobs, LoadKeys(j) PROVE FileOK'
  <2>1. /\ UNCHANGED <<quotes, task, pending>>
        /\ \A k \in Jobs \ {j} : pc'[k] = pc[k] /\ todo'[k] = todo[k] /\ known'[k] = known[k]
        /\ todo'[j] = RowsOf[task[j].bytes] /\ known'[j] \subseteq {q.ident : q \in quotes}
    BY <1>2 DEF LoadKeys
  <2>2. ASSUME NEW k \in Jobs, k # j, pc'[k] = "persist"
        PROVE  /\ known'[k] \subseteq {q.ident : q \in quotes'}
               /\ \A i \in RowsOf[task'[k].bytes] \ todo'[k] : Recorded(k, i)'
    BY <2>1, <2>2, FileFrame
  <2> QED BY <2>1, <2>2 DEF FileOK
<1>3. ASSUME NEW j \in Jobs, NEW r \in Idents, PersistRecord(j, r) PROVE FileOK'
  <2>1. /\ UNCHANGED <<quotes, task, known, pc>> /\ pc[j] = "persist"
        /\ \A k \in Jobs \ {j} : todo'[k] = todo[k] /\ pending'[k] = pending[k]
        /\ todo'[j] = todo[j] \ {r} /\ pending[j] \subseteq pending'[j]
    BY <1>3 DEF PersistRecord, InsertRecord, ReviseRecord, AddRow
  <2>2. ASSUME NEW k \in Jobs, k # j, pc'[k] = "persist"
        PROVE  /\ known'[k] \subseteq {q.ident : q \in quotes'}
               /\ \A i \in RowsOf[task'[k].bytes] \ todo'[k] : Recorded(k, i)'
    BY <2>1, <2>2, FileFrame
  <2>3. ASSUME NEW n, AddRow(j, r, n) PROVE Recorded(j, r)'
    <3>1. [ident |-> r, revision |-> n, sha |-> task[j].bytes] \in pending'[j]
      BY <2>3 DEF AddRow
    <3> QED BY <2>1, <3>1 DEF Recorded
  <2>4. Recorded(j, r)'
    <3>1. CASE InsertRecord(j, r)
      <4>1. CASE r \in known[j]
        BY <2>1, <3>1, <4>1 DEF InsertRecord, FileOK, Recorded
      <4> QED BY <2>3, <3>1, <4>1 DEF InsertRecord
    <3>2. CASE ReviseRecord(j, r)
      <4>1. CASE \E latest \in Stored(r) : latest.sha = task[j].bytes
        BY <2>1, <4>1 DEF Stored, Recorded
      <4> QED BY <2>3, <3>2, <4>1 DEF ReviseRecord
    <3> QED BY <1>3, <3>1, <3>2 DEF PersistRecord
  <2>5. \A i \in RowsOf[task'[j].bytes] \ todo'[j] : Recorded(j, i)'
    <3> SUFFICES ASSUME NEW i \in RowsOf[task'[j].bytes] \ todo'[j], i # r PROVE Recorded(j, i)'
      BY <2>4
    <3>1. Recorded(j, i)
      BY <2>1 DEF FileOK
    <3> QED BY <2>1, <3>1 DEF Recorded
  <2> QED BY <2>1, <2>2, <2>5 DEF FileOK
<1>4. ASSUME NEW j \in Jobs, FlushBatch(j) PROVE FileOK'
  <2>1. /\ UNCHANGED <<task, known, pc, todo>> /\ quotes' = quotes \cup pending[j]
        /\ \A k \in Jobs \ {j} : pending'[k] = pending[k]
    BY <1>4 DEF FlushBatch
  <2>2. \A k \in Jobs : pending[k] \subseteq quotes' \cup pending'[k]
    BY <2>1
  <2> QED BY <2>1, <2>2, FileFrame DEF FileOK
<1>5. ASSUME NEW j \in Jobs, SessionOver(j), quotes \subseteq quotes' PROVE FileOK'
  <2>1. /\ \A k \in Jobs \ {j} : /\ pc'[k] = pc[k] /\ task'[k] = task[k] /\ known'[k] = known[k]
                                 /\ todo'[k] = todo[k] /\ pending'[k] = pending[k]
        /\ pc'[j] = "idle"
    BY <1>5 DEF SessionOver
  <2> QED BY <1>5, <2>1, FileFrame DEF FileOK
<1>6. ASSUME NEW j \in Jobs, Commit(j) \/ UniqueViolation(j) \/ Abort(j) PROVE FileOK'
  BY <1>5, <1>6 DEF Commit, UniqueViolation, Abort
<1>7. CASE UNCHANGED vars
  BY <1>7, FileFrame DEF vars, FileOK
<1> QED BY <1>1, <1>2, <1>3, <1>4, <1>6, <1>7 DEF Next

LEMMA FileInvariance == Spec => [](TypeOK /\ FileOK)
<1>1. Init => TypeOK /\ FileOK
  BY InvInit DEF IInv, Init, FileOK
<1>2. TypeOK /\ FileOK /\ [Next]_vars => (TypeOK /\ FileOK)'
  BY TypeStep, FileStep
<1> QED BY <1>1, <1>2, PTL DEF Spec

\* At its commit a session has recorded its whole file.
LEMMA CommitRecords ==
    ASSUME FileOK, NEW j \in Jobs, Commit(j), NEW i \in RowsOf[task[j].bytes]
    PROVE  Recorded(j, i) /\ quotes' = quotes \cup pending[j]
BY DEF FileOK, Commit, Persisted

\* The bytes of a revising session that commits are on record for every
\* identity of its file, whatever other sessions committed meanwhile.
THEOREM RevisionsRecorded == Spec => RevisedBytesOnRecord
<1>1. TypeOK /\ FileOK /\ [Next]_vars =>
        [\A j \in Jobs : Commit(j) /\ task[j].mode = "revise" =>
           \A i \in RowsOf[task[j].bytes] :
              \E q \in quotes' : q.ident = i /\ q.sha = task[j].bytes]_vars
  BY CommitRecords DEF Recorded
<1> QED BY <1>1, FileInvariance, PTL DEF Spec, RevisedBytesOnRecord

\* And every identity of a committed file has a row.
THEOREM FileComplete == Spec => CommittedFileIsComplete
<1>1. TypeOK /\ FileOK /\ [Next]_vars =>
        [\A j \in Jobs : Commit(j) =>
           RowsOf[task[j].bytes] \subseteq {q.ident : q \in quotes'}]_vars
  BY CommitRecords DEF Recorded
<1> QED BY <1>1, FileInvariance, PTL DEF Spec, CommittedFileIsComplete
===============================================================================
