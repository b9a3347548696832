------------------------------ MODULE QuoteStore ------------------------------
(***************************************************************************)
(* How one downloaded file becomes rows (storage/object_store.py,          *)
(* storage/repositories.py and the loaders that call them): the bytes go   *)
(* to the object store first, then an artifact row and quote rows are      *)
(* written in one transaction, in one of two ways.                         *)
(*                                                                         *)
(*   "revise"  upsert_quote, upsert_series_observation: compare with the   *)
(*             latest revision's artifact, add revision + 1 when it differs*)
(*   "insert"  the bulk loaders of B3 LAST, CVM and Tesouro: load the      *)
(*             stored identities once, add revision 1 for the missing ones *)
(*                                                                         *)
(* Several sessions may run at once; Postgres gives each statement the     *)
(* rows committed so far and refuses a duplicate (identity, revision).     *)
(* The bulk loaders may commit in batches, so a killed one leaves part of  *)
(* its file behind.                                                        *)
(***************************************************************************)
EXTENDS Naturals, FiniteSets

CONSTANTS Jobs,     \* loader sessions
          Keys,     \* object-store keys
          Payloads, \* file contents; a payload stands for its sha256 too
          Feed,     \* Feed[k]: contents the source may serve for key k
          Idents,   \* (instrument, date, source, price type)
          RowsOf,   \* RowsOf[p]: identities a payload holds a value for
          Absent,   \* no object under a key
          MaxRuns   \* bound: ingestions started in one behaviour

ASSUME FeedAssumption == Feed \in [Keys -> SUBSET Payloads]
ASSUME RowsAssumption == RowsOf \in [Payloads -> SUBSET Idents]
ASSUME RunsAssumption == MaxRuns \in Nat
ASSUME AbsentAssumption == Absent \notin Payloads
ASSUME NonEmptyAssumption == Keys # {} /\ Payloads # {}

VARIABLES
    objects,    \* the object store
    artifacts,  \* committed raw_artifacts rows: sha and storage_uri
    quotes,     \* committed instrument_quotes rows
    pc,         \* pc[j]: where session j stands
    task,       \* its mode, object key and downloaded bytes
    artifact,   \* its uncommitted artifact row
    known,      \* identities load_quote_keys returned to it
    todo,       \* records it has still to persist
    pending,    \* its uncommitted quote rows
    runs        \* counter behind MaxRuns

vars == <<objects, artifacts, quotes, pc, task, artifact, known, todo, pending, runs>>

Modes == {"revise", "insert"}
Places == {"idle", "store", "artifact", "keys", "persist"}
Tasks == [mode: Modes, key: Keys, bytes: Payloads]
Artifacts == [sha: Payloads, uri: Keys]
Rows == [ident: Idents, revision: Nat \ {0}, sha: Payloads]

\* What an idle session holds.
NoTask == CHOOSE t \in Tasks : TRUE
NoArtifact == CHOOSE a \in Artifacts : TRUE

TypeOK ==
    /\ objects \in [Keys -> Payloads \cup {Absent}]
    /\ artifacts \subseteq Artifacts
    /\ quotes \subseteq Rows
    /\ pc \in [Jobs -> Places]
    /\ task \in [Jobs -> Tasks]
    /\ artifact \in [Jobs -> Artifacts]
    /\ known \in [Jobs -> SUBSET Idents]
    /\ todo \in [Jobs -> SUBSET Idents]
    /\ pending \in [Jobs -> SUBSET Rows]
    /\ runs \in 0..MaxRuns

Stored(i) == {q \in quotes : q.ident = i}

\* The row `order_by(revision.desc())` puts first.
IsLatest(q) == q \in quotes /\ \A other \in Stored(q.ident) : other.revision <= q.revision

Init ==
    /\ objects = [k \in Keys |-> Absent]
    /\ artifacts = {} /\ quotes = {}
    /\ pc = [j \in Jobs |-> "idle"]
    /\ task = [j \in Jobs |-> NoTask]
    /\ artifact = [j \in Jobs |-> NoArtifact]
    /\ known = [j \in Jobs |-> {}]
    /\ todo = [j \in Jobs |-> {}]
    /\ pending = [j \in Jobs |-> {}]
    /\ runs = 0

\* A loader downloads the file it stores under key k.
Download(j) ==
    /\ pc[j] = "idle" /\ runs < MaxRuns
    /\ \E m \in Modes, k \in Keys : \E p \in Feed[k] :
         task' = [task EXCEPT ![j] = [mode |-> m, key |-> k, bytes |-> p]]
    /\ pc' = [pc EXCEPT ![j] = "store"]
    /\ runs' = runs + 1
    /\ UNCHANGED <<objects, artifacts, quotes, artifact, known, todo, pending>>

\* object_store.store replaces whatever the key held.
StoreObject(j) ==
    /\ pc[j] = "store"
    /\ objects' = [objects EXCEPT ![task[j].key] = task[j].bytes]
    /\ pc' = [pc EXCEPT ![j] = "artifact"]
    /\ UNCHANGED <<artifacts, quotes, task, artifact, known, todo, pending, runs>>

\* store_raw_artifact: bytes seen before keep the storage_uri of that row.
AddArtifact(j) ==
    /\ pc[j] = "artifact"
    /\ LET same == {a \in artifacts : a.sha = task[j].bytes}
       IN  \E uri \in IF same = {} THEN {task[j].key} ELSE {a.uri : a \in same} :
             artifact' = [artifact EXCEPT ![j] = [sha |-> task[j].bytes, uri |-> uri]]
    /\ pc' = [pc EXCEPT ![j] = "keys"]
    /\ UNCHANGED <<objects, artifacts, quotes, task, known, todo, pending, runs>>

\* Mutant: identities another session has not committed yet count as stored.
LoadKeysDirty(j) ==
    /\ pc[j] = "keys"
    /\ known' = [known EXCEPT ![j] =
                   IF task[j].mode = "insert"
                   THEN {q.ident : q \in quotes \cup UNION {pending[k] : k \in Jobs}} ELSE {}]
    /\ todo' = [todo EXCEPT ![j] = RowsOf[task[j].bytes]]
    /\ pc' = [pc EXCEPT ![j] = "persist"]
    /\ UNCHANGED <<objects, artifacts, quotes, task, artifact, pending, runs>>

\* load_quote_keys for the bulk path, then the loop over the parsed records.
LoadKeys(j) ==
    /\ pc[j] = "keys"
    /\ known' = [known EXCEPT ![j] =
                   IF task[j].mode = "insert" THEN {q.ident : q \in quotes} ELSE {}]
    /\ todo' = [todo EXCEPT ![j] = RowsOf[task[j].bytes]]
    /\ pc' = [pc EXCEPT ![j] = "persist"]
    /\ UNCHANGED <<objects, artifacts, quotes, task, artifact, pending, runs>>

AddRow(j, i, n) ==
    pending' = [pending EXCEPT ![j] =
                  @ \cup {[ident |-> i, revision |-> n, sha |-> task[j].bytes]}]

\* Mutant: revisions counted from zero.
InsertRecordFromZero(j, i) ==
    /\ task[j].mode = "insert"
    /\ \/ i \in known[j] /\ UNCHANGED pending
       \/ i \notin known[j] /\ AddRow(j, i, 0)

\* Bulk path: revision 1 for an identity that was not stored at load time.
InsertRecord(j, i) ==
    /\ task[j].mode = "insert"
    /\ \/ i \in known[j] /\ UNCHANGED pending
       \/ i \notin known[j] /\ AddRow(j, i, 1)

\* Mutants: the latest row of any identity; a stored identity is never revised.
ReviseRecordUnfiltered(j, i) ==
    /\ task[j].mode = "revise"
    /\ \/ quotes = {} /\ AddRow(j, i, 1)
       \/ \E latest \in quotes :
            /\ \A q \in quotes : q.revision <= latest.revision
            /\ latest.sha # task[j].bytes /\ AddRow(j, i, latest.revision + 1)

ReviseRecordOnce(j, i) ==
    /\ task[j].mode = "revise"
    /\ \/ Stored(i) = {} /\ AddRow(j, i, 1)
       \/ Stored(i) # {} /\ UNCHANGED pending

\* upsert_quote: insert, skip the same bytes, or add the next revision.
ReviseRecord(j, i) ==
    /\ task[j].mode = "revise"
    /\ \/ Stored(i) = {} /\ AddRow(j, i, 1)
       \/ \E latest \in Stored(i) :
            /\ IsLatest(latest)
            /\ \/ latest.sha = task[j].bytes /\ UNCHANGED pending
               \/ latest.sha # task[j].bytes /\ AddRow(j, i, latest.revision + 1)

PersistRecord(j, i) ==
    /\ pc[j] = "persist" /\ i \in todo[j]
    /\ InsertRecord(j, i) \/ ReviseRecord(j, i)
    /\ todo' = [todo EXCEPT ![j] = @ \ {i}]
    /\ UNCHANGED <<objects, artifacts, quotes, pc, task, artifact, known, runs>>

SessionOver(j) ==
    /\ pc' = [pc EXCEPT ![j] = "idle"]
    /\ known' = [known EXCEPT ![j] = {}]
    /\ todo' = [todo EXCEPT ![j] = {}]
    /\ pending' = [pending EXCEPT ![j] = {}]
    /\ task' = [task EXCEPT ![j] = NoTask]
    /\ artifact' = [artifact EXCEPT ![j] = NoArtifact]
    /\ UNCHANGED <<objects, runs>>

\* A pending row repeats a committed (identity, revision).
Duplicate(j) ==
    \E row \in pending[j], q \in quotes :
        q.ident = row.ident /\ q.revision = row.revision

Persisted(j) == pc[j] = "persist" /\ todo[j] = {}

\* Mutant: the table has no unique constraint.
CommitUnchecked(j) ==
    /\ Persisted(j)
    /\ quotes' = quotes \cup pending[j]
    /\ artifacts' = artifacts \cup {artifact[j]}
    /\ SessionOver(j)

\* The CVM and Tesouro loaders commit in batches while they persist.
FlushBatch(j) ==
    /\ pc[j] = "persist" /\ task[j].mode = "insert"
    /\ pending[j] # {} /\ ~Duplicate(j)
    /\ quotes' = quotes \cup pending[j]
    /\ artifacts' = artifacts \cup {artifact[j]}
    /\ pending' = [pending EXCEPT ![j] = {}]
    /\ UNCHANGED <<objects, pc, task, artifact, known, todo, runs>>

Commit(j) ==
    /\ Persisted(j) /\ ~Duplicate(j)
    /\ quotes' = quotes \cup pending[j]
    /\ artifacts' = artifacts \cup {artifact[j]}
    /\ SessionOver(j)

\* The unique constraint refuses a flushed row: the loader raises, the CLI
\* rolls back.
UniqueViolation(j) ==
    /\ pc[j] = "persist" /\ Duplicate(j)
    /\ SessionOver(j)
    /\ UNCHANGED <<artifacts, quotes>>

\* Mutant: a failed session cleans up the object it stored.
AbortRemovesObject(j) ==
    /\ pc[j] # "idle"
    /\ pc' = [pc EXCEPT ![j] = "idle"]
    /\ known' = [known EXCEPT ![j] = {}]
    /\ todo' = [todo EXCEPT ![j] = {}]
    /\ pending' = [pending EXCEPT ![j] = {}]
    /\ objects' = [objects EXCEPT ![task[j].key] = Absent]
    /\ UNCHANGED <<artifacts, quotes, task, artifact, runs>>

\* An error or a kill at any step: rows are rolled back, the object stays.
Abort(j) ==
    /\ pc[j] # "idle"
    /\ SessionOver(j)
    /\ UNCHANGED <<artifacts, quotes>>

Next == \E j \in Jobs :
    \/ Download(j) \/ StoreObject(j) \/ AddArtifact(j) \/ LoadKeys(j)
    \/ \E i \in Idents : PersistRecord(j, i)
    \/ FlushBatch(j) \/ Commit(j) \/ UniqueViolation(j) \/ Abort(j)

Spec == Init /\ [][Next]_vars

-------------------------------------------------------------------------------
(* Properties *)

\* The revisions of an identity are 1..n without a hole, however many sessions
\* interleave their reads and commits.
RevisionsContiguous ==
    \A q \in quotes : \A n \in 1..q.revision :
        \E row \in quotes : row.ident = q.ident /\ row.revision = n

\* One row per identity and revision, and a revision never repeats the bytes
\* of the one before it.
RevisionsChangeBytes ==
    \A q, row \in quotes :
        q.ident = row.ident /\ q.revision <= row.revision /\ row.revision <= q.revision + 1
          => q = row \/ (q.revision < row.revision /\ q.sha # row.sha)

\* The object a committed artifact points at is there: bytes are stored before
\* the row can commit, and no abort takes them away.
ArtifactObjectExists == \A a \in artifacts : objects[a.uri] # Absent

\* When a revising session commits, its bytes are on record for every identity
\* they hold a value for, whatever other sessions committed meanwhile.
RevisedBytesOnRecord ==
    [][\A j \in Jobs : Commit(j) /\ task[j].mode = "revise" =>
         \A i \in RowsOf[task[j].bytes] :
            \E q \in quotes' : q.ident = i /\ q.sha = task[j].bytes]_vars

\* A session that commits leaves a row for every identity its file holds: what
\* it skipped as stored, or flushed in an earlier batch, is really there.
CommittedFileIsComplete ==
    [][\A j \in Jobs : Commit(j) =>
         RowsOf[task[j].bytes] \subseteq {q.ident : q \in quotes'}]_vars
===============================================================================
