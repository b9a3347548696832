---------------------------- MODULE DatasetPublish ----------------------------
(***************************************************************************)
(* `marketdata publish datasets --date D` (cli/main.py, datasets/publish.py)*)
(* and the listing API over its output (api/routes/datasets.py).           *)
(*                                                                         *)
(* A publisher walks the requested catalog names on ONE database session.  *)
(* For each it extracts a frame, puts the parquet file of the snapshot     *)
(* date, reads it back and compares digests, puts the dated manifest and   *)
(* last the latest manifest. A name that fails does not stop the next one. *)
(* Ingestion changes the database meanwhile (the workflows are in          *)
(* different concurrency groups), readers hold listings, and a publisher   *)
(* may be another than the scheduled one: a shell with the same settings.  *)
(***************************************************************************)
EXTENDS Integers, Sequences, FiniteSets

CONSTANTS Names,        \* catalog names
          Dates,        \* --date values: snapshot identifiers
          Frames,       \* the non-empty contents an extract may return
          Blocked,      \* those with a b3 or yahoo row among them
          Empty,        \* the extract without rows
          Corrupt,      \* bytes that are not what was put
          None,         \* no object under a key, no listing
          Publishers,   \* processes that run the command
          Readers,      \* API clients
          Requests,     \* the --dataset lists: sequences of names
          FreshDates,   \* TRUE: no date is published twice
          MaxRuns, MaxIngests, MaxFaults    \* bounds

ASSUME FramesAssumption == /\ Blocked \subseteq Frames
                           /\ {Empty, Corrupt, None} \cap Frames = {}
                           /\ Cardinality({Empty, Corrupt, None}) = 3
ASSUME DatesAssumption == Dates # {}
ASSUME RequestsAssumption == \A q \in Requests : q \in Seq(Names) /\ q # <<>>

\* Nothing removes a repeated --dataset flag: it would publish its date twice.
ASSUME FreshAssumption ==
    /\ FreshDates \in BOOLEAN
    /\ FreshDates => \A q \in Requests : \A i, j \in 1..Len(q) : q[i] = q[j] => i = j
ASSUME BoundsAssumption == {MaxRuns, MaxIngests, MaxFaults} \subseteq Nat

Manifests == [date: Dates, sha256: Frames]
ASSUME NoneAssumption == None \notin Manifests

VARIABLES
    db,         \* db[n]: what the extract of n would return now
    object,     \* object[n][k]: parquet object of n under key k
    versioned,  \* versioned[n][k]: its dated manifest
    latest,     \* latest[n]: its latest manifest
    pc, date, dry, queue,  \* of each publisher; the first of queue is current
    frame,      \* the extracted frame
    aborted,    \* the session's transaction is aborted
    outcome,    \* outcome[p][n]: DatasetOutcome.status of the last command
    hit,        \* hit[p]: names that met an error of their own
    listing,    \* listing[r]: the <<name, manifest>> reader r holds
    used,       \* dates some command was started with
    runs, ingests, faults  \* counters behind the bounds

store == <<object, versioned, latest>>
command == <<date, dry>>
publisher == <<pc, command, queue, frame, aborted, outcome, hit>>
bounds == <<runs, ingests, faults>>
vars == <<db, store, publisher, listing, used, bounds>>

Statuses == {"published", "skipped", "failed", "dry_run", "none"}
Places == {"idle", "extract", "build", "store", "check", "versioned", "latest", "exit"}

TypeOK ==
    /\ db \in [Names -> Frames \cup {Empty}]
    /\ object \in [Names -> [Dates -> Frames \cup {Corrupt, None}]]
    /\ versioned \in [Names -> [Dates -> Manifests \cup {None}]]
    /\ latest \in [Names -> Manifests \cup {None}]
    /\ pc \in [Publishers -> Places]
    /\ date \in [Publishers -> Dates] /\ dry \in [Publishers -> BOOLEAN]
    /\ queue \in [Publishers -> Seq(Names)]
    /\ frame \in [Publishers -> Frames \cup {Empty}]
    /\ aborted \in [Publishers -> BOOLEAN]
    /\ outcome \in [Publishers -> [Names -> Statuses]]
    /\ hit \in [Publishers -> SUBSET Names]
    /\ listing \in [Readers -> (Names \X Manifests) \cup {None}]
    /\ used \subseteq Dates
    /\ runs \in 0..MaxRuns /\ ingests \in 0..MaxIngests /\ faults \in 0..MaxFaults

Init ==
    /\ db \in [Names -> Frames \cup {Empty}]
    /\ object = [n \in Names |-> [d \in Dates |-> None]]
    /\ versioned = [n \in Names |-> [d \in Dates |-> None]]
    /\ latest = [n \in Names |-> None]
    /\ pc = [p \in Publishers |-> "idle"]
    /\ date = [p \in Publishers |-> CHOOSE d \in Dates : TRUE]
    /\ dry = [p \in Publishers |-> FALSE]
    /\ queue = [p \in Publishers |-> <<>>]
    /\ frame = [p \in Publishers |-> Empty]
    /\ aborted = [p \in Publishers |-> FALSE]
    /\ outcome = [p \in Publishers |-> [n \in Names |-> "none"]]
    /\ hit = [p \in Publishers |-> {}]
    /\ listing = [r \in Readers |-> None]
    /\ used = {} /\ runs = 0 /\ ingests = 0 /\ faults = 0

-------------------------------------------------------------------------------
Cur(p) == Head(queue[p])

\* Mutant: the parquet object has no date in its key.
UndatedObjectKey(d) == CHOOSE e \in Dates : TRUE

\* parquet_object_key: one object for each snapshot date.
ObjectKey(d) == d

Manifest(p) == [date |-> date[p], sha256 |-> frame[p]]

Fault == faults < MaxFaults /\ faults' = faults + 1

\* The loop of publish_datasets: note the outcome, take the next name.
NextName(p, status) ==
    /\ outcome' = [outcome EXCEPT ![p][Cur(p)] = status]
    /\ queue' = [queue EXCEPT ![p] = Tail(@)]
    /\ frame' = [frame EXCEPT ![p] = Empty]
    /\ pc' = [pc EXCEPT ![p] = IF Len(queue[p]) = 1 THEN "exit" ELSE "extract"]
    /\ UNCHANGED command

Goto(p, place) ==
    /\ pc' = [pc EXCEPT ![p] = place]
    /\ UNCHANGED <<command, queue, outcome>>

Hit(p) == hit' = [hit EXCEPT ![p] = @ \cup {Cur(p)}]

\* Mutant: the exception handler notes the dataset as published.
FailAsPublished(p) == Hit(p) /\ NextName(p, "published")

\* Any exception of one dataset: it is noted as failed, the loop goes on.
Fail(p) == Hit(p) /\ NextName(p, "failed")

-------------------------------------------------------------------------------
\* A command starts with a new session.
Dispatch(p, d, isDry, request) ==
    /\ pc[p] = "idle"
    /\ FreshDates => d \notin used
    /\ runs < MaxRuns /\ runs' = runs + 1
    /\ used' = used \cup {d}
    /\ date' = [date EXCEPT ![p] = d] /\ dry' = [dry EXCEPT ![p] = isDry]
    /\ queue' = [queue EXCEPT ![p] = request]
    /\ outcome' = [outcome EXCEPT ![p] = [n \in Names |-> "none"]]
    /\ hit' = [hit EXCEPT ![p] = {}] /\ aborted' = [aborted EXCEPT ![p] = FALSE]
    /\ pc' = [pc EXCEPT ![p] = "extract"]
    /\ UNCHANGED <<db, store, frame, listing, ingests, faults>>

\* EXTRACTORS[name](session): the rows committed at this moment.
Extract(p) ==
    /\ pc[p] = "extract" /\ ~aborted[p]
    /\ frame' = [frame EXCEPT ![p] = db[Cur(p)]]
    /\ Goto(p, "build")
    /\ UNCHANGED <<db, store, aborted, hit, listing, used, bounds>>

\* A SELECT raises; nothing rolls the session back.
ExtractError(p) ==
    /\ pc[p] = "extract" /\ ~aborted[p] /\ Fault
    /\ Fail(p)
    /\ aborted' = [aborted EXCEPT ![p] = TRUE]
    /\ UNCHANGED <<db, store, listing, used, runs, ingests>>

\* PostgreSQL refuses every SELECT of an aborted transaction.
ExtractRefused(p) ==
    /\ pc[p] = "extract" /\ aborted[p]
    /\ NextName(p, "failed")
    /\ UNCHANGED <<db, store, aborted, hit, listing, used, bounds>>

\* frame.height == 0: nothing is written, latest does not move.
SkipEmpty(p) ==
    /\ pc[p] = "build" /\ frame[p] = Empty
    /\ NextName(p, "skipped")
    /\ UNCHANGED <<db, store, aborted, hit, listing, used, bounds>>

\* validate_frame or assert_value_not_float raises.
InvalidFrame(p) ==
    /\ pc[p] = "build" /\ frame[p] # Empty /\ Fault
    /\ Fail(p)
    /\ UNCHANGED <<db, store, aborted, listing, used, runs, ingests>>

DryRun(p) ==
    /\ pc[p] = "build" /\ frame[p] # Empty /\ dry[p]
    /\ NextName(p, "dry_run")
    /\ UNCHANGED <<db, store, aborted, hit, listing, used, bounds>>

WriteParquet(p) ==
    /\ pc[p] = "build" /\ frame[p] # Empty /\ ~dry[p]
    /\ Goto(p, "store")
    /\ UNCHANGED <<db, store, frame, aborted, hit, listing, used, bounds>>

PutObject(p, bytes) ==
    /\ pc[p] = "store"
    /\ object' = [object EXCEPT ![Cur(p)][ObjectKey(date[p])] = bytes]
    /\ UNCHANGED <<versioned, latest>>

PutVersioned(p) ==
    /\ pc[p] = "versioned"
    /\ versioned' = [versioned EXCEPT ![Cur(p)][date[p]] = Manifest(p)]
    /\ UNCHANGED <<object, latest>>

PutLatest(p) ==
    /\ pc[p] = "latest"
    /\ latest' = [latest EXCEPT ![Cur(p)] = Manifest(p)]
    /\ UNCHANGED <<object, versioned>>

StoreObject(p) ==
    /\ PutObject(p, frame[p])
    /\ Goto(p, "check")
    /\ UNCHANGED <<db, frame, aborted, hit, listing, used, bounds>>

\* The store kept other bytes than it was given.
StoreCorrupts(p) ==
    /\ PutObject(p, Corrupt) /\ Fault
    /\ Goto(p, "check")
    /\ UNCHANGED <<db, frame, aborted, hit, listing, used, runs, ingests>>

\* Mutant: the digest of the stored object is not compared.
CheckNothing(p) ==
    /\ pc[p] = "check"
    /\ Goto(p, "versioned") /\ UNCHANGED <<frame, hit>>
    /\ UNCHANGED <<db, store, aborted, listing, used, bounds>>

\* retrieve and compare; DatasetPublishError when the digests differ.
CheckStored(p) ==
    /\ pc[p] = "check"
    /\ IF object[Cur(p)][ObjectKey(date[p])] = frame[p]
         THEN Goto(p, "versioned") /\ UNCHANGED <<frame, hit>>
         ELSE Fail(p)
    /\ UNCHANGED <<db, store, aborted, listing, used, bounds>>

StoreVersioned(p) ==
    /\ PutVersioned(p)
    /\ Goto(p, "latest")
    /\ UNCHANGED <<db, frame, aborted, hit, listing, used, bounds>>

StoreLatest(p) ==
    /\ PutLatest(p)
    /\ NextName(p, "published")
    /\ UNCHANGED <<db, aborted, hit, listing, used, bounds>>

\* A put or a get raises; a put may have been applied all the same.
StoreError(p) ==
    /\ \/ PutObject(p, frame[p]) \/ PutVersioned(p) \/ PutLatest(p)
       \/ pc[p] \in {"store", "check", "versioned", "latest"} /\ UNCHANGED store
    /\ Fault
    /\ Fail(p)
    /\ UNCHANGED <<db, aborted, listing, used, runs, ingests>>

\* Mutant: an ended command leaves a frame of another kind.
EndWithoutName(p) ==
    /\ pc' = [pc EXCEPT ![p] = "idle"]
    /\ queue' = [queue EXCEPT ![p] = <<>>] /\ frame' = [frame EXCEPT ![p] = None]
    /\ aborted' = [aborted EXCEPT ![p] = FALSE]
    /\ UNCHANGED <<db, store, command, listing, used, runs, ingests>>

EndCommand(p) ==
    /\ pc' = [pc EXCEPT ![p] = "idle"]
    /\ queue' = [queue EXCEPT ![p] = <<>>] /\ frame' = [frame EXCEPT ![p] = Empty]
    /\ aborted' = [aborted EXCEPT ![p] = FALSE]
    /\ UNCHANGED <<db, store, command, listing, used, runs, ingests>>

\* The summary is printed and the session closed; exit code 1 if any failed.
Exit(p) == pc[p] = "exit" /\ EndCommand(p) /\ UNCHANGED <<outcome, hit, faults>>

\* The process or its runner dies: no outcome is reported.
Crash(p) ==
    /\ pc[p] \notin {"idle", "exit"} /\ Fault
    /\ EndCommand(p)
    /\ outcome' = [outcome EXCEPT ![p] = [n \in Names |-> "none"]]
    /\ hit' = [hit EXCEPT ![p] = {}]

-------------------------------------------------------------------------------
\* Ingestion commits new rows, or an operator changes a source's policy.
Ingest(n, f) ==
    /\ ingests < MaxIngests /\ ingests' = ingests + 1
    /\ f # db[n] /\ db' = [db EXCEPT ![n] = f]
    /\ UNCHANGED <<store, publisher, listing, used, runs, faults>>

\* GET /v1/datasets/{name}: 404 without a latest manifest or with a blocked source.
LoadLatest(r, n) ==
    /\ listing' = [listing EXCEPT ![r] =
                     IF latest[n] = None \/ latest[n].sha256 \in Blocked
                       THEN None ELSE <<n, latest[n]>>]
    /\ UNCHANGED <<db, store, publisher, used, bounds>>

PublisherStep(p) ==
    \/ Extract(p) \/ ExtractRefused(p) \/ SkipEmpty(p) \/ DryRun(p) \/ WriteParquet(p)
    \/ StoreObject(p) \/ CheckStored(p) \/ StoreVersioned(p) \/ StoreLatest(p) \/ Exit(p)

Disturb(p) ==
    ExtractError(p) \/ InvalidFrame(p) \/ StoreCorrupts(p) \/ StoreError(p) \/ Crash(p)

Next ==
    \/ \E p \in Publishers, d \in Dates, isDry \in BOOLEAN, q \in Requests : Dispatch(p, d, isDry, q)
    \/ \E p \in Publishers : PublisherStep(p) \/ Disturb(p)
    \/ \E n \in Names, f \in Frames \cup {Empty} : Ingest(n, f)
    \/ \E r \in Readers, n \in Names : LoadLatest(r, n)

Spec == Init /\ [][Next]_vars

-------------------------------------------------------------------------------
(* Properties *)

Verifies(n, manifest) == object[n][ObjectKey(manifest.date)] = manifest.sha256

\* The latest manifest always describes a complete version: its parquet object
\* has its digest and the dated manifest of that version says the same,
\* whatever publishers crash, fail or run side by side.
LatestIsComplete ==
    \A n \in Names : latest[n] # None =>
      Verifies(n, latest[n]) /\ versioned[n][latest[n].date] = latest[n]

\* A client that got a listing can download and verify its object at any later
\* time, while newer versions are published.
ListingsStayDownloadable ==
    \A r \in Readers : listing[r] # None => Verifies(listing[r][1], listing[r][2])

\* A dataset reported as published keeps a complete version under its date.
PublishedMeansComplete ==
    \A p \in Publishers, n \in Names : outcome[p][n] = "published" =>
      /\ versioned[n][date[p]] # None
      /\ Verifies(n, versioned[n][date[p]])

\* docs/DATASETS.md: a quotes failure does not block rates. A dataset fails
\* only for an error of its own.
FailuresAreOwn ==
    \A p \in Publishers, n \in Names : outcome[p][n] = "failed" => n \in hit[p]
===============================================================================
