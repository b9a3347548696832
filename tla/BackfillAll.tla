------------------------------ MODULE BackfillAll ------------------------------
(***************************************************************************)
(* `marketdata backfill all` without its B3 job, which BackfillB3 models:  *)
(* the Tesouro, BCB, CVM and Yahoo loaders of ingestion/ (backfill_...)    *)
(* run one after the other on one database session (cli/main.py,           *)
(* _run_jobs); a single `backfill <provider>` is a job of one loader.      *)
(*                                                                         *)
(* A loader walks its chunks in order: SGS windows of ten years (BCB),     *)
(* months (CVM), symbols (Yahoo), or the whole range at once (Tesouro).    *)
(* The rows of a chunk come in parts: flush batches, CSV rows, series.     *)
(* They differ in when they commit and when they write the checkpoint:     *)
(*   Tesouro  commits batches, then the run row, then "succeeded"          *)
(*   BCB      commits a chunk at a time, the run row before "succeeded"    *)
(*   CVM      commits batches and chunks, the run row after "succeeded"    *)
(*   Yahoo    commits a chunk at a time, the run row after "succeeded"     *)
(* Only BCB and CVM resume from a token; none of them asks the database.   *)
(***************************************************************************)
EXTENDS Checkpoint, Sequences, FiniteSets

CONSTANTS Ranges,     \* the --start/--end pairs an operator dispatches
          Chunks,     \* Chunks[l]: how many chunks loader l makes of a range
          Parts,      \* parts a chunk's rows come in
          Missing,    \* rows the source has no usable value for
          Commands,   \* sequences of loaders a command runs
          MaxFaults   \* bound: errors, kills and lost checkpoints

Order == <<"tesouro", "bcb", "cvm", "yahoo">>
Loaders == {Order[i] : i \in 1..Len(Order)}
Batching == {"tesouro", "cvm"}
Resuming == {"bcb", "cvm"}

ASSUME ChunksAssumption == Chunks \in [Loaders -> Nat \ {0}] /\ Chunks["tesouro"] = 1
ASSUME PartsAssumption == Parts # {}
ASSUME FaultsAssumption == MaxFaults \in Nat

Tokens == UNION {1..Chunks[l] : l \in Loaders}
Files == CheckpointRecords(Ranges, Tokens)
ASSUME NoFileAssumption == NoCheckpoint \notin Files

Rows == [loader: Loaders, range: Ranges, chunk: Tokens, part: Parts]
RowsOf(p, r, c) == [loader: {p}, range: {r}, chunk: {c}, part: Parts]
ASSUME MissingAssumption == Missing \subseteq Rows
ASSUME CommandsAssumption == Commands # {} /\ Commands \subseteq {Order} \cup {<<p>> : p \in Loaders}
ASSUME RangesAssumption == Ranges # {}

VARIABLES
    stored,     \* committed rows
    dropped,    \* rows with no usable value, or lost to a parse error
    lost,       \* rows a chunk's COMMIT raised on and none has stored since
    succeeded,  \* <<loader, range>> with a committed SUCCEEDED ingestion_runs row
    file,       \* file[p]: state/backfill/<p>.json
    opts,       \* the command: loaders, range, resume, cap (--max-months)
    queue,      \* loaders still to run; the first is the current one
    pc,         \* where the current loader stands
    last,       \* its last_completed
    at,         \* chunk its loop is at
    todo,       \* parts of that chunk still to persist
    processed,  \* chunks finished by this call
    pending,    \* uncommitted rows of the session
    failed,     \* labels _run_jobs reports
    faults      \* counter behind MaxFaults

db == <<stored, dropped, lost, succeeded>>
loop == <<last, at, todo, processed>>
vars == <<db, file, opts, queue, pc, loop, pending, failed, faults>>

Cur == Head(queue)
CurRows(c, parts) == {[loader |-> Cur, range |-> opts.range, chunk |-> c, part |-> p] : p \in parts}

NoCap == 0
Options == [loaders: Commands, range: Ranges, resume: BOOLEAN, cap: {NoCap, 1}]
NoCommand == CHOOSE o \in Options : TRUE
Places == {"idle", "begin", "next", "persist", "commit", "save", "finish", "report",
           "done", "failed", "exit"}

TypeOK ==
    /\ stored \subseteq Rows /\ dropped \subseteq Rows /\ lost \subseteq Rows /\ pending \subseteq Rows
    /\ succeeded \subseteq Loaders \X Ranges
    /\ file \in [Loaders -> Files \cup {NoCheckpoint}]
    /\ opts \in Options /\ queue \in Seq(Loaders) /\ pc \in Places
    /\ last \in Tokens \cup {NoToken} /\ at \in Nat /\ processed \in Nat
    /\ todo \subseteq Parts
    /\ failed \subseteq Loaders /\ faults \in 0..MaxFaults

Init ==
    /\ stored = {} /\ dropped = {} /\ lost = {} /\ succeeded = {}
    /\ file = [p \in Loaders |-> NoCheckpoint]
    /\ opts = NoCommand /\ queue = <<>> /\ pc = "idle"
    /\ last = NoToken /\ at = 0 /\ todo = {} /\ processed = 0
    /\ pending = {} /\ failed = {} /\ faults = 0

Save(token, status) ==
    file' = [file EXCEPT ![Cur] = [range |-> opts.range, last |-> token, status |-> status]]

Fault == faults < MaxFaults /\ faults' = faults + 1

-------------------------------------------------------------------------------
\* A command starts; its runner may have lost the checkpoint files.
Dispatch(o) ==
    /\ pc = "idle"
    /\ \/ UNCHANGED <<file, faults>>
       \/ Fault /\ file' = [p \in Loaders |-> NoCheckpoint]
    /\ opts' = o /\ queue' = o.loaders /\ failed' = {}
    /\ pc' = "begin"
    /\ UNCHANGED <<db, loop, pending>>

StartLoop(token) ==
    /\ last' = token /\ at' = token + 1 /\ todo' = {} /\ processed' = 0
    /\ UNCHANGED <<db, opts, queue, pending, failed, faults>>

\* backfill_bcb, backfill_cvm: resume from the checkpoint, never the database.
BeginResuming ==
    /\ pc = "begin" /\ Cur \in Resuming
    /\ LET token == EffectiveLastCompleted(file[Cur], opts.range, NoToken, opts.resume)
       IN  StartLoop(token) /\ Save(token, "running")
    /\ pc' = "next"

\* backfill_yahoo ignores every earlier checkpoint.
BeginYahoo ==
    /\ pc = "begin" /\ Cur = "yahoo"
    /\ StartLoop(NoToken) /\ Save(NoToken, "running")
    /\ pc' = "next"

\* backfill_tesouro returns at once when its range is checkpointed "succeeded".
BeginTesouro ==
    /\ pc = "begin" /\ Cur = "tesouro"
    /\ StartLoop(NoToken)
    /\ LET done == ShouldResume(file[Cur], opts.range, opts.resume)
                    /\ file[Cur].status = "succeeded"
       IN  pc' = IF done THEN "done" ELSE "next"
    /\ UNCHANGED file

-------------------------------------------------------------------------------
\* --max-months reached with months left: the CVM loop breaks.
Truncated == Cur = "cvm" /\ opts.cap # NoCap /\ processed >= opts.cap /\ at <= Chunks[Cur]

FetchChunk ==
    /\ pc = "next" /\ at <= Chunks[Cur] /\ ~Truncated
    /\ todo' = Parts
    /\ pc' = "persist"
    /\ UNCHANGED <<db, file, opts, queue, last, at, processed, pending, failed, faults>>

\* CvmParseError before any row, or a symbol without history: an empty chunk.
EmptyChunk ==
    /\ pc = "next" /\ at <= Chunks[Cur] /\ ~Truncated
    /\ Cur \in {"cvm", "yahoo"}
    /\ dropped' = dropped \cup (CurRows(at, Parts) \ stored)
    /\ pc' = "commit"
    /\ UNCHANGED <<stored, lost, succeeded, file, opts, queue, loop, pending, failed, faults>>

PersistPart(part) ==
    /\ pc = "persist" /\ part \in todo /\ CurRows(at, {part}) \cap Missing = {}
    /\ pending' = pending \cup (CurRows(at, {part}) \ stored)
    /\ todo' = todo \ {part}
    /\ UNCHANGED <<db, file, opts, queue, pc, last, at, processed, failed, faults>>

\* An SGS series without values in this window, or a rejected CVM row.
DropPart(part) ==
    /\ pc = "persist" /\ part \in todo /\ CurRows(at, {part}) \subseteq Missing
    /\ dropped' = dropped \cup CurRows(at, {part})
    /\ todo' = todo \ {part}
    /\ UNCHANGED <<stored, lost, succeeded, file, opts, queue, pc, last, at, processed,
                   pending, failed, faults>>

\* Mutant: every loader commits where it flushes.
FlushCommits ==
    /\ pc = "persist" /\ pending # {}
    /\ stored' = stored \cup pending /\ pending' = {}
    /\ UNCHANGED <<dropped, lost, succeeded, file, opts, queue, pc, loop, failed, faults>>

\* _flush_pending of the Tesouro and CVM loaders: flush and COMMIT.
FlushBatch ==
    /\ pc = "persist" /\ Cur \in Batching /\ pending # {}
    /\ stored' = stored \cup pending /\ pending' = {}
    /\ UNCHANGED <<dropped, lost, succeeded, file, opts, queue, pc, loop, failed, faults>>

\* CvmParseError in the middle of a CSV: the unflushed rows go with the rest.
ParseFails ==
    /\ pc = "persist" /\ Cur = "cvm" /\ todo # {}
    /\ dropped' = dropped \cup pending \cup (CurRows(at, todo) \ stored)
    /\ pending' = {} /\ todo' = {}
    /\ pc' = "commit"
    /\ UNCHANGED <<stored, lost, succeeded, file, opts, queue, last, at, processed, failed, faults>>

\* Every part persisted; a batching loader has flushed its last batch.
ChunkPersisted ==
    /\ pc = "persist" /\ todo = {}
    /\ Cur \in Batching => pending = {}
    /\ pc' = IF Cur = "tesouro" THEN "finish" ELSE "commit"
    /\ UNCHANGED <<db, file, opts, queue, loop, pending, failed, faults>>

\* Mutant: the token moves, the COMMIT waits for the end of the loop.
TokenWithoutCommit ==
    /\ pc = "commit"
    /\ last' = at /\ processed' = processed + 1
    /\ pc' = "save"
    /\ UNCHANGED <<db, file, opts, queue, at, todo, pending, failed, faults>>

\* last_completed = token; session.commit().
CommitChunk ==
    /\ pc = "commit"
    /\ stored' = stored \cup pending /\ lost' = lost \ pending /\ pending' = {}
    /\ last' = at /\ processed' = processed + 1
    /\ pc' = "save"
    /\ UNCHANGED <<dropped, succeeded, file, opts, queue, at, todo, failed, faults>>

\* The checkpoint says "running" with the new token.
SaveChunk ==
    /\ pc = "save"
    /\ Save(last, "running")
    /\ at' = at + 1
    /\ pc' = "next"
    /\ UNCHANGED <<db, opts, queue, last, todo, processed, pending, failed, faults>>

\* Mutant: a truncated loop is checkpointed as succeeded.
LoopDoneSucceeded ==
    /\ pc = "next" /\ (at > Chunks[Cur] \/ Truncated)
    /\ IF Cur \in {"cvm", "yahoo"} THEN Save(last, "succeeded") ELSE UNCHANGED file
    /\ pc' = "finish"
    /\ UNCHANGED <<db, opts, queue, loop, pending, failed, faults>>

\* CVM and Yahoo: the final checkpoint first ...
LoopDone ==
    /\ pc = "next" /\ (at > Chunks[Cur] \/ Truncated)
    /\ IF Cur \in {"cvm", "yahoo"}
         THEN Save(last, IF Truncated THEN "running" ELSE "succeeded")
         ELSE UNCHANGED file
    /\ pc' = "finish"
    /\ UNCHANGED <<db, opts, queue, loop, pending, failed, faults>>

\* ... then the run row: PARTIAL when truncated, else SUCCEEDED; COMMIT.
CommitRun ==
    /\ pc = "finish"
    /\ succeeded' = succeeded \cup (IF Truncated THEN {} ELSE {<<Cur, opts.range>>})
    /\ stored' = stored \cup pending /\ pending' = {}
    /\ pc' = IF Cur \in {"tesouro", "bcb"} THEN "report" ELSE "done"
    /\ UNCHANGED <<dropped, lost, file, opts, queue, loop, failed, faults>>

\* Mutant: the final token is the loop variable.
SaveSucceededPastEnd ==
    /\ pc = "report"
    /\ Save(at, "succeeded")
    /\ pc' = "done"
    /\ UNCHANGED <<db, opts, queue, loop, pending, failed, faults>>

\* Tesouro and BCB: the final checkpoint after that COMMIT.
SaveSucceeded ==
    /\ pc = "report"
    /\ Save(Chunks[Cur], "succeeded")
    /\ pc' = "done"
    /\ UNCHANGED <<db, opts, queue, loop, pending, failed, faults>>

-------------------------------------------------------------------------------
\* A download, a query, a flush, the final COMMIT or an object-store call raised
\* (the COMMIT of a chunk: CommitError).
HardError ==
    /\ pc \in {"begin", "next", "persist", "save", "finish", "report"}
    /\ Fault
    /\ pc' = "failed"
    /\ UNCHANGED <<db, file, opts, queue, loop, pending, failed>>

\* The COMMIT of a chunk raises after last_completed moved (the handler of each
\* loader will save that token); what the session held is lost.
CommitError ==
    /\ pc = "commit"
    /\ Fault
    /\ last' = at
    /\ lost' = lost \cup pending
    /\ pc' = "failed"
    /\ UNCHANGED <<stored, dropped, succeeded, file, opts, queue, at, todo, processed, pending, failed>>

NextLoader ==
    /\ queue' = Tail(queue)
    /\ pc' = IF Len(queue) = 1 THEN "exit" ELSE "begin"
    /\ last' = NoToken /\ at' = 0 /\ todo' = {} /\ processed' = 0

\* Mutants: no rollback before the next loader; the failure is not reported.
KeepSessionAfterFailure ==
    /\ pc = "failed"
    /\ \/ Cur # "tesouro" /\ Save(last, "failed")
       \/ UNCHANGED file
    /\ failed' = failed \cup {Cur}
    /\ NextLoader
    /\ UNCHANGED <<db, opts, pending, faults>>

SwallowFailure ==
    /\ pc = "failed"
    /\ \/ Cur # "tesouro" /\ Save(last, "failed")
       \/ UNCHANGED file
    /\ pending' = {}
    /\ NextLoader
    /\ UNCHANGED <<db, opts, failed, faults>>

\* The loader's handler saves "failed" (Tesouro has none, a save may raise);
\* _run_jobs rolls the session back and goes on with the next loader.
HandleFailure ==
    /\ pc = "failed"
    /\ \/ Cur # "tesouro" /\ Save(last, "failed")
       \/ UNCHANGED file
    /\ pending' = {} /\ failed' = failed \cup {Cur}
    /\ NextLoader
    /\ UNCHANGED <<db, opts, faults>>

\* The loader returned: _run_jobs commits.
JobDone ==
    /\ pc = "done"
    /\ stored' = stored \cup pending /\ pending' = {}
    /\ NextLoader
    /\ UNCHANGED <<dropped, lost, succeeded, file, opts, failed, faults>>

Idle ==
    /\ pc' = "idle" /\ queue' = <<>> /\ opts' = NoCommand
    /\ last' = NoToken /\ at' = 0 /\ todo' = {} /\ processed' = 0
    /\ pending' = {} /\ failed' = {}
    /\ UNCHANGED <<db, file>>

Exit == pc = "exit" /\ Idle /\ UNCHANGED faults

\* The process or its runner dies: the open transaction is rolled back.
Crash == pc \notin {"idle", "exit"} /\ Fault /\ Idle

JobStep ==
    \/ BeginResuming \/ BeginYahoo \/ BeginTesouro
    \/ FetchChunk \/ EmptyChunk \/ FlushBatch \/ ParseFails \/ ChunkPersisted
    \/ \E part \in Parts : PersistPart(part) \/ DropPart(part)
    \/ CommitChunk \/ SaveChunk \/ LoopDone \/ CommitRun \/ SaveSucceeded
    \/ HandleFailure \/ JobDone \/ Exit

Next == \/ \E o \in Options : Dispatch(o)
        \/ JobStep
        \/ HardError \/ CommitError \/ Crash

Spec == Init /\ [][Next]_vars

-------------------------------------------------------------------------------
(* Properties *)

Settled == stored \cup dropped

\* BCB resumes past a chunk whose COMMIT raised. CVM had flushed its batches in
\* COMMITs of their own, Tesouro and Yahoo start over: they lose no row for good.
RowsLost == {row \in lost : row.loader = "bcb"}

\* The token a BCB or CVM job resumes from covers only chunks whose rows are
\* all committed, or have no usable value, or belong to a BCB window whose own
\* COMMIT raised: nothing else is skipped unseen.
ResumeSkipsOnlySettled ==
    \A p \in Resuming, r \in Ranges :
      \A c \in 1..EffectiveLastCompleted(file[p], r, NoToken, TRUE) :
         RowsOf(p, r, c) \subseteq Settled \cup RowsLost

\* The (loader, range) pairs a run row or a checkpoint calls succeeded.
Reported ==
    {job \in Loaders \X Ranges :
       \/ job \in succeeded
       \/ /\ file[job[1]] # NoCheckpoint
          /\ file[job[1]].range = job[2] /\ file[job[1]].status = "succeeded"}

RowsOfRange(p, r) == UNION {RowsOf(p, r, c) : c \in 1..Chunks[p]}

\* The loaders are resumable loads, whatever their order of COMMIT, run row and
\* checkpoint: settled rows stay settled, and a SUCCEEDED run row or a "succeeded"
\* checkpoint appears only once every row of the range is settled, or lost to the
\* COMMIT of a BCB window.
Load == INSTANCE ResumableLoad
          WITH Units <- Rows, Ranges <- Loaders \X Ranges,
               UnitsOf <- [job \in Loaders \X Ranges |-> RowsOfRange(job[1], job[2])],
               finished <- Settled, lost <- RowsLost, reported <- Reported
LoadersImplementLoad == Load!Spec

\* `backfill all` that exits 0 without a cap leaves a SUCCEEDED run row for
\* every one of its loaders, those that returned early included.
ExitZeroMeansSucceeded ==
    pc = "exit" /\ failed = {} /\ opts.cap = NoCap =>
      \A i \in 1..Len(opts.loaders) : <<opts.loaders[i], opts.range>> \in succeeded

\* The session is shared: what a failed loader left in it never rides on a
\* later loader's COMMIT.
SessionHoldsOwnRows == \A row \in pending : row.loader = Cur /\ row.range = opts.range

\* No COMMIT before its chunk is complete, except in the batching loaders.
ChunksAreAtomic ==
    [][\A row \in stored' \ stored : row.loader \notin Batching =>
         RowsOf(row.loader, row.range, row.chunk) \subseteq Settled']_vars
===============================================================================
