--------------------------- MODULE BackfillAllProofs ---------------------------
(***************************************************************************)
(* Proofs about `backfill all`: for any ranges, chunks, parts, rows without *)
(* a value, commands and number of faults, tokens, checkpoints, run rows    *)
(* and exit code claim only what was committed or dropped, or what a COMMIT *)
(* of a BCB window raised on.                                               *)
(***************************************************************************)
EXTENDS BackfillAll, SequenceTheorems, TLAPS

LEMMA LoaderFacts == Loaders = {"tesouro", "bcb", "cvm", "yahoo"} /\ Order \in Seq(Loaders) /\ Order # <<>>
BY DEF Loaders, Order

\* Every command is a non-empty list of loaders.
LEMMA CommandFacts == ASSUME NEW q \in Commands PROVE q \in Seq(Loaders) /\ q # <<>>
<1>1. CASE q = Order
  BY <1>1, LoaderFacts
<1>2. ASSUME NEW p \in Loaders, q = <<p>> PROVE q \in Seq(Loaders) /\ q # <<>>
  BY <1>2
<1> QED BY <1>1, <1>2, CommandsAssumption

LEMMA ChunkFacts ==
    ASSUME NEW p \in Loaders
    PROVE  Chunks[p] \in Nat \ {0} /\ 1..Chunks[p] \subseteq Tokens
BY ChunksAssumption DEF Tokens

LEMMA TokenNumbers == Tokens \cup {NoToken} \subseteq Nat
BY ChunksAssumption DEF Tokens, NoToken

\* The rows of a chunk are those of its parts.
LEMMA RowFacts ==
    ASSUME NEW p \in Loaders, NEW r \in Ranges, NEW c \in Tokens
    PROVE  /\ RowsOf(p, r, c) = {[loader |-> p, range |-> r, chunk |-> c, part |-> k] : k \in Parts}
           /\ RowsOf(p, r, c) \subseteq Rows
<1>1. \A row \in RowsOf(p, r, c) :
         /\ row = [loader |-> p, range |-> r, chunk |-> c, part |-> row.part]
         /\ row.part \in Parts
  BY DEF RowsOf
<1>2. \A k \in Parts : [loader |-> p, range |-> r, chunk |-> c, part |-> k] \in RowsOf(p, r, c)
  BY DEF RowsOf
<1>3. \A k \in Parts : [loader |-> p, range |-> r, chunk |-> c, part |-> k] \in Rows
  BY DEF Rows
<1>4. RowsOf(p, r, c) \subseteq {[loader |-> p, range |-> r, chunk |-> c, part |-> k] : k \in Parts}
  BY <1>1
<1>5. {[loader |-> p, range |-> r, chunk |-> c, part |-> k] : k \in Parts} \subseteq RowsOf(p, r, c)
  BY <1>2
<1>6. RowsOf(p, r, c) \subseteq Rows
  BY <1>3, <1>4
<1> QED BY <1>4, <1>5, <1>6

\* The rest of a queue, and its length.
LEMMA RestOfQueue ==
    ASSUME NEW q \in Seq(Loaders), q # <<>>
    PROVE  /\ Head(q) \in Loaders /\ Tail(q) \in Seq(Loaders)
           /\ Len(q) \in Nat \ {0} /\ Len(Tail(q)) = Len(q) - 1
           /\ (Len(q) = 1) <=> (Tail(q) = <<>>)
           /\ Head(q) = q[1] /\ \A i \in 1..(Len(q) - 1) : Tail(q)[i] = q[i + 1]
<1>1. /\ Head(q) \in Loaders /\ Tail(q) \in Seq(Loaders) /\ Len(Tail(q)) = Len(q) - 1
      /\ \A i \in 1..Len(Tail(q)) : Tail(q)[i] = q[i + 1]
  BY HeadTailProperties
<1>2. Len(q) \in Nat \ {0} /\ Head(q) = q[1]
  BY EmptySeq
<1>3. \A t \in Seq(Loaders) : t = <<>> <=> Len(t) = 0
  BY EmptySeq
<1>4. (Tail(q) = <<>>) <=> (Len(Tail(q)) = 0)
  BY <1>1, <1>3
<1> DEFINE l == Len(Tail(q))  k == Len(q)
<1>5. l = k - 1 /\ k \in Nat \ {0}
  BY <1>1, <1>2
<1>6. (l = 0) <=> (k = 1)
  <2> HIDE DEF l, k
  <2> QED BY <1>5
<1> QED BY <1>1, <1>2, <1>4, <1>6

-------------------------------------------------------------------------------
\* A running command has a current loader; a chunk being loaded is one of its.
Running ==
    /\ pc \notin {"idle", "exit"} => queue # <<>>
    /\ pc = "next" => at # 0
    /\ pc \in {"persist", "commit", "save"} => at \in 1..Chunks[Cur]

TypeInv == TypeOK /\ Running

LEMMA CurFacts ==
    ASSUME TypeInv, pc \notin {"idle", "exit"}
    PROVE  /\ queue # <<>> /\ Cur \in Loaders /\ Tail(queue) \in Seq(Loaders)
           /\ Len(queue) # 1 => Tail(queue) # <<>>
           /\ opts.range \in Ranges /\ opts.cap \in {NoCap, 1} /\ opts.resume \in BOOLEAN
           /\ Chunks[Cur] \in Nat \ {0} /\ 1..Chunks[Cur] \subseteq Tokens
<1>1. queue \in Seq(Loaders) /\ queue # <<>>
  BY DEF TypeInv, TypeOK, Running
<1>2. Cur \in Loaders /\ Tail(queue) \in Seq(Loaders) /\ (Len(queue) # 1 => Tail(queue) # <<>>)
  BY <1>1, RestOfQueue DEF Cur
<1>4. opts.range \in Ranges /\ opts.cap \in {NoCap, 1} /\ opts.resume \in BOOLEAN
  BY DEF TypeInv, TypeOK, Options
<1> QED BY <1>1, <1>2, <1>4, ChunkFacts

LEMMA PartRows ==
    ASSUME TypeInv, pc \notin {"idle", "exit"}, NEW c \in Tokens, NEW parts \in SUBSET Parts
    PROVE  CurRows(c, parts) \subseteq Rows
BY CurFacts DEF CurRows, Rows

LEMMA SaveType ==
    ASSUME TypeInv, pc \notin {"idle", "exit"}, NEW token \in Tokens \cup {NoToken},
           NEW status \in Statuses, Save(token, status)
    PROVE  file' \in [Loaders -> Files \cup {NoCheckpoint}]
<1>1. [range |-> opts.range, last |-> token, status |-> status] \in Files
  BY CurFacts DEF Files, CheckpointRecords
<1> QED BY <1>1 DEF Save, TypeInv, TypeOK

\* The token a resumed loader starts from.
LEMMA TokenFacts ==
    ASSUME NEW c \in Files \cup {NoCheckpoint}, NEW r, NEW res \in BOOLEAN
    PROVE  LET token == EffectiveLastCompleted(c, r, NoToken, res)
           IN  /\ token \in Tokens \cup {NoToken}
               /\ token # NoToken => c # NoCheckpoint /\ c.range = r /\ token = c.last
<1>1. c # NoCheckpoint => c.last \in Tokens \cup {NoToken}
  BY DEF Files, CheckpointRecords
<1> QED BY <1>1 DEF EffectiveLastCompleted, LaterToken, ShouldResume

LEMMA FaultType == ASSUME TypeOK, Fault PROVE faults' \in 0..MaxFaults
BY FaultsAssumption DEF TypeOK, Fault

LEMMA NextLoaderType ==
    ASSUME TypeInv, pc \notin {"idle", "exit"}, NextLoader
    PROVE  /\ queue' \in Seq(Loaders) /\ pc' \in Places
           /\ last' \in Tokens \cup {NoToken} /\ at' \in Nat /\ todo' \subseteq Parts /\ processed' \in Nat
           /\ Running'
<1>1. Tail(queue) \in Seq(Loaders) /\ (Len(queue) # 1 => Tail(queue) # <<>>)
  BY CurFacts
<1> QED BY <1>1 DEF NextLoader, Running, Places

LEMMA IdleType == ASSUME TypeInv, Idle, faults' \in 0..MaxFaults PROVE TypeInv'
<1>1. NoCommand \in Options
  <2>1. Options # {}
    <3>1. PICK q \in Commands, r \in Ranges : TRUE
      BY CommandsAssumption, RangesAssumption
    <3>2. [loaders |-> q, range |-> r, resume |-> TRUE, cap |-> NoCap] \in Options
      BY DEF Options
    <3> QED BY <3>2
  <2> QED BY <2>1 DEF NoCommand
<1> QED BY <1>1 DEF Idle, TypeInv, TypeOK, Running, Places, db

\* Every step keeps the types.
LEMMA TypeStep == TypeInv /\ [Next]_vars => TypeInv'
<1> SUFFICES ASSUME TypeInv, [Next]_vars PROVE TypeInv'
  OBVIOUS
<1> USE DEF Places
<1>0. TypeOK /\ Running
  BY DEF TypeInv
<1>c. pc \notin {"idle", "exit"} =>
        /\ Cur \in Loaders /\ opts.range \in Ranges /\ opts.resume \in BOOLEAN
        /\ Chunks[Cur] \in Nat \ {0} /\ 1..Chunks[Cur] \subseteq Tokens
        /\ queue # <<>>
  BY CurFacts
<1>1. ASSUME NEW o \in Options, Dispatch(o) PROVE TypeInv'
  <2>1. o.loaders \in Seq(Loaders) /\ o.loaders # <<>>
    BY CommandFacts DEF Options
  <2>2. faults' \in 0..MaxFaults
    BY <1>0, <1>1, FaultType DEF Dispatch, TypeOK
  <2>3. file' \in [Loaders -> Files \cup {NoCheckpoint}]
    BY <1>0, <1>1 DEF Dispatch, TypeOK
  <2> QED BY <1>0, <1>1, <2>1, <2>2, <2>3 DEF Dispatch, TypeInv, TypeOK, Running, db, loop
<1>2. CASE BeginResuming \/ BeginYahoo
  <2>1. PICK token \in Tokens \cup {NoToken} : StartLoop(token) /\ Save(token, "running")
    <3>1. CASE BeginResuming
      <4>1. file[Cur] \in Files \cup {NoCheckpoint}
        BY <1>0, <1>c, <3>1 DEF BeginResuming, TypeOK
      <4> QED BY <1>c, <3>1, <4>1, TokenFacts DEF BeginResuming
    <3>2. CASE BeginYahoo
      BY <3>2 DEF BeginYahoo
    <3> QED BY <1>2, <3>1, <3>2
  <2>2. file' \in [Loaders -> Files \cup {NoCheckpoint}]
    BY <1>2, <2>1, SaveType DEF BeginResuming, BeginYahoo, Statuses
  <2>3. token + 1 \in Nat \ {0}
    BY TokenNumbers
  <2> QED BY <1>0, <1>c, <1>2, <2>1, <2>2, <2>3
          DEF BeginResuming, BeginYahoo, StartLoop, TypeInv, TypeOK, Running, db
<1>3. CASE BeginTesouro
  BY <1>0, <1>c, <1>3 DEF BeginTesouro, StartLoop, TypeInv, TypeOK, Running, NoToken, db
<1>4. CASE FetchChunk
  <2>1. at \in 1..Chunks[Cur]
    BY <1>0, <1>c, <1>4 DEF FetchChunk, TypeOK, Running
  <2> QED BY <1>0, <1>c, <1>4, <2>1 DEF FetchChunk, TypeInv, TypeOK, Running, db, Cur
<1>5. CASE EmptyChunk
  <2>1. at \in 1..Chunks[Cur]
    BY <1>0, <1>c, <1>5 DEF EmptyChunk, TypeOK, Running
  <2>2. CurRows(at, Parts) \subseteq Rows
    BY <1>c, <1>5, <2>1, PartRows DEF EmptyChunk
  <2> QED BY <1>0, <1>c, <1>5, <2>1, <2>2 DEF EmptyChunk, TypeInv, TypeOK, Running, loop, Cur
<1>6. ASSUME NEW part \in Parts, PersistPart(part) \/ DropPart(part) PROVE TypeInv'
  <2>1. CurRows(at, {part}) \subseteq Rows
    BY <1>0, <1>c, <1>6, PartRows DEF PersistPart, DropPart, Running
  <2>2. CASE PersistPart(part)
    BY <1>0, <1>c, <2>1, <2>2 DEF PersistPart, TypeInv, TypeOK, Running, db, Cur
  <2>3. CASE DropPart(part)
    BY <1>0, <1>c, <2>1, <2>3 DEF DropPart, TypeInv, TypeOK, Running, Cur
  <2> QED BY <1>6, <2>2, <2>3
<1>7. CASE FlushBatch
  BY <1>0, <1>c, <1>7 DEF FlushBatch, TypeInv, TypeOK, Running, loop, Cur
<1>8. CASE ParseFails
  <2>1. CurRows(at, todo) \subseteq Rows
    BY <1>0, <1>c, <1>8, PartRows DEF ParseFails, Running, TypeOK
  <2> QED BY <1>0, <1>c, <1>8, <2>1 DEF ParseFails, TypeInv, TypeOK, Running, Cur
<1>9. CASE ChunkPersisted
  BY <1>0, <1>c, <1>9 DEF ChunkPersisted, TypeInv, TypeOK, Running, db, loop, Cur
<1>10. CASE CommitChunk
  BY <1>0, <1>c, <1>10 DEF CommitChunk, TypeInv, TypeOK, Running, Cur
<1>11. CASE SaveChunk
  <2>1. file' \in [Loaders -> Files \cup {NoCheckpoint}]
    BY <1>0, <1>11, SaveType DEF SaveChunk, TypeOK, Statuses
  <2> QED BY <1>0, <1>c, <1>11, <2>1 DEF SaveChunk, TypeInv, TypeOK, Running, db, Cur
<1>12. CASE LoopDone
  <2>1. file' \in [Loaders -> Files \cup {NoCheckpoint}]
    BY <1>0, <1>12, SaveType DEF LoopDone, TypeOK, Statuses
  <2> QED BY <1>0, <1>c, <1>12, <2>1 DEF LoopDone, TypeInv, TypeOK, Running, db, loop, Cur
<1>13. CASE CommitRun
  BY <1>0, <1>c, <1>13 DEF CommitRun, TypeInv, TypeOK, Running, loop, Cur
<1>14. CASE SaveSucceeded
  <2>1. file' \in [Loaders -> Files \cup {NoCheckpoint}]
    BY <1>c, <1>14, SaveType DEF SaveSucceeded, Statuses
  <2> QED BY <1>0, <1>c, <1>14, <2>1 DEF SaveSucceeded, TypeInv, TypeOK, Running, db, loop, Cur
<1>15. CASE HardError
  BY <1>0, <1>c, <1>15, FaultType DEF HardError, TypeInv, TypeOK, Running, db, loop, Cur
<1>16. CASE CommitError
  BY <1>0, <1>c, <1>16, FaultType DEF CommitError, TypeInv, TypeOK, Running, db, Cur
<1>17. CASE HandleFailure
  <2>1. file' \in [Loaders -> Files \cup {NoCheckpoint}]
    BY <1>0, <1>17, SaveType DEF HandleFailure, TypeOK, Statuses
  <2> QED BY <1>0, <1>c, <1>17, <2>1, NextLoaderType DEF HandleFailure, TypeInv, TypeOK, db
<1>18. CASE JobDone
  BY <1>0, <1>c, <1>18, NextLoaderType DEF JobDone, TypeInv, TypeOK
<1>19. CASE Exit \/ Crash
  BY <1>0, <1>19, FaultType, IdleType DEF Exit, Crash, TypeOK
<1>20. CASE UNCHANGED vars
  BY <1>0, <1>20 DEF vars, db, loop, TypeInv, TypeOK, Running, Cur
<1> QED BY <1>1, <1>2, <1>3, <1>4, <1>5, <1>6, <1>7, <1>8, <1>9, <1>10, <1>11, <1>12, <1>13,
           <1>14, <1>15, <1>16, <1>17, <1>18, <1>19, <1>20 DEF Next, JobStep

-------------------------------------------------------------------------------
(* What tokens, checkpoints and run rows claim *)

\* The first k chunks of a range are settled, or lost to a COMMIT.
Accounted == Settled \cup RowsLost
Done(p, r, k) == \A c \in 1..k : RowsOf(p, r, c) \subseteq Accounted

ClaimOK(p, c) ==
    /\ p \in Resuming => Done(p, c.range, c.last)
    /\ c.status = "succeeded" => Done(p, c.range, Chunks[p])
    /\ p = "tesouro" /\ c.status = "succeeded" => <<p, c.range>> \in succeeded

StoresOK ==
    /\ \A p \in Loaders : file[p] # NoCheckpoint => ClaimOK(p, file[p])
    /\ \A p \in Loaders, r \in Ranges : <<p, r>> \in succeeded => Done(p, r, Chunks[p])

\* The session holds rows of the current chunk only, and none where a COMMIT
\* would take them along.
SessionOK ==
    /\ pc \notin {"persist", "commit", "failed"} => pending = {}
    /\ pc \in {"persist", "commit", "failed"} => pending \subseteq CurRows(at, Parts)
    /\ pc \in {"idle", "begin"} => last = NoToken
    /\ pc = "persist" => CurRows(at, Parts \ todo) \subseteq Settled \cup pending
    /\ pc = "commit" => /\ CurRows(at, Parts) \subseteq Settled \cup pending
                        /\ Cur \in Batching => pending = {}

\* What the current loader has behind it at each point.
LoaderOK ==
    pc \notin {"idle", "exit"} =>
      /\ Cur \in Resuming => Done(Cur, opts.range, last)
      /\ pc \in {"next", "persist", "commit"} => Done(Cur, opts.range, at - 1)
      /\ pc = "save" => last = at /\ Done(Cur, opts.range, at)
      /\ pc = "finish" /\ ~Truncated => Done(Cur, opts.range, Chunks[Cur])
      /\ pc = "report" => Done(Cur, opts.range, Chunks[Cur]) /\ <<Cur, opts.range>> \in succeeded
      /\ pc = "done" /\ opts.cap = NoCap => <<Cur, opts.range>> \in succeeded

IInv == TypeInv /\ StoresOK /\ SessionOK /\ LoaderOK

\* Nothing is unsettled again.
LEMMA SettledGrows ==
    [Next]_vars => /\ Settled \subseteq Settled' /\ Accounted \subseteq Accounted'
                   /\ succeeded \subseteq succeeded'
BY DEF Accounted, RowsLost, Next, JobStep, Dispatch, BeginResuming, BeginYahoo, BeginTesouro, StartLoop, FetchChunk,
       EmptyChunk, PersistPart, DropPart, FlushBatch, ParseFails, ChunkPersisted, CommitChunk,
       SaveChunk, LoopDone, CommitRun, SaveSucceeded, HardError, CommitError, HandleFailure,
       JobDone, Exit, Crash, Idle, Settled, db, vars

LEMMA DoneGrows ==
    ASSUME Accounted \subseteq Accounted', NEW p, NEW r, NEW k, Done(p, r, k)
    PROVE  Done(p, r, k)'
BY DEF Done

LEMMA NothingDone == \A p, r : Done(p, r, 0) /\ Done(p, r, NoToken)
BY DEF Done, NoToken

\* One more chunk.
LEMMA DoneNext ==
    ASSUME NEW p, NEW r, NEW k \in Nat \ {0}, Done(p, r, k - 1), RowsOf(p, r, k) \subseteq Accounted
    PROVE  Done(p, r, k)
<1>1. \A c \in 1..k : c = k \/ c \in 1..(k - 1)
  OBVIOUS
<1> QED BY <1>1 DEF Done

LEMMA ChunkRows ==
    ASSUME TypeInv, pc \notin {"idle", "exit"}, at \in Tokens
    PROVE  CurRows(at, Parts) = RowsOf(Cur, opts.range, at)
BY CurFacts, RowFacts DEF CurRows

\* Stores keep their claims when nothing new is claimed.
LEMMA StoresFrame ==
    ASSUME StoresOK, Accounted \subseteq Accounted', UNCHANGED <<file, succeeded>>
    PROVE  StoresOK'
<1>1. ASSUME NEW p \in Loaders, file'[p] # NoCheckpoint PROVE ClaimOK(p, file[p])'
  BY <1>1 DEF StoresOK, ClaimOK, Done
<1>2. ASSUME NEW p \in Loaders, NEW r \in Ranges, <<p, r>> \in succeeded' PROVE Done(p, r, Chunks[p])'
  BY <1>2 DEF StoresOK, Done
<1> QED BY <1>1, <1>2 DEF StoresOK

\* Or when the current loader saves a claim that is true.
LEMMA SaveFrame ==
    ASSUME TypeInv, StoresOK, pc \notin {"idle", "exit"}, UNCHANGED db,
           NEW token, NEW status, Save(token, status),
           Cur \in Resuming => Done(Cur, opts.range, token),
           status = "succeeded" => Done(Cur, opts.range, Chunks[Cur]),
           Cur = "tesouro" /\ status = "succeeded" => <<Cur, opts.range>> \in succeeded
    PROVE  StoresOK'
<1>1. Cur \in Loaders /\ Accounted' = Accounted /\ succeeded' = succeeded
  BY CurFacts DEF db, Settled, Accounted, RowsLost
<1>2. ASSUME NEW p \in Loaders, file'[p] # NoCheckpoint PROVE ClaimOK(p, file[p])'
  <2>1. CASE p = Cur
    <3>1. file'[p] = [range |-> opts.range, last |-> token, status |-> status]
      BY <1>1, <2>1 DEF Save, TypeInv, TypeOK
    <3> QED BY <1>1, <2>1, <3>1 DEF ClaimOK, Done
  <2>2. CASE p # Cur
    <3>1. file'[p] = file[p]
      BY <1>1, <2>2 DEF Save, TypeInv, TypeOK
    <3> QED BY <1>1, <1>2, <3>1 DEF StoresOK, ClaimOK, Done
  <2> QED BY <2>1, <2>2
<1>3. ASSUME NEW p \in Loaders, NEW r \in Ranges, <<p, r>> \in succeeded' PROVE Done(p, r, Chunks[p])'
  BY <1>1, <1>3 DEF StoresOK, Done
<1> QED BY <1>2, <1>3 DEF StoresOK

\* The next loader begins with nothing done and an empty session.
LEMMA NextLoaderOK ==
    ASSUME NextLoader, pending' = {}
    PROVE  SessionOK' /\ LoaderOK'
<1>1. pc' \in {"exit", "begin"} /\ last' = NoToken
  BY DEF NextLoader
<1> QED BY <1>1, NothingDone DEF SessionOK, LoaderOK, Done, NoToken

\* A command starts.
LEMMA DispatchOK == ASSUME IInv, NEW o \in Options, Dispatch(o) PROVE StoresOK' /\ SessionOK' /\ LoaderOK'
<1>1. pc = "idle" /\ pc' = "begin" /\ UNCHANGED <<stored, dropped, lost, succeeded, last, pending>>
      /\ (file' = file \/ file' = [p \in Loaders |-> NoCheckpoint])
  BY DEF Dispatch, db, loop
<1>2. StoresOK'
  BY <1>1 DEF IInv, StoresOK, ClaimOK, Done, Settled, Accounted, RowsLost
<1>3. pending' = {} /\ last' = NoToken
  BY <1>1 DEF IInv, SessionOK
<1> QED BY <1>1, <1>2, <1>3 DEF SessionOK, LoaderOK, Done, NoToken

\* A loader starts its loop.
LEMMA BeginOK ==
    ASSUME IInv, BeginResuming \/ BeginYahoo \/ BeginTesouro
    PROVE  StoresOK' /\ SessionOK' /\ LoaderOK'
<1>0. /\ TypeInv /\ StoresOK /\ pc = "begin" /\ pending = {} /\ Cur \in Loaders /\ opts.range \in Ranges
      /\ opts.resume \in BOOLEAN
  BY CurFacts DEF IInv, SessionOK, BeginResuming, BeginYahoo, BeginTesouro
<1>1. CASE BeginResuming \/ BeginYahoo
  <2>1. PICK token \in Tokens \cup {NoToken} :
          /\ StartLoop(token) /\ Save(token, "running")
          /\ Cur \in Resuming => Done(Cur, opts.range, token)
    <3>1. CASE BeginYahoo
      BY <3>1, LoaderFacts DEF BeginYahoo, Resuming
    <3>2. CASE BeginResuming
      <4> DEFINE token == EffectiveLastCompleted(file[Cur], opts.range, NoToken, opts.resume)
      <4>1. file[Cur] \in Files \cup {NoCheckpoint}
        BY <1>0 DEF TypeInv, TypeOK
      <4>2. /\ token \in Tokens \cup {NoToken}
            /\ token # NoToken => file[Cur] # NoCheckpoint /\ file[Cur].range = opts.range /\ token = file[Cur].last
        BY <1>0, <4>1, TokenFacts
      <4>3. StartLoop(token) /\ Save(token, "running") /\ Cur \in Resuming
        BY <3>2 DEF BeginResuming
      <4> HIDE DEF token
      <4>4. Done(Cur, opts.range, token)
        <5>1. CASE token = NoToken
          BY <5>1, NothingDone
        <5>2. CASE token # NoToken
          BY <1>0, <4>2, <4>3, <5>2 DEF StoresOK, ClaimOK
        <5> QED BY <5>1, <5>2
      <4> QED BY <4>2, <4>3, <4>4
    <3> QED BY <1>1, <3>1, <3>2
  <2>2. /\ UNCHANGED <<stored, dropped, lost, succeeded, opts, queue, pending>>
        /\ last' = token /\ at' = token + 1 /\ pc' = "next" /\ token \in Nat
    BY <1>1, <2>1, TokenNumbers DEF BeginResuming, BeginYahoo, StartLoop, db
  <2>3. StoresOK'
    BY <1>0, <2>1, <2>2, SaveFrame DEF db
  <2>4. at' - 1 = token
    BY <2>2
  <2>5. SessionOK'
    BY <1>0, <2>2 DEF SessionOK
  <2>6. Done(Cur, opts.range, token)
    <3>1. CASE Cur \in Resuming
      BY <2>1, <3>1
    <3>2. CASE BeginYahoo
      BY <3>2, <2>1, <2>2, NothingDone DEF BeginYahoo, StartLoop
    <3> QED BY <1>1, <3>1, <3>2 DEF BeginResuming
  <2>7. LoaderOK'
    BY <2>2, <2>4, <2>6 DEF LoaderOK, Done, Settled, Accounted, RowsLost, Cur
  <2> QED BY <2>3, <2>5, <2>7
<1>2. CASE BeginTesouro
  <2>1. /\ UNCHANGED <<stored, dropped, lost, succeeded, opts, queue, pending, file>>
        /\ last' = NoToken /\ at' = NoToken + 1 /\ pc' \in {"next", "done"} /\ Cur = "tesouro"
    BY <1>2 DEF BeginTesouro, StartLoop, db
  <2>2. StoresOK'
    BY <1>0, <2>1, StoresFrame DEF Settled, Accounted, RowsLost
  <2>3. SessionOK'
    BY <1>0, <2>1 DEF SessionOK
  <2>4. pc' = "done" => <<Cur, opts.range>> \in succeeded
    BY <1>0, <1>2 DEF BeginTesouro, ShouldResume, StoresOK, ClaimOK
  <2>5. LoaderOK'
    BY <2>1, <2>4, NothingDone DEF LoaderOK, Done, Settled, Accounted, RowsLost, Cur, NoToken
  <2> QED BY <2>2, <2>3, <2>5
<1> QED BY <1>1, <1>2

\* A chunk is fetched, persisted part by part, dropped or flushed.
LEMMA LoadOK ==
    ASSUME IInv, \/ FetchChunk \/ EmptyChunk \/ FlushBatch \/ ParseFails \/ ChunkPersisted
                 \/ \E part \in Parts : PersistPart(part) \/ DropPart(part)
    PROVE  StoresOK' /\ SessionOK' /\ LoaderOK'
<1>0. /\ TypeInv /\ StoresOK /\ pc \in {"next", "persist"} /\ Cur \in Loaders /\ todo \subseteq Parts
      /\ Cur \in Resuming => Done(Cur, opts.range, last)
      /\ Done(Cur, opts.range, at - 1)
  BY CurFacts DEF IInv, TypeInv, TypeOK, LoaderOK, FetchChunk, EmptyChunk, FlushBatch, ParseFails,
                  ChunkPersisted, PersistPart, DropPart
<1>1. /\ UNCHANGED <<succeeded, file, opts, queue, last, at, processed>>
      /\ Settled \subseteq Settled' /\ Accounted \subseteq Accounted'
      /\ pc' \in {"persist", "commit", "finish"}
  BY <1>0 DEF FetchChunk, EmptyChunk, FlushBatch, ParseFails, ChunkPersisted, PersistPart, DropPart,
              db, loop, Settled, Accounted, RowsLost
<1>2. StoresOK'
  BY <1>0, <1>1, StoresFrame
<1>3. \A parts \in SUBSET Parts : CurRows(at, parts)' = CurRows(at, parts)
  BY <1>1 DEF CurRows, Cur
<1>4. SessionOK'
  <2>1. CASE FetchChunk
    <3>1. pending' = {} /\ pc' = "persist" /\ todo' = Parts
      BY <2>1 DEF IInv, SessionOK, FetchChunk
    <3>2. CurRows(at, Parts \ todo)' = {}
      BY <3>1 DEF CurRows
    <3> QED BY <3>1, <3>2 DEF SessionOK
  <2>2. CASE EmptyChunk
    <3>1. pending' = {} /\ pc' = "commit" /\ CurRows(at, Parts) \subseteq Settled'
      BY <2>2 DEF IInv, SessionOK, EmptyChunk, Settled, Accounted, RowsLost
    <3> QED BY <1>3, <3>1 DEF SessionOK
  <2>3. ASSUME NEW part \in Parts, PersistPart(part) \/ DropPart(part) PROVE SessionOK'
    <3>1. pc = "persist" /\ pc' = "persist" /\ todo' = todo \ {part}
          /\ CurRows(at, Parts \ todo) \subseteq Settled \cup pending /\ pending \subseteq CurRows(at, Parts)
      BY <2>3 DEF IInv, SessionOK, PersistPart, DropPart
    <3>2. CurRows(at, Parts \ todo') \subseteq CurRows(at, Parts \ todo) \cup CurRows(at, {part})
      BY <1>0, <3>1 DEF CurRows
    <3>3. CurRows(at, {part}) \subseteq CurRows(at, Parts)
      BY DEF CurRows
    <3>4. /\ Settled \cup pending \cup CurRows(at, {part}) \subseteq Settled' \cup pending'
          /\ pending' \subseteq CurRows(at, Parts)
      BY <2>3, <3>1, <3>3 DEF PersistPart, DropPart, Settled, Accounted, RowsLost, db
    <3>5. CurRows(at, Parts \ todo)' = CurRows(at, Parts \ todo')
      BY <1>1 DEF CurRows, Cur
    <3> QED BY <1>3, <3>1, <3>2, <3>4, <3>5 DEF SessionOK
  <2>4. CASE FlushBatch
    <3>1. /\ pc = "persist" /\ pc' = "persist" /\ pending' = {} /\ todo' = todo
          /\ CurRows(at, Parts \ todo) \subseteq Settled'
      BY <2>4 DEF IInv, SessionOK, FlushBatch, Settled, Accounted, RowsLost, loop
    <3> QED BY <1>3, <3>1 DEF SessionOK
  <2>5. CASE ParseFails
    <3>1. /\ pc = "persist" /\ pc' = "commit" /\ pending' = {}
          /\ CurRows(at, Parts \ todo) \cup CurRows(at, todo) \subseteq Settled'
      BY <2>5 DEF IInv, SessionOK, ParseFails, Settled, Accounted, RowsLost
    <3>2. CurRows(at, Parts) \subseteq CurRows(at, Parts \ todo) \cup CurRows(at, todo)
      BY DEF CurRows
    <3> QED BY <1>3, <3>1, <3>2 DEF SessionOK
  <2>6. CASE ChunkPersisted
    <3>1. /\ pc = "persist" /\ pc' \in {"commit", "finish"} /\ todo = {} /\ pending' = pending
          /\ Cur \in Batching => pending = {}
          /\ CurRows(at, Parts \ todo) \subseteq Settled \cup pending /\ pending \subseteq CurRows(at, Parts)
          /\ pc' = "finish" => Cur = "tesouro"
      BY <2>6 DEF IInv, SessionOK, ChunkPersisted
    <3>2. Parts \ todo = Parts
      BY <3>1
    <3>3. CurRows(at, Parts) \subseteq Settled' \cup pending' /\ Cur' = Cur
      BY <1>1, <3>1, <3>2 DEF Cur
    <3>4. pc' = "finish" => pending' = {}
      BY <3>1 DEF Batching
    <3> QED BY <1>3, <3>1, <3>3, <3>4 DEF SessionOK
  <2> QED BY <2>1, <2>2, <2>3, <2>4, <2>5, <2>6
<1>5. LoaderOK'
  <2>1. Cur' = Cur /\ Truncated' = Truncated
    BY <1>1 DEF Cur, Truncated
  <2>2. pc' = "finish" => Done(Cur, opts.range, Chunks[Cur])
    <3> SUFFICES ASSUME pc' = "finish" PROVE Done(Cur, opts.range, Chunks[Cur])
      OBVIOUS
    <3>1. /\ pc = "persist" /\ todo = {} /\ pending = {} /\ Cur = "tesouro"
          /\ CurRows(at, Parts \ todo) \subseteq Settled \cup pending
      BY <1>0 DEF IInv, SessionOK, FetchChunk, EmptyChunk, FlushBatch, ParseFails, ChunkPersisted,
                  PersistPart, DropPart, Batching
    <3>2. at = 1 /\ Chunks[Cur] = 1 /\ at \in Tokens
      BY <1>0, <3>1, ChunksAssumption, ChunkFacts DEF TypeInv, Running
    <3>3. Parts \ todo = Parts
      BY <3>1
    <3>4. RowsOf(Cur, opts.range, at) \subseteq Accounted
      BY <1>0, <3>1, <3>2, <3>3, ChunkRows DEF Accounted
    <3> QED BY <3>2, <3>4 DEF Done
  <2> QED BY <1>0, <1>1, <2>1, <2>2 DEF LoaderOK, Done
<1> QED BY <1>2, <1>4, <1>5

\* A chunk is committed and its token saved.
LEMMA CommitOK ==
    ASSUME IInv, CommitChunk \/ SaveChunk
    PROVE  StoresOK' /\ SessionOK' /\ LoaderOK'
<1>0. TypeInv /\ StoresOK /\ pc \in {"commit", "save"} /\ Cur \in Loaders /\ at \in Tokens /\ at \in Nat \ {0}
  BY CurFacts, TokenNumbers DEF IInv, TypeInv, Running, CommitChunk, SaveChunk
<1>1. CASE CommitChunk
  <2>1. /\ pc = "commit" /\ stored' = stored \cup pending /\ dropped' = dropped
        /\ lost' = lost \ pending /\ pending' = {} /\ last' = at /\ pc' = "save"
        /\ UNCHANGED <<succeeded, file, opts, queue, at>>
    BY <1>1 DEF CommitChunk
  <2>2. CurRows(at, Parts) \subseteq Accounted'
    BY <2>1 DEF IInv, SessionOK, Settled, Accounted, RowsLost
  <2>3. RowsOf(Cur, opts.range, at) \subseteq Accounted'
    BY <1>0, <2>2, ChunkRows
  <2>4. \A c \in 1..(at - 1) : RowsOf(Cur, opts.range, c) \subseteq Accounted'
    BY <2>1 DEF IInv, LoaderOK, Done, Settled, Accounted, RowsLost
  <2>5. \A c \in 1..at : c = at \/ c \in 1..(at - 1)
    BY <1>0
  <2>6. \A c \in 1..at : RowsOf(Cur, opts.range, c) \subseteq Accounted'
    BY <2>3, <2>4, <2>5
  <2>7. LoaderOK'
    BY <2>1, <2>6 DEF LoaderOK, Done, Cur
  <2>8. StoresOK' /\ SessionOK'
    BY <1>0, <2>1, StoresFrame DEF SessionOK, Settled, Accounted, RowsLost
  <2> QED BY <2>7, <2>8
<1>2. CASE SaveChunk
  <2>1. /\ pc = "save" /\ Save(last, "running") /\ at' = at + 1 /\ pc' = "next"
        /\ UNCHANGED <<stored, dropped, lost, succeeded, opts, queue, last, pending>>
    BY <1>2 DEF SaveChunk, db
  <2>2. last = at /\ Done(Cur, opts.range, at) /\ pending = {}
    BY <2>1 DEF IInv, LoaderOK, SessionOK
  <2>3. StoresOK'
    BY <1>0, <2>1, <2>2, SaveFrame DEF db
  <2>4. at' - 1 = at
    BY <1>0, <2>1
  <2>5. LoaderOK'
    BY <2>1, <2>2, <2>4 DEF LoaderOK, Done, Cur, Settled, Accounted, RowsLost
  <2> QED BY <2>1, <2>2, <2>3, <2>5 DEF SessionOK
<1> QED BY <1>1, <1>2

\* The loop ends, the run row is committed, the final checkpoint saved.
LEMMA FinishOK ==
    ASSUME IInv, LoopDone \/ CommitRun \/ SaveSucceeded
    PROVE  StoresOK' /\ SessionOK' /\ LoaderOK'
<1>0. TypeInv /\ StoresOK /\ pc \in {"next", "finish", "report"} /\ Cur \in Loaders /\ pending = {}
      /\ opts.range \in Ranges /\ Chunks[Cur] \in Nat \ {0}
  BY CurFacts DEF IInv, SessionOK, LoopDone, CommitRun, SaveSucceeded
<1>1. CASE LoopDone
  <2>1. /\ pc = "next" /\ pc' = "finish" /\ UNCHANGED <<stored, dropped, lost, succeeded, opts, queue, last, at, processed, pending>>
        /\ at > Chunks[Cur] \/ Truncated
    BY <1>1 DEF LoopDone, db, loop
  <2>2. Cur' = Cur /\ Truncated' = Truncated
    BY <2>1 DEF Cur, Truncated
  <2>3. ~Truncated => Done(Cur, opts.range, Chunks[Cur])
    <3>1. at \in Nat /\ Done(Cur, opts.range, at - 1)
      BY <2>1 DEF IInv, LoaderOK, TypeInv, TypeOK
    <3>2. ~Truncated => \A c \in 1..Chunks[Cur] : c \in 1..(at - 1)
      BY <1>0, <2>1, <3>1
    <3> QED BY <3>1, <3>2 DEF Done
  <2>4. Cur \in Resuming => Done(Cur, opts.range, last)
    BY <2>1 DEF IInv, LoaderOK
  <2>5. StoresOK'
    <3>1. CASE Cur \in {"cvm", "yahoo"}
      <4> DEFINE status == IF Truncated THEN "running" ELSE "succeeded"
      <4>1. Save(last, status) /\ (status = "succeeded" => ~Truncated)
        BY <1>1, <3>1 DEF LoopDone
      <4> HIDE DEF status
      <4> QED BY <1>0, <2>1, <2>3, <2>4, <3>1, <4>1, SaveFrame DEF db
    <3>2. CASE Cur \notin {"cvm", "yahoo"}
      BY <1>0, <1>1, <2>1, <3>2, StoresFrame DEF LoopDone, Settled, Accounted, RowsLost
    <3> QED BY <3>1, <3>2
  <2>6. LoaderOK'
    BY <2>1, <2>2, <2>3, <2>4 DEF LoaderOK, Done, Settled, Accounted, RowsLost
  <2> QED BY <1>0, <2>1, <2>5, <2>6 DEF SessionOK
<1>2. CASE CommitRun
  <2>1. /\ pc = "finish" /\ UNCHANGED <<stored, dropped, lost>> /\ pending' = {}
        /\ succeeded' = succeeded \cup (IF Truncated THEN {} ELSE {<<Cur, opts.range>>})
        /\ pc' = IF Cur \in {"tesouro", "bcb"} THEN "report" ELSE "done"
        /\ UNCHANGED <<file, opts, queue, last>>
    BY <1>0, <1>2 DEF CommitRun, loop
  <2>2. ~Truncated => Done(Cur, opts.range, Chunks[Cur])
    BY <2>1 DEF IInv, LoaderOK
  <2>3. StoresOK'
    <3>1. \A p \in Loaders, r \in Ranges : <<p, r>> \in succeeded' => Done(p, r, Chunks[p])
      BY <1>0, <2>1, <2>2 DEF StoresOK
    <3>2. \A p \in Loaders : file'[p] # NoCheckpoint => ClaimOK(p, file[p])'
      BY <1>0, <2>1 DEF StoresOK, ClaimOK, Done, Settled, Accounted, RowsLost
    <3> QED BY <2>1, <3>1, <3>2 DEF StoresOK, Done, Settled, Accounted, RowsLost
  <2>4. Truncated => Cur = "cvm" /\ opts.cap # NoCap
    BY DEF Truncated
  <2>5. Cur \in Resuming => Done(Cur, opts.range, last)
    BY <2>1 DEF IInv, LoaderOK
  <2>6. LoaderOK'
    BY <2>1, <2>2, <2>4, <2>5 DEF LoaderOK, Done, Settled, Accounted, RowsLost, Cur
  <2> QED BY <2>1, <2>3, <2>6 DEF SessionOK
<1>3. CASE SaveSucceeded
  <2>1. /\ pc = "report" /\ Save(Chunks[Cur], "succeeded") /\ pc' = "done"
        /\ UNCHANGED <<stored, dropped, lost, succeeded, opts, queue, last, pending>>
    BY <1>3 DEF SaveSucceeded, db, loop
  <2>2. Done(Cur, opts.range, Chunks[Cur]) /\ <<Cur, opts.range>> \in succeeded
        /\ (Cur \in Resuming => Done(Cur, opts.range, last))
    BY <2>1 DEF IInv, LoaderOK
  <2>3. StoresOK'
    BY <1>0, <2>1, <2>2, SaveFrame DEF db
  <2>4. LoaderOK'
    BY <2>1, <2>2 DEF LoaderOK, Done, Settled, Accounted, RowsLost, Cur
  <2> QED BY <1>0, <2>1, <2>3, <2>4 DEF SessionOK
<1> QED BY <1>1, <1>2, <1>3

\* Errors, their handler, and the end of a loader or of the command.
LEMMA EndOK ==
    ASSUME IInv, HardError \/ CommitError \/ HandleFailure \/ JobDone \/ Exit \/ Crash
    PROVE  StoresOK' /\ SessionOK' /\ LoaderOK'
<1>0. TypeInv /\ StoresOK /\ SessionOK /\ LoaderOK
  BY DEF IInv
<1>1. CASE HardError
  <2>1. /\ pc \in {"begin", "next", "persist", "save", "finish", "report"} /\ pc' = "failed"
        /\ UNCHANGED <<stored, dropped, lost, succeeded, file, opts, queue, last, at, pending>>
    BY <1>1 DEF HardError, db, loop
  <2>2. pending \subseteq CurRows(at, Parts)
    BY <1>0, <2>1 DEF SessionOK
  <2>3. StoresOK' /\ SessionOK'
    BY <1>0, <2>1, <2>2, StoresFrame DEF Settled, Accounted, RowsLost, SessionOK, CurRows, Cur
  <2>4. LoaderOK'
    BY <1>0, <2>1 DEF LoaderOK, Done, Settled, Accounted, RowsLost, Cur
  <2> QED BY <2>3, <2>4
<1>2. CASE CommitError
  <2>1. /\ pc = "commit" /\ pc' = "failed" /\ last' = at /\ lost' = lost \cup pending
        /\ UNCHANGED <<stored, dropped, succeeded, file, opts, queue, at, pending>>
    BY <1>2 DEF CommitError
  <2>2. at \in Tokens /\ at \in Nat \ {0} /\ Cur' = Cur /\ Accounted \subseteq Accounted'
    BY <1>0, <2>1, CurFacts, TokenNumbers DEF TypeInv, Running, Cur, Accounted, Settled, RowsLost
  <2>3. Cur \in Resuming => Done(Cur, opts.range, at)'
    <3> SUFFICES ASSUME Cur \in Resuming PROVE Done(Cur, opts.range, at)'
      OBVIOUS
    <3>1. CurRows(at, Parts) \subseteq Settled \cup pending /\ pending \subseteq CurRows(at, Parts)
          /\ (Cur \in Batching => pending = {}) /\ Done(Cur, opts.range, at - 1)
      BY <1>0, <2>1 DEF SessionOK, LoaderOK
    <3>2. pending \subseteq Accounted'
      <4>1. CASE Cur = "bcb"
        BY <2>1, <3>1, <4>1 DEF Accounted, RowsLost, CurRows
      <4>2. CASE Cur = "cvm"
        BY <3>1, <4>2 DEF Batching
      <4> QED BY <4>1, <4>2 DEF Resuming
    <3>3. RowsOf(Cur, opts.range, at) \subseteq Accounted'
      <4>1. CurRows(at, Parts) \subseteq Accounted'
        BY <2>2, <3>1, <3>2 DEF Accounted
      <4> QED BY <1>0, <2>1, <2>2, <4>1, ChunkRows
    <3>4. \A c \in 1..at : c = at \/ c \in 1..(at - 1)
      BY <2>2
    <3>5. \A c \in 1..at : RowsOf(Cur, opts.range, c) \subseteq Accounted'
      BY <2>2, <3>1, <3>3, <3>4 DEF Done
    <3> QED BY <2>1, <2>2, <3>5 DEF Done
  <2>4. LoaderOK'
    BY <2>1, <2>2, <2>3 DEF LoaderOK
  <2>5. StoresOK' /\ SessionOK'
    BY <1>0, <2>1, <2>2, StoresFrame DEF SessionOK, CurRows
  <2> QED BY <2>4, <2>5
<1>3. CASE HandleFailure
  <2>1. pc = "failed" /\ pending' = {} /\ NextLoader /\ UNCHANGED <<stored, dropped, lost, succeeded>>
        /\ (UNCHANGED file \/ Save(last, "failed"))
    BY <1>3 DEF HandleFailure, db
  <2>2. StoresOK'
    <3>1. CASE UNCHANGED file
      BY <1>0, <2>1, <3>1, StoresFrame DEF Settled, Accounted, RowsLost
    <3>2. CASE Save(last, "failed")
      <4>1. Cur \in Resuming => Done(Cur, opts.range, last)
        BY <1>0, <2>1 DEF LoaderOK
      <4> QED BY <1>0, <2>1, <3>2, <4>1, SaveFrame DEF db
    <3> QED BY <2>1, <3>1, <3>2
  <2> QED BY <2>1, <2>2, NextLoaderOK
<1>4. CASE JobDone
  <2>1. pending' = {} /\ NextLoader /\ Accounted \subseteq Accounted' /\ UNCHANGED <<file, succeeded>>
    BY <1>4 DEF JobDone, Settled, Accounted, RowsLost
  <2> QED BY <1>0, <2>1, NextLoaderOK, StoresFrame
<1>5. CASE Exit \/ Crash
  <2>1. pc' = "idle" /\ pending' = {} /\ last' = NoToken /\ UNCHANGED <<stored, dropped, lost, succeeded, file>>
    BY <1>5 DEF Exit, Crash, Idle, db
  <2> QED BY <1>0, <2>1, StoresFrame DEF Settled, Accounted, RowsLost, SessionOK, LoaderOK
<1> QED BY <1>1, <1>2, <1>3, <1>4, <1>5

LEMMA InvStep == IInv /\ [Next]_vars => IInv'
<1> SUFFICES ASSUME IInv, [Next]_vars PROVE IInv'
  OBVIOUS
<1>1. TypeInv'
  BY TypeStep DEF IInv
<1>2. CASE UNCHANGED vars
  <2>1. UNCHANGED <<stored, dropped, lost, succeeded, file, opts, queue, pc, last, at, todo, processed, pending>>
    BY <1>2 DEF vars, db, loop
  <2>2. StoresOK'
    BY <2>1, StoresFrame DEF IInv, Settled, Accounted, RowsLost
  <2>3. SessionOK' /\ LoaderOK'
    BY <2>1 DEF IInv, SessionOK, LoaderOK, CurRows, Cur, Truncated, Done, Settled, Accounted, RowsLost
  <2> QED BY <1>1, <2>2, <2>3 DEF IInv
<1> QED
  BY <1>1, <1>2, DispatchOK, BeginOK, LoadOK, CommitOK, FinishOK, EndOK DEF IInv, Next, JobStep

LEMMA InvInit == Init => IInv
<1> SUFFICES ASSUME Init PROVE IInv
  OBVIOUS
<1>1. NoCommand \in Options
  <2>1. Options # {}
    <3>1. PICK q \in Commands, r \in Ranges : TRUE
      BY CommandsAssumption, RangesAssumption
    <3>2. [loaders |-> q, range |-> r, resume |-> TRUE, cap |-> NoCap] \in Options
      BY DEF Options
    <3> QED BY <3>2
  <2> QED BY <2>1 DEF NoCommand
<1>2. TypeInv
  BY <1>1, EmptySeq, FaultsAssumption DEF Init, TypeInv, TypeOK, Running, Places
<1>3. StoresOK /\ SessionOK /\ LoaderOK
  BY DEF Init, StoresOK, SessionOK, LoaderOK
<1> QED BY <1>2, <1>3 DEF IInv

LEMMA Invariance == Spec => []IInv
BY InvInit, InvStep, PTL DEF Spec

\* The variables of `backfill all` keep their types.
THEOREM TypeCorrect == Spec => []TypeOK
<1>1. IInv => TypeOK
  BY DEF IInv, TypeInv
<1> QED BY <1>1, Invariance, PTL

\* What a BCB or CVM backfill resumes from never skips a row nobody settled, but
\* for the rows of a BCB window whose own COMMIT raised.
THEOREM ResumeSafe == Spec => []ResumeSkipsOnlySettled
<1>1. IInv => ResumeSkipsOnlySettled
  <2> SUFFICES ASSUME IInv, NEW p \in Resuming, NEW r \in Ranges,
                      NEW c \in 1..EffectiveLastCompleted(file[p], r, NoToken, TRUE)
               PROVE  RowsOf(p, r, c) \subseteq Accounted
    BY DEF ResumeSkipsOnlySettled, Accounted
  <2> DEFINE token == EffectiveLastCompleted(file[p], r, NoToken, TRUE)
  <2>1. p \in Loaders /\ file[p] \in Files \cup {NoCheckpoint}
    BY LoaderFacts DEF IInv, TypeInv, TypeOK, Resuming
  <2>2. token # NoToken => file[p] # NoCheckpoint /\ file[p].range = r /\ token = file[p].last
    BY <2>1, TokenFacts
  <2>c. c \in 1..token
    OBVIOUS
  <2> HIDE DEF token
  <2>3. CASE token = NoToken
    <3>1. 1..token = {}
      BY <2>3 DEF NoToken
    <3> QED BY <2>c, <3>1
  <2>4. CASE token # NoToken
    <3>1. Done(p, r, token)
      BY <2>1, <2>2, <2>4 DEF IInv, StoresOK, ClaimOK
    <3> QED BY <3>1, <2>c DEF Done
  <2> QED BY <2>3, <2>4
<1> QED BY <1>1, Invariance, PTL

\* No loader of `backfill all` commits what a failed one left in the session.
THEOREM SessionSafe == Spec => []SessionHoldsOwnRows
<1>1. IInv => SessionHoldsOwnRows
  BY DEF IInv, SessionOK, CurRows, SessionHoldsOwnRows
<1> QED BY <1>1, Invariance, PTL

\* Loaders that do not batch commit a chunk as a whole.
THEOREM ChunksAtomic == Spec => ChunksAreAtomic
<1>1. IInv /\ [Next]_vars =>
        [\A row \in stored' \ stored : row.loader \notin Batching =>
           RowsOf(row.loader, row.range, row.chunk) \subseteq Settled']_vars
  <2> SUFFICES ASSUME IInv, [Next]_vars, NEW row \in stored' \ stored, row.loader \notin Batching
               PROVE  RowsOf(row.loader, row.range, row.chunk) \subseteq Settled'
    OBVIOUS
  <2>1. /\ row \in pending /\ stored' = stored \cup pending /\ dropped' = dropped
        /\ FlushBatch \/ CommitChunk \/ CommitRun \/ JobDone
    BY DEF Next, JobStep, Dispatch, BeginResuming, BeginYahoo, BeginTesouro, StartLoop, FetchChunk,
           EmptyChunk, PersistPart, DropPart, FlushBatch, ParseFails, ChunkPersisted, CommitChunk,
           SaveChunk, LoopDone, CommitRun, SaveSucceeded, HardError, CommitError, HandleFailure,
           JobDone, Exit, Crash, Idle, db, vars
  <2>2. pc \in {"persist", "commit"} /\ (pc = "persist" => Cur \in Batching)
    BY <2>1 DEF IInv, SessionOK, FlushBatch, CommitChunk, CommitRun, JobDone
  <2>3. row \in CurRows(at, Parts)
    BY <2>1, <2>2 DEF IInv, SessionOK
  <2>4. row.loader = Cur /\ row.range = opts.range /\ row.chunk = at
    BY <2>3 DEF CurRows
  <2>5. pc = "commit" /\ at \in Tokens
    BY <2>2, <2>4, CurFacts DEF IInv, TypeInv, Running
  <2>6. CurRows(at, Parts) \subseteq Settled'
    BY <2>1, <2>5 DEF IInv, SessionOK, Settled
  <2> QED BY <2>4, <2>5, <2>6, ChunkRows DEF IInv
<1> QED BY <1>1, Invariance, PTL DEF Spec, ChunksAreAtomic

-------------------------------------------------------------------------------
(* The exit code. *)

\* While nothing failed and no cap is set, every loader of the command has
\* its SUCCEEDED run row or waits in the queue; at the exit none waits.
QueueOK ==
    /\ pc = "exit" => queue = <<>>
    /\ pc # "idle" /\ failed = {} /\ opts.cap = NoCap =>
         \A i \in 1..Len(opts.loaders) :
           \/ <<opts.loaders[i], opts.range>> \in succeeded
           \/ \E j \in 1..Len(queue) : queue[j] = opts.loaders[i]

\* The only steps that touch the command, its queue or its failures.
LEMMA QueueMoves ==
    ASSUME [Next]_vars
    PROVE  \/ UNCHANGED <<opts, queue, failed>> /\ succeeded \subseteq succeeded'
              /\ pc # "idle" /\ pc' # "exit"
           \/ UNCHANGED vars
           \/ \E o \in Options : Dispatch(o)
           \/ HandleFailure \/ JobDone \/ pc' = "idle"
BY DEF Next, JobStep, BeginResuming, BeginYahoo, BeginTesouro, StartLoop, FetchChunk,
       EmptyChunk, PersistPart, DropPart, FlushBatch, ParseFails, ChunkPersisted, CommitChunk,
       SaveChunk, LoopDone, CommitRun, SaveSucceeded, HardError, CommitError,
       Exit, Crash, Idle, db, vars

LEMMA QueueStep == ASSUME IInv, QueueOK, [Next]_vars PROVE QueueOK'
<1>1. CASE UNCHANGED vars
  BY <1>1 DEF QueueOK, vars, db
<1>2. CASE /\ UNCHANGED <<opts, queue, failed>> /\ succeeded \subseteq succeeded'
           /\ pc # "idle" /\ pc' # "exit"
  BY <1>2 DEF QueueOK
<1>3. ASSUME NEW o \in Options, Dispatch(o) PROVE QueueOK'
  <2>1. pc' = "begin" /\ opts' = o /\ queue' = o.loaders
    BY <1>3 DEF Dispatch
  <2> QED BY <2>1 DEF QueueOK
<1>4. CASE JobDone
  <2>1. /\ pc = "done" /\ queue' = Tail(queue) /\ UNCHANGED <<opts, failed, succeeded>>
        /\ pc' = IF Len(queue) = 1 THEN "exit" ELSE "begin"
    BY <1>4 DEF JobDone, NextLoader
  <2>2. queue \in Seq(Loaders) /\ queue # <<>>
    BY <2>1, CurFacts DEF IInv, TypeInv, TypeOK
  <2>3. /\ Len(queue) \in Nat \ {0} /\ Len(queue') = Len(queue) - 1 /\ Cur = queue[1]
        /\ (Len(queue) = 1) <=> (queue' = <<>>)
        /\ \A i \in 1..(Len(queue) - 1) : queue'[i] = queue[i + 1]
    BY <2>1, <2>2, RestOfQueue DEF Cur
  <2>4. ASSUME failed = {}, opts.cap = NoCap, NEW i \in 1..Len(opts.loaders),
               <<opts.loaders[i], opts.range>> \notin succeeded
        PROVE  \E j \in 1..Len(queue') : queue'[j] = opts.loaders[i]
    <3>1. PICK j \in 1..Len(queue) : queue[j] = opts.loaders[i]
      BY <2>1, <2>4 DEF QueueOK
    <3>2. <<Cur, opts.range>> \in succeeded
      BY <2>1, <2>4 DEF IInv, LoaderOK
    <3>3. j # 1
      BY <2>3, <2>4, <3>1, <3>2
    <3>4. j - 1 \in 1..Len(queue') /\ queue'[j - 1] = queue[j]
      BY <2>3, <3>1, <3>3
    <3> QED BY <3>1, <3>4
  <2> QED BY <2>1, <2>3, <2>4 DEF QueueOK
<1>5. CASE HandleFailure
  <2>1. /\ pc = "failed" /\ queue' = Tail(queue) /\ failed' # {}
        /\ pc' = IF Len(queue) = 1 THEN "exit" ELSE "begin"
    BY <1>5 DEF HandleFailure, NextLoader
  <2>2. (Len(queue) = 1) <=> (queue' = <<>>)
    BY <2>1, CurFacts, RestOfQueue DEF IInv, TypeInv, TypeOK
  <2> QED BY <2>1, <2>2 DEF QueueOK
<1>6. CASE pc' = "idle"
  BY <1>6 DEF QueueOK
<1> QED BY <1>1, <1>2, <1>3, <1>4, <1>5, <1>6, QueueMoves

\* `backfill all` that exits 0 without a cap left a SUCCEEDED run row for
\* each of its loaders.
THEOREM ExitSafe == Spec => []ExitZeroMeansSucceeded
<1>1. Init => QueueOK
  BY DEF Init, QueueOK
<1>2. IInv /\ QueueOK /\ [Next]_vars => QueueOK'
  BY QueueStep
<1>3. QueueOK => ExitZeroMeansSucceeded
  BY EmptySeq DEF QueueOK, ExitZeroMeansSucceeded
<1> QED BY <1>1, <1>2, <1>3, Invariance, PTL DEF Spec

-------------------------------------------------------------------------------
(* The loaders are resumable loads. *)

\* What a step that settles and loses nothing reports, is accounted for.
LEMMA ReportedComplete ==
    ASSUME IInv', UNCHANGED <<Settled, RowsLost>>
    PROVE  Reported' \in SUBSET {job \in Loaders \X Ranges : Load!Complete(job)}
<1> SUFFICES ASSUME NEW p \in Loaders, NEW r \in Ranges, <<p, r>> \in Reported'
             PROVE  Load!Complete(<<p, r>>)
  BY DEF Reported
<1>1. \/ <<p, r>> \in succeeded'
      \/ file'[p] # NoCheckpoint /\ file'[p].range = r /\ file'[p].status = "succeeded"
  BY DEF Reported
<1>2. Done(p, r, Chunks[p])'
  BY <1>1 DEF IInv, StoresOK, ClaimOK
<1>3. RowsOfRange(p, r) \subseteq Settled \cup RowsLost
  BY <1>2 DEF Done, RowsOfRange, Accounted
<1>4. [job \in Loaders \X Ranges |-> RowsOfRange(job[1], job[2])][<<p, r>>] = RowsOfRange(p, r)
  OBVIOUS
<1> QED BY <1>3, <1>4 DEF Load!Complete

\* A step commits, loses, or reports; never two of them.
LEMMA ReportOrSettle ==
    ASSUME IInv, [Next]_vars
    PROVE  \/ UNCHANGED <<Settled, RowsLost>>
           \/ /\ UNCHANGED <<file, succeeded>>
              /\ RowsLost' \subseteq RowsLost /\ RowsLost \subseteq RowsLost' \cup Settled'
           \/ UNCHANGED <<file, succeeded, Settled>> /\ RowsLost \subseteq RowsLost'
<1>1. CASE CommitRun \/ JobDone
  BY <1>1 DEF IInv, SessionOK, CommitRun, JobDone, Settled, RowsLost
<1>2. CASE CommitChunk
  BY <1>2 DEF CommitChunk, Settled, RowsLost
<1>3. CASE CommitError
  BY <1>3 DEF CommitError, Settled, RowsLost
<1>4. CASE UNCHANGED <<stored, dropped, lost>>
  BY <1>4 DEF Settled, RowsLost
<1>5. CASE UNCHANGED <<file, succeeded, lost>>
  BY <1>5 DEF RowsLost
<1>6. CommitRun \/ JobDone \/ CommitChunk \/ CommitError \/ UNCHANGED <<stored, dropped, lost>>
      \/ UNCHANGED <<file, succeeded, lost>>
  BY DEF Next, JobStep, Dispatch, BeginResuming, BeginYahoo, BeginTesouro, StartLoop, FetchChunk,
         EmptyChunk, PersistPart, DropPart, FlushBatch, ParseFails, ChunkPersisted,
         SaveChunk, LoopDone, SaveSucceeded, HardError, HandleFailure,
         Exit, Crash, Idle, db, vars
<1> QED BY <1>1, <1>2, <1>3, <1>4, <1>5, <1>6

\* The Tesouro, BCB, CVM and Yahoo backfills implement the abstract load, with
\* the rows of a BCB window whose COMMIT raised as its lost units.
THEOREM AllImplementLoad == Spec => LoadersImplementLoad
<1>1. Init => Load!Init
  BY DEF Init, Load!Init, Settled, RowsLost, Reported
<1>2. IInv /\ IInv' /\ [Next]_vars => [Load!Next]_(Load!vars)
  <2> SUFFICES ASSUME IInv, IInv', [Next]_vars PROVE Load!Next
    OBVIOUS
  <2>0. /\ Settled \subseteq Settled' /\ Settled' \subseteq Rows /\ RowsLost' \subseteq Rows
        /\ (UNCHANGED <<file, succeeded>> => Reported' = Reported)
    BY SettledGrows DEF IInv, TypeInv, TypeOK, Settled, RowsLost, Reported
  <2>1. CASE UNCHANGED <<Settled, RowsLost>>
    <3>1. Reported' \in SUBSET {job \in Loaders \X Ranges : Load!Complete(job)}
      BY <2>1, ReportedComplete
    <3> QED BY <2>1, <3>1 DEF Load!Next, Load!Report
  <2>2. CASE /\ UNCHANGED <<file, succeeded>>
             /\ RowsLost' \subseteq RowsLost /\ RowsLost \subseteq RowsLost' \cup Settled'
    BY <2>0, <2>2 DEF Load!Next, Load!Commit
  <2>3. CASE UNCHANGED <<file, succeeded, Settled>> /\ RowsLost \subseteq RowsLost'
    BY <2>0, <2>3 DEF Load!Next, Load!Lose
  <2> QED BY <2>1, <2>2, <2>3, ReportOrSettle
<1> QED BY <1>1, <1>2, Invariance, PTL DEF Spec, LoadersImplementLoad, Load!Spec
===============================================================================
