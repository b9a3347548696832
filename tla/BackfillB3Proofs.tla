--------------------------- MODULE BackfillB3Proofs ---------------------------
(***************************************************************************)
(* Proofs about the B3 backfill without daily ingests, for slices that     *)
(* start together or do not overlap.                                       *)
(***************************************************************************)
EXTENDS BackfillB3, NaturalSets, TLAPS

\* The days of r up to d were all committed, or their COMMIT raised.
Prefix(r, d) == \A e \in DaysOf[r] : e <= d => e \in Committed

\* A stored quote date closes its slice from below: this is what makes the
\* newest quote date a place to resume from that is as good as a checkpoint.
QuotesClosed ==
    \A q \in quotes : \A r \in Ranges : q \in DaysOf[r] => Prefix(r, q)

ClaimOK(c) == c.last \in DaysOf[c.range] \cup {NoToken} /\ Prefix(c.range, c.last)

StoredOK ==
    /\ file # NoCheckpoint => ClaimOK(file)
    /\ \A r \in Ranges : archive[r] # NoCheckpoint => ClaimOK(archive[r])

\* What backfill_b3 knows at each point of its loop.
JobOK ==
    /\ pc \notin {"commit", "failed"} => pending = {}
    /\ pc # "idle" =>
      /\ last \in DaysOf[range] \cup {NoToken} /\ Prefix(range, last)
      /\ day >= range.start
      /\ pc \in {"loop", "commit"} => Prefix(range, day - 1)
      /\ pc = "commit" => day \in DaysOf[range] /\ pending \subseteq {day}
      /\ pc = "save" => day \in DaysOf[range] /\ last = day
      /\ pc \in {"years", "finish"} => DaysOf[range] \subseteq Committed
      /\ pc = "exit" => file # NoCheckpoint /\ file.range = range

IInv == TypeOK /\ QuotesClosed /\ StoredOK /\ JobOK

\* A slice's days are the numbers from its start to its end.
LEMMA SliceFacts ==
    ASSUME NEW r \in Ranges
    PROVE  /\ r.start \in Nat \ {0} /\ r.end \in Nat \ {0} /\ r.start <= r.end
           /\ DaysOf[r] = r.start .. r.end
           /\ DaysOf[r] \subseteq Days /\ DaysOf[r] \subseteq Nat \ {0}
           /\ r.start \in DaysOf[r] /\ r.end \in DaysOf[r]
<1>1. r.start \in Nat \ {0} /\ r.end \in Nat \ {0} /\ r.start <= r.end
  BY RangesAssumption
<1>2. DaysOf[r] = r.start .. r.end
  BY DEF DaysOf
<1>3. DaysOf[r] \subseteq Days
  BY DEF Days
<1> QED BY <1>1, <1>2, <1>3

\* Every day is a positive number.
LEMMA DaysAreNumbers == Days \subseteq Nat \ {0}
BY SliceFacts DEF Days

\* The database's answer is a stored quote date of the slice, or nothing.
LEMMA DbMaxFacts ==
    ASSUME NEW r \in Ranges
    PROVE  DbMax(r) = NoToken \/ DbMax(r) \in quotes \cap DaysOf[r]
<1> DEFINE newest == {d \in quotes \cap DaysOf[r] : \A e \in quotes \cap DaysOf[r] : e <= d}
<1>1. CASE newest = {}
  BY <1>1 DEF DbMax
<1>2. CASE newest # {}
  <2>1. (CHOOSE d \in newest : TRUE) \in newest
    BY <1>2
  <2> QED BY <1>2, <2>1 DEF DbMax
<1> QED BY <1>1, <1>2

\* The token a job resumes from is NoToken, the database's date, or the
\* claim of a checkpoint written for the same slice.
LEMMA TokenFacts ==
    ASSUME NEW r \in Ranges, NEW c, NEW res \in BOOLEAN
    PROVE  \/ EffectiveLastCompleted(c, r, DbMax(r), res) \in {NoToken, DbMax(r)}
           \/ /\ c # NoCheckpoint /\ c.range = r
              /\ EffectiveLastCompleted(c, r, DbMax(r), res) = c.last
BY DEF EffectiveLastCompleted, LaterToken, ShouldResume

\* Hence a token never lies beyond the finished prefix of its slice.
LEMMA TokenSafe ==
    ASSUME IInv, NEW r \in Ranges, NEW res \in BOOLEAN,
           NEW c \in {file, archive[r], NoCheckpoint}
    PROVE  LET token == EffectiveLastCompleted(c, r, DbMax(r), res)
           IN  token \in DaysOf[r] \cup {NoToken} /\ Prefix(r, token)
<1> DEFINE token == EffectiveLastCompleted(c, r, DbMax(r), res)
<1>0. Prefix(r, NoToken)
  BY SliceFacts DEF Prefix, NoToken
<1>1. CASE token = NoToken
  BY <1>0, <1>1
<1>2. CASE token = DbMax(r)
  <2>1. CASE DbMax(r) = NoToken
    BY <1>0, <1>2, <2>1
  <2>2. CASE DbMax(r) \in quotes \cap DaysOf[r]
    BY <1>2, <2>2 DEF IInv, QuotesClosed
  <2> QED BY <2>1, <2>2, DbMaxFacts
<1>3. CASE c # NoCheckpoint /\ c.range = r /\ token = c.last
  <2>1. ClaimOK(c)
    BY <1>3 DEF IInv, StoredOK
  <2> QED BY <1>3, <2>1 DEF ClaimOK
<1> QED BY <1>1, <1>2, <1>3, TokenFacts

-------------------------------------------------------------------------------
\* A job that is over leaves well-typed variables behind.
LEMMA JobOverType ==
    ASSUME TypeOK, Upload, JobOver, faults' \in 0..MaxFaults
    PROVE  TypeOK'
<1>1. archive' \in [Ranges -> Files \cup {NoCheckpoint}]
  BY DEF Upload, TypeOK
<1>2. pc' \in Places /\ day' \in Nat /\ year' \in Nat /\ pending' \subseteq Days
  BY DEF JobOver, Places
<1>3. last' \in Days \cup {NoToken} /\ resume' \in BOOLEAN /\ cotahist' \in BOOLEAN
       /\ advanced' \in BOOLEAN
  BY DEF JobOver
<1>4. UNCHANGED <<quotes, finished, lost, file, range>>
  BY DEF JobOver, db
<1> QED BY <1>1, <1>2, <1>3, <1>4 DEF TypeOK

\* Every step keeps the types: all it needs of IInv is that tokens are days.
LEMMA TypeStep == IInv /\ [Next]_vars => TypeOK'
<1> SUFFICES ASSUME IInv, [Next]_vars PROVE TypeOK'
  OBVIOUS
<1> USE DEF TypeOK, Files, CheckpointRecords, Statuses, Places
<1>0. TypeOK /\ \A r \in Ranges : DaysOf[r] \subseteq Days
  BY SliceFacts DEF IInv
<1>1. ASSUME NEW r \in Ranges, NEW res \in BOOLEAN, NEW cota \in BOOLEAN,
             Dispatch(r, res, cota)
      PROVE  TypeOK'
  <2>1. PICK found \in {file, archive[r], NoCheckpoint} :
          LET token == EffectiveLastCompleted(found, r, DbMax(r), res)
          IN  file' = found /\ last' = token /\ day' = FirstDay(r, token)
    BY <1>1 DEF Dispatch
  <2>2. last' \in DaysOf[r] \cup {NoToken}
    BY <2>1, TokenSafe
  <2>3. day' \in Nat
    <3>1. last' \in Nat
      BY <2>2, SliceFacts DEF NoToken
    <3> QED BY <2>1, <3>1, SliceFacts DEF FirstDay
  <2>4. year' \in Nat
    BY <1>1, SliceFacts, YearAssumption DEF Dispatch
  <2> QED BY <1>0, <1>1, <2>1, <2>2, <2>3, <2>4 DEF Dispatch, db
<1>2. CASE SkipWeekend
  BY <1>0, <1>2 DEF SkipWeekend, InLoop, db, stores, args
<1>3. CASE IngestDay
  <2>1. day \in Days
    <3>1. day \in DaysOf[range]
      BY <1>0, <1>3, SliceFacts DEF IngestDay, InLoop, IInv, JobOK
    <3> QED BY <3>1, SliceFacts, <1>0
  <2> QED BY <1>0, <1>3, <2>1 DEF IngestDay, db, stores, args
<1>4. CASE SkipEmptyDay
  BY <1>0, <1>4 DEF SkipEmptyDay, db, stores, args
<1>5. CASE CommitDay
  <2>1. day \in Days
    BY <1>0, <1>5, SliceFacts DEF CommitDay, IInv, JobOK
  <2> QED BY <1>0, <1>5, <2>1 DEF CommitDay, stores, args
<1>6. CASE SaveDay
  BY <1>0, <1>6 DEF SaveDay, db, args
<1>7. CASE LoopDone
  BY <1>0, <1>7 DEF LoopDone, db, stores, args
<1>8. CASE IngestYear
  <2>1. \A dates \in SUBSET {d \in DaysOf[range] \ Weekend : YearOf[d] = year} :
          dates \subseteq Days
    BY <1>0, SliceFacts
  <2> QED BY <1>0, <1>8, <2>1 DEF IngestYear, stores, args
<1>9. CASE YearsDone
  BY <1>0, <1>9 DEF YearsDone, db, stores, args
<1>10. CASE SaveSucceeded
  BY <1>0, <1>10, SliceFacts DEF SaveSucceeded, db, args
<1>11. CASE HardError
  BY <1>0, <1>11, FaultAssumption DEF HardError, db, stores, args
<1>17. CASE CommitError
  <2>1. day \in Days
    BY <1>0, <1>17, SliceFacts DEF CommitError, IInv, JobOK
  <2> QED BY <1>0, <1>17, <2>1, FaultAssumption DEF CommitError, stores, args
<1>12. CASE SaveFailed
  BY <1>0, <1>12 DEF SaveFailed, db, args
<1>13. CASE Exit
  BY <1>0, <1>13, JobOverType DEF Exit
<1>14. CASE Crash
  BY <1>0, <1>14, FaultAssumption, JobOverType DEF Crash, Stop
<1>15. CASE Timeout
  BY <1>0, <1>15, JobOverType DEF Timeout, Stop
<1>16. CASE UNCHANGED vars
  BY <1>0, <1>16 DEF vars
<1> QED
  BY <1>1, <1>2, <1>3, <1>4, <1>5, <1>6, <1>7, <1>8, <1>9, <1>10, <1>11,
     <1>12, <1>13, <1>14, <1>15, <1>16, <1>17 DEF Next, JobStep

\* Steps that commit nothing keep quotes closed.
LEMMA QuotesClosedFrame ==
    QuotesClosed /\ UNCHANGED <<quotes, Committed>> => QuotesClosed'
BY DEF QuotesClosed, Prefix

\* A claim stays true while Committed only grows.
LEMMA ClaimsGrow ==
    ASSUME Committed \subseteq Committed', NEW c, ClaimOK(c)
    PROVE  ClaimOK(c)'
BY DEF ClaimOK, Prefix

\* A step that keeps both stores and loses no Committed day keeps the claims.
LEMMA StoredFrame ==
    StoredOK /\ Committed \subseteq Committed' /\ UNCHANGED stores => StoredOK'
BY ClaimsGrow DEF StoredOK, stores

\* The next job may hold any stored claim: uploads copy a sound one.
LEMMA UploadKeepsClaims ==
    StoredOK /\ TypeOK /\ Upload /\ JobOver => StoredOK'
<1> SUFFICES ASSUME StoredOK, TypeOK, Upload, JobOver PROVE StoredOK'
  OBVIOUS
<1>1. UNCHANGED <<quotes, Committed, file>>
  BY DEF JobOver, db, Committed
<1>2. \A r \in Ranges : archive'[r] \in {archive[r], file}
  BY DEF Upload, TypeOK
<1> QED BY <1>1, <1>2 DEF StoredOK, ClaimOK, Prefix

\* Writing the job's own claim into the file is sound when the claim is.
LEMMA SaveKeepsClaims ==
    ASSUME StoredOK, UNCHANGED <<Committed, archive>>,
           file'.range = range, file'.last \in DaysOf[range] \cup {NoToken},
           Prefix(range, file'.last)
    PROVE  StoredOK'
<1>1. ClaimOK(file)'
  BY DEF ClaimOK, Prefix
<1>2. \A r \in Ranges : archive'[r] # NoCheckpoint => ClaimOK(archive[r])'
  BY DEF StoredOK, ClaimOK, Prefix
<1> QED BY <1>1, <1>2 DEF StoredOK

\* Committing day d when everything before it is Committed, and storing quotes
\* of that day only, keeps quotes closed; slices that contain d start together.
LEMMA CommitKeepsQuotesClosed ==
    ASSUME AlignedRanges, QuotesClosed, NEW r \in Ranges,
           NEW S, S \subseteq DaysOf[r],
           quotes' = quotes \cup S, Committed \subseteq Committed',
           \A q \in S : Prefix(r, q)'
    PROVE  QuotesClosed'
<1> SUFFICES ASSUME NEW q \in quotes', NEW s \in Ranges, q \in DaysOf[s],
                    NEW e \in DaysOf[s], e <= q
             PROVE  e \in Committed'
  BY DEF QuotesClosed, Prefix
<1>1. CASE q \in quotes
  BY <1>1 DEF QuotesClosed, Prefix
<1>2. CASE q \in S
  <2>1. r.start = s.start
    BY <1>2 DEF AlignedRanges
  <2>2. e \in DaysOf[r]
    BY <1>2, <2>1, SliceFacts
  <2> QED BY <1>2, <2>2 DEF Prefix
<1> QED BY <1>1, <1>2

-------------------------------------------------------------------------------
\* The inductive step, one action at a time.
LEMMA InvStep ==
    ASSUME AlignedRanges, IInv, [Next]_vars
    PROVE  IInv'
<1>0. TypeOK' /\ TypeOK /\ QuotesClosed /\ StoredOK /\ JobOK
  BY TypeStep DEF IInv
<1>n. Prefix(range, 0) /\ range \in Ranges /\ day \in Nat /\ range.start \in Nat \ {0}
      /\ range.end \in Nat \ {0} /\ DaysOf[range] = range.start .. range.end
  BY <1>0, SliceFacts DEF TypeOK, Prefix
<1>1. ASSUME NEW r \in Ranges, NEW res \in BOOLEAN, NEW cota \in BOOLEAN,
             Dispatch(r, res, cota)
      PROVE  IInv'
  <2>1. PICK found \in {file, archive[r], NoCheckpoint} :
          LET token == EffectiveLastCompleted(found, r, DbMax(r), res)
          IN  file' = found /\ last' = token /\ day' = FirstDay(r, token)
    BY <1>1 DEF Dispatch
  <2>2. last' \in DaysOf[r] \cup {NoToken} /\ Prefix(r, last')
    BY <2>1, TokenSafe
  <2>3. UNCHANGED <<quotes, Committed, archive>> /\ range' = r /\ pc' = "loop"
        /\ pending' = pending /\ pc = "idle"
    BY <1>1 DEF Dispatch, db, Committed
  <2>4. QuotesClosed'
    BY <1>0, <2>3, QuotesClosedFrame
  <2>5. StoredOK'
    BY <1>0, <2>1, <2>3 DEF StoredOK, ClaimOK, Prefix
  <2>6. day' >= r.start /\ Prefix(r, day' - 1)
    BY <2>1, <2>2, SliceFacts DEF FirstDay, NoToken, Prefix
  <2>7. JobOK'
    BY <1>0, <2>2, <2>3, <2>6 DEF JobOK, Prefix
  <2> QED BY <1>0, <2>4, <2>5, <2>7 DEF IInv
<1>2. CASE SkipWeekend \/ IngestDay \/ SkipEmptyDay
  <2>1. UNCHANGED <<quotes, Committed, range, last, day>> /\ UNCHANGED stores
        /\ InLoop /\ pc' = "commit" /\ pending' \in {{}, {day}, pending}
    BY <1>2 DEF SkipWeekend, IngestDay, SkipEmptyDay, db, args, stores, Committed
  <2>2. pending' \subseteq {day}
    BY <1>0, <1>2 DEF SkipWeekend, IngestDay, SkipEmptyDay, JobOK, InLoop
  <2>3. JobOK'
    BY <1>0, <1>n, <2>1, <2>2 DEF JobOK, InLoop, Prefix
  <2> QED BY <1>0, <2>1, <2>3, QuotesClosedFrame, StoredFrame DEF IInv
<1>3. CASE CommitDay
  <2>1. day \in DaysOf[range] /\ pending \subseteq {day} /\ Prefix(range, day - 1)
    BY <1>0, <1>3 DEF CommitDay, JobOK
  <2>2. UNCHANGED <<range, day>> /\ UNCHANGED stores /\ last' = day /\ pc' = "save"
        /\ pending' = {}
        /\ quotes' = quotes \cup pending /\ Committed' = Committed \cup {day}
    BY <1>3 DEF CommitDay, args, stores, Committed
  <2>3. Prefix(range, day)'
    BY <1>n, <2>1, <2>2 DEF Prefix
  <2>4. QuotesClosed'
    BY <1>0, <1>n, <2>1, <2>2, <2>3, CommitKeepsQuotesClosed DEF Prefix
  <2>5. JobOK'
    BY <1>n, <2>1, <2>2, <2>3 DEF JobOK, Prefix
  <2> QED BY <1>0, <2>2, <2>4, <2>5, StoredFrame DEF IInv
<1>4. CASE SaveDay
  <2>1. UNCHANGED <<quotes, Committed, archive, range, last, pending>> /\ pc' = "loop"
        /\ file' = [range |-> range, last |-> last, status |-> "running"]
        /\ day' = day + 1 /\ pc = "save"
    BY <1>4 DEF SaveDay, db, args, Committed
  <2>2. last = day /\ Prefix(range, last) /\ last \in DaysOf[range]
    BY <1>0, <2>1 DEF JobOK
  <2>3. JobOK'
    BY <1>0, <1>n, <2>1, <2>2 DEF JobOK, Prefix
  <2> QED BY <1>0, <2>1, <2>2, <2>3, QuotesClosedFrame, SaveKeepsClaims DEF IInv
<1>5. CASE LoopDone
  <2>1. UNCHANGED <<quotes, Committed, range, last, day, pending>> /\ UNCHANGED stores
        /\ pc = "loop" /\ day > range.end /\ pc' \in {"years", "finish"}
    BY <1>5 DEF LoopDone, db, args, stores, Committed
  <2>2. DaysOf[range] \subseteq Committed
    BY <1>0, <1>n, <2>1 DEF JobOK, Prefix
  <2>3. JobOK'
    BY <1>0, <2>1, <2>2 DEF JobOK, Prefix
  <2> QED BY <1>0, <2>1, <2>3, QuotesClosedFrame, StoredFrame DEF IInv
<1>6. CASE IngestYear
  <2>1. PICK dates \in SUBSET {d \in DaysOf[range] \ Weekend : YearOf[d] = year} :
          quotes' = quotes \cup dates /\ Committed' = Committed \cup dates
    BY <1>6 DEF IngestYear, Committed
  <2>2. UNCHANGED <<range, last, day, pc, pending>> /\ UNCHANGED stores /\ pc = "years"
    BY <1>6 DEF IngestYear, args, stores
  <2>3. DaysOf[range] \subseteq Committed /\ Committed' = Committed
    BY <1>0, <2>1, <2>2 DEF JobOK
  <2>4. QuotesClosed'
    BY <1>0, <1>n, <2>1, <2>3, CommitKeepsQuotesClosed DEF Prefix
  <2>5. JobOK'
    BY <1>0, <2>2, <2>3 DEF JobOK, Prefix
  <2> QED BY <1>0, <2>2, <2>3, <2>4, <2>5, StoredFrame DEF IInv
<1>7. CASE YearsDone
  <2>1. UNCHANGED <<quotes, Committed, range, last, day, pending>> /\ UNCHANGED stores
        /\ pc = "years" /\ pc' = "finish"
    BY <1>7 DEF YearsDone, db, args, stores, Committed
  <2>2. JobOK'
    BY <1>0, <2>1 DEF JobOK, Prefix
  <2> QED BY <1>0, <2>1, <2>2, QuotesClosedFrame, StoredFrame DEF IInv
<1>8. CASE SaveSucceeded
  <2>1. UNCHANGED <<quotes, Committed, archive, range, last, day>> /\ pc' = "exit"
        /\ pending' = pending
        /\ file' = [range |-> range, status |-> "succeeded",
                    last |-> IF last = NoToken THEN range.end ELSE last]
        /\ pc = "finish"
    BY <1>8 DEF SaveSucceeded, db, args, Committed
  <2>2. file'.last \in DaysOf[range] \cup {NoToken} /\ Prefix(range, file'.last)
    BY <1>0, <1>n, <2>1, SliceFacts DEF JobOK, Prefix
  <2>3. file'.range = range /\ file' \in Files
    BY <1>0, <1>n, <2>1, <2>2, SliceFacts
       DEF TypeOK, Files, CheckpointRecords, Statuses
  <2>4. StoredOK'
    BY <1>0, <2>1, <2>2, <2>3, SaveKeepsClaims
  <2>5. file' # NoCheckpoint
    BY <2>3, NoCheckpointAssumption
  <2>6. JobOK'
    BY <1>0, <2>1, <2>3, <2>5 DEF JobOK, Prefix
  <2> QED BY <1>0, <2>1, <2>4, <2>6, QuotesClosedFrame DEF IInv
<1>9. CASE HardError
  <2>1. UNCHANGED <<quotes, Committed, range, last, day, pending>> /\ UNCHANGED stores
        /\ pc \in {"loop", "save", "years", "finish"} /\ pc' = "failed"
    BY <1>9 DEF HardError, InLoop, db, args, stores, Committed
  <2>2. JobOK'
    BY <1>0, <2>1 DEF JobOK, Prefix
  <2> QED BY <1>0, <2>1, <2>2, QuotesClosedFrame, StoredFrame DEF IInv
<1>13. CASE CommitError
  <2>1. UNCHANGED <<quotes, range, day, pending>> /\ UNCHANGED stores /\ last' = day
        /\ Committed' = Committed \cup {day} /\ pc = "commit" /\ pc' = "failed"
    BY <1>13 DEF CommitError, args, stores, Committed
  <2>2. day \in DaysOf[range] /\ Prefix(range, day - 1)
    BY <1>0, <2>1 DEF JobOK
  <2>3. Prefix(range, day)'
    BY <1>n, <2>1, <2>2 DEF Prefix
  <2>4. QuotesClosed'
    BY <1>0, <2>1 DEF QuotesClosed, Prefix
  <2>5. JobOK'
    BY <1>0, <1>n, <2>1, <2>2, <2>3 DEF JobOK
  <2> QED BY <1>0, <2>1, <2>4, <2>5, StoredFrame DEF IInv
<1>10. CASE SaveFailed
  <2>1. UNCHANGED <<quotes, Committed, archive, range, last, day>> /\ pc' = "exit"
        /\ pending' = {}
        /\ file' = [range |-> range, last |-> last, status |-> "failed"]
        /\ pc = "failed"
    BY <1>10 DEF SaveFailed, db, args, Committed
  <2>2. file' # NoCheckpoint
    BY <1>0, <2>1, NoCheckpointAssumption
       DEF TypeOK, Files, CheckpointRecords, Statuses
  <2>3. JobOK'
    BY <1>0, <2>1, <2>2 DEF JobOK, Prefix
  <2>4. StoredOK'
    BY <1>0, <2>1, SaveKeepsClaims DEF JobOK
  <2> QED BY <1>0, <2>1, <2>3, <2>4, QuotesClosedFrame DEF IInv
<1>11. CASE Exit \/ Crash \/ Timeout
  <2>1. Upload /\ JobOver
    BY <1>11 DEF Exit, Crash, Timeout, Stop
  <2>2. JobOK' /\ QuotesClosed'
    BY <1>0, <2>1, QuotesClosedFrame DEF JobOK, JobOver, db, Committed
  <2> QED BY <1>0, <2>1, <2>2, UploadKeepsClaims DEF IInv
<1>12. CASE UNCHANGED vars
  BY <1>0, <1>12 DEF vars, IInv, QuotesClosed, StoredOK, ClaimOK, JobOK, Prefix, Committed
<1> QED
  BY <1>1, <1>2, <1>3, <1>4, <1>5, <1>6, <1>7, <1>8, <1>9, <1>10, <1>11, <1>12, <1>13
  DEF Next, JobStep

\* The loader starts on an empty database and without any checkpoint.
LEMMA InvInit == Init => IInv
<1> SUFFICES ASSUME Init PROVE IInv
  OBVIOUS
<1>1. TypeOK
  <2>1. faults \in 0..MaxFaults
    BY FaultAssumption DEF Init
  <2>2. archive \in [Ranges -> Files \cup {NoCheckpoint}] /\ pc \in Places
    BY DEF Init, Places
  <2> QED BY <2>1, <2>2 DEF Init, TypeOK
<1>2. QuotesClosed /\ StoredOK /\ JobOK
  BY DEF Init, QuotesClosed, StoredOK, JobOK
<1> QED BY <1>1, <1>2 DEF IInv

\* The inductive invariant holds throughout, for slices that start together
\* or do not overlap.
THEOREM Invariance == ASSUME AlignedRanges PROVE Spec => []IInv
<1>1. IInv /\ [Next]_vars => IInv'
  BY InvStep
<1> QED BY <1>1, InvInit, PTL DEF Spec

\* The variables of the B3 backfill keep their types.
THEOREM TypeCorrect == ASSUME AlignedRanges PROVE Spec => []TypeOK
<1>1. IInv => TypeOK
  BY DEF IInv
<1> QED BY <1>1, Invariance, PTL

\* A resumed backfill_b3 skips no day but those a commit covered or raised on,
\* whichever checkpoint it was handed and whatever the database says.
THEOREM ResumeSafe == ASSUME AlignedRanges PROVE Spec => []ResumeSkipsOnlyFinished
<1>1. IInv => ResumeSkipsOnlyFinished
  BY TokenSafe DEF ResumeSkipsOnlyFinished, ResumeToken, Prefix
<1> QED BY <1>1, Invariance, PTL

\* Below the newest b3 quote date of a slice every day was committed, or its
\* COMMIT raised: what the comment in backfill_b3 relies on, and what a daily
\* ingest breaks.
THEOREM DbMaxSafe == ASSUME AlignedRanges PROVE Spec => []DbMaxIsLastFinishedDay
<1>1. IInv => DbMaxIsLastFinishedDay
  <2> SUFFICES ASSUME IInv, NEW r \in Ranges, NEW d \in DaysOf[r], d <= DbMax(r)
               PROVE  d \in Committed
    BY DEF DbMaxIsLastFinishedDay
  <2>1. DbMax(r) \in quotes \cap DaysOf[r]
    BY DbMaxFacts, SliceFacts DEF NoToken
  <2> QED BY <2>1 DEF IInv, QuotesClosed, Prefix
<1> QED BY <1>1, Invariance, PTL

-------------------------------------------------------------------------------
(* The refinement of ResumableLoad.  A "succeeded" file must cover its range: *)
(* one more invariant, again inductive.                                       *)

Success(c) == c.status = "succeeded" => DaysOf[c.range] \subseteq Committed

SuccessOK ==
    /\ file # NoCheckpoint => Success(file)
    /\ \A r \in Ranges : archive[r] # NoCheckpoint => Success(archive[r])

\* Only SaveSucceeded writes that status, after the loop.
LEMMA SuccessStep ==
    ASSUME IInv, SuccessOK, [Next]_vars
    PROVE  SuccessOK'
<1>0. TypeOK /\ JobOK
  BY DEF IInv
<1>1. ASSUME Committed \subseteq Committed', UNCHANGED <<file, archive>>
      PROVE  SuccessOK'
  BY <1>1 DEF SuccessOK, Success
<1>2. ASSUME NEW r \in Ranges, NEW res \in BOOLEAN, NEW cota \in BOOLEAN,
             Dispatch(r, res, cota)
      PROVE  SuccessOK'
  BY <1>2 DEF Dispatch, SuccessOK, Success, db, Committed
<1>3. CASE SkipWeekend \/ IngestDay \/ SkipEmptyDay \/ LoopDone \/ YearsDone \/ HardError
  BY <1>1, <1>3 DEF SkipWeekend, IngestDay, SkipEmptyDay, LoopDone, YearsDone,
                    HardError, db, stores, Committed
<1>4. CASE CommitDay \/ IngestYear \/ CommitError
  BY <1>1, <1>4 DEF CommitDay, IngestYear, CommitError, stores, Committed
<1>5. CASE SaveDay \/ SaveFailed
  BY <1>5 DEF SaveDay, SaveFailed, SuccessOK, Success, db, Committed
<1>6. CASE SaveSucceeded
  BY <1>0, <1>6 DEF SaveSucceeded, SuccessOK, Success, db, JobOK, Committed
<1>7. CASE Exit \/ Crash \/ Timeout
  <2>1. UNCHANGED <<Committed, file>> /\ \A r \in Ranges : archive'[r] \in {archive[r], file}
    BY <1>0, <1>7 DEF Exit, Crash, Timeout, Stop, Upload, JobOver, db, TypeOK, Committed
  <2> QED BY <2>1 DEF SuccessOK, Success
<1>8. CASE UNCHANGED vars
  BY <1>1, <1>8 DEF vars, Committed
<1> QED
  BY <1>2, <1>3, <1>4, <1>5, <1>6, <1>7, <1>8 DEF Next, JobStep

\* Ranges reported as succeeded are ranges, and complete.
LEMMA ReportedComplete ==
    ASSUME TypeOK, SuccessOK
    PROVE  Reported \in SUBSET {r \in Ranges : Load!Complete(r)}
<1>1. \A c \in StoredCheckpoints : c \in Files /\ Success(c)
  BY DEF TypeOK, StoredCheckpoints, SuccessOK
<1>2. \A c \in StoredCheckpoints : c.range \in Ranges
  BY <1>1 DEF Files, CheckpointRecords
<1> QED BY <1>1, <1>2 DEF Reported, Success, Load!Complete, Committed

\* Every step of the backfill is a step of the abstract load, or a stutter.
LEMMA LoadStep ==
    ASSUME IInv, SuccessOK, SuccessOK', TypeOK', [Next]_vars
    PROVE  [Load!Next]_(Load!vars)
<1>1. UNCHANGED <<file, archive>> => Reported' = Reported
  BY DEF Reported, StoredCheckpoints
<1>2. finished' \subseteq Days /\ lost' \subseteq Days
  BY DEF TypeOK
<1>3. CASE CommitDay \/ IngestYear
  <2>1. UNCHANGED <<file, archive>> /\ finished \subseteq finished'
        /\ lost' \subseteq lost /\ lost \subseteq lost' \cup finished'
    BY <1>3 DEF CommitDay, IngestYear, stores
  <2> QED BY <1>1, <1>2, <2>1 DEF Load!Next, Load!Commit
<1>4. CASE CommitError
  <2>1. UNCHANGED <<file, archive, finished>> /\ lost \subseteq lost'
    BY <1>4 DEF CommitError, stores
  <2> QED BY <1>1, <1>2, <2>1 DEF Load!Next, Load!Lose
<1>5. CASE UNCHANGED <<finished, lost>>
  <2>1. Reported' \in SUBSET {r \in Ranges : DaysOf[r] \subseteq finished' \cup lost'}
    <3>1. \A c \in StoredCheckpoints' : c \in Files
            /\ (c.status = "succeeded" => DaysOf[c.range] \subseteq finished' \cup lost')
      BY DEF TypeOK, StoredCheckpoints, SuccessOK, Success, Committed
    <3>2. \A c \in StoredCheckpoints' : c.range \in Ranges
      BY <3>1 DEF Files, CheckpointRecords
    <3> QED BY <3>1, <3>2 DEF Reported
  <2> QED BY <1>5, <2>1 DEF Load!Next, Load!Report, Load!Complete
<1>6. CommitDay \/ IngestYear \/ CommitError \/ UNCHANGED <<finished, lost>>
  BY DEF Next, JobStep, Dispatch, SkipWeekend, IngestDay, SkipEmptyDay,
         SaveDay, LoopDone, YearsDone, SaveSucceeded, HardError,
         SaveFailed, Exit, Crash, Timeout, Stop, JobOver, db, vars
<1> QED BY <1>3, <1>4, <1>5, <1>6

\* backfill_b3 is a resumable load: committed days stay committed and a stored
\* "succeeded" covers its whole range, days lost to a raising COMMIT aside.
THEOREM B3ImplementsLoad == ASSUME AlignedRanges PROVE Spec => ImplementsResumableLoad
<1>1. Init => SuccessOK /\ Load!Init
  BY DEF Init, SuccessOK, Load!Init, Reported, StoredCheckpoints
<1>2. IInv /\ SuccessOK /\ [Next]_vars => SuccessOK'
  BY SuccessStep
<1>3. IInv /\ IInv' /\ SuccessOK /\ SuccessOK' /\ [Next]_vars => [Load!Next]_(Load!vars)
  BY LoadStep DEF IInv
<1> QED
  BY <1>1, <1>2, <1>3, Invariance, PTL DEF Spec, ImplementsResumableLoad, Load!Spec

-------------------------------------------------------------------------------
(* No committed day is fetched again: the database is asked for its newest    *)
(* date, and a set of days bounded by its slice has a newest one.             *)

\* No stored quote of a slice is newer than the database's answer.
LEMMA DbMaxIsNewest ==
    ASSUME NEW r \in Ranges, NEW q \in quotes \cap DaysOf[r]
    PROVE  q <= DbMax(r)
<1> DEFINE newest == {d \in quotes \cap DaysOf[r] : \A e \in quotes \cap DaysOf[r] : e <= d}
<1>1. quotes \cap DaysOf[r] \in SUBSET (0..r.end) /\ r.end \in Nat
  BY SliceFacts
<1>2. quotes \cap DaysOf[r] # {}
  OBVIOUS
<1>3. \E d \in quotes \cap DaysOf[r] : \A e \in quotes \cap DaysOf[r] : e <= d
  BY ONLY <1>1, <1>2, BoundedSetHasMax
<1>4. newest # {}
  BY <1>3
<1>5. DbMax(r) = CHOOSE d \in newest : TRUE
  BY <1>4 DEF DbMax
<1>6. DbMax(r) \in newest
  BY <1>4, <1>5
<1> QED BY <1>6

\* While a resumed job is in its loop, every stored quote of its slice is of a
\* day it has left behind.
Behind ==
    resume =>
      /\ pc \in {"loop", "commit"} => \A q \in quotes \cap DaysOf[range] : q < day
      /\ pc = "save" => \A q \in quotes \cap DaysOf[range] : q <= day

LEMMA BehindStep ==
    ASSUME IInv, IInv', Behind, [Next]_vars
    PROVE  Behind'
<1>0. range \in Ranges /\ day \in Nat /\ quotes \subseteq Nat
  BY DaysAreNumbers DEF IInv, TypeOK
<1>1. ASSUME NEW r \in Ranges, NEW res \in BOOLEAN, NEW cota \in BOOLEAN,
             Dispatch(r, res, cota)
      PROVE  Behind'
  <2> SUFFICES ASSUME res = TRUE, NEW q \in quotes \cap DaysOf[r] PROVE q < day'
    BY <1>1 DEF Dispatch, Behind, db
  <2>1. PICK found \in {file, archive[r], NoCheckpoint} :
          LET token == EffectiveLastCompleted(found, r, DbMax(r), res)
          IN  file' = found /\ last' = token /\ day' = FirstDay(r, token)
    BY <1>1 DEF Dispatch
  <2> DEFINE token == EffectiveLastCompleted(found, r, DbMax(r), res)
  <2>2. token \in Nat /\ q \in Nat /\ r.start \in Nat /\ q \in DaysOf[r] /\ DbMax(r) \in Nat
    <3>1. token \in DaysOf[r] \cup {NoToken}
      BY TokenSafe
    <3>2. DaysOf[r] \subseteq Nat /\ r.start \in Nat
      BY SliceFacts
    <3>3. DbMax(r) \in DaysOf[r] \cup {NoToken}
      BY DbMaxFacts
    <3> HIDE DEF token
    <3> QED BY <3>1, <3>2, <3>3 DEF NoToken
  <2>3. q <= DbMax(r)
    BY DbMaxIsNewest
  <2>4. DbMax(r) <= token
    <3>1. PICK t : token = LaterToken(DbMax(r), t)
      BY DEF EffectiveLastCompleted
    <3> HIDE DEF token
    <3>2. token = DbMax(r) \/ (DbMax(r) < t /\ token = t)
      BY <3>1 DEF LaterToken
    <3> QED BY <2>2, <3>2
  <2> HIDE DEF token
  <2>5. day' = FirstDay(r, token)
    BY <2>1 DEF token
  <2> QED BY <2>2, <2>3, <2>4, <2>5, SliceFacts DEF FirstDay
<1>2. CASE SkipWeekend \/ IngestDay \/ SkipEmptyDay
  BY <1>2 DEF SkipWeekend, IngestDay, SkipEmptyDay, InLoop, Behind, db, args
<1>3. CASE CommitDay
  BY <1>0, <1>3 DEF CommitDay, Behind, args, IInv, JobOK
<1>4. CASE SaveDay
  BY <1>0, <1>4 DEF SaveDay, Behind, args, db
<1>5. CASE LoopDone \/ YearsDone \/ SaveSucceeded \/ HardError \/ CommitError \/ SaveFailed
  BY <1>5 DEF LoopDone, YearsDone, SaveSucceeded, HardError, CommitError, SaveFailed, Behind
<1>6. CASE IngestYear
  BY <1>6 DEF IngestYear, Behind
<1>7. CASE Exit \/ Crash \/ Timeout
  BY <1>7 DEF Exit, Crash, Timeout, Stop, JobOver, Behind
<1>8. CASE UNCHANGED vars
  BY <1>8 DEF vars, Behind, db, stores, args
<1> QED
  BY <1>1, <1>2, <1>3, <1>4, <1>5, <1>6, <1>7, <1>8 DEF Next, JobStep

\* A resumed backfill_b3 never downloads a day whose quotes are committed.
THEOREM NothingRefetched == ASSUME AlignedRanges PROVE Spec => []CommittedDaysNotRefetched
<1>1. Init => Behind
  BY DEF Init, Behind
<1>2. IInv /\ IInv' /\ Behind /\ [Next]_vars => Behind'
  BY BehindStep
<1>3. Behind => CommittedDaysNotRefetched
  BY DEF Behind, CommittedDaysNotRefetched, InLoop
<1> QED BY <1>1, <1>2, <1>3, Invariance, PTL DEF Spec

-------------------------------------------------------------------------------
(* --no-resume trusts neither checkpoint nor database. So, with daily         *)
(* ingests too, and for any slices, its success is complete: lost days of     *)
(* earlier jobs are covered again.                                            *)

\* The days of r up to d are all covered by a commit.
Covered(r, d) == \A e \in DaysOf[r] : e <= d => e \in finished

\* What a job that ignored every checkpoint knows at each point of its loop.
FreshJobOK ==
    /\ range \in Ranges /\ resume \in BOOLEAN /\ (~resume => day \in Nat)
    /\ ~resume =>
      /\ pc \in {"loop", "commit"} => Covered(range, day - 1)
      /\ pc = "save" => Covered(range, day)
      /\ pc \in {"years", "finish"} => DaysOf[range] \subseteq finished
      /\ pc = "exit" /\ file.status = "succeeded" => DaysOf[range] \subseteq finished

LEMMA FreshJobStep ==
    ASSUME FreshJobOK, [FullNext]_vars
    PROVE  FreshJobOK'
<1>0. /\ range \in Ranges /\ (~resume => day \in Nat) /\ range.start \in Nat /\ range.end \in Nat
      /\ DaysOf[range] = range.start .. range.end
  BY SliceFacts DEF FreshJobOK
<1>1. ASSUME NEW r \in Ranges, NEW res \in BOOLEAN, NEW cota \in BOOLEAN,
             Dispatch(r, res, cota)
      PROVE  FreshJobOK'
  <2>0. r.start \in Nat \ {0} /\ DaysOf[r] = r.start .. r.end /\ r.end \in Nat
    BY SliceFacts
  <2>1. range' = r /\ resume' = res /\ pc' = "loop"
    BY <1>1 DEF Dispatch
  <2>2. ~res => day' = FirstDay(r, NoToken)
    <3>1. PICK found \in {file, archive[r], NoCheckpoint} :
            day' = FirstDay(r, EffectiveLastCompleted(found, r, DbMax(r), res))
      BY <1>1 DEF Dispatch
    <3>2. ~res => EffectiveLastCompleted(found, r, DbMax(r), res) = NoToken
      BY DEF EffectiveLastCompleted
    <3> QED BY <3>1, <3>2
  <2>3. ~res => day' = r.start /\ day' \in Nat
    BY <2>0, <2>2 DEF FirstDay, NoToken
  <2>4. ~res => \A e \in DaysOf[r] : ~(e <= day' - 1)
    BY <2>0, <2>3
  <2>5. ~res => Covered(r, day - 1)'
    BY <2>4 DEF Covered
  <2> QED BY <2>1, <2>3, <2>5 DEF FreshJobOK
<1>2. CASE SkipWeekend \/ IngestDay \/ SkipEmptyDay
  BY <1>2 DEF SkipWeekend, IngestDay, SkipEmptyDay, InLoop, FreshJobOK, Covered, db, args
<1>3. CASE CommitDay
  BY <1>0, <1>3 DEF CommitDay, FreshJobOK, Covered, args
<1>4. CASE SaveDay
  BY <1>0, <1>4 DEF SaveDay, FreshJobOK, Covered, args, db
<1>5. CASE LoopDone
  BY <1>0, <1>5 DEF LoopDone, FreshJobOK, Covered, args, db
<1>6. CASE YearsDone \/ HardError \/ CommitError
  BY <1>6 DEF YearsDone, HardError, CommitError, FreshJobOK, args, db
<1>7. CASE IngestYear
  BY <1>7 DEF IngestYear, FreshJobOK, args
<1>8. CASE SaveSucceeded \/ SaveFailed
  BY <1>8 DEF SaveSucceeded, SaveFailed, FreshJobOK, args, db
<1>9. CASE Exit \/ Crash \/ Timeout
  BY <1>9 DEF Exit, Crash, Timeout, Stop, JobOver, FreshJobOK
<1>10. ASSUME NEW d \in Days, DailyIngest(d)
       PROVE  FreshJobOK'
  BY <1>10 DEF DailyIngest, FreshJobOK, args
<1>11. CASE UNCHANGED vars
  BY <1>11 DEF vars, FreshJobOK, Covered, db, stores, args
<1> QED
  BY <1>1, <1>2, <1>3, <1>4, <1>5, <1>6, <1>7, <1>8, <1>9, <1>10, <1>11
  DEF FullNext, Next, JobStep

\* A --no-resume backfill that reports success has covered its whole slice.
THEOREM NoResumeComplete == FullSpec => []NoResumeLeavesNoGap
<1>1. Init => FreshJobOK
  BY DEF Init, FreshJobOK
<1>2. FreshJobOK /\ [FullNext]_vars => FreshJobOK'
  BY FreshJobStep
<1>3. FreshJobOK => NoResumeLeavesNoGap
  BY DEF FreshJobOK, NoResumeLeavesNoGap
<1> QED BY <1>1, <1>2, <1>3, PTL DEF FullSpec
===============================================================================
