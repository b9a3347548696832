------------------------------ MODULE BackfillB3 ------------------------------
(***************************************************************************)
(* `marketdata backfill b3` (ingestion/b3.py, backfill_b3): one calendar   *)
(* day, one COMMIT, one checkpoint write, resumed from the later of the    *)
(* checkpoint file and the newest b3 quote date in the database.           *)
(*                                                                         *)
(* The jobs run on ephemeral runners, one at a time (the neon-writes       *)
(* group): a job starts with the file its store already holds, with the    *)
(* copy uploaded for its range, or with none, and can die at any step.     *)
(***************************************************************************)
EXTENDS Checkpoint, FiniteSets

CONSTANTS Ranges,     \* the [start, end] pairs an operator dispatches
          Weekend,    \* Saturdays and Sundays
          YearOf,     \* calendar year of a day
          MaxFaults   \* bound: errors and hard kills in one behaviour

DaysOf == [r \in Ranges |-> r.start .. r.end]
Days == UNION {DaysOf[r] : r \in Ranges}

ASSUME RangesAssumption ==
    /\ Ranges \subseteq [start: Nat \ {0}, end: Nat \ {0}]
    /\ \A r \in Ranges : r.start <= r.end
ASSUME YearAssumption ==
    /\ YearOf \in [Days -> Nat]
    /\ \A d, e \in Days : d <= e => YearOf[d] <= YearOf[e]
Files == CheckpointRecords(Ranges, Days)
ASSUME NoCheckpointAssumption == NoCheckpoint \notin Files
ASSUME FaultAssumption == MaxFaults \in Nat

\* Slices that overlap start on the same day.
AlignedRanges ==
    \A r, s \in Ranges : r.start = s.start \/ DaysOf[r] \cap DaysOf[s] = {}

VARIABLES
    quotes,    \* dates with a committed instrument_quotes row of source b3
    finished,  \* days a COMMIT has covered (stored, empty or weekend)
    lost,      \* days a COMMIT has raised on and none has covered since
    file,      \* state/backfill/b3.json as the job's store holds it
    archive,   \* the copy uploaded when a job on that range ended
    pc,        \* where backfill_b3 stands
    range, resume, cotahist,  \* its arguments
    day,       \* loop variable
    last,      \* last_completed
    pending,   \* quote dates in the open transaction
    year,      \* COTAHIST loop variable
    advanced,  \* this job has committed a day with quotes
    faults     \* counter behind MaxFaults

vars == <<quotes, finished, lost, file, archive, pc, range, resume, cotahist, day,
          last, pending, year, advanced, faults>>

args == <<range, resume, cotahist>>
db   == <<quotes, finished, lost>>
stores == <<file, archive>>

Places == {"idle", "loop", "commit", "save", "years", "finish", "failed", "exit"}

TypeOK ==
    /\ quotes \subseteq Days
    /\ finished \subseteq Days
    /\ lost \subseteq Days
    /\ file \in Files \cup {NoCheckpoint}
    /\ archive \in [Ranges -> Files \cup {NoCheckpoint}]
    /\ pc \in Places
    /\ range \in Ranges /\ resume \in BOOLEAN /\ cotahist \in BOOLEAN
    /\ day \in Nat
    /\ last \in Days \cup {NoToken}
    /\ pending \subseteq Days
    /\ year \in Nat
    /\ advanced \in BOOLEAN
    /\ faults \in 0..MaxFaults

-------------------------------------------------------------------------------
\* max_quote_reference_date: newest committed quote date inside the range.
DbMax(r) ==
    LET dates  == quotes \cap DaysOf[r]
        newest == {d \in dates : \A e \in dates : e <= d}
    IN  IF newest = {} THEN NoToken ELSE CHOOSE d \in newest : TRUE

\* The token a dispatch of r resumes from when it finds checkpoint c.
ResumeToken(c, r) == EffectiveLastCompleted(c, r, DbMax(r), TRUE)

\* First day of the loop that is not `day <= resume_after`.
FirstDay(r, token) == IF token < r.start THEN r.start ELSE token + 1

Init ==
    /\ quotes = {} /\ finished = {} /\ lost = {}
    /\ file = NoCheckpoint
    /\ archive = [r \in Ranges |-> NoCheckpoint]
    /\ pc = "idle"
    /\ range \in Ranges /\ resume = TRUE /\ cotahist = FALSE
    /\ day = 0 /\ last = NoToken /\ pending = {} /\ year = 0
    /\ advanced = FALSE
    /\ faults = 0

\* The operator starts a job; found is the checkpoint its store holds.
Dispatch(r, res, cota) ==
    /\ pc = "idle"
    /\ \E found \in {file, archive[r], NoCheckpoint} :
         LET token == EffectiveLastCompleted(found, r, DbMax(r), res)
         IN  /\ file' = found
             /\ last' = token
             /\ day' = FirstDay(r, token)
    /\ range' = r /\ resume' = res /\ cotahist' = cota
    /\ year' = YearOf[r.start]
    /\ pc' = "loop"
    /\ advanced' = FALSE
    /\ UNCHANGED <<db, archive, pending, faults>>

InLoop == pc = "loop" /\ day <= range.end

\* Saturday or Sunday: nothing is fetched, but the day is committed and saved.
SkipWeekend ==
    /\ InLoop /\ day \in Weekend
    /\ pc' = "commit"
    /\ UNCHANGED <<db, stores, args, day, last, pending, year, advanced, faults>>

\* Mutant: the day's quotes are committed in batches, before the day is done.
IngestDayInBatches ==
    /\ InLoop /\ day \notin Weekend
    /\ pending' \in {{}, {day}}
    /\ quotes' = quotes \cup pending'
    /\ pc' = "commit"
    /\ UNCHANGED <<finished, lost, stores, args, day, last, year, advanced, faults>>

\* _ingest_b3_day succeeded; the allowlist may have kept no quote at all.
IngestDay ==
    /\ InLoop /\ day \notin Weekend
    /\ pending' \in {{}, {day}}
    /\ pc' = "commit"
    /\ UNCHANGED <<db, stores, args, day, last, year, advanced, faults>>

\* "not a usable ZIP": roll back and count the day as an empty one.
SkipEmptyDay ==
    /\ InLoop /\ day \notin Weekend
    /\ pending' = {}
    /\ pc' = "commit"
    /\ UNCHANGED <<db, stores, args, day, last, year, advanced, faults>>

\* last_completed = day; session.commit().
CommitDay ==
    /\ pc = "commit"
    /\ last' = day
    /\ quotes' = quotes \cup pending
    /\ finished' = finished \cup {day}
    /\ lost' = lost \ {day}
    /\ advanced' = (advanced \/ pending # {})
    /\ pending' = {}
    /\ pc' = "save"
    /\ UNCHANGED <<stores, args, day, year, faults>>

\* _save_b3_checkpoint(..., status="running"), then the next day.
SaveDay ==
    /\ pc = "save"
    /\ file' = [range |-> range, last |-> last, status |-> "running"]
    /\ day' = day + 1
    /\ pc' = "loop"
    /\ UNCHANGED <<db, archive, args, last, pending, year, advanced, faults>>

LoopDone ==
    /\ pc = "loop" /\ day > range.end
    /\ pc' = IF cotahist THEN "years" ELSE "finish"
    /\ UNCHANGED <<db, stores, args, day, last, pending, year, advanced, faults>>

\* Mutant: the year loop forgets to advance.
SameYearAgain ==
    /\ pc = "years" /\ year <= YearOf[range.end]
    /\ UNCHANGED vars

\* One annual COTAHIST file: the dates it holds inside the range, committed.
IngestYear ==
    /\ pc = "years" /\ year <= YearOf[range.end]
    /\ \E dates \in SUBSET {d \in DaysOf[range] \ Weekend : YearOf[d] = year} :
         /\ quotes' = quotes \cup dates
         /\ finished' = finished \cup dates
         /\ lost' = lost \ dates
         /\ advanced' = (advanced \/ dates # {})
    /\ year' = year + 1
    /\ UNCHANGED <<stores, pc, args, day, last, pending, faults>>

YearsDone ==
    /\ pc = "years" /\ year > YearOf[range.end]
    /\ pc' = "finish"
    /\ UNCHANGED <<db, stores, args, day, last, pending, year, advanced, faults>>

\* Mutant: the token is the loop variable, one past the last day.
SaveSucceededPastEnd ==
    /\ pc = "finish"
    /\ file' = [range |-> range, last |-> day, status |-> "succeeded"]
    /\ pc' = "exit"
    /\ UNCHANGED <<db, archive, args, day, last, pending, year, advanced, faults>>

\* completed = last_completed or end; status="succeeded".
SaveSucceeded ==
    /\ pc = "finish"
    /\ file' = [range |-> range,
                last |-> IF last = NoToken THEN range.end ELSE last,
                status |-> "succeeded"]
    /\ pc' = "exit"
    /\ UNCHANGED <<db, archive, args, day, last, pending, year, advanced, faults>>

\* A download, parse, query or store call raised.
HardError ==
    /\ \/ InLoop /\ day \notin Weekend
       \/ pc = "save" \/ pc = "years" \/ pc = "finish"
    /\ faults < MaxFaults
    /\ faults' = faults + 1
    /\ pc' = "failed"
    /\ UNCHANGED <<db, stores, args, day, last, pending, year, advanced>>

\* last_completed = day; session.commit() raises: the transaction is gone, the
\* token has moved.
CommitError ==
    /\ pc = "commit"
    /\ faults < MaxFaults
    /\ faults' = faults + 1
    /\ last' = day
    /\ lost' = lost \cup ({day} \ finished)
    /\ pc' = "failed"
    /\ UNCHANGED <<quotes, finished, stores, args, day, pending, year, advanced>>

\* Mutant: the handler saves the final status.
SaveFailedAsSucceeded ==
    /\ pc = "failed"
    /\ pending' = {}
    /\ file' = [range |-> range, last |-> last, status |-> "succeeded"]
    /\ pc' = "exit"
    /\ UNCHANGED <<db, archive, args, day, last, year, advanced, faults>>

\* except Exception: rollback, save status="failed", re-raise.
SaveFailed ==
    /\ pc = "failed"
    /\ pending' = {}
    /\ file' = [range |-> range, last |-> last, status |-> "failed"]
    /\ pc' = "exit"
    /\ UNCHANGED <<db, archive, args, day, last, year, advanced, faults>>

\* The workflow's last steps upload the file, best effort.
Upload == \/ archive' = archive
          \/ archive' = [archive EXCEPT ![range] = file]

\* The process is gone: its transaction is rolled back, its locals vanish.
JobOver ==
    /\ pc' = "idle"
    /\ resume' = TRUE /\ cotahist' = FALSE
    /\ day' = 0 /\ last' = NoToken /\ pending' = {} /\ year' = 0
    /\ advanced' = FALSE
    /\ UNCHANGED <<db, file, range>>

Exit ==
    /\ pc = "exit"
    /\ Upload
    /\ JobOver
    /\ UNCHANGED faults

Stop ==
    /\ pc \notin {"idle", "exit"}
    /\ Upload
    /\ JobOver

\* The process or its machine dies at any point.
Crash ==
    /\ faults < MaxFaults
    /\ faults' = faults + 1
    /\ Stop

\* The six-hour cap: long enough to have committed a day with quotes.
Timeout ==
    /\ advanced
    /\ Stop
    /\ UNCHANGED faults

JobStep == \/ SkipWeekend \/ IngestDay \/ SkipEmptyDay \/ CommitDay \/ SaveDay
           \/ LoopDone \/ IngestYear \/ YearsDone
           \/ SaveSucceeded \/ SaveFailed \/ Exit

Next == \/ \E r \in Ranges, res, cota \in BOOLEAN : Dispatch(r, res, cota)
        \/ JobStep
        \/ HardError \/ CommitError \/ Crash \/ Timeout

Spec == Init /\ [][Next]_vars

\* The job keeps running and the operator keeps re-dispatching every range.
Fairness ==
    /\ WF_vars(JobStep)
    /\ \A r \in Ranges : SF_vars(Dispatch(r, TRUE, FALSE))

LiveSpec == Spec /\ Fairness

-------------------------------------------------------------------------------
(* The daily `ingest b3` of some date shares the source and the table.       *)

DailyIngest(d) ==
    /\ pc = "idle"
    /\ d \notin Weekend
    /\ quotes' = quotes \cup {d}
    /\ finished' = finished \cup {d}
    /\ lost' = lost \ {d}
    /\ UNCHANGED <<stores, pc, args, day, last, pending, year, advanced, faults>>

FullNext == Next \/ \E d \in Days : DailyIngest(d)

FullSpec == Init /\ [][FullNext]_vars

-------------------------------------------------------------------------------
(* Properties *)

\* Days a COMMIT covered, or at least was tried for: it raised.
Committed == finished \cup lost

\* Checkpoints some later job may be started with.
StoredCheckpoints == ({file} \cup {archive[r] : r \in Ranges}) \ {NoCheckpoint}

Reported == {c.range : c \in {k \in StoredCheckpoints : k.status = "succeeded"}}

\* The loader keeps the promise of every resumable load: committed days stay
\* committed, and no checkpoint says "succeeded" for a range with a day that
\* no commit covered, but for the days a COMMIT raised on.
Load == INSTANCE ResumableLoad
          WITH Units <- Days, UnitsOf <- DaysOf, reported <- Reported
ImplementsResumableLoad == Load!Spec

\* Whatever copy of the checkpoint the next job finds, and whatever the
\* database says, the days a resume skips were all covered by a commit, or are
\* days on which session.commit() itself raised: no other error, kill, timeout
\* or stale copy makes a resume skip a day.
ResumeSkipsOnlyFinished ==
    \A r \in Ranges : \A c \in {file, archive[r], NoCheckpoint} :
        \A d \in DaysOf[r] : d <= ResumeToken(c, r) => d \in Committed

\* The newest quote date in [start, end] is the last finished day of the
\* slice: no earlier day of it is missing (the comment in backfill_b3), but for
\* a day whose COMMIT raised and which a resume then went past.
DbMaxIsLastFinishedDay ==
    \A r \in Ranges : \A d \in DaysOf[r] : d <= DbMax(r) => d \in Committed

\* A failed job's checkpoint does not claim the day that raised, unless that
\* day had been committed before the error (the test of that name): not so when
\* it is the COMMIT that raised.
FailedDayNotClaimed ==
    pc = "exit" /\ file.status = "failed" /\ day <= file.last => day \in finished

\* A resumed job never downloads a day whose quotes are already committed.
CommittedDaysNotRefetched ==
    InLoop /\ resume => \A q \in quotes \cap DaysOf[range] : q < day

\* A job that ignored every checkpoint (--no-resume) and reports success has
\* covered its whole range, whatever gaps earlier jobs left: also the days they
\* lost to a COMMIT that raised.
NoResumeLeavesNoGap ==
    pc = "exit" /\ ~resume /\ file.status = "succeeded" => DaysOf[range] \subseteq finished

\* Every job ends, by finishing, failing or being stopped.
JobEnds == pc # "idle" ~> pc = "idle"

\* Re-dispatched after every stop, a range ends up with all its days covered,
\* but for those a COMMIT raised on.
EveryRangeFinished == \A r \in Ranges : <>(DaysOf[r] \subseteq Committed)
===============================================================================
