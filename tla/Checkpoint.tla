------------------------------ MODULE Checkpoint ------------------------------
(***************************************************************************)
(* The resume decision shared by the resumable loaders                     *)
(* (ingestion/checkpoint.py).  A progress token is a date (B3, BCB) or a   *)
(* month (CVM); tokens are ISO strings compared as text in the code, which *)
(* is date order, so here they are positive numbers and NoToken is None.   *)
(***************************************************************************)
EXTENDS Naturals

CONSTANT NoCheckpoint   \* load_checkpoint found no object under the key

NoToken == 0

Statuses == {"running", "failed", "succeeded"}

\* BackfillCheckpoint: the range it was written for, last_completed, status.
CheckpointRecords(Ranges, Tokens) ==
    [range: Ranges, last: Tokens \cup {NoToken}, status: Statuses]

LaterToken(a, b) == IF a < b THEN b ELSE a

\* A stored checkpoint counts only for the very same start and end.
ShouldResume(checkpoint, range, resume) ==
    /\ checkpoint # NoCheckpoint
    /\ resume
    /\ checkpoint.range = range

-------------------------------------------------------------------------------
(* Mutants: a restored file hides the database's newer date; the database is *)
(* never asked; --no-resume still asks it.                                   *)
FilePreferred(checkpoint, range, dbLast, resume) ==
    IF ~resume THEN NoToken
    ELSE IF ShouldResume(checkpoint, range, resume) THEN checkpoint.last ELSE dbLast

FileOnly(checkpoint, range, dbLast, resume) ==
    IF ShouldResume(checkpoint, range, resume) THEN checkpoint.last ELSE NoToken

DatabaseAlways(checkpoint, range, dbLast, resume) ==
    LaterToken(dbLast,
      IF ShouldResume(checkpoint, range, resume) THEN checkpoint.last ELSE NoToken)
-------------------------------------------------------------------------------

\* The later of a matching checkpoint and the newest stored date; nothing
\* at all under --no-resume.
EffectiveLastCompleted(checkpoint, range, dbLast, resume) ==
    IF ~resume
      THEN NoToken
      ELSE LaterToken(dbLast,
             IF ShouldResume(checkpoint, range, resume) THEN checkpoint.last
                                                        ELSE NoToken)
===============================================================================
