----------------------------- MODULE ResumableLoad ----------------------------
(***************************************************************************)
(* What every resumable history loader promises, whatever its source: work *)
(* units (calendar days, SGS windows, CVM months) are finished one         *)
(* database commit at a time, finished work is never undone, and a range   *)
(* is reported as succeeded only when every unit of it is finished, or was *)
(* lost to a COMMIT that raised after its progress token had moved.        *)
(***************************************************************************)
CONSTANTS Units,      \* the work units
          Ranges,     \* what an operator can ask for
          UnitsOf     \* the units of each range

VARIABLES finished,   \* units covered by a commit
          lost,       \* units a COMMIT raised on, which a resume skips
          reported    \* ranges a stored checkpoint calls "succeeded"

vars == <<finished, lost, reported>>

Complete(r) == UnitsOf[r] \subseteq finished \cup lost

Init == finished = {} /\ lost = {} /\ reported = {}

\* One commit: some more units are finished, lost ones perhaps among them;
\* nothing is reported.
Commit ==
    /\ finished \subseteq finished'
    /\ finished' \subseteq Units
    /\ lost' \subseteq lost /\ lost \subseteq lost' \cup finished'
    /\ UNCHANGED reported

\* A COMMIT raises: units are lost, nothing is reported.
Lose ==
    /\ lost \subseteq lost'
    /\ lost' \subseteq Units
    /\ UNCHANGED <<finished, reported>>

\* A checkpoint is written, uploaded, restored or lost.
Report ==
    /\ reported' \in SUBSET {r \in Ranges : Complete(r)}
    /\ UNCHANGED <<finished, lost>>

Next == Commit \/ Lose \/ Report

Spec == Init /\ [][Next]_vars
===============================================================================
