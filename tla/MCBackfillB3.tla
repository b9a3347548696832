---------------------------- MODULE MCBackfillB3 ------------------------------
(* Instances of BackfillB3 for TLC. *)
EXTENDS BackfillB3

\* Two slices with the same start, days 1..3: 2 is a Saturday, the year
\* turns before 3.
MCRanges == {[start |-> 1, end |-> 2], [start |-> 1, end |-> 3]}

\* One slice of two trading days around a Saturday.
MCOneRange == {[start |-> 1, end |-> 3]}

MCWeekend == {2}
MCYearOf == [d \in Days |-> IF d <= 2 THEN 2024 ELSE 2025]

===============================================================================
