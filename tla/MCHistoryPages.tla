---------------------------- MODULE MCHistoryPages ----------------------------
(* Instances of HistoryPages for TLC. *)
EXTENDS HistoryPages

CONSTANTS asset, other

\* Three dates of an asset with two price types, and one row of another.
MCRows == {[owner |-> asset, date |-> d, type |-> t] : d \in 2..3, t \in 1..2}
          \cup {[owner |-> asset, date |-> 1, type |-> 1]}
          \cup {[owner |-> other, date |-> 2, type |-> 1]}

MCSelects == [k \in Keys |-> {r \in MCRows : r.owner = k}]
===============================================================================
