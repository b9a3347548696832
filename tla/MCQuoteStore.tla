----------------------------- MODULE MCQuoteStore -----------------------------
(* Instances of QuoteStore for TLC. *)
EXTENDS QuoteStore

\* A daily file that may be republished (pA, then pB) and an annual file (pC)
\* that repeats the same identity; pA may also come back under the other key.
CONSTANTS day, annual, pA, pB, pC, i1, i2
MCKeys == {day, annual}
MCPayloads == {pA, pB, pC}
MCFeed == [k \in MCKeys |-> IF k = day THEN {pA, pB} ELSE {pA, pC}]
MCIdents == {i1, i2}
MCRowsOf == [p \in MCPayloads |-> IF p = pB THEN {i1, i2} ELSE {i1}]
===============================================================================
