--------------------------- MODULE MCDatasetPublish ---------------------------
(* Instances of DatasetPublish for TLC. *)
EXTENDS DatasetPublish, TLC

CONSTANTS quotes, rates, f1, f2, d1, d2, pub1, pub2, reader

\* The default catalog order, and one --dataset flag.
MCRequests == {<<quotes, rates>>, <<rates>>}

\* The two publishers differ in nothing.
MCSymmetry == Permutations(Publishers)
===============================================================================
