---------------------------- MODULE MCGridDriver ----------------------------
(* The instances of GridDriver that TLC checks, and what a comment of the     *)
(* driver says that its code does not keep.                                   *)
EXTENDS GridDriver

\* Drivers and cells are interchangeable: sound for the safety runs.
Symmetry == Permutations(Drivers) \cup Permutations(Cells)

\* _try_claim: two drivers judging the same claim stale must not both win.
OneWinner ==
    \A d1, d2 \in Drivers, c \in Cells : Tends(d1, c) /\ Tends(d2, c) => d1 = d2
=============================================================================
