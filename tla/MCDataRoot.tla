------------------------------ MODULE MCDataRoot ------------------------------
(* Instances of DataRoot for TLC.                                            *)
EXTENDS DataRoot, TLC

\* The clock never steps back: names sort in the order of issue.
MonotoneStamp == [i \in 1 .. MaxId |-> i]

AnyForeign == {Corrupt, Incompatible}

Symmetry == Permutations(Writers) \cup Permutations(Readers)
===============================================================================
