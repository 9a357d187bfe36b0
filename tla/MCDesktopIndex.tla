--------------------------- MODULE MCDesktopIndex ---------------------------
(* Instances of DesktopIndex.                                              *)
EXTENDS DesktopIndex, TLC

CONSTANTS v1, z

\* All the sources are in one vault, and all the contents but z have one size:
\* the size does not give a change away.
InOneVault == [s \in Sources |-> v1]
Sizes == [c \in Contents |-> IF c = z THEN 2 ELSE 1]

\* The sources of the vault are interchangeable.
Symmetry == Permutations(Sources)
=============================================================================
