-------------------------- MODULE MCOpenClastIndex --------------------------
(* Instances of OpenClastIndex.                                            *)
EXTENDS OpenClastIndex

CONSTANTS v1

InOneVault == [s \in Sources |-> v1]
=============================================================================
