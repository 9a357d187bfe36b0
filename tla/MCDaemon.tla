------------------------------ MODULE MCDaemon ------------------------------
(* Instances of Daemon: two notes, a batch of one path, a channel of one   *)
(* event, so that every limit is reached by two edits.                     *)
EXTENDS Daemon, TLC

Symmetry == Permutations(Sources)

TwoConfigs == {"startup", "added"}
ThreeConfigs == {"startup", "added", "rebound"}
=============================================================================
