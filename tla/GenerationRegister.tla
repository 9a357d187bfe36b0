-------------------------- MODULE GenerationRegister --------------------------
(***************************************************************************)
(* What the data root promises to whoever asks for the active generation:  *)
(* a register that only moves forward while the machine is up, and that a  *)
(* power loss may empty for a while or take back, but never behind the     *)
(* last acknowledged publication (docs/vertical-2.md, "Data root").        *)
(***************************************************************************)
EXTENDS Naturals

CONSTANTS Values,     \* the generations, in the order of issue
          Taken       \* somebody else's value, none of Values

VARIABLES current,    \* what active() returns, 0 when there is nothing
          floor,      \* the last acknowledged publication, 0 before the first
          up          \* whether the machine has power

vars == <<current, floor, up>>

Init == current = 0 /\ floor = 0 /\ up = TRUE

\* A publication becomes visible, or an open recovers a generation.
Publish ==
  /\ up
  /\ current' \in Values /\ current' >= floor
  /\ current \in Values => current' > current
  /\ UNCHANGED <<floor, up>>

\* The publisher is told that it is done.
Acknowledge ==
  /\ up
  /\ current \in Values
  /\ floor' = current
  /\ UNCHANGED <<current, up>>

\* The only step that may empty the register or take it back.
PowerLoss ==
  /\ up /\ up' = FALSE
  /\ \/ current' = 0
     \/ {current, current'} \subseteq Values /\ floor <= current' /\ current' <= current
     \/ current' = Taken /\ floor = 0
  /\ UNCHANGED floor

Restart == ~up /\ up' = TRUE /\ UNCHANGED <<current, floor>>

\* Somebody else takes the register over, and with it every promise.
Overwrite == up /\ current' = Taken /\ floor' = 0 /\ UNCHANGED up

\* What somebody else left is of no use and is removed.
Forget == up /\ current = Taken /\ current' = 0 /\ UNCHANGED <<floor, up>>

Next == Publish \/ Acknowledge \/ PowerLoss \/ Restart \/ Overwrite \/ Forget

Spec == Init /\ [][Next]_vars
===============================================================================
