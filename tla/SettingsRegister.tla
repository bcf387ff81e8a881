-------------------------- MODULE SettingsRegister --------------------------
(***************************************************************************)
(* What the settings promise: a register on the card that a start reads    *)
(* and a save overwrites as a whole.  A save that fails, or that the power *)
(* switch interrupts, leaves the register as it was; nothing else writes   *)
(* it.  Kept is what a save and the next start make of the settings        *)
(* between them; SettingsFile.tla says where it is not the identity.       *)
(***************************************************************************)
CONSTANTS
  Settings,    \* what the program can have in memory
  Kept(_)      \* the settings that come back after a save

VARIABLES
  running,     \* the program runs
  memory,      \* its settings
  stored       \* what a start would read

vars == <<running, memory, stored>>

Init ==
  /\ running = FALSE
  /\ memory \in Settings /\ stored \in Settings

Start ==
  /\ ~running
  /\ running' = TRUE
  /\ memory' = stored
  /\ UNCHANGED stored

\* The owner changes something.
Edit ==
  /\ running
  /\ memory' \in Settings
  /\ UNCHANGED <<running, stored>>

Save ==
  /\ running
  /\ stored' = Kept(memory)
  /\ UNCHANGED <<running, memory>>

Halt ==
  /\ running
  /\ running' = FALSE
  /\ UNCHANGED <<memory, stored>>

Next == Start \/ Edit \/ Save \/ Halt

Spec == Init /\ [][Next]_vars
=============================================================================
