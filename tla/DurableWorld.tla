---------------------------- MODULE DurableWorld ----------------------------
(***************************************************************************)
(* What saving the world promises a shard: what a restart reads is the     *)
(* whole world of the last save that took effect, never a part of it and   *)
(* never a mixture of two; a save interrupted at a bad moment is held for  *)
(* the administrator, and nothing is loaded.  WorldSave implements this.   *)
(***************************************************************************)
CONSTANTS
  Worlds,  \* what the game's objects may be
  Down,    \* the server is not running
  Held     \* the data files need human intervention

VARIABLES
  memory,  \* the world of the running server
  durable  \* the world a restart would read

Init == memory \in Worlds /\ durable = memory

\* The game goes on.
Play ==
  /\ memory # Down
  /\ memory' \in Worlds
  /\ UNCHANGED durable

\* A save takes effect, all of it at once.
Save ==
  /\ memory # Down
  /\ durable' = memory
  /\ UNCHANGED memory

\* A save is under way that cannot be undone without help.
Hold ==
  /\ memory # Down
  /\ durable' = Held
  /\ UNCHANGED memory

Stop ==
  /\ memory # Down
  /\ memory' = Down
  /\ UNCHANGED durable

Restart ==
  /\ memory = Down
  /\ durable # Held
  /\ memory' = durable
  /\ UNCHANGED durable

Next == Play \/ Save \/ Hold \/ Stop \/ Restart

Spec == Init /\ [][Next]_<<memory, durable>>
=============================================================================
