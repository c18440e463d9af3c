------------------------------ MODULE AtomicSaves ------------------------------
(***************************************************************************)
(* What the saves of one game look like to its player, whatever happens to  *)
(* the launcher: they are what the game wrote last or, in one step, a copy   *)
(* that was asked for; and what a copy replaces is itself among the copies.  *)
(***************************************************************************)
EXTENDS Naturals

CONSTANT MaxPlays   \* the game writes 1..MaxPlays, in this order

VARIABLES saves,    \* what the game would load, 0 when it has no saves
          copies    \* what could be brought back

Contents == 1 .. MaxPlays

Init == saves \in 0 .. MaxPlays /\ copies \subseteq Contents

\* The game saves.
Play == saves' \in Contents /\ saves' > saves /\ copies' = copies

\* The player removes the folder.
Remove == saves' = 0 /\ copies' = copies

Restore == /\ saves' \in copies
           /\ saves \in copies \cup {0}
           /\ copies' \subseteq Contents

\* Copies come, only of what there is, and go.
Copy == saves' = saves /\ copies' \subseteq Contents

Next == Play \/ Remove \/ Restore \/ Copy

Spec == Init /\ [][Next]_<<saves, copies>>
================================================================================
