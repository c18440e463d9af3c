------------------------------ MODULE AtomicUpdate ------------------------------
(***************************************************************************)
(* What the update service promises for one game, whatever happens to the  *)
(* program on the way: the game is at one version, at most one earlier      *)
(* version is offered to go back to, and each changes in one step.          *)
(***************************************************************************)
EXTENDS Naturals

CONSTANT MaxVersion   \* releases are numbered 1..MaxVersion

VARIABLES installed,  \* the version the game is at
          kept        \* the version that can be gone back to, 0 if there is none

Versions == 1 .. MaxVersion

Init == installed \in Versions /\ kept \in 0 .. installed

\* A release replaces the installed version, which becomes the one to go back to.
Replace == \E v \in Versions :
              v > installed /\ installed' = v /\ kept' = installed

\* A patch moves the game forward under the copy taken before the first one.
Patch == /\ installed' \in Versions /\ installed' > installed
         /\ kept' = kept

\* The copy before the first patch.
Keep == kept' = installed /\ installed' = installed

Forget == kept' = 0 /\ installed' = installed

GoBack == kept # 0 /\ installed' = kept /\ kept' = 0

Next == Replace \/ Patch \/ Keep \/ Forget \/ GoBack

Spec == Init /\ [][Next]_<<installed, kept>>
================================================================================
