----------------------------- MODULE MCAccountSync -----------------------------
(* Two devices of one account. *)
EXTENDS AccountSync

Few == [plays |-> 2, marks |-> 1, sets |-> 1, removals |-> 1, adds |-> 1, faults |-> 1]
=============================================================================
