----------------------------- MODULE MCSelfUpdate -----------------------------
(* Three releases; the schema of one file changes with each, of another with the last. *)
EXTENDS SelfUpdate, TLC

MCSchema == "a" :> <<1, 2, 3>> @@ "b" :> <<1, 1, 2>>
=============================================================================
