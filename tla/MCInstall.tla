------------------------------- MODULE MCInstall -------------------------------
(* Two installations into one folder. *)
EXTENDS Install, TLC

MCKinds == {"i1" :> first @@ "i2" :> "move" : first \in {"archive", "move"}}
=============================================================================
