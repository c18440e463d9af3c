----------------------------- MODULE MCCloudSaves -----------------------------
(* Two devices of one player, two accounts. *)
EXTENDS CloudSaves
=============================================================================
