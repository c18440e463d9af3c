------------------------------ MODULE MCGameUpdate ------------------------------
(* Three releases: a chain of two patches, and an update of an updated game. *)
EXTENDS GameUpdate
================================================================================
