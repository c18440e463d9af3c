---------------------------- MODULE MCSaveBackups ----------------------------
(* One game, a limit of one automatic copy: each copy rotates another away. *)
EXTENDS SaveBackups
=============================================================================
