------------------------------- MODULE MCRelocate -------------------------------
(* A folder below each of two library roots; the game starts below the     *)
(* root that the settings name.                                            *)
EXTENDS Relocate

MCRoots == {"old", "new"}
================================================================================
