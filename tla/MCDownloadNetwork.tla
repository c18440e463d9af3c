------------------------- MODULE MCDownloadNetwork -------------------------
(***************************************************************************)
(* Values for checking what happens to stored downloads when the program   *)
(* starts, the client is replaced, or the program ends and starts again.   *)
(***************************************************************************)
EXTENDS MCDownloadQueue

One(a)    == [items |-> <<"d1">>,
              rec   |-> [d \in Ids |-> IF d = "d1" THEN a ELSE Stopped("queued")]]
Two(a, b) == [items |-> <<"d1", "d2">>,
              rec   |-> [d \in Ids |-> IF d = "d1" THEN a ELSE b]]

Finished == [Stopped("completed") EXCEPT !.have = TRUE]
Seed     == [Finished EXCEPT !.seeding = TRUE]

OneOfAny == {One(Stopped("queued")), One(Stopped("paused")), One(Finished), One(Seed)}
TwoMixed == {Two(Stopped("queued"), Stopped("queued")), Two(Seed, Stopped("queued")),
             Two(Stopped("paused"), Stopped("queued")), Two(Finished, Stopped("paused"))}

\* Two downloads, or one and another that is added.
OneOrTwo == {Two(Seed, Stopped("queued")), Two(Stopped("paused"), Stopped("queued")),
             One(Finished)}
=============================================================================
