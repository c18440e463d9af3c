-------------------------- MODULE MCDownloadQueue --------------------------
(***************************************************************************)
(* Values for checking the queue: the rules of the download manager over a *)
(* client that stays up.                                                   *)
(***************************************************************************)
EXTENDS DownloadManager

Setting(max, seed, upload) ==
  [max |-> max, seed |-> seed, upload |-> upload, pausePlay |-> TRUE,
   sched |-> TRUE]

OneSlot == {Setting(1, TRUE, TRUE)}

\* The user changes the limit, and turns seeding and upload while downloading
\* on and off.
Settings == {Setting(1, TRUE, TRUE), Setting(2, FALSE, FALSE)}

Stopped(s) == [status |-> s, ignore |-> FALSE, seeding |-> FALSE, have |-> FALSE]

\* The first start: an empty list.
NewList == {[items |-> <<>>, rec |-> [d \in Ids |-> Stopped("queued")]]}

\* The program starts while the route is still being checked: no restore runs
\* until the client is up.
OfflineInit == Init /\ net = "down"

OfflineSpec == OfflineInit /\ [][Next]_vars

\* The rules treat the downloads alike: their order is in the list, never in
\* their names.
IdSymmetry == Permutations(Ids)
=============================================================================
