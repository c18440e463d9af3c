-------------------------- MODULE DownloadData_proofs --------------------------
(***************************************************************************)
(* What holds of a torrent and its folders for any number of downloads,      *)
(* folders and requests: the torrent writes to the folder of the one         *)
(* download that has it, what a deletion leaves is written down, and a       *)
(* leftover that is removed belongs to nobody.                               *)
(*                                                                          *)
(* The reservation of the hash is not what keeps the downloads apart: a job  *)
(* that ends gives it back a second time.  That the client refuses a torrent *)
(* it has, and that whoever has it drops it, is (HoldInv).                   *)
(***************************************************************************)
EXTENDS DownloadData, FiniteSetTheorems, TLAPS

\* A request that does something has a folder to do it in.
CallInv == \A c \in Calls :
  /\ call[c].at # "idle" => call[c].to # Nowhere
  /\ call[c].kind \in {"start", "task", "check"} => call[c].to \in Dests

\* Who has the torrent, besides a pending one and the downloads in engine.
CallHolds(c) == call[c].at \in {"check", "added"}
JobHolds(id) == job[id] \in {"spawned", "settle", "check"}
TearHolds(id) == teardown[id].engine

NoCallHolds == \A c \in Calls : ~CallHolds(c)
NoJobHolds  == \A id \in Ids : ~JobHolds(id)
NoTearHolds == \A id \in Ids : ~TearHolds(id)

USE DEF CallHolds, JobHolds, TearHolds, NoCallHolds, NoJobHolds, NoTearHolds

\* At most one has it, and the client has it then, where it belongs.
HoldInv ==
  /\ torrent = Nowhere => ~pending /\ NoCallHolds /\ NoJobHolds /\ NoTearHolds /\ engine = {}
  /\ pending => NoCallHolds /\ NoJobHolds /\ NoTearHolds /\ engine = {}
  /\ \A c \in Calls : CallHolds(c) =>
       /\ NoJobHolds /\ NoTearHolds /\ engine = {}
       /\ \A b \in Calls : CallHolds(b) => b = c
  /\ \A id \in Ids : JobHolds(id) =>
       /\ NoTearHolds /\ engine = {}
       /\ \A i \in Ids : JobHolds(i) => i = id
  /\ \A id \in Ids : TearHolds(id) =>
       /\ engine = {}
       /\ \A i \in Ids : TearHolds(i) => i = id
  /\ \A i, id \in engine : i = id
PlaceInv ==
  /\ \A c \in Calls : call[c].at = "added" => torrent = call[c].to
  /\ \A id \in Ids : JobHolds(id) \/ id \in engine => torrent = dest[id]

\* What a download has at which time of its life.
LifeInv == \A id \in Ids :
  /\ job[id] # "none" => item[id] # "new"
  /\ id \in engine => Exists(id)
  /\ teardown[id].at # "none" \/ teardown[id].engine => item[id] = "gone"
  /\ del[id] = "guarded" => id \notin installs
  /\ id \in installs /\ teardown[id].at # "none" => teardown[id].kind # "delete"

\* The list on the disk is the list, and has what was left; nobody is about to take the
\* entry of what is there, if nobody takes another's.
LeftInv ==
  /\ listed = cleanups
  /\ "dropsOthers" \notin Events => \A d \in Dests : files[d] = "left" =>
       /\ ~Unlisting(d)
       /\ \E c \in cleanups : c.dest = d /\ item[c.id] = "gone"

\* Nobody has a download in a folder that is being cleared, or is about to.
ClaimInv == \A d \in Dests : claim[d] # "none" =>
  /\ \A id \in Ids : Exists(id) => dest[id] # d
  /\ \A c \in Calls : call[c].kind = "start" => call[c].to # d

-----------------------------------------------------------------------------
(* The types, and what the helpers of a step do *)

ItemStates == {"new", "active", "done", "failed", "gone"}
DiskStates == {"new", "active", "done", "gone"}
JobSteps   == {"none", "spawned", "unbegun", "add", "settle", "check", "release", "end"}
DelSteps   == {"none", "claimed", "guarded"}
ClaimSteps == {"none", "held", "removed"}
Contents   == {"none", "data", "left"}
Places     == Dests \cup {Nowhere, MetaDir}
CallSteps  == {"idle", "check", "add", "added", "release"}
CallKinds  == {"none", "fetch", "look", "start", "task", "check", "inspect"}
Requests   == [kind : CallKinds, at : CallSteps, to : Places]
TearSteps  == {"none", "wait", "files", "list"}
TearKinds  == {"keep", "purge", "delete"}
Teardowns  == [at : TearSteps, kind : TearKinds, engine : BOOLEAN]
Leftovers  == [id : Ids, dest : Dests]

\* TypeOK with its sets named; on the disk a download is there when it is in memory.
Types ==
  /\ item \in [Ids -> ItemStates] /\ stored \in [Ids -> DiskStates]
  /\ dest \in [Ids -> Dests] /\ engine \subseteq Ids /\ installs \subseteq Ids
  /\ pending \in BOOLEAN /\ reserved \in BOOLEAN /\ torrent \in Places
  /\ job \in [Ids -> JobSteps] /\ call \in [Calls -> Requests]
  /\ del \in [Ids -> DelSteps] /\ teardown \in [Ids -> Teardowns]
  /\ cleanups \subseteq Leftovers /\ listed \subseteq Leftovers
  /\ claim \in [Dests -> ClaimSteps] /\ files \in [Dests -> Contents]
DiskInv == \A id \in Ids : item[id] \in {"new", "gone"} \/ stored[id] \in {"new", "gone"} => item[id] = stored[id]

\* The invariant
IInv == Types /\ DiskInv /\ CallInv /\ HoldInv /\ PlaceInv /\ LifeInv /\ LeftInv

\* That is the type invariant.
LEMMA TypesAre == TypeOK <=> Types /\ DiskInv
BY DEF TypeOK, Types, DiskInv, ItemStates, DiskStates, JobSteps, DelSteps, ClaimSteps,
   Contents, Places, CallSteps, CallKinds, Requests, TearSteps, TearKinds, Teardowns, Leftovers

\* A folder is a place and not one of the others.
LEMMA PlacesAre == /\ Dests \subseteq Places /\ Nowhere \in Places /\ MetaDir \in Places
                   /\ Nowhere \notin Dests /\ MetaDir # Nowhere
BY DownloadDataConstants DEF Places, Nowhere, MetaDir

\* A request goes on, ...
LEMMA GotoSteps ==
  ASSUME Types, NEW c \in Calls, NEW at \in CallSteps, Goto(c, at)
  PROVE  /\ call' \in [Calls -> Requests] /\ call'[c].at = at
         /\ call'[c].kind = call[c].kind /\ call'[c].to = call[c].to
         /\ \A b \in Calls : b # c => call'[b] = call[b]
BY DEF Types, Goto, Requests

\* ... it ends, ...
LEMMA FinishSteps ==
  ASSUME Types, NEW c \in Calls, Finish(c)
  PROVE  /\ call' \in [Calls -> Requests] /\ call'[c].at = "idle" /\ call'[c].kind = "none"
         /\ \A b \in Calls : b # c => call'[b] = call[b]
<1>1. Idle \in Requests /\ Idle.at = "idle" /\ Idle.kind = "none"
  BY PlacesAre DEF Idle, Requests, CallKinds, CallSteps
<1> QED BY <1>1 DEF Types, Finish

\* How a request begins
Asks(c, kind, at, to) == call' = [call EXCEPT ![c] = [kind |-> kind, at |-> at, to |-> to]]

\* ... or it begins.
LEMMA AsksSteps ==
  ASSUME Types, NEW c \in Calls, NEW kind \in CallKinds, NEW at \in CallSteps, NEW to \in Places, Asks(c, kind, at, to)
  PROVE  /\ call' \in [Calls -> Requests] /\ call'[c].at = at /\ call'[c].kind = kind /\ call'[c].to = to
         /\ \A b \in Calls : b # c => call'[b] = call[b]
BY DEF Types, Asks, Requests

\* A removal in the background begins, and it takes the torrent with it ...
LEMMA TearBegins ==
  ASSUME Types, NEW id \in Ids, NEW kind \in TearKinds, Tear(id, kind)
  PROVE  /\ teardown' \in [Ids -> Teardowns] /\ teardown'[id].at = "wait" /\ teardown'[id].kind = kind
         /\ teardown'[id].engine = (id \in engine) /\ engine' = engine \ {id}
         /\ \A i \in Ids : i # id => teardown'[i] = teardown[i]
<1>1. [at |-> "wait", kind |-> kind, engine |-> id \in engine] \in Teardowns
  BY DEF Teardowns, TearSteps
<1> QED BY <1>1 DEF Types, Tear

\* ... and goes on without it.
LEMMA TearGoesOn ==
  ASSUME Types, NEW id \in Ids, NEW at \in TearSteps, TearTo(id, at)
  PROVE  /\ teardown' \in [Ids -> Teardowns] /\ teardown'[id].at = at /\ teardown'[id].kind = teardown[id].kind
         /\ teardown'[id].engine = FALSE
         /\ \A i \in Ids : i # id => teardown'[i] = teardown[i]
BY DEF Types, TearTo, Teardowns

\* The folder of a request is a place; what is listed is of a download and in a folder.
LEMMA Members ==
  ASSUME Types
  PROVE  /\ \A c \in Calls : call[c].to \in Places
         /\ \A e \in cleanups : e.id \in Ids /\ e.dest \in Dests
         /\ \A id \in Ids : teardown[id].engine \in BOOLEAN /\ teardown[id].kind \in TearKinds
BY DEF Types, Requests, Leftovers, Teardowns

-----------------------------------------------------------------------------
(* The steps *)

\* A request for metadata takes the reservation.
LEMMA FetchKeeps ==
  ASSUME IInv, NEW c \in Calls, Fetch(c)
  PROVE  IInv'
<1>t. Types /\ DiskInv /\ CallInv /\ HoldInv /\ PlaceInv /\ LifeInv /\ LeftInv
  BY DEF IInv
<1>1. /\ reserved' = TRUE /\ Asks(c, "fetch", "add", MetaDir)
      /\ UNCHANGED <<item, dest, stored, pending, torrent, engine, job, del, teardown, cleanups,
                     listed, claim, files, installs>>
  BY DEF Fetch, records, leftover, Asks
<1>2. "fetch" \in CallKinds /\ "add" \in CallSteps /\ MetaDir \in Places
  BY PlacesAre DEF CallKinds, CallSteps
<1>3. /\ call' \in [Calls -> Requests] /\ call'[c].kind = "fetch" /\ call'[c].at = "add" /\ call'[c].to = MetaDir
      /\ \A b \in Calls : b # c => call'[b] = call[b]
  BY <1>t, <1>1, <1>2, AsksSteps
<1>4. Types'
  BY <1>t, <1>1, <1>3, PlacesAre DEF Types
<1>5. DiskInv'
  BY <1>t, <1>1 DEF DiskInv
<1>6. CallInv'
  BY <1>t, <1>1, <1>3, PlacesAre DEF CallInv
<1>7. HoldInv'
  BY <1>t, <1>1, <1>3 DEF HoldInv
<1>8. PlaceInv'
  BY <1>t, <1>1, <1>3 DEF HoldInv, PlaceInv
<1>9. LifeInv'
  BY <1>t, <1>1 DEF LifeInv, Exists
<1>10. LeftInv'
  BY <1>t, <1>1 DEF LeftInv, Unlisting
<1> QED BY <1>4, <1>5, <1>6, <1>7, <1>8, <1>9, <1>10 DEF IInv

\* metainfoFor takes none.
LEMMA LookKeeps ==
  ASSUME IInv, NEW c \in Calls, Look(c)
  PROVE  IInv'
<1>t. Types /\ DiskInv /\ CallInv /\ HoldInv /\ PlaceInv /\ LifeInv /\ LeftInv
  BY DEF IInv
<1>1. /\ Asks(c, "look", "add", MetaDir)
      /\ UNCHANGED <<item, dest, stored, pending, reserved, torrent, engine, job, del, teardown,
                     cleanups, listed, claim, files, installs>>
  BY DEF Look, records, torrents, leftover, Asks
<1>2. "look" \in CallKinds /\ "add" \in CallSteps /\ MetaDir \in Places
  BY PlacesAre DEF CallKinds, CallSteps
<1>3. /\ call' \in [Calls -> Requests] /\ call'[c].kind = "look" /\ call'[c].at = "add" /\ call'[c].to = MetaDir
      /\ \A b \in Calls : b # c => call'[b] = call[b]
  BY <1>t, <1>1, <1>2, AsksSteps
<1>4. Types'
  BY <1>t, <1>1, <1>3, PlacesAre DEF Types
<1>5. DiskInv'
  BY <1>t, <1>1 DEF DiskInv
<1>6. CallInv'
  BY <1>t, <1>1, <1>3, PlacesAre DEF CallInv
<1>7. HoldInv'
  BY <1>t, <1>1, <1>3 DEF HoldInv
<1>8. PlaceInv'
  BY <1>t, <1>1, <1>3 DEF HoldInv, PlaceInv
<1>9. LifeInv'
  BY <1>t, <1>1 DEF LifeInv, Exists
<1>10. LeftInv'
  BY <1>t, <1>1 DEF LeftInv, Unlisting
<1> QED BY <1>4, <1>5, <1>6, <1>7, <1>8, <1>9, <1>10 DEF IInv

\* StartDownloadFrom takes the pending torrent over.
LEMMA StartKeeps ==
  ASSUME IInv, NEW c \in Calls, NEW d \in Dests, Start(c, d)
  PROVE  IInv'
<1>t. Types /\ DiskInv /\ CallInv /\ HoldInv /\ PlaceInv /\ LifeInv /\ LeftInv
  BY DEF IInv
<1>1. /\ pending /\ Unclaimed(d) /\ pending' = FALSE /\ reserved' = TRUE
      /\ Asks(c, "start", "check", d)
      /\ UNCHANGED <<item, dest, stored, torrent, engine, job, del, teardown, cleanups, listed,
                     claim, files, installs>>
  BY DEF Start, records, leftover, Asks
<1>2. "start" \in CallKinds /\ "check" \in CallSteps /\ d \in Places
  BY PlacesAre DEF CallKinds, CallSteps
<1>3. /\ call' \in [Calls -> Requests] /\ call'[c].kind = "start" /\ call'[c].at = "check" /\ call'[c].to = d
      /\ \A b \in Calls : b # c => call'[b] = call[b]
  BY <1>t, <1>1, <1>2, AsksSteps
<1>4. Types'
  BY <1>t, <1>1, <1>3, PlacesAre DEF Types
<1>5. DiskInv'
  BY <1>t, <1>1 DEF DiskInv
<1>6. CallInv'
  BY <1>t, <1>1, <1>3, PlacesAre DEF CallInv
<1>7. HoldInv'
  BY <1>t, <1>1, <1>3 DEF HoldInv
<1>8. PlaceInv'
  BY <1>t, <1>1, <1>3 DEF HoldInv, PlaceInv
<1>9. LifeInv'
  BY <1>t, <1>1 DEF LifeInv, Exists
<1>10. LeftInv'
  BY <1>t, <1>1 DEF LeftInv, Unlisting
<1> QED BY <1>4, <1>5, <1>6, <1>7, <1>8, <1>9, <1>10 DEF IInv

\* It gives the torrent back or drops it.
LEMMA StartCheckKeeps ==
  ASSUME IInv, NEW c \in Calls, StartCheck(c)
  PROVE  IInv'
<1>t. Types /\ DiskInv /\ CallInv /\ HoldInv /\ PlaceInv /\ LifeInv /\ LeftInv
  BY DEF IInv
<1>1. \/ /\ call[c].at = "check" /\ reserved' = FALSE /\ pending' = TRUE
         /\ torrent' = (IF pending THEN Nowhere ELSE torrent) /\ Finish(c)
         /\ UNCHANGED <<item, dest, stored, engine, job, del, teardown, cleanups, listed, claim,
                        files, installs>>
      \/ /\ call[c].at = "check" /\ torrent' = Nowhere /\ Goto(c, "add")
         /\ UNCHANGED <<item, dest, stored, pending, reserved, engine, job, del, teardown,
                        cleanups, listed, claim, files, installs>>
  BY DEF StartCheck, records, leftover
<1>2. CASE /\ call[c].at = "check" /\ reserved' = FALSE /\ pending' = TRUE
           /\ torrent' = (IF pending THEN Nowhere ELSE torrent) /\ Finish(c)
           /\ UNCHANGED <<item, dest, stored, engine, job, del, teardown, cleanups, listed, claim,
                          files, installs>>
  <2>1. /\ call' \in [Calls -> Requests] /\ call'[c].at = "idle" /\ call'[c].kind = "none"
        /\ \A b \in Calls : b # c => call'[b] = call[b]
    BY <1>t, <1>2, FinishSteps
  <2>2. Types'
    BY <1>t, <1>2, <2>1, PlacesAre DEF Types
  <2>3. DiskInv'
    BY <1>t, <1>2 DEF DiskInv
  <2>4. CallInv'
    BY <1>t, <1>2, <2>1 DEF CallInv
  <2>5. HoldInv'
    BY <1>t, <1>2, <2>1 DEF HoldInv
  <2>6. PlaceInv'
    BY <1>t, <1>2, <2>1 DEF HoldInv, PlaceInv
  <2>7. LifeInv'
    BY <1>t, <1>2 DEF LifeInv, Exists
  <2>8. LeftInv'
    BY <1>t, <1>2 DEF LeftInv, Unlisting
  <2> QED BY <2>2, <2>3, <2>4, <2>5, <2>6, <2>7, <2>8 DEF IInv
<1>3. CASE /\ call[c].at = "check" /\ torrent' = Nowhere /\ Goto(c, "add")
           /\ UNCHANGED <<item, dest, stored, pending, reserved, engine, job, del, teardown,
                          cleanups, listed, claim, files, installs>>
  <2>1. "add" \in CallSteps
    BY DEF CallSteps
  <2>2. /\ call' \in [Calls -> Requests] /\ call'[c].at = "add"
        /\ call'[c].kind = call[c].kind /\ call'[c].to = call[c].to
        /\ \A b \in Calls : b # c => call'[b] = call[b]
    BY <1>t, <1>3, <2>1, GotoSteps
  <2>3. Types'
    BY <1>t, <1>3, <2>2, PlacesAre DEF Types
  <2>4. DiskInv'
    BY <1>t, <1>3 DEF DiskInv
  <2>5. CallInv'
    BY <1>t, <1>3, <2>2 DEF CallInv
  <2>6. HoldInv'
    BY <1>t, <1>3, <2>2 DEF HoldInv
  <2>7. PlaceInv'
    BY <1>t, <1>3, <2>2 DEF HoldInv, PlaceInv
  <2>8. LifeInv'
    BY <1>t, <1>3 DEF LifeInv, Exists
  <2>9. LeftInv'
    BY <1>t, <1>3 DEF LeftInv, Unlisting
  <2> QED BY <2>3, <2>4, <2>5, <2>6, <2>7, <2>8, <2>9 DEF IInv
<1> QED BY <1>1, <1>2, <1>3

\* AddTask and InspectReuse take the reservation.
LEMMA RequestKeeps ==
  ASSUME IInv, NEW c \in Calls, NEW kind \in {"task", "check", "inspect"}, NEW d \in Dests, Request(c, kind, d)
  PROVE  IInv'
<1>t. Types /\ DiskInv /\ CallInv /\ HoldInv /\ PlaceInv /\ LifeInv /\ LeftInv
  BY DEF IInv
<1>1. /\ reserved' = TRUE /\ Asks(c, kind, "add", d)
      /\ UNCHANGED <<item, dest, stored, pending, torrent, engine, job, del, teardown, cleanups,
                     listed, claim, files, installs>>
  BY DEF Request, records, leftover, Asks
<1>2. kind \in CallKinds /\ "add" \in CallSteps /\ d \in Places
  BY PlacesAre DEF CallKinds, CallSteps
<1>3. /\ call' \in [Calls -> Requests] /\ call'[c].kind = kind /\ call'[c].at = "add" /\ call'[c].to = d
      /\ \A b \in Calls : b # c => call'[b] = call[b]
  BY <1>t, <1>1, <1>2, AsksSteps
<1>4. Types'
  BY <1>t, <1>1, <1>3, PlacesAre DEF Types
<1>5. DiskInv'
  BY <1>t, <1>1 DEF DiskInv
<1>6. CallInv'
  BY <1>t, <1>1, <1>3, PlacesAre DEF CallInv
<1>7. HoldInv'
  BY <1>t, <1>1, <1>3 DEF HoldInv
<1>8. PlaceInv'
  BY <1>t, <1>1, <1>3 DEF HoldInv, PlaceInv
<1>9. LifeInv'
  BY <1>t, <1>1 DEF LifeInv, Exists
<1>10. LeftInv'
  BY <1>t, <1>1 DEF LeftInv, Unlisting
<1> QED BY <1>4, <1>5, <1>6, <1>7, <1>8, <1>9, <1>10 DEF IInv

\* A request has the torrent once the client takes it.
LEMMA AddTorrentKeeps ==
  ASSUME IInv, NEW c \in Calls, AddTorrent(c)
  PROVE  IInv'
<1>t. Types /\ DiskInv /\ CallInv /\ HoldInv /\ PlaceInv /\ LifeInv /\ LeftInv
  BY DEF IInv
<1>1. \/ /\ call[c].at = "add" /\ torrent = Nowhere /\ torrent' = call[c].to /\ Goto(c, "added")
         /\ UNCHANGED <<item, dest, stored, pending, reserved, engine, job, del, teardown,
                        cleanups, listed, claim, files, installs>>
      \/ /\ call[c].at = "add" /\ Goto(c, "release")
         /\ UNCHANGED <<item, dest, stored, pending, reserved, torrent, engine, job, del,
                        teardown, cleanups, listed, claim, files, installs>>
      \/ /\ call[c].at = "add" /\ Finish(c)
         /\ UNCHANGED <<item, dest, stored, pending, reserved, torrent, engine, job, del,
                        teardown, cleanups, listed, claim, files, installs>>
  BY DEF AddTorrent, records, leftover, Add
<1>2. CASE /\ call[c].at = "add" /\ torrent = Nowhere /\ torrent' = call[c].to /\ Goto(c, "added")
           /\ UNCHANGED <<item, dest, stored, pending, reserved, engine, job, del, teardown,
                          cleanups, listed, claim, files, installs>>
  <2>1. "added" \in CallSteps
    BY DEF CallSteps
  <2>2. /\ call' \in [Calls -> Requests] /\ call'[c].at = "added"
        /\ call'[c].kind = call[c].kind /\ call'[c].to = call[c].to
        /\ \A b \in Calls : b # c => call'[b] = call[b]
    BY <1>t, <1>2, <2>1, GotoSteps
  <2>3. Types'
    BY <1>t, <1>2, <2>2, PlacesAre, Members DEF Types
  <2>4. DiskInv'
    BY <1>t, <1>2 DEF DiskInv
  <2>5. CallInv'
    BY <1>t, <1>2, <2>2 DEF CallInv
  <2>6. HoldInv'
    BY <1>t, <1>2, <2>2, PlacesAre DEF HoldInv, CallInv
  <2>7. PlaceInv'
    BY <1>t, <1>2, <2>2 DEF HoldInv, PlaceInv
  <2>8. LifeInv'
    BY <1>t, <1>2 DEF LifeInv, Exists
  <2>9. LeftInv'
    BY <1>t, <1>2 DEF LeftInv, Unlisting
  <2> QED BY <2>3, <2>4, <2>5, <2>6, <2>7, <2>8, <2>9 DEF IInv
<1>3. CASE /\ call[c].at = "add" /\ Goto(c, "release")
           /\ UNCHANGED <<item, dest, stored, pending, reserved, torrent, engine, job, del,
                          teardown, cleanups, listed, claim, files, installs>>
  <2>1. "release" \in CallSteps
    BY DEF CallSteps
  <2>2. /\ call' \in [Calls -> Requests] /\ call'[c].at = "release"
        /\ call'[c].kind = call[c].kind /\ call'[c].to = call[c].to
        /\ \A b \in Calls : b # c => call'[b] = call[b]
    BY <1>t, <1>3, <2>1, GotoSteps
  <2>3. Types'
    BY <1>t, <1>3, <2>2, PlacesAre, Members DEF Types
  <2>4. DiskInv'
    BY <1>t, <1>3 DEF DiskInv
  <2>5. CallInv'
    BY <1>t, <1>3, <2>2 DEF CallInv
  <2>6. HoldInv'
    BY <1>t, <1>3, <2>2, PlacesAre DEF HoldInv, CallInv
  <2>7. PlaceInv'
    BY <1>t, <1>3, <2>2 DEF HoldInv, PlaceInv
  <2>8. LifeInv'
    BY <1>t, <1>3 DEF LifeInv, Exists
  <2>9. LeftInv'
    BY <1>t, <1>3 DEF LeftInv, Unlisting
  <2> QED BY <2>3, <2>4, <2>5, <2>6, <2>7, <2>8, <2>9 DEF IInv
<1>4. CASE /\ call[c].at = "add" /\ Finish(c)
           /\ UNCHANGED <<item, dest, stored, pending, reserved, torrent, engine, job, del,
                          teardown, cleanups, listed, claim, files, installs>>
  <2>1. /\ call' \in [Calls -> Requests] /\ call'[c].at = "idle" /\ call'[c].kind = "none"
        /\ \A b \in Calls : b # c => call'[b] = call[b]
    BY <1>t, <1>4, FinishSteps
  <2>2. Types'
    BY <1>t, <1>4, <2>1, PlacesAre DEF Types
  <2>3. DiskInv'
    BY <1>t, <1>4 DEF DiskInv
  <2>4. CallInv'
    BY <1>t, <1>4, <2>1 DEF CallInv
  <2>5. HoldInv'
    BY <1>t, <1>4, <2>1 DEF HoldInv
  <2>6. PlaceInv'
    BY <1>t, <1>4, <2>1 DEF HoldInv, PlaceInv
  <2>7. LifeInv'
    BY <1>t, <1>4 DEF LifeInv, Exists
  <2>8. LeftInv'
    BY <1>t, <1>4 DEF LeftInv, Unlisting
  <2> QED BY <2>2, <2>3, <2>4, <2>5, <2>6, <2>7, <2>8 DEF IInv
<1> QED BY <1>1, <1>2, <1>3, <1>4

\* The metadata is there and the torrent pending, or it is dropped.
LEMMA FetchedKeeps ==
  ASSUME IInv, NEW c \in Calls, Fetched(c)
  PROVE  IInv'
<1>t. Types /\ DiskInv /\ CallInv /\ HoldInv /\ PlaceInv /\ LifeInv /\ LeftInv
  BY DEF IInv
<1>1. \/ /\ call[c].at = "added" /\ pending' = TRUE /\ reserved' = FALSE /\ Finish(c)
         /\ UNCHANGED <<item, dest, stored, torrent, engine, job, del, teardown, cleanups, listed,
                        claim, files, installs>>
      \/ /\ call[c].at = "added" /\ torrent' = Nowhere /\ Goto(c, "release")
         /\ UNCHANGED <<item, dest, stored, pending, reserved, engine, job, del, teardown,
                        cleanups, listed, claim, files, installs>>
  BY DEF Fetched, records, leftover
<1>2. CASE /\ call[c].at = "added" /\ pending' = TRUE /\ reserved' = FALSE /\ Finish(c)
           /\ UNCHANGED <<item, dest, stored, torrent, engine, job, del, teardown, cleanups,
                          listed, claim, files, installs>>
  <2>1. /\ call' \in [Calls -> Requests] /\ call'[c].at = "idle" /\ call'[c].kind = "none"
        /\ \A b \in Calls : b # c => call'[b] = call[b]
    BY <1>t, <1>2, FinishSteps
  <2>2. Types'
    BY <1>t, <1>2, <2>1, PlacesAre DEF Types
  <2>3. DiskInv'
    BY <1>t, <1>2 DEF DiskInv
  <2>4. CallInv'
    BY <1>t, <1>2, <2>1 DEF CallInv
  <2>5. HoldInv'
    BY <1>t, <1>2, <2>1 DEF HoldInv
  <2>6. PlaceInv'
    BY <1>t, <1>2, <2>1 DEF HoldInv, PlaceInv
  <2>7. LifeInv'
    BY <1>t, <1>2 DEF LifeInv, Exists
  <2>8. LeftInv'
    BY <1>t, <1>2 DEF LeftInv, Unlisting
  <2> QED BY <2>2, <2>3, <2>4, <2>5, <2>6, <2>7, <2>8 DEF IInv
<1>3. CASE /\ call[c].at = "added" /\ torrent' = Nowhere /\ Goto(c, "release")
           /\ UNCHANGED <<item, dest, stored, pending, reserved, engine, job, del, teardown,
                          cleanups, listed, claim, files, installs>>
  <2>1. "release" \in CallSteps
    BY DEF CallSteps
  <2>2. /\ call' \in [Calls -> Requests] /\ call'[c].at = "release"
        /\ call'[c].kind = call[c].kind /\ call'[c].to = call[c].to
        /\ \A b \in Calls : b # c => call'[b] = call[b]
    BY <1>t, <1>3, <2>1, GotoSteps
  <2>3. Types'
    BY <1>t, <1>3, <2>2, PlacesAre DEF Types
  <2>4. DiskInv'
    BY <1>t, <1>3 DEF DiskInv
  <2>5. CallInv'
    BY <1>t, <1>3, <2>2 DEF CallInv
  <2>6. HoldInv'
    BY <1>t, <1>3, <2>2 DEF HoldInv
  <2>7. PlaceInv'
    BY <1>t, <1>3, <2>2 DEF HoldInv, PlaceInv
  <2>8. LifeInv'
    BY <1>t, <1>3 DEF LifeInv, Exists
  <2>9. LeftInv'
    BY <1>t, <1>3 DEF LeftInv, Unlisting
  <2> QED BY <2>3, <2>4, <2>5, <2>6, <2>7, <2>8, <2>9 DEF IInv
<1> QED BY <1>1, <1>2, <1>3

\* The torrent it looked at is dropped.
LEMMA LookedKeeps ==
  ASSUME IInv, NEW c \in Calls, Looked(c)
  PROVE  IInv'
<1>t. Types /\ DiskInv /\ CallInv /\ HoldInv /\ PlaceInv /\ LifeInv /\ LeftInv
  BY DEF IInv
<1>1. /\ call[c].at = "added" /\ torrent' = Nowhere /\ Finish(c)
      /\ UNCHANGED <<item, dest, stored, pending, reserved, engine, job, del, teardown, cleanups,
                     listed, claim, files, installs>>
  BY DEF Looked, records, leftover
<1>2. /\ call' \in [Calls -> Requests] /\ call'[c].at = "idle" /\ call'[c].kind = "none"
      /\ \A b \in Calls : b # c => call'[b] = call[b]
  BY <1>t, <1>1, FinishSteps
<1>3. Types'
  BY <1>t, <1>1, <1>2, PlacesAre DEF Types
<1>4. DiskInv'
  BY <1>t, <1>1 DEF DiskInv
<1>5. CallInv'
  BY <1>t, <1>1, <1>2 DEF CallInv
<1>6. HoldInv'
  BY <1>t, <1>1, <1>2 DEF HoldInv
<1>7. PlaceInv'
  BY <1>t, <1>1, <1>2 DEF HoldInv, PlaceInv
<1>8. LifeInv'
  BY <1>t, <1>1 DEF LifeInv, Exists
<1>9. LeftInv'
  BY <1>t, <1>1 DEF LeftInv, Unlisting
<1> QED BY <1>3, <1>4, <1>5, <1>6, <1>7, <1>8, <1>9 DEF IInv

\* What was only looked at is dropped.
LEMMA InspectedKeeps ==
  ASSUME IInv, NEW c \in Calls, Inspected(c)
  PROVE  IInv'
<1>t. Types /\ DiskInv /\ CallInv /\ HoldInv /\ PlaceInv /\ LifeInv /\ LeftInv
  BY DEF IInv
<1>1. /\ call[c].at = "added" /\ torrent' = Nowhere /\ Goto(c, "release")
      /\ UNCHANGED <<item, dest, stored, pending, reserved, engine, job, del, teardown, cleanups,
                     listed, claim, files, installs>>
  BY DEF Inspected, records, leftover
<1>2. "release" \in CallSteps
  BY DEF CallSteps
<1>3. /\ call' \in [Calls -> Requests] /\ call'[c].at = "release"
      /\ call'[c].kind = call[c].kind /\ call'[c].to = call[c].to
      /\ \A b \in Calls : b # c => call'[b] = call[b]
  BY <1>t, <1>1, <1>2, GotoSteps
<1>4. Types'
  BY <1>t, <1>1, <1>3, PlacesAre DEF Types
<1>5. DiskInv'
  BY <1>t, <1>1 DEF DiskInv
<1>6. CallInv'
  BY <1>t, <1>1, <1>3 DEF CallInv
<1>7. HoldInv'
  BY <1>t, <1>1, <1>3 DEF HoldInv
<1>8. PlaceInv'
  BY <1>t, <1>1, <1>3 DEF HoldInv, PlaceInv
<1>9. LifeInv'
  BY <1>t, <1>1 DEF LifeInv, Exists
<1>10. LeftInv'
  BY <1>t, <1>1 DEF LeftInv, Unlisting
<1> QED BY <1>4, <1>5, <1>6, <1>7, <1>8, <1>9, <1>10 DEF IInv

\* The reservation is given back at the end of a request.
LEMMA ReleaseKeeps ==
  ASSUME IInv, NEW c \in Calls, Release(c)
  PROVE  IInv'
<1>t. Types /\ DiskInv /\ CallInv /\ HoldInv /\ PlaceInv /\ LifeInv /\ LeftInv
  BY DEF IInv
<1>1. /\ call[c].at = "release" /\ reserved' = FALSE /\ Finish(c)
      /\ UNCHANGED <<item, dest, stored, pending, torrent, engine, job, del, teardown, cleanups,
                     listed, claim, files, installs>>
  BY DEF Release, records, leftover
<1>2. /\ call' \in [Calls -> Requests] /\ call'[c].at = "idle" /\ call'[c].kind = "none"
      /\ \A b \in Calls : b # c => call'[b] = call[b]
  BY <1>t, <1>1, FinishSteps
<1>3. Types'
  BY <1>t, <1>1, <1>2, PlacesAre DEF Types
<1>4. DiskInv'
  BY <1>t, <1>1 DEF DiskInv
<1>5. CallInv'
  BY <1>t, <1>1, <1>2 DEF CallInv
<1>6. HoldInv'
  BY <1>t, <1>1, <1>2 DEF HoldInv
<1>7. PlaceInv'
  BY <1>t, <1>1, <1>2 DEF HoldInv, PlaceInv
<1>8. LifeInv'
  BY <1>t, <1>1 DEF LifeInv, Exists
<1>9. LeftInv'
  BY <1>t, <1>1 DEF LeftInv, Unlisting
<1> QED BY <1>3, <1>4, <1>5, <1>6, <1>7, <1>8, <1>9 DEF IInv

\* The pending torrent is let go.
LEMMA DiscardKeeps ==
  ASSUME IInv, Discard
  PROVE  IInv'
<1>t. Types /\ DiskInv /\ CallInv /\ HoldInv /\ PlaceInv /\ LifeInv /\ LeftInv
  BY DEF IInv
<1>1. /\ pending /\ pending' = FALSE
      /\ UNCHANGED <<item, dest, stored, reserved, torrent, engine, job, call, del, teardown,
                     cleanups, listed, claim, files, installs>>
  BY DEF Discard, records, leftover
<1>2. Types'
  BY <1>t, <1>1, PlacesAre DEF Types
<1>3. DiskInv'
  BY <1>t, <1>1 DEF DiskInv
<1>4. CallInv'
  BY <1>t, <1>1 DEF CallInv
<1>5. HoldInv'
  BY <1>t, <1>1 DEF HoldInv
<1>6. PlaceInv'
  BY <1>t, <1>1 DEF HoldInv, PlaceInv
<1>7. LifeInv'
  BY <1>t, <1>1 DEF LifeInv, Exists
<1>8. LeftInv'
  BY <1>t, <1>1 DEF LeftInv, Unlisting
<1> QED BY <1>2, <1>3, <1>4, <1>5, <1>6, <1>7, <1>8 DEF IInv

\* A new download has the torrent of its request, in its own folder.
LEMMA CommitKeeps ==
  ASSUME IInv, NEW c \in Calls, NEW id \in Ids, Commit(c, id)
  PROVE  IInv'
<1>t. Types /\ DiskInv /\ CallInv /\ HoldInv /\ PlaceInv /\ LifeInv /\ LeftInv
  BY DEF IInv
<1>1. \/ /\ call[c].kind \in {"start", "task", "check"} /\ call[c].at = "added" /\ item[id] = "new"
         /\ (call[c].kind = "start" \/ claim[call[c].to] = "none")
         /\ job' = [job EXCEPT ![id] = "spawned"] /\ item' = [item EXCEPT ![id] = "active"]
         /\ stored' = [stored EXCEPT ![id] = "active"] /\ dest' = [dest EXCEPT ![id] = call[c].to]
         /\ files' = [files EXCEPT ![call[c].to] = "data"] /\ Finish(c)
         /\ UNCHANGED <<pending, reserved, torrent, engine, del, teardown, cleanups, listed,
                        claim, installs>>
      \/ /\ call[c].kind \in {"start", "task", "check"} /\ call[c].at = "added" /\ item[id] = "new"
         /\ (call[c].kind = "start" \/ claim[call[c].to] = "none") /\ engine' = engine \cup {id}
         /\ reserved' = FALSE /\ item' = [item EXCEPT ![id] = "active"]
         /\ stored' = [stored EXCEPT ![id] = "active"] /\ dest' = [dest EXCEPT ![id] = call[c].to]
         /\ files' = [files EXCEPT ![call[c].to] = "data"] /\ Finish(c)
         /\ UNCHANGED <<pending, torrent, job, del, teardown, cleanups, listed, claim, installs>>
      \/ /\ call[c].kind \in {"start", "task", "check"} /\ call[c].at = "added" /\ torrent' = Nowhere
         /\ Goto(c, "release")
         /\ UNCHANGED <<item, dest, stored, pending, reserved, engine, job, del, teardown,
                        cleanups, listed, claim, files, installs>>
  BY DEF Commit, records, leftover, Record, Refused
<1>2. CASE /\ call[c].kind \in {"start", "task", "check"} /\ call[c].at = "added" /\ item[id] = "new"
           /\ (call[c].kind = "start" \/ claim[call[c].to] = "none")
           /\ job' = [job EXCEPT ![id] = "spawned"] /\ item' = [item EXCEPT ![id] = "active"]
           /\ stored' = [stored EXCEPT ![id] = "active"] /\ dest' = [dest EXCEPT ![id] = call[c].to]
           /\ files' = [files EXCEPT ![call[c].to] = "data"] /\ Finish(c)
           /\ UNCHANGED <<pending, reserved, torrent, engine, del, teardown, cleanups, listed,
                          claim, installs>>
  <2>1. "spawned" \in JobSteps
    BY DEF JobSteps
  <2>2. /\ job' \in [Ids -> JobSteps] /\ job'[id] = "spawned"
        /\ \A i \in Ids : i # id => job'[i] = job[i]
    BY <1>t, <1>2, <2>1 DEF Types
  <2>3. "active" \in ItemStates
    BY DEF ItemStates
  <2>4. /\ item' \in [Ids -> ItemStates] /\ item'[id] = "active"
        /\ \A i \in Ids : i # id => item'[i] = item[i]
    BY <1>t, <1>2, <2>3 DEF Types
  <2>5. "active" \in DiskStates
    BY DEF DiskStates
  <2>6. /\ stored' \in [Ids -> DiskStates] /\ stored'[id] = "active"
        /\ \A i \in Ids : i # id => stored'[i] = stored[i]
    BY <1>t, <1>2, <2>5 DEF Types
  <2>7. call[c].to \in Dests
    BY <1>t, <1>2 DEF CallInv
  <2>8. /\ dest' \in [Ids -> Dests] /\ dest'[id] = call[c].to
        /\ \A i \in Ids : i # id => dest'[i] = dest[i]
    BY <1>t, <1>2, <2>7 DEF Types
  <2>9. "data" \in Contents /\ call[c].to \in Dests
    BY <1>t, <1>2 DEF CallInv, Contents
  <2>10. /\ files' \in [Dests -> Contents] /\ files'[call[c].to] = "data"
         /\ \A e \in Dests : e # call[c].to => files'[e] = files[e]
    BY <1>t, <1>2, <2>9 DEF Types
  <2>11. /\ call' \in [Calls -> Requests] /\ call'[c].at = "idle" /\ call'[c].kind = "none"
         /\ \A b \in Calls : b # c => call'[b] = call[b]
    BY <1>t, <1>2, FinishSteps
  <2>12. Types'
    BY <1>t, <1>2, <2>2, <2>4, <2>6, <2>8, <2>10, <2>11, PlacesAre DEF Types
  <2>13. DiskInv'
    BY <1>t, <1>2, <2>4, <2>6 DEF DiskInv
  <2>14. CallInv'
    BY <1>t, <1>2, <2>11 DEF CallInv
  <2>15. HoldInv'
    BY <1>t, <1>2, <2>2, <2>11 DEF HoldInv, LifeInv, Exists
  <2>16. PlaceInv'
    BY <1>t, <1>2, <2>2, <2>8, <2>11 DEF HoldInv, PlaceInv, LifeInv, Exists
  <2>17. LifeInv'
    BY <1>t, <1>2, <2>2, <2>4 DEF LifeInv, Exists
  <2>18. LeftInv'
    BY <1>t, <1>2, <2>4, <2>8, <2>10, Members DEF LeftInv, Unlisting, LifeInv
  <2> QED BY <2>12, <2>13, <2>14, <2>15, <2>16, <2>17, <2>18 DEF IInv
<1>3. CASE /\ call[c].kind \in {"start", "task", "check"} /\ call[c].at = "added" /\ item[id] = "new"
           /\ (call[c].kind = "start" \/ claim[call[c].to] = "none") /\ engine' = engine \cup {id}
           /\ reserved' = FALSE /\ item' = [item EXCEPT ![id] = "active"]
           /\ stored' = [stored EXCEPT ![id] = "active"] /\ dest' = [dest EXCEPT ![id] = call[c].to]
           /\ files' = [files EXCEPT ![call[c].to] = "data"] /\ Finish(c)
           /\ UNCHANGED <<pending, torrent, job, del, teardown, cleanups, listed, claim,
                          installs>>
  <2>1. "active" \in ItemStates
    BY DEF ItemStates
  <2>2. /\ item' \in [Ids -> ItemStates] /\ item'[id] = "active"
        /\ \A i \in Ids : i # id => item'[i] = item[i]
    BY <1>t, <1>3, <2>1 DEF Types
  <2>3. "active" \in DiskStates
    BY DEF DiskStates
  <2>4. /\ stored' \in [Ids -> DiskStates] /\ stored'[id] = "active"
        /\ \A i \in Ids : i # id => stored'[i] = stored[i]
    BY <1>t, <1>3, <2>3 DEF Types
  <2>5. call[c].to \in Dests
    BY <1>t, <1>3 DEF CallInv
  <2>6. /\ dest' \in [Ids -> Dests] /\ dest'[id] = call[c].to
        /\ \A i \in Ids : i # id => dest'[i] = dest[i]
    BY <1>t, <1>3, <2>5 DEF Types
  <2>7. "data" \in Contents /\ call[c].to \in Dests
    BY <1>t, <1>3 DEF CallInv, Contents
  <2>8. /\ files' \in [Dests -> Contents] /\ files'[call[c].to] = "data"
        /\ \A e \in Dests : e # call[c].to => files'[e] = files[e]
    BY <1>t, <1>3, <2>7 DEF Types
  <2>9. /\ call' \in [Calls -> Requests] /\ call'[c].at = "idle" /\ call'[c].kind = "none"
        /\ \A b \in Calls : b # c => call'[b] = call[b]
    BY <1>t, <1>3, FinishSteps
  <2>10. Types'
    BY <1>t, <1>3, <2>2, <2>4, <2>6, <2>8, <2>9, PlacesAre DEF Types
  <2>11. DiskInv'
    BY <1>t, <1>3, <2>2, <2>4 DEF DiskInv
  <2>12. CallInv'
    BY <1>t, <1>3, <2>9 DEF CallInv
  <2>13. HoldInv'
    BY <1>t, <1>3, <2>9 DEF HoldInv, LifeInv, Exists
  <2>14. PlaceInv'
    BY <1>t, <1>3, <2>6, <2>9 DEF HoldInv, PlaceInv, LifeInv, Exists
  <2>15. LifeInv'
    BY <1>t, <1>3, <2>2 DEF LifeInv, Exists
  <2>16. LeftInv'
    BY <1>t, <1>3, <2>2, <2>6, <2>8, Members DEF LeftInv, Unlisting, LifeInv
  <2> QED BY <2>10, <2>11, <2>12, <2>13, <2>14, <2>15, <2>16 DEF IInv
<1>4. CASE /\ call[c].kind \in {"start", "task", "check"} /\ call[c].at = "added"
           /\ torrent' = Nowhere /\ Goto(c, "release")
           /\ UNCHANGED <<item, dest, stored, pending, reserved, engine, job, del, teardown,
                          cleanups, listed, claim, files, installs>>
  <2>1. "release" \in CallSteps
    BY DEF CallSteps
  <2>2. /\ call' \in [Calls -> Requests] /\ call'[c].at = "release"
        /\ call'[c].kind = call[c].kind /\ call'[c].to = call[c].to
        /\ \A b \in Calls : b # c => call'[b] = call[b]
    BY <1>t, <1>4, <2>1, GotoSteps
  <2>3. Types'
    BY <1>t, <1>4, <2>2, PlacesAre DEF Types
  <2>4. DiskInv'
    BY <1>t, <1>4 DEF DiskInv
  <2>5. CallInv'
    BY <1>t, <1>4, <2>2 DEF CallInv
  <2>6. HoldInv'
    BY <1>t, <1>4, <2>2 DEF HoldInv, LifeInv, Exists
  <2>7. PlaceInv'
    BY <1>t, <1>4, <2>2 DEF HoldInv, PlaceInv, LifeInv, Exists
  <2>8. LifeInv'
    BY <1>t, <1>4 DEF LifeInv, Exists
  <2>9. LeftInv'
    BY <1>t, <1>4 DEF LeftInv, Unlisting, LifeInv
  <2> QED BY <2>3, <2>4, <2>5, <2>6, <2>7, <2>8, <2>9 DEF IInv
<1> QED BY <1>1, <1>2, <1>3, <1>4

\* The goroutine of AddTask keeps its torrent for the check, or drops it.
LEMMA JobBeginsKeeps ==
  ASSUME IInv, NEW id \in Ids, JobBegins(id)
  PROVE  IInv'
<1>t. Types /\ DiskInv /\ CallInv /\ HoldInv /\ PlaceInv /\ LifeInv /\ LeftInv
  BY DEF IInv
<1>1. /\ job[id] = "spawned" /\ \E at \in {"check", "unbegun"} :
           /\ job' = [job EXCEPT ![id] = at]
           /\ torrent' = IF at = "check" THEN torrent ELSE Nowhere
      /\ UNCHANGED <<item, dest, stored, pending, reserved, engine, call, del, teardown, cleanups,
                     listed, claim, files, installs>>
  BY DEF JobBegins, records, leftover
<1>2. PICK at \in {"check", "unbegun"} :
        /\ job' = [job EXCEPT ![id] = at]
        /\ torrent' = IF at = "check" THEN torrent ELSE Nowhere
  BY <1>1
<1>3. /\ job' \in [Ids -> JobSteps] /\ job'[id] = at
      /\ \A i \in Ids : i # id => job'[i] = job[i]
  BY <1>t, <1>2 DEF Types, JobSteps
<1>4. Types'
  BY <1>t, <1>1, <1>2, <1>3, PlacesAre DEF Types
<1>5. DiskInv'
  BY <1>t, <1>1 DEF DiskInv
<1>6. CallInv'
  BY <1>t, <1>1 DEF CallInv
<1>7. HoldInv'
  BY <1>t, <1>1, <1>2, <1>3 DEF HoldInv
<1>8. PlaceInv'
  BY <1>t, <1>1, <1>2, <1>3 DEF HoldInv, PlaceInv
<1>9. LifeInv'
  BY <1>t, <1>1, <1>3 DEF LifeInv, Exists
<1>10. LeftInv'
  BY <1>t, <1>1 DEF LeftInv, Unlisting
<1> QED BY <1>4, <1>5, <1>6, <1>7, <1>8, <1>9, <1>10 DEF IInv

\* restoreOne: the download waits for its torrent, or fails.
LEMMA RestoreKeeps ==
  ASSUME IInv, NEW id \in Ids, Restore(id)
  PROVE  IInv'
<1>t. Types /\ DiskInv /\ CallInv /\ HoldInv /\ PlaceInv /\ LifeInv /\ LeftInv
  BY DEF IInv
<1>1. \/ /\ Exists(id) /\ job[id] = "none"
         /\ item' = [item EXCEPT ![id] = IF item[id] = "done" THEN item[id] ELSE "failed"]
         /\ UNCHANGED <<dest, stored, pending, reserved, torrent, engine, job, call, del,
                        teardown, cleanups, listed, claim, files, installs>>
      \/ /\ Exists(id) /\ job[id] = "none" /\ job' = [job EXCEPT ![id] = "add"] /\ reserved' = TRUE
         /\ UNCHANGED <<item, dest, stored, pending, torrent, engine, call, del, teardown,
                        cleanups, listed, claim, files, installs>>
  BY DEF Restore, leftover
<1>2. CASE /\ Exists(id) /\ job[id] = "none"
           /\ item' = [item EXCEPT ![id] = IF item[id] = "done" THEN item[id] ELSE "failed"]
           /\ UNCHANGED <<dest, stored, pending, reserved, torrent, engine, job, call, del,
                          teardown, cleanups, listed, claim, files, installs>>
  <2>1. (IF item[id] = "done" THEN item[id] ELSE "failed") \in ItemStates
    BY <1>t DEF Types, ItemStates
  <2>2. /\ item' \in [Ids -> ItemStates] /\ item'[id] = (IF item[id] = "done" THEN item[id] ELSE "failed")
        /\ \A i \in Ids : i # id => item'[i] = item[i]
    BY <1>t, <1>2, <2>1 DEF Types
  <2>3. Types'
    BY <1>t, <1>2, <2>2, PlacesAre DEF Types
  <2>4. DiskInv'
    BY <1>t, <1>2, <2>2 DEF DiskInv, Exists
  <2>5. CallInv'
    BY <1>t, <1>2 DEF CallInv
  <2>6. HoldInv'
    BY <1>t, <1>2 DEF HoldInv
  <2>7. PlaceInv'
    BY <1>t, <1>2 DEF HoldInv, PlaceInv
  <2>8. LifeInv'
    BY <1>t, <1>2, <2>2 DEF LifeInv, Exists
  <2>9. LeftInv'
    BY <1>t, <1>2, <2>2, Members DEF LeftInv, Unlisting, Exists
  <2> QED BY <2>3, <2>4, <2>5, <2>6, <2>7, <2>8, <2>9 DEF IInv
<1>3. CASE /\ Exists(id) /\ job[id] = "none" /\ job' = [job EXCEPT ![id] = "add"] /\ reserved' = TRUE
           /\ UNCHANGED <<item, dest, stored, pending, torrent, engine, call, del, teardown,
                          cleanups, listed, claim, files, installs>>
  <2>1. "add" \in JobSteps
    BY DEF JobSteps
  <2>2. /\ job' \in [Ids -> JobSteps] /\ job'[id] = "add"
        /\ \A i \in Ids : i # id => job'[i] = job[i]
    BY <1>t, <1>3, <2>1 DEF Types
  <2>3. Types'
    BY <1>t, <1>3, <2>2, PlacesAre DEF Types
  <2>4. DiskInv'
    BY <1>t, <1>3 DEF DiskInv, Exists
  <2>5. CallInv'
    BY <1>t, <1>3 DEF CallInv
  <2>6. HoldInv'
    BY <1>t, <1>3, <2>2 DEF HoldInv
  <2>7. PlaceInv'
    BY <1>t, <1>3, <2>2 DEF HoldInv, PlaceInv
  <2>8. LifeInv'
    BY <1>t, <1>3, <2>2 DEF LifeInv, Exists
  <2>9. LeftInv'
    BY <1>t, <1>3 DEF LeftInv, Unlisting, Exists
  <2> QED BY <2>3, <2>4, <2>5, <2>6, <2>7, <2>8, <2>9 DEF IInv
<1> QED BY <1>1, <1>2, <1>3

\* The job has the torrent once the client takes it.
LEMMA JobAddsKeeps ==
  ASSUME IInv, NEW id \in Ids, JobAdds(id)
  PROVE  IInv'
<1>t. Types /\ DiskInv /\ CallInv /\ HoldInv /\ PlaceInv /\ LifeInv /\ LeftInv
  BY DEF IInv
<1>1. \/ /\ job[id] = "add" /\ torrent = Nowhere /\ torrent' = dest[id]
         /\ job' = [job EXCEPT ![id] = "settle"]
         /\ UNCHANGED <<item, dest, stored, pending, reserved, engine, call, del, teardown,
                        cleanups, listed, claim, files, installs>>
      \/ /\ job[id] = "add" /\ job' = [job EXCEPT ![id] = "release"]
         /\ item' = [item EXCEPT ![id] = IF item[id] = "active" THEN "failed" ELSE item[id]]
         /\ UNCHANGED <<dest, stored, pending, reserved, torrent, engine, call, del, teardown,
                        cleanups, listed, claim, files, installs>>
  BY DEF JobAdds, leftover, Add
<1>2. CASE /\ job[id] = "add" /\ torrent = Nowhere /\ torrent' = dest[id]
           /\ job' = [job EXCEPT ![id] = "settle"]
           /\ UNCHANGED <<item, dest, stored, pending, reserved, engine, call, del, teardown,
                          cleanups, listed, claim, files, installs>>
  <2>1. "settle" \in JobSteps
    BY DEF JobSteps
  <2>2. /\ job' \in [Ids -> JobSteps] /\ job'[id] = "settle"
        /\ \A i \in Ids : i # id => job'[i] = job[i]
    BY <1>t, <1>2, <2>1 DEF Types
  <2>3. Types'
    BY <1>t, <1>2, <2>2, PlacesAre DEF Types
  <2>4. DiskInv'
    BY <1>t, <1>2 DEF DiskInv
  <2>5. CallInv'
    BY <1>t, <1>2 DEF CallInv
  <2>6. HoldInv'
    BY <1>t, <1>2, <2>2, PlacesAre DEF HoldInv, Types
  <2>7. PlaceInv'
    BY <1>t, <1>2, <2>2 DEF HoldInv, PlaceInv
  <2>8. LifeInv'
    BY <1>t, <1>2, <2>2 DEF LifeInv, Exists
  <2>9. LeftInv'
    BY <1>t, <1>2 DEF LeftInv, Unlisting
  <2> QED BY <2>3, <2>4, <2>5, <2>6, <2>7, <2>8, <2>9 DEF IInv
<1>3. CASE /\ job[id] = "add" /\ job' = [job EXCEPT ![id] = "release"]
           /\ item' = [item EXCEPT ![id] = IF item[id] = "active" THEN "failed" ELSE item[id]]
           /\ UNCHANGED <<dest, stored, pending, reserved, torrent, engine, call, del, teardown,
                          cleanups, listed, claim, files, installs>>
  <2>1. "release" \in JobSteps
    BY DEF JobSteps
  <2>2. /\ job' \in [Ids -> JobSteps] /\ job'[id] = "release"
        /\ \A i \in Ids : i # id => job'[i] = job[i]
    BY <1>t, <1>3, <2>1 DEF Types
  <2>3. (IF item[id] = "active" THEN "failed" ELSE item[id]) \in ItemStates
    BY <1>t DEF Types, ItemStates
  <2>4. /\ item' \in [Ids -> ItemStates] /\ item'[id] = (IF item[id] = "active" THEN "failed" ELSE item[id])
        /\ \A i \in Ids : i # id => item'[i] = item[i]
    BY <1>t, <1>3, <2>3 DEF Types
  <2>5. Types'
    BY <1>t, <1>3, <2>2, <2>4, PlacesAre DEF Types
  <2>6. DiskInv'
    BY <1>t, <1>3, <2>4 DEF DiskInv
  <2>7. CallInv'
    BY <1>t, <1>3 DEF CallInv
  <2>8. HoldInv'
    BY <1>t, <1>3, <2>2, PlacesAre DEF HoldInv, Types
  <2>9. PlaceInv'
    BY <1>t, <1>3, <2>2 DEF HoldInv, PlaceInv
  <2>10. LifeInv'
    BY <1>t, <1>3, <2>2, <2>4 DEF LifeInv, Exists
  <2>11. LeftInv'
    BY <1>t, <1>3, <2>4, Members DEF LeftInv, Unlisting
  <2> QED BY <2>5, <2>6, <2>7, <2>8, <2>9, <2>10, <2>11 DEF IInv
<1> QED BY <1>1, <1>2, <1>3

\* What the job checked goes to the download, or is dropped if that is gone.
LEMMA SettleKeeps ==
  ASSUME IInv, NEW id \in Ids, Settle(id)
  PROVE  IInv'
<1>t. Types /\ DiskInv /\ CallInv /\ HoldInv /\ PlaceInv /\ LifeInv /\ LeftInv
  BY DEF IInv
<1>1. \/ /\ job[id] \in {"settle", "check"} /\ Exists(id) /\ engine' = engine \cup {id}
         /\ reserved' = (reserved /\ job[id] = "check") /\ job' = [job EXCEPT ![id] = "release"]
         /\ item' = [item EXCEPT ![id] = IF item[id] = "failed" THEN "active" ELSE item[id]]
         /\ UNCHANGED <<dest, stored, pending, torrent, call, del, teardown, cleanups, listed,
                        claim, files, installs>>
      \/ /\ job[id] \in {"settle", "check"} /\ torrent' = Nowhere
         /\ job' = [job EXCEPT ![id] = "release"]
         /\ UNCHANGED <<item, dest, stored, pending, reserved, engine, call, del, teardown,
                        cleanups, listed, claim, files, installs>>
  BY DEF Settle, leftover
<1>2. CASE /\ job[id] \in {"settle", "check"} /\ Exists(id) /\ engine' = engine \cup {id}
           /\ reserved' = (reserved /\ job[id] = "check") /\ job' = [job EXCEPT ![id] = "release"]
           /\ item' = [item EXCEPT ![id] = IF item[id] = "failed" THEN "active" ELSE item[id]]
           /\ UNCHANGED <<dest, stored, pending, torrent, call, del, teardown, cleanups, listed,
                          claim, files, installs>>
  <2>1. "release" \in JobSteps
    BY DEF JobSteps
  <2>2. /\ job' \in [Ids -> JobSteps] /\ job'[id] = "release"
        /\ \A i \in Ids : i # id => job'[i] = job[i]
    BY <1>t, <1>2, <2>1 DEF Types
  <2>3. (IF item[id] = "failed" THEN "active" ELSE item[id]) \in ItemStates
    BY <1>t DEF Types, ItemStates
  <2>4. /\ item' \in [Ids -> ItemStates] /\ item'[id] = (IF item[id] = "failed" THEN "active" ELSE item[id])
        /\ \A i \in Ids : i # id => item'[i] = item[i]
    BY <1>t, <1>2, <2>3 DEF Types
  <2>5. Types'
    BY <1>t, <1>2, <2>2, <2>4, PlacesAre DEF Types
  <2>6. DiskInv'
    BY <1>t, <1>2, <2>4 DEF DiskInv, Exists
  <2>7. CallInv'
    BY <1>t, <1>2 DEF CallInv
  <2>8. HoldInv'
    BY <1>t, <1>2, <2>2 DEF HoldInv
  <2>9. PlaceInv'
    BY <1>t, <1>2, <2>2 DEF HoldInv, PlaceInv
  <2>10. LifeInv'
    BY <1>t, <1>2, <2>2, <2>4 DEF LifeInv, Exists
  <2>11. LeftInv'
    BY <1>t, <1>2, <2>4, Members DEF LeftInv, Unlisting
  <2> QED BY <2>5, <2>6, <2>7, <2>8, <2>9, <2>10, <2>11 DEF IInv
<1>3. CASE /\ job[id] \in {"settle", "check"} /\ torrent' = Nowhere
           /\ job' = [job EXCEPT ![id] = "release"]
           /\ UNCHANGED <<item, dest, stored, pending, reserved, engine, call, del, teardown,
                          cleanups, listed, claim, files, installs>>
  <2>1. "release" \in JobSteps
    BY DEF JobSteps
  <2>2. /\ job' \in [Ids -> JobSteps] /\ job'[id] = "release"
        /\ \A i \in Ids : i # id => job'[i] = job[i]
    BY <1>t, <1>3, <2>1 DEF Types
  <2>3. Types'
    BY <1>t, <1>3, <2>2, PlacesAre DEF Types
  <2>4. DiskInv'
    BY <1>t, <1>3 DEF DiskInv, Exists
  <2>5. CallInv'
    BY <1>t, <1>3 DEF CallInv
  <2>6. HoldInv'
    BY <1>t, <1>3, <2>2 DEF HoldInv
  <2>7. PlaceInv'
    BY <1>t, <1>3, <2>2 DEF HoldInv, PlaceInv
  <2>8. LifeInv'
    BY <1>t, <1>3, <2>2 DEF LifeInv, Exists
  <2>9. LeftInv'
    BY <1>t, <1>3 DEF LeftInv, Unlisting
  <2> QED BY <2>3, <2>4, <2>5, <2>6, <2>7, <2>8, <2>9 DEF IInv
<1> QED BY <1>1, <1>2, <1>3

\* The reservation is given back, perhaps for the second time.
LEMMA JobReleasesKeeps ==
  ASSUME IInv, NEW id \in Ids, JobReleases(id)
  PROVE  IInv'
<1>t. Types /\ DiskInv /\ CallInv /\ HoldInv /\ PlaceInv /\ LifeInv /\ LeftInv
  BY DEF IInv
<1> DEFINE next == IF job[id] = "release" THEN "end" ELSE "none"
<1>1. /\ job[id] \in {"release", "unbegun"} /\ reserved' = FALSE /\ job' = [job EXCEPT ![id] = next]
      /\ UNCHANGED <<item, dest, stored, pending, torrent, engine, call, del, teardown, cleanups,
                     listed, claim, files, installs>>
  BY DEF JobReleases, records, leftover
<1>2. next \in {"end", "none"} /\ next \in JobSteps
  BY DEF JobSteps
<1>3. /\ job' \in [Ids -> JobSteps] /\ job'[id] = next
      /\ \A i \in Ids : i # id => job'[i] = job[i]
  BY <1>t, <1>1, <1>2 DEF Types
<1> HIDE DEF next
<1>4. Types'
  BY <1>t, <1>1, <1>3, PlacesAre DEF Types
<1>5. DiskInv'
  BY <1>t, <1>1 DEF DiskInv
<1>6. CallInv'
  BY <1>t, <1>1 DEF CallInv
<1>7. HoldInv'
  BY <1>t, <1>1, <1>2, <1>3 DEF HoldInv
<1>8. PlaceInv'
  BY <1>t, <1>1, <1>2, <1>3 DEF HoldInv, PlaceInv
<1>9. LifeInv'
  BY <1>t, <1>1, <1>3 DEF LifeInv, Exists
<1>10. LeftInv'
  BY <1>t, <1>1 DEF LeftInv, Unlisting
<1> QED BY <1>4, <1>5, <1>6, <1>7, <1>8, <1>9, <1>10 DEF IInv

\* The job of a download is over.
LEMMA EndJobKeeps ==
  ASSUME IInv, NEW id \in Ids, EndJob(id)
  PROVE  IInv'
<1>t. Types /\ DiskInv /\ CallInv /\ HoldInv /\ PlaceInv /\ LifeInv /\ LeftInv
  BY DEF IInv
<1>1. /\ job[id] = "end" /\ job' = [job EXCEPT ![id] = "none"]
      /\ UNCHANGED <<item, dest, stored, pending, reserved, torrent, engine, call, del, teardown,
                     cleanups, listed, claim, files, installs>>
  BY DEF EndJob, records, leftover
<1>2. "none" \in JobSteps
  BY DEF JobSteps
<1>3. /\ job' \in [Ids -> JobSteps] /\ job'[id] = "none"
      /\ \A i \in Ids : i # id => job'[i] = job[i]
  BY <1>t, <1>1, <1>2 DEF Types
<1>4. Types'
  BY <1>t, <1>1, <1>3, PlacesAre DEF Types
<1>5. DiskInv'
  BY <1>t, <1>1 DEF DiskInv
<1>6. CallInv'
  BY <1>t, <1>1 DEF CallInv
<1>7. HoldInv'
  BY <1>t, <1>1, <1>3 DEF HoldInv
<1>8. PlaceInv'
  BY <1>t, <1>1, <1>3 DEF HoldInv, PlaceInv
<1>9. LifeInv'
  BY <1>t, <1>1, <1>3 DEF LifeInv, Exists
<1>10. LeftInv'
  BY <1>t, <1>1 DEF LeftInv, Unlisting
<1> QED BY <1>4, <1>5, <1>6, <1>7, <1>8, <1>9, <1>10 DEF IInv

\* A finished download keeps its torrent to seed, or leaves it.
LEMMA CompleteKeeps ==
  ASSUME IInv, NEW id \in Ids, Complete(id)
  PROVE  IInv'
<1>t. Types /\ DiskInv /\ CallInv /\ HoldInv /\ PlaceInv /\ LifeInv /\ LeftInv
  BY DEF IInv
<1>1. /\ item[id] = "active" /\ id \in engine /\ item' = [item EXCEPT ![id] = "done"]
      /\ stored' = [stored EXCEPT ![id] = "done"] \/ stored' = stored
      /\ engine' \in {engine, engine \ {id}}
      /\ UNCHANGED <<dest, pending, reserved, torrent, job, call, del, teardown, cleanups, listed,
                     claim, files, installs>>
  BY DEF Complete, leftover
<1>2. "done" \in ItemStates
  BY DEF ItemStates
<1>3. /\ item' \in [Ids -> ItemStates] /\ item'[id] = "done"
      /\ \A i \in Ids : i # id => item'[i] = item[i]
  BY <1>t, <1>1, <1>2 DEF Types
<1>4. "done" \in DiskStates
  BY DEF DiskStates
<1>5. /\ stored' \in [Ids -> DiskStates] /\ stored'[id] \in {"done", stored[id]}
      /\ \A i \in Ids : i # id => stored'[i] = stored[i]
  BY <1>t, <1>1, <1>4 DEF Types
<1>6. Types'
  BY <1>t, <1>1, <1>3, <1>5, PlacesAre DEF Types
<1>7. DiskInv'
  BY <1>t, <1>1, <1>3, <1>5 DEF DiskInv
<1>8. CallInv'
  BY <1>t, <1>1 DEF CallInv
<1>9. HoldInv'
  BY <1>t, <1>1 DEF HoldInv
<1>10. PlaceInv'
  BY <1>t, <1>1 DEF HoldInv, PlaceInv
<1>11. LifeInv'
  BY <1>t, <1>1, <1>3 DEF LifeInv, Exists
<1>12. LeftInv'
  BY <1>t, <1>1, <1>3, Members DEF LeftInv, Unlisting
<1> QED BY <1>6, <1>7, <1>8, <1>9, <1>10, <1>11, <1>12 DEF IInv

\* It stops seeding.
LEMMA DetachKeeps ==
  ASSUME IInv, NEW id \in Ids, Detach(id)
  PROVE  IInv'
<1>t. Types /\ DiskInv /\ CallInv /\ HoldInv /\ PlaceInv /\ LifeInv /\ LeftInv
  BY DEF IInv
<1>1. /\ id \in engine /\ engine' = engine \ {id}
      /\ UNCHANGED <<item, dest, stored, pending, reserved, torrent, job, call, del, teardown,
                     cleanups, listed, claim, files, installs>>
  BY DEF Detach, records, leftover
<1>2. Types'
  BY <1>t, <1>1, PlacesAre DEF Types
<1>3. DiskInv'
  BY <1>t, <1>1 DEF DiskInv
<1>4. CallInv'
  BY <1>t, <1>1 DEF CallInv
<1>5. HoldInv'
  BY <1>t, <1>1 DEF HoldInv
<1>6. PlaceInv'
  BY <1>t, <1>1 DEF HoldInv, PlaceInv
<1>7. LifeInv'
  BY <1>t, <1>1 DEF LifeInv, Exists
<1>8. LeftInv'
  BY <1>t, <1>1 DEF LeftInv, Unlisting
<1> QED BY <1>2, <1>3, <1>4, <1>5, <1>6, <1>7, <1>8 DEF IInv

\* A torrent nobody has is dropped.
LEMMA DropDetachedKeeps ==
  ASSUME IInv, DropDetached
  PROVE  IInv'
<1>t. Types /\ DiskInv /\ CallInv /\ HoldInv /\ PlaceInv /\ LifeInv /\ LeftInv
  BY DEF IInv
<1>1. /\ ~Held /\ torrent' = Nowhere
      /\ UNCHANGED <<item, dest, stored, pending, reserved, engine, job, call, del, teardown,
                     cleanups, listed, claim, files, installs>>
  BY DEF DropDetached, records, leftover
<1>2. Types'
  BY <1>t, <1>1, PlacesAre DEF Types
<1>3. DiskInv'
  BY <1>t, <1>1 DEF DiskInv
<1>4. CallInv'
  BY <1>t, <1>1 DEF CallInv
<1>5. HoldInv'
  BY <1>t, <1>1 DEF HoldInv, Held
<1>6. PlaceInv'
  BY <1>t, <1>1 DEF HoldInv, PlaceInv, Held
<1>7. LifeInv'
  BY <1>t, <1>1 DEF LifeInv, Exists
<1>8. LeftInv'
  BY <1>t, <1>1 DEF LeftInv, Unlisting
<1> QED BY <1>2, <1>3, <1>4, <1>5, <1>6, <1>7, <1>8 DEF IInv

\* A download that is removed leaves its torrent to the removal.
LEMMA RemoveKeeps ==
  ASSUME IInv, NEW id \in Ids, NEW purge \in BOOLEAN, Remove(id, purge)
  PROVE  IInv'
<1>t. Types /\ DiskInv /\ CallInv /\ HoldInv /\ PlaceInv /\ LifeInv /\ LeftInv
  BY DEF IInv
<1>1. \/ /\ Exists(id) /\ cleanups' = Prune(id) /\ listed' = Prune(id)
         /\ item' = [item EXCEPT ![id] = "gone"] /\ stored' = [stored EXCEPT ![id] = "gone"]
         /\ Tear(id, IF purge /\ item[id] # "done" THEN "purge" ELSE "keep")
         /\ UNCHANGED <<dest, pending, reserved, torrent, job, call, del, claim, files, installs>>
      \/ /\ Exists(id) /\ cleanups' = Prune(id) /\ listed' = Prune(id)
         /\ UNCHANGED <<item, dest, stored, pending, reserved, torrent, engine, job, call, del,
                        teardown, claim, files, installs>>
  BY DEF Remove
<1>2. CASE /\ Exists(id) /\ cleanups' = Prune(id) /\ listed' = Prune(id)
           /\ item' = [item EXCEPT ![id] = "gone"] /\ stored' = [stored EXCEPT ![id] = "gone"]
           /\ Tear(id, IF purge /\ item[id] # "done" THEN "purge" ELSE "keep")
           /\ UNCHANGED <<dest, pending, reserved, torrent, job, call, del, claim, files,
                          installs>>
  <2>1. "gone" \in ItemStates
    BY DEF ItemStates
  <2>2. /\ item' \in [Ids -> ItemStates] /\ item'[id] = "gone"
        /\ \A i \in Ids : i # id => item'[i] = item[i]
    BY <1>t, <1>2, <2>1 DEF Types
  <2>3. "gone" \in DiskStates
    BY DEF DiskStates
  <2>4. /\ stored' \in [Ids -> DiskStates] /\ stored'[id] = "gone"
        /\ \A i \in Ids : i # id => stored'[i] = stored[i]
    BY <1>t, <1>2, <2>3 DEF Types
  <2>5. (IF purge /\ item[id] # "done" THEN "purge" ELSE "keep") \in TearKinds
    BY DEF TearKinds
  <2>6. /\ teardown' \in [Ids -> Teardowns] /\ teardown'[id].at = "wait" /\ teardown'[id].kind = (IF purge /\ item[id] # "done" THEN "purge" ELSE "keep")
        /\ teardown'[id].engine = (id \in engine) /\ engine' = engine \ {id}
        /\ \A i \in Ids : i # id => teardown'[i] = teardown[i]
    BY <1>t, <1>2, <2>5, TearBegins
  <2>7. Types'
    BY <1>t, <1>2, <2>2, <2>4, <2>6, PlacesAre DEF Types, Prune
  <2>8. DiskInv'
    BY <1>t, <1>2, <2>2, <2>4 DEF DiskInv
  <2>9. CallInv'
    BY <1>t, <1>2 DEF CallInv
  <2>10. HoldInv'
    BY ZenonT(60), <1>t, <1>2, <2>6 DEF HoldInv, LifeInv, Exists
  <2>11. PlaceInv'
    BY <1>t, <1>2, <2>6 DEF HoldInv, PlaceInv
  <2>12. LifeInv'
    BY <1>t, <1>2, <2>2, <2>6 DEF LifeInv, Exists
  <2>13. LeftInv'
    BY <1>t, <1>2, <2>2, <2>6, Members DEF LeftInv, Unlisting, Prune, Exists, LifeInv
  <2> QED BY <2>7, <2>8, <2>9, <2>10, <2>11, <2>12, <2>13 DEF IInv
<1>3. CASE /\ Exists(id) /\ cleanups' = Prune(id) /\ listed' = Prune(id)
           /\ UNCHANGED <<item, dest, stored, pending, reserved, torrent, engine, job, call, del,
                          teardown, claim, files, installs>>
  <2>1. Types'
    BY <1>t, <1>3, PlacesAre DEF Types, Prune
  <2>2. DiskInv'
    BY <1>t, <1>3 DEF DiskInv
  <2>3. CallInv'
    BY <1>t, <1>3 DEF CallInv
  <2>4. HoldInv'
    BY <1>t, <1>3 DEF HoldInv, LifeInv, Exists
  <2>5. PlaceInv'
    BY <1>t, <1>3 DEF HoldInv, PlaceInv
  <2>6. LifeInv'
    BY <1>t, <1>3 DEF LifeInv, Exists
  <2>7. LeftInv'
    BY <1>t, <1>3, Members DEF LeftInv, Unlisting, Prune, Exists, LifeInv
  <2> QED BY <2>1, <2>2, <2>3, <2>4, <2>5, <2>6, <2>7 DEF IInv
<1> QED BY <1>1, <1>2, <1>3

\* DeleteData claims a finished download ...
LEMMA DeleteClaimKeeps ==
  ASSUME IInv, NEW id \in Ids, DeleteClaim(id)
  PROVE  IInv'
<1>t. Types /\ DiskInv /\ CallInv /\ HoldInv /\ PlaceInv /\ LifeInv /\ LeftInv
  BY DEF IInv
<1>1. /\ del[id] = "none" /\ del' = [del EXCEPT ![id] = "claimed"]
      /\ UNCHANGED <<item, dest, stored, pending, reserved, torrent, engine, job, call, teardown,
                     cleanups, listed, claim, files, installs>>
  BY DEF DeleteClaim, records, torrents, leftover
<1>2. "claimed" \in DelSteps
  BY DEF DelSteps
<1>3. /\ del' \in [Ids -> DelSteps] /\ del'[id] = "claimed"
      /\ \A i \in Ids : i # id => del'[i] = del[i]
  BY <1>t, <1>1, <1>2 DEF Types
<1>4. Types'
  BY <1>t, <1>1, <1>3, PlacesAre DEF Types
<1>5. DiskInv'
  BY <1>t, <1>1 DEF DiskInv
<1>6. CallInv'
  BY <1>t, <1>1 DEF CallInv
<1>7. HoldInv'
  BY <1>t, <1>1 DEF HoldInv
<1>8. PlaceInv'
  BY <1>t, <1>1 DEF HoldInv, PlaceInv
<1>9. LifeInv'
  BY <1>t, <1>1, <1>3 DEF LifeInv, Exists
<1>10. LeftInv'
  BY <1>t, <1>1 DEF LeftInv, Unlisting
<1> QED BY <1>4, <1>5, <1>6, <1>7, <1>8, <1>9, <1>10 DEF IInv

\* ... asks the installations ...
LEMMA DeleteGuardKeeps ==
  ASSUME IInv, NEW id \in Ids, DeleteGuard(id)
  PROVE  IInv'
<1>t. Types /\ DiskInv /\ CallInv /\ HoldInv /\ PlaceInv /\ LifeInv /\ LeftInv
  BY DEF IInv
<1>1. /\ del[id] = "claimed"
      /\ del' = [del EXCEPT ![id] = IF id \in installs THEN "none" ELSE "guarded"]
      /\ UNCHANGED <<item, dest, stored, pending, reserved, torrent, engine, job, call, teardown,
                     cleanups, listed, claim, files, installs>>
  BY DEF DeleteGuard, records, torrents, leftover
<1>2. (IF id \in installs THEN "none" ELSE "guarded") \in DelSteps
  BY DEF DelSteps
<1>3. /\ del' \in [Ids -> DelSteps] /\ del'[id] = (IF id \in installs THEN "none" ELSE "guarded")
      /\ \A i \in Ids : i # id => del'[i] = del[i]
  BY <1>t, <1>1, <1>2 DEF Types
<1>4. Types'
  BY <1>t, <1>1, <1>3, PlacesAre DEF Types
<1>5. DiskInv'
  BY <1>t, <1>1 DEF DiskInv
<1>6. CallInv'
  BY <1>t, <1>1 DEF CallInv
<1>7. HoldInv'
  BY <1>t, <1>1 DEF HoldInv
<1>8. PlaceInv'
  BY <1>t, <1>1 DEF HoldInv, PlaceInv
<1>9. LifeInv'
  BY <1>t, <1>1, <1>3 DEF LifeInv, Exists
<1>10. LeftInv'
  BY <1>t, <1>1 DEF LeftInv, Unlisting
<1> QED BY <1>4, <1>5, <1>6, <1>7, <1>8, <1>9, <1>10 DEF IInv

\* ... and writes down what it leaves before the record goes.
LEMMA DeleteCommitKeeps ==
  ASSUME IInv, NEW id \in Ids, DeleteCommit(id)
  PROVE  IInv'
<1>t. Types /\ DiskInv /\ CallInv /\ HoldInv /\ PlaceInv /\ LifeInv /\ LeftInv
  BY DEF IInv
<1>1. \/ /\ del[id] = "guarded" /\ ("dropsOthers" \notin Events => ~Unlisting(dest[id])) /\ item[id] = "done"
         /\ cleanups' = cleanups \cup {[id |-> id, dest |-> dest[id]]}
         /\ listed' = cleanups \cup {[id |-> id, dest |-> dest[id]]}
         /\ item' = [item EXCEPT ![id] = "gone"] /\ stored' = [stored EXCEPT ![id] = "gone"]
         /\ files' = [files EXCEPT ![dest[id]] = IF files[dest[id]] = "data" THEN "left" ELSE files[dest[id]]]
         /\ Tear(id, "delete") /\ del' = [del EXCEPT ![id] = "none"]
         /\ UNCHANGED <<dest, pending, reserved, torrent, job, call, claim, installs>>
      \/ /\ del[id] = "guarded" /\ item[id] = "done"
         /\ cleanups' = cleanups \cup {[id |-> id, dest |-> dest[id]]}
         /\ listed' = cleanups \cup {[id |-> id, dest |-> dest[id]]}
         /\ del' = [del EXCEPT ![id] = "none"]
         /\ UNCHANGED <<item, dest, stored, pending, reserved, torrent, engine, job, call,
                        teardown, claim, files, installs>>
      \/ /\ del[id] = "guarded" /\ del' = [del EXCEPT ![id] = "none"]
         /\ UNCHANGED <<item, dest, stored, pending, reserved, torrent, engine, job, call,
                        teardown, cleanups, listed, claim, files, installs>>
      \/ /\ item[id] = "done" /\ TakenBack(id) /\ del' = [del EXCEPT ![id] = "none"]
         /\ UNCHANGED <<item, dest, stored, pending, reserved, torrent, engine, job, call,
                        teardown, claim, files, installs>>
  BY DEF DeleteCommit
<1>2. CASE /\ del[id] = "guarded" /\ ("dropsOthers" \notin Events => ~Unlisting(dest[id])) /\ item[id] = "done"
           /\ cleanups' = cleanups \cup {[id |-> id, dest |-> dest[id]]}
           /\ listed' = cleanups \cup {[id |-> id, dest |-> dest[id]]}
           /\ item' = [item EXCEPT ![id] = "gone"] /\ stored' = [stored EXCEPT ![id] = "gone"]
           /\ files' = [files EXCEPT ![dest[id]] = IF files[dest[id]] = "data" THEN "left" ELSE files[dest[id]]]
           /\ Tear(id, "delete") /\ del' = [del EXCEPT ![id] = "none"]
           /\ UNCHANGED <<dest, pending, reserved, torrent, job, call, claim, installs>>
  <2>1. "gone" \in ItemStates
    BY DEF ItemStates
  <2>2. /\ item' \in [Ids -> ItemStates] /\ item'[id] = "gone"
        /\ \A i \in Ids : i # id => item'[i] = item[i]
    BY <1>t, <1>2, <2>1 DEF Types
  <2>3. "gone" \in DiskStates
    BY DEF DiskStates
  <2>4. /\ stored' \in [Ids -> DiskStates] /\ stored'[id] = "gone"
        /\ \A i \in Ids : i # id => stored'[i] = stored[i]
    BY <1>t, <1>2, <2>3 DEF Types
  <2>5. (IF files[dest[id]] = "data" THEN "left" ELSE files[dest[id]]) \in Contents /\ dest[id] \in Dests
    BY <1>t DEF Types, Contents
  <2>6. /\ files' \in [Dests -> Contents] /\ files'[dest[id]] = (IF files[dest[id]] = "data" THEN "left" ELSE files[dest[id]])
        /\ \A e \in Dests : e # dest[id] => files'[e] = files[e]
    BY <1>t, <1>2, <2>5 DEF Types
  <2>7. "delete" \in TearKinds
    BY DEF TearKinds
  <2>8. /\ teardown' \in [Ids -> Teardowns] /\ teardown'[id].at = "wait" /\ teardown'[id].kind = "delete"
        /\ teardown'[id].engine = (id \in engine) /\ engine' = engine \ {id}
        /\ \A i \in Ids : i # id => teardown'[i] = teardown[i]
    BY <1>t, <1>2, <2>7, TearBegins
  <2>9. "none" \in DelSteps
    BY DEF DelSteps
  <2>10. /\ del' \in [Ids -> DelSteps] /\ del'[id] = "none"
         /\ \A i \in Ids : i # id => del'[i] = del[i]
    BY <1>t, <1>2, <2>9 DEF Types
  <2>11. Types'
    BY <1>t, <1>2, <2>2, <2>4, <2>6, <2>8, <2>10, PlacesAre DEF Types, Leftovers
  <2>12. DiskInv'
    BY <1>t, <1>2, <2>2, <2>4 DEF DiskInv
  <2>13. CallInv'
    BY <1>t, <1>2 DEF CallInv
  <2>14. HoldInv'
    <3>1. UNCHANGED <<torrent, pending, call, job>> /\ item[id] = "done"
      BY <1>2
    <3> QED BY ZenonT(60), <1>t, <2>8, <3>1 DEF HoldInv, CallHolds, JobHolds, TearHolds, NoCallHolds, NoJobHolds, NoTearHolds, LifeInv, Exists
  <2>15. PlaceInv'
    BY <1>t, <1>2, <2>8 DEF HoldInv, PlaceInv
  <2>16. LifeInv'
    BY <1>t, <1>2, <2>2, <2>8, <2>10 DEF LifeInv, Exists
  <2>17. LeftInv'
    <3>1. /\ dest' = dest /\ claim' = claim /\ item[id] = "done"
          /\ "dropsOthers" \notin Events => ~Unlisting(dest[id])
          /\ cleanups' = cleanups \cup {[id |-> id, dest |-> dest[id]]} /\ listed' = cleanups'
      BY <1>2
    <3>2. \A d \in Dests : Unlisting(d)' => Unlisting(d)
      BY <2>8, <3>1 DEF Unlisting
    <3>3. \E c \in cleanups' : c.dest = dest[id] /\ item'[c.id] = "gone"
      <4> DEFINE e == [id |-> id, dest |-> dest[id]]
      <4>1. e \in cleanups' /\ e.id = id /\ e.dest = dest[id]
        BY <3>1
      <4> QED BY <2>2, <4>1
    <3>4. ASSUME "dropsOthers" \notin Events, NEW d \in Dests, d # dest[id], files'[d] = "left"
          PROVE  ~Unlisting(d)' /\ \E c \in cleanups' : c.dest = d /\ item'[c.id] = "gone"
      <4>1. /\ ~Unlisting(d)
            /\ \E c \in cleanups : c.dest = d /\ item[c.id] = "gone"
        BY <1>t, <2>6, <3>4 DEF LeftInv
      <4> QED BY <1>t, <2>2, <3>1, <3>2, <4>1, Members
    <3> QED BY <3>1, <3>2, <3>3, <3>4 DEF LeftInv
  <2> QED BY <2>11, <2>12, <2>13, <2>14, <2>15, <2>16, <2>17 DEF IInv
<1>3. CASE /\ del[id] = "guarded" /\ item[id] = "done"
           /\ cleanups' = cleanups \cup {[id |-> id, dest |-> dest[id]]}
           /\ listed' = cleanups \cup {[id |-> id, dest |-> dest[id]]}
           /\ del' = [del EXCEPT ![id] = "none"]
           /\ UNCHANGED <<item, dest, stored, pending, reserved, torrent, engine, job, call,
                          teardown, claim, files, installs>>
  <2>1. "none" \in DelSteps
    BY DEF DelSteps
  <2>2. /\ del' \in [Ids -> DelSteps] /\ del'[id] = "none"
        /\ \A i \in Ids : i # id => del'[i] = del[i]
    BY <1>t, <1>3, <2>1 DEF Types
  <2>3. Types'
    BY <1>t, <1>3, <2>2, PlacesAre DEF Types, Leftovers
  <2>4. DiskInv'
    BY <1>t, <1>3 DEF DiskInv
  <2>5. CallInv'
    BY <1>t, <1>3 DEF CallInv
  <2>6. HoldInv'
    BY <1>t, <1>3 DEF HoldInv, LifeInv, Exists
  <2>7. PlaceInv'
    BY <1>t, <1>3 DEF HoldInv, PlaceInv
  <2>8. LifeInv'
    BY <1>t, <1>3, <2>2 DEF LifeInv, Exists
  <2>9. LeftInv'
    BY <1>t, <1>3, Members DEF LeftInv, Unlisting, LifeInv
  <2> QED BY <2>3, <2>4, <2>5, <2>6, <2>7, <2>8, <2>9 DEF IInv
<1>4. CASE /\ del[id] = "guarded" /\ del' = [del EXCEPT ![id] = "none"]
           /\ UNCHANGED <<item, dest, stored, pending, reserved, torrent, engine, job, call,
                          teardown, cleanups, listed, claim, files, installs>>
  <2>1. "none" \in DelSteps
    BY DEF DelSteps
  <2>2. /\ del' \in [Ids -> DelSteps] /\ del'[id] = "none"
        /\ \A i \in Ids : i # id => del'[i] = del[i]
    BY <1>t, <1>4, <2>1 DEF Types
  <2>3. Types'
    BY <1>t, <1>4, <2>2, PlacesAre DEF Types, Leftovers
  <2>4. DiskInv'
    BY <1>t, <1>4 DEF DiskInv
  <2>5. CallInv'
    BY <1>t, <1>4 DEF CallInv
  <2>6. HoldInv'
    BY <1>t, <1>4 DEF HoldInv, LifeInv, Exists
  <2>7. PlaceInv'
    BY <1>t, <1>4 DEF HoldInv, PlaceInv
  <2>8. LifeInv'
    BY <1>t, <1>4, <2>2 DEF LifeInv, Exists
  <2>9. LeftInv'
    BY <1>t, <1>4 DEF LeftInv, Unlisting, LifeInv
  <2> QED BY <2>3, <2>4, <2>5, <2>6, <2>7, <2>8, <2>9 DEF IInv
<1>5. CASE /\ item[id] = "done" /\ TakenBack(id) /\ del' = [del EXCEPT ![id] = "none"]
           /\ UNCHANGED <<item, dest, stored, pending, reserved, torrent, engine, job, call,
                          teardown, claim, files, installs>>
  <2>1. "none" \in DelSteps
    BY DEF DelSteps
  <2>2. /\ del' \in [Ids -> DelSteps] /\ del'[id] = "none"
        /\ \A i \in Ids : i # id => del'[i] = del[i]
    BY <1>t, <1>5, <2>1 DEF Types
  <2>3. /\ cleanups' = {c \in cleanups : c.dest # dest[id]} /\ listed' = cleanups'
        /\ "dropsOthers" \in Events \/ \A c \in cleanups : c.dest = dest[id] => c.id = id
    BY <1>5 DEF TakenBack
  <2>4. Types'
    BY <1>t, <1>5, <2>2, <2>3, PlacesAre DEF Types
  <2>5. DiskInv'
    BY <1>t, <1>5 DEF DiskInv
  <2>6. CallInv'
    BY <1>t, <1>5 DEF CallInv
  <2>7. HoldInv'
    BY <1>t, <1>5 DEF HoldInv
  <2>8. PlaceInv'
    BY <1>t, <1>5 DEF HoldInv, PlaceInv
  <2>9. LifeInv'
    BY <1>t, <1>5, <2>2 DEF LifeInv, Exists
  <2>10. LeftInv'
    <3>1. ASSUME "dropsOthers" \notin Events, NEW d \in Dests, files'[d] = "left"
          PROVE  ~Unlisting(d)' /\ \E c \in cleanups' : c.dest = d /\ item'[c.id] = "gone"
      <4>1. PICK c \in cleanups : c.dest = d /\ item[c.id] = "gone"
        BY <1>t, <1>5, <3>1 DEF LeftInv
      <4>2. c.id # id /\ c \in cleanups'
        BY <1>5, <2>3, <3>1, <4>1
      <4>3. ~Unlisting(d)'
        BY <1>t, <1>5, <3>1 DEF LeftInv, Unlisting
      <4> QED BY <1>5, <4>1, <4>2, <4>3
    <3> QED BY <2>3, <3>1 DEF LeftInv
  <2> QED BY <2>4, <2>5, <2>6, <2>7, <2>8, <2>9, <2>10 DEF IInv
<1> QED BY <1>1, <1>2, <1>3, <1>4, <1>5

\* The removal drops the torrent it has.
LEMMA TearDropKeeps ==
  ASSUME IInv, NEW id \in Ids, TearDrop(id)
  PROVE  IInv'
<1>t. Types /\ DiskInv /\ CallInv /\ HoldInv /\ PlaceInv /\ LifeInv /\ LeftInv
  BY DEF IInv
<1>1. /\ teardown[id].at = "wait" /\ torrent' = (IF teardown[id].engine THEN Nowhere ELSE torrent)
      /\ TearTo(id, IF teardown[id].kind = "keep" THEN "none" ELSE "files")
      /\ UNCHANGED <<item, dest, stored, pending, reserved, engine, job, call, del, cleanups,
                     listed, claim, files, installs>>
  BY DEF TearDrop, records, leftover
<1>2. (IF teardown[id].kind = "keep" THEN "none" ELSE "files") \in TearSteps
  BY DEF TearSteps
<1>3. /\ teardown' \in [Ids -> Teardowns] /\ teardown'[id].at = (IF teardown[id].kind = "keep" THEN "none" ELSE "files")
      /\ teardown'[id].kind = teardown[id].kind /\ teardown'[id].engine = FALSE
      /\ \A i \in Ids : i # id => teardown'[i] = teardown[i]
  BY <1>t, <1>1, <1>2, TearGoesOn
<1>4. Types'
  BY <1>t, <1>1, <1>3, PlacesAre DEF Types
<1>5. DiskInv'
  BY <1>t, <1>1 DEF DiskInv
<1>6. CallInv'
  BY <1>t, <1>1 DEF CallInv
<1>7. HoldInv'
  BY <1>t, <1>1, <1>3, Members DEF HoldInv
<1>8. PlaceInv'
  BY <1>t, <1>1, Members DEF HoldInv, PlaceInv
<1>9. LifeInv'
  BY <1>t, <1>1, <1>3 DEF LifeInv, Exists
<1>10. LeftInv'
  BY <1>t, <1>1, <1>3 DEF LeftInv, Unlisting
<1> QED BY <1>4, <1>5, <1>6, <1>7, <1>8, <1>9, <1>10 DEF IInv

\* The files go, or none of them, and the list later.
LEMMA TearFilesKeeps ==
  ASSUME IInv, NEW id \in Ids, TearFiles(id)
  PROVE  IInv'
<1>t. Types /\ DiskInv /\ CallInv /\ HoldInv /\ PlaceInv /\ LifeInv /\ LeftInv
  BY DEF IInv
<1>1. \/ /\ teardown[id].at = "files" /\ files' = [files EXCEPT ![dest[id]] = "none"]
         /\ TearTo(id, IF teardown[id].kind = "delete" THEN "list" ELSE "none")
         /\ UNCHANGED <<item, dest, stored, pending, reserved, torrent, engine, job, call, del,
                        cleanups, listed, claim, installs>>
      \/ /\ teardown[id].at = "files" /\ TearTo(id, "none")
         /\ UNCHANGED <<item, dest, stored, pending, reserved, torrent, engine, job, call, del,
                        cleanups, listed, claim, files, installs>>
  BY DEF TearFiles, records, torrents, leftover
<1>2. CASE /\ teardown[id].at = "files" /\ files' = [files EXCEPT ![dest[id]] = "none"]
           /\ TearTo(id, IF teardown[id].kind = "delete" THEN "list" ELSE "none")
           /\ UNCHANGED <<item, dest, stored, pending, reserved, torrent, engine, job, call, del,
                          cleanups, listed, claim, installs>>
  <2>1. "none" \in Contents /\ dest[id] \in Dests
    BY <1>t DEF Types, Contents
  <2>2. /\ files' \in [Dests -> Contents] /\ files'[dest[id]] = "none"
        /\ \A e \in Dests : e # dest[id] => files'[e] = files[e]
    BY <1>t, <1>2, <2>1 DEF Types
  <2>3. (IF teardown[id].kind = "delete" THEN "list" ELSE "none") \in TearSteps
    BY DEF TearSteps
  <2>4. /\ teardown' \in [Ids -> Teardowns] /\ teardown'[id].at = (IF teardown[id].kind = "delete" THEN "list" ELSE "none")
        /\ teardown'[id].kind = teardown[id].kind /\ teardown'[id].engine = FALSE
        /\ \A i \in Ids : i # id => teardown'[i] = teardown[i]
    BY <1>t, <1>2, <2>3, TearGoesOn
  <2>5. Types'
    BY <1>t, <1>2, <2>2, <2>4, PlacesAre DEF Types
  <2>6. DiskInv'
    BY <1>t, <1>2 DEF DiskInv
  <2>7. CallInv'
    BY <1>t, <1>2 DEF CallInv
  <2>8. HoldInv'
    BY <1>t, <1>2, <2>4, Members DEF HoldInv
  <2>9. PlaceInv'
    BY <1>t, <1>2 DEF HoldInv, PlaceInv
  <2>10. LifeInv'
    BY <1>t, <1>2, <2>4 DEF LifeInv, Exists
  <2>11. LeftInv'
    BY <1>t, <1>2, <2>2, <2>4 DEF LeftInv, Unlisting
  <2> QED BY <2>5, <2>6, <2>7, <2>8, <2>9, <2>10, <2>11 DEF IInv
<1>3. CASE /\ teardown[id].at = "files" /\ TearTo(id, "none")
           /\ UNCHANGED <<item, dest, stored, pending, reserved, torrent, engine, job, call, del,
                          cleanups, listed, claim, files, installs>>
  <2>1. "none" \in TearSteps
    BY DEF TearSteps
  <2>2. /\ teardown' \in [Ids -> Teardowns] /\ teardown'[id].at = "none"
        /\ teardown'[id].kind = teardown[id].kind /\ teardown'[id].engine = FALSE
        /\ \A i \in Ids : i # id => teardown'[i] = teardown[i]
    BY <1>t, <1>3, <2>1, TearGoesOn
  <2>3. Types'
    BY <1>t, <1>3, <2>2, PlacesAre DEF Types
  <2>4. DiskInv'
    BY <1>t, <1>3 DEF DiskInv
  <2>5. CallInv'
    BY <1>t, <1>3 DEF CallInv
  <2>6. HoldInv'
    BY <1>t, <1>3, <2>2, Members DEF HoldInv
  <2>7. PlaceInv'
    BY <1>t, <1>3 DEF HoldInv, PlaceInv
  <2>8. LifeInv'
    BY <1>t, <1>3, <2>2 DEF LifeInv, Exists
  <2>9. LeftInv'
    BY <1>t, <1>3, <2>2 DEF LeftInv, Unlisting
  <2> QED BY <2>3, <2>4, <2>5, <2>6, <2>7, <2>8, <2>9 DEF IInv
<1> QED BY <1>1, <1>2, <1>3

\* What is listed for the folder is dropped, and nothing is left there.
LEMMA TearListKeeps ==
  ASSUME IInv, NEW id \in Ids, TearList(id)
  PROVE  IInv'
<1>t. Types /\ DiskInv /\ CallInv /\ HoldInv /\ PlaceInv /\ LifeInv /\ LeftInv
  BY DEF IInv
<1>1. \/ /\ teardown[id].at = "list" /\ cleanups' = {c \in cleanups : c.dest # dest[id]}
         /\ listed' = {c \in cleanups : c.dest # dest[id]} /\ TearTo(id, "none")
         /\ UNCHANGED <<item, dest, stored, pending, reserved, torrent, engine, job, call, del,
                        claim, files, installs>>
      \/ /\ teardown[id].at = "list" /\ TearTo(id, "none")
         /\ UNCHANGED <<item, dest, stored, pending, reserved, torrent, engine, job, call, del,
                        cleanups, listed, claim, files, installs>>
  BY DEF TearList, records, torrents, Unlist
<1>2. CASE /\ teardown[id].at = "list" /\ cleanups' = {c \in cleanups : c.dest # dest[id]}
           /\ listed' = {c \in cleanups : c.dest # dest[id]} /\ TearTo(id, "none")
           /\ UNCHANGED <<item, dest, stored, pending, reserved, torrent, engine, job, call, del,
                          claim, files, installs>>
  <2>1. "none" \in TearSteps
    BY DEF TearSteps
  <2>2. /\ teardown' \in [Ids -> Teardowns] /\ teardown'[id].at = "none"
        /\ teardown'[id].kind = teardown[id].kind /\ teardown'[id].engine = FALSE
        /\ \A i \in Ids : i # id => teardown'[i] = teardown[i]
    BY <1>t, <1>2, <2>1, TearGoesOn
  <2>3. Types'
    BY <1>t, <1>2, <2>2, PlacesAre DEF Types
  <2>4. DiskInv'
    BY <1>t, <1>2 DEF DiskInv
  <2>5. CallInv'
    BY <1>t, <1>2 DEF CallInv
  <2>6. HoldInv'
    BY <1>t, <1>2, <2>2, Members DEF HoldInv
  <2>7. PlaceInv'
    BY <1>t, <1>2 DEF HoldInv, PlaceInv
  <2>8. LifeInv'
    BY <1>t, <1>2, <2>2 DEF LifeInv, Exists
  <2>9. LeftInv'
    BY <1>t, <1>2, <2>2, Members DEF LeftInv, Unlisting, Types
  <2> QED BY <2>3, <2>4, <2>5, <2>6, <2>7, <2>8, <2>9 DEF IInv
<1>3. CASE /\ teardown[id].at = "list" /\ TearTo(id, "none")
           /\ UNCHANGED <<item, dest, stored, pending, reserved, torrent, engine, job, call, del,
                          cleanups, listed, claim, files, installs>>
  <2>1. "none" \in TearSteps
    BY DEF TearSteps
  <2>2. /\ teardown' \in [Ids -> Teardowns] /\ teardown'[id].at = "none"
        /\ teardown'[id].kind = teardown[id].kind /\ teardown'[id].engine = FALSE
        /\ \A i \in Ids : i # id => teardown'[i] = teardown[i]
    BY <1>t, <1>3, <2>1, TearGoesOn
  <2>3. Types'
    BY <1>t, <1>3, <2>2, PlacesAre DEF Types
  <2>4. DiskInv'
    BY <1>t, <1>3 DEF DiskInv
  <2>5. CallInv'
    BY <1>t, <1>3 DEF CallInv
  <2>6. HoldInv'
    BY <1>t, <1>3, <2>2, Members DEF HoldInv
  <2>7. PlaceInv'
    BY <1>t, <1>3 DEF HoldInv, PlaceInv
  <2>8. LifeInv'
    BY <1>t, <1>3, <2>2 DEF LifeInv, Exists
  <2>9. LeftInv'
    BY <1>t, <1>3, <2>2, Members DEF LeftInv, Unlisting, Types
  <2> QED BY <2>3, <2>4, <2>5, <2>6, <2>7, <2>8, <2>9 DEF IInv
<1> QED BY <1>1, <1>2, <1>3

\* A leftover is claimed where no download is and none is being started.
LEMMA ReserveKeeps ==
  ASSUME IInv, NEW d \in Dests, Reserve(d)
  PROVE  IInv'
<1>t. Types /\ DiskInv /\ CallInv /\ HoldInv /\ PlaceInv /\ LifeInv /\ LeftInv
  BY DEF IInv
<1>1. /\ claim[d] = "none" /\ ~Covered(d) /\ Unstarted(d) /\ claim' = [claim EXCEPT ![d] = "held"]
      /\ UNCHANGED <<item, dest, stored, pending, reserved, torrent, engine, job, call, del,
                     teardown, cleanups, listed, files, installs>>
  BY DEF Reserve, records, torrents
<1>2. "held" \in ClaimSteps
  BY DEF ClaimSteps
<1>3. /\ claim' \in [Dests -> ClaimSteps] /\ claim'[d] = "held"
      /\ \A e \in Dests : e # d => claim'[e] = claim[e]
  BY <1>t, <1>1, <1>2 DEF Types
<1>4. Types'
  BY <1>t, <1>1, <1>3, PlacesAre DEF Types
<1>5. DiskInv'
  BY <1>t, <1>1 DEF DiskInv
<1>6. CallInv'
  BY <1>t, <1>1 DEF CallInv
<1>7. HoldInv'
  BY <1>t, <1>1 DEF HoldInv
<1>8. PlaceInv'
  BY <1>t, <1>1 DEF HoldInv, PlaceInv
<1>9. LifeInv'
  BY <1>t, <1>1 DEF LifeInv, Exists
<1>10. LeftInv'
  BY <1>t, <1>1, <1>3 DEF LeftInv, Unlisting
<1> QED BY <1>4, <1>5, <1>6, <1>7, <1>8, <1>9, <1>10 DEF IInv

\* Its files go ...
LEMMA RemoveLeftoverKeeps ==
  ASSUME IInv, NEW d \in Dests, RemoveLeftover(d)
  PROVE  IInv'
<1>t. Types /\ DiskInv /\ CallInv /\ HoldInv /\ PlaceInv /\ LifeInv /\ LeftInv
  BY DEF IInv
<1>1. \/ /\ claim[d] = "held" /\ files' = [files EXCEPT ![d] = "none"]
         /\ claim' = [claim EXCEPT ![d] = "removed"]
         /\ UNCHANGED <<item, dest, stored, pending, reserved, torrent, engine, job, call, del,
                        teardown, cleanups, listed, installs>>
      \/ /\ claim[d] = "held" /\ claim' = [claim EXCEPT ![d] = "none"]
         /\ UNCHANGED <<item, dest, stored, pending, reserved, torrent, engine, job, call, del,
                        teardown, cleanups, listed, files, installs>>
  BY DEF RemoveLeftover, records, torrents
<1>2. CASE /\ claim[d] = "held" /\ files' = [files EXCEPT ![d] = "none"]
           /\ claim' = [claim EXCEPT ![d] = "removed"]
           /\ UNCHANGED <<item, dest, stored, pending, reserved, torrent, engine, job, call, del,
                          teardown, cleanups, listed, installs>>
  <2>1. "none" \in Contents
    BY DEF Contents
  <2>2. /\ files' \in [Dests -> Contents] /\ files'[d] = "none"
        /\ \A e \in Dests : e # d => files'[e] = files[e]
    BY <1>t, <1>2, <2>1 DEF Types
  <2>3. "removed" \in ClaimSteps
    BY DEF ClaimSteps
  <2>4. /\ claim' \in [Dests -> ClaimSteps] /\ claim'[d] = "removed"
        /\ \A e \in Dests : e # d => claim'[e] = claim[e]
    BY <1>t, <1>2, <2>3 DEF Types
  <2>5. Types'
    BY <1>t, <1>2, <2>2, <2>4, PlacesAre DEF Types
  <2>6. DiskInv'
    BY <1>t, <1>2 DEF DiskInv
  <2>7. CallInv'
    BY <1>t, <1>2 DEF CallInv
  <2>8. HoldInv'
    BY <1>t, <1>2 DEF HoldInv
  <2>9. PlaceInv'
    BY <1>t, <1>2 DEF HoldInv, PlaceInv
  <2>10. LifeInv'
    BY <1>t, <1>2 DEF LifeInv, Exists
  <2>11. LeftInv'
    BY <1>t, <1>2, <2>2, <2>4 DEF LeftInv, Unlisting
  <2> QED BY <2>5, <2>6, <2>7, <2>8, <2>9, <2>10, <2>11 DEF IInv
<1>3. CASE /\ claim[d] = "held" /\ claim' = [claim EXCEPT ![d] = "none"]
           /\ UNCHANGED <<item, dest, stored, pending, reserved, torrent, engine, job, call, del,
                          teardown, cleanups, listed, files, installs>>
  <2>1. "none" \in ClaimSteps
    BY DEF ClaimSteps
  <2>2. /\ claim' \in [Dests -> ClaimSteps] /\ claim'[d] = "none"
        /\ \A e \in Dests : e # d => claim'[e] = claim[e]
    BY <1>t, <1>3, <2>1 DEF Types
  <2>3. Types'
    BY <1>t, <1>3, <2>2, PlacesAre DEF Types
  <2>4. DiskInv'
    BY <1>t, <1>3 DEF DiskInv
  <2>5. CallInv'
    BY <1>t, <1>3 DEF CallInv
  <2>6. HoldInv'
    BY <1>t, <1>3 DEF HoldInv
  <2>7. PlaceInv'
    BY <1>t, <1>3 DEF HoldInv, PlaceInv
  <2>8. LifeInv'
    BY <1>t, <1>3 DEF LifeInv, Exists
  <2>9. LeftInv'
    BY <1>t, <1>3, <2>2 DEF LeftInv, Unlisting
  <2> QED BY <2>3, <2>4, <2>5, <2>6, <2>7, <2>8, <2>9 DEF IInv
<1> QED BY <1>1, <1>2, <1>3

\* ... and then what is listed for the folder.
LEMMA LeftoverRemovedKeeps ==
  ASSUME IInv, NEW d \in Dests, LeftoverRemoved(d)
  PROVE  IInv'
<1>t. Types /\ DiskInv /\ CallInv /\ HoldInv /\ PlaceInv /\ LifeInv /\ LeftInv
  BY DEF IInv
<1>1. \/ /\ claim[d] = "removed" /\ cleanups' = {c \in cleanups : c.dest # d}
         /\ listed' = {c \in cleanups : c.dest # d} /\ claim' = [claim EXCEPT ![d] = "none"]
         /\ UNCHANGED <<item, dest, stored, pending, reserved, torrent, engine, job, call, del,
                        teardown, files, installs>>
      \/ /\ claim[d] = "removed" /\ claim' = [claim EXCEPT ![d] = "none"]
         /\ UNCHANGED <<item, dest, stored, pending, reserved, torrent, engine, job, call, del,
                        teardown, cleanups, listed, files, installs>>
  BY DEF LeftoverRemoved, records, torrents, Unlist
<1>2. CASE /\ claim[d] = "removed" /\ cleanups' = {c \in cleanups : c.dest # d}
           /\ listed' = {c \in cleanups : c.dest # d} /\ claim' = [claim EXCEPT ![d] = "none"]
           /\ UNCHANGED <<item, dest, stored, pending, reserved, torrent, engine, job, call, del,
                          teardown, files, installs>>
  <2>1. "none" \in ClaimSteps
    BY DEF ClaimSteps
  <2>2. /\ claim' \in [Dests -> ClaimSteps] /\ claim'[d] = "none"
        /\ \A e \in Dests : e # d => claim'[e] = claim[e]
    BY <1>t, <1>2, <2>1 DEF Types
  <2>3. Types'
    BY <1>t, <1>2, <2>2, PlacesAre DEF Types
  <2>4. DiskInv'
    BY <1>t, <1>2 DEF DiskInv
  <2>5. CallInv'
    BY <1>t, <1>2 DEF CallInv
  <2>6. HoldInv'
    BY <1>t, <1>2 DEF HoldInv
  <2>7. PlaceInv'
    BY <1>t, <1>2 DEF HoldInv, PlaceInv
  <2>8. LifeInv'
    BY <1>t, <1>2 DEF LifeInv, Exists
  <2>9. LeftInv'
    BY <1>t, <1>2, <2>2, Members DEF LeftInv, Unlisting, Types
  <2> QED BY <2>3, <2>4, <2>5, <2>6, <2>7, <2>8, <2>9 DEF IInv
<1>3. CASE /\ claim[d] = "removed" /\ claim' = [claim EXCEPT ![d] = "none"]
           /\ UNCHANGED <<item, dest, stored, pending, reserved, torrent, engine, job, call, del,
                          teardown, cleanups, listed, files, installs>>
  <2>1. "none" \in ClaimSteps
    BY DEF ClaimSteps
  <2>2. /\ claim' \in [Dests -> ClaimSteps] /\ claim'[d] = "none"
        /\ \A e \in Dests : e # d => claim'[e] = claim[e]
    BY <1>t, <1>3, <2>1 DEF Types
  <2>3. Types'
    BY <1>t, <1>3, <2>2, PlacesAre DEF Types
  <2>4. DiskInv'
    BY <1>t, <1>3 DEF DiskInv
  <2>5. CallInv'
    BY <1>t, <1>3 DEF CallInv
  <2>6. HoldInv'
    BY <1>t, <1>3 DEF HoldInv
  <2>7. PlaceInv'
    BY <1>t, <1>3 DEF HoldInv, PlaceInv
  <2>8. LifeInv'
    BY <1>t, <1>3 DEF LifeInv, Exists
  <2>9. LeftInv'
    BY <1>t, <1>3, <2>2, Members DEF LeftInv, Unlisting, Types
  <2> QED BY <2>3, <2>4, <2>5, <2>6, <2>7, <2>8, <2>9 DEF IInv
<1> QED BY <1>1, <1>2, <1>3

\* An installation reads a finished download that is not being deleted.
LEMMA InstallKeeps ==
  ASSUME IInv, NEW id \in Ids, Install(id)
  PROVE  IInv'
<1>t. Types /\ DiskInv /\ CallInv /\ HoldInv /\ PlaceInv /\ LifeInv /\ LeftInv
  BY DEF IInv
<1>1. /\ item[id] = "done" /\ del[id] = "none" /\ installs' = installs \cup {id}
      /\ UNCHANGED <<item, dest, stored, pending, reserved, torrent, engine, job, call, del,
                     teardown, cleanups, listed, claim, files>>
  BY DEF Install, records, torrents, leftover
<1>2. Types'
  BY <1>t, <1>1, PlacesAre DEF Types
<1>3. DiskInv'
  BY <1>t, <1>1 DEF DiskInv
<1>4. CallInv'
  BY <1>t, <1>1 DEF CallInv
<1>5. HoldInv'
  BY <1>t, <1>1 DEF HoldInv
<1>6. PlaceInv'
  BY <1>t, <1>1 DEF HoldInv, PlaceInv
<1>7. LifeInv'
  BY <1>t, <1>1 DEF LifeInv, Exists
<1>8. LeftInv'
  BY <1>t, <1>1 DEF LeftInv, Unlisting
<1> QED BY <1>2, <1>3, <1>4, <1>5, <1>6, <1>7, <1>8 DEF IInv

\* It is over.
LEMMA EndInstallKeeps ==
  ASSUME IInv, NEW id \in Ids, EndInstall(id)
  PROVE  IInv'
<1>t. Types /\ DiskInv /\ CallInv /\ HoldInv /\ PlaceInv /\ LifeInv /\ LeftInv
  BY DEF IInv
<1>1. /\ id \in installs /\ installs' = installs \ {id}
      /\ UNCHANGED <<item, dest, stored, pending, reserved, torrent, engine, job, call, del,
                     teardown, cleanups, listed, claim, files>>
  BY DEF EndInstall, records, torrents, leftover
<1>2. Types'
  BY <1>t, <1>1, PlacesAre DEF Types
<1>3. DiskInv'
  BY <1>t, <1>1 DEF DiskInv
<1>4. CallInv'
  BY <1>t, <1>1 DEF CallInv
<1>5. HoldInv'
  BY <1>t, <1>1 DEF HoldInv
<1>6. PlaceInv'
  BY <1>t, <1>1 DEF HoldInv, PlaceInv
<1>7. LifeInv'
  BY <1>t, <1>1 DEF LifeInv, Exists
<1>8. LeftInv'
  BY <1>t, <1>1 DEF LeftInv, Unlisting
<1> QED BY <1>2, <1>3, <1>4, <1>5, <1>6, <1>7, <1>8 DEF IInv

\* After a crash nobody has the torrent, and the lists are those on the disk.
LEMMA CrashKeeps ==
  ASSUME IInv, Crash
  PROVE  IInv'
<1>t. Types /\ DiskInv /\ CallInv /\ HoldInv /\ PlaceInv /\ LifeInv /\ LeftInv
  BY DEF IInv
<1>1. /\ cleanups' = listed /\ pending' = FALSE /\ reserved' = FALSE /\ torrent' = Nowhere
      /\ engine' = {} /\ installs' = {} /\ item' = stored /\ job' = [id \in Ids |-> "none"]
      /\ call' = [c \in Calls |-> Idle] /\ teardown' = [id \in Ids |-> NoTeardown]
      /\ claim' = [d \in Dests |-> "none"] /\ del' = [id \in Ids |-> "none"]
      /\ UNCHANGED <<dest, stored, listed, files>>
  BY DEF Crash
<1>2. item' \in [Ids -> ItemStates] /\ \A i \in Ids : item'[i] = stored[i]
  BY <1>t, <1>1 DEF Types, ItemStates, DiskStates
<1>3. job' \in [Ids -> JobSteps] /\ \A i \in Ids : job'[i] = "none"
  BY <1>1 DEF JobSteps
<1>4. call' \in [Calls -> Requests] /\ \A b \in Calls : call'[b].at = "idle" /\ call'[b].kind = "none"
  BY <1>1, PlacesAre DEF Idle, Requests, CallKinds, CallSteps
<1>5. teardown' \in [Ids -> Teardowns] /\ \A i \in Ids : teardown'[i].at = "none" /\ ~teardown'[i].engine
  BY <1>1 DEF NoTeardown, Teardowns, TearSteps, TearKinds
<1>6. claim' \in [Dests -> ClaimSteps] /\ \A d \in Dests : claim'[d] = "none"
  BY <1>1 DEF ClaimSteps
<1>7. del' \in [Ids -> DelSteps] /\ \A i \in Ids : del'[i] = "none"
  BY <1>1 DEF DelSteps
<1>8. Types'
  BY <1>t, <1>1, <1>2, <1>3, <1>4, <1>5, <1>6, <1>7, PlacesAre DEF Types
<1>9. DiskInv'
  BY <1>t, <1>1, <1>2 DEF DiskInv
<1>10. CallInv'
  BY <1>t, <1>1, <1>4 DEF CallInv
<1>11. HoldInv'
  BY <1>t, <1>1, <1>3, <1>4, <1>5 DEF HoldInv
<1>12. PlaceInv'
  BY <1>t, <1>1, <1>3, <1>4 DEF HoldInv, PlaceInv
<1>13. LifeInv'
  BY <1>t, <1>1, <1>2, <1>3, <1>5, <1>7 DEF LifeInv, Exists
<1>14. LeftInv'
  BY <1>t, <1>1, <1>2, <1>5, <1>6, Members DEF LeftInv, Unlisting, DiskInv
<1> QED BY <1>8, <1>9, <1>10, <1>11, <1>12, <1>13, <1>14 DEF IInv

-----------------------------------------------------------------------------
(* The theorems *)

\* The invariant holds where there is nothing yet, ...
LEMMA InitIInv == Init => IInv
<1> SUFFICES ASSUME Init PROVE IInv
  OBVIOUS
<1>1. /\ item = [id \in Ids |-> "new"] /\ stored = item /\ dest \in [Ids -> Dests]
      /\ pending = FALSE /\ reserved = FALSE /\ torrent = Nowhere /\ engine = {}
      /\ job = [id \in Ids |-> "none"] /\ call = [c \in Calls |-> Idle]
      /\ del = [id \in Ids |-> "none"] /\ teardown = [id \in Ids |-> NoTeardown]
      /\ cleanups = {} /\ listed = {} /\ claim = [d \in Dests |-> "none"]
      /\ files = [d \in Dests |-> "none"] /\ installs = {}
  <2>1. (CHOOSE d \in Dests : TRUE) \in Dests
    BY DownloadDataConstants
  <2> QED BY <2>1 DEF Init
<1>2. Idle \in Requests /\ Idle.at = "idle" /\ Idle.kind = "none"
  BY PlacesAre DEF Idle, Requests, CallKinds, CallSteps
<1>3. NoTeardown \in Teardowns /\ NoTeardown.at = "none" /\ NoTeardown.engine = FALSE
  BY DEF NoTeardown, Teardowns, TearSteps, TearKinds
<1>4. Types
  BY <1>1, <1>2, <1>3, PlacesAre DEF Types, ItemStates, DiskStates, JobSteps, DelSteps,
     ClaimSteps, Contents
<1>5. DiskInv /\ CallInv
  BY <1>1, <1>2 DEF DiskInv, CallInv
<1>6. HoldInv /\ PlaceInv
  BY <1>1, <1>2, <1>3 DEF HoldInv, PlaceInv
<1>7. LifeInv /\ LeftInv
  BY <1>1, <1>3 DEF LifeInv, LeftInv
<1> QED BY <1>4, <1>5, <1>6, <1>7 DEF IInv

\* ... and every step keeps it.
LEMMA NextKeeps ==
  ASSUME IInv, [Next]_vars
  PROVE  IInv'
<1>1. ASSUME NEW c \in Calls, Fetch(c) \/ Look(c) \/ CallStep(c)
      PROVE  IInv'
  BY <1>1, FetchKeeps, LookKeeps, StartCheckKeeps, AddTorrentKeeps, FetchedKeeps, LookedKeeps,
     InspectedKeeps, ReleaseKeeps, CommitKeeps DEF CallStep
<1>2. ASSUME NEW id \in Ids, Restore(id) \/ JobStep(id) \/ Complete(id) \/ Detach(id)
      PROVE  IInv'
  BY <1>2, RestoreKeeps, JobBeginsKeeps, JobAddsKeeps, SettleKeeps, JobReleasesKeeps, EndJobKeeps,
     CompleteKeeps, DetachKeeps DEF JobStep
<1>3. ASSUME NEW id \in Ids, Remove(id, TRUE) \/ Remove(id, FALSE) \/ DeleteClaim(id) \/ DeleteStep(id)
      PROVE  IInv'
  <2>1. TRUE \in BOOLEAN /\ FALSE \in BOOLEAN
    OBVIOUS
  <2> QED BY <1>3, <2>1, RemoveKeeps, DeleteClaimKeeps, DeleteGuardKeeps, DeleteCommitKeeps DEF DeleteStep
<1>4. ASSUME NEW id \in Ids, TearStep(id) \/ Install(id) \/ EndInstall(id)
      PROVE  IInv'
  BY <1>4, TearDropKeeps, TearFilesKeeps, TearListKeeps, InstallKeeps, EndInstallKeeps DEF
     TearStep
<1>5. ASSUME NEW d \in Dests, Reserve(d) \/ CleanStep(d)
      PROVE  IInv'
  BY <1>5, ReserveKeeps, RemoveLeftoverKeeps, LeftoverRemovedKeeps DEF CleanStep
<1>6. ASSUME NEW c \in Calls, NEW d \in Dests,
             Start(c, d) \/ \E kind \in {"task", "check", "inspect"} : Request(c, kind, d)
      PROVE  IInv'
  BY <1>6, StartKeeps, RequestKeeps
<1>7. CASE UNCHANGED vars
  <2>1. /\ UNCHANGED <<item, dest, stored, pending, reserved, torrent, engine, job, call, del,
                       teardown>>
        /\ UNCHANGED <<cleanups, listed, claim, files, installs>>
    BY <1>7 DEF vars, records, torrents, leftover
  <2>2. Types' /\ DiskInv' /\ CallInv' /\ PlaceInv'
    BY <2>1 DEF IInv, Types, DiskInv, CallInv, PlaceInv
  <2>3. HoldInv'
    BY <2>1 DEF IInv, HoldInv
  <2>4. LifeInv' /\ LeftInv'
    BY <2>1 DEF IInv, LifeInv, LeftInv, Exists, Unlisting
  <2> QED BY <2>2, <2>3, <2>4 DEF IInv
<1>8. CASE Discard \/ DropDetached \/ Crash
  BY <1>8, DiscardKeeps, DropDetachedKeeps, CrashKeeps
<1> QED BY <1>1, <1>2, <1>3, <1>4, <1>5, <1>6, <1>7, <1>8 DEF Next

\* ... so it holds always, ...
LEMMA AlwaysIInv == Spec => []IInv
BY InitIInv, NextKeeps, PTL DEF Spec

\* ... and it is what the run checks: one torrent, one folder, ...
LEMMA IInvConsistent == IInv => Consistent
<1> SUFFICES ASSUME IInv PROVE Consistent
  OBVIOUS
<1>1. Types /\ DiskInv /\ HoldInv /\ PlaceInv /\ LifeInv
  BY DEF IInv
<1>2. TypeOK
  BY <1>1, TypesAre
<1>3. Cardinality(engine) <= 1
  <2>1. CASE engine = {}
    BY <2>1, FS_EmptySet
  <2>2. CASE engine # {}
    <3>1. PICK id \in engine : TRUE
      BY <2>2
    <3>2. engine = {id}
      BY <1>1, <3>1 DEF HoldInv
    <3> QED BY <3>2, FS_Singleton
  <2> QED BY <2>1, <2>2
<1>4. EngineIsOwn
  BY <1>1, <1>3 DEF EngineIsOwn, PlaceInv, LifeInv, Types
<1>5. InstallKeepsData
  BY <1>1 DEF InstallKeepsData, LifeInv, Types
<1> QED BY <1>2, <1>4, <1>5 DEF Consistent

\* One torrent writes to the folder of the one download that has it, and the removal of a
\* download takes no files an installation reads (attach, reserveHash; AddDeleteGuard).
THEOREM TorrentIsOwn == Spec => []Consistent
BY AlwaysIInv, IInvConsistent, PTL

\* ... and what is left is on the list.
LEMMA IInvTracked ==
  ASSUME IInv, "dropsOthers" \notin Events
  PROVE  Tracked
<1>1. Types /\ LeftInv
  BY DEF IInv
<1>2. ASSUME NEW d \in Dests, files[d] = "left"
      PROVE  \E c \in listed : c.dest = d /\ ~Exists(c.id)
  <2>1. PICK c \in cleanups : c.dest = d /\ item[c.id] = "gone"
    BY <1>1, <1>2 DEF LeftInv
  <2> QED BY <1>1, <2>1 DEF LeftInv, Exists
<1> QED BY <1>2 DEF Tracked

\* What a deletion leaves on the disk is written down, whatever fails and whenever the
\* launcher dies (DeleteData, dropCleanup).  (Hypothesis: no deletion takes another's entry off
\* the list; see Unlisting and TakenBack.)
THEOREM LeftoversAreListed ==
  ASSUME "dropsOthers" \notin Events
  PROVE  Spec => []Tracked
<1>1. IInv => Tracked
  BY IInvTracked
<1> QED BY <1>1, AlwaysIInv, PTL

-----------------------------------------------------------------------------
(* Leftovers *)

\* A step that adds no download, starts none and claims no folder.
Calm ==
  /\ dest' = dest
  /\ \A id \in Ids : item'[id] \in {"active", "done", "failed"} => Exists(id)
  /\ \A c \in Calls : call'[c].kind = "start" => call[c].kind = "start" /\ call'[c].to = call[c].to
  /\ \A d \in Dests : claim'[d] # "none" => claim[d] # "none"

\* Such a step keeps the folders that are being cleared.
LEMMA CalmKeeps ==
  ASSUME ClaimInv, Calm
  PROVE  ClaimInv'
BY DEF ClaimInv, Calm, Exists

\* The requests, ...
LEMMA CalmCall ==
  ASSUME IInv, NEW c \in Calls,
         \/ Fetch(c) \/ Look(c) \/ StartCheck(c) \/ AddTorrent(c) \/ Fetched(c)
         \/ Looked(c) \/ Inspected(c) \/ Release(c)
         \/ \E d \in Dests, kind \in {"task", "check", "inspect"} : Request(c, kind, d)
  PROVE  Calm
<1>1. Types
  BY DEF IInv
<1>2. UNCHANGED <<dest, item, claim>>
  BY DEF Fetch, Look, StartCheck, AddTorrent, Fetched, Looked, Inspected, Release, Request, records, leftover
<1>3. \/ Finish(c) \/ Goto(c, "add") \/ Goto(c, "added") \/ Goto(c, "release") 
      \/ Asks(c, "fetch", "add", MetaDir) \/ Asks(c, "look", "add", MetaDir)
      \/ \E d \in Dests, kind \in {"task", "check", "inspect"} : Asks(c, kind, "add", d)
  BY DEF Fetch, Look, StartCheck, AddTorrent, Fetched, Looked, Inspected, Release, Request, Asks
<1>4. {"add", "added", "release"} \subseteq CallSteps /\ {"fetch", "look", "task", "check", "inspect"} \subseteq CallKinds
  BY DEF CallSteps, CallKinds
<1>5. CASE Finish(c)
  BY <1>1, <1>2, <1>5, FinishSteps DEF Calm, Exists
<1>6. CASE Goto(c, "add") \/ Goto(c, "added") \/ Goto(c, "release")
  <2>1. \A b \in Calls : call'[b].kind = call[b].kind /\ call'[b].to = call[b].to
    BY <1>1, <1>4, <1>6, GotoSteps
  <2> QED BY <1>2, <2>1 DEF Calm, Exists
<1>7. ASSUME NEW kind \in {"fetch", "look"}, Asks(c, kind, "add", MetaDir)
      PROVE  Calm
  <2>1. call'[c].kind = kind /\ \A b \in Calls : b # c => call'[b] = call[b]
    BY <1>1, <1>4, <1>7, PlacesAre, AsksSteps
  <2> QED BY <1>2, <2>1 DEF Calm, Exists
<1>8. ASSUME NEW d \in Dests, NEW kind \in {"task", "check", "inspect"}, Asks(c, kind, "add", d)
      PROVE  Calm
  <2>1. call'[c].kind = kind /\ \A b \in Calls : b # c => call'[b] = call[b]
    BY <1>1, <1>4, <1>8, PlacesAre, AsksSteps
  <2> QED BY <1>2, <2>1 DEF Calm, Exists
<1> QED BY <1>3, <1>5, <1>6, <1>7, <1>8

\* ... what happens to a download that is there, ...
LEMMA CalmDownload ==
  ASSUME IInv, NEW id \in Ids,
         \/ Restore(id) \/ JobStep(id) \/ Complete(id) \/ Detach(id) \/ Remove(id, TRUE) \/ Remove(id, FALSE)
         \/ DeleteClaim(id) \/ DeleteStep(id) \/ TearStep(id) \/ Install(id) \/ EndInstall(id)
  PROVE  Calm
<1>1. Types /\ LifeInv
  BY DEF IInv
<1>2. UNCHANGED <<dest, call, claim>>
  BY DEF Restore, JobStep, JobBegins, JobAdds, Settle, JobReleases, EndJob, Complete, Detach, Remove,
     DeleteClaim, DeleteStep, DeleteGuard, DeleteCommit, TearStep, TearDrop, TearFiles, TearList,
     Install, EndInstall, records, leftover
<1>3. \/ item' = item
      \/ Exists(id) /\ \E x \in ItemStates : item' = [item EXCEPT ![id] = x]
  <2>1. ItemStates = {"new", "active", "done", "failed", "gone"} /\ item[id] \in ItemStates
    BY <1>1 DEF ItemStates, Types
  <2>2. CASE Restore(id) \/ JobStep(id)
    <3>1. job[id] # "none" => item[id] # "new"
      BY <1>1 DEF LifeInv
    <3>2. CASE Restore(id)
      BY <2>1, <3>2 DEF Restore
    <3>3. CASE JobAdds(id)
      <4>1. CASE item[id] = "active"
        BY <2>1, <3>3, <4>1 DEF JobAdds, Exists
      <4>2. CASE item[id] # "active"
        BY <1>1, <3>3, <4>2 DEF JobAdds, Types
      <4> QED BY <4>1, <4>2
    <3>4. CASE Settle(id)
      BY <2>1, <3>4 DEF Settle
    <3>5. CASE JobBegins(id) \/ JobReleases(id) \/ EndJob(id)
      BY <3>5 DEF JobBegins, JobReleases, EndJob, records
    <3> QED BY <2>2, <3>2, <3>3, <3>4, <3>5 DEF JobStep
  <2>3. CASE Complete(id) \/ Detach(id) \/ Remove(id, TRUE) \/ Remove(id, FALSE)
    BY <2>1, <2>3 DEF Complete, Detach, Remove, records, Exists
  <2>4. CASE DeleteClaim(id) \/ DeleteStep(id)
    BY <2>1, <2>4 DEF DeleteClaim, DeleteStep, DeleteGuard, DeleteCommit, records, Exists
  <2>5. CASE TearStep(id) \/ Install(id) \/ EndInstall(id)
    BY <2>5 DEF TearStep, TearDrop, TearFiles, TearList, Install, EndInstall, records
  <2> QED BY <2>2, <2>3, <2>4, <2>5
<1>4. \A i \in Ids : item'[i] \in {"active", "done", "failed"} => Exists(i)
  BY <1>1, <1>3 DEF Types, Exists
<1> QED BY <1>2, <1>4 DEF Calm

\* ... and what gives a claim back.
LEMMA CalmRest ==
  ASSUME IInv, Discard \/ DropDetached \/ Crash \/ \E d \in Dests : CleanStep(d)
  PROVE  Calm
<1>1. Types /\ DiskInv
  BY DEF IInv
<1>2. CASE Discard \/ DropDetached
  BY <1>2 DEF Discard, DropDetached, records, leftover, Calm, Exists
<1>3. CASE Crash
  <2>1. dest' = dest /\ item' = stored /\ claim' = [d \in Dests |-> "none"] /\ call' = [c \in Calls |-> Idle]
    BY <1>3 DEF Crash
  <2>2. \A c \in Calls : call'[c].kind # "start"
    BY <2>1 DEF Idle
  <2> QED BY <1>1, <2>1, <2>2 DEF Calm, Exists, DiskInv, Types, ItemStates
<1>4. ASSUME NEW d \in Dests, CleanStep(d)
      PROVE  Calm
  <2>1. /\ UNCHANGED <<dest, item, call>> /\ claim[d] # "none"
        /\ claim' = [claim EXCEPT ![d] = "none"] \/ claim' = [claim EXCEPT ![d] = "removed"]
    BY <1>4 DEF CleanStep, RemoveLeftover, LeftoverRemoved, records
  <2>2. \A e \in Dests : claim'[e] # "none" => claim[e] # "none"
    BY <1>1, <2>1 DEF Types
  <2> QED BY <2>1, <2>2 DEF Calm, Exists
<1> QED BY <1>2, <1>3, <1>4

\* StartDownloadFrom finds no claim on the folder it is to use, ...
LEMMA ClaimStart ==
  ASSUME IInv, ClaimInv, "startIntoClaim" \notin Events, NEW c \in Calls, NEW d \in Dests, Start(c, d)
  PROVE  ClaimInv'
<1>1. Types
  BY DEF IInv
<1>2. UNCHANGED <<dest, item, claim>> /\ claim[d] = "none" /\ Asks(c, "start", "check", d)
  BY DEF Start, Unclaimed, Asks, records, leftover
<1>3. "start" \in CallKinds /\ "check" \in CallSteps /\ d \in Places
  BY PlacesAre DEF CallKinds, CallSteps
<1>4. call'[c].to = d /\ \A b \in Calls : b # c => call'[b] = call[b]
  BY <1>1, <1>2, <1>3, AsksSteps
<1> QED BY <1>2, <1>4 DEF ClaimInv, Exists

\* ... so the download that is added has a folder nobody clears, ...
LEMMA ClaimCommit ==
  ASSUME IInv, ClaimInv, NEW c \in Calls, NEW id \in Ids, Commit(c, id)
  PROVE  ClaimInv'
<1>1. Types /\ CallInv
  BY DEF IInv
<1>2. call[c].kind \in {"start", "task", "check"} /\ claim' = claim
  BY DEF Commit, leftover
<1>3. CASE Refused(c)
  <2>1. UNCHANGED <<item, dest>> /\ Goto(c, "release") /\ "release" \in CallSteps
    BY <1>3 DEF Refused, records, CallSteps
  <2>2. \A b \in Calls : call'[b].kind = call[b].kind /\ call'[b].to = call[b].to
    BY <1>1, <2>1, GotoSteps
  <2> QED BY <1>2, <2>1, <2>2 DEF ClaimInv, Exists
<1>4. CASE /\ call[c].kind = "start" \/ claim[call[c].to] = "none"
           /\ Record(c, id) /\ Finish(c)
  <2>1. /\ call[c].to \in Dests /\ claim[call[c].to] = "none"
    BY <1>1, <1>2, <1>4 DEF CallInv, ClaimInv
  <2>2. /\ dest'[id] = call[c].to /\ \A i \in Ids : i # id => item'[i] = item[i] /\ dest'[i] = dest[i]
    BY <1>1, <1>4 DEF Record, Types
  <2>3. call'[c].kind = "none" /\ \A b \in Calls : b # c => call'[b] = call[b]
    BY <1>1, <1>4, FinishSteps
  <2> QED BY <1>2, <2>1, <2>2, <2>3 DEF ClaimInv, Exists
<1> QED BY <1>3, <1>4 DEF Commit

\* ... and ReserveCleanup finds no download there, nor one being started.
LEMMA ClaimReserve ==
  ASSUME IInv, ClaimInv, "startIntoClaim" \notin Events, NEW d \in Dests, Reserve(d)
  PROVE  ClaimInv'
<1>1. Types
  BY DEF IInv
<1>2. /\ UNCHANGED <<dest, item, call>> /\ claim' = [claim EXCEPT ![d] = "held"]
      /\ ~Covered(d) /\ \A c \in Calls : call[c].kind = "start" => call[c].to # d
  BY DEF Reserve, Unstarted, records
<1>3. \A e \in Dests : e # d => claim'[e] = claim[e]
  BY <1>1, <1>2 DEF Types
<1>4. \A id \in Ids : Exists(id) => dest[id] # d
  BY <1>2 DEF Covered, Items
<1> QED BY <1>2, <1>3, <1>4 DEF ClaimInv, Exists

\* Every step keeps the folders that are being cleared.
LEMMA ClaimKeeps ==
  ASSUME IInv, ClaimInv, "startIntoClaim" \notin Events, [Next]_vars
  PROVE  ClaimInv'
<1>1. ASSUME NEW c \in Calls, Fetch(c) \/ Look(c) \/ CallStep(c)
      PROVE  ClaimInv'
  BY <1>1, CalmCall, CalmKeeps, ClaimCommit DEF CallStep
<1>2. ASSUME NEW c \in Calls, NEW d \in Dests,
             Start(c, d) \/ \E kind \in {"task", "check", "inspect"} : Request(c, kind, d)
      PROVE  ClaimInv'
  <2>1. CASE Start(c, d)
    BY <2>1, ClaimStart
  <2>2. CASE \E kind \in {"task", "check", "inspect"} : Request(c, kind, d)
    BY <2>2, CalmCall, CalmKeeps
  <2> QED BY <1>2, <2>1, <2>2
<1>3. ASSUME NEW id \in Ids,
             \/ Restore(id) \/ JobStep(id) \/ Complete(id) \/ Detach(id) \/ Remove(id, TRUE) \/ Remove(id, FALSE)
             \/ DeleteClaim(id) \/ DeleteStep(id) \/ TearStep(id) \/ Install(id) \/ EndInstall(id)
      PROVE  ClaimInv'
  BY <1>3, CalmDownload, CalmKeeps
<1>4. ASSUME NEW d \in Dests, Reserve(d) \/ CleanStep(d)
      PROVE  ClaimInv'
  BY <1>4, ClaimReserve, CalmRest, CalmKeeps
<1>5. CASE Discard \/ DropDetached \/ Crash
  BY <1>5, CalmRest, CalmKeeps
<1>6. CASE UNCHANGED vars
  <2>1. UNCHANGED <<dest, item, call, claim>>
    BY <1>6 DEF vars, records, leftover
  <2> QED BY <2>1 DEF ClaimInv, Exists
<1> QED BY <1>1, <1>2, <1>3, <1>4, <1>5, <1>6 DEF Next

\* The removal of a leftover takes no files of a download, however late that was added.
\* (Hypothesis: StartDownloadFrom is not asked for a folder whose leftover is being removed;
\* the code does not look.)
THEOREM LeftoverRemovalIsSafe ==
  ASSUME "startIntoClaim" \notin Events
  PROVE  Spec => LeftoverIsNobodys
<1>1. Init => ClaimInv
  BY DEF Init, ClaimInv
<1>2. IInv /\ ClaimInv /\ [Next]_vars => ClaimInv'
  BY ClaimKeeps
<1>3. ClaimInv => [\A d \in Dests : claim[d] = "held" /\ claim'[d] = "removed" => ~Covered(d)]_vars
  BY DEF ClaimInv, Covered, Items
<1> QED BY <1>1, <1>2, <1>3, AlwaysIInv, PTL DEF Spec, LeftoverIsNobodys
=============================================================================
