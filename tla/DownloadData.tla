------------------------------ MODULE DownloadData ------------------------------
(***************************************************************************)
(* Who may use one torrent and the folders it is written to: the requests   *)
(* that add it, the downloads that have it, the removal of a download with  *)
(* its data, and the leftovers of an earlier removal.                       *)
(*                                                                          *)
(* One info hash: a second one shares none of this state.  A step under the *)
(* manager's lock is one action; a request that gives the lock up between   *)
(* two steps is at the next one in "call", the job of a download in "job",  *)
(* its removal in "del" and "teardown".  Abstracted: the content of the     *)
(* files, the client's changes of network (see DownloadManager).            *)
(***************************************************************************)
EXTENDS Naturals, FiniteSets

CONSTANTS Ids,      \* records that are made
          Dests,    \* folders a download can be put in
          Calls,    \* requests of the frontend under way at a time
          Events    \* "startIntoClaim" (see Unclaimed), "dropsOthers" (see Unlisting),
                    \* "persistFails", "crash"

Nowhere  == "nowhere"
MetaDir  == "meta"

ASSUME DownloadDataConstants ==
  /\ Events \subseteq {"startIntoClaim", "dropsOthers", "persistFails", "crash"}
  /\ Dests # {} /\ {Nowhere, MetaDir} \cap Dests = {}

VARIABLES
  item,      \* the records: "new" (not made), "active", "done", "failed", "gone"
  dest,      \* the folder of each
  stored,    \* the records in downloads.json
  pending,   \* a torrent with its metadata waits for StartDownload
  reserved,  \* m.reserved has the hash
  torrent,   \* where the client writes the torrent, Nowhere if it has none
  engine,    \* the records that hold it (m.engines)
  job,       \* the step of each record's job (m.jobs; see Registered)
  call,      \* the requests
  del,       \* DeleteData: the claim of a record (d.deleting) and its guard
  teardown,  \* what is left to do for a removed record
  cleanups,  \* the list of leftovers ...
  listed,    \* ... and cleanup.json
  claim,     \* the removal of each leftover (m.claims)
  files,     \* what is in each folder: data, what a deleted download left, or nothing
  installs   \* the downloads an installation reads from

torrents == <<pending, reserved, torrent, engine, job>>
records  == <<item, dest, stored>>
leftover == <<cleanups, listed, claim>>
vars     == <<records, torrents, call, del, teardown, leftover, files, installs>>

Idle     == [kind |-> "none", at |-> "idle", to |-> Nowhere]
NoTeardown == [at |-> "none", kind |-> "keep", engine |-> FALSE]

Exists(id) == item[id] \in {"active", "done", "failed"}
Items == {id \in Ids : Exists(id)}
Covered(d) == \E id \in Items : dest[id] = d                       \* coveredLocked
Fails == "persistFails" \in Events

\* m.jobs has the job: AddTask's goroutine is not in it before beginJob, nor when that refused.
Registered(id) == job[id] \notin {"none", "spawned", "unbegun"}

----------------------------------------------------------------------------
(* The reservation of the hash *)

\* hashBusyLocked
HashBusy == reserved \/ pending \/ \E id \in Items : id \in engine \/ Registered(id)
\* hashInUseLocked
HashInUse(id) == reserved \/ \E other \in Items \ {id} : other \in engine

\* Slip: the client takes a torrent it has already, where that is.
Add_Merges(place) == torrent' = IF torrent = Nowhere THEN place ELSE torrent

\* client.add: a torrent the client has already is refused.
Add(place) == torrent = Nowhere /\ torrent' = place

Goto(c, at) == call' = [call EXCEPT ![c].at = at]
Finish(c) == call' = [call EXCEPT ![c] = Idle]

\* What "startIntoClaim" allows: StartDownloadFrom puts a download into a folder whose
\* leftover is being removed.  AddTask looks at the claims, StartDownloadFrom does not.
Unclaimed(d) == "startIntoClaim" \in Events \/ claim[d] = "none"
Unstarted(d) == \/ "startIntoClaim" \in Events
                \/ \A c \in Calls : call[c].kind = "start" => call[c].to # d

\* FetchMetadata
Fetch(c) == /\ call[c] = Idle
            /\ Items = {} /\ ~HashBusy
            /\ reserved' = TRUE
            /\ call' = [call EXCEPT ![c] = [kind |-> "fetch", at |-> "add", to |-> MetaDir]]
            /\ UNCHANGED <<records, pending, torrent, engine, job, del, teardown, leftover, files, installs>>

\* metainfoFor asks for metainfo it does not have, before the hash is reserved.
Look(c) == /\ call[c] = Idle
           /\ call' = [call EXCEPT ![c] = [kind |-> "look", at |-> "add", to |-> MetaDir]]
           /\ UNCHANGED <<records, torrents, del, teardown, leftover, files, installs>>

\* The metainfo has come, or will not; the request goes on as a new one (Request).
Looked(c) == /\ call[c].kind = "look" /\ call[c].at = "added"
             /\ torrent' = Nowhere /\ Finish(c)
             /\ UNCHANGED <<records, pending, reserved, engine, job, del, teardown, leftover, files, installs>>

\* StartDownloadFrom takes the pending torrent ...
Start(c, d) == /\ call[c] = Idle /\ pending /\ Unclaimed(d)
               /\ pending' = FALSE /\ reserved' = TRUE
               /\ call' = [call EXCEPT ![c] = [kind |-> "start", at |-> "check", to |-> d]]
               /\ UNCHANGED <<records, torrent, engine, job, del, teardown, leftover, files, installs>>

\* ... gives it back (returnPending), or drops it.
StartCheck(c) ==
  /\ call[c].at = "check"
  /\ \/ /\ reserved' = FALSE /\ pending' = TRUE
        /\ torrent' = IF pending THEN Nowhere ELSE torrent
        /\ Finish(c)
     \/ /\ torrent' = Nowhere /\ Goto(c, "add")
        /\ UNCHANGED <<reserved, pending>>
  /\ UNCHANGED <<records, engine, job, del, teardown, leftover, files, installs>>

\* AddTask with or without a check of what is there, and InspectReuse
Request(c, kind, d) ==
  /\ call[c] = Idle /\ ~HashBusy
  /\ reserved' = TRUE
  /\ call' = [call EXCEPT ![c] = [kind |-> kind, at |-> "add", to |-> d]]
  /\ UNCHANGED <<records, pending, torrent, engine, job, del, teardown, leftover, files, installs>>

AddTorrent(c) ==
  /\ call[c].at = "add"
  /\ \/ Add(call[c].to) /\ Goto(c, "added")
     \/ /\ IF call[c].kind = "look" THEN Finish(c) ELSE Goto(c, "release")
        /\ UNCHANGED torrent
  /\ UNCHANGED <<records, pending, reserved, engine, job, del, teardown, leftover, files, installs>>

\* The metadata has come, or the request has been cancelled or has waited long enough.
Fetched(c) ==
  /\ call[c].kind = "fetch" /\ call[c].at = "added"
  /\ \/ pending' = TRUE /\ reserved' = FALSE /\ Finish(c) /\ UNCHANGED torrent
     \/ torrent' = Nowhere /\ Goto(c, "release") /\ UNCHANGED <<pending, reserved>>
  /\ UNCHANGED <<records, engine, job, del, teardown, leftover, files, installs>>

Inspected(c) == /\ call[c].kind = "inspect" /\ call[c].at = "added"
                /\ torrent' = Nowhere /\ Goto(c, "release")
                /\ UNCHANGED <<records, pending, reserved, engine, job, del, teardown, leftover, files, installs>>

\* The deferred release
Release(c) == /\ call[c].at = "release"
              /\ reserved' = FALSE /\ Finish(c)
              /\ UNCHANGED <<records, pending, torrent, engine, job, del, teardown, leftover, files, installs>>

\* DiscardMetadata
Discard == /\ pending /\ pending' = FALSE
           /\ UNCHANGED <<records, reserved, torrent, engine, job, call, del, teardown, leftover, files, installs>>

----------------------------------------------------------------------------
(* A new download *)

\* Slip: a download that could not be added leaves its hash reserved.
Refused_Leaks(c) == /\ torrent' = Nowhere /\ Finish(c)
                    /\ UNCHANGED <<records, engine, job, reserved, files>>

Refused(c) == /\ torrent' = Nowhere /\ Goto(c, "release")
              /\ UNCHANGED <<records, engine, job, reserved, files>>

Record(c, id) ==
  LET d == call[c].to
  IN /\ item[id] = "new"
     /\ item' = [item EXCEPT ![id] = "active"]
     /\ stored' = [stored EXCEPT ![id] = "active"]
     /\ dest' = [dest EXCEPT ![id] = d]
     /\ files' = [files EXCEPT ![d] = "data"]

\* The end of AddTask and of StartDownloadFrom, which does not look at the claims.
Commit(c, id) ==
  /\ call[c].kind \in {"start", "task", "check"} /\ call[c].at = "added"
  /\ \/ /\ call[c].kind = "start" \/ claim[call[c].to] = "none"
        /\ Record(c, id)
        /\ IF call[c].kind = "check"
             THEN /\ job' = [job EXCEPT ![id] = "spawned"]
                  /\ UNCHANGED <<engine, reserved>>
             ELSE /\ engine' = engine \cup {id} /\ reserved' = FALSE
                  /\ UNCHANGED job
        /\ Finish(c)
        /\ UNCHANGED torrent
     \/ Refused(c)
  /\ UNCHANGED <<pending, del, teardown, leftover, installs>>

\* The goroutine of AddTask registers its job, or drops the torrent of a removed download.
JobBegins(id) ==
  /\ job[id] = "spawned"
  /\ IF Exists(id)
       THEN job' = [job EXCEPT ![id] = "check"] /\ UNCHANGED torrent
       ELSE job' = [job EXCEPT ![id] = "unbegun"] /\ torrent' = Nowhere
  /\ UNCHANGED <<records, pending, reserved, engine, call, del, teardown, leftover, files, installs>>

\* restoreOne: the check of the reservation and the start of the job.  Bound: a download is
\* not restored before the goroutine of its AddTask has run.
Restore(id) ==
  /\ Exists(id) /\ job[id] = "none"
  /\ IF HashInUse(id)
       THEN /\ item' = [item EXCEPT ![id] = IF @ = "done" THEN @ ELSE "failed"]
            /\ UNCHANGED <<job, reserved>>
       ELSE /\ job' = [job EXCEPT ![id] = "add"]
            /\ reserved' = TRUE
            /\ UNCHANGED item
  /\ UNCHANGED <<dest, stored, pending, torrent, engine, call, del, teardown, leftover, files, installs>>

\* reattach
JobAdds(id) ==
  /\ job[id] = "add"
  /\ \/ Add(dest[id]) /\ job' = [job EXCEPT ![id] = "settle"] /\ UNCHANGED item
     \/ /\ job' = [job EXCEPT ![id] = "release"]
        /\ item' = [item EXCEPT ![id] = IF @ = "active" THEN "failed" ELSE @]
        /\ UNCHANGED torrent
  /\ UNCHANGED <<dest, stored, pending, reserved, engine, call, del, teardown, leftover, files, installs>>

\* settleRestored; the job of AddTask keeps its reservation to the end.
Settle(id) ==
  /\ job[id] \in {"settle", "check"}
  /\ IF Exists(id)
       THEN /\ engine' = engine \cup {id} /\ reserved' = (reserved /\ job[id] = "check")
            /\ job' = [job EXCEPT ![id] = "release"]
            /\ item' = [item EXCEPT ![id] = IF @ = "failed" THEN "active" ELSE @]
            /\ UNCHANGED torrent
       ELSE /\ torrent' = Nowhere /\ job' = [job EXCEPT ![id] = "release"]
            /\ UNCHANGED <<engine, reserved, item>>
  /\ UNCHANGED <<dest, stored, pending, call, del, teardown, leftover, files, installs>>

\* The deferred releaseHash and endJob
JobReleases(id) == /\ job[id] \in {"release", "unbegun"}
                   /\ reserved' = FALSE
                   /\ job' = [job EXCEPT ![id] = IF @ = "release" THEN "end" ELSE "none"]
                   /\ UNCHANGED <<records, pending, torrent, engine, call, del, teardown, leftover, files, installs>>

EndJob(id) == /\ job[id] = "end"
              /\ job' = [job EXCEPT ![id] = "none"]
              /\ UNCHANGED <<records, pending, reserved, torrent, engine, call, del, teardown, leftover, files, installs>>

\* completeLocked; the torrent is kept to seed, or detached.  A failing write is only logged.
Complete(id) ==
  /\ item[id] = "active" /\ id \in engine /\ job[id] = "none"
  /\ item' = [item EXCEPT ![id] = "done"]
  /\ \/ stored' = [stored EXCEPT ![id] = "done"]
     \/ Fails /\ UNCHANGED stored
  /\ engine' \in {engine, engine \ {id}}
  /\ UNCHANGED <<dest, pending, reserved, torrent, job, call, del, teardown, leftover, files, installs>>

\* detachEngineLocked and StopSeeding drop the torrent in the background.
Detach(id) == /\ item[id] = "done" /\ id \in engine
              /\ engine' = engine \ {id}
              /\ UNCHANGED <<records, pending, reserved, torrent, job, call, del, teardown, leftover, files, installs>>

\* A torrent somebody holds or is about to drop himself
Held == \/ pending \/ engine # {}
        \/ \E c \in Calls : call[c].at \in {"check", "added"}
        \/ \E id \in Ids : job[id] \in {"spawned", "settle", "check"} \/ teardown[id].engine

DropDetached == /\ torrent # Nowhere /\ ~Held
                /\ torrent' = Nowhere
                /\ UNCHANGED <<records, pending, reserved, engine, job, call, del, teardown, leftover, files, installs>>

----------------------------------------------------------------------------
(* Removal *)

\* What a removal leaves to be done in the background (startTeardownLocked)
Tear(id, kind) ==
  /\ engine' = engine \ {id}
  /\ teardown' = [teardown EXCEPT ![id] = [at |-> "wait", kind |-> kind, engine |-> id \in engine]]

\* discard: Cancel removes the data of a download that is not finished, Remove keeps it.
\* What DeleteData has written down for the record goes first.
Prune(id) == {c \in cleanups : c.id # id}

Remove(id, purge) ==
  /\ Exists(id)
  /\ \/ /\ cleanups' = Prune(id) /\ listed' = Prune(id)
        /\ item' = [item EXCEPT ![id] = "gone"] /\ stored' = [stored EXCEPT ![id] = "gone"]
        /\ Tear(id, IF purge /\ item[id] # "done" THEN "purge" ELSE "keep")
     \/ /\ Fails /\ cleanups' = Prune(id) /\ listed' = Prune(id)
        /\ UNCHANGED <<item, stored, engine, teardown>>
  /\ UNCHANGED <<dest, pending, reserved, torrent, job, call, del, claim, files, installs>>

\* DeleteData claims the record ...
DeleteClaim(id) == /\ item[id] = "done" /\ del[id] = "none"
                   /\ del' = [del EXCEPT ![id] = "claimed"]
                   /\ UNCHANGED <<records, torrents, call, teardown, leftover, files, installs>>

\* ... asks whether it is in use (CheckDownloadDeletable) ...
DeleteGuard(id) == /\ del[id] = "claimed"
                   /\ del' = [del EXCEPT ![id] = IF id \in installs THEN "none" ELSE "guarded"]
                   /\ UNCHANGED <<records, torrents, call, teardown, leftover, files, installs>>

\* What "dropsOthers" allows: the entries of a folder are dropped whosever they are.  A removal
\* does so (dropCleanup) when another download of the folder has been deleted meanwhile ...
Unlisting(d) == claim[d] = "removed" \/ \E id \in Ids : teardown[id].at = "list" /\ dest[id] = d

\* ... and a deletion that fails (removeCleanupLocked) when one had been deleted before.
TakenBack(id) == /\ "dropsOthers" \in Events \/ \A c \in cleanups : c.dest = dest[id] => c.id = id
                 /\ cleanups' = {c \in cleanups : c.dest # dest[id]} /\ listed' = cleanups'

\* ... and writes down what it is going to remove before it takes the record out.
DeleteCommit(id) ==
  LET entry == [id |-> id, dest |-> dest[id]]
  IN /\ del[id] = "guarded" /\ ("dropsOthers" \in Events \/ ~Unlisting(dest[id]))
     /\ del' = [del EXCEPT ![id] = "none"]
     /\ \/ /\ item[id] = "done"
           /\ cleanups' = cleanups \cup {entry} /\ listed' = cleanups \cup {entry}
           /\ item' = [item EXCEPT ![id] = "gone"] /\ stored' = [stored EXCEPT ![id] = "gone"]
           /\ files' = [files EXCEPT ![dest[id]] = IF @ = "data" THEN "left" ELSE @]
           /\ Tear(id, "delete")
        \/ /\ Fails /\ item[id] = "done"      \* the record stays, and the entry may
           /\ \/ cleanups' = cleanups \cup {entry} /\ listed' = cleanups \cup {entry}
              \/ TakenBack(id)
              \/ UNCHANGED <<cleanups, listed>>
           /\ UNCHANGED <<item, stored, files, engine, teardown>>
        \/ /\ item[id] # "done"               \* it was removed meanwhile
           /\ UNCHANGED <<item, stored, cleanups, listed, files, engine, teardown>>
     /\ UNCHANGED <<dest, pending, reserved, torrent, job, call, claim, installs>>

TearTo(id, at) == teardown' = [teardown EXCEPT ![id].at = at, ![id].engine = FALSE]

\* The job ends first, then the torrent is dropped ...
TearDrop(id) ==
  /\ teardown[id].at = "wait" /\ ~Registered(id)
  /\ torrent' = IF teardown[id].engine THEN Nowhere ELSE torrent
  /\ TearTo(id, IF teardown[id].kind = "keep" THEN "none" ELSE "files")
  /\ UNCHANGED <<records, pending, reserved, engine, job, call, del, leftover, files, installs>>

\* Slip: the entry is taken off the list also when the files could not be removed.
TearFiles_Forgets(id) ==
  /\ teardown[id].at = "files"
  /\ \/ files' = [files EXCEPT ![dest[id]] = "none"]
     \/ UNCHANGED files
  /\ TearTo(id, IF teardown[id].kind = "delete" THEN "list" ELSE "none")
  /\ UNCHANGED <<records, torrents, call, del, leftover, installs>>

\* ... then the files go, or some of them, or none.
TearFiles(id) ==
  /\ teardown[id].at = "files"
  /\ \/ files' = [files EXCEPT ![dest[id]] = "none"]
        /\ TearTo(id, IF teardown[id].kind = "delete" THEN "list" ELSE "none")
     \/ UNCHANGED files /\ TearTo(id, "none")
  /\ UNCHANGED <<records, torrents, call, del, leftover, installs>>

\* dropCleanup
Unlist(d) == \/ /\ cleanups' = {c \in cleanups : c.dest # d}
                /\ listed' = cleanups'
             \/ Fails /\ UNCHANGED <<cleanups, listed>>

TearList(id) == /\ teardown[id].at = "list"
                /\ Unlist(dest[id])
                /\ TearTo(id, "none")
                /\ UNCHANGED <<records, torrents, call, del, claim, files, installs>>

----------------------------------------------------------------------------
(* Leftovers and installations *)

\* Slip: only the record that left it behind is looked for.
Reserve_Unchecked(d) ==
  /\ claim[d] = "none"
  /\ \E c \in cleanups : c.dest = d /\ ~Exists(c.id)
  /\ Unstarted(d)
  /\ claim' = [claim EXCEPT ![d] = "held"]
  /\ UNCHANGED <<records, torrents, call, del, teardown, cleanups, listed, files, installs>>

\* ReserveCleanup with cleanupVerdictLocked
Reserve(d) ==
  /\ claim[d] = "none"
  /\ \E c \in cleanups : c.dest = d /\ ~Exists(c.id)
  /\ ~Covered(d) /\ Unstarted(d)
  /\ claim' = [claim EXCEPT ![d] = "held"]
  /\ UNCHANGED <<records, torrents, call, del, teardown, cleanups, listed, files, installs>>

\* RemoveCleanup
RemoveLeftover(d) ==
  /\ claim[d] = "held"
  /\ \/ files' = [files EXCEPT ![d] = "none"] /\ claim' = [claim EXCEPT ![d] = "removed"]
     \/ UNCHANGED files /\ claim' = [claim EXCEPT ![d] = "none"]
  /\ UNCHANGED <<records, torrents, call, del, teardown, cleanups, listed, installs>>

LeftoverRemoved(d) ==
  /\ claim[d] = "removed"
  /\ Unlist(d)
  /\ claim' = [claim EXCEPT ![d] = "none"]
  /\ UNCHANGED <<records, torrents, call, del, teardown, files, installs>>

\* An installation registers itself and looks at the claim in one step (claimLocked).
Install(id) == /\ item[id] = "done" /\ del[id] = "none" /\ id \notin installs
               /\ installs' = installs \cup {id}
               /\ UNCHANGED <<records, torrents, call, del, teardown, leftover, files>>

EndInstall(id) == /\ id \in installs
                  /\ installs' = installs \ {id}
                  /\ UNCHANGED <<records, torrents, call, del, teardown, leftover, files>>

\* The program is killed, and starts again.
Crash ==
  /\ "crash" \in Events
  /\ item' = stored /\ cleanups' = listed
  /\ pending' = FALSE /\ reserved' = FALSE /\ torrent' = Nowhere /\ engine' = {}
  /\ job' = [id \in Ids |-> "none"] /\ call' = [c \in Calls |-> Idle]
  /\ del' = [id \in Ids |-> "none"] /\ teardown' = [id \in Ids |-> NoTeardown]
  /\ claim' = [d \in Dests |-> "none"] /\ installs' = {}
  /\ UNCHANGED <<dest, stored, listed, files>>

----------------------------------------------------------------------------
(* The specification *)

Init ==
  /\ item = [id \in Ids |-> "new"] /\ stored = item
  /\ dest \in [Ids -> {CHOOSE d \in Dests : TRUE}]
  /\ pending = FALSE /\ reserved = FALSE /\ torrent = Nowhere /\ engine = {}
  /\ job = [id \in Ids |-> "none"] /\ call = [c \in Calls |-> Idle]
  /\ del = [id \in Ids |-> "none"] /\ teardown = [id \in Ids |-> NoTeardown]
  /\ cleanups = {} /\ listed = {} /\ claim = [d \in Dests |-> "none"]
  /\ files = [d \in Dests |-> "none"] /\ installs = {}

\* What a request, a job, a removal does once it has begun
CallStep(c) == StartCheck(c) \/ AddTorrent(c) \/ Fetched(c) \/ Looked(c) \/ Inspected(c) \/ Release(c)
               \/ \E id \in Ids : Commit(c, id)
JobStep(id) == JobBegins(id) \/ JobAdds(id) \/ Settle(id) \/ JobReleases(id) \/ EndJob(id)
TearStep(id) == TearDrop(id) \/ TearFiles(id) \/ TearList(id)
DeleteStep(id) == DeleteGuard(id) \/ DeleteCommit(id)
CleanStep(d) == RemoveLeftover(d) \/ LeftoverRemoved(d)

Next ==
  \/ \E c \in Calls :
       \/ Fetch(c) \/ Look(c) \/ CallStep(c)
       \/ \E d \in Dests : Start(c, d) \/ \E kind \in {"task", "check", "inspect"} : Request(c, kind, d)
  \/ \E id \in Ids :
       \/ Restore(id) \/ JobStep(id) \/ Complete(id) \/ Detach(id)
       \/ Remove(id, TRUE) \/ Remove(id, FALSE)
       \/ DeleteClaim(id) \/ DeleteStep(id) \/ TearStep(id)
       \/ Install(id) \/ EndInstall(id)
  \/ \E d \in Dests : Reserve(d) \/ CleanStep(d)
  \/ Discard \/ DropDetached \/ Crash

Spec == Init /\ [][Next]_vars

\* A request and a job that have begun go on: every wait of theirs has a limit.
FairSpec == /\ Spec
            /\ \A c \in Calls : WF_vars(CallStep(c))
            /\ \A id \in Ids : WF_vars(JobStep(id))

----------------------------------------------------------------------------
(* Properties *)

\* The values of the variables; and that a download is new, or gone, in memory
\* exactly when it is on disk (persistLocked is undone when it fails).
TypeOK ==
  /\ item \in [Ids -> {"new", "active", "done", "failed", "gone"}]
  /\ stored \in [Ids -> {"new", "active", "done", "gone"}]
  /\ dest \in [Ids -> Dests] /\ engine \subseteq Ids /\ installs \subseteq Ids
  /\ pending \in BOOLEAN /\ reserved \in BOOLEAN
  /\ torrent \in Dests \cup {Nowhere, MetaDir}
  /\ job \in [Ids -> {"none", "spawned", "unbegun", "add", "settle", "check", "release", "end"}]
  /\ call \in [Calls -> [kind : {"none", "fetch", "look", "start", "task", "check", "inspect"},
                         at : {"idle", "check", "add", "added", "release"},
                         to : Dests \cup {Nowhere, MetaDir}]]
  /\ del \in [Ids -> {"none", "claimed", "guarded"}]
  /\ teardown \in [Ids -> [at : {"none", "wait", "files", "list"},
                           kind : {"keep", "purge", "delete"}, engine : BOOLEAN]]
  /\ cleanups \subseteq [id : Ids, dest : Dests] /\ listed \subseteq [id : Ids, dest : Dests]
  /\ claim \in [Dests -> {"none", "held", "removed"}]
  /\ files \in [Dests -> {"none", "data", "left"}]
  /\ \A id \in Ids : item[id] \in {"new", "gone"} \/ stored[id] \in {"new", "gone"} => item[id] = stored[id]

\* The torrent of a download writes to its own folder, and to no other download's.
EngineIsOwn == /\ \A id \in engine : torrent = dest[id] /\ Exists(id)
               /\ Cardinality(engine) <= 1

\* Whatever is stopped where, what a deletion left on the disk is written down as that of a
\* download that is gone, as ReserveCleanup wants it.
Tracked == \A d \in Dests : files[d] = "left" => \E c \in listed : c.dest = d /\ ~Exists(c.id)

\* The files an installation reads are not deleted by the removal of its download.
InstallKeepsData == \A id \in installs : teardown[id].at # "none" => teardown[id].kind # "delete"

\* The state is well formed, one torrent writes to one download's folder, and a deletion
\* asked the installations first (attach, reserveHash; AddDeleteGuard).
Consistent == TypeOK /\ EngineIsOwn /\ InstallKeepsData

\* The removal of a leftover takes no files of a download, however late that was added.
LeftoverIsNobodys == [][\A d \in Dests : claim[d] = "held" /\ claim'[d] = "removed" => ~Covered(d)]_vars

\* A reservation is given back, whatever the request or the job that took it ran into.
ReservationsEnd == reserved ~> ~reserved

=============================================================================
