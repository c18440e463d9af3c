-------------------------- MODULE DownloadManager --------------------------
(***************************************************************************)
(* The download manager: the queue the user orders and pauses, the jobs    *)
(* that check and reattach downloads, and the torrent client below them,   *)
(* which comes down and goes up with the network while they run.           *)
(*                                                                         *)
(* Every handler runs under m.mu and is one action.  A goroutine takes one *)
(* action per stretch it holds the mutex, so anything may happen between   *)
(* two of them.  A write of the list may fail (ok = FALSE); what the       *)
(* handler then puts back is part of its action.                           *)
(***************************************************************************)
EXTENDS DownloadPolicy

CONSTANTS
  Configs,       \* the settings the user switches between
  Stored,        \* the stored lists the program is first started on
  Events,        \* the requests and faults the environment produces
  MaxGen,        \* bound: client generations in one run of the program
  MaxRestarts    \* bound: starts of the program after the first

Gens == 0..MaxGen

\* A stored record, as loadLocked reads it back.
Record == [status: Settled, ignore: BOOLEAN, seeding: BOOLEAN, have: BOOLEAN]
Store  == [items: Seq(Ids), rec: [Ids -> Record]]

ASSUME ManagerConstants ==
  /\ Configs \subseteq Config /\ Configs # {}
  /\ Stored \subseteq Store
  /\ \A st \in Stored : IsInjective(st.items)   \* newID: no two have one identifier
  /\ MaxGen \in Nat \ {0} /\ MaxRestarts \in Nat

\* What a goroutine is started with (restoreJob and the arguments of
\* verifyCompletion and markFailed); pass is the restore pass it works for.
Kinds == {"restore", "settle", "verify", "fail"}
NoPass == -1
Request == [id: Ids, kind: Kinds, gen: Gens, pass: Gens \cup {NoPass},
            paused: BOOLEAN, complete: BOOLEAN, seeding: BOOLEAN,
            trusted: BOOLEAN, force: BOOLEAN]
NoRequest == [kind |-> "none"]

\* A registered job (m.jobs) is at one of these places between two locks.
Phases == {"attach", "metadata", "settle", "check", "hash", "end"}
Job    == [req: Request, phase: Phases, cancelled: BOOLEAN]
NoJob  == [phase |-> "none"]

\* A restore pass: its order, the requests it has left, the seeding setting
\* it started with.
Pass == [live: BOOLEAN, seed: BOOLEAN, order: Seq(Ids),
         req: [Ids -> Request \cup {NoRequest}]]
NoReqs   == [d \in Ids |-> NoRequest]
DeadPass == [live |-> FALSE, seed |-> FALSE, order |-> <<>>, req |-> NoReqs]

\* m.resume: what comes back when the client does.
Entry    == [listed: BOOLEAN, trusted: BOOLEAN, force: BOOLEAN]
NoEntry  == [listed |-> FALSE, trusted |-> FALSE, force |-> FALSE]
Resuming == [all: BOOLEAN, ids: [Ids -> Entry]]
NoResume == [all |-> FALSE, ids |-> [d \in Ids |-> NoEntry]]

VARIABLES
  items,     \* m.items
  dn,        \* the downloads and the gates of their torrents
  verified,  \* m.verified
  disk,      \* the stored list
  policy,    \* m.rateCfg, m.max, m.scheduleBlocked, m.gamesRunning
  notices,   \* saved settings whose notification is still to arrive
  jobs,      \* m.jobs
  spawned,   \* goroutines that have not registered yet
  passes,    \* restore passes; 0 is the one of the start
  booting,   \* restore() has not looked at the list yet
  net,       \* the client and the reconcile that replaces it
  gen,       \* m.gen
  resume,    \* m.resume
  awaited,   \* jobs teardownClient collected and waits for
  closing,   \* m.closing
  restarts,  \* bound: starts so far
  asked      \* history: what the user last asked of a download

list   == <<items, dn, verified, disk>>
rules  == <<policy, notices>>
work   == <<jobs, spawned, passes, booting, awaited>>
client == <<net, gen, resume>>
life   == <<closing, restarts>>
vars   == <<list, rules, work, client, life, asked>>

\* "up": the client is installed.  "switching": m.switching is set, the client
\* still is.  "parking", "draining": between the steps of teardownClient.
\* "down": no client; the route is being checked or is down.
Nets == {"up", "switching", "parking", "draining", "down"}

\* The values of the variables; what is stored has only the states loadLocked
\* reads, so an interrupted check is never written as one.
TypeOK ==
  /\ items \in Seq(Ids)
  /\ dn \in [Ids -> Download(Gens)]
  /\ verified \subseteq Ids
  /\ disk \in Store
  /\ policy \in Policy
  /\ notices \subseteq Configs
  /\ jobs \in [Ids -> Job \cup {NoJob}]
  /\ spawned \subseteq Request
  /\ passes \in [Gens -> Pass]
  /\ booting \in BOOLEAN
  /\ awaited \subseteq Ids
  /\ net \in Nets
  /\ gen \in Gens
  /\ resume \in Resuming
  /\ closing \in BOOLEAN
  /\ restarts \in 0..MaxRestarts
  /\ asked \in [Ids -> {"run", "pause", "stop"}]
-----------------------------------------------------------------------------
Found(d)  == d \in Range(items)
Busy(J)   == {d \in Ids : J[d] # NoJob}
HasClient == net \in {"up", "switching"}
Offline   == net # "up"

\* Mutant: an interrupted download is stored as it was.
Image_Active(q, D) ==
  [items |-> q,
   rec |-> [d \in Ids |->
     [status |-> D[d].status, ignore |-> D[d].ignore, seeding |-> D[d].seeding,
      have |-> D[d].have]]]

\* The list as the next start reads it: an interrupted download is queued.
Image(q, D) ==
  [items |-> q,
   rec |-> [d \in Ids |->
     [status  |-> IF Occupies(D[d].status) THEN "queued" ELSE D[d].status,
      ignore  |-> D[d].ignore, seeding |-> D[d].seeding, have |-> D[d].have]]]

\* persistLocked: with ok the list reaches the disk, otherwise nothing does.
\* A list that no start reads again is not followed (MaxRestarts = 0).
Persist(ok, q, D) ==
  /\ ok \/ "persistFails" \in Events
  /\ disk' = IF ok /\ restarts < MaxRestarts THEN Image(q, D) ELSE disk

Req(d, k) ==
  [id |-> d, kind |-> k, gen |-> gen, pass |-> NoPass, paused |-> FALSE,
   complete |-> FALSE, seeding |-> FALSE, trusted |-> FALSE, force |-> FALSE]

\* jobsLocked for one download.
Snapshot(g, p, d, how) ==
  [id |-> d, kind |-> "restore", gen |-> g, pass |-> p,
   paused   |-> dn[d].status = "paused",
   complete |-> dn[d].status = "completed",
   seeding  |-> dn[d].seeding, trusted |-> how.trusted, force |-> how.force]

\* Mutant: only a download that is listed already is marked.
Marked_Listed(r, d, force) == [r EXCEPT !.ids[d].force = @ \/ force]

\* markResumeLocked: an entry keeps the trust it was made with.
Marked(r, d, force) ==
  [r EXCEPT !.ids[d] =
     [listed |-> TRUE, trusted |-> @.trusted, force |-> @.force \/ force]]

\* A download before it is added, and one that was removed.
Fresh == [status |-> "queued", ignore |-> FALSE, seeding |-> FALSE,
          engine |-> 0, dl |-> FALSE, ul |-> FALSE, have |-> FALSE]
Gone  == [Fresh EXCEPT !.status = "failed"]
-----------------------------------------------------------------------------
(* Requests of the user and of the launcher.                               *)

\* Mutant: the slot that was freed is not given away.
Commit_Unscheduled(ok, D, E) ==
  /\ Persist(ok, items, D)
  /\ dn' = IF ok THEN D ELSE E

\* Ends a request that only changes downloads: D is what it makes of them
\* before the write, E what it leaves them as when the write fails.
Commit(ok, D, E) ==
  /\ Persist(ok, items, D)
  /\ dn' = IF ok THEN Schedule(policy, items, D) ELSE E

Add(d, ok) ==
  /\ "add" \in Events /\ ~Found(d) /\ dn[d] = Fresh /\ HasClient
  /\ LET q == Append(items, d)
         D == [dn EXCEPT ![d] = Attached(@, gen)]
     IN  /\ Persist(ok, q, D)
         /\ IF ok
            THEN /\ items' = q
                 /\ verified' = verified \cup {d}
                 /\ dn' = Schedule(policy, q, D)
            ELSE UNCHANGED <<items, verified, dn>>
  /\ UNCHANGED <<rules, work, client, life, asked>>

\* AddTask with Verify: the torrent joins the list when its check is over.
AddTask(d, ok) ==
  /\ "addTask" \in Events /\ ~Found(d) /\ dn[d] = Fresh /\ HasClient /\ ~closing
  /\ LET q == Append(items, d)
     IN  /\ Persist(ok, q, dn)
         /\ IF ok
            THEN /\ items' = q
                 /\ spawned' = spawned \cup {Req(d, "settle")}
            ELSE UNCHANGED <<items, spawned>>
  /\ UNCHANGED <<dn, verified, rules, jobs, passes, booting, awaited, client,
                 life, asked>>

Pause(d, ok) ==
  /\ "pause" \in Events /\ Found(d)
  /\ dn[d].status \in {"downloading", "queued"}
  /\ Commit(ok, [dn EXCEPT ![d] = Gated([@ EXCEPT !.status = "paused"])], dn)
  /\ asked' = IF ok THEN [asked EXCEPT ![d] = "pause"] ELSE asked
  /\ UNCHANGED <<items, verified, rules, work, client, life>>

\* reattachLocked: the download is checked again by a job of its own.
Reattach(d, force, ok) ==
  /\ jobs[d] = NoJob /\ ~Offline /\ ~closing
  /\ LET D == [dn EXCEPT ![d].status = "verifying"]
     IN  /\ Persist(ok, items, D)
         /\ dn' = IF ok THEN D ELSE dn
         /\ spawned' = IF ok THEN spawned \cup
                                  {[Req(d, "restore") EXCEPT !.force = force]}
                       ELSE spawned
  /\ UNCHANGED <<items, verified, rules, jobs, passes, booting, awaited, client,
                 life>>

\* queueWhileDownLocked: the download waits for the client to come back.
QueueWhileDown(d, force, ok) ==
  /\ Offline
  /\ LET D == [dn EXCEPT ![d].status = "queued"]
     IN  /\ Persist(ok, items, D)
         /\ dn' = IF ok THEN D ELSE dn
         /\ resume' = IF ok THEN Marked(resume, d, force) ELSE resume
  /\ UNCHANGED <<items, verified, rules, work, net, gen, life>>

Resume(d, ok) ==
  /\ "resume" \in Events /\ Found(d)
  /\ dn[d].status \in {"paused", "failed"}
  /\ \/ /\ dn[d].engine # 0
        /\ Commit(ok, [dn EXCEPT ![d].status = "queued"], dn)
        /\ UNCHANGED <<items, verified, rules, work, client, life>>
     \/ dn[d].engine = 0 /\ QueueWhileDown(d, FALSE, ok)
     \/ dn[d].engine = 0 /\ Reattach(d, FALSE, ok)
  /\ asked' = IF ok THEN [asked EXCEPT ![d] = "run"] ELSE asked

\* A failed write puts the record back but not the gates startLocked opened.
ForceStart(d, ok) ==
  /\ "force" \in Events /\ Found(d)
  /\ dn[d].status \in {"queued", "paused", "failed"}
  /\ \/ /\ dn[d].engine # 0
        /\ LET r == Forced(policy, dn[d])
               D == [dn EXCEPT ![d] = r]
           IN  /\ Persist(ok, items, D)
               /\ dn' = IF ok THEN D
                        ELSE [dn EXCEPT ![d].dl = r.dl, ![d].ul = r.ul]
        /\ UNCHANGED <<items, verified, rules, work, client, life>>
     \/ dn[d].engine = 0 /\ QueueWhileDown(d, TRUE, ok)
     \/ dn[d].engine = 0 /\ Reattach(d, TRUE, ok)
  /\ asked' = IF ok THEN [asked EXCEPT ![d] = "run"] ELSE asked

DownloadNow(d, ok) ==
  /\ "now" \in Events /\ Found(d)
  /\ dn[d].status # "completed" /\ ~dn[d].ignore
  /\ LET D == [dn EXCEPT ![d].ignore = TRUE]
     IN  /\ Persist(ok, items, D)
         /\ dn' = IF ok THEN Schedule(policy, items,
                                      SyncPlay(policy, items, Busy(jobs), D))
                  ELSE dn
  /\ UNCHANGED <<items, verified, rules, work, client, life, asked>>

\* MoveUp and MoveDown: over the neighbours that are not queued.
Move(i, j, ok) ==
  /\ "move" \in Events
  /\ dn[items[i]].status = "queued" /\ dn[items[j]].status = "queued"
  /\ i < j /\ \A k \in i+1 .. j-1 : dn[items[k]].status # "queued"
  /\ LET q == [items EXCEPT ![i] = items[j], ![j] = items[i]]
     IN  /\ Persist(ok, q, dn)
         /\ items' = IF ok THEN q ELSE items
  /\ UNCHANGED <<dn, verified, rules, work, client, life, asked>>
-----------------------------------------------------------------------------
(* Taking a download out of the list, or out of the swarm.                 *)

\* Mutant: a record that could not be removed from the disk is gone from memory.
Drop_NotPutBack(i, ok) ==
  LET d == items[i]
      q == RemoveAt(items, i)
  IN  /\ Persist(ok, q, dn)
      /\ items' = q
      /\ verified' = verified \ {d}
      /\ jobs' = IF jobs[d] # NoJob THEN [jobs EXCEPT ![d].cancelled = TRUE] ELSE jobs
      /\ UNCHANGED <<rules, spawned, passes, booting, awaited, client, life, asked>>

\* dropLocked and what both callers do next: the record goes, its job is told
\* to stop, its torrent leaves m.engines.
Drop(i, ok) ==
  LET d == items[i]
      q == RemoveAt(items, i)
  IN  /\ Persist(ok, q, dn)
      /\ items' = IF ok THEN q ELSE items
      /\ verified' = verified \ {d}
      /\ jobs' = IF ok /\ jobs[d] # NoJob
                 THEN [jobs EXCEPT ![d].cancelled = TRUE] ELSE jobs
      /\ UNCHANGED <<rules, spawned, passes, booting, awaited, client, life, asked>>

\* discard, for Cancel and Remove.
Discard(i, ok) ==
  /\ "discard" \in Events
  /\ Drop(i, ok)
  /\ dn' = IF ok THEN Schedule(policy, items', [dn EXCEPT ![items[i]] = Gone])
           ELSE dn

StopAndWait(i, ok) ==
  /\ "stopAndWait" \in Events /\ ~closing
  /\ Drop(i, ok)
  /\ dn' = IF ok THEN [dn EXCEPT ![items[i]] = Gone] ELSE dn

\* StopSeeding stops the job of the download and waits for it ...
StopSeedingJob(d) ==
  /\ "stopSeeding" \in Events /\ ~closing /\ Found(d)
  /\ dn[d].status = "completed" /\ jobs[d] # NoJob
  /\ jobs' = [jobs EXCEPT ![d].cancelled = TRUE]
  /\ UNCHANGED <<list, rules, spawned, passes, booting, awaited, client, life, asked>>

\* ... and takes the torrent away once there is none.
StopSeeding(d, ok) ==
  /\ "stopSeeding" \in Events /\ ~closing /\ Found(d)
  /\ dn[d].status = "completed" /\ jobs[d] = NoJob
  /\ IF dn[d].seeding \/ dn[d].engine # 0
     THEN LET D == [dn EXCEPT ![d] = Detached([@ EXCEPT !.seeding = FALSE])]
          IN  /\ Persist(ok, items, D)
              /\ dn' = IF ok THEN D ELSE dn
     ELSE ok /\ UNCHANGED <<dn, disk>>
  /\ asked' = IF ok THEN [asked EXCEPT ![d] = "stop"] ELSE asked
  /\ UNCHANGED <<items, verified, rules, work, client, life>>
-----------------------------------------------------------------------------
(* What holds downloads back, and the settings.                            *)

SetGamesRunning(b) ==
  /\ "games" \in Events /\ b # policy.gaming
  /\ policy' = [policy EXCEPT !.gaming = b]
  /\ dn' = SyncPlay(policy', items, Busy(jobs), dn)
  /\ UNCHANGED <<items, verified, disk, notices, work, client, life, asked>>

\* Windows of the schedule open and close only when there is one.
BlockedBy(cfg) == IF cfg.sched THEN BOOLEAN ELSE {FALSE}

\* The downloads whose data is all there; held back or not.
Arrived(p, D) ==
  {d \in Range(items) : /\ D[d].engine # 0 /\ D[d].status = "downloading"
                        /\ D[d].have /\ jobs[d] = NoJob}

\* sample: the schedule first, then every download whose data is all there
\* goes to its completion check.  The list is written now and then.
Tick(b, ok) ==
  LET turned == b # policy.blocked
      p  == [policy EXCEPT !.blocked = b]
      D1 == IF turned
            THEN Schedule(p, items, SyncPlay(p, items, Busy(jobs), dn)) ELSE dn
      done == Arrived(p, D1)
      D2 == [d \in Ids |-> IF d \in done
                           THEN [D1[d] EXCEPT !.status = "verifying"] ELSE D1[d]]
  IN  /\ ~closing
      /\ turned => "schedule" \in Events
      /\ turned \/ done # {}
      /\ policy' = p
      /\ dn' = D2
      /\ spawned' = spawned \cup {Req(d, "verify") : d \in done}
      /\ \/ Persist(ok, items, D2)
         \/ UNCHANGED disk
      /\ UNCHANGED <<items, verified, notices, jobs, passes, booting, awaited,
                     client, life, asked>>

\* publish stores the settings and then tells the subscribers, unlocked: two
\* saves may arrive in either order.
SaveSettings(c) ==
  /\ c # policy.saved
  /\ policy' = [policy EXCEPT !.saved = c]
  /\ notices' = notices \cup {c}
  /\ UNCHANGED <<list, work, client, life, asked>>

\* applySettings for one download whose record is r; the third case asks
\* for a job.
Applied(c, p, busy, r) ==
  CASE r.status # "completed" /\ r.engine # 0 ->
         [r EXCEPT !.ul = c.upload /\ r.status = "downloading" /\ ~Held(p, r)]
    [] r.status = "completed" /\ ~c.seed ->
         IF r.engine # 0 /\ busy
         THEN [r EXCEPT !.seeding = FALSE, !.ul = FALSE]
         ELSE Detached([r EXCEPT !.seeding = FALSE])
    [] r.status = "completed" /\ c.seed /\ r.engine # 0 ->
         IF r.seeding THEN r ELSE [AllowUpload(p, r) EXCEPT !.seeding = TRUE]
    [] r.status = "completed" /\ c.seed /\ r.engine = 0 ->
         [r EXCEPT !.seeding = ~HasClient]
    [] OTHER -> r

Reseeds(c, d) ==
  c.seed /\ dn[d].status = "completed" /\ dn[d].engine = 0

\* A stop of the seeding holds until the next settings or the next start.
Unstopped == [d \in Ids |-> IF asked[d] = "stop" THEN "run" ELSE asked[d]]

ApplySettings(c, b, ok) ==
  LET p  == [policy EXCEPT !.rate = c, !.blocked = b, !.max = c.max]
      turned == PlayHeld(p) # PlayHeld(policy) \/ b # policy.blocked
      D1 == IF turned THEN SyncPlay(p, items, Busy(jobs), dn) ELSE dn
      D2 == [d \in Ids |-> IF Found(d) THEN Applied(c, p, jobs[d] # NoJob, D1[d])
                           ELSE D1[d]]
      wanted == {d \in Range(items) : Reseeds(c, d)}
  IN  /\ c \in notices /\ b \in BlockedBy(c)
      /\ notices' = notices \ {c}
      /\ policy' = p
      /\ Persist(ok, items, D2)
      /\ dn' = Schedule(p, items, D2)
      /\ IF HasClient
         THEN /\ spawned' = IF closing THEN spawned
                            ELSE spawned \cup
                              {[Req(d, "restore") EXCEPT !.complete = TRUE] :
                                 d \in {e \in wanted : jobs[e] = NoJob}}
              /\ UNCHANGED resume
         ELSE /\ resume' = [resume EXCEPT !.ids = [d \in Ids |->
                             IF d \in wanted THEN Marked(resume, d, FALSE).ids[d]
                             ELSE @[d]]]
              /\ UNCHANGED spawned
      /\ asked' = Unstopped
      /\ UNCHANGED <<items, verified, jobs, passes, booting, awaited, net, gen,
                     life>>
-----------------------------------------------------------------------------
(* Data, and its loss.                                                     *)

\* The torrent library: pieces arrive while the gate is open.
Transfer(d) ==
  /\ Found(d) /\ dn[d].engine # 0 /\ dn[d].dl /\ ~dn[d].have
  /\ dn' = [dn EXCEPT ![d].have = TRUE]
  /\ UNCHANGED <<items, verified, disk, rules, work, client, life, asked>>

\* A chunk could not be written: onWriteError compares generations here, the
\* goroutine it starts does not.
WriteError(d) ==
  /\ "writeError" \in Events /\ ~closing
  /\ Found(d) /\ dn[d].engine # 0 /\ dn[d].engine = gen /\ ~dn[d].have
  /\ spawned' = spawned \cup {Req(d, "fail")}
  /\ UNCHANGED <<list, rules, jobs, passes, booting, awaited, client, life, asked>>

\* markFailed
Failed(d, D) == [D EXCEPT ![d] = Gated([@ EXCEPT !.status = "failed"])]

MarkFailed(d, ok) ==
  IF Found(d) /\ dn[d].status # "failed"
  THEN /\ Persist(ok, items, Failed(d, dn))
       /\ dn' = Schedule(policy, items, Failed(d, dn))
  ELSE UNCHANGED <<disk, dn>> /\ ok

FailSpawned(r, ok) ==
  /\ r \in spawned /\ r.kind = "fail"
  /\ MarkFailed(r.id, ok)
  /\ spawned' = spawned \ {r}
  /\ UNCHANGED <<items, verified, rules, jobs, passes, booting, awaited, client,
                 life, asked>>
-----------------------------------------------------------------------------
(* Jobs.                                                                   *)

FirstPhase(k) == CASE k = "restore" -> "attach"
                   [] k = "settle"  -> "settle"
                   [] k = "verify"  -> "hash"

\* beginJob refuses a download that is gone or has a job; a restore job is
\* also refused when its client was replaced.
MayBegin(r) ==
  /\ Found(r.id) /\ jobs[r.id] = NoJob
  /\ r.kind = "restore" => r.gen = gen

Begun(r) == [jobs EXCEPT ![r.id] =
               [req |-> r, phase |-> FirstPhase(r.kind), cancelled |-> closing]]

Begin(r) ==
  /\ r \in spawned /\ r.kind # "fail"
  /\ spawned' = spawned \ {r}
  /\ jobs' = IF MayBegin(r) /\ ~(r.kind = "restore" /\ closing)
             THEN Begun(r) ELSE jobs
  /\ UNCHANGED <<list, rules, passes, booting, awaited, client, life, asked>>

At(d, ph) == jobs[d] # NoJob /\ jobs[d].phase = ph
Goes(d, ph) == jobs' = [jobs EXCEPT ![d].phase = ph]

\* The error return of restoreOne: not the download's failure when the job was
\* stopped or its client replaced.
RestoreFailed(d, ok) ==
  /\ Goes(d, "end")
  /\ IF jobs[d].cancelled \/ jobs[d].req.gen # gen
     THEN UNCHANGED <<dn, disk>> /\ ok
     ELSE IF jobs[d].req.complete
     THEN /\ ok /\ UNCHANGED disk
          /\ dn' = IF Found(d) THEN [dn EXCEPT ![d].seeding = FALSE] ELSE dn
     ELSE MarkFailed(d, ok)

\* reattach: the torrent comes from the cached metainfo, or has to be looked up.
\* A torrent that is still in the client is refused (errTorrentAlreadyAdded).
Attach(d) ==
  /\ At(d, "attach")
  /\ \/ /\ dn[d].engine = 0
        /\ Goes(d, "settle")
        /\ UNCHANGED dn
     \/ /\ "noMetainfo" \in Events /\ jobs[d].req.gen = gen
        /\ dn' = IF Found(d) THEN [dn EXCEPT ![d].status = "metadata"] ELSE dn
        /\ Goes(d, "metadata")
  /\ UNCHANGED <<items, verified, disk, rules, spawned, passes, booting, awaited,
                 client, life, asked>>

\* Mutant: only the record is looked up again.
Superseded_RecordOnly(d) == ~Found(d)

\* Its record or its client is gone: the torrent is dropped again.
Superseded(d) == ~Found(d) \/ jobs[d].req.gen # gen

\* settleRestored fails one whose stored selection the metadata it got does not fit.
AttachFails(d, ok) ==
  /\ \/ /\ At(d, "attach") \/ At(d, "metadata")
        /\ \/ "restoreFails" \in Events
           \/ jobs[d].cancelled
           \/ jobs[d].req.gen # gen
           \/ dn[d].engine # 0
        /\ RestoreFailed(d, ok)
     \/ /\ At(d, "settle") /\ "restoreFails" \in Events
        /\ ~Superseded(d) /\ jobs[d].req.kind = "restore" /\ ~jobs[d].req.complete
        /\ Goes(d, "end") /\ MarkFailed(d, ok)
  /\ UNCHANGED <<items, verified, rules, spawned, passes, booting, awaited, client,
                 life, asked>>

GotInfo(d) ==
  /\ At(d, "metadata") /\ Found(d) /\ dn[d].engine = 0
  /\ Goes(d, "settle")
  /\ UNCHANGED <<list, rules, spawned, passes, booting, awaited, client, life, asked>>

\* The end of settleRestored: the download goes back to where it was wanted.
Finish(d, D, ok) ==
  LET r  == jobs[d].req
      D1 == [D EXCEPT ![d] =
               CASE r.paused  -> Gated([@ EXCEPT !.status = "paused"])
                 [] ~r.paused /\ r.force  -> Forced(policy, @)
                 [] ~r.paused /\ ~r.force -> [@ EXCEPT !.status = "queued"]]
  IN  /\ verified' = verified \cup {d}
      /\ Persist(ok, items, D1)
      /\ dn' = Schedule(policy, items, D1)
      /\ Goes(d, "end")

\* A finished download only takes its torrent back, to seed or to let go.
FinishSeed(d, ok) ==
  LET r == [Attached(dn[d], gen) EXCEPT !.seeding = policy.saved.seed]
      D == [dn EXCEPT ![d] = IF policy.saved.seed THEN AllowUpload(policy, r)
                             ELSE Detached(r)]
  IN  /\ verified' = verified \cup {d}
      /\ Persist(ok, items, D)
      /\ dn' = D
      /\ Goes(d, "end")

\* settleRestored up to the recheck, or to its end when there is none.
Settle(d, ok) ==
  /\ At(d, "settle")
  /\ \/ /\ Superseded(d) /\ ok
        /\ Goes(d, "end")
        /\ UNCHANGED <<dn, verified, disk>>
     \/ /\ ~Superseded(d) /\ jobs[d].req.complete
        /\ FinishSeed(d, ok)
     \/ /\ ~Superseded(d) /\ ~jobs[d].req.complete /\ jobs[d].req.trusted
        /\ Finish(d, [dn EXCEPT ![d] = Attached(@, gen)], ok)
     \/ /\ ~Superseded(d) /\ ~jobs[d].req.complete /\ ~jobs[d].req.trusted /\ ok
        /\ dn' = [dn EXCEPT ![d] = [Attached(@, gen) EXCEPT !.status = "verifying"]]
        /\ Goes(d, "check")
        /\ UNCHANGED <<verified, disk>>
  /\ UNCHANGED <<items, rules, spawned, passes, booting, awaited, client, life,
                 asked>>

\* The recheck is over, or was stopped; told to stop, it may have come to its end all
\* the same.
Check(d, ok) ==
  /\ At(d, "check")
  /\ \/ /\ jobs[d].cancelled \/ Superseded(d)
        /\ ok /\ Goes(d, "end")
        /\ UNCHANGED <<dn, verified, disk>>
     \/ ~Superseded(d) /\ Finish(d, dn, ok)
  /\ UNCHANGED <<items, rules, spawned, passes, booting, awaited, client, life,
                 asked>>

\* Mutant: the download gate is left open.
Completed_GateOpen(r) ==
  LET done == [r EXCEPT !.status = "completed", !.ignore = FALSE,
                        !.seeding = policy.saved.seed]
  IN  IF r.engine = 0 THEN done
      ELSE IF policy.saved.seed THEN AllowUpload(policy, done)
      ELSE Detached(done)

\* completeLocked
Completed(r) ==
  LET done   == [r EXCEPT !.status = "completed", !.ignore = FALSE,
                          !.seeding = policy.saved.seed]
      closed == [done EXCEPT !.dl = FALSE]
  IN  IF r.engine = 0 THEN done
      ELSE IF policy.saved.seed THEN AllowUpload(policy, closed)
      ELSE Detached(closed)

\* verifyCompletion: the files are moved into place and hashed.
VerifyPasses(d, ok) ==
  /\ At(d, "hash")
  /\ Goes(d, "end")
  /\ IF Found(d)
     THEN LET D == [dn EXCEPT ![d] = Completed(@)]
          IN  /\ verified' = verified \cup {d}
              /\ Persist(ok, items, D)
              /\ dn' = Schedule(policy, items, D)
     ELSE UNCHANGED <<dn, verified, disk>> /\ ok
  /\ UNCHANGED <<items, rules, spawned, passes, booting, awaited, client, life,
                 asked>>

VerifyFails(d, ok) ==
  /\ At(d, "hash")
  /\ jobs[d].cancelled \/ "verifyFails" \in Events
  /\ Goes(d, "end")
  /\ IF jobs[d].cancelled THEN UNCHANGED <<dn, disk>> /\ ok ELSE MarkFailed(d, ok)
  /\ UNCHANGED <<items, verified, rules, spawned, passes, booting, awaited, client,
                 life, asked>>

\* Mutant: the pass does not learn that the job is over.
EndJob_PassStays(d) ==
  /\ At(d, "end")
  /\ jobs' = [jobs EXCEPT ![d] = NoJob]
  /\ awaited' = awaited \ {d}
  /\ UNCHANGED <<list, rules, spawned, passes, booting, client, life, asked>>

\* endJob; the pass the job was made for goes on to its next download.
EndJob(d) ==
  /\ At(d, "end")
  /\ jobs' = [jobs EXCEPT ![d] = NoJob]
  /\ passes' = IF jobs[d].req.pass = NoPass THEN passes
               ELSE [passes EXCEPT ![jobs[d].req.pass].req[d] = NoRequest]
  /\ awaited' = awaited \ {d}
  /\ UNCHANGED <<list, rules, spawned, booting, client, life, asked>>
-----------------------------------------------------------------------------
(* Restore passes: one download after the other, in the order of the list. *)

NewPass(g, picked, seed) ==
  [live |-> TRUE, seed |-> seed, order |-> items,
   req |-> [d \in Ids |-> IF d \in DOMAIN picked THEN picked[d] ELSE NoRequest]]

\* The boot pass runs under the context of the manager, a later one under the
\* context of its client, which a teardown cancels after it has let go of the list.
PassStopped(g) == closing \/ (g # 0 /\ g # gen)
PassGoesOn(g)  == ~closing /\ (g = 0 \/ g = gen \/ (g + 1 = gen /\ net = "parking"))

NextInPass(g, d) ==
  /\ passes[g].live
  /\ \E i \in DOMAIN passes[g].order :
       /\ passes[g].order[i] = d
       /\ \A k \in 1..i-1 : passes[g].req[passes[g].order[k]] = NoRequest
  /\ passes[g].req[d] # NoRequest
  /\ ~\E e \in Ids : jobs[e] # NoJob /\ jobs[e].req.pass = g

KeepsSeeding(r, g) == r.seeding /\ passes[g].seed

PassSkip(g, d) ==
  /\ NextInPass(g, d) /\ PassGoesOn(g)
  /\ LET r == passes[g].req[d]
     IN  \/ /\ r.complete /\ ~KeepsSeeding(r, g)
            /\ dn' = IF Found(d) THEN [dn EXCEPT ![d].seeding = FALSE] ELSE dn
         \/ /\ ~(r.complete /\ ~KeepsSeeding(r, g)) /\ ~MayBegin(r)
            /\ UNCHANGED dn
  /\ passes' = [passes EXCEPT ![g].req[d] = NoRequest]
  /\ UNCHANGED <<items, verified, disk, rules, jobs, spawned, booting, awaited,
                 client, life, asked>>

PassBegin(g, d) ==
  /\ NextInPass(g, d) /\ PassGoesOn(g)
  /\ LET r == passes[g].req[d]
     IN  /\ ~(r.complete /\ ~KeepsSeeding(r, g)) /\ MayBegin(r)
         /\ jobs' = Begun(r)
  /\ UNCHANGED <<list, rules, spawned, passes, booting, awaited, client, life, asked>>

PassIdle(g) ==
  passes[g].live /\ ~\E e \in Ids : jobs[e] # NoJob /\ jobs[e].req.pass = g

PassEnd(g, ok) ==
  /\ PassIdle(g)
  /\ \A d \in Ids : passes[g].req[d] = NoRequest
  /\ passes' = [passes EXCEPT ![g] = DeadPass]
  /\ Persist(ok, items, dn)
  /\ dn' = Schedule(policy, items, dn)
  /\ UNCHANGED <<items, verified, rules, jobs, spawned, booting, awaited, client,
                 life, asked>>

PassAborts(g) ==
  /\ PassIdle(g) /\ PassStopped(g)
  /\ \E d \in Ids : passes[g].req[d] # NoRequest
  /\ passes' = [passes EXCEPT ![g] = DeadPass]
  /\ UNCHANGED <<list, rules, jobs, spawned, booting, awaited, client, life, asked>>

\* restore(): the goroutine of the start looks at the list.
RestoreStart ==
  /\ booting /\ booting' = FALSE
  /\ IF HasClient
     THEN /\ passes' = [passes EXCEPT ![0] =
                         NewPass(0, [d \in Range(items) |-> Snapshot(gen, 0, d, NoEntry)],
                                 policy.saved.seed)]
          /\ UNCHANGED resume
     ELSE /\ resume' = [NoResume EXCEPT !.all = TRUE]
          /\ UNCHANGED passes
  /\ UNCHANGED <<list, rules, jobs, spawned, awaited, net, gen, life, asked>>
-----------------------------------------------------------------------------
(* The client: reconcileNetwork takes it down and puts up another.         *)

\* setSwitching: the settings or the route changed.
SwitchNetwork ==
  /\ "network" \in Events /\ net = "up" /\ gen + 2 <= MaxGen /\ ~closing
  /\ net' = "switching"
  /\ UNCHANGED <<list, rules, work, gen, resume, life, asked>>

\* teardownClient, first step under the mutex.  A download is trusted when this
\* client settled it and it is not in the middle of a check.
TeardownDetach ==
  /\ net = "switching" /\ net' = "parking"
  /\ gen' = gen + 1
  /\ resume' = [all |-> FALSE, ids |-> [d \in Ids |->
       IF ~Found(d) \/ dn[d].status = "failed"
                    \/ (dn[d].status = "completed" /\ ~dn[d].seeding)
       THEN NoEntry
       ELSE [listed |-> TRUE, force |-> FALSE,
             trusted |-> d \in verified
                           /\ dn[d].status \notin {"verifying", "metadata"}]]]
  /\ verified' = {}
  /\ dn' = [d \in Ids |-> Detached(dn[d])]
  /\ awaited' = Busy(jobs)
  /\ UNCHANGED <<items, disk, rules, jobs, spawned, passes, booting, life, asked>>

SeedingCompleted(r) == r.status = "completed" /\ r.seeding

\* The jobs are told to stop, and what was running is parked in the queue; the list is
\* written when it had something to say of anybody.
Parked(r) == IF Occupies(r.status) THEN [r EXCEPT !.status = "queued"] ELSE r

TeardownPark(ok) ==
  /\ net = "parking" /\ net' = "draining"
  /\ jobs' = [d \in Ids |-> IF d \in awaited THEN [jobs[d] EXCEPT !.cancelled = TRUE]
                             ELSE jobs[d]]
  /\ LET D == [d \in Ids |-> IF Found(d) THEN Parked(dn[d]) ELSE dn[d]]
     IN  /\ dn' = D
         /\ IF \E d \in Range(items) : Occupies(dn[d].status) \/ SeedingCompleted(dn[d])
            THEN Persist(ok, items, D)
            ELSE ok /\ UNCHANGED disk
  /\ UNCHANGED <<items, verified, rules, spawned, passes, booting, awaited, gen,
                 resume, life, asked>>

TeardownDone ==
  /\ net = "draining" /\ awaited = {}
  /\ net' = "down"
  /\ UNCHANGED <<list, rules, work, gen, resume, life, asked>>

\* resumeJobsLocked
Picked ==
  {d \in Range(items) :
     resume.all \/ (resume.ids[d].listed /\ dn[d].status # "failed")}

\* bringUp: the new client and, in the same step, the pass that restores what
\* the old one left; by the settings as they were when reconcileNetwork began.
BringUp ==
  /\ net = "down" /\ gen < MaxGen /\ ~closing
  /\ net' = "up" /\ gen' = gen + 1 /\ resume' = NoResume
  /\ LET how(d) == [resume.ids[d] EXCEPT !.trusted = @ /\ ~resume.all]
         picked == [d \in Picked |-> Snapshot(gen + 1, gen + 1, d, how(d))]
     IN  IF Picked = {} THEN UNCHANGED passes
         ELSE \E c \in Configs :
                passes' = [passes EXCEPT ![gen + 1] = NewPass(gen + 1, picked, c.seed)]
  /\ UNCHANGED <<list, rules, jobs, spawned, booting, awaited, life, asked>>
-----------------------------------------------------------------------------
(* The program ends and starts again.                                      *)

Loaded(st) == [d \in Ids |-> [status |-> st.rec[d].status, ignore |-> st.rec[d].ignore,
                             seeding |-> st.rec[d].seeding, engine |-> 0, dl |-> FALSE,
                             ul |-> FALSE, have |-> st.rec[d].have]]

\* What a start finds in memory: with a client the restore goroutine is about
\* to run, without one everything waits for it.
Booted(st, up) ==
  /\ items = st.items /\ dn = Loaded(st) /\ verified = {}
  /\ jobs = [d \in Ids |-> NoJob] /\ spawned = {} /\ awaited = {}
  /\ passes = [g \in Gens |-> DeadPass]
  /\ booting = up
  /\ net = IF up THEN "up" ELSE "down"
  /\ gen = IF up THEN 1 ELSE 0
  /\ resume = IF up THEN NoResume ELSE [NoResume EXCEPT !.all = TRUE]
  /\ closing = FALSE

\* ServiceShutdown: every goroutine is told to stop ...
Close ==
  /\ "close" \in Events /\ ~closing /\ restarts < MaxRestarts
  /\ closing' = TRUE
  /\ jobs' = [d \in Ids |-> IF jobs[d] # NoJob
                             THEN [jobs[d] EXCEPT !.cancelled = TRUE] ELSE NoJob]
  /\ UNCHANGED <<list, rules, spawned, passes, booting, awaited, client, restarts,
                 asked>>

\* The settings survive a restart; what held downloads back is looked up again.
Restarted(st) ==
  /\ items' = st.items /\ dn' = Loaded(st) /\ verified' = {} /\ disk' = st
  /\ jobs' = [d \in Ids |-> NoJob] /\ spawned' = {} /\ awaited' = {}
  /\ passes' = [g \in Gens |-> DeadPass]
  /\ \E up \in BOOLEAN :
       /\ booting' = up
       /\ net' = IF up THEN "up" ELSE "down"
       /\ gen' = IF up THEN 1 ELSE 0
       /\ resume' = IF up THEN NoResume ELSE [NoResume EXCEPT !.all = TRUE]
  /\ closing' = FALSE /\ restarts' = restarts + 1
  /\ \E b \in BlockedBy(policy.saved) :
       policy' = [saved |-> policy.saved, rate |-> policy.saved,
                  max |-> policy.saved.max, blocked |-> b, gaming |-> FALSE]
  /\ notices' = {} /\ asked' = Unstopped

\* ... and once they are gone the list is written a last time.
Quit(ok) ==
  /\ closing /\ ~booting /\ net \in {"up", "down"}
  /\ Busy(jobs) = {} /\ spawned = {} /\ \A g \in Gens : ~passes[g].live
  /\ ok \/ "persistFails" \in Events
  /\ Restarted(IF ok THEN Image(items, dn) ELSE disk)

Crash ==
  /\ "crash" \in Events /\ restarts < MaxRestarts
  /\ Restarted(disk)
-----------------------------------------------------------------------------
Init ==
  /\ disk \in Stored
  /\ \E up \in BOOLEAN : Booted(disk, up)
  /\ \E c \in Configs, b \in BOOLEAN :
       /\ b \in BlockedBy(c)
       /\ policy = [saved |-> c, rate |-> c, max |-> c.max, blocked |-> b,
                    gaming |-> FALSE]
  /\ notices = {} /\ restarts = 0
  /\ asked = [d \in Ids |-> IF disk.rec[d].status = "paused" THEN "pause" ELSE "run"]

Requests(ok) ==
  \/ \E d \in Ids : \/ Add(d, ok) \/ AddTask(d, ok) \/ Pause(d, ok)
                    \/ Resume(d, ok) \/ ForceStart(d, ok) \/ DownloadNow(d, ok)
                    \/ StopSeeding(d, ok)
  \/ \E i, j \in DOMAIN items : Move(i, j, ok)
  \/ \E i \in DOMAIN items : Discard(i, ok) \/ StopAndWait(i, ok)

Environment ==
  \/ \E d \in Ids : StopSeedingJob(d) \/ WriteError(d)
  \/ \E b \in BOOLEAN : SetGamesRunning(b)
  \/ \E c \in Configs : SaveSettings(c)
  \/ SwitchNetwork \/ Close \/ Crash

JobStep(d, ok) ==
  \/ Attach(d) \/ AttachFails(d, ok) \/ GotInfo(d) \/ Settle(d, ok)
  \/ Check(d, ok) \/ VerifyPasses(d, ok) \/ VerifyFails(d, ok) \/ EndJob(d)

PassStep(g, ok) ==
  \/ \E d \in Ids : PassSkip(g, d) \/ PassBegin(g, d)
  \/ PassEnd(g, ok) \/ PassAborts(g)

Background(ok) ==
  \/ \E b \in BOOLEAN : Tick(b, ok)
  \/ \E c \in Configs, b \in BOOLEAN : ApplySettings(c, b, ok)
  \/ \E d \in Ids : Transfer(d) \/ JobStep(d, ok)
  \/ \E r \in spawned : FailSpawned(r, ok) \/ Begin(r)
  \/ \E g \in Gens : PassStep(g, ok)
  \/ RestoreStart
  \/ TeardownDetach \/ TeardownPark(ok) \/ TeardownDone \/ BringUp
  \/ Quit(ok)

Next == \/ Environment
        \/ \E ok \in BOOLEAN : Requests(ok) \/ Background(ok)

Spec == Init /\ [][Next]_vars
-----------------------------------------------------------------------------
(* Safety.                                                                 *)

\* While a game runs in the pausing mode, or outside the windows of the
\* schedule, no download receives data: every place that opens the download
\* gate asks what holds downloads back, and every change of that closes it.
HeldMovesNoData ==
  \A d \in Ids : dn[d].dl => ~Held(policy, dn[d])

\* A download that is held back and still lacks data sends nothing either.
HeldUploadsOnlyComplete ==
  \A d \in Ids : dn[d].ul /\ Held(policy, dn[d]) => dn[d].have

\* The gates agree with what the list shows: data moves for a running download
\* (or one in its completion check), and leaves for one shown as seeding.
GatesMatchStatus ==
  \A d \in Ids :
    /\ dn[d].dl => dn[d].status \in {"downloading", "verifying"}
    /\ dn[d].ul => \/ dn[d].status \in {"downloading", "verifying"}
                   \/ dn[d].status = "completed" /\ dn[d].seeding

\* No torrent of a client that was taken down is ever put back: each lives in
\* the installed client, whatever jobs were under way when it was replaced.
EnginesBelongToClient ==
  \A d \in Ids : dn[d].engine # 0 => HasClient /\ dn[d].engine = gen

\* Somebody is going to move download d on.
Answerable(d) ==
  \/ jobs[d] # NoJob
  \/ \E r \in spawned : r.id = d /\ r.kind # "fail"
  \/ net = "parking"
  \/ closing

\* Neither Resume nor ForceStart accepts a download that is being checked or
\* looked up, so one in that state always has a job, or one on its way.
NobodyStranded ==
  \A d \in Range(items) : dn[d].status \in {"verifying", "metadata"} => Answerable(d)

\* Nothing is under way.
Quiet ==
  /\ net = "up" /\ ~booting /\ ~closing
  /\ Busy(jobs) = {} /\ spawned = {} /\ \A g \in Gens : ~passes[g].live

\* schedule() passes over a download without a torrent and nothing calls it
\* back, so when the work is over every queued download has its torrent.
QueuedHasTorrent ==
  Quiet => \A d \in Range(items) :
             dn[d].status \in {"queued", "downloading"} => dn[d].engine # 0

\* Together: whatever the network does, a download waits for something that will come.
NothingForgotten == NobodyStranded /\ QueuedHasTorrent

\* A slot is never left free beside a download that could take it: every
\* handler that frees one, or makes a download startable, schedules.
NoIdleSlot ==
  Active(policy, items, dn) < policy.max =>
    \A d \in Range(items) : ~MayStart(policy, dn[d])

Running(p, r) == r.status = "downloading" /\ ~SchedHeld(p, r)

\* The user asked for this start past the limit and the order.
ForcedNow(d) ==
  \/ jobs[d] # NoJob /\ jobs[d].req.force
  \/ \E ok \in BOOLEAN : ForceStart(d, ok)

Starts(d) == dn[d].status = "queued" /\ dn'[d].status = "downloading"

\* A start the user did not force never takes the running downloads past the
\* limit in force, also in the step that lowers the limit or opens a window.
StartsWithinLimit ==
  [][(\E d \in Range(items) : Starts(d) /\ ~ForcedNow(d))
     => Cardinality({d \in Range(items') : Running(policy', dn'[d])})
          <= policy'.max]_vars

\* When a download is started, every one above it in the queue that could have
\* been started has been.
QueueOrderKept ==
  [][\A i, j \in DOMAIN items' :
       i < j /\ Starts(items'[j]) /\ ~ForcedNow(items'[j])
       => ~MayStart(policy', dn'[items'[i]])]_vars

\* What the user paused is not queued or running until the user says so.
PauseIsKept ==
  [][\A d \in Range(items') :
       asked'[d] = "pause" => dn'[d].status \notin {"queued", "downloading"}]_vars

\* Something keeps the promise "seeding" of download d, or is going to.
Seeds(d) ==
  \/ dn[d].engine # 0
  \/ jobs[d] # NoJob
  \/ \E r \in spawned : r.id = d /\ r.kind = "restore"
  \/ \E g \in Gens : passes[g].live /\ passes[g].req[d] # NoRequest
  \/ resume.all \/ resume.ids[d].listed \/ booting

\* A finished download shown as seeding has a torrent, or one on its way.
SeedingIsBacked ==
  \A d \in Range(items) :
    dn[d].status = "completed" /\ dn[d].seeding => Seeds(d)

\* Together: what the gates and the list say of a torrent is what the rules allow and what
\* the torrent does (playthrottle.go, completeLocked).
GatesFollowRules ==
  HeldMovesNoData /\ HeldUploadsOnlyComplete /\ GatesMatchStatus /\ SeedingIsBacked

\* A finished download is never downloaded, checked or failed again; nor does a
\* crash take it back to before it was finished.
FinishedStaysFinished ==
  [][\A d \in Range(items) :
       dn[d].status = "completed" /\ d \in Range(items')
       => dn'[d].status = "completed"]_vars

\* Together: downloads are started as the queue has them, never past the limit and never
\* out of order (schedule, beginStart).
StartsFollowQueue == StartsWithinLimit /\ QueueOrderKept

\* Together: what the user paused is not revived, and what is finished is not taken back
\* (Pause, settleRestored, completeLocked).
StatusIsKept == FinishedStaysFinished /\ PauseIsKept

\* What is in the queue, and its order, is on the disk when the handler
\* returns; a handler whose write failed has put back what it changed.
ListIsDurable == restarts < MaxRestarts => disk.items = items

-----------------------------------------------------------------------------
(* Liveness.  A goroutine that can go on does, the sampler ticks, and a      *)
(* reconcile that began goes through; requests, faults, settings, data and   *)
(* the return of the network are owed to nobody.                             *)

Fairness ==
  /\ \A d \in Ids : WF_vars(\E ok \in BOOLEAN : JobStep(d, ok))
  /\ \A d \in Ids, k \in Kinds :
       WF_vars(\E r \in spawned, ok \in BOOLEAN :
                 r.id = d /\ r.kind = k /\ (Begin(r) \/ FailSpawned(r, ok)))
  /\ \A g \in Gens : WF_vars(\E ok \in BOOLEAN : PassStep(g, ok))
  /\ WF_vars(RestoreStart)
  /\ WF_vars(TeardownDetach \/ TeardownDone \/ \E ok \in BOOLEAN : TeardownPark(ok))
  /\ WF_vars(\E ok \in BOOLEAN : Tick(policy.blocked, ok))

FairSpec == Spec /\ Fairness

\* A restore pass comes to its end, whatever the network and the user do to the
\* downloads it goes through.
EveryPassEnds == \A g \in Gens : passes[g].live ~> ~passes[g].live

\* A client that is being taken down goes: nothing it waits for waits for it.
TeardownFinishes == net = "switching" ~> net = "down"

\* A check or a look-up ends, one way or another.
ChecksEnd ==
  \A d \in Ids : dn[d].status \in {"verifying", "metadata"} ~>
                  dn[d].status \notin {"verifying", "metadata"}

\* A running download whose data is all there goes on to its completion check,
\* also while it is held back.
DataCompletes ==
  \A d \in Ids : dn[d].have /\ dn[d].status = "downloading" ~>
                  dn[d].status # "downloading"

\* All of it: what is under way comes to an end, and what is there is found complete
\* (netmanager.go, sample, verifyCompletion).
WorkEnds == EveryPassEnds /\ TeardownFinishes /\ ChecksEnd /\ DataCompletes
=============================================================================
