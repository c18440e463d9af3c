--------------------------- MODULE DownloadPolicy ---------------------------
(***************************************************************************)
(* The rules of the download manager that every handler ends with: which   *)
(* downloads hold a slot, which are held back by the game or by the        *)
(* schedule, which queued downloads start, and how the gates of the        *)
(* torrents follow.  They run under m.mu over the whole list, so each is   *)
(* an operator from one state of the list to the next.                     *)
(*                                                                         *)
(*   q   the list m.items, a sequence of downloads in queue order          *)
(*   D   the downloads: a record of each, with the gates of its torrent    *)
(*   p   the policy in force: the settings and what holds downloads back   *)
(***************************************************************************)
EXTENDS Integers, SequencesExt

CONSTANT Ids   \* the downloads that are ever added

ASSUME IdsFinite == IsFiniteSet(Ids)

Statuses == {"queued", "metadata", "downloading", "paused", "verifying",
             "completed", "failed"}

\* What a stored status reads back as after a restart.
Settled == {"queued", "paused", "completed", "failed"}

\* A download and its torrent: engine is the generation of the client the
\* torrent lives in (0: no torrent), dl and ul its two gates, have whether
\* every selected piece is on disk and hashed.
Download(gens) == [status: Statuses, ignore: BOOLEAN, seeding: BOOLEAN,
                   engine: gens, dl: BOOLEAN, ul: BOOLEAN, have: BOOLEAN]

\* The fields of settings.Settings the manager acts on.
Config == [max: Nat, seed: BOOLEAN, upload: BOOLEAN, pausePlay: BOOLEAN,
           sched: BOOLEAN]

\* saved is what GetSettings returns, rate the settings last applied (m.rateCfg).
Policy == [saved: Config, rate: Config, max: Nat, blocked: BOOLEAN,
           gaming: BOOLEAN]
-----------------------------------------------------------------------------
Occupies(s) == s \in {"downloading", "verifying", "metadata"}

SchedHeld(p, r) == p.blocked /\ ~r.ignore

PlayHeld(p) == p.gaming /\ p.rate.pausePlay

Held(p, r) == PlayHeld(p) \/ SchedHeld(p, r)

\* A torrent with both gates closed; the state a torrent is attached in.
Gated(r) == [r EXCEPT !.dl = FALSE, !.ul = FALSE]

Detached(r) == [r EXCEPT !.engine = 0, !.dl = FALSE, !.ul = FALSE]

Attached(r, g) == [r EXCEPT !.engine = g, !.dl = FALSE, !.ul = FALSE]

\* allowUploadLocked: opens the gate, or leaves it as it is when held.
AllowUpload(p, r) == [r EXCEPT !.ul = @ \/ ~Held(p, r)]

\* Mutant: a start opens the
\* download gate whatever holds it back.
Started_Ungated(p, r) ==
  [r EXCEPT !.status = "downloading", !.dl = TRUE,
            !.ul = p.saved.upload /\ ~Held(p, r)]

\* startLocked, for a download that has a torrent.
Started(p, r) ==
  [r EXCEPT !.status = "downloading",
            !.dl = @ \/ ~Held(p, r),
            !.ul = p.saved.upload /\ ~Held(p, r)]

Forced(p, r) ==
  LET queued == [r EXCEPT !.status = "queued"]
  IN  IF r.engine = 0 THEN queued ELSE Started(p, queued)
-----------------------------------------------------------------------------
CountsActive(p, r) ==
  /\ Occupies(r.status)
  /\ r.status = "downloading" => ~SchedHeld(p, r)

Active(p, q, D) == Cardinality({d \in Range(q) : CountsActive(p, D[d])})

\* Mutant: a paused download may start.
MayStart_Paused(p, r) ==
  r.status \in {"queued", "paused"} /\ r.engine # 0 /\ ~SchedHeld(p, r)

MayStart(p, r) ==
  r.status = "queued" /\ r.engine # 0 /\ ~SchedHeld(p, r)

\* Mutant: one start too many.
Chosen_OffByOne(p, q, D) ==
  LET startable == {i \in DOMAIN q : MayStart(p, D[q[i]])}
  IN  {i \in startable :
         Cardinality({k \in startable : k < i}) <= p.max - Active(p, q, D)}

\* The places in the list schedule() starts: startable ones, in list order, as
\* long as a slot is free.
Chosen(p, q, D) ==
  LET startable == {i \in DOMAIN q : MayStart(p, D[q[i]])}
      free      == p.max - Active(p, q, D)
  IN  {i \in startable : Cardinality({k \in startable : k < i}) < free}

Schedule(p, q, D) ==
  LET starts == {q[i] : i \in Chosen(p, q, D)}
  IN  [d \in Ids |-> IF d \in starts THEN Started(p, D[d]) ELSE D[d]]

\* syncPlayLocked for one download; busy says a job is registered for it.
Synced(p, busy, r) ==
  CASE r.engine = 0                          -> r
    [] r.engine # 0 /\ Held(p, r)            -> Gated(r)
    [] r.engine # 0 /\ ~Held(p, r) /\ ~busy ->
         [r EXCEPT !.dl = @ \/ r.status = "downloading",
                   !.ul = IF r.status = "downloading" THEN p.rate.upload
                          ELSE @ \/ (r.status = "completed" /\ r.seeding)]
    [] OTHER                                 -> r

SyncPlay(p, q, busy, D) ==
  [d \in Ids |-> IF d \in Range(q) THEN Synced(p, d \in busy, D[d]) ELSE D[d]]
=============================================================================
