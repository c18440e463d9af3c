--------------------------- MODULE SelfUpdate_proofs ---------------------------
(***************************************************************************)
(* What the replacement of the launcher by another version of itself keeps,  *)
(* for any number of versions and state files and any schemas: there is a    *)
(* launcher to start, it can read what it finds, what it finds is what was    *)
(* written last, and what can be rolled back to is not given up.             *)
(*                                                                           *)
(* The argument: a rollback that has not replaced the program yet has put    *)
(* away what it writes over, so the state files, with what was put away in   *)
(* its place (Original), are at every step the ones the program can read     *)
(* (DataInv).  The rename of the program and the start of an undo are the     *)
(* only steps that change which of the two it is (RollInv).                  *)
(***************************************************************************)
EXTENDS SelfUpdate, TLAPS

\* The steps the theorems leave out: an installer that is cut off in the middle of writing
\* the program, a parked program that cannot be put back and a stop between the two renames
\* of a portable launcher (nothing can be started after these three), an undo that fails, a
\* staged snapshot that can be neither removed nor moved in, and a launcher the user starts
\* while the worker is at it.
Calm == {"exeLost", "crashParked", "undoFails", "settleFails", "startsTwice"} \cap Events = {}

\* The program: in between the two renames of a portable one it is the parked one.
Program == IF exe = 0 THEN parked ELSE exe

Updating == {"snapshot", "record", "apply", "parked", "commit", "discard"}
Rolling  == {"plan", "skip", "keep", "journal", "restore", "swap", "drop", "revert"}
Updates  == worker \in Updating \/ (worker = "wait" /\ spec.kind = "update")
Rolls    == worker \in Rolling \/ (worker = "wait" /\ spec.kind # "update")

\* The launcher runs what is there, and while it does the worker at most waits for it.
AppInv ==
  /\ app = "down" <=> run = 0
  /\ app # "down" => run = exe /\ worker \in {"none", "wait"}
  /\ worker = "wait" => app \in {"down", "up"}
  /\ exe = 0 <=> worker = "parked"

\* What the service offers is newer than what runs.
OfferInv ==
  /\ avail # 0 => app = "up" /\ run < avail
  /\ pending \in {0, avail}
  /\ state \in {"downloading", "ready", "applying"} => avail # 0
  /\ state = "downloading" => pending # 0
  /\ busy => app = "up"

\* The worker goes from a version to a newer one, or back to an older one, and until it has
\* replaced the program the program is the one it was started by.
WorkInv ==
  /\ worker \notin {"none", "relaunch"} => spec.from # 0 /\ spec.to # 0
  /\ Updates => spec.from < spec.to
  /\ Rolls => spec.to < spec.from
  /\ worker \in {"commit", "drop"} => exe = spec.to
  /\ worker = "parked" => parked = spec.from
  /\ worker = "discard" => exe \in {spec.from, spec.to}
  /\ worker \notin {"none", "relaunch", "parked", "commit", "discard", "drop"} => exe = spec.from

\* A copy of the state files can be read by the version it was taken of.
Sound(d) == d.of # 0 => \A f \in Files : d.files[f].schema # 0 /\ d.files[f].schema <= Schema[f][d.of]

\* Where the copies are while one takes the place of the other.
SnapInv ==
  /\ Sound(prev.dir) /\ Sound(staging.dir)
  /\ prev.rec # 0 => prev.dir.of = prev.rec
  /\ staging.rec # 0 => \/ staging.dir.of = staging.rec /\ prev.rec < staging.rec
                        \/ staging.dir = NoDir /\ prev.rec = 0 /\ prev.dir.of = staging.rec
  /\ prev.rec <= Program /\ staging.rec <= Program
StageInv ==
  /\ app = "up" => prev.rec < run
  /\ app \in {"guard", "starting", "up"} => staging = NoSnapshot
  /\ worker \in {"wait", "snapshot"} \cup Rolling => staging = NoSnapshot
  /\ Updates /\ worker # "commit" => prev.rec < spec.from
  /\ worker = "record" => staging.rec = 0 /\ staging.dir.of = spec.from
  /\ worker \in {"apply", "parked", "commit", "discard"} => staging.rec \in {0, spec.from}

\* What a rollback has done.
RollInv ==
  /\ app \in {"settle", "guard", "starting", "up"} => journal = NoJournal /\ kept = NoKept
  /\ worker \in Updating \cup {"wait", "plan", "skip", "keep"} => journal = NoJournal /\ kept = NoKept
  /\ worker \in Rolling => journal \in {NoJournal, [from |-> spec.from, to |-> spec.to]}
  /\ worker = "restore" => journal # NoJournal
  /\ worker \in {"skip", "keep", "journal", "restore", "swap"} =>
       prev.rec = spec.to /\ \A f \in Files \ todo : live[f].schema = prev.dir.files[f].schema
  /\ worker = "drop" => prev.rec \in {0, spec.to}
  /\ worker = "journal" => journal = NoJournal /\ \A f \in Files : kept[f] \in {live[f], NoCopy}
  /\ worker \in {"journal", "restore"} => \A f \in todo : kept[f] = live[f]
  /\ worker = "swap" => todo = {}

\* What a state file was before a rollback that has not replaced the program.
Undoing == journal # NoJournal /\ journal.from = exe /\ journal.to # exe
Original(f) == IF Undoing /\ kept[f] # NoCopy THEN kept[f] ELSE live[f]
DataInv == \A f \in Files :
  /\ live[f].schema # 0
  /\ kept[f].schema = 0 => kept[f] = NoCopy
  /\ Original(f).schema <= Schema[f][Program] /\ Original(f).gen = latest[f]


-----------------------------------------------------------------------------
(* The types, and what the helpers of a step do *)

Apps   == {"down", "undo", "settle", "guard", "starting", "up"}
States == {"idle", "available", "downloading", "ready", "applying"}
Stores == [avail : 0..Latest, ready : 0..Latest, skipped : 0..Latest]
Attempts == [of : 0..Latest, n : 0..MaxAttempts]
Specs  == [kind : {"none", "update", "bare", "rollback"}, from : 0..Latest, to : 0..Latest]
Journals == [from : 0..Latest, to : 0..Latest]
Copies == [schema : Nat, gen : 0..MaxWrites]
Dirs   == [of : 0..Latest, files : [Files -> Copies]]

\* TypeOK with its sets named, and the variables it leaves to the other invariants.
Types ==
  /\ mode \in Modes /\ app \in Apps /\ state \in States
  /\ exe \in 0..Latest /\ parked \in 0..Latest /\ run \in 0..Latest
  /\ avail \in 0..Latest /\ pending \in 0..Latest /\ skipped \in 0..Latest
  /\ busy \in BOOLEAN /\ noted \in BOOLEAN
  /\ store \in Stores /\ cache \subseteq Versions /\ attempts \in Attempts
  /\ spec \in Specs /\ todo \subseteq Files
  /\ prev \in Snapshots /\ (prev.dir.of = 0 => prev.dir = NoDir)
  /\ staging \in Snapshots /\ (staging.dir.of = 0 => staging.dir = NoDir)
  /\ journal \in Journals /\ kept \in [Files -> Copies]
  /\ live \in [Files -> Copies] /\ latest \in [Files -> 0..MaxWrites]

\* The invariant
IInv == Types /\ AppInv /\ OfferInv /\ WorkInv /\ SnapInv /\ StageInv /\ RollInv /\ DataInv

\* What KeepsRollback says of one step
Stays == \A v \in Saved \ Saved' :
           \/ v >= exe \/ \E w \in Saved' : v < w /\ w < exe
           \/ worker = "discard" /\ v = staging.rec

\* The snapshots, with their parts named.
LEMMA SnapshotsAre == Snapshots = [rec : 0..Latest, dir : Dirs]
BY DEF Snapshots, Dirs, Copies

\* Nothing is a snapshot too.
LEMMA NoneIs ==
  /\ NoCopy \in Copies /\ NoCopy.schema = 0 /\ NoKept \in [Files -> Copies] /\ \A f \in Files : NoKept[f] = NoCopy
  /\ NoJournal \in Journals
  /\ NoDir \in Dirs /\ NoDir.of = 0 /\ NoSnapshot \in Snapshots /\ NoSnapshot.rec = 0 /\ NoSnapshot.dir = NoDir
<1>1. NoCopy \in Copies /\ NoCopy.schema = 0
  BY SelfUpdateConstants DEF NoCopy, Copies
<1>2. NoKept \in [Files -> Copies] /\ \A f \in Files : NoKept[f] = NoCopy
  BY <1>1 DEF NoKept
<1>3. NoJournal \in Journals
  BY SelfUpdateConstants DEF NoJournal, Journals
<1>4. NoDir \in Dirs /\ NoDir.of = 0
  BY <1>1, SelfUpdateConstants DEF NoDir, Dirs
<1>5. NoSnapshot \in Snapshots /\ NoSnapshot.rec = 0 /\ NoSnapshot.dir = NoDir
  BY <1>4, SelfUpdateConstants, SnapshotsAre DEF NoSnapshot
<1> QED BY <1>1, <1>2, <1>3, <1>4, <1>5

\* What there is of a snapshot.
LEMMA ASnapshot ==
  ASSUME NEW s \in Snapshots
  PROVE  /\ s.rec \in 0..Latest /\ s.dir \in Dirs /\ s.dir.of \in 0..Latest
         /\ \A f \in Files : s.dir.files[f] \in Copies
         /\ s = NoSnapshot <=> s.rec = 0 /\ s.dir = NoDir
BY SnapshotsAre, NoneIs DEF Dirs

\* The values a step of anything relies on.
LEMMA Values ==
  /\ Latest \in Nat /\ 0 \in 0..Latest
  /\ NoKept \in [Files -> Copies] /\ NoJournal \in Journals /\ NoCopy.schema = 0
  /\ \A f \in Files : NoKept[f] = NoCopy
  /\ NoDir \in Dirs /\ NoDir.of = 0 /\ Sound(NoDir)
  /\ NoSnapshot \in Snapshots /\ NoSnapshot.rec = 0 /\ NoSnapshot.dir = NoDir
  /\ Types => /\ prev \in Snapshots /\ staging \in Snapshots
              /\ prev.rec \in 0..Latest /\ prev.dir \in Dirs /\ prev.dir.of \in 0..Latest
              /\ staging.rec \in 0..Latest /\ staging.dir \in Dirs /\ staging.dir.of \in 0..Latest
              /\ prev = NoSnapshot <=> prev.rec = 0 /\ prev.dir = NoDir
              /\ staging = NoSnapshot <=> staging.rec = 0 /\ staging.dir = NoDir
              /\ \A f \in Files : /\ prev.dir.files[f] \in Copies /\ staging.dir.files[f] \in Copies
                                  /\ live[f] \in Copies /\ kept[f] \in Copies
              /\ exe \in Nat /\ parked \in Nat /\ run \in Nat /\ avail \in Nat
              /\ spec.from \in 0..Latest /\ spec.to \in 0..Latest
              /\ store.avail \in 0..Latest /\ store.ready \in 0..Latest
<1>1. Latest \in Nat /\ 0 \in 0..Latest
  BY SelfUpdateConstants
<1>2. Sound(NoDir)
  BY NoneIs DEF Sound
<1>3. ASSUME Types
      PROVE  /\ prev \in Snapshots /\ staging \in Snapshots
             /\ prev.rec \in 0..Latest /\ prev.dir \in Dirs /\ prev.dir.of \in 0..Latest
             /\ staging.rec \in 0..Latest /\ staging.dir \in Dirs /\ staging.dir.of \in 0..Latest
             /\ prev = NoSnapshot <=> prev.rec = 0 /\ prev.dir = NoDir
             /\ staging = NoSnapshot <=> staging.rec = 0 /\ staging.dir = NoDir
             /\ \A f \in Files : /\ prev.dir.files[f] \in Copies /\ staging.dir.files[f] \in Copies
                                 /\ live[f] \in Copies /\ kept[f] \in Copies
             /\ exe \in Nat /\ parked \in Nat /\ run \in Nat /\ avail \in Nat
             /\ spec.from \in 0..Latest /\ spec.to \in 0..Latest
             /\ store.avail \in 0..Latest /\ store.ready \in 0..Latest
  <2>1. prev \in Snapshots /\ staging \in Snapshots
    BY <1>3 DEF Types
  <2>2. /\ live \in [Files -> Copies] /\ kept \in [Files -> Copies] /\ spec \in Specs /\ store \in Stores
        /\ exe \in 0..Latest /\ parked \in 0..Latest /\ run \in 0..Latest /\ avail \in 0..Latest
    BY <1>3 DEF Types
  <2>3. exe \in Nat /\ parked \in Nat /\ run \in Nat /\ avail \in Nat
    BY <1>1, <2>2
  <2>4. spec.from \in 0..Latest /\ spec.to \in 0..Latest /\ store.avail \in 0..Latest /\ store.ready \in 0..Latest
    BY <2>2 DEF Specs, Stores
  <2> QED BY <2>1, <2>2, <2>3, <2>4, ASnapshot
<1> QED BY <1>1, <1>2, <1>3, NoneIs

\* The attempts that are counted stay within their limit.
LEMMA CountedAre ==
  ASSUME Types
  PROVE  /\ [of |-> run, n |-> Counted] \in Attempts /\ [of |-> run, n |-> 0] \in Attempts
         /\ [of |-> 0, n |-> 0] \in Attempts
<1>1. attempts.n \in 0..MaxAttempts /\ run \in 0..Latest /\ MaxAttempts \in Nat \ {0} /\ 0 \in 0..Latest
  BY SelfUpdateConstants DEF Types, Attempts
<1>2. Counted \in 0..MaxAttempts
  BY <1>1 DEF Counted
<1> QED BY <1>1, <1>2 DEF Attempts

\* A newer version writes a file with no older schema.
LEMMA SchemasGrow ==
  /\ \A f \in Files, v \in Versions : Schema[f][v] \in Nat \ {0}
  /\ \A f \in Files : \A v, w \in Versions : v <= w => Schema[f][v] <= Schema[f][w]
BY SelfUpdateConstants

\* What is left of a stored offer is newer than what runs.
LEMMA VettedIs ==
  ASSUME Types
  PROVE  /\ Vetted \in Stores
         /\ Vetted.avail # 0 => run < Vetted.avail
         /\ Vetted.ready # 0 => Vetted.avail # 0
<1>1. store \in Stores /\ 0 \in 0..Latest /\ run \in 0..Latest /\ Latest \in Nat
  BY Values DEF Types
<1>2. /\ Fresh \in Stores
      /\ Fresh.avail # 0 => run < Fresh.avail
      /\ Fresh.ready # 0 => Fresh.avail # 0
  <2>1. CASE store.avail > run
    BY <1>1, <2>1 DEF Fresh, Stores
  <2>2. CASE ~(store.avail > run)
    <3>1. Fresh = [store EXCEPT !.avail = 0, !.ready = 0]
      BY <2>2 DEF Fresh
    <3>2. Fresh = [avail |-> 0, ready |-> 0, skipped |-> store.skipped]
      BY <1>1, <3>1 DEF Stores
    <3> QED BY <1>1, <3>2 DEF Stores
  <2> QED BY <2>1, <2>2
<1>3. PICK r \in 0..Latest : Vetted = [Fresh EXCEPT !.ready = r] /\ r \in {Fresh.ready, 0}
  <2>1. Fresh.ready \in 0..Latest
    BY <1>2 DEF Stores
  <2>2. Vetted = [Fresh EXCEPT !.ready = IF Fresh.ready \in cache THEN Fresh.ready ELSE 0]
    BY DEF Vetted
  <2> QED BY <1>1, <2>1, <2>2
<1>4. Vetted \in Stores /\ Vetted.avail = Fresh.avail /\ Vetted.ready = r
  BY <1>2, <1>3 DEF Stores
<1> QED BY <1>2, <1>3, <1>4

\* A state file that is migrated has the schema of the launcher that runs.
LEMMA MigratedAre ==
  ASSUME Types, run # 0, NEW f \in Files
  PROVE  Migrated(f) \in Copies /\ Migrated(f).schema = Schema[f][run] /\ Migrated(f).gen = live[f].gen
<1>1. live[f] \in Copies /\ run \in Versions
  BY Values DEF Types, Versions
<1>2. Schema[f][run] \in Nat
  BY <1>1, SchemasGrow
<1> QED BY <1>1, <1>2 DEF Migrated, Copies

\* What is written is newer than what was.
LEMMA WriteIs ==
  ASSUME Types, NEW f \in Files, latest[f] < MaxWrites, live' = [live EXCEPT ![f].gen = latest[f] + 1]
  PROVE  /\ live' \in [Files -> Copies] /\ live'[f].schema = live[f].schema
         /\ live'[f].gen = latest[f] + 1 /\ \A g \in Files \ {f} : live'[g] = live[g]
<1>1. live \in [Files -> Copies] /\ live[f] \in Copies /\ latest[f] + 1 \in 0..MaxWrites
  BY SelfUpdateConstants DEF Types
<1>2. live' = [live EXCEPT ![f] = [live[f] EXCEPT !.gen = latest[f] + 1]]
  OBVIOUS
<1>3. /\ [live[f] EXCEPT !.gen = latest[f] + 1] \in Copies
      /\ [live[f] EXCEPT !.gen = latest[f] + 1].schema = live[f].schema
      /\ [live[f] EXCEPT !.gen = latest[f] + 1].gen = latest[f] + 1
  BY <1>1 DEF Copies
<1> QED BY <1>1, <1>2, <1>3

-----------------------------------------------------------------------------
(* The steps *)

\* The launcher starts, by itself or by the worker.
LEMMA LaunchKeeps ==
  ASSUME Calm, IInv, Launch
  PROVE  IInv' /\ Stays
<1>t. /\ Types /\ AppInv /\ OfferInv /\ WorkInv /\ SnapInv /\ StageInv /\ RollInv /\ DataInv
  BY DEF IInv
<1>1. /\ app = "down" /\ exe # 0 /\ worker \in {"none", "relaunch"} /\ app' = "undo"
      /\ run' = exe /\ worker' = "none"
      /\ UNCHANGED <<mode, exe, parked, attempts, state, avail, pending, skipped, busy, store,
          cache, spec, todo, prev, staging, noted, journal, kept, live, latest, crashes>>
  BY <1>t DEF Launch, Idle, At, undo, launcher, service, offered, saved, data, Calm
<1>2. Types'
  BY <1>t, <1>1, Values DEF Types, Apps, States
<1>3. AppInv'
  BY <1>t, <1>1 DEF AppInv
<1>4. OfferInv'
  BY <1>t, <1>1 DEF OfferInv
<1>5. WorkInv'
  BY <1>t, <1>1 DEF WorkInv, Updates, Rolls, Updating, Rolling
<1>6. SnapInv'
  BY <1>t, <1>1, Values DEF SnapInv, Program
<1>7. StageInv'
  BY <1>t, <1>1, Values DEF StageInv, Updates, Updating, Rolling
<1>8. RollInv'
  BY <1>t, <1>1, Values DEF RollInv, Updating, Rolling
<1>9. DataInv'
  BY <1>t, <1>1, Values DEF DataInv, Original, Undoing, Program
<1>10. Stays
  BY <1>t, <1>1, Values DEF Stays, Saved, Versions
<1> QED BY <1>2, <1>3, <1>4, <1>5, <1>6, <1>7, <1>8, <1>9, <1>10 DEF IInv

\* What a rollback has written over goes back, and its copies go.
LEMMA LaunchUndoKeeps ==
  ASSUME Calm, IInv, LaunchUndo
  PROVE  IInv' /\ Stays
<1>t. /\ Types /\ AppInv /\ OfferInv /\ WorkInv /\ SnapInv /\ StageInv /\ RollInv /\ DataInv
  BY DEF IInv
<1>1. \/ \E f \in Files :
            /\ app = "undo" /\ Undoes /\ f \in Kept /\ live' = [live EXCEPT ![f] = kept[f]]
            /\ UNCHANGED <<mode, exe, parked, app, run, attempts, state, avail, pending, skipped,
                busy, store, cache, worker, spec, todo, prev, staging, noted, journal, kept,
                latest, crashes>>
      \/ /\ app = "undo" /\ (~Undoes \/ AllBack) /\ app' = "settle" /\ journal' = NoJournal
         /\ kept' = NoKept
         /\ UNCHANGED <<mode, exe, parked, run, attempts, state, avail, pending, skipped, busy,
             store, cache, worker, spec, todo, prev, staging, noted, live, latest, crashes>>
  BY <1>t DEF LaunchUndo, undo, PutBack, DropKept, data, launcher, service, offered, work, saved, Calm
<1>2. ASSUME NEW f \in Files,
           /\ app = "undo" /\ Undoes /\ f \in Kept /\ live' = [live EXCEPT ![f] = kept[f]]
           /\ UNCHANGED <<mode, exe, parked, app, run, attempts, state, avail, pending, skipped,
               busy, store, cache, worker, spec, todo, prev, staging, noted, journal, kept, latest,
               crashes>>
    PROVE  IInv' /\ Stays
  <2>1. live' \in [Files -> Copies] /\ live'[f] = kept[f]
        /\ \A g \in Files \ {f} : live'[g] = live[g]
    BY <1>t, <1>2 DEF Types
  <2>2. Types'
    BY <1>t, <1>2, <2>1, Values DEF Types, Apps, States
  <2>3. AppInv'
    BY <1>t, <1>2 DEF AppInv
  <2>4. OfferInv'
    BY <1>t, <1>2 DEF OfferInv
  <2>5. WorkInv'
    BY <1>t, <1>2 DEF WorkInv, Updates, Rolls, Updating, Rolling
  <2>6. SnapInv'
    BY <1>t, <1>2, Values DEF SnapInv, Program
  <2>7. StageInv'
    BY <1>t, <1>2, Values DEF StageInv, Updates, Updating, Rolling
  <2>8. RollInv'
    BY <1>t, <1>2, <2>1, Values DEF RollInv, Updating, Rolling, AppInv
  <2>9. DataInv'
    BY <1>t, <1>2, <2>1, Values DEF DataInv, Original, Undoing, Program, Undoes, AppInv, Kept
  <2>10. Stays
    BY <1>t, <1>2, Values DEF Stays, Saved, Versions
  <2> QED BY <2>2, <2>3, <2>4, <2>5, <2>6, <2>7, <2>8, <2>9, <2>10 DEF IInv
<1>3. CASE /\ app = "undo" /\ (~Undoes \/ AllBack) /\ app' = "settle" /\ journal' = NoJournal
           /\ kept' = NoKept
           /\ UNCHANGED <<mode, exe, parked, run, attempts, state, avail, pending, skipped, busy,
               store, cache, worker, spec, todo, prev, staging, noted, live, latest, crashes>>
  <2>1. Types'
    BY <1>t, <1>3, Values DEF Types, Apps, States
  <2>2. AppInv'
    BY <1>t, <1>3 DEF AppInv
  <2>3. OfferInv'
    BY <1>t, <1>3 DEF OfferInv
  <2>4. WorkInv'
    BY <1>t, <1>3 DEF WorkInv, Updates, Rolls, Updating, Rolling
  <2>5. SnapInv'
    BY <1>t, <1>3, Values DEF SnapInv, Program
  <2>6. StageInv'
    BY <1>t, <1>3, Values DEF StageInv, Updates, Updating, Rolling
  <2>7. RollInv'
    BY <1>t, <1>3, Values DEF RollInv, Updating, Rolling, AppInv
  <2>8. DataInv'
    BY <1>t, <1>3, Values, NoneIs
    DEF DataInv, Original, Undoing, Program, Undoes, AllBack, Kept, AppInv, Types
  <2>9. Stays
    BY <1>t, <1>3, Values DEF Stays, Saved, Versions
  <2> QED BY <2>1, <2>2, <2>3, <2>4, <2>5, <2>6, <2>7, <2>8, <2>9 DEF IInv
<1> QED BY <1>1, <1>2, <1>3

\* A copy that was not settled becomes the one rollbacks use, or goes.
LEMMA LaunchSettleKeeps ==
  ASSUME Calm, IInv, LaunchSettle
  PROVE  IInv' /\ Stays
<1>t. /\ Types /\ AppInv /\ OfferInv /\ WorkInv /\ SnapInv /\ StageInv /\ RollInv /\ DataInv
  BY DEF IInv
<1>1. \/ /\ app = "settle" /\ staging = NoSnapshot /\ app' = "guard"
         /\ UNCHANGED <<mode, exe, parked, run, attempts, state, avail, pending, skipped, busy,
             store, cache, worker, spec, todo, prev, staging, noted, journal, kept, live, latest,
             crashes>>
      \/ /\ app = "settle" /\ UpdateHappened /\ staging.dir = NoDir
         /\ prev' = [prev EXCEPT !.rec = staging.rec] /\ staging' = [staging EXCEPT !.rec = 0]
         /\ noted' \in BOOLEAN
         /\ UNCHANGED <<mode, exe, parked, app, run, attempts, state, avail, pending, skipped,
             busy, store, cache, worker, spec, todo, journal, kept, live, latest, crashes>>
      \/ /\ app = "settle" /\ UpdateHappened /\ staging.dir # NoDir /\ prev.rec # 0
         /\ prev' = [prev EXCEPT !.rec = 0]
         /\ UNCHANGED <<mode, exe, parked, app, run, attempts, state, avail, pending, skipped,
             busy, store, cache, worker, spec, todo, staging, noted, journal, kept, live, latest,
             crashes>>
      \/ /\ app = "settle" /\ UpdateHappened /\ staging.dir # NoDir /\ prev.rec = 0
         /\ prev.dir # NoDir /\ prev' = [prev EXCEPT !.dir = NoDir] /\ journal' = NoJournal
         /\ kept' = NoKept
         /\ UNCHANGED <<mode, exe, parked, app, run, attempts, state, avail, pending, skipped,
             busy, store, cache, worker, spec, todo, staging, noted, live, latest, crashes>>
      \/ /\ app = "settle" /\ UpdateHappened /\ staging.dir # NoDir /\ prev = NoSnapshot
         /\ prev' = [prev EXCEPT !.dir = staging.dir]
         /\ staging' = [staging EXCEPT !.dir = NoDir]
         /\ UNCHANGED <<mode, exe, parked, app, run, attempts, state, avail, pending, skipped,
             busy, store, cache, worker, spec, todo, noted, journal, kept, live, latest, crashes>>
      \/ /\ app = "settle" /\ ~UpdateHappened /\ staging.rec # 0
         /\ staging' = [staging EXCEPT !.rec = 0]
         /\ UNCHANGED <<mode, exe, parked, app, run, attempts, state, avail, pending, skipped,
             busy, store, cache, worker, spec, todo, prev, noted, journal, kept, live, latest,
             crashes>>
      \/ /\ app = "settle" /\ ~UpdateHappened /\ staging.rec = 0 /\ staging' = NoSnapshot
         /\ UNCHANGED <<mode, exe, parked, app, run, attempts, state, avail, pending, skipped,
             busy, store, cache, worker, spec, todo, prev, noted, journal, kept, live, latest,
             crashes>>
  BY <1>t, Values DEF LaunchSettle, SettleFails, Calm, Types, Discarded, saved, undo, Promote, DropRecord, DropDir, Discard, launcher,
          service, offered, work, data
<1>2. CASE /\ app = "settle" /\ staging = NoSnapshot /\ app' = "guard"
           /\ UNCHANGED <<mode, exe, parked, run, attempts, state, avail, pending, skipped, busy,
               store, cache, worker, spec, todo, prev, staging, noted, journal, kept, live, latest,
               crashes>>
  <2>1. Types'
    BY <1>t, <1>2, Values DEF Types, Apps, States
  <2>2. AppInv'
    BY <1>t, <1>2 DEF AppInv
  <2>3. OfferInv'
    BY <1>t, <1>2 DEF OfferInv
  <2>4. WorkInv'
    BY <1>t, <1>2 DEF WorkInv, Updates, Rolls, Updating, Rolling
  <2>5. SnapInv'
    BY <1>t, <1>2, Values DEF SnapInv, Program
  <2>6. StageInv'
    BY <1>t, <1>2, Values DEF StageInv, Updates, Updating, Rolling, AppInv
  <2>7. RollInv'
    BY <1>t, <1>2, Values DEF RollInv, Updating, Rolling, AppInv
  <2>8. DataInv'
    BY <1>t, <1>2, Values DEF DataInv, Original, Undoing, Program, RollInv
  <2>9. Stays
    BY <1>t, <1>2, Values DEF Stays, Saved, Versions, AppInv, UpdateHappened, SnapInv
  <2> QED BY <2>1, <2>2, <2>3, <2>4, <2>5, <2>6, <2>7, <2>8, <2>9 DEF IInv
<1>3. CASE /\ app = "settle" /\ UpdateHappened /\ staging.dir = NoDir
           /\ prev' = [prev EXCEPT !.rec = staging.rec] /\ staging' = [staging EXCEPT !.rec = 0]
           /\ noted' \in BOOLEAN
           /\ UNCHANGED <<mode, exe, parked, app, run, attempts, state, avail, pending, skipped,
               busy, store, cache, worker, spec, todo, journal, kept, live, latest, crashes>>
  <2>1. prev' \in Snapshots /\ prev'.rec = staging.rec /\ prev'.dir = prev.dir
    BY <1>t, <1>3, Values, SnapshotsAre
  <2>2. staging' \in Snapshots /\ staging'.rec = 0 /\ staging'.dir = staging.dir
    BY <1>t, <1>3, Values, SnapshotsAre
  <2>3. Types'
    BY <1>t, <1>3, <2>1, <2>2, Values DEF Types, Apps, States
  <2>4. AppInv'
    BY <1>t, <1>3 DEF AppInv
  <2>5. OfferInv'
    BY <1>t, <1>3 DEF OfferInv
  <2>6. WorkInv'
    BY <1>t, <1>3 DEF WorkInv, Updates, Rolls, Updating, Rolling
  <2>7. SnapInv'
    BY <1>t, <1>3, <2>1, <2>2, Values DEF SnapInv, Program
  <2>8. StageInv'
    BY <1>t, <1>3, <2>1, <2>2, Values DEF StageInv, Updates, Updating, Rolling, AppInv
  <2>9. RollInv'
    BY <1>t, <1>3, <2>1, Values DEF RollInv, Updating, Rolling, AppInv
  <2>10. DataInv'
    BY <1>t, <1>3, Values DEF DataInv, Original, Undoing, Program, RollInv
  <2>11. Stays
    BY <1>t, <1>3, <2>1, <2>2, Values DEF Stays, Saved, Versions, AppInv, UpdateHappened, SnapInv
  <2> QED BY <2>3, <2>4, <2>5, <2>6, <2>7, <2>8, <2>9, <2>10, <2>11 DEF IInv
<1>4. CASE /\ app = "settle" /\ UpdateHappened /\ staging.dir # NoDir /\ prev.rec # 0
           /\ prev' = [prev EXCEPT !.rec = 0]
           /\ UNCHANGED <<mode, exe, parked, app, run, attempts, state, avail, pending, skipped,
               busy, store, cache, worker, spec, todo, staging, noted, journal, kept, live, latest,
               crashes>>
  <2>1. prev' \in Snapshots /\ prev'.rec = 0 /\ prev'.dir = prev.dir
    BY <1>t, <1>4, Values, SnapshotsAre
  <2>2. Types'
    BY <1>t, <1>4, <2>1, Values DEF Types, Apps, States
  <2>3. AppInv'
    BY <1>t, <1>4 DEF AppInv
  <2>4. OfferInv'
    BY <1>t, <1>4 DEF OfferInv
  <2>5. WorkInv'
    BY <1>t, <1>4 DEF WorkInv, Updates, Rolls, Updating, Rolling
  <2>6. SnapInv'
    BY <1>t, <1>4, <2>1, Values DEF SnapInv, Program
  <2>7. StageInv'
    BY <1>t, <1>4, <2>1, Values DEF StageInv, Updates, Updating, Rolling, AppInv
  <2>8. RollInv'
    BY <1>t, <1>4, <2>1, Values DEF RollInv, Updating, Rolling, AppInv
  <2>9. DataInv'
    BY <1>t, <1>4, Values DEF DataInv, Original, Undoing, Program, RollInv
  <2>10. Stays
    BY <1>t, <1>4, <2>1, Values DEF Stays, Saved, Versions, AppInv, UpdateHappened, SnapInv
  <2> QED BY <2>2, <2>3, <2>4, <2>5, <2>6, <2>7, <2>8, <2>9, <2>10 DEF IInv
<1>5. CASE /\ app = "settle" /\ UpdateHappened /\ staging.dir # NoDir /\ prev.rec = 0
           /\ prev.dir # NoDir /\ prev' = [prev EXCEPT !.dir = NoDir] /\ journal' = NoJournal
           /\ kept' = NoKept
           /\ UNCHANGED <<mode, exe, parked, app, run, attempts, state, avail, pending, skipped,
               busy, store, cache, worker, spec, todo, staging, noted, live, latest, crashes>>
  <2>1. prev' \in Snapshots /\ prev'.rec = prev.rec /\ prev'.dir = NoDir
    BY <1>t, <1>5, Values, SnapshotsAre
  <2>2. Types'
    BY <1>t, <1>5, <2>1, Values DEF Types, Apps, States
  <2>3. AppInv'
    BY <1>t, <1>5 DEF AppInv
  <2>4. OfferInv'
    BY <1>t, <1>5 DEF OfferInv
  <2>5. WorkInv'
    BY <1>t, <1>5 DEF WorkInv, Updates, Rolls, Updating, Rolling
  <2>6. SnapInv'
    BY <1>t, <1>5, <2>1, Values DEF SnapInv, Program
  <2>7. StageInv'
    BY <1>t, <1>5, <2>1, Values DEF StageInv, Updates, Updating, Rolling, AppInv
  <2>8. RollInv'
    BY <1>t, <1>5, <2>1, Values DEF RollInv, Updating, Rolling, AppInv
  <2>9. DataInv'
    BY <1>t, <1>5, Values DEF DataInv, Original, Undoing, Program, RollInv
  <2>10. Stays
    BY <1>t, <1>5, <2>1, Values DEF Stays, Saved, Versions, AppInv, UpdateHappened, SnapInv
  <2> QED BY <2>2, <2>3, <2>4, <2>5, <2>6, <2>7, <2>8, <2>9, <2>10 DEF IInv
<1>6. CASE /\ app = "settle" /\ UpdateHappened /\ staging.dir # NoDir /\ prev = NoSnapshot
           /\ prev' = [prev EXCEPT !.dir = staging.dir]
           /\ staging' = [staging EXCEPT !.dir = NoDir]
           /\ UNCHANGED <<mode, exe, parked, app, run, attempts, state, avail, pending, skipped,
               busy, store, cache, worker, spec, todo, noted, journal, kept, live, latest, crashes>>
  <2>1. prev' \in Snapshots /\ prev'.rec = prev.rec /\ prev'.dir = staging.dir
    BY <1>t, <1>6, Values, SnapshotsAre
  <2>2. staging' \in Snapshots /\ staging'.rec = staging.rec /\ staging'.dir = NoDir
    BY <1>t, <1>6, Values, SnapshotsAre
  <2>3. Types'
    BY <1>t, <1>6, <2>1, <2>2, Values DEF Types, Apps, States
  <2>4. AppInv'
    BY <1>t, <1>6 DEF AppInv
  <2>5. OfferInv'
    BY <1>t, <1>6 DEF OfferInv
  <2>6. WorkInv'
    BY <1>t, <1>6 DEF WorkInv, Updates, Rolls, Updating, Rolling
  <2>7. SnapInv'
    BY <1>t, <1>6, <2>1, <2>2, Values DEF SnapInv, Program
  <2>8. StageInv'
    BY <1>t, <1>6, <2>1, <2>2, Values DEF StageInv, Updates, Updating, Rolling, AppInv
  <2>9. RollInv'
    BY <1>t, <1>6, <2>1, Values DEF RollInv, Updating, Rolling, AppInv
  <2>10. DataInv'
    BY <1>t, <1>6, Values DEF DataInv, Original, Undoing, Program, RollInv
  <2>11. Stays
    BY <1>t, <1>6, <2>1, <2>2, Values DEF Stays, Saved, Versions, AppInv, UpdateHappened, SnapInv
  <2> QED BY <2>3, <2>4, <2>5, <2>6, <2>7, <2>8, <2>9, <2>10, <2>11 DEF IInv
<1>7. CASE /\ app = "settle" /\ ~UpdateHappened /\ staging.rec # 0
           /\ staging' = [staging EXCEPT !.rec = 0]
           /\ UNCHANGED <<mode, exe, parked, app, run, attempts, state, avail, pending, skipped,
               busy, store, cache, worker, spec, todo, prev, noted, journal, kept, live, latest,
               crashes>>
  <2>1. staging' \in Snapshots /\ staging'.rec = 0 /\ staging'.dir = staging.dir
    BY <1>t, <1>7, Values, SnapshotsAre
  <2>2. Types'
    BY <1>t, <1>7, <2>1, Values DEF Types, Apps, States
  <2>3. AppInv'
    BY <1>t, <1>7 DEF AppInv
  <2>4. OfferInv'
    BY <1>t, <1>7 DEF OfferInv
  <2>5. WorkInv'
    BY <1>t, <1>7 DEF WorkInv, Updates, Rolls, Updating, Rolling
  <2>6. SnapInv'
    BY <1>t, <1>7, <2>1, Values DEF SnapInv, Program
  <2>7. StageInv'
    BY <1>t, <1>7, <2>1, Values DEF StageInv, Updates, Updating, Rolling, AppInv
  <2>8. RollInv'
    BY <1>t, <1>7, Values DEF RollInv, Updating, Rolling, AppInv
  <2>9. DataInv'
    BY <1>t, <1>7, Values DEF DataInv, Original, Undoing, Program, RollInv
  <2>10. Stays
    BY <1>t, <1>7, <2>1, Values DEF Stays, Saved, Versions, AppInv, UpdateHappened, SnapInv
  <2> QED BY <2>2, <2>3, <2>4, <2>5, <2>6, <2>7, <2>8, <2>9, <2>10 DEF IInv
<1>8. CASE /\ app = "settle" /\ ~UpdateHappened /\ staging.rec = 0 /\ staging' = NoSnapshot
           /\ UNCHANGED <<mode, exe, parked, app, run, attempts, state, avail, pending, skipped,
               busy, store, cache, worker, spec, todo, prev, noted, journal, kept, live, latest,
               crashes>>
  <2>1. staging' \in Snapshots /\ staging'.rec = 0 /\ staging'.dir = NoDir
    BY <1>8, Values
  <2>2. Types'
    BY <1>t, <1>8, <2>1, Values DEF Types, Apps, States
  <2>3. AppInv'
    BY <1>t, <1>8 DEF AppInv
  <2>4. OfferInv'
    BY <1>t, <1>8 DEF OfferInv
  <2>5. WorkInv'
    BY <1>t, <1>8 DEF WorkInv, Updates, Rolls, Updating, Rolling
  <2>6. SnapInv'
    BY <1>t, <1>8, <2>1, Values DEF SnapInv, Program
  <2>7. StageInv'
    BY <1>t, <1>8, <2>1, Values DEF StageInv, Updates, Updating, Rolling, AppInv
  <2>8. RollInv'
    BY <1>t, <1>8, Values DEF RollInv, Updating, Rolling, AppInv
  <2>9. DataInv'
    BY <1>t, <1>8, Values DEF DataInv, Original, Undoing, Program, RollInv
  <2>10. Stays
    BY <1>t, <1>8, <2>1, Values DEF Stays, Saved, Versions, AppInv, UpdateHappened, SnapInv
  <2> QED BY <2>2, <2>3, <2>4, <2>5, <2>6, <2>7, <2>8, <2>9, <2>10 DEF IInv
<1> QED BY <1>1, <1>2, <1>3, <1>4, <1>5, <1>6, <1>7, <1>8

\* The start is counted, and the third that fails leads back.
LEMMA LaunchGuardKeeps ==
  ASSUME Calm, IInv, LaunchGuard
  PROVE  IInv' /\ Stays
<1>t. /\ Types /\ AppInv /\ OfferInv /\ WorkInv /\ SnapInv /\ StageInv /\ RollInv /\ DataInv
  BY DEF IInv
<1>1. \/ /\ app = "guard" /\ app' = "starting" /\ attempts' \in Attempts
         /\ UNCHANGED <<mode, exe, parked, run, state, avail, pending, skipped, busy, store, cache,
             worker, spec, todo, prev, staging, noted, journal, kept, live, latest, crashes>>
      \/ /\ app = "guard" /\ CanRollBack /\ worker = "none" /\ app' = "down" /\ run' = 0
         /\ attempts' \in Attempts /\ worker' = "wait"
         /\ spec' = [kind |-> "rollback", from |-> run, to |-> prev.rec] /\ todo' = {}
         /\ UNCHANGED <<mode, exe, parked, state, avail, pending, skipped, busy, store, cache,
             prev, staging, noted, journal, kept, live, latest, crashes>>
  BY <1>t, CountedAre DEF LaunchGuard, work, Idle, RollbackSpec, launcher, service, offered, saved, undo, data
<1>2. CASE /\ app = "guard" /\ app' = "starting" /\ attempts' \in Attempts
           /\ UNCHANGED <<mode, exe, parked, run, state, avail, pending, skipped, busy, store,
               cache, worker, spec, todo, prev, staging, noted, journal, kept, live, latest,
               crashes>>
  <2>1. Types'
    BY <1>t, <1>2, Values DEF Types, Apps, States
  <2>2. AppInv'
    BY <1>t, <1>2 DEF AppInv
  <2>3. OfferInv'
    BY <1>t, <1>2 DEF OfferInv
  <2>4. WorkInv'
    BY <1>t, <1>2
    DEF WorkInv, Updates, Rolls, Updating, Rolling, AppInv, CanRollBack, Whole, SnapInv
  <2>5. SnapInv'
    BY <1>t, <1>2, Values DEF SnapInv, Program
  <2>6. StageInv'
    BY <1>t, <1>2, Values DEF StageInv, Updates, Updating, Rolling, AppInv
  <2>7. RollInv'
    BY <1>t, <1>2, Values DEF RollInv, Updating, Rolling
  <2>8. DataInv'
    BY <1>t, <1>2, Values DEF DataInv, Original, Undoing, Program
  <2>9. Stays
    BY <1>t, <1>2, Values DEF Stays, Saved, Versions
  <2> QED BY <2>1, <2>2, <2>3, <2>4, <2>5, <2>6, <2>7, <2>8, <2>9 DEF IInv
<1>3. CASE /\ app = "guard" /\ CanRollBack /\ worker = "none" /\ app' = "down" /\ run' = 0
           /\ attempts' \in Attempts /\ worker' = "wait"
           /\ spec' = [kind |-> "rollback", from |-> run, to |-> prev.rec] /\ todo' = {}
           /\ UNCHANGED <<mode, exe, parked, state, avail, pending, skipped, busy, store, cache,
               prev, staging, noted, journal, kept, live, latest, crashes>>
  <2>1. spec' \in Specs /\ spec'.kind = "rollback" /\ spec'.from = run /\ spec'.to = prev.rec
    BY <1>t, <1>3, Values DEF Types, Specs, Whole, CanRollBack
  <2>2. Types'
    BY <1>t, <1>3, <2>1, Values DEF Types, Apps, States
  <2>3. AppInv'
    BY <1>t, <1>3 DEF AppInv
  <2>4. OfferInv'
    BY <1>t, <1>3 DEF OfferInv
  <2>5. WorkInv'
    BY <1>t, <1>3, <2>1
    DEF WorkInv, Updates, Rolls, Updating, Rolling, AppInv, CanRollBack, Whole, SnapInv
  <2>6. SnapInv'
    BY <1>t, <1>3, Values DEF SnapInv, Program
  <2>7. StageInv'
    BY <1>t, <1>3, <2>1, Values DEF StageInv, Updates, Updating, Rolling, AppInv
  <2>8. RollInv'
    BY <1>t, <1>3, <2>1, Values DEF RollInv, Updating, Rolling
  <2>9. DataInv'
    BY <1>t, <1>3, Values DEF DataInv, Original, Undoing, Program
  <2>10. Stays
    BY <1>t, <1>3, Values DEF Stays, Saved, Versions
  <2> QED BY <2>2, <2>3, <2>4, <2>5, <2>6, <2>7, <2>8, <2>9, <2>10 DEF IInv
<1> QED BY <1>1, <1>2, <1>3

\* The services load the state files, and the saved version that runs is no longer saved.
LEMMA StartKeeps ==
  ASSUME Calm, IInv, Start
  PROVE  IInv' /\ Stays
<1>t. /\ Types /\ AppInv /\ OfferInv /\ WorkInv /\ SnapInv /\ StageInv /\ RollInv /\ DataInv
  BY DEF IInv
<1>1. \/ /\ app = "starting" /\ prev.rec = run /\ prev' = NoSnapshot /\ journal' = NoJournal
         /\ kept' = NoKept /\ app' = "up" /\ parked' = 0 /\ live' = [g \in Files |-> Migrated(g)]
         /\ store' = Vetted /\ avail' = store'.avail /\ skipped' = store.skipped
         /\ state' = (IF store'.ready # 0 THEN "ready" ELSE IF store'.avail # 0 THEN "available" ELSE "idle")
         /\ cache' = cache \cap {Vetted.avail} /\ pending' = 0 /\ busy' = FALSE
         /\ UNCHANGED <<mode, exe, run, attempts, worker, spec, todo, staging, noted, latest,
             crashes>>
      \/ /\ app = "starting" /\ prev.rec # run /\ app' = "up" /\ parked' = 0
         /\ live' = [g \in Files |-> Migrated(g)] /\ store' = Vetted /\ avail' = store'.avail
         /\ skipped' = store.skipped
         /\ state' = (IF store'.ready # 0 THEN "ready" ELSE IF store'.avail # 0 THEN "available" ELSE "idle")
         /\ cache' = cache \cap {Vetted.avail} /\ pending' = 0 /\ busy' = FALSE
         /\ UNCHANGED <<mode, exe, run, attempts, worker, spec, todo, prev, staging, noted,
             journal, kept, latest, crashes>>
  BY <1>t DEF Start, work
<1>2. CASE /\ app = "starting" /\ prev.rec = run /\ prev' = NoSnapshot /\ journal' = NoJournal
           /\ kept' = NoKept /\ app' = "up" /\ parked' = 0
           /\ live' = [g \in Files |-> Migrated(g)] /\ store' = Vetted /\ avail' = store'.avail
           /\ skipped' = store.skipped
           /\ state' = (IF store'.ready # 0 THEN "ready" ELSE IF store'.avail # 0 THEN "available" ELSE "idle")
           /\ cache' = cache \cap {Vetted.avail} /\ pending' = 0 /\ busy' = FALSE
           /\ UNCHANGED <<mode, exe, run, attempts, worker, spec, todo, staging, noted, latest,
               crashes>>
  <2>1. prev' \in Snapshots /\ prev'.rec = 0 /\ prev'.dir = NoDir
    BY <1>2, Values
  <2>2. /\ live' \in [Files -> Copies]
        /\ \A g \in Files : live'[g].schema = Schema[g][run] /\ live'[g].gen = live[g].gen
    BY <1>t, <1>2, MigratedAre DEF AppInv
  <2>3. store' \in Stores /\ (store'.avail # 0 => run < store'.avail)
        /\ (store'.ready # 0 => store'.avail # 0) /\ cache' \subseteq Versions
    BY <1>t, <1>2, VettedIs DEF Types
  <2>4. Types'
    BY <1>t, <1>2, <2>1, <2>2, <2>3, Values DEF Types, Apps, States, Stores
  <2>5. AppInv'
    BY <1>t, <1>2 DEF AppInv
  <2>6. OfferInv'
    BY <1>t, <1>2, <2>3 DEF OfferInv
  <2>7. WorkInv'
    BY <1>t, <1>2 DEF WorkInv, Updates, Rolls, Updating, Rolling, AppInv
  <2>8. SnapInv'
    BY <1>t, <1>2, <2>1, Values DEF SnapInv, Program, AppInv
  <2>9. StageInv'
    BY <1>t, <1>2, <2>1, Values DEF StageInv, Updates, Updating, Rolling, AppInv, SnapInv, Program
  <2>10. RollInv'
    BY <1>t, <1>2, <2>1, <2>2, Values DEF RollInv, Updating, Rolling, AppInv
  <2>11. DataInv'
    BY <1>t, <1>2, <2>2, Values, SchemasGrow
    DEF DataInv, Original, Undoing, Program, AppInv, RollInv, Versions, Types
  <2>12. Stays
    BY <1>t, <1>2, <2>1, Values DEF Stays, Saved, Versions, AppInv, StageInv
  <2> QED BY <2>4, <2>5, <2>6, <2>7, <2>8, <2>9, <2>10, <2>11, <2>12 DEF IInv
<1>3. CASE /\ app = "starting" /\ prev.rec # run /\ app' = "up" /\ parked' = 0
           /\ live' = [g \in Files |-> Migrated(g)] /\ store' = Vetted /\ avail' = store'.avail
           /\ skipped' = store.skipped
           /\ state' = (IF store'.ready # 0 THEN "ready" ELSE IF store'.avail # 0 THEN "available" ELSE "idle")
           /\ cache' = cache \cap {Vetted.avail} /\ pending' = 0 /\ busy' = FALSE
           /\ UNCHANGED <<mode, exe, run, attempts, worker, spec, todo, prev, staging, noted,
               journal, kept, latest, crashes>>
  <2>1. /\ live' \in [Files -> Copies]
        /\ \A g \in Files : live'[g].schema = Schema[g][run] /\ live'[g].gen = live[g].gen
    BY <1>t, <1>3, MigratedAre DEF AppInv
  <2>2. store' \in Stores /\ (store'.avail # 0 => run < store'.avail)
        /\ (store'.ready # 0 => store'.avail # 0) /\ cache' \subseteq Versions
    BY <1>t, <1>3, VettedIs DEF Types
  <2>3. Types'
    BY <1>t, <1>3, <2>1, <2>2, Values DEF Types, Apps, States, Stores
  <2>4. AppInv'
    BY <1>t, <1>3 DEF AppInv
  <2>5. OfferInv'
    BY <1>t, <1>3, <2>2 DEF OfferInv
  <2>6. WorkInv'
    BY <1>t, <1>3 DEF WorkInv, Updates, Rolls, Updating, Rolling, AppInv
  <2>7. SnapInv'
    BY <1>t, <1>3, Values DEF SnapInv, Program, AppInv
  <2>8. StageInv'
    BY <1>t, <1>3, Values DEF StageInv, Updates, Updating, Rolling, AppInv, SnapInv, Program
  <2>9. RollInv'
    BY <1>t, <1>3, <2>1, Values DEF RollInv, Updating, Rolling, AppInv
  <2>10. DataInv'
    BY <1>t, <1>3, <2>1, Values, SchemasGrow
    DEF DataInv, Original, Undoing, Program, AppInv, RollInv, Versions, Types
  <2>11. Stays
    BY <1>t, <1>3, Values DEF Stays, Saved, Versions, AppInv, StageInv
  <2> QED BY <2>3, <2>4, <2>5, <2>6, <2>7, <2>8, <2>9, <2>10, <2>11 DEF IInv
<1> QED BY <1>1, <1>2, <1>3

\* A launcher that does not come up is down, and what it has migrated it can read.
LEMMA StartFailsKeeps ==
  ASSUME Calm, IInv, StartFails
  PROVE  IInv' /\ Stays
<1>t. /\ Types /\ AppInv /\ OfferInv /\ WorkInv /\ SnapInv /\ StageInv /\ RollInv /\ DataInv
  BY DEF IInv
<1>1. PICK loaded \in SUBSET Files :
        /\ app = "starting" /\ app' = "down" /\ run' = 0
        /\ live' = [f \in Files |-> IF f \in loaded THEN Migrated(f) ELSE live[f]]
        /\ UNCHANGED <<mode, exe, parked, attempts, state, avail, pending, skipped, busy, store,
            cache, worker, spec, todo, prev, staging, noted, journal, kept, latest, crashes>>
  BY <1>t DEF StartFails, launcher, service, offered, work, saved, undo
<1>r. run # 0 /\ run = exe /\ run \in Versions
  BY <1>t, <1>1 DEF AppInv, Types, Versions
<1>f. /\ live' \in [Files -> Copies]
      /\ \A f \in Files : /\ live'[f] \in Copies /\ live'[f].gen = live[f].gen
                         /\ live'[f].schema \in {live[f].schema, Schema[f][run]}
  BY <1>t, <1>1, <1>r, Values, MigratedAre DEF Types
<1>2. Types'
  BY <1>t, <1>1, <1>f, Values DEF Types, Apps, States
<1>3. AppInv'
  BY <1>t, <1>1 DEF AppInv
<1>4. OfferInv'
  BY <1>t, <1>1 DEF OfferInv
<1>5. WorkInv'
  BY <1>t, <1>1 DEF WorkInv, Updates, Rolls, Updating, Rolling
<1>6. SnapInv'
  BY <1>t, <1>1, Values DEF SnapInv, Program
<1>7. StageInv'
  BY <1>t, <1>1, Values DEF StageInv, Updates, Updating, Rolling
<1>8. RollInv'
  BY <1>t, <1>1, <1>f, Values DEF RollInv, Updating, Rolling, AppInv
<1>9. DataInv'
  BY <1>t, <1>1, <1>r, <1>f, Values, SchemasGrow
  DEF DataInv, Original, Undoing, Program, AppInv, RollInv
<1>10. Stays
  BY <1>t, <1>1, Values DEF Stays, Saved, Versions
<1> QED BY <1>2, <1>3, <1>4, <1>5, <1>6, <1>7, <1>8, <1>9, <1>10 DEF IInv

\* A start that succeeded is no longer counted.
LEMMA SucceededKeeps ==
  ASSUME Calm, IInv, Succeeded
  PROVE  IInv' /\ Stays
<1>t. /\ Types /\ AppInv /\ OfferInv /\ WorkInv /\ SnapInv /\ StageInv /\ RollInv /\ DataInv
  BY DEF IInv
<1>1. /\ app = "up" /\ attempts' = [of |-> 0, n |-> 0]
      /\ UNCHANGED <<mode, exe, parked, app, run, state, avail, pending, skipped, busy, store,
          cache, worker, spec, todo, prev, staging, noted, journal, kept, live, latest, crashes>>
  BY <1>t DEF Succeeded, launcher, service, offered, work, saved, undo, data
<1>2. Types'
  BY <1>t, <1>1, Values, CountedAre DEF Types, Apps, States
<1>3. AppInv'
  BY <1>t, <1>1 DEF AppInv
<1>4. OfferInv'
  BY <1>t, <1>1 DEF OfferInv
<1>5. WorkInv'
  BY <1>t, <1>1 DEF WorkInv, Updates, Rolls, Updating, Rolling
<1>6. SnapInv'
  BY <1>t, <1>1, Values DEF SnapInv, Program
<1>7. StageInv'
  BY <1>t, <1>1, Values DEF StageInv, Updates, Updating, Rolling
<1>8. RollInv'
  BY <1>t, <1>1, Values DEF RollInv, Updating, Rolling
<1>9. DataInv'
  BY <1>t, <1>1, Values DEF DataInv, Original, Undoing, Program
<1>10. Stays
  BY <1>t, <1>1, Values DEF Stays, Saved, Versions
<1> QED BY <1>2, <1>3, <1>4, <1>5, <1>6, <1>7, <1>8, <1>9, <1>10 DEF IInv

\* The service offers what is newer than what runs.
LEMMA CheckKeeps ==
  ASSUME Calm, IInv, Check
  PROVE  IInv' /\ Stays
<1>t. /\ Types /\ AppInv /\ OfferInv /\ WorkInv /\ SnapInv /\ StageInv /\ RollInv /\ DataInv
  BY DEF IInv
<1>1. \/ /\ app = "up" /\ ~busy /\ state = "ready"
         /\ store' = [avail |-> avail, ready |-> avail, skipped |-> skipped] /\ pending' = avail
         /\ UNCHANGED <<mode, exe, parked, app, run, attempts, state, avail, skipped, busy, cache,
             worker, spec, todo, prev, staging, noted, journal, kept, live, latest, crashes>>
      \/ \E m \in Versions :
            /\ app = "up" /\ ~busy /\ run < m
            /\ store' = [avail |-> m, ready |-> 0, skipped |-> skipped] /\ state' = "available"
            /\ avail' = m /\ pending' = m
            /\ UNCHANGED <<mode, exe, parked, app, run, attempts, skipped, busy, cache, worker,
                spec, todo, prev, staging, noted, journal, kept, live, latest, crashes>>
      \/ /\ app = "up" /\ ~busy /\ store' = [avail |-> 0, ready |-> 0, skipped |-> skipped]
         /\ state' = "idle" /\ avail' = 0 /\ pending' = 0
         /\ UNCHANGED <<mode, exe, parked, app, run, attempts, skipped, busy, cache, worker, spec,
             todo, prev, staging, noted, journal, kept, live, latest, crashes>>
  BY <1>t, Values DEF Check, Free, Up, launcher, process, saved, undo, data, work, Newer
<1>2. CASE /\ app = "up" /\ ~busy /\ state = "ready"
           /\ store' = [avail |-> avail, ready |-> avail, skipped |-> skipped]
           /\ pending' = avail
           /\ UNCHANGED <<mode, exe, parked, app, run, attempts, state, avail, skipped, busy,
               cache, worker, spec, todo, prev, staging, noted, journal, kept, live, latest,
               crashes>>
  <2>1. store' \in Stores
    BY <1>t, <1>2, Values DEF Types, Stores, Versions
  <2>2. Types'
    BY <1>t, <1>2, <2>1, Values DEF Types, Apps, States, Versions
  <2>3. AppInv'
    BY <1>t, <1>2 DEF AppInv
  <2>4. OfferInv'
    BY <1>t, <1>2, Values DEF OfferInv, Versions
  <2>5. WorkInv'
    BY <1>t, <1>2 DEF WorkInv, Updates, Rolls, Updating, Rolling
  <2>6. SnapInv'
    BY <1>t, <1>2, Values DEF SnapInv, Program
  <2>7. StageInv'
    BY <1>t, <1>2, Values DEF StageInv, Updates, Updating, Rolling
  <2>8. RollInv'
    BY <1>t, <1>2, Values DEF RollInv, Updating, Rolling
  <2>9. DataInv'
    BY <1>t, <1>2, Values DEF DataInv, Original, Undoing, Program
  <2>10. Stays
    BY <1>t, <1>2, Values DEF Stays, Saved, Versions
  <2> QED BY <2>2, <2>3, <2>4, <2>5, <2>6, <2>7, <2>8, <2>9, <2>10 DEF IInv
<1>3. ASSUME NEW m \in Versions,
           /\ app = "up" /\ ~busy /\ run < m
           /\ store' = [avail |-> m, ready |-> 0, skipped |-> skipped] /\ state' = "available"
           /\ avail' = m /\ pending' = m
           /\ UNCHANGED <<mode, exe, parked, app, run, attempts, skipped, busy, cache, worker,
               spec, todo, prev, staging, noted, journal, kept, live, latest, crashes>>
    PROVE  IInv' /\ Stays
  <2>1. store' \in Stores
    BY <1>t, <1>3, Values DEF Types, Stores, Versions
  <2>2. Types'
    BY <1>t, <1>3, <2>1, Values DEF Types, Apps, States, Versions
  <2>3. AppInv'
    BY <1>t, <1>3 DEF AppInv
  <2>4. OfferInv'
    BY <1>t, <1>3, Values DEF OfferInv, Versions
  <2>5. WorkInv'
    BY <1>t, <1>3 DEF WorkInv, Updates, Rolls, Updating, Rolling
  <2>6. SnapInv'
    BY <1>t, <1>3, Values DEF SnapInv, Program
  <2>7. StageInv'
    BY <1>t, <1>3, Values DEF StageInv, Updates, Updating, Rolling
  <2>8. RollInv'
    BY <1>t, <1>3, Values DEF RollInv, Updating, Rolling
  <2>9. DataInv'
    BY <1>t, <1>3, Values DEF DataInv, Original, Undoing, Program
  <2>10. Stays
    BY <1>t, <1>3, Values DEF Stays, Saved, Versions
  <2> QED BY <2>2, <2>3, <2>4, <2>5, <2>6, <2>7, <2>8, <2>9, <2>10 DEF IInv
<1>4. CASE /\ app = "up" /\ ~busy /\ store' = [avail |-> 0, ready |-> 0, skipped |-> skipped]
           /\ state' = "idle" /\ avail' = 0 /\ pending' = 0
           /\ UNCHANGED <<mode, exe, parked, app, run, attempts, skipped, busy, cache, worker,
               spec, todo, prev, staging, noted, journal, kept, live, latest, crashes>>
  <2>1. store' \in Stores
    BY <1>t, <1>4, Values DEF Types, Stores, Versions
  <2>2. Types'
    BY <1>t, <1>4, <2>1, Values DEF Types, Apps, States, Versions
  <2>3. AppInv'
    BY <1>t, <1>4 DEF AppInv
  <2>4. OfferInv'
    BY <1>t, <1>4, Values DEF OfferInv, Versions
  <2>5. WorkInv'
    BY <1>t, <1>4 DEF WorkInv, Updates, Rolls, Updating, Rolling
  <2>6. SnapInv'
    BY <1>t, <1>4, Values DEF SnapInv, Program
  <2>7. StageInv'
    BY <1>t, <1>4, Values DEF StageInv, Updates, Updating, Rolling
  <2>8. RollInv'
    BY <1>t, <1>4, Values DEF RollInv, Updating, Rolling
  <2>9. DataInv'
    BY <1>t, <1>4, Values DEF DataInv, Original, Undoing, Program
  <2>10. Stays
    BY <1>t, <1>4, Values DEF Stays, Saved, Versions
  <2> QED BY <2>2, <2>3, <2>4, <2>5, <2>6, <2>7, <2>8, <2>9, <2>10 DEF IInv
<1> QED BY <1>1, <1>2, <1>3, <1>4

\* It downloads what is offered.
LEMMA DownloadKeeps ==
  ASSUME Calm, IInv, Download
  PROVE  IInv' /\ Stays
<1>t. /\ Types /\ AppInv /\ OfferInv /\ WorkInv /\ SnapInv /\ StageInv /\ RollInv /\ DataInv
  BY DEF IInv
<1>1. /\ app = "up" /\ ~busy /\ pending # 0 /\ state' = "downloading" /\ busy' = TRUE
      /\ UNCHANGED <<mode, exe, parked, app, run, attempts, avail, pending, skipped, store, cache,
          worker, spec, todo, prev, staging, noted, journal, kept, live, latest, crashes>>
  BY <1>t DEF Download, Free, Up, launcher, process, saved, undo, data, offered, work
<1>2. Types'
  BY <1>t, <1>1, Values DEF Types, Apps, States
<1>3. AppInv'
  BY <1>t, <1>1 DEF AppInv
<1>4. OfferInv'
  BY <1>t, <1>1 DEF OfferInv
<1>5. WorkInv'
  BY <1>t, <1>1 DEF WorkInv, Updates, Rolls, Updating, Rolling
<1>6. SnapInv'
  BY <1>t, <1>1, Values DEF SnapInv, Program
<1>7. StageInv'
  BY <1>t, <1>1, Values DEF StageInv, Updates, Updating, Rolling
<1>8. RollInv'
  BY <1>t, <1>1, Values DEF RollInv, Updating, Rolling
<1>9. DataInv'
  BY <1>t, <1>1, Values DEF DataInv, Original, Undoing, Program
<1>10. Stays
  BY <1>t, <1>1, Values DEF Stays, Saved, Versions
<1> QED BY <1>2, <1>3, <1>4, <1>5, <1>6, <1>7, <1>8, <1>9, <1>10 DEF IInv

\* The file is there, or the download fails.
LEMMA DownloadFileKeeps ==
  ASSUME Calm, IInv, DownloadFile
  PROVE  IInv' /\ Stays
<1>t. /\ Types /\ AppInv /\ OfferInv /\ WorkInv /\ SnapInv /\ StageInv /\ RollInv /\ DataInv
  BY DEF IInv
<1>1. \/ /\ app = "up" /\ state = "downloading" /\ cache' = cache \cup {pending}
         /\ UNCHANGED <<mode, exe, parked, app, run, attempts, state, avail, pending, skipped,
             busy, store, worker, spec, todo, prev, staging, noted, journal, kept, live, latest,
             crashes>>
      \/ /\ app = "up" /\ state = "downloading" /\ state' = "available" /\ busy' = FALSE
         /\ UNCHANGED <<mode, exe, parked, app, run, attempts, avail, pending, skipped, store,
             cache, worker, spec, todo, prev, staging, noted, journal, kept, live, latest, crashes>>
  BY <1>t DEF DownloadFile, Up, launcher, process, saved, undo, data, work
<1>2. CASE /\ app = "up" /\ state = "downloading" /\ cache' = cache \cup {pending}
           /\ UNCHANGED <<mode, exe, parked, app, run, attempts, state, avail, pending, skipped,
               busy, store, worker, spec, todo, prev, staging, noted, journal, kept, live, latest,
               crashes>>
  <2>1. Types'
    BY <1>t, <1>2, Values DEF Types, Apps, States, OfferInv, Versions
  <2>2. AppInv'
    BY <1>t, <1>2 DEF AppInv
  <2>3. OfferInv'
    BY <1>t, <1>2 DEF OfferInv
  <2>4. WorkInv'
    BY <1>t, <1>2 DEF WorkInv, Updates, Rolls, Updating, Rolling
  <2>5. SnapInv'
    BY <1>t, <1>2, Values DEF SnapInv, Program
  <2>6. StageInv'
    BY <1>t, <1>2, Values DEF StageInv, Updates, Updating, Rolling
  <2>7. RollInv'
    BY <1>t, <1>2, Values DEF RollInv, Updating, Rolling
  <2>8. DataInv'
    BY <1>t, <1>2, Values DEF DataInv, Original, Undoing, Program
  <2>9. Stays
    BY <1>t, <1>2, Values DEF Stays, Saved, Versions
  <2> QED BY <2>1, <2>2, <2>3, <2>4, <2>5, <2>6, <2>7, <2>8, <2>9 DEF IInv
<1>3. CASE /\ app = "up" /\ state = "downloading" /\ state' = "available" /\ busy' = FALSE
           /\ UNCHANGED <<mode, exe, parked, app, run, attempts, avail, pending, skipped, store,
               cache, worker, spec, todo, prev, staging, noted, journal, kept, live, latest,
               crashes>>
  <2>1. Types'
    BY <1>t, <1>3, Values DEF Types, Apps, States
  <2>2. AppInv'
    BY <1>t, <1>3 DEF AppInv
  <2>3. OfferInv'
    BY <1>t, <1>3 DEF OfferInv
  <2>4. WorkInv'
    BY <1>t, <1>3 DEF WorkInv, Updates, Rolls, Updating, Rolling
  <2>5. SnapInv'
    BY <1>t, <1>3, Values DEF SnapInv, Program
  <2>6. StageInv'
    BY <1>t, <1>3, Values DEF StageInv, Updates, Updating, Rolling
  <2>7. RollInv'
    BY <1>t, <1>3, Values DEF RollInv, Updating, Rolling
  <2>8. DataInv'
    BY <1>t, <1>3, Values DEF DataInv, Original, Undoing, Program
  <2>9. Stays
    BY <1>t, <1>3, Values DEF Stays, Saved, Versions
  <2> QED BY <2>1, <2>2, <2>3, <2>4, <2>5, <2>6, <2>7, <2>8, <2>9 DEF IInv
<1> QED BY <1>1, <1>2, <1>3

\* It is ready once that is written down.
LEMMA DownloadSaveKeeps ==
  ASSUME Calm, IInv, DownloadSave
  PROVE  IInv' /\ Stays
<1>t. /\ Types /\ AppInv /\ OfferInv /\ WorkInv /\ SnapInv /\ StageInv /\ RollInv /\ DataInv
  BY DEF IInv
<1>1. \/ /\ app = "up" /\ state = "downloading"
         /\ store' = [avail |-> avail, ready |-> avail, skipped |-> skipped] /\ state' = "ready"
         /\ busy' = FALSE
         /\ UNCHANGED <<mode, exe, parked, app, run, attempts, avail, pending, skipped, cache,
             worker, spec, todo, prev, staging, noted, journal, kept, live, latest, crashes>>
      \/ /\ app = "up" /\ state = "downloading" /\ state' = "available" /\ busy' = FALSE
         /\ UNCHANGED <<mode, exe, parked, app, run, attempts, avail, pending, skipped, store,
             cache, worker, spec, todo, prev, staging, noted, journal, kept, live, latest, crashes>>
  BY <1>t DEF DownloadSave, Up, launcher, process, saved, undo, data, work
<1>2. CASE /\ app = "up" /\ state = "downloading"
           /\ store' = [avail |-> avail, ready |-> avail, skipped |-> skipped]
           /\ state' = "ready" /\ busy' = FALSE
           /\ UNCHANGED <<mode, exe, parked, app, run, attempts, avail, pending, skipped, cache,
               worker, spec, todo, prev, staging, noted, journal, kept, live, latest, crashes>>
  <2>1. store' \in Stores
    BY <1>t, <1>2, Values DEF Types, Stores, Versions
  <2>2. Types'
    BY <1>t, <1>2, <2>1, Values DEF Types, Apps, States
  <2>3. AppInv'
    BY <1>t, <1>2 DEF AppInv
  <2>4. OfferInv'
    BY <1>t, <1>2 DEF OfferInv
  <2>5. WorkInv'
    BY <1>t, <1>2 DEF WorkInv, Updates, Rolls, Updating, Rolling
  <2>6. SnapInv'
    BY <1>t, <1>2, Values DEF SnapInv, Program
  <2>7. StageInv'
    BY <1>t, <1>2, Values DEF StageInv, Updates, Updating, Rolling
  <2>8. RollInv'
    BY <1>t, <1>2, Values DEF RollInv, Updating, Rolling
  <2>9. DataInv'
    BY <1>t, <1>2, Values DEF DataInv, Original, Undoing, Program
  <2>10. Stays
    BY <1>t, <1>2, Values DEF Stays, Saved, Versions
  <2> QED BY <2>2, <2>3, <2>4, <2>5, <2>6, <2>7, <2>8, <2>9, <2>10 DEF IInv
<1>3. CASE /\ app = "up" /\ state = "downloading" /\ state' = "available" /\ busy' = FALSE
           /\ UNCHANGED <<mode, exe, parked, app, run, attempts, avail, pending, skipped, store,
               cache, worker, spec, todo, prev, staging, noted, journal, kept, live, latest,
               crashes>>
  <2>1. Types'
    BY <1>t, <1>3, Values DEF Types, Apps, States
  <2>2. AppInv'
    BY <1>t, <1>3 DEF AppInv
  <2>3. OfferInv'
    BY <1>t, <1>3 DEF OfferInv
  <2>4. WorkInv'
    BY <1>t, <1>3 DEF WorkInv, Updates, Rolls, Updating, Rolling
  <2>5. SnapInv'
    BY <1>t, <1>3, Values DEF SnapInv, Program
  <2>6. StageInv'
    BY <1>t, <1>3, Values DEF StageInv, Updates, Updating, Rolling
  <2>7. RollInv'
    BY <1>t, <1>3, Values DEF RollInv, Updating, Rolling
  <2>8. DataInv'
    BY <1>t, <1>3, Values DEF DataInv, Original, Undoing, Program
  <2>9. Stays
    BY <1>t, <1>3, Values DEF Stays, Saved, Versions
  <2> QED BY <2>1, <2>2, <2>3, <2>4, <2>5, <2>6, <2>7, <2>8, <2>9 DEF IInv
<1> QED BY <1>1, <1>2, <1>3

\* The worker is told to go to what is ready.
LEMMA ApplyKeeps ==
  ASSUME Calm, IInv, Apply
  PROVE  IInv' /\ Stays
<1>t. /\ Types /\ AppInv /\ OfferInv /\ WorkInv /\ SnapInv /\ StageInv /\ RollInv /\ DataInv
  BY DEF IInv
<1>1. /\ app = "up" /\ state = "ready" /\ worker = "none" /\ state' = "applying" /\ busy' = TRUE
      /\ worker' = "wait" /\ spec' = [kind |-> "update", from |-> run, to |-> avail]
      /\ todo' = {}
      /\ UNCHANGED <<mode, exe, parked, app, run, attempts, avail, pending, skipped, store, cache,
          prev, staging, noted, journal, kept, live, latest, crashes>>
  BY <1>t DEF Apply, Free, Up, launcher, process, saved, undo, data, Idle, offered
<1>2. spec' \in Specs /\ spec'.kind = "update" /\ spec'.from = run /\ spec'.to = avail
  BY <1>t, <1>1, Values DEF Types, Specs, Whole, CanRollBack
<1>3. Types'
  BY <1>t, <1>1, <1>2, Values DEF Types, Apps, States
<1>4. AppInv'
  BY <1>t, <1>1 DEF AppInv
<1>5. OfferInv'
  BY <1>t, <1>1 DEF OfferInv
<1>6. WorkInv'
  BY <1>t, <1>1, <1>2, Values DEF WorkInv, Updates, Rolls, Updating, Rolling, AppInv, OfferInv
<1>7. SnapInv'
  BY <1>t, <1>1, Values DEF SnapInv, Program
<1>8. StageInv'
  BY <1>t, <1>1, <1>2, Values DEF StageInv, Updates, Updating, Rolling, AppInv
<1>9. RollInv'
  BY <1>t, <1>1, <1>2, Values DEF RollInv, Updating, Rolling, AppInv
<1>10. DataInv'
  BY <1>t, <1>1, Values DEF DataInv, Original, Undoing, Program
<1>11. Stays
  BY <1>t, <1>1, Values DEF Stays, Saved, Versions
<1> QED BY <1>3, <1>4, <1>5, <1>6, <1>7, <1>8, <1>9, <1>10, <1>11 DEF IInv

\* An update that is ready is dismissed.
LEMMA DismissKeeps ==
  ASSUME Calm, IInv, Dismiss
  PROVE  IInv' /\ Stays
<1>t. /\ Types /\ AppInv /\ OfferInv /\ WorkInv /\ SnapInv /\ StageInv /\ RollInv /\ DataInv
  BY DEF IInv
<1>1. /\ app = "up" /\ ~busy /\ state = "ready"
      /\ store' = [avail |-> avail, ready |-> 0, skipped |-> skipped] /\ state' = "available"
      /\ cache' \subseteq cache
      /\ UNCHANGED <<mode, exe, parked, app, run, attempts, avail, pending, skipped, busy, worker,
          spec, todo, prev, staging, noted, journal, kept, live, latest, crashes>>
  BY <1>t DEF Dismiss, Free, Up, launcher, process, saved, undo, data, work
<1>2. store' \in Stores
  BY <1>t, <1>1, Values DEF Types, Stores, Versions
<1>3. Types'
  BY <1>t, <1>1, <1>2, Values DEF Types, Apps, States
<1>4. AppInv'
  BY <1>t, <1>1 DEF AppInv
<1>5. OfferInv'
  BY <1>t, <1>1 DEF OfferInv
<1>6. WorkInv'
  BY <1>t, <1>1 DEF WorkInv, Updates, Rolls, Updating, Rolling
<1>7. SnapInv'
  BY <1>t, <1>1, Values DEF SnapInv, Program
<1>8. StageInv'
  BY <1>t, <1>1, Values DEF StageInv, Updates, Updating, Rolling
<1>9. RollInv'
  BY <1>t, <1>1, Values DEF RollInv, Updating, Rolling
<1>10. DataInv'
  BY <1>t, <1>1, Values DEF DataInv, Original, Undoing, Program
<1>11. Stays
  BY <1>t, <1>1, Values DEF Stays, Saved, Versions
<1> QED BY <1>3, <1>4, <1>5, <1>6, <1>7, <1>8, <1>9, <1>10, <1>11 DEF IInv

\* The worker is told to go back to what is saved.
LEMMA RollBackKeeps ==
  ASSUME Calm, IInv, RollBack
  PROVE  IInv' /\ Stays
<1>t. /\ Types /\ AppInv /\ OfferInv /\ WorkInv /\ SnapInv /\ StageInv /\ RollInv /\ DataInv
  BY DEF IInv
<1>1. /\ app = "up" /\ CanRollBack /\ worker = "none" /\ busy' = TRUE /\ worker' = "wait"
      /\ spec' = [kind |-> "rollback", from |-> run, to |-> prev.rec] /\ todo' = {}
      /\ UNCHANGED <<mode, exe, parked, app, run, attempts, state, avail, pending, skipped, store,
          cache, prev, staging, noted, journal, kept, live, latest, crashes>>
  BY <1>t DEF RollBack, Free, Up, launcher, process, saved, undo, data, Idle, RollbackSpec, offered
<1>2. spec' \in Specs /\ spec'.kind = "rollback" /\ spec'.from = run /\ spec'.to = prev.rec
  BY <1>t, <1>1, Values DEF Types, Specs, Whole, CanRollBack
<1>3. Types'
  BY <1>t, <1>1, <1>2, Values DEF Types, Apps, States
<1>4. AppInv'
  BY <1>t, <1>1 DEF AppInv
<1>5. OfferInv'
  BY <1>t, <1>1 DEF OfferInv
<1>6. WorkInv'
  BY <1>t, <1>1, <1>2, Values
  DEF WorkInv, Updates, Rolls, Updating, Rolling, AppInv, CanRollBack, Whole
<1>7. SnapInv'
  BY <1>t, <1>1, Values DEF SnapInv, Program
<1>8. StageInv'
  BY <1>t, <1>1, <1>2, Values DEF StageInv, Updates, Updating, Rolling, AppInv
<1>9. RollInv'
  BY <1>t, <1>1, <1>2, Values DEF RollInv, Updating, Rolling, AppInv
<1>10. DataInv'
  BY <1>t, <1>1, Values DEF DataInv, Original, Undoing, Program
<1>11. Stays
  BY <1>t, <1>1, Values DEF Stays, Saved, Versions
<1> QED BY <1>3, <1>4, <1>5, <1>6, <1>7, <1>8, <1>9, <1>10, <1>11 DEF IInv

\* The launcher did not quit for the worker, and is no longer busy.
LEMMA RestartMissedKeeps ==
  ASSUME Calm, IInv, RestartMissed
  PROVE  IInv' /\ Stays
<1>t. /\ Types /\ AppInv /\ OfferInv /\ WorkInv /\ SnapInv /\ StageInv /\ RollInv /\ DataInv
  BY DEF IInv
<1>1. /\ app = "up" /\ busy /\ busy' = FALSE
      /\ state' = (IF state = "applying" THEN "ready" ELSE state)
      /\ UNCHANGED <<mode, exe, parked, app, run, attempts, avail, pending, skipped, store, cache,
          worker, spec, todo, prev, staging, noted, journal, kept, live, latest, crashes>>
  BY <1>t DEF RestartMissed, Up, launcher, process, saved, undo, data, Idle, offered, work
<1>2. Types'
  BY <1>t, <1>1, Values DEF Types, Apps, States
<1>3. AppInv'
  BY <1>t, <1>1 DEF AppInv
<1>4. OfferInv'
  BY <1>t, <1>1 DEF OfferInv
<1>5. WorkInv'
  BY <1>t, <1>1 DEF WorkInv, Updates, Rolls, Updating, Rolling
<1>6. SnapInv'
  BY <1>t, <1>1, Values DEF SnapInv, Program
<1>7. StageInv'
  BY <1>t, <1>1, Values DEF StageInv, Updates, Updating, Rolling
<1>8. RollInv'
  BY <1>t, <1>1, Values DEF RollInv, Updating, Rolling
<1>9. DataInv'
  BY <1>t, <1>1, Values DEF DataInv, Original, Undoing, Program
<1>10. Stays
  BY <1>t, <1>1, Values DEF Stays, Saved, Versions
<1> QED BY <1>2, <1>3, <1>4, <1>5, <1>6, <1>7, <1>8, <1>9, <1>10 DEF IInv

\* A service writes a state file.
LEMMA WriteKeeps ==
  ASSUME Calm, IInv, NEW f \in Files, Write(f)
  PROVE  IInv' /\ Stays
<1>t. /\ Types /\ AppInv /\ OfferInv /\ WorkInv /\ SnapInv /\ StageInv /\ RollInv /\ DataInv
  BY DEF IInv
<1>1. /\ app = "up" /\ latest[f] < MaxWrites /\ live' = [live EXCEPT ![f].gen = latest[f] + 1]
      /\ latest' = [latest EXCEPT ![f] = @ + 1]
      /\ UNCHANGED <<mode, exe, parked, app, run, attempts, state, avail, pending, skipped, busy,
          store, cache, worker, spec, todo, prev, staging, noted, journal, kept, crashes>>
  BY <1>t DEF Write, launcher, process, service, offered, work, saved, undo
<1>2. /\ live' \in [Files -> Copies] /\ live'[f].schema = live[f].schema
      /\ live'[f].gen = latest[f] + 1 /\ \A g \in Files \ {f} : live'[g] = live[g]
  BY <1>t, <1>1, WriteIs
<1>3. /\ latest' \in [Files -> 0..MaxWrites] /\ latest'[f] = latest[f] + 1
      /\ \A g \in Files \ {f} : latest'[g] = latest[g]
  BY <1>t, <1>1, SelfUpdateConstants DEF Types
<1>4. Types'
  BY <1>t, <1>1, <1>2, <1>3, Values DEF Types, Apps, States
<1>5. AppInv'
  BY <1>t, <1>1 DEF AppInv
<1>6. OfferInv'
  BY <1>t, <1>1 DEF OfferInv
<1>7. WorkInv'
  BY <1>t, <1>1 DEF WorkInv, Updates, Rolls, Updating, Rolling
<1>8. SnapInv'
  BY <1>t, <1>1, Values DEF SnapInv, Program
<1>9. StageInv'
  BY <1>t, <1>1, Values DEF StageInv, Updates, Updating, Rolling
<1>10. RollInv'
  BY <1>t, <1>1, <1>2, Values DEF RollInv, Updating, Rolling, AppInv
<1>11. DataInv'
  BY <1>t, <1>1, <1>2, <1>3, Values DEF DataInv, Original, Undoing, Program, RollInv
<1>12. Stays
  BY <1>t, <1>1, Values DEF Stays, Saved, Versions
<1> QED BY <1>4, <1>5, <1>6, <1>7, <1>8, <1>9, <1>10, <1>11, <1>12 DEF IInv

\* The launcher is closed.
LEMMA QuitKeeps ==
  ASSUME Calm, IInv, Quit
  PROVE  IInv' /\ Stays
<1>t. /\ Types /\ AppInv /\ OfferInv /\ WorkInv /\ SnapInv /\ StageInv /\ RollInv /\ DataInv
  BY DEF IInv
<1>1. /\ app = "up" /\ app' = "down" /\ run' = 0 /\ state' = "idle" /\ avail' = 0 /\ pending' = 0
      /\ skipped' = 0 /\ busy' = FALSE
      /\ UNCHANGED <<mode, exe, parked, attempts, store, cache, worker, spec, todo, prev, staging,
          noted, journal, kept, live, latest, crashes>>
  BY <1>t DEF Quit, Stopped, launcher, offered, work, saved, undo, data
<1>2. Types'
  BY <1>t, <1>1, Values DEF Types, Apps, States
<1>3. AppInv'
  BY <1>t, <1>1 DEF AppInv
<1>4. OfferInv'
  BY <1>t, <1>1 DEF OfferInv
<1>5. WorkInv'
  BY <1>t, <1>1 DEF WorkInv, Updates, Rolls, Updating, Rolling
<1>6. SnapInv'
  BY <1>t, <1>1, Values DEF SnapInv, Program
<1>7. StageInv'
  BY <1>t, <1>1, Values DEF StageInv, Updates, Updating, Rolling
<1>8. RollInv'
  BY <1>t, <1>1, Values DEF RollInv, Updating, Rolling, AppInv
<1>9. DataInv'
  BY <1>t, <1>1, Values DEF DataInv, Original, Undoing, Program
<1>10. Stays
  BY <1>t, <1>1, Values DEF Stays, Saved, Versions
<1> QED BY <1>2, <1>3, <1>4, <1>5, <1>6, <1>7, <1>8, <1>9, <1>10 DEF IInv

\* The worker goes on when the launcher is down, and gives up when it is not.
LEMMA WaitedKeeps ==
  ASSUME Calm, IInv, Waited
  PROVE  IInv' /\ Stays
<1>t. /\ Types /\ AppInv /\ OfferInv /\ WorkInv /\ SnapInv /\ StageInv /\ RollInv /\ DataInv
  BY DEF IInv
<1>1. \/ /\ worker = "wait" /\ app = "down" /\ spec.kind = "update" /\ worker' = "snapshot"
         /\ UNCHANGED <<mode, exe, parked, app, run, attempts, state, avail, pending, skipped,
             busy, store, cache, spec, todo, prev, staging, noted, journal, kept, live, latest,
             crashes>>
      \/ /\ worker = "wait" /\ app = "down" /\ spec.kind # "update" /\ worker' = "plan"
         /\ UNCHANGED <<mode, exe, parked, app, run, attempts, state, avail, pending, skipped,
             busy, store, cache, spec, todo, prev, staging, noted, journal, kept, live, latest,
             crashes>>
      \/ /\ worker = "wait" /\ app # "down" /\ worker' = "none"
         /\ UNCHANGED <<mode, exe, parked, app, run, attempts, state, avail, pending, skipped,
             busy, store, cache, spec, todo, prev, staging, noted, journal, kept, live, latest,
             crashes>>
  BY <1>t DEF Waited, At, Work, Working, process, service, launcher, offered, saved, undo, data
<1>2. CASE /\ worker = "wait" /\ app = "down" /\ spec.kind = "update" /\ worker' = "snapshot"
           /\ UNCHANGED <<mode, exe, parked, app, run, attempts, state, avail, pending, skipped,
               busy, store, cache, spec, todo, prev, staging, noted, journal, kept, live, latest,
               crashes>>
  <2>1. Types'
    BY <1>t, <1>2, Values DEF Types, Apps, States
  <2>2. AppInv'
    BY <1>t, <1>2 DEF AppInv
  <2>3. OfferInv'
    BY <1>t, <1>2 DEF OfferInv
  <2>4. WorkInv'
    BY <1>t, <1>2 DEF WorkInv, Updates, Rolls, Updating, Rolling
  <2>5. SnapInv'
    BY <1>t, <1>2, Values DEF SnapInv, Program
  <2>6. StageInv'
    BY <1>t, <1>2, Values DEF StageInv, Updates, Updating, Rolling
  <2>7. RollInv'
    BY <1>t, <1>2, Values DEF RollInv, Updating, Rolling
  <2>8. DataInv'
    BY <1>t, <1>2, Values DEF DataInv, Original, Undoing, Program
  <2>9. Stays
    BY <1>t, <1>2, Values DEF Stays, Saved, Versions
  <2> QED BY <2>1, <2>2, <2>3, <2>4, <2>5, <2>6, <2>7, <2>8, <2>9 DEF IInv
<1>3. CASE /\ worker = "wait" /\ app = "down" /\ spec.kind # "update" /\ worker' = "plan"
           /\ UNCHANGED <<mode, exe, parked, app, run, attempts, state, avail, pending, skipped,
               busy, store, cache, spec, todo, prev, staging, noted, journal, kept, live, latest,
               crashes>>
  <2>1. Types'
    BY <1>t, <1>3, Values DEF Types, Apps, States
  <2>2. AppInv'
    BY <1>t, <1>3 DEF AppInv
  <2>3. OfferInv'
    BY <1>t, <1>3 DEF OfferInv
  <2>4. WorkInv'
    BY <1>t, <1>3 DEF WorkInv, Updates, Rolls, Updating, Rolling
  <2>5. SnapInv'
    BY <1>t, <1>3, Values DEF SnapInv, Program
  <2>6. StageInv'
    BY <1>t, <1>3, Values DEF StageInv, Updates, Updating, Rolling
  <2>7. RollInv'
    BY <1>t, <1>3, Values DEF RollInv, Updating, Rolling
  <2>8. DataInv'
    BY <1>t, <1>3, Values DEF DataInv, Original, Undoing, Program
  <2>9. Stays
    BY <1>t, <1>3, Values DEF Stays, Saved, Versions
  <2> QED BY <2>1, <2>2, <2>3, <2>4, <2>5, <2>6, <2>7, <2>8, <2>9 DEF IInv
<1>4. CASE /\ worker = "wait" /\ app # "down" /\ worker' = "none"
           /\ UNCHANGED <<mode, exe, parked, app, run, attempts, state, avail, pending, skipped,
               busy, store, cache, spec, todo, prev, staging, noted, journal, kept, live, latest,
               crashes>>
  <2>1. Types'
    BY <1>t, <1>4, Values DEF Types, Apps, States
  <2>2. AppInv'
    BY <1>t, <1>4 DEF AppInv
  <2>3. OfferInv'
    BY <1>t, <1>4 DEF OfferInv
  <2>4. WorkInv'
    BY <1>t, <1>4 DEF WorkInv, Updates, Rolls, Updating, Rolling
  <2>5. SnapInv'
    BY <1>t, <1>4, Values DEF SnapInv, Program
  <2>6. StageInv'
    BY <1>t, <1>4, Values DEF StageInv, Updates, Updating, Rolling
  <2>7. RollInv'
    BY <1>t, <1>4, Values DEF RollInv, Updating, Rolling
  <2>8. DataInv'
    BY <1>t, <1>4, Values DEF DataInv, Original, Undoing, Program
  <2>9. Stays
    BY <1>t, <1>4, Values DEF Stays, Saved, Versions
  <2> QED BY <2>1, <2>2, <2>3, <2>4, <2>5, <2>6, <2>7, <2>8, <2>9 DEF IInv
<1> QED BY <1>1, <1>2, <1>3, <1>4

\* The state files are copied, or not.
LEMMA SnapshotKeeps ==
  ASSUME Calm, IInv, Snapshot
  PROVE  IInv' /\ Stays
<1>t. /\ Types /\ AppInv /\ OfferInv /\ WorkInv /\ SnapInv /\ StageInv /\ RollInv /\ DataInv
  BY DEF IInv
<1>1. \/ /\ worker = "snapshot" /\ worker' = "record"
         /\ staging' = [rec |-> 0, dir |-> [of |-> spec.from, files |-> live]]
         /\ UNCHANGED <<mode, exe, parked, app, run, attempts, state, avail, pending, skipped,
             busy, store, cache, spec, todo, prev, noted, journal, kept, live, latest, crashes>>
      \/ /\ worker = "snapshot" /\ worker' = "apply" /\ staging' = NoSnapshot
         /\ spec' = [spec EXCEPT !.kind = "bare"]
         /\ UNCHANGED <<mode, exe, parked, app, run, attempts, state, avail, pending, skipped,
             busy, store, cache, todo, prev, noted, journal, kept, live, latest, crashes>>
  BY <1>t DEF Snapshot, SettleFails, Calm, Bare, At, Work, Working, process, service, launcher, offered, undo, data
<1>2. CASE /\ worker = "snapshot" /\ worker' = "record"
           /\ staging' = [rec |-> 0, dir |-> [of |-> spec.from, files |-> live]]
           /\ UNCHANGED <<mode, exe, parked, app, run, attempts, state, avail, pending, skipped,
               busy, store, cache, spec, todo, prev, noted, journal, kept, live, latest, crashes>>
  <2>1. /\ staging' \in Snapshots /\ staging'.rec = 0 /\ spec.from # 0
        /\ staging'.dir.of = spec.from /\ staging'.dir.files = live
    BY <1>t, <1>2, Values, SnapshotsAre DEF Types, WorkInv, Dirs
  <2>2. Types'
    BY <1>t, <1>2, <2>1, Values DEF Types, Apps, States
  <2>3. AppInv'
    BY <1>t, <1>2 DEF AppInv
  <2>4. OfferInv'
    BY <1>t, <1>2 DEF OfferInv
  <2>5. WorkInv'
    BY <1>t, <1>2 DEF WorkInv, Updates, Rolls, Updating, Rolling
  <2>6. SnapInv'
    BY <1>t, <1>2, <2>1, Values
    DEF SnapInv, Program, Sound, DataInv, Original, Undoing, RollInv, WorkInv, Updating
  <2>7. StageInv'
    BY <1>t, <1>2, <2>1, Values DEF StageInv, Updates, Updating, Rolling, AppInv
  <2>8. RollInv'
    BY <1>t, <1>2, Values DEF RollInv, Updating, Rolling
  <2>9. DataInv'
    BY <1>t, <1>2, Values DEF DataInv, Original, Undoing, Program
  <2>10. Stays
    BY <1>t, <1>2, <2>1, Values DEF Stays, Saved, Versions, StageInv, Rolling
  <2> QED BY <2>2, <2>3, <2>4, <2>5, <2>6, <2>7, <2>8, <2>9, <2>10 DEF IInv
<1>3. CASE /\ worker = "snapshot" /\ worker' = "apply" /\ staging' = NoSnapshot
           /\ spec' = [spec EXCEPT !.kind = "bare"]
           /\ UNCHANGED <<mode, exe, parked, app, run, attempts, state, avail, pending, skipped,
               busy, store, cache, todo, prev, noted, journal, kept, live, latest, crashes>>
  <2>1. staging' \in Snapshots /\ staging'.rec = 0 /\ staging'.dir = NoDir
    BY <1>3, Values
  <2>s. spec' \in Specs /\ spec'.from = spec.from /\ spec'.to = spec.to
    BY <1>t, <1>3 DEF Types, Specs
  <2>2. Types'
    BY <1>t, <1>3, <2>1, <2>s, Values DEF Types, Apps, States
  <2>3. AppInv'
    BY <1>t, <1>3 DEF AppInv
  <2>4. OfferInv'
    BY <1>t, <1>3 DEF OfferInv
  <2>5. WorkInv'
    BY <1>t, <1>3, <2>s DEF WorkInv, Updates, Rolls, Updating, Rolling
  <2>6. SnapInv'
    BY <1>t, <1>3, <2>1, <2>s, Values DEF SnapInv, Program
  <2>7. StageInv'
    BY <1>t, <1>3, <2>1, <2>s, Values DEF StageInv, Updates, Updating, Rolling, AppInv
  <2>8. RollInv'
    BY <1>t, <1>3, <2>s, Values DEF RollInv, Updating, Rolling
  <2>9. DataInv'
    BY <1>t, <1>3, Values DEF DataInv, Original, Undoing, Program
  <2>10. Stays
    BY <1>t, <1>3, <2>1, <2>s, Values DEF Stays, Saved, Versions, StageInv, Rolling
  <2> QED BY <2>2, <2>3, <2>4, <2>5, <2>6, <2>7, <2>8, <2>9, <2>10 DEF IInv
<1> QED BY <1>1, <1>2, <1>3

\* The copies are a snapshot once the record says so.
LEMMA RecordKeeps ==
  ASSUME Calm, IInv, Record
  PROVE  IInv' /\ Stays
<1>t. /\ Types /\ AppInv /\ OfferInv /\ WorkInv /\ SnapInv /\ StageInv /\ RollInv /\ DataInv
  BY DEF IInv
<1>1. \/ /\ worker = "record" /\ worker' = "apply"
         /\ staging' = [staging EXCEPT !.rec = spec.from]
         /\ UNCHANGED <<mode, exe, parked, app, run, attempts, state, avail, pending, skipped,
             busy, store, cache, spec, todo, prev, noted, journal, kept, live, latest, crashes>>
      \/ /\ worker = "record" /\ worker' = "apply" /\ staging' = NoSnapshot
         /\ spec' = [spec EXCEPT !.kind = "bare"]
         /\ UNCHANGED <<mode, exe, parked, app, run, attempts, state, avail, pending, skipped,
             busy, store, cache, todo, prev, noted, journal, kept, live, latest, crashes>>
  BY <1>t DEF Record, SettleFails, Calm, Bare, At, Work, Working, process, service, launcher, offered, undo, data
<1>2. CASE /\ worker = "record" /\ worker' = "apply"
           /\ staging' = [staging EXCEPT !.rec = spec.from]
           /\ UNCHANGED <<mode, exe, parked, app, run, attempts, state, avail, pending, skipped,
               busy, store, cache, spec, todo, prev, noted, journal, kept, live, latest, crashes>>
  <2>1. staging' \in Snapshots /\ staging'.rec = spec.from /\ staging'.dir = staging.dir
    BY <1>t, <1>2, Values, SnapshotsAre
  <2>2. Types'
    BY <1>t, <1>2, <2>1, Values DEF Types, Apps, States
  <2>3. AppInv'
    BY <1>t, <1>2 DEF AppInv
  <2>4. OfferInv'
    BY <1>t, <1>2 DEF OfferInv
  <2>5. WorkInv'
    BY <1>t, <1>2 DEF WorkInv, Updates, Rolls, Updating, Rolling
  <2>6. SnapInv'
    BY <1>t, <1>2, <2>1, Values DEF SnapInv, Program, WorkInv, StageInv, Updates, Updating
  <2>7. StageInv'
    BY <1>t, <1>2, <2>1, Values DEF StageInv, Updates, Updating, Rolling
  <2>8. RollInv'
    BY <1>t, <1>2, Values DEF RollInv, Updating, Rolling
  <2>9. DataInv'
    BY <1>t, <1>2, Values DEF DataInv, Original, Undoing, Program
  <2>10. Stays
    BY <1>t, <1>2, <2>1, Values DEF Stays, Saved, Versions, StageInv
  <2> QED BY <2>2, <2>3, <2>4, <2>5, <2>6, <2>7, <2>8, <2>9, <2>10 DEF IInv
<1>3. CASE /\ worker = "record" /\ worker' = "apply" /\ staging' = NoSnapshot
           /\ spec' = [spec EXCEPT !.kind = "bare"]
           /\ UNCHANGED <<mode, exe, parked, app, run, attempts, state, avail, pending, skipped,
               busy, store, cache, todo, prev, noted, journal, kept, live, latest, crashes>>
  <2>1. staging' \in Snapshots /\ staging'.rec = 0 /\ staging'.dir = NoDir
    BY <1>3, Values
  <2>s. spec' \in Specs /\ spec'.from = spec.from /\ spec'.to = spec.to
    BY <1>t, <1>3 DEF Types, Specs
  <2>2. Types'
    BY <1>t, <1>3, <2>1, <2>s, Values DEF Types, Apps, States
  <2>3. AppInv'
    BY <1>t, <1>3 DEF AppInv
  <2>4. OfferInv'
    BY <1>t, <1>3 DEF OfferInv
  <2>5. WorkInv'
    BY <1>t, <1>3, <2>s DEF WorkInv, Updates, Rolls, Updating, Rolling
  <2>6. SnapInv'
    BY <1>t, <1>3, <2>1, <2>s, Values DEF SnapInv, Program
  <2>7. StageInv'
    BY <1>t, <1>3, <2>1, <2>s, Values DEF StageInv, Updates, Updating, Rolling
  <2>8. RollInv'
    BY <1>t, <1>3, <2>s, Values DEF RollInv, Updating, Rolling
  <2>9. DataInv'
    BY <1>t, <1>3, Values DEF DataInv, Original, Undoing, Program
  <2>10. Stays
    BY <1>t, <1>3, <2>1, <2>s, Values DEF Stays, Saved, Versions, StageInv
  <2> QED BY <2>2, <2>3, <2>4, <2>5, <2>6, <2>7, <2>8, <2>9, <2>10 DEF IInv
<1> QED BY <1>1, <1>2, <1>3

\* The program is replaced, in one rename or by the first of two, or it fails.
LEMMA ReplaceKeeps ==
  ASSUME Calm, IInv, Replace
  PROVE  IInv' /\ Stays
<1>t. /\ Types /\ AppInv /\ OfferInv /\ WorkInv /\ SnapInv /\ StageInv /\ RollInv /\ DataInv
  BY DEF IInv
<1>1. \/ /\ worker = "apply" /\ parked' = exe /\ exe' = 0 /\ worker' = "parked"
         /\ UNCHANGED <<mode, app, run, attempts, state, avail, pending, skipped, busy, store,
             cache, spec, todo, prev, staging, noted, journal, kept, live, latest, crashes>>
      \/ /\ worker = "apply" /\ exe' = spec.to /\ worker' = "commit"
         /\ UNCHANGED <<mode, parked, app, run, attempts, state, avail, pending, skipped, busy,
             store, cache, spec, todo, prev, staging, noted, journal, kept, live, latest, crashes>>
      \/ /\ worker = "apply" /\ exe' = spec.to /\ worker' = "discard"
         /\ UNCHANGED <<mode, parked, app, run, attempts, state, avail, pending, skipped, busy,
             store, cache, spec, todo, prev, staging, noted, journal, kept, live, latest, crashes>>
      \/ /\ worker = "apply" /\ worker' = "discard"
         /\ UNCHANGED <<mode, exe, parked, app, run, attempts, state, avail, pending, skipped,
             busy, store, cache, spec, todo, prev, staging, noted, journal, kept, live, latest,
             crashes>>
  BY <1>t DEF Replace, Replaced, Calm, At, offered, saved, undo, data, Working, process, service, Work, launcher
<1>2. CASE /\ worker = "apply" /\ parked' = exe /\ exe' = 0 /\ worker' = "parked"
           /\ UNCHANGED <<mode, app, run, attempts, state, avail, pending, skipped, busy, store,
               cache, spec, todo, prev, staging, noted, journal, kept, live, latest, crashes>>
  <2>1. Types'
    BY <1>t, <1>2, Values DEF Types, Apps, States
  <2>2. AppInv'
    BY <1>t, <1>2, Values DEF AppInv, WorkInv
  <2>3. OfferInv'
    BY <1>t, <1>2 DEF OfferInv
  <2>4. WorkInv'
    BY <1>t, <1>2 DEF WorkInv, Updates, Rolls, Updating, Rolling
  <2>5. SnapInv'
    BY <1>t, <1>2, Values DEF SnapInv, Program, AppInv
  <2>6. StageInv'
    BY <1>t, <1>2, Values DEF StageInv, Updates, Updating, Rolling
  <2>7. RollInv'
    BY <1>t, <1>2, Values DEF RollInv, Updating, Rolling
  <2>8. DataInv'
    BY <1>t, <1>2, Values DEF DataInv, Original, Undoing, Program, RollInv, Updating, AppInv
  <2>9. Stays
    BY <1>t, <1>2, Values DEF Stays, Saved, Versions
  <2> QED BY <2>1, <2>2, <2>3, <2>4, <2>5, <2>6, <2>7, <2>8, <2>9 DEF IInv
<1>3. CASE /\ worker = "apply" /\ exe' = spec.to /\ worker' = "commit"
           /\ UNCHANGED <<mode, parked, app, run, attempts, state, avail, pending, skipped, busy,
               store, cache, spec, todo, prev, staging, noted, journal, kept, live, latest,
               crashes>>
  <2>1. \A f \in Files : /\ live[f].schema \in Nat /\ Schema[f][spec.from] \in Nat /\ Schema[f][spec.to] \in Nat
                        /\ Schema[f][spec.from] <= Schema[f][spec.to]
    BY <1>t, <1>3, Values, SchemasGrow DEF WorkInv, Updates, Updating, Versions, Copies
  <2>2. Types'
    BY <1>t, <1>3, <2>1, Values DEF Types, Apps, States
  <2>3. AppInv'
    BY <1>t, <1>3, <2>1, Values DEF AppInv, WorkInv
  <2>4. OfferInv'
    BY <1>t, <1>3, <2>1 DEF OfferInv
  <2>5. WorkInv'
    BY <1>t, <1>3, <2>1 DEF WorkInv, Updates, Rolls, Updating, Rolling
  <2>6. SnapInv'
    BY <1>t, <1>3, <2>1, Values DEF SnapInv, Program, WorkInv, Updates, Updating
  <2>7. StageInv'
    BY <1>t, <1>3, <2>1, Values DEF StageInv, Updates, Updating, Rolling
  <2>8. RollInv'
    BY <1>t, <1>3, <2>1, Values DEF RollInv, Updating, Rolling
  <2>9. DataInv'
    BY <1>t, <1>3, <2>1, Values
    DEF DataInv, Original, Undoing, Program, RollInv, Updating, WorkInv, AppInv
  <2>10. Stays
    BY <1>t, <1>3, <2>1, Values DEF Stays, Saved, Versions
  <2> QED BY <2>2, <2>3, <2>4, <2>5, <2>6, <2>7, <2>8, <2>9, <2>10 DEF IInv
<1>4. CASE /\ worker = "apply" /\ worker' = "discard"
           /\ UNCHANGED <<mode, exe, parked, app, run, attempts, state, avail, pending, skipped,
               busy, store, cache, spec, todo, prev, staging, noted, journal, kept, live, latest,
               crashes>>
  <2>1. Types'
    BY <1>t, <1>4, Values DEF Types, Apps, States
  <2>2. AppInv'
    BY <1>t, <1>4, Values DEF AppInv, WorkInv
  <2>3. OfferInv'
    BY <1>t, <1>4 DEF OfferInv
  <2>4. WorkInv'
    BY <1>t, <1>4 DEF WorkInv, Updates, Rolls, Updating, Rolling
  <2>5. SnapInv'
    BY <1>t, <1>4, Values DEF SnapInv, Program
  <2>6. StageInv'
    BY <1>t, <1>4, Values DEF StageInv, Updates, Updating, Rolling
  <2>7. RollInv'
    BY <1>t, <1>4, Values DEF RollInv, Updating, Rolling
  <2>8. DataInv'
    BY <1>t, <1>4, Values DEF DataInv, Original, Undoing, Program
  <2>9. Stays
    BY <1>t, <1>4, Values DEF Stays, Saved, Versions
  <2> QED BY <2>1, <2>2, <2>3, <2>4, <2>5, <2>6, <2>7, <2>8, <2>9 DEF IInv
<1>5. CASE /\ worker = "apply" /\ exe' = spec.to /\ worker' = "discard"
           /\ UNCHANGED <<mode, parked, app, run, attempts, state, avail, pending, skipped, busy,
               store, cache, spec, todo, prev, staging, noted, journal, kept, live, latest,
               crashes>>
  <2>1. \A f \in Files : /\ live[f].schema \in Nat /\ Schema[f][spec.from] \in Nat /\ Schema[f][spec.to] \in Nat
                        /\ Schema[f][spec.from] <= Schema[f][spec.to]
    BY <1>t, <1>5, Values, SchemasGrow DEF WorkInv, Updates, Updating, Versions, Copies
  <2>2. Types'
    BY <1>t, <1>5, <2>1, Values DEF Types, Apps, States
  <2>3. AppInv'
    BY <1>t, <1>5, <2>1, Values DEF AppInv, WorkInv
  <2>4. OfferInv'
    BY <1>t, <1>5, <2>1 DEF OfferInv
  <2>5. WorkInv'
    BY <1>t, <1>5, <2>1 DEF WorkInv, Updates, Rolls, Updating, Rolling
  <2>6. SnapInv'
    BY <1>t, <1>5, <2>1, Values DEF SnapInv, Program, WorkInv, Updates, Updating
  <2>7. StageInv'
    BY <1>t, <1>5, <2>1, Values DEF StageInv, Updates, Updating, Rolling
  <2>8. RollInv'
    BY <1>t, <1>5, <2>1, Values DEF RollInv, Updating, Rolling
  <2>9. DataInv'
    BY <1>t, <1>5, <2>1, Values
    DEF DataInv, Original, Undoing, Program, RollInv, Updating, WorkInv, AppInv
  <2>10. Stays
    BY <1>t, <1>5, <2>1, Values DEF Stays, Saved, Versions
  <2> QED BY <2>2, <2>3, <2>4, <2>5, <2>6, <2>7, <2>8, <2>9, <2>10 DEF IInv
<1> QED BY <1>1, <1>2, <1>3, <1>4, <1>5

\* The second of two renames, or the first is taken back.
LEMMA PlaceKeeps ==
  ASSUME Calm, IInv, Place
  PROVE  IInv' /\ Stays
<1>t. /\ Types /\ AppInv /\ OfferInv /\ WorkInv /\ SnapInv /\ StageInv /\ RollInv /\ DataInv
  BY DEF IInv
<1>1. \/ /\ worker = "parked" /\ exe' = spec.to /\ worker' = "commit"
         /\ UNCHANGED <<mode, parked, app, run, attempts, state, avail, pending, skipped, busy,
             store, cache, spec, todo, prev, staging, noted, journal, kept, live, latest, crashes>>
      \/ /\ worker = "parked" /\ exe' = spec.to /\ worker' = "discard"
         /\ UNCHANGED <<mode, parked, app, run, attempts, state, avail, pending, skipped, busy,
             store, cache, spec, todo, prev, staging, noted, journal, kept, live, latest, crashes>>
      \/ /\ worker = "parked" /\ exe' = parked /\ parked' = 0 /\ worker' = "discard"
         /\ UNCHANGED <<mode, app, run, attempts, state, avail, pending, skipped, busy, store,
             cache, spec, todo, prev, staging, noted, journal, kept, live, latest, crashes>>
  BY <1>t DEF Place, Replaced, Calm, At, Work, Working, process, service, offered, saved, undo, data
<1>2. CASE /\ worker = "parked" /\ exe' = spec.to /\ worker' = "commit"
           /\ UNCHANGED <<mode, parked, app, run, attempts, state, avail, pending, skipped, busy,
               store, cache, spec, todo, prev, staging, noted, journal, kept, live, latest,
               crashes>>
  <2>1. \A f \in Files : /\ live[f].schema \in Nat /\ Schema[f][spec.from] \in Nat /\ Schema[f][spec.to] \in Nat
                        /\ Schema[f][spec.from] <= Schema[f][spec.to]
    BY <1>t, <1>2, Values, SchemasGrow DEF WorkInv, Updates, Updating, Versions, Copies
  <2>2. Types'
    BY <1>t, <1>2, <2>1, Values DEF Types, Apps, States
  <2>3. AppInv'
    BY <1>t, <1>2, <2>1 DEF AppInv, WorkInv
  <2>4. OfferInv'
    BY <1>t, <1>2, <2>1 DEF OfferInv
  <2>5. WorkInv'
    BY <1>t, <1>2, <2>1 DEF WorkInv, Updates, Rolls, Updating, Rolling
  <2>6. SnapInv'
    BY <1>t, <1>2, <2>1, Values DEF SnapInv, Program, WorkInv, AppInv, Updates, Updating
  <2>7. StageInv'
    BY <1>t, <1>2, <2>1, Values DEF StageInv, Updates, Updating, Rolling
  <2>8. RollInv'
    BY <1>t, <1>2, <2>1, Values DEF RollInv, Updating, Rolling
  <2>9. DataInv'
    BY <1>t, <1>2, <2>1, Values
    DEF DataInv, Original, Undoing, Program, RollInv, Updating, WorkInv, AppInv
  <2>10. Stays
    BY <1>t, <1>2, <2>1, Values DEF Stays, Saved, Versions
  <2> QED BY <2>2, <2>3, <2>4, <2>5, <2>6, <2>7, <2>8, <2>9, <2>10 DEF IInv
<1>3. CASE /\ worker = "parked" /\ exe' = parked /\ parked' = 0 /\ worker' = "discard"
           /\ UNCHANGED <<mode, app, run, attempts, state, avail, pending, skipped, busy, store,
               cache, spec, todo, prev, staging, noted, journal, kept, live, latest, crashes>>
  <2>1. Types'
    BY <1>t, <1>3, Values DEF Types, Apps, States
  <2>2. AppInv'
    BY <1>t, <1>3 DEF AppInv, WorkInv
  <2>3. OfferInv'
    BY <1>t, <1>3 DEF OfferInv
  <2>4. WorkInv'
    BY <1>t, <1>3 DEF WorkInv, Updates, Rolls, Updating, Rolling
  <2>5. SnapInv'
    BY <1>t, <1>3, Values DEF SnapInv, Program, WorkInv, AppInv
  <2>6. StageInv'
    BY <1>t, <1>3, Values DEF StageInv, Updates, Updating, Rolling
  <2>7. RollInv'
    BY <1>t, <1>3, Values DEF RollInv, Updating, Rolling
  <2>8. DataInv'
    BY <1>t, <1>3, Values
    DEF DataInv, Original, Undoing, Program, RollInv, Updating, WorkInv, AppInv
  <2>9. Stays
    BY <1>t, <1>3, Values DEF Stays, Saved, Versions
  <2> QED BY <2>1, <2>2, <2>3, <2>4, <2>5, <2>6, <2>7, <2>8, <2>9 DEF IInv
<1>4. CASE /\ worker = "parked" /\ exe' = spec.to /\ worker' = "discard"
           /\ UNCHANGED <<mode, parked, app, run, attempts, state, avail, pending, skipped, busy,
               store, cache, spec, todo, prev, staging, noted, journal, kept, live, latest,
               crashes>>
  <2>1. \A f \in Files : /\ live[f].schema \in Nat /\ Schema[f][spec.from] \in Nat /\ Schema[f][spec.to] \in Nat
                        /\ Schema[f][spec.from] <= Schema[f][spec.to]
    BY <1>t, <1>4, Values, SchemasGrow DEF WorkInv, Updates, Updating, Versions, Copies
  <2>2. Types'
    BY <1>t, <1>4, <2>1, Values DEF Types, Apps, States
  <2>3. AppInv'
    BY <1>t, <1>4, <2>1 DEF AppInv, WorkInv
  <2>4. OfferInv'
    BY <1>t, <1>4, <2>1 DEF OfferInv
  <2>5. WorkInv'
    BY <1>t, <1>4, <2>1 DEF WorkInv, Updates, Rolls, Updating, Rolling
  <2>6. SnapInv'
    BY <1>t, <1>4, <2>1, Values DEF SnapInv, Program, WorkInv, AppInv, Updates, Updating
  <2>7. StageInv'
    BY <1>t, <1>4, <2>1, Values DEF StageInv, Updates, Updating, Rolling
  <2>8. RollInv'
    BY <1>t, <1>4, <2>1, Values DEF RollInv, Updating, Rolling
  <2>9. DataInv'
    BY <1>t, <1>4, <2>1, Values
    DEF DataInv, Original, Undoing, Program, RollInv, Updating, WorkInv, AppInv
  <2>10. Stays
    BY <1>t, <1>4, <2>1, Values DEF Stays, Saved, Versions
  <2> QED BY <2>2, <2>3, <2>4, <2>5, <2>6, <2>7, <2>8, <2>9, <2>10 DEF IInv
<1> QED BY <1>1, <1>2, <1>3, <1>4

\* What was copied becomes what rollbacks use.
LEMMA CommitKeeps ==
  ASSUME Calm, IInv, Commit
  PROVE  IInv' /\ Stays
<1>t. /\ Types /\ AppInv /\ OfferInv /\ WorkInv /\ SnapInv /\ StageInv /\ RollInv /\ DataInv
  BY DEF IInv
<1>1. \/ /\ worker = "commit" /\ staging.rec # 0 /\ staging.dir = NoDir
         /\ prev' = [prev EXCEPT !.rec = staging.rec] /\ staging' = [staging EXCEPT !.rec = 0]
         /\ noted' \in BOOLEAN
         /\ UNCHANGED <<mode, exe, parked, app, run, attempts, state, avail, pending, skipped,
             busy, store, cache, worker, spec, todo, journal, kept, live, latest, crashes>>
      \/ /\ worker = "commit" /\ staging.rec # 0 /\ staging.dir # NoDir /\ prev.rec # 0
         /\ prev' = [prev EXCEPT !.rec = 0]
         /\ UNCHANGED <<mode, exe, parked, app, run, attempts, state, avail, pending, skipped,
             busy, store, cache, worker, spec, todo, staging, noted, journal, kept, live, latest,
             crashes>>
      \/ /\ worker = "commit" /\ staging.rec # 0 /\ staging.dir # NoDir /\ prev.rec = 0
         /\ prev.dir # NoDir /\ prev' = [prev EXCEPT !.dir = NoDir] /\ journal' = NoJournal
         /\ kept' = NoKept
         /\ UNCHANGED <<mode, exe, parked, app, run, attempts, state, avail, pending, skipped,
             busy, store, cache, worker, spec, todo, staging, noted, live, latest, crashes>>
      \/ /\ worker = "commit" /\ staging.rec # 0 /\ staging.dir # NoDir /\ prev = NoSnapshot
         /\ prev' = [prev EXCEPT !.dir = staging.dir]
         /\ staging' = [staging EXCEPT !.dir = NoDir]
         /\ UNCHANGED <<mode, exe, parked, app, run, attempts, state, avail, pending, skipped,
             busy, store, cache, worker, spec, todo, noted, journal, kept, live, latest, crashes>>
      \/ /\ worker = "commit" /\ noted' = TRUE /\ worker' = "relaunch"
         /\ UNCHANGED <<mode, exe, parked, app, run, attempts, state, avail, pending, skipped,
             busy, store, cache, spec, todo, prev, staging, journal, kept, live, latest, crashes>>
      \/ /\ worker = "commit" /\ worker' = "relaunch"
         /\ UNCHANGED <<mode, exe, parked, app, run, attempts, state, avail, pending, skipped,
             busy, store, cache, spec, todo, prev, staging, noted, journal, kept, live, latest,
             crashes>>
  BY <1>t DEF Types, Commit, At, Promote, undo, DropRecord, DropDir, work, Work, saved, Working, process,
          service, launcher, offered, data, Promoted
<1>2. CASE /\ worker = "commit" /\ staging.rec # 0 /\ staging.dir = NoDir
           /\ prev' = [prev EXCEPT !.rec = staging.rec] /\ staging' = [staging EXCEPT !.rec = 0]
           /\ noted' \in BOOLEAN
           /\ UNCHANGED <<mode, exe, parked, app, run, attempts, state, avail, pending, skipped,
               busy, store, cache, worker, spec, todo, journal, kept, live, latest, crashes>>
  <2>1. prev' \in Snapshots /\ prev'.rec = staging.rec /\ prev'.dir = prev.dir
    BY <1>t, <1>2, Values, SnapshotsAre
  <2>2. staging' \in Snapshots /\ staging'.rec = 0 /\ staging'.dir = staging.dir
    BY <1>t, <1>2, Values, SnapshotsAre
  <2>3. Types'
    BY <1>t, <1>2, <2>1, <2>2, Values DEF Types, Apps, States
  <2>4. AppInv'
    BY <1>t, <1>2 DEF AppInv
  <2>5. OfferInv'
    BY <1>t, <1>2 DEF OfferInv
  <2>6. WorkInv'
    BY <1>t, <1>2 DEF WorkInv, Updates, Rolls, Updating, Rolling
  <2>7. SnapInv'
    BY <1>t, <1>2, <2>1, <2>2, Values DEF SnapInv, Program
  <2>8. StageInv'
    BY <1>t, <1>2, <2>1, <2>2, Values DEF StageInv, Updates, Updating, Rolling, AppInv
  <2>9. RollInv'
    BY <1>t, <1>2, <2>1, Values DEF RollInv, Updating, Rolling, AppInv
  <2>10. DataInv'
    BY <1>t, <1>2, Values DEF DataInv, Original, Undoing, Program, RollInv, Updating
  <2>11. Stays
    BY <1>t, <1>2, <2>1, <2>2, Values
    DEF Stays, Saved, Versions, SnapInv, StageInv, WorkInv, Updates, Updating
  <2> QED BY <2>3, <2>4, <2>5, <2>6, <2>7, <2>8, <2>9, <2>10, <2>11 DEF IInv
<1>3. CASE /\ worker = "commit" /\ staging.rec # 0 /\ staging.dir # NoDir /\ prev.rec # 0
           /\ prev' = [prev EXCEPT !.rec = 0]
           /\ UNCHANGED <<mode, exe, parked, app, run, attempts, state, avail, pending, skipped,
               busy, store, cache, worker, spec, todo, staging, noted, journal, kept, live, latest,
               crashes>>
  <2>1. prev' \in Snapshots /\ prev'.rec = 0 /\ prev'.dir = prev.dir
    BY <1>t, <1>3, Values, SnapshotsAre
  <2>2. Types'
    BY <1>t, <1>3, <2>1, Values DEF Types, Apps, States
  <2>3. AppInv'
    BY <1>t, <1>3 DEF AppInv
  <2>4. OfferInv'
    BY <1>t, <1>3 DEF OfferInv
  <2>5. WorkInv'
    BY <1>t, <1>3 DEF WorkInv, Updates, Rolls, Updating, Rolling
  <2>6. SnapInv'
    BY <1>t, <1>3, <2>1, Values DEF SnapInv, Program
  <2>7. StageInv'
    BY <1>t, <1>3, <2>1, Values DEF StageInv, Updates, Updating, Rolling, AppInv
  <2>8. RollInv'
    BY <1>t, <1>3, <2>1, Values DEF RollInv, Updating, Rolling, AppInv
  <2>9. DataInv'
    BY <1>t, <1>3, Values DEF DataInv, Original, Undoing, Program, RollInv, Updating
  <2>10. Stays
    BY <1>t, <1>3, <2>1, Values
    DEF Stays, Saved, Versions, SnapInv, StageInv, WorkInv, Updates, Updating
  <2> QED BY <2>2, <2>3, <2>4, <2>5, <2>6, <2>7, <2>8, <2>9, <2>10 DEF IInv
<1>4. CASE /\ worker = "commit" /\ staging.rec # 0 /\ staging.dir # NoDir /\ prev.rec = 0
           /\ prev.dir # NoDir /\ prev' = [prev EXCEPT !.dir = NoDir] /\ journal' = NoJournal
           /\ kept' = NoKept
           /\ UNCHANGED <<mode, exe, parked, app, run, attempts, state, avail, pending, skipped,
               busy, store, cache, worker, spec, todo, staging, noted, live, latest, crashes>>
  <2>1. prev' \in Snapshots /\ prev'.rec = prev.rec /\ prev'.dir = NoDir
    BY <1>t, <1>4, Values, SnapshotsAre
  <2>2. Types'
    BY <1>t, <1>4, <2>1, Values DEF Types, Apps, States
  <2>3. AppInv'
    BY <1>t, <1>4 DEF AppInv
  <2>4. OfferInv'
    BY <1>t, <1>4 DEF OfferInv
  <2>5. WorkInv'
    BY <1>t, <1>4 DEF WorkInv, Updates, Rolls, Updating, Rolling
  <2>6. SnapInv'
    BY <1>t, <1>4, <2>1, Values DEF SnapInv, Program
  <2>7. StageInv'
    BY <1>t, <1>4, <2>1, Values DEF StageInv, Updates, Updating, Rolling, AppInv
  <2>8. RollInv'
    BY <1>t, <1>4, <2>1, Values DEF RollInv, Updating, Rolling, AppInv
  <2>9. DataInv'
    BY <1>t, <1>4, Values DEF DataInv, Original, Undoing, Program, RollInv, Updating
  <2>10. Stays
    BY <1>t, <1>4, <2>1, Values
    DEF Stays, Saved, Versions, SnapInv, StageInv, WorkInv, Updates, Updating
  <2> QED BY <2>2, <2>3, <2>4, <2>5, <2>6, <2>7, <2>8, <2>9, <2>10 DEF IInv
<1>5. CASE /\ worker = "commit" /\ staging.rec # 0 /\ staging.dir # NoDir /\ prev = NoSnapshot
           /\ prev' = [prev EXCEPT !.dir = staging.dir]
           /\ staging' = [staging EXCEPT !.dir = NoDir]
           /\ UNCHANGED <<mode, exe, parked, app, run, attempts, state, avail, pending, skipped,
               busy, store, cache, worker, spec, todo, noted, journal, kept, live, latest, crashes>>
  <2>1. prev' \in Snapshots /\ prev'.rec = prev.rec /\ prev'.dir = staging.dir
    BY <1>t, <1>5, Values, SnapshotsAre
  <2>2. staging' \in Snapshots /\ staging'.rec = staging.rec /\ staging'.dir = NoDir
    BY <1>t, <1>5, Values, SnapshotsAre
  <2>3. Types'
    BY <1>t, <1>5, <2>1, <2>2, Values DEF Types, Apps, States
  <2>4. AppInv'
    BY <1>t, <1>5 DEF AppInv
  <2>5. OfferInv'
    BY <1>t, <1>5 DEF OfferInv
  <2>6. WorkInv'
    BY <1>t, <1>5 DEF WorkInv, Updates, Rolls, Updating, Rolling
  <2>7. SnapInv'
    BY <1>t, <1>5, <2>1, <2>2, Values DEF SnapInv, Program
  <2>8. StageInv'
    BY <1>t, <1>5, <2>1, <2>2, Values DEF StageInv, Updates, Updating, Rolling, AppInv
  <2>9. RollInv'
    BY <1>t, <1>5, <2>1, Values DEF RollInv, Updating, Rolling, AppInv
  <2>10. DataInv'
    BY <1>t, <1>5, Values DEF DataInv, Original, Undoing, Program, RollInv, Updating
  <2>11. Stays
    BY <1>t, <1>5, <2>1, <2>2, Values
    DEF Stays, Saved, Versions, SnapInv, StageInv, WorkInv, Updates, Updating
  <2> QED BY <2>3, <2>4, <2>5, <2>6, <2>7, <2>8, <2>9, <2>10, <2>11 DEF IInv
<1>6. CASE /\ worker = "commit" /\ noted' = TRUE /\ worker' = "relaunch"
           /\ UNCHANGED <<mode, exe, parked, app, run, attempts, state, avail, pending, skipped,
               busy, store, cache, spec, todo, prev, staging, journal, kept, live, latest, crashes>>
  <2>1. Types'
    BY <1>t, <1>6, Values DEF Types, Apps, States
  <2>2. AppInv'
    BY <1>t, <1>6 DEF AppInv
  <2>3. OfferInv'
    BY <1>t, <1>6 DEF OfferInv
  <2>4. WorkInv'
    BY <1>t, <1>6 DEF WorkInv, Updates, Rolls, Updating, Rolling
  <2>5. SnapInv'
    BY <1>t, <1>6, Values DEF SnapInv, Program
  <2>6. StageInv'
    BY <1>t, <1>6, Values DEF StageInv, Updates, Updating, Rolling, AppInv
  <2>7. RollInv'
    BY <1>t, <1>6, Values DEF RollInv, Updating, Rolling, AppInv
  <2>8. DataInv'
    BY <1>t, <1>6, Values DEF DataInv, Original, Undoing, Program, RollInv, Updating
  <2>9. Stays
    BY <1>t, <1>6, Values DEF Stays, Saved, Versions, SnapInv, StageInv, WorkInv, Updates, Updating
  <2> QED BY <2>1, <2>2, <2>3, <2>4, <2>5, <2>6, <2>7, <2>8, <2>9 DEF IInv
<1>7. CASE /\ worker = "commit" /\ worker' = "relaunch"
           /\ UNCHANGED <<mode, exe, parked, app, run, attempts, state, avail, pending, skipped,
               busy, store, cache, spec, todo, prev, staging, noted, journal, kept, live, latest,
               crashes>>
  <2>1. Types'
    BY <1>t, <1>7, Values DEF Types, Apps, States
  <2>2. AppInv'
    BY <1>t, <1>7 DEF AppInv
  <2>3. OfferInv'
    BY <1>t, <1>7 DEF OfferInv
  <2>4. WorkInv'
    BY <1>t, <1>7 DEF WorkInv, Updates, Rolls, Updating, Rolling
  <2>5. SnapInv'
    BY <1>t, <1>7, Values DEF SnapInv, Program
  <2>6. StageInv'
    BY <1>t, <1>7, Values DEF StageInv, Updates, Updating, Rolling, AppInv
  <2>7. RollInv'
    BY <1>t, <1>7, Values DEF RollInv, Updating, Rolling, AppInv
  <2>8. DataInv'
    BY <1>t, <1>7, Values DEF DataInv, Original, Undoing, Program, RollInv, Updating
  <2>9. Stays
    BY <1>t, <1>7, Values DEF Stays, Saved, Versions, SnapInv, StageInv, WorkInv, Updates, Updating
  <2> QED BY <2>1, <2>2, <2>3, <2>4, <2>5, <2>6, <2>7, <2>8, <2>9 DEF IInv
<1> QED BY <1>1, <1>2, <1>3, <1>4, <1>5, <1>6, <1>7

\* The copies of an update that failed go.
LEMMA DiscardStagedKeeps ==
  ASSUME Calm, IInv, DiscardStaged
  PROVE  IInv' /\ Stays
<1>t. /\ Types /\ AppInv /\ OfferInv /\ WorkInv /\ SnapInv /\ StageInv /\ RollInv /\ DataInv
  BY DEF IInv
<1>1. \/ /\ worker = "discard" /\ worker' = "relaunch"
         /\ UNCHANGED <<mode, exe, parked, app, run, attempts, state, avail, pending, skipped,
             busy, store, cache, spec, todo, prev, staging, noted, journal, kept, live, latest,
             crashes>>
      \/ /\ worker = "discard" /\ staging.rec # 0 /\ staging' = [staging EXCEPT !.rec = 0]
         /\ UNCHANGED <<mode, exe, parked, app, run, attempts, state, avail, pending, skipped,
             busy, store, cache, worker, spec, todo, prev, noted, journal, kept, live, latest,
             crashes>>
      \/ /\ worker = "discard" /\ staging.rec = 0 /\ staging' = NoSnapshot
         /\ UNCHANGED <<mode, exe, parked, app, run, attempts, state, avail, pending, skipped,
             busy, store, cache, worker, spec, todo, prev, noted, journal, kept, live, latest,
             crashes>>
  BY <1>t DEF DiscardStaged, SettleFails, Calm, At, Discarded, Work, saved, undo, Discard, work, Working, process,
          service, launcher, offered, data
<1>2. CASE /\ worker = "discard" /\ worker' = "relaunch"
           /\ UNCHANGED <<mode, exe, parked, app, run, attempts, state, avail, pending, skipped,
               busy, store, cache, spec, todo, prev, staging, noted, journal, kept, live, latest,
               crashes>>
  <2>1. Types'
    BY <1>t, <1>2, Values DEF Types, Apps, States
  <2>2. AppInv'
    BY <1>t, <1>2 DEF AppInv
  <2>3. OfferInv'
    BY <1>t, <1>2 DEF OfferInv
  <2>4. WorkInv'
    BY <1>t, <1>2 DEF WorkInv, Updates, Rolls, Updating, Rolling
  <2>5. SnapInv'
    BY <1>t, <1>2, Values DEF SnapInv, Program
  <2>6. StageInv'
    BY <1>t, <1>2, Values DEF StageInv, Updates, Updating, Rolling, AppInv
  <2>7. RollInv'
    BY <1>t, <1>2, Values DEF RollInv, Updating, Rolling
  <2>8. DataInv'
    BY <1>t, <1>2, Values DEF DataInv, Original, Undoing, Program
  <2>9. Stays
    BY <1>t, <1>2, Values DEF Stays, Saved, Versions, StageInv, WorkInv, SnapInv
  <2> QED BY <2>1, <2>2, <2>3, <2>4, <2>5, <2>6, <2>7, <2>8, <2>9 DEF IInv
<1>3. CASE /\ worker = "discard" /\ staging.rec # 0 /\ staging' = [staging EXCEPT !.rec = 0]
           /\ UNCHANGED <<mode, exe, parked, app, run, attempts, state, avail, pending, skipped,
               busy, store, cache, worker, spec, todo, prev, noted, journal, kept, live, latest,
               crashes>>
  <2>1. staging' \in Snapshots /\ staging'.rec = 0 /\ staging'.dir = staging.dir
    BY <1>t, <1>3, Values, SnapshotsAre
  <2>2. Types'
    BY <1>t, <1>3, <2>1, Values DEF Types, Apps, States
  <2>3. AppInv'
    BY <1>t, <1>3 DEF AppInv
  <2>4. OfferInv'
    BY <1>t, <1>3 DEF OfferInv
  <2>5. WorkInv'
    BY <1>t, <1>3 DEF WorkInv, Updates, Rolls, Updating, Rolling
  <2>6. SnapInv'
    BY <1>t, <1>3, <2>1, Values DEF SnapInv, Program
  <2>7. StageInv'
    BY <1>t, <1>3, <2>1, Values DEF StageInv, Updates, Updating, Rolling, AppInv
  <2>8. RollInv'
    BY <1>t, <1>3, Values DEF RollInv, Updating, Rolling
  <2>9. DataInv'
    BY <1>t, <1>3, Values DEF DataInv, Original, Undoing, Program
  <2>10. Stays
    BY <1>t, <1>3, <2>1, Values DEF Stays, Saved, Versions, StageInv, WorkInv, SnapInv
  <2> QED BY <2>2, <2>3, <2>4, <2>5, <2>6, <2>7, <2>8, <2>9, <2>10 DEF IInv
<1>4. CASE /\ worker = "discard" /\ staging.rec = 0 /\ staging' = NoSnapshot
           /\ UNCHANGED <<mode, exe, parked, app, run, attempts, state, avail, pending, skipped,
               busy, store, cache, worker, spec, todo, prev, noted, journal, kept, live, latest,
               crashes>>
  <2>1. staging' \in Snapshots /\ staging'.rec = 0 /\ staging'.dir = NoDir
    BY <1>4, Values
  <2>2. Types'
    BY <1>t, <1>4, <2>1, Values DEF Types, Apps, States
  <2>3. AppInv'
    BY <1>t, <1>4 DEF AppInv
  <2>4. OfferInv'
    BY <1>t, <1>4 DEF OfferInv
  <2>5. WorkInv'
    BY <1>t, <1>4 DEF WorkInv, Updates, Rolls, Updating, Rolling
  <2>6. SnapInv'
    BY <1>t, <1>4, <2>1, Values DEF SnapInv, Program
  <2>7. StageInv'
    BY <1>t, <1>4, <2>1, Values DEF StageInv, Updates, Updating, Rolling, AppInv
  <2>8. RollInv'
    BY <1>t, <1>4, Values DEF RollInv, Updating, Rolling
  <2>9. DataInv'
    BY <1>t, <1>4, Values DEF DataInv, Original, Undoing, Program
  <2>10. Stays
    BY <1>t, <1>4, <2>1, Values DEF Stays, Saved, Versions, StageInv, WorkInv, SnapInv
  <2> QED BY <2>2, <2>3, <2>4, <2>5, <2>6, <2>7, <2>8, <2>9, <2>10 DEF IInv
<1> QED BY <1>1, <1>2, <1>3, <1>4

\* A rollback restores the files whose schema differs, if the snapshot is whole.
LEMMA PlanKeeps ==
  ASSUME Calm, IInv, Plan
  PROVE  IInv' /\ Stays
<1>t. /\ Types /\ AppInv /\ OfferInv /\ WorkInv /\ SnapInv /\ StageInv /\ RollInv /\ DataInv
  BY DEF IInv
<1>1. \/ /\ worker = "plan" /\ prev.rec = spec.to /\ worker' = "skip"
         /\ todo' = {g \in Files : live[g].schema # prev.dir.files[g].schema}
         /\ UNCHANGED <<mode, exe, parked, app, run, attempts, state, avail, pending, skipped,
             busy, store, cache, spec, prev, staging, noted, journal, kept, live, latest, crashes>>
      \/ /\ worker = "plan" /\ worker' = "relaunch"
         /\ UNCHANGED <<mode, exe, parked, app, run, attempts, state, avail, pending, skipped,
             busy, store, cache, spec, todo, prev, staging, noted, journal, kept, live, latest,
             crashes>>
  BY <1>t DEF Plan, At, Work, Working, process, service, launcher, offered, saved, undo, data
<1>2. CASE /\ worker = "plan" /\ prev.rec = spec.to /\ worker' = "skip"
           /\ todo' = {g \in Files : live[g].schema # prev.dir.files[g].schema}
           /\ UNCHANGED <<mode, exe, parked, app, run, attempts, state, avail, pending, skipped,
               busy, store, cache, spec, prev, staging, noted, journal, kept, live, latest,
               crashes>>
  <2>1. Types'
    BY <1>t, <1>2, Values DEF Types, Apps, States
  <2>2. AppInv'
    BY <1>t, <1>2 DEF AppInv
  <2>3. OfferInv'
    BY <1>t, <1>2 DEF OfferInv
  <2>4. WorkInv'
    BY <1>t, <1>2 DEF WorkInv, Updates, Rolls, Updating, Rolling
  <2>5. SnapInv'
    BY <1>t, <1>2, Values DEF SnapInv, Program
  <2>6. StageInv'
    BY <1>t, <1>2, Values DEF StageInv, Updates, Updating, Rolling
  <2>7. RollInv'
    BY <1>t, <1>2, Values DEF RollInv, Updating, Rolling
  <2>8. DataInv'
    BY <1>t, <1>2, Values DEF DataInv, Original, Undoing, Program
  <2>9. Stays
    BY <1>t, <1>2, Values DEF Stays, Saved, Versions
  <2> QED BY <2>1, <2>2, <2>3, <2>4, <2>5, <2>6, <2>7, <2>8, <2>9 DEF IInv
<1>3. CASE /\ worker = "plan" /\ worker' = "relaunch"
           /\ UNCHANGED <<mode, exe, parked, app, run, attempts, state, avail, pending, skipped,
               busy, store, cache, spec, todo, prev, staging, noted, journal, kept, live, latest,
               crashes>>
  <2>1. Types'
    BY <1>t, <1>3, Values DEF Types, Apps, States
  <2>2. AppInv'
    BY <1>t, <1>3 DEF AppInv
  <2>3. OfferInv'
    BY <1>t, <1>3 DEF OfferInv
  <2>4. WorkInv'
    BY <1>t, <1>3 DEF WorkInv, Updates, Rolls, Updating, Rolling
  <2>5. SnapInv'
    BY <1>t, <1>3, Values DEF SnapInv, Program
  <2>6. StageInv'
    BY <1>t, <1>3, Values DEF StageInv, Updates, Updating, Rolling
  <2>7. RollInv'
    BY <1>t, <1>3, Values DEF RollInv, Updating, Rolling
  <2>8. DataInv'
    BY <1>t, <1>3, Values DEF DataInv, Original, Undoing, Program
  <2>9. Stays
    BY <1>t, <1>3, Values DEF Stays, Saved, Versions
  <2> QED BY <2>1, <2>2, <2>3, <2>4, <2>5, <2>6, <2>7, <2>8, <2>9 DEF IInv
<1> QED BY <1>1, <1>2, <1>3

\* The version it leaves is not offered again.
LEMMA SkipKeeps ==
  ASSUME Calm, IInv, Skip
  PROVE  IInv' /\ Stays
<1>t. /\ Types /\ AppInv /\ OfferInv /\ WorkInv /\ SnapInv /\ StageInv /\ RollInv /\ DataInv
  BY DEF IInv
<1>1. \/ \E ready \in {store.ready, 0} :
            /\ worker = "skip" /\ todo = {}
            /\ store' = [store EXCEPT !.skipped = spec.from, !.ready = ready] /\ worker' = "swap"
            /\ UNCHANGED <<mode, exe, parked, app, run, attempts, state, avail, pending, skipped,
                busy, cache, spec, todo, prev, staging, noted, journal, kept, live, latest,
                crashes>>
      \/ \E ready \in {store.ready, 0} :
            /\ worker = "skip" /\ todo # {}
            /\ store' = [store EXCEPT !.skipped = spec.from, !.ready = ready] /\ worker' = "keep"
            /\ UNCHANGED <<mode, exe, parked, app, run, attempts, state, avail, pending, skipped,
                busy, cache, spec, todo, prev, staging, noted, journal, kept, live, latest,
                crashes>>
      \/ /\ worker = "skip" /\ worker' = "relaunch"
         /\ UNCHANGED <<mode, exe, parked, app, run, attempts, state, avail, pending, skipped,
             busy, store, cache, spec, todo, prev, staging, noted, journal, kept, live, latest,
             crashes>>
  BY <1>t DEF Skip, At, Work, Working, process, service, launcher, saved, undo, data
<1>2. ASSUME NEW ready \in {store.ready, 0},
           /\ worker = "skip" /\ todo = {}
           /\ store' = [store EXCEPT !.skipped = spec.from, !.ready = ready] /\ worker' = "swap"
           /\ UNCHANGED <<mode, exe, parked, app, run, attempts, state, avail, pending, skipped,
               busy, cache, spec, todo, prev, staging, noted, journal, kept, live, latest, crashes>>
    PROVE  IInv' /\ Stays
  <2>1. store' \in Stores
    BY <1>t, <1>2, Values DEF Types, Stores, Versions
  <2>2. Types'
    BY <1>t, <1>2, <2>1, Values DEF Types, Apps, States
  <2>3. AppInv'
    BY <1>t, <1>2 DEF AppInv
  <2>4. OfferInv'
    BY <1>t, <1>2 DEF OfferInv
  <2>5. WorkInv'
    BY <1>t, <1>2 DEF WorkInv, Updates, Rolls, Updating, Rolling
  <2>6. SnapInv'
    BY <1>t, <1>2, Values DEF SnapInv, Program
  <2>7. StageInv'
    BY <1>t, <1>2, Values DEF StageInv, Updates, Updating, Rolling
  <2>8. RollInv'
    BY <1>t, <1>2, Values DEF RollInv, Updating, Rolling
  <2>9. DataInv'
    BY <1>t, <1>2, Values DEF DataInv, Original, Undoing, Program
  <2>10. Stays
    BY <1>t, <1>2, Values DEF Stays, Saved, Versions
  <2> QED BY <2>2, <2>3, <2>4, <2>5, <2>6, <2>7, <2>8, <2>9, <2>10 DEF IInv
<1>3. ASSUME NEW ready \in {store.ready, 0},
           /\ worker = "skip" /\ todo # {}
           /\ store' = [store EXCEPT !.skipped = spec.from, !.ready = ready] /\ worker' = "keep"
           /\ UNCHANGED <<mode, exe, parked, app, run, attempts, state, avail, pending, skipped,
               busy, cache, spec, todo, prev, staging, noted, journal, kept, live, latest, crashes>>
    PROVE  IInv' /\ Stays
  <2>1. store' \in Stores
    BY <1>t, <1>3, Values DEF Types, Stores, Versions
  <2>2. Types'
    BY <1>t, <1>3, <2>1, Values DEF Types, Apps, States
  <2>3. AppInv'
    BY <1>t, <1>3 DEF AppInv
  <2>4. OfferInv'
    BY <1>t, <1>3 DEF OfferInv
  <2>5. WorkInv'
    BY <1>t, <1>3 DEF WorkInv, Updates, Rolls, Updating, Rolling
  <2>6. SnapInv'
    BY <1>t, <1>3, Values DEF SnapInv, Program
  <2>7. StageInv'
    BY <1>t, <1>3, Values DEF StageInv, Updates, Updating, Rolling
  <2>8. RollInv'
    BY <1>t, <1>3, Values DEF RollInv, Updating, Rolling
  <2>9. DataInv'
    BY <1>t, <1>3, Values DEF DataInv, Original, Undoing, Program
  <2>10. Stays
    BY <1>t, <1>3, Values DEF Stays, Saved, Versions
  <2> QED BY <2>2, <2>3, <2>4, <2>5, <2>6, <2>7, <2>8, <2>9, <2>10 DEF IInv
<1>4. CASE /\ worker = "skip" /\ worker' = "relaunch"
           /\ UNCHANGED <<mode, exe, parked, app, run, attempts, state, avail, pending, skipped,
               busy, store, cache, spec, todo, prev, staging, noted, journal, kept, live, latest,
               crashes>>
  <2>1. Types'
    BY <1>t, <1>4, Values DEF Types, Apps, States
  <2>2. AppInv'
    BY <1>t, <1>4 DEF AppInv
  <2>3. OfferInv'
    BY <1>t, <1>4 DEF OfferInv
  <2>4. WorkInv'
    BY <1>t, <1>4 DEF WorkInv, Updates, Rolls, Updating, Rolling
  <2>5. SnapInv'
    BY <1>t, <1>4, Values DEF SnapInv, Program
  <2>6. StageInv'
    BY <1>t, <1>4, Values DEF StageInv, Updates, Updating, Rolling
  <2>7. RollInv'
    BY <1>t, <1>4, Values DEF RollInv, Updating, Rolling
  <2>8. DataInv'
    BY <1>t, <1>4, Values DEF DataInv, Original, Undoing, Program
  <2>9. Stays
    BY <1>t, <1>4, Values DEF Stays, Saved, Versions
  <2> QED BY <2>1, <2>2, <2>3, <2>4, <2>5, <2>6, <2>7, <2>8, <2>9 DEF IInv
<1> QED BY <1>1, <1>2, <1>3, <1>4

\* What it writes over is kept ...
LEMMA KeepKeeps ==
  ASSUME Calm, IInv, Keep
  PROVE  IInv' /\ Stays
<1>t. /\ Types /\ AppInv /\ OfferInv /\ WorkInv /\ SnapInv /\ StageInv /\ RollInv /\ DataInv
  BY DEF IInv
<1>1. \/ /\ worker = "keep" /\ journal' = NoJournal
         /\ kept' = [g \in Files |-> IF g \in todo THEN live[g] ELSE NoCopy]
         /\ worker' = "journal"
         /\ UNCHANGED <<mode, exe, parked, app, run, attempts, state, avail, pending, skipped,
             busy, store, cache, spec, todo, prev, staging, noted, live, latest, crashes>>
      \/ /\ worker = "keep" /\ worker' = "revert"
         /\ UNCHANGED <<mode, exe, parked, app, run, attempts, state, avail, pending, skipped,
             busy, store, cache, spec, todo, prev, staging, noted, journal, kept, live, latest,
             crashes>>
  BY <1>t DEF Keep, At, Work, undo, Working, process, service, launcher, offered, saved, data
<1>2. CASE /\ worker = "keep" /\ journal' = NoJournal
           /\ kept' = [g \in Files |-> IF g \in todo THEN live[g] ELSE NoCopy]
           /\ worker' = "journal"
           /\ UNCHANGED <<mode, exe, parked, app, run, attempts, state, avail, pending, skipped,
               busy, store, cache, spec, todo, prev, staging, noted, live, latest, crashes>>
  <2>1. /\ kept' \in [Files -> Copies]
        /\ \A g \in Files : kept'[g] = IF g \in todo THEN live[g] ELSE NoCopy
    BY <1>t, <1>2, Values, NoneIs DEF Types
  <2>2. Types'
    BY <1>t, <1>2, <2>1, Values DEF Types, Apps, States
  <2>3. AppInv'
    BY <1>t, <1>2 DEF AppInv
  <2>4. OfferInv'
    BY <1>t, <1>2 DEF OfferInv
  <2>5. WorkInv'
    BY <1>t, <1>2 DEF WorkInv, Updates, Rolls, Updating, Rolling
  <2>6. SnapInv'
    BY <1>t, <1>2, Values DEF SnapInv, Program
  <2>7. StageInv'
    BY <1>t, <1>2, Values DEF StageInv, Updates, Updating, Rolling
  <2>8. RollInv'
    BY <1>t, <1>2, <2>1, Values DEF RollInv, Updating, Rolling, Types, AppInv
  <2>9. DataInv'
    BY <1>t, <1>2, <2>1, Values DEF DataInv, Original, Undoing, Program, RollInv
  <2>10. Stays
    BY <1>t, <1>2, Values DEF Stays, Saved, Versions
  <2> QED BY <2>2, <2>3, <2>4, <2>5, <2>6, <2>7, <2>8, <2>9, <2>10 DEF IInv
<1>3. CASE /\ worker = "keep" /\ worker' = "revert"
           /\ UNCHANGED <<mode, exe, parked, app, run, attempts, state, avail, pending, skipped,
               busy, store, cache, spec, todo, prev, staging, noted, journal, kept, live, latest,
               crashes>>
  <2>1. Types'
    BY <1>t, <1>3, Values DEF Types, Apps, States
  <2>2. AppInv'
    BY <1>t, <1>3 DEF AppInv
  <2>3. OfferInv'
    BY <1>t, <1>3 DEF OfferInv
  <2>4. WorkInv'
    BY <1>t, <1>3 DEF WorkInv, Updates, Rolls, Updating, Rolling
  <2>5. SnapInv'
    BY <1>t, <1>3, Values DEF SnapInv, Program
  <2>6. StageInv'
    BY <1>t, <1>3, Values DEF StageInv, Updates, Updating, Rolling
  <2>7. RollInv'
    BY <1>t, <1>3, Values DEF RollInv, Updating, Rolling
  <2>8. DataInv'
    BY <1>t, <1>3, Values DEF DataInv, Original, Undoing, Program
  <2>9. Stays
    BY <1>t, <1>3, Values DEF Stays, Saved, Versions
  <2> QED BY <2>1, <2>2, <2>3, <2>4, <2>5, <2>6, <2>7, <2>8, <2>9 DEF IInv
<1> QED BY <1>1, <1>2, <1>3

\* ... and written down.
LEMMA KeepJournalKeeps ==
  ASSUME Calm, IInv, KeepJournal
  PROVE  IInv' /\ Stays
<1>t. /\ Types /\ AppInv /\ OfferInv /\ WorkInv /\ SnapInv /\ StageInv /\ RollInv /\ DataInv
  BY DEF IInv
<1>1. \/ /\ worker = "journal" /\ journal' = [from |-> spec.from, to |-> spec.to]
         /\ worker' = "restore"
         /\ UNCHANGED <<mode, exe, parked, app, run, attempts, state, avail, pending, skipped,
             busy, store, cache, spec, todo, prev, staging, noted, kept, live, latest, crashes>>
      \/ /\ worker = "journal" /\ worker' = "revert"
         /\ UNCHANGED <<mode, exe, parked, app, run, attempts, state, avail, pending, skipped,
             busy, store, cache, spec, todo, prev, staging, noted, journal, kept, live, latest,
             crashes>>
  BY <1>t DEF KeepJournal, At, Work, undo, Working, process, service, launcher, offered, saved, data
<1>2. CASE /\ worker = "journal" /\ journal' = [from |-> spec.from, to |-> spec.to]
           /\ worker' = "restore"
           /\ UNCHANGED <<mode, exe, parked, app, run, attempts, state, avail, pending, skipped,
               busy, store, cache, spec, todo, prev, staging, noted, kept, live, latest, crashes>>
  <2>1. journal' \in Journals /\ journal'.from = spec.from /\ journal'.to = spec.to /\ journal' # NoJournal
    BY <1>t, <1>2, Values DEF Journals, NoJournal, WorkInv
  <2>2. Types'
    BY <1>t, <1>2, <2>1, Values DEF Types, Apps, States
  <2>3. AppInv'
    BY <1>t, <1>2 DEF AppInv
  <2>4. OfferInv'
    BY <1>t, <1>2 DEF OfferInv
  <2>5. WorkInv'
    BY <1>t, <1>2 DEF WorkInv, Updates, Rolls, Updating, Rolling
  <2>6. SnapInv'
    BY <1>t, <1>2, Values DEF SnapInv, Program
  <2>7. StageInv'
    BY <1>t, <1>2, Values DEF StageInv, Updates, Updating, Rolling
  <2>8. RollInv'
    BY <1>t, <1>2, <2>1, Values DEF RollInv, Updating, Rolling, AppInv, Types
  <2>9. DataInv'
    BY <1>t, <1>2, <2>1, Values DEF DataInv, Original, Undoing, Program, RollInv
  <2>10. Stays
    BY <1>t, <1>2, Values DEF Stays, Saved, Versions
  <2> QED BY <2>2, <2>3, <2>4, <2>5, <2>6, <2>7, <2>8, <2>9, <2>10 DEF IInv
<1>3. CASE /\ worker = "journal" /\ worker' = "revert"
           /\ UNCHANGED <<mode, exe, parked, app, run, attempts, state, avail, pending, skipped,
               busy, store, cache, spec, todo, prev, staging, noted, journal, kept, live, latest,
               crashes>>
  <2>1. Types'
    BY <1>t, <1>3, Values DEF Types, Apps, States
  <2>2. AppInv'
    BY <1>t, <1>3 DEF AppInv
  <2>3. OfferInv'
    BY <1>t, <1>3 DEF OfferInv
  <2>4. WorkInv'
    BY <1>t, <1>3 DEF WorkInv, Updates, Rolls, Updating, Rolling
  <2>5. SnapInv'
    BY <1>t, <1>3, Values DEF SnapInv, Program
  <2>6. StageInv'
    BY <1>t, <1>3, Values DEF StageInv, Updates, Updating, Rolling
  <2>7. RollInv'
    BY <1>t, <1>3, Values DEF RollInv, Updating, Rolling
  <2>8. DataInv'
    BY <1>t, <1>3, Values DEF DataInv, Original, Undoing, Program
  <2>9. Stays
    BY <1>t, <1>3, Values DEF Stays, Saved, Versions
  <2> QED BY <2>1, <2>2, <2>3, <2>4, <2>5, <2>6, <2>7, <2>8, <2>9 DEF IInv
<1> QED BY <1>1, <1>2, <1>3

\* A state file is restored.
LEMMA RestoreKeeps ==
  ASSUME Calm, IInv, Restore
  PROVE  IInv' /\ Stays
<1>t. /\ Types /\ AppInv /\ OfferInv /\ WorkInv /\ SnapInv /\ StageInv /\ RollInv /\ DataInv
  BY DEF IInv
<1>1. \/ \E f \in todo :
            /\ worker = "restore" /\ live' = [live EXCEPT ![f] = prev.dir.files[f]]
            /\ todo' = todo \ {f}
            /\ UNCHANGED <<mode, exe, parked, app, run, attempts, state, avail, pending, skipped,
                busy, store, cache, worker, spec, prev, staging, noted, journal, kept, latest,
                crashes>>
      \/ /\ worker = "restore" /\ todo = {} /\ worker' = "swap"
         /\ UNCHANGED <<mode, exe, parked, app, run, attempts, state, avail, pending, skipped,
             busy, store, cache, spec, todo, prev, staging, noted, journal, kept, live, latest,
             crashes>>
      \/ /\ worker = "restore" /\ worker' = "revert"
         /\ UNCHANGED <<mode, exe, parked, app, run, attempts, state, avail, pending, skipped,
             busy, store, cache, spec, todo, prev, staging, noted, journal, kept, live, latest,
             crashes>>
  BY <1>t DEF Restore, At, Work, Working, process, service, launcher, offered, saved, undo
<1>2. ASSUME NEW f \in todo,
           /\ worker = "restore" /\ live' = [live EXCEPT ![f] = prev.dir.files[f]]
           /\ todo' = todo \ {f}
           /\ UNCHANGED <<mode, exe, parked, app, run, attempts, state, avail, pending, skipped,
               busy, store, cache, worker, spec, prev, staging, noted, journal, kept, latest,
               crashes>>
    PROVE  IInv' /\ Stays
  <2>1. /\ f \in Files /\ live' \in [Files -> Copies] /\ live'[f] = prev.dir.files[f]
        /\ \A g \in Files \ {f} : live'[g] = live[g]
    BY <1>t, <1>2, Values DEF Types
  <2>2. Types'
    BY <1>t, <1>2, <2>1, Values DEF Types, Apps, States
  <2>3. AppInv'
    BY <1>t, <1>2 DEF AppInv
  <2>4. OfferInv'
    BY <1>t, <1>2 DEF OfferInv
  <2>5. WorkInv'
    BY <1>t, <1>2 DEF WorkInv, Updates, Rolls, Updating, Rolling
  <2>6. SnapInv'
    BY <1>t, <1>2, Values DEF SnapInv, Program
  <2>7. StageInv'
    BY <1>t, <1>2, Values DEF StageInv, Updates, Updating, Rolling
  <2>8. RollInv'
    BY <1>t, <1>2, <2>1, Values DEF RollInv, Updating, Rolling
  <2>9. DataInv'
    BY <1>t, <1>2, <2>1, Values
    DEF DataInv, Original, Undoing, Program, RollInv, Rolling, WorkInv, Rolls, SnapInv, Sound,
        StageInv
  <2>10. Stays
    BY <1>t, <1>2, Values DEF Stays, Saved, Versions
  <2> QED BY <2>2, <2>3, <2>4, <2>5, <2>6, <2>7, <2>8, <2>9, <2>10 DEF IInv
<1>3. CASE /\ worker = "restore" /\ todo = {} /\ worker' = "swap"
           /\ UNCHANGED <<mode, exe, parked, app, run, attempts, state, avail, pending, skipped,
               busy, store, cache, spec, todo, prev, staging, noted, journal, kept, live, latest,
               crashes>>
  <2>1. Types'
    BY <1>t, <1>3, Values DEF Types, Apps, States
  <2>2. AppInv'
    BY <1>t, <1>3 DEF AppInv
  <2>3. OfferInv'
    BY <1>t, <1>3 DEF OfferInv
  <2>4. WorkInv'
    BY <1>t, <1>3 DEF WorkInv, Updates, Rolls, Updating, Rolling
  <2>5. SnapInv'
    BY <1>t, <1>3, Values DEF SnapInv, Program
  <2>6. StageInv'
    BY <1>t, <1>3, Values DEF StageInv, Updates, Updating, Rolling
  <2>7. RollInv'
    BY <1>t, <1>3, Values DEF RollInv, Updating, Rolling
  <2>8. DataInv'
    BY <1>t, <1>3, Values
    DEF DataInv, Original, Undoing, Program, RollInv, Rolling, WorkInv, Rolls, SnapInv, Sound,
        StageInv
  <2>9. Stays
    BY <1>t, <1>3, Values DEF Stays, Saved, Versions
  <2> QED BY <2>1, <2>2, <2>3, <2>4, <2>5, <2>6, <2>7, <2>8, <2>9 DEF IInv
<1>4. CASE /\ worker = "restore" /\ worker' = "revert"
           /\ UNCHANGED <<mode, exe, parked, app, run, attempts, state, avail, pending, skipped,
               busy, store, cache, spec, todo, prev, staging, noted, journal, kept, live, latest,
               crashes>>
  <2>1. Types'
    BY <1>t, <1>4, Values DEF Types, Apps, States
  <2>2. AppInv'
    BY <1>t, <1>4 DEF AppInv
  <2>3. OfferInv'
    BY <1>t, <1>4 DEF OfferInv
  <2>4. WorkInv'
    BY <1>t, <1>4 DEF WorkInv, Updates, Rolls, Updating, Rolling
  <2>5. SnapInv'
    BY <1>t, <1>4, Values DEF SnapInv, Program
  <2>6. StageInv'
    BY <1>t, <1>4, Values DEF StageInv, Updates, Updating, Rolling
  <2>7. RollInv'
    BY <1>t, <1>4, Values DEF RollInv, Updating, Rolling
  <2>8. DataInv'
    BY <1>t, <1>4, Values
    DEF DataInv, Original, Undoing, Program, RollInv, Rolling, WorkInv, Rolls, SnapInv, Sound,
        StageInv
  <2>9. Stays
    BY <1>t, <1>4, Values DEF Stays, Saved, Versions
  <2> QED BY <2>1, <2>2, <2>3, <2>4, <2>5, <2>6, <2>7, <2>8, <2>9 DEF IInv
<1> QED BY <1>1, <1>2, <1>3, <1>4

\* The program is replaced by the saved one.
LEMMA SwapKeeps ==
  ASSUME Calm, IInv, Swap
  PROVE  IInv' /\ Stays
<1>t. /\ Types /\ AppInv /\ OfferInv /\ WorkInv /\ SnapInv /\ StageInv /\ RollInv /\ DataInv
  BY DEF IInv
<1>1. \/ /\ worker = "swap" /\ app = "down" /\ exe' = spec.to /\ worker' = "drop"
         /\ latest' = [g \in Files |-> live[g].gen]
         /\ UNCHANGED <<mode, parked, app, run, attempts, state, avail, pending, skipped, busy,
             store, cache, spec, todo, prev, staging, noted, journal, kept, live, crashes>>
      \/ /\ worker = "swap" /\ worker' = "revert"
         /\ UNCHANGED <<mode, exe, parked, app, run, attempts, state, avail, pending, skipped,
             busy, store, cache, spec, todo, prev, staging, noted, journal, kept, live, latest,
             crashes>>
  BY <1>t DEF Swap, At, Work, Working, process, service, offered, saved, undo
<1>2. CASE /\ worker = "swap" /\ app = "down" /\ exe' = spec.to /\ worker' = "drop"
           /\ latest' = [g \in Files |-> live[g].gen]
           /\ UNCHANGED <<mode, parked, app, run, attempts, state, avail, pending, skipped, busy,
               store, cache, spec, todo, prev, staging, noted, journal, kept, live, crashes>>
  <2>1. /\ latest' \in [Files -> 0..MaxWrites] /\ \A g \in Files : latest'[g] = live[g].gen
    BY <1>t, <1>2, Values DEF Copies
  <2>2. Types'
    BY <1>t, <1>2, <2>1, Values DEF Types, Apps, States
  <2>3. AppInv'
    BY <1>t, <1>2 DEF AppInv, WorkInv
  <2>4. OfferInv'
    BY <1>t, <1>2 DEF OfferInv
  <2>5. WorkInv'
    BY <1>t, <1>2 DEF WorkInv, Updates, Rolls, Updating, Rolling
  <2>6. SnapInv'
    BY <1>t, <1>2, Values DEF SnapInv, Program, RollInv, StageInv, Rolling
  <2>7. StageInv'
    BY <1>t, <1>2, Values DEF StageInv, Updates, Updating, Rolling
  <2>8. RollInv'
    BY <1>t, <1>2, Values DEF RollInv, Updating, Rolling
  <2>9. DataInv'
    BY <1>t, <1>2, <2>1, Values
    DEF DataInv, Original, Undoing, Program, RollInv, WorkInv, Rolls, Rolling, SnapInv, Sound
  <2>10. Stays
    BY <1>t, <1>2, Values DEF Stays, Saved, Versions
  <2> QED BY <2>2, <2>3, <2>4, <2>5, <2>6, <2>7, <2>8, <2>9, <2>10 DEF IInv
<1>3. CASE /\ worker = "swap" /\ worker' = "revert"
           /\ UNCHANGED <<mode, exe, parked, app, run, attempts, state, avail, pending, skipped,
               busy, store, cache, spec, todo, prev, staging, noted, journal, kept, live, latest,
               crashes>>
  <2>1. Types'
    BY <1>t, <1>3, Values DEF Types, Apps, States
  <2>2. AppInv'
    BY <1>t, <1>3 DEF AppInv
  <2>3. OfferInv'
    BY <1>t, <1>3 DEF OfferInv
  <2>4. WorkInv'
    BY <1>t, <1>3 DEF WorkInv, Updates, Rolls, Updating, Rolling
  <2>5. SnapInv'
    BY <1>t, <1>3, Values DEF SnapInv, Program
  <2>6. StageInv'
    BY <1>t, <1>3, Values DEF StageInv, Updates, Updating, Rolling
  <2>7. RollInv'
    BY <1>t, <1>3, Values DEF RollInv, Updating, Rolling
  <2>8. DataInv'
    BY <1>t, <1>3, Values DEF DataInv, Original, Undoing, Program
  <2>9. Stays
    BY <1>t, <1>3, Values DEF Stays, Saved, Versions
  <2> QED BY <2>1, <2>2, <2>3, <2>4, <2>5, <2>6, <2>7, <2>8, <2>9 DEF IInv
<1> QED BY <1>1, <1>2, <1>3

\* The saved version that now runs is no longer saved.
LEMMA DropKeeps ==
  ASSUME Calm, IInv, Drop
  PROVE  IInv' /\ Stays
<1>t. /\ Types /\ AppInv /\ OfferInv /\ WorkInv /\ SnapInv /\ StageInv /\ RollInv /\ DataInv
  BY DEF IInv
<1>1. \/ /\ worker = "drop" /\ prev.rec # 0 /\ prev' = [prev EXCEPT !.rec = 0]
         /\ UNCHANGED <<mode, exe, parked, app, run, attempts, state, avail, pending, skipped,
             busy, store, cache, worker, spec, todo, staging, noted, journal, kept, live, latest,
             crashes>>
      \/ /\ worker = "drop" /\ prev.rec = 0 /\ prev' = [prev EXCEPT !.dir = NoDir]
         /\ journal' = NoJournal /\ kept' = NoKept /\ worker' = "relaunch"
         /\ UNCHANGED <<mode, exe, parked, app, run, attempts, state, avail, pending, skipped,
             busy, store, cache, spec, todo, staging, noted, live, latest, crashes>>
      \/ /\ worker = "drop" /\ worker' = "relaunch"
         /\ UNCHANGED <<mode, exe, parked, app, run, attempts, state, avail, pending, skipped,
             busy, store, cache, spec, todo, prev, staging, noted, journal, kept, live, latest,
             crashes>>
  BY <1>t DEF Drop, At, DropRecord, undo, work, DropDir, Work, Working, process, service, launcher,
          offered, data
<1>2. CASE /\ worker = "drop" /\ prev.rec # 0 /\ prev' = [prev EXCEPT !.rec = 0]
           /\ UNCHANGED <<mode, exe, parked, app, run, attempts, state, avail, pending, skipped,
               busy, store, cache, worker, spec, todo, staging, noted, journal, kept, live, latest,
               crashes>>
  <2>1. prev' \in Snapshots /\ prev'.rec = 0 /\ prev'.dir = prev.dir
    BY <1>t, <1>2, Values, SnapshotsAre
  <2>2. Types'
    BY <1>t, <1>2, <2>1, Values DEF Types, Apps, States
  <2>3. AppInv'
    BY <1>t, <1>2 DEF AppInv
  <2>4. OfferInv'
    BY <1>t, <1>2 DEF OfferInv
  <2>5. WorkInv'
    BY <1>t, <1>2 DEF WorkInv, Updates, Rolls, Updating, Rolling
  <2>6. SnapInv'
    BY <1>t, <1>2, <2>1, Values DEF SnapInv, Program, StageInv, Rolling
  <2>7. StageInv'
    BY <1>t, <1>2, <2>1, Values DEF StageInv, Updates, Updating, Rolling, AppInv
  <2>8. RollInv'
    BY <1>t, <1>2, <2>1, Values DEF RollInv, Updating, Rolling
  <2>9. DataInv'
    BY <1>t, <1>2, Values DEF DataInv, Original, Undoing, Program
  <2>10. Stays
    BY <1>t, <1>2, <2>1, Values DEF Stays, Saved, Versions, RollInv, WorkInv, StageInv, Rolling
  <2> QED BY <2>2, <2>3, <2>4, <2>5, <2>6, <2>7, <2>8, <2>9, <2>10 DEF IInv
<1>3. CASE /\ worker = "drop" /\ prev.rec = 0 /\ prev' = [prev EXCEPT !.dir = NoDir]
           /\ journal' = NoJournal /\ kept' = NoKept /\ worker' = "relaunch"
           /\ UNCHANGED <<mode, exe, parked, app, run, attempts, state, avail, pending, skipped,
               busy, store, cache, spec, todo, staging, noted, live, latest, crashes>>
  <2>1. prev' \in Snapshots /\ prev'.rec = prev.rec /\ prev'.dir = NoDir
    BY <1>t, <1>3, Values, SnapshotsAre
  <2>2. Types'
    BY <1>t, <1>3, <2>1, Values DEF Types, Apps, States
  <2>3. AppInv'
    BY <1>t, <1>3 DEF AppInv
  <2>4. OfferInv'
    BY <1>t, <1>3 DEF OfferInv
  <2>5. WorkInv'
    BY <1>t, <1>3 DEF WorkInv, Updates, Rolls, Updating, Rolling
  <2>6. SnapInv'
    BY <1>t, <1>3, <2>1, Values DEF SnapInv, Program, StageInv, Rolling
  <2>7. StageInv'
    BY <1>t, <1>3, <2>1, Values DEF StageInv, Updates, Updating, Rolling, AppInv
  <2>8. RollInv'
    BY <1>t, <1>3, <2>1, Values DEF RollInv, Updating, Rolling
  <2>9. DataInv'
    BY <1>t, <1>3, Values DEF DataInv, Original, Undoing, Program, RollInv, WorkInv, Rolls, Rolling
  <2>10. Stays
    BY <1>t, <1>3, <2>1, Values DEF Stays, Saved, Versions, RollInv, WorkInv, StageInv, Rolling
  <2> QED BY <2>2, <2>3, <2>4, <2>5, <2>6, <2>7, <2>8, <2>9, <2>10 DEF IInv
<1>4. CASE /\ worker = "drop" /\ worker' = "relaunch"
           /\ UNCHANGED <<mode, exe, parked, app, run, attempts, state, avail, pending, skipped,
               busy, store, cache, spec, todo, prev, staging, noted, journal, kept, live, latest,
               crashes>>
  <2>1. Types'
    BY <1>t, <1>4, Values DEF Types, Apps, States
  <2>2. AppInv'
    BY <1>t, <1>4 DEF AppInv
  <2>3. OfferInv'
    BY <1>t, <1>4 DEF OfferInv
  <2>4. WorkInv'
    BY <1>t, <1>4 DEF WorkInv, Updates, Rolls, Updating, Rolling
  <2>5. SnapInv'
    BY <1>t, <1>4, Values DEF SnapInv, Program, StageInv, Rolling
  <2>6. StageInv'
    BY <1>t, <1>4, Values DEF StageInv, Updates, Updating, Rolling, AppInv
  <2>7. RollInv'
    BY <1>t, <1>4, Values DEF RollInv, Updating, Rolling
  <2>8. DataInv'
    BY <1>t, <1>4, Values DEF DataInv, Original, Undoing, Program
  <2>9. Stays
    BY <1>t, <1>4, Values DEF Stays, Saved, Versions, RollInv, WorkInv, StageInv, Rolling
  <2> QED BY <2>1, <2>2, <2>3, <2>4, <2>5, <2>6, <2>7, <2>8, <2>9 DEF IInv
<1> QED BY <1>1, <1>2, <1>3, <1>4

\* What a rollback that failed has written over goes back.
LEMMA RevertKeeps ==
  ASSUME Calm, IInv, Revert
  PROVE  IInv' /\ Stays
<1>t. /\ Types /\ AppInv /\ OfferInv /\ WorkInv /\ SnapInv /\ StageInv /\ RollInv /\ DataInv
  BY DEF IInv
<1>1. \/ \E f \in Files :
            /\ worker = "revert" /\ journal # NoJournal /\ f \in Kept
            /\ live' = [live EXCEPT ![f] = kept[f]]
            /\ UNCHANGED <<mode, exe, parked, app, run, attempts, state, avail, pending, skipped,
                busy, store, cache, worker, spec, todo, prev, staging, noted, journal, kept,
                latest, crashes>>
      \/ /\ worker = "revert" /\ AllBack /\ journal' = NoJournal /\ kept' = NoKept
         /\ worker' = "relaunch"
         /\ UNCHANGED <<mode, exe, parked, app, run, attempts, state, avail, pending, skipped,
             busy, store, cache, spec, todo, prev, staging, noted, live, latest, crashes>>
  BY <1>t DEF Revert, At, PutBack, undo, work, DropKept, data, Work, Working, process, service,
          launcher, offered, saved, Calm
<1>2. ASSUME NEW f \in Files,
           /\ worker = "revert" /\ journal # NoJournal /\ f \in Kept
           /\ live' = [live EXCEPT ![f] = kept[f]]
           /\ UNCHANGED <<mode, exe, parked, app, run, attempts, state, avail, pending, skipped,
               busy, store, cache, worker, spec, todo, prev, staging, noted, journal, kept, latest,
               crashes>>
    PROVE  IInv' /\ Stays
  <2>1. live' \in [Files -> Copies] /\ live'[f] = kept[f]
        /\ \A g \in Files \ {f} : live'[g] = live[g]
    BY <1>t, <1>2 DEF Types
  <2>2. Types'
    BY <1>t, <1>2, <2>1, Values DEF Types, Apps, States
  <2>3. AppInv'
    BY <1>t, <1>2 DEF AppInv
  <2>4. OfferInv'
    BY <1>t, <1>2 DEF OfferInv
  <2>5. WorkInv'
    BY <1>t, <1>2 DEF WorkInv, Updates, Rolls, Updating, Rolling
  <2>6. SnapInv'
    BY <1>t, <1>2, Values DEF SnapInv, Program
  <2>7. StageInv'
    BY <1>t, <1>2, Values DEF StageInv, Updates, Updating, Rolling
  <2>8. RollInv'
    BY <1>t, <1>2, <2>1, Values DEF RollInv, Updating, Rolling
  <2>9. DataInv'
    BY <1>t, <1>2, <2>1, Values
    DEF DataInv, Original, Undoing, Program, RollInv, WorkInv, Rolls, Rolling, Kept
  <2>10. Stays
    BY <1>t, <1>2, Values DEF Stays, Saved, Versions
  <2> QED BY <2>2, <2>3, <2>4, <2>5, <2>6, <2>7, <2>8, <2>9, <2>10 DEF IInv
<1>3. CASE /\ worker = "revert" /\ AllBack /\ journal' = NoJournal /\ kept' = NoKept
           /\ worker' = "relaunch"
           /\ UNCHANGED <<mode, exe, parked, app, run, attempts, state, avail, pending, skipped,
               busy, store, cache, spec, todo, prev, staging, noted, live, latest, crashes>>
  <2>1. Types'
    BY <1>t, <1>3, Values DEF Types, Apps, States
  <2>2. AppInv'
    BY <1>t, <1>3 DEF AppInv
  <2>3. OfferInv'
    BY <1>t, <1>3 DEF OfferInv
  <2>4. WorkInv'
    BY <1>t, <1>3 DEF WorkInv, Updates, Rolls, Updating, Rolling
  <2>5. SnapInv'
    BY <1>t, <1>3, Values DEF SnapInv, Program
  <2>6. StageInv'
    BY <1>t, <1>3, Values DEF StageInv, Updates, Updating, Rolling
  <2>7. RollInv'
    BY <1>t, <1>3, Values DEF RollInv, Updating, Rolling
  <2>8. DataInv'
    BY <1>t, <1>3, Values DEF DataInv, Original, Undoing, Program, AllBack, Kept
  <2>9. Stays
    BY <1>t, <1>3, Values DEF Stays, Saved, Versions
  <2> QED BY <2>1, <2>2, <2>3, <2>4, <2>5, <2>6, <2>7, <2>8, <2>9 DEF IInv
<1> QED BY <1>1, <1>2, <1>3

\* The worker ends without a launcher.
LEMMA RelaunchFailsKeeps ==
  ASSUME Calm, IInv, RelaunchFails
  PROVE  IInv' /\ Stays
<1>t. /\ Types /\ AppInv /\ OfferInv /\ WorkInv /\ SnapInv /\ StageInv /\ RollInv /\ DataInv
  BY DEF IInv
<1>1. /\ worker = "relaunch" /\ worker' = "none"
      /\ UNCHANGED <<mode, exe, parked, app, run, attempts, state, avail, pending, skipped, busy,
          store, cache, spec, todo, prev, staging, noted, journal, kept, live, latest, crashes>>
  BY <1>t DEF RelaunchFails, At, Work, Working, process, service, launcher, offered, saved, undo, data
<1>2. Types'
  BY <1>t, <1>1, Values DEF Types, Apps, States
<1>3. AppInv'
  BY <1>t, <1>1 DEF AppInv
<1>4. OfferInv'
  BY <1>t, <1>1 DEF OfferInv
<1>5. WorkInv'
  BY <1>t, <1>1 DEF WorkInv, Updates, Rolls, Updating, Rolling
<1>6. SnapInv'
  BY <1>t, <1>1, Values DEF SnapInv, Program
<1>7. StageInv'
  BY <1>t, <1>1, Values DEF StageInv, Updates, Updating, Rolling
<1>8. RollInv'
  BY <1>t, <1>1, Values DEF RollInv, Updating, Rolling
<1>9. DataInv'
  BY <1>t, <1>1, Values DEF DataInv, Original, Undoing, Program
<1>10. Stays
  BY <1>t, <1>1, Values DEF Stays, Saved, Versions
<1> QED BY <1>2, <1>3, <1>4, <1>5, <1>6, <1>7, <1>8, <1>9, <1>10 DEF IInv

\* The machine stops.
LEMMA CrashKeeps ==
  ASSUME Calm, IInv, Crash
  PROVE  IInv' /\ Stays
<1>t. /\ Types /\ AppInv /\ OfferInv /\ WorkInv /\ SnapInv /\ StageInv /\ RollInv /\ DataInv
  BY DEF IInv
<1>1. /\ worker # "parked" /\ app' = "down" /\ run' = 0 /\ state' = "idle" /\ avail' = 0
      /\ pending' = 0 /\ skipped' = 0 /\ busy' = FALSE /\ worker' = "none" /\ spec' = NoSpec
      /\ todo' = {} /\ crashes' = crashes + 1
      /\ UNCHANGED <<mode, exe, parked, attempts, store, cache, prev, staging, noted, journal,
          kept, live, latest>>
  BY <1>t DEF Crash, Stopped, launcher, offered, saved, undo, data, Calm
<1>2. Types'
  BY <1>t, <1>1, Values DEF Types, Apps, States, NoSpec, Specs
<1>3. AppInv'
  BY <1>t, <1>1 DEF AppInv
<1>4. OfferInv'
  BY <1>t, <1>1 DEF OfferInv
<1>5. WorkInv'
  BY <1>t, <1>1 DEF WorkInv, Updates, Rolls, Updating, Rolling
<1>6. SnapInv'
  BY <1>t, <1>1, Values DEF SnapInv, Program
<1>7. StageInv'
  BY <1>t, <1>1, Values DEF StageInv, Updates, Updating, Rolling
<1>8. RollInv'
  BY <1>t, <1>1, Values DEF RollInv, Updating, Rolling
<1>9. DataInv'
  BY <1>t, <1>1, Values DEF DataInv, Original, Undoing, Program
<1>10. Stays
  BY <1>t, <1>1, Values DEF Stays, Saved, Versions
<1> QED BY <1>2, <1>3, <1>4, <1>5, <1>6, <1>7, <1>8, <1>9, <1>10 DEF IInv

-----------------------------------------------------------------------------
(* The theorems *)

\* It holds at first ...
LEMMA InitKeeps == ASSUME Init PROVE IInv
<1>1. /\ exe = 1 /\ parked = 0 /\ app = "down" /\ run = 0 /\ attempts = [of |-> 0, n |-> 0]
      /\ state = "idle" /\ avail = 0 /\ pending = 0 /\ skipped = 0 /\ busy = FALSE
      /\ store = [avail |-> 0, ready |-> 0, skipped |-> 0] /\ cache = {}
      /\ worker = "none" /\ spec = NoSpec /\ todo = {} /\ mode \in Modes
      /\ prev = NoSnapshot /\ staging = NoSnapshot /\ noted = FALSE
      /\ journal = NoJournal /\ kept = NoKept
      /\ live = [f \in Files |-> [schema |-> Schema[f][1], gen |-> 0]]
      /\ latest = [f \in Files |-> 0]
  BY DEF Init
<1>2. 1 \in Versions /\ 0 \in 0..MaxWrites /\ 0 \in 0..MaxAttempts /\ 1 \in 0..Latest
  BY SelfUpdateConstants DEF Versions
<1>3. /\ live \in [Files -> Copies]
      /\ \A f \in Files : live[f].schema = Schema[f][1] /\ live[f].gen = 0 /\ live[f].schema # 0
  BY <1>1, <1>2, SchemasGrow DEF Copies
<1>4. latest \in [Files -> 0..MaxWrites] /\ \A f \in Files : latest[f] = 0
  BY <1>1, <1>2
<1>5. Types
  BY <1>1, <1>2, <1>3, <1>4, Values DEF Types, Apps, States, Stores, Attempts, NoSpec, Specs
<1>6. AppInv /\ OfferInv /\ WorkInv
  BY <1>1 DEF AppInv, OfferInv, WorkInv, Updates, Rolls, Updating, Rolling
<1>7. SnapInv /\ StageInv
  BY <1>1, Values DEF SnapInv, StageInv, Program, Updates, Updating, Rolling
<1>8. RollInv
  BY <1>1, Values DEF RollInv, Updating, Rolling
<1>9. DataInv
  BY <1>1, <1>2, <1>3, <1>4, Values, SchemasGrow DEF DataInv, Original, Undoing, Program
<1> QED BY <1>5, <1>6, <1>7, <1>8, <1>9 DEF IInv

\* ... and every step keeps it, and with it what can be rolled back to.
LEMMA NextKeeps ==
  ASSUME Calm, IInv, [Next]_vars
  PROVE  IInv' /\ Stays
<1>1. CASE WorkerStep
  BY <1>1, LaunchKeeps, WaitedKeeps, SnapshotKeeps, RecordKeeps, ReplaceKeeps, PlaceKeeps, CommitKeeps,
     DiscardStagedKeeps, PlanKeeps, SkipKeeps, KeepKeeps, KeepJournalKeeps, RestoreKeeps, SwapKeeps,
     DropKeeps, RevertKeeps, RelaunchFailsKeeps
  DEF WorkerStep
<1>2. CASE LaunchStep
  BY <1>2, LaunchUndoKeeps, LaunchSettleKeeps, LaunchGuardKeeps, StartKeeps, StartFailsKeeps DEF LaunchStep
<1>3. CASE ServiceStep
  BY <1>3, DownloadFileKeeps, DownloadSaveKeeps, RestartMissedKeeps DEF ServiceStep
<1>4. CASE Users
  BY <1>4, LaunchKeeps, CheckKeeps, DownloadKeeps, ApplyKeeps, DismissKeeps, RollBackKeeps, QuitKeeps DEF Users
<1>5. CASE Succeeded
  BY <1>5, SucceededKeeps
<1>6. ASSUME NEW f \in Files, Write(f) PROVE IInv' /\ Stays
  BY <1>6, WriteKeeps
<1>7. CASE Crash
  BY <1>7, CrashKeeps
<1>8. CASE UNCHANGED vars
  <2>1. UNCHANGED <<mode, exe, parked, app, run, attempts, state, avail, pending, skipped, busy, store, cache,
                    worker, spec, todo, prev, staging, noted, journal, kept, live, latest, crashes>>
    BY <1>8 DEF vars, launcher, process, service, offered, work, saved, undo, data
  <2>2. Types' /\ AppInv' /\ OfferInv' /\ WorkInv'
    BY <2>1 DEF IInv, Types, AppInv, OfferInv, WorkInv, Updates, Rolls
  <2>3. SnapInv' /\ StageInv' /\ RollInv' /\ DataInv' /\ Stays
    BY <2>1 DEF IInv, SnapInv, Program, StageInv, Updates, RollInv, DataInv, Original, Undoing, Stays, Saved
  <2> QED BY <2>2, <2>3 DEF IInv
<1> QED BY <1>1, <1>2, <1>3, <1>4, <1>5, <1>6, <1>7, <1>8 DEF Next

\* The invariant says what the properties say.
LEMMA IInvImplies ==
  ASSUME IInv
  PROVE  Consistent /\ DataIsLatest
<1>t. Types /\ AppInv /\ OfferInv /\ SnapInv /\ RollInv /\ DataInv
  BY DEF IInv
<1>1. TypeOK
  <2>1. prev \in Snapshots /\ staging \in Snapshots
    BY <1>t DEF Types
  <2> QED BY <1>t, <2>1 DEF Types, AppInv, OfferInv, TypeOK, Apps, States, Stores, Attempts, Specs, Journals
<1>2. ASSUME app \in {"starting", "up"}, NEW f \in Files
      PROVE  live[f].schema <= Schema[f][run] /\ live[f].gen = latest[f]
  <2>1. run = exe /\ exe # 0 /\ journal = NoJournal
    BY <1>t, <1>2 DEF AppInv, RollInv
  <2> QED BY <1>t, <2>1 DEF DataInv, Original, Undoing, Program
<1>3. StateReadable /\ DataIsLatest
  BY <1>2 DEF StateReadable, DataIsLatest
<1>4. SnapshotWhole /\ Startable
  BY <1>t DEF SnapInv, SnapshotWhole, Whole, AppInv, Startable
<1> QED BY <1>1, <1>3, <1>4 DEF Consistent

\* The invariant holds in every state.
LEMMA Always == ASSUME Calm PROVE Spec => []IInv
<1>1. ASSUME Calm, IInv, [Next]_vars PROVE IInv'
  BY <1>1, NextKeeps
<1> QED BY InitKeeps, <1>1, PTL DEF Spec

\* After any update, rollback, failure or crash there is a launcher to start, it reads the
\* state files it finds, and the snapshot on offer is whole (Consistent).
THEOREM LauncherStarts == ASSUME Calm PROVE Spec => []Consistent
BY Always, IInvImplies, PTL

\* A launcher that runs has the data that was written last: a rollback that was cut off has
\* been undone, and one that went through is not (DataIsLatest).
THEOREM StateFilesAreLatest == ASSUME Calm PROVE Spec => []DataIsLatest
BY Always, IInvImplies, PTL

\* No step gives up the version the user could go back to, but for a newer one that is still
\* older than the program (KeepsRollback).
THEOREM RollbackIsKept == ASSUME Calm PROVE Spec => KeepsRollback
<1>1. ASSUME IInv, [Next]_vars
      PROVE  [\A v \in Saved \ Saved' :
                \/ v >= exe \/ \E w \in Saved' : v < w /\ w < exe
                \/ worker = "discard" /\ v = staging.rec]_vars
  BY <1>1, NextKeeps DEF Stays
<1> QED BY Always, <1>1, PTL DEF Spec, KeepsRollback
=============================================================================
