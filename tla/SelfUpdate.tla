------------------------------ MODULE SelfUpdate ------------------------------
(***************************************************************************)
(* The launcher replaces itself by a newer version and goes back to the     *)
(* saved one: the service that checks, downloads and hands over, the worker  *)
(* that runs after the launcher is gone, and what the next start settles.    *)
(*                                                                           *)
(* Versions are 1..Latest.  A state file carries the schema of the version   *)
(* that wrote it; an older launcher cannot read a newer schema.              *)
(* Abstracted: what is downloaded and how it is verified, release notes,     *)
(* progress, betas.                                                          *)
(***************************************************************************)
EXTENDS Naturals, FiniteSets

CONSTANTS Latest, Files,
          Schema,      \* the schema each version writes a file with
          Modes,       \* "installed", "portable"
          MaxAttempts, \* failedStartThreshold
          MaxWrites,   \* bound on Write
          MaxCrashes,  \* bound on Crash
          Events       \* faults, and the steps the bounds below leave out:
                       \*   saveFails    a record, a journal or a settings file cannot be written
                       \*   startFails   the services of a launcher do not come up
                       \*   exeLost      an installer is cut off while it writes the program, or the
                       \*                parked program cannot be put back
                       \*   crashParked  a stop between the two renames of a portable launcher
                       \*   undoFails    what a rollback wrote over cannot be put back
                       \*   settleFails  a staged snapshot cannot be removed or moved in
                       \*   startsTwice  the user starts a launcher while the worker is at it

Versions == 1..Latest

ASSUME SelfUpdateConstants ==
  /\ {Latest, MaxAttempts} \subseteq Nat \ {0} /\ {MaxWrites, MaxCrashes} \subseteq Nat
  /\ Schema \in [Files -> [Versions -> Nat \ {0}]]
  /\ \A f \in Files : \A v, w \in Versions : v <= w => Schema[f][v] <= Schema[f][w]
  /\ Modes \subseteq {"installed", "portable"}
  /\ Events \subseteq {"saveFails", "startFails", "exeLost", "crashParked", "undoFails",
                       "settleFails", "startsTwice"}

VARIABLES
  mode,      \* how the launcher is installed
  exe,       \* the version of the file that is started, 0 when there is none that runs
  parked,    \* the version of its .previous neighbour
  app,       \* the launcher: "down", "undo", "settle", "guard", "starting", "up"
  run,       \* the version that runs
  state,     \* s.status.State, "ready" and "applying" of the version "avail"
  avail,     \* s.status.AvailableVersion
  pending,   \* s.pendingVersion
  skipped,   \* s.skippedVersion
  busy,
  store,     \* state.json
  cache,     \* the versions whose artifact is in the cache
  attempts,  \* startup.json
  worker,    \* the step of the worker
  spec,      \* ... what it was told
  todo,      \* ... the files it has yet to restore
  prev,      \* the snapshot rollbacks use: its record and its directory
  staging,   \* the one that is being taken
  noted,     \* snapshot-failed.json
  journal,   \* the versions in replaced/journal.json
  kept,      \* the copies beside it
  live,      \* the state files
  latest,    \* the last that was written to each of them
  crashes

service  == <<state, avail, pending, skipped, busy>>
process  == <<app, run, attempts>>
launcher == <<exe, parked>>
saved    == <<prev, staging, noted>>
undo     == <<journal, kept>>
data     == <<live, latest>>
work     == <<worker, spec, todo>>
offered  == <<store, cache>>
vars == <<mode, launcher, process, service, offered, work, saved, undo, data, crashes>>

NoCopy == [schema |-> 0, gen |-> 0]
NoDir  == [of |-> 0, files |-> [f \in Files |-> NoCopy]]
NoSnapshot == [rec |-> 0, dir |-> NoDir]
NoJournal == [from |-> 0, to |-> 0]
NoKept == [f \in Files |-> NoCopy]
NoSpec == [kind |-> "none", from |-> 0, to |-> 0]
Whole(s) == s.rec # 0 /\ s.dir.of = s.rec
Kept == {f \in Files : kept[f] # NoCopy}
SaveFails == "saveFails" \in Events
SettleFails == "settleFails" \in Events

Idle == worker = "none"
At(step) == worker = step
Work(step) == worker' = step /\ UNCHANGED <<spec, todo>>

----------------------------------------------------------------------------
(* A snapshot becomes the one rollbacks use, and is dropped *)

\* dropPrevious: the record, then the directory with what a rollback kept in it.
DropRecord == prev' = [prev EXCEPT !.rec = 0] /\ UNCHANGED undo
DropDir == prev' = [prev EXCEPT !.dir = NoDir] /\ journal' = NoJournal /\ kept' = NoKept

\* promoteStaging, finishPromotion.  The note goes last: a stop or an error before leaves it.
Promote ==
  IF staging.dir = NoDir
    THEN /\ prev' = [prev EXCEPT !.rec = staging.rec]
         /\ staging' = [staging EXCEPT !.rec = 0]
         /\ noted' \in {FALSE, noted} /\ UNCHANGED undo
    ELSE /\ \/ prev.rec # 0 /\ DropRecord /\ UNCHANGED staging
            \/ prev.rec = 0 /\ prev.dir # NoDir /\ DropDir /\ UNCHANGED staging
            \/ /\ prev = NoSnapshot /\ prev' = [prev EXCEPT !.dir = staging.dir]
               /\ staging' = [staging EXCEPT !.dir = NoDir] /\ UNCHANGED undo
         /\ UNCHANGED noted
Promoted == staging.rec = 0

\* discardStaging: the record first.
Discard ==
  /\ staging' = IF staging.rec # 0 THEN [staging EXCEPT !.rec = 0] ELSE NoSnapshot
  /\ UNCHANGED <<prev, noted, undo>>
Discarded == staging = NoSnapshot

----------------------------------------------------------------------------
(* What a rollback has written over goes back *)

\* undoReplaced, a file at a time
PutBack(f) ==
  /\ f \in Kept /\ live[f] # kept[f]
  /\ live' = [live EXCEPT ![f] = kept[f]]
  /\ UNCHANGED <<latest, undo>>

\* os.RemoveAll of the copies and the journal
DropKept == journal' = NoJournal /\ kept' = NoKept /\ UNCHANGED data
AllBack == journal = NoJournal \/ \A f \in Kept : live[f] = kept[f]

----------------------------------------------------------------------------
(* The launcher starts: main *)

Stopped == /\ state' = "idle" /\ avail' = 0 /\ pending' = 0 /\ skipped' = 0 /\ busy' = FALSE

\* Started by the worker, or by the user.  Bound: not while the worker is at it.
Launch ==
  /\ app = "down" /\ exe # 0
  /\ Idle \/ At("relaunch") \/ "startsTwice" \in Events
  /\ app' = "undo" /\ run' = exe
  /\ worker' = IF At("relaunch") THEN "none" ELSE worker
  /\ UNCHANGED <<mode, launcher, attempts, service, offered, spec, todo, saved, undo, data, crashes>>

\* recoverReplaced
Undoes == journal # NoJournal /\ run = journal.from /\ run # journal.to
LaunchUndo ==
  /\ app = "undo"
  /\ \/ Undoes /\ (\E f \in Files : PutBack(f)) /\ UNCHANGED app
     \/ (~Undoes \/ AllBack) /\ DropKept /\ app' = "settle"
     \/ Undoes /\ "undoFails" \in Events /\ app' = "settle" /\ UNCHANGED <<undo, data>>
  /\ UNCHANGED <<mode, launcher, run, attempts, service, offered, work, saved, crashes>>

\* mutant: a snapshot that is not promoted when the program starts is dropped.
UpdateHappened_Never == staging.rec # 0 /\ staging.dir = NoDir /\ prev.dir # NoDir

\* recoverSnapshot.  The start goes on when it fails.
UpdateHappened ==
  staging.rec # 0 /\ IF staging.dir = NoDir THEN prev.dir # NoDir ELSE run > staging.rec
LaunchSettle ==
  /\ app = "settle"
  /\ \/ Discarded /\ app' = "guard" /\ UNCHANGED <<saved, undo>>
     \/ ~Discarded /\ UpdateHappened /\ Promote /\ UNCHANGED app
     \/ ~Discarded /\ ~UpdateHappened /\ Discard /\ UNCHANGED app
     \/ SettleFails /\ app' = "guard" /\ UNCHANGED <<saved, undo>>
  /\ UNCHANGED <<mode, launcher, run, attempts, service, offered, work, data, crashes>>

\* checkRollback
CanRollBack == Whole(prev) /\ ~noted /\ prev.rec < run

\* launchRollback
RollbackSpec == [kind |-> "rollback", from |-> run, to |-> prev.rec]

\* BeginStart and OfferRollback
Counted == IF attempts.of # run THEN 1
           ELSE IF attempts.n < MaxAttempts THEN attempts.n + 1 ELSE MaxAttempts
LaunchGuard ==
  /\ app = "guard"
  /\ \/ /\ app' = "starting" /\ attempts' = [of |-> run, n |-> Counted] /\ UNCHANGED <<run, work>>
     \/ /\ Counted = MaxAttempts /\ CanRollBack /\ Idle
        /\ app' = "down" /\ run' = 0 /\ attempts' = [of |-> run, n |-> Counted]
        /\ worker' = "wait" /\ spec' = RollbackSpec /\ todo' = {}
     \/ /\ Counted = MaxAttempts /\ CanRollBack
        /\ app' = "starting" /\ attempts' = [of |-> run, n |-> 0] /\ UNCHANGED <<run, work>>
  /\ UNCHANGED <<mode, launcher, service, offered, saved, undo, data, crashes>>

\* The services load the state files and write them in the schema of this version.
Migrated(f) == [live[f] EXCEPT !.schema = Schema[f][run]]

\* ServiceStartup: staleForCurrent and vetReady
Fresh == IF store.avail > run THEN store ELSE [store EXCEPT !.avail = 0, !.ready = 0]
Vetted == [Fresh EXCEPT !.ready = IF @ \in cache THEN @ ELSE 0]

Start ==
  /\ app = "starting"
  /\ app' = "up" /\ live' = [f \in Files |-> Migrated(f)]
  /\ parked' = 0
  /\ prev' = IF prev.rec = run THEN NoSnapshot ELSE prev
  /\ journal' = IF prev.rec = run THEN NoJournal ELSE journal
  /\ kept' = IF prev.rec = run THEN NoKept ELSE kept
  /\ store' = Vetted /\ avail' = Vetted.avail /\ skipped' = store.skipped
  /\ state' = IF Vetted.ready # 0 THEN "ready" ELSE IF Vetted.avail # 0 THEN "available" ELSE "idle"
  /\ cache' = cache \cap {Vetted.avail}
  /\ pending' = 0 /\ busy' = FALSE
  /\ UNCHANGED <<mode, exe, run, attempts, work, staging, noted, latest, crashes>>

\* A service did not come up, after some have written their files; the window never showed.
StartFails ==
  /\ app = "starting" /\ "startFails" \in Events
  /\ app' = "down" /\ run' = 0
  /\ \E loaded \in SUBSET Files : live' = [f \in Files |-> IF f \in loaded THEN Migrated(f) ELSE live[f]]
  /\ UNCHANGED <<mode, launcher, attempts, service, offered, work, saved, undo, latest, crashes>>

\* StartGuard.Succeeded
Succeeded ==
  /\ app = "up" /\ attempts.n # 0
  /\ attempts' = [of |-> 0, n |-> 0]
  /\ UNCHANGED <<mode, launcher, app, run, service, offered, work, saved, undo, data, crashes>>

----------------------------------------------------------------------------
(* The service *)

Up == app = "up" /\ UNCHANGED <<mode, launcher, process, saved, undo, data, crashes>>
Free == Up /\ ~busy

\* doCheck: the manifest names the version m, with the artifact that is ready or another.
Newer(m) == m > run /\ m > skipped
Check ==
  /\ Free
  /\ \E m \in Versions, same \in BOOLEAN :
       IF Newer(m) /\ state = "ready" /\ avail = m /\ same
         THEN store' = [avail |-> m, ready |-> m, skipped |-> skipped] /\ pending' = m
              /\ UNCHANGED <<state, avail>>
         ELSE LET to == IF Newer(m) THEN m ELSE 0 IN
              /\ store' = [avail |-> to, ready |-> 0, skipped |-> skipped]
              /\ state' = IF to # 0 THEN "available" ELSE "idle"
              /\ avail' = to /\ pending' = to
  /\ UNCHANGED <<skipped, busy, cache, work>>

\* downloadPending
Download ==
  /\ Free /\ state # "ready" /\ pending # 0
  /\ state' = "downloading" /\ busy' = TRUE
  /\ UNCHANGED <<avail, pending, skipped, offered, work>>

DownloadFile ==
  /\ Up /\ state = "downloading"
  /\ \/ cache' = cache \cup {pending} /\ UNCHANGED <<state, busy>>
     \/ state' = "available" /\ busy' = FALSE /\ UNCHANGED cache
  /\ UNCHANGED <<avail, pending, skipped, store, work>>

DownloadSave ==
  /\ Up /\ state = "downloading" /\ pending \in cache
  /\ \/ store' = [avail |-> avail, ready |-> avail, skipped |-> skipped] /\ state' = "ready"
     \/ SaveFails /\ state' = "available" /\ UNCHANGED store
  /\ busy' = FALSE
  /\ UNCHANGED <<avail, pending, skipped, cache, work>>

\* applyReady: the worker is started, or nothing changes.
Apply ==
  /\ Free /\ state = "ready" /\ Idle
  /\ state' = "applying" /\ busy' = TRUE
  /\ worker' = "wait" /\ spec' = [kind |-> "update", from |-> run, to |-> avail] /\ todo' = {}
  /\ UNCHANGED <<avail, pending, skipped, offered>>

\* DismissUpdate: the record, then the file, which may stay.
Dismiss ==
  /\ Free /\ state = "ready"
  /\ store' = [avail |-> avail, ready |-> 0, skipped |-> skipped]
  /\ state' = "available"
  /\ cache' = cache \ {avail} \/ UNCHANGED cache
  /\ UNCHANGED <<avail, pending, skipped, busy, work>>

\* ApplyRollback
RollBack ==
  /\ Free /\ CanRollBack /\ Idle
  /\ busy' = TRUE
  /\ worker' = "wait" /\ spec' = RollbackSpec /\ todo' = {}
  /\ UNCHANGED <<state, avail, pending, skipped, offered>>

\* mutant: only a missed update is noticed, not a missed rollback.
RestartMissed_UpdatesOnly ==
  /\ Up /\ busy /\ Idle /\ state = "applying"
  /\ busy' = FALSE /\ state' = "ready"
  /\ UNCHANGED <<avail, pending, skipped, offered, work>>

\* restartMissed: the worker has given up before.
RestartMissed ==
  /\ Up /\ busy /\ Idle /\ state # "downloading"
  /\ busy' = FALSE
  /\ state' = IF state = "applying" THEN "ready" ELSE state
  /\ UNCHANGED <<avail, pending, skipped, offered, work>>

\* A service saves its state file.
Write(f) ==
  /\ app = "up" /\ latest[f] < MaxWrites
  /\ live' = [live EXCEPT ![f].gen = latest[f] + 1]
  /\ latest' = [latest EXCEPT ![f] = @ + 1]
  /\ UNCHANGED <<mode, launcher, process, service, offered, work, saved, undo, crashes>>

\* The launcher is closed, by the user or for the worker.
Quit ==
  /\ app = "up"
  /\ app' = "down" /\ run' = 0 /\ Stopped
  /\ UNCHANGED <<mode, launcher, attempts, offered, work, saved, undo, data, crashes>>

----------------------------------------------------------------------------
(* The worker: an update *)

Working == UNCHANGED <<mode, process, service, crashes>>

\* waitForParentExit
Waited ==
  /\ At("wait")
  /\ \/ app = "down" /\ Work(IF spec.kind = "update" THEN "snapshot" ELSE "plan")
     \/ app # "down" /\ worker' = "none" /\ UNCHANGED <<spec, todo>>
  /\ Working /\ UNCHANGED <<launcher, offered, saved, undo, data>>

\* The update goes on without a copy of the launcher it replaces (staged is false).
Bare == worker' = "apply" /\ spec' = [spec EXCEPT !.kind = "bare"] /\ UNCHANGED todo

\* snapshotPrevious: what was staged before goes, the copies, then the record.
Snapshot ==
  /\ At("snapshot")
  /\ \/ staging' = [rec |-> 0, dir |-> [of |-> spec.from, files |-> live]] /\ Work("record")
     \/ staging' = NoSnapshot /\ Bare
     \/ SettleFails /\ staging' \in {staging, [staging EXCEPT !.rec = 0]} /\ Bare
  /\ Working /\ UNCHANGED <<launcher, offered, prev, noted, undo, data>>

Record ==
  /\ At("record")
  /\ \/ staging' = [staging EXCEPT !.rec = spec.from] /\ Work("apply")
     \/ SaveFails /\ staging' = NoSnapshot /\ Bare
     \/ SettleFails /\ UNCHANGED staging /\ Bare
  /\ Working /\ UNCHANGED <<launcher, offered, prev, noted, undo, data>>

\* applyUpdate: ApplyPortable parks the program first, Apply and applyReadyExe replace it.
\* An update can fail with the new program in place: the installer returns an error or is
\* cut off at its end, or what is there cannot be read.
Replaced == exe' = spec.to /\ UNCHANGED parked /\ (Work("commit") \/ Work("discard"))
Replace ==
  /\ At("apply") /\ UNCHANGED <<offered, saved, undo, data>> /\ Working
  /\ \/ /\ store.ready = spec.to /\ spec.to \in cache
        /\ \/ mode = "portable" /\ parked' = exe /\ exe' = 0 /\ Work("parked")
           \/ Replaced
           \/ "exeLost" \in Events /\ exe' = 0 /\ UNCHANGED parked /\ Work("discard")
     \/ UNCHANGED launcher /\ Work("discard")

\* applyPortableZip, its second rename, or the first one back
Place ==
  /\ At("parked")
  /\ \/ Replaced
     \/ exe' = parked /\ parked' = 0 /\ Work("discard")
     \/ "exeLost" \in Events /\ UNCHANGED launcher /\ Work("discard")
  /\ Working /\ UNCHANGED <<offered, saved, undo, data>>

\* commitSnapshot, or the note that there is no copy; the update has gone through either way.
Commit ==
  /\ At("commit")
  /\ \/ spec.kind = "update" /\ ~Promoted /\ Promote /\ UNCHANGED work
     \/ /\ spec.kind = "bare" /\ noted' = TRUE
        /\ UNCHANGED <<prev, staging, undo>> /\ Work("relaunch")
     \/ /\ SaveFails \/ (spec.kind = "update" /\ Promoted)
        /\ UNCHANGED <<saved, undo>> /\ Work("relaunch")
  /\ Working /\ UNCHANGED <<launcher, offered, data>>

\* The update has failed, whatever program is in place.
DiscardStaged ==
  /\ At("discard")
  /\ \/ spec.kind = "update" /\ ~Discarded /\ Discard /\ UNCHANGED work
     \/ /\ spec.kind = "bare" \/ Discarded \/ SettleFails
        /\ UNCHANGED <<saved, undo>> /\ Work("relaunch")
  /\ Working /\ UNCHANGED <<launcher, offered, data>>

----------------------------------------------------------------------------
(* The worker: a rollback *)

\* mutant: no state file is restored.
Plan_RestoresNothing ==
  /\ At("plan")
  /\ \/ /\ Whole(prev) /\ prev.rec = spec.to
        /\ todo' = {} /\ worker' = "skip" /\ UNCHANGED spec
     \/ Work("relaunch")
  /\ Working /\ UNCHANGED <<launcher, offered, saved, undo, data>>

\* performRollback: loadPrevious, verifyPreviousExe, planStateRestore, canSwap
Plan ==
  /\ At("plan")
  /\ \/ /\ Whole(prev) /\ prev.rec = spec.to
        /\ todo' = {f \in Files : live[f].schema # prev.dir.files[f].schema}
        /\ worker' = "skip" /\ UNCHANGED spec
     \/ Work("relaunch")
  /\ Working /\ UNCHANGED <<launcher, offered, saved, undo, data>>

\* markSkipped: an installer that is ready stays so, an executable does not.
Skip ==
  /\ At("skip")
  /\ \/ /\ \E ready \in {store.ready, 0} : store' = [store EXCEPT !.skipped = spec.from, !.ready = ready]
        /\ Work(IF todo = {} THEN "swap" ELSE "keep")
     \/ UNCHANGED store /\ Work("relaunch")
  /\ Working /\ UNCHANGED <<launcher, cache, saved, undo, data>>

\* saveReplaced: the copies, then the journal.
Keep ==
  /\ At("keep")
  /\ \/ /\ journal' = NoJournal /\ kept' = [f \in Files |-> IF f \in todo THEN live[f] ELSE NoCopy]
        /\ Work("journal")
     \/ UNCHANGED undo /\ Work("revert")
  /\ Working /\ UNCHANGED <<launcher, offered, saved, data>>

\* mutant: the files are written over without a journal.
KeepJournal_Skipped ==
  /\ At("journal") /\ UNCHANGED undo /\ Work("restore")
  /\ Working /\ UNCHANGED <<launcher, offered, saved, data>>

KeepJournal ==
  /\ At("journal")
  /\ \/ journal' = [from |-> spec.from, to |-> spec.to] /\ UNCHANGED kept /\ Work("restore")
     \/ SaveFails /\ UNCHANGED undo /\ Work("revert")
  /\ Working /\ UNCHANGED <<launcher, offered, saved, data>>

\* writeRestored, a file at a time
Restore ==
  /\ At("restore")
  /\ \/ \E f \in todo :
          /\ live' = [live EXCEPT ![f] = prev.dir.files[f]]
          /\ todo' = todo \ {f} /\ UNCHANGED <<worker, spec>>
     \/ todo = {} /\ UNCHANGED live /\ Work("swap")
     \/ SaveFails /\ UNCHANGED live /\ Work("revert")
  /\ Working /\ UNCHANGED <<launcher, offered, saved, undo, latest>>

\* swapExecutable, one rename; a launcher that runs cannot be replaced.
Swap ==
  /\ At("swap")
  /\ \/ /\ app = "down" /\ exe' = spec.to /\ Work("drop")
        /\ latest' = [f \in Files |-> live[f].gen]
     \/ UNCHANGED <<exe, latest>> /\ Work("revert")
  /\ Working /\ UNCHANGED <<parked, offered, saved, undo, live>>

\* dropPrevious, which may fail
Drop ==
  /\ At("drop")
  /\ \/ prev.rec # 0 /\ DropRecord /\ UNCHANGED work
     \/ prev.rec = 0 /\ DropDir /\ Work("relaunch")
     \/ UNCHANGED <<prev, undo>> /\ Work("relaunch")
  /\ Working /\ UNCHANGED <<launcher, offered, staging, noted, data>>

\* fail: undoReplaced
Revert ==
  /\ At("revert")
  /\ \/ journal # NoJournal /\ (\E f \in Files : PutBack(f)) /\ UNCHANGED work
     \/ AllBack /\ DropKept /\ Work("relaunch")
     \/ "undoFails" \in Events /\ UNCHANGED <<undo, data>> /\ Work("relaunch")
  /\ Working /\ UNCHANGED <<launcher, offered, saved>>

\* The relaunch fails, and the user is told to start the launcher himself.
RelaunchFails ==
  /\ At("relaunch") /\ Work("none")
  /\ Working /\ UNCHANGED <<launcher, offered, saved, undo, data>>

----------------------------------------------------------------------------
\* The machine stops.  Bound: not between the two renames of a portable launcher.
Crash ==
  /\ crashes < MaxCrashes /\ crashes' = crashes + 1
  /\ worker # "parked" \/ "crashParked" \in Events
  /\ app' = "down" /\ run' = 0 /\ Stopped
  /\ worker' = "none" /\ spec' = NoSpec /\ todo' = {}
  /\ UNCHANGED <<mode, launcher, attempts, offered, saved, undo, data>>

Init ==
  /\ mode \in Modes /\ exe = 1 /\ parked = 0
  /\ app = "down" /\ run = 0 /\ attempts = [of |-> 0, n |-> 0]
  /\ state = "idle" /\ avail = 0 /\ pending = 0 /\ skipped = 0 /\ busy = FALSE
  /\ store = [avail |-> 0, ready |-> 0, skipped |-> 0] /\ cache = {}
  /\ worker = "none" /\ spec = NoSpec /\ todo = {}
  /\ prev = NoSnapshot /\ staging = NoSnapshot /\ noted = FALSE
  /\ journal = NoJournal /\ kept = NoKept
  /\ live = [f \in Files |-> [schema |-> Schema[f][1], gen |-> 0]]
  /\ latest = [f \in Files |-> 0] /\ crashes = 0

WorkerStep ==
  \/ Waited \/ Snapshot \/ Record \/ Replace \/ Place \/ Commit \/ DiscardStaged
  \/ Plan \/ Skip \/ Keep \/ KeepJournal \/ Restore \/ Swap \/ Drop \/ Revert
  \/ At("relaunch") /\ Launch
  \/ RelaunchFails
LaunchStep == LaunchUndo \/ LaunchSettle \/ LaunchGuard \/ Start \/ StartFails
ServiceStep == DownloadFile \/ DownloadSave \/ RestartMissed
Users == (~At("relaunch") /\ Launch) \/ Check \/ Download \/ Apply \/ Dismiss \/ RollBack \/ Quit

Next == WorkerStep \/ LaunchStep \/ ServiceStep \/ Users
        \/ Succeeded \/ (\E f \in Files : Write(f)) \/ Crash

Spec == Init /\ [][Next]_vars

\* The processes run; what the user does, and when, is his choice.
FairSpec == Spec /\ WF_vars(WorkerStep) /\ WF_vars(LaunchStep) /\ WF_vars(ServiceStep)

----------------------------------------------------------------------------
(* Properties *)

Snapshots == [rec : 0..Latest, dir : [of : 0..Latest, files : [Files -> [schema : Nat, gen : 0..MaxWrites]]]]

\* Every variable has a value the code can store; a launcher that is counted
\* as starting is never past the attempts startup.go allows.
TypeOK ==
  /\ mode \in Modes /\ {exe, parked, run, avail, pending, skipped} \subseteq 0..Latest
  /\ app \in {"down", "undo", "settle", "guard", "starting", "up"} /\ (app = "down" <=> run = 0)
  /\ state \in {"idle", "available", "downloading", "ready", "applying"}
  /\ (busy => app = "up") /\ cache \subseteq Versions
  /\ store \in [avail : 0..Latest, ready : 0..Latest, skipped : 0..Latest]
  /\ attempts \in [of : 0..Latest, n : 0..MaxAttempts]
  /\ spec \in [kind : {"none", "update", "bare", "rollback"}, from : 0..Latest, to : 0..Latest]
  /\ todo \subseteq Files /\ {prev, staging} \subseteq Snapshots /\ noted \in BOOLEAN
  /\ journal \in [from : 0..Latest, to : 0..Latest]

\* A launcher whose services are about to load the state files can read every
\* one of them, whatever update or rollback was cut off before, and where
\* (performRollback, RecoverInterrupted).
StateReadable == app = "starting" => \A f \in Files : live[f].schema <= Schema[f][run]

\* The state files hold what was last written to them: a rollback that failed
\* or died left no older data behind, and one that went through is never undone
\* (undoReplaced, recoverReplaced, "the version did not change" of the data too).
DataIsLatest == app \in {"starting", "up"} => \A f \in Files : live[f].gen = latest[f]

\* A record on offer names a directory that is complete and of its version:
\* every removal and every promotion orders the two (dropPrevious, promoteStaging).
SnapshotWhole == prev.rec # 0 => Whole(prev)

\* A version the launcher can go back to, on offer or about to be.
Saved == {v \in Versions : \/ prev.rec = v /\ prev.dir.of = v
                           \/ staging.rec = v /\ v \in {staging.dir.of, prev.dir.of}}

\* A saved version older than the launcher is given up only for a newer one that
\* is older than the launcher too: an update that fails, a crash or the start
\* after it never leave the user without the rollback he had (runUpdate,
\* commitSnapshot, recoverSnapshot).  The one exception is the copy an update
\* took that reports an error: runUpdate discards it even when the new program
\* is in place; the snapshot on offer stays.
KeepsRollback ==
  [][\A v \in Saved \ Saved' :
       \/ v >= exe \/ \E w \in Saved' : v < w /\ w < exe
       \/ worker = "discard" /\ v = staging.rec]_vars

\* When no worker is at it there is a launcher to start: swapExecutable replaces it in one
\* rename, and a crash between the two renames of applyPortableZip is undone.
Startable == worker = "none" => exe # 0

\* The state is well formed; whatever was cut off, there is a program to start, it can read
\* its data, and the snapshot on offer is whole.
Consistent == TypeOK /\ StateReadable /\ SnapshotWhole /\ Startable

\* A service that is busy is not for good, also when the launcher does not quit
\* for the worker and the worker gives up (restartMissed), and a worker ends.
OperationsEnd == (busy ~> ~busy) /\ (worker # "none" ~> worker = "none")
=============================================================================
