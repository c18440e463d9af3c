------------------------------ MODULE SaveBackups ------------------------------
(***************************************************************************)
(* The copies of one game's saves: taken by hand, before a launch, after a   *)
(* session and before an update, rotated, and put back over the saves, with  *)
(* the journal that settles a restore the launcher did not live to finish.   *)
(*                                                                           *)
(* Contents are numbered in the order the game wrote them.  Abstracted: how  *)
(* the folder is found, hashing (a copy is what its digest says unless it    *)
(* rotted), copying into a copy (partial directories are swept unseen),      *)
(* free space, playtime.                                                     *)
(***************************************************************************)
EXTENDS Naturals, SequencesExt

CONSTANTS Limit,      \* SaveBackupLimit
          MaxPlays,   \* bound on Play
          MaxAsked,   \* bound on TakeCopy
          MaxFaults,  \* bound on the steps that fail
          MaxCrashes, \* bound on Crash
          Events      \* the steps the bounds below leave out

ASSUME SaveBackupsConstants ==
  /\ {Limit, MaxPlays} \subseteq Nat \ {0}
  /\ {MaxAsked, MaxFaults, MaxCrashes} \subseteq Nat
  /\ Events \subseteq {"rotten", "broken", "noHook", "quickSession"}

VARIABLES
  live,      \* the saves folder, 0 when it is not there
  previous,  \* its .typhon-previous neighbour
  staging,   \* its .typhon-restore neighbour
  journal,   \* restore.json
  snaps,     \* the copies, the newest first
  legacy,    \* the one copy earlier versions kept
  op,        \* what holds the lock of the game
  due,       \* the background work that waits for it
  game,      \* "idle", "starting", "running"
  hook,      \* the copy the launch waits for: "none", "queued", "taken"
  plays, faults, crashes

folders == <<live, previous, staging>>
session == <<game, hook, due>>
bounds  == <<plays, faults, crashes>>
vars == <<folders, journal, snaps, legacy, op, session, bounds>>

Half == MaxPlays + 1      \* a folder part of which is there
Folder == 0 .. Half
NoJournal == [on |-> FALSE, copying |-> FALSE, had |-> FALSE]
NoOp == [kind |-> "none", at |-> "none", idx |-> 0, of |-> 0, had |-> FALSE]
Free == op = NoOp
At(step) == op.at = step
Goto(step) == op' = [op EXCEPT !.at = step]
IsRunning == game # "idle"     \* GetRunningGames

Good == {snaps[i].of : i \in {j \in DOMAIN snaps : snaps[j].state = "good"}}
IsAuto(s) == s.kind # "manual" /\ s.state # "broken"

----------------------------------------------------------------------------
(* Taking a copy *)

\* How many automatic copies are newer than the one at i.
Newer(s, i) == Cardinality({j \in 1 .. i - 1 : IsAuto(s[j])})

\* What the rotation does not remove: the newest automatic copies, and the protected one.
Stays(s, protected) ==
  {i \in DOMAIN s : ~IsAuto(s[i]) \/ i = protected \/ Newer(s, i) < Limit}

\* rotate
Rotate(s, protected) ==
  LET kept == Stays(s, protected)
      Nth(n) == CHOOSE i \in kept : Cardinality({j \in kept : j < i}) = n - 1
  IN  [n \in 1 .. Cardinality(kept) |-> s[Nth(n)]]

Copy(kind, c) == [kind |-> kind, of |-> c, state |-> "good"]

\* The newest copy has this content already (dedupLatest).  Before the saves
\* are replaced its files are read again, otherwise its digest is believed.
Duplicate(c, verified) ==
  LET Listed == {i \in DOMAIN snaps : snaps[i].state # "broken"}
  IN  \E i \in Listed : /\ \A j \in Listed : i <= j
                        /\ snaps[i].of = c
                        /\ verified => snaps[i].state = "good"

\* capture: a new copy in front, and the rotation after it, which may fail.
Capture(kind, c, protected) ==
  LET all == <<Copy(kind, c)>> \o snaps
  IN  \/ snaps' = Rotate(all, protected) /\ faults' = faults
      \/ faults < MaxFaults /\ snaps' = all /\ faults' = faults + 1

CaptureNew(kind, c, verified, protected) ==
  IF Duplicate(c, verified) THEN UNCHANGED <<snaps, faults>>
                            ELSE Capture(kind, c, protected)

----------------------------------------------------------------------------
(* What an interrupted restore left: one step of the file system at a time *)

Gone(folder) == folder = 0

\* The states resolve knows what to do about.
Resolvable ==
  IF journal.copying THEN Gone(previous)
    ELSE \/ ~Gone(previous) /\ (Gone(live) \/ Gone(staging))
         \/ Gone(previous) /\ (~Gone(live) \/ ~journal.had)

Drops(folder, folder1) == folder1 \in {0, Half} /\ folder1 # folder

\* mutant: part of a copy counts as the copy.
ResolveStep_CopyingIgnored ==
  \/ /\ ~Gone(previous) /\ Gone(live)
     /\ live' = previous /\ previous' = 0 /\ UNCHANGED staging
  \/ /\ ~Gone(previous) /\ ~Gone(live)
     /\ Drops(previous, previous') /\ UNCHANGED <<live, staging>>
  \/ /\ Gone(previous) /\ ~Gone(live) /\ ~Gone(staging)
     /\ Drops(staging, staging') /\ UNCHANGED <<live, previous>>
  \/ /\ Gone(previous) /\ Gone(live) /\ ~Gone(staging)
     /\ live' = staging /\ staging' = 0 /\ UNCHANGED previous

\* The move or the removal resolve is at, if any is left.  A removal that
\* stops halfway leaves part of the folder.
ResolveStep ==
  \/ /\ journal.copying /\ ~Gone(staging)
     /\ Drops(staging, staging') /\ UNCHANGED <<live, previous>>
  \/ /\ ~journal.copying /\ ~Gone(previous) /\ Gone(live)
     /\ live' = previous /\ previous' = 0 /\ UNCHANGED staging
  \/ /\ ~journal.copying /\ ~Gone(previous) /\ ~Gone(live)
     /\ Drops(previous, previous') /\ UNCHANGED <<live, staging>>
  \/ /\ ~journal.copying /\ Gone(previous) /\ ~Gone(live) /\ ~Gone(staging)
     /\ Drops(staging, staging') /\ UNCHANGED <<live, previous>>
  \/ /\ ~journal.copying /\ Gone(previous) /\ Gone(live) /\ ~Gone(staging)
     /\ live' = staging /\ staging' = 0 /\ UNCHANGED previous

Resolved ==
  IF journal.copying THEN Gone(staging) ELSE Gone(previous) /\ Gone(staging)

----------------------------------------------------------------------------
(* An operation on the game: the lock, recoverGame, its own work *)

Body(kind) == CASE kind = "restore" -> "target"
                [] kind = "startup" -> "done"
                [] OTHER -> "capture"

\* The operation gives the lock back.  A launch that waited for it goes ahead,
\* unless what it found must not be launched over.
End(blocked) ==
  /\ op' = NoOp
  /\ IF op.kind = "launch" /\ hook = "taken"
       THEN hook' = "none" /\ game' = IF blocked THEN "idle" ELSE "running"
       ELSE UNCHANGED <<hook, game>>
  /\ due' = due

Begin(kind, idx) ==
  /\ Free
  /\ op' = [NoOp EXCEPT !.kind = kind, !.at = IF kind = "delete" THEN "delete" ELSE "recover",
                        !.idx = idx]

Restore == /\ \E i \in DOMAIN snaps : Begin("restore", i)
           /\ UNCHANGED <<folders, journal, snaps, legacy, session, bounds>>

\* Create, and SnapshotPath for an update.
TakeCopy == /\ Cardinality({i \in DOMAIN snaps : snaps[i].kind # "auto"}) < MaxAsked
            /\ \E kind \in {"create", "update"} : Begin(kind, 0)
            /\ UNCHANGED <<folders, journal, snaps, legacy, session, bounds>>

\* recoverGames after a start, autoBackup after a session.
BeginDue == /\ \E kind \in due : Begin(kind, 0) /\ due' = due \ {kind}
            /\ UNCHANGED <<folders, journal, snaps, legacy, game, hook, bounds>>

BeginLaunch == /\ hook = "queued" /\ Begin("launch", 0) /\ hook' = "taken"
               /\ UNCHANGED <<folders, journal, snaps, legacy, game, due, bounds>>

\* Delete does not recover anything first.
Delete ==
  /\ Free /\ \E i \in DOMAIN snaps : snaps' = RemoveAt(snaps, i)
  /\ UNCHANGED <<folders, journal, legacy, op, session, bounds>>

----------------------------------------------------------------------------
(* recoverGame *)

Recover ==
  /\ At("recover")
  /\ \/ /\ journal.on /\ Resolvable /\ ResolveStep
        /\ UNCHANGED <<journal, op, session>>
     \/ /\ journal.on /\ Resolvable /\ Resolved
        /\ journal' = NoJournal /\ UNCHANGED <<folders, op, session>>
     \/ /\ journal.on /\ ~Resolvable
        /\ End(TRUE) /\ UNCHANGED <<folders, journal>>
     \/ /\ ~journal.on
        /\ Goto(IF Gone(legacy) THEN Body(op.kind) ELSE "migrate")
        /\ UNCHANGED <<folders, journal, session>>
  /\ UNCHANGED <<snaps, legacy, bounds>>

\* migrateLegacy: a copy of it, unless a whole one of its kind is there
\* (dedupAny), as old as it is; then it is removed.
Migrate ==
  /\ At("migrate") /\ Goto("forget")
  /\ snaps' = IF \E i \in DOMAIN snaps : snaps[i] = Copy("update", legacy)
                THEN snaps ELSE Append(snaps, Copy("update", legacy))
  /\ UNCHANGED <<folders, journal, legacy, session, bounds>>

ForgetLegacy ==
  /\ At("forget") /\ Goto(Body(op.kind)) /\ legacy' = 0
  /\ UNCHANGED <<folders, journal, snaps, session, bounds>>

Done == /\ At("done") /\ End(FALSE)
        /\ UNCHANGED <<folders, journal, snaps, legacy, bounds>>

\* The work of every operation but a restore.
TakeIt ==
  /\ At("capture")
  /\ IF Gone(live) THEN UNCHANGED <<snaps, faults>>
       ELSE CASE op.kind = "create" -> Capture("manual", live, 0)
              [] op.kind = "update" -> Capture("update", live, 0)
              [] OTHER -> CaptureNew("auto", live, FALSE, 0)
  /\ End(FALSE)
  /\ UNCHANGED <<folders, journal, legacy, plays, crashes>>

----------------------------------------------------------------------------
(* Restore *)

\* The game is not running, the copy is what it was, nothing is in the way.
Target ==
  /\ At("target")
  /\ IF IsRunning \/ snaps[op.idx].state # "good" \/ ~Gone(previous) \/ ~Gone(staging)
       THEN End(FALSE)
       ELSE /\ op' = [op EXCEPT !.at = IF Gone(live) THEN "write" ELSE "safety",
                                !.of = snaps[op.idx].of, !.had = ~Gone(live)]
            /\ UNCHANGED session
  /\ UNCHANGED <<folders, journal, snaps, legacy, bounds>>

\* mutant: the copy that is restored is rotated as any other.
Safety_Unprotected ==
  /\ At("safety") /\ ~Gone(live) /\ Goto("write")
  /\ CaptureNew("auto", live, TRUE, 0)
  /\ UNCHANGED <<folders, journal, legacy, session, plays, crashes>>

\* The copy of the saves as they are.
Safety ==
  /\ At("safety") /\ ~Gone(live) /\ Goto("write")
  /\ CaptureNew("auto", live, TRUE, op.idx + 1)
  /\ UNCHANGED <<folders, journal, legacy, session, plays, crashes>>

WriteJournal ==
  /\ At("write") /\ Goto("copy")
  /\ journal' = [on |-> TRUE, copying |-> TRUE, had |-> op.had]
  /\ UNCHANGED <<folders, snaps, legacy, session, bounds>>

CopyOut ==
  /\ At("copy")
  /\ IF Gone(staging) THEN staging' = Half /\ op' = op
                      ELSE staging' = op.of /\ Goto("ready")
  /\ UNCHANGED <<live, previous, journal, snaps, legacy, session, bounds>>

Ready == /\ At("ready") /\ Goto("check") /\ journal' = [journal EXCEPT !.copying = FALSE]
         /\ UNCHANGED <<folders, snaps, legacy, session, bounds>>

\* The game is asked for once more before its saves are moved.
Check == /\ At("check")
         /\ Goto(IF IsRunning THEN "resolve" ELSE IF op.had THEN "aside" ELSE "place")
         /\ UNCHANGED <<folders, journal, snaps, legacy, session, bounds>>

Aside ==
  /\ At("aside")
  /\ IF Gone(live) THEN Goto("resolve") /\ UNCHANGED folders
       ELSE Goto("place") /\ previous' = live /\ live' = 0 /\ UNCHANGED staging
  /\ UNCHANGED <<journal, snaps, legacy, session, bounds>>

Place ==
  /\ At("place") /\ Goto("resolve")
  /\ IF Gone(live) THEN live' = staging /\ staging' = 0 /\ UNCHANGED previous
                   ELSE UNCHANGED folders
  /\ UNCHANGED <<journal, snaps, legacy, session, bounds>>

\* Whatever came of it is settled the way a later start would settle it.
Resolve ==
  /\ At("resolve")
  /\ \/ /\ Resolvable /\ ResolveStep /\ UNCHANGED <<journal, op, session>>
     \/ /\ Resolvable /\ Resolved
        /\ journal' = NoJournal /\ End(FALSE) /\ UNCHANGED folders
     \/ /\ ~Resolvable /\ End(FALSE) /\ UNCHANGED <<folders, journal>>
  /\ UNCHANGED <<snaps, legacy, bounds>>

\* A step fails, or the caller is gone: a restore that has a journal resolves
\* it, anything else ends where it is; recovery that fails blocks a launch.
StepFails ==
  /\ ~Free /\ faults < MaxFaults /\ faults' = faults + 1
  /\ IF At("copy") \/ At("ready") \/ At("check") \/ At("aside") \/ At("place")
       THEN Goto("resolve") /\ UNCHANGED session
       ELSE End(At("recover"))
  /\ UNCHANGED <<folders, journal, snaps, legacy, plays, crashes>>

----------------------------------------------------------------------------
(* The game *)

\* PlayGame: the launch is noted before its hook waits for the copy.
PlayGame ==
  /\ game = "idle"
  /\ IF "noHook" \in Events THEN game' = "running" /\ hook' = hook
                            ELSE game' = "starting" /\ hook' = "queued"
  /\ UNCHANGED <<folders, journal, snaps, legacy, op, due, bounds>>

\* mutant: the game is worth more than what is not finished.
Timeout_LaunchesAnyway ==
  /\ game = "starting" /\ hook' = "none" /\ game' = "running"
  /\ UNCHANGED <<folders, journal, snaps, legacy, op, due, bounds>>

\* launchTimedOut: without the copy, unless a restore is not finished.
Timeout ==
  /\ game = "starting" /\ hook' = "none"
  /\ game' = IF journal.on THEN "idle" ELSE "running"
  /\ UNCHANGED <<folders, journal, snaps, legacy, op, due, bounds>>

Play ==
  /\ game = "running" /\ plays < MaxPlays
  /\ plays' = plays + 1 /\ live' = plays + 1
  /\ UNCHANGED <<previous, staging, journal, snaps, legacy, op, session, faults, crashes>>

\* A session that begins and ends between the two looks of a restore is bound
\* out: it has to be shorter than the safety copy.
Stop ==
  /\ game = "running"
  /\ op.kind = "restore" => "quickSession" \in Events \/ op.at \in {"recover", "target", "resolve"}
  /\ game' = "idle" /\ due' = due \cup {"session"}
  /\ UNCHANGED <<folders, journal, snaps, legacy, op, hook, bounds>>

\* The player removes the saves; a bound: not in the middle of something.
RemoveSaves ==
  /\ Free /\ ~journal.on /\ ~Gone(live) /\ live' = 0
  /\ UNCHANGED <<previous, staging, journal, snaps, legacy, op, session, bounds>>

\* The files of a copy, or its description, are damaged; a bound: while
\* nothing else is going on.
Rot ==
  /\ Free /\ ~journal.on /\ game = "idle" /\ due = {} /\ faults < MaxFaults /\ faults' = faults + 1
  /\ \E i \in DOMAIN snaps, to \in Events \cap {"rotten", "broken"} :
        snaps[i].state = "good" /\ snaps' = [snaps EXCEPT ![i].state = to]
  /\ UNCHANGED <<folders, journal, legacy, op, session, plays, crashes>>

\* mutant: only the games of the library are recovered after a start.
Crash_NothingDue ==
  /\ crashes < MaxCrashes /\ crashes' = crashes + 1
  /\ op' = NoOp /\ hook' = "none" /\ due' = {}
  /\ game' = IF game = "running" THEN game ELSE "idle"
  /\ UNCHANGED <<folders, journal, snaps, legacy, plays, faults>>

\* The launcher dies and is started again; a game that runs is found running.
Crash ==
  /\ crashes < MaxCrashes /\ crashes' = crashes + 1
  /\ op' = NoOp /\ hook' = "none" /\ due' = {"startup"}
  /\ game' = IF game = "running" THEN game ELSE "idle"
  /\ UNCHANGED <<folders, journal, snaps, legacy, plays, faults>>

----------------------------------------------------------------------------
Init ==
  /\ plays = 1 /\ live = 1 /\ legacy \in {0, 1}
  /\ previous = 0 /\ staging = 0 /\ journal = NoJournal
  /\ snaps = <<Copy("auto", 1)>>
  /\ op = NoOp /\ due = {"startup"} /\ game = "idle" /\ hook = "none"
  /\ faults = 0 /\ crashes = 0

Step == \/ Recover \/ Migrate \/ ForgetLegacy \/ Done \/ TakeIt
        \/ Target \/ Safety \/ WriteJournal \/ CopyOut \/ Ready \/ Check
        \/ Aside \/ Place \/ Resolve

Asked == Restore \/ TakeCopy \/ Delete
World == PlayGame \/ Play \/ Stop \/ RemoveSaves \/ Rot \/ StepFails \/ Crash

Next == Step \/ Asked \/ BeginDue \/ BeginLaunch \/ Timeout \/ World

Spec == Init /\ [][Next]_vars

\* What holds the lock goes on, who waits for it gets it (the lock is a channel of
\* capacity one, which serves those who wait in their order: lockGame), the launch's wait
\* has a deadline.  The player owes nothing.
FairSpec == Spec /\ WF_vars(Step) /\ SF_vars(BeginDue) /\ WF_vars(Timeout)

----------------------------------------------------------------------------
(* Properties *)

\* The values of the variables.  The rotation keeps the automatic copies at
\* their limit, but for one: the one it may not touch, or the one earlier
\* versions kept; and for what it failed to remove.
TypeOK ==
  /\ live \in 0 .. MaxPlays /\ {previous, staging} \subseteq Folder /\ legacy \in 0 .. MaxPlays
  /\ DOMAIN journal = DOMAIN NoJournal
  /\ Cardinality({i \in DOMAIN snaps : IsAuto(snaps[i])}) <= Limit + 1 + faults
  /\ \A i \in DOMAIN snaps : snaps[i].of \in 1 .. MaxPlays
  /\ game \in {"idle", "starting", "running"} /\ hook \in {"none", "queued", "taken"}
  /\ due \subseteq {"startup", "session"}
  /\ plays <= MaxPlays /\ faults <= MaxFaults /\ crashes <= MaxCrashes

\* What a restore leaves, wherever the launcher dies, is a state resolve knows:
\* it never comes to the refusal that would bar every later copy, restore and
\* launch of the game (resolve's default).
RecoveryNeverStuck == journal.on => Resolvable

\* The game runs only with its saves in their place: the launch is in
\* GetRunningGames before its hook waits, Restore looks once more before the
\* first move, and a launch that outwaits the lock is stopped by the journal.
RunsOnItsSaves == game = "running" => Gone(previous) /\ ~(journal.on /\ ~journal.copying /\ Gone(live) /\ journal.had)

\* The copy a restore puts back is still there when it is put back: its own
\* safety copy may not rotate it away, the lock keeps the rest off.
SourceIsKept == op.kind = "restore" /\ op.of # 0 => op.of \in Good

\* The state is well formed, resolve knows what it finds, and a restore finds what it was
\* asked for.
Consistent == TypeOK /\ RecoveryNeverStuck /\ SourceIsKept

\* A restore that was cut off is settled by the next start alone, without any
\* operation of the player, unless a step fails.
RestoresSettle == journal.on ~> ~journal.on \/ faults > 0

\* A launch never waits for good, whoever holds the lock of the game.
LaunchesEnd == game = "starting" ~> game # "starting"

\* Both: neither a restore nor a launch is left hanging (ServiceStartup, SessionStarting).
Settles == RestoresSettle /\ LaunchesEnd

(* What the player sees: the folder moved aside is still the saves, and the
   verified copy next to it counts among the copies. *)
Saves == IF Gone(live) /\ previous \in 1 .. MaxPlays THEN previous ELSE live
Copies == Good \cup IF journal.on /\ ~journal.copying THEN {staging} \ {0, Half} ELSE {}

Atomic == INSTANCE AtomicSaves WITH saves <- Saves, copies <- Copies

\* Whatever fails and wherever the launcher dies, the saves change only when
\* the game writes, when the player removes them, or by one step from a copy to
\* another whole one, what they were being among the copies (restore.go).
AtomicSavesSpec == Atomic!Spec
================================================================================
