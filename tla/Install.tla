-------------------------------- MODULE Install --------------------------------
(***************************************************************************)
(* Installations of downloads the launcher unpacks or copies itself: their  *)
(* records, the jobs that carry them out, what Cancel, Dismiss and Retry    *)
(* leave to clean up, and a start of the program after it was killed.       *)
(*                                                                          *)
(* All installations go to one folder, each from a source of its own; the   *)
(* folder, its .partial neighbour and the library are what they contend     *)
(* for.  A step under s.mu or one change of the disk is one action.         *)
(* Abstracted: progress, executables, the runtime and the shortcut of the   *)
(* game; external installers.                                                *)
(***************************************************************************)
EXTENDS Naturals, FiniteSets

CONSTANTS Ids,         \* installations, as strings
          Kinds,       \* what each installation does with its source: "archive", "copy", "move"
          MaxCrashes,  \* bound on Crash
          Events       \* "persistFails" and the steps the bounds below leave out

ASSUME InstallConstants ==
  /\ Kinds \subseteq [Ids -> {"archive", "copy", "move"}] /\ MaxCrashes \in Nat
  /\ Events \subseteq {"persistFails", "lateSweep", "cancelUnjobbed", "retryReserved",
                       "retryOthers", "staleOwner", "crashSweeping"}
  /\ {"none", "empty"} \cap Ids = {}

VARIABLES
  kind,      \* what each installation does with its source
  rec,       \* the records (s.items): status and OwnedDestination
  stored,    \* ... in installations.json
  source,    \* the ids whose source is there
  partial,   \* what is in the .partial folder
  dest,      \* what is in the folder
  library,   \* the installations registered as games
  asked,     \* data the user has removed himself
  job,       \* the step of each installation that is carried out
  jobs,      \* those with an entry in s.jobs ...
  cancelled, \* ... that has been cancelled
  start,     \* a Start on its way: its step, and the record it reclaims
  retry,     \* the retries that are cleaning up
  clean,     \* the cleanup after Cancel, Dismiss or a start of the program
  held,      \* the cleanups that hold the reservation of the folder
  removing,  \* RemoveGame, its files removed
  crashes

records == <<rec, stored>>
disk    == <<source, partial, dest>>
running == <<job, jobs, cancelled>>
calls   == <<start, retry>>
cleaning == <<clean, held>>
user    == <<library, asked, removing, crashes, kind>>
vars    == <<records, disk, running, calls, cleaning, user>>

Nothing == [of |-> "none", whole |-> FALSE]
Empty   == [of |-> "empty", whole |-> FALSE]
Half(i) == [of |-> i, whole |-> FALSE]
Whole(i) == [of |-> i, whole |-> TRUE]
Free == dest \in {Nothing, Empty}
NoRecord == [status |-> "none", owned |-> FALSE]
NoStart == [at |-> "none", of |-> "none"]

Transient(i) == rec[i].status \in {"pending", "preparing", "working", "verifying"}
Active(i) == Transient(i) \/ rec[i].status = "waiting"
Retryable(i) == rec[i].status \in {"failed", "cancelled", "interrupted"}
Fails == "persistFails" \in Events

Save(r) == rec' = r /\ stored' = r
SetStatus(i, s) == Save([rec EXCEPT ![i].status = s])

\* usedByOtherLocked, startBlockedLocked
UsedByOther(i) == \E other \in Ids \ {i} : Active(other) \/ rec[other].status = "completed"
StartBlocked == \E other \in Ids : Active(other)

\* partialReservedLocked
Reserved == held # {} \/ \E i \in Ids : start[i].at \in {"reclaim", "drop"}

\* holdLocked: the folder this installation made is its own to remove.
Holds(i) == rec[i].owned /\ ~UsedByOther(i)

\* crashFinalizable
Finalizable == partial = Nothing /\ ~Free

\* Bound: a job is not begun while the .partial folder is about to be swept without a
\* reservation, or an installation without an entry in s.jobs is carried out.
Quiet == \/ "lateSweep" \in Events
         \/ \A k \in Ids : (clean[k] = "sweep" => k \in held) /\ (job[k] # "none" => k \in jobs)

At(i, step) == job[i] = step
Go(i, step) == job' = [job EXCEPT ![i] = step]

----------------------------------------------------------------------------
(* The end of a job *)

\* fail: cancelled by the user, or failed; a cancelled one cleans up before it ends.
FailJob(i) ==
  LET to == IF i \in cancelled THEN "cancelled" ELSE "failed"
      hold == to = "cancelled" /\ Holds(i)
  IN \/ /\ IF rec[i].status = "none" THEN UNCHANGED records ELSE SetStatus(i, to)
        /\ Go(i, IF hold THEN "discard" ELSE "end")
        /\ clean' = [clean EXCEPT ![i] = IF hold THEN "check" ELSE @]
        /\ held' = IF hold THEN held \cup {i} ELSE held
     \/ /\ Fails /\ rec[i].status # "none"
        /\ rec' = [rec EXCEPT ![i].status = "failed"] /\ UNCHANGED stored
        /\ Go(i, "end") /\ UNCHANGED cleaning

Continue(i, step) == Go(i, step) /\ UNCHANGED cleaning
Quietly == UNCHANGED <<jobs, cancelled, calls, user>>

\* endJob
JobEnd(i) ==
  /\ \/ At(i, "end") \/ (At(i, "discard") /\ clean[i] = "none")
  /\ Go(i, "none")
  /\ jobs' = jobs \ {i} /\ cancelled' = cancelled \ {i}
  /\ UNCHANGED <<records, disk, calls, cleaning, user>>

----------------------------------------------------------------------------
(* The steps of a job: runArchive, runPortable *)

JobPrepare(i) ==
  /\ At(i, "prepare")
  /\ \/ SetStatus(i, "preparing") /\ Continue(i, "remember")
     \/ Fails /\ FailJob(i)
  /\ UNCHANGED disk /\ Quietly

\* rememberCreatedDestination
JobRemember(i) ==
  /\ At(i, "remember")
  /\ \/ /\ IF dest = Nothing THEN Save([rec EXCEPT ![i].owned = TRUE]) ELSE UNCHANGED records
        /\ Continue(i, "clear")
     \/ FailJob(i)
  /\ UNCHANGED disk /\ Quietly

JobClear(i) ==
  /\ At(i, "clear")
  /\ partial' = Nothing
  /\ \/ /\ i \notin cancelled
        /\ SetStatus(i, "working")
        /\ Continue(i, IF kind[i] = "move" THEN "rename" ELSE "copy")
     \/ FailJob(i)
  /\ UNCHANGED <<source, dest>> /\ Quietly

\* renameSource, or a copy where that is refused
JobRename(i) ==
  /\ At(i, "rename")
  /\ \/ /\ i \in source /\ Free
        /\ \/ /\ dest' = Whole(i) /\ source' = source \ {i}
              /\ Continue(i, "finalize")
           \/ /\ dest' = Nothing /\ UNCHANGED source
              /\ Continue(i, "copy")
        /\ UNCHANGED records
     \/ FailJob(i) /\ UNCHANGED <<source, dest>>
  /\ UNCHANGED partial /\ Quietly

JobCopy(i) ==
  /\ At(i, "copy")
  /\ partial' = Half(i) /\ Continue(i, "copying")
  /\ UNCHANGED <<records, source, dest>> /\ Quietly

\* A copy is compared with its source, what is unpacked is not.
JobCopied(i) ==
  /\ At(i, "copying")
  /\ \/ /\ i \in source
        /\ partial = Half(i) \/ kind[i] = "archive"
        /\ partial' = IF partial = Half(i) THEN Whole(i) ELSE Half(i)
        /\ Continue(i, "commit") /\ UNCHANGED records
     \/ partial' = Nothing /\ FailJob(i)
  /\ UNCHANGED <<source, dest>> /\ Quietly

\* commitExtracted: the rename of .partial, or of the one folder in it and the removal of
\* what is then left.  Bounds: the rename is not refused, so MoveDir does not copy, and
\* nothing cuts in between the rename and that removal.
JobCommit(i) ==
  /\ At(i, "commit")
  /\ \/ /\ Free /\ partial # Nothing
        /\ dest' = partial /\ partial' = Nothing
        /\ Continue(i, "finalize") /\ UNCHANGED records
     \/ partial' = Nothing /\ UNCHANGED dest /\ FailJob(i)
  /\ UNCHANGED source /\ Quietly

\* finalize
JobFinalize(i) ==
  /\ At(i, "finalize")
  /\ \/ /\ IF rec[i].status = "none" THEN UNCHANGED records ELSE SetStatus(i, "verifying")
        /\ Continue(i, "find")
     \/ Fails /\ FailJob(i)
  /\ UNCHANGED disk /\ Quietly

\* An executable is found, or the user is asked for it.
JobFind(i) ==
  /\ At(i, "find")
  /\ \/ /\ i \notin cancelled /\ rec[i].status # "none"
        /\ \/ Continue(i, "register") /\ UNCHANGED records
           \/ SetStatus(i, "waiting") /\ Continue(i, "after")
     \/ FailJob(i)
  /\ UNCHANGED disk /\ Quietly

\* MUTANT of JobRegister: a refused registration is only logged.
JobRegister_Ignored(i) ==
  /\ At(i, "register")
  /\ library' = library \cup {i} \/ UNCHANGED library
  /\ Continue(i, "complete") /\ UNCHANGED records
  /\ UNCHANGED <<disk, jobs, cancelled, calls, asked, removing, crashes, kind>>

\* complete: the game first, the record after it.
JobRegister(i) ==
  /\ At(i, "register")
  /\ \/ /\ library' = library \cup {i}
        /\ Continue(i, "complete") /\ UNCHANGED records
     \/ FailJob(i) /\ UNCHANGED library
  /\ UNCHANGED <<disk, jobs, cancelled, calls, asked, removing, crashes, kind>>

JobComplete(i) ==
  /\ At(i, "complete")
  /\ \/ SetStatus(i, "completed") /\ Continue(i, "after")
     \/ Fails /\ FailJob(i)
  /\ UNCHANGED disk /\ Quietly

\* The source of a move that was a copy goes when finalize has returned, that of an
\* installation that is complete by the setting.
JobAfter(i) ==
  /\ At(i, "after")
  /\ \/ source' = source \ {i} /\ (kind[i] = "move" \/ rec[i].status = "completed")
     \/ UNCHANGED source
  /\ Continue(i, "end")
  /\ UNCHANGED <<records, partial, dest>> /\ Quietly

\* recoverMovePartial: an earlier version moved the source to .partial first.  What else is
\* in the folder goes when its top level counts otherwise, whoever's it is, and fails the job
\* when it counts the same.  Bound: a removal does not fail.
JobRecover(i) ==
  /\ At(i, "recover")
  /\ CASE Free              -> /\ dest' = partial /\ partial' = Nothing
                               /\ Continue(i, "finalize") /\ UNCHANGED records
       [] dest = Half(i)    -> /\ dest' = Nothing
                               /\ UNCHANGED <<partial, records, job, cleaning>>
       [] dest = Whole(i)   -> /\ partial' = Nothing /\ UNCHANGED dest
                               /\ Continue(i, "finalize") /\ UNCHANGED records
       [] OTHER             -> \/ /\ dest' = Nothing
                                  /\ UNCHANGED <<partial, records, job, cleaning>>
                               \/ FailJob(i) /\ UNCHANGED <<partial, dest>>
  /\ UNCHANGED source /\ Quietly

----------------------------------------------------------------------------
(* Cleanup *)

\* sweepPartialItem
Swept(i) == IF kind[i] = "move" /\ i \notin source THEN partial ELSE Nothing
Sweep(i) ==
  /\ clean[i] = "sweep"
  /\ partial' = Swept(i)
  /\ job' = [job EXCEPT ![i] = IF Swept(i) # Nothing THEN "recover" ELSE @]
  /\ clean' = [clean EXCEPT ![i] = IF i \in held THEN "check" ELSE "none"]
  /\ UNCHANGED <<records, source, dest, held>> /\ Quietly

\* MUTANT of Blocked: the game registered from the folder does not keep it.
Blocked_Source(i) == i \notin source

\* discardBlocker
Blocked(i) == i \notin source \/ library # {}

\* discardDestination
Release(i) == clean' = [clean EXCEPT ![i] = "none"] /\ held' = held \ {i}
Check(i) ==
  /\ clean[i] = "check"
  /\ IF Blocked(i) THEN Release(i) ELSE clean' = [clean EXCEPT ![i] = "remove"] /\ UNCHANGED held
  /\ UNCHANGED <<records, disk, job>> /\ Quietly

\* removeInstallDir and forgetCreatedDestination; a folder in use stays.
RemoveDest(i) ==
  /\ clean[i] = "remove"
  /\ Release(i)
  /\ \/ /\ dest' = Nothing
        /\ \/ Save([rec EXCEPT ![i].owned = FALSE])
           \/ Fails /\ UNCHANGED records
     \/ dest # Nothing /\ UNCHANGED <<dest, records>>
  /\ UNCHANGED <<source, partial, job>> /\ Quietly

----------------------------------------------------------------------------
(* The calls of the frontend *)

\* Bound: the folder holds no files of another installation that are removed for this one.
OwnFiles(i) == Free \/ dest.of = i \/ "staleOwner" \in Events

\* Start: the checks, with prepareDestination.  Bound: OwnFiles
Start(i) ==
  /\ rec[i].status = "none" /\ start[i] = NoStart /\ job[i] = "none" /\ clean[i] = "none"
  /\ i \in source /\ ~StartBlocked /\ library = {}
  /\ \/ Free /\ start' = [start EXCEPT ![i] = [at |-> "commit", of |-> "none"]]
     \/ /\ ~Free /\ ~Reserved
        /\ \E k \in Ids : /\ rec[k].status = "failed" /\ Holds(k) /\ OwnFiles(k)
                          /\ start' = [start EXCEPT ![i] = [at |-> "reclaim", of |-> k]]
  /\ UNCHANGED <<records, disk, running, retry, cleaning, user>>

\* reclaimLeftover
StartReclaim(i) ==
  /\ start[i].at = "reclaim"
  /\ \/ /\ ~Blocked(start[i].of)
        /\ dest' = Nothing /\ start' = [start EXCEPT ![i].at = "drop"]
     \/ UNCHANGED dest /\ start' = [start EXCEPT ![i] = NoStart]
  /\ UNCHANGED <<records, source, partial, running, retry, cleaning, user>>

\* dropRecord
StartDrop(i) ==
  /\ start[i].at = "drop"
  /\ \/ /\ Save([rec EXCEPT ![start[i].of] = NoRecord])
        /\ start' = [start EXCEPT ![i].at = "commit"]
     \/ Fails /\ UNCHANGED records /\ start' = [start EXCEPT ![i] = NoStart]
  /\ UNCHANGED <<disk, running, retry, cleaning, user>>

\* The second look, claimLocked and the new record.  Bounds: the folder is as the first look
\* found it and no game was registered from it since, unless a Retry came between
\* ("retryOthers").
StartCommit(i) ==
  /\ start[i].at = "commit"
  /\ (Free /\ library = {}) \/ "retryOthers" \in Events
  /\ Quiet /\ (retry = {} \/ "lateSweep" \in Events)
  /\ start' = [start EXCEPT ![i] = NoStart]
  /\ \/ /\ i \in source /\ ~StartBlocked /\ ~Reserved
        /\ Save([rec EXCEPT ![i] = [status |-> "pending", owned |-> FALSE]])
        /\ Go(i, "prepare") /\ jobs' = jobs \cup {i}
     \/ UNCHANGED <<records, job, jobs>>
  /\ UNCHANGED <<disk, cancelled, retry, cleaning, user>>

\* Cancel of one that has a job
CancelJob(i) ==
  /\ Active(i) /\ i \in jobs
  /\ cancelled' = cancelled \cup {i}
  /\ UNCHANGED <<records, disk, job, jobs, calls, cleaning, user>>

\* Cancel of one that has none.  Bound: it is not being completed meanwhile.
Cancel(i) ==
  /\ Active(i) /\ i \notin jobs /\ clean[i] = "none"
  /\ job[i] = "none" \/ "cancelUnjobbed" \in Events
  /\ \/ /\ SetStatus(i, "cancelled")
        /\ held' = IF Holds(i) THEN held \cup {i} ELSE held
        /\ clean' = [clean EXCEPT ![i] = "sweep"]
     \/ /\ Fails /\ rec' = [rec EXCEPT ![i].status = "failed"]
        /\ UNCHANGED <<stored, cleaning>>
  /\ UNCHANGED <<disk, running, calls, user>>

\* Bounds: OwnFiles, and the sweep takes the .partial of no other installation.
Dismiss(i) ==
  /\ rec[i].status # "none" /\ ~Active(i) /\ i \notin jobs /\ job[i] = "none" /\ clean[i] = "none"
  /\ (~StartBlocked /\ partial.of \in {i, "none"}) \/ "lateSweep" \in Events
  /\ OwnFiles(i)
  /\ Save([rec EXCEPT ![i] = NoRecord])
  /\ held' = IF rec[i].status = "cancelled" /\ Holds(i) THEN held \cup {i} ELSE held
  /\ clean' = [clean EXCEPT ![i] = "sweep"]
  /\ UNCHANGED <<disk, running, calls, user>>

\* ConfirmExecutable, with an executable that is there.  Bound: the job that asked the user
\* for it has ended.
Confirm(i) ==
  /\ rec[i].status = "waiting" /\ job[i] = "none" /\ ~Free
  /\ SetStatus(i, "verifying") /\ Go(i, "register")
  /\ UNCHANGED <<disk, jobs, cancelled, calls, cleaning, user>>

\* retry of one whose files are in place.  Bounds: the folder is not about to be removed,
\* and what is in it is its own.
RetryFinalize(i) ==
  /\ Retryable(i) /\ i \notin jobs /\ job[i] = "none" /\ ~UsedByOther(i) /\ Finalizable
  /\ ~Reserved \/ "retryReserved" \in Events
  /\ dest.of = i \/ "retryOthers" \in Events
  /\ SetStatus(i, "verifying") /\ Go(i, "finalize")
  /\ UNCHANGED <<disk, jobs, cancelled, calls, cleaning, user>>

\* retry of any other
Retry(i) ==
  /\ Retryable(i) /\ i \notin jobs /\ job[i] = "none" /\ i \notin retry
  /\ ~UsedByOther(i) /\ ~Finalizable /\ i \in source /\ ~Reserved
  /\ Quiet /\ (retry = {} \/ "lateSweep" \in Events)
  /\ SetStatus(i, "pending")
  /\ retry' = retry \cup {i}
  /\ UNCHANGED <<disk, running, start, cleaning, user>>

\* ... sweeps .partial before the job starts, unless it was cancelled meanwhile.
RetryStart(i) ==
  /\ i \in retry
  /\ retry' = retry \ {i}
  /\ partial' = Swept(i)
  /\ IF rec[i].status = "pending"
       THEN Go(i, "prepare") /\ jobs' = jobs \cup {i}
       ELSE UNCHANGED <<job, jobs>>
  /\ UNCHANGED <<records, source, dest, cancelled, start, cleaning, user>>

\* The user removes the download with its data, which no installation uses.
DeleteSource(i) ==
  /\ i \in source /\ ~Active(i) /\ clean[i] = "none"
  /\ source' = source \ {i} /\ asked' = asked \cup {i}
  /\ UNCHANGED <<records, partial, dest, running, calls, cleaning, library, removing, crashes, kind>>

\* RemoveGame with its files
RemoveGame(i) ==
  /\ i \in library /\ i \notin removing /\ ~StartBlocked /\ OwnFiles(i)
  /\ removing' = removing \cup {i} /\ asked' = asked \cup {i}
  /\ dest' = Nothing
  /\ UNCHANGED <<records, source, partial, running, calls, cleaning, library, crashes, kind>>

\* ... forgetInstallations and library.RemoveGame, which a failed write does not stop.
GameRemoved(i) ==
  /\ i \in removing
  /\ \/ Save([rec EXCEPT ![i] = IF @.status = "completed" THEN NoRecord ELSE @])
     \/ Fails /\ UNCHANGED records
  /\ library' = library \ {i} /\ removing' = removing \ {i}
  /\ UNCHANGED <<disk, running, calls, cleaning, asked, crashes, kind>>

----------------------------------------------------------------------------
(* The program is killed, and starts again (ServiceStartup). *)

WasTransient(i) == stored[i].status \in {"pending", "preparing", "working", "verifying"}
\* MUTANT of Loaded: a record is taken as it was left.
Loaded_AsStored(i) == stored[i]

Loaded(i) == IF ~WasTransient(i) THEN stored[i]
             ELSE [stored[i] EXCEPT !.status = IF Finalizable THEN "verifying" ELSE "interrupted"]

\* Bounds: not while .partial is the only copy of a source, see InitMoved, nor while the
\* sweep of the last start has something to do.
OnlyCopy(i) == i \notin source /\ partial = Whole(i)
Unswept(i) == clean[i] = "sweep" /\ partial # Nothing

Crash ==
  /\ crashes < MaxCrashes /\ crashes' = crashes + 1
  /\ ~\E i \in Ids : OnlyCopy(i)
  /\ (~\E i \in Ids : Unswept(i)) \/ "crashSweeping" \in Events
  /\ Save([i \in Ids |-> Loaded(i)])
  /\ job' = [i \in Ids |-> IF WasTransient(i) /\ Finalizable THEN "finalize" ELSE "none"]
  /\ clean' = [i \in Ids |-> IF WasTransient(i) THEN "sweep" ELSE "none"]
  /\ jobs' = {} /\ cancelled' = {} /\ held' = {} /\ retry' = {} /\ removing' = {}
  /\ start' = [i \in Ids |-> NoStart]
  /\ UNCHANGED <<disk, library, asked, kind>>

----------------------------------------------------------------------------
(* The specification *)

\* Nothing is installed yet, or an earlier version was killed while it moved a source.
InitNew ==
  /\ rec = [i \in Ids |-> NoRecord] /\ source = Ids
  /\ partial = Nothing /\ dest \in {Nothing, Empty}
  /\ clean = [i \in Ids |-> "none"]

InitMoved ==
  \E i \in Ids :
    /\ kind[i] = "move" /\ source = Ids \ {i}
    /\ rec = [k \in Ids |-> IF k = i THEN [status |-> "interrupted", owned |-> FALSE] ELSE NoRecord]
    /\ partial = Whole(i) /\ dest \in {Nothing, Half(i), Whole(i)}
    /\ clean = [k \in Ids |-> IF k = i THEN "sweep" ELSE "none"]

Init ==
  /\ kind \in Kinds
  /\ InitNew \/ InitMoved
  /\ stored = rec /\ library = {} /\ asked = {} /\ removing = {} /\ crashes = 0
  /\ job = [i \in Ids |-> "none"] /\ jobs = {} /\ cancelled = {}
  /\ start = [i \in Ids |-> NoStart] /\ retry = {} /\ held = {}

JobStep(i) ==
  \/ JobPrepare(i) \/ JobRemember(i) \/ JobClear(i) \/ JobRename(i) \/ JobCopy(i) \/ JobCopied(i)
  \/ JobCommit(i) \/ JobFinalize(i) \/ JobFind(i) \/ JobRegister(i) \/ JobComplete(i)
  \/ JobAfter(i) \/ JobRecover(i) \/ JobEnd(i)
StartStep(i) == StartReclaim(i) \/ StartDrop(i) \/ StartCommit(i)
CleanStep(i) == Sweep(i) \/ Check(i) \/ RemoveDest(i)

Next ==
  \/ \E i \in Ids :
       \/ JobStep(i) \/ CleanStep(i)
       \/ Start(i) \/ StartStep(i) \/ CancelJob(i) \/ Cancel(i) \/ Dismiss(i) \/ Confirm(i)
       \/ RetryFinalize(i) \/ Retry(i) \/ RetryStart(i)
       \/ DeleteSource(i) \/ RemoveGame(i) \/ GameRemoved(i)
  \/ Crash

Spec == Init /\ [][Next]_vars

\* Jobs, retries and cleanups that have begun go on.
FairSpec == Spec /\ \A i \in Ids : /\ WF_vars(JobStep(i)) /\ WF_vars(CleanStep(i))
                                   /\ WF_vars(RetryStart(i))

----------------------------------------------------------------------------
(* Properties *)

Statuses == {"none", "pending", "preparing", "working", "verifying", "waiting", "completed",
             "failed", "cancelled", "interrupted"}
Contents == {Nothing, Empty} \cup {Half(i) : i \in Ids} \cup {Whole(i) : i \in Ids}

\* The values of the variables: the records of model.go, in memory and as
\* stored, and what can be in a folder.
TypeOK ==
  /\ rec \in [Ids -> [status : Statuses, owned : BOOLEAN]]
  /\ stored \in [Ids -> [status : Statuses, owned : BOOLEAN]]
  /\ kind \in Kinds /\ source \subseteq Ids
  /\ partial \in Contents \ {Empty} /\ dest \in Contents
  /\ library \subseteq Ids /\ asked \subseteq Ids /\ removing \subseteq library
  /\ job \in [Ids -> {"none", "prepare", "remember", "clear", "rename", "copy", "copying", "commit",
                      "finalize", "find", "register", "complete", "after", "recover",
                      "discard", "end"}]
  /\ jobs \subseteq Ids /\ cancelled \subseteq jobs /\ retry \subseteq Ids
  /\ \A i \in jobs : job[i] # "none"
  /\ start \in [Ids -> [at : {"none", "reclaim", "drop", "commit"}, of : Ids \cup {"none"}]]
  /\ clean \in [Ids -> {"none", "sweep", "check", "remove"}]
  /\ held \subseteq {i \in Ids : clean[i] # "none"}
  /\ crashes \in 0..MaxCrashes

\* A game in the library has its files, all of them, until the user removes them.
GameHasFiles == \A i \in library \ asked : dest = Whole(i)

\* Some whole copy of what was downloaded is there, wherever an installation was stopped.
NeverLost == \A i \in Ids \ asked : i \in source \/ dest = Whole(i) \/ partial = Whole(i)

\* Both: whole in the library, and never nowhere (commit, finalize, discard.go).
FilesAreKept == GameHasFiles /\ NeverLost

\* No two installations work in one folder.
OneAtATime == Cardinality({i \in Ids : Active(i)}) <= 1

\* An installation that says it is complete, in memory or after a restart, is in the library.
CompletedIsGame == \A i \in Ids \ asked : "completed" \in {rec[i].status, stored[i].status} => i \in library

\* The state is well formed, one job holds the folder, and "completed" is only written for
\* what the library has (claimLocked, finalize).
Consistent == TypeOK /\ OneAtATime /\ CompletedIsGame

\* An installation under way comes to an end, or asks the user.
InstallEnds == \A i \in Ids : Transient(i) ~> ~Transient(i)

=============================================================================
