-------------------------------- MODULE Relocate --------------------------------
(***************************************************************************)
(* relocate: the moves of one game between folders, and of the library with *)
(* that game and the tree of downloads, through the staged pipeline, its    *)
(* journal and the recovery of the next start.                              *)
(*                                                                          *)
(* A step that touches files, the journal or the library is an action; each *)
(* may fail, and the program may be killed between any two.  Abstracted:    *)
(* the files of the game are the number of times it was played so far, a    *)
(* hash manifest is that number, free space and other guards are failures.  *)
(* The screenshots go through the same pipeline with nothing to repoint.    *)
(***************************************************************************)
EXTENDS Naturals, Integers

CONSTANTS Places,      \* folders the game can be in
          Roots,       \* ... those of them below a library root
          Home,        \* ... and the one it is in at first
          JobIds,      \* jobs the journal can hold
          MaxPlays,    \* the game is played this often
          MaxRecoveryAttempts,  \* starts that try to end a move, 3 in the code
          Events       \* "library", "cancel", "sweep", "again" (see Settled and Mends)

ASSUME RelocateConstants ==
  /\ Roots \subseteq Places /\ Home \in Roots
  /\ JobIds \subseteq Nat \ {0} /\ MaxPlays \in Nat /\ MaxRecoveryAttempts \in Nat \ {0}
  /\ Events \subseteq {"library", "cancel", "sweep", "again"}

VARIABLES
  dir,       \* what is in each of the places ...
  staging,   \* ... and in the staging folder beside it
  lib,       \* the place the library has registered
  latest,    \* the version of the files that was last played
  running,   \* the game runs
  lock,      \* the job that has reserved the game (library.relocating), 0 if none
  tree,      \* the downloads below each root
  dest,      \* the root the records of the download manager point at
  root,      \* settings.LibraryPath
  jobs,      \* moves.json
  manifest,  \* the hash manifest of each job, Absent if there is none
  at,        \* the next step of each job's goroutine, or of the recovery
  recovery,  \* the jobs still to be recovered, the one that is, and its attempt
  sweep,     \* a staging folder that is deleted from outside
  closing,   \* ServiceShutdown has begun
  exhausted  \* a move was given up after the last attempt of the recovery

files   == <<dir, staging, manifest>>
game    == <<lib, latest, running>>
library == <<tree, dest, root>>
control == <<lock, recovery, sweep, closing, exhausted>>
vars    == <<files, game, library, control, jobs, at>>

Absent  == -2
Partial == -1
Whole   == 0 .. MaxPlays
Content == Whole \cup {Absent, Partial}

Stages == {"none", "prepare", "copy", "verify", "commit", "repoint", "cleanup", "failed", "cancelled"}
Items  == {"none", "game", "downloads", "settings"}

\* Job.  rest: how many items of the queue are left; staging: its path is set.
Job == [stage : Stages, failedAt : {"none", "repoint", "cleanup"}, item : Items,
        source : Places, target : Places, staging : BOOLEAN, renamed : BOOLEAN,
        attempts : 0 .. MaxRecoveryAttempts, rest : 0 .. 3, scope : {"game", "library"}]

Steps == {"idle", "start", "rename", "renamed", "copy", "manifest", "copying", "copied", "verify",
          "verifying", "commit", "committed", "repoint", "cleanup", "remove", "removing", "removed",
          "next", "complete", "stage", "tree", "treeremove", "dest", "root", "fail", "cancel", "end",
          "surface", "attempt", "reprepare", "recopy", "recommit", "retry", "giveup", "after"}

----------------------------------------------------------------------------
(* The journal *)

\* jobActiveStage
Active(job) == job.stage \notin {"none", "failed", "cancelled"}
\* A failed job that the next start resumes.
Resumable(job) == job.stage = "failed" /\ job.failedAt # "none"

Go(j, step) == at' = [at EXCEPT ![j] = step]
Recovering(j) == recovery.job = j
\* What follows when a step gives up: inside an attempt of the recovery, runAttempt goes on.
Return(j) == IF Recovering(j) /\ recovery.from # "none" THEN "after" ELSE "end"

\* transition: the job as it is stored next; nothing changes if that fails.
Transition(j, job, then) ==
  \/ jobs' = [jobs EXCEPT ![j] = job] /\ Go(j, then)
  \/ UNCHANGED jobs /\ Go(j, Return(j))

\* A job of its own, and the next item of the library's queue.
NewItem(job, item, source, rest) ==
  [job EXCEPT !.stage = "prepare", !.item = item, !.source = source,
              !.staging = FALSE, !.renamed = FALSE, !.rest = rest]

NewJob(scope, item, source, target, rest) ==
  [stage |-> "prepare", failedAt |-> "none", item |-> item, source |-> source, target |-> target,
   staging |-> FALSE, renamed |-> FALSE, attempts |-> 0, rest |-> rest, scope |-> scope]
NoJob == [NewJob("game", "none", Home, Home, 0)
            EXCEPT !.stage = "none"]

\* retryableStage
RetryableStage(stage) == IF stage \in {"repoint", "cleanup"} THEN stage ELSE "none"

\* failOrCancel
FailOrCancel(j) ==
  /\ \/ /\ at[j] = "fail"
        /\ Transition(j, [jobs[j] EXCEPT !.stage = "failed",
                                         !.failedAt = RetryableStage(jobs[j].stage)], Return(j))
     \/ /\ at[j] = "cancel"
        /\ Transition(j, [jobs[j] EXCEPT !.stage = "cancelled", !.failedAt = "none"], "end")
  /\ UNCHANGED <<files, game, library, control>>

\* The context of a job ends with Cancel or the shutdown, that of the recovery with the latter.
Cancelled(j) == closing \/ ("cancel" \in Events /\ ~Recovering(j))

Broken(j) == \/ Go(j, "fail")
             \/ Cancelled(j) /\ Go(j, "cancel")

\* removeStaging is best effort.
RemoveStaging(p) == staging' \in {staging, [staging EXCEPT ![p] = Absent]}

\* The game is given back only by a move, not by its recovery.
End_KeepsLock(j) ==
  /\ at[j] = "end" /\ Go(j, "idle")
  /\ lock' = IF lock = j /\ ~Recovering(j) THEN 0 ELSE lock
  /\ recovery' = IF Recovering(j) THEN [recovery EXCEPT !.job = 0, !.from = "none"] ELSE recovery
  /\ UNCHANGED <<files, game, library, jobs, sweep, closing, exhausted>>

\* finishJob and the release of the game
End(j) ==
  /\ at[j] = "end"
  /\ Go(j, "idle")
  /\ lock' = IF lock = j THEN 0 ELSE lock
  /\ recovery' = IF Recovering(j) THEN [recovery EXCEPT !.job = 0, !.from = "none"] ELSE recovery
  /\ UNCHANGED <<files, game, library, jobs, sweep, closing, exhausted>>

\* completeJob: a move that is done leaves the journal, unless that cannot be written.  No
\* other job will look for its manifest.
CompleteJob(j) ==
  /\ at[j] \in {"complete", "surface"}
  /\ \/ /\ jobs' = [jobs EXCEPT ![j] = NoJob]
        /\ manifest' = [manifest EXCEPT ![j] = Absent]
     \/ UNCHANGED <<jobs, manifest>>
  /\ Go(j, IF at[j] = "complete" THEN Return(j) ELSE "end")
  /\ UNCHANGED <<dir, staging, game, library, control>>

----------------------------------------------------------------------------
(* The pipeline *)

\* An id that nothing refers to
Fresh(j) == jobs[j].stage = "none" /\ at[j] = "idle"

\* Bound: without "again" nothing is moved while a failed move waits for the next start, or
\* after one was given up.
Settled == ~exhausted /\ \A k \in JobIds : ~Resumable(jobs[k])

\* Bound: without "again" what is left of a half-removed tree of downloads is only moved to a
\* root where the tree is whole.
Mends(target) == tree[root] = Partial => tree[target] = 0

MoveGame(j, target) ==
  /\ ~closing /\ ~running /\ lock = 0
  /\ Fresh(j)
  /\ dir[lib] # Absent /\ target # lib /\ dir[target] = Absent
  /\ \A k \in JobIds : Active(jobs[k]) => jobs[k].item = "downloads"   \* conflictsLocked
  /\ "again" \notin Events => Settled
  /\ jobs' = [jobs EXCEPT ![j] = NewJob("game", "game", lib, target, 0)]
  /\ lock' = j /\ Go(j, "start")
  /\ UNCHANGED <<files, game, library, recovery, sweep, closing, exhausted>>

\* MoveLibrary; the queue is the game, the downloads and the settings.
MoveLibrary(j, target) ==
  /\ "library" \in Events /\ ~closing /\ ~running
  /\ Fresh(j) /\ target \in Roots \ {root}
  /\ \A k \in JobIds : ~Active(jobs[k])
  /\ "again" \notin Events => Settled /\ Mends(target)
  /\ jobs' = [jobs EXCEPT ![j] = NewJob("library", "none", root, target, 3)]
  /\ Go(j, "next")
  /\ UNCHANGED <<files, game, library, control>>

\* runPipeline looks at the context once ...
Start(j) == /\ at[j] = "start"
            /\ \/ Go(j, "rename") \/ (Cancelled(j) /\ Go(j, "cancel"))
            /\ UNCHANGED <<files, game, library, control, jobs>>

\* ... and renames, unless the target is on another volume.
RenameDir(j) ==
  /\ at[j] = "rename"
  /\ LET job == jobs[j]
     IN \/ /\ dir[job.source] # Absent /\ dir[job.target] = Absent
           /\ dir' = [dir EXCEPT ![job.target] = dir[job.source], ![job.source] = Absent]
           /\ Go(j, "renamed")
        \/ UNCHANGED dir /\ Go(j, IF dir[job.target] = Absent THEN "copy" ELSE "fail")
        \/ UNCHANGED dir /\ Go(j, "fail")
  /\ UNCHANGED <<staging, manifest, game, library, control, jobs>>

Renamed(j) == /\ at[j] = "renamed"
              /\ Transition(j, [jobs[j] EXCEPT !.stage = "repoint", !.renamed = TRUE], "repoint")
              /\ UNCHANGED <<files, game, library, control>>

\* copyAndVerify
BeginCopy(j) ==
  /\ at[j] = "copy"
  /\ IF sweep = [at |-> "reserved", place |-> jobs[j].target]
       THEN Go(j, "fail") /\ UNCHANGED jobs
       ELSE Transition(j, [jobs[j] EXCEPT !.stage = "copy", !.staging = TRUE], "manifest")
  /\ UNCHANGED <<files, game, library, control>>

BuildManifest(j) ==
  /\ at[j] = "manifest"
  /\ \/ manifest' = [manifest EXCEPT ![j] = dir[jobs[j].source]] /\ Go(j, "copying")
     \/ UNCHANGED manifest /\ Broken(j)
  /\ UNCHANGED <<dir, staging, game, library, control, jobs>>

CopyDir(j) ==
  /\ at[j] = "copying"
  /\ staging' = [staging EXCEPT ![jobs[j].target] = Partial]
  /\ Go(j, IF staging[jobs[j].target] = Absent THEN "copied" ELSE "verify")  \* extra files
  /\ UNCHANGED <<dir, manifest, game, library, control, jobs>>

Copied(j) ==
  /\ at[j] = "copied"
  /\ \/ /\ staging' = [staging EXCEPT ![jobs[j].target] = dir[jobs[j].source]] /\ Go(j, "verify")
     \/ UNCHANGED staging /\ Go(j, "verify")           \* the copy is not what was read
     \/ RemoveStaging(jobs[j].target) /\ Broken(j)
  /\ UNCHANGED <<dir, manifest, game, library, control, jobs>>

BeginVerify(j) == /\ at[j] = "verify"
                  /\ Transition(j, [jobs[j] EXCEPT !.stage = "verify"], "verifying")
                  /\ UNCHANGED <<files, game, library, control>>

\* The copy is not compared with the manifest.
Verify_Skipped(j) ==
  /\ at[j] = "verifying"
  /\ Transition(j, [jobs[j] EXCEPT !.stage = "commit"], "commit")
  /\ UNCHANGED <<files, game, library, control>>

Verify(j) ==
  /\ at[j] = "verifying"
  /\ \/ /\ staging[jobs[j].target] = manifest[j]
        /\ Transition(j, [jobs[j] EXCEPT !.stage = "commit"], "commit")
        /\ UNCHANGED staging
     \/ RemoveStaging(jobs[j].target) /\ Broken(j) /\ UNCHANGED jobs
  /\ UNCHANGED <<dir, manifest, game, library, control>>

RenameStaging(p) == /\ staging[p] # Absent /\ dir[p] = Absent
                    /\ dir' = [dir EXCEPT ![p] = staging[p]]
                    /\ staging' = [staging EXCEPT ![p] = Absent]

Commit(j) ==
  /\ at[j] = "commit"
  /\ \/ RenameStaging(jobs[j].target) /\ Go(j, "committed")
     \/ RemoveStaging(jobs[j].target) /\ UNCHANGED dir /\ Go(j, "fail")
  /\ UNCHANGED <<manifest, game, library, control, jobs>>

Committed(j) ==
  /\ at[j] = "committed"
  /\ Transition(j, [jobs[j] EXCEPT !.stage = "repoint", !.staging = FALSE],
                IF Recovering(j) THEN "attempt" ELSE "repoint")
  /\ UNCHANGED <<files, game, library, control>>

\* library.Relocate: saved, or saved without the marker, or not.
Repoint(j) ==
  /\ at[j] = "repoint"
  /\ \/ lib' = jobs[j].target /\ Go(j, "cleanup")
     \/ lib' \in {lib, jobs[j].target} /\ Go(j, IF Recovering(j) THEN "after" ELSE "fail")
  /\ UNCHANGED <<latest, running, files, library, control, jobs>>

\* cleanupItem
Cleanup(j) ==
  /\ at[j] = "cleanup"
  /\ Transition(j, [jobs[j] EXCEPT !.stage = "cleanup"],
                IF jobs[j].item = "downloads" THEN "removed" ELSE "remove")
  /\ UNCHANGED <<files, game, library, control>>

RemoveSource(j) ==
  /\ at[j] \in {"remove", "removing"}
  /\ \/ /\ dir' = [dir EXCEPT ![jobs[j].source] = IF at[j] = "remove" /\ @ # Absent THEN Partial ELSE Absent]
        /\ Go(j, IF at[j] = "remove" THEN "removing" ELSE "removed")
     \/ UNCHANGED dir /\ Go(j, "fail")
  /\ UNCHANGED <<staging, manifest, game, library, control, jobs>>

\* The manifest goes too, best effort; continueAfterItem when it is the recovery that ends.
Removed(j) ==
  /\ at[j] = "removed"
  /\ manifest' \in {manifest, [manifest EXCEPT ![j] = Absent]}
  /\ Go(j, IF jobs[j].scope = "game" THEN "complete"
           ELSE IF ~Recovering(j) THEN "next"
           ELSE IF jobs[j].rest = 0 THEN "complete" ELSE "giveup")
  /\ lock' = IF at'[j] = "next" /\ lock = j THEN 0 ELSE lock
  /\ UNCHANGED <<dir, staging, game, library, recovery, sweep, closing, exhausted, jobs>>

----------------------------------------------------------------------------
(* The queue of a library move *)

\* processLibraryQueue and runGameLibraryItem
NextItem(j) ==
  /\ at[j] = "next" /\ jobs[j].rest # 0
  /\ \/ Cancelled(j) /\ Go(j, "cancel") /\ UNCHANGED <<jobs, lock>>
     \/ /\ jobs[j].rest = 3 /\ Go(j, "fail") /\ UNCHANGED <<jobs, lock>>
     \/ /\ jobs[j].rest = 3 /\ lib = jobs[j].target
        /\ Transition(j, [jobs[j] EXCEPT !.rest = 2, !.stage = "prepare"], "next")
        /\ UNCHANGED lock
     \/ /\ jobs[j].rest = 3 /\ lib # jobs[j].target
        /\ lock = 0 /\ ~running /\ dir[lib] # Absent /\ dir[jobs[j].target] = Absent
        /\ lock' = j
        /\ Transition(j, NewItem(jobs[j], "game", lib, 2), "start")
     \/ /\ jobs[j].rest = 2
        /\ Transition(j, NewItem(jobs[j], "downloads", root, 1), "stage") /\ UNCHANGED lock
     \/ /\ jobs[j].rest = 1
        /\ Transition(j, NewItem(jobs[j], "settings", root, 0), "stage") /\ UNCHANGED lock
  /\ UNCHANGED <<files, game, library, recovery, sweep, closing, exhausted>>

QueueDone(j) == /\ at[j] = "next" /\ jobs[j].rest = 0
                /\ Go(j, "complete")
                /\ UNCHANGED <<files, game, library, control, jobs>>

\* runDownloadsItem and applyLibrarySettings
StageItem(j) ==
  /\ at[j] = "stage"
  /\ Transition(j, [jobs[j] EXCEPT !.stage = "repoint"],
                IF jobs[j].item = "downloads" THEN "tree" ELSE "root")
  /\ UNCHANGED <<files, game, library, control>>

\* A tree that is there already is copied over with what is left of the old one.
MoveTree_Again(j) ==
  /\ at[j] = "tree"
  /\ \/ tree[jobs[j].source] = Absent /\ UNCHANGED tree /\ Go(j, "dest")
     \/ /\ tree[jobs[j].source] # Absent
        /\ tree' = [tree EXCEPT ![jobs[j].target] = tree[jobs[j].source]]
        /\ Go(j, "treeremove")
  /\ UNCHANGED <<files, game, dest, root, control, jobs>>

\* moveTreeIfPresent: a rename, a copy that is verified, or what an earlier attempt has left.
MoveTree(j) ==
  LET source == jobs[j].source
      target == jobs[j].target
  IN /\ at[j] = "tree"
     /\ \/ /\ tree[source] = Absent
           /\ UNCHANGED tree /\ Go(j, "dest")
        \/ /\ tree[source] # Absent /\ tree[target] = Absent
           /\ tree' = [tree EXCEPT ![target] = tree[source], ![source] = Absent]
           /\ Go(j, "dest")
        \/ /\ tree[source] # Absent /\ tree[target] \in {Absent, 0}
           /\ tree' = [tree EXCEPT ![target] = IF @ = Absent THEN tree[source] ELSE @]
           /\ Go(j, "treeremove")
        \/ tree[source] # Absent /\ UNCHANGED tree /\ Go(j, Return(j))
     /\ UNCHANGED <<files, game, dest, root, control, jobs>>

RemoveTree(j) ==
  /\ at[j] = "treeremove"
  /\ \/ tree' = [tree EXCEPT ![jobs[j].source] = Absent] /\ Go(j, "dest")
     \/ tree' = [tree EXCEPT ![jobs[j].source] = Partial] /\ Go(j, Return(j))
  /\ UNCHANGED <<files, game, dest, root, control, jobs>>

\* Repoint's own bookkeeping, saved or taken back; records of another root stay as they are.
Rebase(j) == /\ at[j] = "dest"
             /\ \/ dest' = (IF dest = jobs[j].source THEN jobs[j].target ELSE dest) /\ Go(j, "cleanup")
                \/ UNCHANGED dest /\ Go(j, Return(j))
             /\ UNCHANGED <<files, game, tree, root, control, jobs>>

SetRoot(j) == /\ at[j] = "root"
              /\ \/ root' = jobs[j].target /\ Go(j, IF Recovering(j) THEN "complete" ELSE "next")
                 \/ UNCHANGED root /\ Go(j, Return(j))
              /\ UNCHANGED <<files, game, tree, dest, control, jobs>>

----------------------------------------------------------------------------
(* recoverAll *)

RecoveryTouchesGame(job) ==
  job.item = "game" /\ (job.stage \in {"prepare", "commit", "repoint", "cleanup"} \/ Resumable(job))

\* targetIsRegistered
TargetIsRegistered(job) == job.item = "game" => lib = job.target

RecoveryStep(job) ==
  CASE job.stage = "prepare" -> "reprepare"
    [] job.stage \in {"copy", "verify"} -> "recopy"
    [] job.stage = "commit" -> "recommit"
    [] job.stage \in {"repoint", "cleanup"} -> "attempt"
    [] OTHER -> IF job.failedAt = "repoint" \/ (job.failedAt = "cleanup" /\ TargetIsRegistered(job))
                  THEN "attempt" ELSE "surface"

\* reserveForRecovery: a job whose game is busy is left for the next start.
RecoverJob(j) ==
  /\ ~closing /\ recovery.job = 0 /\ j \in recovery.todo
  /\ LET touches == RecoveryTouchesGame(jobs[j])
         todo == recovery.todo \ {j}
     IN IF touches /\ (running \/ lock # 0)
          THEN recovery' = [recovery EXCEPT !.todo = todo] /\ UNCHANGED <<lock, at>>
          ELSE /\ recovery' = [todo |-> todo, job |-> j, from |-> "none"]
               /\ lock' = IF touches THEN j ELSE lock
               /\ Go(j, RecoveryStep(jobs[j]))
  /\ UNCHANGED <<files, game, library, jobs, sweep, closing, exhausted>>

Exists(job, p) == IF job.item = "downloads" THEN p \in Roots /\ tree[p] # Absent ELSE dir[p] # Absent

\* recoverPrepare: the rename may have been done.
RecoverPrepare(j) ==
  /\ at[j] = "reprepare"
  /\ LET job == jobs[j]
     IN IF job.item \in {"game", "downloads"} /\ ~Exists(job, job.source) /\ Exists(job, job.target)
          THEN Transition(j, [job EXCEPT !.stage = "repoint", !.renamed = TRUE], "attempt")
          ELSE Go(j, "giveup") /\ UNCHANGED jobs
  /\ UNCHANGED <<files, game, library, control>>

\* recoverCopyOrVerify
RecoverCopy(j) ==
  /\ at[j] = "recopy"
  /\ RemoveStaging(jobs[j].target)
  /\ manifest' \in {manifest, [manifest EXCEPT ![j] = Absent]}
  /\ Go(j, "giveup")
  /\ UNCHANGED <<dir, game, library, control, jobs>>

RecoverCommit(j) ==
  /\ at[j] = "recommit"
  /\ LET p == jobs[j].target
     IN CASE dir[p] # Absent /\ staging[p] = Absent -> UNCHANGED <<dir, staging>> /\ Go(j, "committed")
          [] dir[p] = Absent /\ staging[p] # Absent ->
               \/ RenameStaging(p) /\ Go(j, "committed")
               \/ UNCHANGED <<dir, staging>> /\ Go(j, "giveup")
          [] OTHER -> UNCHANGED <<dir, staging>> /\ Go(j, "giveup")
  /\ UNCHANGED <<manifest, game, library, control, jobs>>

\* runAttempt counts an attempt before it is made.
Attempt(j) ==
  /\ at[j] = "attempt"
  /\ LET job == jobs[j]
         stage == IF job.stage = "failed" THEN job.failedAt ELSE job.stage
     IN IF job.attempts >= MaxRecoveryAttempts
          THEN Go(j, "giveup") /\ UNCHANGED <<jobs, recovery>>
          ELSE /\ recovery' = [recovery EXCEPT !.from = job.stage]
               /\ Transition(j, [job EXCEPT !.stage = stage, !.attempts = @ + 1], "retry")
  /\ UNCHANGED <<files, game, library, lock, sweep, closing, exhausted>>

\* The two checks of repointSafe against the manifest, and what is done when they fail: a
\* target that is still the copy is discarded (discardStaleTarget), or some of it, or nothing.
Interrupted(j) == Go(j, IF closing THEN "after" ELSE "fail")

SourceChanged(j) ==
  LET job == jobs[j]
  IN /\ \/ /\ dir[job.source] # Partial /\ dir[job.target] = manifest[j] /\ lib # job.target
           /\ \E left \in {Absent, Partial} : dir' = [dir EXCEPT ![job.target] = left]
        \/ UNCHANGED dir
     /\ Go(j, "giveup")

\* The library is repointed whatever has become of the source.
RetryRepoint_Unchecked(j) ==
  /\ at[j] = "retry" /\ jobs[j].stage = "repoint"
  /\ Go(j, CASE jobs[j].item = "game" -> "repoint"
             [] jobs[j].item = "downloads" -> "tree"
             [] OTHER -> "root")
  /\ UNCHANGED <<files, game, library, control, jobs>>

RetryRepoint(j) ==
  LET job == jobs[j]
      proceed == CASE job.item = "game" -> "repoint"
                   [] job.item = "downloads" -> "tree"
                   [] OTHER -> "root"
      unneeded == job.item = "settings" \/ job.renamed \/ ~Exists(job, job.source)
  IN /\ at[j] = "retry" /\ job.stage = "repoint"
     /\ CASE unneeded -> Go(j, proceed) /\ UNCHANGED dir
          [] ~unneeded /\ job.item = "downloads" ->
               /\ Go(j, IF Exists(job, job.target) THEN "giveup" ELSE proceed)
               /\ UNCHANGED dir
          [] OTHER ->
               \/ manifest[j] = Absent /\ Go(j, "giveup") /\ UNCHANGED dir
               \/ manifest[j] # Absent /\ Interrupted(j) /\ UNCHANGED dir
               \/ manifest[j] # Absent /\ dir[job.source] # manifest[j] /\ SourceChanged(j)
               \/ /\ manifest[j] # Absent /\ dir[job.source] = manifest[j]
                  /\ Go(j, IF dir[job.target] = manifest[j] THEN proceed ELSE "giveup")
                  /\ UNCHANGED dir
     /\ UNCHANGED <<staging, manifest, game, library, control, jobs>>

\* recoverCleanup
RetryCleanup(j) ==
  LET job == jobs[j]
  IN /\ at[j] = "retry" /\ job.stage = "cleanup"
     /\ CASE job.item # "game" \/ job.renamed \/ dir[job.source] = Absent -> Go(j, "removed")
          [] OTHER -> \/ manifest[j] = Absent /\ Go(j, "giveup")
                      \/ manifest[j] # Absent /\ Interrupted(j)
                      \/ /\ manifest[j] # Absent
                         /\ Go(j, IF dir[job.target] = manifest[j] THEN "remove" ELSE "giveup")
     /\ UNCHANGED <<files, game, library, control, jobs>>

\* markRecoveryFailed
GiveUp(j) ==
  /\ at[j] = "giveup"
  /\ Transition(j, [jobs[j] EXCEPT !.stage = "failed", !.failedAt = "none"], Return(j))
  /\ exhausted' = (exhausted \/ jobs[j].attempts >= MaxRecoveryAttempts)
  /\ UNCHANGED <<files, game, library, lock, recovery, sweep, closing>>

\* The rest of runAttempt: an attempt that a shutdown has interrupted is given back, the
\* last one ends the job.
After(j) ==
  /\ at[j] = "after"
  /\ LET job == jobs[j]
         stage == IF recovery.from = "failed" THEN job.failedAt ELSE recovery.from
         spent == job.attempts >= MaxRecoveryAttempts
         next == IF closing THEN [job EXCEPT !.stage = recovery.from, !.attempts = @ - 1]
                 ELSE [job EXCEPT !.stage = "failed", !.failedAt = IF spent THEN "none" ELSE stage]
     IN jobs' \in {jobs} \cup IF stage # "none" /\ job.stage = stage THEN {[jobs EXCEPT ![j] = next]} ELSE {}
  /\ Go(j, "end")
  /\ exhausted' = (exhausted \/ jobs[j].attempts >= MaxRecoveryAttempts)
  /\ UNCHANGED <<files, game, library, lock, recovery, sweep, closing>>

----------------------------------------------------------------------------
(* What happens around it *)

\* PlayGame is refused while the game is reserved.
StartGame == /\ lock = 0 /\ ~running /\ dir[lib] \in Whole
             /\ running' = TRUE
             /\ IF latest < MaxPlays
                  THEN latest' = latest + 1 /\ dir' = [dir EXCEPT ![lib] = latest + 1]
                  ELSE UNCHANGED <<latest, dir>>
             /\ UNCHANGED <<lib, staging, manifest, library, control, jobs, at>>

EndGame == /\ running /\ running' = FALSE
           /\ UNCHANGED <<files, lib, latest, library, control, jobs, at>>

\* stagingVerdict of a folder that a finished job has left
StagingDeletable(p) ==
  /\ staging[p] # Absent
  /\ \E j \in JobIds : /\ jobs[j].staging /\ jobs[j].target = p
                       /\ jobs[j].stage \in {"failed", "cancelled"} /\ ~Resumable(jobs[j])
                       /\ dir[jobs[j].source] # Absent

NoSweep == [at |-> "none", place |-> Home]

\* ReserveStaging looks at the folder first and then, under the lock, at the jobs.
LookAtStaging(p) == /\ "sweep" \in Events /\ sweep.at = "none" /\ StagingDeletable(p)
                    /\ sweep' = [at |-> "looked", place |-> p]
                    /\ UNCHANGED <<files, game, library, lock, recovery, closing, exhausted, jobs, at>>

InUse(p) == \E j \in JobIds : Active(jobs[j]) /\ jobs[j].staging /\ jobs[j].target = p

ReserveStaging == /\ sweep.at = "looked"
                  /\ sweep' = IF InUse(sweep.place) THEN NoSweep ELSE [sweep EXCEPT !.at = "reserved"]
                  /\ UNCHANGED <<files, game, library, lock, recovery, closing, exhausted, jobs, at>>

\* The removal, and the release
SweepStaging == /\ sweep.at = "reserved"
                /\ staging' = [staging EXCEPT ![sweep.place] = Absent]
                /\ sweep' = NoSweep
                /\ UNCHANGED <<dir, manifest, game, library, lock, recovery, closing, exhausted, jobs, at>>

\* ServiceShutdown
Close == /\ ~closing /\ closing' = TRUE
         /\ UNCHANGED <<files, game, library, lock, recovery, sweep, exhausted, jobs, at>>

\* The program ends, or is killed, and starts again.
Crash == /\ at' = [j \in JobIds |-> "idle"]
         /\ lock' = 0 /\ closing' = FALSE
         /\ recovery' = [todo |-> {j \in JobIds : jobs[j].stage # "none"}, job |-> 0, from |-> "none"]
         /\ sweep' = NoSweep
         /\ UNCHANGED <<files, game, library, jobs, exhausted>>

----------------------------------------------------------------------------
(* The specification *)

Init ==
  /\ lib = Home
  /\ dir = [p \in Places |-> IF p = lib THEN 0 ELSE Absent]
  /\ staging = [p \in Places |-> Absent]
  /\ latest = 0 /\ running = FALSE
  /\ root = lib /\ dest = lib
  /\ tree = [r \in Roots |-> IF r = lib THEN 0 ELSE Absent]
  /\ jobs = [j \in JobIds |-> NoJob]
  /\ manifest = [j \in JobIds |-> Absent]
  /\ at = [j \in JobIds |-> "idle"]
  /\ lock = 0 /\ closing = FALSE /\ exhausted = FALSE
  /\ recovery = [todo |-> {}, job |-> 0, from |-> "none"]
  /\ sweep = NoSweep

\* A job's goroutine, or the recovery
Step(j) ==
  \/ Start(j) \/ RenameDir(j) \/ Renamed(j) \/ BeginCopy(j) \/ BuildManifest(j) \/ CopyDir(j)
  \/ Copied(j) \/ BeginVerify(j) \/ Verify(j) \/ Commit(j) \/ Committed(j) \/ Repoint(j)
  \/ Cleanup(j) \/ RemoveSource(j) \/ Removed(j) \/ NextItem(j) \/ QueueDone(j) \/ StageItem(j)
  \/ MoveTree(j) \/ RemoveTree(j) \/ Rebase(j) \/ SetRoot(j) \/ FailOrCancel(j) \/ CompleteJob(j)
  \/ RecoverPrepare(j) \/ RecoverCopy(j) \/ RecoverCommit(j) \/ Attempt(j) \/ RetryRepoint(j)
  \/ RetryCleanup(j) \/ GiveUp(j) \/ After(j) \/ End(j)

Next ==
  \/ \E j \in JobIds :
       \/ Step(j) \/ RecoverJob(j)
       \/ \E p \in Places : MoveGame(j, p) \/ MoveLibrary(j, p)
  \/ \E p \in Places : LookAtStaging(p)
  \/ ReserveStaging \/ SweepStaging
  \/ StartGame \/ EndGame \/ Close \/ Crash

Spec == Init /\ [][Next]_vars

FairSpec == Spec /\ \A j \in JobIds : WF_vars(Step(j)) /\ WF_vars(RecoverJob(j))

----------------------------------------------------------------------------
(* Properties *)

\* Every variable has its type.
TypeOK ==
  /\ dir \in [Places -> Content] /\ staging \in [Places -> Content]
  /\ lib \in Places /\ latest \in Whole /\ running \in BOOLEAN
  /\ lock \in JobIds \cup {0}
  /\ tree \in [Roots -> {Absent, Partial, 0}] /\ dest \in Roots /\ root \in Roots
  /\ jobs \in [JobIds -> Job]
  /\ manifest \in [JobIds -> Content]
  /\ at \in [JobIds -> Steps]
  /\ recovery \in [todo : SUBSET JobIds, job : JobIds \cup {0}, from : Stages]
  /\ sweep \in [at : {"none", "looked", "reserved"}, place : Places]
  /\ closing \in BOOLEAN /\ exhausted \in BOOLEAN

\* The bytes of the job are at its target, and the next start will say so to the library.
Arrived(j) ==
  LET job == jobs[j]
      stage == IF job.stage = "failed" THEN job.failedAt ELSE job.stage
  IN /\ job.item = "game"
     /\ \/ stage \in {"prepare", "repoint"} /\ dir[job.source] = Absent /\ dir[job.target] # Absent
        \/ stage = "repoint" /\ dir[job.source] = manifest[j] /\ dir[job.target] = manifest[j] /\ manifest[j] # Absent
        \/ /\ stage = "commit" /\ dir[job.source] = manifest[j]
           /\ \/ dir[job.target] = Absent /\ staging[job.target] = manifest[j]
              \/ dir[job.target] = manifest[j] /\ staging[job.target] = Absent

\* Where the game is once the next start has recovered what it can.
GameAt == IF \E j \in JobIds : Arrived(j)
            THEN jobs[CHOOSE j \in JobIds : Arrived(j)].target
            ELSE lib

\* Three attempts of the recovery have failed: the move is given up, and says so.
Exhausted == exhausted \/ \E j \in JobIds : jobs[j].attempts = MaxRecoveryAttempts

\* Wherever a move is interrupted, the latest files of the game are in one piece ...
LatestKept == \E p \in Places : dir[p] = latest

\* ... and the next start finds them (repointSafe; invariants 9 and 10 of the package).
Recoverable ==
  \/ dir[GameAt] = latest
  \/ \E j \in JobIds : /\ jobs[j].stage = "commit" /\ GameAt = jobs[j].target
                       /\ dir[jobs[j].source] = latest /\ staging[jobs[j].target] = latest
  \/ Exhausted

\* Both: the latest files are kept, and found again (invariants 9 and 10 of the package).
NothingLost == LatestKept /\ Recoverable

\* A game that can be launched is launched from its latest files.
PlaysLatest == [][StartGame => dir[lib] = latest]_vars

\* The records of the downloads point at their files.  Where a move of the downloads was
\* interrupted the files are whole at another root, and the settings still name the old one:
\* the same move of the library, made again, goes through Repoint again and ends it.
DownloadsFound == \/ tree[dest] = 0
                  \/ root = dest /\ \E r \in Roots \ {root} : tree[r] = 0

\* The settings leave a root only after the downloads: the records have left it, they point at
\* a whole tree, and nothing of it stays behind.
RootMovesLast == [][root' # root => dest # root /\ tree[dest] = 0 /\ tree[root] = Absent]_vars

\* The state is well formed, and the downloads, their records and the settings agree up to
\* what the same MoveLibrary mends (repoint.go).
Consistent == TypeOK /\ DownloadsFound

\* Only staging folders no copy can still need are deleted from outside.
SweepsUnused == [][SweepStaging => ~InUse(sweep.place)]_vars

\* A move that leaves the journal as done has left one copy of the game, at its target.
DoneIsDone ==
  [][\A j \in JobIds :
       at[j] = "complete" /\ jobs[j].item = "game" /\ jobs'[j].stage = "none"
       => lib = jobs[j].target /\ dir[jobs[j].source] = Absent]_vars

\* Together, the steps that must not come too early: a start of the game, the new root, the
\* removal of a staging folder, and the end of a move.
StepsAreSafe == PlaysLatest /\ RootMovesLast /\ SweepsUnused /\ DoneIsDone

\* Moves and recoveries end and give the game back, if the program is not killed for ever.
MovesEnd == (<>[][~Crash]_vars) =>
              []<>(/\ \A j \in JobIds : at[j] = "idle"
                   /\ lock = 0 /\ (recovery.todo = {} \/ closing))

================================================================================
