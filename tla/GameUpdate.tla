------------------------------- MODULE GameUpdate -------------------------------
(***************************************************************************)
(* updates: one game that is updated in four ways, repaired and rolled      *)
(* back, over the directories each of them renames, with a journal, and the *)
(* recovery of the next start.                                              *)
(*                                                                          *)
(* A job takes one action per step that touches a directory or a stored     *)
(* document; each of these may fail, and the program may be killed between  *)
(* any two.  Abstracted: downloads and installers (they fill the staging    *)
(* directory or fail), the running game (its guards are among the failures),*)
(* manifests, history, usage events and the plan.  removeTree is taken to   *)
(* succeed, except for the retained copy, whose failure the code handles.   *)
(***************************************************************************)
EXTENDS Naturals, Integers

CONSTANTS MaxVersion,  \* releases are numbered 1..MaxVersion
          Races        \* "lateSweep": the old copy may be removed at any later moment

ASSUME UpdateConstants == MaxVersion \in Nat \ {0} /\ Races \subseteq {"lateSweep"}

VARIABLES
  dir,       \* what is in each directory beside the installation
  lib,       \* the version the library has registered
  kept,      \* s.rollbacks: the version a rollback is offered to, 0 if none
  keptDisk,  \* rollbacks.json
  journal,   \* the journal of the game, the same in memory and on disk
  writer,    \* the version an in-place download in the manager is writing, 0 if none
  job,       \* the job, rollback or recovery under way
  sweeping   \* a copy nobody is offered any more and that is still to be removed

vars == <<dir, lib, kept, keptDisk, journal, writer, job, sweeping>>

Versions == 1 .. MaxVersion
Absent   == 0     \* no such directory
Partial  == -1    \* a directory that is no complete version
Content  == Versions \cup {Absent, Partial}

\* The installation, and what is named after it: .staging, .previous,
\* .previous.retained, .replaced, .previous.repair, the files a patch replaced.
Places == {"current", "staging", "previous", "retained", "replaced", "repair", "backup"}

Kinds == {"none", "swap", "inplace", "patch", "rollback", "cleanup"}

\* SwapJournal
Journal == [kind : Kinds, original : 0 .. MaxVersion, rollback : 0 .. MaxVersion,
            place : {"previous", "repair", "backup"}, retained : BOOLEAN]
NoJournal == [kind |-> "none", original |-> 0, rollback |-> 0,
              place |-> "previous", retained |-> FALSE]

Ops == {"full", "inplace", "repair", "patch", "rollback", "recover"}
Steps == {"fetch", "unpack", "look", "journal", "retain", "aside", "install", "resolve",
          "carry", "register", "keep", "clear", "cleared", "settle", "drop", "end", "slot", "copy",
          "copying", "mark", "write", "writing", "stop", "clean", "merge", "merging",
          "unmerge", "unmerging", "merged", "giveup", "restore", "setaside", "putback", "replaced",
          "unretain", "forget", "rekeep", "relib", "turn", "away", "back", "relink",
          "unkeep", "discard"}

\* goal and next: the version to reach and the one a chain is at; then: what follows once
\* the journal is cleared; touched: a chain has left something behind.
Job == [op : Ops \cup {"none"}, pc : Steps, goal : 0 .. MaxVersion, next : 0 .. MaxVersion,
        then : Steps, touched : BOOLEAN]
Idle == [op |-> "none", pc |-> "end", goal |-> 0, next |-> 0, then |-> "end", touched |-> FALSE]

----------------------------------------------------------------------------
(* Steps of a job *)

At(pc) == job.op # "none" /\ job.pc = pc
Goto(pc) == job' = [job EXCEPT !.pc = pc]
Clearing(then) == job' = [job EXCEPT !.pc = "clear", !.then = then]
Put(place, content) == dir' = [dir EXCEPT ![place] = content]

\* A chain that stops drops its copy if it has left nothing behind.
Broken == IF job.op = "patch" THEN "giveup" ELSE "end"

\* os.Rename, which refuses a target that is there and a source that is not.
Rename(from, to) == /\ dir[from] # Absent /\ dir[to] = Absent
                    /\ dir' = [dir EXCEPT ![to] = dir[from], ![from] = Absent]

\* A rename at one step of a job, and the step that follows if it fails.
Move(pc, from, to, then, else) ==
  /\ At(pc)
  /\ \/ Rename(from, to) /\ Goto(then)
     \/ UNCHANGED dir /\ Goto(else)
  /\ UNCHANGED <<lib, kept, keptDisk, journal, writer, sweeping>>

\* setJournal: refused while an unfinished operation owns the recovery paths.
SetJournal(kind, place, retained, then, else) ==
  \/ /\ journal.kind = "none"
     /\ journal' = [kind |-> kind, original |-> lib, place |-> place, retained |-> retained,
                    rollback |-> IF kind \in {"swap", "rollback"} THEN kept ELSE 0]
     /\ Goto(then)
  \/ UNCHANGED journal /\ Goto(else)

\* A change of the rollback record that is saved, or taken back.
SaveKept(version) == kept' = version /\ keptDisk' = version

\* beginJob: a journal that only waits for a cleanup is cleared first.
MayStart == /\ job.op = "none"
            /\ journal.kind \in {"none", "cleanup"}

Begin(op, pc, goal) ==
  /\ MayStart
  /\ job' = [Idle EXCEPT !.op = op, !.pc = pc, !.goal = goal, !.next = lib]
  /\ journal' = NoJournal
  /\ dir' = [dir EXCEPT !["retained"] = IF journal.kind = "cleanup" THEN Absent ELSE @,
                        !["staging"]  = IF op = "full" THEN Absent ELSE @]
  /\ UNCHANGED <<lib, kept, keptDisk, writer, sweeping>>

\* ... and refuses the job if that fails, before or after the copy is gone.
BeginRefused ==
  /\ MayStart /\ journal.kind = "cleanup"
  /\ Put("retained", Absent)
  /\ UNCHANGED <<lib, kept, keptDisk, journal, writer, job, sweeping>>

\* StartUpdate for the three strategies, and RepairGame
StartUpdate ==
  \E goal \in Versions :
    /\ goal > lib
    /\ \/ Begin("full", "fetch", goal)
       \/ Begin("inplace", "slot", goal)
       \/ Begin("patch", "slot", goal)

RepairGame == Begin("repair", "copy", lib)

----------------------------------------------------------------------------
(* What several of them do *)

\* downloadRelease, waitDownload and installInto into the staging directory
Fetch == /\ At("fetch")
         /\ \/ Put("staging", Partial) /\ Goto("unpack")
            \/ UNCHANGED dir /\ Goto(Broken)
         /\ UNCHANGED <<lib, kept, keptDisk, journal, writer, sweeping>>

Unpack == /\ At("unpack")
          /\ \/ /\ Put("staging", IF job.op = "full" THEN job.goal ELSE job.next + 1)
                /\ Goto(IF job.op = "full" THEN "look" ELSE "clean")
             \/ UNCHANGED dir /\ Goto(Broken)
          /\ UNCHANGED <<lib, kept, keptDisk, journal, writer, sweeping>>

\* mutant: the copy is made while the record of the old one is kept
Slot_KeepsRecord == /\ At("slot")
                    /\ UNCHANGED <<kept, keptDisk>> /\ Goto("copy")
                    /\ UNCHANGED <<dir, lib, journal, writer, sweeping>>

\* copyInstallAside: releaseBackupSlot, then a copy that is whole or removed
Slot == /\ At("slot")
        /\ \/ SaveKept(0) /\ Goto("copy")
           \/ kept # 0 /\ UNCHANGED <<kept, keptDisk>> /\ Goto("end")
        /\ UNCHANGED <<dir, lib, journal, writer, sweeping>>

CopyPlace == IF job.op = "repair" THEN "repair" ELSE "previous"

Copy == /\ At("copy")
        /\ Put(CopyPlace, Partial) /\ Goto("copying")
        /\ UNCHANGED <<lib, kept, keptDisk, journal, writer, sweeping>>

Copying == /\ At("copying")
           /\ \/ /\ Put(CopyPlace, dir["current"])
                 /\ Goto(IF job.op = "patch" THEN "keep" ELSE "mark")
              \/ Put(CopyPlace, Absent) /\ Goto("end")
           /\ UNCHANGED <<lib, kept, keptDisk, journal, writer, sweeping>>

\* The journal of an in-place operation (backupInPlaceSuffix) and of a patch
Mark == /\ At("mark")
        /\ IF job.op = "patch"
             THEN SetJournal("patch", "backup", FALSE, "merge", "giveup") /\ UNCHANGED dir
             ELSE /\ SetJournal("inplace", CopyPlace, FALSE, "write", "end")
                  /\ IF journal' = journal THEN Put(CopyPlace, Absent) ELSE UNCHANGED dir
        /\ UNCHANGED <<lib, kept, keptDisk, writer, sweeping>>

\* resolveExecutable in the new files
Resolve == /\ At("resolve")
           /\ \/ Goto(IF job.op = "full" THEN "carry" ELSE "register")
              \/ Goto(IF job.op = "patch" THEN "unmerge" ELSE "restore")
           /\ UNCHANGED <<dir, lib, kept, keptDisk, journal, writer, sweeping>>

\* registerVersionAs.  When it fails the journal stays for the next start.
Register ==
  /\ At("register")
  /\ \/ /\ lib' = IF job.op = "patch" THEN job.next + 1 ELSE job.goal
        /\ IF job.op = "patch" THEN Clearing("merged") ELSE Goto("keep")
     \/ /\ UNCHANGED lib
        /\ job' = [job EXCEPT !.pc = Broken, !.touched = TRUE]
  /\ UNCHANGED <<dir, kept, keptDisk, journal, writer, sweeping>>

\* mutant: the copy is recorded as the version that has just been installed
Keep_New == /\ At("keep")
            /\ SaveKept(lib)
            /\ IF job.op = "patch" THEN Goto("fetch") ELSE Clearing("settle")
            /\ UNCHANGED <<dir, lib, journal, writer, sweeping>>

\* registerRollback: the record is saved before the flag that offers it.
Keep == /\ At("keep")
        /\ \/ /\ SaveKept(IF job.op = "patch" THEN lib ELSE journal.original)
              /\ \/ IF job.op = "patch" THEN Goto("fetch") ELSE Clearing("settle")
                 \/ Goto("end")
           \/ UNCHANGED <<kept, keptDisk>> /\ Goto("end")
        /\ UNCHANGED <<dir, lib, journal, writer, sweeping>>

\* clearJournal.  With a retained copy it first turns into a journal of the cleanup alone,
\* which no longer undoes anything; failures after that are left to the next attempt.
ClearFails == job' = [job EXCEPT !.pc = IF job.op = "patch" THEN "giveup" ELSE "end",
                                 !.touched = @ \/ job.then = "merged"]

Clear ==
  /\ At("clear")
  /\ CASE journal.retained /\ journal.kind # "cleanup" ->
             /\ \/ journal' = [journal EXCEPT !.kind = "cleanup"] /\ UNCHANGED job
                \/ UNCHANGED journal /\ ClearFails
             /\ UNCHANGED dir
       [] journal.kind = "cleanup" ->
             /\ \/ Put("retained", Absent) /\ Goto("cleared")
                \/ UNCHANGED dir /\ Goto(job.then)
             /\ UNCHANGED journal
       [] OTHER ->
             /\ \/ journal' = NoJournal /\ Goto(job.then)
                \/ UNCHANGED journal /\ ClearFails
             /\ UNCHANGED dir
  /\ UNCHANGED <<lib, kept, keptDisk, writer, sweeping>>

Cleared == /\ At("cleared")
           /\ journal' \in {NoJournal, journal} /\ Goto(job.then)
           /\ UNCHANGED <<dir, lib, kept, keptDisk, writer, sweeping>>

\* settlePrevious: the setting may say that no copy is kept.
Settle == /\ At("settle")
          /\ \/ SaveKept(0) /\ Goto("drop")
             \/ UNCHANGED <<kept, keptDisk>> /\ Goto("end")
          /\ UNCHANGED <<dir, lib, journal, writer, sweeping>>

Drop == /\ At("drop")
        /\ Put("previous", Absent) /\ Goto("end")
        /\ UNCHANGED <<lib, kept, keptDisk, journal, writer, sweeping>>

\* endJob, and the deferred removal of the staging directory; the start removes that of
\* an update it found interrupted.
EndJob == /\ At("end")
          /\ job' = Idle
          /\ IF job.op \in {"full", "patch", "recover"} THEN Put("staging", Absent) ELSE UNCHANGED dir
          /\ UNCHANGED <<lib, kept, keptDisk, journal, writer, sweeping>>

----------------------------------------------------------------------------
(* applyFullRelease and swapDirectories *)

\* A retained copy without a journal is from an older build: it is reserved before it goes.
Look == /\ At("look")
        /\ IF dir["previous"] # Absent /\ dir["retained"] # Absent
             THEN \/ /\ journal.kind = "none"
                     /\ journal' = [NoJournal EXCEPT !.kind = "cleanup", !.retained = TRUE]
                     /\ Clearing("journal")
                  \/ UNCHANGED journal /\ Goto("end")
             ELSE UNCHANGED journal /\ Goto("journal")
        /\ UNCHANGED <<dir, lib, kept, keptDisk, writer, sweeping>>

JournalSwap ==
  /\ At("journal")
  /\ LET retained == dir["previous"] # Absent
     IN SetJournal("swap", "previous", retained, IF retained THEN "retain" ELSE "aside", "end")
  /\ UNCHANGED <<dir, lib, kept, keptDisk, writer, sweeping>>

Retain  == Move("retain", "previous", "retained", "aside", "restore")
Aside   == \/ Move("aside", "current", "previous", "install", "restore")
           \/ At("aside") /\ dir["current"] = Absent /\ Goto("install")
              /\ UNCHANGED <<dir, lib, kept, keptDisk, journal, writer, sweeping>>
Install == Move("install", "staging", "current", "resolve", "restore")

\* carryOverExtras: when it fails, nothing is decided before the next start.
CarryOver == /\ At("carry")
             /\ \/ Goto("register") \/ Goto("end")
             /\ UNCHANGED <<dir, lib, kept, keptDisk, journal, writer, sweeping>>

----------------------------------------------------------------------------
(* applyTorrentReuse and repair *)

\* AddTask: from here on the manager writes into the installation, across restarts too.
Write == /\ At("write")
         /\ \/ writer' = job.goal /\ Goto("writing")
            \/ UNCHANGED writer /\ Goto("restore")
         /\ UNCHANGED <<dir, lib, kept, keptDisk, journal, sweeping>>

WriterWrites == /\ writer # 0
                /\ \E content \in {Partial, writer} : Put("current", content)
                /\ UNCHANGED <<lib, kept, keptDisk, journal, writer, job, sweeping>>

\* waitDownload
Writing ==
  /\ At("writing")
  /\ \/ /\ dir["current"] = writer /\ writer' = 0
        /\ IF job.op = "repair" THEN Clearing("discard") ELSE Goto("resolve")
     \/ UNCHANGED writer /\ Goto("stop")
  /\ UNCHANGED <<dir, lib, kept, keptDisk, journal, sweeping>>

\* stopRepairDownload, before anything is put back
Stop == /\ At("stop")
        /\ \/ writer' = 0 /\ Goto("restore")
           \/ UNCHANGED writer /\ Goto("end")
        /\ UNCHANGED <<dir, lib, kept, keptDisk, journal, sweeping>>

\* A repaired game keeps no copy.
Discard == /\ At("discard")
           /\ Put(IF job.op = "repair" THEN "repair" ELSE "replaced", Absent) /\ Goto("end")
           /\ UNCHANGED <<lib, kept, keptDisk, journal, writer, sweeping>>

----------------------------------------------------------------------------
(* runPatchChain *)

Clean == /\ At("clean")
         /\ Put("backup", Absent) /\ Goto("mark")
         /\ UNCHANGED <<lib, kept, keptDisk, journal, writer, sweeping>>

\* MergeDirWithBackup: what it replaces goes to the backup first.
Merge == /\ At("merge")
         /\ \/ /\ dir' = [dir EXCEPT !["backup"] = dir["current"], !["current"] = Partial]
               /\ Goto("merging")
            \/ UNCHANGED dir /\ Goto("unmerge")
         /\ UNCHANGED <<lib, kept, keptDisk, journal, writer, sweeping>>

Merging == /\ At("merging")
           /\ \/ /\ dir' = [dir EXCEPT !["current"] = job.next + 1, !["staging"] = Absent]
                 /\ Goto("resolve")
              \/ UNCHANGED dir /\ Goto("unmerge")
           /\ UNCHANGED <<lib, kept, keptDisk, journal, writer, sweeping>>

\* RestoreMergeBackup takes the files back one by one and can be repeated.
Unmerge == /\ At("unmerge")
           /\ IF dir["backup"] = Absent
                THEN UNCHANGED dir
                ELSE Put("current", Partial)
           /\ Goto("unmerging")
           /\ UNCHANGED <<lib, kept, keptDisk, journal, writer, sweeping>>

Unmerging ==
  /\ At("unmerging")
  /\ \/ /\ IF dir["backup"] = Absent
             THEN UNCHANGED dir
             ELSE dir' = [dir EXCEPT !["current"] = dir["backup"], !["backup"] = Absent]
        /\ IF job.op = "recover" THEN Goto("relib") ELSE Clearing("giveup")
     \/ /\ UNCHANGED dir
        /\ job' = [job EXCEPT !.pc = Broken, !.touched = TRUE]
  /\ UNCHANGED <<lib, kept, keptDisk, journal, writer, sweeping>>

\* mutant: the chain does not go on to the next patch
Merged_Again == /\ At("merged")
                /\ Put("backup", Absent)
                /\ job' = [job EXCEPT !.touched = TRUE,
                                      !.pc = IF job.next + 1 = job.goal THEN "settle" ELSE "fetch"]
                /\ UNCHANGED <<lib, kept, keptDisk, journal, writer, sweeping>>

Merged == /\ At("merged")
          /\ Put("backup", Absent)
          /\ job' = [job EXCEPT !.next = @ + 1, !.touched = TRUE,
                                !.pc = IF job.next + 1 = job.goal THEN "settle" ELSE "fetch"]
          /\ UNCHANGED <<lib, kept, keptDisk, journal, writer, sweeping>>

GiveUp == /\ At("giveup")
          /\ \/ ~job.touched /\ SaveKept(0) /\ Goto("drop")
             \/ UNCHANGED <<kept, keptDisk>> /\ Goto("end")
          /\ UNCHANGED <<dir, lib, journal, writer, sweeping>>

----------------------------------------------------------------------------
(* restoreSwapFiles, for undoSwapAndClear and for the recovery *)

Shifted == journal.retained /\ dir["retained"] # Absent

Restored == IF job.op = "recover"
              THEN Goto(IF journal.kind = "swap" THEN "rekeep" ELSE "relib")
              ELSE Clearing("end")

Restore ==
  /\ At("restore")
  /\ IF (journal.retained => Shifted) /\ dir[journal.place] # Absent
     THEN Put("replaced", Absent) /\ Goto("setaside")
     ELSE IF (journal.retained => Shifted) /\ journal.kind = "swap"
               /\ dir["current"] = Absent /\ dir["staging"] # Absent
     THEN \/ Rename("staging", "current") /\ IF Shifted THEN Goto("unretain") ELSE Restored
          \/ UNCHANGED dir /\ Goto("end")
     ELSE UNCHANGED dir /\ IF Shifted THEN Goto("unretain") ELSE Restored
  /\ UNCHANGED <<lib, kept, keptDisk, journal, writer, sweeping>>

SetAside ==
  /\ At("setaside")
  /\ \/ Rename("current", "replaced") /\ Goto("putback")
     \/ UNCHANGED dir /\ Goto(IF dir["current"] = Absent THEN "putback" ELSE "end")
  /\ UNCHANGED <<lib, kept, keptDisk, journal, writer, sweeping>>

\* mutant: a failed rename is passed over
PutBack_Ignored == Move("putback", journal.place, "current", "replaced", "replaced")

PutBack == Move("putback", journal.place, "current", "replaced", "end")

Replaced ==
  /\ At("replaced")
  /\ Put("replaced", Absent)
  /\ CASE Shifted -> Goto("unretain")
       [] job.op = "recover" /\ journal.kind = "inplace" /\ journal.place = "previous" -> Goto("forget")
       [] OTHER -> Restored
  /\ UNCHANGED <<lib, kept, keptDisk, journal, writer, sweeping>>

Unretain ==
  /\ At("unretain")
  /\ \/ Rename("retained", "previous") /\ Restored
     \/ UNCHANGED dir /\ Goto("end")
  /\ UNCHANGED <<lib, kept, keptDisk, journal, writer, sweeping>>

----------------------------------------------------------------------------
(* recoverJournals *)

\* mutant: the copy is put back while the download goes on writing
Recovery_NotStopped == CASE journal.kind = "none"     -> "end"
                         [] journal.kind = "cleanup"  -> "clear"
                         [] journal.kind = "rollback" -> "turn"
                         [] journal.kind = "patch"    -> "unmerge"
                         [] OTHER -> "restore"

Recovery == CASE journal.kind = "none"     -> "end"
              [] journal.kind = "cleanup"  -> "clear"
              [] journal.kind = "rollback" -> "turn"
              [] journal.kind = "swap"     -> "restore"
              [] journal.kind = "patch"    -> "unmerge"
              [] journal.kind = "inplace"  -> "stop"

\* The program is killed, and started again with what is on disk.
Crash == /\ job' = [Idle EXCEPT !.op = "recover", !.pc = Recovery]
         /\ kept' = keptDisk /\ sweeping' = FALSE
         /\ UNCHANGED <<dir, lib, keptDisk, journal, writer>>

\* recoverInplaceJournal forgets the record of a copy it has put back; best effort.
Forget == /\ At("forget")
          /\ \/ SaveKept(0) \/ UNCHANGED <<kept, keptDisk>>
          /\ Goto("relib")
          /\ UNCHANGED <<dir, lib, journal, writer, sweeping>>

\* restoreSwapRollbackMetadata
ReKeep == /\ At("rekeep")
          /\ \/ SaveKept(journal.rollback) /\ Put("staging", Absent) /\ Goto("relib")
             \/ UNCHANGED <<kept, keptDisk, dir>> /\ Goto("end")
          /\ UNCHANGED <<lib, journal, writer, sweeping>>

\* restoreJournalMetadata
ReLib == /\ At("relib")
         /\ \/ lib' = journal.original /\ Clearing("end")
            \/ UNCHANGED lib /\ Goto("end")
         /\ UNCHANGED <<dir, kept, keptDisk, journal, writer, sweeping>>

----------------------------------------------------------------------------
(* Rollback and finishRollback *)

Rollback ==
  /\ kept # 0 /\ job.op = "none" /\ journal.kind = "none"
  /\ dir["previous"] # Absent /\ dir["replaced"] = Absent
  /\ journal' = [NoJournal EXCEPT !.kind = "rollback", !.original = lib, !.rollback = kept]
  /\ job' = [Idle EXCEPT !.op = "rollback", !.pc = "turn"]
  /\ UNCHANGED <<dir, lib, kept, keptDisk, writer, sweeping>>

Turn == /\ At("turn")
        /\ Goto(IF dir["previous"] = Absent
                  THEN IF dir["current"] # Absent THEN "relink" ELSE "end"
                  ELSE IF dir["current"] = Absent THEN "back" ELSE "away")
        /\ UNCHANGED <<dir, lib, kept, keptDisk, journal, writer, sweeping>>

Away == Move("away", "current", "replaced", "back", "end")
Back == Move("back", "previous", "current", "relink", "end")

ReLink == /\ At("relink")
          /\ \/ lib' = journal.rollback /\ Goto("unkeep")
             \/ UNCHANGED lib /\ Goto("end")
          /\ UNCHANGED <<dir, kept, keptDisk, journal, writer, sweeping>>

UnKeep == /\ At("unkeep")
          /\ \/ SaveKept(0) /\ Clearing("discard")
             \/ UNCHANGED <<kept, keptDisk>> /\ Goto("end")
          /\ UNCHANGED <<dir, lib, journal, writer, sweeping>>

----------------------------------------------------------------------------
(* The copy is no longer offered: sweepPrevious and HandleSessionEnded *)

Expire ==
  /\ kept # 0 /\ job.op = "none" /\ journal.kind = "none"
  /\ \/ SaveKept(0) /\ sweeping' = TRUE
     \/ SaveKept(0) /\ UNCHANGED sweeping            \* the session's second write fails
     \/ keptDisk' = 0 /\ UNCHANGED <<kept, sweeping>>  \* the sweep's, and the write that undoes it
  /\ UNCHANGED <<dir, lib, journal, writer, job>>

\* Both remove the directory after they have given the lock up.
SweepRemoves == /\ sweeping
                /\ Put("previous", Absent) /\ sweeping' = FALSE
                /\ UNCHANGED <<lib, kept, keptDisk, journal, writer, job>>

----------------------------------------------------------------------------
(* The specification *)

\* An installed game, with or without an earlier version; older builds left retained copies.
Init ==
  /\ lib \in Versions
  /\ \E old \in 0 .. lib - 1, retained \in {Absent, Partial} :
       /\ kept = old
       /\ dir = [p \in Places |-> CASE p = "current"  -> lib
                                    [] p = "previous" -> old
                                    [] p = "retained" -> retained
                                    [] OTHER -> Absent]
  /\ keptDisk = kept /\ journal = NoJournal /\ writer = 0 /\ job = Idle /\ sweeping = FALSE

Step ==
  \/ Fetch \/ Unpack \/ Slot \/ Copy \/ Copying \/ Mark \/ Resolve \/ Register \/ Keep
  \/ Clear \/ Cleared \/ Settle \/ Drop \/ EndJob
  \/ Look \/ JournalSwap \/ Retain \/ Aside \/ Install \/ CarryOver
  \/ Write \/ Writing \/ Stop \/ Discard
  \/ Clean \/ Merge \/ Merging \/ Unmerge \/ Unmerging \/ Merged \/ GiveUp
  \/ Restore \/ SetAside \/ PutBack \/ Replaced \/ Unretain
  \/ Forget \/ ReKeep \/ ReLib \/ Turn \/ Away \/ Back \/ ReLink \/ UnKeep

Next ==
  \/ SweepRemoves
  \/ Crash
  \/ /\ sweeping => "lateSweep" \in Races
     /\ \/ StartUpdate \/ RepairGame \/ BeginRefused \/ Rollback \/ Expire
        \/ Step \/ WriterWrites

Spec == Init /\ [][Next]_vars

\* waitDownload has no limit while the download is queued, paused, verifying or looking for
\* its metadata: updateStallTimeout is measured while it is downloading only.
Waits == At("fetch") \/ At("writing")

\* A job that can go on does, once its download has ended; it waits for installers no longer
\* than a limit (installWaitSlack).
FairSpec == Spec /\ WF_vars(Step /\ ~Waits) /\ WF_vars(SweepRemoves)

----------------------------------------------------------------------------
(* Properties *)

\* Every variable has its type.
TypeOK ==
  /\ dir \in [Places -> Content]
  /\ lib \in Versions
  /\ kept \in 0 .. MaxVersion /\ keptDisk \in {0, kept}
  /\ journal \in Journal
  /\ writer \in 0 .. MaxVersion
  /\ job \in Job
  /\ sweeping \in BOOLEAN

\* What the next start would leave as the installation, if it came now and nothing failed.
RecoveredFiles ==
  LET copy == dir[journal.place]
  IN CASE journal.kind \in {"inplace", "patch"} /\ copy # Absent -> copy
       [] journal.kind = "swap" /\ (journal.retained => Shifted) /\ copy # Absent -> copy
       [] journal.kind = "rollback" /\ dir["previous"] # Absent -> dir["previous"]
       [] OTHER -> dir["current"]

\* ... and the version it would register ...
RecoveredVersion == CASE journal.kind \in {"swap", "inplace", "patch"} -> journal.original
                      [] journal.kind = "rollback" -> journal.rollback
                      [] OTHER -> lib

\* ... and the version that can be gone back to.
RecoveredKept ==
  LET Backed(version, place) == IF dir[place] = version THEN version ELSE 0
  IN CASE journal.kind = "swap" ->
            IF journal.retained
              THEN Backed(journal.rollback, IF Shifted THEN "retained" ELSE "previous")
              ELSE 0
       [] journal.kind = "inplace" /\ journal.place = "previous" -> 0
       [] journal.kind = "rollback" -> 0
       [] OTHER -> Backed(kept, "previous")

\* Whatever a job has done so far, the next start finds a complete installation, and the
\* library says which version it is (the journal is written before the first destructive
\* step and says enough to undo all of them).
Recoverable == RecoveredFiles = RecoveredVersion /\ RecoveredVersion \in Versions

\* A version a rollback is offered to is there in full, or there is nothing to roll back
\* with: never another version, or part of one, under its name (releaseBackupSlot).
OfferIsWhole ==
  journal.kind \in {"none", "cleanup"} /\ kept # 0 => dir["previous"] \in {kept, Absent}

\* The state is well formed, and what it offers to go back to is what is on the disk
\* (updates.json against the folders, whatever clearJournal or the sweep did in between).
Consistent == TypeOK /\ OfferIsWhole

\* A copy retained during a swap that is neither put back nor removed is never forgotten
\* by its journal, whichever removal or write of clearJournal fails.
NothingRetained ==
  [][dir'["retained"] # Absent /\ (dir["retained"] = Absent \/ journal.retained)
       => journal'.retained]_vars

\* The library changes to a version only when all its files are in place.
RegisteredAreInstalled == [][lib' # lib => dir'["current"] = lib']_vars

\* Together, what a step of a job may never do: forget a copy it moved aside, or register
\* what is not installed.
StepsAreSafe == NothingRetained /\ RegisteredAreInstalled

\* Once the program is no longer killed in the middle of them, every update, repair, rollback
\* and recovery comes to an end, unless from some moment on it waits for one download: a chain
\* gets through its patches, and no failing step is repeated for ever (runUpdate, endJob).
JobsEnd == (<>[][~Crash]_vars) => []<>(job.op = "none") \/ <>[]Waits

\* The program replaces the installation as one step, in whatever state it is killed.
Atomic == INSTANCE AtomicUpdate WITH installed <- RecoveredVersion, kept <- RecoveredKept
AtomicSpec == Atomic!Spec
================================================================================
