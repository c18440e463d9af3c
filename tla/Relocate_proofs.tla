----------------------------- MODULE Relocate_proofs -----------------------------
(***************************************************************************)
(* What holds of the moves of a game and of the library, for any folders,   *)
(* jobs, plays and attempts of the recovery: wherever a move fails or the   *)
(* program is killed, the newest files of the game are in one piece and the *)
(* next start finds them, and the records of the downloads point at them.   *)
(*                                                                          *)
(* Left out, as in the model-checked run: moves that begin while a failed   *)
(* one is not settled, or over half a tree of downloads ("again").          *)
(***************************************************************************)
EXTENDS Relocate, TLAPS

\* No second move before the first is settled (see Settled and Mends).
OneAtATime == "again" \notin Events

\* A job the next start would still do something for, and the stage it would do it at.
Alive(job) == Active(job) \/ Resumable(job)
Phase(job) == IF job.stage = "failed" THEN job.failedAt ELSE job.stage

\* A job that is at the game, and one of the library.
OnGame(j) == Alive(jobs[j]) /\ jobs[j].item = "game"
OnLibrary(j) == Alive(jobs[j]) /\ jobs[j].scope = "library"

\* The steps at which the game is reserved, and those of the recovery.
LockSteps == {"start", "rename", "renamed", "copy", "manifest", "copying", "copied", "verify",
              "verifying", "commit", "committed", "repoint", "cleanup", "reprepare", "recommit",
              "attempt", "retry"}
RecSteps == {"reprepare", "recopy", "recommit", "attempt", "retry", "giveup", "surface", "after"}

\* What a job in the journal can look like.
JobOk(job) ==
  /\ job.stage = "cancelled" => job.failedAt = "none"
  /\ Alive(job) =>
       /\ job.item = "none" => job.stage = "prepare" /\ job.rest \in {2, 3}
       /\ job.item = "game" =>
            job.source # job.target /\ job.rest = (IF job.scope = "game" THEN 0 ELSE 2)
       /\ job.item = "downloads" => job.rest = 1 /\ Phase(job) \in {"prepare", "repoint", "cleanup"}
       /\ job.item = "settings" => /\ job.rest = 0 /\ Phase(job) \in {"prepare", "repoint"}
                                   /\ job.source # job.target
       /\ job.staging <=> Phase(job) \in {"copy", "verify", "commit"}
       /\ job.renamed => Phase(job) \in {"repoint", "cleanup"}
       /\ job.item # "game" => job.scope = "library"
       /\ job.scope = "library" => job.target \in Roots

\* ... while its goroutine, or the recovery, is at a step.
StepOk(job, a) ==
  /\ a \in {"start", "rename", "renamed", "copy"} => job.item = "game" /\ job.stage = "prepare"
  /\ a \in {"manifest", "copying", "copied", "verify"} => job.item = "game" /\ job.stage = "copy"
  /\ a = "verifying" => job.item = "game" /\ job.stage = "verify"
  /\ a \in {"commit", "committed", "recommit"} => job.item = "game" /\ job.stage = "commit"
  /\ a = "repoint" => job.item = "game" /\ job.stage = "repoint"
  /\ a = "cleanup" => job.item \in {"game", "downloads"} /\ job.stage = "repoint"
  /\ a \in {"remove", "removing"} => job.item = "game" /\ job.stage = "cleanup"
  /\ a = "removed" => job.item \in {"game", "downloads"} /\ job.stage = "cleanup"
  /\ a = "next" => /\ job.scope = "library"
                   /\ \/ job.item = "none"  /\ job.stage = "prepare"
                      \/ job.item \in {"game", "downloads"} /\ job.stage = "cleanup"
                      \/ job.item = "settings" /\ job.stage = "repoint"
  /\ a = "complete" => \/ job.item = "game" /\ job.stage = "cleanup"
                       \/ job.item = "settings" /\ job.stage = "repoint"
  /\ a = "stage" => job.item \in {"downloads", "settings"} /\ job.stage = "prepare"
  /\ a \in {"tree", "treeremove", "dest"} => job.item = "downloads" /\ job.stage = "repoint"
  /\ a = "root" => job.item = "settings" /\ job.stage = "repoint"
  /\ a \in {"fail", "cancel"} => Active(job)
  /\ a = "cancel" => job.item = "game" \/ job.stage # "repoint"
  /\ a = "surface" => ~Alive(job)
  /\ a = "reprepare" => job.stage = "prepare"
  /\ a = "recopy" => job.stage \in {"copy", "verify"}
  /\ a = "attempt" => Alive(job) /\ Phase(job) \in {"repoint", "cleanup"}
  /\ a = "retry" => job.stage \in {"repoint", "cleanup"}
  /\ a = "giveup" => Alive(job)

\* The recovery works on one job at a time and has counted the attempt it makes.
RecFits(j) ==
  /\ at[j] \in RecSteps => recovery.job = j
  /\ recovery.job = j =>
       /\ at[j] \notin {"idle", "next"}
       /\ recovery.from # "none" /\ at[j] # "end" => jobs[j].attempts >= 1 \/ jobs[j].stage = "none"
  /\ j \in recovery.todo => at[j] = "idle" /\ jobs[j].stage # "none"

LockFits(j) == jobs[j].item = "game" /\ at[j] \in LockSteps => lock = j

JobFits(j) == JobOk(jobs[j]) /\ StepOk(jobs[j], at[j]) /\ RecFits(j) /\ LockFits(j)

\* One job at most is, or comes, at the game, and one is of the library.
OneOnGame == \A j, k \in JobIds :
  /\ Alive(jobs[j]) /\ jobs[j].item \in {"none", "game"}
  /\ Alive(jobs[k]) /\ jobs[k].item \in {"none", "game"}
  => j = k
OneOnLibrary == \A j, k \in JobIds : OnLibrary(j) /\ OnLibrary(k) => j = k

ControlInv == /\ recovery.from \in {"none", "repoint", "cleanup", "failed"}
              /\ \A j \in JobIds : JobFits(j)
              /\ OneOnGame /\ OneOnLibrary

\* Where the files of the game are in each phase of its move.  A play changes the copy the
\* library has registered, and it comes wherever the game is not reserved.
Copies(job, M) ==
  LET S == dir[job.source]
      T == dir[job.target]
      G == staging[job.target]
  IN /\ Phase(job) = "prepare" => lib = job.source /\ (S = latest \/ (S = Absent /\ T = latest))
     /\ Phase(job) \in {"copy", "verify"} => lib = job.source /\ S = latest /\ T = Absent
     /\ Phase(job) = "commit" => /\ lib = job.source /\ S = latest /\ M \in 0 .. latest
                                 /\ \/ T = Absent /\ G \in {M, Absent}
                                    \/ T = M /\ G = Absent
     /\ Phase(job) = "repoint" =>
          \/ job.renamed /\ S = Absent /\ T = latest /\ lib \in {job.source, job.target}
          \/ /\ ~job.renamed /\ M \in 0 .. latest
             /\ \/ lib = job.source /\ S = latest /\ (T = M \/ (T \in {Absent, Partial} /\ M < latest))
                \/ lib = job.target /\ T = latest
     /\ Phase(job) = "cleanup" => lib = job.target /\ T = latest /\ (job.renamed => S = Absent)

\* ... and what the step the move is at knows besides.
StepFacts(job, a, M) ==
  LET S == dir[job.source]
      T == dir[job.target]
      G == staging[job.target]
  IN /\ a \in {"start", "rename", "copy"} => S = latest
     /\ a = "copy" => T = Absent
     /\ a = "renamed" => S = Absent /\ T = latest
     /\ a \in {"copying", "copied", "verify", "verifying"} => M = latest
     /\ a = "commit" => M = latest /\ G = M /\ T = Absent
     /\ a = "committed" => T = M /\ G = Absent
     /\ a = "repoint" => T = latest
     /\ a = "cleanup" => lib = job.target /\ T = latest
     /\ a \in {"removed", "complete"} => S = Absent
     /\ a = "giveup" => dir[lib] = latest \/ job.attempts >= MaxRecoveryAttempts
     /\ a = "fail" => dir[lib] = latest \/ job.stage \in {"repoint", "cleanup"}
     /\ a = "cancel" => dir[lib] = latest

GameFor(j) ==
  OnGame(j) => /\ Copies(jobs[j], manifest[j]) /\ StepFacts(jobs[j], at[j], manifest[j])
               /\ at[j] = "committed" /\ recovery.job # j => manifest[j] = latest

\* Without a move the library has the newest files, or a move was given up for good.
Rested == \/ dir[lib] = latest
          \/ exhausted /\ dir[lib] = Absent /\ LatestKept
Rest == (\A k \in JobIds : ~OnGame(k)) =>
          /\ Rested
          /\ (\E k \in JobIds : Alive(jobs[k]) /\ jobs[k].item = "none") => dir[lib] = latest

SweepInv == sweep.at = "reserved" => ~InUse(sweep.place)

GameInv == (\A j \in JobIds : GameFor(j)) /\ Rest

\* What a move of the library has done of the downloads.
LibraryFor(j) ==
  LET job == jobs[j]
  IN OnLibrary(j) =>
       /\ job.item # "settings" => job.target # root
       /\ job.item = "downloads" => job.source = root
       /\ job.item = "settings" => /\ root \in {job.source, job.target} /\ tree[dest] = 0
                                   /\ root = job.source => dest # root /\ tree[root] = Absent
       /\ job.item = "downloads" /\ (Phase(job) = "cleanup" \/ at[j] = "cleanup") =>
            tree[dest] = 0 /\ dest # root /\ tree[root] = Absent
       /\ at[j] = "dest" => tree[root] = Absent
       /\ at[j] = "treeremove" /\ dest = root => tree[job.target] = 0
       /\ at[j] = "giveup" /\ job.item = "downloads" =>
            tree[dest] = 0 \/ tree[root] # Absent \/ job.attempts >= MaxRecoveryAttempts

\* The records point at a whole tree, or the move of the downloads was interrupted: they still
\* point at the old root, and the tree is whole where the move will go on to.
Pending(j) == OnLibrary(j) /\ jobs[j].item = "downloads" /\ Phase(jobs[j]) = "repoint"
Halfway ==
  /\ dest = root /\ tree[root] \in {Absent, Partial}
  /\ \E r \in Roots \ {root} : tree[r] = 0
  /\ \A j \in JobIds : OnLibrary(j) => jobs[j].item # "settings" /\ tree[jobs[j].target] = 0
  /\ tree[root] = Absent => \/ exhausted /\ \A j \in JobIds : ~OnLibrary(j)
                            \/ \E j \in JobIds : Pending(j)
TreeInv == tree[dest] = 0 \/ Halfway

LibraryInv == (\A j \in JobIds : LibraryFor(j)) /\ TreeInv

\* The inductive invariant.
IInv == TypeOK /\ ControlInv /\ GameInv /\ SweepInv /\ LibraryInv

----------------------------------------------------------------------------
(* A step of one job leaves the others alone *)

\* What a step of job j leaves of the other jobs.
OthersKeep(j) ==
  \A k \in JobIds \ {j} :
    /\ jobs'[k] = jobs[k] /\ at'[k] = at[k] /\ manifest'[k] = manifest[k]
    /\ lock = k => lock' = k
    /\ recovery.job = k <=> recovery'.job = k
    /\ recovery.job = k => recovery'.from = recovery.from
    /\ k \in recovery'.todo => k \in recovery.todo

\* The invariant of the control is kept when the job that moves keeps its part of it and does
\* not come alive.
LEMMA ControlStep ==
  ASSUME ControlInv, NEW j \in JobIds, OthersKeep(j), JobFits(j)',
         recovery'.from \in {"none", "repoint", "cleanup", "failed"},
         Alive(jobs'[j]) => /\ Alive(jobs[j]) /\ jobs'[j].scope = jobs[j].scope
                            /\ jobs'[j].item \in {"none", "game"} => jobs[j].item \in {"none", "game"}
  PROVE  ControlInv'
<1>1. ASSUME NEW k \in JobIds PROVE JobFits(k)'
  <2>1. CASE k = j
    BY <2>1
  <2>2. CASE k # j
    <3>1. JobFits(k)
      BY DEF ControlInv
    <3>2. (LockFits(k) /\ RecFits(k))'
      BY <2>2, <3>1 DEF OthersKeep, JobFits, LockFits, RecFits
    <3> QED
      BY <2>2, <3>1, <3>2 DEF OthersKeep, JobFits
  <2> QED
    BY <2>1, <2>2
<1>2. OneOnGame'
  BY DEF OneOnGame, ControlInv, OthersKeep
<1>3. OneOnLibrary'
  BY DEF OneOnLibrary, OnLibrary, ControlInv, OthersKeep
<1> QED
  BY <1>1, <1>2, <1>3 DEF ControlInv

\* ... that of the game, when the job is the one at the game,
LEMMA GameOwn ==
  ASSUME ControlInv, NEW j \in JobIds, OnGame(j), OthersKeep(j), GameFor(j)',
         Alive(jobs'[j]) => jobs'[j].item # "none",
         ~OnGame(j)' => Rested'
  PROVE  GameInv'
<1>1. \A k \in JobIds \ {j} : ~(Alive(jobs[k]) /\ jobs[k].item \in {"none", "game"})
  BY DEF ControlInv, OneOnGame, OnGame
<1>2. \A k \in JobIds \ {j} : ~(Alive(jobs[k]) /\ jobs[k].item \in {"none", "game"})'
  BY <1>1 DEF OthersKeep
<1>3. \A k \in JobIds : GameFor(k)'
  BY <1>2 DEF GameFor, OnGame
<1>4. Rest'
  BY <1>2 DEF Rest, OnGame
<1> QED
  BY <1>3, <1>4 DEF GameInv

\* ... or has nothing to do with it.
LEMMA GameOther ==
  ASSUME ControlInv, GameInv, NEW j \in JobIds, ~OnGame(j), ~OnGame(j)', OthersKeep(j),
         UNCHANGED <<dir, staging, game>>, exhausted => exhausted',
         Alive(jobs'[j]) /\ jobs'[j].item = "none" => Alive(jobs[j]) /\ jobs[j].item = "none"
  PROVE  GameInv'
<1> USE DEF game
<1>1. ASSUME NEW k \in JobIds PROVE GameFor(k)'
  <2>1. CASE k = j
    BY <2>1 DEF GameFor
  <2>2. CASE k # j
    <3>1. GameFor(k)
      BY DEF GameInv
    <3>2. CASE OnGame(k)
      <4>1. Copies(jobs[k], manifest[k])' /\ StepFacts(jobs[k], at[k], manifest[k])'
        BY <2>2, <3>1, <3>2 DEF GameFor, OthersKeep, Copies, StepFacts
      <4> QED
        BY <2>2, <3>1, <3>2, <4>1 DEF GameFor, OthersKeep
    <3>3. CASE ~OnGame(k)
      BY <2>2, <3>3 DEF GameFor, OnGame, OthersKeep
    <3> QED
      BY <3>2, <3>3
  <2> QED
    BY <2>1, <2>2
<1>2. (\A k \in JobIds : ~OnGame(k))' => \A k \in JobIds : ~OnGame(k)
  BY DEF OnGame, OthersKeep
<1>3. Rested => Rested'
  BY DEF Rested, LatestKept
<1>4. (\E k \in JobIds : Alive(jobs[k]) /\ jobs[k].item = "none")'
      => \E k \in JobIds : Alive(jobs[k]) /\ jobs[k].item = "none"
  BY DEF OthersKeep
<1>5. Rest'
  BY <1>2, <1>3, <1>4 DEF Rest, GameInv
<1> QED
  BY <1>1, <1>5 DEF GameInv

\* A job that does not bring a staging folder into use.
LEMMA SweepStep ==
  ASSUME SweepInv, NEW j \in JobIds, OthersKeep(j), UNCHANGED sweep,
         Active(jobs'[j]) /\ jobs'[j].staging =>
           Active(jobs[j]) /\ jobs[j].staging /\ jobs'[j].target = jobs[j].target
  PROVE  SweepInv'
BY DEF SweepInv, InUse, OthersKeep

\* A job that is not at the downloads or the settings leaves the library alone.
LEMMA LibraryOther ==
  ASSUME LibraryInv, NEW j \in JobIds, OthersKeep(j), UNCHANGED library,
         exhausted => exhausted',
         OnLibrary(j) => jobs[j].item \in {"none", "game"},
         OnLibrary(j)' => /\ OnLibrary(j) /\ jobs'[j].item \in {"none", "game"}
                          /\ jobs'[j].target = jobs[j].target,
         at'[j] \notin {"dest", "treeremove"}
  PROVE  LibraryInv'
<1> USE DEF library
<1>1. ASSUME NEW k \in JobIds PROVE LibraryFor(k)'
  <2>1. CASE k = j
    BY <2>1 DEF LibraryFor, LibraryInv
  <2>2. CASE k # j
    <3>1. LibraryFor(k)
      BY DEF LibraryInv
    <3> QED
      BY <2>2, <3>1 DEF LibraryFor, OnLibrary, OthersKeep
  <2> QED
    BY <2>1, <2>2
<1>2. \A k \in JobIds : OnLibrary(k)' => OnLibrary(k) /\ jobs'[k].target = jobs[k].target
  BY DEF OnLibrary, OthersKeep
<1>3. \A k \in JobIds : Pending(k) => Pending(k)'
  BY DEF Pending, OnLibrary, OthersKeep
<1>4. Halfway => Halfway'
  <2> SUFFICES ASSUME Halfway PROVE Halfway'
    OBVIOUS
  <2>1. \A k \in JobIds : OnLibrary(k)' => jobs'[k].item # "settings" /\ tree[jobs'[k].target] = 0
    BY <1>2 DEF Halfway, OnLibrary, OthersKeep
  <2> QED
    BY <2>1, <1>2, <1>3 DEF Halfway
<1> QED
  BY <1>1, <1>4 DEF LibraryInv, TreeInv

\* What the invariant says of one job.
LEMMA Has ==
  ASSUME IInv, NEW j \in JobIds
  PROVE  /\ jobs[j] \in Job /\ at[j] \in Steps
         /\ JobOk(jobs[j]) /\ StepOk(jobs[j], at[j]) /\ RecFits(j) /\ LockFits(j)
         /\ GameFor(j) /\ LibraryFor(j)
BY DEF IInv, TypeOK, ControlInv, JobFits, GameInv, LibraryInv

\* A step of the job at the game.
LEMMA GameStep ==
  ASSUME IInv, NEW j \in JobIds, OnGame(j), OthersKeep(j), TypeOK', JobFits(j)', GameFor(j)',
         recovery'.from \in {"none", "repoint", "cleanup", "failed"},
         UNCHANGED <<library, sweep>>, exhausted => exhausted',
         Alive(jobs'[j]) => /\ jobs'[j].scope = jobs[j].scope /\ jobs'[j].item = jobs[j].item
                            /\ jobs'[j].target = jobs[j].target,
         ~OnGame(j)' => Rested',
         Active(jobs'[j]) /\ jobs'[j].staging => Active(jobs[j]) /\ jobs[j].staging,
         at'[j] \notin {"dest", "treeremove"}
  PROVE  IInv'
<1>1. ControlInv /\ GameInv /\ SweepInv /\ LibraryInv /\ jobs[j].item = "game" /\ Alive(jobs[j])
  BY DEF IInv, OnGame
<1>2. ControlInv'
  BY <1>1, ControlStep
<1>3. GameInv'
  BY <1>1, GameOwn
<1>4. SweepInv'
  <2>1. Active(jobs'[j]) => Alive(jobs'[j])
    BY DEF Alive
  <2> QED
    BY <1>1, <2>1, SweepStep
<1>5. LibraryInv'
  <2>1. OnLibrary(j)' => OnLibrary(j) /\ jobs'[j].item = "game" /\ jobs'[j].target = jobs[j].target
    BY <1>1 DEF OnLibrary
  <2> QED
    BY <1>1, <2>1, LibraryOther
<1> QED
  BY <1>2, <1>3, <1>4, <1>5 DEF IInv

\* A step that gives up and changes nothing: the job stays as it is in the journal.
LEMMA GivesUp ==
  ASSUME IInv, NEW j \in JobIds, at[j] \notin {"idle", "end"}, Go(j, Return(j)),
         UNCHANGED <<files, game, library, control, jobs>>
  PROVE  IInv'
<1> USE DEF files, game, library, control
<1>1. at' = [at EXCEPT ![j] = at'[j]] /\ at'[j] \in {"end", "after"} /\ at \in [JobIds -> Steps]
      /\ (at'[j] = "after" => recovery.job = j)
  BY DEF Go, Return, Recovering, IInv, TypeOK
<1>2. OthersKeep(j)
  BY <1>1 DEF OthersKeep
<1>3. TypeOK'
  BY <1>1 DEF IInv, TypeOK, Steps
<1>4. ControlInv'
  <2>1. JobFits(j)'
    BY <1>1, Has DEF JobFits, RecFits, LockFits, StepOk, LockSteps, RecSteps
  <2> QED
    BY <1>2, <2>1, ControlStep DEF IInv, ControlInv
<1>5. GameInv'
  <2>1. CASE OnGame(j)
    <3>1. Copies(jobs[j], manifest[j])
      BY <2>1, Has DEF GameFor
    <3>2. Copies(jobs[j], manifest[j])'
      BY <3>1 DEF Copies
    <3>3. StepFacts(jobs[j], at[j], manifest[j])'
      BY <1>1 DEF StepFacts
    <3>4. GameFor(j)'
      BY <1>1, <3>2, <3>3 DEF GameFor
    <3> QED
      BY <1>2, <2>1, <3>4, GameOwn DEF IInv, OnGame
  <2>2. CASE ~OnGame(j)
    BY <1>2, <2>2, GameOther DEF IInv, OnGame
  <2> QED
    BY <2>1, <2>2
<1>6. SweepInv'
  BY <1>2, SweepStep DEF IInv
<1>7. LibraryInv'
  <2>1. ASSUME NEW k \in JobIds PROVE LibraryFor(k)'
    <3>1. LibraryFor(k) /\ (at'[k] = at[k] \/ at'[k] \in {"end", "after"})
      BY <1>1, <1>2, Has DEF OthersKeep
    <3> QED
      BY <3>1 DEF LibraryFor, OnLibrary
  <2>2. TreeInv'
    <3>1. TreeInv
      BY DEF IInv, LibraryInv
    <3> QED
      BY <3>1 DEF TreeInv, Halfway, OnLibrary, Pending
  <2> QED
    BY <2>1, <2>2 DEF LibraryInv
<1> QED
  BY <1>3, <1>4, <1>5, <1>6, <1>7 DEF IInv

----------------------------------------------------------------------------
(* The pipeline of a game *)

LEMMA StartKeeps ==
  ASSUME IInv, NEW j \in JobIds, Start(j)
  PROVE  IInv'
<1> USE DEF files, game, library, control
<1>1. /\ at[j] = "start" /\ UNCHANGED <<files, game, library, control, jobs>>
      /\ at' = [at EXCEPT ![j] = at'[j]] /\ at'[j] \in {"rename", "cancel"}
      /\ OthersKeep(j)
  BY DEF Start, Go, OthersKeep, IInv, TypeOK
<1>2. /\ jobs[j].item = "game" /\ jobs[j].stage = "prepare" /\ OnGame(j)
      /\ jobs[j] \in Job
  BY <1>1, Has DEF StepOk, OnGame, Alive, Active
<1>3. TypeOK'
  BY <1>1 DEF IInv, TypeOK, Steps
<1>4. JobFits(j)'
  BY <1>1, <1>2, Has DEF JobFits, RecFits, LockFits, StepOk, LockSteps, RecSteps, Active
<1>5. GameFor(j)'
  <2>1. /\ Copies(jobs[j], manifest[j]) /\ dir[jobs[j].source] = latest
        /\ lib = jobs[j].source
    BY <1>1, <1>2, Has DEF GameFor, StepFacts, Copies, Phase
  <2>2. Copies(jobs[j], manifest[j])'
    BY <1>1, <2>1 DEF Copies
  <2>3. StepFacts(jobs[j], at[j], manifest[j])'
    BY <1>1, <2>1 DEF StepFacts
  <2> QED
    BY <1>1, <2>2, <2>3 DEF GameFor
<1> QED
  BY <1>1, <1>2, <1>3, <1>4, <1>5, GameStep DEF IInv, ControlInv, OnGame

\* The records that the queue stores: the next item, and one that has nothing to move.
Passed(job) == [job EXCEPT !.rest = 2, !.stage = "prepare"]

ItemOf(new, job, item, source, rest) ==
  /\ new \in Job /\ new.item = item /\ new.source = source /\ new.rest = rest
  /\ new.stage = "prepare" /\ new.staging = FALSE /\ new.renamed = FALSE
  /\ new.scope = job.scope /\ new.target = job.target
  /\ new.failedAt = job.failedAt /\ new.attempts = job.attempts

LEMMA ItemRecord ==
  ASSUME NEW job \in Job, NEW item \in Items, NEW source \in Places, NEW rest \in 0 .. 3
  PROVE  ItemOf(NewItem(job, item, source, rest), job, item, source, rest)
<1> DEFINE counts == 0 .. 3
<1> DEFINE tries == 0 .. MaxRecoveryAttempts
<1>1. Job = [stage : Stages, failedAt : {"none", "repoint", "cleanup"}, item : Items,
             source : Places, target : Places, staging : BOOLEAN, renamed : BOOLEAN,
             attempts : tries, rest : counts, scope : {"game", "library"}]
  BY DEF Job
<1>2. rest \in counts /\ "prepare" \in Stages
  BY DEF Stages
<1> HIDE DEF counts, tries
<1> QED
  BY <1>1, <1>2 DEF NewItem, ItemOf

LEMMA PassedRecord ==
  ASSUME NEW job \in Job, NEW new, new = Passed(job)
  PROVE  /\ new \in Job /\ new.rest = 2 /\ new.stage = "prepare"
         /\ new.item = job.item /\ new.staging = job.staging /\ new.renamed = job.renamed
         /\ new.scope = job.scope /\ new.target = job.target
         /\ new.failedAt = job.failedAt /\ new.attempts = job.attempts
<1> DEFINE counts == 0 .. 3
<1> DEFINE tries == 0 .. MaxRecoveryAttempts
<1>1. Job = [stage : Stages, failedAt : {"none", "repoint", "cleanup"}, item : Items,
             source : Places, target : Places, staging : BOOLEAN, renamed : BOOLEAN,
             attempts : tries, rest : counts, scope : {"game", "library"}]
  BY DEF Job
<1>2. 2 \in counts /\ "prepare" \in Stages
  BY DEF Stages
<1> HIDE DEF counts, tries
<1> QED
  BY <1>1, <1>2 DEF Passed

LEMMA RenameDirKeeps ==
  ASSUME IInv, NEW j \in JobIds, RenameDir(j)
  PROVE  IInv'
<1> USE DEF files, game, library, control
<1>1. /\ at[j] = "rename" /\ UNCHANGED <<staging, manifest, game, library, control, jobs>>
      /\ at' = [at EXCEPT ![j] = at'[j]] /\ at'[j] \in {"renamed", "copy", "fail"}
      /\ OthersKeep(j)
  BY DEF RenameDir, Go, OthersKeep, IInv, TypeOK
<1>2. /\ jobs[j].item = "game" /\ jobs[j].stage = "prepare" /\ OnGame(j)
      /\ jobs[j] \in Job /\ jobs[j].source # jobs[j].target
  BY <1>1, Has DEF StepOk, OnGame, Alive, Active, JobOk
<1>3. dir[jobs[j].source] = latest /\ lib = jobs[j].source
  BY <1>1, <1>2, Has DEF GameFor, StepFacts, Copies, Phase
<1>4. \/ /\ at'[j] = "renamed"
         /\ dir' = [dir EXCEPT ![jobs[j].target] = dir[jobs[j].source], ![jobs[j].source] = Absent]
      \/ at'[j] = "copy" /\ UNCHANGED dir /\ dir[jobs[j].target] = Absent
      \/ at'[j] = "fail" /\ UNCHANGED dir
  BY <1>1 DEF RenameDir, Go, IInv, TypeOK
<1>5. TypeOK'
  <2>1. dir' \in [Places -> Content]
    BY <1>2, <1>4 DEF IInv, TypeOK, Content, Job
  <2> QED
    BY <1>1, <2>1 DEF IInv, TypeOK, Steps
<1>6. JobFits(j)'
  BY <1>1, <1>2, Has DEF JobFits, RecFits, LockFits, StepOk, LockSteps, RecSteps, Active
<1>7. GameFor(j)'
  <2>1. dir \in [Places -> Content] /\ jobs[j].source \in Places /\ jobs[j].target \in Places
    BY <1>2 DEF IInv, TypeOK, Job
  <2>2. Copies(jobs[j], manifest[j])'
    BY <1>1, <1>2, <1>3, <1>4, <2>1 DEF Copies, Phase
  <2>3. StepFacts(jobs[j], at[j], manifest[j])'
    BY <1>1, <1>2, <1>3, <1>4, <2>1 DEF StepFacts
  <2> QED
    BY <1>1, <2>2, <2>3 DEF GameFor
<1> QED
  BY <1>1, <1>2, <1>5, <1>6, <1>7, GameStep DEF IInv, ControlInv, OnGame

LEMMA RenamedKeeps ==
  ASSUME IInv, NEW j \in JobIds, Renamed(j)
  PROVE  IInv'
<1> USE DEF files, game, library, control
<1>1. at[j] = "renamed" /\ UNCHANGED <<files, game, library, control>>
  BY DEF Renamed
<1>2. CASE UNCHANGED jobs /\ Go(j, Return(j))
  BY <1>1, <1>2, GivesUp
<1>3. CASE /\ jobs' = [jobs EXCEPT ![j] = [jobs[j] EXCEPT !.stage = "repoint", !.renamed = TRUE]]
           /\ Go(j, "repoint")
  <2>1. /\ jobs[j].item = "game" /\ jobs[j].stage = "prepare" /\ OnGame(j)
        /\ jobs[j] \in Job
    BY <1>1, Has DEF StepOk, OnGame, Alive, Active
  <2>2. /\ jobs'[j] = [jobs[j] EXCEPT !.stage = "repoint", !.renamed = TRUE]
        /\ at'[j] = "repoint" /\ OthersKeep(j) /\ jobs'[j] \in Job
    BY <1>1, <1>3, <2>1 DEF OthersKeep, Go, IInv, TypeOK, Job, Stages
  <2>3. TypeOK'
    BY <1>1, <1>3, <2>2 DEF IInv, TypeOK, Steps, Go
  <2>4. JobFits(j)'
    BY <1>1, <2>1, <2>2, Has
    DEF JobFits, RecFits, LockFits, StepOk, LockSteps, RecSteps, JobOk, Alive, Active, Phase,
        Resumable, Job
  <2>5. GameFor(j)'
    <3>1. /\ dir[jobs[j].source] = Absent /\ dir[jobs[j].target] = latest /\ lib = jobs[j].source
      BY <1>1, <2>1, Has DEF GameFor, StepFacts, Copies, Phase
    <3> QED
      BY <1>1, <2>1, <2>2, <3>1 DEF GameFor, Copies, StepFacts, Phase, Job
  <2>6. /\ jobs'[j].scope = jobs[j].scope /\ jobs'[j].item = jobs[j].item
        /\ jobs'[j].target = jobs[j].target /\ OnGame(j)' /\ at'[j] \notin {"dest", "treeremove"}
        /\ Active(jobs'[j]) /\ jobs'[j].staging => Active(jobs[j]) /\ jobs[j].staging
    BY <2>1, <2>2 DEF Job, OnGame, Alive, Active
  <2> QED
    BY <1>1, <2>1, <2>2, <2>3, <2>4, <2>5, <2>6, GameStep DEF IInv, ControlInv
<1> QED
  BY <1>2, <1>3 DEF Renamed, Transition

LEMMA BeginCopyKeeps ==
  ASSUME IInv, NEW j \in JobIds, BeginCopy(j)
  PROVE  IInv'
<1> USE DEF files, game, library, control
<1>1. at[j] = "copy" /\ UNCHANGED <<files, game, library, control>>
  BY DEF BeginCopy
<1>2. /\ jobs[j].item = "game" /\ jobs[j].stage = "prepare" /\ OnGame(j)
      /\ jobs[j] \in Job
  BY <1>1, Has DEF StepOk, OnGame, Alive, Active
<1>3. /\ dir[jobs[j].source] = latest /\ dir[jobs[j].target] = Absent /\ lib = jobs[j].source
  BY <1>1, <1>2, Has DEF GameFor, StepFacts, Copies, Phase
<1>4. CASE UNCHANGED jobs /\ Go(j, Return(j))
  BY <1>1, <1>4, GivesUp
<1>5. CASE UNCHANGED jobs /\ Go(j, "fail")
  <2>1. at'[j] = "fail" /\ OthersKeep(j)
    BY <1>1, <1>5 DEF OthersKeep, Go, IInv, TypeOK
  <2>2. TypeOK'
    BY <1>1, <1>5 DEF IInv, TypeOK, Steps, Go
  <2>3. JobFits(j)'
    BY <1>1, <1>2, <1>5, <2>1, Has
    DEF JobFits, RecFits, LockFits, StepOk, LockSteps, RecSteps, Active
  <2>4. GameFor(j)'
    BY <1>1, <1>2, <1>3, <1>5, <2>1 DEF GameFor, Copies, StepFacts, Phase
  <2> QED
    BY <1>1, <1>2, <1>5, <2>1, <2>2, <2>3, <2>4, GameStep DEF IInv, ControlInv, OnGame
<1>6. CASE /\ sweep # [at |-> "reserved", place |-> jobs[j].target]
           /\ jobs' = [jobs EXCEPT ![j] = [jobs[j] EXCEPT !.stage = "copy", !.staging = TRUE]]
           /\ Go(j, "manifest")
  <2>1. /\ jobs'[j] = [jobs[j] EXCEPT !.stage = "copy", !.staging = TRUE]
        /\ at'[j] = "manifest" /\ OthersKeep(j) /\ jobs'[j] \in Job
    BY <1>1, <1>2, <1>6 DEF OthersKeep, Go, IInv, TypeOK, Job, Stages
  <2>2. TypeOK'
    BY <1>1, <1>6, <2>1 DEF IInv, TypeOK, Steps, Go
  <2>3. JobFits(j)'
    BY <1>1, <1>2, <2>1, Has
    DEF JobFits, RecFits, LockFits, StepOk, LockSteps, RecSteps, JobOk, Alive, Active, Phase,
        Resumable, Job
  <2>4. GameFor(j)'
    BY <1>1, <1>2, <1>3, <2>1 DEF GameFor, Copies, StepFacts, Phase, Job
  <2>5. /\ jobs'[j].scope = jobs[j].scope /\ jobs'[j].item = "game"
        /\ jobs'[j].target = jobs[j].target /\ Alive(jobs'[j]) /\ OnGame(j)'
    BY <1>2, <2>1 DEF Job, Alive, Active, OnGame
  <2>6. ControlInv'
    BY <1>1, <1>2, <2>1, <2>3, <2>5, ControlStep DEF IInv, ControlInv, OnGame
  <2>7. GameInv'
    BY <1>2, <2>1, <2>4, <2>5, GameOwn DEF IInv
  <2>8. SweepInv'
    <3>1. sweep.at = "reserved" => sweep.place # jobs[j].target
      BY <1>6 DEF IInv, TypeOK
    <3>2. ASSUME sweep.at = "reserved", NEW k \in JobIds,
                 Active(jobs'[k]), jobs'[k].staging, jobs'[k].target = sweep.place
          PROVE  FALSE
      <4>1. CASE k = j
        BY <2>5, <3>1, <3>2, <4>1
      <4>2. CASE k # j
        <5>1. jobs'[k] = jobs[k]
          BY <2>1, <4>2 DEF OthersKeep
        <5> QED
          BY <3>2, <5>1 DEF IInv, SweepInv, InUse
      <4> QED
        BY <4>1, <4>2
    <3> QED
      BY <1>1, <3>2 DEF SweepInv, InUse
  <2>9. LibraryInv'
    BY <1>1, <1>2, <2>1, <2>5, LibraryOther DEF IInv, OnLibrary, OnGame
  <2> QED
    BY <2>2, <2>6, <2>7, <2>8, <2>9 DEF IInv
<1> QED
  BY <1>4, <1>5, <1>6 DEF BeginCopy, Transition

\* A game that is being copied: the newest files are where the library has them.
LEMMA BeingCopied ==
  ASSUME IInv, NEW j \in JobIds, at[j] \in {"manifest", "copying", "copied", "verify", "verifying"}
  PROVE  /\ jobs[j].item = "game" /\ OnGame(j) /\ jobs[j] \in Job
         /\ jobs[j].stage = (IF at[j] = "verifying" THEN "verify" ELSE "copy")
         /\ lib = jobs[j].source /\ dir[jobs[j].source] = latest /\ dir[jobs[j].target] = Absent
         /\ at[j] \in {"copying", "copied", "verify", "verifying"} => manifest[j] = latest
         /\ jobs[j].source # jobs[j].target /\ ~jobs[j].renamed /\ lock = j
<1>1. /\ jobs[j].item = "game" /\ OnGame(j) /\ jobs[j] \in Job
      /\ jobs[j].stage = (IF at[j] = "verifying" THEN "verify" ELSE "copy")
  BY Has DEF StepOk, OnGame, Alive, Active
<1>2. /\ lib = jobs[j].source /\ dir[jobs[j].source] = latest /\ dir[jobs[j].target] = Absent
      /\ at[j] \in {"copying", "copied", "verify", "verifying"} => manifest[j] = latest
  BY <1>1, Has DEF GameFor, StepFacts, Copies, Phase
<1>3. jobs[j].source # jobs[j].target /\ ~jobs[j].renamed /\ lock = j
  BY <1>1, Has DEF JobOk, OnGame, Phase, LockFits, LockSteps
<1> QED
  BY <1>1, <1>2, <1>3

\* A step of the copy that leaves the journal alone.
LEMMA CopyStep ==
  ASSUME IInv, NEW j \in JobIds, at[j] \in {"manifest", "copying", "copied", "verifying"},
         at' = [at EXCEPT ![j] = at'[j]],
         at'[j] \in (IF at[j] = "verifying" THEN {"fail", "cancel"}
                     ELSE {"copying", "copied", "verify", "fail", "cancel"}),
         manifest' \in [JobIds -> Content], \A k \in JobIds \ {j} : manifest'[k] = manifest[k],
         at'[j] \in {"copying", "copied", "verify"} => manifest'[j] = latest,
         staging' \in [Places -> Content],
         UNCHANGED <<dir, game, library, control, jobs>>
  PROVE  IInv'
<1> USE DEF game, library, control
<1>1. OthersKeep(j)
  BY DEF OthersKeep, IInv, TypeOK
<1>2. TypeOK'
  <2>1. at'[j] \in Steps
    BY DEF Steps
  <2> QED
    BY <2>1 DEF IInv, TypeOK
<1>3. JobFits(j)'
  BY BeingCopied, Has DEF JobFits, RecFits, LockFits, StepOk, LockSteps, RecSteps, Active
<1>4. GameFor(j)'
  BY BeingCopied DEF GameFor, Copies, StepFacts, Phase
<1> QED
  BY <1>1, <1>2, <1>3, <1>4, BeingCopied, GameStep DEF IInv, ControlInv, OnGame

LEMMA BuildManifestKeeps ==
  ASSUME IInv, NEW j \in JobIds, BuildManifest(j)
  PROVE  IInv'
<1>1. /\ at[j] = "manifest" /\ UNCHANGED <<dir, staging, game, library, control, jobs>>
      /\ at' = [at EXCEPT ![j] = at'[j]] /\ at'[j] \in {"copying", "fail", "cancel"}
  BY DEF BuildManifest, Broken, Go, IInv, TypeOK
<1>2. \/ at'[j] = "copying" /\ manifest' = [manifest EXCEPT ![j] = dir[jobs[j].source]]
      \/ at'[j] # "copying" /\ UNCHANGED manifest
  BY DEF BuildManifest, Broken, Go, IInv, TypeOK
<1>3. /\ manifest \in [JobIds -> Content] /\ staging \in [Places -> Content] /\ latest \in Content
  BY DEF IInv, TypeOK, Content
<1>4. dir[jobs[j].source] = latest
  BY <1>1, BeingCopied
<1> QED
  BY <1>1, <1>2, <1>3, <1>4, CopyStep

LEMMA CopyDirKeeps ==
  ASSUME IInv, NEW j \in JobIds, CopyDir(j)
  PROVE  IInv'
<1>1. /\ at[j] = "copying" /\ UNCHANGED <<dir, manifest, game, library, control, jobs>>
      /\ at' = [at EXCEPT ![j] = at'[j]] /\ at'[j] \in {"copied", "verify"}
      /\ staging' = [staging EXCEPT ![jobs[j].target] = Partial]
  BY DEF CopyDir, Go, IInv, TypeOK
<1>2. /\ manifest \in [JobIds -> Content] /\ staging' \in [Places -> Content]
  BY <1>1 DEF IInv, TypeOK, Content
<1>3. manifest[j] = latest
  BY <1>1, BeingCopied
<1> QED
  BY <1>1, <1>2, <1>3, CopyStep

LEMMA CopiedKeeps ==
  ASSUME IInv, NEW j \in JobIds, Copied(j)
  PROVE  IInv'
<1>1. /\ at[j] = "copied" /\ UNCHANGED <<dir, manifest, game, library, control, jobs>>
      /\ at' = [at EXCEPT ![j] = at'[j]] /\ at'[j] \in {"verify", "fail", "cancel"}
  BY DEF Copied, Broken, Go, IInv, TypeOK
<1>2. jobs[j].source \in Places
  BY <1>1, BeingCopied DEF Job
<1>3. /\ manifest \in [JobIds -> Content] /\ staging' \in [Places -> Content]
  BY <1>1, <1>2 DEF IInv, TypeOK, Content, Copied, RemoveStaging
<1>4. manifest[j] = latest
  BY <1>1, BeingCopied
<1> QED
  BY <1>1, <1>3, <1>4, CopyStep

\* A stage of the copy that is recorded.
LEMMA BeginVerifyKeeps ==
  ASSUME IInv, NEW j \in JobIds, BeginVerify(j)
  PROVE  IInv'
<1> USE DEF files, game, library, control
<1>1. at[j] = "verify" /\ UNCHANGED <<files, game, library, control>>
  BY DEF BeginVerify
<1>2. CASE UNCHANGED jobs /\ Go(j, Return(j))
  BY <1>1, <1>2, GivesUp
<1>3. CASE jobs' = [jobs EXCEPT ![j] = [jobs[j] EXCEPT !.stage = "verify"]] /\ Go(j, "verifying")
  <2>1. /\ jobs'[j] = [jobs[j] EXCEPT !.stage = "verify"] /\ jobs[j] \in Job
        /\ at'[j] = "verifying" /\ OthersKeep(j) /\ jobs'[j] \in Job
    BY SMTT(30), <1>1, <1>3 DEF OthersKeep, Go, IInv, TypeOK, Job, Stages
  <2>2. TypeOK'
    BY <1>1, <1>3, <2>1 DEF IInv, TypeOK, Steps, Go
  <2>3. JobFits(j)'
    BY <1>1, <2>1, BeingCopied, Has
    DEF JobFits, RecFits, LockFits, StepOk, LockSteps, RecSteps, JobOk, Alive, Active, Phase,
        Resumable, Job
  <2>4. GameFor(j)'
    BY <1>1, <2>1, BeingCopied DEF GameFor, Copies, StepFacts, Phase, Job
  <2>5. /\ jobs'[j].scope = jobs[j].scope /\ jobs'[j].item = jobs[j].item
        /\ jobs'[j].target = jobs[j].target /\ OnGame(j)' /\ at'[j] \notin {"dest", "treeremove"}
        /\ Active(jobs'[j]) /\ jobs'[j].staging => Active(jobs[j]) /\ jobs[j].staging
    BY <1>1, <2>1, BeingCopied DEF Job, OnGame, Alive, Active
  <2> QED
    BY <1>1, <2>1, <2>2, <2>3, <2>4, <2>5, BeingCopied, GameStep DEF IInv, ControlInv
<1> QED
  BY <1>2, <1>3 DEF BeginVerify, Transition

LEMMA VerifyKeeps ==
  ASSUME IInv, NEW j \in JobIds, Verify(j)
  PROVE  IInv'
<1> USE DEF files, game, library, control
<1>1. at[j] = "verifying" /\ UNCHANGED <<dir, manifest, game, library, control>>
  BY DEF Verify
<1>2. CASE UNCHANGED <<jobs, staging>> /\ Go(j, Return(j))
  BY <1>1, <1>2, GivesUp
<1>3. CASE RemoveStaging(jobs[j].target) /\ Broken(j) /\ UNCHANGED jobs
  <2>1. at' = [at EXCEPT ![j] = at'[j]] /\ at'[j] \in {"fail", "cancel"}
    BY <1>3 DEF Broken, Go, IInv, TypeOK
  <2>2. manifest \in [JobIds -> Content] /\ staging' \in [Places -> Content]
    BY <1>3 DEF IInv, TypeOK, Content, RemoveStaging
  <2> QED
    BY <1>1, <1>3, <2>1, <2>2, CopyStep
<1>4. CASE /\ staging[jobs[j].target] = manifest[j] /\ UNCHANGED staging
           /\ jobs' = [jobs EXCEPT ![j] = [jobs[j] EXCEPT !.stage = "commit"]] /\ Go(j, "commit")
  <2>1. /\ jobs'[j] = [jobs[j] EXCEPT !.stage = "commit"] /\ jobs[j] \in Job
        /\ at'[j] = "commit" /\ OthersKeep(j) /\ jobs'[j] \in Job
    BY SMTT(30), <1>1, <1>4 DEF OthersKeep, Go, IInv, TypeOK, Job, Stages
  <2>2. TypeOK'
    BY <1>1, <1>4, <2>1 DEF IInv, TypeOK, Steps, Go
  <2>3. JobFits(j)'
    BY <1>1, <2>1, BeingCopied, Has
    DEF JobFits, RecFits, LockFits, StepOk, LockSteps, RecSteps, JobOk, Alive, Active, Phase,
        Resumable, Job
  <2>4. GameFor(j)'
    <3>1. latest \in 0 .. latest
      BY RelocateConstants DEF IInv, TypeOK, Whole
    <3> QED
      BY <1>1, <1>4, <2>1, <3>1, BeingCopied DEF GameFor, Copies, StepFacts, Phase, Job
  <2>5. /\ jobs'[j].scope = jobs[j].scope /\ jobs'[j].item = jobs[j].item
        /\ jobs'[j].target = jobs[j].target /\ OnGame(j)' /\ at'[j] \notin {"dest", "treeremove"}
        /\ Active(jobs'[j]) /\ jobs'[j].staging => Active(jobs[j]) /\ jobs[j].staging
    BY <1>1, <2>1, BeingCopied DEF Job, OnGame, Alive, Active
  <2> QED
    BY <1>1, <1>4, <2>1, <2>2, <2>3, <2>4, <2>5, BeingCopied, GameStep DEF IInv, ControlInv
<1> QED
  BY <1>2, <1>3, <1>4 DEF Verify, Transition

\* A game whose copy is renamed into place.
LEMMA CommitKeeps ==
  ASSUME IInv, NEW j \in JobIds, Commit(j)
  PROVE  IInv'
<1> USE DEF files, game, library, control
<1>1. /\ at[j] = "commit" /\ UNCHANGED <<manifest, game, library, control, jobs>>
      /\ at' = [at EXCEPT ![j] = at'[j]] /\ at'[j] \in {"committed", "fail"}
      /\ OthersKeep(j)
  BY DEF Commit, Go, OthersKeep, IInv, TypeOK
<1>2. /\ jobs[j].item = "game" /\ jobs[j].stage = "commit" /\ OnGame(j)
      /\ jobs[j] \in Job /\ jobs[j].source # jobs[j].target
  BY <1>1, Has DEF StepOk, OnGame, Alive, Active, JobOk
<1>3. /\ dir[jobs[j].source] = latest /\ lib = jobs[j].source /\ manifest[j] = latest
      /\ staging[jobs[j].target] = latest /\ dir[jobs[j].target] = Absent
      /\ manifest[j] \in 0 .. latest
  BY <1>1, <1>2, Has DEF GameFor, StepFacts, Copies, Phase
<1>4. /\ dir \in [Places -> Content] /\ staging \in [Places -> Content]
      /\ jobs[j].source \in Places /\ jobs[j].target \in Places
  BY <1>2 DEF IInv, TypeOK, Job
<1>5. \/ /\ at'[j] = "committed"
         /\ dir' = [dir EXCEPT ![jobs[j].target] = latest]
         /\ staging' = [staging EXCEPT ![jobs[j].target] = Absent]
      \/ at'[j] = "fail" /\ UNCHANGED dir /\ RemoveStaging(jobs[j].target)
  BY <1>1, <1>3 DEF Commit, Go, IInv, TypeOK, RenameStaging
<1>6. TypeOK'
  <2>1. dir' \in [Places -> Content] /\ staging' \in [Places -> Content] /\ at'[j] \in Steps
    BY <1>1, <1>4, <1>5 DEF IInv, TypeOK, Content, RemoveStaging, Steps
  <2> QED
    BY <1>1, <2>1 DEF IInv, TypeOK
<1>7. JobFits(j)'
  BY <1>1, <1>2, Has DEF JobFits, RecFits, LockFits, StepOk, LockSteps, RecSteps, Active
<1>8. GameFor(j)'
  <2>1. CASE at'[j] = "committed"
    BY <1>1, <1>2, <1>3, <1>4, <1>5, <2>1 DEF GameFor, Copies, StepFacts, Phase
  <2>2. CASE at'[j] = "fail"
    BY <1>1, <1>2, <1>3, <1>4, <1>5, <2>2 DEF GameFor, Copies, StepFacts, Phase, RemoveStaging
  <2> QED
    BY <1>1, <2>1, <2>2
<1> QED
  BY <1>1, <1>2, <1>6, <1>7, <1>8, GameStep DEF IInv, ControlInv, OnGame

LEMMA CommittedKeeps ==
  ASSUME IInv, NEW j \in JobIds, Committed(j)
  PROVE  IInv'
<1> USE DEF files, game, library, control
<1> DEFINE step == IF Recovering(j) THEN "attempt" ELSE "repoint"
<1>1. at[j] = "committed" /\ UNCHANGED <<files, game, library, control>>
  BY DEF Committed
<1>2. CASE UNCHANGED jobs /\ Go(j, Return(j))
  BY <1>1, <1>2, GivesUp
<1>3. CASE /\ jobs' = [jobs EXCEPT ![j] = [jobs[j] EXCEPT !.stage = "repoint", !.staging = FALSE]]
           /\ Go(j, step)
  <2>1. /\ jobs[j].item = "game" /\ jobs[j].stage = "commit" /\ OnGame(j)
        /\ jobs[j] \in Job /\ ~jobs[j].renamed /\ lock = j
    BY <1>1, Has DEF StepOk, OnGame, Alive, Active, JobOk, Phase, LockFits, LockSteps
  <2>2. /\ jobs'[j] = [jobs[j] EXCEPT !.stage = "repoint", !.staging = FALSE]
        /\ at'[j] = step /\ OthersKeep(j) /\ jobs'[j] \in Job
    BY <1>1, <1>3, <2>1 DEF OthersKeep, Go, IInv, TypeOK, Job, Stages
  <2>3. TypeOK'
    BY <1>1, <1>3, <2>2 DEF IInv, TypeOK, Steps, Go
  <2>4. JobFits(j)'
    BY <1>1, <2>1, <2>2, Has
    DEF JobFits, RecFits, LockFits, StepOk, LockSteps, RecSteps, JobOk, Alive, Active, Phase,
        Resumable, Job, Recovering
  <2>5. GameFor(j)'
    <3>1. /\ dir[jobs[j].source] = latest /\ lib = jobs[j].source /\ manifest[j] \in 0 .. latest
          /\ dir[jobs[j].target] = manifest[j]
          /\ recovery.job # j => manifest[j] = latest
      BY <1>1, <2>1, Has DEF GameFor, StepFacts, Copies, Phase
    <3> QED
      BY <1>1, <2>1, <2>2, <3>1 DEF GameFor, Copies, StepFacts, Phase, Job, Recovering
  <2>6. /\ jobs'[j].scope = jobs[j].scope /\ jobs'[j].item = jobs[j].item
        /\ jobs'[j].target = jobs[j].target /\ OnGame(j)' /\ at'[j] \notin {"dest", "treeremove"}
        /\ Active(jobs'[j]) /\ jobs'[j].staging => Active(jobs[j]) /\ jobs[j].staging
    BY <2>1, <2>2 DEF Job, OnGame, Alive, Active
  <2> QED
    BY <1>1, <2>1, <2>2, <2>3, <2>4, <2>5, <2>6, GameStep DEF IInv, ControlInv
<1> QED
  BY <1>2, <1>3 DEF Committed, Transition

LEMMA RepointKeeps ==
  ASSUME IInv, NEW j \in JobIds, Repoint(j)
  PROVE  IInv'
<1> USE DEF files, library, control
<1>1. /\ at[j] = "repoint" /\ UNCHANGED <<latest, running, files, library, control, jobs>>
      /\ at' = [at EXCEPT ![j] = at'[j]] /\ at'[j] \in {"cleanup", "after", "fail"}
      /\ at'[j] = "after" => recovery.job = j
      /\ OthersKeep(j) /\ lib' \in {lib, jobs[j].target}
      /\ at'[j] = "cleanup" => lib' = jobs[j].target
  BY DEF Repoint, Go, OthersKeep, IInv, TypeOK, Recovering
<1>2. /\ jobs[j].item = "game" /\ jobs[j].stage = "repoint" /\ OnGame(j)
      /\ jobs[j] \in Job /\ jobs[j].source # jobs[j].target /\ lock = j
  BY <1>1, Has DEF StepOk, OnGame, Alive, Active, JobOk, LockFits, LockSteps
<1>3. Copies(jobs[j], manifest[j]) /\ dir[jobs[j].target] = latest
  BY <1>1, <1>2, Has DEF GameFor, StepFacts
<1>4. TypeOK'
  BY <1>1, <1>2 DEF IInv, TypeOK, Steps, Job
<1>5. JobFits(j)'
  BY <1>1, <1>2, Has DEF JobFits, RecFits, LockFits, StepOk, LockSteps, RecSteps, Active
<1>6. GameFor(j)'
  <2>1. Copies(jobs[j], manifest[j])'
    BY <1>1, <1>2, <1>3 DEF Copies, Phase
  <2>2. StepFacts(jobs[j], at[j], manifest[j])'
    BY <1>1, <1>2, <1>3 DEF StepFacts
  <2> QED
    BY <1>1, <2>1, <2>2 DEF GameFor
<1> QED
  BY <1>1, <1>2, <1>4, <1>5, <1>6, GameStep DEF IInv, ControlInv, OnGame

LEMMA RemoveSourceKeeps ==
  ASSUME IInv, NEW j \in JobIds, RemoveSource(j)
  PROVE  IInv'
<1> USE DEF files, game, library, control
<1>1. /\ at[j] \in {"remove", "removing"}
      /\ UNCHANGED <<staging, manifest, game, library, control, jobs>>
      /\ at' = [at EXCEPT ![j] = at'[j]] /\ at'[j] \in {"removing", "removed", "fail"}
      /\ OthersKeep(j)
  BY DEF RemoveSource, Go, OthersKeep, IInv, TypeOK
<1>2. /\ jobs[j].item = "game" /\ jobs[j].stage = "cleanup" /\ OnGame(j)
      /\ jobs[j] \in Job /\ jobs[j].source # jobs[j].target
  BY <1>1, Has DEF StepOk, OnGame, Alive, Active, JobOk
<1>3. /\ dir[jobs[j].target] = latest /\ lib = jobs[j].target
      /\ jobs[j].renamed => dir[jobs[j].source] = Absent
  BY <1>1, <1>2, Has DEF GameFor, Copies, Phase
<1>4. /\ dir \in [Places -> Content] /\ jobs[j].source \in Places /\ jobs[j].target \in Places
  BY <1>2 DEF IInv, TypeOK, Job
<1>5. /\ dir' \in [Places -> Content] /\ dir'[jobs[j].target] = dir[jobs[j].target]
      /\ dir[jobs[j].source] = Absent => dir'[jobs[j].source] = Absent
      /\ at'[j] = "removed" => dir'[jobs[j].source] = Absent
  <2>1. CASE UNCHANGED dir /\ Go(j, "fail")
    BY <1>4, <2>1 DEF Go, IInv, TypeOK
  <2>2. CASE dir' = [dir EXCEPT ![jobs[j].source] =
                       IF at[j] = "remove" /\ @ # Absent THEN Partial ELSE Absent]
             /\ Go(j, IF at[j] = "remove" THEN "removing" ELSE "removed")
    BY <1>1, <1>2, <1>4, <2>2 DEF Go, IInv, TypeOK, Content
  <2> QED
    BY <2>1, <2>2 DEF RemoveSource
<1>6. TypeOK'
  BY <1>1, <1>5 DEF IInv, TypeOK, Steps
<1>7. JobFits(j)'
  BY <1>1, <1>2, Has DEF JobFits, RecFits, LockFits, StepOk, LockSteps, RecSteps, Active
<1>8. GameFor(j)'
  BY <1>1, <1>2, <1>3, <1>5 DEF GameFor, Copies, StepFacts, Phase
<1> QED
  BY <1>1, <1>2, <1>6, <1>7, <1>8, GameStep DEF IInv, ControlInv, OnGame

----------------------------------------------------------------------------
(* Steps of the game's move and of the library's *)

\* A step of a job that is at the downloads or the settings.
LEMMA LibraryStep ==
  ASSUME IInv, NEW j \in JobIds, OnLibrary(j), jobs[j].item \in {"downloads", "settings"},
         OthersKeep(j), TypeOK', JobFits(j)', LibraryFor(j)', TreeInv',
         recovery'.from \in {"none", "repoint", "cleanup", "failed"},
         UNCHANGED <<dir, staging, game, sweep>>, exhausted => exhausted',
         Alive(jobs'[j]) => /\ jobs'[j].scope = jobs[j].scope
                            /\ jobs'[j].item \in {"downloads", "settings"}
  PROVE  IInv'
<1>1. ControlInv /\ GameInv /\ SweepInv /\ LibraryInv /\ Alive(jobs[j]) /\ ~OnGame(j)
  BY DEF IInv, OnGame, OnLibrary
<1>2. ControlInv'
  BY <1>1, ControlStep
<1>3. GameInv'
  BY <1>1, GameOther DEF OnGame
<1>4. SweepInv'
  <2>1. Active(jobs'[j]) => ~jobs'[j].staging
    BY DEF JobFits, JobOk, Alive, Active, Phase
  <2> QED
    BY <1>1, <2>1, SweepStep
<1>5. LibraryInv'
  <2>1. \A k \in JobIds \ {j} : ~OnLibrary(k)
    BY <1>1 DEF ControlInv, OneOnLibrary
  <2>2. \A k \in JobIds \ {j} : ~OnLibrary(k)'
    BY <2>1 DEF OnLibrary, OthersKeep
  <2> QED
    BY <2>2 DEF LibraryInv, LibraryFor
<1> QED
  BY <1>2, <1>3, <1>4, <1>5 DEF IInv

LEMMA CleanupKeeps ==
  ASSUME IInv, NEW j \in JobIds, Cleanup(j)
  PROVE  IInv'
<1> USE DEF files, game, library, control
<1> DEFINE step == IF jobs[j].item = "downloads" THEN "removed" ELSE "remove"
<1>1. at[j] = "cleanup" /\ UNCHANGED <<files, game, library, control>>
  BY DEF Cleanup
<1>2. CASE UNCHANGED jobs /\ Go(j, Return(j))
  BY <1>1, <1>2, GivesUp
<1>3. CASE /\ jobs' = [jobs EXCEPT ![j] = [jobs[j] EXCEPT !.stage = "cleanup"]]
           /\ Go(j, step)
  <2>1. /\ jobs[j].item \in {"game", "downloads"} /\ jobs[j].stage = "repoint" /\ Alive(jobs[j])
        /\ jobs[j] \in Job
    BY <1>1, Has DEF StepOk, Alive, Active
  <2>2. /\ jobs'[j] = [jobs[j] EXCEPT !.stage = "cleanup"]
        /\ at'[j] = step /\ OthersKeep(j) /\ jobs'[j] \in Job
    BY <1>1, <1>3, <2>1 DEF OthersKeep, Go, IInv, TypeOK, Job, Stages
  <2>3. TypeOK'
    BY <1>1, <1>3, <2>2 DEF IInv, TypeOK, Steps, Go
  <2>4. JobFits(j)'
    BY <1>1, <2>1, <2>2, Has
    DEF JobFits, RecFits, LockFits, StepOk, LockSteps, RecSteps, JobOk, Alive, Active, Phase,
        Resumable, Job
  <2>5. CASE jobs[j].item = "game"
    <3>1. OnGame(j)
      BY <2>1, <2>5 DEF OnGame
    <3>2. Copies(jobs[j], manifest[j]) /\ StepFacts(jobs[j], at[j], manifest[j])
      BY <3>1, Has DEF GameFor
    <3>3. jobs[j].source # jobs[j].target
      BY <2>1, <2>5, Has DEF JobOk
    <3>4. GameFor(j)'
      BY <1>1, <2>1, <2>2, <2>5, <3>2, <3>3 DEF GameFor, Copies, StepFacts, Phase, Job
    <3>5. /\ jobs'[j].scope = jobs[j].scope /\ jobs'[j].item = jobs[j].item
          /\ jobs'[j].target = jobs[j].target /\ OnGame(j)' /\ at'[j] \notin {"dest", "treeremove"}
          /\ Active(jobs'[j]) /\ jobs'[j].staging => Active(jobs[j]) /\ jobs[j].staging
      BY <2>1, <2>2, <2>5, <3>1 DEF Job, OnGame, Alive, Active
    <3> QED
      BY <1>1, <2>1, <2>2, <2>3, <2>4, <3>1, <3>4, <3>5, GameStep DEF IInv, ControlInv
  <2>6. CASE jobs[j].item = "downloads"
    <3>1. OnLibrary(j) /\ jobs[j].target \in Roots
      BY <2>1, <2>6, Has DEF OnLibrary, JobOk
    <3>2. tree[dest] = 0 /\ dest # root /\ tree[root] = Absent
      BY <1>1, <2>6, <3>1, Has DEF LibraryFor
    <3>3. LibraryFor(j)' /\ TreeInv'
      BY <1>1, <2>1, <2>2, <2>6, <3>1, <3>2, Has DEF LibraryFor, TreeInv, OnLibrary, Job
    <3> QED
      BY <1>1, <2>1, <2>2, <2>3, <2>4, <2>6, <3>1, <3>3, LibraryStep DEF IInv, ControlInv, Job
  <2> QED
    BY <2>1, <2>5, <2>6
<1> QED
  BY <1>2, <1>3 DEF Cleanup, Transition

LEMMA RemovedKeeps ==
  ASSUME IInv, NEW j \in JobIds, Removed(j)
  PROVE  IInv'
<1> USE DEF files, game, library, control
<1>1. /\ at[j] = "removed" /\ jobs[j].stage = "cleanup" /\ jobs[j].item \in {"game", "downloads"}
      /\ jobs[j] \in Job /\ Alive(jobs[j])
  BY Has DEF Removed, StepOk, Alive, Active
<1>2. /\ UNCHANGED <<dir, staging, game, library, recovery, sweep, closing, exhausted, jobs>>
      /\ at' = [at EXCEPT ![j] = at'[j]] /\ at'[j] \in {"complete", "next", "giveup"}
      /\ manifest' \in {manifest, [manifest EXCEPT ![j] = Absent]}
      /\ lock' \in {lock, 0} /\ (lock # j => lock' = lock)
      /\ at'[j] \in {"next", "giveup"} => jobs[j].scope = "library"
      /\ at'[j] = "complete" => \/ jobs[j].scope = "game"
                                \/ jobs[j].rest = 0
      /\ at'[j] = "next" <=> jobs[j].scope # "game" /\ recovery.job # j
      /\ at'[j] = "giveup" => recovery.job = j
  BY <1>1 DEF Removed, Go, IInv, TypeOK, Recovering, Job
<1>3. OthersKeep(j)
  BY <1>2, RelocateConstants DEF OthersKeep, IInv, TypeOK
<1>4. TypeOK'
  <2>1. manifest' \in [JobIds -> Content]
    BY <1>2 DEF IInv, TypeOK, Content
  <2>2. lock' \in JobIds \cup {0} /\ at' \in [JobIds -> Steps]
    BY <1>2 DEF IInv, TypeOK, Steps
  <2> QED
    BY <1>2, <2>1, <2>2 DEF IInv, TypeOK
<1>5. at'[j] = "complete" => jobs[j].item = "game"
  BY <1>1, <1>2, Has DEF JobOk, Job
<1>6. JobFits(j)'
  BY <1>1, <1>2, <1>5, Has DEF JobFits, RecFits, LockFits, StepOk, LockSteps, RecSteps, Active
<1>7. CASE jobs[j].item = "game"
  <2>1. OnGame(j)
    BY <1>1, <1>7 DEF OnGame
  <2>2. Copies(jobs[j], manifest[j]) /\ StepFacts(jobs[j], at[j], manifest[j])
    BY <2>1, Has DEF GameFor
  <2>3. GameFor(j)'
    BY <1>1, <1>2, <2>2 DEF GameFor, Copies, StepFacts, Phase
  <2> QED
    BY <1>1, <1>2, <1>3, <1>4, <1>6, <2>1, <2>3, GameStep DEF IInv, ControlInv, OnGame
<1>8. CASE jobs[j].item = "downloads"
  <2>1. OnLibrary(j)
    BY <1>1, <1>8, Has DEF OnLibrary, JobOk
  <2>2. tree[dest] = 0 /\ dest # root /\ tree[root] = Absent
    BY <1>1, <1>8, <2>1, Has DEF LibraryFor, Phase
  <2>3. LibraryFor(j)' /\ TreeInv'
    BY <1>1, <1>2, <1>8, <2>1, <2>2, Has DEF LibraryFor, TreeInv, OnLibrary
  <2> QED
    BY <1>1, <1>2, <1>3, <1>4, <1>6, <1>8, <2>1, <2>3, LibraryStep DEF IInv, ControlInv
<1> QED
  BY <1>1, <1>7, <1>8

----------------------------------------------------------------------------
(* The queue of a library move *)

\* A job that is neither at the game nor at an item of the library, and stays so.
LEMMA AsideStep ==
  ASSUME IInv, NEW j \in JobIds, ~OnGame(j), OnLibrary(j) => jobs[j].item = "none",
         OthersKeep(j), TypeOK', JobFits(j)',
         recovery'.from \in {"none", "repoint", "cleanup", "failed"},
         UNCHANGED <<dir, staging, game, library, sweep>>, exhausted => exhausted',
         Alive(jobs'[j]) => /\ Alive(jobs[j]) /\ jobs'[j].scope = jobs[j].scope
                            /\ jobs'[j].item = jobs[j].item /\ jobs'[j].target = jobs[j].target,
         at'[j] \notin {"dest", "treeremove"}
  PROVE  IInv'
<1>1. ControlInv /\ GameInv /\ SweepInv /\ LibraryInv
  BY DEF IInv
<1>2. ControlInv'
  BY <1>1, ControlStep
<1>3. GameInv'
  BY <1>1, GameOther DEF OnGame
<1>4. Alive(jobs'[j]) => OnLibrary(j) /\ jobs[j].item = "none" /\ jobs'[j].item = "none"
  BY Has DEF JobOk, OnLibrary, OnGame
<1>5. SweepInv'
  <2>1. Active(jobs'[j]) => ~jobs'[j].staging
    BY <1>4 DEF JobFits, JobOk, Alive, Active, Phase
  <2> QED
    BY <1>1, <2>1, SweepStep
<1>6. LibraryInv'
  BY <1>1, <1>4, LibraryOther DEF OnLibrary
<1> QED
  BY <1>2, <1>3, <1>5, <1>6 DEF IInv

\* The queue stops: the move is cancelled, or a check before the game's move fails.
LEMMA QueueStops ==
  ASSUME IInv, NEW j \in JobIds, at[j] = "next", jobs[j].rest # 0,
         \/ Go(j, "cancel")
         \/ jobs[j].rest = 3 /\ Go(j, "fail"),
         UNCHANGED <<files, game, library, control, jobs>>
  PROVE  IInv'
<1> USE DEF files, game, library, control
<1>1. /\ at' = [at EXCEPT ![j] = at'[j]] /\ at'[j] \in {"cancel", "fail"}
      /\ at'[j] = "fail" => jobs[j].rest = 3
      /\ OthersKeep(j)
  BY DEF Go, OthersKeep, IInv, TypeOK
<1>2. /\ Active(jobs[j]) /\ Alive(jobs[j]) /\ jobs[j].scope = "library" /\ OnLibrary(j)
      /\ jobs[j].item # "settings" /\ (jobs[j].rest = 3 => jobs[j].item = "none")
      /\ jobs[j].item # "none" => jobs[j].stage = "cleanup"
  BY Has DEF StepOk, Active, Alive, JobOk, OnLibrary
<1>3. TypeOK'
  BY <1>1 DEF IInv, TypeOK, Steps
<1>4. JobFits(j)'
  BY <1>1, <1>2, Has DEF JobFits, RecFits, LockFits, StepOk, LockSteps, RecSteps, Active
<1>5. CASE jobs[j].item = "game"
  <2>1. OnGame(j)
    BY <1>2, <1>5 DEF OnGame
  <2>2. GameFor(j)'
    BY <1>1, <1>2, <1>5, <2>1, Has DEF GameFor, Copies, StepFacts, Phase
  <2> QED
    BY <1>1, <1>2, <1>3, <1>4, <2>1, <2>2, GameStep DEF IInv, ControlInv, OnGame
<1>6. CASE jobs[j].item = "downloads"
  <2>1. LibraryFor(j)'
    BY <1>1, <1>6, Has DEF LibraryFor, OnLibrary
  <2>2. TreeInv'
    BY <1>2, <1>6, Has DEF LibraryFor, TreeInv, Phase
  <2> QED
    BY <1>1, <1>2, <1>3, <1>4, <1>6, <2>1, <2>2, LibraryStep DEF IInv, ControlInv
<1>7. CASE jobs[j].item = "none"
  BY <1>1, <1>2, <1>3, <1>4, <1>7, AsideStep DEF IInv, ControlInv, OnGame
<1> QED
  BY <1>2, <1>5, <1>6, <1>7, Has DEF Job, Items

\* The next item of the queue is the downloads, or the settings.
LEMMA QueueGoesOn ==
  ASSUME IInv, NEW j \in JobIds, at[j] = "next", NEW item, NEW rest, rest = jobs[j].rest - 1,
         \/ jobs[j].rest = 2 /\ item = "downloads"
         \/ jobs[j].rest = 1 /\ item = "settings",
         jobs' = [jobs EXCEPT ![j] = NewItem(jobs[j], item, root, rest)],
         Go(j, "stage"), UNCHANGED <<files, game, library, control>>
  PROVE  IInv'
<1> USE DEF files, game, library, control
<1>1. jobs[j] \in Job /\ root \in Places /\ item \in Items
  BY RelocateConstants DEF IInv, TypeOK, Items
<1>2. /\ jobs'[j] = NewItem(jobs[j], item, root, rest)
      /\ at'[j] = "stage" /\ OthersKeep(j)
  BY <1>1 DEF OthersKeep, Go, IInv, TypeOK
<1>3. /\ jobs'[j] \in Job /\ jobs'[j].item = item /\ jobs'[j].source = root
      /\ jobs'[j].rest = rest /\ jobs'[j].stage = "prepare" /\ jobs'[j].staging = FALSE
      /\ jobs'[j].renamed = FALSE /\ jobs'[j].scope = jobs[j].scope
      /\ jobs'[j].target = jobs[j].target /\ jobs'[j].failedAt = jobs[j].failedAt
      /\ jobs'[j].attempts = jobs[j].attempts
  <2>1. rest \in 0 .. 3
    OBVIOUS
  <2> QED
    <3>1. ItemOf(NewItem(jobs[j], item, root, rest), jobs[j], item, root, rest)
      BY <1>1, <2>1, ItemRecord
    <3> QED
      BY <1>2, <3>1 DEF ItemOf
<1>4. /\ Active(jobs[j]) /\ Alive(jobs[j]) /\ jobs[j].scope = "library" /\ OnLibrary(j)
      /\ jobs[j].item # "settings" /\ jobs[j].target \in Roots /\ jobs[j].target # root
      /\ jobs[j].item # "none" => jobs[j].stage = "cleanup"
      /\ jobs[j].rest = 2 <=> jobs[j].item \in {"none", "game"}
      /\ jobs[j].rest = 1 <=> jobs[j].item = "downloads"
      /\ recovery.job # j
  BY <1>1, Has DEF StepOk, Active, Alive, JobOk, OnLibrary, LibraryFor, RecFits
<1>5. TypeOK'
  BY <1>3 DEF IInv, TypeOK, Steps, Go
<1>6. /\ jobs'[j].item = item /\ jobs'[j].scope = "library" /\ jobs'[j].target = jobs[j].target
      /\ jobs'[j].source = root /\ jobs'[j].stage = "prepare" /\ ~jobs'[j].staging
      /\ ~jobs'[j].renamed /\ jobs'[j].rest = rest
      /\ jobs'[j].failedAt = jobs[j].failedAt /\ jobs'[j].attempts = jobs[j].attempts
      /\ Alive(jobs'[j]) /\ Phase(jobs'[j]) = "prepare" /\ item \in {"downloads", "settings"}
  BY <1>3, <1>4 DEF Alive, Active, Phase
<1>7. JobFits(j)'
  <2>1. JobOk(jobs'[j])
    BY <1>4, <1>6, Has DEF JobOk
  <2>2. StepOk(jobs'[j], at'[j])
    BY <1>2, <1>4, <1>6 DEF StepOk
  <2>3. RecFits(j)' /\ LockFits(j)'
    BY <1>2, <1>4, <1>6, Has DEF RecFits, LockFits, LockSteps, RecSteps
  <2> QED
    BY <2>1, <2>2, <2>3 DEF JobFits
<1>8. ControlInv'
  BY <1>2, <1>4, <1>7, <1>6, ControlStep DEF IInv, ControlInv
<1>9. GameInv'
  <2>1. CASE jobs[j].item = "game"
    <3>1. OnGame(j)
      BY <1>4, <2>1 DEF OnGame
    <3>2. dir[lib] = latest
      BY <1>4, <2>1, <3>1, Has DEF GameFor, Copies, Phase
    <3> QED
      BY <1>2, <1>6, <3>1, <3>2, GameOwn DEF IInv, OnGame, GameFor, Rested
  <2>2. CASE jobs[j].item # "game"
    BY <1>2, <1>6, <2>2, GameOther DEF IInv, OnGame
  <2> QED
    BY <2>1, <2>2
<1>10. SweepInv'
  BY <1>2, <1>6, SweepStep DEF IInv
<1>11. \A k \in JobIds \ {j} : ~OnLibrary(k) /\ ~OnLibrary(k)'
  BY <1>2, <1>4 DEF IInv, ControlInv, OneOnLibrary, OnLibrary, OthersKeep
<1>12. LibraryFor(j)'
  <2>1. CASE jobs[j].rest = 2
    BY <1>2, <1>4, <1>6, <2>1 DEF LibraryFor
  <2>2. CASE jobs[j].rest = 1
    <3>1. tree[dest] = 0 /\ dest # root /\ tree[root] = Absent
      BY <1>4, <2>2, Has DEF LibraryFor, Phase
    <3> QED
      BY <1>2, <1>4, <1>6, <2>2, <3>1 DEF LibraryFor
  <2> QED
    BY <2>1, <2>2
<1>13. TreeInv'
  <2>1. CASE tree[dest] = 0
    BY <2>1 DEF TreeInv
  <2>2. CASE tree[dest] # 0
    <3>1. Halfway /\ jobs[j].rest = 2
      BY <1>4, <2>2, Has DEF LibraryFor, Phase, IInv, LibraryInv, TreeInv
    <3>2. tree[root] # Absent /\ tree[jobs[j].target] = 0
      BY <1>4, <1>11, <3>1 DEF Halfway, Pending
    <3> QED
      BY <1>6, <1>11, <3>1, <3>2 DEF TreeInv, Halfway
  <2> QED
    BY <2>1, <2>2
<1> QED
  BY <1>5, <1>8, <1>9, <1>10, <1>11, <1>12, <1>13 DEF IInv, LibraryInv, LibraryFor

\* The game is the next item: it is reserved for the job.
LEMMA QueueTakesGame ==
  ASSUME IInv, NEW j \in JobIds, at[j] = "next", jobs[j].rest = 3, lib # jobs[j].target,
         lock = 0, dir[lib] # Absent, dir[jobs[j].target] = Absent, lock' = j,
         Transition(j, NewItem(jobs[j], "game", lib, 2), "start"),
         UNCHANGED <<files, game, library, recovery, sweep, closing, exhausted>>
  PROVE  IInv'
<1> USE DEF files, game, library
<1>1. /\ Active(jobs[j]) /\ Alive(jobs[j]) /\ jobs[j].scope = "library" /\ OnLibrary(j)
      /\ jobs[j].item = "none" /\ jobs[j].target \in Roots /\ jobs[j] \in Job
      /\ recovery.job # j /\ ~OnGame(j)
  BY Has DEF StepOk, Active, Alive, JobOk, OnLibrary, RecFits, OnGame
<1>2. \A k \in JobIds : ~OnGame(k)
  BY <1>1 DEF IInv, ControlInv, OneOnGame, OnGame
<1>3. dir[lib] = latest
  BY <1>1, <1>2 DEF IInv, GameInv, Rest
<1>4. 0 \notin JobIds /\ lib \in Places
  BY RelocateConstants DEF IInv, TypeOK
<1>5. CASE UNCHANGED jobs /\ Go(j, Return(j))
  <2>1. /\ at' = [at EXCEPT ![j] = at'[j]] /\ at'[j] = "end" /\ OthersKeep(j)
    BY <1>1, <1>4, <1>5 DEF Go, Return, Recovering, OthersKeep, IInv, TypeOK
  <2>2. TypeOK'
    BY <1>5, <2>1 DEF IInv, TypeOK, Steps
  <2>3. JobFits(j)'
    BY <1>1, <1>5, <2>1, Has DEF JobFits, RecFits, LockFits, StepOk, LockSteps, RecSteps
  <2> QED
    BY <1>1, <1>5, <2>1, <2>2, <2>3, AsideStep DEF IInv, ControlInv
<1>6. CASE /\ jobs' = [jobs EXCEPT ![j] = NewItem(jobs[j], "game", lib, 2)]
           /\ Go(j, "start")
  <2>1. /\ jobs'[j] = NewItem(jobs[j], "game", lib, 2)
        /\ at'[j] = "start" /\ OthersKeep(j)
    BY <1>1, <1>4, <1>6 DEF OthersKeep, Go, IInv, TypeOK, Job
  <2>2. /\ jobs'[j] \in Job /\ jobs'[j].item = "game" /\ jobs'[j].source = lib
        /\ jobs'[j].rest = 2 /\ jobs'[j].stage = "prepare" /\ jobs'[j].staging = FALSE
        /\ jobs'[j].renamed = FALSE /\ jobs'[j].scope = jobs[j].scope
        /\ jobs'[j].target = jobs[j].target /\ jobs'[j].failedAt = jobs[j].failedAt
        /\ jobs'[j].attempts = jobs[j].attempts
    <3>1. 2 \in 0 .. 3 /\ "game" \in Items
      BY DEF Items
    <3> QED
      <4>1. ItemOf(NewItem(jobs[j], "game", lib, 2), jobs[j], "game", lib, 2)
        BY <1>1, <1>4, <3>1, ItemRecord
      <4> QED
        BY <2>1, <4>1 DEF ItemOf
  <2>3. TypeOK'
    BY <1>6, <2>2 DEF IInv, TypeOK, Steps, Go
  <2>4. /\ jobs'[j].item = "game" /\ jobs'[j].scope = "library" /\ jobs'[j].target = jobs[j].target
        /\ jobs'[j].source = lib /\ jobs'[j].stage = "prepare" /\ ~jobs'[j].staging
        /\ Alive(jobs'[j]) /\ Phase(jobs'[j]) = "prepare" /\ OnGame(j)'
    BY <1>1, <2>2 DEF Alive, Active, Phase, OnGame
  <2>5. JobFits(j)'
    BY <1>1, <2>1, <2>2, <2>4, Has
    DEF JobFits, RecFits, LockFits, StepOk, LockSteps, RecSteps, JobOk, Active
  <2>6. ControlInv'
    BY <1>1, <2>1, <2>4, <2>5, ControlStep DEF IInv, ControlInv
  <2>7. GameInv'
    <3>1. \A k \in JobIds \ {j} : ~OnGame(k)'
      BY <1>2, <2>1 DEF OnGame, OthersKeep
    <3>2. GameFor(j)'
      BY <1>3, <2>1, <2>4 DEF GameFor, Copies, StepFacts
    <3> QED
      BY <2>4, <3>1, <3>2 DEF GameInv, Rest, GameFor
  <2>8. SweepInv'
    BY <2>1, <2>4, SweepStep DEF IInv
  <2>9. LibraryInv'
    BY <1>1, <2>1, <2>4, LibraryOther DEF IInv, OnLibrary
  <2> QED
    BY <2>3, <2>6, <2>7, <2>8, <2>9 DEF IInv
<1> QED
  BY <1>5, <1>6 DEF Transition

LEMMA NextItemKeeps ==
  ASSUME IInv, NEW j \in JobIds, NextItem(j)
  PROVE  IInv'
<1> USE DEF files, game, library, control
<1>1. /\ at[j] = "next" /\ jobs[j].rest # 0 /\ jobs[j] \in Job
      /\ UNCHANGED <<files, game, library, recovery, sweep, closing, exhausted>>
  BY DEF NextItem, IInv, TypeOK
<1>2. CASE Cancelled(j) /\ Go(j, "cancel") /\ UNCHANGED <<jobs, lock>>
  BY <1>1, <1>2, QueueStops
<1>3. CASE jobs[j].rest = 3 /\ Go(j, "fail") /\ UNCHANGED <<jobs, lock>>
  BY <1>1, <1>3, QueueStops
<1>4. CASE /\ jobs[j].rest = 3 /\ lib = jobs[j].target /\ UNCHANGED lock
           /\ Transition(j, Passed(jobs[j]), "next")
  <2>1. CASE UNCHANGED jobs /\ Go(j, Return(j))
    BY <1>1, <1>4, <2>1, GivesUp
  <2>2. CASE jobs' = [jobs EXCEPT ![j] = Passed(jobs[j])] /\ Go(j, "next")
    <3>1. /\ Active(jobs[j]) /\ Alive(jobs[j]) /\ jobs[j].scope = "library" /\ OnLibrary(j)
          /\ jobs[j].item = "none" /\ ~OnGame(j)
      BY <1>1, <1>4, Has DEF StepOk, Active, Alive, JobOk, OnLibrary, OnGame
    <3>2. /\ jobs'[j] = Passed(jobs[j])
          /\ at'[j] = "next" /\ OthersKeep(j)
      BY <1>1, <1>4, <2>2 DEF OthersKeep, Go, IInv, TypeOK
    <3>3. /\ jobs'[j] \in Job /\ jobs'[j].item = "none" /\ jobs'[j].rest = 2
          /\ jobs'[j].stage = "prepare" /\ jobs'[j].staging = jobs[j].staging
          /\ jobs'[j].renamed = jobs[j].renamed /\ jobs'[j].scope = "library"
          /\ jobs'[j].target = jobs[j].target /\ jobs'[j].failedAt = jobs[j].failedAt
          /\ jobs'[j].attempts = jobs[j].attempts
      BY <1>1, <3>1, <3>2, PassedRecord
    <3>4. TypeOK'
      BY <1>1, <1>4, <2>2, <3>3 DEF IInv, TypeOK, Steps, Go
    <3>5. JobFits(j)'
      BY <1>1, <3>1, <3>2, <3>3, Has
      DEF JobFits, RecFits, LockFits, StepOk, LockSteps, RecSteps, JobOk, Alive, Active, Phase,
          Resumable
    <3> QED
      BY <1>1, <1>4, <3>1, <3>2, <3>3, <3>4, <3>5, AsideStep DEF IInv, ControlInv
  <2> QED
    BY <1>4, <2>1, <2>2 DEF Transition
<1>5. CASE /\ jobs[j].rest = 3 /\ lib # jobs[j].target
           /\ lock = 0 /\ ~running /\ dir[lib] # Absent /\ dir[jobs[j].target] = Absent
           /\ lock' = j /\ Transition(j, NewItem(jobs[j], "game", lib, 2), "start")
  BY <1>1, <1>5, QueueTakesGame
<1>6. ASSUME NEW item, NEW rest, rest = jobs[j].rest - 1, UNCHANGED lock,
             \/ jobs[j].rest = 2 /\ item = "downloads"
             \/ jobs[j].rest = 1 /\ item = "settings",
             Transition(j, NewItem(jobs[j], item, root, rest), "stage")
      PROVE  IInv'
  <2>1. CASE UNCHANGED jobs /\ Go(j, Return(j))
    BY <1>1, <1>6, <2>1, GivesUp
  <2>2. CASE jobs' = [jobs EXCEPT ![j] = NewItem(jobs[j], item, root, rest)] /\ Go(j, "stage")
    BY <1>1, <1>6, <2>2, QueueGoesOn
  <2> QED
    BY <1>6, <2>1, <2>2 DEF Transition
<1>7. CASE jobs[j].rest = 2 /\ Transition(j, NewItem(jobs[j], "downloads", root, 1), "stage")
           /\ UNCHANGED lock
  <2>1. 1 = jobs[j].rest - 1
    BY <1>7
  <2> QED
    BY <1>6, <1>7, <2>1
<1>8. CASE jobs[j].rest = 1 /\ Transition(j, NewItem(jobs[j], "settings", root, 0), "stage")
           /\ UNCHANGED lock
  <2>1. 0 = jobs[j].rest - 1
    BY <1>8
  <2> QED
    BY <1>6, <1>8, <2>1
<1> QED
  BY <1>2, <1>3, <1>4, <1>5, <1>7, <1>8 DEF NextItem, Passed

LEMMA QueueDoneKeeps ==
  ASSUME IInv, NEW j \in JobIds, QueueDone(j)
  PROVE  IInv'
<1> USE DEF files, game, library, control
<1>1. /\ at[j] = "next" /\ jobs[j].rest = 0 /\ UNCHANGED <<files, game, library, control, jobs>>
      /\ at' = [at EXCEPT ![j] = at'[j]] /\ at'[j] = "complete" /\ OthersKeep(j)
  BY DEF QueueDone, Go, OthersKeep, IInv, TypeOK
<1>2. /\ jobs[j].item = "settings" /\ jobs[j].stage = "repoint" /\ Alive(jobs[j]) /\ OnLibrary(j)
  BY <1>1, Has DEF StepOk, Active, Alive, JobOk, OnLibrary
<1>3. TypeOK'
  BY <1>1 DEF IInv, TypeOK, Steps
<1>4. JobFits(j)'
  BY <1>1, <1>2, Has DEF JobFits, RecFits, LockFits, StepOk, LockSteps, RecSteps, Active
<1>5. LibraryFor(j)' /\ TreeInv'
  BY <1>1, <1>2, Has DEF LibraryFor, OnLibrary, TreeInv
<1> QED
  BY <1>1, <1>2, <1>3, <1>4, <1>5, LibraryStep DEF IInv, ControlInv

----------------------------------------------------------------------------
(* The downloads and the settings *)

LEMMA StageItemKeeps ==
  ASSUME IInv, NEW j \in JobIds, StageItem(j)
  PROVE  IInv'
<1> USE DEF files, game, library, control
<1> DEFINE step == IF jobs[j].item = "downloads" THEN "tree" ELSE "root"
<1>1. at[j] = "stage" /\ UNCHANGED <<files, game, library, control>>
  BY DEF StageItem
<1>2. CASE UNCHANGED jobs /\ Go(j, Return(j))
  BY <1>1, <1>2, GivesUp
<1>3. CASE /\ jobs' = [jobs EXCEPT ![j] = [jobs[j] EXCEPT !.stage = "repoint"]]
           /\ Go(j, step)
  <2>1. /\ jobs[j].item \in {"downloads", "settings"} /\ jobs[j].stage = "prepare"
        /\ Alive(jobs[j]) /\ jobs[j] \in Job /\ OnLibrary(j)
        /\ ~jobs[j].staging
    BY <1>1, Has DEF StepOk, OnLibrary, Alive, Active, JobOk, Phase
  <2>2. /\ jobs'[j] = [jobs[j] EXCEPT !.stage = "repoint"]
        /\ at'[j] = step /\ OthersKeep(j) /\ jobs'[j] \in Job
    BY <1>1, <1>3, <2>1 DEF OthersKeep, Go, IInv, TypeOK, Job, Stages
  <2>3. TypeOK'
    BY <1>1, <1>3, <2>2 DEF IInv, TypeOK, Steps, Go
  <2>4. JobFits(j)'
    BY <1>1, <2>1, <2>2, Has
    DEF JobFits, RecFits, LockFits, StepOk, LockSteps, RecSteps, JobOk, Alive, Active, Phase,
        Resumable, Job
  <2>5. LibraryFor(j)'
    BY <1>1, <2>1, <2>2, Has DEF LibraryFor, OnLibrary, Phase, Job
  <2>6. TreeInv'
    <3>1. CASE tree[dest] = 0
      BY <1>1, <3>1 DEF TreeInv
    <3>2. CASE tree[dest] # 0
      <4>1. Halfway /\ jobs[j].item = "downloads"
        BY <2>1, <3>2, Has DEF IInv, LibraryInv, TreeInv, LibraryFor
      <4>2. \A k \in JobIds \ {j} : ~OnLibrary(k) /\ ~OnLibrary(k)'
        BY <2>1, <2>2 DEF IInv, ControlInv, OneOnLibrary, OnLibrary, OthersKeep
      <4>3. Pending(j)' /\ jobs'[j].target = jobs[j].target /\ jobs'[j].item = "downloads"
        BY <2>1, <2>2, <4>1 DEF Pending, OnLibrary, Phase, Alive, Active, Job
      <4> QED
        BY <1>1, <2>1, <4>1, <4>2, <4>3 DEF TreeInv, Halfway
    <3> QED
      BY <3>1, <3>2
  <2>7. jobs'[j].scope = jobs[j].scope /\ jobs'[j].item = jobs[j].item
    BY <2>1, <2>2 DEF Job
  <2> QED
    BY <1>1, <2>1, <2>2, <2>3, <2>4, <2>5, <2>6, <2>7, LibraryStep DEF IInv, ControlInv
<1> QED
  BY <1>2, <1>3 DEF StageItem, Transition

\* What the steps at the downloads and the settings share: they change the journal's job not at
\* all and leave the files and the library's game alone.
LEMMA LibraryItem ==
  ASSUME IInv, NEW j \in JobIds, at[j] \in {"tree", "treeremove", "dest", "root"}
  PROVE  /\ jobs[j].stage = "repoint" /\ OnLibrary(j) /\ Alive(jobs[j]) /\ jobs[j] \in Job
         /\ jobs[j].item = IF at[j] = "root" THEN "settings" ELSE "downloads"
         /\ jobs[j].target \in Roots /\ root \in Roots /\ tree \in [Roots -> {Absent, Partial, 0}]
         /\ at[j] # "root" => jobs[j].source = root /\ jobs[j].target # root
         /\ at[j] = "root" => jobs[j].source # jobs[j].target
         /\ \A k \in JobIds \ {j} : ~OnLibrary(k)
<1>1. jobs[j].stage = "repoint" /\ jobs[j].item = IF at[j] = "root" THEN "settings" ELSE "downloads"
  BY Has DEF StepOk
<1>2. Alive(jobs[j]) /\ OnLibrary(j)
  BY <1>1, Has DEF Alive, Active, JobOk, OnLibrary
<1>3. jobs[j].target \in Roots /\ root \in Roots /\ tree \in [Roots -> {Absent, Partial, 0}]
      /\ jobs[j] \in Job /\ (at[j] = "root" => jobs[j].source # jobs[j].target)
  BY <1>1, <1>2, Has DEF JobOk, OnLibrary, IInv, TypeOK
<1>4. at[j] # "root" => jobs[j].source = root /\ jobs[j].target # root
  BY <1>1, <1>2, Has DEF LibraryFor
<1> QED
  BY <1>1, <1>2, <1>3, <1>4 DEF IInv, ControlInv, OneOnLibrary

\* A step of theirs keeps the invariant with the facts about the downloads.
LEMMA LibraryItemStep ==
  ASSUME IInv, NEW j \in JobIds, at[j] \in {"tree", "treeremove", "dest", "root"},
         NEW step, Go(j, step),
         \/ step \in {"treeremove", "dest", "cleanup"} /\ at[j] # "root"
         \/ step \in {"next", "complete"} /\ at[j] = "root" /\ (step = "next" => recovery.job # j)
         \/ step = Return(j),
         UNCHANGED <<files, game, control, jobs>>, TypeOK', LibraryFor(j)', TreeInv'
  PROVE  IInv'
<1> USE DEF files, game, control
<1>1. /\ at' = [at EXCEPT ![j] = step] /\ at'[j] = step /\ OthersKeep(j)
      /\ Return(j) \in {"end", "after"} /\ (step = "after" => recovery.job = j)
  BY DEF Go, OthersKeep, IInv, TypeOK, Return, Recovering
<1>2. JobFits(j)'
  BY <1>1, LibraryItem, Has DEF JobFits, RecFits, LockFits, StepOk, LockSteps, RecSteps, OnLibrary
<1> QED
  BY <1>1, <1>2, LibraryItem, LibraryStep DEF IInv, ControlInv

LEMMA MoveTreeKeeps ==
  ASSUME IInv, NEW j \in JobIds, MoveTree(j)
  PROVE  IInv'
<1> DEFINE source == jobs[j].source
           target == jobs[j].target
<1>1. at[j] = "tree" /\ UNCHANGED <<files, game, dest, root, control, jobs>>
  BY DEF MoveTree
<1>2. /\ source = root /\ target # root /\ jobs[j].item = "downloads" /\ jobs[j].stage = "repoint"
      /\ OnLibrary(j) /\ Alive(jobs[j]) /\ target \in Roots /\ root \in Roots
      /\ tree \in [Roots -> {Absent, Partial, 0}]
      /\ \A k \in JobIds \ {j} : ~OnLibrary(k)
  BY <1>1, LibraryItem
<1>3. TypeOK /\ TreeInv /\ dest \in Roots
  BY DEF IInv, LibraryInv, TypeOK
<1>4. dest = root /\ tree[root] # Absent => tree[target] = 0 \/ tree[root] = 0
  BY <1>2, <1>3 DEF TreeInv, Halfway
<1>5. ASSUME NEW step, step \in {"treeremove", "dest"}, Go(j, step),
             tree' \in [Roots -> {Absent, Partial, 0}],
             step = "dest" => tree'[root] = Absent,
             step = "treeremove" /\ dest = root => tree'[target] = 0, TreeInv'
      PROVE  IInv'
  <2>1. TypeOK'
    BY <1>1, <1>3, <1>5 DEF TypeOK, Go, Steps, files, game, control
  <2>2. at'[j] = step
    BY <1>3, <1>5 DEF Go, TypeOK
  <2>3. LibraryFor(j)'
    BY <1>1, <1>2, <1>5, <2>2 DEF LibraryFor, OnLibrary, Phase
  <2> QED
    BY <1>1, <1>5, <2>1, <2>3, LibraryItemStep
<1>6. UNCHANGED tree => TreeInv'
  BY <1>1, <1>3 DEF control, TreeInv, Halfway, OnLibrary, Pending
<1>7. CASE tree[source] = Absent /\ UNCHANGED tree /\ Go(j, "dest")
  <2>1. tree' \in [Roots -> {Absent, Partial, 0}] /\ tree'[root] = Absent /\ TreeInv'
    BY <1>1, <1>2, <1>6, <1>7
  <2> QED
    BY <1>5, <1>7, <2>1
<1>8. Pending(j)' /\ \A k \in JobIds \ {j} : ~OnLibrary(k)'
  BY <1>1, <1>2 DEF Pending, OnLibrary, Phase
<1>9. CASE /\ tree[source] # Absent /\ tree[target] = Absent
           /\ tree' = [tree EXCEPT ![target] = tree[source], ![source] = Absent]
           /\ Go(j, "dest")
  <2>1. /\ tree' \in [Roots -> {Absent, Partial, 0}] /\ tree'[root] = Absent
        /\ tree'[target] = tree[root]
        /\ \A r \in Roots \ {root, target} : tree'[r] = tree[r]
    BY <1>2, <1>9
  <2>2. TreeInv'
    <3>1. CASE dest = root
      BY <1>1, <1>2, <1>4, <1>8, <1>9, <2>1, <3>1 DEF TreeInv, Halfway, Absent
    <3>2. CASE dest # root
      BY <1>1, <1>2, <1>3, <1>9, <2>1, <3>2 DEF TreeInv, Halfway, Absent
    <3> QED
      BY <3>1, <3>2
  <2> QED
    BY <1>5, <1>9, <2>1, <2>2
<1>10. CASE /\ tree[source] # Absent /\ tree[target] \in {Absent, 0}
            /\ tree' = [tree EXCEPT ![target] = IF @ = Absent THEN tree[source] ELSE @]
            /\ Go(j, "treeremove")
  <2>1. /\ tree' \in [Roots -> {Absent, Partial, 0}]
        /\ tree'[target] = IF tree[target] = Absent THEN tree[root] ELSE tree[target]
        /\ \A r \in Roots \ {target} : tree'[r] = tree[r]
    BY <1>2, <1>10
  <2>2. dest = root => tree'[target] = 0
    BY <1>2, <1>4, <1>10, <2>1 DEF Absent
  <2>3. TreeInv'
    <3>1. CASE tree[dest] = 0
      BY <1>1, <1>3, <2>1, <3>1 DEF TreeInv, Absent
    <3>2. CASE Halfway
      BY <1>1, <1>2, <1>8, <2>1, <2>2, <3>2 DEF TreeInv, Halfway
    <3> QED
      BY <1>3, <3>1, <3>2 DEF TreeInv
  <2> QED
    BY <1>5, <1>10, <2>1, <2>2, <2>3
<1>11. CASE tree[source] # Absent /\ UNCHANGED tree /\ Go(j, Return(j))
  BY <1>1, <1>11, GivesUp DEF library
<1> QED
  BY <1>7, <1>9, <1>10, <1>11 DEF MoveTree

LEMMA RemoveTreeKeeps ==
  ASSUME IInv, NEW j \in JobIds, RemoveTree(j)
  PROVE  IInv'
<1>1. /\ at[j] = "treeremove" /\ UNCHANGED <<files, game, dest, root, control, jobs>>
      /\ \/ tree' = [tree EXCEPT ![jobs[j].source] = Absent] /\ Go(j, "dest")
         \/ tree' = [tree EXCEPT ![jobs[j].source] = Partial] /\ Go(j, Return(j))
  BY DEF RemoveTree
<1>2. /\ jobs[j].source = root /\ jobs[j].target # root /\ jobs[j].item = "downloads"
      /\ jobs[j].stage = "repoint" /\ OnLibrary(j) /\ Alive(jobs[j])
      /\ jobs[j].target \in Roots /\ root \in Roots /\ tree \in [Roots -> {Absent, Partial, 0}]
      /\ \A k \in JobIds \ {j} : ~OnLibrary(k)
  BY <1>1, LibraryItem
<1>3. TypeOK /\ TreeInv /\ dest \in Roots
  BY DEF IInv, LibraryInv, TypeOK
<1>4. dest = root => tree[jobs[j].target] = 0
  BY <1>1, <1>2, Has DEF LibraryFor
<1>5. /\ tree' \in [Roots -> {Absent, Partial, 0}] /\ tree'[root] \in {Absent, Partial}
      /\ \A r \in Roots \ {root} : tree'[r] = tree[r]
  BY <1>1, <1>2
<1>6. TreeInv'
  <2>1. Pending(j)' /\ \A k \in JobIds \ {j} : ~OnLibrary(k)'
    BY <1>1, <1>2 DEF Pending, OnLibrary, Phase
  <2>2. CASE dest = root
    BY <1>1, <1>2, <1>4, <1>5, <2>1, <2>2 DEF TreeInv, Halfway
  <2>3. CASE dest # root
    BY <1>1, <1>3, <1>5, <2>3 DEF TreeInv, Halfway
  <2> QED
    BY <2>2, <2>3
<1>7. ASSUME NEW step, Go(j, step),
             \/ step = "dest" /\ tree'[root] = Absent
             \/ step = Return(j)
      PROVE  IInv'
  <2>1. step \in {"dest", "end", "after"}
    BY <1>7 DEF Return
  <2>2. TypeOK'
    BY <1>1, <1>3, <1>5, <1>7, <2>1 DEF TypeOK, Go, Steps, files, game, control
  <2>3. at'[j] = step
    BY <1>3, <1>7 DEF Go, TypeOK
  <2>4. LibraryFor(j)'
    BY <1>1, <1>2, <1>7, <2>1, <2>3 DEF LibraryFor, OnLibrary, Phase, Return
  <2> QED
    BY <1>1, <1>6, <1>7, <2>2, <2>4, LibraryItemStep
<1> QED
  <2>1. CASE tree' = [tree EXCEPT ![jobs[j].source] = Absent] /\ Go(j, "dest")
    <3>1. tree'[root] = Absent
      BY <1>2, <2>1
    <3> QED
      BY <1>7, <2>1, <3>1
  <2>2. CASE tree' = [tree EXCEPT ![jobs[j].source] = Partial] /\ Go(j, Return(j))
    BY <1>7, <2>2
  <2> QED
    BY <1>1, <2>1, <2>2

LEMMA RebaseKeeps ==
  ASSUME IInv, NEW j \in JobIds, Rebase(j)
  PROVE  IInv'
<1>1. at[j] = "dest" /\ UNCHANGED <<files, game, tree, root, control, jobs>>
  BY DEF Rebase
<1>2. /\ jobs[j].source = root /\ jobs[j].target # root /\ jobs[j].item = "downloads"
      /\ jobs[j].stage = "repoint" /\ OnLibrary(j) /\ jobs[j].target \in Roots
  BY <1>1, LibraryItem
<1>3. TypeOK /\ TreeInv /\ tree[root] = Absent
  BY <1>1, <1>2, Has DEF IInv, LibraryInv, LibraryFor
<1>4. CASE UNCHANGED dest /\ Go(j, Return(j))
  BY <1>1, <1>4, GivesUp DEF library
<1>5. CASE dest' = (IF dest = jobs[j].source THEN jobs[j].target ELSE dest) /\ Go(j, "cleanup")
  <2>1. tree[dest'] = 0 /\ dest' # root /\ dest' \in Roots
    BY <1>2, <1>3, <1>5 DEF TreeInv, Halfway, Absent, TypeOK
  <2>2. TreeInv' /\ at'[j] = "cleanup"
    BY <1>1, <1>3, <1>5, <2>1 DEF TreeInv, Go, TypeOK
  <2>3. TypeOK'
    BY <1>1, <1>3, <1>5, <2>1 DEF TypeOK, Go, Steps, files, game, control
  <2>4. LibraryFor(j)'
    BY <1>1, <1>2, <1>3, <2>1, <2>2 DEF LibraryFor, OnLibrary
  <2> QED
    BY <1>1, <1>5, <2>2, <2>3, <2>4, LibraryItemStep
<1> QED
  BY <1>4, <1>5 DEF Rebase

LEMMA SetRootKeeps ==
  ASSUME IInv, NEW j \in JobIds, SetRoot(j)
  PROVE  IInv'
<1> DEFINE step == IF Recovering(j) THEN "complete" ELSE "next"
<1>1. at[j] = "root" /\ UNCHANGED <<files, game, tree, dest, control, jobs>>
  BY DEF SetRoot
<1>2. /\ jobs[j].source # jobs[j].target /\ jobs[j].item = "settings"
      /\ jobs[j].stage = "repoint" /\ OnLibrary(j) /\ jobs[j].target \in Roots
  BY <1>1, LibraryItem
<1>3. TypeOK /\ tree[dest] = 0
  BY <1>1, <1>2, Has DEF IInv, LibraryFor
<1>4. CASE UNCHANGED root /\ Go(j, Return(j))
  BY <1>1, <1>4, GivesUp DEF library
<1>5. CASE root' = jobs[j].target /\ Go(j, step)
  <2>1. TreeInv' /\ at'[j] = step
    BY <1>1, <1>3, <1>5 DEF TreeInv, Go, TypeOK
  <2>2. TypeOK'
    BY <1>1, <1>2, <1>3, <1>5 DEF TypeOK, Go, Steps, files, game, control
  <2>3. LibraryFor(j)'
    BY <1>1, <1>2, <1>3, <1>5, <2>1 DEF LibraryFor, OnLibrary
  <2> QED
    BY <1>1, <1>5, <2>1, <2>2, <2>3, LibraryItemStep DEF Recovering
<1> QED
  BY <1>4, <1>5 DEF SetRoot

----------------------------------------------------------------------------
(* The end of a move *)

\* A step that leaves the files, the library's game and the downloads alone, and of its job at
\* most the stage, changes.
LEMMA JobStep ==
  ASSUME IInv, NEW j \in JobIds, OthersKeep(j), TypeOK', JobFits(j)',
         recovery'.from \in {"none", "repoint", "cleanup", "failed"},
         UNCHANGED <<dir, staging, game, library, sweep>>, exhausted => exhausted',
         Alive(jobs'[j]) => /\ Alive(jobs[j]) /\ jobs'[j].scope = jobs[j].scope
                            /\ jobs'[j].item = jobs[j].item /\ jobs'[j].target = jobs[j].target,
         Active(jobs'[j]) /\ jobs'[j].staging => Active(jobs[j]) /\ jobs[j].staging,
         OnGame(j) => GameFor(j)' /\ (~OnGame(j)' => Rested'),
         OnLibrary(j) /\ jobs[j].item \in {"downloads", "settings"} => LibraryFor(j)' /\ TreeInv',
         at'[j] \notin {"dest", "treeremove"}
  PROVE  IInv'
<1>1. CASE OnGame(j)
  BY <1>1, GameStep
<1>2. CASE OnLibrary(j) /\ jobs[j].item \in {"downloads", "settings"}
  BY <1>2, LibraryStep
<1>3. CASE ~OnGame(j) /\ ~(OnLibrary(j) /\ jobs[j].item \in {"downloads", "settings"})
  <2>1. OnLibrary(j) => jobs[j].item = "none"
    BY <1>3, Has DEF Job, Items, OnGame, OnLibrary
  <2> QED
    BY <1>3, <2>1, AsideStep DEF OnGame
<1> QED
  BY <1>1, <1>2, <1>3

\* Where the game is after a move was given up: the newest files are kept, and the library has
\* them unless the attempts of the recovery are spent.
LEMMA GivenUp ==
  ASSUME IInv, NEW j \in JobIds, OnGame(j), ~OnGame(j)', UNCHANGED <<dir, game>>,
         exhausted => exhausted', dir[lib] = latest \/ exhausted'
  PROVE  Rested'
<1> USE DEF game
<1>1. Copies(jobs[j], manifest[j]) /\ jobs[j] \in Job /\ Alive(jobs[j]) /\ jobs[j].item = "game"
  BY Has DEF GameFor, OnGame
<1>2. Phase(jobs[j]) \in {"prepare", "copy", "verify", "commit", "repoint", "cleanup"}
  BY <1>1 DEF Phase, Alive, Active, Resumable, Job, Stages
<1>3. dir[lib] = latest \/ (dir[lib] = Absent /\ dir[jobs[j].target] = latest)
  BY <1>1, <1>2 DEF Copies
<1>4. jobs[j].target \in Places
  BY <1>1 DEF Job
<1> QED
  BY <1>3, <1>4 DEF Rested, LatestKept

\* The part of the downloads when nothing but the stage of their job changes.
LEMMA TreeStays ==
  ASSUME IInv, NEW j \in JobIds, OnLibrary(j), jobs[j].item \in {"downloads", "settings"},
         OthersKeep(j), UNCHANGED library, exhausted => exhausted',
         OnLibrary(j)' => jobs'[j].item = jobs[j].item /\ jobs'[j].target = jobs[j].target,
         \/ tree[dest] = 0
         \/ tree[root] # Absent
         \/ Pending(j)'
         \/ exhausted' /\ ~OnLibrary(j)'
  PROVE  TreeInv'
<1> USE DEF library
<1>1. CASE tree[dest] = 0
  BY <1>1 DEF TreeInv
<1>2. CASE tree[dest] # 0
  <2>1. Halfway
    BY <1>2 DEF IInv, LibraryInv, TreeInv
  <2>2. \A k \in JobIds \ {j} : ~OnLibrary(k) /\ ~OnLibrary(k)'
    BY DEF IInv, ControlInv, OneOnLibrary, OnLibrary, OthersKeep
  <2>3. \A k \in JobIds : OnLibrary(k)' => jobs'[k].item # "settings" /\ tree'[jobs'[k].target] = 0
    BY <2>1, <2>2 DEF Halfway
  <2>4. (tree[root] = Absent => \/ exhausted /\ \A k \in JobIds : ~OnLibrary(k)
                                \/ \E k \in JobIds : Pending(k))'
    BY <1>2, <2>1, <2>2 DEF Halfway
  <2> QED
    BY <2>1, <2>3, <2>4 DEF TreeInv, Halfway
<1> QED
  BY <1>1, <1>2

\* Before the move of the downloads has begun, the old root has its tree or the records have
\* left it.
LEMMA TreeBefore ==
  ASSUME IInv, NEW j \in JobIds, OnLibrary(j), jobs[j].item \in {"downloads", "settings"},
         Phase(jobs[j]) # "repoint" \/ jobs[j].item = "settings"
  PROVE  tree[dest] = 0 \/ tree[root] # Absent
<1>1. \A k \in JobIds \ {j} : ~OnLibrary(k)
  BY DEF IInv, ControlInv, OneOnLibrary
<1>2. \A k \in JobIds : ~Pending(k)
  BY <1>1 DEF Pending
<1> QED
  BY <1>2 DEF IInv, LibraryInv, TreeInv, Halfway

LEMMA FailOrCancelKeeps ==
  ASSUME IInv, NEW j \in JobIds, FailOrCancel(j)
  PROVE  IInv'
<1> USE DEF files, game, library, control
<1>1. /\ at[j] \in {"fail", "cancel"} /\ UNCHANGED <<files, game, library, control>>
      /\ jobs[j] \in Job /\ Active(jobs[j]) /\ Alive(jobs[j])
  BY Has DEF FailOrCancel, StepOk, Alive
<1>2. CASE UNCHANGED jobs /\ Go(j, Return(j))
  BY <1>1, <1>2, GivesUp
<1>3. ASSUME NEW stage \in {"failed", "cancelled"}, NEW failedAt, NEW step,
             stage = "failed" => at[j] = "fail" /\ failedAt = RetryableStage(jobs[j].stage)
                                 /\ step = Return(j),
             stage = "cancelled" => at[j] = "cancel" /\ failedAt = "none" /\ step = "end",
             jobs' = [jobs EXCEPT ![j] = [jobs[j] EXCEPT !.stage = stage, !.failedAt = failedAt]],
             Go(j, step)
      PROVE  IInv'
  <2>1. /\ failedAt \in {"none", "repoint", "cleanup"} /\ stage \in Stages
        /\ step \in {"end", "after"} /\ (step = "after" => recovery.job = j)
    BY <1>3 DEF RetryableStage, Stages, Return, Recovering
  <2>2. /\ jobs'[j] = [jobs[j] EXCEPT !.stage = stage, !.failedAt = failedAt]
        /\ at'[j] = step /\ OthersKeep(j)
    BY <1>1, <1>3 DEF OthersKeep, Go, IInv, TypeOK
  <2>3. /\ jobs'[j] \in Job /\ jobs'[j].stage = stage /\ jobs'[j].failedAt = failedAt
        /\ jobs'[j].item = jobs[j].item
        /\ jobs'[j].source = jobs[j].source /\ jobs'[j].target = jobs[j].target
        /\ jobs'[j].staging = jobs[j].staging
        /\ jobs'[j].renamed = jobs[j].renamed /\ jobs'[j].attempts = jobs[j].attempts
        /\ jobs'[j].rest = jobs[j].rest /\ jobs'[j].scope = jobs[j].scope
    BY <1>1, <2>1, <2>2 DEF Job
  <2>4. TypeOK'
    BY <1>1, <1>3, <2>1, <2>3 DEF IInv, TypeOK, Steps, Go
  <2>5. /\ ~Active(jobs'[j])
        /\ Alive(jobs'[j]) <=> stage = "failed" /\ jobs[j].stage \in {"repoint", "cleanup"}
        /\ Alive(jobs'[j]) => Phase(jobs'[j]) = jobs[j].stage
        /\ Phase(jobs[j]) = jobs[j].stage
    BY <1>1, <1>3, <2>3 DEF Alive, Active, Resumable, Phase, RetryableStage
  <2>6. JobFits(j)'
    <3>1. JobOk(jobs'[j])
      BY <1>1, <1>3, <2>3, <2>5, Has DEF JobOk
    <3>2. StepOk(jobs'[j], at'[j]) /\ RecFits(j)' /\ LockFits(j)'
      BY <1>1, <2>1, <2>2, <2>3, Has
      DEF StepOk, RecFits, LockFits, LockSteps, RecSteps, Active
    <3> QED
      BY <3>1, <3>2 DEF JobFits
  <2>7. ASSUME OnGame(j) PROVE GameFor(j)' /\ (~OnGame(j)' => Rested')
    <3>1. Copies(jobs[j], manifest[j]) /\ StepFacts(jobs[j], at[j], manifest[j])
      BY <2>7, Has DEF GameFor
    <3>2. CASE Alive(jobs'[j])
      BY <1>1, <2>1, <2>2, <2>3, <2>5, <2>7, <3>1, <3>2 DEF GameFor, OnGame, Copies, StepFacts
    <3>3. CASE ~Alive(jobs'[j])
      <4>1. dir[lib] = latest
        BY <1>1, <1>3, <2>5, <3>1, <3>3 DEF StepFacts
      <4> QED
        BY <1>1, <2>7, <3>3, <4>1, GivenUp DEF GameFor, OnGame
    <3> QED
      BY <3>2, <3>3
  <2>8. ASSUME OnLibrary(j), jobs[j].item \in {"downloads", "settings"}
        PROVE  LibraryFor(j)' /\ TreeInv'
    <3>1. LibraryFor(j)'
      BY <1>1, <2>1, <2>2, <2>3, <2>5, <2>8, Has DEF LibraryFor, OnLibrary
    <3>2. Pending(j)' \/ tree[dest] = 0 \/ tree[root] # Absent
      <4>1. CASE jobs[j].item = "downloads" /\ jobs[j].stage = "repoint"
        BY <1>1, <1>3, <2>3, <2>5, <2>8, <4>1, Has DEF Pending, OnLibrary, StepOk
      <4>2. CASE ~(jobs[j].item = "downloads" /\ jobs[j].stage = "repoint")
        BY <2>5, <2>8, <4>2, TreeBefore
      <4> QED
        BY <4>1, <4>2
    <3> QED
      BY <1>1, <2>2, <2>3, <2>8, <3>1, <3>2, TreeStays
  <2> QED
    BY <1>1, <2>1, <2>2, <2>3, <2>4, <2>5, <2>6, <2>7, <2>8, JobStep DEF IInv, ControlInv
<1>4. CASE /\ at[j] = "fail"
           /\ jobs' = [jobs EXCEPT ![j] = [jobs[j] EXCEPT !.stage = "failed",
                                             !.failedAt = RetryableStage(jobs[j].stage)]]
           /\ Go(j, Return(j))
  BY <1>3, <1>4
<1>5. CASE /\ at[j] = "cancel"
           /\ jobs' = [jobs EXCEPT ![j] = [jobs[j] EXCEPT !.stage = "cancelled",
                                                           !.failedAt = "none"]]
           /\ Go(j, "end")
  BY <1>3, <1>5
<1> QED
  BY <1>2, <1>4, <1>5 DEF FailOrCancel, Transition

\* A job of its own, and none.
LEMMA NewJobRecord ==
  ASSUME NEW scope \in {"game", "library"}, NEW item \in Items, NEW source \in Places,
         NEW target \in Places, NEW rest \in 0 .. 3
  PROVE  NewJob(scope, item, source, target, rest) \in Job
<1> DEFINE counts == 0 .. 3
           tries == 0 .. MaxRecoveryAttempts
<1>1. Job = [stage : Stages, failedAt : {"none", "repoint", "cleanup"}, item : Items,
             source : Places, target : Places, staging : BOOLEAN, renamed : BOOLEAN,
             attempts : tries, rest : counts, scope : {"game", "library"}]
  BY DEF Job
<1>2. rest \in counts /\ 0 \in tries /\ "prepare" \in Stages
  BY RelocateConstants DEF Stages
<1> HIDE DEF counts, tries
<1> QED
  BY <1>1, <1>2 DEF NewJob

LEMMA NoJobRecord ==
  NoJob \in Job /\ NoJob.stage = "none" /\ NoJob.failedAt = "none"
<1> DEFINE new == NewJob("game", "none", Home, Home, 0)
<1>1. new \in Job
  BY NewJobRecord, RelocateConstants DEF Items
<1>2. new.failedAt = "none"
  BY DEF NewJob
<1> HIDE DEF new
<1>3. [new EXCEPT !.stage = "none"] \in Job /\ [new EXCEPT !.stage = "none"].stage = "none"
      /\ [new EXCEPT !.stage = "none"].failedAt = "none"
  BY <1>1, <1>2 DEF Job, Stages
<1> QED
  BY <1>3 DEF NoJob, new

LEMMA CompleteJobKeeps ==
  ASSUME IInv, NEW j \in JobIds, CompleteJob(j)
  PROVE  IInv'
<1> USE DEF files, game, library, control
<1> DEFINE step == IF at[j] = "complete" THEN Return(j) ELSE "end"
<1>1. /\ at[j] \in {"complete", "surface"} /\ UNCHANGED <<dir, staging, game, library, control>>
      /\ at' = [at EXCEPT ![j] = step] /\ at'[j] = step
      /\ step \in {"end", "after"} /\ (step = "after" => recovery.job = j)
      /\ \/ /\ jobs' = [jobs EXCEPT ![j] = NoJob]
            /\ manifest' = [manifest EXCEPT ![j] = Absent]
         \/ UNCHANGED <<jobs, manifest>>
  BY DEF CompleteJob, Go, Return, Recovering, IInv, TypeOK
<1>2. jobs[j] \in Job /\ NoJob \in Job /\ NoJob.stage = "none" /\ NoJob.failedAt = "none"
  BY NoJobRecord DEF IInv, TypeOK
<1>3. OthersKeep(j)
  BY <1>1 DEF OthersKeep, IInv, TypeOK
<1>4. \/ jobs'[j] = jobs[j] /\ manifest'[j] = manifest[j]
      \/ jobs'[j] = NoJob
  BY <1>1 DEF IInv, TypeOK
<1>5. TypeOK'
  <2>1. manifest' \in [JobIds -> Content] /\ jobs' \in [JobIds -> Job]
    BY <1>1, <1>2 DEF IInv, TypeOK, Content
  <2> QED
    BY <1>1, <2>1 DEF IInv, TypeOK, Steps
<1>6. NoJob.stage = "none" /\ ~Alive(NoJob) /\ ~Active(NoJob)
  BY <1>2 DEF Alive, Active, Resumable
<1>7. JobFits(j)'
  <2>1. JobOk(jobs'[j])
    BY <1>2, <1>4, <1>6, Has DEF JobOk
  <2>2. StepOk(jobs'[j], at'[j]) /\ RecFits(j)' /\ LockFits(j)'
    BY <1>1, <1>4, <1>6, Has DEF StepOk, RecFits, LockFits, LockSteps, RecSteps
  <2> QED
    BY <2>1, <2>2 DEF JobFits
<1>8. ASSUME OnGame(j) PROVE GameFor(j)' /\ (~OnGame(j)' => Rested')
  <2>1. /\ at[j] = "complete" /\ jobs[j].stage = "cleanup"
        /\ Copies(jobs[j], manifest[j])
    BY <1>1, <1>8, Has DEF StepOk, OnGame, GameFor
  <2>2. dir[lib] = latest
    BY <2>1 DEF Copies, Phase
  <2>3. GameFor(j)'
    <3>1. CASE jobs'[j] = jobs[j] /\ manifest'[j] = manifest[j]
      BY <1>1, <2>1, <3>1 DEF GameFor, Copies, StepFacts
    <3>2. CASE jobs'[j] = NoJob
      BY <1>6, <3>2 DEF GameFor, OnGame
    <3> QED
      BY <1>4, <3>1, <3>2
  <2> QED
    BY <1>1, <2>2, <2>3 DEF Rested
<1>9. ASSUME OnLibrary(j), jobs[j].item \in {"downloads", "settings"}
      PROVE  LibraryFor(j)' /\ TreeInv'
  <2>1. at[j] = "complete" /\ jobs[j].item = "settings"
    BY <1>1, <1>9, Has DEF StepOk, OnLibrary
  <2>2. tree[dest] = 0
    BY <1>9, <2>1, Has DEF LibraryFor
  <2> QED
    BY <1>1, <1>4, <1>6, <1>9, <2>1, <2>2, Has DEF LibraryFor, OnLibrary, TreeInv
<1> QED
  BY <1>1, <1>3, <1>4, <1>5, <1>6, <1>7, <1>8, <1>9, JobStep DEF IInv, ControlInv

\* The end of a job's goroutine, or of the recovery of a job.
LEMMA EndKeeps ==
  ASSUME IInv, NEW j \in JobIds, End(j)
  PROVE  IInv'
<1> USE DEF files, game, library, control
<1>1. /\ at[j] = "end" /\ at' = [at EXCEPT ![j] = "idle"] /\ at'[j] = "idle"
      /\ UNCHANGED <<files, game, library, jobs, sweep, closing, exhausted>>
      /\ lock' \in {lock, 0} /\ (lock # j => lock' = lock)
      /\ recovery' = IF recovery.job = j THEN [recovery EXCEPT !.job = 0, !.from = "none"]
                     ELSE recovery
  BY DEF End, Go, IInv, TypeOK, Recovering
<1>2. /\ recovery'.job = (IF recovery.job = j THEN 0 ELSE recovery.job)
      /\ recovery'.from = (IF recovery.job = j THEN "none" ELSE recovery.from)
      /\ recovery'.todo = recovery.todo /\ j # 0
      /\ recovery' \in [todo : SUBSET JobIds, job : JobIds \cup {0}, from : Stages]
  BY <1>1, RelocateConstants DEF IInv, TypeOK, Stages
<1>3. OthersKeep(j)
  BY <1>1, <1>2, RelocateConstants DEF OthersKeep, IInv, TypeOK
<1>4. TypeOK'
  BY <1>1, <1>2 DEF IInv, TypeOK, Steps
<1>5. JobFits(j)'
  BY <1>1, <1>2, Has DEF JobFits, RecFits, LockFits, StepOk, LockSteps, RecSteps
<1>6. GameFor(j)'
  BY <1>1, Has DEF GameFor, OnGame, Copies, StepFacts
<1>7. LibraryFor(j)' /\ TreeInv'
  BY <1>1, Has DEF LibraryFor, OnLibrary, TreeInv, Halfway, Pending, IInv, LibraryInv
<1> QED
  BY <1>1, <1>2, <1>3, <1>4, <1>5, <1>6, <1>7, JobStep DEF IInv, ControlInv, OnGame

----------------------------------------------------------------------------
(* The recovery of the next start *)

LEMMA RecoverJobKeeps ==
  ASSUME IInv, NEW j \in JobIds, RecoverJob(j)
  PROVE  IInv'
<1> USE DEF files, game, library, control
<1> DEFINE touches == RecoveryTouchesGame(jobs[j])
           todo == recovery.todo \ {j}
<1>1. /\ recovery.job = 0 /\ j \in recovery.todo /\ at[j] = "idle" /\ jobs[j].stage # "none"
      /\ UNCHANGED <<files, game, library, jobs, sweep, closing, exhausted>>
      /\ jobs[j] \in Job /\ j # 0
  BY RelocateConstants, Has DEF RecoverJob, RecFits
<1>2. recovery \in [todo : SUBSET JobIds, job : JobIds \cup {0}, from : Stages]
  BY DEF IInv, TypeOK
<1>3. CASE recovery' = [recovery EXCEPT !.todo = todo] /\ UNCHANGED <<lock, at>>
  <2>1. /\ recovery'.todo = todo /\ recovery'.job = recovery.job
        /\ recovery'.from = recovery.from
        /\ recovery' \in [todo : SUBSET JobIds, job : JobIds \cup {0}, from : Stages]
    BY <1>2, <1>3
  <2>2. OthersKeep(j) /\ TypeOK' /\ at'[j] = "idle"
    BY <1>1, <1>3, <2>1 DEF OthersKeep, IInv, TypeOK
  <2>3. JobFits(j)'
    BY <1>1, <1>3, <2>1, Has DEF JobFits, RecFits, LockFits
  <2>4. GameFor(j)'
    BY <1>1, <1>3, Has DEF GameFor, OnGame, Copies, StepFacts
  <2>5. LibraryFor(j)' /\ TreeInv'
    BY <1>1, <1>3, Has DEF LibraryFor, OnLibrary, TreeInv, Halfway, Pending, IInv, LibraryInv
  <2> QED
    BY <1>1, <1>3, <2>1, <2>2, <2>3, <2>4, <2>5, JobStep DEF IInv, ControlInv, OnGame
<1>4. CASE /\ ~(touches /\ (running \/ lock # 0))
           /\ recovery' = [todo |-> todo, job |-> j, from |-> "none"]
           /\ lock' = IF touches THEN j ELSE lock
           /\ Go(j, RecoveryStep(jobs[j]))
  <2> DEFINE step == RecoveryStep(jobs[j])
  <2>1. /\ recovery'.todo = todo /\ recovery'.job = j /\ recovery'.from = "none"
        /\ recovery' \in [todo : SUBSET JobIds, job : JobIds \cup {0}, from : Stages]
    BY <1>2, <1>4 DEF Stages
  <2>2. /\ step \in {"reprepare", "recopy", "recommit", "attempt", "surface"}
        /\ at' = [at EXCEPT ![j] = step] /\ at'[j] = step
    BY <1>4 DEF Go, RecoveryStep, IInv, TypeOK
  <2>3. OthersKeep(j)
    BY <1>1, <1>4, <2>1, <2>2, RelocateConstants DEF OthersKeep, IInv, TypeOK
  <2>4. TypeOK'
    BY <1>1, <1>4, <2>1, <2>2 DEF IInv, TypeOK, Steps
  <2>5. OnGame(j) /\ Phase(jobs[j]) = "cleanup" => lib = jobs[j].target
    BY Has DEF GameFor, Copies
  <2>6. StepOk(jobs[j], step)
    <3>1. CASE step = "surface"
      <4>1. jobs[j].stage \in {"failed", "cancelled"} /\ jobs[j].failedAt # "repoint"
        BY <1>1, <3>1 DEF RecoveryStep, Job, Stages
      <4>2. jobs[j].failedAt = "cleanup" => ~TargetIsRegistered(jobs[j])
        BY <3>1, <4>1 DEF RecoveryStep
      <4>3. ~Alive(jobs[j])
        BY <1>1, <2>5, <4>1, <4>2, Has
        DEF TargetIsRegistered, OnGame, Alive, Active, Resumable, Phase, Job, JobOk
      <4> QED
        BY <3>1, <4>3 DEF StepOk
    <3>2. CASE step = "attempt"
      <4>1. \/ jobs[j].stage \in {"repoint", "cleanup"}
            \/ jobs[j].stage \in {"failed", "cancelled"} /\ jobs[j].failedAt \in {"repoint", "cleanup"}
        BY <1>1, <3>2 DEF RecoveryStep, Job, Stages
      <4>2. Alive(jobs[j]) /\ Phase(jobs[j]) \in {"repoint", "cleanup"}
        BY <4>1, Has DEF Alive, Active, Resumable, Phase, JobOk
      <4> QED
        BY <3>2, <4>2 DEF StepOk
    <3>3. CASE step = "recommit"
      <4>1. jobs[j].stage = "commit"
        BY <3>3 DEF RecoveryStep
      <4>2. jobs[j].item = "game"
        BY <1>1, <4>1, Has DEF JobOk, Alive, Active, Phase, Job, Items
      <4> QED
        BY <3>3, <4>1, <4>2 DEF StepOk
    <3>4. CASE step \in {"reprepare", "recopy"}
      BY <3>4 DEF RecoveryStep, StepOk
    <3> QED
      BY <2>2, <3>1, <3>2, <3>3, <3>4
  <2>7. JobFits(j)'
    <3>1. RecFits(j)'
      BY <1>1, <2>1, <2>2, Has DEF RecFits
    <3>2. LockFits(j)'
      <4>1. CASE touches
        BY <1>4, <4>1 DEF LockFits
      <4>2. CASE ~touches /\ jobs[j].item = "game"
        BY <1>1, <2>2, <4>2, Has
        DEF LockFits, RecoveryTouchesGame, RecoveryStep, Resumable, LockSteps, Job, Stages, JobOk
      <4> QED
        BY <1>1, <4>1, <4>2 DEF LockFits
    <3> QED
      BY <1>1, <2>2, <2>6, <3>1, <3>2, Has DEF JobFits
  <2>8. GameFor(j)'
    BY <1>1, <2>2, Has DEF GameFor, OnGame, Copies, StepFacts
  <2>9. LibraryFor(j)' /\ TreeInv'
    BY <1>1, <2>2, Has DEF LibraryFor, OnLibrary, TreeInv, Halfway, Pending, IInv, LibraryInv
  <2> QED
    BY <1>1, <2>1, <2>2, <2>3, <2>4, <2>7, <2>8, <2>9, JobStep DEF OnGame
<1> QED
  BY <1>3, <1>4 DEF RecoverJob

LEMMA RecoverPrepareKeeps ==
  ASSUME IInv, NEW j \in JobIds, RecoverPrepare(j)
  PROVE  IInv'
<1> USE DEF files, game, library, control
<1> DEFINE job == jobs[j]
           renamed == /\ job.item \in {"game", "downloads"}
                      /\ ~Exists(job, job.source) /\ Exists(job, job.target)
           new == [job EXCEPT !.stage = "repoint", !.renamed = TRUE]
<1>1. /\ at[j] = "reprepare" /\ UNCHANGED <<files, game, library, control>>
      /\ job \in Job /\ job.stage = "prepare" /\ Alive(job) /\ ~job.staging /\ Active(job)
      /\ job.item # "game" => OnLibrary(j)
      /\ Phase(job) = "prepare" /\ recovery.job = j
  BY Has DEF RecoverPrepare, StepOk, Alive, Active, JobOk, OnLibrary, Phase, RecFits, RecSteps
<1>2. OnGame(j) => /\ lib = job.source
                   /\ \/ dir[job.source] = latest
                      \/ dir[job.source] = Absent /\ dir[job.target] = latest
                   /\ latest \in Whole /\ latest # Absent
  BY <1>1, Has DEF GameFor, Copies, IInv, TypeOK, Whole, Absent
<1>3. OnLibrary(j) /\ job.item = "downloads" =>
        /\ job.source = root /\ root \in Roots /\ job.target # root
        /\ tree[dest] = 0 \/ tree[root] # Absent
  BY <1>1, TreeBefore, Has DEF LibraryFor, IInv, TypeOK
<1>4. CASE UNCHANGED jobs /\ Go(j, Return(j))
  BY <1>1, <1>4, GivesUp
<1>5. CASE renamed /\ jobs' = [jobs EXCEPT ![j] = new] /\ Go(j, "attempt")
  <2>1. jobs'[j] = new /\ at'[j] = "attempt" /\ OthersKeep(j)
    BY <1>1, <1>5 DEF OthersKeep, Go, IInv, TypeOK
  <2>2. /\ new \in Job /\ new.stage = "repoint" /\ new.renamed = TRUE /\ new.item = job.item
        /\ new.source = job.source /\ new.target = job.target /\ new.staging = job.staging
        /\ new.failedAt = job.failedAt /\ new.attempts = job.attempts /\ new.rest = job.rest
        /\ new.scope = job.scope
    BY <1>1 DEF Job, Stages
  <2> HIDE DEF new
  <2>3. Active(new) /\ Alive(new) /\ Phase(new) = "repoint"
    BY <2>2 DEF Alive, Active, Phase
  <2>4. TypeOK'
    BY <1>1, <1>5, <2>2 DEF IInv, TypeOK, Steps, Go
  <2>5. JobFits(j)'
    <3>1. JobOk(new)
      BY <1>1, <1>5, <2>2, <2>3, Has DEF JobOk
    <3>2. StepOk(jobs'[j], at'[j]) /\ RecFits(j)' /\ LockFits(j)'
      BY <1>1, <2>1, <2>2, <2>3, Has DEF StepOk, RecFits, LockFits, LockSteps, RecSteps
    <3> QED
      BY <2>1, <3>1, <3>2 DEF JobFits
  <2>6. ASSUME OnGame(j) PROVE GameFor(j)'
    <3>1. dir[job.source] = Absent /\ dir[job.target] = latest /\ lib = job.source
      BY <1>2, <1>5, <2>6 DEF Exists, OnGame
    <3>2. Copies(jobs[j], manifest[j])'
      BY <1>1, <2>1, <2>2, <2>3, <3>1 DEF Copies
    <3> QED
      BY <1>1, <2>1, <3>2 DEF GameFor, StepFacts
  <2>7. ASSUME OnLibrary(j), job.item = "downloads" PROVE LibraryFor(j)' /\ TreeInv'
    <3>1. LibraryFor(j)'
      BY <1>1, <1>3, <2>1, <2>2, <2>3, <2>7, Has DEF LibraryFor
    <3>2. tree[dest] = 0
      BY <1>3, <1>5, <2>7 DEF Exists
    <3> QED
      BY <1>1, <3>1, <3>2 DEF TreeInv
  <2> QED
    BY <1>1, <1>5, <2>1, <2>2, <2>3, <2>4, <2>5, <2>6, <2>7, JobStep DEF IInv, ControlInv, OnGame
<1>6. CASE ~renamed /\ Go(j, "giveup") /\ UNCHANGED jobs
  <2>1. at'[j] = "giveup" /\ OthersKeep(j) /\ TypeOK'
    BY <1>1, <1>6 DEF OthersKeep, Go, IInv, TypeOK, Steps
  <2>2. JobFits(j)'
    BY <1>1, <1>6, <2>1, Has DEF JobFits, RecFits, LockFits, StepOk, LockSteps, RecSteps
  <2>3. ASSUME OnGame(j) PROVE GameFor(j)'
    <3>1. dir[lib] = latest
      BY <1>2, <1>6, <2>3 DEF Exists, OnGame
    <3> QED
      BY <1>1, <1>6, <2>1, <2>3, <3>1, Has DEF GameFor, OnGame, Copies, StepFacts
  <2>4. ASSUME OnLibrary(j), job.item \in {"downloads", "settings"}
        PROVE  LibraryFor(j)' /\ TreeInv'
    <3>1. LibraryFor(j)'
      BY <1>1, <1>3, <1>6, <2>1, <2>4, Has DEF LibraryFor, OnLibrary
    <3>2. tree[dest] = 0 \/ tree[root] # Absent
      BY <1>1, <2>4, TreeBefore
    <3> QED
      BY <1>1, <1>6, <2>1, <2>4, <3>1, <3>2, TreeStays DEF OnLibrary
  <2> QED
    BY <1>1, <1>6, <2>1, <2>2, <2>3, <2>4, JobStep DEF IInv, ControlInv, OnGame
<1> QED
  BY <1>4, <1>5, <1>6 DEF RecoverPrepare, Transition

LEMMA RecoverCopyKeeps ==
  ASSUME IInv, NEW j \in JobIds, RecoverCopy(j)
  PROVE  IInv'
<1> USE DEF files, game, library, control
<1>1. /\ at[j] = "recopy" /\ UNCHANGED <<dir, game, library, control, jobs>>
      /\ at' = [at EXCEPT ![j] = "giveup"] /\ at'[j] = "giveup"
      /\ RemoveStaging(jobs[j].target)
      /\ manifest' \in {manifest, [manifest EXCEPT ![j] = Absent]}
  BY DEF RecoverCopy, Go, IInv, TypeOK
<1>2. OthersKeep(j)
  BY <1>1 DEF OthersKeep, IInv, TypeOK
<1>3. /\ jobs[j].stage \in {"copy", "verify"} /\ Alive(jobs[j]) /\ jobs[j] \in Job
      /\ jobs[j].item = "game" /\ OnGame(j) /\ jobs[j].target \in Places
  BY <1>1, Has DEF StepOk, Alive, Active, JobOk, Phase, OnGame, Job, Items
<1>4. TypeOK'
  <2>1. staging' \in [Places -> Content] /\ manifest' \in [JobIds -> Content]
    BY <1>1 DEF RemoveStaging, IInv, TypeOK, Content
  <2> QED
    BY <1>1, <2>1 DEF IInv, TypeOK, Steps
<1>5. JobFits(j)'
  BY <1>1, <1>3, Has DEF JobFits, RecFits, LockFits, StepOk, LockSteps, RecSteps
<1>6. GameFor(j)'
  BY <1>1, <1>3, Has DEF GameFor, Copies, StepFacts, Phase
<1> QED
  BY <1>1, <1>2, <1>3, <1>4, <1>5, <1>6, GameStep DEF IInv, ControlInv, OnGame

LEMMA RecoverCommitKeeps ==
  ASSUME IInv, NEW j \in JobIds, RecoverCommit(j)
  PROVE  IInv'
<1> USE DEF files, game, library, control
<1> DEFINE p == jobs[j].target
<1>1. /\ at[j] = "recommit" /\ UNCHANGED <<manifest, game, library, control, jobs>>
      /\ \/ /\ dir[p] # Absent /\ staging[p] = Absent
            /\ UNCHANGED <<dir, staging>> /\ Go(j, "committed")
         \/ dir[p] = Absent /\ RenameStaging(p) /\ Go(j, "committed")
         \/ UNCHANGED <<dir, staging>> /\ Go(j, "giveup")
  BY DEF RecoverCommit, RenameStaging
<1>2. /\ at' = [at EXCEPT ![j] = at'[j]] /\ at'[j] \in {"committed", "giveup"}
      /\ OthersKeep(j)
  BY <1>1 DEF Go, OthersKeep, IInv, TypeOK
<1>3. /\ jobs[j].item = "game" /\ jobs[j].stage = "commit" /\ OnGame(j)
      /\ jobs[j] \in Job /\ jobs[j].source # p /\ lock = j /\ recovery.job = j
      /\ p \in Places /\ jobs[j].source \in Places
  BY <1>1, Has DEF StepOk, OnGame, Alive, Active, JobOk, LockFits, LockSteps, RecFits, RecSteps, Job
<1>4. /\ dir[jobs[j].source] = latest /\ lib = jobs[j].source /\ manifest[j] \in 0 .. latest
      /\ \/ dir[p] = Absent /\ staging[p] \in {manifest[j], Absent}
         \/ dir[p] = manifest[j] /\ staging[p] = Absent
  BY <1>3, Has DEF GameFor, Copies, Phase
<1>5. manifest[j] # Absent
  BY <1>4 DEF Absent, IInv, TypeOK, Whole
<1>6. dir \in [Places -> Content] /\ staging \in [Places -> Content] /\ Absent \in Content
  BY DEF IInv, TypeOK, Content
<1>7. /\ dir' \in [Places -> Content] /\ staging' \in [Places -> Content]
      /\ dir'[jobs[j].source] = dir[jobs[j].source]
      /\ at'[j] = "committed" => dir'[p] = manifest[j] /\ staging'[p] = Absent
      /\ at'[j] = "giveup" => UNCHANGED <<dir, staging>>
  <2>1. CASE /\ dir[p] # Absent /\ staging[p] = Absent
             /\ UNCHANGED <<dir, staging>> /\ Go(j, "committed")
    BY <1>4, <1>5, <1>6, <2>1 DEF Go, IInv, TypeOK
  <2>2. CASE dir[p] = Absent /\ RenameStaging(p) /\ Go(j, "committed")
    BY <1>3, <1>4, <1>5, <1>6, <2>2 DEF RenameStaging, Go, IInv, TypeOK
  <2>3. CASE UNCHANGED <<dir, staging>> /\ Go(j, "giveup")
    BY <1>6, <2>3 DEF Go, IInv, TypeOK
  <2> QED
    BY <1>1, <2>1, <2>2, <2>3
<1>8. TypeOK'
  BY <1>1, <1>2, <1>7 DEF IInv, TypeOK, Steps
<1>9. JobFits(j)'
  BY <1>1, <1>2, <1>3, Has DEF JobFits, RecFits, LockFits, StepOk, LockSteps, RecSteps, Active, Alive
<1>10. GameFor(j)'
  <2>1. CASE at'[j] = "committed"
    BY <1>1, <1>3, <1>4, <1>7, <2>1 DEF GameFor, Copies, StepFacts, Phase
  <2>2. CASE at'[j] = "giveup"
    BY <1>1, <1>3, <1>4, <1>7, <2>2 DEF GameFor, Copies, StepFacts, Phase
  <2> QED
    BY <1>2, <2>1, <2>2
<1> QED
  BY <1>1, <1>2, <1>3, <1>8, <1>9, <1>10, GameStep DEF IInv, ControlInv, OnGame

\* The part of the downloads when the recovery goes on with their job at the same phase.
LEMMA TreeGoesOn ==
  ASSUME IInv, NEW j \in JobIds, OnLibrary(j), jobs[j].item \in {"downloads", "settings"},
         OthersKeep(j), UNCHANGED library, exhausted => exhausted',
         OnLibrary(j)', jobs'[j].item = jobs[j].item, jobs'[j].target = jobs[j].target,
         Phase(jobs'[j]) = Phase(jobs[j])
  PROVE  TreeInv'
<1>1. tree[dest] = 0 \/ tree[root] # Absent \/ Pending(j)
  BY TreeBefore DEF Pending, OnLibrary
<1>2. Pending(j) => Pending(j)'
  BY DEF Pending
<1> QED
  BY <1>1, <1>2, TreeStays

LEMMA AttemptKeeps ==
  ASSUME IInv, NEW j \in JobIds, Attempt(j)
  PROVE  IInv'
<1> USE DEF files, game, library, control
<1> DEFINE job == jobs[j]
           stage == IF job.stage = "failed" THEN job.failedAt ELSE job.stage
           new == [job EXCEPT !.stage = stage, !.attempts = @ + 1]
<1>1. /\ at[j] = "attempt" /\ UNCHANGED <<files, game, library, lock, sweep, closing, exhausted>>
      /\ job \in Job /\ Alive(job) /\ Phase(job) = stage /\ stage \in {"repoint", "cleanup"}
      /\ recovery.job = j /\ (job.item = "game" => lock = j)
      /\ OnGame(j) <=> job.item = "game"
  BY Has DEF Attempt, StepOk, Phase, RecFits, RecSteps, LockFits, LockSteps, OnGame
<1>2. CASE /\ job.attempts >= MaxRecoveryAttempts
           /\ Go(j, "giveup") /\ UNCHANGED <<jobs, recovery>>
  <2>1. at'[j] = "giveup" /\ OthersKeep(j) /\ TypeOK'
    BY <1>1, <1>2 DEF OthersKeep, Go, IInv, TypeOK, Steps
  <2>2. JobFits(j)'
    BY <1>1, <1>2, <2>1, Has DEF JobFits, RecFits, LockFits, StepOk, LockSteps, RecSteps
  <2>3. ASSUME OnGame(j) PROVE GameFor(j)'
    BY <1>1, <1>2, <2>1, <2>3, Has DEF GameFor, OnGame, Copies, StepFacts
  <2>4. ASSUME OnLibrary(j), job.item \in {"downloads", "settings"}
        PROVE  LibraryFor(j)' /\ TreeInv'
    <3>1. LibraryFor(j)'
      BY <1>1, <1>2, <2>1, <2>4, Has DEF LibraryFor, OnLibrary
    <3> QED
      BY <1>1, <1>2, <2>1, <2>4, <3>1, TreeGoesOn DEF OnLibrary
  <2> QED
    BY <1>1, <1>2, <2>1, <2>2, <2>3, <2>4, JobStep DEF IInv, ControlInv, OnGame
<1>3. ASSUME job.attempts < MaxRecoveryAttempts, recovery' = [recovery EXCEPT !.from = job.stage],
             Transition(j, new, "retry")
      PROVE  IInv'
  <2>1. /\ recovery'.todo = recovery.todo /\ recovery'.job = j /\ recovery'.from = job.stage
        /\ recovery' \in [todo : SUBSET JobIds, job : JobIds \cup {0}, from : Stages]
        /\ job.stage \in {"failed", "repoint", "cleanup"}
    BY <1>1, <1>3 DEF IInv, TypeOK, Job
  <2>2. \E step \in {"retry", "end", "after"} :
          at' = [at EXCEPT ![j] = step] /\ at'[j] = step
    BY <1>3 DEF Transition, Go, Return, IInv, TypeOK
  <2>3. /\ at' = [at EXCEPT ![j] = at'[j]] /\ at'[j] \in {"retry", "end", "after"}
        /\ at'[j] = "retry" => jobs' = [jobs EXCEPT ![j] = new]
        /\ at'[j] # "retry" => UNCHANGED jobs
        /\ at'[j] = "after" => recovery.from # "none"
    BY <1>3, <2>2 DEF Transition, Go, Return, IInv, TypeOK
  <2>4. OthersKeep(j)
    BY <1>1, <2>1, <2>3 DEF OthersKeep, IInv, TypeOK
  <2>5. /\ new \in Job /\ new.stage = stage /\ new.item = job.item /\ new.attempts = job.attempts + 1
        /\ new.source = job.source /\ new.target = job.target /\ new.staging = job.staging
        /\ new.renamed = job.renamed /\ new.failedAt = job.failedAt /\ new.rest = job.rest
        /\ new.scope = job.scope
    <3>1. job.attempts + 1 \in 0 .. MaxRecoveryAttempts
      BY <1>1, <1>3, RelocateConstants DEF Job
    <3> QED
      BY <1>1, <3>1 DEF Job, Stages
  <2>6. Active(new) /\ Alive(new) /\ Phase(new) = stage
    BY <1>1, <2>5 DEF Active, Alive, Phase
  <2> HIDE DEF new
  <2>7. jobs'[j] = job \/ (jobs'[j] = new /\ at'[j] = "retry")
    BY <2>3 DEF IInv, TypeOK
  <2>8. TypeOK'
    BY <1>1, <2>1, <2>3, <2>5 DEF IInv, TypeOK, Steps
  <2>9. /\ jobs'[j] \in Job /\ Alive(jobs'[j]) /\ Phase(jobs'[j]) = stage /\ jobs'[j].item = job.item
        /\ jobs'[j].source = job.source /\ jobs'[j].target = job.target
        /\ jobs'[j].staging = job.staging /\ jobs'[j].renamed = job.renamed
        /\ jobs'[j].scope = job.scope /\ jobs'[j].rest = job.rest
        /\ jobs'[j].attempts >= job.attempts
        /\ at'[j] = "retry" => jobs'[j].attempts >= 1
        /\ jobs'[j].stage = "cancelled" => FALSE
        /\ at'[j] = "retry" => jobs'[j].stage \in {"repoint", "cleanup"}
    <3>1. job.attempts \in Nat
      BY <1>1 DEF Job
    <3>2. at'[j] = "retry" => jobs'[j] = new
      BY <2>3 DEF IInv, TypeOK
    <3> QED
      BY <1>1, <2>1, <2>5, <2>6, <2>7, <3>1, <3>2
  <2>10. JobFits(j)'
    <3>1. JobOk(jobs'[j])
      BY <1>1, <2>9, Has DEF JobOk
    <3>2. StepOk(jobs'[j], at'[j])
      BY <2>3, <2>9 DEF StepOk
    <3>3. RecFits(j)'
      <4>1. at'[j] = "after" => job.attempts >= 1 \/ job.stage = "none"
        BY <1>1, <2>3, Has DEF RecFits
      <4> QED
        BY <1>1, <2>1, <2>3, <2>7, <2>9, <4>1, Has DEF RecFits, RecSteps
    <3>4. LockFits(j)'
      BY <1>1, <2>9 DEF LockFits
    <3> QED
      BY <3>1, <3>2, <3>3, <3>4 DEF JobFits
  <2>11. ~jobs'[j].staging
    BY <1>1, <2>9, Has DEF JobOk
  <2>12. ASSUME OnGame(j) PROVE GameFor(j)'
    <3>1. Copies(job, manifest[j])
      BY <2>12, Has DEF GameFor
    <3>2. Copies(jobs[j], manifest[j])'
      BY <1>1, <2>9, <3>1 DEF Copies
    <3>3. StepFacts(jobs[j], at[j], manifest[j])'
      BY <2>3 DEF StepFacts
    <3> QED
      BY <2>3, <3>2, <3>3 DEF GameFor
  <2>13. ASSUME OnLibrary(j), job.item \in {"downloads", "settings"}
         PROVE  LibraryFor(j)' /\ TreeInv'
    <3>1. LibraryFor(j)'
      BY <1>1, <2>3, <2>9, <2>13, Has DEF LibraryFor, OnLibrary
    <3> QED
      BY <1>1, <2>4, <2>9, <2>13, <3>1, TreeGoesOn DEF OnLibrary
  <2> QED
    BY <1>1, <2>1, <2>3, <2>4, <2>8, <2>9, <2>10, <2>11, <2>12, <2>13, JobStep DEF OnGame
<1> QED
  <2>1. job.attempts >= MaxRecoveryAttempts \/ job.attempts < MaxRecoveryAttempts
    BY <1>1, RelocateConstants DEF Job
  <2> QED
    BY <1>2, <1>3, <2>1 DEF Attempt

\* The checks of repointSafe, for a game ...
LEMMA RetryRepointOfGame ==
  ASSUME IInv, NEW j \in JobIds, RetryRepoint(j), jobs[j].item = "game"
  PROVE  IInv'
<1> USE DEF files, game, library, control
<1> DEFINE S == dir[jobs[j].source]
           T == dir[jobs[j].target]
           M == manifest[j]
<1>1. /\ at[j] = "retry" /\ jobs[j].stage = "repoint" /\ OnGame(j) /\ jobs[j] \in Job
      /\ recovery.job = j /\ lock = j /\ jobs[j].source # jobs[j].target
      /\ jobs[j].target \in Places
      /\ UNCHANGED <<staging, manifest, game, library, control, jobs>>
  BY Has DEF RetryRepoint, Alive, Active, RecFits, RecSteps, LockFits, LockSteps, OnGame, JobOk, Job
<1>2. Copies(jobs[j], manifest[j]) /\ latest \in Whole /\ latest # Absent
  BY <1>1, Has DEF GameFor, IInv, TypeOK, Whole, Absent
<1>3. \E step \in {"repoint", "giveup", "after", "fail"} :
        /\ Go(j, step)
        /\ step = "repoint" => /\ UNCHANGED dir
                               /\ jobs[j].renamed \/ S = Absent \/ (S = M /\ T = M)
        /\ \/ UNCHANGED dir
           \/ step = "giveup" /\ S # M /\ lib # jobs[j].target
              /\ \E left \in {Absent, Partial} : dir' = [dir EXCEPT ![jobs[j].target] = left]
        /\ step = "giveup" => ~jobs[j].renamed /\ S # Absent
  BY <1>1 DEF RetryRepoint, Interrupted, SourceChanged, Exists
<1>4. PICK step \in {"repoint", "giveup", "after", "fail"} :
        /\ Go(j, step)
        /\ step = "repoint" => /\ UNCHANGED dir
                               /\ jobs[j].renamed \/ S = Absent \/ (S = M /\ T = M)
        /\ \/ UNCHANGED dir
           \/ step = "giveup" /\ S # M /\ lib # jobs[j].target
              /\ \E left \in {Absent, Partial} : dir' = [dir EXCEPT ![jobs[j].target] = left]
        /\ step = "giveup" => ~jobs[j].renamed /\ S # Absent
  BY <1>3
<1>5. at'[j] = step /\ OthersKeep(j)
  BY <1>1, <1>4 DEF Go, OthersKeep, IInv, TypeOK
<1>6. TypeOK'
  BY <1>1, <1>4 DEF IInv, TypeOK, Steps, Content, Go
<1>7. JobFits(j)'
  BY <1>1, <1>5, Has DEF JobFits, RecFits, LockFits, StepOk, LockSteps, RecSteps, Active, Alive, OnGame
<1>8. GameFor(j)'
  <2>1. Copies(jobs[j], manifest[j])'
    <3>1. CASE UNCHANGED dir
      BY <1>1, <1>2, <3>1 DEF Copies
    <3>2. CASE /\ step = "giveup" /\ S # M /\ lib # jobs[j].target
               /\ \E left \in {Absent, Partial} : dir' = [dir EXCEPT ![jobs[j].target] = left]
      <4>1. ~jobs[j].renamed /\ M \in 0 .. latest /\ lib = jobs[j].source /\ S = latest
        BY <1>1, <1>2, <1>4, <3>2 DEF Copies, Phase
      <4>2. dir'[jobs[j].source] = S /\ dir'[jobs[j].target] \in {Absent, Partial}
        BY <1>1, <3>2 DEF IInv, TypeOK, Job
      <4>3. M < latest
        BY <1>2, <3>2, <4>1 DEF Whole, RelocateConstants
      <4> QED
        BY <1>1, <4>1, <4>2, <4>3 DEF Copies, Phase
    <3> QED
      BY <1>4, <3>1, <3>2
  <2>2. step = "repoint" => T = latest /\ UNCHANGED dir
    BY <1>1, <1>2, <1>4 DEF Copies, Phase
  <2>3. step = "giveup" => dir'[lib] = latest
    <3>1. step = "giveup" => dir[lib] = latest
      BY <1>1, <1>2, <1>4 DEF Copies, Phase
    <3>2. lib \in Places /\ dir \in [Places -> Content]
      BY DEF IInv, TypeOK
    <3> QED
      BY <1>4, <3>1, <3>2
  <2>4. StepFacts(jobs[j], at[j], manifest[j])'
    BY <1>1, <1>5, <2>2, <2>3 DEF StepFacts
  <2> QED
    BY <1>1, <1>5, <2>1, <2>4 DEF GameFor
<1> QED
  BY <1>1, <1>5, <1>6, <1>7, <1>8, GameStep DEF IInv, ControlInv, OnGame

\* ... and for the downloads and the settings.
LEMMA RetryRepointOfLibrary ==
  ASSUME IInv, NEW j \in JobIds, RetryRepoint(j), jobs[j].item # "game"
  PROVE  IInv'
<1> USE DEF files, game, library, control
<1>1. /\ at[j] = "retry" /\ jobs[j].stage = "repoint" /\ Alive(jobs[j]) /\ Active(jobs[j])
      /\ recovery.job = j /\ OnLibrary(j) /\ jobs[j].item \in {"downloads", "settings"}
      /\ UNCHANGED <<staging, manifest, game, library, control, jobs>>
  BY Has DEF RetryRepoint, Alive, Active, RecFits, RecSteps, OnLibrary, JobOk, Job, Items
<1>2. \E step \in {"tree", "root", "giveup"} :
        /\ Go(j, step) /\ UNCHANGED dir
        /\ step = "root" => jobs[j].item = "settings"
        /\ step # "root" => jobs[j].item = "downloads"
        /\ step = "giveup" => Exists(jobs[j], jobs[j].source)
  BY <1>1 DEF RetryRepoint
<1>3. PICK step \in {"tree", "root", "giveup"} :
        /\ Go(j, step) /\ UNCHANGED dir
        /\ step = "root" => jobs[j].item = "settings"
        /\ step # "root" => jobs[j].item = "downloads"
        /\ step = "giveup" => Exists(jobs[j], jobs[j].source)
  BY <1>2
<1>4. at'[j] = step /\ OthersKeep(j) /\ TypeOK'
  BY <1>1, <1>3 DEF Go, OthersKeep, IInv, TypeOK, Steps
<1>5. JobFits(j)'
  BY <1>1, <1>3, <1>4, Has DEF JobFits, RecFits, LockFits, StepOk, LockSteps, RecSteps
<1>6. LibraryFor(j)'
  <2>1. step = "giveup" => tree[root] # Absent
    BY <1>1, <1>3, Has DEF LibraryFor, Exists
  <2> QED
    BY <1>1, <1>4, <2>1, Has DEF LibraryFor, OnLibrary
<1>7. TreeInv'
  BY <1>1, <1>4, TreeGoesOn DEF OnLibrary
<1> QED
  BY <1>1, <1>3, <1>4, <1>5, <1>6, <1>7, LibraryStep DEF IInv, ControlInv

LEMMA RetryRepointKeeps ==
  ASSUME IInv, NEW j \in JobIds, RetryRepoint(j)
  PROVE  IInv'
BY RetryRepointOfGame, RetryRepointOfLibrary

LEMMA RetryCleanupKeeps ==
  ASSUME IInv, NEW j \in JobIds, RetryCleanup(j)
  PROVE  IInv'
<1> USE DEF files, game, library, control
<1>1. /\ at[j] = "retry" /\ jobs[j].stage = "cleanup" /\ Alive(jobs[j]) /\ Active(jobs[j])
      /\ recovery.job = j /\ Phase(jobs[j]) = "cleanup"
      /\ jobs[j].item = "game" => OnGame(j) /\ lock = j
      /\ jobs[j].item = "game" \/ (jobs[j].item = "downloads" /\ OnLibrary(j))
      /\ UNCHANGED <<files, game, library, control, jobs>>
  BY Has DEF RetryCleanup, Alive, Active, Phase, RecFits, RecSteps, LockFits, LockSteps, OnLibrary,
             OnGame, JobOk, Job, Items
<1>2. \E step \in {"removed", "giveup", "after", "fail", "remove"} :
        /\ Go(j, step)
        /\ step = "removed" => \/ jobs[j].item # "game" \/ jobs[j].renamed
                               \/ dir[jobs[j].source] = Absent
        /\ step # "removed" => jobs[j].item = "game"
  BY <1>1 DEF RetryCleanup, Interrupted
<1>3. PICK step \in {"removed", "giveup", "after", "fail", "remove"} :
        /\ Go(j, step)
        /\ step = "removed" => \/ jobs[j].item # "game" \/ jobs[j].renamed
                               \/ dir[jobs[j].source] = Absent
        /\ step # "removed" => jobs[j].item = "game"
  BY <1>2
<1>4. at'[j] = step /\ OthersKeep(j) /\ TypeOK'
  BY <1>1, <1>3 DEF Go, OthersKeep, IInv, TypeOK, Steps
<1>5. JobFits(j)'
  BY <1>1, <1>3, <1>4, Has DEF JobFits, RecFits, LockFits, StepOk, LockSteps, RecSteps
<1>6. ASSUME OnGame(j) PROVE GameFor(j)'
  <2>1. Copies(jobs[j], manifest[j])
    BY <1>6, Has DEF GameFor
  <2>2. /\ dir[lib] = latest
        /\ step = "removed" => dir[jobs[j].source] = Absent
    BY <1>1, <1>3, <1>6, <2>1 DEF Copies, OnGame
  <2> QED
    BY <1>1, <1>4, <1>6, <2>1, <2>2 DEF GameFor, OnGame, Copies, StepFacts
<1>7. ASSUME OnLibrary(j), jobs[j].item \in {"downloads", "settings"}
      PROVE  LibraryFor(j)' /\ TreeInv'
  <2>1. LibraryFor(j)'
    BY <1>1, <1>3, <1>4, <1>7, Has DEF LibraryFor, OnLibrary
  <2> QED
    BY <1>1, <1>4, <1>7, <2>1, TreeGoesOn DEF OnLibrary
<1> QED
  BY <1>1, <1>3, <1>4, <1>5, <1>6, <1>7, JobStep DEF IInv, ControlInv, OnGame

\* A job that is given up for good: it says so when its attempts are spent.
LEMMA GivesUpForGood ==
  ASSUME IInv, NEW j \in JobIds, Alive(jobs[j]), ~Alive(jobs'[j]), OthersKeep(j), TypeOK', JobFits(j)',
         UNCHANGED <<files, game, library, recovery, sweep>>, exhausted => exhausted',
         jobs[j].attempts >= MaxRecoveryAttempts => exhausted',
         OnGame(j) => dir[lib] = latest \/ jobs[j].attempts >= MaxRecoveryAttempts,
         OnLibrary(j) /\ jobs[j].item = "downloads" =>
           tree[dest] = 0 \/ tree[root] # Absent \/ jobs[j].attempts >= MaxRecoveryAttempts,
         at'[j] \notin {"dest", "treeremove"}
  PROVE  IInv'
<1> USE DEF files, game, library
<1>1. ~OnGame(j)' /\ ~OnLibrary(j)' /\ ~Active(jobs'[j])
  BY DEF OnGame, OnLibrary, Alive
<1>2. ASSUME OnGame(j) PROVE GameFor(j)' /\ (~OnGame(j)' => Rested')
  BY <1>1, <1>2, GivenUp DEF GameFor
<1>3. ASSUME OnLibrary(j), jobs[j].item \in {"downloads", "settings"}
      PROVE  LibraryFor(j)' /\ TreeInv'
  <2>1. tree[dest] = 0 \/ tree[root] # Absent \/ exhausted'
    BY <1>3, Has DEF LibraryFor
  <2> QED
    BY <1>1, <1>3, <2>1, TreeStays DEF LibraryFor
<1> QED
  BY <1>1, <1>2, <1>3, JobStep DEF IInv, ControlInv

LEMMA GiveUpKeeps ==
  ASSUME IInv, NEW j \in JobIds, GiveUp(j)
  PROVE  IInv'
<1> USE DEF files, game, library, control
<1> DEFINE new == [jobs[j] EXCEPT !.stage = "failed", !.failedAt = "none"]
<1>1. /\ at[j] = "giveup" /\ UNCHANGED <<files, game, library, lock, recovery, sweep, closing>>
      /\ exhausted' = (exhausted \/ jobs[j].attempts >= MaxRecoveryAttempts)
      /\ jobs[j] \in Job /\ Alive(jobs[j]) /\ recovery.job = j
  BY Has DEF GiveUp, StepOk, RecFits, RecSteps
<1>2. /\ at' = [at EXCEPT ![j] = Return(j)] /\ at'[j] = Return(j) /\ Return(j) \in {"end", "after"}
      /\ jobs' = [jobs EXCEPT ![j] = new] \/ UNCHANGED jobs
  BY DEF GiveUp, Transition, Go, Return, IInv, TypeOK
<1>3. /\ new \in Job /\ new.stage = "failed" /\ new.failedAt = "none" /\ new.attempts = jobs[j].attempts
      /\ new.item = jobs[j].item
  BY <1>1 DEF Job, Stages
<1> HIDE DEF new
<1>4. jobs'[j] = new \/ jobs'[j] = jobs[j]
  BY <1>2 DEF IInv, TypeOK
<1>5. OthersKeep(j)
  BY <1>1, <1>2 DEF OthersKeep, IInv, TypeOK
<1>6. TypeOK'
  <2>1. exhausted' \in BOOLEAN
    BY <1>1
  <2>2. jobs' \in [JobIds -> Job] /\ at' \in [JobIds -> Steps]
    BY <1>2, <1>3 DEF IInv, TypeOK, Steps
  <2> QED
    BY <1>1, <2>1, <2>2 DEF IInv, TypeOK
<1>7. ~Alive(new) /\ exhausted => exhausted'
  BY <1>1, <1>3 DEF Alive, Active, Resumable
<1>8. JobFits(j)'
  <2>1. JobOk(jobs'[j])
    BY <1>3, <1>4, Has DEF JobOk, Alive, Active, Resumable
  <2>2. StepOk(jobs'[j], at'[j])
    BY <1>2 DEF StepOk
  <2>3. RecFits(j)' /\ LockFits(j)'
    BY <1>1, <1>2, <1>3, <1>4, Has DEF RecFits, LockFits, LockSteps, RecSteps, Alive, Active, Resumable
  <2> QED
    BY <2>1, <2>2, <2>3 DEF JobFits
<1>9. CASE jobs'[j] = new
  <2>1. ~Alive(jobs'[j])
    BY <1>3, <1>9 DEF Alive, Active, Resumable
  <2>2. OnGame(j) => dir[lib] = latest \/ jobs[j].attempts >= MaxRecoveryAttempts
    BY <1>1, Has DEF GameFor, StepFacts
  <2>3. OnLibrary(j) /\ jobs[j].item = "downloads" =>
           tree[dest] = 0 \/ tree[root] # Absent \/ jobs[j].attempts >= MaxRecoveryAttempts
    BY <1>1, Has DEF LibraryFor
  <2> QED
    BY <1>1, <1>2, <1>5, <1>6, <1>8, <2>1, <2>2, <2>3, GivesUpForGood
<1>10. CASE jobs'[j] = jobs[j]
  <2>1. ASSUME OnGame(j) PROVE GameFor(j)'
    BY <1>1, <1>2, <1>10, <2>1, Has DEF GameFor, OnGame, Copies, StepFacts
  <2>2. ASSUME OnLibrary(j), jobs[j].item \in {"downloads", "settings"}
        PROVE  LibraryFor(j)' /\ TreeInv'
    <3>1. LibraryFor(j)'
      BY <1>1, <1>2, <1>10, <2>2, Has DEF LibraryFor, OnLibrary
    <3> QED
      BY <1>1, <1>5, <1>10, <2>2, <3>1, TreeGoesOn DEF OnLibrary
  <2> QED
    BY <1>1, <1>2, <1>5, <1>6, <1>8, <1>10, <2>1, <2>2, JobStep DEF IInv, ControlInv, OnGame
<1> QED
  BY <1>4, <1>9, <1>10

LEMMA AfterKeeps ==
  ASSUME IInv, NEW j \in JobIds, After(j)
  PROVE  IInv'
<1> USE DEF files, game, library, control
<1> DEFINE job == jobs[j]
           stage == IF recovery.from = "failed" THEN job.failedAt ELSE recovery.from
           spent == job.attempts >= MaxRecoveryAttempts
           back == [job EXCEPT !.stage = recovery.from, !.attempts = @ - 1]
           mark == IF spent THEN "none" ELSE stage
           failed == [job EXCEPT !.stage = "failed", !.failedAt = mark]
<1>1. /\ at[j] = "after" /\ UNCHANGED <<files, game, library, lock, recovery, sweep, closing>>
      /\ exhausted' = (exhausted \/ spent) /\ recovery.job = j /\ job \in Job
      /\ at' = [at EXCEPT ![j] = "end"] /\ at'[j] = "end"
      /\ recovery.from \in {"none", "repoint", "cleanup", "failed"}
  BY Has DEF After, Go, RecFits, RecSteps, IInv, TypeOK, ControlInv
<1>2. \/ UNCHANGED jobs
      \/ /\ stage # "none" /\ job.stage = stage
         /\ jobs' = [jobs EXCEPT ![j] = IF closing THEN back ELSE failed]
  BY DEF After
<1>3. OthersKeep(j)
  BY <1>1, <1>2 DEF OthersKeep, IInv, TypeOK
<1>4. ASSUME NEW new \in Job, jobs' = [jobs EXCEPT ![j] = new],
             new.item = job.item, new.source = job.source, new.target = job.target,
             new.scope = job.scope, new.rest = job.rest, new.staging = job.staging,
             new.renamed = job.renamed, new.stage # "cancelled",
             Active(new) => Active(job),
             Alive(new) => Alive(job) /\ Phase(new) = Phase(job) /\ job.item # "none",
             Alive(job) /\ ~Alive(new) => spent
      PROVE  IInv'
  <2>1. jobs'[j] = new
    BY <1>4 DEF IInv, TypeOK
  <2>2. TypeOK'
    <3>1. exhausted' \in BOOLEAN
      BY <1>1
    <3> QED
      BY <1>1, <1>4, <3>1 DEF IInv, TypeOK, Steps
  <2>3. JobFits(j)'
    <3>1. JobOk(new)
      BY <1>4, Has DEF JobOk
    <3>2. StepOk(jobs'[j], at'[j]) /\ RecFits(j)' /\ LockFits(j)'
      BY <1>1, Has DEF StepOk, RecFits, LockFits, LockSteps, RecSteps
    <3> QED
      BY <2>1, <3>1, <3>2 DEF JobFits
  <2>4. CASE Alive(job) /\ ~Alive(new)
    BY <1>1, <1>3, <1>4, <2>1, <2>2, <2>3, <2>4, GivesUpForGood
  <2>5. CASE ~(Alive(job) /\ ~Alive(new))
    <3>1. ASSUME OnGame(j) PROVE OnGame(j)' /\ GameFor(j)'
      BY <1>1, <1>4, <2>1, <2>5, <3>1, Has DEF GameFor, OnGame, Copies, StepFacts
    <3>2. ASSUME OnLibrary(j), jobs[j].item \in {"downloads", "settings"}
          PROVE  LibraryFor(j)' /\ TreeInv'
      <4>1. OnLibrary(j)'
        BY <1>4, <2>1, <2>5, <3>2 DEF OnLibrary
      <4>2. LibraryFor(j)'
        BY <1>1, <1>4, <2>1, <2>5, <3>2, Has DEF LibraryFor, OnLibrary
      <4> QED
        BY <1>1, <1>3, <1>4, <2>1, <2>5, <3>2, <4>1, <4>2, TreeGoesOn DEF OnLibrary
    <3> QED
      BY <1>1, <1>3, <1>4, <2>1, <2>2, <2>3, <2>5, <3>1, <3>2, JobStep
  <2> QED
    BY <2>4, <2>5
<1>5. CASE UNCHANGED jobs
  <2>1. TypeOK'
    <3>1. exhausted' \in BOOLEAN
      BY <1>1
    <3> QED
      BY <1>1, <1>5, <3>1 DEF IInv, TypeOK, Steps
  <2>2. JobFits(j)'
    BY <1>1, <1>5, Has DEF JobFits, StepOk, RecFits, LockFits, LockSteps, RecSteps
  <2>3. ASSUME OnGame(j) PROVE OnGame(j)' /\ GameFor(j)'
    BY <1>1, <1>5, <2>3, Has DEF GameFor, OnGame, Copies, StepFacts
  <2>4. ASSUME OnLibrary(j), jobs[j].item \in {"downloads", "settings"}
        PROVE  LibraryFor(j)' /\ TreeInv'
    <3>1. OnLibrary(j)' /\ LibraryFor(j)'
      BY <1>1, <1>5, <2>4, Has DEF LibraryFor, OnLibrary
    <3> QED
      BY <1>1, <1>3, <1>5, <2>4, <3>1, TreeGoesOn
  <2> QED
    BY <1>1, <1>3, <1>5, <2>1, <2>2, <2>3, <2>4, JobStep
<1>6. CASE /\ stage # "none" /\ job.stage = stage
           /\ jobs' = [jobs EXCEPT ![j] = IF closing THEN back ELSE failed]
  <2>1. /\ stage \in {"repoint", "cleanup"} /\ Active(job) /\ Alive(job) /\ Phase(job) = stage
        /\ job.attempts \in Nat /\ job.attempts >= 1 /\ job.attempts - 1 \in 0 .. MaxRecoveryAttempts
        /\ recovery.from \in {"repoint", "cleanup", "failed"}
        /\ recovery.from = "failed" => job.failedAt = stage
        /\ recovery.from # "failed" => recovery.from = stage
        /\ job.item # "none"
    <3>1. stage \in {"repoint", "cleanup"} /\ recovery.from \in {"repoint", "cleanup", "failed"}
      BY <1>1, <1>6 DEF Job
    <3>2. job.attempts >= 1
      BY <1>1, <1>6, <3>1, Has DEF RecFits
    <3> QED
      BY <1>1, <1>6, <3>1, <3>2, RelocateConstants, Has DEF Active, Alive, Phase, Job, JobOk
  <2>2. CASE closing
    <3>1. /\ back \in Job /\ back.stage = recovery.from /\ back.failedAt = job.failedAt
          /\ back.item = job.item /\ back.source = job.source /\ back.target = job.target
          /\ back.scope = job.scope /\ back.rest = job.rest /\ back.staging = job.staging
          /\ back.renamed = job.renamed
      BY <1>1, <2>1 DEF Job, Stages
    <3>2. Alive(back) /\ Phase(back) = stage
      BY <2>1, <3>1 DEF Alive, Active, Resumable, Phase
    <3> HIDE DEF back
    <3> QED
      BY <1>4, <1>6, <2>1, <2>2, <3>1, <3>2
  <2>3. CASE ~closing
    <3>1. /\ failed \in Job /\ failed.stage = "failed"
          /\ failed.failedAt = mark
          /\ failed.item = job.item /\ failed.source = job.source /\ failed.target = job.target
          /\ failed.scope = job.scope /\ failed.rest = job.rest /\ failed.staging = job.staging
          /\ failed.renamed = job.renamed
      <4>1. mark \in {"none", "repoint", "cleanup"}
        BY <2>1
      <4> HIDE DEF mark
      <4> QED
        BY <1>1, <4>1 DEF Job, Stages
    <3>2. /\ ~Active(failed) /\ (Alive(failed) <=> ~spent)
          /\ Alive(failed) => Phase(failed) = stage
      BY <2>1, <3>1 DEF Alive, Active, Resumable, Phase
    <3> HIDE DEF failed
    <3> QED
      BY <1>4, <1>6, <2>1, <2>3, <3>1, <3>2
  <2> QED
    BY <2>2, <2>3
<1> QED
  BY <1>2, <1>5, <1>6

----------------------------------------------------------------------------
(* A new move *)

LEMMA NobodyAlive ==
  ASSUME IInv, Settled, NEW k \in JobIds, Alive(jobs[k])
  PROVE  Active(jobs[k])
BY DEF Settled, Alive

LEMMA NewJobFits ==
  ASSUME IInv, NEW j \in JobIds, Fresh(j), NEW new \in Job, NEW step \in {"start", "next"},
         jobs' = [jobs EXCEPT ![j] = new], Go(j, step), lock' = j \/ (lock' = lock /\ step = "next"),
         lock = 0 \/ lock' = lock, JobOk(new), StepOk(new, step),
         UNCHANGED <<files, game, library, recovery, sweep, closing, exhausted>>
  PROVE  /\ jobs'[j] = new /\ at'[j] = step /\ OthersKeep(j) /\ TypeOK' /\ JobFits(j)'
         /\ ~Alive(jobs[j])
<1> USE DEF files, game, library
<1>1. jobs'[j] = new /\ at'[j] = step /\ jobs[j].stage = "none" /\ at[j] = "idle" /\ j # 0
  BY RelocateConstants DEF Go, IInv, TypeOK, Fresh
<1>2. OthersKeep(j)
  BY RelocateConstants DEF OthersKeep, Go, IInv, TypeOK
<1>3. TypeOK'
  BY DEF IInv, TypeOK, Go, Steps
<1>4. recovery.job # j /\ j \notin recovery.todo
  BY <1>1, Has DEF RecFits
<1>5. RecFits(j)' /\ LockFits(j)'
  BY <1>1, <1>4 DEF RecFits, LockFits, RecSteps, LockSteps
<1>6. ~Alive(jobs[j])
  BY <1>1 DEF Alive, Active, Resumable
<1> QED
  BY <1>1, <1>2, <1>3, <1>5, <1>6 DEF JobFits

LEMMA MoveGameKeeps ==
  ASSUME IInv, OneAtATime, NEW j \in JobIds, NEW target \in Places, MoveGame(j, target)
  PROVE  IInv'
<1> USE DEF files, game, library
<1> DEFINE new == NewJob("game", "game", lib, target, 0)
<1>1. /\ Fresh(j) /\ lock = 0 /\ dir[lib] # Absent /\ target # lib
      /\ \A k \in JobIds : Active(jobs[k]) => jobs[k].item = "downloads"
      /\ Settled /\ jobs' = [jobs EXCEPT ![j] = new]
      /\ lock' = j /\ Go(j, "start")
      /\ UNCHANGED <<files, game, library, recovery, sweep, closing, exhausted>>
  BY DEF MoveGame, OneAtATime
<1>2. /\ new.item = "game" /\ new.scope = "game" /\ new.stage = "prepare" /\ new.source = lib
      /\ new.target = target /\ new.rest = 0 /\ ~new.staging /\ ~new.renamed
      /\ new.failedAt = "none"
  BY DEF NewJob
<1>3. new \in Job
  BY NewJobRecord DEF IInv, TypeOK, Items
<1> HIDE DEF new
<1>4. Active(new) /\ Alive(new) /\ Phase(new) = "prepare"
  BY <1>2 DEF Active, Alive, Phase
<1>5. JobOk(new) /\ StepOk(new, "start")
  BY <1>1, <1>2, <1>4 DEF JobOk, StepOk
<1>6. /\ jobs'[j] = new /\ at'[j] = "start" /\ OthersKeep(j) /\ TypeOK' /\ JobFits(j)'
      /\ ~Alive(jobs[j])
  BY <1>1, <1>3, <1>5, NewJobFits
<1>7. \A k \in JobIds : Alive(jobs[k]) => jobs[k].item = "downloads"
  BY <1>1, NobodyAlive
<1>8. ControlInv'
  <2>1. ASSUME NEW k \in JobIds PROVE JobFits(k)'
    <3>1. CASE k # j
      <4>1. JobFits(k)
        BY DEF IInv, ControlInv
      <4> QED
        BY <1>6, <3>1, <4>1 DEF OthersKeep, JobFits, LockFits, RecFits
    <3> QED
      BY <1>6, <3>1
  <2>2. OneOnGame' /\ OneOnLibrary'
    BY <1>2, <1>6, <1>7 DEF OneOnGame, OneOnLibrary, OnLibrary, OthersKeep, IInv, ControlInv
  <2> QED
    BY <1>1, <2>1, <2>2 DEF IInv, ControlInv
<1>9. dir[lib] = latest
  BY <1>1, <1>7 DEF IInv, GameInv, Rest, Rested, OnGame
<1>10. GameInv'
  <2>1. \A k \in JobIds \ {j} : ~OnGame(k)'
    BY <1>6, <1>7 DEF OnGame, OthersKeep
  <2>2. GameFor(j)'
    BY <1>1, <1>2, <1>4, <1>6, <1>9 DEF GameFor, Copies, StepFacts
  <2>3. OnGame(j)'
    BY <1>2, <1>4, <1>6 DEF OnGame
  <2> QED
    BY <2>1, <2>2, <2>3 DEF GameInv, Rest, GameFor
<1>11. SweepInv'
  BY <1>1, <1>2, <1>6, SweepStep DEF IInv
<1>12. LibraryInv'
  BY <1>1, <1>2, <1>6, LibraryOther DEF IInv, OnLibrary
<1> QED
  BY <1>6, <1>8, <1>10, <1>11, <1>12 DEF IInv

LEMMA MoveLibraryKeeps ==
  ASSUME IInv, OneAtATime, NEW j \in JobIds, NEW target \in Places, MoveLibrary(j, target)
  PROVE  IInv'
<1> USE DEF files, game, library, control
<1> DEFINE new == NewJob("library", "none", root, target, 3)
<1>1. /\ Fresh(j) /\ target \in Roots \ {root}
      /\ \A k \in JobIds : ~Active(jobs[k])
      /\ Settled /\ Mends(target) /\ jobs' = [jobs EXCEPT ![j] = new]
      /\ Go(j, "next") /\ UNCHANGED <<files, game, library, control>>
  BY DEF MoveLibrary, OneAtATime
<1>2. /\ new.item = "none" /\ new.scope = "library" /\ new.stage = "prepare" /\ new.source = root
      /\ new.target = target /\ new.rest = 3 /\ ~new.staging /\ ~new.renamed
      /\ new.failedAt = "none"
  BY DEF NewJob
<1>3. new \in Job
  BY NewJobRecord, RelocateConstants DEF IInv, TypeOK, Items
<1> HIDE DEF new
<1>4. Active(new) /\ Alive(new) /\ Phase(new) = "prepare"
  BY <1>2 DEF Active, Alive, Phase
<1>5. JobOk(new) /\ StepOk(new, "next")
  BY <1>1, <1>2, <1>4 DEF JobOk, StepOk
<1>6. /\ jobs'[j] = new /\ at'[j] = "next" /\ OthersKeep(j) /\ TypeOK' /\ JobFits(j)'
      /\ ~Alive(jobs[j])
  BY <1>1, <1>3, <1>5, NewJobFits
<1>7. \A k \in JobIds : ~Alive(jobs[k])
  BY <1>1, NobodyAlive
<1>8. \A k \in JobIds \ {j} : ~Alive(jobs'[k])
  BY <1>6, <1>7 DEF OthersKeep
<1>9. ControlInv'
  <2>1. ASSUME NEW k \in JobIds PROVE JobFits(k)'
    <3>1. CASE k # j
      <4>1. JobFits(k)
        BY DEF IInv, ControlInv
      <4> QED
        BY <1>6, <3>1, <4>1 DEF OthersKeep, JobFits, LockFits, RecFits
    <3> QED
      BY <1>6, <3>1
  <2>2. OneOnGame' /\ OneOnLibrary'
    BY <1>8 DEF OneOnGame, OneOnLibrary, OnLibrary
  <2> QED
    BY <1>1, <2>1, <2>2 DEF IInv, ControlInv
<1>10. dir[lib] = latest
  BY <1>1, <1>7 DEF IInv, GameInv, Rest, Rested, OnGame, Settled
<1>11. GameInv'
  BY <1>1, <1>2, <1>6, <1>8, <1>10 DEF GameInv, GameFor, OnGame, Rest, Rested
<1>12. SweepInv'
  BY <1>1, <1>2, <1>6, SweepStep DEF IInv
<1>13. LibraryInv'
  <2>1. \A k \in JobIds : LibraryFor(k)'
    BY <1>1, <1>2, <1>6, <1>8 DEF LibraryFor, OnLibrary
  <2>2. TreeInv'
    <3>1. CASE tree[dest] = 0
      BY <1>1, <3>1 DEF TreeInv
    <3>2. CASE Halfway
      <4>1. tree[root] = Partial
        BY <1>1, <1>7, <3>2 DEF Halfway, Settled, Pending, OnLibrary
      <4>2. tree[target] = 0 /\ tree[root] # Absent
        BY <1>1, <4>1 DEF Mends, Absent, Partial
      <4> QED
        BY <1>1, <1>2, <1>6, <1>8, <3>2, <4>1, <4>2 DEF TreeInv, Halfway, OnLibrary
    <3> QED
      BY <3>1, <3>2 DEF IInv, LibraryInv, TreeInv
  <2> QED
    BY <2>1, <2>2 DEF LibraryInv
<1> QED
  BY <1>6, <1>9, <1>11, <1>12, <1>13 DEF IInv

----------------------------------------------------------------------------
(* What happens around the moves *)

\* A step that touches nothing of the invariant but the files of the game and its lock.
LEMMA ControlSame ==
  ASSUME ControlInv, UNCHANGED <<jobs, at, lock, recovery>>
  PROVE  ControlInv'
BY DEF ControlInv, JobFits, RecFits, LockFits, OneOnGame, OneOnLibrary, OnLibrary

LEMMA LibrarySame ==
  ASSUME LibraryInv, UNCHANGED <<jobs, at, tree, dest, root, exhausted>>
  PROVE  LibraryInv'
BY DEF LibraryInv, LibraryFor, OnLibrary, TreeInv, Halfway, Pending

LEMMA GameSame ==
  ASSUME GameInv, UNCHANGED <<jobs, at, dir, staging, manifest, lib, latest, exhausted>>,
         \A k \in JobIds : recovery.job = k => recovery'.job = k
  PROVE  GameInv'
<1>1. ASSUME NEW k \in JobIds PROVE GameFor(k)'
  <2>1. GameFor(k)
    BY DEF GameInv
  <2> QED
    BY <2>1 DEF GameFor, OnGame, Copies, StepFacts
<1>2. Rest'
  BY DEF GameInv, Rest, Rested, LatestKept, OnGame
<1> QED
  BY <1>1, <1>2 DEF GameInv

LEMMA StartGameKeeps ==
  ASSUME IInv, StartGame
  PROVE  IInv'
<1> USE DEF files, library, control
<1>1. /\ lock = 0 /\ dir[lib] \in Whole
      /\ UNCHANGED <<lib, staging, manifest, library, control, jobs, at>>
      /\ lib \in Places /\ dir \in [Places -> Content] /\ latest \in Whole
      /\ dir[lib] # Absent
  BY DEF StartGame, IInv, TypeOK, Whole, Absent
<1>2. \/ UNCHANGED <<latest, dir>>
      \/ latest' = latest + 1 /\ latest < MaxPlays /\ dir' = [dir EXCEPT ![lib] = latest']
  BY DEF StartGame
<1>3. /\ latest' \in Whole /\ dir' \in [Places -> Content] /\ latest' >= latest
      /\ \A p \in Places \ {lib} : dir'[p] = dir[p]
      /\ dir[lib] = latest => dir'[lib] = latest'
      /\ UNCHANGED dir \/ dir'[lib] = latest'
      /\ dir'[lib] \in Whole
  <2>1. CASE UNCHANGED <<latest, dir>>
    BY <1>1, <2>1 DEF Whole
  <2>2. CASE latest' = latest + 1 /\ latest < MaxPlays /\ dir' = [dir EXCEPT ![lib] = latest']
    <3>1. latest' \in Whole /\ latest' >= latest
      BY <1>1, <2>2, RelocateConstants DEF Whole
    <3> QED
      BY <1>1, <2>2, <3>1 DEF Content
  <2> QED
    BY <1>2, <2>1, <2>2
<1>4. TypeOK'
  <2>1. running' = TRUE
    BY DEF StartGame
  <2> QED
    BY <1>1, <1>3, <2>1 DEF IInv, TypeOK
<1>5. ControlInv' /\ LibraryInv' /\ SweepInv'
  BY <1>1, ControlSame, LibrarySame DEF IInv, SweepInv, InUse
<1>6. ASSUME NEW k \in JobIds, OnGame(k) PROVE GameFor(k)'
  <2> DEFINE S == dir[jobs[k].source]
             T == dir[jobs[k].target]
             M == manifest[k]
  <2>1. /\ Copies(jobs[k], M) /\ StepFacts(jobs[k], at[k], M) /\ at[k] \notin LockSteps
        /\ jobs[k].source # jobs[k].target /\ jobs[k].source \in Places /\ jobs[k].target \in Places
        /\ StepOk(jobs[k], at[k]) /\ Phase(jobs[k]) # "none"
        /\ jobs[k].item = "game"
    BY <1>1, <1>6, RelocateConstants, Has
    DEF GameFor, OnGame, LockFits, JobOk, Job, Alive, Active, Resumable, Phase
  <2>2. Copies(jobs[k], manifest[k])'
    <3>1. Phase(jobs[k]) = "prepare" => lib = jobs[k].source /\ S = latest
      BY <1>1, <2>1 DEF Copies
    <3>2. Phase(jobs[k]) \in {"copy", "verify", "commit"} => lib = jobs[k].source /\ S = latest
      BY <2>1 DEF Copies
    <3>3. Phase(jobs[k]) = "repoint" /\ lib = jobs[k].source => S = latest /\ ~jobs[k].renamed
      BY <1>1, <2>1 DEF Copies
    <3>4. Phase(jobs[k]) = "repoint" /\ lib # jobs[k].source => lib = jobs[k].target /\ T = latest
      BY <2>1 DEF Copies
    <3>5. M \in 0 .. latest => M \in 0 .. latest'
      BY <1>1, <1>3 DEF Whole
    <3>6. M < latest => M < latest' \/ M \notin 0 .. latest
      BY <1>1, <1>3 DEF Whole
    <3>7. CASE lib = jobs[k].source
      BY <1>1, <1>3, <2>1, <3>1, <3>2, <3>3, <3>5, <3>6, <3>7 DEF Copies
    <3>8. CASE lib = jobs[k].target
      BY <1>1, <1>3, <2>1, <3>1, <3>2, <3>3, <3>4, <3>5, <3>6, <3>8 DEF Copies
    <3> QED
      BY <1>1, <1>3, <2>1, <3>1, <3>2, <3>4, <3>7, <3>8 DEF Copies
  <2>3. at[k] \in {"removed", "complete"} => lib = jobs[k].target
    BY <2>1 DEF StepOk, Copies, Phase
  <2>4. StepFacts(jobs[k], at[k], manifest[k])'
    BY <1>1, <1>3, <2>1, <2>3 DEF StepFacts, LockSteps
  <2>5. at[k] # "committed"
    BY <2>1 DEF LockSteps
  <2> QED
    BY <1>1, <2>2, <2>4, <2>5 DEF GameFor
<1>7. GameInv'
  <2>1. \A k \in JobIds : GameFor(k)'
    BY <1>1, <1>6 DEF GameFor, OnGame
  <2>2. Rested => Rested' /\ dir'[lib] = latest'
    BY <1>1, <1>3 DEF Rested
  <2>3. Rest'
    BY <1>1, <1>3, <2>2 DEF IInv, GameInv, Rest, OnGame
  <2> QED
    BY <2>1, <2>3 DEF GameInv
<1> QED
  BY <1>4, <1>5, <1>7 DEF IInv

LEMMA EndGameKeeps ==
  ASSUME IInv, EndGame
  PROVE  IInv'
<1> USE DEF files, library, control
<1>1. UNCHANGED <<files, lib, latest, library, control, jobs, at>> /\ running' = FALSE
  BY DEF EndGame
<1>2. TypeOK'
  BY <1>1 DEF IInv, TypeOK
<1>3. ControlInv' /\ GameInv' /\ LibraryInv' /\ SweepInv'
  BY <1>1, ControlSame, GameSame, LibrarySame DEF IInv, SweepInv, InUse
<1> QED
  BY <1>2, <1>3 DEF IInv

LEMMA StagingKeeps ==
  ASSUME IInv, ReserveStaging \/ \E p \in Places : LookAtStaging(p)
  PROVE  IInv'
<1> USE DEF files, game, library
<1>1. /\ UNCHANGED <<files, game, library, lock, recovery, closing, exhausted, jobs, at>>
      /\ sweep' \in [at : {"none", "looked", "reserved"}, place : Places]
      /\ sweep'.at = "reserved" => ~InUse(sweep'.place)
  <2>1. CASE ReserveStaging
    <3>1. NoSweep \in [at : {"none", "looked", "reserved"}, place : Places] /\ NoSweep.at = "none"
      BY RelocateConstants DEF NoSweep
    <3>2. CASE InUse(sweep.place)
      BY <2>1, <3>1, <3>2 DEF ReserveStaging
    <3>3. CASE ~InUse(sweep.place)
      <4>1. sweep' = [sweep EXCEPT !.at = "reserved"]
        BY <2>1, <3>3 DEF ReserveStaging
      <4>2. sweep'.place = sweep.place
            /\ sweep' \in [at : {"none", "looked", "reserved"}, place : Places]
        BY <4>1 DEF IInv, TypeOK
      <4> QED
        BY <2>1, <3>3, <4>2 DEF ReserveStaging
    <3> QED
      BY <3>2, <3>3
  <2>2. CASE \E p \in Places : LookAtStaging(p)
    BY <2>2 DEF LookAtStaging
  <2> QED
    BY <2>1, <2>2
<1>2. TypeOK'
  BY <1>1 DEF IInv, TypeOK
<1>3. SweepInv'
  BY <1>1 DEF SweepInv, InUse
<1>4. ControlInv' /\ GameInv' /\ LibraryInv'
  BY <1>1, ControlSame, GameSame, LibrarySame DEF IInv
<1> QED
  BY <1>2, <1>3, <1>4 DEF IInv

LEMMA SweepStagingKeeps ==
  ASSUME IInv, SweepStaging
  PROVE  IInv'
<1> USE DEF files, game, library
<1> DEFINE p == sweep.place
<1>1. /\ sweep.at = "reserved" /\ staging' = [staging EXCEPT ![p] = Absent] /\ sweep' = NoSweep
      /\ UNCHANGED <<dir, manifest, game, library, lock, recovery, closing, exhausted, jobs, at>>
      /\ ~InUse(p) /\ p \in Places /\ staging \in [Places -> Content]
  BY DEF SweepStaging, IInv, SweepInv, TypeOK
<1>2. TypeOK' /\ SweepInv'
  BY <1>1, RelocateConstants DEF IInv, TypeOK, Content, NoSweep, SweepInv
<1>3. ControlInv' /\ LibraryInv'
  BY <1>1, ControlSame, LibrarySame DEF IInv
<1>4. ASSUME NEW k \in JobIds PROVE GameFor(k)'
  <2>1. GameFor(k) /\ jobs[k] \in Job
    BY Has
  <2>2. ASSUME OnGame(k) PROVE GameFor(k)'
    <3>1. /\ Copies(jobs[k], manifest[k]) /\ StepFacts(jobs[k], at[k], manifest[k])
          /\ jobs[k].target \in Places
      BY <2>1, <2>2 DEF GameFor, Job
    <3>2. staging'[jobs[k].target] \in {staging[jobs[k].target], Absent}
      BY <1>1, <3>1
    <3>3. at[k] = "commit" => staging'[jobs[k].target] = staging[jobs[k].target]
      <4>1. at[k] = "commit" => Active(jobs[k]) /\ jobs[k].staging
        BY <2>2, Has DEF StepOk, JobOk, Active, Alive, Phase, OnGame
      <4> QED
        BY <1>1, <3>1, <4>1 DEF InUse
    <3>4. Copies(jobs[k], manifest[k])'
      BY <1>1, <3>1, <3>2 DEF Copies
    <3>5. StepFacts(jobs[k], at[k], manifest[k])'
      BY <1>1, <3>1, <3>2, <3>3 DEF StepFacts
    <3> QED
      BY <1>1, <2>1, <2>2, <3>4, <3>5 DEF GameFor
  <2> QED
    BY <1>1, <2>2 DEF GameFor, OnGame
<1>5. Rest'
  BY <1>1 DEF IInv, GameInv, Rest, Rested, LatestKept, OnGame
<1> QED
  BY <1>2, <1>3, <1>4, <1>5 DEF IInv, GameInv

LEMMA CloseKeeps ==
  ASSUME IInv, Close
  PROVE  IInv'
<1> USE DEF files, game, library
<1>1. UNCHANGED <<files, game, library, lock, recovery, sweep, exhausted, jobs, at>> /\ closing' = TRUE
  BY DEF Close
<1>2. TypeOK'
  BY <1>1 DEF IInv, TypeOK
<1>3. ControlInv' /\ GameInv' /\ LibraryInv' /\ SweepInv'
  BY <1>1, ControlSame, GameSame, LibrarySame DEF IInv, SweepInv, InUse
<1> QED
  BY <1>2, <1>3 DEF IInv

LEMMA CrashKeeps ==
  ASSUME IInv, Crash
  PROVE  IInv'
<1> USE DEF files, game, library
<1>1. /\ at' = [k \in JobIds |-> "idle"] /\ lock' = 0 /\ closing' = FALSE
      /\ recovery' = [todo |-> {k \in JobIds : jobs[k].stage # "none"}, job |-> 0, from |-> "none"]
      /\ sweep' = NoSweep /\ UNCHANGED <<files, game, library, jobs, exhausted>>
      /\ 0 \notin JobIds
  BY RelocateConstants DEF Crash
<1>2. TypeOK' /\ SweepInv'
  <2>1. recovery' \in [todo : SUBSET JobIds, job : JobIds \cup {0}, from : Stages]
    BY <1>1 DEF Stages
  <2>2. sweep' \in [at : {"none", "looked", "reserved"}, place : Places] /\ sweep'.at = "none"
    BY <1>1, RelocateConstants DEF NoSweep
  <2> QED
    BY <1>1, <2>1, <2>2 DEF IInv, TypeOK, Steps, SweepInv
<1>3. ControlInv'
  <2>1. ASSUME NEW k \in JobIds PROVE JobFits(k)'
    BY <1>1, Has DEF JobFits, StepOk, RecFits, LockFits, LockSteps, RecSteps
  <2>2. OneOnGame' /\ OneOnLibrary'
    BY <1>1 DEF IInv, ControlInv, OneOnGame, OneOnLibrary, OnLibrary
  <2>3. recovery'.from = "none"
    BY <1>1
  <2> QED
    BY <2>1, <2>2, <2>3 DEF ControlInv
<1>4. GameInv'
  <2>1. ASSUME NEW k \in JobIds PROVE GameFor(k)'
    <3>1. GameFor(k)
      BY Has
    <3> QED
      BY <1>1, <3>1 DEF GameFor, OnGame, Copies, StepFacts
  <2>2. Rest'
    BY <1>1 DEF IInv, GameInv, Rest, Rested, LatestKept, OnGame
  <2> QED
    BY <2>1, <2>2 DEF GameInv
<1>5. LibraryInv'
  <2>1. ASSUME NEW k \in JobIds PROVE LibraryFor(k)'
    <3>1. LibraryFor(k)
      BY Has
    <3> QED
      BY <1>1, <3>1 DEF LibraryFor, OnLibrary
  <2>2. TreeInv'
    BY <1>1 DEF IInv, LibraryInv, TreeInv, Halfway, OnLibrary, Pending
  <2> QED
    BY <2>1, <2>2 DEF LibraryInv
<1> QED
  BY <1>2, <1>3, <1>4, <1>5 DEF IInv

LEMMA InitHolds ==
  ASSUME Init
  PROVE  IInv
<1>1. /\ NoJob \in Job /\ \A j \in JobIds : jobs[j] = NoJob /\ at[j] = "idle"
      /\ ~Alive(NoJob) /\ ~Active(NoJob) /\ NoJob.stage = "none" /\ NoJob.failedAt = "none"
  BY NoJobRecord DEF Init, Alive, Active, Resumable
<1>2. TypeOK
  <2>1. /\ dir \in [Places -> Content] /\ staging \in [Places -> Content]
        /\ manifest \in [JobIds -> Content] /\ latest \in Whole
        /\ tree \in [Roots -> {Absent, Partial, 0}]
    BY RelocateConstants DEF Init, Content, Whole
  <2>2. /\ recovery \in [todo : SUBSET JobIds, job : JobIds \cup {0}, from : Stages]
        /\ sweep \in [at : {"none", "looked", "reserved"}, place : Places]
    BY RelocateConstants DEF Init, NoSweep, Stages
  <2>3. /\ jobs \in [JobIds -> Job] /\ at \in [JobIds -> Steps]
    BY <1>1 DEF Init, Steps
  <2>4. /\ lib \in Places /\ dest \in Roots /\ root \in Roots
        /\ running \in BOOLEAN /\ lock \in JobIds \cup {0}
        /\ closing \in BOOLEAN /\ exhausted \in BOOLEAN
    BY RelocateConstants DEF Init
  <2> QED
    BY <2>1, <2>2, <2>3, <2>4 DEF TypeOK
<1>3. /\ recovery.todo = {} /\ recovery.job = 0 /\ recovery.from = "none"
      /\ 0 \notin JobIds /\ sweep.at = "none"
  BY RelocateConstants DEF Init, NoSweep
<1>4. ControlInv
  <2>1. ASSUME NEW j \in JobIds PROVE JobFits(j)
    BY <1>1, <1>3 DEF JobFits, JobOk, StepOk, RecFits, LockFits, LockSteps, RecSteps
  <2>2. OneOnGame /\ OneOnLibrary
    BY <1>1 DEF OneOnGame, OneOnLibrary, OnLibrary
  <2> QED
    BY <1>3, <2>1, <2>2 DEF ControlInv
<1>5. GameInv
  <2>1. dir[lib] = latest
    BY RelocateConstants DEF Init
  <2> QED
    BY <1>1, <2>1 DEF GameInv, GameFor, OnGame, Rest, Rested
<1>6. LibraryInv /\ SweepInv
  <2>1. tree[dest] = 0
    BY RelocateConstants DEF Init
  <2> QED
    BY <1>1, <1>3, <2>1 DEF LibraryInv, LibraryFor, OnLibrary, TreeInv, SweepInv
<1> QED
  BY <1>2, <1>4, <1>5, <1>6 DEF IInv

----------------------------------------------------------------------------
(* Every step keeps the invariant *)

LEMMA StepKeeps ==
  ASSUME IInv, NEW j \in JobIds, Step(j)
  PROVE  IInv'
<1>1. CASE \/ Start(j) \/ RenameDir(j) \/ Renamed(j) \/ BeginCopy(j) \/ BuildManifest(j)
           \/ CopyDir(j) \/ Copied(j) \/ BeginVerify(j) \/ Verify(j)
  BY <1>1, StartKeeps, RenameDirKeeps, RenamedKeeps, BeginCopyKeeps, BuildManifestKeeps,
     CopyDirKeeps, CopiedKeeps, BeginVerifyKeeps, VerifyKeeps
<1>2. CASE \/ Commit(j) \/ Committed(j) \/ Repoint(j) \/ Cleanup(j) \/ RemoveSource(j) \/ Removed(j)
  BY <1>2, CommitKeeps, CommittedKeeps, RepointKeeps, CleanupKeeps, RemoveSourceKeeps, RemovedKeeps
<1>3. CASE \/ NextItem(j) \/ QueueDone(j) \/ StageItem(j) \/ MoveTree(j) \/ RemoveTree(j)
           \/ Rebase(j) \/ SetRoot(j)
  BY <1>3, NextItemKeeps, QueueDoneKeeps, StageItemKeeps, MoveTreeKeeps, RemoveTreeKeeps,
     RebaseKeeps, SetRootKeeps
<1>4. CASE FailOrCancel(j) \/ CompleteJob(j) \/ End(j)
  BY <1>4, FailOrCancelKeeps, CompleteJobKeeps, EndKeeps
<1>5. CASE \/ RecoverPrepare(j) \/ RecoverCopy(j) \/ RecoverCommit(j) \/ Attempt(j)
           \/ RetryRepoint(j) \/ RetryCleanup(j) \/ GiveUp(j) \/ After(j)
  BY <1>5, RecoverPrepareKeeps, RecoverCopyKeeps, RecoverCommitKeeps, AttemptKeeps,
     RetryRepointKeeps, RetryCleanupKeeps, GiveUpKeeps, AfterKeeps
<1> QED
  BY <1>1, <1>2, <1>3, <1>4, <1>5 DEF Step

LEMMA StutterKeeps ==
  ASSUME IInv, UNCHANGED vars
  PROVE  IInv'
<1>1. UNCHANGED <<dir, staging, lib, latest, running, lock, tree, dest, root, jobs, manifest, at,
                  recovery, sweep, closing, exhausted>>
  BY DEF vars, files, game, library, control
<1>2. TypeOK'
  BY <1>1 DEF IInv, TypeOK
<1>3. ControlInv' /\ GameInv' /\ LibraryInv' /\ SweepInv'
  BY <1>1, ControlSame, GameSame, LibrarySame DEF IInv, SweepInv, InUse
<1> QED
  BY <1>2, <1>3 DEF IInv

LEMMA NextKeeps ==
  ASSUME IInv, OneAtATime, [Next]_vars
  PROVE  IInv'
<1>1. ASSUME NEW j \in JobIds, Step(j) \/ RecoverJob(j) PROVE IInv'
  BY <1>1, StepKeeps, RecoverJobKeeps
<1>2. ASSUME NEW j \in JobIds, NEW p \in Places, MoveGame(j, p) \/ MoveLibrary(j, p) PROVE IInv'
  BY <1>2, MoveGameKeeps, MoveLibraryKeeps
<1>3. CASE ReserveStaging \/ SweepStaging \/ \E p \in Places : LookAtStaging(p)
  BY <1>3, StagingKeeps, SweepStagingKeeps
<1>4. CASE StartGame \/ EndGame \/ Close \/ Crash
  BY <1>4, StartGameKeeps, EndGameKeeps, CloseKeeps, CrashKeeps
<1>5. CASE UNCHANGED vars
  BY <1>5, StutterKeeps
<1> QED
  BY <1>1, <1>2, <1>3, <1>4, <1>5 DEF Next

----------------------------------------------------------------------------
(* What the invariant says *)

LEMMA InvariantImpliesConsistent ==
  ASSUME IInv
  PROVE  Consistent
BY DEF IInv, LibraryInv, TreeInv, Halfway, Consistent, DownloadsFound

\* The job at the game has the newest files at one end of its move.
LEMMA AtOneEnd ==
  ASSUME IInv, NEW j \in JobIds, OnGame(j)
  PROVE  /\ Copies(jobs[j], manifest[j]) /\ latest \in Whole /\ latest # Absent
         /\ jobs[j].source \in Places /\ jobs[j].target \in Places /\ jobs[j].item = "game"
         /\ Phase(jobs[j]) \in {"prepare", "copy", "verify", "commit", "repoint", "cleanup"}
         /\ dir[jobs[j].source] = latest \/ dir[jobs[j].target] = latest
<1>1. /\ Copies(jobs[j], manifest[j]) /\ latest \in Whole /\ latest # Absent
      /\ jobs[j].source \in Places /\ jobs[j].target \in Places /\ jobs[j].item = "game"
  BY Has DEF GameFor, OnGame, Job, IInv, TypeOK, Whole, Absent
<1>2. Phase(jobs[j]) \in {"prepare", "copy", "verify", "commit", "repoint", "cleanup"}
  BY Has DEF OnGame, Phase, Alive, Active, Resumable, Job, Stages
<1> QED
  BY <1>1, <1>2 DEF Copies

LEMMA InvariantImpliesKept ==
  ASSUME IInv
  PROVE  LatestKept
<1>1. CASE \E j \in JobIds : OnGame(j)
  BY <1>1, AtOneEnd DEF LatestKept
<1>2. CASE \A j \in JobIds : ~OnGame(j)
  BY <1>2 DEF IInv, TypeOK, GameInv, Rest, Rested, LatestKept
<1> QED
  BY <1>1, <1>2

\* A job whose files the next start finds at the target has the newest files there, or has
\* their copy in the staging folder beside it.
LEMMA ArrivedThere ==
  ASSUME IInv, NEW j \in JobIds, Arrived(j)
  PROVE  \/ dir[jobs[j].target] = latest
         \/ /\ jobs[j].stage = "commit"
            /\ dir[jobs[j].source] = latest /\ staging[jobs[j].target] = latest
<1>1. Phase(jobs[j]) \in {"prepare", "repoint", "commit"} /\ OnGame(j)
  BY Has DEF Arrived, Phase, OnGame, Alive, Active, Resumable, Job, JobOk
<1>2. Phase(jobs[j]) = "commit" => jobs[j].stage = "commit"
  BY Has DEF Phase, Job
<1> QED
  BY <1>1, <1>2, AtOneEnd DEF Arrived, Phase, Copies

\* One that is not there yet, or no longer needs to be: the library has them.
LEMMA NotArrived ==
  ASSUME IInv, NEW j \in JobIds, OnGame(j), ~Arrived(j)
  PROVE  dir[lib] = latest
BY AtOneEnd DEF Arrived, Phase, Copies

LEMMA InvariantImpliesRecoverable ==
  ASSUME IInv
  PROVE  Recoverable
<1>1. CASE \E j \in JobIds : Arrived(j)
  <2> DEFINE c == CHOOSE j \in JobIds : Arrived(j)
  <2>1. c \in JobIds /\ Arrived(c)
    BY <1>1
  <2>2. GameAt = jobs[c].target
    BY <1>1 DEF GameAt
  <2> HIDE DEF c
  <2> QED
    BY <2>1, <2>2, ArrivedThere DEF Recoverable
<1>2. CASE \A j \in JobIds : ~Arrived(j)
  <2>1. GameAt = lib
    BY <1>2 DEF GameAt
  <2>2. CASE \E j \in JobIds : OnGame(j)
    BY <1>2, <2>1, <2>2, NotArrived DEF Recoverable
  <2>3. CASE \A j \in JobIds : ~OnGame(j)
    BY <2>1, <2>3 DEF IInv, GameInv, Rest, Rested, Recoverable, Exhausted
  <2> QED
    BY <2>2, <2>3
<1> QED
  BY <1>1, <1>2

\* A game whose files are whole and that nothing has reserved has its newest files.
LEMMA PlaysTheLatest ==
  ASSUME IInv, StartGame
  PROVE  dir[lib] = latest
<1>1. lock = 0 /\ dir[lib] \in Whole /\ dir[lib] # Absent
  BY DEF StartGame, Whole, Absent, IInv, TypeOK
<1>2. CASE \E j \in JobIds : OnGame(j)
  BY <1>1, <1>2, AtOneEnd DEF Copies
<1>3. CASE \A j \in JobIds : ~OnGame(j)
  BY <1>1, <1>3 DEF IInv, GameInv, Rest, Rested
<1> QED
  BY <1>2, <1>3

\* Only the last item of the library's queue changes the settings.
LEMMA RootChanges ==
  ASSUME [Next]_vars, root' # root
  PROVE  \E j \in JobIds : SetRoot(j)
<1> USE DEF library
<1>1. ASSUME NEW j \in JobIds, Step(j) PROVE SetRoot(j)
  <2>1. CASE \/ Start(j) \/ RenameDir(j) \/ Renamed(j) \/ BeginCopy(j) \/ BuildManifest(j)
             \/ CopyDir(j) \/ Copied(j) \/ BeginVerify(j) \/ Verify(j)
    BY <2>1 DEF Start, RenameDir, Renamed, BeginCopy, BuildManifest, CopyDir, Copied, BeginVerify,
                Verify
  <2>2. CASE \/ Commit(j) \/ Committed(j) \/ Repoint(j) \/ Cleanup(j) \/ RemoveSource(j)
             \/ Removed(j) \/ NextItem(j) \/ QueueDone(j) \/ StageItem(j)
    BY <2>2 DEF Commit, Committed, Repoint, Cleanup, RemoveSource, Removed, NextItem, QueueDone,
                StageItem
  <2>3. CASE \/ MoveTree(j) \/ RemoveTree(j) \/ Rebase(j) \/ FailOrCancel(j) \/ CompleteJob(j)
             \/ End(j)
    BY <2>3 DEF MoveTree, RemoveTree, Rebase, FailOrCancel, CompleteJob, End
  <2>4. CASE \/ RecoverPrepare(j) \/ RecoverCopy(j) \/ RecoverCommit(j) \/ Attempt(j)
             \/ RetryRepoint(j) \/ RetryCleanup(j) \/ GiveUp(j) \/ After(j)
    BY <2>4 DEF RecoverPrepare, RecoverCopy, RecoverCommit, Attempt, RetryRepoint, RetryCleanup,
                GiveUp, After
  <2> QED
    BY <1>1, <2>1, <2>2, <2>3, <2>4 DEF Step
<1>2. ASSUME NEW j \in JobIds PROVE ~RecoverJob(j)
  BY DEF RecoverJob
<1>3. ASSUME NEW j \in JobIds, NEW p \in Places PROVE ~MoveGame(j, p) /\ ~MoveLibrary(j, p)
  BY DEF MoveGame, MoveLibrary
<1>4. /\ \A p \in Places : ~LookAtStaging(p)
      /\ ~ReserveStaging /\ ~SweepStaging /\ ~StartGame /\ ~EndGame /\ ~Close /\ ~Crash
  BY DEF LookAtStaging, ReserveStaging, SweepStaging, StartGame, EndGame, Close, Crash
<1>5. ~UNCHANGED vars
  BY DEF vars
<1> QED
  BY <1>1, <1>2, <1>3, <1>4, <1>5 DEF Next

LEMMA RootIsLast ==
  ASSUME IInv, [Next]_vars, root' # root
  PROVE  dest # root /\ tree[dest] = 0 /\ tree[root] = Absent
<1>1. PICK j \in JobIds : SetRoot(j)
  BY RootChanges
<1>2. at[j] = "root" /\ root' = jobs[j].target
  BY <1>1 DEF SetRoot
<1> QED
  BY <1>2, LibraryItem, Has DEF LibraryFor

\* A move that is done is the one at the game, and has removed the source.
LEMMA DoneIsThere ==
  ASSUME IInv, NEW j \in JobIds, at[j] = "complete", jobs[j].item = "game"
  PROVE  lib = jobs[j].target /\ dir[jobs[j].source] = Absent
BY Has DEF StepOk, OnGame, Alive, Active, GameFor, Copies, StepFacts, Phase

----------------------------------------------------------------------------
(* The theorems *)

\* The inductive invariant: where the files of the game and the downloads are in every stage of
\* a move and at every step of its goroutine or of the recovery, and who has reserved the game
\* (pipeline.go, recover.go, library.go, repoint.go of relocate).
THEOREM RelocateInvariant ==
  ASSUME OneAtATime
  PROVE  Spec => []IInv
<1>1. IInv /\ [Next]_vars => IInv'
  BY NextKeeps
<1> QED
  BY InitHolds, <1>1, PTL DEF Spec

\* The state is well formed, and the records of the downloads point at their files or, where
\* their move was interrupted, the same move of the library ends it.
THEOREM MovesAreConsistent ==
  ASSUME OneAtATime
  PROVE  Spec => []Consistent
<1>1. Spec => []IInv
  BY RelocateInvariant
<1>2. IInv => Consistent
  BY InvariantImpliesConsistent
<1> QED
  BY <1>1, <1>2, PTL

\* The newest files of the game are in one piece wherever a move fails or the program is
\* killed, and the next start finds them, or the attempts of the recovery are spent and the
\* journal says so.
THEOREM NoFilesAreLost ==
  ASSUME OneAtATime
  PROVE  Spec => []NothingLost
<1>1. Spec => []IInv
  BY RelocateInvariant
<1>2. IInv => NothingLost
  BY InvariantImpliesKept, InvariantImpliesRecoverable DEF NothingLost
<1> QED
  BY <1>1, <1>2, PTL

\* No start of the game plays an older copy, the settings leave a root after the downloads and
\* their records have, only staging folders out of use are swept, and a move that is done has
\* left one copy.
THEOREM MoveStepsAreSafe ==
  ASSUME OneAtATime
  PROVE  Spec => StepsAreSafe
<1>1. Spec => []IInv /\ [][Next]_vars
  BY RelocateInvariant, PTL DEF Spec
<1>2. Spec => PlaysLatest
  <2>1. IInv /\ [Next]_vars => [StartGame => dir[lib] = latest]_vars
    BY PlaysTheLatest
  <2> QED
    BY <1>1, <2>1, PTL DEF PlaysLatest
<1>3. Spec => RootMovesLast
  <2>1. IInv /\ [Next]_vars
        => [root' # root => dest # root /\ tree[dest] = 0 /\ tree[root] = Absent]_vars
    BY RootIsLast
  <2> QED
    BY <1>1, <2>1, PTL DEF RootMovesLast
<1>4. Spec => SweepsUnused
  <2>1. IInv /\ [Next]_vars => [SweepStaging => ~InUse(sweep.place)]_vars
    BY DEF IInv, SweepInv, SweepStaging
  <2> QED
    BY <1>1, <2>1, PTL DEF SweepsUnused
<1>5. Spec => DoneIsDone
  <2>1. IInv /\ [Next]_vars
        => [\A j \in JobIds :
              at[j] = "complete" /\ jobs[j].item = "game" /\ jobs'[j].stage = "none"
              => lib = jobs[j].target /\ dir[jobs[j].source] = Absent]_vars
    BY DoneIsThere
  <2> QED
    BY <1>1, <2>1, PTL DEF DoneIsDone
<1> QED
  BY <1>2, <1>3, <1>4, <1>5 DEF StepsAreSafe
================================================================================
