--------------------------- MODULE CloudSaves_proofs ---------------------------
(***************************************************************************)
(* What holds of cloud saves for any number of devices, accounts, plays and *)
(* faults: neither the folder of a device nor the copy of an account is      *)
(* overwritten without its saves being in what replaces it or given up, and  *)
(* what a device remembers is never ahead of either side.                    *)
(*                                                                          *)
(* The steps named in Events are left out, as in the model-checked run: each *)
(* is a way in which the code does lose saves.                               *)
(***************************************************************************)
EXTENDS CloudSaves, TLAPS

Conflicts == [on : BOOLEAN, remote : Saves]
Memories  == [local : Saves, remote : Saves, conflict : Conflicts, excluded : BOOLEAN]

Modes == {"none", "auto", "keepLocal", "keepRemote", "delete", "forget"}
Steps == {"none", "decide", "deleted", "build", "send", "again", "uploaded", "fetch", "restore", "restored"}
Jobs  == [mode : Modes, at : Steps, owner : Accounts, seen : Saves, of : Saves, ifMatch : Saves]

\* The types of the variables, with those of the jobs.
Types ==
  /\ local \in [Devices -> Saves] /\ cloud \in [Accounts -> Saves] /\ dropped \in Saves
  /\ st \in [Devices -> [Accounts -> Memories]] /\ job \in [Devices -> Jobs]
  /\ playing \in [Devices -> 0 .. MaxPlays] /\ account \in [Devices -> Accounts]
  /\ plays \in 0 .. MaxPlays /\ asked \in 0 .. MaxAsked
  /\ switches \in 0 .. MaxSwitches /\ faults \in 0 .. MaxFaults

\* What a device remembers of an account: the last agreement, or half of it, is behind
\* both sides.
Behind(d, a) ==
  /\ st[d][a].remote \in {{}, st[d][a].local}
  /\ st[d][a].local \subseteq local[d] \cup dropped
  /\ st[d][a].local \subseteq cloud[a] \cup dropped

\* A job is one of the account that is signed in, whose copy it has seen.
OwnInv(d) ==
  /\ job[d].at = "none" => job[d] = NoJob
  /\ job[d].at # "none" => /\ job[d].owner = account[d]
                           /\ job[d].seen \subseteq cloud[account[d]] \cup dropped

\* An upload: the condition it is sent with is the agreement, which the archive contains,
\* or the player has seen the copy it is to overwrite.
UploadInv(d) ==
  /\ job[d].at \in {"build", "send"} /\ ~Forced(d) => job[d].ifMatch \in {{}, Known(d).remote}
  /\ job[d].at = "send" /\ ~Forced(d) => job[d].ifMatch \subseteq job[d].of \cup dropped
  /\ job[d].at = "again" => job[d].ifMatch = {} /\ ~Forced(d)
  /\ job[d].at \in {"send", "again", "uploaded"} => job[d].of \subseteq local[d] \cup dropped
  /\ job[d].at = "uploaded" => job[d].of \subseteq cloud[account[d]] \cup dropped
  /\ job[d].at \in {"decide", "build", "send"} /\ Forced(d)
       => cloud[account[d]] \subseteq Known(d).conflict.remote \cup dropped

\* A download: the folder has nothing of its own while the game is closed, unless the
\* player has asked for the copy.
DownloadInv(d) ==
  /\ job[d].at \in {"restore", "restored"} => job[d].of \subseteq cloud[account[d]] \cup dropped
  /\ job[d].at = "restored" => job[d].of \subseteq local[d] \cup dropped
  /\ job[d].at = "fetch" /\ job[d].mode # "keepRemote" /\ ~Running(d)
       => local[d] \in {{}, Known(d).local}
  /\ job[d].at = "restore" /\ job[d].mode # "keepRemote" /\ ~Running(d)
       => local[d] \subseteq job[d].of \cup dropped

IInv ==
  /\ Types
  /\ \A d \in Devices, a \in Accounts : Behind(d, a)
  /\ \A d \in Devices : OwnInv(d) /\ UploadInv(d) /\ DownloadInv(d)

-----------------------------------------------------------------------------
(* What the helpers of a step do *)

\* The values that are put together somewhere.
Reached(s, x, y) == [s EXCEPT !.local = x, !.remote = y, !.conflict = NoConflict]
Excluding(b)     == [Blank EXCEPT !.excluded = b]
Lifted(s)        == [s EXCEPT !.excluded = FALSE]
Unseen(s)        == [s EXCEPT !.remote = {}]

\* Sets of plays are closed under what the steps do to them.
LEMMA SavesSteps ==
  /\ {} \in Saves
  /\ \A x, y \in Saves : x \cup y \in Saves /\ x \ y \in Saves
  /\ \A x \in Saves, n \in 1 .. MaxPlays : x \cup {n} \in Saves
BY DEF Saves

\* A device that has recorded nothing remembers no saves.
LEMMA BlankTyped == Blank \in Memories /\ Blank.local = {} /\ Blank.remote = {} /\ NoConflict \in Conflicts
BY SavesSteps DEF Blank, Memories, NoConflict, Conflicts

\* What commit writes: an agreement, a conflict, and what is forgotten.
LEMMA MemorySteps ==
  ASSUME NEW s \in Memories, NEW x \in Saves, NEW y \in Saves
  PROVE  /\ Agreed(s, x) \in Memories /\ Agreed(s, x).local = x /\ Agreed(s, x).remote = x
         /\ Clash(s, x) \in Memories /\ Clash(s, x).local = s.local /\ Clash(s, x).remote = s.remote
         /\ Reached(s, x, y) \in Memories /\ Reached(s, x, y).local = x /\ Reached(s, x, y).remote = y
         /\ Lifted(s) \in Memories /\ Lifted(s).local = s.local /\ Lifted(s).remote = s.remote
         /\ Lifted(s).conflict = s.conflict
         /\ Unseen(s) \in Memories /\ Unseen(s).local = s.local /\ Unseen(s).remote = {}
         /\ Unseen(s).conflict = s.conflict
BY SavesSteps, BlankTyped DEF Memories, Conflicts, Agreed, Clash, Reached, Lifted, Unseen

\* What is forgotten leaves no agreement behind.
LEMMA ExcludingSteps ==
  ASSUME NEW b \in BOOLEAN
  PROVE  Excluding(b) \in Memories /\ Excluding(b).local = {} /\ Excluding(b).remote = {}
BY SavesSteps, BlankTyped DEF Memories, Conflicts, Excluding, Blank

\* A commit is of one account of one device.
LEMMA CommitSteps ==
  ASSUME Types, NEW d \in Devices, NEW s \in Memories, Commit(d, s)
  PROVE  /\ st' \in [Devices -> [Accounts -> Memories]] /\ st'[d][job[d].owner] = s
         /\ \A e \in Devices, a \in Accounts : (e # d \/ a # job[d].owner) => st'[e][a] = st[e][a]
         /\ \A e \in Devices : e # d => st'[e] = st[e]
<1>1. job[d].owner \in Accounts /\ st[d] \in [Accounts -> Memories]
  BY DEF Types, Jobs
<1> QED BY <1>1 DEF Types, Commit

\* Nothing happens to the jobs of the other devices.
Alone(d) == job' \in [Devices -> Jobs] /\ \A e \in Devices : e # d => job'[e] = job[e]

\* The other ways to change a job.
Sends(d, at, x) == job' = [job EXCEPT ![d].at = at, ![d].ifMatch = x]
Takes(d, at, x) == job' = [job EXCEPT ![d].at = at, ![d].of = x]
Starts(d, mode, at) == job' = [job EXCEPT ![d] = [NoJob EXCEPT !.mode = mode, !.at = at, !.owner = account[d]]]

\* A device that does nothing is at no step.
LEMMA NoJobTyped ==
  /\ NoJob \in Jobs /\ NoJob.at = "none" /\ NoJob.mode = "none" /\ NoJob.owner \in Accounts
  /\ NoJob.seen = {} /\ NoJob.of = {} /\ NoJob.ifMatch = {}
<1>1. (CHOOSE a \in Accounts : TRUE) \in Accounts
  BY CloudSavesConstants
<1> QED BY <1>1, SavesSteps DEF NoJob, Jobs, Modes, Steps

\* The job of a device goes on, ...
LEMMA GotoSteps ==
  ASSUME Types, NEW d \in Devices, NEW at \in Steps, Goto(d, at)
  PROVE  /\ Alone(d) /\ job'[d].at = at /\ job'[d].mode = job[d].mode /\ job'[d].owner = job[d].owner
         /\ job'[d].seen = job[d].seen /\ job'[d].of = job[d].of /\ job'[d].ifMatch = job[d].ifMatch
BY DEF Types, Jobs, Goto, Alone

\* ... with the condition of an upload, ...
LEMMA SendsSteps ==
  ASSUME Types, NEW d \in Devices, NEW at \in Steps, NEW x \in Saves, Sends(d, at, x)
  PROVE  /\ Alone(d) /\ job'[d].at = at /\ job'[d].mode = job[d].mode /\ job'[d].owner = job[d].owner
         /\ job'[d].seen = job[d].seen /\ job'[d].of = job[d].of /\ job'[d].ifMatch = x
BY DEF Types, Jobs, Sends, Alone

\* ... or with the saves it is about.
LEMMA TakesSteps ==
  ASSUME Types, NEW d \in Devices, NEW at \in Steps, NEW x \in Saves, Takes(d, at, x)
  PROVE  /\ Alone(d) /\ job'[d].at = at /\ job'[d].mode = job[d].mode /\ job'[d].owner = job[d].owner
         /\ job'[d].seen = job[d].seen /\ job'[d].of = x /\ job'[d].ifMatch = job[d].ifMatch
BY DEF Types, Jobs, Takes, Alone

\* A job is over.
LEMMA EndSteps ==
  ASSUME Types, NEW d \in Devices, End(d)
  PROVE  Alone(d) /\ job'[d] = NoJob
BY NoJobTyped DEF Types, End, Alone

\* A job begins that has not looked at the copy.
LEMMA StartsSteps ==
  ASSUME Types, NEW d \in Devices, NEW mode \in Modes, NEW at \in Steps, Starts(d, mode, at)
  PROVE  /\ Alone(d) /\ job'[d].at = at /\ job'[d].mode = mode /\ job'[d].owner = account[d]
         /\ job'[d].seen = {} /\ job'[d].of = {} /\ job'[d].ifMatch = {}
<1>1. account[d] \in Accounts
  BY DEF Types
<1> QED BY <1>1, NoJobTyped DEF Types, Jobs, Starts, Alone

\* prepare reads the copy of the account that is signed in.
LEMMA BeginSteps ==
  ASSUME Types, NEW d \in Devices, NEW mode \in Modes, Begin(d, mode)
  PROVE  /\ Alone(d) /\ job[d] = NoJob /\ job'[d].at = "decide" /\ job'[d].mode = mode
         /\ job'[d].owner = account[d] /\ job'[d].seen = cloud[account[d]]
<1>1. account[d] \in Accounts /\ cloud[account[d]] \in Saves /\ "decide" \in Steps
  BY DEF Types, Steps
<1> QED BY <1>1, NoJobTyped DEF Types, Jobs, Begin, Idle, Mine, Alone

-----------------------------------------------------------------------------
(* What a step of one device must leave *)

\* What leaves a folder or a copy is given up.
Silent ==
  /\ dropped \subseteq dropped'
  /\ \A d \in Devices : local[d] \ local'[d] \subseteq dropped'
  /\ \A a \in Accounts : cloud[a] \ cloud'[a] \subseteq dropped'

\* A device overwrites what its player has seen, and has not done so yet.
Overwrites(e) == job[e].at \in {"decide", "build", "send"} /\ Forced(e)

\* The other devices do nothing, and the copy one of them overwrites does not grow.
Elsewhere(d) ==
  /\ Alone(d)
  /\ \A e \in Devices \ {d} :
       /\ local'[e] = local[e] /\ st'[e] = st[e]
       /\ playing'[e] = playing[e] /\ account'[e] = account[e]
       /\ Overwrites(e) => cloud'[account[e]] \subseteq cloud[account[e]] \cup dropped'

Holds(d) == (\A a \in Accounts : Behind(d, a)) /\ OwnInv(d) /\ UploadInv(d) /\ DownloadInv(d)

\* What a step of device d has to show.
Keeps(d) == Types' /\ Silent /\ Elsewhere(d) /\ Holds(d)'

\* What one device does disturbs no other.
LEMMA OthersKeep ==
  ASSUME IInv, NEW d \in Devices, NEW e \in Devices \ {d}, Silent, Elsewhere(d)
  PROVE  Holds(e)'
<1> USE DEF Silent, Elsewhere, Alone
<1>1. job'[e] = job[e] /\ local'[e] = local[e] /\ st'[e] = st[e] /\ playing'[e] = playing[e]
      /\ account'[e] = account[e] /\ account[e] \in Accounts
  BY DEF IInv, Types
<1>2. /\ \A a \in Accounts : Behind(e, a)
      /\ OwnInv(e) /\ UploadInv(e) /\ DownloadInv(e)
  BY DEF IInv
<1>3. \A a \in Accounts : Behind(e, a)'
  BY <1>1, <1>2 DEF Behind
<1>4. OwnInv(e)'
  BY <1>1, <1>2 DEF OwnInv
<1>5. UploadInv(e)'
  BY <1>1, <1>2 DEF UploadInv, Known, Forced, Overwrites
<1>6. DownloadInv(e)'
  BY <1>1, <1>2 DEF DownloadInv, Known, Running
<1> QED BY <1>3, <1>4, <1>5, <1>6 DEF Holds

\* One device keeps the invariant of all.
LEMMA AllKeep ==
  ASSUME IInv, NEW d \in Devices, Keeps(d)
  PROVE  IInv' /\ Silent
<1>1. \A e \in Devices : Holds(e)'
  BY OthersKeep DEF Keeps
<1> QED BY <1>1 DEF Keeps, IInv, Holds

\* A memory that is not changed stays behind both sides.
LEMMA BehindKeeps ==
  ASSUME IInv, Silent, NEW d \in Devices, NEW a \in Accounts,
         st'[d][a].local = st[d][a].local, st'[d][a].remote \in {{}, st[d][a].remote}
  PROVE  Behind(d, a)'
<1>1. Behind(d, a) BY DEF IInv
<1> QED BY <1>1 DEF Behind, Silent

\* A device that does nothing owes nothing.
LEMMA IdleKeeps ==
  ASSUME NEW d \in Devices, job'[d] = NoJob
  PROVE  OwnInv(d)' /\ UploadInv(d)' /\ DownloadInv(d)'
BY NoJobTyped DEF OwnInv, UploadInv, DownloadInv

\* Nobody's saves change.
Quiet == UNCHANGED <<local, cloud, game, account, dropped>>

\* A step that changes no saves gives nothing up ...
LEMMA QuietSilent == Quiet => Silent
BY DEF Quiet, Silent

\* ... and is none of the others' business.
LEMMA QuietElsewhere ==
  ASSUME NEW d \in Devices, Quiet, Alone(d), \A e \in Devices \ {d} : st'[e] = st[e]
  PROVE  Elsewhere(d)
BY DEF Quiet, Elsewhere, game

-----------------------------------------------------------------------------
(* A pass begins *)

\* A begun job has seen the copy; one that overwrites has shown it to the player.
LEMMA BeginKeeps ==
  ASSUME IInv, NEW d \in Devices, NEW mode \in Modes, Begin(d, mode), Quiet,
         asked' \in 0 .. MaxAsked, UNCHANGED <<switches, faults>>,
         st' \in [Devices -> [Accounts -> Memories]],
         \A e \in Devices, a \in Accounts :
           /\ st'[e][a].local = st[e][a].local /\ st'[e][a].remote = st[e][a].remote
           /\ st'[e][a].conflict = st[e][a].conflict,
         \A e \in Devices : e # d => st'[e] = st[e],
         mode = "keepLocal" => st[d][account[d]].conflict.remote = cloud[account[d]]
  PROVE  Keeps(d)
<1>t. Types BY DEF IInv
<1>1. /\ Alone(d) /\ job'[d].at = "decide" /\ job'[d].mode = mode
      /\ job'[d].owner = account[d] /\ job'[d].seen = cloud[account[d]]
  BY <1>t, BeginSteps
<1>2. Types'
  BY <1>t, <1>1 DEF Types, Alone, Quiet, game
<1>3. Silent /\ Elsewhere(d)
  BY <1>1, QuietSilent, QuietElsewhere
<1>4. \A a \in Accounts : Behind(d, a)'
  BY <1>3, BehindKeeps
<1>a. account[d] \in Accounts
  BY <1>t DEF Types
<1>5. OwnInv(d)' /\ UploadInv(d)' /\ DownloadInv(d)'
  BY <1>1, <1>a DEF OwnInv, UploadInv, DownloadInv, Quiet, Known, Forced
<1> QED BY <1>2, <1>3, <1>4, <1>5 DEF Keeps, Holds

\* What the player asks for is counted.
LEMMA AskSteps ==
  ASSUME Types, Ask
  PROVE  asked' \in 0 .. MaxAsked /\ UNCHANGED <<switches, faults>>
BY CloudSavesConstants DEF Types, Ask

\* A tick begins a pass, ...
LEMMA PassKeeps ==
  ASSUME IInv, NEW d \in Devices, Pass(d)
  PROVE  Keeps(d)
<1>1. Types /\ "auto" \in Modes
  BY DEF IInv, Modes
<1>2. st' = st /\ Quiet /\ asked' = asked /\ UNCHANGED <<switches, faults>> /\ Begin(d, "auto")
  BY DEF Pass, Quiet, bounds
<1> QED BY <1>1, <1>2, BeginKeeps DEF Types

\* ... and so does SyncNow, which lifts an exclusion, ...
LEMMA SyncNowKeeps ==
  ASSUME IInv, NEW d \in Devices, SyncNow(d)
  PROVE  Keeps(d)
<1>1. Types /\ "auto" \in Modes
  BY DEF IInv, Modes
<1>2. Quiet /\ asked' \in 0 .. MaxAsked /\ UNCHANGED <<switches, faults>> /\ Begin(d, "auto")
  BY <1>1, AskSteps DEF SyncNow, Quiet
<1>a. account[d] \in Accounts /\ st[d][account[d]] \in Memories
  BY <1>1 DEF Types
<1> DEFINE s == Lifted(st[d][account[d]])
<1>3. s \in Memories /\ s.local = st[d][account[d]].local /\ s.remote = st[d][account[d]].remote
      /\ s.conflict = st[d][account[d]].conflict
  BY <1>a, SavesSteps, MemorySteps
<1>4. st' = [st EXCEPT ![d][account[d]] = s]
  BY DEF SyncNow, Lifted
<1> HIDE DEF s
<1>5. st' \in [Devices -> [Accounts -> Memories]]
  BY <1>1, <1>3, <1>4, <1>a DEF Types
<1>6. \A e \in Devices : e # d => st'[e] = st[e]
  BY <1>1, <1>4 DEF Types
<1>7. \A e \in Devices, a \in Accounts :
        /\ st'[e][a].local = st[e][a].local /\ st'[e][a].remote = st[e][a].remote
        /\ st'[e][a].conflict = st[e][a].conflict
  BY <1>1, <1>3, <1>4 DEF Types
<1> QED BY <1>1, <1>2, <1>5, <1>6, <1>7, BeginKeeps

\* ... the decision about a conflict, ...
LEMMA ResolveConflictKeeps ==
  ASSUME IInv, Events = {}, NEW d \in Devices, ResolveConflict(d)
  PROVE  Keeps(d)
<1>1. Types /\ "keepLocal" \in Modes /\ "keepRemote" \in Modes
  BY DEF IInv, Modes
<1>2. st' = st /\ Quiet /\ asked' \in 0 .. MaxAsked /\ UNCHANGED <<switches, faults>>
  BY <1>1, AskSteps DEF ResolveConflict, Quiet
<1>3. \/ Begin(d, "keepLocal") /\ st[d][account[d]].conflict.remote = cloud[account[d]]
      \/ Begin(d, "keepRemote")
  BY DEF ResolveConflict, Mine
<1> QED BY <1>1, <1>2, <1>3, BeginKeeps DEF Types

\* ... and the wish to have the copy.
LEMMA PullRemoteKeeps ==
  ASSUME IInv, NEW d \in Devices, PullRemote(d)
  PROVE  Keeps(d)
<1>1. Types /\ "keepRemote" \in Modes
  BY DEF IInv, Modes
<1>2. st' = st /\ Quiet /\ asked' \in 0 .. MaxAsked /\ UNCHANGED <<switches, faults>> /\ Begin(d, "keepRemote")
  BY <1>1, AskSteps DEF PullRemote, Quiet
<1> QED BY <1>1, <1>2, BeginKeeps DEF Types

\* The copy goes, and was given up.
LEMMA DeleteKeeps ==
  ASSUME IInv, NEW d \in Devices, Delete(d)
  PROVE  Keeps(d)
<1>t. Types BY DEF IInv
<1>a. account[d] \in Accounts /\ cloud[account[d]] \in Saves
  BY <1>t DEF Types
<1>1. PICK mode \in {"delete", "forget"} : Starts(d, mode, "deleted")
  BY DEF Delete, Starts
<1>2. mode \in Modes /\ "deleted" \in Steps
  BY DEF Modes, Steps
<1>3. /\ Alone(d) /\ job'[d].at = "deleted" /\ job'[d].mode = mode
      /\ job'[d].owner = account[d] /\ job'[d].seen = {}
  BY <1>t, <1>1, <1>2, StartsSteps
<1>4. /\ cloud' = [cloud EXCEPT ![account[d]] = {}] /\ dropped' = dropped \cup cloud[account[d]]
      /\ UNCHANGED <<local, st, game, account>> /\ asked' \in 0 .. MaxAsked /\ UNCHANGED <<switches, faults>>
  BY <1>t, AskSteps DEF Delete, Mine
<1>5. Types'
  BY <1>t, <1>a, <1>3, <1>4, SavesSteps DEF Types, Alone, game
<1>6. Silent
  BY <1>t, <1>4 DEF Types, Silent
<1>7. Elsewhere(d)
  BY <1>t, <1>3, <1>4 DEF Types, Elsewhere, game
<1>8. \A a \in Accounts : Behind(d, a)'
  BY <1>4, <1>6, BehindKeeps
<1>9. OwnInv(d)' /\ UploadInv(d)' /\ DownloadInv(d)'
  BY <1>2, <1>3, <1>4 DEF OwnInv, UploadInv, DownloadInv
<1> QED BY <1>5, <1>6, <1>7, <1>8, <1>9 DEF Keeps, Holds

-----------------------------------------------------------------------------
(* A pass decides *)

\* What the three digests tell about the saves they stand for.
LEMMA DecideTells ==
  ASSUME NEW mode \in Modes, NEW x \in Saves, NEW s \in Memories, NEW remote \in Saves
  PROVE  LET act == decide(mode, x, s, remote)
         IN  /\ act.ifMatch \in Saves
             /\ act.kind = "synced" => x = remote \/ (remote = s.remote /\ x = s.local)
             /\ act.kind = "upload" /\ mode # "keepLocal" => act.ifMatch \in {{}, s.remote}
             /\ act.kind = "download" /\ mode # "keepRemote" => x \in {{}, s.local}
<1>1. s.remote \in Saves /\ {} \in Saves
  BY SavesSteps DEF Memories
<1> QED BY <1>1 DEF decide, Do, Upload

\* Nothing but the record of device d changes, in a way that is behind both sides.
LEMMA RecordKeeps ==
  ASSUME IInv, NEW d \in Devices, job[d].at # "none", NEW s \in Memories, Commit(d, s), End(d), Quiet, UNCHANGED bounds,
         s.remote \in {{}, s.local},
         s.local \subseteq local[d] \cup dropped, s.local \subseteq cloud[account[d]] \cup dropped
  PROVE  Keeps(d)
<1>t. Types /\ OwnInv(d) BY DEF IInv
<1>1. Alone(d) /\ job'[d] = NoJob
  BY <1>t, EndSteps
<1>2. job[d].owner = account[d]
  BY <1>t DEF OwnInv
<1>3. /\ st' \in [Devices -> [Accounts -> Memories]] /\ st'[d][account[d]] = s
      /\ \A a \in Accounts : a # account[d] => st'[d][a] = st[d][a]
      /\ \A e \in Devices : e # d => st'[e] = st[e]
  BY <1>t, <1>2, CommitSteps
<1>4. Types'
  BY <1>t, <1>1, <1>3 DEF Types, Alone, Quiet, game, bounds
<1>5. Silent /\ Elsewhere(d)
  BY <1>1, <1>3, QuietSilent, QuietElsewhere
<1>6. Behind(d, account[d])'
  BY <1>3 DEF Behind, Quiet
<1>7. \A a \in Accounts : a # account[d] => Behind(d, a)'
  BY <1>3, <1>5, BehindKeeps
<1>8. \A a \in Accounts : Behind(d, a)'
  BY <1>6, <1>7 DEF Quiet
<1>9. OwnInv(d)' /\ UploadInv(d)' /\ DownloadInv(d)'
  BY <1>1, IdleKeeps
<1> QED BY <1>4, <1>5, <1>8, <1>9 DEF Keeps, Holds

\* The job goes on and nothing else happens.
LEMMA GoesOnKeeps ==
  ASSUME IInv, NEW d \in Devices, Alone(d), Quiet, UNCHANGED <<st, bounds>>,
         OwnInv(d)', UploadInv(d)', DownloadInv(d)'
  PROVE  Keeps(d)
<1>1. Types'
  BY DEF IInv, Types, Alone, Quiet, game, bounds
<1>2. Silent /\ Elsewhere(d)
  BY QuietSilent, QuietElsewhere
<1>3. \A a \in Accounts : Behind(d, a)'
  BY <1>2, BehindKeeps
<1> QED BY <1>1, <1>2, <1>3 DEF Keeps, Holds

\* What is known of a device that has a job.
LEMMA JobFacts ==
  ASSUME IInv, NEW d \in Devices, job[d].at # "none"
  PROVE  /\ Types /\ account[d] \in Accounts /\ job[d].owner = account[d] /\ job[d] \in Jobs
         /\ job[d].mode \in Modes /\ {job[d].seen, job[d].of, job[d].ifMatch} \subseteq Saves
         /\ local[d] \in Saves /\ cloud[account[d]] \in Saves
         /\ Known(d) = st[d][account[d]] /\ Known(d) \in Memories
         /\ {Known(d).local, Known(d).remote, Known(d).conflict.remote} \subseteq Saves
         /\ Known(d).remote \in {{}, Known(d).local}
         /\ Known(d).local \subseteq local[d] \cup dropped
         /\ Known(d).local \subseteq cloud[account[d]] \cup dropped
         /\ job[d].seen \subseteq cloud[account[d]] \cup dropped
         /\ OwnInv(d) /\ UploadInv(d) /\ DownloadInv(d)
<1>1. /\ Types /\ account[d] \in Accounts /\ job[d] \in Jobs /\ OwnInv(d) /\ UploadInv(d) /\ DownloadInv(d)
      /\ Behind(d, account[d]) /\ local[d] \in Saves /\ cloud[account[d]] \in Saves
      /\ st[d][account[d]] \in Memories
  BY DEF IInv, Types
<1>2. job[d].owner = account[d] /\ job[d].seen \subseteq cloud[account[d]] \cup dropped
  BY <1>1 DEF OwnInv
<1>3. Known(d) = st[d][account[d]]
  BY <1>2 DEF Known
<1>4. /\ job[d].mode \in Modes /\ {job[d].seen, job[d].of, job[d].ifMatch} \subseteq Saves
      /\ {Known(d).local, Known(d).remote, Known(d).conflict.remote} \subseteq Saves
  BY <1>1, <1>3 DEF Jobs, Memories, Conflicts
<1> QED BY <1>1, <1>2, <1>3, <1>4 DEF Behind

\* The record of a copy that was deleted goes after it.
LEMMA DeletedKeeps ==
  ASSUME IInv, NEW d \in Devices, Deleted(d)
  PROVE  Keeps(d)
<1>1. job[d].at # "none" /\ End(d) /\ Quiet /\ UNCHANGED bounds
  BY DEF Deleted, At, Quiet
<1>2. Commit(d, Excluding(job[d].mode = "delete"))
  BY DEF Deleted, Excluding
<1>3. (job[d].mode = "delete") \in BOOLEAN
  OBVIOUS
<1> QED BY <1>1, <1>2, <1>3, ExcludingSteps, RecordKeeps

\* What syncGame decides, at the digests it has read.
LEMMA DecideKeeps ==
  ASSUME IInv, NEW d \in Devices, Decide(d)
  PROVE  Keeps(d)
<1> DEFINE act == decide(job[d].mode, local[d], Known(d), job[d].seen)
<1>1. job[d].at = "decide" /\ Quiet /\ UNCHANGED bounds
  BY DEF Decide, At, Quiet
<1>2. \/ End(d) /\ UNCHANGED st
      \/ act.kind = "synced" /\ End(d) /\ Commit(d, Reached(Known(d), local[d], job[d].seen))
      \/ act.kind = "conflict" /\ End(d) /\ Commit(d, Clash(Known(d), job[d].seen))
      \/ act.kind = "upload" /\ UNCHANGED st /\ Sends(d, "build", act.ifMatch)
      \/ act.kind = "download" /\ ~Running(d) /\ Goto(d, "fetch") /\ UNCHANGED st
  BY DEF Decide, Skips, Reached, Sends
<1>3. /\ account[d] \in Accounts /\ job[d].owner = account[d] /\ Types
      /\ job[d].mode \in Modes /\ {job[d].seen, job[d].of, job[d].ifMatch} \subseteq Saves
      /\ local[d] \in Saves /\ Known(d) = st[d][account[d]] /\ Known(d) \in Memories
      /\ Known(d).remote \in {{}, Known(d).local}
      /\ Known(d).local \subseteq local[d] \cup dropped
      /\ Known(d).local \subseteq cloud[account[d]] \cup dropped
      /\ job[d].seen \subseteq cloud[account[d]] \cup dropped /\ UploadInv(d)
  BY <1>1, JobFacts
<1>4. /\ act.ifMatch \in Saves
      /\ act.kind = "synced" => local[d] = job[d].seen \/ (job[d].seen = Known(d).remote /\ local[d] = Known(d).local)
      /\ act.kind = "upload" /\ job[d].mode # "keepLocal" => act.ifMatch \in {{}, Known(d).remote}
      /\ act.kind = "download" /\ job[d].mode # "keepRemote" => local[d] \in {{}, Known(d).local}
  BY <1>3, DecideTells
<1> HIDE DEF act
<1>5. CASE End(d) /\ UNCHANGED st
  BY <1>1, <1>3, <1>5, EndSteps, IdleKeeps, GoesOnKeeps
<1>6. CASE act.kind = "synced" /\ End(d) /\ Commit(d, Reached(Known(d), local[d], job[d].seen))
  <2> DEFINE s == Reached(Known(d), local[d], job[d].seen)
  <2>0. Known(d) \in Memories /\ local[d] \in Saves /\ job[d].seen \in Saves
    BY <1>3
  <2>1. s \in Memories /\ s.local = local[d] /\ s.remote = job[d].seen
    BY <2>0, MemorySteps
  <2> HIDE DEF s
  <2>2. /\ s.remote \in {{}, s.local}
        /\ s.local \subseteq local[d] \cup dropped /\ s.local \subseteq cloud[account[d]] \cup dropped
    BY <1>3, <1>4, <1>6, <2>1
  <2>3. Commit(d, s)
    BY <1>6 DEF s
  <2> QED BY <1>1, <1>6, <2>1, <2>2, <2>3, RecordKeeps
<1>7. CASE act.kind = "conflict" /\ End(d) /\ Commit(d, Clash(Known(d), job[d].seen))
  <2>1. Clash(Known(d), job[d].seen) \in Memories /\ Clash(Known(d), job[d].seen).local = Known(d).local
        /\ Clash(Known(d), job[d].seen).remote = Known(d).remote
    BY <1>3, MemorySteps
  <2> QED BY <1>1, <1>3, <1>7, <2>1, RecordKeeps
<1>8. CASE act.kind = "upload" /\ UNCHANGED st /\ Sends(d, "build", act.ifMatch)
  <2>1. "build" \in Steps
    BY DEF Steps
  <2>2. /\ Alone(d) /\ job'[d].at = "build" /\ job'[d].mode = job[d].mode /\ job'[d].owner = job[d].owner
        /\ job'[d].seen = job[d].seen /\ job'[d].ifMatch = act.ifMatch
    BY <1>3, <1>4, <1>8, <2>1, SendsSteps
  <2>3. OwnInv(d)' /\ DownloadInv(d)'
    BY <1>1, <1>3, <2>2 DEF OwnInv, DownloadInv, Quiet
  <2>4. UploadInv(d)'
    BY <1>1, <1>3, <1>4, <1>8, <2>2 DEF UploadInv, Quiet, Known, Forced
  <2> QED BY <1>1, <1>8, <2>2, <2>3, <2>4, GoesOnKeeps
<1>9. CASE act.kind = "download" /\ ~Running(d) /\ Goto(d, "fetch") /\ UNCHANGED st
  <2>1. "fetch" \in Steps
    BY DEF Steps
  <2>2. /\ Alone(d) /\ job'[d].at = "fetch" /\ job'[d].mode = job[d].mode /\ job'[d].owner = job[d].owner
        /\ job'[d].seen = job[d].seen
    BY <1>3, <1>9, <2>1, GotoSteps
  <2>3. OwnInv(d)' /\ UploadInv(d)'
    BY <1>1, <1>3, <2>2 DEF OwnInv, UploadInv, Quiet
  <2>4. DownloadInv(d)'
    BY <1>1, <1>3, <1>4, <1>9, <2>2 DEF DownloadInv, Quiet, Known
  <2> QED BY <1>1, <1>9, <2>2, <2>3, <2>4, GoesOnKeeps
<1> QED BY <1>2, <1>5, <1>6, <1>7, <1>8, <1>9

-----------------------------------------------------------------------------
(* An upload *)

\* The archive contains what the device last agreed on.
LEMMA BuildKeeps ==
  ASSUME IInv, NEW d \in Devices, Build(d)
  PROVE  Keeps(d)
<1>1. job[d].at = "build" /\ Quiet /\ UNCHANGED <<st, bounds>> /\ Takes(d, "send", local[d])
  BY DEF Build, At, Quiet, Takes
<1>2. /\ Types /\ local[d] \in Saves /\ job[d].owner = account[d] /\ Known(d) = st[d][account[d]]
      /\ Known(d).remote \in {{}, Known(d).local} /\ Known(d).local \subseteq local[d] \cup dropped
      /\ job[d].seen \subseteq cloud[account[d]] \cup dropped /\ UploadInv(d)
  BY <1>1, JobFacts
<1>3. "send" \in Steps
  BY DEF Steps
<1>4. /\ Alone(d) /\ job'[d].at = "send" /\ job'[d].mode = job[d].mode /\ job'[d].owner = job[d].owner
      /\ job'[d].seen = job[d].seen /\ job'[d].of = local[d] /\ job'[d].ifMatch = job[d].ifMatch
  BY <1>1, <1>2, <1>3, TakesSteps
<1>5. OwnInv(d)' /\ DownloadInv(d)'
  BY <1>1, <1>2, <1>4 DEF OwnInv, DownloadInv, Quiet
<1>6. UploadInv(d)'
  BY <1>1, <1>2, <1>4 DEF UploadInv, Quiet, Known, Forced
<1> QED BY <1>1, <1>4, <1>5, <1>6, GoesOnKeeps

\* A device that overwrites what its player has seen keeps the others from sending.
LEMMA OverwriterWaits ==
  ASSUME IInv, Events = {}, NEW d \in Devices, ~Overwriting(d), NEW e \in Devices \ {d}, account[e] = account[d]
  PROVE  ~Overwrites(e)
BY NoJobTyped DEF Overwriting, Overwrites, Idle

\* The server stores what device d sends: what it replaces is in it, or given up.
LEMMA StoredKeeps ==
  ASSUME IInv, Events = {}, NEW d \in Devices, job[d].at \in {"send", "again"}, Stored(d), Accepts(d), ~Overwriting(d),
         dropped' = IF Forced(d) THEN dropped \cup (Known(d).conflict.remote \ job[d].of) ELSE dropped,
         UNCHANGED <<local, st, game, account, switches, asked>>, faults' \in 0 .. MaxFaults, Alone(d),
         job'[d] = NoJob \/ (/\ job'[d].at = "uploaded" /\ job'[d].mode = job[d].mode /\ job'[d].owner = job[d].owner
                             /\ job'[d].seen = job[d].seen /\ job'[d].of = job[d].of)
  PROVE  Keeps(d)
<1>1. /\ Types /\ account[d] \in Accounts /\ job[d].owner = account[d] /\ Known(d) = st[d][account[d]]
      /\ {job[d].of, job[d].ifMatch, Known(d).conflict.remote} \subseteq Saves
      /\ job[d].seen \subseteq cloud[account[d]] \cup dropped /\ UploadInv(d)
  BY JobFacts
<1>2. cloud' = [cloud EXCEPT ![account[d]] = job[d].of]
  BY DEF Stored
<1>3. cloud' \in [Accounts -> Saves] /\ cloud'[account[d]] = job[d].of
      /\ \A a \in Accounts : a # account[d] => cloud'[a] = cloud[a]
  BY <1>1, <1>2 DEF Types
<1>4. dropped' \in Saves /\ dropped \subseteq dropped'
  BY <1>1, SavesSteps DEF Types
<1>5. Types'
  BY <1>1, <1>3, <1>4 DEF Types, Alone, game
<1>6. cloud[account[d]] \ job[d].of \subseteq dropped'
  <2>1. CASE Forced(d)
    BY <1>1, <2>1 DEF UploadInv
  <2>2. CASE ~Forced(d)
    BY <1>1, <2>2 DEF UploadInv, Accepts, Mine
  <2> QED BY <2>1, <2>2
<1>7. Silent
  BY <1>3, <1>4, <1>6 DEF Silent
<1>8. Elsewhere(d)
  <2>1. \A e \in Devices \ {d} : account[e] \in Accounts
    BY <1>1 DEF Types
  <2> QED BY <1>3, <2>1, OverwriterWaits DEF Elsewhere, game
<1>9. \A a \in Accounts : Behind(d, a)'
  BY <1>7, BehindKeeps
<1>10. CASE job'[d] = NoJob
  BY <1>5, <1>7, <1>8, <1>9, <1>10, IdleKeeps DEF Keeps, Holds
<1>11. CASE /\ job'[d].at = "uploaded" /\ job'[d].mode = job[d].mode /\ job'[d].owner = job[d].owner
            /\ job'[d].seen = job[d].seen /\ job'[d].of = job[d].of
  <2>1. OwnInv(d)' /\ DownloadInv(d)'
    BY <1>1, <1>3, <1>6, <1>4, <1>11 DEF OwnInv, DownloadInv
  <2>2. UploadInv(d)'
    BY <1>1, <1>3, <1>4, <1>11 DEF UploadInv
  <2> QED BY <1>5, <1>7, <1>8, <1>9, <2>1, <2>2 DEF Keeps, Holds
<1> QED BY <1>10, <1>11

\* The answers to an upload: taken, refused, or there is nothing to refuse it for.
LEMMA SendKeeps ==
  ASSUME IInv, Events = {}, NEW d \in Devices, Send(d)
  PROVE  Keeps(d)
<1>1. job[d].at = "send" /\ ~Overwriting(d) /\ UNCHANGED <<local, game, account, bounds>>
  BY DEF Send, At
<1>2. /\ Types /\ account[d] \in Accounts /\ job[d].owner = account[d] /\ Known(d) = st[d][account[d]]
      /\ cloud[account[d]] \in Saves /\ Known(d) \in Memories
      /\ Known(d).remote \in {{}, Known(d).local} /\ Known(d).local \subseteq local[d] \cup dropped
      /\ Known(d).local \subseteq cloud[account[d]] \cup dropped
      /\ job[d].seen \subseteq cloud[account[d]] \cup dropped /\ UploadInv(d)
  BY <1>1, JobFacts
<1>3. UNCHANGED <<switches, asked, faults>> /\ faults' \in 0 .. MaxFaults
  BY <1>1, <1>2 DEF bounds, Types
<1>4. CASE /\ Accepts(d) /\ Stored(d) /\ Goto(d, "uploaded") /\ UNCHANGED st
           /\ dropped' = IF Forced(d) THEN dropped \cup (Known(d).conflict.remote \ job[d].of) ELSE dropped
  <2>1. "uploaded" \in Steps
    BY DEF Steps
  <2>2. /\ Alone(d) /\ job'[d].at = "uploaded" /\ job'[d].mode = job[d].mode /\ job'[d].owner = job[d].owner
        /\ job'[d].seen = job[d].seen /\ job'[d].of = job[d].of
    BY <1>2, <1>4, <2>1, GotoSteps
  <2> QED BY <1>1, <1>3, <1>4, <2>2, StoredKeeps
<1>5. CASE End(d) /\ Commit(d, Clash(Known(d), Mine(d))) /\ UNCHANGED <<cloud, dropped>>
  <2>1. Clash(Known(d), Mine(d)) \in Memories /\ Clash(Known(d), Mine(d)).local = Known(d).local
        /\ Clash(Known(d), Mine(d)).remote = Known(d).remote
    BY <1>2, MemorySteps DEF Mine
  <2>2. Quiet
    BY <1>1, <1>5 DEF Quiet
  <2> QED BY <1>1, <1>2, <1>5, <2>1, <2>2, RecordKeeps
<1>6. CASE /\ ~Accepts(d) /\ Sends(d, "again", {}) /\ Commit(d, Unseen(Known(d))) /\ UNCHANGED <<cloud, dropped>>
  <2>1. "again" \in Steps /\ {} \in Saves
    BY SavesSteps DEF Steps
  <2>2. /\ Alone(d) /\ job'[d].at = "again" /\ job'[d].mode = job[d].mode /\ job'[d].owner = job[d].owner
        /\ job'[d].seen = job[d].seen /\ job'[d].of = job[d].of /\ job'[d].ifMatch = {}
    BY <1>2, <1>6, <2>1, SendsSteps
  <2> DEFINE s == Unseen(Known(d))
  <2>3. s \in Memories /\ s.local = Known(d).local /\ s.remote = {} /\ Commit(d, s)
    BY <1>2, <1>6, <2>1, MemorySteps
  <2> HIDE DEF s
  <2>4. /\ st' \in [Devices -> [Accounts -> Memories]] /\ st'[d][account[d]] = s
        /\ \A a \in Accounts : a # account[d] => st'[d][a] = st[d][a]
        /\ \A e \in Devices : e # d => st'[e] = st[e]
    BY <1>2, <2>3, CommitSteps
  <2>5. Quiet
    BY <1>1, <1>6 DEF Quiet
  <2>6. Types'
    BY <1>1, <1>2, <2>2, <2>4, <2>5 DEF Types, Alone, Quiet, game, bounds
  <2>7. Silent /\ Elsewhere(d)
    BY <2>2, <2>4, <2>5, QuietSilent, QuietElsewhere
  <2>8. \A a \in Accounts : st'[d][a].local = st[d][a].local /\ st'[d][a].remote \in {{}, st[d][a].remote}
    BY <1>2, <2>3, <2>4
  <2>9. \A a \in Accounts : Behind(d, a)'
    BY <2>7, <2>8, BehindKeeps
  <2>10. OwnInv(d)' /\ DownloadInv(d)'
    BY <1>1, <1>2, <2>2, <2>5 DEF OwnInv, DownloadInv, Quiet
  <2>11. UploadInv(d)'
    BY <1>1, <1>2, <1>6, <2>2, <2>5 DEF UploadInv, Quiet, Accepts, Forced
  <2> QED BY <2>6, <2>7, <2>9, <2>10, <2>11 DEF Keeps, Holds
<1> QED BY <1>4, <1>5, <1>6 DEF Send, Sends, Unseen

\* A first upload goes through only where there is no copy.
LEMMA SendAgainKeeps ==
  ASSUME IInv, Events = {}, NEW d \in Devices, SendAgain(d)
  PROVE  Keeps(d)
<1>1. job[d].at = "again" /\ ~Overwriting(d) /\ UNCHANGED <<local, st, game, account, dropped, bounds>>
  BY DEF SendAgain, At
<1>2. Types /\ UploadInv(d)
  BY <1>1, JobFacts
<1>3. UNCHANGED <<switches, asked, faults>> /\ faults' \in 0 .. MaxFaults /\ ~Forced(d)
  BY <1>1, <1>2 DEF bounds, Types, UploadInv
<1>4. CASE Accepts(d) /\ Stored(d) /\ Goto(d, "uploaded")
  <2>1. "uploaded" \in Steps
    BY DEF Steps
  <2>2. /\ Alone(d) /\ job'[d].at = "uploaded" /\ job'[d].mode = job[d].mode /\ job'[d].owner = job[d].owner
        /\ job'[d].seen = job[d].seen /\ job'[d].of = job[d].of
    BY <1>2, <1>4, <2>1, GotoSteps
  <2>3. dropped' = IF Forced(d) THEN dropped \cup (Known(d).conflict.remote \ job[d].of) ELSE dropped
    BY <1>1, <1>3
  <2> QED BY <1>1, <1>3, <1>4, <2>2, <2>3, StoredKeeps
<1>5. CASE End(d) /\ UNCHANGED cloud
  <2>1. Quiet
    BY <1>1, <1>5 DEF Quiet
  <2> QED BY <1>1, <1>2, <1>5, <2>1, EndSteps, IdleKeeps, GoesOnKeeps
<1> QED BY <1>4, <1>5 DEF SendAgain

\* The upload is recorded: both sides have it.
LEMMA UploadedKeeps ==
  ASSUME IInv, NEW d \in Devices, Uploaded(d)
  PROVE  Keeps(d)
<1>1. job[d].at = "uploaded" /\ Quiet /\ UNCHANGED bounds /\ End(d) /\ Commit(d, Agreed(Known(d), job[d].of))
  BY DEF Uploaded, At, Quiet
<1>2. Known(d) \in Memories /\ job[d].of \in Saves /\ UploadInv(d)
  BY <1>1, JobFacts
<1>3. Agreed(Known(d), job[d].of) \in Memories /\ Agreed(Known(d), job[d].of).local = job[d].of
      /\ Agreed(Known(d), job[d].of).remote = job[d].of
  BY <1>2, MemorySteps
<1>4. job[d].of \subseteq local[d] \cup dropped /\ job[d].of \subseteq cloud[account[d]] \cup dropped
  BY <1>1, <1>2 DEF UploadInv
<1> QED BY <1>1, <1>3, <1>4, RecordKeeps

-----------------------------------------------------------------------------
(* A download *)

\* The copy that is fetched contains the last agreement, and so the folder.
LEMMA FetchKeeps ==
  ASSUME IInv, NEW d \in Devices, Fetch(d)
  PROVE  Keeps(d)
<1>1. job[d].at = "fetch" /\ Quiet /\ UNCHANGED <<st, bounds>>
  BY DEF Fetch, At, Quiet
<1>2. /\ Types /\ cloud[account[d]] \in Saves /\ job[d].owner = account[d] /\ Known(d) = st[d][account[d]]
      /\ Known(d).local \subseteq cloud[account[d]] \cup dropped
      /\ job[d].seen \subseteq cloud[account[d]] \cup dropped /\ DownloadInv(d)
  BY <1>1, JobFacts
<1>3. CASE Takes(d, "restore", cloud[account[d]])
  <2>1. "restore" \in Steps
    BY DEF Steps
  <2>2. /\ Alone(d) /\ job'[d].at = "restore" /\ job'[d].mode = job[d].mode /\ job'[d].owner = job[d].owner
        /\ job'[d].seen = job[d].seen /\ job'[d].of = cloud[account[d]]
    BY <1>2, <1>3, <2>1, TakesSteps
  <2>3. OwnInv(d)' /\ UploadInv(d)'
    BY <1>1, <1>2, <2>2 DEF OwnInv, UploadInv, Quiet
  <2>4. DownloadInv(d)'
    BY <1>1, <1>2, <2>2 DEF DownloadInv, Quiet, game, Running
  <2> QED BY <1>1, <2>2, <2>3, <2>4, GoesOnKeeps
<1>4. CASE End(d)
  BY <1>1, <1>2, <1>4, EndSteps, IdleKeeps, GoesOnKeeps
<1> QED BY <1>3, <1>4 DEF Fetch, Takes, Mine

\* What the folder loses is in the copy, or given up.
LEMMA RestoreKeeps ==
  ASSUME IInv, NEW d \in Devices, Restore(d)
  PROVE  Keeps(d)
<1>1. job[d].at = "restore" /\ UNCHANGED <<cloud, st, game, account, bounds>>
  BY DEF Restore, At
<1>2. /\ Types /\ account[d] \in Accounts /\ job[d].owner = account[d] /\ job[d].of \in Saves /\ local[d] \in Saves
      /\ job[d].seen \subseteq cloud[account[d]] \cup dropped /\ DownloadInv(d)
  BY <1>1, JobFacts
<1>3. CASE End(d) /\ UNCHANGED <<local, dropped>>
  <2>1. Quiet /\ UNCHANGED <<st, bounds>>
    BY <1>1, <1>3 DEF Quiet
  <2> QED BY <1>2, <1>3, <2>1, EndSteps, IdleKeeps, GoesOnKeeps
<1>4. CASE /\ ~Running(d) /\ Goto(d, "restored") /\ local' = [local EXCEPT ![d] = job[d].of]
           /\ dropped' = IF job[d].mode = "keepRemote" THEN dropped \cup (local[d] \ job[d].of) ELSE dropped
  <2>1. "restored" \in Steps
    BY DEF Steps
  <2>2. /\ Alone(d) /\ job'[d].at = "restored" /\ job'[d].mode = job[d].mode /\ job'[d].owner = job[d].owner
        /\ job'[d].seen = job[d].seen /\ job'[d].of = job[d].of
    BY <1>2, <1>4, <2>1, GotoSteps
  <2>3. local' \in [Devices -> Saves] /\ local'[d] = job[d].of /\ \A e \in Devices : e # d => local'[e] = local[e]
    BY <1>2, <1>4 DEF Types
  <2>4. dropped' \in Saves /\ dropped \subseteq dropped'
    BY <1>2, <1>4, SavesSteps DEF Types
  <2>5. Types'
    BY <1>1, <1>2, <2>2, <2>3, <2>4 DEF Types, Alone, game, bounds
  <2>6. local[d] \ job[d].of \subseteq dropped'
    BY <1>1, <1>2, <1>4 DEF DownloadInv
  <2>7. Silent
    BY <1>1, <2>3, <2>4, <2>6 DEF Silent
  <2>8. Elsewhere(d)
    BY <1>1, <2>2, <2>3 DEF Elsewhere, game
  <2>9. \A a \in Accounts : Behind(d, a)'
    BY <1>1, <2>7, BehindKeeps
  <2>10. OwnInv(d)' /\ UploadInv(d)'
    BY <1>1, <1>2, <2>2, <2>4 DEF OwnInv, UploadInv
  <2>11. DownloadInv(d)'
    BY <1>1, <1>2, <2>2, <2>3, <2>4 DEF DownloadInv
  <2> QED BY <2>5, <2>7, <2>8, <2>9, <2>10, <2>11 DEF Keeps, Holds
<1> QED BY <1>3, <1>4 DEF Restore

\* The download is recorded: both sides have it.
LEMMA RestoredKeeps ==
  ASSUME IInv, NEW d \in Devices, Restored(d)
  PROVE  Keeps(d)
<1>1. job[d].at = "restored" /\ Quiet /\ UNCHANGED bounds /\ End(d) /\ Commit(d, Agreed(Known(d), job[d].of))
  BY DEF Restored, At, Quiet
<1>2. Known(d) \in Memories /\ job[d].of \in Saves /\ DownloadInv(d)
  BY <1>1, JobFacts
<1>3. Agreed(Known(d), job[d].of) \in Memories /\ Agreed(Known(d), job[d].of).local = job[d].of
      /\ Agreed(Known(d), job[d].of).remote = job[d].of
  BY <1>2, MemorySteps
<1>4. job[d].of \subseteq local[d] \cup dropped /\ job[d].of \subseteq cloud[account[d]] \cup dropped
  BY <1>1, <1>2 DEF DownloadInv
<1> QED BY <1>1, <1>3, <1>4, RecordKeeps

-----------------------------------------------------------------------------
(* What happens around it *)

\* Wherever a pass breaks off, what it leaves behind is sound.
LEMMA FailsKeeps ==
  ASSUME IInv, Events = {}, NEW d \in Devices, Fails(d)
  PROVE  Keeps(d)
<1>1. Types BY DEF IInv
<1>2. Alone(d) /\ job'[d] = NoJob
  BY <1>1, EndSteps DEF Fails
<1>3. UNCHANGED <<local, st, game, account, asked, switches>> /\ faults' \in 0 .. MaxFaults
  BY <1>1, CloudSavesConstants DEF Fails, Types
<1>4. CASE UNCHANGED <<cloud, dropped>>
  <2>1. Quiet
    BY <1>3, <1>4 DEF Quiet
  <2>2. Types'
    BY <1>1, <1>2, <1>3, <1>4 DEF Types, Alone, game
  <2>3. Silent /\ Elsewhere(d)
    BY <1>2, <1>3, <2>1, QuietSilent, QuietElsewhere
  <2>4. \A a \in Accounts : Behind(d, a)'
    BY <1>3, <2>3, BehindKeeps
  <2> QED BY <1>2, <2>2, <2>3, <2>4, IdleKeeps DEF Keeps, Holds
<1>5. CASE /\ job[d].at = "send" /\ Accepts(d) /\ ~Overwriting(d) /\ Stored(d)
           /\ dropped' = IF Forced(d) THEN dropped \cup (Known(d).conflict.remote \ job[d].of) ELSE dropped
  BY <1>2, <1>3, <1>5, StoredKeeps
<1> QED BY <1>4, <1>5 DEF Fails, At

\* A session puts its number into the saves of its device.
LEMMA PlayedKeeps ==
  ASSUME IInv, NEW d \in Devices, Running(d)', Types', UNCHANGED <<cloud, st, job, account, dropped>>,
         local[d] \subseteq local'[d],
         \A e \in Devices \ {d} : local'[e] = local[e] /\ playing'[e] = playing[e]
  PROVE  Keeps(d)
<1>1. Types /\ OwnInv(d) /\ UploadInv(d) /\ DownloadInv(d)
  BY DEF IInv
<1>2. Silent
  BY DEF Silent
<1>3. Elsewhere(d)
  BY <1>1 DEF Elsewhere, Alone, Types
<1>4. \A a \in Accounts : Behind(d, a)'
  BY <1>2, BehindKeeps
<1>5. OwnInv(d)'
  BY <1>1 DEF OwnInv
<1>6. UploadInv(d)'
  BY <1>1 DEF UploadInv, Known, Forced
<1>7. DownloadInv(d)'
  BY <1>1 DEF DownloadInv
<1> QED BY <1>2, <1>3, <1>4, <1>5, <1>6, <1>7 DEF Keeps, Holds

\* A game starts, ...
LEMMA StartKeeps ==
  ASSUME IInv, NEW d \in Devices, Start(d)
  PROVE  Keeps(d)
<1>1. Types BY DEF IInv
<1>2. /\ plays + 1 \in 1 .. MaxPlays /\ plays' = plays + 1 /\ playing' = [playing EXCEPT ![d] = plays + 1]
      /\ UNCHANGED <<local, cloud, st, job, account, dropped, bounds>>
  BY <1>1, CloudSavesConstants DEF Start, Types
<1>3. playing' \in [Devices -> 0 .. MaxPlays] /\ playing'[d] = plays + 1
      /\ \A e \in Devices \ {d} : playing'[e] = playing[e]
  BY <1>1, <1>2 DEF Types
<1>4. Types'
  BY <1>1, <1>2, <1>3 DEF Types, bounds
<1>5. Running(d)'
  BY <1>2, <1>3 DEF Running
<1> QED BY <1>2, <1>3, <1>4, <1>5, PlayedKeeps

\* ... it saves, ...
LEMMA PlayKeeps ==
  ASSUME IInv, NEW d \in Devices, Play(d)
  PROVE  Keeps(d)
<1>1. Types BY DEF IInv
<1>2. /\ playing[d] \in 1 .. MaxPlays /\ local[d] \in Saves
      /\ local' = [local EXCEPT ![d] = local[d] \cup {playing[d]}]
      /\ UNCHANGED <<cloud, st, job, game, account, dropped, bounds>>
  BY <1>1, CloudSavesConstants DEF Play, Types, Running
<1>3. local[d] \cup {playing[d]} \in Saves
  BY <1>2, SavesSteps
<1>4. local' \in [Devices -> Saves] /\ local[d] \subseteq local'[d]
      /\ \A e \in Devices \ {d} : local'[e] = local[e]
  BY <1>1, <1>2, <1>3 DEF Types
<1>5. Types'
  BY <1>1, <1>2, <1>4 DEF Types, bounds, game
<1>6. Running(d)' /\ UNCHANGED playing
  BY <1>2 DEF Play, Running, game
<1> QED BY <1>2, <1>4, <1>5, <1>6, PlayedKeeps

\* ... and it is closed, not in the middle of a download.
LEMMA StopKeeps ==
  ASSUME IInv, Events = {}, NEW d \in Devices, Stop(d)
  PROVE  Keeps(d)
<1>1. Types /\ OwnInv(d) /\ UploadInv(d) /\ DownloadInv(d)
  BY DEF IInv
<1>2. /\ playing' = [playing EXCEPT ![d] = 0] /\ job[d].at \notin {"fetch", "restore"}
      /\ UNCHANGED <<local, cloud, st, job, plays, account, dropped, bounds>>
  BY DEF Stop
<1>3. playing' \in [Devices -> 0 .. MaxPlays] /\ \A e \in Devices \ {d} : playing'[e] = playing[e]
  BY <1>1, <1>2, CloudSavesConstants DEF Types
<1>4. Types'
  BY <1>1, <1>2, <1>3 DEF Types, bounds
<1>5. Silent
  BY <1>2 DEF Silent
<1>6. Elsewhere(d)
  BY <1>1, <1>2, <1>3 DEF Elsewhere, Alone, Types
<1>7. \A a \in Accounts : Behind(d, a)'
  BY <1>2, <1>5, BehindKeeps
<1>8. OwnInv(d)'
  BY <1>1, <1>2 DEF OwnInv
<1>9. UploadInv(d)'
  BY <1>1, <1>2 DEF UploadInv, Known, Forced
<1>10. DownloadInv(d)'
  BY <1>1, <1>2 DEF DownloadInv
<1> QED BY <1>4, <1>5, <1>6, <1>7, <1>8, <1>9, <1>10 DEF Keeps, Holds

\* Another account signs in where no pass is running.
LEMMA SwitchKeeps ==
  ASSUME IInv, Events = {}, NEW d \in Devices, Switch(d)
  PROVE  Keeps(d)
<1>1. Types BY DEF IInv
<1>2. /\ job[d] = NoJob /\ switches' \in 0 .. MaxSwitches
      /\ UNCHANGED <<local, cloud, st, job, game, dropped, asked, faults>>
  BY <1>1, CloudSavesConstants DEF Switch, Idle, Types
<1>3. PICK a \in Accounts : account' = [account EXCEPT ![d] = a]
  BY DEF Switch
<1>4. account' \in [Devices -> Accounts] /\ \A e \in Devices \ {d} : account'[e] = account[e]
  BY <1>1, <1>3 DEF Types
<1>5. Types'
  BY <1>1, <1>2, <1>4 DEF Types, game
<1>6. Silent
  BY <1>2 DEF Silent
<1>7. Elsewhere(d)
  BY <1>1, <1>2, <1>4 DEF Elsewhere, Alone, Types, game
<1>8. \A b \in Accounts : Behind(d, b)'
  BY <1>2, <1>6, BehindKeeps
<1> QED BY <1>2, <1>5, <1>6, <1>7, <1>8, IdleKeeps DEF Keeps, Holds

-----------------------------------------------------------------------------
(* The theorems *)

\* The invariant holds where nothing has been saved yet ...
LEMMA InitIInv == Init => IInv
<1> SUFFICES ASSUME Init PROVE IInv
  OBVIOUS
<1>1. /\ local = [d \in Devices |-> {}] /\ cloud = [a \in Accounts |-> {}] /\ dropped = {}
      /\ st = [d \in Devices |-> [a \in Accounts |-> Blank]] /\ job = [d \in Devices |-> NoJob]
      /\ playing = [d \in Devices |-> 0] /\ account \in [Devices -> Accounts]
      /\ plays = 0 /\ asked = 0 /\ switches = 0 /\ faults = 0
  BY DEF Init
<1>2. Types
  BY <1>1, BlankTyped, NoJobTyped, SavesSteps, CloudSavesConstants DEF Types
<1>3. \A d \in Devices, a \in Accounts : Behind(d, a)
  BY <1>1, BlankTyped DEF Behind
<1>4. \A d \in Devices : OwnInv(d) /\ UploadInv(d) /\ DownloadInv(d)
  BY <1>1, NoJobTyped DEF OwnInv, UploadInv, DownloadInv
<1> QED BY <1>2, <1>3, <1>4 DEF IInv

\* Every step keeps the invariant and gives nothing up silently.
LEMMA StepKeeps ==
  ASSUME Events = {}, IInv, [Next]_vars
  PROVE  IInv' /\ Silent
<1>1. CASE Next
  <2>1. PICK d \in Devices : Pass(d) \/ Goes(d) \/ Asked(d) \/ World(d)
    BY <1>1 DEF Next
  <2>2. CASE Goes(d)
    <3>1. Keeps(d)
      BY <2>2, DecideKeeps, BuildKeeps, SendKeeps, SendAgainKeeps, UploadedKeeps, FetchKeeps,
         RestoreKeeps, RestoredKeeps, DeletedKeeps DEF Goes
    <3> QED BY <3>1, AllKeep
  <2>3. CASE Asked(d)
    <3>1. Keeps(d)
      BY <2>3, SyncNowKeeps, ResolveConflictKeeps, PullRemoteKeeps, DeleteKeeps DEF Asked
    <3> QED BY <3>1, AllKeep
  <2>4. CASE World(d)
    <3>1. Keeps(d)
      BY <2>4, StartKeeps, PlayKeeps, StopKeeps, SwitchKeeps, FailsKeeps DEF World
    <3> QED BY <3>1, AllKeep
  <2> QED BY <2>1, <2>2, <2>3, <2>4, PassKeeps, AllKeep
<1>2. CASE UNCHANGED vars
  <2>1. UNCHANGED <<local, cloud, st, job, playing, plays, account, dropped, asked, switches, faults>>
    BY <1>2 DEF vars, game, bounds
  <2>2. Silent
    BY <2>1 DEF Silent
  <2>3. Types'
    BY <2>1 DEF IInv, Types
  <2>4. \A d \in Devices, a \in Accounts : Behind(d, a)'
    BY <2>1, <2>2, BehindKeeps
  <2>5. \A d \in Devices : OwnInv(d)'
    BY <2>1 DEF IInv, OwnInv
  <2>6. \A d \in Devices : UploadInv(d)'
    BY <2>1 DEF IInv, UploadInv, Known, Forced
  <2>7. \A d \in Devices : DownloadInv(d)'
    BY <2>1 DEF IInv, DownloadInv, Known, Running
  <2> QED BY <2>2, <2>3, <2>4, <2>5, <2>6, <2>7 DEF IInv
<1> QED BY <1>1, <1>2

\* It implies what the run checks, ...
LEMMA IInvConsistent == IInv => Consistent
<1> SUFFICES ASSUME IInv PROVE Consistent
  OBVIOUS
<1>1. Types /\ \A d \in Devices, a \in Accounts : Behind(d, a)
  BY DEF IInv
<1>2. ASSUME NEW d \in Devices, NEW a \in Accounts
      PROVE  /\ st[d][a] \in Memories /\ DOMAIN st[d][a] = DOMAIN Blank
             /\ {st[d][a].local, st[d][a].remote, st[d][a].conflict.remote} \subseteq Saves
  <2>1. st[d][a] \in Memories
    BY <1>1 DEF Types
  <2> QED BY <2>1 DEF Memories, Conflicts, Blank
<1>3. TypeOK
  BY <1>1, <1>2 DEF Types, TypeOK, Behind
<1>4. BaseIsBehind
  BY <1>1 DEF BaseIsBehind, Behind
<1> QED BY <1>3, <1>4 DEF Consistent

\* ... and in every state, ...
LEMMA AlwaysIInv ==
  ASSUME Events = {}
  PROVE  Spec => []IInv
<1>1. IInv /\ [Next]_vars => IInv'
  BY StepKeeps
<1> QED BY <1>1, InitIInv, PTL DEF Spec

\* What a device takes for the last agreement is behind its folder and behind the copy,
\* whatever failed since: decide, in syncGame, compares with it and with nothing else.
THEOREM MemoriesAreBehind ==
  ASSUME Events = {}
  PROVE  Spec => []Consistent
BY AlwaysIInv, IInvConsistent, PTL

\* Neither side is overwritten silently: the doc comment of the package, for any number of
\* devices that play, fail and decide in any order.
THEOREM SavesAreNotLost ==
  ASSUME Events = {}
  PROVE  Spec => NeverSilently
<1>1. IInv /\ [Next]_vars
        => [/\ \A d \in Devices : local[d] \ local'[d] \subseteq dropped'
            /\ \A a \in Accounts : cloud[a] \ cloud'[a] \subseteq dropped']_vars
  BY StepKeeps DEF Silent
<1> QED BY <1>1, AlwaysIInv, PTL DEF Spec, NeverSilently
=============================================================================
