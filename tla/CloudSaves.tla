------------------------------- MODULE CloudSaves -------------------------------
(***************************************************************************)
(* The saves of one game on several devices and their copy in the account:   *)
(* the passes that upload, download or record a conflict, and what the       *)
(* player decides.                                                           *)
(*                                                                           *)
(* Saves are the set of the plays that are in them, the empty set standing   *)
(* for no saves and for the empty digest.  Restoring over the folder is one   *)
(* step (AtomicSaves).  Abstracted: archives and their limits, the hash      *)
(* cache, statuses and events, the setting (it is on).                       *)
(***************************************************************************)
EXTENDS Naturals

CONSTANTS Devices, Accounts,
          MaxPlays,    \* bound on Start
          MaxAsked,    \* bound on what the player asks for
          MaxSwitches, \* bound on Switch
          MaxFaults,   \* bound on Fails
          Events       \* the steps the bounds below leave out

ASSUME CloudSavesConstants ==
  /\ {MaxPlays, MaxAsked, MaxSwitches, MaxFaults} \subseteq Nat
  /\ Accounts # {} /\ Events \subseteq {"quickSession", "unseenCopy", "switchMidPass"}

VARIABLES
  local,    \* the saves on each device
  cloud,    \* the copy each account holds (external: the server)
  st,       \* what each device recorded of each account
  job,      \* what holds opMu on each device
  playing,  \* the session the game is in on each device, 0 if it is closed
  account,  \* who is signed in
  dropped,  \* the plays the player gave up: history, for the properties
  plays, asked, switches, faults

bounds == <<asked, switches, faults>>
game == <<playing, plays>>
vars == <<local, cloud, st, job, game, account, dropped, bounds>>

Saves == SUBSET (1 .. MaxPlays)
NoConflict == [on |-> FALSE, remote |-> {}]
Blank == [local |-> {}, remote |-> {}, conflict |-> NoConflict, excluded |-> FALSE]
NoJob == [mode |-> "none", at |-> "none", owner |-> CHOOSE a \in Accounts : TRUE,
          seen |-> {}, of |-> {}, ifMatch |-> {}]

Running(d) == playing[d] # 0
Idle(d) == job[d] = NoJob
At(d, step) == job[d].at = step
Goto(d, step) == job' = [job EXCEPT ![d].at = step]
End(d) == job' = [job EXCEPT ![d] = NoJob]
Known(d) == st[d][job[d].owner]                  \* gameState
Commit(d, s) == st' = [st EXCEPT ![d][job[d].owner] = s]
Agreed(s, x) == [s EXCEPT !.local = x, !.remote = x, !.conflict = NoConflict]
Clash(s, x) == [s EXCEPT !.conflict = [on |-> TRUE, remote |-> x]]
Mine(d) == cloud[account[d]]     \* what the client of a device speaks to now

----------------------------------------------------------------------------
(* A pass, or a request, begins: prepare *)

Begin(d, mode) ==
  /\ Idle(d)
  /\ job' = [job EXCEPT ![d] = [NoJob EXCEPT !.mode = mode, !.at = "decide",
                                            !.owner = account[d], !.seen = Mine(d)]]

Pass(d) == Begin(d, "auto") /\ UNCHANGED <<local, cloud, st, game, account, dropped, bounds>>

Ask == asked < MaxAsked /\ asked' = asked + 1 /\ UNCHANGED <<switches, faults>>

\* SyncNow lifts an exclusion.
SyncNow(d) ==
  /\ Ask /\ st[d][account[d]].excluded /\ Begin(d, "auto")
  /\ st' = [st EXCEPT ![d][account[d]].excluded = FALSE]
  /\ UNCHANGED <<local, cloud, game, account, dropped>>

\* A bound: the copy is the one the recorded conflict shows; the code lists the
\* copies again and does not look.
ResolveConflict(d) ==
  /\ Ask /\ st[d][account[d]].conflict.on
  /\ \/ /\ Begin(d, "keepLocal")
        /\ "unseenCopy" \in Events \/ st[d][account[d]].conflict.remote = Mine(d)
     \/ Begin(d, "keepRemote")
  /\ UNCHANGED <<local, cloud, st, game, account, dropped>>

PullRemote(d) == /\ Ask /\ Mine(d) # {} /\ Begin(d, "keepRemote")
                 /\ UNCHANGED <<local, cloud, st, game, account, dropped>>

\* DeleteRemote and Forget: first the copy.
Delete(d) ==
  /\ Ask /\ Idle(d)
  /\ \E mode \in {"delete", "forget"} :
       job' = [job EXCEPT ![d] = [NoJob EXCEPT !.mode = mode, !.at = "deleted", !.owner = account[d]]]
  /\ cloud' = [cloud EXCEPT ![account[d]] = {}] /\ dropped' = dropped \cup Mine(d)
  /\ UNCHANGED <<local, st, game, account>>

\* ... then the record of it.
Deleted(d) ==
  /\ At(d, "deleted") /\ End(d)
  /\ Commit(d, [Blank EXCEPT !.excluded = job[d].mode = "delete"])
  /\ UNCHANGED <<local, cloud, game, account, dropped, bounds>>

----------------------------------------------------------------------------
(* syncGame: three digests decide *)

Upload(ifMatch) == [kind |-> "upload", ifMatch |-> ifMatch]
Do(kind) == [kind |-> kind, ifMatch |-> {}]

\* mutant: a copy that is not the one last seen is taken.
decide_Newer(mode, x, s, remote) ==
  IF mode = "keepLocal" THEN IF x = {} THEN Do("skip") ELSE Upload({})
  ELSE IF mode = "keepRemote" THEN IF remote = {} THEN Do("skip") ELSE Do("download")
  ELSE IF remote = {} THEN IF x = {} THEN Do("skip") ELSE Upload({})
  ELSE IF x = {} THEN Do("download")
  ELSE IF remote = x THEN Do("synced")
  ELSE IF remote = s.remote THEN IF x = s.local THEN Do("synced") ELSE Upload(remote)
  ELSE Do("download")

\* mutant: the copy last seen is not compared with the one that is there.
decide_Unseen(mode, x, s, remote) ==
  IF mode = "keepLocal" THEN IF x = {} THEN Do("skip") ELSE Upload({})
  ELSE IF mode = "keepRemote" THEN IF remote = {} THEN Do("skip") ELSE Do("download")
  ELSE IF remote = {} THEN IF x = {} THEN Do("skip") ELSE Upload({})
  ELSE IF x = {} THEN Do("download")
  ELSE IF remote = x THEN Do("synced")
  ELSE IF x = s.local THEN Do("synced")
  ELSE IF remote = s.remote THEN Upload(remote)
  ELSE Do("conflict")

decide(mode, x, s, remote) ==
  IF mode = "keepLocal" THEN IF x = {} THEN Do("skip") ELSE Upload({})
  ELSE IF mode = "keepRemote" THEN IF remote = {} THEN Do("skip") ELSE Do("download")
  ELSE IF remote = {} THEN IF x = {} THEN Do("skip") ELSE Upload({})
  ELSE IF x = {} THEN Do("download")
  ELSE IF remote = x THEN Do("synced")
  ELSE IF remote = s.remote THEN IF x = s.local THEN Do("synced") ELSE Upload(remote)
  ELSE IF x = s.local THEN Do("download")
  ELSE Do("conflict")

Skips(d, act) == act.kind = "skip" \/ Running(d) \/ (job[d].mode = "auto" /\ Known(d).excluded)

Decide(d) ==
  LET seen == job[d].seen
      act  == decide(job[d].mode, local[d], Known(d), seen)
      synced == [Known(d) EXCEPT !.local = local[d], !.remote = seen, !.conflict = NoConflict]
  IN  /\ At(d, "decide")
      /\ \/ Skips(d, act) /\ End(d) /\ UNCHANGED st
         \/ /\ ~Skips(d, act)
            /\ \/ act.kind = "synced" /\ End(d) /\ Commit(d, synced)
               \/ act.kind = "conflict" /\ End(d) /\ Commit(d, Clash(Known(d), seen))
               \/ /\ act.kind = "upload" /\ UNCHANGED st
                  /\ job' = [job EXCEPT ![d].at = "build", ![d].ifMatch = act.ifMatch]
               \/ act.kind = "download" /\ Goto(d, "fetch") /\ UNCHANGED st
      /\ UNCHANGED <<local, cloud, game, account, dropped, bounds>>

----------------------------------------------------------------------------
(* upload *)

\* The archive is of what is there when it is built.  Saves that are refused for their size
\* at every pass are not modelled; a fault is any other refusal.
Build(d) ==
  /\ At(d, "build") /\ job' = [job EXCEPT ![d].at = "send", ![d].of = local[d]]
  /\ UNCHANGED <<local, cloud, st, game, account, dropped, bounds>>

Forced(d) == job[d].mode = "keepLocal"

\* A bound: nobody uploads while a device overwrites what its player has seen.  Two devices
\* that both overwrite would wait for each other; in the code the later one wins (Send).
Overwriting(d) == /\ "unseenCopy" \notin Events
                  /\ \E e \in Devices \ {d} : ~Idle(e) /\ Forced(e) /\ account[e] = account[d]

\* The server takes it (external).
Stored(d) == cloud' = [cloud EXCEPT ![account[d]] = job[d].of]

\* mutant: a first upload is not refused.
Accepts_First(d) == Forced(d) \/ job[d].ifMatch = {} \/ Mine(d) = job[d].ifMatch

\* The condition of an upload: force, or the copy the device saw last.
Accepts(d) == Forced(d) \/ Mine(d) = job[d].ifMatch

\* The server stores the archive, or refuses it with what it holds.  When it
\* holds nothing any more the device forgets what it had seen and sends again.
Send(d) ==
  /\ At(d, "send") /\ ~Overwriting(d)
  /\ \/ /\ Accepts(d) /\ Stored(d) /\ Goto(d, "uploaded")
        /\ dropped' = IF Forced(d) THEN dropped \cup (Known(d).conflict.remote \ job[d].of) ELSE dropped
        /\ UNCHANGED st
     \/ /\ ~Accepts(d) /\ Mine(d) # {}
        /\ End(d) /\ Commit(d, Clash(Known(d), Mine(d))) /\ UNCHANGED <<cloud, dropped>>
     \/ /\ ~Accepts(d) /\ Mine(d) = {}
        /\ job' = [job EXCEPT ![d].at = "again", ![d].ifMatch = {}]
        /\ Commit(d, [Known(d) EXCEPT !.remote = {}]) /\ UNCHANGED <<cloud, dropped>>
  /\ UNCHANGED <<local, game, account, bounds>>

SendAgain(d) ==
  /\ At(d, "again") /\ ~Overwriting(d)
  /\ IF Accepts(d) THEN Stored(d) /\ Goto(d, "uploaded") ELSE End(d) /\ UNCHANGED cloud
  /\ UNCHANGED <<local, st, game, account, dropped, bounds>>

Uploaded(d) ==
  /\ At(d, "uploaded") /\ End(d) /\ Commit(d, Agreed(Known(d), job[d].of))
  /\ UNCHANGED <<local, cloud, game, account, dropped, bounds>>

----------------------------------------------------------------------------
(* download *)

\* The copy has to be the one that was listed.
Fetch(d) ==
  /\ At(d, "fetch")
  /\ IF Mine(d) = job[d].seen
       THEN job' = [job EXCEPT ![d].at = "restore", ![d].of = Mine(d)] ELSE End(d)
  /\ UNCHANGED <<local, cloud, st, game, account, dropped, bounds>>

\* SnapshotPath and Restore: refused while the game runs.
Restore(d) ==
  /\ At(d, "restore")
  /\ IF Running(d) THEN End(d) /\ UNCHANGED <<local, dropped>>
       ELSE /\ Goto(d, "restored") /\ local' = [local EXCEPT ![d] = job[d].of]
            /\ dropped' = IF job[d].mode = "keepRemote" THEN dropped \cup (local[d] \ job[d].of) ELSE dropped
  /\ UNCHANGED <<cloud, st, game, account, bounds>>

Restored(d) ==
  /\ At(d, "restored") /\ End(d) /\ Commit(d, Agreed(Known(d), job[d].of))
  /\ UNCHANGED <<local, cloud, game, account, dropped, bounds>>

----------------------------------------------------------------------------
(* What happens around it *)

\* A step fails, a write of the state fails and is undone, the answer of the
\* server is lost, the launcher dies: the pass is over, what was done stays.
Fails(d) ==
  /\ ~Idle(d) /\ faults < MaxFaults /\ faults' = faults + 1 /\ End(d)
  /\ \/ UNCHANGED <<cloud, dropped>>
     \/ /\ At(d, "send") /\ Accepts(d) /\ ~Overwriting(d) /\ Stored(d)
        /\ dropped' = IF Forced(d) THEN dropped \cup (Known(d).conflict.remote \ job[d].of) ELSE dropped
  /\ UNCHANGED <<local, st, game, account, asked, switches>>

\* A session puts its number into the saves.
Start(d) ==
  /\ ~Running(d) /\ plays < MaxPlays /\ plays' = plays + 1
  /\ playing' = [playing EXCEPT ![d] = plays + 1]
  /\ UNCHANGED <<local, cloud, st, job, account, dropped, bounds>>

Play(d) ==
  /\ Running(d) /\ playing[d] \notin local[d]
  /\ local' = [local EXCEPT ![d] = @ \cup {playing[d]}]
  /\ UNCHANGED <<cloud, st, job, game, account, dropped, bounds>>

\* A bound: a session does not begin and end inside one download.
Stop(d) ==
  /\ Running(d) /\ playing' = [playing EXCEPT ![d] = 0]
  /\ "quickSession" \in Events \/ job[d].at \notin {"fetch", "restore"}
  /\ UNCHANGED <<local, cloud, st, job, plays, account, dropped, bounds>>

\* Another account signs in; a bound: between two passes.
Switch(d) ==
  /\ switches < MaxSwitches /\ switches' = switches + 1
  /\ Idle(d) \/ "switchMidPass" \in Events
  /\ \E a \in Accounts \ {account[d]} : account' = [account EXCEPT ![d] = a]
  /\ UNCHANGED <<local, cloud, st, job, game, dropped, asked, faults>>

----------------------------------------------------------------------------
Init ==
  /\ local = [d \in Devices |-> {}] /\ cloud = [a \in Accounts |-> {}]
  /\ st = [d \in Devices |-> [a \in Accounts |-> Blank]]
  /\ job = [d \in Devices |-> NoJob] /\ playing = [d \in Devices |-> 0]
  /\ \E a \in Accounts : account = [d \in Devices |-> a]
  /\ dropped = {} /\ plays = 0 /\ asked = 0 /\ switches = 0 /\ faults = 0

Goes(d) == \/ Decide(d) \/ Build(d) \/ Send(d) \/ SendAgain(d) \/ Uploaded(d)
           \/ Fetch(d) \/ Restore(d) \/ Restored(d) \/ Deleted(d)

Asked(d) == SyncNow(d) \/ ResolveConflict(d) \/ PullRemote(d) \/ Delete(d)
World(d) == Start(d) \/ Play(d) \/ Stop(d) \/ Switch(d) \/ Fails(d)

Next == \E d \in Devices : Pass(d) \/ Goes(d) \/ Asked(d) \/ World(d)

Spec == Init /\ [][Next]_vars

\* The loop of each launcher begins a pass at every tick and finishes it.
FairSpec == Spec /\ \A d \in Devices : WF_vars(Pass(d)) /\ WF_vars(Goes(d))

----------------------------------------------------------------------------
(* Properties *)

\* The values of the variables: what a device remembers of a game is what
\* commit in store.go can have written.
TypeOK ==
  /\ local \in [Devices -> Saves] /\ cloud \in [Accounts -> Saves] /\ dropped \in Saves
  /\ \A d \in Devices, a \in Accounts :
       LET s == st[d][a]
       IN  /\ DOMAIN s = DOMAIN Blank /\ {s.local, s.remote, s.conflict.remote} \subseteq Saves
           /\ s.remote \in {{}, s.local}
  /\ playing \in [Devices -> 0 .. MaxPlays] /\ account \in [Devices -> Accounts]
  /\ plays <= MaxPlays /\ asked <= MaxAsked /\ switches <= MaxSwitches /\ faults <= MaxFaults

\* Neither side is overwritten silently: what leaves the folder of a device or
\* the copy of an account is in what replaces it, or the player gave it up when
\* asked (the doc comment of the package, and of syncGame).
NeverSilently ==
  [][/\ \A d \in Devices : local[d] \ local'[d] \subseteq dropped'
     /\ \A a \in Accounts : cloud[a] \ cloud'[a] \subseteq dropped']_vars

\* What a device takes for the last agreement is behind both sides, whatever
\* failed since: neither has to be read again to know who is ahead (decide).
BaseIsBehind ==
  \A d \in Devices, a \in Accounts :
    /\ st[d][a].local \subseteq local[d] \cup dropped
    /\ st[d][a].remote \subseteq cloud[a] \cup dropped

\* The state is well formed, and what a device remembers never runs ahead of a side.
Consistent == TypeOK /\ BaseIsBehind

\* Once the games are closed, what the devices of an account hold is the same,
\* or the device that differs has the conflict on record or was taken out.  Of saves that
\* fit the limit of the server; others are never uploaded (upload).
Converges ==
  <>[](\A d \in Devices :
         LET s == st[d][account[d]]
         IN  Running(d) \/ s.excluded \/ s.conflict.on \/ local[d] = Mine(d))
================================================================================
