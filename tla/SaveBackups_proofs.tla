--------------------------- MODULE SaveBackups_proofs ---------------------------
(***************************************************************************)
(* What a restore keeps, for any limit, any number of faults and crashes     *)
(* and any number of contents: the saves are in their place while the game   *)
(* runs, resolve knows whatever it finds, the copy that is put back is still *)
(* there, and the player sees the saves change in one step (AtomicSaves).     *)
(*                                                                           *)
(* The argument: the folders alone say how far a restore got (JournalInv);   *)
(* what holds the lock is where they say it is (OpInv); a launch that has    *)
(* begun while the saves are aside is stopped by the journal (GameInv); and  *)
(* the rotation after the safety copy keeps both that copy, which is the      *)
(* newest, and the one that is put back, which is protected (CaptureKeeps).   *)
(***************************************************************************)
EXTENDS SaveBackups, FiniteSetTheorems, SequenceTheorems, TLAPS

\* The values of the variables.
Kinds == {"none", "restore", "create", "update", "startup", "session", "launch"}
Ats   == {"none", "recover", "migrate", "forget", "capture", "done", "target", "safety", "write",
          "copy", "ready", "check", "aside", "place", "resolve"}
Contents == 1 .. MaxPlays
Snap    == [kind : {"manual", "auto", "update"}, of : Contents, state : {"good", "rotten", "broken"}]
Ops     == [kind : Kinds, at : Ats, idx : Nat, of : 0 .. MaxPlays, had : BOOLEAN]
Journals == [on : BOOLEAN, copying : BOOLEAN, had : BOOLEAN]

\* The automatic copies of a list, and the contents of the good ones.
Autos(s) == {i \in DOMAIN s : IsAuto(s[i])}
GoodIn(s) == {s[i].of : i \in {j \in DOMAIN s : s[j].state = "good"}}

\* TypeOK with its sets named.
Types ==
  /\ live \in 0 .. MaxPlays /\ previous \in Folder /\ staging \in Folder
  /\ legacy \in 0 .. MaxPlays
  /\ journal \in Journals /\ op \in Ops /\ snaps \in Seq(Snap)
  /\ game \in {"idle", "starting", "running"} /\ hook \in {"none", "queued", "taken"}
  /\ due \subseteq {"startup", "session"}
  /\ plays \in 1 .. MaxPlays /\ faults \in 0 .. MaxFaults /\ crashes \in 0 .. MaxCrashes

\* Nothing is newer than what the game wrote last.
PlaysInv ==
  /\ live <= plays /\ legacy <= plays /\ op.of <= plays
  /\ previous = Half \/ previous <= plays
  /\ staging = Half \/ staging <= plays

\* What the journal says of the folders.
JournalInv ==
  /\ ~journal.on => journal = NoJournal /\ previous = 0 /\ staging = 0
  /\ journal.on /\ journal.copying => previous = 0
  /\ journal.on /\ journal.had => live # 0 \/ previous # 0
  /\ journal.on /\ ~journal.had => previous = 0
  /\ previous # 0 /\ live # 0 => staging = 0
  /\ journal.on /\ ~journal.copying /\ live = 0 => staging \in Contents
  /\ previous # 0 /\ live = 0 => previous \in Contents

\* Before a restore has looked at its copy, and after it has written its journal.
Early == {"recover", "migrate", "forget", "capture", "done", "target"}
Moves == {"copy", "ready", "check", "aside", "place"}

\* Where an operation is.
OpInv ==
  /\ op.at = "none" <=> op.kind = "none"
  /\ op.at = "none" => op = NoOp
  /\ op.at \in {"target", "safety", "write", "resolve"} \cup Moves => op.kind = "restore"
  /\ op.at = "done" => op.kind = "startup"
  /\ op.at = "capture" => op.kind \notin {"restore", "startup"}
  /\ op.at \in Early => op.of = 0
  /\ op.at \in {"migrate", "forget", "capture", "done", "target", "safety", "write"} => ~journal.on
  /\ op.at = "resolve" => journal.on
  /\ op.at \in Moves => journal.on /\ journal.had = op.had
  /\ op.at \in {"copy", "ready"} => journal.copying
  /\ op.at \in {"check", "aside", "place"} => ~journal.copying
  /\ op.at \in {"ready", "check", "aside", "place"} => staging = op.of
  /\ op.at \in {"safety", "write"} \cup Moves => op.of # 0
  /\ op.at = "safety" => op.had
  /\ op.had /\ op.at \in {"safety", "write", "copy", "ready", "check", "aside"} => live # 0
  /\ op.at = "aside" => op.had
  /\ op.at \in {"write", "copy", "ready", "check", "aside"} => previous = 0
  /\ op.at = "place" /\ op.had => live = 0

\* The game does not run while its saves are aside, or about to be.
GameInv ==
  /\ previous # 0 => game # "running"
  /\ op.at \in {"aside", "place"} => game # "running"

\* The copies are what the operation takes them for.
CopiesInv ==
  /\ \A i \in DOMAIN snaps : snaps[i].of <= plays
  /\ op.at \in {"capture", "done", "target", "safety", "write", "resolve"} \cup Moves => legacy = 0
  /\ op.at = "migrate" => legacy # 0
  /\ op.kind = "restore" /\ op.at \in Early \cup {"safety"} => op.idx \in DOMAIN snaps
  /\ op.at = "safety" => snaps[op.idx].state = "good" /\ snaps[op.idx].of = op.of
  /\ op.of # 0 => op.of \in GoodIn(snaps)

\* There is a whole copy of what earlier versions kept.
Has(s, c) == \E i \in DOMAIN s : s[i] = Copy("update", c)

\* The rotation keeps its limit, with room for that copy until it is taken over.
CountInv ==
  /\ Cardinality(Autos(snaps)) <= Limit + 1 + faults
  /\ legacy # 0 /\ ~Has(snaps, legacy) => Cardinality(Autos(snaps)) <= Limit + faults

\* The invariant
StateInv == Types /\ PlaysInv /\ JournalInv /\ OpInv /\ GameInv
IInv == StateInv /\ CopiesInv /\ CountInv

\* What is moved aside is among the copies
SafeInv ==
  /\ op.had /\ op.at \in {"write", "copy", "ready", "check", "aside"} =>
       game = "running" \/ live \in GoodIn(snaps)
  /\ op.at = "place" /\ previous # 0 => previous \in GoodIn(snaps)


\* An operation that goes on is an operation.
LEMMA OpGoes ==
  ASSUME op \in Ops, NEW s \in Ats
  PROVE  [op EXCEPT !.at = s] \in Ops
BY DEF Ops

\* No operation is one too.
LEMMA OpIdle == NoOp \in Ops
BY SaveBackupsConstants DEF NoOp, Ops, Kinds, Ats

\* What holds the lock of the game after Begin.
LEMMA OpBegins ==
  ASSUME NEW kind \in Kinds \ {"none"}, NEW idx \in Nat, Begin(kind, idx)
  PROVE  /\ op = NoOp /\ op' = [kind |-> kind, at |-> "recover", idx |-> idx, of |-> 0, had |-> FALSE]
         /\ op' \in Ops
<1>1. op = NoOp /\ op' = [kind |-> kind, at |-> "recover", idx |-> idx, of |-> 0, had |-> FALSE]
  BY DEF Begin, Kinds, NoOp, Free
<1>2. op' \in Ops
  BY <1>1, SaveBackupsConstants DEF Ops, Ats
<1> QED BY <1>1, <1>2

\* What an operation leaves when it gives the lock back (End).
LEMMA OpEnds ==
  ASSUME NEW blocked \in BOOLEAN, End(blocked)
  PROVE  /\ op' = NoOp /\ op' \in Ops /\ due' = due
         /\ \/ hook' = hook /\ game' = game
            \/ /\ op.kind = "launch" /\ hook = "taken" /\ hook' = "none"
               /\ game' = IF blocked THEN "idle" ELSE "running"
BY OpIdle DEF End

\* A step of resolve leaves folders that hold nothing newer than what was played.
LEMMA FoldersResolve ==
  ASSUME Types, PlaysInv, JournalInv, journal.on, Resolvable, ResolveStep
  PROVE  /\ live' \in 0 .. MaxPlays /\ previous' \in Folder /\ staging' \in Folder
         /\ live' <= plays
         /\ previous' = Half \/ previous' <= plays
         /\ staging' = Half \/ staging' <= plays
BY SMTT(30), SaveBackupsConstants DEF Types, PlaysInv, JournalInv, Journals, ResolveStep, Resolvable, Gone, Drops, Folder, Half, Contents

\* No journal is a journal.
LEMMA JournalIdle == NoJournal \in Journals
BY DEF NoJournal, Journals

\* A body is a step.
LEMMA BodyIsStep ==
  ASSUME NEW kind
  PROVE  Body(kind) \in {"target", "done", "capture"}
BY DEF Body

\* What a step of recovery makes of the operation.
LEMMA OpLater ==
  ASSUME op \in Ops, op' = NoOp \/ op' = op \/ \E s \in Ats : op' = [op EXCEPT !.at = s]
  PROVE  op' \in Ops /\ op'.of \in {0, op.of}
<1>1. CASE op' = NoOp
  BY <1>1, OpIdle DEF NoOp
<1>2. CASE op' = op
  BY <1>2
<1>3. ASSUME NEW s \in Ats, op' = [op EXCEPT !.at = s]
      PROVE  op' \in Ops /\ op'.of = op.of
  BY <1>3 DEF Ops
<1> QED BY <1>1, <1>2, <1>3

-----------------------------------------------------------------------------
(* The folders, the journal and the operation: one lemma per action, within the definitions   *)
(* named here.                                                                *)

USE SaveBackupsConstants
USE DEF StateInv, Types, PlaysInv, JournalInv, OpInv, GameInv, Journals, Ops, Kinds, Ats,
        Contents, Folder, Half, Early, Moves, NoOp, NoJournal, Free, At, Goto, Gone, Drops,
        Resolvable, Resolved, IsRunning, folders, session, bounds

\* A restore is asked for, by the number of a copy (Restore): folders, journal and operation
\* still agree.
LEMMA RestoreState ==
  ASSUME StateInv, Restore
  PROVE  StateInv'
<1>a. DOMAIN snaps \subseteq Nat
  BY SMTT(30)
<1>0. \E i \in Nat : Begin("restore", i)
  BY <1>a DEF Restore
<1>1. Types'
  BY <1>0, OpBegins DEF Restore
<1>5. PlaysInv'
  BY SMTT(30), <1>0, OpBegins DEF Restore
<1>2. JournalInv'
  BY <1>0, OpBegins DEF Restore
<1>3. OpInv'
  BY SMTT(60), <1>0, OpBegins DEF Restore
<1>4. GameInv'
  BY SMTT(60), <1>0, OpBegins DEF Restore
<1> QED BY <1>1, <1>5, <1>2, <1>3, <1>4

\* A copy is asked for (Create, SnapshotPath): folders, journal and operation still agree.
LEMMA TakeCopyState ==
  ASSUME StateInv, TakeCopy
  PROVE  StateInv'
<1>0. \E k \in Kinds \ {"none"} : Begin(k, 0)
  BY DEF TakeCopy
<1>1. Types'
  BY <1>0, OpBegins DEF TakeCopy
<1>5. PlaysInv'
  BY <1>0, OpBegins DEF TakeCopy
<1>2. JournalInv'
  BY <1>0, OpBegins DEF TakeCopy
<1>3. OpInv'
  BY SMTT(30), <1>0, OpBegins DEF TakeCopy
<1>4. GameInv'
  BY <1>0, OpBegins DEF TakeCopy
<1> QED BY <1>1, <1>5, <1>2, <1>3, <1>4

\* What is due after a start or a session gets the lock (recoverGames, autoBackup): folders,
\* journal and operation still agree.
LEMMA BeginDueState ==
  ASSUME StateInv, BeginDue
  PROVE  StateInv'
<1>0. \E k \in Kinds \ {"none"} : Begin(k, 0)
  BY DEF BeginDue
<1>1. Types'
  BY <1>0, OpBegins DEF BeginDue
<1>5. PlaysInv'
  BY <1>0, OpBegins DEF BeginDue
<1>2. JournalInv'
  BY <1>0, OpBegins DEF BeginDue
<1>3. OpInv'
  BY SMTT(30), <1>0, OpBegins DEF BeginDue
<1>4. GameInv'
  BY SMTT(30), <1>0, OpBegins DEF BeginDue
<1> QED BY <1>1, <1>5, <1>2, <1>3, <1>4

\* The copy before a launch gets the lock (SessionStarting): folders, journal and operation
\* still agree.
LEMMA BeginLaunchState ==
  ASSUME StateInv, BeginLaunch
  PROVE  StateInv'
<1>0. Begin("launch", 0)
  BY DEF BeginLaunch
<1>1. Types'
  BY <1>0, OpBegins DEF BeginLaunch
<1>5. PlaysInv'
  BY SMTT(30), <1>0, OpBegins DEF BeginLaunch
<1>2. JournalInv'
  BY <1>0, OpBegins DEF BeginLaunch
<1>3. OpInv'
  BY SMTT(30), <1>0, OpBegins DEF BeginLaunch
<1>4. GameInv'
  BY SMTT(30), <1>0, OpBegins DEF BeginLaunch
<1> QED BY <1>1, <1>5, <1>2, <1>3, <1>4

\* A copy is deleted (Delete): folders, journal and operation still agree.
LEMMA DeleteState ==
  ASSUME StateInv, snaps' \in Seq(Snap), faults' \in 0 .. MaxFaults, Delete
  PROVE  StateInv'
<1>1. Types'
  BY DEF Delete
<1>5. PlaysInv'
  BY DEF Delete
<1>2. JournalInv'
  BY DEF Delete
<1>3. OpInv'
  BY DEF Delete
<1>4. GameInv'
  BY DEF Delete
<1> QED BY <1>1, <1>5, <1>2, <1>3, <1>4

\* Recovery settles what an interrupted restore left (recoverGame, resolve): folders, journal
\* and operation still agree.
LEMMA RecoverState ==
  ASSUME StateInv, Recover
  PROVE  StateInv'
<1> HIDE DEF StateInv, Types, PlaysInv, JournalInv, OpInv, GameInv, NoOp, NoJournal, Resolvable, Ops, Journals, Resolved
<1>z. op' = NoOp \/ op' = op \/ \E s \in Ats : op' = [op EXCEPT !.at = s]
  BY BodyIsStep DEF Recover, End
<1>0. op' \in Ops
  BY <1>z, OpIdle, OpGoes DEF StateInv, Types
<1>y. \/ UNCHANGED folders
      \/ journal.on /\ Resolvable /\ ResolveStep
  BY DEF Recover, StateInv, OpInv
<1>a. /\ live' \in 0 .. MaxPlays /\ previous' \in Folder /\ staging' \in Folder
      /\ live' <= plays
      /\ previous' = Half \/ previous' <= plays
      /\ staging' = Half \/ staging' <= plays
  <2>1. CASE UNCHANGED folders
    BY <2>1 DEF StateInv, Types, PlaysInv
  <2> QED BY <2>1, <1>y, FoldersResolve DEF StateInv
<1>x. journal' = journal \/ journal' = NoJournal
  BY DEF Recover
<1>b. journal' \in Journals
  BY <1>x, JournalIdle DEF StateInv, Types
<1>c. game' \in {"idle", "starting", "running"} /\ hook' \in {"none", "queued", "taken"} /\ due' \subseteq {"startup", "session"}
  BY DEF Recover, End, StateInv, Types
<1>1. Types'
  BY <1>0, <1>a, <1>b, <1>c DEF Recover, StateInv, Types
<1>w. op'.of <= plays
  BY <1>z, OpLater DEF StateInv, Types, PlaysInv
<1>5. PlaysInv'
  BY <1>a, <1>w DEF Recover, StateInv, PlaysInv
<1> USE DEF StateInv, Types, PlaysInv, JournalInv, OpInv, GameInv, NoOp, NoJournal, Resolvable, Ops, Journals, Resolved
<1>2. JournalInv'
  BY DEF Recover, End, ResolveStep, Body
<1>3. OpInv'
  BY DEF Recover, End, ResolveStep, Body
<1>4. GameInv'
  BY SMTT(30) DEF Recover, End, ResolveStep, Body
<1> QED BY <1>1, <1>5, <1>2, <1>3, <1>4

\* The copy of earlier versions is taken over (migrateLegacy): folders, journal and operation
\* still agree.
LEMMA MigrateState ==
  ASSUME StateInv, snaps' \in Seq(Snap), faults' \in 0 .. MaxFaults, Migrate
  PROVE  StateInv'
<1>1. Types'
  BY DEF Migrate
<1>5. PlaysInv'
  BY DEF Migrate
<1>2. JournalInv'
  BY DEF Migrate
<1>3. OpInv'
  BY DEF Migrate
<1>4. GameInv'
  BY DEF Migrate
<1> QED BY <1>1, <1>5, <1>2, <1>3, <1>4

\* The copy of earlier versions is removed (migrateLegacy): folders, journal and operation
\* still agree.
LEMMA ForgetLegacyState ==
  ASSUME StateInv, ForgetLegacy
  PROVE  StateInv'
<1>1. Types'
  BY SMTT(30) DEF ForgetLegacy, Body
<1>5. PlaysInv'
  BY DEF ForgetLegacy, Body
<1>2. JournalInv'
  BY DEF ForgetLegacy, Body
<1>3. OpInv'
  BY DEF ForgetLegacy, Body
<1>4. GameInv'
  BY DEF ForgetLegacy, Body
<1> QED BY <1>1, <1>5, <1>2, <1>3, <1>4

\* A start has nothing more to do for the game (recoverGames): folders, journal and operation
\* still agree.
LEMMA DoneState ==
  ASSUME StateInv, Done
  PROVE  StateInv'
<1>1. Types'
  BY DEF Done, End
<1>5. PlaysInv'
  BY DEF Done, End
<1>2. JournalInv'
  BY DEF Done, End
<1>3. OpInv'
  BY DEF Done, End
<1>4. GameInv'
  BY DEF Done, End
<1> QED BY <1>1, <1>5, <1>2, <1>3, <1>4

\* A copy is taken (capture): folders, journal and operation still agree.
LEMMA TakeItState ==
  ASSUME StateInv, snaps' \in Seq(Snap), faults' \in 0 .. MaxFaults, TakeIt
  PROVE  StateInv'
<1>1. Types'
  BY DEF TakeIt, End, Capture, CaptureNew
<1>5. PlaysInv'
  BY DEF TakeIt, End, Capture, CaptureNew
<1>2. JournalInv'
  BY DEF TakeIt, End, Capture, CaptureNew
<1>3. OpInv'
  BY DEF TakeIt, End, Capture, CaptureNew
<1>4. GameInv'
  BY DEF TakeIt, End, Capture, CaptureNew
<1> QED BY <1>1, <1>5, <1>2, <1>3, <1>4

\* The copy that is to be restored is looked at (Restore): folders, journal and operation
\* still agree.
LEMMA TargetState ==
  ASSUME StateInv, op.idx \in DOMAIN snaps, snaps[op.idx] \in Snap, snaps[op.idx].of <= plays, Target
  PROVE  StateInv'
<1>n. snaps[op.idx].of \in 0 .. MaxPlays /\ snaps[op.idx].of # 0
  BY SMTT(60) DEF Snap
<1>a. \/ End(FALSE)
      \/ /\ op' = [op EXCEPT !.at = IF Gone(live) THEN "write" ELSE "safety",
                              !.of = snaps[op.idx].of, !.had = ~Gone(live)]
         /\ UNCHANGED session /\ previous = 0 /\ staging = 0
  BY DEF Target
<1>m. op.of = 0 /\ op.kind = "restore" /\ ~journal.on /\ UNCHANGED <<folders, journal, snaps, legacy, bounds>>
  BY DEF Target
<1>1. CASE End(FALSE)
  <2>1. op' = NoOp /\ NoOp \in Ops /\ UNCHANGED session
    BY <1>1, <1>m, OpEnds
  <2> QED BY <2>1, <1>m
<1>2. CASE ~End(FALSE)
  <2> DEFINE n == snaps[op.idx].of
  <2>1. /\ op' = [op EXCEPT !.at = IF Gone(live) THEN "write" ELSE "safety",
                              !.of = n, !.had = ~Gone(live)]
        /\ UNCHANGED session /\ previous = 0 /\ staging = 0
    BY <1>2, <1>a
  <2>2. n \in 0 .. MaxPlays /\ n # 0 /\ n <= plays
    BY <1>n
  <2> HIDE DEF n
  <2>3. /\ op' \in Ops /\ op'.of = n /\ op'.had = (live # 0) /\ op'.kind = op.kind
        /\ op'.at = IF live = 0 THEN "write" ELSE "safety"
    BY <2>1, <2>2
  <2>4. Types' /\ PlaysInv' /\ JournalInv'
    BY <2>1, <2>2, <2>3, <1>m
  <2>5. OpInv'
    BY ZenonT(60), <2>1, <2>2, <2>3, <1>m
  <2>6. GameInv'
    BY <2>1, <2>3, <1>m
  <2> QED BY <2>4, <2>5, <2>6
<1> QED BY <1>1, <1>2

\* The saves are copied before they are replaced (Restore, capture): folders, journal and
\* operation still agree.
LEMMA SafetyState ==
  ASSUME StateInv, snaps' \in Seq(Snap), faults' \in 0 .. MaxFaults, Safety
  PROVE  StateInv'
<1>0. op' \in Ops
  BY DEF Safety, CaptureNew, Capture
<1>1. Types'
  BY <1>0 DEF Safety, CaptureNew, Capture
<1>5. PlaysInv'
  BY DEF Safety, CaptureNew, Capture
<1>2. JournalInv'
  BY DEF Safety, CaptureNew, Capture
<1>3. OpInv'
  BY DEF Safety, CaptureNew, Capture
<1>4. GameInv'
  BY DEF Safety, CaptureNew, Capture
<1> QED BY <1>1, <1>5, <1>2, <1>3, <1>4

\* The journal is written before anything is touched (writeJournal): folders, journal and
\* operation still agree.
LEMMA WriteJournalState ==
  ASSUME StateInv, WriteJournal
  PROVE  StateInv'
<1>1. Types'
  BY DEF WriteJournal
<1>5. PlaysInv'
  BY DEF WriteJournal
<1>2. JournalInv'
  BY DEF WriteJournal
<1>3. OpInv'
  BY DEF WriteJournal
<1>4. GameInv'
  BY DEF WriteJournal
<1> QED BY <1>1, <1>5, <1>2, <1>3, <1>4

\* The copy is put next to the saves (Restore): folders, journal and operation still agree.
LEMMA CopyOutState ==
  ASSUME StateInv, CopyOut
  PROVE  StateInv'
<1>1. Types'
  BY DEF CopyOut
<1>5. PlaysInv'
  BY DEF CopyOut
<1>2. JournalInv'
  BY DEF CopyOut
<1>3. OpInv'
  BY SMTT(60) DEF CopyOut
<1>4. GameInv'
  BY DEF CopyOut
<1> QED BY <1>1, <1>5, <1>2, <1>3, <1>4

\* The journal says that the copy is whole (writeJournal): folders, journal and operation
\* still agree.
LEMMA ReadyState ==
  ASSUME StateInv, Ready
  PROVE  StateInv'
<1>1. Types'
  BY DEF Ready
<1>5. PlaysInv'
  BY DEF Ready
<1>2. JournalInv'
  BY DEF Ready
<1>3. OpInv'
  BY DEF Ready
<1>4. GameInv'
  BY DEF Ready
<1> QED BY <1>1, <1>5, <1>2, <1>3, <1>4

\* The game is asked for again (Restore): folders, journal and operation still agree.
LEMMA CheckState ==
  ASSUME StateInv, Check
  PROVE  StateInv'
<1>1. Types'
  BY DEF Check
<1>5. PlaysInv'
  BY DEF Check
<1>2. JournalInv'
  BY DEF Check
<1>3. OpInv'
  BY DEF Check
<1>4. GameInv'
  BY DEF Check
<1> QED BY <1>1, <1>5, <1>2, <1>3, <1>4

\* The saves are moved aside (Restore): folders, journal and operation still agree.
LEMMA AsideState ==
  ASSUME StateInv, Aside
  PROVE  StateInv'
<1>1. Types'
  BY SMTT(30) DEF Aside
<1>5. PlaysInv'
  BY DEF Aside
<1>2. JournalInv'
  BY DEF Aside
<1>3. OpInv'
  BY DEF Aside
<1>4. GameInv'
  BY DEF Aside
<1> QED BY <1>1, <1>5, <1>2, <1>3, <1>4

\* The copy takes their place (Restore): folders, journal and operation still agree.
LEMMA PlaceState ==
  ASSUME StateInv, Place
  PROVE  StateInv'
<1>0. op' \in Ops
  BY DEF Place
<1>1. Types'
  BY <1>0 DEF Place
<1>5. PlaysInv'
  BY DEF Place
<1>2. JournalInv'
  BY DEF Place
<1>3. OpInv'
  BY DEF Place
<1>4. GameInv'
  BY DEF Place
<1> QED BY <1>1, <1>5, <1>2, <1>3, <1>4

\* A restore settles what it did (resolve): folders, journal and operation still agree.
LEMMA ResolveState ==
  ASSUME StateInv, Resolve
  PROVE  StateInv'
<1> HIDE DEF StateInv, Types, PlaysInv, JournalInv, OpInv, GameInv, NoOp, NoJournal, Resolvable, Ops, Journals, Resolved
<1>z. op' = NoOp \/ op' = op \/ \E s \in Ats : op' = [op EXCEPT !.at = s]
  BY BodyIsStep DEF Resolve, End
<1>0. op' \in Ops
  BY <1>z, OpIdle, OpGoes DEF StateInv, Types
<1>y. \/ UNCHANGED folders
      \/ journal.on /\ Resolvable /\ ResolveStep
  BY DEF Resolve, StateInv, OpInv
<1>a. /\ live' \in 0 .. MaxPlays /\ previous' \in Folder /\ staging' \in Folder
      /\ live' <= plays
      /\ previous' = Half \/ previous' <= plays
      /\ staging' = Half \/ staging' <= plays
  <2>1. CASE UNCHANGED folders
    BY <2>1 DEF StateInv, Types, PlaysInv
  <2> QED BY <2>1, <1>y, FoldersResolve DEF StateInv
<1>x. journal' = journal \/ journal' = NoJournal
  BY DEF Resolve
<1>b. journal' \in Journals
  BY <1>x, JournalIdle DEF StateInv, Types
<1>c. game' \in {"idle", "starting", "running"} /\ hook' \in {"none", "queued", "taken"} /\ due' \subseteq {"startup", "session"}
  BY DEF Resolve, End, StateInv, Types
<1>1. Types'
  BY <1>0, <1>a, <1>b, <1>c DEF Resolve, StateInv, Types
<1>w. op'.of <= plays
  BY <1>z, OpLater DEF StateInv, Types, PlaysInv
<1>5. PlaysInv'
  BY <1>a, <1>w DEF Resolve, StateInv, PlaysInv
<1> USE DEF StateInv, Types, PlaysInv, JournalInv, OpInv, GameInv, NoOp, NoJournal, Resolvable, Ops, Journals, Resolved
<1>2. JournalInv'
  BY DEF Resolve, End, ResolveStep
<1>3. OpInv'
  BY DEF Resolve, End, ResolveStep
<1>4. GameInv'
  BY DEF Resolve, End, ResolveStep
<1> QED BY <1>1, <1>5, <1>2, <1>3, <1>4

\* A step fails, or its caller is gone: folders, journal and operation still agree.
LEMMA StepFailsState ==
  ASSUME StateInv, StepFails
  PROVE  StateInv'
<1>z. op' = NoOp \/ \E s \in Ats : op' = [op EXCEPT !.at = s]
  BY DEF StepFails, End
<1>0. op' \in Ops
  <2> HIDE DEF NoOp, Ops, Ats
  <2> QED BY <1>z, OpIdle, OpGoes
<1>1. Types'
  BY SMTT(60), <1>0 DEF StepFails, End
<1>5. PlaysInv'
  BY SMTT(60) DEF StepFails, End
<1>2. JournalInv'
  BY DEF StepFails, End
<1>3. OpInv'
  BY SMTT(60) DEF StepFails, End
<1>4. GameInv'
  BY SMTT(30) DEF StepFails, End
<1> QED BY <1>1, <1>5, <1>2, <1>3, <1>4

\* A launch begins (PlayGame): folders, journal and operation still agree.
LEMMA PlayGameState ==
  ASSUME StateInv, "noHook" \notin Events, PlayGame
  PROVE  StateInv'
<1>1. Types'
  BY DEF PlayGame
<1>5. PlaysInv'
  BY DEF PlayGame
<1>2. JournalInv'
  BY DEF PlayGame
<1>3. OpInv'
  BY DEF PlayGame
<1>4. GameInv'
  BY DEF PlayGame
<1> QED BY <1>1, <1>5, <1>2, <1>3, <1>4

\* A launch has waited long enough (launchTimedOut): folders, journal and operation still
\* agree.
LEMMA TimeoutState ==
  ASSUME StateInv, Timeout
  PROVE  StateInv'
<1>1. Types'
  BY DEF Timeout
<1>5. PlaysInv'
  BY DEF Timeout
<1>2. JournalInv'
  BY DEF Timeout
<1>3. OpInv'
  BY DEF Timeout
<1>4. GameInv'
  BY DEF Timeout
<1> QED BY <1>1, <1>5, <1>2, <1>3, <1>4

\* The game saves: folders, journal and operation still agree.
LEMMA PlayState ==
  ASSUME StateInv, Play
  PROVE  StateInv'
<1>1. Types'
  BY DEF Play
<1>5. PlaysInv'
  BY DEF Play
<1>2. JournalInv'
  BY DEF Play
<1>3. OpInv'
  BY DEF Play
<1>4. GameInv'
  BY DEF Play
<1> QED BY <1>1, <1>5, <1>2, <1>3, <1>4

\* A session ends: folders, journal and operation still agree.
LEMMA StopState ==
  ASSUME StateInv, Stop
  PROVE  StateInv'
<1>1. Types'
  BY DEF Stop
<1>5. PlaysInv'
  BY DEF Stop
<1>2. JournalInv'
  BY DEF Stop
<1>3. OpInv'
  BY DEF Stop
<1>4. GameInv'
  BY DEF Stop
<1> QED BY <1>1, <1>5, <1>2, <1>3, <1>4

\* The player removes the saves: folders, journal and operation still agree.
LEMMA RemoveSavesState ==
  ASSUME StateInv, RemoveSaves
  PROVE  StateInv'
<1>1. Types'
  BY DEF RemoveSaves
<1>5. PlaysInv'
  BY DEF RemoveSaves
<1>2. JournalInv'
  BY DEF RemoveSaves
<1>3. OpInv'
  BY DEF RemoveSaves
<1>4. GameInv'
  BY DEF RemoveSaves
<1> QED BY <1>1, <1>5, <1>2, <1>3, <1>4

\* A copy is damaged: folders, journal and operation still agree.
LEMMA RotState ==
  ASSUME StateInv, snaps' \in Seq(Snap), faults' \in 0 .. MaxFaults, Rot
  PROVE  StateInv'
<1>1. Types'
  BY DEF Rot
<1>5. PlaysInv'
  BY DEF Rot
<1>2. JournalInv'
  BY DEF Rot
<1>3. OpInv'
  BY DEF Rot
<1>4. GameInv'
  BY DEF Rot
<1> QED BY <1>1, <1>5, <1>2, <1>3, <1>4

\* The launcher dies and starts again: folders, journal and operation still agree.
LEMMA CrashState ==
  ASSUME StateInv, Crash
  PROVE  StateInv'
<1>1. Types'
  BY DEF Crash
<1>5. PlaysInv'
  BY DEF Crash
<1>2. JournalInv'
  BY DEF Crash
<1>3. OpInv'
  BY DEF Crash
<1>4. GameInv'
  BY DEF Crash
<1> QED BY <1>1, <1>5, <1>2, <1>3, <1>4

HIDE SaveBackupsConstants
HIDE DEF StateInv, Types, PlaysInv, JournalInv, OpInv, GameInv, Journals, Ops, Kinds, Ats,
         Contents, Folder, Half, Early, Moves, NoOp, NoJournal, Free, At, Goto, Gone, Drops,
         Resolvable, Resolved, IsRunning, folders, session, bounds

-----------------------------------------------------------------------------
(* Counting the copies, and what the rotation keeps *)

\* A set that maps one to one into a finite one is not larger.
LEMMA Inject ==
  ASSUME NEW S, NEW T, IsFiniteSet(T), NEW f \in [S -> T],
         \A x, y \in S : f[x] = f[y] => x = y
  PROVE  IsFiniteSet(S) /\ Cardinality(S) <= Cardinality(T)
<1>1. f \in Injection(S, T)
  BY DEF Injection, IsInjective
<1> QED BY <1>1, FS_Injection

\* The members of a finite set of numbers, counted from the smallest: every place is taken,
\* and once.
LEMMA Ranks ==
  ASSUME NEW n \in Nat, NEW S \in SUBSET (1 .. n)
  PROVE  /\ IsFiniteSet(S) /\ Cardinality(S) \in Nat
         /\ \A i \in S : Cardinality({j \in S : j < i}) \in 0 .. Cardinality(S) - 1
         /\ \A i, k \in S : i < k => Cardinality({j \in S : j < i}) < Cardinality({j \in S : j < k})
         /\ \A m \in 1 .. Cardinality(S) : \E i \in S : Cardinality({j \in S : j < i}) = m - 1
<1> DEFINE Below(i) == {j \in S : j < i}
           R(i) == Cardinality(Below(i))
<1>1. IsFiniteSet(S) /\ Cardinality(S) \in Nat
  <2>1. IsFiniteSet(1 .. n)
    BY FS_Interval
  <2> QED BY <2>1, FS_Subset, FS_CardinalityType
<1>0. \A i \in S : i \in Nat
  OBVIOUS
<1>2. \A i \in S : IsFiniteSet(Below(i)) /\ R(i) \in Nat
  BY <1>1, FS_Subset, FS_CardinalityType
<1>3. ASSUME NEW i \in S, NEW T \in SUBSET S, IsFiniteSet(T), Below(i) \subseteq T, i \in T
      PROVE  R(i) < Cardinality(T)
  <2>1. Below(i) # T
    BY <1>0, <1>3
  <2>2. Cardinality(T) \in Nat /\ R(i) <= Cardinality(T) /\ R(i) # Cardinality(T)
    BY <1>3, <2>1, FS_Subset, FS_CardinalityType
  <2> QED BY <1>2, <2>2
<1>4. \A i \in S : R(i) < Cardinality(S)
  BY <1>1, <1>3
<1>5. \A i, k \in S : i < k => R(i) < R(k)
  <2> SUFFICES ASSUME NEW i \in S, NEW k \in S, i < k
               PROVE  R(i) < R(k)
    OBVIOUS
  <2>1. Below(i) \subseteq Below(k) /\ i \in Below(k) /\ Below(k) \subseteq S
    <3>1. \A j \in S : j < i => j < k
      BY <1>0
    <3> QED BY <3>1
  <2>2. IsFiniteSet(Below(k))
    BY <1>2
  <2> HIDE DEF Below
  <2> QED BY <1>3, <2>1, <2>2
<1>6. \A m \in 1 .. Cardinality(S) : \E i \in S : R(i) = m - 1
  <2> DEFINE T == 0 .. Cardinality(S) - 1
             f == [i \in S |-> R(i)]
  <2>1. IsFiniteSet(T) /\ Cardinality(T) = Cardinality(S)
    BY SMTT(30), <1>1, FS_Interval
  <2>2. f \in [S -> T]
    BY <1>1, <1>2, <1>4
  <2>3. \A x, y \in S : f[x] = f[y] => x = y
    BY <1>2, <1>5
  <2>4. f \in Injection(S, T)
    BY <2>2, <2>3 DEF Injection, IsInjective
  <2>5. f \in Surjection(S, T)
    BY <2>1, <2>4, FS_Injection
  <2>6. ASSUME NEW m \in 1 .. Cardinality(S)
        PROVE  \E i \in S : R(i) = m - 1
    <3>1. m - 1 \in T
      BY <1>1
    <3>2. PICK i \in S : f[i] = m - 1
      BY <2>5, <3>1 DEF Surjection
    <3> QED BY <3>2
  <2> QED BY <2>6
<1>7. \A i \in S : R(i) \in 0 .. Cardinality(S) - 1
  BY <1>1, <1>2, <1>4
<1> QED BY <1>1, <1>5, <1>6, <1>7

\* The automatic copies of a list can be counted.
LEMMA AutosFinite ==
  ASSUME NEW s \in Seq(Snap)
  PROVE  IsFiniteSet(Autos(s)) /\ Cardinality(Autos(s)) \in Nat
<1>1. Autos(s) \in SUBSET (1 .. Len(s)) /\ Len(s) \in Nat
  BY DEF Autos
<1> QED BY <1>1, Ranks

\* The rotation leaves copies of the list, each that stays, and none twice (rotate).
LEMMA RotatedCopies ==
  ASSUME NEW s \in Seq(Snap), NEW p
  PROVE  /\ Rotate(s, p) \in Seq(Snap)
         /\ \A i \in Stays(s, p) : \E n \in DOMAIN Rotate(s, p) : Rotate(s, p)[n] = s[i]
         /\ \E f \in [DOMAIN Rotate(s, p) -> Stays(s, p)] :
               \A n \in DOMAIN Rotate(s, p) :
                  /\ Rotate(s, p)[n] = s[f[n]]
                  /\ \A m \in DOMAIN Rotate(s, p) : f[n] = f[m] => n = m
<1> DEFINE K == Stays(s, p)
           R(i) == Cardinality({j \in K : j < i})
           Nth(n) == CHOOSE i \in K : R(i) = n - 1
           t == [n \in 1 .. Cardinality(K) |-> s[Nth(n)]]
<1>1. K \in SUBSET (1 .. Len(s)) /\ Len(s) \in Nat
  BY DEF Stays
<1>2. Rotate(s, p) = t
  BY DEF Rotate
<1> HIDE DEF K
<1>3. /\ Cardinality(K) \in Nat
      /\ \A i \in K : R(i) \in 0 .. Cardinality(K) - 1
      /\ \A i, k \in K : i < k => R(i) < R(k)
      /\ \A m \in 1 .. Cardinality(K) : \E i \in K : R(i) = m - 1
  BY <1>1, Ranks
<1> HIDE DEF R
<1>4. \A n \in 1 .. Cardinality(K) : Nth(n) \in K /\ R(Nth(n)) = n - 1
  BY <1>3
<1>5. \A i \in K : R(i) + 1 \in 1 .. Cardinality(K) /\ Nth(R(i) + 1) = i
  <2> SUFFICES ASSUME NEW i \in K
               PROVE  R(i) + 1 \in 1 .. Cardinality(K) /\ Nth(R(i) + 1) = i
    OBVIOUS
  <2>1. R(i) + 1 \in 1 .. Cardinality(K) /\ (R(i) + 1) - 1 = R(i)
    BY <1>3
  <2>2. Nth(R(i) + 1) \in K /\ R(Nth(R(i) + 1)) = R(i)
    BY <1>4, <2>1
  <2> HIDE DEF Nth
  <2>3. \A k \in K : R(k) = R(i) => k = i
    BY <1>1, <1>3
  <2> QED BY <2>1, <2>2, <2>3
<1> HIDE DEF Nth
<1>6. \A i \in K : s[i] \in Snap
  BY <1>1
<1>7. t \in Seq(Snap) /\ DOMAIN t = 1 .. Cardinality(K)
  BY <1>3, <1>4, <1>6
<1>8. \A i \in K : \E n \in DOMAIN t : t[n] = s[i]
  BY <1>5
<1>9. \E f \in [DOMAIN t -> K] :
         \A n \in DOMAIN t : t[n] = s[f[n]] /\ \A m \in DOMAIN t : f[n] = f[m] => n = m
  <2> DEFINE f == [n \in 1 .. Cardinality(K) |-> Nth(n)]
  <2>1. f \in [DOMAIN t -> K]
    BY <1>4, <1>7
  <2>2. \A n \in DOMAIN t : t[n] = s[f[n]]
    OBVIOUS
  <2>3. \A n, m \in DOMAIN t : f[n] = f[m] => n = m
    BY <1>3, <1>4
  <2> QED BY <2>1, <2>2, <2>3
<1> HIDE DEF t
<1>10. /\ \A i \in Stays(s, p) : \E n \in DOMAIN t : t[n] = s[i]
       /\ \E f \in [DOMAIN t -> Stays(s, p)] :
             \A n \in DOMAIN t : t[n] = s[f[n]] /\ \A m \in DOMAIN t : f[n] = f[m] => n = m
  BY <1>8, <1>9 DEF K
<1> QED BY ZenonT(60), <1>2, <1>7, <1>10

\* No more automatic copies than the limit have fewer than that many newer ones (rotate).
LEMMA NewestAreFew ==
  ASSUME NEW s \in Seq(Snap)
  PROVE  LET New == {i \in Autos(s) : Newer(s, i) < Limit}
         IN  IsFiniteSet(New) /\ Cardinality(New) \in Nat /\ Cardinality(New) <= Limit
<1> DEFINE A == Autos(s)
           New == {i \in A : Newer(s, i) < Limit}
           R(i) == Cardinality({j \in A : j < i})
<1>1. A \in SUBSET (1 .. Len(s)) /\ Len(s) \in Nat
  BY DEF Autos
<1>2. \A i \in A : Newer(s, i) = R(i)
  <2> SUFFICES ASSUME NEW i \in A
               PROVE  {j \in 1 .. i - 1 : IsAuto(s[j])} = {j \in A : j < i}
    BY DEF Newer
  <2> QED BY <1>1 DEF Autos
<1> HIDE DEF A
<1>3. /\ IsFiniteSet(A) /\ Cardinality(A) \in Nat
      /\ \A i \in A : R(i) \in 0 .. Cardinality(A) - 1
      /\ \A i, k \in A : i < k => R(i) < R(k)
  BY <1>1, Ranks
<1> HIDE DEF R
<1> DEFINE f == [i \in New |-> R(i)]
           T == 0 .. Limit - 1
<1>4. IsFiniteSet(T) /\ Cardinality(T) = Limit
  <2>1. 0 \in Int /\ Limit - 1 \in Int /\ Limit \in Nat /\ 0 <= Limit - 1
    BY SaveBackupsConstants
  <2> QED BY <2>1, FS_Interval
<1>5. f \in [New -> T]
  BY <1>2, <1>3, SaveBackupsConstants
<1>6. \A x, y \in New : f[x] = f[y] => x = y
  BY <1>1, <1>3
<1>7. IsFiniteSet(New) /\ Cardinality(New) <= Limit
  BY ZenonT(60), <1>4, <1>5, <1>6, Inject
<1> QED BY <1>7, FS_CardinalityType DEF A

\* After a rotation there is at most one automatic copy more than the limit.
LEMMA RotatedCount ==
  ASSUME NEW s \in Seq(Snap), NEW p
  PROVE  Cardinality(Autos(Rotate(s, p))) <= Limit + 1
<1> DEFINE t == Rotate(s, p)
           New == {i \in Autos(s) : Newer(s, i) < Limit}
           T == New \cup {p}
<1>1. PICK f \in [DOMAIN t -> Stays(s, p)] :
         \A n \in DOMAIN t : t[n] = s[f[n]] /\ \A m \in DOMAIN t : f[n] = f[m] => n = m
  BY RotatedCopies
<1>2. IsFiniteSet(New) /\ Cardinality(New) \in Nat /\ Cardinality(New) <= Limit
  BY NewestAreFew
<1>3. IsFiniteSet(T) /\ Cardinality(T) <= Limit + 1
  <2> HIDE DEF New
  <2>1. /\ IsFiniteSet(New \cup {p})
        /\ Cardinality(New \cup {p}) = IF p \in New THEN Cardinality(New) ELSE Cardinality(New) + 1
    BY <1>2, FS_AddElement
  <2> QED BY <1>2, <2>1, SaveBackupsConstants
<1> DEFINE g == [n \in Autos(t) |-> f[n]]
<1>4. \A n \in Autos(t) : n \in DOMAIN t /\ IsAuto(t[n])
  BY DEF Autos
<1>5. \A n \in Autos(t) : f[n] \in T
  <2> SUFFICES ASSUME NEW n \in Autos(t), f[n] # p
               PROVE  f[n] \in New
    OBVIOUS
  <2>1. f[n] \in Stays(s, p) /\ IsAuto(s[f[n]])
    BY <1>1, <1>4
  <2> QED BY <2>1 DEF Stays, Autos
<1> HIDE DEF T, t
<1>6. g \in [Autos(t) -> T] /\ \A x, y \in Autos(t) : g[x] = g[y] => x = y
  BY <1>1, <1>4, <1>5
<1>7. Cardinality(Autos(t)) <= Cardinality(T)
  BY <1>3, <1>6, Inject
<1>8. Cardinality(T) \in Nat /\ Cardinality(Autos(t)) \in Nat
  BY <1>3, <1>6, Inject, FS_CardinalityType
<1> QED BY <1>3, <1>7, <1>8, SaveBackupsConstants DEF t

-----------------------------------------------------------------------------
(* What becomes of the copies *)

\* A copy in front, or behind the others.
LEMMA AddedCopies ==
  ASSUME NEW s \in Seq(Snap), NEW c \in Snap
  PROVE  /\ <<c>> \o s \in Seq(Snap) /\ Append(s, c) \in Seq(Snap)
         /\ DOMAIN (<<c>> \o s) = 1 .. Len(s) + 1 /\ DOMAIN Append(s, c) = 1 .. Len(s) + 1
         /\ (<<c>> \o s)[1] = c /\ \A i \in DOMAIN s : (<<c>> \o s)[i + 1] = s[i]
         /\ Append(s, c)[Len(s) + 1] = c /\ \A i \in DOMAIN s : Append(s, c)[i] = s[i]
OBVIOUS

\* A new copy is at most one automatic copy more (capture, migrateLegacy).
LEMMA AddedCount ==
  ASSUME NEW s \in Seq(Snap), NEW c \in Snap
  PROVE  /\ Cardinality(Autos(<<c>> \o s)) <= Cardinality(Autos(s)) + 1
         /\ Cardinality(Autos(Append(s, c))) <= Cardinality(Autos(s)) + 1
<1>0. IsFiniteSet(Autos(s)) /\ Cardinality(Autos(s)) \in Nat
  BY AutosFinite
<1>1. /\ IsFiniteSet(Autos(s) \cup {0}) /\ Cardinality(Autos(s) \cup {0}) \in Nat
      /\ Cardinality(Autos(s) \cup {0}) <= Cardinality(Autos(s)) + 1
  <2>1. /\ IsFiniteSet(Autos(s) \cup {0})
        /\ Cardinality(Autos(s) \cup {0}) = IF 0 \in Autos(s) THEN Cardinality(Autos(s)) ELSE Cardinality(Autos(s)) + 1
    BY <1>0, FS_AddElement
  <2> QED BY <1>0, <2>1
<1>2. ASSUME NEW t \in Seq(Snap), NEW f \in [Autos(t) -> Autos(s) \cup {0}],
             \A x, y \in Autos(t) : f[x] = f[y] => x = y
      PROVE  Cardinality(Autos(t)) <= Cardinality(Autos(s)) + 1
  <2>1. Cardinality(Autos(t)) <= Cardinality(Autos(s) \cup {0})
    BY <1>1, <1>2, Inject
  <2>2. Cardinality(Autos(t)) \in Nat
    BY <1>2, AutosFinite
  <2> QED BY <1>0, <1>1, <2>1, <2>2
<1>3. Cardinality(Autos(<<c>> \o s)) <= Cardinality(Autos(s)) + 1
  <2> DEFINE t == <<c>> \o s
             f == [i \in Autos(t) |-> i - 1]
  <2>1. t \in Seq(Snap) /\ DOMAIN t = 1 .. Len(s) + 1 /\ \A i \in DOMAIN s : t[i + 1] = s[i]
    BY AddedCopies
  <2> HIDE DEF t
  <2>2. \A i \in Autos(t) : i \in 1 .. Len(s) + 1 /\ IsAuto(t[i])
    BY <2>1 DEF Autos
  <2>3. ASSUME NEW i \in Autos(t), i # 1 PROVE i - 1 \in Autos(s)
    <3>1. i - 1 \in DOMAIN s /\ (i - 1) + 1 = i
      BY <2>2, <2>3
    <3> QED BY <3>1, <2>1, <2>2 DEF Autos
  <2>4. \A x, y \in Autos(t) : f[x] = f[y] => x = y
    BY <2>2
  <2>5. f \in [Autos(t) -> Autos(s) \cup {0}]
    BY <2>3
  <2> HIDE DEF f
  <2>6. Cardinality(Autos(t)) <= Cardinality(Autos(s)) + 1
    BY <1>2, <2>1, <2>4, <2>5
  <2> QED BY <2>6 DEF t
<1>4. Cardinality(Autos(Append(s, c))) <= Cardinality(Autos(s)) + 1
  <2> DEFINE t == Append(s, c)
             f == [i \in Autos(t) |-> IF i \in Autos(s) THEN i ELSE 0]
  <2>1. t \in Seq(Snap) /\ DOMAIN t = 1 .. Len(s) + 1 /\ \A i \in DOMAIN s : t[i] = s[i]
    BY AddedCopies
  <2> HIDE DEF t
  <2>2. \A i \in Autos(t) : i \in 1 .. Len(s) + 1 /\ IsAuto(t[i])
    BY <2>1 DEF Autos
  <2>3. ASSUME NEW i \in Autos(t), i \notin Autos(s) PROVE i = Len(s) + 1
    <3>1. i \notin DOMAIN s
      BY <2>1, <2>2, <2>3 DEF Autos
    <3> QED BY <3>1, <2>2
  <2>0. 0 \notin Autos(s)
    BY DEF Autos
  <2>4. \A x, y \in Autos(t) : f[x] = f[y] => x = y
    BY <2>0, <2>3
  <2>5. f \in [Autos(t) -> Autos(s) \cup {0}]
    OBVIOUS
  <2> HIDE DEF f
  <2>6. Cardinality(Autos(t)) <= Cardinality(Autos(s)) + 1
    BY <1>2, <2>1, <2>4, <2>5
  <2> QED BY <2>6 DEF t
<1> QED BY <1>3, <1>4

\* Delete: the others stay.
LEMMA RemovedCopies ==
  ASSUME NEW s \in Seq(Snap), NEW k \in DOMAIN s
  PROVE  /\ RemoveAt(s, k) \in Seq(Snap)
         /\ DOMAIN RemoveAt(s, k) = 1 .. Len(s) - 1
         /\ \A i \in 1 .. Len(s) - 1 : RemoveAt(s, k)[i] = IF i < k THEN s[i] ELSE s[i + 1]
<1>1. k \in 1 .. Len(s) /\ Len(s) \in Nat
  OBVIOUS
<1> DEFINE a == SubSeq(s, 1, k - 1)
           b == SubSeq(s, k + 1, Len(s))
<1>2. a \in Seq(Snap) /\ Len(a) = k - 1 /\ \A i \in 1 .. k - 1 : a[i] = s[i]
  BY <1>1
<1>3. b \in Seq(Snap) /\ Len(b) = Len(s) - k /\ \A i \in 1 .. Len(s) - k : b[i] = s[k + i]
  BY <1>1
<1> HIDE DEF a, b
<1>4. /\ a \o b \in Seq(Snap) /\ Len(a \o b) = Len(s) - 1
      /\ \A i \in 1 .. Len(s) - 1 : (a \o b)[i] = IF i <= k - 1 THEN a[i] ELSE b[i - (k - 1)]
  BY SMTT(60), <1>1, <1>2, <1>3
<1>5. \A i \in 1 .. Len(s) - 1 : (a \o b)[i] = IF i < k THEN s[i] ELSE s[i + 1]
  <2> SUFFICES ASSUME NEW i \in 1 .. Len(s) - 1
               PROVE  (a \o b)[i] = IF i < k THEN s[i] ELSE s[i + 1]
    OBVIOUS
  <2>1. CASE i < k
    BY <1>1, <1>2, <1>4, <2>1
  <2>2. CASE ~(i < k)
    <3>1. i - (k - 1) \in 1 .. Len(s) - k /\ k + (i - (k - 1)) = i + 1
      BY <1>1, <2>2
    <3>2. (a \o b)[i] = b[i - (k - 1)]
      BY <1>1, <1>4, <2>2
    <3> QED BY <1>3, <3>1, <3>2, <2>2
  <2> QED BY <2>1, <2>2
<1>6. RemoveAt(s, k) = a \o b
  BY DEF RemoveAt, a, b
<1> QED BY <1>4, <1>5, <1>6

\* A deleted copy is one automatic copy less, if it was one (Delete).
LEMMA RemovedCount ==
  ASSUME NEW s \in Seq(Snap), NEW k \in DOMAIN s
  PROVE  Cardinality(Autos(RemoveAt(s, k))) <= IF k \in Autos(s) THEN Cardinality(Autos(s)) - 1
                                                               ELSE Cardinality(Autos(s))
<1> DEFINE t == RemoveAt(s, k)
           T == Autos(s) \ {k}
           f == [i \in Autos(t) |-> IF i < k THEN i ELSE i + 1]
<1>1. /\ t \in Seq(Snap) /\ DOMAIN t = 1 .. Len(s) - 1
      /\ \A i \in 1 .. Len(s) - 1 : t[i] = IF i < k THEN s[i] ELSE s[i + 1]
  BY RemovedCopies
<1> HIDE DEF t
<1>2. IsFiniteSet(T) /\ Cardinality(T) = IF k \in Autos(s) THEN Cardinality(Autos(s)) - 1
                                                           ELSE Cardinality(Autos(s))
  BY AutosFinite, FS_RemoveElement
<1>3. \A i \in Autos(t) : i \in 1 .. Len(s) - 1 /\ IsAuto(t[i])
  BY <1>1 DEF Autos
<1>4. k \in 1 .. Len(s) /\ Len(s) \in Nat
  OBVIOUS
<1>5. \A i \in Autos(t) : (IF i < k THEN i ELSE i + 1) \in T
  BY SMTT(60), <1>1, <1>3, <1>4 DEF Autos
<1> HIDE DEF T
<1>6. f \in [Autos(t) -> T]
  BY <1>5
<1>7. \A x, y \in Autos(t) : f[x] = f[y] => x = y
  BY <1>3, <1>4
<1> HIDE DEF f
<1>8. Cardinality(Autos(t)) <= Cardinality(T)
  BY <1>2, <1>6, <1>7, Inject
<1> QED BY <1>2, <1>8 DEF t

\* A damaged copy is not one more automatic copy.
LEMMA DamagedCopies ==
  ASSUME NEW s \in Seq(Snap), NEW k \in DOMAIN s, s[k].state = "good", NEW to \in {"rotten", "broken"},
         NEW t, t = [s EXCEPT ![k].state = to]
  PROVE  /\ t \in Seq(Snap) /\ DOMAIN t = DOMAIN s
         /\ \A i \in DOMAIN s : t[i].of = s[i].of /\ (i # k => t[i] = s[i])
         /\ Cardinality(Autos(t)) <= Cardinality(Autos(s))
<1>0. s[k] \in Snap
  OBVIOUS
<1>1. [s[k] EXCEPT !.state = to] \in Snap /\ [s[k] EXCEPT !.state = to].of = s[k].of
      /\ [s[k] EXCEPT !.state = to].kind = s[k].kind
  BY <1>0 DEF Snap
<1>2. t \in Seq(Snap) /\ DOMAIN t = DOMAIN s
  BY <1>1
<1>3. \A i \in DOMAIN s : t[i] = IF i = k THEN [s[k] EXCEPT !.state = to] ELSE s[i]
  OBVIOUS
<1>4. Autos(t) \subseteq Autos(s)
  BY <1>1, <1>2, <1>3 DEF Autos, IsAuto
<1>5. Cardinality(Autos(t)) <= Cardinality(Autos(s))
  BY <1>4, AutosFinite, FS_Subset
<1>6. \A i \in DOMAIN s : t[i].of = s[i].of /\ (i # k => t[i] = s[i])
  BY <1>1, <1>3
<1> QED BY <1>2, <1>5, <1>6

\* What is good is there to be put back.
LEMMA GoodIsIn ==
  ASSUME NEW s \in Seq(Snap), NEW i \in DOMAIN s, s[i].state = "good"
  PROVE  s[i].of \in GoodIn(s)
BY DEF GoodIn

\* What a new copy leaves: nothing is newer than what was played, the new content is among
\* the good ones and so is the protected copy, and there are not too many.
Kept(p, c) ==
  /\ snaps' \in Seq(Snap) /\ faults' \in faults .. MaxFaults
  /\ \A i \in DOMAIN snaps' : snaps'[i].of <= plays
  /\ Cardinality(Autos(snaps')) <= Limit + 1 + faults'
  /\ p > 1 /\ p - 1 \in DOMAIN snaps /\ snaps[p - 1].state = "good" => snaps[p - 1].of \in GoodIn(snaps')

\* A new copy and the rotation after it, which may fail: the new content is there, what is
\* protected is still there (capture, rotate).
LEMMA CaptureKeeps ==
  ASSUME Types, \A i \in DOMAIN snaps : snaps[i].of <= plays,
         Cardinality(Autos(snaps)) <= Limit + 1 + faults,
         NEW kind \in {"manual", "auto", "update"}, NEW c \in Contents, c <= plays, NEW p \in Nat,
         Capture(kind, c, p)
  PROVE  Kept(p, c) /\ c \in GoodIn(snaps')
<1> DEFINE new == Copy(kind, c)
           all == <<new>> \o snaps
<1>0. snaps \in Seq(Snap) /\ faults \in Nat /\ MaxFaults \in Nat /\ faults <= MaxFaults /\ Limit \in Nat /\ Limit > 0
  BY SaveBackupsConstants DEF Types
<1>1. new \in Snap /\ new.of = c /\ new.state = "good"
  BY DEF Copy, Snap
<1>9. \/ snaps' = Rotate(all, p) /\ faults' = faults
      \/ faults < MaxFaults /\ snaps' = all /\ faults' = faults + 1
  BY DEF Capture
<1> HIDE DEF new
<1>2. /\ all \in Seq(Snap) /\ DOMAIN all = 1 .. Len(snaps) + 1 /\ all[1] = new
      /\ \A i \in DOMAIN snaps : all[i + 1] = snaps[i]
  BY <1>0, <1>1, AddedCopies
<1>3. Cardinality(Autos(all)) <= Cardinality(Autos(snaps)) + 1
  BY <1>0, <1>1, AddedCount
<1>4. Cardinality(Autos(all)) \in Nat /\ Cardinality(Autos(snaps)) \in Nat
  BY <1>0, <1>2, AutosFinite
<1>5. Len(snaps) \in Nat /\ DOMAIN snaps = 1 .. Len(snaps)
  BY <1>0
<1>6. \A i \in DOMAIN all : all[i].of <= plays
  <2> SUFFICES ASSUME NEW i \in DOMAIN all PROVE all[i].of <= plays
    OBVIOUS
  <2>1. CASE i = 1
    BY <1>1, <1>2, <2>1
  <2>2. CASE i # 1
    <3>1. i - 1 \in DOMAIN snaps /\ (i - 1) + 1 = i
      BY <1>2, <1>5, <2>2
    <3> QED BY <1>2, <3>1
  <2> QED BY <2>1, <2>2
<1>7. p > 1 /\ p - 1 \in DOMAIN snaps => p \in DOMAIN all /\ all[p] = snaps[p - 1]
  <2>1. (p - 1) + 1 = p
    OBVIOUS
  <2> QED BY <1>2, <1>5, <2>1
<1>8. 1 \in DOMAIN all
  BY <1>2, <1>5
<1> HIDE DEF all
<1>10. CASE faults < MaxFaults /\ snaps' = all /\ faults' = faults + 1
  <2>1. Cardinality(Autos(snaps')) <= Limit + 1 + faults'
    BY <1>0, <1>3, <1>4, <1>10
  <2>2. p > 1 /\ p - 1 \in DOMAIN snaps /\ snaps[p - 1].state = "good" => snaps[p - 1].of \in GoodIn(snaps')
    BY <1>2, <1>7, <1>10, GoodIsIn
  <2>3. c \in GoodIn(snaps')
    BY <1>1, <1>2, <1>8, <1>10, GoodIsIn
  <2> QED BY <1>0, <1>2, <1>6, <1>10, <2>1, <2>2, <2>3 DEF Kept
<1>11. CASE snaps' = Rotate(all, p) /\ faults' = faults
  <2> DEFINE t == Rotate(all, p)
  <2>1. /\ t \in Seq(Snap)
        /\ \A i \in Stays(all, p) : \E n \in DOMAIN t : t[n] = all[i]
        /\ \A n \in DOMAIN t : \E i \in DOMAIN all : t[n] = all[i]
    <3>1. Stays(all, p) \subseteq DOMAIN all
      BY DEF Stays
    <3>2. PICK f \in [DOMAIN t -> Stays(all, p)] :
             \A n \in DOMAIN t : /\ t[n] = all[f[n]]
                                 /\ \A m \in DOMAIN t : f[n] = f[m] => n = m
      BY <1>2, RotatedCopies
    <3>3. \A n \in DOMAIN t : \E i \in DOMAIN all : t[n] = all[i]
      <4> HIDE DEF t
      <4> QED BY <3>1, <3>2
    <3> QED BY <1>2, <3>3, RotatedCopies
  <2>2. Cardinality(Autos(t)) <= Limit + 1
    BY <1>2, RotatedCount
  <2>3. Cardinality(Autos(t)) \in Nat
    BY <2>1, AutosFinite
  <2>4. 1 \in Stays(all, p)
    <3>1. Newer(all, 1) = 0
      <4>1. {j \in 1 .. 1 - 1 : IsAuto(all[j])} = {}
        OBVIOUS
      <4> QED BY <4>1, FS_EmptySet DEF Newer
    <3> QED BY <1>0, <1>8, <3>1 DEF Stays
  <2>5. p \in DOMAIN all => p \in Stays(all, p)
    BY DEF Stays
  <2> HIDE DEF t
  <2>6. ASSUME NEW i \in Stays(all, p), i \in DOMAIN all, all[i].state = "good"
        PROVE  all[i].of \in GoodIn(t)
    <3>1. PICK n \in DOMAIN t : t[n] = all[i]
      BY <2>1
    <3> QED BY <2>1, <2>6, <3>1, GoodIsIn
  <2>7. c \in GoodIn(t)
    BY <1>1, <1>2, <1>8, <2>4, <2>6
  <2>8. p > 1 /\ p - 1 \in DOMAIN snaps /\ snaps[p - 1].state = "good" => snaps[p - 1].of \in GoodIn(t)
    BY <1>7, <2>5, <2>6
  <2>9. \A i \in DOMAIN t : t[i].of <= plays
    BY <1>6, <2>1
  <2>10. snaps' = t
    BY <1>11 DEF t
  <2>11. Cardinality(Autos(t)) <= Limit + 1 + faults
    BY <1>0, <2>2, <2>3
  <2> QED BY <1>0, <1>11, <2>1, <2>7, <2>8, <2>9, <2>10, <2>11 DEF Kept
<1> QED BY <1>9, <1>10, <1>11

\* The same where a copy of this content may be there already (dedupLatest).
LEMMA CaptureNewKeeps ==
  ASSUME Types, \A i \in DOMAIN snaps : snaps[i].of <= plays,
         Cardinality(Autos(snaps)) <= Limit + 1 + faults,
         NEW c \in Contents, c <= plays, NEW p \in Nat, NEW verified \in BOOLEAN,
         CaptureNew("auto", c, verified, p)
  PROVE  Kept(p, c) /\ (verified => c \in GoodIn(snaps'))
<1>1. CASE Duplicate(c, verified)
  <2>1. UNCHANGED <<snaps, faults>>
    BY <1>1 DEF CaptureNew
  <2>2. snaps \in Seq(Snap) /\ faults \in faults .. MaxFaults
    BY SaveBackupsConstants DEF Types
  <2>3. verified => \E i \in DOMAIN snaps : snaps[i].of = c /\ snaps[i].state = "good"
    BY <1>1 DEF Duplicate
  <2>4. \A i \in DOMAIN snaps : snaps[i].state = "good" => snaps[i].of \in GoodIn(snaps)
    BY <2>2, GoodIsIn
  <2> QED BY <2>1, <2>2, <2>3, <2>4 DEF Kept
<1>2. CASE ~Duplicate(c, verified)
  <2>1. Capture("auto", c, p)
    BY <1>2 DEF CaptureNew
  <2> QED BY <2>1, CaptureKeeps
<1> QED BY <1>1, <1>2

\* An operation that leaves the copies.
LEMMA CountKept ==
  ASSUME Types, CountInv, snaps' = snaps, legacy' \in {legacy, 0}, faults' \in {faults, faults + 1}
  PROVE  CountInv'
<1>1. Cardinality(Autos(snaps)) \in Nat /\ Limit \in Nat /\ faults \in Nat
  BY AutosFinite, SaveBackupsConstants DEF Types
<1> QED BY <1>1 DEF CountInv

\* A restore is asked for, by the number of a copy (Restore): the copies still agree with the
\* operation, and are few.
LEMMA RestoreCopies ==
  ASSUME IInv, Restore
  PROVE  CopiesInv' /\ CountInv'
<1> USE DEF IInv, StateInv
<1>1. snaps' = snaps /\ legacy' \in {legacy, 0} /\ faults' \in {faults, faults + 1}
  BY DEF Restore, bounds
<1>2. CountInv'
  BY <1>1, CountKept
<1>3. \E i \in DOMAIN snaps : Begin("restore", i)
  BY DEF Restore, Kinds
<1>4. CopiesInv'
  BY <1>1, <1>3, OpBegins DEF CopiesInv, OpInv, Types, Ops, Early, Moves, NoOp, At, Goto, Free, bounds, Kinds, Restore
<1> QED BY <1>2, <1>4

\* A copy is asked for (Create, SnapshotPath): the copies still agree with the operation, and
\* are few.
LEMMA TakeCopyCopies ==
  ASSUME IInv, TakeCopy
  PROVE  CopiesInv' /\ CountInv'
<1> USE DEF IInv, StateInv
<1>1. snaps' = snaps /\ legacy' \in {legacy, 0} /\ faults' \in {faults, faults + 1}
  BY DEF TakeCopy, bounds
<1>2. CountInv'
  BY <1>1, CountKept
<1>3. \E k \in Kinds \ {"none", "restore"} : Begin(k, 0)
  BY DEF TakeCopy, Kinds
<1>4. CopiesInv'
  BY <1>1, <1>3, OpBegins DEF CopiesInv, OpInv, Types, Ops, Early, Moves, NoOp, At, Goto, Free, bounds, Kinds, TakeCopy
<1> QED BY <1>2, <1>4

\* What is due after a start or a session gets the lock (recoverGames, autoBackup): the
\* copies still agree with the operation, and are few.
LEMMA BeginDueCopies ==
  ASSUME IInv, BeginDue
  PROVE  CopiesInv' /\ CountInv'
<1> USE DEF IInv, StateInv
<1>1. snaps' = snaps /\ legacy' \in {legacy, 0} /\ faults' \in {faults, faults + 1}
  BY DEF BeginDue, bounds
<1>2. CountInv'
  BY <1>1, CountKept
<1>3. \E k \in Kinds \ {"none", "restore"} : Begin(k, 0)
  BY DEF BeginDue, Kinds, Types
<1>4. CopiesInv'
  BY <1>1, <1>3, OpBegins DEF CopiesInv, OpInv, Types, Ops, Early, Moves, NoOp, At, Goto, Free, bounds, Kinds, BeginDue
<1> QED BY <1>2, <1>4

\* The copy before a launch gets the lock (SessionStarting): the copies still agree with the
\* operation, and are few.
LEMMA BeginLaunchCopies ==
  ASSUME IInv, BeginLaunch
  PROVE  CopiesInv' /\ CountInv'
<1> USE DEF IInv, StateInv
<1>1. snaps' = snaps /\ legacy' \in {legacy, 0} /\ faults' \in {faults, faults + 1}
  BY DEF BeginLaunch, bounds
<1>2. CountInv'
  BY <1>1, CountKept
<1>3. Begin("launch", 0)
  BY DEF BeginLaunch
<1>4. CopiesInv'
  BY <1>1, <1>3, OpBegins DEF CopiesInv, OpInv, Types, Ops, Early, Moves, NoOp, At, Goto, Free, bounds, Kinds, BeginLaunch
<1> QED BY <1>2, <1>4

\* The copy of earlier versions is removed (migrateLegacy): the copies still agree with the
\* operation, and are few.
LEMMA ForgetLegacyCopies ==
  ASSUME IInv, ForgetLegacy
  PROVE  CopiesInv' /\ CountInv'
<1> USE DEF IInv, StateInv
<1>1. snaps' = snaps /\ legacy' \in {legacy, 0} /\ faults' \in {faults, faults + 1}
  BY DEF ForgetLegacy, bounds
<1>2. CountInv'
  BY <1>1, CountKept
<1>4. CopiesInv'
  BY <1>1 DEF CopiesInv, OpInv, Types, Ops, Early, Moves, NoOp, At, Goto, Free, bounds, ForgetLegacy, Body
<1> QED BY <1>2, <1>4

\* A start has nothing more to do for the game (recoverGames): the copies still agree with
\* the operation, and are few.
LEMMA DoneCopies ==
  ASSUME IInv, Done
  PROVE  CopiesInv' /\ CountInv'
<1> USE DEF IInv, StateInv
<1>1. snaps' = snaps /\ legacy' \in {legacy, 0} /\ faults' \in {faults, faults + 1}
  BY DEF Done, bounds
<1>2. CountInv'
  BY <1>1, CountKept
<1>4. CopiesInv'
  BY <1>1 DEF CopiesInv, OpInv, Types, Ops, Early, Moves, NoOp, At, Goto, Free, bounds, Done, End
<1> QED BY <1>2, <1>4

\* The journal is written before anything is touched (writeJournal): the copies still agree
\* with the operation, and are few.
LEMMA WriteJournalCopies ==
  ASSUME IInv, WriteJournal
  PROVE  CopiesInv' /\ CountInv'
<1> USE DEF IInv, StateInv
<1>1. snaps' = snaps /\ legacy' \in {legacy, 0} /\ faults' \in {faults, faults + 1}
  BY DEF WriteJournal, bounds
<1>2. CountInv'
  BY <1>1, CountKept
<1>4. CopiesInv'
  BY <1>1 DEF CopiesInv, OpInv, Types, Ops, Early, Moves, NoOp, At, Goto, Free, bounds, WriteJournal
<1> QED BY <1>2, <1>4

\* The copy is put next to the saves (Restore): the copies still agree with the operation,
\* and are few.
LEMMA CopyOutCopies ==
  ASSUME IInv, CopyOut
  PROVE  CopiesInv' /\ CountInv'
<1> USE DEF IInv, StateInv
<1>1. snaps' = snaps /\ legacy' \in {legacy, 0} /\ faults' \in {faults, faults + 1}
  BY DEF CopyOut, bounds
<1>2. CountInv'
  BY <1>1, CountKept
<1>4. CopiesInv'
  BY <1>1 DEF CopiesInv, OpInv, Types, Ops, Early, Moves, NoOp, At, Goto, Free, bounds, CopyOut
<1> QED BY <1>2, <1>4

\* The journal says that the copy is whole (writeJournal): the copies still agree with the
\* operation, and are few.
LEMMA ReadyCopies ==
  ASSUME IInv, Ready
  PROVE  CopiesInv' /\ CountInv'
<1> USE DEF IInv, StateInv
<1>1. snaps' = snaps /\ legacy' \in {legacy, 0} /\ faults' \in {faults, faults + 1}
  BY DEF Ready, bounds
<1>2. CountInv'
  BY <1>1, CountKept
<1>4. CopiesInv'
  BY <1>1 DEF CopiesInv, OpInv, Types, Ops, Early, Moves, NoOp, At, Goto, Free, bounds, Ready
<1> QED BY <1>2, <1>4

\* The game is asked for again (Restore): the copies still agree with the operation, and are
\* few.
LEMMA CheckCopies ==
  ASSUME IInv, Check
  PROVE  CopiesInv' /\ CountInv'
<1> USE DEF IInv, StateInv
<1>1. snaps' = snaps /\ legacy' \in {legacy, 0} /\ faults' \in {faults, faults + 1}
  BY DEF Check, bounds
<1>2. CountInv'
  BY <1>1, CountKept
<1>4. CopiesInv'
  BY <1>1 DEF CopiesInv, OpInv, Types, Ops, Early, Moves, NoOp, At, Goto, Free, bounds, Check
<1> QED BY <1>2, <1>4

\* The saves are moved aside (Restore): the copies still agree with the operation, and are few.
LEMMA AsideCopies ==
  ASSUME IInv, Aside
  PROVE  CopiesInv' /\ CountInv'
<1> USE DEF IInv, StateInv
<1>1. snaps' = snaps /\ legacy' \in {legacy, 0} /\ faults' \in {faults, faults + 1}
  BY DEF Aside, bounds
<1>2. CountInv'
  BY <1>1, CountKept
<1>4. CopiesInv'
  BY <1>1 DEF CopiesInv, OpInv, Types, Ops, Early, Moves, NoOp, At, Goto, Free, bounds, Aside
<1> QED BY <1>2, <1>4

\* The copy takes their place (Restore): the copies still agree with the operation, and are
\* few.
LEMMA PlaceCopies ==
  ASSUME IInv, Place
  PROVE  CopiesInv' /\ CountInv'
<1> USE DEF IInv, StateInv
<1>1. snaps' = snaps /\ legacy' \in {legacy, 0} /\ faults' \in {faults, faults + 1}
  BY DEF Place, bounds
<1>2. CountInv'
  BY <1>1, CountKept
<1>4. CopiesInv'
  BY <1>1 DEF CopiesInv, OpInv, Types, Ops, Early, Moves, NoOp, At, Goto, Free, bounds, Place
<1> QED BY <1>2, <1>4

\* A restore settles what it did (resolve): the copies still agree with the operation, and
\* are few.
LEMMA ResolveCopies ==
  ASSUME IInv, Resolve
  PROVE  CopiesInv' /\ CountInv'
<1> USE DEF IInv, StateInv
<1>1. snaps' = snaps /\ legacy' \in {legacy, 0} /\ faults' \in {faults, faults + 1}
  BY DEF Resolve, bounds
<1>2. CountInv'
  BY <1>1, CountKept
<1>4. CopiesInv'
  BY <1>1 DEF CopiesInv, OpInv, Types, Ops, Early, Moves, NoOp, At, Goto, Free, bounds, Resolve, End
<1> QED BY <1>2, <1>4

\* A step fails, or its caller is gone: the copies still agree with the operation, and are few.
LEMMA StepFailsCopies ==
  ASSUME IInv, StepFails
  PROVE  CopiesInv' /\ CountInv'
<1> USE DEF IInv, StateInv
<1>1. snaps' = snaps /\ legacy' \in {legacy, 0} /\ faults' \in {faults, faults + 1}
  BY DEF StepFails, bounds
<1>2. CountInv'
  BY <1>1, CountKept
<1>4. CopiesInv'
  BY <1>1 DEF CopiesInv, OpInv, Types, Ops, Early, Moves, NoOp, At, Goto, Free, bounds, StepFails, End
<1> QED BY <1>2, <1>4

\* A launch begins (PlayGame): the copies still agree with the operation, and are few.
LEMMA PlayGameCopies ==
  ASSUME IInv, PlayGame
  PROVE  CopiesInv' /\ CountInv'
<1> USE DEF IInv, StateInv
<1>1. snaps' = snaps /\ legacy' \in {legacy, 0} /\ faults' \in {faults, faults + 1}
  BY DEF PlayGame, bounds
<1>2. CountInv'
  BY <1>1, CountKept
<1>4. CopiesInv'
  BY <1>1 DEF CopiesInv, OpInv, Types, Ops, Early, Moves, NoOp, At, Goto, Free, bounds, PlayGame
<1> QED BY <1>2, <1>4

\* A launch has waited long enough (launchTimedOut): the copies still agree with the
\* operation, and are few.
LEMMA TimeoutCopies ==
  ASSUME IInv, Timeout
  PROVE  CopiesInv' /\ CountInv'
<1> USE DEF IInv, StateInv
<1>1. snaps' = snaps /\ legacy' \in {legacy, 0} /\ faults' \in {faults, faults + 1}
  BY DEF Timeout, bounds
<1>2. CountInv'
  BY <1>1, CountKept
<1>4. CopiesInv'
  BY <1>1 DEF CopiesInv, OpInv, Types, Ops, Early, Moves, NoOp, At, Goto, Free, bounds, Timeout
<1> QED BY <1>2, <1>4

\* A session ends: the copies still agree with the operation, and are few.
LEMMA StopCopies ==
  ASSUME IInv, Stop
  PROVE  CopiesInv' /\ CountInv'
<1> USE DEF IInv, StateInv
<1>1. snaps' = snaps /\ legacy' \in {legacy, 0} /\ faults' \in {faults, faults + 1}
  BY DEF Stop, bounds
<1>2. CountInv'
  BY <1>1, CountKept
<1>4. CopiesInv'
  BY <1>1 DEF CopiesInv, OpInv, Types, Ops, Early, Moves, NoOp, At, Goto, Free, bounds, Stop
<1> QED BY <1>2, <1>4

\* The player removes the saves: the copies still agree with the operation, and are few.
LEMMA RemoveSavesCopies ==
  ASSUME IInv, RemoveSaves
  PROVE  CopiesInv' /\ CountInv'
<1> USE DEF IInv, StateInv
<1>1. snaps' = snaps /\ legacy' \in {legacy, 0} /\ faults' \in {faults, faults + 1}
  BY DEF RemoveSaves, bounds
<1>2. CountInv'
  BY <1>1, CountKept
<1>4. CopiesInv'
  BY <1>1 DEF CopiesInv, OpInv, Types, Ops, Early, Moves, NoOp, At, Goto, Free, bounds, RemoveSaves
<1> QED BY <1>2, <1>4

\* The launcher dies and starts again: the copies still agree with the operation, and are few.
LEMMA CrashCopies ==
  ASSUME IInv, Crash
  PROVE  CopiesInv' /\ CountInv'
<1> USE DEF IInv, StateInv
<1>1. snaps' = snaps /\ legacy' \in {legacy, 0} /\ faults' \in {faults, faults + 1}
  BY DEF Crash, bounds
<1>2. CountInv'
  BY <1>1, CountKept
<1>4. CopiesInv'
  BY <1>1 DEF CopiesInv, OpInv, Types, Ops, Early, Moves, NoOp, At, Goto, Free, bounds, Crash
<1> QED BY <1>2, <1>4

\* A copy is deleted (Delete): the copies still agree with the operation, and are few.
LEMMA DeleteCopies ==
  ASSUME IInv, Delete
  PROVE  snaps' \in Seq(Snap) /\ CopiesInv' /\ CountInv'
<1> USE DEF IInv, StateInv
<1>1. PICK k \in DOMAIN snaps : snaps' = RemoveAt(snaps, k)
  BY DEF Delete
<1>2. op = NoOp /\ op' = op /\ legacy' = legacy /\ faults' = faults /\ plays' = plays
  BY DEF Delete, Free, bounds
<1>3. snaps \in Seq(Snap) /\ faults \in Nat /\ Limit \in Nat
  BY SaveBackupsConstants DEF Types
<1>4. /\ snaps' \in Seq(Snap) /\ DOMAIN snaps' = 1 .. Len(snaps) - 1
      /\ \A i \in 1 .. Len(snaps) - 1 : snaps'[i] = IF i < k THEN snaps[i] ELSE snaps[i + 1]
  BY <1>1, <1>3, RemovedCopies
<1>5. Cardinality(Autos(snaps')) <= IF k \in Autos(snaps) THEN Cardinality(Autos(snaps)) - 1
                                                          ELSE Cardinality(Autos(snaps))
  BY <1>1, <1>3, RemovedCount
<1>6. Cardinality(Autos(snaps)) \in Nat /\ Cardinality(Autos(snaps')) \in Nat
  BY <1>3, <1>4, AutosFinite
<1>7. \A i \in 1 .. Len(snaps) - 1 : i \in DOMAIN snaps /\ i + 1 \in DOMAIN snaps
  BY <1>3
<1>8. CopiesInv'
  <2>1. \A i \in DOMAIN snaps' : snaps'[i].of <= plays
    BY <1>4, <1>7 DEF CopiesInv
  <2> QED BY <1>2, <2>1 DEF CopiesInv, NoOp, Early, Moves
<1>9. CountInv'
  <2>1. Cardinality(Autos(snaps')) <= Limit + 1 + faults
    BY <1>3, <1>5, <1>6 DEF CountInv
  <2>2. ASSUME legacy # 0, ~Has(snaps', legacy)
        PROVE  Cardinality(Autos(snaps')) <= Limit + faults
    <3>1. CASE ~Has(snaps, legacy)
      BY <1>3, <1>5, <1>6, <2>2, <3>1 DEF CountInv
    <3>2. CASE Has(snaps, legacy)
      <4>1. PICK m \in DOMAIN snaps : snaps[m] = Copy("update", legacy)
        BY <3>2 DEF Has
      <4>2. m = k
        <5>1. k \in 1 .. Len(snaps) /\ m \in 1 .. Len(snaps) /\ Len(snaps) \in Nat
          BY <1>3
        <5>2. m < k => m \in 1 .. Len(snaps) - 1 /\ snaps'[m] = snaps[m]
          BY <1>4, <5>1
        <5>3. m > k => m - 1 \in 1 .. Len(snaps) - 1 /\ ~(m - 1 < k) /\ (m - 1) + 1 = m
          BY <5>1
        <5>4. m > k => snaps'[m - 1] = snaps[m]
          BY <1>4, <5>3
        <5> QED BY <1>4, <2>2, <4>1, <5>1, <5>2, <5>3, <5>4 DEF Has
      <4>3. k \in Autos(snaps)
        BY <4>1, <4>2 DEF Autos, IsAuto, Copy
      <4> QED BY <1>3, <1>5, <1>6, <4>3 DEF CountInv
    <3> QED BY <3>1, <3>2
  <2> QED BY <1>2, <2>1, <2>2 DEF CountInv
<1> QED BY <1>4, <1>8, <1>9

\* The copy of earlier versions is taken over (migrateLegacy): the copies still agree with
\* the operation, and are few.
LEMMA MigrateCopies ==
  ASSUME IInv, Migrate
  PROVE  snaps' \in Seq(Snap) /\ CopiesInv' /\ CountInv'
<1> USE DEF IInv, StateInv
<1>1. /\ op.at = "migrate" /\ op' = [op EXCEPT !.at = "forget"] /\ op.of = 0 /\ op.idx \in Nat
      /\ legacy' = legacy /\ faults' = faults /\ plays' = plays /\ legacy # 0
  BY DEF Migrate, At, Goto, bounds, OpInv, CopiesInv, Early, Types, Ops
<1>2. op'.at = "forget" /\ op'.of = 0 /\ op'.kind = op.kind /\ op'.idx = op.idx
  BY <1>1 DEF Types, Ops
<1> DEFINE c == Copy("update", legacy)
<1>3. snaps \in Seq(Snap) /\ faults \in Nat /\ Limit \in Nat /\ c \in Snap /\ c.of <= plays
  BY <1>1, SaveBackupsConstants DEF Types, PlaysInv, Copy, Snap, Contents
<1>4. CASE Has(snaps, legacy)
  <2>1. snaps' = snaps
    BY <1>4 DEF Migrate, Has
  <2> QED BY <1>1, <1>2, <1>3, <2>1 DEF CopiesInv, CountInv, Early, Moves
<1>5. CASE ~Has(snaps, legacy)
  <2>1. snaps' = Append(snaps, c)
    BY <1>5 DEF Migrate, Has
  <2> HIDE DEF c
  <2>2. /\ snaps' \in Seq(Snap) /\ DOMAIN snaps' = 1 .. Len(snaps) + 1
        /\ snaps'[Len(snaps) + 1] = c /\ \A i \in DOMAIN snaps : snaps'[i] = snaps[i]
    BY <1>3, <2>1, AddedCopies
  <2>3. Cardinality(Autos(snaps')) <= Cardinality(Autos(snaps)) + 1
    BY <1>3, <2>1, AddedCount
  <2>4. Cardinality(Autos(snaps)) \in Nat /\ Cardinality(Autos(snaps')) \in Nat
    BY <1>3, <2>2, AutosFinite
  <2>5. DOMAIN snaps = 1 .. Len(snaps) /\ Len(snaps) \in Nat
    BY <1>3
  <2>6. \A i \in DOMAIN snaps' : i \in DOMAIN snaps \/ i = Len(snaps) + 1
    BY <2>2, <2>5
  <2>7. CopiesInv'
    <3>1. \A i \in DOMAIN snaps' : snaps'[i].of <= plays
      BY <1>3, <2>2, <2>6 DEF CopiesInv
    <3>2. op.kind = "restore" => op.idx \in DOMAIN snaps'
      BY <1>1, <2>2, <2>5 DEF CopiesInv, Early
    <3> QED BY <1>1, <1>2, <3>1, <3>2 DEF CopiesInv, Early, Moves
  <2>8. CountInv'
    <3>1. Has(snaps', legacy)
      <4>1. Len(snaps) + 1 \in DOMAIN snaps'
        BY <2>2, <2>5
      <4> QED BY <2>2, <4>1 DEF Has, c
    <3>2. Cardinality(Autos(snaps)) <= Limit + faults
      BY <1>1, <1>5 DEF CountInv
    <3> QED BY <1>1, <1>3, <2>3, <2>4, <3>1, <3>2 DEF CountInv
  <2> QED BY <2>2, <2>7, <2>8
<1> QED BY <1>4, <1>5

\* A copy is taken (capture): the copies still agree with the operation, and are few.
LEMMA TakeItCopies ==
  ASSUME IInv, TakeIt
  PROVE  snaps' \in Seq(Snap) /\ faults' \in 0 .. MaxFaults /\ CopiesInv' /\ CountInv'
<1> USE DEF IInv, StateInv
<1>1. op.at = "capture" /\ op' = NoOp /\ legacy = 0 /\ legacy' = 0 /\ plays' = plays
  BY DEF TakeIt, At, End, CopiesInv
<1>2. \A i \in DOMAIN snaps : snaps[i].of <= plays
  BY DEF CopiesInv
<1>3. Cardinality(Autos(snaps)) <= Limit + 1 + faults
  BY DEF CountInv
<1>4. /\ snaps' \in Seq(Snap) /\ faults' \in 0 .. MaxFaults
      /\ \A i \in DOMAIN snaps' : snaps'[i].of <= plays
      /\ Cardinality(Autos(snaps')) <= Limit + 1 + faults'
  <2>1. CASE Gone(live)
    <3>1. UNCHANGED <<snaps, faults>>
      BY <2>1 DEF TakeIt
    <3> QED BY <1>2, <1>3, <3>1 DEF Types
  <2>2. CASE ~Gone(live)
    <3>1. live \in Contents /\ live <= plays
      BY <2>2 DEF Types, PlaysInv, Contents, Gone
    <3>2. \/ Capture("manual", live, 0) \/ Capture("update", live, 0)
          \/ CaptureNew("auto", live, FALSE, 0)
      BY <2>2 DEF TakeIt
    <3>3. Kept(0, live)
      BY <1>2, <1>3, <3>1, <3>2, CaptureKeeps, CaptureNewKeeps
    <3>4. faults \in 0 .. MaxFaults /\ MaxFaults \in Nat
      BY SaveBackupsConstants DEF Types
    <3> QED BY <3>3, <3>4 DEF Kept
  <2> QED BY <2>1, <2>2
<1>5. CopiesInv'
  BY <1>1, <1>4 DEF CopiesInv, NoOp, Early, Moves
<1>6. CountInv'
  BY <1>1, <1>4 DEF CountInv
<1> QED BY <1>4, <1>5, <1>6

\* The saves are copied before they are replaced (Restore, capture): the copies still agree
\* with the operation, and are few.
LEMMA SafetyCopies ==
  ASSUME IInv, Safety
  PROVE  /\ snaps' \in Seq(Snap) /\ faults' \in 0 .. MaxFaults /\ CopiesInv' /\ CountInv'
         /\ live \in GoodIn(snaps')
<1> USE DEF IInv, StateInv
<1>1. /\ op.at = "safety" /\ op' = [op EXCEPT !.at = "write"] /\ legacy = 0 /\ legacy' = 0 /\ plays' = plays
      /\ op.idx \in DOMAIN snaps /\ snaps[op.idx].state = "good" /\ snaps[op.idx].of = op.of
      /\ op.idx \in Nat
  BY DEF Safety, At, Goto, CopiesInv, OpInv, Early, Types, Ops
<1>2. op'.at = "write" /\ op'.of = op.of /\ op'.kind = op.kind /\ op'.idx = op.idx
  BY <1>1 DEF Types, Ops
<1>3. \A i \in DOMAIN snaps : snaps[i].of <= plays
  BY DEF CopiesInv
<1>4. Cardinality(Autos(snaps)) <= Limit + 1 + faults
  BY DEF CountInv
<1>5. live \in Contents /\ live <= plays
  BY DEF Safety, Types, PlaysInv, Contents, Gone
<1>6. Kept(op.idx + 1, live) /\ live \in GoodIn(snaps')
  <2>1. CaptureNew("auto", live, TRUE, op.idx + 1)
    BY DEF Safety
  <2>2. op.idx + 1 \in Nat
    BY <1>1
  <2> QED BY <1>3, <1>4, <1>5, <2>1, <2>2, CaptureNewKeeps
<1>7. /\ snaps' \in Seq(Snap) /\ faults' \in 0 .. MaxFaults
      /\ \A i \in DOMAIN snaps' : snaps'[i].of <= plays
      /\ Cardinality(Autos(snaps')) <= Limit + 1 + faults'
      /\ op.of \in GoodIn(snaps')
  <2>1. faults \in 0 .. MaxFaults /\ MaxFaults \in Nat
    BY SaveBackupsConstants DEF Types
  <2>2. op.idx + 1 > 1 /\ (op.idx + 1) - 1 = op.idx
    <3>1. op.idx \in 1 .. Len(snaps)
      BY <1>1 DEF Types
    <3> QED BY <3>1
  <2> QED BY <1>1, <1>6, <2>1, <2>2 DEF Kept
<1>8. CopiesInv'
  BY <1>1, <1>2, <1>7 DEF CopiesInv, Early, Moves
<1>9. CountInv'
  BY <1>1, <1>7 DEF CountInv
<1> QED BY <1>6, <1>7, <1>8, <1>9

\* A copy is damaged: the copies still agree with the operation, and are few.
LEMMA RotCopies ==
  ASSUME IInv, Rot
  PROVE  snaps' \in Seq(Snap) /\ faults' \in 0 .. MaxFaults /\ CopiesInv' /\ CountInv'
<1> USE DEF IInv, StateInv
<1>1. PICK k \in DOMAIN snaps, to \in {"rotten", "broken"} :
         snaps[k].state = "good" /\ snaps' = [snaps EXCEPT ![k].state = to]
  BY DEF Rot
<1>2. op = NoOp /\ op' = op /\ legacy' = legacy /\ faults' = faults + 1 /\ faults < MaxFaults /\ plays' = plays
  BY DEF Rot, Free
<1>3. snaps \in Seq(Snap) /\ faults \in Nat /\ Limit \in Nat /\ MaxFaults \in Nat
  BY SaveBackupsConstants DEF Types
<1>4. /\ snaps' \in Seq(Snap) /\ DOMAIN snaps' = DOMAIN snaps
      /\ \A i \in DOMAIN snaps : snaps'[i].of = snaps[i].of /\ (i # k => snaps'[i] = snaps[i])
      /\ Cardinality(Autos(snaps')) <= Cardinality(Autos(snaps))
  <2> DEFINE t == [snaps EXCEPT ![k].state = to]
  <2>1. /\ t \in Seq(Snap) /\ DOMAIN t = DOMAIN snaps
        /\ \A i \in DOMAIN snaps : t[i].of = snaps[i].of /\ (i # k => t[i] = snaps[i])
        /\ Cardinality(Autos(t)) <= Cardinality(Autos(snaps))
    BY <1>1, <1>3, DamagedCopies
  <2>2. snaps' = t
    BY <1>1
  <2> QED BY <2>1, <2>2
<1>5. Cardinality(Autos(snaps)) \in Nat /\ Cardinality(Autos(snaps')) \in Nat
  BY <1>3, <1>4, AutosFinite
<1>6. CopiesInv'
  BY <1>2, <1>4 DEF CopiesInv, NoOp, Early, Moves
<1>7. CountInv'
  BY <1>2, <1>3, <1>4, <1>5 DEF CountInv
<1>8. faults' \in 0 .. MaxFaults
  BY <1>2, <1>3
<1> QED BY <1>4, <1>6, <1>7, <1>8

\* The game saves: the copies still agree with the operation, and are few.
LEMMA PlayCopies ==
  ASSUME IInv, Play
  PROVE  CopiesInv' /\ CountInv'
<1> USE DEF IInv, StateInv
<1>1. snaps' = snaps /\ legacy' = legacy /\ faults' = faults /\ plays' = plays + 1 /\ op' = op
  BY DEF Play
<1>2. CountInv'
  BY <1>1, CountKept
<1>3. \A i \in DOMAIN snaps : snaps[i].of <= plays + 1
  <2>1. \A i \in DOMAIN snaps : snaps[i].of \in Int
    <3>1. \A i \in DOMAIN snaps : snaps[i] \in Snap
      BY DEF Types
    <3>2. \A c \in Snap : c.of \in Int
      BY SaveBackupsConstants DEF Snap, Contents
    <3> QED BY <3>1, <3>2
  <2> QED BY <2>1 DEF CopiesInv, Types
<1>4. CopiesInv'
  BY <1>1, <1>3 DEF CopiesInv
<1> QED BY <1>2, <1>4

\* The copy that is to be restored is looked at (Restore): the copies still agree with the
\* operation, and are few.
LEMMA TargetCopies ==
  ASSUME IInv, Target
  PROVE  CopiesInv' /\ CountInv'
<1> USE DEF IInv, StateInv
<1>1. snaps' = snaps /\ legacy' = legacy /\ faults' = faults /\ plays' = plays
  BY DEF Target, bounds
<1>2. CountInv'
  BY <1>1, CountKept
<1>3. op.at = "target" /\ legacy = 0 /\ op.kind = "restore" /\ op.idx \in DOMAIN snaps
  BY DEF Target, At, OpInv, CopiesInv, Early
<1> DEFINE n == snaps[op.idx].of
<1>4. \/ op' = NoOp
      \/ /\ op' = [op EXCEPT !.at = IF Gone(live) THEN "write" ELSE "safety",
                              !.of = n, !.had = ~Gone(live)]
         /\ snaps[op.idx].state = "good"
  BY DEF Target, End
<1>5. CASE op' = NoOp
  BY <1>1, <1>2, <1>5 DEF CopiesInv, NoOp, Early, Moves
<1>6. CASE op' # NoOp
  <2>1. n \in GoodIn(snaps)
    BY <1>3, <1>4, <1>6, GoodIsIn DEF Types
  <2>2. /\ op'.of = n /\ op'.at \in {"write", "safety"} /\ op'.kind = "restore"
        /\ op'.idx = op.idx
    BY <1>3, <1>4, <1>6 DEF Types, Ops
  <2>3. snaps[op.idx].state = "good"
    BY <1>4, <1>6
  <2> QED BY <1>1, <1>2, <1>3, <2>1, <2>2, <2>3 DEF CopiesInv, Early, Moves
<1> QED BY <1>5, <1>6

\* Recovery settles what an interrupted restore left (recoverGame, resolve): the copies still
\* agree with the operation, and are few.
LEMMA RecoverCopies ==
  ASSUME IInv, Recover
  PROVE  CopiesInv' /\ CountInv'
<1> USE DEF IInv, StateInv
<1>1. snaps' = snaps /\ legacy' = legacy /\ faults' = faults /\ plays' = plays /\ op.at = "recover"
  BY DEF Recover, bounds, At
<1>2. CountInv'
  BY <1>1, CountKept
<1>3. \/ op' = op
      \/ op' = NoOp
      \/ op' = [op EXCEPT !.at = "migrate"] /\ legacy # 0
      \/ op' = [op EXCEPT !.at = Body(op.kind)] /\ legacy = 0
  BY DEF Recover, End, Goto, Gone
<1>4. CASE op' = op \/ op' = NoOp
  BY <1>1, <1>2, <1>4 DEF CopiesInv, NoOp, Early, Moves
<1>5. CASE ~(op' = op \/ op' = NoOp)
  <2>1. /\ op'.of = 0 /\ op'.kind = op.kind /\ op'.idx = op.idx
        /\ \/ op'.at = "migrate" /\ legacy # 0
           \/ op'.at \in {"target", "done", "capture"} /\ legacy = 0
    BY <1>1, <1>3, <1>5, BodyIsStep DEF Types, Ops, OpInv, Early
  <2> QED BY <1>1, <1>2, <2>1 DEF CopiesInv, Early, Moves
<1> QED BY <1>4, <1>5

-----------------------------------------------------------------------------
(* The invariant *)

\* The first start finds the saves, one copy and perhaps that of an earlier version.
LEMMA InitHolds ==
  ASSUME Init
  PROVE  IInv
<1> USE SaveBackupsConstants
<1> DEFINE c == Copy("auto", 1)
<1>1. c \in Snap /\ c.of = 1 /\ c.state = "good"
  BY DEF Copy, Snap, Contents
<1>2. snaps = <<c>>
  BY DEF Init
<1> HIDE DEF c
<1>3. snaps \in Seq(Snap) /\ DOMAIN snaps = {1} /\ snaps[1] = c
  BY <1>1, <1>2
<1>4. Types
  BY <1>3, OpIdle, JournalIdle DEF Init, Types, Folder, Half
<1>5. PlaysInv /\ JournalInv /\ OpInv /\ GameInv
  BY DEF Init, PlaysInv, JournalInv, OpInv, GameInv, NoOp, NoJournal, Half, Contents, Early, Moves
<1>6. CopiesInv
  BY <1>1, <1>3 DEF Init, CopiesInv, NoOp, Early, Moves
<1>7. CountInv
  <2>1. Cardinality({1}) = 1 /\ IsFiniteSet({1})
    BY FS_Singleton
  <2>2. Cardinality(Autos(snaps)) \in Nat /\ Cardinality(Autos(snaps)) <= 1
    <3>1. Autos(snaps) \in SUBSET {1}
      BY <1>3 DEF Autos
    <3> QED BY <2>1, <3>1, FS_Subset, FS_CardinalityType
  <2>3. faults = 0
    BY DEF Init
  <2> QED BY <2>2, <2>3 DEF CountInv
<1> QED BY <1>4, <1>5, <1>6, <1>7 DEF IInv, StateInv

\* Every step keeps the invariant, if no launch goes past its hook (noHook).
LEMMA NextKeeps ==
  ASSUME "noHook" \notin Events, IInv, [Next]_vars
  PROVE  IInv'
<1>1. CASE Restore
  BY <1>1, RestoreCopies, RestoreState DEF IInv
<1>2. CASE TakeCopy
  BY <1>2, TakeCopyCopies, TakeCopyState DEF IInv
<1>3. CASE BeginDue
  BY <1>3, BeginDueCopies, BeginDueState DEF IInv
<1>4. CASE BeginLaunch
  BY <1>4, BeginLaunchCopies, BeginLaunchState DEF IInv
<1>5. CASE Delete
  <2>1. snaps' \in Seq(Snap) /\ CopiesInv' /\ CountInv'
    BY <1>5, DeleteCopies
  <2>2. faults' \in 0 .. MaxFaults
    BY <1>5 DEF IInv, StateInv, Types, Delete, bounds
  <2> QED BY <1>5, <2>1, <2>2, DeleteCopies, DeleteState DEF IInv
<1>6. CASE Recover
  BY <1>6, RecoverCopies, RecoverState DEF IInv
<1>7. CASE Migrate
  <2>1. snaps' \in Seq(Snap) /\ CopiesInv' /\ CountInv'
    BY <1>7, MigrateCopies
  <2>2. faults' \in 0 .. MaxFaults
    BY <1>7 DEF IInv, StateInv, Types, Migrate, bounds
  <2> QED BY <1>7, <2>1, <2>2, MigrateCopies, MigrateState DEF IInv
<1>8. CASE ForgetLegacy
  BY <1>8, ForgetLegacyCopies, ForgetLegacyState DEF IInv
<1>9. CASE Done
  BY <1>9, DoneCopies, DoneState DEF IInv
<1>10. CASE TakeIt
  <2>1. snaps' \in Seq(Snap) /\ CopiesInv' /\ CountInv'
    BY <1>10, TakeItCopies
  <2> QED BY <1>10, <2>1, TakeItCopies, TakeItState DEF IInv
<1>11. CASE Target
  <2>1. CopiesInv' /\ CountInv'
    BY <1>11, TargetCopies
  <2>2. op.idx \in DOMAIN snaps
    BY <1>11 DEF IInv, StateInv, OpInv, CopiesInv, Early, Target, At
  <2>3. snaps[op.idx] \in Snap /\ snaps[op.idx].of <= plays
    BY <2>2 DEF IInv, StateInv, Types, CopiesInv
  <2> QED BY <1>11, <2>1, <2>2, <2>3, TargetCopies, TargetState DEF IInv
<1>12. CASE Safety
  <2>1. snaps' \in Seq(Snap) /\ CopiesInv' /\ CountInv'
    BY <1>12, SafetyCopies
  <2> QED BY <1>12, <2>1, SafetyCopies, SafetyState DEF IInv
<1>13. CASE WriteJournal
  BY <1>13, WriteJournalCopies, WriteJournalState DEF IInv
<1>14. CASE CopyOut
  BY <1>14, CopyOutCopies, CopyOutState DEF IInv
<1>15. CASE Ready
  BY <1>15, ReadyCopies, ReadyState DEF IInv
<1>16. CASE Check
  BY <1>16, CheckCopies, CheckState DEF IInv
<1>17. CASE Aside
  BY <1>17, AsideCopies, AsideState DEF IInv
<1>18. CASE Place
  BY <1>18, PlaceCopies, PlaceState DEF IInv
<1>19. CASE Resolve
  BY <1>19, ResolveCopies, ResolveState DEF IInv
<1>20. CASE StepFails
  BY <1>20, StepFailsCopies, StepFailsState DEF IInv
<1>21. CASE PlayGame
  BY <1>21, PlayGameCopies, PlayGameState DEF IInv
<1>22. CASE Timeout
  BY <1>22, TimeoutCopies, TimeoutState DEF IInv
<1>23. CASE Play
  BY <1>23, PlayCopies, PlayState DEF IInv
<1>24. CASE Stop
  BY <1>24, StopCopies, StopState DEF IInv
<1>25. CASE RemoveSaves
  BY <1>25, RemoveSavesCopies, RemoveSavesState DEF IInv
<1>26. CASE Rot
  <2>1. snaps' \in Seq(Snap) /\ CopiesInv' /\ CountInv'
    BY <1>26, RotCopies
  <2> QED BY <1>26, <2>1, RotCopies, RotState DEF IInv
<1>27. CASE Crash
  BY <1>27, CrashCopies, CrashState DEF IInv
<1>28. CASE UNCHANGED vars
  BY <1>28 DEF vars, folders, session, bounds, IInv, StateInv, Types, PlaysInv, JournalInv, OpInv, GameInv, CopiesInv, CountInv
<1> QED
  BY <1>1, <1>2, <1>3, <1>4, <1>5, <1>6, <1>7, <1>8, <1>9, <1>10, <1>11, <1>12, <1>13, <1>14, <1>15, <1>16, <1>17, <1>18, <1>19, <1>20, <1>21, <1>22, <1>23, <1>24, <1>25, <1>26, <1>27, <1>28 DEF Next, Step, Asked, World

\* The invariant holds throughout.
LEMMA InvariantHolds ==
  ASSUME "noHook" \notin Events
  PROVE  Spec => []IInv
<1>1. Init => IInv
  BY InitHolds
<1>2. IInv /\ [Next]_vars => IInv'
  BY NextKeeps
<1> QED BY <1>1, <1>2, PTL DEF Spec

\* Wherever a step fails or the launcher dies, resolve knows what it finds, the copy a
\* restore puts back is there when it is put back, and the rotation keeps its limit (resolve,
\* rotate, capture).
THEOREM RestoresAreSound ==
  ASSUME "noHook" \notin Events
  PROVE  Spec => []Consistent
<1>1. IInv => TypeOK
  <2> SUFFICES ASSUME IInv PROVE TypeOK
    OBVIOUS
  <2>1. DOMAIN journal = DOMAIN NoJournal
    BY DEF IInv, StateInv, Types, Journals, NoJournal
  <2>2. Cardinality({i \in DOMAIN snaps : IsAuto(snaps[i])}) <= Limit + 1 + faults
    BY DEF IInv, CountInv, Autos
  <2>3. \A i \in DOMAIN snaps : snaps[i].of \in 1 .. MaxPlays
    <3>1. \A i \in DOMAIN snaps : snaps[i] \in Snap
      BY DEF IInv, StateInv, Types
    <3> QED BY <3>1 DEF Snap, Contents
  <2> QED BY <2>1, <2>2, <2>3, SaveBackupsConstants DEF TypeOK, IInv, StateInv, Types
<1>2. IInv => RecoveryNeverStuck
  BY DEF IInv, StateInv, JournalInv, RecoveryNeverStuck, Resolvable, Gone
<1>3. IInv => SourceIsKept
  BY DEF IInv, CopiesInv, SourceIsKept, Good, GoodIn
<1>4. IInv => Consistent
  BY <1>1, <1>2, <1>3 DEF Consistent
<1> QED BY <1>4, InvariantHolds, PTL

\* A game runs only with its saves in their place: not while they are aside, nor while a copy
\* next to them is all there is (SessionStarting, launchTimedOut, Restore).
THEOREM SavesAreInPlace ==
  ASSUME "noHook" \notin Events
  PROVE  Spec => []RunsOnItsSaves
<1>1. IInv => RunsOnItsSaves
  BY DEF IInv, StateInv, JournalInv, GameInv, RunsOnItsSaves, Gone
<1> QED BY <1>1, InvariantHolds, PTL

-----------------------------------------------------------------------------
(* What the player sees *)

\* From the safety copy to the rename that puts the copy in place, what the saves were is
\* among the good copies, or the game was started and is still running (Restore).
LEMMA SafeHolds ==
  ASSUME "quickSession" \notin Events, IInv, SafeInv, [Next]_vars
  PROVE  SafeInv'
<1> USE DEF IInv, StateInv
<1>1. CASE Restore
  <2>1. op'.at = "recover"
    BY <1>1 DEF Restore, Begin, NoOp, Types
  <2> QED BY <2>1 DEF SafeInv
<1>2. CASE TakeCopy
  <2>1. op'.at = "recover"
    BY <1>2 DEF TakeCopy, Begin, NoOp, Types
  <2> QED BY <2>1 DEF SafeInv
<1>3. CASE BeginDue
  <2>1. op'.at = "recover"
    BY <1>3 DEF BeginDue, Begin, NoOp, Types
  <2> QED BY <2>1 DEF SafeInv
<1>4. CASE BeginLaunch
  <2>1. op'.at = "recover"
    BY <1>4 DEF BeginLaunch, Begin, NoOp, Types
  <2> QED BY <2>1 DEF SafeInv
<1>5. CASE Delete
  <2>1. op' = NoOp
    BY <1>5 DEF Delete, Free
  <2> QED BY <2>1 DEF SafeInv, NoOp
<1>6. CASE Recover
  <2>1. op'.at \in {"none", "recover", "migrate", "forget", "target", "done", "capture"}
    BY <1>6, BodyIsStep DEF Recover, At, Goto, End, NoOp, Types, Ops
  <2> QED BY <2>1 DEF SafeInv
<1>7. CASE Migrate
  <2>1. op'.at \in {"none", "recover", "migrate", "forget", "target", "done", "capture"}
    BY <1>7, BodyIsStep DEF Migrate, At, Goto, End, NoOp, Types, Ops
  <2> QED BY <2>1 DEF SafeInv
<1>8. CASE ForgetLegacy
  <2>1. op'.at \in {"none", "recover", "migrate", "forget", "target", "done", "capture"}
    BY <1>8, BodyIsStep DEF ForgetLegacy, At, Goto, End, NoOp, Types, Ops
  <2> QED BY <2>1 DEF SafeInv
<1>9. CASE Done
  <2>1. op' = NoOp
    BY <1>9 DEF Done, Free, End
  <2> QED BY <2>1 DEF SafeInv, NoOp
<1>10. CASE TakeIt
  <2>1. op' = NoOp
    BY <1>10 DEF TakeIt, Free, End
  <2> QED BY <2>1 DEF SafeInv, NoOp
<1>11. CASE Target
  <2>1. CASE op' = NoOp
    BY <2>1 DEF SafeInv, NoOp
  <2>2. CASE op' # NoOp
    <3>1. op' = [op EXCEPT !.at = IF Gone(live) THEN "write" ELSE "safety",
                           !.of = snaps[op.idx].of, !.had = ~Gone(live)]
      BY <1>11, <2>2 DEF Target, End
    <3>2. op'.had = ~Gone(live) /\ op'.at = IF Gone(live) THEN "write" ELSE "safety"
      BY <3>1 DEF Types, Ops
    <3> QED BY <3>2 DEF SafeInv
  <2> QED BY <2>1, <2>2
<1>12. CASE Safety
  <2>1. op' = [op EXCEPT !.at = "write"] /\ live' = live
    BY <1>12 DEF Safety, Goto, folders
  <2>2. op'.at = "write"
    BY <2>1 DEF Types, Ops
  <2> QED BY <1>12, <2>1, <2>2, SafetyCopies DEF SafeInv
<1>13. CASE WriteJournal
  <2>1. GoodIn(snaps') = GoodIn(snaps)
    BY <1>13 DEF WriteJournal, bounds
  <2> QED BY <1>13, <2>1 DEF WriteJournal, SafeInv, OpInv, Moves, NoOp, At, Goto, Free, Types, Ops, folders, session
<1>14. CASE CopyOut
  <2>1. GoodIn(snaps') = GoodIn(snaps)
    BY <1>14 DEF CopyOut, bounds
  <2> QED BY <1>14, <2>1 DEF CopyOut, SafeInv, OpInv, Moves, NoOp, At, Goto, Free, Types, Ops, folders, session
<1>15. CASE Ready
  <2>1. GoodIn(snaps') = GoodIn(snaps)
    BY <1>15 DEF Ready, bounds
  <2> QED BY <1>15, <2>1 DEF Ready, SafeInv, OpInv, Moves, NoOp, At, Goto, Free, Types, Ops, folders, session
<1>16. CASE Check
  <2>1. GoodIn(snaps') = GoodIn(snaps)
    BY <1>16 DEF Check, bounds
  <2> QED BY <1>16, <2>1 DEF Check, SafeInv, OpInv, Moves, NoOp, At, Goto, Free, Types, Ops, folders, session, JournalInv, IsRunning
<1>17. CASE Aside
  <2>1. GoodIn(snaps') = GoodIn(snaps)
    BY <1>17 DEF Aside, bounds
  <2> QED BY <1>17, <2>1 DEF Aside, SafeInv, OpInv, Moves, NoOp, At, Goto, Free, Types, Ops, folders, session, Gone, GameInv
<1>18. CASE Place
  <2>1. GoodIn(snaps') = GoodIn(snaps)
    BY <1>18 DEF Place, bounds
  <2> QED BY <1>18, <2>1 DEF Place, SafeInv, OpInv, Moves, NoOp, At, Goto, Free, Types, Ops, folders, session, Gone
<1>19. CASE Resolve
  <2>1. GoodIn(snaps') = GoodIn(snaps)
    BY <1>19 DEF Resolve, bounds
  <2> QED BY <1>19, <2>1 DEF Resolve, SafeInv, OpInv, Moves, NoOp, At, Goto, Free, Types, Ops, folders, session, End
<1>20. CASE StepFails
  <2>1. GoodIn(snaps') = GoodIn(snaps)
    BY <1>20 DEF StepFails, bounds
  <2> QED BY <1>20, <2>1 DEF StepFails, SafeInv, OpInv, Moves, NoOp, At, Goto, Free, Types, Ops, folders, session, End
<1>21. CASE PlayGame
  <2>1. GoodIn(snaps') = GoodIn(snaps)
    BY <1>21 DEF PlayGame, bounds
  <2> QED BY <1>21, <2>1 DEF PlayGame, SafeInv, OpInv, Moves, NoOp, At, Goto, Free, Types, Ops, folders, session
<1>22. CASE Timeout
  <2>1. GoodIn(snaps') = GoodIn(snaps)
    BY <1>22 DEF Timeout, bounds
  <2> QED BY <1>22, <2>1 DEF Timeout, SafeInv, OpInv, Moves, NoOp, At, Goto, Free, Types, Ops, folders, session
<1>23. CASE Play
  <2>1. GoodIn(snaps') = GoodIn(snaps)
    BY <1>23 DEF Play, bounds
  <2> QED BY <1>23, <2>1 DEF Play, SafeInv, OpInv, Moves, NoOp, At, Goto, Free, Types, Ops, folders, session
<1>24. CASE Stop
  <2>1. GoodIn(snaps') = GoodIn(snaps)
    BY <1>24 DEF Stop, bounds
  <2> QED BY <1>24, <2>1 DEF Stop, SafeInv, OpInv, Moves, NoOp, At, Goto, Free, Types, Ops, folders, session
<1>25. CASE RemoveSaves
  <2>1. GoodIn(snaps') = GoodIn(snaps)
    BY <1>25 DEF RemoveSaves, bounds
  <2> QED BY <1>25, <2>1 DEF RemoveSaves, SafeInv, OpInv, Moves, NoOp, At, Goto, Free, Types, Ops, folders, session
<1>26. CASE Rot
  <2>1. op' = NoOp
    BY <1>26 DEF Rot, Free
  <2> QED BY <2>1 DEF SafeInv, NoOp
<1>27. CASE Crash
  <2>1. op' = NoOp
    BY <1>27 DEF Crash, Free
  <2> QED BY <2>1 DEF SafeInv, NoOp
<1>28. CASE UNCHANGED vars
  BY <1>28 DEF vars, folders, session, SafeInv
<1> QED
  BY <1>1, <1>2, <1>3, <1>4, <1>5, <1>6, <1>7, <1>8, <1>9, <1>10, <1>11, <1>12, <1>13, <1>14, <1>15, <1>16, <1>17, <1>18, <1>19, <1>20, <1>21, <1>22, <1>23, <1>24, <1>25, <1>26, <1>27, <1>28 DEF Next, Step, Asked, World

\* What could be brought back is something the game wrote.
LEMMA CopiesAreContents ==
  ASSUME IInv
  PROVE  Copies \subseteq Contents
<1>1. \A i \in DOMAIN snaps : snaps[i] \in Snap
  BY DEF IInv, StateInv, Types
<1>2. Good \subseteq Contents
  BY <1>1 DEF Good, Snap
<1>3. {staging} \ {0, Half} \subseteq Contents
  BY SaveBackupsConstants DEF IInv, StateInv, Types, Folder, Half, Contents
<1> QED BY <1>2, <1>3 DEF Copies

\* The same after a step.
LEMMA CopiesStayContents ==
  ASSUME IInv'
  PROVE  Copies' \subseteq Contents
<1>1. \A i \in DOMAIN snaps' : snaps'[i] \in Snap
  BY DEF IInv, StateInv, Types
<1>2. Good' \subseteq Contents
  BY <1>1 DEF Good, Snap
<1>3. {staging'} \ {0, Half} \subseteq Contents
  BY SaveBackupsConstants DEF IInv, StateInv, Types, Folder, Half, Contents
<1> QED BY <1>2, <1>3 DEF Copies

\* A step that leaves the saves, whatever it does to the copies.
LEMMA SavesStay ==
  ASSUME IInv', Saves' = Saves
  PROVE  Atomic!Next
<1>1. Copies' \subseteq Contents
  BY CopiesStayContents
<1> QED BY <1>1 DEF Atomic!Next, Atomic!Copy, Atomic!Contents, Contents

\* A step that leaves both folders leaves the saves.
LEMMA FoldersStay ==
  ASSUME IInv', live' = live, previous' = previous
  PROVE  Atomic!Next
BY SavesStay DEF Saves

\* A step of resolve leaves the saves, or puts a whole copy where there were none (resolve).
LEMMA ResolveIsAtomic ==
  ASSUME IInv, IInv', journal.on, Resolvable, ResolveStep
  PROVE  Atomic!Next
<1> USE DEF IInv, StateInv, JournalInv
<1>1. CASE live' = live /\ previous' = previous
  BY <1>1, FoldersStay
<1>2. CASE Gone(live) /\ ~Gone(previous) /\ live' = previous /\ previous' = 0
  <2>1. Saves = previous /\ Saves' = previous
    BY <1>2 DEF Saves, Gone, Contents
  <2> QED BY <2>1, SavesStay
<1>3. CASE ~Gone(live) /\ live' = live
  <2>1. Saves = live /\ Saves' = live
    BY <1>3 DEF Saves, Gone
  <2> QED BY <2>1, SavesStay
<1>4. CASE Gone(previous) /\ Gone(live) /\ ~journal.copying /\ live' = staging /\ UNCHANGED previous
  <2>1. staging \in Contents
    BY <1>4 DEF Gone
  <2>2. Saves = 0 /\ Saves' = staging
    BY <1>4, <2>1 DEF Saves, Gone, Contents
  <2>3. staging \in Copies
    BY <1>4, <2>1, SaveBackupsConstants DEF Copies, Contents, Half
  <2>4. Copies' \subseteq Contents
    BY CopiesStayContents
  <2> QED BY <2>2, <2>3, <2>4 DEF Atomic!Next, Atomic!Restore, Atomic!Contents, Contents
<1> QED BY <1>1, <1>2, <1>3, <1>4 DEF ResolveStep

\* The rename that puts the copy in place is the one step that changes the saves: to a copy,
\* from what is among the copies (Restore).
LEMMA PlaceIsAtomic ==
  ASSUME IInv, SafeInv, IInv', Place
  PROVE  Atomic!Next
<1> USE DEF IInv, StateInv, JournalInv
<1>1. CASE Gone(live)
  <2>1. /\ op.at = "place" /\ journal.on /\ ~journal.copying /\ journal' = journal
        /\ live' = staging /\ previous' = previous
    BY <1>1 DEF Place, At, OpInv, Moves
  <2>2. staging \in Contents
    BY <1>1, <2>1 DEF Gone
  <2>3. Saves' = staging /\ staging \in Copies
    BY <2>1, <2>2, SaveBackupsConstants DEF Saves, Copies, Gone, Contents, Half
  <2>4. Saves \in Copies \cup {0}
    BY <1>1, <2>1 DEF Saves, SafeInv, Copies, Good, GoodIn, Gone, Contents
  <2>5. Copies' \subseteq Contents
    BY CopiesStayContents
  <2> QED BY <2>3, <2>4, <2>5 DEF Atomic!Next, Atomic!Restore, Atomic!Contents, Contents
<1>2. CASE ~Gone(live)
  BY <1>2, FoldersStay DEF Place, folders
<1> QED BY <1>1, <1>2

\* The game writes to saves that are in their place.
LEMMA PlayIsAtomic ==
  ASSUME IInv, IInv', Play
  PROVE  Atomic!Next
<1> USE DEF IInv, StateInv
<1>1. /\ game = "running" /\ plays < MaxPlays /\ live' = plays + 1
      /\ UNCHANGED <<previous, staging, journal, snaps>>
  BY DEF Play
<1>2. plays + 1 \in Contents /\ live < plays + 1 /\ previous = 0 /\ live # plays + 1
  BY <1>1, SaveBackupsConstants DEF Types, PlaysInv, GameInv, Contents
<1>3. Saves = live /\ Saves' = plays + 1
  BY <1>1, <1>2 DEF Saves, Gone, Contents
<1>4. Copies' = Copies
  BY <1>1 DEF Copies, Good
<1> QED BY <1>2, <1>3, <1>4 DEF Atomic!Next, Atomic!Play, Atomic!Contents, Contents

\* Every step is one of AtomicSaves or leaves what the player sees.
LEMMA StepIsAtomic ==
  ASSUME IInv, SafeInv, IInv', [Next]_vars
  PROVE  Atomic!Next
<1> USE DEF IInv, StateInv
<1>1. CASE Play
  BY <1>1, PlayIsAtomic
<1>2. CASE Place
  BY <1>2, PlaceIsAtomic
<1>3. CASE Aside
  <2>1. CASE Gone(live)
    BY <1>3, <2>1, FoldersStay DEF Aside, folders
  <2>2. CASE ~Gone(live)
    <3>1. live' = 0 /\ previous' = live /\ live \in Contents
      BY <1>3, <2>2 DEF Aside, Types, Gone, Contents
    <3>2. Saves = live /\ Saves' = live
      BY <2>2, <3>1 DEF Saves, Gone, Contents
    <3> QED BY <3>2, SavesStay
  <2> QED BY <2>1, <2>2
<1>4. CASE RemoveSaves
  <2>1. ~journal.on /\ live' = 0 /\ UNCHANGED <<previous, staging, journal, snaps>>
    BY <1>4 DEF RemoveSaves
  <2>2. previous = 0
    BY <2>1 DEF JournalInv
  <2>3. Saves' = 0 /\ Copies' = Copies
    BY <2>1, <2>2 DEF Saves, Copies, Good, Gone, Contents
  <2> QED BY <2>3 DEF Atomic!Next, Atomic!Remove
<1>5. CASE Recover
  <2>1. UNCHANGED folders \/ (journal.on /\ Resolvable /\ ResolveStep)
    BY <1>5 DEF Recover
  <2> QED BY <2>1, FoldersStay, ResolveIsAtomic DEF folders
<1>6. CASE Resolve
  <2>1. journal.on
    BY <1>6 DEF Resolve, At, OpInv
  <2>2. UNCHANGED folders \/ (Resolvable /\ ResolveStep)
    BY <1>6 DEF Resolve
  <2> QED BY <2>1, <2>2, FoldersStay, ResolveIsAtomic DEF folders
<1>7. CASE Migrate \/ ForgetLegacy \/ Done \/ TakeIt \/ Target \/ Safety \/ WriteJournal \/ CopyOut \/ Ready \/ Check
  BY <1>7, FoldersStay
     DEF Migrate, ForgetLegacy, Done, TakeIt, Target, Safety, WriteJournal, CopyOut, Ready, Check, folders
<1>8. CASE Asked \/ BeginDue \/ BeginLaunch \/ Timeout \/ PlayGame \/ Stop \/ Rot \/ StepFails \/ Crash
  BY <1>8, FoldersStay
     DEF Asked, Restore, TakeCopy, Delete, BeginDue, BeginLaunch, Timeout, PlayGame, Stop, Rot, StepFails, Crash, folders
<1>9. CASE UNCHANGED vars
  BY <1>9, FoldersStay DEF vars, folders
<1> QED
  BY <1>1, <1>2, <1>3, <1>4, <1>5, <1>6, <1>7, <1>8, <1>9 DEF Next, Step, World

\* Whatever fails and wherever the launcher dies, the saves go in one step from what they are
\* to a whole copy, and what they were is among the copies: SaveBackups implements
\* AtomicSaves (Restore, resolve, capture).
THEOREM RestoresAreAtomic ==
  ASSUME "noHook" \notin Events, "quickSession" \notin Events
  PROVE  Spec => AtomicSavesSpec
<1>1. Init => IInv /\ SafeInv
  BY InitHolds DEF Init, SafeInv, NoOp
<1>2. IInv /\ SafeInv /\ [Next]_vars => IInv' /\ SafeInv'
  BY NextKeeps, SafeHolds
<1>3. IInv /\ SafeInv => Atomic!Init
  <2> SUFFICES ASSUME IInv, SafeInv PROVE Atomic!Init
    OBVIOUS
  <2>1. Saves \in 0 .. MaxPlays
    BY SaveBackupsConstants DEF IInv, StateInv, Types, Saves
  <2> QED BY <2>1, CopiesAreContents DEF Atomic!Init, Atomic!Contents, Contents
<1>4. IInv /\ SafeInv /\ IInv' /\ [Next]_vars => [Atomic!Next]_<<Saves, Copies>>
  BY StepIsAtomic
<1> QED BY <1>1, <1>2, <1>3, <1>4, PTL DEF Spec, AtomicSavesSpec, Atomic!Spec
================================================================================
