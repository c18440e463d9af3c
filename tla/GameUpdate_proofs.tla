---------------------------- MODULE GameUpdate_proofs ----------------------------
(***************************************************************************)
(* What holds of updates, repairs and rollbacks for any number of releases, *)
(* wherever the program is killed: the invariant that says for every step   *)
(* of a job what is in the directories it has touched, and from it that the *)
(* next start always finds a complete installation, and that the whole      *)
(* service implements AtomicUpdate.                                         *)
(***************************************************************************)
EXTENDS GameUpdate, TLAPS

Kind     == journal.kind
Original == journal.original
Current  == dir["current"]
Previous == dir["previous"]

\* Which fields a journal of each kind uses.
JournalInv ==
  /\ Kind = "none" => journal = NoJournal
  /\ Kind = "cleanup" => journal.retained
  /\ Kind \in {"swap", "rollback"} => journal.place = "previous"
  /\ Kind = "inplace" => journal.place \in {"previous", "repair"}
  /\ Kind = "patch" => journal.place = "backup"
  /\ Kind \in {"inplace", "patch", "rollback"} => ~journal.retained

\* What the next start would do, by the kind of the journal (see Recoverable).
RecoverInv ==
  /\ Kind \in {"none", "cleanup"} => Current = lib
  /\ Kind \in {"swap", "inplace", "patch"} =>
       /\ Original \in Versions
       /\ Original = IF (journal.retained => Shifted) /\ dir[journal.place] # Absent
                       THEN dir[journal.place] ELSE Current
  /\ Kind = "rollback" =>
       /\ journal.rollback \in Versions
       /\ journal.rollback = IF Previous # Absent THEN Previous ELSE Current

\* The copy that is offered, or that a retained journal will offer again, is whole.
OfferInv ==
  /\ Kind \in {"none", "cleanup", "patch"} \/ (Kind = "inplace" /\ journal.place = "repair") =>
       (kept # 0 => Previous \in {kept, Absent})
  /\ Kind = "swap" /\ journal.retained /\ journal.rollback # 0 =>
       journal.rollback = IF Shifted THEN dir["retained"] ELSE Previous

\* The manager writes into the installation only while a copy of it is journalled.
WriterInv ==
  /\ writer # 0 => /\ Kind = "inplace" /\ dir[journal.place] # Absent
                   /\ job.pc \in {"writing", "stop", "end"}
  /\ job.pc = "writing" => writer = job.goal /\ writer # 0

\* The copy is removed after the record of it, and nothing begins in between.
SweepInv == sweeping => Kind = "none" /\ job = Idle

\* Which operation comes to which step.
OpInv ==
  /\ job.op = "none" => job = Idle
  /\ job.pc \in {"look", "journal", "retain", "aside", "install", "carry"} => job.op = "full"
  /\ job.pc \in {"fetch", "unpack"} => job.op \in {"full", "patch"}
  /\ job.pc = "slot" => job.op \in {"inplace", "patch"}
  /\ job.pc \in {"copy", "copying", "mark"} => job.op \in {"inplace", "repair", "patch"}
  /\ job.pc \in {"write", "writing"} => job.op \in {"inplace", "repair"}
  /\ job.pc = "stop" => job.op \in {"inplace", "repair", "recover"}
  /\ job.pc \in {"resolve", "register", "keep", "settle", "drop"} => job.op \in {"full", "inplace", "patch"}
  /\ job.pc \in {"clean", "merge", "merging", "merged", "giveup"} => job.op = "patch"
  /\ job.pc \in {"unmerge", "unmerging"} => job.op \in {"patch", "recover"}
  /\ job.pc \in {"restore", "setaside", "putback", "replaced", "unretain"} =>
       job.op \in {"full", "inplace", "repair", "recover"}
  /\ job.pc \in {"forget", "rekeep", "relib"} => job.op = "recover"
  /\ job.pc \in {"turn", "away", "back", "relink", "unkeep"} => job.op \in {"rollback", "recover"}
  /\ job.pc = "discard" => job.op \in {"repair", "rollback", "recover"}
  /\ job.pc \in {"clear", "cleared"} =>
       \/ job.then = "end"     /\ job.op # "patch"
       \/ job.then = "journal" /\ job.op = "full"
       \/ job.then = "settle"  /\ job.op \in {"full", "inplace"}
       \/ job.then = "discard" /\ job.op \in {"repair", "rollback", "recover"}
       \/ job.then \in {"merged", "giveup"} /\ job.op = "patch"

\* The versions a job goes by, until it has registered one.
GoalInv ==
  /\ job.op = "repair" => job.goal = lib
  /\ job.op \in {"full", "inplace"} /\ job.pc \in {"fetch", "unpack", "look", "journal", "retain",
       "aside", "install", "carry", "slot", "copy", "copying", "mark", "write", "writing",
       "resolve", "register"} => job.goal > lib
  /\ job.pc \in {"clear", "cleared"} /\ job.then = "journal" => job.goal > lib
  /\ job.pc \in {"journal", "retain", "aside", "install"} \/ (job.pc = "look" /\ job.op = "full")
       \/ (job.pc \in {"clear", "cleared"} /\ job.then = "journal")
       => dir["staging"] = job.goal
  /\ job.op = "patch" /\ job.pc \in {"slot", "copy", "copying", "keep", "fetch", "unpack",
                                     "clean", "mark", "merge", "merging", "resolve", "register"}
       => job.next = lib /\ lib < job.goal
  /\ job.pc = "merged" \/ (job.pc \in {"clear", "cleared"} /\ job.then = "merged")
       => job.next + 1 = lib /\ lib <= job.goal

\* What the journal is at every step, and what it says of the library.
StepInv ==
  /\ job.pc \in {"fetch", "unpack", "look", "slot", "copy", "copying", "mark", "clean",
                 "merged", "discard"} => Kind = "none"
  /\ job.pc \in {"journal", "settle"} => Kind \in {"none", "cleanup"}
  /\ job.pc = "giveup" => Kind \in {"none", "patch"}
  /\ job.pc = "drop" => Kind \in {"none", "cleanup", "patch"} /\ kept = 0
  /\ job.op = "full" /\ job.pc \in {"resolve", "register", "keep"} => Kind = "swap"
  /\ job.op = "inplace" /\ job.pc \in {"resolve", "register", "keep"} => Kind = "inplace"
  /\ job.op = "patch" /\ job.pc \in {"resolve", "register"} => Kind = "patch"
  /\ job.op = "patch" /\ job.pc = "keep" => Kind = "none"
  /\ job.pc \in {"retain", "aside", "install", "carry"} => Kind = "swap"
  /\ job.pc \in {"write", "writing", "stop"} => Kind = "inplace"
  /\ job.pc \in {"merge", "merging", "unmerge", "unmerging"} => Kind = "patch"
  /\ job.pc \in {"restore", "setaside", "putback", "replaced"} => Kind \in {"swap", "inplace"}
  /\ job.pc \in {"unretain", "rekeep"} => Kind = "swap"
  /\ job.op = "full" /\ job.pc \in {"restore", "setaside", "putback", "replaced"} => Kind = "swap"
  /\ job.op \in {"inplace", "repair"} /\ job.pc \in {"restore", "setaside", "putback", "replaced",
      "unretain"}
       => Kind = "inplace"
  /\ job.pc = "forget" => Kind = "inplace" /\ journal.place = "previous"
  /\ job.pc = "relib" => Kind \in {"swap", "inplace", "patch"}
  /\ job.pc \in {"turn", "away", "back", "relink", "unkeep"} => Kind = "rollback"
  /\ job.pc = "clear" => Kind # "none"
  /\ job.pc = "cleared" => Kind = "cleanup"
  /\ job.pc \in {"clear", "cleared"} /\ Kind = "cleanup" => job.then \in {"end", "journal", "settle"}
  /\ job.pc \in {"clear", "cleared"} /\ job.then = "giveup" => Kind = "patch"
  /\ job.op # "recover" /\ job.pc \in {"retain", "aside", "install", "carry", "resolve", "register",
      "write",
         "writing", "stop", "merge", "merging", "unmerge", "unmerging", "restore", "setaside",
         "putback", "replaced", "unretain"} => lib = Original
  /\ job.op = "full" /\ job.pc \in {"retain", "aside", "install", "carry", "resolve", "register",
         "restore", "setaside", "putback", "replaced", "unretain"} => kept = journal.rollback
  /\ job.op \in {"inplace", "repair"} /\ Kind = "inplace" /\ job.pc # "end" => journal.place = CopyPlace

\* The moved installation is back, and so is the version before it.
IsRestored ==
  /\ Current = Original
  /\ ~Shifted
  /\ Kind = "swap" => journal.retained \/ Previous = Absent
  /\ Kind \in {"inplace", "patch"} => dir[journal.place] = Absent

\* Once the journal is gone the library is right.
ClearInv ==
  job.pc = "clear" /\ Kind # "cleanup" =>
    /\ Current = lib /\ job.then # "journal"
    /\ job.then = "settle" =>
         /\ Kind \in {"swap", "inplace"} /\ journal.place = "previous"
         /\ kept = Original /\ Previous = Original /\ Original < lib
    /\ job.then \in {"end", "giveup"} =>
         /\ Kind # "rollback" /\ lib = Original /\ IsRestored
         /\ Kind = "swap" => kept = journal.rollback
    /\ job.then = "merged" => Kind = "patch" /\ Original < lib
    /\ job.then = "discard" =>
         \/ Kind = "rollback" /\ lib = journal.rollback /\ kept = 0
         \/ Kind = "inplace" /\ journal.place = "repair" /\ lib = Original

\* What is in the directories at every step.
FilesInv ==
  /\ job.pc = "keep" /\ job.op = "patch" => Previous = lib
  /\ job.op = "inplace" /\ job.pc \in {"copy", "copying", "mark"} => kept = 0
  /\ job.op = "patch" /\ job.pc \in {"copy", "copying"} => kept = 0
  /\ job.op \in {"inplace", "repair"} /\ job.pc = "mark" => dir[CopyPlace] = lib
  /\ job.op = "patch" /\ job.pc \in {"mark", "merge"} => dir["backup"] = Absent
  /\ job.pc = "merging" => dir["backup"] # Absent
  /\ job.pc = "retain" => journal.retained
  /\ job.pc = "away" => Previous # Absent
  /\ job.pc = "journal" /\ Kind = "none" => Previous = Absent \/ dir["retained"] = Absent
  /\ job.pc = "cleared" => dir["retained"] = Absent
  /\ job.pc \in {"aside", "install", "carry", "setaside", "putback", "replaced"}
       => (journal.retained => Shifted)
  /\ job.op = "full" /\ job.pc \in {"resolve", "register", "keep"} => (journal.retained => Shifted)
  /\ job.pc \in {"install", "carry"} \/ (job.op \in {"full", "inplace"} /\ job.pc \in {"resolve",
      "register", "keep"})
       => Previous = Original
  /\ job.pc \in {"write", "writing"} => dir[journal.place] = Original
  /\ job.op \in {"full", "inplace"} /\ job.pc \in {"resolve", "carry", "register"} => Current = job.goal
  /\ job.op = "patch" /\ job.pc \in {"resolve", "register"} => Current = job.next + 1
  /\ job.pc = "keep" /\ job.op # "patch" => Current = lib /\ Original < lib
  /\ job.pc \in {"setaside", "putback"} => dir[journal.place] # Absent
  /\ job.pc = "replaced" => Current = Original /\ dir[journal.place] = Absent
  /\ job.pc = "unretain" => Shifted /\ Previous = Absent
  /\ job.pc = "forget" => Previous = Absent
  /\ job.pc \in {"rekeep", "relib", "forget"} => IsRestored
  /\ job.pc = "relib" /\ Kind = "swap" => kept = journal.rollback
  /\ job.pc \in {"relink", "unkeep"} => Current = journal.rollback
  /\ job.pc = "unkeep" => lib = journal.rollback

\* With all of it, no step can leave the game without a version to come back to.
IInv ==
  /\ TypeOK /\ JournalInv /\ RecoverInv /\ OfferInv /\ WriterInv /\ SweepInv
  /\ OpInv /\ GoalInv /\ StepInv /\ ClearInv /\ FilesInv
-----------------------------------------------------------------------------
(* What the helpers of a step do. *)

\* The ways in which a job changes.
LEMMA JobSteps ==
  ASSUME TypeOK
  PROVE  /\ \A pc \in Steps : Goto(pc) =>
              /\ job' \in Job /\ job'.pc = pc /\ job'.op = job.op /\ job'.goal = job.goal
              /\ job'.next = job.next /\ job'.then = job.then /\ job'.touched = job.touched
         /\ \A then \in Steps : Clearing(then) =>
              /\ job' \in Job /\ job'.pc = "clear" /\ job'.op = job.op /\ job'.goal = job.goal
              /\ job'.next = job.next /\ job'.then = then /\ job'.touched = job.touched
<1>1. \A pc \in Steps : [job EXCEPT !.pc = pc] \in Job
  BY DEF TypeOK, Job
<1>2. "clear" \in Steps
  BY DEF Steps
<1>3. \A then \in Steps : [job EXCEPT !.pc = "clear", !.then = then] \in Job
  BY <1>2 DEF TypeOK, Job
<1> QED BY ZenonT(30), <1>1, <1>3 DEF TypeOK, Job, Goto, Clearing

\* The other ways in which a step changes the job, and those in which it writes the journal.
Leaves(pc, touched)  == job' = [job EXCEPT !.pc = pc, !.touched = touched]
Enters(op, pc)       == job' = [Idle EXCEPT !.op = op, !.pc = pc]
Starts(op, pc, goal) == job' = [Idle EXCEPT !.op = op, !.pc = pc, !.goal = goal, !.next = lib]

\* A step that leaves the chain keeps everything else of the job.
LEMMA JobLeaves ==
  ASSUME TypeOK, NEW pc \in Steps, NEW touched \in BOOLEAN, Leaves(pc, touched)
  PROVE  /\ job' \in Job /\ job'.pc = pc /\ job'.op = job.op /\ job'.goal = job.goal
         /\ job'.next = job.next /\ job'.then = job.then
BY DEF TypeOK, Job, Leaves

\* A new job knows its operation, and its goal if it has one.
LEMMA JobStarts ==
  ASSUME TypeOK, NEW op \in Ops, NEW pc \in Steps, NEW goal \in 0 .. MaxVersion,
         Starts(op, pc, goal)
  PROVE  /\ job' \in Job /\ job'.pc = pc /\ job'.op = op /\ job'.goal = goal
         /\ job'.next = lib /\ job'.then = "end"
<1>1. 0 \in 0 .. MaxVersion /\ lib \in 0 .. MaxVersion
  BY UpdateConstants DEF TypeOK, Versions
<1>2. "end" \in Steps
  BY DEF Steps
<1> QED BY <1>1, <1>2 DEF Job, Idle, Starts

\* A job enters an operation at one of its steps.
LEMMA JobEnters ==
  ASSUME TypeOK, NEW op \in Ops, NEW pc \in Steps, Enters(op, pc)
  PROVE  /\ job' \in Job /\ job'.pc = pc /\ job'.op = op /\ job'.goal = 0
         /\ job'.next = 0 /\ job'.then = "end"
<1>1. 0 \in 0 .. MaxVersion
  BY UpdateConstants
<1>2. "end" \in Steps
  BY DEF Steps
<1> QED BY <1>1, <1>2 DEF Job, Idle, Enters

\* What setJournal writes.
LEMMA JournalSteps ==
  ASSUME TypeOK, NEW kind \in Kinds, NEW place \in {"previous", "repair", "backup"},
         NEW retained \in BOOLEAN, NEW then, NEW else, SetJournal(kind, place, retained, then, else)
  PROVE  \/ /\ journal.kind = "none" /\ journal' \in Journal /\ Goto(then)
            /\ journal'.kind = kind /\ journal'.original = lib /\ journal'.place = place
            /\ journal'.retained <=> retained
            /\ journal'.rollback = IF kind \in {"swap", "rollback"} THEN kept ELSE 0
         \/ journal' = journal /\ Goto(else)
<1>1. 0 \in 0 .. MaxVersion /\ lib \in 0 .. MaxVersion
  BY UpdateConstants DEF TypeOK, Versions
<1> QED BY <1>1 DEF TypeOK, Journal, SetJournal

\* What a journal that keeps nothing is.
LEMMA NoJournalTyped ==
  /\ NoJournal \in Journal /\ NoJournal.kind = "none" /\ ~NoJournal.retained
  /\ NoJournal.place = "previous" /\ NoJournal.rollback = 0 /\ NoJournal.original = 0
<1>1. 0 \in 0 .. MaxVersion
  BY UpdateConstants
<1> QED BY <1>1 DEF NoJournal, Journal, Kinds

Reserves(kind, retained)          == journal' = [NoJournal EXCEPT !.kind = kind, !.retained = retained]
TurnsBack(kind, original, rollback) == journal' = [NoJournal EXCEPT !.kind = kind, !.original = original,
    !.rollback = rollback]
Becomes(kind)                     == journal' = [journal EXCEPT !.kind = kind]

\* The journals that are not written by setJournal.
LEMMA JournalOthers ==
  ASSUME TypeOK, NEW kind \in Kinds, NEW retained \in BOOLEAN,
         NEW original \in 0 .. MaxVersion, NEW rollback \in 0 .. MaxVersion
  PROVE  /\ Reserves(kind, retained) => 
               /\ journal' \in Journal /\ journal'.kind = kind /\ (journal'.retained <=> retained)
         /\ TurnsBack(kind, original, rollback) =>
               /\ journal' \in Journal /\ journal'.kind = kind /\ journal'.original = original
               /\ journal'.rollback = rollback /\ journal'.place = "previous" /\ ~journal'.retained
         /\ Becomes(kind) =>
               /\ journal' \in Journal /\ journal'.kind = kind /\ journal'.original = journal.original
               /\ journal'.rollback = journal.rollback /\ journal'.place = journal.place
               /\ journal'.retained <=> journal.retained
<1>1. 0 \in 0 .. MaxVersion
  BY UpdateConstants
<1> QED BY <1>1 DEF TypeOK, Journal, NoJournal, Reserves, TurnsBack, Becomes

\* What a rename does to the directories.
LEMMA RenameSteps ==
  ASSUME TypeOK, NEW from \in Places, NEW to \in Places, from # to, Rename(from, to)
  PROVE  /\ dir[from] # Absent /\ dir[to] = Absent /\ dir' \in [Places -> Content]
         /\ dir'[from] = Absent /\ dir'[to] = dir[from]
         /\ \A p \in Places \ {from, to} : dir'[p] = dir[p]
BY DEF TypeOK, Rename, Content

\* A move is done or refused, and nothing else changes.
LEMMA MoveSteps ==
  ASSUME TypeOK, NEW pc \in Steps, NEW from \in Places, NEW to \in Places, from # to,
         NEW then \in Steps, NEW else \in Steps, Move(pc, from, to, then, else)
  PROVE  /\ At(pc) /\ UNCHANGED <<lib, kept, keptDisk, journal, writer, sweeping>>
         /\ job' \in Job /\ job'.op = job.op /\ job'.goal = job.goal /\ job'.next = job.next
         /\ dir' \in [Places -> Content]
         /\ \/ /\ job'.pc = then /\ dir[from] # Absent /\ dir[to] = Absent
               /\ dir'[from] = Absent /\ dir'[to] = dir[from]
               /\ \A p \in Places \ {from, to} : dir'[p] = dir[p]
            \/ job'.pc = else /\ dir' = dir
BY RenameSteps, JobSteps DEF Move, TypeOK

\* The journal of a swap says whether a copy is moved out of its way.
LEMMA JournalSwapWrites ==
  ASSUME TypeOK, JournalSwap
  PROVE  /\ job' \in Job /\ job'.op = job.op /\ job'.goal = job.goal /\ job'.next = job.next
         /\ At("journal") /\ UNCHANGED <<dir, lib, kept, keptDisk, writer, sweeping>>
         /\ journal' \in Journal
         /\ \/ /\ Kind = "none" /\ journal'.kind = "swap" /\ journal'.place = "previous" /\ journal'.original = lib
               /\ journal'.rollback = kept /\ (journal'.retained <=> Previous # Absent)
               /\ \/ Previous # Absent /\ job'.pc = "retain"
                  \/ Previous = Absent /\ job'.pc = "aside"
            \/ job'.pc = "end" /\ journal' = journal
<1> USE UpdateConstants DEF At, Kind, Previous, Absent, Steps
<1>1. "swap" \in Kinds /\ (Previous # Absent) \in BOOLEAN
  BY DEF Kinds
<1>2. \E then \in {"retain", "aside"} :
        /\ then = IF Previous # Absent THEN "retain" ELSE "aside"
        /\ SetJournal("swap", "previous", Previous # Absent, then, "end")
  BY DEF JournalSwap
<1>3. PICK then \in {"retain", "aside"}, retained \in BOOLEAN :
        /\ then = IF Previous # Absent THEN "retain" ELSE "aside"
        /\ retained <=> Previous # Absent
        /\ SetJournal("swap", "previous", retained, then, "end")
  BY <1>1, <1>2
<1>4. \/ /\ Kind = "none" /\ journal' \in Journal /\ Goto(then)
         /\ journal'.kind = "swap" /\ journal'.place = "previous" /\ journal'.original = lib
         /\ journal'.rollback = kept /\ (journal'.retained <=> retained)
      \/ journal' = journal /\ Goto("end")
  BY <1>1, <1>3, JournalSteps
<1> QED BY <1>3, <1>4, JobSteps DEF JournalSwap, TypeOK

-----------------------------------------------------------------------------
(* What is begun, by the user or by itself *)

\* The three strategies of StartUpdate begin over a journal that needs nothing more.
LEMMA StartUpdateKeeps ==
  ASSUME IInv, ~sweeping, StartUpdate
  PROVE  IInv'
<1> USE UpdateConstants DEF At, Put, Move, Rename, Shifted, Kind, Original, Current, Previous, Absent,
    Partial, Steps
<1>0. Kind \in {"none", "swap", "inplace", "patch", "rollback", "cleanup"}
  BY DEF IInv, TypeOK, Journal, Kinds
<1>1. \E goal \in Versions :
        /\ goal > lib /\ job' \in Job /\ job'.goal = goal /\ job'.next = lib /\ job'.then = "end"
        /\ job = Idle /\ Kind \in {"none", "cleanup"} /\ journal' = NoJournal
        /\ dir' \in [Places -> Content]
        /\ \A p \in Places \ {"retained", "staging"} : dir'[p] = dir[p]
        /\ dir'["retained"] \in {dir["retained"], Absent} /\ dir'["staging"] \in {dir["staging"], Absent}
        /\ UNCHANGED <<lib, kept, keptDisk, writer, sweeping>>
        /\ \/ job'.op = "full" /\ job'.pc = "fetch"
           \/ job'.op = "inplace" /\ job'.pc = "slot"
           \/ job'.op = "patch" /\ job'.pc = "slot"
  <2>1. PICK goal \in Versions :
          goal > lib /\ \/ Begin("full", "fetch", goal)
                        \/ Begin("inplace", "slot", goal)
                        \/ Begin("patch", "slot", goal)
    BY DEF StartUpdate
  <2>2. \A op, pc : Begin(op, pc, goal) => Starts(op, pc, goal)
    BY DEF Begin, Starts
  <2>3. /\ job' \in Job /\ job'.goal = goal /\ job'.next = lib /\ job'.then = "end"
        /\ \/ job'.op = "full" /\ job'.pc = "fetch"
           \/ job'.op = "inplace" /\ job'.pc = "slot"
           \/ job'.op = "patch" /\ job'.pc = "slot"
    <3>1. goal \in 0 .. MaxVersion /\ {"full", "inplace", "patch"} \subseteq Ops
      BY DEF Versions, Ops
    <3> QED BY <2>1, <2>2, <3>1, JobStarts DEF IInv
  <2>4. \E op, pc : Begin(op, pc, goal)
    BY <2>1
  <2> QED BY <2>1, <2>3, <2>4 DEF Begin, MayStart, IInv, TypeOK, OpInv, Content, Places
<1>2. TypeOK'
  BY <1>1, NoJournalTyped DEF IInv, TypeOK
<1>3. JournalInv' /\ WriterInv' /\ SweepInv'
  BY <1>0, <1>1, NoJournalTyped DEF IInv, TypeOK, Idle, JournalInv, WriterInv, SweepInv, OpInv, GoalInv,
      StepInv, FilesInv, CopyPlace, Places, Journal, RecoverInv, Versions
<1>4. OpInv' /\ GoalInv' /\ StepInv'
  BY <1>0, <1>1, NoJournalTyped DEF IInv, TypeOK, Places, Idle, Job, Versions, JournalInv, WriterInv,
      SweepInv, OpInv, GoalInv, StepInv, ClearInv, FilesInv, CopyPlace
<1>5. RecoverInv' /\ OfferInv'
  BY <1>0, <1>1, NoJournalTyped DEF IInv, TypeOK, Content, Places, Versions, RecoverInv, JournalInv,
      OfferInv, WriterInv, SweepInv, OpInv, GoalInv, StepInv, IsRestored, ClearInv, FilesInv, CopyPlace
<1>6. ClearInv' /\ FilesInv'
  BY <1>0, <1>1, NoJournalTyped DEF IInv, TypeOK, Content, Places, Versions, Job, RecoverInv, JournalInv,
      OfferInv, WriterInv, SweepInv, OpInv, GoalInv, StepInv, IsRestored, ClearInv, FilesInv, CopyPlace
<1> QED BY <1>2, <1>3, <1>4, <1>5, <1>6 DEF IInv

\* So does a repair.
LEMMA RepairGameKeeps ==
  ASSUME IInv, ~sweeping, RepairGame
  PROVE  IInv'
<1> USE UpdateConstants DEF At, Put, Move, Rename, Shifted, Kind, Original, Current, Previous, Absent,
    Partial, Steps
<1>0. Kind \in {"none", "swap", "inplace", "patch", "rollback", "cleanup"}
  BY DEF IInv, TypeOK, Journal, Kinds
<1>1. /\ job' \in Job /\ job'.goal = lib /\ job'.next = lib /\ job'.then = "end"
      /\ job = Idle /\ Kind \in {"none", "cleanup"} /\ journal' = NoJournal
      /\ dir' \in [Places -> Content]
      /\ \A p \in Places \ {"retained", "staging"} : dir'[p] = dir[p]
      /\ dir'["retained"] \in {dir["retained"], Absent} /\ dir'["staging"] = dir["staging"]
      /\ UNCHANGED <<lib, kept, keptDisk, writer, sweeping>>
      /\ job'.op = "repair" /\ job'.pc = "copy"
  <2>1. Begin("repair", "copy", lib)
    BY DEF RepairGame
  <2>2. Starts("repair", "copy", lib)
    BY <2>1 DEF Begin, Starts
  <2>3. /\ job' \in Job /\ job'.goal = lib /\ job'.next = lib /\ job'.then = "end"
      /\ job'.op = "repair" /\ job'.pc = "copy"
    <3>1. lib \in 0 .. MaxVersion /\ "repair" \in Ops
      BY DEF Versions, Ops, IInv, TypeOK
    <3> QED BY <2>2, <3>1, JobStarts DEF IInv
  <2> QED BY <2>1, <2>3 DEF Begin, MayStart, IInv, TypeOK, OpInv, Content, Places
<1>2. TypeOK'
  BY <1>1, NoJournalTyped DEF IInv, TypeOK
<1>3. JournalInv' /\ WriterInv' /\ SweepInv'
  BY <1>0, <1>1, NoJournalTyped DEF IInv, TypeOK, Idle, JournalInv, WriterInv, SweepInv, OpInv, GoalInv,
      StepInv, FilesInv, CopyPlace, Places, Journal, RecoverInv, Versions
<1>4. OpInv' /\ GoalInv' /\ StepInv'
  BY <1>0, <1>1, NoJournalTyped DEF IInv, TypeOK, Places, Idle, Job, Versions, JournalInv, WriterInv,
      SweepInv, OpInv, GoalInv, StepInv, ClearInv, FilesInv, CopyPlace
<1>5. RecoverInv' /\ OfferInv'
  BY <1>0, <1>1, NoJournalTyped DEF IInv, TypeOK, Content, Places, Versions, RecoverInv, JournalInv,
      OfferInv, WriterInv, SweepInv, OpInv, GoalInv, StepInv, IsRestored, ClearInv, FilesInv, CopyPlace
<1>6. ClearInv' /\ FilesInv'
  BY <1>0, <1>1, NoJournalTyped DEF IInv, TypeOK, Content, Places, Versions, Job, RecoverInv, JournalInv,
      OfferInv, WriterInv, SweepInv, OpInv, GoalInv, StepInv, IsRestored, ClearInv, FilesInv, CopyPlace
<1> QED BY <1>2, <1>3, <1>4, <1>5, <1>6 DEF IInv

\* A refused job has only removed the retained copy nothing needs (beginJob).
LEMMA BeginRefusedKeeps ==
  ASSUME IInv, ~sweeping, BeginRefused
  PROVE  IInv'
<1> USE UpdateConstants, JobSteps DEF At, Put, Shifted, Kind, Original, Current, Previous, Absent,
    Partial, NoJournal, Steps
<1>1. TypeOK'
  BY DEF BeginRefused, CopyPlace, MayStart, IInv, Content, Places, Versions, Journal, Idle, TypeOK,
      GoalInv, StepInv, RecoverInv, FilesInv, ClearInv
<1>2. JournalInv' /\ WriterInv' /\ SweepInv'
  BY DEF BeginRefused, CopyPlace, MayStart, IInv, Content, Places, Versions, Journal, Idle, TypeOK,
      JournalInv, WriterInv, SweepInv, OpInv, GoalInv, StepInv, FilesInv
<1>3. OpInv' /\ GoalInv' /\ StepInv'
  BY DEF BeginRefused, CopyPlace, MayStart, IInv, Content, Places, Versions, Journal, Idle, TypeOK,
      JournalInv, WriterInv, SweepInv, OpInv, GoalInv, StepInv, ClearInv
<1>4. RecoverInv' /\ OfferInv'
  BY DEF BeginRefused, CopyPlace, MayStart, IInv, Content, Places, Versions, Journal, Idle, TypeOK,
      RecoverInv, JournalInv, OfferInv, WriterInv, SweepInv, OpInv, GoalInv, StepInv, IsRestored,
      ClearInv, FilesInv
<1>5. ClearInv' /\ FilesInv'
  BY DEF BeginRefused, CopyPlace, MayStart, IInv, Content, Places, Versions, Journal, Idle, TypeOK,
      RecoverInv, JournalInv, OfferInv, WriterInv, SweepInv, OpInv, GoalInv, StepInv, IsRestored,
      ClearInv, FilesInv
<1> QED BY <1>1, <1>2, <1>3, <1>4, <1>5 DEF IInv

\* A rollback begins with the copy it is offered in place (Rollback).
LEMMA RollbackKeeps ==
  ASSUME IInv, ~sweeping, Rollback
  PROVE  IInv'
<1> USE UpdateConstants DEF At, Put, Move, Rename, Shifted, Kind, Original, Current, Previous, Absent,
    Partial, Steps
<1>0. Kind \in {"none", "swap", "inplace", "patch", "rollback", "cleanup"}
  BY DEF IInv, TypeOK, Journal, Kinds
<1>1. /\ job' \in Job /\ job'.goal = 0 /\ job'.then = "end" /\ job = Idle
      /\ job'.op = "rollback" /\ job'.pc = "turn"
      /\ Kind = "none" /\ kept # 0 /\ Previous # Absent
      /\ journal' \in Journal /\ journal'.kind = "rollback" /\ journal'.original = lib /\ journal'.rollback = kept
      /\ journal'.place = "previous" /\ ~journal'.retained
      /\ UNCHANGED <<dir, lib, kept, keptDisk, writer, sweeping>>
  <2>1. lib \in 0 .. MaxVersion /\ kept \in 0 .. MaxVersion /\ "rollback" \in Ops /\ "rollback" \in Kinds /\ TRUE \in BOOLEAN
    BY DEF Versions, Ops, Kinds, IInv, TypeOK
  <2>2. TurnsBack("rollback", lib, kept) /\ Enters("rollback", "turn")
    BY DEF Rollback, TurnsBack, Enters
  <2>3. /\ job' \in Job /\ job'.goal = 0 /\ job'.then = "end"
        /\ job'.op = "rollback" /\ job'.pc = "turn"
    BY <2>1, <2>2, JobEnters DEF IInv
  <2>4. /\ journal' \in Journal /\ journal'.kind = "rollback" /\ journal'.original = lib /\ journal'.rollback = kept
        /\ journal'.place = "previous" /\ ~journal'.retained
    BY <2>1, <2>2, JournalOthers DEF IInv
  <2> QED BY <2>3, <2>4 DEF Rollback, IInv, OpInv
<1>2. TypeOK'
  BY <1>1 DEF IInv, TypeOK
<1>3. JournalInv' /\ WriterInv' /\ SweepInv'
  BY <1>0, <1>1 DEF IInv, TypeOK, Idle, JournalInv, WriterInv, SweepInv, OpInv, GoalInv, StepInv,
      FilesInv, CopyPlace, Places, Journal, RecoverInv, Versions
<1>4. OpInv' /\ GoalInv' /\ StepInv'
  BY <1>0, <1>1 DEF IInv, TypeOK, Places, Idle, Job, Versions, JournalInv, WriterInv, SweepInv, OpInv,
      GoalInv, StepInv, ClearInv, FilesInv, CopyPlace
<1>5. RecoverInv' /\ OfferInv'
  BY <1>0, <1>1 DEF IInv, TypeOK, Content, Places, Versions, RecoverInv, JournalInv, OfferInv, WriterInv,
      SweepInv, OpInv, GoalInv, StepInv, IsRestored, ClearInv, FilesInv, CopyPlace
<1>6. ClearInv' /\ FilesInv'
  BY <1>0, <1>1 DEF IInv, TypeOK, Content, Places, Versions, Job, RecoverInv, JournalInv, OfferInv,
      WriterInv, SweepInv, OpInv, GoalInv, StepInv, IsRestored, ClearInv, FilesInv, CopyPlace
<1> QED BY <1>2, <1>3, <1>4, <1>5, <1>6 DEF IInv

\* The record of the copy goes before the copy (sweepPrevious, HandleSessionEnded).
LEMMA ExpireKeeps ==
  ASSUME IInv, Expire
  PROVE  IInv'
<1> USE UpdateConstants DEF At, Put, Move, Rename, Shifted, Kind, Original, Current, Previous, Absent,
    Partial, Steps
<1>0. Kind \in {"none", "swap", "inplace", "patch", "rollback", "cleanup"}
  BY DEF IInv, TypeOK, Journal, Kinds
<1>1. /\ kept' \in {kept, 0} /\ keptDisk' \in {0, kept'} /\ sweeping' \in BOOLEAN
      /\ job = Idle /\ Kind = "none"
      /\ UNCHANGED <<dir, lib, journal, writer, job>>
  <2>1. sweeping' \in BOOLEAN
    BY Zenon DEF Expire, IInv, TypeOK
  <2> QED BY <2>1 DEF Expire, SaveKept, IInv, OpInv
<1>2. TypeOK'
  BY <1>1 DEF IInv, TypeOK
<1>3. JournalInv' /\ WriterInv' /\ SweepInv'
  BY <1>0, <1>1 DEF IInv, TypeOK, Idle, JournalInv, WriterInv, SweepInv, OpInv, GoalInv, StepInv,
      FilesInv, CopyPlace, Places, Journal, RecoverInv, Versions
<1>4. OpInv' /\ GoalInv' /\ StepInv'
  BY <1>0, <1>1 DEF IInv, TypeOK, Places, Idle, Job, Versions, JournalInv, WriterInv, SweepInv, OpInv,
      GoalInv, StepInv, ClearInv, FilesInv, CopyPlace
<1>5. RecoverInv' /\ OfferInv'
  BY <1>0, <1>1 DEF IInv, TypeOK, Content, Places, Versions, RecoverInv, JournalInv, OfferInv, WriterInv,
      SweepInv, OpInv, GoalInv, StepInv, IsRestored, ClearInv, FilesInv, CopyPlace
<1>6. ClearInv' /\ FilesInv'
  BY <1>0, <1>1 DEF IInv, TypeOK, Content, Places, Versions, Job, RecoverInv, JournalInv, OfferInv,
      WriterInv, SweepInv, OpInv, GoalInv, StepInv, IsRestored, ClearInv, FilesInv, CopyPlace
<1> QED BY <1>2, <1>3, <1>4, <1>5, <1>6 DEF IInv

\* ... which is removed while nothing else is going on.
LEMMA SweepRemovesKeeps ==
  ASSUME IInv, SweepRemoves
  PROVE  IInv'
<1> USE UpdateConstants, JobSteps DEF At, Put, Shifted, Kind, Original, Current, Previous, Absent,
    Partial, NoJournal, Steps
<1>1. TypeOK'
  BY DEF SweepRemoves, CopyPlace, IInv, Content, Places, Versions, Journal, Idle, TypeOK, GoalInv,
      StepInv, RecoverInv, FilesInv, ClearInv
<1>2. JournalInv' /\ WriterInv' /\ SweepInv'
  BY DEF SweepRemoves, CopyPlace, IInv, Content, Places, Versions, Journal, Idle, TypeOK, JournalInv,
      WriterInv, SweepInv, OpInv, GoalInv, StepInv, FilesInv
<1>3. OpInv' /\ GoalInv' /\ StepInv'
  BY DEF SweepRemoves, CopyPlace, IInv, Content, Places, Versions, Journal, Idle, TypeOK, JournalInv,
      WriterInv, SweepInv, OpInv, GoalInv, StepInv, ClearInv
<1>4. RecoverInv' /\ OfferInv'
  BY DEF SweepRemoves, CopyPlace, IInv, Content, Places, Versions, Journal, Idle, TypeOK, RecoverInv,
      JournalInv, OfferInv, WriterInv, SweepInv, OpInv, GoalInv, StepInv, IsRestored, ClearInv, FilesInv
<1>5. ClearInv' /\ FilesInv'
  BY DEF SweepRemoves, CopyPlace, IInv, Content, Places, Versions, Journal, Idle, TypeOK, RecoverInv,
      JournalInv, OfferInv, WriterInv, SweepInv, OpInv, GoalInv, StepInv, IsRestored, ClearInv, FilesInv
<1> QED BY <1>1, <1>2, <1>3, <1>4, <1>5 DEF IInv

\* The manager writes into an installation that is journalled (applyTorrentReuse, repair).
LEMMA WriterWritesKeeps ==
  ASSUME IInv, WriterWrites
  PROVE  IInv'
<1> USE UpdateConstants, JobSteps DEF At, Put, Shifted, Kind, Original, Current, Previous, Absent,
    Partial, NoJournal, Steps
<1>1. TypeOK'
  BY DEF WriterWrites, CopyPlace, IInv, Content, Places, Versions, Journal, Idle, TypeOK, GoalInv,
      StepInv, RecoverInv, FilesInv, ClearInv
<1>2. JournalInv' /\ WriterInv' /\ SweepInv'
  BY DEF WriterWrites, CopyPlace, IInv, Content, Places, Versions, Journal, Idle, TypeOK, JournalInv,
      WriterInv, SweepInv, OpInv, GoalInv, StepInv, FilesInv
<1>3. OpInv' /\ GoalInv' /\ StepInv'
  BY DEF WriterWrites, CopyPlace, IInv, Content, Places, Versions, Journal, Idle, TypeOK, JournalInv,
      WriterInv, SweepInv, OpInv, GoalInv, StepInv, ClearInv
<1>4. RecoverInv' /\ OfferInv'
  BY DEF WriterWrites, CopyPlace, IInv, Content, Places, Versions, Journal, Idle, TypeOK, RecoverInv,
      JournalInv, OfferInv, WriterInv, SweepInv, OpInv, GoalInv, StepInv, IsRestored, ClearInv, FilesInv
<1>5. ClearInv' /\ FilesInv'
  BY DEF WriterWrites, CopyPlace, IInv, Content, Places, Versions, Journal, Idle, TypeOK, RecoverInv,
      JournalInv, OfferInv, WriterInv, SweepInv, OpInv, GoalInv, StepInv, IsRestored, ClearInv, FilesInv
<1> QED BY <1>1, <1>2, <1>3, <1>4, <1>5 DEF IInv

\* The next start turns to what the journal says (recoverJournals).
LEMMA CrashKeeps ==
  ASSUME IInv, Crash
  PROVE  IInv'
<1> USE UpdateConstants DEF At, Put, Move, Rename, Shifted, Kind, Original, Current, Previous, Absent,
    Partial, Steps
<1>0. Kind \in {"none", "swap", "inplace", "patch", "rollback", "cleanup"}
  BY DEF IInv, TypeOK, Journal, Kinds
<1>1. /\ job' \in Job /\ job'.op = "recover" /\ job'.goal = 0 /\ job'.then = "end"
      /\ Kind = "none" => job'.pc = "end"
      /\ Kind = "cleanup" => job'.pc = "clear"
      /\ Kind = "rollback" => job'.pc = "turn"
      /\ Kind = "swap" => job'.pc = "restore"
      /\ Kind = "patch" => job'.pc = "unmerge"
      /\ Kind = "inplace" => job'.pc = "stop"
      /\ UNCHANGED <<dir, lib, keptDisk, journal, writer>> /\ kept' = keptDisk
      /\ ~sweeping' /\ sweeping' \in BOOLEAN
  <2>1. Recovery \in Steps
    BY <1>0 DEF Recovery
  <2>2. Enters("recover", Recovery)
    BY DEF Crash, Enters
  <2>3. job' \in Job /\ job'.op = "recover" /\ job'.goal = 0 /\ job'.then = "end" /\ job'.pc = Recovery
    BY <2>1, <2>2, JobEnters DEF IInv, Ops
  <2> QED BY <2>3, <1>0 DEF Crash, Recovery
<1>2. TypeOK'
  BY <1>1 DEF IInv, TypeOK
<1>3. JournalInv' /\ WriterInv' /\ SweepInv'
  BY <1>0, <1>1 DEF IInv, TypeOK, Idle, JournalInv, WriterInv, SweepInv, OpInv, GoalInv, StepInv,
      FilesInv, CopyPlace, Places, Journal, RecoverInv, Versions
<1>4. OpInv' /\ GoalInv' /\ StepInv'
  BY <1>0, <1>1 DEF IInv, TypeOK, Places, Idle, Job, Versions, JournalInv, WriterInv, SweepInv, OpInv,
      GoalInv, StepInv, ClearInv, FilesInv, CopyPlace
<1>5. RecoverInv' /\ OfferInv'
  BY <1>0, <1>1 DEF IInv, TypeOK, Content, Places, Versions, RecoverInv, JournalInv, OfferInv, WriterInv,
      SweepInv, OpInv, GoalInv, StepInv, IsRestored, ClearInv, FilesInv, CopyPlace
<1>6. ClearInv' /\ FilesInv'
  BY <1>0, <1>1 DEF IInv, TypeOK, Content, Places, Versions, Job, RecoverInv, JournalInv, OfferInv,
      WriterInv, SweepInv, OpInv, GoalInv, StepInv, IsRestored, ClearInv, FilesInv, CopyPlace
<1> QED BY <1>2, <1>3, <1>4, <1>5, <1>6 DEF IInv

-----------------------------------------------------------------------------
(* The steps several operations share *)

\* Downloads go to the staging directory (downloadRelease).
LEMMA FetchKeeps ==
  ASSUME IInv, Fetch
  PROVE  IInv'
<1> USE UpdateConstants, JobSteps DEF At, Put, Shifted, Kind, Original, Current, Previous, Absent,
    Partial, NoJournal, Steps
<1>1. TypeOK'
  BY DEF Fetch, Broken, CopyPlace, IInv, Content, Places, Versions, Journal, Idle, TypeOK, GoalInv,
      StepInv, RecoverInv, FilesInv, ClearInv
<1>2. JournalInv' /\ WriterInv' /\ SweepInv'
  BY DEF Fetch, Broken, CopyPlace, IInv, Content, Places, Versions, Journal, Idle, TypeOK, JournalInv,
      WriterInv, SweepInv, OpInv, GoalInv, StepInv, FilesInv
<1>3. OpInv' /\ GoalInv' /\ StepInv'
  BY DEF Fetch, Broken, CopyPlace, IInv, Content, Places, Versions, Journal, Idle, TypeOK, JournalInv,
      WriterInv, SweepInv, OpInv, GoalInv, StepInv, ClearInv
<1>4. RecoverInv' /\ OfferInv'
  BY DEF Fetch, Broken, CopyPlace, IInv, Content, Places, Versions, Journal, Idle, TypeOK, RecoverInv,
      JournalInv, OfferInv, WriterInv, SweepInv, OpInv, GoalInv, StepInv, IsRestored, ClearInv, FilesInv
<1>5. ClearInv' /\ FilesInv'
  BY DEF Fetch, Broken, CopyPlace, IInv, Content, Places, Versions, Journal, Idle, TypeOK, RecoverInv,
      JournalInv, OfferInv, WriterInv, SweepInv, OpInv, GoalInv, StepInv, IsRestored, ClearInv, FilesInv
<1> QED BY <1>1, <1>2, <1>3, <1>4, <1>5 DEF IInv

\* So does what installers unpack (installInto).
LEMMA UnpackKeeps ==
  ASSUME IInv, Unpack
  PROVE  IInv'
<1> USE UpdateConstants DEF At, Put, Move, Rename, Shifted, Kind, Original, Current, Previous, Absent,
    Partial, Steps
<1>0. Kind \in {"none", "swap", "inplace", "patch", "rollback", "cleanup"}
  BY DEF IInv, TypeOK, Journal, Kinds
<1>1. /\ job' \in Job /\ job'.op = job.op /\ job'.goal = job.goal /\ job'.next = job.next
      /\ At("unpack") /\ UNCHANGED <<lib, kept, keptDisk, journal, writer, sweeping>>
      /\ dir' \in [Places -> Content] /\ \A p \in Places \ {"staging"} : dir'[p] = dir[p]
      /\ \/ job.op = "full" /\ dir'["staging"] = job.goal /\ job'.pc = "look"
         \/ job.op # "full" /\ job'.pc = "clean"
         \/ dir' = dir /\ job'.pc = Broken
  <2>1. IF job.op = "full" THEN job.goal \in Versions ELSE job.next + 1 \in Versions
    BY DEF Unpack, IInv, TypeOK, Versions, Job, GoalInv, OpInv
  <2> QED BY <2>1, JobSteps DEF Unpack, IInv, TypeOK, Content, Places, Broken
<1>2. TypeOK'
  BY <1>1 DEF IInv, TypeOK
<1>3. JournalInv' /\ WriterInv' /\ SweepInv'
  BY <1>0, <1>1 DEF Broken, IInv, TypeOK, Idle, JournalInv, WriterInv, SweepInv, OpInv, GoalInv, StepInv,
      FilesInv, CopyPlace, Places, Journal, RecoverInv, Versions
<1>4. OpInv' /\ GoalInv' /\ StepInv'
  BY <1>0, <1>1 DEF Broken, IInv, TypeOK, Places, Idle, Job, Versions, JournalInv, WriterInv, SweepInv,
      OpInv, GoalInv, StepInv, ClearInv, FilesInv, CopyPlace
<1>5. RecoverInv' /\ OfferInv'
  BY <1>0, <1>1 DEF Broken, IInv, TypeOK, Content, Places, Versions, RecoverInv, JournalInv, OfferInv,
      WriterInv, SweepInv, OpInv, GoalInv, StepInv, IsRestored, ClearInv, FilesInv, CopyPlace
<1>6. ClearInv' /\ FilesInv'
  BY <1>0, <1>1 DEF Broken, IInv, TypeOK, Content, Places, Versions, Job, RecoverInv, JournalInv,
      OfferInv, WriterInv, SweepInv, OpInv, GoalInv, StepInv, IsRestored, ClearInv, FilesInv, CopyPlace
<1> QED BY <1>2, <1>3, <1>4, <1>5, <1>6 DEF IInv

\* The record of the old copy goes before a new one is made (releaseBackupSlot).
LEMMA SlotKeeps ==
  ASSUME IInv, Slot
  PROVE  IInv'
<1> USE UpdateConstants, JobSteps DEF At, Put, Shifted, Kind, Original, Current, Previous, Absent,
    Partial, NoJournal, Steps
<1>1. TypeOK'
  BY DEF Slot, SaveKept, CopyPlace, IInv, Content, Places, Versions, Journal, Idle, TypeOK, GoalInv,
      StepInv, RecoverInv, FilesInv, ClearInv
<1>2. JournalInv' /\ WriterInv' /\ SweepInv'
  BY DEF Slot, SaveKept, CopyPlace, IInv, Content, Places, Versions, Journal, Idle, TypeOK, JournalInv,
      WriterInv, SweepInv, OpInv, GoalInv, StepInv, FilesInv
<1>3. OpInv' /\ GoalInv' /\ StepInv'
  BY DEF Slot, SaveKept, CopyPlace, IInv, Content, Places, Versions, Journal, Idle, TypeOK, JournalInv,
      WriterInv, SweepInv, OpInv, GoalInv, StepInv, ClearInv
<1>4. RecoverInv' /\ OfferInv'
  BY DEF Slot, SaveKept, CopyPlace, IInv, Content, Places, Versions, Journal, Idle, TypeOK, RecoverInv,
      JournalInv, OfferInv, WriterInv, SweepInv, OpInv, GoalInv, StepInv, IsRestored, ClearInv, FilesInv
<1>5. ClearInv' /\ FilesInv'
  BY DEF Slot, SaveKept, CopyPlace, IInv, Content, Places, Versions, Journal, Idle, TypeOK, RecoverInv,
      JournalInv, OfferInv, WriterInv, SweepInv, OpInv, GoalInv, StepInv, IsRestored, ClearInv, FilesInv
<1> QED BY <1>1, <1>2, <1>3, <1>4, <1>5 DEF IInv

\* The copy begins under a name nothing is offered by (copyInstallAside).
LEMMA CopyKeeps ==
  ASSUME IInv, Copy
  PROVE  IInv'
<1> USE UpdateConstants, JobSteps DEF At, Put, Shifted, Kind, Original, Current, Previous, Absent,
    Partial, NoJournal, Steps
<1>1. TypeOK'
  BY DEF Copy, CopyPlace, IInv, Content, Places, Versions, Journal, Idle, TypeOK, GoalInv, StepInv,
      RecoverInv, FilesInv, ClearInv
<1>2. JournalInv' /\ WriterInv' /\ SweepInv'
  BY DEF Copy, CopyPlace, IInv, Content, Places, Versions, Journal, Idle, TypeOK, JournalInv, WriterInv,
      SweepInv, OpInv, GoalInv, StepInv, FilesInv
<1>3. OpInv' /\ GoalInv' /\ StepInv'
  BY DEF Copy, CopyPlace, IInv, Content, Places, Versions, Journal, Idle, TypeOK, JournalInv, WriterInv,
      SweepInv, OpInv, GoalInv, StepInv, ClearInv
<1>4. RecoverInv' /\ OfferInv'
  BY DEF Copy, CopyPlace, IInv, Content, Places, Versions, Journal, Idle, TypeOK, RecoverInv, JournalInv,
      OfferInv, WriterInv, SweepInv, OpInv, GoalInv, StepInv, IsRestored, ClearInv, FilesInv
<1>5. ClearInv' /\ FilesInv'
  BY DEF Copy, CopyPlace, IInv, Content, Places, Versions, Journal, Idle, TypeOK, RecoverInv, JournalInv,
      OfferInv, WriterInv, SweepInv, OpInv, GoalInv, StepInv, IsRestored, ClearInv, FilesInv
<1> QED BY <1>1, <1>2, <1>3, <1>4, <1>5 DEF IInv

\* A copy that fails is removed (copyInstallAside).
LEMMA CopyingKeeps ==
  ASSUME IInv, Copying
  PROVE  IInv'
<1> USE UpdateConstants, JobSteps DEF At, Put, Shifted, Kind, Original, Current, Previous, Absent,
    Partial, NoJournal, Steps
<1>1. TypeOK'
  BY DEF Copying, CopyPlace, IInv, Content, Places, Versions, Journal, Idle, TypeOK, GoalInv, StepInv,
      RecoverInv, FilesInv, ClearInv
<1>2. JournalInv' /\ WriterInv' /\ SweepInv'
  BY DEF Copying, CopyPlace, IInv, Content, Places, Versions, Journal, Idle, TypeOK, JournalInv,
      WriterInv, SweepInv, OpInv, GoalInv, StepInv, FilesInv
<1>3. OpInv' /\ GoalInv' /\ StepInv'
  BY DEF Copying, CopyPlace, IInv, Content, Places, Versions, Journal, Idle, TypeOK, JournalInv,
      WriterInv, SweepInv, OpInv, GoalInv, StepInv, ClearInv
<1>4. RecoverInv' /\ OfferInv'
  BY DEF Copying, CopyPlace, IInv, Content, Places, Versions, Journal, Idle, TypeOK, RecoverInv,
      JournalInv, OfferInv, WriterInv, SweepInv, OpInv, GoalInv, StepInv, IsRestored, ClearInv, FilesInv
<1>5. ClearInv' /\ FilesInv'
  BY DEF Copying, CopyPlace, IInv, Content, Places, Versions, Journal, Idle, TypeOK, RecoverInv,
      JournalInv, OfferInv, WriterInv, SweepInv, OpInv, GoalInv, StepInv, IsRestored, ClearInv, FilesInv
<1> QED BY <1>1, <1>2, <1>3, <1>4, <1>5 DEF IInv

\* The journal is written over a whole copy (setJournal).
LEMMA MarkKeeps ==
  ASSUME IInv, Mark
  PROVE  IInv'
<1> USE UpdateConstants DEF At, Put, Move, Rename, Shifted, Kind, Original, Current, Previous, Absent,
    Partial, Steps
<1>0. Kind \in {"none", "swap", "inplace", "patch", "rollback", "cleanup"}
  BY DEF IInv, TypeOK, Journal, Kinds
<1>1. /\ job' \in Job /\ job'.op = job.op /\ job'.goal = job.goal /\ job'.next = job.next
      /\ At("mark") /\ UNCHANGED <<lib, kept, keptDisk, writer, sweeping>>
      /\ journal' \in Journal
      /\ dir' \in [Places -> Content] /\ \A p \in Places \ {CopyPlace} : dir'[p] = dir[p]
      /\ \/ /\ job.op = "patch" /\ dir' = dir /\ job'.pc = "merge" /\ journal'.kind = "patch"
            /\ journal'.place = "backup" /\ ~journal'.retained /\ journal'.original = lib
         \/ job.op = "patch" /\ dir' = dir /\ job'.pc = "giveup" /\ journal' = journal
         \/ /\ job.op # "patch" /\ dir' = dir /\ job'.pc = "write" /\ journal'.kind = "inplace"
            /\ journal'.place = CopyPlace /\ ~journal'.retained /\ journal'.original = lib
         \/ job.op # "patch" /\ job'.pc = "end" /\ journal' = journal
  <2>1. {"patch", "inplace"} \subseteq Kinds /\ FALSE \in BOOLEAN
    BY DEF Kinds
  <2>2. CASE job.op = "patch"
    <3>1. SetJournal("patch", "backup", FALSE, "merge", "giveup") /\ UNCHANGED dir
      BY <2>2 DEF Mark
    <3>2. \/ /\ journal' \in Journal /\ Goto("merge") /\ journal'.kind = "patch"
             /\ journal'.place = "backup" /\ ~journal'.retained /\ journal'.original = lib
          \/ journal' = journal /\ Goto("giveup")
      BY <2>1, <3>1, JournalSteps DEF IInv
    <3> QED BY <2>2, <3>1, <3>2, JobSteps DEF Mark, IInv, TypeOK
  <2>3. CASE job.op # "patch"
    <3>1. /\ SetJournal("inplace", CopyPlace, FALSE, "write", "end")
          /\ IF journal' = journal THEN Put(CopyPlace, Absent) ELSE UNCHANGED dir
      BY <2>3 DEF Mark
    <3>2. CopyPlace \in {"previous", "repair", "backup"}
      BY DEF CopyPlace
    <3>3. \/ /\ journal' \in Journal /\ Goto("write") /\ journal'.kind = "inplace" /\ journal.kind = "none"
             /\ journal'.place = CopyPlace /\ ~journal'.retained /\ journal'.original = lib
          \/ journal' = journal /\ Goto("end")
      BY <2>1, <3>1, <3>2, JournalSteps DEF IInv
    <3> QED BY <2>3, <3>1, <3>2, <3>3, JobSteps DEF Mark, IInv, TypeOK, Places, Content
  <2> QED BY <2>2, <2>3
<1>2. TypeOK'
  BY <1>1 DEF IInv, TypeOK
<1>3. JournalInv' /\ WriterInv' /\ SweepInv'
  BY <1>0, <1>1 DEF IInv, TypeOK, Idle, JournalInv, WriterInv, SweepInv, OpInv, GoalInv, StepInv,
      FilesInv, CopyPlace, Places, Journal, RecoverInv, Versions
<1>4. OpInv' /\ GoalInv' /\ StepInv'
  BY <1>0, <1>1 DEF IInv, TypeOK, Places, Idle, Job, Versions, JournalInv, WriterInv, SweepInv, OpInv,
      GoalInv, StepInv, ClearInv, FilesInv, CopyPlace
<1>5. RecoverInv' /\ OfferInv'
  BY <1>0, <1>1 DEF IInv, TypeOK, Content, Places, Versions, RecoverInv, JournalInv, OfferInv, WriterInv,
      SweepInv, OpInv, GoalInv, StepInv, IsRestored, ClearInv, FilesInv, CopyPlace
<1>6. ClearInv' /\ FilesInv'
  BY <1>0, <1>1 DEF IInv, TypeOK, Content, Places, Versions, Job, RecoverInv, JournalInv, OfferInv,
      WriterInv, SweepInv, OpInv, GoalInv, StepInv, IsRestored, ClearInv, FilesInv, CopyPlace
<1> QED BY <1>2, <1>3, <1>4, <1>5, <1>6 DEF IInv

\* Looking for the executable changes nothing (resolveExecutable).
LEMMA ResolveKeeps ==
  ASSUME IInv, Resolve
  PROVE  IInv'
<1> USE UpdateConstants, JobSteps DEF At, Put, Shifted, Kind, Original, Current, Previous, Absent,
    Partial, NoJournal, Steps
<1>1. TypeOK'
  BY DEF Resolve, CopyPlace, IInv, Content, Places, Versions, Journal, Idle, TypeOK, GoalInv, StepInv,
      RecoverInv, FilesInv, ClearInv
<1>2. JournalInv' /\ WriterInv' /\ SweepInv'
  BY DEF Resolve, CopyPlace, IInv, Content, Places, Versions, Journal, Idle, TypeOK, JournalInv,
      WriterInv, SweepInv, OpInv, GoalInv, StepInv, FilesInv
<1>3. OpInv' /\ GoalInv' /\ StepInv'
  BY DEF Resolve, CopyPlace, IInv, Content, Places, Versions, Journal, Idle, TypeOK, JournalInv,
      WriterInv, SweepInv, OpInv, GoalInv, StepInv, ClearInv
<1>4. RecoverInv' /\ OfferInv'
  BY DEF Resolve, CopyPlace, IInv, Content, Places, Versions, Journal, Idle, TypeOK, RecoverInv,
      JournalInv, OfferInv, WriterInv, SweepInv, OpInv, GoalInv, StepInv, IsRestored, ClearInv, FilesInv
<1>5. ClearInv' /\ FilesInv'
  BY DEF Resolve, CopyPlace, IInv, Content, Places, Versions, Journal, Idle, TypeOK, RecoverInv,
      JournalInv, OfferInv, WriterInv, SweepInv, OpInv, GoalInv, StepInv, IsRestored, ClearInv, FilesInv
<1> QED BY <1>1, <1>2, <1>3, <1>4, <1>5 DEF IInv

\* The library learns the version that is installed (registerVersionAs).
LEMMA RegisterKeeps ==
  ASSUME IInv, Register
  PROVE  IInv'
<1> USE UpdateConstants DEF At, Put, Move, Rename, Shifted, Kind, Original, Current, Previous, Absent,
    Partial, Steps
<1>0. Kind \in {"none", "swap", "inplace", "patch", "rollback", "cleanup"}
  BY DEF IInv, TypeOK, Journal, Kinds
<1>1. /\ job' \in Job /\ job'.op = job.op /\ job'.goal = job.goal /\ job'.next = job.next
      /\ At("register") /\ UNCHANGED <<dir, kept, keptDisk, journal, writer, sweeping>>
      /\ \/ job.op = "patch" /\ lib' = job.next + 1 /\ job'.pc = "clear" /\ job'.then = "merged"
         \/ job.op # "patch" /\ lib' = job.goal /\ job'.pc = "keep"
         \/ job.op = "patch" /\ lib' = lib /\ job'.pc = "giveup"
         \/ job.op # "patch" /\ lib' = lib /\ job'.pc = "end"
  <2>1. CASE /\ lib' = IF job.op = "patch" THEN job.next + 1 ELSE job.goal
             /\ IF job.op = "patch" THEN Clearing("merged") ELSE Goto("keep")
    BY <2>1, JobSteps DEF Register, IInv
  <2>2. CASE UNCHANGED lib /\ Leaves(Broken, TRUE)
    BY <2>2, JobLeaves DEF Register, IInv, Broken
  <2> QED BY <2>1, <2>2 DEF Register, Leaves
<1>2. TypeOK'
  <2>1. lib' \in Versions
    BY <1>1 DEF IInv, TypeOK, Versions, GoalInv, Job, OpInv
  <2> QED BY <1>1, <2>1 DEF IInv, TypeOK
<1>3. JournalInv' /\ WriterInv' /\ SweepInv'
  BY <1>0, <1>1 DEF IInv, TypeOK, Idle, JournalInv, WriterInv, SweepInv, OpInv, GoalInv, StepInv,
      FilesInv, CopyPlace, Places, Journal, RecoverInv, Versions
<1>4. OpInv' /\ GoalInv' /\ StepInv'
  BY <1>0, <1>1 DEF IInv, TypeOK, Places, Idle, Job, Versions, JournalInv, WriterInv, SweepInv, OpInv,
      GoalInv, StepInv, ClearInv, FilesInv, CopyPlace
<1>5. RecoverInv' /\ OfferInv'
  BY <1>0, <1>1 DEF IInv, TypeOK, Content, Places, Versions, RecoverInv, JournalInv, OfferInv, WriterInv,
      SweepInv, OpInv, GoalInv, StepInv, IsRestored, ClearInv, FilesInv, CopyPlace
<1>6. ClearInv' /\ FilesInv'
  BY <1>0, <1>1 DEF IInv, TypeOK, Content, Places, Versions, Job, RecoverInv, JournalInv, OfferInv,
      WriterInv, SweepInv, OpInv, GoalInv, StepInv, IsRestored, ClearInv, FilesInv, CopyPlace
<1> QED BY <1>2, <1>3, <1>4, <1>5, <1>6 DEF IInv

\* The record of the copy is that of the version before (registerRollback).
LEMMA KeepKeeps ==
  ASSUME IInv, Keep
  PROVE  IInv'
<1> USE UpdateConstants, JobSteps DEF At, Put, Shifted, Kind, Original, Current, Previous, Absent,
    Partial, NoJournal, Steps
<1>1. TypeOK'
  BY DEF Keep, SaveKept, CopyPlace, IInv, Content, Places, Versions, Journal, Idle, TypeOK, GoalInv,
      StepInv, RecoverInv, FilesInv, ClearInv
<1>2. JournalInv' /\ WriterInv' /\ SweepInv'
  BY DEF Keep, SaveKept, CopyPlace, IInv, Content, Places, Versions, Journal, Idle, TypeOK, JournalInv,
      WriterInv, SweepInv, OpInv, GoalInv, StepInv, FilesInv
<1>3. OpInv' /\ GoalInv' /\ StepInv'
  BY DEF Keep, SaveKept, CopyPlace, IInv, Content, Places, Versions, Journal, Idle, TypeOK, JournalInv,
      WriterInv, SweepInv, OpInv, GoalInv, StepInv, ClearInv
<1>4. RecoverInv' /\ OfferInv'
  BY DEF Keep, SaveKept, CopyPlace, IInv, Content, Places, Versions, Journal, Idle, TypeOK, RecoverInv,
      JournalInv, OfferInv, WriterInv, SweepInv, OpInv, GoalInv, StepInv, IsRestored, ClearInv, FilesInv
<1>5. ClearInv' /\ FilesInv'
  BY DEF Keep, SaveKept, CopyPlace, IInv, Content, Places, Versions, Journal, Idle, TypeOK, RecoverInv,
      JournalInv, OfferInv, WriterInv, SweepInv, OpInv, GoalInv, StepInv, IsRestored, ClearInv, FilesInv
<1> QED BY <1>1, <1>2, <1>3, <1>4, <1>5 DEF IInv

\* The journal goes when the library is right (clearJournal).
LEMMA ClearKeeps ==
  ASSUME IInv, Clear
  PROVE  IInv'
<1> USE UpdateConstants DEF At, Put, Move, Rename, Shifted, Kind, Original, Current, Previous, Absent,
    Partial, Steps
<1>0. Kind \in {"none", "swap", "inplace", "patch", "rollback", "cleanup"}
  BY DEF IInv, TypeOK, Journal, Kinds
<1>1. /\ job' \in Job /\ job'.op = job.op /\ job'.goal = job.goal /\ job'.next = job.next /\ job'.then = job.then
      /\ At("clear") /\ UNCHANGED <<lib, kept, keptDisk, writer, sweeping>>
      /\ journal' \in Journal /\ dir' \in [Places -> Content]
      /\ \/ /\ journal.retained /\ Kind # "cleanup" /\ dir' = dir /\ job'.pc = "clear"
            /\ journal'.kind = "cleanup" /\ journal'.retained
         \/ /\ Kind # "cleanup" /\ dir' = dir /\ journal' = journal
            /\ job'.pc = IF job.op = "patch" THEN "giveup" ELSE "end"
         \/ /\ Kind = "cleanup" /\ journal' = journal /\ dir' = [dir EXCEPT !["retained"] = Absent]
            /\ job'.pc = "cleared"
         \/ Kind = "cleanup" /\ journal' = journal /\ dir' = dir /\ job'.pc = job.then
         \/ /\ ~journal.retained /\ Kind # "cleanup" /\ dir' = dir /\ journal' = NoJournal
            /\ job'.pc = job.then
  <2>1. {"giveup", "end", "cleared"} \subseteq Steps /\ job.then \in Steps
    BY DEF IInv, TypeOK, Job
  <2>2. ClearFails => /\ job' \in Job /\ job'.op = job.op /\ job'.goal = job.goal /\ job'.next = job.next
                      /\ job'.then = job.then /\ job'.pc = IF job.op = "patch" THEN "giveup" ELSE "end"
    <3> SUFFICES ASSUME ClearFails
                 PROVE  /\ job' \in Job /\ job'.op = job.op /\ job'.goal = job.goal /\ job'.next = job.next
                        /\ job'.then = job.then /\ job'.pc = IF job.op = "patch" THEN "giveup" ELSE "end"
      OBVIOUS
    <3>1. (IF job.op = "patch" THEN "giveup" ELSE "end") \in Steps
      BY <2>1
    <3>2. (job.touched \/ job.then = "merged") \in BOOLEAN
      OBVIOUS
    <3>3. Leaves(IF job.op = "patch" THEN "giveup" ELSE "end", job.touched \/ job.then = "merged")
      BY DEF ClearFails, Leaves
    <3>4. job' \in Job
      BY ZenonT(60), <3>1, <3>2, <3>3, JobLeaves DEF IInv
    <3>5. job'.pc = IF job.op = "patch" THEN "giveup" ELSE "end"
      BY DEF ClearFails, IInv, TypeOK, Job
    <3>6. job'.op = job.op /\ job'.goal = job.goal /\ job'.next = job.next /\ job'.then = job.then
      BY DEF ClearFails, IInv, TypeOK, Job
    <3> QED BY <3>4, <3>5, <3>6
  <2>3. "cleanup" \in Kinds /\ TRUE \in BOOLEAN /\ 0 \in 0 .. MaxVersion
    BY DEF Kinds
  <2>4. CASE journal.retained /\ Kind # "cleanup"
    <3>1. CASE Becomes("cleanup") /\ UNCHANGED job
      BY <2>3, <2>4, <3>1, JournalOthers DEF Clear, IInv, TypeOK
    <3>2. CASE UNCHANGED journal /\ ClearFails
      BY <2>2, <2>4, <3>2 DEF Clear, IInv, TypeOK
    <3> QED BY <2>4, <3>1, <3>2 DEF Clear, Becomes
  <2>5. CASE Kind = "cleanup"
    BY <2>1, <2>5, JobSteps DEF Clear, IInv, TypeOK, Content, Places
  <2>6. CASE ~journal.retained /\ Kind # "cleanup"
    BY <2>1, <2>2, <2>6, JobSteps, NoJournalTyped DEF Clear, IInv, TypeOK
  <2> QED BY <2>4, <2>5, <2>6
<1>2. TypeOK'
  BY <1>1 DEF IInv, TypeOK
<1>3. JournalInv' /\ WriterInv' /\ SweepInv'
  BY <1>0, <1>1, NoJournalTyped DEF IInv, TypeOK, Idle, JournalInv, WriterInv, SweepInv, OpInv, GoalInv,
      StepInv, FilesInv, CopyPlace, Places, Journal, RecoverInv, Versions
<1>4. OpInv' /\ GoalInv' /\ StepInv'
  <2>1. OpInv'
    BY <1>0, <1>1, NoJournalTyped DEF IInv, TypeOK, Idle, Job, OpInv, StepInv
  <2>2. GoalInv'
    BY <1>0, <1>1, NoJournalTyped DEF IInv, TypeOK, Places, Content, Idle, Job, GoalInv, OpInv, StepInv
  <2>3. CASE journal' = journal
    <3>1. CASE job'.pc = "end"
      BY <1>0, <1>1, <2>3, <3>1 DEF IInv, TypeOK, Idle, Job, GoalInv, OpInv, StepInv, ClearInv, CopyPlace
    <3>2. CASE job'.pc = "giveup"
      BY <1>0, <1>1, <2>3, <3>2 DEF IInv, TypeOK, Idle, Job, GoalInv, OpInv, StepInv, ClearInv, CopyPlace
    <3>3. CASE Kind = "cleanup" /\ job'.pc = "cleared"
      BY <1>0, <1>1, <2>3, <3>3 DEF IInv, TypeOK, Places, Content, Idle, Job, GoalInv, OpInv, StepInv,
          ClearInv, CopyPlace
    <3>4. CASE Kind = "cleanup" /\ job'.pc = job.then
      BY <1>0, <1>1, <2>3, <3>4 DEF IInv, TypeOK, Idle, Job, GoalInv, OpInv, StepInv, ClearInv, CopyPlace
    <3> QED BY <1>1, <2>3, <3>1, <3>2, <3>3, <3>4, NoJournalTyped DEF IInv, StepInv
  <2>4. CASE journal' = NoJournal
    BY <1>0, <1>1, <2>4, NoJournalTyped DEF IInv, TypeOK, Idle, Job, GoalInv, OpInv, StepInv, ClearInv,
        JournalInv, CopyPlace
  <2>5. CASE job'.pc = "clear"
    BY <1>0, <1>1, <2>5, NoJournalTyped DEF IInv, TypeOK, Idle, Job, GoalInv, OpInv, StepInv, ClearInv,
        JournalInv, CopyPlace
  <2> QED BY <1>1, <2>1, <2>2, <2>3, <2>4, <2>5
<1>5. RecoverInv' /\ OfferInv'
  BY <1>0, <1>1, NoJournalTyped DEF IInv, TypeOK, Content, Places, Versions, RecoverInv, JournalInv,
      OfferInv, WriterInv, SweepInv, OpInv, GoalInv, StepInv, IsRestored, ClearInv, FilesInv, CopyPlace
<1>6. ClearInv' /\ FilesInv'
  BY <1>0, <1>1, NoJournalTyped DEF IInv, TypeOK, Content, Places, Versions, Job, RecoverInv, JournalInv,
      OfferInv, WriterInv, SweepInv, OpInv, GoalInv, StepInv, IsRestored, ClearInv, FilesInv, CopyPlace
<1> QED BY <1>2, <1>3, <1>4, <1>5, <1>6 DEF IInv

\* ... and what is left of it once the retained copy is gone.
LEMMA ClearedKeeps ==
  ASSUME IInv, Cleared
  PROVE  IInv'
<1> USE UpdateConstants DEF At, Put, Move, Rename, Shifted, Kind, Original, Current, Previous, Absent,
    Partial, Steps
<1>0. Kind \in {"none", "swap", "inplace", "patch", "rollback", "cleanup"}
  BY DEF IInv, TypeOK, Journal, Kinds
<1>1. /\ job' \in Job /\ job'.op = job.op /\ job'.goal = job.goal /\ job'.next = job.next
      /\ job'.then = job.then /\ job'.pc = job.then
      /\ At("cleared") /\ UNCHANGED <<dir, lib, kept, keptDisk, writer, sweeping>>
      /\ journal' = NoJournal \/ journal' = journal
  <2>1. job.then \in Steps
    BY DEF IInv, TypeOK, Job
  <2> QED BY <2>1, JobSteps DEF Cleared, IInv
<1>2. TypeOK'
  BY <1>1, NoJournalTyped DEF IInv, TypeOK
<1>3. JournalInv' /\ WriterInv' /\ SweepInv'
  BY <1>0, <1>1, NoJournalTyped DEF IInv, TypeOK, Idle, JournalInv, WriterInv, SweepInv, OpInv, GoalInv,
      StepInv, FilesInv, CopyPlace, Places, Journal, RecoverInv, Versions
<1>4. OpInv' /\ GoalInv' /\ StepInv'
  BY <1>0, <1>1, NoJournalTyped DEF IInv, TypeOK, Places, Idle, Job, Versions, JournalInv, WriterInv,
      SweepInv, OpInv, GoalInv, StepInv, ClearInv, FilesInv, CopyPlace
<1>5. RecoverInv' /\ OfferInv'
  BY <1>0, <1>1, NoJournalTyped DEF IInv, TypeOK, Content, Places, Versions, RecoverInv, JournalInv,
      OfferInv, WriterInv, SweepInv, OpInv, GoalInv, StepInv, IsRestored, ClearInv, FilesInv, CopyPlace
<1>6. ClearInv' /\ FilesInv'
  BY <1>0, <1>1, NoJournalTyped DEF IInv, TypeOK, Content, Places, Versions, Job, RecoverInv, JournalInv,
      OfferInv, WriterInv, SweepInv, OpInv, GoalInv, StepInv, IsRestored, ClearInv, FilesInv, CopyPlace
<1> QED BY <1>2, <1>3, <1>4, <1>5, <1>6 DEF IInv

\* The copy may not be wanted (settlePrevious).
LEMMA SettleKeeps ==
  ASSUME IInv, Settle
  PROVE  IInv'
<1> USE UpdateConstants, JobSteps DEF At, Put, Shifted, Kind, Original, Current, Previous, Absent,
    Partial, NoJournal, Steps
<1>1. TypeOK'
  BY DEF Settle, SaveKept, CopyPlace, IInv, Content, Places, Versions, Journal, Idle, TypeOK, GoalInv,
      StepInv, RecoverInv, FilesInv, ClearInv
<1>2. JournalInv' /\ WriterInv' /\ SweepInv'
  BY DEF Settle, SaveKept, CopyPlace, IInv, Content, Places, Versions, Journal, Idle, TypeOK, JournalInv,
      WriterInv, SweepInv, OpInv, GoalInv, StepInv, FilesInv
<1>3. OpInv' /\ GoalInv' /\ StepInv'
  BY DEF Settle, SaveKept, CopyPlace, IInv, Content, Places, Versions, Journal, Idle, TypeOK, JournalInv,
      WriterInv, SweepInv, OpInv, GoalInv, StepInv, ClearInv
<1>4. RecoverInv' /\ OfferInv'
  BY DEF Settle, SaveKept, CopyPlace, IInv, Content, Places, Versions, Journal, Idle, TypeOK, RecoverInv,
      JournalInv, OfferInv, WriterInv, SweepInv, OpInv, GoalInv, StepInv, IsRestored, ClearInv, FilesInv
<1>5. ClearInv' /\ FilesInv'
  BY DEF Settle, SaveKept, CopyPlace, IInv, Content, Places, Versions, Journal, Idle, TypeOK, RecoverInv,
      JournalInv, OfferInv, WriterInv, SweepInv, OpInv, GoalInv, StepInv, IsRestored, ClearInv, FilesInv
<1> QED BY <1>1, <1>2, <1>3, <1>4, <1>5 DEF IInv

\* ... and is removed after its record.
LEMMA DropKeeps ==
  ASSUME IInv, Drop
  PROVE  IInv'
<1> USE UpdateConstants, JobSteps DEF At, Put, Shifted, Kind, Original, Current, Previous, Absent,
    Partial, NoJournal, Steps
<1>1. TypeOK'
  BY DEF Drop, CopyPlace, IInv, Content, Places, Versions, Journal, Idle, TypeOK, GoalInv, StepInv,
      RecoverInv, FilesInv, ClearInv
<1>2. JournalInv' /\ WriterInv' /\ SweepInv'
  BY DEF Drop, CopyPlace, IInv, Content, Places, Versions, Journal, Idle, TypeOK, JournalInv, WriterInv,
      SweepInv, OpInv, GoalInv, StepInv, FilesInv
<1>3. OpInv' /\ GoalInv' /\ StepInv'
  BY DEF Drop, CopyPlace, IInv, Content, Places, Versions, Journal, Idle, TypeOK, JournalInv, WriterInv,
      SweepInv, OpInv, GoalInv, StepInv, ClearInv
<1>4. RecoverInv' /\ OfferInv'
  BY DEF Drop, CopyPlace, IInv, Content, Places, Versions, Journal, Idle, TypeOK, RecoverInv, JournalInv,
      OfferInv, WriterInv, SweepInv, OpInv, GoalInv, StepInv, IsRestored, ClearInv, FilesInv
<1>5. ClearInv' /\ FilesInv'
  BY DEF Drop, CopyPlace, IInv, Content, Places, Versions, Journal, Idle, TypeOK, RecoverInv, JournalInv,
      OfferInv, WriterInv, SweepInv, OpInv, GoalInv, StepInv, IsRestored, ClearInv, FilesInv
<1> QED BY <1>1, <1>2, <1>3, <1>4, <1>5 DEF IInv

\* A job ends by removing what it staged (endJob).
LEMMA EndJobKeeps ==
  ASSUME IInv, EndJob
  PROVE  IInv'
<1> USE UpdateConstants DEF At, Put, Move, Rename, Shifted, Kind, Original, Current, Previous, Absent,
    Partial, Steps
<1>0. Kind \in {"none", "swap", "inplace", "patch", "rollback", "cleanup"}
  BY DEF IInv, TypeOK, Journal, Kinds
<1>1. /\ At("end") /\ job' = Idle /\ job' \in Job /\ job'.op = "none" /\ job'.pc = "end"
      /\ dir' \in [Places -> Content] /\ \A p \in Places \ {"staging"} : dir'[p] = dir[p]
      /\ UNCHANGED <<lib, kept, keptDisk, journal, writer, sweeping>>
  <2>1. 0 \in 0 .. MaxVersion
    OBVIOUS
  <2>2. Idle \in Job /\ Idle.op = "none" /\ Idle.pc = "end"
    BY <2>1 DEF Idle, Job
  <2> QED BY <2>2 DEF EndJob, IInv, TypeOK, Places, Content
<1>2. TypeOK'
  BY <1>1 DEF IInv, TypeOK
<1>3. JournalInv' /\ WriterInv' /\ SweepInv'
  BY <1>0, <1>1 DEF IInv, TypeOK, Idle, JournalInv, WriterInv, SweepInv, OpInv, GoalInv, StepInv,
      FilesInv, CopyPlace, Places, Journal, RecoverInv, Versions
<1>4. OpInv' /\ GoalInv' /\ StepInv'
  BY <1>0, <1>1 DEF IInv, TypeOK, Places, Idle, Job, Versions, JournalInv, WriterInv, SweepInv, OpInv,
      GoalInv, StepInv, ClearInv, FilesInv, CopyPlace
<1>5. RecoverInv' /\ OfferInv'
  BY <1>0, <1>1 DEF IInv, TypeOK, Content, Places, Versions, RecoverInv, JournalInv, OfferInv, WriterInv,
      SweepInv, OpInv, GoalInv, StepInv, IsRestored, ClearInv, FilesInv, CopyPlace
<1>6. ClearInv' /\ FilesInv'
  BY <1>0, <1>1 DEF IInv, TypeOK, Content, Places, Versions, Job, RecoverInv, JournalInv, OfferInv,
      WriterInv, SweepInv, OpInv, GoalInv, StepInv, IsRestored, ClearInv, FilesInv, CopyPlace
<1> QED BY <1>2, <1>3, <1>4, <1>5, <1>6 DEF IInv

-----------------------------------------------------------------------------
(* applyFullRelease and swapDirectories *)

\* A retained copy of an older build is reserved before it goes (applyFullRelease).
LEMMA LookKeeps ==
  ASSUME IInv, Look
  PROVE  IInv'
<1> USE UpdateConstants DEF At, Put, Move, Rename, Shifted, Kind, Original, Current, Previous, Absent,
    Partial, Steps
<1>0. Kind \in {"none", "swap", "inplace", "patch", "rollback", "cleanup"}
  BY DEF IInv, TypeOK, Journal, Kinds
<1>1. /\ job' \in Job /\ job'.op = job.op /\ job'.goal = job.goal /\ job'.next = job.next
      /\ At("look") /\ UNCHANGED <<dir, lib, kept, keptDisk, writer, sweeping>>
      /\ journal' \in Journal
      /\ \/ /\ Kind = "none" /\ journal'.kind = "cleanup" /\ journal'.retained
            /\ job'.pc = "clear" /\ job'.then = "journal"
         \/ journal' = journal /\ job'.pc = "end"
         \/ /\ dir["previous"] = Absent \/ dir["retained"] = Absent
            /\ journal' = journal /\ job'.pc = "journal"
  <2>1. "cleanup" \in Kinds /\ TRUE \in BOOLEAN /\ 0 \in 0 .. MaxVersion
    BY DEF Kinds
  <2>2. CASE Reserves("cleanup", TRUE) /\ Kind = "none" /\ Clearing("journal")
    BY <2>1, <2>2, JournalOthers, JobSteps DEF Look, IInv
  <2>3. CASE ~(Reserves("cleanup", TRUE) /\ Kind = "none" /\ Clearing("journal"))
    BY <2>3, JobSteps DEF Look, IInv, TypeOK, Reserves
  <2> QED BY <2>2, <2>3
<1>2. TypeOK'
  BY <1>1 DEF IInv, TypeOK
<1>3. JournalInv' /\ WriterInv' /\ SweepInv'
  BY <1>0, <1>1 DEF IInv, TypeOK, Idle, JournalInv, WriterInv, SweepInv, OpInv, GoalInv, StepInv,
      FilesInv, CopyPlace, Places, Journal, RecoverInv, Versions
<1>4. OpInv' /\ GoalInv' /\ StepInv'
  BY <1>0, <1>1 DEF IInv, TypeOK, Places, Idle, Job, Versions, JournalInv, WriterInv, SweepInv, OpInv,
      GoalInv, StepInv, ClearInv, FilesInv, CopyPlace
<1>5. RecoverInv' /\ OfferInv'
  BY <1>0, <1>1 DEF IInv, TypeOK, Content, Places, Versions, RecoverInv, JournalInv, OfferInv, WriterInv,
      SweepInv, OpInv, GoalInv, StepInv, IsRestored, ClearInv, FilesInv, CopyPlace
<1>6. ClearInv' /\ FilesInv'
  BY <1>0, <1>1 DEF IInv, TypeOK, Content, Places, Versions, Job, RecoverInv, JournalInv, OfferInv,
      WriterInv, SweepInv, OpInv, GoalInv, StepInv, IsRestored, ClearInv, FilesInv, CopyPlace
<1> QED BY <1>2, <1>3, <1>4, <1>5, <1>6 DEF IInv

\* The swap is journalled before the first rename (swapDirectories).
LEMMA JournalSwapKeeps ==
  ASSUME IInv, JournalSwap
  PROVE  IInv'
<1> USE UpdateConstants DEF At, Put, Move, Rename, Shifted, Kind, Original, Current, Previous, Absent,
    Partial, Steps
<1>0. Kind \in {"none", "swap", "inplace", "patch", "rollback", "cleanup"}
  BY DEF IInv, TypeOK, Journal, Kinds
<1>1. /\ job' \in Job /\ job'.op = job.op /\ job'.goal = job.goal /\ job'.next = job.next
      /\ At("journal") /\ UNCHANGED <<dir, lib, kept, keptDisk, writer, sweeping>>
      /\ journal' \in Journal
      /\ \/ /\ Kind = "none" /\ journal'.kind = "swap" /\ journal'.place = "previous" /\ journal'.original = lib
            /\ journal'.rollback = kept /\ (journal'.retained <=> Previous # Absent)
            /\ \/ Previous # Absent /\ job'.pc = "retain"
               \/ Previous = Absent /\ job'.pc = "aside"
         \/ job'.pc = "end" /\ journal' = journal
  BY JournalSwapWrites DEF IInv
<1>2. TypeOK'
  BY <1>1 DEF IInv, TypeOK
<1>3. JournalInv' /\ WriterInv' /\ SweepInv'
  BY <1>0, <1>1 DEF IInv, TypeOK, Idle, JournalInv, WriterInv, SweepInv, OpInv, GoalInv, StepInv,
      FilesInv, CopyPlace, Places, Journal, RecoverInv, Versions
<1>4. OpInv' /\ GoalInv' /\ StepInv'
  BY <1>0, <1>1 DEF IInv, TypeOK, Places, Idle, Job, Versions, JournalInv, WriterInv, SweepInv, OpInv,
      GoalInv, StepInv, ClearInv, FilesInv, CopyPlace
<1>5. RecoverInv' /\ OfferInv'
  BY <1>0, <1>1 DEF IInv, TypeOK, Content, Places, Versions, RecoverInv, JournalInv, OfferInv, WriterInv,
      SweepInv, OpInv, GoalInv, StepInv, IsRestored, ClearInv, FilesInv, CopyPlace
<1>6. ClearInv' /\ FilesInv'
  BY <1>0, <1>1 DEF IInv, TypeOK, Content, Places, Versions, Job, RecoverInv, JournalInv, OfferInv,
      WriterInv, SweepInv, OpInv, GoalInv, StepInv, IsRestored, ClearInv, FilesInv, CopyPlace
<1> QED BY <1>2, <1>3, <1>4, <1>5, <1>6 DEF IInv

\* The previous copy is moved out of the way,
LEMMA RetainKeeps ==
  ASSUME IInv, Retain
  PROVE  IInv'
<1> USE UpdateConstants DEF Put, Shifted, Kind, Original, Current, Previous, Absent, Partial
<1>0. Kind \in {"none", "swap", "inplace", "patch", "rollback", "cleanup"}
  BY DEF IInv, TypeOK, Journal, Kinds
<1>1. /\ At("retain") /\ UNCHANGED <<lib, kept, keptDisk, journal, writer, sweeping>>
      /\ job' \in Job /\ job'.op = job.op /\ job'.goal = job.goal /\ job'.next = job.next
      /\ dir' \in [Places -> Content]
      /\ \/ /\ job'.pc = "aside" /\ dir["previous"] # Absent /\ dir["retained"] = Absent
            /\ dir'["previous"] = Absent /\ dir'["retained"] = dir["previous"]
            /\ \A p \in Places \ {"previous", "retained"} : dir'[p] = dir[p]
         \/ job'.pc = "restore" /\ dir' = dir
  <2>1. {"retain", "aside", "restore"} \subseteq Steps /\ {"previous", "retained"} \subseteq Places
    BY DEF Steps, Places
  <2>2. Move("retain", "previous", "retained", "aside", "restore")
    BY DEF Retain
  <2>3. TypeOK
    BY DEF IInv
  <2> QED BY <2>1, <2>2, <2>3, MoveSteps
<1>2. TypeOK'
  BY <1>1 DEF IInv, TypeOK
<1>3. JournalInv' /\ WriterInv' /\ SweepInv'
  BY <1>0, <1>1 DEF IInv, At, TypeOK, Idle, JournalInv, WriterInv, SweepInv, OpInv, GoalInv, StepInv,
      FilesInv, CopyPlace, Places, Journal, RecoverInv, Versions
<1>4. OpInv' /\ GoalInv' /\ StepInv'
  BY <1>0, <1>1 DEF IInv, At, TypeOK, Places, Idle, Job, Versions, JournalInv, WriterInv, SweepInv,
      OpInv, GoalInv, StepInv, ClearInv, FilesInv, CopyPlace
<1>5. RecoverInv' /\ OfferInv'
  BY <1>0, <1>1 DEF IInv, At, TypeOK, Content, Places, Versions, RecoverInv, JournalInv, OfferInv,
      WriterInv, SweepInv, OpInv, GoalInv, StepInv, IsRestored, ClearInv, FilesInv, CopyPlace
<1>6. ClearInv' /\ FilesInv'
  BY <1>0, <1>1 DEF IInv, At, TypeOK, Content, Places, Versions, Job, RecoverInv, JournalInv, OfferInv,
      WriterInv, SweepInv, OpInv, GoalInv, StepInv, IsRestored, ClearInv, FilesInv, CopyPlace
<1> QED BY <1>2, <1>3, <1>4, <1>5, <1>6 DEF IInv

\* the installation takes its place,
LEMMA AsideKeeps ==
  ASSUME IInv, Aside
  PROVE  IInv'
<1> USE UpdateConstants DEF Put, Shifted, Kind, Original, Current, Previous, Absent, Partial
<1>0. Kind \in {"none", "swap", "inplace", "patch", "rollback", "cleanup"}
  BY DEF IInv, TypeOK, Journal, Kinds
<1>1. /\ At("aside") /\ UNCHANGED <<lib, kept, keptDisk, journal, writer, sweeping>>
      /\ job' \in Job /\ job'.op = job.op /\ job'.goal = job.goal /\ job'.next = job.next
      /\ dir' \in [Places -> Content]
      /\ \/ /\ job'.pc = "install" /\ dir["current"] # Absent /\ dir["previous"] = Absent
            /\ dir'["current"] = Absent /\ dir'["previous"] = dir["current"]
            /\ \A p \in Places \ {"current", "previous"} : dir'[p] = dir[p]
         \/ job'.pc = "restore" /\ dir' = dir
         \/ job'.pc = "install" /\ dir' = dir /\ Previous = Original /\ Previous # Absent
  <2>1. {"aside", "install", "restore"} \subseteq Steps /\ {"current", "previous"} \subseteq Places
    BY DEF Steps, Places
  <2>2. TypeOK
    BY DEF IInv
  <2>3. CASE Move("aside", "current", "previous", "install", "restore")
    BY <2>1, <2>2, <2>3, MoveSteps
  <2>4. CASE ~Move("aside", "current", "previous", "install", "restore")
    <3>1. /\ At("aside") /\ Current = Absent /\ Goto("install")
          /\ UNCHANGED <<dir, lib, kept, keptDisk, journal, writer, sweeping>>
      BY <2>4 DEF Aside
    <3>2. Kind = "swap" /\ journal.place = "previous" /\ (journal.retained => Shifted)
      BY <3>1 DEF IInv, At, StepInv, JournalInv, FilesInv
    <3>3. Previous = Original /\ Previous # Absent
      BY <3>1, <3>2 DEF IInv, RecoverInv, Versions
    <3> QED BY <2>1, <2>2, <3>1, <3>3, JobSteps DEF TypeOK
  <2> QED BY <2>3, <2>4
<1>2. TypeOK'
  BY <1>1 DEF IInv, TypeOK
<1>3. JournalInv' /\ WriterInv' /\ SweepInv'
  BY <1>0, <1>1 DEF IInv, At, TypeOK, Idle, JournalInv, WriterInv, SweepInv, OpInv, GoalInv, StepInv,
      FilesInv, CopyPlace, Places, Journal, RecoverInv, Versions
<1>4. OpInv' /\ GoalInv' /\ StepInv'
  BY <1>0, <1>1 DEF IInv, At, TypeOK, Places, Idle, Job, Versions, JournalInv, WriterInv, SweepInv,
      OpInv, GoalInv, StepInv, ClearInv, FilesInv, CopyPlace
<1>5. RecoverInv' /\ OfferInv'
  BY <1>0, <1>1 DEF IInv, At, TypeOK, Content, Places, Versions, RecoverInv, JournalInv, OfferInv,
      WriterInv, SweepInv, OpInv, GoalInv, StepInv, IsRestored, ClearInv, FilesInv, CopyPlace
<1>6. ClearInv' /\ FilesInv'
  BY <1>0, <1>1 DEF IInv, At, TypeOK, Content, Places, Versions, Job, RecoverInv, JournalInv, OfferInv,
      WriterInv, SweepInv, OpInv, GoalInv, StepInv, IsRestored, ClearInv, FilesInv, CopyPlace
<1> QED BY <1>2, <1>3, <1>4, <1>5, <1>6 DEF IInv

\* and the new files that of the installation.
LEMMA InstallKeeps ==
  ASSUME IInv, Install
  PROVE  IInv'
<1> USE UpdateConstants DEF Put, Shifted, Kind, Original, Current, Previous, Absent, Partial
<1>0. Kind \in {"none", "swap", "inplace", "patch", "rollback", "cleanup"}
  BY DEF IInv, TypeOK, Journal, Kinds
<1>1. /\ At("install") /\ UNCHANGED <<lib, kept, keptDisk, journal, writer, sweeping>>
      /\ job' \in Job /\ job'.op = job.op /\ job'.goal = job.goal /\ job'.next = job.next
      /\ dir' \in [Places -> Content]
      /\ \/ /\ job'.pc = "resolve" /\ dir["staging"] # Absent /\ dir["current"] = Absent
            /\ dir'["staging"] = Absent /\ dir'["current"] = dir["staging"]
            /\ \A p \in Places \ {"staging", "current"} : dir'[p] = dir[p]
         \/ job'.pc = "restore" /\ dir' = dir
  <2>1. {"install", "resolve", "restore"} \subseteq Steps /\ {"staging", "current"} \subseteq Places
    BY DEF Steps, Places
  <2>2. Move("install", "staging", "current", "resolve", "restore")
    BY DEF Install
  <2>3. TypeOK
    BY DEF IInv
  <2> QED BY <2>1, <2>2, <2>3, MoveSteps
<1>2. TypeOK'
  BY <1>1 DEF IInv, TypeOK
<1>3. JournalInv' /\ WriterInv' /\ SweepInv'
  BY <1>0, <1>1 DEF IInv, At, TypeOK, Idle, JournalInv, WriterInv, SweepInv, OpInv, GoalInv, StepInv,
      FilesInv, CopyPlace, Places, Journal, RecoverInv, Versions
<1>4. OpInv' /\ GoalInv' /\ StepInv'
  BY <1>0, <1>1 DEF IInv, At, TypeOK, Places, Idle, Job, Versions, JournalInv, WriterInv, SweepInv,
      OpInv, GoalInv, StepInv, ClearInv, FilesInv, CopyPlace
<1>5. RecoverInv' /\ OfferInv'
  BY <1>0, <1>1 DEF IInv, At, TypeOK, Content, Places, Versions, RecoverInv, JournalInv, OfferInv,
      WriterInv, SweepInv, OpInv, GoalInv, StepInv, IsRestored, ClearInv, FilesInv, CopyPlace
<1>6. ClearInv' /\ FilesInv'
  BY <1>0, <1>1 DEF IInv, At, TypeOK, Content, Places, Versions, Job, RecoverInv, JournalInv, OfferInv,
      WriterInv, SweepInv, OpInv, GoalInv, StepInv, IsRestored, ClearInv, FilesInv, CopyPlace
<1> QED BY <1>2, <1>3, <1>4, <1>5, <1>6 DEF IInv

\* Carrying saves over decides nothing (carryOverExtras).
LEMMA CarryOverKeeps ==
  ASSUME IInv, CarryOver
  PROVE  IInv'
<1> USE UpdateConstants DEF Put, Shifted, Kind, Original, Current, Previous, Absent, Partial
<1>0. Kind \in {"none", "swap", "inplace", "patch", "rollback", "cleanup"}
  BY DEF IInv, TypeOK, Journal, Kinds
<1>1. /\ At("carry") /\ UNCHANGED <<dir, lib, kept, keptDisk, journal, writer, sweeping>>
      /\ job' \in Job /\ job'.op = job.op /\ job'.goal = job.goal /\ job'.next = job.next
      /\ job'.pc \in {"register", "end"}
  BY JobSteps DEF CarryOver, Steps, IInv
<1>2. TypeOK'
  BY <1>1 DEF IInv, TypeOK
<1>3. JournalInv' /\ WriterInv' /\ SweepInv'
  BY <1>0, <1>1 DEF IInv, At, TypeOK, Idle, JournalInv, WriterInv, SweepInv, OpInv, GoalInv, StepInv,
      FilesInv, CopyPlace, Places, Journal, RecoverInv, Versions
<1>4. OpInv' /\ GoalInv' /\ StepInv'
  BY <1>0, <1>1 DEF IInv, At, TypeOK, Places, Idle, Job, Versions, JournalInv, WriterInv, SweepInv,
      OpInv, GoalInv, StepInv, ClearInv, FilesInv, CopyPlace
<1>5. RecoverInv' /\ OfferInv'
  BY <1>0, <1>1 DEF IInv, At, TypeOK, Content, Places, Versions, RecoverInv, JournalInv, OfferInv,
      WriterInv, SweepInv, OpInv, GoalInv, StepInv, IsRestored, ClearInv, FilesInv, CopyPlace
<1>6. ClearInv' /\ FilesInv'
  BY SMTT(30), <1>0, <1>1 DEF IInv, At, TypeOK, Content, Places, Versions, Job, RecoverInv, JournalInv, OfferInv,
      WriterInv, SweepInv, OpInv, GoalInv, StepInv, IsRestored, ClearInv, FilesInv, CopyPlace
<1> QED BY <1>2, <1>3, <1>4, <1>5, <1>6 DEF IInv

-----------------------------------------------------------------------------
(* applyTorrentReuse and repair *)

\* The download is started over a journal (AddTask).
LEMMA WriteKeeps ==
  ASSUME IInv, Write
  PROVE  IInv'
<1> USE UpdateConstants DEF Put, Shifted, Kind, Original, Current, Previous, Absent, Partial
<1>0. Kind \in {"none", "swap", "inplace", "patch", "rollback", "cleanup"}
  BY DEF IInv, TypeOK, Journal, Kinds
<1>1. /\ At("write") /\ UNCHANGED <<dir, lib, kept, keptDisk, journal, sweeping>>
      /\ job' \in Job /\ job'.op = job.op /\ job'.goal = job.goal /\ job'.next = job.next
      /\ \/ writer' = job.goal /\ job'.pc = "writing"
         \/ writer' = writer /\ job'.pc = "restore"
      /\ job.goal \in Versions
  BY SMTT(60), JobSteps DEF Write, At, Steps, IInv, TypeOK, GoalInv, OpInv, Job, Versions
<1>2. TypeOK'
  BY <1>1 DEF IInv, TypeOK, Versions
<1>3. JournalInv' /\ WriterInv' /\ SweepInv'
  BY <1>0, <1>1 DEF IInv, At, TypeOK, Idle, JournalInv, WriterInv, SweepInv, OpInv, GoalInv, StepInv,
      FilesInv, CopyPlace, Places, Journal, RecoverInv, Versions
<1>4. OpInv' /\ GoalInv' /\ StepInv'
  BY <1>0, <1>1 DEF IInv, At, TypeOK, Places, Idle, Job, Versions, JournalInv, WriterInv, SweepInv,
      OpInv, GoalInv, StepInv, ClearInv, FilesInv, CopyPlace
<1>5. RecoverInv' /\ OfferInv'
  BY <1>0, <1>1 DEF IInv, At, TypeOK, Content, Places, Versions, RecoverInv, JournalInv, OfferInv,
      WriterInv, SweepInv, OpInv, GoalInv, StepInv, IsRestored, ClearInv, FilesInv, CopyPlace
<1>6. ClearInv' /\ FilesInv'
  BY <1>0, <1>1 DEF IInv, At, TypeOK, Content, Places, Versions, Job, RecoverInv, JournalInv, OfferInv,
      WriterInv, SweepInv, OpInv, GoalInv, StepInv, IsRestored, ClearInv, FilesInv, CopyPlace
<1> QED BY <1>2, <1>3, <1>4, <1>5, <1>6 DEF IInv

\* It is waited for (waitDownload),
LEMMA WritingKeeps ==
  ASSUME IInv, Writing
  PROVE  IInv'
<1> USE UpdateConstants, JobSteps DEF At, Put, Shifted, Kind, Original, Current, Previous, Absent,
    Partial, NoJournal, Steps
<1>1. TypeOK'
  BY DEF Writing, CopyPlace, IInv, Content, Places, Versions, Journal, Idle, TypeOK, GoalInv, StepInv,
      RecoverInv, FilesInv, ClearInv
<1>2. JournalInv' /\ WriterInv' /\ SweepInv'
  BY DEF Writing, CopyPlace, IInv, Content, Places, Versions, Journal, Idle, TypeOK, JournalInv,
      WriterInv, SweepInv, OpInv, GoalInv, StepInv, FilesInv
<1>3. OpInv' /\ GoalInv' /\ StepInv'
  BY DEF Writing, CopyPlace, IInv, Content, Places, Versions, Journal, Idle, TypeOK, JournalInv,
      WriterInv, SweepInv, OpInv, GoalInv, StepInv, ClearInv
<1>4. RecoverInv' /\ OfferInv'
  BY DEF Writing, CopyPlace, IInv, Content, Places, Versions, Journal, Idle, TypeOK, RecoverInv,
      JournalInv, OfferInv, WriterInv, SweepInv, OpInv, GoalInv, StepInv, IsRestored, ClearInv, FilesInv
<1>5. ClearInv' /\ FilesInv'
  BY SMTT(60) DEF Writing, CopyPlace, IInv, Content, Places, Versions, Journal, Idle, TypeOK, RecoverInv,
      JournalInv, OfferInv, WriterInv, SweepInv, OpInv, GoalInv, StepInv, IsRestored, ClearInv, FilesInv
<1> QED BY <1>1, <1>2, <1>3, <1>4, <1>5 DEF IInv

\* or stopped before anything is put back (stopRepairDownload).
LEMMA StopKeeps ==
  ASSUME IInv, Stop
  PROVE  IInv'
<1> USE UpdateConstants, JobSteps DEF At, Put, Shifted, Kind, Original, Current, Previous, Absent,
    Partial, NoJournal, Steps
<1>1. TypeOK'
  BY DEF Stop, CopyPlace, IInv, Content, Places, Versions, Journal, Idle, TypeOK, GoalInv, StepInv,
      RecoverInv, FilesInv, ClearInv
<1>2. JournalInv' /\ WriterInv' /\ SweepInv'
  BY DEF Stop, CopyPlace, IInv, Content, Places, Versions, Journal, Idle, TypeOK, JournalInv, WriterInv,
      SweepInv, OpInv, GoalInv, StepInv, FilesInv
<1>3. OpInv' /\ GoalInv' /\ StepInv'
  BY DEF Stop, CopyPlace, IInv, Content, Places, Versions, Journal, Idle, TypeOK, JournalInv, WriterInv,
      SweepInv, OpInv, GoalInv, StepInv, ClearInv
<1>4. RecoverInv' /\ OfferInv'
  BY DEF Stop, CopyPlace, IInv, Content, Places, Versions, Journal, Idle, TypeOK, RecoverInv, JournalInv,
      OfferInv, WriterInv, SweepInv, OpInv, GoalInv, StepInv, IsRestored, ClearInv, FilesInv
<1>5. ClearInv' /\ FilesInv'
  BY SMTT(60) DEF Stop, CopyPlace, IInv, Content, Places, Versions, Journal, Idle, TypeOK, RecoverInv, JournalInv,
      OfferInv, WriterInv, SweepInv, OpInv, GoalInv, StepInv, IsRestored, ClearInv, FilesInv
<1> QED BY <1>1, <1>2, <1>3, <1>4, <1>5 DEF IInv

\* The copy that was set aside is not needed any more.
LEMMA DiscardKeeps ==
  ASSUME IInv, Discard
  PROVE  IInv'
<1> USE UpdateConstants, JobSteps DEF At, Put, Shifted, Kind, Original, Current, Previous, Absent,
    Partial, NoJournal, Steps
<1>1. TypeOK'
  BY SMTT(60) DEF Discard, CopyPlace, IInv, Content, Places, Versions, Journal, Idle, TypeOK, GoalInv, StepInv,
      RecoverInv, FilesInv, ClearInv
<1>2. JournalInv' /\ WriterInv' /\ SweepInv'
  BY SMTT(60) DEF Discard, CopyPlace, IInv, Content, Places, Versions, Journal, Idle, TypeOK, JournalInv,
      WriterInv, SweepInv, OpInv, GoalInv, StepInv, FilesInv
<1>3. OpInv' /\ GoalInv' /\ StepInv'
  BY SMTT(60) DEF Discard, CopyPlace, IInv, Content, Places, Versions, Journal, Idle, TypeOK, JournalInv,
      WriterInv, SweepInv, OpInv, GoalInv, StepInv, ClearInv
<1>4. RecoverInv' /\ OfferInv'
  BY DEF Discard, CopyPlace, IInv, Content, Places, Versions, Journal, Idle, TypeOK, RecoverInv,
      JournalInv, OfferInv, WriterInv, SweepInv, OpInv, GoalInv, StepInv, IsRestored, ClearInv, FilesInv
<1>5. ClearInv' /\ FilesInv'
  BY SMTT(60) DEF Discard, CopyPlace, IInv, Content, Places, Versions, Journal, Idle, TypeOK, RecoverInv,
      JournalInv, OfferInv, WriterInv, SweepInv, OpInv, GoalInv, StepInv, IsRestored, ClearInv, FilesInv
<1> QED BY <1>1, <1>2, <1>3, <1>4, <1>5 DEF IInv

-----------------------------------------------------------------------------
(* runPatchChain *)

\* The backup of a merge begins empty,
LEMMA CleanKeeps ==
  ASSUME IInv, Clean
  PROVE  IInv'
<1> USE UpdateConstants, JobSteps DEF At, Put, Shifted, Kind, Original, Current, Previous, Absent,
    Partial, NoJournal, Steps
<1>1. TypeOK'
  BY SMTT(60) DEF Clean, CopyPlace, IInv, Content, Places, Versions, Journal, Idle, TypeOK, GoalInv, StepInv,
      RecoverInv, FilesInv, ClearInv
<1>2. JournalInv' /\ WriterInv' /\ SweepInv'
  BY SMTT(60) DEF Clean, CopyPlace, IInv, Content, Places, Versions, Journal, Idle, TypeOK, JournalInv, WriterInv,
      SweepInv, OpInv, GoalInv, StepInv, FilesInv
<1>3. OpInv' /\ GoalInv' /\ StepInv'
  BY SMTT(60) DEF Clean, CopyPlace, IInv, Content, Places, Versions, Journal, Idle, TypeOK, JournalInv, WriterInv,
      SweepInv, OpInv, GoalInv, StepInv, ClearInv
<1>4. RecoverInv' /\ OfferInv'
  BY DEF Clean, CopyPlace, IInv, Content, Places, Versions, Journal, Idle, TypeOK, RecoverInv,
      JournalInv, OfferInv, WriterInv, SweepInv, OpInv, GoalInv, StepInv, IsRestored, ClearInv, FilesInv
<1>5. ClearInv' /\ FilesInv'
  BY SMTT(60) DEF Clean, CopyPlace, IInv, Content, Places, Versions, Journal, Idle, TypeOK, RecoverInv,
      JournalInv, OfferInv, WriterInv, SweepInv, OpInv, GoalInv, StepInv, IsRestored, ClearInv, FilesInv
<1> QED BY <1>1, <1>2, <1>3, <1>4, <1>5 DEF IInv

\* takes what the patch replaces (MergeDirWithBackup),
LEMMA MergeKeeps ==
  ASSUME IInv, Merge
  PROVE  IInv'
<1> USE UpdateConstants, JobSteps DEF At, Put, Shifted, Kind, Original, Current, Previous, Absent,
    Partial, NoJournal, Steps
<1>1. TypeOK'
  BY SMTT(60) DEF Merge, CopyPlace, IInv, Content, Places, Versions, Journal, Idle, TypeOK, GoalInv, StepInv,
      RecoverInv, FilesInv, ClearInv
<1>2. JournalInv' /\ WriterInv' /\ SweepInv'
  BY DEF Merge, CopyPlace, IInv, Content, Places, Versions, Journal, Idle, TypeOK, JournalInv, WriterInv,
      SweepInv, OpInv, GoalInv, StepInv, FilesInv
<1>3. OpInv' /\ GoalInv' /\ StepInv'
  BY SMTT(60) DEF Merge, CopyPlace, IInv, Content, Places, Versions, Journal, Idle, TypeOK, JournalInv, WriterInv,
      SweepInv, OpInv, GoalInv, StepInv, ClearInv
<1>4. RecoverInv' /\ OfferInv'
  BY SMTT(60) DEF Merge, CopyPlace, IInv, Content, Places, Versions, Journal, Idle, TypeOK, RecoverInv,
      JournalInv, OfferInv, WriterInv, SweepInv, OpInv, GoalInv, StepInv, IsRestored, ClearInv, FilesInv
<1>5. ClearInv' /\ FilesInv'
  BY SMTT(60) DEF Merge, CopyPlace, IInv, Content, Places, Versions, Journal, Idle, TypeOK, RecoverInv,
      JournalInv, OfferInv, WriterInv, SweepInv, OpInv, GoalInv, StepInv, IsRestored, ClearInv, FilesInv
<1> QED BY <1>1, <1>2, <1>3, <1>4, <1>5 DEF IInv

\* before the patch is in place.
LEMMA MergingKeeps ==
  ASSUME IInv, Merging
  PROVE  IInv'
<1> USE UpdateConstants DEF At, Put, Move, Rename, Shifted, Kind, Original, Current, Previous, Absent,
    Partial, Steps
<1>0. Kind \in {"none", "swap", "inplace", "patch", "rollback", "cleanup"}
  BY DEF IInv, TypeOK, Journal, Kinds
<1>1. /\ job' \in Job /\ job'.op = job.op /\ job'.goal = job.goal /\ job'.next = job.next
      /\ At("merging") /\ UNCHANGED <<lib, kept, keptDisk, journal, writer, sweeping>>
      /\ dir' \in [Places -> Content]
      /\ \/ dir' = [dir EXCEPT !["current"] = job.next + 1, !["staging"] = Absent] /\ job'.pc = "resolve"
         \/ dir' = dir /\ job'.pc = "unmerge"
  <2>1. job.next + 1 \in Versions
    BY DEF Merging, IInv, TypeOK, Versions, Job, GoalInv, OpInv
  <2> QED BY <2>1, JobSteps DEF Merging, IInv, TypeOK, Content, Places
<1>2. TypeOK'
  BY <1>1 DEF IInv, TypeOK
<1>3. JournalInv' /\ WriterInv' /\ SweepInv'
  BY <1>0, <1>1 DEF IInv, TypeOK, Idle, JournalInv, WriterInv, SweepInv, OpInv, GoalInv, StepInv,
      FilesInv, CopyPlace, Places, Journal, RecoverInv, Versions
<1>4. OpInv' /\ GoalInv' /\ StepInv'
  BY <1>0, <1>1 DEF IInv, TypeOK, Places, Idle, Job, Versions, JournalInv, WriterInv, SweepInv, OpInv,
      GoalInv, StepInv, ClearInv, FilesInv, CopyPlace
<1>5. RecoverInv' /\ OfferInv'
  BY <1>0, <1>1 DEF IInv, TypeOK, Content, Places, Versions, RecoverInv, JournalInv, OfferInv, WriterInv,
      SweepInv, OpInv, GoalInv, StepInv, IsRestored, ClearInv, FilesInv, CopyPlace
<1>6. ClearInv' /\ FilesInv'
  BY <1>0, <1>1 DEF IInv, TypeOK, Content, Places, Versions, Job, RecoverInv, JournalInv, OfferInv,
      WriterInv, SweepInv, OpInv, GoalInv, StepInv, IsRestored, ClearInv, FilesInv, CopyPlace
<1> QED BY <1>2, <1>3, <1>4, <1>5, <1>6 DEF IInv

\* It is put back file by file (RestoreMergeBackup),
LEMMA UnmergeKeeps ==
  ASSUME IInv, Unmerge
  PROVE  IInv'
<1> USE UpdateConstants, JobSteps DEF At, Put, Shifted, Kind, Original, Current, Previous, Absent,
    Partial, NoJournal, Steps
<1>1. TypeOK'
  BY DEF Unmerge, CopyPlace, IInv, Content, Places, Versions, Journal, Idle, TypeOK, GoalInv, StepInv,
      RecoverInv, FilesInv, ClearInv
<1>2. JournalInv' /\ WriterInv' /\ SweepInv'
  BY DEF Unmerge, CopyPlace, IInv, Content, Places, Versions, Journal, Idle, TypeOK, JournalInv,
      WriterInv, SweepInv, OpInv, GoalInv, StepInv, FilesInv
<1>3. OpInv' /\ GoalInv' /\ StepInv'
  BY SMTT(60) DEF Unmerge, CopyPlace, IInv, Content, Places, Versions, Journal, Idle, TypeOK, JournalInv,
      WriterInv, SweepInv, OpInv, GoalInv, StepInv, ClearInv
<1>4. RecoverInv' /\ OfferInv'
  BY SMTT(60) DEF Unmerge, CopyPlace, IInv, Content, Places, Versions, Journal, Idle, TypeOK, RecoverInv,
      JournalInv, OfferInv, WriterInv, SweepInv, OpInv, GoalInv, StepInv, IsRestored, ClearInv, FilesInv
<1>5. ClearInv' /\ FilesInv'
  BY SMTT(60) DEF Unmerge, CopyPlace, IInv, Content, Places, Versions, Journal, Idle, TypeOK, RecoverInv,
      JournalInv, OfferInv, WriterInv, SweepInv, OpInv, GoalInv, StepInv, IsRestored, ClearInv, FilesInv
<1> QED BY <1>1, <1>2, <1>3, <1>4, <1>5 DEF IInv

\* until the installation is whole again.
LEMMA UnmergingKeeps ==
  ASSUME IInv, Unmerging
  PROVE  IInv'
<1> USE UpdateConstants DEF At, Put, Move, Rename, Shifted, Kind, Original, Current, Previous, Absent,
    Partial, Steps
<1>0. Kind \in {"none", "swap", "inplace", "patch", "rollback", "cleanup"}
  BY DEF IInv, TypeOK, Journal, Kinds
<1>1. /\ job' \in Job /\ job'.op = job.op /\ job'.goal = job.goal /\ job'.next = job.next
      /\ At("unmerging") /\ UNCHANGED <<lib, kept, keptDisk, journal, writer, sweeping>>
      /\ \/ /\ \/ dir["backup"] = Absent /\ dir' = dir
               \/ /\ dir["backup"] # Absent
                  /\ dir' = [dir EXCEPT !["current"] = dir["backup"], !["backup"] = Absent]
            /\ \/ job.op = "recover" /\ job'.pc = "relib"
               \/ job.op # "recover" /\ job'.pc = "clear" /\ job'.then = "giveup"
         \/ dir' = dir /\ job'.pc = Broken
  <2>1. CASE UNCHANGED dir /\ Leaves(Broken, TRUE)
    BY ZenonT(30), <2>1, JobLeaves DEF Unmerging, IInv, Broken
  <2>2. CASE /\ IF dir["backup"] = Absent
                  THEN UNCHANGED dir
                  ELSE dir' = [dir EXCEPT !["current"] = dir["backup"], !["backup"] = Absent]
             /\ IF job.op = "recover" THEN Goto("relib") ELSE Clearing("giveup")
    BY <2>2, JobSteps DEF Unmerging, IInv
  <2> QED BY <2>1, <2>2 DEF Unmerging, Leaves
<1>2. TypeOK'
  BY <1>1 DEF IInv, TypeOK, Places, Content
<1>3. JournalInv' /\ WriterInv' /\ SweepInv'
  BY <1>0, <1>1 DEF Broken, IInv, TypeOK, Idle, JournalInv, WriterInv, SweepInv, OpInv, GoalInv, StepInv,
      FilesInv, CopyPlace, Places, Journal, RecoverInv, Versions
<1>4. OpInv' /\ GoalInv' /\ StepInv'
  BY <1>0, <1>1 DEF Broken, IInv, TypeOK, Places, Idle, Job, Versions, JournalInv, WriterInv, SweepInv,
      OpInv, GoalInv, StepInv, ClearInv, FilesInv, CopyPlace
<1>5. RecoverInv' /\ OfferInv'
  BY <1>0, <1>1 DEF Broken, IInv, TypeOK, Content, Places, Versions, RecoverInv, JournalInv, OfferInv,
      WriterInv, SweepInv, OpInv, GoalInv, StepInv, IsRestored, ClearInv, FilesInv, CopyPlace
<1>6. ClearInv' /\ FilesInv'
  BY <1>0, <1>1 DEF Broken, IInv, TypeOK, Content, Places, Versions, Job, RecoverInv, JournalInv,
      OfferInv, WriterInv, SweepInv, OpInv, GoalInv, StepInv, IsRestored, ClearInv, FilesInv, CopyPlace
<1> QED BY <1>2, <1>3, <1>4, <1>5, <1>6 DEF IInv

\* The chain goes on with the next patch,
LEMMA MergedKeeps ==
  ASSUME IInv, Merged
  PROVE  IInv'
<1> USE UpdateConstants DEF At, Put, Move, Rename, Shifted, Kind, Original, Current, Previous, Absent,
    Partial, Steps
<1>0. Kind \in {"none", "swap", "inplace", "patch", "rollback", "cleanup"}
  BY DEF IInv, TypeOK, Journal, Kinds
<1>1. /\ job' \in Job /\ job'.op = job.op /\ job'.goal = job.goal /\ job'.next = job.next + 1
      /\ At("merged") /\ UNCHANGED <<lib, kept, keptDisk, journal, writer, sweeping>>
      /\ dir' = [dir EXCEPT !["backup"] = Absent]
      /\ \/ job.next + 1 = job.goal /\ job'.pc = "settle"
         \/ job.next + 1 # job.goal /\ job'.pc = "fetch"
  <2>1. job.next + 1 \in 0 .. MaxVersion
    BY DEF Merged, IInv, TypeOK, Versions, Job, GoalInv
  <2> QED BY ZenonT(60), <2>1 DEF Merged, IInv, TypeOK, Job
<1>2. TypeOK'
  BY <1>1 DEF IInv, TypeOK, Content, Places
<1>3. JournalInv' /\ WriterInv' /\ SweepInv'
  BY <1>0, <1>1 DEF IInv, TypeOK, Idle, JournalInv, WriterInv, SweepInv, OpInv, GoalInv, StepInv,
      FilesInv, CopyPlace, Places, Journal, RecoverInv, Versions
<1>4. OpInv' /\ GoalInv' /\ StepInv'
  BY <1>0, <1>1 DEF IInv, TypeOK, Places, Idle, Job, Versions, JournalInv, WriterInv, SweepInv, OpInv,
      GoalInv, StepInv, ClearInv, FilesInv, CopyPlace
<1>5. RecoverInv' /\ OfferInv'
  BY <1>0, <1>1 DEF IInv, TypeOK, Content, Places, Versions, RecoverInv, JournalInv, OfferInv, WriterInv,
      SweepInv, OpInv, GoalInv, StepInv, IsRestored, ClearInv, FilesInv, CopyPlace
<1>6. ClearInv' /\ FilesInv'
  BY <1>0, <1>1 DEF IInv, TypeOK, Content, Places, Versions, Job, RecoverInv, JournalInv, OfferInv,
      WriterInv, SweepInv, OpInv, GoalInv, StepInv, IsRestored, ClearInv, FilesInv, CopyPlace
<1> QED BY <1>2, <1>3, <1>4, <1>5, <1>6 DEF IInv

\* or stops where it is.
LEMMA GiveUpKeeps ==
  ASSUME IInv, GiveUp
  PROVE  IInv'
<1> USE UpdateConstants, JobSteps DEF At, Put, Shifted, Kind, Original, Current, Previous, Absent,
    Partial, NoJournal, Steps
<1>1. TypeOK'
  BY DEF GiveUp, SaveKept, CopyPlace, IInv, Content, Places, Versions, Journal, Idle, TypeOK, GoalInv,
      StepInv, RecoverInv, FilesInv, ClearInv
<1>2. JournalInv' /\ WriterInv' /\ SweepInv'
  BY DEF GiveUp, SaveKept, CopyPlace, IInv, Content, Places, Versions, Journal, Idle, TypeOK, JournalInv,
      WriterInv, SweepInv, OpInv, GoalInv, StepInv, FilesInv
<1>3. OpInv' /\ GoalInv' /\ StepInv'
  BY DEF GiveUp, SaveKept, CopyPlace, IInv, Content, Places, Versions, Journal, Idle, TypeOK, JournalInv,
      WriterInv, SweepInv, OpInv, GoalInv, StepInv, ClearInv
<1>4. RecoverInv' /\ OfferInv'
  BY DEF GiveUp, SaveKept, CopyPlace, IInv, Content, Places, Versions, Journal, Idle, TypeOK, RecoverInv,
      JournalInv, OfferInv, WriterInv, SweepInv, OpInv, GoalInv, StepInv, IsRestored, ClearInv, FilesInv
<1>5. ClearInv' /\ FilesInv'
  BY SMTT(60) DEF GiveUp, SaveKept, CopyPlace, IInv, Content, Places, Versions, Journal, Idle, TypeOK, RecoverInv,
      JournalInv, OfferInv, WriterInv, SweepInv, OpInv, GoalInv, StepInv, IsRestored, ClearInv, FilesInv
<1> QED BY <1>1, <1>2, <1>3, <1>4, <1>5 DEF IInv

-----------------------------------------------------------------------------
(* restoreSwapFiles *)

\* What there is to put back follows from the journal and the folders.
LEMMA RestoreKeeps ==
  ASSUME IInv, Restore
  PROVE  IInv'
<1> USE UpdateConstants DEF Put, Shifted, Kind, Original, Current, Previous, Absent, Partial
<1>0. Kind \in {"none", "swap", "inplace", "patch", "rollback", "cleanup"}
  BY DEF IInv, TypeOK, Journal, Kinds
<1>1. /\ At("restore") /\ UNCHANGED <<lib, kept, keptDisk, journal, writer, sweeping>>
      /\ job' \in Job /\ job'.op = job.op /\ job'.goal = job.goal /\ job'.next = job.next
      /\ dir' \in [Places -> Content]
      /\ \A p \in Places \ {"replaced"} : dir'[p] = dir[p]
      /\ \/ (journal.retained => Shifted) /\ dir[journal.place] # Absent /\ job'.pc = "setaside"
         \/ Shifted /\ dir[journal.place] = Absent /\ job'.pc = "unretain"
         \/ /\ ~Shifted /\ (journal.retained \/ dir[journal.place] = Absent)
            /\ \/ job.op = "recover" /\ Kind = "swap" /\ job'.pc = "rekeep"
               \/ job.op = "recover" /\ Kind # "swap" /\ job'.pc = "relib"
               \/ job.op # "recover" /\ job'.pc = "clear" /\ job'.then = "end"
  <2>1. At("restore") => Kind \in {"swap", "inplace"}
    BY DEF IInv, At, StepInv
  <2>2. ~(Kind = "swap" /\ (journal.retained => Shifted) /\ Current = Absent
            /\ dir[journal.place] = Absent)
    BY DEF IInv, RecoverInv, Versions
  <2>3. /\ At("restore") /\ UNCHANGED <<lib, kept, keptDisk, journal, writer, sweeping>>
        /\ \/ /\ (journal.retained => Shifted) /\ dir[journal.place] # Absent
              /\ Put("replaced", Absent) /\ Goto("setaside")
           \/ /\ ~((journal.retained => Shifted) /\ dir[journal.place] # Absent)
              /\ UNCHANGED dir /\ IF Shifted THEN Goto("unretain") ELSE Restored
    BY <2>2 DEF Restore
  <2> QED BY <2>3, JobSteps DEF Steps, Restored, IInv, TypeOK, Places, Content
<1>2. TypeOK'
  BY <1>1 DEF IInv, TypeOK
<1>3. JournalInv' /\ WriterInv' /\ SweepInv'
  BY <1>0, <1>1 DEF IInv, At, TypeOK, Idle, JournalInv, WriterInv, SweepInv, OpInv, GoalInv, StepInv,
      FilesInv, CopyPlace, Places, Journal, RecoverInv, Versions
<1>4. OpInv' /\ GoalInv' /\ StepInv'
  BY <1>0, <1>1 DEF IInv, At, TypeOK, Places, Idle, Job, Versions, JournalInv, WriterInv, SweepInv,
      OpInv, GoalInv, StepInv, ClearInv, FilesInv, CopyPlace
<1>5. RecoverInv' /\ OfferInv'
  BY <1>0, <1>1 DEF IInv, At, TypeOK, Content, Places, Versions, RecoverInv, JournalInv, OfferInv,
      WriterInv, SweepInv, OpInv, GoalInv, StepInv, IsRestored, ClearInv, FilesInv, CopyPlace
<1>6. ClearInv' /\ FilesInv'
  BY <1>0, <1>1 DEF IInv, At, TypeOK, Content, Places, Versions, Job, RecoverInv, JournalInv, OfferInv,
      WriterInv, SweepInv, OpInv, GoalInv, StepInv, IsRestored, ClearInv, FilesInv, CopyPlace
<1> QED BY <1>2, <1>3, <1>4, <1>5, <1>6 DEF IInv

\* What was installed is moved away,
LEMMA SetAsideKeeps ==
  ASSUME IInv, SetAside
  PROVE  IInv'
<1> USE UpdateConstants DEF Put, Shifted, Kind, Original, Current, Previous, Absent, Partial
<1>0. Kind \in {"none", "swap", "inplace", "patch", "rollback", "cleanup"}
  BY DEF IInv, TypeOK, Journal, Kinds
<1>1. /\ At("setaside") /\ UNCHANGED <<lib, kept, keptDisk, journal, writer, sweeping>>
      /\ job' \in Job /\ job'.op = job.op /\ job'.goal = job.goal /\ job'.next = job.next
      /\ dir' \in [Places -> Content]
      /\ \/ /\ job'.pc = "putback" /\ dir["current"] # Absent /\ dir["replaced"] = Absent
            /\ dir'["current"] = Absent /\ dir'["replaced"] = dir["current"]
            /\ \A p \in Places \ {"current", "replaced"} : dir'[p] = dir[p]
         \/ job'.pc = "putback" /\ dir' = dir
         \/ job'.pc = "end" /\ dir' = dir
  BY RenameSteps, JobSteps DEF SetAside, Steps, IInv, TypeOK, Places
<1>2. TypeOK'
  BY <1>1 DEF IInv, TypeOK
<1>3. JournalInv' /\ WriterInv' /\ SweepInv'
  BY <1>0, <1>1 DEF IInv, At, TypeOK, Idle, JournalInv, WriterInv, SweepInv, OpInv, GoalInv, StepInv,
      FilesInv, CopyPlace, Places, Journal, RecoverInv, Versions
<1>4. OpInv' /\ GoalInv' /\ StepInv'
  BY <1>0, <1>1 DEF IInv, At, TypeOK, Places, Idle, Job, Versions, JournalInv, WriterInv, SweepInv,
      OpInv, GoalInv, StepInv, ClearInv, FilesInv, CopyPlace
<1>5. RecoverInv' /\ OfferInv'
  BY <1>0, <1>1 DEF IInv, At, TypeOK, Content, Places, Versions, RecoverInv, JournalInv, OfferInv,
      WriterInv, SweepInv, OpInv, GoalInv, StepInv, IsRestored, ClearInv, FilesInv, CopyPlace
<1>6. ClearInv' /\ FilesInv'
  BY <1>0, <1>1 DEF IInv, At, TypeOK, Content, Places, Versions, Job, RecoverInv, JournalInv, OfferInv,
      WriterInv, SweepInv, OpInv, GoalInv, StepInv, IsRestored, ClearInv, FilesInv, CopyPlace
<1> QED BY <1>2, <1>3, <1>4, <1>5, <1>6 DEF IInv

\* the copy takes its place,
LEMMA PutBackKeeps ==
  ASSUME IInv, PutBack
  PROVE  IInv'
<1> USE UpdateConstants DEF Put, Shifted, Kind, Original, Current, Previous, Absent, Partial
<1>0. Kind \in {"none", "swap", "inplace", "patch", "rollback", "cleanup"}
  BY DEF IInv, TypeOK, Journal, Kinds
<1>1. /\ At("putback") /\ UNCHANGED <<lib, kept, keptDisk, journal, writer, sweeping>>
      /\ job' \in Job /\ job'.op = job.op /\ job'.goal = job.goal /\ job'.next = job.next
      /\ dir' \in [Places -> Content]
      /\ \/ /\ job'.pc = "replaced" /\ dir[journal.place] # Absent /\ dir["current"] = Absent
            /\ dir'[journal.place] = Absent /\ dir'["current"] = dir[journal.place]
            /\ \A p \in Places \ {journal.place, "current"} : dir'[p] = dir[p]
         \/ job'.pc = "end" /\ dir' = dir
  <2>1. journal.place \in Places /\ journal.place # "current" /\ "current" \in Places
    BY DEF IInv, TypeOK, Journal, Places
  <2>2. {"putback", "replaced", "end"} \subseteq Steps
    BY DEF Steps
  <2>3. TypeOK
    BY DEF IInv
  <2>4. Move("putback", journal.place, "current", "replaced", "end")
    BY DEF PutBack
  <2> QED BY <2>1, <2>2, <2>3, <2>4, MoveSteps
<1>2. TypeOK'
  BY <1>1 DEF IInv, TypeOK
<1>3. JournalInv' /\ WriterInv' /\ SweepInv'
  BY <1>0, <1>1 DEF IInv, At, TypeOK, Idle, JournalInv, WriterInv, SweepInv, OpInv, GoalInv, StepInv,
      FilesInv, CopyPlace, Places, Journal, RecoverInv, Versions
<1>4. OpInv' /\ GoalInv' /\ StepInv'
  BY <1>0, <1>1 DEF IInv, At, TypeOK, Places, Idle, Job, Versions, JournalInv, WriterInv, SweepInv,
      OpInv, GoalInv, StepInv, ClearInv, FilesInv, CopyPlace
<1>5. RecoverInv' /\ OfferInv'
  BY <1>0, <1>1 DEF IInv, At, TypeOK, Content, Places, Versions, RecoverInv, JournalInv, OfferInv,
      WriterInv, SweepInv, OpInv, GoalInv, StepInv, IsRestored, ClearInv, FilesInv, CopyPlace
<1>6. ClearInv' /\ FilesInv'
  BY <1>0, <1>1 DEF IInv, At, TypeOK, Content, Places, Versions, Job, RecoverInv, JournalInv, OfferInv,
      WriterInv, SweepInv, OpInv, GoalInv, StepInv, IsRestored, ClearInv, FilesInv, CopyPlace
<1> QED BY <1>2, <1>3, <1>4, <1>5, <1>6 DEF IInv

\* what was moved away is removed,
LEMMA ReplacedKeeps ==
  ASSUME IInv, Replaced
  PROVE  IInv'
<1> USE UpdateConstants DEF Put, Shifted, Kind, Original, Current, Previous, Absent, Partial
<1>0. Kind \in {"none", "swap", "inplace", "patch", "rollback", "cleanup"}
  BY DEF IInv, TypeOK, Journal, Kinds
<1>1. /\ At("replaced") /\ UNCHANGED <<lib, kept, keptDisk, journal, writer, sweeping>>
      /\ job' \in Job /\ job'.op = job.op /\ job'.goal = job.goal /\ job'.next = job.next
      /\ dir' \in [Places -> Content]
      /\ \A p \in Places \ {"replaced"} : dir'[p] = dir[p]
      /\ \/ Shifted /\ job'.pc = "unretain"
         \/ /\ ~Shifted /\ job.op = "recover" /\ Kind = "inplace" /\ journal.place = "previous"
            /\ job'.pc = "forget"
         \/ /\ ~Shifted
            /\ \/ job.op = "recover" /\ Kind = "swap" /\ job'.pc = "rekeep"
               \/ job.op = "recover" /\ Kind # "swap" /\ job'.pc = "relib"
               \/ job.op # "recover" /\ job'.pc = "clear" /\ job'.then = "end"
  <2>1. {"unretain", "forget", "rekeep", "relib", "clear"} \subseteq Steps /\ "end" \in Steps
    BY DEF Steps
  <2>2. CASE Shifted
    BY <2>1, <2>2, JobSteps DEF Replaced, JournalInv, IInv, TypeOK, Places, Content
  <2>3. CASE ~Shifted /\ job.op = "recover" /\ Kind = "inplace" /\ journal.place = "previous"
    BY <2>1, <2>3, JobSteps DEF Replaced, IInv, TypeOK, Places, Content
  <2>4. CASE ~Shifted /\ ~(job.op = "recover" /\ Kind = "inplace" /\ journal.place = "previous")
    BY <2>1, <2>4, JobSteps DEF Replaced, Restored, IInv, TypeOK, Places, Content
  <2> QED BY <2>2, <2>3, <2>4
<1>2. TypeOK'
  BY <1>1 DEF IInv, TypeOK
<1>3. JournalInv' /\ WriterInv' /\ SweepInv'
  BY <1>0, <1>1 DEF IInv, At, TypeOK, Idle, JournalInv, WriterInv, SweepInv, OpInv, GoalInv, StepInv,
      FilesInv, CopyPlace, Places, Journal, RecoverInv, Versions
<1>4. OpInv' /\ GoalInv' /\ StepInv'
  BY <1>0, <1>1 DEF IInv, At, TypeOK, Places, Idle, Job, Versions, JournalInv, WriterInv, SweepInv,
      OpInv, GoalInv, StepInv, ClearInv, FilesInv, CopyPlace
<1>5. RecoverInv' /\ OfferInv'
  BY <1>0, <1>1 DEF IInv, At, TypeOK, Content, Places, Versions, RecoverInv, JournalInv, OfferInv,
      WriterInv, SweepInv, OpInv, GoalInv, StepInv, IsRestored, ClearInv, FilesInv, CopyPlace
<1>6. ClearInv' /\ FilesInv'
  BY <1>0, <1>1 DEF IInv, At, TypeOK, Content, Places, Versions, Job, RecoverInv, JournalInv, OfferInv,
      WriterInv, SweepInv, OpInv, GoalInv, StepInv, IsRestored, ClearInv, FilesInv, CopyPlace
<1> QED BY <1>2, <1>3, <1>4, <1>5, <1>6 DEF IInv

\* and the previous copy comes back.
LEMMA UnretainKeeps ==
  ASSUME IInv, Unretain
  PROVE  IInv'
<1> USE UpdateConstants DEF Put, Shifted, Kind, Original, Current, Previous, Absent, Partial
<1>0. Kind \in {"none", "swap", "inplace", "patch", "rollback", "cleanup"}
  BY DEF IInv, TypeOK, Journal, Kinds
<1>1. /\ At("unretain") /\ UNCHANGED <<lib, kept, keptDisk, journal, writer, sweeping>>
      /\ job' \in Job /\ job'.op = job.op /\ job'.goal = job.goal /\ job'.next = job.next
      /\ dir' \in [Places -> Content]
      /\ \/ /\ dir["retained"] # Absent /\ dir["previous"] = Absent
            /\ dir'["retained"] = Absent /\ dir'["previous"] = dir["retained"]
            /\ \A p \in Places \ {"retained", "previous"} : dir'[p] = dir[p]
            /\ \/ job.op = "recover" /\ Kind = "swap" /\ job'.pc = "rekeep"
               \/ job.op = "recover" /\ Kind # "swap" /\ job'.pc = "relib"
               \/ job.op # "recover" /\ job'.pc = "clear" /\ job'.then = "end"
         \/ job'.pc = "end" /\ dir' = dir
  BY RenameSteps, JobSteps DEF Unretain, Steps, Restored, IInv, TypeOK, Places
<1>2. TypeOK'
  BY <1>1 DEF IInv, TypeOK
<1>3. JournalInv' /\ WriterInv' /\ SweepInv'
  BY <1>0, <1>1 DEF IInv, At, TypeOK, Idle, JournalInv, WriterInv, SweepInv, OpInv, GoalInv, StepInv,
      FilesInv, CopyPlace, Places, Journal, RecoverInv, Versions
<1>4. OpInv' /\ GoalInv' /\ StepInv'
  BY <1>0, <1>1 DEF IInv, At, TypeOK, Places, Idle, Job, Versions, JournalInv, WriterInv, SweepInv,
      OpInv, GoalInv, StepInv, ClearInv, FilesInv, CopyPlace
<1>5. RecoverInv' /\ OfferInv'
  BY <1>0, <1>1 DEF IInv, At, TypeOK, Content, Places, Versions, RecoverInv, JournalInv, OfferInv,
      WriterInv, SweepInv, OpInv, GoalInv, StepInv, IsRestored, ClearInv, FilesInv, CopyPlace
<1>6. ClearInv' /\ FilesInv'
  BY <1>0, <1>1 DEF IInv, At, TypeOK, Content, Places, Versions, Job, RecoverInv, JournalInv, OfferInv,
      WriterInv, SweepInv, OpInv, GoalInv, StepInv, IsRestored, ClearInv, FilesInv, CopyPlace
<1> QED BY <1>2, <1>3, <1>4, <1>5, <1>6 DEF IInv

-----------------------------------------------------------------------------
(* recoverJournals *)

\* A copy that was put back is no longer offered (recoverInplaceJournal).
LEMMA ForgetKeeps ==
  ASSUME IInv, Forget
  PROVE  IInv'
<1> USE UpdateConstants, JobSteps DEF At, Put, Shifted, Kind, Original, Current, Previous, Absent,
    Partial, NoJournal, Steps
<1>1. TypeOK'
  BY DEF Forget, SaveKept, CopyPlace, IInv, Content, Places, Versions, Journal, Idle, TypeOK, GoalInv,
      StepInv, RecoverInv, FilesInv, ClearInv
<1>2. JournalInv' /\ WriterInv' /\ SweepInv'
  BY DEF Forget, SaveKept, CopyPlace, IInv, Content, Places, Versions, Journal, Idle, TypeOK, JournalInv,
      WriterInv, SweepInv, OpInv, GoalInv, StepInv, FilesInv
<1>3. OpInv' /\ GoalInv' /\ StepInv'
  BY SMTT(60) DEF Forget, SaveKept, CopyPlace, IInv, Content, Places, Versions, Journal, Idle, TypeOK, JournalInv,
      WriterInv, SweepInv, OpInv, GoalInv, StepInv, ClearInv
<1>4. RecoverInv' /\ OfferInv'
  BY DEF Forget, SaveKept, CopyPlace, IInv, Content, Places, Versions, Journal, Idle, TypeOK, RecoverInv,
      JournalInv, OfferInv, WriterInv, SweepInv, OpInv, GoalInv, StepInv, IsRestored, ClearInv, FilesInv
<1>5. ClearInv' /\ FilesInv'
  BY SMTT(60) DEF Forget, SaveKept, CopyPlace, IInv, Content, Places, Versions, Journal, Idle, TypeOK, RecoverInv,
      JournalInv, OfferInv, WriterInv, SweepInv, OpInv, GoalInv, StepInv, IsRestored, ClearInv, FilesInv
<1> QED BY <1>1, <1>2, <1>3, <1>4, <1>5 DEF IInv

\* The record of the version before the swap comes back (restoreSwapRollbackMetadata).
LEMMA ReKeepKeeps ==
  ASSUME IInv, ReKeep
  PROVE  IInv'
<1> USE UpdateConstants, JobSteps DEF At, Put, Shifted, Kind, Original, Current, Previous, Absent,
    Partial, NoJournal, Steps
<1>1. TypeOK'
  BY SMTT(60) DEF ReKeep, SaveKept, CopyPlace, IInv, Content, Places, Versions, Journal, Idle, TypeOK, GoalInv,
      StepInv, RecoverInv, FilesInv, ClearInv
<1>2. JournalInv' /\ WriterInv' /\ SweepInv'
  BY DEF ReKeep, SaveKept, CopyPlace, IInv, Content, Places, Versions, Journal, Idle, TypeOK, JournalInv,
      WriterInv, SweepInv, OpInv, GoalInv, StepInv, FilesInv
<1>3. OpInv' /\ GoalInv' /\ StepInv'
  BY SMTT(60) DEF ReKeep, SaveKept, CopyPlace, IInv, Content, Places, Versions, Journal, Idle, TypeOK, JournalInv,
      WriterInv, SweepInv, OpInv, GoalInv, StepInv, ClearInv
<1>4. RecoverInv' /\ OfferInv'
  BY SMTT(60) DEF ReKeep, SaveKept, CopyPlace, IInv, Content, Places, Versions, Journal, Idle, TypeOK, RecoverInv,
      JournalInv, OfferInv, WriterInv, SweepInv, OpInv, GoalInv, StepInv, IsRestored, ClearInv, FilesInv
<1>5. ClearInv' /\ FilesInv'
  BY SMTT(60) DEF ReKeep, SaveKept, CopyPlace, IInv, Content, Places, Versions, Journal, Idle, TypeOK, RecoverInv,
      JournalInv, OfferInv, WriterInv, SweepInv, OpInv, GoalInv, StepInv, IsRestored, ClearInv, FilesInv
<1> QED BY <1>1, <1>2, <1>3, <1>4, <1>5 DEF IInv

\* So does the version in the library (restoreJournalMetadata).
LEMMA ReLibKeeps ==
  ASSUME IInv, ReLib
  PROVE  IInv'
<1> USE UpdateConstants, JobSteps DEF At, Put, Shifted, Kind, Original, Current, Previous, Absent,
    Partial, NoJournal, Steps
<1>1. TypeOK'
  BY SMTT(60) DEF ReLib, CopyPlace, IInv, Content, Places, Versions, Journal, Idle, TypeOK, GoalInv, StepInv,
      RecoverInv, FilesInv, ClearInv
<1>2. JournalInv' /\ WriterInv' /\ SweepInv'
  BY DEF ReLib, CopyPlace, IInv, Content, Places, Versions, Journal, Idle, TypeOK, JournalInv, WriterInv,
      SweepInv, OpInv, GoalInv, StepInv, FilesInv
<1>3. OpInv' /\ GoalInv' /\ StepInv'
  BY SMTT(60) DEF ReLib, CopyPlace, IInv, Content, Places, Versions, Journal, Idle, TypeOK, JournalInv, WriterInv,
      SweepInv, OpInv, GoalInv, StepInv, ClearInv
<1>4. RecoverInv' /\ OfferInv'
  BY SMTT(60) DEF ReLib, CopyPlace, IInv, Content, Places, Versions, Journal, Idle, TypeOK, RecoverInv,
      JournalInv, OfferInv, WriterInv, SweepInv, OpInv, GoalInv, StepInv, IsRestored, ClearInv, FilesInv
<1>5. ClearInv' /\ FilesInv'
  BY SMTT(60) DEF ReLib, CopyPlace, IInv, Content, Places, Versions, Journal, Idle, TypeOK, RecoverInv,
      JournalInv, OfferInv, WriterInv, SweepInv, OpInv, GoalInv, StepInv, IsRestored, ClearInv, FilesInv
<1> QED BY <1>1, <1>2, <1>3, <1>4, <1>5 DEF IInv

-----------------------------------------------------------------------------
(* Rollback and finishRollback *)

\* Where a rollback goes on is read off the folders (finishRollback).
LEMMA TurnKeeps ==
  ASSUME IInv, Turn
  PROVE  IInv'
<1> USE UpdateConstants, JobSteps DEF At, Put, Shifted, Kind, Original, Current, Previous, Absent,
    Partial, NoJournal, Steps
<1>1. TypeOK'
  BY SMTT(60) DEF Turn, CopyPlace, IInv, Content, Places, Versions, Journal, Idle, TypeOK, GoalInv, StepInv,
      RecoverInv, FilesInv, ClearInv
<1>2. JournalInv' /\ WriterInv' /\ SweepInv'
  BY DEF Turn, CopyPlace, IInv, Content, Places, Versions, Journal, Idle, TypeOK, JournalInv, WriterInv,
      SweepInv, OpInv, GoalInv, StepInv, FilesInv
<1>3. OpInv' /\ GoalInv' /\ StepInv'
  BY SMTT(60) DEF Turn, CopyPlace, IInv, Content, Places, Versions, Journal, Idle, TypeOK, JournalInv, WriterInv,
      SweepInv, OpInv, GoalInv, StepInv, ClearInv
<1>4. RecoverInv' /\ OfferInv'
  BY DEF Turn, CopyPlace, IInv, Content, Places, Versions, Journal, Idle, TypeOK, RecoverInv, JournalInv,
      OfferInv, WriterInv, SweepInv, OpInv, GoalInv, StepInv, IsRestored, ClearInv, FilesInv
<1>5. ClearInv' /\ FilesInv'
  BY SMTT(60) DEF Turn, CopyPlace, IInv, Content, Places, Versions, Journal, Idle, TypeOK, RecoverInv, JournalInv,
      OfferInv, WriterInv, SweepInv, OpInv, GoalInv, StepInv, IsRestored, ClearInv, FilesInv
<1> QED BY <1>1, <1>2, <1>3, <1>4, <1>5 DEF IInv

\* The installation is moved away,
LEMMA AwayKeeps ==
  ASSUME IInv, Away
  PROVE  IInv'
<1> USE UpdateConstants DEF Put, Shifted, Kind, Original, Current, Previous, Absent, Partial
<1>0. Kind \in {"none", "swap", "inplace", "patch", "rollback", "cleanup"}
  BY DEF IInv, TypeOK, Journal, Kinds
<1>1. /\ At("away") /\ UNCHANGED <<lib, kept, keptDisk, journal, writer, sweeping>>
      /\ job' \in Job /\ job'.op = job.op /\ job'.goal = job.goal /\ job'.next = job.next
      /\ dir' \in [Places -> Content]
      /\ \/ /\ job'.pc = "back" /\ dir["current"] # Absent /\ dir["replaced"] = Absent
            /\ dir'["current"] = Absent /\ dir'["replaced"] = dir["current"]
            /\ \A p \in Places \ {"current", "replaced"} : dir'[p] = dir[p]
         \/ job'.pc = "end" /\ dir' = dir
  <2>1. {"away", "back", "end"} \subseteq Steps /\ {"current", "replaced"} \subseteq Places
    BY DEF Steps, Places
  <2>2. Move("away", "current", "replaced", "back", "end")
    BY DEF Away
  <2>3. TypeOK
    BY DEF IInv
  <2> QED BY <2>1, <2>2, <2>3, MoveSteps
<1>2. TypeOK'
  BY <1>1 DEF IInv, TypeOK
<1>3. JournalInv' /\ WriterInv' /\ SweepInv'
  BY <1>0, <1>1 DEF IInv, At, TypeOK, Idle, JournalInv, WriterInv, SweepInv, OpInv, GoalInv, StepInv,
      FilesInv, CopyPlace, Places, Journal, RecoverInv, Versions
<1>4. OpInv' /\ GoalInv' /\ StepInv'
  BY <1>0, <1>1 DEF IInv, At, TypeOK, Places, Idle, Job, Versions, JournalInv, WriterInv, SweepInv,
      OpInv, GoalInv, StepInv, ClearInv, FilesInv, CopyPlace
<1>5. RecoverInv' /\ OfferInv'
  BY <1>0, <1>1 DEF IInv, At, TypeOK, Content, Places, Versions, RecoverInv, JournalInv, OfferInv,
      WriterInv, SweepInv, OpInv, GoalInv, StepInv, IsRestored, ClearInv, FilesInv, CopyPlace
<1>6. ClearInv' /\ FilesInv'
  BY <1>0, <1>1 DEF IInv, At, TypeOK, Content, Places, Versions, Job, RecoverInv, JournalInv, OfferInv,
      WriterInv, SweepInv, OpInv, GoalInv, StepInv, IsRestored, ClearInv, FilesInv, CopyPlace
<1> QED BY <1>2, <1>3, <1>4, <1>5, <1>6 DEF IInv

\* the copy takes its place,
LEMMA BackKeeps ==
  ASSUME IInv, Back
  PROVE  IInv'
<1> USE UpdateConstants DEF Put, Shifted, Kind, Original, Current, Previous, Absent, Partial
<1>0. Kind \in {"none", "swap", "inplace", "patch", "rollback", "cleanup"}
  BY DEF IInv, TypeOK, Journal, Kinds
<1>1. /\ At("back") /\ UNCHANGED <<lib, kept, keptDisk, journal, writer, sweeping>>
      /\ job' \in Job /\ job'.op = job.op /\ job'.goal = job.goal /\ job'.next = job.next
      /\ dir' \in [Places -> Content]
      /\ \/ /\ job'.pc = "relink" /\ dir["previous"] # Absent /\ dir["current"] = Absent
            /\ dir'["previous"] = Absent /\ dir'["current"] = dir["previous"]
            /\ \A p \in Places \ {"previous", "current"} : dir'[p] = dir[p]
         \/ job'.pc = "end" /\ dir' = dir
  <2>1. {"back", "relink", "end"} \subseteq Steps /\ {"previous", "current"} \subseteq Places
    BY DEF Steps, Places
  <2>2. Move("back", "previous", "current", "relink", "end")
    BY DEF Back
  <2>3. TypeOK
    BY DEF IInv
  <2> QED BY <2>1, <2>2, <2>3, MoveSteps
<1>2. TypeOK'
  BY <1>1 DEF IInv, TypeOK
<1>3. JournalInv' /\ WriterInv' /\ SweepInv'
  BY <1>0, <1>1 DEF IInv, At, TypeOK, Idle, JournalInv, WriterInv, SweepInv, OpInv, GoalInv, StepInv,
      FilesInv, CopyPlace, Places, Journal, RecoverInv, Versions
<1>4. OpInv' /\ GoalInv' /\ StepInv'
  BY <1>0, <1>1 DEF IInv, At, TypeOK, Places, Idle, Job, Versions, JournalInv, WriterInv, SweepInv,
      OpInv, GoalInv, StepInv, ClearInv, FilesInv, CopyPlace
<1>5. RecoverInv' /\ OfferInv'
  BY <1>0, <1>1 DEF IInv, At, TypeOK, Content, Places, Versions, RecoverInv, JournalInv, OfferInv,
      WriterInv, SweepInv, OpInv, GoalInv, StepInv, IsRestored, ClearInv, FilesInv, CopyPlace
<1>6. ClearInv' /\ FilesInv'
  BY <1>0, <1>1 DEF IInv, At, TypeOK, Content, Places, Versions, Job, RecoverInv, JournalInv, OfferInv,
      WriterInv, SweepInv, OpInv, GoalInv, StepInv, IsRestored, ClearInv, FilesInv, CopyPlace
<1> QED BY <1>2, <1>3, <1>4, <1>5, <1>6 DEF IInv

\* the library is told,
LEMMA ReLinkKeeps ==
  ASSUME IInv, ReLink
  PROVE  IInv'
<1> USE UpdateConstants, JobSteps DEF At, Put, Shifted, Kind, Original, Current, Previous, Absent,
    Partial, NoJournal, Steps
<1>1. TypeOK'
  BY DEF ReLink, CopyPlace, IInv, Content, Places, Versions, Journal, Idle, TypeOK, GoalInv, StepInv,
      RecoverInv, FilesInv, ClearInv
<1>2. JournalInv' /\ WriterInv' /\ SweepInv'
  BY DEF ReLink, CopyPlace, IInv, Content, Places, Versions, Journal, Idle, TypeOK, JournalInv,
      WriterInv, SweepInv, OpInv, GoalInv, StepInv, FilesInv
<1>3. OpInv' /\ GoalInv' /\ StepInv'
  BY DEF ReLink, CopyPlace, IInv, Content, Places, Versions, Journal, Idle, TypeOK, JournalInv,
      WriterInv, SweepInv, OpInv, GoalInv, StepInv, ClearInv
<1>4. RecoverInv' /\ OfferInv'
  BY DEF ReLink, CopyPlace, IInv, Content, Places, Versions, Journal, Idle, TypeOK, RecoverInv,
      JournalInv, OfferInv, WriterInv, SweepInv, OpInv, GoalInv, StepInv, IsRestored, ClearInv, FilesInv
<1>5. ClearInv' /\ FilesInv'
  BY SMTT(60) DEF ReLink, CopyPlace, IInv, Content, Places, Versions, Journal, Idle, TypeOK, RecoverInv,
      JournalInv, OfferInv, WriterInv, SweepInv, OpInv, GoalInv, StepInv, IsRestored, ClearInv, FilesInv
<1> QED BY <1>1, <1>2, <1>3, <1>4, <1>5 DEF IInv

\* and the copy is no longer offered.
LEMMA UnKeepKeeps ==
  ASSUME IInv, UnKeep
  PROVE  IInv'
<1> USE UpdateConstants, JobSteps DEF At, Put, Shifted, Kind, Original, Current, Previous, Absent,
    Partial, NoJournal, Steps
<1>1. TypeOK'
  BY SMTT(60) DEF UnKeep, SaveKept, CopyPlace, IInv, Content, Places, Versions, Journal, Idle, TypeOK, GoalInv,
      StepInv, RecoverInv, FilesInv, ClearInv
<1>2. JournalInv' /\ WriterInv' /\ SweepInv'
  BY DEF UnKeep, SaveKept, CopyPlace, IInv, Content, Places, Versions, Journal, Idle, TypeOK, JournalInv,
      WriterInv, SweepInv, OpInv, GoalInv, StepInv, FilesInv
<1>3. OpInv' /\ GoalInv' /\ StepInv'
  BY SMTT(60) DEF UnKeep, SaveKept, CopyPlace, IInv, Content, Places, Versions, Journal, Idle, TypeOK, JournalInv,
      WriterInv, SweepInv, OpInv, GoalInv, StepInv, ClearInv
<1>4. RecoverInv' /\ OfferInv'
  BY DEF UnKeep, SaveKept, CopyPlace, IInv, Content, Places, Versions, Journal, Idle, TypeOK, RecoverInv,
      JournalInv, OfferInv, WriterInv, SweepInv, OpInv, GoalInv, StepInv, IsRestored, ClearInv, FilesInv
<1>5. ClearInv' /\ FilesInv'
  BY SMTT(60) DEF UnKeep, SaveKept, CopyPlace, IInv, Content, Places, Versions, Journal, Idle, TypeOK, RecoverInv,
      JournalInv, OfferInv, WriterInv, SweepInv, OpInv, GoalInv, StepInv, IsRestored, ClearInv, FilesInv
<1> QED BY <1>1, <1>2, <1>3, <1>4, <1>5 DEF IInv

-----------------------------------------------------------------------------
(* The invariant *)

\* Every start is from a game that is installed, whatever is beside it.
LEMMA InitHolds == Init => IInv
<1> SUFFICES ASSUME Init PROVE IInv
  OBVIOUS
<1> USE UpdateConstants DEF Kind, Original, Current, Previous, Shifted, Absent, Partial
<1>1. PICK old \in 0 .. lib - 1, retained \in {Absent, Partial} :
        /\ kept = old
        /\ dir = [p \in Places |-> CASE p = "current"  -> lib
                                     [] p = "previous" -> old
                                     [] p = "retained" -> retained
                                     [] OTHER -> Absent]
  BY DEF Init
<1>2. /\ dir \in [Places -> Content] /\ Current = lib /\ Previous = kept
      /\ kept \in 0 .. MaxVersion /\ lib \in Versions
  BY <1>1 DEF Init, Places, Content, Versions
<1>3. /\ job = Idle /\ job \in Job /\ job.op = "none" /\ job.pc = "end" /\ keptDisk = kept
      /\ journal = NoJournal /\ writer = 0 /\ sweeping = FALSE
  <2>1. 0 \in 0 .. MaxVersion
    OBVIOUS
  <2> QED BY <2>1 DEF Init, Idle, Job, Steps
<1>4. TypeOK
  <2>1. sweeping \in BOOLEAN
    BY <1>3
  <2> QED BY <1>2, <1>3, <2>1, NoJournalTyped DEF TypeOK
<1>5. JournalInv /\ WriterInv /\ SweepInv /\ RecoverInv /\ OfferInv
  BY <1>2, <1>3, NoJournalTyped DEF JournalInv, WriterInv, SweepInv, RecoverInv, OfferInv
<1>6. OpInv /\ GoalInv /\ StepInv /\ ClearInv /\ FilesInv
  BY <1>2, <1>3, NoJournalTyped DEF OpInv, GoalInv, StepInv, ClearInv, FilesInv
<1> QED BY <1>4, <1>5, <1>6 DEF IInv

\* Nothing has happened.
LEMMA NothingKeeps ==
  ASSUME IInv, UNCHANGED vars
  PROVE  IInv'
BY SMTT(60) DEF vars, IInv, TypeOK, JournalInv, RecoverInv, OfferInv, WriterInv, SweepInv, OpInv, GoalInv, StepInv,
       ClearInv, FilesInv, IsRestored, Shifted, CopyPlace, Kind, Original, Current, Previous, NoJournal

\* Every step of a job leaves the game recoverable, and so does whatever begins or ends one,
\* as long as no sweep comes late.
LEMMA StepKeeps ==
  ASSUME IInv, Step
  PROVE  IInv'
<1>1. CASE Fetch \/ Unpack \/ Slot \/ Copy \/ Copying \/ Mark \/ Resolve \/ Register \/ Keep
           \/ Clear \/ Cleared \/ Settle \/ Drop \/ EndJob
  BY <1>1, FetchKeeps, UnpackKeeps, SlotKeeps, CopyKeeps, CopyingKeeps, MarkKeeps, ResolveKeeps,
      RegisterKeeps, KeepKeeps, ClearKeeps, ClearedKeeps, SettleKeeps, DropKeeps, EndJobKeeps
<1>2. CASE Look \/ JournalSwap \/ Retain \/ Aside \/ Install \/ CarryOver \/ Write \/ Writing
           \/ Stop \/ Discard \/ Clean \/ Merge \/ Merging \/ Unmerge \/ Unmerging \/ Merged \/ GiveUp
  BY <1>2, LookKeeps, JournalSwapKeeps, RetainKeeps, AsideKeeps, InstallKeeps, CarryOverKeeps,
      WriteKeeps, WritingKeeps, StopKeeps, DiscardKeeps, CleanKeeps, MergeKeeps, MergingKeeps,
      UnmergeKeeps, UnmergingKeeps, MergedKeeps, GiveUpKeeps
<1>3. CASE Restore \/ SetAside \/ PutBack \/ Replaced \/ Unretain \/ Forget \/ ReKeep \/ ReLib
           \/ Turn \/ Away \/ Back \/ ReLink \/ UnKeep
  BY <1>3, RestoreKeeps, SetAsideKeeps, PutBackKeeps, ReplacedKeeps, UnretainKeeps, ForgetKeeps,
      ReKeepKeeps, ReLibKeeps, TurnKeeps, AwayKeeps, BackKeeps, ReLinkKeeps, UnKeepKeeps
<1> QED BY <1>1, <1>2, <1>3 DEF Step

\* Every step keeps the invariant.
LEMMA NextKeeps ==
  ASSUME IInv, "lateSweep" \notin Races, [Next]_vars
  PROVE  IInv'
<1>1. CASE SweepRemoves \/ Crash
  BY <1>1, SweepRemovesKeeps, CrashKeeps
<1>2. CASE ~sweeping /\ (StartUpdate \/ RepairGame \/ BeginRefused \/ Rollback \/ Expire)
  BY <1>2, StartUpdateKeeps, RepairGameKeeps, BeginRefusedKeeps, RollbackKeeps, ExpireKeeps
<1>3. CASE Step \/ WriterWrites
  BY <1>3, StepKeeps, WriterWritesKeeps
<1>4. CASE UNCHANGED vars
  BY <1>4, NothingKeeps
<1> QED BY <1>1, <1>2, <1>3, <1>4 DEF Next

-----------------------------------------------------------------------------
(* What the next start makes of it *)

\* The files and the version of the next start, by the kind of the journal.
RecoveryShows ==
  /\ Kind \in {"none", "cleanup"} => RecoveredVersion = lib
  /\ Kind \in {"swap", "inplace", "patch"} => RecoveredVersion = Original
  /\ Kind = "rollback" => RecoveredVersion = journal.rollback
  /\ RecoveredVersion \in Versions /\ RecoveredFiles = RecoveredVersion

\* The copy it offers, and whether that is the one of the record.
Quiet == Kind \in {"none", "cleanup", "patch"} \/ (Kind = "inplace" /\ journal.place # "previous")

OfferShows ==
  /\ Kind = "swap" => RecoveredKept = IF journal.retained THEN journal.rollback ELSE 0
  /\ Kind = "rollback" \/ (Kind = "inplace" /\ journal.place = "previous") => RecoveredKept = 0
  /\ Quiet => RecoveredKept = IF Previous = kept THEN kept ELSE 0

\* What the invariant says of the files shows what the run checks.
LEMMA ItShows == IInv => RecoveryShows /\ OfferShows
<1> SUFFICES ASSUME IInv PROVE RecoveryShows /\ OfferShows
  OBVIOUS
<1>1. Kind \in {"none", "swap", "inplace", "patch", "rollback", "cleanup"}
  BY DEF IInv, TypeOK, Journal, Kinds, Kind
<1>2. CASE Kind \in {"none", "cleanup"}
  BY <1>2 DEF RecoveryShows, OfferShows, Quiet, RecoveredVersion, RecoveredFiles, RecoveredKept,
              IInv, TypeOK, RecoverInv, Kind, Current, Previous
<1>3. CASE Kind = "swap"
  BY <1>3 DEF RecoveryShows, OfferShows, Quiet, RecoveredVersion, RecoveredFiles, RecoveredKept,
              IInv, RecoverInv, OfferInv, Kind, Current, Previous, Original, Shifted
<1>4. CASE Kind \in {"inplace", "patch"}
  BY <1>4 DEF RecoveryShows, OfferShows, Quiet, RecoveredVersion, RecoveredFiles, RecoveredKept,
              IInv, RecoverInv, JournalInv, Kind, Current, Previous, Original
<1>5. CASE Kind = "rollback"
  BY <1>5 DEF RecoveryShows, OfferShows, Quiet, RecoveredVersion, RecoveredFiles, RecoveredKept,
              IInv, RecoverInv, Kind, Current, Previous
<1> QED BY <1>1, <1>2, <1>3, <1>4, <1>5

\* ... and the same after a step.
LEMMA ItWillShow == IInv' => RecoveryShows' /\ OfferShows'
BY ItShows, PTL

\* Nothing of what the refinement looks at changes.
Same == UNCHANGED <<RecoveredVersion, RecoveredKept>>

\* While a swap, an update in place or a rollback is journalled, nothing shows.
LEMMA HiddenSteps ==
  ASSUME IInv, IInv', journal' = journal, ~Quiet
  PROVE  Same
<1>1. Kind \in {"none", "swap", "inplace", "patch", "rollback", "cleanup"}
  BY DEF IInv, TypeOK, Journal, Kinds, Kind
<1> QED BY <1>1, ItShows, ItWillShow DEF RecoveryShows, OfferShows, Quiet, Same, Kind, Original

\* Nor does anything that leaves the library, the record and the copy alone.
LEMMA QuietSteps ==
  ASSUME IInv, IInv', UNCHANGED <<journal, lib, kept>>, Previous' = Previous
  PROVE  Same
<1>1. Kind \in {"none", "swap", "inplace", "patch", "rollback", "cleanup"}
  BY DEF IInv, TypeOK, Journal, Kinds, Kind
<1> QED BY <1>1, ItShows, ItWillShow DEF RecoveryShows, OfferShows, Quiet, Same, Kind, Original, Previous

\* Forgetting the record, or the copy, is a step of its own.
LEMMA ForgettingSteps ==
  ASSUME IInv, IInv', UNCHANGED <<journal, lib>>, Quiet, kept' = 0 \/ Previous' = Absent
  PROVE  Atomic!Forget
<1>1. kept' \in Nat
  BY UpdateConstants DEF IInv, TypeOK
<1> QED BY <1>1, ItShows, ItWillShow
        DEF RecoveryShows, OfferShows, Quiet, Atomic!Forget, Kind, Original, Previous, Absent

\* What the library says does not matter while a journal says otherwise.
LEMMA JournalledSteps ==
  ASSUME IInv, IInv', UNCHANGED <<journal, kept>>, Previous' = Previous, Kind \in {"swap", "inplace", "patch"}
  PROVE  Same
BY ItShows, ItWillShow DEF RecoveryShows, OfferShows, Quiet, Same, Kind, Original, Previous

\* What a job does in other directories is nobody's business.
LEMMA ElsewhereSteps ==
  ASSUME IInv, IInv', Fetch \/ Unpack \/ Resolve \/ EndJob \/ CarryOver \/ Write \/ Writing \/ Stop \/ Discard
                  \/ Clean \/ Merge \/ Merging \/ Unmerge \/ Unmerging \/ Merged \/ Turn \/ Restore
                  \/ SetAside \/ Replaced \/ Install \/ Away \/ BeginRefused \/ WriterWrites
  PROVE  Same
<1> USE DEF Put, Previous, Places
<1>1. dir \in [Places -> Content]
  BY DEF IInv, TypeOK
<1>2. Previous' = Previous
  <2>1. CASE Fetch \/ Unpack \/ Resolve \/ EndJob \/ CarryOver \/ Write \/ Writing \/ Stop \/ Discard
    BY <1>1, <2>1 DEF Fetch, Unpack, Resolve, EndJob, CarryOver, Write, Writing, Stop, Discard
  <2>2. CASE Clean \/ Merge \/ Merging \/ Unmerge \/ Unmerging \/ Merged \/ Turn
    BY <1>1, <2>2 DEF Clean, Merge, Merging, Unmerge, Unmerging, Merged, Turn
  <2>3. CASE Restore \/ SetAside \/ Replaced \/ Install \/ Away \/ BeginRefused \/ WriterWrites
    BY <1>1, <2>3 DEF Restore, SetAside, Replaced, Install, Away, Move, Rename, BeginRefused, WriterWrites
  <2> QED BY <2>1, <2>2, <2>3
<1>3. UNCHANGED <<journal, lib, kept>>
  BY DEF Fetch, Unpack, Resolve, EndJob, CarryOver, Write, Writing, Stop, Discard, Clean, Merge, Merging,
         Unmerge, Unmerging, Merged, Turn, Restore, SetAside, Replaced, Install, Away, Move, BeginRefused,
         WriterWrites
<1> QED BY <1>2, <1>3, QuietSteps

\* Nor is what it renames, records and registers under its journal.
LEMMA UnderJournalSteps ==
  ASSUME IInv, IInv', Retain \/ Aside \/ PutBack \/ Unretain \/ Forget \/ ReKeep \/ Back \/ ReLink \/ UnKeep
                  \/ Register \/ ReLib
  PROVE  Same
<1>1. CASE Retain \/ Aside \/ Unretain \/ Forget \/ ReKeep \/ Back \/ ReLink \/ UnKeep
  <2>1. ~Quiet
    BY <1>1 DEF Retain, Aside, Unretain, Forget, ReKeep, Back, ReLink, UnKeep, Move, At, IInv, StepInv, Quiet
  <2>2. journal' = journal
    BY <1>1 DEF Retain, Aside, Unretain, Forget, ReKeep, Back, ReLink, UnKeep, Move
  <2> QED BY <2>1, <2>2, HiddenSteps
<1>2. CASE PutBack
  <2>1. UNCHANGED <<journal, lib, kept>>
    BY <1>2 DEF PutBack, Move
  <2>2. CASE Quiet
    <3>1. journal.place = "repair"
      BY <1>2, <2>2 DEF PutBack, Move, At, IInv, StepInv, JournalInv, Quiet
    <3>2. Previous' = Previous
      BY <1>2, <3>1 DEF PutBack, Move, Rename, Previous, IInv, TypeOK, Places
    <3> QED BY <2>1, <3>2, QuietSteps
  <2> QED BY <2>1, <2>2, HiddenSteps
<1>3. CASE Register \/ ReLib
  <2>1. UNCHANGED <<journal, kept>> /\ Previous' = Previous
    BY <1>3 DEF Register, ReLib, Previous
  <2>2. Kind \in {"swap", "inplace", "patch"}
    BY <1>3 DEF Register, ReLib, At, IInv, StepInv, OpInv
  <2> QED BY <2>1, <2>2, JournalledSteps
<1> QED BY <1>1, <1>2, <1>3

\* The record goes before the copy is made, and before a copy is removed.
LEMMA RecordSteps ==
  ASSUME IInv, IInv', Slot \/ Copy \/ Copying \/ Settle \/ Drop \/ GiveUp \/ Expire \/ SweepRemoves \/ Crash
  PROVE  Atomic!Forget \/ Same
<1>1. UNCHANGED <<journal, lib>>
  BY DEF Slot, Copy, Copying, Settle, Drop, GiveUp, Expire, SweepRemoves, Crash
<1>2. CASE kept' = kept /\ Previous' = Previous
  BY <1>1, <1>2, QuietSteps
<1>3. CASE ~Quiet
  BY <1>1, <1>3, HiddenSteps
<1>4. (kept' = kept /\ Previous' = Previous) \/ kept' = 0 \/ Previous' = Absent
  <2>1. CASE Slot \/ Settle \/ GiveUp
    BY <2>1 DEF Slot, Settle, GiveUp, SaveKept, Previous
  <2>2. CASE Copy \/ Copying
    BY <2>2 DEF Copy, Copying, Put, Previous, CopyPlace, IInv, TypeOK, Places, FilesInv, OpInv, At
  <2>3. CASE Drop \/ SweepRemoves
    BY <2>3 DEF Drop, SweepRemoves, Put, Previous, IInv, TypeOK, Places
  <2>4. CASE Expire \/ Crash
    BY <2>4 DEF Expire, Crash, SaveKept, Previous, IInv, TypeOK
  <2> QED BY <2>1, <2>2, <2>3, <2>4
<1> QED BY <1>1, <1>2, <1>3, <1>4, ForgettingSteps

\* The record that is saved is that of the installed version.
LEMMA KeepSteps ==
  ASSUME IInv, IInv', Keep
  PROVE  Atomic!Keep \/ Same
<1>1. UNCHANGED <<dir, journal, lib>> /\ At("keep") /\ Previous' = Previous
  BY DEF Keep, Previous
<1>2. CASE job.op = "patch"
  <2>1. Kind = "none" /\ Previous = lib /\ lib \in Versions
    BY <1>1, <1>2 DEF At, IInv, TypeOK, StepInv, FilesInv
  <2>2. CASE kept' = lib
    BY <1>1, <2>1, <2>2, ItShows, ItWillShow
       DEF RecoveryShows, OfferShows, Quiet, Atomic!Keep, Kind
  <2>3. CASE kept' = kept
    BY <1>1, <2>3, QuietSteps
  <2> QED BY <1>2, <2>2, <2>3 DEF Keep, SaveKept
<1>3. CASE job.op # "patch"
  <2>1. ~Quiet
    BY <1>1, <1>3 DEF At, IInv, StepInv, OpInv, Quiet, CopyPlace
  <2> QED BY <1>1, <2>1, HiddenSteps
<1> QED BY <1>2, <1>3

\* A journal is written over what is there, and a new one over one that needs nothing.
LEMMA JournalWrites ==
  ASSUME IInv, IInv', Look \/ JournalSwap \/ Mark \/ Cleared \/ StartUpdate \/ RepairGame
  PROVE  Same
<1>1. lib \in Versions /\ kept \in Nat /\ dir \in [Places -> Content]
  BY UpdateConstants DEF IInv, TypeOK
<1>2. CASE journal' = journal /\ ~Mark
  <2>1. UNCHANGED <<lib, kept>> /\ Previous' = Previous
    BY <1>1, <1>2 DEF Look, JournalSwap, Cleared, StartUpdate, RepairGame, Begin, Previous, Places
  <2> QED BY <1>2, <2>1, QuietSteps
<1>3. CASE journal' # journal /\ (Look \/ Cleared \/ StartUpdate \/ RepairGame)
  <2>1. UNCHANGED <<lib, kept>> /\ Previous' = Previous
    BY <1>1, <1>3 DEF Look, Cleared, StartUpdate, RepairGame, Begin, Previous, Places
  <2>2. Kind \in {"none", "cleanup"} /\ Kind' \in {"none", "cleanup"}
    BY <1>3, NoJournalTyped DEF Look, Cleared, StartUpdate, RepairGame, Begin, MayStart, At, IInv, TypeOK, StepInv, Kind, NoJournal
  <2> QED BY <2>1, <2>2, ItShows, ItWillShow DEF RecoveryShows, OfferShows, Quiet, Same
<1>4. CASE journal' # journal /\ JournalSwap
  <2>1. /\ Kind = "none" /\ Kind' = "swap" /\ Original' = lib /\ journal'.rollback = kept
        /\ journal'.retained <=> Previous # Absent
        /\ UNCHANGED <<dir, lib, kept>>
    BY <1>4, JournalSwapWrites DEF IInv, Kind, Original, Previous
  <2>2. kept # 0 => Previous \in {kept, Absent}
    BY <2>1 DEF IInv, OfferInv
  <2> QED BY <1>1, <2>1, <2>2, ItShows, ItWillShow DEF RecoveryShows, OfferShows, Quiet, Same, Absent
<1>5. CASE Mark
  <2>1. At("mark") /\ UNCHANGED <<lib, kept>> /\ Kind = "none"
    BY <1>5 DEF Mark, At, IInv, StepInv
  <2>2. CASE job.op = "patch"
    <3>1. /\ Previous' = Previous
          /\ journal' = journal \/ (Kind' = "patch" /\ Original' = lib)
      BY <1>5, <2>2 DEF Mark, SetJournal, Kind, Original, Previous
    <3> QED BY <2>1, <3>1, ItShows, ItWillShow DEF RecoveryShows, OfferShows, Quiet, Same, Kind
  <2>3. CASE job.op = "repair"
    <3>1. /\ Previous' = Previous
          /\ journal' = journal \/ (Kind' = "inplace" /\ Original' = lib /\ journal'.place = "repair")
      BY <1>1, <1>5, <2>3 DEF Mark, SetJournal, CopyPlace, Put, Kind, Original, Previous, Places
    <3> QED BY <2>1, <3>1, ItShows, ItWillShow DEF RecoveryShows, OfferShows, Quiet, Same, Kind
  <2>4. CASE job.op = "inplace"
    <3>1. kept = 0
      BY <2>1, <2>4 DEF At, IInv, FilesInv
    <3>2. journal' = journal \/ (Kind' = "inplace" /\ Original' = lib /\ journal'.place = "previous")
      BY <1>5, <2>4 DEF Mark, SetJournal, CopyPlace, Kind, Original
    <3> QED BY <2>1, <3>1, <3>2, ItShows, ItWillShow DEF RecoveryShows, OfferShows, Quiet, Same, Kind
  <2> QED BY <2>1, <2>2, <2>3, <2>4 DEF At, IInv, OpInv
<1> QED BY <1>2, <1>3, <1>4, <1>5

\* A rollback is done as soon as it is journalled.
LEMMA RollbackSteps ==
  ASSUME IInv, IInv', Rollback
  PROVE  Atomic!GoBack
<1>1. /\ kept # 0 /\ Kind = "none" /\ Previous # Absent /\ UNCHANGED <<lib, kept>>
      /\ Kind' = "rollback" /\ journal'.rollback = kept
  BY DEF Rollback, Kind, Previous, NoJournal
<1>2. Previous = kept
  BY <1>1 DEF IInv, OfferInv
<1> QED BY <1>1, <1>2, ItShows, ItWillShow DEF RecoveryShows, OfferShows, Quiet, Atomic!GoBack

\* An update is done as soon as its journal is gone, or only waits for a cleanup.
LEMMA ClearSteps ==
  ASSUME IInv, IInv', Clear
  PROVE  Atomic!Replace \/ Atomic!Patch \/ Same
<1>1. At("clear") /\ UNCHANGED <<lib, kept>> /\ lib \in Versions /\ kept \in Nat /\ dir \in [Places -> Content]
  BY UpdateConstants DEF Clear, IInv, TypeOK
<1>2. Previous' = Previous
  BY <1>1 DEF Clear, Put, Previous, Places
<1>3. CASE journal' = journal
  BY <1>1, <1>2, <1>3, QuietSteps
<1>4. CASE journal' # journal
  <2>1. Kind # "cleanup" /\ Kind' \in {"none", "cleanup"} /\ dir' = dir
    BY <1>4 DEF Clear, Kind, NoJournal, IInv, TypeOK, Journal
  <2>2. RecoveredVersion' = lib /\ RecoveredKept' = IF Previous = kept THEN kept ELSE 0
    BY <1>1, <1>2, <2>1, ItWillShow DEF RecoveryShows, OfferShows, Quiet
  <2>3. CASE job.then = "settle"
    <3>1. /\ Kind \in {"swap", "inplace"} /\ kept = Original /\ Previous = Original /\ Original < lib
      BY <1>1, <2>1, <2>3 DEF At, IInv, ClearInv
    <3> QED BY <1>1, <2>2, <3>1, ItShows DEF RecoveryShows, Atomic!Replace, Atomic!Versions, Versions
  <2>4. CASE job.then = "merged"
    <3>1. Kind = "patch" /\ Original < lib
      BY <1>1, <2>1, <2>4 DEF At, IInv, ClearInv
    <3> QED BY <1>1, <2>2, <3>1, ItShows DEF RecoveryShows, OfferShows, Quiet, Atomic!Patch, Atomic!Versions, Versions
  <2>5. CASE job.then = "discard"
    <3>1. \/ Kind = "rollback" /\ lib = journal.rollback /\ kept = 0
          \/ Kind = "inplace" /\ journal.place = "repair" /\ lib = Original
      BY <1>1, <2>1, <2>5 DEF At, IInv, ClearInv
    <3> QED BY <2>2, <3>1, ItShows DEF RecoveryShows, OfferShows, Quiet, Same
  <2>6. CASE job.then \in {"end", "giveup"}
    <3>1. /\ Kind \in {"swap", "inplace", "patch"} /\ lib = Original /\ ~Shifted
          /\ Kind = "swap" => kept = journal.rollback /\ (journal.retained \/ Previous = Absent)
          /\ Kind \in {"inplace", "patch"} => dir[journal.place] = Absent
      BY <1>1, <2>1, <2>6 DEF At, IInv, TypeOK, Journal, Kinds, StepInv, ClearInv, IsRestored, Kind
    <3>2. CASE Kind = "swap"
      BY <1>1, <2>2, <3>1, <3>2, ItShows DEF RecoveryShows, OfferShows, Quiet, Same, IInv, OfferInv, Shifted, Absent
    <3>3. CASE Kind = "patch" \/ (Kind = "inplace" /\ journal.place # "previous")
      BY <2>2, <3>1, <3>3, ItShows DEF RecoveryShows, OfferShows, Quiet, Same
    <3>4. CASE Kind = "inplace" /\ journal.place = "previous"
      BY <1>1, <2>2, <3>1, <3>4, ItShows DEF RecoveryShows, OfferShows, Quiet, Same, Previous, Absent
    <3> QED BY <3>1, <3>2, <3>3, <3>4
  <2>7. job.then \in {"settle", "merged", "discard", "end", "giveup"}
    BY <1>1, <2>1 DEF At, IInv, OpInv, ClearInv
  <2> QED BY <2>3, <2>4, <2>5, <2>6, <2>7
<1> QED BY <1>3, <1>4

\* Every step is one of AtomicUpdate, or shows nothing.
LEMMA NextImplements ==
  ASSUME IInv, IInv', [Next]_vars
  PROVE  Atomic!Next \/ Same
<1>1. CASE UNCHANGED vars
  BY <1>1, QuietSteps DEF vars, Previous
<1>2. CASE Next
  <2>1. CASE Fetch \/ Unpack \/ Resolve \/ EndJob \/ CarryOver \/ Write \/ Writing \/ Stop \/ Discard
             \/ Clean \/ Merge \/ Merging \/ Unmerge \/ Unmerging \/ Merged \/ Turn \/ Restore
             \/ SetAside \/ Replaced \/ Install \/ Away \/ BeginRefused \/ WriterWrites
    BY <2>1, ElsewhereSteps
  <2>2. CASE Retain \/ Aside \/ PutBack \/ Unretain \/ Forget \/ ReKeep \/ Back \/ ReLink \/ UnKeep
             \/ Register \/ ReLib
    BY <2>2, UnderJournalSteps
  <2>3. CASE Slot \/ Copy \/ Copying \/ Settle \/ Drop \/ GiveUp \/ Expire \/ SweepRemoves \/ Crash
    BY <2>3, RecordSteps DEF Atomic!Next
  <2>4. CASE Keep
    BY <2>4, KeepSteps DEF Atomic!Next
  <2>5. CASE Look \/ JournalSwap \/ Mark \/ Cleared \/ StartUpdate \/ RepairGame
    BY <2>5, JournalWrites
  <2>6. CASE Rollback
    BY <2>6, RollbackSteps DEF Atomic!Next
  <2>7. CASE Clear
    BY <2>7, ClearSteps DEF Atomic!Next
  <2> QED BY <1>2, <2>1, <2>2, <2>3, <2>4, <2>5, <2>6, <2>7 DEF Next, Step
<1> QED BY <1>1, <1>2

-----------------------------------------------------------------------------
(* What a step may never do *)

\* A retained copy stays in the journal until it is put back or removed.
LEMMA NothingIsForgotten ==
  ASSUME IInv, [Next]_vars, dir'["retained"] # Absent, dir["retained"] = Absent \/ journal.retained
  PROVE  journal'.retained
<1> USE DEF Put, Places
<1>1. dir \in [Places -> Content]
  BY DEF IInv, TypeOK
<1>2. CASE journal' = journal /\ dir'["retained"] = dir["retained"]
  BY <1>2
<1>3. CASE Clear \/ Cleared
  <2>1. CASE Clear
    <3>1. CASE dir' = dir /\ journal' # journal
      BY <2>1, <3>1, NoJournalTyped DEF Clear, IInv, TypeOK, Journal, NoJournal
    <3>2. CASE journal' = journal
      BY <1>1, <2>1, <3>2 DEF Clear
    <3> QED BY <2>1, <3>1, <3>2 DEF Clear
  <2>2. CASE Cleared
    BY SMTT(30), <2>2 DEF Cleared, At, IInv, FilesInv
  <2> QED BY <1>3, <2>1, <2>2
<1>4. CASE StartUpdate \/ RepairGame \/ BeginRefused
  <2>1. CASE journal.kind = "cleanup"
    <3>1. dir'["retained"] = Absent
      BY <1>1, <1>4, <2>1 DEF StartUpdate, RepairGame, Begin, BeginRefused
    <3> QED BY <3>1
  <2>2. CASE journal.kind = "none"
    <3>1. dir'["retained"] = dir["retained"] /\ ~journal.retained
      BY <1>1, <1>4, <2>2, NoJournalTyped DEF StartUpdate, RepairGame, Begin, BeginRefused, IInv, JournalInv, Kind
    <3> QED BY <3>1
  <2> QED BY <1>4, <2>1, <2>2 DEF StartUpdate, RepairGame, Begin, BeginRefused, MayStart
<1>5. CASE Look \/ JournalSwap \/ Mark \/ Rollback
  <2>1. dir'["retained"] = dir["retained"]
    BY <1>1, <1>5 DEF Look, JournalSwap, Mark, Rollback, CopyPlace
  <2>2. journal' = journal \/ journal.kind = "none"
    BY <1>5 DEF Look, JournalSwap, Mark, Rollback, SetJournal
  <2> QED BY <2>1, <2>2, NoJournalTyped DEF IInv, JournalInv, Kind
<1>6. CASE Retain
  BY <1>6 DEF Retain, Move, At, IInv, FilesInv
<1>7. CASE Unretain
  BY <1>1, <1>7 DEF Unretain, Rename
<1>8. CASE Fetch \/ Unpack \/ Slot \/ Copy \/ Copying \/ Resolve \/ Register \/ Keep \/ Settle \/ Drop
           \/ EndJob \/ Aside \/ Install \/ CarryOver \/ Write \/ Writing \/ Stop \/ Discard
  BY <1>1, <1>2, <1>8 DEF Fetch, Unpack, Slot, Copy, Copying, Resolve, Register, Keep, Settle, Drop, EndJob,
     Aside, Install, CarryOver, Write, Writing, Stop, Discard, Move, Rename, CopyPlace
<1>9. CASE Clean \/ Merge \/ Merging \/ Unmerge \/ Unmerging \/ Merged \/ GiveUp \/ Restore \/ SetAside
           \/ Replaced
  BY <1>1, <1>2, <1>9 DEF Clean, Merge, Merging, Unmerge, Unmerging, Merged, GiveUp, Restore, SetAside,
     Replaced, Rename
<1>10. CASE PutBack
  <2>1. journal.place # "retained"
    BY DEF IInv, TypeOK, Journal
  <2> QED BY <1>1, <1>2, <1>10, <2>1 DEF PutBack, Move, Rename
<1>11. CASE Forget \/ ReKeep \/ ReLib \/ Turn \/ Away \/ Back \/ ReLink \/ UnKeep \/ SweepRemoves \/ Crash
            \/ Expire \/ WriterWrites \/ UNCHANGED vars
  BY <1>1, <1>2, <1>11 DEF Forget, ReKeep, ReLib, Turn, Away, Back, ReLink, UnKeep, SweepRemoves, Crash,
     Expire, WriterWrites, Move, Rename, vars
<1> QED BY <1>3, <1>4, <1>5, <1>6, <1>7, <1>8, <1>9, <1>10, <1>11 DEF Next, Step

\* Only three steps change the library, each with the files in place.
LEMMA OnlyInstalledIsRegistered ==
  ASSUME IInv, [Next]_vars, lib' # lib
  PROVE  dir'["current"] = lib'
<1>1. Register \/ ReLib \/ ReLink
  BY DEF Next, Step, vars, StartUpdate, RepairGame, Begin, BeginRefused, Rollback, Expire, WriterWrites,
     SweepRemoves, Crash, Fetch, Unpack, Slot, Copy, Copying, Mark, Resolve, Keep, Clear, Cleared, Settle,
     Drop, EndJob, Look, JournalSwap, Retain, Aside, Install, CarryOver, Write, Writing, Stop, Discard,
     Clean, Merge, Merging, Unmerge, Unmerging, Merged, GiveUp, Restore, SetAside, PutBack, Replaced,
     Unretain, Forget, ReKeep, Turn, Away, Back, UnKeep, Move
<1>2. CASE Register
  BY <1>2 DEF Register, At, IInv, FilesInv, OpInv, Current
<1>3. CASE ReLib
  BY <1>3 DEF ReLib, At, IInv, FilesInv, IsRestored, Current, Original
<1>4. CASE ReLink
  BY <1>4 DEF ReLink, At, IInv, FilesInv, Current
<1> QED BY SMTT(30), <1>1, <1>2, <1>3, <1>4

-----------------------------------------------------------------------------
(* The theorems *)

\* The invariant holds of every behaviour in which no copy is removed late.
LEMMA AlwaysIInv == "lateSweep" \notin Races /\ Spec => []IInv
<1> SUFFICES ASSUME "lateSweep" \notin Races PROVE Spec => []IInv
  OBVIOUS
<1>1. IInv /\ [Next]_vars => IInv'
  BY NextKeeps
<1> QED BY <1>1, InitHolds, PTL DEF Spec

\* Wherever the program is killed in an update, a repair or a rollback, the next start finds a
\* complete installation and registers its version.
THEOREM UpdatesAreRecoverable == "lateSweep" \notin Races /\ Spec => []Recoverable
<1>1. IInv => Recoverable
  BY ItShows DEF RecoveryShows, Recoverable
<1> QED BY <1>1, AlwaysIInv, PTL

\* What is offered to go back to is there in full (updates.json against the folders).
THEOREM OffersAreWhole == "lateSweep" \notin Races /\ Spec => []Consistent
<1>1. IInv => Consistent
  BY DEF IInv, OfferInv, Consistent, OfferIsWhole, Kind, Previous
<1> QED BY <1>1, AlwaysIInv, PTL

\* No step loses a retained copy, or registers what is not installed (clearJournal,
\* registerVersionAs).
THEOREM UpdateStepsAreSafe == "lateSweep" \notin Races /\ Spec => StepsAreSafe
<1>1. IInv /\ [Next]_vars => [dir'["retained"] # Absent /\ (dir["retained"] = Absent \/ journal.retained)
                                => journal'.retained]_vars
  BY NothingIsForgotten
<1>2. IInv /\ [Next]_vars => [lib' # lib => dir'["current"] = lib']_vars
  BY OnlyInstalledIsRegistered
<1> QED BY <1>1, <1>2, AlwaysIInv, PTL DEF Spec, StepsAreSafe, NothingRetained, RegisteredAreInstalled

\* An update, a repair or a rollback is one step, for whoever starts the program next.
THEOREM UpdatesAreAtomic == "lateSweep" \notin Races /\ Spec => AtomicSpec
<1>1. Init => Atomic!Init
  <2> SUFFICES ASSUME Init PROVE Atomic!Init
    OBVIOUS
  <2>1. Kind = "none" /\ lib \in Versions /\ kept \in 0 .. lib /\ Previous = kept
    BY NoJournalTyped DEF Init, Kind, Previous, Places, Versions
  <2> QED BY <2>1, InitHolds, ItShows DEF RecoveryShows, OfferShows, Quiet, Atomic!Init, Atomic!Versions, Versions
<1>2. IInv /\ IInv' /\ [Next]_vars => [Atomic!Next]_<<RecoveredVersion, RecoveredKept>>
  BY NextImplements DEF Same
<1> QED BY <1>1, <1>2, AlwaysIInv, PTL DEF Spec, AtomicSpec, Atomic!Spec
====================================================================================
