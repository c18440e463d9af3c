----------------------------- MODULE Install_proofs -----------------------------
(***************************************************************************)
(* What holds of installations into one folder, for any number of them, any  *)
(* kinds and any number of restarts: two never work in the folder, what is   *)
(* complete is in the library with all its files, and what was downloaded is *)
(* always somewhere whole.                                                    *)
(*                                                                          *)
(* The steps named in Events are left out, as in the model-checked run, but   *)
(* for writes of the records that fail: each is a way in which the code does  *)
(* leave an installation without its files.                                   *)
(***************************************************************************)
EXTENDS Install, FiniteSetTheorems, TLAPS

\* The steps of a job before its files are in the folder, and those after it.
WorkSteps  == {"prepare", "remember", "clear", "rename", "copy", "copying", "commit"}
PlaceSteps == {"finalize", "find", "register", "complete"}
JobSteps   == {"none", "prepare", "remember", "clear", "rename", "copy", "copying", "commit",
               "finalize", "find", "register", "complete", "after", "recover", "discard", "end"}

\* An installation under way whose files are not in the folder yet, and one whose files are.
Early(i) == Transient(i) /\ job[i] \in WorkSteps \cup {"none"}
Late(i)  == Active(i) /\ ~Early(i)

\* The folder holds nothing but files of this installation.
Mine(i) == Free \/ dest = Whole(i)

\* The move an earlier version left half done is all there is, and what has been done of it.
MoveOnly(i) ==
  /\ kind[i] = "move" /\ i \notin source /\ rec[i].status = "interrupted" /\ stored = rec
  /\ \A k \in Ids \ {i} : rec[k].status = "none" /\ job[k] = "none" /\ clean[k] = "none"
  /\ \A k \in Ids : start[k].at \in {"none", "commit"}
  /\ library = {} /\ jobs = {} /\ retry = {} /\ held = {}
MovedPartial(i) ==
  /\ MoveOnly(i) /\ partial = Whole(i) /\ dest \in {Nothing, Empty, Half(i), Whole(i)}
  /\ \/ clean[i] = "sweep" /\ job[i] = "none"
     \/ clean[i] = "none" /\ job[i] = "recover"
MovedPlaced(i) ==
  /\ MoveOnly(i) /\ partial = Nothing /\ dest = Whole(i)
  /\ clean[i] = "none" /\ job[i] = "finalize"

\* A start of the program is about to sweep what an installation left in .partial.
Restarted(i) ==
  /\ clean[i] = "sweep" /\ i \in source /\ stored = rec /\ retry = {}
  /\ \A k \in Ids : ~Active(k) /\ job[k] = "none" /\ (k # i => clean[k] = "none")

\* What the record of an installation says while its job is at a step.
JobFits(i) ==
  /\ job[i] \in WorkSteps => Transient(i)
  /\ job[i] \in PlaceSteps => Transient(i) \/ MovedPlaced(i)
  /\ job[i] = "recover" => MovedPartial(i)
  /\ Transient(i) => job[i] \in WorkSteps \cup PlaceSteps \cup {"none"}
  /\ Transient(i) /\ job[i] = "none" => i \in retry /\ rec[i].status = "pending"
  /\ rec[i].status = "pending" => job[i] \in {"none", "prepare"}
  /\ rec[i].status = "waiting" => job[i] \in {"none", "after", "end"}
  /\ job[i] = "after" => rec[i].status \in {"waiting", "completed"} \/ i \in asked
StepInv == \A i \in Ids : JobFits(i)

\* A Start has no record yet; the leftover it reclaims has the folder to itself.
StartInv ==
  \A i \in Ids :
    /\ start[i].at # "none" => rec[i].status = "none" /\ job[i] = "none" /\ clean[i] = "none"
    /\ start[i].at \in {"reclaim", "drop"} =>
         /\ start[i].of \in Ids /\ rec[start[i].of].status \in {"none", "failed"}
         /\ Mine(start[i].of)

\* An installation under way is the only one, and nothing holds the folder.
AloneInv ==
  \A i \in Ids : Active(i) => ~Reserved /\ \A k \in Ids : Active(k) => k = i

\* Until its files are in the folder, an installation has its source, the folder is free, and
\* .partial has what its step says.
EarlyInv ==
  \A i \in Ids : Early(i) =>
    /\ i \in source /\ Free /\ library \subseteq asked
    /\ \A k \in Ids : clean[k] = "none"
    /\ retry \subseteq {i} /\ (job[i] # "none" => retry = {})
    /\ partial = CASE job[i] = "copying" -> Half(i)
                   [] job[i] = "commit"  -> Whole(i)
                   [] OTHER              -> Nothing

\* From then on .partial is empty and the folder is its own.
LateInv ==
  \A i \in Ids : Late(i) =>
    /\ partial = Nothing /\ Mine(i)
    /\ Transient(i) \/ job[i] = "after" => dest = Whole(i)

\* A cleanup that may remove the folder holds it, and what it removes has its source.
CleanInv ==
  \A i \in Ids :
    /\ clean[i] \in {"check", "remove"} => i \in held
    /\ i \in held => Mine(i) /\ job[i] \in {"none", "discard"}
    /\ clean[i] = "remove" => library = {} /\ i \in source

\* What is in .partial is of a job, of an installation a start is about to sweep, or the half-
\* done move.
PartialInv ==
  \/ partial = Nothing
  \/ \E i \in Ids : /\ partial \in {Half(i), Whole(i)}
                    /\ Early(i) \/ Restarted(i) \/ MovedPartial(i)

\* Half of an installation is in the folder only in the half-done move.
DestInv == \A i \in Ids : dest = Half(i) => MovedPartial(i)

\* A record that could not be written is one that failed; what a restart takes it for fits the
\* folder.
StoredInv ==
  \/ rec = stored
  \/ /\ \A k \in Ids : ~Active(k)
     /\ \E i \in Ids : /\ rec = [stored EXCEPT ![i].status = "failed"]
                       /\ stored[i].status # "completed"
                       /\ WasTransient(i) \/ stored[i].status = "waiting" => Mine(i)

\* What is being removed was asked for, and a job completes what is in the library.
GameInv ==
  /\ removing \subseteq asked
  /\ \A i \in Ids \ asked : job[i] = "complete" => i \in library

\* The inductive invariant.
IInv == /\ TypeOK /\ StepInv /\ StartInv /\ AloneInv /\ EarlyInv /\ LateInv /\ CleanInv
        /\ PartialInv /\ DestInv /\ StoredInv /\ GameInv /\ CompletedIsGame /\ FilesAreKept

\* No step but a failed write that the bounds of the model leave out.
Calm == Events \subseteq {"persistFails"}

\* What is in a folder tells which installation it is of, and whether it is whole.
LEMMA ContentFacts ==
  /\ Nothing # Empty
  /\ \A i \in Ids : /\ Half(i) # Nothing /\ Half(i) # Empty
                    /\ Whole(i) # Nothing /\ Whole(i) # Empty
                    /\ Nothing.of # i /\ Empty.of # i /\ Half(i).of = i /\ Whole(i).of = i
  /\ \A i, k \in Ids : /\ Half(i) # Whole(k)
                       /\ (Half(i) = Half(k) => i = k) /\ (Whole(i) = Whole(k) => i = k)
  /\ Nothing \in Contents /\ Empty \in Contents
  /\ \A i \in Ids : Half(i) \in Contents /\ Whole(i) \in Contents
BY InstallConstants DEF Contents, Nothing, Empty, Half, Whole

\* The records, and the calls of Start.
AllRecords == [Ids -> [status : Statuses, owned : BOOLEAN]]

\* While one installation is under way the records are stored, nothing is reserved, and nothing
\* an earlier version or a start of the program left is there.
LEMMA ActiveFacts ==
  ASSUME IInv
  PROVE  \A i \in Ids : Active(i) =>
           /\ rec = stored /\ held = {}
           /\ \A k \in Ids : /\ ~MovedPartial(k) /\ ~MovedPlaced(k) /\ ~Restarted(k)
                             /\ Active(k) => k = i
                             /\ start[k].at \in {"none", "commit"}
                             /\ clean[k] \in {"none", "sweep"}
BY DEF IInv, TypeOK, AloneInv, StoredInv, CleanInv, Reserved, Active, Transient, MovedPartial,
     MovedPlaced,
       MoveOnly, Restarted

\* What is in the .partial folder has its source, unless it is the half-done move.
LEMMA PartialSource ==
  ASSUME IInv
  PROVE  \A k \in Ids : partial \in {Half(k), Whole(k)} => k \in source \/ MovedPartial(k)
BY ContentFacts DEF IInv, PartialInv, EarlyInv, Restarted, MovedPartial

\* The records with another status, or another owner, of one.
WithStatus(r, i, s) == [r EXCEPT ![i].status = s]
WithOwned(r, i, b)  == [r EXCEPT ![i].owned = b]

\* Another status changes one record, in its status.
LEMMA StatusUpdate ==
  ASSUME NEW r \in AllRecords, NEW i \in Ids, NEW s \in Statuses
  PROVE  /\ WithStatus(r, i, s) \in AllRecords
         /\ WithStatus(r, i, s)[i].status = s /\ WithStatus(r, i, s)[i].owned = r[i].owned
         /\ \A k \in Ids \ {i} : WithStatus(r, i, s)[k] = r[k]
BY DEF AllRecords, WithStatus

\* Another owner changes one record, not in its status.
LEMMA OwnedUpdate ==
  ASSUME NEW r \in AllRecords, NEW i \in Ids, NEW b \in BOOLEAN
  PROVE  /\ WithOwned(r, i, b) \in AllRecords
         /\ \A k \in Ids : WithOwned(r, i, b)[k].status = r[k].status
         /\ \A k \in Ids \ {i} : WithOwned(r, i, b)[k] = r[k]
BY DEF AllRecords, WithOwned

AllCalls == [Ids -> [at : {"none", "reclaim", "drop", "commit"}, of : Ids \cup {"none"}]]
\* The calls with one of them at another step.
WithStep(s, i, a) == [s EXCEPT ![i].at = a]

\* Another step changes one call, in its step.
LEMMA CallUpdate ==
  ASSUME NEW s \in AllCalls, NEW i \in Ids, NEW a \in {"none", "reclaim", "drop", "commit"}
  PROVE  /\ WithStep(s, i, a) \in AllCalls
         /\ WithStep(s, i, a)[i].at = a /\ WithStep(s, i, a)[i].of = s[i].of
         /\ \A k \in Ids \ {i} : WithStep(s, i, a)[k] = s[k]
BY DEF AllCalls, WithStep

\* The calls without one of them.
WithoutCall(s, i) == [s EXCEPT ![i] = NoStart]

\* A call that ends changes no other.
LEMMA CallEnds ==
  ASSUME NEW s \in AllCalls, NEW i \in Ids
  PROVE  /\ WithoutCall(s, i) \in AllCalls
         /\ WithoutCall(s, i)[i].at = "none"
         /\ \A k \in Ids \ {i} : WithoutCall(s, i)[k] = s[k]
BY DEF AllCalls, NoStart, WithoutCall

\* A job that fails, or was cancelled, leaves what it has found (fail).
LEMMA FailKeeps ==
  ASSUME NEW i \in Ids, IInv, Calm, job[i] \in WorkSteps \cup PlaceSteps,
         FailJob(i), Quietly, UNCHANGED <<source, dest>>, partial' = Nothing
  PROVE  IInv'
<1> USE DEF IInv, Calm, Quietly, JobFits, Transient, Active, disk, records, calls, user, cleaning,
     running, WasTransient, Free, Mine, MoveOnly, Restarted, MovedPartial, MovedPlaced, Reserved,
     Early, Late, WorkSteps, PlaceSteps, JobSteps
<1>f0. /\ rec = stored /\ rec[i].status # "none" /\ rec[i].status # "completed"
            /\ library' = library /\ asked' = asked
       /\ \A k \in Ids : ~MovedPartial(k) /\ (Active(k) => k = i)
  BY DEF StepInv, AloneInv, StoredInv, TypeOK
<1>f1. \/ Transient(i) \/ MovedPlaced(i)
  BY DEF StepInv
<1>f2. Mine(i)
  BY <1>f0, <1>f1 DEF EarlyInv, LateInv
<1>f3. \E s \in {"failed", "cancelled"} : rec' = [rec EXCEPT ![i].status = s]
            /\ (stored' = rec' \/ (stored' = stored /\ s = "failed"))
  BY <1>f0 DEF FailJob, Save, SetStatus, TypeOK
<1>f4. \/ job' = [job EXCEPT ![i] = "end"] /\ UNCHANGED <<clean, held>>
       \/ /\ job' = [job EXCEPT ![i] = "discard"] /\ clean' = [clean EXCEPT ![i] = "check"]
          /\ held' = held \cup {i} /\ i \in cancelled
  BY <1>f0 DEF FailJob, Go, TypeOK
<1>f5. \A k \in Ids : ~Active(k)'
  BY <1>f0, <1>f3 DEF TypeOK
<1>1. TypeOK'
  <2>1. {"failed", "cancelled"} \subseteq Statuses /\ rec \in AllRecords /\ stored \in AllRecords
    BY DEF TypeOK, Statuses, AllRecords
  <2>2. rec' \in AllRecords /\ stored' \in AllRecords
    <3>1. PICK s \in {"failed", "cancelled"} : /\ rec' = [rec EXCEPT ![i].status = s]
                                               /\ stored' = rec' \/ stored' = stored
      BY <1>f3
    <3>2. [rec EXCEPT ![i].status = s] \in AllRecords
      <4> HIDE DEF IInv, Quietly
      <4> QED BY <2>1, StatusUpdate DEF WithStatus
    <3> QED BY <3>1, <3>2, <2>1
  <2>3. /\ job' \in [Ids -> JobSteps]
        /\ \A k \in jobs : job'[k] # "none"
    BY <1>f4, SMTT(60) DEF TypeOK
  <2>4. clean' \in [Ids -> {"none", "sweep", "check", "remove"}]
             /\ held' \subseteq {k \in Ids : clean'[k] # "none"}
    BY <1>f4 DEF TypeOK
  <2> QED BY <2>2, <2>3, <2>4, ContentFacts DEF TypeOK, AllRecords
<1>2. StepInv'
  BY <1>f0, <1>f1, <1>f2, <1>f3, <1>f4, <1>f5 DEF TypeOK, StepInv
<1>3. StartInv'
  BY <1>f0, <1>f1, <1>f2, <1>f3, <1>f4, <1>f5 DEF TypeOK, StartInv, AloneInv
<1>4. AloneInv'
  BY <1>f0, <1>f1, <1>f2, <1>f3, <1>f4, <1>f5 DEF TypeOK, AloneInv, StepInv
<1>5. EarlyInv'
  BY <1>f0, <1>f1, <1>f2, <1>f3, <1>f4, <1>f5 DEF TypeOK, AloneInv, EarlyInv, StepInv
<1>6. LateInv'
  BY <1>f0, <1>f1, <1>f2, <1>f3, <1>f4, <1>f5 DEF TypeOK, AloneInv, LateInv, EarlyInv, StepInv
<1>7. CleanInv'
  BY <1>f0, <1>f1, <1>f2, <1>f3, <1>f4, <1>f5 DEF TypeOK, CleanInv, StepInv, LateInv, EarlyInv,
       AloneInv
<1>8. PartialInv'
  BY <1>f0, <1>f1, <1>f2, <1>f3, <1>f4, <1>f5 DEF TypeOK, PartialInv, EarlyInv, StepInv, AloneInv
<1>9. DestInv'
  BY <1>f0, <1>f1, <1>f2, <1>f3, <1>f4, <1>f5 DEF TypeOK, DestInv, StepInv, AloneInv
<1>10. StoredInv'
  <2>1. CASE stored' = rec'
    BY <2>1 DEF StoredInv
  <2>2. CASE stored' = stored /\ rec' = [rec EXCEPT ![i].status = "failed"]
    <3>1. Mine(i)'
      BY <1>f2
    <3> QED BY <2>2, <3>1, <1>f0, <1>f5 DEF StoredInv
  <2> QED BY <1>f3, <2>1, <2>2
<1>11. GameInv'
  BY <1>f0, <1>f1, <1>f2, <1>f3, <1>f4, <1>f5 DEF TypeOK, GameInv
<1>12. CompletedIsGame'
  BY <1>f0, <1>f1, <1>f2, <1>f3, <1>f4, <1>f5 DEF TypeOK, CompletedIsGame, GameInv
<1>13. FilesAreKept'
  BY <1>f0, PartialSource DEF FilesAreKept, GameHasFiles, NeverLost
<1> QED BY <1>1, <1>2, <1>3, <1>4, <1>5, <1>6, <1>7, <1>8, <1>9, <1>10, <1>11, <1>12, <1>13

\* A step of a job before its files are in the folder, which goes on to another such step.
LEMMA EarlyStep ==
  ASSUME NEW i \in Ids, IInv, Calm, NEW t \in WorkSteps, Early(i), job[i] # "none",
         rec' = stored', rec' \in AllRecords, \A k \in Ids \ {i} : rec'[k] = rec[k], Transient(i)',
         rec'[i].status # "pending", job' = [job EXCEPT ![i] = t], UNCHANGED source,
         dest' \in {dest, Nothing}, UNCHANGED cleaning, Quietly,
         partial' = (CASE t = "copying" -> Half(i) [] t = "commit" -> Whole(i) [] OTHER -> Nothing)
  PROVE  IInv'
<1> USE DEF IInv, Calm, Quietly, AllRecords, JobFits, Transient, Active, disk, records, calls,
     user, cleaning, running, WasTransient, Free, Mine, MoveOnly, Restarted, MovedPartial,
     MovedPlaced, Reserved, Early, Late, WorkSteps, PlaceSteps, JobSteps
<1>f0. /\ rec = stored /\ held = {} /\ retry = {} /\ Free /\ Free' /\ i \in source
       /\ \A k \in Ids : /\ ~MovedPartial(k) /\ ~MovedPlaced(k) /\ ~Restarted(k)
                         /\ Active(k) => k = i
                         /\ start[k].at \in {"none", "commit"} /\ clean[k] = "none"
  BY ActiveFacts DEF EarlyInv, TypeOK
<1>f1. partial' \in Contents \ {Empty}
  BY ContentFacts DEF Contents
<1>f2. \A k \in Ids : dest' # Half(k) /\ dest' # Whole(k) /\ dest # Whole(k)
  BY <1>f0, ContentFacts
<1>f3. \A k \in Ids : k # i => partial' # Whole(k) /\ partial' # Half(k)
  BY ContentFacts
<1>f4. \A k \in Ids : partial = Whole(k) => k \in source
  BY <1>f0, PartialSource
<1>f5. job' \in [Ids -> JobSteps]
       /\ \A k \in jobs : job'[k] # "none"
  BY DEF TypeOK
<1>f6. /\ Transient(i) /\ Early(i)' /\ \A k \in Ids \ {i} : rec'[k] = rec[k]
            /\ stored'[k] = stored[k]
  BY <1>f0 DEF TypeOK
<1>1. TypeOK'
  BY <1>f1, <1>f5, <1>f0, ContentFacts DEF TypeOK
<1>2. StepInv'
  BY <1>f0, <1>f1, <1>f2, <1>f3, <1>f4, <1>f5, <1>f6 DEF TypeOK, StepInv
<1>3. StartInv'
  BY <1>f0, <1>f1, <1>f2, <1>f3, <1>f4, <1>f5, <1>f6 DEF TypeOK, StartInv, AloneInv
<1>4. AloneInv'
  BY <1>f0, <1>f1, <1>f2, <1>f3, <1>f4, <1>f5, <1>f6 DEF TypeOK, AloneInv, StepInv
<1>5. EarlyInv'
  BY <1>f0, <1>f1, <1>f2, <1>f3, <1>f4, <1>f5, <1>f6 DEF TypeOK, AloneInv, EarlyInv, StepInv
<1>6. LateInv'
  BY <1>f0, <1>f1, <1>f2, <1>f3, <1>f4, <1>f5, <1>f6 DEF TypeOK, AloneInv, LateInv, EarlyInv,
       StepInv
<1>7. CleanInv'
  BY <1>f0, <1>f1, <1>f2, <1>f3, <1>f4, <1>f5, <1>f6 DEF TypeOK, CleanInv, StepInv, LateInv,
       EarlyInv, AloneInv
<1>8. PartialInv'
  BY <1>f0, <1>f1, <1>f2, <1>f3, <1>f4, <1>f5, <1>f6 DEF TypeOK, PartialInv, EarlyInv, StepInv,
       AloneInv
<1>9. DestInv'
  BY <1>f0, <1>f1, <1>f2, <1>f3, <1>f4, <1>f5, <1>f6 DEF TypeOK, DestInv, StepInv, AloneInv
<1>10. StoredInv'
  BY <1>f0, <1>f1, <1>f2, <1>f3, <1>f4, <1>f5, <1>f6 DEF TypeOK, StoredInv, StepInv, AloneInv
<1>11. GameInv'
  BY <1>f0, <1>f1, <1>f2, <1>f3, <1>f4, <1>f5, <1>f6 DEF TypeOK, GameInv
<1>12. CompletedIsGame'
  BY <1>f0, <1>f1, <1>f2, <1>f3, <1>f4, <1>f5, <1>f6 DEF TypeOK, CompletedIsGame, GameInv
<1>13. FilesAreKept'
  BY <1>f0, <1>f1, <1>f2, <1>f3, <1>f4, <1>f5, <1>f6 DEF TypeOK, FilesAreKept, GameHasFiles,
       NeverLost
<1> QED BY <1>1, <1>2, <1>3, <1>4, <1>5, <1>6, <1>7, <1>8, <1>9, <1>10, <1>11, <1>12, <1>13

\* The step that puts the files in the folder (renameSource, commit).
LEMMA PlaceStep ==
  ASSUME NEW i \in Ids, IInv, Calm, Early(i), job[i] # "none", UNCHANGED records,
         job' = [job EXCEPT ![i] = "finalize"], source' \in {source, source \ {i}},
         dest' = Whole(i), partial' = Nothing, UNCHANGED cleaning, Quietly,
              rec[i].status # "pending"
  PROVE  IInv'
<1> USE DEF IInv, Calm, Quietly, JobFits, Transient, Active, disk, records, calls, user, cleaning,
     running, WasTransient, Free, Mine, MoveOnly, Restarted, MovedPartial, MovedPlaced, Reserved,
     Early, Late, WorkSteps, PlaceSteps, JobSteps
<1>f0. /\ rec = stored /\ held = {} /\ Free /\ i \in source
       /\ \A k \in Ids : /\ ~MovedPartial(k) /\ ~MovedPlaced(k) /\ ~Restarted(k)
                         /\ Active(k) => k = i
                         /\ start[k].at \in {"none", "commit"} /\ clean[k] = "none"
                              /\ \A g \in library : g \in asked
  BY ActiveFacts DEF EarlyInv, TypeOK
<1>f1. \A k \in Ids : dest' # Half(k) /\ (dest' = Whole(k) => k = i) /\ dest # Whole(k)
  BY <1>f0, ContentFacts
<1>f2. \A k \in Ids : partial = Whole(k) => k \in source
  BY <1>f0, PartialSource
<1>f3. job' \in [Ids -> JobSteps]
       /\ \A k \in jobs : job'[k] # "none"
  BY DEF TypeOK
<1>f4. Transient(i) /\ job'[i] = "finalize" /\ ~Early(i)'
            /\ \A k \in Ids \ {i} : job'[k] = job[k] /\ ~Active(k)
  BY <1>f0 DEF TypeOK
<1>1. TypeOK'
  BY <1>f0, <1>f1, <1>f2, <1>f3, <1>f4, ContentFacts DEF TypeOK, Statuses
<1>2. StepInv'
  BY <1>f0, <1>f1, <1>f2, <1>f3, <1>f4 DEF TypeOK, StepInv
<1>3. StartInv'
  BY <1>f0, <1>f1, <1>f2, <1>f3, <1>f4 DEF TypeOK, StartInv, AloneInv
<1>4. AloneInv'
  BY <1>f0, <1>f1, <1>f2, <1>f3, <1>f4 DEF TypeOK, AloneInv, StepInv
<1>5. EarlyInv'
  BY <1>f0, <1>f1, <1>f2, <1>f3, <1>f4 DEF TypeOK, AloneInv, EarlyInv, StepInv
<1>6. LateInv'
  BY <1>f0, <1>f1, <1>f2, <1>f3, <1>f4 DEF TypeOK, AloneInv, LateInv, EarlyInv, StepInv
<1>7. CleanInv'
  BY <1>f0, <1>f1, <1>f2, <1>f3, <1>f4 DEF TypeOK, CleanInv, StepInv, LateInv, EarlyInv, AloneInv
<1>8. PartialInv'
  BY <1>f0, <1>f1, <1>f2, <1>f3, <1>f4 DEF TypeOK, PartialInv, EarlyInv, StepInv, AloneInv
<1>9. DestInv'
  BY <1>f0, <1>f1, <1>f2, <1>f3, <1>f4 DEF TypeOK, DestInv, StepInv, AloneInv
<1>10. StoredInv'
  BY <1>f0, <1>f1, <1>f2, <1>f3, <1>f4 DEF TypeOK, StoredInv, StepInv, AloneInv
<1>11. GameInv'
  BY <1>f0, <1>f1, <1>f2, <1>f3, <1>f4 DEF TypeOK, GameInv
<1>12. CompletedIsGame'
  BY <1>f0, <1>f1, <1>f2, <1>f3, <1>f4 DEF TypeOK, CompletedIsGame, GameInv
<1>13. FilesAreKept'
  BY <1>f0, <1>f1, <1>f2, <1>f3, <1>f4 DEF TypeOK, FilesAreKept, GameHasFiles, NeverLost
<1> QED BY <1>1, <1>2, <1>3, <1>4, <1>5, <1>6, <1>7, <1>8, <1>9, <1>10, <1>11, <1>12, <1>13

\* A step of a job whose files are in the folder, which goes on.
LEMMA LateStep ==
  ASSUME NEW i \in Ids, IInv, Calm, NEW t \in {"find", "register", "complete", "after"},
         job[i] \in PlaceSteps, job' = [job EXCEPT ![i] = t], Quietly,
         rec' = stored', rec' \in AllRecords, \A k \in Ids \ {i} : rec'[k] = rec[k],
         Active(i)', Transient(i)' <=> t # "after", rec'[i].status # "pending",
         t = "complete" => i \in library,
         Transient(i) \/ (MovedPlaced(i) /\ t = "find"), UNCHANGED disk, UNCHANGED cleaning
  PROVE  IInv'
<1> USE DEF IInv, Calm, Quietly, AllRecords, JobFits, Transient, Active, disk, records, calls,
     user, cleaning, running, WasTransient, Free, Mine, MoveOnly, Restarted, MovedPartial,
     MovedPlaced, Reserved, Early, Late, WorkSteps, PlaceSteps, JobSteps
<1>f0. /\ rec = stored /\ held = {} /\ dest = Whole(i) /\ partial = Nothing
       /\ \A k \in Ids : /\ ~MovedPartial(k) /\ ~Restarted(k)
                              /\ (k # i => ~Active(k) /\ ~MovedPlaced(k))
                         /\ start[k].at \in {"none", "commit"} /\ clean[k] \in {"none", "sweep"}
  <2>1. CASE Transient(i)
    <3>1. dest = Whole(i) /\ partial = Nothing
      BY <2>1 DEF LateInv
    <3>2. Active(i)
      BY <2>1
    <3> QED BY <3>1, <3>2, ActiveFacts
  <2>2. CASE MovedPlaced(i)
    BY <2>2, ContentFacts DEF TypeOK
  <2> QED BY <2>1, <2>2
<1>f1. job' \in [Ids -> JobSteps]
       /\ \A k \in jobs : job'[k] # "none"
  BY DEF TypeOK
<1>f2. job'[i] = t /\ ~Early(i)' /\ \A k \in Ids \ {i} : job'[k] = job[k]
  BY DEF TypeOK
<1>f3. \A k \in Ids : dest # Half(k) /\ (k # i => ~Active(k)')
  BY <1>f0, ContentFacts
<1>f4. rec[i].status \notin {"completed", "none"} /\ rec'[i].status # "completed"
  OBVIOUS
<1>f5. \A k \in Ids \ {i} : /\ job[k] \notin WorkSteps \cup PlaceSteps \cup {"recover"}
                          /\ rec[k].status # "pending" /\ ~Transient(k)'
  BY <1>f0, <1>f3 DEF StepInv
<1>f6. ~Reserved'
  BY <1>f0 DEF TypeOK
<1>1. TypeOK'
  BY <1>f0, <1>f1, <1>f2, <1>f3, <1>f4, <1>f5, <1>f6 DEF TypeOK, Statuses
<1>2. StepInv'
  <2>1. JobFits(i)'
    <3>1. t # "complete" \/ t # "after"
      OBVIOUS
    <3> HIDE DEF IInv, MovedPlaced, MovedPartial, Quietly
    <3>2. CASE Transient(i)'
      BY <3>2, <1>f2
    <3>3. CASE ~Transient(i)' /\ rec'[i].status = "waiting" /\ t = "after"
      BY <3>3, <1>f2
    <3> QED BY <3>2, <3>3
  <2>2. \A k \in Ids \ {i} : JobFits(k)'
    BY <1>f0, <1>f2, <1>f5 DEF StepInv
  <2> QED BY <2>1, <2>2 DEF StepInv
<1>3. StartInv'
  BY <1>f0, <1>f1, <1>f2, <1>f3, <1>f4, <1>f5, <1>f6 DEF TypeOK, StartInv, AloneInv
<1>4. AloneInv'
  BY <1>f0, <1>f1, <1>f2, <1>f3, <1>f4, <1>f5, <1>f6 DEF TypeOK, AloneInv, StepInv
<1>5. EarlyInv'
  BY <1>f0, <1>f1, <1>f2, <1>f3, <1>f4, <1>f5, <1>f6 DEF TypeOK, AloneInv, EarlyInv, StepInv
<1>6. LateInv'
  BY <1>f0, <1>f1, <1>f2, <1>f3, <1>f4, <1>f5, <1>f6 DEF TypeOK, AloneInv, LateInv, EarlyInv,
       StepInv
<1>7. CleanInv'
  BY <1>f0, <1>f1, <1>f2, <1>f3, <1>f4, <1>f5, <1>f6 DEF TypeOK, CleanInv, StepInv, LateInv,
       EarlyInv, AloneInv
<1>8. PartialInv'
  BY <1>f0, <1>f1, <1>f2, <1>f3, <1>f4, <1>f5, <1>f6 DEF TypeOK, PartialInv, EarlyInv, StepInv,
       AloneInv
<1>9. DestInv'
  BY <1>f0, <1>f1, <1>f2, <1>f3, <1>f4, <1>f5, <1>f6 DEF TypeOK, DestInv, StepInv, AloneInv
<1>10. StoredInv'
  BY <1>f0, <1>f1, <1>f2, <1>f3, <1>f4, <1>f5, <1>f6 DEF TypeOK, StoredInv, StepInv, AloneInv
<1>11. GameInv'
  BY <1>f0, <1>f1, <1>f2, <1>f3, <1>f4, <1>f5, <1>f6 DEF TypeOK, GameInv
<1>12. CompletedIsGame'
  BY <1>f0, <1>f1, <1>f2, <1>f3, <1>f4, <1>f5, <1>f6 DEF TypeOK, CompletedIsGame, GameInv
<1>13. FilesAreKept'
  BY <1>f0, <1>f1, <1>f2, <1>f3, <1>f4, <1>f5, <1>f6 DEF TypeOK, FilesAreKept, GameHasFiles,
       NeverLost
<1> QED BY <1>1, <1>2, <1>3, <1>4, <1>5, <1>6, <1>7, <1>8, <1>9, <1>10, <1>11, <1>12, <1>13

\* The record says it is complete, after the game is in the library (complete).
LEMMA JobCompleteDone ==
  ASSUME NEW i \in Ids, IInv, Calm, At(i, "complete"), SetStatus(i, "completed"),
              Continue(i, "after"), UNCHANGED disk, Quietly
  PROVE  IInv'
<1> USE DEF IInv, Calm, Quietly, At, SetStatus, Save, Continue, Go, JobFits, Transient, Active,
     disk, records, calls, user, cleaning, running, WasTransient, Free, Mine, MoveOnly, Restarted,
     MovedPartial, MovedPlaced, Reserved, Early, Late, WorkSteps, PlaceSteps, JobSteps
<1>f0. Transient(i)
  BY DEF StepInv
<1>f1. /\ rec = stored /\ held = {}
       /\ \A k \in Ids : /\ ~MovedPartial(k) /\ ~MovedPlaced(k) /\ ~Restarted(k)
                         /\ Active(k) => k = i
                         /\ start[k].at \in {"none", "commit"}
                              /\ clean[k] \in {"none", "sweep"}/\ dest = Whole(i)
                                   /\ partial = Nothing /\ (i \in library \/ i \in asked)
  BY <1>f0, ActiveFacts DEF LateInv, GameInv
<1>f2. rec' \in AllRecords
  <2>1. rec \in AllRecords /\ "completed" \in Statuses
    BY DEF TypeOK, AllRecords, Statuses
  <2> HIDE DEF IInv, Quietly, SetStatus, Save, Continue
  <2>2. rec' = WithStatus(rec, i, "completed")
    BY DEF SetStatus, Save, WithStatus
  <2> QED BY <2>1, <2>2, StatusUpdate
<1>f3. job' \in [Ids -> JobSteps] /\ \A k \in jobs : job'[k] # "none"
  BY DEF TypeOK
<1>f4. rec'[i].status = "completed" /\ job'[i] = "after"
            /\ \A k \in Ids \ {i} : rec'[k] = rec[k] /\ job'[k] = job[k]
  BY DEF TypeOK
<1>f5. \A k \in Ids : ~Active(k)' /\ dest # Half(k)
  BY <1>f0, <1>f1, <1>f4, ContentFacts DEF TypeOK
<1>1. TypeOK'
  BY <1>f2, <1>f3 DEF TypeOK, AllRecords
<1>2. StepInv'
  BY <1>f0, <1>f1, <1>f2, <1>f3, <1>f4, <1>f5 DEF TypeOK, StepInv
<1>3. StartInv'
  BY <1>f0, <1>f1, <1>f2, <1>f3, <1>f4, <1>f5 DEF TypeOK, StartInv, AloneInv
<1>4. AloneInv'
  BY <1>f0, <1>f1, <1>f2, <1>f3, <1>f4, <1>f5 DEF TypeOK, AloneInv, StepInv
<1>5. EarlyInv'
  BY <1>f0, <1>f1, <1>f2, <1>f3, <1>f4, <1>f5 DEF TypeOK, AloneInv, EarlyInv, StepInv
<1>6. LateInv'
  BY <1>f0, <1>f1, <1>f2, <1>f3, <1>f4, <1>f5 DEF TypeOK, AloneInv, LateInv, EarlyInv, StepInv
<1>7. CleanInv'
  BY <1>f0, <1>f1, <1>f2, <1>f3, <1>f4, <1>f5 DEF TypeOK, CleanInv, StepInv, LateInv, EarlyInv,
       AloneInv
<1>8. PartialInv'
  BY <1>f0, <1>f1, <1>f2, <1>f3, <1>f4, <1>f5 DEF TypeOK, PartialInv, EarlyInv, StepInv, AloneInv
<1>9. DestInv'
  BY <1>f0, <1>f1, <1>f2, <1>f3, <1>f4, <1>f5 DEF TypeOK, DestInv, StepInv, AloneInv
<1>10. StoredInv'
  BY <1>f0, <1>f1, <1>f2, <1>f3, <1>f4, <1>f5 DEF TypeOK, StoredInv, StepInv, AloneInv
<1>11. GameInv'
  BY <1>f0, <1>f1, <1>f2, <1>f3, <1>f4, <1>f5 DEF TypeOK, GameInv
<1>12. CompletedIsGame'
  BY <1>f0, <1>f1, <1>f2, <1>f3, <1>f4, <1>f5 DEF TypeOK, CompletedIsGame, GameInv
<1>13. FilesAreKept'
  BY <1>f0, <1>f1, <1>f2, <1>f3, <1>f4, <1>f5 DEF TypeOK, FilesAreKept, GameHasFiles, NeverLost
<1> QED BY <1>1, <1>2, <1>3, <1>4, <1>5, <1>6, <1>7, <1>8, <1>9, <1>10, <1>11, <1>12, <1>13

\* The source goes when the files are in the folder, or the user has removed them.
LEMMA JobAfterKeeps ==
  ASSUME NEW i \in Ids, IInv, Calm, JobAfter(i)
  PROVE  IInv'
<1> USE DEF IInv, Calm, Quietly, JobAfter, At, Continue, Go, JobFits, Transient, Active, disk,
     records, calls, user, cleaning, running, WasTransient, Free, Mine, MoveOnly, Restarted,
     MovedPartial, MovedPlaced, Reserved, Early, Late, WorkSteps, PlaceSteps, JobSteps
<1>f0. \A k \in Ids : ~MovedPartial(k) /\ ~MovedPlaced(k) /\ ~Restarted(k)
  BY DEF TypeOK
<1>f1. i \in asked \/ (dest = Whole(i) /\ \A k \in Ids : partial = Whole(k) => k # i)
  BY <1>f0, ContentFacts, PartialSource DEF StepInv, LateInv, CompletedIsGame, FilesAreKept,
       GameHasFiles, PartialInv
<1>f2. ~Early(i) /\ \A k \in Ids : Early(k) => k # i
  OBVIOUS
<1>f3. job' \in [Ids -> JobSteps] /\ \A k \in jobs : job'[k] # "none"
  BY DEF TypeOK
<1>f4. job'[i] = "end" /\ \A k \in Ids \ {i} : job'[k] = job[k]
  BY DEF TypeOK
<1>f5. rec[i].status \in {"waiting", "completed"} \/ i \in asked
  BY DEF StepInv
<1>1. TypeOK'
  BY <1>f0, <1>f1, <1>f2, <1>f3, <1>f4, <1>f5 DEF TypeOK, Statuses
<1>2. StepInv'
  BY <1>f0, <1>f1, <1>f2, <1>f3, <1>f4, <1>f5 DEF TypeOK, StepInv
<1>3. StartInv'
  BY <1>f0, <1>f1, <1>f2, <1>f3, <1>f4, <1>f5 DEF TypeOK, StartInv, AloneInv
<1>4. AloneInv'
  BY <1>f0, <1>f1, <1>f2, <1>f3, <1>f4, <1>f5 DEF TypeOK, AloneInv, StepInv
<1>5. EarlyInv'
  BY <1>f0, <1>f1, <1>f2, <1>f3, <1>f4, <1>f5 DEF TypeOK, AloneInv, EarlyInv, StepInv
<1>6. LateInv'
  BY <1>f0, <1>f1, <1>f2, <1>f3, <1>f4, <1>f5 DEF TypeOK, AloneInv, LateInv, EarlyInv, StepInv
<1>7. CleanInv'
  BY <1>f0, <1>f1, <1>f2, <1>f3, <1>f4, <1>f5 DEF TypeOK, CleanInv, StepInv, LateInv, EarlyInv,
       AloneInv
<1>8. PartialInv'
  BY <1>f0, <1>f1, <1>f2, <1>f3, <1>f4, <1>f5 DEF TypeOK, PartialInv, EarlyInv, StepInv, AloneInv
<1>9. DestInv'
  BY <1>f0, <1>f1, <1>f2, <1>f3, <1>f4, <1>f5 DEF TypeOK, DestInv, StepInv, AloneInv
<1>10. StoredInv'
  BY <1>f0, <1>f1, <1>f2, <1>f3, <1>f4, <1>f5 DEF TypeOK, StoredInv, StepInv, AloneInv
<1>11. GameInv'
  BY <1>f0, <1>f1, <1>f2, <1>f3, <1>f4, <1>f5 DEF TypeOK, GameInv
<1>12. CompletedIsGame'
  BY <1>f0, <1>f1, <1>f2, <1>f3, <1>f4, <1>f5 DEF TypeOK, CompletedIsGame, GameInv
<1>13. FilesAreKept'
  BY <1>f0, <1>f1, <1>f2, <1>f3, <1>f4, <1>f5 DEF TypeOK, FilesAreKept, GameHasFiles, NeverLost
<1> QED BY <1>1, <1>2, <1>3, <1>4, <1>5, <1>6, <1>7, <1>8, <1>9, <1>10, <1>11, <1>12, <1>13

\* A job that ends is no more (endJob).
LEMMA JobEndKeeps ==
  ASSUME NEW i \in Ids, IInv, Calm, JobEnd(i)
  PROVE  IInv'
<1> USE DEF IInv, Calm, JobEnd, At, Go, JobFits, Transient, Active, disk, records, calls, user,
     cleaning, running, WasTransient, Free, Mine, MoveOnly, Restarted, MovedPartial, MovedPlaced,
     Reserved, Early, Late, WorkSteps, PlaceSteps, JobSteps
<1>f0. \A k \in Ids : ~MovedPartial(k) /\ ~MovedPlaced(k) /\ ~Restarted(k)
  BY DEF TypeOK
<1>f1. ~Transient(i) /\ ~Early(i)
  BY DEF StepInv
<1>f2. job' \in [Ids -> JobSteps] /\ \A k \in jobs' : job'[k] # "none"
  BY DEF TypeOK
<1>f3. job'[i] = "none" /\ \A k \in Ids \ {i} : job'[k] = job[k]
  BY DEF TypeOK
<1>1. TypeOK'
  BY <1>f0, <1>f1, <1>f2, <1>f3 DEF TypeOK, Statuses
<1>2. StepInv'
  BY <1>f0, <1>f1, <1>f2, <1>f3 DEF TypeOK, StepInv
<1>3. StartInv'
  BY <1>f0, <1>f1, <1>f2, <1>f3 DEF TypeOK, StartInv, AloneInv
<1>4. AloneInv'
  BY <1>f0, <1>f1, <1>f2, <1>f3 DEF TypeOK, AloneInv, StepInv
<1>5. EarlyInv'
  BY <1>f0, <1>f1, <1>f2, <1>f3 DEF TypeOK, AloneInv, EarlyInv, StepInv
<1>6. LateInv'
  BY <1>f0, <1>f1, <1>f2, <1>f3 DEF TypeOK, AloneInv, LateInv, EarlyInv, StepInv
<1>7. CleanInv'
  BY <1>f0, <1>f1, <1>f2, <1>f3 DEF TypeOK, CleanInv, StepInv, LateInv, EarlyInv, AloneInv
<1>8. PartialInv'
  BY <1>f0, <1>f1, <1>f2, <1>f3 DEF TypeOK, PartialInv, EarlyInv, StepInv, AloneInv
<1>9. DestInv'
  BY <1>f0, <1>f1, <1>f2, <1>f3 DEF TypeOK, DestInv, StepInv, AloneInv
<1>10. StoredInv'
  BY <1>f0, <1>f1, <1>f2, <1>f3 DEF TypeOK, StoredInv, StepInv, AloneInv
<1>11. GameInv'
  BY <1>f0, <1>f1, <1>f2, <1>f3 DEF TypeOK, GameInv
<1>12. CompletedIsGame'
  BY <1>f0, <1>f1, <1>f2, <1>f3 DEF TypeOK, CompletedIsGame, GameInv
<1>13. FilesAreKept'
  BY <1>f0, <1>f1, <1>f2, <1>f3 DEF TypeOK, FilesAreKept, GameHasFiles, NeverLost
<1> QED BY <1>1, <1>2, <1>3, <1>4, <1>5, <1>6, <1>7, <1>8, <1>9, <1>10, <1>11, <1>12, <1>13

\* The half-done move is finished: its files are in the folder, whole, and nowhere else.
LEMMA RecoverSteps ==
  ASSUME NEW i \in Ids, IInv, Calm, At(i, "recover"), partial' = Nothing, Quietly,
              Continue(i, "finalize"),
         UNCHANGED <<source, records>>, dest' = Whole(i)
  PROVE  IInv'
<1> USE DEF IInv, Calm, Quietly, At, Continue, Go, JobFits, Transient, Active, disk, records,
     calls, user, cleaning, running, WasTransient, Free, Mine, MoveOnly, Restarted, MovedPartial,
     MovedPlaced, Reserved, Early, Late, WorkSteps, PlaceSteps, JobSteps
<1>f0. MovedPartial(i) /\ \A k \in Ids : k # i => ~MovedPartial(k)
  BY DEF StepInv
<1>f1. \A k \in Ids : /\ ~Active(k) /\ ~MovedPlaced(k) /\ ~Restarted(k) /\ k \notin held
                           /\ clean[k] = "none"
                      /\ dest' # Half(k) /\ (dest' = Whole(k) => k = i)
  BY <1>f0, ContentFacts
<1>f2. job' \in [Ids -> JobSteps] /\ \A k \in jobs : job'[k] # "none"
  BY DEF TypeOK
<1>f3. job'[i] = "finalize" /\ \A k \in Ids \ {i} : job'[k] = job[k]
  BY DEF TypeOK
<1>f4. MovedPlaced(i)'
  BY <1>f0, <1>f3 DEF TypeOK
<1>f5. \A k \in Ids : (partial = Whole(k) => k = i) /\ (dest = Whole(k) => k = i)
  BY <1>f0, ContentFacts
<1>1. TypeOK'
  BY <1>f0, <1>f1, <1>f2, <1>f3, <1>f4, <1>f5, ContentFacts DEF TypeOK, Statuses
<1>2. StepInv'
  BY <1>f0, <1>f1, <1>f2, <1>f3, <1>f4, <1>f5 DEF TypeOK, StepInv
<1>3. StartInv'
  BY <1>f0, <1>f1, <1>f2, <1>f3, <1>f4, <1>f5 DEF TypeOK, StartInv, AloneInv
<1>4. AloneInv'
  BY <1>f0, <1>f1, <1>f2, <1>f3, <1>f4, <1>f5 DEF TypeOK, AloneInv, StepInv
<1>5. EarlyInv'
  BY <1>f0, <1>f1, <1>f2, <1>f3, <1>f4, <1>f5 DEF TypeOK, AloneInv, EarlyInv, StepInv
<1>6. LateInv'
  BY <1>f0, <1>f1, <1>f2, <1>f3, <1>f4, <1>f5 DEF TypeOK, AloneInv, LateInv, EarlyInv, StepInv
<1>7. CleanInv'
  BY <1>f0, <1>f1, <1>f2, <1>f3, <1>f4, <1>f5 DEF TypeOK, CleanInv, StepInv, LateInv, EarlyInv,
       AloneInv
<1>8. PartialInv'
  BY <1>f0, <1>f1, <1>f2, <1>f3, <1>f4, <1>f5 DEF TypeOK, PartialInv, EarlyInv, StepInv, AloneInv
<1>9. DestInv'
  BY <1>f0, <1>f1, <1>f2, <1>f3, <1>f4, <1>f5 DEF TypeOK, DestInv, StepInv, AloneInv
<1>10. StoredInv'
  BY <1>f0, <1>f1, <1>f2, <1>f3, <1>f4, <1>f5 DEF TypeOK, StoredInv, StepInv, AloneInv
<1>11. GameInv'
  BY <1>f0, <1>f1, <1>f2, <1>f3, <1>f4, <1>f5 DEF TypeOK, GameInv
<1>12. CompletedIsGame'
  BY <1>f0, <1>f1, <1>f2, <1>f3, <1>f4, <1>f5 DEF TypeOK, CompletedIsGame, GameInv
<1>13. FilesAreKept'
  BY <1>f0, <1>f1, <1>f2, <1>f3, <1>f4, <1>f5 DEF TypeOK, FilesAreKept, GameHasFiles, NeverLost
<1> QED BY <1>1, <1>2, <1>3, <1>4, <1>5, <1>6, <1>7, <1>8, <1>9, <1>10, <1>11, <1>12, <1>13

\* ... its other half in the folder goes first.
LEMMA RecoverClears ==
  ASSUME NEW i \in Ids, IInv, Calm, At(i, "recover"), dest = Half(i), dest' = Nothing, Quietly,
         UNCHANGED <<source, records, partial, job, cleaning>>
  PROVE  IInv'
<1> USE DEF IInv, Calm, Quietly, At, JobFits, Transient, Active, disk, records, calls, user,
     cleaning, running, WasTransient, Free, Mine, MoveOnly, Restarted, MovedPartial, MovedPlaced,
     Reserved, Early, Late, WorkSteps, PlaceSteps, JobSteps
<1>f0. MovedPartial(i) /\ \A k \in Ids : k # i => ~MovedPartial(k)
  BY DEF StepInv
<1>f1. \A k \in Ids : /\ ~Active(k) /\ ~MovedPlaced(k) /\ ~Restarted(k) /\ k \notin held
                      /\ dest' # Half(k) /\ dest # Whole(k) /\ dest' # Whole(k)
  BY <1>f0, ContentFacts
<1>f2. MovedPartial(i)'
  BY <1>f0 DEF TypeOK
<1>1. TypeOK'
  BY <1>f0, <1>f1, <1>f2, ContentFacts DEF TypeOK, Statuses
<1>2. StepInv'
  BY <1>f0, <1>f1, <1>f2 DEF TypeOK, StepInv
<1>3. StartInv'
  BY <1>f0, <1>f1, <1>f2 DEF TypeOK, StartInv, AloneInv
<1>4. AloneInv'
  BY <1>f0, <1>f1, <1>f2 DEF TypeOK, AloneInv, StepInv
<1>5. EarlyInv'
  BY <1>f0, <1>f1, <1>f2 DEF TypeOK, AloneInv, EarlyInv, StepInv
<1>6. LateInv'
  BY <1>f0, <1>f1, <1>f2 DEF TypeOK, AloneInv, LateInv, EarlyInv, StepInv
<1>7. CleanInv'
  BY <1>f0, <1>f1, <1>f2 DEF TypeOK, CleanInv, StepInv, LateInv, EarlyInv, AloneInv
<1>8. PartialInv'
  BY <1>f0, <1>f1, <1>f2 DEF TypeOK, PartialInv, EarlyInv, StepInv, AloneInv
<1>9. DestInv'
  BY <1>f0, <1>f1, <1>f2 DEF TypeOK, DestInv, StepInv, AloneInv
<1>10. StoredInv'
  BY <1>f0, <1>f1, <1>f2 DEF TypeOK, StoredInv, StepInv, AloneInv
<1>11. GameInv'
  BY <1>f0, <1>f1, <1>f2 DEF TypeOK, GameInv
<1>12. CompletedIsGame'
  BY <1>f0, <1>f1, <1>f2 DEF TypeOK, CompletedIsGame, GameInv
<1>13. FilesAreKept'
  BY <1>f0, <1>f1, <1>f2 DEF TypeOK, FilesAreKept, GameHasFiles, NeverLost
<1> QED BY <1>1, <1>2, <1>3, <1>4, <1>5, <1>6, <1>7, <1>8, <1>9, <1>10, <1>11, <1>12, <1>13

\* recoverMovePartial
LEMMA JobRecoverKeeps ==
  ASSUME NEW i \in Ids, IInv, Calm, JobRecover(i)
  PROVE  IInv'
<1>1. /\ At(i, "recover") /\ partial = Whole(i) /\ dest \in {Nothing, Empty, Half(i), Whole(i)}
      /\ UNCHANGED source /\ Quietly
  BY DEF IInv, StepInv, JobFits, JobRecover, At, MovedPartial
<1>2. CASE Free
  <2>1. dest' = Whole(i) /\ partial' = Nothing /\ Continue(i, "finalize") /\ UNCHANGED records
    BY <1>1, <1>2, ContentFacts DEF JobRecover, Free
  <2> QED BY <1>1, <2>1, RecoverSteps
<1>3. CASE dest = Half(i)
  <2>1. dest' = Nothing /\ UNCHANGED <<partial, records, job, cleaning>>
    BY <1>3, ContentFacts DEF JobRecover, Free
  <2> QED BY <1>1, <1>3, <2>1, RecoverClears DEF records, cleaning
<1>4. CASE dest = Whole(i)
  <2>1. dest' = Whole(i) /\ partial' = Nothing /\ Continue(i, "finalize") /\ UNCHANGED records
    BY <1>4, ContentFacts DEF JobRecover, Free
  <2> QED BY <1>1, <2>1, RecoverSteps
<1> QED BY <1>1, <1>2, <1>3, <1>4 DEF Free

\* The game is in the library, its files are whole.
LEMMA JobRegisterDone ==
  ASSUME NEW i \in Ids, IInv, Calm, At(i, "register"), library' = library \cup {i},
              Continue(i, "complete"), UNCHANGED records,
         UNCHANGED <<disk, jobs, cancelled, calls, asked, removing, crashes, kind>>
  PROVE  IInv'
<1> USE DEF IInv, Calm, At, Continue, Go, JobFits, Transient, Active, disk, records, calls, user,
     cleaning, running, WasTransient, Free, Mine, MoveOnly, Restarted, MovedPartial, MovedPlaced,
     Reserved, Early, Late, WorkSteps, PlaceSteps, JobSteps
<1>f0. Transient(i)
  BY DEF StepInv
<1>f1. /\ rec = stored /\ held = {}
       /\ \A k \in Ids : /\ ~MovedPartial(k) /\ ~MovedPlaced(k) /\ ~Restarted(k)
                         /\ Active(k) => k = i
                         /\ start[k].at \in {"none", "commit"}
                              /\ clean[k] \in {"none", "sweep"}/\ dest = Whole(i)
                                   /\ partial = Nothing
  BY <1>f0, ActiveFacts DEF LateInv, GameInv
<1>f2. job' \in [Ids -> JobSteps] /\ \A k \in jobs : job'[k] # "none"
  BY DEF TypeOK
<1>f3. job'[i] = "complete" /\ \A k \in Ids \ {i} : job'[k] = job[k] /\ ~Active(k)
  BY <1>f1 DEF TypeOK
<1>f4. ~Early(i) /\ ~Early(i)' /\ Active(i)'
  BY <1>f0, <1>f3
<1>f5. \A k \in Ids : clean[k] # "remove"
  BY <1>f1
<1>1. TypeOK'
  BY <1>f0, <1>f1, <1>f2, <1>f3, <1>f4, <1>f5 DEF TypeOK, Statuses
<1>2. StepInv'
  BY <1>f0, <1>f1, <1>f2, <1>f3, <1>f4, <1>f5 DEF TypeOK, StepInv
<1>3. StartInv'
  BY <1>f0, <1>f1, <1>f2, <1>f3, <1>f4, <1>f5 DEF TypeOK, StartInv, AloneInv
<1>4. AloneInv'
  BY <1>f0, <1>f1, <1>f2, <1>f3, <1>f4, <1>f5 DEF TypeOK, AloneInv, StepInv
<1>5. EarlyInv'
  BY <1>f0, <1>f1, <1>f2, <1>f3, <1>f4, <1>f5 DEF TypeOK, AloneInv, EarlyInv, StepInv
<1>6. LateInv'
  BY <1>f0, <1>f1, <1>f2, <1>f3, <1>f4, <1>f5 DEF TypeOK, AloneInv, LateInv, EarlyInv, StepInv
<1>7. CleanInv'
  BY <1>f0, <1>f1, <1>f2, <1>f3, <1>f4, <1>f5 DEF TypeOK, CleanInv, StepInv, LateInv, EarlyInv,
       AloneInv
<1>8. PartialInv'
  BY <1>f0, <1>f1, <1>f2, <1>f3, <1>f4, <1>f5 DEF TypeOK, PartialInv, EarlyInv, StepInv, AloneInv
<1>9. DestInv'
  BY <1>f0, <1>f1, <1>f2, <1>f3, <1>f4, <1>f5 DEF TypeOK, DestInv, StepInv, AloneInv
<1>10. StoredInv'
  BY <1>f0, <1>f1, <1>f2, <1>f3, <1>f4, <1>f5 DEF TypeOK, StoredInv, StepInv, AloneInv
<1>11. GameInv'
  BY <1>f0, <1>f1, <1>f2, <1>f3, <1>f4, <1>f5 DEF TypeOK, GameInv
<1>12. CompletedIsGame'
  BY <1>f0, <1>f1, <1>f2, <1>f3, <1>f4, <1>f5 DEF TypeOK, CompletedIsGame, GameInv
<1>13. FilesAreKept'
  BY <1>f0, <1>f1, <1>f2, <1>f3, <1>f4, <1>f5 DEF TypeOK, FilesAreKept, GameHasFiles, NeverLost
<1> QED BY <1>1, <1>2, <1>3, <1>4, <1>5, <1>6, <1>7, <1>8, <1>9, <1>10, <1>11, <1>12, <1>13

\* Another status, written at once (SetStatus).
LEMMA SetStatusFacts ==
  ASSUME NEW i \in Ids, IInv, NEW s \in Statuses, SetStatus(i, s)
  PROVE  /\ rec' = stored' /\ rec' \in AllRecords /\ rec'[i].status = s
              /\ rec'[i].owned = rec[i].owned
         /\ \A k \in Ids \ {i} : rec'[k] = rec[k]
<1>1. rec \in AllRecords
  BY DEF IInv, TypeOK, AllRecords
<1>2. rec' = WithStatus(rec, i, s) /\ stored' = rec'
  BY DEF SetStatus, Save, WithStatus
<1> QED BY <1>1, <1>2, StatusUpdate

\* What is so while a job has not put its files in the folder.
LEMMA EarlyJob ==
  ASSUME NEW i \in Ids, IInv, job[i] \in WorkSteps
  PROVE  /\ Early(i) /\ Transient(i) /\ Active(i) /\ job[i] # "none" /\ retry = {} /\ Free
              /\ i \in source
         /\ rec = stored /\ rec \in AllRecords
         /\ rec[i].status = "pending" => job[i] = "prepare"
         /\ partial = CASE job[i] = "copying" -> Half(i) [] job[i] = "commit" -> Whole(i) [] OTHER -> Nothing
<1>1. Early(i) /\ Transient(i) /\ Active(i) /\ job[i] # "none"
  BY DEF IInv, StepInv, JobFits, Early, Active, WorkSteps
<1> QED BY <1>1, ActiveFacts DEF IInv, TypeOK, AllRecords, StepInv, JobFits, EarlyInv

\* prepare
LEMMA JobPrepareKeeps ==
  ASSUME NEW i \in Ids, IInv, Calm, JobPrepare(i)
  PROVE  IInv'
<1>1. /\ job[i] = "prepare" /\ job[i] \in WorkSteps /\ UNCHANGED disk /\ Quietly
           /\ partial = Nothing
  BY EarlyJob DEF JobPrepare, At, WorkSteps
<1>2. CASE FailJob(i)
  BY <1>1, <1>2, FailKeeps DEF disk
<1>3. CASE SetStatus(i, "preparing") /\ Continue(i, "remember")
  <2>1. "preparing" \in Statuses /\ "remember" \in WorkSteps
    BY DEF Statuses, WorkSteps
  <2>2. Transient(i)' /\ rec'[i].status # "pending" /\ rec' = stored' /\ rec' \in AllRecords
        /\ \A k \in Ids \ {i} : rec'[k] = rec[k]
    BY <1>3, <2>1, SetStatusFacts DEF Transient
  <2> QED BY <1>1, <1>3, <2>1, <2>2, EarlyJob, EarlyStep DEF Continue, Go, disk
<1> QED BY <1>2, <1>3 DEF JobPrepare

\* rememberCreatedDestination
LEMMA JobRememberKeeps ==
  ASSUME NEW i \in Ids, IInv, Calm, JobRemember(i)
  PROVE  IInv'
<1>1. /\ job[i] = "remember" /\ job[i] \in WorkSteps /\ UNCHANGED disk /\ Quietly
           /\ partial = Nothing
  BY EarlyJob DEF JobRemember, At, WorkSteps
<1>2. CASE FailJob(i)
  BY <1>1, <1>2, FailKeeps DEF disk
<1>3. CASE /\ IF dest = Nothing THEN Save([rec EXCEPT ![i].owned = TRUE]) ELSE UNCHANGED records
           /\ Continue(i, "clear")
  <2>1. "clear" \in WorkSteps
    BY DEF WorkSteps
  <2>2. Transient(i)' /\ rec'[i].status # "pending" /\ rec' = stored' /\ rec' \in AllRecords
        /\ \A k \in Ids \ {i} : rec'[k] = rec[k]
    <3>1. CASE dest = Nothing
      <4>1. rec' = WithOwned(rec, i, TRUE) /\ stored' = rec'
        BY <1>3, <3>1 DEF Save, WithOwned
      <4> QED BY <1>1, <4>1, EarlyJob, OwnedUpdate DEF Transient
    <3>2. CASE dest # Nothing
      BY <1>1, <1>3, <3>2, EarlyJob DEF Transient, records
    <3> QED BY <3>1, <3>2
  <2> QED BY <1>1, <1>3, <2>1, <2>2, EarlyJob, EarlyStep DEF Continue, Go, disk
<1> QED BY <1>2, <1>3 DEF JobRemember

\* The .partial folder is cleared before anything is put there.
LEMMA JobClearKeeps ==
  ASSUME NEW i \in Ids, IInv, Calm, JobClear(i)
  PROVE  IInv'
<1>1. job[i] = "clear" /\ job[i] \in WorkSteps /\ UNCHANGED <<source, dest>> /\ Quietly
           /\ partial' = Nothing
  BY DEF JobClear, At, WorkSteps
<1>2. CASE FailJob(i)
  BY <1>1, <1>2, FailKeeps
<1>3. CASE /\ SetStatus(i, "working")
           /\ Continue(i, IF kind[i] = "move" THEN "rename" ELSE "copy")
  <2> DEFINE t == IF kind[i] = "move" THEN "rename" ELSE "copy"
  <2>1. "working" \in Statuses /\ t \in WorkSteps /\ t \notin {"copying", "commit"}
    BY DEF Statuses, WorkSteps
  <2>2. Transient(i)' /\ rec'[i].status # "pending" /\ rec' = stored' /\ rec' \in AllRecords
        /\ \A k \in Ids \ {i} : rec'[k] = rec[k]
    BY <1>3, <2>1, SetStatusFacts DEF Transient
  <2>3. job' = [job EXCEPT ![i] = t] /\ UNCHANGED cleaning
    BY <1>3 DEF Continue, Go
  <2> HIDE DEF t
  <2> QED BY <1>1, <2>1, <2>2, <2>3, EarlyJob, EarlyStep
<1> QED BY <1>2, <1>3 DEF JobClear

\* renameSource
LEMMA JobRenameKeeps ==
  ASSUME NEW i \in Ids, IInv, Calm, JobRename(i)
  PROVE  IInv'
<1>1. job[i] = "rename" /\ job[i] \in WorkSteps /\ Quietly /\ partial' = Nothing
  BY EarlyJob DEF JobRename, At, WorkSteps
<1>2. CASE FailJob(i) /\ UNCHANGED <<source, dest>>
  BY <1>1, <1>2, FailKeeps
<1>3. CASE dest' = Whole(i) /\ source' = source \ {i} /\ Continue(i, "finalize")
           /\ UNCHANGED records
  BY <1>1, <1>3, EarlyJob, PlaceStep DEF Continue, Go
<1>4. CASE dest' = Nothing /\ UNCHANGED source /\ Continue(i, "copy") /\ UNCHANGED records
  <2>1. "copy" \in WorkSteps /\ rec' = stored' /\ rec' \in AllRecords /\ rec'[i].status # "pending"
        /\ Transient(i)' /\ \A k \in Ids \ {i} : rec'[k] = rec[k]
    BY <1>1, <1>4, EarlyJob DEF WorkSteps, records, Transient
  <2> QED BY <1>1, <1>4, <2>1, EarlyJob, EarlyStep DEF Continue, Go
<1> QED BY <1>2, <1>3, <1>4 DEF JobRename

\* A copy, or an archive, begins in the .partial folder.
LEMMA JobCopyKeeps ==
  ASSUME NEW i \in Ids, IInv, Calm, JobCopy(i)
  PROVE  IInv'
<1>1. job[i] = "copy" /\ job[i] \in WorkSteps /\ Quietly /\ partial' = Half(i)
           /\ UNCHANGED <<records, source, dest>>
      /\ Continue(i, "copying")
  BY DEF JobCopy, At, WorkSteps
<1>2. "copying" \in WorkSteps /\ rec' = stored' /\ rec' \in AllRecords /\ rec'[i].status # "pending"
      /\ Transient(i)' /\ \A k \in Ids \ {i} : rec'[k] = rec[k]
  BY <1>1, EarlyJob DEF WorkSteps, records, Transient
<1> QED BY <1>1, <1>2, EarlyJob, EarlyStep DEF Continue, Go

\* ... and is there whole before it is committed.
LEMMA JobCopiedKeeps ==
  ASSUME NEW i \in Ids, IInv, Calm, JobCopied(i)
  PROVE  IInv'
<1>1. /\ job[i] = "copying" /\ job[i] \in WorkSteps /\ Quietly /\ UNCHANGED <<source, dest>>
      /\ partial = Half(i)
  BY EarlyJob DEF JobCopied, At, WorkSteps
<1>2. CASE partial' = Nothing /\ FailJob(i)
  BY <1>1, <1>2, FailKeeps
<1>3. CASE partial' = Whole(i) /\ Continue(i, "commit") /\ UNCHANGED records
  <2>1. "commit" \in WorkSteps /\ rec' = stored' /\ rec' \in AllRecords
             /\ rec'[i].status # "pending"
        /\ Transient(i)' /\ \A k \in Ids \ {i} : rec'[k] = rec[k]
    BY <1>1, <1>3, EarlyJob DEF WorkSteps, records, Transient
  <2> QED BY <1>1, <1>3, <2>1, EarlyJob, EarlyStep DEF Continue, Go
<1> QED BY <1>1, <1>2, <1>3 DEF JobCopied

\* commit
LEMMA JobCommitKeeps ==
  ASSUME NEW i \in Ids, IInv, Calm, JobCommit(i)
  PROVE  IInv'
<1>1. /\ job[i] = "commit" /\ job[i] \in WorkSteps /\ Quietly /\ UNCHANGED source
      /\ partial = Whole(i) /\ partial' = Nothing
  BY EarlyJob DEF JobCommit, At, WorkSteps
<1>2. CASE UNCHANGED dest /\ FailJob(i)
  BY <1>1, <1>2, FailKeeps
<1>3. CASE dest' = partial /\ Continue(i, "finalize") /\ UNCHANGED records
  BY <1>1, <1>3, EarlyJob, PlaceStep DEF Continue, Go
<1> QED BY <1>2, <1>3 DEF JobCommit

\* What is so while a job has its files in the folder.
LEMMA PlaceJob ==
  ASSUME NEW i \in Ids, IInv, job[i] \in PlaceSteps
  PROVE  /\ partial = Nothing /\ rec \in AllRecords /\ rec = stored
         /\ job[i] \in {"register", "complete"} => Transient(i)
         /\ job[i] \in {"find", "register", "complete"} \/ Transient(i) => Transient(i)
              /\ rec[i].status # "pending"
         /\ Transient(i) \/ (MovedPlaced(i) /\ job[i] = "finalize")
<1>1. Transient(i) \/ (MovedPlaced(i) /\ job[i] = "finalize")
  <2>1. Transient(i) \/ MovedPlaced(i)
    BY DEF IInv, StepInv, JobFits
  <2> QED BY <2>1 DEF MovedPlaced
<1>2. CASE Transient(i)
  <2>1. Active(i) /\ Late(i)
    BY <1>2 DEF Active, Late, Early, PlaceSteps, WorkSteps
  <2>2. partial = Nothing
    BY <2>1 DEF IInv, LateInv
  <2>3. rec[i].status # "pending"
    BY DEF IInv, StepInv, JobFits, PlaceSteps
  <2>4. rec = stored /\ rec \in AllRecords
    BY <2>1, ActiveFacts DEF IInv, TypeOK, AllRecords
  <2> QED BY <1>2, <2>2, <2>3, <2>4
<1>3. CASE MovedPlaced(i) /\ job[i] = "finalize"
  BY <1>3 DEF IInv, TypeOK, AllRecords, MovedPlaced, MoveOnly, Transient
<1> QED BY <1>1, <1>2, <1>3

\* finalize
LEMMA JobFinalizeKeeps ==
  ASSUME NEW i \in Ids, IInv, Calm, JobFinalize(i)
  PROVE  IInv'
<1>1. /\ job[i] = "finalize" /\ job[i] \in PlaceSteps /\ UNCHANGED disk /\ Quietly
           /\ partial = Nothing
      /\ rec[i].status # "none"
  BY PlaceJob DEF JobFinalize, At, PlaceSteps, Transient, MovedPlaced, MoveOnly
<1>2. CASE FailJob(i)
  BY <1>1, <1>2, FailKeeps DEF disk
<1>3. CASE SetStatus(i, "verifying") /\ Continue(i, "find")
  <2>1. "verifying" \in Statuses
    BY DEF Statuses
  <2>2. Transient(i)' /\ Active(i)' /\ rec'[i].status # "pending" /\ rec' = stored'
             /\ rec' \in AllRecords
        /\ \A k \in Ids \ {i} : rec'[k] = rec[k]
    BY <1>3, <2>1, SetStatusFacts DEF Transient, Active
  <2> QED BY <1>1, <1>3, <2>2, PlaceJob, LateStep DEF Continue, Go
<1> QED BY <1>1, <1>2, <1>3 DEF JobFinalize

\* The executable is found, or the user is asked for it.
LEMMA JobFindKeeps ==
  ASSUME NEW i \in Ids, IInv, Calm, JobFind(i)
  PROVE  IInv'
<1>1. /\ job[i] = "find" /\ job[i] \in PlaceSteps /\ UNCHANGED disk /\ Quietly /\ partial = Nothing
      /\ Transient(i)
  BY PlaceJob DEF JobFind, At, PlaceSteps
<1>2. CASE FailJob(i)
  BY <1>1, <1>2, FailKeeps DEF disk
<1>3. CASE Continue(i, "register") /\ UNCHANGED records
  BY <1>1, <1>3, PlaceJob, LateStep DEF Continue, Go, records, Transient, Active
<1>4. CASE SetStatus(i, "waiting") /\ Continue(i, "after")
  <2>1. "waiting" \in Statuses
    BY DEF Statuses
  <2>2. Active(i)' /\ ~Transient(i)' /\ rec'[i].status # "pending" /\ rec' = stored'
             /\ rec' \in AllRecords
        /\ \A k \in Ids \ {i} : rec'[k] = rec[k]
    BY <1>4, <2>1, SetStatusFacts DEF Active, Transient
  <2>3. job' = [job EXCEPT ![i] = "after"] /\ UNCHANGED cleaning
    BY <1>4 DEF Continue, Go
  <2>4. "after" \in {"find", "register", "complete", "after"} /\ "after" # "complete"
    OBVIOUS
  <2> QED BY <1>1, <2>2, <2>3, <2>4, LateStep
<1> QED BY <1>1, <1>2, <1>3, <1>4 DEF JobFind

\* The game is added to the library, or it is refused.
LEMMA JobRegisterKeeps ==
  ASSUME NEW i \in Ids, IInv, Calm, JobRegister(i)
  PROVE  IInv'
<1>1. /\ job[i] = "register" /\ job[i] \in PlaceSteps /\ At(i, "register") /\ UNCHANGED disk
           /\ partial = Nothing
      /\ UNCHANGED <<disk, jobs, cancelled, calls, asked, removing, crashes, kind>>
  BY PlaceJob DEF JobRegister, At, PlaceSteps
<1>2. CASE FailJob(i) /\ UNCHANGED library
  BY <1>1, <1>2, FailKeeps DEF disk, Quietly, user
<1>3. CASE library' = library \cup {i} /\ Continue(i, "complete") /\ UNCHANGED records
  BY <1>1, <1>3, JobRegisterDone
<1> QED BY <1>1, <1>2, <1>3 DEF JobRegister

\* complete
LEMMA JobCompleteKeeps ==
  ASSUME NEW i \in Ids, IInv, Calm, JobComplete(i)
  PROVE  IInv'
<1>1. /\ job[i] = "complete" /\ job[i] \in PlaceSteps /\ At(i, "complete") /\ UNCHANGED disk
           /\ Quietly
      /\ partial = Nothing
  BY PlaceJob DEF JobComplete, At, PlaceSteps
<1>2. CASE FailJob(i)
  BY <1>1, <1>2, FailKeeps DEF disk
<1>3. CASE SetStatus(i, "completed") /\ Continue(i, "after")
  BY <1>1, <1>3, JobCompleteDone
<1> QED BY <1>1, <1>2, <1>3 DEF JobComplete

\* The sweep of .partial leaves the only copy of a source (sweepPartialItem).
LEMMA SweepKeeps ==
  ASSUME NEW i \in Ids, IInv, Calm, Sweep(i)
  PROVE  IInv'
<1> USE DEF IInv, Calm, Sweep, Swept, Quietly, JobFits, Transient, Active, disk, records, calls,
     user, cleaning, running, WasTransient, Free, Mine, MoveOnly, Restarted, MovedPartial,
     MovedPlaced, Reserved, Early, Late, WorkSteps, PlaceSteps, JobSteps
<1>f0. clean' \in [Ids -> {"none", "sweep", "check", "remove"}] /\ job' \in [Ids -> JobSteps]
            /\ \A k \in jobs : job'[k] # "none"
  BY DEF TypeOK
<1>f1. \A k \in Ids : ~Early(k)
  BY DEF EarlyInv
<1>f2. \A k \in Ids : k # i => ~MovedPartial(k) /\ ~Restarted(k)
  OBVIOUS
<1>f3. \/ partial' = Nothing /\ job' = job /\ ~MovedPartial(i)
       \/ partial' = partial /\ MovedPartial(i) /\ job' = [job EXCEPT ![i] = "recover"]
  <2>1. CASE partial = Nothing
    BY <2>1, ContentFacts DEF TypeOK
  <2>2. CASE partial # Nothing /\ Restarted(i)
    BY <2>2, ContentFacts DEF TypeOK
  <2>3. CASE partial # Nothing /\ MovedPartial(i)
    BY <2>3, ContentFacts DEF TypeOK
  <2> QED BY <1>f1, <1>f2, <2>1, <2>2, <2>3 DEF PartialInv
<1>f4. /\ clean'[i] = IF i \in held THEN "check" ELSE "none"
       /\ \A k \in Ids \ {i} : clean'[k] = clean[k] /\ job'[k] = job[k]
  BY DEF TypeOK
<1>f5. MovedPartial(i) => MovedPartial(i)' /\ \A k \in Ids : ~MovedPlaced(k)
  BY <1>f3, <1>f4 DEF TypeOK
<1>f6. \A k \in Ids : partial = Whole(k) => k \in source \/ (k = i /\ MovedPartial(i))
  BY <1>f2, PartialSource
<1>1. TypeOK'
  BY <1>f0, <1>f1, <1>f2, <1>f3, <1>f4, <1>f5, <1>f6, ContentFacts DEF TypeOK, Statuses
<1>2. StepInv'
  BY <1>f0, <1>f1, <1>f2, <1>f3, <1>f4, <1>f5, <1>f6 DEF TypeOK, StepInv
<1>3. StartInv'
  BY <1>f0, <1>f1, <1>f2, <1>f3, <1>f4, <1>f5, <1>f6 DEF TypeOK, StartInv, AloneInv
<1>4. AloneInv'
  BY <1>f0, <1>f1, <1>f2, <1>f3, <1>f4, <1>f5, <1>f6 DEF TypeOK, AloneInv, StepInv
<1>5. EarlyInv'
  BY <1>f0, <1>f1, <1>f2, <1>f3, <1>f4, <1>f5, <1>f6 DEF TypeOK, AloneInv, EarlyInv, StepInv
<1>6. LateInv'
  BY <1>f0, <1>f1, <1>f2, <1>f3, <1>f4, <1>f5, <1>f6 DEF TypeOK, AloneInv, LateInv, EarlyInv,
       StepInv
<1>7. CleanInv'
  BY <1>f0, <1>f1, <1>f2, <1>f3, <1>f4, <1>f5, <1>f6 DEF TypeOK, CleanInv, StepInv, LateInv,
       EarlyInv, AloneInv
<1>8. PartialInv'
  BY <1>f0, <1>f1, <1>f2, <1>f3, <1>f4, <1>f5, <1>f6 DEF TypeOK, PartialInv, EarlyInv, StepInv,
       AloneInv
<1>9. DestInv'
  BY <1>f0, <1>f1, <1>f2, <1>f3, <1>f4, <1>f5, <1>f6 DEF TypeOK, DestInv, StepInv, AloneInv
<1>10. StoredInv'
  BY <1>f0, <1>f1, <1>f2, <1>f3, <1>f4, <1>f5, <1>f6 DEF TypeOK, StoredInv, StepInv, AloneInv
<1>11. GameInv'
  BY <1>f0, <1>f1, <1>f2, <1>f3, <1>f4, <1>f5, <1>f6 DEF TypeOK, GameInv
<1>12. CompletedIsGame'
  BY <1>f0, <1>f1, <1>f2, <1>f3, <1>f4, <1>f5, <1>f6 DEF TypeOK, CompletedIsGame, GameInv
<1>13. FilesAreKept'
  BY <1>f0, <1>f1, <1>f2, <1>f3, <1>f4, <1>f5, <1>f6 DEF TypeOK, FilesAreKept, GameHasFiles,
       NeverLost
<1> QED BY <1>1, <1>2, <1>3, <1>4, <1>5, <1>6, <1>7, <1>8, <1>9, <1>10, <1>11, <1>12, <1>13

\* The folder is kept while its source is gone or a game is in the library (discardBlocker).
LEMMA CheckKeeps ==
  ASSUME NEW i \in Ids, IInv, Calm, Check(i)
  PROVE  IInv'
<1> USE DEF IInv, Calm, Check, Release, Blocked, Quietly, JobFits, Transient, Active, disk,
     records, calls, user, cleaning, running, WasTransient, Free, Mine, MoveOnly, Restarted,
     MovedPartial, MovedPlaced, Reserved, Early, Late, WorkSteps, PlaceSteps, JobSteps
<1>f0. clean' \in [Ids -> {"none", "sweep", "check", "remove"}] /\ i \in held
            /\ clean'[i] \in {"none", "remove"}
       /\ held' \subseteq held /\ held \ {i} \subseteq held'
            /\ (clean'[i] = "remove" => held' = held /\ library = {} /\ i \in source)
       /\ (clean'[i] = "none" => i \notin held') /\ \A k \in Ids \ {i} : clean'[k] = clean[k]
  BY DEF TypeOK, CleanInv
<1>f1. \A k \in Ids : ~Active(k) /\ ~MovedPartial(k) /\ ~MovedPlaced(k) /\ ~Restarted(k)
  BY <1>f0, ActiveFacts
<1>f2. /\ rec' = rec /\ stored' = stored /\ source' = source /\ partial' = partial
       /\ dest' = dest /\ job' = job /\ jobs' = jobs /\ cancelled' = cancelled /\ start' = start
       /\ retry' = retry /\ kind' = kind /\ library' = library /\ asked' = asked
       /\ removing' = removing /\ crashes' = crashes
  OBVIOUS
<1> HIDE DEF Check, Release, Blocked, Quietly
<1>1. TypeOK'
  BY <1>f0, <1>f1, <1>f2 DEF TypeOK, Statuses
<1>2. StepInv'
  BY <1>f0, <1>f1, <1>f2 DEF TypeOK, StepInv
<1>3. StartInv'
  BY <1>f0, <1>f1, <1>f2 DEF TypeOK, StartInv, AloneInv
<1>4. AloneInv'
  BY <1>f0, <1>f1, <1>f2 DEF TypeOK, AloneInv, StepInv
<1>5. EarlyInv'
  BY <1>f0, <1>f1, <1>f2 DEF TypeOK, AloneInv, EarlyInv, StepInv
<1>6. LateInv'
  BY <1>f0, <1>f1, <1>f2 DEF TypeOK, AloneInv, LateInv, EarlyInv, StepInv
<1>7. CleanInv'
  BY <1>f0, <1>f1, <1>f2 DEF TypeOK, CleanInv, StepInv, LateInv, EarlyInv, AloneInv
<1>8. PartialInv'
  BY <1>f0, <1>f1, <1>f2 DEF TypeOK, PartialInv, EarlyInv, StepInv, AloneInv
<1>9. DestInv'
  BY <1>f0, <1>f1, <1>f2 DEF TypeOK, DestInv, StepInv, AloneInv
<1>10. StoredInv'
  BY <1>f0, <1>f1, <1>f2 DEF TypeOK, StoredInv, StepInv, AloneInv
<1>11. GameInv'
  BY <1>f0, <1>f1, <1>f2 DEF TypeOK, GameInv
<1>12. CompletedIsGame'
  BY <1>f0, <1>f1, <1>f2 DEF TypeOK, CompletedIsGame, GameInv
<1>13. FilesAreKept'
  BY <1>f0, <1>f1, <1>f2 DEF TypeOK, FilesAreKept, GameHasFiles, NeverLost
<1> QED BY <1>1, <1>2, <1>3, <1>4, <1>5, <1>6, <1>7, <1>8, <1>9, <1>10, <1>11, <1>12, <1>13

\* What is removed from the folder has its source (removeInstallDir).
LEMMA RemoveDestKeeps ==
  ASSUME NEW i \in Ids, IInv, Calm, RemoveDest(i)
  PROVE  IInv'
<1> USE DEF IInv, Calm, RemoveDest, Release, Quietly, JobFits, Transient, Active, disk, records,
     calls, user, cleaning, running, WasTransient, Free, Mine, MoveOnly, Restarted, MovedPartial,
     MovedPlaced, Reserved, Early, Late, WorkSteps, PlaceSteps, JobSteps
<1>f0. clean' \in [Ids -> {"none", "sweep", "check", "remove"}] /\ i \in held
            /\ clean'[i] = "none" /\ held' = held \ {i}
       /\ \A k \in Ids \ {i} : clean'[k] = clean[k]
  BY DEF TypeOK, CleanInv
<1>f1. library = {} /\ i \in source /\ Mine(i) /\ job[i] \in {"none", "discard"}
  BY <1>f0 DEF CleanInv
<1>f2. \A k \in Ids : ~Active(k) /\ ~MovedPartial(k) /\ ~MovedPlaced(k) /\ ~Restarted(k)
  BY <1>f0, ActiveFacts
<1>f3. \/ rec' = WithOwned(rec, i, FALSE) /\ stored' = rec'
       \/ rec' = rec /\ stored' = stored
  BY DEF WithOwned, Save
<1>f4. /\ rec' \in AllRecords /\ stored' \in AllRecords
            /\ \A k \in Ids : rec'[k].status = rec[k].status
       /\ \A k \in Ids : stored'[k].status = stored[k].status \/ stored'[k].status = rec[k].status
  <2>1. rec \in AllRecords /\ stored \in AllRecords
    BY DEF TypeOK, AllRecords
  <2> HIDE DEF IInv, RemoveDest, Release
  <2>2. CASE rec' = WithOwned(rec, i, FALSE) /\ stored' = rec'
    <3>1. FALSE \in BOOLEAN
      OBVIOUS
    <3>2. WithOwned(rec, i, FALSE) \in AllRecords
               /\ \A k \in Ids : WithOwned(rec, i, FALSE)[k].status = rec[k].status
      BY <2>1, <3>1, OwnedUpdate
    <3> QED BY <2>1, <2>2, <3>2
  <2> QED BY <1>f3, <2>1, <2>2
<1>f5. dest' \in {dest, Nothing} /\ \A k \in Ids : dest' # Half(k)
            /\ (dest' = Whole(k) => dest = Whole(k)) /\ (dest = Whole(k) => k = i)
  BY <1>f1, <1>f2, ContentFacts DEF DestInv
<1>f6. /\ source' = source /\ partial' = partial /\ job' = job /\ jobs' = jobs
       /\ cancelled' = cancelled /\ start' = start /\ retry' = retry /\ kind' = kind
       /\ library' = library /\ asked' = asked /\ removing' = removing /\ crashes' = crashes
  OBVIOUS
<1> HIDE DEF RemoveDest, Release, Quietly
<1>1. TypeOK'
  BY <1>f0, <1>f1, <1>f2, <1>f3, <1>f4, <1>f5, <1>f6, ContentFacts DEF TypeOK, AllRecords
<1>2. StepInv'
  BY <1>f0, <1>f1, <1>f2, <1>f3, <1>f4, <1>f5, <1>f6 DEF TypeOK, StepInv
<1>3. StartInv'
  BY <1>f0, <1>f1, <1>f2, <1>f3, <1>f4, <1>f5, <1>f6 DEF TypeOK, StartInv, AloneInv
<1>4. AloneInv'
  BY <1>f0, <1>f1, <1>f2, <1>f3, <1>f4, <1>f5, <1>f6 DEF TypeOK, AloneInv, StepInv
<1>5. EarlyInv'
  BY <1>f0, <1>f1, <1>f2, <1>f3, <1>f4, <1>f5, <1>f6 DEF TypeOK, AloneInv, EarlyInv, StepInv
<1>6. LateInv'
  BY <1>f0, <1>f1, <1>f2, <1>f3, <1>f4, <1>f5, <1>f6 DEF TypeOK, AloneInv, LateInv, EarlyInv,
       StepInv
<1>7. CleanInv'
  BY <1>f0, <1>f1, <1>f2, <1>f3, <1>f4, <1>f5, <1>f6 DEF TypeOK, CleanInv, StepInv, LateInv,
       EarlyInv, AloneInv
<1>8. PartialInv'
  BY <1>f0, <1>f1, <1>f2, <1>f3, <1>f4, <1>f5, <1>f6 DEF TypeOK, PartialInv, EarlyInv, StepInv,
       AloneInv
<1>9. DestInv'
  BY <1>f0, <1>f1, <1>f2, <1>f3, <1>f4, <1>f5, <1>f6 DEF TypeOK, DestInv, StepInv, AloneInv
<1>10. StoredInv'
  <2>1. CASE rec' = stored'
    BY <2>1 DEF StoredInv
  <2>2. CASE rec # stored /\ rec' = rec /\ stored' = stored
    <3>1. PICK g \in Ids : /\ rec = [stored EXCEPT ![g].status = "failed"]
                                /\ stored[g].status # "completed"
                           /\ WasTransient(g) \/ stored[g].status = "waiting" => Mine(g)
      BY <2>2 DEF StoredInv
    <3>2. Mine(g) => Mine(g)'
      BY <1>f5
    <3>3. \A k \in Ids : ~Active(k)'
      BY <1>f2, <1>f4
    <3> QED BY <2>2, <3>1, <3>2, <3>3 DEF StoredInv
  <2> QED BY <1>f3, <2>1, <2>2
<1>11. GameInv'
  BY <1>f0, <1>f1, <1>f2, <1>f3, <1>f4, <1>f5, <1>f6 DEF TypeOK, GameInv
<1>12. CompletedIsGame'
  BY <1>f0, <1>f1, <1>f2, <1>f3, <1>f4, <1>f5, <1>f6 DEF TypeOK, CompletedIsGame, GameInv
<1>13. FilesAreKept'
  BY <1>f0, <1>f1, <1>f2, <1>f3, <1>f4, <1>f5, <1>f6 DEF TypeOK, FilesAreKept, GameHasFiles,
       NeverLost
<1> QED BY <1>1, <1>2, <1>3, <1>4, <1>5, <1>6, <1>7, <1>8, <1>9, <1>10, <1>11, <1>12, <1>13

\* The first look of Start, and its choice of a leftover.
LEMMA StartKeeps ==
  ASSUME NEW i \in Ids, IInv, Calm, Start(i)
  PROVE  IInv'
<1> USE DEF IInv, Calm, Start, StartBlocked, OwnFiles, NoStart, JobFits, Transient, Active, disk,
     records, calls, user, cleaning, running, WasTransient, Free, Mine, MoveOnly, Restarted,
     MovedPartial, MovedPlaced, Reserved, Early, Late, WorkSteps, PlaceSteps, JobSteps
<1>f0. start' \in [Ids -> [at : {"none", "reclaim", "drop", "commit"}, of : Ids \cup {"none"}]]
            /\ start[i].at = "none" /\ \A k \in Ids \ {i} : start'[k] = start[k]
  BY DEF TypeOK
<1>f1. rec[i].status = "none" /\ job[i] = "none" /\ clean[i] = "none"
            /\ \A k \in Ids : ~Active(k) /\ ~MovedPlaced(k)
  BY ContentFacts DEF TypeOK
<1>f2. \/ start'[i].at = "commit"
       \/ /\ start'[i].at = "reclaim" /\ start'[i].of \in Ids
               /\ rec[start'[i].of].status = "failed" /\ Mine(start'[i].of)
          /\ \A k \in Ids : ~MovedPartial(k)
  <2>1. CASE Free
    BY <2>1 DEF TypeOK
  <2>2. CASE ~Free
    <3>1. PICK k \in Ids : /\ rec[k].status = "failed" /\ dest.of = k
                           /\ start' = [start EXCEPT ![i] = [at |-> "reclaim", of |-> k]]
      BY <2>2
    <3>2. dest = Whole(k)
      BY <3>1, ContentFacts DEF TypeOK, Contents, DestInv
    <3> QED BY <2>2, <3>1, <3>2, ContentFacts DEF TypeOK
  <2> QED BY <2>1, <2>2
<1>f3. /\ rec' = rec /\ stored' = stored /\ source' = source /\ partial' = partial
       /\ dest' = dest /\ job' = job /\ jobs' = jobs /\ cancelled' = cancelled /\ retry' = retry
       /\ clean' = clean /\ held' = held /\ kind' = kind /\ library' = library /\ asked' = asked
       /\ removing' = removing /\ crashes' = crashes
  OBVIOUS
<1>f4. \A k \in Ids : (MovedPartial(k) => MovedPartial(k)') /\ (Restarted(k) => Restarted(k)')
  BY <1>f0, <1>f2, <1>f3
<1>f5. \A k \in Ids : Transient(k)' = Transient(k) /\ Active(k)' = Active(k) /\ ~Early(k)
            /\ ~Early(k)'
  BY <1>f1, <1>f3
<1> HIDE DEF Start, StartBlocked, OwnFiles
<1>1. TypeOK'
  BY <1>f0, <1>f1, <1>f2, <1>f3, <1>f4, <1>f5 DEF TypeOK, Statuses
<1>2. StepInv'
  <2>1. ASSUME NEW k \in Ids, JobFits(k) PROVE JobFits(k)'
    BY <2>1, <1>f1, <1>f3, <1>f4, <1>f5
  <2> QED BY <2>1 DEF StepInv
<1>3. StartInv'
  BY <1>f0, <1>f1, <1>f2, <1>f3, <1>f4, <1>f5 DEF TypeOK, StartInv, AloneInv
<1>4. AloneInv'
  BY <1>f0, <1>f1, <1>f2, <1>f3, <1>f4, <1>f5 DEF TypeOK, AloneInv, StepInv
<1>5. EarlyInv'
  BY <1>f0, <1>f1, <1>f2, <1>f3, <1>f4, <1>f5 DEF TypeOK, AloneInv, EarlyInv, StepInv
<1>6. LateInv'
  BY <1>f0, <1>f1, <1>f2, <1>f3, <1>f4, <1>f5 DEF TypeOK, AloneInv, LateInv, EarlyInv, StepInv
<1>7. CleanInv'
  BY <1>f0, <1>f1, <1>f2, <1>f3, <1>f4, <1>f5 DEF TypeOK, CleanInv, StepInv, LateInv, EarlyInv,
       AloneInv
<1>8. PartialInv'
  <2>1. CASE partial = Nothing
    BY <2>1, <1>f3 DEF PartialInv
  <2>2. ASSUME NEW k \in Ids, partial \in {Half(k), Whole(k)},
                    Restarted(k) \/ MovedPartial(k) PROVE PartialInv'
    <3>1. partial' \in {Half(k), Whole(k)}
      BY <2>2, <1>f3
    <3>2. Restarted(k)' \/ MovedPartial(k)'
      BY <2>2, <1>f4
    <3> HIDE DEF Restarted, MovedPartial
    <3> QED BY <3>1, <3>2 DEF PartialInv
  <2> QED BY <2>1, <2>2, <1>f5 DEF PartialInv
<1>9. DestInv'
  BY <1>f0, <1>f1, <1>f2, <1>f3, <1>f4, <1>f5 DEF TypeOK, DestInv, StepInv, AloneInv
<1>10. StoredInv'
  BY <1>f0, <1>f1, <1>f2, <1>f3, <1>f4, <1>f5 DEF TypeOK, StoredInv, StepInv, AloneInv
<1>11. GameInv'
  BY <1>f0, <1>f1, <1>f2, <1>f3, <1>f4, <1>f5 DEF TypeOK, GameInv
<1>12. CompletedIsGame'
  BY <1>f0, <1>f1, <1>f2, <1>f3, <1>f4, <1>f5 DEF TypeOK, CompletedIsGame, GameInv
<1>13. FilesAreKept'
  BY <1>f0, <1>f1, <1>f2, <1>f3, <1>f4, <1>f5 DEF TypeOK, FilesAreKept, GameHasFiles, NeverLost
<1> QED BY <1>1, <1>2, <1>3, <1>4, <1>5, <1>6, <1>7, <1>8, <1>9, <1>10, <1>11, <1>12, <1>13

\* A leftover is removed whose source is there (reclaimLeftover).
LEMMA StartReclaimKeeps ==
  ASSUME NEW i \in Ids, IInv, Calm, StartReclaim(i)
  PROVE  IInv'
<1> USE DEF IInv, Calm, StartReclaim, Blocked, JobFits, Transient, Active, disk, records, calls,
     user, cleaning, running, WasTransient, Free, Mine, MoveOnly, Restarted, MovedPartial,
     MovedPlaced, Reserved, Early, Late, WorkSteps, PlaceSteps, JobSteps
<1>f0. start' \in AllCalls /\ start[i].at = "reclaim" /\ \A k \in Ids \ {i} : start'[k] = start[k]
  <2>1. start \in AllCalls /\ start[i].at = "reclaim"
    BY DEF TypeOK, AllCalls
  <2>2. start' = WithStep(start, i, "drop") \/ start' = WithoutCall(start, i)
    BY DEF WithStep, WithoutCall
  <2> HIDE DEF IInv, StartReclaim
  <2>3. CASE start' = WithStep(start, i, "drop")
    <3>1. /\ WithStep(start, i, "drop") \in AllCalls /\ WithStep(start, i, "drop")[i].at = "drop"
          /\ \A k \in Ids \ {i} : WithStep(start, i, "drop")[k] = start[k]
      BY ONLY <2>1, CallUpdate, i \in Ids
    <3> QED BY ONLY <2>1, <2>3, <3>1
  <2>4. CASE start' = WithoutCall(start, i)
    BY <2>1, <2>4, CallEnds
  <2> QED BY <2>2, <2>3, <2>4
<1>f1. start[i].of \in Ids /\ Mine(start[i].of) /\ rec[start[i].of].status \in {"none", "failed"}
       /\ \A k \in Ids : ~Active(k) /\ ~MovedPlaced(k) /\ ~MovedPartial(k)
  BY <1>f0, ActiveFacts DEF StartInv
<1>f2. \/ dest' = dest /\ start'[i].at = "none"
       \/ dest' = Nothing /\ library = {} /\ start[i].of \in source
            /\ start'[i] = [at |-> "drop", of |-> start[i].of]
  BY DEF TypeOK, NoStart
<1>f3. /\ rec' = rec /\ stored' = stored /\ source' = source /\ partial' = partial /\ job' = job
       /\ jobs' = jobs /\ cancelled' = cancelled /\ retry' = retry /\ clean' = clean
       /\ held' = held /\ kind' = kind /\ library' = library /\ asked' = asked
       /\ removing' = removing /\ crashes' = crashes
  OBVIOUS
<1>f4. \A k \in Ids : dest' # Half(k) /\ (dest' = Whole(k) => dest = Whole(k))
            /\ (dest = Whole(k) => k = start[i].of)
  BY <1>f1, <1>f2, ContentFacts DEF DestInv
<1> HIDE DEF StartReclaim, Blocked
<1>1. TypeOK'
  BY <1>f0, <1>f1, <1>f2, <1>f3, <1>f4, ContentFacts DEF TypeOK, AllCalls
<1>2. StepInv'
  BY <1>f0, <1>f1, <1>f2, <1>f3, <1>f4 DEF TypeOK, StepInv
<1>3. StartInv'
  BY <1>f0, <1>f1, <1>f2, <1>f3, <1>f4 DEF TypeOK, StartInv, AloneInv
<1>4. AloneInv'
  BY <1>f0, <1>f1, <1>f2, <1>f3, <1>f4 DEF TypeOK, AloneInv, StepInv
<1>5. EarlyInv'
  BY <1>f0, <1>f1, <1>f2, <1>f3, <1>f4 DEF TypeOK, AloneInv, EarlyInv, StepInv
<1>6. LateInv'
  BY <1>f0, <1>f1, <1>f2, <1>f3, <1>f4 DEF TypeOK, AloneInv, LateInv, EarlyInv, StepInv
<1>7. CleanInv'
  BY <1>f0, <1>f1, <1>f2, <1>f3, <1>f4 DEF TypeOK, CleanInv, StepInv, LateInv, EarlyInv, AloneInv
<1>8. PartialInv'
  BY SMTT(30), <1>f0, <1>f1, <1>f2, <1>f3, <1>f4 DEF TypeOK, PartialInv, EarlyInv, StepInv, AloneInv
<1>9. DestInv'
  BY <1>f0, <1>f1, <1>f2, <1>f3, <1>f4 DEF TypeOK, DestInv, StepInv, AloneInv
<1>10. StoredInv'
  BY <1>f0, <1>f1, <1>f2, <1>f3, <1>f4 DEF TypeOK, StoredInv, StepInv, AloneInv
<1>11. GameInv'
  BY <1>f0, <1>f1, <1>f2, <1>f3, <1>f4 DEF TypeOK, GameInv
<1>12. CompletedIsGame'
  BY <1>f0, <1>f1, <1>f2, <1>f3, <1>f4 DEF TypeOK, CompletedIsGame, GameInv
<1>13. FilesAreKept'
  BY <1>f0, <1>f1, <1>f2, <1>f3, <1>f4 DEF TypeOK, FilesAreKept, GameHasFiles, NeverLost
<1> QED BY <1>1, <1>2, <1>3, <1>4, <1>5, <1>6, <1>7, <1>8, <1>9, <1>10, <1>11, <1>12, <1>13

\* Its record goes (dropRecord).
LEMMA StartDropKeeps ==
  ASSUME NEW i \in Ids, IInv, Calm, StartDrop(i)
  PROVE  IInv'
<1> USE DEF IInv, Calm, StartDrop, Save, JobFits, Transient, Active, disk, records, calls, user,
     cleaning, running, WasTransient, Free, Mine, MoveOnly, Restarted, MovedPartial, MovedPlaced,
     Reserved, Early, Late, WorkSteps, PlaceSteps, JobSteps
<1>f0. start' \in AllCalls /\ start[i].at = "drop" /\ start'[i].at \in {"none", "commit"}
            /\ \A k \in Ids \ {i} : start'[k] = start[k]
  <2>1. start \in AllCalls /\ start[i].at = "drop"
    BY DEF TypeOK, AllCalls
  <2>2. start' = WithStep(start, i, "commit") \/ start' = WithoutCall(start, i)
    BY DEF WithStep, WithoutCall
  <2> HIDE DEF IInv, StartDrop
  <2>3. CASE start' = WithStep(start, i, "commit")
    <3>1. /\ WithStep(start, i, "commit") \in AllCalls
               /\ WithStep(start, i, "commit")[i].at = "commit"
          /\ \A k \in Ids \ {i} : WithStep(start, i, "commit")[k] = start[k]
      BY ONLY <2>1, CallUpdate, i \in Ids
    <3> QED BY ONLY <2>1, <2>3, <3>1
  <2>4. CASE start' = WithoutCall(start, i)
    BY <2>1, <2>4, CallEnds
  <2> QED BY <2>2, <2>3, <2>4
<1>f1. /\ start[i].of \in Ids /\ rec[start[i].of].status \in {"none", "failed"}
       /\ rec[i].status = "none" /\ job[i] = "none" /\ clean[i] = "none"
       /\ \A k \in Ids : ~Active(k) /\ ~MovedPlaced(k) /\ ~MovedPartial(k)
  BY <1>f0, ActiveFacts DEF StartInv
<1>f2. \/ /\ rec' = stored' /\ rec' \in AllRecords /\ rec'[start[i].of].status = "none"
          /\ \A k \in Ids : k # start[i].of => rec'[k] = rec[k]
       \/ rec' = rec /\ stored' = stored
  <2>1. rec \in AllRecords /\ NoRecord \in [status : Statuses, owned : BOOLEAN]
             /\ NoRecord.status = "none"
    BY DEF TypeOK, AllRecords, NoRecord, Statuses
  <2>2. \/ rec' = [rec EXCEPT ![start[i].of] = NoRecord] /\ stored' = rec'
        \/ rec' = rec /\ stored' = stored
    OBVIOUS
  <2> HIDE DEF IInv, StartDrop
  <2> QED BY <1>f1, <2>1, <2>2 DEF AllRecords
<1>f3. /\ source' = source /\ partial' = partial /\ dest' = dest /\ job' = job /\ jobs' = jobs
       /\ cancelled' = cancelled /\ retry' = retry /\ clean' = clean /\ held' = held
       /\ kind' = kind /\ library' = library /\ asked' = asked /\ removing' = removing
       /\ crashes' = crashes
  OBVIOUS
<1>f4. \A k \in Ids : rec'[k].status \in {rec[k].status, "none"}
            /\ (rec'[k].status # rec[k].status => rec[k].status = "failed")
  BY <1>f1, <1>f2
<1> HIDE DEF StartDrop, Save
<1>1. TypeOK'
  BY <1>f0, <1>f1, <1>f2, <1>f3, <1>f4 DEF TypeOK, AllRecords, AllCalls
<1>2. StepInv'
  BY <1>f0, <1>f1, <1>f2, <1>f3, <1>f4 DEF TypeOK, StepInv
<1>3. StartInv'
  BY <1>f0, <1>f1, <1>f2, <1>f3, <1>f4 DEF TypeOK, StartInv, AloneInv
<1>4. AloneInv'
  BY <1>f0, <1>f1, <1>f2, <1>f3, <1>f4 DEF TypeOK, AloneInv, StepInv
<1>5. EarlyInv'
  BY <1>f0, <1>f1, <1>f2, <1>f3, <1>f4 DEF TypeOK, AloneInv, EarlyInv, StepInv
<1>6. LateInv'
  BY <1>f0, <1>f1, <1>f2, <1>f3, <1>f4 DEF TypeOK, AloneInv, LateInv, EarlyInv, StepInv
<1>7. CleanInv'
  BY <1>f0, <1>f1, <1>f2, <1>f3, <1>f4 DEF TypeOK, CleanInv, StepInv, LateInv, EarlyInv, AloneInv
<1>8. PartialInv'
  BY SMTT(30), <1>f0, <1>f1, <1>f2, <1>f3, <1>f4 DEF TypeOK, PartialInv, EarlyInv, StepInv, AloneInv
<1>9. DestInv'
  BY SMTT(30), <1>f0, <1>f1, <1>f2, <1>f3, <1>f4 DEF TypeOK, DestInv, StepInv, AloneInv
<1>10. StoredInv'
  <2>1. CASE rec' = stored'
    BY ONLY <2>1 DEF StoredInv
  <2>2. CASE rec' = rec /\ stored' = stored
    BY <1>f3, <2>2 DEF StoredInv
  <2> QED BY <1>f2, <2>1, <2>2
<1>11. GameInv'
  BY <1>f0, <1>f1, <1>f2, <1>f3, <1>f4 DEF TypeOK, GameInv
<1>12. CompletedIsGame'
  BY <1>f0, <1>f1, <1>f2, <1>f3, <1>f4 DEF TypeOK, CompletedIsGame, GameInv
<1>13. FilesAreKept'
  BY <1>f0, <1>f1, <1>f2, <1>f3, <1>f4 DEF TypeOK, FilesAreKept, GameHasFiles, NeverLost
<1> QED BY <1>1, <1>2, <1>3, <1>4, <1>5, <1>6, <1>7, <1>8, <1>9, <1>10, <1>11, <1>12, <1>13

\* The second look of Start refuses.
LEMMA StartRefused ==
  ASSUME NEW i \in Ids, IInv, Calm, start[i].at = "commit",
              start' = [start EXCEPT ![i] = NoStart], UNCHANGED <<records, running>>,
         UNCHANGED <<disk, retry, cleaning, user>>
  PROVE  IInv'
<1> USE DEF IInv, Calm, JobFits, Transient, Active, disk, records, calls, user, cleaning, running,
     WasTransient, Free, Mine, MoveOnly, Restarted, MovedPartial, MovedPlaced, Reserved, Early,
     Late, WorkSteps, PlaceSteps, JobSteps
<1>f0. start' \in AllCalls /\ start'[i].at = "none" /\ \A k \in Ids \ {i} : start'[k] = start[k]
  <2>1. start \in AllCalls /\ start' = WithoutCall(start, i)
    BY DEF TypeOK, AllCalls, WithoutCall
  <2>2. /\ WithoutCall(start, i) \in AllCalls /\ WithoutCall(start, i)[i].at = "none"
        /\ \A k \in Ids \ {i} : WithoutCall(start, i)[k] = start[k]
    BY ONLY <2>1, CallEnds, i \in Ids
  <2> QED BY ONLY <2>1, <2>2
<1>f1. /\ rec' = rec /\ stored' = stored /\ source' = source /\ partial' = partial
       /\ dest' = dest /\ job' = job /\ jobs' = jobs /\ cancelled' = cancelled /\ retry' = retry
       /\ clean' = clean /\ held' = held /\ kind' = kind /\ library' = library /\ asked' = asked
       /\ removing' = removing /\ crashes' = crashes
  OBVIOUS
<1>f2. \A k \in Ids : (MovedPartial(k) => MovedPartial(k)')
            /\ (MovedPlaced(k) => MovedPlaced(k)') /\ (Restarted(k) => Restarted(k)')
  BY <1>f0, <1>f1
<1>1. TypeOK'
  BY <1>f0, <1>f1, <1>f2 DEF TypeOK, AllCalls
<1>2. StepInv'
  BY <1>f0, <1>f1, <1>f2 DEF TypeOK, StepInv
<1>3. StartInv'
  BY <1>f0, <1>f1, <1>f2 DEF TypeOK, StartInv, AloneInv
<1>4. AloneInv'
  BY <1>f0, <1>f1, <1>f2 DEF TypeOK, AloneInv, StepInv
<1>5. EarlyInv'
  BY <1>f0, <1>f1, <1>f2 DEF TypeOK, AloneInv, EarlyInv, StepInv
<1>6. LateInv'
  BY <1>f0, <1>f1, <1>f2 DEF TypeOK, AloneInv, LateInv, EarlyInv, StepInv
<1>7. CleanInv'
  BY <1>f0, <1>f1, <1>f2 DEF TypeOK, CleanInv, StepInv, LateInv, EarlyInv, AloneInv
<1>8. PartialInv'
  BY <1>f0, <1>f1, <1>f2 DEF TypeOK, PartialInv, EarlyInv, StepInv, AloneInv
<1>9. DestInv'
  BY <1>f0, <1>f1, <1>f2 DEF TypeOK, DestInv, StepInv, AloneInv
<1>10. StoredInv'
  BY <1>f0, <1>f1, <1>f2 DEF TypeOK, StoredInv, StepInv, AloneInv
<1>11. GameInv'
  BY <1>f0, <1>f1, <1>f2 DEF TypeOK, GameInv
<1>12. CompletedIsGame'
  BY <1>f0, <1>f1, <1>f2 DEF TypeOK, CompletedIsGame, GameInv
<1>13. FilesAreKept'
  BY <1>f0, <1>f1, <1>f2 DEF TypeOK, FilesAreKept, GameHasFiles, NeverLost
<1> QED BY <1>1, <1>2, <1>3, <1>4, <1>5, <1>6, <1>7, <1>8, <1>9, <1>10, <1>11, <1>12, <1>13

\* The second look of Start finds the folder free and takes it.
LEMMA StartCommits ==
  ASSUME NEW i \in Ids, IInv, Calm, start[i].at = "commit", start' = [start EXCEPT ![i] = NoStart],
         i \in source, ~StartBlocked, ~Reserved, Free, library = {}, Quiet, retry = {},
         rec' = [rec EXCEPT ![i] = [status |-> "pending", owned |-> FALSE]], stored' = rec',
         job' = [job EXCEPT ![i] = "prepare"], jobs' = jobs \cup {i},
         UNCHANGED <<disk, cancelled, retry, cleaning, user>>
  PROVE  IInv'
<1> USE DEF IInv, Calm, JobFits, Transient, Active, disk, records, calls, user, cleaning, running,
     WasTransient, Free, Mine, MoveOnly, Restarted, MovedPartial, MovedPlaced, Reserved, Early,
     Late, WorkSteps, PlaceSteps, JobSteps
<1>f0. start' \in AllCalls /\ start'[i].at = "none" /\ \A k \in Ids \ {i} : start'[k] = start[k]
  <2>1. start \in AllCalls /\ start' = WithoutCall(start, i)
    BY DEF TypeOK, AllCalls, WithoutCall
  <2>2. /\ WithoutCall(start, i) \in AllCalls /\ WithoutCall(start, i)[i].at = "none"
        /\ \A k \in Ids \ {i} : WithoutCall(start, i)[k] = start[k]
    BY ONLY <2>1, CallEnds, i \in Ids
  <2> QED BY ONLY <2>1, <2>2
<1>f1. /\ source' = source /\ partial' = partial /\ dest' = dest /\ cancelled' = cancelled
       /\ retry' = retry /\ clean' = clean /\ held' = held /\ kind' = kind /\ library' = library
       /\ asked' = asked /\ removing' = removing /\ crashes' = crashes
  OBVIOUS
<1>f2. rec[i].status = "none" /\ job[i] = "none" /\ \A k \in Ids : ~Active(k)
  BY DEF StartInv, StartBlocked
<1>f3. held = {} /\ \A k \in Ids : clean[k] = "none" /\ start[k].at \in {"none", "commit"}
  BY DEF TypeOK, CleanInv, Quiet
<1>f4. \A k \in Ids : ~MovedPartial(k) /\ ~MovedPlaced(k) /\ ~Restarted(k) /\ dest # Half(k)
            /\ dest # Whole(k)
  BY <1>f3, ContentFacts DEF Quiet
<1>f5. partial = Nothing
  BY <1>f2, <1>f4 DEF PartialInv
<1>f6. /\ rec' \in AllRecords /\ rec'[i].status = "pending" /\ \A k \in Ids \ {i} : rec'[k] = rec[k]
  <2>1. rec \in AllRecords
             /\ [status |-> "pending", owned |-> FALSE] \in [status : Statuses, owned : BOOLEAN]
    BY DEF TypeOK, AllRecords, Statuses
  <2> HIDE DEF IInv
  <2> QED BY <2>1 DEF AllRecords
<1>f7. job' \in [Ids -> JobSteps] /\ job'[i] = "prepare" /\ \A k \in Ids \ {i} : job'[k] = job[k]
  BY DEF TypeOK
<1>f8. \A k \in Ids \ {i} : ~Transient(k)' /\ ~Active(k)' /\ stored'[k] = rec[k]
  BY <1>f2, <1>f6
<1>1. TypeOK'
  BY <1>f0, <1>f1, <1>f2, <1>f3, <1>f4, <1>f5, <1>f6, <1>f7, <1>f8 DEF TypeOK, AllRecords, AllCalls
<1>2. StepInv'
  BY SMTT(30), <1>f0, <1>f1, <1>f2, <1>f3, <1>f4, <1>f5, <1>f6, <1>f7, <1>f8 DEF TypeOK, StepInv
<1>3. StartInv'
  BY <1>f0, <1>f1, <1>f2, <1>f3, <1>f4, <1>f5, <1>f6, <1>f7, <1>f8 DEF TypeOK, StartInv, AloneInv
<1>4. AloneInv'
  BY <1>f0, <1>f1, <1>f2, <1>f3, <1>f4, <1>f5, <1>f6, <1>f7, <1>f8 DEF TypeOK, AloneInv, StepInv
<1>5. EarlyInv'
  BY <1>f0, <1>f1, <1>f2, <1>f3, <1>f4, <1>f5, <1>f6, <1>f7, <1>f8 DEF TypeOK, AloneInv, EarlyInv,
       StepInv
<1>6. LateInv'
  BY <1>f0, <1>f1, <1>f2, <1>f3, <1>f4, <1>f5, <1>f6, <1>f7, <1>f8 DEF TypeOK, AloneInv, LateInv,
       EarlyInv, StepInv
<1>7. CleanInv'
  BY <1>f0, <1>f1, <1>f2, <1>f3, <1>f4, <1>f5, <1>f6, <1>f7, <1>f8 DEF TypeOK, CleanInv, StepInv,
       LateInv, EarlyInv, AloneInv
<1>8. PartialInv'
  BY <1>f0, <1>f1, <1>f2, <1>f3, <1>f4, <1>f5, <1>f6, <1>f7, <1>f8 DEF TypeOK, PartialInv,
       EarlyInv, StepInv, AloneInv
<1>9. DestInv'
  BY <1>f0, <1>f1, <1>f2, <1>f3, <1>f4, <1>f5, <1>f6, <1>f7, <1>f8 DEF TypeOK, DestInv, StepInv,
       AloneInv
<1>10. StoredInv'
  BY <1>f0, <1>f1, <1>f2, <1>f3, <1>f4, <1>f5, <1>f6, <1>f7, <1>f8 DEF TypeOK, StoredInv, StepInv,
       AloneInv
<1>11. GameInv'
  BY <1>f0, <1>f1, <1>f2, <1>f3, <1>f4, <1>f5, <1>f6, <1>f7, <1>f8 DEF TypeOK, GameInv
<1>12. CompletedIsGame'
  BY <1>f0, <1>f1, <1>f2, <1>f3, <1>f4, <1>f5, <1>f6, <1>f7, <1>f8 DEF TypeOK, CompletedIsGame,
       GameInv
<1>13. FilesAreKept'
  BY <1>f0, <1>f1, <1>f2, <1>f3, <1>f4, <1>f5, <1>f6, <1>f7, <1>f8 DEF TypeOK, FilesAreKept,
       GameHasFiles, NeverLost
<1> QED BY <1>1, <1>2, <1>3, <1>4, <1>5, <1>6, <1>7, <1>8, <1>9, <1>10, <1>11, <1>12, <1>13

\* claimLocked, in both of its outcomes
LEMMA StartCommitKeeps ==
  ASSUME NEW i \in Ids, IInv, Calm, StartCommit(i)
  PROVE  IInv'
<1>1. /\ start[i].at = "commit" /\ start' = [start EXCEPT ![i] = NoStart]
      /\ Free /\ library = {} /\ Quiet /\ retry = {}
           /\ UNCHANGED <<disk, cancelled, retry, cleaning, user>>
  BY DEF StartCommit, Calm
<1>2. CASE UNCHANGED <<records, job, jobs>>
  BY <1>1, <1>2, StartRefused DEF running
<1>3. CASE /\ i \in source /\ ~StartBlocked /\ ~Reserved
           /\ Save([rec EXCEPT ![i] = [status |-> "pending", owned |-> FALSE]])
           /\ Go(i, "prepare") /\ jobs' = jobs \cup {i}
  BY <1>1, <1>3, StartCommits DEF Save, Go
<1> QED BY <1>2, <1>3 DEF StartCommit

\* Cancel of an installation with a job only marks it.
LEMMA CancelJobKeeps ==
  ASSUME NEW i \in Ids, IInv, Calm, CancelJob(i)
  PROVE  IInv'
<1> USE DEF IInv, Calm, CancelJob, JobFits, Transient, Active, disk, records, calls, user,
     cleaning, running, WasTransient, Free, Mine, MoveOnly, Restarted, MovedPartial, MovedPlaced,
     Reserved, Early, Late, WorkSteps, PlaceSteps, JobSteps
<1>f0. /\ rec' = rec /\ stored' = stored /\ source' = source /\ partial' = partial
       /\ dest' = dest /\ job' = job /\ jobs' = jobs /\ start' = start /\ retry' = retry
       /\ clean' = clean /\ held' = held /\ kind' = kind /\ library' = library /\ asked' = asked
       /\ removing' = removing /\ crashes' = crashes
  OBVIOUS
<1>f1. cancelled' \subseteq jobs
  BY DEF TypeOK
<1>f2. \A k \in Ids : (MovedPartial(k) => MovedPartial(k)')
            /\ (MovedPlaced(k) => MovedPlaced(k)') /\ (Restarted(k) => Restarted(k)')
  BY <1>f0
<1> HIDE DEF CancelJob
<1>1. TypeOK'
  BY <1>f0, <1>f1, <1>f2 DEF TypeOK, Statuses
<1>2. StepInv'
  BY <1>f0, <1>f1, <1>f2 DEF TypeOK, StepInv
<1>3. StartInv'
  BY <1>f0, <1>f1, <1>f2 DEF TypeOK, StartInv, AloneInv
<1>4. AloneInv'
  BY <1>f0, <1>f1, <1>f2 DEF TypeOK, AloneInv, StepInv
<1>5. EarlyInv'
  BY <1>f0, <1>f1, <1>f2 DEF TypeOK, AloneInv, EarlyInv, StepInv
<1>6. LateInv'
  BY <1>f0, <1>f1, <1>f2 DEF TypeOK, AloneInv, LateInv, EarlyInv, StepInv
<1>7. CleanInv'
  BY <1>f0, <1>f1, <1>f2 DEF TypeOK, CleanInv, StepInv, LateInv, EarlyInv, AloneInv
<1>8. PartialInv'
  BY <1>f0, SMTT(60) DEF PartialInv
<1>9. DestInv'
  BY <1>f0, <1>f1, <1>f2 DEF TypeOK, DestInv, StepInv, AloneInv
<1>10. StoredInv'
  BY <1>f0, <1>f1, <1>f2 DEF TypeOK, StoredInv, StepInv, AloneInv
<1>11. GameInv'
  BY <1>f0, <1>f1, <1>f2 DEF TypeOK, GameInv
<1>12. CompletedIsGame'
  BY <1>f0, <1>f1, <1>f2 DEF TypeOK, CompletedIsGame, GameInv
<1>13. FilesAreKept'
  BY <1>f0, <1>f1, <1>f2 DEF TypeOK, FilesAreKept, GameHasFiles, NeverLost
<1> QED BY <1>1, <1>2, <1>3, <1>4, <1>5, <1>6, <1>7, <1>8, <1>9, <1>10, <1>11, <1>12, <1>13

\* Cancel of one without a job, its record written.
LEMMA CancelSaved ==
  ASSUME NEW i \in Ids, IInv, Calm, Cancel(i), SetStatus(i, "cancelled"),
              held' \in {held, held \cup {i}}, clean' = [clean EXCEPT ![i] = "sweep"]
  PROVE  IInv'
<1> USE DEF IInv, Calm, Cancel, Save, SetStatus, JobFits, Transient, Active, disk, records, calls,
     user, cleaning, running, WasTransient, Free, Mine, MoveOnly, Restarted, MovedPartial,
     MovedPlaced, Reserved, Early, Late, WorkSteps, PlaceSteps, JobSteps
<1>f0. /\ rec' \in AllRecords /\ rec'[i].status = "cancelled" /\ rec'[i].owned = rec[i].owned
            /\ \A k \in Ids \ {i} : rec'[k] = rec[k]
  <2>1. rec \in AllRecords /\ rec' = WithStatus(rec, i, "cancelled") /\ "cancelled" \in Statuses
    BY DEF TypeOK, AllRecords, Statuses, WithStatus
  <2>2. /\ WithStatus(rec, i, "cancelled") \in AllRecords
             /\ WithStatus(rec, i, "cancelled")[i].status = "cancelled"
        /\ WithStatus(rec, i, "cancelled")[i].owned = rec[i].owned
        /\ \A k \in Ids \ {i} : WithStatus(rec, i, "cancelled")[k] = rec[k]
    BY ONLY <2>1, StatusUpdate, i \in Ids
  <2> QED BY ONLY <2>1, <2>2
<1>f1. /\ source' = source /\ partial' = partial /\ dest' = dest /\ job' = job /\ jobs' = jobs
       /\ cancelled' = cancelled /\ start' = start /\ retry' = retry /\ kind' = kind
       /\ library' = library /\ asked' = asked /\ removing' = removing /\ crashes' = crashes
       /\ rec' = stored'
  OBVIOUS
<1>f2. held = {} /\ Active(i) /\ job[i] = "none" /\ \A k \in Ids : /\ Active(k) => k = i
                         /\ start[k].at \in {"none", "commit"} /\ clean[k] \in {"none", "sweep"}
  BY ActiveFacts
<1>f3. clean' \in [Ids -> {"none", "sweep", "check", "remove"}] /\ clean'[i] = "sweep"
            /\ \A k \in Ids \ {i} : clean'[k] = clean[k]
  BY DEF TypeOK
<1>f4. held' \subseteq {i} /\ start[i].at = "none"
  BY <1>f2 DEF StartInv
<1>f5. partial = Nothing /\ Mine(i)
  BY <1>f2 DEF EarlyInv, LateInv, StepInv
<1>f6. \A k \in Ids : ~Active(k)'
  BY <1>f0, <1>f2
<1>f7. \A k \in Ids : dest # Half(k) /\ ~MovedPlaced(k)
  BY <1>f2, ActiveFacts DEF DestInv
<1> HIDE DEF Cancel, Save, SetStatus
<1>1. TypeOK'
  BY <1>f0, <1>f1, <1>f2, <1>f3, <1>f4, <1>f5, <1>f6, <1>f7 DEF TypeOK, AllRecords
<1>2. StepInv'
  <2>1. ASSUME NEW k \in Ids, JobFits(k) PROVE JobFits(k)'
    BY <2>1, <1>f0, <1>f1, <1>f2, <1>f6, <1>f7
  <2> QED BY <2>1 DEF StepInv
<1>3. StartInv'
  BY <1>f0, <1>f1, <1>f2, <1>f3, <1>f4, <1>f5, <1>f6, <1>f7 DEF TypeOK, StartInv, AloneInv
<1>4. AloneInv'
  BY <1>f0, <1>f1, <1>f2, <1>f3, <1>f4, <1>f5, <1>f6, <1>f7 DEF TypeOK, AloneInv, StepInv
<1>5. EarlyInv'
  BY <1>f0, <1>f1, <1>f2, <1>f3, <1>f4, <1>f5, <1>f6, <1>f7 DEF TypeOK, AloneInv, EarlyInv, StepInv
<1>6. LateInv'
  BY <1>f0, <1>f1, <1>f2, <1>f3, <1>f4, <1>f5, <1>f6, <1>f7 DEF TypeOK, AloneInv, LateInv,
       EarlyInv, StepInv
<1>7. CleanInv'
  BY <1>f0, <1>f1, <1>f2, <1>f3, <1>f4, <1>f5, <1>f6, <1>f7 DEF TypeOK, CleanInv, StepInv,
       LateInv, EarlyInv, AloneInv
<1>8. PartialInv'
  BY <1>f0, <1>f1, <1>f2, <1>f3, <1>f4, <1>f5, <1>f6, <1>f7 DEF TypeOK, PartialInv, EarlyInv,
       StepInv, AloneInv
<1>9. DestInv'
  BY <1>f0, <1>f1, <1>f2, <1>f3, <1>f4, <1>f5, <1>f6, <1>f7 DEF TypeOK, DestInv, StepInv, AloneInv
<1>10. StoredInv'
  BY <1>f0, <1>f1, <1>f2, <1>f3, <1>f4, <1>f5, <1>f6, <1>f7 DEF TypeOK, StoredInv, StepInv, AloneInv
<1>11. GameInv'
  BY <1>f0, <1>f1, <1>f2, <1>f3, <1>f4, <1>f5, <1>f6, <1>f7 DEF TypeOK, GameInv
<1>12. CompletedIsGame'
  BY <1>f0, <1>f1, <1>f2, <1>f3, <1>f4, <1>f5, <1>f6, <1>f7 DEF TypeOK, CompletedIsGame, GameInv
<1>13. FilesAreKept'
  BY <1>f0, <1>f1, <1>f2, <1>f3, <1>f4, <1>f5, <1>f6, <1>f7 DEF TypeOK, FilesAreKept,
       GameHasFiles, NeverLost
<1> QED BY <1>1, <1>2, <1>3, <1>4, <1>5, <1>6, <1>7, <1>8, <1>9, <1>10, <1>11, <1>12, <1>13

\* ... its record not written.
LEMMA CancelUnsaved ==
  ASSUME NEW i \in Ids, IInv, Calm, Cancel(i), rec' = [rec EXCEPT ![i].status = "failed"],
              UNCHANGED <<stored, cleaning>>
  PROVE  IInv'
<1> USE DEF IInv, Calm, Cancel, JobFits, Transient, Active, disk, records, calls, user, cleaning,
     running, WasTransient, Free, Mine, MoveOnly, Restarted, MovedPartial, MovedPlaced, Reserved,
     Early, Late, WorkSteps, PlaceSteps, JobSteps
<1>f0. /\ rec' \in AllRecords /\ rec'[i].status = "failed" /\ rec'[i].owned = rec[i].owned
            /\ \A k \in Ids \ {i} : rec'[k] = rec[k]
  <2>1. rec \in AllRecords /\ rec' = WithStatus(rec, i, "failed") /\ "failed" \in Statuses
    BY DEF TypeOK, AllRecords, Statuses, WithStatus
  <2>2. /\ WithStatus(rec, i, "failed") \in AllRecords
             /\ WithStatus(rec, i, "failed")[i].status = "failed"
        /\ WithStatus(rec, i, "failed")[i].owned = rec[i].owned
        /\ \A k \in Ids \ {i} : WithStatus(rec, i, "failed")[k] = rec[k]
    BY ONLY <2>1, StatusUpdate, i \in Ids
  <2> QED BY ONLY <2>1, <2>2
<1>f1. /\ source' = source /\ partial' = partial /\ dest' = dest /\ job' = job /\ jobs' = jobs
       /\ cancelled' = cancelled /\ start' = start /\ retry' = retry /\ kind' = kind
       /\ library' = library /\ asked' = asked /\ removing' = removing /\ crashes' = crashes
       /\ stored' = stored /\ clean' = clean /\ held' = held
  OBVIOUS
<1>f2. rec = stored /\ held = {} /\ Active(i) /\ job[i] = "none" /\ \A k \in Ids : /\ Active(k)
                                                                                        => k = i
                         /\ start[k].at \in {"none", "commit"} /\ clean[k] \in {"none", "sweep"}
  BY ActiveFacts
<1>f3. partial = Nothing /\ Mine(i)
  BY <1>f2 DEF EarlyInv, LateInv, StepInv
<1>f4. \A k \in Ids : ~Active(k)'
  BY <1>f0, <1>f2
<1>f5. \A k \in Ids : dest # Half(k) /\ ~MovedPlaced(k)
  BY <1>f2, ActiveFacts DEF DestInv
<1> HIDE DEF Cancel
<1>1. TypeOK'
  BY <1>f0, <1>f1, <1>f2, <1>f3, <1>f4, <1>f5 DEF TypeOK, AllRecords
<1>2. StepInv'
  <2>1. ASSUME NEW k \in Ids, JobFits(k) PROVE JobFits(k)'
    BY <2>1, <1>f0, <1>f1, <1>f2, <1>f4, <1>f5
  <2> QED BY <2>1 DEF StepInv
<1>3. StartInv'
  BY <1>f0, <1>f1, <1>f2, <1>f3, <1>f4, <1>f5 DEF TypeOK, StartInv, AloneInv
<1>4. AloneInv'
  BY <1>f0, <1>f1, <1>f2, <1>f3, <1>f4, <1>f5 DEF TypeOK, AloneInv, StepInv
<1>5. EarlyInv'
  BY <1>f0, <1>f1, <1>f2, <1>f3, <1>f4, <1>f5 DEF TypeOK, AloneInv, EarlyInv, StepInv
<1>6. LateInv'
  BY <1>f0, <1>f1, <1>f2, <1>f3, <1>f4, <1>f5 DEF TypeOK, AloneInv, LateInv, EarlyInv, StepInv
<1>7. CleanInv'
  BY <1>f0, <1>f1, <1>f2, <1>f3, <1>f4, <1>f5 DEF TypeOK, CleanInv, StepInv, LateInv, EarlyInv,
       AloneInv
<1>8. PartialInv'
  BY <1>f0, <1>f1, <1>f2, <1>f3, <1>f4, <1>f5 DEF TypeOK, PartialInv, EarlyInv, StepInv, AloneInv
<1>9. DestInv'
  BY <1>f0, <1>f1, <1>f2, <1>f3, <1>f4, <1>f5 DEF TypeOK, DestInv, StepInv, AloneInv
<1>10. StoredInv'
  BY <1>f0, <1>f1, <1>f2, <1>f3, <1>f4, <1>f5 DEF TypeOK, StoredInv, StepInv, AloneInv
<1>11. GameInv'
  BY <1>f0, <1>f1, <1>f2, <1>f3, <1>f4, <1>f5 DEF TypeOK, GameInv
<1>12. CompletedIsGame'
  BY <1>f0, <1>f1, <1>f2, <1>f3, <1>f4, <1>f5 DEF TypeOK, CompletedIsGame, GameInv
<1>13. FilesAreKept'
  BY <1>f0, <1>f1, <1>f2, <1>f3, <1>f4, <1>f5 DEF TypeOK, FilesAreKept, GameHasFiles, NeverLost
<1> QED BY <1>1, <1>2, <1>3, <1>4, <1>5, <1>6, <1>7, <1>8, <1>9, <1>10, <1>11, <1>12, <1>13

\* Cancel of one without a job
LEMMA CancelKeeps ==
  ASSUME NEW i \in Ids, IInv, Calm, Cancel(i)
  PROVE  IInv'
<1>1. CASE SetStatus(i, "cancelled") /\ held' \in {held, held \cup {i}}
           /\ clean' = [clean EXCEPT ![i] = "sweep"]
  BY <1>1, CancelSaved
<1>2. CASE rec' = [rec EXCEPT ![i].status = "failed"] /\ UNCHANGED <<stored, cleaning>>
  BY <1>2, CancelUnsaved
<1> QED BY <1>1, <1>2 DEF Cancel

\* Dismiss
LEMMA DismissKeeps ==
  ASSUME NEW i \in Ids, IInv, Calm, Dismiss(i)
  PROVE  IInv'
<1> USE DEF IInv, Calm, Dismiss, Save, StartBlocked, OwnFiles, JobFits, Transient, Active, disk,
     records, calls, user, cleaning, running, WasTransient, Free, Mine, MoveOnly, Restarted,
     MovedPartial, MovedPlaced, Reserved, Early, Late, WorkSteps, PlaceSteps, JobSteps
<1>f0. /\ rec' \in AllRecords /\ rec'[i].status = "none" /\ \A k \in Ids \ {i} : rec'[k] = rec[k]
  <2>1. rec \in AllRecords /\ rec' = [rec EXCEPT ![i] = NoRecord]
             /\ NoRecord \in [status : Statuses, owned : BOOLEAN]
    BY DEF TypeOK, AllRecords, Statuses, NoRecord
  <2> QED BY ONLY <2>1, i \in Ids DEF AllRecords, NoRecord
<1>f1. /\ source' = source /\ partial' = partial /\ dest' = dest /\ job' = job /\ jobs' = jobs
       /\ cancelled' = cancelled /\ start' = start /\ retry' = retry /\ kind' = kind
       /\ library' = library /\ asked' = asked /\ removing' = removing /\ crashes' = crashes
       /\ rec' = stored'
  OBVIOUS
<1>f2. rec[i].status # "none" /\ job[i] = "none" /\ clean[i] = "none" /\ start[i].at = "none"
            /\ \A k \in Ids : ~Active(k) /\ ~Active(k)'
  BY <1>f0 DEF StartInv
<1>f3. clean' \in [Ids -> {"none", "sweep", "check", "remove"}] /\ clean'[i] = "sweep"
            /\ \A k \in Ids \ {i} : clean'[k] = clean[k]
  BY DEF TypeOK
<1>f4. \A k \in Ids : ~MovedPartial(k) /\ ~MovedPlaced(k)
  BY <1>f2
<1>f5. partial = Nothing
  <2>1. ASSUME NEW k \in Ids, partial \in {Half(k), Whole(k)}, Restarted(k) PROVE FALSE
    <3>1. partial.of = k /\ partial.of \in {i, "none"}
      BY <2>1, ContentFacts DEF StartBlocked
    <3>2. k = i
      BY <3>1, InstallConstants
    <3> QED BY ONLY <2>1, <3>2, <1>f2 DEF Restarted
  <2> QED BY <2>1, <1>f2, <1>f4 DEF PartialInv
<1>f6. Mine(i) /\ (\A k \in Ids : dest # Half(k)) /\ held' \in {held, held \cup {i}}
  BY <1>f4, ContentFacts DEF DestInv, TypeOK, Contents
<1> HIDE DEF Dismiss, Save, StartBlocked, OwnFiles
<1>1. TypeOK'
  BY <1>f0, <1>f1, <1>f2, <1>f3, <1>f4, <1>f5, <1>f6 DEF TypeOK, AllRecords
<1>2. StepInv'
  <2>1. ASSUME NEW k \in Ids, JobFits(k) PROVE JobFits(k)'
    BY <2>1, <1>f0, <1>f1, <1>f2, <1>f4
  <2> QED BY <2>1 DEF StepInv
<1>3. StartInv'
  BY <1>f0, <1>f1, <1>f2, <1>f3, <1>f4, <1>f5, <1>f6 DEF TypeOK, StartInv, AloneInv
<1>4. AloneInv'
  BY <1>f0, <1>f1, <1>f2, <1>f3, <1>f4, <1>f5, <1>f6 DEF TypeOK, AloneInv, StepInv
<1>5. EarlyInv'
  BY <1>f0, <1>f1, <1>f2, <1>f3, <1>f4, <1>f5, <1>f6 DEF TypeOK, AloneInv, EarlyInv, StepInv
<1>6. LateInv'
  BY <1>f0, <1>f1, <1>f2, <1>f3, <1>f4, <1>f5, <1>f6 DEF TypeOK, AloneInv, LateInv, EarlyInv,
       StepInv
<1>7. CleanInv'
  BY <1>f0, <1>f1, <1>f2, <1>f3, <1>f4, <1>f5, <1>f6 DEF TypeOK, CleanInv, StepInv, LateInv,
       EarlyInv, AloneInv
<1>8. PartialInv'
  BY <1>f0, <1>f1, <1>f2, <1>f3, <1>f4, <1>f5, <1>f6 DEF TypeOK, PartialInv, EarlyInv, StepInv,
       AloneInv
<1>9. DestInv'
  BY <1>f0, <1>f1, <1>f2, <1>f3, <1>f4, <1>f5, <1>f6 DEF TypeOK, DestInv, StepInv, AloneInv
<1>10. StoredInv'
  BY <1>f0, <1>f1, <1>f2, <1>f3, <1>f4, <1>f5, <1>f6 DEF TypeOK, StoredInv, StepInv, AloneInv
<1>11. GameInv'
  BY <1>f0, <1>f1, <1>f2, <1>f3, <1>f4, <1>f5, <1>f6 DEF TypeOK, GameInv
<1>12. CompletedIsGame'
  BY <1>f0, <1>f1, <1>f2, <1>f3, <1>f4, <1>f5, <1>f6 DEF TypeOK, CompletedIsGame, GameInv
<1>13. FilesAreKept'
  BY <1>f0, <1>f1, <1>f2, <1>f3, <1>f4, <1>f5, <1>f6 DEF TypeOK, FilesAreKept, GameHasFiles,
       NeverLost
<1> QED BY <1>1, <1>2, <1>3, <1>4, <1>5, <1>6, <1>7, <1>8, <1>9, <1>10, <1>11, <1>12, <1>13

\* ConfirmExecutable takes up an installation whose files are in the folder.
LEMMA ConfirmKeeps ==
  ASSUME NEW i \in Ids, IInv, Calm, Confirm(i)
  PROVE  IInv'
<1> USE DEF IInv, Calm, Confirm, Save, SetStatus, Go, JobFits, Transient, Active, disk, records,
     calls, user, cleaning, running, WasTransient, Free, Mine, MoveOnly, Restarted, MovedPartial,
     MovedPlaced, Reserved, Early, Late, WorkSteps, PlaceSteps, JobSteps
<1>f0. /\ rec' \in AllRecords /\ rec'[i].status = "verifying" /\ rec'[i].owned = rec[i].owned
            /\ \A k \in Ids \ {i} : rec'[k] = rec[k]
  <2>1. rec \in AllRecords /\ rec' = WithStatus(rec, i, "verifying") /\ "verifying" \in Statuses
    BY DEF TypeOK, AllRecords, Statuses, WithStatus
  <2>2. /\ WithStatus(rec, i, "verifying") \in AllRecords
             /\ WithStatus(rec, i, "verifying")[i].status = "verifying"
        /\ WithStatus(rec, i, "verifying")[i].owned = rec[i].owned
        /\ \A k \in Ids \ {i} : WithStatus(rec, i, "verifying")[k] = rec[k]
    BY ONLY <2>1, StatusUpdate, i \in Ids
  <2> QED BY ONLY <2>1, <2>2
<1>f1. /\ source' = source /\ partial' = partial /\ dest' = dest /\ jobs' = jobs
       /\ cancelled' = cancelled /\ start' = start /\ retry' = retry /\ clean' = clean
       /\ held' = held /\ kind' = kind /\ library' = library /\ asked' = asked
       /\ removing' = removing /\ crashes' = crashes /\ rec' = stored'
  OBVIOUS
<1>f2. rec[i].status = "waiting" /\ Active(i) /\ Late(i) /\ start[i].at = "none" /\ held = {}
            /\ \A k \in Ids : ~MovedPartial(k) /\ ~MovedPlaced(k)
       /\ (Active(k) => k = i) /\ start[k].at \in {"none", "commit"}
  BY ActiveFacts DEF StartInv
<1>f3. partial = Nothing /\ dest = Whole(i)
  BY <1>f2 DEF LateInv
<1>f4. job' \in [Ids -> JobSteps] /\ job'[i] = "register" /\ \A k \in Ids \ {i} : job'[k] = job[k]
  BY DEF TypeOK
<1>f5. \A k \in Ids \ {i} : ~Active(k)'
  BY <1>f0, <1>f2
<1> HIDE DEF Confirm, Save, SetStatus, Go
<1>1. TypeOK'
  BY <1>f0, <1>f1, <1>f2, <1>f3, <1>f4, <1>f5 DEF TypeOK, AllRecords
<1>2. StepInv'
  <2>1. ASSUME NEW k \in Ids, JobFits(k) PROVE JobFits(k)'
    BY <2>1, <1>f0, <1>f1, <1>f2, <1>f4, <1>f5
  <2> QED BY <2>1 DEF StepInv
<1>3. StartInv'
  BY <1>f0, <1>f1, <1>f2, <1>f3, <1>f4, <1>f5 DEF TypeOK, StartInv, AloneInv
<1>4. AloneInv'
  BY <1>f0, <1>f1, <1>f2, <1>f3, <1>f4, <1>f5 DEF TypeOK, AloneInv, StepInv
<1>5. EarlyInv'
  BY <1>f0, <1>f1, <1>f2, <1>f3, <1>f4, <1>f5, ContentFacts DEF TypeOK, AloneInv, EarlyInv, StepInv
<1>6. LateInv'
  BY <1>f0, <1>f1, <1>f2, <1>f3, <1>f4, <1>f5 DEF TypeOK, AloneInv, LateInv, EarlyInv, StepInv
<1>7. CleanInv'
  BY <1>f0, <1>f1, <1>f2, <1>f3, <1>f4, <1>f5 DEF TypeOK, CleanInv, StepInv, LateInv, EarlyInv,
       AloneInv
<1>8. PartialInv'
  BY <1>f0, <1>f1, <1>f2, <1>f3, <1>f4, <1>f5 DEF TypeOK, PartialInv, EarlyInv, StepInv, AloneInv
<1>9. DestInv'
  BY <1>f0, <1>f1, <1>f2, <1>f3, <1>f4, <1>f5 DEF TypeOK, DestInv, StepInv, AloneInv
<1>10. StoredInv'
  BY <1>f0, <1>f1, <1>f2, <1>f3, <1>f4, <1>f5 DEF TypeOK, StoredInv, StepInv, AloneInv
<1>11. GameInv'
  BY <1>f0, <1>f1, <1>f2, <1>f3, <1>f4, <1>f5 DEF TypeOK, GameInv
<1>12. CompletedIsGame'
  BY <1>f0, <1>f1, <1>f2, <1>f3, <1>f4, <1>f5 DEF TypeOK, CompletedIsGame, GameInv
<1>13. FilesAreKept'
  BY <1>f0, <1>f1, <1>f2, <1>f3, <1>f4, <1>f5 DEF TypeOK, FilesAreKept, GameHasFiles, NeverLost
<1> QED BY <1>1, <1>2, <1>3, <1>4, <1>5, <1>6, <1>7, <1>8, <1>9, <1>10, <1>11, <1>12, <1>13

\* A retry takes up files that are whole in the folder.
LEMMA RetryFinalizeKeeps ==
  ASSUME NEW i \in Ids, IInv, Calm, RetryFinalize(i)
  PROVE  IInv'
<1> USE DEF IInv, Calm, RetryFinalize, Save, SetStatus, Go, Finalizable, Retryable, UsedByOther,
     JobFits, Transient, Active, disk, records, calls, user, cleaning, running, WasTransient,
     Free, Mine, MoveOnly, Restarted, MovedPartial, MovedPlaced, Reserved, Early, Late, WorkSteps,
     PlaceSteps, JobSteps
<1>f0. /\ rec' \in AllRecords /\ rec'[i].status = "verifying" /\ rec'[i].owned = rec[i].owned
            /\ \A k \in Ids \ {i} : rec'[k] = rec[k]
  <2>1. rec \in AllRecords /\ rec' = WithStatus(rec, i, "verifying") /\ "verifying" \in Statuses
    BY DEF TypeOK, AllRecords, Statuses, WithStatus
  <2>2. /\ WithStatus(rec, i, "verifying") \in AllRecords
             /\ WithStatus(rec, i, "verifying")[i].status = "verifying"
        /\ WithStatus(rec, i, "verifying")[i].owned = rec[i].owned
        /\ \A k \in Ids \ {i} : WithStatus(rec, i, "verifying")[k] = rec[k]
    BY ONLY <2>1, StatusUpdate, i \in Ids
  <2> QED BY ONLY <2>1, <2>2
<1>f1. /\ source' = source /\ partial' = partial /\ dest' = dest /\ jobs' = jobs
       /\ cancelled' = cancelled /\ start' = start /\ retry' = retry /\ clean' = clean
       /\ held' = held /\ kind' = kind /\ library' = library /\ asked' = asked
       /\ removing' = removing /\ crashes' = crashes /\ rec' = stored'
  OBVIOUS
<1>f2. rec[i].status # "none" /\ job[i] = "none" /\ start[i].at = "none" /\ partial = Nothing
            /\ held = {}
       /\ \A k \in Ids : ~Active(k) /\ start[k].at \in {"none", "commit"}
  BY DEF StartInv, TypeOK
<1>f3. \A k \in Ids : ~MovedPartial(k) /\ ~MovedPlaced(k)
  BY <1>f2, ContentFacts
<1>f4. dest = Whole(i)
  BY <1>f3, ContentFacts DEF DestInv, TypeOK, Contents
<1>f5. job' \in [Ids -> JobSteps] /\ job'[i] = "finalize" /\ \A k \in Ids \ {i} : job'[k] = job[k]
  BY DEF TypeOK
<1>f6. \A k \in Ids \ {i} : ~Active(k)'
  BY <1>f0, <1>f2
<1> HIDE DEF RetryFinalize, Save, SetStatus, Go, Finalizable, Retryable, UsedByOther
<1>1. TypeOK'
  BY <1>f0, <1>f1, <1>f2, <1>f3, <1>f4, <1>f5, <1>f6 DEF TypeOK, AllRecords
<1>2. StepInv'
  <2>1. ASSUME NEW k \in Ids, JobFits(k) PROVE JobFits(k)'
    BY <2>1, <1>f0, <1>f1, <1>f2, <1>f3, <1>f5, <1>f6
  <2> QED BY <2>1 DEF StepInv
<1>3. StartInv'
  BY <1>f0, <1>f1, <1>f2, <1>f3, <1>f4, <1>f5, <1>f6 DEF TypeOK, StartInv, AloneInv
<1>4. AloneInv'
  <2>1. ~Reserved'
    BY ONLY <1>f1, <1>f2
  <2>2. \A k \in Ids : Active(k)' => k = i
    BY <1>f6
  <2> QED BY ONLY <2>1, <2>2 DEF AloneInv
<1>5. EarlyInv'
  BY <1>f0, <1>f1, <1>f2, <1>f3, <1>f4, <1>f5, <1>f6, ContentFacts DEF TypeOK, AloneInv, EarlyInv,
       StepInv
<1>6. LateInv'
  BY <1>f0, <1>f1, <1>f2, <1>f3, <1>f4, <1>f5, <1>f6 DEF TypeOK, AloneInv, LateInv, EarlyInv,
       StepInv
<1>7. CleanInv'
  BY <1>f0, <1>f1, <1>f2, <1>f3, <1>f4, <1>f5, <1>f6 DEF TypeOK, CleanInv, StepInv, LateInv,
       EarlyInv, AloneInv
<1>8. PartialInv'
  BY <1>f0, <1>f1, <1>f2, <1>f3, <1>f4, <1>f5, <1>f6 DEF TypeOK, PartialInv, EarlyInv, StepInv,
       AloneInv
<1>9. DestInv'
  BY <1>f0, <1>f1, <1>f2, <1>f3, <1>f4, <1>f5, <1>f6 DEF TypeOK, DestInv, StepInv, AloneInv
<1>10. StoredInv'
  BY <1>f0, <1>f1, <1>f2, <1>f3, <1>f4, <1>f5, <1>f6 DEF TypeOK, StoredInv, StepInv, AloneInv
<1>11. GameInv'
  BY <1>f0, <1>f1, <1>f2, <1>f3, <1>f4, <1>f5, <1>f6 DEF TypeOK, GameInv
<1>12. CompletedIsGame'
  BY <1>f0, <1>f1, <1>f2, <1>f3, <1>f4, <1>f5, <1>f6 DEF TypeOK, CompletedIsGame, GameInv
<1>13. FilesAreKept'
  BY <1>f0, <1>f1, <1>f2, <1>f3, <1>f4, <1>f5, <1>f6 DEF TypeOK, FilesAreKept, GameHasFiles,
       NeverLost
<1> QED BY <1>1, <1>2, <1>3, <1>4, <1>5, <1>6, <1>7, <1>8, <1>9, <1>10, <1>11, <1>12, <1>13

\* A retry begins with no cleanup on its way and a free folder.
LEMMA RetryKeeps ==
  ASSUME NEW i \in Ids, IInv, Calm, Retry(i)
  PROVE  IInv'
<1> USE DEF IInv, Calm, Retry, Save, SetStatus, Finalizable, Retryable, UsedByOther, Quiet,
     JobFits, Transient, Active, disk, records, calls, user, cleaning, running, WasTransient,
     Free, Mine, MoveOnly, Restarted, MovedPartial, MovedPlaced, Reserved, Early, Late, WorkSteps,
     PlaceSteps, JobSteps
<1>f0. /\ rec' \in AllRecords /\ rec'[i].status = "pending" /\ rec'[i].owned = rec[i].owned
            /\ \A k \in Ids \ {i} : rec'[k] = rec[k]
  <2>1. rec \in AllRecords /\ rec' = WithStatus(rec, i, "pending") /\ "pending" \in Statuses
    BY DEF TypeOK, AllRecords, Statuses, WithStatus
  <2>2. /\ WithStatus(rec, i, "pending") \in AllRecords
             /\ WithStatus(rec, i, "pending")[i].status = "pending"
        /\ WithStatus(rec, i, "pending")[i].owned = rec[i].owned
        /\ \A k \in Ids \ {i} : WithStatus(rec, i, "pending")[k] = rec[k]
    BY ONLY <2>1, StatusUpdate, i \in Ids
  <2> QED BY ONLY <2>1, <2>2
<1>f1. /\ source' = source /\ partial' = partial /\ dest' = dest /\ job' = job /\ jobs' = jobs
       /\ cancelled' = cancelled /\ start' = start /\ clean' = clean /\ held' = held
       /\ kind' = kind /\ library' = library /\ asked' = asked /\ removing' = removing
       /\ crashes' = crashes /\ rec' = stored'
  OBVIOUS
<1>f2. rec[i].status # "none" /\ job[i] = "none" /\ start[i].at = "none" /\ held = {}
            /\ retry' = {i} /\ i \in source
       /\ \A k \in Ids : ~Active(k) /\ start[k].at \in {"none", "commit"}
  BY DEF StartInv, TypeOK
<1>f3. \A k \in Ids : clean[k] = "none"
  BY <1>f2 DEF CleanInv, TypeOK
<1>f4. \A k \in Ids : ~MovedPartial(k) /\ ~MovedPlaced(k)
  BY <1>f2, <1>f3
<1>f5. partial = Nothing /\ Free
  BY <1>f2, <1>f3, <1>f4 DEF PartialInv
<1>f6. (\A k \in Ids : dest # Half(k) /\ dest # Whole(k)) /\ library \subseteq asked
  <2>1. \A k \in Ids : dest # Half(k) /\ dest # Whole(k)
    BY <1>f5, ContentFacts
  <2> QED BY <2>1 DEF FilesAreKept, GameHasFiles, TypeOK
<1>f7. \A k \in Ids \ {i} : ~Active(k)'
  BY <1>f0, <1>f2
<1> HIDE DEF Retry, Save, SetStatus, Finalizable, Retryable, UsedByOther, Quiet
<1>1. TypeOK'
  BY <1>f0, <1>f1, <1>f2, <1>f3, <1>f4, <1>f5, <1>f6, <1>f7 DEF TypeOK, AllRecords
<1>2. StepInv'
  <2>1. ASSUME NEW k \in Ids, JobFits(k) PROVE JobFits(k)'
    BY <2>1, <1>f0, <1>f1, <1>f2, <1>f4, <1>f7
  <2> QED BY <2>1 DEF StepInv
<1>3. StartInv'
  BY <1>f0, <1>f1, <1>f2, <1>f3, <1>f4, <1>f5, <1>f6, <1>f7 DEF TypeOK, StartInv, AloneInv
<1>4. AloneInv'
  <2>1. ~Reserved'
    BY ONLY <1>f1, <1>f2
  <2>2. \A k \in Ids : Active(k)' => k = i
    BY <1>f7
  <2> QED BY ONLY <2>1, <2>2 DEF AloneInv
<1>5. EarlyInv'
  <2> SUFFICES Early(i)' => /\ i \in source /\ Free /\ library \subseteq asked
                                /\ (\A k \in Ids : clean[k] = "none") /\ retry' = {i}
                                     /\ partial = Nothing
                                /\ job'[i] = "none"
    BY <1>f1, <1>f7 DEF EarlyInv
  <2> QED BY <1>f1, <1>f2, <1>f3, <1>f5, <1>f6
<1>6. LateInv'
  BY <1>f0, <1>f1, <1>f2, <1>f3, <1>f4, <1>f5, <1>f6, <1>f7 DEF TypeOK, AloneInv, LateInv,
       EarlyInv, StepInv
<1>7. CleanInv'
  BY <1>f0, <1>f1, <1>f2, <1>f3, <1>f4, <1>f5, <1>f6, <1>f7 DEF TypeOK, CleanInv, StepInv,
       LateInv, EarlyInv, AloneInv
<1>8. PartialInv'
  BY <1>f0, <1>f1, <1>f2, <1>f3, <1>f4, <1>f5, <1>f6, <1>f7 DEF TypeOK, PartialInv, EarlyInv,
       StepInv, AloneInv
<1>9. DestInv'
  BY <1>f0, <1>f1, <1>f2, <1>f3, <1>f4, <1>f5, <1>f6, <1>f7 DEF TypeOK, DestInv, StepInv, AloneInv
<1>10. StoredInv'
  BY <1>f0, <1>f1, <1>f2, <1>f3, <1>f4, <1>f5, <1>f6, <1>f7 DEF TypeOK, StoredInv, StepInv, AloneInv
<1>11. GameInv'
  BY <1>f0, <1>f1, <1>f2, <1>f3, <1>f4, <1>f5, <1>f6, <1>f7 DEF TypeOK, GameInv
<1>12. CompletedIsGame'
  BY <1>f0, <1>f1, <1>f2, <1>f3, <1>f4, <1>f5, <1>f6, <1>f7 DEF TypeOK, CompletedIsGame, GameInv
<1>13. FilesAreKept'
  BY <1>f0, <1>f1, <1>f2, <1>f3, <1>f4, <1>f5, <1>f6, <1>f7 DEF TypeOK, FilesAreKept,
       GameHasFiles, NeverLost
<1> QED BY <1>1, <1>2, <1>3, <1>4, <1>5, <1>6, <1>7, <1>8, <1>9, <1>10, <1>11, <1>12, <1>13

\* ... and its job starts with an empty .partial folder.
LEMMA RetryStartBegins ==
  ASSUME NEW i \in Ids, IInv, Calm, RetryStart(i), rec[i].status = "pending", Go(i, "prepare"),
              jobs' = jobs \cup {i}
  PROVE  IInv'
<1> USE DEF IInv, Calm, RetryStart, Go, Swept, JobFits, Transient, Active, disk, records, calls,
     user, cleaning, running, WasTransient, Free, Mine, MoveOnly, Restarted, MovedPartial,
     MovedPlaced, Reserved, Early, Late, WorkSteps, PlaceSteps, JobSteps
<1>f0. /\ rec' = rec /\ stored' = stored /\ source' = source /\ dest' = dest
       /\ cancelled' = cancelled /\ start' = start /\ clean' = clean /\ held' = held
       /\ kind' = kind /\ library' = library /\ asked' = asked /\ removing' = removing
       /\ crashes' = crashes
  OBVIOUS
<1>f1. Early(i) /\ Active(i) /\ job[i] = "none" /\ retry' = {} /\ i \in source /\ partial = Nothing
       /\ \A k \in Ids : start[k].at \in {"none", "commit"} /\ (Active(k) => k = i)
  BY ActiveFacts DEF EarlyInv, StepInv
<1>f2. held = {} /\ start[i].at = "none" /\ \A k \in Ids : ~MovedPartial(k) /\ ~MovedPlaced(k)
            /\ ~Restarted(k) /\ clean[k] = "none"
  BY <1>f1, ActiveFacts DEF StartInv, EarlyInv
<1>f3. partial' = Nothing
  BY <1>f1
<1>f4. job' \in [Ids -> JobSteps] /\ job'[i] = "prepare" /\ \A k \in Ids \ {i} : job'[k] = job[k]
  BY DEF TypeOK
<1>f5. \A k \in Ids : Transient(k)' = Transient(k) /\ Active(k)' = Active(k)
  BY <1>f0
<1> HIDE DEF RetryStart, Go, Swept
<1>1. TypeOK'
  BY <1>f0, <1>f1, <1>f2, <1>f3, <1>f4, <1>f5 DEF TypeOK, Statuses
<1>2. StepInv'
  <2>1. ASSUME NEW k \in Ids, JobFits(k) PROVE JobFits(k)'
    BY <2>1, <1>f0, <1>f1, <1>f2, <1>f4, <1>f5
  <2> QED BY <2>1 DEF StepInv
<1>3. StartInv'
  BY <1>f0, <1>f1, <1>f2, <1>f3, <1>f4, <1>f5 DEF TypeOK, StartInv, AloneInv
<1>4. AloneInv'
  BY <1>f0, <1>f1, <1>f2, <1>f3, <1>f4, <1>f5 DEF TypeOK, AloneInv, StepInv
<1>5. EarlyInv'
  BY <1>f0, <1>f1, <1>f2, <1>f3, <1>f4, <1>f5 DEF TypeOK, AloneInv, EarlyInv, StepInv
<1>6. LateInv'
  BY <1>f0, <1>f1, <1>f2, <1>f3, <1>f4, <1>f5 DEF TypeOK, AloneInv, LateInv, EarlyInv, StepInv
<1>7. CleanInv'
  BY <1>f0, <1>f1, <1>f2, <1>f3, <1>f4, <1>f5 DEF TypeOK, CleanInv, StepInv, LateInv, EarlyInv,
       AloneInv
<1>8. PartialInv'
  BY <1>f0, <1>f1, <1>f2, <1>f3, <1>f4, <1>f5 DEF TypeOK, PartialInv, EarlyInv, StepInv, AloneInv
<1>9. DestInv'
  BY <1>f0, <1>f1, <1>f2, <1>f3, <1>f4, <1>f5 DEF TypeOK, DestInv, StepInv, AloneInv
<1>10. StoredInv'
  BY <1>f0, <1>f1, <1>f2, <1>f3, <1>f4, <1>f5 DEF TypeOK, StoredInv, StepInv, AloneInv
<1>11. GameInv'
  BY <1>f0, <1>f1, <1>f2, <1>f3, <1>f4, <1>f5 DEF TypeOK, GameInv
<1>12. CompletedIsGame'
  BY <1>f0, <1>f1, <1>f2, <1>f3, <1>f4, <1>f5 DEF TypeOK, CompletedIsGame, GameInv
<1>13. FilesAreKept'
  BY <1>f0, <1>f1, <1>f2, <1>f3, <1>f4, <1>f5 DEF TypeOK, FilesAreKept, GameHasFiles, NeverLost
<1> QED BY <1>1, <1>2, <1>3, <1>4, <1>5, <1>6, <1>7, <1>8, <1>9, <1>10, <1>11, <1>12, <1>13

\* ... or was cancelled in the meantime.
LEMMA RetryStartDropped ==
  ASSUME NEW i \in Ids, IInv, Calm, RetryStart(i), rec[i].status # "pending", UNCHANGED <<job,
              jobs>>
  PROVE  IInv'
<1> USE DEF IInv, Calm, RetryStart, Swept, JobFits, Transient, Active, disk, records, calls, user,
     cleaning, running, WasTransient, Free, Mine, MoveOnly, Restarted, MovedPartial, MovedPlaced,
     Reserved, Early, Late, WorkSteps, PlaceSteps, JobSteps
<1>f0. /\ rec' = rec /\ stored' = stored /\ source' = source /\ dest' = dest /\ job' = job
       /\ jobs' = jobs /\ cancelled' = cancelled /\ start' = start /\ clean' = clean
       /\ held' = held /\ kind' = kind /\ library' = library /\ asked' = asked
       /\ removing' = removing /\ crashes' = crashes
  OBVIOUS
<1>f1. i \in retry /\ retry' = retry \ {i} /\ partial' \in {partial, Nothing}
  OBVIOUS
<1>f2. \A k \in Ids : ~Early(k)
  BY <1>f1 DEF EarlyInv, StepInv
<1>f3. \A k \in Ids : ~MovedPartial(k) /\ ~MovedPlaced(k) /\ ~Restarted(k)
  BY <1>f1
<1>f4. partial = Nothing /\ partial' = partial
  BY <1>f1, <1>f2, <1>f3 DEF PartialInv
<1>f5. \A k \in Ids : Transient(k)' = Transient(k) /\ Active(k)' = Active(k)
  BY <1>f0
<1> HIDE DEF RetryStart, Swept
<1>1. TypeOK'
  BY <1>f0, <1>f1, <1>f2, <1>f3, <1>f4, <1>f5 DEF TypeOK, Statuses
<1>2. StepInv'
  <2>1. ASSUME NEW k \in Ids, JobFits(k) PROVE JobFits(k)'
    BY <2>1, <1>f0, <1>f1, <1>f2, <1>f3, <1>f5
  <2> QED BY <2>1 DEF StepInv
<1>3. StartInv'
  BY <1>f0, <1>f1, <1>f2, <1>f3, <1>f4, <1>f5 DEF TypeOK, StartInv, AloneInv
<1>4. AloneInv'
  BY <1>f0, <1>f1, <1>f2, <1>f3, <1>f4, <1>f5 DEF TypeOK, AloneInv, StepInv
<1>5. EarlyInv'
  BY <1>f0, <1>f1, <1>f2, <1>f3, <1>f4, <1>f5 DEF TypeOK, AloneInv, EarlyInv, StepInv
<1>6. LateInv'
  BY <1>f0, <1>f1, <1>f2, <1>f3, <1>f4, <1>f5 DEF TypeOK, AloneInv, LateInv, EarlyInv, StepInv
<1>7. CleanInv'
  BY <1>f0, <1>f1, <1>f2, <1>f3, <1>f4, <1>f5 DEF TypeOK, CleanInv, StepInv, LateInv, EarlyInv,
       AloneInv
<1>8. PartialInv'
  BY <1>f0, <1>f1, <1>f2, <1>f3, <1>f4, <1>f5 DEF TypeOK, PartialInv, EarlyInv, StepInv, AloneInv
<1>9. DestInv'
  BY <1>f0, <1>f1, <1>f2, <1>f3, <1>f4, <1>f5 DEF TypeOK, DestInv, StepInv, AloneInv
<1>10. StoredInv'
  BY <1>f0, <1>f1, <1>f2, <1>f3, <1>f4, <1>f5 DEF TypeOK, StoredInv, StepInv, AloneInv
<1>11. GameInv'
  BY <1>f0, <1>f1, <1>f2, <1>f3, <1>f4, <1>f5 DEF TypeOK, GameInv
<1>12. CompletedIsGame'
  BY <1>f0, <1>f1, <1>f2, <1>f3, <1>f4, <1>f5 DEF TypeOK, CompletedIsGame, GameInv
<1>13. FilesAreKept'
  BY <1>f0, <1>f1, <1>f2, <1>f3, <1>f4, <1>f5 DEF TypeOK, FilesAreKept, GameHasFiles, NeverLost
<1> QED BY <1>1, <1>2, <1>3, <1>4, <1>5, <1>6, <1>7, <1>8, <1>9, <1>10, <1>11, <1>12, <1>13

\* The sweep of a retry, in both of its outcomes
LEMMA RetryStartKeeps ==
  ASSUME NEW i \in Ids, IInv, Calm, RetryStart(i)
  PROVE  IInv'
BY RetryStartBegins, RetryStartDropped DEF RetryStart

\* A source is deleted that no installation under way uses.
LEMMA DeleteSourceKeeps ==
  ASSUME NEW i \in Ids, IInv, Calm, DeleteSource(i)
  PROVE  IInv'
<1> USE DEF IInv, Calm, DeleteSource, JobFits, Transient, Active, disk, records, calls, user,
     cleaning, running, WasTransient, Free, Mine, MoveOnly, Restarted, MovedPartial, MovedPlaced,
     Reserved, Early, Late, WorkSteps, PlaceSteps, JobSteps
<1>f0. /\ rec' = rec /\ stored' = stored /\ partial' = partial /\ dest' = dest /\ job' = job
       /\ jobs' = jobs /\ cancelled' = cancelled /\ start' = start /\ retry' = retry
       /\ clean' = clean /\ held' = held /\ kind' = kind /\ library' = library
       /\ removing' = removing /\ crashes' = crashes
  OBVIOUS
<1>f1. i \in source /\ ~Active(i) /\ clean[i] = "none" /\ source' = source \ {i}
            /\ asked' = asked \cup {i}
  OBVIOUS
<1>f2. (MovedPartial(i) <=> FALSE) /\ (Restarted(i) <=> FALSE)
            /\ \A k \in Ids : (MovedPartial(k) => MovedPartial(k)')
                 /\ (MovedPlaced(k) => MovedPlaced(k)') /\ (Restarted(k) => Restarted(k)')
  BY <1>f0, <1>f1
<1>f3. \A k \in Ids : Transient(k)' = Transient(k) /\ Active(k)' = Active(k)
            /\ Early(k)' = Early(k) /\ Late(k)' = Late(k)
  BY <1>f0
<1> HIDE DEF DeleteSource
<1>1. TypeOK'
  BY <1>f0, <1>f1, <1>f2, <1>f3 DEF TypeOK, Statuses
<1>2. StepInv'
  <2>1. ASSUME NEW k \in Ids, JobFits(k) PROVE JobFits(k)'
    BY <2>1, <1>f0, <1>f1, <1>f2, <1>f3
  <2> QED BY <2>1 DEF StepInv
<1>3. StartInv'
  BY <1>f0, <1>f1, <1>f2, <1>f3 DEF TypeOK, StartInv, AloneInv
<1>4. AloneInv'
  BY <1>f0, <1>f1, <1>f2, <1>f3 DEF TypeOK, AloneInv, StepInv
<1>5. EarlyInv'
  BY <1>f0, <1>f1, <1>f2, <1>f3 DEF TypeOK, AloneInv, EarlyInv, StepInv
<1>6. LateInv'
  BY <1>f0, <1>f1, <1>f2, <1>f3 DEF TypeOK, AloneInv, LateInv, EarlyInv, StepInv
<1>7. CleanInv'
  BY <1>f0, <1>f1, <1>f2, <1>f3 DEF TypeOK, CleanInv, StepInv, LateInv, EarlyInv, AloneInv
<1>8. PartialInv'
  <2>1. CASE partial = Nothing
    BY <2>1, <1>f0 DEF PartialInv
  <2>2. ASSUME NEW k \in Ids, partial \in {Half(k), Whole(k)},
                    Early(k) \/ Restarted(k) \/ MovedPartial(k) PROVE PartialInv'
    <3>1. partial' \in {Half(k), Whole(k)}
      BY <2>2, <1>f0
    <3>2. Early(k)' \/ Restarted(k)' \/ MovedPartial(k)'
      BY <2>2, <1>f2, <1>f3
    <3> HIDE DEF Early, Restarted, MovedPartial
    <3> QED BY <3>1, <3>2 DEF PartialInv
  <2> QED BY <2>1, <2>2 DEF PartialInv
<1>9. DestInv'
  BY <1>f0, <1>f1, <1>f2, <1>f3 DEF TypeOK, DestInv, StepInv, AloneInv
<1>10. StoredInv'
  BY <1>f0, <1>f1, <1>f2, <1>f3 DEF TypeOK, StoredInv, StepInv, AloneInv
<1>11. GameInv'
  BY <1>f0, <1>f1, <1>f2, <1>f3 DEF TypeOK, GameInv
<1>12. CompletedIsGame'
  BY <1>f0, <1>f1, <1>f2, <1>f3 DEF TypeOK, CompletedIsGame, GameInv
<1>13. FilesAreKept'
  BY <1>f0, <1>f1, <1>f2, <1>f3 DEF TypeOK, FilesAreKept, GameHasFiles, NeverLost
<1> QED BY <1>1, <1>2, <1>3, <1>4, <1>5, <1>6, <1>7, <1>8, <1>9, <1>10, <1>11, <1>12, <1>13

\* The files of a game are removed.
LEMMA RemoveGameKeeps ==
  ASSUME NEW i \in Ids, IInv, Calm, RemoveGame(i)
  PROVE  IInv'
<1> USE DEF IInv, Calm, RemoveGame, StartBlocked, OwnFiles, JobFits, Transient, Active, disk,
     records, calls, user, cleaning, running, WasTransient, Free, Mine, MoveOnly, Restarted,
     MovedPartial, MovedPlaced, Reserved, Early, Late, WorkSteps, PlaceSteps, JobSteps
<1>f0. /\ rec' = rec /\ stored' = stored /\ source' = source /\ partial' = partial /\ job' = job
       /\ jobs' = jobs /\ cancelled' = cancelled /\ start' = start /\ retry' = retry
       /\ clean' = clean /\ held' = held /\ kind' = kind /\ library' = library /\ crashes' = crashes
  OBVIOUS
<1>f1. i \in library /\ removing' = removing \cup {i} /\ asked' = asked \cup {i} /\ dest' = Nothing
       /\ \A k \in Ids : ~Active(k) /\ ~Active(k)'
  OBVIOUS
<1>f2. \A k \in Ids : ~MovedPartial(k) /\ ~MovedPlaced(k) /\ (Restarted(k) => Restarted(k)')
  BY <1>f0, <1>f1
<1>f3. \A k \in Ids : dest' # Half(k) /\ dest' # Whole(k) /\ (dest = Whole(k) => k = i)
  BY <1>f1, ContentFacts
<1>f4. library \subseteq asked'
  <2>1. ASSUME NEW k \in library \ asked' PROVE FALSE
    BY <2>1, <1>f1, <1>f3 DEF FilesAreKept, GameHasFiles, TypeOK
  <2> QED BY <2>1
<1> HIDE DEF RemoveGame, StartBlocked, OwnFiles
<1>1. TypeOK'
  BY <1>f0, <1>f1, <1>f2, <1>f3, <1>f4, ContentFacts DEF TypeOK, Statuses
<1>2. StepInv'
  <2>1. ASSUME NEW k \in Ids, JobFits(k) PROVE JobFits(k)'
    BY <2>1, <1>f0, <1>f1, <1>f2
  <2> QED BY <2>1 DEF StepInv
<1>3. StartInv'
  BY <1>f0, <1>f1, <1>f2, <1>f3, <1>f4 DEF TypeOK, StartInv, AloneInv
<1>4. AloneInv'
  BY <1>f0, <1>f1, <1>f2, <1>f3, <1>f4 DEF TypeOK, AloneInv, StepInv
<1>5. EarlyInv'
  BY <1>f0, <1>f1, <1>f2, <1>f3, <1>f4 DEF TypeOK, AloneInv, EarlyInv, StepInv
<1>6. LateInv'
  BY <1>f0, <1>f1, <1>f2, <1>f3, <1>f4 DEF TypeOK, AloneInv, LateInv, EarlyInv, StepInv
<1>7. CleanInv'
  BY <1>f0, <1>f1, <1>f2, <1>f3, <1>f4 DEF TypeOK, CleanInv, StepInv, LateInv, EarlyInv, AloneInv
<1>8. PartialInv'
  BY <1>f0, <1>f1, <1>f2, <1>f3, <1>f4 DEF TypeOK, PartialInv, EarlyInv, StepInv, AloneInv
<1>9. DestInv'
  BY <1>f0, <1>f1, <1>f2, <1>f3, <1>f4 DEF TypeOK, DestInv, StepInv, AloneInv
<1>10. StoredInv'
  BY <1>f0, <1>f1, <1>f2, <1>f3, <1>f4 DEF TypeOK, StoredInv, StepInv, AloneInv
<1>11. GameInv'
  BY <1>f0, <1>f1, <1>f2, <1>f3, <1>f4 DEF TypeOK, GameInv
<1>12. CompletedIsGame'
  BY <1>f0, <1>f1, <1>f2, <1>f3, <1>f4 DEF TypeOK, CompletedIsGame, GameInv
<1>13. FilesAreKept'
  BY <1>f0, <1>f1, <1>f2, <1>f3, <1>f4 DEF TypeOK, FilesAreKept, GameHasFiles, NeverLost
<1> QED BY <1>1, <1>2, <1>3, <1>4, <1>5, <1>6, <1>7, <1>8, <1>9, <1>10, <1>11, <1>12, <1>13

\* ... and the game from the library.
LEMMA GameRemovedKeeps ==
  ASSUME NEW i \in Ids, IInv, Calm, GameRemoved(i)
  PROVE  IInv'
<1> USE DEF IInv, Calm, GameRemoved, Save, JobFits, Transient, Active, disk, records, calls, user,
     cleaning, running, WasTransient, Free, Mine, MoveOnly, Restarted, MovedPartial, MovedPlaced,
     Reserved, Early, Late, WorkSteps, PlaceSteps, JobSteps
<1>f0. /\ source' = source /\ partial' = partial /\ dest' = dest /\ job' = job /\ jobs' = jobs
       /\ cancelled' = cancelled /\ start' = start /\ retry' = retry /\ clean' = clean
       /\ held' = held /\ kind' = kind /\ asked' = asked /\ crashes' = crashes
  OBVIOUS
<1>f1. i \in removing /\ i \in library /\ i \in asked /\ library' = library \ {i}
            /\ removing' = removing \ {i}
  BY DEF TypeOK, GameInv
<1>f2. /\ rec' \in AllRecords /\ stored' \in AllRecords
            /\ (rec' = stored' \/ (rec' = rec /\ stored' = stored))
       /\ rec'[i] = rec[i] \/ (rec[i].status = "completed" /\ rec'[i].status = "none")
       /\ \A k \in Ids \ {i} : rec'[k] = rec[k]
  <2>1. rec \in AllRecords /\ stored \in AllRecords
             /\ NoRecord \in [status : Statuses, owned : BOOLEAN] /\ NoRecord.status = "none"
    BY DEF TypeOK, AllRecords, Statuses, NoRecord
  <2>2. CASE rec' = rec /\ stored' = stored
    BY ONLY <2>1, <2>2, i \in Ids
  <2>3. CASE rec' = [rec EXCEPT ![i] = IF @.status = "completed" THEN NoRecord ELSE @]
             /\ stored' = rec'
    BY ONLY <2>1, <2>3, i \in Ids DEF AllRecords
  <2> QED BY <2>2, <2>3
<1>f3. \A k \in Ids : ~MovedPartial(k) /\ ~MovedPlaced(k)
  BY <1>f1
<1>f4. \A k \in Ids : Transient(k)' = Transient(k) /\ Active(k)' = Active(k)
            /\ Early(k)' = Early(k) /\ Late(k)' = Late(k)
  BY <1>f0, <1>f2
<1>f5. \A k \in Ids : Restarted(k) => Restarted(k)'
  BY <1>f0, <1>f2, <1>f4
<1> HIDE DEF GameRemoved, Save
<1>1. TypeOK'
  BY <1>f0, <1>f1, <1>f2, <1>f3, <1>f4, <1>f5 DEF TypeOK, AllRecords
<1>2. StepInv'
  <2>1. ASSUME NEW k \in Ids, JobFits(k) PROVE JobFits(k)'
    BY <2>1, <1>f0, <1>f1, <1>f2, <1>f3, <1>f4
  <2> QED BY <2>1 DEF StepInv
<1>3. StartInv'
  BY SMTT(30), <1>f0, <1>f1, <1>f2, <1>f3, <1>f4, <1>f5 DEF TypeOK, StartInv, AloneInv
<1>4. AloneInv'
  BY <1>f0, <1>f1, <1>f2, <1>f3, <1>f4, <1>f5 DEF TypeOK, AloneInv, StepInv
<1>5. EarlyInv'
  BY <1>f0, <1>f1, <1>f2, <1>f3, <1>f4, <1>f5 DEF TypeOK, AloneInv, EarlyInv, StepInv
<1>6. LateInv'
  BY <1>f0, <1>f1, <1>f2, <1>f3, <1>f4, <1>f5 DEF TypeOK, AloneInv, LateInv, EarlyInv, StepInv
<1>7. CleanInv'
  BY <1>f0, <1>f1, <1>f2, <1>f3, <1>f4, <1>f5 DEF TypeOK, CleanInv, StepInv, LateInv, EarlyInv,
       AloneInv
<1>8. PartialInv'
  <2>1. CASE partial = Nothing
    BY <2>1, <1>f0 DEF PartialInv
  <2>2. ASSUME NEW k \in Ids, partial \in {Half(k), Whole(k)},
                    Early(k) \/ Restarted(k) PROVE PartialInv'
    <3>1. partial' \in {Half(k), Whole(k)}
      BY <2>2, <1>f0
    <3>2. Early(k)' \/ Restarted(k)'
      BY <2>2, <1>f4, <1>f5
    <3> HIDE DEF Early, Restarted, MovedPartial
    <3> QED BY <3>1, <3>2 DEF PartialInv
  <2> QED BY <2>1, <2>2, <1>f3 DEF PartialInv
<1>9. DestInv'
  BY <1>f0, <1>f1, <1>f2, <1>f3, <1>f4, <1>f5 DEF TypeOK, DestInv, StepInv, AloneInv
<1>10. StoredInv'
  BY <1>f0, <1>f1, <1>f2, <1>f3, <1>f4, <1>f5 DEF TypeOK, StoredInv, StepInv, AloneInv
<1>11. GameInv'
  BY <1>f0, <1>f1, <1>f2, <1>f3, <1>f4, <1>f5 DEF TypeOK, GameInv
<1>12. CompletedIsGame'
  BY <1>f0, <1>f1, <1>f2, <1>f3, <1>f4, <1>f5 DEF TypeOK, CompletedIsGame, GameInv
<1>13. FilesAreKept'
  BY <1>f0, <1>f1, <1>f2, <1>f3, <1>f4, <1>f5 DEF TypeOK, FilesAreKept, GameHasFiles, NeverLost
<1> QED BY <1>1, <1>2, <1>3, <1>4, <1>5, <1>6, <1>7, <1>8, <1>9, <1>10, <1>11, <1>12, <1>13

\* A step of nothing
LEMMA StutterKeeps ==
  ASSUME IInv, UNCHANGED vars
  PROVE  IInv'
<1> USE DEF IInv, JobFits, Transient, Active, WasTransient, Free, Mine, MoveOnly, Restarted,
         MovedPartial,
     MovedPlaced, Reserved, Early, Late
<1>1. /\ rec' = rec /\ stored' = stored /\ source' = source /\ partial' = partial /\ dest' = dest
      /\ job' = job /\ jobs' = jobs /\ cancelled' = cancelled /\ start' = start /\ retry' = retry
      /\ clean' = clean /\ held' = held /\ library' = library /\ asked' = asked
      /\ removing' = removing /\ crashes' = crashes /\ kind' = kind
  BY DEF vars, disk, records, calls, user, cleaning, running
<1>2. TypeOK' /\ StepInv' /\ StartInv' /\ AloneInv'
  BY <1>1 DEF TypeOK, StepInv, StartInv, AloneInv
<1>3. EarlyInv' /\ LateInv' /\ CleanInv'
  BY <1>1 DEF EarlyInv, LateInv, CleanInv
<1>4. PartialInv' /\ DestInv' /\ StoredInv' /\ GameInv' /\ CompletedIsGame' /\ FilesAreKept'
  BY <1>1 DEF PartialInv, DestInv, StoredInv, GameInv, CompletedIsGame, FilesAreKept, GameHasFiles,
              NeverLost
<1> QED BY <1>2, <1>3, <1>4

\* A start of the program after it was killed: what its records say is as they were stored, and
\* fits what it finds on the disk.
LEMMA CrashKeeps ==
  ASSUME IInv, Calm, Crash
  PROVE  IInv'
<1> USE DEF IInv, Calm, JobFits, Transient, Active, disk, records, calls, user, cleaning, running,
     WasTransient, Free, Mine, MoveOnly, Restarted, MovedPartial, MovedPlaced, Reserved, Early,
     Late, WorkSteps, PlaceSteps, JobSteps
<1>f0. /\ stored \in AllRecords /\ partial \in Contents
       /\ rec' = [k \in Ids |-> Loaded(k)] /\ stored' = rec' /\ crashes' = crashes + 1
            /\ crashes < MaxCrashes
       /\ job' = [k \in Ids |-> IF WasTransient(k) /\ Finalizable THEN "finalize" ELSE "none"]
       /\ clean' = [k \in Ids |-> IF WasTransient(k) THEN "sweep" ELSE "none"]
       /\ jobs' = {} /\ cancelled' = {} /\ held' = {} /\ retry' = {} /\ removing' = {}
       /\ start' = [k \in Ids |-> NoStart]
       /\ source' = source /\ partial' = partial /\ dest' = dest /\ library' = library
       /\ asked' = asked /\ kind' = kind
       /\ (\A k \in Ids : ~(k \notin source /\ partial = Whole(k)) /\ ~(clean[k] = "sweep" /\ partial # Nothing))
  BY DEF Crash, Save, AllRecords, TypeOK, OnlyCopy, Unswept
<1>f1. \A k \in Ids : /\ rec'[k] \in [status : Statuses, owned : BOOLEAN]
                      /\ rec'[k].status = IF WasTransient(k) THEN IF Finalizable THEN "verifying" ELSE "interrupted" ELSE stored[k].status
  <2> TAKE k \in Ids
  <2>1. /\ stored[k] \in [status : Statuses, owned : BOOLEAN] /\ rec'[k] = Loaded(k)
        /\ "verifying" \in Statuses /\ "interrupted" \in Statuses
    BY ONLY <1>f0, k \in Ids DEF AllRecords, Statuses
  <2>2. CASE WasTransient(k)
    BY ONLY <2>1, <2>2 DEF Loaded
  <2>3. CASE ~WasTransient(k)
    BY ONLY <2>1, <2>3 DEF Loaded
  <2> QED BY <2>2, <2>3
<1>f2. \A k \in Ids : /\ job'[k] = IF WasTransient(k) /\ Finalizable THEN "finalize" ELSE "none"
                      /\ clean'[k] = IF WasTransient(k) THEN "sweep" ELSE "none"
                      /\ start'[k].at = "none"
  BY ONLY <1>f0 DEF NoStart
<1>f3. \A k \in Ids : ~MovedPartial(k) /\ dest # Half(k)
  BY <1>f0 DEF DestInv
<1>f4. /\ rec = stored \/ \A k \in Ids : ~Active(k)
       /\ \A k, m \in Ids : (WasTransient(k) \/ stored[k].status = "waiting")
            /\ (WasTransient(m) \/ stored[m].status = "waiting") => k = m
  <2>1. CASE rec = stored
    BY <2>1 DEF AloneInv
  <2>2. ASSUME NEW i \in Ids, rec = [stored EXCEPT ![i].status = "failed"],
                    \A k \in Ids : ~Active(k)
        PROVE \A k \in Ids : WasTransient(k) \/ stored[k].status = "waiting" => k = i
    <3>1. ASSUME NEW k \in Ids \ {i} PROVE rec[k] = stored[k]
      BY ONLY <2>2, <1>f0, k \in Ids \ {i} DEF AllRecords
    <3> QED BY ONLY <2>2, <3>1 DEF Active, Transient, WasTransient
  <2> HIDE DEF Active, WasTransient
  <2> QED BY <2>1, <2>2 DEF StoredInv
<1>f5. \A k \in Ids : /\ WasTransient(k) \/ stored[k].status = "waiting" => Mine(k)
                      /\ stored[k].status = "waiting" => partial = Nothing
                      /\ WasTransient(k) /\ rec = stored => Early(k) \/ partial = Nothing
  <2>1. CASE rec = stored
    BY <2>1 DEF EarlyInv, LateInv
  <2>2. ASSUME NEW i \in Ids, rec = [stored EXCEPT ![i].status = "failed"],
                    \A k \in Ids : ~Active(k),
               WasTransient(i) \/ stored[i].status = "waiting" => Mine(i)
        PROVE \A k \in Ids : WasTransient(k) \/ stored[k].status = "waiting" => Mine(k)
    <3>1. ASSUME NEW k \in Ids \ {i} PROVE rec[k] = stored[k]
      BY ONLY <2>2, <1>f0, k \in Ids \ {i} DEF AllRecords
    <3> QED BY ONLY <2>2, <3>1 DEF Active, Transient, WasTransient
  <2>3. rec = stored \/ partial = Nothing
    BY <1>f0, <1>f3, <1>f4 DEF PartialInv
  <2> HIDE DEF Active, WasTransient, Mine
  <2> QED BY <2>1, <2>2, <2>3 DEF StoredInv
<1>f6. \/ partial = Nothing
       \/ \E k \in Ids : WasTransient(k) /\ k \in source /\ partial \in {Half(k), Whole(k)}
  <2>1. ASSUME NEW k \in Ids, partial \in {Half(k), Whole(k)}, Early(k)
        PROVE  WasTransient(k) /\ k \in source
    BY <2>1, <1>f4 DEF EarlyInv
  <2>2. \A k \in Ids : Restarted(k) => partial = Nothing
    BY <1>f0
  <2> HIDE DEF Early, Restarted, MovedPartial, WasTransient
  <2> QED BY <2>1, <2>2, <1>f3 DEF PartialInv
<1>f7. \A k \in Ids : /\ Transient(k)' <=> WasTransient(k) /\ Finalizable
                      /\ Active(k)' <=> Transient(k)' \/ stored[k].status = "waiting"
  BY ONLY <1>f1, <1>f2 DEF Transient, Active, WasTransient
<1>f8. \A k \in Ids : WasTransient(k) /\ Finalizable => dest = Whole(k) /\ partial = Nothing
  BY <1>f5 DEF Finalizable
<1>1. TypeOK'
  <2>1. rec' \in AllRecords /\ stored' \in AllRecords
    BY ONLY <1>f0, <1>f1 DEF AllRecords
  <2>2. crashes' \in 0..MaxCrashes
    BY <1>f0, InstallConstants DEF TypeOK
  <2>3. /\ start' \in [Ids -> [at : {"none", "reclaim", "drop", "commit"}, of : Ids \cup {"none"}]]
        /\ clean' \in [Ids -> {"none", "sweep", "check", "remove"}]
    BY ONLY <1>f0 DEF NoStart
  <2>4. job' \in [Ids -> JobSteps]
    BY ONLY <1>f0
  <2> QED BY <1>f0, <2>1, <2>2, <2>3, <2>4 DEF TypeOK, AllRecords
<1>2. StepInv'
  <2>1. ASSUME NEW k \in Ids PROVE JobFits(k)'
    BY ONLY <1>f0, <1>f1, <1>f2, <1>f7, k \in Ids DEF JobFits, WorkSteps, PlaceSteps, Transient,
         WasTransient
  <2> QED BY <2>1 DEF StepInv
<1>3. StartInv'
  BY ONLY <1>f2 DEF StartInv
<1>4. AloneInv'
  <2>1. ~Reserved'
    BY ONLY <1>f0, <1>f2 DEF Reserved
  <2> QED BY ONLY <1>f4, <1>f7, <2>1 DEF AloneInv
<1>5. EarlyInv'
  <2>1. \A k \in Ids : ~Early(k)'
    BY ONLY <1>f2, <1>f7 DEF Early, WorkSteps
  <2> QED BY ONLY <2>1 DEF EarlyInv
<1>6. LateInv'
  <2>1. ASSUME NEW k \in Ids, Active(k)'
        PROVE  partial' = Nothing /\ Mine(k)' /\ (Transient(k)' => dest' = Whole(k))
                    /\ job'[k] # "after"
    <3>1. Mine(k)' = Mine(k)
      BY ONLY <1>f0 DEF Mine, Free
    <3> QED BY ONLY <2>1, <3>1, <1>f0, <1>f2, <1>f5, <1>f7, <1>f8, k \in Ids
  <2> QED BY ONLY <2>1 DEF LateInv, Late
<1>7. CleanInv'
  BY ONLY <1>f0, <1>f2 DEF CleanInv
<1>8. PartialInv'
  <2>1. CASE partial = Nothing
    BY ONLY <2>1, <1>f0 DEF PartialInv
  <2>2. ASSUME NEW k \in Ids, WasTransient(k), k \in source, partial \in {Half(k), Whole(k)},
                    partial # Nothing
        PROVE Restarted(k)'
    <3>1. ~Finalizable
      BY ONLY <2>2 DEF Finalizable
    <3>2. \A m \in Ids : ~Active(m)' /\ job'[m] = "none"
      BY ONLY <3>1, <2>2, <1>f2, <1>f4, <1>f5, <1>f7
    <3>3. clean'[k] = "sweep" /\ \A m \in Ids : m # k => clean'[m] = "none"
      BY ONLY <2>2, <1>f2, <1>f4
    <3> QED BY ONLY <2>2, <3>2, <3>3, <1>f0 DEF Restarted
  <2> QED BY ONLY <2>1, <2>2, <1>f0, <1>f6 DEF PartialInv
<1>9. DestInv'
  BY ONLY <1>f0, <1>f3 DEF DestInv, Half
<1>10. StoredInv'
  BY ONLY <1>f0 DEF StoredInv
<1>11. GameInv'
  BY ONLY <1>f0, <1>f2 DEF GameInv
<1>12. CompletedIsGame'
  <2>1. \A k \in Ids : rec'[k].status = "completed" \/ stored'[k].status = "completed"
             => stored[k].status = "completed"
    BY ONLY <1>f0, <1>f1
  <2> QED BY <1>f0, <2>1 DEF CompletedIsGame
<1>13. FilesAreKept'
  BY <1>f0 DEF FilesAreKept, GameHasFiles, NeverLost
<1> QED BY <1>1, <1>2, <1>3, <1>4, <1>5, <1>6, <1>7, <1>8, <1>9, <1>10, <1>11, <1>12, <1>13

\* The invariant holds at first, also when an earlier version was killed in a move.
LEMMA InitHolds == Init => IInv
<1> SUFFICES ASSUME Init PROVE IInv
  OBVIOUS
<1>1. /\ kind \in Kinds /\ stored = rec /\ library = {} /\ asked = {} /\ removing = {}
           /\ crashes = 0
      /\ job = [k \in Ids |-> "none"] /\ jobs = {} /\ cancelled = {}
      /\ start = [k \in Ids |-> NoStart] /\ retry = {} /\ held = {}
  BY DEF Init
<1>2. /\ \A k \in Ids : job[k] = "none" /\ start[k].at = "none"
      /\ start \in [Ids -> [at : {"none", "reclaim", "drop", "commit"}, of : Ids \cup {"none"}]]
  BY <1>1 DEF NoStart
<1>3. CASE InitNew
  <2>1. /\ rec \in [Ids -> [status : Statuses, owned : BOOLEAN]]
             /\ \A k \in Ids : rec[k].status = "none"
        /\ clean \in [Ids -> {"none", "sweep", "check", "remove"}]
    BY <1>3 DEF InitNew, NoRecord, Statuses
  <2>2. \A k \in Ids : ~Active(k) /\ ~Transient(k) /\ dest # Half(k) /\ clean[k] = "none"
    BY <1>3, <2>1, ContentFacts DEF InitNew, Active, Transient
  <2>3. TypeOK
    BY <1>1, <1>2, <1>3, <2>1, ContentFacts, InstallConstants DEF InitNew, TypeOK
  <2>4. StepInv /\ StartInv /\ AloneInv /\ CleanInv
    BY <1>1, <1>2, <2>1, <2>2 DEF StepInv, JobFits, WorkSteps, PlaceSteps, StartInv, AloneInv,
         CleanInv
  <2>5. EarlyInv /\ LateInv
    BY <2>2 DEF EarlyInv, LateInv, Early, Late
  <2>6. PartialInv /\ DestInv /\ StoredInv
    BY <1>1, <1>3, <2>2 DEF InitNew, PartialInv, DestInv, StoredInv
  <2>7. GameInv /\ CompletedIsGame /\ FilesAreKept
    BY <1>1, <1>2, <1>3, <2>1 DEF InitNew, GameInv, CompletedIsGame, FilesAreKept, GameHasFiles,
         NeverLost
  <2> QED BY <2>3, <2>4, <2>5, <2>6, <2>7 DEF IInv
<1>4. CASE InitMoved
  <2> PICK i \in Ids :
        /\ kind[i] = "move" /\ source = Ids \ {i}
        /\ rec = [k \in Ids |-> IF k = i THEN [status |-> "interrupted", owned |-> FALSE] ELSE NoRecord]
        /\ partial = Whole(i) /\ dest \in {Nothing, Half(i), Whole(i)}
        /\ clean = [k \in Ids |-> IF k = i THEN "sweep" ELSE "none"]
    BY <1>4 DEF InitMoved
  <2>1. /\ rec \in [Ids -> [status : Statuses, owned : BOOLEAN]]
        /\ rec[i].status = "interrupted" /\ \A k \in Ids \ {i} : rec[k].status = "none"
        /\ clean \in [Ids -> {"none", "sweep", "check", "remove"}]
        /\ clean[i] = "sweep" /\ \A k \in Ids \ {i} : clean[k] = "none"
    BY DEF NoRecord, Statuses
  <2>2. \A k \in Ids : ~Active(k) /\ ~Transient(k) /\ clean[k] \in {"none", "sweep"}
    BY <2>1 DEF Active, Transient
  <2>3. TypeOK
    BY <1>1, <1>2, <2>1, ContentFacts, InstallConstants DEF TypeOK
  <2>4. StepInv /\ StartInv /\ AloneInv /\ CleanInv
    BY <1>1, <1>2, <2>1, <2>2 DEF StepInv, JobFits, WorkSteps, PlaceSteps, StartInv, AloneInv,
         CleanInv
  <2>5. EarlyInv /\ LateInv
    BY <2>2 DEF EarlyInv, LateInv, Early, Late
  <2>6. MovedPartial(i)
    BY <1>1, <1>2, <2>1 DEF MovedPartial, MoveOnly
  <2>7. PartialInv /\ DestInv /\ StoredInv
    BY <1>1, <2>6, ContentFacts DEF PartialInv, DestInv, StoredInv
  <2>8. GameInv /\ CompletedIsGame /\ FilesAreKept
    BY <1>1, <1>2, <2>1 DEF GameInv, CompletedIsGame, FilesAreKept, GameHasFiles, NeverLost
  <2> QED BY <2>3, <2>4, <2>5, <2>7, <2>8 DEF IInv
<1> QED BY <1>3, <1>4 DEF Init

\* Every step keeps the invariant.
LEMMA StepKeeps ==
  ASSUME IInv, Calm, [Next]_vars
  PROVE  IInv'
<1>1. ASSUME NEW i \in Ids, JobStep(i) PROVE IInv'
  BY <1>1, JobPrepareKeeps, JobRememberKeeps, JobClearKeeps, JobRenameKeeps, JobCopyKeeps,
       JobCopiedKeeps,
     JobCommitKeeps, JobFinalizeKeeps, JobFindKeeps, JobRegisterKeeps, JobCompleteKeeps,
          JobAfterKeeps,
     JobRecoverKeeps, JobEndKeeps DEF JobStep
<1>2. ASSUME NEW i \in Ids, CleanStep(i) PROVE IInv'
  BY <1>2, SweepKeeps, CheckKeeps, RemoveDestKeeps DEF CleanStep
<1>3. ASSUME NEW i \in Ids, Start(i) \/ StartStep(i) PROVE IInv'
  BY <1>3, StartKeeps, StartReclaimKeeps, StartDropKeeps, StartCommitKeeps DEF StartStep
<1>4. ASSUME NEW i \in Ids, CancelJob(i) \/ Cancel(i) \/ Dismiss(i) \/ Confirm(i) PROVE IInv'
  BY <1>4, CancelJobKeeps, CancelKeeps, DismissKeeps, ConfirmKeeps
<1>5. ASSUME NEW i \in Ids, RetryFinalize(i) \/ Retry(i) \/ RetryStart(i) PROVE IInv'
  BY <1>5, RetryFinalizeKeeps, RetryKeeps, RetryStartKeeps
<1>6. ASSUME NEW i \in Ids, DeleteSource(i) \/ RemoveGame(i) \/ GameRemoved(i) PROVE IInv'
  BY <1>6, DeleteSourceKeeps, RemoveGameKeeps, GameRemovedKeeps
<1>7. CASE Crash
  BY <1>7, CrashKeeps
<1>8. CASE UNCHANGED vars
  BY <1>8, StutterKeeps
<1> QED BY <1>1, <1>2, <1>3, <1>4, <1>5, <1>6, <1>7, <1>8 DEF Next

\* What the invariant says of the folder, the library and the records
LEMMA InvariantImplies == IInv => Consistent /\ FilesAreKept
<1> SUFFICES ASSUME IInv PROVE Consistent /\ FilesAreKept
  OBVIOUS
<1>1. OneAtATime
  <2>1. CASE \A i \in Ids : ~Active(i)
    <3>1. {i \in Ids : Active(i)} = {}
      BY <2>1
    <3> QED BY <3>1, FS_EmptySet DEF OneAtATime
  <2>2. ASSUME NEW i \in Ids, Active(i) PROVE OneAtATime
    <3>1. {k \in Ids : Active(k)} = {i}
      BY <2>2 DEF IInv, AloneInv
    <3>2. Cardinality({i}) = 1
      BY FS_Singleton
    <3> QED BY <3>1, <3>2 DEF OneAtATime
  <2> QED BY <2>1, <2>2
<1> QED BY <1>1 DEF IInv, Consistent

\* The inductive invariant: who works in the folder, what is in it and in .partial for each
\* step of a job, and what a restart finds (service.go, portable.go, archive.go, discard.go).
THEOREM InstallInvariant ==
  ASSUME Calm
  PROVE  Spec => []IInv
<1>1. IInv /\ [Next]_vars => IInv'
  BY StepKeeps
<1> QED BY InitHolds, <1>1, PTL DEF Spec

\* Two installations never work in one folder, and a record that says "completed", in memory or
\* as a restart will load it, is of a game in the library (claimLocked, complete).
THEOREM InstallsAreConsistent ==
  ASSUME Calm
  PROVE  Spec => []Consistent
<1>1. Spec => []IInv
  BY InstallInvariant
<1> QED BY <1>1, InvariantImplies, PTL

\* A game in the library has all its files, and what was downloaded is somewhere whole,
\* wherever an installation was cancelled, failed, cleaned up after or killed (commit,
\* finalize, discardDestination, reclaimLeftover, ServiceStartup).
THEOREM InstalledFilesAreKept ==
  ASSUME Calm
  PROVE  Spec => []FilesAreKept
<1>1. Spec => []IInv
  BY InstallInvariant
<1> QED BY <1>1, InvariantImplies, PTL

=============================================================================
