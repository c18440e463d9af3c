----------------------- MODULE DownloadManager_proofs -----------------------
(***************************************************************************)
(* Type correctness and safety of the download manager, for any number of  *)
(* downloads, client generations, restarts, settings and events: first     *)
(* what the rules of the queue keep for every list, policy and set of      *)
(* downloads, then the types of what the handlers are built from and of    *)
(* every step, then one part for each safety property, then what the queue *)
(* promises, then what its gates and the status of a download keep, and    *)
(* last that none is forgotten while the network changes.                  *)
(***************************************************************************)
EXTENDS DownloadManager, SequenceTheorems, FiniteSetTheorems, WellFoundedInduction, TLAPS
-----------------------------------------------------------------------------
(* The rules of the queue: the type of a download, that no gate they open   *)
(* belongs to a download that is held back, and that schedule() fills the   *)
(* free slots, no more of them, and from the top of the list.               *)

\* Moving a download to another status leaves the rest of it.
LEMMA StatusType ==
  ASSUME NEW gens, NEW r \in Download(gens), NEW s \in Statuses
  PROVE  /\ [r EXCEPT !.status = s] \in Download(gens)
         /\ [r EXCEPT !.status = s].engine = r.engine
<1>1. [r EXCEPT !.status = s] \in Download(gens)
  BY DEF Download
<1>2. [r EXCEPT !.status = s].engine = r.engine
  BY DEF Download
<1> QED BY <1>1, <1>2

\* Setting one of its flags leaves a download.
LEMMA FlagType ==
  ASSUME NEW gens, NEW r \in Download(gens), NEW b \in BOOLEAN
  PROVE  [r EXCEPT !.seeding = b] \in Download(gens) /\ [r EXCEPT !.have = b] \in Download(gens)
BY DEF Download

\* An operator that changes one download leaves a download.
LEMMA RecordTypes ==
  ASSUME NEW gens, 0 \in gens, NEW r \in Download(gens), NEW p \in Policy,
         NEW g \in gens
  PROVE  /\ Gated(r) \in Download(gens)
         /\ Detached(r) \in Download(gens)
         /\ Attached(r, g) \in Download(gens)
         /\ AllowUpload(p, r) \in Download(gens)
         /\ Started(p, r) \in Download(gens)
         /\ Forced(p, r) \in Download(gens)
<1>1. Gated(r) \in Download(gens)
  BY DEF Gated, Download
<1>2. Detached(r) \in Download(gens)
  BY DEF Detached, Download
<1>3. Attached(r, g) \in Download(gens)
  BY DEF Attached, Download
<1>4. AllowUpload(p, r) \in Download(gens)
  BY DEF AllowUpload, Download
<1>5. \A s \in Download(gens) : Started(p, s) \in Download(gens)
  BY DEF Started, Download, Statuses
<1>6. Forced(p, r) \in Download(gens)
  BY <1>5 DEF Download, Statuses, Forced
<1> QED BY <1>1, <1>2, <1>3, <1>4, <1>5, <1>6

\* syncPlayLocked leaves a download.
LEMMA SyncedType ==
  ASSUME NEW gens, NEW r \in Download(gens), NEW p \in Policy, NEW busy
  PROVE  Synced(p, busy, r) \in Download(gens)
<1>1. Gated(r) \in Download(gens)
  BY DEF Gated, Download
<1>2. p.rate.upload \in BOOLEAN
  BY DEF Policy, Config
<1>3. CASE r.engine # 0 /\ ~Held(p, r) /\ ~busy
  BY <1>2, <1>3 DEF Synced, Download
<1> QED BY <1>1, <1>3 DEF Synced

\* schedule() and syncPlayLocked take downloads to downloads, over the whole
\* list.
LEMMA ListTypes ==
  ASSUME NEW gens, 0 \in gens, NEW p \in Policy, NEW q, NEW busy,
         NEW D \in [Ids -> Download(gens)]
  PROVE  /\ Schedule(p, q, D) \in [Ids -> Download(gens)]
         /\ SyncPlay(p, q, busy, D) \in [Ids -> Download(gens)]
<1>1. \A d \in Ids : Started(p, D[d]) \in Download(gens)
  BY RecordTypes
<1>2. \A d \in Ids : Synced(p, d \in busy, D[d]) \in Download(gens)
  BY SyncedType
<1>3. Schedule(p, q, D) \in [Ids -> Download(gens)]
  BY <1>1 DEF Schedule
<1>4. SyncPlay(p, q, busy, D) \in [Ids -> Download(gens)]
  BY <1>2 DEF SyncPlay
<1> QED BY <1>3, <1>4
-----------------------------------------------------------------------------
\* A download whose gate is open has a torrent, is in the list and is not held
\* back: the form in which HeldMovesNoData survives every step.
Moves(q, D) ==
  \A d \in Ids : D[d].dl => D[d].engine # 0 /\ d \in Range(q)

HeldClosed(p, q, D) ==
  Moves(q, D) /\ \A d \in Ids : D[d].dl => ~Held(p, D[d])

\* Whether a download is held back depends on its exemption alone.
LEMMA HeldDepends ==
  ASSUME NEW p, NEW r, NEW s, r.ignore = s.ignore
  PROVE  Held(p, r) <=> Held(p, s)
BY DEF Held, PlayHeld, SchedHeld

\* Starting what may start opens no gate that is held.
LEMMA ScheduleKeepsClosed ==
  ASSUME NEW gens, NEW p \in Policy, NEW q \in Seq(Ids),
         NEW D \in [Ids -> Download(gens)], HeldClosed(p, q, D)
  PROVE  HeldClosed(p, q, Schedule(p, q, D))
<1> DEFINE S == Schedule(p, q, D)
<1> SUFFICES ASSUME NEW d \in Ids, S[d].dl
             PROVE  S[d].engine # 0 /\ d \in Range(q) /\ ~Held(p, S[d])
  BY DEF HeldClosed, Moves
<1>1. CASE d \in {q[i] : i \in Chosen(p, q, D)}
  <2>1. PICK i \in DOMAIN q : MayStart(p, D[q[i]]) /\ d = q[i]
    BY <1>1 DEF Chosen
  <2>2. S[d] = Started(p, D[d])
    BY <1>1 DEF Schedule
  <2>3. /\ S[d].engine = D[d].engine
        /\ S[d].ignore = D[d].ignore
        /\ S[d].dl <=> D[d].dl \/ ~Held(p, D[d])
    BY <2>2 DEF Started, Download
  <2>4. D[d].engine # 0 /\ d \in Range(q)
    BY <2>1 DEF MayStart, Range
  <2>5. ~Held(p, D[d])
    BY <2>3 DEF HeldClosed
  <2> QED BY <2>3, <2>4, <2>5, HeldDepends
<1>2. CASE d \notin {q[i] : i \in Chosen(p, q, D)}
  BY <1>2 DEF Schedule, HeldClosed, Moves
<1> QED BY <1>1, <1>2

\* syncPlayLocked closes whatever the policy it is given holds back.
LEMMA SyncPlayCloses ==
  ASSUME NEW gens, NEW p \in Policy, NEW q, NEW busy,
         NEW D \in [Ids -> Download(gens)], Moves(q, D)
  PROVE  HeldClosed(p, q, SyncPlay(p, q, busy, D))
<1> DEFINE S == SyncPlay(p, q, busy, D)
<1> SUFFICES ASSUME NEW d \in Ids, S[d].dl
             PROVE  S[d].engine # 0 /\ d \in Range(q) /\ ~Held(p, S[d])
  BY DEF HeldClosed, Moves
<1>1. d \in Range(q)
  BY DEF SyncPlay, Moves
<1>2. S[d] = Synced(p, d \in busy, D[d])
  BY <1>1 DEF SyncPlay
<1>3. D[d].engine # 0
  BY <1>2 DEF Synced, Moves
<1>4. CASE Held(p, D[d])
  BY <1>2, <1>3, <1>4 DEF Synced, Gated, Download
<1>5. CASE ~Held(p, D[d])
  <2>1. S[d].engine = D[d].engine /\ S[d].ignore = D[d].ignore
    BY <1>2, <1>3, <1>5 DEF Synced, Download
  <2> QED BY <1>1, <1>3, <1>5, <2>1, HeldDepends
<1> QED BY <1>4, <1>5
-----------------------------------------------------------------------------
(* schedule() counts.  The libraries' induction cannot be used here (its    *)
(* theorems take an operator); that a set of places has a first and a last  *)
(* one, which the well-founded order of the numbers gives, is enough.       *)

\* A set of places in a list has a first one ...
LEMMA FirstPlace ==
  ASSUME NEW S \in SUBSET Nat, S # {}
  PROVE  \E i \in S : \A k \in S : i <= k
<1> DEFINE R == {ss \in Nat \X Nat : ss[1] < ss[2]}
<1>0. IsWellFoundedOn(R, Nat)
  BY NatLessThanWellFounded DEF OpToRel
<1>1. \E i \in S : \A k \in S : ~(<<k, i>> \in R)
  <2> HIDE DEF R
  <2> QED BY WFMin, <1>0
<1>2. PICK i \in S : \A k \in S : ~(<<k, i>> \in R)
  BY <1>1
<1>3. \A k \in S : ~(k < i)
  BY <1>2
<1> QED BY <1>3

\* ... and a last one.
LEMMA LastPlace ==
  ASSUME NEW n \in Nat, NEW S \in SUBSET (1..n), S # {}
  PROVE  \E i \in S : \A k \in S : k <= i
<1> DEFINE T == {n - i : i \in S}
<1>0. \A i \in S : i \in Nat /\ i <= n /\ n - i \in Nat
  OBVIOUS
<1>1. T \in SUBSET Nat /\ T # {}
  BY <1>0
<1>2. PICK j \in T : \A k \in T : j <= k
  BY <1>1, FirstPlace
<1>3. PICK i \in S : j = n - i
  OBVIOUS
<1>4. \A k \in S : n - k \in T /\ k \in Int /\ i \in Int
  OBVIOUS
<1>5. \A k \in S : n - i <= n - k
  BY <1>2, <1>3, <1>4
<1> QED BY <1>4, <1>5

\* The places of the downloads that wait for a slot.
Startable(p, q, D) == {i \in DOMAIN q : MayStart(p, D[q[i]])}

Free(p, q, D) == p.max - Active(p, q, D)

\* What schedule() counts is finite.
LEMMA CountsAreFinite ==
  ASSUME NEW gens, NEW p \in Policy, NEW q \in Seq(Ids), NEW D \in [Ids -> Download(gens)]
  PROVE  /\ Active(p, q, D) \in Nat
         /\ IsFiniteSet({d \in Range(q) : CountsActive(p, D[d])})
         /\ Free(p, q, D) \in Int /\ p.max \in Nat
         /\ Startable(p, q, D) \subseteq 1..Len(q)
         /\ IsFiniteSet(Startable(p, q, D))
         /\ Chosen(p, q, D) \subseteq Startable(p, q, D)
         /\ \A i \in Startable(p, q, D) :
              i \in Chosen(p, q, D) <=>
                Cardinality({k \in Startable(p, q, D) : k < i}) < Free(p, q, D)
<1>1. Range(q) \subseteq Ids
  BY DEF Range
<1>2. {d \in Range(q) : CountsActive(p, D[d])} \in SUBSET Ids
  BY <1>1
<1>3. IsFiniteSet({d \in Range(q) : CountsActive(p, D[d])})
  BY <1>2, IdsFinite, FS_Subset
<1>4. Active(p, q, D) \in Nat
  BY <1>3, FS_CardinalityType DEF Active
<1>5. p.max \in Nat
  BY DEF Policy
<1>6. Startable(p, q, D) \subseteq 1..Len(q)
  BY DEF Startable
<1>7. IsFiniteSet(Startable(p, q, D))
  BY <1>6, FS_Interval, FS_Subset
<1>8. Chosen(p, q, D) = {i \in Startable(p, q, D) :
               Cardinality({k \in Startable(p, q, D) : k < i}) < Free(p, q, D)}
  BY DEF Chosen, Startable, Free
<1>9. /\ Chosen(p, q, D) \subseteq Startable(p, q, D)
      /\ \A i \in Startable(p, q, D) :
           i \in Chosen(p, q, D) <=>
             Cardinality({k \in Startable(p, q, D) : k < i}) < Free(p, q, D)
  BY <1>8, Zenon
<1>10. Free(p, q, D) \in Int
  BY <1>4, <1>5 DEF Free
<1> QED BY <1>3, <1>4, <1>5, <1>6, <1>7, <1>9, <1>10

\* Whoever has to wait does so because as many as there are free slots go first.
LEMMA ChosenFill ==
  ASSUME NEW gens, NEW p \in Policy, NEW q \in Seq(Ids), NEW D \in [Ids -> Download(gens)],
         NEW w \in Startable(p, q, D), w \notin Chosen(p, q, D)
  PROVE  Cardinality(Chosen(p, q, D)) >= Free(p, q, D)
<1> DEFINE S == Startable(p, q, D)
           C == Chosen(p, q, D)
           f == Free(p, q, D)
<1>1. S \subseteq 1..Len(q) /\ IsFiniteSet(S) /\ f \in Int
  BY CountsAreFinite
<1>2. C \subseteq S /\ \A i \in S : i \in C <=> Cardinality({k \in S : k < i}) < f
  BY CountsAreFinite
<1>3. IsFiniteSet(C) /\ Cardinality(C) \in Nat
  BY <1>1, <1>2, FS_Subset, FS_CardinalityType
<1>4. PICK i \in S \ C : \A k \in S \ C : i <= k
  <2>1. S \ C \in SUBSET Nat /\ S \ C # {}
    BY <1>1
  <2> HIDE DEF S, C
  <2> QED BY <2>1, FirstPlace
<1>5. {k \in S : k < i} \in SUBSET C
  BY <1>1, <1>4
<1>6. Cardinality({k \in S : k < i}) <= Cardinality(C)
      /\ Cardinality({k \in S : k < i}) \in Nat
  BY <1>3, <1>5, FS_Subset, FS_CardinalityType
<1>7. ~(Cardinality({k \in S : k < i}) < f)
  BY <1>2, <1>4
<1> QED BY <1>1, <1>3, <1>6, <1>7

\* No more are chosen than there are free slots.
LEMMA ChosenFit ==
  ASSUME NEW gens, NEW p \in Policy, NEW q \in Seq(Ids), NEW D \in [Ids -> Download(gens)],
         Chosen(p, q, D) # {}
  PROVE  Cardinality(Chosen(p, q, D)) <= Free(p, q, D)
<1> DEFINE S == Startable(p, q, D)
           C == Chosen(p, q, D)
           f == Free(p, q, D)
<1>1. S \subseteq 1..Len(q) /\ IsFiniteSet(S) /\ f \in Int
  BY CountsAreFinite
<1>2. C \subseteq S /\ \A i \in S : i \in C <=> Cardinality({k \in S : k < i}) < f
  BY CountsAreFinite
<1>3. IsFiniteSet(C) /\ Cardinality(C) \in Nat
  BY <1>1, <1>2, FS_Subset, FS_CardinalityType
<1>4. PICK i \in C : \A k \in C : k <= i
  <2>1. C \in SUBSET (1..Len(q)) /\ Len(q) \in Nat /\ C # {}
    BY <1>1, <1>2
  <2> HIDE DEF C
  <2> QED BY <2>1, LastPlace
<1> DEFINE B == {k \in S : k < i}
<1>5. C \subseteq B \cup {i}
  BY <1>1, <1>2, <1>4
<1>6. IsFiniteSet(B) /\ Cardinality(B) \in Nat /\ i \notin B
  BY <1>1, <1>2, FS_Subset, FS_CardinalityType
<1>7. IsFiniteSet(B \cup {i}) /\ Cardinality(B \cup {i}) = Cardinality(B) + 1
  <2> HIDE DEF B
  <2> QED BY <1>6, FS_AddElement
<1>8. Cardinality(C) <= Cardinality(B \cup {i})
  <2> HIDE DEF B, C
  <2> QED BY <1>5, <1>7, FS_Subset
<1>9. Cardinality(B) < f
  BY <1>2, <1>4
<1> QED BY <1>1, <1>3, <1>6, <1>7, <1>8, <1>9

\* What a start makes of a record that may be started.
LEMMA StartedCounts ==
  ASSUME NEW gens, NEW p \in Policy, NEW r \in Download(gens), MayStart(p, r)
  PROVE  /\ r.status = "queued" /\ ~CountsActive(p, r)
         /\ Started(p, r).status = "downloading"
         /\ CountsActive(p, Started(p, r)) /\ ~MayStart(p, Started(p, r))
<1>1. /\ Started(p, r).status = "downloading"
      /\ Started(p, r).ignore = r.ignore
  BY DEF Started, Download
<1>2. r.status = "queued" /\ ~SchedHeld(p, r)
  BY DEF MayStart
<1>3. ~SchedHeld(p, Started(p, r))
  BY <1>1, <1>2 DEF SchedHeld
<1> QED BY <1>1, <1>2, <1>3 DEF CountsActive, Occupies, MayStart

\* schedule() starts the chosen downloads ...
LEMMA ScheduleStarts ==
  ASSUME NEW gens, NEW p \in Policy, NEW q \in Seq(Ids), IsInjective(q),
         NEW D \in [Ids -> Download(gens)]
  PROVE  /\ \A i \in Chosen(p, q, D) : i \in DOMAIN q /\ MayStart(p, D[q[i]])
         /\ \A i \in DOMAIN q : i \in Chosen(p, q, D) => Schedule(p, q, D)[q[i]] = Started(p, D[q[i]])
         /\ \A i \in DOMAIN q : i \notin Chosen(p, q, D) => Schedule(p, q, D)[q[i]] = D[q[i]]
<1> DEFINE B == {q[i] : i \in Chosen(p, q, D)}
<1>1. \A i \in DOMAIN q : q[i] \in Ids
  OBVIOUS
<1>2. Chosen(p, q, D) \subseteq DOMAIN q /\ \A i \in Chosen(p, q, D) : MayStart(p, D[q[i]])
  BY CountsAreFinite DEF Startable
<1>3. \A d \in Ids : Schedule(p, q, D)[d] = IF d \in B THEN Started(p, D[d]) ELSE D[d]
  BY DEF Schedule
<1>4. \A i \in DOMAIN q : q[i] \in B <=> i \in Chosen(p, q, D)
  BY <1>2 DEF IsInjective
<1>5. \A i \in DOMAIN q : i \in Chosen(p, q, D) => Schedule(p, q, D)[q[i]] = Started(p, D[q[i]])
  BY <1>1, <1>3, <1>4
<1>6. \A i \in DOMAIN q : i \notin Chosen(p, q, D) => Schedule(p, q, D)[q[i]] = D[q[i]]
  BY <1>1, <1>3, <1>4
<1> QED BY <1>2, <1>5, <1>6

\* ... which take that many slots more.
LEMMA ScheduleCounts ==
  ASSUME NEW gens, NEW p \in Policy, NEW q \in Seq(Ids), IsInjective(q),
         NEW D \in [Ids -> Download(gens)]
  PROVE  /\ Cardinality(Chosen(p, q, D)) \in Nat
         /\ Active(p, q, Schedule(p, q, D)) = Active(p, q, D) + Cardinality(Chosen(p, q, D))
<1> DEFINE S == Schedule(p, q, D)
           C == Chosen(p, q, D)
           A == {d \in Range(q) : CountsActive(p, D[d])}
           B == {q[i] : i \in C}
<1>1. \A i \in DOMAIN q : q[i] \in Ids /\ q[i] \in Range(q)
  BY DEF Range
<1>2. \A i \in C : i \in DOMAIN q /\ MayStart(p, D[q[i]]) /\ S[q[i]] = Started(p, D[q[i]])
  BY ScheduleStarts
<1>3. \A d \in Ids \ B : S[d] = D[d]
  BY DEF Schedule
<1>4. IsFiniteSet(C) /\ Cardinality(C) \in Nat
  <2>1. IsFiniteSet(Startable(p, q, D)) /\ C \in SUBSET Startable(p, q, D)
    BY CountsAreFinite
  <2> HIDE DEF C
  <2> QED BY <2>1, FS_Subset, FS_CardinalityType
<1>5. IsFiniteSet(B) /\ Cardinality(B) = Cardinality(C)
  <2> DEFINE f == [i \in C |-> q[i]]
  <2>1. f \in Bijection(C, B)
    BY <1>2 DEF IsInjective, Bijection, Injection, Surjection
  <2>2. ExistsBijection(C, B)
    BY <2>1 DEF ExistsBijection
  <2> HIDE DEF B, C
  <2> QED BY <1>4, <2>2, FS_Bijection
<1>6. \A d \in B : d \in Range(q) /\ ~CountsActive(p, D[d]) /\ CountsActive(p, S[d])
  BY <1>1, <1>2, StartedCounts
<1>7. A \cap B = {}
  BY <1>6
<1>8. {d \in Range(q) : CountsActive(p, S[d])} = A \cup B
  <2>1. \A d \in Range(q) \ B : S[d] = D[d]
    BY <1>3 DEF Range
  <2> HIDE DEF S, B
  <2> QED BY <1>6, <2>1
<1>9. Cardinality(A \cup B) = Cardinality(A) + Cardinality(B)
  <2>1. IsFiniteSet(A) /\ Cardinality(A) \in Nat
    BY CountsAreFinite, FS_CardinalityType
  <2>2. Cardinality(A \cap B) = 0
    BY <1>7, FS_EmptySet
  <2>3. IsFiniteSet(B) /\ Cardinality(B) \in Nat
    BY <1>4, <1>5
  <2> HIDE DEF A, B
  <2>4. Cardinality(A \cup B) = Cardinality(A) + Cardinality(B) - Cardinality(A \cap B)
    BY <2>1, <2>3, FS_Union
  <2> QED BY <2>1, <2>2, <2>3, <2>4
<1> QED BY <1>4, <1>5, <1>8, <1>9 DEF Active

\* After schedule() a free slot means that nobody waits for it.
LEMMA ScheduleFills ==
  ASSUME NEW gens, NEW p \in Policy, NEW q \in Seq(Ids), IsInjective(q),
         NEW D \in [Ids -> Download(gens)],
         Active(p, q, Schedule(p, q, D)) < p.max
  PROVE  \A d \in Range(q) : ~MayStart(p, Schedule(p, q, D)[d])
<1> DEFINE S == Schedule(p, q, D)
           C == Chosen(p, q, D)
<1> SUFFICES ASSUME NEW i \in DOMAIN q, MayStart(p, S[q[i]])
             PROVE  FALSE
  BY DEF Range
<1>1. q[i] \in Ids /\ D[q[i]] \in Download(gens)
  OBVIOUS
<1>2. CASE i \in C
  BY <1>1, <1>2, ScheduleStarts, StartedCounts
<1>3. CASE i \notin C
  <2>1. MayStart(p, D[q[i]])
    BY <1>3, ScheduleStarts
  <2>2. Cardinality(C) >= Free(p, q, D)
    BY <1>3, <2>1, ChosenFill DEF Startable
  <2>3. Active(p, q, S) = Active(p, q, D) + Cardinality(C) /\ Cardinality(C) \in Nat
    BY ScheduleCounts
  <2>4. Active(p, q, D) \in Nat /\ p.max \in Nat
    BY CountsAreFinite
  <2> QED BY <2>2, <2>3, <2>4 DEF Free
<1> QED BY <1>2, <1>3

\* schedule() starts nobody past the limit ...
LEMMA ScheduleWithinLimit ==
  ASSUME NEW gens, NEW p \in Policy, NEW q \in Seq(Ids), IsInjective(q),
         NEW D \in [Ids -> Download(gens)],
         NEW d \in Ids, Schedule(p, q, D)[d] # D[d]
  PROVE  Active(p, q, Schedule(p, q, D)) <= p.max
<1>1. Chosen(p, q, D) # {}
  BY DEF Schedule
<1>2. Cardinality(Chosen(p, q, D)) <= Free(p, q, D)
  BY <1>1, ChosenFit
<1>3. /\ Active(p, q, Schedule(p, q, D)) = Active(p, q, D) + Cardinality(Chosen(p, q, D))
      /\ Cardinality(Chosen(p, q, D)) \in Nat
  BY ScheduleCounts
<1>4. Active(p, q, D) \in Nat /\ p.max \in Nat
  BY CountsAreFinite
<1> QED BY <1>2, <1>3, <1>4 DEF Free

\* ... and nobody before one that is further up.
LEMMA ScheduleInOrder ==
  ASSUME NEW gens, NEW p \in Policy, NEW q \in Seq(Ids), IsInjective(q),
         NEW D \in [Ids -> Download(gens)],
         NEW i \in DOMAIN q, NEW j \in DOMAIN q, i < j,
         Schedule(p, q, D)[q[j]] # D[q[j]]
  PROVE  ~MayStart(p, Schedule(p, q, D)[q[i]])
<1> DEFINE W == Startable(p, q, D)
<1>1. j \in Chosen(p, q, D)
  BY ScheduleStarts
<1>2. SUFFICES ASSUME i \notin Chosen(p, q, D), MayStart(p, D[q[i]])
               PROVE  FALSE
  BY ScheduleStarts, StartedCounts
<1>3. i \in W /\ j \in W
  BY <1>1, <1>2, CountsAreFinite DEF Startable
<1>4. W \subseteq 1..Len(q) /\ IsFiniteSet(W) /\ Free(p, q, D) \in Int
  BY CountsAreFinite
<1>5. {k \in W : k < i} \subseteq {k \in W : k < j} /\ {k \in W : k < j} \subseteq W
  BY <1>3, <1>4
<1>6. IsFiniteSet({k \in W : k < j}) /\ IsFiniteSet({k \in W : k < i})
  BY <1>4, <1>5, FS_Subset
<1>7. /\ Cardinality({k \in W : k < i}) <= Cardinality({k \in W : k < j})
      /\ Cardinality({k \in W : k < i}) \in Nat
      /\ Cardinality({k \in W : k < j}) \in Nat
  BY <1>5, <1>6, FS_Subset, FS_CardinalityType
<1>8. Cardinality({k \in W : k < j}) < Free(p, q, D)
  BY <1>1, <1>3, CountsAreFinite
<1>9. ~(Cardinality({k \in W : k < i}) < Free(p, q, D))
  BY <1>2, <1>3, CountsAreFinite
<1> QED BY <1>4, <1>7, <1>8, <1>9

\* Slots that are taken stay taken when the list, the records and the policy change.
LEMMA ActiveGrows ==
  ASSUME NEW gens, NEW p \in Policy, NEW q \in Seq(Ids), NEW D \in [Ids -> Download(gens)],
         NEW pp \in Policy, NEW qq \in Seq(Ids), NEW E \in [Ids -> Download(gens)],
         \A d \in Range(q) : CountsActive(p, D[d]) => d \in Range(qq) /\ CountsActive(pp, E[d])
  PROVE  Active(p, q, D) <= Active(pp, qq, E)
<1>1. {d \in Range(q) : CountsActive(p, D[d])} \subseteq {d \in Range(qq) : CountsActive(pp, E[d])}
  OBVIOUS
<1>2. IsFiniteSet({d \in Range(qq) : CountsActive(pp, E[d])})
  BY IdsFinite, FS_Subset DEF Range
<1> QED BY <1>1, <1>2, FS_Subset DEF Active
-----------------------------------------------------------------------------
(* Type correctness.                                                       *)

\* What TypeOK needs of the counters it bounds.
Bounds ==
  /\ net = "switching" => gen + 2 <= MaxGen
  /\ closing => restarts < MaxRestarts
  /\ awaited \subseteq Busy(jobs)

\* A pass restores: it never makes another kind of job.
PassRequests ==
  \A g \in Gens, d \in Ids :
    passes[g].req[d] # NoRequest => passes[g].req[d].kind = "restore"

TypeInv == TypeOK /\ Bounds /\ PassRequests
-----------------------------------------------------------------------------
(* The types of what the handlers are built from.                          *)

\* The generations there may be.
LEMMA GenFacts == Gens \subseteq Nat /\ 0 \in Gens /\ 1 \in Gens
BY ManagerConstants DEF Gens

\* Whatever the list, what is written can be read back: no status a start does
\* not know.
LEMMA ImageType ==
  ASSUME NEW q \in Seq(Ids), NEW D \in [Ids -> Download(Gens)]
  PROVE  Image(q, D) \in Store
<1>1. \A d \in Ids : /\ D[d].status \in Statuses
                     /\ D[d].ignore \in BOOLEAN
                     /\ D[d].seeding \in BOOLEAN
                     /\ D[d].have \in BOOLEAN
  BY DEF Download
<1>2. \A d \in Ids :
        (IF Occupies(D[d].status) THEN "queued" ELSE D[d].status) \in Settled
  BY <1>1 DEF Occupies, Statuses, Settled
<1>3. [d \in Ids |->
         [status  |-> IF Occupies(D[d].status) THEN "queued" ELSE D[d].status,
          ignore  |-> D[d].ignore, seeding |-> D[d].seeding,
          have |-> D[d].have]] \in [Ids -> Record]
  BY <1>1, <1>2 DEF Record
<1> QED BY <1>3 DEF Image, Store

\* What persistLocked leaves on the disk.
LEMMA PersistType ==
  ASSUME disk \in Store, NEW ok \in BOOLEAN, NEW q \in Seq(Ids),
         NEW D \in [Ids -> Download(Gens)], Persist(ok, q, D)
  PROVE  disk' \in Store
BY ImageType DEF Persist

\* The request of a goroutine that was just started.
LEMMA ReqType ==
  ASSUME gen \in Gens, NEW d \in Ids, NEW k \in Kinds
  PROVE  Req(d, k) \in Request
BY DEF Req, Request

\* The request of a restore pass.
LEMMA SnapshotType ==
  ASSUME dn \in [Ids -> Download(Gens)], NEW g \in Gens, NEW p \in Gens,
         NEW d \in Ids, NEW how \in Entry
  PROVE  Snapshot(g, p, d, how) \in Request
<1>1. dn[d].seeding \in BOOLEAN
  BY DEF Download
<1>2. how.trusted \in BOOLEAN /\ how.force \in BOOLEAN
  BY DEF Entry
<1> QED BY <1>1, <1>2 DEF Snapshot, Request, Kinds

\* What markResumeLocked leaves.
LEMMA MarkedType ==
  ASSUME NEW r \in Resuming, NEW d \in Ids, NEW force \in BOOLEAN
  PROVE  Marked(r, d, force) \in Resuming
<1>1. r.ids[d] \in Entry
  BY DEF Resuming
<1>2. [listed |-> TRUE, trusted |-> r.ids[d].trusted,
       force |-> r.ids[d].force \/ force] \in Entry
  BY <1>1 DEF Entry
<1> QED BY <1>2 DEF Marked, Resuming

\* A download before it is added, and one that was removed.
LEMMA FreshType == Fresh \in Download(Gens) /\ Gone \in Download(Gens)
BY GenFacts DEF Fresh, Gone, Download, Statuses

\* What comes back with the client when nothing does.
LEMMA NoEntryType == NoEntry \in Entry /\ NoResume \in Resuming
BY DEF NoEntry, Entry, NoResume, Resuming

\* A pass that is over.
LEMMA DeadPassType == DeadPass \in Pass
BY DEF DeadPass, Pass, NoReqs

\* A pass that has one request less.
LEMMA ClearedPass ==
  ASSUME NEW x \in Pass, NEW d \in Ids
  PROVE  [x EXCEPT !.req[d] = NoRequest] \in Pass
<1>1. /\ x.live \in BOOLEAN /\ x.seed \in BOOLEAN /\ x.order \in Seq(Ids)
      /\ [x.req EXCEPT ![d] = NoRequest] \in [Ids -> Request \cup {NoRequest}]
  BY DEF Pass
<1>2. [x EXCEPT !.req[d] = NoRequest] =
        [live |-> x.live, seed |-> x.seed, order |-> x.order,
         req |-> [x.req EXCEPT ![d] = NoRequest]]
  BY DEF Pass
<1> QED BY <1>1, <1>2 DEF Pass

\* A pass that begins.
LEMMA NewPassType ==
  ASSUME policy \in Policy, items \in Seq(Ids), NEW g \in Gens,
         NEW S \in SUBSET Ids, NEW picked \in [S -> Request], NEW seed \in BOOLEAN
  PROVE  NewPass(g, picked, seed) \in Pass
<1>1. [d \in Ids |-> IF d \in DOMAIN picked THEN picked[d] ELSE NoRequest]
        \in [Ids -> Request \cup {NoRequest}]
  OBVIOUS
<1> QED BY <1>1 DEF NewPass, Pass

\* What applySettings makes of a download.
LEMMA AppliedType ==
  ASSUME NEW c \in Config, NEW p \in Policy, NEW busy \in BOOLEAN,
         NEW r \in Download(Gens)
  PROVE  Applied(c, p, busy, r) \in Download(Gens)
<1>1. /\ c.upload \in BOOLEAN /\ HasClient \in BOOLEAN
      /\ AllowUpload(p, r) \in Download(Gens)
  BY GenFacts, RecordTypes DEF Config, HasClient
<1>2. CASE r.status # "completed" /\ r.engine # 0
  BY <1>1, <1>2 DEF Applied, Download
<1>3. CASE r.status = "completed" /\ ~c.seed
  BY <1>1, <1>3, GenFacts DEF Applied, Detached, Download
<1>4. CASE r.status = "completed" /\ c.seed /\ r.engine # 0
  BY <1>1, <1>4 DEF Applied, Download
<1>5. CASE r.status = "completed" /\ c.seed /\ r.engine = 0
  BY <1>1, <1>5 DEF Applied, Download
<1>6. CASE r.status # "completed" /\ r.engine = 0
  BY <1>6 DEF Applied
<1> QED BY <1>2, <1>3, <1>4, <1>5, <1>6

\* What completeLocked makes of a download.
LEMMA CompletedType ==
  ASSUME policy \in Policy, NEW r \in Download(Gens)
  PROVE  Completed(r) \in Download(Gens)
<1> DEFINE done == [r EXCEPT !.status = "completed", !.ignore = FALSE,
                             !.seeding = policy.saved.seed]
           closed == [done EXCEPT !.dl = FALSE]
<1>1. policy.saved.seed \in BOOLEAN
  BY DEF Policy, Config
<1>2. done \in Download(Gens)
  BY <1>1 DEF Download, Statuses
<1>3. closed \in Download(Gens)
  BY <1>2 DEF Download
<1>4. AllowUpload(policy, closed) \in Download(Gens) /\ Detached(closed) \in Download(Gens)
  BY <1>3, GenFacts, RecordTypes
<1> QED BY <1>2, <1>4 DEF Completed

\* What a start makes of the stored list.
LEMMA LoadedType ==
  ASSUME NEW st \in Store
  PROVE  Loaded(st) \in [Ids -> Download(Gens)] /\ st.items \in Seq(Ids)
<1>1. \A d \in Ids : st.rec[d] \in Record
  BY DEF Store
<1>2. \A d \in Ids : [status |-> st.rec[d].status, ignore |-> st.rec[d].ignore,
                      seeding |-> st.rec[d].seeding, engine |-> 0, dl |-> FALSE,
                      ul |-> FALSE, have |-> st.rec[d].have] \in Download(Gens)
  BY <1>1, GenFacts DEF Record, Settled, Statuses, Download
<1> QED BY <1>2 DEF Loaded, Store
-----------------------------------------------------------------------------
(* Every step keeps the types.                                             *)

\* The facts about the variables every other proof uses.
LEMMA TypeFacts ==
  ASSUME TypeInv
  PROVE  /\ items \in Seq(Ids) /\ dn \in [Ids -> Download(Gens)]
         /\ policy \in Policy /\ gen \in Gens /\ disk \in Store
         /\ \A d \in Range(items) : d \in Ids
         /\ \A i \in DOMAIN items : items[i] \in Ids
BY DEF TypeInv, TypeOK, Range

\* A step that writes the downloads and the disk.
LEMMA TypeOfData ==
  ASSUME TypeInv, dn' \in [Ids -> Download(Gens)], disk' \in Store,
         asked' \in [Ids -> {"run", "pause", "stop"}],
         UNCHANGED <<items, verified, rules, work, client, life>>
  PROVE  TypeInv'
BY DEF TypeInv, TypeOK, Bounds, PassRequests, rules, work, client, life, Busy

\* Commit writes the downloads and the disk, as its arguments are typed.
LEMMA CommitType ==
  ASSUME TypeInv, NEW ok \in BOOLEAN, NEW D \in [Ids -> Download(Gens)],
         NEW E \in [Ids -> Download(Gens)], Commit(ok, D, E)
  PROVE  dn' \in [Ids -> Download(Gens)] /\ disk' \in Store
BY TypeFacts, PersistType, ListTypes, GenFacts DEF Commit

\* dropLocked
LEMMA DropType ==
  ASSUME TypeInv, NEW ok \in BOOLEAN, NEW i \in DOMAIN items, Drop(i, ok)
  PROVE  /\ items' \in Seq(Ids) /\ disk' \in Store
         /\ dn' \in [Ids -> Download(Gens)] => TypeInv'
<1> DEFINE q == RemoveAt(items, i)
<1>1. q \in Seq(Ids)
  BY TypeFacts, SubSeqProperties, ConcatProperties DEF RemoveAt
<1>2. disk' \in Store
  BY <1>1, TypeFacts, PersistType DEF Drop
<1>3. items' \in Seq(Ids)
  BY <1>1, TypeFacts DEF Drop
<1>4. /\ jobs' \in [Ids -> Job \cup {NoJob}]
      /\ Busy(jobs') = Busy(jobs)
  BY TypeFacts DEF TypeInv, TypeOK, Job, NoJob, Phases, Busy, Drop
<1>5. /\ verified' \in SUBSET Ids
      /\ UNCHANGED <<rules, spawned, passes, booting, awaited, client, life, asked>>
  BY DEF Drop, TypeInv, TypeOK
<1> QED
  BY <1>2, <1>3, <1>4, <1>5
  DEF TypeInv, TypeOK, Bounds, PassRequests, rules, client, life, Busy

\* The requests of the user.
LEMMA RequestTypes ==
  ASSUME TypeInv, NEW ok \in BOOLEAN, Requests(ok)
  PROVE  TypeInv'
<1> USE TypeFacts, GenFacts
<1>0. asked \in [Ids -> {"run", "pause", "stop"}]
  BY DEF TypeInv, TypeOK
<1>1. ASSUME NEW d \in Ids, Add(d, ok)
      PROVE  TypeInv'
  <2> DEFINE q == Append(items, d)
             D == [dn EXCEPT ![d] = Attached(@, gen)]
  <2>1. q \in Seq(Ids) /\ D \in [Ids -> Download(Gens)]
    BY RecordTypes, AppendProperties
  <2>2. disk' \in Store
    BY <1>1, <2>1, PersistType DEF Add
  <2>3. dn' \in [Ids -> Download(Gens)]
    <3>1. Schedule(policy, q, D) \in [Ids -> Download(Gens)]
      BY <2>1, ListTypes
    <3> QED BY <1>1, <3>1 DEF Add
  <2>4. items' \in Seq(Ids) /\ verified' \in SUBSET Ids
    BY <1>1, <2>1 DEF Add, TypeInv, TypeOK
  <2> QED BY <1>1, <2>2, <2>3, <2>4
          DEF Add, TypeInv, TypeOK, Bounds, PassRequests, rules, work, client, life, Busy
<1>2. ASSUME NEW d \in Ids, AddTask(d, ok)
      PROVE  TypeInv'
  <2>1. Append(items, d) \in Seq(Ids)
    BY AppendProperties
  <2>2. disk' \in Store
    BY <1>2, <2>1, PersistType DEF AddTask
  <2>3. items' \in Seq(Ids)
    BY <1>2, <2>1 DEF AddTask
  <2>4. spawned' \in SUBSET Request
    BY <1>2, ReqType DEF AddTask, TypeInv, TypeOK, Kinds
  <2> QED BY <1>2, <2>2, <2>3, <2>4
          DEF AddTask, TypeInv, TypeOK, Bounds, PassRequests, rules, client, life, Busy
<1>3. ASSUME NEW d \in Ids, Pause(d, ok)
      PROVE  TypeInv'
  <2>1. [dn[d] EXCEPT !.status = "paused"] \in Download(Gens)
    BY DEF Download, Statuses
  <2>2. [dn EXCEPT ![d] = Gated([@ EXCEPT !.status = "paused"])]
          \in [Ids -> Download(Gens)]
    BY <2>1, RecordTypes
  <2>3. dn' \in [Ids -> Download(Gens)] /\ disk' \in Store
    BY <1>3, <2>2, CommitType DEF Pause
  <2> QED BY <1>0, <1>3, <2>3, TypeOfData DEF Pause
<1>4. ASSUME NEW d \in Ids, NEW force \in BOOLEAN,
             QueueWhileDown(d, force, ok) \/ Reattach(d, force, ok),
             asked' \in [Ids -> {"run", "pause", "stop"}]
      PROVE  TypeInv'
  <2>1. /\ [dn EXCEPT ![d].status = "queued"] \in [Ids -> Download(Gens)]
        /\ [dn EXCEPT ![d].status = "verifying"] \in [Ids -> Download(Gens)]
    BY DEF Download, Statuses
  <2>2. disk' \in Store /\ dn' \in [Ids -> Download(Gens)]
    BY <1>4, <2>1, PersistType DEF QueueWhileDown, Reattach
  <2>3. CASE QueueWhileDown(d, force, ok)
    <3>1. resume' \in Resuming
      BY <2>3, MarkedType DEF QueueWhileDown, TypeInv, TypeOK
    <3> QED BY <1>4, <2>2, <2>3, <3>1
            DEF QueueWhileDown, TypeInv, TypeOK, Bounds, PassRequests, rules, work, life, Busy
  <2>4. CASE Reattach(d, force, ok)
    <3>1. [Req(d, "restore") EXCEPT !.force = force] \in Request
      BY ReqType DEF Kinds, Request
    <3>2. spawned' \in SUBSET Request
      BY <2>4, <3>1 DEF Reattach, TypeInv, TypeOK
    <3> QED BY <1>4, <2>2, <2>4, <3>2
            DEF Reattach, TypeInv, TypeOK, Bounds, PassRequests, rules, client, life, Busy
  <2> QED BY <1>4, <2>3, <2>4
<1>5. ASSUME NEW d \in Ids, Resume(d, ok)
      PROVE  TypeInv'
  <2>1. asked' \in [Ids -> {"run", "pause", "stop"}]
    BY <1>0, <1>5 DEF Resume
  <2>2. CASE QueueWhileDown(d, FALSE, ok) \/ Reattach(d, FALSE, ok)
    BY <1>4, <2>1, <2>2
  <2>3. CASE /\ Commit(ok, [dn EXCEPT ![d].status = "queued"], dn)
             /\ UNCHANGED <<items, verified, rules, work, client, life>>
    <3>1. [dn EXCEPT ![d].status = "queued"] \in [Ids -> Download(Gens)]
      BY DEF Download, Statuses
    <3> QED BY <2>1, <2>3, <3>1, CommitType, TypeOfData
  <2> QED BY <1>5, <2>2, <2>3 DEF Resume
<1>6. ASSUME NEW d \in Ids, ForceStart(d, ok)
      PROVE  TypeInv'
  <2>1. asked' \in [Ids -> {"run", "pause", "stop"}]
    BY <1>0, <1>6 DEF ForceStart
  <2>2. CASE QueueWhileDown(d, TRUE, ok) \/ Reattach(d, TRUE, ok)
    BY <1>4, <2>1, <2>2
  <2>3. CASE /\ LET r == Forced(policy, dn[d])
                    D == [dn EXCEPT ![d] = r]
                IN  /\ Persist(ok, items, D)
                    /\ dn' = IF ok THEN D
                             ELSE [dn EXCEPT ![d].dl = r.dl, ![d].ul = r.ul]
             /\ UNCHANGED <<items, verified, rules, work, client, life>>
    <3> DEFINE r == Forced(policy, dn[d])
               D == [dn EXCEPT ![d] = r]
    <3>1. r \in Download(Gens)
      BY RecordTypes
    <3>2. /\ D \in [Ids -> Download(Gens)]
          /\ [dn EXCEPT ![d].dl = r.dl, ![d].ul = r.ul] \in [Ids -> Download(Gens)]
      BY <3>1 DEF Download
    <3>3. dn' \in [Ids -> Download(Gens)] /\ disk' \in Store
      BY <2>3, <3>2, PersistType
    <3> QED BY <2>1, <2>3, <3>3, TypeOfData
  <2> QED BY <1>6, <2>2, <2>3 DEF ForceStart
<1>7. ASSUME NEW d \in Ids, DownloadNow(d, ok)
      PROVE  TypeInv'
  <2> DEFINE D == [dn EXCEPT ![d].ignore = TRUE]
             S == SyncPlay(policy, items, Busy(jobs), D)
  <2>1. D \in [Ids -> Download(Gens)]
    BY DEF Download
  <2>2. S \in [Ids -> Download(Gens)]
    BY <2>1, ListTypes
  <2>3. Schedule(policy, items, S) \in [Ids -> Download(Gens)]
    BY <2>2, ListTypes
  <2>4. dn' \in [Ids -> Download(Gens)] /\ disk' \in Store
    BY <1>7, <2>1, <2>3, PersistType DEF DownloadNow
  <2> QED BY <1>0, <1>7, <2>4, TypeOfData DEF DownloadNow
<1>8. ASSUME NEW d \in Ids, StopSeeding(d, ok)
      PROVE  TypeInv'
  <2> DEFINE D == [dn EXCEPT ![d] = Detached([@ EXCEPT !.seeding = FALSE])]
  <2>1. [dn[d] EXCEPT !.seeding = FALSE] \in Download(Gens)
    BY ZenonT(60) DEF Download
  <2>2. D \in [Ids -> Download(Gens)]
    BY <2>1, RecordTypes
  <2>3. /\ dn' \in [Ids -> Download(Gens)] /\ disk' \in Store
        /\ asked' \in [Ids -> {"run", "pause", "stop"}]
    BY <1>0, <1>8, <2>2, PersistType DEF StopSeeding
  <2> QED BY <1>8, <2>3, TypeOfData DEF StopSeeding
<1>9. ASSUME NEW i \in DOMAIN items, NEW j \in DOMAIN items, Move(i, j, ok)
      PROVE  TypeInv'
  <2>1. [items EXCEPT ![i] = items[j], ![j] = items[i]] \in Seq(Ids)
    BY ExceptSeq
  <2>2. items' \in Seq(Ids) /\ disk' \in Store
    BY <1>9, <2>1, PersistType DEF Move
  <2> QED BY <1>9, <2>2
          DEF Move, TypeInv, TypeOK, Bounds, PassRequests, rules, work, client, life, Busy
<1>10. ASSUME NEW i \in DOMAIN items, Discard(i, ok)
       PROVE  TypeInv'
  <2> DEFINE D == [dn EXCEPT ![items[i]] = Gone]
  <2>1. D \in [Ids -> Download(Gens)]
    BY FreshType
  <2>2. Drop(i, ok)
    BY <1>10 DEF Discard
  <2>3. Schedule(policy, items', D) \in [Ids -> Download(Gens)]
    BY <2>1, ListTypes
  <2>4. dn' \in [Ids -> Download(Gens)]
    BY <1>10, <2>3 DEF Discard
  <2> QED BY <2>2, <2>4, DropType
<1>11. ASSUME NEW i \in DOMAIN items, StopAndWait(i, ok)
       PROVE  TypeInv'
  BY <1>11, FreshType, DropType DEF StopAndWait
<1> QED
  BY <1>1, <1>2, <1>3, <1>5, <1>6, <1>7, <1>8, <1>9, <1>10, <1>11 DEF Requests

\* A new start of the program, from a list that can be read.
LEMMA RestartedType ==
  ASSUME TypeInv, NEW st \in Store, Restarted(st), restarts < MaxRestarts
  PROVE  TypeInv'
<1> USE TypeFacts, GenFacts, ManagerConstants
<1>1. items' \in Seq(Ids) /\ dn' \in [Ids -> Download(Gens)] /\ disk' \in Store
  BY LoadedType DEF Restarted
<1>2. /\ jobs' \in [Ids -> Job \cup {NoJob}] /\ spawned' \in SUBSET Request
      /\ passes' \in [Gens -> Pass] /\ awaited' = {}
  BY DeadPassType DEF Restarted
<1>7. \A g \in Gens, d \in Ids : passes'[g].req[d] = NoRequest
  BY DEF Restarted, DeadPass, NoReqs
<1>3. /\ booting' \in BOOLEAN /\ net' \in {"up", "down"} /\ gen' \in Gens
      /\ resume' \in Resuming
  BY NoEntryType DEF Resuming, Restarted
<1>4. closing' = FALSE /\ restarts' \in 0..MaxRestarts
  BY DEF Restarted, TypeInv, TypeOK
<1>5. policy' \in Policy
  <2>1. policy.saved \in Config /\ policy.saved.max \in Nat
    BY DEF Policy, Config
  <2>2. PICK b \in BlockedBy(policy.saved) :
          policy' = [saved |-> policy.saved, rate |-> policy.saved,
                     max |-> policy.saved.max, blocked |-> b, gaming |-> FALSE]
    BY DEF Restarted
  <2>3. b \in BOOLEAN
    BY DEF BlockedBy
  <2> QED BY <2>1, <2>2, <2>3 DEF Policy
<1>6. /\ notices' \subseteq Configs /\ verified' \subseteq Ids
      /\ asked' \in [Ids -> {"run", "pause", "stop"}]
  BY DEF Restarted, Unstopped, TypeInv, TypeOK
<1> QED BY <1>1, <1>2, <1>7, <1>3, <1>4, <1>5, <1>6 DEF TypeInv, TypeOK, Bounds, PassRequests, Nets

\* What happens around the manager.
LEMMA EnvironmentTypes ==
  ASSUME TypeInv, Environment
  PROVE  TypeInv'
<1> USE TypeFacts, GenFacts
<1>0. /\ asked \in [Ids -> {"run", "pause", "stop"}]
      /\ jobs \in [Ids -> Job \cup {NoJob}]
  BY DEF TypeInv, TypeOK
<1>1. ASSUME NEW d \in Ids, StopSeedingJob(d)
      PROVE  TypeInv'
  <2>1. [jobs[d] EXCEPT !.cancelled = TRUE] \in Job \ {NoJob}
    BY <1>0, <1>1 DEF StopSeedingJob, Job, NoJob, Phases
  <2>2. jobs' \in [Ids -> Job \cup {NoJob}] /\ Busy(jobs') = Busy(jobs)
    BY <1>0, <1>1, <2>1 DEF StopSeedingJob, Busy
  <2> QED BY <1>1, <2>2
          DEF StopSeedingJob, TypeInv, TypeOK, Bounds, PassRequests, list, rules, client, life, Busy
<1>2. ASSUME NEW d \in Ids, WriteError(d)
      PROVE  TypeInv'
  <2>1. spawned' \in SUBSET Request
    BY <1>2, ReqType DEF WriteError, Kinds, TypeInv, TypeOK
  <2> QED BY <1>2, <2>1
          DEF WriteError, TypeInv, TypeOK, Bounds, PassRequests, list, rules, client, life, Busy
<1>3. ASSUME NEW b \in BOOLEAN, SetGamesRunning(b)
      PROVE  TypeInv'
  <2>1. policy' \in Policy
    BY <1>3 DEF SetGamesRunning, Policy
  <2>2. dn' \in [Ids -> Download(Gens)]
    BY <1>3, <2>1, ListTypes DEF SetGamesRunning
  <2> QED BY <1>3, <2>1, <2>2
          DEF SetGamesRunning, TypeInv, TypeOK, Bounds, PassRequests, work, client, life, Busy
<1>4. ASSUME NEW c \in Configs, SaveSettings(c)
      PROVE  TypeInv'
  <2>1. policy' \in Policy /\ notices' \subseteq Configs
    <3>1. c \in Config
      BY ManagerConstants
    <3>2. [policy EXCEPT !.saved = c] \in Policy
      BY <3>1 DEF Policy
    <3> QED BY <1>4, <3>2 DEF SaveSettings, TypeInv, TypeOK
  <2> QED BY <1>4, <2>1
          DEF SaveSettings, TypeInv, TypeOK, Bounds, PassRequests, list, work, client, life, Busy
<1>5. CASE SwitchNetwork
  BY <1>5 DEF SwitchNetwork, TypeInv, TypeOK, Bounds, PassRequests, list, rules, work, life, Busy, Nets
<1>6. CASE Close
  <2>1. \A d \in Ids : jobs[d] # NoJob =>
                         [jobs[d] EXCEPT !.cancelled = TRUE] \in Job \ {NoJob}
    BY <1>0 DEF Job, NoJob, Phases
  <2>2. jobs' \in [Ids -> Job \cup {NoJob}] /\ Busy(jobs') = Busy(jobs)
    BY <1>0, <1>6, <2>1 DEF Close, Busy
  <2> QED BY <1>6, <2>2
          DEF Close, TypeInv, TypeOK, Bounds, PassRequests, list, rules, client, Busy
<1>7. CASE Crash
  BY <1>7, RestartedType DEF Crash
<1> QED BY <1>1, <1>2, <1>3, <1>4, <1>5, <1>6, <1>7 DEF Environment
-----------------------------------------------------------------------------
\* The download a job works on, and the job.
LEMMA JobFacts ==
  ASSUME TypeInv, NEW d \in Ids, jobs[d] # NoJob
  PROVE  /\ jobs[d] \in Job /\ jobs[d].req \in Request
         /\ \A ph \in Phases : [jobs[d] EXCEPT !.phase = ph] \in Job \ {NoJob}
<1>1. jobs[d] \in Job
  BY DEF TypeInv, TypeOK
<1> QED BY <1>1 DEF Job, NoJob, Phases

\* A step of a job that moves it on, and may write the downloads and the disk.
LEMMA TypeOfJobStep ==
  ASSUME TypeInv, NEW d \in Ids, jobs[d] # NoJob, NEW ph \in Phases, Goes(d, ph),
         dn' \in [Ids -> Download(Gens)], disk' \in Store, verified' \subseteq Ids,
         UNCHANGED <<items, rules, spawned, passes, booting, awaited, client, life,
                     asked>>
  PROVE  TypeInv'
<1>1. jobs' \in [Ids -> Job \cup {NoJob}] /\ Busy(jobs') = Busy(jobs)
  BY JobFacts DEF Goes, TypeInv, TypeOK, Busy
<1> QED BY <1>1 DEF TypeInv, TypeOK, Bounds, PassRequests, rules, client, life, Busy

\* A download that failed.
LEMMA MarkFailedType ==
  ASSUME TypeInv, NEW d \in Ids, NEW ok \in BOOLEAN, MarkFailed(d, ok)
  PROVE  dn' \in [Ids -> Download(Gens)] /\ disk' \in Store
<1>1. [dn[d] EXCEPT !.status = "failed"] \in Download(Gens)
  BY TypeFacts DEF Download, Statuses
<1>2. Failed(d, dn) \in [Ids -> Download(Gens)]
  BY <1>1, TypeFacts, GenFacts, RecordTypes DEF Failed
<1>3. Schedule(policy, items, Failed(d, dn)) \in [Ids -> Download(Gens)]
  BY <1>2, TypeFacts, GenFacts, ListTypes
<1> QED BY <1>2, <1>3, TypeFacts, PersistType DEF MarkFailed

\* The end of settleRestored.
LEMMA FinishType ==
  ASSUME TypeInv, NEW d \in Ids, NEW ok \in BOOLEAN,
         NEW D \in [Ids -> Download(Gens)], Finish(d, D, ok)
  PROVE  dn' \in [Ids -> Download(Gens)] /\ disk' \in Store /\ verified' \subseteq Ids
<1> USE TypeFacts, GenFacts
<1> DEFINE r == jobs[d].req
           new == CASE r.paused  -> Gated([D[d] EXCEPT !.status = "paused"])
                    [] ~r.paused /\ r.force  -> Forced(policy, D[d])
                    [] ~r.paused /\ ~r.force -> [D[d] EXCEPT !.status = "queued"]
           D1 == [D EXCEPT ![d] = new]
<1>1. new \in Download(Gens)
  BY StatusType, RecordTypes DEF Statuses
<1>2. D1 \in [Ids -> Download(Gens)]
  BY <1>1
<1>3. Schedule(policy, items, D1) \in [Ids -> Download(Gens)]
  BY <1>2, ListTypes
<1>4. verified \subseteq Ids
  BY DEF TypeInv, TypeOK
<1> HIDE DEF new
<1>5. dn' = Schedule(policy, items, D1) /\ Persist(ok, items, D1) /\ verified' = verified \cup {d}
  BY DEF Finish, new
<1> QED BY <1>2, <1>3, <1>4, <1>5, PersistType

\* The same for a finished download.
LEMMA FinishSeedType ==
  ASSUME TypeInv, NEW d \in Ids, NEW ok \in BOOLEAN, FinishSeed(d, ok)
  PROVE  dn' \in [Ids -> Download(Gens)] /\ disk' \in Store /\ verified' \subseteq Ids
<1> USE TypeFacts, GenFacts
<1> DEFINE r == [Attached(dn[d], gen) EXCEPT !.seeding = policy.saved.seed]
           D == [dn EXCEPT ![d] = IF policy.saved.seed THEN AllowUpload(policy, r)
                                  ELSE Detached(r)]
<1>1. r \in Download(Gens)
  <2>1. Attached(dn[d], gen) \in Download(Gens) /\ policy.saved.seed \in BOOLEAN
    BY RecordTypes DEF Policy, Config
  <2> QED BY <2>1 DEF Download
<1>2. D \in [Ids -> Download(Gens)]
  BY <1>1, RecordTypes
<1> QED BY <1>2, PersistType DEF FinishSeed, TypeInv, TypeOK

\* The jobs.
LEMMA JobStepTypes ==
  ASSUME TypeInv, NEW d \in Ids, NEW ok \in BOOLEAN, JobStep(d, ok)
  PROVE  TypeInv'
<1> USE TypeFacts, GenFacts
<1>0. /\ verified \subseteq Ids /\ Phases = {"attach", "metadata", "settle", "check", "hash", "end"}
      /\ \A e \in Download(Gens), s \in Statuses : [e EXCEPT !.status = s] \in Download(Gens)
      /\ \A e \in Download(Gens), b \in BOOLEAN : [e EXCEPT !.seeding = b] \in Download(Gens)
  BY DEF TypeInv, TypeOK, Phases, Download
<1>1. CASE Attach(d)
  <2>1. dn' \in [Ids -> Download(Gens)]
    <3>1. [dn EXCEPT ![d].status = "metadata"] \in [Ids -> Download(Gens)]
      BY <1>0 DEF Statuses
    <3> QED BY <1>1, <3>1 DEF Attach
  <2>2. PICK ph \in Phases : Goes(d, ph)
    BY <1>0, <1>1 DEF Attach
  <2> QED BY <1>0, <1>1, <2>1, <2>2, TypeOfJobStep DEF Attach, At
<1>2. CASE AttachFails(d, ok)
  <2>1. jobs[d] # NoJob /\ (RestoreFailed(d, ok) \/ MarkFailed(d, ok))
    BY <1>2 DEF AttachFails, At
  <2>2. Goes(d, "end")
    BY <1>2 DEF AttachFails, RestoreFailed
  <2>3. dn' \in [Ids -> Download(Gens)] /\ disk' \in Store
    <3>1. [dn EXCEPT ![d].seeding = FALSE] \in [Ids -> Download(Gens)]
      BY <1>0
    <3> QED BY <2>1, <3>1, MarkFailedType DEF RestoreFailed
  <2> QED BY <1>0, <1>2, <2>1, <2>2, <2>3, TypeOfJobStep DEF AttachFails
<1>3. CASE GotInfo(d)
  BY <1>0, <1>3, TypeOfJobStep DEF GotInfo, At, list
<1>4. CASE Settle(d, ok)
  <2>1. jobs[d] # NoJob /\ \E ph \in Phases : Goes(d, ph)
    BY <1>0, <1>4 DEF Settle, At, FinishSeed, Finish
  <2>2. /\ [dn EXCEPT ![d] = Attached(@, gen)] \in [Ids -> Download(Gens)]
        /\ [dn EXCEPT ![d] = [Attached(@, gen) EXCEPT !.status = "verifying"]]
             \in [Ids -> Download(Gens)]
    BY <1>0, RecordTypes DEF Statuses
  <2>3. dn' \in [Ids -> Download(Gens)] /\ disk' \in Store /\ verified' \subseteq Ids
    BY <1>0, <1>4, <2>2, FinishType, FinishSeedType DEF Settle
  <2> QED BY <1>4, <2>1, <2>3, TypeOfJobStep DEF Settle
<1>5. CASE Check(d, ok)
  BY <1>0, <1>5, FinishType, TypeOfJobStep DEF Check, At, Finish
<1>6. CASE VerifyPasses(d, ok)
  <2> DEFINE D == [dn EXCEPT ![d] = Completed(@)]
  <2>1. D \in [Ids -> Download(Gens)]
    BY CompletedType
  <2>2. Schedule(policy, items, D) \in [Ids -> Download(Gens)]
    BY <2>1, ListTypes
  <2>3. dn' \in [Ids -> Download(Gens)] /\ disk' \in Store /\ verified' \subseteq Ids
    BY <1>0, <1>6, <2>1, <2>2, PersistType DEF VerifyPasses
  <2> QED BY <1>0, <1>6, <2>3, TypeOfJobStep DEF VerifyPasses, At
<1>7. CASE VerifyFails(d, ok)
  BY <1>0, <1>7, MarkFailedType, TypeOfJobStep DEF VerifyFails, At
<1>8. CASE EndJob(d)
  <2>1. jobs \in [Ids -> Job \cup {NoJob}] /\ passes \in [Gens -> Pass]
    BY DEF TypeInv, TypeOK
  <2>2. jobs' \in [Ids -> Job \cup {NoJob}] /\ Busy(jobs') = Busy(jobs) \ {d}
    BY <1>8, <2>1 DEF EndJob, Busy
  <2>3. passes' \in [Gens -> Pass]
    <3>1. CASE jobs[d].req.pass = NoPass
      BY <1>8, <2>1, <3>1 DEF EndJob
    <3>2. CASE jobs[d].req.pass # NoPass
      <4> DEFINE g == jobs[d].req.pass
      <4>1. g \in Gens
        BY <1>8, <3>2, JobFacts DEF EndJob, At, Request
      <4>2. [passes[g] EXCEPT !.req[d] = NoRequest] \in Pass
        BY <2>1, <4>1, ClearedPass
      <4>3. passes' = [passes EXCEPT ![g] = [passes[g] EXCEPT !.req[d] = NoRequest]]
        BY <1>8, <3>2 DEF EndJob
      <4> QED BY <2>1, <4>1, <4>2, <4>3
    <3> QED BY <3>1, <3>2
  <2>4. PassRequests'
    BY <1>8, <2>1 DEF EndJob, PassRequests, TypeInv, Pass
  <2> QED BY <1>8, <2>2, <2>3, <2>4
          DEF EndJob, TypeInv, TypeOK, Bounds, list, rules, client, life
<1> QED BY <1>1, <1>2, <1>3, <1>4, <1>5, <1>6, <1>7, <1>8 DEF JobStep

\* A request that may begin becomes a job.
LEMMA BegunType ==
  ASSUME TypeInv, NEW r \in Request, r.kind # "fail", MayBegin(r)
  PROVE  Begun(r) \in [Ids -> Job \cup {NoJob}] /\ Busy(jobs) \subseteq Busy(Begun(r))
<1> DEFINE j == [req |-> r, phase |-> FirstPhase(r.kind), cancelled |-> closing]
<1>1. FirstPhase(r.kind) \in Phases
  BY DEF FirstPhase, Phases, Request, Kinds
<1>2. closing \in BOOLEAN /\ jobs \in [Ids -> Job \cup {NoJob}] /\ r.id \in Ids
  BY DEF TypeInv, TypeOK, Request
<1>3. j \in Job
  BY <1>1, <1>2 DEF Job
<1>4. jobs[r.id] = NoJob
  BY DEF MayBegin
<1> QED BY <1>2, <1>3, <1>4 DEF Begun, Busy

\* The passes.
LEMMA PassStepTypes ==
  ASSUME TypeInv, NEW g \in Gens, NEW ok \in BOOLEAN, PassStep(g, ok)
  PROVE  TypeInv'
<1> USE TypeFacts, GenFacts
<1>0. passes \in [Gens -> Pass] /\ jobs \in [Ids -> Job \cup {NoJob}]
  BY DEF TypeInv, TypeOK
<1>a. \A d \in Ids : DeadPass.req[d] = NoRequest
  BY DEF DeadPass, NoReqs
<1>1. ASSUME NEW d \in Ids, PassSkip(g, d)
      PROVE  TypeInv'
  <2>1. [passes[g] EXCEPT !.req[d] = NoRequest] \in Pass
    BY <1>0 DEF Pass
  <2>2. passes' \in [Gens -> Pass]
    BY <1>0, <1>1, <2>1 DEF PassSkip
  <2>3. [dn EXCEPT ![d].seeding = FALSE] \in [Ids -> Download(Gens)]
    BY DEF Download
  <2>4. dn' \in [Ids -> Download(Gens)]
    BY <1>1, <2>3 DEF PassSkip
  <2> QED BY <1>1, <2>2, <2>4
          DEF PassSkip, TypeInv, TypeOK, Bounds, PassRequests, rules, client, life, Busy
<1>2. ASSUME NEW d \in Ids, PassBegin(g, d)
      PROVE  TypeInv'
  <2> DEFINE r == passes[g].req[d]
  <2>1. r \in Request
    BY <1>0, <1>2 DEF PassBegin, NextInPass, Pass
  <2>2. MayBegin(r) /\ jobs' = Begun(r)
    BY <1>2 DEF PassBegin
  <2>3. r.kind # "fail"
    BY <1>2 DEF PassBegin, NextInPass, TypeInv, PassRequests
  <2>4. jobs' \in [Ids -> Job \cup {NoJob}] /\ Busy(jobs) \subseteq Busy(jobs')
    BY <2>1, <2>2, <2>3, BegunType
  <2> QED BY <1>2, <2>4
          DEF PassBegin, TypeInv, TypeOK, Bounds, PassRequests, list, rules, client, life
<1>3. CASE PassEnd(g, ok)
  <2>1. passes' \in [Gens -> Pass]
    BY <1>0, <1>3, DeadPassType DEF PassEnd
  <2>2. dn' \in [Ids -> Download(Gens)] /\ disk' \in Store
    BY <1>3, ListTypes, PersistType DEF PassEnd
  <2>3. PassRequests'
    BY <1>0, <1>3, <1>a DEF PassEnd, PassRequests, TypeInv
  <2> QED BY <1>3, <2>1, <2>2, <2>3
          DEF PassEnd, TypeInv, TypeOK, Bounds, rules, client, life, Busy
<1>4. CASE PassAborts(g)
  <2>1. passes' \in [Gens -> Pass]
    BY <1>0, <1>4, DeadPassType DEF PassAborts
  <2>2. PassRequests'
    BY <1>0, <1>4, <1>a DEF PassAborts, PassRequests, TypeInv
  <2> QED BY <1>4, <2>1, <2>2
          DEF PassAborts, TypeInv, TypeOK, Bounds, list, rules, client, life, Busy
<1> QED BY <1>1, <1>2, <1>3, <1>4 DEF PassStep

\* The sampler.
LEMMA TickType ==
  ASSUME TypeInv, NEW b \in BOOLEAN, NEW ok \in BOOLEAN, Tick(b, ok)
  PROVE  TypeInv'
<1> USE TypeFacts, GenFacts
<1> DEFINE p  == [policy EXCEPT !.blocked = b]
           D1 == IF b # policy.blocked
                 THEN Schedule(p, items, SyncPlay(p, items, Busy(jobs), dn)) ELSE dn
           done == Arrived(p, D1)
           D2 == [d \in Ids |-> IF d \in done
                                THEN [D1[d] EXCEPT !.status = "verifying"] ELSE D1[d]]
<1>1. p \in Policy
  BY DEF Policy
<1>2. D1 \in [Ids -> Download(Gens)]
  BY <1>1, ListTypes
<1>3. D2 \in [Ids -> Download(Gens)]
  BY <1>2, StatusType DEF Statuses
<1>4. /\ policy' = p /\ dn' = D2
      /\ spawned' = spawned \cup {Req(d, "verify") : d \in done}
      /\ Persist(ok, items, D2) \/ UNCHANGED disk
  BY DEF Tick
<1>5. disk' \in Store
  BY <1>3, <1>4, PersistType
<1>6. spawned' \in SUBSET Request
  BY <1>4, ReqType DEF Arrived, Kinds, TypeInv, TypeOK
<1> HIDE DEF p, D2, done
<1> QED BY <1>1, <1>3, <1>4, <1>5, <1>6
        DEF Tick, TypeInv, TypeOK, Bounds, PassRequests, client, life, Busy

\* The settings.
LEMMA ApplySettingsType ==
  ASSUME TypeInv, NEW c \in Configs, NEW b \in BOOLEAN, NEW ok \in BOOLEAN,
         ApplySettings(c, b, ok)
  PROVE  TypeInv'
<1> USE TypeFacts, GenFacts
<1> DEFINE p  == [policy EXCEPT !.rate = c, !.blocked = b, !.max = c.max]
           turned == PlayHeld(p) # PlayHeld(policy) \/ b # policy.blocked
           D1 == IF turned THEN SyncPlay(p, items, Busy(jobs), dn) ELSE dn
           D2 == [d \in Ids |-> IF Found(d) THEN Applied(c, p, jobs[d] # NoJob, D1[d])
                                ELSE D1[d]]
           wanted == {d \in Range(items) : Reseeds(c, d)}
<1>1. c \in Config /\ p \in Policy
  BY ManagerConstants DEF Config, Policy
<1>2. D1 \in [Ids -> Download(Gens)]
  BY <1>1, ListTypes
<1>3. D2 \in [Ids -> Download(Gens)]
  BY <1>1, <1>2, AppliedType
<1>4. Schedule(p, items, D2) \in [Ids -> Download(Gens)]
  BY <1>1, <1>3, ListTypes
<1>5. /\ policy' = p /\ dn' = Schedule(p, items, D2) /\ Persist(ok, items, D2)
      /\ spawned' \subseteq spawned \cup
                     {[Req(d, "restore") EXCEPT !.complete = TRUE] : d \in wanted}
      /\ \/ resume' = resume
         \/ resume' = [resume EXCEPT !.ids = [d \in Ids |->
                         IF d \in wanted THEN Marked(resume, d, FALSE).ids[d] ELSE @[d]]]
  BY DEF ApplySettings
<1>6. disk' \in Store
  BY <1>3, <1>5, PersistType
<1>7. spawned' \in SUBSET Request
  <2>1. wanted \subseteq Ids
    BY DEF Range
  <2>2. \A d \in Ids : [Req(d, "restore") EXCEPT !.complete = TRUE] \in Request
    <3> SUFFICES ASSUME NEW d \in Ids
                 PROVE  [Req(d, "restore") EXCEPT !.complete = TRUE] \in Request
      OBVIOUS
    <3>1. Req(d, "restore") \in Request
      BY ReqType DEF Kinds
    <3> QED BY <3>1 DEF Request
  <2> QED BY <1>5, <2>1, <2>2 DEF TypeInv, TypeOK
<1>8. resume' \in Resuming
  <2>1. resume \in Resuming
    BY DEF TypeInv, TypeOK
  <2>2. \A d \in Ids : Marked(resume, d, FALSE).ids[d] \in Entry /\ resume.ids[d] \in Entry
    BY <2>1, MarkedType DEF Resuming
  <2>3. [d \in Ids |-> IF d \in wanted THEN Marked(resume, d, FALSE).ids[d]
                       ELSE resume.ids[d]] \in [Ids -> Entry]
    BY <2>2
  <2> HIDE DEF wanted
  <2> QED BY <1>5, <2>1, <2>3 DEF Resuming
<1>9. /\ notices' \subseteq Configs
      /\ asked' \in [Ids -> {"run", "pause", "stop"}]
  BY DEF ApplySettings, Unstopped, TypeInv, TypeOK
<1> HIDE DEF p, D1, D2, wanted
<1> QED BY <1>1, <1>4, <1>5, <1>6, <1>7, <1>8, <1>9
        DEF ApplySettings, TypeInv, TypeOK, Bounds, PassRequests, life, Busy

\* The goroutines that begin.
LEMMA GoroutineTypes ==
  ASSUME TypeInv, NEW ok \in BOOLEAN
  PROVE  /\ \A d \in Ids : Transfer(d) => TypeInv'
         /\ \A r \in spawned : FailSpawned(r, ok) => TypeInv'
         /\ \A r \in spawned : Begin(r) => TypeInv'
<1> USE TypeFacts, GenFacts
<1>0. \A r \in spawned : r \in Request /\ r.id \in Ids
  BY DEF TypeInv, TypeOK, Request
<1>1. ASSUME NEW d \in Ids, Transfer(d)
      PROVE  TypeInv'
  BY <1>1, TypeOfData DEF Transfer, Download, TypeInv, TypeOK
<1>2. ASSUME NEW r \in spawned, FailSpawned(r, ok)
      PROVE  TypeInv'
  <2>1. dn' \in [Ids -> Download(Gens)] /\ disk' \in Store
    BY <1>0, <1>2, MarkFailedType DEF FailSpawned
  <2> QED BY <1>2, <2>1
          DEF FailSpawned, TypeInv, TypeOK, Bounds, PassRequests, rules, client, life, Busy
<1>3. ASSUME NEW r \in spawned, Begin(r)
      PROVE  TypeInv'
  <2>1. jobs' \in [Ids -> Job \cup {NoJob}] /\ Busy(jobs) \subseteq Busy(jobs')
    BY <1>0, <1>3, BegunType DEF Begin, TypeInv, TypeOK
  <2> QED BY <1>3, <2>1
          DEF Begin, TypeInv, TypeOK, Bounds, PassRequests, list, rules, client, life
<1> QED BY <1>1, <1>2, <1>3

\* The client and its replacement, the end of the program.
LEMMA ClientTypes ==
  ASSUME TypeInv, NEW ok \in BOOLEAN,
         \/ RestoreStart \/ TeardownDetach \/ TeardownPark(ok)
         \/ TeardownDone \/ BringUp \/ Quit(ok)
  PROVE  TypeInv'
<1> USE TypeFacts, GenFacts
<1>0. /\ passes \in [Gens -> Pass] /\ jobs \in [Ids -> Job \cup {NoJob}]
      /\ resume \in Resuming
  BY DEF TypeInv, TypeOK
<1>a. ASSUME NEW g \in Gens, NEW S \in SUBSET Ids, NEW picked \in [S -> Request],
             \A d \in S : picked[d].kind = "restore",
             NEW c \in Config, passes' = [passes EXCEPT ![g] = NewPass(g, picked, c.seed)]
      PROVE  passes' \in [Gens -> Pass] /\ PassRequests'
  <2>1. c.seed \in BOOLEAN
    BY DEF Config
  <2> QED BY <1>0, NewPassType, <1>a, <2>1 DEF NewPass, PassRequests, TypeInv
<1>1. CASE RestoreStart
  <2>1. CASE HasClient
    <3> DEFINE picked == [d \in Range(items) |-> Snapshot(gen, 0, d, NoEntry)]
    <3>1. /\ Range(items) \in SUBSET Ids /\ picked \in [Range(items) -> Request]
          /\ \A d \in Range(items) : picked[d].kind = "restore"
      BY NoEntryType, SnapshotType DEF Snapshot
    <3>2. passes' = [passes EXCEPT ![0] = NewPass(0, picked, policy.saved.seed)]
      BY <1>1, <2>1 DEF RestoreStart
    <3> HIDE DEF picked
    <3>3. policy.saved \in Config
      BY DEF TypeInv, TypeOK, Policy
    <3>4. passes' \in [Gens -> Pass] /\ PassRequests'
      BY <1>a, <3>1, <3>2, <3>3
    <3> QED BY <1>1, <2>1, <3>4
            DEF RestoreStart, TypeInv, TypeOK, Bounds, list, rules, life, Busy
  <2>2. CASE ~HasClient
    <3>1. [NoResume EXCEPT !.all = TRUE] \in Resuming
      BY NoEntryType DEF Resuming
    <3> QED BY <1>1, <2>2, <3>1
            DEF RestoreStart, TypeInv, TypeOK, Bounds, PassRequests, list, rules, life, Busy
  <2> QED BY <2>1, <2>2
<1>2. CASE TeardownDetach
  <2>1. gen' \in Gens
    BY <1>2, ManagerConstants DEF TeardownDetach, TypeInv, Bounds, Gens
  <2>2. resume' \in Resuming
    BY <1>2, NoEntryType DEF TeardownDetach, Resuming, Entry
  <2>3. dn' \in [Ids -> Download(Gens)]
    BY <1>2, RecordTypes DEF TeardownDetach
  <2>4. awaited' = Busy(jobs) /\ verified' = {} /\ net' = "parking"
    BY <1>2 DEF TeardownDetach
  <2> QED BY <1>2, <2>1, <2>2, <2>3, <2>4
          DEF TeardownDetach, TypeInv, TypeOK, Bounds, PassRequests, rules, life, Busy, Nets
<1>3. CASE TeardownPark(ok)
  <2>1. \A d \in awaited : [jobs[d] EXCEPT !.cancelled = TRUE] \in Job \ {NoJob}
    BY <1>0 DEF TypeInv, TypeOK, Bounds, Busy, Job, NoJob, Phases
  <2>2. jobs' \in [Ids -> Job \cup {NoJob}] /\ Busy(jobs') = Busy(jobs)
    BY <1>0, <1>3, <2>1 DEF TypeInv, Bounds, TeardownPark, Busy
  <2>3. \A r \in Download(Gens) : Parked(r) \in Download(Gens)
    BY DEF Parked, Download, Statuses
  <2>4. [d \in Ids |-> IF Found(d) THEN Parked(dn[d]) ELSE dn[d]]
          \in [Ids -> Download(Gens)]
    BY <2>3
  <2>5. dn' \in [Ids -> Download(Gens)] /\ disk' \in Store
    BY <1>3, <2>4, PersistType DEF TeardownPark
  <2> QED BY <1>3, <2>2, <2>5
          DEF TeardownPark, TypeInv, TypeOK, Bounds, PassRequests, rules, life, Busy, Nets
<1>4. CASE TeardownDone
  BY <1>4 DEF TeardownDone, TypeInv, TypeOK, Bounds, PassRequests, list, rules, work, life,
              Busy, Nets
<1>5. CASE BringUp
  <2>1. gen + 1 \in Gens /\ gen' = gen + 1
    BY <1>5, ManagerConstants DEF BringUp, Gens
  <2>2. passes' \in [Gens -> Pass] /\ PassRequests'
    <3> DEFINE how(d) == [resume.ids[d] EXCEPT !.trusted = @ /\ ~resume.all]
               picked == [d \in Picked |-> Snapshot(gen + 1, gen + 1, d, how(d))]
    <3>1. Picked \in SUBSET Ids
      BY DEF Picked
    <3>2. \A d \in Ids : how(d) \in Entry
      BY ZenonT(60), <1>0 DEF Resuming, Entry
    <3>3. /\ picked \in [Picked -> Request]
          /\ \A d \in Picked : picked[d].kind = "restore"
      <4> HIDE DEF how
      <4>1. \A d \in Picked : Snapshot(gen + 1, gen + 1, d, how(d)) \in Request
        BY <2>1, <3>1, <3>2, SnapshotType
      <4>2. \A d \in Picked : Snapshot(gen + 1, gen + 1, d, how(d)).kind = "restore"
        BY DEF Snapshot
      <4> QED BY <4>1, <4>2
    <3>4. \/ passes' = passes
          \/ \E c \in Configs : passes' = [passes EXCEPT ![gen + 1] = NewPass(gen + 1, picked, c.seed)]
      BY <1>5 DEF BringUp
    <3> HIDE DEF picked
    <3>5. CASE passes' = passes
      BY <1>0, <3>5 DEF PassRequests, TypeInv
    <3> QED BY ManagerConstants, <1>a, <2>1, <3>1, <3>3, <3>4, <3>5
  <2> QED BY <1>5, <2>1, <2>2, NoEntryType
          DEF BringUp, TypeInv, TypeOK, Bounds, list, rules, life, Busy, Nets
<1>6. CASE Quit(ok)
  <2> DEFINE st == IF ok THEN Image(items, dn) ELSE disk
  <2>1. st \in Store
    BY ImageType
  <2>2. restarts < MaxRestarts /\ Restarted(st)
    BY <1>6 DEF Quit, TypeInv, Bounds
  <2> QED BY <2>1, <2>2, RestartedType
<1> QED BY <1>1, <1>2, <1>3, <1>4, <1>5, <1>6

\* The first start.
LEMMA InitTypes == Init => TypeInv
<1> SUFFICES ASSUME Init PROVE TypeInv
  OBVIOUS
<1> USE GenFacts, ManagerConstants
<1>1. disk \in Store
  BY DEF Init
<1>2. items \in Seq(Ids) /\ dn \in [Ids -> Download(Gens)]
  BY <1>1, LoadedType DEF Init, Booted
<1>3. PICK c \in Configs, b \in BOOLEAN :
        policy = [saved |-> c, rate |-> c, max |-> c.max, blocked |-> b, gaming |-> FALSE]
  BY DEF Init
<1>4. policy \in Policy
  BY <1>3 DEF Config, Policy
<1>5. /\ passes \in [Gens -> Pass]
      /\ \A g \in Gens, d \in Ids : passes[g].req[d] = NoRequest
  BY DeadPassType DEF Init, Booted, DeadPass, NoReqs
<1>6. /\ net \in {"up", "down"} /\ gen \in Gens /\ booting \in BOOLEAN
      /\ resume \in Resuming
  BY NoEntryType DEF Resuming, Init, Booted
<1>7. /\ jobs \in [Ids -> Job \cup {NoJob}] /\ spawned = {} /\ awaited = {}
      /\ verified = {} /\ closing = FALSE /\ notices = {} /\ restarts = 0
      /\ asked \in [Ids -> {"run", "pause", "stop"}]
  BY DEF Init, Booted
<1> QED BY <1>1, <1>2, <1>4, <1>5, <1>6, <1>7
        DEF TypeInv, TypeOK, Bounds, PassRequests, Nets

\* Every step.
LEMMA NextTypes == TypeInv /\ [Next]_vars => TypeInv'
<1> SUFFICES ASSUME TypeInv, [Next]_vars PROVE TypeInv'
  OBVIOUS
<1>1. CASE Environment
  BY <1>1, EnvironmentTypes
<1>2. ASSUME NEW ok \in BOOLEAN, Requests(ok)
      PROVE  TypeInv'
  BY <1>2, RequestTypes
<1>3. ASSUME NEW ok \in BOOLEAN, Background(ok)
      PROVE  TypeInv'
  BY <1>3, TickType, ApplySettingsType, GoroutineTypes, JobStepTypes, PassStepTypes,
     ClientTypes DEF Background
<1>4. CASE UNCHANGED vars
  BY <1>4 DEF vars, list, rules, work, client, life, TypeInv, TypeOK, Bounds,
              PassRequests, Busy
<1> QED BY <1>1, <1>2, <1>3, <1>4 DEF Next

\* Every value the manager keeps, in memory and on disk, is one its handlers
\* and the next start can read, in every behaviour.
THEOREM TypeCorrect == Spec => []TypeOK
<1>1. Init => TypeInv
  BY InitTypes
<1>2. TypeInv /\ [Next]_vars => TypeInv'
  BY NextTypes
<1>3. TypeInv => TypeOK
  BY DEF TypeInv
<1> QED BY <1>1, <1>2, <1>3, PTL DEF Spec

\* Every reachable state, in the form the other proofs cite.
LEMMA TypeInvariant == Spec => []TypeInv
BY InitTypes, NextTypes, PTL DEF Spec
-----------------------------------------------------------------------------
(* HeldMovesNoData.  A gate can be left open in two ways: by a handler that *)
(* opens it while something holds the download back, and by one that starts *)
(* to hold it back without reaching its torrent.  syncPlayLocked only sees  *)
(* the downloads that are in the list and have a torrent, so an open gate   *)
(* must always belong to one of those: that is the strengthening.           *)

HeldInv == HeldClosed(policy, items, dn)

\* A step that opens no gate, moves no torrent away from an open one and leaves
\* what holds downloads back as it is.
LEMMA ClosedStays ==
  ASSUME NEW p, NEW p2, NEW q, NEW q2, NEW D, NEW E, HeldClosed(p, q, D),
         p2.blocked = p.blocked, p2.gaming = p.gaming, p2.rate = p.rate,
         \A d \in Ids : E[d].dl => /\ D[d].dl
                                   /\ E[d].engine # 0
                                   /\ E[d].ignore = D[d].ignore
                                   /\ d \in Range(q) => d \in Range(q2)
  PROVE  HeldClosed(p2, q2, E)
<1> SUFFICES ASSUME NEW d \in Ids, E[d].dl
             PROVE  E[d].engine # 0 /\ d \in Range(q2) /\ ~Held(p2, E[d])
  BY DEF HeldClosed, Moves
<1>1. D[d].dl /\ d \in Range(q) /\ ~Held(p, D[d])
  BY DEF HeldClosed, Moves
<1>2. ~Held(p, E[d])
  BY <1>1, HeldDepends
<1>3. ~Held(p2, E[d])
  BY <1>2 DEF Held, PlayHeld, SchedHeld
<1> QED BY <1>1, <1>3

\* A request that ends with schedule() or puts everything back.
LEMMA CommitCloses ==
  ASSUME TypeInv, NEW ok \in BOOLEAN, NEW D \in [Ids -> Download(Gens)], NEW E,
         HeldClosed(policy, items, D), HeldClosed(policy, items, E), Commit(ok, D, E)
  PROVE  HeldClosed(policy, items, dn')
BY TypeFacts, ScheduleKeepsClosed DEF Commit

\* Taking one download out of the list leaves the others in it.
LEMMA RemoveKeeps ==
  ASSUME NEW q \in Seq(Ids), NEW i \in DOMAIN q, NEW d \in Range(q), d # q[i]
  PROVE  d \in Range(RemoveAt(q, i))
<1> DEFINE a == SubSeq(q, 1, i - 1)
           b == SubSeq(q, i + 1, Len(q))
<1>1. PICK k \in 1..Len(q) : d = q[k]
  BY DEF Range
<1>2. i \in 1..Len(q) /\ k # i
  BY <1>1
<1>3. a \in Seq(Ids) /\ Len(a) = i - 1 /\ \A n \in 1..i-1 : a[n] = q[n]
  BY <1>2, SubSeqProperties
<1>4. /\ b \in Seq(Ids) /\ Len(b) = Len(q) - i
      /\ \A n \in 1..Len(q)-i : b[n] = q[i + n]
  BY <1>2, SubSeqProperties
<1> HIDE DEF a, b
<1>5. d \in Range(a) \/ d \in Range(b)
  <2>1. CASE k < i
    BY <1>1, <1>3, <2>1 DEF Range
  <2>2. CASE k > i
    <3>1. k - i \in DOMAIN b /\ b[k - i] = d
      BY <1>1, <1>2, <1>4, <2>2
    <3> QED BY <3>1 DEF Range
  <2> QED BY <1>2, <2>1, <2>2
<1>6. RemoveAt(q, i) = a \o b
  BY DEF RemoveAt, a, b
<1> QED BY <1>3, <1>4, <1>5, <1>6, RangeConcatenation

\* Exchanging two downloads leaves all of them in the list.
LEMMA ExchangeKeeps ==
  ASSUME NEW q \in Seq(Ids), NEW i \in DOMAIN q, NEW j \in DOMAIN q,
         NEW d \in Range(q)
  PROVE  d \in Range([q EXCEPT ![i] = q[j], ![j] = q[i]])
<1> DEFINE x == [q EXCEPT ![i] = q[j], ![j] = q[i]]
<1>1. PICK k \in DOMAIN q : d = q[k]
  BY DEF Range
<1>2. DOMAIN x = DOMAIN q
  OBVIOUS
<1>3. \E n \in DOMAIN x : x[n] = d
  BY <1>1
<1> QED BY <1>3 DEF Range

\* The requests of the user.
LEMMA HeldRequests ==
  ASSUME TypeInv, HeldInv, NEW ok \in BOOLEAN, Requests(ok)
  PROVE  HeldInv'
<1> USE TypeFacts, GenFacts DEF HeldInv
<1>1. ASSUME NEW d \in Ids, Add(d, ok)
      PROVE  HeldInv'
  <2> DEFINE q == Append(items, d)
             D == [dn EXCEPT ![d] = Attached(@, gen)]
  <2>1. q \in Seq(Ids) /\ D \in [Ids -> Download(Gens)]
    BY RecordTypes, AppendProperties
  <2>2. \A e \in Range(items) : e \in Range(q)
    BY AppendProperties DEF Range
  <2>3. D[d].dl = FALSE
    BY DEF Attached, Download
  <2>4. HeldClosed(policy, q, D)
    BY <2>2, <2>3, ClosedStays DEF HeldClosed, Moves
  <2>5. HeldClosed(policy, q, Schedule(policy, q, D))
    BY <2>1, <2>4, ScheduleKeepsClosed
  <2> QED BY <1>1, <2>5 DEF Add, rules
<1>2. ASSUME NEW d \in Ids, AddTask(d, ok)
      PROVE  HeldInv'
  BY <1>2, AppendProperties DEF Range, AddTask, rules, HeldClosed, Moves
<1>3. ASSUME NEW d \in Ids, Pause(d, ok)
      PROVE  HeldInv'
  <2> DEFINE D == [dn EXCEPT ![d] = Gated([@ EXCEPT !.status = "paused"])]
  <2>1. [dn[d] EXCEPT !.status = "paused"] \in Download(Gens)
    BY DEF Download, Statuses
  <2>2. D \in [Ids -> Download(Gens)] /\ D[d].dl = FALSE
    BY <2>1, RecordTypes DEF Gated, Download
  <2>3. HeldClosed(policy, items, D)
    BY <2>2 DEF HeldClosed, Moves
  <2>4. HeldClosed(policy, items, dn')
    BY <1>3, <2>2, <2>3, CommitCloses DEF Pause
  <2> QED BY <1>3, <2>4 DEF Pause, rules
<1>4. ASSUME NEW d \in Ids, NEW force \in BOOLEAN, dn[d].engine = 0,
             QueueWhileDown(d, force, ok) \/ Reattach(d, force, ok)
      PROVE  HeldInv'
  <2>1. /\ UNCHANGED <<items, policy>>
        /\ \/ dn' = dn
           \/ dn' = [dn EXCEPT ![d].status = "queued"]
           \/ dn' = [dn EXCEPT ![d].status = "verifying"]
    BY <1>4 DEF QueueWhileDown, Reattach, rules
  <2>2. \A e \in Ids : dn'[e].dl = dn[e].dl /\ dn'[e].engine = dn[e].engine
                       /\ dn'[e].ignore = dn[e].ignore
    BY <2>1 DEF Download
  <2>3. \A e \in Ids : dn'[e].dl => dn'[e].engine # 0
    BY <2>2 DEF HeldClosed, Moves
  <2>4. HeldClosed(policy, items, dn')
    BY <2>2, <2>3, ClosedStays
  <2> QED BY <2>1, <2>4
<1>5. ASSUME NEW d \in Ids, Resume(d, ok)
      PROVE  HeldInv'
  <2>1. CASE dn[d].engine = 0 /\ (QueueWhileDown(d, FALSE, ok) \/ Reattach(d, FALSE, ok))
    BY <1>4, <2>1
  <2>2. CASE /\ Commit(ok, [dn EXCEPT ![d].status = "queued"], dn)
             /\ UNCHANGED <<items, verified, rules, work, client, life>>
    <3> DEFINE D == [dn EXCEPT ![d].status = "queued"]
    <3>1. D \in [Ids -> Download(Gens)]
      BY DEF Download, Statuses
    <3>2. \A e \in Ids : /\ D[e].dl = dn[e].dl /\ D[e].engine = dn[e].engine
                         /\ D[e].ignore = dn[e].ignore
      BY DEF Download
    <3>3. \A e \in Ids : D[e].dl => D[e].engine # 0
      BY <3>2 DEF HeldClosed, Moves
    <3> HIDE DEF D
    <3>4. HeldClosed(policy, items, D)
      BY <3>2, <3>3, ClosedStays
    <3>5. HeldClosed(policy, items, dn')
      BY <2>2, <3>1, <3>4, CommitCloses DEF D
    <3> QED BY <2>2, <3>5 DEF rules
  <2> QED BY <1>5, <2>1, <2>2 DEF Resume
<1>6. ASSUME NEW d \in Ids, ForceStart(d, ok)
      PROVE  HeldInv'
  <2>1. CASE dn[d].engine = 0
    BY <1>4, <1>6, <2>1 DEF ForceStart
  <2>2. CASE dn[d].engine # 0
    <3> DEFINE r == Forced(policy, dn[d])
               D == [dn EXCEPT ![d] = r]
               E == [dn EXCEPT ![d].dl = r.dl, ![d].ul = r.ul]
    <3>1. /\ r.engine = dn[d].engine /\ r.ignore = dn[d].ignore
          /\ r.dl <=> dn[d].dl \/ ~Held(policy, dn[d])
      <4>1. Held(policy, [dn[d] EXCEPT !.status = "queued"]) <=> Held(policy, dn[d])
        BY HeldDepends DEF Download
      <4> QED BY <2>2, <4>1 DEF Forced, Started, Download
    <3>2. d \in Range(items) /\ UNCHANGED <<items, policy>> /\ (dn' = D \/ dn' = E)
      BY <1>6, <2>2 DEF ForceStart, Found, QueueWhileDown, Reattach, rules
    <3>3. ~Held(policy, dn[d]) \/ (~r.dl /\ ~dn[d].dl)
      BY <3>1 DEF HeldClosed
    <3>4. ~Held(policy, r) <=> ~Held(policy, dn[d])
      BY <3>1, HeldDepends
    <3>5. HeldClosed(policy, items, D)
      BY <2>2, <3>1, <3>2, <3>3, <3>4 DEF HeldClosed, Moves
    <3>6. HeldClosed(policy, items, E)
      <4>1. /\ E[d].engine = dn[d].engine /\ E[d].ignore = dn[d].ignore
            /\ E[d].dl = r.dl
        BY DEF Download
      <4>2. \A e \in Ids : e # d => E[e] = dn[e]
        OBVIOUS
      <4> HIDE DEF E, r
      <4>3. ~Held(policy, E[d]) <=> ~Held(policy, dn[d])
        BY <4>1, HeldDepends
      <4> QED BY <2>2, <3>2, <3>3, <4>1, <4>2, <4>3 DEF HeldClosed, Moves
    <3> QED BY <3>2, <3>5, <3>6
  <2> QED BY <2>1, <2>2
<1>7. ASSUME NEW d \in Ids, DownloadNow(d, ok)
      PROVE  HeldInv'
  <2> DEFINE D == [dn EXCEPT ![d].ignore = TRUE]
             S == SyncPlay(policy, items, Busy(jobs), D)
  <2>1. D \in [Ids -> Download(Gens)]
    BY DEF Download
  <2>2. \A e \in Ids : D[e].dl = dn[e].dl /\ D[e].engine = dn[e].engine
    BY DEF Download
  <2>3. Moves(items, D)
    BY <2>2 DEF HeldClosed, Moves
  <2>4. HeldClosed(policy, items, S) /\ S \in [Ids -> Download(Gens)]
    BY <2>1, <2>3, SyncPlayCloses, ListTypes
  <2>5. HeldClosed(policy, items, Schedule(policy, items, S))
    BY <2>4, ScheduleKeepsClosed
  <2> QED BY <1>7, <2>5 DEF DownloadNow, rules
<1>8. ASSUME NEW d \in Ids, StopSeeding(d, ok)
      PROVE  HeldInv'
  <2> DEFINE D == [dn EXCEPT ![d] = Detached([@ EXCEPT !.seeding = FALSE])]
  <2>1. D[d].dl = FALSE
    BY DEF Detached, Download
  <2>2. HeldClosed(policy, items, D)
    BY <2>1 DEF HeldClosed, Moves
  <2>3. dn' = dn \/ dn' = D
    BY <1>8 DEF StopSeeding
  <2> QED BY <1>8, <2>2, <2>3 DEF StopSeeding, rules
<1>9. ASSUME NEW i \in DOMAIN items, NEW j \in DOMAIN items, Move(i, j, ok)
      PROVE  HeldInv'
  BY <1>9, ExchangeKeeps DEF Move, rules, HeldClosed, Moves
<1>10. ASSUME NEW i \in DOMAIN items, Drop(i, ok), ok
       PROVE  /\ HeldClosed(policy', items', [dn EXCEPT ![items[i]] = Gone])
              /\ [dn EXCEPT ![items[i]] = Gone] \in [Ids -> Download(Gens)]
              /\ items' \in Seq(Ids) /\ policy' = policy
  <2> DEFINE D == [dn EXCEPT ![items[i]] = Gone]
  <2>1. items' = RemoveAt(items, i) /\ policy' = policy
    BY <1>10 DEF Drop, rules
  <2>2. \A d \in Range(items) : d # items[i] => d \in Range(items')
    BY <2>1, RemoveKeeps
  <2>3. D[items[i]].dl = FALSE
    BY DEF Gone, Fresh
  <2>4. HeldClosed(policy, items', D)
    BY <2>2, <2>3 DEF HeldClosed, Moves
  <2> QED BY <1>10, <2>1, <2>4, FreshType, DropType
<1>11. ASSUME NEW i \in DOMAIN items, Drop(i, ok), ~ok, dn' = dn
       PROVE  HeldInv'
  BY <1>11 DEF Drop, rules
<1>12. ASSUME NEW i \in DOMAIN items, Discard(i, ok)
       PROVE  HeldInv'
  <2> DEFINE D == [dn EXCEPT ![items[i]] = Gone]
  <2>1. CASE ok
    BY <1>10, <1>12, <2>1, ScheduleKeepsClosed DEF Discard
  <2>2. CASE ~ok
    BY <1>11, <1>12, <2>2 DEF Discard
  <2> QED BY <2>1, <2>2
<1>13. ASSUME NEW i \in DOMAIN items, StopAndWait(i, ok)
       PROVE  HeldInv'
  BY <1>10, <1>11, <1>13 DEF StopAndWait
<1> QED
  BY <1>1, <1>2, <1>3, <1>5, <1>6, <1>7, <1>8, <1>9, <1>12, <1>13 DEF Requests

\* The steps that leave the downloads, the list and the policy alone.
LEMMA HeldUnchanged ==
  ASSUME HeldInv, UNCHANGED <<items, dn, policy>>
  PROVE  HeldInv'
BY DEF HeldInv

\* After a start no torrent has been attached yet.
LEMMA HeldRestarted ==
  ASSUME NEW st, Restarted(st)
  PROVE  HeldInv'
BY DEF Restarted, Loaded, HeldInv, HeldClosed, Moves

\* What happens around the manager.
LEMMA HeldEnvironment ==
  ASSUME TypeInv, HeldInv, Environment
  PROVE  HeldInv'
<1> USE TypeFacts, GenFacts
<1>1. ASSUME NEW d \in Ids, StopSeedingJob(d) \/ WriteError(d)
      PROVE  HeldInv'
  BY <1>1, HeldUnchanged DEF StopSeedingJob, WriteError, list, rules
<1>2. ASSUME NEW b \in BOOLEAN, SetGamesRunning(b)
      PROVE  HeldInv'
  BY <1>2, SyncPlayCloses DEF SetGamesRunning, Policy, HeldInv, HeldClosed
<1>3. ASSUME NEW c \in Configs, SaveSettings(c)
      PROVE  HeldInv'
  <2>1. /\ policy'.blocked = policy.blocked /\ policy'.gaming = policy.gaming
        /\ policy'.rate = policy.rate
    BY <1>3 DEF SaveSettings, Policy
  <2>2. HeldClosed(policy', items, dn)
    BY <2>1, ClosedStays DEF HeldInv, HeldClosed, Moves
  <2> QED BY <1>3, <2>2 DEF SaveSettings, HeldInv, list
<1>4. CASE SwitchNetwork
  BY <1>4, HeldUnchanged DEF SwitchNetwork, list, rules
<1>5. CASE Close
  BY <1>5, HeldUnchanged DEF Close, list, rules
<1>6. CASE Crash
  BY <1>6, HeldRestarted DEF Crash
<1> QED BY <1>1, <1>2, <1>3, <1>4, <1>5, <1>6 DEF Environment

\* A download that failed.
LEMMA HeldMarkFailed ==
  ASSUME TypeInv, HeldInv, NEW d \in Ids, NEW ok \in BOOLEAN, MarkFailed(d, ok)
  PROVE  HeldClosed(policy, items, dn')
<1> USE TypeFacts, GenFacts
<1> DEFINE D == Failed(d, dn)
<1>1. [dn[d] EXCEPT !.status = "failed"] \in Download(Gens)
  BY DEF Download, Statuses
<1>2. D \in [Ids -> Download(Gens)] /\ D[d].dl = FALSE
  BY <1>1, RecordTypes DEF Failed, Gated, Download
<1>3. \A e \in Ids : e # d => D[e] = dn[e]
  BY DEF Failed
<1> HIDE DEF D
<1>4. HeldClosed(policy, items, D)
  BY <1>2, <1>3 DEF HeldInv, HeldClosed, Moves
<1>5. HeldClosed(policy, items, Schedule(policy, items, D))
  BY <1>2, <1>4, ScheduleKeepsClosed
<1> QED BY <1>5 DEF MarkFailed, HeldInv, D

\* The end of settleRestored, on a download that is in the list.
LEMMA HeldFinish ==
  ASSUME TypeInv, NEW d \in Ids, Found(d), jobs[d] # NoJob, NEW ok \in BOOLEAN,
         NEW D \in [Ids -> Download(Gens)], HeldClosed(policy, items, D),
         Finish(d, D, ok)
  PROVE  HeldClosed(policy, items, dn')
<1> USE TypeFacts, GenFacts
<1> DEFINE r == jobs[d].req
           new == CASE r.paused  -> Gated([D[d] EXCEPT !.status = "paused"])
                    [] ~r.paused /\ r.force  -> Forced(policy, D[d])
                    [] ~r.paused /\ ~r.force -> [D[d] EXCEPT !.status = "queued"]
           D1 == [D EXCEPT ![d] = new]
<1>1. /\ [D[d] EXCEPT !.status = "paused"] \in Download(Gens)
      /\ [D[d] EXCEPT !.status = "queued"] \in Download(Gens)
  BY StatusType DEF Statuses
<1>2. new \in Download(Gens)
  BY <1>1, RecordTypes
<1>3. new.dl => new.engine # 0 /\ ~Held(policy, new)
  <2>1. CASE r.paused
    BY <1>1, <2>1 DEF Gated, Download
  <2>2. CASE ~r.paused /\ r.force
    <3> DEFINE s == [D[d] EXCEPT !.status = "queued"]
    <3>1. new = IF D[d].engine = 0 THEN s ELSE Started(policy, s)
      BY <2>2 DEF Forced
    <3>2. /\ s.dl = D[d].dl /\ s.engine = D[d].engine /\ s.ignore = D[d].ignore
      BY DEF Download
    <3>3. Held(policy, s) <=> Held(policy, D[d])
      BY <3>2, HeldDepends
    <3>4. D[d].dl => D[d].engine # 0 /\ ~Held(policy, D[d])
      BY DEF HeldClosed, Moves
    <3> HIDE DEF s
    <3>5. CASE D[d].engine = 0
      BY <3>1, <3>2, <3>3, <3>4, <3>5
    <3>6. CASE D[d].engine # 0
      <4>1. s \in Download(Gens)
        BY <1>1 DEF s
      <4>2. new = Started(policy, s)
        BY <3>1, <3>6
      <4>3. /\ new.engine = s.engine /\ new.ignore = s.ignore
            /\ new.dl <=> s.dl \/ ~Held(policy, s)
        BY <4>1, <4>2 DEF Started, Download
      <4> HIDE DEF new
      <4>4. Held(policy, new) <=> Held(policy, s)
        BY <4>3, HeldDepends
      <4> QED BY <3>2, <3>3, <3>4, <3>6, <4>3, <4>4
    <3> QED BY <3>5, <3>6
  <2>3. CASE ~r.paused /\ ~r.force
    <3>1. /\ new.dl = D[d].dl /\ new.engine = D[d].engine /\ new.ignore = D[d].ignore
      BY <2>3 DEF Download
    <3> HIDE DEF new
    <3>2. Held(policy, new) <=> Held(policy, D[d])
      BY <3>1, HeldDepends
    <3> QED BY <3>1, <3>2 DEF HeldClosed, Moves
  <2>4. r.paused \in BOOLEAN /\ r.force \in BOOLEAN
    BY JobFacts DEF Request
  <2> QED BY <2>1, <2>2, <2>3, <2>4
<1>4. dn' = Schedule(policy, items, D1)
  BY DEF Finish
<1> HIDE DEF new
<1>5. D1 \in [Ids -> Download(Gens)]
  BY <1>2
<1>6. HeldClosed(policy, items, D1)
  BY <1>3 DEF HeldClosed, Moves, Found
<1> QED BY <1>4, <1>5, <1>6, ScheduleKeepsClosed

\* The jobs.
LEMMA HeldJobStep ==
  ASSUME TypeInv, HeldInv, NEW d \in Ids, NEW ok \in BOOLEAN, JobStep(d, ok)
  PROVE  HeldInv'
<1> USE TypeFacts, GenFacts
<1>0. ASSUME NEW E, \A e \in Ids : E[e] = dn[e] \/ ~E[e].dl
      PROVE  HeldClosed(policy, items, E)
  BY <1>0 DEF HeldInv, HeldClosed, Moves
<1>a. ASSUME NEW s \in Statuses, NEW b \in BOOLEAN, NEW E,
             E = [dn EXCEPT ![d].status = s] \/ E = [dn EXCEPT ![d].seeding = b]
      PROVE  HeldClosed(policy, items, E)
  <2>1. \A e \in Ids : /\ E[e].dl = dn[e].dl /\ E[e].engine = dn[e].engine
                       /\ E[e].ignore = dn[e].ignore
    <3>1. CASE E = [dn EXCEPT ![d].status = s]
      BY <3>1 DEF Download
    <3>2. CASE E = [dn EXCEPT ![d].seeding = b]
      BY <3>2 DEF Download
    <3> QED BY <1>a, <3>1, <3>2
  <2>2. \A e \in Ids : E[e].dl => E[e].engine # 0
    BY <2>1 DEF HeldInv, HeldClosed, Moves
  <2> QED BY <2>1, <2>2, ClosedStays DEF HeldInv
<1>1. CASE Attach(d)
  BY <1>1, <1>a DEF Statuses, Attach, HeldInv, rules
<1>2. CASE AttachFails(d, ok)
  BY <1>2, <1>a, HeldMarkFailed DEF Statuses, AttachFails, RestoreFailed, HeldInv, rules
<1>3. CASE GotInfo(d)
  BY <1>3, HeldUnchanged DEF GotInfo, list, rules
<1>4. CASE Settle(d, ok)
  <2>1. UNCHANGED <<items, policy>> /\ jobs[d] # NoJob
    BY <1>4 DEF Settle, At, rules
  <2>2. Attached(dn[d], gen) \in Download(Gens) /\ ~Attached(dn[d], gen).dl
    <3>1. Attached(dn[d], gen) \in Download(Gens)
      BY RecordTypes
    <3>2. ~Attached(dn[d], gen).dl
      BY DEF Attached, Download
    <3> QED BY <3>1, <3>2
  <2>3. CASE dn' = dn
    BY <2>1, <2>3 DEF HeldInv
  <2>4. CASE dn' = [dn EXCEPT ![d] = [Attached(@, gen) EXCEPT !.status = "verifying"]]
    BY <1>0, <2>1, <2>2, <2>4 DEF Download, HeldInv
  <2>5. CASE FinishSeed(d, ok)
    <3> DEFINE r == [Attached(dn[d], gen) EXCEPT !.seeding = policy.saved.seed]
               x == IF policy.saved.seed THEN AllowUpload(policy, r) ELSE Detached(r)
    <3>1. r \in Download(Gens) /\ ~r.dl
      BY <2>2 DEF Policy, Config, Download
    <3> HIDE DEF r
    <3>2. ~x.dl
      BY <3>1 DEF AllowUpload, Detached, Download
    <3> HIDE DEF x
    <3>3. dn' = [dn EXCEPT ![d] = x]
      BY <2>5 DEF FinishSeed, x, r
    <3>4. HeldClosed(policy, items, dn')
      BY <1>0, <3>2, <3>3
    <3> QED BY <2>1, <3>4 DEF HeldInv
  <2>6. CASE ~Superseded(d) /\ Finish(d, [dn EXCEPT ![d] = Attached(@, gen)], ok)
    <3> DEFINE D == [dn EXCEPT ![d] = Attached(@, gen)]
    <3>1. D \in [Ids -> Download(Gens)] /\ ~D[d].dl
      BY <2>2
    <3>2. HeldClosed(policy, items, D)
      BY <1>0, <2>2
    <3>3. Found(d)
      BY <2>6 DEF Superseded
    <3> HIDE DEF D
    <3>4. Finish(d, D, ok)
      BY <2>6 DEF D
    <3>5. HeldClosed(policy, items, dn')
      BY <2>1, <3>1, <3>2, <3>3, <3>4, HeldFinish
    <3> QED BY <2>1, <3>5 DEF HeldInv
  <2> QED BY <1>4, <2>3, <2>4, <2>5, <2>6 DEF Settle
<1>5. CASE Check(d, ok)
  BY <1>5, HeldFinish DEF Check, HeldInv, rules, At, Superseded
<1>6. CASE VerifyPasses(d, ok)
  <2> DEFINE D == [dn EXCEPT ![d] = Completed(@)]
  <2>1. D \in [Ids -> Download(Gens)]
    BY CompletedType
  <2>2. ~Completed(dn[d]).dl
    BY DEF HeldInv, HeldClosed, Moves, Completed, AllowUpload, Detached, Download
  <2>3. HeldClosed(policy, items, D)
    BY <1>0, <2>2
  <2>4. HeldClosed(policy, items, Schedule(policy, items, D))
    BY <2>1, <2>3, ScheduleKeepsClosed
  <2> QED BY <1>6, <2>4 DEF VerifyPasses, HeldInv, rules
<1>7. CASE VerifyFails(d, ok)
  BY <1>7, HeldMarkFailed DEF VerifyFails, HeldInv, rules
<1>8. CASE EndJob(d)
  BY <1>8, HeldUnchanged DEF EndJob, list, rules
<1> QED BY <1>1, <1>2, <1>3, <1>4, <1>5, <1>6, <1>7, <1>8 DEF JobStep

\* The passes.
LEMMA HeldPassStep ==
  ASSUME TypeInv, HeldInv, NEW g \in Gens, NEW ok \in BOOLEAN, PassStep(g, ok)
  PROVE  HeldInv'
<1> USE TypeFacts, GenFacts
<1>1. ASSUME NEW d \in Ids, PassSkip(g, d)
      PROVE  HeldInv'
  <2>1. \A e \in Ids : /\ dn'[e].dl = dn[e].dl /\ dn'[e].engine = dn[e].engine
                       /\ dn'[e].ignore = dn[e].ignore
    BY <1>1 DEF PassSkip, Download
  <2>2. \A e \in Ids : dn'[e].dl => dn'[e].engine # 0
    BY <2>1 DEF HeldInv, HeldClosed, Moves
  <2>3. HeldClosed(policy, items, dn')
    BY <2>1, <2>2, ClosedStays DEF HeldInv
  <2> QED BY <1>1, <2>3 DEF PassSkip, HeldInv, rules
<1>2. ASSUME NEW d \in Ids, PassBegin(g, d)
      PROVE  HeldInv'
  BY <1>2, HeldUnchanged DEF PassBegin, list, rules
<1>3. CASE PassEnd(g, ok)
  BY <1>3, ScheduleKeepsClosed DEF PassEnd, HeldInv, rules
<1>4. CASE PassAborts(g)
  BY <1>4, HeldUnchanged DEF PassAborts, list, rules
<1> QED BY <1>1, <1>2, <1>3, <1>4 DEF PassStep

\* The sampler: it closes the gates before it schedules.
LEMMA HeldTick ==
  ASSUME TypeInv, HeldInv, NEW b \in BOOLEAN, NEW ok \in BOOLEAN, Tick(b, ok)
  PROVE  HeldInv'
<1> USE TypeFacts, GenFacts
<1> DEFINE p  == [policy EXCEPT !.blocked = b]
           S  == SyncPlay(p, items, Busy(jobs), dn)
           D1 == IF b # policy.blocked THEN Schedule(p, items, S) ELSE dn
           D2 == [d \in Ids |-> IF d \in Arrived(p, D1)
                                THEN [D1[d] EXCEPT !.status = "verifying"] ELSE D1[d]]
<1>1. p \in Policy
  BY DEF Policy
<1>2. Moves(items, dn)
  BY DEF HeldInv, HeldClosed
<1>3. HeldClosed(p, items, S) /\ S \in [Ids -> Download(Gens)]
  BY <1>1, <1>2, SyncPlayCloses, ListTypes
<1>4. /\ HeldClosed(p, items, Schedule(p, items, S))
      /\ Schedule(p, items, S) \in [Ids -> Download(Gens)]
  BY <1>1, <1>3, ScheduleKeepsClosed, ListTypes
<1>5. D1 \in [Ids -> Download(Gens)] /\ HeldClosed(p, items, D1)
  BY <1>4 DEF Policy, HeldInv
<1> HIDE DEF D1
<1>6. \A e \in Ids : /\ D2[e].dl = D1[e].dl /\ D2[e].engine = D1[e].engine
                     /\ D2[e].ignore = D1[e].ignore
  BY <1>5 DEF Download
<1>7. \A e \in Ids : D2[e].dl => D2[e].engine # 0
  BY <1>5, <1>6 DEF HeldClosed, Moves
<1>8. policy' = p /\ dn' = D2 /\ items' = items
  BY DEF Tick, D1
<1> HIDE DEF D2
<1>9. HeldClosed(p, items, D2)
  BY <1>5, <1>6, <1>7, ClosedStays
<1> QED BY <1>8, <1>9 DEF HeldInv

\* The settings.
LEMMA HeldApplySettings ==
  ASSUME TypeInv, HeldInv, NEW c \in Configs, NEW b \in BOOLEAN, NEW ok \in BOOLEAN,
         ApplySettings(c, b, ok)
  PROVE  HeldInv'
<1> USE TypeFacts, GenFacts
<1> DEFINE p  == [policy EXCEPT !.rate = c, !.blocked = b, !.max = c.max]
           turned == PlayHeld(p) # PlayHeld(policy) \/ b # policy.blocked
           D1 == IF turned THEN SyncPlay(p, items, Busy(jobs), dn) ELSE dn
           D2 == [d \in Ids |-> IF Found(d) THEN Applied(c, p, jobs[d] # NoJob, D1[d])
                                ELSE D1[d]]
<1>1. c \in Config /\ p \in Policy
  BY ManagerConstants DEF Config, Policy
<1>2. D1 \in [Ids -> Download(Gens)] /\ HeldClosed(p, items, D1)
  <2>1. CASE turned
    BY <1>1, <2>1, SyncPlayCloses, ListTypes DEF HeldInv, HeldClosed
  <2>2. CASE ~turned
    BY <2>2 DEF Policy, PlayHeld, Held, SchedHeld, HeldInv, HeldClosed
  <2> QED BY <2>1, <2>2
<1>3. policy' = p /\ dn' = Schedule(p, items, D2) /\ items' = items
  BY DEF ApplySettings
<1> HIDE DEF D1, p
<1>4. D2 \in [Ids -> Download(Gens)]
  BY <1>1, <1>2, AppliedType
<1>5. ASSUME NEW r \in Download(Gens), NEW busy \in BOOLEAN
      PROVE  LET s == Applied(c, p, busy, r)
             IN  s.dl => r.dl /\ s.engine = r.engine /\ s.ignore = r.ignore
  BY <1>1 DEF Applied, Detached, AllowUpload, Download, Config, HasClient
<1>6. \A e \in Ids : D2[e].dl => /\ D1[e].dl /\ D2[e].engine = D1[e].engine
                                 /\ D2[e].ignore = D1[e].ignore
  BY <1>2, <1>5
<1>7. \A e \in Ids : D2[e].dl => D2[e].engine # 0
  BY <1>2, <1>6 DEF HeldClosed, Moves
<1> HIDE DEF D2
<1>8. HeldClosed(p, items, D2)
  BY <1>2, <1>6, <1>7, ClosedStays
<1> QED BY <1>1, <1>3, <1>4, <1>8, ScheduleKeepsClosed DEF HeldInv

\* The client and its replacement.
LEMMA HeldClient ==
  ASSUME TypeInv, HeldInv, NEW ok \in BOOLEAN,
         \/ RestoreStart \/ TeardownDetach \/ TeardownPark(ok) \/ TeardownDone
         \/ BringUp \/ Quit(ok)
  PROVE  HeldInv'
<1> USE TypeFacts, GenFacts
<1>1. CASE RestoreStart \/ TeardownDone \/ BringUp
  BY <1>1, HeldUnchanged DEF RestoreStart, TeardownDone, BringUp, list, rules
<1>2. CASE TeardownDetach
  BY <1>2 DEF TeardownDetach, Detached, Download, HeldInv, HeldClosed, Moves
<1>3. CASE TeardownPark(ok)
  <2>1. \A d \in Ids : Parked(dn[d]) = dn[d] \/ Parked(dn[d]) = [dn[d] EXCEPT !.status = "queued"]
    BY DEF Parked
  <2>2. \A d \in Ids : dn'[d] = dn[d] \/ dn'[d] = [dn[d] EXCEPT !.status = "queued"]
    BY <1>3, <2>1 DEF TeardownPark
  <2>3. \A d \in Ids : /\ dn'[d].dl = dn[d].dl /\ dn'[d].engine = dn[d].engine
                       /\ dn'[d].ignore = dn[d].ignore
    <3> TAKE d \in Ids
    <3>1. dn[d] \in Download(Gens)
      OBVIOUS
    <3>2. /\ [dn[d] EXCEPT !.status = "queued"].dl = dn[d].dl
          /\ [dn[d] EXCEPT !.status = "queued"].engine = dn[d].engine
          /\ [dn[d] EXCEPT !.status = "queued"].ignore = dn[d].ignore
      BY <3>1 DEF Download
    <3> QED BY <2>2, <3>2
  <2>4. \A d \in Ids : dn'[d].dl => dn'[d].engine # 0
    BY <2>3 DEF HeldInv, HeldClosed, Moves
  <2>5. HeldClosed(policy, items, dn')
    BY <2>3, <2>4, ClosedStays DEF HeldInv
  <2> QED BY <1>3, <2>5 DEF TeardownPark, HeldInv, rules
<1>4. CASE Quit(ok)
  BY <1>4, HeldRestarted DEF Quit
<1> QED BY <1>1, <1>2, <1>3, <1>4

\* What goes on in the background.
LEMMA HeldBackground ==
  ASSUME TypeInv, HeldInv, NEW ok \in BOOLEAN, Background(ok)
  PROVE  HeldInv'
<1> USE TypeFacts, GenFacts
<1>1. ASSUME NEW d \in Ids, Transfer(d)
      PROVE  HeldInv'
  <2>1. \A e \in Ids : /\ dn'[e].dl = dn[e].dl /\ dn'[e].engine = dn[e].engine
                       /\ dn'[e].ignore = dn[e].ignore
    BY <1>1 DEF Transfer, Download
  <2>2. \A e \in Ids : dn'[e].dl => dn'[e].engine # 0
    BY <2>1 DEF HeldInv, HeldClosed, Moves
  <2>3. HeldClosed(policy, items, dn')
    BY <2>1, <2>2, ClosedStays DEF HeldInv
  <2> QED BY <1>1, <2>3 DEF Transfer, HeldInv, rules
<1>2. ASSUME NEW r \in spawned, FailSpawned(r, ok)
      PROVE  HeldInv'
  BY <1>2, HeldMarkFailed DEF TypeInv, TypeOK, Request, FailSpawned, HeldInv, rules
<1>3. ASSUME NEW r \in spawned, Begin(r)
      PROVE  HeldInv'
  BY <1>3, HeldUnchanged DEF Begin, list, rules
<1>4. ASSUME NEW d \in Ids, JobStep(d, ok)
      PROVE  HeldInv'
  BY <1>4, HeldJobStep
<1>5. ASSUME NEW g \in Gens, PassStep(g, ok)
      PROVE  HeldInv'
  BY <1>5, HeldPassStep
<1>6. ASSUME NEW b \in BOOLEAN, Tick(b, ok)
      PROVE  HeldInv'
  BY <1>6, HeldTick
<1>7. ASSUME NEW c \in Configs, NEW b \in BOOLEAN, ApplySettings(c, b, ok)
      PROVE  HeldInv'
  BY <1>7, HeldApplySettings
<1>8. ASSUME \/ RestoreStart \/ TeardownDetach \/ TeardownPark(ok) \/ TeardownDone
             \/ BringUp \/ Quit(ok)
      PROVE  HeldInv'
  BY <1>8, HeldClient
<1> QED BY <1>1, <1>2, <1>3, <1>4, <1>5, <1>6, <1>7, <1>8 DEF Background

\* The invariant of every reachable state, for every value of the constants.
LEMMA HeldInvariant == Spec => [](TypeInv /\ HeldInv)
<1>1. Init => HeldInv
  BY DEF Init, Booted, Loaded, HeldInv, HeldClosed, Moves
<1>2. TypeInv /\ HeldInv /\ [Next]_vars => HeldInv'
  <2> SUFFICES ASSUME TypeInv, HeldInv, [Next]_vars
               PROVE  HeldInv'
    OBVIOUS
  <2>1. CASE Environment
    BY <2>1, HeldEnvironment
  <2>2. ASSUME NEW ok \in BOOLEAN, Requests(ok)
        PROVE  HeldInv'
    BY <2>2, HeldRequests
  <2>3. ASSUME NEW ok \in BOOLEAN, Background(ok)
        PROVE  HeldInv'
    BY <2>3, HeldBackground
  <2>4. CASE UNCHANGED vars
    BY <2>4, HeldUnchanged DEF vars, list, rules
  <2> QED BY <2>1, <2>2, <2>3, <2>4 DEF Next
<1> QED BY <1>1, <1>2, TypeInvariant, PTL DEF Spec

\* While a game runs in the pausing mode, or outside the windows of the
\* schedule, no download receives data: with any number of downloads and
\* clients, through every start, network change, failed write and setting.
THEOREM HeldDownloadsStandStill == Spec => []HeldMovesNoData
<1>1. HeldInv => HeldMovesNoData
  BY DEF HeldInv, HeldClosed, HeldMovesNoData
<1> QED BY <1>1, HeldInvariant, PTL
-----------------------------------------------------------------------------
(* ListIsDurable.  The list changes in four handlers only, each in the step *)
(* that writes it; every other write is of the list as it is.              *)

\* A handler that writes a list and takes it over when the write succeeds.
LEMMA WriteKeepsDurable ==
  ASSUME ListIsDurable, NEW ok \in BOOLEAN, NEW q, NEW D, Persist(ok, q, D),
         UNCHANGED restarts, items' = IF ok THEN q ELSE items
  PROVE  ListIsDurable'
BY DEF ListIsDurable, Persist, Image

\* A step that writes nothing and leaves the list alone.
LEMMA UnwrittenKeepsDurable ==
  ASSUME ListIsDurable, UNCHANGED <<items, disk, restarts>>
  PROVE  ListIsDurable'
BY DEF ListIsDurable

\* A start reads what was written.
LEMMA RestartKeepsDurable ==
  ASSUME NEW st, Restarted(st)
  PROVE  ListIsDurable'
BY DEF Restarted, ListIsDurable

\* The requests of the user: the list changes only when its write went through.
LEMMA DurableRequests ==
  ASSUME ListIsDurable, NEW ok \in BOOLEAN, Requests(ok)
  PROVE  ListIsDurable'
<1>1. ASSUME NEW d \in Ids, Add(d, ok) \/ AddTask(d, ok)
      PROVE  ListIsDurable'
  BY <1>1, WriteKeepsDurable DEF Add, AddTask, life
<1>2. ASSUME NEW d \in Ids, NEW force \in BOOLEAN,
             QueueWhileDown(d, force, ok) \/ Reattach(d, force, ok)
      PROVE  ListIsDurable'
  BY <1>2, WriteKeepsDurable DEF QueueWhileDown, Reattach, life
<1>3. ASSUME NEW d \in Ids, NEW D, NEW E, Commit(ok, D, E), UNCHANGED <<items, restarts>>
      PROVE  ListIsDurable'
  BY <1>3, WriteKeepsDurable DEF Commit
<1>4. ASSUME NEW d \in Ids, Pause(d, ok) \/ Resume(d, ok)
      PROVE  ListIsDurable'
  BY <1>2, <1>3, <1>4 DEF Pause, Resume, life
<1>5. ASSUME NEW d \in Ids, ForceStart(d, ok)
      PROVE  ListIsDurable'
  BY <1>2, <1>5, WriteKeepsDurable DEF ForceStart, life
<1>6. ASSUME NEW d \in Ids, DownloadNow(d, ok)
      PROVE  ListIsDurable'
  BY <1>6, WriteKeepsDurable DEF DownloadNow, life
<1>7. ASSUME NEW d \in Ids, StopSeeding(d, ok)
      PROVE  ListIsDurable'
  BY <1>7, WriteKeepsDurable, UnwrittenKeepsDurable DEF StopSeeding, life
<1>8. ASSUME NEW i \in DOMAIN items, NEW j \in DOMAIN items, Move(i, j, ok)
      PROVE  ListIsDurable'
  BY <1>8, WriteKeepsDurable DEF Move, life
<1>9. ASSUME NEW i \in DOMAIN items, Discard(i, ok) \/ StopAndWait(i, ok)
      PROVE  ListIsDurable'
  BY <1>9, WriteKeepsDurable DEF Discard, StopAndWait, Drop, life
<1> QED BY <1>1, <1>4, <1>5, <1>6, <1>7, <1>8, <1>9 DEF Requests

\* The jobs leave the list alone.
LEMMA DurableJobs ==
  ASSUME ListIsDurable, NEW d \in Ids, NEW ok \in BOOLEAN, JobStep(d, ok)
  PROVE  ListIsDurable'
<1>1. ASSUME MarkFailed(d, ok), UNCHANGED <<items, restarts>>
      PROVE  ListIsDurable'
  BY <1>1, WriteKeepsDurable, UnwrittenKeepsDurable DEF MarkFailed
<1>2. ASSUME NEW D, Finish(d, D, ok) \/ FinishSeed(d, ok), UNCHANGED <<items, restarts>>
      PROVE  ListIsDurable'
  BY <1>2, WriteKeepsDurable DEF Finish, FinishSeed
<1>3. CASE Attach(d) \/ GotInfo(d) \/ EndJob(d)
  BY <1>3, UnwrittenKeepsDurable DEF Attach, GotInfo, EndJob, list, life
<1>4. CASE AttachFails(d, ok)
  BY <1>1, <1>4, UnwrittenKeepsDurable DEF AttachFails, RestoreFailed, life
<1>5. CASE Settle(d, ok) \/ Check(d, ok)
  BY <1>2, <1>5, UnwrittenKeepsDurable DEF Settle, Check, life
<1>6. CASE VerifyPasses(d, ok)
  BY <1>6, WriteKeepsDurable, UnwrittenKeepsDurable DEF VerifyPasses, life
<1>7. CASE VerifyFails(d, ok)
  BY <1>1, <1>7, UnwrittenKeepsDurable DEF VerifyFails, life
<1> QED BY <1>3, <1>4, <1>5, <1>6, <1>7 DEF JobStep

\* What goes on in the background.
LEMMA DurableBackground ==
  ASSUME ListIsDurable, NEW ok \in BOOLEAN, Background(ok)
  PROVE  ListIsDurable'
<1>1. ASSUME NEW b \in BOOLEAN, Tick(b, ok)
      PROVE  ListIsDurable'
  BY <1>1, WriteKeepsDurable, UnwrittenKeepsDurable DEF Tick, life
<1>2. ASSUME NEW c \in Configs, NEW b \in BOOLEAN, ApplySettings(c, b, ok)
      PROVE  ListIsDurable'
  BY <1>2, WriteKeepsDurable DEF ApplySettings, life
<1>3. ASSUME NEW d \in Ids, Transfer(d)
      PROVE  ListIsDurable'
  BY <1>3, UnwrittenKeepsDurable DEF Transfer, life
<1>4. ASSUME NEW r \in spawned, FailSpawned(r, ok)
      PROVE  ListIsDurable'
  BY <1>4, WriteKeepsDurable, UnwrittenKeepsDurable DEF FailSpawned, MarkFailed, life
<1>5. ASSUME NEW r \in spawned, Begin(r)
      PROVE  ListIsDurable'
  BY <1>5, UnwrittenKeepsDurable DEF Begin, list, life
<1>6. ASSUME NEW g \in Gens, PassStep(g, ok)
      PROVE  ListIsDurable'
  BY <1>6, WriteKeepsDurable, UnwrittenKeepsDurable
     DEF PassStep, PassSkip, PassBegin, PassEnd, PassAborts, list, life
<1>7. CASE RestoreStart \/ TeardownDetach \/ TeardownDone \/ BringUp
  BY <1>7, UnwrittenKeepsDurable
     DEF RestoreStart, TeardownDetach, TeardownDone, BringUp, list, life
<1>8. CASE TeardownPark(ok)
  BY <1>8, WriteKeepsDurable, UnwrittenKeepsDurable DEF TeardownPark, life
<1>9. CASE Quit(ok)
  BY <1>9, RestartKeepsDurable DEF Quit
<1> QED BY <1>1, <1>2, <1>3, <1>4, <1>5, <1>6, <1>7, <1>8, <1>9, DurableJobs DEF Background

\* What is in the queue, and its order, is on the disk when a handler returns,
\* whichever writes fail: a handler whose write failed has put back what it
\* changed.
THEOREM QueueOnDisk == Spec => []ListIsDurable
<1>1. Init => ListIsDurable
  BY DEF Init, Booted, ListIsDurable
<1>2. ListIsDurable /\ [Next]_vars => ListIsDurable'
  <2> SUFFICES ASSUME ListIsDurable, [Next]_vars
               PROVE  ListIsDurable'
    OBVIOUS
  <2>1. CASE Environment
    BY <2>1, UnwrittenKeepsDurable, RestartKeepsDurable
       DEF Environment, StopSeedingJob, WriteError, SetGamesRunning, SaveSettings,
           SwitchNetwork, Close, Crash, list, life
  <2>2. ASSUME NEW ok \in BOOLEAN, Requests(ok) \/ Background(ok)
        PROVE  ListIsDurable'
    BY <2>2, DurableRequests, DurableBackground
  <2>3. CASE UNCHANGED vars
    BY <2>3, UnwrittenKeepsDurable DEF vars, list, life
  <2> QED BY <2>1, <2>2, <2>3 DEF Next
<1> QED BY <1>1, <1>2, PTL DEF Spec
-----------------------------------------------------------------------------
(* EnginesBelongToClient.  A job that was made for a client may still be    *)
(* under way when it is taken down and when the next one is up, and puts a  *)
(* torrent back at its end.  What keeps that from happening is that         *)
(* everything under way carries the generation it was made for, which is    *)
(* not ahead of the manager's and, while it is the same, means the client   *)
(* is still installed: that is the strengthening.                           *)

EnginesOK(D) == \A d \in Ids : D[d].engine # 0 => HasClient /\ D[d].engine = gen

Current(r) == r.gen \in Gens /\ r.gen <= gen /\ (r.gen = gen => HasClient)

ClientInv ==
  /\ EnginesOK(dn)
  /\ \A r \in spawned : Current(r)
  /\ \A d \in Ids : jobs[d] # NoJob => Current(jobs[d].req)
  /\ \A g \in Gens, d \in Ids :
       passes[g].req[d] # NoRequest => Current(passes[g].req[d])

\* The rules move no torrent.
LEMMA RulesKeepEngines ==
  ASSUME NEW p, NEW q, NEW busy, NEW D \in [Ids -> Download(Gens)], EnginesOK(D)
  PROVE  EnginesOK(Schedule(p, q, D)) /\ EnginesOK(SyncPlay(p, q, busy, D))
<1>1. ASSUME NEW r \in Download(Gens), NEW b
      PROVE  Started(p, r).engine = r.engine /\ Synced(p, b, r).engine = r.engine
  BY DEF Started, Synced, Gated, Download
<1>2. \A d \in Ids : /\ Schedule(p, q, D)[d].engine = D[d].engine
                     /\ SyncPlay(p, q, busy, D)[d].engine = D[d].engine
  BY <1>1 DEF Schedule, SyncPlay
<1> QED BY <1>2 DEF EnginesOK

\* A torrent that stays where it is, or goes.
LEMMA EnginesCarry ==
  ASSUME NEW D, NEW E, EnginesOK(D),
         \A d \in Ids : E[d].engine = 0 \/ E[d].engine = D[d].engine
  PROVE  EnginesOK(E)
BY DEF EnginesOK

\* A step that keeps the client, and makes work for it only while it is there.
LEMMA WorkCarries ==
  ASSUME ClientInv, UNCHANGED <<net, gen>>, EnginesOK(dn'),
         \A r \in spawned' : r \in spawned \/ Current(r),
         \A d \in Ids : jobs'[d] # NoJob =>
           \/ jobs[d] # NoJob /\ jobs'[d].req = jobs[d].req
           \/ Current(jobs'[d].req),
         \A g \in Gens, d \in Ids : passes'[g].req[d] # NoRequest =>
           \/ passes'[g].req[d] = passes[g].req[d]
           \/ Current(passes'[g].req[d])
  PROVE  ClientInv'
<1>1. \A r : Current(r)' <=> (r.gen \in Gens /\ r.gen <= gen /\ (r.gen = gen => HasClient))
  BY DEF Current, HasClient
<1>2. EnginesOK(dn)'
  BY DEF EnginesOK, HasClient
<1>3. \A r \in spawned' : Current(r)'
  BY DEF ClientInv, Current, HasClient
<1>4. \A d \in Ids : jobs'[d] # NoJob => Current(jobs'[d].req)
  BY DEF ClientInv
<1>5. \A g \in Gens, d \in Ids :
        passes'[g].req[d] # NoRequest => Current(passes'[g].req[d])
  BY DEF ClientInv
<1> QED BY <1>2, <1>3, <1>4, <1>5 DEF ClientInv, Current, HasClient

\* What the manager starts a goroutine with is made for the installed client.
LEMMA RequestIsCurrent ==
  ASSUME TypeInv, HasClient, NEW d \in Ids, NEW k \in Kinds
  PROVE  /\ Current(Req(d, k))
         /\ \A b \in BOOLEAN : /\ Current([Req(d, k) EXCEPT !.force = b])
                               /\ Current([Req(d, k) EXCEPT !.complete = b])
BY TypeFacts, GenFacts DEF Current, Req

\* Telling a job to stop, or moving it on, leaves its request.
LEMMA CancelKeepsRequest ==
  ASSUME TypeInv, NEW d \in Ids, jobs[d] # NoJob, NEW J, NEW ph,
         J = [jobs EXCEPT ![d].cancelled = TRUE] \/ J = [jobs EXCEPT ![d].phase = ph]
  PROVE  \A e \in Ids : J[e] # NoJob => jobs[e] # NoJob /\ J[e].req = jobs[e].req
<1>1. jobs \in [Ids -> Job \cup {NoJob}] /\ jobs[d] \in Job
  BY JobFacts DEF TypeInv, TypeOK
<1>2. CASE J = [jobs EXCEPT ![d].cancelled = TRUE]
  BY <1>1, <1>2 DEF Job
<1>3. CASE J = [jobs EXCEPT ![d].phase = ph]
  BY <1>1, <1>3 DEF Job
<1> QED BY <1>2, <1>3

\* The requests of the user.
LEMMA ClientRequests ==
  ASSUME TypeInv, ClientInv, NEW ok \in BOOLEAN, Requests(ok)
  PROVE  ClientInv'
<1> USE TypeFacts, GenFacts
<1>0. EnginesOK(dn)
  BY DEF ClientInv
<1>a. ASSUME UNCHANGED <<net, gen, jobs, spawned, passes>>, EnginesOK(dn')
      PROVE  ClientInv'
  BY <1>a, WorkCarries
<1>b. ASSUME NEW D \in [Ids -> Download(Gens)], NEW E,
             \A e \in Ids : D[e].engine = 0 \/ D[e].engine = dn[e].engine,
             EnginesOK(E), Commit(ok, D, E)
      PROVE  EnginesOK(dn')
  BY <1>0, <1>b, EnginesCarry, RulesKeepEngines DEF Commit
<1>1. ASSUME NEW d \in Ids, Add(d, ok)
      PROVE  ClientInv'
  <2> DEFINE D == [dn EXCEPT ![d] = Attached(@, gen)]
  <2>1. D \in [Ids -> Download(Gens)]
    BY RecordTypes
  <2>2. D[d].engine = gen /\ HasClient
    BY <1>1 DEF Attached, Download, Add
  <2>3. EnginesOK(D)
    BY <1>0, <2>2 DEF EnginesOK
  <2>4. EnginesOK(Schedule(policy, Append(items, d), D))
    BY <2>1, <2>3, RulesKeepEngines
  <2> QED BY <1>0, <1>1, <1>a, <2>4 DEF Add, work, client
<1>2. ASSUME NEW d \in Ids, AddTask(d, ok)
      PROVE  ClientInv'
  BY <1>0, <1>2, RequestIsCurrent, WorkCarries DEF AddTask, Kinds, client
<1>3. ASSUME NEW d \in Ids, Pause(d, ok)
      PROVE  ClientInv'
  <2> DEFINE D == [dn EXCEPT ![d] = Gated([@ EXCEPT !.status = "paused"])]
  <2>1. [dn[d] EXCEPT !.status = "paused"] \in Download(Gens)
    BY DEF Download, Statuses
  <2>2. /\ D \in [Ids -> Download(Gens)]
        /\ \A e \in Ids : D[e].engine = dn[e].engine
    BY <2>1, RecordTypes DEF Gated, Download
  <2>3. EnginesOK(dn')
    BY <1>0, <1>3, <1>b, <2>2 DEF Pause
  <2> QED BY <1>3, <1>a, <2>3 DEF Pause, work, client
<1>4. ASSUME NEW d \in Ids, NEW force \in BOOLEAN,
             QueueWhileDown(d, force, ok) \/ Reattach(d, force, ok)
      PROVE  ClientInv'
  <2>1. \/ dn' = dn
        \/ dn' = [dn EXCEPT ![d].status = "queued"]
        \/ dn' = [dn EXCEPT ![d].status = "verifying"]
    BY <1>4 DEF QueueWhileDown, Reattach
  <2>2. \A e \in Ids : dn'[e].engine = dn[e].engine
    <3>1. CASE dn' = [dn EXCEPT ![d].status = "queued"]
      BY <3>1 DEF Download
    <3>2. CASE dn' = [dn EXCEPT ![d].status = "verifying"]
      BY <3>2 DEF Download
    <3> QED BY <2>1, <3>1, <3>2
  <2>3. EnginesOK(dn')
    BY <1>0, <2>2, EnginesCarry
  <2>4. CASE QueueWhileDown(d, force, ok)
    BY <1>a, <2>3, <2>4 DEF QueueWhileDown, work
  <2>5. CASE Reattach(d, force, ok)
    BY <2>3, <2>5, RequestIsCurrent, WorkCarries DEF Reattach, Offline, HasClient, Kinds,
       client
  <2> QED BY <1>4, <2>4, <2>5
<1>5. ASSUME NEW d \in Ids, Resume(d, ok)
      PROVE  ClientInv'
  <2> DEFINE D == [dn EXCEPT ![d].status = "queued"]
  <2>1. CASE QueueWhileDown(d, FALSE, ok) \/ Reattach(d, FALSE, ok)
    BY <1>4, <2>1
  <2>2. CASE Commit(ok, D, dn) /\ UNCHANGED <<items, verified, rules, work, client, life>>
    <3>1. D \in [Ids -> Download(Gens)]
      BY DEF Download, Statuses
    <3>2. \A e \in Ids : D[e].engine = dn[e].engine
      BY DEF Download
    <3> HIDE DEF D
    <3>3. EnginesOK(dn')
      BY <1>0, <1>b, <2>2, <3>1, <3>2 DEF D
    <3> QED BY <1>a, <2>2, <3>3 DEF work, client
  <2> QED BY <1>5, <2>1, <2>2 DEF Resume
<1>6. ASSUME NEW d \in Ids, ForceStart(d, ok)
      PROVE  ClientInv'
  <2> DEFINE r == Forced(policy, dn[d])
  <2>1. CASE QueueWhileDown(d, TRUE, ok) \/ Reattach(d, TRUE, ok)
    BY <1>4, <2>1
  <2>2. CASE /\ dn' = [dn EXCEPT ![d] = r]
                \/ dn' = [dn EXCEPT ![d].dl = r.dl, ![d].ul = r.ul]
             /\ UNCHANGED <<items, verified, rules, work, client, life>>
    <3>1. r.engine = dn[d].engine
      BY DEF Forced, Started, Download
    <3> HIDE DEF r
    <3>2. \A e \in Ids : dn'[e].engine = dn[e].engine
      <4>1. CASE dn' = [dn EXCEPT ![d] = r]
        BY <3>1, <4>1
      <4>2. CASE dn' = [dn EXCEPT ![d].dl = r.dl, ![d].ul = r.ul]
        BY <4>2 DEF Download
      <4> QED BY <2>2, <4>1, <4>2
    <3>3. EnginesOK(dn')
      BY <1>0, <3>2, EnginesCarry
    <3> QED BY <1>a, <2>2, <3>3 DEF work, client
  <2> QED BY <1>6, <2>1, <2>2 DEF ForceStart
<1>7. ASSUME NEW d \in Ids, DownloadNow(d, ok)
      PROVE  ClientInv'
  <2> DEFINE D == [dn EXCEPT ![d].ignore = TRUE]
             S == SyncPlay(policy, items, Busy(jobs), D)
  <2>0. D \in [Ids -> Download(Gens)]
    BY DEF Download
  <2>1. D \in [Ids -> Download(Gens)] /\ \A e \in Ids : D[e].engine = dn[e].engine
    BY <2>0 DEF Download
  <2>2. EnginesOK(D)
    BY <1>0, <2>1, EnginesCarry
  <2>3. S \in [Ids -> Download(Gens)] /\ EnginesOK(S)
    BY <2>1, <2>2, ListTypes, RulesKeepEngines
  <2>4. EnginesOK(Schedule(policy, items, S))
    BY <2>3, RulesKeepEngines
  <2> QED BY <1>0, <1>7, <1>a, <2>4 DEF DownloadNow, work, client
<1>8. ASSUME NEW d \in Ids, StopSeeding(d, ok)
      PROVE  ClientInv'
  <2> DEFINE D == [dn EXCEPT ![d] = Detached([@ EXCEPT !.seeding = FALSE])]
  <2>1. \A e \in Ids : D[e].engine = 0 \/ D[e].engine = dn[e].engine
    BY DEF Detached, Download
  <2>2. EnginesOK(D)
    BY <1>0, <2>1, EnginesCarry
  <2> QED BY <1>0, <1>8, <1>a, <2>2 DEF StopSeeding, work, client
<1>9. ASSUME NEW i \in DOMAIN items, NEW j \in DOMAIN items, Move(i, j, ok)
      PROVE  ClientInv'
  BY <1>0, <1>9, <1>a DEF Move, work, client
<1>10. ASSUME NEW i \in DOMAIN items, Discard(i, ok) \/ StopAndWait(i, ok)
       PROVE  ClientInv'
  <2> DEFINE d == items[i]
             D == [dn EXCEPT ![d] = Gone]
  <2>1. d \in Ids
    OBVIOUS
  <2>2. D \in [Ids -> Download(Gens)] /\ D[d].engine = 0
    BY <2>1, FreshType DEF Gone, Fresh
  <2>3. EnginesOK(D)
    BY <1>0, <2>2, EnginesCarry
  <2>4. EnginesOK(Schedule(policy, items', D))
    BY <2>2, <2>3, RulesKeepEngines
  <2>5. EnginesOK(dn') /\ Drop(i, ok)
    BY <1>0, <1>10, <2>3, <2>4 DEF Discard, StopAndWait
  <2>6. jobs' = jobs \/ (jobs[d] # NoJob /\ jobs' = [jobs EXCEPT ![d].cancelled = TRUE])
    BY <2>5 DEF Drop
  <2> HIDE DEF d
  <2>7. \A e \in Ids : jobs'[e] # NoJob => jobs[e] # NoJob /\ jobs'[e].req = jobs[e].req
    <3>1. CASE jobs' = jobs
      BY <3>1
    <3>2. CASE jobs[d] # NoJob /\ jobs' = [jobs EXCEPT ![d].cancelled = TRUE]
      BY <2>1, <3>2, CancelKeepsRequest
    <3> QED BY <2>6, <3>1, <3>2
  <2> QED BY <2>5, <2>7, WorkCarries DEF Drop, client
<1> QED
  BY <1>1, <1>2, <1>3, <1>5, <1>6, <1>7, <1>8, <1>9, <1>10 DEF Requests

\* The passes and what they still have to do.
LEMMA PassFacts ==
  ASSUME TypeInv
  PROVE  /\ passes \in [Gens -> Pass]
         /\ \A g \in Gens : passes[g].req \in [Ids -> Request \cup {NoRequest}]
BY DEF TypeInv, TypeOK, Pass

\* A start finds no torrent and nothing under way.
LEMMA ClientRestarted ==
  ASSUME NEW st, Restarted(st)
  PROVE  ClientInv'
<1>1. /\ \A d \in Ids : dn'[d].engine = 0
      /\ \A d \in Ids : jobs'[d] = NoJob
      /\ spawned' = {}
      /\ \A g \in Gens, d \in Ids : passes'[g].req[d] = NoRequest
  BY DEF Restarted, Loaded, DeadPass, NoReqs
<1> QED BY <1>1 DEF ClientInv, EnginesOK

\* A download that failed keeps its torrent.
LEMMA ClientMarkFailed ==
  ASSUME TypeInv, ClientInv, NEW d \in Ids, NEW ok \in BOOLEAN, MarkFailed(d, ok)
  PROVE  EnginesOK(dn')
<1> USE TypeFacts, GenFacts
<1>1. EnginesOK(dn)
  BY DEF ClientInv
<1>2. [dn[d] EXCEPT !.status = "failed"] \in Download(Gens)
  BY DEF Download, Statuses
<1>3. /\ Failed(d, dn) \in [Ids -> Download(Gens)]
      /\ \A e \in Ids : Failed(d, dn)[e].engine = dn[e].engine
  BY <1>2, RecordTypes DEF Failed, Gated, Download
<1>4. EnginesOK(Failed(d, dn))
  BY <1>1, <1>3, EnginesCarry
<1> QED BY <1>1, <1>3, <1>4, RulesKeepEngines DEF MarkFailed

\* What happens around the manager.
LEMMA ClientEnvironment ==
  ASSUME TypeInv, ClientInv, Environment
  PROVE  ClientInv'
<1> USE TypeFacts, GenFacts
<1>0. EnginesOK(dn)
  BY DEF ClientInv
<1>1. ASSUME NEW d \in Ids, StopSeedingJob(d)
      PROVE  ClientInv'
  BY <1>0, <1>1, CancelKeepsRequest, WorkCarries DEF StopSeedingJob, list, client
<1>2. ASSUME NEW d \in Ids, WriteError(d)
      PROVE  ClientInv'
  BY <1>0, <1>2, RequestIsCurrent, WorkCarries DEF WriteError, EnginesOK, Kinds, list, client
<1>3. ASSUME NEW b \in BOOLEAN, SetGamesRunning(b)
      PROVE  ClientInv'
  BY <1>0, <1>3, RulesKeepEngines, WorkCarries DEF SetGamesRunning, work, client
<1>4. ASSUME NEW c \in Configs, SaveSettings(c)
      PROVE  ClientInv'
  BY <1>0, <1>4, WorkCarries DEF SaveSettings, list, work, client
<1>5. CASE SwitchNetwork
  BY <1>5 DEF SwitchNetwork, ClientInv, EnginesOK, Current, HasClient, list, work
<1>6. CASE Close
  <2>1. \A e \in Ids : jobs'[e] # NoJob => jobs[e] # NoJob /\ jobs'[e].req = jobs[e].req
    <3> TAKE e \in Ids
    <3>1. jobs'[e] = IF jobs[e] # NoJob THEN [jobs[e] EXCEPT !.cancelled = TRUE] ELSE NoJob
      BY <1>6 DEF Close
    <3>2. jobs[e] # NoJob => [jobs[e] EXCEPT !.cancelled = TRUE].req = jobs[e].req
      BY JobFacts DEF Job
    <3> QED BY <3>1, <3>2
  <2> QED BY <1>0, <1>6, <2>1, WorkCarries DEF Close, list, client
<1>7. CASE Crash
  BY <1>7, ClientRestarted DEF Crash
<1> QED BY <1>1, <1>2, <1>3, <1>4, <1>5, <1>6, <1>7 DEF Environment

\* The jobs: a torrent is only put into the client its job was made for.
LEMMA ClientJobs ==
  ASSUME TypeInv, ClientInv, NEW d \in Ids, NEW ok \in BOOLEAN, JobStep(d, ok)
  PROVE  ClientInv'
<1> USE TypeFacts, GenFacts
<1>0. EnginesOK(dn)
  BY DEF ClientInv
<1>a. ASSUME jobs[d] # NoJob, NEW ph, Goes(d, ph), UNCHANGED <<net, gen, spawned, passes>>,
             EnginesOK(dn')
      PROVE  ClientInv'
  BY <1>a, CancelKeepsRequest, WorkCarries DEF Goes
<1>b. ASSUME NEW D \in [Ids -> Download(Gens)], EnginesOK(D), jobs[d] # NoJob,
             Finish(d, D, ok)
      PROVE  EnginesOK(dn')
  <2> DEFINE r == jobs[d].req
             x == CASE r.paused  -> Gated([D[d] EXCEPT !.status = "paused"])
                    [] ~r.paused /\ r.force  -> Forced(policy, D[d])
                    [] ~r.paused /\ ~r.force -> [D[d] EXCEPT !.status = "queued"]
  <2>1. r.paused \in BOOLEAN /\ r.force \in BOOLEAN
    BY <1>b, JobFacts DEF Request
  <2>2. x \in Download(Gens) /\ x.engine = D[d].engine
    <3>1. /\ [D[d] EXCEPT !.status = "paused"] \in Download(Gens)
          /\ [D[d] EXCEPT !.status = "paused"].engine = D[d].engine
          /\ [D[d] EXCEPT !.status = "queued"] \in Download(Gens)
          /\ [D[d] EXCEPT !.status = "queued"].engine = D[d].engine
      BY StatusType DEF Statuses
    <3>2. CASE r.paused
      <4> DEFINE s == [D[d] EXCEPT !.status = "paused"]
      <4>1. x = Gated(s)
        BY <3>2
      <4> HIDE DEF x, s
      <4>2. s \in Download(Gens) /\ s.engine = D[d].engine
        BY <3>1 DEF s
      <4>3. Gated(s) \in Download(Gens)
        BY <4>2, RecordTypes
      <4>4. Gated(s).engine = s.engine
        BY <4>2 DEF Gated, Download
      <4> QED BY <4>1, <4>2, <4>3, <4>4
    <3>3. CASE ~r.paused /\ r.force
      <4>1. x = Forced(policy, D[d])
        BY <3>3
      <4>2. Forced(policy, D[d]).engine = D[d].engine
        BY DEF Forced, Started, Download
      <4>3. Forced(policy, D[d]) \in Download(Gens)
        BY RecordTypes
      <4> HIDE DEF x
      <4> QED BY <4>1, <4>2, <4>3
    <3>4. CASE ~r.paused /\ ~r.force
      BY <3>1, <3>4
    <3> QED BY <2>1, <3>2, <3>3, <3>4
  <2>3. dn' = Schedule(policy, items, [D EXCEPT ![d] = x])
    BY <1>b DEF Finish
  <2> HIDE DEF x
  <2>4. /\ [D EXCEPT ![d] = x] \in [Ids -> Download(Gens)]
        /\ EnginesOK([D EXCEPT ![d] = x])
    BY <1>b, <2>2 DEF EnginesOK
  <2> QED BY <2>3, <2>4, RulesKeepEngines
<1>c. ASSUME jobs[d] # NoJob, ~Superseded(d)
      PROVE  gen = jobs[d].req.gen /\ HasClient
  BY <1>c DEF Superseded, ClientInv, Current
<1>1. CASE Attach(d)
  <2>1. dn' = dn \/ dn' = [dn EXCEPT ![d].status = "metadata"]
    BY <1>1 DEF Attach
  <2>2. \A e \in Ids : dn'[e].engine = dn[e].engine
    BY <2>1 DEF Download
  <2>3. EnginesOK(dn')
    BY <1>0, <2>2, EnginesCarry
  <2> QED BY <1>1, <1>a, <2>3 DEF Attach, At, client
<1>2. CASE AttachFails(d, ok)
  <2>1. \/ dn' = dn \/ dn' = [dn EXCEPT ![d].seeding = FALSE] \/ MarkFailed(d, ok)
    BY <1>2 DEF AttachFails, RestoreFailed
  <2>2. EnginesOK(dn')
    <3> DEFINE D == [dn EXCEPT ![d].seeding = FALSE]
    <3>1. \A e \in Ids : D[e].engine = dn[e].engine
      BY DEF Download
    <3> HIDE DEF D
    <3>2. EnginesOK(D)
      BY <1>0, <3>1, EnginesCarry
    <3>3. dn' = dn \/ dn' = D \/ MarkFailed(d, ok)
      BY <2>1 DEF D
    <3> QED BY <1>0, <3>2, <3>3, ClientMarkFailed
  <2> QED BY <1>2, <1>a, <2>2 DEF AttachFails, RestoreFailed, At, client
<1>3. CASE GotInfo(d)
  BY <1>0, <1>3, <1>a DEF GotInfo, At, list, client
<1>4. CASE Settle(d, ok)
  <2>1. jobs[d] # NoJob
    BY <1>4 DEF Settle, At
  <2>2. EnginesOK(dn')
    <3>1. CASE dn' = dn
      BY <1>0, <3>1
    <3>2. CASE ~Superseded(d)
      <4> DEFINE D == [dn EXCEPT ![d] = Attached(@, gen)]
      <4>1. gen = jobs[d].req.gen /\ HasClient
        BY <1>c, <2>1, <3>2
      <4>2. Attached(dn[d], gen) \in Download(Gens) /\ Attached(dn[d], gen).engine = gen
        <5>1. Attached(dn[d], gen) \in Download(Gens)
          BY RecordTypes
        <5>2. Attached(dn[d], gen).engine = gen
          BY DEF Attached, Download
        <5> QED BY <5>1, <5>2
      <4>3. D \in [Ids -> Download(Gens)] /\ EnginesOK(D)
        BY <1>0, <4>1, <4>2 DEF EnginesOK
      <4>4. CASE Finish(d, D, ok)
        BY <1>b, <2>1, <4>3, <4>4
      <4>5. CASE dn' = [dn EXCEPT ![d] = [Attached(@, gen) EXCEPT !.status = "verifying"]]
        BY <1>0, <4>1, <4>2, <4>5 DEF Download, EnginesOK
      <4>6. CASE FinishSeed(d, ok)
        <5> DEFINE r == [Attached(dn[d], gen) EXCEPT !.seeding = policy.saved.seed]
                   x == IF policy.saved.seed THEN AllowUpload(policy, r) ELSE Detached(r)
        <5>1. r \in Download(Gens) /\ r.engine = gen
          BY <4>2 DEF Download, Policy, Config
        <5> HIDE DEF r
        <5>2. x.engine = gen \/ x.engine = 0
          BY <5>1 DEF AllowUpload, Detached, Download
        <5> HIDE DEF x
        <5>3. dn' = [dn EXCEPT ![d] = x]
          BY <4>6 DEF FinishSeed, x, r
        <5> QED BY <1>0, <4>1, <5>2, <5>3 DEF EnginesOK
      <4> QED BY <1>4, <3>1, <4>4, <4>5, <4>6 DEF Settle
    <3> QED BY <1>4, <3>1, <3>2 DEF Settle
  <2>3. \E ph : Goes(d, ph)
    BY <1>4 DEF Settle, Finish, FinishSeed
  <2> QED BY <1>4, <1>a, <2>1, <2>2, <2>3 DEF Settle, client
<1>5. CASE Check(d, ok)
  BY <1>0, <1>5, <1>b, <1>a DEF Check, Finish, At, client
<1>6. CASE VerifyPasses(d, ok)
  <2> DEFINE D == [dn EXCEPT ![d] = Completed(@)]
  <2>1. D \in [Ids -> Download(Gens)]
    BY CompletedType
  <2>2. Completed(dn[d]).engine = dn[d].engine \/ Completed(dn[d]).engine = 0
    BY DEF Completed, AllowUpload, Detached, Download
  <2>3. EnginesOK(D)
    BY <1>0, <2>2 DEF EnginesOK
  <2>4. EnginesOK(Schedule(policy, items, D))
    BY <2>1, <2>3, RulesKeepEngines
  <2> QED BY <1>0, <1>6, <1>a, <2>4 DEF VerifyPasses, At, client
<1>7. CASE VerifyFails(d, ok)
  BY <1>0, <1>7, ClientMarkFailed, <1>a DEF VerifyFails, At, client
<1>8. CASE EndJob(d)
  BY <1>0, <1>8, JobFacts, PassFacts, WorkCarries DEF EndJob, At, list, client
<1> QED BY <1>1, <1>2, <1>3, <1>4, <1>5, <1>6, <1>7, <1>8 DEF JobStep

\* The passes.
LEMMA ClientPasses ==
  ASSUME TypeInv, ClientInv, NEW g \in Gens, NEW ok \in BOOLEAN, PassStep(g, ok)
  PROVE  ClientInv'
<1> USE TypeFacts, GenFacts, PassFacts
<1>0. EnginesOK(dn)
  BY DEF ClientInv
<1>1. ASSUME NEW d \in Ids, PassSkip(g, d)
      PROVE  ClientInv'
  <2>1. dn' = dn \/ dn' = [dn EXCEPT ![d].seeding = FALSE]
    BY <1>1 DEF PassSkip
  <2>2. \A e \in Ids : dn'[e].engine = dn[e].engine
    <3>1. CASE dn' = [dn EXCEPT ![d].seeding = FALSE]
      BY <3>1 DEF Download
    <3> QED BY <2>1, <3>1
  <2>3. EnginesOK(dn')
    BY <1>0, <2>2, EnginesCarry
  <2>4. passes' = [passes EXCEPT ![g].req[d] = NoRequest]
    BY <1>1 DEF PassSkip
  <2>5. \A h \in Gens, e \in Ids :
          passes'[h].req[e] = passes[h].req[e] \/ passes'[h].req[e] = NoRequest
    BY <2>4 DEF Pass
  <2> QED BY <1>1, <2>3, <2>5, WorkCarries DEF PassSkip, client
<1>2. ASSUME NEW d \in Ids, PassBegin(g, d)
      PROVE  ClientInv'
  <2> DEFINE r == passes[g].req[d]
  <2>1. r # NoRequest /\ MayBegin(r) /\ jobs' = Begun(r)
    BY <1>2 DEF PassBegin, NextInPass
  <2>2. Current(r)
    BY <2>1 DEF ClientInv
  <2> HIDE DEF r
  <2>3. \A e \in Ids : jobs'[e] = jobs[e] \/ jobs'[e].req = r
    BY <2>1 DEF Begun, TypeInv, TypeOK
  <2> QED BY <1>0, <1>2, <2>2, <2>3, WorkCarries DEF PassBegin, list, client
<1>3. CASE PassEnd(g, ok) \/ PassAborts(g)
  <2>1. EnginesOK(dn')
    <3>1. EnginesOK(Schedule(policy, items, dn))
      BY <1>0, RulesKeepEngines
    <3>2. dn' = dn \/ dn' = Schedule(policy, items, dn)
      BY <1>3 DEF PassEnd, PassAborts, list
    <3> QED BY <1>0, <3>1, <3>2
  <2>2. passes' = [passes EXCEPT ![g] = DeadPass]
    BY <1>3 DEF PassEnd, PassAborts
  <2>3. \A h \in Gens, e \in Ids :
          passes'[h].req[e] = passes[h].req[e] \/ passes'[h].req[e] = NoRequest
    BY <2>2 DEF DeadPass, NoReqs
  <2> QED BY <1>3, <2>1, <2>3, WorkCarries DEF PassEnd, PassAborts, client
<1> QED BY <1>1, <1>2, <1>3 DEF PassStep

\* The sampler.
LEMMA ClientTick ==
  ASSUME TypeInv, ClientInv, NEW b \in BOOLEAN, NEW ok \in BOOLEAN, Tick(b, ok)
  PROVE  ClientInv'
<1> USE TypeFacts, GenFacts
<1> DEFINE p  == [policy EXCEPT !.blocked = b]
           S  == SyncPlay(p, items, Busy(jobs), dn)
           D1 == IF b # policy.blocked THEN Schedule(p, items, S) ELSE dn
           D2 == [d \in Ids |-> IF d \in Arrived(p, D1)
                                THEN [D1[d] EXCEPT !.status = "verifying"] ELSE D1[d]]
<1>1. EnginesOK(dn) /\ p \in Policy
  BY DEF ClientInv, Policy
<1>2. S \in [Ids -> Download(Gens)] /\ EnginesOK(S)
  BY <1>1, ListTypes, RulesKeepEngines
<1>3. D1 \in [Ids -> Download(Gens)] /\ EnginesOK(D1)
  BY <1>1, <1>2, ListTypes, RulesKeepEngines
<1>4. /\ dn' = D2
      /\ spawned' = spawned \cup {Req(d, "verify") : d \in Arrived(p, D1)}
      /\ UNCHANGED <<net, gen, jobs, passes>>
  BY DEF Tick, client
<1> HIDE DEF D1, p
<1>5. \A d \in Ids : D2[d].engine = D1[d].engine
  BY <1>3 DEF Download
<1>6. EnginesOK(D2)
  BY <1>3, <1>5, EnginesCarry
<1>7. \A d \in Arrived(p, D1) : d \in Ids /\ HasClient
  BY <1>3 DEF Arrived, EnginesOK
<1>8. \A d \in Arrived(p, D1) : Current(Req(d, "verify"))
  BY <1>7, RequestIsCurrent DEF Kinds
<1> HIDE DEF D2
<1> QED BY <1>4, <1>6, <1>8, WorkCarries

\* The settings.
LEMMA ClientApplySettings ==
  ASSUME TypeInv, ClientInv, NEW c \in Configs, NEW b \in BOOLEAN, NEW ok \in BOOLEAN,
         ApplySettings(c, b, ok)
  PROVE  ClientInv'
<1> USE TypeFacts, GenFacts
<1> DEFINE p  == [policy EXCEPT !.rate = c, !.blocked = b, !.max = c.max]
           turned == PlayHeld(p) # PlayHeld(policy) \/ b # policy.blocked
           D1 == IF turned THEN SyncPlay(p, items, Busy(jobs), dn) ELSE dn
           D2 == [d \in Ids |-> IF Found(d) THEN Applied(c, p, jobs[d] # NoJob, D1[d])
                                ELSE D1[d]]
<1>1. c \in Config /\ p \in Policy
  BY ManagerConstants DEF Config, Policy
<1>2. EnginesOK(dn)
  BY DEF ClientInv
<1>3. D1 \in [Ids -> Download(Gens)] /\ EnginesOK(D1)
  BY <1>1, <1>2, ListTypes, RulesKeepEngines
<1>4. /\ dn' = Schedule(p, items, D2) /\ UNCHANGED <<net, gen, jobs, passes>>
      /\ spawned' = spawned \/ HasClient
      /\ \A r \in spawned' : \/ r \in spawned
                             \/ \E d \in Ids : r = [Req(d, "restore") EXCEPT !.complete = TRUE]
  BY DEF ApplySettings
<1> HIDE DEF D1, p
<1>5. D2 \in [Ids -> Download(Gens)]
  BY <1>1, <1>3, AppliedType
<1>6. ASSUME NEW r \in Download(Gens), NEW busy \in BOOLEAN
      PROVE  Applied(c, p, busy, r).engine = 0 \/ Applied(c, p, busy, r).engine = r.engine
  BY <1>1 DEF Applied, Detached, AllowUpload, Download, Config, HasClient
<1>7. \A d \in Ids : D2[d].engine = 0 \/ D2[d].engine = D1[d].engine
  BY <1>3, <1>6
<1>8. EnginesOK(D2)
  BY <1>3, <1>7, EnginesCarry
<1> HIDE DEF D2
<1>9. EnginesOK(dn')
  BY <1>4, <1>5, <1>8, RulesKeepEngines
<1>10. \A r \in spawned' : r \in spawned \/ Current(r)
  <2>1. HasClient => \A d \in Ids : Current([Req(d, "restore") EXCEPT !.complete = TRUE])
    BY RequestIsCurrent DEF Kinds
  <2> QED BY <1>4, <2>1
<1> QED BY <1>4, <1>9, <1>10, WorkCarries

\* The client comes down and goes up: nothing under way is current any more.
LEMMA ClientSteps ==
  ASSUME TypeInv, ClientInv, NEW ok \in BOOLEAN,
         \/ RestoreStart \/ TeardownDetach \/ TeardownPark(ok) \/ TeardownDone \/ BringUp
  PROVE  ClientInv'
<1> USE TypeFacts, GenFacts, PassFacts
<1>0. EnginesOK(dn)
  BY DEF ClientInv
<1>a. ASSUME TypeInv', gen' = gen + 1, \A d \in Ids : dn'[d].engine = 0,
             UNCHANGED <<jobs, spawned>>,
             \A h \in Gens, d \in Ids : passes'[h].req[d] # NoRequest =>
               \/ passes'[h].req[d] = passes[h].req[d]
               \/ passes'[h].req[d].gen = gen' /\ net' = "up"
      PROVE  ClientInv'
  <2>1. gen \in Nat /\ gen' \in Gens
    BY <1>a DEF TypeInv, TypeOK
  <2>2. \A r : r.gen \in Gens /\ r.gen <= gen =>
                 r.gen \in Gens /\ r.gen <= gen' /\ r.gen # gen'
    <3>1. \A n \in Nat : n <= gen => n <= gen + 1 /\ n # gen + 1
      BY <2>1
    <3> QED BY <1>a, <3>1
  <2>3. \A r : Current(r) => r.gen \in Gens /\ r.gen <= gen' /\ r.gen # gen'
    BY <2>2 DEF Current
  <2>4. EnginesOK(dn)'
    BY <1>a DEF EnginesOK
  <2>5. \A r \in spawned' : r.gen \in Gens /\ r.gen <= gen' /\ r.gen # gen'
    BY <1>a, <2>3 DEF ClientInv
  <2>6. \A d \in Ids : jobs'[d] # NoJob =>
          /\ jobs'[d].req.gen \in Gens /\ jobs'[d].req.gen <= gen'
          /\ jobs'[d].req.gen # gen'
    BY <1>a, <2>3 DEF ClientInv
  <2>7. \A h \in Gens, d \in Ids : passes'[h].req[d] # NoRequest =>
          /\ passes'[h].req[d].gen \in Gens /\ passes'[h].req[d].gen <= gen'
          /\ passes'[h].req[d].gen = gen' => net' = "up"
    BY <1>a, <2>1, <2>3 DEF ClientInv
  <2> QED BY <2>4, <2>5, <2>6, <2>7 DEF ClientInv, Current, HasClient
<1>b. TypeInv'
  BY NextTypes DEF Background, Next
<1>1. CASE RestoreStart
  <2>1. UNCHANGED <<dn, net, gen, jobs, spawned>>
    BY <1>1 DEF RestoreStart, list
  <2>2. CASE ~HasClient
    BY <1>0, <1>1, <2>1, <2>2, WorkCarries DEF RestoreStart
  <2>3. CASE HasClient
    <3> DEFINE picked == [d \in Range(items) |-> Snapshot(gen, 0, d, NoEntry)]
    <3> DEFINE P == NewPass(0, picked, policy.saved.seed)
    <3>1. passes' = [passes EXCEPT ![0] = P]
      BY <1>1, <2>3 DEF RestoreStart
    <3>2. \A d \in Ids : P.req[d] # NoRequest => P.req[d].gen = gen
      BY DEF NewPass, Snapshot
    <3> HIDE DEF P
    <3>3. \A h \in Gens, d \in Ids : passes'[h].req[d] # NoRequest =>
            passes'[h].req[d] = passes[h].req[d] \/ passes'[h].req[d].gen = gen
      BY <3>1, <3>2
    <3>4. \A h \in Gens, d \in Ids : passes'[h].req[d] # NoRequest =>
            passes'[h].req[d] = passes[h].req[d] \/ Current(passes'[h].req[d])
      <4>1. \A r : r.gen = gen => Current(r)
        BY <2>3 DEF Current
      <4> QED BY <3>3, <4>1
    <3> QED BY <1>0, <2>1, <3>4, WorkCarries
  <2> QED BY <2>2, <2>3
<1>2. CASE TeardownDetach
  BY <1>2, <1>a, <1>b DEF TeardownDetach, Detached, Download
<1>3. CASE TeardownPark(ok)
  <2>1. \A d \in Ids : dn'[d] = dn[d] \/ dn'[d] = [dn[d] EXCEPT !.status = "queued"]
    BY <1>3 DEF TeardownPark, Parked
  <2>2. \A d \in Ids : dn'[d].engine = dn[d].engine
    <3> TAKE d \in Ids
    <3>1. [dn[d] EXCEPT !.status = "queued"].engine = dn[d].engine
      BY DEF Download
    <3> QED BY <2>1, <3>1
  <2>3. ~HasClient /\ ~HasClient' /\ gen' = gen
    BY <1>3 DEF TeardownPark, HasClient
  <2>4. EnginesOK(dn)'
    BY <1>0, <2>2, <2>3 DEF EnginesOK
  <2>5. \A d \in Ids : jobs'[d] # NoJob => jobs[d] # NoJob /\ jobs'[d].req = jobs[d].req
    <3> TAKE d \in Ids
    <3>1. jobs'[d] = jobs[d] \/ (d \in awaited /\ jobs'[d] = [jobs[d] EXCEPT !.cancelled = TRUE])
      BY <1>3 DEF TeardownPark
    <3>2. d \in awaited => jobs[d] # NoJob
      BY DEF TypeInv, Bounds, Busy
    <3>3. jobs[d] # NoJob => [jobs[d] EXCEPT !.cancelled = TRUE].req = jobs[d].req
      BY JobFacts DEF Job
    <3> QED BY <3>1, <3>2, <3>3
  <2> QED BY <1>3, <2>3, <2>4, <2>5 DEF TeardownPark, ClientInv, Current
<1>4. CASE TeardownDone
  BY <1>0, <1>4 DEF TeardownDone, ClientInv, EnginesOK, Current, HasClient, list, work
<1>5. CASE BringUp
  <2>1. \A d \in Ids : dn'[d].engine = 0
    BY <1>0, <1>5 DEF BringUp, EnginesOK, HasClient, list
  <2>2. gen' = gen + 1 /\ net' = "up" /\ UNCHANGED <<jobs, spawned>>
    BY <1>5 DEF BringUp
  <2> DEFINE how(d) == [resume.ids[d] EXCEPT !.trusted = @ /\ ~resume.all]
             picked == [d \in Picked |-> Snapshot(gen + 1, gen + 1, d, how(d))]
             P(s) == NewPass(gen + 1, picked, s)
  <2>3. passes' = passes \/ \E c \in Configs : passes' = [passes EXCEPT ![gen + 1] = P(c.seed)]
    BY <1>5 DEF BringUp
  <2>4. \A s : \A d \in Ids : P(s).req[d] # NoRequest => P(s).req[d].gen = gen + 1
    BY DEF NewPass, Snapshot
  <2> HIDE DEF P
  <2>5. \A h \in Gens, d \in Ids : passes'[h].req[d] # NoRequest =>
          \/ passes'[h].req[d] = passes[h].req[d]
          \/ passes'[h].req[d].gen = gen' /\ net' = "up"
    BY <2>2, <2>3, <2>4
  <2> QED BY <1>a, <1>b, <2>1, <2>2, <2>5
<1> QED BY <1>1, <1>2, <1>3, <1>4, <1>5

\* What goes on in the background.
LEMMA ClientBackground ==
  ASSUME TypeInv, ClientInv, NEW ok \in BOOLEAN, Background(ok)
  PROVE  ClientInv'
<1> USE TypeFacts, GenFacts
<1>0. EnginesOK(dn)
  BY DEF ClientInv
<1>1. ASSUME NEW d \in Ids, Transfer(d)
      PROVE  ClientInv'
  BY <1>0, <1>1, EnginesCarry, WorkCarries DEF Transfer, Download, work, client
<1>2. ASSUME NEW r \in spawned, FailSpawned(r, ok)
      PROVE  ClientInv'
  BY <1>2, ClientMarkFailed, WorkCarries DEF TypeInv, TypeOK, Request, FailSpawned, client
<1>3. ASSUME NEW r \in spawned, Begin(r)
      PROVE  ClientInv'
  <2>1. Current(r)
    BY DEF ClientInv
  <2>2. \A e \in Ids : jobs'[e] = jobs[e] \/ jobs'[e].req = r
    BY <1>3 DEF Begin, Begun, TypeInv, TypeOK
  <2> QED BY <1>0, <1>3, <2>1, <2>2, WorkCarries DEF Begin, list, client
<1>4. ASSUME NEW d \in Ids, JobStep(d, ok)
      PROVE  ClientInv'
  BY <1>4, ClientJobs
<1>5. ASSUME NEW g \in Gens, PassStep(g, ok)
      PROVE  ClientInv'
  BY <1>5, ClientPasses
<1>6. ASSUME NEW b \in BOOLEAN, Tick(b, ok)
      PROVE  ClientInv'
  BY <1>6, ClientTick
<1>7. ASSUME NEW c \in Configs, NEW b \in BOOLEAN, ApplySettings(c, b, ok)
      PROVE  ClientInv'
  BY <1>7, ClientApplySettings
<1>8. CASE \/ RestoreStart \/ TeardownDetach \/ TeardownPark(ok) \/ TeardownDone
           \/ BringUp
  BY <1>8, ClientSteps
<1>9. CASE Quit(ok)
  BY <1>9, ClientRestarted DEF Quit
<1> QED BY <1>1, <1>2, <1>3, <1>4, <1>5, <1>6, <1>7, <1>8, <1>9 DEF Background

\* Everything under way belongs to the client it was made for.
LEMMA ClientInvariant == Spec => [](TypeInv /\ ClientInv)
<1>1. Init => ClientInv
  BY DEF Init, Booted, Loaded, DeadPass, NoReqs, ClientInv, EnginesOK
<1>2. TypeInv /\ ClientInv /\ [Next]_vars => ClientInv'
  <2> SUFFICES ASSUME TypeInv, ClientInv, [Next]_vars
               PROVE  ClientInv'
    OBVIOUS
  <2>1. CASE Environment
    BY <2>1, ClientEnvironment
  <2>2. ASSUME NEW ok \in BOOLEAN, Requests(ok)
        PROVE  ClientInv'
    BY <2>2, ClientRequests
  <2>3. ASSUME NEW ok \in BOOLEAN, Background(ok)
        PROVE  ClientInv'
    BY <2>3, ClientBackground
  <2>4. CASE UNCHANGED vars
    BY <2>4, WorkCarries DEF vars, list, work, client, ClientInv
  <2> QED BY <2>1, <2>2, <2>3, <2>4 DEF Next
<1> QED BY <1>1, <1>2, TypeInvariant, PTL DEF Spec

\* No torrent of a client that was taken down is ever put back, however many
\* clients come and go and whatever was under way: what a job restores goes to
\* the client that is installed, and to none while there is none.
THEOREM TorrentsOfInstalledClient == Spec => []EnginesBelongToClient
<1>1. ClientInv => EnginesBelongToClient
  BY DEF ClientInv, EnginesOK, EnginesBelongToClient
<1> QED BY <1>1, ClientInvariant, PTL
-----------------------------------------------------------------------------
(* schedule() gives every place in the list a slot, so all of it rests on   *)
(* no download having two places.                                           *)

\* No download is twice in the list, in memory or on the disk.
Once == IsInjective(items) /\ IsInjective(disk.items)

\* A download that is not in the list yet is added once.
LEMMA AppendOnce ==
  ASSUME NEW q \in Seq(Ids), IsInjective(q), NEW d \in Ids, d \notin Range(q)
  PROVE  IsInjective(Append(q, d))
<1> DEFINE r == Append(q, d)
<1>1. /\ DOMAIN r = 1..Len(q)+1 /\ r[Len(q)+1] = d
      /\ \A i \in 1..Len(q) : i \in DOMAIN q /\ r[i] = q[i] /\ r[i] # d
  BY AppendProperties DEF Range
<1> HIDE DEF r
<1> SUFFICES ASSUME NEW a \in DOMAIN r, NEW b \in DOMAIN r, r[a] = r[b]
             PROVE  a = b
  BY DEF IsInjective, r
<1>2. CASE a \in 1..Len(q) /\ b \in 1..Len(q)
  BY <1>1, <1>2 DEF IsInjective
<1>3. Len(q) \in Nat
  OBVIOUS
<1>4. CASE a = Len(q)+1 \/ b = Len(q)+1
  BY <1>1, <1>3, <1>4
<1> QED BY <1>1, <1>2, <1>3, <1>4

\* Two that change places leave every download once in the list, and nobody out of it.
LEMMA SwapOnce ==
  ASSUME NEW q \in Seq(Ids), IsInjective(q), NEW i \in DOMAIN q, NEW j \in DOMAIN q
  PROVE  /\ IsInjective([q EXCEPT ![i] = q[j], ![j] = q[i]])
         /\ Range([q EXCEPT ![i] = q[j], ![j] = q[i]]) = Range(q)
<1> DEFINE r == [q EXCEPT ![i] = q[j], ![j] = q[i]]
           p == [k \in DOMAIN q |-> IF k = i THEN j ELSE IF k = j THEN i ELSE k]
<1>1. DOMAIN r = DOMAIN q /\ \A k \in DOMAIN q : r[k] = q[p[k]] /\ p[k] \in DOMAIN q /\ p[p[k]] = k
  OBVIOUS
<1> HIDE DEF r, p
<1>2. \A a, b \in DOMAIN q : p[a] = p[b] => a = b
  BY <1>1
<1>3. IsInjective(r)
  <2> SUFFICES ASSUME NEW a \in DOMAIN r, NEW b \in DOMAIN r, r[a] = r[b]
               PROVE  a = b
    BY DEF IsInjective
  <2>1. a \in DOMAIN q /\ b \in DOMAIN q /\ q[p[a]] = q[p[b]]
    BY <1>1
  <2>2. p[a] = p[b]
    BY <1>1, <2>1 DEF IsInjective
  <2> QED BY <1>2, <2>1, <2>2
<1>4. \A k \in DOMAIN q : p[k] \in DOMAIN r /\ q[k] = r[p[k]]
  BY <1>1
<1>5. Range(r) = Range(q)
  <2>1. ASSUME NEW k \in DOMAIN r PROVE r[k] \in Range(q)
    BY <1>1 DEF Range
  <2>2. ASSUME NEW k \in DOMAIN q PROVE q[k] \in Range(r)
    BY <1>4 DEF Range
  <2> QED BY <2>1, <2>2 DEF Range
<1> QED BY <1>3, <1>5 DEF r

\* Taking one download out leaves the others, in their order.
LEMMA RemoveOnce ==
  ASSUME NEW q \in Seq(Ids), IsInjective(q), NEW i \in DOMAIN q
  PROVE  /\ IsInjective(RemoveAt(q, i))
         /\ Range(RemoveAt(q, i)) = Range(q) \ {q[i]}
<1> DEFINE r == RemoveAt(q, i)
           n == Len(q)
           p(k) == IF k < i THEN k ELSE k + 1
<1>1. i \in 1..n /\ n \in Nat /\ DOMAIN q = 1..n
  OBVIOUS
<1>2. /\ DOMAIN r = 1..n-1
      /\ \A k \in 1..n-1 : r[k] = q[p(k)]
  <2> DEFINE a == SubSeq(q, 1, i - 1)
             b == SubSeq(q, i + 1, n)
  <2>1. a \in Seq(Ids) /\ Len(a) = i - 1 /\ \A k \in 1..i-1 : a[k] = q[k]
    BY <1>1, SubSeqProperties
  <2>2. /\ b \in Seq(Ids) /\ Len(b) = n - i
        /\ \A k \in 1..n-i : b[k] = q[i + k]
    <3>1. \A k \in i+1 .. n : q[k] \in Ids
      BY <1>1
    <3>2. /\ b \in Seq(Ids)
          /\ Len(b) = IF i + 1 <= n THEN n - (i + 1) + 1 ELSE 0
          /\ \A k \in 1..Len(b) : b[k] = q[i + 1 + k - 1]
      BY <1>1, <3>1, SubSeqProperties
    <3> HIDE DEF b
    <3>3. Len(b) = n - i
      BY <1>1, <3>2
    <3>4. \A k \in 1..n-i : i + 1 + k - 1 = i + k
      BY <1>1
    <3> QED BY <3>2, <3>3, <3>4
  <2> HIDE DEF a, b
  <2>3. /\ a \o b \in Seq(Ids) /\ Len(a \o b) = Len(a) + Len(b)
        /\ \A k \in 1..Len(a) + Len(b) :
             (a \o b)[k] = IF k <= Len(a) THEN a[k] ELSE b[k - Len(a)]
    BY <2>1, <2>2, ConcatProperties
  <2>4. DOMAIN (a \o b) = 1..n-1
    <3>1. Len(a) + Len(b) = n - 1
      BY <1>1, <2>1, <2>2
    <3>2. DOMAIN (a \o b) = 1..Len(a \o b)
      BY <2>3
    <3> QED BY <2>3, <3>1, <3>2
  <2>5. ASSUME NEW k \in 1..n-1 PROVE (a \o b)[k] = q[p(k)]
    <3>1. CASE k <= i - 1
      BY <1>1, <2>1, <2>2, <2>3, <3>1
    <3>2. CASE ~(k <= i - 1)
      <4>1. k - (i - 1) \in 1..n-i /\ i + (k - (i - 1)) = k + 1 /\ ~(k < i)
        BY <1>1, <3>2
      <4>2. k \in 1..Len(a) + Len(b) /\ ~(k <= Len(a)) /\ Len(a) = i - 1
        BY <1>1, <2>1, <2>2, <3>2
      <4>3. (a \o b)[k] = b[k - (i - 1)]
        BY <2>3, <4>2
      <4> QED BY <2>2, <4>1, <4>3
    <3> QED BY <1>1, <3>1, <3>2
  <2> QED BY <2>4, <2>5 DEF RemoveAt, a, b
<1>3. \A k \in 1..n-1 : p(k) \in 1..n /\ p(k) # i
  BY <1>1
<1>4. \A k, l \in 1..n-1 : p(k) = p(l) => k = l
  BY <1>1
<1>5. \A k \in 1..n : k # i => \E l \in 1..n-1 : p(l) = k
  <2> SUFFICES ASSUME NEW k \in 1..n, k # i PROVE \E l \in 1..n-1 : p(l) = k
    OBVIOUS
  <2>1. CASE k < i
    BY <1>1, <2>1
  <2>2. CASE k > i
    BY <1>1, <2>2
  <2> QED BY <1>1, <2>1, <2>2
<1> HIDE DEF r, p
<1>6. IsInjective(r)
  BY <1>1, <1>2, <1>3, <1>4 DEF IsInjective
<1>7. Range(r) = Range(q) \ {q[i]}
  <2>1. \A k \in 1..n-1 : r[k] \in Range(q) /\ r[k] # q[i]
    BY <1>1, <1>2, <1>3 DEF Range, IsInjective
  <2>2. \A k \in 1..n : q[k] # q[i] => \E l \in 1..n-1 : r[l] = q[k]
    BY <1>2, <1>5
  <2>3. ASSUME NEW x \in Range(r) PROVE x \in Range(q) \ {q[i]}
    BY <1>2, <2>1 DEF Range
  <2>4. ASSUME NEW x \in Range(q), x # q[i] PROVE x \in Range(r)
    <3>1. PICK k \in 1..n : x = q[k]
      BY <1>1 DEF Range
    <3> QED BY <1>2, <2>2, <2>4, <3>1 DEF Range
  <2> QED BY <2>3, <2>4
<1> QED BY <1>6, <1>7 DEF r

\* A write of the list leaves a list without doubles on the disk.
LEMMA WriteOnce ==
  ASSUME Once, NEW ok, NEW q, IsInjective(q), NEW D, Persist(ok, q, D)
  PROVE  IsInjective(disk'.items)
BY DEF Once, Persist, Image

\* Every handler of the list keeps it without doubles.
LEMMA OnceRequests ==
  ASSUME TypeInv, Once, NEW ok \in BOOLEAN, Requests(ok)
  PROVE  Once'
<1> USE TypeFacts
<1>0. IsInjective(items) /\ IsInjective(disk.items)
  BY DEF Once
<1>1. ASSUME NEW d \in Ids, Add(d, ok) \/ AddTask(d, ok)
      PROVE  Once'
  BY <1>0, <1>1, AppendOnce, WriteOnce DEF Add, AddTask, Found, Once
<1>2. ASSUME NEW d \in Ids,
             \/ Pause(d, ok) \/ Resume(d, ok) \/ ForceStart(d, ok)
             \/ DownloadNow(d, ok) \/ StopSeeding(d, ok)
      PROVE  Once'
  <2>1. items' = items
    BY <1>2 DEF Pause, Resume, ForceStart, DownloadNow, StopSeeding, QueueWhileDown,
                Reattach
  <2>2. UNCHANGED disk \/ \E D : Persist(ok, items, D)
    BY <1>2 DEF Pause, Resume, ForceStart, DownloadNow, StopSeeding, QueueWhileDown,
                Reattach, Commit
  <2> QED BY <1>0, <2>1, <2>2, WriteOnce DEF Once
<1>3. ASSUME NEW i \in DOMAIN items, NEW j \in DOMAIN items, Move(i, j, ok)
      PROVE  Once'
  <2> DEFINE q == [items EXCEPT ![i] = items[j], ![j] = items[i]]
  <2>1. IsInjective(q)
    BY <1>0, SwapOnce
  <2>2. Persist(ok, q, dn) /\ (items' = q \/ items' = items)
    BY <1>3 DEF Move
  <2> HIDE DEF q
  <2> QED BY <1>0, <2>1, <2>2, WriteOnce DEF Once
<1>4. ASSUME NEW i \in DOMAIN items, Discard(i, ok) \/ StopAndWait(i, ok)
      PROVE  Once'
  <2> DEFINE q == RemoveAt(items, i)
  <2>1. IsInjective(q)
    BY <1>0, RemoveOnce
  <2>2. Persist(ok, q, dn) /\ (items' = q \/ items' = items)
    BY <1>4 DEF Discard, StopAndWait, Drop
  <2> HIDE DEF q
  <2> QED BY <1>0, <2>1, <2>2, WriteOnce DEF Once
<1> QED BY <1>1, <1>2, <1>3, <1>4 DEF Requests

\* Nothing but a request changes the list, apart from a new start.
LEMMA OnceElsewhere ==
  ASSUME Once, UNCHANGED items,
         UNCHANGED disk \/ \E ok \in BOOLEAN : \E D : Persist(ok, items, D)
  PROVE  Once'
BY WriteOnce DEF Once

\* The list a start reads back was written from one in memory.
LEMMA OnceRestarted ==
  ASSUME NEW st, IsInjective(st.items), Restarted(st)
  PROVE  Once'
BY DEF Once, Restarted

\* No job touches the list.
LEMMA OnceJobs ==
  ASSUME Once, NEW d \in Ids, NEW ok \in BOOLEAN, JobStep(d, ok)
  PROVE  Once'
<1>1. UNCHANGED items
  BY DEF JobStep, Attach, AttachFails, GotInfo, Settle, Check, VerifyPasses, VerifyFails,
         EndJob, list
<1>2. UNCHANGED disk \/ \E D : Persist(ok, items, D)
  <2>1. ASSUME NEW D, Finish(d, D, ok) PROVE \E D1 : Persist(ok, items, D1)
    BY <2>1 DEF Finish
  <2>2. FinishSeed(d, ok) => \E D : Persist(ok, items, D)
    BY DEF FinishSeed
  <2>3. MarkFailed(d, ok) => UNCHANGED disk \/ \E D : Persist(ok, items, D)
    BY DEF MarkFailed
  <2>4. Attach(d) \/ GotInfo(d) \/ EndJob(d) => UNCHANGED disk
    BY DEF Attach, GotInfo, EndJob, list
  <2>5. AttachFails(d, ok) \/ VerifyFails(d, ok) => UNCHANGED disk \/ \E D : Persist(ok, items, D)
    BY <2>3 DEF AttachFails, VerifyFails, RestoreFailed
  <2>6. Settle(d, ok) => UNCHANGED disk \/ \E D : Persist(ok, items, D)
    BY <2>1, <2>2 DEF Settle
  <2>7. Check(d, ok) => UNCHANGED disk \/ \E D : Persist(ok, items, D)
    BY <2>1 DEF Check
  <2>8. VerifyPasses(d, ok) => UNCHANGED disk \/ \E D : Persist(ok, items, D)
    BY DEF VerifyPasses
  <2> QED BY <2>4, <2>5, <2>6, <2>7, <2>8 DEF JobStep
<1> QED BY <1>1, <1>2, OnceElsewhere

\* Every step leaves each download at most once in the list.
LEMMA OnceStep ==
  ASSUME TypeInv, Once, [Next]_vars
  PROVE  Once'
<1>1. CASE UNCHANGED vars
  BY <1>1, OnceElsewhere DEF vars, list
<1>2. CASE Environment
  <2>1. CASE Crash
    BY <2>1, OnceRestarted DEF Crash, Once
  <2>2. CASE ~Crash
    <3>1. UNCHANGED <<items, disk>>
      BY <1>2, <2>2 DEF Environment, StopSeedingJob, WriteError, SetGamesRunning, SaveSettings,
                 SwitchNetwork, Close, list
    <3> QED BY <3>1, OnceElsewhere
  <2> QED BY <2>1, <2>2
<1>3. ASSUME NEW ok \in BOOLEAN, Background(ok)
      PROVE  Once'
  <2>1. ASSUME NEW b \in BOOLEAN, Tick(b, ok) PROVE Once'
    BY <2>1, OnceElsewhere DEF Tick
  <2>2. ASSUME NEW c \in Configs, NEW b \in BOOLEAN, ApplySettings(c, b, ok) PROVE Once'
    BY <2>2, OnceElsewhere DEF ApplySettings
  <2>3. ASSUME NEW d \in Ids, Transfer(d) PROVE Once'
    BY <2>3, OnceElsewhere DEF Transfer
  <2>4. ASSUME NEW r \in spawned, FailSpawned(r, ok) \/ Begin(r) PROVE Once'
    BY <2>4, OnceElsewhere DEF FailSpawned, Begin, MarkFailed, list
  <2>5. ASSUME NEW g \in Gens, PassStep(g, ok) PROVE Once'
    BY <2>5, OnceElsewhere DEF PassStep, PassSkip, PassBegin, PassEnd, PassAborts, list
  <2>6. CASE RestoreStart \/ TeardownDetach \/ TeardownDone \/ BringUp
    BY <2>6, OnceElsewhere DEF RestoreStart, TeardownDetach, TeardownDone, BringUp, list
  <2>7. CASE TeardownPark(ok)
    BY <2>7, OnceElsewhere DEF TeardownPark
  <2>8. CASE Quit(ok)
    BY <2>8, OnceRestarted DEF Once, Image, Quit
  <2> QED BY <1>3, <2>1, <2>2, <2>3, <2>4, <2>5, <2>6, <2>7, <2>8, OnceJobs DEF Background
<1> QED BY <1>1, <1>2, <1>3, OnceRequests DEF Next

\* No download is ever twice in the list.
LEMMA OnceInvariant == Spec => [](TypeInv /\ Once)
<1>1. Init => Once
  BY ManagerConstants DEF Init, Booted, Once
<1> QED BY <1>1, TypeInvariant, OnceStep, PTL DEF Spec

-----------------------------------------------------------------------------
(* The limit and the order.  Whatever a handler does to the records, it     *)
(* starts nobody itself, but for a forced start, or ends with schedule().   *)

\* No start but the ones the user forced ...
NoStart == \A d \in Ids : Starts(d) => ForcedNow(d)

\* ... or records in which nobody has been started yet, and schedule() over them.
Unstarted(E) == \A d \in Ids : dn[d].status = "queued" /\ ~ForcedNow(d)
                               => E[d].status # "downloading"

Scheduled(E) ==
  /\ E \in [Ids -> Download(Gens)] /\ Unstarted(E)
  /\ \A d \in Ids : \/ dn'[d] = Schedule(policy', items', E)[d]
                    \/ dn'[d].status = "verifying"

Orderly == NoStart \/ \E E : Scheduled(E)

\* The two properties, as what one step may do.
WithinLimit ==
  (\E d \in Range(items) : Starts(d) /\ ~ForcedNow(d))
  => Cardinality({d \in Range(items') : Running(policy', dn'[d])}) <= policy'.max

InOrder ==
  \A i, j \in DOMAIN items' :
    i < j /\ Starts(items'[j]) /\ ~ForcedNow(items'[j])
    => ~MayStart(policy', dn'[items'[i]])

\* Whoever starts downloads only with schedule() keeps both properties.
LEMMA OrderlyFollowsQueue ==
  ASSUME TypeInv, TypeInv', Once', Orderly
  PROVE  WithinLimit /\ InOrder
<1>0. /\ items' \in Seq(Ids) /\ policy' \in Policy /\ items \in Seq(Ids)
      /\ IsInjective(items') /\ Range(items) \subseteq Ids /\ Range(items') \subseteq Ids
      /\ \A i \in DOMAIN items' : items'[i] \in Ids
      /\ policy'.max \in Nat
  BY DEF TypeInv, TypeOK, Once, Range, Policy
<1>1. CASE NoStart
  BY <1>0, <1>1 DEF NoStart, WithinLimit, InOrder
<1>2. ASSUME NEW E, Scheduled(E)
      PROVE  WithinLimit /\ InOrder
  <2> DEFINE S == Schedule(policy', items', E)
  <2>1. E \in [Ids -> Download(Gens)] /\ S \in [Ids -> Download(Gens)]
    BY <1>0, <1>2, ListTypes, GenFacts DEF Scheduled
  <2>2. \A d \in Ids : Starts(d) /\ ~ForcedNow(d) => S[d] # E[d]
    <3> SUFFICES ASSUME NEW d \in Ids, Starts(d), ~ForcedNow(d), S[d] = E[d]
                 PROVE  FALSE
      OBVIOUS
    <3>1. dn[d].status = "queued" /\ dn'[d].status = "downloading"
      BY DEF Starts
    <3>2. E[d].status # "downloading"
      BY <1>2, <3>1 DEF Scheduled, Unstarted
    <3>3. dn'[d] = S[d]
      BY <1>2, <3>1 DEF Scheduled
    <3> QED BY <3>1, <3>2, <3>3
  <2>3. \A d \in Ids : /\ Running(policy', dn'[d]) => CountsActive(policy', S[d])
                       /\ MayStart(policy', dn'[d]) => MayStart(policy', S[d])
    <3> SUFFICES ASSUME NEW d \in Ids
                 PROVE  /\ Running(policy', dn'[d]) => CountsActive(policy', S[d])
                        /\ MayStart(policy', dn'[d]) => MayStart(policy', S[d])
      OBVIOUS
    <3>1. dn'[d] = S[d] \/ dn'[d].status = "verifying"
      BY <1>2 DEF Scheduled
    <3> HIDE DEF S
    <3> QED BY <3>1 DEF Running, CountsActive, Occupies, MayStart
  <2>4. WithinLimit
    <3> SUFFICES ASSUME NEW d \in Range(items), Starts(d), ~ForcedNow(d)
                 PROVE  Cardinality({e \in Range(items') : Running(policy', dn'[e])})
                          <= policy'.max
      BY DEF WithinLimit
    <3>1. d \in Ids /\ S[d] # E[d]
      BY <1>0, <2>2
    <3>2. Active(policy', items', S) <= policy'.max
      BY <1>0, <2>1, <3>1, ScheduleWithinLimit
    <3>3. /\ {e \in Range(items') : Running(policy', dn'[e])} \subseteq
             {e \in Range(items') : CountsActive(policy', S[e])}
          /\ IsFiniteSet({e \in Range(items') : CountsActive(policy', S[e])})
          /\ Active(policy', items', S) \in Nat
      <4> HIDE DEF S
      <4> QED BY <1>0, <2>1, <2>3, CountsAreFinite
    <3>4. /\ Cardinality({e \in Range(items') : Running(policy', dn'[e])})
               <= Active(policy', items', S)
          /\ Cardinality({e \in Range(items') : Running(policy', dn'[e])}) \in Nat
      <4> HIDE DEF S
      <4> QED BY <3>3, FS_Subset, FS_CardinalityType DEF Active
    <3> HIDE DEF S
    <3> QED BY <1>0, <3>2, <3>3, <3>4
  <2>5. InOrder
    <3> SUFFICES ASSUME NEW i \in DOMAIN items', NEW j \in DOMAIN items', i < j,
                        Starts(items'[j]), ~ForcedNow(items'[j])
                 PROVE  ~MayStart(policy', dn'[items'[i]])
      BY DEF InOrder
    <3>1. items'[j] \in Ids /\ items'[i] \in Ids
      BY <1>0
    <3>2. S[items'[j]] # E[items'[j]]
      BY <2>2, <3>1
    <3>3. ~MayStart(policy', S[items'[i]])
      BY <1>0, <2>1, <3>2, ScheduleInOrder
    <3> QED BY <2>3, <3>1, <3>3
  <2> QED BY <2>4, <2>5
<1> QED BY <1>1, <1>2 DEF Orderly

\* Records that still are where they were, or moved to another status than running.
LEMMA SameStatus ==
  ASSUME TypeInv, NEW E,
         \A d \in Ids : E[d].status = dn[d].status \/ E[d].status # "downloading"
  PROVE  Unstarted(E) /\ (dn' = E => NoStart)
BY DEF Unstarted, NoStart, Starts

\* One download is changed, to another status than running.
LEMMA OneChanged ==
  ASSUME TypeInv, NEW d \in Ids, NEW r,
         r.status = dn[d].status \/ r.status # "downloading" \/ ForcedNow(d)
  PROVE  /\ Unstarted([dn EXCEPT ![d] = r])
         /\ dn' = [dn EXCEPT ![d] = r] => NoStart
<1>1. \A e \in Ids : [dn EXCEPT ![d] = r][e] = IF e = d THEN r ELSE dn[e]
  BY TypeFacts
<1> DEFINE E == [dn EXCEPT ![d] = r]
<1> HIDE DEF E
<1>2. Unstarted(E)
  BY <1>1 DEF Unstarted, E
<1>3. dn' = E => NoStart
  BY <1>1 DEF NoStart, Starts, E
<1> QED BY <1>2, <1>3 DEF E

\* The ends of the handlers.
LEMMA OrderlyEnds ==
  ASSUME TypeInv, NEW E \in [Ids -> Download(Gens)], Unstarted(E),
         dn' = Schedule(policy', items', E)
  PROVE  Orderly
BY DEF Orderly, Scheduled

\* A request that changes one download and ends with schedule() ...
LEMMA OrderlyCommit ==
  ASSUME TypeInv, NEW d \in Ids, NEW r \in Download(Gens), r.status # "downloading",
         NEW ok \in BOOLEAN, Commit(ok, [dn EXCEPT ![d] = r], dn),
         UNCHANGED <<items, policy>>
  PROVE  Orderly
<1> DEFINE E == [dn EXCEPT ![d] = r]
<1>1. E \in [Ids -> Download(Gens)]
  BY TypeFacts
<1>2. Unstarted(E)
  BY OneChanged
<1>3. dn' = Schedule(policy', items', E) \/ dn' = dn
  BY DEF Commit
<1> HIDE DEF E
<1> QED BY <1>1, <1>2, <1>3, OrderlyEnds, SameStatus DEF Orderly

\* ... or that leaves the downloads alone.
LEMMA OrderlyUnchanged ==
  ASSUME TypeInv, dn' = dn
  PROVE  Orderly
BY SameStatus DEF Orderly

\* What the rules leave of a record.
LEMMA RulesKeepStatus ==
  ASSUME NEW p, NEW q, NEW busy, NEW D \in [Ids -> Download(Gens)], NEW d \in Ids
  PROVE  /\ SyncPlay(p, q, busy, D)[d].status = D[d].status
         /\ SyncPlay(p, q, busy, D)[d].engine = D[d].engine
         /\ SyncPlay(p, q, busy, D)[d].ignore = D[d].ignore
<1>1. D[d] \in Download(Gens) /\ SyncPlay(p, q, busy, D)[d] \in {D[d], Synced(p, d \in busy, D[d])}
  BY DEF SyncPlay
<1>2. ASSUME NEW r \in Download(Gens), NEW b
      PROVE  /\ Synced(p, b, r).status = r.status
             /\ Synced(p, b, r).engine = r.engine
             /\ Synced(p, b, r).ignore = r.ignore
  BY DEF Synced, Gated, Download
<1> QED BY <1>1, <1>2

\* The requests of the user.
LEMMA OrderlyRequests ==
  ASSUME TypeInv, NEW ok \in BOOLEAN, Requests(ok)
  PROVE  Orderly
<1> USE TypeFacts, GenFacts
<1>0. \A d \in Ids : dn[d] \in Download(Gens)
  OBVIOUS
<1>1. ASSUME NEW d \in Ids, Add(d, ok) PROVE Orderly
  <2> DEFINE E == [dn EXCEPT ![d] = Attached(@, gen)]
  <2>1. E \in [Ids -> Download(Gens)]
    BY RecordTypes
  <2>2. Unstarted(E)
    BY <1>0, OneChanged DEF Attached, Download
  <2>3. dn' = Schedule(policy', items', E) \/ dn' = dn
    BY <1>1 DEF Add, rules
  <2> HIDE DEF E
  <2> QED BY <2>1, <2>2, <2>3, OrderlyEnds, OrderlyUnchanged
<1>2. ASSUME NEW d \in Ids, AddTask(d, ok) PROVE Orderly
  BY <1>2, OrderlyUnchanged DEF AddTask
<1>3. ASSUME NEW d \in Ids, Pause(d, ok) PROVE Orderly
  <2> DEFINE r == Gated([dn[d] EXCEPT !.status = "paused"])
  <2>1. r \in Download(Gens) /\ r.status # "downloading"
    <3>1. [dn[d] EXCEPT !.status = "paused"] \in Download(Gens)
      BY <1>0, StatusType DEF Statuses
    <3>2. r.status = "paused"
      BY <1>0 DEF Gated, Download
    <3> QED BY <3>1, <3>2, RecordTypes
  <2>2. Commit(ok, [dn EXCEPT ![d] = r], dn) /\ UNCHANGED <<items, policy>>
    BY <1>3 DEF Pause, rules
  <2> HIDE DEF r
  <2> QED BY <2>1, <2>2, OrderlyCommit
<1>4. ASSUME NEW d \in Ids, NEW force, Reattach(d, force, ok) \/ QueueWhileDown(d, force, ok)
      PROVE Orderly
  BY <1>0, <1>4, OneChanged, OrderlyUnchanged DEF Reattach, QueueWhileDown, Download, Orderly
<1>5. ASSUME NEW d \in Ids, Resume(d, ok) PROVE Orderly
  <2>1. CASE Commit(ok, [dn EXCEPT ![d].status = "queued"], dn) /\ UNCHANGED <<items, rules>>
    <3> DEFINE r == [dn[d] EXCEPT !.status = "queued"]
    <3>1. r \in Download(Gens) /\ r.status # "downloading"
      BY <1>0 DEF Download, Statuses
    <3>2. Commit(ok, [dn EXCEPT ![d] = r], dn) /\ UNCHANGED <<items, policy>>
      BY <2>1 DEF rules
    <3> HIDE DEF r
    <3> QED BY <3>1, <3>2, OrderlyCommit
  <2> QED BY <1>4, <1>5, <2>1 DEF Resume
<1>6. ASSUME NEW d \in Ids, ForceStart(d, ok) PROVE Orderly
  <2>1. ForcedNow(d)
    BY <1>6 DEF ForcedNow
  <2>2. CASE dn[d].engine = 0
    BY <1>4, <1>6, <2>2 DEF ForceStart
  <2>3. CASE dn[d].engine # 0
    BY <1>6, <2>1, <2>3 DEF ForceStart, QueueWhileDown, Reattach, Orderly, NoStart, Starts
  <2> QED BY <2>2, <2>3
<1>7. ASSUME NEW d \in Ids, DownloadNow(d, ok) PROVE Orderly
  <2> DEFINE D == [dn EXCEPT ![d].ignore = TRUE]
             E == SyncPlay(policy, items, Busy(jobs), D)
  <2>1. D \in [Ids -> Download(Gens)] /\ \A e \in Ids : D[e].status = dn[e].status
    BY ZenonT(60), <1>0 DEF Download
  <2>2. E \in [Ids -> Download(Gens)] /\ \A e \in Ids : E[e].status = dn[e].status
    <3> HIDE DEF D
    <3> QED BY <2>1, ListTypes, RulesKeepStatus
  <2>3. dn' = dn \/ dn' = Schedule(policy', items', E)
    BY <1>7 DEF DownloadNow, rules
  <2> HIDE DEF E
  <2> QED BY <2>2, <2>3, SameStatus, OrderlyEnds, OrderlyUnchanged
<1>8. ASSUME NEW d \in Ids, StopSeeding(d, ok) PROVE Orderly
  <2> DEFINE r == Detached([dn[d] EXCEPT !.seeding = FALSE])
  <2>1. r.status = dn[d].status
    BY <1>0 DEF Detached, Download
  <2>2. dn' = dn \/ dn' = [dn EXCEPT ![d] = r]
    BY <1>8 DEF StopSeeding
  <2> HIDE DEF r
  <2> QED BY <2>1, <2>2, OneChanged, OrderlyUnchanged DEF Orderly
<1>9. ASSUME NEW i \in DOMAIN items, NEW j \in DOMAIN items, Move(i, j, ok) PROVE Orderly
  BY <1>9, OrderlyUnchanged DEF Move
<1>10. ASSUME NEW i \in DOMAIN items, Discard(i, ok) \/ StopAndWait(i, ok) PROVE Orderly
  <2> DEFINE E == [dn EXCEPT ![items[i]] = Gone]
  <2>1. E \in [Ids -> Download(Gens)]
    BY FreshType
  <2>2. Unstarted(E) /\ (dn' = E => NoStart)
    BY OneChanged DEF Gone, Fresh
  <2>3. dn' = dn \/ dn' = E \/ dn' = Schedule(policy', items', E)
    BY <1>10 DEF Discard, StopAndWait, Drop, rules
  <2> HIDE DEF E
  <2> QED BY <2>1, <2>2, <2>3, OrderlyEnds, OrderlyUnchanged DEF Orderly
<1> QED BY <1>1, <1>2, <1>3, <1>5, <1>6, <1>7, <1>8, <1>9, <1>10 DEF Requests

\* After a start nobody runs.
LEMMA OrderlyRestarted ==
  ASSUME TypeInv, NEW st \in Store, Restarted(st)
  PROVE  Orderly
<1>1. \A d \in Ids : dn'[d].status \in Settled
  BY DEF Restarted, Loaded, Store, Record
<1> QED BY <1>1 DEF Orderly, NoStart, Starts, Settled

\* What happens around the manager.
LEMMA OrderlyEnvironment ==
  ASSUME TypeInv, Environment
  PROVE  Orderly
<1>1. CASE dn' = dn
  BY <1>1, OrderlyUnchanged
<1>2. ASSUME NEW b \in BOOLEAN, SetGamesRunning(b) PROVE Orderly
  BY <1>2, RulesKeepStatus, TypeFacts, SameStatus DEF SetGamesRunning, Orderly
<1>3. CASE Crash
  BY <1>3, OrderlyRestarted, TypeFacts DEF Crash
<1> QED
  BY <1>1, <1>2, <1>3 DEF Environment, StopSeedingJob, WriteError, SaveSettings, SwitchNetwork,
                          Close, list

\* A download that failed gives its slot away.
LEMMA OrderlyMarkFailed ==
  ASSUME TypeInv, NEW d \in Ids, NEW ok \in BOOLEAN, MarkFailed(d, ok),
         UNCHANGED <<items, policy>>
  PROVE  Orderly
<1> USE TypeFacts, GenFacts
<1> DEFINE r == Gated([dn[d] EXCEPT !.status = "failed"])
           E == [dn EXCEPT ![d] = r]
<1>1. dn[d] \in Download(Gens)
  OBVIOUS
<1>2. r \in Download(Gens) /\ r.status # "downloading"
  BY <1>1 DEF Gated, Download, Statuses
<1>3. dn' = dn \/ dn' = Schedule(policy', items', E)
  BY DEF MarkFailed, Failed
<1> HIDE DEF r
<1>4. E \in [Ids -> Download(Gens)] /\ Unstarted(E)
  BY <1>2, OneChanged
<1> HIDE DEF E
<1> QED BY <1>3, <1>4, OrderlyEnds, OrderlyUnchanged

\* The end of settleRestored: only a forced download is started past the queue.
LEMMA OrderlyFinish ==
  ASSUME TypeInv, NEW d \in Ids, jobs[d] # NoJob, NEW ok \in BOOLEAN,
         NEW D \in [Ids -> Download(Gens)],
         \A e \in Ids \ {d} : D[e] = dn[e],
         Finish(d, D, ok), UNCHANGED <<items, policy>>
  PROVE  Orderly
<1> USE TypeFacts, GenFacts
<1> DEFINE r == jobs[d].req
           new == CASE r.paused  -> Gated([D[d] EXCEPT !.status = "paused"])
                    [] ~r.paused /\ r.force  -> Forced(policy, D[d])
                    [] ~r.paused /\ ~r.force -> [D[d] EXCEPT !.status = "queued"]
           E == [D EXCEPT ![d] = new]
<1>1. new \in Download(Gens)
  BY StatusType, RecordTypes DEF Statuses
<1>2. ForcedNow(d) \/ new.status # "downloading"
  BY DEF ForcedNow, Gated, Download
<1>3. dn' = Schedule(policy', items', E)
  BY DEF Finish
<1> HIDE DEF new
<1>4. E \in [Ids -> Download(Gens)] /\ Unstarted(E)
  <2>1. E[d] = new /\ \A e \in Ids \ {d} : E[e] = dn[e]
    BY <1>1
  <2>2. E \in [Ids -> Download(Gens)]
    BY <1>1
  <2> HIDE DEF E
  <2> QED BY <1>2, <2>1, <2>2 DEF Unstarted
<1> HIDE DEF E
<1> QED BY <1>3, <1>4, OrderlyEnds

\* The jobs.
LEMMA OrderlyJobs ==
  ASSUME TypeInv, NEW d \in Ids, NEW ok \in BOOLEAN, JobStep(d, ok)
  PROVE  Orderly
<1> USE TypeFacts, GenFacts
<1>0. dn[d] \in Download(Gens)
  OBVIOUS
<1>1. UNCHANGED <<items, policy>>
  BY DEF JobStep, Attach, AttachFails, GotInfo, Settle, Check, VerifyPasses, VerifyFails,
         EndJob, list, rules
<1>2. CASE dn' = dn
  BY <1>2, OrderlyUnchanged
<1>3. CASE Attach(d)
  BY <1>0, <1>2, <1>3, OneChanged DEF Download, Attach, Orderly
<1>4. CASE AttachFails(d, ok)
  <2>1. [dn[d] EXCEPT !.seeding = FALSE].status = dn[d].status
    BY <1>0 DEF Download
  <2> QED BY <1>1, <1>2, <1>4, <2>1, OneChanged, OrderlyMarkFailed
          DEF AttachFails, RestoreFailed, Orderly
<1>5. CASE Settle(d, ok)
  <2>1. CASE FinishSeed(d, ok)
    <3> DEFINE r == [Attached(dn[d], gen) EXCEPT !.seeding = policy.saved.seed]
               s == IF policy.saved.seed THEN AllowUpload(policy, r) ELSE Detached(r)
    <3>1. s.status = dn[d].status
      BY <1>0 DEF AllowUpload, Detached, Attached, Download
    <3>2. dn' = [dn EXCEPT ![d] = s]
      BY <2>1 DEF FinishSeed
    <3> HIDE DEF s
    <3> QED BY <3>1, <3>2, OneChanged DEF Orderly
  <2>2. CASE Finish(d, [dn EXCEPT ![d] = Attached(@, gen)], ok)
    <3> DEFINE D == [dn EXCEPT ![d] = Attached(@, gen)]
    <3>1. D \in [Ids -> Download(Gens)] /\ \A e \in Ids \ {d} : D[e] = dn[e]
      BY RecordTypes
    <3>2. jobs[d] # NoJob
      BY <1>5 DEF Settle, At
    <3> HIDE DEF D
    <3> QED BY <1>1, <2>2, <3>1, <3>2, OrderlyFinish DEF D
  <2>3. CASE dn' = [dn EXCEPT ![d] = [Attached(@, gen) EXCEPT !.status = "verifying"]]
    BY <1>0, <2>3, OneChanged DEF Attached, Download, Orderly
  <2> QED BY <1>2, <1>5, <2>1, <2>2, <2>3 DEF Settle
<1>6. CASE Check(d, ok)
  BY <1>1, <1>2, <1>6, OrderlyFinish DEF Check, At
<1>7. CASE VerifyPasses(d, ok)
  <2> DEFINE r == Completed(dn[d])
             E == [dn EXCEPT ![d] = r]
  <2>1. r \in Download(Gens)
    BY CompletedType
  <2>2. r.status # "downloading"
    BY <1>0 DEF Completed, AllowUpload, Detached, Download
  <2>3. dn' = dn \/ dn' = Schedule(policy, items, E)
    BY <1>7 DEF VerifyPasses
  <2> HIDE DEF r
  <2>4. E \in [Ids -> Download(Gens)] /\ Unstarted(E)
    BY <2>1, <2>2, OneChanged
  <2> HIDE DEF E
  <2> QED BY <1>1, <2>3, <2>4, OrderlyEnds, OrderlyUnchanged
<1>8. CASE VerifyFails(d, ok)
  BY <1>1, <1>2, <1>8, OrderlyMarkFailed DEF VerifyFails
<1>9. CASE GotInfo(d) \/ EndJob(d)
  BY <1>2, <1>9 DEF GotInfo, EndJob, list
<1> QED BY <1>3, <1>4, <1>5, <1>6, <1>7, <1>8, <1>9 DEF JobStep

\* sample: it schedules when a window opened or closed, and takes what arrived away.
LEMMA OrderlyTick ==
  ASSUME TypeInv, NEW b \in BOOLEAN, NEW ok \in BOOLEAN, Tick(b, ok)
  PROVE  Orderly
<1> USE TypeFacts, GenFacts
<1> DEFINE turned == b # policy.blocked
           p  == [policy EXCEPT !.blocked = b]
           E  == SyncPlay(p, items, Busy(jobs), dn)
           D1 == IF turned THEN Schedule(p, items, E) ELSE dn
           done == Arrived(p, D1)
           D2 == [d \in Ids |-> IF d \in done
                                THEN [D1[d] EXCEPT !.status = "verifying"] ELSE D1[d]]
<1>1. policy' = p /\ items' = items /\ dn' = D2
  BY DEF Tick
<1>2. p \in Policy
  BY DEF Policy
<1>3. E \in [Ids -> Download(Gens)] /\ \A d \in Ids : E[d].status = dn[d].status
  <2> HIDE DEF p
  <2> QED BY <1>2, ListTypes, RulesKeepStatus
<1>4. Unstarted(E)
  BY <1>3, SameStatus
<1>5. D1 \in [Ids -> Download(Gens)]
  <2> HIDE DEF p, E
  <2> QED BY <1>2, <1>3, ListTypes
<1>6. \A d \in Ids : dn'[d] = D1[d] \/ dn'[d].status = "verifying"
  <2> HIDE DEF D1, done
  <2>1. \A d \in Ids : [D1[d] EXCEPT !.status = "verifying"].status = "verifying"
    BY <1>5 DEF Download
  <2> QED BY <1>1, <2>1
<1>7. CASE turned
  <2>1. \A d \in Ids : dn'[d] = Schedule(policy', items', E)[d] \/ dn'[d].status = "verifying"
    BY <1>1, <1>6, <1>7
  <2> HIDE DEF E
  <2> QED BY <1>3, <1>4, <2>1 DEF Orderly, Scheduled
<1>8. CASE ~turned
  BY <1>6, <1>8 DEF Orderly, NoStart, Starts
<1> QED BY <1>7, <1>8

\* applySettings leaves every status, torrent and exemption that is not seeding's.
LEMMA AppliedKeeps ==
  ASSUME NEW c, NEW p, NEW busy, NEW r \in Download(Gens)
  PROVE  /\ Applied(c, p, busy, r).status = r.status
         /\ Applied(c, p, busy, r).ignore = r.ignore
         /\ r.status # "completed" => Applied(c, p, busy, r).engine = r.engine
<1>1. CASE r.status # "completed" /\ r.engine # 0
  BY <1>1 DEF Applied, Download
<1>2. CASE r.status = "completed" /\ ~c.seed
  BY <1>2 DEF Applied, Detached, Download
<1>3. CASE r.status = "completed" /\ c.seed
  BY <1>3 DEF Applied, AllowUpload, Download
<1>4. CASE r.status # "completed" /\ r.engine = 0
  BY <1>4 DEF Applied, Download
<1> QED BY <1>1, <1>2, <1>3, <1>4

\* applySettings always ends with schedule().
LEMMA OrderlyApplySettings ==
  ASSUME TypeInv, NEW c \in Configs, NEW b \in BOOLEAN, NEW ok \in BOOLEAN,
         ApplySettings(c, b, ok)
  PROVE  Orderly
<1> USE TypeFacts, GenFacts
<1> DEFINE p  == [policy EXCEPT !.rate = c, !.blocked = b, !.max = c.max]
           turned == PlayHeld(p) # PlayHeld(policy) \/ b # policy.blocked
           D1 == IF turned THEN SyncPlay(p, items, Busy(jobs), dn) ELSE dn
           E  == [d \in Ids |-> IF Found(d) THEN Applied(c, p, jobs[d] # NoJob, D1[d])
                                ELSE D1[d]]
<1>1. dn' = Schedule(policy', items', E)
  BY DEF ApplySettings
<1>2. c \in Config /\ p \in Policy
  BY ManagerConstants DEF Policy, Config
<1>3. D1 \in [Ids -> Download(Gens)] /\ \A d \in Ids : D1[d].status = dn[d].status
  <2> HIDE DEF p
  <2> QED BY <1>2, ListTypes, RulesKeepStatus
<1>4. E \in [Ids -> Download(Gens)] /\ \A d \in Ids : E[d].status = dn[d].status
  <2> HIDE DEF p, D1
  <2>1. \A d \in Ids, x \in BOOLEAN : /\ Applied(c, p, x, D1[d]) \in Download(Gens)
                                       /\ Applied(c, p, x, D1[d]).status = D1[d].status
    BY <1>2, <1>3, AppliedType, AppliedKeeps
  <2> QED BY <1>3, <2>1
<1> HIDE DEF E
<1> QED BY <1>1, <1>4, SameStatus, OrderlyEnds

\* What goes on in the background.
LEMMA OrderlyBackground ==
  ASSUME TypeInv, NEW ok \in BOOLEAN, Background(ok)
  PROVE  Orderly
<1> USE TypeFacts, GenFacts
<1>0. \A d \in Ids : dn[d] \in Download(Gens)
  OBVIOUS
<1>1. ASSUME NEW d \in Ids, Transfer(d) PROVE Orderly
  BY <1>0, <1>1, OneChanged DEF Download, Transfer, Orderly
<1>2. ASSUME NEW r \in spawned, FailSpawned(r, ok) PROVE Orderly
  BY <1>2, OrderlyMarkFailed DEF TypeInv, TypeOK, Request, FailSpawned, rules
<1>3. ASSUME NEW r \in spawned, Begin(r) PROVE Orderly
  BY <1>3, OrderlyUnchanged DEF Begin, list
<1>4. ASSUME NEW g \in Gens, PassStep(g, ok) PROVE Orderly
  <2>1. ASSUME NEW d \in Ids, PassSkip(g, d) PROVE Orderly
    BY <1>0, <2>1, OneChanged, OrderlyUnchanged DEF Download, PassSkip, Orderly
  <2>2. CASE PassEnd(g, ok)
    BY <2>2, SameStatus, OrderlyEnds DEF PassEnd, rules
  <2> QED BY <1>4, <2>1, <2>2, OrderlyUnchanged DEF PassStep, PassBegin, PassAborts, list
<1>5. CASE TeardownDetach
  BY <1>0, <1>5 DEF Detached, Download, TeardownDetach, Orderly, NoStart, Starts
<1>6. CASE TeardownPark(ok)
  BY <1>0, <1>6 DEF Parked, Download, TeardownPark, Orderly, NoStart, Starts
<1>7. CASE RestoreStart \/ TeardownDone \/ BringUp
  BY <1>7, OrderlyUnchanged DEF RestoreStart, TeardownDone, BringUp, list
<1>8. CASE Quit(ok)
  BY <1>8, ImageType, OrderlyRestarted DEF Quit
<1> QED BY <1>1, <1>2, <1>3, <1>4, <1>5, <1>6, <1>7, <1>8, OrderlyTick, OrderlyApplySettings,
           OrderlyJobs DEF Background

\* Every step.
LEMMA OrderlyStep ==
  ASSUME TypeInv, [Next]_vars
  PROVE  Orderly
BY OrderlyRequests, OrderlyEnvironment, OrderlyBackground, OrderlyUnchanged DEF Next, vars, list

\* No handler starts a download past the limit in force, unless the user forced it: every
\* start but a forced one is made by schedule(), which counts the slots that are taken.
THEOREM StartsStayWithinLimit == Spec => StartsWithinLimit
<1>1. TypeInv /\ Once /\ TypeInv' /\ Once' /\ [Next]_vars
      => [(\E d \in Range(items) : Starts(d) /\ ~ForcedNow(d))
          => Cardinality({d \in Range(items') : Running(policy', dn'[d])}) <= policy'.max]_vars
  BY OrderlyStep, OrderlyFollowsQueue DEF WithinLimit
<1> QED BY <1>1, OnceInvariant, PTL DEF Spec, StartsWithinLimit

\* Nor one before another that is further up in the queue and could have been started.
THEOREM QueueIsServedInOrder == Spec => QueueOrderKept
<1>1. TypeInv /\ Once /\ TypeInv' /\ Once' /\ [Next]_vars
      => [\A i, j \in DOMAIN items' :
            i < j /\ Starts(items'[j]) /\ ~ForcedNow(items'[j])
            => ~MayStart(policy', dn'[items'[i]])]_vars
  BY OrderlyStep, OrderlyFollowsQueue DEF InOrder
<1> QED BY <1>1, OnceInvariant, PTL DEF Spec, QueueOrderKept

\* Both, as queue_rules checks them: beginStart and schedule() start what the queue has.
THEOREM StartsAreQueued == Spec => StartsFollowQueue
BY StartsStayWithinLimit, QueueIsServedInOrder DEF StartsFollowQueue

-----------------------------------------------------------------------------
(* The one handler that gives a download its torrent and does not schedule  *)
(* is settleRestored for a finished download.  It frees no slot and makes   *)
(* nobody startable only because the download it is for is not waiting in   *)
(* the queue, and that rests on what every request in flight is for.        *)

\* Queued without a torrent: what only schedule() never starts.
Waiting(r) == r.status = "queued" /\ r.engine = 0

\* A request is for a download that is in the list, or was and is gone; one that only
\* takes the torrent back is for none that waits in the queue without one.
Good(r, d) ==
  /\ r.id = d /\ net = "up"
  /\ Found(d) \/ dn[d] = Gone
  /\ r.complete => r.kind = "restore" /\ ~Waiting(dn[d])

\* A download is not given a torrent while a job is about to, and keeps it while it is
\* checked.
SettlesOnce(d) ==
  /\ At(d, "settle") /\ jobs[d].req.complete => dn[d].engine = 0
  /\ At(d, "check") /\ Found(d) => dn[d].engine # 0 /\ dn[d].status # "completed"

\* While no network change takes a client down: FinishSeed, the one step that gives a
\* download its torrent and does not schedule, gives none to a queued download.
SettleInv ==
  /\ net \in {"up", "down"}
  /\ net = "up" => gen # 0
  /\ EnginesOK(dn)
  /\ \A r \in spawned : Good(r, r.id)
  /\ \A d \in Ids : jobs[d] # NoJob => Good(jobs[d].req, d)
  /\ \A g \in Gens, d \in Ids :
       passes[g].req[d] # NoRequest => Good(passes[g].req[d], d)
  /\ \A d \in Ids : SettlesOnce(d)

\* What a step may do to a record.
Mild(r, s) ==
  /\ Waiting(s) => Waiting(r)
  /\ r.engine = 0 => s.engine = 0
  /\ r.engine # 0 /\ r.status # "completed" => s.engine # 0 /\ s.status # "completed"

\* Requests are for the downloads that are listed.
Listed(d) == net = "up" /\ (Found(d) \/ dn[d] = Gone)

Kept(d) ==
  /\ Found(d)' \/ dn'[d] = Gone
  /\ Waiting(dn'[d]) => Waiting(dn[d])

Left(d) ==
  /\ dn[d].engine = 0 => dn'[d].engine = 0
  /\ Found(d)' => /\ Found(d)
                  /\ dn[d].engine # 0 /\ dn[d].status # "completed"
                     => dn'[d].engine # 0 /\ dn'[d].status # "completed"

\* What a step has to show: that the downloads with requests are still good for them.
LEMMA SettleStep ==
  ASSUME TypeInv, SettleInv, UNCHANGED <<net, gen>>, EnginesOK(dn'),
         \A d \in Ids : Listed(d) => Kept(d),
         \A r \in spawned' : r \in spawned \/ Good(r, r.id)',
         \A g \in Gens, d \in Ids : passes'[g].req[d] # NoRequest =>
           passes'[g].req[d] = passes[g].req[d] \/ Good(passes[g].req[d], d)',
         \A d \in Ids : jobs'[d] # NoJob =>
           \/ /\ jobs[d] # NoJob
              /\ jobs'[d].req = jobs[d].req /\ jobs'[d].phase = jobs[d].phase
              /\ Listed(d) => Left(d)
           \/ Good(jobs[d].req, d)' /\ SettlesOnce(d)'
  PROVE  SettleInv'
<1>1. ASSUME NEW d \in Ids, NEW r, Good(r, d)
      PROVE  Good(r, d)'
  BY <1>1 DEF Good, Listed, Kept
<1>2. \A r \in spawned' : Good(r, r.id)'
  BY <1>1 DEF TypeInv, TypeOK, Request, SettleInv
<1>3. ASSUME NEW d \in Ids, jobs'[d] # NoJob PROVE Good(jobs[d].req, d)'
  BY <1>1, <1>3 DEF SettleInv, Good
<1>4. ASSUME NEW g \in Gens, NEW d \in Ids, passes'[g].req[d] # NoRequest
      PROVE  Good(passes[g].req[d], d)'
  BY <1>1, <1>4 DEF SettleInv, Good
<1>5. ASSUME NEW d \in Ids PROVE SettlesOnce(d)'
  BY DEF SettleInv, Good, Listed, SettlesOnce, At, Left
<1>6. EnginesOK(dn)'
  BY DEF EnginesOK, HasClient
<1> QED BY <1>2, <1>3, <1>4, <1>5, <1>6 DEF SettleInv

\* A step that leaves the list, the jobs and the requests alone.
LEMMA SettleData ==
  ASSUME TypeInv, SettleInv, UNCHANGED <<net, gen, items, spawned>>,
         \A g \in Gens, d \in Ids : passes'[g].req[d] # NoRequest =>
           passes'[g].req[d] = passes[g].req[d],
         \A d \in Ids : jobs'[d] # NoJob =>
           jobs[d] # NoJob /\ jobs'[d].req = jobs[d].req /\ jobs'[d].phase = jobs[d].phase,
         \A d \in Ids : /\ net = "up" /\ Found(d) => Mild(dn[d], dn'[d])
                        /\ ~Found(d) => dn'[d] = dn[d]
                        /\ dn'[d].engine = 0 \/ dn'[d].engine = dn[d].engine
  PROVE  SettleInv'
<1>1. EnginesOK(dn')
  BY DEF SettleInv, EnginesOK
<1>2. ASSUME NEW d \in Ids, Listed(d) PROVE Kept(d) /\ Left(d)
  BY <1>2 DEF Listed, Kept, Left, Mild, Found
<1> QED BY <1>1, <1>2, SettleStep

\* A step that leaves the downloads alone too.
LEMMA SettleUnchanged ==
  ASSUME TypeInv, SettleInv, UNCHANGED <<net, gen, items, dn, spawned>>,
         \A g \in Gens, d \in Ids : passes'[g].req[d] # NoRequest =>
           passes'[g].req[d] = passes[g].req[d],
         \A d \in Ids : jobs'[d] # NoJob =>
           jobs[d] # NoJob /\ jobs'[d].req = jobs[d].req /\ jobs'[d].phase = jobs[d].phase
  PROVE  SettleInv'
<1>1. \A d \in Ids : /\ net = "up" /\ Found(d) => Mild(dn[d], dn'[d])
                     /\ ~Found(d) => dn'[d] = dn[d]
                     /\ dn'[d].engine = 0 \/ dn'[d].engine = dn[d].engine
  BY DEF Mild
<1> QED BY <1>1, SettleData

\* schedule() starts downloads that have a torrent.
LEMMA ScheduleMild ==
  ASSUME NEW p \in Policy, NEW q \in Seq(Ids), NEW D \in [Ids -> Download(Gens)], NEW d \in Ids
  PROVE  /\ Mild(D[d], Schedule(p, q, D)[d])
         /\ Schedule(p, q, D)[d].engine = D[d].engine
         /\ d \notin Range(q) => Schedule(p, q, D)[d] = D[d]
         /\ D[d].status # "queued" => Schedule(p, q, D)[d] = D[d]
<1> DEFINE S == Schedule(p, q, D)
<1>0. D[d] \in Download(Gens)
  OBVIOUS
<1>1. S[d] = D[d] \/ (d \in Range(q) /\ MayStart(p, D[d]) /\ S[d] = Started(p, D[d]))
  BY DEF Chosen, Schedule, Range
<1>2. Started(p, D[d]).engine = D[d].engine /\ Started(p, D[d]).status = "downloading"
  BY <1>0 DEF Started, Download
<1> HIDE DEF S
<1> QED BY <1>1, <1>2 DEF Mild, Waiting, MayStart, S

\* One mild change after another is a mild change.
LEMMA MildTwice ==
  ASSUME NEW r, NEW s, NEW t, Mild(r, s), Mild(s, t)
  PROVE  Mild(r, t)
BY DEF Mild

\* A step that changes one record, and may schedule.
LEMMA SettleOne ==
  ASSUME TypeInv, SettleInv, NEW d \in Ids, Found(d), NEW r \in Download(Gens),
         net = "up" => Mild(dn[d], r),
         r.engine = 0 \/ r.engine = dn[d].engine,
         \/ dn' = dn
         \/ dn' = [dn EXCEPT ![d] = r]
         \/ dn' = Schedule(policy, items, [dn EXCEPT ![d] = r]),
         UNCHANGED <<net, gen, items, spawned>>,
         \A g \in Gens, e \in Ids : passes'[g].req[e] # NoRequest =>
           passes'[g].req[e] = passes[g].req[e],
         \A e \in Ids : jobs'[e] # NoJob =>
           jobs[e] # NoJob /\ jobs'[e].req = jobs[e].req /\ jobs'[e].phase = jobs[e].phase
  PROVE  SettleInv'
<1> USE TypeFacts, GenFacts
<1> DEFINE E == [dn EXCEPT ![d] = r]
<1>1. E \in [Ids -> Download(Gens)] /\ E[d] = r /\ \A e \in Ids \ {d} : E[e] = dn[e]
  OBVIOUS
<1>2. \A e \in Ids : /\ Mild(dn[e], dn[e]) /\ (net = "up" => Mild(dn[e], E[e]))
                     /\ ~Found(e) => E[e] = dn[e]
                     /\ E[e].engine = 0 \/ E[e].engine = dn[e].engine
  BY <1>1 DEF Mild
<1> HIDE DEF E
<1>3. \A e \in Ids : /\ net = "up" => Mild(dn[e], dn'[e])
                     /\ ~Found(e) => dn'[e] = dn[e]
                     /\ dn'[e].engine = 0 \/ dn'[e].engine = dn[e].engine
  <2>1. CASE dn' = dn \/ dn' = E
    BY <1>2, <2>1
  <2>2. CASE dn' = Schedule(policy, items, E)
    BY <1>1, <1>2, <2>2, ScheduleMild, MildTwice DEF Found
  <2> QED BY <2>1, <2>2 DEF E
<1> QED BY <1>3, SettleData

\* What a request of the user leaves alone.
LEMMA SameWork ==
  ASSUME TypeInv, UNCHANGED <<rules, work, client, life>>
  PROVE  /\ UNCHANGED <<net, gen, spawned, policy>>
         /\ \A g \in Gens, d \in Ids : passes'[g].req[d] # NoRequest =>
              passes'[g].req[d] = passes[g].req[d]
         /\ \A d \in Ids : jobs'[d] # NoJob =>
              jobs[d] # NoJob /\ jobs'[d].req = jobs[d].req /\ jobs'[d].phase = jobs[d].phase
BY DEF rules, work, client, life

\* A new download has a torrent, and nobody has asked for it yet.
LEMMA SettleAdd ==
  ASSUME TypeInv, SettleInv, NEW d \in Ids, NEW ok \in BOOLEAN, Add(d, ok)
  PROVE  SettleInv'
<1> USE TypeFacts, GenFacts
<1> DEFINE q == Append(items, d)
           E == [dn EXCEPT ![d] = Attached(@, gen)]
<1>0. ~Found(d) /\ dn[d] # Gone /\ HasClient /\ UNCHANGED <<rules, work, client, life>>
  BY DEF Add, Fresh, Gone
<1>1. CASE UNCHANGED <<items, dn>>
  BY <1>0, <1>1, SameWork, SettleUnchanged
<1>2. CASE items' = q /\ dn' = Schedule(policy, q, E)
  <2>1. E \in [Ids -> Download(Gens)] /\ q \in Seq(Ids) /\ E[d].engine = gen
        /\ \A e \in Ids \ {d} : E[e] = dn[e]
    <3>1. dn[d] \in Download(Gens)
      OBVIOUS
    <3>2. Attached(dn[d], gen) \in Download(Gens) /\ Attached(dn[d], gen).engine = gen
      BY <3>1, RecordTypes DEF Attached, Download
    <3> QED BY <3>2
  <2>2. Range(q) = Range(items) \cup {d}
    BY AppendProperties DEF Range
  <2> HIDE DEF q, E
  <2>3. \A e \in Ids \ {d} : /\ Mild(dn[e], dn'[e]) /\ dn'[e].engine = dn[e].engine
                             /\ ~Found(e) => dn'[e] = dn[e]
                             /\ Found(e)' <=> Found(e)
    BY <1>2, <2>1, <2>2, ScheduleMild DEF Found
  <2>4. dn'[d].engine = gen
    BY <1>2, <2>1, ScheduleMild
  <2>5. EnginesOK(dn')
    BY <1>0, <2>3, <2>4 DEF EnginesOK, SettleInv
  <2>6. ASSUME NEW e \in Ids, Listed(e) PROVE Kept(e) /\ Left(e)
    BY <1>0, <2>3, <2>6 DEF Listed, Kept, Left, Mild
  <2> QED BY <1>0, <2>5, <2>6, SameWork, SettleStep
<1> QED BY <1>1, <1>2 DEF Add

\* A new task has a request that is not for a finished download.
LEMMA SettleAddTask ==
  ASSUME TypeInv, SettleInv, NEW d \in Ids, NEW ok \in BOOLEAN, AddTask(d, ok)
  PROVE  SettleInv'
<1> USE TypeFacts, GenFacts
<1> DEFINE q == Append(items, d)
           r == Req(d, "settle")
<1>0. /\ ~Found(d) /\ dn[d] # Gone /\ net = "up"
      /\ UNCHANGED <<net, gen, dn, jobs, passes>>
  BY DEF AddTask, Fresh, Gone, HasClient, SettleInv, client
<1>1. CASE UNCHANGED <<items, spawned>>
  BY <1>0, <1>1, SettleUnchanged
<1>2. CASE items' = q /\ spawned' = spawned \cup {r}
  <2>1. Range(q) = Range(items) \cup {d}
    BY AppendProperties DEF Range
  <2>2. r.id = d /\ ~r.complete
    BY DEF Req
  <2> HIDE DEF q, r
  <2>3. \A w : w.id = d /\ ~w.complete => Good(w, d)'
    BY <1>0, <1>2, <2>1 DEF Good, Found
  <2>4. ASSUME NEW e \in Ids, Listed(e) PROVE Kept(e) /\ Left(e)
    BY <1>0, <1>2, <2>1, <2>4 DEF Listed, Kept, Left, Found
  <2>5. EnginesOK(dn')
    BY <1>0 DEF EnginesOK, SettleInv
  <2> QED BY <1>0, <1>2, <2>2, <2>3, <2>4, <2>5, SettleStep
<1> QED BY <1>1, <1>2 DEF AddTask

\* A download that is taken out is marked as gone before anything asks for it again.
LEMMA SettleDrop ==
  ASSUME TypeInv, Once, SettleInv, NEW i \in DOMAIN items, NEW ok \in BOOLEAN,
         Discard(i, ok) \/ StopAndWait(i, ok)
  PROVE  SettleInv'
<1> USE TypeFacts, GenFacts
<1>. PICK d \in Ids : d = items[i]
  OBVIOUS
<1> DEFINE q == RemoveAt(items, i)
           E == [dn EXCEPT ![d] = Gone]
<1>0. /\ UNCHANGED <<net, gen, spawned, passes, policy>>
      /\ \A e \in Ids : jobs'[e] # NoJob =>
           jobs[e] # NoJob /\ jobs'[e].req = jobs[e].req /\ jobs'[e].phase = jobs[e].phase
  <2>1. ASSUME jobs[d] # NoJob, NEW e \in Ids,
               [jobs EXCEPT ![d].cancelled = TRUE][e] # NoJob
        PROVE  /\ jobs[e] # NoJob /\ [jobs EXCEPT ![d].cancelled = TRUE][e].req = jobs[e].req
               /\ [jobs EXCEPT ![d].cancelled = TRUE][e].phase = jobs[e].phase
    BY <2>1 DEF TypeInv, TypeOK, Job, NoJob
  <2> QED BY <2>1 DEF Discard, StopAndWait, Drop, rules, client
<1>1. CASE UNCHANGED <<items, dn>>
  BY <1>0, <1>1, SettleUnchanged
<1>2. CASE items' = q /\ (dn' = E \/ dn' = Schedule(policy, q, E))
  <2>1. q \in Seq(Ids) /\ Range(q) = Range(items) \ {d}
    BY RemoveOnce, <1>2, DropType DEF Once, Discard, StopAndWait
  <2>2. E \in [Ids -> Download(Gens)] /\ E[d] = Gone /\ \A e \in Ids \ {d} : E[e] = dn[e]
    BY FreshType
  <2>3. Gone.status = "failed" /\ Gone.engine = 0
    BY DEF Gone, Fresh
  <2> HIDE DEF q, E
  <2>4. dn'[d] = Gone
    BY <1>2, <2>1, <2>2, <2>3, ScheduleMild
  <2>5. \A e \in Ids \ {d} : /\ Mild(dn[e], dn'[e]) /\ dn'[e].engine = dn[e].engine
                             /\ ~Found(e) => dn'[e] = dn[e]
                             /\ Found(e)' <=> Found(e)
    BY <1>2, <2>1, <2>2, ScheduleMild DEF Mild, Found
  <2>6. EnginesOK(dn')
    BY <2>3, <2>4, <2>5 DEF EnginesOK, SettleInv
  <2>7. ~Found(d)'
    BY <1>2, <2>1 DEF Found
  <2>8. ASSUME NEW e \in Ids, Listed(e) PROVE Kept(e) /\ Left(e)
    <3>1. CASE e = d
      BY <2>3, <2>4, <2>7, <3>1 DEF Kept, Left, Waiting
    <3>2. CASE e # d
      BY <2>5, <2>8, <3>2 DEF Listed, Kept, Left, Mild
    <3> QED BY <3>1, <3>2
  <2> QED BY <1>0, <2>6, <2>8, SettleStep
<1> QED BY <1>1, <1>2 DEF Discard, StopAndWait, Drop

\* The requests of the user: a reattach is asked for a download that has no torrent.
LEMMA SettleRequests ==
  ASSUME TypeInv, Once, SettleInv, NEW ok \in BOOLEAN, Requests(ok)
  PROVE  SettleInv'
<1> USE TypeFacts, GenFacts
<1>0. \A d \in Ids : dn[d] \in Download(Gens)
  OBVIOUS
<1>1. ASSUME NEW d \in Ids, NEW s \in Statuses
      PROVE  /\ [dn[d] EXCEPT !.status = s] \in Download(Gens)
             /\ [dn[d] EXCEPT !.status = s].engine = dn[d].engine
             /\ [dn[d] EXCEPT !.status = s].status = s
  BY <1>0, StatusType DEF Download
<1>2. ASSUME NEW d \in Ids, Pause(d, ok) PROVE SettleInv'
  <2> DEFINE r == Gated([dn[d] EXCEPT !.status = "paused"])
  <2>1. r \in Download(Gens) /\ r.status = "paused" /\ r.engine = dn[d].engine
    <3>1. [dn[d] EXCEPT !.status = "paused"] \in Download(Gens)
      BY <1>1 DEF Statuses
    <3>2. r.status = "paused" /\ r.engine = dn[d].engine
      BY <1>0 DEF Gated, Download
    <3> QED BY <3>1, <3>2, RecordTypes
  <2>2. Found(d) /\ (dn' = dn \/ dn' = Schedule(policy, items, [dn EXCEPT ![d] = r]))
    BY <1>2 DEF Pause, Commit
  <2>3. UNCHANGED items /\ UNCHANGED <<rules, work, client, life>>
    BY <1>2 DEF Pause
  <2> HIDE DEF r
  <2>4. Mild(dn[d], r)
    BY <2>1 DEF Mild, Waiting
  <2> QED BY <2>1, <2>2, <2>3, <2>4, SameWork, SettleOne
<1>3. ASSUME NEW d \in Ids, NEW force, Found(d), Reattach(d, force, ok), dn[d].engine = 0
      PROVE  SettleInv'
  <2> DEFINE r == [dn[d] EXCEPT !.status = "verifying"]
             w == [Req(d, "restore") EXCEPT !.force = force]
  <2>1. r \in Download(Gens) /\ r.status = "verifying" /\ r.engine = dn[d].engine
    BY <1>1 DEF Statuses
  <2>2. dn' = dn \/ dn' = [dn EXCEPT ![d] = r]
    BY <1>3 DEF Reattach
  <2>3. UNCHANGED <<items, jobs, passes, net, gen>> /\ net = "up"
    BY <1>3 DEF Reattach, client, Offline
  <2>4. spawned' = spawned \/ spawned' = spawned \cup {w}
    BY <1>3 DEF Reattach
  <2>5. w.id = d /\ ~w.complete
    BY DEF Req
  <2> HIDE DEF r, w
  <2>6. \A e \in Ids : /\ Mild(dn[e], dn'[e]) /\ dn'[e].engine = dn[e].engine
                       /\ ~Found(e) => dn'[e] = dn[e]
    BY <1>3, <2>1, <2>2 DEF Mild, Waiting
  <2>7. EnginesOK(dn')
    BY <2>6 DEF EnginesOK, SettleInv
  <2>8. \A e \in Ids : Listed(e) => Kept(e) /\ Left(e)
    BY <2>3, <2>6 DEF Listed, Kept, Left, Mild, Found
  <2>9. \A x : x.id = d /\ ~x.complete => Good(x, d)'
    BY <1>3, <2>3 DEF Good, Found
  <2> QED BY <2>3, <2>4, <2>5, <2>7, <2>8, <2>9, SettleStep
<1>4. ASSUME NEW d \in Ids, NEW force, Found(d), QueueWhileDown(d, force, ok), dn[d].engine = 0
      PROVE  SettleInv'
  <2> DEFINE r == [dn[d] EXCEPT !.status = "queued"]
  <2>1. r \in Download(Gens) /\ r.engine = dn[d].engine
    BY <1>1 DEF Statuses
  <2>2. dn' = dn \/ dn' = [dn EXCEPT ![d] = r]
    BY <1>4 DEF QueueWhileDown
  <2>3. UNCHANGED <<items, jobs, spawned, passes, net, gen>> /\ net # "up"
    BY <1>4 DEF QueueWhileDown, work, Offline
  <2> HIDE DEF r
  <2> QED BY <1>4, <2>1, <2>2, <2>3, SettleOne
<1>5. ASSUME NEW d \in Ids, Resume(d, ok) PROVE SettleInv'
  <2>1. CASE dn[d].engine = 0
    BY <1>3, <1>4, <1>5, <2>1 DEF Resume
  <2>2. CASE dn[d].engine # 0
    <3> DEFINE r == [dn[d] EXCEPT !.status = "queued"]
    <3>1. r \in Download(Gens) /\ r.status = "queued" /\ r.engine = dn[d].engine
      BY <1>1 DEF Statuses
    <3>2. Found(d) /\ (dn' = dn \/ dn' = Schedule(policy, items, [dn EXCEPT ![d] = r]))
      BY <1>5, <2>2 DEF Resume, Commit
    <3>3. UNCHANGED items /\ UNCHANGED <<rules, work, client, life>>
      BY <1>5, <2>2 DEF Resume
    <3> HIDE DEF r
    <3>4. Mild(dn[d], r)
      BY <2>2, <3>1 DEF Mild, Waiting
    <3> QED BY <3>1, <3>2, <3>3, <3>4, SameWork, SettleOne
  <2> QED BY <2>1, <2>2
<1>6. ASSUME NEW d \in Ids, ForceStart(d, ok) PROVE SettleInv'
  <2>1. CASE dn[d].engine = 0
    BY <1>3, <1>4, <1>6, <2>1 DEF ForceStart
  <2>2. CASE dn[d].engine # 0
    <3> DEFINE f == Forced(policy, dn[d])
               b == [dn[d] EXCEPT !.dl = f.dl, !.ul = f.ul]
    <3>1. f \in Download(Gens) /\ f.status = "downloading" /\ f.engine = dn[d].engine
      <4>1. f \in Download(Gens)
        BY RecordTypes
      <4>2. f.status = "downloading" /\ f.engine = dn[d].engine
        BY <1>0, <2>2 DEF Forced, Started, Download
      <4> QED BY <4>1, <4>2
    <3>2. b \in Download(Gens) /\ b.status = dn[d].status /\ b.engine = dn[d].engine
      <4> HIDE DEF f
      <4> QED BY <1>0, <3>1 DEF Download
    <3>3. dn' = [dn EXCEPT ![d] = f] \/ dn' = [dn EXCEPT ![d] = b]
      BY <1>6, <2>2 DEF ForceStart
    <3>4. Found(d) /\ UNCHANGED items /\ UNCHANGED <<rules, work, client, life>>
      BY <1>6, <2>2 DEF ForceStart
    <3> HIDE DEF f, b
    <3>5. Mild(dn[d], f) /\ Mild(dn[d], b)
      BY <2>2, <3>1, <3>2 DEF Mild, Waiting
    <3>6. CASE dn' = [dn EXCEPT ![d] = f]
      BY <3>1, <3>4, <3>5, <3>6, SameWork, SettleOne
    <3>7. CASE dn' = [dn EXCEPT ![d] = b]
      BY <3>2, <3>4, <3>5, <3>7, SameWork, SettleOne
    <3> QED BY <3>3, <3>6, <3>7
  <2> QED BY <2>1, <2>2
<1>7. ASSUME NEW d \in Ids, DownloadNow(d, ok) PROVE SettleInv'
  <2> DEFINE D == [dn EXCEPT ![d].ignore = TRUE]
             E == SyncPlay(policy, items, Busy(jobs), D)
  <2>1. /\ D \in [Ids -> Download(Gens)] /\ \A e \in Ids \ {d} : D[e] = dn[e]
        /\ \A e \in Ids : D[e].status = dn[e].status /\ D[e].engine = dn[e].engine
    BY <1>0 DEF Download
  <2>2. Found(d) /\ UNCHANGED items /\ UNCHANGED <<rules, work, client, life>>
    BY <1>7 DEF DownloadNow
  <2>3. dn' = dn \/ dn' = Schedule(policy, items, E)
    BY <1>7 DEF DownloadNow
  <2> HIDE DEF D
  <2>4. E \in [Ids -> Download(Gens)]
    BY <2>1, ListTypes
  <2>5. \A e \in Ids : /\ E[e].status = dn[e].status /\ E[e].engine = dn[e].engine
                       /\ ~Found(e) => E[e] = dn[e]
    <3>1. \A e \in Ids : E[e].status = D[e].status /\ E[e].engine = D[e].engine
      BY <2>1, RulesKeepStatus
    <3>2. \A e \in Ids : ~Found(e) => E[e] = D[e]
      BY DEF SyncPlay, Found
    <3> QED BY <2>1, <2>2, <3>1, <3>2
  <2> HIDE DEF E
  <2>6. \A e \in Ids : /\ Mild(dn[e], dn'[e]) /\ dn'[e].engine = dn[e].engine
                       /\ ~Found(e) => dn'[e] = dn[e]
    BY <2>3, <2>4, <2>5, ScheduleMild, MildTwice DEF Mild, Waiting, Found
  <2> QED BY <2>2, <2>6, SameWork, SettleData
<1>8. ASSUME NEW d \in Ids, StopSeeding(d, ok) PROVE SettleInv'
  <2> DEFINE r == Detached([dn[d] EXCEPT !.seeding = FALSE])
  <2>1. r \in Download(Gens) /\ r.status = dn[d].status /\ r.engine = 0
    <3>1. [dn[d] EXCEPT !.seeding = FALSE] \in Download(Gens)
      BY <1>0 DEF Download
    <3>2. r.status = dn[d].status /\ r.engine = 0
      BY <1>0 DEF Detached, Download
    <3> QED BY <3>1, <3>2, RecordTypes
  <2>2. dn' = dn \/ dn' = [dn EXCEPT ![d] = r]
    BY <1>8 DEF StopSeeding
  <2>3. Found(d) /\ dn[d].status = "completed" /\ UNCHANGED items
        /\ UNCHANGED <<rules, work, client, life>>
    BY <1>8 DEF StopSeeding
  <2> HIDE DEF r
  <2>4. Mild(dn[d], r)
    BY <2>1, <2>3 DEF Mild, Waiting
  <2> QED BY <2>1, <2>2, <2>3, <2>4, SameWork, SettleOne
<1>9. ASSUME NEW i \in DOMAIN items, NEW j \in DOMAIN items, Move(i, j, ok)
      PROVE SettleInv'
  <2>1. Range(items') = Range(items)
    BY <1>9, SwapOnce DEF Move, Once
  <2>2. UNCHANGED dn /\ UNCHANGED <<rules, work, client, life>>
    BY <1>9 DEF Move
  <2>3. \A d \in Ids : Listed(d) => Kept(d) /\ Left(d)
    BY <2>1, <2>2 DEF Listed, Kept, Left, Found
  <2>4. EnginesOK(dn')
    BY <2>2 DEF EnginesOK, SettleInv
  <2> QED BY <2>2, <2>3, <2>4, SameWork, SettleStep
<1> QED BY <1>2, <1>5, <1>6, <1>7, <1>8, <1>9, SettleAdd, SettleAddTask, SettleDrop DEF Requests

\* A start finds no request, no job and no torrent.
LEMMA SettleRestarted ==
  ASSUME NEW st, Restarted(st)
  PROVE  SettleInv'
<1>1. /\ \A d \in Ids : dn'[d].engine = 0 /\ jobs'[d] = NoJob
      /\ spawned' = {}
      /\ \A g \in Gens, d \in Ids : passes'[g].req[d] = NoRequest
      /\ net' \in {"up", "down"} /\ (net' = "up" => gen' = 1)
  BY DEF Restarted, Loaded, DeadPass, NoReqs
<1> QED BY <1>1 DEF SettleInv, EnginesOK, SettlesOnce, At

\* What happens around the manager, while no network change takes the client down.
LEMMA SettleEnvironment ==
  ASSUME TypeInv, SettleInv, "network" \notin Events, Environment
  PROVE  SettleInv'
<1> USE TypeFacts, GenFacts
<1>1. ASSUME NEW d \in Ids, StopSeedingJob(d) PROVE SettleInv'
  BY <1>1, SettleUnchanged DEF StopSeedingJob, TypeInv, TypeOK, Job, NoJob, list, client
<1>2. ASSUME NEW d \in Ids, WriteError(d) PROVE SettleInv'
  <2> DEFINE r == Req(d, "fail")
  <2>1. /\ UNCHANGED <<items, dn, jobs, passes, net, gen>> /\ Found(d) /\ dn[d].engine # 0
        /\ spawned' = spawned \cup {r}
    BY <1>2 DEF WriteError, list, client
  <2>2. r.id = d /\ ~r.complete
    BY DEF Req
  <2> HIDE DEF r
  <2>3. net = "up"
    BY <2>1 DEF SettleInv, EnginesOK, HasClient
  <2>4. \A w : w.id = d /\ ~w.complete => Good(w, d)'
    BY <2>1, <2>3 DEF Good, Found
  <2>5. \A e \in Ids : Listed(e) => Kept(e) /\ Left(e)
    BY <2>1 DEF Listed, Kept, Left, Found
  <2>6. EnginesOK(dn')
    BY <2>1 DEF EnginesOK, SettleInv
  <2> QED BY <2>1, <2>2, <2>4, <2>5, <2>6, SettleStep
<1>3. ASSUME NEW b \in BOOLEAN, SetGamesRunning(b) PROVE SettleInv'
  <2>1. /\ dn' = SyncPlay(policy', items, Busy(jobs), dn) /\ UNCHANGED items
        /\ UNCHANGED <<net, gen, spawned, jobs, passes>>
    BY <1>3 DEF SetGamesRunning, work, client
  <2>2. \A d \in Ids : /\ dn'[d].status = dn[d].status /\ dn'[d].engine = dn[d].engine
                       /\ ~Found(d) => dn'[d] = dn[d]
    <3>1. \A d \in Ids : ~Found(d) => dn'[d] = dn[d]
      BY <2>1 DEF SyncPlay, Found
    <3> QED BY <2>1, <3>1, RulesKeepStatus
  <2> QED BY <2>1, <2>2, SettleData DEF Mild, Waiting
<1>4. ASSUME NEW c \in Configs, SaveSettings(c) PROVE SettleInv'
  BY <1>4, SettleUnchanged DEF SaveSettings, list, work, client
<1>5. CASE Close
  BY <1>5, SettleUnchanged DEF Close, TypeInv, TypeOK, Job, NoJob, list, client
<1>6. CASE Crash
  BY <1>6, SettleRestarted DEF Crash
<1> QED BY <1>1, <1>2, <1>3, <1>4, <1>5, <1>6 DEF Environment, SwitchNetwork

\* A job that goes on to a place where it neither settles nor checks.
LEMMA SettleGoes ==
  ASSUME TypeInv, SettleInv, NEW d \in Ids, jobs[d] # NoJob, NEW ph, Goes(d, ph),
         ph = "settle" /\ jobs[d].req.complete => dn'[d].engine = 0,
         ph = "check" => dn'[d].engine # 0 /\ dn'[d].status # "completed",
         UNCHANGED <<items, spawned, passes, net, gen>>,
         \A e \in Ids \ {d} : /\ Found(e) => Mild(dn[e], dn'[e])
                              /\ ~Found(e) => dn'[e] = dn[e]
                              /\ dn'[e].engine = 0 \/ dn'[e].engine = dn[e].engine,
         dn'[d].engine \in {0, gen, dn[d].engine},
         Waiting(dn'[d]) => Waiting(dn[d]),
         ~Found(d) => dn'[d] = dn[d]
  PROVE  SettleInv'
<1>0. /\ \A e \in Ids : Found(e)' <=> Found(e)
      /\ jobs \in [Ids -> Job \cup {NoJob}]
  BY DEF Found, TypeInv, TypeOK
<1>1. net = "up"
  BY DEF SettleInv, Good
<1>2. EnginesOK(dn')
  BY <1>1 DEF EnginesOK, SettleInv, HasClient
<1>3. \A e \in Ids : Listed(e) => Kept(e) /\ (e # d => Left(e))
  BY <1>0 DEF Listed, Kept, Left, Mild
<1>4. jobs' = [jobs EXCEPT ![d] = [jobs[d] EXCEPT !.phase = ph]]
  BY DEF Goes
<1>5. /\ jobs'[d].req = jobs[d].req /\ jobs'[d].phase = ph
      /\ \A e \in Ids \ {d} : jobs'[e] = jobs[e]
  BY <1>0, <1>4, JobFacts DEF Job
<1>6. Good(jobs[d].req, d)'
  BY <1>0, <1>1, <1>5 DEF SettleInv, Good
<1>7. SettlesOnce(d)'
  BY <1>5 DEF SettlesOnce, At
<1> QED BY <1>2, <1>3, <1>5, <1>6, <1>7, SettleStep

\* Changing one record, and scheduling, in a step of a job of it that ends the job.
LEMMA SettleEnds ==
  ASSUME TypeInv, SettleInv, NEW d \in Ids, jobs[d] # NoJob, Goes(d, "end"),
         NEW r \in Download(Gens), r.engine \in {0, gen, dn[d].engine},
         Waiting(r) => Waiting(dn[d]),
         UNCHANGED <<items, policy, spawned, passes, net, gen>>,
         \/ dn' = dn
         \/ Found(d) /\ dn' = [dn EXCEPT ![d] = r]
         \/ Found(d) /\ dn' = Schedule(policy, items, [dn EXCEPT ![d] = r])
  PROVE  SettleInv'
<1> USE TypeFacts, GenFacts
<1> DEFINE E == [dn EXCEPT ![d] = r]
<1>1. E \in [Ids -> Download(Gens)] /\ E[d] = r /\ \A e \in Ids \ {d} : E[e] = dn[e]
  OBVIOUS
<1>2. \A e \in Ids : Mild(dn[e], dn[e])
  BY DEF Mild
<1> HIDE DEF E
<1>3. dn' = dn \/ (Found(d) /\ dn' \in {E, Schedule(policy, items, E)})
  BY DEF E
<1>4. \A e \in Ids \ {d} : /\ Mild(dn[e], dn'[e])
                           /\ ~Found(e) => dn'[e] = dn[e]
                           /\ dn'[e].engine = dn[e].engine
  BY <1>1, <1>2, <1>3, ScheduleMild DEF Found
<1>5. /\ dn'[d].engine \in {0, gen, dn[d].engine}
      /\ Waiting(dn'[d]) => Waiting(dn[d])
      /\ ~Found(d) => dn'[d] = dn[d]
  BY <1>1, <1>3, ScheduleMild DEF Mild
<1> QED BY <1>4, <1>5, SettleGoes

\* What markFailed makes of a download waits for nothing.
LEMMA SettleMarkFailed ==
  ASSUME TypeInv, NEW d \in Ids, NEW ok \in BOOLEAN, MarkFailed(d, ok)
  PROVE  \E r \in Download(Gens) :
           /\ r.status = "failed" /\ r.engine = dn[d].engine
           /\ dn' = dn \/ (Found(d) /\ dn' = Schedule(policy, items, [dn EXCEPT ![d] = r]))
<1> DEFINE r == Gated([dn[d] EXCEPT !.status = "failed"])
<1>1. dn[d] \in Download(Gens)
  BY TypeFacts
<1>2. [dn[d] EXCEPT !.status = "failed"] \in Download(Gens)
  BY <1>1, StatusType DEF Statuses
<1>3. r \in Download(Gens)
  BY <1>2 DEF Gated, Download
<1>4. r.status = "failed" /\ r.engine = dn[d].engine
  BY <1>1 DEF Gated, Download
<1>5. dn' = dn \/ (Found(d) /\ dn' = Schedule(policy, items, [dn EXCEPT ![d] = r]))
  BY DEF MarkFailed, Failed
<1> QED BY <1>3, <1>4, <1>5

\* The end of settleRestored leaves the download its torrent.
LEMMA SettleFinish ==
  ASSUME TypeInv, SettleInv, NEW d \in Ids, jobs[d] # NoJob, NEW ok \in BOOLEAN, Found(d),
         NEW s \in Download(Gens), s.engine # 0, s.engine \in {gen, dn[d].engine},
         Finish(d, [dn EXCEPT ![d] = s], ok),
         UNCHANGED <<items, policy, spawned, passes, net, gen>>
  PROVE  SettleInv'
<1> USE TypeFacts, GenFacts
<1> DEFINE r == jobs[d].req
           D == [dn EXCEPT ![d] = s]
           new == CASE r.paused  -> Gated([D[d] EXCEPT !.status = "paused"])
                    [] ~r.paused /\ r.force  -> Forced(policy, D[d])
                    [] ~r.paused /\ ~r.force -> [D[d] EXCEPT !.status = "queued"]
<1>0. D[d] = s
  OBVIOUS
<1>1. new \in Download(Gens) /\ new.engine = s.engine
  <2>1. /\ [s EXCEPT !.status = "paused"] \in Download(Gens)
        /\ [s EXCEPT !.status = "queued"] \in Download(Gens)
        /\ [s EXCEPT !.status = "queued"].engine = s.engine
    BY StatusType DEF Statuses
  <2>2. /\ Gated([s EXCEPT !.status = "paused"]) \in Download(Gens)
        /\ Forced(policy, s) \in Download(Gens)
    BY <2>1, RecordTypes
  <2>3. /\ Gated([s EXCEPT !.status = "paused"]).engine = s.engine
        /\ Forced(policy, s).engine = s.engine
    BY DEF Gated, Forced, Started, Download
  <2> QED BY <1>0, <2>1, <2>2, <2>3
<1>2. [D EXCEPT ![d] = new] = [dn EXCEPT ![d] = new]
  BY Zenon
<1>3. dn' = Schedule(policy, items, [D EXCEPT ![d] = new]) /\ Goes(d, "end")
  BY DEF Finish
<1>4. ~Waiting(new)
  BY <1>1 DEF Waiting
<1> HIDE DEF new, D
<1> QED BY <1>1, <1>2, <1>3, <1>4, SettleEnds

\* The jobs: each leaves its own request as it was.
LEMMA SettleJobs ==
  ASSUME TypeInv, SettleInv, NEW d \in Ids, NEW ok \in BOOLEAN, JobStep(d, ok)
  PROVE  SettleInv'
<1> USE TypeFacts, GenFacts
<1>0. dn[d] \in Download(Gens) /\ jobs[d] # NoJob /\ Good(jobs[d].req, d) /\ net = "up" /\ gen # 0
  <2>1. jobs[d] # NoJob
    BY DEF JobStep, Attach, AttachFails, GotInfo, Settle, Check, VerifyPasses, VerifyFails,
           EndJob, At
  <2> QED BY <2>1 DEF SettleInv, Good
<1>1. /\ UNCHANGED <<items, policy, spawned, net, gen>>
      /\ ~EndJob(d) => UNCHANGED passes
  BY DEF JobStep, Attach, AttachFails, GotInfo, Settle, Check, VerifyPasses, VerifyFails,
         EndJob, list, rules, client
<1>2. ASSUME Goes(d, "end"), dn' = dn, UNCHANGED passes PROVE SettleInv'
  BY <1>0, <1>1, <1>2, SettleEnds
<1>3. ASSUME NEW ph, Goes(d, ph), dn' = dn, UNCHANGED passes,
             ph = "settle" => dn[d].engine = 0, ph # "check"
      PROVE SettleInv'
  BY <1>0, <1>1, <1>3, SettleGoes DEF Mild
<1>4. ASSUME NEW ph \in Phases, Goes(d, ph), UNCHANGED passes, Found(d),
             \A e \in Ids \ {d} : dn'[e] = dn[e],
             ~Waiting(dn'[d]), dn'[d].engine \in {0, gen, dn[d].engine}, ph # "settle",
             ph = "check" => dn'[d].engine # 0 /\ dn'[d].status # "completed"
      PROVE SettleInv'
  BY <1>0, <1>1, <1>4, SettleGoes DEF Mild
<1>5. ASSUME MarkFailed(d, ok), Goes(d, "end"), UNCHANGED passes PROVE SettleInv'
  <2>1. PICK r \in Download(Gens) :
           /\ r.status = "failed" /\ r.engine = dn[d].engine
           /\ dn' = dn \/ (Found(d) /\ dn' = Schedule(policy, items, [dn EXCEPT ![d] = r]))
    BY <1>5, SettleMarkFailed
  <2> QED BY <1>0, <1>1, <1>5, <2>1, SettleEnds DEF Waiting
<1>6. CASE Attach(d)
  <2>1. CASE dn' = dn /\ ~(dn[d].engine = 0 /\ Goes(d, "settle"))
    BY <1>1, <1>3, <1>6, <2>1 DEF Attach
  <2>2. CASE dn[d].engine = 0 /\ Goes(d, "settle") /\ dn' = dn
    BY <1>1, <1>3, <1>6, <2>2 DEF Attach
  <2>3. CASE dn' = [dn EXCEPT ![d].status = "metadata"] /\ Goes(d, "metadata") /\ Found(d)
    <3> DEFINE r == [dn[d] EXCEPT !.status = "metadata"]
    <3>1. r.status = "metadata" /\ r.engine = dn[d].engine
      BY <1>0 DEF Download
    <3>2. ~Waiting(r) /\ dn' = [dn EXCEPT ![d] = r]
      BY <2>3, <3>1 DEF Waiting
    <3>3. UNCHANGED passes
      BY <1>6 DEF Attach
    <3> HIDE DEF r
    <3>4. dn'[d] = r /\ \A e \in Ids \ {d} : dn'[e] = dn[e]
      BY <3>2
    <3> QED BY <1>4, <2>3, <3>1, <3>2, <3>3, <3>4 DEF Phases
  <2> QED BY <1>6, <2>1, <2>2, <2>3 DEF Attach
<1>7. CASE AttachFails(d, ok)
  <2>1. (RestoreFailed(d, ok) \/ (Goes(d, "end") /\ MarkFailed(d, ok))) /\ UNCHANGED passes
    BY <1>7 DEF AttachFails
  <2>2. CASE dn' = [dn EXCEPT ![d].seeding = FALSE] /\ jobs[d].req.complete /\ Found(d) /\ Goes(d, "end")
    <3> DEFINE r == [dn[d] EXCEPT !.seeding = FALSE]
    <3>1. r.status = dn[d].status /\ r.engine = dn[d].engine
      BY <1>0 DEF Download
    <3>2. ~Waiting(r) /\ dn' = [dn EXCEPT ![d] = r]
      BY <1>0, <2>2, <3>1 DEF Waiting, Good
    <3> HIDE DEF r
    <3>3. dn'[d] = r /\ \A e \in Ids \ {d} : dn'[e] = dn[e]
      BY <3>2
    <3> QED BY <1>4, <2>1, <2>2, <3>1, <3>2, <3>3 DEF Phases
  <2> QED BY <1>2, <1>5, <2>1, <2>2 DEF RestoreFailed
<1>8. CASE GotInfo(d)
  BY <1>1, <1>3, <1>8 DEF GotInfo, list
<1>9. CASE Settle(d, ok)
  <2>0. UNCHANGED passes /\ At(d, "settle")
    BY <1>9 DEF Settle
  <2>1. CASE ~Superseded(d) /\ jobs[d].req.complete /\ FinishSeed(d, ok)
    <3> DEFINE r == [Attached(dn[d], gen) EXCEPT !.seeding = policy.saved.seed]
               s == IF policy.saved.seed THEN AllowUpload(policy, r) ELSE Detached(r)
    <3>1. s.status = dn[d].status /\ s.engine \in {0, gen}
      BY <1>0 DEF AllowUpload, Detached, Attached, Download
    <3>2. dn' = [dn EXCEPT ![d] = s] /\ Goes(d, "end")
      BY <2>1 DEF FinishSeed
    <3>3. dn[d].engine = 0 /\ ~Waiting(dn[d])
      BY <1>0, <2>0, <2>1 DEF SettleInv, SettlesOnce, Good
    <3>4. ~Waiting(s)
      BY <3>1, <3>3 DEF Waiting
    <3>5. Found(d)
      BY <2>1 DEF Superseded
    <3> HIDE DEF s
    <3>6. dn'[d] = s /\ \A e \in Ids \ {d} : dn'[e] = dn[e]
      BY <3>2
    <3> QED BY <1>4, <2>0, <3>1, <3>2, <3>4, <3>5, <3>6 DEF Phases
  <2>2. CASE ~Superseded(d) /\ Finish(d, [dn EXCEPT ![d] = Attached(@, gen)], ok)
    <3> DEFINE s == Attached(dn[d], gen)
    <3>1. s \in Download(Gens) /\ s.engine = gen
      BY <1>0, RecordTypes DEF Attached, Download
    <3>2. Found(d) /\ Finish(d, [dn EXCEPT ![d] = s], ok)
      BY <2>2 DEF Superseded
    <3> HIDE DEF s
    <3> QED BY <1>0, <1>1, <2>0, <3>1, <3>2, SettleFinish
  <2>3. CASE /\ ~Superseded(d) /\ Goes(d, "check")
             /\ dn' = [dn EXCEPT ![d] = [Attached(@, gen) EXCEPT !.status = "verifying"]]
    <3> DEFINE s == [Attached(dn[d], gen) EXCEPT !.status = "verifying"]
    <3>1. s.status = "verifying" /\ s.engine = gen
      BY <1>0 DEF Attached, Download
    <3>2. Found(d) /\ dn' = [dn EXCEPT ![d] = s]
      BY <2>3 DEF Superseded
    <3> HIDE DEF s
    <3>3. ~Waiting(s)
      BY <3>1 DEF Waiting
    <3>4. dn'[d] = s /\ \A e \in Ids \ {d} : dn'[e] = dn[e]
      BY <3>2
    <3> QED BY <1>0, <1>4, <2>0, <2>3, <3>1, <3>2, <3>3, <3>4 DEF Phases
  <2>4. CASE dn' = dn /\ Goes(d, "end")
    BY <1>2, <2>0, <2>4
  <2> QED BY <1>9, <2>1, <2>2, <2>3, <2>4 DEF Settle
<1>10. CASE Check(d, ok)
  <2>0. UNCHANGED passes /\ At(d, "check")
    BY <1>10 DEF Check
  <2>1. CASE Finish(d, dn, ok) /\ Found(d)
    BY <1>0, <1>1, <2>0, <2>1, SettleFinish DEF SettleInv, SettlesOnce
  <2>2. CASE dn' = dn /\ Goes(d, "end")
    BY <1>2, <2>0, <2>2
  <2> QED BY <1>10, <2>1, <2>2 DEF Check, Superseded
<1>11. CASE VerifyPasses(d, ok)
  <2> DEFINE r == Completed(dn[d])
  <2>1. r \in Download(Gens)
    BY CompletedType
  <2>2. r.status = "completed" /\ r.engine \in {0, dn[d].engine}
    BY <1>0 DEF Completed, AllowUpload, Detached, Download
  <2>3. /\ Goes(d, "end") /\ UNCHANGED passes
        /\ dn' = dn \/ (Found(d) /\ dn' = Schedule(policy, items, [dn EXCEPT ![d] = r]))
    BY <1>11 DEF VerifyPasses
  <2> HIDE DEF r
  <2> QED BY <1>0, <1>1, <2>1, <2>2, <2>3, SettleEnds DEF Waiting
<1>12. CASE VerifyFails(d, ok)
  BY <1>2, <1>5, <1>12 DEF VerifyFails
<1>13. CASE EndJob(d)
  BY <1>1, <1>13, PassFacts, SettleUnchanged DEF EndJob, TypeInv, TypeOK, Pass, list
<1> QED BY <1>6, <1>7, <1>8, <1>9, <1>10, <1>11, <1>12, <1>13 DEF JobStep

\* A goroutine registers: its job works for the request it was started with.
LEMMA SettleBegun ==
  ASSUME TypeInv, SettleInv, NEW r \in Request, r.kind # "fail", Good(r, r.id), MayBegin(r),
         jobs' = Begun(r), spawned' \subseteq spawned, UNCHANGED <<items, dn, passes, net, gen>>
  PROVE  SettleInv'
<1> DEFINE d == r.id
<1>0. d \in Ids /\ jobs \in [Ids -> Job \cup {NoJob}]
  BY DEF Request, TypeInv, TypeOK
<1>1. /\ jobs'[d].req = r /\ jobs'[d].phase = FirstPhase(r.kind)
      /\ \A e \in Ids \ {d} : jobs'[e] = jobs[e]
  BY <1>0 DEF Begun
<1>2. r.kind \in {"restore", "settle", "verify"}
  BY DEF Request, Kinds
<1>3. FirstPhase(r.kind) # "check" /\ (FirstPhase(r.kind) = "settle" => ~r.complete)
  BY <1>2 DEF FirstPhase, Good
<1>4. SettlesOnce(d)'
  BY <1>1, <1>3 DEF SettlesOnce, At
<1>5. Good(jobs[d].req, d)'
  BY <1>1 DEF Good, Found
<1>6. \A e \in Ids : Listed(e) => Kept(e) /\ Left(e)
  BY DEF Listed, Kept, Left, Found
<1>7. EnginesOK(dn')
  BY DEF SettleInv, EnginesOK
<1>8. \A r2 \in spawned' : r2 \in spawned
  OBVIOUS
<1> QED BY <1>1, <1>4, <1>5, <1>6, <1>7, <1>8, SettleStep

\* The passes: what they hand to a job was good in the pass.
LEMMA SettlePasses ==
  ASSUME TypeInv, SettleInv, NEW g \in Gens, NEW ok \in BOOLEAN, PassStep(g, ok)
  PROVE  SettleInv'
<1> USE TypeFacts, GenFacts
<1>0. /\ passes \in [Gens -> Pass]
      /\ \A h \in Gens : passes[h].req \in [Ids -> Request \cup {NoRequest}]
  BY PassFacts
<1>1. ASSUME NEW d \in Ids, PassSkip(g, d) PROVE SettleInv'
  <2> DEFINE r == [dn[d] EXCEPT !.seeding = FALSE]
  <2>1. r \in Download(Gens) /\ r.status = dn[d].status /\ r.engine = dn[d].engine
    BY DEF Download
  <2>2. dn' = dn \/ (Found(d) /\ dn' = [dn EXCEPT ![d] = r])
    BY <1>1 DEF PassSkip
  <2>3. \A h \in Gens, e \in Ids : passes'[h].req[e] # NoRequest =>
          passes'[h].req[e] = passes[h].req[e]
    BY <1>0, <1>1 DEF PassSkip, Pass
  <2>4. UNCHANGED <<items, spawned, jobs, net, gen>>
    BY <1>1 DEF PassSkip, client
  <2>5. Mild(dn[d], r)
    BY <2>1 DEF Mild, Waiting
  <2> HIDE DEF r
  <2>6. CASE dn' = dn
    BY <2>3, <2>4, <2>6, SettleUnchanged
  <2>7. CASE Found(d) /\ dn' = [dn EXCEPT ![d] = r]
    BY <2>1, <2>3, <2>4, <2>5, <2>7, SettleOne
  <2> QED BY <2>2, <2>6, <2>7
<1>2. ASSUME NEW d \in Ids, PassBegin(g, d) PROVE SettleInv'
  <2> DEFINE r == passes[g].req[d]
  <2>1. r \in Request /\ r.kind = "restore" /\ r # NoRequest
    BY <1>0, <1>2 DEF PassBegin, NextInPass, TypeInv, PassRequests
  <2>2. Good(r, d) /\ r.id = d
    BY <2>1 DEF SettleInv, Good
  <2>3. /\ MayBegin(r) /\ jobs' = Begun(r)
        /\ UNCHANGED <<items, dn, spawned, passes, net, gen>>
    BY <1>2 DEF PassBegin, list, client
  <2> HIDE DEF r
  <2> QED BY <2>1, <2>2, <2>3, SettleBegun
<1>3. \A h \in Gens, e \in Ids : [passes EXCEPT ![g] = DeadPass][h].req[e] # NoRequest =>
        [passes EXCEPT ![g] = DeadPass][h].req[e] = passes[h].req[e]
  BY <1>0 DEF DeadPass, NoReqs
<1>4. CASE PassEnd(g, ok)
  BY <1>3, <1>4, ScheduleMild, SettleData DEF PassEnd, client, Found
<1>5. CASE PassAborts(g)
  BY <1>3, <1>5, SettleUnchanged DEF PassAborts, list, client
<1> QED BY <1>1, <1>2, <1>4, <1>5 DEF PassStep

\* sample: a verification is asked for a download that has its torrent.
LEMMA SettleTick ==
  ASSUME TypeInv, SettleInv, NEW b \in BOOLEAN, NEW ok \in BOOLEAN, Tick(b, ok)
  PROVE  SettleInv'
<1> USE TypeFacts, GenFacts
<1> DEFINE turned == b # policy.blocked
           p  == [policy EXCEPT !.blocked = b]
           E  == SyncPlay(p, items, Busy(jobs), dn)
           D1 == IF turned THEN Schedule(p, items, E) ELSE dn
           done == Arrived(p, D1)
           D2 == [d \in Ids |-> IF d \in done
                                THEN [D1[d] EXCEPT !.status = "verifying"] ELSE D1[d]]
<1>1. /\ dn' = D2 /\ UNCHANGED <<items, jobs, passes, net, gen>>
      /\ spawned' = spawned \cup {Req(d, "verify") : d \in done}
  BY DEF Tick, client
<1>2. p \in Policy
  BY DEF Policy
<1>3. E \in [Ids -> Download(Gens)]
      /\ \A d \in Ids : /\ Mild(dn[d], E[d]) /\ E[d].engine = dn[d].engine
                        /\ ~Found(d) => E[d] = dn[d]
  <2> HIDE DEF p
  <2>1. E \in [Ids -> Download(Gens)]
    BY <1>2, ListTypes
  <2>2. \A d \in Ids : E[d].status = dn[d].status /\ E[d].engine = dn[d].engine
    BY RulesKeepStatus
  <2>3. \A d \in Ids : ~Found(d) => E[d] = dn[d]
    BY DEF SyncPlay, Found
  <2> HIDE DEF E
  <2> QED BY <2>1, <2>2, <2>3 DEF Mild, Waiting
<1>4. D1 \in [Ids -> Download(Gens)]
      /\ \A d \in Ids : /\ Mild(dn[d], D1[d]) /\ D1[d].engine = dn[d].engine
                        /\ ~Found(d) => D1[d] = dn[d]
  <2> HIDE DEF p, E
  <2>1. \A d \in Ids : Mild(dn[d], dn[d])
    BY DEF Mild
  <2>2. Schedule(p, items, E) \in [Ids -> Download(Gens)]
    BY <1>2, <1>3, ListTypes
  <2> QED BY <1>2, <1>3, <2>1, <2>2, ScheduleMild, MildTwice DEF Found
<1>5. \A d \in done : /\ d \in Ids /\ Found(d) /\ dn[d].engine # 0
                      /\ D1[d].engine # 0 /\ D1[d].status = "downloading"
  <2> HIDE DEF D1
  <2> QED BY <1>4 DEF Arrived, Found
<1>6. \A d \in Ids : /\ Mild(dn[d], dn'[d]) /\ dn'[d].engine = dn[d].engine
                     /\ ~Found(d) => dn'[d] = dn[d]
  <2> HIDE DEF D1, done
  <2>1. \A d \in Ids : /\ [D1[d] EXCEPT !.status = "verifying"].status = "verifying"
                       /\ [D1[d] EXCEPT !.status = "verifying"].engine = D1[d].engine
    BY <1>4 DEF Download
  <2>2. \A d \in Ids : dn'[d] = IF d \in done THEN [D1[d] EXCEPT !.status = "verifying"] ELSE D1[d]
    BY <1>1
  <2> QED BY ZenonT(60), <1>4, <1>5, <2>1, <2>2 DEF Mild, Waiting
<1> HIDE DEF done
<1>7. \A d \in done : Found(d)' /\ net' = "up"
  BY <1>1, <1>5 DEF Found, SettleInv, EnginesOK, HasClient
<1>8. \A r \in spawned' : r \in spawned \/ Good(r, r.id)'
  <2> SUFFICES ASSUME NEW d \in done PROVE \A r : r = Req(d, "verify") => Good(r, r.id)'
    BY <1>1
  <2>1. Req(d, "verify").id = d /\ ~Req(d, "verify").complete
    BY DEF Req
  <2>2. \A r : r.id = d /\ ~r.complete => Good(r, r.id)'
    BY <1>7 DEF Good
  <2> QED BY <2>1, <2>2
<1>9. \A d \in Ids : Listed(d) => Kept(d) /\ Left(d)
  BY <1>1, <1>6 DEF Listed, Kept, Left, Mild, Found
<1>10. EnginesOK(dn')
  BY <1>6 DEF EnginesOK, SettleInv
<1> QED BY <1>1, <1>8, <1>9, <1>10, SettleStep

\* What applySettings does to the torrent of a record.
LEMMA AppliedMild ==
  ASSUME NEW c, NEW p, NEW busy, NEW r \in Download(Gens)
  PROVE  /\ Mild(r, Applied(c, p, busy, r))
         /\ Applied(c, p, busy, r).engine \in {0, r.engine}
<1>1. CASE r.status # "completed" /\ r.engine # 0
  BY <1>1 DEF Applied, Download, Mild, Waiting
<1>2. CASE r.status = "completed" /\ ~c.seed
  BY <1>2 DEF Applied, Detached, Download, Mild, Waiting
<1>3. CASE r.status = "completed" /\ c.seed
  BY <1>3 DEF Applied, AllowUpload, Download, Mild, Waiting
<1>4. CASE r.status # "completed" /\ r.engine = 0
  BY <1>4 DEF Applied, Download, Mild, Waiting
<1> QED BY <1>1, <1>2, <1>3, <1>4

\* applySettings: a reseed is asked for a finished download.
LEMMA SettleApplySettings ==
  ASSUME TypeInv, SettleInv, NEW c \in Configs, NEW b \in BOOLEAN, NEW ok \in BOOLEAN,
         ApplySettings(c, b, ok)
  PROVE  SettleInv'
<1> USE TypeFacts, GenFacts
<1> DEFINE p  == [policy EXCEPT !.rate = c, !.blocked = b, !.max = c.max]
           turned == PlayHeld(p) # PlayHeld(policy) \/ b # policy.blocked
           D1 == IF turned THEN SyncPlay(p, items, Busy(jobs), dn) ELSE dn
           E  == [d \in Ids |-> IF Found(d) THEN Applied(c, p, jobs[d] # NoJob, D1[d])
                                ELSE D1[d]]
           new == {d \in Range(items) : Reseeds(c, d) /\ jobs[d] = NoJob}
           w(d) == [Req(d, "restore") EXCEPT !.complete = TRUE]
<1>1. /\ dn' = Schedule(p, items, E) /\ UNCHANGED <<items, jobs, passes, net, gen>>
      /\ spawned' = spawned \/ (HasClient /\ spawned' = spawned \cup {w(d) : d \in new})
  BY DEF ApplySettings
<1>2. c \in Config /\ p \in Policy
  BY ManagerConstants DEF Policy, Config
<1>3. D1 \in [Ids -> Download(Gens)]
      /\ \A d \in Ids : /\ D1[d].status = dn[d].status /\ D1[d].engine = dn[d].engine
                        /\ ~Found(d) => D1[d] = dn[d]
  <2> HIDE DEF p
  <2>1. SyncPlay(p, items, Busy(jobs), dn) \in [Ids -> Download(Gens)]
    BY <1>2, ListTypes
  <2>2. \A d \in Ids : ~Found(d) => SyncPlay(p, items, Busy(jobs), dn)[d] = dn[d]
    BY DEF SyncPlay, Found
  <2> QED BY <2>1, <2>2, RulesKeepStatus
<1>4. E \in [Ids -> Download(Gens)]
      /\ \A d \in Ids : /\ Mild(dn[d], E[d]) /\ E[d].engine \in {0, dn[d].engine}
                        /\ E[d].status = dn[d].status
                        /\ ~Found(d) => E[d] = dn[d]
  <2> HIDE DEF p, D1
  <2>1. \A d \in Ids, x \in BOOLEAN :
          /\ Applied(c, p, x, D1[d]) \in Download(Gens)
          /\ Mild(D1[d], Applied(c, p, x, D1[d]))
          /\ Applied(c, p, x, D1[d]).engine \in {0, D1[d].engine}
          /\ Applied(c, p, x, D1[d]).status = D1[d].status
    BY <1>2, <1>3, AppliedType, AppliedKeeps, AppliedMild
  <2>2. \A d \in Ids : Mild(dn[d], D1[d])
    BY <1>3 DEF Mild, Waiting
  <2>3. \A d \in Ids : E[d] = IF Found(d) THEN Applied(c, p, jobs[d] # NoJob, D1[d]) ELSE D1[d]
    OBVIOUS
  <2>4. E \in [Ids -> Download(Gens)]
    BY <1>3, <2>1
  <2> HIDE DEF E
  <2> QED BY <1>3, <2>1, <2>2, <2>3, <2>4, MildTwice
<1> HIDE DEF E, p, D1
<1>5. \A d \in Ids : /\ Mild(dn[d], dn'[d]) /\ dn'[d].engine \in {0, dn[d].engine}
                     /\ dn[d].status = "completed" => dn'[d].status = "completed"
                     /\ ~Found(d) => dn'[d] = dn[d]
  BY <1>1, <1>2, <1>4, ScheduleMild, MildTwice DEF Found
<1>6. \A d \in new : d \in Ids /\ Found(d) /\ dn[d].status = "completed"
  BY DEF Reseeds, Found
<1>7. \A r \in spawned' : r \in spawned \/ Good(r, r.id)'
  <2> SUFFICES ASSUME NEW d \in new, HasClient PROVE \A r : r = w(d) => Good(r, r.id)'
    BY <1>1
  <2>1. w(d).id = d /\ w(d).kind = "restore"
    BY DEF Req
  <2>2. Found(d)' /\ dn'[d].status = "completed" /\ net' = "up"
    BY <1>1, <1>5, <1>6 DEF Found, HasClient, SettleInv
  <2>3. \A r : r.id = d /\ r.kind = "restore" => Good(r, r.id)'
    BY <2>2 DEF Good, Waiting
  <2> QED BY <2>1, <2>3
<1>8. \A d \in Ids : Listed(d) => Kept(d) /\ Left(d)
  BY <1>1, <1>5 DEF Listed, Kept, Left, Mild, Found
<1>9. EnginesOK(dn')
  BY <1>5 DEF EnginesOK, SettleInv
<1> QED BY <1>1, <1>7, <1>8, <1>9, SettleStep

\* What jobsLocked makes for a download.
LEMMA SnapshotFacts ==
  ASSUME NEW x, NEW h, NEW e, NEW how
  PROVE  /\ Snapshot(x, h, e, how).id = e /\ Snapshot(x, h, e, how).kind = "restore"
         /\ Snapshot(x, h, e, how).complete => dn[e].status = "completed"
BY DEF Snapshot

\* What a pass restores is in the list.
LEMMA SettleNewPass ==
  ASSUME NEW h, NEW picked, NEW s, DOMAIN picked \subseteq Range(items), NEW e \in Ids,
         NewPass(h, picked, s).req[e] # NoRequest
  PROVE  Found(e) /\ e \in DOMAIN picked /\ NewPass(h, picked, s).req[e] = picked[e]
BY DEF NewPass, Found

\* What goes on in the background.
LEMMA SettleBackground ==
  ASSUME TypeInv, SettleInv, NEW ok \in BOOLEAN, Background(ok)
  PROVE  SettleInv'
<1> USE TypeFacts, GenFacts
<1>0. \A d \in Ids : dn[d] \in Download(Gens)
  OBVIOUS
<1>1. ASSUME NEW d \in Ids, Transfer(d) PROVE SettleInv'
  <2> DEFINE r == [dn[d] EXCEPT !.have = TRUE]
  <2>1. r \in Download(Gens) /\ r.status = dn[d].status /\ r.engine = dn[d].engine
    BY <1>0 DEF Download
  <2>2. Mild(dn[d], r)
    BY <2>1 DEF Mild, Waiting
  <2>3. Found(d) /\ dn' = [dn EXCEPT ![d] = r] /\ UNCHANGED <<items, spawned, jobs, passes, net, gen>>
    BY <1>1 DEF Transfer, work, client
  <2> HIDE DEF r
  <2> QED BY <2>1, <2>2, <2>3, SettleOne
<1>2. ASSUME NEW r \in spawned, FailSpawned(r, ok) PROVE SettleInv'
  <2>0. r.id \in Ids
    BY DEF TypeInv, TypeOK, Request
  <2>1. PICK s \in Download(Gens) :
           /\ s.status = "failed" /\ s.engine = dn[r.id].engine
           /\ dn' = dn \/ (Found(r.id) /\ dn' = Schedule(policy, items, [dn EXCEPT ![r.id] = s]))
    BY <1>2, <2>0, SettleMarkFailed DEF FailSpawned
  <2>2. UNCHANGED <<items, jobs, passes, net, gen>> /\ spawned' \subseteq spawned
    BY <1>2 DEF FailSpawned, client
  <2> DEFINE E == [dn EXCEPT ![r.id] = s]
  <2>3. E \in [Ids -> Download(Gens)] /\ E[r.id] = s /\ \A e \in Ids \ {r.id} : E[e] = dn[e]
    BY <2>0
  <2>4. \A e \in Ids : Mild(dn[e], dn[e]) /\ Mild(dn[e], E[e]) /\ E[e].engine = dn[e].engine
    <3> HIDE DEF E
    <3> QED BY <2>1, <2>3 DEF Mild, Waiting
  <2>5. dn' = dn \/ (Found(r.id) /\ dn' = Schedule(policy, items, E))
    BY <2>1
  <2> HIDE DEF E
  <2>6. \A e \in Ids : /\ Mild(dn[e], dn'[e]) /\ dn'[e].engine = dn[e].engine
                       /\ ~Found(e) => dn'[e] = dn[e]
    BY <2>3, <2>4, <2>5, ScheduleMild, MildTwice DEF Found
  <2>7. EnginesOK(dn')
    BY <2>6 DEF EnginesOK, SettleInv
  <2>8. \A e \in Ids : Listed(e) => Kept(e) /\ Left(e)
    BY <2>2, <2>6 DEF Listed, Kept, Left, Mild, Found
  <2> QED BY <2>2, <2>7, <2>8, SettleStep
<1>3. ASSUME NEW r \in spawned, Begin(r) PROVE SettleInv'
  <2>1. r \in Request /\ r.kind # "fail" /\ Good(r, r.id)
    BY <1>3 DEF Begin, TypeInv, TypeOK, SettleInv
  <2>2. UNCHANGED <<items, dn, passes, net, gen>> /\ spawned' \subseteq spawned
    BY <1>3 DEF Begin, list, client
  <2>3. CASE MayBegin(r) /\ jobs' = Begun(r)
    BY <2>1, <2>2, <2>3, SettleBegun
  <2>4. CASE jobs' = jobs
    BY <2>2, <2>4, SettleStep DEF Listed, Kept, Left, Found, EnginesOK, SettleInv
  <2> QED BY <1>3, <2>3, <2>4 DEF Begin
<1>4. CASE RestoreStart
  <2>1. /\ UNCHANGED <<items, dn, spawned, jobs, net, gen>>
        /\ UNCHANGED passes \/ net = "up"
    BY <1>4 DEF RestoreStart, list, HasClient, SettleInv
  <2>2. CASE UNCHANGED passes
    BY <2>1, <2>2, SettleUnchanged
  <2>3. CASE net = "up"
    <3> DEFINE picked == [d \in Range(items) |-> Snapshot(gen, 0, d, NoEntry)]
               P == NewPass(0, picked, policy.saved.seed)
    <3>0. passes' = [passes EXCEPT ![0] = P]
      BY <1>4, <2>3 DEF RestoreStart, HasClient
    <3>1. ASSUME NEW e \in Ids, P.req[e] # NoRequest
          PROVE  \A r : r = P.req[e] => Good(r, e)'
      <4>1. DOMAIN picked \subseteq Range(items)
        OBVIOUS
      <4>2. Found(e) /\ e \in Range(items) /\ P.req[e] = picked[e]
        <5> HIDE DEF picked
        <5>1. Found(e) /\ e \in DOMAIN picked /\ P.req[e] = picked[e]
          BY <3>1, <4>1, SettleNewPass
        <5> QED BY <5>1 DEF picked
      <4>3. picked[e] = Snapshot(gen, 0, e, NoEntry)
        BY <4>2
      <4> HIDE DEF picked
      <4> HIDE DEF P
      <4>4. \A r : /\ r.id = e /\ r.kind = "restore"
                   /\ r.complete => dn[e].status = "completed"
                   => Good(r, e)'
        BY <2>1, <2>3, <4>2 DEF Good, Found, Waiting
      <4> QED BY <4>2, <4>3, <4>4, SnapshotFacts
    <3> HIDE DEF P
    <3>2. ASSUME NEW g \in Gens, NEW e \in Ids, passes'[g].req[e] # NoRequest
          PROVE  passes'[g].req[e] = passes[g].req[e] \/ Good(passes[g].req[e], e)'
      BY <3>0, <3>1, <3>2, PassFacts DEF Good
    <3>3. \A e \in Ids : Listed(e) => Kept(e) /\ Left(e)
      BY <2>1 DEF Listed, Kept, Left, Found
    <3>4. EnginesOK(dn')
      BY <2>1 DEF EnginesOK, SettleInv
    <3> QED BY <2>1, <3>2, <3>3, <3>4, SettleStep
  <2> QED BY <2>1, <2>2, <2>3
<1>5. CASE BringUp
  <2>1. /\ UNCHANGED <<items, dn, spawned, jobs>> /\ net = "down" /\ net' = "up"
        /\ gen' = gen + 1 /\ gen + 1 \in Gens
    BY <1>5, ManagerConstants DEF BringUp, list, Gens
  <2>2. /\ \A r \in spawned : FALSE
        /\ \A d \in Ids : jobs[d] = NoJob /\ dn[d].engine = 0
        /\ \A g \in Gens, d \in Ids : passes[g].req[d] = NoRequest
    BY <2>1 DEF SettleInv, Good, EnginesOK, HasClient
  <2>3. ASSUME NEW g \in Gens, NEW e \in Ids, passes'[g].req[e] # NoRequest
        PROVE  Good(passes[g].req[e], e)'
    <3> DEFINE how(d) == [resume.ids[d] EXCEPT !.trusted = @ /\ ~resume.all]
               picked == [d \in Picked |-> Snapshot(gen + 1, gen + 1, d, how(d))]
    <3>0. PICK c \in Configs : passes' = [passes EXCEPT ![gen + 1] = NewPass(gen + 1, picked, c.seed)]
      BY <1>5, <2>2, <2>3 DEF BringUp
    <3> DEFINE P == NewPass(gen + 1, picked, c.seed)
    <3>1. passes' = [passes EXCEPT ![gen + 1] = P]
      BY <3>0
    <3>2. passes'[g].req[e] = P.req[e]
      <4> HIDE DEF P
      <4>1. passes \in [Gens -> Pass]
        BY PassFacts
      <4> QED BY <2>1, <2>2, <2>3, <3>1, <4>1
    <3>3. DOMAIN picked \subseteq Range(items)
      BY DEF Picked
    <3>4. Found(e) /\ e \in Picked /\ P.req[e] = picked[e]
      <4> HIDE DEF picked
      <4>1. Found(e) /\ e \in DOMAIN picked /\ P.req[e] = picked[e]
        BY <2>3, <3>2, <3>3, SettleNewPass
      <4> QED BY <4>1 DEF picked
    <3>5. picked[e] = Snapshot(gen + 1, gen + 1, e, how(e))
      BY <3>4
    <3> HIDE DEF picked, how
    <3>6. /\ Found(e) /\ P.req[e].id = e /\ P.req[e].kind = "restore"
          /\ P.req[e].complete => dn[e].status = "completed"
      BY <3>4, <3>5, SnapshotFacts
    <3> HIDE DEF P
    <3> QED BY <2>1, <3>2, <3>6 DEF Good, Found, Waiting
  <2>4. gen' # 0
    BY <2>1, ManagerConstants DEF Gens
  <2>5. EnginesOK(dn)' /\ \A d \in Ids : SettlesOnce(d)'
    BY <2>1, <2>2 DEF EnginesOK, SettlesOnce, At
  <2> QED BY <2>1, <2>2, <2>3, <2>4, <2>5 DEF SettleInv
<1>6. CASE Quit(ok)
  BY <1>6, SettleRestarted DEF Quit
<1>7. CASE TeardownDetach \/ TeardownPark(ok) \/ TeardownDone
  BY <1>7 DEF TeardownDetach, TeardownPark, TeardownDone, SettleInv
<1> QED BY <1>1, <1>2, <1>3, <1>4, <1>5, <1>6, <1>7, SettlePasses, SettleTick,
           SettleApplySettings, SettleJobs DEF Background

-----------------------------------------------------------------------------
(* The invariant, and the slots.                                            *)

\* The invariant holds of what a start finds, and every step keeps it.
LEMMA SettleInit == Init => SettleInv
<1> SUFFICES ASSUME Init PROVE SettleInv
  OBVIOUS
<1>1. /\ spawned = {} /\ \A d \in Ids : jobs[d] = NoJob /\ dn[d].engine = 0
      /\ \A g \in Gens : passes[g] = DeadPass
      /\ net \in {"up", "down"} /\ (net = "up" => gen # 0)
  BY DEF Init, Booted, Loaded
<1>2. \A d \in Ids : DeadPass.req[d] = NoRequest
  BY DEF DeadPass, NoReqs
<1> QED BY <1>1, <1>2 DEF SettleInv, EnginesOK, SettlesOnce, At

\* The invariant, where no network change takes the client down.
LEMMA SettleInvariant ==
  ASSUME "network" \notin Events
  PROVE  Spec => [](TypeInv /\ Once /\ SettleInv)
<1>1. TypeInv /\ Once /\ SettleInv /\ [Next]_vars => SettleInv'
  <2> SUFFICES ASSUME TypeInv, Once, SettleInv, [Next]_vars
               PROVE  SettleInv'
    OBVIOUS
  <2>1. CASE UNCHANGED vars
    BY <2>1, SettleUnchanged DEF vars, list, work, client
  <2> QED BY <2>1, SettleEnvironment, SettleRequests, SettleBackground DEF Next
<1> QED BY <1>1, SettleInit, OnceInvariant, PTL DEF Spec

\* A record that takes a slot if the other did, and may start only if the other might.
Fills(r, s) ==
  /\ CountsActive(policy, r) => CountsActive(policy, s)
  /\ MayStart(policy, s) => MayStart(policy, r)

\* The changes of a record that free no slot and make nobody startable.
LEMMA FillsWhen ==
  ASSUME NEW r, NEW s,
         \/ s.status = r.status /\ s.ignore = r.ignore /\ s.engine \in {0, r.engine}
         \/ s.status = r.status /\ s.ignore = r.ignore /\ s.status # "queued"
         \/ s.status \in {"verifying", "metadata"}
         \/ ~Occupies(r.status) /\ (s.status = "queued" => s.engine = 0)
  PROVE  Fills(r, s)
BY DEF Fills, CountsActive, MayStart, SchedHeld, Occupies

\* After schedule() no slot is free beside a download that could take it ...
LEMMA ScheduledFills ==
  ASSUME TypeInv', Once', NEW E \in [Ids -> Download(Gens)],
         \A d \in Ids : \/ dn'[d] = Schedule(policy', items', E)[d]
                        \/ dn'[d].status = "verifying"
  PROVE  NoIdleSlot'
<1>0. /\ items' \in Seq(Ids) /\ policy' \in Policy /\ dn' \in [Ids -> Download(Gens)]
      /\ IsInjective(items') /\ Range(items') \subseteq Ids
  BY DEF TypeInv, TypeOK, Once, Range
<1> DEFINE S == Schedule(policy', items', E)
<1>1. S \in [Ids -> Download(Gens)]
  BY <1>0, ListTypes, GenFacts
<1>2. \A d \in Ids : dn'[d] = S[d] \/ dn'[d].status = "verifying"
  OBVIOUS
<1>3. \A d \in Range(items') : ~MayStart(policy', S[d])
      \/ ~(Active(policy', items', S) < policy'.max)
  BY <1>0, ScheduleFills
<1> HIDE DEF S
<1>4. Active(policy', items', S) <= Active(policy', items', dn')
  BY <1>0, <1>1, <1>2, ActiveGrows DEF CountsActive, Occupies
<1>5. /\ Active(policy', items', S) \in Nat /\ Active(policy', items', dn') \in Nat
      /\ policy'.max \in Nat
  BY <1>0, <1>1, CountsAreFinite
<1>6. \A d \in Range(items') : MayStart(policy', dn'[d]) => MayStart(policy', S[d])
  BY <1>0, <1>2 DEF MayStart
<1> QED BY <1>3, <1>4, <1>5, <1>6 DEF NoIdleSlot

\* In particular after a request that ends with it.
LEMMA CommitFills ==
  ASSUME TypeInv', Once', NEW E \in [Ids -> Download(Gens)],
         dn' = Schedule(policy', items', E)
  PROVE  NoIdleSlot'
BY ScheduledFills

\* ... and none is if none was, the rules are the same and nobody left a slot or the wait
\* for something else than one.
LEMMA FilledStays ==
  ASSUME TypeInv, TypeInv', NoIdleSlot,
         policy'.max = policy.max, policy'.blocked = policy.blocked,
         \A d \in Range(items) : d \in Range(items') /\ Fills(dn[d], dn'[d]),
         \A d \in Range(items') \ Range(items) : dn'[d].engine = 0
  PROVE  NoIdleSlot'
<1>0. /\ items \in Seq(Ids) /\ policy \in Policy /\ dn \in [Ids -> Download(Gens)]
      /\ items' \in Seq(Ids) /\ policy' \in Policy /\ dn' \in [Ids -> Download(Gens)]
  BY DEF TypeInv, TypeOK
<1>1. \A r : /\ CountsActive(policy', r) <=> CountsActive(policy, r)
             /\ MayStart(policy', r) <=> MayStart(policy, r)
  BY DEF CountsActive, MayStart, SchedHeld
<1>2. Active(policy, items, dn) <= Active(policy', items', dn')
  BY <1>0, <1>1, ActiveGrows DEF Fills
<1>3. /\ Active(policy, items, dn) \in Nat /\ Active(policy', items', dn') \in Nat
      /\ policy.max \in Nat
  BY <1>0, CountsAreFinite
<1>4. \A d \in Range(items') : MayStart(policy', dn'[d])
                               => d \in Range(items) /\ MayStart(policy, dn[d])
  BY <1>1 DEF Fills, MayStart
<1> QED BY <1>2, <1>3, <1>4 DEF NoIdleSlot

\* A step that changes one record.
LEMMA FilledOne ==
  ASSUME TypeInv, TypeInv', NoIdleSlot, UNCHANGED <<items, policy>>,
         NEW d \in Ids, NEW r, Fills(dn[d], r),
         dn' = dn \/ dn' = [dn EXCEPT ![d] = r]
  PROVE  NoIdleSlot'
<1>1. \A e \in Ids : dn'[e] = dn[e] \/ (e = d /\ dn'[e] = r)
  BY TypeFacts
<1>2. \A e \in Ids : Fills(dn[e], dn[e])
  BY DEF Fills
<1>3. \A e \in Range(items) : e \in Ids
  BY TypeFacts
<1> QED BY <1>1, <1>2, <1>3, FilledStays

\* A step that leaves the downloads alone.
LEMMA FilledUnchanged ==
  ASSUME TypeInv, TypeInv', NoIdleSlot, UNCHANGED <<items, dn>>,
         policy'.max = policy.max, policy'.blocked = policy.blocked
  PROVE  NoIdleSlot'
<1>1. \A e \in Range(items) : Fills(dn[e], dn'[e])
  BY DEF Fills
<1> QED BY <1>1, FilledStays

\* While nobody has a torrent, nobody can start.
LEMMA FilledRestarted ==
  ASSUME TypeInv', NEW st, Restarted(st)
  PROVE  NoIdleSlot'
<1>1. \A d \in Ids : dn'[d].engine = 0
  BY DEF Restarted, Loaded
<1>2. \A d \in Range(items') : d \in Ids
  BY DEF TypeInv, TypeOK, Range
<1> QED BY <1>1, <1>2 DEF NoIdleSlot, MayStart

\* The requests of the user; StopAndWait is the one that frees a slot and does not schedule.
LEMMA FilledRequests ==
  ASSUME TypeInv, TypeInv', Once, Once', NoIdleSlot, "stopAndWait" \notin Events,
         NEW ok \in BOOLEAN, Requests(ok)
  PROVE  NoIdleSlot'
<1> USE TypeFacts, GenFacts
<1>0. \A d \in Ids : dn[d] \in Download(Gens)
  OBVIOUS
<1>1. ASSUME NEW d \in Ids, Add(d, ok) PROVE NoIdleSlot'
  <2> DEFINE E == [dn EXCEPT ![d] = Attached(@, gen)]
  <2>1. E \in [Ids -> Download(Gens)]
    BY RecordTypes
  <2>2. policy' = policy /\ (dn' = Schedule(policy', items', E) \/ UNCHANGED <<items, dn>>)
    BY <1>1 DEF Add, rules
  <2> HIDE DEF E
  <2> QED BY <2>1, <2>2, CommitFills, FilledUnchanged
<1>2. ASSUME NEW d \in Ids, AddTask(d, ok) PROVE NoIdleSlot'
  BY <1>2, AppendProperties, FilledStays DEF AddTask, rules, Fresh, Range, Fills
<1>3. ASSUME NEW d \in Ids, NEW r \in Download(Gens),
             Commit(ok, [dn EXCEPT ![d] = r], dn), UNCHANGED <<items, policy>>
      PROVE  NoIdleSlot'
  <2> DEFINE E == [dn EXCEPT ![d] = r]
  <2>1. E \in [Ids -> Download(Gens)]
    OBVIOUS
  <2>2. dn' = Schedule(policy', items', E) \/ dn' = dn
    BY <1>3 DEF Commit
  <2> HIDE DEF E
  <2> QED BY <1>3, <2>1, <2>2, CommitFills, FilledUnchanged
<1>4. ASSUME NEW d \in Ids, Pause(d, ok) PROVE NoIdleSlot'
  <2> DEFINE r == Gated([dn[d] EXCEPT !.status = "paused"])
  <2>1. r \in Download(Gens)
    BY <1>0, StatusType, RecordTypes DEF Statuses
  <2>2. Commit(ok, [dn EXCEPT ![d] = r], dn) /\ UNCHANGED <<items, policy>>
    BY <1>4 DEF Pause, rules
  <2> HIDE DEF r
  <2> QED BY <1>3, <2>1, <2>2
<1>5. ASSUME NEW d \in Ids, NEW force, ~Occupies(dn[d].status), dn[d].engine = 0,
             Reattach(d, force, ok) \/ QueueWhileDown(d, force, ok)
      PROVE  NoIdleSlot'
  <2>1. UNCHANGED <<items, policy>>
        /\ (dn' = dn \/ \E s \in {"verifying", "queued"} : dn' = [dn EXCEPT ![d].status = s])
    BY <1>5 DEF Reattach, QueueWhileDown, rules
  <2>2. ASSUME NEW s \in {"verifying", "queued"}
        PROVE  Fills(dn[d], [dn[d] EXCEPT !.status = s])
    BY <1>0, <1>5, FillsWhen DEF Download
  <2> QED BY <2>1, <2>2, FilledOne, FilledUnchanged
<1>6. ASSUME NEW d \in Ids, Resume(d, ok) PROVE NoIdleSlot'
  <2>1. CASE Commit(ok, [dn EXCEPT ![d].status = "queued"], dn) /\ UNCHANGED <<items, rules>>
    <3> DEFINE r == [dn[d] EXCEPT !.status = "queued"]
    <3>1. r \in Download(Gens)
      BY <1>0 DEF Download, Statuses
    <3>2. Commit(ok, [dn EXCEPT ![d] = r], dn) /\ UNCHANGED <<items, policy>>
      BY <2>1 DEF rules
    <3> HIDE DEF r
    <3> QED BY <1>3, <3>1, <3>2
  <2> QED BY <1>5, <1>6, <2>1 DEF Resume, Occupies
<1>7. ASSUME NEW d \in Ids, ForceStart(d, ok) PROVE NoIdleSlot'
  <2>1. ~Occupies(dn[d].status)
    BY <1>7 DEF ForceStart, Occupies
  <2>2. CASE dn[d].engine = 0
    BY <1>5, <1>7, <2>1, <2>2 DEF ForceStart
  <2>3. CASE dn[d].engine # 0
    <3> DEFINE r == Forced(policy, dn[d])
               s == [dn[d] EXCEPT !.dl = r.dl, !.ul = r.ul]
    <3>1. UNCHANGED <<items, policy>> /\ dn' \in {[dn EXCEPT ![d] = r], [dn EXCEPT ![d] = s]}
      <4>1. [dn EXCEPT ![d].dl = r.dl, ![d].ul = r.ul] = [dn EXCEPT ![d] = s]
        <5> HIDE DEF r
        <5> QED BY <1>0 DEF Download
      <4> HIDE DEF s
      <4> QED BY <1>7, <2>3, <4>1 DEF ForceStart, rules, QueueWhileDown, Reattach
    <3>2. r.status = "downloading"
      BY <1>0, <2>3 DEF Forced, Started, Download
    <3>3. s.status = dn[d].status /\ s.ignore = dn[d].ignore /\ s.engine = dn[d].engine
      <4> HIDE DEF r
      <4> QED BY <1>0 DEF Download
    <3> HIDE DEF r, s
    <3>4. Fills(dn[d], r) /\ Fills(dn[d], s)
      BY <2>1, <3>2, <3>3, FillsWhen
    <3> QED BY <3>1, <3>4, FilledOne
  <2> QED BY <2>2, <2>3
<1>8. ASSUME NEW d \in Ids, DownloadNow(d, ok) PROVE NoIdleSlot'
  <2> DEFINE D == [dn EXCEPT ![d].ignore = TRUE]
             E == SyncPlay(policy, items, Busy(jobs), D)
  <2>1. D \in [Ids -> Download(Gens)]
    BY ZenonT(60), <1>0 DEF Download
  <2>2. E \in [Ids -> Download(Gens)]
    <3> HIDE DEF D
    <3> QED BY <2>1, ListTypes
  <2>3. UNCHANGED <<items, policy>> /\ (dn' = dn \/ dn' = Schedule(policy', items', E))
    BY <1>8 DEF DownloadNow, rules
  <2> HIDE DEF E
  <2> QED BY <2>2, <2>3, CommitFills, FilledUnchanged
<1>9. ASSUME NEW d \in Ids, StopSeeding(d, ok) PROVE NoIdleSlot'
  <2> DEFINE r == Detached([dn[d] EXCEPT !.seeding = FALSE])
  <2>1. r.status = dn[d].status /\ r.ignore = dn[d].ignore /\ r.engine = 0
    BY <1>0 DEF Detached, Download
  <2>2. UNCHANGED <<items, policy>> /\ (dn' = dn \/ dn' = [dn EXCEPT ![d] = r])
    BY <1>9 DEF StopSeeding, rules
  <2> HIDE DEF r
  <2>3. Fills(dn[d], r)
    BY <2>1, FillsWhen
  <2> QED BY <2>2, <2>3, FilledOne
<1>10. ASSUME NEW i \in DOMAIN items, NEW j \in DOMAIN items, Move(i, j, ok) PROVE NoIdleSlot'
  <2> DEFINE q == [items EXCEPT ![i] = items[j], ![j] = items[i]]
  <2>1. UNCHANGED <<dn, policy>> /\ Range(items') = Range(items)
    <3>1. Range(q) = Range(items)
      BY SwapOnce DEF Once
    <3>2. UNCHANGED <<dn, policy>> /\ (items' = q \/ items' = items)
      BY <1>10 DEF Move, rules
    <3> HIDE DEF q
    <3> QED BY <3>1, <3>2
  <2>2. \A e \in Range(items) : Fills(dn[e], dn'[e])
    BY <2>1 DEF Fills
  <2> QED BY <2>1, <2>2, FilledStays
<1>11. ASSUME NEW i \in DOMAIN items, Discard(i, ok) PROVE NoIdleSlot'
  <2> DEFINE E == [dn EXCEPT ![items[i]] = Gone]
  <2>1. E \in [Ids -> Download(Gens)]
    BY FreshType
  <2>2. policy' = policy /\ (dn' = Schedule(policy', items', E) \/ UNCHANGED <<items, dn>>)
    BY <1>11 DEF Discard, Drop, rules
  <2> HIDE DEF E
  <2> QED BY <2>1, <2>2, CommitFills, FilledUnchanged
<1> QED BY <1>1, <1>2, <1>4, <1>6, <1>7, <1>8, <1>9, <1>10, <1>11 DEF Requests, StopAndWait

\* What happens around the manager.
LEMMA FilledEnvironment ==
  ASSUME TypeInv, TypeInv', NoIdleSlot, Environment
  PROVE  NoIdleSlot'
<1> USE TypeFacts, GenFacts
<1>1. ASSUME NEW b \in BOOLEAN, SetGamesRunning(b) PROVE NoIdleSlot'
  BY <1>1, RulesKeepStatus, FillsWhen, FilledStays DEF SetGamesRunning, Policy
<1>2. ASSUME NEW c \in Configs, SaveSettings(c) PROVE NoIdleSlot'
  BY <1>2, FilledUnchanged DEF SaveSettings, list, Policy
<1>3. CASE Crash
  BY <1>3, FilledRestarted DEF Crash
<1>4. CASE UNCHANGED <<items, dn, policy>>
  BY <1>4, FilledUnchanged
<1> QED
  BY <1>1, <1>2, <1>3, <1>4
     DEF Environment, StopSeedingJob, WriteError, SwitchNetwork, Close, list, rules

\* A download that failed gives its slot away.
LEMMA FilledMarkFailed ==
  ASSUME TypeInv, TypeInv', Once', NoIdleSlot, NEW d \in Ids, NEW ok \in BOOLEAN,
         MarkFailed(d, ok), UNCHANGED <<items, policy>>
  PROVE  NoIdleSlot'
<1> USE TypeFacts, GenFacts
<1> DEFINE r == Gated([dn[d] EXCEPT !.status = "failed"])
           E == [dn EXCEPT ![d] = r]
<1>1. dn[d] \in Download(Gens)
  OBVIOUS
<1>2. r \in Download(Gens)
  BY <1>1 DEF Gated, Download, Statuses
<1>3. dn' = dn \/ dn' = Schedule(policy', items', E)
  BY DEF MarkFailed, Failed
<1> HIDE DEF r
<1>4. E \in [Ids -> Download(Gens)]
  BY <1>2
<1> HIDE DEF E
<1> QED BY <1>3, <1>4, CommitFills, FilledUnchanged

\* The end of settleRestored schedules.
LEMMA FilledFinish ==
  ASSUME TypeInv, TypeInv', Once', NEW d \in Ids, NEW ok \in BOOLEAN,
         NEW D \in [Ids -> Download(Gens)], Finish(d, D, ok), UNCHANGED <<items, policy>>
  PROVE  NoIdleSlot'
<1> USE TypeFacts, GenFacts
<1> DEFINE r == jobs[d].req
           new == CASE r.paused  -> Gated([D[d] EXCEPT !.status = "paused"])
                    [] ~r.paused /\ r.force  -> Forced(policy, D[d])
                    [] ~r.paused /\ ~r.force -> [D[d] EXCEPT !.status = "queued"]
           E == [D EXCEPT ![d] = new]
<1>1. new \in Download(Gens)
  BY StatusType, RecordTypes DEF Statuses
<1>2. dn' = Schedule(policy', items', E)
  BY DEF Finish
<1> HIDE DEF new
<1>3. E \in [Ids -> Download(Gens)]
  BY <1>1
<1> HIDE DEF E
<1> QED BY <1>2, <1>3, CommitFills

\* FinishSeed gives a finished download its torrent back, and nothing to the queue.
LEMMA FilledFinishSeed ==
  ASSUME TypeInv, TypeInv', SettleInv, NoIdleSlot, NEW d \in Ids, NEW ok \in BOOLEAN,
         At(d, "settle"), jobs[d].req.complete, FinishSeed(d, ok), UNCHANGED <<items, policy>>
  PROVE  NoIdleSlot'
<1> USE TypeFacts, GenFacts
<1> DEFINE r == [Attached(dn[d], gen) EXCEPT !.seeding = policy.saved.seed]
           s == IF policy.saved.seed THEN AllowUpload(policy, r) ELSE Detached(r)
<1>1. dn[d] \in Download(Gens)
  OBVIOUS
<1>2. s.status = dn[d].status /\ s.ignore = dn[d].ignore
  BY <1>1 DEF AllowUpload, Detached, Attached, Download
<1>3. dn' = [dn EXCEPT ![d] = s]
  BY DEF FinishSeed
<1>4. dn[d].status # "queued"
  BY DEF SettleInv, SettlesOnce, Good, Waiting, At
<1> HIDE DEF s
<1>5. Fills(dn[d], s)
  BY <1>2, <1>4, FillsWhen
<1> QED BY <1>3, <1>5, FilledOne

\* The jobs.
LEMMA FilledJobs ==
  ASSUME TypeInv, TypeInv', Once', SettleInv, NoIdleSlot,
         NEW d \in Ids, NEW ok \in BOOLEAN, JobStep(d, ok)
  PROVE  NoIdleSlot'
<1> USE TypeFacts, GenFacts
<1>0. dn[d] \in Download(Gens)
  OBVIOUS
<1>1. UNCHANGED <<items, policy>>
  BY DEF JobStep, Attach, AttachFails, GotInfo, Settle, Check, VerifyPasses, VerifyFails,
         EndJob, list, rules
<1>2. CASE dn' = dn
  BY <1>1, <1>2, FilledUnchanged
<1>3. CASE Attach(d)
  BY <1>0, <1>1, <1>2, <1>3, FillsWhen, FilledOne DEF Download, Attach
<1>4. CASE AttachFails(d, ok)
  <2> DEFINE r == [dn[d] EXCEPT !.seeding = FALSE]
  <2>1. r.status = dn[d].status /\ r.ignore = dn[d].ignore /\ r.engine = dn[d].engine
    BY <1>0 DEF Download
  <2>2. dn' = dn \/ dn' = [dn EXCEPT ![d] = r] \/ MarkFailed(d, ok)
    BY <1>4 DEF AttachFails, RestoreFailed
  <2> HIDE DEF r
  <2>3. Fills(dn[d], r)
    BY <2>1, FillsWhen
  <2> QED BY <1>1, <2>2, <2>3, FilledOne, FilledMarkFailed
<1>5. CASE Settle(d, ok)
  <2>1. CASE jobs[d].req.complete /\ FinishSeed(d, ok)
    BY <1>1, <1>5, <2>1, FilledFinishSeed DEF Settle
  <2>2. CASE Finish(d, [dn EXCEPT ![d] = Attached(@, gen)], ok)
    <3> DEFINE D == [dn EXCEPT ![d] = Attached(@, gen)]
    <3>1. D \in [Ids -> Download(Gens)]
      BY RecordTypes
    <3> HIDE DEF D
    <3> QED BY <1>1, <2>2, <3>1, FilledFinish DEF D
  <2>3. CASE dn' = [dn EXCEPT ![d] = [Attached(@, gen) EXCEPT !.status = "verifying"]]
    <3> DEFINE r == [Attached(dn[d], gen) EXCEPT !.status = "verifying"]
    <3>1. r.status = "verifying"
      BY <1>0 DEF Attached, Download
    <3>2. dn' = [dn EXCEPT ![d] = r]
      BY <2>3
    <3> HIDE DEF r
    <3>3. Fills(dn[d], r)
      BY <3>1, FillsWhen
    <3> QED BY <1>1, <3>2, <3>3, FilledOne
  <2> QED BY <1>2, <1>5, <2>1, <2>2, <2>3 DEF Settle
<1>6. CASE Check(d, ok)
  BY <1>1, <1>2, <1>6, FilledFinish DEF Check
<1>7. CASE VerifyPasses(d, ok)
  <2> DEFINE r == Completed(dn[d])
             E == [dn EXCEPT ![d] = r]
  <2>1. r \in Download(Gens)
    BY CompletedType
  <2>2. dn' = dn \/ dn' = Schedule(policy, items, E)
    BY <1>7 DEF VerifyPasses
  <2> HIDE DEF r
  <2>3. E \in [Ids -> Download(Gens)]
    BY <2>1
  <2> HIDE DEF E
  <2> QED BY <1>1, <1>2, <2>2, <2>3, CommitFills
<1>8. CASE VerifyFails(d, ok)
  BY <1>1, <1>2, <1>8, FilledMarkFailed DEF VerifyFails
<1>9. CASE GotInfo(d) \/ EndJob(d)
  BY <1>2, <1>9 DEF GotInfo, EndJob, list
<1> QED BY <1>3, <1>4, <1>5, <1>6, <1>7, <1>8, <1>9 DEF JobStep

\* sample: a window that opens makes downloads startable, and is followed by schedule().
LEMMA FilledTick ==
  ASSUME TypeInv, TypeInv', Once', NoIdleSlot, NEW b \in BOOLEAN, NEW ok \in BOOLEAN,
         Tick(b, ok)
  PROVE  NoIdleSlot'
<1> USE TypeFacts, GenFacts
<1> DEFINE turned == b # policy.blocked
           p  == [policy EXCEPT !.blocked = b]
           E  == SyncPlay(p, items, Busy(jobs), dn)
           D1 == IF turned THEN Schedule(p, items, E) ELSE dn
           done == Arrived(p, D1)
           D2 == [d \in Ids |-> IF d \in done
                                THEN [D1[d] EXCEPT !.status = "verifying"] ELSE D1[d]]
<1>1. policy' = p /\ items' = items /\ dn' = D2
  BY DEF Tick
<1>2. p \in Policy /\ p.max = policy.max /\ p.blocked = b
  BY DEF Policy
<1>3. E \in [Ids -> Download(Gens)]
  <2> HIDE DEF p
  <2> QED BY <1>2, ListTypes
<1>4. D1 \in [Ids -> Download(Gens)]
  <2> HIDE DEF p, E
  <2> QED BY <1>2, <1>3, ListTypes
<1>5. \A d \in Ids : dn'[d] = D1[d] \/ dn'[d].status = "verifying"
  <2> HIDE DEF D1, done
  <2>1. \A d \in Ids : [D1[d] EXCEPT !.status = "verifying"].status = "verifying"
    BY <1>4 DEF Download
  <2> QED BY <1>1, <2>1
<1>6. CASE turned
  <2>1. \A d \in Ids : dn'[d] = Schedule(policy', items', E)[d] \/ dn'[d].status = "verifying"
    BY <1>1, <1>5, <1>6
  <2> HIDE DEF E
  <2> QED BY <1>3, <2>1, ScheduledFills
<1>7. CASE ~turned
  BY <1>1, <1>2, <1>5, <1>7, FillsWhen, FilledStays DEF Fills
<1> QED BY <1>6, <1>7

\* applySettings: so does a limit that is raised.
LEMMA FilledApplySettings ==
  ASSUME TypeInv, TypeInv', Once', NEW c \in Configs, NEW b \in BOOLEAN, NEW ok \in BOOLEAN,
         ApplySettings(c, b, ok)
  PROVE  NoIdleSlot'
<1> USE TypeFacts, GenFacts
<1> DEFINE p  == [policy EXCEPT !.rate = c, !.blocked = b, !.max = c.max]
           turned == PlayHeld(p) # PlayHeld(policy) \/ b # policy.blocked
           D1 == IF turned THEN SyncPlay(p, items, Busy(jobs), dn) ELSE dn
           E  == [d \in Ids |-> IF Found(d) THEN Applied(c, p, jobs[d] # NoJob, D1[d])
                                ELSE D1[d]]
<1>1. dn' = Schedule(policy', items', E)
  BY DEF ApplySettings
<1>2. c \in Config /\ p \in Policy
  BY ManagerConstants DEF Policy, Config
<1>3. D1 \in [Ids -> Download(Gens)]
  <2> HIDE DEF p
  <2> QED BY <1>2, ListTypes
<1>4. E \in [Ids -> Download(Gens)]
  <2> HIDE DEF p, D1
  <2>1. \A d \in Ids, x \in BOOLEAN : Applied(c, p, x, D1[d]) \in Download(Gens)
    BY <1>2, <1>3, AppliedType
  <2> QED BY <1>3, <2>1
<1> HIDE DEF E
<1> QED BY <1>1, <1>4, CommitFills

\* What goes on in the background.
LEMMA FilledBackground ==
  ASSUME TypeInv, TypeInv', Once', SettleInv, NoIdleSlot, NEW ok \in BOOLEAN, Background(ok)
  PROVE  NoIdleSlot'
<1> USE TypeFacts, GenFacts
<1>0. \A d \in Ids : dn[d] \in Download(Gens)
  OBVIOUS
<1>1. ASSUME NEW d \in Ids, Transfer(d) PROVE NoIdleSlot'
  <2> DEFINE r == [dn[d] EXCEPT !.have = TRUE]
  <2>1. r.status = dn[d].status /\ r.ignore = dn[d].ignore /\ r.engine = dn[d].engine
    BY <1>0 DEF Download
  <2>2. UNCHANGED <<items, policy>> /\ dn' = [dn EXCEPT ![d] = r]
    BY <1>1 DEF Transfer, rules
  <2> HIDE DEF r
  <2>3. Fills(dn[d], r)
    BY <2>1, FillsWhen
  <2> QED BY <2>2, <2>3, FilledOne
<1>2. ASSUME NEW r \in spawned, FailSpawned(r, ok) PROVE NoIdleSlot'
  BY <1>2, FilledMarkFailed DEF TypeInv, TypeOK, Request, FailSpawned, rules
<1>3. ASSUME NEW r \in spawned, Begin(r) PROVE NoIdleSlot'
  BY <1>3, FilledUnchanged DEF Begin, list, rules
<1>4. ASSUME NEW g \in Gens, PassStep(g, ok) PROVE NoIdleSlot'
  <2>0. UNCHANGED <<items, policy>>
    BY <1>4 DEF PassStep, PassSkip, PassBegin, PassEnd, PassAborts, list, rules
  <2>1. ASSUME NEW d \in Ids, PassSkip(g, d) PROVE NoIdleSlot'
    <3> DEFINE r == [dn[d] EXCEPT !.seeding = FALSE]
    <3>1. r.status = dn[d].status /\ r.ignore = dn[d].ignore /\ r.engine = dn[d].engine
      BY <1>0 DEF Download
    <3>2. dn' = dn \/ dn' = [dn EXCEPT ![d] = r]
      BY <2>1 DEF PassSkip
    <3> HIDE DEF r
    <3>3. Fills(dn[d], r)
      BY <3>1, FillsWhen
    <3> QED BY <2>0, <3>2, <3>3, FilledOne
  <2>2. CASE PassEnd(g, ok)
    BY <2>2, CommitFills DEF PassEnd, rules
  <2> QED BY <1>4, <2>0, <2>1, <2>2, FilledUnchanged DEF PassStep, PassBegin, PassAborts, list
<1>5. CASE TeardownDetach \/ TeardownPark(ok) \/ TeardownDone
  BY <1>5 DEF TeardownDetach, TeardownPark, TeardownDone, SettleInv
<1>6. CASE RestoreStart \/ BringUp
  BY <1>6, FilledUnchanged DEF RestoreStart, BringUp, list, rules
<1>7. CASE Quit(ok)
  BY <1>7, FilledRestarted DEF Quit
<1> QED BY <1>1, <1>2, <1>3, <1>4, <1>5, <1>6, <1>7, FilledTick, FilledApplySettings,
           FilledJobs DEF Background

\* A slot is never left free beside a download that could take it, whatever is paused,
\* forced, removed, restored, held back or let go, and however the limit is set: every
\* handler that frees a slot or makes a download startable schedules, and the one that
\* gives back a torrent and does not (settleRestored, for a finished download) finds none
\* in the queue.  The client stays up (parked downloads are started when it is back, one
\* after the other) and no download is taken out by StopAndWait, which does not schedule.
THEOREM NoSlotStaysIdle ==
  ASSUME "network" \notin Events, "stopAndWait" \notin Events
  PROVE  Spec => []NoIdleSlot
<1>1. Init => NoIdleSlot
  <2> SUFFICES ASSUME Init PROVE NoIdleSlot
    OBVIOUS
  <2>1. TypeInv
    BY InitTypes
  <2>2. \A d \in Ids : dn[d].engine = 0
    BY DEF Init, Booted, Loaded
  <2>3. \A d \in Range(items) : d \in Ids
    BY <2>1, TypeFacts
  <2> QED BY <2>2, <2>3 DEF NoIdleSlot, MayStart
<1>2. TypeInv /\ TypeInv' /\ Once /\ Once' /\ SettleInv /\ NoIdleSlot /\ [Next]_vars
      => NoIdleSlot'
  <2> SUFFICES ASSUME TypeInv, TypeInv', Once, Once', SettleInv, NoIdleSlot, [Next]_vars
               PROVE  NoIdleSlot'
    OBVIOUS
  <2>1. CASE UNCHANGED vars
    BY <2>1, FilledUnchanged DEF vars, list, rules
  <2> QED BY <2>1, FilledEnvironment, FilledRequests, FilledBackground DEF Next
<1> QED BY <1>1, <1>2, SettleInvariant, PTL DEF Spec
-----------------------------------------------------------------------------
(* HeldUploadsOnlyComplete.  A download that was let through with           *)
(* DownloadNow and is finished while the rules hold the others back keeps   *)
(* its upload gate open and loses its exemption (completeLocked).  That it  *)
(* then has all its data rests on what a completion check is made for, and  *)
(* on nobody taking data away from a download that has a check to come.     *)

\* An open upload gate belongs to a listed download with a torrent, and one that is held
\* back has its data.
UploadsOK(p, q, D) ==
  \A d \in Ids : D[d].ul => /\ D[d].engine # 0 /\ d \in Range(q)
                            /\ Held(p, D[d]) => D[d].have

\* A completion check of download d is under way or about to begin.
Checking(d) == At(d, "hash") \/ \E r \in spawned : r.id = d /\ r.kind = "verify"

\* It is made for a download that has its data; one that is gone was removed since
\* (Gone), and is not what the user may add (Fresh).
CheckInv ==
  \A d \in Ids : Checking(d) => IF Found(d) THEN dn[d].have ELSE dn[d].status = "failed"

UploadInv ==
  /\ UploadsOK(policy, items, dn)
  /\ CheckInv
  /\ HasClient => gen # 0

\* What a step may do to the data: nobody takes away those of a listed download, and one
\* that was removed does not come back.
DataKept ==
  \A d \in Ids : /\ Found(d) /\ Found(d)' /\ dn[d].have => dn'[d].have
                 /\ Found(d) /\ ~Found(d)' => dn'[d].status = "failed"
                 /\ ~Found(d) /\ dn[d].status = "failed"
                      => ~Found(d)' /\ dn'[d].status = "failed"

\* Only a download that has its data is given a check.
ChecksArrived == \A d \in Ids : Checking(d)' => Checking(d) \/ (Found(d) /\ dn[d].have)

LEMMA CheckStep ==
  ASSUME CheckInv, DataKept, ChecksArrived
  PROVE  CheckInv'
BY DEF CheckInv, DataKept, ChecksArrived

\* What a step has to show about the gates and the data.
UploadsStep == UploadsOK(policy', items', dn') /\ DataKept

\* What may be made of a listed download: its data stay, and its gate is opened only while
\* nothing holds it back.
Tame(p, r, s) ==
  /\ r.have => s.have
  /\ s.ul => /\ s.engine # 0
             /\ ~Held(p, s) \/ s.have \/ (r.ul /\ s.ignore = r.ignore)

\* The list stays, and so does whatever is not in it.
LEMMA UploadsTame ==
  ASSUME NEW p, NEW q, NEW D, NEW E, UploadsOK(p, q, D),
         \A d \in Ids : IF d \in Range(q) THEN Tame(p, D[d], E[d]) ELSE E[d] = D[d]
  PROVE  UploadsOK(p, q, E)
<1> SUFFICES ASSUME NEW d \in Ids, E[d].ul
             PROVE  E[d].engine # 0 /\ d \in Range(q) /\ (Held(p, E[d]) => E[d].have)
  BY DEF UploadsOK
<1>1. d \in Range(q)
  BY DEF UploadsOK
<1>2. Tame(p, D[d], E[d])
  BY <1>1
<1>3. CASE D[d].ul /\ E[d].ignore = D[d].ignore
  BY <1>1, <1>2, <1>3, HeldDepends DEF UploadsOK, Tame
<1> QED BY <1>1, <1>2, <1>3 DEF Tame

\* schedule() opens the gate of one that is not held, and touches no data.
LEMMA ScheduleUploads ==
  ASSUME NEW gens, NEW p \in Policy, NEW q \in Seq(Ids),
         NEW D \in [Ids -> Download(gens)]
  PROVE  LET S == Schedule(p, q, D)
         IN  /\ UploadsOK(p, q, D) => UploadsOK(p, q, S)
             /\ \A d \in Ids : /\ S[d].have = D[d].have
                               /\ d \notin Range(q) => S[d] = D[d]
<1> DEFINE S == Schedule(p, q, D)
<1>1. ASSUME NEW d \in Ids
      PROVE  S[d] = D[d] \/ (d \in Range(q) /\ MayStart(p, D[d]) /\ S[d] = Started(p, D[d]))
  BY DEF Chosen, Schedule, Range
<1>2. ASSUME NEW d \in Ids
      PROVE  /\ Started(p, D[d]).engine = D[d].engine /\ Started(p, D[d]).have = D[d].have
             /\ Started(p, D[d]).ignore = D[d].ignore
             /\ Started(p, D[d]).ul => ~Held(p, D[d])
  BY DEF Started, Download
<1> HIDE DEF S
<1>3. ASSUME NEW d \in Ids
      PROVE  S[d].have = D[d].have /\ (d \notin Range(q) => S[d] = D[d])
  BY <1>1, <1>2
<1>4. ASSUME UploadsOK(p, q, D) PROVE UploadsOK(p, q, S)
  <2> SUFFICES ASSUME NEW d \in Ids, S[d].ul
               PROVE  S[d].engine # 0 /\ d \in Range(q) /\ (Held(p, S[d]) => S[d].have)
    BY DEF UploadsOK
  <2>1. CASE S[d] = D[d]
    BY <1>4, <2>1 DEF UploadsOK
  <2>2. CASE d \in Range(q) /\ MayStart(p, D[d]) /\ S[d] = Started(p, D[d])
    BY <1>2, <2>2, HeldDepends DEF MayStart
  <2> QED BY <1>1, <2>1, <2>2
<1> QED BY <1>3, <1>4 DEF S

\* syncPlayLocked closes the gates of whatever is held.
LEMMA SyncPlayUploads ==
  ASSUME NEW gens, NEW p \in Policy, NEW q, NEW busy,
         NEW D \in [Ids -> Download(gens)],
         \A d \in Ids : D[d].ul => D[d].engine # 0 /\ d \in Range(q)
  PROVE  LET S == SyncPlay(p, q, busy, D)
         IN  /\ UploadsOK(p, q, S)
             /\ \A d \in Ids : /\ S[d].have = D[d].have
                               /\ d \notin Range(q) => S[d] = D[d]
<1> DEFINE S == SyncPlay(p, q, busy, D)
<1>1. ASSUME NEW d \in Ids, d \notin Range(q) PROVE S[d] = D[d]
  BY <1>1 DEF SyncPlay
<1>2. ASSUME NEW d \in Ids, d \in Range(q)
      PROVE  S[d] = Synced(p, d \in busy, D[d]) /\ D[d] \in Download(gens)
  BY <1>2 DEF SyncPlay
<1>3. ASSUME NEW r \in Download(gens), NEW b \in BOOLEAN
      PROVE  LET s == Synced(p, b, r)
             IN  /\ s.have = r.have /\ s.engine = r.engine /\ s.ignore = r.ignore
                 /\ s.ul => (r.engine = 0 /\ r.ul) \/ (r.engine # 0 /\ ~Held(p, r))
                            \/ (b /\ r.ul /\ r.engine # 0 /\ ~Held(p, r))
  <2>1. CASE r.engine # 0 /\ Held(p, r)
    BY <2>1 DEF Synced, Gated, Download
  <2>2. CASE r.engine # 0 /\ ~Held(p, r) /\ ~b
    <3> DEFINE u == IF r.status = "downloading" THEN p.rate.upload
                    ELSE r.ul \/ (r.status = "completed" /\ r.seeding)
               g == r.dl \/ r.status = "downloading"
    <3>1. Synced(p, b, r) = [r EXCEPT !.dl = g, !.ul = u]
      BY <2>2 DEF Synced
    <3> HIDE DEF u, g
    <3> QED BY <2>2, <3>1 DEF Download
  <2>3. CASE r.engine # 0 /\ ~Held(p, r) /\ b
    BY <2>3 DEF Synced
  <2>4. CASE r.engine = 0
    BY <2>4 DEF Synced
  <2> QED BY <2>1, <2>2, <2>3, <2>4
<1> HIDE DEF S
<1>4. ASSUME NEW d \in Ids, d \in Range(q)
      PROVE  /\ S[d].have = D[d].have /\ S[d].engine = D[d].engine
             /\ S[d].ignore = D[d].ignore
             /\ S[d].ul => (D[d].engine = 0 /\ D[d].ul) \/ (D[d].engine # 0 /\ ~Held(p, D[d]))
  <2> DEFINE b == d \in busy
  <2>1. b \in BOOLEAN
    OBVIOUS
  <2>2. S[d] = Synced(p, b, D[d]) /\ D[d] \in Download(gens)
    BY <1>2, <1>4
  <2> HIDE DEF b
  <2> QED BY <1>3, <2>1, <2>2
<1>5. ASSUME NEW d \in Ids PROVE S[d].have = D[d].have
  BY <1>1, <1>4
<1>6. UploadsOK(p, q, S)
  <2> SUFFICES ASSUME NEW d \in Ids, S[d].ul
               PROVE  S[d].engine # 0 /\ d \in Range(q) /\ (Held(p, S[d]) => S[d].have)
    BY DEF UploadsOK
  <2>1. d \in Range(q)
    BY <1>1
  <2>2. /\ S[d].engine = D[d].engine /\ S[d].ignore = D[d].ignore
        /\ D[d].engine # 0 /\ ~Held(p, D[d])
    BY <1>4, <2>1
  <2>3. ~Held(p, S[d])
    BY <2>2, HeldDepends
  <2> QED BY <2>1, <2>2, <2>3
<1> QED BY <1>1, <1>5, <1>6 DEF S

\* A step over the list as it is: whatever is not in it stays.
LEMMA DataStays ==
  ASSUME NEW E, dn' = E, UNCHANGED items,
         \A d \in Ids : /\ dn[d].have => E[d].have
                        /\ d \notin Range(items) => E[d] = dn[d]
  PROVE  DataKept
BY DEF DataKept, Found

\* A step of one listed download, with schedule() after it or without.
LEMMA UploadOne ==
  ASSUME TypeInv, UploadsOK(policy, items, dn), NEW d \in Ids, Found(d),
         NEW new \in Download(Gens), Tame(policy, dn[d], new),
         UNCHANGED <<items, policy>>,
         LET E == [dn EXCEPT ![d] = new]
         IN  dn' = dn \/ dn' = E \/ dn' = Schedule(policy, items, E)
  PROVE  UploadsStep
<1> USE TypeFacts, GenFacts
<1> DEFINE E == [dn EXCEPT ![d] = new]
<1>1. E \in [Ids -> Download(Gens)]
  OBVIOUS
<1>2. \A e \in Ids : E[e] = IF e = d THEN new ELSE dn[e]
  OBVIOUS
<1>3. \A e \in Ids : dn[e].ul => dn[e].engine # 0
  BY DEF UploadsOK
<1>4. \A e \in Ids : Tame(policy, dn[e], dn[e])
  BY <1>3 DEF Tame
<1> HIDE DEF E
<1>5. UploadsOK(policy, items, E)
  BY <1>2, <1>4, UploadsTame DEF Found
<1>6. /\ UploadsOK(policy, items, Schedule(policy, items, E))
      /\ \A e \in Ids : /\ Schedule(policy, items, E)[e].have = E[e].have
                        /\ e \notin Range(items) => Schedule(policy, items, E)[e] = E[e]
  BY <1>1, <1>5, ScheduleUploads
<1>7. \A e \in Ids : /\ dn[e].have => E[e].have
                     /\ e \notin Range(items) => E[e] = dn[e]
  BY <1>2 DEF Tame, Found
<1>8. dn' = dn \/ dn' = E \/ dn' = Schedule(policy, items, E)
  BY DEF E
<1>9. DataKept
  BY <1>6, <1>7, <1>8, DataStays
<1> QED BY <1>5, <1>6, <1>8, <1>9 DEF UploadsStep

\* The steps that leave the downloads, the list and what holds them back alone.
LEMMA UploadsUnchanged ==
  ASSUME UploadsOK(policy, items, dn), UNCHANGED <<items, dn, policy>>
  PROVE  UploadsStep
BY DataStays DEF UploadsStep

\* What the handlers make of one download.
LEMMA TameRecords ==
  ASSUME NEW p, NEW r \in Download(Gens), r.ul => r.engine # 0
  PROVE  /\ \A s \in Statuses : Tame(p, r, [r EXCEPT !.status = s])
         /\ \A s \in Statuses : Tame(p, r, Gated([r EXCEPT !.status = s]))
         /\ \A b \in BOOLEAN : Tame(p, r, [r EXCEPT !.seeding = b])
         /\ \A b \in BOOLEAN : Tame(p, r, Detached([r EXCEPT !.seeding = b]))
         /\ Tame(p, r, [r EXCEPT !.have = TRUE])
         /\ \A g : Tame(p, r, Attached(r, g))
         /\ \A g : \A s \in Statuses : Tame(p, r, [Attached(r, g) EXCEPT !.status = s])
<1>1. \A s \in Statuses : Tame(p, r, [r EXCEPT !.status = s])
  BY DEF Tame, Download
<1>2. \A s \in Statuses : Tame(p, r, Gated([r EXCEPT !.status = s]))
  BY DEF Tame, Gated, Download
<1>3. \A b \in BOOLEAN : Tame(p, r, [r EXCEPT !.seeding = b])
  BY DEF Tame, Download
<1>4. \A b \in BOOLEAN : Tame(p, r, Detached([r EXCEPT !.seeding = b]))
  BY DEF Tame, Detached, Download
<1>5. Tame(p, r, [r EXCEPT !.have = TRUE])
  BY DEF Tame, Download
<1>6. \A g : Tame(p, r, Attached(r, g))
  BY DEF Tame, Attached, Download
<1>7. \A g : \A s \in Statuses : Tame(p, r, [Attached(r, g) EXCEPT !.status = s])
  BY DEF Tame, Attached, Download
<1> QED BY <1>1, <1>2, <1>3, <1>4, <1>5, <1>6, <1>7

\* A forced start.
LEMMA TameForced ==
  ASSUME NEW p \in Policy, NEW r \in Download(Gens), r.ul => r.engine # 0
  PROVE  Tame(p, r, Forced(p, r))
<1> DEFINE s == [r EXCEPT !.status = "queued"]
<1>1. /\ s \in Download(Gens) /\ s.engine = r.engine /\ s.ul = r.ul /\ s.have = r.have
      /\ s.ignore = r.ignore
  BY DEF Download, Statuses
<1> HIDE DEF s
<1>2. CASE r.engine = 0
  BY <1>1, <1>2 DEF Forced, s, Tame
<1>3. CASE r.engine # 0
  BY <1>1, <1>3, HeldDepends DEF Forced, s, Started, Download, Tame
<1> QED BY <1>2, <1>3

\* The requests of the user.
LEMMA UploadsRequests ==
  ASSUME TypeInv, Once, UploadInv, NEW ok \in BOOLEAN, Requests(ok)
  PROVE  UploadsStep
<1> USE TypeFacts, GenFacts
<1>0. /\ UploadsOK(policy, items, dn)
      /\ \A d \in Ids : dn[d].ul => dn[d].engine # 0 /\ d \in Range(items)
  BY DEF UploadInv, UploadsOK
<1>1. ASSUME NEW d \in Ids, Add(d, ok)
      PROVE  UploadsStep
  <2> DEFINE q == Append(items, d)
             D == [dn EXCEPT ![d] = Attached(@, gen)]
             S == Schedule(policy, q, D)
  <2>1. q \in Seq(Ids) /\ D \in [Ids -> Download(Gens)]
    BY RecordTypes, AppendProperties
  <2>2. d \in Range(q) /\ \A e \in Range(items) : e \in Range(q)
    BY AppendProperties DEF Range
  <2>3. ~D[d].ul /\ D[d].have = dn[d].have
    BY DEF Attached, Download
  <2>4. \A e \in Ids : e # d => D[e] = dn[e]
    OBVIOUS
  <2>5. ~Found(d) /\ dn[d] = Fresh /\ policy' = policy
    BY <1>1 DEF Add, rules
  <2>6. \A e \in Ids : e # d => (e \in Range(items) <=> e \in Range(q))
    BY <2>2, AppendProperties DEF Range
  <2> HIDE DEF D, q
  <2>7. UploadsOK(policy, q, D)
    BY <1>0, <2>2, <2>3, <2>4 DEF UploadsOK
  <2>8. UploadsOK(policy, q, S) /\ \A e \in Ids : S[e].have = D[e].have /\ (e \notin Range(q) => S[e] = D[e])
    BY <2>1, <2>7, ScheduleUploads
  <2>9. CASE ok
    <3>1. items' = q /\ dn' = S
      BY <1>1, <2>9 DEF Add, q, D
    <3>2. Fresh.status # "failed"
      BY DEF Fresh
    <3>3. DataKept
      BY <2>2, <2>4, <2>5, <2>6, <2>8, <3>1, <3>2 DEF DataKept, Found
    <3> QED BY <2>5, <2>8, <3>1, <3>3 DEF UploadsStep
  <2>10. CASE ~ok
    BY <1>0, <1>1, <2>5, <2>10, UploadsUnchanged DEF Add
  <2> QED BY <2>9, <2>10
<1>2. ASSUME NEW d \in Ids, AddTask(d, ok)
      PROVE  UploadsStep
  <2> DEFINE q == Append(items, d)
  <2>1. d \in Range(q) /\ \A e \in Ids : e # d => (e \in Range(items) <=> e \in Range(q))
    BY AppendProperties DEF Range
  <2>2. ~Found(d) /\ dn[d] = Fresh /\ dn' = dn /\ policy' = policy /\ Fresh.status # "failed"
    BY <1>2 DEF AddTask, rules, Fresh
  <2>3. items' = q \/ items' = items
    BY <1>2 DEF AddTask
  <2> HIDE DEF q
  <2>4. CASE items' = items
    BY <1>0, <2>2, <2>4, UploadsUnchanged
  <2>5. CASE items' = q
    BY <1>0, <2>1, <2>2, <2>5 DEF UploadsOK, DataKept, Found, UploadsStep
  <2> QED BY <2>3, <2>4, <2>5
<1>3. ASSUME NEW d \in Ids, Pause(d, ok)
      PROVE  UploadsStep
  <2> DEFINE new == Gated([dn[d] EXCEPT !.status = "paused"])
  <2>1. [dn[d] EXCEPT !.status = "paused"] \in Download(Gens) /\ "paused" \in Statuses
    BY DEF Download, Statuses
  <2>2. new \in Download(Gens) /\ Tame(policy, dn[d], new)
    BY <1>0, <2>1, RecordTypes, TameRecords
  <2>3. /\ Found(d) /\ UNCHANGED <<items, policy>>
        /\ dn' = dn \/ dn' = Schedule(policy, items, [dn EXCEPT ![d] = new])
    BY <1>3 DEF Pause, Commit, rules
  <2> HIDE DEF new
  <2> QED BY <1>0, <2>2, <2>3, UploadOne
<1>4. ASSUME NEW d \in Ids, Found(d), NEW force \in BOOLEAN,
             QueueWhileDown(d, force, ok) \/ Reattach(d, force, ok)
      PROVE  UploadsStep
  BY <1>0, <1>4, StatusType, TameRecords, UploadOne DEF QueueWhileDown, Reattach, rules,
     Statuses
<1>5. ASSUME NEW d \in Ids, Resume(d, ok)
      PROVE  UploadsStep
  <2>1. Found(d)
    BY <1>5 DEF Resume
  <2>2. CASE QueueWhileDown(d, FALSE, ok) \/ Reattach(d, FALSE, ok)
    BY <1>4, <2>1, <2>2
  <2>3. CASE /\ Commit(ok, [dn EXCEPT ![d].status = "queued"], dn)
             /\ UNCHANGED <<items, verified, rules, work, client, life>>
    <3> DEFINE new == [dn[d] EXCEPT !.status = "queued"]
    <3>1. new \in Download(Gens) /\ Tame(policy, dn[d], new)
      BY <1>0, StatusType, TameRecords DEF Statuses
    <3>2. /\ UNCHANGED <<items, policy>>
          /\ dn' = dn \/ dn' = Schedule(policy, items, [dn EXCEPT ![d] = new])
      BY <2>3 DEF Commit, rules
    <3> HIDE DEF new
    <3> QED BY <1>0, <2>1, <3>1, <3>2, UploadOne
  <2> QED BY <1>5, <2>2, <2>3 DEF Resume
<1>6. ASSUME NEW d \in Ids, ForceStart(d, ok)
      PROVE  UploadsStep
  <2>1. Found(d)
    BY <1>6 DEF ForceStart
  <2>2. CASE QueueWhileDown(d, TRUE, ok) \/ Reattach(d, TRUE, ok)
    BY <1>4, <2>1, <2>2
  <2>3. CASE /\ dn[d].engine # 0
             /\ LET r == Forced(policy, dn[d])
                    D == [dn EXCEPT ![d] = r]
                IN  /\ Persist(ok, items, D)
                    /\ dn' = IF ok THEN D
                             ELSE [dn EXCEPT ![d].dl = r.dl, ![d].ul = r.ul]
             /\ UNCHANGED <<items, verified, rules, work, client, life>>
    <3> DEFINE r == Forced(policy, dn[d])
               x == [dn[d] EXCEPT !.dl = r.dl, !.ul = r.ul]
    <3>1. r \in Download(Gens) /\ Tame(policy, dn[d], r)
      BY <1>0, RecordTypes, TameForced
    <3>2. /\ r.engine = dn[d].engine /\ r.ignore = dn[d].ignore /\ r.have = dn[d].have
      <4> DEFINE s == [dn[d] EXCEPT !.status = "queued"]
      <4>1. /\ s \in Download(Gens) /\ s.engine = dn[d].engine /\ s.have = dn[d].have
            /\ s.ignore = dn[d].ignore
        BY DEF Download, Statuses
      <4>2. r = Started(policy, s)
        BY <2>3 DEF Forced
      <4> HIDE DEF s, r
      <4> QED BY <4>1, <4>2 DEF Started, Download
    <3>3. dn' = [dn EXCEPT ![d] = r] \/ dn' = [dn EXCEPT ![d] = x]
      BY <2>3
    <3>4. UNCHANGED <<items, policy>>
      BY <2>3 DEF rules
    <3> HIDE DEF r
    <3>5. /\ x \in Download(Gens) /\ x.engine = dn[d].engine /\ x.ignore = dn[d].ignore
          /\ x.have = dn[d].have /\ x.ul = r.ul
      BY <3>1 DEF Download
    <3> HIDE DEF x
    <3>6. Held(policy, x) <=> Held(policy, r)
      BY <3>2, <3>5, HeldDepends
    <3>7. Tame(policy, dn[d], x)
      BY <3>1, <3>2, <3>5, <3>6 DEF Tame
    <3> QED BY <1>0, <2>1, <3>1, <3>3, <3>4, <3>5, <3>7, UploadOne
  <2> QED BY <1>6, <2>2, <2>3 DEF ForceStart
<1>7. ASSUME NEW d \in Ids, DownloadNow(d, ok)
      PROVE  UploadsStep
  <2> DEFINE D == [dn EXCEPT ![d].ignore = TRUE]
             S == SyncPlay(policy, items, Busy(jobs), D)
             T == Schedule(policy, items, S)
  <2>1. D \in [Ids -> Download(Gens)]
    BY DEF Download
  <2>2. \A e \in Ids : D[e].ul = dn[e].ul /\ D[e].engine = dn[e].engine /\ D[e].have = dn[e].have
    BY DEF Download
  <2>3. \A e \in Ids : e # d => D[e] = dn[e]
    OBVIOUS
  <2>4. Found(d) /\ UNCHANGED <<items, policy>> /\ (dn' = T \/ dn' = dn)
    BY <1>7 DEF DownloadNow, rules
  <2> HIDE DEF D
  <2>5. /\ UploadsOK(policy, items, S)
        /\ \A e \in Ids : S[e].have = D[e].have /\ (e \notin Range(items) => S[e] = D[e])
    BY <1>0, <2>1, <2>2, SyncPlayUploads
  <2>6. S \in [Ids -> Download(Gens)]
    BY <2>1, ListTypes
  <2> HIDE DEF S
  <2>7. /\ UploadsOK(policy, items, T)
        /\ \A e \in Ids : T[e].have = S[e].have /\ (e \notin Range(items) => T[e] = S[e])
    BY <2>5, <2>6, ScheduleUploads
  <2>8. \A e \in Ids : /\ dn[e].have => T[e].have
                       /\ e \notin Range(items) => T[e] = dn[e]
    BY <2>2, <2>3, <2>4, <2>5, <2>7 DEF Found
  <2> HIDE DEF T
  <2>9. CASE dn' = T
    BY <2>4, <2>7, <2>8, <2>9, DataStays DEF UploadsStep
  <2>10. CASE dn' = dn
    BY <1>0, <2>4, <2>10, UploadsUnchanged
  <2> QED BY <2>4, <2>9, <2>10
<1>8. ASSUME NEW d \in Ids, StopSeeding(d, ok)
      PROVE  UploadsStep
  <2> DEFINE s == [dn[d] EXCEPT !.seeding = FALSE]
             new == Detached(s)
  <2>1. s \in Download(Gens)
    BY FlagType
  <2>2. new \in Download(Gens) /\ Tame(policy, dn[d], new)
    BY <1>0, <2>1, RecordTypes, TameRecords
  <2>3. /\ Found(d) /\ UNCHANGED <<items, policy>>
        /\ dn' = dn \/ dn' = [dn EXCEPT ![d] = new]
    BY <1>8 DEF StopSeeding, rules
  <2> HIDE DEF new
  <2> QED BY <1>0, <2>2, <2>3, UploadOne
<1>9. ASSUME NEW i \in DOMAIN items, NEW j \in DOMAIN items, Move(i, j, ok)
      PROVE  UploadsStep
  <2>1. Range(items') = Range(items)
    BY <1>9, SwapOnce DEF Move, Once
  <2>2. dn' = dn /\ policy' = policy
    BY <1>9 DEF Move, rules
  <2> QED BY <1>0, <2>1, <2>2 DEF UploadsStep, UploadsOK, DataKept, Found
<1>10. ASSUME NEW i \in DOMAIN items, Drop(i, ok),
              ok \/ dn' = dn,
              ok => \/ dn' = [dn EXCEPT ![items[i]] = Gone]
                    \/ dn' = Schedule(policy, items', [dn EXCEPT ![items[i]] = Gone])
       PROVE  UploadsStep
  <2> DEFINE d == items[i]
             D == [dn EXCEPT ![d] = Gone]
  <2>1. policy' = policy /\ d \in Ids
    BY <1>10 DEF Drop, rules
  <2>2. CASE ~ok
    BY <1>0, <1>10, <2>1, <2>2, UploadsUnchanged DEF Drop
  <2>3. CASE ok
    <3>1. items' = RemoveAt(items, i)
      BY <1>10, <2>3 DEF Drop
    <3>2. items' \in Seq(Ids) /\ Range(items') = Range(items) \ {d}
      BY <1>10, <3>1, DropType, RemoveOnce DEF Once
    <3>3. D \in [Ids -> Download(Gens)] /\ D[d] = Gone /\ \A e \in Ids : e # d => D[e] = dn[e]
      BY <2>1, FreshType
    <3>4. ~Gone.ul /\ Gone.status = "failed"
      BY DEF Gone, Fresh
    <3> HIDE DEF D, d
    <3>5. UploadsOK(policy, items', D)
      BY <1>0, <3>2, <3>3, <3>4 DEF UploadsOK
    <3>6. /\ UploadsOK(policy, items', Schedule(policy, items', D))
          /\ \A e \in Ids : /\ Schedule(policy, items', D)[e].have = D[e].have
                            /\ e \notin Range(items') => Schedule(policy, items', D)[e] = D[e]
      BY <3>2, <3>3, <3>5, ScheduleUploads
    <3>7. dn' = D \/ dn' = Schedule(policy, items', D)
      BY <1>10, <2>3 DEF D, d
    <3>8. /\ UploadsOK(policy, items', dn')
          /\ \A e \in Ids : dn'[e].have = D[e].have /\ (e \notin Range(items') => dn'[e] = D[e])
      BY <3>5, <3>6, <3>7
    <3>9. d \in Range(items)
      BY DEF d, Range
    <3>10. DataKept
      BY <3>2, <3>3, <3>4, <3>8, <3>9 DEF DataKept, Found
    <3> QED BY <2>1, <3>8, <3>10 DEF UploadsStep
  <2> QED BY <2>2, <2>3
<1>11. ASSUME NEW i \in DOMAIN items, Discard(i, ok) \/ StopAndWait(i, ok)
       PROVE  UploadsStep
  BY <1>10, <1>11 DEF Discard, StopAndWait
<1> QED BY <1>1, <1>2, <1>3, <1>5, <1>6, <1>7, <1>8, <1>9, <1>11 DEF Requests

\* A start finds no torrent and nothing under way.
LEMMA UploadsRestarted ==
  ASSUME NEW st, Restarted(st)
  PROVE  UploadsOK(policy', items', dn') /\ \A d \in Ids : ~Checking(d)'
<1>1. (\A d \in Ids : ~dn'[d].ul /\ jobs'[d] = NoJob) /\ spawned' = {}
  BY DEF Restarted, Loaded
<1> QED BY <1>1 DEF UploadsOK, Checking, At

\* What happens around the manager, but for a crash.
LEMMA UploadsEnvironment ==
  ASSUME TypeInv, UploadInv, Environment, ~Crash
  PROVE  UploadsStep
<1> USE TypeFacts, GenFacts
<1>0. /\ UploadsOK(policy, items, dn)
      /\ \A d \in Ids : dn[d].ul => dn[d].engine # 0 /\ d \in Range(items)
  BY DEF UploadInv, UploadsOK
<1>1. ASSUME NEW d \in Ids, StopSeedingJob(d) \/ WriteError(d)
      PROVE  UploadsStep
  BY <1>0, <1>1, UploadsUnchanged DEF StopSeedingJob, WriteError, list, rules
<1>2. ASSUME NEW b \in BOOLEAN, SetGamesRunning(b)
      PROVE  UploadsStep
  <2> DEFINE S == SyncPlay(policy', items, Busy(jobs), dn)
  <2>1. policy' \in Policy
    BY <1>2 DEF SetGamesRunning, Policy
  <2>2. /\ UploadsOK(policy', items, S)
        /\ \A d \in Ids : S[d].have = dn[d].have /\ (d \notin Range(items) => S[d] = dn[d])
    BY <1>0, <2>1, SyncPlayUploads
  <2>3. dn' = S /\ items' = items
    BY <1>2 DEF SetGamesRunning
  <2> HIDE DEF S
  <2> QED BY <2>2, <2>3, DataStays DEF UploadsStep
<1>3. ASSUME NEW c \in Configs, SaveSettings(c)
      PROVE  UploadsStep
  <2>1. /\ policy'.blocked = policy.blocked /\ policy'.gaming = policy.gaming
        /\ policy'.rate = policy.rate
    BY <1>3 DEF SaveSettings, Policy
  <2>2. \A r : Held(policy', r) <=> Held(policy, r)
    BY <2>1 DEF Held, PlayHeld, SchedHeld
  <2>3. dn' = dn /\ items' = items
    BY <1>3 DEF SaveSettings, list
  <2>4. UploadsOK(policy', items, dn)
    BY <1>0, <2>2 DEF UploadsOK
  <2> QED BY <2>3, <2>4, DataStays DEF UploadsStep
<1>4. CASE SwitchNetwork \/ Close
  BY <1>0, <1>4, UploadsUnchanged DEF SwitchNetwork, Close, list, rules
<1> QED BY <1>1, <1>2, <1>3, <1>4 DEF Environment

\* A download that failed.
LEMMA UploadsMarkFailed ==
  ASSUME TypeInv, UploadInv, NEW d \in Ids, NEW ok \in BOOLEAN, MarkFailed(d, ok),
         UNCHANGED <<items, policy>>
  PROVE  UploadsStep
<1> USE TypeFacts, GenFacts
<1>0. UploadsOK(policy, items, dn) /\ (dn[d].ul => dn[d].engine # 0)
  BY DEF UploadInv, UploadsOK
<1> DEFINE new == Gated([dn[d] EXCEPT !.status = "failed"])
<1>1. [dn[d] EXCEPT !.status = "failed"] \in Download(Gens) /\ "failed" \in Statuses
  BY DEF Download, Statuses
<1>2. new \in Download(Gens) /\ Tame(policy, dn[d], new)
  BY <1>0, <1>1, RecordTypes, TameRecords
<1>3. \/ dn' = dn
      \/ Found(d) /\ dn' = Schedule(policy, items, [dn EXCEPT ![d] = new])
  BY DEF MarkFailed, Failed
<1> HIDE DEF new
<1> QED BY <1>0, <1>2, <1>3, UploadOne, UploadsUnchanged

\* What the ends of settleRestored and completeLocked make of a download.
LEMMA TameEnds ==
  ASSUME NEW p \in Policy, NEW r \in Download(Gens), r.ul => r.engine # 0,
         NEW x \in Download(Gens), x.have = r.have, x.ul => x.engine # 0,
         x.ul => r.ul /\ x.ignore = r.ignore
  PROVE  /\ Tame(p, r, Gated([x EXCEPT !.status = "paused"]))
         /\ Tame(p, r, Forced(p, x))
         /\ Tame(p, r, [x EXCEPT !.status = "queued"])
<1>1. "paused" \in Statuses /\ "queued" \in Statuses
  BY DEF Statuses
<1>2. /\ Tame(p, x, Gated([x EXCEPT !.status = "paused"]))
      /\ Tame(p, x, Forced(p, x))
      /\ Tame(p, x, [x EXCEPT !.status = "queued"])
  BY <1>1, TameRecords, TameForced
<1>3. ASSUME NEW s, Tame(p, x, s) PROVE Tame(p, r, s)
  BY <1>3 DEF Tame
<1> QED BY <1>2, <1>3

\* The end of settleRestored, on a download that is in the list; D has its torrent in x.
LEMMA UploadsFinish ==
  ASSUME TypeInv, UploadInv, NEW d \in Ids, Found(d), jobs[d] # NoJob, NEW ok \in BOOLEAN,
         NEW x \in Download(Gens), x.have = dn[d].have, x.ul => x.engine # 0,
         x.ul => dn[d].ul /\ x.ignore = dn[d].ignore,
         Finish(d, [dn EXCEPT ![d] = x], ok), UNCHANGED <<items, policy>>
  PROVE  UploadsStep
<1> USE TypeFacts, GenFacts
<1>0. UploadsOK(policy, items, dn) /\ (dn[d].ul => dn[d].engine # 0)
  BY DEF UploadInv, UploadsOK
<1> DEFINE r == jobs[d].req
           D == [dn EXCEPT ![d] = x]
           new == CASE r.paused  -> Gated([x EXCEPT !.status = "paused"])
                    [] ~r.paused /\ r.force  -> Forced(policy, x)
                    [] ~r.paused /\ ~r.force -> [x EXCEPT !.status = "queued"]
<1>1. /\ [x EXCEPT !.status = "paused"] \in Download(Gens)
      /\ [x EXCEPT !.status = "queued"] \in Download(Gens)
  BY StatusType DEF Statuses
<1>2. r.paused \in BOOLEAN /\ r.force \in BOOLEAN
  BY JobFacts DEF Request
<1>3. new \in Download(Gens)
  BY <1>1, <1>2, RecordTypes
<1>4. Tame(policy, dn[d], new)
  BY <1>0, <1>2, TameEnds
<1>5. dn' = Schedule(policy, items, [dn EXCEPT ![d] = new])
  BY DEF Finish
<1> HIDE DEF new
<1> QED BY <1>0, <1>3, <1>4, <1>5, UploadOne

\* A finished download takes its torrent back.
LEMMA UploadsFinishSeed ==
  ASSUME TypeInv, UploadInv, ClientInv, NEW d \in Ids, jobs[d] # NoJob, ~Superseded(d),
         NEW ok \in BOOLEAN, FinishSeed(d, ok), UNCHANGED <<items, policy>>
  PROVE  UploadsStep
<1> USE TypeFacts, GenFacts
<1> DEFINE r == [Attached(dn[d], gen) EXCEPT !.seeding = policy.saved.seed]
           new == IF policy.saved.seed THEN AllowUpload(policy, r) ELSE Detached(r)
<1>0. UploadsOK(policy, items, dn)
  BY DEF UploadInv
<1>1. gen # 0 /\ Found(d)
  BY DEF Superseded, ClientInv, Current, UploadInv
<1>2. Attached(dn[d], gen) \in Download(Gens) /\ policy.saved.seed \in BOOLEAN
  BY RecordTypes DEF Policy, Config
<1>3. /\ r \in Download(Gens) /\ r.have = dn[d].have /\ r.engine = gen /\ ~r.ul
  BY <1>2 DEF Attached, Download
<1>4. dn' = [dn EXCEPT ![d] = new]
  BY DEF FinishSeed
<1> HIDE DEF r
<1>5. new \in Download(Gens)
  BY <1>3, RecordTypes
<1>6. Tame(policy, dn[d], new)
  <2>1. CASE policy.saved.seed
    <3> DEFINE u == ~Held(policy, r)
    <3>1. AllowUpload(policy, r) = [r EXCEPT !.ul = u]
      BY <1>3 DEF AllowUpload
    <3>2. u \in BOOLEAN
      BY DEF Held, PlayHeld, SchedHeld
    <3> HIDE DEF u
    <3>3. /\ new.have = r.have /\ new.engine = r.engine /\ new.ignore = r.ignore
          /\ new.ul = u
      BY <1>3, <2>1, <3>1, <3>2 DEF Download
    <3> HIDE DEF new
    <3>4. Held(policy, new) <=> Held(policy, r)
      BY <3>3, HeldDepends
    <3> QED BY <1>1, <1>3, <3>3, <3>4 DEF Tame, u
  <2>2. CASE ~policy.saved.seed
    <3>1. new.have = r.have /\ ~new.ul
      BY <1>3, <2>2 DEF Detached, Download
    <3> HIDE DEF new
    <3> QED BY <1>3, <3>1 DEF Tame
  <2> QED BY <2>1, <2>2
<1> HIDE DEF new
<1> QED BY <1>0, <1>1, <1>4, <1>5, <1>6, UploadOne

\* completeLocked keeps an open upload gate open, on a download that has its data.
LEMMA TameCompleted ==
  ASSUME policy \in Policy, NEW r \in Download(Gens), r.ul => r.engine # 0, r.have
  PROVE  Tame(policy, r, Completed(r))
<1> DEFINE done == [r EXCEPT !.status = "completed", !.ignore = FALSE,
                             !.seeding = policy.saved.seed]
           closed == [done EXCEPT !.dl = FALSE]
<1>1. done \in Download(Gens) /\ done.have /\ done.ul = r.ul /\ done.engine = r.engine
  BY DEF Policy, Config, Statuses, Download
<1>2. closed \in Download(Gens) /\ closed.have /\ closed.engine = r.engine
  BY <1>1 DEF Download
<1>3. Completed(r) = IF r.engine = 0 THEN done
                     ELSE IF policy.saved.seed THEN AllowUpload(policy, closed)
                     ELSE Detached(closed)
  BY DEF Completed
<1> HIDE DEF done, closed
<1>4. /\ AllowUpload(policy, closed).have
      /\ AllowUpload(policy, closed).engine = closed.engine
  BY <1>2 DEF AllowUpload, Download
<1>5. Detached(closed).have /\ ~Detached(closed).ul
  BY <1>2 DEF Detached, Download
<1> QED BY <1>1, <1>2, <1>3, <1>4, <1>5 DEF Tame

\* The jobs.
LEMMA UploadsJobs ==
  ASSUME TypeInv, UploadInv, ClientInv, NEW d \in Ids, NEW ok \in BOOLEAN, JobStep(d, ok)
  PROVE  UploadsStep
<1> USE TypeFacts, GenFacts
<1>0. UploadsOK(policy, items, dn) /\ (dn[d].ul => dn[d].engine # 0)
  BY DEF UploadInv, UploadsOK
<1>1. CASE Attach(d)
  <2> DEFINE new == [dn[d] EXCEPT !.status = "metadata"]
  <2>1. new \in Download(Gens) /\ Tame(policy, dn[d], new)
    BY <1>0, StatusType, TameRecords DEF Statuses
  <2>2. /\ UNCHANGED <<items, policy>>
        /\ dn' = dn \/ (Found(d) /\ dn' = [dn EXCEPT ![d].status = "metadata"])
    BY <1>1 DEF Attach, rules
  <2>3. [dn EXCEPT ![d].status = "metadata"] = [dn EXCEPT ![d] = new]
    OBVIOUS
  <2> HIDE DEF new
  <2> QED BY <1>0, <2>1, <2>2, <2>3, UploadOne, UploadsUnchanged
<1>2. CASE AttachFails(d, ok)
  <2> DEFINE new == [dn[d] EXCEPT !.seeding = FALSE]
  <2>1. new \in Download(Gens)
    BY FlagType
  <2>2. Tame(policy, dn[d], new)
    BY <1>0, TameRecords
  <2>3. /\ UNCHANGED <<items, policy>>
        /\ \/ dn' = dn \/ (Found(d) /\ dn' = [dn EXCEPT ![d].seeding = FALSE])
           \/ MarkFailed(d, ok)
    BY <1>2 DEF AttachFails, RestoreFailed, rules
  <2>4. [dn EXCEPT ![d].seeding = FALSE] = [dn EXCEPT ![d] = new]
    OBVIOUS
  <2> HIDE DEF new
  <2>5. CASE MarkFailed(d, ok)
    BY <2>3, <2>5, UploadsMarkFailed
  <2> QED BY <1>0, <2>1, <2>2, <2>3, <2>4, <2>5, UploadOne, UploadsUnchanged
<1>3. CASE GotInfo(d) \/ EndJob(d)
  BY <1>0, <1>3, UploadsUnchanged DEF GotInfo, EndJob, list, rules
<1>4. CASE Settle(d, ok)
  <2> DEFINE x == Attached(dn[d], gen)
             new == [x EXCEPT !.status = "verifying"]
  <2>1. UNCHANGED <<items, policy>> /\ jobs[d] # NoJob
    BY <1>4 DEF Settle, At, rules
  <2>2. x \in Download(Gens) /\ x.have = dn[d].have /\ ~x.ul
    <3>1. x \in Download(Gens)
      BY RecordTypes
    <3>2. x.have = dn[d].have /\ ~x.ul
      BY DEF Attached, Download
    <3> QED BY <3>1, <3>2
  <2>3. new \in Download(Gens) /\ Tame(policy, dn[d], new)
    <3>1. "verifying" \in Statuses
      BY DEF Statuses
    <3>2. Tame(policy, dn[d], new)
      BY <1>0, <3>1, TameRecords
    <3> HIDE DEF x
    <3>3. new \in Download(Gens)
      BY <2>2, <3>1, StatusType
    <3> QED BY <3>2, <3>3
  <2>4. \/ dn' = dn
        \/ ~Superseded(d) /\ FinishSeed(d, ok)
        \/ ~Superseded(d) /\ Finish(d, [dn EXCEPT ![d] = x], ok)
        \/ ~Superseded(d) /\ dn' = [dn EXCEPT ![d] = new]
    BY <1>4 DEF Settle
  <2> HIDE DEF x, new
  <2>5. ~Superseded(d) => Found(d)
    BY DEF Superseded
  <2> QED BY <1>0, <2>1, <2>2, <2>3, <2>4, <2>5, UploadOne, UploadsUnchanged, UploadsFinish,
             UploadsFinishSeed
<1>5. CASE Check(d, ok)
  BY <1>0, <1>5, UploadsUnchanged, UploadsFinish DEF Check, At, rules, Superseded
<1>6. CASE VerifyPasses(d, ok)
  <2> DEFINE new == Completed(dn[d])
  <2>1. /\ UNCHANGED <<items, policy>>
        /\ \/ dn' = dn
           \/ Found(d) /\ dn' = Schedule(policy, items, [dn EXCEPT ![d] = new])
    BY <1>6 DEF VerifyPasses, rules
  <2>2. Found(d) => dn[d].have
    BY <1>6 DEF VerifyPasses, Checking, UploadInv, CheckInv
  <2>3. Found(d) => new \in Download(Gens) /\ Tame(policy, dn[d], new)
    BY <1>0, <2>2, CompletedType, TameCompleted
  <2> HIDE DEF new
  <2> QED BY <1>0, <2>1, <2>3, UploadOne, UploadsUnchanged
<1>7. CASE VerifyFails(d, ok)
  BY <1>0, <1>7, UploadsMarkFailed, UploadsUnchanged DEF VerifyFails, rules
<1> QED BY <1>1, <1>2, <1>3, <1>4, <1>5, <1>6, <1>7 DEF JobStep

\* The passes.
LEMMA UploadsPasses ==
  ASSUME TypeInv, UploadInv, NEW g \in Gens, NEW ok \in BOOLEAN, PassStep(g, ok)
  PROVE  UploadsStep
<1> USE TypeFacts, GenFacts
<1>0. UploadsOK(policy, items, dn) /\ \A d \in Ids : dn[d].ul => dn[d].engine # 0
  BY DEF UploadInv, UploadsOK
<1>1. ASSUME NEW d \in Ids, PassSkip(g, d)
      PROVE  UploadsStep
  <2> DEFINE new == [dn[d] EXCEPT !.seeding = FALSE]
  <2>1. new \in Download(Gens)
    BY FlagType
  <2>2. Tame(policy, dn[d], new)
    BY <1>0, TameRecords
  <2>3. /\ UNCHANGED <<items, policy>>
        /\ dn' = dn \/ (Found(d) /\ dn' = [dn EXCEPT ![d].seeding = FALSE])
    BY <1>1 DEF PassSkip, rules
  <2>4. [dn EXCEPT ![d].seeding = FALSE] = [dn EXCEPT ![d] = new]
    OBVIOUS
  <2> HIDE DEF new
  <2> QED BY <1>0, <2>1, <2>2, <2>3, <2>4, UploadOne, UploadsUnchanged
<1>2. ASSUME NEW d \in Ids, PassBegin(g, d)
      PROVE  UploadsStep
  BY <1>0, <1>2, UploadsUnchanged DEF PassBegin, list, rules
<1>3. CASE PassEnd(g, ok)
  <2> DEFINE S == Schedule(policy, items, dn)
  <2>1. /\ UploadsOK(policy, items, S)
        /\ \A d \in Ids : S[d].have = dn[d].have /\ (d \notin Range(items) => S[d] = dn[d])
    BY <1>0, ScheduleUploads
  <2>2. dn' = S /\ UNCHANGED <<items, policy>>
    BY <1>3 DEF PassEnd, rules
  <2> HIDE DEF S
  <2> QED BY <2>1, <2>2, DataStays DEF UploadsStep
<1>4. CASE PassAborts(g)
  BY <1>0, <1>4, UploadsUnchanged DEF PassAborts, list, rules
<1> QED BY <1>1, <1>2, <1>3, <1>4 DEF PassStep

\* The sampler.
LEMMA UploadsTick ==
  ASSUME TypeInv, UploadInv, NEW b \in BOOLEAN, NEW ok \in BOOLEAN, Tick(b, ok)
  PROVE  UploadsStep /\ ChecksArrived
<1> USE TypeFacts, GenFacts
<1>0. /\ UploadsOK(policy, items, dn)
      /\ \A d \in Ids : dn[d].ul => dn[d].engine # 0 /\ d \in Range(items)
  BY DEF UploadInv, UploadsOK
<1> DEFINE p  == [policy EXCEPT !.blocked = b]
           S  == SyncPlay(p, items, Busy(jobs), dn)
           D1 == IF b # policy.blocked THEN Schedule(p, items, S) ELSE dn
           done == Arrived(p, D1)
           D2 == [d \in Ids |-> IF d \in done
                                THEN [D1[d] EXCEPT !.status = "verifying"] ELSE D1[d]]
<1>1. p \in Policy
  BY DEF Policy
<1>2. /\ UploadsOK(p, items, S) /\ S \in [Ids -> Download(Gens)]
      /\ \A d \in Ids : S[d].have = dn[d].have /\ (d \notin Range(items) => S[d] = dn[d])
  BY <1>0, <1>1, SyncPlayUploads, ListTypes
<1>3. /\ UploadsOK(p, items, Schedule(p, items, S))
      /\ Schedule(p, items, S) \in [Ids -> Download(Gens)]
      /\ \A d \in Ids : /\ Schedule(p, items, S)[d].have = S[d].have
                        /\ d \notin Range(items) => Schedule(p, items, S)[d] = S[d]
  <2> HIDE DEF p, S
  <2>1. Schedule(p, items, S) \in [Ids -> Download(Gens)]
    BY <1>1, <1>2, ListTypes
  <2>2. /\ UploadsOK(p, items, Schedule(p, items, S))
        /\ \A d \in Ids : /\ Schedule(p, items, S)[d].have = S[d].have
                          /\ d \notin Range(items) => Schedule(p, items, S)[d] = S[d]
    BY <1>1, <1>2, ScheduleUploads
  <2> QED BY <2>1, <2>2
<1>4. /\ UploadsOK(p, items, D1) /\ D1 \in [Ids -> Download(Gens)]
      /\ \A d \in Ids : D1[d].have = dn[d].have /\ (d \notin Range(items) => D1[d] = dn[d])
  BY <1>0, <1>2, <1>3 DEF Policy
<1>5. /\ policy' = p /\ dn' = D2 /\ items' = items /\ jobs' = jobs
      /\ spawned' = spawned \cup {Req(d, "verify") : d \in done}
  BY DEF Tick
<1> HIDE DEF D1, p
<1>6. \A d \in done : d \in Range(items) /\ D1[d].have
  BY DEF Arrived
<1>7. \A d \in Ids : D1[d].ul => D1[d].engine # 0
  BY <1>4 DEF UploadsOK
<1>8. \A d \in Ids : IF d \in Range(items) THEN Tame(p, D1[d], D2[d]) ELSE D2[d] = D1[d]
  BY <1>4, <1>6, <1>7, TameRecords DEF Statuses, Tame
<1> HIDE DEF D2
<1>9. UploadsOK(p, items, D2)
  BY <1>4, <1>8, UploadsTame
<1>10. \A d \in Ids : (dn[d].have => D2[d].have) /\ (d \notin Range(items) => D2[d] = dn[d])
  BY <1>4, <1>8 DEF Tame
<1>11. UploadsStep
  BY <1>5, <1>9, <1>10, DataStays DEF UploadsStep
<1>12. ChecksArrived
  <2> SUFFICES ASSUME NEW d \in Ids, Checking(d)'
               PROVE  Checking(d) \/ (Found(d) /\ dn[d].have)
    BY DEF ChecksArrived
  <2>1. CASE At(d, "hash")'
    BY <1>5, <2>1 DEF At, Checking
  <2>2. ASSUME NEW r \in spawned', r.id = d, r.kind = "verify"
        PROVE  Checking(d) \/ (Found(d) /\ dn[d].have)
    BY <1>4, <1>5, <1>6, <2>2 DEF Checking, Req, Found
  <2> QED BY <2>1, <2>2 DEF Checking
<1> QED BY <1>11, <1>12

\* The settings.
LEMMA UploadsApplySettings ==
  ASSUME TypeInv, UploadInv, NEW c \in Configs, NEW b \in BOOLEAN, NEW ok \in BOOLEAN,
         ApplySettings(c, b, ok)
  PROVE  UploadsStep
<1> USE TypeFacts, GenFacts
<1>0. /\ UploadsOK(policy, items, dn)
      /\ \A d \in Ids : dn[d].ul => dn[d].engine # 0 /\ d \in Range(items)
  BY DEF UploadInv, UploadsOK
<1> DEFINE p  == [policy EXCEPT !.rate = c, !.blocked = b, !.max = c.max]
           turned == PlayHeld(p) # PlayHeld(policy) \/ b # policy.blocked
           S  == SyncPlay(p, items, Busy(jobs), dn)
           D1 == IF turned THEN S ELSE dn
           D2 == [d \in Ids |-> IF Found(d) THEN Applied(c, p, jobs[d] # NoJob, D1[d])
                                ELSE D1[d]]
           T  == Schedule(p, items, D2)
<1>1. c \in Config /\ p \in Policy
  BY ManagerConstants DEF Config, Policy
<1>2. /\ UploadsOK(p, items, S) /\ S \in [Ids -> Download(Gens)]
      /\ \A d \in Ids : S[d].have = dn[d].have /\ (d \notin Range(items) => S[d] = dn[d])
  BY <1>0, <1>1, SyncPlayUploads, ListTypes
<1>3. /\ UploadsOK(p, items, D1) /\ D1 \in [Ids -> Download(Gens)]
      /\ \A d \in Ids : D1[d].have = dn[d].have /\ (d \notin Range(items) => D1[d] = dn[d])
  BY <1>0, <1>2 DEF Policy, PlayHeld, Held, SchedHeld, UploadsOK
<1>4. policy' = p /\ dn' = T /\ items' = items
  BY DEF ApplySettings
<1> HIDE DEF D1, p
<1>5. D2 \in [Ids -> Download(Gens)]
  BY <1>1, <1>3, AppliedType
<1>6. ASSUME NEW r \in Download(Gens), NEW busy \in BOOLEAN, r.ul => r.engine # 0
      PROVE  Tame(p, r, Applied(c, p, busy, r))
  <2> DEFINE s == Applied(c, p, busy, r)
  <2>1. CASE r.status # "completed" /\ r.engine # 0
    <3> DEFINE u == c.upload /\ r.status = "downloading" /\ ~Held(p, r)
    <3>1. s = [r EXCEPT !.ul = u]
      BY <2>1 DEF Applied
    <3>2. u => ~Held(p, r)
      OBVIOUS
    <3> HIDE DEF u, s
    <3>3. s.have = r.have /\ s.engine = r.engine /\ s.ignore = r.ignore /\ s.ul = u
      BY <3>1 DEF Download
    <3>4. Held(p, s) <=> Held(p, r)
      BY <3>3, HeldDepends
    <3> QED BY <2>1, <3>2, <3>3, <3>4 DEF Tame, s
  <2>2. CASE r.status = "completed" /\ ~c.seed
    <3>1. \/ s = [r EXCEPT !.seeding = FALSE, !.ul = FALSE]
          \/ s = Detached([r EXCEPT !.seeding = FALSE])
      BY <2>2 DEF Applied
    <3> HIDE DEF s
    <3>2. s.have = r.have /\ ~s.ul
      BY <3>1 DEF Detached, Download
    <3> QED BY <3>2 DEF Tame, s
  <2>3. CASE r.status = "completed" /\ c.seed /\ r.engine # 0
    <3> DEFINE a == AllowUpload(p, r)
    <3>1. s = IF r.seeding THEN r ELSE [a EXCEPT !.seeding = TRUE]
      BY <2>3 DEF Applied
    <3>2. /\ a.have = r.have /\ a.engine = r.engine /\ a.ignore = r.ignore
          /\ a.ul => r.ul \/ ~Held(p, r)
      BY DEF AllowUpload, Download
    <3>3. a \in Download(Gens)
      BY <1>1, RecordTypes
    <3> HIDE DEF a, s
    <3>4. /\ s.have = r.have /\ s.engine = r.engine /\ s.ignore = r.ignore
          /\ s.ul => r.ul \/ ~Held(p, r)
      BY <3>1, <3>2, <3>3 DEF Download
    <3>5. Held(p, s) <=> Held(p, r)
      BY <3>4, HeldDepends
    <3> QED BY <2>3, <3>4, <3>5 DEF Tame, s
  <2>4. CASE r.status = "completed" /\ c.seed /\ r.engine = 0
    <3> DEFINE h == ~HasClient
    <3>1. s = [r EXCEPT !.seeding = h]
      BY <2>4 DEF Applied
    <3> HIDE DEF h, s
    <3>2. s.have = r.have /\ s.ul = r.ul
      BY <3>1 DEF Download
    <3> QED BY <1>6, <2>4, <3>2 DEF Tame, s
  <2>5. CASE r.status # "completed" /\ r.engine = 0
    <3>1. s = r
      BY <2>5 DEF Applied
    <3> HIDE DEF s
    <3> QED BY <1>6, <2>5, <3>1 DEF Tame, s
  <2>6. c.seed \in BOOLEAN
    BY <1>1 DEF Config
  <2> QED BY <2>1, <2>2, <2>3, <2>4, <2>5, <2>6
<1>7. \A d \in Ids : D1[d].ul => D1[d].engine # 0
  BY <1>3 DEF UploadsOK
<1>8. \A d \in Ids : IF d \in Range(items) THEN Tame(p, D1[d], D2[d]) ELSE D2[d] = D1[d]
  <2>1. ASSUME NEW d \in Ids, Found(d) PROVE Tame(p, D1[d], D2[d])
    <3> DEFINE busy == jobs[d] # NoJob
    <3>1. D2[d] = Applied(c, p, busy, D1[d]) /\ busy \in BOOLEAN
      BY <2>1
    <3> HIDE DEF busy, D2
    <3>2. D1[d] \in Download(Gens)
      BY <1>3
    <3> QED BY <1>6, <1>7, <3>1, <3>2
  <2> QED BY <2>1 DEF Found
<1> HIDE DEF D2
<1>9. UploadsOK(p, items, D2)
  BY <1>3, <1>8, UploadsTame
<1>10. /\ UploadsOK(p, items, T)
       /\ \A d \in Ids : T[d].have = D2[d].have /\ (d \notin Range(items) => T[d] = D2[d])
  BY <1>1, <1>5, <1>9, ScheduleUploads
<1>11. \A d \in Ids : (dn[d].have => T[d].have) /\ (d \notin Range(items) => T[d] = dn[d])
  BY <1>3, <1>8, <1>10 DEF Tame
<1> HIDE DEF T
<1> QED BY <1>4, <1>10, <1>11, DataStays DEF UploadsStep

\* The client and its replacement.
LEMMA UploadsClient ==
  ASSUME TypeInv, UploadInv, NEW ok \in BOOLEAN,
         \/ RestoreStart \/ TeardownDetach \/ TeardownPark(ok) \/ TeardownDone \/ BringUp
  PROVE  UploadsStep
<1> USE TypeFacts, GenFacts
<1>0. UploadsOK(policy, items, dn) /\ \A d \in Ids : dn[d].ul => dn[d].engine # 0
  BY DEF UploadInv, UploadsOK
<1>1. CASE RestoreStart \/ TeardownDone \/ BringUp
  BY <1>0, <1>1, UploadsUnchanged DEF RestoreStart, TeardownDone, BringUp, list, rules
<1>2. CASE TeardownDetach
  BY <1>2 DEF TeardownDetach, Detached, Download, UploadsOK, DataKept, Found, UploadsStep
<1>3. CASE TeardownPark(ok)
  <2>1. /\ UNCHANGED <<items, policy>>
        /\ \A d \in Ids : dn'[d] = IF Found(d) THEN Parked(dn[d]) ELSE dn[d]
    BY <1>3 DEF TeardownPark, rules
  <2>2. ASSUME NEW d \in Ids
        PROVE  Tame(policy, dn[d], Parked(dn[d]))
    BY <1>0, TameRecords DEF Tame, Statuses, Parked
  <2>3. \A d \in Ids : IF d \in Range(items) THEN Tame(policy, dn[d], dn'[d]) ELSE dn'[d] = dn[d]
    BY <2>1, <2>2 DEF Found
  <2>4. UploadsOK(policy, items, dn')
    BY <1>0, <2>3, UploadsTame
  <2>5. \A d \in Ids : (dn[d].have => dn'[d].have) /\ (d \notin Range(items) => dn'[d] = dn[d])
    BY <2>3 DEF Tame
  <2> QED BY <2>1, <2>4, <2>5, DataStays DEF UploadsStep
<1> QED BY <1>1, <1>2, <1>3

\* What goes on in the background, but for the end of the program.
LEMMA UploadsBackground ==
  ASSUME TypeInv, UploadInv, ClientInv, NEW ok \in BOOLEAN, Background(ok), ~Quit(ok)
  PROVE  UploadsStep
<1> USE TypeFacts, GenFacts
<1>0. UploadsOK(policy, items, dn) /\ \A d \in Ids : dn[d].ul => dn[d].engine # 0
  BY DEF UploadInv, UploadsOK
<1>1. ASSUME NEW d \in Ids, Transfer(d)
      PROVE  UploadsStep
  <2> DEFINE new == [dn[d] EXCEPT !.have = TRUE]
  <2>1. new \in Download(Gens)
    BY FlagType
  <2>2. Tame(policy, dn[d], new)
    BY <1>0, TameRecords
  <2>3. Found(d) /\ UNCHANGED <<items, policy>> /\ dn' = [dn EXCEPT ![d] = new]
    BY <1>1 DEF Transfer, rules
  <2> HIDE DEF new
  <2> QED BY <1>0, <2>1, <2>2, <2>3, UploadOne
<1>2. ASSUME NEW r \in spawned, FailSpawned(r, ok)
      PROVE  UploadsStep
  BY <1>2, UploadsMarkFailed DEF TypeInv, TypeOK, Request, FailSpawned, rules
<1>3. ASSUME NEW r \in spawned, Begin(r)
      PROVE  UploadsStep
  BY <1>0, <1>3, UploadsUnchanged DEF Begin, list, rules
<1>4. ASSUME NEW d \in Ids, JobStep(d, ok)
      PROVE  UploadsStep
  BY <1>4, UploadsJobs
<1>5. ASSUME NEW g \in Gens, PassStep(g, ok)
      PROVE  UploadsStep
  BY <1>5, UploadsPasses
<1>6. ASSUME NEW b \in BOOLEAN, Tick(b, ok)
      PROVE  UploadsStep
  BY <1>6, UploadsTick
<1>7. ASSUME NEW c \in Configs, NEW b \in BOOLEAN, ApplySettings(c, b, ok)
      PROVE  UploadsStep
  BY <1>7, UploadsApplySettings
<1>8. CASE RestoreStart \/ TeardownDetach \/ TeardownPark(ok) \/ TeardownDone \/ BringUp
  BY <1>8, UploadsClient
<1> QED BY <1>1, <1>2, <1>3, <1>4, <1>5, <1>6, <1>7, <1>8 DEF Background

\* A step that gives nobody a check: no new request for one, and no job taken to it.
LEMMA NoCheckArrives ==
  ASSUME \A r \in spawned' : r \in spawned \/ r.kind # "verify",
         \A d \in Ids : At(d, "hash")' => Checking(d)
  PROVE  ChecksArrived
BY DEF ChecksArrived, Checking

\* A step of a job that is there already; only the end of a check keeps its place.
LEMMA JobsMoveOn ==
  ASSUME TypeInv, NEW d \in Ids, jobs[d] # NoJob, NEW J,
         \/ J = [jobs EXCEPT ![d].cancelled = TRUE]
         \/ J = [jobs EXCEPT ![d] = NoJob]
         \/ \E ph \in {"metadata", "settle", "check", "end"} : J = [jobs EXCEPT ![d].phase = ph]
  PROVE  \A e \in Ids : J[e] # NoJob /\ J[e].phase = "hash" => At(e, "hash")
<1>1. jobs \in [Ids -> Job \cup {NoJob}] /\ jobs[d] \in Job
  BY JobFacts DEF TypeInv, TypeOK
<1>2. CASE J = [jobs EXCEPT ![d].cancelled = TRUE]
  BY <1>1, <1>2 DEF Job, At
<1>3. CASE J = [jobs EXCEPT ![d] = NoJob]
  BY <1>1, <1>3 DEF At
<1>4. ASSUME NEW ph \in {"metadata", "settle", "check", "end"}, J = [jobs EXCEPT ![d].phase = ph]
      PROVE  \A e \in Ids : J[e] # NoJob /\ J[e].phase = "hash" => At(e, "hash")
  BY <1>1, <1>4 DEF Job, At
<1> QED BY <1>2, <1>3, <1>4

\* A registered job that makes no completion check takes nobody to one.
LEMMA BegunElsewhere ==
  ASSUME TypeInv, NEW r \in Request, r.kind # "fail", NEW d \in Ids,
         LET J == Begun(r) IN J[d] # NoJob /\ J[d].phase = "hash"
  PROVE  At(d, "hash") \/ (d = r.id /\ r.kind = "verify")
<1>1. jobs \in [Ids -> Job \cup {NoJob}] /\ r.id \in Ids /\ r.kind \in Kinds
  BY DEF TypeInv, TypeOK, Request
<1>2. CASE d = r.id
  BY <1>1, <1>2 DEF Begun, Kinds, FirstPhase
<1>3. CASE d # r.id
  BY <1>1, <1>3 DEF Begun, At
<1> QED BY <1>2, <1>3

\* Only the sampler finds a download to check, and only a check is taken to its end.
LEMMA ChecksOnlyArrived ==
  ASSUME TypeInv, [Next]_vars, ~Crash, \A ok \in BOOLEAN : ~Quit(ok),
         \A b, ok \in BOOLEAN : ~Tick(b, ok)
  PROVE  ChecksArrived
<1>0. /\ jobs \in [Ids -> Job \cup {NoJob}] /\ spawned \subseteq Request
      /\ \A r \in spawned : r.id \in Ids
  BY DEF TypeInv, TypeOK, Request
<1>a. ASSUME \A r \in spawned' : r \in spawned \/ r.kind # "verify",
             \/ jobs' = jobs
             \/ \A e \in Ids : jobs'[e] # NoJob /\ jobs'[e].phase = "hash" => At(e, "hash")
      PROVE  ChecksArrived
  BY <1>a, NoCheckArrives DEF At, Checking
<1>b. ASSUME UNCHANGED <<jobs, spawned>> PROVE ChecksArrived
  BY <1>a, <1>b
<1>c. ASSUME NEW d \in Ids, jobs[d] # NoJob, spawned' = spawned,
             NEW ph \in {"metadata", "settle", "check", "end"}, Goes(d, ph)
      PROVE  ChecksArrived
  BY <1>c, JobsMoveOn, <1>a DEF Goes
<1>d. \A d \in Ids, k \in {"restore", "settle", "fail"} :
        /\ Req(d, k).kind # "verify"
        /\ \A b \in BOOLEAN : /\ [Req(d, k) EXCEPT !.force = b].kind # "verify"
                              /\ [Req(d, k) EXCEPT !.complete = b].kind # "verify"
  BY DEF Req
<1>1. ASSUME NEW ok \in BOOLEAN, Requests(ok)
      PROVE  ChecksArrived
  <2>1. ASSUME NEW i \in DOMAIN items, Drop(i, ok)
        PROVE  ChecksArrived
    BY <2>1, TypeFacts, <1>b, JobsMoveOn, <1>a DEF Drop
  <2>2. ASSUME NEW d \in Ids, NEW force \in BOOLEAN,
               QueueWhileDown(d, force, ok) \/ Reattach(d, force, ok)
        PROVE  ChecksArrived
    BY <2>2, <1>d, <1>a DEF QueueWhileDown, Reattach, work
  <2>3. ASSUME NEW d \in Ids,
               \/ Add(d, ok) \/ Pause(d, ok) \/ DownloadNow(d, ok) \/ StopSeeding(d, ok)
        PROVE  ChecksArrived
    BY <1>b, <2>3 DEF Add, Pause, DownloadNow, StopSeeding, work
  <2>4. ASSUME NEW d \in Ids, AddTask(d, ok)
        PROVE  ChecksArrived
    BY <2>4, <1>d, <1>a DEF AddTask
  <2>5. ASSUME NEW d \in Ids, Resume(d, ok) \/ ForceStart(d, ok)
        PROVE  ChecksArrived
    BY <2>2, <2>5, <1>b DEF Resume, ForceStart, work
  <2>6. ASSUME NEW i \in DOMAIN items, NEW j \in DOMAIN items, Move(i, j, ok)
        PROVE  ChecksArrived
    BY <1>b, <2>6 DEF Move, work
  <2>7. ASSUME NEW i \in DOMAIN items, Discard(i, ok) \/ StopAndWait(i, ok)
        PROVE  ChecksArrived
    BY <2>1, <2>7 DEF Discard, StopAndWait
  <2> QED BY <1>1, <2>3, <2>4, <2>5, <2>6, <2>7 DEF Requests
<1>2. CASE Environment
  <2>1. ASSUME NEW d \in Ids, StopSeedingJob(d)
        PROVE  ChecksArrived
    BY <2>1, JobsMoveOn, <1>a DEF StopSeedingJob
  <2>2. ASSUME NEW d \in Ids, WriteError(d)
        PROVE  ChecksArrived
    BY <2>2, <1>d, <1>a DEF WriteError
  <2>3. ASSUME \/ \E b \in BOOLEAN : SetGamesRunning(b)
               \/ \E c \in Configs : SaveSettings(c)
               \/ SwitchNetwork
        PROVE  ChecksArrived
    BY <1>b, <2>3 DEF SetGamesRunning, SaveSettings, SwitchNetwork, work
  <2>4. CASE Close
    BY <1>0, <2>4, <1>a DEF Job, Close, At
  <2> QED BY <1>2, <2>1, <2>2, <2>3, <2>4 DEF Environment
<1>3. ASSUME NEW ok \in BOOLEAN, Background(ok)
      PROVE  ChecksArrived
  <2>1. ASSUME NEW c \in Configs, NEW b \in BOOLEAN, ApplySettings(c, b, ok)
        PROVE  ChecksArrived
    <3>1. /\ jobs' = jobs
          /\ \A r \in spawned' : \/ r \in spawned
                                 \/ \E d \in Ids : r = [Req(d, "restore") EXCEPT !.complete = TRUE]
      BY <2>1, TypeFacts DEF ApplySettings
    <3>2. \A d \in Ids : [Req(d, "restore") EXCEPT !.complete = TRUE].kind # "verify"
      BY <1>d
    <3>3. \A r \in spawned' : r \in spawned \/ r.kind # "verify"
      BY <3>1, <3>2
    <3> QED BY <1>a, <3>1, <3>3
  <2>2. ASSUME NEW d \in Ids, Transfer(d)
        PROVE  ChecksArrived
    BY <1>b, <2>2 DEF Transfer, work
  <2>3. ASSUME NEW d \in Ids, JobStep(d, ok)
        PROVE  ChecksArrived
    <3>1. jobs[d] # NoJob /\ spawned' = spawned
      BY <2>3 DEF JobStep, Attach, AttachFails, GotInfo, Settle, Check, VerifyPasses,
                  VerifyFails, EndJob, At
    <3>2. CASE EndJob(d)
      BY <3>1, <3>2, JobsMoveOn, <1>a DEF EndJob
    <3>3. CASE ~EndJob(d)
      <4>1. \E ph \in {"metadata", "settle", "check", "end"} : Goes(d, ph)
        BY <2>3, <3>3 DEF JobStep, Attach, AttachFails, RestoreFailed, GotInfo, Settle, Check,
                          VerifyPasses, VerifyFails, Finish, FinishSeed
      <4> QED BY <1>c, <3>1, <4>1
    <3> QED BY <3>2, <3>3
  <2>4. ASSUME NEW r \in spawned, FailSpawned(r, ok)
        PROVE  ChecksArrived
    BY <2>4, <1>a DEF FailSpawned
  <2>5. ASSUME NEW r \in spawned, Begin(r)
        PROVE  ChecksArrived
    BY <1>0, <2>5, BegunElsewhere, NoCheckArrives DEF Begin, At, Checking
  <2>6. ASSUME NEW g \in Gens, PassStep(g, ok)
        PROVE  ChecksArrived
    <3>1. ASSUME NEW e \in Ids, PassBegin(g, e)
          PROVE  ChecksArrived
      <4> DEFINE r == passes[g].req[e]
      <4>1. r \in Request /\ r.kind = "restore" /\ jobs' = Begun(r) /\ spawned' = spawned
        BY <3>1, PassFacts DEF PassBegin, NextInPass, TypeInv, PassRequests
      <4> HIDE DEF r
      <4>2. ASSUME NEW d \in Ids, At(d, "hash")'
            PROVE  Checking(d)
        BY <4>1, <4>2, BegunElsewhere DEF At, Checking
      <4> QED BY <4>1, <4>2, NoCheckArrives
    <3>2. CASE (\E e \in Ids : PassSkip(g, e)) \/ PassEnd(g, ok) \/ PassAborts(g)
      BY <1>b, <3>2 DEF PassSkip, PassEnd, PassAborts
    <3> QED BY <2>6, <3>1, <3>2 DEF PassStep
  <2>7. CASE RestoreStart \/ TeardownDetach \/ TeardownDone \/ BringUp
    BY <1>b, <2>7 DEF RestoreStart, TeardownDetach, TeardownDone, BringUp, work
  <2>8. CASE TeardownPark(ok)
    BY <1>0, <2>8, <1>a DEF TeardownPark, TypeInv, Bounds, Busy, Job, At
  <2> QED BY <1>3, <2>1, <2>2, <2>3, <2>4, <2>5, <2>6, <2>7, <2>8 DEF Background
<1>4. CASE UNCHANGED vars
  BY <1>b, <1>4 DEF vars, work
<1> QED BY <1>1, <1>2, <1>3, <1>4 DEF Next

\* A client that is installed has a generation of its own.
LEMMA ClientNumbered ==
  ASSUME TypeInv, UploadInv, [Next]_vars
  PROVE  HasClient' => gen' # 0
<1> USE GenFacts DEF HasClient
<1>0. gen \in Gens /\ (HasClient => gen # 0)
  BY DEF UploadInv, TypeInv, TypeOK
<1>1. ASSUME NEW st, Restarted(st) PROVE HasClient' => gen' # 0
  BY <1>1 DEF Restarted
<1>2. CASE BringUp
  BY <1>0, <1>2 DEF BringUp
<1>3. CASE TeardownDetach \/ TeardownDone \/ \E ok \in BOOLEAN : TeardownPark(ok)
  BY <1>3 DEF TeardownDetach, TeardownDone, TeardownPark
<1>4. CASE SwitchNetwork
  BY <1>0, <1>4 DEF SwitchNetwork
<1>5. CASE UNCHANGED <<net, gen>>
  BY <1>0, <1>5
<1>6. ASSUME NEW ok \in BOOLEAN, Requests(ok) PROVE UNCHANGED <<net, gen>>
  BY <1>6 DEF Requests, Add, AddTask, Pause, Resume, ForceStart, QueueWhileDown, Reattach,
              DownloadNow, StopSeeding, Move, Discard, StopAndWait, Drop, client
<1>7. ASSUME Environment, ~SwitchNetwork, ~Crash PROVE UNCHANGED <<net, gen>>
  BY <1>7 DEF Environment, StopSeedingJob, WriteError, SetGamesRunning, SaveSettings, Close, client
<1>8. ASSUME NEW ok \in BOOLEAN, Background(ok), ~Quit(ok), ~BringUp, ~TeardownDetach,
             ~TeardownDone, ~TeardownPark(ok)
      PROVE  UNCHANGED <<net, gen>>
  <2>1. ASSUME NEW d \in Ids, JobStep(d, ok) PROVE UNCHANGED <<net, gen>>
    BY <2>1 DEF JobStep, Attach, AttachFails, GotInfo, Settle, Check, VerifyPasses,
                VerifyFails, EndJob, client
  <2>2. ASSUME NEW g \in Gens, PassStep(g, ok) PROVE UNCHANGED <<net, gen>>
    BY <2>2 DEF PassStep, PassSkip, PassBegin, PassEnd, PassAborts, client
  <2>3. ASSUME NEW r \in spawned, FailSpawned(r, ok) \/ Begin(r) PROVE UNCHANGED <<net, gen>>
    BY <2>3 DEF FailSpawned, Begin, client
  <2>4. ASSUME NEW b \in BOOLEAN, Tick(b, ok) PROVE UNCHANGED <<net, gen>>
    BY <2>4 DEF Tick, client
  <2>5. ASSUME NEW c \in Configs, NEW b \in BOOLEAN, ApplySettings(c, b, ok)
        PROVE  UNCHANGED <<net, gen>>
    BY <2>5 DEF ApplySettings
  <2>6. ASSUME RestoreStart \/ \E d \in Ids : Transfer(d) PROVE UNCHANGED <<net, gen>>
    BY <2>6 DEF RestoreStart, Transfer, client
  <2> QED BY <1>8, <2>1, <2>2, <2>3, <2>4, <2>5, <2>6 DEF Background
<1>9. ASSUME NEW ok \in BOOLEAN, Background(ok) PROVE HasClient' => gen' # 0
  BY <1>1, <1>2, <1>3, <1>5, <1>8, <1>9 DEF Quit
<1>10. CASE Environment
  BY <1>1, <1>4, <1>5, <1>7, <1>10 DEF Crash
<1>11. CASE UNCHANGED vars
  BY <1>5, <1>11 DEF vars, client
<1> QED BY <1>5, <1>6, <1>9, <1>10, <1>11 DEF Next

\* Every step keeps the gates and what the checks were made for.
LEMMA UploadsNext ==
  ASSUME TypeInv, Once, ClientInv, UploadInv, [Next]_vars
  PROVE  UploadInv'
<1>1. HasClient' => gen' # 0
  BY ClientNumbered
<1>2. ASSUME UploadsStep, ChecksArrived PROVE UploadInv'
  BY <1>1, <1>2, CheckStep DEF UploadInv, UploadsStep, UploadsOK, Held, PlayHeld, SchedHeld
<1>3. ASSUME NEW st, Restarted(st) PROVE UploadInv'
  BY <1>1, <1>3, UploadsRestarted DEF UploadsOK, Held, PlayHeld, SchedHeld, CheckInv, UploadInv
<1>4. ASSUME NEW b \in BOOLEAN, NEW ok \in BOOLEAN, Tick(b, ok) PROVE UploadInv'
  BY <1>2, <1>4, UploadsTick
<1>5. CASE ~Crash /\ (\A ok \in BOOLEAN : ~Quit(ok)) /\ \A b, ok \in BOOLEAN : ~Tick(b, ok)
  <2>1. ChecksArrived
    BY <1>5, ChecksOnlyArrived
  <2>2. UploadsStep
    <3>1. CASE UNCHANGED vars
      BY <3>1, UploadsUnchanged DEF vars, list, rules, UploadInv
    <3> QED BY <1>5, <3>1, UploadsRequests, UploadsEnvironment, UploadsBackground DEF Next
  <2> QED BY <1>2, <2>1, <2>2
<1>6. CASE Crash
  BY <1>3, <1>6 DEF Crash
<1>7. ASSUME NEW ok \in BOOLEAN, Quit(ok) PROVE UploadInv'
  BY <1>3, <1>7 DEF Quit
<1> QED BY <1>4, <1>5, <1>6, <1>7

\* What was made of the gates and the data holds in every reachable state.
LEMMA UploadInvariant == Spec => []UploadInv
<1>1. Init => UploadInv
  <2>1. ASSUME Init
        PROVE  /\ \A d \in Ids : ~dn[d].ul /\ jobs[d] = NoJob
               /\ spawned = {} /\ (HasClient => gen # 0)
    BY <2>1 DEF Init, Booted, Loaded, HasClient
  <2> QED BY <2>1 DEF UploadInv, UploadsOK, CheckInv, Checking, At
<1> QED BY <1>1, OnceInvariant, ClientInvariant, UploadsNext, PTL DEF Spec

\* A download that is held back and lacks data sends nothing, whatever was being checked,
\* removed, paused or moved to another client when the game started or the window closed:
\* the one gate that stays open, after completeLocked, is that of a download that has all.
THEOREM HeldDownloadsSendOnlyComplete == Spec => []HeldUploadsOnlyComplete
<1>1. UploadInv => HeldUploadsOnlyComplete
  BY DEF UploadInv, UploadsOK, HeldUploadsOnlyComplete
<1> QED BY <1>1, UploadInvariant, PTL
-----------------------------------------------------------------------------
(* GatesFollowRules and StatusIsKept, while the client stays up and nothing *)
(* is restored: then every handler finds a download as its status says.     *)

\* What the torrent and the gates of a listed download say: every one that is not finished
\* has its torrent, and a gate is open as the status allows, unless a write failed
\* (ForceStart then leaves the gates as they are).
Sound(r) ==
  /\ r.status # "completed" \/ r.seeding => r.engine # 0
  /\ "persistFails" \notin Events =>
       /\ r.dl => r.status \in {"downloading", "verifying"}
       /\ r.ul => \/ r.status \in {"downloading", "verifying"}
                  \/ r.status = "completed" /\ r.seeding

Reseed(d) == [Req(d, "restore") EXCEPT !.complete = TRUE]

\* A finished download is being given its torrent back, or is about to be.
Reseeding(d) ==
  At(d, "attach") \/ At(d, "settle") \/ \E r \in spawned : r.id = d /\ r.kind = "restore"

\* A check is made for a download that shows it, a reseed for a finished one without a
\* torrent, and what the user paused is paused.
Steady(d) ==
  /\ Sound(dn[d])
  /\ Checking(d) => dn[d].status = "verifying"
  /\ Reseeding(d) => dn[d].status = "completed" /\ dn[d].engine = 0
  /\ asked[d] = "pause" => dn[d].status = "paused"

\* What is under way for a download outside the list is for one that was removed, and the
\* user may only add one that he has not paused.
Outside(d) ==
  /\ Checking(d) \/ Reseeding(d) => dn[d].status = "failed"
  /\ asked[d] = "pause" => dn[d].status # "queued"

\* The jobs are checks and reseeds, one for a download, and no pass is under way.
WorkInv ==
  /\ \A g \in Gens : ~passes[g].live
  /\ \A r \in spawned : jobs[r.id] = NoJob /\ r \in {Req(r.id, "verify"), Reseed(r.id)}
  /\ \A d \in Ids : jobs[d] # NoJob =>
       /\ jobs[d].req.pass = NoPass
       /\ jobs[d].phase \in {"attach", "settle", "hash", "end"}
       /\ jobs[d].phase \in {"attach", "settle"} => jobs[d].req.complete

\* The client is not up yet and the list is empty, or it is and stays.
CalmInv ==
  /\ ~booting /\ ~closing /\ net \in {"up", "down"}
  /\ net = "up" => gen # 0
  /\ net = "down" => items = <<>> /\ spawned = {}

SteadyInv ==
  /\ CalmInv /\ WorkInv
  /\ \A d \in Ids : IF Found(d) THEN Steady(d) ELSE Outside(d)

\* The requests and faults that are left out, and that the list is empty at the start.
Undisturbed ==
  /\ Events \cap {"addTask", "network", "crash", "close", "noMetainfo", "writeError"} = {}
  /\ \A st \in Stored : st.items = <<>>

\* What is finished stays finished, in a step.
FinishedKept ==
  \A d \in Range(items) :
    dn[d].status = "completed" /\ d \in Range(items') => dn'[d].status = "completed"

\* What the rules do to a record: they start what is queued, and take torrents away only
\* where that is in order.
Steers(r, s) ==
  /\ Sound(r) => Sound(s)
  /\ r.status # "queued" => s.status = r.status
  /\ r.engine = 0 => s.engine = 0

LEMMA SteersTwice ==
  ASSUME NEW r, NEW s, NEW t, Steers(r, s), Steers(s, t)
  PROVE  Steers(r, t)
BY DEF Steers

\* schedule()
LEMMA SteersSchedule ==
  ASSUME NEW p \in Policy, NEW q \in Seq(Ids), NEW D \in [Ids -> Download(Gens)], NEW d \in Ids
  PROVE  /\ Steers(D[d], Schedule(p, q, D)[d])
         /\ d \notin Range(q) => Schedule(p, q, D)[d] = D[d]
<1> DEFINE S == Schedule(p, q, D)
<1>0. D[d] \in Download(Gens)
  OBVIOUS
<1>1. S[d] = D[d] \/ (d \in Range(q) /\ MayStart(p, D[d]) /\ S[d] = Started(p, D[d]))
  BY DEF Chosen, Schedule, Range
<1>2. Started(p, D[d]).engine = D[d].engine /\ Started(p, D[d]).status = "downloading"
  BY <1>0 DEF Started, Download
<1>3. Steers(D[d], D[d])
  BY DEF Steers
<1>4. ASSUME MayStart(p, D[d]) PROVE Steers(D[d], Started(p, D[d]))
  BY <1>2, <1>4 DEF Steers, MayStart, Sound
<1> HIDE DEF S
<1> QED BY <1>1, <1>3, <1>4 DEF S

\* syncPlayLocked
LEMMA SteersSync ==
  ASSUME NEW p, NEW q, NEW busy, NEW D \in [Ids -> Download(Gens)], NEW d \in Ids
  PROVE  /\ Steers(D[d], SyncPlay(p, q, busy, D)[d])
         /\ d \notin Range(q) => SyncPlay(p, q, busy, D)[d] = D[d]
<1>1. SyncPlay(p, q, busy, D)[d] = IF d \in Range(q) THEN Synced(p, d \in busy, D[d]) ELSE D[d]
  BY DEF SyncPlay
<1>2. ASSUME NEW r \in Download(Gens), NEW b
      PROVE  Steers(r, Synced(p, b, r))
  <2>1. Steers(r, r)
    BY DEF Steers
  <2>2. Steers(r, Gated(r))
    BY DEF Steers, Sound, Gated, Download
  <2>3. CASE r.engine # 0 /\ ~Held(p, r) /\ ~b
    <3> DEFINE s == Synced(p, b, r)
    <3>1. /\ s.status = r.status /\ s.engine = r.engine /\ s.seeding = r.seeding
          /\ s.dl => r.dl \/ r.status = "downloading"
          /\ s.ul => r.ul \/ r.status = "downloading" \/ (r.status = "completed" /\ r.seeding)
      BY <2>3 DEF Synced, Download
    <3> HIDE DEF s
    <3>2. Steers(r, s)
      BY <3>1 DEF Steers, Sound
    <3> QED BY <3>2 DEF s
  <2> QED BY <2>1, <2>2, <2>3 DEF Synced
<1>3. Steers(D[d], D[d])
  BY DEF Steers
<1> QED BY <1>1, <1>2, <1>3

\* applySettings, for one download
LEMMA SteersApplied ==
  ASSUME NEW c, NEW p, NEW busy, NEW r \in Download(Gens), HasClient \/ ~Sound(r)
  PROVE  Steers(r, Applied(c, p, busy, r))
<1> DEFINE s == Applied(c, p, busy, r)
<1>1. CASE r.status # "completed" /\ r.engine # 0
  <2>1. s.status = r.status /\ s.engine = r.engine /\ s.dl = r.dl /\ (s.ul => r.status = "downloading")
    BY <1>1 DEF Applied, Download
  <2> HIDE DEF s
  <2>2. Steers(r, s)
    BY <1>1, <2>1 DEF Steers, Sound
  <2> QED BY <2>2 DEF s
<1>2. CASE r.status = "completed" /\ ~c.seed
  <2>1. s.status = r.status /\ ~s.seeding /\ (s.dl => r.dl) /\ ~s.ul /\ s.engine \in {0, r.engine}
    BY <1>2 DEF Applied, Detached, Download
  <2> HIDE DEF s
  <2>2. Steers(r, s)
    BY <1>2, <2>1 DEF Steers, Sound
  <2> QED BY <2>2 DEF s
<1>3. CASE r.status = "completed" /\ c.seed /\ r.engine # 0
  <2>1. s.status = r.status /\ s.seeding /\ s.dl = r.dl /\ s.engine = r.engine
    BY <1>3 DEF Applied, AllowUpload, Download
  <2> HIDE DEF s
  <2>2. Steers(r, s)
    BY <1>3, <2>1 DEF Steers, Sound
  <2> QED BY <2>2 DEF s
<1>4. CASE r.status = "completed" /\ c.seed /\ r.engine = 0
  <2>1. s.status = r.status /\ (HasClient => ~s.seeding) /\ s.dl = r.dl /\ s.ul = r.ul /\ s.engine = 0
    BY <1>4 DEF Applied, Download
  <2> HIDE DEF s
  <2>2. Steers(r, s)
    BY <1>4, <2>1 DEF Steers, Sound
  <2> QED BY <2>2 DEF s
<1>5. CASE r.status # "completed" /\ r.engine = 0
  <2>1. s = r
    BY <1>5 DEF Applied
  <2> QED BY <2>1 DEF Steers
<1> QED BY <1>1, <1>2, <1>3, <1>4, <1>5

\* What a step may leave of the work: no more than there was.
WorkShrinks ==
  /\ spawned' \subseteq spawned
  /\ \A d \in Ids : jobs'[d] # NoJob =>
       /\ jobs[d] # NoJob /\ jobs'[d].req = jobs[d].req
       /\ \/ jobs'[d].phase \in {jobs[d].phase, "end"}
          \/ jobs[d].phase = "attach" /\ jobs'[d].phase = "settle"

LEMMA WorkLess ==
  ASSUME TypeInv, WorkInv, WorkShrinks, UNCHANGED gen, \A g \in Gens : ~passes'[g].live
  PROVE  /\ WorkInv'
         /\ \A d \in Ids : (Checking(d)' => Checking(d)) /\ (Reseeding(d)' => Reseeding(d))
<1>1. ASSUME NEW r \in spawned'
      PROVE  /\ r \in spawned /\ jobs'[r.id] = NoJob
             /\ r \in {Req(r.id, "verify"), Reseed(r.id)}
  BY DEF WorkShrinks, WorkInv, TypeInv, TypeOK, Request
<1>2. \A d, k : Req(d, k)' = Req(d, k)
  BY DEF Req
<1>3. \A d : Req(d, "verify")' = Req(d, "verify") /\ Reseed(d)' = Reseed(d)
  BY <1>2 DEF Reseed
<1>4. ASSUME NEW d \in Ids, jobs'[d] # NoJob
      PROVE  /\ jobs'[d].req.pass = NoPass
             /\ jobs'[d].phase \in {"attach", "settle", "hash", "end"}
             /\ jobs'[d].phase \in {"attach", "settle"} => jobs'[d].req.complete
  BY <1>4 DEF WorkShrinks, WorkInv
<1>5. \A d \in Ids : (Checking(d)' => Checking(d)) /\ (Reseeding(d)' => Reseeding(d))
  BY <1>1 DEF WorkShrinks, Checking, Reseeding, At
<1>6. WorkInv'
  BY <1>1, <1>3, <1>4 DEF WorkInv
<1> QED BY <1>5, <1>6

\* What a step makes of download d, when nothing is asked of it.
Passed(d) ==
  /\ Found(d)' <=> Found(d)
  /\ Checking(d)' => Checking(d)
  /\ Reseeding(d)' => Reseeding(d)
  /\ asked'[d] = "pause" => asked[d] = "pause"
  /\ Found(d) => Steers(dn[d], dn'[d])
  /\ ~Found(d) => dn'[d] = dn[d]

\* What it makes of the one it is about.
Placed(d) ==
  /\ Steady(d)'
  /\ Found(d) /\ dn[d].status = "completed" => dn'[d].status = "completed"

\* A step over the list: each download is left as it was, in order, or gone.
LEMMA SteadyStep ==
  ASSUME TypeInv, SteadyInv, CalmInv', WorkInv',
         \A d \in Ids : \/ Passed(d)
                        \/ Found(d)' /\ Placed(d)
                        \/ ~Found(d)' /\ dn'[d].status = "failed"
  PROVE  SteadyInv' /\ FinishedKept
<1> USE TypeFacts
<1>1. ASSUME NEW d \in Ids PROVE (IF Found(d) THEN Steady(d) ELSE Outside(d))'
  BY DEF SteadyInv, Passed, Steers, Steady, Outside, Placed
<1>2. FinishedKept
  BY DEF FinishedKept, Found, Passed, Placed, Steers
<1> QED BY <1>1, <1>2 DEF SteadyInv

\* A step that follows the rules, and starts no work.
LEMMA SteadyRules ==
  ASSUME TypeInv, SteadyInv, UNCHANGED <<net, gen, booting, closing>>,
         \A d \in Ids : Found(d)' <=> Found(d),
         items = <<>> => items' = <<>>,
         WorkShrinks, \A g \in Gens : ~passes'[g].live,
         \A d \in Ids : /\ asked'[d] = "pause" => asked[d] = "pause"
                        /\ Found(d) => Steers(dn[d], dn'[d])
                        /\ ~Found(d) => dn'[d] = dn[d]
  PROVE  SteadyInv' /\ FinishedKept
<1>1. /\ WorkInv'
      /\ \A d \in Ids : (Checking(d)' => Checking(d)) /\ (Reseeding(d)' => Reseeding(d))
  BY WorkLess DEF SteadyInv
<1>2. CalmInv'
  BY DEF SteadyInv, CalmInv, WorkShrinks
<1>3. \A d \in Ids : Passed(d)
  BY <1>1 DEF Passed
<1> QED BY <1>1, <1>2, <1>3, SteadyStep

\* A step that changes the record of a download, and may schedule.
LEMMA SteadyOne ==
  ASSUME TypeInv, SteadyInv, UNCHANGED <<items, policy, net, gen, booting, closing>>,
         NEW d \in Ids, Found(d), NEW r \in Download(Gens),
         WorkShrinks, \A g \in Gens : ~passes'[g].live,
         \A e \in Ids \ {d} : asked'[e] = asked[e],
         Sound(r),
         Checking(d)' => r.status = "verifying",
         Reseeding(d)' => r.status = "completed" /\ r.engine = 0,
         asked'[d] = "pause" => r.status = "paused",
         dn[d].status = "completed" => r.status = "completed",
         \/ dn' = [dn EXCEPT ![d] = r]
         \/ dn' = Schedule(policy, items, [dn EXCEPT ![d] = r])
  PROVE  SteadyInv' /\ FinishedKept
<1> USE TypeFacts
<1> DEFINE E == [dn EXCEPT ![d] = r]
<1>1. E \in [Ids -> Download(Gens)] /\ E[d] = r /\ \A e \in Ids \ {d} : E[e] = dn[e]
  OBVIOUS
<1>2. /\ WorkInv'
      /\ \A e \in Ids : (Checking(e)' => Checking(e)) /\ (Reseeding(e)' => Reseeding(e))
  BY WorkLess DEF SteadyInv
<1>3. CalmInv'
  BY DEF SteadyInv, CalmInv, WorkShrinks
<1> HIDE DEF E
<1>4. \A e \in Ids : Steers(E[e], dn'[e]) /\ (~Found(e) => dn'[e] = E[e])
  <2>1. \A e \in Ids : Steers(E[e], E[e])
    BY DEF Steers
  <2>2. CASE dn' = E
    BY <2>1, <2>2
  <2>3. CASE dn' = Schedule(policy, items, E)
    BY <1>1, <2>3, SteersSchedule DEF Found
  <2> QED BY <2>2, <2>3 DEF E
<1>5. \A e \in Ids : Found(e)' <=> Found(e)
  BY DEF Found
<1>6. \A e \in Ids \ {d} : Passed(e)
  BY <1>1, <1>2, <1>4, <1>5 DEF Passed
<1>7. Placed(d)
  BY <1>1, <1>4 DEF Steers, Steady, Placed
<1> QED BY <1>2, <1>3, <1>5, <1>6, <1>7, SteadyStep

\* Nothing is under way for a download that is neither being checked nor finished.
LEMMA IdleWhen ==
  ASSUME SteadyInv, NEW d \in Ids, Found(d)
  PROVE  /\ Sound(dn[d])
         /\ dn[d].status # "verifying" => ~Checking(d)
         /\ dn[d].status # "completed" => ~Reseeding(d)
BY DEF SteadyInv, Steady

\* What a request of the user leaves alone.
LEMMA SteadySame ==
  ASSUME SteadyInv, UNCHANGED <<rules, work, client, life>>
  PROVE  /\ UNCHANGED <<policy, net, gen, booting, closing>>
         /\ WorkShrinks /\ \A g \in Gens : ~passes'[g].live
         /\ \A d \in Ids : (Checking(d)' <=> Checking(d)) /\ (Reseeding(d)' <=> Reseeding(d))
BY DEF SteadyInv, WorkInv, WorkShrinks, rules, work, client, life, Checking, Reseeding, At

\* A request that is refused, or whose write failed.
LEMMA SteadyRefused ==
  ASSUME TypeInv, SteadyInv, UNCHANGED <<items, dn, asked>>,
         UNCHANGED <<rules, work, client, life>>
  PROVE  SteadyInv' /\ FinishedKept
<1>1. \A d \in Ids : Steers(dn[d], dn'[d])
  BY DEF Steers
<1> QED BY <1>1, SteadyRules, SteadySame DEF Found

\* A new download is queued with its torrent, and nothing is under way for it.
LEMMA SteadyAdd ==
  ASSUME TypeInv, SteadyInv, NEW d \in Ids, NEW ok \in BOOLEAN, Add(d, ok)
  PROVE  SteadyInv' /\ FinishedKept
<1> USE TypeFacts, GenFacts
<1> DEFINE q == Append(items, d)
           r == Attached(dn[d], gen)
           E == [dn EXCEPT ![d] = r]
<1>0. SUFFICES ASSUME ok PROVE SteadyInv' /\ FinishedKept
  BY SteadyRefused DEF Add
<1>1. /\ ~Found(d) /\ dn[d] = Fresh /\ HasClient
      /\ items' = q /\ dn' = Schedule(policy, q, E)
      /\ UNCHANGED <<rules, work, client, life, asked>>
  BY <1>0 DEF Add
<1>2. r \in Download(Gens) /\ r.status = "queued" /\ r.engine = gen /\ ~r.dl /\ ~r.ul
  <2>1. r \in Download(Gens)
    BY RecordTypes
  <2>2. r.status = "queued" /\ r.engine = gen /\ ~r.dl /\ ~r.ul
    BY <1>1 DEF Attached, Fresh
  <2> QED BY <2>1, <2>2
<1>3. net = "up" /\ gen # 0
  BY <1>1 DEF SteadyInv, CalmInv, HasClient
<1>4. Sound(r)
  BY <1>2, <1>3 DEF Sound
<1> HIDE DEF r
<1>5. E \in [Ids -> Download(Gens)] /\ q \in Seq(Ids) /\ E[d] = r
      /\ \A e \in Ids \ {d} : E[e] = dn[e]
  BY <1>2
<1>6. Range(q) = Range(items) \cup {d}
  BY AppendProperties DEF Range
<1> HIDE DEF q, E
<1>7. /\ WorkShrinks /\ UNCHANGED gen /\ \A g \in Gens : ~passes'[g].live
      /\ \A e \in Ids : (Checking(e)' <=> Checking(e)) /\ (Reseeding(e)' <=> Reseeding(e))
  BY <1>1, SteadySame
<1>8. WorkInv'
  BY <1>7, WorkLess DEF SteadyInv
<1>9. CalmInv'
  BY <1>1, <1>3 DEF SteadyInv, CalmInv, client, work, life
<1>10. \A e \in Ids : Steers(E[e], dn'[e]) /\ (e \notin Range(q) => dn'[e] = E[e])
  BY <1>1, <1>5, SteersSchedule
<1>11. \A e \in Ids \ {d} : Passed(e)
  BY <1>1, <1>5, <1>6, <1>7, <1>10 DEF Passed, Found
<1>12. Placed(d) /\ Found(d)'
  <2>1. ~Checking(d) /\ ~Reseeding(d) /\ asked[d] # "pause"
    BY <1>1 DEF Fresh, SteadyInv, Outside
  <2>2. Sound(dn'[d])
    BY <1>4, <1>5, <1>10 DEF Steers
  <2>3. Found(d)'
    BY <1>1, <1>6 DEF Found
  <2>4. Steady(d)'
    BY <1>1, <1>7, <2>1, <2>2 DEF Steady
  <2> QED BY <1>1, <2>3, <2>4 DEF Placed
<1> QED BY <1>8, <1>9, <1>11, <1>12, SteadyStep

\* One that is taken out is marked as gone.
LEMMA SteadyDrop ==
  ASSUME TypeInv, Once, SteadyInv, NEW i \in DOMAIN items, NEW ok \in BOOLEAN,
         Discard(i, ok) \/ StopAndWait(i, ok)
  PROVE  SteadyInv' /\ FinishedKept
<1> USE TypeFacts, GenFacts
<1>. PICK d \in Ids : d = items[i]
  OBVIOUS
<1> DEFINE q == RemoveAt(items, i)
           E == [dn EXCEPT ![d] = Gone]
<1>1. SUFFICES ASSUME ok PROVE SteadyInv' /\ FinishedKept
  BY SteadyRefused DEF Discard, StopAndWait, Drop, work, life
<1>2. /\ UNCHANGED <<net, gen, booting, closing, spawned, passes, asked>>
      /\ items' = q /\ (dn' = E \/ dn' = Schedule(policy, q, E))
  BY <1>1 DEF Discard, StopAndWait, Drop, rules, client, life
<1>3. WorkShrinks
  BY <1>2 DEF TypeInv, TypeOK, Job, NoJob, Discard, StopAndWait, Drop, WorkShrinks
<1>4. q \in Seq(Ids) /\ Range(q) = Range(items) \ {d}
  BY RemoveOnce, <1>2, DropType DEF Once, Discard, StopAndWait
<1>5. E \in [Ids -> Download(Gens)] /\ E[d] = Gone /\ \A e \in Ids \ {d} : E[e] = dn[e]
  BY FreshType
<1>6. Gone.status = "failed"
  BY DEF Gone, Fresh
<1> HIDE DEF q, E
<1>7. \A g \in Gens : ~passes'[g].live
  BY <1>2 DEF SteadyInv, WorkInv
<1>8. /\ WorkInv'
      /\ \A e \in Ids : (Checking(e)' => Checking(e)) /\ (Reseeding(e)' => Reseeding(e))
  BY <1>2, <1>3, <1>7, WorkLess DEF SteadyInv
<1>9. CalmInv'
  BY <1>2 DEF SteadyInv, CalmInv
<1>10. \A e \in Ids : Steers(E[e], dn'[e]) /\ (e \notin Range(q) => dn'[e] = E[e])
  BY <1>2, <1>4, <1>5, SteersSchedule DEF Steers
<1>11. ~Found(d)' /\ dn'[d].status = "failed"
  BY <1>2, <1>4, <1>5, <1>6, <1>10 DEF Found
<1>12. \A e \in Ids \ {d} : Passed(e)
  BY <1>2, <1>4, <1>5, <1>8, <1>10 DEF Passed, Found
<1> QED BY <1>8, <1>9, <1>11, <1>12, SteadyStep

\* The requests of the user.  Every download that is not finished has its torrent, so
\* none is reattached.
LEMMA SteadyRequests ==
  ASSUME TypeInv, Once, SteadyInv, Undisturbed, NEW ok \in BOOLEAN, Requests(ok)
  PROVE  SteadyInv' /\ FinishedKept
<1> USE TypeFacts, GenFacts
<1>0. \A d \in Ids : dn[d] \in Download(Gens)
  OBVIOUS
<1>1. ASSUME NEW d \in Ids, Pause(d, ok) PROVE SteadyInv' /\ FinishedKept
  <2> DEFINE r == Gated([dn[d] EXCEPT !.status = "paused"])
  <2>1. r \in Download(Gens) /\ r.status = "paused" /\ r.engine = dn[d].engine /\ ~r.dl /\ ~r.ul
    <3>1. [dn[d] EXCEPT !.status = "paused"] \in Download(Gens)
      BY <1>0, StatusType DEF Statuses
    <3>2. r.status = "paused" /\ r.engine = dn[d].engine /\ ~r.dl /\ ~r.ul
      BY <1>0 DEF Gated, Download
    <3> QED BY <3>1, <3>2, RecordTypes
  <2>2. SUFFICES ASSUME ok PROVE SteadyInv' /\ FinishedKept
    BY <1>1, SteadyRefused DEF Pause, Commit
  <2>3. /\ Found(d) /\ dn' = Schedule(policy, items, [dn EXCEPT ![d] = r])
        /\ dn[d].status \in {"downloading", "queued"} /\ UNCHANGED items
        /\ asked' = [asked EXCEPT ![d] = "pause"]
        /\ UNCHANGED <<rules, work, client, life>>
    BY <1>1, <2>2 DEF Pause, Commit
  <2> HIDE DEF r
  <2>4. ~Checking(d)' /\ ~Reseeding(d)' /\ Sound(r)
    BY <2>1, <2>3, IdleWhen, SteadySame DEF Sound
  <2>5. \A e \in Ids \ {d} : asked'[e] = asked[e]
    BY <2>3 DEF TypeInv, TypeOK
  <2>6. dn[d].status # "completed"
    BY <2>3
  <2> QED BY <2>1, <2>3, <2>4, <2>5, <2>6, SteadyOne, SteadySame
<1>2. ASSUME NEW d \in Ids, Resume(d, ok) PROVE SteadyInv' /\ FinishedKept
  <2> DEFINE r == [dn[d] EXCEPT !.status = "queued"]
  <2>1. /\ r \in Download(Gens) /\ r.status = "queued" /\ r.engine = dn[d].engine
        /\ r.dl = dn[d].dl /\ r.ul = dn[d].ul
    <3>1. r \in Download(Gens)
      BY <1>0, StatusType DEF Statuses
    <3> QED BY <1>0, <3>1 DEF Download
  <2>2. Found(d) /\ dn[d].status \in {"paused", "failed"}
    BY <1>2 DEF Resume
  <2>3. Sound(dn[d]) /\ dn[d].engine # 0 /\ ~Checking(d) /\ ~Reseeding(d)
    BY <2>2, IdleWhen DEF Sound
  <2>4. Commit(ok, [dn EXCEPT ![d].status = "queued"], dn)
    BY <1>2, <2>3 DEF Resume
  <2>5. SUFFICES ASSUME ok PROVE SteadyInv' /\ FinishedKept
    BY <1>2, <2>3, <2>4, SteadyRefused DEF Resume, Commit
  <2>6. /\ dn' = Schedule(policy, items, [dn EXCEPT ![d] = r])
        /\ UNCHANGED items /\ UNCHANGED <<rules, work, client, life>>
        /\ asked' = [asked EXCEPT ![d] = "run"]
    BY <1>2, <2>3, <2>4, <2>5 DEF Resume, Commit
  <2> HIDE DEF r
  <2>7. ~Checking(d)' /\ ~Reseeding(d)' /\ Sound(r)
    BY <2>1, <2>2, <2>3, <2>6, SteadySame DEF Sound
  <2>8. asked'[d] # "pause" /\ \A e \in Ids \ {d} : asked'[e] = asked[e]
    BY <2>6 DEF TypeInv, TypeOK
  <2> QED BY <2>1, <2>2, <2>6, <2>7, <2>8, SteadyOne, SteadySame
<1>3. ASSUME NEW d \in Ids, ForceStart(d, ok) PROVE SteadyInv' /\ FinishedKept
  <2> DEFINE r == Forced(policy, dn[d])
  <2>1. Found(d) /\ dn[d].status \in {"queued", "paused", "failed"}
    BY <1>3 DEF ForceStart
  <2>2. dn[d].engine # 0 /\ ~Checking(d) /\ ~Reseeding(d)
    BY <2>1, IdleWhen DEF Sound
  <2>3. r \in Download(Gens) /\ r.status = "downloading" /\ r.engine = dn[d].engine
    <3>1. r \in Download(Gens)
      BY <1>0, RecordTypes
    <3>2. r.status = "downloading" /\ r.engine = dn[d].engine
      BY <1>0, <2>2 DEF Forced, Started, Download
    <3> QED BY <3>1, <3>2
  <2>4. CASE ~ok
    <3> DEFINE s == [dn[d] EXCEPT !.dl = r.dl, !.ul = r.ul]
    <3>1. /\ s \in Download(Gens) /\ s.status = dn[d].status /\ s.engine = dn[d].engine
      BY <1>0, <2>3 DEF Download
    <3>2. /\ dn' = [dn EXCEPT ![d] = s] /\ "persistFails" \in Events
          /\ UNCHANGED <<items, asked>> /\ UNCHANGED <<rules, work, client, life>>
      BY <1>3, <2>2, <2>4 DEF ForceStart, Persist
    <3> HIDE DEF s
    <3>3. Sound(s)
      BY <2>2, <3>1, <3>2 DEF Sound
    <3>4. /\ ~Checking(d)' /\ ~Reseeding(d)' /\ dn[d].status # "completed"
          /\ asked'[d] = "pause" => s.status = "paused"
      BY <2>1, <2>2, <3>1, <3>2, SteadySame DEF SteadyInv, Steady
    <3> QED BY <2>1, <3>1, <3>2, <3>3, <3>4, SteadyOne, SteadySame
  <2>5. SUFFICES ASSUME ok PROVE SteadyInv' /\ FinishedKept
    BY <2>4
  <2>6. /\ dn' = [dn EXCEPT ![d] = r]
        /\ UNCHANGED items /\ UNCHANGED <<rules, work, client, life>>
        /\ asked' = [asked EXCEPT ![d] = "run"]
    BY <1>3, <2>2, <2>5 DEF ForceStart
  <2> HIDE DEF r
  <2>7. ~Checking(d)' /\ ~Reseeding(d)' /\ Sound(r)
    BY <2>2, <2>3, <2>6, SteadySame DEF Sound
  <2>8. asked'[d] # "pause" /\ \A e \in Ids \ {d} : asked'[e] = asked[e]
    BY <2>6 DEF TypeInv, TypeOK
  <2> QED BY <2>1, <2>3, <2>6, <2>7, <2>8, SteadyOne, SteadySame
<1>4. ASSUME NEW d \in Ids, DownloadNow(d, ok) PROVE SteadyInv' /\ FinishedKept
  <2> DEFINE r == [dn[d] EXCEPT !.ignore = TRUE]
             D == [dn EXCEPT ![d] = r]
             E == SyncPlay(policy, items, Busy(jobs), D)
  <2>1. r \in Download(Gens) /\ Steers(dn[d], r)
    <3>1. r \in Download(Gens)
      BY <1>0 DEF Download
    <3>2. /\ r.status = dn[d].status /\ r.engine = dn[d].engine /\ r.seeding = dn[d].seeding
          /\ r.dl = dn[d].dl /\ r.ul = dn[d].ul
      BY <1>0 DEF Download
    <3> HIDE DEF r
    <3>3. Steers(dn[d], r)
      BY <3>2 DEF Steers, Sound
    <3> QED BY <3>1, <3>3 DEF r
  <2>2. SUFFICES ASSUME ok PROVE SteadyInv' /\ FinishedKept
    BY <1>4, SteadyRefused DEF DownloadNow
  <2>3. /\ Found(d) /\ dn' = Schedule(policy, items, E)
        /\ UNCHANGED <<items, asked>> /\ UNCHANGED <<rules, work, client, life>>
    BY <1>4, <2>2 DEF DownloadNow
  <2> HIDE DEF r
  <2>4. D \in [Ids -> Download(Gens)] /\ D[d] = r /\ \A e \in Ids \ {d} : D[e] = dn[e]
    BY <2>1
  <2> HIDE DEF D
  <2>5. \A e \in Ids : Steers(dn[e], D[e]) /\ (~Found(e) => D[e] = dn[e])
    BY <2>1, <2>3, <2>4 DEF Steers
  <2>6. E \in [Ids -> Download(Gens)]
    BY <2>4, ListTypes
  <2>7. \A e \in Ids : Steers(D[e], E[e]) /\ (~Found(e) => E[e] = D[e])
    BY <2>4, SteersSync DEF Found
  <2> HIDE DEF E
  <2>8. \A e \in Ids : Steers(E[e], dn'[e]) /\ (~Found(e) => dn'[e] = E[e])
    BY <2>3, <2>6, SteersSchedule DEF Found
  <2>9. \A e \in Ids : Steers(dn[e], dn'[e]) /\ (~Found(e) => dn'[e] = dn[e])
    BY <2>5, <2>7, <2>8, SteersTwice
  <2> QED BY <2>3, <2>9, SteadyRules, SteadySame DEF Found
<1>5. ASSUME NEW d \in Ids, StopSeeding(d, ok) PROVE SteadyInv' /\ FinishedKept
  <2> DEFINE r == Detached([dn[d] EXCEPT !.seeding = FALSE])
  <2>1. /\ r \in Download(Gens) /\ r.status = dn[d].status /\ r.engine = 0
        /\ ~r.seeding /\ ~r.dl /\ ~r.ul
    BY <1>0 DEF Detached, Download
  <2>2. SUFFICES ASSUME ok PROVE SteadyInv' /\ FinishedKept
    BY <1>5, SteadyRefused DEF StopSeeding
  <2>3. /\ Found(d) /\ dn[d].status = "completed"
        /\ dn' = dn \/ dn' = [dn EXCEPT ![d] = r]
        /\ UNCHANGED items /\ UNCHANGED <<rules, work, client, life>>
        /\ asked' = [asked EXCEPT ![d] = "stop"]
    BY <1>5, <2>2 DEF StopSeeding
  <2> HIDE DEF r
  <2>4. ~Checking(d)' /\ Sound(r)
    BY <2>1, <2>3, IdleWhen, SteadySame DEF Sound
  <2>5. asked'[d] # "pause" /\ \A e \in Ids \ {d} : asked'[e] = asked[e]
    BY <2>3 DEF TypeInv, TypeOK
  <2>6. CASE dn' = dn
    BY <2>3, <2>5, <2>6, SteadyRules, SteadySame DEF Steers, Found
  <2>7. CASE dn' = [dn EXCEPT ![d] = r]
    BY <2>1, <2>3, <2>4, <2>5, <2>7, SteadyOne, SteadySame
  <2> QED BY <2>3, <2>6, <2>7
<1>6. ASSUME NEW i \in DOMAIN items, NEW j \in DOMAIN items, Move(i, j, ok)
      PROVE  SteadyInv' /\ FinishedKept
  BY <1>6, SwapOnce, SteadyRules, SteadySame DEF Move, Once, Found, Steers
<1>7. ASSUME NEW d \in Ids, AddTask(d, ok) PROVE FALSE
  BY <1>7 DEF AddTask, Undisturbed
<1> QED BY <1>1, <1>2, <1>3, <1>4, <1>5, <1>6, <1>7, SteadyAdd, SteadyDrop DEF Requests

\* What happens around the manager.
LEMMA SteadyEnvironment ==
  ASSUME TypeInv, SteadyInv, Undisturbed, Environment
  PROVE  SteadyInv' /\ FinishedKept
<1> USE TypeFacts, GenFacts
<1>0. /\ \A d \in Ids : Steers(dn[d], dn[d])
      /\ \A g \in Gens : ~passes[g].live
  BY DEF Steers, SteadyInv, WorkInv
<1>1. ASSUME NEW d \in Ids, StopSeedingJob(d) PROVE SteadyInv' /\ FinishedKept
  <2>1. \A e \in Ids : jobs'[e] # NoJob =>
          jobs[e] # NoJob /\ jobs'[e].req = jobs[e].req /\ jobs'[e].phase = jobs[e].phase
    BY <1>1 DEF StopSeedingJob, TypeInv, TypeOK, Job, NoJob
  <2>2. UNCHANGED <<items, dn, asked, spawned, passes, net, gen, booting, closing>>
    BY <1>1 DEF StopSeedingJob, list, client, life
  <2>3. WorkShrinks
    BY <2>1, <2>2 DEF WorkShrinks
  <2> QED BY <1>0, <2>2, <2>3, SteadyRules DEF Found
<1>2. ASSUME NEW b \in BOOLEAN, SetGamesRunning(b) PROVE SteadyInv' /\ FinishedKept
  <2>1. /\ dn' = SyncPlay(policy', items, Busy(jobs), dn)
        /\ UNCHANGED <<items, asked, jobs, spawned, passes, net, gen, booting, closing>>
    BY <1>2 DEF SetGamesRunning, work, client, life
  <2>2. WorkShrinks
    BY <2>1 DEF WorkShrinks
  <2>3. \A d \in Ids : Steers(dn[d], dn'[d]) /\ (~Found(d) => dn'[d] = dn[d])
    BY <2>1, SteersSync DEF Found
  <2> QED BY <1>0, <2>1, <2>2, <2>3, SteadyRules DEF Found
<1>3. ASSUME NEW c \in Configs, SaveSettings(c) PROVE SteadyInv' /\ FinishedKept
  <2>1. UNCHANGED <<items, dn, asked, jobs, spawned, passes, net, gen, booting, closing>>
    BY <1>3 DEF SaveSettings, list, work, client, life
  <2>2. WorkShrinks
    BY <2>1 DEF WorkShrinks
  <2> QED BY <1>0, <2>1, <2>2, SteadyRules DEF Found
<1> QED BY <1>1, <1>2, <1>3 DEF Environment, Undisturbed, WriteError, SwitchNetwork, Close, Crash

\* A request is for one download.
LEMMA NewRequest ==
  ASSUME NEW d
  PROVE  /\ Req(d, "verify").id = d /\ Req(d, "verify").kind = "verify"
         /\ Reseed(d).id = d /\ Reseed(d).kind = "restore" /\ Reseed(d).pass = NoPass
         /\ Reseed(d).complete /\ Req(d, "verify").pass = NoPass
BY DEF Req, Reseed

\* Work is added for downloads of the list that have none.
LEMMA WorkGrows ==
  ASSUME TypeInv, WorkInv, NEW new \in SUBSET Ids, UNCHANGED <<jobs, gen, passes>>,
         \A d \in new : jobs[d] = NoJob,
         \/ spawned' = spawned \cup {Req(d, "verify") : d \in new}
         \/ spawned' = spawned \cup {Reseed(d) : d \in new}
  PROVE  /\ WorkInv'
         /\ \A d \in Ids \ new : /\ Checking(d)' => Checking(d)
                                 /\ Reseeding(d)' => Reseeding(d)
<1>1. \A r \in spawned' \ spawned :
        r.id \in new /\ r \in {Req(r.id, "verify"), Reseed(r.id)}
  BY NewRequest
<1>2. \A d : Req(d, "verify")' = Req(d, "verify") /\ Reseed(d)' = Reseed(d)
  BY DEF Req, Reseed
<1>3. \A r \in spawned' : jobs'[r.id] = NoJob /\ r \in {Req(r.id, "verify"), Reseed(r.id)}
  BY <1>1 DEF WorkInv
<1>4. WorkInv'
  BY <1>2, <1>3 DEF WorkInv
<1>5. ASSUME NEW d \in Ids \ new
      PROVE  (Checking(d)' => Checking(d)) /\ (Reseeding(d)' => Reseeding(d))
  BY <1>1 DEF Checking, Reseeding, At
<1> QED BY <1>4, <1>5

\* The sampler: what it sends to its check is a running download.
LEMMA SteadyTick ==
  ASSUME TypeInv, SteadyInv, NEW b \in BOOLEAN, NEW ok \in BOOLEAN, Tick(b, ok)
  PROVE  SteadyInv' /\ FinishedKept
<1> USE TypeFacts, GenFacts
<1> DEFINE turned == b # policy.blocked
           p  == [policy EXCEPT !.blocked = b]
           E  == SyncPlay(p, items, Busy(jobs), dn)
           D1 == IF turned THEN Schedule(p, items, E) ELSE dn
           done == Arrived(p, D1)
           D2 == [d \in Ids |-> IF d \in done
                                THEN [D1[d] EXCEPT !.status = "verifying"] ELSE D1[d]]
<1>1. /\ dn' = D2 /\ UNCHANGED <<items, asked, jobs, passes, net, gen, booting, closing>>
      /\ spawned' = spawned \cup {Req(d, "verify") : d \in done}
  BY DEF Tick, client, life
<1>2. p \in Policy
  BY DEF Policy
<1> HIDE DEF p
<1>3. E \in [Ids -> Download(Gens)]
      /\ \A d \in Ids : Steers(dn[d], E[d]) /\ (~Found(d) => E[d] = dn[d])
  BY <1>2, ListTypes, SteersSync DEF Found
<1> HIDE DEF E
<1>4. D1 \in [Ids -> Download(Gens)]
      /\ \A d \in Ids : Steers(dn[d], D1[d]) /\ (~Found(d) => D1[d] = dn[d])
  <2>1. \A d \in Ids : Steers(dn[d], dn[d])
    BY DEF Steers
  <2>2. Schedule(p, items, E) \in [Ids -> Download(Gens)]
    BY <1>2, <1>3, ListTypes
  <2>3. \A d \in Ids : /\ Steers(E[d], Schedule(p, items, E)[d])
                       /\ ~Found(d) => Schedule(p, items, E)[d] = E[d]
    BY <1>2, <1>3, SteersSchedule DEF Found
  <2> QED BY <1>3, <2>1, <2>2, <2>3, SteersTwice
<1> HIDE DEF D1
<1>5. \A d \in done : /\ d \in Ids /\ Found(d) /\ jobs[d] = NoJob
                      /\ D1[d].engine # 0 /\ D1[d].status = "downloading"
  BY <1>4 DEF Arrived, Found
<1>6. \A d \in Ids : dn'[d] = IF d \in done THEN [D1[d] EXCEPT !.status = "verifying"] ELSE D1[d]
  BY <1>1
<1> HIDE DEF done, D2
<1>7. /\ WorkInv'
      /\ \A d \in Ids \ done : (Checking(d)' => Checking(d)) /\ (Reseeding(d)' => Reseeding(d))
  BY <1>1, <1>5, WorkGrows DEF SteadyInv
<1>8. CalmInv'
  BY <1>1, <1>5 DEF Found, Range, SteadyInv, CalmInv
<1>9. \A d \in Ids \ done : Passed(d)
  BY <1>1, <1>4, <1>6, <1>7 DEF Passed, Found
<1>10. ASSUME NEW d \in done PROVE Found(d)' /\ Placed(d)
  <2> DEFINE s == [D1[d] EXCEPT !.status = "verifying"]
  <2>1. /\ s.status = "verifying" /\ s.engine = D1[d].engine
    BY <1>4, <1>5 DEF Download
  <2>2. dn'[d] = s
    BY <1>5, <1>6
  <2> HIDE DEF s
  <2>3. d \in Ids /\ Found(d) /\ Steady(d) /\ dn[d].status \in {"queued", "downloading"}
    BY <1>4, <1>5 DEF SteadyInv, Steers
  <2>4. ~Reseeding(d)' /\ asked'[d] # "pause"
    BY <1>1, <2>3, NewRequest DEF Steady, Reseeding, At
  <2>5. Sound(s)
    BY <1>5, <2>1 DEF Sound
  <2> QED BY <1>1, <2>1, <2>2, <2>3, <2>4, <2>5 DEF Placed, Steady, Found
<1> QED BY <1>7, <1>8, <1>9, <1>10, SteadyStep

\* applySettings: a reseed is asked for a finished download without a torrent.
LEMMA SteadyApplySettings ==
  ASSUME TypeInv, SteadyInv, NEW c \in Configs, NEW b \in BOOLEAN, NEW ok \in BOOLEAN,
         ApplySettings(c, b, ok)
  PROVE  SteadyInv' /\ FinishedKept
<1> USE TypeFacts, GenFacts
<1> DEFINE p  == [policy EXCEPT !.rate = c, !.blocked = b, !.max = c.max]
           turned == PlayHeld(p) # PlayHeld(policy) \/ b # policy.blocked
           D1 == IF turned THEN SyncPlay(p, items, Busy(jobs), dn) ELSE dn
           E  == [d \in Ids |-> IF Found(d) THEN Applied(c, p, jobs[d] # NoJob, D1[d])
                                ELSE D1[d]]
           new == {d \in Range(items) : HasClient /\ Reseeds(c, d) /\ jobs[d] = NoJob}
<1>1. /\ dn' = Schedule(p, items, E) /\ asked' = Unstopped
      /\ UNCHANGED <<items, jobs, passes, net, gen, booting, closing>>
  BY DEF ApplySettings, life
<1>2. spawned' = spawned \cup {Reseed(d) : d \in new}
  BY DEF SteadyInv, CalmInv, ApplySettings, Reseed
<1>3. c \in Config /\ p \in Policy
  BY ManagerConstants DEF Policy, Config
<1> HIDE DEF p
<1>4. D1 \in [Ids -> Download(Gens)]
      /\ \A d \in Ids : Steers(dn[d], D1[d]) /\ (~Found(d) => D1[d] = dn[d])
  BY <1>3, ListTypes, SteersSync DEF Steers, Found
<1> HIDE DEF D1
<1>5. E \in [Ids -> Download(Gens)]
      /\ \A d \in Ids : Steers(dn[d], E[d]) /\ (~Found(d) => E[d] = dn[d])
  <2>1. \A d \in Ids, x \in BOOLEAN : Applied(c, p, x, D1[d]) \in Download(Gens)
    BY <1>3, <1>4, AppliedType
  <2>2. \A d \in Ids : Found(d) => HasClient
    BY DEF SteadyInv, CalmInv, HasClient, Found, Range
  <2>3. ASSUME NEW d \in Ids, Found(d), NEW x \in BOOLEAN
        PROVE  Steers(D1[d], Applied(c, p, x, D1[d]))
    BY <1>4, <2>2, <2>3, SteersApplied
  <2>4. \A d \in Ids : E[d] = IF Found(d) THEN Applied(c, p, jobs[d] # NoJob, D1[d]) ELSE D1[d]
    OBVIOUS
  <2>5. E \in [Ids -> Download(Gens)]
    BY <1>4, <2>1
  <2> HIDE DEF E
  <2>6. ASSUME NEW d \in Ids PROVE Steers(dn[d], E[d]) /\ (~Found(d) => E[d] = dn[d])
    BY <1>4, <2>3, <2>4, SteersTwice
  <2> QED BY <2>5, <2>6
<1> HIDE DEF E
<1>6. \A d \in Ids : Steers(dn[d], dn'[d]) /\ (~Found(d) => dn'[d] = dn[d])
  BY <1>1, <1>3, <1>5, SteersSchedule, SteersTwice DEF Found
<1>7. \A d \in new : /\ d \in Ids /\ Found(d) /\ jobs[d] = NoJob /\ HasClient
                     /\ dn[d].status = "completed" /\ dn[d].engine = 0
  BY DEF Reseeds, Found
<1>8. \A d \in Ids : asked'[d] = "pause" => asked[d] = "pause"
  BY <1>1 DEF Unstopped
<1> HIDE DEF new
<1>9. /\ WorkInv'
      /\ \A d \in Ids \ new : (Checking(d)' => Checking(d)) /\ (Reseeding(d)' => Reseeding(d))
  BY <1>1, <1>2, <1>7, WorkGrows DEF SteadyInv
<1>10. CalmInv'
  BY <1>1, <1>2, <1>7 DEF Found, Range, SteadyInv, CalmInv
<1>11. \A d \in Ids \ new : Passed(d)
  BY <1>1, <1>6, <1>8, <1>9 DEF Passed, Found
<1>12. ASSUME NEW d \in new PROVE Found(d)' /\ Placed(d)
  <2>1. d \in Ids /\ Found(d) /\ Steady(d)
    BY <1>7 DEF SteadyInv
  <2>2. dn'[d].status = "completed" /\ dn'[d].engine = 0 /\ Sound(dn'[d])
    BY <1>6, <1>7, <2>1 DEF Steers, Steady
  <2>3. ~Checking(d)' /\ asked'[d] # "pause"
    BY <1>1, <1>2, <1>7, <1>8, <2>1, NewRequest DEF Steady, Checking, At
  <2> QED BY <1>1, <2>1, <2>2, <2>3 DEF Placed, Steady, Found
<1> QED BY <1>9, <1>10, <1>11, <1>12, SteadyStep

\* A job that goes on, to its end or to settle.
LEMMA JobShrinks ==
  ASSUME TypeInv, SteadyInv, NEW d \in Ids, jobs[d] # NoJob, NEW ph, Goes(d, ph),
         ph = "end" \/ (jobs[d].phase = "attach" /\ ph = "settle"),
         UNCHANGED <<spawned, passes>>
  PROVE  /\ WorkShrinks /\ \A g \in Gens : ~passes'[g].live
         /\ ph = "end" => ~Checking(d)' /\ ~Reseeding(d)'
<1>0. jobs \in [Ids -> Job \cup {NoJob}]
  BY DEF TypeInv, TypeOK
<1>1. jobs' = [jobs EXCEPT ![d] = [jobs[d] EXCEPT !.phase = ph]]
  BY DEF Goes
<1>2. /\ jobs'[d].req = jobs[d].req /\ jobs'[d].phase = ph
      /\ \A e \in Ids \ {d} : jobs'[e] = jobs[e]
  BY <1>0, <1>1, JobFacts DEF Job
<1>3. \A r \in spawned : r.id # d
  BY DEF SteadyInv, WorkInv
<1>4. WorkShrinks
  BY <1>2 DEF WorkShrinks
<1>5. ph = "end" => ~Checking(d)' /\ ~Reseeding(d)'
  BY <1>2, <1>3 DEF Checking, Reseeding, At
<1>6. \A g \in Gens : ~passes'[g].live
  BY DEF SteadyInv, WorkInv
<1> QED BY <1>4, <1>5, <1>6

\* The jobs: a reseed ends with the torrent or without, a check with a finished download or
\* with one that failed.
LEMMA SteadyJobs ==
  ASSUME TypeInv, SteadyInv, Undisturbed, NEW d \in Ids, NEW ok \in BOOLEAN, JobStep(d, ok)
  PROVE  SteadyInv' /\ FinishedKept
<1> USE TypeFacts, GenFacts
<1>0. /\ dn[d] \in Download(Gens) /\ jobs[d] # NoJob
      /\ jobs[d].req.pass = NoPass
      /\ jobs[d].phase \in {"attach", "settle", "hash", "end"}
      /\ jobs[d].phase \in {"attach", "settle"} => jobs[d].req.complete
  <2>1. jobs[d] # NoJob
    BY DEF JobStep, Attach, AttachFails, GotInfo, Settle, Check, VerifyPasses, VerifyFails,
           EndJob, At
  <2> QED BY <2>1 DEF SteadyInv, WorkInv
<1>1. UNCHANGED <<items, policy, asked, spawned, net, gen, booting, closing>>
  BY DEF JobStep, Attach, AttachFails, GotInfo, Settle, Check, VerifyPasses, VerifyFails,
         EndJob, list, rules, client, life
<1>2. ASSUME dn' = dn, WorkShrinks, \A g \in Gens : ~passes'[g].live
      PROVE  SteadyInv' /\ FinishedKept
  BY <1>1, <1>2, SteadyRules DEF Steers, Found
<1>3. ASSUME Goes(d, "end"), UNCHANGED passes, dn' = dn PROVE SteadyInv' /\ FinishedKept
  BY <1>0, <1>1, <1>2, <1>3, JobShrinks
<1>4. ASSUME Goes(d, "end"), UNCHANGED passes, Found(d), NEW r \in Download(Gens), Sound(r),
             dn[d].status # "paused", dn[d].status = "completed" => r.status = "completed",
             \/ dn' = [dn EXCEPT ![d] = r]
             \/ dn' = Schedule(policy, items, [dn EXCEPT ![d] = r])
      PROVE  SteadyInv' /\ FinishedKept
  BY <1>0, <1>1, <1>4, JobShrinks, SteadyOne DEF SteadyInv, Steady
<1>5. CASE Attach(d)
  BY <1>0, <1>1, <1>2, <1>5, JobShrinks DEF Attach, At, Undisturbed
<1>6. CASE AttachFails(d, ok)
  <2>1. /\ RestoreFailed(d, ok) /\ UNCHANGED passes /\ jobs[d].phase = "attach"
        /\ jobs[d].req.complete /\ Goes(d, "end")
    BY <1>0, <1>6 DEF AttachFails, At, RestoreFailed
  <2>2. CASE dn' = [dn EXCEPT ![d].seeding = FALSE] /\ Found(d)
    <3> DEFINE r == [dn[d] EXCEPT !.seeding = FALSE]
    <3>1. dn[d].status = "completed" /\ dn[d].engine = 0 /\ Sound(dn[d])
      BY <2>1, <2>2, <1>0 DEF SteadyInv, Steady, Reseeding, At
    <3>2. /\ r \in Download(Gens) /\ r.status = dn[d].status /\ ~r.seeding
          /\ r.dl = dn[d].dl /\ r.ul = dn[d].ul
      BY <1>0 DEF Download
    <3>3. dn' = [dn EXCEPT ![d] = r]
      BY <2>2
    <3> HIDE DEF r
    <3>4. Sound(r)
      BY <3>1, <3>2 DEF Sound
    <3> QED BY <1>4, <2>1, <2>2, <3>1, <3>2, <3>3, <3>4
  <2> QED BY <1>3, <2>1, <2>2 DEF RestoreFailed
<1>7. CASE GotInfo(d)
  BY <1>0, <1>7 DEF GotInfo, At
<1>8. CASE Settle(d, ok)
  <2>0. UNCHANGED passes /\ jobs[d].phase = "settle" /\ jobs[d].req.complete
    BY <1>0, <1>8 DEF Settle, At
  <2>1. CASE ~Superseded(d) /\ FinishSeed(d, ok)
    <3> DEFINE a == [Attached(dn[d], gen) EXCEPT !.seeding = policy.saved.seed]
               s == IF policy.saved.seed THEN AllowUpload(policy, a) ELSE Detached(a)
    <3>1. /\ Found(d) /\ Goes(d, "end") /\ dn' = [dn EXCEPT ![d] = s]
      BY <2>1 DEF FinishSeed, Superseded
    <3>2. dn[d].status = "completed"
      BY <1>0, <2>0, <3>1 DEF SteadyInv, Steady, Reseeding, At
    <3>3. gen # 0
      BY <3>1 DEF SteadyInv, CalmInv, Found, Range
    <3>4. s \in Download(Gens)
      <4>1. a \in Download(Gens)
        BY <1>0 DEF Attached, Download, Policy, Config
      <4> QED BY <4>1, RecordTypes
    <3>5. /\ s.status = dn[d].status /\ ~s.dl
          /\ s.seeding = policy.saved.seed
          /\ s.ul => policy.saved.seed
          /\ s.engine = IF policy.saved.seed THEN gen ELSE 0
      BY <1>0 DEF AllowUpload, Detached, Attached, Download
    <3> HIDE DEF s
    <3>6. Sound(s)
      BY <3>2, <3>3, <3>5 DEF Sound
    <3> QED BY <1>4, <2>0, <3>1, <3>2, <3>4, <3>5, <3>6
  <2>2. CASE dn' = dn /\ Goes(d, "end")
    BY <1>3, <2>0, <2>2
  <2> QED BY <1>8, <2>0, <2>1, <2>2 DEF Settle
<1>9. CASE Check(d, ok)
  BY <1>0, <1>9 DEF Check, At
<1>10. CASE VerifyPasses(d, ok)
  <2>0. /\ Goes(d, "end") /\ UNCHANGED passes /\ jobs[d].phase = "hash"
    BY <1>10 DEF VerifyPasses, At
  <2>1. CASE Found(d)
    <3> DEFINE r == Completed(dn[d])
    <3>1. dn[d].status = "verifying" /\ Sound(dn[d])
      BY <1>0, <2>0, <2>1 DEF SteadyInv, Steady, Checking, At
    <3>2. dn[d].engine # 0
      BY <3>1 DEF Sound
    <3>3. r \in Download(Gens)
      BY CompletedType
    <3>4. /\ r.status = "completed" /\ ~r.dl /\ (r.ul => r.seeding)
          /\ r.seeding => r.engine # 0
      BY <1>0, <3>2 DEF Completed, AllowUpload, Detached, Download
    <3>5. dn' = Schedule(policy, items, [dn EXCEPT ![d] = r])
      BY <1>10, <2>1 DEF VerifyPasses
    <3> HIDE DEF r
    <3>6. Sound(r)
      BY <3>4 DEF Sound
    <3> QED BY <1>4, <2>0, <2>1, <3>1, <3>3, <3>4, <3>5, <3>6
  <2>2. CASE ~Found(d)
    BY <1>3, <1>10, <2>0, <2>2 DEF VerifyPasses
  <2> QED BY <2>1, <2>2
<1>11. CASE VerifyFails(d, ok)
  <2>0. /\ Goes(d, "end") /\ UNCHANGED passes /\ jobs[d].phase = "hash"
        /\ dn' = dn \/ MarkFailed(d, ok)
    BY <1>11 DEF VerifyFails, At
  <2>1. CASE MarkFailed(d, ok) /\ Found(d)
    <3> DEFINE r == Gated([dn[d] EXCEPT !.status = "failed"])
    <3>1. dn[d].status = "verifying" /\ Sound(dn[d])
      BY <1>0, <2>0, <2>1 DEF SteadyInv, Steady, Checking, At
    <3>2. dn[d].engine # 0
      BY <3>1 DEF Sound
    <3>3. r \in Download(Gens)
      BY <1>0, StatusType, RecordTypes DEF Statuses
    <3>4. r.status = "failed" /\ ~r.dl /\ ~r.ul /\ r.engine = dn[d].engine
      BY <1>0 DEF Gated, Download
    <3>5. dn' = Schedule(policy, items, [dn EXCEPT ![d] = r])
      BY <2>1, <3>1 DEF MarkFailed, Failed
    <3> HIDE DEF r
    <3>6. Sound(r)
      BY <3>2, <3>4 DEF Sound
    <3> QED BY <1>4, <2>0, <2>1, <3>1, <3>3, <3>4, <3>5, <3>6
  <2>2. CASE MarkFailed(d, ok) /\ ~Found(d)
    BY <1>3, <2>0, <2>2 DEF MarkFailed
  <2> QED BY <1>3, <2>0, <2>1, <2>2
<1>12. CASE EndJob(d)
  <2>1. jobs'[d] = NoJob /\ \A e \in Ids \ {d} : jobs'[e] = jobs[e]
    BY <1>12 DEF EndJob, TypeInv, TypeOK
  <2>2. UNCHANGED passes /\ dn' = dn
    BY <1>0, <1>12 DEF EndJob, list
  <2>3. WorkShrinks /\ \A g \in Gens : ~passes'[g].live
    BY <1>1, <2>1, <2>2 DEF WorkShrinks, SteadyInv, WorkInv
  <2> QED BY <1>2, <2>2, <2>3
<1> QED BY <1>5, <1>6, <1>7, <1>8, <1>9, <1>10, <1>11, <1>12 DEF JobStep

\* A goroutine registers.  There is no other for the same download: a check and a reseed
\* are for downloads of different status.
LEMMA SteadyBegin ==
  ASSUME TypeInv, SteadyInv, NEW r \in spawned, Begin(r)
  PROVE  SteadyInv' /\ FinishedKept
<1> USE TypeFacts, GenFacts
<1> DEFINE d == r.id
<1>0. /\ r \in Request /\ d \in Ids /\ jobs \in [Ids -> Job \cup {NoJob}]
      /\ \A g \in Gens : ~passes[g].live
  BY DEF TypeInv, TypeOK, Request, SteadyInv, WorkInv
<1>1. /\ spawned' = spawned \ {r}
      /\ UNCHANGED <<items, dn, asked, passes, net, gen, booting, closing>>
  BY DEF Begin, list, client, life
<1>2. \A e \in Ids : Steers(dn[e], dn[e])
  BY DEF Steers
<1>3. CASE jobs' = jobs
  BY <1>0, <1>1, <1>2, <1>3, SteadyRules DEF WorkShrinks, Found
<1>4. CASE MayBegin(r) /\ jobs' = Begun(r)
  <2>1. Found(d) /\ jobs[d] = NoJob /\ Steady(d)
    BY <1>0, <1>4 DEF MayBegin, SteadyInv
  <2>2. r \in {Req(d, "verify"), Reseed(d)} /\ r.kind \in {"verify", "restore"} /\ r.pass = NoPass
        /\ (r.kind = "restore" => r.complete)
    BY NewRequest DEF SteadyInv, WorkInv, Req
  <2>3. \A s \in spawned' : s.id # d
    <3> SUFFICES ASSUME NEW s \in spawned', s.id = d PROVE FALSE
      OBVIOUS
    <3>1. s \in spawned /\ s # r /\ s \in {Req(d, "verify"), Reseed(d)}
      BY <1>1 DEF SteadyInv, WorkInv
    <3>2. Checking(d) /\ Reseeding(d)
      BY <2>2, <3>1, NewRequest DEF Checking, Reseeding
    <3> QED BY <2>1, <3>2 DEF Steady
  <2>4. /\ jobs'[d] # NoJob
        /\ jobs'[d].req = r /\ jobs'[d].phase = FirstPhase(r.kind)
        /\ \A e \in Ids \ {d} : jobs'[e] = jobs[e]
    BY <1>0, <1>4, <2>2 DEF Begun, FirstPhase, NoJob
  <2>5. /\ r.kind = "verify"  => FirstPhase(r.kind) = "hash"
        /\ r.kind = "restore" => FirstPhase(r.kind) = "attach"
    BY DEF FirstPhase
  <2>6. \A e : Req(e, "verify")' = Req(e, "verify") /\ Reseed(e)' = Reseed(e)
    BY <1>1 DEF Req, Reseed
  <2>7. WorkInv'
    <3>1. \A s \in spawned' : s.id \in Ids
      BY <1>1 DEF TypeInv, TypeOK, Request
    <3>2. \A s \in spawned' : jobs'[s.id] = NoJob /\ s \in {Req(s.id, "verify"), Reseed(s.id)}
      BY <1>1, <2>3, <2>4, <3>1 DEF SteadyInv, WorkInv
    <3>3. ASSUME NEW e \in Ids, jobs'[e] # NoJob
          PROVE  /\ jobs'[e].req.pass = NoPass
                 /\ jobs'[e].phase \in {"attach", "settle", "hash", "end"}
                 /\ jobs'[e].phase \in {"attach", "settle"} => jobs'[e].req.complete
      BY <2>2, <2>4, <2>5, <3>3 DEF SteadyInv, WorkInv
    <3> QED BY <1>0, <1>1, <2>6, <3>2, <3>3 DEF WorkInv
  <2>8. \A e \in Ids : (Checking(e)' => Checking(e)) /\ (Reseeding(e)' => Reseeding(e))
    BY <1>1, <2>2, <2>3, <2>4, <2>5 DEF Checking, Reseeding, At
  <2>9. CalmInv'
    BY <1>1 DEF SteadyInv, CalmInv
  <2>10. \A e \in Ids : Passed(e)
    BY <1>1, <1>2, <2>8 DEF Passed, Found
  <2> QED BY <2>7, <2>9, <2>10, SteadyStep
<1> QED BY <1>3, <1>4 DEF Begin

\* The client comes up over an empty list.
LEMMA SteadyBringUp ==
  ASSUME TypeInv, SteadyInv, BringUp
  PROVE  SteadyInv' /\ FinishedKept
<1> USE TypeFacts, GenFacts
<1>1. items = <<>> /\ spawned = {}
  BY DEF BringUp, SteadyInv, CalmInv
<1>2. Picked = {}
  BY <1>1 DEF Picked, Range
<1>3. /\ UNCHANGED <<items, dn, jobs, spawned, asked, passes, booting, closing>>
      /\ net' = "up" /\ gen' = gen + 1
  BY <1>2 DEF BringUp, list, life
<1>4. CalmInv'
  <2>1. gen \in Nat
    OBVIOUS
  <2>2. gen + 1 # 0
    BY <2>1
  <2> QED BY <1>3, <2>2 DEF SteadyInv, CalmInv
<1>5. WorkInv'
  BY <1>1, <1>3 DEF SteadyInv, WorkInv
<1>6. \A d \in Ids : Passed(d)
  BY <1>3 DEF Checking, Reseeding, At, Steers, Passed, Found
<1> QED BY <1>4, <1>5, <1>6, SteadyStep

\* What goes on in the background.
LEMMA SteadyBackground ==
  ASSUME TypeInv, SteadyInv, Undisturbed, NEW ok \in BOOLEAN, Background(ok)
  PROVE  SteadyInv' /\ FinishedKept
<1> USE TypeFacts, GenFacts
<1>0. \A g \in Gens : ~passes[g].live
  BY DEF SteadyInv, WorkInv
<1>1. ASSUME NEW d \in Ids, Transfer(d) PROVE SteadyInv' /\ FinishedKept
  <2> DEFINE r == [dn[d] EXCEPT !.have = TRUE]
  <2>1. /\ r.status = dn[d].status /\ r.engine = dn[d].engine /\ r.seeding = dn[d].seeding
        /\ r.dl = dn[d].dl /\ r.ul = dn[d].ul
    BY DEF Download
  <2>2. /\ UNCHANGED <<items, asked>> /\ UNCHANGED <<rules, work, client, life>>
        /\ dn' = [dn EXCEPT ![d] = r] /\ Found(d)
    BY <1>1 DEF Transfer
  <2> HIDE DEF r
  <2>3. Steers(dn[d], r)
    BY <2>1 DEF Steers, Sound
  <2>4. dn'[d] = r /\ \A e \in Ids \ {d} : dn'[e] = dn[e]
    BY <2>2
  <2>5. \A e \in Ids : Steers(dn[e], dn'[e]) /\ (~Found(e) => dn'[e] = dn[e])
    BY <2>2, <2>3, <2>4 DEF Steers
  <2> QED BY <2>2, <2>5, SteadyRules, SteadySame DEF Found
<1>2. ASSUME NEW r \in spawned, FailSpawned(r, ok) PROVE FALSE
  BY <1>2, NewRequest DEF FailSpawned, SteadyInv, WorkInv
<1>3. ASSUME NEW g \in Gens, PassStep(g, ok) PROVE FALSE
  BY <1>0, <1>3 DEF PassStep, PassSkip, PassBegin, PassEnd, PassAborts, NextInPass, PassIdle
<1>4. CASE RestoreStart \/ TeardownDetach \/ TeardownPark(ok) \/ TeardownDone \/ Quit(ok)
  BY <1>4 DEF RestoreStart, TeardownDetach, TeardownPark, TeardownDone, Quit, SteadyInv, CalmInv
<1> QED BY <1>1, <1>2, <1>3, <1>4, SteadyTick, SteadyApplySettings, SteadyJobs, SteadyBegin,
           SteadyBringUp DEF Background

LEMMA SteadyInit ==
  ASSUME Undisturbed, Init, net = "down"
  PROVE  SteadyInv
<1>1. /\ items = <<>> /\ spawned = {} /\ ~booting /\ ~closing
      /\ \A d \in Ids : jobs[d] = NoJob
      /\ \A g \in Gens : passes[g] = DeadPass
  BY DEF Init, Booted, Undisturbed
<1>2. \A d \in Ids : asked[d] = "pause" => dn[d].status = "paused"
  BY DEF Init, Booted, Loaded
<1>3. \A d \in Ids : ~Found(d) /\ Outside(d)
  BY <1>1, <1>2 DEF Found, Range, Outside, Checking, Reseeding, At
<1>4. CalmInv /\ WorkInv
  BY <1>1 DEF CalmInv, WorkInv, DeadPass
<1> QED BY <1>3, <1>4 DEF SteadyInv

LEMMA SteadyNext ==
  ASSUME TypeInv, Once, SteadyInv, Undisturbed, [Next]_vars
  PROVE  SteadyInv' /\ FinishedKept
<1>1. CASE UNCHANGED vars
  BY <1>1, SteadyRules, SteadySame DEF vars, list, Steers, Found
<1> QED BY <1>1, SteadyRequests, SteadyEnvironment, SteadyBackground DEF Next

LEMMA SteadyInvariant ==
  ASSUME Undisturbed
  PROVE  Spec /\ net = "down" => [](TypeInv /\ Once /\ SteadyInv)
<1>1. Init /\ net = "down" => SteadyInv
  BY SteadyInit
<1>2. TypeInv /\ Once /\ SteadyInv /\ [Next]_vars => SteadyInv'
  BY SteadyNext
<1> QED BY <1>1, <1>2, OnceInvariant, PTL DEF Spec

\* While the client stays up, no download is restored and no write fails, the gates of every
\* torrent are what the rules and the status of its download allow, and a finished download
\* shown as seeding has its torrent: however many downloads are added, paused, forced,
\* checked and taken out, and whatever games, schedule and settings do.
THEOREM GatesOfListFollowRules ==
  ASSUME Undisturbed, "persistFails" \notin Events
  PROVE  Spec /\ net = "down" => []GatesFollowRules
<1>1. TypeInv /\ SteadyInv /\ HeldInv /\ UploadInv => GatesMatchStatus /\ SeedingIsBacked
  <2> SUFFICES ASSUME TypeInv, SteadyInv, HeldInv, UploadInv
               PROVE  GatesMatchStatus /\ SeedingIsBacked
    OBVIOUS
  <2>1. \A d \in Ids : Found(d) => Sound(dn[d])
    BY DEF SteadyInv, Steady
  <2>2. \A d \in Ids : dn[d].dl \/ dn[d].ul => Found(d)
    BY DEF HeldInv, HeldClosed, Moves, UploadInv, UploadsOK, Found
  <2>3. GatesMatchStatus
    BY <2>1, <2>2 DEF GatesMatchStatus, Sound
  <2>4. SeedingIsBacked
    BY <2>1, TypeFacts DEF SeedingIsBacked, Seeds, Sound, Found
  <2> QED BY <2>3, <2>4
<1> QED BY <1>1, SteadyInvariant, HeldInvariant, HeldDownloadsStandStill, UploadInvariant,
           HeldDownloadsSendOnlyComplete, PTL DEF GatesFollowRules

\* While the client stays up and no download is restored, what is finished stays finished,
\* and what the user paused is neither queued nor started until the user says so, whatever
\* its check, the schedule, the settings, failing writes and the other downloads do.
THEOREM StatusOfListIsKept ==
  ASSUME Undisturbed
  PROVE  Spec /\ net = "down" => StatusIsKept
<1>1. TypeInv /\ Once /\ SteadyInv /\ [Next]_vars
      => [\A d \in Range(items) :
            dn[d].status = "completed" /\ d \in Range(items')
            => dn'[d].status = "completed"]_vars
  BY SteadyNext DEF FinishedKept
<1>2. TypeInv /\ TypeInv' /\ Once /\ SteadyInv /\ [Next]_vars
      => [\A d \in Range(items') :
            asked'[d] = "pause" => dn'[d].status \notin {"queued", "downloading"}]_vars
  <2> SUFFICES ASSUME TypeInv, TypeInv', Once, SteadyInv, [Next]_vars,
                      NEW d \in Range(items'), asked'[d] = "pause"
               PROVE  dn'[d].status \notin {"queued", "downloading"}
    OBVIOUS
  <2>1. d \in Ids /\ Found(d)'
    BY TypeFacts DEF Found, TypeInv, TypeOK, Range
  <2>2. Steady(d)'
    BY <2>1, SteadyNext DEF SteadyInv
  <2> QED BY <2>2 DEF Steady
<1> QED BY <1>1, <1>2, SteadyInvariant, PTL
        DEF Spec, StatusIsKept, FinishedStaysFinished, PauseIsKept
-----------------------------------------------------------------------------
(* NothingForgotten, while the settings stay as they are.  A client may be  *)
(* taken down and put up at any time: what is under way for a download was  *)
(* made for the present client, or is a completion check, or is awaited.    *)

\* A goroutine that beginJob does not refuse for its client.
Meant(r) == r.kind = "restore" => r.gen = gen

\* What the pass of the present client has left for d.
Coming(d) == passes[gen].req[d]

Waits(d) == dn[d].status \in {"queued", "downloading"} /\ dn[d].engine = 0

\* A restore job that is not the present client's is awaited by the teardown.
WorkOK(d) ==
  /\ \A r \in spawned : r.id = d =>
       r.kind \in {"restore", "verify"} /\ ~r.complete /\ r.pass = NoPass
  /\ \A g \in Gens : passes[g].req[d] # NoRequest =>
       /\ g # 0 /\ passes[g].live /\ passes[g].req[d].id = d
       /\ passes[g].req[d].gen = g /\ passes[g].req[d].pass = g
  /\ jobs[d] # NoJob =>
       IF jobs[d].req.kind = "verify"
       THEN jobs[d].phase \in {"hash", "end"} /\ jobs[d].req.pass = NoPass
       ELSE /\ jobs[d].req.kind = "restore"
            /\ jobs[d].phase \in {"attach", "settle", "check", "end"}
            /\ jobs[d].phase = "check" => ~jobs[d].req.complete
            /\ jobs[d].req.pass \in {NoPass, jobs[d].req.gen}
            /\ jobs[d].req.gen # gen => d \in awaited /\ net \in {"parking", "draining"}

\* What the job of a listed download will do, or has done.
JobMinds(d) ==
  LET j == jobs[d]
  IN  /\ j.cancelled => d \in awaited /\ net = "draining"
      /\ j.req.kind = "restore" /\ j.req.complete => dn[d].status = "completed"
      /\ j.phase = "check" /\ j.req.gen = gen => dn[d].engine # 0
      /\ j.phase = "end" =>
           IF j.req.kind = "verify" THEN dn[d].status = "completed" \/ d \in awaited
           ELSE j.req.gen = gen => dn[d].status # "verifying" /\ ~(net = "up" /\ Waits(d))

\* A listed download is in hand: a check that is shown is being made, what waits for a
\* torrent is in the present pass or a job, or will be when the client is up again.
Minded(d) ==
  /\ dn[d].status # "metadata"
  /\ jobs[d] # NoJob => JobMinds(d)
  /\ dn[d].status = "verifying" =>
       /\ net \notin {"draining", "down"}
       /\ net = "parking" \/ jobs[d] # NoJob \/ \E r \in spawned : r.id = d /\ Meant(r)
  /\ net = "up" /\ Waits(d) => jobs[d] # NoJob \/ Coming(d) # NoRequest
  /\ net \in {"parking", "draining", "down"}
       /\ dn[d].status \in {"queued", "downloading", "verifying"}
     => resume.all \/ resume.ids[d].listed
  /\ Coming(d) # NoRequest /\ Coming(d).complete =>
       /\ dn[d].status = "completed"
       /\ \A r \in spawned : r.id = d => r.kind = "verify" \/ r.gen # gen
       /\ jobs[d] # NoJob => \/ jobs[d].req.kind = "verify" \/ jobs[d].req.complete
                             \/ jobs[d].req.gen # gen

\* Nothing is under way for d.
Untouched(d) ==
  jobs[d] = NoJob /\ (\A r \in spawned : r.id # d) /\ Coming(d) = NoRequest

InHand(d) ==
  /\ WorkOK(d)
  /\ IF Found(d) THEN Minded(d) ELSE dn[d].status = "failed" \/ Untouched(d)

\* The settings are those of the start, and only a teardown waits for jobs.
Unchanged ==
  /\ ~booting /\ ~closing /\ notices = {} /\ policy.saved \in Configs
  /\ net \in {"up", "switching", "down"} => awaited = {}

PlanInv == Unchanged /\ \A d \in Ids : InHand(d)

\* The requests and faults that are left out, and that nobody changes the settings.
Untroubled ==
  /\ Events \cap {"addTask", "crash", "close", "noMetainfo", "writeError", "verifyFails",
                  "stopSeeding"} = {}
  /\ \A c, e \in Configs : c = e

\* What the rules do to a record.
Follows(r, s) ==
  /\ s.engine = r.engine
  /\ s.status = r.status \/ (r.status = "queued" /\ s.status = "downloading")

\* A step that is not about d.
HandKept(d) ==
  /\ jobs'[d] = jobs[d] /\ (d \in awaited' <=> d \in awaited)
  /\ \A r \in Request : r.id = d => (r \in spawned' <=> r \in spawned)
  /\ \A g \in Gens : passes'[g].req[d] # NoRequest =>
       passes'[g].live /\ passes'[g].req[d] = passes[g].req[d]
  /\ Coming(d)' = Coming(d)
  /\ resume'.all = resume.all /\ resume'.ids[d].listed = resume.ids[d].listed

Spared(d) == HandKept(d) /\ (Found(d)' <=> Found(d)) /\ Follows(dn[d], dn'[d])

LEMMA SparedInHand ==
  ASSUME TypeInv, TypeInv', PlanInv, UNCHANGED <<net, gen>>, NEW d \in Ids, Spared(d)
  PROVE  InHand(d)'
<1>0. spawned \subseteq Request /\ spawned' \subseteq Request
  BY DEF TypeInv, TypeOK
<1>1. /\ \A r \in spawned' : r.id = d => r \in spawned
      /\ \A r \in spawned : r.id = d => r \in spawned'
  BY <1>0 DEF Spared, HandKept
<1>2. InHand(d) /\ \A r : Meant(r)' <=> Meant(r)
  BY DEF PlanInv, Meant
<1>3. WorkOK(d)'
  BY <1>1, <1>2 DEF InHand, WorkOK, Spared, HandKept
<1>4. CASE Found(d)
  <2>1. Minded(d)
    BY <1>2, <1>4 DEF InHand
  <2>2. jobs'[d] # NoJob => JobMinds(d)'
    BY <2>1 DEF Minded, JobMinds, Spared, HandKept, Follows, Waits
  <2>3. Waits(d)' => Waits(d)
    BY DEF Waits, Spared, Follows
  <2>4. dn'[d].status = "verifying" =>
          /\ net \notin {"draining", "down"}
          /\ net = "parking" \/ jobs'[d] # NoJob \/ \E r \in spawned' : r.id = d /\ Meant(r)'
    BY <1>1, <1>2, <2>1 DEF Minded, Spared, HandKept, Follows
  <2>5. Minded(d)'
    BY <1>1, <2>1, <2>2, <2>3, <2>4 DEF Minded, Spared, HandKept, Follows
  <2> QED BY <1>3, <1>4, <2>5 DEF InHand, Spared
<1>5. CASE ~Found(d)
  BY <1>1, <1>2, <1>3, <1>5 DEF InHand, Untouched, Spared, HandKept, Follows
<1> QED BY <1>4, <1>5

LEMMA PlanStep ==
  ASSUME TypeInv, TypeInv', PlanInv, UNCHANGED <<net, gen>>, Unchanged',
         \A d \in Ids : Spared(d) \/ InHand(d)'
  PROVE  PlanInv'
BY SparedInHand DEF PlanInv

LEMMA FollowsRules ==
  ASSUME NEW p, NEW q, NEW busy, NEW D \in [Ids -> Download(Gens)], NEW d \in Ids
  PROVE  Follows(D[d], Schedule(p, q, D)[d]) /\ Follows(D[d], SyncPlay(p, q, busy, D)[d])
<1>1. \A i \in Chosen(p, q, D) : i \in DOMAIN q /\ D[q[i]].status = "queued"
  BY DEF Chosen, MayStart
<1>2. Started(p, D[d]).engine = D[d].engine /\ Started(p, D[d]).status = "downloading"
  BY DEF Started, Download
<1>3. Schedule(p, q, D)[d] = D[d]
      \/ (D[d].status = "queued" /\ Schedule(p, q, D)[d] = Started(p, D[d]))
  BY <1>1 DEF Schedule
<1> QED BY <1>2, <1>3, RulesKeepStatus DEF Follows

\* A step that puts r in the place of one download, and may schedule.
LEMMA FollowsOne ==
  ASSUME TypeInv, NEW d \in Ids, NEW r \in Download(Gens), NEW q,
         \/ dn' = [dn EXCEPT ![d] = r]
         \/ dn' = Schedule(policy, q, [dn EXCEPT ![d] = r])
  PROVE  Follows(r, dn'[d]) /\ \A e \in Ids \ {d} : Follows(dn[e], dn'[e])
<1> DEFINE E == [dn EXCEPT ![d] = r]
<1>1. E \in [Ids -> Download(Gens)] /\ E[d] = r /\ \A e \in Ids \ {d} : E[e] = dn[e]
  BY TypeFacts
<1> HIDE DEF E
<1>2. \A e \in Ids : Follows(E[e], E[e])
  BY DEF Follows
<1>3. \A e \in Ids : Follows(E[e], Schedule(policy, q, E)[e])
  BY <1>1, FollowsRules
<1> QED BY <1>1, <1>2, <1>3 DEF E

\* What a step leaves that touches no goroutine.
LEMMA HandSame ==
  ASSUME UNCHANGED <<jobs, awaited, spawned, passes, resume, gen>>, PlanInv
  PROVE  \A d \in Ids : HandKept(d)
BY DEF HandKept, Coming, PlanInv, InHand, WorkOK

\* A step that changes no record but by the rules.
LEMMA PlanRules ==
  ASSUME TypeInv, TypeInv', PlanInv, UNCHANGED <<net, gen>>, Unchanged',
         \A d \in Ids : HandKept(d),
         \A d \in Ids : (Found(d)' <=> Found(d)) /\ Follows(dn[d], dn'[d])
  PROVE  PlanInv'
BY PlanStep DEF Spared

PlanFacts == TypeInv /\ Once /\ ClientInv /\ UploadInv /\ PlanInv

\* What the parts of the invariant say of a listed download.
LEMMA HandFacts ==
  ASSUME PlanFacts, NEW d \in Ids
  PROVE  /\ InHand(d) /\ WorkOK(d) /\ Unchanged
         /\ Found(d) => Minded(d)
         /\ ~Found(d) => dn[d].status = "failed" \/ Untouched(d)
         /\ dn[d].engine # 0 => HasClient
         /\ HasClient => gen # 0
BY DEF PlanFacts, PlanInv, InHand, ClientInv, EnginesOK, UploadInv

\* A request that touches no goroutine.
LEMMA PlanQuiet ==
  ASSUME PlanFacts, UNCHANGED <<rules, work, client, life>>
  PROVE  /\ Unchanged' /\ UNCHANGED <<net, gen>>
         /\ UNCHANGED <<jobs, awaited, spawned, passes, resume, gen>>
         /\ \A d \in Ids : HandKept(d)
<1>1. UNCHANGED <<policy, notices, jobs, spawned, passes, booting, awaited, net, gen, resume,
                  closing>>
  BY DEF rules, work, client, life
<1> QED BY <1>1, HandSame DEF PlanFacts, PlanInv, Unchanged

LEMMA PlanRefused ==
  ASSUME PlanFacts, TypeInv', UNCHANGED <<items, rules, work, client, life>>,
         \A d \in Ids : Follows(dn[d], dn'[d])
  PROVE  PlanInv'
BY PlanQuiet, PlanRules DEF PlanFacts, Found

\* A request for a download that is not finished, which leaves it its torrent.
LEMMA PlanRecord ==
  ASSUME PlanFacts, TypeInv', UNCHANGED <<items, rules, work, client, life>>,
         NEW d \in Ids, Found(d), dn[d].status # "completed",
         NEW r \in Download(Gens), r.engine = dn[d].engine,
         r.status = "paused" \/ (r.status \in {"queued", "downloading"} /\ r.engine # 0),
         \/ dn' = [dn EXCEPT ![d] = r]
         \/ dn' = Schedule(policy, items, [dn EXCEPT ![d] = r])
  PROVE  PlanInv'
<1>1. Follows(r, dn'[d]) /\ \A e \in Ids \ {d} : Follows(dn[e], dn'[e])
  BY FollowsOne DEF PlanFacts
<1>2. \A e \in Ids \ {d} : Spared(e)
  BY <1>1, PlanQuiet DEF Spared, Found
<1>3. InHand(d)'
  <2>1. /\ WorkOK(d) /\ Minded(d) /\ dn'[d].engine = dn[d].engine
        /\ dn[d].engine # 0 => HasClient
        /\ UNCHANGED <<jobs, awaited, spawned, passes, resume, gen, net>>
    BY <1>1, HandFacts, PlanQuiet DEF Follows
  <2>2. WorkOK(d)' /\ (Coming(d)' = Coming(d)) /\ Found(d)'
    BY <2>1 DEF WorkOK, Coming, Found
  <2>3. \/ dn'[d].status = "paused"
        \/ dn'[d].status \in {"queued", "downloading"} /\ dn'[d].engine # 0 /\ HasClient
    BY <1>1, <2>1 DEF Follows
  <2>4. ~Waits(d)'
    BY <2>3 DEF Waits
  <2>5. jobs'[d] # NoJob => JobMinds(d)'
    BY <2>1, <2>3, <2>4 DEF Minded, JobMinds
  <2>6. Minded(d)'
    BY <2>1, <2>2, <2>3, <2>4, <2>5 DEF Minded, HasClient
  <2> QED BY <2>2, <2>6 DEF InHand
<1> QED BY <1>2, <1>3, PlanQuiet, PlanStep DEF PlanFacts

\* queueWhileDownLocked: the entry brings the download back with the client.
LEMMA PlanQueued ==
  ASSUME PlanFacts, TypeInv', NEW d \in Ids, Found(d), dn[d].status # "completed",
         NEW force, NEW ok \in BOOLEAN, QueueWhileDown(d, force, ok)
  PROVE  PlanInv'
<1> USE TypeFacts, GenFacts DEF PlanFacts
<1> DEFINE r == [dn[d] EXCEPT !.status = "queued"]
<1>0. /\ UNCHANGED <<items, policy, notices, jobs, spawned, passes, booting, awaited, net,
                     gen, closing>>
      /\ net # "up" /\ dn[d] \in Download(Gens)
  BY DEF QueueWhileDown, rules, work, life, Offline
<1>1. CASE ~ok
  BY <1>0, <1>1, PlanRefused DEF QueueWhileDown, client, Follows
<1>2. CASE ok
  <2>1. dn' = [dn EXCEPT ![d] = r] /\ resume' = Marked(resume, d, force)
    BY <1>2 DEF QueueWhileDown
  <2>2. dn'[d] = r /\ r.status = "queued" /\ r.engine = dn[d].engine
    BY <1>0, <2>1 DEF Download
  <2>3. /\ resume'.ids[d].listed
        /\ \A e \in Ids \ {d} : resume'.ids[e] = resume.ids[e] /\ dn'[e] = dn[e]
        /\ resume'.all = resume.all
    BY <2>1 DEF Marked, TypeInv, TypeOK, Resuming
  <2>4. \A e \in Ids \ {d} : Spared(e)
    BY <1>0, <2>3, HandFacts DEF Spared, HandKept, Coming, WorkOK, Follows, Found
  <2>5. InHand(d)'
    <3>1. WorkOK(d) /\ Minded(d)
      BY HandFacts
    <3>2. WorkOK(d)' /\ (Coming(d)' = Coming(d)) /\ Found(d)'
      BY <1>0, <3>1 DEF WorkOK, Coming, Found
    <3>3. dn'[d].engine = dn[d].engine /\ dn'[d].status = "queued"
      BY <2>2
    <3> HIDE DEF r
    <3>4. jobs'[d] # NoJob => JobMinds(d)'
      BY <1>0, <3>1, <3>3 DEF Minded, JobMinds
    <3>5. Minded(d)'
      BY <1>0, <2>3, <3>1, <3>2, <3>3, <3>4 DEF Minded
    <3> QED BY <3>2, <3>5 DEF InHand
  <2> QED BY <1>0, <2>4, <2>5, PlanStep DEF PlanInv, Unchanged
<1> QED BY <1>1, <1>2

\* reattachLocked
LEMMA PlanReattach ==
  ASSUME PlanFacts, TypeInv', NEW d \in Ids, Found(d), dn[d].status # "completed",
         NEW force \in BOOLEAN, NEW ok \in BOOLEAN, Reattach(d, force, ok)
  PROVE  PlanInv'
<1> USE TypeFacts, GenFacts DEF PlanFacts
<1> DEFINE r == [dn[d] EXCEPT !.status = "verifying"]
<1> PICK x : x = [Req(d, "restore") EXCEPT !.force = force]
  OBVIOUS
<1>0. /\ UNCHANGED <<items, policy, notices, jobs, passes, booting, awaited, net, gen, resume,
                     closing>>
      /\ net = "up" /\ jobs[d] = NoJob /\ dn[d] \in Download(Gens)
  BY DEF Reattach, rules, client, life, Offline
<1>1. CASE ~ok
  BY <1>0, <1>1, PlanRefused DEF Reattach, work, Follows
<1>2. CASE ok
  <2>1. dn' = [dn EXCEPT ![d] = r] /\ spawned' = spawned \cup {x}
    BY <1>2 DEF Reattach
  <2>2. /\ x.id = d /\ x.kind = "restore" /\ x.gen = gen /\ ~x.complete /\ x.pass = NoPass
    BY DEF Req
  <2>3. ASSUME NEW e \in Ids \ {d} PROVE Spared(e)
    <3>1. HandKept(e)
      <4>1. WorkOK(e) /\ \A s : s.id = e => (s \in spawned' <=> s \in spawned)
        BY <2>1, <2>2, HandFacts
      <4> QED BY <1>0, <4>1 DEF HandKept, Coming, WorkOK
    <3>2. dn'[e] = dn[e]
      BY <2>1
    <3> QED BY <1>0, <3>1, <3>2 DEF Spared, Follows, Found
  <2>4. InHand(d)'
    <3>1. WorkOK(d) /\ Minded(d)
      BY HandFacts
    <3>2. WorkOK(d)' /\ (Coming(d)' = Coming(d)) /\ Found(d)' /\ Meant(x)'
      BY <1>0, <2>1, <2>2, <3>1 DEF WorkOK, Coming, Found, Meant
    <3>3. dn'[d].status = "verifying"
      BY <1>0, <2>1 DEF Download
    <3>4. Minded(d)'
      BY <1>0, <2>1, <2>2, <3>1, <3>2, <3>3 DEF Minded, Waits
    <3> QED BY <3>2, <3>4 DEF InHand
  <2> QED BY <1>0, <2>3, <2>4, PlanStep DEF PlanInv, Unchanged
<1> QED BY <1>1, <1>2

LEMMA NewStatus ==
  ASSUME NEW r \in Download(Gens), NEW s \in Statuses
  PROVE  /\ [r EXCEPT !.status = s] \in Download(Gens)
         /\ [r EXCEPT !.status = s].status = s /\ [r EXCEPT !.status = s].engine = r.engine
<1>1. [r EXCEPT !.status = s].status = s
  BY DEF Download
<1> QED BY <1>1, StatusType

LEMMA PlanAdd ==
  ASSUME PlanFacts, TypeInv', NEW d \in Ids, NEW ok \in BOOLEAN, Add(d, ok)
  PROVE  PlanInv'
<1> USE TypeFacts, GenFacts DEF PlanFacts
<1> DEFINE r == Attached(dn[d], gen)
<1>0. CASE ~ok
  BY <1>0, PlanRefused DEF Add, Follows
<1>1. CASE ok
  <2>1. /\ ~Found(d) /\ dn[d] = Fresh /\ HasClient /\ items' = Append(items, d)
        /\ dn' = Schedule(policy, items', [dn EXCEPT ![d] = r])
        /\ UNCHANGED <<rules, work, client, life>>
    BY <1>1 DEF Add
  <2>2. r \in Download(Gens) /\ r.status = "queued" /\ r.engine = gen
    <3>1. r \in Download(Gens)
      BY RecordTypes
    <3> QED BY <2>1, <3>1 DEF Attached, Fresh
  <2> HIDE DEF r
  <2>3. Range(items') = Range(items) \cup {d}
    BY <2>1, AppendProperties DEF Range
  <2>4. Follows(r, dn'[d]) /\ \A e \in Ids \ {d} : Follows(dn[e], dn'[e])
    BY <2>1, <2>2, FollowsOne
  <2>5. \A e \in Ids \ {d} : Spared(e)
    BY <2>1, <2>3, <2>4, PlanQuiet DEF Spared, Found
  <2>6. InHand(d)'
    <3>1. dn[d].status = "queued"
      BY <2>1 DEF Fresh
    <3>2. Untouched(d) /\ WorkOK(d) /\ gen # 0
      BY <2>1, <3>1, HandFacts
    <3>3. UNCHANGED <<jobs, awaited, spawned, passes, gen, net>>
      BY <2>1, PlanQuiet
    <3>4. WorkOK(d)' /\ (Coming(d)' = Coming(d)) /\ Found(d)'
      BY <2>3, <3>2, <3>3 DEF WorkOK, Coming, Found
    <3>5. dn'[d].status \in {"queued", "downloading"} /\ dn'[d].engine # 0
      BY <2>2, <2>4, <3>2 DEF Follows
    <3>6. Minded(d)'
      BY <2>1, <3>2, <3>3, <3>4, <3>5 DEF Minded, Untouched, Waits, HasClient
    <3> QED BY <3>4, <3>6 DEF InHand
  <2> QED BY <2>1, <2>5, <2>6, PlanQuiet, PlanStep
<1> QED BY <1>0, <1>1

LEMMA PlanDrop ==
  ASSUME PlanFacts, TypeInv', NEW i \in DOMAIN items, NEW ok \in BOOLEAN,
         Discard(i, ok) \/ StopAndWait(i, ok)
  PROVE  PlanInv'
<1> USE TypeFacts, GenFacts DEF PlanFacts
<1> PICK d \in Ids : d = items[i]
  OBVIOUS
<1>0. CASE ~ok
  BY <1>0, PlanRefused DEF Discard, StopAndWait, Drop, Follows, work
<1>1. CASE ok
  <2>1. /\ items' = RemoveAt(items, i)
        /\ dn' = [dn EXCEPT ![d] = Gone] \/ dn' = Schedule(policy, items', [dn EXCEPT ![d] = Gone])
        /\ UNCHANGED <<policy, notices, spawned, passes, booting, awaited, net, gen, resume,
                       closing>>
        /\ jobs' = IF jobs[d] # NoJob THEN [jobs EXCEPT ![d].cancelled = TRUE] ELSE jobs
    BY <1>1 DEF Discard, StopAndWait, Drop, rules, client, life
  <2>2. Range(items') = Range(items) \ {d}
    BY <2>1, RemoveOnce DEF Once
  <2>3. Follows(Gone, dn'[d]) /\ \A e \in Ids \ {d} : Follows(dn[e], dn'[e])
    BY <2>1, FreshType, FollowsOne
  <2>4. ASSUME NEW e \in Ids \ {d} PROVE Spared(e)
    <3>1. jobs'[e] = jobs[e]
      BY <2>1 DEF TypeInv, TypeOK
    <3>2. HandKept(e)
      BY <2>1, <3>1, HandFacts DEF HandKept, Coming, WorkOK
    <3> QED BY <2>2, <2>3, <3>2 DEF Spared, Found
  <2>5. InHand(d)'
    <3>1. jobs'[d] # NoJob => /\ jobs[d] # NoJob /\ jobs'[d].req = jobs[d].req
                              /\ jobs'[d].phase = jobs[d].phase
      BY <2>1 DEF TypeInv, TypeOK, Job
    <3>2. WorkOK(d)'
      BY <2>1, <3>1, HandFacts DEF WorkOK
    <3>3. dn'[d].status = "failed" /\ ~Found(d)'
      BY <2>2, <2>3 DEF Follows, Gone, Fresh, Found
    <3> QED BY <3>2, <3>3 DEF InHand
  <2> QED BY <2>1, <2>4, <2>5, PlanStep DEF PlanInv, Unchanged
<1> QED BY <1>0, <1>1

LEMMA PlanRequests ==
  ASSUME PlanFacts, TypeInv', Untroubled, NEW ok \in BOOLEAN, Requests(ok)
  PROVE  PlanInv'
<1> USE TypeFacts, GenFacts DEF PlanFacts
<1>0. \A d \in Ids : dn[d] \in Download(Gens)
  OBVIOUS
<1>1. ASSUME NEW d \in Ids, Pause(d, ok) PROVE PlanInv'
  <2> DEFINE s == [dn[d] EXCEPT !.status = "paused"]
             r == Gated(s)
  <2>1. s \in Download(Gens) /\ s.status = "paused" /\ s.engine = dn[d].engine
    BY <1>0, NewStatus DEF Statuses
  <2>2. r \in Download(Gens) /\ r.status = "paused" /\ r.engine = dn[d].engine
    BY <2>1, RecordTypes DEF Gated, Download
  <2>3. CASE ok
    <3>1. dn' = Schedule(policy, items, [dn EXCEPT ![d] = r])
      BY <1>1, <2>3 DEF Pause, Commit
    <3>2. Found(d) /\ dn[d].status # "completed" /\ UNCHANGED <<items, rules, work, client, life>>
      BY <1>1 DEF Pause
    <3> HIDE DEF r
    <3> QED BY <2>2, <3>1, <3>2, PlanRecord
  <2>4. CASE ~ok
    BY <1>1, <2>4, PlanRefused DEF Pause, Commit, Follows
  <2> QED BY <2>3, <2>4
<1>2. ASSUME NEW d \in Ids, Resume(d, ok) PROVE PlanInv'
  <2> DEFINE r == [dn[d] EXCEPT !.status = "queued"]
  <2>1. r \in Download(Gens) /\ r.status = "queued" /\ r.engine = dn[d].engine
    BY <1>0, NewStatus DEF Statuses
  <2>2. Found(d) /\ dn[d].status # "completed"
    BY <1>2 DEF Resume
  <2>3. CASE dn[d].engine # 0
    <3>1. /\ Commit(ok, [dn EXCEPT ![d] = r], dn)
          /\ UNCHANGED <<items, rules, work, client, life>>
      BY <1>2, <2>3 DEF Resume
    <3> HIDE DEF r
    <3>2. CASE ok
      BY <2>1, <2>2, <2>3, <3>1, <3>2, PlanRecord DEF Commit
    <3>3. CASE ~ok
      BY <3>1, <3>3, PlanRefused DEF Commit, Follows
    <3> QED BY <3>2, <3>3
  <2>4. CASE QueueWhileDown(d, FALSE, ok)
    BY <2>2, <2>4, PlanQueued
  <2>5. CASE Reattach(d, FALSE, ok)
    BY <2>2, <2>5, PlanReattach
  <2> QED BY <1>2, <2>3, <2>4, <2>5 DEF Resume
<1>3. ASSUME NEW d \in Ids, ForceStart(d, ok) PROVE PlanInv'
  <2> DEFINE r == Forced(policy, dn[d])
  <2>1. Found(d) /\ dn[d].status # "completed"
    BY <1>3 DEF ForceStart
  <2>2. CASE dn[d].engine # 0
    <3>1. r \in Download(Gens) /\ r.status = "downloading" /\ r.engine = dn[d].engine
      <4>1. r \in Download(Gens)
        BY <1>0, RecordTypes
      <4>2. [dn[d] EXCEPT !.status = "queued"] \in Download(Gens)
            /\ [dn[d] EXCEPT !.status = "queued"].engine = dn[d].engine
        BY <1>0, NewStatus DEF Statuses
      <4> QED BY <2>2, <4>1, <4>2 DEF Forced, Started, Download
    <3>2. /\ dn' = IF ok THEN [dn EXCEPT ![d] = r]
                   ELSE [dn EXCEPT ![d].dl = r.dl, ![d].ul = r.ul]
          /\ UNCHANGED <<items, rules, work, client, life>>
      BY <1>3, <2>2 DEF ForceStart
    <3> HIDE DEF r
    <3>3. CASE ok
      BY <2>1, <2>2, <3>1, <3>2, <3>3, PlanRecord
    <3>4. CASE ~ok
      BY <1>0, <3>2, <3>4, PlanRefused DEF Download, Follows
    <3> QED BY <3>3, <3>4
  <2>3. CASE QueueWhileDown(d, TRUE, ok)
    BY <2>1, <2>3, PlanQueued
  <2>4. CASE Reattach(d, TRUE, ok)
    BY <2>1, <2>4, PlanReattach
  <2> QED BY <1>3, <2>2, <2>3, <2>4 DEF ForceStart
<1>4. ASSUME NEW d \in Ids, DownloadNow(d, ok) PROVE PlanInv'
  <2> DEFINE D == [dn EXCEPT ![d].ignore = TRUE]
             E == SyncPlay(policy, items, Busy(jobs), D)
  <2>1. D \in [Ids -> Download(Gens)] /\ \A e \in Ids : Follows(dn[e], D[e])
    BY <1>0 DEF Download, Follows
  <2>2. dn' = IF ok THEN Schedule(policy, items, E) ELSE dn
    BY <1>4 DEF DownloadNow
  <2>3. UNCHANGED <<items, rules, work, client, life>>
    BY <1>4 DEF DownloadNow
  <2> HIDE DEF D
  <2>4. E \in [Ids -> Download(Gens)] /\ \A e \in Ids : Follows(D[e], E[e])
    BY <2>1, ListTypes, FollowsRules
  <2> HIDE DEF E
  <2>5. \A e \in Ids : Follows(E[e], Schedule(policy, items, E)[e])
    BY <2>4, FollowsRules
  <2>6. \A e \in Ids : Follows(dn[e], dn'[e])
    BY <2>1, <2>2, <2>4, <2>5 DEF Follows
  <2> QED BY <2>3, <2>6, PlanRefused
<1>5. ASSUME NEW i \in DOMAIN items, NEW j \in DOMAIN items, Move(i, j, ok) PROVE PlanInv'
  BY <1>5, SwapOnce, PlanQuiet, PlanRules DEF Move, Once, Follows, Found
<1> QED BY <1>1, <1>2, <1>3, <1>4, <1>5, PlanAdd, PlanDrop
        DEF Requests, Untroubled, AddTask, StopSeeding

LEMMA PlanEnvironment ==
  ASSUME PlanFacts, TypeInv', Untroubled, Environment
  PROVE  PlanInv'
<1> USE TypeFacts, GenFacts DEF PlanFacts
<1>1. ASSUME NEW b \in BOOLEAN, SetGamesRunning(b) PROVE PlanInv'
  <2>1. /\ dn' = SyncPlay(policy', items, Busy(jobs), dn)
        /\ policy' = [policy EXCEPT !.gaming = b]
        /\ UNCHANGED <<items, notices, jobs, spawned, passes, booting, awaited, net, gen,
                       resume, closing>>
    BY <1>1 DEF SetGamesRunning, work, client, life
  <2>2. Unchanged'
    BY <2>1 DEF PlanInv, Unchanged, Policy
  <2> QED BY <2>1, <2>2, HandSame, FollowsRules, PlanRules DEF Found
<1>2. ASSUME NEW c \in Configs, SaveSettings(c) PROVE FALSE
  BY <1>2 DEF SaveSettings, PlanInv, Unchanged, Untroubled
<1>3. ASSUME SwitchNetwork PROVE PlanInv'
  <2>1. /\ UNCHANGED <<items, dn, policy, notices, jobs, spawned, passes, booting, awaited,
                       gen, resume, closing>>
        /\ net = "up" /\ net' = "switching"
    BY <1>3 DEF SwitchNetwork, list, rules, work, life
  <2>2. ASSUME NEW d \in Ids PROVE InHand(d)'
    <3>1. InHand(d) /\ WorkOK(d)' /\ (Coming(d)' = Coming(d)) /\ (Found(d)' <=> Found(d))
      BY <2>1, HandFacts DEF WorkOK, Coming, Found
    <3>2. Minded(d) => Minded(d)'
      BY <2>1, <3>1 DEF Minded, JobMinds, Meant
    <3>3. Untouched(d) => Untouched(d)'
      BY <2>1, <3>1 DEF Untouched
    <3> QED BY <2>1, <3>1, <3>2, <3>3 DEF InHand
  <2> QED BY <2>1, <2>2 DEF PlanInv, Unchanged
<1> QED BY <1>1, <1>2, <1>3 DEF Environment, Untroubled, StopSeedingJob, WriteError, Close, Crash

\* A job moves on.
LEMMA JobMoved ==
  ASSUME TypeInv, NEW d \in Ids, jobs[d] # NoJob, NEW ph \in Phases, Goes(d, ph)
  PROVE  /\ jobs'[d] # NoJob /\ jobs'[d].phase = ph /\ jobs'[d].req = jobs[d].req
         /\ jobs'[d].cancelled = jobs[d].cancelled
         /\ \A e \in Ids \ {d} : jobs'[e] = jobs[e]
<1>1. jobs \in [Ids -> Job \cup {NoJob}]
  BY DEF TypeInv, TypeOK
<1>2. jobs'[d] = [jobs[d] EXCEPT !.phase = ph] /\ \A e \in Ids \ {d} : jobs'[e] = jobs[e]
  BY <1>1 DEF Goes
<1>3. [jobs[d] EXCEPT !.phase = ph] # NoJob
  BY JobFacts
<1> QED BY <1>2, <1>3, JobFacts DEF Job

\* What the step of a job may make of its download, if that is in the list.
LEMMA PlanJob ==
  ASSUME PlanFacts, TypeInv', NEW d \in Ids, jobs[d] # NoJob,
         NEW ph \in {"settle", "check", "end"}, Goes(d, ph), ph = "end" \/ jobs[d].req.kind = "restore",
         ph = "check" => ~jobs[d].req.complete,
         UNCHANGED <<items, rules, spawned, passes, booting, awaited, client, life>>,
         \A e \in Ids \ {d} : Follows(dn[e], dn'[e]),
         ~Found(d) => Follows(dn[d], dn'[d]),
         Found(d) =>
           \/ /\ Follows(dn[d], dn'[d])
              /\ \/ ph = "settle"
                 \/ ph = "end" /\ jobs[d].req.gen # gen /\ jobs[d].req.kind = "restore"
                 \/ ph = "end" /\ jobs[d].cancelled
           \/ ph # "check" /\ dn'[d].status = "completed"
           \/ /\ jobs[d].req.kind = "restore" /\ ~jobs[d].req.complete
              /\ jobs[d].req.gen = gen /\ HasClient
              /\ \/ ph = "end" /\ dn'[d].status = "failed"
                 \/ ph = "end" /\ dn'[d].engine # 0
                      /\ dn'[d].status \in {"paused", "queued", "downloading"}
                 \/ ph = "check" /\ dn'[d].engine # 0 /\ dn'[d].status = "verifying"
  PROVE  PlanInv'
<1> DEFINE j == jobs[d]
<1>0. /\ UNCHANGED <<items, policy, notices, spawned, passes, booting, awaited, net, gen,
                     resume, closing>>
      /\ (Coming(d)' = Coming(d)) /\ (Found(d)' <=> Found(d))
  BY DEF rules, client, life, Coming, Found
<1>1. /\ jobs'[d] # NoJob /\ jobs'[d].phase = ph /\ jobs'[d].req = j.req
      /\ jobs'[d].cancelled = j.cancelled /\ \A e \in Ids \ {d} : jobs'[e] = jobs[e]
  BY JobMoved DEF Phases, PlanFacts
<1>2. Unchanged'
  BY <1>0 DEF PlanFacts, PlanInv, Unchanged
<1>3. \A e \in Ids \ {d} : Spared(e)
  BY <1>0, <1>1, HandFacts DEF Spared, HandKept, Coming, WorkOK, Found
<1>4. WorkOK(d)'
  <2>1. WorkOK(d)
    BY HandFacts
  <2> QED BY <1>0, <1>1, <2>1 DEF WorkOK
<1>5. ASSUME ~Found(d) PROVE InHand(d)'
  BY <1>0, <1>4, <1>5, HandFacts DEF Untouched, Follows, InHand
<1>6. ASSUME Found(d) PROVE InHand(d)'
  <2>1. Minded(d) /\ JobMinds(d) /\ WorkOK(d)
    BY <1>6, HandFacts DEF Minded
  <2>2. /\ dn'[d].status # "metadata"
        /\ dn'[d].status = "verifying" => net \notin {"draining", "down"}
        /\ net \in {"parking", "draining", "down"}
             /\ dn'[d].status \in {"queued", "downloading", "verifying"}
           => dn[d].status \in {"queued", "downloading", "verifying"}
        /\ j.req.kind = "restore" /\ j.req.complete => dn'[d].status = "completed"
    BY <1>6, <2>1 DEF Minded, JobMinds, Follows, HasClient
  <2>3. j.cancelled => d \in awaited /\ net = "draining"
    BY <2>1 DEF JobMinds
  <2>4. ph = "check" => dn'[d].engine # 0
    BY <1>6
  <2>5. ph = "end" =>
          IF j.req.kind = "verify" THEN dn'[d].status = "completed" \/ d \in awaited
          ELSE j.req.gen = gen => dn'[d].status # "verifying" /\ ~(net = "up" /\ Waits(d)')
    BY <1>6, <2>2, <2>3 DEF Waits, Follows
  <2>6. JobMinds(d)'
    BY <1>0, <1>1, <2>2, <2>3, <2>4, <2>5 DEF JobMinds, Waits
  <2>7. Coming(d) # NoRequest /\ Coming(d).complete => dn'[d].status = "completed"
    BY <1>6, <2>1 DEF Minded, Follows
  <2>8. net = "up" /\ Waits(d)' => jobs'[d] # NoJob
    BY <1>1
  <2>9. Coming(d) # NoRequest /\ Coming(d).complete =>
          /\ \A r \in spawned' : r.id = d => r.kind = "verify" \/ r.gen # gen'
          /\ \/ jobs'[d].req.kind = "verify" \/ jobs'[d].req.complete
             \/ jobs'[d].req.gen # gen'
    BY <1>0, <1>1, <2>1 DEF Minded
  <2>10. net \in {"parking", "draining", "down"}
           /\ dn'[d].status \in {"queued", "downloading", "verifying"}
         => resume.all \/ resume.ids[d].listed
    BY <2>1, <2>2 DEF Minded
  <2>11. Minded(d)'
    BY <1>0, <1>1, <2>2, <2>6, <2>7, <2>8, <2>9, <2>10 DEF Minded
  <2> QED BY <1>0, <1>4, <1>6, <2>11 DEF InHand
<1> QED BY <1>0, <1>2, <1>3, <1>5, <1>6, PlanStep DEF PlanFacts

\* markFailed
LEMMA PlanMarkFailed ==
  ASSUME TypeInv, NEW d \in Ids, NEW ok \in BOOLEAN, MarkFailed(d, ok)
  PROVE  /\ \A e \in Ids \ {d} : Follows(dn[e], dn'[e])
         /\ IF Found(d) THEN dn'[d].status = "failed" ELSE dn' = dn
<1> DEFINE s == [dn[d] EXCEPT !.status = "failed"]
           r == Gated(s)
<1>1. s \in Download(Gens) /\ s.status = "failed"
  BY TypeFacts, NewStatus DEF Statuses
<1>2. r \in Download(Gens) /\ r.status = "failed"
  BY <1>1, GenFacts, TypeFacts, RecordTypes DEF Gated, Download
<1>3. CASE Found(d) /\ dn[d].status # "failed"
  <2>1. dn' = Schedule(policy, items, [dn EXCEPT ![d] = r])
    BY <1>3 DEF MarkFailed, Failed
  <2> HIDE DEF r
  <2> QED BY <1>2, <1>3, <2>1, FollowsOne DEF Follows
<1>4. CASE ~(Found(d) /\ dn[d].status # "failed")
  BY <1>4 DEF MarkFailed, Follows
<1> QED BY <1>3, <1>4

\* The end of settleRestored, for a download with the torrent that r has.
LEMMA PlanFinish ==
  ASSUME TypeInv, NEW d \in Ids, NEW ok \in BOOLEAN, NEW r \in Download(Gens),
         r.engine # 0, Finish(d, [dn EXCEPT ![d] = r], ok)
  PROVE  /\ \A e \in Ids \ {d} : Follows(dn[e], dn'[e])
         /\ dn'[d].engine # 0 /\ dn'[d].status \in {"paused", "queued", "downloading"}
<1> USE TypeFacts, GenFacts
<1> DEFINE q == [r EXCEPT !.status = "queued"]
           p == [r EXCEPT !.status = "paused"]
           new == CASE jobs[d].req.paused -> Gated(p)
                    [] ~jobs[d].req.paused /\ jobs[d].req.force -> Forced(policy, r)
                    [] ~jobs[d].req.paused /\ ~jobs[d].req.force -> q
<1>1. /\ q \in Download(Gens) /\ q.status = "queued" /\ q.engine # 0
      /\ p \in Download(Gens) /\ p.status = "paused" /\ p.engine # 0
  BY NewStatus DEF Statuses
<1>2. Gated(p) \in Download(Gens) /\ Gated(p).status = "paused" /\ Gated(p).engine # 0
  BY <1>1, RecordTypes DEF Gated, Download
<1>3. /\ Forced(policy, r) \in Download(Gens) /\ Forced(policy, r).engine # 0
      /\ Forced(policy, r).status = "downloading"
  <2>1. Forced(policy, r) \in Download(Gens)
    BY RecordTypes
  <2>2. Forced(policy, r) = Started(policy, q)
    BY DEF Forced
  <2> QED BY <1>1, <2>1, <2>2 DEF Started, Download
<1>4. dn' = Schedule(policy, items, [dn EXCEPT ![d] = new])
  BY DEF Finish
<1> HIDE DEF q, p
<1>5. /\ new \in Download(Gens) /\ new.engine # 0
      /\ new.status \in {"paused", "queued", "downloading"}
  BY <1>1, <1>2, <1>3
<1> HIDE DEF new
<1>6. Follows(new, dn'[d]) /\ \A e \in Ids \ {d} : Follows(dn[e], dn'[e])
  BY <1>4, <1>5, FollowsOne
<1> QED BY <1>5, <1>6 DEF Follows

LEMMA PlanJobs ==
  ASSUME PlanFacts, TypeInv', Untroubled, NEW d \in Ids, NEW ok \in BOOLEAN, JobStep(d, ok)
  PROVE  PlanInv'
<1> USE TypeFacts, GenFacts DEF PlanFacts
<1> DEFINE j == jobs[d]
<1>0. /\ WorkOK(d) /\ (Found(d) => Minded(d)) /\ dn[d] \in Download(Gens)
      /\ dn[d].engine # 0 => HasClient
      /\ HasClient => gen # 0
  BY HandFacts
<1>1. ASSUME j # NoJob, j.phase # "end"
      PROVE  /\ j.phase \in {"attach", "settle", "check"} => j.req.kind = "restore"
             /\ j.phase \in {"attach", "settle", "check", "hash"}
             /\ j.req.gen = gen => HasClient
             /\ Found(d) => JobMinds(d)
             /\ Found(d) /\ j.cancelled => ~HasClient
  BY <1>0, <1>1 DEF ClientInv, Current, Minded, WorkOK, JobMinds, HasClient
<1>2. \A e \in Ids : Follows(dn[e], dn[e])
  BY DEF Follows
<1>3. CASE Attach(d)
  BY <1>1, <1>2, <1>3, PlanJob DEF Attach, At, Untroubled
<1>4. CASE AttachFails(d, ok)
  <2>1. /\ j # NoJob /\ j.phase # "end" /\ Goes(d, "end") /\ j.req.kind = "restore"
        /\ UNCHANGED <<items, rules, spawned, passes, booting, awaited, client, life>>
    BY <1>0, <1>1, <1>4 DEF AttachFails, RestoreFailed, At, WorkOK
  <2>0. CASE ~Superseded(d) /\ ~j.req.complete /\ MarkFailed(d, ok)
    BY <1>1, <2>0, <2>1, PlanMarkFailed, PlanJob DEF Superseded
  <2>2. CASE j.cancelled \/ j.req.gen # gen
    BY <1>2, <1>4, <2>0, <2>1, <2>2, PlanJob DEF AttachFails, RestoreFailed
  <2>3. CASE ~(j.cancelled \/ j.req.gen # gen) /\ j.req.complete
    <3>1. dn' = IF Found(d) THEN [dn EXCEPT ![d].seeding = FALSE] ELSE dn
      BY <1>4, <2>3 DEF AttachFails, RestoreFailed
    <3>2. Found(d) => dn[d].status = "completed"
      BY <1>1, <2>1, <2>3 DEF JobMinds
    <3>3. /\ Found(d) => dn'[d].status = "completed"
          /\ ~Found(d) => dn'[d] = dn[d]
          /\ \A e \in Ids \ {d} : dn'[e] = dn[e]
      BY <1>0, <3>1, <3>2 DEF Download
    <3> QED BY <1>2, <2>1, <3>3, PlanJob
  <2>4. CASE ~(j.cancelled \/ j.req.gen # gen) /\ ~j.req.complete
    BY <1>1, <1>2, <1>4, <2>1, <2>4, PlanMarkFailed, PlanJob DEF AttachFails, RestoreFailed
  <2> QED BY <2>2, <2>3, <2>4
<1>5. CASE Settle(d, ok)
  <2> DEFINE r == Attached(dn[d], gen)
  <2>0. r \in Download(Gens) /\ r.engine = gen
    BY <1>0, RecordTypes DEF Attached, Download
  <2>1. /\ j # NoJob /\ j.phase = "settle" /\ j.req.kind = "restore"
        /\ UNCHANGED <<items, rules, spawned, passes, booting, awaited, client, life>>
    BY <1>0, <1>5 DEF Settle, At, WorkOK
  <2>2. CASE Superseded(d) /\ Goes(d, "end") /\ UNCHANGED dn
    BY <1>2, <2>1, <2>2, PlanJob DEF Superseded
  <2>3. CASE ~Superseded(d) /\ j.req.complete /\ FinishSeed(d, ok)
    <3> DEFINE x == [r EXCEPT !.seeding = policy.saved.seed]
               y == IF policy.saved.seed THEN AllowUpload(policy, x) ELSE Detached(x)
    <3>1. Found(d) /\ dn[d].status = "completed"
      BY <1>1, <2>1, <2>3 DEF Superseded, JobMinds
    <3>2. dn' = [dn EXCEPT ![d] = y] /\ Goes(d, "end")
      BY <2>3 DEF FinishSeed
    <3>3. y.status = "completed"
      BY <1>0, <3>1 DEF AllowUpload, Detached, Attached, Download
    <3> HIDE DEF y
    <3>4. dn'[d].status = "completed" /\ \A e \in Ids \ {d} : dn'[e] = dn[e]
      BY <3>2, <3>3
    <3> QED BY <1>2, <2>1, <3>1, <3>2, <3>4, PlanJob
  <2>4. CASE ~Superseded(d) /\ ~j.req.complete /\ Finish(d, [dn EXCEPT ![d] = r], ok)
    <3>1. Found(d) /\ j.req.gen = gen /\ HasClient /\ gen # 0 /\ Goes(d, "end")
      BY <1>0, <1>1, <2>1, <2>4 DEF Superseded, Finish
    <3> HIDE DEF r
    <3> QED BY <2>0, <2>1, <2>4, <3>1, PlanFinish, PlanJob
  <2>5. CASE /\ ~Superseded(d) /\ ~j.req.complete /\ Goes(d, "check")
             /\ dn' = [dn EXCEPT ![d] = [r EXCEPT !.status = "verifying"]]
    <3>1. Found(d) /\ j.req.gen = gen /\ HasClient /\ gen # 0
      BY <1>0, <1>1, <2>1, <2>5 DEF Superseded
    <3>2. /\ [r EXCEPT !.status = "verifying"].status = "verifying"
          /\ [r EXCEPT !.status = "verifying"].engine = gen
      BY <2>0, NewStatus DEF Statuses
    <3> HIDE DEF r
    <3>3. /\ dn'[d].status = "verifying" /\ dn'[d].engine # 0
          /\ \A e \in Ids \ {d} : dn'[e] = dn[e]
      BY <2>5, <3>1, <3>2
    <3> QED BY <1>2, <2>1, <2>5, <3>1, <3>3, PlanJob
  <2> QED BY <1>5, <2>2, <2>3, <2>4, <2>5 DEF Settle, Attached
<1>6. CASE Check(d, ok)
  <2>1. /\ j # NoJob /\ j.phase = "check" /\ j.req.kind = "restore"
        /\ UNCHANGED <<items, rules, spawned, passes, booting, awaited, client, life>>
    BY <1>0, <1>6 DEF Check, At, WorkOK
  <2>2. CASE dn' = dn /\ (j.cancelled \/ Superseded(d)) /\ Goes(d, "end")
    BY <1>2, <2>1, <2>2, PlanJob DEF Superseded
  <2>3. CASE ~Superseded(d) /\ Finish(d, dn, ok)
    <3>1. Found(d) /\ j.req.gen = gen /\ HasClient /\ dn[d].engine # 0
      BY <1>1, <2>1, <2>3 DEF Superseded, JobMinds
    <3>2. Finish(d, [dn EXCEPT ![d] = dn[d]], ok) /\ Goes(d, "end")
      BY <1>6, <2>3 DEF Check, Finish
    <3>3. ~j.req.complete
      BY <1>0, <2>1 DEF WorkOK
    <3> QED BY <1>0, <2>1, <3>1, <3>2, <3>3, PlanFinish, PlanJob
  <2> QED BY <1>6, <2>2, <2>3 DEF Check
<1>7. CASE VerifyPasses(d, ok)
  <2> DEFINE r == Completed(dn[d])
  <2>1. /\ j # NoJob /\ j.phase = "hash" /\ Goes(d, "end")
        /\ UNCHANGED <<items, rules, spawned, passes, booting, awaited, client, life>>
    BY <1>7 DEF VerifyPasses, At
  <2>2. CASE ~Found(d)
    BY <1>2, <1>7, <2>1, <2>2, PlanJob DEF VerifyPasses
  <2>3. CASE Found(d)
    <3>1. dn' = Schedule(policy, items, [dn EXCEPT ![d] = r])
      BY <1>7, <2>3 DEF VerifyPasses
    <3>2. r \in Download(Gens) /\ r.status = "completed"
      <4>1. r \in Download(Gens)
        BY <1>0, CompletedType
      <4> QED BY <1>0, <4>1 DEF Completed, AllowUpload, Detached, Download
    <3> HIDE DEF r
    <3>3. dn'[d].status = "completed" /\ \A e \in Ids \ {d} : Follows(dn[e], dn'[e])
      BY <3>1, <3>2, FollowsOne DEF Follows
    <3> QED BY <2>1, <2>3, <3>3, PlanJob
  <2> QED BY <2>2, <2>3
<1>8. CASE VerifyFails(d, ok)
  BY <1>2, <1>8, PlanJob DEF VerifyFails, At, Untroubled
<1>9. CASE EndJob(d)
  <2>1. /\ j # NoJob /\ j.phase = "end" /\ jobs' = [jobs EXCEPT ![d] = NoJob]
        /\ passes' = IF j.req.pass = NoPass THEN passes
                     ELSE [passes EXCEPT ![j.req.pass].req[d] = NoRequest]
        /\ awaited' = awaited \ {d}
        /\ UNCHANGED <<items, dn, policy, notices, spawned, booting, net, gen, resume, closing>>
    BY <1>9 DEF EndJob, At, list, rules, client, life
  <2>2. \A g \in Gens, e \in Ids :
          /\ passes'[g].live = passes[g].live
          /\ passes'[g].req[e] = IF e = d /\ g = j.req.pass THEN NoRequest ELSE passes[g].req[e]
    BY <2>1, JobFacts, PassFacts DEF Request, NoPass, Gens, Pass
  <2>3. ASSUME NEW e \in Ids \ {d} PROVE Spared(e)
    <3>1. jobs'[e] = jobs[e] /\ (e \in awaited' <=> e \in awaited)
      BY <2>1 DEF TypeInv, TypeOK
    <3>2. \A g \in Gens :
            /\ passes'[g].req[e] = passes[g].req[e]
            /\ passes[g].req[e] # NoRequest => passes'[g].live
      BY <2>2, HandFacts DEF WorkOK
    <3>3. spawned' = spawned /\ resume' = resume /\ gen' = gen
      BY <2>1
    <3>4. gen \in Gens
      BY DEF TypeInv, TypeOK
    <3>5. HandKept(e)
      BY <3>1, <3>2, <3>3, <3>4 DEF HandKept, Coming
    <3> QED BY <1>2, <2>1, <3>5 DEF Spared, Found
  <2>4. jobs'[d] = NoJob /\ WorkOK(d)'
    <3>1. jobs'[d] = NoJob
      BY <2>1 DEF TypeInv, TypeOK
    <3>2. ASSUME NEW g \in Gens, passes'[g].req[d] # NoRequest
          PROVE  /\ g # 0 /\ passes'[g].live /\ passes'[g].req[d].id = d
                 /\ passes'[g].req[d].gen = g /\ passes'[g].req[d].pass = g
      <4>1. passes'[g].req[d] = passes[g].req[d] /\ passes'[g].live = passes[g].live
        BY <2>2, <3>2
      <4> QED BY <1>0, <3>2, <4>1 DEF WorkOK
    <3> QED BY <1>0, <2>1, <3>1, <3>2 DEF WorkOK
  <2>5. Coming(d)' \in {Coming(d), NoRequest} /\ (Found(d)' <=> Found(d))
    BY <2>1, <2>2 DEF Coming, Found
  <2>6. ASSUME Found(d) PROVE Minded(d)'
    <3>1. Minded(d) /\ JobMinds(d)
      BY <1>0, <2>1, <2>6 DEF Minded
    <3>2. d \in awaited => net \in {"parking", "draining"}
      BY DEF PlanInv, Unchanged, TypeInv, TypeOK, Nets
    <3>3. /\ dn[d].status = "verifying" => net = "parking"
          /\ ~(net = "up" /\ Waits(d))
      BY <1>0, <2>1, <3>1, <3>2 DEF WorkOK, JobMinds, Minded, Waits
    <3> QED BY <2>1, <2>4, <2>5, <3>1, <3>3 DEF Minded, Waits
  <2>7. ASSUME ~Found(d) PROVE dn'[d].status = "failed"
    BY <2>1, <2>7, HandFacts DEF Untouched
  <2>8. InHand(d)'
    BY <2>4, <2>5, <2>6, <2>7 DEF InHand
  <2>9. Unchanged'
    BY <2>1 DEF PlanInv, Unchanged
  <2> QED BY <2>1, <2>3, <2>8, <2>9, PlanStep
<1>10. ~GotInfo(d)
  BY <1>0 DEF GotInfo, At, WorkOK
<1> QED BY <1>3, <1>4, <1>5, <1>6, <1>7, <1>8, <1>9, <1>10 DEF JobStep

\* A registered job, and what it takes to be in hand.
LEMMA PlanBegun ==
  ASSUME PlanFacts, TypeInv', NEW d \in Ids, NEW r \in Request, r.id = d, MayBegin(r),
         r.kind \in {"restore", "verify"}, jobs' = Begun(r), spawned' \in {spawned, spawned \ {r}},
         UNCHANGED <<list, rules, passes, booting, awaited, client, life>>,
         r.kind = "verify" => r.pass = NoPass /\ ~r.complete,
         r.kind = "restore" => r.pass \in {NoPass, r.gen},
         r.complete => dn[d].status = "completed",
         Coming(d) # NoRequest /\ Coming(d).complete => r.kind = "verify" \/ r.complete
  PROVE  PlanInv'
<1> USE TypeFacts, GenFacts DEF PlanFacts
<1>0. /\ UNCHANGED <<items, dn, policy, notices, passes, booting, awaited, net, gen, resume,
                     closing>>
      /\ ~closing /\ Found(d) /\ WorkOK(d) /\ Minded(d)
  BY HandFacts DEF list, rules, client, life, Unchanged, MayBegin
<1>1. FirstPhase(r.kind) = IF r.kind = "verify" THEN "hash" ELSE "attach"
  BY DEF FirstPhase
<1>2. /\ jobs'[d] # NoJob /\ jobs'[d].req = r /\ jobs'[d].phase = FirstPhase(r.kind)
      /\ ~jobs'[d].cancelled /\ \A e \in Ids \ {d} : jobs'[e] = jobs[e]
  BY <1>0, <1>1 DEF Begun, TypeInv, TypeOK, NoJob
<1>3. \A e \in Ids \ {d} : Spared(e)
  BY <1>0, <1>2, HandFacts DEF Spared, HandKept, Coming, WorkOK, Follows, Found
<1>4. /\ WorkOK(d)' /\ (Coming(d)' = Coming(d)) /\ Found(d)' /\ JobMinds(d)'
  BY <1>0, <1>1, <1>2 DEF WorkOK, Coming, Found, JobMinds, MayBegin
<1>5. Minded(d)'
  BY <1>0, <1>2, <1>4 DEF Minded, Meant
<1> QED BY <1>0, <1>3, <1>4, <1>5, PlanStep DEF PlanInv, Unchanged, InHand

\* beginJob
LEMMA PlanBegin ==
  ASSUME PlanFacts, TypeInv', NEW r \in spawned, Begin(r)
  PROVE  PlanInv'
<1> USE TypeFacts, GenFacts DEF PlanFacts
<1> PICK d \in Ids : d = r.id
  BY DEF TypeInv, TypeOK, Request
<1>0. /\ r \in Request /\ r.kind \in {"restore", "verify"} /\ ~r.complete /\ r.pass = NoPass
      /\ WorkOK(d) /\ (Found(d) => Minded(d)) /\ ~closing
      /\ ~Found(d) => dn[d].status = "failed" \/ Untouched(d)
  BY HandFacts DEF WorkOK, Unchanged, TypeInv, TypeOK
<1>1. /\ spawned' = spawned \ {r}
      /\ UNCHANGED <<list, rules, passes, booting, awaited, client, life>>
      /\ UNCHANGED <<items, dn, policy, notices, passes, booting, awaited, net, gen, resume,
                     closing>>
  BY DEF Begin, list, rules, client, life
<1>2. CASE MayBegin(r)
  BY <1>0, <1>1, <1>2, PlanBegun DEF Begin, MayBegin, Minded
<1>3. CASE ~MayBegin(r)
  <2>1. jobs' = jobs
    BY <1>3 DEF Begin
  <2>2. \A e \in Ids \ {d} : Spared(e)
    BY <1>1, <2>1, HandFacts DEF Spared, HandKept, Coming, WorkOK, Follows, Found
  <2>3. WorkOK(d)' /\ (Coming(d)' = Coming(d)) /\ (Found(d)' <=> Found(d))
    BY <1>0, <1>1, <2>1 DEF WorkOK, Coming, Found
  <2>4. Untouched(d) => Untouched(d)'
    BY <1>1, <2>1, <2>3 DEF Untouched
  <2>5. ASSUME Found(d) PROVE Minded(d)'
    <3>1. jobs'[d] # NoJob => JobMinds(d)'
      BY <1>0, <1>1, <2>1, <2>5 DEF Minded, JobMinds, Waits
    <3>2. Meant(r) => jobs[d] # NoJob
      BY <1>0, <1>3, <2>5 DEF MayBegin, Meant
    <3> QED BY <1>0, <1>1, <2>1, <2>3, <2>5, <3>1, <3>2 DEF Minded, Waits, Meant
  <2>6. InHand(d)'
    BY <1>0, <1>1, <2>3, <2>4, <2>5 DEF InHand
  <2> QED BY <1>1, <2>2, <2>6, PlanStep DEF PlanInv, Unchanged
<1> QED BY <1>2, <1>3

\* A step of a pass.
LEMMA PlanPasses ==
  ASSUME PlanFacts, TypeInv', NEW g \in Gens, NEW ok \in BOOLEAN, PassStep(g, ok)
  PROVE  PlanInv'
<1> USE TypeFacts, GenFacts DEF PlanFacts
<1>0. passes \in [Gens -> Pass] /\ \A e \in Ids : Follows(dn[e], dn[e])
  BY PassFacts DEF Follows
<1>1. ASSUME NEW d \in Ids, PassSkip(g, d) PROVE PlanInv'
  <2> DEFINE r == passes[g].req[d]
  <2>1. /\ r # NoRequest /\ WorkOK(d) /\ (Found(d) => Minded(d))
        /\ g = gen \/ net = "parking"
        /\ ~Found(d) => dn[d].status = "failed" \/ Untouched(d)
    BY <1>1, HandFacts DEF PassSkip, NextInPass, PassGoesOn, WorkOK, Unchanged
  <2>2. /\ UNCHANGED <<items, policy, notices, jobs, spawned, booting, awaited, net, gen,
                       resume, closing>>
        /\ passes' = [passes EXCEPT ![g].req[d] = NoRequest]
    BY <1>1 DEF PassSkip, rules, client, life
  <2>3. \A h \in Gens, e \in Ids :
          /\ passes'[h].live = passes[h].live
          /\ passes'[h].req[e] = IF e = d /\ h = g THEN NoRequest ELSE passes[h].req[e]
    BY <1>0, <2>2, PassFacts DEF Pass
  <2>4. \A e \in Ids : dn'[e].status = dn[e].status /\ dn'[e].engine = dn[e].engine
    <3>1. dn' = dn \/ dn' = [dn EXCEPT ![d] = [@ EXCEPT !.seeding = FALSE]]
      BY <1>1 DEF PassSkip
    <3>2. \A e \in Ids : dn[e] \in Download(Gens)
      OBVIOUS
    <3> QED BY <3>1, <3>2 DEF Download
  <2>5. \A e \in Ids \ {d} : Spared(e)
    BY <2>2, <2>3, <2>4, HandFacts DEF Spared, HandKept, Coming, WorkOK, Follows, Found
  <2>6. /\ WorkOK(d)' /\ Coming(d)' = (IF g = gen THEN NoRequest ELSE Coming(d))
        /\ Found(d)' <=> Found(d)
    BY <2>1, <2>2, <2>3 DEF WorkOK, Coming, Found
  <2>7. Found(d) /\ g = gen /\ Waits(d)' => jobs[d] # NoJob
    <3>1. g = gen => r.id = d /\ r.gen = gen
      BY <2>1 DEF WorkOK
    <3>2. r.kind = "restore"
      BY <2>1 DEF TypeInv, PassRequests
    <3>3. Found(d) /\ g = gen /\ r.complete => dn[d].status = "completed"
      BY <2>1 DEF Minded, Coming
    <3> QED BY <1>1, <2>4, <3>1, <3>2, <3>3 DEF PassSkip, MayBegin, Waits
  <2>8. ASSUME Found(d) PROVE Minded(d)'
    <3>1. jobs'[d] # NoJob => JobMinds(d)'
      BY <2>1, <2>2, <2>4, <2>8 DEF Minded, JobMinds, Waits
    <3> QED BY <2>1, <2>2, <2>4, <2>6, <2>7, <2>8, <3>1 DEF Minded, Meant
  <2>9. InHand(d)'
    BY <2>1, <2>2, <2>4, <2>6, <2>8 DEF InHand, Untouched
  <2> QED BY <2>2, <2>5, <2>9, PlanStep DEF PlanInv, Unchanged
<1>2. ASSUME NEW d \in Ids, PassBegin(g, d) PROVE PlanInv'
  <2> DEFINE r == passes[g].req[d]
  <2>1. r # NoRequest /\ WorkOK(d) /\ g = gen /\ (Found(d) => Minded(d))
    BY <1>2, HandFacts DEF PassBegin, NextInPass, PassGoesOn, WorkOK, Unchanged, MayBegin, TypeInv,
       PassRequests
  <2>2. /\ MayBegin(r) /\ jobs' = Begun(r) /\ r = Coming(d)
        /\ UNCHANGED <<list, rules, spawned, passes, booting, awaited, client, life>>
    BY <1>2, <2>1 DEF PassBegin, Coming
  <2>3. r \in Request /\ r.id = d /\ r.kind = "restore" /\ r.pass = r.gen
    BY <2>1, PassFacts DEF WorkOK, TypeInv, PassRequests
  <2>4. r.complete => dn[d].status = "completed"
    BY <2>1, <2>2, <2>3 DEF Minded, MayBegin
  <2> HIDE DEF r
  <2> QED BY <2>2, <2>3, <2>4, PlanBegun
<1>3. ASSUME PassEnd(g, ok) \/ PassAborts(g) PROVE PlanInv'
  <2>1. /\ UNCHANGED <<items, policy, notices, jobs, spawned, booting, awaited, net, gen,
                       resume, closing>>
        /\ passes' = [passes EXCEPT ![g] = DeadPass]
        /\ dn' = Schedule(policy, items, dn) \/ dn' = dn
    BY <1>3 DEF PassEnd, PassAborts, rules, client, life, list
  <2>2. \A e \in Ids : DeadPass.req[e] = NoRequest
    BY DEF DeadPass, NoReqs
  <2>3. \A e \in Ids : g = gen => passes[g].req[e] = NoRequest
    BY <1>3, HandFacts DEF PassEnd, PassAborts, PassStopped, Unchanged
  <2>4. \A e \in Ids : HandKept(e)
    BY <1>0, <2>1, <2>2, <2>3, HandFacts DEF HandKept, Coming, WorkOK
  <2> QED BY <1>0, <2>1, <2>4, FollowsRules, PlanRules DEF Found, PlanInv, Unchanged
<1> QED BY <1>1, <1>2, <1>3 DEF PassStep

\* sample
LEMMA PlanTick ==
  ASSUME PlanFacts, TypeInv', NEW b \in BOOLEAN, NEW ok \in BOOLEAN, Tick(b, ok)
  PROVE  PlanInv'
<1> USE TypeFacts, GenFacts DEF PlanFacts
<1> DEFINE p  == [policy EXCEPT !.blocked = b]
           D1 == IF b # policy.blocked
                 THEN Schedule(p, items, SyncPlay(p, items, Busy(jobs), dn)) ELSE dn
           done == Arrived(p, D1)
<1>1. /\ dn' = [d \in Ids |-> IF d \in done THEN [D1[d] EXCEPT !.status = "verifying"] ELSE D1[d]]
      /\ spawned' = spawned \cup {Req(d, "verify") : d \in done} /\ policy' = p
      /\ UNCHANGED <<items, notices, jobs, passes, booting, awaited, net, gen, resume, closing>>
  BY DEF Tick, client, life
<1>2. D1 \in [Ids -> Download(Gens)] /\ \A d \in Ids : Follows(dn[d], D1[d])
  <2>1. p \in Policy
    BY DEF Policy
  <2> DEFINE E == SyncPlay(p, items, Busy(jobs), dn)
  <2>2. E \in [Ids -> Download(Gens)] /\ \A d \in Ids : Follows(dn[d], E[d])
    BY <2>1, ListTypes, FollowsRules
  <2> HIDE DEF E, p
  <2>3. Schedule(p, items, E) \in [Ids -> Download(Gens)]
        /\ \A d \in Ids : Follows(E[d], Schedule(p, items, E)[d])
    BY <2>1, <2>2, ListTypes, FollowsRules
  <2> QED BY <2>2, <2>3 DEF Follows, E
<1>3. \A d \in done : /\ Found(d) /\ jobs[d] = NoJob
                      /\ D1[d].engine # 0 /\ D1[d].status = "downloading"
  BY DEF Arrived, Found
<1>4. Unchanged'
  BY <1>1 DEF PlanInv, Unchanged, Policy
<1> HIDE DEF D1, done, p
<1>5. \A d \in Ids : Req(d, "verify").id = d
  BY DEF Req
<1>6. ASSUME NEW d \in Ids \ done PROVE Spared(d)
  <2>1. \A r : r.id = d => (r \in spawned' <=> r \in spawned)
    BY <1>1, <1>3, <1>5, <1>6 DEF Found
  <2> QED BY <1>1, <1>2, <1>6, <2>1, HandFacts DEF Spared, HandKept, Coming, WorkOK, Found
<1>7. ASSUME NEW d \in Ids, d \in done PROVE InHand(d)'
  <2>1. /\ Found(d) /\ WorkOK(d) /\ Minded(d) /\ HasClient /\ jobs[d] = NoJob
        /\ dn[d].status \in {"queued", "downloading"}
    BY <1>2, <1>3, <1>7, HandFacts DEF Follows, Found
  <2>2. dn'[d].status = "verifying"
    BY <1>1, <1>2, <1>7, NewStatus DEF Statuses
  <2> PICK x : x = Req(d, "verify")
    OBVIOUS
  <2>3. \A r \in spawned' : r.id = d => r \in spawned \/ r = x
    BY <1>1, <1>3, <1>5 DEF Found
  <2>4. /\ x.id = d /\ x.kind = "verify" /\ ~x.complete /\ x.pass = NoPass
        /\ x \in spawned' /\ Meant(x)'
    BY <1>1, <1>7 DEF Req, Meant
  <2>5. WorkOK(d)' /\ (Coming(d)' = Coming(d)) /\ Found(d)'
    BY <1>1, <2>1, <2>3, <2>4 DEF WorkOK, Coming, Found
  <2>6. net \notin {"draining", "down", "parking"} /\ ~Waits(d)'
        /\ ~(Coming(d) # NoRequest /\ Coming(d).complete)
    BY <2>1, <2>2 DEF Minded, Waits, HasClient
  <2>7. Minded(d)'
    BY <1>1, <2>1, <2>2, <2>4, <2>5, <2>6 DEF Minded
  <2> QED BY <2>5, <2>7 DEF InHand
<1> QED BY <1>1, <1>4, <1>6, <1>7, PlanStep

\* The client is taken down and put up.
LEMMA PlanClient ==
  ASSUME PlanFacts, TypeInv', NEW ok \in BOOLEAN,
         TeardownDetach \/ TeardownPark(ok) \/ TeardownDone \/ BringUp
  PROVE  PlanInv'
<1> USE TypeFacts, GenFacts DEF PlanFacts
<1>0. /\ Unchanged
      /\ \A d \in Ids : /\ WorkOK(d) /\ (Found(d) => Minded(d))
                        /\ ~Found(d) => dn[d].status = "failed" \/ Untouched(d)
                        /\ dn[d].engine # 0 => HasClient
      /\ \A d \in Ids : jobs[d] # NoJob => Current(jobs[d].req)
      /\ \A r \in spawned : Current(r)
  BY HandFacts DEF ClientInv, PlanInv
<1>n. gen \in Nat
  OBVIOUS
<1> gen \in Nat /\ ~(gen + 1 <= gen) /\ gen + 1 # gen
  BY <1>n
<1>1. \A d \in Ids : gen + 1 \in Gens => passes[gen + 1].req[d] = NoRequest
  BY <1>0 DEF ClientInv, Current, WorkOK
<1>2. CASE TeardownDetach
  <2>1. /\ net = "switching" /\ net' = "parking" /\ gen' = gen + 1 /\ awaited' = Busy(jobs)
        /\ UNCHANGED <<items, policy, notices, jobs, spawned, passes, booting, closing>>
        /\ gen + 1 \in Gens
    BY <1>2 DEF TeardownDetach, rules, life, TypeInv, TypeOK
  <2>2. \A d \in Ids : dn'[d].status = dn[d].status /\ dn'[d].engine = 0
    BY <1>2 DEF TeardownDetach, Detached, Download
  <2>3. ASSUME NEW d \in Ids PROVE InHand(d)'
    <3>1. Coming(d)' = NoRequest /\ (Found(d)' <=> Found(d)) /\ (jobs[d] # NoJob => d \in awaited')
      BY <1>1, <2>1 DEF Coming, Found, Busy
    <3>2. WorkOK(d)'
      BY <1>0, <2>1, <3>1 DEF WorkOK
    <3>3. Found(d) /\ dn[d].status \in {"queued", "downloading", "verifying"}
          => resume'.ids[d].listed
      BY <1>2 DEF TeardownDetach
    <3>4. Found(d) /\ jobs[d] # NoJob => JobMinds(d)'
      BY <1>0, <2>1, <2>2, <3>1 DEF Minded, JobMinds, Current
    <3>5. Found(d) => Minded(d)'
      BY <1>0, <2>1, <2>2, <3>1, <3>3, <3>4 DEF Minded
    <3> QED BY <1>0, <2>1, <2>2, <3>1, <3>2, <3>5 DEF InHand, Untouched
  <2> QED BY <2>1, <2>3 DEF PlanInv, Unchanged
<1>3. CASE TeardownPark(ok)
  <2>1. /\ net = "parking" /\ net' = "draining"
        /\ UNCHANGED <<items, policy, notices, spawned, passes, booting, awaited, gen, resume,
                       closing>>
    BY <1>3 DEF TeardownPark, rules, life
  <2>2. ASSUME NEW d \in Ids
        PROVE  /\ dn'[d].engine = dn[d].engine
               /\ dn'[d].status = IF Found(d) /\ Occupies(dn[d].status)
                                  THEN "queued" ELSE dn[d].status
    BY <1>3, NewStatus DEF TeardownPark, Parked, Statuses
  <2>3. ASSUME NEW d \in Ids
        PROVE  /\ jobs[d] = NoJob => jobs'[d] = NoJob
               /\ jobs'[d] # NoJob => /\ jobs[d] # NoJob /\ jobs'[d].req = jobs[d].req
                                      /\ jobs'[d].phase = jobs[d].phase
                                      /\ jobs'[d].cancelled => d \in awaited \/ jobs[d].cancelled
               /\ jobs[d] # NoJob => jobs'[d] # NoJob
    BY <1>3, JobFacts DEF TypeInv, Bounds, Busy, TeardownPark, Job, NoJob
  <2>4. ASSUME NEW d \in Ids PROVE InHand(d)'
    <3>1. (Coming(d)' = Coming(d)) /\ (Found(d)' <=> Found(d))
      BY <2>1 DEF Coming, Found
    <3>2. WorkOK(d)'
      BY <1>0, <2>1, <2>3 DEF WorkOK
    <3>3. ASSUME Found(d), jobs'[d] # NoJob PROVE JobMinds(d)'
      <4>1. jobs[d] # NoJob /\ JobMinds(d) /\ Current(jobs[d].req)
        BY <1>0, <2>3, <3>3 DEF Minded
      <4>2. jobs[d].req.gen # gen /\ ~jobs[d].cancelled
        BY <2>1, <4>1 DEF Current, HasClient, JobMinds
      <4> QED BY <2>1, <2>2, <2>3, <3>3, <4>1, <4>2 DEF JobMinds, Occupies
    <3>4. Found(d) => Minded(d)'
      BY <1>0, <2>1, <2>2, <2>3, <3>1, <3>3 DEF Minded, Occupies
    <3> QED BY <1>0, <2>1, <2>2, <2>3, <3>1, <3>2, <3>4 DEF InHand, Untouched
  <2> QED BY <2>1, <2>4 DEF PlanInv, Unchanged
<1>4. CASE TeardownDone
  <2>1. /\ net = "draining" /\ net' = "down" /\ awaited = {}
        /\ UNCHANGED <<items, dn, policy, notices, jobs, spawned, passes, booting, awaited, gen,
                       resume, closing>>
    BY <1>4 DEF TeardownDone, list, rules, work, life
  <2>2. ASSUME NEW d \in Ids PROVE InHand(d)'
    <3>1. WorkOK(d)' /\ (Coming(d)' = Coming(d)) /\ (Found(d)' <=> Found(d))
      BY <1>0, <2>1 DEF WorkOK, Coming, Found
    <3>2. Found(d) => Minded(d)'
      BY <1>0, <2>1, <3>1 DEF Minded, JobMinds, Waits
    <3> QED BY <1>0, <2>1, <3>1, <3>2 DEF InHand, Untouched
  <2> QED BY <2>1, <2>2 DEF PlanInv, Unchanged
<1>5. CASE BringUp
  <2> DEFINE how(d) == [resume.ids[d] EXCEPT !.trusted = @ /\ ~resume.all]
             x == gen + 1
             picked == [d \in Picked |-> Snapshot(x, x, d, how(d))]
  <2>1. /\ net = "down" /\ net' = "up" /\ gen' = x /\ x \in Gens /\ awaited = {}
        /\ UNCHANGED <<items, dn, policy, notices, jobs, spawned, booting, awaited, closing>>
        /\ IF Picked = {} THEN passes' = passes
           ELSE \E c \in Configs : passes' = [passes EXCEPT ![x] = NewPass(x, picked, c.seed)]
    BY <1>0, <1>5 DEF BringUp, list, rules, life, TypeInv, TypeOK, Unchanged
  <2>2. \A d : /\ Snapshot(x, x, d, how(d)).id = d /\ Snapshot(x, x, d, how(d)).gen = x
               /\ Snapshot(x, x, d, how(d)).pass = x
               /\ Snapshot(x, x, d, how(d)).complete => dn[d].status = "completed"
               /\ Snapshot(x, x, d, how(d)) # NoRequest
    BY DEF Snapshot, NoRequest
  <2>3. ASSUME NEW d \in Ids
        PROVE  /\ \A g \in Gens \ {x} : passes'[g] = passes[g]
               /\ IF d \in Picked
                  THEN passes'[x].live /\ passes'[x].req[d] = Snapshot(x, x, d, how(d))
                  ELSE passes'[x].req[d] = NoRequest
    <3>1. passes \in [Gens -> Pass] /\ passes[x].req[d] = NoRequest
      BY <1>1, <2>1, PassFacts
    <3>2. \A s : /\ NewPass(x, picked, s).live
               /\ NewPass(x, picked, s).req[d] = IF d \in Picked THEN picked[d] ELSE NoRequest
      BY DEF NewPass
    <3> HIDE DEF picked
    <3>3. d \in Picked => picked[d] = Snapshot(x, x, d, how(d))
      BY DEF picked
    <3> QED BY <2>1, <3>1, <3>2, <3>3
  <2> HIDE DEF picked, how
  <2>4. ASSUME NEW d \in Ids PROVE InHand(d)'
    <3>1. jobs[d] # NoJob => jobs[d].req.kind = "verify"
      BY <1>0, <2>1 DEF WorkOK, Current, HasClient
    <3>2. WorkOK(d)' /\ (Found(d)' <=> Found(d))
      BY <1>0, <2>1, <2>2, <2>3, <3>1 DEF WorkOK, Found
    <3>3. Coming(d)' = IF d \in Picked THEN Snapshot(x, x, d, how(d)) ELSE NoRequest
      BY <2>1, <2>3 DEF Coming
    <3>4. d \in Picked => Found(d)
      BY DEF Picked, Found
    <3>5. ASSUME Found(d) PROVE Minded(d)'
      <4>1. Minded(d)
        BY <1>0, <3>5
      <4>2. jobs[d] # NoJob => JobMinds(d)'
        BY <1>0, <2>1, <3>1, <4>1 DEF Minded, JobMinds, WorkOK
      <4>3. Waits(d) => d \in Picked
        BY <2>1, <3>5, <4>1 DEF Minded, Waits, Picked, Found
      <4>4. \A r \in spawned' : r.gen # gen'
        BY <1>0, <2>1 DEF Current
      <4>5. Waits(d)' => Coming(d)' # NoRequest
        BY <2>1, <2>2, <3>3, <4>3 DEF Waits
      <4> QED BY <2>1, <2>2, <3>1, <3>3, <4>1, <4>2, <4>4, <4>5 DEF Minded
    <3> QED BY <1>0, <2>1, <3>2, <3>3, <3>4, <3>5 DEF InHand, Untouched
  <2> QED BY <2>1, <2>4 DEF PlanInv, Unchanged
<1> QED BY <1>2, <1>3, <1>4, <1>5

\* What goes on in the background.
LEMMA PlanBackground ==
  ASSUME PlanFacts, TypeInv', Untroubled, NEW ok \in BOOLEAN, Background(ok)
  PROVE  PlanInv'
<1> USE TypeFacts, GenFacts DEF PlanFacts
<1>0. Unchanged /\ \A d \in Ids : WorkOK(d)
  BY DEF PlanInv, InHand
<1>1. ASSUME NEW d \in Ids, Transfer(d) PROVE PlanInv'
  BY <1>1, PlanRefused DEF Transfer, Follows, Download
<1>2. ASSUME NEW r \in spawned, FailSpawned(r, ok) PROVE FALSE
  BY <1>0, <1>2 DEF FailSpawned, WorkOK, TypeInv, TypeOK, Request
<1>3. ASSUME NEW c \in Configs, NEW b \in BOOLEAN, ApplySettings(c, b, ok) PROVE FALSE
  BY <1>0, <1>3 DEF ApplySettings, Unchanged
<1>4. ASSUME RestoreStart \/ Quit(ok) PROVE FALSE
  BY <1>0, <1>4 DEF RestoreStart, Quit, Unchanged
<1> QED BY <1>1, <1>2, <1>3, <1>4, PlanTick, PlanJobs, PlanBegin, PlanPasses, PlanClient
        DEF Background

LEMMA PlanInit ==
  ASSUME Init, net = "down"
  PROVE  PlanInv
<1>1. /\ items = disk.items /\ dn = Loaded(disk) /\ awaited = {} /\ spawned = {} /\ ~booting
      /\ ~closing /\ notices = {} /\ policy.saved \in Configs /\ resume.all
      /\ \A d \in Ids : jobs[d] = NoJob
      /\ passes = [g \in Gens |-> DeadPass] /\ gen \in Gens
  BY GenFacts DEF Init, Booted, NoResume
<1>2. \A g \in Gens, d \in Ids : passes[g].req[d] = NoRequest
  BY <1>1 DEF DeadPass, NoReqs
<1>3. \A d \in Ids : dn[d].status \notin {"metadata", "verifying"}
  BY <1>1, ManagerConstants DEF Init, Loaded, Store, Record, Settled
<1>4. ASSUME NEW d \in Ids PROVE InHand(d)
  BY <1>1, <1>2, <1>3 DEF InHand, WorkOK, Minded, Untouched, Coming
<1> QED BY <1>1, <1>4 DEF PlanInv, Unchanged

LEMMA PlanInvariant ==
  ASSUME Untroubled
  PROVE  Spec /\ net = "down" => []PlanInv
<1>1. PlanFacts /\ TypeInv' /\ [Next]_vars => PlanInv'
  <2> SUFFICES ASSUME PlanFacts, TypeInv', [Next]_vars PROVE PlanInv'
    OBVIOUS
  <2>1. CASE UNCHANGED vars
    BY <2>1, PlanRefused DEF vars, list, Follows
  <2> QED BY <2>1, PlanRequests, PlanEnvironment, PlanBackground DEF Next
<1>2. Init /\ net = "down" => PlanInv
  BY PlanInit
<1> QED BY <1>1, <1>2, OnceInvariant, ClientInvariant, UploadInvariant, PTL DEF PlanFacts, Spec

\* While the settings stay as they are, no download is forgotten whatever the network does:
\* one that is being checked has a job, or one on its way, and when all work is over every
\* queued download has its torrent, however often the client was taken down and put up
\* between two steps of the jobs, the passes and the requests of the user.
THEOREM NothingIsForgotten ==
  ASSUME Untroubled
  PROVE  Spec /\ net = "down" => []NothingForgotten
<1>1. TypeInv /\ PlanInv => NothingForgotten
  <2> SUFFICES ASSUME TypeInv, PlanInv, NEW d \in Range(items)
               PROVE  /\ dn[d].status \in {"verifying", "metadata"} => Answerable(d)
                      /\ Quiet => (dn[d].status \in {"queued", "downloading"} => dn[d].engine # 0)
    BY DEF NothingForgotten, NobodyStranded, QueuedHasTorrent
  <2>1. d \in Ids /\ WorkOK(d) /\ Minded(d) /\ Unchanged /\ gen \in Gens
    BY TypeFacts DEF PlanInv, InHand, Found
  <2>2. dn[d].status \in {"verifying", "metadata"} => Answerable(d)
    BY <2>1 DEF Minded, Answerable, WorkOK
  <2>3. Quiet /\ dn[d].status \in {"queued", "downloading"} => dn[d].engine # 0
    BY <2>1 DEF Quiet, Minded, Waits, Coming, WorkOK, Busy
  <2> QED BY <2>2, <2>3
<1> QED BY <1>1, PlanInvariant, TypeInvariant, PTL
=============================================================================
