------------------------------ MODULE AccountSync ------------------------------
(***************************************************************************)
(* The library of one account on several devices: the passes that put its    *)
(* play time, status, removals and settings together with what the server    *)
(* holds, for one game and one setting.                                      *)
(*                                                                           *)
(* A status is the moment it was set, a setting the number of the change.    *)
(* Abstracted: titles, other fields that the later stamp wins, the chunks of *)
(* a request, the features of the server, tokens (a change of account ends   *)
(* the pass like a failed request), ForgetRemote.                            *)
(***************************************************************************)
EXTENDS Naturals, FiniteSets, SequencesExt

CONSTANTS Devices,
          Owners, \* the sets of devices that may begin with the card
          Bounds, \* how often each thing in Counted may happen
          MaxAsked, \* ... and how often the users do anything
          Events  \* the steps the bounds below leave out

Things == {"plays", "marks", "sets", "removals", "adds", "faults"}

ASSUME AccountSyncConstants ==
  /\ IsFiniteSet(Devices) /\ Owners \subseteq SUBSET Devices /\ Bounds \in [Things -> Nat] /\ MaxAsked \in Nat
  /\ Events \subseteq {"playMidPass", "playBehind", "removeAgain"}

VARIABLES
  lib,     \* the card of the game in each library
  sett,    \* the setting of each device
  mem,     \* syncState in memory
  disk,    \* ... and as it is stored
  pass,    \* what a Sync has read and worked out so far
  srv,     \* what the server holds (external)
  now,     \* the clock of the stamps
  done,    \* how often each thing has happened
  mine,    \* seconds played on a device that had synchronised: history
  readded  \* the user put the card back himself: history

vars == <<lib, sett, mem, disk, pass, srv, now, done, mine, readded>>

Counted(thing) == done[thing] < Bounds[thing] /\ done' = [done EXCEPT ![thing] = @ + 1]
Asked(thing) == /\ done["plays"] + done["marks"] + done["sets"] + done["removals"] + done["adds"] < MaxAsked
                /\ Counted(thing)
Larger(x, y) == IF x >= y THEN x ELSE y
Excess(x, y) == IF x > y THEN x - y ELSE 0

NoCard == [has |-> FALSE, kept |-> FALSE, secs |-> 0, mark |-> 0]
NewCard == [NoCard EXCEPT !.has = TRUE]            \* AddCatalogGame

\* gameState, present or not.
NoGame == [on |-> FALSE, dev |-> 0, base |-> 0]
emptyState == [id |-> 0, rev |-> 0, game |-> NoGame, removed |-> 0, tomb |-> FALSE]

\* putRequest: the card with the counter of the device, or the stamp of its removal.
NoPush == [game |-> FALSE, id |-> 0, dev |-> 0, mark |-> 0, removed |-> 0, restored |-> 0, rev |-> 0, sett |-> 0]
\* A server that knows nothing; and no pass, the last fields of which are the answer it
\* got and what it did to the card because of it.
NoAnswer == [known |-> FALSE, removed |-> FALSE, at |-> 0, rows |-> [d \in Devices |-> <<>>],
             mark |-> 0, rev |-> 0, sett |-> 0]
NoPass == [at |-> "idle", retry |-> TRUE, seen |-> NoCard,
           push |-> NoPush, new |-> emptyState, got |-> NoAnswer, did |-> "nothing"]

At(d, step) == pass[d].at = step
Goto(d, step) == pass' = [pass EXCEPT ![d].at = step]
End(d) == pass' = [pass EXCEPT ![d] = NoPass]

----------------------------------------------------------------------------
(* The server, as the client takes it to be (external) *)

Sum(seq) == FoldSeq(LAMBDA x, y : x + y, 0, seq)
Total(answer) == MapThenSumSet(LAMBDA d : Sum(answer.rows[d]), Devices)

\* A request is of one revision of the settings.  Each device has a counter of its
\* own and a request carries its whole value; the later stamp wins a status, and
\* says whether the game is removed; a removal takes the counters with it, and the
\* card of a removed game is only taken with the stamp that puts it in again.
\* The ids of a device are the places of its counters; without one it takes the next.
IdOf(d, p) == IF p.id = 0 THEN Len(srv.rows[d]) + 1 ELSE p.id

Takes(d, p) ==
  LET removes  == p.removed > srv.at
      restores == p.restored > srv.at
      active   == p.game /\ (restores \/ ~srv.removed)
  IN  [known   |-> srv.known \/ removes \/ active,
       removed |-> (srv.removed /\ ~restores) \/ removes,
       at      |-> Larger(srv.at, Larger(p.removed, p.restored)),
       rows    |-> [e \in Devices |->
                      LET row == IF e = d /\ p.id = 0 THEN Append(srv.rows[e], 0) ELSE srv.rows[e]
                      IN  CASE removes -> [i \in DOMAIN row |-> 0]
                            [] ~removes /\ e = d /\ active -> [row EXCEPT ![IdOf(d, p)] = p.dev]
                            [] OTHER -> row],
       mark    |-> IF active THEN Larger(srv.mark, p.mark) ELSE srv.mark,
       rev     |-> srv.rev + (IF p.sett # srv.sett THEN 1 ELSE 0),
       sett    |-> p.sett]

----------------------------------------------------------------------------
(* attempt: the removals of this device are written down first *)

\* detectLocalRemovals: the stamp of a removal that is not confirmed yet.
Detected(d) == IF lib[d].has THEN 0
               ELSE IF mem[d].removed = 0 /\ mem[d].game.on THEN now + 1
               ELSE mem[d].removed

\* Sync, or the second attempt after a conflict.  A removal is written down first;
\* when that fails the pass ends.
Begin(d) ==
  LET gone == Detected(d)
      st   == [mem[d] EXCEPT !.removed = gone]
  IN  /\ At(d, "idle") \/ At(d, "again")
      /\ now' = Larger(now, gone)
      /\ \/ /\ mem' = [mem EXCEPT ![d] = st] /\ UNCHANGED done
            /\ disk' = IF st # mem[d] THEN [disk EXCEPT ![d] = st] ELSE disk
            /\ pass' = [pass EXCEPT ![d] = [NoPass EXCEPT !.at = "get", !.seen = lib[d],
                                                           !.retry = At(d, "idle")]]
         \/ st # mem[d] /\ Counted("faults") /\ End(d) /\ UNCHANGED <<mem, disk>>
      /\ UNCHANGED <<lib, sett, srv, mine, readded>>

----------------------------------------------------------------------------
(* attempt: what the server holds, and what the two sides come to *)

\* A card that is here again after this device had heard of its removal.
Restores(d, got) == pass[d].seen.has /\ got.removed /\ mem[d].tomb

\* applyRemoteRemovals, hydrate.
RemovesCard(d) == pass[d].seen.has /\ srv.removed /\ ~Restores(d, srv)
AddsCard(d) == srv.known /\ ~srv.removed /\ ~pass[d].seen.has /\ mem[d].removed = 0

\* mutant: a device that has no id counts from zero.
Delta_FromZero(d, local, got) == Excess(local.secs, mem[d].game.base)

\* A device without an id takes what the server has for its own time.
Delta(d, local, got) ==
  Excess(local.secs, IF mem[d].id # 0 THEN mem[d].game.base ELSE Total(got))

\* mutant: the counter of the device is not looked at.
UpToDate_Status(d, got, dev, mark) == got.known /\ got.mark = mark

upToDate(d, got, dev, mark) ==
  /\ got.known /\ got.mark = mark
  /\ mem[d].game.on /\ mem[d].game.dev = dev

\* mutant: a removal counts as heard although the card is still here.
Heard_Always(d, got, local) == got.removed /\ ~Restores(d, got)

\* The tombstones of the answer the device has followed.
Heard(d, got, local) == got.removed /\ ~Restores(d, got) /\ ~local.has

\* The results of the pass for the card as it is now; "skip" says that a removal
\* was followed, whether or not the installation stays.
Work(d, got, local, skip, setting) ==
  LET st   == mem[d]
      has  == local.has /\ ~skip
      dev  == IF has THEN st.game.dev + Delta(d, local, got) ELSE 0
      secs == IF has THEN Larger(local.secs, Total(got)) ELSE 0
      mark == IF has THEN Larger(local.mark, got.mark) ELSE 0
      idle == setting = got.sett /\ st.id # 0 /\ st.removed = 0 /\ (has => upToDate(d, got, dev, mark))
      game == CASE has -> [on |-> TRUE, dev |-> dev, base |-> secs]
                [] ~has /\ (st.removed # 0 \/ skip) -> NoGame
                [] OTHER -> st.game
  IN  [pass[d] EXCEPT
         !.at = IF idle THEN "save" ELSE "put",
         !.seen = [local EXCEPT !.has = has, !.secs = secs, !.mark = mark],
         !.push = IF idle THEN NoPush ELSE
                    [game |-> has, id |-> st.id, dev |-> dev, mark |-> mark, removed |-> st.removed,
                     restored |-> IF has /\ Restores(d, got) THEN now + 1 ELSE 0, rev |-> got.rev, sett |-> setting],
         !.new = [id |-> st.id, rev |-> got.rev, game |-> game, removed |-> 0,
                  tomb |-> (st.tomb \/ st.removed # 0 \/ Heard(d, got, local)) /\ ~Restores(d, got)],
         !.got = NoAnswer, !.did = "nothing"]

\* The settings of a newer revision are taken over, and the card is removed or added, or
\* that fails and the pass goes on; an installation stays.  Or the request or the write of
\* the settings fails and the pass ends.
Fetch(d) ==
  LET setting == IF srv.rev # mem[d].rev THEN srv.sett ELSE sett[d]
      Did(what) == pass' = [pass EXCEPT ![d].at = "look", ![d].got = srv, ![d].did = what]
      Nothing == pass' = [pass EXCEPT ![d] = Work(d, srv, pass[d].seen, FALSE, setting)]
                 /\ UNCHANGED <<lib, mine, readded>>
  IN  /\ At(d, "get")
      /\ \/ /\ now' = IF Restores(d, srv) THEN now + 1 ELSE now
            /\ sett' = [sett EXCEPT ![d] = setting]
            /\ \/ /\ RemovesCard(d) /\ Did("removed")
                  /\ lib' = [lib EXCEPT ![d] = IF @.kept THEN @ ELSE NoCard]
                  /\ mine' = [mine EXCEPT ![d] = IF lib'[d].has THEN @ ELSE 0]
                  /\ readded' = [readded EXCEPT ![d] = FALSE] /\ UNCHANGED done
               \/ /\ AddsCard(d) /\ Did("added")
                  /\ lib' = [lib EXCEPT ![d] = IF @.has THEN @ ELSE NewCard]
                  /\ readded' = [readded EXCEPT ![d] = @ /\ lib[d].has] /\ UNCHANGED <<done, mine>>
               \/ (RemovesCard(d) \/ AddsCard(d)) /\ Counted("faults") /\ Nothing
               \/ ~RemovesCard(d) /\ ~AddsCard(d) /\ Nothing /\ UNCHANGED done
         \/ /\ Counted("faults") /\ End(d)
            /\ UNCHANGED <<lib, sett, now, mine, readded>>
      /\ UNCHANGED <<mem, disk, srv>>

\* The library is read again after a card was removed or added; the user may have been
\* there in between.
Look(d) ==
  /\ At(d, "look")
  /\ pass' = [pass EXCEPT ![d] = Work(d, pass[d].got, lib[d], pass[d].did = "removed", sett[d])]
  /\ UNCHANGED <<lib, sett, mem, disk, srv, now, done, mine, readded>>

----------------------------------------------------------------------------
(* attempt: the request, and what is kept of it *)

Keeps(d, st) ==
  /\ disk' = [disk EXCEPT ![d] = st]
  /\ pass' = [pass EXCEPT ![d].at = "apply", ![d].push = NoPush, ![d].new = st]

\* What the server answers is written down: nobody else reads either in between.
\* When the answer is lost or the write fails the pass ends.
Taken(d, p) ==
  /\ p.rev = srv.rev /\ srv' = Takes(d, p)
  /\ \/ Keeps(d, [pass[d].new EXCEPT !.rev = srv'.rev, !.id = IdOf(d, p)]) /\ UNCHANGED done
     \/ Counted("faults") /\ End(d) /\ UNCHANGED disk

\* A request of another revision is refused and the pass begins again, once.
Conflict(d, p) ==
  /\ p.rev # srv.rev
  /\ pass' = [pass EXCEPT ![d] = IF pass[d].retry THEN [NoPass EXCEPT !.at = "again"] ELSE NoPass]
  /\ UNCHANGED <<srv, disk, done>>

\* The request does not arrive, or a pass without one does not get its state written.
Lost(d) == Counted("faults") /\ End(d) /\ UNCHANGED <<srv, disk>>

Put(d) ==
  /\ At(d, "put") /\ (Taken(d, pass[d].push) \/ Conflict(d, pass[d].push) \/ Lost(d))
  /\ UNCHANGED <<lib, sett, mem, now, mine, readded>>

\* A pass that has nothing to say only writes its state.
Save(d) ==
  /\ At(d, "save") /\ ((Keeps(d, pass[d].new) /\ UNCHANGED <<srv, done>>) \/ Lost(d))
  /\ UNCHANGED <<lib, sett, mem, now, mine, readded>>

\* ApplySync: play time and stamps only ever grow.
Merged(card, with) ==
  IF card.has /\ with.has
    THEN [card EXCEPT !.secs = Larger(@, with.secs), !.mark = Larger(@, with.mark)] ELSE card

\* The memory takes the new state only when the library has been written.
Apply(d) ==
  LET card == Merged(lib[d], pass[d].seen)
  IN  /\ At(d, "apply") /\ End(d)
      /\ \/ /\ lib' = [lib EXCEPT ![d] = card] /\ mem' = [mem EXCEPT ![d] = pass[d].new]
            /\ UNCHANGED done
         \/ card # lib[d] /\ Counted("faults") /\ UNCHANGED <<lib, mem>>
      /\ UNCHANGED <<sett, disk, srv, now, mine, readded>>

----------------------------------------------------------------------------
(* What happens around it *)

\* A second of play.  Two bounds: not inside a pass, which takes the larger of the
\* two totals for both; and not on a card that is behind what was written down of
\* it (the launcher died before the card was written, or the card was put in again
\* before a pass had missed it), whose seconds count as heard from the server.
Play(d) ==
  /\ lib[d].has /\ Asked("plays")
  /\ At(d, "idle") \/ "playMidPass" \in Events
  /\ "playBehind" \in Events \/ \A st \in {mem[d], disk[d]} : st.game.base <= lib[d].secs
  /\ lib' = [lib EXCEPT ![d].secs = @ + 1]
  /\ mine' = IF mem[d].id # 0 THEN [mine EXCEPT ![d] = @ + 1] ELSE mine
  /\ UNCHANGED <<sett, mem, disk, pass, srv, now, readded>>

Mark(d) ==
  /\ lib[d].has /\ Asked("marks") /\ now' = now + 1
  /\ lib' = [lib EXCEPT ![d].mark = now + 1]
  /\ UNCHANGED <<sett, mem, disk, pass, srv, mine, readded>>

Set(d) ==
  /\ Asked("sets") /\ sett' = [sett EXCEPT ![d] = done["sets"] + 1]
  /\ UNCHANGED <<lib, mem, disk, pass, srv, now, mine, readded>>

\* The user removes the card.  A bound: not once it has been put in again; a device
\* that remembers the earlier removal may take the later one back.
RemoveGame(d) ==
  /\ lib[d].has /\ Asked("removals")
  /\ "removeAgain" \in Events \/ done["adds"] = 0
  /\ lib' = [lib EXCEPT ![d] = NoCard] /\ mine' = [mine EXCEPT ![d] = 0]
  /\ UNCHANGED <<sett, mem, disk, pass, srv, now, readded>>

\* The user puts the game in, as a card or installed.
AddGame(d) ==
  /\ ~lib[d].has /\ Asked("adds")
  /\ \E kept \in BOOLEAN : lib' = [lib EXCEPT ![d] = [NewCard EXCEPT !.kept = kept]]
  /\ readded' = [readded EXCEPT ![d] = TRUE]
  /\ UNCHANGED <<sett, mem, disk, pass, srv, now, mine>>

\* The launcher dies and starts again.
Crash(d) ==
  /\ Counted("faults") /\ End(d) /\ mem' = [mem EXCEPT ![d] = disk[d]]
  /\ UNCHANGED <<lib, sett, disk, srv, now, mine, readded>>

----------------------------------------------------------------------------
Init ==
  /\ \E own \in Owners : lib = [d \in Devices |-> IF d \in own THEN NewCard ELSE NoCard]
  /\ sett = [d \in Devices |-> 0]
  /\ mem = [d \in Devices |-> emptyState] /\ disk = mem /\ pass = [d \in Devices |-> NoPass]
  /\ srv = NoAnswer
  /\ now = 0 /\ done = [t \in Things |-> 0]
  /\ mine = [d \in Devices |-> 0] /\ readded = [d \in Devices |-> FALSE]

Sync(d) == Begin(d) \/ Fetch(d) \/ Look(d) \/ Put(d) \/ Save(d) \/ Apply(d)
User(d) == Play(d) \/ Mark(d) \/ Set(d) \/ RemoveGame(d) \/ AddGame(d)

Next == \E d \in Devices : Sync(d) \/ User(d) \/ Crash(d)

Spec == Init /\ [][Next]_vars

\* The schedule of each launcher begins a pass at every tick and finishes it.
FairSpec == Spec /\ \A d \in Devices : WF_vars(Sync(d))

----------------------------------------------------------------------------
(* Properties *)

\* The values of the variables; a device shows nothing of a card it has not, and between
\* two passes nothing is left of the first.
TypeOK ==
  /\ \A d \in Devices :
       /\ {lib[d].secs, mine[d]} \cup Range(srv.rows[d]) \subseteq 0 .. Bounds["plays"]
       /\ {lib[d].mark, mem[d].removed, disk[d].removed} \subseteq 0 .. now
       /\ ~lib[d].has => lib[d] = NoCard
       /\ pass[d].at \in {"idle", "get", "look", "put", "save", "apply", "again"}
       /\ pass[d].at = "idle" => pass[d] = NoPass
  /\ DOMAIN srv = {"known", "removed", "at", "rows", "mark", "rev", "sett"}
  /\ sett \in [Devices -> 0 .. Bounds["sets"]] /\ done \in [Things -> Nat]

\* No second is counted twice: what the server adds up, and what any device shows,
\* is at most what was played, whatever was repeated (service.go's baseline).
NeverTwice == Total(srv) <= done["plays"] /\ \A d \in Devices : lib[d].secs <= done["plays"]

\* What a device plays once it has synchronised is in its counter or still to be sent.
NothingMissed ==
  \A d \in Devices :
    At(d, "idle") /\ mem[d].id # 0 /\ lib[d].has =>
      mem[d].game.dev + Excess(lib[d].secs, mem[d].game.base) >= mine[d]

\* The state is well formed and the play time adds up.
Consistent == TypeOK /\ NeverTwice /\ NothingMissed

\* A removal is taken back only for a user who put the card back himself: the card
\* a device has not removed yet does not bring it back (applyRemoteRemovals).
RestoredOnPurpose ==
  [][srv.removed /\ ~srv'.removed => \E d \in Devices : At(d, "put") /\ readded[d]]_vars

\* Once the users leave them alone, the devices show what the server holds; its
\* play time for a game nobody has removed (what becomes of the counters of a game
\* that is removed and put in again is the business of the server).
Converges ==
  <>[](\A d \in Devices :
         /\ sett[d] = srv.sett
         /\ srv.removed => ~lib[d].has \/ lib[d].kept
         /\ srv.known /\ ~srv.removed =>
              /\ lib[d].has /\ lib[d].mark = srv.mark
              /\ done["removals"] = 0 => lib[d].secs = Total(srv))
================================================================================
