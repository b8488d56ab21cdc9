------------------------------ MODULE AuditLog ------------------------------
(***************************************************************************)
(* The hash-chained audit log of one worker run (core/auditLogger.ts), as  *)
(* the two loops of apps/worker/src/worker.ts write it.  append() builds   *)
(* its event from the last hash it has in memory, awaits the write of the  *)
(* line, and only then moves the last hash: two appends of different loops *)
(* may be in flight together.                                              *)
(*                                                                         *)
(* A digest stands for everything it covers: it is the sequence of the     *)
(* contents of the event and of its predecessors, so that two digests are  *)
(* equal only when all of it is.  Contents are numbers, each one used once *)
(* (the code's contents hold a timestamp, a mandate and a stage).  A write *)
(* either lands as one whole line or fails leaving nothing.  The log of a  *)
(* run is a file of its own (worker.ts:723), so a restart begins another.  *)
(***************************************************************************)
EXTENDS Integers, Sequences, FiniteSetsExt, SequencesExt

CONSTANTS
  Main, Watch,     \* the two loops
  MaxContent       \* bound: appends attempted in one run

ASSUME LoopsAssumption == Main # Watch
ASSUME BoundAssumption == MaxContent \in Nat

VARIABLES
  file,            \* the lines of <runId>.jsonl
  lastHash,        \* AuditLogger.lastHash
  flight,          \* the append each loop awaits, and how far it is
  built,           \* contents used so far
  mandate,         \* the candidate whose trail the main loop writes
  place,           \* the next stage of that trail
  overlapped       \* history: two appends have been in flight together

vars == <<file, lastHash, flight, built, mandate, place, overlapped>>

Loop == {Main, Watch}
Trail == <<"perception", "decision", "economics", "risk", "execution">>
Execution == Len(Trail)
Stage == {"recovery", "watchdog", "perception", "decision", "economics", "risk", "execution"}
Genesis == <<>>
Digest == Seq(Nat)

HashEvent(content, previous) == Append(previous, content)

BuildEvent(l, m, stage, previous) ==
  [by |-> l, mandate |-> m, stage |-> stage, content |-> built + 1,
   prev |-> previous, hash |-> HashEvent(built + 1, previous)]

Event == [by : Loop, mandate : Nat, stage : Stage, content : Nat,
          prev : Digest, hash : Digest]

Idle == [phase |-> "idle"]
Appending == [phase : {"writing", "written"}, event : Event]
-----------------------------------------------------------------------------
(***************************************************************************)
(* verifyChain: the index, from 0, of the first event that does not follow *)
(* from the one before, or -1.                                             *)
(***************************************************************************)
FollowsUnhashed(log, i) ==   \* A plausible mistake: the digest is not recomputed
  log[i].prev = IF i = 1 THEN Genesis ELSE log[i - 1].hash

Follows(log, i) ==
  /\ log[i].prev = IF i = 1 THEN Genesis ELSE log[i - 1].hash
  /\ log[i].hash = HashEvent(log[i].content, log[i].prev)

VerifyChain(log) ==
  LET breaks == {i \in 1..Len(log) : ~Follows(log, i)}
  IN IF breaks = {} THEN -1 ELSE Min(breaks) - 1
-----------------------------------------------------------------------------
(***************************************************************************)
(* The run starts with the recovery event, before either loop exists; if   *)
(* its append throws, so does the start.                                   *)
(***************************************************************************)
Init ==
  /\ file = <<[by |-> Main, mandate |-> 0, stage |-> "recovery", content |-> 0,
               prev |-> Genesis, hash |-> HashEvent(0, Genesis)]>>
  /\ lastHash = HashEvent(0, Genesis)
  /\ flight = [l \in Loop |-> Idle]
  /\ built = 0
  /\ mandate = 1
  /\ place = 1
  /\ overlapped = FALSE

(* append() up to its await: the pointer is read here. *)
AppendStarts(l, m, stage) ==
  /\ flight[l] = Idle
  /\ built < MaxContent
  /\ flight' = [flight EXCEPT ![l] =
                  [phase |-> "writing", event |-> BuildEvent(l, m, stage, lastHash)]]
  /\ built' = built + 1
  /\ overlapped' = (overlapped \/ \E k \in Loop : flight[k] # Idle)
  /\ UNCHANGED <<file, lastHash, mandate, place>>

(* x402 receipts and changes of the week state, between two candidates. *)
MainCycleEvent == place = 1 /\ \E s \in {"perception", "risk"} : AppendStarts(Main, 0, s)

(* The four events of a candidate, then the execution event of a winner. *)
MainTrailEvent == AppendStarts(Main, mandate, Trail[place])

(* A candidate that is no winner, or whose trade was refused or failed. *)
MainNextCandidate ==
  /\ flight[Main] = Idle
  /\ place = Execution
  /\ mandate' = mandate + 1
  /\ place' = 1
  /\ UNCHANGED <<file, lastHash, flight, built, overlapped>>

(* The exit of a position that an earlier or this candidate opened. *)
WatchExitEvent == \E m \in 1..mandate : AppendStarts(Watch, m, "watchdog")

LineLands(l) ==
  /\ flight[l].phase = "writing"
  /\ file' = Append(file, flight[l].event)
  /\ flight' = [flight EXCEPT ![l].phase = "written"]
  /\ UNCHANGED <<lastHash, built, mandate, place, overlapped>>

(* Where the main loop goes on when the append it awaited is over: one     *)
(* try holds the four events of a candidate, so that a failure skips the   *)
(* rest of them.                                                           *)
TrailRetried(stands) ==   \* A plausible mistake: a try around each append
  IF flight[Main].event.mandate = 0 THEN UNCHANGED <<mandate, place>>
  ELSE /\ place' = IF place = Execution THEN 1 ELSE place + 1
       /\ mandate' = IF place = Execution THEN mandate + 1 ELSE mandate

TrailGoesOn(stands) ==
  IF flight[Main].event.mandate = 0 THEN UNCHANGED <<mandate, place>>
  ELSE /\ place' = IF place = Execution THEN 1
                   ELSE IF stands THEN place + 1 ELSE Execution
       /\ mandate' = IF place = Execution THEN mandate + 1 ELSE mandate

(* append() after its await: the pointer moves. *)
AppendKeepsPointer(l) ==   \* A plausible mistake: the pointer is not moved
  /\ flight[l].phase = "written"
  /\ flight' = [flight EXCEPT ![l] = Idle]
  /\ IF l = Main THEN TrailGoesOn(TRUE) ELSE UNCHANGED <<mandate, place>>
  /\ UNCHANGED <<file, lastHash, built, overlapped>>

AppendResumes(l) ==
  /\ flight[l].phase = "written"
  /\ lastHash' = flight[l].event.hash
  /\ flight' = [flight EXCEPT ![l] = Idle]
  /\ IF l = Main THEN TrailGoesOn(TRUE) ELSE UNCHANGED <<mandate, place>>
  /\ UNCHANGED <<file, built, overlapped>>

(* The write fails and append() throws: the pointer stays. *)
AppendFails(l) ==
  /\ flight[l].phase = "writing"
  /\ flight' = [flight EXCEPT ![l] = Idle]
  /\ IF l = Main THEN TrailGoesOn(FALSE) ELSE UNCHANGED <<mandate, place>>
  /\ UNCHANGED <<file, lastHash, built, overlapped>>

Next ==
  \/ MainCycleEvent \/ MainTrailEvent \/ MainNextCandidate \/ WatchExitEvent
  \/ \E l \in Loop : LineLands(l) \/ AppendResumes(l) \/ AppendFails(l)

Spec == Init /\ [][Next]_vars
-----------------------------------------------------------------------------
TypeOK ==
  /\ file \in Seq(Event)
  /\ lastHash \in Digest
  /\ flight \in [Loop -> {Idle} \cup Appending]
  /\ built \in 0..MaxContent
  /\ mandate \in Nat \ {0}
  /\ place \in 1..Execution
  /\ overlapped \in BOOLEAN

(***************************************************************************)
(* What the worker relies on (worker.ts:1848-1850, "so the chain stays     *)
(* intact"): a reader of the log finds no break.                           *)
(***************************************************************************)
ChainIntact == VerifyChain(file) = -1

(***************************************************************************)
(* The chain only ever breaks by two appends in flight together: failed    *)
(* writes alone do not break it, whatever they interrupt.                  *)
(***************************************************************************)
IntactUnlessOverlapped == ~overlapped => ChainIntact

(***************************************************************************)
(* Even with a broken chain nothing dangles: every event names, as its     *)
(* predecessor, the genesis or an event on an earlier line.                *)
(***************************************************************************)
LinksPointBack ==
  \A i \in 1..Len(file) :
    \/ file[i].prev = Genesis
    \/ \E j \in 1..(i - 1) : file[i].prev = file[j].hash

(***************************************************************************)
(* One loop never forks the chain by itself: two events with the same      *)
(* predecessor were written by different loops, so that every event has    *)
(* two successors at most.                                                 *)
(***************************************************************************)
ForksJoinTwoLoops ==
  \A i, j \in 1..Len(file) :
    i # j /\ file[i].prev = file[j].prev => file[i].by # file[j].by

(***************************************************************************)
(* "The replay timeline reads perception, decision, economics, risk,       *)
(* execution" (worker.ts:1846-1848): of a candidate the log holds an       *)
(* initial part of its decision events, in that order and each once, and   *)
(* its execution event, if any, after them.                                *)
(***************************************************************************)
OfCandidate(e, m) == e.by = Main /\ e.mandate = m
ReadsInOrder(log, m) ==
  \A j \in 1..Len(log) : OfCandidate(log[j], m) =>
    \E k \in 1..Execution :
      /\ log[j].stage = Trail[k]
      /\ \A i \in 1..(j - 1) : OfCandidate(log[i], m) => \E h \in 1..(k - 1) : log[i].stage = Trail[h]
      /\ k < Execution => \A h \in 1..(k - 1) : \E i \in 1..(j - 1) :
                            OfCandidate(log[i], m) /\ log[i].stage = Trail[h]
TrailsReadInOrder == \A m \in 1..mandate : ReadsInOrder(file, m)

\* A made-up line that follows the line before line i.
Chained(i, c) == [file[i] EXCEPT !.content = c, !.hash = HashEvent(c, file[i].prev)]

(***************************************************************************)
(* The log proves that "no event was altered or removed"                   *)
(* (auditLogger.ts:4-7), as far as a chain can: when it verifies, it does  *)
(* not after the loss of one line other than the last, after two lines     *)
(* have changed places, after the content of one event has changed, or     *)
(* after one line was put in before another, a copy of a line or a made-up *)
(* one that follows its predecessor, of a content that no event has.  What *)
(* is appended at the end, or cut off there, does not show.                *)
(***************************************************************************)
EditsDetected ==
  ChainIntact =>
    /\ \A i \in 1..(Len(file) - 1) : VerifyChain(RemoveAt(file, i)) # -1
    /\ \A i, j \in 1..Len(file) : i < j =>
         VerifyChain([file EXCEPT ![i] = file[j], ![j] = file[i]]) # -1
    /\ \A i \in 1..Len(file), c \in 0..built : c # file[i].content =>
         VerifyChain([file EXCEPT ![i].content = c]) # -1
    /\ \A i \in 1..Len(file) : \A e \in ToSet(file) \cup {Chained(i, built + 1)} :
         VerifyChain(InsertAt(file, i, e)) # -1
=============================================================================
