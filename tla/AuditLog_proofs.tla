--------------------------- MODULE AuditLog_proofs ---------------------------
(***************************************************************************)
(* What holds of the audit log for every number of appends: where its      *)
(* links point, who may fork the chain, that it is intact as long as no    *)
(* two appends have been in flight together, and that a chain that is      *)
(* intact shows what is done to it afterwards.                             *)
(***************************************************************************)
EXTENDS AuditLog, SequenceTheorems, NaturalsInduction, WellFoundedInduction, TLAPS

(* The lines of the file are numbered 1..Len(file). *)
Known(d) == d = Genesis \/ \E j \in 1..Len(file) : file[j].hash = d

(***************************************************************************)
(* The pointer, the predecessor of an event in flight and the event of a   *)
(* written line are in the file.                                           *)
(***************************************************************************)
PointersKnown ==
  /\ Known(lastHash)
  /\ \A l \in Loop : flight[l] # Idle => Known(flight[l].event.prev)
  /\ \A l \in Loop : flight[l].phase = "written" =>
       \E j \in 1..Len(file) : file[j] = flight[l].event

(* Digests end in the content of their event, and contents are used once. *)
Old(d) == d = Genesis \/ d[Len(d)] <= built
ContentsUsed ==
  /\ Old(lastHash)
  /\ \A i \in 1..Len(file) : Old(file[i].prev) /\ Old(file[i].hash)
  /\ \A l \in Loop : flight[l] # Idle => Old(flight[l].event.prev) /\ Old(flight[l].event.hash)

(* Nobody has built on an event before the pointer has reached it. *)
NotYetBuiltOn ==
  \A l \in Loop : flight[l] # Idle =>
    /\ flight[l].event.by = l
    /\ flight[l].event.hash # lastHash
    /\ flight[l].event.hash # Genesis
    /\ \A i \in 1..Len(file) : file[i].prev # flight[l].event.hash
    /\ \A k \in Loop : flight[k] # Idle =>
         /\ flight[k].event.prev # flight[l].event.hash
         /\ k # l => flight[k].event.hash # flight[l].event.hash

(* A loop that has built on an event will not meet it again. *)
Retired ==
  /\ \A i \in 1..Len(file) :
       \/ flight[file[i].by].phase = "written" /\ flight[file[i].by].event = file[i]
       \/ file[i].prev # lastHash
  /\ \A l \in Loop : flight[l].phase = "writing" =>
       \A i \in 1..Len(file) : file[i].by = l => file[i].prev # flight[l].event.prev

(* Without overlap the appends take turns and the pointer is the last line. *)
InTurn ==
  ~overlapped =>
    /\ \A k, l \in Loop : flight[k] # Idle /\ flight[l] # Idle => k = l
    /\ \A i \in 1..Len(file) : Follows(file, i)
    /\ Len(file) > 0
    /\ \A l \in Loop : flight[l].phase = "writing" => flight[l].event.prev = lastHash
    /\ \A l \in Loop : flight[l].phase = "written" => flight[l].event.hash = file[Len(file)].hash
    /\ (\A l \in Loop : flight[l].phase # "written") => lastHash = file[Len(file)].hash

(* The hash of an event in flight is its own. *)
HashOwn ==
  \A l \in Loop : flight[l] # Idle =>
    flight[l].event.hash = HashEvent(flight[l].event.content, flight[l].event.prev)

AInv ==
  /\ TypeOK /\ PointersKnown /\ LinksPointBack
  /\ ContentsUsed /\ NotYetBuiltOn /\ Retired /\ ForksJoinTwoLoops
  /\ HashOwn /\ InTurn
-----------------------------------------------------------------------------
(* The kinds of step there are, whatever is logged. *)
Starts(l) == \E m \in Nat, s \in Stage : AppendStarts(l, m, s)

LEMMA StepKinds ==
  ASSUME TypeOK, Next
  PROVE  \/ \E l \in Loop : Starts(l)
         \/ MainNextCandidate
         \/ \E l \in Loop : LineLands(l) \/ AppendResumes(l) \/ AppendFails(l)
<1>1. CASE MainCycleEvent
  BY <1>1 DEF MainCycleEvent, Starts, Loop, Stage
<1>2. CASE MainTrailEvent
  <2>1. mandate \in Nat /\ Trail[place] \in Stage
    BY DEF TypeOK, Trail, Execution, Stage
  <2> QED BY <1>2, <2>1 DEF MainTrailEvent, Starts, Loop
<1>3. CASE WatchExitEvent
  <2>1. PICK m \in 1..mandate : AppendStarts(Watch, m, "watchdog")
    BY <1>3 DEF WatchExitEvent
  <2>2. m \in Nat
    BY DEF TypeOK
  <2> QED BY <2>1, <2>2 DEF Starts, Loop, Stage
<1> QED BY <1>1, <1>2, <1>3 DEF Next

LEMMA DigestType ==
  ASSUME NEW d \in Digest, NEW c \in Nat
  PROVE  /\ HashEvent(c, d) \in Digest
         /\ HashEvent(c, d) # Genesis
         /\ HashEvent(c, d)[Len(HashEvent(c, d))] = c
BY DEF Digest, HashEvent, Genesis

LEMMA NewEvent ==
  ASSUME TypeOK, NEW l \in Loop, NEW m \in Nat, NEW s \in Stage
  PROVE  LET e == BuildEvent(l, m, s, lastHash)
         IN /\ e \in Event /\ e.by = l /\ e.prev = lastHash /\ e.content = built + 1
            /\ e.hash = HashEvent(built + 1, lastHash)
            /\ [phase |-> "writing", event |-> e] \in Appending
<1>1. built + 1 \in Nat /\ lastHash \in Digest
  BY BoundAssumption DEF TypeOK
<1>2. HashEvent(built + 1, lastHash) \in Digest
  BY <1>1, DigestType
<1> QED BY <1>1, <1>2 DEF BuildEvent, Event, Appending

LEMMA TypeNext == TypeOK /\ [Next]_vars => TypeOK'
<1> SUFFICES ASSUME TypeOK, [Next]_vars PROVE TypeOK'
  OBVIOUS
<1>1. CASE UNCHANGED vars
  BY <1>1 DEF TypeOK, vars
<1>2. ASSUME NEW l \in Loop, Starts(l) PROVE TypeOK'
  <2>1. PICK m \in Nat, s \in Stage : AppendStarts(l, m, s)
    BY <1>2 DEF Starts
  <2>2. [phase |-> "writing", event |-> BuildEvent(l, m, s, lastHash)] \in Appending
    BY NewEvent
  <2> QED BY <2>1, <2>2, BoundAssumption DEF AppendStarts, TypeOK
<1>3. CASE MainNextCandidate
  BY <1>3 DEF MainNextCandidate, TypeOK, Execution, Trail
<1>4. ASSUME NEW stands \in BOOLEAN, TrailGoesOn(stands)
      PROVE  mandate' \in Nat \ {0} /\ place' \in 1..Execution
  BY <1>4 DEF TrailGoesOn, TypeOK, Execution, Trail
<1>5. ASSUME NEW l \in Loop, LineLands(l) PROVE TypeOK'
  <2>1. flight[l] \in Appending /\ flight[l].event \in Event
    BY <1>5 DEF LineLands, TypeOK, Idle, Appending
  <2>2. [flight[l] EXCEPT !.phase = "written"] \in Appending
    BY <2>1 DEF Appending
  <2>3. file' \in Seq(Event)
    BY <1>5, <2>1 DEF LineLands, TypeOK
  <2>4. flight' \in [Loop -> {Idle} \cup Appending]
    BY <1>5, <2>2 DEF LineLands, TypeOK
  <2> QED BY <1>5, <2>3, <2>4 DEF LineLands, TypeOK
<1>6. ASSUME NEW l \in Loop, AppendResumes(l) PROVE TypeOK'
  <2>1. flight[l] \in Appending /\ flight[l].event.hash \in Digest
    BY <1>6 DEF AppendResumes, TypeOK, Idle, Appending, Event
  <2>2. mandate' \in Nat \ {0} /\ place' \in 1..Execution
    BY <1>6, <1>4 DEF AppendResumes, TypeOK
  <2> QED BY <1>6, <2>1, <2>2 DEF AppendResumes, TypeOK
<1>7. ASSUME NEW l \in Loop, AppendFails(l) PROVE TypeOK'
  <2>1. mandate' \in Nat \ {0} /\ place' \in 1..Execution
    BY <1>7, <1>4 DEF AppendFails, TypeOK
  <2> QED BY <1>7, <2>1 DEF AppendFails, TypeOK
<1> QED BY <1>1, <1>2, <1>3, <1>5, <1>6, <1>7, StepKinds
-----------------------------------------------------------------------------
(* An append begins: its event builds on the pointer. *)
LEMMA StartKeeps ==
  ASSUME AInv, TypeOK', NEW l \in Loop, Starts(l)
  PROVE  AInv'
<1>1. PICK m \in Nat, s \in Stage : AppendStarts(l, m, s)
  BY DEF Starts
<1> DEFINE e == BuildEvent(l, m, s, lastHash)
<1>2. /\ e \in Event /\ e.by = l /\ e.prev = lastHash /\ e.content = built + 1
      /\ e.hash = HashEvent(built + 1, lastHash)
  BY NewEvent DEF AInv
<1>3. /\ flight[l] = Idle /\ file' = file /\ lastHash' = lastHash /\ built' = built + 1
      /\ flight' = [flight EXCEPT ![l] = [phase |-> "writing", event |-> e]]
      /\ overlapped' = (overlapped \/ \E k \in Loop : flight[k] # Idle)
  BY <1>1 DEF AppendStarts
<1> HIDE DEF e
<1>4. /\ flight'[l].phase = "writing" /\ flight'[l].event = e /\ flight'[l] # Idle
      /\ \A k \in Loop : k # l => flight'[k] = flight[k]
  BY <1>3 DEF AInv, TypeOK, Idle
<1>5. /\ lastHash \in Digest /\ built \in Nat
      /\ \A i \in 1..Len(file) : file[i] \in Event
      /\ \A k \in Loop : flight[k] # Idle => flight[k].event \in Event
  BY BoundAssumption DEF AInv, TypeOK, Appending
<1>6. e.hash \in Digest /\ e.hash # Genesis /\ e.hash[Len(e.hash)] = built + 1
  <2>1. built + 1 \in Nat
    BY <1>5
  <2> QED BY <1>2, <1>5, <2>1, DigestType
<1>7. ASSUME NEW d \in Digest, Old(d) PROVE Old(d)' /\ d # e.hash
  <2>1. CASE d = Genesis
    BY <2>1, <1>6 DEF Old
  <2>2. CASE d # Genesis
    <3>1. d[Len(d)] \in Nat
      BY <2>2 DEF Digest, Genesis
    <3>2. d[Len(d)] <= built
      BY <2>2, <1>7 DEF Old
    <3>3. d[Len(d)] <= built + 1 /\ d[Len(d)] # built + 1
      BY <3>1, <3>2, <1>5
    <3> QED BY <3>3, <1>3, <1>6 DEF Old
  <2> QED BY <2>1, <2>2
<1>8. PointersKnown'
  BY <1>2, <1>3, <1>4 DEF AInv, PointersKnown, Known
<1>9. LinksPointBack'
  BY <1>3 DEF AInv, LinksPointBack
<1>10. ContentsUsed'
  <2>1. Old(lastHash)' /\ \A i \in 1..Len(file) : Old(file[i].prev)' /\ Old(file[i].hash)'
    BY <1>3, <1>5, <1>7 DEF AInv, ContentsUsed, Event
  <2>2. ASSUME NEW k \in Loop, flight'[k] # Idle
        PROVE  Old(flight[k].event.prev)' /\ Old(flight[k].event.hash)'
    <3>1. CASE k = l
      BY <3>1, <1>2, <1>3, <1>4, <1>5, <1>6, <2>1 DEF Old
    <3>2. CASE k # l
      BY <2>2, <3>2, <1>4, <1>5, <1>7 DEF AInv, ContentsUsed, Event
    <3> QED BY <3>1, <3>2
  <2> QED BY <1>3, <2>1, <2>2 DEF ContentsUsed
<1>11. /\ lastHash # e.hash
       /\ \A i \in 1..Len(file) : file[i].prev # e.hash
       /\ \A k \in Loop : flight[k] # Idle =>
            flight[k].event.prev # e.hash /\ flight[k].event.hash # e.hash
  BY <1>5, <1>7 DEF AInv, ContentsUsed, Event
<1>12. NotYetBuiltOn'
  BY <1>2, <1>3, <1>4, <1>6, <1>11 DEF AInv, NotYetBuiltOn
<1>13. Retired'
  BY <1>2, <1>3, <1>4, <1>5 DEF AInv, Retired, Idle, Event
<1>14. ForksJoinTwoLoops'
  BY <1>3 DEF AInv, ForksJoinTwoLoops
<1>15. HashOwn'
  BY <1>2, <1>3, <1>4 DEF AInv, HashOwn
<1>16. InTurn'
  <2> SUFFICES ASSUME ~overlapped' PROVE InTurn'
    BY DEF InTurn
  <2>1. ~overlapped /\ \A k \in Loop : flight[k] = Idle
    BY <1>3
  <2>2. lastHash = file[Len(file)].hash /\ Len(file) > 0 /\ \A i \in 1..Len(file) : Follows(file, i)
    BY <2>1 DEF AInv, InTurn, Idle
  <2>3. \A i \in 1..Len(file') : Follows(file', i)
    BY <2>2, <1>3
  <2>4. \A k \in Loop : k # l => flight'[k] = Idle
    BY <2>1, <1>4
  <2> QED BY <1>2, <1>3, <1>4, <2>2, <2>3, <2>4 DEF InTurn, Idle
<1> QED BY <1>8, <1>9, <1>10, <1>12, <1>13, <1>14, <1>15, <1>16 DEF AInv

(* A line is written: the event of the loop becomes the last one. *)
LEMMA LandKeeps ==
  ASSUME AInv, TypeOK', NEW l \in Loop, LineLands(l)
  PROVE  AInv'
<1> DEFINE e == flight[l].event
           n == Len(file) + 1
<1>1. /\ flight[l].phase = "writing" /\ file' = Append(file, e)
      /\ flight' = [flight EXCEPT ![l].phase = "written"]
      /\ lastHash' = lastHash /\ built' = built /\ overlapped' = overlapped
  BY DEF LineLands
<1>2. flight[l] # Idle /\ e \in Event
  BY <1>1 DEF AInv, TypeOK, Idle, Appending
<1> HIDE DEF e
<1>3. /\ flight'[l].phase = "written" /\ flight'[l].event = e /\ flight'[l] # Idle
      /\ \A k \in Loop : k # l => flight'[k] = flight[k]
      /\ \A k \in Loop : (flight'[k] # Idle) <=> (flight[k] # Idle)
      /\ \A k \in Loop : flight[k] # Idle => flight'[k].event = flight[k].event
  BY <1>1, <1>2 DEF AInv, TypeOK, Idle, e, Appending
<1>4. /\ Len(file) \in Nat /\ Len(file') = n /\ file'[n] = e
      /\ \A i \in 1..Len(file) : file'[i] = file[i] /\ file[i] \in Event
      /\ 1..Len(file') = (1..Len(file)) \cup {n}
      /\ \A i \in 1..Len(file) : i # n /\ i < n
  BY <1>1, <1>2 DEF AInv, TypeOK
<1> HIDE DEF n
<1>5. PointersKnown'
  <2>1. \A d : Known(d) => Known(d)'
    BY <1>4 DEF Known
  <2>2. Known(lastHash)'
    BY <1>1, <2>1 DEF AInv, PointersKnown
  <2>3. \A k \in Loop : flight'[k] # Idle => Known(flight[k].event.prev)'
    BY <1>3, <2>1 DEF AInv, PointersKnown
  <2>4. \A k \in Loop : flight'[k].phase = "written" =>
           \E j \in 1..Len(file') : file'[j] = flight'[k].event
    BY <1>3, <1>4 DEF AInv, PointersKnown
  <2> QED BY <2>2, <2>3, <2>4 DEF PointersKnown
<1>6. LinksPointBack'
  <2>1. ASSUME NEW i \in 1..Len(file)
        PROVE  \/ file'[i].prev = Genesis
               \/ \E j \in 1..(i - 1) : file'[i].prev = file'[j].hash
    BY <1>4 DEF AInv, LinksPointBack
  <2>2. e.prev = Genesis \/ \E j \in 1..(n - 1) : e.prev = file'[j].hash
    BY <1>2, <1>4 DEF AInv, PointersKnown, Known, e, n
  <2> QED BY <1>4, <2>1, <2>2 DEF LinksPointBack
<1>7. ContentsUsed'
  BY <1>1, <1>2, <1>3, <1>4 DEF AInv, ContentsUsed, Old, e
<1>8. NotYetBuiltOn'
  BY <1>1, <1>2, <1>3, <1>4 DEF AInv, NotYetBuiltOn, e
<1>9. e.by = l
  BY <1>2 DEF AInv, NotYetBuiltOn, e
<1>10. Retired'
  <2>1. ASSUME NEW i \in 1..Len(file')
        PROVE  \/ flight'[file'[i].by].phase = "written" /\ flight'[file'[i].by].event = file'[i]
               \/ file'[i].prev # lastHash'
    <3>1. CASE i = n
      BY <3>1, <1>3, <1>4, <1>9
    <3>2. CASE i \in 1..Len(file) /\ file[i].by = l
      BY <3>2, <1>1, <1>4 DEF AInv, Retired
    <3>3. CASE i \in 1..Len(file) /\ file[i].by # l
      BY <3>3, <1>1, <1>3, <1>4 DEF AInv, Retired, Event
    <3> QED BY <3>1, <3>2, <3>3, <1>4
  <2>2. ASSUME NEW k \in Loop, flight'[k].phase = "writing", NEW i \in 1..Len(file'), file'[i].by = k
        PROVE  file'[i].prev # flight'[k].event.prev
    BY <2>2, <1>3, <1>4, <1>9 DEF AInv, Retired
  <2> QED BY <2>1, <2>2 DEF Retired
<1>11. ForksJoinTwoLoops'
  <2>1. \A i \in 1..Len(file) : file[i].by = l => file[i].prev # e.prev
    BY <1>1 DEF AInv, Retired, e
  <2> QED BY <1>4, <1>9, <2>1 DEF AInv, ForksJoinTwoLoops
<1>12. HashOwn'
  BY <1>3 DEF AInv, HashOwn
<1>13. InTurn'
  <2> SUFFICES ASSUME ~overlapped PROVE InTurn'
    BY <1>1 DEF InTurn
  <2>1. \A k \in Loop : flight[k] # Idle => k = l
    BY <1>2 DEF AInv, InTurn
  <2>2. lastHash = file[Len(file)].hash /\ e.prev = lastHash /\ Len(file) > 0
    BY <1>1, <2>1 DEF AInv, InTurn, Idle, e
  <2>3. e.hash = HashEvent(e.content, e.prev)
    BY <1>2 DEF AInv, HashOwn, e
  <2>4. \A i \in 1..Len(file') : Follows(file', i)
    <3>1. ASSUME NEW i \in 1..Len(file) PROVE Follows(file', i)
      BY <1>4 DEF AInv, InTurn, Follows
    <3>2. Follows(file', n)
      BY <1>4, <2>2, <2>3 DEF Follows, n
    <3> QED BY <1>4, <3>1, <3>2
  <2>5. file'[Len(file')].hash = e.hash /\ Len(file') > 0
    BY <1>4 DEF n
  <2> QED BY <1>1, <1>3, <2>1, <2>4, <2>5 DEF InTurn, Idle
<1> QED BY <1>5, <1>6, <1>7, <1>8, <1>10, <1>11, <1>12, <1>13 DEF AInv

(* An append returns: the pointer moves to its event. *)
LEMMA ResumeKeeps ==
  ASSUME AInv, TypeOK', NEW l \in Loop, AppendResumes(l)
  PROVE  AInv'
<1> DEFINE e == flight[l].event
<1>1. /\ flight[l].phase = "written" /\ lastHash' = e.hash
      /\ flight' = [flight EXCEPT ![l] = Idle]
      /\ file' = file /\ built' = built /\ overlapped' = overlapped
  BY DEF AppendResumes
<1>2. flight[l] # Idle /\ e \in Event
  BY <1>1 DEF AInv, TypeOK, Idle, Appending
<1> HIDE DEF e
<1>3. flight'[l] = Idle /\ \A k \in Loop : k # l => flight'[k] = flight[k]
  BY <1>1 DEF AInv, TypeOK
<1>4. PointersKnown'
  BY <1>1, <1>3 DEF AInv, PointersKnown, Known, Idle, e
<1>5. LinksPointBack' /\ ForksJoinTwoLoops'
  BY <1>1 DEF AInv, LinksPointBack, ForksJoinTwoLoops
<1>6. ContentsUsed'
  BY <1>1, <1>2, <1>3 DEF AInv, ContentsUsed, Old, e
<1>7. NotYetBuiltOn'
  BY <1>1, <1>2, <1>3 DEF AInv, NotYetBuiltOn, e
<1>8. Retired'
  <2>1. \A i \in 1..Len(file) : file[i].prev # e.hash
    BY <1>2 DEF AInv, NotYetBuiltOn, e
  <2> QED BY <1>1, <1>3, <2>1 DEF AInv, Retired, Idle
<1>9. HashOwn'
  BY <1>3 DEF AInv, HashOwn
<1>10. InTurn'
  BY <1>1, <1>2, <1>3 DEF AInv, InTurn, Follows, Idle, e
<1> QED BY <1>4, <1>5, <1>6, <1>7, <1>8, <1>9, <1>10 DEF AInv

(* An append fails: nothing is written and the pointer stays. *)
LEMMA FailKeeps ==
  ASSUME AInv, TypeOK', NEW l \in Loop, AppendFails(l)
  PROVE  AInv'
<1>1. /\ flight[l].phase = "writing"
      /\ flight' = [flight EXCEPT ![l] = Idle]
      /\ file' = file /\ lastHash' = lastHash /\ built' = built /\ overlapped' = overlapped
  BY DEF AppendFails
<1>2. flight'[l] = Idle /\ \A k \in Loop : k # l => flight'[k] = flight[k]
  BY <1>1 DEF AInv, TypeOK
<1>3. flight[l] # Idle
  BY <1>1 DEF Idle
<1>4. PointersKnown'
  BY <1>1, <1>2 DEF AInv, PointersKnown, Known, Idle
<1>5. LinksPointBack' /\ ForksJoinTwoLoops'
  BY <1>1 DEF AInv, LinksPointBack, ForksJoinTwoLoops
<1>6. ContentsUsed'
  BY <1>1, <1>2 DEF AInv, ContentsUsed, Old
<1>7. NotYetBuiltOn'
  BY <1>1, <1>2 DEF AInv, NotYetBuiltOn
<1>8. Retired'
  BY <1>1, <1>2 DEF AInv, Retired, Idle, TypeOK, Event
<1>9. HashOwn'
  BY <1>2 DEF AInv, HashOwn
<1>10. InTurn'
  BY <1>1, <1>2, <1>3 DEF AInv, InTurn, Follows, Idle
<1> QED BY <1>4, <1>5, <1>6, <1>7, <1>8, <1>9, <1>10 DEF AInv

(* A step that leaves the log, the pointer and the appends alone. *)
LEMMA FrameKeeps ==
  ASSUME AInv, TypeOK', UNCHANGED <<file, lastHash, flight, built, overlapped>>
  PROVE  AInv'
BY DEF AInv, PointersKnown, Known, LinksPointBack, ContentsUsed, Old, NotYetBuiltOn,
       Retired, ForksJoinTwoLoops, HashOwn, InTurn, Follows
-----------------------------------------------------------------------------
LEMMA InitHolds == Init => AInv
<1> SUFFICES ASSUME Init PROVE AInv
  OBVIOUS
<1> DEFINE r == file[1]
<1>1. /\ Len(file) = 1 /\ r.by = Main /\ r.mandate = 0 /\ r.stage = "recovery" /\ r.content = 0
      /\ r.prev = Genesis /\ r.hash = HashEvent(0, Genesis) /\ lastHash = HashEvent(0, Genesis)
      /\ file = <<r>>
      /\ \A l \in Loop : flight[l] = Idle
  BY DEF Init
<1>2. Genesis \in Digest /\ HashEvent(0, Genesis) \in Digest /\ HashEvent(0, Genesis) # Genesis
      /\ HashEvent(0, Genesis)[Len(HashEvent(0, Genesis))] = 0
  <2>1. Genesis \in Digest
    BY DEF Genesis, Digest
  <2> QED BY <2>1, DigestType
<1>3. r \in Event
  BY <1>2 DEF Init, Event, Loop, Stage
<1>4. TypeOK
  <2>1. file \in Seq(Event)
    <3>1. \A x \in Event : <<x>> \in Seq(Event)
      OBVIOUS
    <3>2. <<r>> \in Seq(Event)
      BY <3>1, <1>3
    <3> QED BY <3>2, <1>1
  <2>2. flight \in [Loop -> {Idle} \cup Appending]
    BY DEF Init
  <2>3. lastHash \in Digest
    BY <1>1, <1>2
  <2>4. built \in 0..MaxContent /\ mandate \in Nat \ {0}
    BY BoundAssumption DEF Init
  <2>6. overlapped \in BOOLEAN
    BY Zenon DEF Init
  <2>5. place \in 1..Execution
    BY DEF Init, Execution, Trail
  <2> QED BY <2>1, <2>2, <2>3, <2>4, <2>5, <2>6 DEF TypeOK
<1> HIDE DEF r
<1>5. \A i \in 1..Len(file) : i = 1 /\ file[i] = r
  BY <1>1 DEF r
<1>6. PointersKnown /\ LinksPointBack /\ ForksJoinTwoLoops
  BY <1>1, <1>5 DEF PointersKnown, Known, LinksPointBack, ForksJoinTwoLoops, Idle
<1>7. ContentsUsed
  BY <1>1, <1>2, <1>5 DEF ContentsUsed, Old, Init
<1>8. NotYetBuiltOn /\ HashOwn
  BY <1>1 DEF NotYetBuiltOn, HashOwn
<1>9. Retired
  BY <1>1, <1>2, <1>5 DEF Retired, Idle
<1>10. InTurn
  BY <1>1, <1>5 DEF InTurn, Follows, Idle
<1> QED BY <1>4, <1>6, <1>7, <1>8, <1>9, <1>10 DEF AInv

(***************************************************************************)
(* The invariant of the log that the results below are read from: what     *)
(* append() has in memory and in flight is tied to the lines of the file.  *)
(***************************************************************************)
THEOREM LogInvariant == Spec => []AInv
<1>1. ASSUME AInv, [Next]_vars PROVE AInv'
  <2>1. TypeOK'
    BY <1>1, TypeNext DEF AInv
  <2>2. CASE UNCHANGED vars
    BY <1>1, <2>1, <2>2, FrameKeeps DEF vars
  <2>3. CASE MainNextCandidate
    BY <1>1, <2>1, <2>3, FrameKeeps DEF MainNextCandidate
  <2>4. CASE \E l \in Loop : Starts(l)
    BY <1>1, <2>1, <2>4, StartKeeps
  <2>5. CASE \E l \in Loop : LineLands(l) \/ AppendResumes(l) \/ AppendFails(l)
    BY <1>1, <2>1, <2>5, LandKeeps, ResumeKeeps, FailKeeps
  <2> QED BY <1>1, <2>2, <2>3, <2>4, <2>5, StepKinds DEF AInv
<1> QED BY <1>1, InitHolds, PTL DEF Spec

(* Every variable keeps its type (the log of auditLogger.ts:79-99). *)
THEOREM LogTypeCorrect == Spec => []TypeOK
<1>1. AInv => TypeOK
  BY DEF AInv
<1> QED BY <1>1, LogInvariant, PTL

(***************************************************************************)
(* No append, finished, failed or in flight, leaves an event that hangs on *)
(* nothing (auditLogger.ts:94-99: the pointer moves after the write only). *)
(***************************************************************************)
THEOREM LinksNeverDangle == Spec => []LinksPointBack
<1>1. AInv => LinksPointBack
  BY DEF AInv
<1> QED BY <1>1, LogInvariant, PTL

(***************************************************************************)
(* A fork of the chain takes both loops, whatever fails and however often  *)
(* appends overlap (auditLogger.ts:94-99).                                 *)
(***************************************************************************)
THEOREM ForksNeedBothLoops == Spec => []ForksJoinTwoLoops
<1>1. AInv => ForksJoinTwoLoops
  BY DEF AInv
<1> QED BY <1>1, LogInvariant, PTL

(***************************************************************************)
(* As long as no two appends have overlapped the log verifies, with any    *)
(* number of failed writes: the promise of worker.ts:1848-1850 holds up to *)
(* the concurrency of the two loops.                                       *)
(***************************************************************************)
THEOREM IntactWithoutOverlap == Spec => []IntactUnlessOverlapped
<1>1. AInv => IntactUnlessOverlapped
  BY DEF AInv, InTurn, IntactUnlessOverlapped, ChainIntact, VerifyChain
<1> QED BY <1>1, LogInvariant, PTL
-----------------------------------------------------------------------------
(* The place of the main loop in the trail it writes, against the lines of *)
(* that trail: none is of a stage beyond h, and none up to h is missing.   *)
NoneBeyond(log, m, h) ==
  \A i \in 1..Len(log) : OfCandidate(log[i], m) => \E k \in 1..h : log[i].stage = Trail[k]
NoneMissing(log, m, h) ==
  \A k \in 1..h : \E i \in 1..Len(log) : OfCandidate(log[i], m) /\ log[i].stage = Trail[k]

Landed == flight[Main].phase = "written" /\ flight[Main].event.mandate = mandate
Reached == IF Landed THEN place ELSE place - 1

InFlight ==
  /\ flight[Main] # Idle =>
       /\ flight[Main].event.by = Main
       /\ \/ flight[Main].event.mandate = 0
          \/ flight[Main].event.mandate = mandate /\ flight[Main].event.stage = Trail[place]
  /\ flight[Watch] # Idle => flight[Watch].event.by = Watch

TrailInv ==
  /\ InFlight
  /\ \A i \in 1..Len(file), m \in Nat : OfCandidate(file[i], m) => m <= mandate
  /\ NoneBeyond(file, mandate, Reached)
  /\ place < Execution => NoneMissing(file, mandate, Reached)
  /\ TrailsReadInOrder

LEMMA TrailInit == Init => TrailInv
<1> SUFFICES ASSUME Init PROVE TrailInv
  OBVIOUS
<1>1. /\ Len(file) = 1 /\ file[1].mandate = 0 /\ mandate = 1 /\ place = 1
      /\ \A l \in Loop : flight[l] = Idle
  BY DEF Init
<1>2. \A i \in 1..Len(file), m \in Nat : OfCandidate(file[i], m) => m = 0
  BY <1>1 DEF OfCandidate
<1>3. Reached \in {0, 1} /\ (Idle.phase # "written")
  BY <1>1 DEF Reached, Idle
<1>4. Reached = 0
  BY <1>1, <1>3 DEF Reached, Landed, Loop
<1>5. NoneBeyond(file, mandate, Reached) /\ NoneMissing(file, mandate, Reached)
  BY <1>1, <1>2, <1>4 DEF NoneBeyond, NoneMissing
<1>6. TrailsReadInOrder
  BY <1>1, <1>2 DEF TrailsReadInOrder, ReadsInOrder
<1> QED BY <1>1, <1>2, <1>5, <1>6 DEF TrailInv, InFlight, Loop

(* What an append does to a log. *)
LEMMA Appended ==
  ASSUME NEW log \in Seq(Event), NEW e \in Event
  PROVE  /\ Len(Append(log, e)) = Len(log) + 1 /\ Append(log, e)[Len(log) + 1] = e
         /\ Len(log) \in Nat
         /\ \A i \in 1..Len(log) : Append(log, e)[i] = log[i]
OBVIOUS

LEMMA OthersDoNotCount ==
  ASSUME NEW log \in Seq(Event), NEW e \in Event, NEW m \in Nat, ~OfCandidate(e, m)
  PROVE  /\ ReadsInOrder(log, m) => ReadsInOrder(Append(log, e), m)
         /\ \A h \in Nat : /\ NoneBeyond(log, m, h) => NoneBeyond(Append(log, e), m, h)
                           /\ NoneMissing(log, m, h) => NoneMissing(Append(log, e), m, h)
<1> DEFINE new == Append(log, e)
           n == Len(log)
<1>1. n \in Nat /\ Len(new) = n + 1 /\ new[n + 1] = e /\ \A i \in 1..n : new[i] = log[i]
  BY Appended
<1> HIDE DEF new, n
<1>2. \A j \in 1..(n + 1) : OfCandidate(new[j], m) => j \in 1..n /\ OfCandidate(log[j], m)
  <2> SUFFICES ASSUME NEW j \in 1..(n + 1), OfCandidate(new[j], m)
               PROVE  j \in 1..n /\ OfCandidate(log[j], m)
    OBVIOUS
  <2>1. j # n + 1
    BY <1>1
  <2>2. j \in 1..n
    BY <1>1, <2>1
  <2> QED BY <1>1, <2>2
<1>3. ReadsInOrder(log, m) => ReadsInOrder(new, m)
  <2> SUFFICES ASSUME ReadsInOrder(log, m), NEW j \in 1..(n + 1), OfCandidate(new[j], m)
               PROVE  \E k \in 1..Execution :
                 /\ new[j].stage = Trail[k]
                 /\ \A i \in 1..(j - 1) : OfCandidate(new[i], m) => \E h \in 1..(k - 1) : new[i].stage = Trail[h]
                 /\ k < Execution => \A h \in 1..(k - 1) : \E i \in 1..(j - 1) :
                                       OfCandidate(new[i], m) /\ new[i].stage = Trail[h]
    BY <1>1 DEF ReadsInOrder
  <2>1. j \in 1..n /\ OfCandidate(log[j], m)
    BY <1>2
  <2>2. \A i \in 1..(j - 1) : new[i] = log[i]
    BY <1>1, <2>1
  <2>3. new[j] = log[j]
    BY <1>1, <2>1
  <2>4. PICK k \in 1..Execution :
          /\ log[j].stage = Trail[k]
          /\ \A i \in 1..(j - 1) : OfCandidate(log[i], m) => \E h \in 1..(k - 1) : log[i].stage = Trail[h]
          /\ k < Execution => \A h \in 1..(k - 1) : \E i \in 1..(j - 1) :
                                OfCandidate(log[i], m) /\ log[i].stage = Trail[h]
    BY <2>1 DEF ReadsInOrder, n
  <2> WITNESS k \in 1..Execution
  <2>5. new[j].stage = Trail[k]
    BY <2>3, <2>4
  <2>6. \A i \in 1..(j - 1) : OfCandidate(new[i], m) => \E h \in 1..(k - 1) : new[i].stage = Trail[h]
    BY <2>2, <2>4
  <2>7. ASSUME k < Execution, NEW h \in 1..(k - 1)
        PROVE  \E i \in 1..(j - 1) : OfCandidate(new[i], m) /\ new[i].stage = Trail[h]
    <3>1. PICK i \in 1..(j - 1) : OfCandidate(log[i], m) /\ log[i].stage = Trail[h]
      BY <2>4, <2>7
    <3> QED BY <2>2, <3>1
  <2> QED BY <2>5, <2>6, <2>7
<1>4. ASSUME NEW h \in Nat PROVE /\ NoneBeyond(log, m, h) => NoneBeyond(new, m, h)
                                 /\ NoneMissing(log, m, h) => NoneMissing(new, m, h)
  <2>1. NoneBeyond(log, m, h) => NoneBeyond(new, m, h)
    BY <1>1, <1>2 DEF NoneBeyond, n
  <2>2. NoneMissing(log, m, h) => NoneMissing(new, m, h)
    BY <1>1 DEF NoneMissing, n
  <2> QED BY <2>1, <2>2
<1> QED BY <1>3, <1>4 DEF new

LEMMA NextStageCounts ==
  ASSUME NEW log \in Seq(Event), NEW e \in Event, NEW m \in Nat, NEW h \in 1..Execution,
         OfCandidate(e, m), e.stage = Trail[h],
         NoneBeyond(log, m, h - 1), h < Execution => NoneMissing(log, m, h - 1)
  PROVE  /\ ReadsInOrder(log, m) => ReadsInOrder(Append(log, e), m)
         /\ NoneBeyond(Append(log, e), m, h)
         /\ h < Execution => NoneMissing(Append(log, e), m, h)
<1> DEFINE new == Append(log, e)
           n == Len(log)
<1>1. n \in Nat /\ Len(new) = n + 1 /\ new[n + 1] = e /\ \A i \in 1..n : new[i] = log[i]
  BY Appended
<1> HIDE DEF new, n
<1>2. h \in Nat \ {0} /\ h - 1 \in Nat /\ \A k \in 1..h : k = h \/ k \in 1..(h - 1)
  BY DEF Execution, Trail
<1>3. ReadsInOrder(log, m) => ReadsInOrder(new, m)
  <2> SUFFICES ASSUME ReadsInOrder(log, m), NEW j \in 1..(n + 1), OfCandidate(new[j], m)
               PROVE  \E k \in 1..Execution :
                 /\ new[j].stage = Trail[k]
                 /\ \A i \in 1..(j - 1) : OfCandidate(new[i], m) => \E x \in 1..(k - 1) : new[i].stage = Trail[x]
                 /\ k < Execution => \A x \in 1..(k - 1) : \E i \in 1..(j - 1) :
                                       OfCandidate(new[i], m) /\ new[i].stage = Trail[x]
    BY <1>1 DEF ReadsInOrder
  <2>1. CASE j = n + 1
    <3>1. new[j].stage = Trail[h] /\ \A i \in 1..(j - 1) : i \in 1..n /\ new[i] = log[i]
      BY <1>1, <2>1
    <3>2. \A i \in 1..(j - 1) : OfCandidate(new[i], m) => \E x \in 1..(h - 1) : new[i].stage = Trail[x]
      BY <3>1 DEF NoneBeyond, n
    <3>3. j - 1 = n
      BY <1>1, <2>1
    <3>4. h < Execution => \A x \in 1..(h - 1) : \E i \in 1..(j - 1) :
                             OfCandidate(new[i], m) /\ new[i].stage = Trail[x]
      BY <1>1, <3>3 DEF NoneMissing, n
    <3> WITNESS h \in 1..Execution
    <3> QED BY <3>1, <3>2, <3>4
  <2>2. CASE j \in 1..n
    <3>1. new[j] = log[j] /\ \A i \in 1..(j - 1) : new[i] = log[i]
      BY <1>1, <2>2
    <3>2. PICK k \in 1..Execution :
            /\ log[j].stage = Trail[k]
            /\ \A i \in 1..(j - 1) : OfCandidate(log[i], m) => \E x \in 1..(k - 1) : log[i].stage = Trail[x]
            /\ k < Execution => \A x \in 1..(k - 1) : \E i \in 1..(j - 1) :
                                  OfCandidate(log[i], m) /\ log[i].stage = Trail[x]
      BY <2>2, <3>1 DEF ReadsInOrder, n
    <3>3. \A i \in 1..(j - 1) : OfCandidate(new[i], m) => \E x \in 1..(k - 1) : new[i].stage = Trail[x]
      BY <3>1, <3>2
    <3>4. k < Execution => \A x \in 1..(k - 1) : \E i \in 1..(j - 1) :
                             OfCandidate(new[i], m) /\ new[i].stage = Trail[x]
      BY <3>1, <3>2
    <3> WITNESS k \in 1..Execution
    <3> QED BY <3>1, <3>2, <3>3, <3>4
  <2> QED BY <1>1, <2>1, <2>2
<1>4. NoneBeyond(new, m, h)
  <2> SUFFICES ASSUME NEW i \in 1..(n + 1), OfCandidate(new[i], m)
               PROVE  \E k \in 1..h : new[i].stage = Trail[k]
    BY <1>1 DEF NoneBeyond
  <2>1. CASE i = n + 1
    BY <1>1, <1>2, <2>1
  <2>2. CASE i \in 1..n
    <3>1. new[i] = log[i]
      BY <1>1, <2>2
    <3>2. PICK k \in 1..(h - 1) : log[i].stage = Trail[k]
      BY <2>2, <3>1 DEF NoneBeyond, n
    <3>3. k \in 1..h
      BY <1>2
    <3> QED BY <3>1, <3>2, <3>3
  <2> QED BY <1>1, <2>1, <2>2
<1>5. h < Execution => NoneMissing(new, m, h)
  <2> SUFFICES ASSUME h < Execution, NEW k \in 1..h
               PROVE  \E i \in 1..(n + 1) : OfCandidate(new[i], m) /\ new[i].stage = Trail[k]
    BY <1>1 DEF NoneMissing
  <2>1. CASE k = h
    BY <1>1, <2>1
  <2>2. CASE k \in 1..(h - 1)
    <3>1. PICK i \in 1..n : OfCandidate(log[i], m) /\ log[i].stage = Trail[k]
      BY <2>2 DEF NoneMissing, n
    <3> QED BY <1>1, <3>1
  <2> QED BY <1>2, <2>1, <2>2
<1> QED BY <1>3, <1>4, <1>5 DEF new
-----------------------------------------------------------------------------
(* An append begins. *)
LEMMA TrailStarts ==
  ASSUME TypeOK, TrailInv, NEW l \in Loop, NEW m \in Nat, NEW s \in Stage,
         AppendStarts(l, m, s), l = Main => (m = 0 \/ (m = mandate /\ s = Trail[place]))
  PROVE  TrailInv'
<1> DEFINE e == BuildEvent(l, m, s, lastHash)
<1>1. /\ flight[l] = Idle /\ file' = file /\ mandate' = mandate /\ place' = place
      /\ flight' = [flight EXCEPT ![l] = [phase |-> "writing", event |-> e]]
  BY DEF AppendStarts
<1>2. e.by = l /\ e.mandate = m /\ e.stage = s
  BY DEF BuildEvent
<1> HIDE DEF e
<1>3. /\ flight'[l].phase = "writing" /\ flight'[l].event = e
      /\ \A k \in Loop : k # l => flight'[k] = flight[k]
  BY <1>1 DEF TypeOK
<1>4. Reached' = Reached
  BY <1>1, <1>3 DEF Reached, Landed, Idle, Loop
<1>5. TrailsReadInOrder'
  BY <1>1 DEF TrailInv, TrailsReadInOrder
<1>6. InFlight'
  BY <1>1, <1>2, <1>3, LoopsAssumption DEF TrailInv, InFlight, Loop
<1> QED BY <1>1, <1>4, <1>5, <1>6 DEF TrailInv

(* A line lands. *)
LEMMA TrailLands ==
  ASSUME TypeOK, TrailInv, NEW l \in Loop, LineLands(l)
  PROVE  TrailInv'
<1> DEFINE e == flight[l].event
<1>1. /\ flight[l].phase = "writing" /\ file' = Append(file, e)
      /\ flight' = [flight EXCEPT ![l].phase = "written"]
      /\ mandate' = mandate /\ place' = place
  BY DEF LineLands
<1>2. flight[l] # Idle /\ e \in Event
  BY <1>1 DEF TypeOK, Idle, Appending
<1>3. /\ flight'[l].phase = "written" /\ flight'[l].event = e
      /\ \A k \in Loop : k # l => flight'[k] = flight[k]
  BY <1>1, <1>2 DEF TypeOK, Idle, Appending
<1>4. /\ e.by = l
      /\ l = Main => (e.mandate = 0 \/ (e.mandate = mandate /\ e.stage = Trail[place]))
  <2>1. l = Main \/ l = Watch
    BY DEF Loop
  <2> QED BY <1>2, <2>1 DEF TrailInv, InFlight
<1>5. InFlight'
  BY <1>1, <1>3, <1>4, LoopsAssumption DEF TrailInv, InFlight, Loop
<1>6. /\ mandate \in Nat \ {0} /\ place \in 1..Execution /\ place \in Nat \ {0}
      /\ file \in Seq(Event) /\ Reached \in Nat
  BY DEF TypeOK, Execution, Trail, Reached
<1> HIDE DEF e
<1>7. \A m \in Nat : OfCandidate(e, m) <=> l = Main /\ e.mandate = m
  BY <1>4 DEF OfCandidate
<1>8. \A i \in 1..Len(file'), m \in Nat : OfCandidate(file'[i], m) => m <= mandate'
  <2> SUFFICES ASSUME NEW i \in 1..Len(file'), NEW m \in Nat, OfCandidate(file'[i], m)
               PROVE  m <= mandate
    BY <1>1
  <2>1. CASE i \in 1..Len(file)
    BY <2>1, <1>1, <1>2, <1>6, Appended DEF TrailInv
  <2>2. CASE i = Len(file) + 1
    <3>1. OfCandidate(e, m)
      BY <2>2, <1>1, <1>2, <1>6, Appended
    <3> QED BY <3>1, <1>4, <1>6, <1>7
  <2> QED BY <2>1, <2>2, <1>1, <1>2, <1>6, Appended
<1>9. ASSUME NEW m \in 1..mandate, m # mandate PROVE ReadsInOrder(file', m)
  <2>1. m \in Nat /\ ~OfCandidate(e, m)
    BY <1>4, <1>6, <1>7, <1>9
  <2>2. ReadsInOrder(file, m)
    BY DEF TrailInv, TrailsReadInOrder
  <2> QED BY <2>1, <2>2, <1>1, <1>2, <1>6, OthersDoNotCount
<1>10. ReadsInOrder(file, mandate)
  BY <1>6 DEF TrailInv, TrailsReadInOrder
<1>11. /\ ReadsInOrder(file', mandate) /\ NoneBeyond(file', mandate, Reached')
       /\ place < Execution => NoneMissing(file', mandate, Reached')
  <2>1. CASE OfCandidate(e, mandate)
    <3>1. l = Main /\ e.mandate = mandate /\ e.stage = Trail[place]
      BY <2>1, <1>4, <1>6, <1>7
    <3>2. Reached = place - 1 /\ Reached' = place
      BY <3>1, <1>1, <1>3 DEF Reached, Landed
    <3>3. /\ NoneBeyond(file, mandate, place - 1)
          /\ place < Execution => NoneMissing(file, mandate, place - 1)
      BY <3>2 DEF TrailInv
    <3> QED BY <3>1, <3>2, <3>3, <2>1, <1>1, <1>2, <1>6, <1>10, NextStageCounts
  <2>2. CASE ~OfCandidate(e, mandate)
    <3>1. Reached' = Reached
      BY <2>2, <1>1, <1>3, <1>6, <1>7 DEF Reached, Landed, Loop
    <3>2. /\ NoneBeyond(file, mandate, Reached)
          /\ place < Execution => NoneMissing(file, mandate, Reached)
      BY DEF TrailInv
    <3> QED BY <3>1, <3>2, <2>2, <1>1, <1>2, <1>6, <1>10, OthersDoNotCount
  <2> QED BY <2>1, <2>2
<1>12. TrailsReadInOrder'
  BY <1>1, <1>6, <1>9, <1>11 DEF TrailsReadInOrder
<1> QED BY <1>1, <1>5, <1>8, <1>11, <1>12 DEF TrailInv

(* The main loop takes up another candidate, of whom the log holds nothing. *)
LEMMA NextCandidate ==
  ASSUME TypeOK, TrailInv, file' = file, mandate' = mandate + 1, place' = 1,
         Reached' = 0, InFlight'
  PROVE  TrailInv'
<1>1. mandate \in Nat \ {0} /\ mandate + 1 \in Nat
  BY DEF TypeOK
<1>2. \A i \in 1..Len(file) : ~OfCandidate(file[i], mandate + 1)
  <2> SUFFICES ASSUME NEW i \in 1..Len(file), OfCandidate(file[i], mandate + 1) PROVE FALSE
    OBVIOUS
  <2>1. mandate + 1 <= mandate
    BY <1>1 DEF TrailInv
  <2> QED BY <1>1, <2>1
<1>3. \A i \in 1..Len(file'), m \in Nat : OfCandidate(file'[i], m) => m <= mandate'
  <2> SUFFICES ASSUME NEW i \in 1..Len(file), NEW m \in Nat, OfCandidate(file[i], m)
               PROVE  m <= mandate + 1
    OBVIOUS
  <2>1. m <= mandate
    BY DEF TrailInv
  <2> QED BY <1>1, <2>1
<1>4. ReadsInOrder(file, mandate + 1)
  BY <1>2 DEF ReadsInOrder
<1>5. TrailsReadInOrder'
  <2> SUFFICES ASSUME NEW m \in 1..(mandate + 1) PROVE ReadsInOrder(file, m)
    BY DEF TrailsReadInOrder
  <2>1. m = mandate + 1 \/ m \in 1..mandate
    BY <1>1
  <2> QED BY <1>4, <2>1 DEF TrailInv, TrailsReadInOrder
<1>6. NoneBeyond(file, mandate + 1, 0) /\ NoneMissing(file, mandate + 1, 0)
  BY <1>2 DEF NoneBeyond, NoneMissing
<1> QED BY <1>3, <1>5, <1>6 DEF TrailInv

(* An append is over, and the main loop goes on to its next stage. *)
LEMMA TrailReturns ==
  ASSUME TypeOK, TrailInv, NEW l \in Loop, NEW stands \in BOOLEAN, file' = file,
         flight[l] # Idle, flight' = [flight EXCEPT ![l] = Idle],
         flight[l].phase = IF stands THEN "written" ELSE "writing",
         IF l = Main THEN TrailGoesOn(stands) ELSE UNCHANGED <<mandate, place>>
  PROVE  TrailInv'
<1>1. flight'[l] = Idle /\ \A k \in Loop : k # l => flight'[k] = flight[k]
  BY DEF TypeOK
<1>2. /\ mandate \in Nat \ {0} /\ place \in 1..Execution /\ Execution = 5
      /\ Idle.phase # "written"
  BY DEF TypeOK, Execution, Trail, Idle
<1>3. CASE UNCHANGED <<mandate, place>>
  <2>1. l = Main => flight[l].event.mandate = 0
    BY <1>2, <1>3 DEF TrailGoesOn
  <2>2. Reached' = Reached
    BY <1>1, <1>2, <1>3, <2>1 DEF Reached, Landed, Loop
  <2>3. InFlight'
    BY <1>1, <1>3 DEF TrailInv, InFlight, Loop
  <2>4. TrailsReadInOrder'
    BY <1>3 DEF TrailInv, TrailsReadInOrder
  <2> QED BY <1>3, <2>2, <2>3, <2>4 DEF TrailInv
<1>4. CASE ~UNCHANGED <<mandate, place>>
  <2>1. /\ l = Main /\ TrailGoesOn(stands) /\ flight[l].event.mandate = mandate
    BY <1>4 DEF TrailGoesOn, TrailInv, InFlight
  <2>2. flight[l].event.mandate # 0 /\ (Landed <=> stands)
    BY <1>2, <2>1 DEF Landed
  <2>3. InFlight' /\ ~Landed'
    BY <1>1, <1>2, <2>1, LoopsAssumption DEF TrailInv, InFlight, Loop, Landed
  <2>4. CASE place = Execution
    <3>1. mandate' = mandate + 1 /\ place' = 1 /\ Reached' = 0
      BY <2>1, <2>2, <2>3, <2>4 DEF TrailGoesOn, Reached
    <3> QED BY <1>2, <2>3, <3>1, NextCandidate
  <2>5. CASE place # Execution
    <3>1. /\ mandate' = mandate /\ place' = (IF stands THEN place + 1 ELSE Execution)
          /\ Reached = IF stands THEN place ELSE place - 1
          /\ Reached' = place' - 1
      BY <2>1, <2>2, <2>3, <2>5 DEF TrailGoesOn, Reached
    <3>2. TrailsReadInOrder'
      BY <3>1 DEF TrailInv, TrailsReadInOrder
    <3>3. NoneBeyond(file', mandate', Reached')
      <4>1. Reached <= Reached' /\ Reached \in Nat /\ Reached' \in Nat
        BY <1>2, <2>5, <3>1
      <4>2. \A k \in 1..Reached : k \in 1..Reached'
        BY <4>1
      <4> QED BY <3>1, <4>2 DEF TrailInv, NoneBeyond
    <3>4. place' < Execution => NoneMissing(file', mandate', Reached')
      <4>1. place' < Execution => stands /\ Reached' = Reached /\ place < Execution
        BY <1>2, <2>5, <3>1
      <4> QED BY <3>1, <4>1 DEF TrailInv
    <3>5. \A i \in 1..Len(file'), m \in Nat : OfCandidate(file'[i], m) => m <= mandate'
      BY <3>1 DEF TrailInv
    <3> QED BY <2>3, <3>2, <3>3, <3>4, <3>5 DEF TrailInv
  <2> QED BY <2>4, <2>5
<1> QED BY <1>3, <1>4

(* "The replay timeline reads perception, decision, economics, risk,        *)
(* execution" (worker.ts:1846-1848), of every candidate of a run and in     *)
(* spite of every failed append.                                           *)
THEOREM TimelinesInOrder == Spec => []TrailsReadInOrder
<1>1. ASSUME TypeOK, TrailInv, [Next]_vars PROVE TrailInv'
  <2>1. CASE UNCHANGED vars
    BY <1>1, <2>1 DEF vars, TrailInv, InFlight, Reached, Landed, TrailsReadInOrder
  <2>2. CASE MainCycleEvent
    <3>1. PICK s \in {"perception", "risk"} : AppendStarts(Main, 0, s)
      BY <2>2 DEF MainCycleEvent
    <3>2. 0 \in Nat /\ s \in Stage /\ Main \in Loop
      BY DEF Stage, Loop
    <3> QED BY <1>1, <3>1, <3>2, TrailStarts
  <2>3. CASE MainTrailEvent
    <3>1. mandate \in Nat /\ Trail[place] \in Stage
      BY <1>1 DEF TypeOK, Trail, Execution, Stage
    <3> QED BY <1>1, <2>3, <3>1, TrailStarts DEF MainTrailEvent, Loop
  <2>4. CASE MainNextCandidate
    <3>1. /\ flight' = flight /\ file' = file /\ mandate' = mandate + 1 /\ place' = 1
          /\ flight[Main] = Idle
      BY <2>4 DEF MainNextCandidate
    <3>2. InFlight' /\ ~Landed' /\ Reached' = 0
      BY <1>1, <3>1 DEF TrailInv, InFlight, Reached, Landed, Idle
    <3> QED BY <1>1, <3>1, <3>2, NextCandidate
  <2>5. CASE WatchExitEvent
    <3>1. PICK m \in 1..mandate : AppendStarts(Watch, m, "watchdog")
      BY <2>5 DEF WatchExitEvent
    <3>2. m \in Nat
      BY <1>1 DEF TypeOK
    <3> QED BY <1>1, <3>1, <3>2, TrailStarts, LoopsAssumption DEF Loop, Stage
  <2>6. ASSUME NEW l \in Loop, LineLands(l) PROVE TrailInv'
    BY <1>1, <2>6, TrailLands
  <2>7. ASSUME NEW l \in Loop, AppendResumes(l) PROVE TrailInv'
    <3>1. flight[l] # Idle
      BY <2>7 DEF AppendResumes, Idle
    <3> QED BY <1>1, <2>7, <3>1, TrailReturns DEF AppendResumes
  <2>8. ASSUME NEW l \in Loop, AppendFails(l) PROVE TrailInv'
    <3>1. flight[l] # Idle
      BY <2>8 DEF AppendFails, Idle
    <3> QED BY <1>1, <2>8, <3>1, TrailReturns DEF AppendFails
  <2> QED BY <1>1, <2>1, <2>2, <2>3, <2>4, <2>5, <2>6, <2>7, <2>8 DEF Next
<1>2. TrailInv => TrailsReadInOrder
  BY DEF TrailInv
<1> QED BY <1>1, <1>2, TrailInit, LogTypeCorrect, PTL DEF Spec
-----------------------------------------------------------------------------
(* What verifyChain reports. *)

(* Every non-empty set of naturals has a least member: what takes the place  *)
(* of an induction along the lines of a log.                                 *)
LEMMA LeastNat ==
  ASSUME NEW T \in SUBSET Nat, T # {}
  PROVE  \E m \in T : \A k \in T : m <= k
<1>1. PICK m \in T : \A y \in T : ~(<<y, m>> \in OpToRel(<, Nat))
  BY NatLessThanWellFounded, WFMin
<1>2. ASSUME NEW k \in T PROVE m <= k
  <2>1. ~(<<k, m>> \in OpToRel(<, Nat))
    BY <1>1
  <2>2. ~(k < m)
    BY <2>1 DEF OpToRel
  <2> QED BY <2>2
<1> QED BY <1>1, <1>2

(* The index verifyChain returns is -1 exactly when every line follows.      *)
LEMMA VerifyFindsABreak ==
  ASSUME NEW log \in Seq(Event)
  PROVE  VerifyChain(log) = -1 <=> \A i \in 1..Len(log) : Follows(log, i)
<1> DEFINE breaks == {i \in 1..Len(log) : ~Follows(log, i)}
<1>1. CASE breaks = {}
  <2>1. VerifyChain(log) = -1
    BY <1>1 DEF VerifyChain
  <2> QED BY <1>1, <2>1
<1>2. CASE breaks # {}
  <2>1. VerifyChain(log) = Min(breaks) - 1
    BY <1>2 DEF VerifyChain
  <2>2. breaks \in SUBSET Nat
    OBVIOUS
  <2>3. \E i \in 1..Len(log) : ~Follows(log, i)
    BY <1>2
  <2>4. \A i \in breaks : i >= 1 /\ i \in Nat
    OBVIOUS
  <2> HIDE DEF breaks
  <2>5. \E m \in breaks : \A k \in breaks : m =< k
    BY <1>2, <2>2, LeastNat
  <2>6. Min(breaks) \in breaks
    BY <2>5 DEF Min
  <2> QED BY <2>1, <2>3, <2>4, <2>6
<1> QED BY <1>1, <1>2

LEMMA HashOfAnEvent ==
  ASSUME NEW log \in Seq(Event), NEW i \in 1..Len(log)
  PROVE  /\ log[i].prev \in Digest /\ log[i].hash \in Digest /\ log[i].content \in Nat
         /\ Len(log[i].prev) \in Nat /\ Len(log[i].hash) \in Nat
<1>1. log[i] \in Event
  OBVIOUS
<1>2. log[i].prev \in Digest /\ log[i].hash \in Digest /\ log[i].content \in Nat
  BY <1>1 DEF Event
<1> QED BY <1>2 DEF Digest

(* In a chain that verifies, the digest of a line covers as many events as   *)
(* there are lines up to it.                                                 *)
LEMMA DigestCoversItsPast ==
  ASSUME NEW log \in Seq(Event), \A i \in 1..Len(log) : Follows(log, i), NEW n \in 1..Len(log)
  PROVE  Len(log[n].hash) = n /\ Len(log[n].prev) = n - 1
<1> DEFINE Bad == {i \in 1..Len(log) : ~(Len(log[i].hash) = i /\ Len(log[i].prev) = i - 1)}
<1>1. SUFFICES ASSUME Bad # {} PROVE FALSE
  <2>1. n \notin Bad
    BY <1>1
  <2> QED BY <2>1
<1>2. Bad \in SUBSET Nat
  OBVIOUS
<1>3. PICK m \in Bad : \A k \in Bad : m <= k
  BY <1>1, <1>2, LeastNat
<1>4. m \in 1..Len(log) /\ ~(Len(log[m].hash) = m /\ Len(log[m].prev) = m - 1)
  OBVIOUS
<1>5. log[m].prev \in Seq(Nat) /\ log[m].content \in Nat
  BY <1>4, HashOfAnEvent DEF Digest
<1>6. Len(log[m].prev) = m - 1
  <2>1. CASE m = 1
    <3>1. log[m].prev = <<>>
      BY <1>4, <2>1 DEF Follows, Genesis
    <3> QED BY <2>1, <3>1
  <2>2. CASE m # 1
    <3>1. m - 1 \in 1..Len(log) /\ ~(m <= m - 1)
      BY <1>4, <2>2
    <3>2. m - 1 \notin Bad
      BY <1>3, <3>1
    <3>3. Len(log[m - 1].hash) = m - 1
      BY <3>1, <3>2
    <3>4. log[m].prev = log[m - 1].hash
      BY <1>4, <2>2 DEF Follows
    <3> QED BY <3>3, <3>4
  <2> QED BY <2>1, <2>2
<1>7. log[m].hash = Append(log[m].prev, log[m].content)
  BY <1>4 DEF Follows, HashEvent
<1>8. Len(log[m].hash) = m
  BY <1>4, <1>5, <1>6, <1>7
<1> QED BY <1>4, <1>6, <1>8

(* A line that stands where another line of a verified chain stood, after    *)
(* the lines that preceded that one, follows from nothing.                   *)
LEMMA MisplacedDoesNotFollow ==
  ASSUME NEW log \in Seq(Event), \A i \in 1..Len(log) : Follows(log, i),
         NEW new \in Seq(Event), NEW p \in 1..Len(new), NEW q \in 1..Len(log), p < q, p <= Len(log),
         new[p] = log[q], p > 1 => new[p - 1] = log[p - 1]
  PROVE  VerifyChain(new) # -1
<1> SUFFICES ASSUME Follows(new, p) PROVE FALSE
  BY VerifyFindsABreak
<1>1. Len(log[q].prev) = q - 1 /\ p \in Nat /\ q \in Nat
  BY DigestCoversItsPast
<1>2. CASE p = 1
  <2>1. log[q].prev = <<>>
    BY <1>2 DEF Follows, Genesis
  <2>2. Len(log[q].prev) = 0
    BY <2>1
  <2> QED BY <1>1, <1>2, <2>2
<1>3. CASE p # 1
  <2>1. log[q].prev = log[p - 1].hash
    BY <1>3 DEF Follows
  <2>2. p - 1 \in 1..Len(log)
    BY <1>3
  <2>3. Len(log[p - 1].hash) = p - 1
    BY <2>2, DigestCoversItsPast
  <2> QED BY <1>1, <2>1, <2>3
<1> QED BY <1>2, <1>3

LEMMA LossIsDetected ==
  ASSUME NEW log \in Seq(Event), \A i \in 1..Len(log) : Follows(log, i), NEW i \in 1..(Len(log) - 1)
  PROVE  VerifyChain(RemoveAt(log, i)) # -1
<1> DEFINE new == RemoveAt(log, i)
           n == Len(log)
<1>1. n \in Nat /\ i \in 1..n /\ i + 1 \in 1..n /\ i - 1 \in 0..n
  OBVIOUS
<1>2. /\ SubSeq(log, 1, i - 1) \in Seq(Event) /\ Len(SubSeq(log, 1, i - 1)) = i - 1
      /\ \A k \in 1..(i - 1) : SubSeq(log, 1, i - 1)[k] = log[k]
  BY <1>1
<1>3. /\ SubSeq(log, i + 1, n) \in Seq(Event) /\ Len(SubSeq(log, i + 1, n)) = n - i
      /\ SubSeq(log, i + 1, n)[1] = log[i + 1]
  BY <1>1
<1> DEFINE a == SubSeq(log, 1, i - 1)
           b == SubSeq(log, i + 1, n)
<1>4. new = a \o b
  BY DEF RemoveAt
<1>5. /\ a \in Seq(Event) /\ Len(a) = i - 1 /\ \A k \in 1..(i - 1) : a[k] = log[k]
      /\ b \in Seq(Event) /\ Len(b) = n - i /\ b[1] = log[i + 1]
  BY <1>2, <1>3
<1> HIDE DEF a, b, new, n
<1>6. new \in Seq(Event) /\ i \in 1..Len(new)
  BY <1>1, <1>4, <1>5
<1>7. new[i] = log[i + 1]
  BY <1>1, <1>4, <1>5
<1>8. i > 1 => new[i - 1] = log[i - 1]
  BY <1>1, <1>4, <1>5
<1>9. i < i + 1 /\ i <= Len(log) /\ i + 1 \in 1..Len(log)
  BY <1>1 DEF n
<1>10. VerifyChain(new) # -1
  BY <1>6, <1>7, <1>8, <1>9, MisplacedDoesNotFollow
<1> QED BY <1>10 DEF new

LEMMA SwapIsDetected ==
  ASSUME NEW log \in Seq(Event), \A i \in 1..Len(log) : Follows(log, i),
         NEW i \in 1..Len(log), NEW j \in 1..Len(log), i # j
  PROVE  VerifyChain([log EXCEPT ![i] = log[j], ![j] = log[i]]) # -1
<1> DEFINE new == [log EXCEPT ![i] = log[j], ![j] = log[i]]
<1>1. new \in Seq(Event) /\ Len(new) = Len(log)
  OBVIOUS
<1>2. new[i] = log[j] /\ new[j] = log[i] /\ \A k \in 1..Len(log) : k # i /\ k # j => new[k] = log[k]
  OBVIOUS
<1> HIDE DEF new
<1>3. CASE i < j
  <2>1. i > 1 => new[i - 1] = log[i - 1]
    BY <1>2, <1>3
  <2>2. i \in 1..Len(new) /\ i <= Len(log)
    BY <1>1
  <2>3. VerifyChain(new) # -1
    BY <1>1, <1>2, <1>3, <2>1, <2>2, MisplacedDoesNotFollow
  <2> QED BY <2>3 DEF new
<1>4. CASE j < i
  <2>1. j > 1 => new[j - 1] = log[j - 1]
    BY <1>2, <1>4
  <2>2. j \in 1..Len(new) /\ j <= Len(log)
    BY <1>1
  <2>3. VerifyChain(new) # -1
    BY <1>1, <1>2, <1>4, <2>1, <2>2, MisplacedDoesNotFollow
  <2> QED BY <2>3 DEF new
<1> QED BY <1>3, <1>4

LEMMA ForgeryIsDetected ==
  ASSUME NEW log \in Seq(Event), \A i \in 1..Len(log) : Follows(log, i),
         NEW i \in 1..Len(log), NEW c \in Nat, c # log[i].content
  PROVE  VerifyChain([log EXCEPT ![i].content = c]) # -1
<1> DEFINE new == [log EXCEPT ![i].content = c]
<1>0. log[i] \in Event
  OBVIOUS
<1>1. [log[i] EXCEPT !.content = c] \in Event
  BY <1>0 DEF Event
<1>2. new \in Seq(Event) /\ Len(new) = Len(log) /\ new[i] = [log[i] EXCEPT !.content = c]
  BY <1>1
<1>3. new[i].content = c /\ new[i].prev = log[i].prev /\ new[i].hash = log[i].hash
  BY <1>0, <1>2 DEF Event
<1> HIDE DEF new
<1>4. log[i].prev \in Seq(Nat) /\ log[i].content \in Nat
  BY HashOfAnEvent DEF Digest
<1>5. log[i].hash = Append(log[i].prev, log[i].content)
  BY DEF Follows, HashEvent
<1>6. Append(log[i].prev, log[i].content) # Append(log[i].prev, c)
  BY <1>4
<1>7. ~Follows(new, i)
  BY <1>3, <1>5, <1>6 DEF Follows, HashEvent
<1>8. VerifyChain(new) # -1
  BY <1>2, <1>7, VerifyFindsABreak
<1> QED BY <1>8 DEF new

(* A line put in before a line of a verified chain would have to have the     *)
(* digest of the line before it, which its own content makes longer.          *)
LEMMA InsertionIsDetected ==
  ASSUME NEW log \in Seq(Event), \A i \in 1..Len(log) : Follows(log, i),
         NEW i \in 1..Len(log), NEW e \in Event
  PROVE  VerifyChain(InsertAt(log, i, e)) # -1
<1> DEFINE new == InsertAt(log, i, e)
           n == Len(log)
           a == SubSeq(log, 1, i - 1)
           b == SubSeq(log, i, n)
<1>1. n \in Nat /\ i \in 1..n /\ i - 1 \in 0..n
  OBVIOUS
<1>2. /\ a \in Seq(Event) /\ Len(a) = i - 1 /\ \A k \in 1..(i - 1) : a[k] = log[k]
      /\ b \in Seq(Event) /\ Len(b) = n - i + 1 /\ b[1] = log[i]
  BY <1>1
<1>3. new = (a \o <<e>>) \o b
  BY DEF InsertAt
<1> HIDE DEF a, b, new, n
<1> DEFINE c == a \o <<e>>
<1>4. /\ c \in Seq(Event) /\ Len(c) = i /\ c[i] = e
      /\ i > 1 => c[i - 1] = log[i - 1]
  BY <1>1, <1>2
<1> HIDE DEF c
<1>5. new \in Seq(Event) /\ Len(new) = n + 1
  <2>1. new = c \o b
    BY <1>3 DEF c
  <2>2. c \o b \in Seq(Event) /\ Len(c \o b) = Len(c) + Len(b)
    BY <1>2, <1>4, ConcatProperties
  <2>3. i + (n - i + 1) = n + 1
    BY <1>1
  <2> QED BY <1>2, <1>4, <2>1, <2>2, <2>3
<1>6. new[i] = e /\ new[i + 1] = log[i] /\ (i > 1 => new[i - 1] = log[i - 1])
  BY <1>1, <1>2, <1>3, <1>4 DEF c
<1>7. i \in 1..Len(new) /\ i + 1 \in 1..Len(new) /\ i + 1 # 1 /\ (i + 1) - 1 = i
  BY <1>1, <1>5
<1>8. ASSUME Follows(new, i), Follows(new, i + 1) PROVE FALSE
  <2>1. e.prev = log[i].prev
    <3>1. CASE i = 1
      BY <1>6, <1>8, <3>1 DEF Follows
    <3>2. CASE i # 1
      <4>1. i > 1
        BY <1>1, <3>2
      <4> QED BY <1>6, <1>8, <3>2, <4>1 DEF Follows
    <3> QED BY <3>1, <3>2
  <2>2. e.hash = Append(e.prev, e.content)
    BY <1>6, <1>8 DEF Follows, HashEvent
  <2>3. log[i].prev = e.hash
    BY <1>6, <1>7, <1>8 DEF Follows
  <2>4. e.prev \in Seq(Nat) /\ e.content \in Nat
    BY DEF Event, Digest
  <2>5. Len(Append(e.prev, e.content)) = Len(e.prev) + 1 /\ Len(e.prev) \in Nat
    BY <2>4
  <2> QED BY <2>1, <2>2, <2>3, <2>5
<1>9. VerifyChain(new) # -1
  BY <1>5, <1>7, <1>8, VerifyFindsABreak
<1> QED BY <1>9 DEF new

LEMMA ChainedIsAnEvent ==
  ASSUME TypeOK, NEW i \in 1..Len(file), NEW c \in Nat
  PROVE  Chained(i, c) \in Event
<1>1. file[i] \in Event
  BY DEF TypeOK
<1>2. Append(file[i].prev, c) \in Digest
  BY <1>1 DEF Event, Digest
<1> QED BY <1>1, <1>2 DEF Chained, Event, HashEvent

(* "No event was altered or removed" (auditLogger.ts:4-7): however long the   *)
(* run was, a log that verifies no longer does after the loss of one line     *)
(* other than the last, after two lines have changed places, after the        *)
(* content of one event has changed, or after one line, copied or chained on, *)
(* was put in before another.                                                 *)
THEOREM EditsShow == Spec => []EditsDetected
<1>1. TypeOK => EditsDetected
  <2> SUFFICES ASSUME TypeOK, ChainIntact PROVE
        /\ \A i \in 1..(Len(file) - 1) : VerifyChain(RemoveAt(file, i)) # -1
        /\ \A i, j \in 1..Len(file) : i < j =>
             VerifyChain([file EXCEPT ![i] = file[j], ![j] = file[i]]) # -1
        /\ \A i \in 1..Len(file), c \in 0..built : c # file[i].content =>
             VerifyChain([file EXCEPT ![i].content = c]) # -1
        /\ \A i \in 1..Len(file) : \A e \in ToSet(file) \cup {Chained(i, built + 1)} :
             VerifyChain(InsertAt(file, i, e)) # -1
    BY DEF EditsDetected
  <2>1. file \in Seq(Event) /\ built + 1 \in Nat /\ \A c \in 0..built : c \in Nat
    BY DEF TypeOK
  <2>2. \A i \in 1..Len(file) : Follows(file, i)
    BY <2>1, VerifyFindsABreak DEF ChainIntact
  <2>3. ASSUME NEW i \in 1..Len(file), NEW e \in ToSet(file) \cup {Chained(i, built + 1)}
        PROVE  e \in Event
    <3>1. \A x \in ToSet(file) : x \in Event
      BY <2>1 DEF ToSet
    <3>2. Chained(i, built + 1) \in Event
      BY <2>1, ChainedIsAnEvent
    <3> QED BY <3>1, <3>2
  <2>4. \A i \in 1..Len(file) : \A e \in ToSet(file) \cup {Chained(i, built + 1)} :
          VerifyChain(InsertAt(file, i, e)) # -1
    BY <2>1, <2>2, <2>3, InsertionIsDetected
  <2>5. \A i, j \in 1..Len(file) : i < j => i # j
    OBVIOUS
  <2>6. /\ \A i \in 1..(Len(file) - 1) : VerifyChain(RemoveAt(file, i)) # -1
        /\ \A i, j \in 1..Len(file) : i < j =>
             VerifyChain([file EXCEPT ![i] = file[j], ![j] = file[i]]) # -1
        /\ \A i \in 1..Len(file), c \in 0..built : c # file[i].content =>
             VerifyChain([file EXCEPT ![i].content = c]) # -1
    BY <2>1, <2>2, <2>5, LossIsDetected, SwapIsDetected, ForgeryIsDetected
  <2> QED BY <2>4, <2>6
<1> QED BY <1>1, LogTypeCorrect, PTL
=============================================================================
