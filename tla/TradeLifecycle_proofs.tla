----------------------- MODULE TradeLifecycle_proofs -----------------------
(***************************************************************************)
(* Theorems about TradeLifecycle, for any sets of mandates and             *)
(* transactions.  The safety properties rest on one inductive invariant,   *)
(* IInv; its parts say what a property alone does not: what a loop in the  *)
(* middle of an execution has already done, that a trade key is broadcast  *)
(* at most once, and that the working copies run ahead of the files.       *)
(***************************************************************************)
EXTENDS TradeLifecycle, TLAPS

\* A transaction has an owner exactly when it was broadcast.
SentByOwner == \A t \in Tx : fate[t] = "unsent" <=> owner[t] = None

\* Only mined fills are in a file or in a working copy.
FilesTrue == \A f \in File : \A t \in disk[f] \cup mem[f] : fate[t] = "success"

\* While the process lives a write never takes a fill out of a file.
MemAhead == up => \A f \in File : disk[f] \subseteq mem[f]

DownIdle == ~up => \A L \in Loop : pc[L] = "poll"

\* An orphaned CLI call left a marker without a hash.
OrphansMarked == /\ up => orphan = {}
                 /\ \A k \in orphan : marker[k] = Building

AfterHash == {"unconfirmed", "filled", "saving", "commit", "audit", "clear"}
AfterMined == {"filled", "saving", "commit", "audit", "clear"}
AfterSave == {"commit", "audit", "clear"}

LoopJobOK(L) ==
  /\ InJob(L) \/ pc[L] = "planned" => job[L] # None
  /\ ~InJob(L) => hash[L] = None
  /\ pc[L] = "refused" => hash[L] = None
  /\ pc[L] \in AfterHash => hash[L] # None
  /\ hash[L] # None => owner[hash[L]] = job[L]
  /\ pc[L] \in AfterMined => fate[hash[L]] = "success"

JobOK == \A L \in Loop : LoopJobOK(L)

\* What a loop has folded and written when it stands at a save or after it.
LoopSavingOK(L) ==
  /\ pc[L] # "saving" => at[L] = 1
  /\ pc[L] = "saving" =>
       LET a == job[L].action IN
       /\ at[L] <= Len(SaveSeq(a))
       /\ \A f \in FoldedAt(a, at[L]) : hash[L] \in mem[f]
       /\ \A i \in 1 .. Len(SaveSeq(a)) : i < at[L] => hash[L] \in disk[SaveSeq(a)[i]]
  /\ pc[L] \in AfterSave => FullySaved(hash[L])

SavingOK == \A L \in Loop : LoopSavingOK(L)

\* What may still broadcast for a trade has not broadcast yet.
Fresh ==
  /\ (InJob("main") \/ pc["main"] = "planned") /\ hash["main"] = None
       => \A t \in Tx : owner[t] # job["main"]
  /\ \A k \in orphan : k \in TradeKey => \A t \in Tx : owner[t] # k

\* Ids in use were issued, so a new plan gets an unused one.
Issued ==
  /\ \A t \in Tx : owner[t] \in TradeKey => owner[t].mandate \in used
  /\ \A k \in orphan : k \in TradeKey => k.mandate \in used
  /\ job["main"] # None => job["main"].mandate \in used

OneTxPerTrade ==
  \A t, u \in Tx : owner[t] \in TradeKey /\ owner[t] = owner[u] => t = u

IInv ==
  /\ TypeOK
  /\ SentByOwner
  /\ FilesTrue
  /\ MemAhead
  /\ DownIdle
  /\ OrphansMarked
  /\ JobOK
  /\ SavingOK
  /\ Fresh
  /\ Issued
  /\ OneTxPerTrade
  /\ ExecutionsAreMarked
  /\ CommitRecordsAreTrue
  /\ EntryFillsTraced

-----------------------------------------------------------------------------
(* Facts about the operators.                                              *)

LEMMA SaveFacts ==
  ASSUME NEW a \in Action
  PROVE  /\ SaveSeq(a) \in Seq(File)
         /\ Len(SaveSeq(a)) \in 1 .. 5 /\ 1 \in 1 .. Len(SaveSeq(a))
         /\ FilesOf(a) \subseteq File
         /\ \A i \in 1 .. Len(SaveSeq(a)) :
              /\ SaveSeq(a)[i] \in FilesOf(a)
              /\ SaveSeq(a)[i] \in FoldedAt(a, i)
              /\ FoldedAt(a, i) \subseteq FilesOf(a)
<1>1. CASE a = "entry"
  BY <1>1 DEF SaveSeq, FilesOf, FoldedAt, File
<1>2. CASE a = "scout"
  BY <1>2 DEF SaveSeq, FilesOf, FoldedAt, File
<1>3. CASE a = "exit"
  BY <1>3 DEF SaveSeq, FilesOf, FoldedAt, File
<1> QED BY <1>1, <1>2, <1>3 DEF Action

-----------------------------------------------------------------------------
(* Frames: which actions change which variables.                           *)

LoopStep(L) ==
  \/ CliBroadcasts(L) \/ CliReturnsReceipt(L) \/ PolicyRefuses(L)
  \/ ClearRefused(L) \/ ArmReview(L) \/ FoldFill(L) \/ SaveNext(L)
  \/ MarkRecorded(L) \/ ClearRecorded(L)

LEMMA NextCases ==
  ASSUME [Next]_vars
  PROVE  \/ UNCHANGED vars
         \/ MainPoll \/ MainHold \/ MainCycleFails \/ MainExecute
         \/ AuditFill \/ MainTradeThrows
         \/ \E k \in Key : MainPlan(k)
         \/ WatchPoll \/ WatchEndPass \/ WatchRest
         \/ WatchTradeThrows \/ WatchPassThrows
         \/ \E m \in Mandate : WatchKeep(m) \/ WatchExit(m)
         \/ \E L \in Loop : LoopStep(L)
         \/ \E k \in orphan : OrphanBroadcasts(k) \/ OrphanDies(k)
         \/ \E t \in Tx : ChainSettles(t)
         \/ Crash \/ ProcessExits \/ StartResumes \/ StartEscalates
         \/ OperatorResolves \/ ToggleKill
BY DEF Next, MainStep, WatchStep, TradeStep, LoopStep, Environment, Restart, Loop

LEMMA ChainFrame ==
  ASSUME [Next]_vars
  PROVE  \/ UNCHANGED <<fate, owner, orphan>>
         \/ \E L \in Loop : CliBroadcasts(L)
         \/ \E k \in orphan : OrphanBroadcasts(k) \/ OrphanDies(k)
         \/ \E t \in Tx : ChainSettles(t)
         \/ Crash
BY NextCases DEF vars, chainVars, fileVars, loopVars, LoopStep,
  MainPoll, MainHold, MainCycleFails, MainExecute, AuditFill, MainTradeThrows,
  MainPlan, WatchPoll, WatchEndPass, WatchRest, WatchTradeThrows,
  WatchPassThrows, WatchKeep, WatchExit, CliReturnsReceipt, PolicyRefuses,
  ClearRefused, ArmReview, FoldFill, SaveNext, MarkRecorded, ClearRecorded,
  ProcessExits, Down, StartResumes, StartEscalates, OperatorResolves, ToggleKill

LEMMA MarkerFrame ==
  ASSUME [Next]_vars
  PROVE  \/ UNCHANGED marker
         \/ MainExecute
         \/ \E m \in Mandate : WatchExit(m)
         \/ \E L \in Loop : CliReturnsReceipt(L) \/ ClearRefused(L) \/ ClearRecorded(L)
         \/ StartResumes
         \/ OperatorResolves
BY NextCases DEF vars, chainVars, fileVars, loopVars, LoopStep,
  MainPoll, MainHold, MainCycleFails, AuditFill, MainTradeThrows, MainPlan,
  WatchPoll, WatchEndPass, WatchRest, WatchTradeThrows, WatchPassThrows,
  WatchKeep, CliBroadcasts, PolicyRefuses, ArmReview, FoldFill, SaveNext,
  MarkRecorded, OrphanBroadcasts, OrphanDies, ChainSettles, Crash,
  ProcessExits, Down, StartEscalates, ToggleKill

LEMMA CommitFrame ==
  ASSUME [Next]_vars
  PROVE  UNCHANGED commit \/ \E L \in Loop : MarkRecorded(L)
BY NextCases DEF vars, chainVars, fileVars, loopVars, LoopStep,
  MainPoll, MainHold, MainCycleFails, MainExecute, AuditFill, MainTradeThrows,
  MainPlan, WatchPoll, WatchEndPass, WatchRest, WatchTradeThrows,
  WatchPassThrows, WatchKeep, WatchExit, CliBroadcasts, CliReturnsReceipt,
  PolicyRefuses, ClearRefused, ArmReview, FoldFill, SaveNext, ClearRecorded,
  OrphanBroadcasts, OrphanDies, ChainSettles, Crash, ProcessExits, Down,
  StartResumes, StartEscalates, OperatorResolves, ToggleKill

LEMMA FilesFrame ==
  ASSUME [Next]_vars
  PROVE  \/ UNCHANGED <<disk, mem>>
         \/ MainHold \/ \E k \in Key : MainPlan(k)
         \/ WatchEndPass
         \/ \E L \in Loop : FoldFill(L) \/ SaveNext(L)
         \/ Crash \/ ProcessExits \/ StartResumes \/ OperatorResolves
BY NextCases DEF vars, chainVars, fileVars, loopVars, LoopStep,
  MainPoll, MainCycleFails, MainExecute, AuditFill, MainTradeThrows,
  WatchPoll, WatchRest, WatchTradeThrows, WatchPassThrows, WatchKeep,
  WatchExit, CliBroadcasts, CliReturnsReceipt, PolicyRefuses, ClearRefused,
  ArmReview, MarkRecorded, ClearRecorded, OrphanBroadcasts, OrphanDies,
  ChainSettles, StartEscalates, ToggleKill

LEMMA UpFrame ==
  ASSUME [Next]_vars
  PROVE  UNCHANGED up \/ Crash \/ ProcessExits \/ StartResumes
BY NextCases DEF vars, chainVars, fileVars, loopVars, LoopStep,
  MainPoll, MainHold, MainCycleFails, MainExecute, AuditFill, MainTradeThrows,
  MainPlan, WatchPoll, WatchEndPass, WatchRest, WatchTradeThrows,
  WatchPassThrows, WatchKeep, WatchExit, CliBroadcasts, CliReturnsReceipt,
  PolicyRefuses, ClearRefused, ArmReview, FoldFill, SaveNext, MarkRecorded,
  ClearRecorded, OrphanBroadcasts, OrphanDies, ChainSettles, StartEscalates,
  OperatorResolves, ToggleKill

\* Who moves while the process is down, or takes it down.
LEMMA DownFrame ==
  ASSUME [Next]_vars, up \in BOOLEAN, up' \in BOOLEAN, ~up \/ ~up'
  PROVE  \/ Crash \/ ProcessExits \/ StartResumes \/ StartEscalates
         \/ OperatorResolves \/ ToggleKill \/ UNCHANGED vars
         \/ \E k \in orphan : OrphanBroadcasts(k) \/ OrphanDies(k)
         \/ \E t \in Tx : ChainSettles(t)
<1>1. CASE ~up
  <2>1. \A L \in Loop : ~CanRun(L) /\ ~CliBroadcasts(L)
    BY <1>1 DEF CanRun, CliBroadcasts
  <2>2. \A L \in Loop : ~LoopStep(L)
    BY <2>1 DEF LoopStep, CliReturnsReceipt, PolicyRefuses, ClearRefused,
      ArmReview, FoldFill, SaveNext, MarkRecorded, ClearRecorded
  <2>3. ~CanRun("main") /\ ~CanRun("watch")
    BY <2>1 DEF Loop
  <2> QED BY <2>2, <2>3, NextCases DEF MainPoll, MainHold, MainCycleFails,
    MainExecute, AuditFill, MainTradeThrows, MainPlan, WatchPoll, WatchEndPass,
    WatchRest, WatchTradeThrows, WatchPassThrows, WatchKeep, WatchExit
<1>2. CASE up /\ ~up'
  BY <1>2, UpFrame
<1> QED BY <1>1, <1>2

-----------------------------------------------------------------------------
(* Type correctness, in parts small enough for the provers.                *)

ChainType == /\ fate \in [Tx -> {"unsent", "inflight", "success", "reverted"}]
             /\ owner \in [Tx -> Key \cup {None}]
             /\ orphan \in SUBSET Key
MarkType == /\ marker \in [Key -> Tx \cup {None, Building}]
            /\ commit \in [Key -> Tx \cup {None}]
SetType == /\ disk \in [File -> SUBSET Tx]
           /\ mem \in [File -> SUBSET Tx]
FlagType == /\ review \in BOOLEAN
            /\ kill \in BOOLEAN
            /\ up \in BOOLEAN
            /\ used \in SUBSET Mandate
            /\ todo \in SUBSET Mandate
LoopType == /\ pc \in [Loop -> {"poll", "cycle", "planned", "pass", "rest", "stopped",
                                "calling", "refused", "unconfirmed", "filled",
                                "saving", "commit", "audit", "clear"}]
            /\ at \in [Loop -> 1 .. 5]
JobType == /\ job \in [Loop -> Key \cup {None}]
           /\ job["main"] \in TradeKey \cup {None}
           /\ job["watch"] \in ExitKey \cup {None}
           /\ hash \in [Loop -> Tx \cup {None}]

LEMMA TypeParts ==
  TypeOK <=> ChainType /\ MarkType /\ SetType /\ FlagType /\ LoopType /\ JobType
BY DEF TypeOK, ChainType, MarkType, SetType, FlagType, LoopType, JobType

\* What the job of a loop in an execution is.
LEMMA JobFacts ==
  ASSUME IInv, NEW L \in Loop, InJob(L) \/ pc[L] = "planned"
  PROVE  /\ job[L] \in Key
         /\ job[L].action \in Action
         /\ L = "main" => job[L] \in TradeKey
         /\ L = "watch" => job[L] \in ExitKey
         /\ pc[L] \in AfterHash => hash[L] \in Tx
<1>1. JobType /\ JobOK
  BY TypeParts DEF IInv
<1>2. job[L] \in Key
  BY <1>1 DEF JobType, JobOK, LoopJobOK
<1>3. pc[L] \in AfterHash => hash[L] \in Tx
  BY <1>1 DEF JobType, JobOK, LoopJobOK
<1>4. None \notin Key
  BY ConstantsAssumption
<1> QED BY <1>1, <1>2, <1>3, <1>4 DEF JobType, Key, TradeKey, ExitKey

LEMMA ChainTypeStep ==
  ASSUME IInv, [Next]_vars
  PROVE  ChainType'
<1>1. ChainType /\ JobType
  BY TypeParts DEF IInv
<1>2. ASSUME NEW L \in Loop, CliBroadcasts(L) PROVE ChainType'
  <2>1. PICK t \in Tx : Broadcast(job[L], t)
    BY <1>2 DEF CliBroadcasts
  <2>2. job[L] \in Key \cup {None} /\ orphan' = orphan
    BY <1>1, <1>2 DEF CliBroadcasts, JobType
  <2> QED BY <1>1, <2>1, <2>2 DEF ChainType, Broadcast
<1>3. ASSUME NEW k \in orphan, OrphanBroadcasts(k) \/ OrphanDies(k) PROVE ChainType'
  BY <1>1, <1>3 DEF ChainType, OrphanBroadcasts, OrphanDies, Broadcast
<1>4. ASSUME NEW t \in Tx, ChainSettles(t) PROVE ChainType'
  BY <1>1, <1>4 DEF ChainType, ChainSettles
<1>5. ASSUME Crash PROVE ChainType'
  <2>1. PICK S \in SUBSET {job[L] : L \in {C \in Loop : pc[C] = "calling" /\ hash[C] = None}} :
          orphan' = orphan \cup S
    BY <1>5 DEF Crash
  <2>2. ASSUME NEW L \in Loop, pc[L] = "calling" PROVE job[L] \in Key
    BY JobFacts, <2>2 DEF InJob
  <2>3. S \subseteq Key
    BY <2>1, <2>2
  <2>4. UNCHANGED <<fate, owner>>
    BY <1>5 DEF Crash, Down
  <2> QED BY <1>1, <2>1, <2>3, <2>4 DEF ChainType
<1>6. CASE UNCHANGED <<fate, owner, orphan>>
  BY <1>1, <1>6 DEF ChainType
<1> QED BY <1>2, <1>3, <1>4, <1>5, <1>6, ChainFrame

LEMMA MarkTypeStep ==
  ASSUME IInv, [Next]_vars
  PROVE  MarkType'
<1>1. MarkType /\ JobType
  BY TypeParts DEF IInv
<1>2. marker' \in [Key -> Tx \cup {None, Building}]
  <2>1. ASSUME NEW L \in Loop, CliReturnsReceipt(L) \/ ClearRefused(L) \/ ClearRecorded(L)
        PROVE  marker' \in [Key -> Tx \cup {None, Building}]
    BY <1>1, <2>1 DEF MarkType, JobType, CliReturnsReceipt, ClearRefused, ClearRecorded
  <2>2. CASE MainExecute
    BY <1>1, <2>2 DEF MarkType, MainExecute
  <2>3. ASSUME NEW m \in Mandate, WatchExit(m)
        PROVE  marker' \in [Key -> Tx \cup {None, Building}]
    BY <1>1, <2>3 DEF MarkType, WatchExit
  <2>4. CASE StartResumes
    BY <1>1, <2>4 DEF MarkType, StartResumes
  <2>5. CASE OperatorResolves
    BY <1>1, <2>5 DEF MarkType, OperatorResolves
  <2>6. CASE UNCHANGED marker
    BY <1>1, <2>6 DEF MarkType
  <2> QED BY <2>1, <2>2, <2>3, <2>4, <2>5, <2>6, MarkerFrame
<1>3. commit' \in [Key -> Tx \cup {None}]
  <2>1. ASSUME NEW L \in Loop, MarkRecorded(L)
        PROVE  commit' \in [Key -> Tx \cup {None}]
    BY <1>1, <2>1 DEF MarkType, JobType, MarkRecorded
  <2>2. CASE UNCHANGED commit
    BY <1>1, <2>2 DEF MarkType
  <2> QED BY <2>1, <2>2, CommitFrame
<1> QED BY <1>2, <1>3 DEF MarkType

LEMMA SetTypeStep ==
  ASSUME IInv, [Next]_vars
  PROVE  SetType'
<1>1. SetType
  BY TypeParts DEF IInv
<1>2. CASE MainHold
  BY <1>1, <1>2 DEF SetType, MainHold, File
<1>3. ASSUME NEW k \in Key, MainPlan(k) PROVE SetType'
  BY <1>1, <1>3 DEF SetType, MainPlan, File
<1>4. CASE WatchEndPass
  BY <1>1, <1>4 DEF SetType, WatchEndPass, File
<1>5. ASSUME NEW L \in Loop, FoldFill(L) PROVE SetType'
  <2>1. hash[L] \in Tx
    BY <1>5, JobFacts DEF FoldFill, InJob, AfterHash
  <2> QED BY <1>1, <1>5, <2>1 DEF SetType, FoldFill, Folded, fileVars
<1>6. ASSUME NEW L \in Loop, SaveNext(L) PROVE SetType'
  <2>1. hash[L] \in Tx
    BY <1>6, JobFacts DEF SaveNext, InJob, AfterHash
  <2>2. mem' \in [File -> SUBSET Tx]
    BY <1>1, <1>6, <2>1 DEF SetType, SaveNext, Folded
  <2>3. job[L].action \in Action /\ at[L] \in 1 .. Len(SaveSeq(job[L].action))
    <3>1. job[L].action \in Action
      BY <1>6, JobFacts DEF SaveNext, InJob
    <3>2. at[L] \in 1 .. 5 /\ at[L] <= Len(SaveSeq(job[L].action))
      BY <1>6, TypeParts DEF IInv, LoopType, SavingOK, LoopSavingOK, SaveNext
    <3> QED BY <3>1, <3>2, SaveFacts
  <2>4. SaveSeq(job[L].action)[at[L]] \in File
    BY <2>3, SaveFacts
  <2>5. disk' \in [File -> SUBSET Tx]
    BY <1>1, <1>6, <2>4 DEF SetType, SaveNext
  <2> QED BY <2>2, <2>5 DEF SetType
<1>7. CASE Crash \/ ProcessExits
  BY <1>1, <1>7 DEF SetType, Crash, ProcessExits, Down, fileVars
<1>8. CASE StartResumes
  BY <1>1, <1>8 DEF SetType, StartResumes
<1>9. CASE OperatorResolves
  BY <1>1, <1>9 DEF SetType, OperatorResolves
<1>10. CASE UNCHANGED <<disk, mem>>
  BY <1>1, <1>10 DEF SetType
<1> QED BY <1>2, <1>3, <1>4, <1>5, <1>6, <1>7, <1>8, <1>9, <1>10, FilesFrame

LEMMA FlagTypeStep ==
  ASSUME IInv, [Next]_vars
  PROVE  FlagType'
<1>1. FlagType
  BY TypeParts DEF IInv
<1>2. CASE MainPoll \/ MainHold \/ MainCycleFails \/ MainExecute \/ AuditFill \/ MainTradeThrows
  BY <1>1, <1>2 DEF FlagType, fileVars, MainPoll, MainHold, MainCycleFails,
    MainExecute, AuditFill, MainTradeThrows
<1>3. ASSUME NEW k \in Key, MainPlan(k) PROVE FlagType'
  BY <1>1, <1>3 DEF FlagType, MainPlan, Key
<1>4. CASE WatchPoll
  BY <1>1, <1>4 DEF FlagType, fileVars, WatchPoll, Tracked
<1>5. CASE WatchEndPass \/ WatchRest \/ WatchTradeThrows \/ WatchPassThrows
  BY <1>1, <1>5 DEF FlagType, fileVars, WatchEndPass, WatchRest,
    WatchTradeThrows, WatchPassThrows
<1>6. ASSUME NEW m \in Mandate, WatchKeep(m) \/ WatchExit(m) PROVE FlagType'
  BY <1>1, <1>6 DEF FlagType, fileVars, WatchKeep, WatchExit
<1>7. ASSUME NEW L \in Loop, LoopStep(L) PROVE FlagType'
  BY <1>1, <1>7 DEF FlagType, fileVars, LoopStep, CliBroadcasts, CliReturnsReceipt,
    PolicyRefuses, ClearRefused, ArmReview, FoldFill, SaveNext, MarkRecorded,
    ClearRecorded
<1>8. CASE \/ \E k \in orphan : OrphanBroadcasts(k) \/ OrphanDies(k)
           \/ \E t \in Tx : ChainSettles(t)
  BY <1>1, <1>8 DEF FlagType, fileVars, loopVars, OrphanBroadcasts, OrphanDies, ChainSettles
<1>9. CASE Crash \/ ProcessExits \/ StartResumes \/ StartEscalates \/ OperatorResolves \/ ToggleKill
  BY <1>1, <1>9 DEF FlagType, fileVars, loopVars, Crash, ProcessExits, Down,
    StartResumes, StartEscalates, OperatorResolves, ToggleKill
<1>10. CASE UNCHANGED vars
  BY <1>1, <1>10 DEF FlagType, vars
<1> QED BY <1>2, <1>3, <1>4, <1>5, <1>6, <1>7, <1>8, <1>9, <1>10, NextCases

\* The control of the loops, where no execution is under way.
LEMMA LoopTypeStep ==
  ASSUME IInv, [Next]_vars
  PROVE  LoopType'
<1>1. LoopType
  BY TypeParts DEF IInv
<1>2. CASE \/ MainPoll \/ MainHold \/ MainCycleFails \/ MainExecute \/ AuditFill
           \/ \E k \in Key : MainPlan(k)
  BY <1>1, <1>2 DEF LoopType, Goto, MainPoll, MainHold, MainCycleFails,
    MainExecute, AuditFill, MainPlan
<1>3. CASE MainTradeThrows \/ WatchTradeThrows \/ WatchPassThrows
  BY <1>1, <1>3 DEF LoopType, Goto, Leave, MainTradeThrows, WatchTradeThrows, WatchPassThrows
<1>4. CASE \/ WatchPoll \/ WatchEndPass \/ WatchRest
           \/ \E m \in Mandate : WatchKeep(m) \/ WatchExit(m)
  BY <1>1, <1>4 DEF LoopType, Goto, WatchPoll, WatchEndPass, WatchRest, WatchKeep, WatchExit
<1>5. ASSUME NEW L \in Loop, LoopStep(L) PROVE LoopType'
  <2>1. CASE CliBroadcasts(L) \/ CliReturnsReceipt(L) \/ PolicyRefuses(L)
    BY <1>1, <2>1 DEF LoopType, Goto, CliBroadcasts, CliReturnsReceipt, PolicyRefuses
  <2>2. CASE ClearRefused(L) \/ ArmReview(L) \/ ClearRecorded(L)
    BY <1>1, <2>2 DEF LoopType, Goto, Leave, NextStop, ClearRefused, ArmReview, ClearRecorded
  <2>3. CASE FoldFill(L) \/ MarkRecorded(L)
    BY <1>1, <2>3 DEF LoopType, Goto, FoldFill, MarkRecorded
  <2>4. CASE SaveNext(L)
    <3>1. Len(SaveSeq(job[L].action)) \in 1 .. 5
      BY <2>4, JobFacts, SaveFacts DEF SaveNext, InJob
    <3>2. pc' \in [Loop -> {pc[C] : C \in Loop} \cup {"commit"}]
      BY <1>1, <2>4 DEF LoopType, SaveNext, Goto
    <3>3. at' \in [Loop -> 1 .. 5]
      <4> DEFINE n == Len(SaveSeq(job[L].action))
      <4>1. at[L] \in 1 .. 5
        BY <1>1 DEF LoopType
      <4>2. IF at[L] < n THEN at' = [at EXCEPT ![L] = at[L] + 1]
                         ELSE at' = [at EXCEPT ![L] = 1]
        BY <2>4 DEF SaveNext
      <4>3. n \in 1 .. 5
        BY <3>1
      <4> HIDE DEF n
      <4> QED BY <1>1, <4>1, <4>2, <4>3 DEF LoopType
    <3> QED BY <1>1, <3>2, <3>3 DEF LoopType
  <2> QED BY <1>5, <2>1, <2>2, <2>3, <2>4 DEF LoopStep
<1>6. CASE Crash \/ ProcessExits
  BY <1>1, <1>6 DEF LoopType, Crash, ProcessExits, Down
<1>7. CASE \/ \E k \in orphan : OrphanBroadcasts(k) \/ OrphanDies(k)
           \/ \E t \in Tx : ChainSettles(t)
           \/ StartResumes \/ StartEscalates \/ OperatorResolves \/ ToggleKill
           \/ UNCHANGED vars
  BY <1>1, <1>7 DEF LoopType, loopVars, vars, OrphanBroadcasts, OrphanDies,
    ChainSettles, StartResumes, StartEscalates, OperatorResolves, ToggleKill
<1> QED BY <1>2, <1>3, <1>4, <1>5, <1>6, <1>7, NextCases

LEMMA JobTypeStep ==
  ASSUME IInv, [Next]_vars
  PROVE  JobType'
<1>1. JobType /\ "main" \in Loop /\ "watch" \in Loop
  BY TypeParts DEF IInv, Loop
<1>2. ASSUME NEW k \in Key, MainPlan(k) PROVE JobType'
  BY <1>1, <1>2 DEF JobType, MainPlan, TradeKey
<1>3. ASSUME NEW m \in Mandate, WatchExit(m) PROVE JobType'
  BY <1>1, <1>3 DEF JobType, WatchExit, ExitKey, Key, Action
<1>4. ASSUME NEW L \in Loop, LoopStep(L) PROVE JobType'
  <2>1. CASE CliBroadcasts(L)
    BY <1>1, <2>1 DEF JobType, CliBroadcasts
  <2>2. CASE ClearRefused(L) \/ ArmReview(L) \/ ClearRecorded(L)
    BY <1>1, <2>2 DEF JobType, Leave, ClearRefused, ArmReview, ClearRecorded
  <2>3. CASE CliReturnsReceipt(L) \/ PolicyRefuses(L) \/ FoldFill(L) \/ SaveNext(L) \/ MarkRecorded(L)
    BY <1>1, <2>3 DEF JobType, CliReturnsReceipt, PolicyRefuses, FoldFill, SaveNext, MarkRecorded
  <2> QED BY <1>4, <2>1, <2>2, <2>3 DEF LoopStep
<1>5. CASE MainTradeThrows \/ WatchTradeThrows \/ WatchPassThrows
  BY <1>1, <1>5 DEF JobType, Leave, MainTradeThrows, WatchTradeThrows, WatchPassThrows
<1>6. CASE Crash \/ ProcessExits
  BY <1>1, <1>6 DEF JobType, Crash, ProcessExits, Down
<1>7. CASE \/ MainPoll \/ MainHold \/ MainCycleFails \/ MainExecute \/ AuditFill
           \/ WatchPoll \/ WatchEndPass \/ WatchRest
           \/ \E m \in Mandate : WatchKeep(m)
           \/ \E k \in orphan : OrphanBroadcasts(k) \/ OrphanDies(k)
           \/ \E t \in Tx : ChainSettles(t)
           \/ StartResumes \/ StartEscalates \/ OperatorResolves \/ ToggleKill
           \/ UNCHANGED vars
  BY <1>1, <1>7 DEF JobType, loopVars, vars, MainPoll, MainHold,
    MainCycleFails, MainExecute, AuditFill, WatchPoll, WatchEndPass,
    WatchRest, WatchKeep, OrphanBroadcasts, OrphanDies, ChainSettles,
    StartResumes, StartEscalates, OperatorResolves, ToggleKill
<1> QED BY <1>2, <1>3, <1>4, <1>5, <1>6, <1>7, NextCases

LEMMA TypeStep ==
  ASSUME IInv, [Next]_vars
  PROVE  TypeOK'
<1>1. ChainType' /\ MarkType' /\ SetType' /\ FlagType' /\ LoopType' /\ JobType'
  BY ChainTypeStep, MarkTypeStep, SetTypeStep, FlagTypeStep, LoopTypeStep, JobTypeStep
<1> QED BY <1>1 DEF TypeOK, ChainType, MarkType, SetType, FlagType, LoopType, JobType

-----------------------------------------------------------------------------
(* The chain only moves forward, and so do the files.                      *)

LEMMA ChainMonotone ==
  ASSUME IInv, [Next]_vars, NEW t \in Tx
  PROVE  /\ fate[t] # "unsent" => fate'[t] # "unsent" /\ owner'[t] = owner[t]
         /\ fate[t] = "success" => fate'[t] = "success"
         /\ fate[t] = "reverted" => fate'[t] = "reverted"
<1>1. ChainType /\ SentByOwner
  BY TypeParts DEF IInv
<1>2. ASSUME NEW k, NEW u \in Tx, Broadcast(k, u)
      PROVE  /\ u # t => fate'[t] = fate[t] /\ owner'[t] = owner[t]
             /\ u = t => fate[t] = "unsent"
  BY <1>1, <1>2 DEF ChainType, Broadcast
<1>3. CASE \E L \in Loop : CliBroadcasts(L)
  BY <1>2, <1>3 DEF CliBroadcasts
<1>4. CASE \E k \in orphan : OrphanBroadcasts(k)
  BY <1>2, <1>4 DEF OrphanBroadcasts
<1>5. CASE \E u \in Tx : ChainSettles(u)
  BY <1>1, <1>5 DEF ChainType, ChainSettles
<1>6. CASE Crash \/ \E k \in orphan : OrphanDies(k)
  BY <1>6 DEF Crash, Down, OrphanDies
<1>7. CASE UNCHANGED <<fate, owner, orphan>>
  BY <1>7
<1> QED BY <1>3, <1>4, <1>5, <1>6, <1>7, ChainFrame

\* A transaction that is new after a step was broadcast by that step.
LEMMA NewTx ==
  ASSUME IInv, [Next]_vars, NEW t \in Tx, fate[t] = "unsent", fate'[t] # "unsent"
  PROVE  /\ fate'[t] = "inflight"
         /\ \/ \E L \in Loop : /\ CliBroadcasts(L)
                               /\ owner'[t] = job[L] /\ hash'[L] = t
                               /\ owner' = [owner EXCEPT ![t] = job[L]]
            \/ \E k \in orphan : /\ OrphanBroadcasts(k)
                                 /\ owner'[t] = k
                                 /\ owner' = [owner EXCEPT ![t] = k]
<1>1. ChainType /\ JobType
  BY TypeParts DEF IInv
<1>2. ASSUME NEW k, NEW u \in Tx, Broadcast(k, u)
      PROVE  u = t /\ fate'[t] = "inflight" /\ owner'[t] = k /\ owner' = [owner EXCEPT ![t] = k]
  BY <1>1, <1>2 DEF ChainType, Broadcast
<1>3. ASSUME NEW L \in Loop, CliBroadcasts(L)
      PROVE  /\ fate'[t] = "inflight" /\ owner'[t] = job[L] /\ hash'[L] = t
             /\ owner' = [owner EXCEPT ![t] = job[L]]
  BY <1>1, <1>2, <1>3 DEF CliBroadcasts, JobType
<1>4. CASE \E k \in orphan : OrphanBroadcasts(k)
  BY <1>2, <1>4 DEF OrphanBroadcasts
<1>5. CASE \E u \in Tx : ChainSettles(u)
  BY <1>1, <1>5 DEF ChainType, ChainSettles
<1>6. CASE Crash \/ (\E k \in orphan : OrphanDies(k)) \/ UNCHANGED <<fate, owner, orphan>>
  BY <1>6 DEF Crash, Down, OrphanDies
<1> QED BY <1>3, <1>4, <1>5, <1>6, ChainFrame

LEMMA SentByOwnerStep ==
  ASSUME IInv, [Next]_vars
  PROVE  SentByOwner'
<1> SUFFICES ASSUME NEW t \in Tx PROVE fate'[t] = "unsent" <=> owner'[t] = None
  BY DEF SentByOwner
<1>1. CASE fate[t] # "unsent"
  BY <1>1, ChainMonotone DEF IInv, SentByOwner
<1>2. CASE fate[t] = "unsent" /\ fate'[t] # "unsent"
  <2>1. None \notin Key
    BY ConstantsAssumption
  <2>2. \A L \in Loop : CliBroadcasts(L) => job[L] \in Key
    BY JobFacts DEF CliBroadcasts, InJob
  <2>3. orphan \subseteq Key
    BY TypeParts DEF IInv, ChainType
  <2> QED BY <1>2, <2>1, <2>2, <2>3, NewTx
<1>3. CASE fate[t] = "unsent" /\ fate'[t] = "unsent"
  <2>1. owner[t] = None
    BY <1>3 DEF IInv, SentByOwner
  <2>2. ChainType
    BY TypeParts DEF IInv
  <2>3. ASSUME NEW k, NEW u \in Tx, Broadcast(k, u) PROVE owner'[t] = owner[t]
    BY <1>3, <2>2, <2>3 DEF ChainType, Broadcast
  <2>4. owner'[t] = owner[t]
    BY <2>3, ChainFrame DEF CliBroadcasts, OrphanBroadcasts, OrphanDies, ChainSettles, Crash, Down
  <2> QED BY <1>3, <2>1, <2>4
<1> QED BY <1>1, <1>2, <1>3

\* A fill that a running loop folds or saves is a mined one.
LEMMA FoldedIsMined ==
  ASSUME IInv, NEW L \in Loop, pc[L] \in AfterMined
  PROVE  hash[L] \in Tx /\ fate[hash[L]] = "success" /\ owner[hash[L]] = job[L]
<1>1. hash[L] \in Tx
  BY JobFacts DEF InJob, AfterMined, AfterHash
<1> QED BY <1>1, ConstantsAssumption DEF IInv, JobOK, LoopJobOK

LEMMA SaveTarget ==
  ASSUME IInv, NEW L \in Loop, SaveNext(L)
  PROVE  LET a == job[L].action IN
         /\ a \in Action
         /\ at[L] \in 1 .. Len(SaveSeq(a))
         /\ SaveSeq(a)[at[L]] \in File
         /\ hash[L] \in mem[SaveSeq(a)[at[L]]]
<1> DEFINE a == job[L].action
<1>1. a \in Action
  BY JobFacts DEF SaveNext, InJob
<1>2. at[L] \in 1 .. 5 /\ at[L] <= Len(SaveSeq(a))
  BY TypeParts DEF IInv, LoopType, SavingOK, LoopSavingOK, SaveNext
<1>3. at[L] \in 1 .. Len(SaveSeq(a))
  BY <1>1, <1>2, SaveFacts
<1>4. \A f \in FoldedAt(a, at[L]) : hash[L] \in mem[f]
  BY DEF IInv, SavingOK, LoopSavingOK, SaveNext
<1> QED BY <1>1, <1>3, <1>4, SaveFacts

\* While the process lives no write loses a fill.
LEMMA FilesGrow ==
  ASSUME IInv, [Next]_vars, up, up', NEW f \in File
  PROVE  disk[f] \subseteq disk'[f] /\ mem[f] \subseteq mem'[f]
<1>1. SetType /\ disk[f] \subseteq mem[f]
  BY TypeParts DEF IInv, MemAhead
<1>2. CASE MainHold \/ (\E k \in Key : MainPlan(k)) \/ WatchEndPass
  BY <1>1, <1>2 DEF SetType, MainHold, MainPlan, WatchEndPass
<1>3. ASSUME NEW L \in Loop, FoldFill(L) PROVE disk[f] \subseteq disk'[f] /\ mem[f] \subseteq mem'[f]
  BY <1>3 DEF FoldFill, Folded, fileVars
<1>4. ASSUME NEW L \in Loop, SaveNext(L) PROVE disk[f] \subseteq disk'[f] /\ mem[f] \subseteq mem'[f]
  <2>1. disk[f] \subseteq disk'[f]
    BY <1>1, <1>4 DEF SetType, SaveNext
  <2>2. mem[f] \subseteq mem'[f]
    BY <1>4 DEF SaveNext, Folded
  <2> QED BY <2>1, <2>2
<1>5. CASE Crash \/ ProcessExits \/ StartResumes \/ OperatorResolves
  BY <1>5 DEF Crash, ProcessExits, Down, StartResumes, OperatorResolves
<1>6. CASE UNCHANGED <<disk, mem>>
  BY <1>6
<1> QED BY <1>2, <1>3, <1>4, <1>5, <1>6, FilesFrame

\* What is fully saved stays so, across crashes and the operator's rebuild.
LEMMA SavedStays ==
  ASSUME IInv, [Next]_vars, NEW t \in Tx, fate[t] = "success", FullySaved(t)
  PROVE  FullySaved(t)'
<1>1. owner[t] \in Key /\ owner'[t] = owner[t]
  BY TypeParts, ChainMonotone DEF IInv, ChainType, SentByOwner
<1>2. FilesOf(owner[t].action) \subseteq File
  BY <1>1, SaveFacts DEF Key
<1>3. up \in BOOLEAN /\ up' \in BOOLEAN
  BY TypeParts, FlagTypeStep DEF IInv, FlagType
<1>4. CASE up /\ up'
  BY <1>1, <1>2, <1>4, FilesGrow DEF FullySaved
<1>5. CASE ~up \/ ~up'
  <2>1. CASE UNCHANGED disk
    BY <1>1, <2>1 DEF FullySaved
  <2>2. CASE OperatorResolves
    BY <1>1, <1>2, <2>2 DEF FullySaved, OperatorResolves
  <2>3. UNCHANGED disk \/ OperatorResolves
    BY <1>5, <1>3, DownFrame DEF Crash, ProcessExits, Down, StartResumes,
      StartEscalates, ToggleKill, OrphanBroadcasts, OrphanDies, ChainSettles,
      fileVars, vars
  <2> QED BY <2>1, <2>2, <2>3
<1> QED BY <1>4, <1>5

LEMMA FilesTrueStep ==
  ASSUME IInv, [Next]_vars
  PROVE  FilesTrue'
<1>1. SetType /\ SetType' /\ FilesTrue
  BY TypeParts, SetTypeStep DEF IInv
<1> SUFFICES ASSUME NEW f \in File, NEW t \in Tx, t \in disk'[f] \/ t \in mem'[f]
             PROVE  fate'[t] = "success"
  BY <1>1 DEF FilesTrue, SetType
<1>2. t \in disk[f] \/ t \in mem[f] => fate'[t] = "success"
  BY <1>1, ChainMonotone DEF FilesTrue
<1>3. ASSUME NEW L \in Loop, pc[L] \in AfterMined PROVE fate'[hash[L]] = "success"
  BY <1>3, FoldedIsMined, ChainMonotone
<1>4. CASE MainHold \/ (\E k \in Key : MainPlan(k)) \/ WatchEndPass
  BY <1>1, <1>2, <1>4 DEF SetType, MainHold, MainPlan, WatchEndPass
<1>5. ASSUME NEW L \in Loop, FoldFill(L) PROVE fate'[t] = "success"
  BY <1>2, <1>3, <1>5 DEF FoldFill, Folded, fileVars, AfterMined
<1>6. ASSUME NEW L \in Loop, SaveNext(L) PROVE fate'[t] = "success"
  <2>1. t \in mem'[f] => t \in mem[f] \/ t = hash[L]
    BY <1>6 DEF SaveNext, Folded
  <2>2. t \in disk'[f] => t \in disk[f] \/ t \in mem[f]
    BY <1>1, <1>6 DEF SetType, SaveNext
  <2>3. pc[L] \in AfterMined
    BY <1>6 DEF SaveNext, AfterMined
  <2> QED BY <1>2, <1>3, <2>1, <2>2, <2>3
<1>7. CASE Crash \/ ProcessExits \/ StartResumes
  BY <1>2, <1>7 DEF Crash, ProcessExits, Down, StartResumes, fileVars
<1>8. CASE OperatorResolves
  <2>1. mem' = mem /\ (t \in disk'[f] => fate[t] = "success")
    BY <1>8 DEF OperatorResolves
  <2> QED BY <1>2, <2>1, ChainMonotone
<1>9. CASE UNCHANGED <<disk, mem>>
  BY <1>2, <1>9
<1> QED BY <1>4, <1>5, <1>6, <1>7, <1>8, <1>9, FilesFrame

LEMMA MemAheadStep ==
  ASSUME IInv, [Next]_vars
  PROVE  MemAhead'
<1> SUFFICES ASSUME up', NEW f \in File PROVE disk'[f] \subseteq mem'[f]
  BY DEF MemAhead
<1>1. SetType
  BY TypeParts DEF IInv
<1>2. up => disk[f] \subseteq mem[f]
  BY DEF IInv, MemAhead
<1>3. CASE MainHold \/ (\E k \in Key : MainPlan(k)) \/ WatchEndPass
  BY <1>1, <1>2, <1>3 DEF SetType, MainHold, MainPlan, WatchEndPass, CanRun
<1>4. ASSUME NEW L \in Loop, FoldFill(L) PROVE disk'[f] \subseteq mem'[f]
  BY <1>2, <1>4 DEF FoldFill, Folded, fileVars, CanRun
<1>5. ASSUME NEW L \in Loop, SaveNext(L) PROVE disk'[f] \subseteq mem'[f]
  <2>1. disk'[f] \subseteq mem[f]
    BY <1>1, <1>2, <1>5 DEF SetType, SaveNext, CanRun
  <2>2. mem[f] \subseteq mem'[f]
    BY <1>5 DEF SaveNext, Folded
  <2> QED BY <2>1, <2>2
<1>6. CASE Crash \/ ProcessExits \/ OperatorResolves
  BY <1>6 DEF Crash, ProcessExits, Down, OperatorResolves
<1>7. CASE StartResumes
  BY <1>7 DEF StartResumes
<1>8. CASE UNCHANGED <<disk, mem>> /\ up
  BY <1>2, <1>8
<1>9. CASE UNCHANGED <<disk, mem>> /\ ~up
  BY <1>7, <1>9, UpFrame DEF Crash, ProcessExits, Down
<1> QED BY <1>3, <1>4, <1>5, <1>6, <1>7, <1>8, <1>9, FilesFrame

LEMMA DownIdleStep ==
  ASSUME IInv, [Next]_vars
  PROVE  DownIdle'
<1> SUFFICES ASSUME ~up', NEW L \in Loop PROVE pc'[L] = "poll"
  BY DEF DownIdle
<1>1. CASE Crash \/ ProcessExits
  BY <1>1 DEF Crash, ProcessExits, Down
<1>2. CASE ~up /\ UNCHANGED pc
  BY <1>2 DEF IInv, DownIdle
<1>3. up \in BOOLEAN /\ up' \in BOOLEAN
  BY TypeParts, FlagTypeStep DEF IInv, FlagType
<1>4. Crash \/ ProcessExits \/ (~up /\ UNCHANGED pc)
  BY <1>3, DownFrame, UpFrame DEF StartResumes, StartEscalates, ToggleKill,
    OperatorResolves, OrphanBroadcasts, OrphanDies, ChainSettles, loopVars, vars
<1> QED BY <1>1, <1>2, <1>4

LEMMA OrphansMarkedStep ==
  ASSUME IInv, [Next]_vars
  PROVE  OrphansMarked'
<1>1. OrphansMarked /\ ChainType /\ MarkType /\ FlagType /\ FlagType'
  BY TypeParts, FlagTypeStep DEF IInv
<1>2. ASSUME up' PROVE orphan' = {}
  <2>1. CASE up
    <3>1. orphan = {}
      BY <1>1, <2>1 DEF OrphansMarked
    <3> QED BY <1>2, <2>1, <3>1, ChainFrame DEF CliBroadcasts, ChainSettles, Crash, Down
  <2>2. CASE ~up
    <3>1. StartResumes
      BY <1>2, <2>2, UpFrame DEF Crash, ProcessExits
    <3>2. \A k \in Key : marker[k] # Building
      BY <3>1, ConstantsAssumption DEF StartResumes, Settled
    <3> QED BY <1>1, <3>1, <3>2 DEF OrphansMarked, ChainType, StartResumes, chainVars
  <2> QED BY <2>1, <2>2
<1>3. ASSUME NEW k \in orphan' PROVE marker'[k] = Building
  <2>1. CASE up
    <3>1. orphan = {}
      BY <1>1, <2>1 DEF OrphansMarked
    <3>2. Crash /\ \E L \in Loop : pc[L] = "calling" /\ k = job[L]
      BY <1>3, <2>1, <3>1, ChainFrame DEF CliBroadcasts, ChainSettles, Crash
    <3>3. marker[k] = Building
      BY <3>2 DEF IInv, ExecutionsAreMarked, InJob
    <3> QED BY <3>2, <3>3 DEF Crash, Down, fileVars
  <2>2. CASE ~up
    <3>1. orphan' \subseteq orphan
      BY <2>2, ChainFrame DEF CliBroadcasts, OrphanBroadcasts, OrphanDies, ChainSettles, Crash
    <3>2. marker[k] = Building
      BY <1>1, <1>3, <3>1 DEF OrphansMarked
    <3>3. ~StartResumes
      BY <1>1, <1>3, <3>1, <3>2, ConstantsAssumption DEF ChainType, StartResumes, Settled
    <3>4. CASE OperatorResolves
      BY <1>3, <3>1, <3>4 DEF OperatorResolves
    <3>5. CASE UNCHANGED marker
      BY <3>2, <3>5
    <3> QED BY <1>1, <2>2, <3>3, <3>4, <3>5, DownFrame DEF FlagType, Crash, ProcessExits,
          StartEscalates, ToggleKill, OrphanBroadcasts, OrphanDies, ChainSettles, fileVars, vars
  <2> QED BY <2>1, <2>2
<1> QED BY <1>2, <1>3 DEF OrphansMarked

-----------------------------------------------------------------------------
(* Where a loop stands.                                                    *)

LoopSame(L) == /\ pc'[L] = pc[L] /\ job'[L] = job[L]
               /\ hash'[L] = hash[L] /\ at'[L] = at[L]

\* The steps a loop takes, seen from the loop: at rest before and after, into
\* an execution, through it, or out of it.
LEMMA LoopCases ==
  ASSUME IInv, [Next]_vars, NEW L \in Loop
  PROVE  \/ LoopSame(L)
         \/ /\ ~InJob(L) /\ pc[L] # "planned"
            /\ pc'[L] \in {"poll", "cycle", "pass", "rest", "stopped"}
            /\ job'[L] = job[L] /\ hash'[L] = hash[L] /\ at'[L] = at[L]
         \/ L = "main" /\ \E k \in Key : MainPlan(k)
         \/ L = "main" /\ (MainExecute \/ AuditFill)
         \/ L = "watch" /\ \E m \in Mandate : WatchExit(m)
         \/ /\ pc'[L] \in {"poll", "pass", "rest"}
            /\ job'[L] = None /\ hash'[L] = None /\ at'[L] = 1
         \/ CliBroadcasts(L) \/ CliReturnsReceipt(L) \/ PolicyRefuses(L)
         \/ FoldFill(L) \/ SaveNext(L) \/ MarkRecorded(L)
<1>1. LoopType /\ JobType
  BY TypeParts DEF IInv
<1>2. CASE MainPoll \/ MainHold \/ MainCycleFails \/ MainExecute \/ AuditFill
  BY <1>1, <1>2 DEF LoopType, LoopSame, Goto, InJob, MainPoll, MainHold,
    MainCycleFails, MainExecute, AuditFill
<1>3. ASSUME NEW k \in Key, MainPlan(k) PROVE L = "main" \/ LoopSame(L)
  BY <1>1, <1>3 DEF LoopType, JobType, LoopSame, Goto, MainPlan
<1>4. CASE WatchPoll \/ WatchEndPass \/ WatchRest
  BY <1>1, <1>4 DEF LoopType, LoopSame, Goto, InJob, WatchPoll, WatchEndPass, WatchRest
<1>5. ASSUME NEW m \in Mandate, WatchKeep(m) PROVE LoopSame(L)
  BY <1>5 DEF LoopSame, WatchKeep
<1>6. ASSUME NEW m \in Mandate, WatchExit(m) PROVE L = "watch" \/ LoopSame(L)
  BY <1>1, <1>6 DEF LoopType, JobType, LoopSame, Goto, WatchExit
<1>7. ASSUME NEW C \in Loop, \/ ClearRefused(C) \/ ArmReview(C) \/ ClearRecorded(C)
                             \/ C = "main" /\ MainTradeThrows
                             \/ C = "watch" /\ (WatchTradeThrows \/ WatchPassThrows)
      PROVE  \/ LoopSame(L)
             \/ /\ pc'[L] \in {"poll", "pass", "rest"}
                /\ job'[L] = None /\ hash'[L] = None /\ at'[L] = 1
  <2>1. \E p \in {"poll", "pass", "rest"} : Leave(C, p)
    BY <1>7 DEF ClearRefused, ArmReview, ClearRecorded, NextStop, MainTradeThrows,
      WatchTradeThrows, WatchPassThrows
  <2> QED BY <1>1, <2>1 DEF LoopType, JobType, LoopSame, Leave, Goto
<1>8. ASSUME NEW C \in Loop, CliBroadcasts(C) \/ CliReturnsReceipt(C) \/ PolicyRefuses(C)
                             \/ FoldFill(C) \/ SaveNext(C) \/ MarkRecorded(C)
      PROVE  L = C \/ LoopSame(L)
  BY <1>1, <1>8 DEF LoopType, JobType, LoopSame, Goto, CliBroadcasts,
    CliReturnsReceipt, PolicyRefuses, FoldFill, SaveNext, MarkRecorded
<1>9. CASE Crash \/ ProcessExits
  BY <1>9 DEF Crash, ProcessExits, Down
<1>10. CASE \/ StartResumes \/ StartEscalates \/ OperatorResolves \/ ToggleKill
            \/ \E k \in orphan : OrphanBroadcasts(k) \/ OrphanDies(k)
            \/ \E t \in Tx : ChainSettles(t)
            \/ UNCHANGED vars
  BY <1>10 DEF LoopSame, loopVars, vars, StartResumes, StartEscalates,
    OperatorResolves, ToggleKill, OrphanBroadcasts, OrphanDies, ChainSettles
<1>11. \A C \in Loop : LoopStep(C) =>
          \/ ClearRefused(C) \/ ArmReview(C) \/ ClearRecorded(C)
          \/ CliBroadcasts(C) \/ CliReturnsReceipt(C) \/ PolicyRefuses(C)
          \/ FoldFill(C) \/ SaveNext(C) \/ MarkRecorded(C)
  BY DEF LoopStep
<1>12. "main" \in Loop /\ "watch" \in Loop
  BY DEF Loop
<1> QED BY <1>2, <1>3, <1>4, <1>5, <1>6, <1>7, <1>8, <1>9, <1>10, <1>11, <1>12, NextCases

LEMMA JobOKStep ==
  ASSUME IInv, [Next]_vars
  PROVE  JobOK'
<1> SUFFICES ASSUME NEW L \in Loop PROVE LoopJobOK(L)'
  BY DEF JobOK
<1>1. LoopJobOK(L) /\ LoopType /\ JobType
  BY TypeParts DEF IInv, JobOK
<1>2. None \notin Key /\ None \notin Tx
  BY ConstantsAssumption
<1>3. hash[L] # None => /\ hash[L] \in Tx
                        /\ owner[hash[L]] = job[L]
                        /\ owner'[hash[L]] = job[L]
                        /\ fate[hash[L]] = "success" => fate'[hash[L]] = "success"
  <2> SUFFICES ASSUME hash[L] # None
               PROVE  /\ hash[L] \in Tx
                      /\ owner[hash[L]] = job[L]
                      /\ owner'[hash[L]] = job[L]
                      /\ fate[hash[L]] = "success" => fate'[hash[L]] = "success"
    OBVIOUS
  <2>1. hash[L] \in Tx /\ owner[hash[L]] = job[L] /\ InJob(L)
    BY <1>1 DEF JobType, LoopJobOK
  <2>2. job[L] # None
    BY <1>1, <2>1 DEF LoopJobOK
  <2>3. fate[hash[L]] # "unsent"
    BY <2>1, <2>2 DEF IInv, SentByOwner
  <2> QED BY <2>1, <2>3, ChainMonotone
<1>4. CASE LoopSame(L)
  BY <1>1, <1>3, <1>4 DEF LoopSame, LoopJobOK, InJob, AfterHash, AfterMined
<1>5. CASE /\ ~InJob(L)
           /\ pc'[L] \in {"poll", "cycle", "pass", "rest", "stopped"}
           /\ job'[L] = job[L] /\ hash'[L] = hash[L]
  BY <1>1, <1>5 DEF LoopJobOK, InJob, AfterHash, AfterMined
<1>6. CASE \/ L = "main" /\ \E k \in Key : MainPlan(k)
           \/ L = "watch" /\ \E m \in Mandate : WatchExit(m)
  <2>1. ASSUME NEW k \in Key, MainPlan(k), L = "main"
        PROVE  pc[L] = "cycle" /\ pc'[L] = "planned" /\ hash'[L] = hash[L] /\ job'[L] \in Key
    BY <1>1, <2>1 DEF LoopType, JobType, Goto, MainPlan
  <2>2. ASSUME NEW m \in Mandate, WatchExit(m), L = "watch"
        PROVE  pc[L] = "pass" /\ pc'[L] = "calling" /\ hash'[L] = hash[L] /\ job'[L] \in Key
    BY <1>1, <2>2 DEF LoopType, JobType, Goto, WatchExit, Key, Action
  <2>3. /\ pc[L] \in {"cycle", "pass"} /\ pc'[L] \in {"planned", "calling"}
        /\ hash'[L] = hash[L] /\ job'[L] \in Key
    BY <1>6, <2>1, <2>2
  <2> QED BY <1>1, <1>2, <2>3 DEF LoopJobOK, InJob, AfterHash, AfterMined
<1>7. CASE L = "main" /\ (MainExecute \/ AuditFill)
  <2>1. CASE MainExecute
    <3>1. /\ job'[L] = job[L] /\ hash'[L] = hash[L]
          /\ pc[L] = "planned" /\ pc'[L] = "calling"
      BY <1>1, <1>7, <2>1 DEF LoopType, Goto, MainExecute
    <3> QED BY <1>1, <1>3, <3>1 DEF LoopJobOK, InJob, AfterHash, AfterMined
  <2>2. CASE AuditFill
    <3>1. /\ job'[L] = job[L] /\ hash'[L] = hash[L]
          /\ pc[L] = "audit" /\ pc'[L] = "clear"
      BY <1>1, <1>7, <2>2 DEF LoopType, Goto, AuditFill
    <3> QED BY <1>1, <1>3, <3>1 DEF LoopJobOK, InJob, AfterHash, AfterMined
  <2> QED BY <1>7, <2>1, <2>2
<1>8. CASE pc'[L] \in {"poll", "pass", "rest"} /\ job'[L] = None /\ hash'[L] = None
  BY <1>8 DEF LoopJobOK, InJob, AfterHash, AfterMined
<1>9. CASE CliBroadcasts(L)
  <2>1. PICK t \in Tx : Broadcast(job[L], t) /\ hash' = [hash EXCEPT ![L] = t]
    BY <1>9 DEF CliBroadcasts
  <2>2. /\ pc'[L] = "calling" /\ job'[L] = job[L] /\ hash'[L] = t
        /\ owner'[t] = job[L] /\ pc[L] = "calling"
    BY <1>1, <1>9, <2>1, TypeParts DEF IInv, ChainType, JobType, CliBroadcasts, Broadcast
  <2> QED BY <1>1, <1>2, <2>2 DEF LoopJobOK, InJob, AfterHash, AfterMined
<1>10. CASE CliReturnsReceipt(L)
  <2>1. /\ job'[L] = job[L] /\ hash'[L] = hash[L] /\ hash[L] # None /\ pc[L] = "calling"
        /\ \/ pc'[L] = "unconfirmed"
           \/ pc'[L] = "filled" /\ fate[hash[L]] = "success"
    BY <1>1, <1>10 DEF LoopType, Goto, CliReturnsReceipt
  <2> QED BY <1>1, <1>3, <2>1 DEF LoopJobOK, InJob, AfterHash, AfterMined
<1>11. CASE PolicyRefuses(L)
  <2>1. /\ job'[L] = job[L] /\ hash'[L] = hash[L] /\ hash[L] = None
        /\ pc[L] = "calling" /\ pc'[L] = "refused"
    BY <1>1, <1>11 DEF LoopType, Goto, PolicyRefuses
  <2> QED BY <1>1, <2>1 DEF LoopJobOK, InJob, AfterHash, AfterMined
<1>12. CASE FoldFill(L) \/ SaveNext(L) \/ MarkRecorded(L)
  <2>1. /\ job'[L] = job[L] /\ hash'[L] = hash[L]
        /\ pc[L] \in AfterMined /\ pc'[L] \in AfterMined
    BY <1>1, <1>12 DEF LoopType, Goto, FoldFill, SaveNext, MarkRecorded, AfterMined
  <2> QED BY <1>1, <1>3, <2>1 DEF LoopJobOK, InJob, AfterHash, AfterMined
<1> QED BY <1>4, <1>5, <1>6, <1>7, <1>8, <1>9, <1>10, <1>11, <1>12, LoopCases

LEMMA SavingOKStep ==
  ASSUME IInv, [Next]_vars
  PROVE  SavingOK'
<1> SUFFICES ASSUME NEW L \in Loop PROVE LoopSavingOK(L)'
  BY DEF SavingOK
<1>1. LoopSavingOK(L) /\ LoopType /\ JobType /\ SetType
  BY TypeParts DEF IInv, SavingOK
<1>2. pc[L] \in AfterMined => /\ hash[L] \in Tx /\ fate[hash[L]] = "success"
                              /\ owner[hash[L]] = job[L] /\ job[L].action \in Action
  BY FoldedIsMined, JobFacts DEF InJob, AfterMined
<1>3. pc[L] \in AfterSave => \A f \in FilesOf(owner'[hash[L]].action) : hash[L] \in disk'[f]
  <2> SUFFICES ASSUME pc[L] \in AfterSave
               PROVE  \A f \in FilesOf(owner'[hash[L]].action) : hash[L] \in disk'[f]
    OBVIOUS
  <2>1. PICK t \in Tx : t = hash[L]
    BY <1>2 DEF AfterSave, AfterMined
  <2>2. fate[t] = "success" /\ FullySaved(t)
    BY <1>1, <1>2, <2>1 DEF LoopSavingOK, AfterSave, AfterMined
  <2>3. FullySaved(t)'
    BY <2>2, SavedStays
  <2> QED BY <2>1, <2>3 DEF FullySaved
<1>4. CASE LoopSame(L)
  <2>1. CASE pc[L] # "saving"
    BY <1>1, <1>3, <1>4, <2>1 DEF LoopSame, LoopSavingOK, AfterSave, FullySaved
  <2>2. CASE pc[L] = "saving"
    <3>1. up /\ up'
      <4>1. pc'[L] # "poll"
        BY <1>4, <2>2 DEF LoopSame
      <4> QED BY <2>2, <4>1, DownIdleStep DEF IInv, DownIdle
    <3> DEFINE a == job[L].action
    <3>2. FoldedAt(a, at[L]) \subseteq File /\ (\A i \in 1 .. Len(SaveSeq(a)) : SaveSeq(a)[i] \in File)
      <4>1. a \in Action /\ at[L] \in 1 .. 5 /\ at[L] <= Len(SaveSeq(a))
        BY <1>1, <1>2, <2>2 DEF LoopType, LoopSavingOK, AfterMined
      <4> QED BY <4>1, SaveFacts
    <3>3. \A f \in File : disk[f] \subseteq disk'[f] /\ mem[f] \subseteq mem'[f]
      BY <3>1, FilesGrow
    <3> QED BY <1>1, <1>4, <2>2, <3>2, <3>3 DEF LoopSame, LoopSavingOK, AfterSave
  <2> QED BY <2>1, <2>2
<1>5. CASE /\ ~InJob(L)
           /\ pc'[L] \in {"poll", "cycle", "pass", "rest", "stopped"}
           /\ at'[L] = at[L]
  BY <1>1, <1>5 DEF LoopSavingOK, InJob, AfterSave
<1>6. CASE \/ L = "main" /\ ((\E k \in Key : MainPlan(k)) \/ MainExecute)
           \/ L = "watch" /\ \E m \in Mandate : WatchExit(m)
  <2>1. at'[L] = at[L] /\ pc[L] # "saving" /\ pc'[L] \in {"planned", "calling"}
    BY <1>1, <1>6 DEF LoopType, Goto, MainPlan, MainExecute, WatchExit
  <2> QED BY <1>1, <2>1 DEF LoopSavingOK, AfterSave
<1>7. CASE L = "main" /\ AuditFill
  <2>1. at'[L] = at[L] /\ hash'[L] = hash[L] /\ pc[L] = "audit" /\ pc'[L] = "clear"
    BY <1>1, <1>7 DEF LoopType, Goto, AuditFill
  <2> QED BY <1>1, <1>3, <2>1 DEF LoopSavingOK, AfterSave, FullySaved
<1>8. CASE pc'[L] \in {"poll", "pass", "rest"} /\ at'[L] = 1
  BY <1>8 DEF LoopSavingOK, AfterSave
<1>9. CASE CliBroadcasts(L) \/ CliReturnsReceipt(L) \/ PolicyRefuses(L)
  <2>1. at'[L] = at[L] /\ pc[L] = "calling" /\ pc'[L] \in {"calling", "unconfirmed", "filled", "refused"}
    BY <1>1, <1>9 DEF LoopType, Goto, CliBroadcasts, CliReturnsReceipt, PolicyRefuses
  <2> QED BY <1>1, <2>1 DEF LoopSavingOK, AfterSave
<1>10. CASE FoldFill(L)
  <2>1. /\ at'[L] = 1 /\ pc'[L] = "saving" /\ job'[L] = job[L] /\ hash'[L] = hash[L]
        /\ pc[L] = "filled"
    BY <1>1, <1>10 DEF LoopType, Goto, FoldFill, LoopSavingOK
  <2> DEFINE a == job[L].action
  <2>2. a \in Action
    BY <1>2, <2>1 DEF AfterMined
  <2>3. 1 \in 1 .. Len(SaveSeq(a)) /\ FoldedAt(a, 1) \subseteq File
    <3>1. 1 \in 1 .. Len(SaveSeq(a))
      BY <2>2, SaveFacts
    <3> QED BY <2>2, <3>1, SaveFacts
  <2>4. \A f \in FoldedAt(a, 1) : hash[L] \in mem'[f]
    BY <1>10, <2>3 DEF FoldFill, Folded
  <2> QED BY <2>1, <2>3, <2>4 DEF LoopSavingOK, AfterSave
<1>11. CASE SaveNext(L)
  <2> DEFINE a == job[L].action
             n == Len(SaveSeq(job[L].action))
  <2>1. /\ a \in Action /\ at[L] \in 1 .. n /\ n \in 1 .. 5
        /\ SaveSeq(a)[at[L]] \in File /\ hash[L] \in mem[SaveSeq(a)[at[L]]]
    BY <1>11, SaveTarget, SaveFacts
  <2>2. pc[L] = "saving" /\ job'[L] = job[L] /\ hash'[L] = hash[L]
    BY <1>11 DEF SaveNext
  <2>3. \A i \in 1 .. n : i <= at[L] => hash[L] \in disk'[SaveSeq(a)[i]]
    <3>1. \A i \in 1 .. n : i < at[L] => hash[L] \in disk[SaveSeq(a)[i]]
      BY <1>1, <2>2 DEF LoopSavingOK
    <3>2. \A i \in 1 .. n : SaveSeq(a)[i] \in File
      BY <2>1, SaveFacts
    <3>3. disk' = [disk EXCEPT ![SaveSeq(a)[at[L]]] = mem[SaveSeq(a)[at[L]]]]
      BY <1>11 DEF SaveNext
    <3>4. up /\ up' \in {up}
      BY <1>11 DEF SaveNext, CanRun
    <3>5. \A f \in File : disk[f] \subseteq disk'[f]
      BY <3>4, FilesGrow
    <3>6. hash[L] \in disk'[SaveSeq(a)[at[L]]]
      BY <1>1, <2>1, <3>3 DEF SetType
    <3> QED BY <2>1, <3>1, <3>2, <3>5, <3>6
  <2>4. CASE at[L] < n
    <3>1. at'[L] = at[L] + 1 /\ pc'[L] = "saving"
      BY <1>1, <1>11, <2>4, <2>2 DEF LoopType, SaveNext
    <3>2. at[L] + 1 \in 1 .. n /\ FoldedAt(a, at[L] + 1) \subseteq File
      BY <2>1, <2>4, SaveFacts
    <3>3. \A f \in FoldedAt(a, at[L] + 1) : hash[L] \in mem'[f]
      BY <1>11, <2>4, <3>2 DEF SaveNext, Folded
    <3>4. \A i \in 1 .. n : i < at'[L] => hash[L] \in disk'[SaveSeq(a)[i]]
      BY <2>1, <2>3, <3>1
    <3> QED BY <2>1, <2>2, <3>1, <3>2, <3>3, <3>4 DEF LoopSavingOK, AfterSave
  <2>5. CASE ~(at[L] < n)
    <3>1. at'[L] = 1 /\ pc'[L] = "commit"
      BY <1>1, <1>11, <2>5 DEF LoopType, SaveNext, Goto
    <3>2. \A i \in 1 .. n : hash[L] \in disk'[SaveSeq(a)[i]]
      BY <2>1, <2>3, <2>5
    <3>3. owner'[hash[L]] = job[L]
      BY <1>2, <1>11, <2>2 DEF SaveNext, chainVars, AfterMined
    <3>4. FullySaved(hash[L])'
      BY <2>2, <3>2, <3>3 DEF FullySaved, FilesOf
    <3> QED BY <2>2, <3>1, <3>4 DEF LoopSavingOK, AfterSave, FullySaved
  <2> QED BY <2>4, <2>5
<1>12. CASE MarkRecorded(L)
  <2>1. /\ at'[L] = at[L] /\ hash'[L] = hash[L] /\ pc[L] = "commit"
        /\ pc'[L] \in {"audit", "clear"}
    BY <1>1, <1>12 DEF LoopType, Goto, MarkRecorded
  <2> QED BY <1>1, <1>3, <2>1 DEF LoopSavingOK, AfterSave, FullySaved
<1> QED BY <1>4, <1>5, <1>6, <1>7, <1>8, <1>9, <1>10, <1>11, <1>12, LoopCases

-----------------------------------------------------------------------------
(* A trade key is broadcast at most once.                                  *)

\* Only a step of its own brings a new job, and only with a fresh id.
LEMMA MainJob ==
  ASSUME IInv, [Next]_vars, job'["main"] # None
  PROVE  \/ job'["main"] = job["main"]
         \/ /\ MainPlan(job'["main"]) /\ job'["main"] \in TradeKey
            /\ job'["main"].mandate \notin used
<1>1. JobType /\ "main" \in Loop
  BY TypeParts DEF IInv, Loop
<1>2. ASSUME NEW k \in Key, MainPlan(k)
      PROVE  job'["main"] = k /\ k \in TradeKey /\ k.mandate \notin used
  BY <1>1, <1>2 DEF JobType, MainPlan, TradeKey
<1>3. CASE MainExecute \/ AuditFill
  BY <1>3 DEF MainExecute, AuditFill
<1>4. CASE \/ CliBroadcasts("main") \/ CliReturnsReceipt("main") \/ PolicyRefuses("main")
           \/ FoldFill("main") \/ SaveNext("main") \/ MarkRecorded("main")
  BY <1>4 DEF CliBroadcasts, CliReturnsReceipt, PolicyRefuses, FoldFill, SaveNext, MarkRecorded
<1>5. "main" # "watch"
  OBVIOUS
<1> QED BY <1>1, <1>2, <1>3, <1>4, <1>5, LoopCases DEF LoopSame

LEMMA UsedGrows ==
  ASSUME [Next]_vars
  PROVE  used \subseteq used'
<1>1. ASSUME NEW k \in Key, MainPlan(k) PROVE used \subseteq used'
  BY <1>1 DEF MainPlan
<1>2. UNCHANGED used \/ \E k \in Key : MainPlan(k)
  BY NextCases DEF vars, loopVars, fileVars, LoopStep, MainPoll, MainHold,
    MainCycleFails, MainExecute, AuditFill, MainTradeThrows, WatchPoll,
    WatchEndPass, WatchRest, WatchTradeThrows, WatchPassThrows, WatchKeep,
    WatchExit, CliBroadcasts, CliReturnsReceipt, PolicyRefuses, ClearRefused,
    ArmReview, FoldFill, SaveNext, MarkRecorded, ClearRecorded,
    OrphanBroadcasts, OrphanDies, ChainSettles, Crash, ProcessExits, Down,
    StartResumes, StartEscalates, OperatorResolves, ToggleKill
<1> QED BY <1>1, <1>2

\* Where a trade key that owns a transaction comes from.
LEMMA OwnerOrigin ==
  ASSUME IInv, [Next]_vars, NEW t \in Tx, owner'[t] \in TradeKey
  PROVE  \/ owner[t] = owner'[t]
         \/ /\ \A u \in Tx : u # t => owner'[u] = owner[u]
            /\ \A u \in Tx : owner[u] # owner'[t]
            /\ owner'[t].mandate \in used
            /\ \/ /\ CliBroadcasts("main") /\ owner'[t] = job["main"] /\ hash'["main"] = t
               \/ /\ OrphanBroadcasts(owner'[t]) /\ owner'[t] \in orphan
<1>1. ChainType /\ JobType /\ "main" \in Loop /\ None \notin Key /\ TradeKey \subseteq Key
  BY TypeParts, ConstantsAssumption DEF IInv, Loop, TradeKey
<1>2. CASE fate[t] # "unsent"
  BY <1>2, ChainMonotone
<1>3. CASE fate[t] = "unsent"
  <2>1. fate'[t] # "unsent"
    BY <1>1, SentByOwnerStep DEF SentByOwner
  <2>2. CASE \E L \in Loop : /\ CliBroadcasts(L)
                             /\ owner'[t] = job[L] /\ hash'[L] = t
                             /\ owner' = [owner EXCEPT ![t] = job[L]]
    <3>1. PICK L \in Loop : /\ CliBroadcasts(L)
                            /\ owner'[t] = job[L] /\ hash'[L] = t
                            /\ owner' = [owner EXCEPT ![t] = job[L]]
      BY <2>2
    <3>2. L = "main"
      BY <1>1, <3>1 DEF JobType, Loop, TradeKey, ExitKey
    <3>3. \A u \in Tx : owner[u] # job["main"]
      BY <3>1, <3>2 DEF IInv, Fresh, CliBroadcasts, InJob
    <3>4. owner'[t].mandate \in used
      BY <1>1, <3>1, <3>2 DEF IInv, Issued
    <3> QED BY <1>1, <3>1, <3>2, <3>3, <3>4 DEF ChainType
  <2>3. CASE \E k \in orphan : /\ OrphanBroadcasts(k)
                               /\ owner'[t] = k
                               /\ owner' = [owner EXCEPT ![t] = k]
    BY <1>1, <2>3 DEF IInv, Fresh, Issued, ChainType
  <2> QED BY <1>3, <2>1, <2>2, <2>3, NewTx
<1> QED BY <1>2, <1>3

LEMMA OneTxPerTradeStep ==
  ASSUME IInv, [Next]_vars
  PROVE  OneTxPerTrade'
<1> SUFFICES ASSUME NEW t \in Tx, NEW u \in Tx, owner'[t] \in TradeKey, owner'[t] = owner'[u]
             PROVE  t = u
  BY DEF OneTxPerTrade, TradeKey, Key
<1>1. CASE owner[t] = owner'[t] /\ owner[u] = owner'[u]
  BY <1>1 DEF IInv, OneTxPerTrade
<1>2. CASE owner[t] # owner'[t]
  BY <1>2, OwnerOrigin
<1>3. CASE owner[u] # owner'[u]
  BY <1>3, OwnerOrigin
<1> QED BY <1>1, <1>2, <1>3

LEMMA IssuedStep ==
  ASSUME IInv, [Next]_vars
  PROVE  Issued'
<1>1. used \subseteq used'
  BY UsedGrows
<1>2. ASSUME NEW t \in Tx, owner'[t] \in TradeKey PROVE owner'[t].mandate \in used'
  BY <1>1, <1>2, OwnerOrigin DEF IInv, Issued
<1>3. ASSUME NEW k \in orphan', k \in TradeKey PROVE k.mandate \in used'
  <2>1. CASE k \in orphan
    BY <1>1, <1>3, <2>1 DEF IInv, Issued
  <2>2. CASE k \notin orphan
    <3>1. \E L \in Loop : pc[L] = "calling" /\ k = job[L]
      BY <1>3, <2>2, ChainFrame DEF CliBroadcasts, OrphanBroadcasts, OrphanDies, ChainSettles, Crash
    <3>2. k = job["main"] /\ k # None
      BY <1>3, <3>1, TypeParts, ConstantsAssumption DEF IInv, JobType, Loop, TradeKey, ExitKey
    <3> QED BY <1>1, <3>2 DEF IInv, Issued
  <2> QED BY <2>1, <2>2
<1>4. ASSUME job'["main"] # None PROVE job'["main"].mandate \in used'
  <2>1. CASE job'["main"] = job["main"]
    BY <1>1, <1>4, <2>1 DEF IInv, Issued
  <2>2. CASE MainPlan(job'["main"])
    <3>1. used' = used \cup {job'["main"].mandate}
      BY <2>2 DEF MainPlan
    <3> QED BY <3>1
  <2> QED BY <1>4, <2>1, <2>2, MainJob
<1> QED BY <1>2, <1>3, <1>4 DEF Issued, TradeKey, Key

LEMMA FreshStep ==
  ASSUME IInv, [Next]_vars
  PROVE  Fresh'
<1>1. JobType /\ JobOK /\ LoopType /\ "main" \in Loop /\ None \notin Tx
  BY TypeParts, ConstantsAssumption DEF IInv, Loop
<1>2. ASSUME (InJob("main") \/ pc["main"] = "planned")', hash'["main"] = None,
             NEW t \in Tx, owner'[t] = job'["main"]
      PROVE  FALSE
  <2>1. job'["main"] # None /\ job'["main"] \in TradeKey
    BY <1>1, <1>2, JobOKStep, JobTypeStep DEF JobOK, LoopJobOK, JobType
  <2>2. CASE /\ InJob("main") \/ pc["main"] = "planned"
             /\ hash["main"] = None /\ job'["main"] = job["main"]
    <3>1. owner[t] # owner'[t]
      BY <1>2, <2>2 DEF IInv, Fresh
    <3>2. up /\ orphan = {}
      BY <1>1, <2>2 DEF IInv, DownIdle, OrphansMarked, InJob
    <3>3. hash'["main"] = t
      BY <1>2, <2>1, <3>1, <3>2, OwnerOrigin
    <3> QED BY <1>1, <1>2, <3>3
  <2>3. CASE \E k \in Key : MainPlan(k)
    <3>1. PICK k \in Key : MainPlan(k)
      BY <2>3
    <3>2. job'["main"] = k /\ k.mandate \notin used /\ owner[t] = owner'[t]
      BY <1>1, <3>1 DEF JobType, MainPlan, chainVars
    <3> QED BY <1>2, <2>1, <3>2 DEF IInv, Issued
  <2>4. \/ \E k \in Key : MainPlan(k)
        \/ /\ InJob("main") \/ pc["main"] = "planned"
           /\ hash["main"] = None /\ job'["main"] = job["main"]
    <3>1. CASE CliBroadcasts("main")
      <4>1. hash'["main"] \in Tx
        BY <1>1, <3>1 DEF CliBroadcasts, JobType
      <4> QED BY <1>1, <1>2, <4>1
    <3>2. CASE \/ CliReturnsReceipt("main") \/ PolicyRefuses("main") \/ FoldFill("main")
               \/ SaveNext("main") \/ MarkRecorded("main") \/ MainExecute \/ AuditFill
      BY <1>2, <3>2 DEF InJob, CliReturnsReceipt, PolicyRefuses, FoldFill, SaveNext,
        MarkRecorded, MainExecute, AuditFill
    <3>3. CASE LoopSame("main")
      BY <1>2, <3>3 DEF InJob, LoopSame
    <3>4. CASE pc'["main"] \in {"poll", "cycle", "pass", "rest", "stopped"}
      BY <1>2, <3>4 DEF InJob
    <3> QED BY <1>1, <3>1, <3>2, <3>3, <3>4, LoopCases
  <2> QED BY <2>2, <2>3, <2>4
<1>3. ASSUME NEW k \in orphan', k \in TradeKey, NEW t \in Tx, owner'[t] = k
      PROVE  FALSE
  <2>1. CASE k \in orphan
    <3>1. ~up /\ owner[t] # owner'[t]
      BY <1>3, <2>1 DEF IInv, OrphansMarked, Fresh
    <3>2. OrphanBroadcasts(k)
      BY <1>3, <3>1, OwnerOrigin DEF CliBroadcasts
    <3> QED BY <1>3, <3>2 DEF OrphanBroadcasts
  <2>2. CASE k \notin orphan
    <3>1. Crash /\ \E L \in Loop : pc[L] = "calling" /\ hash[L] = None /\ k = job[L]
      BY <1>3, <2>2, ChainFrame DEF CliBroadcasts, OrphanBroadcasts, OrphanDies, ChainSettles, Crash
    <3>2. k = job["main"] /\ pc["main"] = "calling" /\ hash["main"] = None
      BY <1>1, <1>3, <3>1, ConstantsAssumption DEF JobType, Loop, TradeKey, ExitKey
    <3>3. owner' = owner
      BY <3>1 DEF Crash, Down
    <3> QED BY <1>3, <3>2, <3>3 DEF IInv, Fresh, InJob
  <2> QED BY <2>1, <2>2
<1> QED BY <1>2, <1>3 DEF Fresh

-----------------------------------------------------------------------------
(* Markers, commit records and fills.                                      *)

Marked(L) == marker[job[L]] = IF pc[L] \in {"calling", "refused"} THEN Building ELSE hash[L]

LEMMA ExecutionsAreMarkedStep ==
  ASSUME IInv, [Next]_vars
  PROVE  ExecutionsAreMarked'
<1> SUFFICES ASSUME NEW L \in Loop, InJob(L)'
             PROVE  Marked(L)'
  BY DEF ExecutionsAreMarked, Marked
<1>1. JobType /\ JobOK /\ LoopType /\ MarkType /\ FlagType
  BY TypeParts DEF IInv
<1>2. pc'[L] # "poll" /\ up'
  BY DownIdleStep DEF InJob, DownIdle
<1>3. InJob(L) => Marked(L)
  BY DEF IInv, ExecutionsAreMarked, Marked
<1>4. InJob(L) => up /\ job[L] \in Key
  BY JobFacts DEF IInv, DownIdle, InJob
\* The loops hold different keys, so what one writes the other keeps.
<1>5. ASSUME NEW C \in Loop, C # L, InJob(L),
             \/ CliReturnsReceipt(C) \/ ClearRefused(C) \/ ClearRecorded(C)
             \/ C = "main" /\ MainExecute
      PROVE  marker'[job[L]] = marker[job[L]]
  <2>1. job[C] # job[L]
    BY <1>1, <1>4, <1>5, ConstantsAssumption DEF JobType, Loop, TradeKey, ExitKey
  <2> QED BY <1>1, <1>4, <1>5, <2>1 DEF MarkType, CliReturnsReceipt, ClearRefused,
        ClearRecorded, MainExecute
<1>6. ASSUME NEW m \in Mandate, WatchExit(m), L = "main", InJob(L)
      PROVE  marker'[job[L]] = marker[job[L]]
  <2>1. job[L].action # "exit"
    BY <1>1, <1>4, <1>6, ConstantsAssumption DEF JobType, TradeKey
  <2> QED BY <1>6, <2>1 DEF WatchExit
<1>7. CASE LoopSame(L)
  <2>1. InJob(L)
    BY <1>7 DEF LoopSame, InJob
  <2>2. marker'[job[L]] = marker[job[L]]
    <3>1. ~StartResumes /\ ~OperatorResolves
      BY <1>4, <2>1 DEF StartResumes, OperatorResolves
    <3>2. ASSUME CliReturnsReceipt(L) \/ ClearRefused(L) \/ ClearRecorded(L) PROVE FALSE
      BY <1>1, <1>7, <3>2 DEF LoopSame, LoopType, Goto, Leave, NextStop,
        CliReturnsReceipt, ClearRefused, ClearRecorded
    <3>3. ASSUME MainExecute, L = "main" PROVE FALSE
      BY <2>1, <3>3 DEF MainExecute, InJob
    <3>4. ASSUME NEW m \in Mandate, WatchExit(m), L = "watch" PROVE FALSE
      BY <2>1, <3>4 DEF WatchExit, InJob
    <3> QED BY <1>5, <1>6, <2>1, <3>1, <3>2, <3>3, <3>4, MarkerFrame DEF Loop
  <2> QED BY <1>3, <1>7, <2>1, <2>2 DEF LoopSame, Marked
<1>8. CASE L = "main" /\ MainExecute
  <2>1. pc'[L] = "calling" /\ job'[L] = job[L] /\ marker'[job[L]] = Building
    <3>1. job[L] \in Key
      BY <1>8, JobFacts DEF MainExecute
    <3> QED BY <1>1, <1>8, <3>1 DEF LoopType, MarkType, MainExecute, Goto
  <2> QED BY <2>1 DEF Marked
<1>9. CASE L = "watch" /\ \E m \in Mandate : WatchExit(m)
  <2>0. PICK m \in Mandate : WatchExit(m)
    BY <1>9
  <2>1. pc'[L] = "calling" /\ marker'[job'[L]] = Building
    BY <1>1, <1>9, <2>0 DEF LoopType, MarkType, JobType, WatchExit, Goto, Key, Action
  <2> QED BY <2>1 DEF Marked
<1>10. CASE CliReturnsReceipt(L)
  <2>1. /\ pc'[L] \in {"filled", "unconfirmed"} /\ job'[L] = job[L] /\ hash'[L] = hash[L]
        /\ job[L] \in Key
    BY <1>1, <1>4, <1>10 DEF LoopType, CliReturnsReceipt, Goto, InJob
  <2> QED BY <1>1, <1>10, <2>1 DEF MarkType, CliReturnsReceipt, Marked
<1>11. CASE \/ CliBroadcasts(L) \/ PolicyRefuses(L) \/ FoldFill(L) \/ SaveNext(L)
            \/ MarkRecorded(L) \/ (L = "main" /\ AuditFill)
  <2>1. marker' = marker /\ job'[L] = job[L]
    BY <1>11 DEF CliBroadcasts, PolicyRefuses, FoldFill, SaveNext, MarkRecorded,
      AuditFill, fileVars
  <2>2. CASE CliBroadcasts(L) \/ PolicyRefuses(L)
    BY <1>1, <1>3, <2>1, <2>2 DEF LoopType, Goto, InJob, CliBroadcasts, PolicyRefuses, Marked
  <2>3. CASE FoldFill(L) \/ SaveNext(L) \/ MarkRecorded(L) \/ (L = "main" /\ AuditFill)
    <3>1. /\ pc[L] \in AfterMined /\ pc'[L] \in AfterMined /\ hash'[L] = hash[L]
      BY <1>1, <2>3 DEF LoopType, Goto, AfterMined, FoldFill, SaveNext, MarkRecorded, AuditFill
    <3> QED BY <1>3, <2>1, <3>1 DEF AfterMined, InJob, Marked
  <2> QED BY <1>11, <2>2, <2>3
<1>12. CASE \/ L = "main" /\ \E k \in Key : MainPlan(k)
            \/ pc'[L] \in {"poll", "cycle", "pass", "rest", "stopped"}
  BY <1>1, <1>12 DEF InJob, MainPlan, Goto, LoopType
<1> QED BY <1>7, <1>8, <1>9, <1>10, <1>11, <1>12, LoopCases

LEMMA CommitRecordsAreTrueStep ==
  ASSUME IInv, [Next]_vars
  PROVE  CommitRecordsAreTrue'
<1> SUFFICES ASSUME NEW k \in Key, commit'[k] # None
             PROVE  /\ fate'[commit'[k]] = "success"
                    /\ owner'[commit'[k]] = k
                    /\ FullySaved(commit[k])'
  BY DEF CommitRecordsAreTrue, FullySaved
<1>1. MarkType /\ MarkType'
  BY TypeParts, MarkTypeStep DEF IInv
<1>2. PICK t \in Tx : t = commit'[k]
  BY <1>1 DEF MarkType
<1>3. fate[t] = "success" /\ owner[t] = k /\ FullySaved(t)
  <2>1. CASE commit[k] = t
    BY <1>2, <2>1, ConstantsAssumption DEF IInv, CommitRecordsAreTrue
  <2>2. ASSUME NEW L \in Loop, MarkRecorded(L), commit[k] # t
        PROVE  fate[t] = "success" /\ owner[t] = k /\ FullySaved(t)
    <3>1. k = job[L] /\ t = hash[L] /\ pc[L] = "commit"
      BY <1>1, <1>2, <2>2 DEF MarkType, MarkRecorded
    <3> QED BY <3>1, FoldedIsMined DEF IInv, SavingOK, LoopSavingOK, AfterMined, AfterSave
  <2> QED BY <1>2, <2>1, <2>2, CommitFrame
<1>4. fate'[t] = "success" /\ owner'[t] = k /\ FullySaved(t)'
  BY <1>3, ChainMonotone, SavedStays
<1> QED BY <1>2, <1>4 DEF FullySaved

LEMMA EntryFillsTracedStep ==
  ASSUME IInv, [Next]_vars
  PROVE  EntryFillsTraced'
<1> SUFFICES ASSUME NEW t \in Tx, fate'[t] # "unsent", fate'[t] # "reverted",
                    owner'[t] \in TradeKey
             PROVE  FullySaved(t)' \/ marker'[owner'[t]] \in {Building, t}
  BY DEF EntryFillsTraced, Sent, TradeKey, Key
<1>1. ChainType /\ JobType /\ MarkType /\ TradeKey \subseteq Key
  BY TypeParts DEF IInv, TradeKey
<1>2. ConstantsAssumption
  BY ConstantsAssumption
<1>3. CASE fate[t] = "unsent"
  <2>1. owner[t] # owner'[t]
    BY <1>1, <1>2, <1>3 DEF IInv, SentByOwner
  <2>2. CASE CliBroadcasts("main") /\ owner'[t] = job["main"]
    <3>1. marker[job["main"]] = Building
      BY <2>2 DEF IInv, ExecutionsAreMarked, CliBroadcasts, InJob, Loop
    <3> QED BY <2>2, <3>1 DEF CliBroadcasts, fileVars
  <2>3. CASE OrphanBroadcasts(owner'[t]) /\ owner'[t] \in orphan
    BY <2>3 DEF IInv, OrphansMarked, OrphanBroadcasts, fileVars
  <2> QED BY <2>1, <2>2, <2>3, OwnerOrigin
<1>4. CASE fate[t] # "unsent"
  <2> DEFINE k == owner[t]
  <2>1. owner'[t] = k /\ fate[t] # "reverted" /\ k \in TradeKey
    BY <1>4, ChainMonotone
  <2>2. CASE FullySaved(t)
    <3>1. fate[t] = "success"
      <4>1. SaveSeq(k.action)[1] \in FilesOf(k.action) /\ SaveSeq(k.action)[1] \in File
        BY <1>1, <2>1, SaveFacts DEF Key
      <4>2. t \in disk[SaveSeq(k.action)[1]]
        BY <2>2, <4>1 DEF FullySaved
      <4> QED BY <4>1, <4>2, TypeParts DEF IInv, FilesTrue, SetType
    <3> QED BY <2>2, <3>1, SavedStays
  <2>3. CASE ~FullySaved(t)
    <3>1. marker[k] \in {Building, t}
      BY <1>4, <2>1, <2>3 DEF IInv, EntryFillsTraced, Sent
    <3>2. CASE marker' = marker
      BY <2>1, <3>1, <3>2
    <3>3. CASE MainExecute
      BY <1>1, <2>1, <3>1, <3>3 DEF MarkType, MainExecute
    <3>4. ASSUME NEW m \in Mandate, WatchExit(m) PROVE marker'[k] = marker[k]
      BY <1>1, <2>1, <3>4 DEF MarkType, WatchExit, TradeKey
    <3>5. ASSUME NEW L \in Loop, CliReturnsReceipt(L) PROVE marker'[k] \in {Building, t}
      <4>1. CASE job[L] = k
        <5>1. hash[L] \in Tx /\ owner[hash[L]] = k
          BY <1>1, <3>5, <4>1 DEF IInv, JobOK, LoopJobOK, JobType, CliReturnsReceipt
        <5>2. hash[L] = t
          BY <2>1, <5>1 DEF IInv, OneTxPerTrade
        <5> QED BY <1>1, <2>1, <3>5, <4>1, <5>2 DEF MarkType, CliReturnsReceipt
      <4>2. CASE job[L] # k
        BY <1>1, <2>1, <3>1, <3>5, <4>2 DEF MarkType, CliReturnsReceipt
      <4> QED BY <4>1, <4>2
    <3>6. ASSUME NEW L \in Loop, ClearRefused(L) PROVE marker'[k] = marker[k]
      <4>1. job[L] # k
        <5>1. CASE L = "main"
          BY <3>6, <5>1 DEF IInv, Fresh, JobOK, LoopJobOK, ClearRefused, InJob
        <5>2. CASE L = "watch"
          BY <1>1, <1>2, <2>1, <5>2 DEF JobType, ExitKey, TradeKey
        <5> QED BY <5>1, <5>2 DEF Loop
      <4> QED BY <3>6, <4>1 DEF ClearRefused
    <3>7. ASSUME NEW L \in Loop, ClearRecorded(L) PROVE marker'[k] = marker[k]
      <4>1. job[L] # k
        <5>1. /\ hash[L] \in Tx /\ owner[hash[L]] = job[L] /\ FullySaved(hash[L])
          BY <3>7, FoldedIsMined DEF IInv, SavingOK, LoopSavingOK, AfterMined, AfterSave, ClearRecorded
        <5> QED BY <2>1, <2>3, <5>1 DEF IInv, OneTxPerTrade
      <4> QED BY <3>7, <4>1 DEF ClearRecorded
    <3>8. ~StartResumes
      <4>1. SUFFICES ASSUME StartResumes PROVE FALSE
        OBVIOUS
      <4>2. marker[k] \in Tx /\ fate[marker[k]] \in {"success", "reverted"} /\ k \in Key
            /\ (fate[marker[k]] = "success" => commit[k] = marker[k])
        BY <1>1, <1>2, <2>1, <3>1, <4>1 DEF StartResumes, Settled, IsRecorded
      <4>3. marker[k] = t
        BY <1>2, <3>1, <4>2
      <4>4. commit[k] = t
        BY <2>1, <4>2, <4>3
      <4> QED BY <1>2, <2>3, <4>2, <4>3, <4>4 DEF IInv, CommitRecordsAreTrue
    <3>9. CASE OperatorResolves
      <4>1. fate[t] = "success" /\ UNCHANGED owner
        BY <1>1, <1>4, <2>1, <3>9 DEF ChainType, OperatorResolves, chainVars
      <4>2. FilesOf(k.action) \subseteq File
        BY <1>1, <2>1, SaveFacts DEF Key
      <4> QED BY <3>9, <4>1, <4>2 DEF OperatorResolves, FullySaved
    <3> QED BY <2>1, <3>1, <3>2, <3>3, <3>4, <3>5, <3>6, <3>7, <3>8, <3>9, MarkerFrame
  <2> QED BY <2>2, <2>3
<1> QED BY <1>3, <1>4

-----------------------------------------------------------------------------
(* The invariant and what follows from it.                                 *)

LEMMA InitInv == Init => IInv
<1> SUFFICES ASSUME Init PROVE IInv
  OBVIOUS
<1> USE DEF Init
<1>1. TypeOK
  <2>1. ChainType /\ MarkType
    BY DEF ChainType, MarkType
  <2>2. SetType /\ FlagType
    BY DEF SetType, FlagType
  <2>3. LoopType
    BY DEF LoopType
  <2>4. JobType
    BY DEF JobType, Loop
  <2> QED BY <2>1, <2>2, <2>3, <2>4, TypeParts
<1>2. SentByOwner /\ FilesTrue /\ MemAhead /\ DownIdle /\ OrphansMarked
  BY DEF SentByOwner, FilesTrue, MemAhead, DownIdle, OrphansMarked
<1>3. JobOK /\ SavingOK
  BY DEF JobOK, LoopJobOK, SavingOK, LoopSavingOK, InJob, AfterHash, AfterMined, AfterSave
<1>4. Fresh /\ Issued /\ OneTxPerTrade
  BY ConstantsAssumption DEF Fresh, Issued, OneTxPerTrade, TradeKey, InJob, Loop
<1>5. ExecutionsAreMarked /\ CommitRecordsAreTrue /\ EntryFillsTraced
  BY DEF ExecutionsAreMarked, CommitRecordsAreTrue, EntryFillsTraced, InJob, Sent
<1> QED BY <1>1, <1>2, <1>3, <1>4, <1>5 DEF IInv

LEMMA InvStep == IInv /\ [Next]_vars => IInv'
BY TypeStep, SentByOwnerStep, FilesTrueStep, MemAheadStep, DownIdleStep,
  OrphansMarkedStep, JobOKStep, SavingOKStep, FreshStep, IssuedStep,
  OneTxPerTradeStep, ExecutionsAreMarkedStep, CommitRecordsAreTrueStep,
  EntryFillsTracedStep DEF IInv

\* The inductive invariant holds throughout every behaviour of the worker.
THEOREM Invariant == Spec => []IInv
<1>1. Init => IInv
  BY InitInv
<1>2. IInv /\ [Next]_vars => IInv'
  BY InvStep
<1> QED BY <1>1, <1>2, PTL DEF Spec

\* Every variable keeps its type; the main loop trades entries and scouts
\* only, the watch loop exits only (the two halves of worker.ts).
THEOREM TypeCorrect == Spec => []TypeOK
<1>1. IInv => TypeOK
  BY DEF IInv
<1> QED BY <1>1, Invariant, PTL

\* recorded-fills.json tells the truth for any number of trades, crashes and
\* interleavings of the two loops.
THEOREM CommitsTrue == Spec => []CommitRecordsAreTrue
<1>1. IInv => CommitRecordsAreTrue
  BY DEF IInv
<1> QED BY <1>1, Invariant, PTL

\* No entry or scout that reached the chain is ever lost.
THEOREM FillsTraced == Spec => []EntryFillsTraced
<1>1. IInv => EntryFillsTraced
  BY DEF IInv
<1> QED BY <1>1, Invariant, PTL

\* The shared pending.json always holds the marker of every execution.
THEOREM Marking == Spec => []ExecutionsAreMarked
<1>1. IInv => ExecutionsAreMarked
  BY DEF IInv
<1> QED BY <1>1, Invariant, PTL

LEMMA HoldingsWatched == IInv => NoUnwatchedHolding
<1> SUFFICES ASSUME IInv, NEW m \in Held
             PROVE  \/ m \in Tracked(disk)
                    \/ marker[[mandate |-> m, action |-> "entry"]] # None
  BY DEF NoUnwatchedHolding
<1> DEFINE k == [mandate |-> m, action |-> "entry"]
<1>1. m \in Mandate /\ k \in TradeKey
  BY DEF Held, TradeKey, Key, Action
<1>2. PICK t \in Tx : fate[t] = "success" /\ owner[t] = k
  BY DEF Held
<1>3. FullySaved(t) \/ marker[k] \in {Building, t}
  BY <1>1, <1>2 DEF IInv, EntryFillsTraced, Sent
<1>4. CASE FullySaved(t)
  <2>1. t \in disk["positions"]
    <3>1. "positions" \in FilesOf("entry")
      BY DEF FilesOf, SaveSeq
    <3> QED BY <1>2, <1>4, <3>1 DEF FullySaved
  <2>2. \A u \in disk["positions"] : owner[u] # [mandate |-> m, action |-> "exit"]
    <3>1. \A u \in disk["positions"] : u \in Tx /\ fate[u] = "success"
      BY TypeParts DEF IInv, FilesTrue, SetType, File
    <3> QED BY <3>1 DEF Held
  <2> QED BY <1>1, <1>2, <2>1, <2>2 DEF Tracked
<1>5. CASE marker[k] \in {Building, t}
  BY <1>5, ConstantsAssumption
<1> QED BY <1>3, <1>4, <1>5

\* The wallet never holds a token that nobody watches.
THEOREM NothingUnwatched == Spec => []NoUnwatchedHolding
BY HoldingsWatched, Invariant, PTL

LEMMA TrackedBought == IInv => PositionsWereBought
<1> SUFFICES ASSUME IInv, NEW F \in {disk, mem}, NEW m \in Tracked(F)
             PROVE  \E t \in Tx : /\ fate[t] = "success"
                                  /\ owner[t] = [mandate |-> m, action |-> "entry"]
  BY DEF PositionsWereBought
<1>1. PICK t \in F["positions"] : owner[t] = [mandate |-> m, action |-> "entry"]
  BY DEF Tracked
<1>2. t \in Tx /\ fate[t] = "success"
  BY <1>1, TypeParts DEF IInv, FilesTrue, SetType, File
<1> QED BY <1>1, <1>2

\* Neither copy of the position list ever tracks a phantom position.
THEOREM NoPhantoms == Spec => []PositionsWereBought
BY TrackedBought, Invariant, PTL

LEMMA ResumeStep ==
  ASSUME IInv, [Next]_vars, ~up, up',
         NEW k \in Key, marker[k] \in Tx, fate[marker[k]] = "success"
  PROVE  owner[marker[k]] = k /\ FullySaved(marker[k])
<1>1. StartResumes
  BY UpFrame DEF Crash, ProcessExits
<1>2. commit[k] = marker[k]
  BY <1>1, ConstantsAssumption DEF StartResumes, Settled, IsRecorded
<1> QED BY <1>2, ConstantsAssumption DEF IInv, CommitRecordsAreTrue

\* A start that resumes trading forgets no mined fill, exits included.
THEOREM ResumeIsSafe == Spec => ResumeForgetsNothing
<1>1. IInv /\ [Next]_vars =>
        (~up /\ up' => \A k \in Key :
           marker[k] \in Tx /\ fate[marker[k]] = "success"
             => owner[marker[k]] = k /\ FullySaved(marker[k]))
  BY ResumeStep
<1> QED BY <1>1, Invariant, PTL DEF Spec, ResumeForgetsNothing
-----------------------------------------------------------------------------
(***************************************************************************)
(* The worker implements the custody promise of FillCustody for entries    *)
(* and scouts, for any sets of mandates and transactions: with IInv, every *)
(* step of TradeLifecycle opens a trade, fills one that is open, resolves  *)
(* open ones, or changes nothing that the promise speaks of.               *)
(***************************************************************************)

Filled == {k \in TradeKey : \E t \in Tx : owner[t] = k /\ fate[t] = "success"}

CustodyMap == [k \in TradeKey |-> CustodyOf(k)]

\* Without a marker, a mined fill of a trade is in every file.
CustodyByFill ==
  \A k \in TradeKey :
     CustodyOf(k) = IF marker[k] # None THEN "open"
                    ELSE IF k \in Filled THEN "booked" ELSE "clear"

LEMMA CustodyShape == IInv => CustodyByFill
<1> SUFFICES ASSUME IInv, NEW k \in TradeKey
             PROVE  CustodyOf(k) = IF marker[k] # None THEN "open"
                                   ELSE IF k \in Filled THEN "booked" ELSE "clear"
  BY DEF CustodyByFill
<1>1. ASSUME marker[k] = None, NEW t \in Tx, owner[t] = k, fate[t] = "success"
      PROVE  FullySaved(t)
  BY <1>1, ConstantsAssumption DEF IInv, EntryFillsTraced, Sent
<1> QED BY <1>1 DEF CustodyOf, Filled

\* The same, in the state after a step.
LEMMA CustodyShapeNext == IInv /\ [Next]_vars => CustodyByFill'
<1>1. IInv => CustodyByFill
  BY CustodyShape
<1>2. IInv /\ [Next]_vars => IInv'
  BY InvStep
<1> QED BY <1>1, <1>2, PTL

\* A marker appears where there was none only when the main loop executes.
LEMMA MarkerAppears ==
  ASSUME IInv, [Next]_vars, NEW k \in TradeKey, marker[k] = None, marker'[k] # None
  PROVE  MainExecute /\ k = job["main"]
<1>1. MarkType /\ TradeKey \subseteq Key
  BY TypeParts DEF IInv, TradeKey
<1>2. CASE MainExecute
  BY <1>1, <1>2 DEF MarkType, MainExecute
<1>3. ASSUME NEW m \in Mandate, WatchExit(m) PROVE FALSE
  BY <1>1, <1>3 DEF MarkType, WatchExit, TradeKey
<1>4. ASSUME NEW L \in Loop, CliReturnsReceipt(L) PROVE FALSE
  <2>1. job[L] = k
    BY <1>1, <1>4 DEF MarkType, CliReturnsReceipt
  <2>2. marker[k] = Building
    BY <1>4, <2>1 DEF IInv, ExecutionsAreMarked, InJob, CliReturnsReceipt
  <2> QED BY <2>2, ConstantsAssumption
<1>5. ASSUME NEW L \in Loop, ClearRefused(L) \/ ClearRecorded(L) PROVE FALSE
  BY <1>1, <1>5 DEF MarkType, ClearRefused, ClearRecorded
<1>6. CASE StartResumes \/ OperatorResolves
  BY <1>1, <1>6 DEF StartResumes, OperatorResolves
<1> QED BY <1>2, <1>3, <1>4, <1>5, <1>6, MarkerFrame

\* A trade becomes filled only when the chain settles its transaction.
LEMMA FillAppears ==
  ASSUME IInv, [Next]_vars, Filled' # Filled
  PROVE  \E k \in TradeKey : /\ k \notin Filled /\ Filled' = Filled \cup {k}
                             /\ marker[k] # None /\ UNCHANGED marker
<1>1. ChainType
  BY TypeParts DEF IInv
<1>2. Filled \subseteq Filled'
  BY ChainMonotone DEF Filled
<1>3. PICK k \in TradeKey : k \notin Filled /\ k \in Filled'
  BY <1>2 DEF Filled
<1>4. PICK t \in Tx : owner'[t] = k /\ fate'[t] = "success"
  BY <1>3 DEF Filled
<1>5. fate[t] # "unsent" /\ owner[t] = k /\ fate[t] # "success"
  <2>1. fate[t] # "unsent"
    BY <1>4, NewTx
  <2>2. owner[t] = k
    BY <1>4, <2>1, ChainMonotone
  <2> QED BY <1>3, <2>1, <2>2 DEF Filled
<1>6. \E u \in Tx : ChainSettles(u)
  <2>1. ASSUME NEW u \in Tx, NEW j, Broadcast(j, u) PROVE FALSE
    BY <1>1, <1>4, <1>5, <2>1 DEF ChainType, Broadcast
  <2>2. CASE \E L \in Loop : CliBroadcasts(L)
    BY <2>1, <2>2 DEF CliBroadcasts
  <2>3. CASE \E j \in orphan : OrphanBroadcasts(j) \/ OrphanDies(j)
    BY <1>4, <1>5, <2>1, <2>3 DEF OrphanBroadcasts, OrphanDies
  <2>4. CASE Crash \/ UNCHANGED <<fate, owner, orphan>>
    BY <1>4, <1>5, <2>4 DEF Crash, Down
  <2> QED BY <2>2, <2>3, <2>4, ChainFrame
<1>7. ChainSettles(t)
  BY <1>1, <1>4, <1>5, <1>6 DEF ChainType, ChainSettles
<1>8. Filled' = Filled \cup {k}
  <2>1. ASSUME NEW j \in Filled' PROVE j \in Filled \cup {k}
    <3>1. PICK u \in Tx : owner'[u] = j /\ fate'[u] = "success"
      BY DEF Filled
    <3>2. j \in TradeKey
      BY DEF Filled
    <3>3. CASE u = t
      BY <1>4, <3>1, <3>3
    <3>4. CASE u # t
      BY <1>1, <1>7, <3>1, <3>2, <3>4 DEF ChainType, ChainSettles, Filled
    <3> QED BY <3>3, <3>4
  <2> QED BY <1>2, <1>3, <2>1
<1>9. UNCHANGED marker
  BY <1>7 DEF ChainSettles, fileVars
<1>10. marker[k] # None
  <2>1. ~FullySaved(t)
    <3>1. k.action \in Action /\ k \in Key
      BY DEF TradeKey, Key
    <3>2. SaveSeq(k.action)[1] \in FilesOf(k.action) /\ SaveSeq(k.action)[1] \in File
      BY <3>1, SaveFacts
    <3> QED BY <1>5, <3>2 DEF IInv, FilesTrue, FullySaved
  <2>2. marker[k] \in {Building, t}
    BY <1>4, <1>5, <1>7, <2>1 DEF IInv, EntryFillsTraced, Sent, ChainSettles
  <2> QED BY <2>2, ConstantsAssumption
<1> QED BY <1>3, <1>8, <1>9, <1>10

-----------------------------------------------------------------------------
(* The refinement.                                                         *)

LEMMA CustodyInit == Init => Custody!Init
<1> SUFFICES ASSUME Init PROVE Custody!Init
  OBVIOUS
<1>1. \A k \in TradeKey : CustodyOf(k) = "clear"
  BY DEF Init, CustodyOf, TradeKey, Key
<1>2. Filled = {}
  BY DEF Init, Filled
<1> QED BY <1>1, <1>2 DEF Custody!Init, Filled

\* With no new fill and no new marker, custody is only resolved.
LEMMA CustodyResolves ==
  ASSUME IInv, [Next]_vars, Filled' = Filled,
         \A k \in TradeKey : marker[k] = None => marker'[k] = None
  PROVE  Custody!Resolve
<1>1. CustodyByFill /\ CustodyByFill'
  BY CustodyShape, CustodyShapeNext
<1>2. CustodyMap' \in [TradeKey -> {"clear", "open", "booked"}]
  BY <1>1 DEF CustodyMap, CustodyByFill
<1>3. ASSUME NEW k \in TradeKey
      PROVE  \/ CustodyMap'[k] = CustodyMap[k]
             \/ /\ CustodyMap[k] = "open"
                /\ CustodyMap'[k] = IF k \in Filled THEN "booked" ELSE "clear"
  BY <1>1 DEF CustodyMap, CustodyByFill
<1> QED BY <1>2, <1>3 DEF Custody!Resolve, CustodyMap, Filled

LEMMA CustodyStep ==
  ASSUME IInv, [Next]_vars
  PROVE  Custody!Next
<1>1. CustodyByFill /\ CustodyByFill'
  BY CustodyShape, CustodyShapeNext
<1>2. CASE Filled' # Filled
  <2>1. PICK k \in TradeKey : /\ k \notin Filled /\ Filled' = Filled \cup {k}
                              /\ marker[k] # None /\ UNCHANGED marker
    BY <1>2, FillAppears
  <2>2. CustodyMap[k] = "open" /\ CustodyMap' = CustodyMap
    BY <1>1, <2>1 DEF CustodyMap, CustodyByFill
  <2>3. Custody!Fill(k)
    BY <2>1, <2>2 DEF Custody!Fill, CustodyMap, Filled
  <2> QED BY <2>3 DEF Custody!Next
<1>3. CASE Filled' = Filled /\ \E k \in TradeKey : marker[k] = None /\ marker'[k] # None
  <2> DEFINE k == job["main"]
  <2>1. MainExecute /\ k \in TradeKey /\ marker[k] = None
    BY <1>3, MarkerAppears
  <2>2. k \notin Filled
    <3>1. hash["main"] = None /\ pc["main"] = "planned"
      BY <2>1 DEF IInv, JobOK, LoopJobOK, InJob, Loop, MainExecute
    <3> QED BY <3>1 DEF IInv, Fresh, Filled
  <2>3. MarkType /\ TradeKey \subseteq Key
    BY TypeParts DEF IInv, TradeKey
  <2>4. /\ \A j \in TradeKey \ {k} : marker'[j] = marker[j]
        /\ marker'[k] # None
    BY <2>1, <2>3, ConstantsAssumption DEF MarkType, MainExecute
  <2>5. CustodyMap[k] = "clear" /\ CustodyMap' = [CustodyMap EXCEPT ![k] = "open"]
    BY <1>1, <1>3, <2>1, <2>2, <2>4 DEF CustodyMap, CustodyByFill
  <2>6. Custody!Open(k)
    BY <1>3, <2>2, <2>5 DEF Custody!Open, CustodyMap, Filled
  <2> QED BY <2>1, <2>6 DEF Custody!Next
<1>4. CASE Filled' = Filled /\ \A k \in TradeKey : marker[k] = None => marker'[k] = None
  BY <1>4, CustodyResolves DEF Custody!Next
<1> QED BY <1>2, <1>3, <1>4

\* The worker keeps the promise of FillCustody: entries and scouts fill at
\* most once, only while pending.json knows of them, and leave it only when
\* their fill is in every file or they never happened.
THEOREM CustodyKept == Spec => ImplementsCustody
<1>1. Init => Custody!Init
  BY CustodyInit
<1>2. IInv /\ [Next]_vars => Custody!Next
  BY CustodyStep
<1> QED BY <1>1, <1>2, Invariant, PTL DEF Spec, ImplementsCustody, Custody!Spec
=============================================================================
