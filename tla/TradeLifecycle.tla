--------------------------- MODULE TradeLifecycle ---------------------------
(***************************************************************************)
(* The life of a trade in the live worker (apps/worker/src/worker.ts): the *)
(* main decision loop opens entries and compliance scouts, the concurrent  *)
(* watch loop sells open positions, both through the TWAK CLI, and a       *)
(* restart reconciles what a crash left behind (packages/core recovery.ts) *)
(* before anything else may trade.                                         *)
(*                                                                         *)
(* Node runs both loops on one thread.  A loop keeps the thread between    *)
(* two awaits, so the other one cannot move while it is Busy; a crash can  *)
(* fall between any two file writes all the same.                          *)
(*                                                                         *)
(* What is abstracted: money.  A fill is its transaction, and a file of    *)
(* the runtime directory is the set of fills whose effect it contains: the *)
(* position list holds a position when it contains its entry and no exit   *)
(* of it, the book's cash is the sum over the fills it contains, and so    *)
(* on.  All fills are inside the competition window, prices are positive,  *)
(* and the executor is configured (live mode).                             *)
(***************************************************************************)
EXTENDS Naturals, Sequences, FiniteSets

CONSTANTS
  Mandate,   \* mandate ids; an id holds the run and the cycle: never reissued
  Tx,        \* transaction hashes the chain may hand out (bounds broadcasts)
  MaxOpen,   \* maxConcurrentPositions
  None,      \* no marker, no hash, no job
  Building   \* a pending marker that holds no transaction hash yet

Loop == {"main", "watch"}
Action == {"entry", "scout", "exit"}
File == {"positions", "scout", "walletCost", "lossStreak", "book", "week"}
Key == [mandate : Mandate, action : Action]  \* the id of a pending marker

ASSUME ConstantsAssumption ==
  /\ MaxOpen \in Nat
  /\ None \notin Tx \cup Key
  /\ Building \notin Tx \cup {None}

VARIABLES
  \* The chain.
  fate,      \* what became of each transaction
  owner,     \* the pending key each transaction was broadcast for
  orphan,    \* keys of CLI processes that outlived the worker
  \* Files of data/runtime: they survive a crash.
  marker,    \* pending.json
  commit,    \* recorded-fills.json: the hash recorded for a key
  disk,      \* the state files, as the fills they contain
  review,    \* manual-review.json exists
  kill,      \* kill.flag.json is engaged
  \* The process: lost by a crash.
  up,        \* the worker process runs past its start gates
  mem,       \* the working copies of the state files
  used,      \* mandate ids already issued
  pc,        \* where each loop stands
  job,       \* the key a loop is executing
  hash,      \* the transaction its CLI call broadcast
  at,        \* the next file of the save sequence it writes
  todo       \* positions the current watch pass has still to look at

chainVars == <<fate, owner, orphan>>
fileVars == <<marker, commit, disk, review, kill>>
loopVars == <<pc, job, hash, at, todo>>
vars == <<fate, owner, orphan, marker, commit, disk, review, kill, up, mem,
          used, pc, job, hash, at, todo>>

-----------------------------------------------------------------------------
(* Fills and the files they are folded into.                               *)

Sent(t) == fate[t] # "unsent"

\* The order in which a fill of each kind reaches the runtime files.
SaveSeq(a) ==
  CASE a = "entry" -> <<"positions", "book", "week">>
    [] a = "scout" -> <<"scout", "book", "week">>
    [] a = "exit" -> <<"walletCost", "lossStreak", "book", "week", "positions">>

FilesOf(a) == {SaveSeq(a)[i] : i \in 1 .. Len(SaveSeq(a))}

\* The positions that state files F track: entered and not yet exited.
Tracked(F) ==
  {m \in Mandate :
     /\ \E t \in F["positions"] : owner[t] = [mandate |-> m, action |-> "entry"]
     /\ \A t \in F["positions"] : owner[t] # [mandate |-> m, action |-> "exit"]}

\* The positions the wallet really holds.
Held ==
  {m \in Mandate :
     /\ \E t \in Tx : /\ fate[t] = "success"
                      /\ owner[t] = [mandate |-> m, action |-> "entry"]
     /\ \A t \in Tx : fate[t] = "success"
                        => owner[t] # [mandate |-> m, action |-> "exit"]}

\* isRecorded: the commit record names this hash and the position file agrees.
IsRecorded(k) ==
  /\ commit[k] = marker[k]
  /\ k.action = "entry" => k.mandate \in Tracked(disk)
  /\ k.action = "exit" => k.mandate \notin Tracked(disk)

-----------------------------------------------------------------------------
(* The event loop.                                                         *)

InJob(L) == pc[L] \in {"calling", "refused", "unconfirmed", "filled",
                       "saving", "commit", "audit", "clear"}

\* L is between two awaits: file writes with no await in between.
Busy(L) == \/ pc[L] \in {"saving", "commit"}
           \/ L = "watch" /\ pc[L] = "clear"

CanRun(L) == up /\ \A other \in Loop \ {L} : ~Busy(other)

Goto(L, p) == pc' = [pc EXCEPT ![L] = p]

\* The loop drops its job and goes on at p.
Leave(L, p) ==
  /\ Goto(L, p)
  /\ job' = [job EXCEPT ![L] = None]
  /\ hash' = [hash EXCEPT ![L] = None]
  /\ at' = [at EXCEPT ![L] = 1]

\* Where a loop goes on after a trade: the main loop's cycle ends, the watch
\* loop looks at the next position.
NextStop(L) == IF L = "main" THEN "poll" ELSE "pass"

Init ==
  /\ fate = [t \in Tx |-> "unsent"]
  /\ owner = [t \in Tx |-> None]
  /\ orphan = {}
  /\ marker = [k \in Key |-> None]
  /\ commit = [k \in Key |-> None]
  /\ disk = [f \in File |-> {}]
  /\ mem = [f \in File |-> {}]
  /\ review = FALSE
  /\ kill = FALSE
  /\ up = FALSE
  /\ used = {}
  /\ pc = [L \in Loop |-> "poll"]
  /\ job = [L \in Loop |-> None]
  /\ hash = [L \in Loop |-> None]
  /\ at = [L \in Loop |-> 1]
  /\ todo = {}

-----------------------------------------------------------------------------
(* The main loop.                                                          *)

\* Top of a cycle: the kill flag and the manual-review flag end the loop.
MainPoll ==
  /\ CanRun("main") /\ pc["main"] = "poll"
  /\ Goto("main", IF kill \/ review THEN "stopped" ELSE "cycle")
  /\ UNCHANGED <<chainVars, fileVars, up, mem, used, job, hash, at, todo>>

\* A cycle without a trade; it saves the week ledger on its way.
MainHold ==
  /\ CanRun("main") /\ pc["main"] = "cycle"
  /\ disk' = [disk EXCEPT !["week"] = mem["week"]]
  /\ Goto("main", "poll")
  /\ UNCHANGED <<chainVars, marker, commit, review, kill, up, mem, used,
                 job, hash, at, todo>>

\* Perception failed: the cycle's catch sends an alert and the loop goes on.
MainCycleFails ==
  /\ CanRun("main") /\ pc["main"] = "cycle"
  /\ Goto("main", "poll")
  /\ UNCHANGED <<chainVars, fileVars, up, mem, used, job, hash, at, todo>>

\* The scheduler picks a winner: an entry below the position cap, or a scout
\* while flat.  Several awaits lie between this decision and its execution.
MainPlan(k) ==
  /\ CanRun("main") /\ pc["main"] = "cycle"
  /\ k.mandate \notin used
  /\ \/ k.action = "entry" /\ Cardinality(Tracked(mem)) < MaxOpen
     \/ k.action = "scout" /\ Tracked(mem) = {}
  /\ used' = used \cup {k.mandate}
  /\ disk' = [disk EXCEPT !["week"] = mem["week"]]
  /\ job' = [job EXCEPT !["main"] = k]
  /\ Goto("main", "planned")
  /\ UNCHANGED <<chainVars, marker, commit, review, kill, up, mem, hash, at, todo>>

\* markPending(pending_build), then the executor is called.
MainExecute ==
  /\ CanRun("main") /\ pc["main"] = "planned"
  /\ marker' = [marker EXCEPT ![job["main"]] = Building]
  /\ Goto("main", "calling")
  /\ UNCHANGED <<chainVars, commit, disk, review, kill, up, mem, used,
                 job, hash, at, todo>>

-----------------------------------------------------------------------------
(* The watch loop.                                                         *)

\* A plausible mistake: the watch loop does not look at the review flag.
WatchPollIgnoresReview ==
  /\ CanRun("watch") /\ pc["watch"] = "poll"
  /\ IF Tracked(mem) # {}
       THEN Goto("watch", "pass") /\ todo' = Tracked(mem)
       ELSE Goto("watch", "rest") /\ todo' = {}
  /\ UNCHANGED <<chainVars, fileVars, up, mem, used, job, hash, at>>

\* A pass starts over a copy of the open positions, unless review is armed.
WatchPoll ==
  /\ CanRun("watch") /\ pc["watch"] = "poll"
  /\ IF Tracked(mem) # {} /\ ~review
       THEN Goto("watch", "pass") /\ todo' = Tracked(mem)
       ELSE Goto("watch", "rest") /\ todo' = {}
  /\ UNCHANGED <<chainVars, fileVars, up, mem, used, job, hash, at>>

\* No price, a stale price, or a tick above the stop: nothing to sell.
WatchKeep(m) ==
  /\ CanRun("watch") /\ pc["watch"] = "pass" /\ m \in todo
  /\ todo' = todo \ {m}
  /\ UNCHANGED <<chainVars, fileVars, up, mem, used, pc, job, hash, at>>

\* The tick orders an exit: markPending(pending_build), then the executor.
WatchExit(m) ==
  /\ CanRun("watch") /\ pc["watch"] = "pass" /\ m \in todo
  /\ LET k == [mandate |-> m, action |-> "exit"] IN
       /\ marker' = [marker EXCEPT ![k] = Building]
       /\ job' = [job EXCEPT !["watch"] = k]
  /\ todo' = todo \ {m}
  /\ Goto("watch", "calling")
  /\ UNCHANGED <<chainVars, commit, disk, review, kill, up, mem, used, hash, at>>

\* The end of a pass saves the position list with its ratcheted trails.
WatchEndPass ==
  /\ CanRun("watch") /\ pc["watch"] = "pass" /\ todo = {}
  /\ disk' = [disk EXCEPT !["positions"] = mem["positions"]]
  /\ Goto("watch", "rest")
  /\ UNCHANGED <<chainVars, marker, commit, review, kill, up, mem, used,
                 job, hash, at, todo>>

\* Only after a pass does the watch loop look at the kill flag.
WatchRest ==
  /\ CanRun("watch") /\ pc["watch"] = "rest"
  /\ Goto("watch", IF kill THEN "stopped" ELSE "poll")
  /\ UNCHANGED <<chainVars, fileVars, up, mem, used, job, hash, at, todo>>

-----------------------------------------------------------------------------
(* One execution through TWAK, the same protocol in both loops.            *)

\* A swap transaction for key k is signed and handed to the network.
Broadcast(k, t) ==
  /\ fate[t] = "unsent"
  /\ fate' = [fate EXCEPT ![t] = "inflight"]
  /\ owner' = [owner EXCEPT ![t] = k]

\* The CLI process signs and broadcasts; the worker does not know it yet.
CliBroadcasts(L) ==
  /\ up /\ pc[L] = "calling" /\ hash[L] = None
  /\ \E t \in Tx : /\ Broadcast(job[L], t)
                  /\ hash' = [hash EXCEPT ![L] = t]
  /\ UNCHANGED <<orphan, fileVars, up, mem, used, pc, job, at, todo>>

\* A plausible mistake: a receipt counts as a fill, realized output or not.
CliReceiptIsAFill(L) ==
  /\ CanRun(L) /\ pc[L] = "calling" /\ hash[L] # None
  /\ marker' = [marker EXCEPT ![job[L]] = hash[L]]
  /\ Goto(L, "filled")
  /\ UNCHANGED <<chainVars, commit, disk, review, kill, up, mem, used,
                 job, hash, at, todo>>

\* The CLI prints a hash: markPending(submitted).  With a realized output the
\* swap is mined; without one the receipt proves nothing more than a broadcast.
CliReturnsReceipt(L) ==
  /\ CanRun(L) /\ pc[L] = "calling" /\ hash[L] # None
  /\ marker' = [marker EXCEPT ![job[L]] = hash[L]]
  /\ \/ fate[hash[L]] = "success" /\ Goto(L, "filled")
     \/ Goto(L, "unconfirmed")
  /\ UNCHANGED <<chainVars, commit, disk, review, kill, up, mem, used,
                 job, hash, at, todo>>

\* The local policy refuses before anything is signed.
PolicyRefuses(L) ==
  /\ CanRun(L) /\ pc[L] = "calling" /\ hash[L] = None
  /\ Goto(L, "refused")
  /\ UNCHANGED <<chainVars, fileVars, up, mem, used, job, hash, at, todo>>

\* clearPending after a refusal.
ClearRefused(L) ==
  /\ CanRun(L) /\ pc[L] = "refused"
  /\ marker' = [marker EXCEPT ![job[L]] = None]
  /\ Leave(L, NextStop(L))
  /\ UNCHANGED <<chainVars, commit, disk, review, kill, up, mem, used, todo>>

\* requireManualReview: the broadcast has no confirmed output.  The watch
\* loop abandons its pass.
ArmReview(L) ==
  /\ CanRun(L) /\ pc[L] = "unconfirmed"
  /\ review' = TRUE
  /\ Leave(L, IF L = "main" THEN "poll" ELSE "rest")
  /\ todo' = IF L = "main" THEN todo ELSE {}
  /\ UNCHANGED <<chainVars, marker, commit, disk, kill, up, mem, used>>

\* The working copies that contain a fill when file SaveSeq(a)[i] is written:
\* the main loop folds it into all of them first, the watch loop as it goes.
FoldedAt(a, i) ==
  IF a # "exit" THEN FilesOf(a)
  ELSE CASE i = 1 -> {"walletCost"}
         [] i = 2 -> {"walletCost", "lossStreak", "book"}
         [] i \in {3, 4} -> FilesOf(a) \ {"positions"}
         [] i = 5 -> FilesOf(a)

Folded(F, t) ==
  mem' = [f \in File |-> IF f \in F THEN mem[f] \cup {t} ELSE mem[f]]

\* The fill reaches the working copies that the first write needs.
FoldFill(L) ==
  /\ CanRun(L) /\ pc[L] = "filled"
  /\ Folded(FoldedAt(job[L].action, 1), hash[L])
  /\ Goto(L, "saving")
  /\ UNCHANGED <<chainVars, fileVars, up, used, job, hash, at, todo>>

\* A plausible mistake: the fill is committed before its last file is saved.
SaveAllButLast(L) ==
  /\ CanRun(L) /\ pc[L] = "saving"
  /\ LET a == job[L].action
         f == SaveSeq(a)[at[L]]
     IN  /\ disk' = [disk EXCEPT ![f] = mem[f]]
         /\ Folded(FoldedAt(a, at[L] + 1), hash[L])
         /\ IF at[L] < Len(SaveSeq(a)) - 1
              THEN /\ at' = [at EXCEPT ![L] = @ + 1]
                   /\ UNCHANGED pc
              ELSE /\ at' = [at EXCEPT ![L] = 1]
                   /\ Goto(L, "commit")
  /\ UNCHANGED <<chainVars, marker, commit, review, kill, up, used, job, hash, todo>>

\* The next file of the save sequence is written from its working copy.
SaveNext(L) ==
  /\ CanRun(L) /\ pc[L] = "saving"
  /\ LET a == job[L].action
         f == SaveSeq(a)[at[L]]
     IN  /\ disk' = [disk EXCEPT ![f] = mem[f]]
         /\ IF at[L] < Len(SaveSeq(a))
              THEN /\ at' = [at EXCEPT ![L] = @ + 1]
                   /\ Folded(FoldedAt(a, at[L] + 1), hash[L])
                   /\ UNCHANGED pc
              ELSE /\ at' = [at EXCEPT ![L] = 1]
                   /\ Goto(L, "commit")
                   /\ UNCHANGED mem
  /\ UNCHANGED <<chainVars, marker, commit, review, kill, up, used, job, hash, todo>>

\* markFillRecorded: written only after every effect of the fill.
MarkRecorded(L) ==
  /\ CanRun(L) /\ pc[L] = "commit"
  /\ commit' = [commit EXCEPT ![job[L]] = hash[L]]
  /\ Goto(L, IF L = "main" THEN "audit" ELSE "clear")
  /\ UNCHANGED <<chainVars, marker, disk, review, kill, up, mem, used,
                 job, hash, at, todo>>

\* The main loop audits the fill before it clears the marker (the watch loop
\* audits before it looks at the outcome).
AuditFill ==
  /\ CanRun("main") /\ pc["main"] = "audit"
  /\ Goto("main", "clear")
  /\ UNCHANGED <<chainVars, fileVars, up, mem, used, job, hash, at, todo>>

\* A plausible mistake: the whole pending list is emptied.
ClearAllPending(L) ==
  /\ CanRun(L) /\ pc[L] = "clear"
  /\ marker' = [k \in Key |-> None]
  /\ Leave(L, NextStop(L))
  /\ UNCHANGED <<chainVars, commit, disk, review, kill, up, mem, used, todo>>

\* clearPending: the fill is fully recorded.
ClearRecorded(L) ==
  /\ CanRun(L) /\ pc[L] = "clear"
  /\ marker' = [marker EXCEPT ![job[L]] = None]
  /\ Leave(L, NextStop(L))
  /\ UNCHANGED <<chainVars, commit, disk, review, kill, up, mem, used, todo>>

\* A plausible mistake: the catch clears the marker of the failed trade.
MainCatchClears ==
  /\ CanRun("main") /\ (InJob("main") \/ pc["main"] = "planned")
  /\ Leave("main", "poll")
  /\ marker' = [marker EXCEPT ![job["main"]] = None]
  /\ UNCHANGED <<chainVars, commit, disk, review, kill, up, mem, used, todo>>

\* Anything awaited or written by the main loop's trade may throw: the CLI
\* times out or prints no hash, a file write or the audit append fails.  The
\* catch sends an alert; marker and working copies stay as they are.
MainTradeThrows ==
  /\ CanRun("main") /\ (InJob("main") \/ pc["main"] = "planned")
  /\ Leave("main", "poll")
  /\ UNCHANGED <<chainVars, fileVars, up, mem, used, todo>>

\* The exit's last write and what follows it stand after the catch.
AfterTry == \/ pc["watch"] \in {"commit", "clear"}
            \/ pc["watch"] = "saving" /\ at["watch"] = Len(SaveSeq("exit"))

\* The exit throws inside its try: "retry next tick", go on with the pass.
WatchTradeThrows ==
  /\ CanRun("watch") /\ InJob("watch") /\ ~AfterTry
  /\ Leave("watch", "pass")
  /\ UNCHANGED <<chainVars, fileVars, up, mem, used, todo>>

\* It throws after the catch: the position is already off the working list
\* and the whole pass is abandoned.
WatchPassThrows ==
  /\ CanRun("watch") /\ InJob("watch") /\ AfterTry
  /\ Leave("watch", "rest")
  /\ todo' = {}
  /\ UNCHANGED <<chainVars, fileVars, up, mem, used>>

-----------------------------------------------------------------------------
(* Chain, process and operator.                                            *)

\* A broadcast transaction is mined, with or without success.
ChainSettles(t) ==
  /\ fate[t] = "inflight"
  /\ \E s \in {"success", "reverted"} : fate' = [fate EXCEPT ![t] = s]
  /\ UNCHANGED <<owner, orphan, fileVars, up, mem, used, loopVars>>

\* The process is gone: working copies and loops are lost.
Down ==
  /\ up' = FALSE
  /\ mem' = [f \in File |-> {}]
  /\ pc' = [L \in Loop |-> "poll"]
  /\ job' = [L \in Loop |-> None]
  /\ hash' = [L \in Loop |-> None]
  /\ at' = [L \in Loop |-> 1]
  /\ todo' = {}
  /\ UNCHANGED <<fate, owner, fileVars, used>>

\* A CLI process that has not broadcast yet may die with the worker or not.
Crash ==
  /\ up /\ Down
  /\ \E S \in SUBSET {job[L] : L \in {C \in Loop : pc[C] = "calling" /\ hash[C] = None}} :
       orphan' = orphan \cup S

OrphanBroadcasts(k) ==
  /\ \E t \in Tx : Broadcast(k, t)
  /\ orphan' = orphan \ {k}
  /\ UNCHANGED <<fileVars, up, mem, used, loopVars>>

OrphanDies(k) ==
  /\ orphan' = orphan \ {k}
  /\ UNCHANGED <<fate, owner, fileVars, up, mem, used, loopVars>>

\* Both loops have ended, so Node has nothing left to run and exits.
ProcessExits ==
  /\ up /\ \A L \in Loop : pc[L] = "stopped"
  /\ Down
  /\ UNCHANGED orphan

\* A plausible mistake: a marker without a hash "never broadcast".
SettledWithoutHash(k) ==
  \/ marker[k] = Building
  \/ /\ marker[k] \in Tx
     /\ \/ fate[marker[k]] = "success" /\ IsRecorded(k)
        \/ fate[marker[k]] = "reverted"

\* A plausible mistake: reconcile() is called without its isRecorded.
SettledUnrecorded(k) == marker[k] \in Tx /\ fate[marker[k]] \in {"success", "reverted"}

\* reconcile() finds every marker settled: its fill is mined and recorded, or
\* it reverted.  The markers are dropped and the working copies loaded.
Settled(k) == /\ marker[k] \in Tx
              /\ \/ fate[marker[k]] = "success" /\ IsRecorded(k)
                 \/ fate[marker[k]] = "reverted"

StartResumes ==
  /\ ~up /\ ~review
  /\ \A k \in Key : marker[k] # None => Settled(k)
  /\ marker' = [k \in Key |-> None]
  /\ up' = TRUE
  /\ mem' = disk
  /\ UNCHANGED <<chainVars, commit, disk, review, kill, used, loopVars>>

\* A plausible mistake: only markers with a hash are reviewed.
StartEscalatesHashed ==
  /\ ~up /\ ~review
  /\ \E k \in Key : marker[k] \in Tx
  /\ review' = TRUE
  /\ UNCHANGED <<chainVars, marker, commit, disk, kill, up, mem, used, loopVars>>

\* Some marker cannot be settled: no hash, no receipt, not mined, mined but
\* not recorded, or the one RPC node asked does not answer.
StartEscalates ==
  /\ ~up /\ ~review
  /\ \E k \in Key : marker[k] # None
  /\ review' = TRUE
  /\ UNCHANGED <<chainVars, marker, commit, disk, kill, up, mem, used, loopVars>>

\* The operator waits for the chain to settle, rebuilds the files from chain
\* evidence and removes the flag; pending.json is emptied or forgotten.
OperatorResolves ==
  /\ ~up /\ review
  /\ orphan = {} /\ \A t \in Tx : fate[t] # "inflight"
  /\ disk' = [f \in File |-> {t \in Tx : fate[t] = "success" /\ f \in FilesOf(owner[t].action)}]
  /\ \/ marker' = [k \in Key |-> None]
     \/ UNCHANGED marker
  /\ review' = FALSE
  /\ UNCHANGED <<chainVars, commit, kill, up, mem, used, loopVars>>

\* POST /kill and its removal.
ToggleKill ==
  /\ kill' = ~kill
  /\ UNCHANGED <<chainVars, marker, commit, disk, review, up, mem, used, loopVars>>

-----------------------------------------------------------------------------

TradeStep(L) ==
  \/ CliReturnsReceipt(L) \/ PolicyRefuses(L) \/ ClearRefused(L)
  \/ ArmReview(L) \/ FoldFill(L) \/ SaveNext(L) \/ MarkRecorded(L)
  \/ ClearRecorded(L)

MainStep ==
  \/ MainPoll \/ MainHold \/ MainCycleFails
  \/ \E k \in Key : MainPlan(k)
  \/ MainExecute \/ AuditFill \/ MainTradeThrows
  \/ TradeStep("main")

WatchStep ==
  \/ WatchPoll \/ WatchEndPass \/ WatchRest
  \/ \E m \in Mandate : WatchKeep(m) \/ WatchExit(m)
  \/ WatchTradeThrows \/ WatchPassThrows
  \/ TradeStep("watch")

Environment ==
  \/ \E L \in Loop : CliBroadcasts(L)
  \/ \E k \in orphan : OrphanBroadcasts(k) \/ OrphanDies(k)
  \/ \E t \in Tx : ChainSettles(t)
  \/ Crash \/ OperatorResolves \/ ToggleKill

Restart == StartResumes \/ StartEscalates

Next == MainStep \/ WatchStep \/ Environment \/ ProcessExits \/ Restart

Spec == Init /\ [][Next]_vars

\* Node's event loop resumes every settled await, the CLI call has a timeout,
\* an exited process leaves pm2, and pm2 restarts it.  Nothing else is fair.
FairSpec == /\ Spec
            /\ WF_vars(MainStep)
            /\ WF_vars(WatchStep)
            /\ WF_vars(ProcessExits)
            /\ WF_vars(Restart)

-----------------------------------------------------------------------------
(* Properties.                                                             *)

TradeKey == {k \in Key : k.action # "exit"}
ExitKey == {k \in Key : k.action = "exit"}

\* The type of every variable; the main loop trades entries and scouts only,
\* the watch loop exits only.
TypeOK ==
  /\ fate \in [Tx -> {"unsent", "inflight", "success", "reverted"}]
  /\ owner \in [Tx -> Key \cup {None}]
  /\ orphan \in SUBSET Key
  /\ marker \in [Key -> Tx \cup {None, Building}]
  /\ commit \in [Key -> Tx \cup {None}]
  /\ disk \in [File -> SUBSET Tx]
  /\ mem \in [File -> SUBSET Tx]
  /\ review \in BOOLEAN
  /\ kill \in BOOLEAN
  /\ up \in BOOLEAN
  /\ used \in SUBSET Mandate
  /\ pc \in [Loop -> {"poll", "cycle", "planned", "pass", "rest", "stopped",
                      "calling", "refused", "unconfirmed", "filled",
                      "saving", "commit", "audit", "clear"}]
  /\ job \in [Loop -> Key \cup {None}]
  /\ job["main"] \in TradeKey \cup {None}
  /\ job["watch"] \in ExitKey \cup {None}
  /\ hash \in [Loop -> Tx \cup {None}]
  /\ at \in [Loop -> 1 .. 5]
  /\ todo \in SUBSET Mandate

FullySaved(t) == \A f \in FilesOf(owner[t].action) : t \in disk[f]

\* A record in recorded-fills.json tells the truth: the transaction it names
\* is mined with success, was broadcast for that very marker, and every state
\* file on disk already contains the fill ("written only after every state
\* effect of a fill"), whatever the other loop or a crash did meanwhile.
CommitRecordsAreTrue ==
  \A k \in Key : commit[k] # None =>
     /\ fate[commit[k]] = "success"
     /\ owner[commit[k]] = k
     /\ FullySaved(commit[k])

\* An entry or scout that reached the chain is never lost: its effect is in
\* every state file, or pending.json still carries its marker, so the next
\* start finds it.  Exits are not covered: see NoBlindResubmission.
EntryFillsTraced ==
  \A t \in Tx :
     Sent(t) /\ fate[t] # "reverted" /\ owner[t] \in TradeKey
       => FullySaved(t) \/ marker[owner[t]] \in {Building, t}

\* The wallet never holds a token that nobody watches: what is held is in the
\* position file that the watch loop is restored from, or an unresolved entry
\* marker will stop the next start ("an untracked position (no stop)").
NoUnwatchedHolding ==
  \A m \in Held : \/ m \in Tracked(disk)
                  \/ marker[[mandate |-> m, action |-> "entry"]] # None

\* No phantom position: whatever either copy of the position list tracks was
\* bought on chain, so an exit never sells a token the wallet did not buy.
PositionsWereBought ==
  \A m \in Tracked(disk) \cup Tracked(mem) :
     \E t \in Tx : /\ fate[t] = "success"
                  /\ owner[t] = [mandate |-> m, action |-> "entry"]

\* A loop inside an execution has its own marker in the shared pending.json,
\* with the hash as soon as the CLI has printed it: the other loop's writes
\* of that file never lose it.
ExecutionsAreMarked ==
  \A L \in Loop : InJob(L) =>
     marker[job[L]] = IF pc[L] \in {"calling", "refused"} THEN Building ELSE hash[L]

\* A start that resumes trading drops no marker of a mined fill whose effect
\* is not entirely on disk, exits included.
ResumeForgetsNothing ==
  [][~up /\ up' => \A k \in Key :
        marker[k] \in Tx /\ fate[marker[k]] = "success"
          => owner[marker[k]] = k /\ FullySaved(marker[k])]_vars

\* The custody of a trade, read off pending.json and the state files.
CustodyOf(k) ==
  IF marker[k] # None THEN "open"
  ELSE IF \E t \in Tx : owner[t] = k /\ fate[t] = "success" /\ FullySaved(t)
         THEN "booked"
         ELSE "clear"

Custody == INSTANCE FillCustody WITH
  Trade <- TradeKey,
  custody <- [k \in TradeKey |-> CustodyOf(k)],
  filled <- {k \in TradeKey : \E t \in Tx : owner[t] = k /\ fate[t] = "success"}

\* The worker, with its crashes, orphaned CLI processes and two loops, keeps
\* the promise of FillCustody for entries and scouts: one fill per trade, only
\* while pending.json knows of it, and no marker dropped before the fill is
\* in every file.
ImplementsCustody == Custody!Spec

\* The process is down, or the main loop has ended and the watch loop is
\* between two passes.
Halted == \/ ~up
          \/ /\ pc["main"] = "stopped"
             /\ pc["watch"] \in {"poll", "rest", "stopped"}

\* Once manual review is armed, by either loop or by a start, both loops come
\* to rest, and from then on neither begins a cycle, a pass or an execution,
\* across crashes and restarts, until the operator removes the flag.  Only
\* what a loop had begun when the flag was set may still go through.
ReviewHalts ==
  /\ review ~> (Halted \/ ~review)
  /\ [][review /\ review' /\ Halted => Halted']_vars

\* A worker that is down comes back to trading or asks for manual review: no
\* set of pending markers keeps it in between.
StartsOrEscalates == ~up ~> (up \/ review)

\* The documentation's claim for every key, exits included: "never by blind
\* re-submission" (packages/core/src/recovery.ts), "This prevents blind
\* resubmission" (docs/OPERATIONS.md).  The watch loop's catch retries an exit
\* whose broadcast is unresolved, so the claim does not hold for exits.
NoBlindResubmission ==
  \A t, u \in Tx : /\ Sent(t) /\ fate[t] # "reverted"
                   /\ Sent(u) /\ fate[u] # "reverted"
                   /\ owner[t] = owner[u]
                   => t = u
=============================================================================
