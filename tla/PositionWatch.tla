---------------------------- MODULE PositionWatch ----------------------------
(***************************************************************************)
(* The protection of open positions: the trailing stop                     *)
(* (core/trailingStop.ts), the decision of a watch tick                    *)
(* (core/positionWatch.ts), the watch loop of apps/worker/src/worker.ts    *)
(* that saves the trails and sells, and the main loop that hands verdicts  *)
(* (RED regime, DEFEND, core/watchdog.ts) to it in shared variables.       *)
(*                                                                         *)
(* Prices are numbers and distances basis points, so that a stop, in       *)
(* ten-thousandths of a price unit, is exact.  The ATR of a position is    *)
(* fixed at its fill (the worker never refreshes it), hence every multiple *)
(* of it is one distance.  A price that is missing, for however long,      *)
(* changes nothing but an alert.  The other files, failing writes, the     *)
(* pending markers and the kill flag are left to TradeLifecycle.           *)
(***************************************************************************)
EXTENDS Integers, Sequences, Watchdog

CONSTANTS
  Pos,        \* positions, in any order
  None,       \* no position
  Price,      \* prices the quoter may return
  Entry,      \* price of every entry
  InitBps,    \* stopAtrMultiple * atrPct
  ArmBps,     \* breakevenTriggerAtr * atrPct
  TrailBps,   \* trailAtrMultiple * atrPct
  TightBps,   \* trailTightAtrMultiple * atrPct
  CostBps,    \* realRoundTripBps
  MaxOpen     \* maxConcurrentPositions

ASSUME PriceAssumption == Price \subseteq Nat \ {0} /\ Entry \in Nat \ {0}
ASSUME DistanceAssumption ==
  /\ InitBps \in Nat \ {0} /\ ArmBps \in Nat \ {0} /\ TrailBps \in Nat \ {0}
  /\ TightBps \in Nat \ {0} /\ CostBps \in Nat
ASSUME OpenAssumption == MaxOpen \in Nat /\ None \notin Pos

VARIABLES
  open, trail,            \* openPositions: their order, and the trail of each
  diskOpen, diskTrail,    \* positions.json
  entered,                \* positions opened so far
  red, diskRed,           \* regimeRed, and the regime in regime.json
  defend,                 \* defendTightTrail
  force, tighten,         \* watchdogForceExit, watchdogTighten
  main, asked, next,      \* main loop: place, position being judged, index after it
  danger,                 \* the portfolio reading of the judging cycle
  watch, todo,            \* watch loop: place, rest of the pass
  review                  \* manual-review.json

bookVars == <<open, trail, entered>>
diskVars == <<diskOpen, diskTrail>>
verdictVars == <<red, diskRed, defend, force, tighten>>
mainVars == <<main, asked, next, danger>>
watchVars == <<watch, todo>>
vars == <<bookVars, diskVars, verdictVars, mainVars, watchVars, review>>
-----------------------------------------------------------------------------
Unit == 10000
Higher(a, b) == IF a >= b THEN a ELSE b
Peak(hwm) == Unit * hwm                        \* the high-water mark as a stop
Breakeven == Entry * (Unit + CostBps)
TrailBelow(hwm, tight) == hwm * (Unit - (IF tight THEN TightBps ELSE TrailBps))
Arms(price) == Unit * (price - Entry) >= ArmBps * Entry

Trail == [hwm : Nat, stop : Int, armed : BOOLEAN, tight : BOOLEAN]

InitTrailingStop(tight) ==
  [hwm |-> Entry, stop |-> Entry * (Unit - InitBps), armed |-> FALSE, tight |-> tight]

UpdateOnTrailOnly(t, price, tight) ==   \* A plausible mistake: no breakeven candidate
  LET hwm == Higher(t.hwm, price)
      armed == t.armed \/ Arms(price)
  IN [hwm |-> hwm, armed |-> armed, tight |-> tight,
      stop |-> IF armed THEN Higher(t.stop, TrailBelow(hwm, tight)) ELSE t.stop]

UpdateFromPrice(t, price, tight) ==   \* A plausible mistake: the last price is the peak
  LET armed == t.armed \/ Arms(price)
  IN [hwm |-> price, armed |-> armed, tight |-> tight,
      stop |-> IF armed THEN Higher(t.stop, Higher(Breakeven, TrailBelow(price, tight)))
               ELSE t.stop]

UpdateTrailingStop(t, price, tight) ==
  LET hwm == Higher(t.hwm, price)
      armed == t.armed \/ Arms(price)
  IN [hwm |-> hwm, armed |-> armed, tight |-> tight,
      stop |-> IF armed THEN Higher(t.stop, Higher(Breakeven, TrailBelow(hwm, tight)))
               ELSE t.stop]

IsStopBreached(t, price) == Unit * price <= t.stop

Splice(s, i) == SubSeq(s, 1, i - 1) \o SubSeq(s, i + 1, Len(s))

TightModeNow(p) ==   \* A plausible mistake: the latch of the trail is forgotten
  red \/ defend \/ p \in tighten

TightMode(p) == trail[p].tight \/ red \/ defend \/ p \in tighten

ForceExitOnDanger(p) == p \in force   \* A plausible mistake: RED only tightens

ForceExit(p) == p \in force \/ red

Ticked(p, price) == UpdateTrailingStop(trail[p], price, TightMode(p))
-----------------------------------------------------------------------------
Init ==
  /\ open = <<>> /\ diskOpen = <<>> /\ entered = {}
  /\ trail = [p \in Pos |-> InitTrailingStop(FALSE)]
  /\ diskTrail = trail
  /\ red = FALSE /\ diskRed = FALSE /\ defend = FALSE
  /\ force = {} /\ tighten = {}
  /\ main = "cycle" /\ asked = None /\ next = 1 /\ danger = FALSE
  /\ watch = "rest" /\ todo = <<>>
  /\ review = FALSE

(* A cycle derives the week state, and across an await the regime.         *)
MainReadsWeek ==
  /\ main = "cycle" /\ ~review
  /\ defend' \in BOOLEAN
  /\ main' = "valued"
  /\ UNCHANGED <<bookVars, diskVars, red, diskRed, force, tighten, asked, next, danger, watchVars, review>>

MainReadsRegime ==
  /\ main = "valued"
  /\ red' \in BOOLEAN /\ diskRed' = red'
  /\ main' = "read"
  /\ UNCHANGED <<bookVars, diskVars, defend, force, tighten, asked, next, danger, watchVars, review>>

(* The iteration over the live list: the position it yields at an index.  *)
Yield(i) ==
  IF i <= Len(open) THEN main' = "judging" /\ asked' = open[i] /\ next' = i + 1
  ELSE main' = "deciding" /\ asked' = None /\ next' = 1

(* The verdicts are emptied and the first position is looked up.           *)
JudgeStarts ==
  /\ main = "read"
  /\ force' = {} /\ tighten' = {}
  /\ danger' \in BOOLEAN
  /\ Yield(1)
  /\ UNCHANGED <<bookVars, diskVars, red, diskRed, defend, watchVars, review>>

(* Its pool has answered: the verdict, then the next position.  The price   *)
(* fed to the watchdog is the high-water mark.                              *)
Verdicts(p) ==
  {EvaluateWatchdog(
     [breached |-> IsStopBreached(trail[p], trail[p].hwm), open |-> TRUE, pending |-> FALSE,
      danger |-> danger, derisk |-> derisk, flipped |-> flipped, thinning |-> FALSE,
      spiking |-> spiking]) : derisk \in BOOLEAN, flipped \in BOOLEAN, spiking \in BOOLEAN}

JudgeAnswers ==
  /\ main = "judging"
  /\ \E actions \in Verdicts(asked) :
       IF "close_position" \in actions
       THEN force' = force \cup {asked} /\ tighten' = tighten
       ELSE /\ force' = force
            /\ tighten' = IF actions \cap {"reduce_position", "pause_strategy"} # {}
                          THEN tighten \cup {asked} ELSE tighten
  /\ Yield(next)
  /\ UNCHANGED <<bookVars, diskVars, red, diskRed, defend, danger, watchVars, review>>

(* A read fails: the cycle ends, with the verdicts given so far.           *)
MainFails ==
  /\ main \in {"valued", "read", "judging", "deciding"}
  /\ main' = "cycle" /\ asked' = None /\ next' = 1
  /\ UNCHANGED <<bookVars, diskVars, verdictVars, danger, watchVars, review>>

MainHolds ==
  /\ main = "deciding"
  /\ main' = "cycle"
  /\ UNCHANGED <<bookVars, diskVars, verdictVars, asked, next, danger, watchVars, review>>

(* An entry fills: neither in RED nor below the danger threshold.          *)
MainEnters(p) ==
  /\ main = "deciding"
  /\ ~red /\ ~danger
  /\ p \notin entered /\ Len(open) < MaxOpen
  /\ open' = Append(open, p)
  /\ entered' = entered \cup {p}
  /\ trail' = [trail EXCEPT ![p] = InitTrailingStop(defend)]
  /\ diskOpen' = open' /\ diskTrail' = trail'
  /\ main' = "cycle"
  /\ UNCHANGED <<verdictVars, asked, next, danger, watchVars, review>>
-----------------------------------------------------------------------------
WatchStarts ==
  /\ watch \in {"rest", "cut"} /\ ~review
  /\ open # <<>>
  /\ watch' = "pass" /\ todo' = open
  /\ UNCHANGED <<bookVars, diskVars, verdictVars, mainVars, review>>

InPass == watch = "pass" /\ todo # <<>>

(* No price: the trail stays as it is (an alert past the limit).           *)
TickBlind ==
  /\ InPass
  /\ todo' = Tail(todo)
  /\ UNCHANGED <<bookVars, diskVars, verdictVars, mainVars, watch, review>>

(* The quote is zero: the tick throws, and the pass ends without its save. *)
TickThrows ==
  /\ InPass
  /\ watch' = "cut" /\ todo' = <<>>
  /\ UNCHANGED <<bookVars, diskVars, verdictVars, mainVars, review>>

TickHolds(price) ==
  LET p == Head(todo) IN
  /\ InPass
  /\ ~ForceExit(p) /\ ~IsStopBreached(Ticked(p, price), price)
  /\ trail' = [trail EXCEPT ![p] = Ticked(p, price)]
  /\ todo' = Tail(todo)
  /\ UNCHANGED <<open, entered, diskVars, verdictVars, mainVars, watch, review>>

TickExits(price) ==
  LET p == Head(todo) IN
  /\ InPass
  /\ ForceExit(p) \/ IsStopBreached(Ticked(p, price), price)
  /\ trail' = [trail EXCEPT ![p] = Ticked(p, price)]
  /\ watch' = "exiting"
  /\ UNCHANGED <<open, entered, diskVars, verdictVars, mainVars, todo, review>>

(* The exit is confirmed: the position leaves the list, which is saved.    *)
ExitSold ==
  /\ watch = "exiting"
  /\ \E i \in 1..Len(open) : open[i] = Head(todo) /\ open' = Splice(open, i)
  /\ diskOpen' = open' /\ diskTrail' = trail
  /\ watch' = "pass" /\ todo' = Tail(todo)
  /\ UNCHANGED <<trail, entered, verdictVars, mainVars, review>>

(* It is refused or throws: the position is watched on.                    *)
ExitFails ==
  /\ watch = "exiting"
  /\ watch' = "pass" /\ todo' = Tail(todo)
  /\ UNCHANGED <<bookVars, diskVars, verdictVars, mainVars, review>>

(* It is submitted without a confirmed output: review, and the pass ends.  *)
ExitUnconfirmed ==
  /\ watch = "exiting"
  /\ review' = TRUE
  /\ watch' = "cut" /\ todo' = <<>>
  /\ UNCHANGED <<bookVars, diskVars, verdictVars, mainVars>>

WatchEnds ==
  /\ watch = "pass" /\ todo = <<>>
  /\ diskOpen' = open /\ diskTrail' = trail
  /\ watch' = "rest"
  /\ UNCHANGED <<bookVars, verdictVars, mainVars, todo, review>>

(* A crash and the restart after it: what is not in a file starts afresh.  *)
(* With review armed no restart comes up before an operator has acted.     *)
CrashAndRestart ==
  /\ ~review
  /\ open' = diskOpen /\ trail' = diskTrail
  /\ red' = diskRed /\ defend' = FALSE /\ force' = {} /\ tighten' = {}
  /\ main' = "cycle" /\ asked' = None /\ next' = 1 /\ danger' = FALSE
  /\ watch' = "rest" /\ todo' = <<>>
  /\ UNCHANGED <<entered, diskVars, diskRed, review>>

MainNext ==
  MainReadsWeek \/ MainReadsRegime \/ JudgeStarts \/ JudgeAnswers \/ MainFails
  \/ MainHolds \/ \E p \in Pos : MainEnters(p)

Tick == \E price \in Price : TickHolds(price) \/ TickExits(price)

WatchNext ==
  WatchStarts \/ TickBlind \/ TickThrows \/ Tick \/ ExitSold \/ ExitFails \/ ExitUnconfirmed \/ WatchEnds

Next == MainNext \/ WatchNext \/ CrashAndRestart

Spec == Init /\ [][Next]_vars

(***************************************************************************)
(* The watch loop goes on (its timer and its awaits always return), and    *)
(* the outside world is not against it for ever: a price comes, and an     *)
(* exit is confirmed or handed to the operator, for each position that is  *)
(* asked again and again.  Nothing is assumed of crashes or the main loop. *)
(***************************************************************************)
FairSpec ==
  /\ Spec
  /\ SF_vars(WatchStarts) /\ SF_vars(WatchEnds)
  /\ SF_vars(ExitSold \/ ExitUnconfirmed)
  /\ SF_vars(Tick)
-----------------------------------------------------------------------------
TypeOK ==
  /\ open \in Seq(Pos) /\ diskOpen \in Seq(Pos) /\ todo \in Seq(Pos)
  /\ trail \in [Pos -> Trail] /\ diskTrail \in [Pos -> Trail]
  /\ entered \subseteq Pos /\ force \subseteq Pos /\ tighten \subseteq Pos
  /\ red \in BOOLEAN /\ diskRed \in BOOLEAN /\ defend \in BOOLEAN
  /\ danger \in BOOLEAN /\ review \in BOOLEAN
  /\ main \in {"cycle", "valued", "read", "judging", "deciding"}
  /\ asked \in Pos \cup {None} /\ next \in Nat \ {0}
  /\ watch \in {"rest", "pass", "exiting", "cut"}
  /\ watch = "exiting" => todo # <<>>
  /\ main = "judging" => asked \in Pos

(* t protects at least as well as s: nothing that only rises has fallen.   *)
Protects(t, s) ==
  /\ t.stop >= s.stop /\ t.hwm >= s.hwm
  /\ s.armed => t.armed
  /\ s.tight => t.tight

(***************************************************************************)
(* "Never lower or widen the stop" (README.md:112, trailingStop.ts:16),    *)
(* over the life of a position on disk: across passes, entries, exits and  *)
(* crashes the saved stop, peak and latches of a position only tighten     *)
(* (until a trail begins, with its entry).                                 *)
(***************************************************************************)
RatchetOnly ==
  [][\A p \in entered : Protects(diskTrail'[p], diskTrail[p])]_vars

(* The live trail is never behind the saved one.                           *)
MemoryAhead == \A p \in Pos : Protects(trail[p], diskTrail[p])

Trails == {trail[p] : p \in Pos} \cup {diskTrail[p] : p \in Pos}

(***************************************************************************)
(* "A runner can never turn back into a wallet loss"                       *)
(* (trailingStop.ts:10-11, 117): once the breakeven is armed the stop      *)
(* covers the entry and the measured round trip, in memory and on disk.    *)
(***************************************************************************)
BreakevenCovers == \A t \in Trails : t.armed => t.stop >= Breakeven

(***************************************************************************)
(* The latch tells what the peak tells: it is armed exactly when the       *)
(* highest price seen had gained the trigger, however prices moved since   *)
(* and through every restart.                                              *)
(***************************************************************************)
ArmedAtPeak == \A t \in Trails : t.armed <=> Arms(t.hwm)

(***************************************************************************)
(* With a trigger above the round-trip cost the stop stays below the peak, *)
(* so that no tick sells a position at its own high: a tick at the peak    *)
(* never breaches, the tick that arms included.                            *)
(***************************************************************************)
StopBelowPeak == CostBps < ArmBps => \A t \in Trails : t.stop < Peak(t.hwm)

(***************************************************************************)
(* After a pass positions.json holds the live list with its live trails: a *)
(* crash there loses nothing (unless review or a throw cut the pass off).  *)
(***************************************************************************)
SavedBetweenPasses ==
  watch = "rest" => diskOpen = open /\ diskTrail = trail

(***************************************************************************)
(* "RED rotates open risk into eligible stables" (README.md:101): when the *)
(* regime stays RED the book is emptied in the end, or review takes over,  *)
(* whatever crashes and failures come in between.                          *)
(***************************************************************************)
RedEmptiesTheBook == <>[]red => <>[](open = <<>> \/ review)
=============================================================================
