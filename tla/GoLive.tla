------------------------------- MODULE GoLive -------------------------------
(***************************************************************************)
(* Who makes the worker trade for real: the mode controller                *)
(* ops/golive/wardenclaw-mode.sh, the two timers that fire it when the     *)
(* window opens and closes, the process manager that keeps the worker up   *)
(* and brings it back after a reboot, the gates of the worker's own start, *)
(* and the flags of the control API and of manual review.                  *)
(*                                                                         *)
(* The process manager (pm2) and the timers (systemd) are external: they   *)
(* are modelled as the script and the unit files use them.  Days are the   *)
(* unit of time; the window is [OpenDay, CloseDay).                        *)
(***************************************************************************)
EXTENDS Integers

CONSTANTS
  OpenDay, CloseDay,
  MaxAgeDays,        \* CALIBRATION_MAX_AGE_DAYS
  Override,          \* REHEARSAL_OVERRIDE=true
  MaxFails,          \* failing starts after which pm2 gives up
  MaxDay, MaxOutages, MaxCrashes, MaxOperator    \* bounds

ASSUME GoLiveAssumption ==
  /\ OpenDay \in Nat /\ CloseDay \in Nat /\ OpenDay < CloseDay /\ CloseDay <= MaxDay
  /\ MaxAgeDays \in Nat /\ MaxFails \in Nat \ {0} /\ Override \in BOOLEAN
  /\ MaxDay \in Nat /\ MaxOutages \in Nat /\ MaxCrashes \in Nat /\ MaxOperator \in Nat

VARIABLES
  day, box,          \* the calendar; the machine is on
  fired,             \* the timers that have fired
  at, mode,          \* the controller: "idle", "gates", "recreate", "save", "verify"; its argument
  proc, dump,        \* pm2: the process and the saved one, {} or {[mode, fails]}
  worker,            \* "none", "boot", "live" or "dry"
  kill, review,      \* kill.flag.json and manual-review.json exist
  pending,           \* pending.json holds a trade that was cut off
  rehearsed,         \* rehearsal.json says passed
  report,            \* the day the calibration report was generated, {} for none
  outages, crashes, operator,    \* what the bounds count
  \* History:
  stoodDown,         \* a stand-down reported OK, with its pm2 save, and nobody went live since
  saved,             \* pm2 save of the run under way succeeded
  spoiled,           \* a run met the lock, was cut off, or could not start or save the
                     \* worker, or the go-live was made up after the window had closed
  handled            \* the operator asked for a mode

calendar == <<day, box, fired>>
controller == <<at, mode>>
pm2 == <<proc, dump>>
files == <<kill, review, pending, rehearsed, report>>
bounds == <<outages, crashes, operator>>
history == <<stoodDown, saved, spoiled, handled>>
vars == <<calendar, controller, pm2, worker, files, bounds, history>>

Process(m) == {[mode |-> m, fails |-> 0]}
The(set) == CHOOSE x \in set : TRUE

\* isCalibrationStale, and the same check in the script.
Fresh == \E d \in report : day - d <= MaxAgeDays
Rehearsed == rehearsed \/ Override
-----------------------------------------------------------------------------
Init ==
  /\ day = 0 /\ box = TRUE /\ fired = {}
  /\ at = "idle" /\ mode = "check"
  /\ proc = Process("dry") /\ dump = Process("dry") /\ worker = "none"
  /\ kill = FALSE /\ review = FALSE /\ pending = FALSE
  /\ rehearsed \in BOOLEAN /\ report \in {{}, {0}}
  /\ outages = 0 /\ crashes = 0 /\ operator = 0
  /\ stoodDown = FALSE /\ saved = FALSE /\ spoiled = FALSE /\ handled = FALSE

Midnight ==
  /\ day < MaxDay
  /\ day' = day + 1
  /\ UNCHANGED <<box, fired, controller, pm2, worker, files, bounds, history>>

\* A trade under way is cut off when the process is.
CutOff == pending' \in (IF worker = "live" THEN {pending, TRUE} ELSE {pending})

Outage ==
  /\ box /\ outages < MaxOutages
  /\ box' = FALSE /\ outages' = outages + 1
  /\ at' = "idle" /\ proc' = {} /\ worker' = "none"
  /\ CutOff
  /\ spoiled' = (spoiled \/ at # "idle")
  /\ UNCHANGED <<day, fired, mode, dump, kill, review, rehearsed, report, crashes,
                 operator, stoodDown, saved, handled>>

\* pm2-root.service resurrects the saved process.
PowerOn ==
  /\ ~box
  /\ box' = TRUE /\ proc' = dump
  /\ UNCHANGED <<day, fired, controller, dump, worker, files, bounds, history>>
-----------------------------------------------------------------------------
(* The timers, wardenclaw-golive.timer and wardenclaw-standdown.timer.      *)

TimerMode == [golive |-> "live", standdown |-> "dry"]
TimerDay == [golive |-> OpenDay, standdown |-> CloseDay]

\* A plausible mistake: without Persistent=true a timer missed is not made up.
DueOnTheDay(t) == day = TimerDay[t]

Due(t) == day >= TimerDay[t]    \* Persistent=true

\* The script takes its lock or fails; a oneshot service is not retried.
TimerFires(t) ==
  /\ box /\ t \notin fired /\ Due(t)
  /\ fired' = fired \cup {t}
  /\ IF at = "idle" THEN at' = "gates" /\ mode' = TimerMode[t] ELSE UNCHANGED controller
  /\ spoiled' = (spoiled \/ at # "idle" \/ (t = "golive" /\ day >= CloseDay))
  /\ UNCHANGED <<day, box, pm2, worker, files, bounds, stoodDown, saved, handled>>

\* The operator runs the script by hand; live only before the window closes.
OperatorRuns(m) ==
  /\ box /\ at = "idle" /\ operator < MaxOperator
  /\ m = "live" => day < CloseDay
  /\ at' = "gates" /\ mode' = m /\ operator' = operator + 1
  /\ handled' = (handled \/ m # "check")
  /\ UNCHANGED <<calendar, pm2, worker, files, outages, crashes, stoodDown, saved, spoiled>>
-----------------------------------------------------------------------------
(* wardenclaw-mode.sh *)

\* A plausible mistake: the live gates are asked before a stand-down as well.
PreflightAlways(m) == ~kill /\ ~review /\ Fresh /\ Rehearsed

Preflight(m) == ~kill /\ ~review /\ (m # "dry" => Fresh /\ Rehearsed)

GatesPass ==
  /\ box /\ at = "gates" /\ Preflight(mode)
  /\ at' = IF mode = "check" THEN "idle" ELSE "recreate"
  /\ UNCHANGED <<calendar, mode, pm2, worker, files, bounds, history>>

GatesFail ==    \* the running worker is left alone
  /\ box /\ at = "gates" /\ ~Preflight(mode)
  /\ at' = "idle"
  /\ UNCHANGED <<calendar, mode, pm2, worker, files, bounds, history>>

\* pm2 delete, which ends the worker wherever it is, then pm2 start.
Recreate ==
  /\ box /\ at = "recreate"
  /\ worker' = "none" /\ CutOff
  /\ \/ proc' = Process(mode) /\ at' = "save" /\ UNCHANGED spoiled
     \/ proc' = {} /\ at' = "idle" /\ spoiled' = TRUE       \* pm2 start failed
  /\ stoodDown' = (stoodDown /\ mode = "dry") /\ saved' = FALSE
  /\ UNCHANGED <<calendar, mode, dump, kill, review, rehearsed, report, bounds, handled>>

\* A plausible mistake: only a go-live is saved.
DumpedLive == IF mode = "live" THEN proc ELSE dump

Dumped == proc

Save ==    \* a failing save is a warning in the log
  /\ box /\ at = "save"
  /\ \/ dump' = Dumped /\ saved' = TRUE
        /\ UNCHANGED spoiled
     \/ spoiled' = TRUE /\ UNCHANGED <<dump, saved>>
  /\ at' = "verify"
  /\ UNCHANGED <<calendar, mode, proc, worker, files, bounds, stoodDown, handled>>

BootGates(m) == ~review /\ (m = "live" => Rehearsed /\ Fresh)

\* The banner of the worker's start comes after its gates and before its recovery.
Banner == worker = mode \/ (worker = "boot" /\ The(proc).mode = mode /\ BootGates(mode))

Verified ==
  /\ box /\ at = "verify" /\ Banner
  /\ at' = "idle"
  /\ stoodDown' = (mode = "dry" /\ saved)
  /\ UNCHANGED <<calendar, mode, pm2, worker, files, bounds, saved, spoiled, handled>>

\* No banner in time: the worker starts too slowly, or not at all.
VerifyTimesOut ==
  /\ box /\ at = "verify" /\ worker # mode
  /\ at' = "idle"
  /\ UNCHANGED <<calendar, mode, pm2, worker, files, bounds, history>>
-----------------------------------------------------------------------------
(* pm2 and main() of worker.ts up to its banner and its recovery.           *)

Pm2Starts ==
  /\ box /\ worker = "none" /\ \E p \in proc : p.fails < MaxFails
  /\ worker' = "boot"
  /\ UNCHANGED <<calendar, controller, pm2, files, bounds, history>>

StartFails == /\ worker' = "none"
              /\ proc' = {[p EXCEPT !.fails = @ + 1] : p \in proc}

\* TWAK_CONFIG_PATH of the process decides the mode; .env does not override it.
Boots ==
  /\ worker = "boot" /\ BootGates(The(proc).mode) /\ ~pending
  /\ worker' = The(proc).mode /\ proc' = Process(The(proc).mode)
  /\ UNCHANGED <<calendar, controller, dump, files, bounds, history>>

BootBlocked ==
  /\ worker = "boot" /\ ~BootGates(The(proc).mode)
  /\ StartFails
  /\ UNCHANGED <<calendar, controller, dump, files, bounds, history>>

\* Recovery settles a trade that was cut off, or leaves it to the operator.
BootRecovers ==
  /\ worker = "boot" /\ BootGates(The(proc).mode) /\ pending
  /\ \/ pending' = FALSE /\ worker' = The(proc).mode /\ proc' = Process(The(proc).mode)
        /\ UNCHANGED review
     \/ review' = TRUE /\ StartFails /\ UNCHANGED pending
  /\ UNCHANGED <<calendar, controller, dump, kill, rehearsed, report, bounds, history>>

Crash ==
  /\ worker \in {"live", "dry"} /\ crashes < MaxCrashes
  /\ worker' = "none" /\ crashes' = crashes + 1
  /\ CutOff
  /\ UNCHANGED <<calendar, controller, pm2, kill, review, rehearsed, report, outages,
                 operator, history>>
-----------------------------------------------------------------------------
\* POST /kill with the token: only an operator removes the file again.
Kill ==
  /\ ~kill /\ operator < MaxOperator
  /\ kill' = TRUE /\ operator' = operator + 1
  /\ UNCHANGED <<calendar, controller, pm2, worker, review, pending, rehearsed, report,
                 outages, crashes, history>>

ArmReview ==    \* a fill whose amount or outcome the live worker cannot tell
  /\ worker = "live" /\ ~review /\ crashes < MaxCrashes
  /\ review' = TRUE /\ crashes' = crashes + 1
  /\ UNCHANGED <<calendar, controller, pm2, worker, kill, pending, rehearsed, report,
                 outages, operator, history>>

OperatorResolves ==
  /\ kill \/ review
  /\ kill' = FALSE /\ review' = FALSE /\ pending' = FALSE
  /\ UNCHANGED <<calendar, controller, pm2, worker, rehearsed, report, bounds, history>>

Calibrate ==    \* pnpm calibrate:edge
  /\ report' = {day} /\ report # {day}
  /\ UNCHANGED <<calendar, controller, pm2, worker, kill, review, pending, rehearsed,
                 bounds, history>>

Controller == GatesPass \/ GatesFail \/ Recreate \/ Save \/ Verified \/ VerifyTimesOut
Pm2 == Pm2Starts \/ Boots \/ BootBlocked \/ BootRecovers

Next ==
  \/ Midnight \/ Outage \/ PowerOn
  \/ \E t \in DOMAIN TimerDay : TimerFires(t)
  \/ \E m \in {"live", "dry", "check"} : OperatorRuns(m)
  \/ Controller \/ Pm2 \/ Crash
  \/ Kill \/ ArmReview \/ OperatorResolves \/ Calibrate

\* The machine comes back, due timers fire, the script is a straight line with
\* a timeout, and pm2 restarts what exits.  Nothing makes the days pass: a day
\* is as long as a behaviour makes it.
Fairness ==
  /\ WF_vars(PowerOn)
  /\ \A t \in DOMAIN TimerDay : WF_vars(TimerFires(t))
  /\ WF_vars(Controller) /\ WF_vars(Pm2)

Spec == Init /\ [][Next]_vars /\ Fairness
-----------------------------------------------------------------------------
Ready == ~kill /\ ~review /\ Fresh /\ Rehearsed

\* A stand-down that reported OK is final: no crash, no reboot and no restart
\* of pm2 brings real trading back, unless somebody asks for it.
StaysStoodDown == stoodDown => worker # "live"

\* "Starting late beats not starting" (wardenclaw-golive.timer): while the
\* gates hold and the window lasts, the worker comes to trade for real, also
\* when the machine was off at the opening or the worker crashes.
GoesLive ==
  ([](Ready /\ ~spoiled /\ ~handled) /\ <>[](day \in OpenDay..(CloseDay - 1)))
    => <>(worker = "live")

\* Real trading ends when the window has, also when the calibration has aged
\* out by then: the stand-down needs no flag up when it fires, and the lock.  Of a
\* behaviour that is spoiled nothing is said: a go-live made up after the close, at
\* the boot of a machine that was off, trades past the window when it comes last,
\* and a stand-down whose pm2 save failed is undone by the next reboot.
StandsDown ==
  ([](~kill /\ ~review /\ ~spoiled /\ ~handled) /\ <>(day >= CloseDay))
    => <>[](worker # "live")
=============================================================================
