----------------------------- MODULE Calibration -----------------------------
(***************************************************************************)
(* The forward calibration loop: the worker appends each scored candidate  *)
(* to pending-samples.json, the collector script matures what is old       *)
(* enough into samples.json, and calibrate-edge turns the samples into the *)
(* report the gates take their expected moves from.  Three processes, two  *)
(* files without locks: a file that is being written is torn for anybody   *)
(* who reads it, and a torn file reads as an empty one.  Time is in hours. *)
(***************************************************************************)
EXTENDS Lists, Integers, SequencesExt, FiniteSetsExt

CONSTANTS
  Evaluations,    \* the candidates a cycle may evaluate: sequences of [symbol, family, score, price]
  Prices,         \* what a later quote may say
  MinGap,         \* recordPending, in hours
  Horizon,        \* CALIBRATION_HORIZON_HOURS
  Thresholds,     \* SCORE_THRESHOLDS of calibrate-edge.ts, in order
  MaxReportAge,   \* calibrationMaxAgeDays, in hours
  MaxNow, MaxCycles, MaxRuns      \* bounds

\* What recordPending lets pass: a finite score and a positive price.
Scored == [symbol : STRING, family : STRING, score : Int, price : Nat \ {0}]

ASSUME CalibrationAssumption ==
  /\ Prices \subseteq Nat \ {0} /\ MinGap \in Nat \ {0} /\ Horizon \in Nat \ {0}
  /\ MaxReportAge \in Nat /\ MaxNow \in Nat /\ MaxCycles \in Nat /\ MaxRuns \in Nat
  /\ Evaluations \subseteq Seq(Scored)
  /\ Thresholds \in Seq(Int)
  /\ \A j, k \in DOMAIN Thresholds : j < k => Thresholds[j] < Thresholds[k]

VARIABLES
  now,
  pendingFile, samplesFile,     \* [torn, rows]
  calibration,                  \* {} or {[generatedAt, bands, byFamily]}, the files of a calibration
  step,                         \* by process: "idle", "read", or the write it is in
  recording, collector,         \* what the worker and the collector hold in memory
  cycles, runs,                 \* what the bounds count
  \* History:
  recorded,                     \* the observations the worker has written
  aged,                         \* of these, dropped for age
  clean                         \* no two passes overlapped, and none died in a write

sampleFiles == <<pendingFile, samplesFile>>
passes == <<cycles, runs>>
traced == <<recorded, aged, clean>>
calibrationVars == <<now, sampleFiles, calibration, step, recording, collector, passes, traced>>

Processes == {"worker", "collector"}

File(rows) == [torn |-> FALSE, rows |-> rows]
Torn == [torn |-> TRUE, rows |-> <<>>]
-----------------------------------------------------------------------------
(* core/calibrationCollector.ts *)

Observation(c) ==
  [symbol |-> c.symbol, family |-> c.family, score |-> c.score, price |-> c.price, scoredAt |-> now]

\* Only the last row of the symbol counts, whatever its family.
LastOf(rows, symbol) ==
  {i \in DOMAIN rows : rows[i].symbol = symbol /\ \A j \in DOMAIN rows : rows[j].symbol = symbol => j <= i}

RecordPending(rows, obs) ==
  IF \E i \in LastOf(rows, obs.symbol) : obs.scoredAt - rows[i].scoredAt < MinGap
  THEN rows ELSE Append(rows, obs)

\* The loop of a cycle over its candidates.
RecordAll(rows, evaluated) ==
  LET recordedUpTo[n \in 0..Len(evaluated)] ==
        IF n = 0 THEN rows
        ELSE RecordPending(recordedUpTo[n - 1], Observation(evaluated[n]))
  IN recordedUpTo[Len(evaluated)]

MaxAge == 4 * Horizon
Age(row) == now - row.scoredAt

Matures(row, price) == Age(row) >= Horizon /\ row.symbol \in DOMAIN price

\* A plausible mistake: a measured row waits for its age like the others.
RemainsWhenMatured(row, price) == Age(row) <= MaxAge

Remains(row, price) ==
  ~Matures(row, price) /\ (Age(row) < Horizon \/ Age(row) <= MaxAge)

Move(row, price) == (10000 * (price[row.symbol] - row.price)) \div row.price

Sample(row, price) ==
  [row |-> row, moveBps |-> Move(row, price), win |-> Move(row, price) > 0,
   quotedAt |-> collector.quotedAt, measuredAt |-> now]
-----------------------------------------------------------------------------
(* core/edgeCalibration.ts *)

InBand(samples, k) ==
  {i \in DOMAIN samples :
     /\ samples[i].row.score >= Thresholds[k]
     /\ k < Len(Thresholds) => samples[i].row.score < Thresholds[k + 1]}

\* A plausible mistake: a loss is a move as well.
BandMoveAbsolute(samples, k) ==
  LET Abs(x) == IF x < 0 THEN -x ELSE x
      total == MapThenSumSet(LAMBDA i : Abs(samples[i].moveBps), InBand(samples, k))
  IN IF InBand(samples, k) = {} THEN 0 ELSE total \div Cardinality(InBand(samples, k))

BandMove(samples, k) ==
  LET total == MapThenSumSet(LAMBDA i : samples[i].moveBps, InBand(samples, k))
  IN IF InBand(samples, k) = {} THEN 0 ELSE total \div Cardinality(InBand(samples, k))

\* The rate as a fraction: wins of the band, and its samples.
HitRate(samples, k) ==
  [wins |-> Cardinality({i \in InBand(samples, k) : samples[i].win}),
   of |-> Cardinality(InBand(samples, k))]

BuildCalibrationReport(samples) ==
  [k \in DOMAIN Thresholds |->
     [minScore |-> Thresholds[k], moveBps |-> BandMove(samples, k), hitRate |-> HitRate(samples, k)]]

OfFamily(samples, f) == Picked(samples, {s \in ToSet(samples) : s.row.family = f})

BuildPerFamilyCalibration(samples) ==
  [f \in {samples[i].row.family : i \in DOMAIN samples} |->
     BuildCalibrationReport(OfFamily(samples, f))]

ExpectedMoveBps(score, bands) ==
  LET met == {k \in DOMAIN bands : score >= bands[k].minScore}
  IN IF met = {} THEN 0 ELSE bands[Max(met)].moveBps
-----------------------------------------------------------------------------
NobodyHolds == [rows |-> <<>>, due |-> {}, price |-> <<>>, quotedAt |-> 0,
                kept |-> <<>>, all |-> <<>>]

CalibrationInit ==
  /\ now = 0
  /\ pendingFile = File(<<>>) /\ samplesFile = File(<<>>) /\ calibration = {}
  /\ step = [p \in Processes |-> "idle"]
  /\ recording = <<>> /\ collector = NobodyHolds
  /\ cycles = 0 /\ runs = 0
  /\ recorded = {} /\ aged = {} /\ clean = TRUE

Hour ==
  /\ now < MaxNow
  /\ now' = now + 1
  /\ UNCHANGED <<sampleFiles, calibration, step, recording, collector, passes, traced>>

Goes(p, place) == step' = [step EXCEPT ![p] = place]
-----------------------------------------------------------------------------
(* worker.ts, the recording of a cycle: read, append, write. *)

WorkerReads ==
  /\ step["worker"] = "idle" /\ cycles < MaxCycles
  /\ \E evaluated \in Evaluations :
       recording' = RecordAll(pendingFile.rows, evaluated)
  /\ Goes("worker", "read") /\ cycles' = cycles + 1
  /\ clean' = (clean /\ step["collector"] = "idle" /\ ~pendingFile.torn)
  /\ UNCHANGED <<now, sampleFiles, calibration, collector, runs, recorded, aged>>

WorkerTruncates ==
  /\ step["worker"] = "read"
  /\ pendingFile' = Torn /\ Goes("worker", "pending")
  /\ UNCHANGED <<now, samplesFile, calibration, recording, collector, passes, traced>>

WorkerWrites ==
  /\ step["worker"] = "pending"
  /\ pendingFile' = File(recording) /\ recorded' = recorded \cup ToSet(recording)
  /\ recording' = <<>> /\ Goes("worker", "idle")
  /\ UNCHANGED <<now, samplesFile, calibration, collector, passes, aged, clean>>
-----------------------------------------------------------------------------
(* scripts/collect-calibration.ts *)

\* A plausible mistake: every pending symbol is quoted.
PendingSymbols(rows) == {rows[i].symbol : i \in DOMAIN rows}

\* The symbols that have a row old enough, on the clock of the read.
DueSymbols(rows) == {rows[i].symbol : i \in {k \in DOMAIN rows : Age(rows[k]) >= Horizon}}

CollectorReads ==
  /\ step["collector"] = "idle" /\ runs < MaxRuns
  /\ pendingFile.rows # <<>>     \* an empty or a torn list ends the run
  /\ collector' = [NobodyHolds EXCEPT !.rows = pendingFile.rows,
                                      !.due = DueSymbols(pendingFile.rows)]
  /\ Goes("collector", "read") /\ runs' = runs + 1
  /\ clean' = (clean /\ step["worker"] = "idle")
  /\ UNCHANGED <<now, sampleFiles, calibration, recording, cycles, recorded, aged>>

\* The fresh quotes of these symbols; the request, or a symbol of it, may fail.
Quotes == UNION {[quoted -> Prices] : quoted \in SUBSET collector.due}

CollectorQuotes ==
  /\ step["collector"] = "read"
  /\ \E price \in Quotes :
       collector' = [NobodyHolds EXCEPT !.rows = collector.rows,
                                        !.price = price, !.quotedAt = now]
  /\ Goes("collector", "quoted")
  /\ UNCHANGED <<now, sampleFiles, calibration, recording, passes, traced>>

\* What follows the quotes up to the writes has no await: the verdict on every
\* row, on a clock that may be later than that of its quote, and the samples so far.
CollectorMatures ==
  /\ step["collector"] = "quoted"
  /\ LET rows == collector.rows
         price == collector.price
         matured == {row \in ToSet(rows) : Matures(row, price)}
         kept == {row \in ToSet(rows) : Remains(row, price)}
         old == Picked(rows, matured)
     IN /\ collector' = [NobodyHolds EXCEPT
                           !.kept = Picked(rows, kept),
                           !.all = samplesFile.rows \o [i \in DOMAIN old |-> Sample(old[i], price)]]
        /\ aged' = aged \cup (ToSet(rows) \ (matured \cup kept))
  /\ Goes("collector", "matured")
  /\ UNCHANGED <<now, sampleFiles, calibration, recording, passes, recorded, clean>>

CollectorTruncates(from, to) ==
  /\ step["collector"] = from /\ Goes("collector", to)
  /\ IF to = "samples" THEN samplesFile' = Torn /\ UNCHANGED pendingFile
     ELSE pendingFile' = Torn /\ UNCHANGED samplesFile
  /\ UNCHANGED <<now, calibration, recording, collector, passes, traced>>

CollectorWritesSamples ==
  /\ step["collector"] = "samples"
  /\ samplesFile' = File(collector.all) /\ Goes("collector", "sampled")
  /\ UNCHANGED <<now, pendingFile, calibration, recording, collector, passes, traced>>

CollectorWritesPending ==
  /\ step["collector"] = "pending"
  /\ pendingFile' = File(collector.kept) /\ Goes("collector", "idle")
  /\ collector' = NobodyHolds
  /\ UNCHANGED <<now, samplesFile, calibration, recording, passes, traced>>

\* A process dies where it is; a file it was writing stays torn.
Dies(p) ==
  /\ step[p] # "idle"
  /\ Goes(p, "idle")
  /\ clean' = (clean /\ step[p] \in {"read", "quoted"})
  /\ IF p = "worker" THEN recording' = <<>> /\ UNCHANGED collector
     ELSE collector' = NobodyHolds /\ UNCHANGED recording
  /\ UNCHANGED <<now, sampleFiles, calibration, passes, recorded, aged>>
-----------------------------------------------------------------------------
\* worker.ts: without a report a dry process seeds itself with one winning
\* sample in each of two bands.
SeedCalibration == <<[minScore |-> 60, moveBps |-> 90, hitRate |-> [wins |-> 1, of |-> 1]],
                     [minScore |-> 80, moveBps |-> 320, hitRate |-> [wins |-> 1, of |-> 1]]>>

\* The bands a start of the worker takes, {} when it throws: a live one needs
\* a report, and a young one.
LoadCalibration(live) ==
  IF calibration = {} THEN IF live THEN {} ELSE {SeedCalibration}
  ELSE {r.bands : r \in {q \in calibration : live => now - q.generatedAt <= MaxReportAge}}

\* pnpm calibrate:edge, which fails on a torn file and on an empty one.
CalibrateEdge ==
  /\ samplesFile.rows # <<>>
  /\ calibration' = {[generatedAt |-> now,
                 bands |-> BuildCalibrationReport(samplesFile.rows),
                 byFamily |-> BuildPerFamilyCalibration(samplesFile.rows)]}
  /\ UNCHANGED <<now, sampleFiles, step, recording, collector, passes, traced>>

CalibrationNext ==
  \/ Hour
  \/ WorkerReads \/ WorkerTruncates \/ WorkerWrites
  \/ CollectorReads \/ CollectorQuotes \/ CollectorMatures
  \/ CollectorTruncates("matured", "samples") \/ CollectorWritesSamples
  \/ CollectorTruncates("sampled", "pending") \/ CollectorWritesPending
  \/ \E p \in Processes : Dies(p)
  \/ CalibrateEdge

CalibrationSpec == CalibrationInit /\ [][CalibrationNext]_calibrationVars
-----------------------------------------------------------------------------
SampledRows == {samplesFile.rows[i].row : i \in DOMAIN samplesFile.rows}

\* While no two passes overlap and none dies in its writes, every observation
\* the worker recorded is in one place: pending, sampled exactly once, or
\* dropped for its age.
NothingLostOrDoubled ==
  (clean /\ \A p \in Processes : step[p] = "idle") =>
    /\ recorded = ToSet(pendingFile.rows) \cup SampledRows \cup aged
    /\ Cardinality(SampledRows) = Len(samplesFile.rows)
    /\ SampledRows \cap (ToSet(pendingFile.rows) \cup aged) = {}

\* "We never invent a realized move" (calibrationCollector.ts): whatever overlaps
\* or dies, a sample is of an observation the worker recorded, judged a whole
\* horizon after it or later, against a quote that is younger than the
\* observation.  The quote itself may come before the horizon of the row, which
\* then took it from an older row of its symbol that was due when it was asked.
MovesAreMeasured ==
  \A i \in DOMAIN samplesFile.rows :
    LET s == samplesFile.rows[i]
    IN /\ s.row \in recorded
       /\ s.measuredAt - s.row.scoredAt >= Horizon
       /\ s.row.scoredAt <= s.quotedAt /\ s.quotedAt <= s.measuredAt
       /\ \E due \in recorded : /\ due.symbol = s.row.symbol
                               /\ s.quotedAt - due.scoredAt >= Horizon

\* An expected move the gates may trade on was earned: in what any start of the
\* worker would load, the seed of a dry one included, a score that maps to a
\* positive move has a winning sample in its own band, losses do not add up to
\* it; and a family that moves in a band has a win there, which is one of the
\* band's own over all families.
EdgeIsEarned ==
  /\ \A live \in BOOLEAN : \A bands \in LoadCalibration(live) : \A k \in DOMAIN bands :
       ExpectedMoveBps(bands[k].minScore, bands) > 0 => bands[k].hitRate.wins > 0
  /\ \A r \in calibration : \A k \in DOMAIN r.bands : \A f \in DOMAIN r.byFamily :
       r.byFamily[f][k].moveBps > 0 => r.byFamily[f][k].hitRate.wins > 0 /\ r.bands[k].hitRate.wins > 0
=============================================================================
