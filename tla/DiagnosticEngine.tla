--------------------------- MODULE DiagnosticEngine ---------------------------
(***************************************************************************)
(* The streaming engine of src/src/time_series/analytics.rs and the        *)
(* handler that asks it for a diagnosis.                                   *)
(*                                                                         *)
(* The engine is one for all meters, under a std mutex that no holder      *)
(* awaits with, so a method is one step; a panic in it poisons the mutex.  *)
(*                                                                         *)
(* Of a floating-point number the model keeps whether it is finite, and    *)
(* carries that exactly through sums, quotients and products: an infinite  *)
(* reading makes the trend around it infinite, their quotient NaN, and so  *)
(* on.  Which finite numbers come out, and what comparisons of them say,   *)
(* is left open.  Sums of finite readings do not overflow, and weather     *)
(* covariates are finite.                                                  *)
(*                                                                         *)
(* Nothing in the repository feeds the global engine but a test: whoever   *)
(* ingests readings is outside, and gives them in any order, not before    *)
(* their time.                                                             *)
(***************************************************************************)
EXTENDS Integers, Sequences, FiniteSets

CONSTANTS
  Meters,
  Kinds,        \* what a reading may be: [value, weather]
  History,      \* history_window_days
  FitSize,      \* weather readings a fit needs: 5
  MaxSpan,      \* readings the moving average covers at most: 7
  SortLimit,    \* values the library sorts by insertion: 20
  Month,        \* the month of each time
  MaxClock,     \* bound on the time
  MaxReadings   \* bound on the readings in all windows

Values == {"finite", "inf", "-inf", "nan"}
Causes == {"theft", "leak", "sensor_fault", "seasonal_variation", "normal"}

VARIABLES
  clock,
  readings,      \* meter_readings: the window of each meter
  coefficients,  \* weather_coefficients: none, finite or not finite
  poisoned,      \* a panic has poisoned the mutex
  answer,        \* what the handler answered in this step
  cutoff,        \* history: the cutoff of the last ingestion of each meter
  ordered        \* history: no reading of the meter came before an older one

vars == <<clock, readings, coefficients, poisoned, answer, cutoff, ordered>>

NoAnswer == [status |-> "none", meter |-> "none", sound |-> TRUE, cause |-> "none"]

Init ==
  /\ clock = 0
  /\ readings = [m \in Meters |-> << >>]
  /\ coefficients = [m \in Meters |-> "none"]
  /\ poisoned = FALSE
  /\ answer = NoAnswer
  /\ cutoff = [m \in Meters |-> 0]
  /\ ordered = [m \in Meters |-> TRUE]

Tick ==
  /\ clock < MaxClock
  /\ clock' = clock + 1
  /\ answer' = NoAnswer
  /\ UNCHANGED <<readings, coefficients, poisoned, cutoff, ordered>>

-----------------------------------------------------------------------------
(* Ingestion *)

\* Mutant of Pruned: at most one reading goes.
PrunedOnce(w, limit) ==
  IF w # << >> /\ Head(w).at < limit THEN Tail(w) ELSE w

\* The readings from the first one on that is not older than the limit.
Pruned(w, limit) ==
  SubSeq(w, 1 + Cardinality({i \in DOMAIN w : \A j \in 1 .. i : w[j].at < limit}),
         Len(w))

\* Every place of every window.
Stored == UNION {{m} \X DOMAIN readings[m] : m \in Meters}

\* The mutex must not be poisoned: its users give up then.
Ingest(m, r) ==
  LET limit == clock - History
      w == Pruned(readings[m], limit)
  IN
  /\ ~ poisoned
  /\ readings' = [readings EXCEPT ![m] = Append(w, r)]
  /\ Cardinality(Stored') <= MaxReadings
  /\ cutoff' = [cutoff EXCEPT ![m] = limit]
  /\ ordered' = [ordered EXCEPT ![m] =
       @ /\ (readings[m] = << >> \/ readings[m][Len(readings[m])].at <= r.at)]
  /\ answer' = NoAnswer
  /\ UNCHANGED <<clock, coefficients, poisoned>>

-----------------------------------------------------------------------------
(* Seasonal decomposition *)

Min2(a, b) == IF a < b THEN a ELSE b
Max2(a, b) == IF a < b THEN b ELSE a

SumOf(values) ==
  IF "nan" \in values \/ {"inf", "-inf"} \subseteq values THEN "nan"
  ELSE IF values \subseteq {"finite"} THEN "finite"
  ELSE CHOOSE v \in values : v # "finite"

\* The odd number of readings the trailing average covers.
Span(w) == Max2((Min2(Len(w), MaxSpan) \div 2) * 2 + 1, 3)

Trend(w, i) == SumOf({w[j].value : j \in Max2(1, i - Span(w) + 1) .. i})

Infinite == {"inf", "-inf"}

\* Mutant of DetrendedIsNaN: a NaN is divided by the trend as well.
DetrendedMayBeNaN(w, i) == w[i].value \in Infinite \cup {"nan"}

\* value / trend is inf / inf; where the trend is NaN, 1.0 is taken instead.
DetrendedIsNaN(w, i) == w[i].value \in Infinite /\ Trend(w, i) \in Infinite

\* Sorting the detrended values of a month compares each with another one, and
\* comparing a NaN panics.
MonthSortPanics(w) ==
  \E i, j \in DOMAIN w :
    i # j /\ Month[w[i].at] = Month[w[j].at] /\ DetrendedIsNaN(w, i)

\* value - trend * factor: the factor of a month is finite, or NaN when its one
\* reading is, and then the trend is infinite as well.
ResidualIsFinite(w, i) == Trend(w, i) = "finite"

-----------------------------------------------------------------------------
(* Threshold, expectation and classification *)

\* The readings whose residuals make up the threshold.
Past(w) == 1 .. Max2(0, Len(w) - Span(w))

\* With NaNs taken for equal to all, the order is none, and the sort may notice
\* and panic when it does more than insert.
ThresholdSortMayPanic(w) ==
  /\ Cardinality(Past(w)) > SortLimit
  /\ \E i \in Past(w) : ~ ResidualIsFinite(w, i)

MayPanic(w) == MonthSortPanics(w) \/ ThresholdSortMayPanic(w)

MustPanic(w) == MonthSortPanics(w)

Latest(w) == w[Len(w)]

\* compute_weather_adjustment: 0 without weather or without a fitted model.
AdjustmentIsFinite(w, c) == Latest(w).weather => c # "not finite"

\* Expected volume: trend * factor + weather adjustment.
ExpectedIsFinite(w, c) ==
  Trend(w, Len(w)) = "finite" /\ AdjustmentIsFinite(w, c)

\* The largest past residuals may be infinite, and then nothing exceeds them.
Sound(w, c) ==
  ExpectedIsFinite(w, c) /\ \A i \in Past(w) : ResidualIsFinite(w, i)

LastOf(w, n) == Max2(1, Len(w) - n + 1) .. Len(w)

\* Sign of a residual: known to be no number when the trend is NaN.
MayBePositive(w, i) == Trend(w, i) # "nan"

\* The deviation is NaN, and exceeds nothing, when the latest reading is not
\* finite or the trend is NaN.
MayDeviate(w) == Latest(w).value = "finite" /\ Trend(w, Len(w)) # "nan"

\* classify_probable_cause: what may be found, as the numbers decide.  A
\* percentage of what is not finite is NaN, and so is a variance.
CausesOf(w, c) ==
  IF ~ MayDeviate(w) THEN {"none"} ELSE
  {"none", "normal"}
  \cup (IF ExpectedIsFinite(w, c) THEN {"theft", "seasonal_variation"} ELSE {})
  \cup (IF Cardinality({i \in LastOf(w, 5) : MayBePositive(w, i)}) >= 4
        THEN {"leak"} ELSE {})
  \cup (IF Len(w) >= 4 /\ \A i \in LastOf(w, 10) : w[i].value = "finite"
        THEN {"sensor_fault"} ELSE {})

-----------------------------------------------------------------------------
(* A diagnosis *)

WeatherReadings(m) == {i \in DOMAIN readings[m] : readings[m][i].weather}

\* Mutant of Fitted: a model that was fitted is kept.
FittedOnce(m) ==
  IF Cardinality(WeatherReadings(m)) < FitSize \/ coefficients[m] # "none"
  THEN coefficients[m]
  ELSE IF \A i \in WeatherReadings(m) : readings[m][i].value = "finite"
       THEN "finite" ELSE "not finite"

\* fit_weather_model: with too few weather readings the old model stays.  The
\* intercept takes in the mean of the values, so it is finite if they are.
Fitted(m) ==
  IF Cardinality(WeatherReadings(m)) < FitSize THEN coefficients[m]
  ELSE IF \A i \in WeatherReadings(m) : readings[m][i].value = "finite"
       THEN "finite" ELSE "not finite"

Answered(m, status, sound, cause) ==
  answer' = [status |-> status, meter |-> m, sound |-> sound, cause |-> cause]

\* The mutex is poisoned: 500, whatever meter is asked for.
Refuse(m) ==
  /\ poisoned
  /\ Answered(m, "500", TRUE, "none")
  /\ UNCHANGED <<clock, readings, coefficients, poisoned, cutoff, ordered>>

\* No reading yet: 404.
NotFound(m) ==
  /\ ~ poisoned
  /\ readings[m] = << >>
  /\ Answered(m, "404", TRUE, "none")
  /\ UNCHANGED <<clock, readings, coefficients, poisoned, cutoff, ordered>>

\* The fit is kept, the request dies and the mutex is poisoned.
Panic(m) ==
  /\ ~ poisoned
  /\ readings[m] # << >>
  /\ MayPanic(readings[m])
  /\ coefficients' = [coefficients EXCEPT ![m] = Fitted(m)]
  /\ poisoned' = TRUE
  /\ answer' = NoAnswer
  /\ UNCHANGED <<clock, readings, cutoff, ordered>>

\* get_diagnostics: fit, then analyze.  The window is not pruned here.
Diagnose(m) ==
  LET w == readings[m] IN
  /\ ~ poisoned
  /\ w # << >>
  /\ ~ MustPanic(w)
  /\ coefficients' = [coefficients EXCEPT ![m] = Fitted(m)]
  /\ \E cause \in CausesOf(w, Fitted(m)) :
       Answered(m, "ok", Sound(w, Fitted(m)), cause)
  /\ UNCHANGED <<clock, readings, poisoned, cutoff, ordered>>

GetDiagnostics(m) == Refuse(m) \/ NotFound(m) \/ Panic(m) \/ Diagnose(m)

Readings == [at : 0 .. MaxClock, value : Values, weather : BOOLEAN]

Next ==
  \/ Tick
  \/ \E m \in Meters : GetDiagnostics(m)
  \/ \E m \in Meters, k \in Kinds, t \in 0 .. clock :
       Ingest(m, [at |-> t, value |-> k.value, weather |-> k.weather])

Spec == Init /\ [][Next]_vars

-----------------------------------------------------------------------------
Answers == [status : {"none", "ok", "404", "500"}, meter : Meters \cup {"none"},
            sound : BOOLEAN, cause : Causes \cup {"none"}]

\* Every variable has its type.
TypeOK ==
  /\ clock \in 0 .. MaxClock
  /\ readings \in [Meters -> Seq(Readings)]
  /\ Cardinality(Stored) <= MaxReadings
  /\ coefficients \in [Meters -> {"none", "finite", "not finite"}]
  /\ poisoned \in BOOLEAN
  /\ answer \in Answers
  /\ cutoff \in [Meters -> Int]
  /\ ordered \in [Meters -> BOOLEAN]

\* "Readings older than history_window_days are pruned" (analytics.rs:160) is
\* true of every reading but the one just ingested as long as the meter's
\* readings arrive in the order of their times; one that arrives late may stay
\* as long as a newer one is in front of it (analytics.rs:164-170).
OldReadingsOnlyOutOfOrder ==
  \A m \in Meters : ordered[m] =>
    \A i \in 1 .. Len(readings[m]) - 1 : readings[m][i].at >= cutoff[m]

\* A diagnosis that compares with something that is not finite has its reason
\* in a bad reading that is still in the window, or was when the weather model
\* was last fitted: and then there have been too few weather readings since to
\* fit it again (analytics.rs:194-214, 355-365, 480).
UnsoundOnlyByBadReading ==
  ~ answer.sound =>
    LET m == answer.meter IN
    \/ \E i \in DOMAIN readings[m] : readings[m][i].value # "finite"
    \/ /\ coefficients[m] = "not finite"
       /\ Cardinality(WeatherReadings(m)) < FitSize

\* The service refuses diagnoses of all meters only because the window of some
\* meter holds an infinite reading beside another one of its month, or a bad
\* reading so far back that a long sort met it (analytics.rs:299, 426).
RefusalNeedsBadReading ==
  answer.status = "500" =>
    \E m \in Meters :
      LET w == readings[m] IN
      \/ \E i, j \in DOMAIN w :
           i # j /\ w[i].value \in Infinite /\ Month[w[i].at] = Month[w[j].at]
      \/ /\ Len(w) - MaxSpan > SortLimit
         /\ \E i \in DOMAIN w : w[i].value # "finite"
=============================================================================
