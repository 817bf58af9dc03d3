------------------------------ MODULE DriftPool ------------------------------
(***************************************************************************)
(* The drift calibration service of src/src/time_series/drift.rs.          *)
(*                                                                         *)
(* Callers (HTTP handlers, ingest code) put commands on a bounded channel  *)
(* and wait on a oneshot for the answer.  ONE worker task takes commands   *)
(* off the channel and reads and writes the map of calibrations; a second  *)
(* task, the reconciliation loop, wakes up every six hours, copies the map *)
(* and writes the aged drift back, one meter at a time.                    *)
(*                                                                         *)
(* Steps are cut at the .await points: what a task does between two awaits *)
(* under one lock is one action.  A meter's calibration is abstracted to   *)
(* its accumulated drift; temp_coefficient never changes after insertion,  *)
(* meter_class and last_calibration are never read back.                   *)
(***************************************************************************)
EXTENDS Integers, Sequences, FiniteSets

CONSTANTS
  Requests,    \* calls made on the pool; each one is a task and a oneshot
  Meters,      \* meter identifiers
  None,        \* neither a request nor a meter
  Capacity,    \* DRIFT_CHANNEL_CAPACITY
  DriftStep,   \* drift added by one reconciliation, in ppb (5 in the code)
  DriftCap,    \* ceiling of the accumulated drift (500 000 in the code)
  MaxRounds    \* bound on the reconciliation rounds explored

ASSUME DriftAssumption ==
  /\ None \notin Requests \cup Meters
  /\ Capacity \in Nat \ {0}
  /\ DriftStep \in Nat
  /\ DriftCap \in Nat
  /\ MaxRounds \in Nat

VARIABLES
  pc,          \* where each call is
  cmd,         \* the command each call carries
  reply,       \* the oneshot slot, then the value the call returned
  queue,       \* the channel: requests whose command waits for the worker
  workerPc,    \* where the worker task is
  current,     \* the request the worker is serving
  result,      \* the answer it has computed and not sent yet
  calibrated,  \* keys of the calibrations map
  drift,       \* accumulated_drift_ppb of every key
  processed,   \* metrics.total_readings_processed
  snapshot,    \* the reconciliation loop's copy of the map ...
  todo,        \* ... and the meters of the copy not written back yet
  rounds,      \* reconciliation rounds started
  pool,        \* "up", "dropped" (the handle is gone), "down" (runtime ended)
  ideal,       \* history: the drift if every round aged the CURRENT value
  raced,       \* history: meters reset after the running round copied them
  seen         \* history: readings answered before each get_metrics call

callVars    == <<pc, cmd, reply, seen>>
workerVars  == <<workerPc, current, result, processed>>
mapVars     == <<calibrated, drift, ideal, raced>>
roundVars   == <<snapshot, todo, rounds>>
vars == <<callVars, queue, workerVars, mapVars, roundVars, pool>>

-----------------------------------------------------------------------------
(* Commands and answers *)

NoCommand == [op |-> "none", meter |-> None]

Commands ==
  [op : {"process", "recalibrate"}, meter : Meters]
    \cup [op : {"metrics"}, meter : {None}]

NoReply      == [kind |-> "none"]
Raw          == [kind |-> "raw"]          \* first reading: returned unchanged
Corrected(d) == [kind |-> "corrected", drift |-> d]
Recalibrated == [kind |-> "recalibrated", drift |-> 0]
Metrics(p, a, q) ==
  [kind |-> "metrics", processed |-> p, active |-> a, depth |-> q]
Fallback     == [kind |-> "fallback"]     \* the closed-channel answer

Replies ==
  {NoReply, Raw, Recalibrated, Fallback}
    \cup {Corrected(d) : d \in 0 .. DriftCap}
    \cup [kind : {"metrics"}, processed : Nat, active : Nat, depth : Nat]

Waiting   == {r \in Requests : pc[r] = "waiting"}
InFlight  == {r \in Requests : pc[r] \in {"sending", "waiting"}}

\* Calls that came back with an answer the worker computed for a reading.
AnsweredReadings ==
  {r \in Requests : pc[r] = "done" /\ reply[r].kind \in {"raw", "corrected"}}

\* Somebody still holds the sending half of the request's oneshot.
SenderAlive(r) == current = r \/ \E i \in DOMAIN queue : queue[i] = r

Age(d) == IF d + DriftStep <= DriftCap THEN d + DriftStep ELSE DriftCap

-----------------------------------------------------------------------------
(* DriftWorkerPool::new *)

Init ==
  /\ pc = [r \in Requests |-> "idle"]
  /\ cmd = [r \in Requests |-> NoCommand]
  /\ reply = [r \in Requests |-> NoReply]
  /\ queue = << >>
  /\ workerPc = "recv"
  /\ current = None
  /\ result = NoReply
  /\ calibrated = {}
  /\ drift = [m \in Meters |-> 0]
  /\ processed = 0
  /\ snapshot = [m \in Meters |-> 0]
  /\ todo = {}
  /\ rounds = 0
  /\ pool = "up"
  /\ ideal = [m \in Meters |-> 0]
  /\ raced = {}
  /\ seen = [r \in Requests |-> 0]

-----------------------------------------------------------------------------
(* Callers: apply_drift_correction, recalibrate_meter, get_metrics *)

Start(r, c) ==
  /\ pool # "dropped"
  /\ pc[r] = "idle"
  /\ pc' = [pc EXCEPT ![r] = "sending"]
  /\ cmd' = [cmd EXCEPT ![r] = c]
  /\ seen' = [seen EXCEPT ![r] = IF c.op = "metrics"
                                  THEN Cardinality(AnsweredReadings) ELSE 0]
  /\ UNCHANGED <<reply, queue, workerVars, mapVars, roundVars, pool>>

\* Mutant of Send: an unbounded channel.
SendUnbounded(r) ==
  /\ pc[r] = "sending"
  /\ workerPc # "stopped"
  /\ queue' = Append(queue, r)
  /\ pc' = [pc EXCEPT ![r] = "waiting"]
  /\ UNCHANGED <<cmd, reply, seen, workerVars, mapVars, roundVars, pool>>

\* send().await completes once the channel has a free slot.
Send(r) ==
  /\ pc[r] = "sending"
  /\ workerPc # "stopped"
  /\ Len(queue) < Capacity
  /\ queue' = Append(queue, r)
  /\ pc' = [pc EXCEPT ![r] = "waiting"]
  /\ UNCHANGED <<cmd, reply, seen, workerVars, mapVars, roundVars, pool>>

\* The receiver is gone: the call returns its fallback value at once.
SendFails(r) ==
  /\ pc[r] = "sending"
  /\ workerPc = "stopped"
  /\ pc' = [pc EXCEPT ![r] = "done"]
  /\ reply' = [reply EXCEPT ![r] = Fallback]
  /\ UNCHANGED <<cmd, seen, queue, workerVars, mapVars, roundVars, pool>>

Receive(r) ==
  /\ pc[r] = "waiting"
  /\ reply[r] # NoReply
  /\ pc' = [pc EXCEPT ![r] = "done"]
  /\ UNCHANGED <<cmd, reply, seen, queue, workerVars, mapVars, roundVars, pool>>

\* The oneshot's sender was dropped unanswered: unwrap_or / ok().
ReceiveFails(r) ==
  /\ pc[r] = "waiting"
  /\ reply[r] = NoReply
  /\ ~SenderAlive(r)
  /\ pc' = [pc EXCEPT ![r] = "done"]
  /\ reply' = [reply EXCEPT ![r] = Fallback]
  /\ UNCHANGED <<cmd, seen, queue, workerVars, mapVars, roundVars, pool>>

\* The caller's future is dropped, for instance because the HTTP connection
\* closed.  A command already on the channel stays there.
Cancel(r) ==
  /\ r \in InFlight
  /\ pc' = [pc EXCEPT ![r] = "cancelled"]
  /\ reply' = [reply EXCEPT ![r] = NoReply]
  /\ UNCHANGED <<cmd, seen, queue, workerVars, mapVars, roundVars, pool>>

-----------------------------------------------------------------------------
(* The worker task: worker_loop, compute_correction, perform_recalibration *)

TakeCommand ==
  /\ workerPc = "recv"
  /\ queue # << >>
  /\ current' = Head(queue)
  /\ queue' = Tail(queue)
  /\ workerPc' = "handle"
  /\ UNCHANGED <<callVars, result, processed, mapVars, roundVars, pool>>

Serving(op) == workerPc = "handle" /\ cmd[current].op = op

\* respond.send: lost, without notice, if the caller has gone.
Respond(answer) ==
  /\ reply' = IF pc[current] = "waiting"
              THEN [reply EXCEPT ![current] = answer]
              ELSE reply
  /\ workerPc' = "recv"
  /\ current' = None
  /\ result' = NoReply
  /\ UNCHANGED <<pc, cmd, seen, queue>>

\* A calibration entry is (re)written with no accumulated drift.
ResetDrift(m) ==
  /\ calibrated' = calibrated \cup {m}
  /\ drift' = [drift EXCEPT ![m] = 0]
  /\ ideal' = [ideal EXCEPT ![m] = 0]
  /\ raced' = IF m \in todo THEN raced \cup {m} ELSE raced \ {m}

\* Mutant of CorrectReading: the answer comes from a stale copy of the map.
CorrectFromSnapshot ==
  /\ Serving("process")
  /\ cmd[current].meter \in calibrated
  /\ result' = Corrected(snapshot[cmd[current].meter])
  /\ workerPc' = "count"
  /\ UNCHANGED <<callVars, queue, current, processed, mapVars, roundVars, pool>>

\* compute_correction under the read lock: the entry is there ...
CorrectReading ==
  /\ Serving("process")
  /\ cmd[current].meter \in calibrated
  /\ result' = Corrected(drift[cmd[current].meter])
  /\ workerPc' = "count"
  /\ UNCHANGED <<callVars, queue, current, processed, mapVars, roundVars, pool>>

\* Mutant of MissReading: the read lock is kept, so the worker waits for itself.
MissHoldingTheReadLock ==
  /\ Serving("process")
  /\ cmd[current].meter \notin calibrated
  /\ workerPc' = "blocked"
  /\ UNCHANGED <<callVars, queue, current, result, processed, mapVars,
                 roundVars, pool>>

\* ... or not, and the read lock is dropped before the write lock is asked for.
MissReading ==
  /\ Serving("process")
  /\ cmd[current].meter \notin calibrated
  /\ workerPc' = "insert"
  /\ UNCHANGED <<callVars, queue, current, result, processed, mapVars,
                 roundVars, pool>>

\* Mutant of InsertCalibration: the entry is built and not inserted.
ForgetCalibration ==
  /\ workerPc = "insert"
  /\ result' = Raw
  /\ workerPc' = "count"
  /\ UNCHANGED <<callVars, queue, current, processed, mapVars, roundVars, pool>>

InsertCalibration ==
  /\ workerPc = "insert"
  /\ ResetDrift(cmd[current].meter)
  /\ result' = Raw
  /\ workerPc' = "count"
  /\ UNCHANGED <<callVars, queue, current, processed, roundVars, pool>>

\* Mutant of CountAndRespond: first readings return early, uncounted.
CountOnlyCorrected ==
  /\ workerPc = "count"
  /\ processed' = IF result = Raw THEN processed ELSE processed + 1
  /\ Respond(result)
  /\ UNCHANGED <<mapVars, roundVars, pool>>

CountAndRespond ==
  /\ workerPc = "count"
  /\ processed' = processed + 1
  /\ Respond(result)
  /\ UNCHANGED <<mapVars, roundVars, pool>>

\* Mutant of Recalibrate: the oneshot is dropped when the meter is unknown.
RecalibrateKnownOnly ==
  /\ Serving("recalibrate")
  /\ ResetDrift(cmd[current].meter)
  /\ IF cmd[current].meter \in calibrated
     THEN Respond(Recalibrated)
     ELSE /\ workerPc' = "recv"
          /\ current' = None
          /\ result' = NoReply
          /\ UNCHANGED <<pc, cmd, seen, queue, reply>>
  /\ UNCHANGED <<processed, roundVars, pool>>

Recalibrate ==
  /\ Serving("recalibrate")
  /\ ResetDrift(cmd[current].meter)
  /\ Respond(Recalibrated)
  /\ UNCHANGED <<processed, roundVars, pool>>

ReadMetrics ==
  /\ Serving("metrics")
  /\ Respond(Metrics(processed, Cardinality(calibrated), Len(queue)))
  /\ UNCHANGED <<processed, mapVars, roundVars, pool>>

\* recv() returns None once the handle is gone and the channel is drained.
WorkerExit ==
  /\ pool = "dropped"
  /\ workerPc = "recv"
  /\ queue = << >>
  /\ workerPc' = "stopped"
  /\ UNCHANGED <<callVars, queue, current, result, processed, mapVars,
                 roundVars, pool>>

-----------------------------------------------------------------------------
(* The reconciliation task: reconciliation_loop *)

\* Mutant of StartRound: the copy of an earlier round is used again.
StartRoundFromOldCopy ==
  /\ pool # "down"
  /\ todo = {}
  /\ rounds < MaxRounds
  /\ rounds' = rounds + 1
  /\ todo' = calibrated
  /\ UNCHANGED <<callVars, queue, workerVars, mapVars, snapshot, pool>>

StartRound ==
  /\ pool # "down"
  /\ todo = {}
  /\ rounds < MaxRounds
  /\ rounds' = rounds + 1
  /\ snapshot' = drift
  /\ todo' = calibrated
  /\ UNCHANGED <<callVars, queue, workerVars, mapVars, pool>>

\* The aged value is computed from the copy, not from the entry.
ApplyDrift(m) ==
  /\ m \in todo
  /\ todo' = todo \ {m}
  /\ drift' = IF m \in calibrated
              THEN [drift EXCEPT ![m] = Age(snapshot[m])]
              ELSE drift
  /\ ideal' = [ideal EXCEPT ![m] = Age(ideal[m])]
  /\ UNCHANGED <<callVars, queue, workerVars, calibrated, raced, snapshot,
                 rounds, pool>>

-----------------------------------------------------------------------------
(* The end of the pool *)

\* Every call borrows the pool, so it is dropped only between calls.
DropPool ==
  /\ pool = "up"
  /\ InFlight = {}
  /\ pool' = "dropped"
  /\ UNCHANGED <<callVars, queue, workerVars, mapVars, roundVars>>

\* The runtime that spawned the two tasks ends: both are dropped at an await,
\* and with them the channel's receiver and every oneshot sender they hold.
Shutdown ==
  /\ pool # "down"
  /\ pool' = "down"
  /\ workerPc' = "stopped"
  /\ queue' = << >>
  /\ current' = None
  /\ result' = NoReply
  /\ todo' = {}
  /\ UNCHANGED <<callVars, processed, mapVars, snapshot, rounds>>

-----------------------------------------------------------------------------
Call(r) ==
  \/ \E c \in Commands : Start(r, c)
  \/ Send(r)
  \/ SendFails(r)
  \/ Receive(r)
  \/ ReceiveFails(r)
  \/ Cancel(r)

Worker ==
  \/ TakeCommand
  \/ CorrectReading
  \/ MissReading
  \/ InsertCalibration
  \/ CountAndRespond
  \/ Recalibrate
  \/ ReadMetrics
  \/ WorkerExit

Reconcile ==
  \/ StartRound
  \/ \E m \in Meters : ApplyDrift(m)

Next ==
  \/ \E r \in Requests : Call(r)
  \/ Worker
  \/ Reconcile
  \/ DropPool
  \/ Shutdown

Spec == Init /\ [][Next]_vars

\* The runtime polls a woken task: the worker, and a call that can go on.
\* Calls are not obliged to start, nor the pool to end, nor the timer to fire.
Fairness ==
  /\ WF_vars(Worker)
  /\ WF_vars(\E m \in Meters : ApplyDrift(m))
  /\ \A r \in Requests :
       WF_vars(Send(r) \/ SendFails(r) \/ Receive(r) \/ ReceiveFails(r))

FairSpec == Spec /\ Fairness

-----------------------------------------------------------------------------
\* Every variable has its type; the channel never exceeds its capacity.
TypeOK ==
  /\ pc \in [Requests -> {"idle", "sending", "waiting", "done", "cancelled"}]
  /\ cmd \in [Requests -> Commands \cup {NoCommand}]
  /\ reply \in [Requests -> Replies]
  /\ queue \in Seq(Requests)
  /\ Len(queue) <= Capacity
  /\ workerPc \in {"recv", "handle", "insert", "count", "stopped"}
  /\ current \in Requests \cup {None}
  /\ result \in Replies
  /\ calibrated \in SUBSET Meters
  /\ drift \in [Meters -> 0 .. DriftCap]
  /\ processed \in Nat
  /\ snapshot \in [Meters -> 0 .. DriftCap]
  /\ todo \in SUBSET Meters
  /\ rounds \in 0 .. MaxRounds
  /\ pool \in {"up", "dropped", "down"}
  /\ ideal \in [Meters -> 0 .. DriftCap]
  /\ raced \in SUBSET Meters
  /\ seen \in [Requests -> Nat]
-----------------------------------------------------------------------------
(* Safety *)

\* No call falls back to its default answer while the runtime is alive: an
\* uncorrected reading, a 500 from the calibrate endpoint or all-zero metrics
\* always mean that the worker was shut down (drift.rs:128-137, 143-152,
\* 158-177), never a command dropped on the way.
FallbackOnlyWhenDown ==
  \A r \in Requests : reply[r] = Fallback => pool = "down"

\* A meter's drift is what ageing its own value once per round gives, unless
\* the meter was reset while a running round already held a copy of it: the
\* copy is the ONLY way the reconciliation loop (drift.rs:299-309) and the
\* worker can disagree.
DriftIsAgedOncePerRound ==
  \A m \in calibrated : m \in raced \/ drift[m] = ideal[m]

\* A recalibration is never undone: after the worker wrote a drift of 0 and
\* reported it (drift.rs:259-269), the drift only grows by the rounds applied
\* since.  The reconciliation loop writes back a value copied BEFORE.
RecalibrationSticks ==
  \A m \in calibrated : drift[m] = ideal[m]

\* At most one reading of a meter is ever answered uncorrected because the
\* meter was new, although the lookup and the insertion of compute_correction
\* run under two different locks (drift.rs:227-249).
OneRawReadingPerMeter ==
  \A r1, r2 \in Requests :
    /\ reply[r1] = Raw
    /\ reply[r2] = Raw
    /\ cmd[r1].meter = cmd[r2].meter
    => r1 = r2

\* The metrics a caller gets count every reading that was answered before the
\* caller asked, to itself or to anybody else: the counter is bumped before
\* the answer is sent (drift.rs:193-198).
MetricsCoverAnsweredReadings ==
  \A r \in Requests :
    reply[r].kind = "metrics" => reply[r].processed >= seen[r]

\* In the 120 rounds of a 30-day cycle the drift stays within the 500 ppb that
\* the comment at drift.rs:305 promises.
DriftWithin500PpbPerCycle ==
  rounds <= 120 => \A m \in calibrated : drift[m] <= 500

-----------------------------------------------------------------------------
(* Liveness *)

\* Every call comes back, answered, failed or given up by its caller, whatever
\* the backlog, and also when the worker disappears under it.
EveryCallReturns ==
  \A r \in Requests : (r \in InFlight) ~> (r \notin InFlight)

-----------------------------------------------------------------------------
(* Refinement: calls are linearizable *)

\* The command of r has not taken effect: it is being sent, it is on the
\* channel, or the worker holds it and has not touched the map for it.
NoEffectYet(r) ==
  \/ pc[r] = "sending"
  \/ \E i \in DOMAIN queue : queue[i] = r
  \/ current = r /\ workerPc \in {"handle", "insert"}

\* An answer computed and not sent yet (workerPc = "count") already stands.
PromisedAnswer(r) ==
  IF current = r /\ workerPc = "count" /\ pc[r] = "waiting"
  THEN result
  ELSE reply[r]

Service == INSTANCE DriftService WITH
  pc <- [r \in Requests |-> IF pc[r] = "sending" THEN "waiting" ELSE pc[r]],
  answer <- [r \in Requests |-> PromisedAnswer(r)],
  pending <- {r \in Requests : NoEffectYet(r)},
  readings <- IF pool = "down" THEN 0
              ELSE IF workerPc = "count" THEN processed + 1 ELSE processed,
  up <- (pool # "down")

\* Channel, worker and locks together give every caller an atomic service.
ServiceSpec == Service!Spec
=============================================================================
