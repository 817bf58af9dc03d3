--------------------------- MODULE DriftPoolProofs ---------------------------
(***************************************************************************)
(* Proofs about DriftPool, for every set of calls and of meters, every     *)
(* channel capacity, every drift step and every number of rounds.          *)
(***************************************************************************)
EXTENDS DriftPool, FiniteSetTheorems, TLAPS

-----------------------------------------------------------------------------
(* The inductive invariant of the types *)

\* A call that has started carries a command, and what the channel and the
\* worker hold are calls that have started.
HeldCallsStarted ==
  /\ \A r \in Requests : pc[r] # "idle" => cmd[r] \in Commands
  /\ \A i \in 1 .. Len(queue) : pc[queue[i]] # "idle"
  /\ current \in Requests => pc[current] # "idle"

\* The worker serves a call in every state but "recv" and "stopped", and only
\* a reading makes it insert a calibration.
WorkerServes ==
  /\ workerPc \in {"handle", "insert", "count"} => current \in Requests
  /\ workerPc = "insert" => cmd[current].op = "process"

\* The map of calibrations, and the set of answered readings, are finite.
FiniteData ==
  /\ IsFiniteSet(calibrated)
  /\ IsFiniteSet(AnsweredReadings)

TypeInv == TypeOK /\ HeldCallsStarted /\ WorkerServes /\ FiniteData

-----------------------------------------------------------------------------
(* Lemmas about the operators *)

LEMMA AgeType ==
  ASSUME NEW d \in 0 .. DriftCap
  PROVE  Age(d) \in 0 .. DriftCap
BY DriftAssumption DEF Age

LEMMA CommandMeter ==
  ASSUME NEW c \in Commands, c.op # "metrics"
  PROVE  c.meter \in Meters
BY DEF Commands

LEMMA RepliesType ==
  /\ NoReply \in Replies
  /\ Raw \in Replies
  /\ Recalibrated \in Replies
  /\ Fallback \in Replies
  /\ \A d \in 0 .. DriftCap : Corrected(d) \in Replies
  /\ \A p, a, q \in Nat : Metrics(p, a, q) \in Replies
BY DEF Replies, Metrics

\* A call that returns adds at most itself to the answered readings.
LEMMA AnsweredGrowsByOne ==
  ASSUME NEW r \in Requests,
         IsFiniteSet(AnsweredReadings),
         \A q \in Requests \ {r} : pc'[q] = pc[q] /\ reply'[q] = reply[q]
  PROVE  IsFiniteSet(AnsweredReadings')
<1>1. IsFiniteSet(AnsweredReadings \cup {r})
  BY FS_AddElement
<1>2. AnsweredReadings' \subseteq AnsweredReadings \cup {r}
  BY DEF AnsweredReadings
<1> QED
  BY <1>1, <1>2, FS_Subset

\* What a reset does to the map.
LEMMA ResetDriftType ==
  ASSUME TypeInv, NEW m \in Meters, ResetDrift(m)
  PROVE  /\ calibrated' \in SUBSET Meters
         /\ drift' \in [Meters -> 0 .. DriftCap]
         /\ ideal' \in [Meters -> 0 .. DriftCap]
         /\ raced' \in SUBSET Meters
         /\ IsFiniteSet(calibrated')
<1>1. IsFiniteSet(calibrated \cup {m})
  BY FS_AddElement DEF TypeInv, FiniteData
<1> QED
  BY <1>1, DriftAssumption DEF TypeInv, TypeOK, ResetDrift

\* Sending an answer keeps the types, whatever the answer.
LEMMA RespondType ==
  ASSUME TypeInv, NEW a \in Replies, Respond(a), current \in Requests
  PROVE  /\ reply' \in [Requests -> Replies]
         /\ workerPc' = "recv"
         /\ current' = None
         /\ result' \in Replies
         /\ UNCHANGED <<pc, cmd, seen, queue>>
         /\ IsFiniteSet(AnsweredReadings')
<1>1. \A q \in Requests \ {current} : pc'[q] = pc[q] /\ reply'[q] = reply[q]
  BY DEF Respond, TypeInv, TypeOK
<1>2. IsFiniteSet(AnsweredReadings')
  BY <1>1, AnsweredGrowsByOne DEF TypeInv, FiniteData
<1> QED
  BY <1>2, RepliesType DEF Respond, TypeInv, TypeOK

-----------------------------------------------------------------------------
(* Type correctness *)

LEMMA TypeInit == Init => TypeInv
<1> SUFFICES ASSUME Init PROVE TypeInv
  OBVIOUS
<1>1. TypeOK
  BY DriftAssumption, RepliesType DEF Init, TypeOK
<1>2. HeldCallsStarted /\ WorkerServes
  BY DriftAssumption DEF Init, HeldCallsStarted, WorkerServes
<1>3. FiniteData
  <2>1. AnsweredReadings = {}
    BY DEF Init, AnsweredReadings
  <2> QED
    BY <2>1, FS_EmptySet DEF Init, FiniteData
<1> QED
  BY <1>1, <1>2, <1>3 DEF TypeInv

\* What the callers do keeps the invariant.
LEMMA TypeCalls ==
  ASSUME TypeInv, NEW r \in Requests, Call(r)
  PROVE  TypeInv'
<1> USE DriftAssumption, RepliesType
<1>1. ASSUME NEW c \in Commands, Start(r, c)
      PROVE  TypeInv'
  <2>1. Cardinality(AnsweredReadings) \in Nat
    BY FS_CardinalityType DEF TypeInv, FiniteData
  <2>2. TypeOK'
    BY <1>1, <2>1 DEF Start, TypeInv, TypeOK, workerVars, mapVars, roundVars
  <2>3. HeldCallsStarted' /\ WorkerServes'
    BY <1>1 DEF Start, TypeInv, TypeOK, HeldCallsStarted, WorkerServes,
                workerVars, mapVars, roundVars
  <2>4. FiniteData'
    <3>1. \A q \in Requests \ {r} : pc'[q] = pc[q] /\ reply'[q] = reply[q]
      BY <1>1 DEF Start, TypeInv, TypeOK
    <3> QED
      BY <1>1, <3>1, AnsweredGrowsByOne
      DEF Start, TypeInv, FiniteData, mapVars
  <2> QED
    BY <2>2, <2>3, <2>4 DEF TypeInv
<1>2. CASE Send(r)
  <2>1. TypeOK'
    BY <1>2 DEF Send, TypeInv, TypeOK, workerVars, mapVars, roundVars
  <2>2. HeldCallsStarted' /\ WorkerServes'
    BY <1>2 DEF Send, TypeInv, TypeOK, HeldCallsStarted, WorkerServes,
                workerVars, mapVars, roundVars
  <2>3. FiniteData'
    <3>1. \A q \in Requests \ {r} : pc'[q] = pc[q] /\ reply'[q] = reply[q]
      BY <1>2 DEF Send, TypeInv, TypeOK
    <3> QED
      BY <1>2, <3>1, AnsweredGrowsByOne
      DEF Send, TypeInv, FiniteData, mapVars
  <2> QED
    BY <2>1, <2>2, <2>3 DEF TypeInv
<1>3. CASE SendFails(r) \/ Receive(r) \/ ReceiveFails(r) \/ Cancel(r)
  <2>1. TypeOK'
    <3>1. reply' \in [Requests -> Replies]
      BY <1>3 DEF SendFails, Receive, ReceiveFails, Cancel, TypeInv, TypeOK
    <3>2. pc' \in [Requests -> {"idle", "sending", "waiting", "done",
                                "cancelled"}]
      BY <1>3 DEF SendFails, Receive, ReceiveFails, Cancel, TypeInv, TypeOK
    <3>3. UNCHANGED <<cmd, seen, queue, workerVars, mapVars, roundVars, pool>>
      BY <1>3 DEF SendFails, Receive, ReceiveFails, Cancel
    <3> QED
      BY <3>1, <3>2, <3>3
      DEF TypeInv, TypeOK, workerVars, mapVars, roundVars
  <2>2. HeldCallsStarted' /\ WorkerServes'
    BY <1>3 DEF SendFails, Receive, ReceiveFails, Cancel, InFlight, TypeInv,
                TypeOK, HeldCallsStarted, WorkerServes, workerVars, mapVars,
                roundVars
  <2>3. FiniteData'
    <3>1. \A q \in Requests \ {r} : pc'[q] = pc[q] /\ reply'[q] = reply[q]
      BY <1>3 DEF SendFails, Receive, ReceiveFails, Cancel, TypeInv, TypeOK
    <3>2. calibrated' = calibrated
      BY <1>3 DEF SendFails, Receive, ReceiveFails, Cancel, mapVars
    <3> QED
      BY <3>1, <3>2, AnsweredGrowsByOne DEF TypeInv, FiniteData
  <2> QED
    BY <2>1, <2>2, <2>3 DEF TypeInv
<1> QED
  BY <1>1, <1>2, <1>3 DEF Call

\* What the worker does keeps the invariant.
LEMMA TypeWorker ==
  ASSUME TypeInv, Worker
  PROVE  TypeInv'
<1> USE DriftAssumption, RepliesType
<1>1. CASE TakeCommand
  <2>1. TypeOK'
    BY <1>1 DEF TakeCommand, TypeInv, TypeOK, callVars, mapVars, roundVars
  <2>2. HeldCallsStarted'
    BY <1>1 DEF TakeCommand, TypeInv, TypeOK, HeldCallsStarted, callVars
  <2>3. WorkerServes'
    BY <1>1 DEF TakeCommand, TypeInv, TypeOK, WorkerServes
  <2>4. FiniteData'
    BY <1>1 DEF TakeCommand, TypeInv, FiniteData, AnsweredReadings, callVars,
                mapVars
  <2> QED
    BY <2>1, <2>2, <2>3, <2>4 DEF TypeInv
<1>2. CASE CorrectReading \/ MissReading \/ WorkerExit
  <2>1. ASSUME CorrectReading
        PROVE  result' \in Replies
    <3>1. cmd[current] \in Commands /\ cmd[current].op = "process"
      BY <2>1 DEF CorrectReading, Serving, TypeInv, HeldCallsStarted,
                  WorkerServes
    <3>2. cmd[current].meter \in Meters
      BY <3>1, CommandMeter
    <3> QED
      BY <2>1, <3>2 DEF CorrectReading, TypeInv, TypeOK
  <2>2. TypeOK'
    BY <1>2, <2>1 DEF CorrectReading, MissReading, WorkerExit, TypeInv,
                      TypeOK, callVars, mapVars, roundVars
  <2>3. HeldCallsStarted' /\ WorkerServes'
    BY <1>2 DEF CorrectReading, MissReading, WorkerExit, Serving, TypeInv,
                HeldCallsStarted, WorkerServes, callVars
  <2>4. FiniteData'
    BY <1>2 DEF CorrectReading, MissReading, WorkerExit, TypeInv, FiniteData,
                AnsweredReadings, callVars, mapVars
  <2> QED
    BY <2>2, <2>3, <2>4 DEF TypeInv
<1>3. CASE InsertCalibration
  <2>1. cmd[current].meter \in Meters
    BY <1>3, CommandMeter
    DEF InsertCalibration, TypeInv, HeldCallsStarted, WorkerServes
  <2>2. TypeOK'
    BY <1>3, <2>1, ResetDriftType
    DEF InsertCalibration, TypeInv, TypeOK, callVars, roundVars
  <2>3. HeldCallsStarted' /\ WorkerServes'
    BY <1>3 DEF InsertCalibration, TypeInv, HeldCallsStarted, WorkerServes,
                callVars
  <2>4. FiniteData'
    BY <1>3, <2>1, ResetDriftType
    DEF InsertCalibration, TypeInv, FiniteData, AnsweredReadings, callVars
  <2> QED
    BY <2>2, <2>3, <2>4 DEF TypeInv
<1>4. CASE CountAndRespond
  <2>1. current \in Requests /\ result \in Replies /\ Respond(result)
    BY <1>4 DEF CountAndRespond, TypeInv, TypeOK, WorkerServes
  <2>2. TypeOK'
    BY <1>4, <2>1, RespondType
    DEF CountAndRespond, TypeInv, TypeOK, mapVars, roundVars
  <2>3. HeldCallsStarted' /\ WorkerServes'
    BY <2>1, RespondType DEF TypeInv, HeldCallsStarted, WorkerServes
  <2>4. FiniteData'
    BY <1>4, <2>1, RespondType
    DEF CountAndRespond, TypeInv, FiniteData, mapVars
  <2> QED
    BY <2>2, <2>3, <2>4 DEF TypeInv
<1>5. CASE Recalibrate
  <2>1. current \in Requests /\ Respond(Recalibrated)
    BY <1>5 DEF Recalibrate, Serving, TypeInv, WorkerServes
  <2>2. cmd[current].meter \in Meters /\ ResetDrift(cmd[current].meter)
    BY <1>5, <2>1, CommandMeter
    DEF Recalibrate, Serving, TypeInv, HeldCallsStarted, WorkerServes
  <2>3. TypeOK'
    BY <1>5, <2>1, <2>2, RespondType, ResetDriftType
    DEF Recalibrate, TypeInv, TypeOK, roundVars
  <2>4. HeldCallsStarted' /\ WorkerServes'
    BY <2>1, RespondType DEF TypeInv, HeldCallsStarted, WorkerServes
  <2>5. FiniteData'
    BY <2>1, <2>2, RespondType, ResetDriftType DEF FiniteData
  <2> QED
    BY <2>3, <2>4, <2>5 DEF TypeInv
<1>6. CASE ReadMetrics
  <2> DEFINE a == Metrics(processed, Cardinality(calibrated), Len(queue))
  <2>1. a \in Replies
    BY FS_CardinalityType DEF TypeInv, FiniteData, TypeOK
  <2>2. current \in Requests /\ Respond(a)
    BY <1>6 DEF ReadMetrics, Serving, TypeInv, WorkerServes
  <2> HIDE DEF a
  <2>3. TypeOK'
    BY <1>6, <2>1, <2>2, RespondType
    DEF ReadMetrics, TypeInv, TypeOK, mapVars, roundVars
  <2>4. HeldCallsStarted' /\ WorkerServes'
    BY <2>1, <2>2, RespondType DEF TypeInv, HeldCallsStarted, WorkerServes
  <2>5. FiniteData'
    BY <1>6, <2>1, <2>2, RespondType
    DEF ReadMetrics, TypeInv, FiniteData, mapVars
  <2> QED
    BY <2>3, <2>4, <2>5 DEF TypeInv
<1> QED
  BY <1>1, <1>2, <1>3, <1>4, <1>5, <1>6 DEF Worker

\* The reconciliation loop and the end of the pool keep the invariant too.
LEMMA TypeOthers ==
  ASSUME TypeInv, Reconcile \/ DropPool \/ Shutdown
  PROVE  TypeInv'
<1> USE DriftAssumption, RepliesType
<1>1. CASE StartRound
  BY <1>1 DEF StartRound, TypeInv, TypeOK, HeldCallsStarted, WorkerServes,
              FiniteData, AnsweredReadings, callVars, workerVars, mapVars
<1>2. ASSUME NEW m \in Meters, ApplyDrift(m)
      PROVE  TypeInv'
  <2>1. Age(snapshot[m]) \in 0 .. DriftCap /\ Age(ideal[m]) \in 0 .. DriftCap
    BY AgeType DEF TypeInv, TypeOK
  <2>2. TypeOK'
    BY <1>2, <2>1 DEF ApplyDrift, TypeInv, TypeOK, callVars, workerVars
  <2>3. HeldCallsStarted' /\ WorkerServes' /\ FiniteData'
    BY <1>2 DEF ApplyDrift, TypeInv, HeldCallsStarted, WorkerServes,
                FiniteData, AnsweredReadings, callVars, workerVars
  <2> QED
    BY <2>2, <2>3 DEF TypeInv
<1>3. CASE DropPool
  BY <1>3 DEF DropPool, TypeInv, TypeOK, HeldCallsStarted, WorkerServes,
              FiniteData, AnsweredReadings, callVars, workerVars, mapVars,
              roundVars
<1>4. CASE Shutdown
  BY <1>4 DEF Shutdown, TypeInv, TypeOK, HeldCallsStarted, WorkerServes,
              FiniteData, AnsweredReadings, callVars, mapVars
<1> QED
  BY <1>1, <1>2, <1>3, <1>4 DEF Reconcile

LEMMA TypeStep == TypeInv /\ [Next]_vars => TypeInv'
<1> SUFFICES ASSUME TypeInv, [Next]_vars PROVE TypeInv'
  OBVIOUS
<1>1. CASE UNCHANGED vars
  BY <1>1 DEF vars, callVars, workerVars, mapVars, roundVars, TypeInv, TypeOK,
              HeldCallsStarted, WorkerServes, FiniteData, AnsweredReadings
<1>2. CASE Next
  BY <1>2, TypeCalls, TypeWorker, TypeOthers DEF Next
<1> QED
  BY <1>1, <1>2

LEMMA TypeInvariant == Spec => []TypeInv
BY TypeInit, TypeStep, PTL DEF Spec

\* Every reachable state is well typed and the channel never holds more than
\* Capacity commands (drift.rs:83), however many calls are made.
THEOREM TypeCorrect == Spec => []TypeOK
<1>1. TypeInv => TypeOK
  BY DEF TypeInv
<1> QED
  BY <1>1, TypeInvariant, PTL

-----------------------------------------------------------------------------
(* The drift of a meter and the copy of the reconciliation loop *)

\* Unless the meter was reset after the running round copied it, the copy of a
\* meter not written back yet still equals the entry.
CopyIsFresh ==
  /\ todo \subseteq calibrated
  /\ \A m \in todo : m \in raced \/ snapshot[m] = drift[m]

DriftInv == DriftIsAgedOncePerRound /\ CopyIsFresh

LEMMA ResetDriftKeepsDriftInv ==
  ASSUME TypeOK, DriftInv, NEW m \in Meters, ResetDrift(m),
         UNCHANGED <<todo, snapshot>>
  PROVE  DriftInv'
BY DEF TypeOK, DriftInv, DriftIsAgedOncePerRound, CopyIsFresh, ResetDrift

LEMMA DriftStepLemma == TypeInv /\ DriftInv /\ [Next]_vars => DriftInv'
<1> SUFFICES ASSUME TypeInv, DriftInv, [Next]_vars
             PROVE  DriftInv'
  OBVIOUS
<1> TypeOK
  BY DEF TypeInv
<1> USE DEF DriftInv, DriftIsAgedOncePerRound, CopyIsFresh
<1>1. CASE UNCHANGED <<calibrated, drift, ideal, raced, snapshot, todo>>
  BY <1>1
<1>2. ASSUME NEW r \in Requests, Call(r)
      PROVE  DriftInv'
  <2>1. UNCHANGED <<mapVars, roundVars>>
    BY <1>2 DEF Call, Start, Send, SendFails, Receive, ReceiveFails, Cancel
  <2> QED
    BY <1>1, <2>1 DEF mapVars, roundVars
<1>3. CASE Worker
  <2>1. CASE InsertCalibration
    <3>1. cmd[current].meter \in Meters
      BY <2>1, CommandMeter
      DEF InsertCalibration, TypeInv, HeldCallsStarted, WorkerServes
    <3> QED
      BY <2>1, <3>1, ResetDriftKeepsDriftInv DEF InsertCalibration, roundVars
  <2>2. CASE Recalibrate
    <3>1. cmd[current].meter \in Meters
      BY <2>2, CommandMeter
      DEF Recalibrate, Serving, TypeInv, HeldCallsStarted, WorkerServes
    <3> QED
      BY <2>2, <3>1, ResetDriftKeepsDriftInv DEF Recalibrate, roundVars
  <2>3. CASE \/ TakeCommand \/ CorrectReading \/ MissReading
             \/ CountAndRespond \/ ReadMetrics \/ WorkerExit
    <3>1. UNCHANGED <<mapVars, roundVars>>
      BY <2>3 DEF TakeCommand, CorrectReading, MissReading, CountAndRespond,
                  ReadMetrics, WorkerExit
    <3> QED
      BY <1>1, <3>1 DEF mapVars, roundVars
  <2> QED
    BY <1>3, <2>1, <2>2, <2>3 DEF Worker
<1>4. CASE StartRound
  BY <1>4 DEF StartRound, mapVars, TypeOK
<1>5. ASSUME NEW m \in Meters, ApplyDrift(m)
      PROVE  DriftInv'
  BY <1>5 DEF ApplyDrift, TypeOK
<1>6. CASE DropPool
  BY <1>1, <1>6 DEF DropPool, mapVars, roundVars
<1>7. CASE Shutdown
  BY <1>7 DEF Shutdown, mapVars
<1>8. CASE UNCHANGED vars
  BY <1>1, <1>8 DEF vars, mapVars, roundVars
<1> QED
  BY <1>2, <1>3, <1>4, <1>5, <1>6, <1>7, <1>8 DEF Next, Reconcile

LEMMA DriftInvariant == Spec => []DriftInv
<1>1. Init => DriftInv
  BY DEF Init, DriftInv, DriftIsAgedOncePerRound, CopyIsFresh
<1> QED
  BY <1>1, DriftStepLemma, TypeInvariant, PTL DEF Spec

\* However many meters, calls and rounds there are, the drift of a meter is
\* its own value aged once per round, except for the meters recalibrated or
\* inserted between the copy and the write-back of a round (drift.rs:299-309).
THEOREM DriftIsAgedOncePerRoundAlways == Spec => []DriftIsAgedOncePerRound
<1>1. DriftInv => DriftIsAgedOncePerRound
  BY DEF DriftInv
<1> QED
  BY <1>1, DriftInvariant, PTL

-----------------------------------------------------------------------------
(* No command is dropped on the way *)

\* While the runtime is alive, somebody who will answer holds every call that
\* waits; the worker stops only when nobody can call any more.
AnswerComes ==
  /\ pool # "down" =>
       \A r \in Waiting : reply[r] = NoReply => SenderAlive(r)
  /\ workerPc = "stopped" => pool # "up"
  /\ pool = "dropped" => InFlight = {}
  /\ current # None => workerPc \in {"handle", "insert", "count"}
  /\ workerPc = "count" => result \notin {NoReply, Fallback}
  /\ result # Fallback

AnswerInv == AnswerComes /\ FallbackOnlyWhenDown

\* The possible answers differ from the empty slot and from the fallback.
LEMMA AnswersDiffer ==
  /\ Raw \notin {NoReply, Fallback}
  /\ Recalibrated \notin {NoReply, Fallback}
  /\ NoReply # Fallback
  /\ \A d : Corrected(d) \notin {NoReply, Fallback}
  /\ \A p, a, q : Metrics(p, a, q) \notin {NoReply, Fallback}
BY DEF Raw, NoReply, Recalibrated, Fallback, Corrected, Metrics

LEMMA AnswerRespond ==
  ASSUME TypeInv, AnswerInv, NEW a, a \notin {NoReply, Fallback},
         Respond(a), current \in Requests, workerPc # "stopped",
         UNCHANGED pool
  PROVE  AnswerInv'
BY AnswersDiffer, DriftAssumption
DEF TypeInv, TypeOK, AnswerInv, AnswerComes, FallbackOnlyWhenDown, Respond,
    SenderAlive, Waiting, InFlight

LEMMA AnswerStep == TypeInv /\ AnswerInv /\ [Next]_vars => AnswerInv'
<1> SUFFICES ASSUME TypeInv, AnswerInv, [Next]_vars
             PROVE  AnswerInv'
  OBVIOUS
<1> USE AnswersDiffer, DriftAssumption
<1> TypeOK
  BY DEF TypeInv
<1>1. CASE UNCHANGED <<callVars, queue, workerVars, pool>>
  BY <1>1 DEF AnswerInv, AnswerComes, FallbackOnlyWhenDown, SenderAlive,
              Waiting, InFlight, callVars, workerVars
<1>2. ASSUME NEW r \in Requests, Call(r)
      PROVE  AnswerInv'
  <2> USE DEF TypeOK, AnswerInv, AnswerComes, FallbackOnlyWhenDown,
              SenderAlive, Waiting, InFlight, workerVars
  <2>1. ASSUME NEW c \in Commands, Start(r, c)
        PROVE  AnswerInv'
    BY <2>1 DEF Start
  <2>2. CASE Send(r)
    <3>1. queue' = Append(queue, r) /\ current' = current
      BY <2>2 DEF Send
    <3>2. queue'[Len(queue) + 1] = r /\ Len(queue) + 1 \in DOMAIN queue'
      BY <3>1
    <3>3. \A q \in Requests : SenderAlive(q) => SenderAlive(q)'
      <4>1. \A i \in DOMAIN queue : i \in DOMAIN queue' /\ queue'[i] = queue[i]
        BY <3>1
      <4> QED
        BY <3>1, <4>1
    <3>4. SenderAlive(r)'
      BY <3>2
    <3> QED
      BY <2>2, <3>3, <3>4 DEF Send
  <2>3. CASE SendFails(r)
    BY <2>3 DEF SendFails
  <2>4. CASE Receive(r)
    BY <2>4 DEF Receive
  <2>5. CASE ReceiveFails(r)
    BY <2>5 DEF ReceiveFails
  <2>6. CASE Cancel(r)
    BY <2>6 DEF Cancel
  <2> QED
    BY <1>2, <2>1, <2>2, <2>3, <2>4, <2>5, <2>6 DEF Call
<1>3. CASE Worker
  <2>1. CASE TakeCommand
    <3>1. current = None
      BY <2>1 DEF TakeCommand, AnswerInv, AnswerComes
    <3>2. ASSUME NEW q \in Requests, SenderAlive(q)
          PROVE  SenderAlive(q)'
      <4>1. PICK i \in DOMAIN queue : queue[i] = q
        BY <3>1, <3>2 DEF SenderAlive
      <4>2. CASE i = 1
        BY <2>1, <4>1, <4>2 DEF TakeCommand, SenderAlive
      <4>3. CASE i # 1
        <5>1. i - 1 \in DOMAIN Tail(queue) /\ Tail(queue)[i - 1] = q
          BY <4>1, <4>3 DEF TypeOK
        <5> QED
          BY <2>1, <5>1 DEF TakeCommand, SenderAlive
      <4> QED
        BY <4>2, <4>3
    <3> QED
      BY <2>1, <3>2 DEF TakeCommand, AnswerInv, AnswerComes, Waiting, InFlight,
                        FallbackOnlyWhenDown, callVars
  <2>2. CASE CorrectReading \/ MissReading \/ InsertCalibration \/ WorkerExit
    BY <2>2 DEF CorrectReading, MissReading, InsertCalibration, WorkerExit,
                Serving, AnswerInv, AnswerComes, FallbackOnlyWhenDown,
                SenderAlive, Waiting, InFlight, callVars, TypeOK
  <2>3. CASE CountAndRespond
    BY <2>3, AnswerRespond
    DEF CountAndRespond, AnswerInv, AnswerComes, TypeInv, WorkerServes
  <2>4. CASE Recalibrate
    BY <2>4, AnswerRespond DEF Recalibrate, Serving, TypeInv, WorkerServes
  <2>5. CASE ReadMetrics
    BY <2>5, AnswerRespond DEF ReadMetrics, Serving, TypeInv, WorkerServes
  <2> QED
    BY <1>3, <2>1, <2>2, <2>3, <2>4, <2>5 DEF Worker
<1>4. CASE Reconcile
  BY <1>1, <1>4 DEF Reconcile, StartRound, ApplyDrift
<1>5. CASE DropPool
  BY <1>5 DEF DropPool, AnswerInv, AnswerComes, FallbackOnlyWhenDown,
              SenderAlive, Waiting, InFlight, callVars, workerVars
<1>6. CASE Shutdown
  BY <1>6 DEF Shutdown, AnswerInv, AnswerComes, FallbackOnlyWhenDown,
              Waiting, InFlight, callVars
<1>7. CASE UNCHANGED vars
  BY <1>1, <1>7 DEF vars
<1> QED
  BY <1>2, <1>3, <1>4, <1>5, <1>6, <1>7 DEF Next

LEMMA AnswerInvariant == Spec => []AnswerInv
<1>1. Init => AnswerInv
  BY AnswersDiffer, DriftAssumption
  DEF Init, AnswerInv, AnswerComes, FallbackOnlyWhenDown, Waiting, InFlight
<1> QED
  BY <1>1, AnswerStep, TypeInvariant, PTL DEF Spec

\* However long the backlog and whatever calls are cancelled, a call gets its
\* fallback value only when the runtime that ran the worker has ended.
THEOREM FallbackOnlyWhenDownAlways == Spec => []FallbackOnlyWhenDown
<1>1. AnswerInv => FallbackOnlyWhenDown
  BY DEF AnswerInv
<1> QED
  BY <1>1, AnswerInvariant, PTL

-----------------------------------------------------------------------------
(* Who holds a call, and what its caller has seen of it *)

\* A call is on the channel or with the worker at most once, after it was sent
\* and before it is answered; a call not sent yet has no answer; nothing is
\* left of the two tasks once their runtime has ended.
HeldOnce ==
  /\ \A i, j \in 1 .. Len(queue) : queue[i] = queue[j] => i = j
  /\ \A i \in 1 .. Len(queue) :
       /\ queue[i] # current
       /\ pc[queue[i]] \notin {"idle", "sending"}
       /\ reply[queue[i]] = NoReply
  /\ current \in Requests => /\ pc[current] \notin {"idle", "sending"}
                             /\ reply[current] = NoReply
  /\ \A r \in Requests : pc[r] \in {"idle", "sending"} => reply[r] = NoReply
  /\ pool = "down" => workerPc = "stopped" /\ todo = {}

LEMMA HeldInit == Init => HeldOnce
BY DriftAssumption DEF Init, HeldOnce

LEMMA HeldRespond ==
  ASSUME TypeInv, HeldOnce, NEW a, Respond(a), current \in Requests,
         workerPc # "stopped", UNCHANGED <<pool, todo>>
  PROVE  HeldOnce'
<1>1. pool # "down" /\ pool' # "down"
  BY DEF HeldOnce
<1>2. UNCHANGED <<pc, queue>> /\ current' = None
  BY DEF Respond
<1>3. \A q \in Requests \ {current} : reply'[q] = reply[q]
  BY DEF Respond, TypeInv, TypeOK
<1>4. \A i \in 1 .. Len(queue) : queue[i] \in Requests
  BY DEF TypeInv, TypeOK
<1> QED
  BY <1>1, <1>2, <1>3, <1>4, DriftAssumption DEF HeldOnce

LEMMA HeldStep == TypeInv /\ AnswerInv /\ HeldOnce /\ [Next]_vars => HeldOnce'
<1> SUFFICES ASSUME TypeInv, AnswerInv, HeldOnce, [Next]_vars
             PROVE  HeldOnce'
  OBVIOUS
<1> USE DriftAssumption
<1> TypeOK
  BY DEF TypeInv
<1>q. \A i \in 1 .. Len(queue) : queue[i] \in Requests
  BY DEF TypeOK
<1>1. CASE UNCHANGED <<pc, reply, queue, current, workerPc, pool, todo>>
  BY <1>1 DEF HeldOnce
<1>2. ASSUME NEW r \in Requests, Call(r)
      PROVE  HeldOnce'
  <2> UNCHANGED <<current, workerPc, pool, todo>>
    BY <1>2 DEF Call, Start, Send, SendFails, Receive, ReceiveFails, Cancel,
                workerVars, roundVars
  <2>1. ASSUME NEW c \in Commands, Start(r, c)
        PROVE  HeldOnce'
    BY <1>q, <2>1 DEF Start, HeldOnce, TypeOK
  <2>2. CASE Send(r)
    <3>1. /\ queue' = Append(queue, r)
          /\ pc[r] = "sending" /\ pc' = [pc EXCEPT ![r] = "waiting"]
          /\ reply' = reply
      BY <2>2 DEF Send
    <3>2. Len(queue') = Len(queue) + 1 /\ queue'[Len(queue) + 1] = r
      BY <3>1 DEF TypeOK
    <3>3. \A i \in 1 .. Len(queue) : queue'[i] = queue[i]
      BY <3>1 DEF TypeOK
    <3>4. \A i \in 1 .. Len(queue) : queue[i] # r
      BY <3>1 DEF HeldOnce
    <3>5. \A i \in 1 .. Len(queue') : i \in 1 .. Len(queue)
                                        \/ i = Len(queue) + 1
      BY <3>2 DEF TypeOK
    <3>6. r # current /\ reply[r] = NoReply
      BY <3>1 DEF HeldOnce
    <3>7. \A q \in Requests : q # r => pc'[q] = pc[q]
      BY <3>1 DEF TypeOK
    <3>8. pc'[r] = "waiting"
      BY <3>1 DEF TypeOK
    <3>9. \A i, j \in 1 .. Len(queue') : queue'[i] = queue'[j] => i = j
      BY <3>2, <3>3, <3>4, <3>5 DEF HeldOnce
    <3>10. \A i \in 1 .. Len(queue') :
             /\ queue'[i] # current'
             /\ pc'[queue'[i]] \notin {"idle", "sending"}
             /\ reply'[queue'[i]] = NoReply
      BY <1>q, <3>1, <3>2, <3>3, <3>4, <3>5, <3>6, <3>7, <3>8 DEF HeldOnce
    <3> QED
      BY <3>1, <3>6, <3>7, <3>8, <3>9, <3>10 DEF HeldOnce
  <2>3. CASE SendFails(r)
    BY <1>q, <2>3 DEF SendFails, HeldOnce, TypeOK
  <2>4. CASE Receive(r)
    BY <1>q, <2>4 DEF Receive, HeldOnce, TypeOK
  <2>5. CASE ReceiveFails(r)
    <3>1. \A i \in 1 .. Len(queue) : queue[i] # r
      BY <2>5 DEF ReceiveFails, SenderAlive, TypeOK
    <3>2. current # r
      BY <2>5 DEF ReceiveFails, SenderAlive
    <3> QED
      BY <1>q, <2>5, <3>1, <3>2 DEF ReceiveFails, HeldOnce, TypeOK
  <2>6. CASE Cancel(r)
    BY <1>q, <2>6 DEF Cancel, HeldOnce, TypeOK
  <2> QED
    BY <1>2, <2>1, <2>2, <2>3, <2>4, <2>5, <2>6 DEF Call
<1>3. CASE Worker
  <2>1. CASE TakeCommand
    <3>1. /\ current' = queue[1] /\ queue' = Tail(queue)
          /\ 1 \in 1 .. Len(queue)
          /\ UNCHANGED <<pc, reply, pool, todo>>
          /\ pool # "down"
      BY <2>1 DEF TakeCommand, callVars, roundVars, HeldOnce, TypeOK
    <3>2. /\ Len(queue') = Len(queue) - 1
          /\ \A i \in 1 .. Len(queue') : /\ i + 1 \in 1 .. Len(queue)
                                         /\ queue'[i] = queue[i + 1]
      BY <3>1 DEF TypeOK
    <3>3. \A i, j \in 1 .. Len(queue') : queue'[i] = queue'[j] => i = j
      <4> SUFFICES ASSUME NEW i \in 1 .. Len(queue'),
                          NEW j \in 1 .. Len(queue'), queue'[i] = queue'[j]
                   PROVE  i = j
        OBVIOUS
      <4>1. i + 1 = j + 1
        BY <3>2 DEF HeldOnce
      <4> QED
        BY <4>1
    <3>4. \A i \in 1 .. Len(queue') : queue'[i] # current'
      <4> SUFFICES ASSUME NEW i \in 1 .. Len(queue'), queue'[i] = current'
                   PROVE  FALSE
        OBVIOUS
      <4>1. i + 1 = 1
        BY <3>1, <3>2 DEF HeldOnce
      <4> QED
        BY <4>1
    <3> QED
      BY <3>1, <3>2, <3>3, <3>4 DEF HeldOnce
  <2>2. CASE CorrectReading \/ MissReading \/ InsertCalibration
    BY <2>2 DEF CorrectReading, MissReading, InsertCalibration, Serving,
                HeldOnce, callVars, roundVars
  <2>3. CASE WorkerExit
    BY <2>3 DEF WorkerExit, HeldOnce, callVars, roundVars
  <2>4. CASE CountAndRespond
    BY <2>4, HeldRespond
    DEF CountAndRespond, roundVars, TypeInv, WorkerServes
  <2>5. CASE Recalibrate
    BY <2>5, HeldRespond
    DEF Recalibrate, Serving, roundVars, TypeInv, WorkerServes
  <2>6. CASE ReadMetrics
    BY <2>6, HeldRespond
    DEF ReadMetrics, Serving, roundVars, TypeInv, WorkerServes
  <2> QED
    BY <1>3, <2>1, <2>2, <2>3, <2>4, <2>5, <2>6 DEF Worker
<1>4. CASE Reconcile
  BY <1>4 DEF Reconcile, StartRound, ApplyDrift, HeldOnce, callVars,
              workerVars
<1>5. CASE DropPool
  BY <1>5 DEF DropPool, HeldOnce, callVars, workerVars, roundVars
<1>6. CASE Shutdown
  BY <1>6 DEF Shutdown, HeldOnce, callVars
<1>7. CASE UNCHANGED vars
  BY <1>1, <1>7 DEF vars, callVars, workerVars, roundVars
<1> QED
  BY <1>2, <1>3, <1>4, <1>5, <1>6, <1>7 DEF Next

LEMMA HeldInvariant == Spec => []HeldOnce
BY HeldInit, HeldStep, AnswerInvariant, TypeInvariant, PTL DEF Spec

-----------------------------------------------------------------------------
(* One uncorrected answer per meter *)

\* The worker inserts a calibration only for a meter without one, which stays
\* so although the read lock was dropped; a meter of which a reading was, or
\* is about to be, answered uncorrected is calibrated from then on.
RawInv ==
  /\ OneRawReadingPerMeter
  /\ workerPc = "insert" => cmd[current].meter \notin calibrated
  /\ \A r \in Requests : reply[r] = Raw => cmd[r].meter \in calibrated
  /\ workerPc = "count" /\ result = Raw =>
       /\ cmd[current].meter \in calibrated
       /\ \A r \in Requests :
            reply[r] = Raw => cmd[r].meter # cmd[current].meter

LEMMA RawInit == Init => RawInv
BY AnswersDiffer DEF Init, RawInv, OneRawReadingPerMeter

\* An answer to the served call: Raw only if it was announced.
LEMMA RawRespond ==
  ASSUME TypeInv, RawInv, NEW a, Respond(a), current \in Requests,
         calibrated \subseteq calibrated',
         a = Raw => workerPc = "count" /\ result = Raw
  PROVE  RawInv'
<1>1. /\ cmd' = cmd /\ workerPc' = "recv"
      /\ \A q \in Requests \ {current} : reply'[q] = reply[q]
      /\ reply'[current] \in {a, reply[current]}
  BY DEF Respond, TypeInv, TypeOK
<1> QED
  BY <1>1 DEF RawInv, OneRawReadingPerMeter

LEMMA RawStep == TypeInv /\ HeldOnce /\ RawInv /\ [Next]_vars => RawInv'
<1> SUFFICES ASSUME TypeInv, HeldOnce, RawInv, [Next]_vars
             PROVE  RawInv'
  OBVIOUS
<1> USE AnswersDiffer, DriftAssumption
<1> TypeOK
  BY DEF TypeInv
<1>s. workerPc \in {"handle", "insert", "count"} => current \in Requests
  BY DEF TypeInv, WorkerServes
<1>1. CASE UNCHANGED <<cmd, reply, workerPc, current, result, calibrated>>
  BY <1>1 DEF RawInv, OneRawReadingPerMeter
<1>2. ASSUME NEW r \in Requests, Call(r)
      PROVE  RawInv'
  <2>1. UNCHANGED <<workerPc, current, result, calibrated>>
    BY <1>2 DEF Call, Start, Send, SendFails, Receive, ReceiveFails, Cancel,
                workerVars, mapVars
  <2>2. ASSUME NEW c \in Commands, Start(r, c)
        PROVE  RawInv'
    <3>1. reply' = reply /\ reply[r] # Raw /\ r # current
      BY <2>2 DEF Start, HeldOnce
    <3>2. \A q \in Requests \ {r} : cmd'[q] = cmd[q]
      BY <2>2 DEF Start, TypeOK
    <3> QED
      BY <1>s, <2>1, <3>1, <3>2 DEF RawInv, OneRawReadingPerMeter
  <2>3. CASE ~\E c \in Commands : Start(r, c)
    <3>1. /\ cmd' = cmd
          /\ \A q \in Requests : reply'[q] = Raw => reply[q] = Raw
      BY <1>2, <2>3 DEF Call, Send, SendFails, Receive, ReceiveFails, Cancel,
                        TypeOK
    <3> QED
      BY <2>1, <3>1 DEF RawInv, OneRawReadingPerMeter
  <2> QED
    BY <2>2, <2>3
<1>3. CASE Worker
  <2>1. CASE TakeCommand \/ WorkerExit
    BY <2>1 DEF TakeCommand, WorkerExit, RawInv, OneRawReadingPerMeter,
                callVars, mapVars
  <2>2. CASE CorrectReading \/ MissReading
    BY <2>2 DEF CorrectReading, MissReading, Serving, Raw, Corrected, RawInv,
                OneRawReadingPerMeter, callVars, mapVars
  <2>3. CASE InsertCalibration
    <3>1. calibrated' = calibrated \cup {cmd[current].meter}
      BY <2>3 DEF InsertCalibration, ResetDrift
    <3> QED
      BY <2>3, <3>1 DEF InsertCalibration, RawInv, OneRawReadingPerMeter,
                        callVars
  <2>4. CASE CountAndRespond
    BY <1>s, <2>4, RawRespond DEF CountAndRespond, mapVars
  <2>5. CASE Recalibrate
    <3>1. calibrated \subseteq calibrated'
      BY <2>5 DEF Recalibrate, ResetDrift
    <3>2. Recalibrated # Raw
      BY DEF Recalibrated, Raw
    <3> QED
      BY <1>s, <2>5, <3>1, <3>2, RawRespond DEF Recalibrate, Serving
  <2>6. CASE ReadMetrics
    <3>1. \A p, a, q : Metrics(p, a, q) # Raw
      BY DEF Metrics, Raw
    <3> QED
      BY <1>s, <2>6, <3>1, RawRespond DEF ReadMetrics, Serving, mapVars
  <2> QED
    BY <1>3, <2>1, <2>2, <2>3, <2>4, <2>5, <2>6 DEF Worker
<1>4. CASE Reconcile
  BY <1>1, <1>4 DEF Reconcile, StartRound, ApplyDrift, callVars, workerVars,
                    mapVars
<1>5. CASE DropPool
  BY <1>1, <1>5 DEF DropPool, callVars, workerVars, mapVars
<1>6. CASE Shutdown
  BY <1>6 DEF Shutdown, RawInv, OneRawReadingPerMeter, callVars, mapVars
<1>7. CASE UNCHANGED vars
  BY <1>1, <1>7 DEF vars, callVars, workerVars, mapVars
<1> QED
  BY <1>2, <1>3, <1>4, <1>5, <1>6, <1>7 DEF Next

LEMMA RawInvariant == Spec => []RawInv
BY RawInit, RawStep, HeldInvariant, TypeInvariant, PTL DEF Spec

\* Although compute_correction looks a meter up under one lock and inserts it
\* under another (drift.rs:227-249), no two readings of a meter are answered
\* uncorrected, however many callers send readings of it at the same time.
THEOREM OneRawReadingPerMeterAlways == Spec => []OneRawReadingPerMeter
<1>1. RawInv => OneRawReadingPerMeter
  BY DEF RawInv
<1> QED
  BY <1>1, RawInvariant, PTL

-----------------------------------------------------------------------------
(* The metrics cover the readings answered before *)

\* The calls that were sent an answer for a reading, delivered or not.
SentReadings == {r \in Requests : reply[r].kind \in {"raw", "corrected"}}

\* The counter covers every answer sent, so also what each metrics call has
\* seen answered before it started.
CountInv ==
  /\ MetricsCoverAnsweredReadings
  /\ IsFiniteSet(SentReadings)
  /\ Cardinality(SentReadings) <= processed
  /\ \A r \in Requests : seen[r] <= processed
  /\ result.kind # "metrics"

LEMMA AnsweredWereSent ==
  ASSUME IsFiniteSet(SentReadings)
  PROVE  /\ IsFiniteSet(AnsweredReadings)
         /\ Cardinality(AnsweredReadings) <= Cardinality(SentReadings)
<1>1. AnsweredReadings \subseteq SentReadings
  BY DEF AnsweredReadings, SentReadings
<1> QED
  BY <1>1, FS_Subset

LEMMA CountInit == Init => CountInv
<1> SUFFICES ASSUME Init PROVE CountInv
  OBVIOUS
<1>1. SentReadings = {}
  BY DEF Init, SentReadings, NoReply
<1> QED
  BY <1>1, FS_EmptySet
  DEF Init, CountInv, MetricsCoverAnsweredReadings, NoReply

\* Fewer answers for readings, and no new metrics: the invariant stays.
LEMMA CountFewer ==
  ASSUME TypeInv, CountInv, UNCHANGED processed,
         SentReadings' \subseteq SentReadings,
         \A r \in Requests :
           /\ seen'[r] = seen[r] \/ seen'[r] <= processed
           /\ reply'[r].kind = "metrics" =>
                reply'[r] = reply[r] /\ seen'[r] = seen[r],
         result'.kind # "metrics"
  PROVE  CountInv'
<1>1. /\ IsFiniteSet(SentReadings')
      /\ Cardinality(SentReadings') <= Cardinality(SentReadings)
  BY FS_Subset DEF CountInv
<1>2. /\ Cardinality(SentReadings) \in Nat
      /\ Cardinality(SentReadings') \in Nat
  BY <1>1, FS_CardinalityType DEF CountInv
<1>3. Cardinality(SentReadings') <= processed'
  BY <1>1, <1>2 DEF CountInv, TypeInv, TypeOK
<1> QED
  BY <1>1, <1>3 DEF CountInv, MetricsCoverAnsweredReadings

LEMMA CountStep == TypeInv /\ HeldOnce /\ CountInv /\ [Next]_vars => CountInv'
<1> SUFFICES ASSUME TypeInv, HeldOnce, CountInv, [Next]_vars
             PROVE  CountInv'
  OBVIOUS
<1> TypeOK
  BY DEF TypeInv
<1>s. workerPc \in {"handle", "insert", "count"} => current \in Requests
  BY DEF TypeInv, WorkerServes
<1>1. CASE UNCHANGED <<reply, seen, processed, result>>
  BY <1>1 DEF CountInv, MetricsCoverAnsweredReadings, SentReadings
<1>2. ASSUME NEW r \in Requests, Call(r)
      PROVE  CountInv'
  <2>1. UNCHANGED <<processed, result>>
    BY <1>2 DEF Call, Start, Send, SendFails, Receive, ReceiveFails, Cancel,
                workerVars
  <2>2. result'.kind # "metrics"
    BY <2>1 DEF CountInv
  <2>3. ASSUME NEW c \in Commands, Start(r, c)
        PROVE  CountInv'
    <3>1. /\ reply' = reply
          /\ reply[r] = NoReply
          /\ \A q \in Requests \ {r} : seen'[q] = seen[q]
          /\ seen'[r] \in {0, Cardinality(AnsweredReadings)}
      BY <2>3 DEF Start, HeldOnce, TypeOK
    <3>2. /\ Cardinality(AnsweredReadings) \in Nat
          /\ Cardinality(SentReadings) \in Nat
          /\ Cardinality(AnsweredReadings) <= Cardinality(SentReadings)
      BY AnsweredWereSent, FS_CardinalityType DEF CountInv
    <3>3. seen'[r] <= processed
      BY <3>1, <3>2 DEF CountInv, TypeOK
    <3>4. reply'[r].kind # "metrics"
      BY <3>1 DEF NoReply
    <3>5. SentReadings' \subseteq SentReadings
      BY <3>1 DEF SentReadings
    <3> QED
      BY <2>1, <2>2, <3>1, <3>3, <3>4, <3>5, CountFewer
  <2>4. CASE ~\E c \in Commands : Start(r, c)
    <3>1. /\ seen' = seen
          /\ \A q \in Requests :
               reply'[q] \in {reply[q], NoReply, Fallback}
      BY <1>2, <2>4 DEF Call, Send, SendFails, Receive, ReceiveFails, Cancel,
                        TypeOK
    <3>2. \A q \in Requests :
            \/ reply'[q] = reply[q]
            \/ reply'[q].kind \in {"none", "fallback"}
      BY <3>1 DEF NoReply, Fallback
    <3>3. SentReadings' \subseteq SentReadings
      BY <3>2 DEF SentReadings
    <3> QED
      BY <2>1, <2>2, <3>1, <3>2, <3>3, CountFewer
  <2> QED
    BY <2>3, <2>4
<1>3. CASE Worker
  <2>1. CASE TakeCommand \/ MissReading \/ WorkerExit
    BY <1>1, <2>1 DEF TakeCommand, MissReading, WorkerExit, callVars
  <2>2. CASE CorrectReading
    BY <2>2, CountFewer DEF CorrectReading, callVars, Corrected, SentReadings
  <2>3. CASE InsertCalibration
    BY <2>3, CountFewer DEF InsertCalibration, callVars, Raw, SentReadings
  <2>4. CASE CountAndRespond
    <3>1. /\ processed' = processed + 1
          /\ current \in Requests
          /\ seen' = seen /\ result' = NoReply
          /\ \A q \in Requests \ {current} : reply'[q] = reply[q]
          /\ reply'[current] \in {result, reply[current]}
      BY <1>s, <2>4 DEF CountAndRespond, Respond, TypeOK
    <3>0. IsFiniteSet(SentReadings) /\ Cardinality(SentReadings) \in Nat
      BY FS_CardinalityType DEF CountInv
    <3>2. /\ IsFiniteSet(SentReadings \cup {current})
          /\ Cardinality(SentReadings \cup {current})
               <= Cardinality(SentReadings) + 1
          /\ Cardinality(SentReadings) \in Nat
      <4>1. /\ IsFiniteSet(SentReadings \cup {current})
            /\ Cardinality(SentReadings \cup {current})
                 = IF current \in SentReadings THEN Cardinality(SentReadings)
                   ELSE Cardinality(SentReadings) + 1
        BY <3>0, FS_AddElement
      <4> HIDE DEF SentReadings
      <4> QED
        BY <3>0, <4>1
    <3>3. SentReadings' \subseteq SentReadings \cup {current}
      BY <3>1 DEF SentReadings
    <3>4. /\ IsFiniteSet(SentReadings')
          /\ Cardinality(SentReadings')
               <= Cardinality(SentReadings \cup {current})
      BY <3>2, <3>3, FS_Subset
    <3>5. Cardinality(SentReadings') \in Nat
          /\ Cardinality(SentReadings \cup {current}) \in Nat
      BY <3>2, <3>4, FS_CardinalityType
    <3>6. Cardinality(SentReadings') <= processed'
      BY <3>1, <3>2, <3>4, <3>5 DEF CountInv, TypeOK
    <3>7. \A q \in Requests :
            reply'[q].kind = "metrics" => reply'[q] = reply[q]
      BY <3>1 DEF CountInv
    <3>8. \A q \in Requests : seen'[q] <= processed'
      BY <3>1 DEF CountInv, TypeOK
    <3> QED
      BY <3>1, <3>4, <3>6, <3>7, <3>8
      DEF CountInv, MetricsCoverAnsweredReadings, NoReply
  <2>5. CASE Recalibrate
    <3>1. /\ processed' = processed /\ seen' = seen /\ result' = NoReply
          /\ \A q \in Requests : reply'[q] \in {reply[q], Recalibrated}
      BY <2>5 DEF Recalibrate, Respond, TypeOK
    <3>2. \A q \in Requests : \/ reply'[q] = reply[q]
                              \/ reply'[q].kind = "recalibrated"
      BY <3>1 DEF Recalibrated
    <3>3. SentReadings' \subseteq SentReadings
      BY <3>2 DEF SentReadings
    <3> QED
      BY <3>1, <3>2, <3>3, CountFewer DEF NoReply
  <2>6. CASE ReadMetrics
    <3> DEFINE a == Metrics(processed, Cardinality(calibrated), Len(queue))
    <3>1. /\ processed' = processed /\ seen' = seen /\ result' = NoReply
          /\ \A q \in Requests : reply'[q] \in {reply[q], a}
      BY <2>6 DEF ReadMetrics, Respond, TypeOK
    <3>2. a.kind = "metrics" /\ a.processed = processed
      BY DEF Metrics
    <3> HIDE DEF a
    <3>3. SentReadings' \subseteq SentReadings
      BY <3>1, <3>2 DEF SentReadings
    <3>4. /\ IsFiniteSet(SentReadings')
          /\ Cardinality(SentReadings') <= Cardinality(SentReadings)
          /\ Cardinality(SentReadings) \in Nat
      BY <3>3, FS_Subset, FS_CardinalityType DEF CountInv
    <3>5. Cardinality(SentReadings') \in Nat
      BY <3>4, FS_CardinalityType
    <3>6. Cardinality(SentReadings') <= processed'
      BY <3>1, <3>4, <3>5 DEF CountInv, TypeOK
    <3>7. \A q \in Requests :
            reply'[q].kind = "metrics" => reply'[q].processed >= seen[q]
      BY <3>1, <3>2 DEF CountInv, MetricsCoverAnsweredReadings, TypeOK
    <3> QED
      BY <3>1, <3>4, <3>6, <3>7
      DEF CountInv, MetricsCoverAnsweredReadings, NoReply
  <2> QED
    BY <1>3, <2>1, <2>2, <2>3, <2>4, <2>5, <2>6 DEF Worker
<1>4. CASE Reconcile
  BY <1>1, <1>4 DEF Reconcile, StartRound, ApplyDrift, callVars, workerVars
<1>5. CASE DropPool
  BY <1>1, <1>5 DEF DropPool, callVars, workerVars
<1>6. CASE Shutdown
  BY <1>6, CountFewer DEF Shutdown, callVars, NoReply, SentReadings
<1>7. CASE UNCHANGED vars
  BY <1>1, <1>7 DEF vars, callVars, workerVars
<1> QED
  BY <1>2, <1>3, <1>4, <1>5, <1>6, <1>7 DEF Next

\* The counter is bumped before the answer is sent (drift.rs:193-198), so the
\* metrics a caller gets count every reading answered before it asked.
THEOREM MetricsCoverAlways == Spec => []MetricsCoverAnsweredReadings
<1>1. CountInv => MetricsCoverAnsweredReadings
  BY DEF CountInv
<1> QED
  BY <1>1, CountInit, CountStep, HeldInvariant, TypeInvariant, PTL DEF Spec

-----------------------------------------------------------------------------
(* Refinement: the channel and the tasks give an atomic service *)

\* What the steps of the refinement need to know of a state.
RefInv ==
  TypeInv /\ DriftInv /\ AnswerInv /\ HeldOnce /\ RawInv

LEMMA RefInvariant == Spec => []RefInv
BY TypeInvariant, DriftInvariant, AnswerInvariant, HeldInvariant,
   RawInvariant, PTL DEF RefInv

\* The mapped state, name by name.
CallState == [r \in Requests |-> IF pc[r] = "sending" THEN "waiting" ELSE pc[r]]
Promised  == [r \in Requests |-> PromisedAnswer(r)]
Pending   == {r \in Requests : NoEffectYet(r)}
Readings  == IF pool = "down" THEN 0
             ELSE IF workerPc = "count" THEN processed + 1 ELSE processed

\* Neither sent nor taken by the worker, a call has no effect to come.
LEMMA NotPending ==
  ASSUME NEW r \in Requests, pc[r] # "sending", current # r,
         \A i \in 1 .. Len(queue) : queue[i] # r, TypeOK
  PROVE  r \notin Pending
BY DEF Pending, NoEffectYet, TypeOK

LEMMA RefInit == Init => Service!Init
<1> SUFFICES ASSUME Init PROVE Service!Init
  OBVIOUS
<1>1. \A r \in Requests : ~NoEffectYet(r)
  BY DriftAssumption DEF Init, NoEffectYet
<1>2. \A r \in Requests : PromisedAnswer(r) = NoReply
  BY DEF Init, PromisedAnswer
<1> QED
  BY <1>1, <1>2
  DEF Init, Service!Init, NoCommand, Service!NoCommand, NoReply,
      Service!NoReply

\* A step that leaves the mapped state alone.
LEMMA RefStutter ==
  ASSUME UNCHANGED <<cmd, calibrated, drift>>, (pool' = "down") <=> (pool = "down"),
         CallState' = CallState, Promised' = Promised, Pending' = Pending,
         Readings' = Readings
  PROVE  UNCHANGED Service!vars
BY DEF Service!vars, CallState, Promised, Pending, Readings

LEMMA RefCalls ==
  ASSUME RefInv, NEW r \in Requests, Call(r)
  PROVE  Service!Next \/ UNCHANGED Service!vars
<1> USE DriftAssumption
<1> TypeOK
  BY DEF RefInv, TypeInv
<1>a. UNCHANGED <<workerVars, mapVars, roundVars, pool>>
  BY DEF Call, Start, Send, SendFails, Receive, ReceiveFails, Cancel
<1>b. Readings' = Readings
  BY <1>a DEF Readings, workerVars
<1>1. ASSUME NEW c \in Commands, Start(r, c)
      PROVE  Service!Call(r, c)
  <2>1. /\ pc[r] = "idle" /\ pc' = [pc EXCEPT ![r] = "sending"]
        /\ cmd' = [cmd EXCEPT ![r] = c]
        /\ UNCHANGED <<reply, queue>>
    BY <1>1 DEF Start
  <2>2. CallState[r] = "idle" /\ CallState' = [CallState EXCEPT ![r] = "waiting"]
    BY <2>1 DEF CallState, TypeOK
  <2>3. Pending' = Pending \cup {r}
    BY <1>a, <2>1 DEF Pending, NoEffectYet, workerVars, TypeOK
  <2>4. Promised' = Promised
    BY <1>a, <2>1 DEF Promised, PromisedAnswer, workerVars, TypeOK
  <2> QED
    BY <1>a, <1>b, <2>1, <2>2, <2>3, <2>4
    DEF Service!Call, CallState, Pending, Promised, Readings, mapVars
<1>2. CASE Send(r)
  <2>1. /\ pc[r] = "sending" /\ pc' = [pc EXCEPT ![r] = "waiting"]
        /\ queue' = Append(queue, r)
        /\ UNCHANGED <<reply, cmd>>
    BY <1>2 DEF Send
  <2>2. CallState' = CallState
    BY <2>1 DEF CallState, TypeOK
  <2>3. r # current
    BY <2>1 DEF RefInv, HeldOnce
  <2>4. Promised' = Promised
    BY <1>a, <2>1, <2>3 DEF Promised, PromisedAnswer, workerVars, TypeOK
  <2>5. Pending' = Pending
    <3>1. ASSUME NEW q \in Requests
          PROVE  NoEffectYet(q)' <=> NoEffectYet(q)
      <4>1. (\E i \in DOMAIN queue' : queue'[i] = q)
              <=> (\E i \in DOMAIN queue : queue[i] = q) \/ q = r
        <5>1. /\ DOMAIN queue = 1 .. Len(queue)
              /\ DOMAIN queue' = 1 .. Len(queue) + 1
              /\ \A i \in 1 .. Len(queue) : queue'[i] = queue[i]
              /\ queue'[Len(queue) + 1] = r
              /\ Len(queue) \in Nat
          BY <2>1 DEF TypeOK
        <5>2. ASSUME NEW i \in DOMAIN queue', queue'[i] = q, q # r
              PROVE  i \in DOMAIN queue /\ queue[i] = q
          BY <5>1, <5>2
        <5>3. ASSUME NEW i \in DOMAIN queue, queue[i] = q
              PROVE  i \in DOMAIN queue' /\ queue'[i] = q
          BY <5>1, <5>3
        <5>4. Len(queue) + 1 \in DOMAIN queue' /\ queue'[Len(queue) + 1] = r
          BY <5>1
        <5> QED
          BY <5>2, <5>3, <5>4
      <4> QED
        BY <1>a, <2>1, <4>1 DEF NoEffectYet, workerVars, TypeOK
    <3> QED
      BY <3>1 DEF Pending
  <2> QED
    BY <1>a, <1>b, <2>1, <2>2, <2>4, <2>5, RefStutter DEF mapVars
<1>3. CASE SendFails(r)
  <2>1. /\ pc[r] = "sending" /\ pc' = [pc EXCEPT ![r] = "done"]
        /\ reply' = [reply EXCEPT ![r] = Fallback]
        /\ UNCHANGED <<cmd, queue>>
    BY <1>3 DEF SendFails
  <2>2. pool = "down"
    BY <1>3 DEF SendFails, RefInv, AnswerInv, AnswerComes, InFlight, TypeOK
  <2>3. /\ r # current /\ reply[r] = NoReply
        /\ \A i \in 1 .. Len(queue) : queue[i] # r
    BY <2>1 DEF RefInv, HeldOnce
  <2>4. CallState[r] = "waiting" /\ CallState' = [CallState EXCEPT ![r] = "done"]
    BY <2>1 DEF CallState, TypeOK
  <2>5. Promised[r] = NoReply /\ Promised' = [Promised EXCEPT ![r] = Fallback]
    BY <1>a, <2>1, <2>3 DEF Promised, PromisedAnswer, workerVars, TypeOK
  <2>6. Pending' = Pending \ {r}
    BY <1>a, <2>1, <2>3 DEF Pending, NoEffectYet, workerVars, TypeOK
  <2>7. Service!ReturnFallback(r)
    BY <1>a, <1>b, <2>1, <2>2, <2>4, <2>5, <2>6
    DEF Service!ReturnFallback, CallState, Pending, Promised, Readings,
        mapVars, Service!NoReply, NoReply, Service!Fallback, Fallback
  <2> QED
    BY <2>7 DEF Service!Next
<1>4. CASE Receive(r)
  <2>1. /\ pc[r] = "waiting" /\ pc' = [pc EXCEPT ![r] = "done"]
        /\ reply[r] # NoReply
        /\ UNCHANGED <<cmd, queue, reply>>
    BY <1>4 DEF Receive
  <2>2. r # current
    BY <2>1 DEF RefInv, HeldOnce
  <2>3. CallState[r] = "waiting" /\ CallState' = [CallState EXCEPT ![r] = "done"]
    BY <2>1 DEF CallState, TypeOK
  <2>4. Promised[r] # NoReply /\ Promised' = Promised
    BY <1>a, <2>1, <2>2 DEF Promised, PromisedAnswer, workerVars, TypeOK
  <2>5. Pending' = Pending
    BY <1>a, <2>1 DEF Pending, NoEffectYet, workerVars, TypeOK
  <2>6. Service!Return(r)
    BY <1>a, <1>b, <2>1, <2>3, <2>4, <2>5
    DEF Service!Return, CallState, Pending, Promised, Readings, mapVars,
        Service!NoReply, NoReply
  <2> QED
    BY <2>6 DEF Service!Next
<1>5. CASE ReceiveFails(r)
  <2>1. /\ pc[r] = "waiting" /\ pc' = [pc EXCEPT ![r] = "done"]
        /\ reply[r] = NoReply /\ reply' = [reply EXCEPT ![r] = Fallback]
        /\ UNCHANGED <<cmd, queue>>
    BY <1>5 DEF ReceiveFails
  <2>2. pool = "down"
    BY <1>5 DEF ReceiveFails, RefInv, AnswerInv, AnswerComes, Waiting
  <2>3. r # current /\ \A i \in 1 .. Len(queue) : queue[i] # r
    BY <1>5 DEF ReceiveFails, SenderAlive, TypeOK
  <2>4. CallState[r] = "waiting" /\ CallState' = [CallState EXCEPT ![r] = "done"]
    BY <2>1 DEF CallState, TypeOK
  <2>5. Promised[r] = NoReply /\ Promised' = [Promised EXCEPT ![r] = Fallback]
    BY <1>a, <2>1, <2>3 DEF Promised, PromisedAnswer, workerVars, TypeOK
  <2>6. Pending' = Pending \ {r}
    BY <1>a, <2>1, <2>3 DEF Pending, NoEffectYet, workerVars, TypeOK
  <2>7. Service!ReturnFallback(r)
    BY <1>a, <1>b, <2>1, <2>2, <2>4, <2>5, <2>6
    DEF Service!ReturnFallback, CallState, Pending, Promised, Readings,
        mapVars, Service!NoReply, NoReply, Service!Fallback, Fallback
  <2> QED
    BY <2>7 DEF Service!Next
<1>6. CASE Cancel(r)
  <2>1. /\ pc[r] \in {"sending", "waiting"}
        /\ pc' = [pc EXCEPT ![r] = "cancelled"]
        /\ reply' = [reply EXCEPT ![r] = NoReply]
        /\ UNCHANGED <<cmd, queue>>
    BY <1>6 DEF Cancel, InFlight
  <2>2. /\ CallState[r] = "waiting"
        /\ CallState' = [CallState EXCEPT ![r] = "cancelled"]
    BY <2>1 DEF CallState, TypeOK
  <2>3. Promised' = [Promised EXCEPT ![r] = NoReply]
    BY <1>a, <2>1 DEF Promised, PromisedAnswer, workerVars, TypeOK
  <2>4. Pending' \in {Pending, Pending \ {r}}
    <3>1. CASE pc[r] = "sending"
      <4>1. r # current /\ \A i \in 1 .. Len(queue) : queue[i] # r
        BY <3>1 DEF RefInv, HeldOnce
      <4> QED
        BY <1>a, <2>1, <3>1, <4>1 DEF Pending, NoEffectYet, workerVars, TypeOK
    <3>2. CASE pc[r] = "waiting"
      BY <1>a, <2>1, <3>2 DEF Pending, NoEffectYet, workerVars, TypeOK
    <3> QED
      BY <2>1, <3>1, <3>2
  <2>5. Service!GiveUp(r)
    BY <1>a, <1>b, <2>1, <2>2, <2>3, <2>4
    DEF Service!GiveUp, CallState, Pending, Promised, Readings, mapVars,
        Service!NoReply, NoReply
  <2> QED
    BY <2>5 DEF Service!Next
<1> QED
  BY <1>1, <1>2, <1>3, <1>4, <1>5, <1>6
  DEF Call, Service!Next, Commands, Service!Commands

\* Where the worker makes a call take effect: the call leaves the pending set
\* with its answer, if it waits for one.
LEMMA RefAnswer ==
  ASSUME RefInv, NEW a, current \in Requests,
         workerPc \in {"handle", "insert"},
         UNCHANGED <<pc, cmd, queue, pool>>,
         \/ /\ workerPc' = "count" /\ current' = current /\ result' = a
            /\ reply' = reply
         \/ Respond(a)
  PROVE  Service!Answer(current, a)
<1> USE DriftAssumption
<1> TypeOK
  BY DEF RefInv, TypeInv
<1>1. /\ pool # "down"
      /\ pc[current] # "sending"
      /\ \A i \in 1 .. Len(queue) : queue[i] # current
  BY DEF RefInv, HeldOnce
<1>2. current \in Pending
  BY DEF Pending, NoEffectYet
<1>3. Pending' = Pending \ {current}
  BY <1>1 DEF Pending, NoEffectYet, Respond, TypeOK
<1>4. Promised' = IF CallState[current] = "waiting"
                  THEN [Promised EXCEPT ![current] = a] ELSE Promised
  BY <1>1 DEF Promised, PromisedAnswer, CallState, Respond, TypeOK
<1>5. CallState' = CallState
  BY DEF CallState
<1> QED
  BY <1>1, <1>2, <1>3, <1>4, <1>5
  DEF Service!Answer, Pending, Promised, CallState

\* The instance brings its own copy of FiniteSets.
LEMMA SameCardinality ==
  ASSUME NEW S
  PROVE  Service!Cardinality(S) = Cardinality(S)
BY DEF Cardinality, Service!Cardinality

LEMMA RefWorker ==
  ASSUME RefInv, Worker
  PROVE  Service!Next \/ UNCHANGED Service!vars
<1> USE DriftAssumption
<1> TypeOK
  BY DEF RefInv, TypeInv
<1>s. workerPc \in {"handle", "insert", "count"} =>
        current \in Requests /\ pool # "down"
  BY DEF RefInv, TypeInv, WorkerServes, HeldOnce
<1>1. CASE TakeCommand
  <2>1. /\ workerPc = "recv" /\ workerPc' = "handle"
        /\ current = None /\ current' = queue[1] /\ 1 \in DOMAIN queue
        /\ queue' = Tail(queue)
        /\ UNCHANGED <<pc, cmd, reply, pool, processed, calibrated, drift>>
    BY <1>1 DEF TakeCommand, callVars, mapVars, RefInv, AnswerInv,
                AnswerComes, TypeOK
  <2>2. Pending' = Pending
    <3>1. ASSUME NEW q \in Requests
          PROVE  (\E i \in DOMAIN queue : queue[i] = q)
                   <=> (\E i \in DOMAIN queue' : queue'[i] = q) \/ q = queue[1]
      <4>1. /\ DOMAIN queue = 1 .. Len(queue)
            /\ DOMAIN queue' = 1 .. Len(queue) - 1
            /\ \A i \in 1 .. Len(queue) - 1 : queue'[i] = queue[i + 1]
        BY <2>1 DEF TypeOK
      <4>2. ASSUME NEW i \in DOMAIN queue, queue[i] = q, q # queue[1]
            PROVE  \E j \in DOMAIN queue' : queue'[j] = q
        <5>1. i - 1 \in DOMAIN queue' /\ queue'[i - 1] = q
          BY <4>1, <4>2
        <5> QED
          BY <5>1
      <4>3. ASSUME NEW j \in DOMAIN queue', queue'[j] = q
            PROVE  \E i \in DOMAIN queue : queue[i] = q
        <5>1. j + 1 \in DOMAIN queue /\ queue[j + 1] = q
          BY <4>1, <4>3
        <5> QED
          BY <5>1
      <4> QED
        BY <2>1, <4>2, <4>3
    <3>2. \A q \in Requests : NoEffectYet(q)' <=> NoEffectYet(q)
      BY <2>1, <3>1 DEF NoEffectYet
    <3> QED
      BY <3>2 DEF Pending
  <2>3. Promised' = Promised /\ CallState' = CallState /\ Readings' = Readings
    BY <2>1 DEF Promised, PromisedAnswer, CallState, Readings
  <2> QED
    BY <2>1, <2>2, <2>3, RefStutter
<1>2. CASE CorrectReading
  <2> DEFINE a == Corrected(drift[cmd[current].meter])
  <2>1. /\ workerPc = "handle" /\ cmd[current].op = "process"
        /\ cmd[current].meter \in calibrated
        /\ workerPc' = "count" /\ current' = current /\ result' = a
        /\ UNCHANGED <<pc, cmd, reply, queue, pool, processed, calibrated,
                       drift>>
    BY <1>2 DEF CorrectReading, Serving, callVars, mapVars
  <2>2. Service!Answer(current, a)
    <3> HIDE DEF a
    <3> QED
      BY <1>s, <2>1, RefAnswer
  <2>3. Readings' = Readings + 1
    BY <1>s, <2>1 DEF Readings
  <2>4. Service!Process(current)
    BY <2>1, <2>2, <2>3 DEF Service!Process, Corrected, Readings
  <2> QED
    BY <1>s, <2>1, <2>4 DEF Service!Next
<1>3. CASE MissReading
  <2>1. /\ workerPc = "handle" /\ workerPc' = "insert"
        /\ UNCHANGED <<pc, cmd, reply, queue, current, pool, processed,
                       calibrated, drift>>
    BY <1>3 DEF MissReading, Serving, callVars, mapVars
  <2>2. /\ Promised' = Promised /\ CallState' = CallState
        /\ Readings' = Readings /\ Pending' = Pending
    BY <2>1 DEF Promised, PromisedAnswer, CallState, Readings, Pending,
                NoEffectYet
  <2> QED
    BY <2>1, <2>2, RefStutter
<1>4. CASE InsertCalibration
  <2>1. /\ workerPc = "insert" /\ cmd[current].op = "process"
        /\ cmd[current].meter \notin calibrated
        /\ workerPc' = "count" /\ current' = current /\ result' = Raw
        /\ UNCHANGED <<pc, cmd, reply, queue, pool, processed>>
        /\ ResetDrift(cmd[current].meter)
    BY <1>4 DEF InsertCalibration, callVars, RefInv, RawInv, TypeInv,
                WorkerServes
  <2>2. Service!Answer(current, Raw)
    BY <1>s, <2>1, RefAnswer
  <2>3. Readings' = Readings + 1
    BY <1>s, <2>1 DEF Readings
  <2>4. Service!Process(current)
    BY <2>1, <2>2, <2>3
    DEF Service!Process, Service!Learn, ResetDrift, Raw, Readings
  <2> QED
    BY <1>s, <2>1, <2>4 DEF Service!Next
<1>5. CASE CountAndRespond
  <2>1. /\ workerPc = "count" /\ workerPc' = "recv"
        /\ current \in Requests /\ current' = None
        /\ reply' = IF pc[current] = "waiting"
                    THEN [reply EXCEPT ![current] = result] ELSE reply
        /\ UNCHANGED <<pc, cmd, queue, pool, calibrated, drift>>
        /\ pool # "down" /\ processed' = processed + 1
    BY <1>s, <1>5 DEF CountAndRespond, Respond, mapVars
  <2>2. Promised' = Promised
    BY <2>1 DEF Promised, PromisedAnswer, TypeOK
  <2>3. Pending' = Pending
    BY <2>1 DEF Pending, NoEffectYet
  <2>4. Readings' = Readings /\ CallState' = CallState
    BY <2>1 DEF Readings, CallState
  <2> QED
    BY <2>1, <2>2, <2>3, <2>4, RefStutter
<1>6. CASE Recalibrate
  <2>1. /\ workerPc = "handle" /\ cmd[current].op = "recalibrate"
        /\ Respond(Recalibrated) /\ workerPc' = "recv"
        /\ UNCHANGED <<pc, cmd, queue, pool, processed>>
        /\ ResetDrift(cmd[current].meter)
    BY <1>6 DEF Recalibrate, Serving, Respond
  <2>2. Service!Answer(current, Recalibrated)
    BY <1>s, <2>1, RefAnswer
  <2>3. Readings' = Readings
    BY <1>s, <2>1 DEF Readings
  <2>4. Service!Recalibrate(current)
    BY <2>1, <2>2, <2>3
    DEF Service!Recalibrate, Service!Learn, ResetDrift, Recalibrated, Readings
  <2> QED
    BY <1>s, <2>1, <2>4 DEF Service!Next
<1>7. CASE ReadMetrics
  <2> DEFINE depth == Len(queue)
             a == Metrics(processed, Cardinality(calibrated), depth)
  <2>1. /\ workerPc = "handle" /\ cmd[current].op = "metrics"
        /\ Respond(a) /\ workerPc' = "recv"
        /\ UNCHANGED <<pc, cmd, queue, pool, processed, calibrated, drift>>
    BY <1>7 DEF ReadMetrics, Serving, Respond, mapVars
  <2>2. Service!Answer(current, a)
    <3> HIDE DEF a
    <3> QED
      BY <1>s, <2>1, RefAnswer
  <2>3. Readings' = Readings /\ Readings = processed
    BY <1>s, <2>1 DEF Readings
  <2>4. depth \in 0 .. Capacity
    BY DEF TypeOK
  <2> HIDE DEF depth
  <2>5. \E d \in 0 .. Capacity :
          Service!Answer(current, [kind |-> "metrics", processed |-> Readings,
                                   active |-> Cardinality(calibrated),
                                   depth |-> d])
    BY <2>2, <2>3, <2>4 DEF Metrics
  <2>6. Service!ReadMetrics(current)
    BY <2>1, <2>3, <2>5, SameCardinality DEF Service!ReadMetrics, Readings
  <2> QED
    BY <1>s, <2>1, <2>6 DEF Service!Next
<1>8. CASE WorkerExit
  <2>1. /\ workerPc = "recv" /\ workerPc' = "stopped"
        /\ current = None
        /\ UNCHANGED <<pc, cmd, reply, queue, current, pool, processed,
                       calibrated, drift>>
    BY <1>8 DEF WorkerExit, callVars, mapVars, RefInv, AnswerInv, AnswerComes
  <2>2. /\ Promised' = Promised /\ CallState' = CallState
        /\ Readings' = Readings /\ Pending' = Pending
    BY <2>1 DEF Promised, PromisedAnswer, CallState, Readings, Pending,
                NoEffectYet
  <2> QED
    BY <2>1, <2>2, RefStutter
<1> QED
  BY <1>1, <1>2, <1>3, <1>4, <1>5, <1>6, <1>7, <1>8 DEF Worker

LEMMA RefOthers ==
  ASSUME RefInv, Reconcile \/ DropPool \/ Shutdown \/ UNCHANGED vars
  PROVE  Service!Next \/ UNCHANGED Service!vars
<1> USE DriftAssumption
<1> TypeOK
  BY DEF RefInv, TypeInv
<1>1. CASE StartRound \/ DropPool \/ UNCHANGED vars
  <2>1. /\ UNCHANGED <<pc, cmd, reply, queue, workerPc, current, result,
                       processed, calibrated, drift>>
        /\ (pool' = "down") <=> (pool = "down")
    BY <1>1 DEF StartRound, DropPool, vars, callVars, workerVars, mapVars
  <2>2. /\ Promised' = Promised /\ CallState' = CallState
        /\ Readings' = Readings /\ Pending' = Pending
    BY <2>1 DEF Promised, PromisedAnswer, CallState, Readings, Pending,
                NoEffectYet
  <2> QED
    BY <2>1, <2>2, RefStutter
<1>2. ASSUME NEW m \in Meters, ApplyDrift(m)
      PROVE  Service!AgeMeter(m)
  <2>1. /\ UNCHANGED <<pc, cmd, reply, queue, workerPc, current, result,
                       processed, calibrated, pool>>
        /\ m \in calibrated /\ pool # "down"
        /\ drift' = [drift EXCEPT ![m] = Age(snapshot[m])]
    BY <1>2 DEF ApplyDrift, callVars, workerVars, RefInv, DriftInv,
                CopyIsFresh, HeldOnce
  <2>2. /\ Promised' = Promised /\ CallState' = CallState
        /\ Readings' = Readings /\ Pending' = Pending
    BY <2>1 DEF Promised, PromisedAnswer, CallState, Readings, Pending,
                NoEffectYet
  <2>3. Age(snapshot[m]) \in 0 .. DriftCap
    BY AgeType DEF TypeOK
  <2> QED
    BY <2>1, <2>2, <2>3
    DEF Service!AgeMeter, Promised, CallState, Readings, Pending
<1>3. CASE Shutdown
  <2> DEFINE lost == {r \in Requests : /\ current = r /\ workerPc = "count"
                                       /\ pc[r] = "waiting"}
  <2>1. /\ pool # "down" /\ pool' = "down" /\ workerPc' = "stopped"
        /\ queue' = << >> /\ current' = None
        /\ UNCHANGED <<pc, cmd, reply, calibrated, drift>>
    BY <1>3 DEF Shutdown, callVars, mapVars
  <2>2. Pending' \in SUBSET Pending
    BY <2>1 DEF Pending, NoEffectYet
  <2>3. lost \in SUBSET {r \in Requests : CallState[r] = "waiting"}
    BY DEF CallState
  <2>4. \A r \in lost : reply[r] = NoReply
    BY DEF RefInv, HeldOnce
  <2>5. Promised' = [r \in Requests |-> IF r \in lost THEN NoReply
                                        ELSE Promised[r]]
    BY <2>1, <2>4 DEF Promised, PromisedAnswer
  <2>6. Readings' = 0 /\ CallState' = CallState
    BY <2>1 DEF Readings, CallState
  <2> HIDE DEF lost
  <2>7. Service!GoDown
    BY <2>1, <2>2, <2>3, <2>5, <2>6
    DEF Service!GoDown, Promised, CallState, Readings, Pending,
        Service!NoReply, NoReply
  <2> QED
    BY <2>7 DEF Service!Next
<1> QED
  BY <1>1, <1>2, <1>3 DEF Reconcile, Service!Next

\* The pool implements DriftService: with a bounded channel, one worker, two
\* locks and a reconciliation loop between a caller and the calibrations, every
\* call still takes effect at one instant (drift.rs:120-309).
THEOREM ImplementsService == Spec => ServiceSpec
<1>1. RefInv /\ [Next]_vars => [Service!Next]_(Service!vars)
  BY RefCalls, RefWorker, RefOthers DEF Next
<1> QED
  BY <1>1, RefInit, RefInvariant, PTL DEF Spec, ServiceSpec, Service!Spec
=============================================================================
