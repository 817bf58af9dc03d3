----------------------------- MODULE DriftService -----------------------------
(***************************************************************************)
(* What the drift calibration pool promises its callers, with no channel,  *)
(* no worker and no lock: every call takes effect at ONE instant between   *)
(* its start and its return, its answer is computed from the calibrations  *)
(* of that instant, and it is answered with the closed-service fallback    *)
(* only after the service went down.  Reconciliation may move the drift of *)
(* the known meters, one at a time, and nothing else.                      *)
(***************************************************************************)
EXTENDS Integers, FiniteSets

CONSTANTS Requests, Meters, None, Capacity, DriftCap

VARIABLES
  pc,          \* "idle", "waiting", "done" or "cancelled" for each call
  cmd,         \* the command of each call
  answer,      \* the answer computed for a call, delivered or not
  pending,     \* calls made that have not taken effect
  calibrated,  \* the meters known
  drift,       \* their accumulated drift
  readings,    \* number of readings corrected
  up           \* the service is running

vars == <<pc, cmd, answer, pending, calibrated, drift, readings, up>>

NoCommand == [op |-> "none", meter |-> None]
NoReply   == [kind |-> "none"]
Fallback  == [kind |-> "fallback"]

Commands ==
  [op : {"process", "recalibrate"}, meter : Meters]
    \cup [op : {"metrics"}, meter : {None}]

Init ==
  /\ pc = [r \in Requests |-> "idle"]
  /\ cmd = [r \in Requests |-> NoCommand]
  /\ answer = [r \in Requests |-> NoReply]
  /\ pending = {}
  /\ calibrated = {}
  /\ drift = [m \in Meters |-> 0]
  /\ readings = 0
  /\ up = TRUE

Call(r, c) ==
  /\ pc[r] = "idle"
  /\ pc' = [pc EXCEPT ![r] = "waiting"]
  /\ cmd' = [cmd EXCEPT ![r] = c]
  /\ pending' = pending \cup {r}
  /\ UNCHANGED <<answer, calibrated, drift, readings, up>>

\* The call leaves the pending set with its answer, if its caller still waits.
Answer(r, a) ==
  /\ up
  /\ r \in pending
  /\ pending' = pending \ {r}
  /\ answer' = IF pc[r] = "waiting" THEN [answer EXCEPT ![r] = a] ELSE answer
  /\ UNCHANGED <<pc, cmd, up>>

Learn(m) ==
  /\ calibrated' = calibrated \cup {m}
  /\ drift' = [drift EXCEPT ![m] = 0]

\* A reading of a known meter is corrected with the meter's drift; the first
\* reading of a meter is returned as it is and makes the meter known.
Process(r) ==
  LET m == cmd[r].meter IN
  /\ cmd[r].op = "process"
  /\ readings' = readings + 1
  /\ \/ /\ m \in calibrated
        /\ Answer(r, [kind |-> "corrected", drift |-> drift[m]])
        /\ UNCHANGED <<calibrated, drift>>
     \/ /\ m \notin calibrated
        /\ Answer(r, [kind |-> "raw"])
        /\ Learn(m)

Recalibrate(r) ==
  /\ cmd[r].op = "recalibrate"
  /\ Answer(r, [kind |-> "recalibrated", drift |-> 0])
  /\ Learn(cmd[r].meter)
  /\ UNCHANGED readings

\* The backlog reported is not determined by what the service promises, but
\* for the limit it keeps to.
ReadMetrics(r) ==
  /\ cmd[r].op = "metrics"
  /\ \E depth \in 0 .. Capacity :
       Answer(r, [kind |-> "metrics", processed |-> readings,
                  active |-> Cardinality(calibrated), depth |-> depth])
  /\ UNCHANGED <<calibrated, drift, readings>>

Return(r) ==
  /\ pc[r] = "waiting"
  /\ answer[r] # NoReply
  /\ pc' = [pc EXCEPT ![r] = "done"]
  /\ UNCHANGED <<cmd, answer, pending, calibrated, drift, readings, up>>

ReturnFallback(r) ==
  /\ ~up
  /\ pc[r] = "waiting"
  /\ answer[r] = NoReply
  /\ pc' = [pc EXCEPT ![r] = "done"]
  /\ answer' = [answer EXCEPT ![r] = Fallback]
  /\ pending' = pending \ {r}
  /\ UNCHANGED <<cmd, calibrated, drift, readings, up>>

\* A caller may give up.  Its call may or may not take effect later.
GiveUp(r) ==
  /\ pc[r] = "waiting"
  /\ pc' = [pc EXCEPT ![r] = "cancelled"]
  /\ answer' = [answer EXCEPT ![r] = NoReply]
  /\ pending' \in {pending, pending \ {r}}
  /\ UNCHANGED <<cmd, calibrated, drift, readings, up>>

\* Background ageing of one known meter.
AgeMeter(m) ==
  /\ up
  /\ m \in calibrated
  /\ \E d \in 0 .. DriftCap : drift' = [drift EXCEPT ![m] = d]
  /\ UNCHANGED <<pc, cmd, answer, pending, calibrated, readings, up>>

\* The service goes down: what nobody can read any more is forgotten, and an
\* answer not returned yet may be lost.
GoDown ==
  /\ up
  /\ up' = FALSE
  /\ readings' = 0
  /\ pending' \in SUBSET pending
  /\ \E lost \in SUBSET {r \in Requests : pc[r] = "waiting"} :
       answer' = [r \in Requests |-> IF r \in lost THEN NoReply ELSE answer[r]]
  /\ UNCHANGED <<pc, cmd, calibrated, drift>>

Next ==
  \/ \E r \in Requests :
       \/ \E c \in Commands : Call(r, c)
       \/ Process(r)
       \/ Recalibrate(r)
       \/ ReadMetrics(r)
       \/ Return(r)
       \/ ReturnFallback(r)
       \/ GiveUp(r)
  \/ \E m \in Meters : AgeMeter(m)
  \/ GoDown

Spec == Init /\ [][Next]_vars
=============================================================================
