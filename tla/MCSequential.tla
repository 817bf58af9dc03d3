----------------------------- MODULE MCSequential -----------------------------
(***************************************************************************)
(* The smaller parts, which touch nothing of each other's state: `part'    *)
(* says which of them a behaviour is about, and the others keep still.     *)
(* Init, Next, Spec and ResultIsLeast are the optimizer's.  The MC names   *)
(* are for model checking; the rest is also proved about.                  *)
(***************************************************************************)
EXTENDS BudgetOptimizer, Sequences, TLC

CONSTANTS
  Meters, Kinds, History, FitSize, MaxSpan, SortLimit, Month, MaxClock,
  MaxReadings,
  Contracts, PageSize, MaxLedgers, MaxEvents,
  Connections, Capacity, MaxDatagrams,
  MaxEstimate, MaxTests

\* A reading is finite or not, with weather data or without; what the code
\* fixes (5, 7 and 20) may be any number, and months may be of any length.
ASSUME EngineAssumption ==
  /\ Kinds \subseteq [value : {"finite", "inf", "-inf", "nan"},
                      weather : BOOLEAN]
  /\ History \in Nat
  /\ FitSize \in Nat
  /\ MaxSpan \in Nat
  /\ SortLimit \in Nat
  /\ MaxClock \in Nat
  /\ MaxReadings \in Nat

ASSUME SyncerAssumption ==
  /\ PageSize \in Nat \ {0}
  /\ MaxLedgers \in Nat
  /\ MaxEvents \in Nat

ASSUME StreamAssumption ==
  /\ Capacity \in Nat \ {0}
  /\ MaxDatagrams \in Nat

VARIABLES
  part,
  clock, readings, coefficients, poisoned, answer, cutoff, ordered,
  ledgers, cursor, delivered, synced,
  task, received, buffer, consumer, consumed

Engine == INSTANCE DiagnosticEngine
Syncer == INSTANCE LedgerSync
Stream == INSTANCE IngestStream

MCKinds == {[value |-> "finite", weather |-> TRUE],
            [value |-> "nan", weather |-> TRUE],
            [value |-> "inf", weather |-> FALSE]}

\* Months of two units of time.
MCMonth == [t \in 0 .. MaxClock |-> t \div 2]

Symmetry == Permutations(Meters) \cup Permutations(Contracts)
              \cup Permutations(Connections)

optimizer == vars
engine == <<clock, readings, coefficients, poisoned, answer, cutoff, ordered>>
syncer == <<ledgers, cursor, delivered, synced>>
stream == <<task, received, buffer, consumer, consumed>>

allVars == <<part, optimizer, engine, syncer, stream>>

\* Any estimate, any set of sufficient budgets and any number of iterations
\* within the bounds, when the behaviour is about the optimizer.
MCInit ==
  /\ part \in {"optimizer", "engine", "syncer", "stream"}
  /\ estimate \in IF part = "optimizer" THEN 0 .. MaxEstimate ELSE {0}
  /\ succeeds \in IF part = "optimizer" THEN SUBSET (0 .. 2 * estimate) ELSE {{}}
  /\ maxIterations \in IF part = "optimizer" THEN 0 .. MaxTests ELSE {0}
  /\ Init
  /\ Engine!Init
  /\ Syncer!Init
  /\ Stream!Init

MCNext ==
  \/ /\ part = "optimizer" /\ Next
     /\ UNCHANGED <<part, engine, syncer, stream>>
  \/ /\ part = "engine" /\ Engine!Next
     /\ UNCHANGED <<part, optimizer, syncer, stream>>
  \/ /\ part = "syncer" /\ Syncer!Next
     /\ UNCHANGED <<part, optimizer, engine, stream>>
  \/ /\ part = "stream" /\ Stream!Next
     /\ UNCHANGED <<part, optimizer, engine, syncer>>

MCSpec == MCInit /\ [][MCNext]_allVars

-----------------------------------------------------------------------------
\* Every variable of every part has its type, and the bounds of the optimizer
\* never cross, so that its subtraction does not wrap.
AllTypesOK ==
  TypeOK /\ Engine!TypeOK /\ Syncer!TypeOK /\ Stream!TypeOK

\* A reading older than the history stays in a window only when readings of
\* its meter arrived out of order (analytics.rs:160-172).
OldReadingsOnlyOutOfOrder == Engine!OldReadingsOnlyOutOfOrder

\* A diagnosis that compares with something that is not finite comes from a bad
\* reading in the window, or from a weather model fitted on one and for lack of
\* weather readings not fitted again (analytics.rs:194-214, 355-365, 480).
UnsoundOnlyByBadReading == Engine!UnsoundOnlyByBadReading

\* All meters are refused a diagnosis only because some window holds a bad
\* reading that made a sort panic under the mutex (analytics.rs:299, 426).
RefusalNeedsBadReading == Engine!RefusalNeedsBadReading

\* A syncer that serves one contract misses no event of it, and is stuck only at
\* a ledger that fills a whole response (sync.rs:22-60).
OneContractMissesNothing == Syncer!OneContractMissesNothing

\* What shares the cursor with other contracts is left behind only when one of
\* them overtakes it (sync.rs:37, sync.rs:55-57).
OnlyOthersOvertake == Syncer!OnlyOthersOvertake

\* The consumer gets the events of each connection in order and without a gap,
\* full buffer or not (stream.rs:31-61).
NoGapWhileConsumed == Stream!NoGapWhileConsumed
=============================================================================
