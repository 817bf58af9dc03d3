--------------------------- MODULE BudgetOptimizer ---------------------------
(***************************************************************************)
(* budget_optimizer of src/src/soroban/preflight.rs: a bisection for the   *)
(* least budget that a simulation succeeds with, between half and twice an *)
(* estimate, that gives up after max_iterations tests.                     *)
(*                                                                         *)
(* One step is one pass of the loop.  success_fn is the set of budgets it  *)
(* accepts, which need not be upward closed.  The three arguments are      *)
(* variables that keep their initial values.  Halving and doubling in      *)
(* floating point are exact below 2^53.                                    *)
(***************************************************************************)
EXTENDS Integers

VARIABLES
  estimate,       \* initial_estimate
  succeeds,       \* success_fn
  maxIterations,
  low, high, best,
  tests,          \* passes of the loop so far
  done,
  tested,         \* history: the budgets success_fn was called with
  halvings        \* history: 2 to the number of tests

vars == <<estimate, succeeds, maxIterations, low, high, best, tests, done,
          tested, halvings>>

arguments == <<estimate, succeeds, maxIterations>>

Half == (estimate + 1) \div 2
Cap == 2 * estimate

Init ==
  /\ estimate \in Nat
  /\ succeeds \in SUBSET Nat
  /\ maxIterations \in Nat
  /\ low = Half
  /\ high = Cap
  /\ best = Cap
  /\ tests = 0
  /\ done = FALSE
  /\ tested = {}
  /\ halvings = 1

\* Mutant of Mid: half the width without the lower bound.
MidOfWidth == (high - low) \div 2

Mid == low + (high - low) \div 2

Test ==
  /\ ~ done
  /\ tests < maxIterations
  /\ tests' = tests + 1
  /\ tested' = tested \cup {Mid}
  /\ halvings' = 2 * halvings

Succeed ==
  /\ Test
  /\ Mid \in succeeds
  /\ best' = Mid
  /\ done' = (Mid = low)
  /\ high' = IF Mid = low THEN high ELSE Mid
  /\ UNCHANGED <<arguments, low>>

\* Mutant of Fail: the last candidate does not end the loop.
FailOn ==
  /\ Test
  /\ Mid \notin succeeds
  /\ low' = Mid + 1
  /\ UNCHANGED <<arguments, high, best, done>>

Fail ==
  /\ Test
  /\ Mid \notin succeeds
  /\ done' = (Mid = high)
  /\ low' = IF Mid = high THEN low ELSE Mid + 1
  /\ UNCHANGED <<arguments, high, best>>

GiveUp ==
  /\ ~ done
  /\ tests = maxIterations
  /\ done' = TRUE
  /\ UNCHANGED <<arguments, low, high, best, tests, tested, halvings>>

Next == Succeed \/ Fail \/ GiveUp

Spec == Init /\ [][Next]_vars

-----------------------------------------------------------------------------
\* Every variable has its type, and high - low never wraps.
TypeOK ==
  /\ estimate \in Nat
  /\ succeeds \in SUBSET Nat
  /\ maxIterations \in Nat
  /\ low \in Nat
  /\ high \in low .. Cap
  /\ best \in Nat
  /\ tests \in 0 .. maxIterations
  /\ done \in BOOLEAN
  /\ tested \in SUBSET Nat
  /\ halvings \in Nat \ {0}

\* More budget never hurts.
Monotone == \A b \in succeeds : b + 1 .. Cap \subseteq succeeds

\* The loop ended of itself, or its tests were enough to halve the range down
\* to a single budget.
Finished == done /\ (tests < maxIterations \/ halvings > Cap - Half)

\* The best budget passed its test; only when no tested budget passed it is
\* twice the estimate, which may not have been tested, or have failed.  When
\* more budget never hurts and the loop was not cut short, it is the least one
\* of the range that passes, or the end of the range if none does
\* (preflight.rs:173-199).
ResultIsLeast ==
  /\ \/ best \in succeeds \cap tested
     \/ best = Cap /\ succeeds \cap tested = {}
  /\ Monotone /\ Finished => succeeds \cap (Half .. best - 1) = {}
=============================================================================
