------------------------------ MODULE Preflight ------------------------------
(***************************************************************************)
(* run_preflight of src/src/soroban/preflight.rs: look the operation up in *)
(* a global LRU cache, else simulate it a fixed number of times, each with *)
(* an instruction leeway adapted to the round before, store the last       *)
(* result and return it with a safety margin.                              *)
(*                                                                         *)
(* The cache is under a std mutex held for one get, put or clear; a call   *)
(* awaits the RPC between its get and its put, so that others run, the     *)
(* cache is cleared, or the call is dropped meanwhile.  The ledger, and    *)
(* hence the result of a simulation, may change between two rounds.        *)
(*                                                                         *)
(* Of a result, only the instructions (which steer the leeway) and the fee *)
(* (which the margin is added to before and after storing) are kept.  The  *)
(* margins are whole per cents.                                            *)
(***************************************************************************)
EXTENDS Integers, Sequences, SequencesExt

CONSTANTS
  Calls,     \* calls of run_preflight
  Keys,      \* contract and hash of the operation
  Margins,   \* safety margins the callers are configured with, in per cent
  Rounds,    \* max_iterations
  Capacity,  \* entries in the cache
  Results    \* what a simulation may return

ASSUME PreflightAssumption ==
  /\ Margins \subseteq Nat
  /\ Rounds \in Nat
  /\ Capacity \in Nat \ {0}
  /\ Results \subseteq [instructions : Nat, fee : Nat]

VARIABLES
  cache,   \* entries, the most recently used first
  pc,      \* where each call is
  key,     \* what each call is about
  margin,  \* the margin each call is configured with
  round,   \* rounds each call has been through
  leeway,  \* the leeway of the next round
  result,  \* the result of the last round, with the leeway it was run with
  steady,  \* history: all rounds of the call took as many instructions
  answer   \* the fee each call has returned

vars == <<cache, pc, key, margin, round, leeway, result, steady, answer>>

CeilDiv(a, b) == (a + b - 1) \div b

\* v * (1 + m) rounded up, exactly: apply_safety_margin.
Padded(v, m) == CeilDiv(v * (100 + m), 100)

\* ceil(x * p / 100) in floating point: when the product is whole, rounding it
\* may have pushed it over, and one more comes out.
FloatCeil(x, p) ==
  {CeilDiv(x * p, 100)} \cup
  (IF p \notin {0, 50, 100} /\ (x * p) % 100 = 0 THEN {(x * p) \div 100 + 1} ELSE {})

InitialLeeway == 1000000
MinFraction == 10
MaxFraction == 50

Nothing == [instructions |-> 0, fee |-> 0, leeway |-> 0]

Init ==
  /\ cache = << >>
  /\ pc = [c \in Calls |-> "idle"]
  /\ key \in [Calls -> Keys]
  /\ margin \in [Calls -> Margins]
  /\ round = [c \in Calls |-> 0]
  /\ leeway = [c \in Calls |-> InitialLeeway]
  /\ result = [c \in Calls |-> Nothing]
  /\ steady = [c \in Calls |-> TRUE]
  /\ answer = [c \in Calls |-> 0]

-----------------------------------------------------------------------------
(* The cache *)

Cached(k) == \E i \in DOMAIN cache : cache[i].key = k

Position(k) == CHOOSE i \in DOMAIN cache : cache[i].key = k

\* LruCache::get makes the entry the most recently used.
Touched(k) == <<cache[Position(k)]>> \o RemoveAt(cache, Position(k))

\* Mutant of WithEntry: a list that is never trimmed.
WithEntryKept(e) == <<e>> \o cache

\* LruCache::put replaces the entry of the key or, in a full cache, pushes the
\* oldest one out.
WithEntry(e) ==
  <<e>> \o (IF Cached(e.key) THEN RemoveAt(cache, Position(e.key))
            ELSE IF Len(cache) < Capacity THEN cache
            ELSE Front(cache))

-----------------------------------------------------------------------------
(* A call *)

Hit(c) ==
  /\ pc[c] = "idle"
  /\ Cached(key[c])
  /\ cache' = Touched(key[c])
  /\ answer' = [answer EXCEPT ![c] =
                  Padded(cache[Position(key[c])].fee, margin[c])]
  /\ pc' = [pc EXCEPT ![c] = "ok"]
  /\ UNCHANGED <<key, margin, round, leeway, result, steady>>

Miss(c) ==
  /\ pc[c] = "idle"
  /\ ~ Cached(key[c])
  /\ pc' = [pc EXCEPT ![c] = IF Rounds = 0 THEN "error" ELSE "simulating"]
  /\ UNCHANGED <<cache, key, margin, round, leeway, result, steady, answer>>

\* Mutant of NextLeeway: the two fractions swapped.
NextLeewaySwapped(n, used, first) ==
  IF 100 * used < MinFraction * n THEN FloatCeil(n, MinFraction)
  ELSE IF 100 * used > MaxFraction * n /\ ~ first THEN FloatCeil(n, MaxFraction)
  ELSE {used}

\* The leeway after a round that took n instructions under `used'.
NextLeeway(n, used, first) ==
  LET actual == IF n = 0 THEN 1 ELSE n IN
  IF 100 * used < MinFraction * actual THEN FloatCeil(n, MaxFraction)
  ELSE IF 100 * used > MaxFraction * actual /\ ~ first
       THEN FloatCeil(n, MinFraction)
  ELSE {used}

\* run_preflight_raw returns in a round, the last one or not.
Simulated(c, r) ==
  /\ pc[c] = "simulating"
  /\ round' = [round EXCEPT ![c] = @ + 1]
  /\ result' = [result EXCEPT ![c] =
       [instructions |-> r.instructions, fee |-> r.fee, leeway |-> leeway[c]]]
  /\ steady' = [steady EXCEPT ![c] =
       @ /\ (round[c] = 0 \/ r.instructions = result[c].instructions)]
  /\ \E l \in NextLeeway(r.instructions, leeway[c], round[c] = 0) :
       leeway' = [leeway EXCEPT ![c] = l]

\* Mutant of Round: every round stores its result.
RoundStoring(c, r) ==
  /\ round[c] + 1 < Rounds
  /\ Simulated(c, r)
  /\ cache' = WithEntry([key |-> key[c], fee |-> r.fee, by |-> c])
  /\ UNCHANGED <<pc, key, margin, answer>>

Round(c, r) ==
  /\ round[c] + 1 < Rounds
  /\ Simulated(c, r)
  /\ UNCHANGED <<cache, pc, key, margin, answer>>

\* The fee gets the margin before it is stored and again when it is returned.
LastRound(c, r) ==
  /\ round[c] + 1 = Rounds
  /\ Simulated(c, r)
  /\ \E fee \in FloatCeil(r.fee, 100 + margin[c]) :
       /\ cache' = WithEntry([key |-> key[c], fee |-> fee, by |-> c])
       /\ answer' = [answer EXCEPT ![c] = Padded(fee, margin[c])]
  /\ pc' = [pc EXCEPT ![c] = "ok"]
  /\ UNCHANGED <<key, margin>>

\* The call ends without a result, and its rounds are lost.
Abandon(c, how) ==
  /\ pc[c] = "simulating"
  /\ pc' = [pc EXCEPT ![c] = how]
  /\ round' = [round EXCEPT ![c] = 0]
  /\ leeway' = [leeway EXCEPT ![c] = InitialLeeway]
  /\ result' = [result EXCEPT ![c] = Nothing]
  /\ steady' = [steady EXCEPT ![c] = TRUE]
  /\ UNCHANGED <<cache, key, margin, answer>>

\* The request fails or its answer cannot be read.
Fail(c) == Abandon(c, "error")

\* The future is dropped at one of its awaits.
Cancel(c) == Abandon(c, "cancelled")

ClearCache ==
  /\ cache' = << >>
  /\ UNCHANGED <<pc, key, margin, round, leeway, result, steady, answer>>

Start(c) == Hit(c) \/ Miss(c)

\* The RPC is outside the repository: it answers, or the connection fails, or
\* neither ever happens, as the client sets no timeout.
Respond(c) ==
  Fail(c) \/ \E r \in Results : Round(c, r) \/ LastRound(c, r)

Next ==
  \/ \E c \in Calls : Start(c) \/ Respond(c) \/ Cancel(c)
  \/ ClearCache

Spec == Init /\ [][Next]_vars

-----------------------------------------------------------------------------
\* Every variable has its type; the cache has one entry of a key, and no more
\* than it may hold.
TypeOK ==
  /\ cache \in Seq([key : Keys, fee : Nat, by : Calls])
  /\ Len(cache) <= Capacity
  /\ \A i, j \in DOMAIN cache : cache[i].key = cache[j].key => i = j
  /\ pc \in [Calls -> {"idle", "simulating", "ok", "error", "cancelled"}]
  /\ key \in [Calls -> Keys]
  /\ margin \in [Calls -> Margins]
  /\ round \in [Calls -> 0 .. Rounds]
  /\ leeway \in [Calls -> Nat]
  /\ result \in [Calls -> [instructions : Nat, fee : Nat, leeway : Nat]]
  /\ steady \in [Calls -> BOOLEAN]
  /\ answer \in [Calls -> Nat]

\* Whatever runs, failures, cancellations and clearings overlapped, an entry of
\* the cache was left by a call that went through all its rounds for that very
\* operation, and a hit under the same margin returns the fee that this call
\* returned (preflight.rs:120-159).
CacheHoldsFinalResults ==
  \A i \in DOMAIN cache :
    LET e == cache[i] IN
    /\ pc[e.by] = "ok"
    /\ round[e.by] = Rounds
    /\ key[e.by] = e.key
    /\ Padded(e.fee, margin[e.by]) = answer[e.by]

\* When the simulation takes the same number of instructions in every round,
\* the last of the three rounds that are the default ran with a leeway between
\* the minimal and the maximal fraction of it, however far this number is from
\* the one million the search starts with (preflight.rs:126-145).
LastRoundHasLeeway ==
  \A c \in Calls :
    /\ Rounds >= 3
    /\ round[c] = Rounds
    /\ steady[c]
    /\ result[c].instructions >= 2
    => /\ 100 * result[c].leeway >= MinFraction * result[c].instructions
       /\ 100 * result[c].leeway <= MaxFraction * result[c].instructions
=============================================================================
