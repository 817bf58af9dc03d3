--------------------------- MODULE SequentialProofs ---------------------------
(***************************************************************************)
(* Proofs about the parts that MCSequential puts side by side, for every   *)
(* value of its constants: the budget optimizer, the diagnostic engine,    *)
(* the ledger syncer and the ingest stream.                                *)
(***************************************************************************)
EXTENDS MCSequential, FiniteSetTheorems, SequenceTheorems, TLAPS

-----------------------------------------------------------------------------
(* The budget optimizer *)

\* The range only shrinks, at least by half with each test; what was ruled out
\* below it fails, and its end is the best budget until the loop ends.
SearchRange ==
  /\ Half <= low
  /\ (best - low) * halvings <= Cap - Half
  /\ best \in low .. high
  /\ ~ done => best = high

Kept ==
  \/ best \in succeeds \cap tested
  \/ best = Cap /\ succeeds \cap tested = {}

RuledOut ==
  Monotone =>
    /\ succeeds \cap (Half .. low - 1) = {}
    /\ done /\ tests < maxIterations => best = low

IInv == TypeOK /\ SearchRange /\ Kept /\ RuledOut

\* The middle is in the range, and both halves are at most half as wide.
LEMMA Middle ==
  ASSUME NEW l \in Nat, NEW h \in Nat, l <= h
  PROVE  LET m == l + (h - l) \div 2 IN
         /\ m \in Nat
         /\ l <= m
         /\ m <= h
         /\ m = h => l = h
         /\ 2 * (m - l) <= h - l
         /\ 2 * (h - (m + 1)) <= h - l
  OBVIOUS

\* A range half as wide fits twice as often.
LEMMA Halving ==
  ASSUME NEW w \in Int, NEW v \in Int, NEW k \in Nat, NEW c \in Int,
         w * k <= c, 2 * v <= w
  PROVE  v * (2 * k) <= c
<1>1. (2 * v) * k <= w * k
  OBVIOUS
<1>2. v * (2 * k) = (2 * v) * k
  OBVIOUS
<1> QED  BY <1>1, <1>2

\* A width that fits more often than the whole is wide is zero.
LEMMA NoWidth ==
  ASSUME NEW w \in Nat, NEW k \in Nat, NEW c \in Int, w * k <= c, k > c
  PROVE  w = 0
<1>1. SUFFICES ASSUME w >= 1 PROVE FALSE
  OBVIOUS
<1>2. (w - 1) * k >= 0
  BY <1>1
<1>3. w * k = (w - 1) * k + k
  OBVIOUS
<1> QED  BY <1>2, <1>3

LEMMA InitInv == ASSUME Init PROVE IInv
<1>1. Half \in Nat /\ Cap \in Nat /\ Half <= Cap /\ Half - 1 < Half
  BY DEF Init, Half, Cap
<1>2. TypeOK
  <2>1. low \in Nat /\ high \in low .. Cap /\ best \in Nat
    BY <1>1 DEF Init
  <2>2. tests \in 0 .. maxIterations /\ halvings \in Nat \ {0}
    BY DEF Init
  <2> QED  BY <2>1, <2>2 DEF Init, TypeOK
<1>3. SearchRange
  BY <1>1 DEF Init, SearchRange
<1>4. Kept
  BY DEF Init, Kept
<1>5. RuledOut
  <2>1. Half .. low - 1 = {}
    BY <1>1 DEF Init
  <2> QED  BY <2>1 DEF Init, RuledOut
<1> QED  BY <1>2, <1>3, <1>4, <1>5 DEF IInv

\* What a test leaves alone, and where its budget lies.
LEMMA TestFacts ==
  ASSUME IInv, Test, UNCHANGED arguments
  PROVE  /\ Mid \in Nat /\ low <= Mid /\ Mid <= high
         /\ Mid = high => low = high
         /\ 2 * (Mid - low) <= high - low
         /\ 2 * (high - (Mid + 1)) <= high - low
         /\ best = high /\ ~ done
         /\ Half \in Nat /\ Cap \in Nat /\ Half' = Half /\ Cap' = Cap
         /\ Monotone' = Monotone
         /\ tests' \in 0 .. maxIterations' /\ tests' = tests + 1
         /\ tested' \in SUBSET Nat
         /\ halvings' = 2 * halvings /\ halvings' \in Nat \ {0}
<1>1. Half \in Nat /\ Cap \in Nat /\ Half' = Half /\ Cap' = Cap
  BY DEF IInv, TypeOK, Half, Cap, arguments
<1>2. low \in Nat /\ high \in Nat /\ low <= high
  BY <1>1 DEF IInv, TypeOK
<1>3. /\ Mid \in Nat /\ low <= Mid /\ Mid <= high
      /\ Mid = high => low = high
      /\ 2 * (Mid - low) <= high - low
      /\ 2 * (high - (Mid + 1)) <= high - low
  BY <1>2, Middle DEF Mid
<1>4. best = high /\ ~ done
  BY DEF IInv, SearchRange, Test
<1>5. Monotone' = Monotone
  BY <1>1 DEF Monotone, arguments
<1>6. tests' \in 0 .. maxIterations' /\ tests' = tests + 1
  BY DEF IInv, TypeOK, Test, arguments
<1>7. tested' \in SUBSET Nat
  BY <1>3 DEF IInv, TypeOK, Test
<1>8. halvings' = 2 * halvings /\ halvings' \in Nat \ {0}
  BY DEF IInv, TypeOK, Test
<1> QED  BY <1>1, <1>3, <1>4, <1>5, <1>6, <1>7, <1>8

LEMMA SucceedKeepsInv ==
  ASSUME IInv, Succeed
  PROVE  IInv'
<1> DEFINE next == IF Mid = low THEN high ELSE Mid
<1>0. Test /\ UNCHANGED arguments
  BY DEF Succeed
<1>1. /\ Mid \in succeeds /\ best' = Mid /\ done' = (Mid = low)
      /\ high' = next /\ low' = low
  BY DEF Succeed
<1>2. /\ Mid \in Nat /\ low <= Mid /\ Mid <= high
      /\ 2 * (Mid - low) <= high - low /\ best = high /\ ~ done
      /\ Half \in Nat /\ Cap \in Nat /\ Half' = Half /\ Cap' = Cap
      /\ Monotone' = Monotone
      /\ tests' \in 0 .. maxIterations' /\ tested' \in SUBSET Nat
      /\ halvings' = 2 * halvings /\ halvings' \in Nat \ {0}
  BY <1>0, TestFacts
<1>3. /\ low \in Nat /\ high \in low .. Cap /\ high \in Nat /\ halvings \in Nat
      /\ Half <= low /\ (high - low) * halvings <= Cap - Half
  BY <1>2 DEF IInv, TypeOK, SearchRange
<1>4. TypeOK'
  BY <1>0, <1>1, <1>2, <1>3 DEF IInv, TypeOK, arguments
<1>5. SearchRange'
  <2>1. (Mid - low) * (2 * halvings) <= Cap - Half
    BY <1>2, <1>3, Halving
  <2>2. (best' - low') * halvings' <= Cap' - Half'
    BY <2>1, <1>1, <1>2
  <2>3. best' \in low' .. high' /\ (~ done' => best' = high')
    <3>1. low' = low /\ best' = Mid /\ (high' = high \/ high' = Mid)
      BY <1>1
    <3>2. ~ done' => high' = Mid
      BY <1>1
    <3> QED  BY <3>1, <3>2, <1>2, <1>3
  <2> QED  BY <2>2, <2>3, <1>1, <1>2, <1>3 DEF SearchRange
<1>6. Kept'
  BY <1>0, <1>1 DEF Kept, Test, arguments
<1>7. RuledOut'
  <2>1. SUFFICES ASSUME Monotone
                 PROVE  /\ succeeds' \cap (Half' .. low' - 1) = {}
                        /\ done' => best' = low'
    BY <1>2 DEF RuledOut
  <2>2. succeeds' \cap (Half' .. low' - 1) = {}
    BY <2>1, <1>0, <1>1, <1>2 DEF IInv, RuledOut, arguments
  <2> QED  BY <2>2, <1>1
<1> QED  BY <1>4, <1>5, <1>6, <1>7 DEF IInv

LEMMA FailKeepsInv ==
  ASSUME IInv, Fail
  PROVE  IInv'
<1> DEFINE next == IF Mid = high THEN low ELSE Mid + 1
<1>0. Test /\ UNCHANGED arguments
  BY DEF Fail
<1>1. /\ Mid \notin succeeds /\ done' = (Mid = high)
      /\ low' = next /\ high' = high /\ best' = best
  BY DEF Fail
<1>2. /\ Mid \in Nat /\ low <= Mid /\ Mid <= high
      /\ Mid = high => low = high
      /\ 2 * (high - (Mid + 1)) <= high - low /\ best = high /\ ~ done
      /\ Half \in Nat /\ Cap \in Nat /\ Half' = Half /\ Cap' = Cap
      /\ Monotone' = Monotone
      /\ tests' \in 0 .. maxIterations' /\ tested' \in SUBSET Nat
      /\ halvings' = 2 * halvings /\ halvings' \in Nat \ {0}
  BY <1>0, TestFacts
<1>3. /\ low \in Nat /\ high \in low .. Cap /\ high \in Nat /\ halvings \in Nat
      /\ Half <= low /\ (high - low) * halvings <= Cap - Half
  BY <1>2 DEF IInv, TypeOK, SearchRange
<1>4. TypeOK'
  <2>1. low' \in Nat /\ high' \in low' .. Cap' /\ best' \in Nat
    BY <1>1, <1>2, <1>3
  <2> QED
    BY <2>1, <1>0, <1>1, <1>2 DEF IInv, TypeOK, arguments
<1>5. SearchRange'
  <2>1. (best' - low') * halvings' <= Cap' - Half'
    <3>1. CASE Mid = high
      <4>1. best' - low' = 0
        BY <3>1, <1>1, <1>2, <1>3
      <4>2. Half <= Cap
        BY <1>2, <1>3
      <4> QED  BY <4>1, <4>2, <1>2
    <3>2. CASE Mid # high
      <4>1. (high - (Mid + 1)) * (2 * halvings) <= Cap - Half
        BY <1>2, <1>3, Halving
      <4> QED  BY <4>1, <3>2, <1>1, <1>2
    <3> QED  BY <3>1, <3>2
  <2>2. Half' <= low' /\ best' \in low' .. high' /\ best' = high'
    BY <1>1, <1>2, <1>3
  <2> QED  BY <2>1, <2>2 DEF SearchRange
<1>6. Kept'
  BY <1>0, <1>1, <1>2 DEF IInv, Kept, Test, arguments
<1>7. RuledOut'
  <2>1. SUFFICES ASSUME Monotone
                 PROVE  /\ succeeds' \cap (Half' .. low' - 1) = {}
                        /\ done' => best' = low'
    BY <1>2 DEF RuledOut
  <2>2. done' => best' = low'
    BY <1>1, <1>2
  <2>3. succeeds \cap (Half .. low - 1) = {}
    BY <2>1 DEF IInv, RuledOut
  <2>4. succeeds' = succeeds
    BY <1>0 DEF arguments
  <2>5. CASE Mid = high
    BY <2>2, <2>3, <2>4, <2>5, <1>1, <1>2
  <2>6. CASE Mid # high
    <3>1. SUFFICES ASSUME NEW b \in succeeds, b \in Half .. Mid PROVE FALSE
      BY <2>2, <2>4, <2>6, <1>1, <1>2
    <3>2. b < Mid
      BY <3>1, <1>1, <1>2
    <3>3. Mid \in b + 1 .. Cap
      BY <3>1, <3>2, <1>2, <1>3
    <3> QED  BY <3>1, <3>3, <2>1, <1>1 DEF Monotone
  <2> QED  BY <2>5, <2>6
<1> QED  BY <1>4, <1>5, <1>6, <1>7 DEF IInv

LEMMA GiveUpKeepsInv ==
  ASSUME IInv, GiveUp
  PROVE  IInv'
<1>1. /\ done' = TRUE /\ tests = maxIterations
      /\ UNCHANGED <<arguments, low, high, best, tests, tested, halvings>>
  BY DEF GiveUp
<1>2. maxIterations \in Nat
  BY DEF IInv, TypeOK
<1>3. TypeOK'
  BY <1>1 DEF IInv, TypeOK, Half, Cap, arguments
<1>4. SearchRange'
  BY <1>1 DEF IInv, SearchRange, Half, Cap, arguments
<1>5. Kept'
  BY <1>1 DEF IInv, Kept, Cap, arguments
<1>6. RuledOut'
  <2>1. Monotone' = Monotone /\ Half' = Half
    BY <1>1 DEF Monotone, Half, Cap, arguments
  <2>2. ~ (tests' < maxIterations')
    BY <1>1, <1>2 DEF arguments
  <2> QED  BY <2>1, <2>2, <1>1 DEF IInv, RuledOut, arguments
<1> QED  BY <1>3, <1>4, <1>5, <1>6 DEF IInv

LEMMA NextInv == ASSUME IInv, [Next]_vars PROVE IInv'
<1>1. CASE Succeed  BY <1>1, SucceedKeepsInv
<1>2. CASE Fail     BY <1>2, FailKeepsInv
<1>3. CASE GiveUp   BY <1>3, GiveUpKeepsInv
<1>4. CASE UNCHANGED vars
  BY <1>4 DEF vars, IInv, TypeOK, SearchRange, Kept, RuledOut, Monotone, Half, Cap
<1> QED  BY <1>1, <1>2, <1>3, <1>4 DEF Next

LEMMA InvImpliesLeast == ASSUME IInv PROVE ResultIsLeast
<1>1. Kept
  BY DEF IInv
<1>2. ASSUME Monotone, Finished PROVE succeeds \cap (Half .. best - 1) = {}
  <2>1. /\ low \in Nat /\ best \in Nat /\ halvings \in Nat /\ best - low \in Nat
        /\ Cap - Half \in Int /\ (best - low) * halvings <= Cap - Half
    BY DEF IInv, TypeOK, SearchRange, Half, Cap
  <2>2. best = low
    <3>1. CASE tests < maxIterations
      BY <3>1, <1>2 DEF IInv, RuledOut, Finished
    <3>2. CASE halvings > Cap - Half
      <4>1. best - low = 0
        BY <3>2, <2>1, NoWidth
      <4> QED  BY <4>1, <2>1
    <3> QED  BY <3>1, <3>2, <1>2 DEF Finished
  <2> QED  BY <2>2, <1>2 DEF IInv, RuledOut
<1> QED  BY <1>1, <1>2 DEF ResultIsLeast, Kept

-----------------------------------------------------------------------------
\* The bounds of the search never cross, so that their difference never wraps,
\* whatever the success function answers (preflight.rs:183).
THEOREM OptimizerTypeCorrect == Spec => []TypeOK
<1>1. IInv => TypeOK
  BY DEF IInv
<1> QED  BY <1>1, InitInv, NextInv, PTL DEF Spec

\* The optimizer returns the best budget that passed, and the least of its
\* range when more never hurts and its tests sufficed (preflight.rs:173-199).
THEOREM ResultIsAlwaysLeast == Spec => []ResultIsLeast
<1> QED  BY InitInv, NextInv, InvImpliesLeast, PTL DEF Spec

-----------------------------------------------------------------------------
(* The diagnostic engine: types *)

\* The instance brings its own copy of FiniteSets.
LEMMA EngineCardinality ==
  ASSUME NEW S
  PROVE  Engine!Cardinality(S) = Cardinality(S)
BY DEF Cardinality, Engine!Cardinality

\* The readings in front of the first one that is not older than the limit.
Prefix(w, limit) == {i \in DOMAIN w : \A j \in 1 .. i : w[j].at < limit}

\* Pruning takes a number of readings off the front, as many as the prefix has.
LEMMA PrunedProperties ==
  ASSUME NEW S, NEW w \in Seq(S), NEW limit
  PROVE  LET k == Cardinality(Prefix(w, limit))
             p == Engine!Pruned(w, limit)
         IN  /\ k \in 0 .. Len(w)
             /\ p \in Seq(S)
             /\ Len(p) = Len(w) - k
             /\ \A i \in 1 .. Len(w) - k : p[i] = w[i + k]
<1> DEFINE k == Cardinality(Prefix(w, limit))
           p == Engine!Pruned(w, limit)
<1>1. k \in 0 .. Len(w)
  <2>1. Len(w) \in Nat /\ Prefix(w, limit) \subseteq 1 .. Len(w)
    BY DEF Prefix
  <2>2. /\ IsFiniteSet(1 .. Len(w))
        /\ Cardinality(1 .. Len(w)) = Len(w)
    <3>1. /\ IsFiniteSet(1 .. Len(w))
          /\ Cardinality(1 .. Len(w))
               = IF 1 > Len(w) THEN 0 ELSE Len(w) - 1 + 1
      BY <2>1, FS_Interval
    <3> QED
      BY <2>1, <3>1
  <2>3. IsFiniteSet(Prefix(w, limit)) /\ k <= Len(w)
    BY <2>1, <2>2, FS_Subset
  <2> QED
    BY <2>1, <2>3, FS_CardinalityType
<1>2. p = SubSeq(w, 1 + k, Len(w))
  BY EngineCardinality DEF Engine!Pruned, Prefix
<1> HIDE DEF k, p
<1>3. /\ p \in Seq(S)
      /\ Len(p) = IF 1 + k <= Len(w) THEN Len(w) - (1 + k) + 1 ELSE 0
      /\ \A i \in 1 .. Len(w) - (1 + k) + 1 : p[i] = w[(1 + k) + i - 1]
  <2>1. 1 + k \in Int /\ Len(w) \in Int
        /\ \A i \in 1 + k .. Len(w) : w[i] \in S
    BY <1>1
  <2> QED
    BY <1>2, <2>1, SubSeqProperties
<1>4. Len(p) = Len(w) - k
  BY <1>1, <1>3
<1>5. ASSUME NEW i \in 1 .. Len(w) - k
      PROVE  p[i] = w[i + k]
  <2>1. i \in 1 .. Len(w) - (1 + k) + 1 /\ (1 + k) + i - 1 = i + k
    BY <1>1, <1>5
  <2> QED
    BY <1>3, <2>1
<1> QED
  BY <1>1, <1>3, <1>4, <1>5 DEF k, p

\* The readings the engine is given.
LEMMA IngestedReading ==
  ASSUME clock \in 0 .. MaxClock, NEW k \in Kinds, NEW t \in 0 .. clock
  PROVE  [at |-> t, value |-> k.value, weather |-> k.weather] \in Engine!Readings
<1>1. k.value \in Engine!Values /\ k.weather \in BOOLEAN
  BY EngineAssumption DEF Engine!Values
<1>2. t \in 0 .. MaxClock
  BY EngineAssumption
<1> QED
  BY <1>1, <1>2 DEF Engine!Readings

LEMMA EngineConstants ==
  /\ History \in Nat
  /\ FitSize \in Nat
  /\ MaxSpan \in Nat
  /\ SortLimit \in Nat
  /\ MaxClock \in Nat
  /\ MaxReadings \in Nat
BY EngineAssumption

LEMMA EngineInit == Engine!Init => Engine!TypeOK
<1> SUFFICES ASSUME Engine!Init PROVE Engine!TypeOK
  OBVIOUS
<1>1. Engine!Stored = {}
  BY DEF Engine!Init, Engine!Stored
<1>2. Engine!Cardinality(Engine!Stored) = 0
  BY <1>1, EngineCardinality, FS_EmptySet
<1>3. clock \in 0 .. MaxClock /\ Engine!Cardinality(Engine!Stored) <= MaxReadings
  BY <1>2, EngineAssumption DEF Engine!Init
<1>4. readings \in [Meters -> Seq(Engine!Readings)]
  <2>1. << >> \in Seq(Engine!Readings)
    OBVIOUS
  <2> QED
    BY <2>1 DEF Engine!Init
<1>5. Engine!NoAnswer \in Engine!Answers
  BY DEF Engine!NoAnswer, Engine!Answers
<1>6. /\ coefficients \in [Meters -> {"none", "finite", "not finite"}]
      /\ poisoned \in BOOLEAN
      /\ answer \in Engine!Answers
      /\ cutoff \in [Meters -> Int]
      /\ ordered \in [Meters -> BOOLEAN]
  <2>1. /\ coefficients = [m \in Meters |-> "none"]
        /\ poisoned = FALSE
        /\ answer = Engine!NoAnswer
        /\ cutoff = [m \in Meters |-> 0]
        /\ ordered = [m \in Meters |-> TRUE]
    BY DEF Engine!Init
  <2>2. coefficients \in [Meters -> {"none", "finite", "not finite"}]
    BY <2>1
  <2>3. cutoff \in [Meters -> Int]
    BY <2>1
  <2>4. ordered \in [Meters -> BOOLEAN]
    BY <2>1
  <2>5. poisoned \in BOOLEAN /\ answer \in Engine!Answers
    BY <1>5, <2>1
  <2> QED
    BY <2>2, <2>3, <2>4, <2>5
<1> QED
  BY <1>3, <1>4, <1>6 DEF Engine!TypeOK

LEMMA EngineStep ==
  Engine!TypeOK /\ [Engine!Next]_(Engine!vars) => Engine!TypeOK'
<1> SUFFICES ASSUME Engine!TypeOK, [Engine!Next]_(Engine!vars)
             PROVE  Engine!TypeOK'
  OBVIOUS
<1>0. Engine!NoAnswer \in Engine!Answers
  BY DEF Engine!NoAnswer, Engine!Answers
<1>t. /\ clock \in 0 .. MaxClock
      /\ readings \in [Meters -> Seq(Engine!Readings)]
      /\ Engine!Cardinality(Engine!Stored) <= MaxReadings
      /\ coefficients \in [Meters -> {"none", "finite", "not finite"}]
      /\ poisoned \in BOOLEAN
      /\ answer \in Engine!Answers
      /\ cutoff \in [Meters -> Int]
      /\ ordered \in [Meters -> BOOLEAN]
  BY DEF Engine!TypeOK
<1>1. CASE Engine!Tick
  <2>1. clock' \in 0 .. MaxClock
    <3>1. clock \in 0 .. MaxClock /\ clock < MaxClock /\ clock' = clock + 1
      BY <1>1, <1>t DEF Engine!Tick
    <3> QED
      BY <3>1, EngineConstants
  <2>2. UNCHANGED Engine!Stored
    BY <1>1 DEF Engine!Tick, Engine!Stored
  <2> QED
    BY <1>0, <1>1, <1>t, <2>1, <2>2 DEF Engine!Tick, Engine!TypeOK
<1>2. ASSUME NEW m \in Meters, Engine!GetDiagnostics(m)
      PROVE  Engine!TypeOK'
  <2> USE DEF Engine!GetDiagnostics, Engine!Refuse, Engine!NotFound,
              Engine!Panic, Engine!Diagnose
  <2>1. /\ UNCHANGED <<clock, readings, cutoff, ordered>>
        /\ UNCHANGED Engine!Stored
    BY <1>2 DEF Engine!Stored
  <2>2. coefficients' \in [Meters -> {"none", "finite", "not finite"}]
    <3>1. Engine!Fitted(m) \in {"none", "finite", "not finite"}
      BY <1>t DEF Engine!Fitted
    <3> QED
      BY <1>2, <1>t, <3>1
  <2>3. poisoned' \in BOOLEAN
    BY <1>2, <1>t
  <2>4. answer' \in Engine!Answers
    <3>1. \A c : Engine!CausesOf(readings[m], c)
                   \subseteq Engine!Causes \cup {"none"}
      BY DEF Engine!CausesOf, Engine!Causes
    <3>2. \A c : Engine!Sound(readings[m], c) \in BOOLEAN
      BY DEF Engine!Sound, Engine!ExpectedIsFinite
    <3>3. ASSUME NEW status \in {"none", "ok", "404", "500"},
                 NEW sound \in BOOLEAN,
                 NEW cause \in Engine!Causes \cup {"none"},
                 Engine!Answered(m, status, sound, cause)
          PROVE  answer' \in Engine!Answers
      BY <3>3 DEF Engine!Answered, Engine!Answers
    <3>4. CASE Engine!Refuse(m)
      BY <3>3, <3>4
    <3>5. CASE Engine!NotFound(m)
      BY <3>3, <3>5
    <3>6. CASE Engine!Panic(m)
      BY <1>0, <3>6
    <3>7. CASE Engine!Diagnose(m)
      <4>1. PICK cause \in Engine!CausesOf(readings[m], Engine!Fitted(m)) :
              Engine!Answered(m, "ok",
                Engine!Sound(readings[m], Engine!Fitted(m)), cause)
        BY <3>7
      <4> QED
        BY <3>1, <3>2, <3>3, <4>1
    <3> QED
      BY <1>2, <3>4, <3>5, <3>6, <3>7
  <2> QED
    BY <1>t, <2>1, <2>2, <2>3, <2>4 DEF Engine!TypeOK
<1>3. ASSUME NEW m \in Meters, NEW k \in Kinds, NEW t \in 0 .. clock,
             Engine!Ingest(m, [at |-> t, value |-> k.value,
                               weather |-> k.weather])
      PROVE  Engine!TypeOK'
  <2> DEFINE r == [at |-> t, value |-> k.value, weather |-> k.weather]
             p == Engine!Pruned(readings[m], clock - History)
  <2>1. r \in Engine!Readings
    BY <1>t, IngestedReading
  <2>2. p \in Seq(Engine!Readings)
    BY <1>t, PrunedProperties
  <2>3. /\ readings' = [readings EXCEPT ![m] = Append(p, r)]
        /\ Engine!Cardinality(Engine!Stored') <= MaxReadings
        /\ cutoff' = [cutoff EXCEPT ![m] = clock - History]
        /\ answer' = Engine!NoAnswer
        /\ UNCHANGED <<clock, coefficients, poisoned>>
    BY <1>3 DEF Engine!Ingest
  <2>4. PICK o \in BOOLEAN : ordered' = [ordered EXCEPT ![m] = o]
    BY <1>3, <1>t DEF Engine!Ingest
  <2> HIDE DEF r, p
  <2>5. Append(p, r) \in Seq(Engine!Readings)
    BY <2>1, <2>2, AppendProperties
  <2>6. readings' \in [Meters -> Seq(Engine!Readings)]
    BY <1>t, <2>3, <2>5
  <2>7. clock - History \in Int
    <3>1. clock \in 0 .. MaxClock
      BY <1>t
    <3> QED
      BY <3>1, EngineConstants
  <2>8. cutoff' \in [Meters -> Int] /\ ordered' \in [Meters -> BOOLEAN]
    BY <1>t, <2>3, <2>4, <2>7
  <2> QED
    BY <1>0, <1>t, <2>3, <2>6, <2>8 DEF Engine!TypeOK
<1>4. CASE UNCHANGED Engine!vars
  BY <1>4, <1>t DEF Engine!vars, Engine!Stored, Engine!TypeOK
<1> QED
  BY <1>1, <1>2, <1>3, <1>4 DEF Engine!Next

LEMMA EngineTypes == Engine!Spec => []Engine!TypeOK
BY EngineInit, EngineStep, PTL DEF Engine!Spec

-----------------------------------------------------------------------------
(* The diagnostic engine: readings that are kept *)

Sorted(w) == \A i, j \in DOMAIN w : i <= j => w[i].at <= w[j].at

\* A window holds readings, and a reading a time.
LEMMA WindowReadings ==
  ASSUME NEW w \in Seq(Engine!Readings), NEW n \in 1 .. Len(w)
  PROVE  w[n] \in Engine!Readings /\ w[n].at \in Int
<1>1. w[n] \in Engine!Readings
  BY ElementOfSeq
<1>2. w[n].at \in 0 .. MaxClock
  BY <1>1 DEF Engine!Readings
<1> QED
  BY <1>1, <1>2, EngineConstants

\* As many numbers as there are up to one.
LEMMA UpTo ==
  ASSUME NEW n \in Nat
  PROVE  IsFiniteSet(1 .. n) /\ Cardinality(1 .. n) = n
<1>1. /\ IsFiniteSet(1 .. n)
      /\ Cardinality(1 .. n) = IF 1 > n THEN 0 ELSE n - 1 + 1
  BY FS_Interval
<1> QED
  BY <1>1

\* Nothing that is left of a window in order is older than the limit.
LEMMA PrunedIsRecent ==
  ASSUME NEW w \in Seq(Engine!Readings), NEW limit \in Int, Sorted(w),
         NEW i \in 1 .. Len(Engine!Pruned(w, limit))
  PROVE  Engine!Pruned(w, limit)[i].at >= limit
<1> DEFINE k == Cardinality(Prefix(w, limit))
           p == Engine!Pruned(w, limit)
<1>1. /\ k \in 0 .. Len(w)
      /\ Len(p) = Len(w) - k
      /\ \A n \in 1 .. Len(w) - k : p[n] = w[n + k]
  BY PrunedProperties
<1> HIDE DEF p
<1>2. /\ Len(w) \in Nat
      /\ i \in 1 .. Len(w) - k
      /\ i + k \in 1 .. Len(w)
      /\ p[i] = w[i + k]
  <2>1. i \in 1 .. Len(w) - k
    BY <1>1 DEF p
  <2> QED
    BY <1>1, <2>1
<1>3. \A n \in 1 .. Len(w) : w[n].at \in Int
  BY WindowReadings
<1> SUFFICES ASSUME p[i].at < limit PROVE FALSE
  BY <1>2, <1>3 DEF p
<1>4. 1 .. i + k \subseteq Prefix(w, limit)
  <2>1. ASSUME NEW n \in 1 .. i + k
        PROVE  n \in 1 .. Len(w) /\ w[n].at < limit
    <3>1. n \in 1 .. Len(w) /\ n <= i + k
      BY <1>1, <1>2
    <3>2. w[n].at <= w[i + k].at
      BY <1>2, <3>1 DEF Sorted
    <3> QED
      BY <1>2, <1>3, <3>1, <3>2
  <2>2. \A n \in 1 .. i + k : 1 .. n \subseteq 1 .. i + k
    BY <1>1, <1>2
  <2>3. \A n \in 1 .. i + k : n \in DOMAIN w /\ \A j \in 1 .. n : w[j].at < limit
    BY <1>2, <2>1, <2>2
  <2> HIDE DEF k
  <2> QED
    BY <2>3 DEF Prefix
<1>5. IsFiniteSet(Prefix(w, limit))
  <2>1. IsFiniteSet(1 .. Len(w)) /\ Prefix(w, limit) \subseteq 1 .. Len(w)
    BY <1>2, UpTo DEF Prefix
  <2> QED
    BY <2>1, FS_Subset
<1>6. Cardinality(1 .. i + k) <= k
  BY <1>4, <1>5, FS_Subset
<1>7. Cardinality(1 .. i + k) = i + k
  <2>1. i + k \in Nat
    BY <1>2
  <2> QED
    BY <2>1, UpTo
<1> HIDE DEF k
<1> QED
  BY <1>1, <1>2, <1>6, <1>7

\* What is in the window after an ingestion: what was in it before, moved to
\* the front, and the new reading at the end.
LEMMA IngestedWindow ==
  ASSUME Engine!TypeOK, NEW m \in Meters, NEW r \in Engine!Readings,
         Engine!Ingest(m, r)
  PROVE  LET w == readings[m]
             q == readings'[m]
         IN  \E k \in 0 .. Len(w) :
               /\ DOMAIN q = 1 .. Len(w) - k + 1
               /\ Len(q) = Len(w) - k + 1
               /\ \A i \in 1 .. Len(w) - k : i + k \in DOMAIN w /\ q[i] = w[i + k]
               /\ q[Len(w) - k + 1] = r
               /\ \A n \in Meters \ {m} : readings'[n] = readings[n]
               /\ Len(w) - k = Len(Engine!Pruned(w, clock - History))
               /\ \A i \in 1 .. Len(w) - k :
                    q[i] = Engine!Pruned(w, clock - History)[i]
<1> DEFINE w == readings[m]
           k == Cardinality(Prefix(w, clock - History))
           p == Engine!Pruned(w, clock - History)
           q == Append(p, r)
<1>1. readings \in [Meters -> Seq(Engine!Readings)]
  BY DEF Engine!TypeOK
<1>2. w \in Seq(Engine!Readings)
  BY <1>1
<1>3. /\ k \in 0 .. Len(w)
      /\ p \in Seq(Engine!Readings)
      /\ Len(p) = Len(w) - k
      /\ \A i \in 1 .. Len(w) - k : p[i] = w[i + k]
  BY <1>2, PrunedProperties
<1>4. readings' = [readings EXCEPT ![m] = q]
  BY DEF Engine!Ingest
<1> HIDE DEF k, p
<1>5. /\ Len(q) = Len(p) + 1
      /\ q \in Seq(Engine!Readings)
      /\ \A i \in 1 .. Len(p) : q[i] = p[i]
      /\ q[Len(p) + 1] = r
  <2>1. p \in Seq(Engine!Readings)
    BY <1>3
  <2> QED
    BY <2>1, AppendProperties
<1>6. readings'[m] = q /\ \A n \in Meters \ {m} : readings'[n] = readings[n]
  BY <1>1, <1>4
<1>7. DOMAIN q = 1 .. Len(q) /\ DOMAIN w = 1 .. Len(w) /\ Len(w) \in Nat
  BY <1>2, <1>5
<1> HIDE DEF q, w
<1>8. \A i \in 1 .. Len(w) - k : i + k \in 1 .. Len(w)
  BY <1>3, <1>7
<1>9. /\ DOMAIN q = 1 .. Len(w) - k + 1
      /\ Len(q) = Len(w) - k + 1
      /\ \A i \in 1 .. Len(w) - k : i + k \in DOMAIN w /\ q[i] = w[i + k]
      /\ q[Len(w) - k + 1] = r
      /\ \A i \in 1 .. Len(w) - k : q[i] = p[i]
  BY <1>3, <1>5, <1>7, <1>8
<1> QED
  BY <1>3, <1>6, <1>9 DEF w, p

WindowsInOrder == \A m \in Meters : ordered[m] => Sorted(readings[m])

LEMMA OldInit ==
  Engine!Init => WindowsInOrder /\ Engine!OldReadingsOnlyOutOfOrder
<1> SUFFICES ASSUME Engine!Init, NEW m \in Meters
             PROVE  /\ Sorted(readings[m])
                    /\ \A i \in 1 .. Len(readings[m]) - 1 :
                         readings[m][i].at >= cutoff[m]
  BY DEF WindowsInOrder, Engine!OldReadingsOnlyOutOfOrder
<1>1. readings[m] = << >>
  BY DEF Engine!Init
<1>2. DOMAIN readings[m] = {} /\ 1 .. Len(readings[m]) - 1 = {}
  BY <1>1
<1> QED
  BY <1>2 DEF Sorted

LEMMA OldStep ==
  /\ Engine!TypeOK
  /\ WindowsInOrder
  /\ Engine!OldReadingsOnlyOutOfOrder
  /\ [Engine!Next]_(Engine!vars)
  => (WindowsInOrder /\ Engine!OldReadingsOnlyOutOfOrder)'
<1> SUFFICES ASSUME Engine!TypeOK, WindowsInOrder,
                    Engine!OldReadingsOnlyOutOfOrder,
                    [Engine!Next]_(Engine!vars)
             PROVE  (WindowsInOrder /\ Engine!OldReadingsOnlyOutOfOrder)'
  OBVIOUS
<1>1. CASE UNCHANGED <<readings, ordered, cutoff>>
  BY <1>1 DEF WindowsInOrder, Engine!OldReadingsOnlyOutOfOrder, Sorted
<1>2. ASSUME NEW m \in Meters, NEW k \in Kinds, NEW t \in 0 .. clock,
             Engine!Ingest(m, [at |-> t, value |-> k.value,
                               weather |-> k.weather])
      PROVE  (WindowsInOrder /\ Engine!OldReadingsOnlyOutOfOrder)'
  <2> DEFINE r == [at |-> t, value |-> k.value, weather |-> k.weather]
             w == readings[m]
             q == readings'[m]
             limit == clock - History
  <2>1. r \in Engine!Readings
    BY IngestedReading DEF Engine!TypeOK
  <2>2. PICK d \in 0 .. Len(w) :
               /\ DOMAIN q = 1 .. Len(w) - d + 1
               /\ Len(q) = Len(w) - d + 1
               /\ \A i \in 1 .. Len(w) - d : i + d \in DOMAIN w /\ q[i] = w[i + d]
               /\ q[Len(w) - d + 1] = r
               /\ \A n \in Meters \ {m} : readings'[n] = readings[n]
               /\ Len(w) - d = Len(Engine!Pruned(w, clock - History))
               /\ \A i \in 1 .. Len(w) - d :
                    q[i] = Engine!Pruned(w, clock - History)[i]
    BY <1>2, <2>1, IngestedWindow
  <2>3. /\ readings \in [Meters -> Seq(Engine!Readings)]
        /\ ordered \in [Meters -> BOOLEAN]
        /\ cutoff \in [Meters -> Int]
    BY DEF Engine!TypeOK
  <2>4. /\ \A n \in Meters \ {m} : ordered'[n] = ordered[n] /\ cutoff'[n] = cutoff[n]
        /\ ordered'[m] => /\ ordered[m]
                          /\ w = << >> \/ w[Len(w)].at <= r.at
        /\ cutoff'[m] = limit
    BY <1>2, <2>3 DEF Engine!Ingest
  <2>5. limit \in Int
    <3>1. clock \in 0 .. MaxClock
      BY DEF Engine!TypeOK
    <3> QED
      BY <3>1, EngineConstants
  <2>6. ASSUME ordered'[m]
        PROVE  /\ Sorted(q)
               /\ \A i \in 1 .. Len(q) - 1 : q[i].at >= limit
    <3>1. Sorted(w)
      BY <2>4, <2>6 DEF WindowsInOrder
    <3>2. w \in Seq(Engine!Readings) /\ Len(w) \in Nat /\ DOMAIN w = 1 .. Len(w)
      BY <2>3
    <3>3. ASSUME NEW i \in 1 .. Len(q) - 1
          PROVE  q[i].at >= limit
      <4>1. /\ i \in 1 .. Len(Engine!Pruned(w, clock - History))
            /\ q[i] = Engine!Pruned(w, clock - History)[i]
        BY <2>2, <3>2, <3>3
      <4> QED
        BY <2>5, <3>1, <3>2, <4>1, PrunedIsRecent
    <3>4. ASSUME NEW i \in DOMAIN q, NEW j \in DOMAIN q, i <= j
          PROVE  q[i].at <= q[j].at
      <4> DEFINE last == Len(w) - d + 1
      <4>1. \A n \in 1 .. Len(w) : w[n].at \in Int
        BY <3>2, WindowReadings
      <4>2. r.at \in Int
        BY <2>1 DEF Engine!Readings
      <4>3. i \in 1 .. last /\ j \in 1 .. last /\ last \in Nat
        BY <2>2, <3>2
      <4>4. CASE j < last
        <5>1. i \in 1 .. Len(w) - d /\ j \in 1 .. Len(w) - d
          BY <2>2, <3>2, <3>4, <4>3, <4>4
        <5>2. /\ q[i] = w[i + d] /\ q[j] = w[j + d]
              /\ i + d \in DOMAIN w /\ j + d \in DOMAIN w
          BY <2>2, <5>1
        <5>3. i + d <= j + d
          BY <2>2, <3>2, <3>4, <4>3
        <5> QED
          BY <3>1, <5>2, <5>3 DEF Sorted
      <4>5. CASE j = last /\ i = last
        <5>1. q[i] = r /\ q[j] = r
          BY <2>2, <4>5
        <5> QED
          BY <4>2, <5>1
      <4>6. CASE j = last /\ i < last
        <5>1. i \in 1 .. Len(w) - d
          BY <2>2, <3>2, <4>3, <4>6
        <5>2. q[i] = w[i + d] /\ i + d \in DOMAIN w /\ q[j] = r
          BY <2>2, <4>6, <5>1
        <5>3. i + d <= Len(w) /\ Len(w) \in DOMAIN w
          BY <2>2, <3>2, <5>2
        <5>4. w[i + d].at <= w[Len(w)].at
          BY <3>1, <5>2, <5>3 DEF Sorted
        <5>5. w # << >>
          BY <3>2, <5>3
        <5>6. w[Len(w)].at <= r.at
          BY <2>4, <2>6, <5>5
        <5>7. w[i + d].at \in Int /\ w[Len(w)].at \in Int
          BY <3>2, <4>1, <5>2, <5>3
        <5> HIDE DEF r, w, q
        <5> QED
          BY <4>2, <5>2, <5>4, <5>6, <5>7
      <4> QED
        BY <3>4, <4>3, <4>4, <4>5, <4>6
    <3> QED
      BY <3>3, <3>4 DEF Sorted
  <2>7. ASSUME NEW n \in Meters, ordered'[n]
        PROVE  /\ Sorted(readings'[n])
               /\ \A i \in 1 .. Len(readings'[n]) - 1 :
                    readings'[n][i].at >= cutoff'[n]
    <3>1. CASE n = m
      BY <2>4, <2>6, <2>7, <3>1
    <3>2. CASE n # m
      <4>1. /\ readings'[n] = readings[n] /\ cutoff'[n] = cutoff[n] /\ ordered[n]
        BY <2>2, <2>4, <2>7, <3>2
      <4> QED
        BY <4>1 DEF WindowsInOrder, Engine!OldReadingsOnlyOutOfOrder
    <3> QED
      BY <3>1, <3>2
  <2> QED
    BY <2>7 DEF WindowsInOrder, Engine!OldReadingsOnlyOutOfOrder, Sorted
<1> QED
  BY <1>1, <1>2 DEF Engine!Next, Engine!vars, Engine!Tick, Engine!GetDiagnostics,
                    Engine!Refuse, Engine!NotFound, Engine!Panic,
                    Engine!Diagnose

-----------------------------------------------------------------------------
(* The diagnostic engine: bad readings *)

\* The average covers three readings at least, and all that it may where there
\* are more.
LEMMA SpanBounds ==
  ASSUME NEW S, NEW w \in Seq(S)
  PROVE  /\ Engine!Span(w) \in Nat
         /\ Engine!Span(w) >= 3
         /\ Engine!Span(w) < Len(w) => /\ MaxSpan < Len(w)
                                       /\ MaxSpan <= Engine!Span(w)
<1> DEFINE n == Len(w)
           l == IF n < MaxSpan THEN n ELSE MaxSpan
           s == (l \div 2) * 2 + 1
<1>1. n \in Nat /\ MaxSpan \in Nat
  BY EngineConstants
<1>2. Engine!Span(w) = IF s < 3 THEN 3 ELSE s
  BY DEF Engine!Span, Engine!Min2, Engine!Max2
<1> HIDE DEF n
<1>3. l \in Nat /\ l <= n /\ l <= MaxSpan /\ (l < MaxSpan => l = n)
  BY <1>1
<1> HIDE DEF l
<1>4. s \in Nat /\ s >= l
  BY <1>3
<1> HIDE DEF s
<1> QED
  BY <1>1, <1>2, <1>3, <1>4 DEF n

AllFinite(w) == \A i \in DOMAIN w : w[i].value = "finite"

\* A trend over finite readings is finite.
LEMMA FiniteTrend ==
  ASSUME NEW S, NEW w \in Seq(S), AllFinite(w), NEW i \in 1 .. Len(w)
  PROVE  Engine!Trend(w, i) = "finite"
<1> DEFINE from == Engine!Max2(1, i - Engine!Span(w) + 1)
           values == {w[j].value : j \in from .. i}
<1>1. Len(w) \in Nat /\ DOMAIN w = 1 .. Len(w) /\ Engine!Span(w) \in Nat
  BY SpanBounds
<1>2. from \in Int /\ from >= 1
  BY <1>1 DEF Engine!Max2
<1> HIDE DEF from
<1>3. from .. i \subseteq DOMAIN w
  BY <1>1, <1>2
<1>4. values \subseteq {"finite"}
  BY <1>3 DEF AllFinite
<1>5. Engine!Trend(w, i) = Engine!SumOf(values)
  BY DEF Engine!Trend, from
<1> HIDE DEF values
<1> QED
  BY <1>4, <1>5 DEF Engine!SumOf

\* The readings behind the threshold are in the window.
LEMMA PastReadings ==
  ASSUME NEW S, NEW w \in Seq(S)
  PROVE  /\ Engine!Past(w) \subseteq 1 .. Len(w)
         /\ Cardinality(Engine!Past(w)) > SortLimit
              => Len(w) - MaxSpan > SortLimit
<1> DEFINE n == Len(w)
           s == Engine!Span(w)
           p == IF 0 < n - s THEN n - s ELSE 0
<1>1. /\ n \in Nat /\ MaxSpan \in Nat /\ SortLimit \in Nat
      /\ s \in Nat
      /\ s < n => MaxSpan <= s
  BY SpanBounds, EngineConstants
<1>2. Engine!Past(w) = 1 .. p
  BY DEF Engine!Past, Engine!Max2
<1> HIDE DEF n, s
<1>3. p \in Nat /\ p <= n /\ (p > 0 => s < n /\ p = n - s)
  BY <1>1
<1>4. Cardinality(Engine!Past(w)) = p
  BY <1>2, <1>3, UpTo
<1> HIDE DEF p
<1>5. 1 .. p \subseteq 1 .. n
  BY <1>1, <1>3
<1>6. p > SortLimit => n - MaxSpan > SortLimit
  BY <1>1, <1>3
<1> QED
  BY <1>2, <1>4, <1>5, <1>6 DEF n

LEMMA UnsoundInit == Engine!Init => Engine!UnsoundOnlyByBadReading
<1>1. Engine!Init => answer.sound = TRUE
  BY DEF Engine!Init, Engine!NoAnswer
<1> QED
  BY <1>1 DEF Engine!UnsoundOnlyByBadReading

LEMMA UnsoundStep ==
  Engine!TypeOK /\ Engine!UnsoundOnlyByBadReading /\ [Engine!Next]_(Engine!vars)
    => Engine!UnsoundOnlyByBadReading'
<1> SUFFICES ASSUME Engine!TypeOK, Engine!UnsoundOnlyByBadReading,
                    [Engine!Next]_(Engine!vars)
             PROVE  Engine!UnsoundOnlyByBadReading'
  OBVIOUS
<1>1. CASE answer'.sound = TRUE
  BY <1>1 DEF Engine!UnsoundOnlyByBadReading
<1>2. CASE UNCHANGED Engine!vars
  BY <1>2 DEF Engine!vars, Engine!UnsoundOnlyByBadReading,
              Engine!WeatherReadings
<1>3. ASSUME NEW m \in Meters, Engine!Diagnose(m)
      PROVE  Engine!UnsoundOnlyByBadReading'
  <2> DEFINE w == readings[m]
             c == Engine!Fitted(m)
  <2>1. w \in Seq(Engine!Readings) /\ m \in DOMAIN coefficients
    BY DEF Engine!TypeOK
  <2>2. /\ answer'.meter = m
        /\ answer'.sound = Engine!Sound(w, c)
        /\ readings' = readings
        /\ coefficients'[m] = c
        /\ w # << >>
    BY <1>3, <2>1 DEF Engine!Diagnose, Engine!Answered
  <2>3. /\ Len(w) \in Nat
        /\ DOMAIN w = 1 .. Len(w)
        /\ Len(w) \in DOMAIN w
    <3> HIDE DEF w
    <3> QED
      BY <2>1, <2>2
  <2>4. CASE AllFinite(w)
    <3>1. \A i \in 1 .. Len(w) : Engine!Trend(w, i) = "finite"
      BY <2>1, <2>4, FiniteTrend
    <3>2. \A i \in Engine!Past(w) : Engine!Trend(w, i) = "finite"
      BY <2>1, <3>1, PastReadings
    <3>3. Engine!Sound(w, c) \/ c = "not finite"
      BY <2>3, <3>1, <3>2 DEF Engine!Sound, Engine!ExpectedIsFinite,
                         Engine!AdjustmentIsFinite, Engine!ResidualIsFinite
    <3>4. c = "not finite" => Engine!Cardinality(Engine!WeatherReadings(m)) < FitSize
      BY <2>4 DEF Engine!Fitted, Engine!WeatherReadings, AllFinite
    <3>5. Engine!WeatherReadings(m)' = Engine!WeatherReadings(m)
      BY <2>2 DEF Engine!WeatherReadings
    <3>6. answer'.sound \/ /\ coefficients'[m] = "not finite"
                           /\ Engine!Cardinality(Engine!WeatherReadings(m)')
                                < FitSize
      BY <2>2, <3>3, <3>4, <3>5
    <3> QED
      BY <2>2, <3>6 DEF Engine!UnsoundOnlyByBadReading, Engine!WeatherReadings
  <2>5. CASE ~ AllFinite(w)
    <3>1. \E i \in DOMAIN readings'[answer'.meter] :
            readings'[answer'.meter][i].value # "finite"
      BY <2>2, <2>5 DEF AllFinite
    <3> QED
      BY <3>1 DEF Engine!UnsoundOnlyByBadReading
  <2> QED
    BY <2>4, <2>5
<1>4. Engine!NoAnswer.sound = TRUE
  BY DEF Engine!NoAnswer
<1>5. CASE Engine!Tick
  BY <1>1, <1>4, <1>5 DEF Engine!Tick
<1>6. ASSUME NEW m \in Meters,
             Engine!Refuse(m) \/ Engine!NotFound(m) \/ Engine!Panic(m)
      PROVE  answer'.sound = TRUE
  BY <1>4, <1>6
  DEF Engine!Refuse, Engine!NotFound, Engine!Panic, Engine!Answered
<1>7. ASSUME NEW m \in Meters, NEW r, Engine!Ingest(m, r)
      PROVE  answer'.sound = TRUE
  BY <1>4, <1>7 DEF Engine!Ingest
<1> QED
  BY <1>1, <1>2, <1>3, <1>5, <1>6, <1>7 DEF Engine!Next, Engine!GetDiagnostics

\* What the windows hold when the mutex has been poisoned.
BadWindow ==
  \E m \in Meters :
    LET w == readings[m] IN
    \/ \E i, j \in DOMAIN w :
         i # j /\ w[i].value \in Engine!Infinite /\ Month[w[i].at] = Month[w[j].at]
    \/ /\ Len(w) - MaxSpan > SortLimit
       /\ \E i \in DOMAIN w : w[i].value # "finite"

PoisonedByBadWindow == poisoned \/ answer.status = "500" => BadWindow

LEMMA PoisonInit == Engine!Init => PoisonedByBadWindow
BY DEF Engine!Init, Engine!NoAnswer, PoisonedByBadWindow

\* What makes a sort panic is a bad reading in the window.
LEMMA PanicNeedsBadWindow ==
  ASSUME Engine!TypeOK, NEW m \in Meters, Engine!MayPanic(readings[m])
  PROVE  BadWindow
<1> DEFINE w == readings[m]
<1>1. w \in Seq(Engine!Readings)
  BY DEF Engine!TypeOK
<1>2. CASE Engine!MonthSortPanics(w)
  BY <1>2 DEF Engine!MonthSortPanics, Engine!DetrendedIsNaN, BadWindow
<1>3. CASE Engine!ThresholdSortMayPanic(w)
  <2>1. /\ Cardinality(Engine!Past(w)) > SortLimit
        /\ \E i \in Engine!Past(w) : Engine!Trend(w, i) # "finite"
    BY <1>3, EngineCardinality
    DEF Engine!ThresholdSortMayPanic, Engine!ResidualIsFinite
  <2>2. Len(w) - MaxSpan > SortLimit
    BY <1>1, <2>1, PastReadings
  <2>3. ~ AllFinite(w)
    BY <1>1, <2>1, PastReadings, FiniteTrend
  <2> QED
    BY <2>2, <2>3 DEF AllFinite, BadWindow
<1> QED
  BY <1>2, <1>3 DEF Engine!MayPanic

LEMMA PoisonStep ==
  Engine!TypeOK /\ PoisonedByBadWindow /\ [Engine!Next]_(Engine!vars)
    => PoisonedByBadWindow'
<1> SUFFICES ASSUME Engine!TypeOK, PoisonedByBadWindow,
                    [Engine!Next]_(Engine!vars)
             PROVE  PoisonedByBadWindow'
  OBVIOUS
<1>1. ASSUME BadWindow, readings' = readings
      PROVE  PoisonedByBadWindow'
  BY <1>1 DEF BadWindow, PoisonedByBadWindow
<1>2. CASE ~ poisoned' /\ answer'.status # "500"
  BY <1>2 DEF PoisonedByBadWindow
<1>3. CASE poisoned /\ readings' = readings
  BY <1>1, <1>3 DEF PoisonedByBadWindow
<1>4. CASE UNCHANGED Engine!vars
  BY <1>2, <1>1, <1>4 DEF Engine!vars, PoisonedByBadWindow
<1>5. ASSUME NEW m \in Meters, Engine!Panic(m)
      PROVE  PoisonedByBadWindow'
  <2>1. BadWindow
    BY <1>5, PanicNeedsBadWindow DEF Engine!Panic
  <2>2. readings' = readings
    BY <1>5 DEF Engine!Panic
  <2> QED
    BY <1>1, <2>1, <2>2
<1>6. ASSUME NEW m \in Meters, NEW r, Engine!Ingest(m, r)
      PROVE  PoisonedByBadWindow'
  <2>1. answer' = Engine!NoAnswer /\ ~ poisoned /\ poisoned' = poisoned
    BY <1>6 DEF Engine!Ingest
  <2>2. answer'.status # "500"
    BY <2>1 DEF Engine!NoAnswer
  <2>3. ~ poisoned'
    BY <2>1
  <2> QED
    BY <1>2, <2>2, <2>3
<1>7. CASE Engine!Tick
  <2>1. answer'.status # "500" /\ poisoned' = poisoned /\ readings' = readings
    BY <1>7 DEF Engine!Tick, Engine!NoAnswer
  <2> QED
    BY <1>2, <1>3, <2>1
<1>8. ASSUME NEW m \in Meters, Engine!Refuse(m)
      PROVE  PoisonedByBadWindow'
  BY <1>3, <1>8 DEF Engine!Refuse
<1>9. ASSUME NEW m \in Meters, Engine!NotFound(m) \/ Engine!Diagnose(m)
      PROVE  PoisonedByBadWindow'
  <2>1. answer'.status # "500"
    BY <1>9 DEF Engine!NotFound, Engine!Diagnose, Engine!Answered
  <2>2. ~ poisoned'
    BY <1>9 DEF Engine!NotFound, Engine!Diagnose
  <2> QED
    BY <1>2, <2>1, <2>2
<1> QED
  BY <1>4, <1>5, <1>6, <1>7, <1>8, <1>9
  DEF Engine!Next, Engine!GetDiagnostics

\* What the model checker runs is, for the engine, its specification.
LEMMA EnginePart == MCSpec => Engine!Spec
<1>1. MCInit => Engine!Init
  BY DEF MCInit
<1>2. [MCNext]_allVars => [Engine!Next]_(Engine!vars)
  BY DEF MCNext, allVars, engine, Engine!vars
<1> QED
  BY <1>1, <1>2, PTL DEF MCSpec, Engine!Spec

\* As long as the readings of a meter arrive in the order of their times, its
\* window keeps none that the last pruning should have dropped
\* (analytics.rs:160-172).
THEOREM OldReadingsOnlyOutOfOrderAlways == MCSpec => []OldReadingsOnlyOutOfOrder
<1>1. Engine!Spec => []Engine!OldReadingsOnlyOutOfOrder
  BY EngineTypes, OldInit, OldStep, PTL DEF Engine!Spec
<1> QED
  BY <1>1, EnginePart, PTL DEF OldReadingsOnlyOutOfOrder

\* A diagnosis that compares with what is not finite owes it to a bad reading in
\* the window or to a model fitted on one and not fitted again
\* (analytics.rs:194-214, 355-365, 480).
THEOREM UnsoundOnlyByBadReadingAlways == MCSpec => []UnsoundOnlyByBadReading
<1>1. Engine!Spec => []Engine!UnsoundOnlyByBadReading
  BY EngineTypes, UnsoundInit, UnsoundStep, PTL DEF Engine!Spec
<1> QED
  BY <1>1, EnginePart, PTL DEF UnsoundOnlyByBadReading

\* The mutex is poisoned, and all meters are refused, only by a bad reading that
\* is still in a window (analytics.rs:299, 426).
THEOREM RefusalNeedsBadReadingAlways == MCSpec => []RefusalNeedsBadReading
<1>1. Engine!Spec => []PoisonedByBadWindow
  BY EngineTypes, PoisonInit, PoisonStep, PTL DEF Engine!Spec
<1>2. PoisonedByBadWindow => RefusalNeedsBadReading
  BY DEF PoisonedByBadWindow, BadWindow, RefusalNeedsBadReading,
         Engine!RefusalNeedsBadReading
<1> QED
  BY <1>1, <1>2, EnginePart, PTL

-----------------------------------------------------------------------------
(* The ingest stream *)

\* An event that is being pushed came with a datagram.
StreamTypes ==
  /\ Stream!TypeOK
  /\ \A c \in Connections : task[c] = "pushing" => received[c] >= 1

LEMMA StreamTypesInit == Stream!Init => StreamTypes
<1> SUFFICES ASSUME Stream!Init PROVE StreamTypes
  OBVIOUS
<1>1. /\ task = [c \in Connections |-> "reading"]
      /\ received = [c \in Connections |-> 0]
      /\ buffer = << >>
      /\ consumer = TRUE
      /\ consumed = << >>
  BY DEF Stream!Init
<1>2. task \in [Connections -> {"reading", "pushing", "ended"}]
  BY <1>1
<1>3. received \in [Connections -> 0 .. MaxDatagrams]
  BY <1>1, StreamAssumption
<1>4. << >> \in Seq(Stream!Events) /\ Len(<< >>) <= Capacity
  BY EmptySeq, StreamAssumption
<1>5. \A c \in Connections : task[c] # "pushing"
  BY <1>1
<1> QED
  BY <1>1, <1>2, <1>3, <1>4, <1>5 DEF StreamTypes, Stream!TypeOK

\* The event that is being pushed.
LEMMA PushedEvent ==
  ASSUME StreamTypes, NEW c \in Connections, task[c] = "pushing"
  PROVE  <<c, received[c]>> \in Stream!Events
<1>1. received[c] \in 0 .. MaxDatagrams /\ received[c] >= 1
  BY DEF StreamTypes, Stream!TypeOK
<1>2. received[c] \in 1 .. MaxDatagrams
  BY <1>1, StreamAssumption
<1> QED
  BY <1>2 DEF Stream!Events

LEMMA StreamTypesStep ==
  StreamTypes /\ [Stream!Next]_(Stream!vars) => StreamTypes'
<1> SUFFICES ASSUME StreamTypes, [Stream!Next]_(Stream!vars)
             PROVE  StreamTypes'
  OBVIOUS
<1>t. /\ task \in [Connections -> {"reading", "pushing", "ended"}]
      /\ received \in [Connections -> 0 .. MaxDatagrams]
      /\ buffer \in Seq(Stream!Events) /\ Len(buffer) <= Capacity
      /\ consumer \in BOOLEAN
      /\ consumed \in Seq(Stream!Events)
      /\ \A c \in Connections : task[c] = "pushing" => received[c] >= 1
  BY DEF StreamTypes, Stream!TypeOK
<1>1. ASSUME NEW c \in Connections, Stream!Datagram(c)
      PROVE  StreamTypes'
  <2>1. /\ received[c] < MaxDatagrams
        /\ received' = [received EXCEPT ![c] = received[c] + 1]
        /\ task' = [task EXCEPT ![c] = "pushing"]
        /\ UNCHANGED <<buffer, consumer, consumed>>
    BY <1>1 DEF Stream!Datagram
  <2>2. received[c] + 1 \in 0 .. MaxDatagrams /\ received[c] + 1 >= 1
    <3>1. received[c] \in 0 .. MaxDatagrams /\ received[c] < MaxDatagrams
      BY <1>t, <2>1
    <3> QED
      BY <3>1, StreamAssumption
  <2>3. received' \in [Connections -> 0 .. MaxDatagrams]
    BY <1>t, <2>1, <2>2
  <2>4. task' \in [Connections -> {"reading", "pushing", "ended"}]
    BY <1>t, <2>1
  <2>5. \A d \in Connections : task'[d] = "pushing" => received'[d] >= 1
    BY <1>t, <2>1, <2>2
  <2> QED
    BY <1>t, <2>1, <2>3, <2>4, <2>5 DEF StreamTypes, Stream!TypeOK
<1>2. ASSUME NEW c \in Connections,
             Stream!End(c) \/ Stream!PushFails(c)
      PROVE  StreamTypes'
  <2>1. /\ \E t \in {"reading", "ended"} : task' = [task EXCEPT ![c] = t]
        /\ UNCHANGED <<received, buffer, consumer, consumed>>
    BY <1>2 DEF Stream!End, Stream!PushFails
  <2>2. /\ task' \in [Connections -> {"reading", "pushing", "ended"}]
        /\ \A d \in Connections : task'[d] = "pushing" => task[d] = "pushing"
    BY <1>t, <2>1
  <2> QED
    BY <1>t, <2>1, <2>2 DEF StreamTypes, Stream!TypeOK
<1>3. ASSUME NEW c \in Connections, Stream!Push(c)
      PROVE  StreamTypes'
  <2>1. /\ task[c] = "pushing"
        /\ Len(buffer) < Capacity
        /\ buffer' = Append(buffer, <<c, received[c]>>)
        /\ task' = [task EXCEPT ![c] = "reading"]
        /\ UNCHANGED <<received, consumer, consumed>>
    BY <1>3 DEF Stream!Push
  <2>2. /\ buffer' \in Seq(Stream!Events)
        /\ Len(buffer') = Len(buffer) + 1
    BY <1>t, <2>1, PushedEvent, AppendProperties
  <2>3. Len(buffer') <= Capacity
    <3>1. Len(buffer) \in Nat
      BY <1>t
    <3> QED
      BY <2>1, <2>2, <3>1, StreamAssumption
  <2>4. /\ task' \in [Connections -> {"reading", "pushing", "ended"}]
        /\ \A d \in Connections : task'[d] = "pushing" => task[d] = "pushing"
    BY <1>t, <2>1
  <2> QED
    BY <1>t, <2>1, <2>2, <2>3, <2>4 DEF StreamTypes, Stream!TypeOK
<1>4. CASE Stream!Consume
  <2>1. /\ buffer # << >>
        /\ consumed' = Append(consumed, Head(buffer))
        /\ buffer' = Tail(buffer)
        /\ UNCHANGED <<task, received, consumer>>
    BY <1>4 DEF Stream!Consume
  <2>2. /\ Head(buffer) \in Stream!Events
        /\ Tail(buffer) \in Seq(Stream!Events)
        /\ Len(Tail(buffer)) = Len(buffer) - 1
    BY <1>t, <2>1, HeadTailProperties
  <2>3. Append(consumed, Head(buffer)) \in Seq(Stream!Events)
    BY <1>t, <2>2, AppendProperties
  <2>4. Len(Tail(buffer)) <= Capacity
    <3>1. Len(buffer) \in Nat
      BY <1>t
    <3> QED
      BY <1>t, <2>2, <3>1, StreamAssumption
  <2> QED
    BY <1>t, <2>1, <2>2, <2>3, <2>4 DEF StreamTypes, Stream!TypeOK
<1>5. CASE Stream!ConsumerGone
  <2>1. << >> \in Seq(Stream!Events) /\ Len(<< >>) <= Capacity
    BY EmptySeq, StreamAssumption
  <2> QED
    BY <1>5, <1>t, <2>1 DEF Stream!ConsumerGone, StreamTypes, Stream!TypeOK
<1>6. CASE UNCHANGED Stream!vars
  BY <1>6, <1>t DEF Stream!vars, StreamTypes, Stream!TypeOK
<1> QED
  BY <1>1, <1>2, <1>3, <1>4, <1>5, <1>6 DEF Stream!Next

LEMMA StreamTypesInvariant == Stream!Spec => []StreamTypes
BY StreamTypesInit, StreamTypesStep, PTL DEF Stream!Spec

\* What was sent: what was consumed, then what is in the buffer.
LEMMA SentProperties ==
  ASSUME StreamTypes
  PROVE  /\ Stream!Sent \in Seq(Stream!Events)
         /\ Len(Stream!Sent) = Len(consumed) + Len(buffer)
         /\ Len(consumed) \in Nat
         /\ Len(buffer) \in Nat
         /\ DOMAIN Stream!Sent = 1 .. Len(consumed) + Len(buffer)
         /\ \A i \in 1 .. Len(consumed) + Len(buffer) :
              Stream!Sent[i] = IF i <= Len(consumed) THEN consumed[i]
                               ELSE buffer[i - Len(consumed)]
<1>1. consumed \in Seq(Stream!Events) /\ buffer \in Seq(Stream!Events)
  BY DEF StreamTypes, Stream!TypeOK
<1>2. /\ Stream!Sent \in Seq(Stream!Events)
      /\ Len(Stream!Sent) = Len(consumed) + Len(buffer)
      /\ \A i \in 1 .. Len(consumed) + Len(buffer) :
           Stream!Sent[i] = IF i <= Len(consumed) THEN consumed[i]
                            ELSE buffer[i - Len(consumed)]
  BY <1>1, ConcatProperties DEF Stream!Sent
<1> QED
  BY <1>1, <1>2

\* The consumer takes from the front of the buffer what it has not had.
LEMMA ConsumedStaysSent ==
  ASSUME StreamTypes, Stream!Consume
  PROVE  Stream!Sent' = Stream!Sent
<1> DEFINE x == Head(buffer)
<1>1. /\ buffer # << >>
      /\ consumed' = Append(consumed, x)
      /\ buffer' = Tail(buffer)
      /\ buffer \in Seq(Stream!Events)
      /\ consumed \in Seq(Stream!Events)
  BY DEF Stream!Consume, StreamTypes, Stream!TypeOK
<1>2. /\ x \in Stream!Events
      /\ Tail(buffer) \in Seq(Stream!Events)
      /\ Len(Tail(buffer)) = Len(buffer) - 1
      /\ \A i \in 1 .. Len(Tail(buffer)) : Tail(buffer)[i] = buffer[i + 1]
      /\ x = buffer[1]
      /\ Len(buffer) \in Nat
      /\ Len(consumed) \in Nat
      /\ Len(buffer) >= 1
  BY <1>1, HeadTailProperties
<1>3. /\ consumed' \in Seq(Stream!Events)
      /\ Len(consumed') = Len(consumed) + 1
      /\ \A i \in 1 .. Len(consumed) : consumed'[i] = consumed[i]
      /\ consumed'[Len(consumed) + 1] = x
  BY <1>1, <1>2, AppendProperties
<1>4. StreamTypes'
  BY StreamTypesStep DEF Stream!Next
<1>5. /\ Stream!Sent' \in Seq(Stream!Events)
      /\ Len(Stream!Sent') = Len(consumed') + Len(buffer')
      /\ \A i \in 1 .. Len(consumed') + Len(buffer') :
           Stream!Sent'[i] = IF i <= Len(consumed') THEN consumed'[i]
                             ELSE buffer'[i - Len(consumed')]
  <2>1. consumed' \in Seq(Stream!Events) /\ buffer' \in Seq(Stream!Events)
    BY <1>1, <1>2, <1>3
  <2> QED
    BY <2>1, ConcatProperties DEF Stream!Sent
<1>6. /\ Stream!Sent \in Seq(Stream!Events)
      /\ Len(Stream!Sent) = Len(consumed) + Len(buffer)
      /\ \A i \in 1 .. Len(consumed) + Len(buffer) :
           Stream!Sent[i] = IF i <= Len(consumed) THEN consumed[i]
                            ELSE buffer[i - Len(consumed)]
  BY SentProperties
<1> HIDE DEF x
<1>7. Len(Stream!Sent') = Len(Stream!Sent)
  BY <1>1, <1>2, <1>3, <1>5, <1>6
<1>8. ASSUME NEW i \in 1 .. Len(Stream!Sent)
      PROVE  Stream!Sent'[i] = Stream!Sent[i]
  <2>1. i \in 1 .. Len(consumed) + Len(buffer)
    BY <1>6
  <2>2. i \in 1 .. Len(consumed') + Len(buffer')
    BY <1>5, <1>7
  <2>3. CASE i <= Len(consumed)
    <3>1. i <= Len(consumed') /\ i \in 1 .. Len(consumed)
      BY <1>2, <1>3, <2>1, <2>3
    <3> QED
      BY <1>3, <1>5, <1>6, <2>1, <2>2, <2>3, <3>1
  <2>4. CASE i = Len(consumed) + 1
    <3>1. i <= Len(consumed') /\ ~ i <= Len(consumed) /\ i - Len(consumed) = 1
      BY <1>2, <1>3, <2>4
    <3> QED
      BY <1>2, <1>3, <1>5, <1>6, <2>1, <2>2, <2>4, <3>1
  <2>5. CASE i > Len(consumed) + 1
    <3>1. /\ ~ i <= Len(consumed')
          /\ ~ i <= Len(consumed)
          /\ i - Len(consumed') \in 1 .. Len(Tail(buffer))
          /\ i - Len(consumed') + 1 = i - Len(consumed)
      BY <1>2, <1>3, <2>1, <2>5
    <3>2. Stream!Sent'[i] = Tail(buffer)[i - Len(consumed')]
      BY <1>1, <1>5, <2>2, <3>1
    <3>3. Stream!Sent[i] = buffer[i - Len(consumed)]
      BY <1>6, <2>1, <3>1
    <3> QED
      BY <1>2, <3>1, <3>2, <3>3
  <2> QED
    BY <1>2, <2>1, <2>3, <2>4, <2>5
<1> QED
  BY <1>5, <1>6, <1>7, <1>8, SeqEqual

LEMMA NoGapInit == Stream!Init => Stream!NoGapWhileConsumed
<1> SUFFICES ASSUME Stream!Init PROVE Stream!NoGapWhileConsumed
  OBVIOUS
<1>1. StreamTypes
  BY StreamTypesInit
<1>2. /\ consumed = << >> /\ buffer = << >>
      /\ \A c \in Connections : task[c] = "reading" /\ received[c] = 0
  BY DEF Stream!Init
<1>3. DOMAIN Stream!Sent = {}
  <2>1. Len(consumed) = 0 /\ Len(buffer) = 0
    BY <1>2
  <2>2. DOMAIN Stream!Sent = 1 .. Len(consumed) + Len(buffer)
    BY <1>1, SentProperties
  <2> QED
    BY <2>1, <2>2
<1>4. \A c \in Connections : Stream!SentFrom(c) = {}
  BY <1>3 DEF Stream!SentFrom
<1>5. \A c \in Connections :
        1 .. (IF task[c] = "pushing" THEN received[c] - 1 ELSE received[c]) = {}
  BY <1>2
<1> QED
  BY <1>3, <1>4, <1>5 DEF Stream!NoGapWhileConsumed

\* As long as nothing is sent, lost or received, nothing changes for it.
LEMMA NoGapUnchanged ==
  ASSUME Stream!NoGapWhileConsumed, Stream!Sent' = Stream!Sent,
         consumer' => /\ consumer
                      /\ \A c \in Connections :
                           (IF task[c] = "pushing" THEN received[c] - 1
                            ELSE received[c])
                             = (IF task'[c] = "pushing" THEN received'[c] - 1
                                ELSE received'[c])
  PROVE  Stream!NoGapWhileConsumed'
<1>1. \A c \in Connections : Stream!SentFrom(c)' = Stream!SentFrom(c)
  BY DEF Stream!SentFrom
<1>2. \A i, j \in DOMAIN Stream!Sent' :
        i < j /\ Stream!Sent'[i][1] = Stream!Sent'[j][1]
          => Stream!Sent'[i][2] < Stream!Sent'[j][2]
  BY DEF Stream!NoGapWhileConsumed
<1>3. \A c \in Connections : \A n \in Stream!SentFrom(c)' :
        1 .. n \subseteq Stream!SentFrom(c)'
  BY <1>1 DEF Stream!NoGapWhileConsumed
<1>4. consumer' => \A c \in Connections :
        Stream!SentFrom(c)' =
          1 .. (IF task'[c] = "pushing" THEN received'[c] - 1 ELSE received'[c])
  BY <1>1 DEF Stream!NoGapWhileConsumed
<1> QED
  BY <1>2, <1>3, <1>4 DEF Stream!NoGapWhileConsumed

\* An event that is pushed is the next one of its connection.
LEMMA NoGapPush ==
  ASSUME StreamTypes, Stream!NoGapWhileConsumed, NEW c \in Connections,
         Stream!Push(c)
  PROVE  Stream!NoGapWhileConsumed'
<1> DEFINE e == <<c, received[c]>>
           s == Stream!Sent
           k == Len(Stream!Sent)
<1>1. /\ task[c] = "pushing"
      /\ consumer
      /\ buffer' = Append(buffer, e)
      /\ task' = [task EXCEPT ![c] = "reading"]
      /\ UNCHANGED <<received, consumer, consumed>>
  BY DEF Stream!Push
<1>2. e \in Stream!Events
  BY <1>1, PushedEvent
<1>3. received[c] \in 1 .. MaxDatagrams
  BY <1>2 DEF Stream!Events
<1>4. /\ task \in [Connections -> {"reading", "pushing", "ended"}]
      /\ received \in [Connections -> 0 .. MaxDatagrams]
      /\ buffer \in Seq(Stream!Events)
      /\ consumed \in Seq(Stream!Events)
  BY DEF StreamTypes, Stream!TypeOK
<1>5. /\ s \in Seq(Stream!Events)
      /\ k \in Nat
      /\ DOMAIN s = 1 .. k
      /\ k = Len(consumed) + Len(buffer)
      /\ \A i \in 1 .. k :
           s[i] = IF i <= Len(consumed) THEN consumed[i]
                  ELSE buffer[i - Len(consumed)]
      /\ Len(consumed) \in Nat
      /\ Len(buffer) \in Nat
  BY SentProperties
<1>6. /\ buffer' \in Seq(Stream!Events)
      /\ Len(buffer') = Len(buffer) + 1
      /\ \A i \in 1 .. Len(buffer) : buffer'[i] = buffer[i]
      /\ buffer'[Len(buffer) + 1] = e
  BY <1>1, <1>2, <1>4, AppendProperties
<1>7. /\ Stream!Sent' \in Seq(Stream!Events)
      /\ Len(Stream!Sent') = Len(consumed) + Len(buffer')
      /\ \A i \in 1 .. Len(consumed) + Len(buffer') :
           Stream!Sent'[i] = IF i <= Len(consumed) THEN consumed[i]
                             ELSE buffer'[i - Len(consumed)]
  <2>1. Stream!Sent' = consumed \o buffer'
    BY <1>1 DEF Stream!Sent
  <2> QED
    BY <1>4, <1>6, <2>1, ConcatProperties
<1> HIDE DEF e, s, k
<1>8. /\ Len(Stream!Sent') = k + 1
      /\ DOMAIN Stream!Sent' = 1 .. k + 1
  BY <1>5, <1>6, <1>7
<1>9. Stream!Sent'[k + 1] = e
  <2>1. k + 1 \in 1 .. Len(consumed) + Len(buffer')
    BY <1>5, <1>6
  <2>2. ASSUME NEW i \in 1 .. Len(consumed) + Len(buffer'), i = k + 1
        PROVE  Stream!Sent'[i] = e
    <3>1. ~ i <= Len(consumed) /\ i - Len(consumed) = Len(buffer) + 1
      BY <1>5, <2>2
    <3>2. Stream!Sent'[i] = buffer'[i - Len(consumed)]
      BY <1>7, <3>1
    <3> QED
      BY <1>6, <3>1, <3>2
  <2> QED
    BY <2>1, <2>2
<1>10. ASSUME NEW i \in 1 .. k
       PROVE  Stream!Sent'[i] = s[i]
  <2>1. i \in 1 .. Len(consumed) + Len(buffer')
    BY <1>5, <1>6
  <2>2. ~ i <= Len(consumed) => i - Len(consumed) \in 1 .. Len(buffer)
    BY <1>5
  <2> QED
    BY <1>5, <1>6, <1>7, <2>1, <2>2
<1>11. Stream!SentFrom(c) = 1 .. received[c] - 1
  BY <1>1 DEF Stream!NoGapWhileConsumed
<1>12. ASSUME NEW i \in 1 .. k + 1, NEW j \in 1 .. k + 1, i < j,
              Stream!Sent'[i][1] = Stream!Sent'[j][1]
       PROVE  Stream!Sent'[i][2] < Stream!Sent'[j][2]
  <2>1. i \in 1 .. k
    BY <1>5, <1>12
  <2>2. CASE j \in 1 .. k
    <3>1. /\ Stream!Sent'[i] = s[i] /\ Stream!Sent'[j] = s[j]
          /\ i \in DOMAIN s /\ j \in DOMAIN s
      BY <1>5, <1>10, <2>1, <2>2
    <3>2. s[i][1] = s[j][1]
      BY <1>12, <3>1
    <3>3. s[i][2] < s[j][2]
      BY <1>12, <3>1, <3>2 DEF Stream!NoGapWhileConsumed, s
    <3> QED
      BY <3>1, <3>3
  <2>3. CASE j = k + 1
    <3>1. Stream!Sent'[j][1] = c /\ Stream!Sent'[j][2] = received[c]
      BY <1>9, <2>3 DEF e
    <3>2. s[i] \in Connections \X (1 .. MaxDatagrams) /\ s[i][1] = c
      BY <1>5, <1>10, <1>12, <2>1, <3>1, ElementOfSeq DEF Stream!Events
    <3>3. s[i][2] \in 1 .. MaxDatagrams /\ s[i] = <<c, s[i][2]>>
      BY <3>2
    <3>4. s[i][2] \in Stream!SentFrom(c)
      BY <1>5, <2>1, <3>3 DEF Stream!SentFrom, s
    <3>5. s[i][2] < received[c]
      BY <1>3, <1>11, <3>4
    <3> QED
      BY <1>10, <2>1, <3>1, <3>5
  <2>4. k \in Nat
    BY <1>5
  <2>5. j \in 1 .. k \/ j = k + 1
    BY <2>4
  <2> QED
    BY <2>2, <2>3, <2>5
<1>13. ASSUME NEW d \in Connections
       PROVE  Stream!SentFrom(d)' =
                1 .. (IF task'[d] = "pushing" THEN received'[d] - 1
                      ELSE received'[d])
  <2>1. Stream!SentFrom(d)' =
          {n \in 1 .. MaxDatagrams : \E i \in 1 .. k + 1 : Stream!Sent'[i] = <<d, n>>}
    BY <1>8 DEF Stream!SentFrom
  <2>2. Stream!SentFrom(d) =
          {n \in 1 .. MaxDatagrams : \E i \in 1 .. k : s[i] = <<d, n>>}
    BY <1>5 DEF Stream!SentFrom, s
  <2>3. \A n \in 1 .. MaxDatagrams :
          (\E i \in 1 .. k + 1 : Stream!Sent'[i] = <<d, n>>)
            <=> (\E i \in 1 .. k : s[i] = <<d, n>>) \/ e = <<d, n>>
    <3>1. 1 .. k + 1 = (1 .. k) \cup {k + 1}
      BY <1>5
    <3> QED
      BY <1>9, <1>10, <3>1
  <2>4. CASE d = c
    <3>1. \A n \in 1 .. MaxDatagrams : e = <<d, n>> <=> n = received[c]
      BY <2>4 DEF e
    <3>2. Stream!SentFrom(d)' = Stream!SentFrom(d) \cup {received[c]}
      BY <1>3, <2>1, <2>2, <2>3, <3>1
    <3>3. Stream!SentFrom(d)' = 1 .. received[c]
      <4>1. Stream!SentFrom(d) = 1 .. received[c] - 1
        BY <1>11, <2>4
      <4>2. 1 .. received[c] = (1 .. received[c] - 1) \cup {received[c]}
        BY <1>3
      <4> QED
        BY <3>2, <4>1, <4>2
    <3>4. task'[d] = "reading" /\ received'[d] = received[c]
      BY <1>1, <1>4, <2>4
    <3> QED
      BY <3>3, <3>4
  <2>5. CASE d # c
    <3>1. \A n : e # <<d, n>>
      BY <2>5 DEF e
    <3>2. Stream!SentFrom(d)' = Stream!SentFrom(d)
      BY <2>1, <2>2, <2>3, <3>1
    <3>3. task'[d] = task[d] /\ received'[d] = received[d]
      BY <1>1, <1>4, <2>5
    <3>4. Stream!SentFrom(d) =
            1 .. (IF task[d] = "pushing" THEN received[d] - 1 ELSE received[d])
      BY <1>1 DEF Stream!NoGapWhileConsumed
    <3> QED
      BY <3>2, <3>3, <3>4
  <2> QED
    BY <2>4, <2>5
<1>14. ASSUME NEW d \in Connections, NEW n \in Stream!SentFrom(d)'
       PROVE  1 .. n \subseteq Stream!SentFrom(d)'
  <2> DEFINE u == IF task'[d] = "pushing" THEN received'[d] - 1 ELSE received'[d]
  <2>1. Stream!SentFrom(d)' = 1 .. u
    BY <1>13
  <2>2. u \in Int
    <3>1. received'[d] \in 0 .. MaxDatagrams
      BY <1>1, <1>4
    <3> QED
      BY <3>1, StreamAssumption
  <2> HIDE DEF u
  <2> QED
    BY <1>14, <2>1, <2>2
<1> QED
  BY <1>8, <1>12, <1>13, <1>14 DEF Stream!NoGapWhileConsumed

\* Without its buffer, what was sent is a front part of what it was, and so has
\* no gaps either.
LEMMA NoGapConsumerGone ==
  ASSUME StreamTypes, Stream!NoGapWhileConsumed, Stream!ConsumerGone
  PROVE  Stream!NoGapWhileConsumed'
<1> DEFINE s == Stream!Sent
           k == Len(consumed)
<1>1. /\ consumer' = FALSE
      /\ buffer' = << >>
      /\ consumed' = consumed
      /\ consumed \in Seq(Stream!Events)
  BY DEF Stream!ConsumerGone, StreamTypes, Stream!TypeOK
<1>2. /\ s \in Seq(Stream!Events)
      /\ k \in Nat
      /\ Len(buffer) \in Nat
      /\ DOMAIN s = 1 .. k + Len(buffer)
      /\ \A i \in 1 .. k + Len(buffer) :
           s[i] = IF i <= k THEN consumed[i] ELSE buffer[i - k]
  BY SentProperties
<1>3. Stream!Sent' = consumed
  BY <1>1, ConcatEmptySeq DEF Stream!Sent
<1>4. DOMAIN consumed = 1 .. k
  BY <1>1
<1> HIDE DEF s, k
<1>5. \A i \in 1 .. k : i \in DOMAIN s /\ s[i] = consumed[i]
  BY <1>2
<1>6. \A c : Stream!SentFrom(c)' =
        {n \in 1 .. MaxDatagrams : \E i \in 1 .. k : s[i] = <<c, n>>}
  BY <1>3, <1>4, <1>5 DEF Stream!SentFrom
<1>7. ASSUME NEW i \in 1 .. k, NEW j \in 1 .. k, i < j,
             consumed[i][1] = consumed[j][1]
      PROVE  consumed[i][2] < consumed[j][2]
  BY <1>5, <1>7 DEF Stream!NoGapWhileConsumed, s
<1>8. ASSUME NEW c \in Connections, NEW n \in Stream!SentFrom(c)',
             NEW p \in 1 .. n
      PROVE  p \in Stream!SentFrom(c)'
  <2>1. n \in 1 .. MaxDatagrams /\ p \in Int /\ p <= n
    BY <1>6
  <2>2. PICK i \in 1 .. k : s[i] = <<c, n>>
    BY <1>6
  <2>3. n \in Stream!SentFrom(c)
    BY <1>5, <2>1, <2>2 DEF Stream!SentFrom, s
  <2>4. p \in Stream!SentFrom(c)
    BY <2>3 DEF Stream!NoGapWhileConsumed
  <2>5. PICK j \in DOMAIN s : s[j] = <<c, p>>
    BY <2>4 DEF Stream!SentFrom, s
  <2>6. ~ i < j \/ n < p
    BY <1>5, <2>2, <2>5 DEF Stream!NoGapWhileConsumed, s
  <2>7. CASE ~ i < j
    <3>1. j \in 1 .. k
      BY <1>2, <2>7
    <3> QED
      BY <1>6, <2>1, <2>4, <2>5, <3>1 DEF Stream!SentFrom
  <2>8. CASE n < p
    BY <2>1, <2>8
  <2> QED
    BY <2>6, <2>7, <2>8
<1> QED
  BY <1>1, <1>3, <1>4, <1>7, <1>8 DEF Stream!NoGapWhileConsumed

LEMMA NoGapStep ==
  StreamTypes /\ Stream!NoGapWhileConsumed /\ [Stream!Next]_(Stream!vars)
    => Stream!NoGapWhileConsumed'
<1> SUFFICES ASSUME StreamTypes, Stream!NoGapWhileConsumed,
                    [Stream!Next]_(Stream!vars)
             PROVE  Stream!NoGapWhileConsumed'
  OBVIOUS
<1>1. /\ task \in [Connections -> {"reading", "pushing", "ended"}]
      /\ received \in [Connections -> 0 .. MaxDatagrams]
  BY DEF StreamTypes, Stream!TypeOK
<1>2. ASSUME NEW c \in Connections, Stream!Datagram(c)
      PROVE  Stream!NoGapWhileConsumed'
  <2>1. /\ Stream!Sent' = Stream!Sent
        /\ consumer' = consumer
        /\ task[c] = "reading"
        /\ received' = [received EXCEPT ![c] = received[c] + 1]
        /\ task' = [task EXCEPT ![c] = "pushing"]
    BY <1>2 DEF Stream!Datagram, Stream!Sent
  <2>2. received[c] + 1 - 1 = received[c]
    BY <1>1
  <2>3. \A d \in Connections :
          (IF task[d] = "pushing" THEN received[d] - 1 ELSE received[d])
            = (IF task'[d] = "pushing" THEN received'[d] - 1 ELSE received'[d])
    BY <1>1, <2>1, <2>2
  <2> QED
    BY <2>1, <2>3, NoGapUnchanged
<1>3. ASSUME NEW c \in Connections, Stream!End(c)
      PROVE  Stream!NoGapWhileConsumed'
  <2>1. /\ Stream!Sent' = Stream!Sent
        /\ consumer' = consumer
        /\ received' = received
        /\ task[c] = "reading"
        /\ task' = [task EXCEPT ![c] = "ended"]
    BY <1>3 DEF Stream!End, Stream!Sent
  <2>2. \A d \in Connections : task'[d] = "pushing" <=> task[d] = "pushing"
    BY <1>1, <2>1
  <2> QED
    BY <2>1, <2>2, NoGapUnchanged
<1>4. ASSUME NEW c \in Connections, Stream!PushFails(c)
      PROVE  Stream!NoGapWhileConsumed'
  <2>1. Stream!Sent' = Stream!Sent /\ ~ consumer'
    BY <1>4 DEF Stream!PushFails, Stream!Sent
  <2> QED
    BY <2>1, NoGapUnchanged
<1>5. CASE Stream!Consume
  <2>1. Stream!Sent' = Stream!Sent
    BY <1>5, ConsumedStaysSent
  <2>2. UNCHANGED <<task, received, consumer>>
    BY <1>5 DEF Stream!Consume
  <2> QED
    BY <2>1, <2>2, NoGapUnchanged
<1>6. CASE UNCHANGED Stream!vars
  <2>1. Stream!Sent' = Stream!Sent /\ UNCHANGED <<task, received, consumer>>
    BY <1>6 DEF Stream!vars, Stream!Sent
  <2> QED
    BY <2>1, NoGapUnchanged
<1> QED
  BY <1>2, <1>3, <1>4, <1>5, <1>6, NoGapPush, NoGapConsumerGone
  DEF Stream!Next

\* What the model checker runs is, for the stream, its specification.
LEMMA StreamPart == MCSpec => Stream!Spec
<1>1. MCInit => Stream!Init
  BY DEF MCInit
<1>2. [MCNext]_allVars => [Stream!Next]_(Stream!vars)
  BY DEF MCNext, allVars, stream, Stream!vars
<1> QED
  BY <1>1, <1>2, PTL DEF MCSpec, Stream!Spec

\* The consumer gets the events of each connection in order and without a gap,
\* for any number of connections and any capacity (stream.rs:31-36, 44-59).
THEOREM NoGapWhileConsumedAlways == MCSpec => []NoGapWhileConsumed
<1>1. Stream!Spec => []Stream!NoGapWhileConsumed
  BY StreamTypesInvariant, NoGapInit, NoGapStep, PTL DEF Stream!Spec
<1> QED
  BY <1>1, StreamPart, PTL DEF NoGapWhileConsumed

-----------------------------------------------------------------------------
(* The ledger syncer: sets of numbers and of events *)

\* A set of naturals has a least one.
LEMMA LeastNatural ==
  ASSUME NEW S \in SUBSET Nat, S # {}
  PROVE  \E x \in S : \A y \in S : x <= y
<1> DEFINE R == OpToRel(<, Nat)
<1>1. IsWellFoundedOn(R, Nat)
  BY NatLessThanWellFounded
<1>2. \A x, y \in Nat : <<y, x>> \in R <=> y < x
  BY DEF OpToRel
<1> HIDE DEF R
<1>3. PICK x \in S : \A y \in S : ~ (<<y, x>> \in R)
  BY <1>1, WFMin
<1>4. \A y \in S : ~ (y < x)
  BY <1>2, <1>3
<1> QED
  BY <1>3, <1>4

\* A set of naturals with a bound has a greatest one, which is its maximum.
LEMMA GreatestNatural ==
  ASSUME NEW S, NEW n \in Nat, S \subseteq 0 .. n, S # {}
  PROVE  /\ Syncer!Max(S) \in S
         /\ \A y \in S : y <= Syncer!Max(S)
<1> DEFINE T == {x \in 0 .. n : n - x \in S}
<1>1. T \subseteq Nat /\ T # {}
  <2>1. PICK y \in S : TRUE
    OBVIOUS
  <2>2. n - y \in 0 .. n /\ n - (n - y) = y
    BY <2>1
  <2>3. n - y \in T
    BY <2>1, <2>2
  <2>4. T \subseteq 0 .. n
    OBVIOUS
  <2> HIDE DEF T
  <2> QED
    BY <2>3, <2>4
<1>2. PICK x \in T : \A y \in T : x <= y
  <2> HIDE DEF T
  <2> QED
    BY <1>1, LeastNatural
<1>3. ASSUME NEW y \in S
      PROVE  n - x >= y
  <2>1. n - y \in 0 .. n /\ n - (n - y) = y
    BY <1>3
  <2>2. n - y \in T
    BY <1>3, <2>1
  <2>3. x <= n - y
    BY <1>2, <2>2
  <2> QED
    BY <1>2, <2>1, <2>3
<1>4. n - x \in S /\ n - x \in Int
  BY <1>2
<1>5. \E z \in S : \A y \in S : z >= y
  BY <1>3, <1>4
<1>6. /\ Syncer!Max(S) \in S
      /\ \A y \in S : Syncer!Max(S) >= y
  BY <1>5 DEF Syncer!Max
<1>7. \A y \in S : y \in Int
  OBVIOUS
<1> QED
  BY <1>6, <1>7

LEMMA SyncerCardinality ==
  ASSUME NEW S
  PROVE  Syncer!Cardinality(S) = Cardinality(S)
BY DEF Cardinality, Syncer!Cardinality

\* The events of a contract in one ledger, n of them, and in all ledgers.
LEMMA LedgerEventsCount ==
  ASSUME NEW c, NEW s, NEW n \in Nat
  PROVE  LET E == {<<c, s, i>> : i \in 1 .. n}
         IN  IsFiniteSet(E) /\ Cardinality(E) <= n
<1> DEFINE E == {<<c, s, i>> : i \in 1 .. n}
           f == [i \in 1 .. n |-> <<c, s, i>>]
<1>1. IsFiniteSet(1 .. n) /\ Cardinality(1 .. n) = n
  BY UpTo
<1>2. f \in Surjection(1 .. n, E)
  BY DEF Surjection
<1> HIDE DEF f, E
<1>3. IsFiniteSet(E) /\ Cardinality(E) <= Cardinality(1 .. n)
  BY <1>1, <1>2, FS_Surjection
<1> QED
  BY <1>1, <1>3 DEF E

LEMMA EventsFinite ==
  ASSUME NEW c, NEW l \in Nat, NEW n \in Nat,
         NEW T, \A e \in T : \E s \in 1 .. l, i \in 1 .. n : e = <<c, s, i>>
  PROVE  IsFiniteSet(T)
<1> DEFINE P == (1 .. l) \X (1 .. n)
           E == {<<c, p[1], p[2]>> : p \in P}
           f == [p \in P |-> <<c, p[1], p[2]>>]
<1>1. IsFiniteSet(1 .. l) /\ IsFiniteSet(1 .. n)
  BY UpTo
<1>2. IsFiniteSet(P)
  BY <1>1, FS_Product
<1>3. f \in Surjection(P, E)
  <2> HIDE DEF P
  <2> QED
    BY DEF Surjection
<1>4. T \subseteq E
  <2>1. ASSUME NEW e \in T
        PROVE  e \in E
    <3>1. PICK s \in 1 .. l, i \in 1 .. n : e = <<c, s, i>>
      OBVIOUS
    <3>2. <<s, i>> \in P /\ e = <<c, <<s, i>>[1], <<s, i>>[2]>>
      BY <3>1
    <3> QED
      BY <3>2
  <2> QED
    BY <2>1
<1> HIDE DEF f, E, P
<1>5. IsFiniteSet(E)
  BY <1>2, <1>3, FS_Surjection
<1> QED
  BY <1>4, <1>5, FS_Subset

-----------------------------------------------------------------------------
(* The ledger syncer: types *)

SyncerTypes == Syncer!TypeOK /\ Len(ledgers) <= MaxLedgers

Matching(c) ==
  UNION {Syncer!EventsOf(c, s) : s \in {t \in DOMAIN ledgers : t >= cursor}}

LEMMA LedgerTypes ==
  ASSUME SyncerTypes
  PROVE  /\ ledgers \in Seq([Contracts -> 0 .. MaxEvents])
         /\ Len(ledgers) \in Nat
         /\ DOMAIN ledgers = 1 .. Len(ledgers)
         /\ cursor \in Nat
         /\ cursor <= Len(ledgers)
         /\ Len(ledgers) <= MaxLedgers
         /\ \A s \in DOMAIN ledgers, c \in Contracts :
              ledgers[s][c] \in 0 .. MaxEvents
<1>1. /\ ledgers \in Seq([Contracts -> 0 .. MaxEvents])
      /\ cursor \in 0 .. Len(ledgers)
      /\ Len(ledgers) <= MaxLedgers
  BY DEF SyncerTypes, Syncer!TypeOK
<1>2. Len(ledgers) \in Nat /\ DOMAIN ledgers = 1 .. Len(ledgers)
  BY <1>1
<1>3. ASSUME NEW s \in DOMAIN ledgers, NEW c \in Contracts
      PROVE  ledgers[s][c] \in 0 .. MaxEvents
  <2>1. ledgers[s] \in [Contracts -> 0 .. MaxEvents]
    BY <1>1, <1>2, ElementOfSeq
  <2> QED
    BY <2>1
<1>4. cursor \in Nat /\ cursor <= Len(ledgers)
  BY <1>1, <1>2
<1> QED
  BY <1>1, <1>2, <1>3, <1>4

\* What an event of a contract looks like.
LEMMA EventShape ==
  ASSUME SyncerTypes, NEW c \in Contracts, NEW s \in DOMAIN ledgers,
         NEW e \in Syncer!EventsOf(c, s)
  PROVE  /\ e = <<c, s, e[3]>>
         /\ e[1] = c
         /\ e[2] = s
         /\ e[3] \in 1 .. ledgers[s][c]
         /\ e[2] \in Nat
         /\ e[3] \in Nat
         /\ e[2] \in 1 .. MaxLedgers
         /\ e[3] \in 1 .. MaxEvents
<1>1. PICK n \in 1 .. ledgers[s][c] : e = <<c, s, n>>
  BY DEF Syncer!EventsOf
<1>2. /\ s \in 1 .. Len(ledgers)
      /\ Len(ledgers) \in Nat
      /\ Len(ledgers) <= MaxLedgers
      /\ ledgers[s][c] \in 0 .. MaxEvents
  BY LedgerTypes
<1>3. MaxLedgers \in Nat /\ MaxEvents \in Nat
  BY SyncerAssumption
<1>4. s \in 1 .. MaxLedgers /\ n \in 1 .. MaxEvents /\ s \in Nat /\ n \in Nat
  BY <1>2, <1>3
<1> QED
  BY <1>1, <1>4

LEMMA MatchingShape ==
  ASSUME SyncerTypes, NEW c \in Contracts, NEW e \in Matching(c)
  PROVE  /\ e = <<c, e[2], e[3]>>
         /\ e[2] \in DOMAIN ledgers
         /\ e[2] >= cursor
         /\ e \in Syncer!EventsOf(c, e[2])
         /\ e[2] \in Nat
         /\ e[3] \in Nat
         /\ e[2] \in 1 .. MaxLedgers
         /\ e[3] \in 1 .. MaxEvents
<1>1. PICK s \in DOMAIN ledgers : s >= cursor /\ e \in Syncer!EventsOf(c, s)
  BY DEF Matching
<1> QED
  BY <1>1, EventShape

LEMMA MatchingFinite ==
  ASSUME SyncerTypes, NEW c \in Contracts
  PROVE  IsFiniteSet(Matching(c))
<1>1. MaxLedgers \in Nat /\ MaxEvents \in Nat
  BY SyncerAssumption
<1>2. \A e \in Matching(c) :
        \E s \in 1 .. MaxLedgers, i \in 1 .. MaxEvents : e = <<c, s, i>>
  BY MatchingShape
<1> QED
  BY <1>1, <1>2, EventsFinite

\* A response holds the events that no more than a page is not after.
LEMMA ResponseProperties ==
  ASSUME NEW c \in Contracts
  PROVE  Syncer!Response(c) =
           {e \in Matching(c) :
              Cardinality({d \in Matching(c) : Syncer!NotAfter(d, e)}) <= PageSize}
BY SyncerCardinality DEF Syncer!Response, Matching

\* The cursor moves to the ledger of a last event of the response.
LEMMA MovedProperties ==
  ASSUME SyncerTypes, NEW c \in Contracts, NEW R, R \subseteq Matching(c)
  PROVE  /\ Syncer!Moved(R) \in Nat
         /\ Syncer!Moved(R) >= cursor
         /\ Syncer!Moved(R) <= Len(ledgers)
         /\ \A e \in R : e[2] <= Syncer!Moved(R)
         /\ R # {} => \E e \in R : e[2] = Syncer!Moved(R)
         /\ R = {} => Syncer!Moved(R) = cursor
<1> DEFINE L == {e[2] : e \in R}
<1>1. /\ Len(ledgers) \in Nat
      /\ cursor \in Nat
      /\ cursor <= Len(ledgers)
      /\ DOMAIN ledgers = 1 .. Len(ledgers)
  BY LedgerTypes
<1>2. CASE R = {}
  BY <1>1, <1>2 DEF Syncer!Moved
<1>3. CASE R # {}
  <2>1. \A e \in R : e[2] \in 1 .. Len(ledgers) /\ e[2] >= cursor
    BY <1>1, MatchingShape
  <2>2. \A l \in L : l \in 1 .. Len(ledgers) /\ l >= cursor
    BY <2>1
  <2>3. L \subseteq 0 .. Len(ledgers)
    <3> HIDE DEF L
    <3> QED
      BY <1>1, <2>2
  <2>4. L # {}
    BY <1>3
  <2>5. Syncer!Moved(R) = Syncer!Max(L)
    BY <1>3 DEF Syncer!Moved
  <2>6. Syncer!Max(L) \in L /\ \A l \in L : l <= Syncer!Max(L)
    <3> HIDE DEF L
    <3> QED
      BY <1>1, <2>3, <2>4, GreatestNatural
  <2>7. \E e \in R : e[2] = Syncer!Max(L)
    BY <2>6
  <2>8. \A e \in R : e[2] <= Syncer!Max(L)
    BY <2>6
  <2>9. /\ Syncer!Max(L) \in Nat
        /\ Syncer!Max(L) >= cursor
        /\ Syncer!Max(L) <= Len(ledgers)
    <3> HIDE DEF L
    <3> QED
      BY <1>1, <2>2, <2>6
  <2> HIDE DEF L
  <2> QED
    BY <1>3, <2>5, <2>7, <2>8, <2>9
<1> QED
  BY <1>2, <1>3

LEMMA SyncerTypesInit == Syncer!Init => SyncerTypes
<1> SUFFICES ASSUME Syncer!Init PROVE SyncerTypes
  OBVIOUS
<1>1. ledgers = << >> /\ cursor = 0 /\ delivered = {} /\ synced = {}
  BY DEF Syncer!Init
<1>2. /\ << >> \in Seq([Contracts -> 0 .. MaxEvents])
      /\ Len(<< >>) = 0
  BY EmptySeq
<1>3. 0 \in 0 .. 0 /\ 0 <= MaxLedgers
  BY SyncerAssumption
<1> QED
  BY <1>1, <1>2, <1>3 DEF SyncerTypes, Syncer!TypeOK

LEMMA SyncerTypesStep ==
  SyncerTypes /\ [Syncer!Next]_(Syncer!vars) => SyncerTypes'
<1> SUFFICES ASSUME SyncerTypes, [Syncer!Next]_(Syncer!vars)
             PROVE  SyncerTypes'
  OBVIOUS
<1>t. /\ ledgers \in Seq([Contracts -> 0 .. MaxEvents])
      /\ cursor \in 0 .. Len(ledgers)
      /\ delivered \subseteq Contracts \X (1 .. MaxLedgers) \X (1 .. MaxEvents)
      /\ synced \subseteq Contracts
      /\ Len(ledgers) <= MaxLedgers
      /\ Len(ledgers) \in Nat
  BY LedgerTypes DEF SyncerTypes, Syncer!TypeOK
<1>1. CASE Syncer!CloseLedger
  <2>1. PICK events \in [Contracts -> 0 .. MaxEvents] :
          ledgers' = Append(ledgers, events)
    BY <1>1 DEF Syncer!CloseLedger
  <2>2. /\ ledgers' \in Seq([Contracts -> 0 .. MaxEvents])
        /\ Len(ledgers') = Len(ledgers) + 1
    BY <1>t, <2>1, AppendProperties
  <2>3. /\ Len(ledgers) < MaxLedgers
        /\ UNCHANGED <<cursor, delivered, synced>>
    BY <1>1 DEF Syncer!CloseLedger
  <2>4. cursor' \in 0 .. Len(ledgers')
    BY <1>t, <2>2, <2>3
  <2>5. Len(ledgers') <= MaxLedgers
    BY <1>t, <2>2, <2>3, SyncerAssumption
  <2> QED
    BY <1>t, <2>2, <2>3, <2>4, <2>5 DEF SyncerTypes, Syncer!TypeOK
<1>2. ASSUME NEW c \in Contracts, Syncer!Sync(c)
      PROVE  SyncerTypes'
  <2> DEFINE R == Syncer!Response(c)
  <2>1. /\ cursor' = Syncer!Moved(R)
        /\ delivered' = delivered \cup R
        /\ synced' = synced \cup {c}
        /\ ledgers' = ledgers
    BY <1>2 DEF Syncer!Sync
  <2>2. R \subseteq Matching(c)
    BY ResponseProperties
  <2>3. cursor' \in 0 .. Len(ledgers)
    <3>1. /\ Syncer!Moved(R) \in Nat
          /\ Syncer!Moved(R) <= Len(ledgers)
      BY <2>2, MovedProperties
    <3> QED
      BY <1>t, <2>1, <3>1
  <2>4. R \subseteq Contracts \X (1 .. MaxLedgers) \X (1 .. MaxEvents)
    BY <2>2, MatchingShape
  <2> HIDE DEF R
  <2> QED
    BY <1>t, <2>1, <2>3, <2>4 DEF SyncerTypes, Syncer!TypeOK
<1>3. ASSUME NEW c \in Contracts, Syncer!SyncFails(c)
      PROVE  SyncerTypes'
  BY <1>3, <1>t DEF Syncer!SyncFails, SyncerTypes, Syncer!TypeOK
<1>4. CASE UNCHANGED Syncer!vars
  BY <1>4, <1>t DEF Syncer!vars, SyncerTypes, Syncer!TypeOK
<1> QED
  BY <1>1, <1>2, <1>3, <1>4 DEF Syncer!Next

LEMMA SyncerTypesInvariant == Syncer!Spec => []SyncerTypes
BY SyncerTypesInit, SyncerTypesStep, PTL DEF Syncer!Spec

-----------------------------------------------------------------------------
(* The ledger syncer: no event is missed *)

\* A later event of another contract was delivered.
Overtaken(c, e) == \E d \in delivered : d[1] # c /\ e[2] < d[2]

\* What is delivered was asked for and is not after the cursor; what is not
\* delivered is not behind it, unless another contract overtook it.
CursorDivides ==
  /\ \A d \in delivered : d[1] \in synced /\ d[2] <= cursor
  /\ \A c \in Contracts : \A e \in Syncer!Undelivered(c) :
       e[2] < cursor => Overtaken(c, e)

LEMMA UndeliveredShape ==
  ASSUME SyncerTypes, NEW c \in Contracts, NEW e \in Syncer!Undelivered(c)
  PROVE  /\ e = <<c, e[2], e[3]>>
         /\ e[2] \in DOMAIN ledgers
         /\ e \in Syncer!EventsOf(c, e[2])
         /\ e[2] \in Nat
         /\ e[3] \in Nat
         /\ e \notin delivered
         /\ e[2] >= cursor => e \in Matching(c)
<1>1. PICK s \in DOMAIN ledgers : e \in Syncer!EventsOf(c, s)
  BY DEF Syncer!Undelivered
<1>2. /\ e = <<c, e[2], e[3]>>
      /\ e[2] = s
      /\ e[2] \in Nat
      /\ e[3] \in Nat
  BY <1>1, EventShape
<1>3. e \notin delivered
  BY DEF Syncer!Undelivered
<1>4. e[2] >= cursor => e \in Matching(c)
  BY <1>1, <1>2 DEF Matching
<1> QED
  BY <1>1, <1>2, <1>3, <1>4

LEMMA DividesInit == Syncer!Init => CursorDivides
<1> SUFFICES ASSUME Syncer!Init PROVE CursorDivides
  OBVIOUS
<1>1. delivered = {} /\ ledgers = << >>
  BY DEF Syncer!Init
<1>2. \A c \in Contracts : Syncer!Undelivered(c) = {}
  BY <1>1 DEF Syncer!Undelivered
<1> QED
  BY <1>1, <1>2 DEF CursorDivides

\* What a response leaves out is not before what it holds.
LEMMA ResponseIsOldest ==
  ASSUME SyncerTypes, NEW c \in Contracts, NEW f \in Syncer!Response(c),
         NEW e \in Matching(c), e \notin Syncer!Response(c)
  PROVE  e[2] >= f[2]
<1> DEFINE D == {d \in Matching(c) : Syncer!NotAfter(d, e)}
           F == {d \in Matching(c) : Syncer!NotAfter(d, f)}
<1>1. f \in Matching(c) /\ Cardinality(F) <= PageSize
  BY ResponseProperties
<1>2. ~ Cardinality(D) <= PageSize
  BY ResponseProperties
<1>3. IsFiniteSet(Matching(c))
  BY MatchingFinite
<1>4. IsFiniteSet(D) /\ IsFiniteSet(F)
  BY <1>3, FS_Subset
<1>5. Cardinality(D) \in Nat /\ Cardinality(F) \in Nat /\ PageSize \in Nat
  <2> HIDE DEF D, F
  <2> QED
    BY <1>4, FS_CardinalityType, SyncerAssumption
<1>6. ~ D \subseteq F
  <2> HIDE DEF D, F
  <2>1. D \subseteq F => Cardinality(D) <= Cardinality(F)
    BY <1>4, FS_Subset
  <2> QED
    BY <1>1, <1>2, <1>5, <2>1
<1>7. PICK d \in Matching(c) : Syncer!NotAfter(d, e) /\ ~ Syncer!NotAfter(d, f)
  BY <1>6
<1>8. d[2] \in Nat /\ e[2] \in Nat /\ f[2] \in Nat
  BY <1>1, MatchingShape
<1> QED
  BY <1>7, <1>8 DEF Syncer!NotAfter

\* A ledger that closes is after the cursor, and so are its events.
LEMMA DividesClose ==
  ASSUME SyncerTypes, CursorDivides, Syncer!CloseLedger
  PROVE  CursorDivides'
<1>1. PICK events \in [Contracts -> 0 .. MaxEvents] :
        ledgers' = Append(ledgers, events)
  BY DEF Syncer!CloseLedger
<1>2. UNCHANGED <<cursor, delivered, synced>>
  BY DEF Syncer!CloseLedger
<1>3. /\ ledgers \in Seq([Contracts -> 0 .. MaxEvents])
      /\ Len(ledgers) \in Nat
      /\ cursor \in Nat
      /\ cursor <= Len(ledgers)
      /\ DOMAIN ledgers = 1 .. Len(ledgers)
  BY LedgerTypes
<1>4. /\ DOMAIN ledgers' = 1 .. Len(ledgers) + 1
      /\ \A s \in 1 .. Len(ledgers) : ledgers'[s] = ledgers[s]
  BY <1>1, <1>3, AppendProperties
<1>5. ASSUME NEW c \in Contracts, NEW e \in Syncer!Undelivered(c)', e[2] < cursor
      PROVE  Overtaken(c, e)
  <2>1. PICK s \in DOMAIN ledgers' : e \in {<<c, s, n>> : n \in 1 .. ledgers'[s][c]}
    BY DEF Syncer!Undelivered, Syncer!EventsOf
  <2>2. e[2] = s /\ e \notin delivered
    BY <1>2, <2>1 DEF Syncer!Undelivered
  <2>3. s \in 1 .. Len(ledgers)
    BY <1>3, <1>4, <1>5, <2>1, <2>2
  <2>4. e \in Syncer!EventsOf(c, s)
    BY <1>4, <2>1, <2>3 DEF Syncer!EventsOf
  <2>5. e \in Syncer!Undelivered(c)
    BY <1>3, <2>2, <2>3, <2>4 DEF Syncer!Undelivered
  <2> QED
    BY <1>5, <2>5 DEF CursorDivides
<1> QED
  BY <1>2, <1>5 DEF CursorDivides, Overtaken

\* A response leaves nothing of its own contract behind the new cursor, and
\* overtakes what it leaves there of the others.
LEMMA DividesSync ==
  ASSUME SyncerTypes, CursorDivides, NEW d \in Contracts, Syncer!Sync(d)
  PROVE  CursorDivides'
<1> DEFINE R == Syncer!Response(d)
<1>1. /\ cursor' = Syncer!Moved(R)
      /\ delivered' = delivered \cup R
      /\ synced' = synced \cup {d}
      /\ ledgers' = ledgers
  BY DEF Syncer!Sync
<1>2. R \subseteq Matching(d)
  BY ResponseProperties
<1>3. /\ cursor' \in Nat
      /\ cursor' >= cursor
      /\ \A e \in R : e[2] <= cursor'
      /\ R # {} => \E e \in R : e[2] = cursor'
      /\ R = {} => cursor' = cursor
  BY <1>1, <1>2, MovedProperties
<1>4. cursor \in Nat
  BY LedgerTypes
<1>5. \A c \in Contracts : Syncer!Undelivered(c)' = Syncer!Undelivered(c) \ R
  BY <1>1 DEF Syncer!Undelivered, Syncer!EventsOf
<1>6. \A e \in R : e[1] = d
  BY <1>2, MatchingShape
<1> HIDE DEF R
<1>7. ASSUME NEW g \in delivered'
      PROVE  g[1] \in synced' /\ g[2] <= cursor'
  <2>1. CASE g \in R
    BY <1>1, <1>3, <1>6, <2>1
  <2>2. CASE g \in delivered
    <3>1. g[1] \in synced /\ g[2] <= cursor
      BY <2>2 DEF CursorDivides
    <3>2. g \in Contracts \X (1 .. MaxLedgers) \X (1 .. MaxEvents)
      BY <2>2 DEF SyncerTypes, Syncer!TypeOK
    <3>3. g[2] \in Int
      BY <3>2
    <3> QED
      BY <1>1, <1>3, <1>4, <3>1, <3>3
  <2> QED
    BY <1>1, <1>7, <2>1, <2>2
<1>8. ASSUME NEW c \in Contracts, NEW e \in Syncer!Undelivered(c), e \notin R,
             e[2] < cursor'
      PROVE  \E g \in delivered' : g[1] # c /\ e[2] < g[2]
  <2>1. e[2] \in Nat /\ (e[2] >= cursor => e \in Matching(c))
    BY UndeliveredShape
  <2>2. CASE e[2] < cursor
    BY <1>1, <2>2 DEF CursorDivides, Overtaken
  <2>3. CASE e[2] >= cursor
    <3>1. PICK f \in R : f[2] = cursor'
      BY <1>3, <1>4, <1>8, <2>1, <2>3
    <3>2. c # d
      <4>1. SUFFICES ASSUME c = d PROVE FALSE
        OBVIOUS
      <4>2. e[2] >= f[2]
        BY <1>8, <2>1, <2>3, <3>1, <4>1, ResponseIsOldest DEF R
      <4> QED
        BY <1>3, <1>8, <2>1, <3>1, <4>2
    <3> QED
      BY <1>1, <1>6, <1>8, <3>1, <3>2
  <2> QED
    BY <1>4, <2>1, <2>2, <2>3
<1> QED
  BY <1>5, <1>7, <1>8 DEF CursorDivides, Overtaken

LEMMA DividesStep ==
  SyncerTypes /\ CursorDivides /\ [Syncer!Next]_(Syncer!vars) => CursorDivides'
<1> SUFFICES ASSUME SyncerTypes, CursorDivides, [Syncer!Next]_(Syncer!vars)
             PROVE  CursorDivides'
  OBVIOUS
<1>1. ASSUME UNCHANGED <<ledgers, cursor, delivered>>, synced \subseteq synced'
      PROVE  CursorDivides'
  <2>1. \A c \in Contracts : Syncer!Undelivered(c)' = Syncer!Undelivered(c)
    BY <1>1 DEF Syncer!Undelivered, Syncer!EventsOf
  <2> QED
    BY <1>1, <2>1 DEF CursorDivides, Overtaken
<1>2. ASSUME NEW d \in Contracts, Syncer!SyncFails(d)
      PROVE  CursorDivides'
  BY <1>1, <1>2 DEF Syncer!SyncFails
<1>3. CASE UNCHANGED Syncer!vars
  BY <1>1, <1>3 DEF Syncer!vars
<1> QED
  BY <1>2, <1>3, DividesClose, DividesSync DEF Syncer!Next

\* A set of events that has any has one that comes first.
LEMMA FirstEvent ==
  ASSUME NEW U, U # {}, \A e \in U : e[2] \in Nat /\ e[3] \in Nat
  PROVE  \E u \in U : \A e \in U : Syncer!NotAfter(u, e)
<1> DEFINE L == {e[2] : e \in U}
<1>1. PICK l \in L : \A k \in L : l <= k
  <2>1. L \in SUBSET Nat /\ L # {}
    OBVIOUS
  <2> HIDE DEF L
  <2> QED
    BY <2>1, LeastNatural
<1> DEFINE V == {e \in U : e[2] = l}
           P == {e[3] : e \in V}
<1>2. PICK p \in P : \A k \in P : p <= k
  <2>1. P \in SUBSET Nat /\ P # {}
    BY <1>1
  <2> HIDE DEF P
  <2> QED
    BY <2>1, LeastNatural
<1>3. PICK u \in V : u[3] = p
  BY <1>2
<1>4. ASSUME NEW e \in U
      PROVE  Syncer!NotAfter(u, e)
  <2>1. u[2] = l /\ l <= e[2] /\ l \in Nat /\ e[2] \in Nat
    BY <1>1
  <2>2. e[2] = l => u[3] <= e[3]
    BY <1>2, <1>3
  <2> QED
    BY <2>1, <2>2 DEF Syncer!NotAfter
<1> QED
  BY <1>3, <1>4

\* If what a response holds was all delivered, and not all it could hold is,
\* then the ledger at the cursor fills it.
LEMMA StuckOnlyByFullLedger ==
  ASSUME SyncerTypes, CursorDivides, NEW c \in Contracts,
         \E e \in Syncer!Undelivered(c) : e[2] >= cursor,
         Syncer!Response(c) \cap Syncer!Undelivered(c) = {}
  PROVE  cursor > 0 /\ ledgers[cursor][c] >= PageSize
<1> DEFINE U == {e \in Syncer!Undelivered(c) : e[2] >= cursor}
<1>1. \A e \in U : /\ e[2] \in Nat /\ e[3] \in Nat
                   /\ e \in Matching(c)
  BY UndeliveredShape
<1>2. PICK u \in U : \A e \in U : Syncer!NotAfter(u, e)
  <2> HIDE DEF U
  <2>1. U # {}
    BY DEF U
  <2> QED
    BY <1>1, <2>1, FirstEvent
<1> DEFINE D == {d \in Matching(c) : Syncer!NotAfter(d, u)}
           E == Syncer!EventsOf(c, cursor)
<1>3. ~ Cardinality(D) <= PageSize
  <2>1. u \in Matching(c) /\ u \notin Syncer!Response(c)
    BY <1>1, <1>2
  <2> QED
    BY <2>1, ResponseProperties
<1>4. IsFiniteSet(D)
  <2>1. D \subseteq Matching(c)
    OBVIOUS
  <2> HIDE DEF D
  <2> QED
    BY <2>1, MatchingFinite, FS_Subset
<1>5. ASSUME NEW d \in D, d # u
      PROVE  d \in E /\ cursor \in DOMAIN ledgers
  <2>1. /\ d = <<c, d[2], d[3]>>
        /\ d[2] \in DOMAIN ledgers
        /\ d[2] >= cursor
        /\ d \in Syncer!EventsOf(c, d[2])
        /\ d[2] \in Nat /\ d[3] \in Nat
    BY MatchingShape
  <2>2. u = <<c, u[2], u[3]>> /\ u[2] \in Nat /\ u[3] \in Nat
    BY UndeliveredShape
  <2>3. d \notin U
    <3>1. SUFFICES ASSUME d \in U PROVE FALSE
      OBVIOUS
    <3>2. Syncer!NotAfter(u, d) /\ Syncer!NotAfter(d, u)
      BY <1>2, <3>1
    <3>3. u[2] = d[2] /\ u[3] = d[3]
      BY <2>1, <2>2, <3>2 DEF Syncer!NotAfter
    <3> QED
      BY <1>5, <2>1, <2>2, <3>3
  <2>4. d \in delivered
    BY <2>1, <2>3 DEF Syncer!Undelivered
  <2>5. d[2] <= cursor
    BY <2>4 DEF CursorDivides
  <2>6. cursor \in Nat
    BY LedgerTypes
  <2>7. d[2] = cursor
    BY <2>1, <2>5, <2>6
  <2> QED
    BY <2>1, <2>7
<1>6. PageSize \in Nat /\ PageSize >= 1 /\ Cardinality(D) \in Nat
  <2> HIDE DEF D
  <2> QED
    BY <1>4, FS_CardinalityType, SyncerAssumption
<1>7. cursor \in DOMAIN ledgers
  <2>1. SUFFICES ASSUME cursor \notin DOMAIN ledgers PROVE FALSE
    OBVIOUS
  <2>2. D \subseteq {u}
    BY <1>5, <2>1
  <2>3. Cardinality({u}) = 1 /\ IsFiniteSet({u})
    BY FS_Singleton
  <2> HIDE DEF D
  <2>4. Cardinality(D) <= 1
    BY <2>2, <2>3, FS_Subset
  <2> QED
    BY <1>3, <1>6, <2>4
<1>8. cursor > 0 /\ ledgers[cursor][c] \in Nat
  <2>1. ledgers[cursor][c] \in 0 .. MaxEvents /\ cursor \in 1 .. Len(ledgers)
    BY <1>7, LedgerTypes
  <2>2. Len(ledgers) \in Nat
    BY LedgerTypes
  <2> QED
    BY <2>1, <2>2, SyncerAssumption
<1>9. IsFiniteSet(E) /\ Cardinality(E) <= ledgers[cursor][c]
  BY <1>8, LedgerEventsCount DEF Syncer!EventsOf
<1> HIDE DEF E
<1>10. Cardinality(D) <= ledgers[cursor][c] + 1
  <2>1. D \subseteq E \cup {u}
    BY <1>5
  <2>2. /\ IsFiniteSet(E \cup {u})
        /\ Cardinality(E \cup {u}) =
             IF u \in E THEN Cardinality(E) ELSE Cardinality(E) + 1
    BY <1>9, FS_AddElement
  <2> HIDE DEF D
  <2>3. Cardinality(D) <= Cardinality(E \cup {u})
    BY <2>1, <2>2, FS_Subset
  <2>4. Cardinality(E) \in Nat
    BY <1>9, FS_CardinalityType
  <2> QED
    BY <1>6, <1>8, <1>9, <2>2, <2>3, <2>4
<1> HIDE DEF D
<1> QED
  BY <1>3, <1>6, <1>8, <1>10

\* What the model checker runs is, for the syncer, its specification.
LEMMA SyncerPart == MCSpec => Syncer!Spec
<1>1. MCInit => Syncer!Init
  BY DEF MCInit
<1>2. [MCNext]_allVars => [Syncer!Next]_(Syncer!vars)
  BY DEF MCNext, allVars, syncer, Syncer!vars
<1> QED
  BY <1>1, <1>2, PTL DEF MCSpec, Syncer!Spec

LEMMA DividesInvariant == Syncer!Spec => [](SyncerTypes /\ CursorDivides)
BY SyncerTypesInvariant, DividesInit, DividesStep, PTL DEF Syncer!Spec

\* A syncer leaves an event behind its cursor only when it delivered a later one
\* of another contract, whatever the size of a response and whichever calls
\* failed (sync.rs:37, sync.rs:55-57).
THEOREM OnlyOthersOvertakeAlways == MCSpec => []OnlyOthersOvertake
<1>1. SyncerTypes /\ CursorDivides => OnlyOthersOvertake
  BY StuckOnlyByFullLedger
  DEF CursorDivides, Overtaken, OnlyOthersOvertake, Syncer!OnlyOthersOvertake
<1> QED
  BY <1>1, DividesInvariant, SyncerPart, PTL

\* A syncer that serves one contract misses none of its events, whatever the
\* size of a response, and is stuck only at a ledger that fills one
\* (sync.rs:22-60).
THEOREM OneContractMissesNothingAlways == MCSpec => []OneContractMissesNothing
<1>1. ASSUME SyncerTypes, CursorDivides, NEW c \in Contracts, synced = {c}
      PROVE  \A e \in Syncer!Undelivered(c) : e[2] >= cursor
  <2>1. SUFFICES ASSUME NEW e \in Syncer!Undelivered(c), ~ e[2] >= cursor
                 PROVE  FALSE
    OBVIOUS
  <2>2. e[2] \in Nat
    BY <1>1, <2>1, UndeliveredShape
  <2>3. cursor \in Nat
    BY <1>1, LedgerTypes
  <2>4. e[2] < cursor
    BY <2>1, <2>2, <2>3
  <2> QED
    BY <1>1, <2>1, <2>4 DEF CursorDivides, Overtaken
<1>2. SyncerTypes /\ CursorDivides => OneContractMissesNothing
  BY <1>1, StuckOnlyByFullLedger
  DEF OneContractMissesNothing, Syncer!OneContractMissesNothing
<1> QED
  BY <1>2, DividesInvariant, SyncerPart, PTL

-----------------------------------------------------------------------------
(* All parts *)

\* What the model checker runs is, for the optimizer, its specification.
LEMMA OptimizerPart == MCSpec => Spec
<1>1. MCInit => Init
  BY DEF MCInit
<1>2. [MCNext]_allVars => [Next]_vars
  BY DEF MCNext, allVars, optimizer
<1> QED
  BY <1>1, <1>2, PTL DEF MCSpec, Spec

\* Every variable of every part always has its type, the windows and the buffer
\* their bounds, and the optimizer's bounds never cross.
THEOREM AllTypesCorrect == MCSpec => []AllTypesOK
<1>1. StreamTypes => Stream!TypeOK
  BY DEF StreamTypes
<1>2. SyncerTypes => Syncer!TypeOK
  BY DEF SyncerTypes
<1> QED
  BY <1>1, <1>2, OptimizerPart, EnginePart, SyncerPart, StreamPart,
     OptimizerTypeCorrect, EngineTypes, SyncerTypesInvariant,
     StreamTypesInvariant, PTL
  DEF AllTypesOK
=============================================================================
