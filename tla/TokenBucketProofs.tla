-------------------------- MODULE TokenBucketProofs --------------------------
(***************************************************************************)
(* Proofs about TokenBucket, for any number of calls, tokens and counts.   *)
(***************************************************************************)
EXTENDS TokenBucket, TLAPS

\* A call that is about to exchange has seen enough tokens.
IInv ==
  /\ TypeOK
  /\ \A c \in Calls : pc[c] = "exchange" => count[c] <= current[c]

LEMMA InitInv == Init => IInv
BY BucketAssumption DEF BucketAssumption, Init, IInv, TypeOK

LEMMA Step == IInv /\ [Next]_vars => IInv'
<1> SUFFICES ASSUME IInv, [Next]_vars PROVE IInv'
  OBVIOUS
<1> USE BucketAssumption DEF BucketAssumption, IInv, TypeOK
<1>1. ASSUME NEW c \in Calls, Refuse(c) PROVE IInv'
  BY <1>1 DEF Refuse
<1>2. ASSUME NEW c \in Calls, Load(c) PROVE IInv'
  BY <1>2 DEF Load
<1>3. ASSUME NEW c \in Calls, Exchange(c) PROVE IInv'
  <2>1. current[c] - count[c] \in 0 .. MaxTokens
    <3>1. /\ count[c] \in Nat
          /\ current[c] \in 0 .. MaxTokens
          /\ count[c] <= current[c]
      BY <1>3 DEF Exchange
    <3> QED
      BY <3>1
  <2> QED
    BY <1>3, <2>1 DEF Exchange
<1>4. ASSUME NEW c \in Calls, Retry(c) PROVE IInv'
  BY <1>4 DEF Retry
<1>5. CASE UNCHANGED vars
  BY <1>5 DEF vars
<1> QED
  BY <1>1, <1>2, <1>3, <1>4, <1>5 DEF Next, TryConsume

LEMMA Invariance == Spec => []IInv
BY InitInv, Step, PTL DEF Spec

\* The counter never leaves 0 .. MaxTokens: no subtraction wraps around
\* (middleware.rs:31-38).
THEOREM TypeCorrect == Spec => []TypeOK
<1>1. IInv => TypeOK
  BY DEF IInv
<1> QED
  BY Invariance, <1>1, PTL

-----------------------------------------------------------------------------
\* A grant takes the tokens above the new value of the counter, which nobody
\* took before; the other steps grant nothing.
LEMMA GrantStep ==
  IInv /\ NothingGrantedTwice /\ [Next]_vars => NothingGrantedTwice'
<1> SUFFICES ASSUME IInv, NothingGrantedTwice, [Next]_vars
             PROVE  NothingGrantedTwice'
  OBVIOUS
<1> USE DEF IInv, TypeOK
<1>1. ASSUME NEW c \in Calls, Refuse(c) \/ Load(c) \/ Retry(c)
      PROVE  NothingGrantedTwice'
  <2>1. Granted' = Granted /\ tokens' = tokens
    BY <1>1 DEF Refuse, Load, Retry, Granted
  <2>2. \A d \in Granted : Taken(d)' = Taken(d)
    BY <1>1 DEF Refuse, Load, Retry, Granted, Taken
  <2> QED
    BY <2>1, <2>2 DEF NothingGrantedTwice
<1>2. ASSUME NEW c \in Calls, Exchange(c)
      PROVE  NothingGrantedTwice'
  <2>1. Granted' = Granted \cup {c} /\ c \notin Granted
    BY <1>2 DEF Exchange, Granted
  <2>2. \A d \in Calls : Taken(d)' = Taken(d)
    BY <1>2 DEF Exchange, Taken
  <2>3. /\ tokens \in 0 .. MaxTokens /\ tokens' \in Int
        /\ tokens' <= tokens /\ 0 <= tokens'
        /\ Taken(c) = tokens' + 1 .. tokens
    <3>1. /\ tokens \in 0 .. MaxTokens
          /\ count[c] \in Nat /\ count[c] <= current[c]
          /\ current[c] = tokens /\ tokens' = current[c] - count[c]
      BY <1>2, BucketAssumption DEF Exchange
    <3> QED
      BY <3>1, BucketAssumption DEF Taken
  <2>4. Taken(c) \cup (tokens + 1 .. MaxTokens) = tokens' + 1 .. MaxTokens
    BY <2>3, BucketAssumption
  <2>5. Taken(c) \cap (tokens + 1 .. MaxTokens) = {}
    <3>1. ASSUME NEW t \in Taken(c)
          PROVE  t \notin tokens + 1 .. MaxTokens
      BY <2>3, <3>1
    <3> QED
      BY <3>1
  <2>6. \A d \in Granted : Taken(d) \subseteq tokens + 1 .. MaxTokens
    BY DEF NothingGrantedTwice
  <2>7. \A d, e \in Granted' : d # e => Taken(d)' \cap Taken(e)' = {}
    <3> SUFFICES ASSUME NEW d \in Granted', NEW e \in Granted', d # e
                 PROVE  Taken(d)' \cap Taken(e)' = {}
      OBVIOUS
    <3>1. CASE d \in Granted /\ e \in Granted
      BY <2>2, <3>1 DEF NothingGrantedTwice, Granted
    <3>2. CASE d = c
      BY <2>1, <2>2, <2>5, <2>6, <3>2 DEF Granted
    <3>3. CASE e = c
      BY <2>1, <2>2, <2>5, <2>6, <3>3 DEF Granted
    <3> QED
      BY <2>1, <3>1, <3>2, <3>3
  <2>8. UNION {Taken(d)' : d \in Granted'} = tokens' + 1 .. MaxTokens
    <3>1. UNION {Taken(d)' : d \in Granted'}
            = Taken(c) \cup UNION {Taken(d) : d \in Granted}
      BY <2>1, <2>2 DEF Granted
    <3> QED
      BY <2>4, <3>1 DEF NothingGrantedTwice
  <2> QED
    BY <2>7, <2>8 DEF NothingGrantedTwice
<1>3. CASE UNCHANGED vars
  BY <1>3 DEF vars, NothingGrantedTwice, Granted, Taken
<1> QED
  BY <1>1, <1>2, <1>3 DEF Next, TryConsume

\* However many threads are in the loop, the granted calls share out exactly
\* the tokens that are gone (middleware.rs:28-46).
THEOREM NothingGrantedTwiceAlways == Spec => []NothingGrantedTwice
<1>1. Init => NothingGrantedTwice
  BY BucketAssumption DEF BucketAssumption, Init, NothingGrantedTwice, Granted
<1> QED
  BY <1>1, GrantStep, Invariance, PTL DEF Spec

-----------------------------------------------------------------------------
\* The loop of try_consume is the atomic step of Bucket (middleware.rs:28-46).
THEOREM LoopIsAtomic == Spec => BucketSpec
<1>1. Init => Atomic!Init
  BY BucketAssumption DEF BucketAssumption, Init, Atomic!Init
<1>2. ASSUME IInv, [Next]_vars
      PROVE  [Atomic!Next]_Atomic!vars
  <2> USE DEF IInv, TypeOK
  <2>1. ASSUME NEW c \in Calls, Refuse(c) PROVE Atomic!Refuse(c)
    BY <1>2, <2>1 DEF Refuse, Atomic!Refuse
  <2>2. ASSUME NEW c \in Calls, Load(c) PROVE UNCHANGED Atomic!vars
    BY <1>2, <2>2 DEF Load, Atomic!vars
  <2>3. ASSUME NEW c \in Calls, Exchange(c) PROVE Atomic!Grant(c)
    BY <1>2, <2>3 DEF Exchange, Atomic!Grant
  <2>4. ASSUME NEW c \in Calls, Retry(c) PROVE UNCHANGED Atomic!vars
    BY <1>2, <2>4 DEF Retry, Atomic!vars
  <2>5. UNCHANGED vars => UNCHANGED Atomic!vars
    BY DEF vars, Atomic!vars
  <2> QED
    BY <1>2, <2>1, <2>2, <2>3, <2>4, <2>5 DEF Next, TryConsume, Atomic!Next
<1> QED
  BY Invariance, <1>1, <1>2, PTL DEF Spec, BucketSpec, Atomic!Spec
=============================================================================
