------------------------ MODULE NonceSequencerProofs ------------------------
(***************************************************************************)
(* Proofs about NonceSequencer, for any number of concurrent calls.        *)
(***************************************************************************)
EXTENDS NonceSequencer, TLAPS

\* The mutex is held by the one call that compares or stores, and what it
\* compared still stands.
MutexInv ==
  \A c \in Calls :
    /\ pc[c] \in {"locked", "checked"} => holder = c
    /\ pc[c] = "checked" => nonce[c] > lastCommitted

\* last_committed is the latest and the largest of the accepted nonces, and
\* covers every refused one.
LedgerInv ==
  /\ accepted = << >> => lastCommitted = 0
  /\ accepted # << >> => accepted[Len(accepted)] = lastCommitted
  /\ \A i \in 1 .. Len(accepted) : accepted[i] <= lastCommitted
  /\ AcceptedInOrder
  /\ \A c \in Calls : pc[c] = "error" => nonce[c] <= lastCommitted

IInv == TypeOK /\ MutexInv /\ LedgerInv

LEMMA InitInv == Init => IInv
BY NonceAssumption DEF Init, IInv, TypeOK, MutexInv, LedgerInv, AcceptedInOrder

LEMMA StoreKeepsInv ==
  ASSUME IInv, NEW c \in Calls, Store(c)
  PROVE  IInv'
<1> DEFINE n == Len(accepted)
<1>1. nonce[c] > lastCommitted /\ nonce[c] \in Nat /\ holder = c
  BY DEF IInv, MutexInv, TypeOK, Store
<1>2. /\ Len(accepted') = n + 1
      /\ accepted'[n + 1] = nonce[c]
      /\ \A i \in 1 .. n : accepted'[i] = accepted[i]
      /\ n \in Nat
  BY DEF IInv, TypeOK, Store
<1>3. TypeOK'
  BY DEF IInv, TypeOK, Store
<1>4. MutexInv'
  BY <1>1, NonceAssumption DEF IInv, TypeOK, MutexInv, Store
<1>5. \A i \in 1 .. n : accepted[i] \in Nat /\ accepted[i] < nonce[c]
  BY <1>1 DEF IInv, TypeOK, LedgerInv
<1>6. AcceptedInOrder'
  BY <1>2, <1>5 DEF IInv, LedgerInv, AcceptedInOrder
<1>7. /\ accepted' # << >> /\ accepted'[Len(accepted')] = lastCommitted'
      /\ \A i \in 1 .. Len(accepted') : accepted'[i] <= lastCommitted'
  BY <1>1, <1>2, <1>5 DEF Store
<1>8. \A d \in Calls : pc'[d] = "error" => nonce'[d] <= lastCommitted'
  BY <1>1 DEF IInv, TypeOK, LedgerInv, Store
<1> QED
  BY <1>3, <1>4, <1>6, <1>7, <1>8 DEF IInv, LedgerInv

LEMMA StepInv == IInv /\ [Next]_vars => IInv'
<1> SUFFICES ASSUME IInv, [Next]_vars PROVE IInv'
  OBVIOUS
<1> USE NonceAssumption DEF IInv, TypeOK, MutexInv, LedgerInv, AcceptedInOrder
<1>1. ASSUME NEW c \in Calls, Issue(c)
      PROVE  IInv'
  BY <1>1 DEF Issue
<1>2. ASSUME NEW c \in Calls, NEW d \in Calls, Resubmit(c, d)
      PROVE  IInv'
  BY <1>2 DEF Resubmit
<1>3. ASSUME NEW c \in Calls, Ask(c) \/ Cancel(c)
      PROVE  IInv'
  BY <1>3 DEF Ask, Cancel
<1>4. ASSUME NEW c \in Calls, Lock(c)
      PROVE  IInv'
  BY <1>4 DEF Lock
<1>5. ASSUME NEW c \in Calls, Refuse(c)
      PROVE  IInv'
  BY <1>5 DEF Refuse
<1>6. ASSUME NEW c \in Calls, Pass(c)
      PROVE  IInv'
  BY <1>6 DEF Pass
<1>7. ASSUME NEW c \in Calls, Store(c)
      PROVE  IInv'
  BY <1>7, StoreKeepsInv
<1>8. CASE UNCHANGED vars
  BY <1>8 DEF vars
<1> QED
  BY <1>1, <1>2, <1>3, <1>4, <1>5, <1>6, <1>7, <1>8 DEF Next, Commit

LEMMA Invariance == Spec => []IInv
BY InitInv, StepInv, PTL DEF Spec

\* Every reachable state is well typed.
THEOREM TypeCorrect == Spec => []TypeOK
<1>1. IInv => TypeOK
  BY DEF IInv
<1> QED
  BY <1>1, Invariance, PTL

\* No nonce is accepted twice, nor out of order, by any number of concurrent
\* calls: there is no double spend through the sequencer.
THEOREM NoDoubleSpend == Spec => []AcceptedInOrder
<1>1. IInv => AcceptedInOrder
  BY DEF IInv, LedgerInv
<1> QED
  BY <1>1, Invariance, PTL

\* Every refusal has a reason that the caller could check.
THEOREM RefusalHasCause == Spec => []RefusedOnlyIfOvertaken
<1>1. IInv => RefusedOnlyIfOvertaken
  <2> SUFFICES ASSUME IInv, NEW c \in Calls, pc[c] = "error", nonce[c] # 0
               PROVE  \E i \in 1 .. Len(accepted) : accepted[i] >= nonce[c]
    BY DEF RefusedOnlyIfOvertaken
  <2>1. nonce[c] <= lastCommitted /\ nonce[c] \in Nat /\ lastCommitted \in Nat
    BY DEF IInv, LedgerInv, TypeOK
  <2>2. accepted # << >> /\ accepted \in Seq(Nat)
    BY <2>1 DEF IInv, LedgerInv, TypeOK
  <2>3. Len(accepted) \in 1 .. Len(accepted)
    BY <2>2
  <2>4. accepted[Len(accepted)] >= nonce[c]
    BY <2>1, <2>2 DEF IInv, LedgerInv
  <2> QED
    BY <2>3, <2>4
<1> QED
  BY <1>1, Invariance, PTL

\* A refused nonce is never accepted later, in whatever order calls arrive.
THEOREM RefusalForGood == Spec => RefusalIsFinal
<1>1. IInv /\ [Next]_vars => [NoAcceptAfterRefusal]_vars
  <2> SUFFICES ASSUME IInv, Next, NEW c \in Calls, NEW d \in Calls,
                      pc[d] = "error", nonce[c] = nonce[d], pc[c] # "ok",
                      pc'[c] = "ok"
               PROVE  FALSE
    BY DEF NoAcceptAfterRefusal
  <2>1. Store(c)
    BY DEF Next, Commit, Issue, Resubmit, Ask, Cancel, Lock, Refuse, Pass,
           Store, IInv, TypeOK
  <2>2. nonce[c] > lastCommitted
    BY <2>1 DEF Store, IInv, MutexInv
  <2>3. nonce[d] <= lastCommitted
    BY DEF IInv, LedgerInv
  <2> QED
    BY <2>2, <2>3 DEF IInv, TypeOK
<1> QED
  BY <1>1, Invariance, PTL DEF Spec, RefusalIsFinal
=============================================================================
