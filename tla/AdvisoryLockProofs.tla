------------------------- MODULE AdvisoryLockProofs -------------------------
(***************************************************************************)
(* Proofs about AdvisoryLock, for any number of calls and of resources.    *)
(***************************************************************************)
EXTENDS AdvisoryLock, SequenceTheorems, FiniteSetTheorems, TLAPS

\* A call that has looked its mutex up has THE mutex of its resource: the map
\* never replaces an entry.
OneMutexPerResource ==
  \A c \in Calls :
    pc[c] \in {"found", "queued", "critical"} =>
      /\ mutex[c] \in Calls
      /\ mutex[c] = mutexOf[resource[c]]

\* An owner has asked for the mutex it owns and not released it, and only an
\* owner runs its future.
OwnerInv ==
  /\ \A m \in Calls :
       owner[m] # None =>
         pc[owner[m]] \in {"queued", "critical"} /\ mutex[owner[m]] = m
  /\ \A c \in Calls : pc[c] = "critical" => owner[mutex[c]] = c

\* The queue of a mutex holds calls that wait for it, each once, none of them
\* its owner, and it is empty when nobody owns the mutex.
QueueInv ==
  \A m \in Calls :
    /\ \A i \in 1 .. Len(waiters[m]) :
         LET c == waiters[m][i] IN
         pc[c] = "queued" /\ mutex[c] = m /\ owner[m] # c
    /\ \A i, j \in 1 .. Len(waiters[m]) :
         waiters[m][i] = waiters[m][j] => i = j
    /\ waiters[m] # << >> => owner[m] # None

\* The types without the deductions.
LockTypes ==
  /\ mutexOf \in [Resources -> Calls \cup {None}]
  /\ owner \in [Calls -> Calls \cup {None}]
  /\ waiters \in [Calls -> Seq(Calls)]
  /\ pc \in [Calls -> {"idle", "found", "queued", "critical", "done",
                       "cancelled"}]
  /\ resource \in [Calls -> Resources]
  /\ mutex \in [Calls -> Calls \cup {None}]

DataTypes ==
  /\ balance \in [Resources -> Nat]
  /\ read \in [Calls -> Nat]

LockInv == OneMutexPerResource /\ OwnerInv /\ QueueInv

IInv == LockTypes /\ DataTypes /\ LockInv

-----------------------------------------------------------------------------
(* Sequences *)

\* Leaving a queue keeps the others, each once.
LEMMA RemoveAtProperties ==
  ASSUME NEW s \in Seq(Calls), NEW i \in 1 .. Len(s)
  PROVE  /\ RemoveAt(s, i) \in Seq(Calls)
         /\ Len(RemoveAt(s, i)) = Len(s) - 1
         /\ \A k \in 1 .. Len(s) - 1 :
              RemoveAt(s, i)[k] = IF k < i THEN s[k] ELSE s[k + 1]
<1> DEFINE a == SubSeq(s, 1, i - 1)
           b == SubSeq(s, i + 1, Len(s))
<1>1. Len(s) \in Nat /\ \A k \in 1 .. Len(s) : s[k] \in Calls
  BY LenProperties, ElementOfSeq
<1>2. /\ a \in Seq(Calls) /\ Len(a) = i - 1
      /\ \A k \in 1 .. i - 1 : a[k] = s[k]
  <2>1. \A k \in 1 .. i - 1 : s[k] \in Calls
    BY <1>1
  <2> QED
    BY <1>1, <2>1, SubSeqProperties
<1>3. /\ b \in Seq(Calls) /\ Len(b) = Len(s) - i
      /\ \A k \in 1 .. Len(s) - i : b[k] = s[i + k]
  <2>1. \A k \in i + 1 .. Len(s) : s[k] \in Calls
    BY <1>1
  <2> QED
    BY <1>1, <2>1, SubSeqProperties
<1>4. RemoveAt(s, i) = a \o b
  BY DEF RemoveAt
<1> HIDE DEF a, b
<1>5. /\ a \o b \in Seq(Calls) /\ Len(a \o b) = Len(s) - 1
      /\ \A k \in 1 .. Len(s) - 1 :
           (a \o b)[k] = IF k <= i - 1 THEN a[k] ELSE b[k - (i - 1)]
  <2>1. /\ a \o b \in Seq(Calls)
        /\ Len(a \o b) = Len(a) + Len(b)
        /\ \A k \in 1 .. Len(a) + Len(b) :
             (a \o b)[k] = IF k <= Len(a) THEN a[k] ELSE b[k - Len(a)]
    BY <1>2, <1>3, ConcatProperties
  <2>2. Len(a) = i - 1 /\ Len(a) + Len(b) = Len(s) - 1
    BY <1>1, <1>2, <1>3
  <2> QED
    BY <2>1, <2>2
<1> QED
  BY <1>1, <1>2, <1>3, <1>4, <1>5

\* A release gives the mutex to the first waiter, if there is one, and touches
\* no other mutex.
LEMMA ReleaseEffect ==
  ASSUME LockTypes, NEW m \in Calls, Release(m)
  PROVE  /\ owner' \in [Calls -> Calls \cup {None}]
         /\ waiters' \in [Calls -> Seq(Calls)]
         /\ \A k \in Calls \ {m} :
              owner'[k] = owner[k] /\ waiters'[k] = waiters[k]
         /\ \/ waiters[m] = << >> /\ waiters'[m] = << >> /\ owner'[m] = None
            \/ /\ waiters[m] # << >>
               /\ 1 \in 1 .. Len(waiters[m])
               /\ owner'[m] = waiters[m][1]
               /\ Len(waiters'[m]) = Len(waiters[m]) - 1
               /\ \A i \in 1 .. Len(waiters'[m]) :
                    waiters'[m][i] = waiters[m][i + 1]
<1>1. CASE waiters[m] = << >>
  BY <1>1 DEF LockTypes, Release
<1>2. CASE waiters[m] # << >>
  <2>1. waiters[m] \in Seq(Calls)
    BY DEF LockTypes
  <2>2. /\ Head(waiters[m]) \in Calls
        /\ Head(waiters[m]) = waiters[m][1]
        /\ Tail(waiters[m]) \in Seq(Calls)
        /\ 1 \in 1 .. Len(waiters[m])
        /\ Len(Tail(waiters[m])) = Len(waiters[m]) - 1
        /\ \A i \in 1 .. Len(Tail(waiters[m])) :
             Tail(waiters[m])[i] = waiters[m][i + 1]
    BY <1>2, <2>1, HeadTailProperties
  <2> QED
    BY <1>2, <2>2 DEF LockTypes, Release
<1> QED
  BY <1>1, <1>2

-----------------------------------------------------------------------------
(* The invariant *)

LEMMA InitInv == Init => IInv
BY LockAssumption
DEF Init, IInv, LockInv, LockTypes, DataTypes, OneMutexPerResource, OwnerInv, QueueInv

\* The step of a call that had the mutex and passes it on.
LEMMA PassOn ==
  ASSUME IInv, NEW c \in Calls, pc[c] \in {"queued", "critical"},
         owner[mutex[c]] = c, Release(mutex[c]),
         NEW p \in {"done", "cancelled"}, pc' = [pc EXCEPT ![c] = p],
         UNCHANGED <<mutexOf, resource, mutex>>
  PROVE  LockTypes' /\ LockInv'
<1> USE LockAssumption
<1>1. PICK m \in Calls : m = mutex[c]
  BY DEF IInv, LockInv, OneMutexPerResource
<1>2. /\ owner' \in [Calls -> Calls \cup {None}]
      /\ waiters' \in [Calls -> Seq(Calls)]
      /\ \A k \in Calls \ {m} :
           owner'[k] = owner[k] /\ waiters'[k] = waiters[k]
      /\ \/ waiters[m] = << >> /\ waiters'[m] = << >> /\ owner'[m] = None
         \/ /\ waiters[m] # << >>
            /\ 1 \in 1 .. Len(waiters[m])
            /\ owner'[m] = waiters[m][1]
            /\ Len(waiters'[m]) = Len(waiters[m]) - 1
            /\ \A i \in 1 .. Len(waiters'[m]) :
                 waiters'[m][i] = waiters[m][i + 1]
  BY <1>1, ReleaseEffect DEF IInv, LockInv
<1>3. LockTypes'
  BY <1>2 DEF IInv, LockInv, LockTypes
<1>4. OneMutexPerResource'
  BY DEF IInv, LockInv, LockTypes, OneMutexPerResource
<1>5. \A k \in Calls : Len(waiters[k]) \in Nat
  BY DEF IInv, LockInv, LockTypes
<1>6. \A k \in Calls : \A i \in 1 .. Len(waiters[k]) :
        waiters[k][i] \in Calls /\ waiters[k][i] # c
  <2>1. \A k \in Calls : \A i \in 1 .. Len(waiters[k]) :
          waiters[k][i] \in Calls
    BY DEF IInv, LockInv, LockTypes
  <2> QED
    BY <1>1, <2>1 DEF IInv, LockInv, QueueInv, OwnerInv
<1>7. OwnerInv'
  <2>1. ASSUME NEW k \in Calls, owner'[k] # None
        PROVE  pc'[owner'[k]] \in {"queued", "critical"} /\ mutex'[owner'[k]] = k
    <3>1. CASE k = m
      <4>1. waiters[m] # << >> /\ owner'[k] = waiters[m][1]
            /\ 1 \in 1 .. Len(waiters[m])
        BY <1>2, <2>1, <3>1
      <4>2. PICK w \in Calls : w = waiters[m][1]
        BY <1>6, <4>1
      <4>3. pc[w] = "queued" /\ mutex[w] = m /\ w # c
        BY <1>6, <4>1, <4>2 DEF IInv, LockInv, QueueInv
      <4>4. pc'[w] = pc[w] /\ mutex'[w] = mutex[w] /\ owner'[k] = w
        BY <4>1, <4>2, <4>3 DEF IInv, LockInv, LockTypes
      <4> QED
        BY <3>1, <4>3, <4>4
    <3>2. CASE k # m
      <4>1. owner'[k] = owner[k] /\ owner[k] # c /\ owner[k] \in Calls
        BY <1>1, <1>2, <2>1, <3>2 DEF IInv, LockInv, LockTypes, OwnerInv
      <4> QED
        BY <2>1, <4>1 DEF IInv, LockInv, LockTypes, OwnerInv
    <3> QED
      BY <3>1, <3>2
  <2>2. ASSUME NEW d \in Calls, pc'[d] = "critical"
        PROVE  owner'[mutex'[d]] = d
    <3>1. d # c /\ pc[d] = "critical"
      BY <2>2 DEF IInv, LockInv, LockTypes
    <3>2. owner[mutex[d]] = d /\ mutex[d] \in Calls /\ mutex[d] # m
      BY <1>1, <3>1 DEF IInv, LockInv, OwnerInv, OneMutexPerResource
    <3> QED
      BY <1>2, <3>2
  <2> QED
    BY <2>1, <2>2 DEF OwnerInv
<1>8. QueueInv'
  <2> SUFFICES ASSUME NEW k \in Calls
               PROVE  /\ \A i \in 1 .. Len(waiters'[k]) :
                           /\ pc'[waiters'[k][i]] = "queued"
                           /\ mutex'[waiters'[k][i]] = k
                           /\ owner'[k] # waiters'[k][i]
                      /\ \A i, j \in 1 .. Len(waiters'[k]) :
                           waiters'[k][i] = waiters'[k][j] => i = j
                      /\ waiters'[k] # << >> => owner'[k] # None
    BY DEF QueueInv
  <2>1. CASE k # m
    <3>1. owner'[k] = owner[k] /\ waiters'[k] = waiters[k]
      BY <1>2, <2>1
    <3>2. ASSUME NEW i \in 1 .. Len(waiters[k])
          PROVE  /\ pc'[waiters[k][i]] = "queued"
                 /\ mutex'[waiters[k][i]] = k
                 /\ owner[k] # waiters[k][i]
      <4>1. PICK w \in Calls : w = waiters[k][i]
        BY <1>6, <3>2
      <4>2. pc[w] = "queued" /\ mutex[w] = k /\ owner[k] # w /\ w # c
        BY <1>6, <3>2, <4>1 DEF IInv, LockInv, QueueInv
      <4>3. pc'[w] = pc[w] /\ mutex'[w] = mutex[w]
        BY <4>2 DEF IInv, LockInv, LockTypes
      <4> QED
        BY <4>1, <4>2, <4>3
    <3>3. /\ \A i, j \in 1 .. Len(waiters[k]) :
               waiters[k][i] = waiters[k][j] => i = j
          /\ waiters[k] # << >> => owner[k] # None
      BY DEF IInv, LockInv, QueueInv
    <3> QED
      BY <3>1, <3>2, <3>3
  <2>2. CASE k = m /\ waiters[m] = << >>
    BY <1>2, <2>2
  <2>3. CASE k = m /\ waiters[m] # << >>
    <3>1. /\ Len(waiters'[m]) = Len(waiters[m]) - 1
          /\ \A i \in 1 .. Len(waiters'[m]) :
               /\ i + 1 \in 1 .. Len(waiters[m])
               /\ waiters'[m][i] = waiters[m][i + 1]
          /\ owner'[m] = waiters[m][1]
          /\ 1 \in 1 .. Len(waiters[m])
      BY <1>2, <1>5, <2>3
    <3>2. \A i \in 1 .. Len(waiters'[m]) :
             /\ pc'[waiters'[m][i]] = "queued"
             /\ mutex'[waiters'[m][i]] = m
      <4> SUFFICES ASSUME NEW i \in 1 .. Len(waiters'[m])
                   PROVE  /\ pc'[waiters'[m][i]] = "queued"
                          /\ mutex'[waiters'[m][i]] = m
        OBVIOUS
      <4>1. PICK w \in Calls : w = waiters'[m][i] /\ w = waiters[m][i + 1]
        BY <1>6, <3>1
      <4>2. pc[w] = "queued" /\ mutex[w] = m /\ w # c
        BY <1>6, <3>1, <4>1 DEF IInv, LockInv, QueueInv
      <4>3. pc'[w] = pc[w] /\ mutex'[w] = mutex[w]
        BY <4>2 DEF IInv, LockInv, LockTypes
      <4> QED
        BY <4>1, <4>2, <4>3
    <3>3. \A i \in 1 .. Len(waiters'[m]) : owner'[m] # waiters'[m][i]
      BY <1>5, <3>1 DEF IInv, LockInv, QueueInv
    <3>4. \A i, j \in 1 .. Len(waiters'[m]) :
             waiters'[m][i] = waiters'[m][j] => i = j
      BY <1>5, <3>1 DEF IInv, LockInv, QueueInv
    <3>5. owner'[m] # None
      BY <1>6, <3>1
    <3> QED
      BY <2>3, <3>2, <3>3, <3>4, <3>5
  <2> QED
    BY <2>1, <2>2, <2>3
<1> QED
  BY <1>3, <1>4, <1>7, <1>8 DEF LockInv

\* A call that is in no queue may move on without the queues noticing.
LEMMA OthersQueue ==
  ASSUME LockTypes, QueueInv, NEW c \in Calls,
         \A k \in Calls : \A i \in 1 .. Len(waiters[k]) : waiters[k][i] # c,
         NEW p, pc' = [pc EXCEPT ![c] = p],
         NEW m \in Calls \cup {None},
         mutex' = [mutex EXCEPT ![c] = m] \/ mutex' = mutex,
         UNCHANGED <<owner, waiters>>
  PROVE  QueueInv'
<1> SUFFICES ASSUME NEW k \in Calls
             PROVE  /\ \A i \in 1 .. Len(waiters[k]) :
                         /\ pc'[waiters[k][i]] = "queued"
                         /\ mutex'[waiters[k][i]] = k
                         /\ owner[k] # waiters[k][i]
                    /\ \A i, j \in 1 .. Len(waiters[k]) :
                         waiters[k][i] = waiters[k][j] => i = j
                    /\ waiters[k] # << >> => owner[k] # None
  BY DEF QueueInv
<1>1. ASSUME NEW i \in 1 .. Len(waiters[k])
      PROVE  /\ pc'[waiters[k][i]] = "queued"
             /\ mutex'[waiters[k][i]] = k
             /\ owner[k] # waiters[k][i]
  <2>1. PICK w \in Calls : w = waiters[k][i]
    BY <1>1 DEF LockTypes
  <2>2. pc[w] = "queued" /\ mutex[w] = k /\ owner[k] # w
    BY <1>1, <2>1 DEF QueueInv
  <2>3. pc'[w] = pc[w] /\ mutex'[w] = mutex[w]
    BY <1>1, <2>1 DEF LockTypes
  <2> QED
    BY <2>1, <2>2, <2>3
<1> QED
  BY <1>1 DEF QueueInv

\* So may a call that does not wait, ...
LEMMA QueueKept ==
  ASSUME LockTypes, QueueInv, NEW c \in Calls, pc[c] # "queued",
         NEW p, pc' = [pc EXCEPT ![c] = p],
         NEW m \in Calls \cup {None},
         mutex' = [mutex EXCEPT ![c] = m] \/ mutex' = mutex,
         UNCHANGED <<owner, waiters>>
  PROVE  QueueInv'
<1>1. \A k \in Calls : \A i \in 1 .. Len(waiters[k]) : waiters[k][i] # c
  BY DEF QueueInv
<1> QED
  BY <1>1, OthersQueue

\* ... and the owner of the mutex it asked for.
LEMMA OwnerLeavesQueues ==
  ASSUME LockTypes, QueueInv, NEW c \in Calls, owner[mutex[c]] = c,
         NEW p, pc' = [pc EXCEPT ![c] = p],
         UNCHANGED <<owner, waiters, mutex>>
  PROVE  QueueInv'
<1>1. \A k \in Calls : \A i \in 1 .. Len(waiters[k]) : waiters[k][i] # c
  BY DEF QueueInv
<1>2. mutex[c] \in Calls \cup {None}
  BY DEF LockTypes
<1> QED
  BY <1>1, <1>2, OthersQueue

LEMMA LookupStep ==
  ASSUME IInv, NEW c \in Calls, Lookup(c)
  PROVE  LockTypes' /\ LockInv'
<1> USE LockAssumption
<1>1. PICK r \in Resources : r = resource[c]
  BY DEF IInv, LockTypes
<1>2. PICK m \in Calls : m = IF mutexOf[r] = None THEN c ELSE mutexOf[r]
  BY DEF IInv, LockTypes
<1>3. /\ pc[c] = "idle"
      /\ mutexOf' = [mutexOf EXCEPT ![r] = m]
      /\ mutex' = [mutex EXCEPT ![c] = m]
      /\ pc' = [pc EXCEPT ![c] = "found"]
      /\ UNCHANGED <<owner, waiters, resource, balance, read>>
  BY <1>1, <1>2 DEF Lookup
<1>4. LockTypes'
  BY <1>3 DEF IInv, LockTypes
<1>5. OneMutexPerResource'
  BY <1>1, <1>2, <1>3 DEF IInv, LockTypes, LockInv, OneMutexPerResource
<1>6. OwnerInv'
  BY <1>3 DEF IInv, LockTypes, LockInv, OwnerInv
<1>7. QueueInv'
  BY <1>3, QueueKept DEF IInv, LockTypes, LockInv, QueueInv
<1> QED
  BY <1>4, <1>5, <1>6, <1>7 DEF LockInv

LEMMA AcquireStep ==
  ASSUME IInv, NEW c \in Calls, Acquire(c)
  PROVE  LockTypes' /\ LockInv'
<1> USE LockAssumption DEF IInv, LockInv
<1>1. PICK m \in Calls : m = mutex[c]
  BY DEF Acquire, OneMutexPerResource
<1>2. /\ pc[c] = "found"
      /\ owner[m] = None
      /\ owner' = [owner EXCEPT ![m] = c]
      /\ pc' = [pc EXCEPT ![c] = "queued"]
      /\ UNCHANGED <<mutexOf, waiters, resource, mutex, balance, read>>
  BY <1>1 DEF Acquire
<1>3. LockTypes'
  BY <1>2 DEF LockTypes
<1>4. OneMutexPerResource'
  BY <1>2 DEF LockTypes, OneMutexPerResource
<1>5. OwnerInv'
  BY <1>1, <1>2 DEF LockTypes, OwnerInv
<1>6. waiters[m] = << >>
  BY <1>2 DEF QueueInv
<1>7. QueueInv'
  <2> SUFFICES ASSUME NEW k \in Calls
               PROVE  /\ \A i \in 1 .. Len(waiters[k]) :
                           /\ pc'[waiters[k][i]] = "queued"
                           /\ mutex'[waiters[k][i]] = k
                           /\ owner'[k] # waiters[k][i]
                      /\ \A i, j \in 1 .. Len(waiters[k]) :
                           waiters[k][i] = waiters[k][j] => i = j
                      /\ waiters[k] # << >> => owner'[k] # None
    BY <1>2 DEF QueueInv
  <2>1. CASE k = m
    BY <1>6, <2>1
  <2>2. CASE k # m
    <3>1. owner'[k] = owner[k]
      BY <1>2, <2>2 DEF LockTypes
    <3>2. ASSUME NEW i \in 1 .. Len(waiters[k])
          PROVE  /\ pc'[waiters[k][i]] = "queued"
                 /\ mutex'[waiters[k][i]] = k
                 /\ owner[k] # waiters[k][i]
      <4>1. PICK w \in Calls : w = waiters[k][i]
        BY <3>2 DEF LockTypes
      <4>2. pc[w] = "queued" /\ mutex[w] = k /\ owner[k] # w
        BY <3>2, <4>1 DEF QueueInv
      <4>3. pc'[w] = pc[w] /\ mutex'[w] = mutex[w]
        BY <1>2, <4>2 DEF LockTypes
      <4> QED
        BY <4>1, <4>2, <4>3
    <3> QED
      BY <3>1, <3>2 DEF QueueInv
  <2> QED
    BY <2>1, <2>2
<1> QED
  BY <1>3, <1>4, <1>5, <1>7

LEMMA EnqueueStep ==
  ASSUME IInv, NEW c \in Calls, Enqueue(c)
  PROVE  LockTypes' /\ LockInv'
<1> USE LockAssumption DEF IInv, LockInv
<1>1. PICK m \in Calls : m = mutex[c]
  BY DEF Enqueue, OneMutexPerResource
<1>2. PICK q \in Seq(Calls) : q = waiters[m]
  BY DEF LockTypes
<1>3. PICK n \in Nat : n = Len(q)
  BY LenProperties
<1>4. /\ Append(q, c) \in Seq(Calls)
      /\ Len(Append(q, c)) = n + 1
      /\ \A i \in 1 .. n : Append(q, c)[i] = q[i]
      /\ Append(q, c)[n + 1] = c
  BY <1>2, <1>3, AppendProperties
<1>5. /\ pc[c] = "found"
      /\ owner[m] # None
      /\ waiters' = [waiters EXCEPT ![m] = Append(q, c)]
      /\ pc' = [pc EXCEPT ![c] = "queued"]
      /\ UNCHANGED <<mutexOf, owner, resource, mutex, balance, read>>
  BY <1>1, <1>2 DEF Enqueue
<1>6. LockTypes'
  BY <1>4, <1>5 DEF LockTypes
<1>7. OneMutexPerResource'
  BY <1>5 DEF LockTypes, OneMutexPerResource
<1>8. OwnerInv'
  BY <1>5 DEF LockTypes, OwnerInv
<1>9. owner[m] # c
  BY <1>5 DEF OwnerInv
<1>10. ASSUME NEW k \in Calls, NEW i \in 1 .. Len(waiters[k])
       PROVE  /\ waiters[k][i] # c
              /\ pc'[waiters[k][i]] = "queued"
              /\ mutex'[waiters[k][i]] = k
              /\ owner'[k] # waiters[k][i]
  <2>1. PICK w \in Calls : w = waiters[k][i]
    BY <1>10 DEF LockTypes
  <2>2. pc[w] = "queued" /\ mutex[w] = k /\ owner[k] # w
    BY <1>10, <2>1 DEF QueueInv
  <2>3. w # c /\ pc'[w] = pc[w] /\ mutex'[w] = mutex[w]
    BY <1>5, <2>2 DEF LockTypes
  <2> QED
    BY <1>5, <2>1, <2>2, <2>3
<1>11. QueueInv'
  <2> SUFFICES ASSUME NEW k \in Calls
               PROVE  /\ \A i \in 1 .. Len(waiters'[k]) :
                           /\ pc'[waiters'[k][i]] = "queued"
                           /\ mutex'[waiters'[k][i]] = k
                           /\ owner'[k] # waiters'[k][i]
                      /\ \A i, j \in 1 .. Len(waiters'[k]) :
                           waiters'[k][i] = waiters'[k][j] => i = j
                      /\ waiters'[k] # << >> => owner'[k] # None
    BY DEF QueueInv
  <2>1. CASE k = m
    <3>1. waiters'[k] = Append(q, c) /\ owner'[k] # None /\ owner'[k] # c
      BY <1>5, <1>9, <2>1 DEF LockTypes
    <3>2. /\ pc'[c] = "queued" /\ mutex'[c] = m
      BY <1>1, <1>5 DEF LockTypes
    <3>3. \A i \in 1 .. n : /\ q[i] # c
                            /\ pc'[q[i]] = "queued"
                            /\ mutex'[q[i]] = k
                            /\ owner'[k] # q[i]
      BY <1>2, <1>3, <1>10, <2>1
    <3>4. \A i, j \in 1 .. n : q[i] = q[j] => i = j
      BY <1>2, <1>3 DEF QueueInv
    <3>5. \A i \in 1 .. n + 1 :
            /\ pc'[Append(q, c)[i]] = "queued"
            /\ mutex'[Append(q, c)[i]] = k
            /\ owner'[k] # Append(q, c)[i]
      <4> SUFFICES ASSUME NEW i \in 1 .. n + 1
                   PROVE  /\ pc'[Append(q, c)[i]] = "queued"
                          /\ mutex'[Append(q, c)[i]] = k
                          /\ owner'[k] # Append(q, c)[i]
        OBVIOUS
      <4>1. CASE i \in 1 .. n
        BY <1>4, <3>3, <4>1
      <4>2. CASE i = n + 1
        <5>1. Append(q, c)[i] = c
          BY <1>4, <4>2
        <5>2. owner'[k] # c /\ pc'[c] = "queued" /\ mutex'[c] = k
          BY <2>1, <3>1, <3>2
        <5> QED
          BY <5>1, <5>2
      <4>3. i \in 1 .. n \/ i = n + 1
        OBVIOUS
      <4> QED
        BY <4>1, <4>2, <4>3
    <3>6. \A i, j \in 1 .. n + 1 :
            Append(q, c)[i] = Append(q, c)[j] => i = j
      <4>1. \A i \in 1 .. n + 1 : i \in 1 .. n \/ i = n + 1
        OBVIOUS
      <4> QED
        BY <1>4, <3>3, <3>4, <4>1
    <3> QED
      BY <1>4, <3>1, <3>5, <3>6
  <2>2. CASE k # m
    <3>1. waiters'[k] = waiters[k] /\ owner' = owner
      BY <1>5, <2>2 DEF LockTypes
    <3> QED
      BY <1>10, <3>1 DEF QueueInv
  <2> QED
    BY <2>1, <2>2
<1> QED
  BY <1>6, <1>7, <1>8, <1>11

LEMMA EnterStep ==
  ASSUME IInv, NEW c \in Calls, Enter(c)
  PROVE  LockTypes' /\ LockInv'
<1> USE LockAssumption DEF IInv, LockInv
<1>1. PICK m \in Calls : m = mutex[c]
  BY DEF Enter, OneMutexPerResource
<1>2. /\ pc[c] = "queued"
      /\ owner[m] = c
      /\ pc' = [pc EXCEPT ![c] = "critical"]
      /\ UNCHANGED <<mutexOf, owner, waiters, resource, mutex>>
  BY <1>1 DEF Enter
<1>3. LockTypes'
  BY <1>2 DEF LockTypes
<1>4. OneMutexPerResource'
  BY <1>2 DEF LockTypes, OneMutexPerResource
<1>5. OwnerInv'
  BY <1>1, <1>2 DEF LockTypes, OwnerInv
<1>6. QueueInv'
  BY <1>1, <1>2, OwnerLeavesQueues
<1> QED
  BY <1>3, <1>4, <1>5, <1>6

LEMMA CancelBeforeStep ==
  ASSUME IInv, NEW c \in Calls, CancelBefore(c)
  PROVE  LockTypes' /\ LockInv'
<1> USE LockAssumption DEF IInv, LockInv
<1>1. /\ pc[c] = "found"
      /\ pc' = [pc EXCEPT ![c] = "cancelled"]
      /\ UNCHANGED <<mutexOf, owner, waiters, resource, mutex>>
  BY DEF CancelBefore
<1>2. LockTypes'
  BY <1>1 DEF LockTypes
<1>3. OneMutexPerResource'
  BY <1>1 DEF LockTypes, OneMutexPerResource
<1>4. OwnerInv'
  BY <1>1 DEF LockTypes, OwnerInv
<1>5. QueueInv'
  <2>1. mutex[c] \in Calls \cup {None}
    BY DEF LockTypes
  <2> QED
    BY <1>1, <2>1, QueueKept
<1> QED
  BY <1>2, <1>3, <1>4, <1>5

LEMMA CancelWaitingStep ==
  ASSUME IInv, NEW c \in Calls, CancelWaiting(c)
  PROVE  LockTypes' /\ LockInv'
<1> USE LockAssumption DEF IInv, LockInv
<1>1. PICK m \in Calls : m = mutex[c]
  BY DEF CancelWaiting, OneMutexPerResource
<1>2. PICK q \in Seq(Calls) : q = waiters[m]
  BY DEF LockTypes
<1>3. PICK n \in Nat : n = Len(q) /\ DOMAIN q = 1 .. n
  BY LenProperties
<1>4. PICK i \in 1 .. n : /\ q[i] = c
                         /\ waiters' = [waiters EXCEPT ![m] = RemoveAt(q, i)]
  BY <1>1, <1>2, <1>3 DEF CancelWaiting
<1>5. PICK r \in Seq(Calls) :
        /\ r = RemoveAt(q, i)
        /\ Len(r) = n - 1
        /\ \A k \in 1 .. n - 1 : r[k] = IF k < i THEN q[k] ELSE q[k + 1]
  BY <1>3, RemoveAtProperties
<1>6. /\ pc[c] = "queued"
      /\ waiters' = [waiters EXCEPT ![m] = r]
      /\ pc' = [pc EXCEPT ![c] = "cancelled"]
      /\ UNCHANGED <<mutexOf, owner, resource, mutex>>
  BY <1>4, <1>5 DEF CancelWaiting
<1>7. LockTypes'
  BY <1>6 DEF LockTypes
<1>8. OneMutexPerResource'
  BY <1>6 DEF LockTypes, OneMutexPerResource
<1>9. \A k \in Calls : owner[k] # c
  <2>1. owner[m] # c
    BY <1>2, <1>3, <1>4 DEF QueueInv
  <2> QED
    BY <1>1, <2>1 DEF OwnerInv
<1>10. OwnerInv'
  BY <1>6, <1>9 DEF LockTypes, OwnerInv
<1>11. ASSUME NEW k \in Calls, NEW j \in 1 .. Len(waiters[k]),
              waiters[k][j] # c
       PROVE  /\ pc'[waiters[k][j]] = "queued"
              /\ mutex'[waiters[k][j]] = k
              /\ owner'[k] # waiters[k][j]
  <2>1. PICK w \in Calls : w = waiters[k][j]
    BY <1>11 DEF LockTypes
  <2>2. pc[w] = "queued" /\ mutex[w] = k /\ owner[k] # w
    BY <1>11, <2>1 DEF QueueInv
  <2>3. pc'[w] = pc[w] /\ mutex'[w] = mutex[w]
    BY <1>6, <1>11, <2>1 DEF LockTypes
  <2> QED
    BY <1>6, <2>1, <2>2, <2>3
<1>12. QueueInv'
  <2> SUFFICES ASSUME NEW k \in Calls
               PROVE  /\ \A j \in 1 .. Len(waiters'[k]) :
                           /\ pc'[waiters'[k][j]] = "queued"
                           /\ mutex'[waiters'[k][j]] = k
                           /\ owner'[k] # waiters'[k][j]
                      /\ \A j, l \in 1 .. Len(waiters'[k]) :
                           waiters'[k][j] = waiters'[k][l] => j = l
                      /\ waiters'[k] # << >> => owner'[k] # None
    BY DEF QueueInv
  <2>1. CASE k = m
    <3>1. waiters'[k] = r /\ owner'[k] # None
      <4>1. waiters[m] # << >>
        BY <1>2, <1>3
      <4> QED
        BY <1>6, <2>1, <4>1 DEF LockTypes, QueueInv
    <3>2. \A j, l \in 1 .. n : q[j] = q[l] => j = l
      BY <1>2, <1>3 DEF QueueInv
    <3>3. ASSUME NEW j \in 1 .. n - 1
          PROVE  \E l \in 1 .. n : l # i /\ r[j] = q[l]
                                 /\ l = IF j < i THEN j ELSE j + 1
      BY <1>5
    <3>4. ASSUME NEW j \in 1 .. n - 1
          PROVE  /\ pc'[r[j]] = "queued"
                 /\ mutex'[r[j]] = k
                 /\ owner'[k] # r[j]
      <4>1. PICK l \in 1 .. n : l # i /\ r[j] = q[l]
        BY <3>3
      <4>2. q[l] # c
        BY <1>4, <3>2, <4>1
      <4>3. l \in 1 .. Len(waiters[k]) /\ waiters[k][l] = q[l]
        BY <1>2, <1>3, <2>1
      <4>4. /\ pc'[q[l]] = "queued"
            /\ mutex'[q[l]] = k
            /\ owner'[k] # q[l]
        BY <1>11, <4>2, <4>3
      <4> QED
        BY <4>1, <4>4
    <3>5. ASSUME NEW j \in 1 .. n - 1, NEW l \in 1 .. n - 1, r[j] = r[l]
          PROVE  j = l
      <4>1. PICK a \in 1 .. n : r[j] = q[a] /\ a = IF j < i THEN j ELSE j + 1
        BY <3>3
      <4>2. PICK b \in 1 .. n : r[l] = q[b] /\ b = IF l < i THEN l ELSE l + 1
        BY <3>3
      <4>3. a = b
        BY <3>2, <3>5, <4>1, <4>2
      <4> QED
        BY <4>1, <4>2, <4>3
    <3> QED
      BY <1>5, <3>1, <3>4, <3>5
  <2>2. CASE k # m
    <3>1. waiters'[k] = waiters[k] /\ owner' = owner
      BY <1>6, <2>2 DEF LockTypes
    <3>2. \A j \in 1 .. Len(waiters[k]) : waiters[k][j] # c
      BY <1>1, <2>2 DEF QueueInv
    <3> QED
      BY <1>11, <3>1, <3>2 DEF QueueInv
  <2> QED
    BY <2>1, <2>2
<1> QED
  BY <1>7, <1>8, <1>10, <1>12

-----------------------------------------------------------------------------
(* The deductions *)

\* Nobody deducts from a resource between the read and the write of a call
\* that is inside, and the balance counts the calls that are through.
Done(r) == {c \in Calls : pc[c] = "done" /\ resource[c] = r}

DeductionInv ==
  /\ \A c \in Calls : pc[c] = "critical" => read[c] = balance[resource[c]]
  /\ \A r \in Resources : balance[r] = Cardinality(Done(r))

\* Of two calls inside, both own the mutex of their resource.
LEMMA Exclusion == IInv => MutualExclusion
BY DEF IInv, LockInv, OneMutexPerResource, OwnerInv, MutualExclusion

LEMMA HandOver == IInv => NoLostHandOver
BY DEF IInv, LockInv, OwnerInv, QueueInv, NoLostHandOver

\* A step in which nobody enters, finishes or takes "done" back.
LEMMA DeductionKept ==
  ASSUME IInv, DeductionInv, NEW c \in Calls, pc[c] # "done",
         NEW p \in {"found", "queued", "cancelled"},
         pc' = [pc EXCEPT ![c] = p], UNCHANGED <<resource, balance, read>>
  PROVE  DataTypes' /\ DeductionInv'
<1>1. ASSUME NEW r \in Resources
      PROVE  {d \in Calls : pc'[d] = "done" /\ resource'[d] = r}
               = {d \in Calls : pc[d] = "done" /\ resource[d] = r}
  BY DEF IInv, LockTypes
<1>2. \A d \in Calls : pc'[d] = "critical" => pc[d] = "critical"
  BY DEF IInv, LockTypes
<1> QED
  BY <1>1, <1>2 DEF IInv, DataTypes, DeductionInv, Done

LEMMA DeductionEnter ==
  ASSUME IInv, DeductionInv, NEW c \in Calls, Enter(c)
  PROVE  DataTypes' /\ DeductionInv'
<1>1. ASSUME NEW r \in Resources
      PROVE  {d \in Calls : pc'[d] = "done" /\ resource'[d] = r}
               = {d \in Calls : pc[d] = "done" /\ resource[d] = r}
  BY DEF IInv, LockTypes, Enter
<1>2. \A d \in Calls :
        pc'[d] = "critical" => read'[d] = balance'[resource'[d]]
  BY DEF IInv, LockTypes, DataTypes, DeductionInv, Enter
<1>3. DataTypes'
  BY DEF IInv, LockTypes, DataTypes, Enter
<1>4. \A r \in Resources :
        balance'[r] = Cardinality({d \in Calls : pc'[d] = "done"
                                              /\ resource'[d] = r})
  BY <1>1 DEF DeductionInv, Done, Enter
<1> QED
  BY <1>2, <1>3, <1>4 DEF DeductionInv, Done

LEMMA DeductionFinish ==
  ASSUME IInv, DeductionInv, NEW c \in Calls, Finish(c)
  PROVE  DataTypes' /\ DeductionInv'
<1>1. PICK r \in Resources : r = resource[c]
  BY DEF IInv, LockTypes
<1>2. PICK b \in Nat : b = read[c] /\ b = balance[r]
  BY <1>1 DEF IInv, DataTypes, DeductionInv, Finish
<1>3. /\ pc[c] = "critical"
      /\ balance' = [balance EXCEPT ![r] = b + 1]
      /\ pc' = [pc EXCEPT ![c] = "done"]
      /\ UNCHANGED <<resource, read>>
  BY <1>1, <1>2 DEF Finish
<1>4. DataTypes'
  BY <1>3 DEF IInv, DataTypes
<1>5. ASSUME NEW d \in Calls, pc'[d] = "critical"
      PROVE  read'[d] = balance'[resource'[d]]
  <2>1. d # c /\ pc[d] = "critical"
    BY <1>3, <1>5 DEF IInv, LockTypes
  <2>2. resource[d] # r
    BY <1>1, <1>3, <2>1, Exclusion DEF MutualExclusion
  <2> QED
    BY <1>3, <2>1, <2>2 DEF IInv, LockTypes, DataTypes, DeductionInv
<1>6. ASSUME NEW s \in Resources
      PROVE  balance'[s] = Cardinality({d \in Calls : pc'[d] = "done"
                                                  /\ resource'[d] = s})
  <2>1. PICK D : D = Done(s)
    OBVIOUS
  <2>2. IsFiniteSet(D) /\ balance[s] = Cardinality(D) /\ c \notin D
    <3>1. D \in SUBSET Calls /\ c \notin D
      BY <1>3, <2>1 DEF Done
    <3> QED
      BY <2>1, <3>1, LockAssumption, FS_Subset DEF LockAssumption, DeductionInv
  <2>3. CASE s = r
    <3>1. {d \in Calls : pc'[d] = "done" /\ resource'[d] = s} = D \cup {c}
      BY <1>1, <1>3, <2>1, <2>3 DEF IInv, LockTypes, Done
    <3>2. Cardinality(D \cup {c}) = Cardinality(D) + 1
      BY <2>2, FS_AddElement
    <3> QED
      BY <1>2, <1>3, <2>2, <2>3, <3>1, <3>2 DEF IInv, DataTypes
  <2>4. CASE s # r
    <3>1. {d \in Calls : pc'[d] = "done" /\ resource'[d] = s} = D
      BY <1>1, <1>3, <2>1, <2>4 DEF IInv, LockTypes, Done
    <3> QED
      BY <1>3, <2>2, <2>4, <3>1 DEF IInv, DataTypes
  <2> QED
    BY <2>3, <2>4
<1> QED
  BY <1>4, <1>5, <1>6 DEF DeductionInv, Done

-----------------------------------------------------------------------------
(* Theorems *)

FullInv == IInv /\ DeductionInv

LEMMA InitFull == Init => FullInv
<1> SUFFICES ASSUME Init PROVE FullInv
  OBVIOUS
<1>1. \A r \in Resources : Done(r) = {}
  BY DEF Init, Done
<1>2. DeductionInv
  BY <1>1, FS_EmptySet DEF Init, DeductionInv
<1> QED
  BY <1>2, InitInv DEF FullInv

LEMMA Step == FullInv /\ [Next]_vars => FullInv'
<1> SUFFICES ASSUME FullInv, [Next]_vars
             PROVE  LockTypes' /\ LockInv' /\ DataTypes' /\ DeductionInv'
  BY DEF FullInv, IInv
<1> USE DEF FullInv
<1>1. ASSUME NEW c \in Calls, Lookup(c)
      PROVE  LockTypes' /\ LockInv' /\ DataTypes' /\ DeductionInv'
  <2>1. /\ pc[c] # "done" /\ pc' = [pc EXCEPT ![c] = "found"]
        /\ UNCHANGED <<resource, balance, read>>
    BY <1>1 DEF Lookup
  <2> QED
    BY <1>1, <2>1, LookupStep, DeductionKept
<1>2. ASSUME NEW c \in Calls, Acquire(c)
      PROVE  LockTypes' /\ LockInv' /\ DataTypes' /\ DeductionInv'
  <2>1. /\ pc[c] # "done" /\ pc' = [pc EXCEPT ![c] = "queued"]
        /\ UNCHANGED <<resource, balance, read>>
    BY <1>2 DEF Acquire
  <2> QED
    BY <1>2, <2>1, AcquireStep, DeductionKept
<1>3. ASSUME NEW c \in Calls, Enqueue(c)
      PROVE  LockTypes' /\ LockInv' /\ DataTypes' /\ DeductionInv'
  <2>1. /\ pc[c] # "done" /\ pc' = [pc EXCEPT ![c] = "queued"]
        /\ UNCHANGED <<resource, balance, read>>
    BY <1>3 DEF Enqueue
  <2> QED
    BY <1>3, <2>1, EnqueueStep, DeductionKept
<1>4. ASSUME NEW c \in Calls, Enter(c)
      PROVE  LockTypes' /\ LockInv' /\ DataTypes' /\ DeductionInv'
  BY <1>4, EnterStep, DeductionEnter
<1>5. ASSUME NEW c \in Calls, Finish(c)
      PROVE  LockTypes' /\ LockInv' /\ DataTypes' /\ DeductionInv'
  <2>1. owner[mutex[c]] = c
    BY <1>5 DEF Finish, IInv, LockInv, OwnerInv
  <2>2. LockTypes' /\ LockInv'
    BY <1>5, <2>1, PassOn DEF Finish
  <2> QED
    BY <1>5, <2>2, DeductionFinish
<1>6. ASSUME NEW c \in Calls, CancelBefore(c)
      PROVE  LockTypes' /\ LockInv' /\ DataTypes' /\ DeductionInv'
  <2>1. /\ pc[c] # "done" /\ pc' = [pc EXCEPT ![c] = "cancelled"]
        /\ UNCHANGED <<resource, balance, read>>
    BY <1>6 DEF CancelBefore
  <2> QED
    BY <1>6, <2>1, CancelBeforeStep, DeductionKept
<1>7. ASSUME NEW c \in Calls, CancelWaiting(c)
      PROVE  LockTypes' /\ LockInv' /\ DataTypes' /\ DeductionInv'
  <2>1. /\ pc[c] # "done" /\ pc' = [pc EXCEPT ![c] = "cancelled"]
        /\ UNCHANGED <<resource, balance, read>>
    BY <1>7 DEF CancelWaiting
  <2> QED
    BY <1>7, <2>1, CancelWaitingStep, DeductionKept
<1>8. ASSUME NEW c \in Calls, CancelOwner(c)
      PROVE  LockTypes' /\ LockInv' /\ DataTypes' /\ DeductionInv'
  <2>1. /\ pc[c] # "done" /\ pc' = [pc EXCEPT ![c] = "cancelled"]
        /\ UNCHANGED <<mutexOf, resource, mutex, balance, read>>
        /\ pc[c] \in {"queued", "critical"} /\ owner[mutex[c]] = c
        /\ Release(mutex[c])
    BY <1>8 DEF CancelOwner
  <2> QED
    BY <2>1, PassOn, DeductionKept
<1>9. CASE UNCHANGED vars
  BY <1>9 DEF vars, IInv, LockTypes, DataTypes, LockInv, OneMutexPerResource,
              OwnerInv, QueueInv, DeductionInv, Done
<1> QED
  BY <1>1, <1>2, <1>3, <1>4, <1>5, <1>6, <1>7, <1>8, <1>9
  DEF Next, Progress, Cancel

LEMMA Invariance == Spec => []FullInv
BY InitFull, Step, PTL DEF Spec

\* Every variable keeps its type (lock.rs:10-12, 23-36).
THEOREM TypeCorrect == Spec => []TypeOK
<1>1. FullInv => TypeOK
  BY DEF FullInv, IInv, LockTypes, DataTypes, TypeOK
<1> QED
  BY Invariance, <1>1, PTL

\* However many calls race to create the mutex of a resource, wait for it and
\* are dropped, one at a time is inside (lock.rs:27-35).
THEOREM Excludes == Spec => []MutualExclusion
<1>1. FullInv => MutualExclusion
  BY Exclusion DEF FullInv
<1> QED
  BY Invariance, <1>1, PTL

\* The balance of a resource is what the finished calls deducted, although
\* each of them read it, waited, and wrote it back (lock.rs:32-35).
THEOREM LosesNoDeduction == Spec => []NoLostDeduction
<1>1. FullInv => NoLostDeduction
  BY DEF FullInv, DeductionInv, Done, NoLostDeduction
<1> QED
  BY Invariance, <1>1, PTL

\* A mutex somebody waits for is always in the hands of a call that can run
\* (lock.rs:33-35).
THEOREM LosesNoHandOver == Spec => []NoLostHandOver
<1>1. FullInv => NoLostHandOver
  BY HandOver DEF FullInv
<1> QED
  BY Invariance, <1>1, PTL
=============================================================================
