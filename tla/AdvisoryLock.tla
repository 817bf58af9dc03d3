---------------------------- MODULE AdvisoryLock ----------------------------
(***************************************************************************)
(* The advisory lock of src/src/gateway/lock.rs: a concurrent map from     *)
(* resource names to mutexes, made on demand and never removed.  A call    *)
(* looks its mutex up (one atomic entry().or_insert_with()), waits for it, *)
(* runs the caller's future and releases by dropping the guard, which also *)
(* happens when the call is cancelled.                                     *)
(*                                                                         *)
(* The mutex is tokio's: waiters queue in order of arrival, and a release  *)
(* hands the mutex to the first of them at once, before it is polled.      *)
(* The caller's future is the one the lock is for: it reads a balance,     *)
(* awaits, and writes the balance back with its deduction.                 *)
(***************************************************************************)
EXTENDS Integers, Sequences, SequencesExt

CONSTANTS
  Calls,      \* calls of lock(); a call also names the mutex it created
  Resources,  \* resource names
  None        \* no call, hence no mutex and no owner either

ASSUME LockAssumption == None \notin Calls /\ IsFiniteSet(Calls)

VARIABLES
  mutexOf,   \* the map: the mutex of each resource, None if absent
  owner,     \* who holds each mutex
  waiters,   \* who waits for each mutex, in order
  pc,        \* where each call is
  resource,  \* the resource each call locks
  mutex,     \* the mutex each call has cloned out of the map
  balance,   \* deductions made from each resource
  read       \* the balance each call has read

vars == <<mutexOf, owner, waiters, pc, resource, mutex, balance, read>>

Init ==
  /\ mutexOf = [r \in Resources |-> None]
  /\ owner = [m \in Calls |-> None]
  /\ waiters = [m \in Calls |-> << >>]
  /\ pc = [c \in Calls |-> "idle"]
  /\ resource \in [Calls -> Resources]
  /\ mutex = [c \in Calls |-> None]
  /\ balance = [r \in Resources |-> 0]
  /\ read = [c \in Calls |-> 0]

\* Mutant of Lookup: insert in place of or_insert_with.
LookupFresh(c) ==
  /\ pc[c] = "idle"
  /\ mutexOf' = [mutexOf EXCEPT ![resource[c]] = c]
  /\ mutex' = [mutex EXCEPT ![c] = c]
  /\ pc' = [pc EXCEPT ![c] = "found"]
  /\ UNCHANGED <<owner, waiters, resource, balance, read>>

\* The entry API holds the shard of the map: look up, make, clone.
Lookup(c) ==
  LET r == resource[c]
      m == IF mutexOf[r] = None THEN c ELSE mutexOf[r]
  IN
  /\ pc[c] = "idle"
  /\ mutexOf' = [mutexOf EXCEPT ![r] = m]
  /\ mutex' = [mutex EXCEPT ![c] = m]
  /\ pc' = [pc EXCEPT ![c] = "found"]
  /\ UNCHANGED <<owner, waiters, resource, balance, read>>

\* mtx.lock(): the mutex is free ...
Acquire(c) ==
  /\ pc[c] = "found"
  /\ owner[mutex[c]] = None
  /\ owner' = [owner EXCEPT ![mutex[c]] = c]
  /\ pc' = [pc EXCEPT ![c] = "queued"]
  /\ UNCHANGED <<mutexOf, waiters, resource, mutex, balance, read>>

\* ... or not.
Enqueue(c) ==
  /\ pc[c] = "found"
  /\ owner[mutex[c]] # None
  /\ waiters' = [waiters EXCEPT ![mutex[c]] = Append(@, c)]
  /\ pc' = [pc EXCEPT ![c] = "queued"]
  /\ UNCHANGED <<mutexOf, owner, resource, mutex, balance, read>>

\* The call is polled with the mutex in its hands: f() reads the balance.
Enter(c) ==
  /\ pc[c] = "queued"
  /\ owner[mutex[c]] = c
  /\ read' = [read EXCEPT ![c] = balance[resource[c]]]
  /\ pc' = [pc EXCEPT ![c] = "critical"]
  /\ UNCHANGED <<mutexOf, owner, waiters, resource, mutex, balance>>

\* The guard is dropped: the first waiter owns the mutex from now on.
Release(m) ==
  IF waiters[m] = << >>
  THEN owner' = [owner EXCEPT ![m] = None] /\ UNCHANGED waiters
  ELSE /\ owner' = [owner EXCEPT ![m] = Head(waiters[m])]
       /\ waiters' = [waiters EXCEPT ![m] = Tail(@)]

\* Mutant of Finish: the deduction is given back.
FinishGivingBack(c) ==
  /\ pc[c] = "critical"
  /\ balance' = [balance EXCEPT ![resource[c]] = read[c] - 1]
  /\ pc' = [pc EXCEPT ![c] = "done"]
  /\ Release(mutex[c])
  /\ UNCHANGED <<mutexOf, resource, mutex, read>>

\* f() writes the balance it read, less its deduction, and returns.
Finish(c) ==
  /\ pc[c] = "critical"
  /\ balance' = [balance EXCEPT ![resource[c]] = read[c] + 1]
  /\ pc' = [pc EXCEPT ![c] = "done"]
  /\ Release(mutex[c])
  /\ UNCHANGED <<mutexOf, resource, mutex, read>>

\* The call is dropped before it queues, ...
CancelBefore(c) ==
  /\ pc[c] = "found"
  /\ pc' = [pc EXCEPT ![c] = "cancelled"]
  /\ UNCHANGED <<mutexOf, owner, waiters, resource, mutex, balance, read>>

\* ... while it waits in the queue, ...
CancelWaiting(c) ==
  /\ pc[c] = "queued"
  /\ \E i \in DOMAIN waiters[mutex[c]] :
       /\ waiters[mutex[c]][i] = c
       /\ waiters' = [waiters EXCEPT ![mutex[c]] = RemoveAt(@, i)]
  /\ pc' = [pc EXCEPT ![c] = "cancelled"]
  /\ UNCHANGED <<mutexOf, owner, resource, mutex, balance, read>>

\* Mutant of CancelOwner: a waiter that was handed the mutex just disappears.
CancelForgetful(c) ==
  /\ pc[c] \in {"queued", "critical"}
  /\ owner[mutex[c]] = c
  /\ pc' = [pc EXCEPT ![c] = "cancelled"]
  /\ IF pc[c] = "critical" THEN Release(mutex[c])
                           ELSE UNCHANGED <<owner, waiters>>
  /\ UNCHANGED <<mutexOf, resource, mutex, balance, read>>

\* ... or when it has the mutex, polled since or not: it passes it on.
CancelOwner(c) ==
  /\ pc[c] \in {"queued", "critical"}
  /\ owner[mutex[c]] = c
  /\ pc' = [pc EXCEPT ![c] = "cancelled"]
  /\ Release(mutex[c])
  /\ UNCHANGED <<mutexOf, resource, mutex, balance, read>>

Cancel(c) == CancelBefore(c) \/ CancelWaiting(c) \/ CancelOwner(c)

Progress(c) == Lookup(c) \/ Acquire(c) \/ Enqueue(c) \/ Enter(c) \/ Finish(c)

Next == \E c \in Calls : Progress(c) \/ Cancel(c)

Spec == Init /\ [][Next]_vars

\* A task that can run is polled, and the caller's future terminates.
FairSpec == Spec /\ \A c \in Calls : WF_vars(Progress(c))

-----------------------------------------------------------------------------
\* Every variable has its type.
TypeOK ==
  /\ mutexOf \in [Resources -> Calls \cup {None}]
  /\ owner \in [Calls -> Calls \cup {None}]
  /\ waiters \in [Calls -> Seq(Calls)]
  /\ pc \in [Calls -> {"idle", "found", "queued", "critical", "done",
                       "cancelled"}]
  /\ resource \in [Calls -> Resources]
  /\ mutex \in [Calls -> Calls \cup {None}]
  /\ balance \in [Resources -> Nat]
  /\ read \in [Calls -> Nat]

\* Two calls never run their futures for the same resource at the same time,
\* also when they raced to create its mutex (lock.rs:27-33).
MutualExclusion ==
  \A c, d \in Calls :
    /\ pc[c] = "critical"
    /\ pc[d] = "critical"
    /\ resource[c] = resource[d]
    => c = d

\* No deduction is lost, although each is a read, an await and a write, and
\* calls may be dropped in the middle: what the test calls "prevents
\* concurrent deductions" (gateway_tests.rs:23).
NoLostDeduction ==
  \A r \in Resources :
    balance[r] = Cardinality({c \in Calls : pc[c] = "done" /\ resource[c] = r})

\* A mutex that somebody waits for is owned by a call that can still run: the
\* hand-over of a release is never lost, not even to a waiter that goes away.
NoLostHandOver ==
  \A m \in Calls :
    /\ waiters[m] # << >> => owner[m] # None
    /\ owner[m] # None => pc[owner[m]] \in {"queued", "critical"}

\* Every call that asks for a resource gets it, or is dropped by its caller,
\* provided that the futures run under the lock terminate.
EveryCallEnters ==
  \A c \in Calls :
    pc[c] \in {"found", "queued"} ~> pc[c] \in {"critical", "done", "cancelled"}
=============================================================================
