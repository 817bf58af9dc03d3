--------------------------- MODULE NonceSequencer ---------------------------
(***************************************************************************)
(* The nonce sequencer of src/src/soroban/sequencer.rs.                    *)
(*                                                                         *)
(* next_nonce is one atomic fetch_add, shared by all grids.  commit_nonce  *)
(* takes the mutex of last_committed, compares, and then either returns    *)
(* the error or stores: other tasks run between these steps, so that only  *)
(* the mutex makes them one.  The order in which the mutex admits waiting  *)
(* tasks is left open.                                                     *)
(***************************************************************************)
EXTENDS Integers, Sequences

CONSTANTS
  Calls,       \* calls of commit_nonce, each with the nonce it carries
  NoCall,      \* nobody holds the mutex
  NonceLimit   \* issuing stops here: far below the 2^64 where it wraps

ASSUME NonceAssumption ==
  /\ NoCall \notin Calls
  /\ NonceLimit \in Nat

VARIABLES
  gridNonce,      \* the next nonce to issue
  lastCommitted,  \* the value under the mutex
  holder,         \* the call that holds the mutex
  pc,             \* where each call is
  nonce,          \* the nonce each call carries
  accepted        \* history: the nonces accepted, in the order they were

vars == <<gridNonce, lastCommitted, holder, pc, nonce, accepted>>

Init ==
  /\ gridNonce = 0
  /\ lastCommitted = 0
  /\ holder = NoCall
  /\ pc = [c \in Calls |-> "idle"]
  /\ nonce = [c \in Calls |-> 0]
  /\ accepted = << >>

\* Mutant of Issue: fetch_sub.
IssueDownwards(c) ==
  /\ pc[c] = "idle"
  /\ gridNonce < NonceLimit
  /\ nonce' = [nonce EXCEPT ![c] = gridNonce]
  /\ gridNonce' = gridNonce - 1
  /\ pc' = [pc EXCEPT ![c] = "issued"]
  /\ UNCHANGED <<lastCommitted, holder, accepted>>

\* A new settlement: next_nonce.
Issue(c) ==
  /\ pc[c] = "idle"
  /\ gridNonce < NonceLimit
  /\ nonce' = [nonce EXCEPT ![c] = gridNonce]
  /\ gridNonce' = gridNonce + 1
  /\ pc' = [pc EXCEPT ![c] = "issued"]
  /\ UNCHANGED <<lastCommitted, holder, accepted>>

\* The same settlement submitted again, with the nonce it already has.
Resubmit(c, d) ==
  /\ pc[c] = "idle"
  /\ pc[d] # "idle"
  /\ nonce' = [nonce EXCEPT ![c] = nonce[d]]
  /\ pc' = [pc EXCEPT ![c] = "issued"]
  /\ UNCHANGED <<gridNonce, lastCommitted, holder, accepted>>

Ask(c) ==
  /\ pc[c] = "issued"
  /\ pc' = [pc EXCEPT ![c] = "waiting"]
  /\ UNCHANGED <<gridNonce, lastCommitted, holder, nonce, accepted>>

\* The future is dropped while it waits for the mutex, its only await.
Cancel(c) ==
  /\ pc[c] = "waiting"
  /\ pc' = [pc EXCEPT ![c] = "cancelled"]
  /\ UNCHANGED <<gridNonce, lastCommitted, holder, nonce, accepted>>

\* Mutant of Lock: a lock that admits several holders.
LockShared(c) ==
  /\ pc[c] = "waiting"
  /\ holder' = c
  /\ pc' = [pc EXCEPT ![c] = "locked"]
  /\ UNCHANGED <<gridNonce, lastCommitted, nonce, accepted>>

Lock(c) ==
  /\ pc[c] = "waiting"
  /\ holder = NoCall
  /\ holder' = c
  /\ pc' = [pc EXCEPT ![c] = "locked"]
  /\ UNCHANGED <<gridNonce, lastCommitted, nonce, accepted>>

\* nonce <= *last: the guard is dropped with the error.
Refuse(c) ==
  /\ pc[c] = "locked"
  /\ nonce[c] <= lastCommitted
  /\ pc' = [pc EXCEPT ![c] = "error"]
  /\ holder' = NoCall
  /\ UNCHANGED <<gridNonce, lastCommitted, nonce, accepted>>

Pass(c) ==
  /\ pc[c] = "locked"
  /\ nonce[c] > lastCommitted
  /\ pc' = [pc EXCEPT ![c] = "checked"]
  /\ UNCHANGED <<gridNonce, lastCommitted, holder, nonce, accepted>>

\* Mutant of Store: the update of *last is lost.
StoreNothing(c) ==
  /\ pc[c] = "checked"
  /\ accepted' = Append(accepted, nonce[c])
  /\ pc' = [pc EXCEPT ![c] = "ok"]
  /\ holder' = NoCall
  /\ UNCHANGED <<gridNonce, lastCommitted, nonce>>

\* Mutant of Store: the last nonce ISSUED is recorded as committed.
StoreLastIssued(c) ==
  /\ pc[c] = "checked"
  /\ lastCommitted' = gridNonce - 1
  /\ accepted' = Append(accepted, nonce[c])
  /\ pc' = [pc EXCEPT ![c] = "ok"]
  /\ holder' = NoCall
  /\ UNCHANGED <<gridNonce, nonce>>

Store(c) ==
  /\ pc[c] = "checked"
  /\ lastCommitted' = nonce[c]
  /\ accepted' = Append(accepted, nonce[c])
  /\ pc' = [pc EXCEPT ![c] = "ok"]
  /\ holder' = NoCall
  /\ UNCHANGED <<gridNonce, nonce>>

Commit(c) == Lock(c) \/ Refuse(c) \/ Pass(c) \/ Store(c)

Next ==
  \E c \in Calls :
    \/ Issue(c)
    \/ \E d \in Calls : Resubmit(c, d)
    \/ Ask(c)
    \/ Cancel(c)
    \/ Commit(c)

Spec == Init /\ [][Next]_vars

-----------------------------------------------------------------------------
\* Every variable has its type.
TypeOK ==
  /\ gridNonce \in Nat
  /\ lastCommitted \in Nat
  /\ holder \in Calls \cup {NoCall}
  /\ pc \in [Calls -> {"idle", "issued", "waiting", "locked", "checked",
                       "ok", "error", "cancelled"}]
  /\ nonce \in [Calls -> Nat]
  /\ accepted \in Seq(Nat)

\* Nonces are accepted in increasing order, hence each at most once, however
\* many calls carry the same nonce at the same time and whichever of them was
\* compared first (sequencer.rs:31-36).
AcceptedInOrder ==
  \A i, j \in 1 .. Len(accepted) : i < j => accepted[i] < accepted[j]

\* A nonce is refused only when the same or a later one was accepted, or when
\* it is 0, which last_committed starts from (sequencer.rs:20, 32).
RefusedOnlyIfOvertaken ==
  \A c \in Calls :
    pc[c] = "error" =>
      \/ nonce[c] = 0
      \/ \E i \in 1 .. Len(accepted) : accepted[i] >= nonce[c]

\* A refusal is final: once a caller was told that its nonce is spent, nobody
\* gets that nonce accepted any more, so the caller may move on safely.
NoAcceptAfterRefusal ==
  \A c, d \in Calls :
    /\ pc[d] = "error"
    /\ nonce[c] = nonce[d]
    /\ pc[c] # "ok"
    => pc'[c] # "ok"

RefusalIsFinal == [][NoAcceptAfterRefusal]_vars

\* What the error says: "nonce already committed: possible double-spend"
\* (sequencer.rs:33).  It is also given to a nonce that was never committed.
RefusedOnlyIfCommitted ==
  \A c \in Calls :
    pc[c] = "error" => \E i \in 1 .. Len(accepted) : accepted[i] = nonce[c]
=============================================================================
