----------------------------- MODULE TokenBucket -----------------------------
(***************************************************************************)
(* The token bucket of src/src/api/middleware.rs: try_consume loads the    *)
(* counter, gives up if it is too low, and otherwise exchanges it for the  *)
(* lower value if nobody changed it since; if somebody did it starts over. *)
(* Threads run between any two of these steps.  All of them are atomic     *)
(* operations on one word, which its readers and writers see in one order  *)
(* whatever the memory orderings asked for.  Nothing ever adds tokens: the *)
(* refill rate is not used.                                                *)
(***************************************************************************)
EXTENDS Integers

CONSTANTS
  Calls,      \* calls of try_consume
  MaxTokens,  \* tokens at the start
  Counts      \* what a call may ask for; the HTTP layer asks for 1

ASSUME BucketAssumption ==
  /\ MaxTokens \in Nat
  /\ Counts \subseteq Nat

VARIABLES
  tokens,   \* the counter
  count,    \* what each call asks for
  current,  \* what each call has loaded
  pc        \* "load", "exchange", "granted" or "refused", for each call

vars == <<tokens, count, current, pc>>

Init ==
  /\ tokens = MaxTokens
  /\ count \in [Calls -> Counts]
  /\ current = [c \in Calls |-> 0]
  /\ pc = [c \in Calls |-> "load"]

\* Mutant of Refuse: the last tokens are never given out.
RefuseTheLast(c) ==
  /\ pc[c] = "load"
  /\ tokens <= count[c]
  /\ pc' = [pc EXCEPT ![c] = "refused"]
  /\ UNCHANGED <<tokens, count, current>>

Refuse(c) ==
  /\ pc[c] = "load"
  /\ tokens < count[c]
  /\ pc' = [pc EXCEPT ![c] = "refused"]
  /\ UNCHANGED <<tokens, count, current>>

Load(c) ==
  /\ pc[c] = "load"
  /\ tokens >= count[c]
  /\ current' = [current EXCEPT ![c] = tokens]
  /\ pc' = [pc EXCEPT ![c] = "exchange"]
  /\ UNCHANGED <<tokens, count>>

\* Mutant of Exchange: a store in place of the compare_exchange.
StoreBlindly(c) ==
  /\ pc[c] = "exchange"
  /\ tokens' = current[c] - count[c]
  /\ pc' = [pc EXCEPT ![c] = "granted"]
  /\ UNCHANGED <<count, current>>

\* Mutant of Exchange: what is left is computed again after the exchange.
SubtractTwice(c) ==
  /\ pc[c] = "exchange"
  /\ tokens = current[c]
  /\ tokens' = current[c] - 2 * count[c]
  /\ pc' = [pc EXCEPT ![c] = "granted"]
  /\ UNCHANGED <<count, current>>

Exchange(c) ==
  /\ pc[c] = "exchange"
  /\ tokens = current[c]
  /\ tokens' = current[c] - count[c]
  /\ pc' = [pc EXCEPT ![c] = "granted"]
  /\ UNCHANGED <<count, current>>

\* Mutant of Retry: compare_exchange_weak, which may fail without a reason.
RetryAnyway(c) ==
  /\ pc[c] = "exchange"
  /\ pc' = [pc EXCEPT ![c] = "load"]
  /\ UNCHANGED <<tokens, count, current>>

Retry(c) ==
  /\ pc[c] = "exchange"
  /\ tokens # current[c]
  /\ pc' = [pc EXCEPT ![c] = "load"]
  /\ UNCHANGED <<tokens, count, current>>

TryConsume(c) == Refuse(c) \/ Load(c) \/ Exchange(c) \/ Retry(c)

Next == \E c \in Calls : TryConsume(c)

Spec == Init /\ [][Next]_vars

\* Every thread is scheduled.
FairSpec == Spec /\ \A c \in Calls : WF_vars(TryConsume(c))

-----------------------------------------------------------------------------
\* Every variable has its type.
TypeOK ==
  /\ tokens \in 0 .. MaxTokens
  /\ count \in [Calls -> Counts]
  /\ current \in [Calls -> 0 .. MaxTokens]
  /\ pc \in [Calls -> {"load", "exchange", "granted", "refused"}]

Granted == {c \in Calls : pc[c] = "granted"}

\* The tokens are numbered from the last one to go, 1, to the first one to go,
\* MaxTokens: these are the ones a granted call took off the counter.
Taken(c) == current[c] - count[c] + 1 .. current[c]

\* No two calls are granted the same token, and exactly the tokens not left in
\* the bucket were granted: a call that lost a race costs nothing, whatever the
\* calls ask for (middleware.rs:28-46).
NothingGrantedTwice ==
  /\ \A c, d \in Granted : c # d => Taken(c) \cap Taken(d) = {}
  /\ UNION {Taken(c) : c \in Granted} = tokens + 1 .. MaxTokens

\* The loop of every call ends: an exchange fails only when another succeeded
\* (middleware.rs:29-45).
EveryCallReturns ==
  \A c \in Calls : <>(pc[c] \in {"granted", "refused"})

-----------------------------------------------------------------------------
(* Refinement *)

Atomic == INSTANCE Bucket WITH
  verdict <- [c \in Calls |->
                IF pc[c] \in {"granted", "refused"} THEN pc[c] ELSE "none"]

\* The loop is one atomic step for everybody else: in particular nobody is
\* refused while there are enough tokens for it (middleware.rs:28-46).
BucketSpec == Atomic!Spec
=============================================================================
