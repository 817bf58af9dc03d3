------------------------------- MODULE TxState -------------------------------
(***************************************************************************)
(* The two-phase commit controller of src/src/soroban/tx_state.rs: a list  *)
(* of transactions under one mutex.  begin pushes an entry without looking *)
(* for an older one of the same id; commit and rollback look for the FIRST *)
(* entry of the id and overwrite its status without looking at it; nothing *)
(* ever removes an entry.  The list cannot be reached without the mutex    *)
(* and no step awaits while holding it, so a call runs in one step once    *)
(* the mutex admits it.                                                    *)
(***************************************************************************)
EXTENDS Integers, Sequences

CONSTANTS
  Calls,  \* calls of begin, commit and rollback
  Ids     \* transaction ids

VARIABLES
  txs,    \* active_transactions
  pc,     \* where each call is
  op,     \* the operation and ...
  tx,     \* ... the transaction id of each call
  knew    \* history: the id's begin had returned when the call was made

callVars == <<op, tx, knew>>
vars == <<txs, pc, callVars>>

Statuses == {"Pending", "Committed", "RolledBack"}

\* Mutant of IsFirst: the newest entry of the id.
IsLast(i, id) ==
  /\ i \in DOMAIN txs
  /\ txs[i].id = id
  /\ \A j \in DOMAIN txs : txs[j].id = id => j <= i

\* The entry that iter_mut().find() returns.
IsFirst(i, id) ==
  /\ i \in DOMAIN txs
  /\ txs[i].id = id
  /\ \A j \in DOMAIN txs : txs[j].id = id => i <= j

Known(id) == \E i \in DOMAIN txs : txs[i].id = id

Init ==
  /\ txs = << >>
  /\ pc = [c \in Calls |-> "idle"]
  /\ op = [c \in Calls |-> "none"]
  /\ tx \in [Calls -> Ids]
  /\ knew = [c \in Calls |-> FALSE]

\* Some caller has been told that the transaction is begun.
Begun(id) ==
  \E d \in Calls : op[d] = "begin" /\ tx[d] = id /\ pc[d] = "ok"

\* The call is made and waits for the mutex.
Ask(c) ==
  /\ pc[c] = "idle"
  /\ pc' = [pc EXCEPT ![c] = "waiting"]
  /\ \E o \in {"begin", "commit", "rollback"} : op' = [op EXCEPT ![c] = o]
  /\ knew' = [knew EXCEPT ![c] = Begun(tx[c])]
  /\ UNCHANGED <<txs, tx>>

\* Its future is dropped before the mutex admits it.
Cancel(c) ==
  /\ pc[c] = "waiting"
  /\ pc' = [pc EXCEPT ![c] = "cancelled"]
  /\ UNCHANGED <<txs, callVars>>

Return(c, a) ==
  /\ pc[c] = "waiting"
  /\ pc' = [pc EXCEPT ![c] = a]
  /\ UNCHANGED callVars

Begin(c) ==
  /\ op[c] = "begin"
  /\ Return(c, "ok")
  /\ txs' = Append(txs, [id |-> tx[c], status |-> "Pending"])

\* Mutant of Decide: a finished transaction is removed from the list.
DecideAndRemove(c, decision, status) ==
  /\ op[c] = decision
  /\ Return(c, "ok")
  /\ \E i \in DOMAIN txs :
       /\ IsFirst(i, tx[c])
       /\ txs' = SubSeq(txs, 1, i - 1) \o SubSeq(txs, i + 1, Len(txs))

\* Mutant of Decide: the operation is written for the status.
DecideOperation(c, decision, status) ==
  /\ op[c] = decision
  /\ Return(c, "ok")
  /\ \E i \in DOMAIN txs :
       /\ IsFirst(i, tx[c])
       /\ txs' = [txs EXCEPT ![i].status = decision]

\* commit and rollback, when the transaction is found.
Decide(c, decision, status) ==
  /\ op[c] = decision
  /\ Return(c, "ok")
  /\ \E i \in DOMAIN txs :
       /\ IsFirst(i, tx[c])
       /\ txs' = [txs EXCEPT ![i].status = status]

Commit(c) == Decide(c, "commit", "Committed")

\* Mutant of Rollback: the status of commit is written.
RollbackAsCommitted(c) == Decide(c, "rollback", "Committed")

Rollback(c) == Decide(c, "rollback", "RolledBack")

\* commit and rollback of an id that nobody has begun.
NotFound(c) ==
  /\ op[c] \in {"commit", "rollback"}
  /\ ~ Known(tx[c])
  /\ Return(c, "error")
  /\ UNCHANGED txs

Run(c) == Begin(c) \/ Commit(c) \/ Rollback(c) \/ NotFound(c)

Next == \E c \in Calls : Ask(c) \/ Cancel(c) \/ Run(c)

Spec == Init /\ [][Next]_vars

-----------------------------------------------------------------------------
\* Every variable has its type.
TypeOK ==
  /\ txs \in Seq([id : Ids, status : Statuses])
  /\ pc \in [Calls -> {"idle", "waiting", "ok", "error", "cancelled"}]
  /\ op \in [Calls -> {"none", "begin", "commit", "rollback"}]
  /\ tx \in [Calls -> Ids]
  /\ knew \in [Calls -> BOOLEAN]

\* "transaction not found" (tx_state.rs:53, 64) is never given for an id whose
\* begin had returned before the call was made, however the calls overlap and
\* whatever was decided in between.
NotFoundIsTrue ==
  \A c \in Calls : pc[c] = "error" => ~ knew[c]

\* Of several entries of one id only the oldest is ever decided: a transaction
\* begun under an id that was used before stays pending for ever, and the
\* decisions meant for it go to the old entry (tx_state.rs:42, 48, 59).
OnlyOldestIsDecided ==
  \A i, j \in DOMAIN txs :
    i < j /\ txs[i].id = txs[j].id => txs[j].status = "Pending"

-----------------------------------------------------------------------------
(* Refinement *)

\* The status that a decision on the id would overwrite.
StatusOf(id) ==
  IF Known(id) THEN txs[CHOOSE i \in DOMAIN txs : IsFirst(i, id)].status
               ELSE "none"

\* A call keeps its operation and its id in the table, and is answered there
\* when it returns or is dropped.
Table == INSTANCE TxTable WITH
  status <- [id \in Ids |-> StatusOf(id)],
  op <- op,
  tx <- tx,
  answer <- [c \in Calls |-> IF pc[c] \in {"ok", "error", "cancelled"}
                             THEN pc[c] ELSE "none"]

\* The list behaves as a table in which the latest decision wins: two callers
\* may both be told Ok for opposite decisions, but what a caller is told Ok for
\* was done, once, to the id it named, with the status its operation stands
\* for, and a dropped call did nothing (tx_state.rs:35-66).
TableSpec == Table!Spec
=============================================================================
