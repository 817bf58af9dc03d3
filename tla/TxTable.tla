------------------------------- MODULE TxTable -------------------------------
(***************************************************************************)
(* What the transaction controller promises: a table from transaction ids  *)
(* to a status.  A call is an operation on one id.  It takes effect once,  *)
(* on that id and no other, at an instant between its making and its       *)
(* answer, or is withdrawn and has none.  Beginning a transaction that     *)
(* exists changes nothing; deciding an unknown one is an error; otherwise  *)
(* the decision becomes the status, whatever was decided before.           *)
(***************************************************************************)
CONSTANTS Calls, Ids

VARIABLES
  status,  \* "none", "Pending", "Committed" or "RolledBack" for each id
  op,      \* what each call asks for, "none" until it is made
  tx,      \* the id each call is about
  answer   \* "none" until the call is "ok", "error" or "cancelled"

vars == <<status, op, tx, answer>>

Init ==
  /\ status = [id \in Ids |-> "none"]
  /\ op = [c \in Calls |-> "none"]
  /\ tx \in [Calls -> Ids]
  /\ answer = [c \in Calls |-> "none"]

Ask(c) ==
  /\ op[c] = "none"
  /\ \E o \in {"begin", "commit", "rollback"} : op' = [op EXCEPT ![c] = o]
  /\ UNCHANGED <<status, tx, answer>>

Answer(c, a) ==
  /\ op[c] # "none"
  /\ answer[c] = "none"
  /\ answer' = [answer EXCEPT ![c] = a]
  /\ UNCHANGED <<op, tx>>

Begin(c) ==
  /\ op[c] = "begin"
  /\ Answer(c, "ok")
  /\ status' = IF status[tx[c]] = "none"
               THEN [status EXCEPT ![tx[c]] = "Pending"]
               ELSE status

Decide(c, decision, s) ==
  /\ op[c] = decision
  /\ Answer(c, "ok")
  /\ status[tx[c]] # "none"
  /\ status' = [status EXCEPT ![tx[c]] = s]

NotFound(c) ==
  /\ op[c] \in {"commit", "rollback"}
  /\ Answer(c, "error")
  /\ status[tx[c]] = "none"
  /\ UNCHANGED status

Withdraw(c) ==
  /\ Answer(c, "cancelled")
  /\ UNCHANGED status

Next ==
  \E c \in Calls :
    \/ Ask(c)
    \/ Begin(c)
    \/ Decide(c, "commit", "Committed")
    \/ Decide(c, "rollback", "RolledBack")
    \/ NotFound(c)
    \/ Withdraw(c)

Spec == Init /\ [][Next]_vars
=============================================================================
