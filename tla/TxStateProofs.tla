---------------------------- MODULE TxStateProofs ----------------------------
(***************************************************************************)
(* Proofs about TxState, for any number of calls and of transactions.      *)
(***************************************************************************)
EXTENDS TxState, SequenceTheorems, TLAPS

\* Every id in the list has an oldest entry, the others of it are undecided,
\* and an id whose begin returned is in the list.
ListInv ==
  /\ \A id \in Ids : Known(id) => \E i \in DOMAIN txs : IsFirst(i, id)
  /\ OnlyOldestIsDecided
  /\ \A id \in Ids : Begun(id) => Known(id)
  /\ \A c \in Calls : knew[c] => Known(tx[c])
  /\ NotFoundIsTrue

\* A call has its operation from its making on.
AskedFor == \A c \in Calls : op[c] = "none" <=> pc[c] = "idle"

IInv == TypeOK /\ ListInv /\ AskedFor

-----------------------------------------------------------------------------
(* The oldest entry *)

\* There is at most one, so that the CHOOSE in StatusOf finds it.
LEMMA ChosenIsFirst ==
  ASSUME NEW s \in Seq([id : Ids, status : Statuses]), NEW id,
         NEW i \in DOMAIN s, s[i].id = id,
         \A j \in DOMAIN s : s[j].id = id => i <= j
  PROVE  i = CHOOSE k \in DOMAIN s :
               /\ k \in DOMAIN s
               /\ s[k].id = id
               /\ \A j \in DOMAIN s : s[j].id = id => k <= j
<1>1. \A k \in DOMAIN s :
        s[k].id = id /\ (\A j \in DOMAIN s : s[j].id = id => k <= j) => k = i
  OBVIOUS
<1> QED
  BY <1>1

\* An entry has one of the three statuses.
LEMMA EntryStatus ==
  ASSUME TypeOK, NEW i \in DOMAIN txs
  PROVE  txs[i].status \in Statuses
<1>1. txs \in Seq([id : Ids, status : Statuses]) /\ i \in 1 .. Len(txs)
  BY LenProperties DEF TypeOK
<1>2. txs[i] \in [id : Ids, status : Statuses]
  BY <1>1, ElementOfSeq
<1> QED
  BY <1>2

LEMMA StatusOfFirst ==
  ASSUME TypeOK, NEW id \in Ids, NEW i \in DOMAIN txs, IsFirst(i, id)
  PROVE  StatusOf(id) = txs[i].status
<1>1. txs \in Seq([id : Ids, status : Statuses])
  BY DEF TypeOK
<1>2. i = CHOOSE k \in DOMAIN txs : IsFirst(k, id)
  BY <1>1, ChosenIsFirst DEF IsFirst
<1> QED
  BY <1>2 DEF StatusOf, Known, IsFirst

\* The same of the next state.
LEMMA StatusOfFirstNext ==
  ASSUME TypeOK', NEW id \in Ids, NEW i \in DOMAIN txs', IsFirst(i, id)'
  PROVE  StatusOf(id)' = txs'[i].status
<1>1. txs' \in Seq([id : Ids, status : Statuses])
  BY DEF TypeOK
<1>2. i = CHOOSE k \in DOMAIN txs' : IsFirst(k, id)'
  BY <1>1, ChosenIsFirst DEF IsFirst
<1> QED
  BY <1>2 DEF StatusOf, Known, IsFirst

-----------------------------------------------------------------------------
(* The invariant *)

LEMMA InitInv == Init => IInv
BY DEF Init, IInv, TypeOK, ListInv, AskedFor, Known, Begun,
       OnlyOldestIsDecided, NotFoundIsTrue

\* Overwriting the status of an entry keeps everything else of the list.
LEMMA Overwrite ==
  ASSUME NEW l \in Seq([id : Ids, status : Statuses]),
         NEW i \in DOMAIN l, NEW s \in Statuses
  PROVE  LET m == [l EXCEPT ![i].status = s]
         IN  /\ m \in Seq([id : Ids, status : Statuses])
             /\ DOMAIN m = DOMAIN l
             /\ Len(m) = Len(l)
             /\ \A j \in DOMAIN l : m[j].id = l[j].id
             /\ \A j \in DOMAIN l \ {i} : m[j] = l[j]
             /\ m[i].status = s
<1> DEFINE e == [l[i] EXCEPT !.status = s]
           m == [l EXCEPT ![i] = e]
<1>1. l[i] \in [id : Ids, status : Statuses] /\ i \in 1 .. Len(l)
  <2>1. i \in 1 .. Len(l)
    BY LenProperties
  <2> QED
    BY <2>1, ElementOfSeq
<1>2. /\ e \in [id : Ids, status : Statuses]
      /\ e.id = l[i].id
      /\ e.status = s
  BY <1>1
<1>3. /\ m \in Seq([id : Ids, status : Statuses])
      /\ Len(m) = Len(l)
      /\ \A j \in 1 .. Len(l) : m[j] = IF j = i THEN e ELSE l[j]
  <2> HIDE DEF e
  <2> QED
    BY <1>1, <1>2, ExceptSeq
<1>4. DOMAIN m = DOMAIN l /\ DOMAIN l = 1 .. Len(l)
  BY LenProperties
<1> HIDE DEF m
<1>5. /\ \A j \in DOMAIN l : m[j].id = l[j].id
      /\ \A j \in DOMAIN l \ {i} : m[j] = l[j]
      /\ m[i].status = s
  BY <1>1, <1>2, <1>3, <1>4
<1>6. m = [l EXCEPT ![i].status = s]
  BY DEF m
<1> QED
  BY <1>3, <1>4, <1>5, <1>6

LEMMA TypeStep == TypeOK /\ [Next]_vars => TypeOK'
<1> SUFFICES ASSUME TypeOK, [Next]_vars PROVE TypeOK'
  OBVIOUS
<1>1. ASSUME NEW c \in Calls, Ask(c) \/ Cancel(c) \/ NotFound(c)
      PROVE  TypeOK'
  BY <1>1 DEF TypeOK, Ask, Cancel, NotFound, Return, callVars, Begun
<1>2. ASSUME NEW c \in Calls, Begin(c)
      PROVE  TypeOK'
  BY <1>2 DEF TypeOK, Begin, Return, callVars, Statuses
<1>3. ASSUME NEW c \in Calls, NEW o, NEW s \in Statuses, Decide(c, o, s)
      PROVE  TypeOK'
  <2>1. PICK i \in DOMAIN txs : txs' = [txs EXCEPT ![i].status = s]
    BY <1>3 DEF Decide
  <2>2. txs' \in Seq([id : Ids, status : Statuses])
    BY <1>3, <2>1, Overwrite DEF TypeOK
  <2> QED
    BY <1>3, <2>2 DEF TypeOK, Decide, Return, callVars
<1>4. CASE UNCHANGED vars
  BY <1>4 DEF TypeOK, vars, callVars
<1> QED
  BY <1>1, <1>2, <1>3, <1>4
  DEF Next, Run, Commit, Rollback, Statuses

\* What begin does to the list.
LEMMA BeginEffect ==
  ASSUME TypeOK, NEW c \in Calls, Begin(c)
  PROVE  /\ DOMAIN txs' = 1 .. Len(txs) + 1
         /\ DOMAIN txs = 1 .. Len(txs)
         /\ Len(txs) \in Nat
         /\ \A i \in DOMAIN txs : txs'[i] = txs[i]
         /\ txs'[Len(txs) + 1].id = tx[c]
         /\ txs'[Len(txs) + 1].status = "Pending"
<1>1. /\ Len(txs) \in Nat
      /\ DOMAIN txs = 1 .. Len(txs)
      /\ Len(txs') = Len(txs) + 1
      /\ DOMAIN txs' = 1 .. Len(txs')
      /\ \A i \in 1 .. Len(txs) : txs'[i] = txs[i]
      /\ txs'[Len(txs) + 1] = [id |-> tx[c], status |-> "Pending"]
  BY DEF TypeOK, Begin
<1> QED
  BY <1>1

\* What a decision does to the list.
LEMMA DecideEffect ==
  ASSUME TypeOK, NEW c \in Calls, NEW o, NEW s \in Statuses, Decide(c, o, s)
  PROVE  \E i \in DOMAIN txs :
           /\ IsFirst(i, tx[c])
           /\ DOMAIN txs' = DOMAIN txs
           /\ \A j \in DOMAIN txs : txs'[j].id = txs[j].id
           /\ \A j \in DOMAIN txs \ {i} : txs'[j] = txs[j]
           /\ txs'[i].status = s
<1>1. PICK i \in DOMAIN txs :
        IsFirst(i, tx[c]) /\ txs' = [txs EXCEPT ![i].status = s]
  BY DEF Decide
<1> QED
  BY <1>1, Overwrite DEF TypeOK

LEMMA ListStep == IInv /\ [Next]_vars => ListInv'
<1> SUFFICES ASSUME IInv, [Next]_vars PROVE ListInv'
  OBVIOUS
<1> TypeOK /\ ListInv /\ TypeOK'
  BY TypeStep DEF IInv
<1>1. CASE UNCHANGED vars
  BY <1>1 DEF vars, callVars, ListInv, Known, IsFirst, OnlyOldestIsDecided,
              Begun, NotFoundIsTrue
<1>2. ASSUME NEW c \in Calls, Ask(c)
      PROVE  ListInv'
  <2>1. \A id \in Ids : Begun(id)' => Begun(id)
    BY <1>2 DEF Ask, Begun, TypeOK
  <2>2. \A d \in Calls : knew'[d] => Known(tx[d])
    BY <1>2 DEF Ask, ListInv, TypeOK
  <2>3. NotFoundIsTrue'
    BY <1>2 DEF Ask, ListInv, NotFoundIsTrue, TypeOK
  <2>4. UNCHANGED <<txs, tx>>
    BY <1>2 DEF Ask
  <2> QED
    BY <2>1, <2>2, <2>3, <2>4
    DEF ListInv, Known, IsFirst, OnlyOldestIsDecided
<1>3. ASSUME NEW c \in Calls, Cancel(c) \/ NotFound(c)
      PROVE  ListInv'
  <2>1. UNCHANGED <<txs, callVars>>
    BY <1>3 DEF Cancel, NotFound, Return
  <2>2. \A id \in Ids : Begun(id)' => Begun(id)
    BY <1>3, <2>1 DEF Cancel, NotFound, Return, Begun, TypeOK, callVars
  <2>3. CASE Cancel(c)
    <3>1. NotFoundIsTrue'
      BY <2>1, <2>3 DEF Cancel, ListInv, NotFoundIsTrue, TypeOK, callVars
    <3> QED
      BY <2>1, <2>2, <3>1
      DEF ListInv, Known, IsFirst, OnlyOldestIsDecided, callVars
  <2>4. CASE NotFound(c)
    <3>1. ~ knew[c]
      BY <2>4 DEF NotFound, ListInv
    <3>2. NotFoundIsTrue'
      BY <2>1, <2>4, <3>1
      DEF NotFound, Return, ListInv, NotFoundIsTrue, TypeOK, callVars
    <3> QED
      BY <2>1, <2>2, <3>2
      DEF ListInv, Known, IsFirst, OnlyOldestIsDecided, callVars
  <2> QED
    BY <1>3, <2>3, <2>4
<1>4. ASSUME NEW c \in Calls, Begin(c)
      PROVE  ListInv'
  <2>2. PICK n \in Nat : n = Len(txs) + 1
    BY DEF TypeOK
  <2>1. /\ DOMAIN txs' = 1 .. n
        /\ DOMAIN txs = 1 .. Len(txs)
        /\ Len(txs) \in Nat
        /\ \A i \in DOMAIN txs : txs'[i] = txs[i]
        /\ txs'[n].id = tx[c]
        /\ txs'[n].status = "Pending"
    BY <1>4, <2>2, BeginEffect
  <2>3. ASSUME NEW id \in Ids, Known(id)'
        PROVE  \E i \in DOMAIN txs' : IsFirst(i, id)'
    <3>1. CASE Known(id)
      <4>1. PICK i \in DOMAIN txs : IsFirst(i, id)
        BY <3>1 DEF ListInv
      <4>2. i \in DOMAIN txs' /\ IsFirst(i, id)'
        BY <2>1, <2>2, <4>1 DEF IsFirst
      <4> QED
        BY <4>2
    <3>2. CASE ~ Known(id)
      <4>1. n \in DOMAIN txs' /\ IsFirst(n, id)'
        BY <2>1, <2>2, <2>3, <3>2 DEF Known, IsFirst
      <4> QED
        BY <4>1
    <3> QED
      BY <3>1, <3>2
  <2>4. OnlyOldestIsDecided'
    <3> SUFFICES ASSUME NEW i \in DOMAIN txs', NEW j \in DOMAIN txs',
                        i < j, txs'[i].id = txs'[j].id
                 PROVE  txs'[j].status = "Pending"
      BY DEF OnlyOldestIsDecided
    <3>1. CASE j = n
      BY <2>1, <3>1
    <3>2. CASE j # n
      BY <2>1, <2>2, <3>2 DEF ListInv, OnlyOldestIsDecided
    <3> QED
      BY <3>1, <3>2
  <2>5. \A id \in Ids : Known(id) => Known(id)'
    BY <2>1, <2>2 DEF Known
  <2>6. Known(tx[c])'
    BY <1>4, <2>1, <2>2 DEF Known, Begin, Return, callVars
  <2>7. \A id \in Ids : Begun(id)' => Known(id)'
    BY <1>4, <2>5, <2>6
    DEF Begin, Return, callVars, ListInv, Begun, TypeOK
  <2>8. \A d \in Calls : knew'[d] => Known(tx[d])'
    BY <1>4, <2>5 DEF Begin, Return, callVars, ListInv, TypeOK, Known
  <2>9. NotFoundIsTrue'
    BY <1>4 DEF Begin, Return, callVars, ListInv, NotFoundIsTrue, TypeOK
  <2> QED
    BY <1>4, <2>3, <2>4, <2>7, <2>8, <2>9
    DEF ListInv, Begin, Return, callVars, Known
<1>5. ASSUME NEW c \in Calls, NEW o \in {"commit", "rollback"},
             NEW s \in Statuses, Decide(c, o, s)
      PROVE  ListInv'
  <2>1. PICK i \in DOMAIN txs :
          /\ IsFirst(i, tx[c])
          /\ DOMAIN txs' = DOMAIN txs
          /\ \A j \in DOMAIN txs : txs'[j].id = txs[j].id
          /\ \A j \in DOMAIN txs \ {i} : txs'[j] = txs[j]
    BY <1>5, DecideEffect
  <2>2. \A id : Known(id)' <=> Known(id)
    BY <2>1 DEF Known
  <2>3. \A id, k : IsFirst(k, id)' <=> IsFirst(k, id)
    BY <2>1 DEF IsFirst
  <2>4. OnlyOldestIsDecided'
    BY <2>1 DEF ListInv, OnlyOldestIsDecided, IsFirst, TypeOK
  <2>5. \A id \in Ids : Begun(id)' => Begun(id)
    BY <1>5 DEF Decide, Return, callVars, Begun, TypeOK
  <2>6. NotFoundIsTrue'
    BY <1>5 DEF Decide, Return, callVars, ListInv, NotFoundIsTrue, TypeOK
  <2>7. UNCHANGED callVars
    BY <1>5 DEF Decide, Return
  <2> QED
    BY <2>1, <2>2, <2>3, <2>4, <2>5, <2>6, <2>7 DEF ListInv, callVars, Known
<1> QED
  BY <1>1, <1>2, <1>3, <1>4, <1>5
  DEF Next, Run, Commit, Rollback, Statuses

LEMMA AskedStep == TypeOK /\ AskedFor /\ [Next]_vars => AskedFor'
BY DEF TypeOK, AskedFor, Next, vars, callVars, Ask, Cancel, Run, Begin, Commit,
       Rollback, Decide, NotFound, Return

LEMMA Invariance == Spec => []IInv
<1>1. IInv /\ [Next]_vars => IInv'
  BY TypeStep, ListStep, AskedStep DEF IInv
<1> QED
  BY <1>1, InitInv, PTL DEF Spec

\* Every reachable state is well typed.
THEOREM TypeCorrect == Spec => []TypeOK
<1>1. IInv => TypeOK
  BY DEF IInv
<1> QED
  BY <1>1, Invariance, PTL

\* "transaction not found" is never told to a caller that came after the begin
\* of the transaction had returned.
THEOREM NotFoundIsAlwaysTrue == Spec => []NotFoundIsTrue
<1>1. IInv => NotFoundIsTrue
  BY DEF IInv, ListInv
<1> QED
  BY <1>1, Invariance, PTL

\* A transaction begun under a used id is never decided.
THEOREM ReusedIdsStayPending == Spec => []OnlyOldestIsDecided
<1>1. IInv => OnlyOldestIsDecided
  BY DEF IInv, ListInv
<1> QED
  BY <1>1, Invariance, PTL

-----------------------------------------------------------------------------
(* The list implements the table *)

tableStatus == [id \in Ids |-> StatusOf(id)]

tableAnswer ==
  [c \in Calls |-> IF pc[c] \in {"ok", "error", "cancelled"} THEN pc[c]
                                                          ELSE "none"]

\* A returning call is answered in the table at the same step.
LEMMA ReturnAnswers ==
  ASSUME TypeOK, NEW c \in Calls, NEW a \in {"ok", "error"}, Return(c, a)
  PROVE  /\ tableAnswer[c] = "none"
         /\ tableAnswer' = [tableAnswer EXCEPT ![c] = a]
         /\ UNCHANGED <<op, tx>>
BY DEF TypeOK, Return, tableAnswer, callVars

\* begin makes an unknown id pending and leaves every other id as it is.
LEMMA BeginStatus ==
  ASSUME IInv, TypeOK', NEW c \in Calls, Begin(c)
  PROVE  tableStatus' = IF tableStatus[tx[c]] = "none"
                        THEN [tableStatus EXCEPT ![tx[c]] = "Pending"]
                        ELSE tableStatus
<1> TypeOK /\ ListInv
  BY DEF IInv
<1>1. PICK n \in Nat : n = Len(txs) + 1
  BY DEF TypeOK
<1>2. /\ DOMAIN txs' = 1 .. n
      /\ DOMAIN txs = 1 .. Len(txs)
      /\ Len(txs) \in Nat
      /\ \A i \in DOMAIN txs : txs'[i] = txs[i]
      /\ txs'[n].id = tx[c]
      /\ txs'[n].status = "Pending"
  BY <1>1, BeginEffect
<1>3. tx[c] \in Ids
  BY DEF TypeOK
<1>4. ASSUME NEW id \in Ids, Known(id)
      PROVE  StatusOf(id)' = StatusOf(id) /\ StatusOf(id) # "none"
  <2>1. PICK i \in DOMAIN txs : IsFirst(i, id)
    BY <1>4 DEF ListInv
  <2>2. i \in DOMAIN txs' /\ IsFirst(i, id)'
    BY <1>1, <1>2, <2>1 DEF IsFirst
  <2>3. StatusOf(id)' = txs'[i].status /\ StatusOf(id) = txs[i].status
    BY <2>1, <2>2, StatusOfFirst, StatusOfFirstNext
  <2>4. txs[i].status \in Statuses
    BY EntryStatus
  <2> QED
    BY <1>2, <2>3, <2>4 DEF Statuses
<1>5. ASSUME NEW id \in Ids, ~ Known(id), id # tx[c]
      PROVE  StatusOf(id)' = StatusOf(id)
  <2>1. ~ Known(id)'
    BY <1>1, <1>2, <1>5 DEF Known
  <2> QED
    BY <1>5, <2>1 DEF StatusOf
<1>6. ASSUME ~ Known(tx[c])
      PROVE  StatusOf(tx[c]) = "none" /\ tableStatus'[tx[c]] = "Pending"
  <2>1. PICK id \in Ids : id = tx[c]
    BY <1>3
  <2>2. n \in DOMAIN txs' /\ IsFirst(n, id)'
    BY <1>1, <1>2, <1>6, <2>1 DEF Known, IsFirst
  <2>3. StatusOf(id)' = "Pending"
    BY <1>2, <2>2, StatusOfFirstNext
  <2> QED
    BY <1>6, <2>1, <2>3 DEF StatusOf, tableStatus
<1> QED
  BY <1>3, <1>4, <1>5, <1>6 DEF tableStatus

\* A decision overwrites the status of its own id and of no other.
LEMMA DecideStatus ==
  ASSUME IInv, TypeOK', NEW c \in Calls, NEW o, NEW s \in Statuses,
         Decide(c, o, s)
  PROVE  /\ tableStatus[tx[c]] # "none"
         /\ tableStatus' = [tableStatus EXCEPT ![tx[c]] = s]
<1> TypeOK /\ ListInv
  BY DEF IInv
<1>1. PICK i \in DOMAIN txs :
        /\ IsFirst(i, tx[c])
        /\ DOMAIN txs' = DOMAIN txs
        /\ \A j \in DOMAIN txs : txs'[j].id = txs[j].id
        /\ \A j \in DOMAIN txs \ {i} : txs'[j] = txs[j]
        /\ txs'[i].status = s
  BY DecideEffect
<1>2. \A id : Known(id)' <=> Known(id)
  BY <1>1 DEF Known
<1>3. \A id, k : IsFirst(k, id)' <=> IsFirst(k, id)
  BY <1>1 DEF IsFirst
<1>4. PICK me \in Ids : me = tx[c]
  BY DEF TypeOK
<1>5. StatusOf(me) = txs[i].status /\ StatusOf(me)' = s
  <2>1. IsFirst(i, me) /\ IsFirst(i, me)' /\ i \in DOMAIN txs'
    BY <1>1, <1>3, <1>4
  <2> QED
    BY <1>1, <2>1, StatusOfFirst, StatusOfFirstNext
<1>6. txs[i].status \in Statuses
  BY EntryStatus
<1>7. ASSUME NEW id \in Ids, id # me
      PROVE  StatusOf(id)' = StatusOf(id)
  <2>1. CASE Known(id)
    <3>1. PICK k \in DOMAIN txs : IsFirst(k, id)
      BY <2>1 DEF ListInv
    <3>2. k # i
      BY <1>1, <1>4, <1>7, <3>1 DEF IsFirst
    <3>3. IsFirst(k, id)' /\ k \in DOMAIN txs'
      BY <1>1, <1>3, <3>1
    <3> QED
      BY <1>1, <3>1, <3>2, <3>3, StatusOfFirst, StatusOfFirstNext
  <2>2. CASE ~ Known(id)
    BY <1>2, <2>2 DEF StatusOf
  <2> QED
    BY <2>1, <2>2
<1> QED
  BY <1>4, <1>5, <1>6, <1>7 DEF tableStatus, Statuses

\* Every step of the list is the step of the same call in the table.
LEMMA TableStep ==
  IInv /\ IInv' /\ [Next]_vars => [Table!Next]_(Table!vars)
<1> SUFFICES ASSUME IInv, IInv', [Next]_vars
             PROVE  [Table!Next]_(Table!vars)
  OBVIOUS
<1> TypeOK /\ ListInv /\ AskedFor /\ TypeOK'
  BY DEF IInv
<1> USE DEF tableStatus, tableAnswer
<1>0. UNCHANGED txs => UNCHANGED tableStatus
  BY DEF StatusOf, Known, IsFirst
<1>1. CASE UNCHANGED vars
  BY <1>0, <1>1 DEF vars, callVars, Table!vars
<1>2. ASSUME NEW c \in Calls, Ask(c)
      PROVE  Table!Ask(c)
  <2>1. op[c] = "none"
    BY <1>2 DEF Ask, AskedFor
  <2>2. UNCHANGED tableAnswer /\ UNCHANGED tx
    BY <1>2 DEF Ask, TypeOK
  <2>3. UNCHANGED tableStatus
    BY <1>0, <1>2 DEF Ask
  <2> QED
    BY <1>2, <2>1, <2>2, <2>3 DEF Ask, Table!Ask
<1>3. ASSUME NEW c \in Calls, Begin(c)
      PROVE  Table!Begin(c)
  BY <1>3, BeginStatus, ReturnAnswers DEF Begin, Table!Begin, Table!Answer
<1>4. ASSUME NEW c \in Calls, NEW o \in {"commit", "rollback"},
             NEW s \in {"Committed", "RolledBack"}, Decide(c, o, s)
      PROVE  Table!Decide(c, o, s)
  <2>1. Return(c, "ok") /\ op[c] = o /\ s \in Statuses
    BY <1>4 DEF Decide, Statuses
  <2> QED
    BY <1>4, <2>1, DecideStatus, ReturnAnswers DEF Table!Decide, Table!Answer
<1>5. ASSUME NEW c \in Calls, NotFound(c)
      PROVE  Table!NotFound(c)
  <2>1. tx[c] \in Ids /\ Return(c, "error") /\ UNCHANGED txs
    BY <1>5 DEF NotFound, TypeOK
  <2>2. UNCHANGED tableStatus /\ tableStatus[tx[c]] = "none"
    BY <1>0, <1>5, <2>1 DEF NotFound, StatusOf
  <2> QED
    BY <1>5, <2>1, <2>2, ReturnAnswers
    DEF NotFound, Table!NotFound, Table!Answer
<1>6. ASSUME NEW c \in Calls, Cancel(c)
      PROVE  Table!Withdraw(c)
  <2>1. op[c] # "none"
    BY <1>6 DEF Cancel, AskedFor
  <2>2. /\ tableAnswer[c] = "none"
        /\ tableAnswer' = [tableAnswer EXCEPT ![c] = "cancelled"]
        /\ UNCHANGED <<op, tx>>
    BY <1>6 DEF Cancel, TypeOK, callVars
  <2>3. UNCHANGED tableStatus
    BY <1>0, <1>6 DEF Cancel
  <2> QED
    BY <2>1, <2>2, <2>3 DEF Table!Withdraw, Table!Answer
<1> QED
  BY <1>1, <1>2, <1>3, <1>4, <1>5, <1>6
  DEF Next, Run, Commit, Rollback, Table!Next

\* However many calls overlap, the controller is indistinguishable from a
\* table on which each call does its own operation to its own id, one at a time:
\* the last decision on an id stands, and none is lost or misdirected
\* (tx_state.rs:35-66).
THEOREM ListImplementsTable == Spec => TableSpec
<1>1. Init => Table!Init
  BY DEF Init, Table!Init, StatusOf, Known
<1> QED
  BY <1>1, TableStep, Invariance, PTL DEF Spec, TableSpec, Table!Spec
=============================================================================
