------------------------------ MODULE LedgerSync ------------------------------
(***************************************************************************)
(* SlidingWindowSyncer of src/src/soroban/sync.rs: each call asks an RPC   *)
(* node for the events of one contract from the ledger of a cursor on, and *)
(* moves the cursor to the ledger of the last event it got.                *)
(*                                                                         *)
(* The cursor is one for all contracts, and sync_events takes the syncer   *)
(* exclusively, so calls do not overlap.  The node is outside the          *)
(* repository: ledgers close one after the other with their events, and a  *)
(* response holds the oldest events that match, PageSize at most.  (The    *)
(* code asks for no size, the node has a default.)                         *)
(***************************************************************************)
EXTENDS Integers, Sequences, FiniteSets, FiniteSetsExt

CONSTANTS
  Contracts,
  PageSize,      \* events in a response of the node
  MaxLedgers,    \* bound on the ledgers that close
  MaxEvents      \* bound on the events of a contract in one ledger

VARIABLES
  ledgers,    \* the number of events of each contract in each closed ledger
  cursor,     \* last_synced_sequence
  delivered,  \* history: events returned to the caller
  synced      \* history: contracts asked for

vars == <<ledgers, cursor, delivered, synced>>

\* Events of a contract: the ledger, and the place in it.
EventsOf(c, s) == {<<c, s, n>> : n \in 1 .. ledgers[s][c]}

Init ==
  /\ ledgers = << >>
  /\ cursor = 0
  /\ delivered = {}
  /\ synced = {}

\* The network closes a ledger.
CloseLedger ==
  /\ Len(ledgers) < MaxLedgers
  /\ \E events \in [Contracts -> 0 .. MaxEvents] :
       ledgers' = Append(ledgers, events)
  /\ UNCHANGED <<cursor, delivered, synced>>

\* The order of events: by ledger, then by place.
NotAfter(d, e) == d[2] < e[2] \/ (d[2] = e[2] /\ d[3] <= e[3])

\* The response of the node: startLedger is inclusive, the oldest come first.
Response(c) ==
  LET matching == UNION {EventsOf(c, s) : s \in {t \in DOMAIN ledgers : t >= cursor}}
  IN  {e \in matching :
         Cardinality({d \in matching : NotAfter(d, e)}) <= PageSize}

\* Mutant of Moved: start after the last ledger seen.
MovedPast(events) ==
  IF events = {} THEN cursor ELSE Max({e[2] : e \in events}) + 1

\* Mutant of Moved: start at the last ledger the node has.
MovedToTip(events) == Len(ledgers)

\* The ledger of the last event, events being in order.
Moved(events) == IF events = {} THEN cursor ELSE Max({e[2] : e \in events})

Sync(c) ==
  /\ cursor' = Moved(Response(c))
  /\ delivered' = delivered \cup Response(c)
  /\ synced' = synced \cup {c}
  /\ UNCHANGED ledgers

\* The request fails, its answer cannot be parsed, or the caller goes away: the
\* cursor stays where it was.
SyncFails(c) ==
  /\ synced' = synced \cup {c}
  /\ UNCHANGED <<ledgers, cursor, delivered>>

Next == CloseLedger \/ \E c \in Contracts : Sync(c) \/ SyncFails(c)

Spec == Init /\ [][Next]_vars

-----------------------------------------------------------------------------
\* Every variable has its type; the cursor is 0 or a closed ledger.
TypeOK ==
  /\ ledgers \in Seq([Contracts -> 0 .. MaxEvents])
  /\ cursor \in 0 .. Len(ledgers)
  /\ delivered \subseteq Contracts \X (1 .. MaxLedgers) \X (1 .. MaxEvents)
  /\ synced \subseteq Contracts

Undelivered(c) == (UNION {EventsOf(c, s) : s \in DOMAIN ledgers}) \ delivered

\* A syncer that serves one contract misses no event of it: none is left behind
\* the cursor, and as long as some are left the next response brings a new one,
\* unless the ledger at the cursor fills a response by itself, when the cursor
\* can never move again (sync.rs:22-60).
OneContractMissesNothing ==
  \A c \in Contracts : synced = {c} =>
    /\ \A e \in Undelivered(c) : e[2] >= cursor
    /\ \/ Undelivered(c) = {}
       \/ Response(c) \cap Undelivered(c) # {}
       \/ cursor > 0 /\ ledgers[cursor][c] >= PageSize

\* Of several contracts that share the cursor, an event is left behind it, never
\* to be asked for again, only when a later event of ANOTHER contract was
\* delivered: neither a page that ended too early, nor a failed call, nor an
\* empty response leaves anything behind.  And an event in front of the cursor
\* is on its way, unless the ledger at the cursor fills a response
\* (sync.rs:37, sync.rs:55-57).
OnlyOthersOvertake ==
  \A c \in Contracts :
    /\ \A e \in Undelivered(c) : e[2] < cursor =>
         \E d \in delivered : d[1] # c /\ e[2] < d[2]
    /\ (\E e \in Undelivered(c) : e[2] >= cursor) =>
         \/ Response(c) \cap Undelivered(c) # {}
         \/ cursor > 0 /\ ledgers[cursor][c] >= PageSize
=============================================================================
