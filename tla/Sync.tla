-------------------------------- MODULE Sync --------------------------------
(***************************************************************************)
(* Edge-cloud sync (src/src/sync): an edge box that takes orders offline   *)
(* and a cloud instance of the same program, which meet through a pub/sub  *)
(* transport.  Orders with their payments and refunds go up, the catalog   *)
(* comes down; each direction remembers how far it came in a watermark     *)
(* over updated_at, and both databases re-stamp updated_at on every UPDATE *)
(* (the touch_updated_at trigger).  The stamp is Postgres' now(), the      *)
(* instant the writing transaction began, and the row is seen when it      *)
(* commits: a write is one step here, its commit, and its stamp any        *)
(* instant the transaction may have begun at.                              *)
(*                                                                         *)
(* Two cycles may overlap: the worker's and the one of "Sync now", each    *)
(* with an orchestrator, and so a busy flag, of its own.                   *)
(***************************************************************************)
EXTENDS OrderLifecycle, Integers, FiniteSets

CONSTANTS
  Orders,        \* order ids; the export breaks ties of updated_at by id
  Placed,        \* those placed before the box first connects
  Rows,          \* catalog rows of the tables that have updated_at
  Cycles,        \* edge sync cycles that may overlap
  Reach,         \* bound: the statuses the edge takes an order through
  CloudAhead,    \* the cloud's clock minus the edge's
  CloudSweeps,   \* whether the cloud's worker sweeps the orders it imported
  MaxBatch,      \* MAX_ORDERS_PER_EXPORT, 1000 in the code
  MaxOpen,       \* bound: the instants a transaction stays open
  MaxChanges,    \* bound: moves of orders and edits of the catalog, together
  MaxCycles,     \* bound: cycles begun
  MaxCrashes     \* bound: crashes of the edge and restarts of the responder

ASSUME OrdersAssumption ==
  /\ Orders \subseteq Nat /\ IsFiniteSet(Orders)
  /\ Placed \subseteq Orders /\ Reach \subseteq Statuses
ASSUME RowsAssumption == IsFiniteSet(Rows)
ASSUME ClockAssumption == CloudAhead \in Int
ASSUME BoundsAssumption ==
  /\ MaxBatch \in Nat \ {0} /\ MaxOpen \in Nat /\ MaxChanges \in Nat
  /\ MaxCycles \in Nat /\ MaxCrashes \in Nat /\ CloudSweeps \in BOOLEAN

VARIABLES
  now,        \* the edge's clock
  edge,       \* "order" on the edge: status and updated_at
  refund,     \* orders with a refund row on the edge
  cursor,     \* sync_watermark (orders, export): updated_at and row id
  cycle,      \* what each sync cycle is doing
  requests,   \* watermarks of the sync-requests under way
  received,   \* chunks on their way, in the BatchAssembler or being imported
  cloud,      \* "order" on the cloud
  cloudPay,   \* payment.status on the cloud
  cloudRefund,\* refund rows on the cloud: imported ones and its own
  catalog,    \* a catalog row on the cloud: its version and updated_at
  menu,       \* the row on the edge: the cloud version it holds, its updated_at
  since,      \* sync_watermark (catalog, import)
  acked,      \* history: the versions of orders that were published in full
  selected,   \* history: the instant of the latest select of orders
  straggling, \* history: the versions whose transaction was open across a select
  crossed,    \* history: orders whose transactions on the cloud overtook each other
  changes, begun, crashes

edgeVars == <<edge, refund, acked>>
historyVars == <<selected, straggling, crossed>>
cloudVars == <<cloud, cloudPay, cloudRefund>>
menuVars == <<menu, since>>
vars == <<now, edge, refund, cursor, cycle, requests, received, cloud, cloudPay,
          cloudRefund, catalog, menu, since, acked, selected, straggling, crossed,
          changes, begun, crashes>>

-----------------------------------------------------------------------------
OnCloud(instant) == instant + CloudAhead

(* When a transaction that commits now may have begun.                     *)
Began == {t \in 0..now : now - t <= MaxOpen}

Never == -1          \* a watermark that was never set: null
Start == [at |-> Never, id |-> -1]
Absent == [status |-> "none", at |-> Never]

(* A batch: the order rows and the payment and refund rows read after them.*)
NoBatch == [rows |-> [o \in {} |-> Absent], paid |-> {}, refunds |-> {}]
Idle == [pc |-> "idle", id |-> 0, batch |-> NoBatch, part |-> 0, inbox |-> {}]

(* chunkRows packs table by table: here the order rows are one chunk, the  *)
(* rows that refer to them the other.                                      *)
Parts == {1, 2}

(* The payment row follows the order: it is created with it, and holds     *)
(* money from PAYMENT_CONFIRMED on.                                        *)
Waiting(o) == edge[o].status = "PAYMENT_PENDING"

Init ==
  /\ now = MaxOpen
  /\ \E s \in {"PAYMENT_PENDING", "DISPATCHED"} :
       edge = [o \in Orders |-> IF o \in Placed THEN [status |-> s, at |-> now] ELSE Absent]
  /\ refund = {}
  /\ cursor = Start /\ since = 0
  /\ cycle = [c \in Cycles |-> Idle]
  /\ requests = {} /\ received = {}
  /\ cloud = [o \in Orders |-> Absent]
  /\ cloudPay = [o \in Orders |-> "none"]
  /\ cloudRefund = [o \in Orders |-> {}]
  /\ catalog = [r \in Rows |-> [version |-> 0, at |-> 0]]
  /\ menu = catalog
  /\ selected = Never /\ straggling = {} /\ crossed = {}
  /\ acked = {} /\ changes = 0 /\ begun = 0 /\ crashes = 0

-----------------------------------------------------------------------------
(* The edge takes and moves orders.                                        *)

Step(o, s) ==
  IF edge[o].status = "none" THEN s = "PAYMENT_PENDING"
  ELSE CanTransition(edge[o].status, s)

(* A transition commits, with its touch of updated_at.  Its transaction    *)
(* waited for the order's lock: others may have selected or moved orders   *)
(* since it began.  The refund engine's initiate writes the refund row     *)
(* with the transition to REFUND_PENDING.                                  *)
EdgeMove(o, s, at) ==
  /\ changes < MaxChanges
  /\ s \in Reach /\ Step(o, s)
  /\ \/ at \in Began /\ now' = now
     \/ at = now + 1 /\ now' = at
  /\ edge' = [edge EXCEPT ![o] = [status |-> s, at |-> at]]
  /\ refund' = IF s = "REFUND_PENDING" THEN refund \cup {o} ELSE refund
  /\ straggling' = IF at <= selected THEN straggling \cup {<<o, edge'[o]>>} ELSE straggling
  /\ changes' = changes + 1
  /\ UNCHANGED <<acked, selected, crossed, cursor, cycle, requests, received, cloudVars,
                 catalog, menuVars, begun, crashes>>

-----------------------------------------------------------------------------
(* One edge cycle.                                                         *)

Then(c, state) == cycle' = [cycle EXCEPT ![c] = state]
At(c, pc) == cycle[c].pc = pc

(* Mutant: the cursor is an instant alone.                                 *)
Beyond_InstantOnly(o, from) == edge[o].status # "none" /\ edge[o].at > from.at

Beyond(o, from) ==
  /\ edge[o].status # "none"
  /\ \/ edge[o].at > from.at
     \/ edge[o].at = from.at /\ o > from.id

Precedes(o, p) ==
  edge[o].at < edge[p].at \/ (edge[o].at = edge[p].at /\ o <= p)

(* runEdgeCycleIfIdle found the transport reachable; exportOrders reads    *)
(* its cursor and the first MaxBatch orders beyond it.  (Only another      *)
(* cycle moves the cursor between the two, and an older one sends more.)   *)
SelectOrders(c) ==
  LET fresh == {o \in Orders : Beyond(o, cursor)}
      chosen == {o \in fresh : Cardinality({p \in fresh : Precedes(p, o)}) <= MaxBatch}
  IN /\ At(c, "idle") /\ begun < MaxCycles
     /\ begun' = begun + 1
     /\ Then(c, IF chosen = {} THEN [Idle EXCEPT !.pc = "ask"]
                ELSE [Idle EXCEPT !.pc = "details", !.id = begun',
                        !.batch = [rows |-> [o \in chosen |-> edge[o]],
                                   paid |-> {}, refunds |-> {}]])
     /\ selected' = now
     /\ UNCHANGED <<now, edgeVars, straggling, crossed, cursor, requests, received,
                    cloudVars, catalog, menuVars, changes, crashes>>

(* The payment and refund rows of those orders, in statements of their own.*)
SelectDetails(c) ==
  LET batch == cycle[c].batch
      of == DOMAIN batch.rows
  IN /\ At(c, "details")
     /\ Then(c, [cycle[c] EXCEPT !.pc = "publish", !.part = 1,
                   !.batch = [batch EXCEPT !.paid = {o \in of : ~Waiting(o)},
                                           !.refunds = of \cap refund]])
     /\ UNCHANGED <<now, edgeVars, historyVars, cursor, requests, received, cloudVars, catalog,
                    menuVars, changes, begun, crashes>>

Envelope(c) ==
  [id |-> cycle[c].id, part |-> cycle[c].part, batch |-> cycle[c].batch, at |-> now]

Versions(batch) == {<<o, batch.rows[o]>> : o \in DOMAIN batch.rows}

(* publish resolves when the transport has acknowledged the chunk.  The    *)
(* responder is always attached, and how long a chunk travels is part of   *)
(* how long the import of its batch takes: it enters the assembler here.   *)
PublishChunk(c) ==
  /\ At(c, "publish")
  /\ received' = received \cup {Envelope(c)}
  /\ IF cycle[c].part = Cardinality(Parts)
     THEN /\ Then(c, [cycle[c] EXCEPT !.pc = "save"])
          /\ acked' = acked \cup Versions(cycle[c].batch)
     ELSE /\ Then(c, [cycle[c] EXCEPT !.part = @ + 1])
          /\ UNCHANGED acked
  /\ UNCHANGED <<now, edge, refund, historyVars, cursor, requests, cloudVars, catalog, menuVars,
                 changes, begun, crashes>>

LastRow(batch) ==
  LET last == CHOOSE o \in DOMAIN batch.rows :
                \A p \in DOMAIN batch.rows :
                  \/ batch.rows[p].at < batch.rows[o].at
                  \/ batch.rows[p].at = batch.rows[o].at /\ p <= o
  IN [at |-> batch.rows[last].at, id |-> last]

(* The export watermark: written over whatever is there.                   *)
SaveCursor(c) ==
  /\ At(c, "save")
  /\ cursor' = LastRow(cycle[c].batch)
  /\ Then(c, [Idle EXCEPT !.pc = "ask"])
  /\ UNCHANGED <<now, edgeVars, historyVars, requests, received, cloudVars, catalog, menuVars,
                 changes, begun, crashes>>

(* The catalog watermark is read, the down channel subscribed, the request *)
(* published.                                                              *)
Request(c) ==
  /\ At(c, "ask")
  /\ requests' = requests \cup {since}
  /\ Then(c, [cycle[c] EXCEPT !.pc = "wait"])
  /\ UNCHANGED <<now, edgeVars, historyVars, cursor, received, cloudVars, catalog, menuVars,
                 changes, begun, crashes>>

Subscribed(c) == At(c, "wait")

Newer(r, answer) == r \in DOMAIN answer.rows /\ answer.rows[r].at > menu[r].at

(* A catalog batch, complete in this cycle's assembler, is applied in one  *)
(* transaction: last write wins against the edge's own updated_at, which   *)
(* the trigger re-stamps; the watermark takes the cloud's stamps.  The     *)
(* import that settles last ends the cycle.                                *)
ImportCatalog(c, answer, began) ==
  /\ At(c, "wait") /\ answer \in cycle[c].inbox
  /\ began \in Began /\ answer.at <= began
  /\ LET latest == {answer.rows[r].at : r \in DOMAIN answer.rows}
     IN /\ menu' = [r \in Rows |-> IF Newer(r, answer)
                                   THEN [version |-> answer.rows[r].version, at |-> began]
                                   ELSE menu[r]]
        /\ since' = IF latest = {} THEN since
                    ELSE CHOOSE t \in latest : \A u \in latest : u <= t
  /\ Then(c, IF cycle[c].inbox = {answer} THEN Idle
             ELSE [cycle[c] EXCEPT !.inbox = @ \ {answer}])
  /\ UNCHANGED <<now, edgeVars, historyVars, cursor, requests, received, cloudVars,
                 catalog, changes, begun, crashes>>

(* The wait of downWaitMs is over.                                         *)
EndCycle(c) ==
  /\ At(c, "wait")
  /\ Then(c, Idle)
  /\ UNCHANGED <<now, edgeVars, historyVars, cursor, requests, received, cloudVars, catalog,
                 menuVars, changes, begun, crashes>>

(* The edge process dies, or a publish throws: the cycle is over.          *)
Crash(c) ==
  /\ crashes < MaxCrashes /\ ~At(c, "idle")
  /\ crashes' = crashes + 1
  /\ Then(c, Idle)
  /\ UNCHANGED <<now, edgeVars, historyVars, cursor, requests, received, cloudVars, catalog,
                 menuVars, changes, begun>>

-----------------------------------------------------------------------------
(* The cloud: an editor of the catalog, the responder of its worker, and   *)
(* that worker's own sweeps, which do not ask where an order came from.    *)

CatalogEdit(r, at) ==
  /\ changes < MaxChanges
  /\ \/ at \in Began /\ now' = now
     \/ at = now + 1 /\ now' = at
  /\ catalog' = [catalog EXCEPT ![r] = [version |-> @.version + 1, at |-> OnCloud(at)]]
  /\ changes' = changes + 1
  /\ UNCHANGED <<edgeVars, historyVars, cursor, cycle, requests, received, cloudVars,
                 menuVars, begun, crashes>>

(* exportCatalogSince: the rows changed since the request's watermark, to  *)
(* whoever is subscribed when the answer is published.                     *)
AnswerRequest(from) ==
  LET changed == {r \in Rows : catalog[r].at > from}
      answer == [rows |-> [r \in changed |-> catalog[r]], at |-> now]
  IN /\ from \in requests
     /\ requests' = requests \ {from}
     /\ cycle' = [c \in Cycles |-> IF Subscribed(c)
                                   THEN [cycle[c] EXCEPT !.inbox = @ \cup {answer}]
                                   ELSE cycle[c]]
     /\ UNCHANGED <<now, edgeVars, historyVars, cursor, received, cloudVars, catalog, menuVars,
                    changes, begun, crashes>>

(* Mutant: the upsert has no guard on updated_at.                          *)
Overwrites_Always(o, batch) == o \in DOMAIN batch.rows /\ cloud[o].status # "none"

(* The order rows an import overwrites: last write wins.                   *)
Overwrites(o, batch) ==
  o \in DOMAIN batch.rows /\ cloud[o].status # "none" /\ batch.rows[o].at > cloud[o].at

(* The trigger order_confirmation_requires_payment, on the cloud's rows.   *)
Refused(batch) ==
  \E o \in Orders :
    /\ Overwrites(o, batch)
    /\ batch.rows[o].status = "PAYMENT_CONFIRMED"
    /\ cloud[o].status # "PAYMENT_CONFIRMED"
    /\ cloudPay[o] # "CAPTURED"

Imported(o, batch, began) ==
  IF Overwrites(o, batch) THEN [status |-> batch.rows[o].status, at |-> OnCloud(began)]
  ELSE IF o \in DOMAIN batch.rows /\ cloud[o].status = "none" THEN batch.rows[o]
  ELSE cloud[o]

(* importOrdersBatch, one transaction for the batch: orders are upserted,  *)
(* payments and refunds inserted once and never updated.  A refused batch  *)
(* is logged and gone.  The transaction begins when the batch is complete. *)
ImportOrders(first, began) ==
  LET batch == first.batch
      whole == {m \in received : m.id = first.id}
  IN /\ first \in received /\ first.part = 1
     /\ Cardinality(whole) = Cardinality(Parts)
     /\ began \in Began /\ \A m \in whole : m.at <= began
     /\ received' = received \ whole
     /\ IF Refused(batch) THEN UNCHANGED cloudVars
        ELSE /\ cloud' = [o \in Orders |-> Imported(o, batch, began)]
             /\ cloudPay' = [o \in Orders |->
                  IF o \in DOMAIN batch.rows /\ cloudPay[o] = "none"
                  THEN IF o \in batch.paid THEN "CAPTURED" ELSE "INITIATED"
                  ELSE cloudPay[o]]
             /\ cloudRefund' = [o \in Orders |->
                  IF o \in batch.refunds THEN cloudRefund[o] \cup {"edge"}
                  ELSE cloudRefund[o]]
     /\ UNCHANGED <<now, edgeVars, historyVars, cursor, cycle, requests, catalog, menuVars, changes,
                    begun, crashes>>

(* One of its sweeps moves an order.  Its transaction may have begun       *)
(* before the one that wrote the row it finds.                             *)
CloudMoves(o, s, began) ==
  /\ CloudSweeps /\ began \in Began
  /\ cloud' = [cloud EXCEPT ![o] = [status |-> s, at |-> OnCloud(began)]]
  /\ crossed' = IF OnCloud(began) < cloud[o].at THEN crossed \cup {o} ELSE crossed
  /\ UNCHANGED <<now, edgeVars, selected, straggling, cursor, cycle, requests, received,
                 catalog, menuVars, changes, begun, crashes>>

(* The cloud's dispatch sweep.                                             *)
CloudDispatches(o, began) ==
  /\ cloud[o].status = "PAYMENT_CONFIRMED"
  /\ CloudMoves(o, "DISPATCHED", began)
  /\ UNCHANGED <<cloudPay, cloudRefund>>

(* The cloud's expiry sweep.                                               *)
CloudExpires(o, began) ==
  /\ cloud[o].status = "PAYMENT_PENDING" /\ cloudPay[o] = "INITIATED"
  /\ CloudMoves(o, "PAYMENT_EXPIRED", began)
  /\ cloudPay' = [cloudPay EXCEPT ![o] = "EXPIRED"]
  /\ UNCHANGED cloudRefund

(* The cloud's refund sweep: money held, none on its way back.             *)
CloudRefunds(o, began) ==
  /\ cloud[o].status = "REJECTED" /\ cloudPay[o] = "CAPTURED" /\ cloudRefund[o] = {}
  /\ CloudMoves(o, "REFUND_PENDING", began)
  /\ cloudRefund' = [cloudRefund EXCEPT ![o] = {"own"}]
  /\ UNCHANGED cloudPay

(* The responder restarts: its buffers, the imports under way and what was *)
(* published while it was away are gone.                                   *)
Restart ==
  /\ crashes < MaxCrashes
  /\ requests # {} \/ received # {}
  /\ requests' = {} /\ received' = {}
  /\ crashes' = crashes + 1
  /\ UNCHANGED <<now, edgeVars, historyVars, cursor, cycle, cloudVars, catalog, menuVars,
                 changes, begun>>

-----------------------------------------------------------------------------
Next ==
  \/ \E o \in Orders, s \in Reach, at \in 0..now + 1 : EdgeMove(o, s, at)
  \/ \E c \in Cycles :
       \/ SelectOrders(c) \/ SelectDetails(c) \/ PublishChunk(c)
       \/ SaveCursor(c) \/ Request(c) \/ EndCycle(c) \/ Crash(c)
       \/ \E answer \in cycle[c].inbox, t \in Began : ImportCatalog(c, answer, t)
  \/ \E r \in Rows, at \in 0..now + 1 : CatalogEdit(r, at)
  \/ \E from \in requests : AnswerRequest(from)
  \/ \E m \in received, t \in Began : ImportOrders(m, t)
  \/ \E o \in Orders, t \in Began :
       CloudDispatches(o, t) \/ CloudExpires(o, t) \/ CloudRefunds(o, t)
  \/ Restart

Spec == Init /\ [][Next]_vars

-----------------------------------------------------------------------------
(* Properties.                                                             *)

(* The export watermark (export-orders.ts:108) never passes a version of   *)
(* an order that was not published in full: a cycle that dies between two  *)
(* chunks, overlaps another one or stops at the limit loses nothing on the *)
(* edge's side.  The exception is the straggler: a version that committed  *)
(* after a select which its stamp does not follow, because its transaction *)
(* was open across the select or began in the select's millisecond.  The   *)
(* cursor may have passed it at birth.                                     *)
NothingLeftBehind ==
  \A o \in Orders :
    (/\ edge[o].status # "none"
     /\ \/ edge[o].at < cursor.at
        \/ edge[o].at = cursor.at /\ o <= cursor.id)
      => <<o, edge[o]>> \in acked \cup straggling

(* The statuses an order may still come to: those in every set that holds  *)
(* the present one and is closed under the table of moves.                 *)
Closed == {S \in SUBSET Statuses : \A s \in S : Allowed[s] \subseteq S}

Onward == [s \in Statuses |-> {t \in Statuses : \A S \in Closed : s \in S => t \in S}]

Behind(s, t) == t \in Onward[s] /\ s \notin Onward[t]

(* Orders whose stamps are in the order of their commits.                  *)
Timely(o) == o \notin crossed /\ \A v \in straggling : v[1] # o

NoOrderGoesBack ==
  \A o \in Orders :
    cloud[o].status # "none" /\ Timely(o)' => ~Behind(cloud'[o].status, cloud[o].status)

NoRowGoesBack == \A r \in Rows : menu'[r].version >= menu[r].version

(* Batches are imported concurrently and out of order, and a batch may be  *)
(* exported twice: the guard on updated_at (import-orders.ts:120) must     *)
(* keep the cloud from taking an order back to a status it has left,       *)
(* unless a straggler of the edge or two sweeps of the cloud that overtook *)
(* each other left its stamps out of order.  And every subscribed cycle of *)
(* the edge applies every answer: the same guard (import-catalog.ts:82)    *)
(* must keep a catalogue row from an older version.                        *)
NothingGoesBack == [][NoOrderGoesBack /\ NoRowGoesBack]_vars
=============================================================================
