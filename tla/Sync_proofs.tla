---------------------------- MODULE Sync_proofs -----------------------------
(***************************************************************************)
(* Theorems about the edge-cloud sync, for any number of orders, catalogue *)
(* rows, overlapping cycles, crashes, and any size of a batch.             *)
(*                                                                         *)
(* Going up, no cursor is beyond the instant of the latest select.  So an  *)
(* order that moves while a cycle publishes is stamped beyond the place    *)
(* the cursor will take, or it is a straggler, and nothing but a straggler *)
(* is left behind.  And nothing goes back because an UPDATE on the cloud   *)
(* is stamped, by a clock that is not behind the edge's, no earlier than   *)
(* the version it wrote: what is older no longer passes the guard.         *)
(***************************************************************************)
EXTENDS Sync, TLAPS, FiniteSetTheorems, WellFoundedInduction

-----------------------------------------------------------------------------
(* Types.                                                                  *)

Row == [status : Statuses, at : Int]
RowMaps == UNION {[D -> Row] : D \in SUBSET Orders}
Batches == [rows : RowMaps, paid : SUBSET Orders, refunds : SUBSET Orders]
Answers == [rows : UNION {[R -> [version : Int, at : Int]] : R \in SUBSET Rows}, at : Int]
CycleStates ==
  [pc : {"idle", "details", "publish", "save", "ask", "wait"}, id : Int,
   batch : Batches, part : Int, inbox : SUBSET Answers]
OrderRows == [Orders -> [status : Statuses \cup {"none"}, at : Int]]

SyncTypeOK ==
  /\ now \in Nat /\ begun \in Nat /\ changes \in Nat /\ crashes \in Nat
  /\ edge \in OrderRows /\ refund \subseteq Orders
  /\ cursor \in [at : Int, id : Int]
  /\ cycle \in [Cycles -> CycleStates]
  /\ requests \subseteq Int
  /\ received \subseteq [id : Int, part : Int, batch : Batches, at : Int]
  /\ cloud \in OrderRows
  /\ cloudPay \in [Orders -> {"none", "INITIATED", "CAPTURED", "EXPIRED"}]
  /\ cloudRefund \in [Orders -> SUBSET {"edge", "own"}]
  /\ catalog \in [Rows -> [version : Int, at : Int]]
  /\ menu \in [Rows -> [version : Int, at : Int]]
  /\ since \in Int
  /\ acked \subseteq Orders \X Row /\ straggling \subseteq Orders \X Row
  /\ selected \in Int /\ crossed \subseteq Orders

(* The cycle holds a batch whose last row will be the cursor.              *)
Exporting(c) == cycle[c].pc \in {"details", "publish", "save"}

SyncTypeInv ==
  /\ SyncTypeOK
  /\ \A c \in Cycles : Exporting(c) => DOMAIN cycle[c].batch.rows # {}

-----------------------------------------------------------------------------
(* The way up: what a cursor has passed.                                   *)

Passed(o, place) == edge[o].status # "none" /\ ~Beyond(o, place)

(* What this cycle's cursor would pass was published, is a straggler or is *)
(* in its batch, in the version the edge still holds.                      *)
Covers(batch) ==
  \A o \in Orders :
    Passed(o, LastRow(batch)) =>
      \/ <<o, edge[o]>> \in acked \cup straggling
      \/ o \in DOMAIN batch.rows /\ batch.rows[o] = edge[o]

Stamps == \A o \in Orders : edge[o].at <= now

Holding(c) ==
  /\ \A o \in DOMAIN cycle[c].batch.rows : cycle[c].batch.rows[o].at <= selected
  /\ Covers(cycle[c].batch)
  /\ cycle[c].pc = "save" => Versions(cycle[c].batch) \subseteq acked

ExportInv ==
  /\ SyncTypeInv
  /\ Stamps
  /\ selected <= now /\ cursor.at <= selected
  /\ NothingLeftBehind
  /\ \A c \in Cycles :
       Exporting(c) => Holding(c)

-----------------------------------------------------------------------------
(* The versions of an order that are about, and the cloud's place among    *)
(* them.                                                                   *)

Flying == {cycle[c].batch : c \in Cycles} \cup {m.batch : m \in received}

Present(o) == IF edge[o].status = "none" THEN {} ELSE {edge[o]}

Exported(o) == {b.rows[o] : b \in {d \in Flying : o \in DOMAIN d.rows}}

Told(o) == Exported(o) \cup Present(o)

(* Only the first version of an order is waiting for its payment.          *)
Later(s, t) == s \in Onward[t] /\ s # "PAYMENT_PENDING"

(* An expired order of the cloud is one the edge may have seen paid.       *)
Continues(s, t) == t = "PAYMENT_EXPIRED" \/ s \in Onward[t]

Story(o) ==
  /\ \A v \in Told(o) :
       /\ edge[o].status # "none" /\ v.at <= edge[o].at
       /\ edge[o].status \in Onward[v.status]
  /\ \A v, w \in Told(o) :
       v.at < w.at => Later(w.status, v.status)

CloudFollows(o) ==
  cloud[o].status # "none" =>
    /\ edge[o].status # "none"
    /\ Continues(edge[o].status, cloud[o].status)
    /\ \A v \in Told(o) :
         v.at > cloud[o].at =>
           v.status # "PAYMENT_PENDING" /\ Continues(v.status, cloud[o].status)

NeverCreated(o) ==
  /\ edge[o].status # "CREATED"
  /\ \A v \in Told(o) : v.status # "CREATED"

(* What was exported is not later than the latest select, nor is what a    *)
(* chunk carries than its arrival.                                         *)
Past ==
  /\ selected <= now
  /\ \A o \in Orders : \A v \in Exported(o) : v.at <= selected
  /\ \A m \in received :
       m.at <= now /\ \A o \in DOMAIN m.batch.rows : m.batch.rows[o].at <= m.at

ImportInv ==
  /\ SyncTypeInv
  /\ Stamps /\ Past
  /\ \A o \in Orders :
       NeverCreated(o) /\ (Timely(o) => Story(o) /\ CloudFollows(o))

-----------------------------------------------------------------------------
(* The way down.                                                           *)

Pending == UNION {cycle[c].inbox : c \in Cycles}

(* Of two answers, one holds a row in a stamp later than the other's own   *)
(* instant only if it holds no older version of it.                        *)
Agrees(a, b) ==
  \A r \in DOMAIN a.rows \cap DOMAIN b.rows :
    a.rows[r].at > b.at => a.rows[r].version >= b.rows[r].version

CatalogInv ==
  /\ \A r \in Rows : catalog[r].at <= now /\ menu[r].version <= catalog[r].version
  /\ \A a \in Pending :
       /\ a.at <= now
       /\ \A r \in DOMAIN a.rows :
            /\ a.rows[r].at <= a.at /\ a.rows[r].version <= catalog[r].version
            /\ Newer(r, a) => a.rows[r].version >= menu[r].version
       /\ \A b \in Pending : Agrees(a, b)

(* What the proofs need of finite sets: an order on a finite set has a     *)
(* maximal element, and so a set of numbers has a maximum.                 *)

LEMMA NatMinimum ==
  ASSUME NEW T, T \subseteq Nat, T # {}
  PROVE  \E m \in T : \A n \in T : m <= n
<1>1. PICK m \in T : \A n \in T : ~(<<n, m>> \in OpToRel(<, Nat))
  BY WFMin, NatLessThanWellFounded, Zenon
<1>2. \A n \in T : ~(n < m)
  BY <1>1 DEF OpToRel
<1>. QED
  BY <1>2

LEMMA MaximalElement ==
  ASSUME NEW S, IsFiniteSet(S), S # {}, NEW R,
         \A x \in S : <<x, x>> \notin R,
         \A x, y, z \in S : <<x, y>> \in R /\ <<y, z>> \in R => <<x, z>> \in R
  PROVE  \E x \in S : \A y \in S : <<x, y>> \notin R
<1>. DEFINE above(x) == {y \in S : <<x, y>> \in R}
            T == {Cardinality(above(x)) : x \in S}
<1>1. \A x \in S : IsFiniteSet(above(x)) /\ Cardinality(above(x)) \in Nat
  BY FS_Subset, FS_CardinalityType
<1>2. T \subseteq Nat /\ T # {}
  <2>1. PICK s \in S : TRUE
    OBVIOUS
  <2>. HIDE DEF above
  <2>2. Cardinality(above(s)) \in T
    OBVIOUS
  <2>. QED
    BY <1>1, <2>2
<1>. HIDE DEF T
<1>3. PICK m \in T : \A n \in T : m <= n
  BY <1>2, NatMinimum
<1>4. PICK x \in S : m = Cardinality(above(x))
  BY <1>3 DEF T
<1>5. ASSUME NEW y \in S, <<x, y>> \in R
      PROVE  FALSE
  <2>1. above(y) \in SUBSET above(x) /\ y \in above(x) /\ y \notin above(y)
    BY <1>4, <1>5
  <2>2. Cardinality(above(y)) <= Cardinality(above(x))
        /\ Cardinality(above(x)) # Cardinality(above(y))
    <3>. HIDE DEF above
    <3>1. IsFiniteSet(above(x))
      BY <1>1, <1>4
    <3>2. above(y) # above(x) /\ above(y) \in SUBSET above(x)
      BY <2>1
    <3>3. /\ Cardinality(above(y)) <= Cardinality(above(x))
          /\ Cardinality(above(y)) = Cardinality(above(x)) => above(y) = above(x)
      BY <3>1, <3>2, FS_Subset
    <3>. QED
      BY <3>2, <3>3
  <2>3. Cardinality(above(y)) \in T
    BY DEF T
  <2>. QED
    <3>. HIDE DEF above
    <3>. QED
      BY <2>2, <2>3, <1>1, <1>3, <1>4, <1>5
<1>. QED
  BY <1>5

LEMMA IntMaximum ==
  ASSUME NEW S, IsFiniteSet(S), S # {}, S \subseteq Int
  PROVE  \E x \in S : \A y \in S : y <= x
<1>. DEFINE R == {p \in Int \X Int : p[1] < p[2]}
<1>1. \A x \in S : <<x, x>> \notin R
  OBVIOUS
<1>2. \A x, y, z \in S : <<x, y>> \in R /\ <<y, z>> \in R => <<x, z>> \in R
  OBVIOUS
<1>3. PICK x \in S : \A y \in S : <<x, y>> \notin R
  <2>. HIDE DEF R
  <2>. QED
    BY <1>1, <1>2, MaximalElement
<1>4. \A y \in S : x < y => <<x, y>> \in R
  OBVIOUS
<1>5. \A y \in S : ~(x < y)
  <2>. HIDE DEF R
  <2>. QED
    BY <1>3, <1>4
<1>6. \A y \in S : x \in Int /\ y \in Int
  OBVIOUS
<1>. QED
  BY <1>5, <1>6

-----------------------------------------------------------------------------
(* The batches.                                                            *)

LEMMA RowMapsAre ==
  ASSUME NEW f \in RowMaps
  PROVE  DOMAIN f \subseteq Orders /\ f \in [DOMAIN f -> Row]
BY DEF RowMaps

LEMMA BatchRows ==
  ASSUME NEW b \in Batches
  PROVE  /\ b.rows \in RowMaps /\ b.paid \subseteq Orders /\ b.refunds \subseteq Orders
         /\ DOMAIN b.rows \subseteq Orders
         /\ \A o \in DOMAIN b.rows : b.rows[o] \in Row
<1>1. b.rows \in RowMaps /\ b.paid \subseteq Orders /\ b.refunds \subseteq Orders
  BY DEF Batches
<1>. QED
  BY <1>1, RowMapsAre

LEMMA EmptyBatch == NoBatch \in Batches /\ DOMAIN NoBatch.rows = {}
<1>1. [o \in {} |-> Absent] \in [{} -> Row]
  OBVIOUS
<1>2. [o \in {} |-> Absent] \in RowMaps
  BY <1>1 DEF RowMaps
<1>. QED
  BY <1>2 DEF NoBatch, Batches

LEMMA IdleCycle ==
  /\ Idle \in CycleStates /\ [Idle EXCEPT !.pc = "ask"] \in CycleStates
  /\ Idle.batch = NoBatch /\ [Idle EXCEPT !.pc = "ask"].batch = NoBatch
  /\ Idle.inbox = {} /\ [Idle EXCEPT !.pc = "ask"].inbox = {}
  /\ Idle.pc = "idle" /\ [Idle EXCEPT !.pc = "ask"].pc = "ask"
BY EmptyBatch DEF Idle, CycleStates

(* The last row of a batch: none of its rows lies beyond it.               *)
LEMMA LastRowIs ==
  ASSUME NEW b \in Batches, DOMAIN b.rows # {}
  PROVE  \E last \in DOMAIN b.rows :
           /\ LastRow(b) = [at |-> b.rows[last].at, id |-> last]
           /\ \A p \in DOMAIN b.rows :
                \/ b.rows[p].at < b.rows[last].at
                \/ b.rows[p].at = b.rows[last].at /\ p <= last
<1>. DEFINE D == DOMAIN b.rows
            R == {q \in D \X D : \/ b.rows[q[1]].at < b.rows[q[2]].at
                                 \/ b.rows[q[1]].at = b.rows[q[2]].at /\ q[1] < q[2]}
            Last(o) == \A p \in D : \/ b.rows[p].at < b.rows[o].at
                                    \/ b.rows[p].at = b.rows[o].at /\ p <= o
<1>1. D \subseteq Orders /\ D \subseteq Nat /\ \A o \in D : b.rows[o].at \in Int
  BY BatchRows, OrdersAssumption DEF Row
<1>2. IsFiniteSet(D)
  BY <1>1, OrdersAssumption, FS_Subset
<1>3. \A x \in D : <<x, x>> \notin R
  BY <1>1
<1>4. \A x, y, z \in D : <<x, y>> \in R /\ <<y, z>> \in R => <<x, z>> \in R
  BY <1>1
<1>5. PICK x \in D : \A y \in D : <<x, y>> \notin R
  <2>. HIDE DEF D, R
  <2>. QED
    BY <1>2, <1>3, <1>4, MaximalElement DEF D
<1>6. Last(x)
  <2>1. ASSUME NEW p \in D,
               \/ b.rows[x].at < b.rows[p].at
               \/ b.rows[x].at = b.rows[p].at /\ x < p
        PROVE  <<x, p>> \in R
    BY <2>1
  <2>2. SUFFICES ASSUME NEW p \in D,
                        ~(\/ b.rows[p].at < b.rows[x].at
                          \/ b.rows[p].at = b.rows[x].at /\ p <= x)
                 PROVE  FALSE
    OBVIOUS
  <2>3. /\ b.rows[x].at \in Int /\ b.rows[p].at \in Int
        /\ x \in Nat /\ p \in Nat
    BY <1>1
  <2>4. <<x, p>> \in R
    BY <2>1, <2>2, <2>3
  <2>. HIDE DEF R
  <2>. QED
    BY <1>5, <2>4
<1>7. (CHOOSE o \in D : Last(o)) \in D /\ Last(CHOOSE o \in D : Last(o))
  BY <1>6
<1>. QED
  BY <1>7 DEF LastRow

-----------------------------------------------------------------------------
(* The types.                                                              *)

LEMMA CycleSet ==
  ASSUME NEW cycles \in [Cycles -> CycleStates], NEW c \in Cycles, NEW state \in CycleStates
  PROVE  [cycles EXCEPT ![c] = state] \in [Cycles -> CycleStates]
OBVIOUS

LEMMA BeginsWith ==
  ASSUME NEW n \in Int, NEW b \in Batches
  PROVE  LET state == [Idle EXCEPT !.pc = "details", !.id = n, !.batch = b]
         IN  /\ state \in CycleStates
             /\ state.pc = "details" /\ state.batch = b /\ state.inbox = {}
<1>. DEFINE s1 == [Idle EXCEPT !.pc = "details"]
            s2 == [s1 EXCEPT !.id = n]
            s3 == [s2 EXCEPT !.batch = b]
<1>1. s1 \in CycleStates /\ s1.pc = "details" /\ s1.inbox = {}
  BY IdleCycle DEF CycleStates
<1>. HIDE DEF s1
<1>2. s2 \in CycleStates /\ s2.pc = "details" /\ s2.inbox = {}
  BY <1>1 DEF CycleStates
<1>. HIDE DEF s2
<1>3. s3 \in CycleStates /\ s3.pc = "details" /\ s3.inbox = {} /\ s3.batch = b
  BY <1>2 DEF CycleStates
<1>. QED
  BY <1>3, Zenon DEF s1, s2

LEMMA GoesOnWith ==
  ASSUME NEW k \in CycleStates, NEW b \in Batches
  PROVE  LET state == [k EXCEPT !.pc = "publish", !.part = 1, !.batch = b]
         IN  /\ state \in CycleStates
             /\ state.pc = "publish" /\ state.batch = b /\ state.inbox = k.inbox
<1>. DEFINE s1 == [k EXCEPT !.pc = "publish"]
            s2 == [s1 EXCEPT !.part = 1]
            s3 == [s2 EXCEPT !.batch = b]
<1>1. s1 \in CycleStates /\ s1.pc = "publish" /\ s1.inbox = k.inbox
  BY DEF CycleStates
<1>. HIDE DEF s1
<1>2. s2 \in CycleStates /\ s2.pc = "publish" /\ s2.inbox = k.inbox
  BY <1>1 DEF CycleStates
<1>. HIDE DEF s2
<1>3. s3 \in CycleStates /\ s3.pc = "publish" /\ s3.inbox = k.inbox /\ s3.batch = b
  BY <1>2 DEF CycleStates
<1>. QED
  BY <1>3, Zenon DEF s1, s2

LEMMA StartsWith ==
  ASSUME Init, NEW o \in Orders
  PROVE  /\ edge[o] \in [status : {"PAYMENT_PENDING", "DISPATCHED", "none"}, at : Int]
         /\ edge[o].at <= now /\ edge[o].at >= Never
         /\ edge[o].status # "none" => edge[o].at = now
<1>1. PICK s \in {"PAYMENT_PENDING", "DISPATCHED"} :
        edge = [p \in Orders |-> IF p \in Placed THEN [status |-> s, at |-> now] ELSE Absent]
  BY DEF Init
<1>2. now \in Nat
  BY BoundsAssumption DEF Init
<1>. QED
  BY <1>1, <1>2 DEF Absent, Never

LEMMA TypesAtStart == Init => SyncTypeOK
<1>. SUFFICES ASSUME Init PROVE SyncTypeOK
  OBVIOUS
<1>1. edge \in OrderRows
  <2>1. \A o \in Orders : edge[o] \in [status : Statuses \cup {"none"}, at : Int]
    BY StartsWith DEF Statuses
  <2>2. edge = [o \in Orders |-> edge[o]]
    BY DEF Init
  <2>. QED
    BY <2>1, <2>2 DEF OrderRows
<1>2. cloud \in OrderRows
  BY DEF Init, OrderRows, Absent, Never, Statuses
<1>3. cursor \in [at : Int, id : Int] /\ selected \in Int /\ now \in Nat
  BY BoundsAssumption DEF Init, Start, Never
<1>4. cycle \in [Cycles -> CycleStates]
  BY IdleCycle DEF Init
<1>. QED
  BY <1>1, <1>2, <1>3, <1>4 DEF Init, SyncTypeOK

LEMMA MoveTypes ==
  ASSUME SyncTypeOK, NEW o \in Orders, NEW s \in Reach, NEW at, EdgeMove(o, s, at)
  PROVE  SyncTypeOK'
<1>. USE DEF SyncTypeOK
<1>1. now' \in Nat /\ at \in Int
  BY DEF EdgeMove, Began
<1>2. s \in Statuses
  BY OrdersAssumption
<1>3. edge' = [edge EXCEPT ![o] = [status |-> s, at |-> at]]
  BY DEF EdgeMove
<1>4. edge' \in OrderRows
  BY <1>1, <1>2, <1>3 DEF OrderRows
<1>5. straggling' \subseteq Orders \X Row
  <2>1. edge'[o] = [status |-> s, at |-> at]
    BY <1>3 DEF OrderRows
  <2>2. <<o, edge'[o]>> \in Orders \X Row
    BY <1>1, <1>2, <2>1 DEF Row
  <2>. QED
    BY <2>2 DEF EdgeMove
<1>. QED
  BY <1>1, <1>4, <1>5 DEF EdgeMove, cloudVars, menuVars

LEMMA SelectTypes ==
  ASSUME SyncTypeOK, NEW c \in Cycles, SelectOrders(c)
  PROVE  SyncTypeOK'
<1>. USE DEF SyncTypeOK, SelectOrders, Then
<1>. DEFINE fresh == {o \in Orders : Beyond(o, cursor)}
            chosen == {o \in fresh : Cardinality({p \in fresh : Precedes(p, o)}) <= MaxBatch}
            rows == [o \in chosen |-> edge[o]]
            batch == [rows |-> rows, paid |-> {}, refunds |-> {}]
            state == IF chosen = {} THEN [Idle EXCEPT !.pc = "ask"]
                     ELSE [Idle EXCEPT !.pc = "details", !.id = begun', !.batch = batch]
<1>1. begun' \in Nat /\ now' \in Nat /\ selected' \in Int
  OBVIOUS
<1>2. \A o \in chosen : o \in Orders /\ edge[o] \in Row
  BY DEF Beyond, OrderRows, Row
<1>3. batch \in Batches
  <2>. HIDE DEF chosen
  <2>1. rows \in [chosen -> Row] /\ chosen \in SUBSET Orders
    BY <1>2
  <2>2. rows \in RowMaps
    BY <2>1 DEF RowMaps
  <2>. QED
    BY <2>2 DEF Batches
<1>4. state \in CycleStates
  <2>. HIDE DEF chosen, batch
  <2>1. begun' \in Int
    BY <1>1
  <2>2. [Idle EXCEPT !.pc = "details", !.id = begun', !.batch = batch] \in CycleStates
    BY <1>3, <2>1, BeginsWith, Zenon
  <2>. QED
    BY <2>2, IdleCycle, Zenon
<1>5. cycle' = [cycle EXCEPT ![c] = state]
  OBVIOUS
<1>6. cycle' \in [Cycles -> CycleStates]
  <2>1. cycle \in [Cycles -> CycleStates]
    OBVIOUS
  <2>. HIDE DEF state, chosen, SyncTypeOK, SelectOrders, Then
  <2>2. [cycle EXCEPT ![c] = state] \in [Cycles -> CycleStates]
    BY <1>4, <2>1, CycleSet
  <2>. QED
    BY <1>5, <2>2, Zenon
<1>. QED
  BY <1>1, <1>6 DEF edgeVars, historyVars, cloudVars, menuVars

LEMMA DetailsTypes ==
  ASSUME SyncTypeOK, NEW c \in Cycles, SelectDetails(c)
  PROVE  SyncTypeOK'
<1>. USE DEF SyncTypeOK
<1>. DEFINE batch == cycle[c].batch
            full == [batch EXCEPT !.paid = {o \in DOMAIN batch.rows : ~Waiting(o)},
                                  !.refunds = (DOMAIN batch.rows) \cap refund]
            state == [cycle[c] EXCEPT !.pc = "publish", !.part = 1, !.batch = full]
<1>1. cycle[c] \in CycleStates /\ batch \in Batches
  BY DEF CycleStates
<1>2. full \in Batches
  <2>1. DOMAIN batch.rows \subseteq Orders
    BY <1>1, BatchRows
  <2>. QED
    BY <1>1, <2>1 DEF Batches
<1>3. state \in CycleStates
  <2>. HIDE DEF full
  <2>. QED
    BY <1>1, <1>2, GoesOnWith
<1>4. cycle' = [cycle EXCEPT ![c] = state]
  BY DEF SelectDetails, Then
<1>5. cycle' \in [Cycles -> CycleStates]
  <2>1. cycle \in [Cycles -> CycleStates]
    OBVIOUS
  <2>. HIDE DEF state, SyncTypeOK
  <2>2. [cycle EXCEPT ![c] = state] \in [Cycles -> CycleStates]
    BY <1>3, <2>1, CycleSet
  <2>. QED
    BY <1>4, <2>2, Zenon
<1>. QED
  BY <1>5 DEF SelectDetails, edgeVars, historyVars, cloudVars, menuVars

LEMMA PublishTypes ==
  ASSUME SyncTypeOK, NEW c \in Cycles, PublishChunk(c)
  PROVE  SyncTypeOK'
<1>. USE DEF SyncTypeOK
<1>1. cycle[c] \in CycleStates /\ cycle[c].batch \in Batches
  BY DEF CycleStates
<1>2. Versions(cycle[c].batch) \subseteq Orders \X Row
  BY <1>1, BatchRows DEF Versions
<1>3. Envelope(c) \in [id : Int, part : Int, batch : Batches, at : Int]
  BY <1>1 DEF Envelope, CycleStates
<1>4. /\ [cycle[c] EXCEPT !.pc = "save"] \in CycleStates
      /\ [cycle[c] EXCEPT !.part = @ + 1] \in CycleStates
  BY <1>1 DEF CycleStates
<1>5. cycle' \in [Cycles -> CycleStates]
  BY <1>4, CycleSet DEF PublishChunk, Then
<1>6. acked' \subseteq Orders \X Row
  BY <1>2 DEF PublishChunk
<1>7. received' \subseteq [id : Int, part : Int, batch : Batches, at : Int]
  BY <1>3 DEF PublishChunk
<1>. QED
  BY <1>5, <1>6, <1>7 DEF PublishChunk, historyVars, cloudVars, menuVars

LEMMA SaveTypes ==
  ASSUME SyncTypeOK, NEW c \in Cycles, SaveCursor(c), DOMAIN cycle[c].batch.rows # {}
  PROVE  SyncTypeOK'
<1>. USE DEF SyncTypeOK
<1>1. cycle[c].batch \in Batches
  BY DEF CycleStates
<1>2. PICK last \in DOMAIN cycle[c].batch.rows :
        LastRow(cycle[c].batch) = [at |-> cycle[c].batch.rows[last].at, id |-> last]
  BY <1>1, LastRowIs
<1>3. last \in Int /\ cycle[c].batch.rows[last].at \in Int
  <2>1. last \in Orders /\ cycle[c].batch.rows[last] \in Row
    BY <1>1, BatchRows
  <2>. QED
    BY <2>1, OrdersAssumption DEF Row
<1>4. cursor' \in [at : Int, id : Int]
  BY <1>2, <1>3 DEF SaveCursor
<1>5. cycle' \in [Cycles -> CycleStates]
  BY IdleCycle, CycleSet DEF SaveCursor, Then
<1>. QED
  BY <1>4, <1>5 DEF SaveCursor, edgeVars, historyVars, cloudVars, menuVars

(* An answer as the cloud's catalogue would give it now.                   *)
Current(answer) ==
  answer.at = now /\ \A r \in DOMAIN answer.rows : r \in Rows /\ answer.rows[r] = catalog[r]

LEMMA AnswerTypes ==
  ASSUME SyncTypeOK, NEW from \in requests, AnswerRequest(from)
  PROVE  /\ SyncTypeOK'
         /\ \A c \in Cycles :
              /\ cycle'[c].pc = cycle[c].pc /\ cycle'[c].batch = cycle[c].batch
              /\ \A answer \in cycle'[c].inbox :
                   answer \in cycle[c].inbox \/ Current(answer)
<1>. DEFINE changed == {r \in Rows : catalog[r].at > from}
            answer == [rows |-> [r \in changed |-> catalog[r]], at |-> now]
            more(c) == [cycle[c] EXCEPT !.inbox = @ \cup {answer}]
<1>1. answer \in Answers /\ Current(answer)
  <2>1. \A r \in changed : r \in Rows /\ catalog[r] \in [version : Int, at : Int]
    BY DEF SyncTypeOK
  <2>. HIDE DEF changed
  <2>2. answer.rows \in [changed -> [version : Int, at : Int]] /\ changed \in SUBSET Rows
    BY <2>1
  <2>3. answer.rows \in UNION {[R -> [version : Int, at : Int]] : R \in SUBSET Rows}
    BY <2>2
  <2>4. answer \in Answers
    BY <2>3 DEF Answers, SyncTypeOK
  <2>. QED
    BY <2>1, <2>4 DEF Current
<1>. HIDE DEF answer
<1>2. ASSUME NEW c \in Cycles
      PROVE  /\ more(c) \in CycleStates /\ more(c).pc = cycle[c].pc
             /\ more(c).batch = cycle[c].batch
             /\ more(c).inbox = cycle[c].inbox \cup {answer}
  <2>1. cycle[c] \in CycleStates
    BY DEF SyncTypeOK
  <2>. QED
    BY <1>1, <2>1 DEF CycleStates
<1>3. cycle' = [c \in Cycles |-> IF Subscribed(c) THEN more(c) ELSE cycle[c]]
  BY DEF AnswerRequest, answer
<1>. HIDE DEF more
<1>4. cycle' \in [Cycles -> CycleStates]
  BY <1>2, <1>3 DEF SyncTypeOK
<1>5. SyncTypeOK'
  BY <1>4 DEF SyncTypeOK, AnswerRequest, edgeVars, historyVars, cloudVars, menuVars
<1>6. ASSUME NEW c \in Cycles
      PROVE  /\ cycle'[c].pc = cycle[c].pc /\ cycle'[c].batch = cycle[c].batch
             /\ cycle'[c].inbox \subseteq cycle[c].inbox \cup {answer}
  BY <1>2, <1>3
<1>. QED
  BY <1>1, <1>5, <1>6

(* The rows an answer is applied to are numbers, and one is the latest.    *)
LEMMA AnswerIs ==
  ASSUME NEW answer \in Answers
  PROVE  /\ DOMAIN answer.rows \subseteq Rows /\ answer.at \in Int
         /\ \A r \in DOMAIN answer.rows :
              /\ answer.rows[r] \in [version : Int, at : Int]
              /\ answer.rows[r].version \in Int /\ answer.rows[r].at \in Int
         /\ LET latest == {answer.rows[r].at : r \in DOMAIN answer.rows}
            IN  latest # {} => (CHOOSE t \in latest : \A u \in latest : u <= t) \in Int
<1>1. PICK R \in SUBSET Rows : answer.rows \in [R -> [version : Int, at : Int]]
  BY DEF Answers
<1>. DEFINE latest == {answer.rows[r].at : r \in DOMAIN answer.rows}
            stamp == [r \in R |-> answer.rows[r].at]
<1>2. IsFiniteSet(latest)
  <2>1. stamp \in Surjection(R, latest)
    BY <1>1 DEF Surjection
  <2>2. IsFiniteSet(R)
    BY <1>1, RowsAssumption, FS_Subset
  <2>. HIDE DEF latest
  <2>. QED
    BY <2>1, <2>2, FS_Surjection
<1>3. latest \subseteq Int
  BY <1>1
<1>. HIDE DEF latest
<1>4. latest # {} => \E t \in latest : \A u \in latest : u <= t
  BY <1>2, <1>3, IntMaximum
<1>5. latest # {} => (CHOOSE t \in latest : \A u \in latest : u <= t) \in Int
  BY <1>3, <1>4
<1>. QED
  BY <1>1, <1>5 DEF latest, Answers

LEMMA CatalogTypes ==
  ASSUME SyncTypeOK, NEW c \in Cycles, NEW answer, NEW t, ImportCatalog(c, answer, t)
  PROVE  SyncTypeOK'
<1>1. cycle[c] \in CycleStates /\ answer \in Answers
  BY DEF SyncTypeOK, CycleStates, ImportCatalog
<1>2. /\ \A r \in DOMAIN answer.rows : answer.rows[r].version \in Int
      /\ t \in Int
  <2>1. t \in Began /\ now \in Nat
    BY DEF ImportCatalog, SyncTypeOK
  <2>2. t \in Int
    BY <2>1 DEF Began
  <2>3. \A r \in DOMAIN answer.rows : answer.rows[r].version \in Int
    BY <1>1, AnswerIs
  <2>. QED
    BY <2>2, <2>3
<1>3. menu' \in [Rows -> [version : Int, at : Int]]
  BY <1>2 DEF SyncTypeOK, ImportCatalog, Newer
<1>4. since' \in Int
  BY <1>1, AnswerIs DEF SyncTypeOK, ImportCatalog
<1>5. [cycle[c] EXCEPT !.inbox = @ \ {answer}] \in CycleStates
  BY <1>1 DEF CycleStates
<1>6. cycle' \in [Cycles -> CycleStates]
  BY <1>5, IdleCycle, CycleSet DEF SyncTypeOK, ImportCatalog, Then
<1>. QED
  BY <1>3, <1>4, <1>6 DEF SyncTypeOK, ImportCatalog, edgeVars, historyVars, cloudVars

LEMMA CycleTypes ==
  ASSUME SyncTypeOK, NEW c \in Cycles, Request(c) \/ EndCycle(c) \/ Crash(c)
  PROVE  SyncTypeOK'
<1>1. cycle[c] \in CycleStates
  BY DEF SyncTypeOK
<1>2. [cycle[c] EXCEPT !.pc = "wait"] \in CycleStates
  BY <1>1 DEF CycleStates
<1>3. cycle' \in [Cycles -> CycleStates]
  BY <1>2, IdleCycle, CycleSet DEF SyncTypeOK, Request, EndCycle, Crash, Then
<1>. QED
  BY <1>3 DEF SyncTypeOK, Request, EndCycle, Crash, edgeVars, historyVars, cloudVars, menuVars

LEMMA EditTypes ==
  ASSUME SyncTypeOK, NEW r \in Rows, NEW at, CatalogEdit(r, at)
  PROVE  SyncTypeOK'
<1>1. now' \in Nat /\ OnCloud(at) \in Int
  BY ClockAssumption DEF SyncTypeOK, CatalogEdit, OnCloud, Began
<1>2. catalog' \in [Rows -> [version : Int, at : Int]]
  BY <1>1 DEF SyncTypeOK, CatalogEdit
<1>. QED
  BY <1>1, <1>2 DEF SyncTypeOK, CatalogEdit, edgeVars, historyVars, cloudVars, menuVars

LEMMA OrderTypes ==
  ASSUME SyncTypeOK, NEW m \in received, NEW t, ImportOrders(m, t)
  PROVE  SyncTypeOK'
<1>1. m.batch \in Batches
  BY DEF SyncTypeOK
<1>2. OnCloud(t) \in Int
  BY ClockAssumption DEF SyncTypeOK, ImportOrders, OnCloud, Began
<1>3. ASSUME NEW o \in Orders
      PROVE  Imported(o, m.batch, t) \in [status : Statuses \cup {"none"}, at : Int]
  <2>1. o \in DOMAIN m.batch.rows =>
          m.batch.rows[o].status \in Statuses /\ m.batch.rows[o].at \in Int
          /\ m.batch.rows[o] \in [status : Statuses \cup {"none"}, at : Int]
    <3>1. o \in DOMAIN m.batch.rows => m.batch.rows[o] \in Row
      BY <1>1, BatchRows
    <3>. QED
      BY <3>1 DEF Row
  <2>2. cloud[o] \in [status : Statuses \cup {"none"}, at : Int]
    BY DEF SyncTypeOK, OrderRows
  <2>. QED
    BY <1>2, <2>1, <2>2 DEF Imported, Overwrites
<1>4. cloud' \in OrderRows
  BY <1>3 DEF SyncTypeOK, ImportOrders, OrderRows, cloudVars
<1>5. cloudPay' \in [Orders -> {"none", "INITIATED", "CAPTURED", "EXPIRED"}]
  BY DEF SyncTypeOK, ImportOrders, cloudVars
<1>6. cloudRefund' \in [Orders -> SUBSET {"edge", "own"}]
  BY DEF SyncTypeOK, ImportOrders, cloudVars
<1>7. received' \subseteq [id : Int, part : Int, batch : Batches, at : Int]
  BY DEF SyncTypeOK, ImportOrders
<1>. QED
  BY <1>4, <1>5, <1>6, <1>7 DEF SyncTypeOK, ImportOrders, edgeVars, historyVars, menuVars

LEMMA SweepTypes ==
  ASSUME SyncTypeOK, NEW o \in Orders, NEW t,
         CloudDispatches(o, t) \/ CloudExpires(o, t) \/ CloudRefunds(o, t)
  PROVE  SyncTypeOK'
<1>1. PICK s \in {"DISPATCHED", "PAYMENT_EXPIRED", "REFUND_PENDING"} : CloudMoves(o, s, t)
  BY DEF CloudDispatches, CloudExpires, CloudRefunds
<1>2. cloud' \in OrderRows
  <2>1. OnCloud(t) \in Int
    BY <1>1, ClockAssumption DEF SyncTypeOK, CloudMoves, OnCloud, Began
  <2>2. [status |-> s, at |-> OnCloud(t)] \in [status : Statuses \cup {"none"}, at : Int]
    BY <2>1 DEF Statuses
  <2>. QED
    BY <1>1, <2>2 DEF SyncTypeOK, OrderRows, CloudMoves
<1>3. cloudPay' \in [Orders -> {"none", "INITIATED", "CAPTURED", "EXPIRED"}]
  BY DEF SyncTypeOK, CloudDispatches, CloudExpires, CloudRefunds
<1>4. cloudRefund' \in [Orders -> SUBSET {"edge", "own"}]
  BY DEF SyncTypeOK, CloudDispatches, CloudExpires, CloudRefunds
<1>. QED
  BY <1>1, <1>2, <1>3, <1>4 DEF SyncTypeOK, CloudMoves, edgeVars, menuVars

-----------------------------------------------------------------------------
(* Who writes what: one lemma for each side.                               *)

EdgeSteps == \E o \in Orders, s \in Reach : \E at : EdgeMove(o, s, at)

CycleSteps(c) ==
  \/ SelectOrders(c) \/ SelectDetails(c) \/ PublishChunk(c)
  \/ SaveCursor(c) \/ Request(c) \/ EndCycle(c) \/ Crash(c)
  \/ \E answer \in cycle[c].inbox, t \in Began : ImportCatalog(c, answer, t)

Sweeping ==
  \E o \in Orders : \E t : CloudDispatches(o, t) \/ CloudExpires(o, t) \/ CloudRefunds(o, t)

CloudSteps ==
  \/ \E r \in Rows : \E at : CatalogEdit(r, at)
  \/ \E from \in requests : AnswerRequest(from)
  \/ \E m \in received : \E t : ImportOrders(m, t)
  \/ Sweeping \/ Restart

LEMMA NextIs ==
  ASSUME Next
  PROVE  EdgeSteps \/ CloudSteps \/ \E c \in Cycles : CycleSteps(c)
BY Zenon DEF Next, EdgeSteps, CycleSteps, Sweeping, CloudSteps

LEMMA EdgeWrites ==
  ASSUME EdgeSteps
  PROVE  /\ UNCHANGED <<cursor, cycle, received, cloud, catalog, menu, acked, selected, crossed>>
         /\ straggling \subseteq straggling'
BY DEF EdgeSteps, EdgeMove, cloudVars, menuVars

LEMMA CycleWrites ==
  ASSUME NEW c \in Cycles, CycleSteps(c)
  PROVE  /\ UNCHANGED <<now, edge, cloud, catalog, straggling, crossed>>
         /\ selected' = selected \/ selected' = now
         /\ cursor' = cursor \/ SaveCursor(c)
         /\ received' = received \/ PublishChunk(c)
         /\ menu' = menu \/ \E answer, t : ImportCatalog(c, answer, t)
<1>. DEFINE Frame == UNCHANGED <<now, edge, cloud, catalog, straggling, crossed>>
            Rests == /\ UNCHANGED <<selected, cursor, received, menu>>
                     /\ Frame
<1>. USE DEF edgeVars, historyVars, cloudVars, menuVars
<1>1. SelectOrders(c) => selected' = now /\ Frame /\ UNCHANGED <<cursor, received, menu>>
  BY DEF SelectOrders
<1>2. SelectDetails(c) => Rests
  BY DEF SelectDetails
<1>3. PublishChunk(c) => Frame /\ UNCHANGED <<selected, cursor, menu>>
  BY DEF PublishChunk
<1>4. SaveCursor(c) => Frame /\ UNCHANGED <<selected, received, menu>>
  BY DEF SaveCursor
<1>5. Request(c) => Rests
  BY DEF Request
<1>6. EndCycle(c) => Rests
  BY DEF EndCycle
<1>7. Crash(c) => Rests
  BY DEF Crash
<1>8. ASSUME NEW answer, NEW t, ImportCatalog(c, answer, t)
      PROVE  Frame /\ UNCHANGED <<selected, cursor, received>>
  BY <1>8 DEF ImportCatalog
<1>. HIDE DEF edgeVars, historyVars, cloudVars, menuVars, Frame
<1>9. Rests => Frame /\ UNCHANGED <<selected, cursor, received, menu>>
  OBVIOUS
<1>. HIDE DEF Rests
<1>10. Frame
  BY <1>1, <1>2, <1>3, <1>4, <1>5, <1>6, <1>7, <1>8, <1>9 DEF CycleSteps
<1>11. selected' = selected \/ selected' = now
  BY <1>1, <1>2, <1>3, <1>4, <1>5, <1>6, <1>7, <1>8, <1>9 DEF CycleSteps
<1>12. cursor' = cursor \/ SaveCursor(c)
  BY <1>1, <1>2, <1>3, <1>5, <1>6, <1>7, <1>8, <1>9 DEF CycleSteps
<1>13. received' = received \/ PublishChunk(c)
  BY <1>1, <1>2, <1>4, <1>5, <1>6, <1>7, <1>8, <1>9 DEF CycleSteps
<1>14. menu' = menu \/ \E answer, t : ImportCatalog(c, answer, t)
  BY <1>1, <1>2, <1>3, <1>4, <1>5, <1>6, <1>7, <1>9 DEF CycleSteps
<1>. QED
  BY <1>10, <1>11, <1>12, <1>13, <1>14 DEF Frame

LEMMA CloudWrites ==
  ASSUME CloudSteps
  PROVE  /\ UNCHANGED <<edge, cursor, menu, acked, selected, straggling>>
         /\ crossed \subseteq crossed' /\ received' \subseteq received
         /\ now' = now \/ \E r \in Rows : \E at : CatalogEdit(r, at)
         /\ catalog' = catalog \/ \E r \in Rows : \E at : CatalogEdit(r, at)
         /\ cycle' = cycle \/ \E from \in requests : AnswerRequest(from)
         /\ cloud' = cloud \/ Sweeping \/ \E m \in received : \E t : ImportOrders(m, t)
<1>. USE DEF edgeVars, historyVars, cloudVars, menuVars
<1>1. ASSUME NEW r \in Rows, NEW at, CatalogEdit(r, at)
      PROVE  UNCHANGED <<edge, cursor, menu, acked, selected, straggling, crossed, received,
                         cycle, cloud>>
  BY <1>1 DEF CatalogEdit
<1>2. ASSUME NEW from \in requests, AnswerRequest(from)
      PROVE  UNCHANGED <<edge, cursor, menu, acked, selected, straggling, crossed, received,
                         now, catalog, cloud>>
  BY <1>2 DEF AnswerRequest
<1>3. ASSUME NEW m \in received, NEW t, ImportOrders(m, t)
      PROVE  /\ UNCHANGED <<edge, cursor, menu, acked, selected, straggling, crossed, now,
                            catalog, cycle>>
             /\ received' \subseteq received
  BY <1>3 DEF ImportOrders
<1>4. ASSUME NEW o \in Orders, NEW t,
             CloudDispatches(o, t) \/ CloudExpires(o, t) \/ CloudRefunds(o, t)
      PROVE  /\ UNCHANGED <<edge, cursor, menu, acked, selected, straggling, received, now,
                            catalog, cycle>>
             /\ crossed \subseteq crossed'
  <2>1. \E s : CloudMoves(o, s, t)
    BY <1>4 DEF CloudDispatches, CloudExpires, CloudRefunds
  <2>. QED
    BY <2>1 DEF CloudMoves
<1>5. Restart => /\ UNCHANGED <<edge, cursor, menu, acked, selected, straggling, crossed, now,
                                catalog, cycle, cloud>>
                 /\ received' \subseteq received
  BY DEF Restart
<1>. HIDE DEF edgeVars, historyVars, cloudVars, menuVars
<1>6. UNCHANGED <<edge, cursor, menu, acked, selected, straggling>>
  BY <1>1, <1>2, <1>3, <1>4, <1>5 DEF CloudSteps, Sweeping
<1>7. crossed \subseteq crossed' /\ received' \subseteq received
  BY <1>1, <1>2, <1>3, <1>4, <1>5 DEF CloudSteps, Sweeping
<1>8. (now' = now /\ catalog' = catalog) \/ \E r \in Rows : \E at : CatalogEdit(r, at)
  BY <1>2, <1>3, <1>4, <1>5 DEF CloudSteps, Sweeping
<1>9. cycle' = cycle \/ \E from \in requests : AnswerRequest(from)
  BY <1>1, <1>3, <1>4, <1>5 DEF CloudSteps, Sweeping
<1>10. cloud' = cloud \/ Sweeping \/ \E m \in received : \E t : ImportOrders(m, t)
  BY <1>1, <1>2, <1>5 DEF CloudSteps
<1>. QED
  BY <1>6, <1>7, <1>8, <1>9, <1>10

-----------------------------------------------------------------------------
(* What a step does to the cycles: it leaves a batch where it is, drops it *)
(* or, in SelectOrders, begins one.                                        *)

KeepsBatch(c) ==
  /\ cycle'[c].batch.rows = cycle[c].batch.rows
  /\ Exporting(c)' => Exporting(c)
  /\ cycle'[c].pc = "save" =>
       cycle[c].pc = "save" \/ Versions(cycle[c].batch) \subseteq acked'
  /\ \A answer \in cycle'[c].inbox : answer \in cycle[c].inbox \/ Current(answer)

DropsBatch(c) ==
  ~Exporting(c)' /\ DOMAIN cycle'[c].batch.rows = {} /\ cycle'[c].inbox = {}

LEMMA OtherCyclesKeep ==
  ASSUME SyncTypeOK, NEW c \in Cycles, NEW state, Then(c, state)
  PROVE  cycle'[c] = state /\ \A d \in Cycles \ {c} : KeepsBatch(d)
<1>1. cycle' = [cycle EXCEPT ![c] = state] /\ cycle \in [Cycles -> CycleStates]
  BY DEF SyncTypeOK, Then
<1>2. cycle'[c] = state /\ \A d \in Cycles \ {c} : cycle'[d] = cycle[d]
  BY <1>1
<1>. QED
  BY <1>2 DEF KeepsBatch, Exporting

LEMMA EndsIdle ==
  ASSUME SyncTypeOK, NEW c \in Cycles, Then(c, Idle) \/ Then(c, [Idle EXCEPT !.pc = "ask"])
  PROVE  \A d \in Cycles : KeepsBatch(d) \/ DropsBatch(d)
<1>1. PICK state \in {Idle, [Idle EXCEPT !.pc = "ask"]} : Then(c, state)
  OBVIOUS
<1>2. DOMAIN state.batch.rows = {} /\ state.pc \in {"idle", "ask"} /\ state.inbox = {}
  BY EmptyBatch, IdleCycle
<1>3. cycle'[c] = state /\ \A d \in Cycles \ {c} : KeepsBatch(d)
  BY <1>1, OtherCyclesKeep
<1>. QED
  BY <1>2, <1>3 DEF DropsBatch, Exporting

LEMMA CyclesAfter ==
  ASSUME SyncTypeInv, Next, ~\E c \in Cycles : SelectOrders(c)
  PROVE  acked \subseteq acked' /\ \A d \in Cycles : KeepsBatch(d) \/ DropsBatch(d)
<1>. USE DEF SyncTypeInv
<1>1. CASE UNCHANGED <<cycle, acked>>
  BY <1>1 DEF KeepsBatch, Exporting
<1>2. ASSUME NEW c \in Cycles, SelectDetails(c)
      PROVE  acked \subseteq acked' /\ \A d \in Cycles : KeepsBatch(d) \/ DropsBatch(d)
  <2>. DEFINE full == [cycle[c].batch EXCEPT
                         !.paid = {o \in DOMAIN cycle[c].batch.rows : ~Waiting(o)},
                         !.refunds = (DOMAIN cycle[c].batch.rows) \cap refund]
              state == [cycle[c] EXCEPT !.pc = "publish", !.part = 1, !.batch = full]
  <2>1. cycle[c] \in CycleStates /\ cycle[c].batch \in Batches
    BY DEF SyncTypeOK, CycleStates
  <2>2. full \in Batches /\ full.rows = cycle[c].batch.rows
    <3>1. DOMAIN cycle[c].batch.rows \subseteq Orders
      BY <2>1, BatchRows
    <3>. QED
      BY <2>1, <3>1 DEF Batches, SyncTypeOK
  <2>3. Then(c, state) /\ acked' = acked /\ cycle[c].pc = "details"
    BY <1>2 DEF SelectDetails, edgeVars, At
  <2>. HIDE DEF full
  <2>4. state.pc = "publish" /\ state.batch = full /\ state.inbox = cycle[c].inbox
    BY <2>1, <2>2, GoesOnWith, Zenon
  <2>. HIDE DEF state
  <2>5. cycle'[c] = state /\ \A d \in Cycles \ {c} : KeepsBatch(d)
    BY <2>3, OtherCyclesKeep
  <2>6. KeepsBatch(c)
    BY <2>2, <2>3, <2>4, <2>5 DEF KeepsBatch, Exporting
  <2>. QED
    BY <2>3, <2>5, <2>6
<1>3. ASSUME NEW c \in Cycles, PublishChunk(c)
      PROVE  acked \subseteq acked' /\ \A d \in Cycles : KeepsBatch(d) \/ DropsBatch(d)
  <2>1. cycle[c] \in CycleStates
    BY DEF SyncTypeOK
  <2>2. PICK state : /\ Then(c, state)
                     /\ \/ /\ state = [cycle[c] EXCEPT !.pc = "save"]
                           /\ Versions(cycle[c].batch) \subseteq acked'
                        \/ state = [cycle[c] EXCEPT !.part = @ + 1]
    BY <1>3 DEF PublishChunk
  <2>3. /\ state.batch = cycle[c].batch /\ state.inbox = cycle[c].inbox
        /\ \/ state.pc = cycle[c].pc
           \/ state.pc = "save" /\ Versions(cycle[c].batch) \subseteq acked'
    BY <2>1, <2>2 DEF CycleStates
  <2>4. cycle'[c] = state /\ \A d \in Cycles \ {c} : KeepsBatch(d)
    BY <2>2, OtherCyclesKeep
  <2>5. KeepsBatch(c)
    BY <1>3, <2>3, <2>4 DEF KeepsBatch, Exporting, PublishChunk, At
  <2>6. acked \subseteq acked'
    BY <1>3 DEF PublishChunk
  <2>. QED
    BY <2>4, <2>5, <2>6
<1>4. ASSUME NEW c \in Cycles, SaveCursor(c) \/ EndCycle(c) \/ Crash(c)
      PROVE  acked \subseteq acked' /\ \A d \in Cycles : KeepsBatch(d) \/ DropsBatch(d)
  BY <1>4, EndsIdle DEF SaveCursor, EndCycle, Crash, edgeVars
<1>5. ASSUME NEW c \in Cycles, Request(c)
      PROVE  acked \subseteq acked' /\ \A d \in Cycles : KeepsBatch(d) \/ DropsBatch(d)
  <2>1. cycle[c] \in CycleStates
    BY DEF SyncTypeOK
  <2>2. Then(c, [cycle[c] EXCEPT !.pc = "wait"]) /\ acked' = acked
    BY <1>5 DEF Request, edgeVars
  <2>3. /\ cycle'[c].batch = cycle[c].batch /\ cycle'[c].pc = "wait"
        /\ cycle'[c].inbox = cycle[c].inbox
        /\ \A d \in Cycles \ {c} : KeepsBatch(d)
    BY <2>1, <2>2, OtherCyclesKeep DEF CycleStates
  <2>. QED
    BY <2>2, <2>3 DEF KeepsBatch, Exporting
<1>6. ASSUME NEW c \in Cycles, NEW answer, NEW t, ImportCatalog(c, answer, t)
      PROVE  acked \subseteq acked' /\ \A d \in Cycles : KeepsBatch(d) \/ DropsBatch(d)
  <2>1. cycle[c] \in CycleStates
    BY DEF SyncTypeOK
  <2>2. acked' = acked
    BY <1>6 DEF ImportCatalog, edgeVars
  <2>3. CASE Then(c, Idle)
    BY <2>2, <2>3, EndsIdle
  <2>4. CASE Then(c, [cycle[c] EXCEPT !.inbox = @ \ {answer}])
    <3>1. /\ cycle'[c].batch = cycle[c].batch /\ cycle'[c].pc = cycle[c].pc
          /\ cycle'[c].inbox = cycle[c].inbox \ {answer}
          /\ \A d \in Cycles \ {c} : KeepsBatch(d)
      BY <2>1, <2>4, OtherCyclesKeep DEF CycleStates
    <3>. QED
      BY <2>2, <3>1 DEF KeepsBatch, Exporting
  <2>. QED
    BY <1>6, <2>3, <2>4 DEF ImportCatalog
<1>7. ASSUME NEW from \in requests, AnswerRequest(from)
      PROVE  acked \subseteq acked' /\ \A d \in Cycles : KeepsBatch(d) \/ DropsBatch(d)
  BY <1>7, AnswerTypes DEF AnswerRequest, KeepsBatch, Current, Exporting, edgeVars
<1>8. \/ UNCHANGED <<cycle, acked>>
      \/ \E c \in Cycles :
           \/ SelectDetails(c) \/ PublishChunk(c) \/ SaveCursor(c) \/ Request(c)
           \/ EndCycle(c) \/ Crash(c)
           \/ \E answer \in cycle[c].inbox, t \in Began : ImportCatalog(c, answer, t)
      \/ \E from \in requests : AnswerRequest(from)
  BY NextIs, EdgeWrites, CloudWrites DEF CycleSteps
<1>. QED
  BY <1>1, <1>2, <1>3, <1>4, <1>5, <1>6, <1>7, <1>8

(* SelectOrders: the batch holds the edge's rows, all of those that do not *)
(* lie beyond its last one and lie beyond the cursor.                      *)
LEMMA SelectedBatch ==
  ASSUME SyncTypeOK, NEW c \in Cycles, SelectOrders(c)
  PROVE  /\ \A d \in Cycles \ {c} : KeepsBatch(d)
         /\ \/ DropsBatch(c)
            \/ /\ cycle'[c].pc = "details" /\ cycle'[c].inbox = {}
               /\ DOMAIN cycle'[c].batch.rows # {}
               /\ DOMAIN cycle'[c].batch.rows \subseteq {o \in Orders : edge[o].status # "none"}
               /\ \A o \in DOMAIN cycle'[c].batch.rows :
                    /\ cycle'[c].batch.rows[o] = edge[o]
                    /\ \A p \in Orders :
                         Beyond(p, cursor) /\ Precedes(p, o) => p \in DOMAIN cycle'[c].batch.rows
<1>. DEFINE fresh == {o \in Orders : Beyond(o, cursor)}
            before(o) == {p \in fresh : Precedes(p, o)}
            chosen == {o \in fresh : Cardinality(before(o)) <= MaxBatch}
            batch == [rows |-> [o \in chosen |-> edge[o]], paid |-> {}, refunds |-> {}]
            state == IF chosen = {} THEN [Idle EXCEPT !.pc = "ask"]
                     ELSE [Idle EXCEPT !.pc = "details", !.id = begun', !.batch = batch]
<1>1. Then(c, state)
  BY DEF SelectOrders
<1>2. cycle'[c] = state /\ \A d \in Cycles \ {c} : KeepsBatch(d)
  <2>. HIDE DEF state
  <2>. QED
    BY <1>1, OtherCyclesKeep
<1>3. CASE chosen = {}
  <2>1. cycle'[c] = [Idle EXCEPT !.pc = "ask"]
    BY <1>2, <1>3
  <2>2. DropsBatch(c)
    BY <2>1, IdleCycle, EmptyBatch DEF DropsBatch, Exporting
  <2>. QED
    BY <1>2, <2>2
<1>4. CASE chosen # {}
  <2>1. chosen \subseteq {o \in Orders : edge[o].status # "none"}
    BY DEF Beyond
  <2>2. \A o \in chosen, p \in fresh : Precedes(p, o) => p \in chosen
    <3>1. SUFFICES ASSUME NEW o \in chosen, NEW p \in fresh, Precedes(p, o)
                   PROVE  Cardinality(before(p)) <= MaxBatch
      OBVIOUS
    <3>2. \A q \in Orders : edge[q].at \in Int /\ q \in Nat
      BY OrdersAssumption DEF SyncTypeOK, OrderRows
    <3>3. before(p) \in SUBSET before(o)
      BY <3>1, <3>2 DEF Precedes
    <3>4. IsFiniteSet(before(o))
      BY OrdersAssumption, FS_Subset
    <3>. HIDE DEF before, fresh
    <3>5. /\ Cardinality(before(p)) <= Cardinality(before(o))
          /\ Cardinality(before(p)) \in Nat /\ Cardinality(before(o)) \in Nat
      BY <3>3, <3>4, FS_Subset, FS_CardinalityType
    <3>. QED
      BY <3>1, <3>5, BoundsAssumption
  <2>3. batch.rows = [o \in chosen |-> edge[o]]
    OBVIOUS
  <2>. HIDE DEF chosen
  <2>4. cycle'[c].pc = "details" /\ cycle'[c].batch = batch /\ cycle'[c].inbox = {}
    <3>1. batch \in Batches
      <4>1. \A o \in chosen : o \in Orders /\ edge[o] \in Row
        BY <2>1 DEF SyncTypeOK, OrderRows, Row
      <4>2. batch.rows \in [chosen -> Row] /\ chosen \in SUBSET Orders
        BY <4>1
      <4>3. batch.rows \in RowMaps
        BY <4>2 DEF RowMaps
      <4>. QED
        BY <4>3 DEF Batches
    <3>2. begun' \in Int
      BY DEF SyncTypeOK, SelectOrders
    <3>3. cycle'[c] = [Idle EXCEPT !.pc = "details", !.id = begun', !.batch = batch]
      BY <1>2, <1>4
    <3>. DEFINE began == [Idle EXCEPT !.pc = "details", !.id = begun', !.batch = batch]
    <3>. HIDE DEF batch
    <3>4. began.pc = "details" /\ began.batch = batch /\ began.inbox = {}
      BY <3>1, <3>2, BeginsWith, Zenon
    <3>. HIDE DEF began
    <3>. QED
      BY <3>3, <3>4 DEF began
  <2>5. DOMAIN cycle'[c].batch.rows = chosen
        /\ \A o \in chosen : cycle'[c].batch.rows[o] = edge[o]
    BY <2>3, <2>4
  <2>. QED
    BY <1>2, <1>4, <2>1, <2>2, <2>4, <2>5
<1>. QED
  BY <1>3, <1>4

-----------------------------------------------------------------------------
LEMMA SyncTypesStep ==
  ASSUME SyncTypeInv, [Next]_vars
  PROVE  SyncTypeInv'
<1>. USE DEF SyncTypeInv
<1>1. SyncTypeOK'
  <2>1. CASE UNCHANGED vars
    BY <2>1 DEF SyncTypeOK, vars
  <2>2. ASSUME NEW c \in Cycles, SaveCursor(c)
        PROVE  SyncTypeOK'
    BY <2>2, SaveTypes DEF SaveCursor, At, Exporting
  <2>3. CASE Restart
    BY <2>3 DEF SyncTypeOK, Restart, edgeVars, historyVars, cloudVars, menuVars
  <2>. QED
    BY <2>1, <2>2, <2>3, MoveTypes, SelectTypes, DetailsTypes, PublishTypes, CycleTypes,
       CatalogTypes, EditTypes, AnswerTypes, OrderTypes, SweepTypes
    DEF Next
<1>2. ASSUME NEW d \in Cycles, Exporting(d)'
      PROVE  DOMAIN cycle'[d].batch.rows # {}
  <2>1. CASE UNCHANGED vars
    BY <1>2, <2>1 DEF vars, Exporting
  <2>2. CASE \E c \in Cycles : SelectOrders(c)
    BY <1>2, <2>2, SelectedBatch DEF KeepsBatch, DropsBatch
  <2>3. CASE Next /\ ~\E c \in Cycles : SelectOrders(c)
    BY <1>2, <2>3, CyclesAfter DEF KeepsBatch, DropsBatch
  <2>. QED
    BY <2>1, <2>2, <2>3
<1>. QED
  BY <1>1, <1>2

LEMMA SyncTypesHold == Spec => []SyncTypeInv
<1>1. Init => SyncTypeInv
  <2>1. Init => \A c \in Cycles : cycle[c].pc = "idle"
    BY IdleCycle DEF Init
  <2>. QED
    BY <2>1, TypesAtStart DEF SyncTypeInv, Exporting
<1>2. SyncTypeInv /\ [Next]_vars => SyncTypeInv'
  BY SyncTypesStep
<1>. QED
  BY <1>1, <1>2, PTL DEF Spec

(* The types.  That the cursor stays an instant and an id is more than it  *)
(* looks: it needs that no cycle saves the cursor of an empty batch.       *)
THEOREM SyncTypes == Spec => []SyncTypeOK
BY SyncTypesHold, PTL DEF SyncTypeInv

-----------------------------------------------------------------------------
(* Nothing is left behind.                                                 *)

LEMMA EdgeTypes ==
  ASSUME SyncTypeOK, NEW o \in Orders
  PROVE  /\ edge[o] \in [status : Statuses \cup {"none"}, at : Int]
         /\ edge[o].at \in Int /\ edge[o].status \in Statuses \cup {"none"} /\ o \in Nat
BY OrdersAssumption DEF SyncTypeOK, OrderRows

LEMMA MovedOrder ==
  ASSUME SyncTypeInv, NEW o \in Orders, NEW s \in Reach, NEW at, EdgeMove(o, s, at)
  PROVE  /\ edge'[o] = [status |-> s, at |-> at] /\ s \in Statuses
         /\ edge'[o].status = s /\ edge'[o].at = at
         /\ at \in Nat /\ at <= now' /\ now <= now' /\ now \in Nat /\ now' \in Nat
         /\ \A p \in Orders \ {o} : edge'[p] = edge[p]
         /\ at > selected \/ <<o, edge'[o]>> \in straggling'
<1>1. /\ at \in Nat /\ at <= now' /\ now <= now' /\ now \in Nat /\ now' \in Nat
      /\ selected \in Int
  BY DEF EdgeMove, Began, SyncTypeInv, SyncTypeOK
<1>2. /\ edge'[o] = [status |-> s, at |-> at]
      /\ \A p \in Orders \ {o} : edge'[p] = edge[p]
  BY DEF EdgeMove, SyncTypeInv, SyncTypeOK, OrderRows
<1>3. s \in Statuses
  BY OrdersAssumption DEF EdgeMove
<1>4. at > selected \/ <<o, edge'[o]>> \in straggling'
  BY <1>1 DEF EdgeMove
<1>. QED
  BY <1>1, <1>2, <1>3, <1>4

LEMMA NowAfter ==
  ASSUME SyncTypeInv, Next
  PROVE  now \in Nat /\ now' \in Nat /\ now <= now'
<1>1. now \in Nat
  BY DEF SyncTypeInv, SyncTypeOK
<1>2. CASE now' = now
  BY <1>1, <1>2
<1>3. ASSUME NEW o \in Orders, NEW s \in Reach, NEW at, EdgeMove(o, s, at)
      PROVE  now' \in Nat /\ now <= now'
  BY <1>3, MovedOrder
<1>4. ASSUME NEW r \in Rows, NEW at, CatalogEdit(r, at)
      PROVE  now' \in Nat /\ now <= now'
  BY <1>1, <1>4 DEF CatalogEdit
<1>5. \/ now' = now
      \/ \E o \in Orders, s \in Reach : \E at : EdgeMove(o, s, at)
      \/ \E r \in Rows : \E at : CatalogEdit(r, at)
  BY NextIs, CycleWrites, CloudWrites DEF EdgeSteps
<1>. QED
  BY <1>1, <1>2, <1>3, <1>4, <1>5

(* The clock, the edge's stamps and the history.                           *)
LEMMA ClockStep ==
  ASSUME SyncTypeInv, Stamps, Next
  PROVE  /\ now \in Nat /\ now' \in Nat /\ now <= now'
         /\ straggling \subseteq straggling' /\ crossed \subseteq crossed'
         /\ selected' = selected \/ selected' = now
         /\ Stamps'
         /\ \/ edge' = edge
            \/ \E o \in Orders, s \in Reach : \E at : EdgeMove(o, s, at)
<1>1. \/ edge' = edge
      \/ \E o \in Orders, s \in Reach : \E at : EdgeMove(o, s, at)
  BY NextIs, CycleWrites, CloudWrites DEF EdgeSteps
<1>2. now \in Nat /\ now' \in Nat /\ now <= now'
  BY NowAfter
<1>3. straggling \subseteq straggling' /\ crossed \subseteq crossed'
  BY NextIs, EdgeWrites, CycleWrites, CloudWrites
<1>4. selected' = selected \/ selected' = now
  BY NextIs, EdgeWrites, CycleWrites, CloudWrites
<1>5. CASE edge' = edge
  <2>1. \A o \in Orders : edge[o].at \in Int
    BY EdgeTypes DEF SyncTypeInv
  <2>. QED
    BY <1>1, <1>2, <1>3, <1>4, <1>5, <2>1 DEF Stamps
<1>6. ASSUME NEW o \in Orders, NEW s \in Reach, NEW at, EdgeMove(o, s, at)
      PROVE  Stamps'
  <2>1. \A p \in Orders : edge[p].at \in Int
    BY EdgeTypes DEF SyncTypeInv
  <2>2. edge'[o].at <= now' /\ \A p \in Orders \ {o} : edge'[p] = edge[p]
    BY <1>6, MovedOrder
  <2>. QED
    BY <1>2, <2>1, <2>2 DEF Stamps
<1>. QED
  BY <1>1, <1>2, <1>3, <1>4, <1>5, <1>6

LEMMA NoneIsNoStatus == "none" \notin Statuses
BY DEF Statuses

LEMMA EdgeAfter ==
  ASSUME SyncTypeInv, Stamps, Next, NEW o \in Orders
  PROVE  \/ edge'[o] = edge[o]
         \/ \E s \in Reach : \E at : EdgeMove(o, s, at)
<1>1. ASSUME NEW p \in Orders, NEW s \in Reach, NEW at, EdgeMove(p, s, at), p # o
      PROVE  edge'[o] = edge[o]
  BY <1>1, MovedOrder
<1>. QED
  BY <1>1, ClockStep

LEMMA LastRowBefore ==
  ASSUME NEW b \in Batches, DOMAIN b.rows # {}, NEW n \in Int,
         \A o \in DOMAIN b.rows : b.rows[o].at <= n
  PROVE  LastRow(b).at \in Int /\ LastRow(b).id \in Int /\ LastRow(b).at <= n
<1>1. PICK last \in DOMAIN b.rows : LastRow(b) = [at |-> b.rows[last].at, id |-> last]
  BY LastRowIs
<1>2. last \in Orders /\ b.rows[last] \in Row
  BY BatchRows
<1>. QED
  BY <1>1, <1>2, OrdersAssumption DEF Row

(* Who moves is beyond that place or a straggler, whoever else was.        *)
LEMMA MoveIsBeyond ==
  ASSUME SyncTypeInv, NEW o \in Orders, NEW s \in Reach, NEW at, EdgeMove(o, s, at),
         NEW place, place.at \in Int, place.at <= selected,
         NEW p \in Orders, edge'[p].status # "none",
         ~(\/ edge'[p].at > place.at
           \/ edge'[p].at = place.at /\ p > place.id)
  PROVE  \/ <<p, edge'[p]>> \in straggling'
         \/ edge'[p] = edge[p] /\ Passed(p, place)
<1>1. selected \in Int
  BY DEF SyncTypeInv, SyncTypeOK
<1>2. CASE p = o
  <2>1. /\ edge'[o].at = at /\ at \in Nat
        /\ at > selected \/ <<o, edge'[o]>> \in straggling'
    BY MovedOrder
  <2>2. CASE at > selected
    BY <1>1, <1>2, <2>1, <2>2
  <2>. QED
    BY <1>2, <2>1, <2>2
<1>3. CASE p # o
  <2>1. edge'[p] = edge[p]
    BY <1>3, MovedOrder
  <2>. QED
    BY <2>1 DEF Passed, Beyond
<1>. QED
  BY <1>2, <1>3

(* A cycle that keeps its batch goes on covering what is behind it.        *)
LEMMA KeptBatchHolds ==
  ASSUME SyncTypeInv, SyncTypeOK', Stamps, selected <= now, Next, acked \subseteq acked',
         NEW c \in Cycles, KeepsBatch(c), Exporting(c)', Holding(c)
  PROVE  Holding(c)'
<1>1. /\ cycle[c].batch \in Batches /\ DOMAIN cycle[c].batch.rows # {}
      /\ cycle'[c].batch.rows = cycle[c].batch.rows
      /\ selected \in Int /\ now \in Int
      /\ selected' = selected \/ selected' = now
      /\ straggling \subseteq straggling'
  BY ClockStep DEF SyncTypeInv, SyncTypeOK, CycleStates, KeepsBatch
<1>2. LastRow(cycle[c].batch)' = LastRow(cycle[c].batch)
  BY <1>1 DEF LastRow
<1>3. /\ LastRow(cycle[c].batch).at \in Int
      /\ LastRow(cycle[c].batch).at <= selected
  <2>1. \A o \in DOMAIN cycle[c].batch.rows : cycle[c].batch.rows[o].at <= selected
    BY DEF Holding
  <2>. QED
    BY <1>1, <2>1, LastRowBefore
<1>4. \A o \in DOMAIN cycle'[c].batch.rows : cycle'[c].batch.rows[o].at <= selected'
  <2>1. \A o \in DOMAIN cycle[c].batch.rows : cycle[c].batch.rows[o].at \in Int
    BY <1>1, BatchRows DEF Row
  <2>2. selected <= selected'
    BY <1>1
  <2>. QED
    BY <1>1, <2>1, <2>2 DEF Holding
<1>5. Covers(cycle[c].batch)'
  <2>1. SUFFICES ASSUME NEW p \in Orders, Passed(p, LastRow(cycle[c].batch))'
                 PROVE  \/ <<p, edge'[p]>> \in acked \cup straggling'
                        \/ p \in DOMAIN cycle[c].batch.rows /\ cycle[c].batch.rows[p] = edge'[p]
    BY <1>1 DEF Covers
  <2>2. CASE edge' = edge
    BY <1>1, <1>2, <2>1, <2>2 DEF Holding, Covers, Passed, Beyond
  <2>3. CASE \E o \in Orders, s \in Reach : \E at : EdgeMove(o, s, at)
    <3>1. \/ <<p, edge'[p]>> \in straggling'
          \/ edge'[p] = edge[p] /\ Passed(p, LastRow(cycle[c].batch))
      BY <1>2, <1>3, <2>1, <2>3, MoveIsBeyond DEF Passed, Beyond
    <3>. QED
      BY <1>1, <3>1 DEF Holding, Covers
  <2>. QED
    BY <2>2, <2>3, ClockStep
<1>6. cycle'[c].pc = "save" => Versions(cycle'[c].batch) \subseteq acked'
  BY <1>1 DEF Holding, KeepsBatch, Versions
<1>. QED
  BY <1>4, <1>5, <1>6 DEF Holding

(* A cycle that begins covers it because the cursor's promise covers what  *)
(* lies before its batch, and the select left no gap after.                *)
LEMMA BegunBatchHolds ==
  ASSUME ExportInv, NEW c \in Cycles, SelectOrders(c), Exporting(c)', SyncTypeOK'
  PROVE  Holding(c)'
<1>. DEFINE rows == cycle'[c].batch.rows
<1>1. /\ cycle'[c].pc = "details" /\ DOMAIN rows # {} /\ DOMAIN rows \subseteq Orders
      /\ \A o \in DOMAIN rows :
           /\ rows[o] = edge[o]
           /\ \A p \in Orders : Beyond(p, cursor) /\ Precedes(p, o) => p \in DOMAIN rows
  BY SelectedBatch DEF ExportInv, SyncTypeInv, DropsBatch
<1>2. /\ edge' = edge /\ acked' = acked /\ straggling' = straggling
      /\ selected' = now /\ now \in Nat
  BY DEF SelectOrders, edgeVars, ExportInv, SyncTypeInv, SyncTypeOK
<1>3. \A o \in DOMAIN rows : rows[o].at <= selected'
  BY <1>1, <1>2, EdgeTypes DEF ExportInv, SyncTypeInv, Stamps
<1>4. PICK last \in DOMAIN rows :
        LastRow(cycle'[c].batch) = [at |-> rows[last].at, id |-> last]
  <2>1. cycle'[c].batch \in Batches
    BY DEF SyncTypeOK, CycleStates
  <2>. QED
    BY <1>1, <2>1, LastRowIs
<1>5. ASSUME NEW o \in Orders, Passed(o, LastRow(cycle'[c].batch))
      PROVE  <<o, edge[o]>> \in acked \cup straggling \/ (o \in DOMAIN rows /\ rows[o] = edge[o])
  <2>1. LastRow(cycle'[c].batch).at = edge[last].at /\ LastRow(cycle'[c].batch).id = last
        /\ last \in Orders
    BY <1>1, <1>4
  <2>2. edge[o].at \in Int /\ edge[last].at \in Int /\ o \in Nat /\ last \in Nat
    BY <2>1, EdgeTypes DEF ExportInv, SyncTypeInv
  <2>3. Precedes(o, last)
    BY <1>5, <2>1, <2>2 DEF Passed, Beyond, Precedes
  <2>4. CASE Beyond(o, cursor)
    BY <1>1, <2>3, <2>4
  <2>5. CASE ~Beyond(o, cursor)
    <3>1. cursor.at \in Int /\ cursor.id \in Int
      BY DEF ExportInv, SyncTypeInv, SyncTypeOK
    <3>2. /\ edge[o].status # "none"
          /\ \/ edge[o].at < cursor.at
             \/ edge[o].at = cursor.at /\ o <= cursor.id
      BY <1>5, <2>2, <2>5, <3>1 DEF Passed, Beyond
    <3>. QED
      BY <3>2 DEF ExportInv, NothingLeftBehind
  <2>. QED
    BY <2>4, <2>5
<1>6. Covers(cycle[c].batch)'
  BY <1>2, <1>5 DEF Covers, Passed, Beyond
<1>. QED
  BY <1>1, <1>3, <1>6 DEF Holding

LEMMA CursorStep ==
  ASSUME ExportInv, SyncTypeOK', Next
  PROVE  selected' <= now' /\ cursor'.at <= selected' /\ NothingLeftBehind'
<1>1. /\ SyncTypeInv /\ SyncTypeOK /\ Stamps /\ cursor.at \in Int /\ cursor.id \in Int
      /\ now \in Nat /\ now' \in Nat /\ now <= now' /\ selected \in Int
      /\ selected <= now /\ cursor.at <= selected
      /\ selected' = selected \/ selected' = now
      /\ straggling \subseteq straggling'
  BY ClockStep DEF ExportInv, SyncTypeInv, SyncTypeOK
<1>2. \A o \in Orders : edge[o].at \in Int /\ o \in Nat
  BY <1>1, EdgeTypes
<1>3. acked \subseteq acked'
  <2>1. CASE \E c \in Cycles : SelectOrders(c)
    BY <2>1 DEF SelectOrders, edgeVars
  <2>. QED
    BY <1>1, <2>1, CyclesAfter
<1>4. selected' <= now' /\ selected <= selected' /\ selected' \in Int
  BY <1>1
<1>5. CASE cursor' = cursor
  <2>1. cursor'.at <= selected'
    BY <1>1, <1>4, <1>5
  <2>2. ASSUME NEW p \in Orders, edge'[p].status # "none",
               \/ edge'[p].at < cursor.at
               \/ edge'[p].at = cursor.at /\ p <= cursor.id
        PROVE  <<p, edge'[p]>> \in acked \cup straggling'
    <3>1. CASE edge' = edge
      BY <1>1, <2>2, <3>1 DEF ExportInv, NothingLeftBehind
    <3>2. CASE \E o \in Orders, s \in Reach : \E at : EdgeMove(o, s, at)
      <4>1. edge'[p].at \in Int /\ p \in Nat
        BY OrdersAssumption DEF SyncTypeOK, OrderRows
      <4>2. <<p, edge'[p]>> \in straggling' \/ edge'[p] = edge[p]
        BY <1>1, <2>2, <3>2, <4>1, MoveIsBeyond
      <4>. QED
        BY <1>1, <2>2, <4>2 DEF ExportInv, NothingLeftBehind
    <3>. QED
      BY <1>1, <3>1, <3>2, ClockStep
  <2>. QED
    BY <1>3, <1>4, <1>5, <2>1, <2>2 DEF NothingLeftBehind
<1>6. ASSUME NEW c \in Cycles, SaveCursor(c)
      PROVE  cursor'.at <= selected' /\ NothingLeftBehind'
  <2>1. /\ cycle[c].pc = "save" /\ Exporting(c) /\ cursor' = LastRow(cycle[c].batch)
        /\ UNCHANGED <<now, edge, acked, selected, straggling>>
    BY <1>6 DEF SaveCursor, At, Exporting, edgeVars, historyVars
  <2>2. /\ cycle[c].batch \in Batches /\ DOMAIN cycle[c].batch.rows # {} /\ Holding(c)
    BY <1>1, <2>1 DEF ExportInv, SyncTypeInv, SyncTypeOK, CycleStates, Holding
  <2>3. cursor'.at <= selected' /\ cursor'.at \in Int /\ cursor'.id \in Int
    BY <1>1, <2>1, <2>2, LastRowBefore DEF Holding
  <2>4. ASSUME NEW o \in Orders, edge[o].status # "none",
               \/ edge[o].at < cursor'.at
               \/ edge[o].at = cursor'.at /\ o <= cursor'.id
        PROVE  <<o, edge[o]>> \in acked \cup straggling
    <3>1. Passed(o, LastRow(cycle[c].batch))
      BY <1>2, <2>1, <2>3, <2>4 DEF Passed, Beyond
    <3>2. o \in DOMAIN cycle[c].batch.rows => <<o, cycle[c].batch.rows[o]>> \in acked
      BY <2>1, <2>2 DEF Holding, Versions
    <3>. QED
      BY <2>2, <3>1, <3>2 DEF Holding, Covers
  <2>. QED
    BY <2>1, <2>3, <2>4 DEF NothingLeftBehind
<1>7. cursor' = cursor \/ \E c \in Cycles : SaveCursor(c)
  BY NextIs, EdgeWrites, CycleWrites, CloudWrites
<1>. QED
  BY <1>4, <1>5, <1>6, <1>7

LEMMA ExportStep ==
  ASSUME ExportInv, SyncTypeInv', [Next]_vars
  PROVE  ExportInv'
<1>1. CASE UNCHANGED vars
  <2>1. \A c \in Cycles : Exporting(c)' => Holding(c)'
    BY <1>1 DEF vars, ExportInv, Exporting, Holding, Covers, Passed, Beyond
  <2>2. Stamps' /\ selected' <= now' /\ cursor'.at <= selected' /\ NothingLeftBehind'
    BY <1>1 DEF vars, ExportInv, Stamps, NothingLeftBehind
  <2>. QED
    BY <2>1, <2>2 DEF ExportInv
<1>2. CASE Next
  <2>1. /\ Stamps' /\ SyncTypeOK'
        /\ selected' <= now' /\ cursor'.at <= selected' /\ NothingLeftBehind'
    BY <1>2, ClockStep, CursorStep DEF ExportInv, SyncTypeInv
  <2>2. ASSUME NEW c \in Cycles, Exporting(c)'
        PROVE  Holding(c)'
    <3>1. CASE \E d \in Cycles : SelectOrders(d)
      <4>1. PICK d \in Cycles : SelectOrders(d)
        BY <3>1
      <4>2. CASE c = d
        BY <2>1, <2>2, <4>1, <4>2, BegunBatchHolds
      <4>3. CASE c # d
        <5>1. KeepsBatch(c) /\ acked \subseteq acked'
          BY <4>1, <4>3, SelectedBatch DEF SelectOrders, edgeVars, ExportInv, SyncTypeInv
        <5>2. Exporting(c) /\ Holding(c)
          BY <2>2, <5>1 DEF KeepsBatch, ExportInv, Holding
        <5>. QED
          BY <1>2, <2>1, <2>2, <5>1, <5>2, KeptBatchHolds DEF ExportInv
      <4>. QED
        BY <4>2, <4>3
    <3>2. CASE ~\E d \in Cycles : SelectOrders(d)
      <4>1. KeepsBatch(c) /\ acked \subseteq acked'
        BY <1>2, <2>2, <3>2, CyclesAfter DEF ExportInv, DropsBatch
      <4>2. Exporting(c) /\ Holding(c)
        BY <2>2, <4>1 DEF KeepsBatch, ExportInv, Holding
      <4>. QED
        BY <1>2, <2>1, <2>2, <4>1, <4>2, KeptBatchHolds DEF ExportInv
    <3>. QED
      BY <3>1, <3>2
  <2>. QED
    BY <2>1, <2>2 DEF ExportInv, Holding
<1>. QED
  BY <1>1, <1>2

(* export-orders.ts:108: whichever cycle writes the cursor, over whatever, *)
(* and wherever it dies, every version of an order the cursor has passed   *)
(* was published in full or is a straggler: its transaction was open, or   *)
(* began within the millisecond, when orders were last selected before it  *)
(* committed.                                                              *)
THEOREM NothingIsLeftBehind == Spec => []NothingLeftBehind
<1>1. Init => ExportInv
  <2>1. Init => \A c \in Cycles : cycle[c].pc = "idle"
    BY IdleCycle DEF Init
  <2>2. Init => Stamps /\ selected <= now /\ cursor.at <= selected
    BY StartsWith, BoundsAssumption DEF Init, Stamps, Start, Never
  <2>3. Init => NothingLeftBehind
    <3>. SUFFICES ASSUME Init PROVE NothingLeftBehind
      OBVIOUS
    <3>1. cursor.at = Never /\ now \in Nat
      BY BoundsAssumption DEF Init, Start
    <3>2. \A o \in Orders : edge[o].status # "none" => edge[o].at = now
      BY StartsWith
    <3>. QED
      BY <3>1, <3>2 DEF NothingLeftBehind, Never
  <2>. QED
    BY <2>1, <2>2, <2>3, TypesAtStart DEF ExportInv, SyncTypeInv, Exporting
<1>2. ExportInv /\ [Next]_vars => ExportInv'
  BY SyncTypesStep, ExportStep DEF ExportInv
<1>3. ExportInv => NothingLeftBehind
  BY DEF ExportInv
<1>. QED
  BY <1>1, <1>2, <1>3, PTL DEF Spec

-----------------------------------------------------------------------------
(* No order goes back.  First, what may still become of an order.          *)

LEMMA OnwardSelf ==
  ASSUME NEW s \in Statuses
  PROVE  s \in Onward[s]
BY DEF Onward

LEMMA OnwardMove ==
  ASSUME NEW t \in Statuses, NEW s \in Onward[t], NEW u \in Allowed[s], u \in Statuses
  PROVE  u \in Onward[t]
<1>1. s \in Statuses /\ \A S \in Closed : t \in S => s \in S
  BY DEF Onward
<1>2. ASSUME NEW S \in Closed, t \in S
      PROVE  u \in S
  <2>1. Allowed[s] \subseteq S
    BY <1>1, <1>2 DEF Closed
  <2>. QED
    BY <2>1
<1>. QED
  BY <1>2 DEF Onward

LEMMA OnwardOnward ==
  ASSUME NEW u \in Statuses, NEW t \in Onward[u], NEW s \in Onward[t]
  PROVE  s \in Onward[u] /\ s \in Statuses /\ t \in Statuses
<1>1. t \in Statuses
  BY DEF Onward
<1>. QED
  BY <1>1 DEF Onward

(* A refund that failed reopens the order, so that a dispatched order may  *)
(* be confirmed again, and a refunded one rejected again.                  *)
LEMMA ReopenedOrders ==
  /\ "PAYMENT_CONFIRMED" \in Onward["DISPATCHED"]
  /\ "REJECTED" \in Onward["REFUND_PENDING"]
<1>1. /\ "REJECTED" \in Allowed["DISPATCHED"]
      /\ "REFUND_PENDING" \in Allowed["REJECTED"]
      /\ "REFUND_FAILED" \in Allowed["REFUND_PENDING"]
      /\ "RECONCILIATION_REQUIRED" \in Allowed["REFUND_FAILED"]
      /\ "PAYMENT_CONFIRMED" \in Allowed["RECONCILIATION_REQUIRED"]
      /\ "DISPATCHED" \in Allowed["PAYMENT_CONFIRMED"]
  BY DEF Allowed, Statuses
<1>2. {"DISPATCHED", "REJECTED", "REFUND_PENDING", "REFUND_FAILED",
       "RECONCILIATION_REQUIRED", "PAYMENT_CONFIRMED"} \subseteq Statuses
  BY DEF Statuses
<1>3. "REJECTED" \in Onward["DISPATCHED"]
  BY <1>1, <1>2, OnwardSelf, OnwardMove
<1>4. "REFUND_FAILED" \in Onward["REFUND_PENDING"]
  BY <1>1, <1>2, OnwardSelf, OnwardMove
<1>5. "PAYMENT_CONFIRMED" \in Onward["REFUND_PENDING"]
  <2>1. "RECONCILIATION_REQUIRED" \in Onward["REFUND_PENDING"]
    BY <1>1, <1>2, <1>4, OnwardMove
  <2>. QED
    BY <1>1, <1>2, <2>1, OnwardMove
<1>6. "PAYMENT_CONFIRMED" \in Onward["DISPATCHED"]
  <2>1. "REFUND_PENDING" \in Onward["DISPATCHED"]
    BY <1>1, <1>2, <1>3, OnwardMove
  <2>. QED
    BY <1>2, <1>5, <2>1, OnwardOnward
<1>7. "REJECTED" \in Onward["REFUND_PENDING"]
  <2>1. "DISPATCHED" \in Onward["REFUND_PENDING"]
    BY <1>1, <1>2, <1>5, OnwardMove
  <2>. QED
    BY <1>1, <1>2, <2>1, OnwardMove
<1>. QED
  BY <1>6, <1>7

(* Whoever paid does not expire.                                           *)
LEMMA PaidDoesNotExpire ==
  ASSUME NEW s \in Statuses \ {"CREATED", "PAYMENT_PENDING", "PAYMENT_EXPIRED"}
  PROVE  "PAYMENT_EXPIRED" \notin Onward[s]
<1>. DEFINE S == Statuses \ {"CREATED", "PAYMENT_PENDING", "PAYMENT_EXPIRED"}
<1>1. \A t \in S : Allowed[t] \subseteq S
  BY DEF Allowed, Statuses
<1>2. S \in Closed
  BY <1>1 DEF Closed
<1>. QED
  BY <1>2 DEF Onward

LEMMA Moves ==
  ASSUME NEW s \in Statuses, NEW t \in Allowed[s]
  PROVE  t # "CREATED" /\ (t = "PAYMENT_PENDING" => s = "CREATED")
BY DEF Allowed, Statuses

LEMMA SweepMoves ==
  /\ "DISPATCHED" \in Onward["PAYMENT_CONFIRMED"]
  /\ "PAYMENT_EXPIRED" \in Onward["PAYMENT_PENDING"]
  /\ "REFUND_PENDING" \in Onward["REJECTED"]
<1>1. /\ "DISPATCHED" \in Allowed["PAYMENT_CONFIRMED"]
      /\ "PAYMENT_EXPIRED" \in Allowed["PAYMENT_PENDING"]
      /\ "REFUND_PENDING" \in Allowed["REJECTED"]
  BY DEF Allowed, Statuses
<1>2. {"DISPATCHED", "PAYMENT_CONFIRMED", "PAYMENT_EXPIRED", "PAYMENT_PENDING",
       "REFUND_PENDING", "REJECTED"} \subseteq Statuses
  BY DEF Statuses
<1>. QED
  BY <1>1, <1>2, OnwardSelf, OnwardMove

(* The versions that are about: a step adds none but the one it stamps.    *)
LEMMA ToldIs ==
  ASSUME SyncTypeOK, NEW o \in Orders
  PROVE  /\ \A v \in Told(o) : v \in Row /\ v.status \in Statuses /\ v.at \in Int
         /\ edge[o].status # "none" => edge[o] \in Told(o)
         /\ \A c \in Cycles :
              o \in DOMAIN cycle[c].batch.rows => cycle[c].batch.rows[o] \in Told(o)
         /\ \A m \in received : o \in DOMAIN m.batch.rows => m.batch.rows[o] \in Told(o)
<1>1. Flying \subseteq Batches
  BY DEF Flying, SyncTypeOK, CycleStates
<1>2. \A b \in Flying : o \in DOMAIN b.rows => b.rows[o] \in Row
  BY <1>1, BatchRows
<1>3. Present(o) \subseteq Row
  BY EdgeTypes DEF Present, Row
<1>4. \A v \in Told(o) : v \in Row
  <2>1. \A v \in Exported(o) : v \in Row
    BY <1>2 DEF Exported
  <2>. QED
    BY <1>3, <2>1 DEF Told
<1>5. \A v \in Row : v.status \in Statuses /\ v.at \in Int
  BY DEF Row
<1>6. \A b \in Flying : o \in DOMAIN b.rows => b.rows[o] \in Told(o)
  BY DEF Told, Exported
<1>7. /\ \A c \in Cycles : cycle[c].batch \in Flying
      /\ \A m \in received : m.batch \in Flying
  BY DEF Flying
<1>. QED
  BY <1>4, <1>5, <1>6, <1>7 DEF Told, Present

LEMMA ExportedIs ==
  ASSUME SyncTypeOK, NEW o \in Orders
  PROVE  /\ Exported(o) \subseteq Told(o)
         /\ \A c \in Cycles :
              o \in DOMAIN cycle[c].batch.rows => cycle[c].batch.rows[o] \in Exported(o)
         /\ \A m \in received : o \in DOMAIN m.batch.rows => m.batch.rows[o] \in Exported(o)
<1>1. \A b \in Flying : o \in DOMAIN b.rows => b.rows[o] \in Exported(o)
  BY DEF Exported
<1>2. /\ \A c \in Cycles : cycle[c].batch \in Flying
      /\ \A m \in received : m.batch \in Flying
  BY DEF Flying
<1>. QED
  BY <1>1, <1>2 DEF Told

LEMMA ReceivedAfter ==
  ASSUME Next, NEW m \in received'
  PROVE  \/ m \in received
         \/ m.at = now /\ now' = now /\ \E c \in Cycles : m.batch = cycle[c].batch
<1>1. ASSUME NEW c \in Cycles, PublishChunk(c)
      PROVE  m \in received \/ (m.at = now /\ now' = now /\ m.batch = cycle[c].batch)
  BY <1>1 DEF PublishChunk, Envelope
<1>2. (\E c \in Cycles : PublishChunk(c)) \/ received' \subseteq received
  BY NextIs, EdgeWrites, CycleWrites, CloudWrites
<1>. QED
  BY <1>1, <1>2

LEMMA ExportedAfter ==
  ASSUME SyncTypeInv, Next, NEW o \in Orders, NEW v \in Exported(o)'
  PROVE  \/ v \in Exported(o)
         \/ /\ v = edge[o] /\ edge[o].status # "none" /\ selected' = now
            /\ edge' = edge /\ now' = now
<1>. USE DEF SyncTypeInv
<1>1. ASSUME NEW c \in Cycles, o \in DOMAIN cycle'[c].batch.rows, v = cycle'[c].batch.rows[o]
      PROVE  \/ v \in Exported(o)
             \/ /\ v = edge[o] /\ edge[o].status # "none" /\ selected' = now
                /\ edge' = edge /\ now' = now
  <2>1. CASE KeepsBatch(c)
    BY <1>1, <2>1, ExportedIs DEF KeepsBatch
  <2>2. CASE DropsBatch(c)
    BY <1>1, <2>2 DEF DropsBatch
  <2>3. CASE \E d \in Cycles : SelectOrders(d)
    <3>1. PICK d \in Cycles : SelectOrders(d)
      BY <2>3
    <3>2. CASE c = d
      <4>1. v = edge[o] /\ edge[o].status # "none"
        BY <1>1, <2>2, <3>1, <3>2, SelectedBatch DEF DropsBatch
      <4>. QED
        BY <3>1, <4>1 DEF SelectOrders, edgeVars
    <3>3. CASE c # d
      BY <2>1, <3>1, <3>3, SelectedBatch
    <3>. QED
      BY <3>2, <3>3
  <2>. QED
    BY <2>1, <2>2, <2>3, CyclesAfter
<1>2. ASSUME NEW m \in received', o \in DOMAIN m.batch.rows, v = m.batch.rows[o]
      PROVE  v \in Exported(o)
  BY <1>2, ReceivedAfter, ExportedIs
<1>3. \/ \E c \in Cycles : o \in DOMAIN cycle'[c].batch.rows /\ v = cycle'[c].batch.rows[o]
      \/ \E m \in received' : o \in DOMAIN m.batch.rows /\ v = m.batch.rows[o]
  BY DEF Exported, Flying
<1>. QED
  BY <1>1, <1>2, <1>3

(* A move leaves of the earlier versions those that were exported.         *)
LEMMA ToldAfter ==
  ASSUME SyncTypeInv, Stamps, Next, NEW o \in Orders, NEW v \in Told(o)'
  PROVE  \/ v \in Told(o) /\ edge'[o] = edge[o]
         \/ \E s \in Reach : \E at :
              EdgeMove(o, s, at) /\ (v \in Exported(o) \/ v = edge'[o])
<1>. USE DEF SyncTypeInv
<1>1. \/ edge'[o] = edge[o]
      \/ \E s \in Reach : \E at : EdgeMove(o, s, at)
  BY EdgeAfter
<1>2. CASE v \in Exported(o)'
  <2>1. v \in Exported(o) \/ (v = edge[o] /\ edge[o].status # "none" /\ edge' = edge)
    BY <1>2, ExportedAfter
  <2>. QED
    BY <1>1, <2>1, ExportedIs, ToldIs
<1>3. CASE v \in Present(o)'
  <2>1. v = edge'[o] /\ edge'[o].status # "none"
    BY <1>3 DEF Present
  <2>. QED
    BY <1>1, <2>1, ToldIs
<1>. QED
  BY <1>2, <1>3 DEF Told

LEMMA PastStep ==
  ASSUME SyncTypeInv, Stamps, Past, Next
  PROVE  Past'
<1>1. /\ now \in Nat /\ now' \in Nat /\ now <= now' /\ selected \in Int /\ selected <= now
      /\ selected' = selected \/ selected' = now
      /\ SyncTypeOK
  BY ClockStep DEF SyncTypeInv, SyncTypeOK, Past
<1>2. ASSUME NEW o \in Orders, NEW v \in Exported(o)'
      PROVE  v.at <= selected'
  <2>1. CASE v \in Exported(o)
    <3>1. v.at \in Int
      BY <1>1, <2>1, ToldIs, ExportedIs
    <3>2. v.at <= selected
      BY <2>1 DEF Past
    <3>. QED
      BY <1>1, <3>1, <3>2
  <2>2. CASE v = edge[o] /\ selected' = now
    BY <2>2 DEF Stamps
  <2>. QED
    BY <1>2, <2>1, <2>2, ExportedAfter
<1>3. ASSUME NEW m \in received'
      PROVE  m.at <= now' /\ \A o \in DOMAIN m.batch.rows : m.batch.rows[o].at <= m.at
  <2>1. CASE m \in received
    <3>1. m.at \in Int /\ m.at <= now
      BY <1>1, <2>1 DEF SyncTypeOK, Past
    <3>. QED
      BY <1>1, <2>1, <3>1 DEF Past
  <2>2. ASSUME NEW c \in Cycles, m.at = now, now' = now, m.batch = cycle[c].batch
        PROVE  m.at <= now' /\ \A o \in DOMAIN m.batch.rows : m.batch.rows[o].at <= m.at
    <3>1. ASSUME NEW o \in DOMAIN cycle[c].batch.rows
          PROVE  cycle[c].batch.rows[o].at <= now
      <4>1. o \in Orders /\ cycle[c].batch.rows[o].at \in Int
        <5>1. cycle[c].batch \in Batches
          BY <1>1 DEF SyncTypeOK, CycleStates
        <5>. QED
          BY <3>1, <5>1, BatchRows DEF Row
      <4>2. cycle[c].batch.rows[o] \in Exported(o)
        BY <1>1, <3>1, <4>1, ExportedIs
      <4>3. cycle[c].batch.rows[o].at <= selected
        BY <4>1, <4>2 DEF Past
      <4>. QED
        BY <1>1, <4>1, <4>3
    <3>. QED
      BY <1>1, <2>2, <3>1
  <2>. QED
    BY <1>3, <2>1, <2>2, ReceivedAfter
<1>. QED
  BY <1>1, <1>2, <1>3 DEF Past

LEMMA NeverCreatedStep ==
  ASSUME SyncTypeInv, Stamps, Next, NEW o \in Orders, NeverCreated(o)
  PROVE  NeverCreated(o)'
<1>1. ASSUME NEW s \in Reach, NEW at, EdgeMove(o, s, at)
      PROVE  edge'[o].status = s /\ s # "CREATED"
  <2>1. edge[o].status # "none" => edge[o].status \in Statuses
    BY EdgeTypes DEF SyncTypeInv
  <2>2. IF edge[o].status = "none" THEN s = "PAYMENT_PENDING" ELSE s \in Allowed[edge[o].status]
    BY <1>1 DEF EdgeMove, Step, CanTransition
  <2>. QED
    BY <1>1, <2>1, <2>2, Moves, MovedOrder
<1>2. edge'[o].status # "CREATED"
  <2>1. \/ edge'[o] = edge[o]
        \/ \E s \in Reach : \E at : EdgeMove(o, s, at)
    BY EdgeAfter
  <2>. QED
    BY <1>1, <2>1 DEF NeverCreated
<1>3. ASSUME NEW v \in Told(o)'
      PROVE  v.status # "CREATED"
  <2>1. v \in Told(o) \/ v = edge'[o]
    BY ToldAfter, ExportedIs DEF SyncTypeInv
  <2>. QED
    BY <1>2, <2>1 DEF NeverCreated
<1>. QED
  BY <1>2, <1>3 DEF NeverCreated

(* A move that is no straggler's is stamped after all that was exported.   *)
LEMMA TimelyMove ==
  ASSUME SyncTypeInv, Past, NEW o \in Orders, Story(o), NeverCreated(o),
         NEW s \in Reach, NEW at, EdgeMove(o, s, at), Timely(o)'
  PROVE  /\ edge'[o].status = s /\ edge'[o].at = at /\ at \in Nat
         /\ s \in Statuses /\ s # "none"
         /\ edge[o].status # "none" => s # "PAYMENT_PENDING" /\ s \in Allowed[edge[o].status]
         /\ \A v \in Exported(o) : v.at < at /\ Later(s, v.status)
<1>. USE DEF SyncTypeInv
<1>1. /\ edge'[o].status = s /\ edge'[o].at = at /\ at \in Nat /\ s \in Statuses
      /\ s # "none"
  <2>1. edge'[o].status = s /\ edge'[o].at = at /\ at \in Nat /\ s \in Statuses
    BY MovedOrder
  <2>. QED
    BY <2>1, NoneIsNoStatus
<1>2. at > selected
  <2>1. at > selected \/ <<o, edge'[o]>> \in straggling'
    BY MovedOrder
  <2>2. <<o, edge'[o]>> \notin straggling'
    BY DEF Timely
  <2>. QED
    BY <2>1, <2>2
<1>3. edge[o].status # "none" => s # "PAYMENT_PENDING" /\ s \in Allowed[edge[o].status]
  <2>1. edge[o].status # "none" => edge[o].status \in Statuses
    BY EdgeTypes
  <2>2. IF edge[o].status = "none" THEN s = "PAYMENT_PENDING" ELSE s \in Allowed[edge[o].status]
    BY DEF EdgeMove, Step, CanTransition
  <2>. QED
    BY <2>1, <2>2, Moves DEF NeverCreated
<1>4. ASSUME NEW v \in Exported(o)
      PROVE  v.at < at /\ Later(s, v.status)
  <2>1. v \in Told(o) /\ v.at \in Int /\ v.status \in Statuses /\ v.at <= selected
    BY ExportedIs, ToldIs DEF Past
  <2>2. edge[o].status # "none" /\ edge[o].status \in Onward[v.status]
    BY <2>1 DEF Story
  <2>3. s \in Onward[v.status]
    BY <1>1, <1>3, <2>1, <2>2, OnwardMove
  <2>4. v.at < at
    <3>1. selected \in Int
      BY DEF SyncTypeOK
    <3>. QED
      BY <1>1, <1>2, <2>1, <3>1
  <2>. QED
    BY <1>3, <2>2, <2>3, <2>4 DEF Later
<1>. QED
  BY <1>1, <1>3, <1>4

LEMMA StoryStep ==
  ASSUME SyncTypeInv, Stamps, Past, Next, NEW o \in Orders, Story(o), NeverCreated(o),
         Timely(o)'
  PROVE  Story(o)'
<1>. USE DEF SyncTypeInv
<1>1. CASE edge'[o] = edge[o] /\ Told(o)' \subseteq Told(o)
  BY <1>1 DEF Story, Later
<1>2. ASSUME NEW s \in Reach, NEW at, EdgeMove(o, s, at)
      PROVE  Story(o)'
  <2>1. /\ edge'[o].status = s /\ edge'[o].at = at /\ at \in Nat
        /\ s \in Statuses /\ s # "none"
        /\ \A v \in Exported(o) : v.at < at /\ Later(s, v.status)
    BY <1>2, TimelyMove
  <2>2. ASSUME NEW v \in Told(o)'
        PROVE  v \in Exported(o) \/ v = edge'[o]
    <3>1. CASE edge'[o] = edge[o] /\ v \in Present(o)
      BY <3>1 DEF Present
    <3>. QED
      BY <3>1, ToldAfter DEF Told
  <2>3. s \in Onward[s]
    BY <2>1, OnwardSelf
  <2>4. ASSUME NEW v \in Told(o)'
        PROVE  /\ edge'[o].status # "none" /\ v.at <= edge'[o].at
               /\ edge'[o].status \in Onward[v.status]
    <3>1. CASE v \in Exported(o)
      <4>1. v.at \in Int
        BY <3>1, ExportedIs, ToldIs
      <4>2. v.at < at /\ Later(s, v.status)
        BY <2>1, <3>1
      <4>. QED
        BY <2>1, <4>1, <4>2 DEF Later
    <3>2. CASE v = edge'[o]
      BY <2>1, <2>3, <3>2
    <3>. QED
      BY <2>2, <3>1, <3>2
  <2>5. ASSUME NEW v \in Told(o)', NEW w \in Told(o)', v.at < w.at
        PROVE  Later(w.status, v.status)
    <3>1. CASE v \in Exported(o) /\ w \in Exported(o)
      BY <2>5, <3>1, ExportedIs DEF Story
    <3>2. CASE v \in Exported(o) /\ w = edge'[o]
      BY <2>1, <3>2
    <3>3. CASE v = edge'[o]
      <4>1. w.at <= at /\ v.at = at
        BY <2>1, <2>4, <3>3
      <4>2. w.at \in Int
        BY <2>1, <2>2, ExportedIs, ToldIs
      <4>. QED
        BY <2>1, <2>5, <4>1, <4>2
    <3>. QED
      BY <2>2, <3>1, <3>2, <3>3
  <2>. QED
    BY <2>4, <2>5 DEF Story, Later
<1>3. \/ edge'[o] = edge[o] /\ Told(o)' \subseteq Told(o)
      \/ \E s \in Reach : \E at : EdgeMove(o, s, at)
  <2>1. CASE edge'[o] = edge[o] /\ ~\E s \in Reach : \E at : EdgeMove(o, s, at)
    <3>1. \A v \in Told(o)' : v \in Told(o)
      BY <2>1, ToldAfter
    <3>. QED
      BY <2>1, <3>1
  <2>. QED
    BY <2>1, EdgeAfter
<1>. QED
  BY <1>1, <1>2, <1>3

(* What a step does to an order on the cloud.                              *)
Inserts(o, v) == cloud[o].status = "none" /\ cloud'[o] = v

(* An import's transaction began after the chunk arrived.                  *)
Updates(o, v) ==
  /\ cloud[o].status # "none" /\ v.at > cloud[o].at
  /\ cloud'[o].status = v.status
  /\ \E t \in Began : cloud'[o].at = OnCloud(t) /\ v.at <= t

(* A sweep that overtook another one shows in crossed.                     *)
Sweeps(o, s, t) ==
  /\ <<s, t>> \in {<<"PAYMENT_CONFIRMED", "DISPATCHED">>,
                   <<"PAYMENT_PENDING", "PAYMENT_EXPIRED">>, <<"REJECTED", "REFUND_PENDING">>}
  /\ cloud[o].status = s /\ cloud'[o].status = t
  /\ o \in crossed' \/ ~(cloud'[o].at < cloud[o].at)

LEMMA SweepAfter ==
  ASSUME SyncTypeOK, NEW o \in Orders, NEW t,
         CloudDispatches(o, t) \/ CloudExpires(o, t) \/ CloudRefunds(o, t)
  PROVE  /\ \E s, u \in Statuses : Sweeps(o, s, u)
         /\ \A p \in Orders \ {o} : cloud'[p] = cloud[p]
         /\ edge' = edge
<1>1. \A s : CloudMoves(o, s, t) =>
        /\ cloud'[o].status = s /\ (o \in crossed' \/ ~(cloud'[o].at < cloud[o].at))
        /\ \A p \in Orders \ {o} : cloud'[p] = cloud[p]
        /\ edge' = edge
  BY DEF SyncTypeOK, OrderRows, CloudMoves, edgeVars
<1>2. {"PAYMENT_CONFIRMED", "DISPATCHED", "PAYMENT_PENDING", "PAYMENT_EXPIRED", "REJECTED",
       "REFUND_PENDING"} \subseteq Statuses
  BY DEF Statuses
<1>3. CASE CloudDispatches(o, t)
  <2>1. cloud[o].status = "PAYMENT_CONFIRMED" /\ CloudMoves(o, "DISPATCHED", t)
    BY <1>3 DEF CloudDispatches
  <2>. QED
    BY <1>1, <1>2, <2>1 DEF Sweeps
<1>4. CASE CloudExpires(o, t)
  <2>1. cloud[o].status = "PAYMENT_PENDING" /\ CloudMoves(o, "PAYMENT_EXPIRED", t)
    BY <1>4 DEF CloudExpires
  <2>. QED
    BY <1>1, <1>2, <2>1 DEF Sweeps
<1>5. CASE CloudRefunds(o, t)
  <2>1. cloud[o].status = "REJECTED" /\ CloudMoves(o, "REFUND_PENDING", t)
    BY <1>5 DEF CloudRefunds
  <2>. QED
    BY <1>1, <1>2, <2>1 DEF Sweeps
<1>. QED
  BY <1>3, <1>4, <1>5

LEMMA CloudAfter ==
  ASSUME SyncTypeOK, Past, Next, NEW o \in Orders
  PROVE  \/ cloud'[o] = cloud[o]
         \/ /\ edge' = edge
            /\ \/ \E v \in Told(o) : Inserts(o, v) \/ Updates(o, v)
               \/ \E s, t \in Statuses : Sweeps(o, s, t)
<1>1. ASSUME NEW m \in received, NEW t, ImportOrders(m, t), cloud'[o] # cloud[o]
      PROVE  edge' = edge /\ \E v \in Told(o) : Inserts(o, v) \/ Updates(o, v)
  <2>1. cloud'[o] = Imported(o, m.batch, t) /\ edge' = edge
    BY <1>1 DEF ImportOrders, cloudVars, edgeVars
  <2>2. o \in DOMAIN m.batch.rows
    BY <1>1, <2>1 DEF Imported, Overwrites
  <2>3. m.batch.rows[o] \in Told(o) /\ m.batch.rows[o].at \in Int
    BY <2>2, ToldIs
  <2>4. t \in Began /\ m.batch.rows[o].at <= t
    <3>1. t \in Began /\ m.at <= t
      BY <1>1 DEF ImportOrders
    <3>2. m.batch.rows[o].at <= m.at /\ m.at \in Int
      BY <2>2 DEF Past, SyncTypeOK
    <3>. QED
      BY <2>3, <3>1, <3>2 DEF Began
  <2>5. Inserts(o, m.batch.rows[o]) \/ Updates(o, m.batch.rows[o])
    BY <1>1, <2>1, <2>2, <2>4 DEF Imported, Overwrites, Inserts, Updates
  <2>. QED
    BY <2>1, <2>3, <2>5
<1>2. ASSUME NEW p \in Orders, NEW t,
             CloudDispatches(p, t) \/ CloudExpires(p, t) \/ CloudRefunds(p, t)
      PROVE  \/ cloud'[o] = cloud[o]
             \/ edge' = edge /\ \E s, u \in Statuses : Sweeps(o, s, u)
  BY <1>2, SweepAfter
<1>3. \/ \E m \in received : \E t : ImportOrders(m, t)
      \/ \E p \in Orders : \E t :
           CloudDispatches(p, t) \/ CloudExpires(p, t) \/ CloudRefunds(p, t)
      \/ cloud' = cloud
  BY NextIs, EdgeWrites, CycleWrites, CloudWrites DEF Sweeping
<1>. QED
  BY <1>1, <1>2, <1>3

(* What the cloud's row says holds on: an import stamps it no earlier than *)
(* the version it wrote, a timely sweep no earlier than the row it found.  *)
LEMMA CloudFollowsStep ==
  ASSUME SyncTypeInv, Stamps, Past, Next, CloudAhead >= 0, NEW o \in Orders,
         Story(o), NeverCreated(o), CloudFollows(o), Timely(o)'
  PROVE  CloudFollows(o)'
<1>. USE DEF SyncTypeInv
<1>1. /\ \A v \in Told(o) : v.status \in Statuses /\ v.at \in Int
      /\ edge[o].status # "none" => edge[o] \in Told(o) /\ edge[o].status \in Statuses
      /\ cloud[o].status \in Statuses \cup {"none"} /\ cloud[o].at \in Int
  BY ToldIs, EdgeTypes DEF SyncTypeOK, OrderRows
<1>2. CASE cloud'[o] = cloud[o] /\ cloud[o].status # "none"
  <2>1. /\ edge[o].status # "none" /\ Continues(edge[o].status, cloud[o].status)
        /\ \A v \in Told(o) : v.at > cloud[o].at =>
             v.status # "PAYMENT_PENDING" /\ Continues(v.status, cloud[o].status)
    BY <1>2 DEF CloudFollows
  <2>2. ASSUME NEW s \in Reach, NEW at, EdgeMove(o, s, at)
        PROVE  /\ edge'[o].status = s /\ s # "none"
               /\ s # "PAYMENT_PENDING" /\ Continues(s, cloud[o].status)
    <3>1. /\ edge'[o].status = s /\ s \in Statuses /\ s # "none" /\ s # "PAYMENT_PENDING"
          /\ s \in Allowed[edge[o].status]
      BY <2>1, <2>2, TimelyMove
    <3>2. Continues(s, cloud[o].status)
      BY <1>1, <1>2, <2>1, <3>1, OnwardMove DEF Continues
    <3>. QED
      BY <3>1, <3>2
  <2>3. edge'[o].status # "none" /\ Continues(edge'[o].status, cloud[o].status)
    <3>1. \/ edge'[o] = edge[o]
          \/ \E s \in Reach : \E at : EdgeMove(o, s, at)
      BY EdgeAfter
    <3>. QED
      BY <2>1, <2>2, <3>1
  <2>4. ASSUME NEW v \in Told(o)', v.at > cloud[o].at
        PROVE  v.status # "PAYMENT_PENDING" /\ Continues(v.status, cloud[o].status)
    <3>1. CASE v \in Told(o)
      BY <2>1, <2>4, <3>1
    <3>2. ASSUME NEW s \in Reach, NEW at, EdgeMove(o, s, at), v = edge'[o]
          PROVE  v.status # "PAYMENT_PENDING" /\ Continues(v.status, cloud[o].status)
      BY <2>2, <3>2
    <3>. QED
      BY <3>1, <3>2, ToldAfter, ExportedIs
  <2>. QED
    BY <1>2, <2>3, <2>4 DEF CloudFollows, Continues
<1>3. CASE cloud'[o] = cloud[o] /\ cloud[o].status = "none"
  BY <1>3 DEF CloudFollows
<1>4. ASSUME edge' = edge, NEW w \in Told(o)'
      PROVE  w \in Told(o) /\ w.at \in Int /\ w.status \in Statuses
  <2>1. w \in Told(o) \/ (w = edge'[o] /\ edge'[o].status # "none")
    <3>1. ASSUME NEW s \in Reach, NEW at, EdgeMove(o, s, at)
          PROVE  edge'[o].status # "none"
      BY <3>1, TimelyMove
    <3>2. CASE w \in Told(o)
      BY <3>2
    <3>3. CASE w \notin Told(o)
      <4>1. PICK s \in Reach : \E at :
              EdgeMove(o, s, at) /\ (w \in Exported(o) \/ w = edge'[o])
        BY <1>4, <3>3, ToldAfter
      <4>. QED
        BY <3>1, <3>3, <4>1, ExportedIs
    <3>. QED
      BY <3>2, <3>3
  <2>. QED
    BY <1>1, <1>4, <2>1
<1>5. ASSUME NEW v \in Told(o), edge' = edge, Inserts(o, v)
      PROVE  CloudFollows(o)'
  <2>1. cloud'[o] = v /\ edge'[o].status # "none" /\ edge'[o].status \in Onward[v.status]
    BY <1>5 DEF Inserts, Story
  <2>2. ASSUME NEW w \in Told(o)', w.at > v.at
        PROVE  w.status # "PAYMENT_PENDING" /\ Continues(w.status, v.status)
    <3>1. Later(w.status, v.status)
      BY <1>1, <1>4, <1>5, <2>2 DEF Story
    <3>. QED
      BY <3>1 DEF Later, Continues
  <2>. QED
    BY <2>1, <2>2 DEF CloudFollows, Continues
<1>6. ASSUME NEW v \in Told(o), edge' = edge, Updates(o, v)
      PROVE  CloudFollows(o)'
  <2>1. /\ cloud'[o].status = v.status
        /\ edge'[o].status # "none" /\ edge'[o].status \in Onward[v.status]
    BY <1>6 DEF Updates, Story
  <2>2. cloud'[o].at \in Int /\ v.at \in Int /\ v.at <= cloud'[o].at
    <3>1. PICK t \in Began : cloud'[o].at = OnCloud(t) /\ v.at <= t
      BY <1>6 DEF Updates
    <3>2. t \in Nat /\ v.at \in Int
      BY <1>1 DEF Began, SyncTypeOK
    <3>. QED
      BY <3>1, <3>2, ClockAssumption DEF OnCloud
  <2>3. ASSUME NEW w \in Told(o)', w.at > cloud'[o].at
        PROVE  w.status # "PAYMENT_PENDING" /\ Continues(w.status, v.status)
    <3>1. w \in Told(o) /\ w.at > v.at
      BY <1>4, <1>6, <2>2, <2>3
    <3>2. Later(w.status, v.status)
      BY <2>2, <3>1 DEF Story
    <3>. QED
      BY <3>2 DEF Later, Continues
  <2>. QED
    BY <2>1, <2>3 DEF CloudFollows, Continues
<1>7. ASSUME NEW s \in Statuses, NEW t \in Statuses, edge' = edge, Sweeps(o, s, t)
      PROVE  CloudFollows(o)'
  <2>1. /\ cloud[o].status = s /\ cloud'[o].status = t
        /\ \/ s = "PAYMENT_CONFIRMED" /\ t = "DISPATCHED"
           \/ s = "PAYMENT_PENDING" /\ t = "PAYMENT_EXPIRED"
           \/ s = "REJECTED" /\ t = "REFUND_PENDING"
        /\ ~(cloud'[o].at < cloud[o].at)
    BY <1>7 DEF Sweeps, Timely
  <2>2. cloud'[o].at \in Int
    <3>1. cloud' \in OrderRows
      BY SyncTypesStep DEF SyncTypeOK
    <3>. QED
      BY <3>1 DEF OrderRows
  <2>3. t = "PAYMENT_EXPIRED" \/ s \in Onward[t]
    BY <2>1, ReopenedOrders
  <2>4. ASSUME NEW u \in Statuses, Continues(u, s)
        PROVE  Continues(u, t)
    <3>1. u \in Onward[s]
      BY <2>1, <2>4 DEF Continues
    <3>. QED
      BY <2>3, <3>1, OnwardOnward DEF Continues
  <2>5. edge[o].status # "none" /\ Continues(edge[o].status, t)
    BY <1>1, <2>1, <2>4 DEF CloudFollows
  <2>6. ASSUME NEW w \in Told(o)', w.at > cloud'[o].at
        PROVE  w.status # "PAYMENT_PENDING" /\ Continues(w.status, t)
    <3>1. w \in Told(o) /\ w.status \in Statuses /\ w.at > cloud[o].at
      BY <1>1, <1>4, <1>7, <2>1, <2>2, <2>6
    <3>2. w.status # "PAYMENT_PENDING" /\ Continues(w.status, s)
      BY <2>1, <3>1 DEF CloudFollows
    <3>. QED
      BY <2>4, <3>1, <3>2
  <2>. QED
    BY <1>7, <2>1, <2>5, <2>6 DEF CloudFollows, Continues
<1>. QED
  BY <1>2, <1>3, <1>5, <1>6, <1>7, CloudAfter

LEMMA OrderGoesOn ==
  ASSUME ImportInv, Next, NEW o \in Orders, cloud[o].status # "none", Timely(o)
  PROVE  ~Behind(cloud'[o].status, cloud[o].status)
<1>1. SyncTypeOK /\ Past /\ Story(o) /\ CloudFollows(o) /\ NeverCreated(o)
  BY DEF ImportInv, SyncTypeInv
<1>2. \A v \in Told(o) : v.status \in Statuses
  BY <1>1, ToldIs
<1>3. CASE cloud'[o] = cloud[o]
  BY <1>3 DEF Behind
<1>4. ASSUME NEW v \in Told(o), Updates(o, v)
      PROVE  ~Behind(cloud'[o].status, cloud[o].status)
  <2>1. cloud'[o].status = v.status /\ v.at > cloud[o].at
    BY <1>4 DEF Updates
  <2>2. /\ v.status # "PAYMENT_PENDING" /\ v.status # "CREATED" /\ v.status \in Statuses
        /\ Continues(v.status, cloud[o].status)
    BY <1>1, <1>2, <2>1 DEF CloudFollows, NeverCreated
  <2>3. CASE v.status \in Onward[cloud[o].status]
    BY <2>1, <2>3 DEF Behind
  <2>4. CASE cloud[o].status = "PAYMENT_EXPIRED"
    <3>1. CASE v.status = "PAYMENT_EXPIRED"
      BY <2>1, <2>4, <3>1 DEF Behind
    <3>2. CASE v.status # "PAYMENT_EXPIRED"
      BY <2>1, <2>2, <2>4, <3>2, PaidDoesNotExpire DEF Behind
    <3>. QED
      BY <3>1, <3>2
  <2>. QED
    BY <2>2, <2>3, <2>4 DEF Continues
<1>5. ASSUME NEW s \in Statuses, NEW t \in Statuses, Sweeps(o, s, t)
      PROVE  ~Behind(cloud'[o].status, cloud[o].status)
  <2>1. /\ cloud[o].status = s /\ cloud'[o].status = t
        /\ \/ s = "PAYMENT_CONFIRMED" /\ t = "DISPATCHED"
           \/ s = "PAYMENT_PENDING" /\ t = "PAYMENT_EXPIRED"
           \/ s = "REJECTED" /\ t = "REFUND_PENDING"
    BY <1>5 DEF Sweeps
  <2>. QED
    BY <2>1, SweepMoves DEF Behind
<1>6. ~\E v \in Told(o) : Inserts(o, v)
  BY DEF Inserts
<1>. QED
  BY <1>1, <1>3, <1>4, <1>5, <1>6, CloudAfter

(* The history only grows.                                                 *)
LEMMA TimelyBefore ==
  ASSUME SyncTypeInv, Stamps, Next, NEW o \in Orders, Timely(o)'
  PROVE  Timely(o)
BY ClockStep DEF Timely

LEMMA ImportStart == Init => ImportInv
<1>. SUFFICES ASSUME Init PROVE ImportInv
  OBVIOUS
<1>1. SyncTypeInv /\ Stamps
  <2>1. \A c \in Cycles : cycle[c].pc = "idle"
    BY IdleCycle DEF Init
  <2>2. Stamps
    BY StartsWith DEF Stamps
  <2>. QED
    BY <2>1, <2>2, TypesAtStart DEF SyncTypeInv, Exporting
<1>2. ASSUME NEW o \in Orders
      PROVE  Exported(o) = {} /\ Told(o) = Present(o)
  <2>1. \A c \in Cycles : DOMAIN cycle[c].batch.rows = {}
    BY IdleCycle, EmptyBatch DEF Init
  <2>2. received = {}
    BY DEF Init
  <2>. QED
    BY <2>1, <2>2 DEF Told, Exported, Flying
<1>3. ASSUME NEW o \in Orders
      PROVE  Story(o) /\ CloudFollows(o) /\ NeverCreated(o)
  <2>1. cloud[o].status = "none"
    BY DEF Init, Absent
  <2>2. edge[o].status \in {"PAYMENT_PENDING", "DISPATCHED", "none"} /\ edge[o].at \in Int
    BY StartsWith
  <2>3. \A v \in Told(o) : v = edge[o] /\ edge[o].status \in {"PAYMENT_PENDING", "DISPATCHED"}
    BY <1>2, <2>2 DEF Present
  <2>4. \A s \in {"PAYMENT_PENDING", "DISPATCHED"} : s \in Onward[s]
    BY OnwardSelf DEF Statuses
  <2>. QED
    BY <2>1, <2>2, <2>3, <2>4 DEF Story, CloudFollows, NeverCreated
<1>4. Past
  <2>1. selected <= now /\ received = {}
    BY BoundsAssumption DEF Init, Never
  <2>. QED
    BY <1>2, <2>1 DEF Past
<1>. QED
  BY <1>1, <1>3, <1>4 DEF ImportInv

(* import-orders.ts:120: as long as the cloud's clock is not behind the    *)
(* edge's, no import, however late, often or out of order, takes an order  *)
(* on the cloud back to a status it has left, the cloud's own sweeps       *)
(* included, unless its stamps are not in the order of its commits: a      *)
(* straggler of the edge, or a sweep that began before the row it found.   *)
THEOREM OrdersGoOn ==
  ASSUME CloudAhead >= 0
  PROVE  Spec => [][NoOrderGoesBack]_vars
<1>1. Init => ImportInv
  BY ImportStart
<1>2. ImportInv /\ [Next]_vars => ImportInv'
  <2>1. ASSUME ImportInv, UNCHANGED vars
        PROVE  ImportInv'
    <3>1. SyncTypeInv'
      BY <2>1, SyncTypesStep DEF ImportInv
    <3>2. \A o \in Orders : Told(o)' = Told(o) /\ Exported(o)' = Exported(o)
      BY <2>1 DEF vars, Told, Exported, Flying, Present
    <3>3. /\ Stamps' /\ edge' = edge /\ cloud' = cloud
          /\ \A o \in Orders : Timely(o)' = Timely(o)
      BY <2>1 DEF vars, ImportInv, Stamps, Timely
    <3>4. \A o \in Orders :
            (NeverCreated(o) /\ (Timely(o) => Story(o) /\ CloudFollows(o)))'
      BY <2>1, <3>2, <3>3 DEF ImportInv, Story, CloudFollows, NeverCreated, Later, Continues
    <3>5. Past'
      BY <2>1, <3>2 DEF ImportInv, Past, vars
    <3>. QED
      BY <3>1, <3>3, <3>4, <3>5 DEF ImportInv
  <2>2. ASSUME ImportInv, Next
        PROVE  ImportInv'
    <3>1. SyncTypeInv' /\ Stamps' /\ Past'
      BY <2>2, SyncTypesStep, ClockStep, PastStep DEF ImportInv
    <3>2. \A o \in Orders : NeverCreated(o)'
      BY <2>2, NeverCreatedStep DEF ImportInv
    <3>3. ASSUME NEW o \in Orders, Timely(o)'
          PROVE  Story(o)' /\ CloudFollows(o)'
      <4>1. Story(o) /\ CloudFollows(o)
        BY <2>2, <3>3, TimelyBefore DEF ImportInv
      <4>. QED
        BY <2>2, <3>3, <4>1, StoryStep, CloudFollowsStep DEF ImportInv
    <3>. QED
      BY <3>1, <3>2, <3>3 DEF ImportInv
  <2>. QED
    BY <2>1, <2>2
<1>3. ImportInv /\ [Next]_vars => [NoOrderGoesBack]_vars
  BY OrderGoesOn, TimelyBefore DEF NoOrderGoesBack, ImportInv
<1>. QED
  BY <1>1, <1>2, <1>3, PTL DEF Spec

-----------------------------------------------------------------------------
(* No row of the catalogue goes back.                                      *)

(* The cloud's catalogue: a version is never taken back, and no stamp is   *)
(* ahead of the edge's clock.                                              *)
LEMMA CatalogAfter ==
  ASSUME CloudAhead <= 0, CatalogInv, SyncTypeInv, Next
  PROVE  /\ now \in Nat /\ now' \in Nat /\ now <= now'
         /\ \A r \in Rows :
              catalog'[r].at <= now' /\ catalog[r].version <= catalog'[r].version
<1>1. now \in Nat /\ now' \in Nat /\ now <= now'
  BY NowAfter
<1>2. ASSUME NEW r \in Rows
      PROVE  /\ catalog[r].at \in Int /\ catalog[r].version \in Int /\ catalog[r].at <= now
  BY DEF SyncTypeInv, SyncTypeOK, CatalogInv
<1>3. ASSUME NEW q \in Rows, NEW at, CatalogEdit(q, at), NEW r \in Rows
      PROVE  catalog'[r].at <= now' /\ catalog[r].version <= catalog'[r].version
  <2>1. at \in Nat /\ at <= now'
    BY <1>1, <1>3 DEF CatalogEdit, Began
  <2>2. OnCloud(at) <= now' /\ OnCloud(at) \in Int
    BY <1>1, <2>1, ClockAssumption DEF OnCloud
  <2>3. /\ catalog \in [Rows -> [version : Int, at : Int]]
        /\ catalog' = [catalog EXCEPT ![q] = [version |-> @.version + 1, at |-> OnCloud(at)]]
    BY <1>3 DEF CatalogEdit, SyncTypeInv, SyncTypeOK
  <2>4. CASE r = q
    <3>1. catalog'[r] = [version |-> catalog[r].version + 1, at |-> OnCloud(at)]
      BY <2>3, <2>4
    <3>. QED
      BY <1>2, <2>2, <3>1
  <2>5. CASE r # q
    <3>1. catalog'[r] = catalog[r]
      BY <2>3, <2>5
    <3>. QED
      BY <1>1, <1>2, <3>1
  <2>. QED
    BY <2>4, <2>5
<1>4. catalog' = catalog \/ \E q \in Rows : \E at : CatalogEdit(q, at)
  BY NextIs, EdgeWrites, CycleWrites, CloudWrites
<1>. QED
  BY <1>1, <1>2, <1>3, <1>4

LEMMA PendingIs ==
  /\ SyncTypeOK => Pending \subseteq Answers
  /\ SyncTypeOK' => Pending' \subseteq Answers
<1>1. SyncTypeOK => \A c \in Cycles : cycle[c].inbox \subseteq Answers
  BY DEF SyncTypeOK, CycleStates
<1>2. SyncTypeOK' => \A c \in Cycles : cycle'[c].inbox \subseteq Answers
  BY DEF SyncTypeOK, CycleStates
<1>. QED
  BY <1>1, <1>2 DEF Pending

(* The answers that wait, and the one a step may add.                      *)
LEMMA PendingAfter ==
  ASSUME SyncTypeInv, CatalogInv, Next, NEW a \in Pending'
  PROVE  /\ a \in Pending \/ Current(a)
         /\ a.at <= now
         /\ \A r \in DOMAIN a.rows :
              /\ r \in Rows
              /\ a.rows[r].at <= a.at /\ a.rows[r].version <= catalog[r].version
              /\ Newer(r, a) => a.rows[r].version >= menu[r].version
<1>1. a \in Pending \/ Current(a)
  <2>1. PICK c \in Cycles : a \in cycle'[c].inbox
    BY DEF Pending
  <2>2. CASE \E d \in Cycles : SelectOrders(d)
    <3>1. PICK d \in Cycles : SelectOrders(d)
      BY <2>2
    <3>2. cycle'[d].inbox = {} /\ \A e \in Cycles \ {d} : KeepsBatch(e)
      BY <3>1, SelectedBatch DEF SyncTypeInv, DropsBatch
    <3>. QED
      BY <2>1, <3>2 DEF KeepsBatch, Pending
  <2>3. CASE ~\E d \in Cycles : SelectOrders(d)
    BY <2>1, <2>3, CyclesAfter DEF KeepsBatch, DropsBatch, Pending
  <2>. QED
    BY <2>2, <2>3
<1>2. CASE a \in Pending
  <2>1. \A r \in DOMAIN a.rows : r \in Rows
    BY <1>2, AnswerIs, PendingIs DEF SyncTypeInv
  <2>. QED
    BY <1>1, <1>2, <2>1 DEF CatalogInv
<1>3. CASE Current(a)
  <2>1. now \in Int /\ \A r \in Rows : catalog[r].version \in Int /\ menu[r].version \in Int
    BY DEF SyncTypeInv, SyncTypeOK
  <2>2. a.at = now /\ \A r \in DOMAIN a.rows : r \in Rows /\ a.rows[r] = catalog[r]
    BY <1>3 DEF Current
  <2>. QED
    BY <1>1, <2>1, <2>2 DEF CatalogInv
<1>. QED
  BY <1>1, <1>2, <1>3

LEMMA StillAgree ==
  ASSUME SyncTypeInv, SyncTypeOK', CatalogInv, Next, NEW a \in Pending', NEW b \in Pending'
  PROVE  Agrees(a, b)
<1>1. CASE a \in Pending /\ b \in Pending
  BY <1>1 DEF CatalogInv
<1>2. ASSUME NEW r \in DOMAIN a.rows, r \in DOMAIN b.rows
      PROVE  /\ a.rows[r].at \in Int /\ a.rows[r].version \in Int /\ a.at \in Int
             /\ b.at \in Int /\ b.rows[r].version \in Int /\ now \in Int /\ r \in Rows
  <2>1. a \in Answers /\ b \in Answers
    BY PendingIs
  <2>2. now \in Int
    BY DEF SyncTypeInv, SyncTypeOK
  <2>. QED
    BY <1>2, <2>1, <2>2, AnswerIs
(* No stamp is later than the answer of this instant. *)
<1>3. CASE Current(b)
  <2>1. ASSUME NEW r \in DOMAIN a.rows, r \in DOMAIN b.rows, a.rows[r].at > b.at
        PROVE  FALSE
    <3>1. b.at = now /\ a.rows[r].at <= a.at /\ a.at <= now
      BY <1>3, PendingAfter DEF Current
    <3>. QED
      BY <1>2, <2>1, <3>1
  <2>. QED
    BY <2>1 DEF Agrees
<1>4. CASE Current(a)
  <2>1. ASSUME NEW r \in DOMAIN a.rows, r \in DOMAIN b.rows
        PROVE  a.rows[r].version >= b.rows[r].version
    <3>1. a.rows[r].version = catalog[r].version /\ b.rows[r].version <= catalog[r].version
      BY <1>4, <2>1, PendingAfter DEF Current
    <3>. QED
      BY <1>2, <2>1, <3>1
  <2>. QED
    BY <2>1 DEF Agrees
<1>. QED
  BY <1>1, <1>3, <1>4, PendingAfter

(* An import: no row goes back, none gets ahead of the cloud's, and what   *)
(* still waits and passes the new stamp holds no older version.            *)
LEMMA CatalogImport ==
  ASSUME SyncTypeInv, SyncTypeOK', CatalogInv, Next,
         NEW c \in Cycles, NEW answer, NEW t, ImportCatalog(c, answer, t), NEW r \in Rows
  PROVE  /\ menu[r].version <= menu'[r].version /\ menu'[r].version <= catalog[r].version
         /\ \A a \in Pending' : Newer(r, a)' => a.rows[r].version >= menu'[r].version
<1>1. answer \in Pending /\ answer \in Answers /\ t \in Int /\ answer.at <= t /\ answer.at \in Int
  <2>1. answer \in Pending /\ t \in Began /\ answer.at <= t /\ now \in Nat
    BY DEF ImportCatalog, Pending, SyncTypeInv, SyncTypeOK
  <2>2. answer \in Answers
    BY <2>1, PendingIs DEF SyncTypeInv
  <2>3. t \in Int
    BY <2>1 DEF Began
  <2>4. answer.at \in Int
    BY <2>2, AnswerIs
  <2>. QED
    BY <2>1, <2>2, <2>3, <2>4
<1>2. /\ menu[r].version \in Int /\ catalog[r].version \in Int
      /\ menu[r].version <= catalog[r].version
  BY DEF SyncTypeInv, SyncTypeOK, CatalogInv
<1>3. CASE ~Newer(r, answer)
  <2>1. menu'[r] = menu[r]
    BY <1>3 DEF ImportCatalog
  <2>. QED
    BY <1>2, <2>1, PendingAfter DEF Newer
<1>4. CASE Newer(r, answer)
  <2>1. menu'[r].version = answer.rows[r].version /\ menu'[r].at = t
    BY <1>4 DEF ImportCatalog
  <2>2. /\ r \in DOMAIN answer.rows /\ answer.rows[r].version \in Int
        /\ answer.rows[r].version <= catalog[r].version
        /\ answer.rows[r].version >= menu[r].version
    BY <1>1, <1>4, AnswerIs DEF Newer, CatalogInv
  <2>3. ASSUME NEW a \in Pending', r \in DOMAIN a.rows, a.rows[r].at > t
        PROVE  a.rows[r].version >= answer.rows[r].version
    <3>1. a \in Answers /\ a.rows[r].at \in Int
      BY <2>3, AnswerIs, PendingIs
    <3>2. CASE a \in Pending
      <4>1. Agrees(a, answer)
        BY <1>1, <3>2 DEF CatalogInv
      <4>. QED
        BY <1>1, <2>2, <2>3, <3>1, <4>1 DEF Agrees
    <3>3. CASE Current(a)
      BY <1>2, <2>2, <2>3, <3>3 DEF Current
    <3>. QED
      BY <3>2, <3>3, PendingAfter
  <2>. QED
    BY <1>2, <2>1, <2>2, <2>3 DEF Newer
<1>. QED
  BY <1>3, <1>4

LEMMA CatalogStep ==
  ASSUME CloudAhead <= 0, CatalogInv, SyncTypeInv, SyncTypeOK', Next
  PROVE  CatalogInv' /\ NoRowGoesBack
<1>1. /\ now \in Nat /\ now' \in Nat /\ now <= now'
      /\ \A r \in Rows :
           catalog'[r].at <= now' /\ catalog[r].version <= catalog'[r].version
  BY CatalogAfter
<1>2. ASSUME NEW r \in Rows
      PROVE  /\ catalog[r].version \in Int /\ catalog'[r].version \in Int
             /\ menu[r].version \in Int /\ menu'[r].version \in Int
  BY DEF SyncTypeInv, SyncTypeOK
<1>3. ASSUME NEW r \in Rows
      PROVE  /\ menu[r].version <= menu'[r].version
             /\ menu'[r].version <= catalog'[r].version
             /\ \A a \in Pending' : Newer(r, a)' => a.rows[r].version >= menu'[r].version
  <2>1. CASE menu' = menu
    <3>1. menu[r].version <= catalog[r].version
      BY DEF CatalogInv
    <3>2. menu'[r].version <= catalog'[r].version
      BY <1>1, <1>2, <2>1, <3>1
    <3>. QED
      BY <1>2, <2>1, <3>2, PendingAfter DEF Newer
  <2>2. ASSUME NEW c \in Cycles, NEW answer, NEW t, ImportCatalog(c, answer, t)
        PROVE  /\ menu[r].version <= menu'[r].version
               /\ menu'[r].version <= catalog'[r].version
               /\ \A a \in Pending' : Newer(r, a)' => a.rows[r].version >= menu'[r].version
    <3>1. catalog' = catalog
      BY <2>2 DEF ImportCatalog
    <3>. QED
      BY <2>2, <3>1, CatalogImport
  <2>3. \/ menu' = menu
        \/ \E c \in Cycles : \E answer, t : ImportCatalog(c, answer, t)
    BY NextIs, EdgeWrites, CycleWrites, CloudWrites
  <2>. QED
    BY <2>1, <2>2, <2>3
<1>4. ASSUME NEW a \in Pending'
      PROVE  /\ a.at <= now'
             /\ \A r \in DOMAIN a.rows :
                  /\ r \in Rows
                  /\ a.rows[r].at <= a.at /\ a.rows[r].version <= catalog'[r].version
  <2>1. a \in Answers
    BY PendingIs
  <2>2. a.at \in Int /\ a.at <= now
    BY <2>1, AnswerIs, PendingAfter
  <2>3. ASSUME NEW r \in DOMAIN a.rows
        PROVE  /\ r \in Rows
               /\ a.rows[r].at <= a.at /\ a.rows[r].version <= catalog'[r].version
    <3>1. /\ r \in Rows /\ a.rows[r].at <= a.at
          /\ a.rows[r].version <= catalog[r].version
      BY <2>3, PendingAfter
    <3>2. a.rows[r].version \in Int
      BY <2>1, AnswerIs
    <3>. QED
      BY <1>1, <1>2, <3>1, <3>2
  <2>. QED
    BY <1>1, <2>2, <2>3
<1>5. \A a \in Pending', b \in Pending' : Agrees(a, b)
  BY StillAgree
<1>6. NoRowGoesBack
  BY <1>2, <1>3 DEF NoRowGoesBack
<1>7. CatalogInv'
  BY <1>1, <1>3, <1>4, <1>5 DEF CatalogInv, Agrees
<1>. QED
  BY <1>6, <1>7

(* import-catalog.ts:82: as long as the cloud's clock is not ahead of the  *)
(* edge's, the guard on updated_at is enough.                              *)
THEOREM CatalogGoesOn ==
  ASSUME CloudAhead <= 0
  PROVE  Spec => [][NoRowGoesBack]_vars
<1>. DEFINE Inv == CatalogInv /\ SyncTypeInv
<1>1. Init => Inv
  <2>. SUFFICES ASSUME Init PROVE Inv
    OBVIOUS
  <2>1. SyncTypeInv
    BY ImportStart DEF ImportInv
  <2>2. \A c \in Cycles : cycle[c].inbox = {}
    BY IdleCycle DEF Init
  <2>3. \A r \in Rows : catalog[r].at <= now /\ menu[r].version <= catalog[r].version
    BY BoundsAssumption DEF Init
  <2>. QED
    BY <2>1, <2>2, <2>3 DEF CatalogInv, Pending
<1>2. Inv /\ [Next]_vars => Inv' /\ [NoRowGoesBack]_vars
  <2>1. ASSUME Inv, UNCHANGED vars
        PROVE  Inv' /\ [NoRowGoesBack]_vars
    BY <2>1, SyncTypesStep DEF CatalogInv, Pending, Agrees, Newer, vars
  <2>2. ASSUME Inv, Next
        PROVE  Inv' /\ [NoRowGoesBack]_vars
    BY <2>2, SyncTypesStep, CatalogStep DEF SyncTypeInv
  <2>. QED
    BY <2>1, <2>2
<1>. QED
  BY <1>1, <1>2, PTL DEF Spec

(* With one clock, neither a timely order on the cloud nor a row on the    *)
(* edge ever goes back.  That is what the hypothesis is for: with the cloud     *)
(* ahead the catalogue does, with the edge ahead an order may.             *)
THEOREM NothingEverGoesBack ==
  ASSUME CloudAhead = 0
  PROVE  Spec => NothingGoesBack
<1>1. CloudAhead >= 0 /\ CloudAhead <= 0
  OBVIOUS
<1>2. Spec => [][NoOrderGoesBack]_vars
  BY <1>1, OrdersGoOn
<1>3. Spec => [][NoRowGoesBack]_vars
  BY <1>1, CatalogGoesOn
<1>. QED
  BY <1>2, <1>3, PTL DEF NothingGoesBack

=============================================================================
