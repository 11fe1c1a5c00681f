-------------------------- MODULE Placement_proofs --------------------------
(***************************************************************************)
(* Proofs about Placement, for every number of requests, stalls, courts,   *)
(* sessions and days.                                                      *)
(***************************************************************************)
EXTENDS Placement, TLAPS

RequestRecords ==
  [pc : {"new"} \cup Started \cup Ended, customer : Customers \cup {Nobody},
   number : 0..MaxNumber]

(* A row about to be inserted has a number.                                *)
Numbered == \A r \in Requests : At(r, "insert") => request[r].number >= 1

LEMMA Typing == Spec => [](TypeOK /\ Numbered)
<1>1. Init => TypeOK /\ Numbered
  BY NumbersAssumption DEF Init, TypeOK, Numbered, At
<1>2. TypeOK /\ Numbered /\ [Next]_vars => TypeOK' /\ Numbered'
  <2> SUFFICES ASSUME TypeOK, Numbered, [Next]_vars PROVE TypeOK' /\ Numbered'
    OBVIOUS
  <2> USE RequestsAssumption, NumbersAssumption
  <2>0. request \in [Requests -> RequestRecords]
    BY DEF TypeOK, RequestRecords
  <2>a. request' \in [Requests -> RequestRecords]
          => request' \in [Requests -> [pc : {"new"} \cup Started \cup Ended,
                               customer : Customers \cup {Nobody},
                               number : 0..MaxNumber]]
    BY DEF RequestRecords
  <2>b. ASSUME NEW r \in Requests, NEW pc \in Started \cup Ended, pc # "insert", Goto(r, pc)
        PROVE  request' \in [Requests -> RequestRecords] /\ Numbered'
    BY <2>0, <2>b DEF Goto, RequestRecords, Numbered, At
  <2>c. ASSUME NEW r \in Requests, NEW pc \in Ended, End(r, pc)
        PROVE  /\ request' \in [Requests -> RequestRecords] /\ Numbered'
               /\ stallLock' \in [Stalls -> Requests \cup {Free}]
               /\ courtLock' \in [Courts -> Requests \cup {Free}]
    BY <2>b, <2>c DEF End, Ended, TypeOK
  <2>1. ASSUME NEW r \in Requests, Identify(r) PROVE TypeOK' /\ Numbered'
    <3>1. Goto(r, "lookup") \/ Goto(r, "attach") \/ Goto(r, "refused")
      BY <2>1 DEF Identify
    <3>2. request' \in [Requests -> RequestRecords] /\ Numbered'
      BY <2>b, <3>1 DEF Started, Ended
    <3> QED
      BY <2>1, <2>a, <3>2 DEF Identify, TypeOK, world, locks
  <2>2. ASSUME NEW r \in Requests, Attach(r) PROVE TypeOK' /\ Numbered'
    <3>1. request' \in [Requests -> RequestRecords] /\ Numbered'
      BY <2>2, <2>b DEF Attach, Started
    <3> QED
      BY <2>2, <2>a, <3>1 DEF Attach, TypeOK, locks
  <2>3. ASSUME NEW r \in Requests, Lookup(r) PROVE TypeOK' /\ Numbered'
    <3>1. Goto(r, "replayed") \/ Goto(r, "refused") \/ Goto(r, "session")
      BY <2>3 DEF Lookup
    <3>2. request' \in [Requests -> RequestRecords] /\ Numbered'
      BY <2>b, <3>1 DEF Started, Ended
    <3> QED
      BY <2>3, <2>a, <3>2 DEF Lookup, TypeOK, world, locks
  <2>12. ASSUME NEW r \in Requests, ReadSession(r) PROVE TypeOK' /\ Numbered'
    <3> DEFINE asking == owner[SessionOf[r]]
    <3>1. \/ Goto(r, "refused")
          \/ request' = [request EXCEPT ![r].pc = "lockStall", ![r].customer = asking]
      BY <2>12 DEF ReadSession
    <3>2. asking \in Customers \cup {Nobody}
      BY DEF TypeOK
    <3>3. ASSUME request' = [request EXCEPT ![r].pc = "lockStall", ![r].customer = asking]
          PROVE  request' \in [Requests -> RequestRecords] /\ Numbered'
      BY <2>0, <3>2, <3>3 DEF RequestRecords, Numbered, At, Started
    <3>4. request' \in [Requests -> RequestRecords] /\ Numbered'
      BY <2>b, <3>1, <3>3 DEF Ended
    <3> QED
      BY <2>12, <2>a, <3>4 DEF ReadSession, TypeOK, world, locks
  <2>4. ASSUME NEW r \in Requests, LockStall(r) \/ Resolve(r) \/ LockCourt(r)
        PROVE  TypeOK' /\ Numbered'
    <3>1. \/ Goto(r, "refused") \/ Goto(r, "resolve") \/ Goto(r, "lockCourt")
          \/ Goto(r, "number")
      BY <2>4 DEF LockStall, Resolve, LockCourt
    <3>2. request' \in [Requests -> RequestRecords] /\ Numbered'
      BY <2>b, <3>1 DEF Started, Ended
    <3> QED
      BY <2>4, <2>a, <3>2 DEF LockStall, Resolve, LockCourt, TypeOK, world, locks, Court
  <2>5. ASSUME NEW r \in Requests, TurnDown(r) \/ Crash(r) PROVE TypeOK' /\ Numbered'
    BY <2>5, <2>a, <2>c DEF TurnDown, Crash, Ended, TypeOK, world
  <2>6. ASSUME NEW r \in Requests, NextNumber(r) PROVE TypeOK' /\ Numbered'
    <3>1. PICK n \in 0..MaxNumber :
            IF n = MaxNumber
              THEN End(r, "refused")
              ELSE /\ request' = [request EXCEPT ![r].pc = "insert", ![r].number = n + 1]
                   /\ UNCHANGED locks
      BY <2>6 DEF NextNumber
    <3>2. CASE n = MaxNumber
      BY <2>6, <2>a, <2>c, <3>1, <3>2 DEF NextNumber, Ended, TypeOK, world
    <3>3. CASE n # MaxNumber
      <4>0. n + 1 \in 1..MaxNumber
        BY <3>3
      <4>a. request' = [request EXCEPT ![r].pc = "insert", ![r].number = n + 1]
        BY <3>1, <3>3
      <4>b. request' \in [Requests -> RequestRecords]
        <5>1. request[r] \in RequestRecords
          BY <2>0
        <5>2. [request[r] EXCEPT !.pc = "insert", !.number = n + 1] \in RequestRecords
          <6>1. "insert" \in {"new"} \cup Started \cup Ended
            BY DEF Started
          <6>2. n + 1 \in 0..MaxNumber
            BY <4>0
          <6> QED
            BY <5>1, <6>1, <6>2 DEF RequestRecords
        <5>3. request' = [request EXCEPT ![r] =
                            [request[r] EXCEPT !.pc = "insert", !.number = n + 1]]
          BY <2>0, <4>a
        <5> QED
          BY <2>0, <5>2, <5>3
      <4>c. /\ request'[r].number = n + 1
            /\ \A q \in Requests : q # r => request'[q] = request[q]
        BY <2>0, <4>a DEF RequestRecords
      <4>d. Numbered'
        BY <4>0, <4>c DEF Numbered, At
      <4>1. request' \in [Requests -> RequestRecords] /\ Numbered'
        BY <4>b, <4>d
      <4> QED
        BY <2>6, <2>a, <3>1, <3>3, <4>1 DEF NextNumber, TypeOK, world, locks
    <3> QED
      BY <3>2, <3>3
  <2>7. ASSUME NEW r \in Requests, Insert(r) PROVE TypeOK' /\ Numbered'
    <3> DEFINE row == [customer |-> request[r].customer, day |-> day,
                       number |-> request[r].number]
    <3>1. row \in OrderRows
      BY <2>0, <2>7 DEF Insert, Numbered, At, OrderRows, RequestRecords, TypeOK
    <3>2. placed' = placed \/ placed' = [placed EXCEPT ![r] = row]
      BY <2>7 DEF Insert
    <3>3. placed' \in [Requests -> OrderRows \cup {NoOrder}]
      BY <3>1, <3>2 DEF TypeOK
    <3>4. End(r, "duplicate") \/ End(r, "collided") \/ End(r, "placed")
      BY <2>7 DEF Insert
    <3> QED
      BY <2>7, <2>a, <2>c, <3>3, <3>4 DEF Insert, Ended, TypeOK
  <2>8. ASSUME NEW s \in Sessions, Verify(s) PROVE TypeOK' /\ Numbered'
    BY <2>8 DEF Verify, TypeOK, Numbered, At, locks
  <2>9. ASSUME NEW v \in Stalls, Shut(v) \/ Reopen(v) PROVE TypeOK' /\ Numbered'
    BY <2>9 DEF Shut, Reopen, TypeOK, Numbered, At, locks
  <2>10. CASE Midnight
    BY <2>10 DEF Midnight, TypeOK, Numbered, At, locks
  <2>11. CASE UNCHANGED vars
    BY <2>11 DEF vars, TypeOK, Numbered, At
  <2> QED
    BY <2>1, <2>2, <2>3, <2>4, <2>5, <2>6, <2>7, <2>8, <2>9, <2>10, <2>11, <2>12 DEF Next
<1> QED
  BY <1>1, <1>2, PTL DEF Spec

(* Every column keeps its type: no number beyond the format is handed out. *)
THEOREM PlacementTypes == Spec => []TypeOK
  BY Typing, PTL

-----------------------------------------------------------------------------
(* Two taps with one key are one order, for any number of taps asking      *)
(* before any has written.                                                 *)
THEOREM OneOrderEach == Spec => []OneOrderPerKey
<1>1. Init => OneOrderPerKey
  BY DEF Init, OneOrderPerKey, Placed
<1>2. TypeOK /\ OneOrderPerKey /\ [Next]_vars => OneOrderPerKey'
  <2> SUFFICES ASSUME TypeOK, OneOrderPerKey, [Next]_vars PROVE OneOrderPerKey'
    OBVIOUS
  <2>1. placed' = placed => OneOrderPerKey'
    BY DEF OneOrderPerKey, Placed
  <2>2. ASSUME NEW r \in Requests, Insert(r) PROVE OneOrderPerKey'
    <3>1. CASE WithKey(KeyOf[r]) = {} /\ placed' # placed
      <4>1. \A q \in Requests : q # r => placed'[q] = placed[q]
        BY <2>2, <3>1 DEF Insert, TypeOK
      <4>2. \A q \in Placed : KeyOf[q] # KeyOf[r]
        BY <3>1 DEF WithKey
      <4> QED
        BY <4>1, <4>2 DEF OneOrderPerKey, Placed
    <3> QED
      BY <2>1, <2>2, <3>1 DEF Insert
  <2> QED
    BY <2>1, <2>2
       DEF Next, Identify, Attach, Lookup, ReadSession, LockStall, Resolve, TurnDown, LockCourt,
           NextNumber, Crash, Verify, Shut, Reopen, Midnight, world, vars
<1> QED
  BY <1>1, <1>2, Typing, PTL DEF Spec

-----------------------------------------------------------------------------
(* Past its check of the stall a request holds the stall's row, and the    *)
(* stall stays open; while it numbers its order it holds the court's.      *)
PastStall == {"resolve", "lockCourt", "number", "insert"}
Numbering == {"number", "insert"}
StallHeld ==
  \A r \in Requests : request[r].pc \in PastStall =>
    stallLock[StallOf[r]] = r /\ StallOf[r] \notin shut
CourtHeld == \A r \in Requests : request[r].pc \in Numbering => courtLock[Court(r)] = r

(* Whoever ends leaves the locks of all others where they are.             *)
LEMMA EndKeepsHeld ==
  ASSUME TypeOK, StallHeld, CourtHeld, NEW r \in Requests, NEW pc \in Ended, End(r, pc),
         shut' = shut
  PROVE  StallHeld' /\ CourtHeld'
<1> USE RequestsAssumption
<1>1. request'[r].pc = pc /\ \A q \in Requests : q # r => request'[q] = request[q]
  BY DEF End, Goto, TypeOK
<1>2. pc \notin PastStall
  BY DEF Ended, PastStall
<1>3. ASSUME NEW q \in Requests, request'[q].pc \in PastStall
      PROVE  stallLock'[StallOf[q]] = q /\ StallOf[q] \notin shut'
  <2>1. q # r /\ request[q].pc \in PastStall
    BY <1>1, <1>2, <1>3
  <2> QED
    BY <2>1 DEF StallHeld, End
<1>4. ASSUME NEW q \in Requests, request'[q].pc \in Numbering
      PROVE  courtLock'[Court(q)] = q
  <2>1. q # r /\ request[q].pc \in Numbering
    BY <1>1, <1>2, <1>4 DEF PastStall, Numbering
  <2> QED
    BY <2>1 DEF CourtHeld, End, Court
<1> QED
  BY <1>3, <1>4 DEF StallHeld, CourtHeld

(* A move to a place where no lock is needed, with the locks as they were. *)
LEMMA MoveKeepsHeld ==
  ASSUME TypeOK, StallHeld, CourtHeld, NEW r \in Requests,
         \A q \in Requests : q # r => request'[q] = request[q],
         request'[r].pc \in PastStall => request[r].pc \in PastStall,
         request'[r].pc \in Numbering => request[r].pc \in Numbering,
         shut' = shut, UNCHANGED locks
  PROVE  StallHeld' /\ CourtHeld'
BY RequestsAssumption DEF StallHeld, CourtHeld, locks, Court

LEMMA Holding == Spec => [](StallHeld /\ CourtHeld)
<1>1. Init => StallHeld /\ CourtHeld
  BY DEF Init, StallHeld, CourtHeld, PastStall, Numbering
<1>2. TypeOK /\ StallHeld /\ CourtHeld /\ [Next]_vars => StallHeld' /\ CourtHeld'
  <2> SUFFICES ASSUME TypeOK, StallHeld, CourtHeld, [Next]_vars PROVE StallHeld' /\ CourtHeld'
    OBVIOUS
  <2> USE RequestsAssumption
  <2>a. \A r \in Requests : \A pc :
          Goto(r, pc) => /\ request'[r].pc = pc
                         /\ \A q \in Requests : q # r => request'[q] = request[q]
    BY DEF Goto, TypeOK
  <2>1. ASSUME NEW r \in Requests, Identify(r) \/ Attach(r) \/ Lookup(r)
        PROVE  StallHeld' /\ CourtHeld'
    <3>1. PICK pc \in {"lookup", "attach", "refused", "replayed", "session"} : Goto(r, pc)
      <4>1. CASE Identify(r)
        <5>1. Goto(r, "lookup") \/ Goto(r, "attach") \/ Goto(r, "refused")
          BY <4>1 DEF Identify
        <5> QED
          BY <5>1
      <4>2. CASE Attach(r)
        BY <4>2 DEF Attach
      <4>3. CASE Lookup(r)
        BY <4>3 DEF Lookup
      <4> QED
        BY <2>1, <4>1, <4>2, <4>3
    <3>2. shut' = shut /\ UNCHANGED locks
      BY <2>1 DEF Identify, Attach, Lookup, world
    <3> QED
      BY <2>a, <3>1, <3>2, MoveKeepsHeld DEF PastStall, Numbering
  <2>2. ASSUME NEW r \in Requests, ReadSession(r) PROVE StallHeld' /\ CourtHeld'
    <3>1. /\ request'[r].pc \in {"refused", "lockStall"}
          /\ \A q \in Requests : q # r => request'[q] = request[q]
      BY <2>2, <2>a DEF ReadSession, TypeOK
    <3> QED
      BY <2>2, <3>1, MoveKeepsHeld DEF ReadSession, world, PastStall, Numbering
  <2>3. ASSUME NEW r \in Requests, LockStall(r) PROVE StallHeld' /\ CourtHeld'
    <3>1. CASE StallOf[r] \in shut
      BY <2>3, <2>a, <3>1, MoveKeepsHeld DEF LockStall, world, locks, PastStall, Numbering
    <3>2. CASE StallOf[r] \notin shut
      <4>1. /\ Goto(r, "resolve") /\ stallLock' = [stallLock EXCEPT ![StallOf[r]] = r]
            /\ stallLock[StallOf[r]] = Free /\ shut' = shut /\ courtLock' = courtLock
        BY <2>3, <3>2 DEF LockStall, world
      <4>2. StallHeld'
        <5> SUFFICES ASSUME NEW q \in Requests, request'[q].pc \in PastStall
                     PROVE  stallLock'[StallOf[q]] = q /\ StallOf[q] \notin shut'
          BY DEF StallHeld
        <5>1. CASE q = r
          BY <3>2, <4>1, <5>1 DEF TypeOK
        <5>2. CASE q # r
          BY <2>a, <4>1, <5>2, FreeAssumption DEF TypeOK, StallHeld
        <5> QED
          BY <5>1, <5>2
      <4>3. CourtHeld'
        BY <2>a, <4>1 DEF CourtHeld, Numbering, Court
      <4> QED
        BY <4>2, <4>3
    <3> QED
      BY <3>1, <3>2
  <2>4. ASSUME NEW r \in Requests, Resolve(r) PROVE StallHeld' /\ CourtHeld'
    BY <2>4, <2>a, MoveKeepsHeld DEF Resolve, At, world, PastStall, Numbering
  <2>5. ASSUME NEW r \in Requests, TurnDown(r) \/ Crash(r) PROVE StallHeld' /\ CourtHeld'
    BY <2>5, EndKeepsHeld DEF TurnDown, Crash, world, Ended
  <2>6. ASSUME NEW r \in Requests, LockCourt(r) PROVE StallHeld' /\ CourtHeld'
    <3>1. /\ Goto(r, "number") /\ courtLock' = [courtLock EXCEPT ![Court(r)] = r]
          /\ courtLock[Court(r)] = Free /\ shut' = shut /\ stallLock' = stallLock
          /\ At(r, "lockCourt")
      BY <2>6 DEF LockCourt, world
    <3>2. CourtHeld'
      <4> SUFFICES ASSUME NEW q \in Requests, request'[q].pc \in Numbering
                   PROVE  courtLock'[Court(q)] = q
        BY DEF CourtHeld, Court
      <4>1. CASE q = r
        BY <3>1, <4>1 DEF TypeOK, Court
      <4>2. CASE q # r
        BY <2>a, <3>1, <4>2, FreeAssumption DEF TypeOK, CourtHeld, Court
      <4> QED
        BY <4>1, <4>2
    <3>3. StallHeld'
      BY <2>a, <3>1 DEF StallHeld, At, PastStall
    <3> QED
      BY <3>2, <3>3
  <2>7. ASSUME NEW r \in Requests, NextNumber(r) PROVE StallHeld' /\ CourtHeld'
    <3>1. PICK n \in 0..MaxNumber :
            IF n = MaxNumber
              THEN End(r, "refused")
              ELSE /\ request' = [request EXCEPT ![r].pc = "insert", ![r].number = n + 1]
                   /\ UNCHANGED locks
      BY <2>7 DEF NextNumber
    <3>2. CASE n = MaxNumber
      BY <2>7, <3>1, <3>2, EndKeepsHeld DEF NextNumber, world, Ended
    <3>3. CASE n # MaxNumber
      <4>1. /\ request'[r].pc = "insert" /\ At(r, "number")
            /\ \A q \in Requests : q # r => request'[q] = request[q]
        BY <2>7, <3>1, <3>3 DEF NextNumber, TypeOK
      <4> QED
        BY <2>7, <3>1, <3>3, <4>1, MoveKeepsHeld
           DEF NextNumber, world, At, PastStall, Numbering
    <3> QED
      BY <3>2, <3>3
  <2>8. ASSUME NEW r \in Requests, Insert(r) PROVE StallHeld' /\ CourtHeld'
    <3>1. PICK pc \in Ended : End(r, pc)
      BY <2>8 DEF Insert, Ended
    <3> QED
      BY <2>8, <3>1, EndKeepsHeld DEF Insert
  <2>9. ASSUME NEW s \in Sessions, Verify(s) PROVE StallHeld' /\ CourtHeld'
    BY <2>9 DEF Verify, locks, StallHeld, CourtHeld, Court
  <2>10. ASSUME NEW v \in Stalls, Shut(v) \/ Reopen(v) PROVE StallHeld' /\ CourtHeld'
    BY <2>10, FreeAssumption DEF Shut, Reopen, locks, StallHeld, CourtHeld, Court
  <2>11. CASE Midnight
    BY <2>11 DEF Midnight, locks, StallHeld, CourtHeld, Court
  <2>12. CASE UNCHANGED vars
    BY <2>12 DEF vars, StallHeld, CourtHeld, Court
  <2> QED
    BY <2>1, <2>2, <2>3, <2>4, <2>5, <2>6, <2>7, <2>8, <2>9, <2>10, <2>11, <2>12 DEF Next
<1> QED
  BY <1>1, <1>2, Typing, PTL DEF Spec

(* No order is inserted for a stall that is shut when it is inserted,      *)
(* whoever shuts and reopens it meanwhile.                                 *)
THEOREM OpenStallsOnly == Spec => OnlyOpenStalls
<1>1. TypeOK /\ StallHeld /\ [Next]_vars =>
        [\A r \in Requests :
           placed[r] = NoOrder /\ placed'[r] # NoOrder => StallOf[r] \notin shut']_vars
  <2> SUFFICES ASSUME TypeOK, StallHeld, Next, NEW r \in Requests,
                      placed[r] = NoOrder, placed'[r] # NoOrder
               PROVE  StallOf[r] \notin shut'
    BY DEF vars
  <2>1. PICK q \in Requests : Insert(q)
    BY DEF Next, Identify, Attach, Lookup, ReadSession, LockStall, Resolve, TurnDown,
           LockCourt, NextNumber, Crash, Verify, Shut, Reopen, Midnight, world
  <2>2. q = r
    BY <2>1 DEF Insert, TypeOK
  <2> QED
    BY <2>1, <2>2 DEF Insert, At, StallHeld, PastStall
<1> QED
  BY <1>1, Typing, Holding, PTL DEF Spec, OnlyOpenStalls

-----------------------------------------------------------------------------
(* A number that was handed out is above every number of its court's day   *)
(* until its row is written: a midnight in between only empties the day.   *)
NumberFresh ==
  \A r \in Requests : At(r, "insert") =>
    \A q \in Today(Court(r)) : placed[q].number < request[r].number
NoneFromTomorrow == \A q \in Placed : placed[q].day <= day

(* No placement that got a number collides with another order's.           *)
THEOREM NumbersNeverMeet == Spec => []NumberIsFree
<1> DEFINE Inv == NumberIsFree /\ NumberFresh /\ NoneFromTomorrow
<1>1. Init => Inv
  BY DEF Init, NumberIsFree, NumberFresh, NoneFromTomorrow, At, Placed
<1>2. TypeOK /\ TypeOK' /\ CourtHeld /\ Inv /\ [Next]_vars => Inv'
  <2> SUFFICES ASSUME TypeOK, TypeOK', CourtHeld, Inv, [Next]_vars PROVE Inv'
    OBVIOUS
  <2> USE RequestsAssumption, NumbersAssumption
  <2>0. placed' = placed /\ day' = day =>
          NoneFromTomorrow' /\ \A c : Today(c)' = Today(c)
    BY DEF NoneFromTomorrow, Placed, Today, Court
  <2>1. ASSUME placed' = placed, day' = day, NEW r \in Requests,
               \A q \in Requests : q # r => request'[q] = request[q],
               request'[r].pc \notin {"insert", "collided"}
        PROVE  Inv'
    BY <2>0, <2>1 DEF NumberIsFree, NumberFresh, At, Court
  <2>2. ASSUME placed' = placed, day' = day, request' = request PROVE Inv'
    BY <2>0, <2>2 DEF NumberIsFree, NumberFresh, At, Court
  <2>a. \A r \in Requests : \A pc :
          Goto(r, pc) => /\ request'[r].pc = pc
                         /\ \A q \in Requests : q # r => request'[q] = request[q]
    BY DEF Goto, TypeOK
  <2>b. \A r \in Requests : \A pc : End(r, pc) => Goto(r, pc)
    BY DEF End
  <2>3. ASSUME NEW r \in Requests,
               \/ Identify(r) \/ Attach(r) \/ Lookup(r) \/ ReadSession(r) \/ LockStall(r)
               \/ Resolve(r) \/ TurnDown(r) \/ LockCourt(r) \/ Crash(r)
        PROVE  Inv'
    <3>1. CASE ReadSession(r)
      <4>1. /\ request'[r].pc \in {"refused", "lockStall"}
            /\ \A q \in Requests : q # r => request'[q] = request[q]
        BY <2>a, <3>1 DEF ReadSession, TypeOK
      <4> QED
        BY <2>1, <3>1, <4>1 DEF ReadSession, world
    <3>2. CASE Identify(r)
      <4>1. Goto(r, "lookup") \/ Goto(r, "attach") \/ Goto(r, "refused")
        BY <3>2 DEF Identify
      <4> QED
        BY <2>1, <2>a, <3>2, <4>1 DEF Identify, world
    <3>3. CASE Attach(r)
      BY <2>1, <2>a, <3>3 DEF Attach
    <3>4. CASE Lookup(r)
      <4>1. Goto(r, "replayed") \/ Goto(r, "refused") \/ Goto(r, "session")
        BY <3>4 DEF Lookup
      <4> QED
        BY <2>1, <2>a, <3>4, <4>1 DEF Lookup, world
    <3>5. CASE LockStall(r)
      <4>1. Goto(r, "refused") \/ Goto(r, "resolve")
        BY <3>5 DEF LockStall
      <4> QED
        BY <2>1, <2>a, <3>5, <4>1 DEF LockStall, world
    <3>6. CASE Resolve(r) \/ LockCourt(r)
      BY <2>1, <2>a, <3>6 DEF Resolve, LockCourt, world
    <3>7. CASE TurnDown(r) \/ Crash(r)
      BY <2>1, <2>a, <2>b, <3>7 DEF TurnDown, Crash, world
    <3> QED
      BY <2>3, <3>1, <3>2, <3>3, <3>4, <3>5, <3>6, <3>7
  <2>4. ASSUME NEW r \in Requests, NextNumber(r) PROVE Inv'
    <3>1. PICK n \in 0..MaxNumber :
            /\ \A q \in Today(Court(r)) : placed[q].number <= n
            /\ IF n = MaxNumber
                 THEN End(r, "refused")
                 ELSE /\ request' = [request EXCEPT ![r].pc = "insert", ![r].number = n + 1]
                      /\ UNCHANGED locks
      BY <2>4 DEF NextNumber
    <3>2. CASE n = MaxNumber
      BY <2>1, <2>4, <2>a, <2>b, <3>1, <3>2 DEF NextNumber, world
    <3>3. CASE n # MaxNumber
      <4>1. placed' = placed /\ day' = day
        BY <2>4 DEF NextNumber, world
      <4>2. /\ request'[r].pc = "insert" /\ request'[r].number = n + 1
            /\ \A q \in Requests : q # r => request'[q] = request[q]
        BY <3>1, <3>3 DEF TypeOK
      <4>3. \A q \in Today(Court(r)) : placed[q].number < n + 1
        <5> TAKE q \in Today(Court(r))
        <5>1. placed[q].number \in Nat /\ placed[q].number <= n
          BY <3>1 DEF Today, Placed, TypeOK, OrderRows
        <5> QED
          BY <5>1
      <4>4. NumberFresh'
        BY <2>0, <4>1, <4>2, <4>3 DEF NumberFresh, At, Court
      <4> QED
        BY <2>0, <4>1, <4>2, <4>4 DEF NumberIsFree, At
    <3> QED
      BY <3>2, <3>3
  <2>5. ASSUME NEW r \in Requests, Insert(r) PROVE Inv'
    <3> DEFINE row == [customer |-> request[r].customer, day |-> day,
                       number |-> request[r].number]
    <3>1. ~ \E q \in Today(Court(r)) : placed[q].number = row.number
      <4> SUFFICES ASSUME NEW q \in Today(Court(r)) PROVE placed[q].number # row.number
        OBVIOUS
      <4>1. placed[q].number < request[r].number
        BY <2>5 DEF Insert, NumberFresh
      <4>2. placed[q].number \in Nat /\ request[r].number \in Nat
        BY DEF Today, Placed, TypeOK, OrderRows
      <4> QED
        BY <4>1, <4>2
    <3>2. \/ End(r, "duplicate") /\ placed' = placed
          \/ End(r, "placed") /\ placed' = [placed EXCEPT ![r] = row]
      BY <2>5, <3>1 DEF Insert
    <3>3. CASE End(r, "duplicate") /\ placed' = placed
      BY <2>1, <2>5, <2>a, <2>b, <3>3 DEF Insert
    <3>4. CASE End(r, "placed") /\ placed' = [placed EXCEPT ![r] = row]
      <4>1. /\ day' = day /\ request'[r].pc = "placed"
            /\ \A q \in Requests : q # r => request'[q] = request[q] /\ placed'[q] = placed[q]
            /\ placed'[r] = row
        BY <2>5, <2>a, <2>b, <3>4 DEF Insert, TypeOK
      <4>2. NumberIsFree'
        BY <4>1 DEF NumberIsFree, At
      <4>3. day \in Nat
        BY DEF TypeOK
      <4>4. NoneFromTomorrow'
        BY <4>1, <4>3 DEF NoneFromTomorrow, Placed
      <4>5. NumberFresh'
        <5> SUFFICES ASSUME NEW s \in Requests, request'[s].pc = "insert",
                            NEW q \in Today(Court(s))'
                     PROVE  placed'[q].number < request'[s].number
          BY DEF NumberFresh, At, Court
        <5>1. s # r /\ request'[s] = request[s] /\ At(s, "insert")
          BY <4>1 DEF At
        <5>2. Court(s) # Court(r)
          BY <2>5, <5>1 DEF Insert, At, CourtHeld, Numbering
        <5>3. q # r /\ q \in Today(Court(s)) /\ placed'[q] = placed[q]
          BY <4>1, <5>2 DEF Today, Placed, Court
        <5> QED
          BY <5>1, <5>3 DEF NumberFresh
      <4> QED
        BY <4>2, <4>4, <4>5
    <3> QED
      BY <3>2, <3>3, <3>4
  <2>6. CASE \/ \E s \in Sessions : Verify(s)
             \/ \E v \in Stalls : Shut(v) \/ Reopen(v)
    BY <2>2, <2>6 DEF Verify, Shut, Reopen
  <2>7. CASE Midnight
    <3>1. day \in Nat /\ day' = day + 1 /\ placed' = placed /\ request' = request
      BY <2>7 DEF Midnight, TypeOK
    <3>2. \A q \in Placed : placed[q].day \in Nat /\ placed[q].day < day'
      BY <3>1 DEF NoneFromTomorrow, Placed, TypeOK, OrderRows
    <3>3. NoneFromTomorrow' /\ \A c : Today(c)' = {}
      BY <3>1, <3>2 DEF NoneFromTomorrow, Placed, Today, Court
    <3> QED
      BY <3>1, <3>3 DEF NumberIsFree, NumberFresh, At, Court
  <2>8. CASE UNCHANGED vars
    BY <2>2, <2>8 DEF vars
  <2> QED
    BY <2>3, <2>4, <2>5, <2>6, <2>7, <2>8 DEF Next
<1> QED
  BY <1>1, <1>2, Typing, Holding, PTL DEF Spec

-----------------------------------------------------------------------------
(* One customer orders on a session: a browser in one hand, whose token is *)
(* renewed for the same customer.                                          *)
OneCustomerPerSession ==
  \A q, r \in Requests : SessionOf[q] = SessionOf[r] => CallerOf[q] = CallerOf[r]

(* The session is the caller's from the moment it is claimed, and the      *)
(* order is for whoever the session named.                                 *)
Claimed == {"lookup", "session"} \cup {"lockStall"} \cup PastStall
Reading == {"lockStall"} \cup PastStall
OwnerIsCaller ==
  \A r \in Requests :
    /\ owner[SessionOf[r]] \in {Nobody, CallerOf[r]}
    /\ request[r].pc \in Claimed => owner[SessionOf[r]] = CallerOf[r]
    /\ request[r].pc \in Reading => request[r].customer = CallerOf[r]

(* Nothing that changes one request's place alone makes it a stranger's.   *)
LEMMA MoveKeepsCaller ==
  ASSUME OwnerIsCaller, OrderIsTheirs, NEW r \in Requests, owner' = owner, placed' = placed,
         \A q \in Requests : q # r => request'[q] = request[q],
         request'[r].pc \in Claimed => owner[SessionOf[r]] = CallerOf[r],
         request'[r].pc \in Reading => request'[r].customer = CallerOf[r],
         request'[r].pc # "placed",
         request'[r].pc = "replayed" =>
           \E q \in WithKey(KeyOf[r]) : placed[q].customer = CallerOf[r]
  PROVE  OwnerIsCaller' /\ OrderIsTheirs'
<1>1. \A k : WithKey(k)' = WithKey(k)
  BY DEF WithKey, Placed
<1>2. OwnerIsCaller'
  BY DEF OwnerIsCaller
<1>3. ASSUME NEW q \in Requests, request'[q].pc \in {"placed", "replayed"}
      PROVE  \E p \in WithKey(KeyOf[q])' : placed'[p].customer = CallerOf[q]
  <2>1. CASE q = r
    BY <1>1, <1>3, <2>1
  <2>2. CASE q # r
    BY <1>1, <1>3, <2>2 DEF OrderIsTheirs
  <2> QED
    BY <2>1, <2>2
<1> QED
  BY <1>2, <1>3 DEF OrderIsTheirs

(* A request answered with an order is answered with its own caller's.     *)
THEOREM NobodyElsesOrder == Spec => [](OneCustomerPerSession => OrderIsTheirs)
<1> DEFINE Inv == OneCustomerPerSession => OwnerIsCaller /\ OrderIsTheirs
<1>1. Init => Inv
  BY RequestsAssumption
     DEF Init, OwnerIsCaller, OrderIsTheirs, Claimed, Reading, PastStall
<1>2. TypeOK /\ Numbered /\ Inv /\ [Next]_vars => Inv'
  <2> SUFFICES ASSUME TypeOK, Numbered, OneCustomerPerSession, OwnerIsCaller, OrderIsTheirs,
                      [Next]_vars
               PROVE  OwnerIsCaller' /\ OrderIsTheirs'
    BY DEF OneCustomerPerSession
  <2> USE RequestsAssumption
  <2>a. \A r \in Requests : \A pc :
          Goto(r, pc) => /\ request'[r].pc = pc
                         /\ request'[r].customer = request[r].customer
                         /\ \A q \in Requests : q # r => request'[q] = request[q]
    BY DEF Goto, TypeOK
  <2>b. \A r \in Requests : \A pc : End(r, pc) => Goto(r, pc)
    BY DEF End
  <2>1. ASSUME NEW r \in Requests, Identify(r) PROVE OwnerIsCaller' /\ OrderIsTheirs'
    <3>1. \/ Goto(r, "lookup") /\ owner[SessionOf[r]] = CallerOf[r]
          \/ Goto(r, "attach") \/ Goto(r, "refused")
      BY <2>1 DEF Identify
    <3> QED
      BY <2>1, <2>a, <3>1, MoveKeepsCaller
         DEF Identify, world, Claimed, Reading, PastStall
  <2>2. ASSUME NEW r \in Requests, Attach(r) PROVE OwnerIsCaller' /\ OrderIsTheirs'
    <3> DEFINE s == SessionOf[r]
    <3>1. /\ request'[r].pc = "lookup" /\ placed' = placed
          /\ \A q \in Requests : q # r => request'[q] = request[q]
      BY <2>2, <2>a DEF Attach
    <3>2. owner'[s] = CallerOf[r]
      BY <2>2 DEF Attach, TypeOK, OwnerIsCaller
    <3>3. \A t \in Sessions : t # s => owner'[t] = owner[t]
      BY <2>2 DEF Attach, TypeOK
    <3>4. \A q \in Requests : SessionOf[q] = s => owner'[SessionOf[q]] = CallerOf[q]
      BY <3>2 DEF OneCustomerPerSession
    <3>5. OwnerIsCaller'
      BY <3>1, <3>3, <3>4 DEF OwnerIsCaller, Reading, PastStall
    <3>6. OrderIsTheirs'
      BY <3>1 DEF OrderIsTheirs, WithKey, Placed
    <3> QED
      BY <3>5, <3>6
  <2>3. ASSUME NEW r \in Requests, Lookup(r) PROVE OwnerIsCaller' /\ OrderIsTheirs'
    <3>1. owner[SessionOf[r]] = CallerOf[r]
      BY <2>3 DEF Lookup, At, OwnerIsCaller, Claimed
    <3>2. CASE Goto(r, "session") \/ Goto(r, "refused")
      BY <2>3, <2>a, <3>1, <3>2, MoveKeepsCaller DEF Lookup, world, Reading, PastStall
    <3>3. CASE /\ Goto(r, "replayed")
               /\ \E q \in WithKey(KeyOf[r]) : placed[q].customer = owner[SessionOf[r]]
      BY <2>3, <2>a, <3>1, <3>3, MoveKeepsCaller DEF Lookup, world, Reading, PastStall
    <3> QED
      BY <2>3, <3>2, <3>3 DEF Lookup
  <2>4. ASSUME NEW r \in Requests, ReadSession(r) PROVE OwnerIsCaller' /\ OrderIsTheirs'
    <3>1. owner[SessionOf[r]] = CallerOf[r]
      BY <2>4 DEF ReadSession, At, OwnerIsCaller, Claimed
    <3>2. /\ \/ request'[r].pc = "refused"
             \/ request'[r].pc = "lockStall" /\ request'[r].customer = owner[SessionOf[r]]
          /\ \A q \in Requests : q # r => request'[q] = request[q]
      BY <2>4, <2>a DEF ReadSession, TypeOK
    <3> QED
      BY <2>4, <3>1, <3>2, MoveKeepsCaller
         DEF ReadSession, world, Claimed, Reading, PastStall
  <2>5. ASSUME NEW r \in Requests, LockStall(r) \/ Resolve(r) \/ LockCourt(r)
        PROVE  OwnerIsCaller' /\ OrderIsTheirs'
    <3>1. \/ Goto(r, "refused") \/ Goto(r, "resolve") \/ Goto(r, "lockCourt")
          \/ Goto(r, "number")
      BY <2>5 DEF LockStall, Resolve, LockCourt
    <3>2. request[r].pc \in Reading /\ owner' = owner /\ placed' = placed
      BY <2>5 DEF LockStall, Resolve, LockCourt, At, world, Reading, PastStall
    <3>3. owner[SessionOf[r]] = CallerOf[r] /\ request[r].customer = CallerOf[r]
      BY <3>2 DEF OwnerIsCaller, Claimed, Reading
    <3>4. /\ request'[r].pc \notin {"placed", "replayed"}
          /\ request'[r].customer = request[r].customer
          /\ \A q \in Requests : q # r => request'[q] = request[q]
      BY <2>a, <3>1
    <3> QED
      BY <3>2, <3>3, <3>4, MoveKeepsCaller
  <2>6. ASSUME NEW r \in Requests, TurnDown(r) \/ Crash(r)
        PROVE  OwnerIsCaller' /\ OrderIsTheirs'
    BY <2>6, <2>a, <2>b, MoveKeepsCaller
       DEF TurnDown, Crash, world, Claimed, Reading, PastStall
  <2>7. ASSUME NEW r \in Requests, NextNumber(r) PROVE OwnerIsCaller' /\ OrderIsTheirs'
    <3>1. /\ owner[SessionOf[r]] = CallerOf[r] /\ request[r].customer = CallerOf[r]
          /\ owner' = owner /\ placed' = placed
      BY <2>7 DEF NextNumber, At, world, OwnerIsCaller, Claimed, Reading, PastStall
    <3>2. PICK n \in 0..MaxNumber :
            IF n = MaxNumber
              THEN End(r, "refused")
              ELSE /\ request' = [request EXCEPT ![r].pc = "insert", ![r].number = n + 1]
                   /\ UNCHANGED locks
      BY <2>7 DEF NextNumber
    <3>3. /\ request'[r].pc \in {"refused", "insert"}
          /\ request'[r].customer = request[r].customer
          /\ \A q \in Requests : q # r => request'[q] = request[q]
      <4>1. CASE n = MaxNumber
        BY <2>a, <2>b, <3>2, <4>1
      <4>2. CASE n # MaxNumber
        BY <3>2, <4>2 DEF TypeOK
      <4> QED
        BY <4>1, <4>2
    <3> QED
      BY <3>1, <3>3, MoveKeepsCaller
  <2>8. ASSUME NEW r \in Requests, Insert(r) PROVE OwnerIsCaller' /\ OrderIsTheirs'
    <3> DEFINE row == [customer |-> request[r].customer, day |-> day,
                       number |-> request[r].number]
    <3>1. owner' = owner /\ request[r].customer = CallerOf[r]
      BY <2>8 DEF Insert, At, OwnerIsCaller, Reading, PastStall
    <3>2. CASE placed' = placed /\ (End(r, "duplicate") \/ End(r, "collided"))
      BY <2>a, <2>b, <3>1, <3>2, MoveKeepsCaller DEF Claimed, Reading, PastStall
    <3>3. CASE /\ WithKey(KeyOf[r]) = {} /\ End(r, "placed")
               /\ placed' = [placed EXCEPT ![r] = row]
      <4>1. /\ request'[r].pc = "placed"
            /\ \A q \in Requests : q # r => request'[q] = request[q] /\ placed'[q] = placed[q]
            /\ placed'[r] = row
        BY <2>a, <2>b, <3>3 DEF TypeOK
      <4>2. OwnerIsCaller'
        BY <3>1, <4>1 DEF OwnerIsCaller, Claimed, Reading, PastStall
      <4>3. row \in OrderRows
        BY <2>8 DEF Insert, Numbered, At, OrderRows, TypeOK
      <4>4. r \in WithKey(KeyOf[r])' /\ placed'[r].customer = CallerOf[r]
        BY <3>1, <4>1, <4>3, NoOrderAssumption DEF WithKey, Placed
      <4>5. ASSUME NEW q \in Requests, q # r, request'[q].pc \in {"placed", "replayed"}
            PROVE  \E p \in WithKey(KeyOf[q])' : placed'[p].customer = CallerOf[q]
        <5>1. PICK p \in WithKey(KeyOf[q]) : placed[p].customer = CallerOf[q]
          BY <4>1, <4>5 DEF OrderIsTheirs
        <5>2. p # r
          BY <3>3, <5>1 DEF WithKey
        <5>3. p \in WithKey(KeyOf[q])' /\ placed'[p] = placed[p]
          BY <4>1, <5>1, <5>2 DEF WithKey, Placed
        <5> QED
          BY <5>1, <5>3
      <4>6. OrderIsTheirs'
        BY <4>4, <4>5 DEF OrderIsTheirs
      <4> QED
        BY <4>2, <4>6
    <3> QED
      BY <2>8, <3>2, <3>3 DEF Insert
  <2>9. ASSUME NEW s \in Sessions, Verify(s) PROVE OwnerIsCaller' /\ OrderIsTheirs'
    <3>1. PICK r \in Requests : SessionOf[r] = s /\ owner' = [owner EXCEPT ![s] = CallerOf[r]]
      BY <2>9 DEF Verify
    <3>2. \A q \in Requests : SessionOf[q] = s => owner'[SessionOf[q]] = CallerOf[q]
      BY <3>1 DEF OneCustomerPerSession, TypeOK
    <3>3. \A q \in Requests : SessionOf[q] # s => owner'[SessionOf[q]] = owner[SessionOf[q]]
      BY <3>1 DEF TypeOK
    <3>4. OwnerIsCaller'
      BY <2>9, <3>2, <3>3 DEF Verify, OwnerIsCaller
    <3> QED
      BY <2>9, <3>4 DEF Verify, OrderIsTheirs, WithKey, Placed
  <2>10. CASE \/ \E v \in Stalls : Shut(v) \/ Reopen(v)
              \/ Midnight
              \/ UNCHANGED vars
    BY <2>10 DEF Shut, Reopen, Midnight, vars, OwnerIsCaller, OrderIsTheirs, WithKey, Placed
  <2> QED
    BY <2>1, <2>2, <2>3, <2>4, <2>5, <2>6, <2>7, <2>8, <2>9, <2>10 DEF Next
<1> QED
  BY <1>1, <1>2, Typing, PTL DEF Spec
=============================================================================
