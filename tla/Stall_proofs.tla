---------------------------- MODULE Stall_proofs ----------------------------
(***************************************************************************)
(* Theorems about a stall and about the worker that tells its customers,   *)
(* for any number of tablets, dishes, tills, requests, orders and workers. *)
(*                                                                         *)
(* The menu's two allowances hold by the lock: what its holder counted is  *)
(* still an upper bound when it writes, because only a holder of the lock  *)
(* picks a dish or opens a generation.  The import needs the identifiers:  *)
(* no two rows carry the same one.  The till debits once because it stops  *)
(* at a doubt: whatever the machine holds, it holds for the newest intent. *)
(* A tier is told once because the row of a rung names one holder, and the *)
(* row leaves that holder only by its outcome, by a crash or by age.       *)
(* The page keeps its word because the stretches of currentClose are the   *)
(* spans run together, and because the clock reads the same schedule on.   *)
(***************************************************************************)
EXTENDS Stall, Worker, TLAPS, FiniteSetTheorems, WellFoundedInduction

DishRows ==
  [name : Names, ext : Ids \cup {"none"}, status : {"ACTIVE", "INACTIVE"},
   availability : Availability, must_try : BOOLEAN]

Outcomes == {"PENDING", "OK", "ALL_PROVIDERS_FAILED"}

RequestsOfTablets ==
  {Closed}
  \cup [doing : {"star"}, dish : Nat, mustTry : BOOLEAN]
  \cup [doing : {"words"}]
  \cup [doing : {"add"}, name : Names]
  \cup [doing : {"mark"}, dish : Nat, mustTry : BOOLEAN, others : Nat]
  \cup [doing : {"reserve"}, spent : Nat]
  \cup [doing : {"call"}, row : Nat]

Imports ==
  {Closed}
  \cup [doing : {"import"}, file : {f \in SUBSET Entries : IsFiniteSet(f)},
        seen : Seq([name : Names, ext : Ids \cup {"none"}, status : {"ACTIVE", "INACTIVE"}])]

TypeOK ==
  /\ dishes \in Seq(DishRows)
  /\ generations \in Seq(Outcomes)
  /\ locker \in Tablets \cup {Unlocked}
  /\ tablet \in [Tablets -> RequestsOfTablets]
  /\ import \in Imports
  /\ requests \in Nat

-----------------------------------------------------------------------------
(* One element of a sequence replaced.                                     *)
LEMMA ReplacedElement ==
  ASSUME NEW T, NEW s \in Seq(T), NEW k, NEW x \in T
  PROVE  /\ [s EXCEPT ![k] = x] \in Seq(T)
         /\ DOMAIN [s EXCEPT ![k] = x] = DOMAIN s
<1>1. PICK n \in Nat : s \in [1..n -> T]
  OBVIOUS
<1>2. [s EXCEPT ![k] = x] \in [1..n -> T]
  BY <1>1
<1> QED
  BY <1>1, <1>2

(* A finite set is listed by SetToSeq.                                     *)
LEMMA ListsASet ==
  ASSUME NEW S, IsFiniteSet(S)
  PROVE  SetToSeq(S) \in [1..Cardinality(S) -> S] /\ Cardinality(S) \in Nat
<1>1. Cardinality(S) \in Nat /\ ExistsBijection(1..Cardinality(S), S)
  BY FS_CardinalityType
<1>2. PICK f \in Bijection(1..Cardinality(S), S) : TRUE
  BY <1>1 DEF ExistsBijection
<1>3. f \in [1..Cardinality(S) -> S] /\ IsInjective(f)
  BY <1>2 DEF Bijection, Injection
<1>4. \E g \in [1..Cardinality(S) -> S] : IsInjective(g)
  BY <1>3
<1> QED
  BY <1>1, <1>4 DEF SetToSeq

(* The rows an import appends are dish rows that nobody picked.            *)
LEMMA AddedRows ==
  ASSUME TypeOK, import # Closed, NEW found, NEW available
  PROVE  /\ Added(found, available) \in Seq(DishRows)
         /\ \A k \in DOMAIN Added(found, available) : ~Added(found, available)[k].must_try
<1> DEFINE S == {e \in import.file : found[e] = 0}
           new == SetToSeq(S)
           n == Cardinality(S)
<1>1. import.file \in SUBSET Entries /\ IsFiniteSet(import.file)
  BY DEF TypeOK, Imports
<1>2. S \in SUBSET Entries /\ IsFiniteSet(S)
  <2>1. S \subseteq import.file
    OBVIOUS
  <2> QED
    BY <1>1, <2>1, FS_Subset
<1>3. new \in [1..n -> S] /\ n \in Nat
  BY <1>2, ListsASet
<1>4. DOMAIN new = 1..n /\ \A k \in 1..n : new[k] \in Entries
  BY <1>2, <1>3
<1> HIDE DEF new, n, S
<1>5. \A e \in Entries, a \in Availability : Dish(e, a) \in DishRows /\ ~Dish(e, a).must_try
  BY DEF Dish, Entries, DishRows
<1>6. Added(found, available) =
        [k \in 1..n |-> Dish(new[k], IF new[k] \in available THEN "AVAILABLE" ELSE "TEMPORARILY_UNAVAILABLE")]
  BY <1>4 DEF Added, new, S
<1>7. \A k \in 1..n :
        /\ Dish(new[k], IF new[k] \in available THEN "AVAILABLE" ELSE "TEMPORARILY_UNAVAILABLE") \in DishRows
        /\ ~Dish(new[k], IF new[k] \in available THEN "AVAILABLE" ELSE "TEMPORARILY_UNAVAILABLE").must_try
  BY <1>4, <1>5 DEF Availability
<1>8. Added(found, available) \in [1..n -> DishRows]
  BY <1>6, <1>7
<1>9. \A k \in 1..n : ~Added(found, available)[k].must_try
  BY <1>6, <1>7
<1> QED
  BY <1>3, <1>8, <1>9

(* What an import does to the rows it found leaves them picked or not.     *)
LEMMA RewrittenRows ==
  ASSUME TypeOK, import # Closed, NEW found
  PROVE  /\ Rewritten(found) \in [DOMAIN dishes -> DishRows]
         /\ \A i \in DOMAIN dishes : Rewritten(found)[i].must_try = dishes[i].must_try
<1>1. import.file \in SUBSET Entries
  BY DEF TypeOK, Imports
<1>2. \A d \in DishRows, e \in Entries :
        Updated(d, e) \in DishRows /\ Updated(d, e).must_try = d.must_try
  BY DEF Updated, DishRows, Entries
<1>3. \A d \in DishRows : Removed(d) \in DishRows /\ Removed(d).must_try = d.must_try
  BY DEF Removed, DishRows, Availability
<1> DEFINE Row(i) == IF \E e \in import.file : found[e] = i
                     THEN Updated(dishes[i], CHOOSE e \in import.file : found[e] = i)
                     ELSE IF Gone(i) THEN Removed(dishes[i]) ELSE dishes[i]
<1>4. ASSUME NEW i \in DOMAIN dishes
      PROVE  Row(i) \in DishRows /\ Row(i).must_try = dishes[i].must_try
  <2>1. dishes[i] \in DishRows
    BY DEF TypeOK
  <2>2. CASE \E e \in import.file : found[e] = i
    <3>1. (CHOOSE e \in import.file : found[e] = i) \in Entries
      BY <1>1, <2>2
    <3> QED
      BY <1>2, <2>1, <2>2, <3>1
  <2>3. CASE ~\E e \in import.file : found[e] = i
    BY <1>3, <2>1, <2>3
  <2> QED
    BY <2>2, <2>3
<1>5. Rewritten(found) = [i \in DOMAIN dishes |-> Row(i)]
  BY DEF Rewritten
<1> HIDE DEF Row
<1> QED
  BY <1>4, <1>5

(* What is counted is finite.                                              *)
LEMMA PicksAreFinite ==
  ASSUME TypeOK, NEW i
  PROVE  IsFiniteSet(Picks(i))
<1>1. DOMAIN dishes = 1..Len(dishes) /\ Len(dishes) \in Nat
  BY DEF TypeOK
<1>2. IsFiniteSet(DOMAIN dishes)
  BY <1>1, FS_Interval
<1>3. Picks(i) \subseteq DOMAIN dishes
  BY DEF Picks
<1> QED
  BY <1>2, <1>3, FS_Subset

LEMMA ChargedIsFinite ==
  ASSUME TypeOK
  PROVE  IsFiniteSet(Charged)
<1>1. DOMAIN generations = 1..Len(generations) /\ Len(generations) \in Nat
  BY DEF TypeOK
<1>2. IsFiniteSet(DOMAIN generations)
  BY <1>1, FS_Interval
<1>3. Charged \subseteq DOMAIN generations
  BY DEF Charged
<1> QED
  BY <1>2, <1>3, FS_Subset

-----------------------------------------------------------------------------
(* The type invariant, one step per action.                                *)
THEOREM MenuTypes == MenuSpec => []TypeOK
<1>1. MenuInit => TypeOK
  BY DEF MenuInit, TypeOK, Dish, ByName, DishRows, Availability, RequestsOfTablets, Imports
<1>2. TypeOK /\ [MenuNext]_menuVars => TypeOK'
  <2> SUFFICES ASSUME TypeOK, [MenuNext]_menuVars PROVE TypeOK'
    OBVIOUS
  <2> USE DEF TypeOK
  <2>1. ASSUME NEW t \in Tablets, NEW r \in RequestsOfTablets, Send(t, r)
        PROVE  tablet' \in [Tablets -> RequestsOfTablets] /\ requests' \in Nat
    BY <2>1 DEF Send
  <2>2. ASSUME NEW t \in Tablets, NEW i \in DOMAIN dishes, NEW m \in BOOLEAN, AskStar(t, i, m)
        PROVE  TypeOK'
    <3>1. [doing |-> "star", dish |-> i, mustTry |-> m] \in RequestsOfTablets
      BY DEF RequestsOfTablets
    <3> QED
      BY <2>1, <2>2, <3>1 DEF AskStar
  <2>3. ASSUME NEW t \in Tablets, AskWords(t) PROVE TypeOK'
    <3>1. [doing |-> "words"] \in RequestsOfTablets
      BY DEF RequestsOfTablets
    <3> QED
      BY <2>1, <2>3, <3>1 DEF AskWords
  <2>4. ASSUME NEW t \in Tablets, NEW n \in Names, LookForClash(t, n) PROVE TypeOK'
    <3>1. [doing |-> "add", name |-> n] \in RequestsOfTablets
      BY DEF RequestsOfTablets
    <3> QED
      BY <2>1, <2>4, <3>1 DEF LookForClash
  <2>5. Closed \in RequestsOfTablets
    BY DEF RequestsOfTablets
  <2>6. ASSUME NEW t \in Tablets, LockAndCount(t) PROVE TypeOK'
    <3> DEFINE r == tablet[t]
    <3>1. r \in RequestsOfTablets
      OBVIOUS
    <3>2. CASE r.doing = "star"
      <4>1. r.dish \in Nat /\ r.mustTry \in BOOLEAN
        BY <3>1, <3>2 DEF RequestsOfTablets, Closed
      <4>2. Cardinality(Picks(r.dish)) \in Nat
        BY PicksAreFinite, FS_CardinalityType
      <4>3. [doing |-> "mark", dish |-> r.dish, mustTry |-> r.mustTry,
             others |-> Cardinality(Picks(r.dish))] \in RequestsOfTablets
        BY <4>1, <4>2 DEF RequestsOfTablets
      <4> QED
        BY <2>6, <3>2, <4>3 DEF LockAndCount
    <3>3. CASE r.doing # "star"
      <4>1. Cardinality(Charged) \in Nat
        BY ChargedIsFinite, FS_CardinalityType
      <4>2. [doing |-> "reserve", spent |-> Cardinality(Charged)] \in RequestsOfTablets
        BY <4>1 DEF RequestsOfTablets
      <4> QED
        BY <2>6, <3>3, <4>2 DEF LockAndCount
    <3> QED
      BY <3>2, <3>3
  <2>7. ASSUME NEW t \in Tablets, Mark(t) PROVE TypeOK'
    <3>1. tablet[t].dish \in Nat /\ tablet[t].mustTry \in BOOLEAN
      BY <2>7 DEF Mark, RequestsOfTablets, Closed
    <3> DEFINE marked == [dishes EXCEPT ![tablet[t].dish].must_try = tablet[t].mustTry]
    <3>2. marked \in Seq(DishRows)
      <4>1. PICK n \in Nat : dishes \in [1..n -> DishRows]
        OBVIOUS
      <4>2. \A d \in DishRows : [d EXCEPT !.must_try = tablet[t].mustTry] \in DishRows
        BY <3>1 DEF DishRows
      <4>3. marked \in [1..n -> DishRows]
        BY <4>1, <4>2
      <4> QED
        BY <4>1, <4>3
    <3> QED
      BY <2>5, <2>7, <3>2 DEF Mark
  <2>8. ASSUME NEW t \in Tablets, Reserve(t) PROVE TypeOK'
    <3>1. Len(generations) + 1 \in Nat
      OBVIOUS
    <3>2. [doing |-> "call", row |-> Len(generations) + 1] \in RequestsOfTablets
      BY <3>1 DEF RequestsOfTablets
    <3>3. Append(generations, "PENDING") \in Seq(Outcomes)
      BY DEF Outcomes
    <3> QED
      BY <2>5, <2>8, <3>2, <3>3 DEF Reserve
  <2>9. ASSUME NEW t \in Tablets, Settle(t) PROVE TypeOK'
    <3>1. \A outcome \in Described :
            [generations EXCEPT ![tablet[t].row] = outcome] \in Seq(Outcomes)
      <4>1. \A outcome \in Described : outcome \in Outcomes
        BY DEF Outcomes, Described
      <4> QED
        BY <4>1, ReplacedElement
    <3> QED
      BY <2>5, <2>9, <3>1 DEF Settle
  <2>10. ASSUME NEW t \in Tablets, Die(t) PROVE TypeOK'
    BY <2>5, <2>10 DEF Die
  <2>11. ASSUME NEW t \in Tablets, Insert(t) PROVE TypeOK'
    <3>1. tablet[t].name \in Names
      BY <2>11 DEF Insert, RequestsOfTablets, Closed
    <3>2. Dish(ByName(tablet[t].name), "AVAILABLE") \in DishRows
      BY <3>1 DEF Dish, ByName, DishRows, Availability
    <3> QED
      BY <2>5, <2>11, <3>2 DEF Insert
  <2>12. ASSUME NEW i \in DOMAIN dishes, NEW d \in DishRows, Edit(i, d) PROVE TypeOK'
    <3>1. [dishes EXCEPT ![i] = d] \in Seq(DishRows)
      BY ReplacedElement
    <3> QED
      BY <2>12, <3>1 DEF Edit
  <2>13. ASSUME NEW i \in DOMAIN dishes, NEW to \in Availability, SetAvailability(i, to)
         PROVE  TypeOK'
    <3>1. dishes[i] \in DishRows
      OBVIOUS
    <3>2. [dishes[i] EXCEPT !.availability = to] \in DishRows
      BY <3>1 DEF DishRows
    <3> QED
      BY <2>12, <2>13, <3>2 DEF SetAvailability
  <2>14. ASSUME NEW i \in DOMAIN dishes, NEW n \in Names, Rename(i, n) PROVE TypeOK'
    <3>1. dishes[i] \in DishRows
      OBVIOUS
    <3>2. [dishes[i] EXCEPT !.name = n] \in DishRows
      BY <3>1 DEF DishRows
    <3> QED
      BY <2>12, <2>14, <3>2 DEF Rename
  <2>15. ASSUME NEW i \in DOMAIN dishes, Discontinue(i) PROVE TypeOK'
    <3>1. dishes[i] \in DishRows
      OBVIOUS
    <3>2. [dishes[i] EXCEPT !.status = "INACTIVE"] \in DishRows
      BY <3>1 DEF DishRows
    <3> QED
      BY <2>12, <2>15, <3>2 DEF Discontinue
  <2>16. ASSUME NEW file \in SUBSET Entries, ReadMenu(file) PROVE TypeOK'
    <3> DEFINE Columns == [name : Names, ext : Ids \cup {"none"}, status : {"ACTIVE", "INACTIVE"}]
    <3>1. Catalogue(dishes) \in Seq(Columns)
      <4>1. PICK n \in Nat : dishes \in [1..n -> DishRows]
        OBVIOUS
      <4>2. \A d \in DishRows : [name |-> d.name, ext |-> d.ext, status |-> d.status] \in Columns
        BY DEF DishRows
      <4> HIDE DEF Columns
      <4>3. Catalogue(dishes) \in [1..n -> Columns]
        BY <4>1, <4>2 DEF Catalogue
      <4> QED
        BY <4>1, <4>3
    <3>2. [doing |-> "import", file |-> file, seen |-> Catalogue(dishes)] \in Imports
      BY <2>16, <3>1 DEF ReadMenu, Sane, Imports
    <3> QED
      BY <2>16, <3>2 DEF ReadMenu
  <2>17. ASSUME ApplyMenu PROVE TypeOK'
    <3>1. PICK found \in Assignments, available \in SUBSET import.file :
            dishes' = Rewritten(found) \o Added(found, available)
      BY <2>17 DEF ApplyMenu
    <3>2. Rewritten(found) \in Seq(DishRows)
      BY <2>17, RewrittenRows DEF ApplyMenu
    <3>3. Added(found, available) \in Seq(DishRows)
      BY <2>17, AddedRows DEF ApplyMenu
    <3>4. dishes' \in Seq(DishRows)
      BY <3>1, <3>2, <3>3
    <3>5. Closed \in Imports
      BY DEF Imports
    <3> QED
      BY <2>17, <3>4, <3>5 DEF ApplyMenu
  <2>18. ASSUME RollBack PROVE TypeOK'
    <3>1. Closed \in Imports
      BY DEF Imports
    <3> QED
      BY <2>18, <3>1 DEF RollBack
  <2>19. ASSUME UNCHANGED menuVars PROVE TypeOK'
    BY <2>19 DEF menuVars
  <2> QED
    BY <2>2, <2>3, <2>4, <2>6, <2>7, <2>8, <2>9, <2>10, <2>11, <2>13, <2>14, <2>15,
       <2>16, <2>17, <2>18, <2>19 DEF MenuNext
<1> QED
  BY <1>1, <1>2, PTL DEF MenuSpec

-----------------------------------------------------------------------------
(* What a request with the lock has counted bounds what is there, and a    *)
(* generation in flight has a PENDING row of its own.                      *)
Counted ==
  \A t \in Tablets :
    /\ tablet[t].doing = "mark" =>
         locker = t /\ Cardinality(Picks(tablet[t].dish)) <= tablet[t].others
    /\ tablet[t].doing = "reserve" =>
         locker = t /\ Cardinality(Charged) <= tablet[t].spent

OwnRows ==
  \A t \in Tablets : tablet[t].doing = "call" =>
    /\ tablet[t].row \in DOMAIN generations
    /\ generations[tablet[t].row] = "PENDING"
    /\ \A s \in Tablets :
         s # t /\ tablet[s].doing = "call" => tablet[s].row # tablet[t].row

CapsInv == CapsHold /\ Counted /\ OwnRows

(* While no dish is picked or dropped and no generation opened, what was   *)
(* counted stays true, for requests that only wait or leave.               *)
LEMMA NothingSpent ==
  ASSUME CapsInv,
         \A i : Picks(i)' = Picks(i),
         generations' = generations,
         \A t \in Tablets :
           \/ tablet'[t] = tablet[t] /\ (locker = t => locker' = t)
           \/ tablet'[t].doing \in {"nothing", "star", "words", "add"}
  PROVE  CapsInv'
<1>1. Charged' = Charged
  BY DEF Charged
<1>2. CapsHold'
  BY <1>1 DEF CapsInv, CapsHold
<1>3. Counted'
  BY <1>1 DEF CapsInv, Counted
<1>4. OwnRows'
  BY DEF CapsInv, OwnRows
<1> QED
  BY <1>2, <1>3, <1>4 DEF CapsInv

(* Rows that change but for their pick, and rows added that nobody picked. *)
LEMMA SamePicks ==
  ASSUME TypeOK, TypeOK',
         Len(dishes') >= Len(dishes),
         \A i \in DOMAIN dishes : dishes'[i].must_try = dishes[i].must_try,
         \A i \in DOMAIN dishes' : i \notin DOMAIN dishes => ~dishes'[i].must_try
  PROVE  \A i : Picks(i)' = Picks(i)
<1>1. DOMAIN dishes \subseteq DOMAIN dishes'
  BY DEF TypeOK
<1>2. ASSUME NEW i, NEW j PROVE j \in Picks(i)' <=> j \in Picks(i)
  <2>1. j \in Picks(i) <=> j \in DOMAIN dishes /\ j # i /\ dishes[j].must_try
    BY DEF Picks
  <2>2. j \in Picks(i)' <=> j \in DOMAIN dishes' /\ j # i /\ dishes'[j].must_try
    BY DEF Picks
  <2> QED
    BY <1>1, <2>1, <2>2
<1> QED
  BY <1>2

(* Whoever takes the lock has nobody else's count to respect.              *)
LEMMA TakingTheLock ==
  ASSUME TypeOK, CapsInv, NEW t \in Tablets, LockAndCount(t)
  PROVE  CapsInv'
<1>1. /\ dishes' = dishes /\ generations' = generations
      /\ locker = Unlocked /\ locker' = t
      /\ tablet[t].doing \in {"star", "words"}
  BY DEF LockAndCount
<1>2. Charged' = Charged /\ \A i : Picks(i)' = Picks(i)
  BY <1>1 DEF Charged, Picks
<1>3. \A s \in Tablets : s # t =>
        tablet'[s] = tablet[s] /\ tablet[s].doing \notin {"mark", "reserve"}
  <2> SUFFICES ASSUME NEW s \in Tablets, s # t
      PROVE  tablet'[s] = tablet[s] /\ tablet[s].doing \notin {"mark", "reserve"}
    OBVIOUS
  <2>1. tablet'[s] = tablet[s]
    BY DEF LockAndCount, TypeOK
  <2>2. locker # s
    BY <1>1, MenuAssumption DEF Unlocked
  <2> QED
    BY <2>1, <2>2 DEF CapsInv, Counted
<1>4. \/ /\ tablet'[t].doing = "mark"
         /\ tablet'[t].others = Cardinality(Picks(tablet'[t].dish))
      \/ /\ tablet'[t].doing = "reserve"
         /\ tablet'[t].spent = Cardinality(Charged)
  BY DEF LockAndCount, TypeOK
<1>5. \A i : Cardinality(Picks(i)) \in Nat
  BY PicksAreFinite, FS_CardinalityType
<1>6. Cardinality(Charged) \in Nat
  BY ChargedIsFinite, FS_CardinalityType
<1>7. CapsHold'
  BY <1>2 DEF CapsInv, CapsHold
<1>8. Counted'
  <2> SUFFICES ASSUME NEW s \in Tablets
      PROVE  /\ tablet'[s].doing = "mark" =>
                  locker' = s /\ Cardinality(Picks(tablet[s].dish)') <= tablet'[s].others
             /\ tablet'[s].doing = "reserve" =>
                  locker' = s /\ Cardinality(Charged') <= tablet'[s].spent
    BY DEF Counted
  <2>1. CASE s = t
    <3>1. CASE tablet'[t].doing = "mark"
      <4>1. Picks(tablet[t].dish)' = Picks(tablet'[t].dish)
        BY <1>1 DEF Picks
      <4>2. tablet'[t].others = Cardinality(Picks(tablet'[t].dish))
        BY <1>4, <3>1
      <4> QED
        BY <1>1, <1>5, <2>1, <3>1, <4>1, <4>2
    <3>2. CASE tablet'[t].doing = "reserve"
      BY <1>1, <1>2, <1>4, <1>6, <2>1, <3>2
    <3> QED
      BY <2>1, <3>1, <3>2
  <2>2. CASE s # t
    BY <1>3, <2>2
  <2> QED
    BY <2>1, <2>2
<1>9. OwnRows'
  BY <1>1, <1>3, <1>4 DEF CapsInv, OwnRows
<1> QED
  BY <1>7, <1>8, <1>9 DEF CapsInv

(* The picker marks one dish more than the others it counted.              *)
LEMMA Marking ==
  ASSUME TypeOK, TypeOK', CapsInv, NEW t \in Tablets, Mark(t)
  PROVE  CapsInv'
<1> DEFINE r == tablet[t]
<1>1. /\ r.doing = "mark" /\ locker = t /\ locker' = Unlocked
      /\ Cardinality(Picks(r.dish)) <= r.others
      /\ generations' = generations
      /\ tablet' = [tablet EXCEPT ![t] = Closed]
  BY DEF Mark, CapsInv, Counted
<1>2. r.dish \in Nat /\ r.mustTry \in BOOLEAN /\ r.others \in Nat
  BY <1>1 DEF TypeOK, RequestsOfTablets, Closed
<1>3. Charged' = Charged
  BY <1>1 DEF Charged
<1>4. \A s \in Tablets : s # t =>
        tablet'[s] = tablet[s] /\ tablet[s].doing \notin {"mark", "reserve"}
  BY <1>1 DEF CapsInv, Counted, TypeOK
<1>5. tablet'[t].doing = "nothing"
  BY <1>1 DEF TypeOK, Closed
<1>6. Counted'
  BY <1>4, <1>5 DEF Counted
<1>7. OwnRows'
  BY <1>1, <1>4, <1>5 DEF CapsInv, OwnRows
<1>8. Cardinality(Picks(0)') <= MustTryLimit
  <2>1. /\ IsFiniteSet(Picks(0)) /\ IsFiniteSet(Picks(r.dish))
        /\ Cardinality(Picks(0)) \in Nat /\ Cardinality(Picks(r.dish)) \in Nat
    BY PicksAreFinite, FS_CardinalityType
  <2>2. Cardinality(Picks(0)) <= MustTryLimit
    BY DEF CapsInv, CapsHold
  <2>3. CASE r.mustTry /\ r.others >= MustTryLimit
    <3>1. dishes' = dishes
      BY <2>3 DEF Mark
    <3>2. Picks(0)' = Picks(0)
      BY <3>1 DEF Picks
    <3> QED
      BY <2>2, <3>2
  <2>4. CASE ~(r.mustTry /\ r.others >= MustTryLimit)
    <3>1. dishes' = [dishes EXCEPT ![r.dish].must_try = r.mustTry]
      BY <2>4 DEF Mark
    <3>2. /\ DOMAIN dishes' = DOMAIN dishes
          /\ \A j \in DOMAIN dishes : j # r.dish => dishes'[j] = dishes[j]
          /\ r.dish \in DOMAIN dishes => dishes'[r.dish].must_try = r.mustTry
      BY <3>1 DEF TypeOK, DishRows
    <3>3. 0 \notin DOMAIN dishes
      BY DEF TypeOK
    <3>4. CASE r.mustTry
      <4>1. Picks(0)' \subseteq Picks(r.dish) \cup {r.dish}
        BY <3>2 DEF Picks
      <4>2. /\ IsFiniteSet(Picks(r.dish) \cup {r.dish})
            /\ Cardinality(Picks(r.dish) \cup {r.dish}) <= Cardinality(Picks(r.dish)) + 1
        <5> DEFINE P == Picks(r.dish)
        <5>1. r.dish \notin P
          BY DEF Picks
        <5>2. IsFiniteSet(P) /\ Cardinality(P) \in Nat
          BY <2>1
        <5> HIDE DEF P
        <5>3. /\ IsFiniteSet(P \cup {r.dish})
              /\ r.dish \notin P => Cardinality(P \cup {r.dish}) = Cardinality(P) + 1
          BY <5>2, FS_AddElement
        <5>4. IsFiniteSet(P \cup {r.dish}) /\ Cardinality(P \cup {r.dish}) <= Cardinality(P) + 1
          BY <5>1, <5>2, <5>3
        <5> QED
          BY <5>4 DEF P
      <4>3. Cardinality(Picks(0)') <= Cardinality(Picks(r.dish) \cup {r.dish})
        BY <4>1, <4>2, FS_Subset
      <4>4. Cardinality(Picks(0)') \in Nat
        BY <4>1, <4>2, FS_Subset, FS_CardinalityType
      <4>5. r.others + 1 <= MustTryLimit
        BY <1>2, <2>4, <3>4, MenuAssumption
      <4>6. Cardinality(Picks(r.dish) \cup {r.dish}) \in Nat
        BY <4>2, FS_CardinalityType
      <4> QED
        BY <1>1, <1>2, <2>1, <4>2, <4>3, <4>4, <4>5, <4>6, MenuAssumption
    <3>5. CASE ~r.mustTry
      <4>1. Picks(0)' \subseteq Picks(0)
        BY <3>2, <3>5 DEF Picks
      <4>2. Cardinality(Picks(0)') <= Cardinality(Picks(0)) /\ Cardinality(Picks(0)') \in Nat
        BY <2>1, <4>1, FS_Subset, FS_CardinalityType
      <4> QED
        BY <2>1, <2>2, <4>2, MenuAssumption
    <3> QED
      BY <3>4, <3>5
  <2> QED
    BY <2>3, <2>4
<1> QED
  BY <1>3, <1>6, <1>7, <1>8 DEF CapsInv, CapsHold

(* The reservation charges one generation more than it counted.            *)
LEMMA Reserving ==
  ASSUME TypeOK, CapsInv, NEW t \in Tablets, Reserve(t)
  PROVE  CapsInv'
<1> DEFINE r == tablet[t]
<1>1. /\ r.doing = "reserve" /\ locker = t /\ locker' = Unlocked
      /\ Cardinality(Charged) <= r.spent
      /\ dishes' = dishes
  BY DEF Reserve, CapsInv, Counted
<1>2. r.spent \in Nat
  BY <1>1 DEF TypeOK, RequestsOfTablets, Closed
<1>3. \A i : Picks(i)' = Picks(i)
  BY <1>1 DEF Picks
<1>4. \A s \in Tablets : s # t =>
        tablet'[s] = tablet[s] /\ tablet[s].doing \notin {"mark", "reserve"}
  BY <1>1 DEF Reserve, CapsInv, Counted, TypeOK
<1>5. CASE r.spent >= Granted
  <2>1. generations' = generations /\ tablet'[t] = Closed
    BY <1>5 DEF Reserve, TypeOK
  <2>2. Charged' = Charged
    BY <2>1 DEF Charged
  <2>3. CapsHold'
    BY <1>3, <2>2 DEF CapsInv, CapsHold
  <2>4. Counted'
    BY <1>4, <2>1 DEF Counted, Closed
  <2>5. OwnRows'
    BY <1>4, <2>1 DEF CapsInv, OwnRows, Closed
  <2> QED
    BY <2>3, <2>4, <2>5 DEF CapsInv
<1>6. CASE ~(r.spent >= Granted)
  <2> DEFINE n == Len(generations) + 1
  <2>1. /\ generations' = Append(generations, "PENDING")
        /\ tablet'[t] = [doing |-> "call", row |-> n]
    BY <1>6 DEF Reserve, TypeOK
  <2>2. n \in Nat /\ n \notin DOMAIN generations
    BY DEF TypeOK
  <2>3. /\ DOMAIN generations' = DOMAIN generations \cup {n}
        /\ \A g \in DOMAIN generations : generations'[g] = generations[g]
        /\ generations'[n] = "PENDING"
    BY <2>1 DEF TypeOK
  <2> HIDE DEF n
  <2>4. Charged' = Charged \cup {n}
    BY <2>2, <2>3 DEF Charged
  <2>5. IsFiniteSet(Charged) /\ Cardinality(Charged) \in Nat
    BY ChargedIsFinite, FS_CardinalityType
  <2>6. n \notin Charged
    BY <2>2 DEF Charged
  <2>7. Cardinality(Charged \cup {n}) = Cardinality(Charged) + 1
    BY <2>5, <2>6, FS_AddElement
  <2>8. Cardinality(Charged') <= Granted
    BY <1>1, <1>2, <1>6, <2>4, <2>5, <2>7, MenuAssumption
  <2>9. CapsHold'
    BY <1>3, <2>8 DEF CapsInv, CapsHold
  <2>10. Counted'
    BY <1>4, <2>1 DEF Counted
  <2>11. OwnRows'
    BY <1>4, <2>1, <2>2, <2>3 DEF CapsInv, OwnRows
  <2> QED
    BY <2>9, <2>10, <2>11 DEF CapsInv
<1> QED
  BY <1>5, <1>6

(* A generation that ends leaves its own row charged or gives it back.     *)
LEMMA Settling ==
  ASSUME TypeOK, CapsInv, NEW t \in Tablets, Settle(t)
  PROVE  CapsInv'
<1> DEFINE g == tablet[t].row
<1>1. PICK outcome \in Described :
        generations' = [generations EXCEPT ![g] = outcome]
  BY DEF Settle
<1>2. /\ tablet[t].doing = "call" /\ dishes' = dishes /\ locker' = locker
      /\ tablet'[t] = Closed /\ \A s \in Tablets : s # t => tablet'[s] = tablet[s]
  BY DEF Settle, TypeOK
<1>3. /\ g \in DOMAIN generations /\ generations[g] = "PENDING"
      /\ \A s \in Tablets : s # t /\ tablet[s].doing = "call" => tablet[s].row # g
  BY <1>2 DEF CapsInv, OwnRows
<1>4. /\ DOMAIN generations' = DOMAIN generations
      /\ \A h \in DOMAIN generations : h # g => generations'[h] = generations[h]
  BY <1>1
<1>5. Charged' \subseteq Charged
  BY <1>3, <1>4 DEF Charged
<1>6. IsFiniteSet(Charged) /\ Cardinality(Charged) \in Nat
  BY ChargedIsFinite, FS_CardinalityType
<1>7. Cardinality(Charged') <= Cardinality(Charged) /\ Cardinality(Charged') \in Nat
  BY <1>5, <1>6, FS_Subset, FS_CardinalityType
<1>8. \A i : Picks(i)' = Picks(i)
  BY <1>2 DEF Picks
<1>9. CapsHold'
  BY <1>6, <1>7, <1>8, MenuAssumption DEF CapsInv, CapsHold
<1>10. ASSUME NEW s \in Tablets, tablet[s].doing = "reserve" PROVE tablet[s].spent \in Nat
  BY <1>10 DEF TypeOK, RequestsOfTablets, Closed
<1>11. Counted'
  <2> SUFFICES ASSUME NEW s \in Tablets
      PROVE  /\ tablet'[s].doing = "mark" =>
                  locker' = s /\ Cardinality(Picks(tablet[s].dish)') <= tablet'[s].others
             /\ tablet'[s].doing = "reserve" =>
                  locker' = s /\ Cardinality(Charged') <= tablet'[s].spent
    BY DEF Counted
  <2>1. CASE s = t
    BY <1>2, <2>1 DEF Closed
  <2>2. CASE s # t
    <3>1. tablet'[s] = tablet[s]
      BY <1>2, <2>2
    <3>2. Picks(tablet[s].dish)' = Picks(tablet[s].dish)
      BY <1>2, <3>1 DEF Picks
    <3> QED
      BY <1>2, <1>6, <1>7, <1>10, <3>1, <3>2 DEF CapsInv, Counted
  <2> QED
    BY <2>1, <2>2
<1>12. OwnRows'
  BY <1>2, <1>3, <1>4 DEF CapsInv, OwnRows, Closed
<1> QED
  BY <1>9, <1>11, <1>12 DEF CapsInv

(* setMustTry and generate keep to their allowances, whatever requests and *)
(* imports overlap and whatever dies: CapsHold is an invariant.            *)
THEOREM CapsAlwaysHold == MenuSpec => []CapsHold
<1>1. MenuInit => CapsInv
  <2> SUFFICES ASSUME MenuInit PROVE CapsInv
    OBVIOUS
  <2>1. Picks(0) = {} /\ Charged = {}
    BY DEF MenuInit, Picks, Charged, Dish
  <2>2. CapsHold
    BY <2>1, FS_EmptySet, MenuAssumption DEF CapsHold
  <2>3. Counted /\ OwnRows
    BY DEF MenuInit, Counted, OwnRows, Closed
  <2> QED
    BY <2>2, <2>3 DEF CapsInv
<1>2. TypeOK /\ TypeOK' /\ CapsInv /\ [MenuNext]_menuVars => CapsInv'
  <2> SUFFICES ASSUME TypeOK, TypeOK', CapsInv, [MenuNext]_menuVars PROVE CapsInv'
    OBVIOUS
  <2>1. ASSUME dishes' = dishes PROVE \A i : Picks(i)' = Picks(i)
    BY <2>1 DEF Picks
  <2>2. ASSUME NEW t \in Tablets, NEW r, Send(t, r),
               r.doing \in {"star", "words", "add"},
               dishes' = dishes, generations' = generations, locker' = locker
        PROVE  CapsInv'
    <3>1. \A s \in Tablets :
            tablet'[s] = tablet[s] \/ tablet'[s].doing \in {"star", "words", "add"}
      BY <2>2 DEF Send, TypeOK
    <3> QED
      BY <2>1, <2>2, <3>1, NothingSpent
  <2>3. ASSUME NEW t \in Tablets, NEW i \in DOMAIN dishes, NEW m \in BOOLEAN, AskStar(t, i, m)
        PROVE  CapsInv'
    BY <2>2, <2>3 DEF AskStar
  <2>4. ASSUME NEW t \in Tablets, AskWords(t) PROVE CapsInv'
    BY <2>2, <2>4 DEF AskWords
  <2>5. ASSUME NEW t \in Tablets, NEW n \in Names, LookForClash(t, n) PROVE CapsInv'
    BY <2>2, <2>5 DEF LookForClash
  <2>6. ASSUME NEW t \in Tablets, LockAndCount(t) PROVE CapsInv'
    BY <2>6, TakingTheLock
  <2>7. ASSUME NEW t \in Tablets, Mark(t) PROVE CapsInv'
    BY <2>7, Marking
  <2>8. ASSUME NEW t \in Tablets, Reserve(t) PROVE CapsInv'
    BY <2>8, Reserving
  <2>9. ASSUME NEW t \in Tablets, Settle(t) PROVE CapsInv'
    BY <2>9, Settling
  <2>10. ASSUME NEW t \in Tablets, Die(t) PROVE CapsInv'
    <3>1. dishes' = dishes /\ generations' = generations
      BY <2>10 DEF Die
    <3>2. \A s \in Tablets :
            \/ tablet'[s] = tablet[s] /\ (locker = s => locker' = s)
            \/ tablet'[s].doing = "nothing"
      BY <2>10 DEF Die, TypeOK, Closed
    <3> QED
      BY <2>1, <3>1, <3>2, NothingSpent
  <2>11. ASSUME NEW t \in Tablets, Insert(t) PROVE CapsInv'
    <3> DEFINE new == Dish(ByName(tablet[t].name), "AVAILABLE")
    <3>1. dishes' = Append(dishes, new)
      BY <2>11 DEF Insert
    <3>2. ~new.must_try
      BY DEF Dish
    <3> HIDE DEF new
    <3>3. \A i \in DOMAIN dishes : dishes'[i].must_try = dishes[i].must_try
      BY <3>1 DEF TypeOK
    <3>4. \A i \in DOMAIN dishes' : i \notin DOMAIN dishes => ~dishes'[i].must_try
      BY <3>1, <3>2 DEF TypeOK
    <3>5. Len(dishes') >= Len(dishes)
      BY <3>1 DEF TypeOK
    <3>6. \A i : Picks(i)' = Picks(i)
      BY <3>3, <3>4, <3>5, SamePicks
    <3>7. /\ generations' = generations /\ locker' = locker
          /\ \A s \in Tablets : tablet'[s] = tablet[s] \/ tablet'[s].doing = "nothing"
      BY <2>11 DEF Insert, TypeOK, Closed
    <3> QED
      BY <3>6, <3>7, NothingSpent
  <2>12. ASSUME NEW i \in DOMAIN dishes, NEW d, d.must_try = dishes[i].must_try, Edit(i, d)
         PROVE  CapsInv'
    <3>1. dishes' = [dishes EXCEPT ![i] = d]
      BY <2>12 DEF Edit
    <3>2. /\ DOMAIN dishes' = DOMAIN dishes
          /\ \A j \in DOMAIN dishes : dishes'[j].must_try = dishes[j].must_try
      BY <2>12, <3>1 DEF TypeOK
    <3>3. Len(dishes') >= Len(dishes)
      BY <3>2 DEF TypeOK
    <3>4. \A j : Picks(j)' = Picks(j)
      BY <3>2, <3>3, SamePicks
    <3>5. generations' = generations /\ locker' = locker /\ tablet' = tablet
      BY <2>12 DEF Edit
    <3> QED
      BY <3>4, <3>5, NothingSpent
  <2>13. ASSUME NEW i \in DOMAIN dishes
         PROVE  /\ \A to \in Availability : SetAvailability(i, to) => CapsInv'
                /\ \A n \in Names : Rename(i, n) => CapsInv'
                /\ Discontinue(i) => CapsInv'
    <3>1. dishes[i] \in DishRows
      BY DEF TypeOK
    <3>2. /\ \A to : [dishes[i] EXCEPT !.availability = to].must_try = dishes[i].must_try
          /\ \A n : [dishes[i] EXCEPT !.name = n].must_try = dishes[i].must_try
          /\ [dishes[i] EXCEPT !.status = "INACTIVE"].must_try = dishes[i].must_try
      BY <3>1 DEF DishRows
    <3> QED
      BY <2>12, <3>2 DEF SetAvailability, Rename, Discontinue
  <2>14. ASSUME NEW file \in SUBSET Entries, ReadMenu(file) PROVE CapsInv'
    <3>1. /\ dishes' = dishes /\ generations' = generations
          /\ locker' = locker /\ tablet' = tablet
      BY <2>14 DEF ReadMenu
    <3> QED
      BY <2>1, <3>1, NothingSpent
  <2>15. ASSUME ApplyMenu PROVE CapsInv'
    <3>1. PICK found \in Assignments, available \in SUBSET import.file :
            dishes' = Rewritten(found) \o Added(found, available)
      BY <2>15 DEF ApplyMenu
    <3> DEFINE old == Rewritten(found)
               new == Added(found, available)
    <3>2. /\ old \in [DOMAIN dishes -> DishRows]
          /\ \A i \in DOMAIN dishes : old[i].must_try = dishes[i].must_try
      BY <2>15, RewrittenRows DEF ApplyMenu
    <3>3. new \in Seq(DishRows) /\ \A k \in DOMAIN new : ~new[k].must_try
      BY <2>15, AddedRows DEF ApplyMenu
    <3> HIDE DEF old, new
    <3>4. old \in Seq(DishRows) /\ Len(old) = Len(dishes) /\ DOMAIN dishes = 1..Len(dishes)
      BY <3>2 DEF TypeOK
    <3>5. dishes' = old \o new
      BY <3>1 DEF old, new
    <3>6. \A i \in DOMAIN dishes : dishes'[i].must_try = dishes[i].must_try
      BY <3>2, <3>3, <3>4, <3>5
    <3>7. \A i \in DOMAIN dishes' : i \notin DOMAIN dishes => ~dishes'[i].must_try
      <4> SUFFICES ASSUME NEW i \in DOMAIN dishes', i \notin DOMAIN dishes
          PROVE  ~dishes'[i].must_try
        OBVIOUS
      <4>1. i \in 1..(Len(old) + Len(new)) /\ ~(i \in 1..Len(old))
        BY <3>3, <3>4, <3>5
      <4>2. i - Len(old) \in DOMAIN new /\ dishes'[i] = new[i - Len(old)]
        BY <3>3, <3>4, <3>5, <4>1
      <4> QED
        BY <3>3, <4>2
    <3>8. Len(dishes') >= Len(dishes)
      BY <3>3, <3>4, <3>5
    <3>9. \A i : Picks(i)' = Picks(i)
      BY <3>6, <3>7, <3>8, SamePicks
    <3>10. generations' = generations /\ locker' = locker /\ tablet' = tablet
      BY <2>15 DEF ApplyMenu
    <3> QED
      BY <3>9, <3>10, NothingSpent
  <2>16. ASSUME RollBack PROVE CapsInv'
    <3>1. /\ dishes' = dishes /\ generations' = generations
          /\ locker' = locker /\ tablet' = tablet
      BY <2>16 DEF RollBack
    <3> QED
      BY <2>1, <3>1, NothingSpent
  <2>17. ASSUME UNCHANGED menuVars PROVE CapsInv'
    <3>1. /\ dishes' = dishes /\ generations' = generations
          /\ locker' = locker /\ tablet' = tablet
      BY <2>17 DEF menuVars
    <3> QED
      BY <2>1, <3>1, NothingSpent
  <2> QED
    BY <2>3, <2>4, <2>5, <2>6, <2>7, <2>8, <2>9, <2>10, <2>11, <2>13, <2>14, <2>15,
       <2>16, <2>17 DEF MenuNext
<1>3. CapsInv => CapsHold
  BY DEF CapsInv
<1> QED
  BY <1>1, <1>2, <1>3, MenuTypes, PTL DEF MenuSpec

-----------------------------------------------------------------------------
(* The import.  An identifier names at most one row, and while an import   *)
(* runs no row gets or loses one, so that what it matches by key is still  *)
(* what the file means when it writes.                                     *)
UniqueIds ==
  \A i, j \in DOMAIN dishes : dishes[i].ext = dishes[j].ext /\ dishes[i].ext # "none" => i = j

SeenIds ==
  import # Closed =>
    /\ Sane(import.file)
    /\ Len(import.seen) <= Len(dishes)
    /\ \A i \in DOMAIN dishes :
         dishes[i].ext = IF i <= Len(import.seen) THEN import.seen[i].ext ELSE "none"

ImportInv == TypeOK /\ UniqueIds /\ SeenIds

(* Two keys agree on the identifier, or neither has one and they agree on  *)
(* the name.                                                               *)
LEMMA SameKey ==
  ASSUME NEW d, NEW e
  PROVE  KeyOf(d) = KeyOf(e) <=>
           \/ d.ext = "none" /\ e.ext = "none" /\ d.name = e.name
           \/ d.ext # "none" /\ d.ext = e.ext
  BY DEF KeyOf

(* SetToSeq lists every element once.                                      *)
LEMMA ListsEachOnce ==
  ASSUME NEW S, IsFiniteSet(S)
  PROVE  /\ \A j, k \in 1..Cardinality(S) : SetToSeq(S)[j] = SetToSeq(S)[k] => j = k
         /\ \A x \in S : \E k \in 1..Cardinality(S) : SetToSeq(S)[k] = x
<1> DEFINE n == Cardinality(S)
           f == SetToSeq(S)
<1>1. n \in Nat /\ ExistsBijection(1..n, S)
  BY FS_CardinalityType
<1>2. PICK g \in Bijection(1..n, S) : TRUE
  BY <1>1 DEF ExistsBijection
<1>3. \E h \in [1..n -> S] : IsInjective(h)
  BY <1>2 DEF Bijection, Injection
<1>4. f \in [1..n -> S] /\ IsInjective(f)
  BY <1>3 DEF SetToSeq
<1>5. Cardinality(1..n) = n /\ IsFiniteSet(1..n)
  BY <1>1, FS_Interval
<1> HIDE DEF f, n
<1>6. f \in Injection(1..n, S)
  BY <1>4 DEF Injection
<1>7. f \in Surjection(1..n, S)
  BY <1>5, <1>6, FS_Injection DEF n
<1>8. \A x \in S : \E k \in 1..n : f[k] = x
  BY <1>7 DEF Surjection
<1>9. \A j, k \in 1..n : f[j] = f[k] => j = k
  BY <1>4 DEF IsInjective
<1> QED
  BY <1>8, <1>9 DEF f, n

(* Two entries of a file with one key are one entry.                       *)
LEMMA OneEntry ==
  ASSUME ImportInv, import # Closed, NEW d \in import.file, NEW e \in import.file,
         KeyOf(d) = KeyOf(e)
  PROVE  d = e
<1>1. import.file \in SUBSET Entries
  BY DEF ImportInv, TypeOK, Imports
<1>2. d \in Entries /\ e \in Entries
  BY <1>1
<1>3. CASE d.ext # "none"
  BY <1>3, SameKey DEF ImportInv, SeenIds, Sane
<1>4. CASE d.ext = "none"
  <2>1. d.ext = e.ext /\ d.name = e.name
    BY <1>4, SameKey
  <2> QED
    BY <1>2, <2>1 DEF Entries
<1> QED
  BY <1>3, <1>4

(* What an assignment says.                                                *)
LEMMA Assigned ==
  ASSUME ImportInv, import # Closed, NEW found \in Assignments, NEW e \in import.file
  PROVE  /\ found[e] \in 0..Len(import.seen)
         /\ found[e] = 0 => \A i \in 1..Len(import.seen) : KeyOf(import.seen[i]) # KeyOf(e)
         /\ found[e] # 0 =>
              /\ found[e] \in 1..Len(import.seen)
              /\ KeyOf(import.seen[found[e]]) = KeyOf(e)
<1>1. import.seen \in Seq([name : Names, ext : Ids \cup {"none"}, status : {"ACTIVE", "INACTIVE"}])
  BY DEF ImportInv, TypeOK, Imports
<1>2. DOMAIN import.seen = 1..Len(import.seen) /\ Len(import.seen) \in Nat
  BY <1>1
<1>3. /\ found[e] \in 0..Len(import.seen)
      /\ IF Matches(e) = {} THEN found[e] = 0 ELSE found[e] \in Matches(e)
  BY DEF Assignments
<1>4. Matches(e) = {i \in 1..Len(import.seen) : KeyOf(import.seen[i]) = KeyOf(e)}
  BY <1>2 DEF Matches
<1> QED
  BY <1>2, <1>3, <1>4

(* What becomes of a row that was there.                                   *)
LEMMA RewrittenRow ==
  ASSUME ImportInv, import # Closed, NEW found \in Assignments, NEW i \in DOMAIN dishes
  PROVE  /\ Rewritten(found)[i].ext = dishes[i].ext
         /\ \A e \in import.file : found[e] = i =>
              /\ Rewritten(found)[i].name = e.name /\ Rewritten(found)[i].ext = e.ext
              /\ Rewritten(found)[i].status = "ACTIVE"
         /\ Rewritten(found)[i].status = "ACTIVE" =>
              \/ \E e \in import.file : found[e] = i
              \/ ~Gone(i) /\ Rewritten(found)[i] = dishes[i]
         /\ Rewritten(found)[i].status = "ACTIVE" =>
              /\ Rewritten(found)[i].availability = dishes[i].availability
              /\ Rewritten(found)[i].must_try = dishes[i].must_try
<1> DEFINE r == Rewritten(found)[i]
<1>0. dishes[i] \in DishRows
  BY DEF ImportInv, TypeOK
<1>1. CASE \E e \in import.file : found[e] = i
  <2> DEFINE d == CHOOSE e \in import.file : found[e] = i
  <2>1. d \in import.file /\ found[d] = i
    BY <1>1
  <2>2. r = Updated(dishes[i], d)
    BY <1>1 DEF Rewritten
  <2> HIDE DEF d, r
  <2>3. /\ r.name = d.name /\ r.ext = d.ext /\ r.status = "ACTIVE"
        /\ r.availability = dishes[i].availability /\ r.must_try = dishes[i].must_try
    BY <1>0, <2>2 DEF Updated, DishRows
  <2>4. i \in Nat \ {0}
    BY DEF ImportInv, TypeOK
  <2>5. i <= Len(import.seen) /\ KeyOf(import.seen[i]) = KeyOf(d) /\ i \in 1..Len(import.seen)
    BY <2>1, <2>4, Assigned
  <2>6. import.seen[i].ext = dishes[i].ext
    BY <2>5 DEF ImportInv, SeenIds
  <2>7. r.ext = dishes[i].ext
    BY <2>3, <2>5, <2>6, SameKey
  <2>8. \A e \in import.file : found[e] = i => e = d
    BY <2>1, <2>4, <2>5, Assigned, OneEntry
  <2> QED
    BY <1>1, <2>3, <2>7, <2>8 DEF r
<1>2. CASE ~(\E e \in import.file : found[e] = i) /\ Gone(i)
  <2>1. r = Removed(dishes[i])
    BY <1>2 DEF Rewritten
  <2> HIDE DEF r
  <2>2. r.ext = dishes[i].ext /\ r.status = "INACTIVE"
    BY <1>0, <2>1 DEF Removed, DishRows
  <2> QED
    BY <1>2, <2>2 DEF r
<1>3. CASE ~(\E e \in import.file : found[e] = i) /\ ~Gone(i)
  <2>1. r = dishes[i]
    BY <1>3 DEF Rewritten
  <2> QED
    BY <1>3, <2>1
<1> QED
  BY <1>1, <1>2, <1>3

(* Rows for every entry that matched nothing, once, on sale.               *)
NewRows(found, more, n, new) ==
  /\ n \in Nat /\ new \in [1..n -> {e \in import.file : found[e] = 0}]
  /\ more \in [1..n -> DishRows]
  /\ \A k \in 1..n :
       more[k].name = new[k].name /\ more[k].ext = new[k].ext /\ more[k].status = "ACTIVE"
  /\ \A j, k \in 1..n : new[j] = new[k] => j = k
  /\ \A e \in import.file : found[e] = 0 => \E k \in 1..n : new[k] = e

LEMMA InsertedRow ==
  ASSUME ImportInv, import # Closed, NEW found, NEW available
  PROVE  \E n, new : NewRows(found, Added(found, available), n, new)
<1> DEFINE S == {e \in import.file : found[e] = 0}
           new == SetToSeq(S)
           n == Cardinality(S)
           Served(k) == IF new[k] \in available THEN "AVAILABLE" ELSE "TEMPORARILY_UNAVAILABLE"
<1>1. import.file \in SUBSET Entries /\ IsFiniteSet(import.file)
  BY DEF ImportInv, TypeOK, Imports
<1>2. S \in SUBSET Entries /\ IsFiniteSet(S)
  <2>1. S \subseteq import.file
    OBVIOUS
  <2> QED
    BY <1>1, <2>1, FS_Subset
<1>3. new \in [1..n -> S] /\ n \in Nat
  BY <1>2, ListsASet
<1>4. /\ \A j, k \in 1..n : new[j] = new[k] => j = k
      /\ \A x \in S : \E k \in 1..n : new[k] = x
  BY <1>2, ListsEachOnce
<1>5. Added(found, available) = [k \in 1..n |-> Dish(new[k], Served(k))]
  BY <1>3 DEF Added
<1> HIDE DEF new, n
<1>6. \A e \in Entries, a \in Availability :
        /\ Dish(e, a) \in DishRows /\ Dish(e, a).name = e.name /\ Dish(e, a).ext = e.ext
        /\ Dish(e, a).status = "ACTIVE"
  BY DEF Dish, Entries, DishRows
<1>7. \A k \in 1..n : new[k] \in Entries /\ Served(k) \in Availability
  BY <1>2, <1>3 DEF Availability
<1> HIDE DEF Served
<1>8. /\ Added(found, available) \in [1..n -> DishRows]
      /\ \A k \in 1..n :
           /\ Added(found, available)[k].name = new[k].name
           /\ Added(found, available)[k].ext = new[k].ext
           /\ Added(found, available)[k].status = "ACTIVE"
  BY <1>5, <1>6, <1>7
<1>9. \A e \in import.file : found[e] = 0 => \E k \in 1..n : new[k] = e
  BY <1>4
<1>10. NewRows(found, Added(found, available), n, new)
  BY <1>3, <1>4, <1>8, <1>9 DEF NewRows
<1> QED
  BY <1>10

(* The rows after an import: those that were there and those it inserted.  *)
LEMMA ImportedRows ==
  ASSUME ImportInv, ApplyMenu
  PROVE  \E found, more, n, new :
           /\ found \in Assignments
           /\ NewRows(found, more, n, new)
           /\ DOMAIN dishes = 1..Len(dishes) /\ Len(dishes) \in Nat
           /\ DOMAIN dishes' = 1..(Len(dishes) + n)
           /\ \A i \in 1..Len(dishes) : dishes'[i] = Rewritten(found)[i]
           /\ \A k \in 1..n : dishes'[Len(dishes) + k] = more[k]
<1>1. import # Closed
  BY DEF ApplyMenu
<1>2. PICK found \in Assignments, available \in SUBSET import.file :
        dishes' = Rewritten(found) \o Added(found, available)
  BY DEF ApplyMenu
<1>3. PICK n, new : NewRows(found, Added(found, available), n, new)
  BY <1>1, InsertedRow
<1>4. PICK more : more = Added(found, available)
  OBVIOUS
<1>5. PICK old : old = Rewritten(found)
  OBVIOUS
<1>6. dishes \in Seq(DishRows) /\ DOMAIN dishes = 1..Len(dishes) /\ Len(dishes) \in Nat
  BY DEF ImportInv, TypeOK
<1>7. old \in [1..Len(dishes) -> DishRows]
  BY <1>1, <1>5, <1>6, RewrittenRows DEF ImportInv
<1>8. n \in Nat /\ more \in [1..n -> DishRows]
  BY <1>3, <1>4 DEF NewRows
<1>9. old \in Seq(DishRows) /\ Len(old) = Len(dishes)
  BY <1>6, <1>7
<1>10. more \in Seq(DishRows) /\ Len(more) = n
  BY <1>8
<1>11. dishes' = old \o more
  BY <1>2, <1>4, <1>5
<1>12. DOMAIN dishes' = 1..(Len(dishes) + n)
  BY <1>9, <1>10, <1>11
<1>13. \A i \in 1..Len(dishes) : dishes'[i] = old[i]
  BY <1>6, <1>9, <1>10, <1>11
<1>14. \A k \in 1..n : dishes'[Len(dishes) + k] = more[k]
  BY <1>6, <1>8, <1>9, <1>10, <1>11
<1>15. NewRows(found, more, n, new)
  BY <1>3, <1>4
<1> QED
  BY <1>5, <1>6, <1>12, <1>13, <1>14, <1>15

(* A step that gives and takes no identifier.                              *)
LEMMA IdsStay ==
  ASSUME ImportInv, TypeOK', DOMAIN dishes' = DOMAIN dishes, Len(dishes') = Len(dishes),
         \A i \in DOMAIN dishes : dishes'[i].ext = dishes[i].ext,
         import' \in {import, Closed}
  PROVE  ImportInv'
  BY DEF ImportInv, UniqueIds, SeenIds, Sane

LEMMA ImportKeeps ==
  ASSUME ImportInv, ApplyMenu, TypeOK'
  PROVE  ImportInv'
<1>1. import # Closed /\ import' = Closed
  BY DEF ApplyMenu
<1>2. PICK found, more, n, new :
        /\ found \in Assignments
        /\ NewRows(found, more, n, new)
        /\ DOMAIN dishes = 1..Len(dishes) /\ Len(dishes) \in Nat
        /\ DOMAIN dishes' = 1..(Len(dishes) + n)
        /\ \A i \in 1..Len(dishes) : dishes'[i] = Rewritten(found)[i]
        /\ \A k \in 1..n : dishes'[Len(dishes) + k] = more[k]
  BY ImportedRows
<1>0. found \in Assignments
  BY <1>2
<1>3. \A i \in 1..Len(dishes) : dishes'[i].ext = dishes[i].ext
  BY <1>1, <1>2, RewrittenRow
<1>4. n \in Nat /\ \A k \in 1..n :
        /\ new[k] \in import.file /\ found[new[k]] = 0
        /\ dishes'[Len(dishes) + k].ext = new[k].ext
  BY <1>2 DEF NewRows
<1>5. ASSUME NEW i \in 1..Len(dishes), NEW k \in 1..n, dishes[i].ext = new[k].ext
      PROVE  dishes[i].ext = "none"
  <2> SUFFICES ASSUME dishes[i].ext # "none" PROVE FALSE
    OBVIOUS
  <2>1. i <= Len(import.seen) /\ import.seen[i].ext = dishes[i].ext
    BY <1>1, <1>2 DEF ImportInv, SeenIds
  <2>2. Len(import.seen) \in Nat
    BY <1>1 DEF ImportInv, TypeOK, Imports
  <2>3. i \in 1..Len(import.seen)
    BY <1>2, <2>1, <2>2
  <2>4. KeyOf(import.seen[i]) = KeyOf(new[k])
    BY <1>5, <2>1, SameKey
  <2> QED
    BY <1>1, <1>0, <1>4, <2>3, <2>4, Assigned
<1>6. ASSUME NEW j \in 1..n, NEW k \in 1..n, new[j].ext = new[k].ext, new[j].ext # "none"
      PROVE  j = k
  <2>1. new[j] = new[k]
    BY <1>1, <1>4, <1>6 DEF ImportInv, SeenIds, Sane
  <2> QED
    BY <1>2, <2>1 DEF NewRows
<1>7. ASSUME NEW i \in DOMAIN dishes' PROVE i \in 1..Len(dishes) \/ i - Len(dishes) \in 1..n
  BY <1>2, <1>4
<1>8. UniqueIds'
  <2> SUFFICES ASSUME NEW i \in DOMAIN dishes', NEW j \in DOMAIN dishes',
                      dishes'[i].ext = dishes'[j].ext, dishes'[i].ext # "none"
      PROVE  i = j
    BY DEF UniqueIds
  <2>1. CASE i \in 1..Len(dishes) /\ j \in 1..Len(dishes)
    BY <1>2, <1>3, <2>1 DEF ImportInv, UniqueIds
  <2>2. CASE i \in 1..Len(dishes) /\ j - Len(dishes) \in 1..n
    <3>1. dishes'[j].ext = new[j - Len(dishes)].ext
      <4>1. j = Len(dishes) + (j - Len(dishes))
        BY <1>2, <1>4
      <4> QED
        BY <1>4, <2>2, <4>1
    <3> QED
      BY <1>3, <1>5, <2>2, <3>1
  <2>3. CASE i - Len(dishes) \in 1..n /\ j \in 1..Len(dishes)
    <3>1. dishes'[i].ext = new[i - Len(dishes)].ext
      <4>1. i = Len(dishes) + (i - Len(dishes))
        BY <1>2, <1>4
      <4> QED
        BY <1>4, <2>3, <4>1
    <3> QED
      BY <1>3, <1>5, <2>3, <3>1
  <2>4. CASE i - Len(dishes) \in 1..n /\ j - Len(dishes) \in 1..n
    <3>1. i = Len(dishes) + (i - Len(dishes)) /\ j = Len(dishes) + (j - Len(dishes))
      BY <1>2, <1>4
    <3>2. dishes'[i].ext = new[i - Len(dishes)].ext /\ dishes'[j].ext = new[j - Len(dishes)].ext
      BY <1>4, <2>4, <3>1
    <3>3. i - Len(dishes) = j - Len(dishes)
      BY <1>6, <2>4, <3>2
    <3> QED
      BY <3>1, <3>3
  <2> QED
    BY <1>7, <2>1, <2>2, <2>3, <2>4
<1>9. SeenIds'
  BY <1>1 DEF SeenIds
<1> QED
  BY <1>8, <1>9 DEF ImportInv

LEMMA ImportSteps == ImportInv /\ [MenuNext]_menuVars /\ TypeOK' => ImportInv'
<1> SUFFICES ASSUME ImportInv, [MenuNext]_menuVars, TypeOK' PROVE ImportInv'
  OBVIOUS
<1>0. /\ dishes \in Seq(DishRows) /\ DOMAIN dishes = 1..Len(dishes) /\ Len(dishes) \in Nat
      /\ \A i \in DOMAIN dishes : dishes[i] \in DishRows
  BY DEF ImportInv, TypeOK
<1>1. ASSUME UNCHANGED dishes, import' \in {import, Closed} PROVE ImportInv'
  BY <1>1, IdsStay
<1>2. ASSUME NEW t \in Tablets, Mark(t) PROVE ImportInv'
  <2>1. \A i \in DOMAIN dishes :
          \A m : [dishes[i] EXCEPT !.must_try = m].ext = dishes[i].ext
    BY <1>0 DEF DishRows
  <2>2. /\ DOMAIN dishes' = DOMAIN dishes /\ Len(dishes') = Len(dishes)
        /\ \A i \in DOMAIN dishes : dishes'[i].ext = dishes[i].ext
    <3>1. PICK i, m : dishes' = dishes \/ dishes' = [dishes EXCEPT ![i].must_try = m]
      BY <1>2 DEF Mark
    <3> DEFINE marked == [dishes[i] EXCEPT !.must_try = m]
    <3>2. dishes' = dishes \/ dishes' = [dishes EXCEPT ![i] = marked]
      BY <3>1
    <3>3. i \in DOMAIN dishes => marked.ext = dishes[i].ext
      BY <2>1
    <3> HIDE DEF marked
    <3>4. DOMAIN dishes' = DOMAIN dishes /\ Len(dishes') = Len(dishes)
      BY <1>0, <3>2
    <3> QED
      BY <1>0, <3>2, <3>3, <3>4
  <2> QED
    BY <1>2, <2>2, IdsStay DEF Mark
<1>3. ASSUME NEW i \in DOMAIN dishes, NEW d, d.ext = dishes[i].ext, Edit(i, d) PROVE ImportInv'
  <2>1. /\ DOMAIN dishes' = DOMAIN dishes /\ Len(dishes') = Len(dishes)
        /\ \A j \in DOMAIN dishes : dishes'[j].ext = dishes[j].ext
    BY <1>0, <1>3 DEF Edit
  <2> QED
    BY <1>3, <2>1, IdsStay DEF Edit
<1>4. ASSUME NEW i \in DOMAIN dishes,
             \/ \E to \in Availability : SetAvailability(i, to)
             \/ \E n \in Names : Rename(i, n)
             \/ Discontinue(i)
      PROVE  ImportInv'
  <2>1. \A x : /\ [dishes[i] EXCEPT !.availability = x].ext = dishes[i].ext
               /\ [dishes[i] EXCEPT !.name = x].ext = dishes[i].ext
               /\ [dishes[i] EXCEPT !.status = x].ext = dishes[i].ext
    BY <1>0 DEF DishRows
  <2> QED
    BY <1>3, <1>4, <2>1 DEF SetAvailability, Rename, Discontinue
<1>5. ASSUME NEW t \in Tablets, Insert(t) PROVE ImportInv'
  <2> DEFINE d == Dish(ByName(tablet[t].name), "AVAILABLE")
  <2>1. d.ext = "none"
    BY DEF Dish, ByName
  <2>2. dishes' = Append(dishes, d) /\ import' = import
    BY <1>5 DEF Insert
  <2> HIDE DEF d
  <2>3. /\ Len(dishes') = Len(dishes) + 1 /\ DOMAIN dishes' = 1..(Len(dishes) + 1)
        /\ \A i \in DOMAIN dishes : dishes'[i] = dishes[i]
        /\ dishes'[Len(dishes) + 1] = d
    BY <1>0, <2>2
  <2>4. UniqueIds'
    BY <1>0, <2>1, <2>3 DEF ImportInv, UniqueIds
  <2>5. SeenIds'
    <3> SUFFICES ASSUME import # Closed
        PROVE  /\ Sane(import.file) /\ Len(import.seen) <= Len(dishes')
               /\ \A i \in DOMAIN dishes' :
                    dishes'[i].ext = IF i <= Len(import.seen) THEN import.seen[i].ext ELSE "none"
      BY <2>2 DEF SeenIds, Sane
    <3>1. /\ Sane(import.file) /\ Len(import.seen) <= Len(dishes)
          /\ \A i \in DOMAIN dishes :
               dishes[i].ext = IF i <= Len(import.seen) THEN import.seen[i].ext ELSE "none"
      BY DEF ImportInv, SeenIds
    <3>2. Len(import.seen) \in Nat
      BY DEF ImportInv, TypeOK, Imports
    <3> QED
      BY <1>0, <2>1, <2>3, <3>1, <3>2
  <2> QED
    BY <2>4, <2>5 DEF ImportInv
<1>6. ASSUME NEW file \in SUBSET Entries, ReadMenu(file) PROVE ImportInv'
  <2>1. /\ import' = [doing |-> "import", file |-> file, seen |-> Catalogue(dishes)]
        /\ Sane(file) /\ UNCHANGED dishes
    BY <1>6 DEF ReadMenu
  <2>2. import'.file = file /\ import'.seen = Catalogue(dishes)
    BY <2>1
  <2>3. /\ Len(Catalogue(dishes)) = Len(dishes)
        /\ \A i \in DOMAIN dishes : Catalogue(dishes)[i].ext = dishes[i].ext
    BY <1>0 DEF Catalogue
  <2>4. SeenIds'
    BY <1>0, <2>1, <2>2, <2>3 DEF SeenIds, Sane
  <2>5. UniqueIds'
    BY <2>1 DEF ImportInv, UniqueIds
  <2> QED
    BY <2>4, <2>5 DEF ImportInv
<1>7. CASE ApplyMenu
  BY <1>7, ImportKeeps
<1>8. CASE UNCHANGED menuVars
  BY <1>1, <1>8 DEF menuVars
<1> QED
  BY <1>1, <1>2, <1>4, <1>5, <1>6, <1>7, <1>8
  DEF MenuNext, AskStar, AskWords, LookForClash, LockAndCount, Reserve, Settle, Die, RollBack

(* What an import that nothing overtook leaves on sale.                    *)
LEMMA LeavesTheFile ==
  ASSUME ImportInv, ApplyMenu, import.seen = Catalogue(dishes)
  PROVE  /\ {[name |-> dishes'[i].name, ext |-> dishes'[i].ext] :
               i \in {i \in DOMAIN dishes' : dishes'[i].status = "ACTIVE"}} = import.file
         /\ \A i \in DOMAIN dishes :
              dishes[i].status = "ACTIVE" /\ dishes'[i].status = "ACTIVE" =>
                /\ dishes'[i].availability = dishes[i].availability
                /\ dishes'[i].must_try = dishes[i].must_try
<1>1. /\ import # Closed
      /\ \A e \in import.file : e = [name |-> e.name, ext |-> e.ext]
  <2>1. import # Closed
    BY DEF ApplyMenu
  <2>2. import.file \in SUBSET Entries
    BY <2>1 DEF ImportInv, TypeOK, Imports
  <2> QED
    BY <2>1, <2>2 DEF Entries
<1>2. PICK found, more, n, new :
        /\ found \in Assignments
        /\ NewRows(found, more, n, new)
        /\ DOMAIN dishes = 1..Len(dishes) /\ Len(dishes) \in Nat
        /\ DOMAIN dishes' = 1..(Len(dishes) + n)
        /\ \A i \in 1..Len(dishes) : dishes'[i] = Rewritten(found)[i]
        /\ \A k \in 1..n : dishes'[Len(dishes) + k] = more[k]
  BY ImportedRows
<1>9. NewRows(found, more, n, new)
  BY <1>2
<1>10. \A k \in 1..n : dishes'[Len(dishes) + k] = more[k]
  BY <1>2
<1>3. /\ n \in Nat
      /\ \A k \in 1..n :
           /\ new[k] \in import.file
           /\ dishes'[Len(dishes) + k].name = new[k].name
           /\ dishes'[Len(dishes) + k].ext = new[k].ext
           /\ dishes'[Len(dishes) + k].status = "ACTIVE"
      /\ \A e \in import.file : found[e] = 0 => \E k \in 1..n : new[k] = e
  <2>1. /\ n \in Nat
        /\ new \in [1..n -> {e \in import.file : found[e] = 0}]
        /\ \A k \in 1..n :
             more[k].name = new[k].name /\ more[k].ext = new[k].ext /\ more[k].status = "ACTIVE"
        /\ \A e \in import.file : found[e] = 0 => \E k \in 1..n : new[k] = e
    BY <1>9 DEF NewRows
  <2>2. \A k \in 1..n : new[k] \in import.file
    BY <2>1
  <2>3. ASSUME NEW k \in 1..n
        PROVE  /\ dishes'[Len(dishes) + k].name = new[k].name
               /\ dishes'[Len(dishes) + k].ext = new[k].ext
               /\ dishes'[Len(dishes) + k].status = "ACTIVE"
    <3>1. dishes'[Len(dishes) + k] = more[k]
      BY <1>10
    <3> QED
      BY <2>1, <3>1
  <2> QED
    BY <2>1, <2>2, <2>3
<1>4. /\ Len(import.seen) = Len(dishes) /\ DOMAIN import.seen = 1..Len(dishes)
      /\ \A i \in 1..Len(dishes) :
           /\ import.seen[i].name = dishes[i].name /\ import.seen[i].ext = dishes[i].ext
           /\ import.seen[i].status = dishes[i].status
  BY <1>2 DEF Catalogue
<1>5. ASSUME NEW i \in DOMAIN dishes', dishes'[i].status = "ACTIVE"
      PROVE  [name |-> dishes'[i].name, ext |-> dishes'[i].ext] \in import.file
  <2>1. CASE i \in 1..Len(dishes)
    <3>1. \/ \E e \in import.file : found[e] = i
          \/ ~Gone(i) /\ dishes'[i] = dishes[i]
      BY <1>1, <1>2, <1>5, <2>1, RewrittenRow
    <3>2. CASE \E e \in import.file : found[e] = i
      <4>1. PICK e \in import.file : found[e] = i
        BY <3>2
      <4>2. dishes'[i].name = e.name /\ dishes'[i].ext = e.ext
        BY <1>1, <1>2, <2>1, <4>1, RewrittenRow
      <4> QED
        BY <1>1, <4>2
    <3>3. CASE ~Gone(i) /\ dishes'[i] = dishes[i] /\ ~\E e \in import.file : found[e] = i
      <4>1. PICK e \in import.file : KeyOf(e) = KeyOf(import.seen[i])
        BY <1>4, <1>5, <2>1, <3>3 DEF Gone
      <4>2. found[e] \in 1..Len(dishes) /\ KeyOf(import.seen[found[e]]) = KeyOf(e)
        BY <1>1, <1>2, <1>4, <2>1, <4>1, Assigned
      <4>3. dishes[i].ext = "none"
        <5> SUFFICES ASSUME dishes[i].ext # "none" PROVE FALSE
          OBVIOUS
        <5>1. dishes[i].ext = dishes[found[e]].ext
          BY <1>4, <2>1, <4>1, <4>2, SameKey
        <5>2. found[e] = i
          BY <1>2, <2>1, <4>2, <5>1 DEF ImportInv, UniqueIds
        <5> QED
          BY <3>3, <5>2
      <4>4. e.name = dishes[i].name /\ e.ext = dishes[i].ext
        BY <1>4, <2>1, <4>1, <4>3, SameKey
      <4> QED
        BY <1>1, <3>3, <4>4
    <3> QED
      BY <3>1, <3>2, <3>3
  <2>2. CASE i \notin 1..Len(dishes)
    <3>1. i - Len(dishes) \in 1..n /\ i = Len(dishes) + (i - Len(dishes))
      BY <1>2, <1>3, <2>2
    <3>2. /\ dishes'[i].name = new[i - Len(dishes)].name
          /\ dishes'[i].ext = new[i - Len(dishes)].ext
          /\ new[i - Len(dishes)] \in import.file
      BY <1>3, <3>1
    <3> QED
      BY <1>1, <3>2
  <2> QED
    BY <2>1, <2>2
<1>6. ASSUME NEW e \in import.file
      PROVE  \E i \in DOMAIN dishes' :
               /\ dishes'[i].status = "ACTIVE"
               /\ e = [name |-> dishes'[i].name, ext |-> dishes'[i].ext]
  <2>1. CASE found[e] = 0
    <3>1. PICK k \in 1..n : new[k] = e
      BY <1>3, <2>1
    <3>2. Len(dishes) + k \in DOMAIN dishes'
      BY <1>2, <1>3
    <3> QED
      BY <1>1, <1>3, <3>1, <3>2
  <2>2. CASE found[e] # 0
    <3>1. found[e] \in 1..Len(dishes)
      BY <1>1, <1>2, <1>4, <2>2, Assigned
    <3>2. /\ dishes'[found[e]].name = e.name /\ dishes'[found[e]].ext = e.ext
          /\ dishes'[found[e]].status = "ACTIVE"
      BY <1>1, <1>2, <3>1, RewrittenRow
    <3>3. found[e] \in DOMAIN dishes'
      BY <1>2, <1>3, <3>1
    <3> QED
      BY <1>1, <3>2, <3>3
  <2> QED
    BY <2>1, <2>2
<1>7. \A i \in DOMAIN dishes :
        dishes'[i].status = "ACTIVE" =>
          /\ dishes'[i].availability = dishes[i].availability
          /\ dishes'[i].must_try = dishes[i].must_try
  BY <1>1, <1>2, RewrittenRow
<1> QED
  BY <1>5, <1>6, <1>7

LEMMA ImportIsSafe == MenuSpec => []ImportInv
<1>1. MenuInit /\ TypeOK => ImportInv
  <2> SUFFICES ASSUME MenuInit, TypeOK PROVE UniqueIds /\ SeenIds
    BY DEF ImportInv
  <2>1. DOMAIN dishes = {1}
    BY DEF MenuInit
  <2> QED
    BY <2>1 DEF MenuInit, UniqueIds, SeenIds
<1>2. ImportInv /\ [MenuNext]_menuVars /\ TypeOK' => ImportInv'
  BY ImportSteps
<1> QED
  BY <1>1, <1>2, MenuTypes, PTL DEF MenuSpec

(* An import that no edit of the catalogue overtook leaves on sale what    *)
(* its file lists, and what is still on sale as the kitchen left it, for   *)
(* any menu, file and choice among rows of one name (catalog/menu-ingest). *)
THEOREM LeavesWhatTheFileLists == MenuSpec => ImportIsTheFile
<1>1. ImportInv /\ [MenuNext]_menuVars =>
        [ApplyMenu /\ import.seen = Catalogue(dishes) =>
           /\ {[name |-> dishes'[i].name, ext |-> dishes'[i].ext] :
                 i \in {i \in DOMAIN dishes' : dishes'[i].status = "ACTIVE"}} = import.file
           /\ \A i \in DOMAIN dishes :
                dishes[i].status = "ACTIVE" /\ dishes'[i].status = "ACTIVE" =>
                  /\ dishes'[i].availability = dishes[i].availability
                  /\ dishes'[i].must_try = dishes[i].must_try]_menuVars
  BY LeavesTheFile
<1> QED
  BY <1>1, ImportIsSafe, PTL DEF MenuSpec, ImportIsTheFile

(* The stall as a whole does to its menu what the menu's own               *)
(* specification allows, so that the theorems above hold of it.            *)
THEOREM StallKeepsItsMenu == Spec => MenuSpec
<1>1. Init => MenuInit
  BY DEF Init
<1>2. [Next]_vars => [MenuNext]_menuVars
  BY DEF Next, AtTheTill, AtTheTablet, AtTheDoor, vars, menuVars
<1> QED
  BY <1>1, <1>2, PTL DEF Spec, MenuSpec

-----------------------------------------------------------------------------
(* The till.                                                               *)

TillStatuses == {"CREATED", "PENDING", "CAPTURED", "FAILED", "EXPIRED"}
TillRows == [status : TillStatuses, payment_ref : {"none", "rrn"}]

CounterTypeOK ==
  /\ order \in {"PAYMENT_PENDING", "PAYMENT_CONFIRMED", "PAYMENT_FAILED", "PAYMENT_EXPIRED",
                "REFUND_PENDING", "REFUNDED"}
  /\ rows \in Seq(TillRows) /\ Len(rows) \in Refs
  /\ machine \in [Refs -> {"idle", "running", "approved", "mispriced", "declined",
                           "cancelled", "reversed"}]
  /\ till \in [Tills -> [pc : {"idle", "charge", "wait", "apply"}, ref : Refs,
                         outcome : {"none", "APPROVED", "DECLINED", "CANCELLED", "UNKNOWN"},
                         wary : BOOLEAN]]
  /\ poll \in {[ref |-> 0, status |-> "none"]}
              \cup [ref : Refs, status : {"CAPTURED", "FAILED", "PENDING"}]
  /\ asked \in BOOLEAN
  /\ debits \in Nat /\ presses \in Nat

(* What the lookups and the settling of rows return.                       *)
LEMMA Verdicts ==
  ASSUME NEW r
  PROVE  Verdict(r) \in {"APPROVED", "DECLINED", "CANCELLED", "UNKNOWN"}
  BY DEF Verdict

LEMMA RowVerdicts ==
  ASSUME NEW i
  PROVE  /\ VerdictOfRow(i) \in {"APPROVED", "DECLINED", "CANCELLED", "UNKNOWN"}
         /\ VerdictOfRow(i) = "DECLINED" => machine[i] = "declined"
  BY DEF Verdict, VerdictOfRow

LEMMA SettledRows ==
  ASSUME CounterTypeOK, NEW st \in TillStatuses, NEW ref \in {"none", "rrn"}
  PROVE  /\ Settled(st, ref) \in Seq(TillRows)
         /\ Len(Settled(st, ref)) = Len(rows)
         /\ \A i \in DOMAIN rows :
              \/ Settled(st, ref)[i].status = st
              \/ Settled(st, ref)[i] = rows[i]
<1>1. /\ rows \in Seq(TillRows) /\ Len(rows) \in Nat /\ DOMAIN rows = 1..Len(rows)
      /\ \A i \in 1..Len(rows) : rows[i] \in TillRows
  BY DEF CounterTypeOK
<1> DEFINE New(i) ==
      IF rows[i].status \in {"CREATED", "PENDING", "AUTHORIZED"}
      THEN [status |-> st, payment_ref |-> IF ref = "none" THEN rows[i].payment_ref ELSE ref]
      ELSE rows[i]
<1>2. \A i \in 1..Len(rows) :
        New(i) \in TillRows /\ (New(i).status = st \/ New(i) = rows[i])
  BY <1>1 DEF TillRows
<1>3. Settled(st, ref) = [i \in 1..Len(rows) |-> New(i)]
  BY <1>1 DEF Settled
<1> HIDE DEF New
<1>4. Settled(st, ref) \in [1..Len(rows) -> TillRows]
  BY <1>2, <1>3
<1> QED
  BY <1>1, <1>2, <1>3, <1>4

(* What a capture and a decline do, whatever the rows are.                 *)
LEMMA CapturedRows ==
  ASSUME CounterTypeOK, NEW ref \in {"none", "rrn"}, Captured(ref)
  PROVE  /\ rows' \in Seq(TillRows) /\ Len(rows') = Len(rows)
         /\ order' = "PAYMENT_CONFIRMED" \/ UNCHANGED order
         /\ order' \in AwaitingPayment => UNCHANGED rows
<1>1. "CAPTURED" \in TillStatuses
  BY DEF TillStatuses
<1>2. /\ Settled("CAPTURED", ref) \in Seq(TillRows)
      /\ Len(Settled("CAPTURED", ref)) = Len(rows)
  BY <1>1, SettledRows
<1>3. rows \in Seq(TillRows)
  BY DEF CounterTypeOK
<1>4. rows' = Settled("CAPTURED", ref) \/ rows' = rows
  BY DEF Captured
<1>5. /\ order' = "PAYMENT_CONFIRMED" \/ UNCHANGED order
      /\ order' \in AwaitingPayment => UNCHANGED rows
  BY DEF Captured, Waiting, AwaitingPayment
<1> QED
  BY <1>2, <1>3, <1>4, <1>5

LEMMA DeclinedRows ==
  ASSUME CounterTypeOK, Declined
  PROVE  /\ rows' \in Seq(TillRows) /\ Len(rows') = Len(rows)
         /\ order' = "PAYMENT_FAILED" \/ (UNCHANGED order /\ ~Waiting)
<1>1. "FAILED" \in TillStatuses
  BY DEF TillStatuses
<1>2. /\ Settled("FAILED", "rrn") \in Seq(TillRows)
      /\ Len(Settled("FAILED", "rrn")) = Len(rows)
  BY <1>1, SettledRows
<1>3. rows \in Seq(TillRows)
  BY DEF CounterTypeOK
<1>4. order = "PAYMENT_PENDING" => TransitionAccepted(order, "PAYMENT_FAILED")
  BY DEF TransitionAccepted, CanTransition, Allowed, Statuses
<1>5. rows' = Settled("FAILED", "rrn") \/ rows' = rows
  BY DEF Declined
<1>6. order' = "PAYMENT_FAILED" \/ (UNCHANGED order /\ ~Waiting)
  BY <1>4 DEF Declined, Waiting, AwaitingPayment, CounterTypeOK
<1> QED
  BY <1>2, <1>3, <1>5, <1>6

LEMMA RowsAreRefs == CounterTypeOK => DOMAIN rows = 1..Len(rows) /\ DOMAIN rows \subseteq Refs
<1> SUFFICES ASSUME CounterTypeOK
    PROVE  DOMAIN rows = 1..Len(rows) /\ DOMAIN rows \subseteq Refs
  OBVIOUS
<1>1. rows \in Seq(TillRows) /\ Len(rows) \in 1..MaxIntents
  BY DEF CounterTypeOK, Refs
<1> QED
  BY <1>1, CounterAssumption DEF Refs

(* What is told of the machine is written on the order and its rows by     *)
(* Apply.                                                                  *)
LEMMA AppliedRows ==
  ASSUME CounterTypeOK, NEW t \in Tills, Apply(t)
  PROVE  /\ rows' \in Seq(TillRows) /\ Len(rows') = Len(rows)
         /\ order' \in {"PAYMENT_CONFIRMED", "PAYMENT_FAILED"} \/ UNCHANGED order
         /\ order' \in AwaitingPayment => UNCHANGED <<order, rows>>
         /\ order' \in AwaitingPayment => till[t].outcome # "DECLINED"
<1>0. rows \in Seq(TillRows)
  BY DEF CounterTypeOK
<1>1. CASE till[t].outcome = "APPROVED"
  <2>1. Captured("rrn") \/ UNCHANGED <<rows, order>>
    BY <1>1 DEF Apply
  <2> QED
    BY <1>0, <1>1, <2>1, CapturedRows DEF AwaitingPayment
<1>2. CASE till[t].outcome = "DECLINED"
  <2>1. Declined
    BY <1>2 DEF Apply
  <2> QED
    BY <1>2, <2>1, DeclinedRows DEF AwaitingPayment, Waiting
<1>3. CASE till[t].outcome \notin {"APPROVED", "DECLINED"}
  <2>1. UNCHANGED <<rows, order>>
    BY <1>3 DEF Apply
  <2> QED
    BY <1>0, <1>3, <2>1
<1> QED
  BY <1>1, <1>2, <1>3

(* One till's request moves on.                                            *)
Slips == [pc : {"idle", "charge", "wait", "apply"}, ref : Refs,
          outcome : {"none", "APPROVED", "DECLINED", "CANCELLED", "UNKNOWN"},
          wary : BOOLEAN]

LEMMA TillMoves ==
  ASSUME till \in [Tills -> Slips], NEW t \in Tills, NEW slip \in Slips,
         till' = [till EXCEPT ![t] = slip]
  PROVE  till' \in [Tills -> Slips] /\ till'[t] = slip
  OBVIOUS

LEMMA CounterStarts == CounterInit => CounterTypeOK
<1> SUFFICES ASSUME CounterInit PROVE CounterTypeOK
  OBVIOUS
<1>1. 1 \in Refs
  BY CounterAssumption DEF Refs
<1>2. NewRow \in TillRows
  BY DEF NewRow, TillRows, TillStatuses
<1>3. rows \in Seq(TillRows) /\ Len(rows) = 1
  BY <1>2 DEF CounterInit
<1> QED
  BY <1>1, <1>3 DEF CounterInit, CounterTypeOK

LEMMA TillTypes ==
  ASSUME CounterTypeOK, NEW t \in Tills,
         Charge(t) \/ ReachMachine(t) \/ Answer(t) \/ Resolve(t) \/ Apply(t)
  PROVE  till' \in [Tills -> Slips]
<1>1. till \in [Tills -> Slips] /\ till[t] \in Slips /\ Len(rows) \in Refs
  BY DEF CounterTypeOK, Slips
<1>2. CASE Charge(t)
  <2>1. [till[t] EXCEPT !.pc = "charge", !.ref = Newest] \in Slips
    BY <1>1 DEF Slips, Newest
  <2> QED
    BY <1>1, <1>2, <2>1, TillMoves DEF Charge
<1>3. CASE ReachMachine(t)
  <2>1. [till[t] EXCEPT !.pc = "wait"] \in Slips
    BY <1>1 DEF Slips
  <2> QED
    BY <1>1, <1>3, <2>1, TillMoves DEF ReachMachine
<1>4. CASE Answer(t)
  <2>1. PICK outcome \in {"APPROVED", "DECLINED", "CANCELLED", "UNKNOWN"} :
          till' = [till EXCEPT ![t].pc = "apply", ![t].outcome = outcome]
    BY <1>4, Verdicts DEF Answer
  <2>2. [till[t] EXCEPT !.pc = "apply", !.outcome = outcome] \in Slips
    BY <1>1 DEF Slips
  <2> QED
    BY <1>1, <2>1, <2>2, TillMoves
<1>5. CASE Resolve(t)
  <2>1. PICK outcome \in {"APPROVED", "DECLINED", "CANCELLED", "UNKNOWN"} :
          till' = [till EXCEPT ![t].pc = "apply", ![t].ref = Newest, ![t].outcome = outcome]
    BY <1>5, Verdicts DEF Resolve
  <2>2. [till[t] EXCEPT !.pc = "apply", !.ref = Newest, !.outcome = outcome] \in Slips
    BY <1>1 DEF Slips, Newest
  <2> QED
    BY <1>1, <2>1, <2>2, TillMoves
<1>6. CASE Apply(t)
  <2> DEFINE wary == till[t].outcome = "UNKNOWN"
  <2>1. /\ till' = [till EXCEPT ![t].pc = "idle", ![t].outcome = "none", ![t].wary = wary]
        /\ wary \in BOOLEAN
    BY <1>6 DEF Apply
  <2> HIDE DEF wary
  <2>2. [till[t] EXCEPT !.pc = "idle", !.outcome = "none", !.wary = wary] \in Slips
    BY <1>1, <2>1 DEF Slips
  <2> QED
    BY <1>1, <2>1, <2>2, TillMoves
<1> QED
  BY <1>2, <1>3, <1>4, <1>5, <1>6

LEMMA PollTypes ==
  ASSUME CounterTypeOK, PollAsks
  PROVE  /\ poll' \in [ref : Refs, status : {"CAPTURED", "FAILED", "PENDING"}]
         /\ poll'.status = "FAILED" => machine[poll'.ref] = "declined"
<1>1. VerdictOfRow(Newest) \in {"APPROVED", "DECLINED", "CANCELLED"}
  BY RowVerdicts DEF PollAsks
<1>2. Newest \in Refs
  BY DEF CounterTypeOK, Newest
<1>3. VerdictOfRow(Newest) = "DECLINED" => machine[Newest] = "declined"
  BY RowVerdicts
<1>4. PICK st \in {"CAPTURED", "FAILED", "PENDING"} :
        /\ poll' = [ref |-> Newest, status |-> st]
        /\ st = "FAILED" => VerdictOfRow(Newest) = "DECLINED"
  BY <1>1 DEF PollAsks
<1> QED
  BY <1>2, <1>3, <1>4

(* A row rewritten in one column.                                          *)
LEMMA RowWritten ==
  ASSUME CounterTypeOK, NEW i \in Nat, NEW st \in TillStatuses,
         rows' = [rows EXCEPT ![i].status = st]
  PROVE  /\ rows' \in Seq(TillRows) /\ Len(rows') = Len(rows) /\ DOMAIN rows' = DOMAIN rows
         /\ \A j \in DOMAIN rows :
              (j = i /\ rows'[j].status = st) \/ rows'[j] = rows[j]
<1>1. PICK n \in Nat : rows \in [1..n -> TillRows]
  BY DEF CounterTypeOK
<1>2. \A d \in TillRows : [d EXCEPT !.status = st] \in TillRows
  BY DEF TillRows
<1>3. /\ rows' \in [1..n -> TillRows]
      /\ \A j \in 1..n : (j = i /\ rows'[j].status = st) \/ rows'[j] = rows[j]
  BY <1>1, <1>2 DEF TillRows
<1> QED
  BY <1>1, <1>3

LEMMA CounterKeepsTypes == CounterTypeOK /\ CounterNext => CounterTypeOK'
<1> SUFFICES ASSUME CounterTypeOK, CounterNext PROVE CounterTypeOK'
  OBVIOUS
<1>0. /\ rows \in Seq(TillRows) /\ Len(rows) \in Refs /\ DOMAIN rows = 1..Len(rows)
      /\ Refs \subseteq Nat
  BY DEF CounterTypeOK, Refs
<1> DEFINE Machines == {"idle", "running", "approved", "mispriced", "declined", "cancelled",
                        "reversed"}
<1>1. CASE CreateIntent
  <2>1. NewRow \in TillRows
    BY DEF NewRow, TillRows, TillStatuses
  <2>2. rows' \in Seq(TillRows) /\ Len(rows') = Len(rows) + 1
    BY <1>0, <1>1, <2>1 DEF CreateIntent
  <2>3. Len(rows') \in Refs
    BY <1>0, <1>1, <2>2, CounterAssumption DEF CreateIntent, Newest, Refs
  <2> QED
    BY <1>1, <2>2, <2>3 DEF CreateIntent, CounterTypeOK
<1>2. CASE PollAsks
  BY <1>2, PollTypes DEF PollAsks, CounterTypeOK
<1>3. CASE PollWrites
  <2>1. poll.ref \in Nat /\ poll.status \in TillStatuses
    BY <1>0, <1>3 DEF PollWrites, CounterTypeOK, TillStatuses
  <2>2. rows' \in Seq(TillRows) /\ Len(rows') = Len(rows)
    BY <1>3, <2>1, RowWritten DEF PollWrites
  <2> QED
    BY <1>0, <1>3, <2>2 DEF PollWrites, CounterTypeOK
<1>4. ASSUME NEW t \in Tills, Charge(t) PROVE CounterTypeOK'
  <2>1. till' \in [Tills -> Slips]
    BY <1>4, TillTypes
  <2>2. presses' = presses + 1 /\ UNCHANGED <<order, rows, machine, poll, asked, debits>>
    BY <1>4 DEF Charge
  <2> QED
    BY <2>1, <2>2 DEF CounterTypeOK, Slips
<1>5. ASSUME NEW t \in Tills, ReachMachine(t) PROVE CounterTypeOK'
  BY <1>5, TillTypes DEF ReachMachine, CounterTypeOK, Slips
<1>6. ASSUME NEW t \in Tills, Answer(t) PROVE CounterTypeOK'
  BY <1>6, TillTypes DEF Answer, CounterTypeOK, Slips
<1>7. ASSUME NEW t \in Tills, Resolve(t) PROVE CounterTypeOK'
  BY <1>7, TillTypes DEF Resolve, CounterTypeOK, Slips
<1>8. ASSUME NEW t \in Tills, Apply(t) PROVE CounterTypeOK'
  <2>1. /\ rows' \in Seq(TillRows) /\ Len(rows') = Len(rows)
        /\ order' \in {"PAYMENT_CONFIRMED", "PAYMENT_FAILED"} \/ UNCHANGED order
    BY <1>8, AppliedRows
  <2>2. till' \in [Tills -> Slips]
    BY <1>8, TillTypes
  <2>3. UNCHANGED <<machine, poll, asked, debits, presses>>
    BY <1>8 DEF Apply
  <2> QED
    BY <1>0, <2>1, <2>2, <2>3 DEF CounterTypeOK, Slips
<1>9. ASSUME NEW r \in Refs, MachineEnds(r) PROVE CounterTypeOK'
  BY <1>9 DEF MachineEnds, CounterTypeOK
<1>10. ASSUME NEW i \in DOMAIN rows, Reconcile(i) PROVE CounterTypeOK'
  <2>0. rows[i] \in TillRows
    BY <1>0
  <2>1. rows[i].payment_ref \in {"none", "rrn"}
    BY <2>0 DEF TillRows
  <2>2. /\ rows' \in Seq(TillRows) /\ Len(rows') = Len(rows)
        /\ order' = "PAYMENT_CONFIRMED" \/ UNCHANGED order
    BY <1>10, <2>1, CapturedRows DEF Reconcile
  <2>3. asked' = TRUE /\ UNCHANGED <<machine, till, poll, debits, presses>>
    BY <1>10 DEF Reconcile
  <2> QED
    BY <1>0, <2>2, <2>3 DEF CounterTypeOK
<1>11. ASSUME NEW i \in DOMAIN rows, Expire(i) PROVE CounterTypeOK'
  <2>1. i \in Nat /\ "EXPIRED" \in TillStatuses
    BY <1>0 DEF TillStatuses
  <2>2. rows' \in Seq(TillRows) /\ Len(rows') = Len(rows)
    BY <1>11, <2>1, RowWritten DEF Expire
  <2> QED
    BY <1>0, <1>11, <2>2 DEF Expire, CounterTypeOK
<1>12. ASSUME NEW i \in DOMAIN rows, Refund(i) PROVE CounterTypeOK'
  BY <1>12 DEF Refund, CounterTypeOK
<1>13. CASE Cancel
  BY <1>13 DEF Cancel, CounterTypeOK
<1> QED
  BY <1>1, <1>2, <1>3, <1>4, <1>5, <1>6, <1>7, <1>8, <1>9, <1>10, <1>11, <1>12, <1>13
  DEF CounterNext

(* Every variable of the till keeps its type, for any number of tills      *)
(* (payments/pos.controller.ts, providers/pos).                            *)
THEOREM CounterTypes == Spec => []CounterTypeOK
<1>1. Init => CounterTypeOK
  BY CounterStarts DEF Init
<1>2. CounterTypeOK /\ [Next]_vars => CounterTypeOK'
  <2>1. CounterTypeOK /\ UNCHANGED counterVars => CounterTypeOK'
    BY DEF CounterTypeOK, counterVars
  <2>2. [Next]_vars => CounterNext \/ UNCHANGED counterVars
    BY DEF Next, AtTheTill, AtTheTablet, AtTheDoor, vars
  <2> QED
    BY <2>1, <2>2, CounterKeepsTypes
<1> QED
  BY <1>1, <1>2, PTL DEF Spec

-----------------------------------------------------------------------------
(* One obedient till debits once.  While the order waits, a sale that the  *)
(* machine has begun or declined is one the till still waits for, is about *)
(* to write down or is unsure of, so that it does not press again; and a   *)
(* row fails only when its sale was declined.  So a new intent is made     *)
(* when nothing was taken, and whatever was taken was taken for the newest.*)
OneTill == Obedient /\ \A t, u \in Tills : t = u

Took(r) == machine[r] \in {"approved", "mispriced", "reversed"}

OnlyTheNewest ==
  \A r \in Refs :
    /\ machine[r] = "running" \/ Took(r) => r = Newest
    /\ r > Newest => machine[r] = "idle"
    /\ Waiting /\ machine[r] = "declined" /\ r # Newest => machine[Newest] = "idle"

DebitIsSeen == debits = IF Took(Newest) THEN 1 ELSE 0

FailedIsDeclined ==
  Waiting =>
    /\ \A i \in DOMAIN rows :
         rows[i].status # "EXPIRED" /\ (rows[i].status = "FAILED" => machine[i] = "declined")
    /\ poll.ref # 0 /\ poll.status = "FAILED" => machine[poll.ref] = "declined"

Awaited(t, r) == till[t].pc = "wait" /\ till[t].ref = r
Unsure(t) ==
  \/ till[t].pc = "apply" /\ till[t].outcome = "UNKNOWN"
  \/ till[t].pc = "idle" /\ till[t].wary

Tracked ==
  \A t \in Tills :
    /\ till[t].pc = "charge" => till[t].ref = Newest
    /\ \A r \in Refs :
       /\ Waiting /\ machine[r] = "running" => Awaited(t, r) \/ Unsure(t)
       /\ Waiting /\ machine[r] = "declined" =>
            \/ Awaited(t, r) \/ Unsure(t)
            \/ till[t].pc = "apply" /\ till[t].outcome = "DECLINED"

TillInv == CounterTypeOK /\ OnlyTheNewest /\ DebitIsSeen /\ FailedIsDeclined /\ Tracked

LEMMA TillStarts == CounterInit => TillInv
<1> SUFFICES ASSUME CounterInit PROVE TillInv
  OBVIOUS
<1>1. CounterTypeOK
  BY CounterStarts
<1>2. Newest = 1 /\ Newest \in Refs /\ \A r \in Refs : machine[r] = "idle"
  BY CounterAssumption DEF CounterInit, Newest, Refs
<1>3. OnlyTheNewest /\ DebitIsSeen
  BY <1>2 DEF CounterInit, OnlyTheNewest, DebitIsSeen, Took
<1>4. DOMAIN rows = {1} /\ rows[1].status = "CREATED"
  BY DEF CounterInit, NewRow
<1>5. FailedIsDeclined
  BY <1>4 DEF CounterInit, FailedIsDeclined
<1>6. Tracked
  BY <1>2 DEF CounterInit, Tracked
<1> QED
  BY <1>1, <1>3, <1>5, <1>6 DEF TillInv

(* Once the order waits no longer, nothing new can go wrong.               *)
LEMMA SettlingKeeps ==
  ASSUME TillInv, CounterTypeOK', ~Waiting', Len(rows') = Len(rows),
         UNCHANGED <<machine, debits>>,
         \A t \in Tills : till'[t].pc = "charge" => till[t].pc = "charge" /\ till'[t].ref = till[t].ref
  PROVE  TillInv'
<1>1. OnlyTheNewest' /\ DebitIsSeen'
  BY DEF TillInv, OnlyTheNewest, DebitIsSeen, Took, Newest
<1>2. FailedIsDeclined' /\ Tracked'
  BY DEF TillInv, FailedIsDeclined, Tracked, Newest
<1> QED
  BY <1>1, <1>2 DEF TillInv

(* The order, its rows and the machine stay: only what the till and the    *)
(* poll carry may have changed.                                            *)
LEMMA CarryingKeeps ==
  ASSUME TillInv, CounterTypeOK', UNCHANGED <<order, rows, machine, debits>>,
         Waiting /\ poll'.ref # 0 /\ poll'.status = "FAILED" => machine[poll'.ref] = "declined",
         Tracked'
  PROVE  TillInv'
<1>1. OnlyTheNewest' /\ DebitIsSeen'
  BY DEF TillInv, OnlyTheNewest, DebitIsSeen, Took, Newest, Waiting
<1>2. FailedIsDeclined'
  BY DEF TillInv, FailedIsDeclined, Waiting
<1> QED
  BY <1>1, <1>2 DEF TillInv

(* A new intent, after every earlier one was declined at the machine.      *)
LEMMA CreateKeeps ==
  ASSUME TillInv, CreateIntent, CounterTypeOK'
  PROVE  TillInv'
<1>1. /\ Len(rows) \in Refs /\ Refs \subseteq Nat \ {0} /\ DOMAIN rows = 1..Len(rows)
      /\ rows \in Seq(TillRows) /\ NewRow \in TillRows
  BY DEF TillInv, CounterTypeOK, Refs, NewRow, TillRows, TillStatuses
<1>2. \A i \in DOMAIN rows : machine[i] = "declined"
  BY DEF TillInv, CreateIntent, FailedIsDeclined
<1>3. /\ Len(rows') = Len(rows) + 1 /\ rows'[Len(rows) + 1] = NewRow
      /\ \A i \in DOMAIN rows : rows'[i] = rows[i]
      /\ DOMAIN rows' = 1..(Len(rows) + 1)
  BY <1>1 DEF CreateIntent
<1>4. UNCHANGED <<order, machine, till, poll, asked, debits, presses>> /\ Waiting
  BY DEF CreateIntent
<1>5. \A r \in Refs : r > Len(rows) => machine[r] = "idle"
  BY DEF TillInv, OnlyTheNewest, Newest
<1>6. \A r \in Refs : r \in DOMAIN rows \/ r > Len(rows)
  BY <1>1
<1>7. Len(rows') \in Refs
  BY DEF CounterTypeOK
<1>8. machine[Len(rows')] = "idle"
  BY <1>1, <1>3, <1>5, <1>7
<1>9. OnlyTheNewest'
  BY <1>1, <1>2, <1>3, <1>4, <1>5, <1>6, <1>8 DEF OnlyTheNewest, Took, Newest
<1>0. machine[Len(rows)] = "declined"
  BY <1>1, <1>2
<1>10. ~Took(Newest)
  BY <1>0 DEF Took, Newest
<1>11. DebitIsSeen'
  BY <1>4, <1>8, <1>10 DEF TillInv, DebitIsSeen, Took, Newest
<1>12. FailedIsDeclined'
  <2>1. NewRow.status = "CREATED"
    BY DEF NewRow
  <2> QED
    BY <1>1, <1>3, <1>4, <2>1 DEF TillInv, FailedIsDeclined, Waiting
<1>13. \A t \in Tills : till[t].pc # "charge"
  BY <1>0, <1>1, <1>4 DEF TillInv, Tracked, Awaited, Unsure
<1>14. Tracked'
  BY <1>4, <1>13 DEF TillInv, Tracked, Awaited, Unsure, Waiting
<1> QED
  BY <1>9, <1>11, <1>12, <1>14 DEF TillInv

LEMMA PollKeeps ==
  ASSUME TillInv, PollAsks \/ PollWrites, CounterTypeOK'
  PROVE  TillInv'
<1>0. CounterTypeOK
  BY DEF TillInv
<1>1. CASE PollAsks
  <2>1. poll'.status = "FAILED" => machine[poll'.ref] = "declined"
    BY <1>0, <1>1, PollTypes
  <2>2. UNCHANGED <<order, rows, machine, till, asked, debits, presses>>
    BY <1>1 DEF PollAsks
  <2>3. Tracked'
    BY <2>2 DEF TillInv, Tracked, Awaited, Unsure, Waiting, Newest
  <2> QED
    BY <2>1, <2>2, <2>3, CarryingKeeps
<1>2. CASE PollWrites
  <2>1. /\ poll.ref \in Nat /\ poll.ref # 0
        /\ poll.status \in {"CAPTURED", "FAILED", "PENDING"} /\ poll'.ref = 0
    BY <1>0, <1>2 DEF PollWrites, CounterTypeOK, Refs
  <2>2. /\ Len(rows') = Len(rows) /\ DOMAIN rows' = DOMAIN rows
        /\ \A j \in DOMAIN rows :
             (j = poll.ref /\ rows'[j].status = poll.status) \/ rows'[j] = rows[j]
    BY <1>0, <1>2, <2>1, RowWritten DEF PollWrites, TillStatuses
  <2>3. UNCHANGED <<order, machine, till, asked, debits, presses>>
    BY <1>2 DEF PollWrites
  <2>4. OnlyTheNewest' /\ DebitIsSeen' /\ Tracked'
    BY <2>2, <2>3
    DEF TillInv, OnlyTheNewest, DebitIsSeen, Tracked, Took, Awaited, Unsure, Waiting, Newest
  <2>5. FailedIsDeclined'
    BY <2>1, <2>2, <2>3 DEF TillInv, FailedIsDeclined, Waiting
  <2> QED
    BY <2>4, <2>5 DEF TillInv
<1> QED
  BY <1>1, <1>2

(* Charge is pressed only when nothing is running or was declined.         *)
LEMMA ChargeKeeps ==
  ASSUME TillInv, OneTill, NEW t \in Tills, Charge(t), CounterTypeOK'
  PROVE  TillInv'
<1>1. /\ till[t].pc = "idle" /\ ~till[t].wary
      /\ till' = [till EXCEPT ![t].pc = "charge", ![t].ref = Newest]
      /\ UNCHANGED <<order, rows, machine, poll, asked, debits>>
  BY DEF Charge, OneTill
<1>2. Waiting => \A r \in Refs : machine[r] # "running" /\ machine[r] # "declined"
  BY <1>1 DEF TillInv, Tracked, Awaited, Unsure
<1>3. \A u \in Tills : till'[u].ref = Newest
  BY <1>1 DEF OneTill, TillInv, CounterTypeOK
<1>4. Tracked'
  BY <1>1, <1>2, <1>3 DEF Tracked, Waiting, Newest
<1> QED
  BY <1>1, <1>4, CarryingKeeps DEF TillInv, FailedIsDeclined

(* The request that reaches the machine is for the newest intent.          *)
LEMMA ReachKeeps ==
  ASSUME TillInv, OneTill, NEW t \in Tills, ReachMachine(t), CounterTypeOK'
  PROVE  TillInv'
<1>0. Newest \in Refs /\ Len(rows) \in Refs /\ Refs \subseteq Nat
  BY DEF TillInv, CounterTypeOK, Newest, Refs
<1>1. till[t].pc = "charge" /\ till[t].ref = Newest
  BY DEF ReachMachine, TillInv, Tracked
<1> DEFINE m == IF machine[Newest] \in {"idle", "declined", "cancelled"} THEN "running"
                ELSE machine[Newest]
<1>2. /\ machine' = [machine EXCEPT ![Newest] = m]
      /\ till' = [till EXCEPT ![t].pc = "wait"]
      /\ UNCHANGED <<order, rows, poll, asked, debits, presses>>
  BY <1>1 DEF ReachMachine
<1>3. Waiting => \A r \in Refs : machine[r] # "running" /\ machine[r] # "declined"
  BY <1>1 DEF TillInv, Tracked, Awaited, Unsure
<1>4. /\ machine'[Newest] = m /\ \A r \in Refs : r # Newest => machine'[r] = machine[r]
  BY <1>0, <1>2 DEF TillInv, CounterTypeOK
<1>5. /\ m # "declined" /\ m # "idle"
      /\ m \in {"approved", "mispriced", "reversed"} <=> Took(Newest)
  BY <1>0 DEF Took, TillInv, CounterTypeOK
<1> HIDE DEF m
<1>6. OnlyTheNewest'
  BY <1>0, <1>2, <1>3, <1>4, <1>5 DEF TillInv, OnlyTheNewest, Took, Newest, Waiting
<1>7. DebitIsSeen'
  BY <1>2, <1>4, <1>5 DEF TillInv, DebitIsSeen, Took, Newest
<1>8. \A u \in Tills : till'[u].pc = "wait" /\ till'[u].ref = Newest
  BY <1>1, <1>2 DEF OneTill, TillInv, CounterTypeOK
<1>9. Tracked'
  BY <1>2, <1>3, <1>4, <1>5, <1>8 DEF Tracked, Awaited, Waiting, Newest, OnlyTheNewest, TillInv
<1>10. FailedIsDeclined'
  BY <1>0, <1>2, <1>3, <1>4 DEF TillInv, FailedIsDeclined, Waiting, CounterTypeOK
<1> QED
  BY <1>6, <1>7, <1>9, <1>10 DEF TillInv

(* The till hears what the machine holds of its own sale, or nothing.      *)
LEMMA AnswerKeeps ==
  ASSUME TillInv, OneTill, NEW t \in Tills, Answer(t), CounterTypeOK'
  PROVE  TillInv'
<1>1. PICK outcome \in {"APPROVED", "DECLINED", "CANCELLED", "UNKNOWN"} :
        /\ till' = [till EXCEPT ![t].pc = "apply", ![t].outcome = outcome]
        /\ \/ outcome = "UNKNOWN"
           \/ /\ till[t].pc = "wait" /\ machine[till[t].ref] # "running"
              /\ outcome = Verdict(till[t].ref)
  BY Verdicts DEF Answer
<1>2. /\ till[t].pc \in {"charge", "wait"}
      /\ UNCHANGED <<order, rows, machine, poll, asked, debits, presses>>
  BY DEF Answer
<1>3. \A u \in Tills : u = t /\ till'[u].pc = "apply" /\ till'[u].outcome = outcome
  BY <1>1 DEF OneTill, TillInv, CounterTypeOK
<1>4. ASSUME NEW r \in Refs, Waiting, machine[r] = "running"
      PROVE  outcome = "UNKNOWN"
  BY <1>1, <1>2, <1>4 DEF TillInv, Tracked, Awaited, Unsure
<1>5. ASSUME NEW r \in Refs, Waiting, machine[r] = "declined"
      PROVE  outcome \in {"UNKNOWN", "DECLINED"}
  BY <1>1, <1>2, <1>5 DEF TillInv, Tracked, Awaited, Unsure, Verdict
<1>6. Tracked'
  BY <1>2, <1>3, <1>4, <1>5 DEF Tracked, Unsure, Waiting
<1> QED
  BY <1>2, <1>6, CarryingKeeps DEF TillInv, FailedIsDeclined

(* A till that is unsure asks about the newest sale.  If that was not      *)
(* begun while an earlier one was declined it learns nothing.              *)
LEMMA ResolveKeeps ==
  ASSUME TillInv, OneTill, NEW t \in Tills, Resolve(t), CounterTypeOK'
  PROVE  TillInv'
<1>1. PICK outcome \in {Verdict(Newest), "UNKNOWN"} :
        till' = [till EXCEPT ![t].pc = "apply", ![t].ref = Newest, ![t].outcome = outcome]
  BY DEF Resolve
<1>2. till[t].pc = "idle" /\ UNCHANGED <<order, rows, machine, poll, asked, debits, presses>>
  BY DEF Resolve
<1>3. \A u \in Tills : u = t /\ till'[u].pc = "apply" /\ till'[u].outcome = outcome
  BY <1>1 DEF OneTill, TillInv, CounterTypeOK
<1>4. ASSUME NEW r \in Refs, machine[r] = "running"
      PROVE  outcome = "UNKNOWN"
  <2>1. r = Newest
    BY <1>4 DEF TillInv, OnlyTheNewest
  <2> QED
    BY <1>4, <2>1 DEF Verdict
<1>5. ASSUME NEW r \in Refs, Waiting, machine[r] = "declined"
      PROVE  outcome \in {"UNKNOWN", "DECLINED"}
  <2>1. machine[Newest] \in {"declined", "idle"}
    BY <1>5 DEF TillInv, OnlyTheNewest
  <2> QED
    BY <2>1 DEF Verdict
<1>6. Tracked'
  BY <1>2, <1>3, <1>4, <1>5 DEF Tracked, Unsure, Waiting
<1> QED
  BY <1>2, <1>6, CarryingKeeps DEF TillInv, FailedIsDeclined

(* An unknown leaves the till wary; a decline ends the order's wait.       *)
LEMMA ApplyKeeps ==
  ASSUME TillInv, OneTill, NEW t \in Tills, Apply(t), CounterTypeOK'
  PROVE  TillInv'
<1>0. CounterTypeOK
  BY DEF TillInv
<1>1. /\ till[t].pc = "apply" /\ UNCHANGED <<machine, poll, asked, debits, presses>>
      /\ till' = [till EXCEPT ![t].pc = "idle", ![t].outcome = "none",
                              ![t].wary = till[t].outcome = "UNKNOWN"]
  BY DEF Apply
<1>2. /\ Len(rows') = Len(rows)
      /\ Waiting' => UNCHANGED <<order, rows>> /\ till[t].outcome # "DECLINED"
  BY <1>0, AppliedRows DEF Waiting
<1>3. \A u \in Tills : u = t /\ till'[u].pc = "idle"
                       /\ (till[t].outcome = "UNKNOWN" => till'[u].wary)
  BY <1>0, <1>1 DEF OneTill, CounterTypeOK
<1>4. CASE ~Waiting'
  BY <1>1, <1>2, <1>3, <1>4, SettlingKeeps
<1>5. CASE Waiting'
  <2>1. UNCHANGED <<order, rows>> /\ Waiting /\ till[t].outcome # "DECLINED"
    BY <1>2, <1>5 DEF Waiting
  <2>2. Tracked'
    BY <1>1, <1>3, <2>1 DEF TillInv, Tracked, Awaited, Unsure, Waiting
  <2> QED
    BY <1>1, <2>1, <2>2, CarryingKeeps DEF TillInv, FailedIsDeclined
<1> QED
  BY <1>4, <1>5

(* The customer is debited by the sale that was running, the newest one.   *)
LEMMA MachineKeeps ==
  ASSUME TillInv, OneTill, NEW r \in Refs, MachineEnds(r), CounterTypeOK'
  PROVE  TillInv'
<1>0. Newest \in Refs /\ Len(rows) \in Refs /\ Refs \subseteq Nat
  BY DEF TillInv, CounterTypeOK, Newest, Refs
<1>1. machine[r] = "running" /\ UNCHANGED <<order, rows, till, poll, asked, presses>>
  BY DEF MachineEnds
<1>2. r = Newest
  BY <1>1 DEF TillInv, OnlyTheNewest
<1>3. PICK last \in {"approved", "mispriced", "declined", "cancelled"} :
        /\ machine' = [machine EXCEPT ![Newest] = last]
        /\ debits' = IF last \in {"approved", "mispriced"} THEN debits + 1 ELSE debits
  BY <1>2 DEF MachineEnds
<1>4. machine'[Newest] = last /\ \A q \in Refs : q # Newest => machine'[q] = machine[q]
  BY <1>0, <1>3 DEF TillInv, CounterTypeOK
<1>5. Waiting => \A q \in Refs : q # Newest => machine[q] # "declined"
  BY <1>1, <1>2 DEF TillInv, OnlyTheNewest
<1>6. OnlyTheNewest'
  BY <1>0, <1>1, <1>3, <1>4, <1>5 DEF TillInv, OnlyTheNewest, Took, Newest, Waiting
<1>7. debits = 0
  BY <1>1, <1>2 DEF TillInv, DebitIsSeen, Took
<1>8. debits' = IF last \in {"approved", "mispriced"} THEN 1 ELSE 0
  BY <1>3, <1>7
<1>9. DebitIsSeen'
  BY <1>1, <1>3, <1>4, <1>8 DEF DebitIsSeen, Took, Newest
<1>10. \A t \in Tills : Waiting => Awaited(t, Newest) \/ Unsure(t)
  BY <1>0, <1>1, <1>2 DEF TillInv, Tracked
<1>11. \A t \in Tills : till[t].pc = "charge" => till[t].ref = Newest
  BY DEF TillInv, Tracked
<1>12. \A q \in Refs : machine'[q] # "running"
  BY <1>3, <1>4 DEF TillInv, OnlyTheNewest
<1>13. \A q \in Refs : Waiting /\ machine'[q] = "declined" => q = Newest
  BY <1>4, <1>5
<1>14. Tracked'
  BY <1>1, <1>10, <1>11, <1>12, <1>13 DEF Tracked, Awaited, Unsure, Waiting, Newest
<1>15. Waiting => (\A i \in DOMAIN rows : rows[i].status # "FAILED")
                  /\ ~(poll.ref # 0 /\ poll.status = "FAILED")
  <2> SUFFICES ASSUME Waiting
      PROVE  /\ \A i \in DOMAIN rows : rows[i].status # "FAILED"
             /\ ~(poll.ref # 0 /\ poll.status = "FAILED")
    OBVIOUS
  <2>1. \A q \in Refs : machine[q] # "declined"
    BY <1>1, <1>2, <1>5
  <2>2. DOMAIN rows \subseteq Refs /\ (poll.ref # 0 => poll.ref \in Refs)
    BY RowsAreRefs DEF TillInv, CounterTypeOK
  <2> QED
    BY <2>1, <2>2 DEF TillInv, FailedIsDeclined
<1>16. FailedIsDeclined'
  BY <1>1, <1>15 DEF TillInv, FailedIsDeclined, Waiting
<1> QED
  BY <1>6, <1>9, <1>14, <1>16 DEF TillInv

LEMMA SweepsKeep ==
  ASSUME TillInv, NEW i \in DOMAIN rows, Reconcile(i) \/ Expire(i), CounterTypeOK'
  PROVE  TillInv'
<1>0. /\ CounterTypeOK /\ rows \in Seq(TillRows) /\ i \in Nat
  BY DEF TillInv, CounterTypeOK
<1>1. CASE Reconcile(i)
  <2>1. rows[i] \in TillRows
    BY <1>0
  <2>2. rows[i].payment_ref \in {"none", "rrn"}
    BY <2>1 DEF TillRows
  <2>3. /\ Len(rows') = Len(rows) /\ (Waiting' => UNCHANGED <<order, rows>>)
    BY <1>0, <1>1, <2>2, CapturedRows DEF Reconcile, Waiting, AwaitingPayment
  <2>4. UNCHANGED <<machine, till, poll, debits, presses>>
    BY <1>1 DEF Reconcile
  <2>5. CASE ~Waiting'
    BY <2>3, <2>4, <2>5, SettlingKeeps
  <2>6. CASE Waiting'
    <3>1. UNCHANGED <<order, rows>>
      BY <2>3, <2>6
    <3>2. Tracked'
      BY <2>4, <3>1 DEF TillInv, Tracked, Awaited, Unsure, Waiting, Newest
    <3> QED
      BY <2>4, <3>1, <3>2, CarryingKeeps DEF TillInv, FailedIsDeclined
  <2> QED
    BY <2>5, <2>6
<1>2. CASE Expire(i)
  <2>1. /\ rows' = [rows EXCEPT ![i].status = "EXPIRED"] /\ order' = "PAYMENT_EXPIRED"
        /\ UNCHANGED <<machine, till, poll, asked, debits, presses>>
    BY <1>2 DEF Expire
  <2>2. Len(rows') = Len(rows)
    BY <1>0, <2>1, RowWritten DEF TillStatuses
  <2>3. ~Waiting'
    BY <2>1 DEF Waiting, AwaitingPayment
  <2> QED
    BY <2>1, <2>2, <2>3, SettlingKeeps
<1> QED
  BY <1>1, <1>2

LEMMA RefundKeeps ==
  ASSUME TillInv, NEW i \in DOMAIN rows, Refund(i), CounterTypeOK'
  PROVE  TillInv'
<1>0. Newest \in Refs /\ i \in Refs /\ Refs \subseteq Nat
  BY RowsAreRefs DEF TillInv, CounterTypeOK, Newest, Refs
<1>1. /\ machine' = [machine EXCEPT ![i] = "reversed"] /\ order' = "REFUNDED"
      /\ UNCHANGED <<rows, till, poll, asked, debits, presses>>
      /\ VerdictOfRow(i) = "APPROVED"
  BY DEF Refund
<1>2. Took(i)
  BY <1>1 DEF VerdictOfRow, Verdict, Took
<1>3. i = Newest
  BY <1>0, <1>2 DEF TillInv, OnlyTheNewest
<1>4. ~Waiting'
  BY <1>1 DEF Waiting, AwaitingPayment
<1>5. machine'[i] = "reversed" /\ \A q \in Refs : q # i => machine'[q] = machine[q]
  BY <1>0, <1>1 DEF TillInv, CounterTypeOK
<1>6. OnlyTheNewest'
  BY <1>0, <1>1, <1>3, <1>4, <1>5 DEF TillInv, OnlyTheNewest, Took, Newest
<1>7. DebitIsSeen'
  BY <1>1, <1>2, <1>3, <1>5 DEF TillInv, DebitIsSeen, Took, Newest
<1>8. FailedIsDeclined' /\ Tracked'
  BY <1>1, <1>4 DEF TillInv, FailedIsDeclined, Tracked, Newest
<1> QED
  BY <1>6, <1>7, <1>8 DEF TillInv

LEMMA TillSteps == OneTill /\ TillInv /\ CounterNext => TillInv'
<1> SUFFICES ASSUME OneTill, TillInv, CounterNext PROVE TillInv'
  OBVIOUS
<1>1. CounterTypeOK'
  BY CounterKeepsTypes DEF TillInv
<1>2. CASE Cancel
  <2>1. ~Waiting'
    BY <1>2 DEF Cancel, Waiting, AwaitingPayment
  <2> QED
    BY <1>1, <1>2, <2>1, SettlingKeeps DEF Cancel
<1> QED
  BY <1>1, <1>2, CreateKeeps, PollKeeps, ChargeKeeps, ReachKeeps, AnswerKeeps, ResolveKeeps,
     ApplyKeeps, MachineKeeps, SweepsKeep, RefundKeeps DEF CounterNext

(* pos.provider.ts:197: with one till, whose cashier heeds "DO NOT charge  *)
(* again", the customer is debited once, however often Charge is pressed   *)
(* and whatever the poll, the sweep and the expiry write meanwhile; for    *)
(* any number of intents.                                                  *)
THEOREM DebitedOnce == ASSUME OneTill PROVE Spec => []OneCharge
<1>1. Init => TillInv
  BY TillStarts DEF Init
<1>2. TillInv /\ [Next]_vars => TillInv'
  <2>1. TillInv /\ UNCHANGED counterVars => TillInv'
    BY DEF TillInv, CounterTypeOK, OnlyTheNewest, DebitIsSeen, FailedIsDeclined, Tracked,
           Took, Awaited, Unsure, Waiting, Newest, counterVars
  <2>2. [Next]_vars => CounterNext \/ UNCHANGED counterVars
    BY DEF Next, AtTheTill, AtTheTablet, AtTheDoor, vars
  <2> QED
    BY <2>1, <2>2, TillSteps
<1>3. TillInv => OneCharge
  BY DEF TillInv, DebitIsSeen, OneCharge
<1> QED
  BY <1>1, <1>2, <1>3, PTL DEF Spec

-----------------------------------------------------------------------------
(* Who tells the customer.  The unique key gives a rung to one walker, and *)
(* the row stays QUEUED as long as that walker has it in hand: nobody else *)
(* takes it over before it is stale, and a prompt walker that does not die *)
(* writes its outcome before that.                                         *)
Doing == {"pc", "sweep", "todo", "hand", "rung", "outcome"}

Walking ==
  \A w \in Workers :
    /\ DOMAIN worker[w] = Doing
    /\ worker[w].outcome \in {"none", "SENT", "SKIPPED"}

Table(S) == [Orders -> [Events -> [Tiers -> S]]]

Holds(w, o, e, t) ==
  worker[w].pc \in {"send", "record"} /\ Hand(w) = o /\ Event(w) = e /\ Tier(w) = t

Sending(w, o, e, t) ==
  Holds(w, o, e, t) /\ worker[w].pc = "record" /\ worker[w].outcome = "SENT"

OneHolder(o, e, t) ==
  /\ note[o][e][t] # "stale"
  /\ \A w \in Workers : Holds(w, o, e, t) => note[o][e][t] = "QUEUED"
  /\ \A v, w \in Workers : Holds(v, o, e, t) /\ Holds(w, o, e, t) => v = w
  /\ note[o][e][t] = "QUEUED" => \E w \in Workers : Holds(w, o, e, t)
  /\ messages[o][e][t] \in {0, 1}
  /\ messages[o][e][t] = 1 =>
       note[o][e][t] = "SENT" \/ \E w \in Workers : Sending(w, o, e, t)

RungInv ==
  /\ faults \in Nat
  /\ worker \in [Workers -> {worker[w] : w \in Workers}] /\ Walking
  /\ note \in Table({"none", "QUEUED", "stale", "SENT", "SKIPPED"})
  /\ messages \in Table(0..2)
  /\ faults = 0 => \A o \in Orders, e \in Events, t \in Tiers : OneHolder(o, e, t)

Written(table, o, e, t, s) == [table EXCEPT ![o][e][t] = s]

(* An entry of one of the two tables is written.                           *)
LEMMA OneRung ==
  ASSUME NEW S, NEW table \in Table(S), NEW o, NEW e, NEW t, NEW s,
         o \in Orders /\ e \in Events /\ t \in Tiers => s \in S
  PROVE  /\ Written(table, o, e, t, s) \in Table(S)
         /\ \A p \in Orders, f \in Events, u \in Tiers :
              Written(table, o, e, t, s)[p][f][u] =
                IF p = o /\ f = e /\ u = t THEN s ELSE table[p][f][u]
<1> DEFINE inner == [table[o] EXCEPT ![e][t] = s]
           row == [table[o][e] EXCEPT ![t] = s]
<1>1. CASE o \in Orders /\ e \in Events /\ t \in Tiers
  <2>1. table[o] \in [Events -> [Tiers -> S]] /\ table[o][e] \in [Tiers -> S]
    BY <1>1 DEF Table
  <2>2. row \in [Tiers -> S] /\ \A u \in Tiers : row[u] = IF u = t THEN s ELSE table[o][e][u]
    BY <1>1, <2>1
  <2>3. inner = [table[o] EXCEPT ![e] = row]
    OBVIOUS
  <2> HIDE DEF row
  <2>4. /\ inner \in [Events -> [Tiers -> S]]
        /\ \A f \in Events : inner[f] = IF f = e THEN row ELSE table[o][f]
    BY <1>1, <2>1, <2>2, <2>3
  <2>5. Written(table, o, e, t, s) = [table EXCEPT ![o] = inner]
    BY DEF Written
  <2> HIDE DEF inner
  <2>6. /\ [table EXCEPT ![o] = inner] \in Table(S)
        /\ \A p \in Orders : [table EXCEPT ![o] = inner][p] = IF p = o THEN inner ELSE table[p]
    BY <1>1, <2>4 DEF Table
  <2> QED
    BY <2>2, <2>4, <2>5, <2>6
<1>2. CASE o \notin Orders
  <2>1. Written(table, o, e, t, s) = table
    BY <1>2 DEF Table, Written
  <2> QED
    BY <1>2, <2>1
<1>3. CASE o \in Orders /\ e \notin Events
  <2>1. inner = table[o]
    BY <1>3 DEF Table
  <2>2. Written(table, o, e, t, s) = [table EXCEPT ![o] = inner]
    BY DEF Written
  <2> HIDE DEF inner
  <2>3. Written(table, o, e, t, s) = table
    BY <1>3, <2>1, <2>2 DEF Table
  <2> QED
    BY <1>3, <2>3
<1>4. CASE o \in Orders /\ e \in Events /\ t \notin Tiers
  <2>1. table[o] \in [Events -> [Tiers -> S]] /\ table[o][e] \in [Tiers -> S]
    BY <1>4 DEF Table
  <2>2. row = table[o][e]
    BY <1>4, <2>1
  <2>3. inner = [table[o] EXCEPT ![e] = row]
    OBVIOUS
  <2> HIDE DEF row
  <2>4. inner = table[o]
    BY <1>4, <2>1, <2>2, <2>3
  <2>5. Written(table, o, e, t, s) = [table EXCEPT ![o] = inner]
    BY DEF Written
  <2> HIDE DEF inner
  <2>6. Written(table, o, e, t, s) = table
    BY <1>4, <2>4, <2>5 DEF Table
  <2> QED
    BY <1>4, <2>6
<1> QED
  BY <1>1, <1>2, <1>3, <1>4

(* One walker takes a step.                                                *)
LEMMA OneWalks ==
  ASSUME RungInv, NEW w \in Workers, NEW state, DOMAIN state = Doing,
         state.outcome \in {"none", "SENT", "SKIPPED"},
         worker' = [worker EXCEPT ![w] = state]
  PROVE  /\ worker' \in [Workers -> {worker'[v] : v \in Workers}] /\ Walking'
         /\ worker'[w] = state
         /\ \A v \in Workers \ {w} : worker'[v] = worker[v]
<1>1. worker'[w] = state /\ \A v \in Workers \ {w} : worker'[v] = worker[v]
  BY DEF RungInv
<1>2. DOMAIN worker' = Workers /\ worker' = [v \in Workers |-> worker'[v]]
  BY DEF RungInv
<1>3. worker' \in [Workers -> {worker'[v] : v \in Workers}]
  BY <1>2
<1>4. Walking'
  BY <1>1 DEF RungInv, Walking
<1> QED
  BY <1>1, <1>3, <1>4

(* A walker that has no rung in hand before or after disturbs nobody.      *)
LEMMA EmptyHanded ==
  ASSUME RungInv, NEW w \in Workers, NEW state, DOMAIN state = Doing,
         state.outcome \in {"none", "SENT", "SKIPPED"},
         worker' = [worker EXCEPT ![w] = state],
         worker[w].pc \notin {"send", "record"}, state.pc \notin {"send", "record"},
         UNCHANGED <<note, messages, faults>>
  PROVE  RungInv'
<1>1. /\ worker' \in [Workers -> {worker'[v] : v \in Workers}] /\ Walking'
      /\ worker'[w] = state
      /\ \A v \in Workers \ {w} : worker'[v] = worker[v]
  BY OneWalks
<1>2. ASSUME NEW v \in Workers, NEW o, NEW e, NEW t
      PROVE  /\ Holds(v, o, e, t)' <=> Holds(v, o, e, t)
             /\ Sending(v, o, e, t)' <=> Sending(v, o, e, t)
  BY <1>1 DEF Holds, Sending, Hand, Event, Tier, Sweep
<1>3. faults' = 0 => \A o \in Orders, e \in Events, t \in Tiers : OneHolder(o, e, t)'
  BY <1>2 DEF RungInv, OneHolder
<1> QED
  BY <1>1, <1>3 DEF RungInv

(* The states a walk goes through.                                         *)
LEMMA SweepStarts ==
  ASSUME NEW n
  PROVE  DOMAIN AtSweep(n) = Doing /\ AtSweep(n).pc = "select" /\ AtSweep(n).outcome = "none"
BY DEF AtSweep, Doing

LEMMA SelectKeeps ==
  ASSUME RungInv, NEW w \in Workers, NEW q, worker[w].pc = "select",
         Then(w, [worker[w] EXCEPT !.pc = "next", !.todo = q]),
         UNCHANGED <<note, messages, faults>>
  PROVE  RungInv'
<1> DEFINE state == [worker[w] EXCEPT !.pc = "next", !.todo = q]
<1>1. DOMAIN worker[w] = Doing /\ worker[w].outcome \in {"none", "SENT", "SKIPPED"}
  BY DEF RungInv, Walking
<1>2. DOMAIN state = Doing /\ state.outcome = worker[w].outcome /\ state.pc = "next"
  BY <1>1 DEF Doing
<1>3. worker' = [worker EXCEPT ![w] = state]
  BY DEF Then
<1> HIDE DEF state
<1> QED
  BY <1>1, <1>2, <1>3, EmptyHanded

LEMMA NextOrderKeeps ==
  ASSUME RungInv, NEW w \in Workers, NextOrder(w)
  PROVE  RungInv'
<1> DEFINE todo == worker[w].todo
           told == [worker[w] EXCEPT !.pc = "sent?", !.todo = Tail(todo),
                                     !.hand = Head(todo), !.rung = 1]
           gone == [worker[w] EXCEPT !.todo = Tail(todo)]
<1>1. DOMAIN worker[w] = Doing /\ worker[w].outcome \in {"none", "SENT", "SKIPPED"}
  BY DEF RungInv, Walking
<1>2. worker[w].pc = "next" /\ UNCHANGED <<note, messages, faults>>
  BY DEF NextOrder, At
<1>3. DOMAIN told = Doing /\ told.outcome = worker[w].outcome /\ told.pc = "sent?"
  BY <1>1 DEF Doing
<1>4. DOMAIN gone = Doing /\ gone.outcome = worker[w].outcome /\ gone.pc = "next"
  BY <1>1, <1>2 DEF Doing
<1>5. worker' = [worker EXCEPT ![w] = told] \/ worker' = [worker EXCEPT ![w] = gone]
  BY DEF NextOrder, Then
<1> HIDE DEF told, gone
<1> QED
  BY <1>1, <1>2, <1>3, <1>4, <1>5, EmptyHanded

LEMMA EndSweepKeeps ==
  ASSUME RungInv, NEW w \in Workers, EndSweep(w)
  PROVE  RungInv'
<1>1. /\ worker[w].pc = "next" /\ UNCHANGED <<note, messages, faults>>
      /\ worker' = [worker EXCEPT ![w] = NextSweep(w)]
  BY DEF EndSweep, At, Then
<1>2. /\ DOMAIN NextSweep(w) = Doing /\ NextSweep(w).pc = "select"
      /\ NextSweep(w).outcome = "none"
  BY SweepStarts DEF NextSweep
<1> QED
  BY <1>1, <1>2, EmptyHanded

(* Where a walk goes from a rung.                                          *)
LEMMA Onwards ==
  ASSUME RungInv, NEW w \in Workers, NEW state \in {Forward(w), NextRung(w)}
  PROVE  /\ DOMAIN state = Doing /\ state.outcome = "none"
         /\ state.pc \in {"next", "claim"}
<1>1. DOMAIN worker[w] = Doing
  BY DEF RungInv, Walking
<1>2. /\ DOMAIN Forward(w) = Doing /\ Forward(w).outcome = "none"
      /\ Forward(w).pc = "next"
  BY <1>1 DEF Forward, Doing
<1> DEFINE up == [worker[w] EXCEPT !.pc = "claim", !.rung = @ + 1, !.outcome = "none"]
<1>3. DOMAIN up = Doing /\ up.outcome = "none" /\ up.pc = "claim"
  BY <1>1 DEF Doing
<1>4. NextRung(w) \in {Forward(w), up}
  BY DEF NextRung
<1> HIDE DEF up
<1> QED
  BY <1>2, <1>3, <1>4

LEMMA CheckSentKeeps ==
  ASSUME RungInv, NEW w \in Workers, CheckSent(w)
  PROVE  RungInv'
<1> DEFINE state == [worker[w] EXCEPT !.pc = "claim"]
<1>1. worker[w].pc = "sent?" /\ UNCHANGED <<note, messages, faults>>
  BY DEF CheckSent, At
<1>2. worker' = [worker EXCEPT ![w] = Forward(w)] \/ worker' = [worker EXCEPT ![w] = state]
  BY DEF CheckSent, Then
<1>3. DOMAIN worker[w] = Doing /\ worker[w].outcome \in {"none", "SENT", "SKIPPED"}
  BY DEF RungInv, Walking
<1>4. DOMAIN state = Doing /\ state.outcome = worker[w].outcome /\ state.pc = "claim"
  BY <1>3 DEF Doing
<1> HIDE DEF state
<1> QED
  BY <1>1, <1>2, <1>3, <1>4, Onwards, EmptyHanded

(* A free rung is claimed: nobody has it in hand, and nothing was sent on  *)
(* it yet.                                                                 *)
LEMMA ClaimKeeps ==
  ASSUME RungInv, NEW w \in Workers, Claim(w)
  PROVE  RungInv'
<1> DEFINE o == Hand(w)
           e == Event(w)
           t == Tier(w)
           row == note[o][e][t]
           mark == IF row = "none" THEN "QUEUED" ELSE row
           send == [worker[w] EXCEPT !.pc = "send"]
           skip == [worker[w] EXCEPT !.pc = "record", !.outcome = "SKIPPED"]
           state == IF Available(o, e, t) THEN send ELSE skip
<1>1. worker[w].pc = "claim" /\ UNCHANGED <<messages, faults>>
  BY DEF Claim, At
<1>2. DOMAIN worker[w] = Doing /\ worker[w].outcome \in {"none", "SENT", "SKIPPED"}
  BY DEF RungInv, Walking
<1>3. CASE Claimable(row)
  <2>1. /\ note' = [note EXCEPT ![o][e][t] = mark]
        /\ worker' = [worker EXCEPT ![w] = state]
    BY <1>3 DEF Claim, Then
  <2>2. /\ DOMAIN send = Doing /\ send.outcome = worker[w].outcome /\ send.pc = "send"
        /\ send.hand = worker[w].hand /\ send.sweep = worker[w].sweep
        /\ send.rung = worker[w].rung
    BY <1>2 DEF Doing
  <2>3. /\ DOMAIN skip = Doing /\ skip.outcome = "SKIPPED" /\ skip.pc = "record"
        /\ skip.hand = worker[w].hand /\ skip.sweep = worker[w].sweep
        /\ skip.rung = worker[w].rung
    BY <1>2 DEF Doing
  <2> HIDE DEF send, skip
  <2>4. /\ DOMAIN state = Doing /\ state.outcome \in {"none", "SENT", "SKIPPED"}
        /\ state.pc \in {"send", "record"}
        /\ state.pc = "record" => state.outcome = "SKIPPED"
        /\ state.hand = worker[w].hand /\ state.sweep = worker[w].sweep
        /\ state.rung = worker[w].rung
    BY <1>2, <2>2, <2>3
  <2> HIDE DEF state
  <2>5. /\ worker' \in [Workers -> {worker'[v] : v \in Workers}] /\ Walking'
        /\ worker'[w] = state
        /\ \A v \in Workers \ {w} : worker'[v] = worker[v]
    BY <2>1, <2>4, OneWalks
  <2>6. row \in {"none", "stale"} /\ mark \in {"QUEUED", "stale"}
    BY <1>3 DEF Claimable
  <2>7. /\ note' \in Table({"none", "QUEUED", "stale", "SENT", "SKIPPED"})
        /\ \A p \in Orders, f \in Events, u \in Tiers :
             note'[p][f][u] = IF p = o /\ f = e /\ u = t THEN mark ELSE note[p][f][u]
    <3> HIDE DEF o, e, t, mark
    <3>1. mark \in {"none", "QUEUED", "stale", "SENT", "SKIPPED"}
      BY <2>6
    <3>2. note \in Table({"none", "QUEUED", "stale", "SENT", "SKIPPED"})
      BY DEF RungInv
    <3> DEFINE S == {"none", "QUEUED", "stale", "SENT", "SKIPPED"}
    <3>3. note \in Table(S) /\ mark \in S
      BY <3>1, <3>2
    <3> HIDE DEF S
    <3>4. /\ Written(note, o, e, t, mark) \in Table(S)
          /\ \A p \in Orders, f \in Events, u \in Tiers :
               Written(note, o, e, t, mark)[p][f][u] =
                 IF p = o /\ f = e /\ u = t THEN mark ELSE note[p][f][u]
      BY <3>3, OneRung
    <3> QED
      BY <2>1, <3>4 DEF S, Written
  <2>8. Hand(w)' = o /\ Event(w)' = e /\ Tier(w)' = t
    BY <2>4, <2>5 DEF Hand, Event, Tier, Sweep
  <2>9. ASSUME NEW v \in Workers \ {w}, NEW p, NEW f, NEW u
        PROVE  /\ Holds(v, p, f, u)' <=> Holds(v, p, f, u)
               /\ Sending(v, p, f, u)' <=> Sending(v, p, f, u)
    BY <2>5 DEF Holds, Sending, Hand, Event, Tier, Sweep
  <2>10. \A p, f, u : /\ Holds(w, p, f, u)' <=> p = o /\ f = e /\ u = t
                      /\ ~Holds(w, p, f, u) /\ ~Sending(w, p, f, u)
    BY <1>1, <2>4, <2>5, <2>8 DEF Holds, Sending
  <2>11. ASSUME faults' = 0, NEW p \in Orders, NEW f \in Events, NEW u \in Tiers
         PROVE  OneHolder(p, f, u)'
    <3>1. OneHolder(p, f, u)
      BY <1>1, <2>11 DEF RungInv
    <3> HIDE DEF o, e, t, mark, row
    <3>2. CASE p = o /\ f = e /\ u = t
      <4>1. row = "none" /\ mark = "QUEUED"
        BY <2>6, <3>1, <3>2 DEF OneHolder, row, mark
      <4>2. \A v \in Workers : ~Holds(v, p, f, u) /\ ~Sending(v, p, f, u)
        BY <3>1, <3>2, <4>1 DEF OneHolder, Sending, row
      <4>3. messages[p][f][u] = 0
        BY <3>1, <3>2, <4>1, <4>2 DEF OneHolder, row
      <4>4. note'[p][f][u] = "QUEUED" /\ messages'[p][f][u] = 0
        BY <1>1, <2>7, <3>2, <4>1, <4>3
      <4>5. \A v \in Workers : Holds(v, p, f, u)' <=> v = w
        BY <2>9, <2>10, <3>2, <4>2
      <4> QED
        BY <4>4, <4>5 DEF OneHolder
    <3>3. CASE ~(p = o /\ f = e /\ u = t)
      <4>1. note'[p][f][u] = note[p][f][u] /\ messages'[p][f][u] = messages[p][f][u]
        BY <1>1, <2>7, <3>3
      <4>2. \A v \in Workers : /\ Holds(v, p, f, u)' <=> Holds(v, p, f, u)
                               /\ Sending(v, p, f, u)' <=> Sending(v, p, f, u)
        BY <2>9, <2>10, <3>3 DEF Sending
      <4> QED
        BY <3>1, <4>1, <4>2 DEF OneHolder
    <3> QED
      BY <3>2, <3>3
  <2> QED
    BY <1>1, <2>5, <2>7, <2>11 DEF RungInv
<1>4. CASE ~Claimable(row)
  <2>1. UNCHANGED note /\ worker' = [worker EXCEPT ![w] = NextRung(w)]
    BY <1>4 DEF Claim, Then
  <2> QED
    BY <1>1, <2>1, Onwards, EmptyHanded
<1> QED
  BY <1>3, <1>4

(* Who sends has the rung in hand, and had not sent before.                *)
LEMMA SendKeeps ==
  ASSUME RungInv, NEW w \in Workers, SendOn(w)
  PROVE  RungInv'
<1> DEFINE o == Hand(w)
           e == Event(w)
           t == Tier(w)
           sent == UpToTwo(messages[o][e][t])
           state == [worker[w] EXCEPT !.pc = "record", !.outcome = "SENT"]
<1>1. /\ worker[w].pc = "send" /\ UNCHANGED <<note, faults>>
      /\ messages' = [messages EXCEPT ![o][e][t] = sent]
      /\ worker' = [worker EXCEPT ![w] = state]
  BY DEF SendOn, At, Then
<1>2. DOMAIN worker[w] = Doing
  BY DEF RungInv, Walking
<1>3. /\ DOMAIN state = Doing /\ state.outcome = "SENT" /\ state.pc = "record"
      /\ state.hand = worker[w].hand /\ state.sweep = worker[w].sweep
      /\ state.rung = worker[w].rung
  BY <1>2 DEF Doing
<1> HIDE DEF state
<1>4. /\ worker' \in [Workers -> {worker'[v] : v \in Workers}] /\ Walking'
      /\ worker'[w] = state
      /\ \A v \in Workers \ {w} : worker'[v] = worker[v]
  BY <1>1, <1>3, OneWalks
<1>5. o \in Orders /\ e \in Events /\ t \in Tiers =>
        messages[o][e][t] \in 0..2 /\ sent \in 0..2
             /\ (messages[o][e][t] = 0 => sent = 1)
  BY DEF RungInv, Table, UpToTwo
<1> HIDE DEF o, e, t, sent
<1>6. /\ messages' \in Table(0..2)
      /\ \A p \in Orders, f \in Events, u \in Tiers :
           messages'[p][f][u] = IF p = o /\ f = e /\ u = t THEN sent ELSE messages[p][f][u]
  <2>1. messages \in Table(0..2)
    BY DEF RungInv
  <2>2. /\ Written(messages, o, e, t, sent) \in Table(0..2)
        /\ \A p \in Orders, f \in Events, u \in Tiers :
             Written(messages, o, e, t, sent)[p][f][u] =
               IF p = o /\ f = e /\ u = t THEN sent ELSE messages[p][f][u]
    BY <1>5, <2>1, OneRung
  <2> QED
    BY <1>1, <2>2 DEF Written
<1>7. ASSUME NEW v \in Workers, NEW p, NEW f, NEW u
      PROVE  /\ Holds(v, p, f, u)' <=> Holds(v, p, f, u)
             /\ Sending(v, p, f, u) => Sending(v, p, f, u)'
             /\ Sending(w, p, f, u)' <=> Holds(w, p, f, u)
             /\ Holds(w, p, f, u) <=> p = o /\ f = e /\ u = t
             /\ ~Sending(w, p, f, u)
  BY <1>1, <1>3, <1>4 DEF Holds, Sending, Hand, Event, Tier, Sweep, o, e, t
<1>8. ASSUME faults' = 0, NEW p \in Orders, NEW f \in Events, NEW u \in Tiers
      PROVE  OneHolder(p, f, u)'
  <2>1. OneHolder(p, f, u)
    BY <1>1, <1>8 DEF RungInv
  <2>2. CASE p = o /\ f = e /\ u = t
    <3>1. Holds(w, p, f, u)
      BY <1>7, <2>2
    <3>2. note[p][f][u] = "QUEUED" /\ \A v \in Workers : ~Sending(v, p, f, u)
      BY <1>7, <2>1, <3>1 DEF OneHolder, Sending
    <3>3. messages[p][f][u] = 0
      BY <2>1, <3>2 DEF OneHolder
    <3>4. messages'[p][f][u] = 1
      BY <1>5, <1>6, <2>2, <3>3
    <3>5. Sending(w, p, f, u)'
      BY <1>7, <3>1
    <3> QED
      BY <1>1, <1>7, <2>1, <3>4, <3>5 DEF OneHolder
  <2>3. CASE ~(p = o /\ f = e /\ u = t)
    <3>1. messages'[p][f][u] = messages[p][f][u]
      BY <1>6, <2>3
    <3> QED
      BY <1>1, <1>7, <2>1, <3>1 DEF OneHolder
  <2> QED
    BY <2>2, <2>3
<1> QED
  BY <1>1, <1>4, <1>6, <1>8 DEF RungInv

(* Who records puts the rung down; if anything was sent on it, it was by   *)
(* this walker, and the row says so from now on.                           *)
LEMMA RecordKeeps ==
  ASSUME RungInv, NEW w \in Workers, Record(w)
  PROVE  RungInv'
<1> DEFINE o == Hand(w)
           e == Event(w)
           t == Tier(w)
           outcome == worker[w].outcome
           state == IF outcome = "SENT" THEN Forward(w) ELSE NextRung(w)
<1>1. /\ worker[w].pc = "record" /\ UNCHANGED <<messages, faults>>
      /\ note' = [note EXCEPT ![o][e][t] = outcome]
      /\ worker' = [worker EXCEPT ![w] = state]
  BY DEF Record, At, Then
<1>2. outcome \in {"none", "SENT", "SKIPPED"}
  BY DEF RungInv, Walking
<1>3. DOMAIN state = Doing /\ state.outcome = "none" /\ state.pc \in {"next", "claim"}
  BY Onwards
<1>4. \A p, f, u : /\ Holds(w, p, f, u) <=> p = o /\ f = e /\ u = t
                   /\ Sending(w, p, f, u) <=> Holds(w, p, f, u) /\ outcome = "SENT"
  BY <1>1 DEF Holds, Sending
<1> HIDE DEF state
<1>5. /\ worker' \in [Workers -> {worker'[v] : v \in Workers}] /\ Walking'
      /\ worker'[w] = state
      /\ \A v \in Workers \ {w} : worker'[v] = worker[v]
  BY <1>1, <1>3, OneWalks
<1> HIDE DEF o, e, t, outcome
<1>6. /\ note' \in Table({"none", "QUEUED", "stale", "SENT", "SKIPPED"})
      /\ \A p \in Orders, f \in Events, u \in Tiers :
           note'[p][f][u] = IF p = o /\ f = e /\ u = t THEN outcome ELSE note[p][f][u]
  <2> DEFINE S == {"none", "QUEUED", "stale", "SENT", "SKIPPED"}
  <2>1. note \in Table(S) /\ outcome \in S
    BY <1>2 DEF RungInv
  <2> HIDE DEF S
  <2>2. /\ Written(note, o, e, t, outcome) \in Table(S)
        /\ \A p \in Orders, f \in Events, u \in Tiers :
             Written(note, o, e, t, outcome)[p][f][u] =
               IF p = o /\ f = e /\ u = t THEN outcome ELSE note[p][f][u]
    BY <2>1, OneRung
  <2> QED
    BY <1>1, <2>2 DEF S, Written
<1>7. ASSUME NEW p, NEW f, NEW u
      PROVE  /\ ~Holds(w, p, f, u)'
             /\ \A v \in Workers \ {w} :
                  /\ Holds(v, p, f, u)' <=> Holds(v, p, f, u)
                  /\ Sending(v, p, f, u)' <=> Sending(v, p, f, u)
  BY <1>3, <1>5 DEF Holds, Sending, Hand, Event, Tier, Sweep
<1>8. ASSUME faults' = 0, NEW p \in Orders, NEW f \in Events, NEW u \in Tiers
      PROVE  OneHolder(p, f, u)'
  <2>1. OneHolder(p, f, u)
    BY <1>1, <1>8 DEF RungInv
  <2>2. CASE p = o /\ f = e /\ u = t
    <3>1. /\ Holds(w, p, f, u) /\ note[p][f][u] = "QUEUED"
          /\ \A v \in Workers \ {w} : ~Holds(v, p, f, u)
      BY <1>4, <2>1, <2>2 DEF OneHolder
    <3>2. messages[p][f][u] = 1 => outcome = "SENT"
      BY <1>4, <2>1, <3>1 DEF OneHolder, Sending
    <3>3. note'[p][f][u] = outcome /\ messages' = messages
      BY <1>1, <1>6, <2>2
    <3>4. \A v \in Workers : ~Holds(v, p, f, u)'
      BY <1>7, <3>1
    <3> QED
      BY <1>2, <2>1, <3>2, <3>3, <3>4 DEF OneHolder
  <2>3. CASE ~(p = o /\ f = e /\ u = t)
    <3>1. note'[p][f][u] = note[p][f][u] /\ messages' = messages
      BY <1>1, <1>6, <2>3
    <3>2. \A v \in Workers : /\ Holds(v, p, f, u)' <=> Holds(v, p, f, u)
                             /\ Sending(v, p, f, u)' <=> Sending(v, p, f, u)
      <4>1. ~Holds(w, p, f, u) /\ ~Holds(w, p, f, u)'
        BY <1>4, <1>7, <2>3
      <4>2. ~Sending(w, p, f, u) /\ ~Sending(w, p, f, u)'
        BY <4>1 DEF Sending
      <4> QED
        BY <1>7, <4>1, <4>2
    <3> QED
      BY <2>1, <3>1, <3>2 DEF OneHolder
  <2> QED
    BY <2>2, <2>3
<1> QED
  BY <1>1, <1>5, <1>6, <1>8 DEF RungInv

(* A death or an exception: from here on nothing is promised.              *)
LEMMA FaultKeeps ==
  ASSUME RungInv, NEW w \in Workers, Throw(w) \/ Crash(w)
  PROVE  RungInv'
<1>1. PICK n : worker' = [worker EXCEPT ![w] = AtSweep(n)]
  BY DEF Throw, Crash, Then, NextSweep
<1>2. /\ DOMAIN AtSweep(n) = Doing /\ AtSweep(n).outcome \in {"none", "SENT", "SKIPPED"}
  BY SweepStarts
<1>3. worker' \in [Workers -> {worker'[v] : v \in Workers}] /\ Walking'
  BY <1>1, <1>2, OneWalks
<1>4. faults' = faults + 1 /\ UNCHANGED <<note, messages>>
  BY DEF Throw, Crash
<1>5. faults' \in Nat /\ faults' # 0
  BY <1>4 DEF RungInv
<1> QED
  BY <1>3, <1>4, <1>5 DEF RungInv

(* While nobody dies a claim is in somebody's hand, and a prompt one is    *)
(* not stale.                                                              *)
LEMMA StaleKeeps ==
  ASSUME RungInv, Prompt, NEW o \in Orders, NEW e \in Events, NEW t \in Tiers,
         GoStale(o, e, t)
  PROVE  RungInv'
<1>1. /\ note[o][e][t] = "QUEUED" /\ ~InHand(o, e, t)
      /\ note' = [note EXCEPT ![o][e][t] = "stale"]
      /\ UNCHANGED <<messages, worker, faults>>
  BY DEF GoStale
<1>2. faults # 0
  <2> SUFFICES ASSUME faults = 0 PROVE FALSE
    OBVIOUS
  <2>1. \E w \in Workers : Holds(w, o, e, t)
    BY <1>1 DEF RungInv, OneHolder
  <2> QED
    BY <1>1, <2>1 DEF InHand, Holds
<1>3. note' \in Table({"none", "QUEUED", "stale", "SENT", "SKIPPED"})
  <2> DEFINE S == {"none", "QUEUED", "stale", "SENT", "SKIPPED"}
  <2>1. note \in Table(S) /\ "stale" \in S
    BY DEF RungInv
  <2> HIDE DEF S
  <2>2. Written(note, o, e, t, "stale") \in Table(S)
    BY <2>1, OneRung
  <2> QED
    BY <1>1, <2>2 DEF S, Written
<1>4. worker' \in [Workers -> {worker'[v] : v \in Workers}] /\ Walking'
  BY <1>1 DEF RungInv, Walking
<1> QED
  BY <1>1, <1>2, <1>3, <1>4 DEF RungInv

LEMMA RungInvRests ==
  ASSUME RungInv, UNCHANGED <<note, messages, worker, faults>>
  PROVE  RungInv'
<1>1. worker' \in [Workers -> {worker'[v] : v \in Workers}] /\ Walking'
  BY DEF RungInv, Walking
<1>2. ASSUME NEW o \in Orders, NEW e \in Events, NEW t \in Tiers, OneHolder(o, e, t)
      PROVE  OneHolder(o, e, t)'
  BY <1>2 DEF OneHolder, Holds, Sending, Hand, Event, Tier, Sweep
<1> QED
  BY <1>1, <1>2 DEF RungInv

(* notification.repository.ts:4: as long as a send takes less time than it *)
(* takes a claim to go stale, and nobody dies or throws on the way, no     *)
(* event is sent twice on one channel, for any number of replicas, orders  *)
(* and rungs.                                                              *)
THEOREM ToldOncePerTier == ASSUME Prompt PROVE WorkerSpec => []OncePerTier
<1>1. WorkerInit => RungInv
  <2> SUFFICES ASSUME WorkerInit PROVE RungInv
    OBVIOUS
  <2>1. \A w \in Workers : worker[w] = AtSweep(1)
    BY DEF WorkerInit
  <2>2. Walking
    BY <2>1, SweepStarts DEF Walking
  <2>3. worker \in [Workers -> {worker[w] : w \in Workers}]
    BY DEF WorkerInit
  <2>4. note \in Table({"none", "QUEUED", "stale", "SENT", "SKIPPED"})
        /\ messages \in Table(0..2)
    BY DEF WorkerInit, Table
  <2>5. \A w \in Workers : \A o, e, t : ~Holds(w, o, e, t)
    BY <2>1, SweepStarts DEF Holds
  <2>6. \A o \in Orders, e \in Events, t \in Tiers :
          note[o][e][t] = "none" /\ messages[o][e][t] = 0
    BY DEF WorkerInit
  <2>7. \A o \in Orders, e \in Events, t \in Tiers : OneHolder(o, e, t)
    BY <2>5, <2>6 DEF OneHolder
  <2> QED
    BY <2>2, <2>3, <2>4, <2>7 DEF RungInv, WorkerInit
<1>2. RungInv /\ [WorkerNext]_workerVars => RungInv'
  <2> SUFFICES ASSUME RungInv, [WorkerNext]_workerVars PROVE RungInv'
    OBVIOUS
  <2>1. ASSUME NEW w \in Workers, Work(w) PROVE RungInv'
    <3>1. CASE SelectPending(w) \/ SelectOverdue(w) \/ SelectReady(w)
      <4>1. /\ worker[w].pc = "select" /\ UNCHANGED <<note, messages, faults>>
            /\ \E q : Then(w, [worker[w] EXCEPT !.pc = "next", !.todo = q])
        BY <3>1 DEF SelectPending, SelectOverdue, SelectReady, At
      <4> QED
        BY <4>1, SelectKeeps
    <3> QED
      BY <2>1, <3>1, NextOrderKeeps, EndSweepKeeps, CheckSentKeeps, ClaimKeeps, SendKeeps,
         RecordKeeps DEF Work
  <2>2. CASE \E o \in Orders : KitchenMove(o)
    BY <2>2, RungInvRests DEF KitchenMove
  <2>3. CASE HourPasses
    BY <2>3, RungInvRests DEF HourPasses
  <2>4. CASE UNCHANGED workerVars
    BY <2>4, RungInvRests DEF workerVars
  <2> QED
    BY <2>1, <2>2, <2>3, <2>4, FaultKeeps, StaleKeeps DEF WorkerNext
<1>3. RungInv => OncePerTier
  <2> SUFFICES ASSUME RungInv, faults = 0, NEW o \in Orders, NEW e \in Events, NEW t \in Tiers
               PROVE  messages[o][e][t] <= 1
    BY DEF OncePerTier
  <2>1. messages[o][e][t] \in {0, 1}
    BY DEF RungInv, OneHolder
  <2> QED
    BY <2>1
<1> QED
  BY <1>1, <1>2, <1>3, PTL DEF WorkerSpec

-----------------------------------------------------------------------------
(* The hours.  What the page says is kept true by the clock alone, so the  *)
(* work is in what is said: that the stretches currentClose merges are the *)
(* spans run together.  The merge is a loop over a sorted sequence; what   *)
(* it has after each span is shown by a smallest counterexample.           *)

(* A set of numbers has a smallest.                                        *)
LEMMA SmallestNumber ==
  ASSUME NEW T, T \subseteq Nat, T # {}
  PROVE  \E m \in T : \A n \in T : m <= n
<1>1. PICK m \in T : \A n \in T : ~(<<n, m>> \in OpToRel(<, Nat))
  BY WFMin, NatLessThanWellFounded, Zenon
<1>2. \A n \in T : ~(n < m)
  BY <1>1 DEF OpToRel
<1> QED
  BY <1>2

SpanTypes == [from : Int, to : Int]

(* A span merged in leaves a sequence of stretches.                        *)
LEMMA MergedTypes ==
  ASSUME NEW m \in Seq(SpanTypes), NEW s \in SpanTypes
  PROVE  Merge(m, s) \in Seq(SpanTypes)
<1>1. CASE m # <<>> /\ s.from <= Last(m).to
  <2>1. Len(m) \in 1..Len(m)
    BY <1>1
  <2>2. m[Len(m)] \in SpanTypes
    BY <2>1
  <2>3. [m[Len(m)] EXCEPT !.to = IF s.to > m[Len(m)].to THEN s.to ELSE m[Len(m)].to] \in SpanTypes
    BY <2>2 DEF SpanTypes
  <2>4. Merge(m, s) = [m EXCEPT ![Len(m)] = 
           [m[Len(m)] EXCEPT !.to = IF s.to > m[Len(m)].to THEN s.to ELSE m[Len(m)].to]]
    BY <1>1, <2>1 DEF Merge
  <2> QED
    BY <2>3, <2>4, ReplacedElement
<1>2. CASE ~(m # <<>> /\ s.from <= Last(m).to)
  BY <1>2 DEF Merge
<1> QED
  BY <1>1, <1>2

(* The largest of the first numbers.                                       *)
LEMMA LastOfInterval ==
  ASSUME NEW k \in Nat \ {0}
  PROVE  Max(1..k) = k
BY DEF Max

(* The loop over the spans, as a recursion over the sets of positions      *)
(* still to come, and that there is a function that satisfies it.          *)
Steps(g, q, s) == IF s = {} THEN <<>> ELSE Merge(g[s \ {Max(s)}], q[Max(s)])
Loops(g, q) == g = [s \in SUBSET DOMAIN q |-> Steps(g, q, s)]

LEMMA LargestIsIn ==
  ASSUME NEW n \in Nat, NEW s \in SUBSET (1..n), s # {}
  PROVE  Max(s) \in s
<1> DEFINE T == {m \in Nat : \A y \in s : y <= m}
<1>2. n \in T /\ T \subseteq Nat
  OBVIOUS
<1>3. PICK m \in T : \A k \in T : m <= k
  <2> HIDE DEF T
  <2> QED
    BY <1>2, SmallestNumber
<1>4. m \in s
  <2>1. SUFFICES ASSUME m \notin s PROVE FALSE
    OBVIOUS
  <2>2. \A y \in s : y <= m - 1
    BY <2>1, <1>3
  <2>3. m # 0
    <3>1. PICK x \in s : TRUE
      OBVIOUS
    <3>2. x \in Nat /\ x <= m - 1
      BY <2>2, <3>1
    <3> QED
      BY <3>2
  <2>4. m - 1 \in T
    BY <2>2, <2>3
  <2> QED
    BY <1>3, <2>4
<1>5. \E x \in s : \A y \in s : x >= y
  BY <1>3, <1>4
<1> QED
  BY <1>5 DEF Max

LEMMA LoopExists ==
  ASSUME NEW n \in Nat, NEW q \in [1..n -> SpanTypes]
  PROVE  \E g \in [SUBSET (1..n) -> Seq(SpanTypes)] : Loops(g, q)
<1> DEFINE S == 1..n
           Fs == [SUBSET S -> Seq(SpanTypes)]
           Upto(g, k) == \A s \in SUBSET S : Cardinality(s) <= k => g[s] = Steps(g, q, s)
           T == {k \in Nat : ~\E g \in Fs : Upto(g, k)}
<1>1. IsFiniteSet(S)
  BY FS_Interval
<1>2. \A s \in SUBSET S : IsFiniteSet(s) /\ Cardinality(s) \in Nat /\ Cardinality(s) <= Cardinality(S)
  BY <1>1, FS_Subset, FS_CardinalityType
<1>3. ASSUME NEW s \in SUBSET S, s # {}
      PROVE  Max(s) \in s /\ s \ {Max(s)} \in SUBSET S /\ Cardinality(s \ {Max(s)}) = Cardinality(s) - 1
  <2>1. Max(s) \in s
    BY <1>3, LargestIsIn
  <2> QED
    BY <1>2, <2>1, FS_RemoveElement
<1>4. \A g \in Fs, s \in SUBSET S : Steps(g, q, s) \in Seq(SpanTypes)
  <2> SUFFICES ASSUME NEW g \in Fs, NEW s \in SUBSET S PROVE Steps(g, q, s) \in Seq(SpanTypes)
    OBVIOUS
  <2>1. CASE s = {}
    BY <2>1 DEF Steps
  <2>2. CASE s # {}
    <3>1. g[s \ {Max(s)}] \in Seq(SpanTypes) /\ q[Max(s)] \in SpanTypes
      BY <1>3, <2>2
    <3> QED
      BY <2>2, <3>1, MergedTypes DEF Steps
  <2> QED
    BY <2>1, <2>2
<1>5. T = {}
  <2> SUFFICES ASSUME T # {} PROVE FALSE
    OBVIOUS
  <2>1. PICK m \in T : \A k \in T : m <= k
    <3>1. T \subseteq Nat
      OBVIOUS
    <3> HIDE DEF T
    <3> QED
      BY <3>1, SmallestNumber
  <2>2. CASE m = 0
    <3> DEFINE g == [s \in SUBSET S |-> <<>>]
    <3>1. ASSUME NEW s \in SUBSET S, Cardinality(s) <= 0 PROVE g[s] = Steps(g, q, s)
      <4>1. s = {}
        BY <1>2, <3>1, FS_EmptySet
      <4> QED
        BY <4>1 DEF Steps
    <3>2. g \in Fs /\ Upto(g, 0)
      BY <3>1
    <3> QED
      BY <2>1, <2>2, <3>2
  <2>3. CASE m # 0
    <3>1. m - 1 \in Nat /\ m - 1 \notin T
      <4>1. T \subseteq Nat
        OBVIOUS
      <4> HIDE DEF T
      <4> QED
        BY <2>1, <2>3, <4>1
    <3>2. PICK g \in Fs : Upto(g, m - 1)
      BY <3>1
    <3> DEFINE h == [s \in SUBSET S |-> Steps(g, q, s)]
    <3>3. h \in Fs
      BY <1>4
    <3>4. ASSUME NEW s \in SUBSET S, Cardinality(s) <= m PROVE h[s] = Steps(h, q, s)
      <4>1. CASE s = {}
        BY <4>1 DEF Steps
      <4>2. CASE s # {}
        <5> DEFINE r == s \ {Max(s)}
        <5>1. r \in SUBSET S /\ Cardinality(r) = Cardinality(s) - 1
          BY <1>3, <4>2
        <5>2. Cardinality(r) <= m - 1
          BY <1>2, <2>1, <3>4, <5>1
        <5>3. g[r] = Steps(g, q, r)
          BY <3>2, <5>1, <5>2
        <5>4. h[r] = g[r]
          BY <5>1, <5>3
        <5> QED
          BY <4>2, <5>4 DEF Steps
      <4> QED
        BY <4>1, <4>2
    <3>5. Upto(h, m)
      BY <3>4
    <3> QED
      BY <2>1, <3>3, <3>5
  <2> QED
    BY <2>2, <2>3
<1>6. PICK g \in Fs : Upto(g, Cardinality(S))
  BY <1>2, <1>5
<1>7. \A s \in SUBSET S : g[s] = Steps(g, q, s)
  BY <1>2, <1>6
<1>8. DOMAIN q = S
  OBVIOUS
<1> QED
  BY <1>7, <1>8 DEF Loops

(* What the loop has after each span.                                      *)
LEMMA LoopOverSpans ==
  ASSUME NEW n \in Nat, NEW q \in [1..n -> SpanTypes]
  PROVE  \E m \in [0..n -> Seq(SpanTypes)] :
           /\ m[0] = <<>>
           /\ \A k \in 1..n : m[k] = Merge(m[k - 1], q[k])
           /\ FoldLeft(Merge, <<>>, q) = m[n]
<1> DEFINE G == CHOOSE g : Loops(g, q)
<1>1. Loops(G, q)
  BY LoopExists, Zenon
<1>2. FoldLeft(Merge, <<>>, q) = G[DOMAIN q]
  BY Zenon DEF FoldLeft, MapThenFoldSet, Steps, Loops
<1>3. DOMAIN q = 1..n
  OBVIOUS
<1> HIDE DEF G
<1>4. \A k \in 1..n : G[1..k] = Merge(G[1..(k - 1)], q[k])
  <2> TAKE k \in 1..n
  <2>1. 1..k \in SUBSET (1..n) /\ 1..k # {} /\ (1..k) \ {k} = 1..(k - 1)
    <3>1. k \in 1..k
      OBVIOUS
    <3>2. \A x \in 1..k : x \in 1..n
      OBVIOUS
    <3>3. \A x : x \in (1..k) \ {k} <=> x \in 1..(k - 1)
      OBVIOUS
    <3> QED
      BY <3>1, <3>2, <3>3
  <2>2. Max(1..k) = k
    BY LastOfInterval
  <2>3. G[1..k] = Steps(G, q, 1..k)
    BY <1>1, <1>3, <2>1 DEF Loops
  <2> QED
    BY <2>1, <2>2, <2>3 DEF Steps
<1>5. G[1..0] = <<>>
  <2>1. 1..0 = {}
    OBVIOUS
  <2> QED
    BY <1>1, <2>1 DEF Loops, Steps
<1> DEFINE T == {k \in Nat : k <= n /\ G[1..k] \notin Seq(SpanTypes)}
<1>6. T = {}
  <2> SUFFICES ASSUME T # {} PROVE FALSE
    OBVIOUS
  <2>1. PICK k \in T : \A j \in T : k <= j
    <3>1. T \subseteq Nat
      OBVIOUS
    <3> HIDE DEF T
    <3> QED
      BY <3>1, SmallestNumber
  <2>2. k # 0
    <3>1. <<>> \in Seq(SpanTypes)
      OBVIOUS
    <3> QED
      BY <1>5, <2>1, <3>1
  <2>3. k \in 1..n /\ k - 1 \in Nat /\ k - 1 \notin T
    <3>1. k \in Nat /\ k <= n /\ ~(k <= k - 1)
      BY <2>1
    <3>2. k - 1 \notin T
      <4> HIDE DEF T
      <4> QED
        BY <2>1, <3>1
    <3> QED
      BY <2>2, <3>1, <3>2
  <2>4. G[1..(k - 1)] \in Seq(SpanTypes)
    BY <2>3
  <2>5. q[k] \in SpanTypes
    BY <2>3
  <2> QED
    BY <1>4, <2>1, <2>3, <2>4, <2>5, MergedTypes
<1> DEFINE m == [k \in 0..n |-> G[1..k]]
<1>7. m \in [0..n -> Seq(SpanTypes)]
  BY <1>6
<1>8. \A k \in 1..n : m[k] = Merge(m[k - 1], q[k])
  <2> TAKE k \in 1..n
  <2>1. k \in 0..n /\ k - 1 \in 0..n
    OBVIOUS
  <2> QED
    BY <1>4, <2>1
<1>9. m[0] = <<>> /\ FoldLeft(Merge, <<>>, q) = m[n]
  BY <1>2, <1>3, <1>5
<1> HIDE DEF m
<1> QED
  BY <1>7, <1>8, <1>9

(* What is so of the stretches when the first k spans have been merged:    *)
(* the last one ends last and the others end before it begins, each span   *)
(* lies in one of them, each minute of one lies in a span, and where one   *)
(* ends no span goes on.                                                   *)
Stretched(m, q, k) ==
  /\ k = 0 => m = <<>>
  /\ k > 0 => m # <<>> /\ m[Len(m)].from <= q[k].from
  /\ \A j \in 1..Len(m) : /\ m[j].to <= m[Len(m)].to
                          /\ j # Len(m) => m[j].to < m[Len(m)].from
  /\ \A i \in 1..k : \E j \in 1..Len(m) : m[j].from <= q[i].from /\ q[i].to <= m[j].to
  /\ \A j \in 1..Len(m) : \A x \in Int : m[j].from <= x /\ x < m[j].to =>
       \E i \in 1..k : q[i].from <= x /\ x < q[i].to
  /\ \A j \in 1..Len(m), i \in 1..k : ~(q[i].from <= m[j].to /\ m[j].to < q[i].to)

LEMMA MergingStretches ==
  ASSUME NEW n \in Nat, NEW q \in [1..n -> SpanTypes],
         \A i \in 1..n : q[i].from < q[i].to,
         \A i, j \in 1..n : i < j => q[i].from <= q[j].from,
         NEW k \in 1..n, NEW m \in Seq(SpanTypes), Stretched(m, q, k - 1)
  PROVE  Stretched(Merge(m, q[k]), q, k)
<1> DEFINE s == q[k]
           l == m[Len(m)]
           e == Merge(m, s)
<1>1. /\ s.from \in Int /\ s.to \in Int /\ s.from < s.to
      /\ \A j \in 1..Len(m) : m[j].from \in Int /\ m[j].to \in Int
      /\ \A i \in 1..n : q[i].from \in Int /\ q[i].to \in Int
      /\ Len(m) \in Nat
  <2>1. s \in SpanTypes /\ (\A j \in 1..Len(m) : m[j] \in SpanTypes) /\ \A i \in 1..n : q[i] \in SpanTypes
    <3>1. m \in [1..Len(m) -> SpanTypes]
      OBVIOUS
    <3>2. \A j \in 1..Len(m) : m[j] \in SpanTypes
      BY <3>1
    <3>3. \A i \in 1..n : q[i] \in SpanTypes
      OBVIOUS
    <3> QED
      BY <3>2, <3>3
  <2> HIDE DEF s
  <2>2. s.from \in Int /\ s.to \in Int
    BY <2>1 DEF SpanTypes
  <2>3. \A j \in 1..Len(m) : m[j].from \in Int /\ m[j].to \in Int
    BY <2>1 DEF SpanTypes
  <2>4. \A i \in 1..n : q[i].from \in Int /\ q[i].to \in Int
    BY <2>1 DEF SpanTypes
  <2> QED
    BY <2>2, <2>3, <2>4 DEF s
<1>2. CASE m # <<>> /\ s.from <= l.to
  <2>1. Len(m) \in 1..Len(m) /\ l \in SpanTypes
    BY <1>2
  <2> DEFINE end == IF s.to > l.to THEN s.to ELSE l.to
  <2>2. e = [m EXCEPT ![Len(m)] = [l EXCEPT !.to = end]]
    BY <1>2, <2>1 DEF Merge, Last
  <2>3. /\ Len(e) = Len(m) /\ e # <<>>
        /\ \A j \in 1..Len(m) : j # Len(m) => e[j] = m[j]
        /\ e[Len(m)].from = l.from /\ e[Len(m)].to = end
    BY <2>1, <2>2 DEF SpanTypes
  <2>4. k # 1
    BY <1>2, <2>1 DEF Stretched
  <2>5. l.from <= s.from
    <3>1. k - 1 \in 1..n /\ k - 1 < k /\ k - 1 > 0
      BY <2>4
    <3>2. q[k - 1].from <= s.from
      BY <3>1
    <3>3. l.from <= q[k - 1].from
      BY <3>1 DEF Stretched
    <3> QED
      BY <1>1, <2>1, <3>1, <3>2, <3>3
  <2> HIDE DEF e
  <2>6. end \in Int /\ end >= l.to /\ end >= s.to /\ (end = l.to \/ end = s.to)
    BY <1>1, <2>1
  <2> HIDE DEF end
  <2>7. \A j \in 1..Len(e) : /\ e[j].to <= e[Len(e)].to
                             /\ j # Len(e) => e[j].to < e[Len(e)].from
    <3> TAKE j \in 1..Len(e)
    <3>1. m[j].to <= l.to /\ (j # Len(m) => m[j].to < l.from)
      BY <2>3 DEF Stretched
    <3>2. m[j].to \in Int /\ l.to \in Int /\ l.from \in Int
      BY <1>1, <2>1, <2>3
    <3>3. CASE j = Len(e)
      BY <2>3, <2>6, <3>3
    <3>4. CASE j # Len(e)
      BY <2>3, <2>6, <3>1, <3>2, <3>4
    <3> QED
      BY <3>3, <3>4
  <2>8. ASSUME NEW i \in 1..k
        PROVE  \E j \in 1..Len(e) : e[j].from <= q[i].from /\ q[i].to <= e[j].to
    <3>1. CASE i = k
      BY <1>1, <2>1, <2>3, <2>5, <2>6, <3>1
    <3>2. CASE i # k
      <4>1. PICK j \in 1..Len(m) : m[j].from <= q[i].from /\ q[i].to <= m[j].to
        <5>1. i \in 1..(k - 1)
          BY <3>2
        <5> QED
          BY <5>1 DEF Stretched
      <4>2. e[j].from = m[j].from /\ m[j].to <= e[j].to /\ e[j].to \in Int
        <5>1. CASE j = Len(m)
          BY <2>1, <2>3, <2>6, <5>1
        <5>2. CASE j # Len(m)
          BY <1>1, <2>3, <5>2
        <5> QED
          BY <5>1, <5>2
      <4>3. q[i].to \in Int /\ m[j].to \in Int
        BY <1>1
      <4>4. q[i].to <= e[j].to
        BY <4>1, <4>2, <4>3
      <4> QED
        BY <2>3, <4>1, <4>2, <4>4
    <3> QED
      BY <3>1, <3>2
  <2>9. ASSUME NEW j \in 1..Len(e), NEW x \in Int, e[j].from <= x, x < e[j].to
        PROVE  \E i \in 1..k : q[i].from <= x /\ x < q[i].to
    <3>1. CASE m[j].from <= x /\ x < m[j].to
      <4>1. PICK i \in 1..(k - 1) : q[i].from <= x /\ x < q[i].to
        BY <2>3, <3>1 DEF Stretched
      <4> QED
        BY <4>1
    <3>2. CASE ~(m[j].from <= x /\ x < m[j].to)
      <4>1. j = Len(m)
        BY <2>3, <2>9, <3>2
      <4>2. l.from \in Int /\ l.to \in Int
        BY <1>1, <2>1
      <4>3. l.from <= x /\ x < end
        BY <2>3, <2>9, <4>1
      <4>4. x >= l.to /\ x < s.to
        BY <1>1, <2>6, <3>2, <4>1, <4>2, <4>3
      <4>5. s.from <= x
        BY <1>1, <1>2, <4>2, <4>4
      <4> QED
        BY <4>4, <4>5
    <3> QED
      BY <3>1, <3>2
  <2>10. ASSUME NEW j \in 1..Len(e), NEW i \in 1..k
         PROVE  ~(q[i].from <= e[j].to /\ e[j].to < q[i].to)
    <3>1. CASE i = k
      <4>1. j # Len(m) => m[j].to < s.from
        BY <1>1, <2>1, <2>3, <2>5 DEF Stretched
      <4>2. j = Len(m) => e[j].to >= s.to
        BY <2>3, <2>6
      <4> QED
        BY <1>1, <2>3, <2>6, <3>1, <4>1, <4>2
    <3>2. CASE i # k
      <4>1. i \in 1..(k - 1)
        BY <3>2
      <4>2. CASE e[j].to = m[j].to
        BY <2>3, <4>1, <4>2 DEF Stretched
      <4>3. CASE e[j].to # m[j].to
        <5>1. j = Len(m) /\ e[j].to = end /\ end > l.to
          BY <1>1, <2>1, <2>3, <2>6, <4>3
        <5>2. PICK h \in 1..Len(m) : q[i].to <= m[h].to
          BY <4>1 DEF Stretched
        <5>3. m[h].to <= l.to
          BY DEF Stretched
        <5>4. q[i].to \in Int /\ m[h].to \in Int /\ l.to \in Int /\ e[j].to \in Int
          <6>1. i \in 1..n
            OBVIOUS
          <6>2. q[i].to \in Int
            BY <1>1, <6>1
          <6>3. m[h].to \in Int /\ l.to \in Int
            BY <1>1, <2>1
          <6>4. e[j].to \in Int
            BY <2>6, <5>1
          <6> QED
            BY <6>2, <6>3, <6>4
        <5>5. e[j].to > l.to
          BY <5>1
        <5>6. \A a, b, c, d \in Int : a <= b /\ b <= c /\ d > c => ~(d < a)
          OBVIOUS
        <5> QED
          BY <5>2, <5>3, <5>4, <5>5, <5>6
      <4> QED
        BY <4>2, <4>3
    <3> QED
      BY <3>1, <3>2
  <2>11. e # <<>> /\ e[Len(e)].from <= s.from
    BY <2>3, <2>5
  <2> QED
    BY <2>7, <2>8, <2>9, <2>10, <2>11 DEF Stretched, e
<1>3. CASE ~(m # <<>> /\ s.from <= l.to)
  <2>1. e = Append(m, s)
    BY <1>3 DEF Merge, Last
  <2>2. /\ Len(e) = Len(m) + 1 /\ e # <<>> /\ e[Len(e)] = s
        /\ \A j \in 1..Len(m) : e[j] = m[j]
        /\ 1..Len(e) = 1..Len(m) \cup {Len(e)}
    <3>1. Len(e) = Len(m) + 1 /\ e # <<>> /\ e[Len(e)] = s /\ \A j \in 1..Len(m) : e[j] = m[j]
      BY <1>1, <2>1
    <3> QED
      BY <1>1, <3>1
  <2>3. \A j \in 1..Len(m) : m[j].to < s.from
    <3> TAKE j \in 1..Len(m)
    <3>1. m # <<>> /\ Len(m) \in 1..Len(m)
      BY <1>1
    <3>2. m[j].to <= l.to
      BY DEF Stretched
    <3>3. m[j].to \in Int /\ l.to \in Int /\ s.from \in Int
      BY <1>1, <3>1
    <3>4. l.to < s.from
      BY <1>3, <3>1, <3>3
    <3> QED
      BY <3>2, <3>3, <3>4
  <2> HIDE DEF e
  <2>4. \A j \in 1..Len(e) : /\ e[j].to <= e[Len(e)].to
                             /\ j # Len(e) => e[j].to < e[Len(e)].from
    <3> TAKE j \in 1..Len(e)
    <3>1. CASE j = Len(e)
      BY <1>1, <2>2, <3>1
    <3>2. CASE j \in 1..Len(m)
      BY <1>1, <2>2, <2>3, <3>2
    <3> QED
      BY <2>2, <3>1, <3>2
  <2>5. ASSUME NEW i \in 1..k
        PROVE  \E j \in 1..Len(e) : e[j].from <= q[i].from /\ q[i].to <= e[j].to
    <3>1. CASE i = k
      <4>1. Len(e) \in 1..Len(e) /\ e[Len(e)] = q[i]
        BY <1>1, <2>2, <3>1
      <4>2. q[i].from <= q[i].from /\ q[i].to <= q[i].to
        BY <1>1
      <4> QED
        BY <4>1, <4>2
    <3>2. CASE i # k
      <4>1. PICK j \in 1..Len(m) : m[j].from <= q[i].from /\ q[i].to <= m[j].to
        <5>1. i \in 1..(k - 1)
          BY <3>2
        <5> QED
          BY <5>1 DEF Stretched
      <4>2. e[j] = m[j] /\ j \in 1..Len(e)
        BY <2>2
      <4> QED
        BY <4>1, <4>2
    <3> QED
      BY <3>1, <3>2
  <2>6. ASSUME NEW j \in 1..Len(e), NEW x \in Int, e[j].from <= x, x < e[j].to
        PROVE  \E i \in 1..k : q[i].from <= x /\ x < q[i].to
    <3>1. CASE j = Len(e)
      BY <2>2, <2>6, <3>1
    <3>2. CASE j \in 1..Len(m)
      <4>1. PICK i \in 1..(k - 1) : q[i].from <= x /\ x < q[i].to
        BY <2>2, <2>6, <3>2 DEF Stretched
      <4> QED
        BY <4>1
    <3> QED
      BY <2>2, <3>1, <3>2
  <2>7. ASSUME NEW j \in 1..Len(e), NEW i \in 1..k
        PROVE  ~(q[i].from <= e[j].to /\ e[j].to < q[i].to)
    <3>1. CASE i # k /\ j \in 1..Len(m)
      <4>1. i \in 1..(k - 1)
        BY <3>1
      <4> QED
        BY <2>2, <3>1, <4>1 DEF Stretched
    <3>2. CASE i # k /\ j = Len(e)
      <4>1. PICK h \in 1..Len(m) : q[i].to <= m[h].to
        <5>1. i \in 1..(k - 1)
          BY <3>2
        <5> QED
          BY <5>1 DEF Stretched
      <4>2. q[i].to < s.from
        BY <1>1, <2>3, <4>1
      <4> QED
        BY <1>1, <2>2, <3>2, <4>2
    <3>3. CASE i = k /\ j \in 1..Len(m)
      BY <1>1, <2>2, <2>3, <3>3
    <3>4. CASE i = k /\ j = Len(e)
      BY <1>1, <2>2, <3>4
    <3> QED
      BY <2>2, <3>1, <3>2, <3>3, <3>4
  <2>8. e # <<>> /\ e[Len(e)].from <= s.from
    BY <1>1, <2>2
  <2> QED
    BY <2>4, <2>5, <2>6, <2>7, <2>8 DEF Stretched, e
<1> QED
  BY <1>2, <1>3

LEMMA MergedStretches ==
  ASSUME NEW n \in Nat, NEW q \in [1..n -> SpanTypes],
         \A i \in 1..n : q[i].from < q[i].to,
         \A i, j \in 1..n : i < j => q[i].from <= q[j].from
  PROVE  /\ FoldLeft(Merge, <<>>, q) \in Seq(SpanTypes)
         /\ Stretched(FoldLeft(Merge, <<>>, q), q, n)
<1>1. PICK m \in [0..n -> Seq(SpanTypes)] :
             /\ m[0] = <<>>
             /\ \A k \in 1..n : m[k] = Merge(m[k - 1], q[k])
             /\ FoldLeft(Merge, <<>>, q) = m[n]
  BY LoopOverSpans
<1> DEFINE T == {k \in Nat : k <= n /\ ~Stretched(m[k], q, k)}
<1>2. T = {}
  <2> SUFFICES ASSUME T # {} PROVE FALSE
    OBVIOUS
  <2>1. PICK k \in T : \A j \in T : k <= j
    <3>1. T \subseteq Nat
      OBVIOUS
    <3> HIDE DEF T
    <3> QED
      BY <3>1, SmallestNumber
  <2>2. k # 0
    <3>1. Stretched(<<>>, q, 0)
      BY DEF Stretched
    <3> QED
      BY <1>1, <2>1, <3>1
  <2>3. k \in 1..n /\ k - 1 \in Nat /\ k - 1 \notin T
    <3>1. k \in Nat /\ k <= n /\ ~(k <= k - 1)
      BY <2>1
    <3>2. k - 1 \notin T
      <4> HIDE DEF T
      <4> QED
        BY <2>1, <3>1
    <3> QED
      BY <2>2, <3>1, <3>2
  <2>4. Stretched(m[k - 1], q, k - 1) /\ m[k - 1] \in Seq(SpanTypes)
    <3>1. k - 1 \in 0..n
      BY <2>3
    <3> QED
      BY <1>1, <2>3, <3>1
  <2>5. Stretched(m[k], q, k)
    BY <1>1, <2>3, <2>4, MergingStretches
  <2> QED
    BY <2>1, <2>5
<1>3. n \in 0..n /\ n \notin T
  BY <1>2
<1> QED
  BY <1>1, <1>3

LEMMA LastSpan ==
  ASSUME NEW S \in SUBSET SpanTypes, IsFiniteSet(S), S # {}
  PROVE  \E x \in S : \A y \in S : y.from <= x.from
<1> DEFINE Lasts(s) == \E x \in s : \A y \in s : y.from <= x.from
           T == {n \in Nat : \E s \in SUBSET S : s # {} /\ Cardinality(s) = n /\ ~Lasts(s)}
<1>1. \A s \in SUBSET S : IsFiniteSet(s) /\ Cardinality(s) \in Nat
  BY FS_Subset, FS_CardinalityType
<1>2. ASSUME T # {} PROVE FALSE
  <2>1. PICK n \in T : \A k \in T : n <= k
    <3>1. T \subseteq Nat
      OBVIOUS
    <3> HIDE DEF T
    <3> QED
      BY <1>2, <3>1, SmallestNumber
  <2>2. PICK s \in SUBSET S : s # {} /\ Cardinality(s) = n /\ ~Lasts(s)
    BY <2>1
  <2>3. PICK e \in s : TRUE
    BY <2>2
  <2> DEFINE r == s \ {e}
  <2>4. Cardinality(r) = n - 1 /\ r \in SUBSET S /\ n \in Nat /\ n - 1 \in Nat
    <3>1. IsFiniteSet(s) /\ n \in Nat
      BY <1>1, <2>2
    <3>2. Cardinality(r) = n - 1
      BY <2>2, <2>3, <3>1, FS_RemoveElement
    <3>3. Cardinality(r) \in Nat /\ r \in SUBSET S
      BY <1>1
    <3> HIDE DEF r
    <3> QED
      BY <3>1, <3>2, <3>3
  <2>5. \A x \in s : x.from \in Int
    BY DEF SpanTypes
  <2>6. n - 1 \notin T
    <3> HIDE DEF T
    <3> QED
      BY <2>1, <2>4
  <2>7. r = {} \/ Lasts(r)
    BY <2>4, <2>6
  <2>8. CASE r = {}
    <3>1. \A y \in s : y = e
      BY <2>8
    <3> QED
      BY <2>2, <2>3, <2>5, <3>1
  <2>9. CASE Lasts(r)
    <3>1. PICK x \in r : \A y \in r : y.from <= x.from
      BY <2>9
    <3>2. CASE e.from <= x.from
      <4>1. \A y \in s : y.from <= x.from
        BY <3>1, <3>2
      <4> QED
        BY <2>2, <4>1
    <3>3. CASE ~(e.from <= x.from)
      <4>1. \A y \in s : y.from <= e.from
        <5> TAKE y \in s
        <5>1. y = e \/ y \in r
          OBVIOUS
        <5>2. x.from \in Int /\ y.from \in Int /\ e.from \in Int
          BY <2>3, <2>5
        <5> QED
          BY <3>1, <3>3, <5>1, <5>2
      <4> QED
        BY <2>2, <2>3, <4>1
    <3> QED
      BY <3>2, <3>3
  <2> QED
    BY <2>7, <2>8, <2>9
<1>3. Cardinality(S) \in Nat /\ S \in SUBSET S
  BY <1>1
<1> QED
  BY <1>2, <1>3

(* Some order of the spans is by their beginning.                          *)
InOrder(q) == \A i, j \in DOMAIN q : i < j => q[i].from <= q[j].from

LEMMA CanBeSorted ==
  ASSUME NEW S \in SUBSET SpanTypes, IsFiniteSet(S)
  PROVE  \E q \in SetToSeqs(S) : InOrder(q)
<1> DEFINE Sorts(s) == \E q \in SetToSeqs(s) : InOrder(q)
           T == {n \in Nat : \E s \in SUBSET S : Cardinality(s) = n /\ ~Sorts(s)}
<1>1. \A s \in SUBSET S : IsFiniteSet(s) /\ Cardinality(s) \in Nat
  BY FS_Subset, FS_CardinalityType
<1>2. ASSUME T # {} PROVE FALSE
  <2>1. PICK n \in T : \A k \in T : n <= k
    <3>1. T \subseteq Nat
      OBVIOUS
    <3> HIDE DEF T
    <3> QED
      BY <1>2, <3>1, SmallestNumber
  <2>2. PICK s \in SUBSET S : Cardinality(s) = n /\ ~Sorts(s)
    BY <2>1
  <2>3. CASE s = {}
    <3>1. n = 0
      BY <2>2, <2>3, FS_EmptySet
    <3>2. <<>> \in SetToSeqs(s)
      BY <2>2, <3>1 DEF SetToSeqs
    <3>3. InOrder(<<>>)
      BY DEF InOrder
    <3> QED
      BY <2>2, <3>2, <3>3
  <2>4. CASE s # {}
    <3>1. PICK e \in s : \A y \in s : y.from <= e.from
      <4>1. s \in SUBSET SpanTypes
        OBVIOUS
      <4> QED
        BY <1>1, <2>4, <4>1, LastSpan
    <3> DEFINE r == s \ {e}
    <3>2. Cardinality(r) = n - 1 /\ r \in SUBSET S /\ n \in Nat /\ n - 1 \in Nat
      BY <1>1, <2>2, <3>1, FS_RemoveElement
    <3>3. n - 1 \notin T
      <4> HIDE DEF T
      <4> QED
        BY <2>1, <3>2
    <3>4. PICK p \in SetToSeqs(r) : InOrder(p)
      BY <3>2, <3>3
    <3>5. p \in [1..(n - 1) -> r] /\ \A i, j \in 1..(n - 1) : i # j => p[i] # p[j]
      BY <3>2 DEF SetToSeqs
    <3> DEFINE q == [i \in 1..n |-> IF i = n THEN e ELSE p[i]]
    <3>6. \A i \in 1..n : i # n => i \in 1..(n - 1) /\ q[i] = p[i] /\ q[i] \in r
      BY <3>2, <3>5
    <3>7. n \in 1..n /\ q[n] = e /\ e \notin r
      BY <3>2
    <3>8. q \in [1..n -> s]
      BY <3>6, <3>7
    <3>9. \A i, j \in 1..n : i # j => q[i] # q[j]
      BY <3>5, <3>6, <3>7
    <3>10. q \in SetToSeqs(s)
      <4> HIDE DEF q
      <4> QED
        BY <2>2, <3>8, <3>9 DEF SetToSeqs
    <3>11. ASSUME NEW i \in 1..n, NEW j \in 1..n, i < j PROVE q[i].from <= q[j].from
      <4>1. CASE j = n
        BY <3>1, <3>7, <3>8, <4>1
      <4>2. CASE j # n
        <5>1. i \in 1..(n - 1) /\ j \in 1..(n - 1) /\ DOMAIN p = 1..(n - 1)
          BY <3>2, <3>5, <3>11, <4>2
        <5>2. q[i] = p[i] /\ q[j] = p[j]
          BY <3>6, <4>2, <5>1
        <5> QED
          BY <3>4, <3>11, <5>1, <5>2 DEF InOrder
      <4> QED
        BY <4>1, <4>2
    <3>12. InOrder(q)
      BY <3>8, <3>11 DEF InOrder
    <3> QED
      BY <2>2, <3>10, <3>12
  <2> QED
    BY <2>3, <2>4
<1>3. Cardinality(S) \in Nat /\ S \in SUBSET S
  BY <1>1
<1> QED
  BY <1>2, <1>3

LEMMA ArrangedOnce ==
  ASSUME NEW S, IsFiniteSet(S), NEW q \in SetToSeqs(S)
  PROVE  /\ Cardinality(S) \in Nat
         /\ q \in [1..Cardinality(S) -> S]
         /\ \A x \in S : \E k \in 1..Cardinality(S) : q[k] = x
<1> DEFINE n == Cardinality(S)
<1>1. n \in Nat
  BY FS_CardinalityType
<1>2. q \in [1..n -> S] /\ \A i, j \in 1..n : i # j => q[i] # q[j]
  BY DEF SetToSeqs
<1>3. Cardinality(1..n) = n /\ IsFiniteSet(1..n)
  BY <1>1, FS_Interval
<1> HIDE DEF n
<1>4. q \in Injection(1..n, S)
  BY <1>2 DEF Injection, IsInjective
<1>5. q \in Surjection(1..n, S)
  BY <1>3, <1>4, FS_Injection DEF n
<1>6. \A x \in S : \E k \in 1..n : q[k] = x
  BY <1>5 DEF Surjection
<1> QED
  BY <1>1, <1>2, <1>6 DEF n

-----------------------------------------------------------------------------
WhatIsSaid ==
  {NothingSaid} \cup [what : {"opens"}, left : Nat]
  \cup [what : {"closes"}, left : Nat, tomorrow : BOOLEAN]

HoursTypeOK ==
  /\ hours \subseteq Windows /\ IsFiniteSet(hours)
  /\ day \in DAYS /\ minute \in Minutes
  /\ said \in WhatIsSaid

LEMMA SpansAreFinite ==
  ASSUME HoursTypeOK
  PROVE  IsFiniteSet(Spans)
<1> DEFINE A == {v \in On(PreviousDay) : PastMidnight(v)}
           B == On(day)
           f == [w \in A |-> [from |-> w.open - MinutesADay, to |-> w.close]]
           g == [w \in B |-> [from |-> w.open, to |-> IF PastMidnight(w) THEN w.close + MinutesADay ELSE w.close]]
           C == {f[w] : w \in A}
           D == {g[w] : w \in B}
<1>1. A \in SUBSET hours /\ B \in SUBSET hours
  BY DEF On
<1>2. IsFiniteSet(A) /\ IsFiniteSet(B)
  BY <1>1, FS_Subset DEF HoursTypeOK
<1>3. Spans = C \cup D
  BY DEF Spans
<1>4. f \in Surjection(A, C) /\ g \in Surjection(B, D)
  <2>1. f \in [A -> C] /\ g \in [B -> D]
    OBVIOUS
  <2> HIDE DEF f, g
  <2> QED
    BY <2>1 DEF Surjection
<1>5. IsFiniteSet(C) /\ IsFiniteSet(D)
  <2> HIDE DEF A, B, C, D, f, g
  <2> QED
    BY <1>2, <1>4, FS_Surjection
<1> QED
  BY <1>3, <1>5, FS_Union

LEMMA SpanFacts ==
  ASSUME HoursTypeOK
  PROVE  \A s \in Spans : s \in SpanTypes /\ s.from < s.to
<1>1. MinutesADay \in Nat
  BY HoursAssumption
<1>2. \A w \in hours : w.open \in Minutes /\ w.close \in Minutes /\ w.open # w.close
  BY DEF HoursTypeOK, Windows
<1> QED
  BY <1>1, <1>2 DEF Spans, On, PastMidnight, SpanTypes, Minutes

(* The stretches are the spans run together: where one ends nothing goes   *)
(* on.                                                                     *)
LEMMA StretchFacts ==
  ASSUME HoursTypeOK
  PROVE  /\ \A t \in Range(Stretches) : t.from \in Int /\ t.to \in Int
         /\ \A s \in Spans : \E t \in Range(Stretches) : t.from <= s.from /\ s.to <= t.to
         /\ \A t \in Range(Stretches), x \in Int : t.from <= x /\ x < t.to =>
              \E s \in Spans : s.from <= x /\ x < s.to
         /\ \A t \in Range(Stretches), s \in Spans : ~(s.from <= t.to /\ t.to < s.to)
<1> DEFINE q == SortedSpans
           n == Cardinality(Spans)
           m == Stretches
<1>1. IsFiniteSet(Spans) /\ Spans \in SUBSET SpanTypes
  BY SpansAreFinite, SpanFacts
<1>2. \E p \in SetToSeqs(Spans) : InOrder(p)
  BY <1>1, CanBeSorted
<1>3. q \in SetToSeqs(Spans) /\ \A i, j \in DOMAIN q : i < j => q[i].from <= q[j].from
  BY <1>2 DEF SortedSpans, InOrder
<1>4. n \in Nat /\ q \in [1..n -> Spans] /\ \A x \in Spans : \E k \in 1..n : q[k] = x
  <2> HIDE DEF q
  <2> QED
    BY <1>1, <1>3, ArrangedOnce
<1>5. DOMAIN q = 1..n
  BY <1>4
<1>6. q \in [1..n -> SpanTypes] /\ \A i \in 1..n : q[i].from < q[i].to
  BY <1>1, <1>4, SpanFacts
<1>7. m \in Seq(SpanTypes) /\ Stretched(m, q, n)
  <2> HIDE DEF q, n
  <2> QED
    BY <1>3, <1>4, <1>5, <1>6, MergedStretches DEF Stretches, q
<1> HIDE DEF q, n, m
<1>8. Range(m) = {m[j] : j \in 1..Len(m)} /\ \A j \in 1..Len(m) : m[j] \in SpanTypes
  BY <1>7 DEF Range
<1>9. \A t \in Range(m) : t.from \in Int /\ t.to \in Int
  BY <1>8 DEF SpanTypes
<1>10. ASSUME NEW s \in Spans PROVE \E t \in Range(m) : t.from <= s.from /\ s.to <= t.to
  <2>1. PICK k \in 1..n : q[k] = s
    BY <1>4
  <2> QED
    BY <1>7, <1>8, <2>1 DEF Stretched
<1>11. ASSUME NEW t \in Range(m), NEW x \in Int, t.from <= x, x < t.to
       PROVE  \E s \in Spans : s.from <= x /\ x < s.to
  <2>1. PICK j \in 1..Len(m) : t = m[j]
    BY <1>8
  <2>2. PICK i \in 1..n : q[i].from <= x /\ x < q[i].to
    BY <1>7, <1>11, <2>1 DEF Stretched
  <2> QED
    BY <1>4, <2>2
<1>12. ASSUME NEW t \in Range(m), NEW s \in Spans PROVE ~(s.from <= t.to /\ t.to < s.to)
  <2>1. PICK j \in 1..Len(m) : t = m[j]
    BY <1>8
  <2>2. PICK k \in 1..n : q[k] = s
    BY <1>4
  <2> QED
    BY <1>7, <2>1, <2>2 DEF Stretched
<1> QED
  BY <1>9, <1>10, <1>11, <1>12 DEF m

(* Whether these windows have the stall open at that minute of that day,   *)
(* and x minutes from that day's midnight.                                 *)
OpenAt(hs, d, t) ==
  \E w \in hs : \/ w.day = d /\ t >= w.open /\ (w.close < w.open \/ t < w.close)
                \/ w.day = (d + 6) % 7 /\ w.close < w.open /\ t < w.close

OpenFrom(hs, d, x) ==
  IF x < MinutesADay THEN OpenAt(hs, d, x) ELSE OpenAt(hs, (d + 1) % 7, x - MinutesADay)

(* Opening in n minutes: some window begins then, and none before.         *)
OpensIn(hs, d, t, n) ==
  /\ n = 0 => OpenAt(hs, d, t)
  /\ n > 0 =>
       /\ ~OpenAt(hs, d, t)
       /\ \E j \in 0..6, w \in hs :
            /\ w.day = (d + j) % 7 /\ n = j * MinutesADay + w.open - t
            /\ \A i \in 0..j, v \in hs :
                 v.day = (d + i) % 7 /\ i * MinutesADay + v.open > t
                   => i * MinutesADay + v.open >= j * MinutesADay + w.open

(* Closing in n minutes.                                                   *)
ClosesIn(hs, d, t, n, tomorrow) ==
  /\ t + n < 2 * MinutesADay
  /\ \A x \in Int : t <= x /\ x < t + n => OpenFrom(hs, d, x)
  /\ tomorrow \/ (t + n < MinutesADay /\ ~OpenAt(hs, d, t + n))

HoursInv ==
  /\ HoursTypeOK
  /\ said.what # "nothing" => hours # {}
  /\ said.what = "opens" => OpensIn(hours, day, minute, said.left)
  /\ said.what = "closes" => ClosesIn(hours, day, minute, said.left, said.tomorrow)

LEMMA OpenNow == IsOpen <=> hours = {} \/ OpenAt(hours, day, minute)
BY DEF IsOpen, On, PreviousDay, PastMidnight, OpenAt

LEMMA WhatTheInvariantSays == HoursInv => OpensWhenSaid
<1> SUFFICES ASSUME HoursInv PROVE OpensWhenSaid
  OBVIOUS
<1>1. MinutesADay \in Nat /\ minute \in Nat /\ minute < MinutesADay
  BY HoursAssumption DEF HoursInv, HoursTypeOK, Minutes
<1>2. CASE said.what = "opens"
  <2>1. said.left \in Nat
    BY <1>2 DEF HoursInv, HoursTypeOK, WhatIsSaid, NothingSaid
  <2> QED
    BY <1>2, <2>1, OpenNow DEF HoursInv, OpensIn, OpensWhenSaid
<1>3. CASE said.what = "closes"
  <2>1. said.left \in Nat
    BY <1>3 DEF HoursInv, HoursTypeOK, WhatIsSaid, NothingSaid
  <2>2. ClosesIn(hours, day, minute, said.left, said.tomorrow) /\ hours # {}
    BY <1>3 DEF HoursInv
  <2>3. said.left > 0 => IsOpen
    BY <1>1, <2>1, <2>2, OpenNow DEF ClosesIn, OpenFrom
  <2>4. said.left = 0 => ~IsOpen \/ said.tomorrow
    BY <1>1, <2>1, <2>2, OpenNow DEF ClosesIn
  <2> QED
    BY <1>3, <2>3, <2>4 DEF OpensWhenSaid
<1> QED
  BY <1>2, <1>3 DEF OpensWhenSaid

-----------------------------------------------------------------------------
LEMMA NextMinute ==
  ASSUME NEW t \in Minutes
  PROVE  /\ (t + 1) % MinutesADay \in Minutes
         /\ t + 1 < MinutesADay => (t + 1) % MinutesADay = t + 1
         /\ t + 1 = MinutesADay => (t + 1) % MinutesADay = 0
         /\ t + 1 <= MinutesADay
BY HoursAssumption DEF Minutes

LEMMA DaysAhead ==
  ASSUME NEW j \in 0..6
  PROVE  /\ j * MinutesADay \in Nat
         /\ j = 0 => j * MinutesADay = 0
         /\ j > 0 => j * MinutesADay >= MinutesADay
         /\ (j - 1) * MinutesADay = j * MinutesADay - MinutesADay
         /\ (j + 1) * MinutesADay = j * MinutesADay + MinutesADay
<1>1. MinutesADay \in Nat
  BY HoursAssumption
<1>2. j \in {0, 1, 2, 3, 4, 5, 6}
  OBVIOUS
<1> QED
  BY <1>1, <1>2

(* A minute later of the same day.                                         *)
LEMMA OpensSoonerToday ==
  ASSUME NEW hs \in SUBSET Windows, NEW d \in DAYS, NEW t \in Minutes, NEW n \in Nat,
         n > 0, OpensIn(hs, d, t, n), t + 1 < MinutesADay
  PROVE  OpensIn(hs, d, t + 1, n - 1)
<1>1. MinutesADay \in Nat /\ t \in Nat
  BY HoursAssumption DEF Minutes
<1>2. \A w \in hs : w.open \in Nat /\ w.close \in Nat /\ w.open < MinutesADay /\ w.open # w.close /\ w.day \in DAYS
  BY <1>1 DEF Windows, Minutes
<1>3. PICK j \in 0..6, w \in hs :
        /\ w.day = (d + j) % 7 /\ n = j * MinutesADay + w.open - t
        /\ \A i \in 0..j, v \in hs :
             v.day = (d + i) % 7 /\ i * MinutesADay + v.open > t
               => i * MinutesADay + v.open >= j * MinutesADay + w.open
  BY DEF OpensIn
<1> DEFINE J == j * MinutesADay
<1>4. J \in Nat /\ (j = 0 => J = 0) /\ (j > 0 => J >= MinutesADay)
  BY DaysAhead
<1>5. \A i \in 0..j : i * MinutesADay \in Nat
  <2> TAKE i \in 0..j
  <2>1. i \in 0..6
    OBVIOUS
  <2> QED
    BY <2>1, DaysAhead
<1>6. ~OpenAt(hs, d, t)
  BY DEF OpensIn
<1>7. CASE n = 1
  <2>1. j = 0 /\ w.open = t + 1
    <3> HIDE DEF J
    <3>1. n = J + w.open - t
      BY <1>3 DEF J
    <3> QED
      BY <1>1, <1>2, <1>4, <1>7, <3>1
  <2>2. w.day = d
    BY <1>2, <1>3, <2>1 DEF DAYS
  <2>3. OpenAt(hs, d, t + 1)
    BY <1>1, <1>2, <2>1, <2>2 DEF OpenAt
  <2> QED
    BY <1>7, <2>3 DEF OpensIn
<1>8. CASE n # 1
  <2>1. ASSUME OpenAt(hs, d, t + 1) PROVE FALSE
    <3>1. PICK v \in hs : \/ v.day = d /\ t + 1 >= v.open /\ (v.close < v.open \/ t + 1 < v.close)
                          \/ v.day = (d + 6) % 7 /\ v.close < v.open /\ t + 1 < v.close
      BY <2>1 DEF OpenAt
    <3>2. v.day = d /\ v.open = t + 1
      BY <1>1, <1>2, <1>6, <3>1 DEF OpenAt
    <3>3. 0 \in 0..j /\ v.day = (d + 0) % 7 /\ 0 * MinutesADay = 0
      BY <1>1, <3>2 DEF DAYS
    <3>4. t + 1 >= J + w.open
      BY <1>1, <1>2, <1>3, <3>2, <3>3
    <3>5. n = J + w.open - t
      BY <1>3
    <3> HIDE DEF J
    <3> QED
      BY <1>1, <1>2, <1>4, <1>8, <3>4, <3>5
  <2>2. n - 1 = J + w.open - (t + 1)
    <3>1. n = J + w.open - t
      BY <1>3
    <3> HIDE DEF J
    <3> QED
      BY <1>1, <1>2, <1>4, <3>1
  <2>3. ASSUME NEW i \in 0..j, NEW v \in hs, v.day = (d + i) % 7, i * MinutesADay + v.open > t + 1
        PROVE  i * MinutesADay + v.open >= J + w.open
    <3>1. i * MinutesADay + v.open > t
      BY <1>1, <1>2, <1>5, <2>3
    <3> QED
      BY <1>3, <2>3, <3>1
  <2>4. n - 1 # 0
    BY <1>8
  <2> QED
    BY <1>3, <2>1, <2>2, <2>3, <2>4 DEF OpensIn
<1> QED
  BY <1>7, <1>8

(* A minute later, when that is midnight.                                  *)
LEMMA OpensSoonerTomorrow ==
  ASSUME NEW hs \in SUBSET Windows, NEW d \in DAYS, NEW t \in Minutes, NEW n \in Nat,
         n > 0, OpensIn(hs, d, t, n), t + 1 = MinutesADay
  PROVE  OpensIn(hs, (d + 1) % 7, 0, n - 1)
<1>1. MinutesADay \in Nat /\ t \in Nat
  BY HoursAssumption DEF Minutes
<1>2. \A w \in hs : w.open \in Nat /\ w.close \in Nat /\ w.open < MinutesADay /\ w.open # w.close /\ w.day \in DAYS
  BY <1>1 DEF Windows, Minutes
<1>3. PICK j \in 0..6, w \in hs :
        /\ w.day = (d + j) % 7 /\ n = j * MinutesADay + w.open - t
        /\ \A i \in 0..j, v \in hs :
             v.day = (d + i) % 7 /\ i * MinutesADay + v.open > t
               => i * MinutesADay + v.open >= j * MinutesADay + w.open
  BY DEF OpensIn
<1> DEFINE J == j * MinutesADay
           e == (d + 1) % 7
<1>4. J \in Nat /\ (j = 0 => J = 0) /\ (j > 0 => J >= MinutesADay) /\ (j - 1) * MinutesADay = J - MinutesADay
  BY DaysAhead
<1>5. n = J + w.open - t
  BY <1>3
<1> HIDE DEF J
<1>6. j > 0
  BY <1>1, <1>2, <1>4, <1>5
<1>7. j - 1 \in 0..6 /\ w.day = (e + (j - 1)) % 7 /\ e \in DAYS /\ (e + 6) % 7 = d
  BY <1>3, <1>6 DEF DAYS
<1>8. n - 1 = (j - 1) * MinutesADay + w.open - 0
  BY <1>1, <1>2, <1>4, <1>5
<1>9. ASSUME NEW i \in 0..(j - 1), NEW v \in hs, v.day = (e + i) % 7, i * MinutesADay + v.open > 0
      PROVE  i * MinutesADay + v.open >= (j - 1) * MinutesADay + w.open
  <2>1. i + 1 \in 0..j /\ v.day = (d + (i + 1)) % 7 /\ i \in 0..6
    BY <1>6, <1>9 DEF DAYS
  <2> DEFINE I == i * MinutesADay
  <2>2. I \in Nat /\ (i + 1) * MinutesADay = I + MinutesADay
    BY <2>1, DaysAhead
  <2>3. I + MinutesADay + v.open > t
    <3> HIDE DEF I
    <3> QED
      BY <1>1, <1>2, <2>2
  <2>4. I + MinutesADay + v.open >= J + w.open
    BY <1>3, <2>1, <2>2, <2>3 DEF J
  <2> HIDE DEF I
  <2>5. I + v.open >= J - MinutesADay + w.open
    BY <1>1, <1>2, <1>4, <2>2, <2>4
  <2> QED
    BY <1>4, <2>5 DEF I
<1>10. ~OpenAt(hs, d, t)
  BY DEF OpensIn
<1>11. CASE n = 1
  <2>1. j = 1 /\ w.open = 0
    <3>1. J = MinutesADay /\ w.open = 0
      BY <1>1, <1>2, <1>4, <1>5, <1>6, <1>11
    <3>2. (j - 1) * MinutesADay = 0 /\ MinutesADay > 0
      BY <1>1, <1>4, <3>1, HoursAssumption
    <3>3. j - 1 > 0 => (j - 1) * MinutesADay >= MinutesADay
      BY <1>7, DaysAhead
    <3> QED
      BY <1>1, <1>6, <3>1, <3>2, <3>3
  <2>2. OpenAt(hs, e, 0)
    BY <1>2, <1>7, <2>1 DEF OpenAt, DAYS
  <2> QED
    BY <1>11, <2>2 DEF OpensIn
<1>12. CASE n # 1
  <2>1. ASSUME OpenAt(hs, e, 0) PROVE FALSE
    <3>1. PICK v \in hs : \/ v.day = e /\ 0 >= v.open /\ (v.close < v.open \/ 0 < v.close)
                          \/ v.day = (e + 6) % 7 /\ v.close < v.open /\ 0 < v.close
      BY <2>1 DEF OpenAt
    <3>2. CASE v.day = e /\ v.open = 0
      <4>1. 1 \in 0..j /\ v.day = (d + 1) % 7 /\ 1 * MinutesADay = MinutesADay
        BY <1>1, <1>6, <3>2
      <4>2. 1 * MinutesADay + v.open > t
        BY <1>1, <3>2, <4>1
      <4>3. MinutesADay >= J + w.open
        BY <1>1, <1>3, <3>2, <4>1, <4>2 DEF J
      <4> QED
        BY <1>1, <1>2, <1>4, <1>5, <1>12, <4>3
    <3>3. CASE v.day = d /\ v.close < v.open
      BY <1>1, <1>2, <1>10, <3>3 DEF OpenAt
    <3> QED
      BY <1>2, <1>7, <3>1, <3>2, <3>3
  <2>2. n - 1 # 0
    BY <1>12
  <2> QED
    BY <1>7, <1>8, <1>9, <2>1, <2>2 DEF OpensIn
<1> QED
  BY <1>11, <1>12

LEMMA ClosesSoonerToday ==
  ASSUME NEW hs, NEW d \in DAYS, NEW t \in Minutes, NEW n \in Nat, NEW b \in BOOLEAN,
         n > 0, ClosesIn(hs, d, t, n, b), t + 1 < MinutesADay
  PROVE  ClosesIn(hs, d, t + 1, n - 1, b)
<1>1. MinutesADay \in Nat /\ t \in Nat /\ t + 1 + (n - 1) = t + n
  BY HoursAssumption DEF Minutes
<1> QED
  BY <1>1 DEF ClosesIn

LEMMA ClosesSoonerTomorrow ==
  ASSUME NEW hs, NEW d \in DAYS, NEW t \in Minutes, NEW n \in Nat, NEW b \in BOOLEAN,
         n > 0, ClosesIn(hs, d, t, n, b), t + 1 = MinutesADay
  PROVE  ClosesIn(hs, (d + 1) % 7, 0, n - 1, b)
<1>1. MinutesADay \in Nat /\ t \in Nat
  BY HoursAssumption DEF Minutes
<1>2. b /\ n <= MinutesADay
  BY <1>1 DEF ClosesIn
<1>3. ASSUME NEW x \in Int, 0 <= x, x < 0 + (n - 1)
      PROVE  OpenFrom(hs, (d + 1) % 7, x)
  <2>1. OpenFrom(hs, d, x + MinutesADay)
    BY <1>1, <1>3 DEF ClosesIn
  <2>2. OpenAt(hs, (d + 1) % 7, x)
    <3> DEFINE y == x + MinutesADay
    <3>1. ~(y < MinutesADay)
      BY <1>1, <1>3
    <3>2. y - MinutesADay = x
      BY <1>1, <1>3
    <3> HIDE DEF y
    <3>3. OpenFrom(hs, d, y)
      BY <2>1 DEF y
    <3> QED
      BY <3>1, <3>2, <3>3 DEF OpenFrom
  <2>3. x < MinutesADay
    BY <1>1, <1>2, <1>3
  <2> QED
    BY <2>2, <2>3 DEF OpenFrom
<1> QED
  BY <1>1, <1>2, <1>3 DEF ClosesIn

LEMMA SmallestOf ==
  ASSUME NEW S \in SUBSET Nat, S # {}
  PROVE  Min(S) \in S /\ \A x \in S : Min(S) <= x
<1>1. PICK m \in S : \A n \in S : m <= n
  BY SmallestNumber
<1>2. \A n \in S : m =< n
  BY <1>1
<1> QED
  BY <1>2 DEF Min

(* What nextOpening promises.                                              *)
LEMMA NextOpeningIsNext ==
  ASSUME HoursTypeOK, hours # {}, ~IsOpen, NextOpening # -1
  PROVE  NextOpening \in Nat /\ OpensIn(hours, day, minute, NextOpening)
<1> DEFINE Later == {w.open : w \in {v \in On(day) : v.open > minute}}
           Aheads == {k \in 1..6 : On((day + k) % 7) # {}}
<1>1. MinutesADay \in Nat /\ minute \in Nat /\ minute < MinutesADay /\ day \in DAYS
  BY HoursAssumption DEF HoursTypeOK, Minutes
<1>2. \A w \in hours : w.open \in Nat /\ w.open < MinutesADay
  BY <1>1 DEF HoursTypeOK, Windows, Minutes
<1>3. ~OpenAt(hours, day, minute)
  BY OpenNow
<1>4. CASE Later # {}
  <2> DEFINE m == Min(Later)
  <2>1. Later \in SUBSET Nat
    BY <1>2 DEF On
  <2>2. m \in Later /\ \A x \in Later : m <= x
    <3> HIDE DEF Later
    <3> QED
      BY <1>4, <2>1, SmallestOf
  <2>3. NextOpening = m - minute
    BY <1>4, Zenon DEF NextOpening
  <2> HIDE DEF m
  <2>4. PICK w \in hours : w.day = day /\ w.open > minute /\ m = w.open
    BY <2>2 DEF On
  <2>5. m - minute \in Nat /\ m - minute > 0
    BY <1>1, <1>2, <2>4
  <2>6. w.day = (day + 0) % 7 /\ m - minute = 0 * MinutesADay + w.open - minute
    BY <1>1, <1>2, <2>4 DEF DAYS
  <2>7. ASSUME NEW i \in 0..0, NEW v \in hours, v.day = (day + i) % 7, i * MinutesADay + v.open > minute
        PROVE  i * MinutesADay + v.open >= 0 * MinutesADay + w.open
    <3>1. i = 0 /\ i * MinutesADay = 0 /\ 0 * MinutesADay = 0
      BY <1>1
    <3>2. v.day = day /\ v.open > minute
      BY <1>1, <1>2, <2>7, <3>1 DEF DAYS
    <3>3. v.open \in Later
      BY <3>2 DEF On
    <3> QED
      BY <1>2, <2>2, <2>4, <3>1, <3>3
  <2> QED
    BY <1>3, <2>3, <2>5, <2>6, <2>7 DEF OpensIn
<1>5. CASE Later = {} /\ Aheads # {}
  <2> DEFINE k == Min(Aheads)
             First == {w.open : w \in On((day + k) % 7)}
             m == Min(First)
  <2>1. k \in Aheads /\ \A x \in Aheads : k <= x
    <3>1. Aheads \in SUBSET Nat
      OBVIOUS
    <3> HIDE DEF Aheads
    <3> QED
      BY <1>5, <3>1, SmallestOf
  <2>2. NextOpening = k * MinutesADay + m - minute
    BY <1>5, Zenon DEF NextOpening
  <2> HIDE DEF k
  <2>3. k \in 1..6 /\ On((day + k) % 7) # {}
    BY <2>1
  <2>4. First # {} /\ First \in SUBSET Nat
    BY <1>2, <2>3 DEF On
  <2>5. m \in First /\ \A x \in First : m <= x
    <3> HIDE DEF First
    <3> QED
      BY <2>4, SmallestOf
  <2> HIDE DEF m
  <2>6. PICK w \in hours : w.day = (day + k) % 7 /\ m = w.open
    BY <2>5 DEF On
  <2> DEFINE K == k * MinutesADay
  <2>7. K \in Nat /\ K >= MinutesADay
    BY <2>3, DaysAhead
  <2>8. K + m - minute \in Nat /\ K + m - minute > 0
    <3> HIDE DEF K
    <3> QED
      BY <1>1, <1>2, <2>6, <2>7
  <2>9. ASSUME NEW i \in 0..k, NEW v \in hours, v.day = (day + i) % 7, i * MinutesADay + v.open > minute
        PROVE  i * MinutesADay + v.open >= k * MinutesADay + w.open
    <3>1. CASE i = 0
      <4>1. v.day = day /\ v.open > minute
        BY <1>1, <1>2, <2>9, <3>1 DEF DAYS
      <4> QED
        BY <1>5, <4>1 DEF On
    <3>2. CASE i # 0 /\ i # k
      <4>1. i \in 1..6 /\ i < k
        BY <2>3, <3>2
      <4>2. v \in On((day + i) % 7)
        BY <2>9 DEF On
      <4> QED
        BY <2>1, <4>1, <4>2
    <3>3. CASE i = k
      <4>1. v.open \in First
        BY <2>9, <3>3 DEF On
      <4>2. v.open >= w.open
        BY <1>2, <2>5, <2>6, <4>1
      <4>3. K + v.open >= K + w.open
        <5> HIDE DEF K
        <5> QED
          BY <1>2, <2>7, <4>2
      <4> QED
        BY <3>3, <4>3
    <3> QED
      BY <3>1, <3>2, <3>3
  <2>10. k \in 0..6
    BY <2>3
  <2> QED
    BY <1>3, <2>2, <2>6, <2>8, <2>9, <2>10 DEF OpensIn
<1>6. CASE Later = {} /\ Aheads = {}
  BY <1>6, Zenon DEF NextOpening
<1> QED
  BY <1>4, <1>5, <1>6

(* The spans cover what the windows cover.                                 *)
LEMMA CoveredWhenOpen ==
  ASSUME HoursTypeOK, NEW x \in Nat
  PROVE  /\ x < MinutesADay /\ OpenAt(hours, day, x) => \E s \in Spans : s.from <= x /\ x < s.to
         /\ \A s \in Spans : s.from <= x /\ x < s.to => OpenFrom(hours, day, x)
         /\ \A s \in Spans : s.to < 2 * MinutesADay
<1>1. MinutesADay \in Nat \ {0} /\ day \in DAYS
  BY HoursAssumption DEF HoursTypeOK
<1>2. \A w \in hours : /\ w.open \in Nat /\ w.open < MinutesADay /\ w.close \in Nat
                       /\ w.close < MinutesADay /\ w.open # w.close
  BY <1>1 DEF HoursTypeOK, Windows, Minutes
<1> DEFINE late(w) == [from |-> w.open - MinutesADay, to |-> w.close]
           today(w) == [from |-> w.open, to |-> IF PastMidnight(w) THEN w.close + MinutesADay ELSE w.close]
<1>3. \A s : s \in Spans <=> \/ \E w \in hours : w.day = (day + 6) % 7 /\ w.close < w.open /\ s = late(w)
                            \/ \E w \in hours : w.day = day /\ s = today(w)
  BY DEF Spans, On, PreviousDay, PastMidnight
<1>4. ASSUME x < MinutesADay, OpenAt(hours, day, x)
      PROVE  \E s \in Spans : s.from <= x /\ x < s.to
  <2>1. PICK w \in hours : \/ w.day = day /\ x >= w.open /\ (w.close < w.open \/ x < w.close)
                           \/ w.day = (day + 6) % 7 /\ w.close < w.open /\ x < w.close
    BY <1>4 DEF OpenAt
  <2>2. CASE w.day = day /\ x >= w.open /\ (w.close < w.open \/ x < w.close)
    <3>1. today(w) \in Spans
      BY <1>3, <2>2
    <3>2. today(w).from <= x /\ x < today(w).to
      BY <1>1, <1>2, <1>4, <2>2 DEF PastMidnight
    <3> QED
      BY <3>1, <3>2
  <2>3. CASE w.day = (day + 6) % 7 /\ w.close < w.open /\ x < w.close
    <3>1. late(w) \in Spans
      BY <1>3, <2>3
    <3>2. late(w).from <= x /\ x < late(w).to
      BY <1>1, <1>2, <1>4, <2>3
    <3> QED
      BY <3>1, <3>2
  <2> QED
    BY <2>1, <2>2, <2>3
<1>5. ASSUME NEW s \in Spans
      PROVE  /\ s.to < 2 * MinutesADay
             /\ s.from <= x /\ x < s.to => OpenFrom(hours, day, x)
  <2>1. CASE \E w \in hours : w.day = (day + 6) % 7 /\ w.close < w.open /\ s = late(w)
    <3>1. PICK w \in hours : w.day = (day + 6) % 7 /\ w.close < w.open /\ s = late(w)
      BY <2>1
    <3>2. s.to = w.close
      BY <3>1
    <3>3. x < s.to => OpenAt(hours, day, x) /\ x < MinutesADay
      BY <1>1, <1>2, <3>1, <3>2 DEF OpenAt
    <3> QED
      BY <1>1, <1>2, <3>2, <3>3 DEF OpenFrom
  <2>2. CASE \E w \in hours : w.day = day /\ s = today(w)
    <3>1. PICK w \in hours : w.day = day /\ s = today(w)
      BY <2>2
    <3>2. CASE w.close < w.open
      <4>1. s.from = w.open /\ s.to = w.close + MinutesADay
        BY <3>1, <3>2 DEF PastMidnight
      <4>2. CASE x < MinutesADay
        <5>1. s.from <= x => OpenAt(hours, day, x)
          BY <1>2, <3>1, <3>2, <4>1 DEF OpenAt
        <5> QED
          BY <1>1, <1>2, <4>1, <4>2, <5>1 DEF OpenFrom
      <4>3. CASE ~(x < MinutesADay)
        <5>1. day = (((day + 1) % 7) + 6) % 7
          BY <1>1 DEF DAYS
        <5>2. x < s.to => x - MinutesADay < w.close
          BY <1>1, <1>2, <4>1
        <5>3. x < s.to => OpenAt(hours, (day + 1) % 7, x - MinutesADay)
          BY <3>1, <3>2, <5>1, <5>2 DEF OpenAt
        <5> QED
          BY <1>1, <1>2, <4>1, <4>3, <5>3 DEF OpenFrom
      <4> QED
        BY <4>2, <4>3
    <3>3. CASE ~(w.close < w.open)
      <4>1. s.from = w.open /\ s.to = w.close
        BY <3>1, <3>3 DEF PastMidnight
      <4>2. s.from <= x /\ x < s.to => OpenAt(hours, day, x) /\ x < MinutesADay
        BY <1>1, <1>2, <3>1, <4>1 DEF OpenAt
      <4> QED
        BY <1>1, <1>2, <4>1, <4>2 DEF OpenFrom
    <3> QED
      BY <3>2, <3>3
  <2> QED
    BY <1>3, <2>1, <2>2
<1> QED
  BY <1>4, <1>5

(* What currentClose promises.                                             *)
LEMMA CurrentCloseCloses ==
  ASSUME HoursTypeOK, hours # {}, IsOpen
  PROVE  /\ CurrentClose - minute \in Nat
         /\ ClosesIn(hours, day, minute, CurrentClose - minute, CurrentClose >= MinutesADay)
<1> DEFINE here == {s \in Range(Stretches) : minute >= s.from /\ minute < s.to}
           t == CHOOSE s \in here : TRUE
<1>1. MinutesADay \in Nat \ {0} /\ minute \in Nat /\ minute < MinutesADay
  BY HoursAssumption DEF HoursTypeOK, Minutes
<1>2. OpenAt(hours, day, minute)
  BY OpenNow
<1>3. here # {}
  <2>1. PICK s \in Spans : s.from <= minute /\ minute < s.to
    BY <1>1, <1>2, CoveredWhenOpen
  <2>2. PICK u \in Range(Stretches) : u.from <= s.from /\ s.to <= u.to
    BY StretchFacts
  <2>3. u.from \in Int /\ u.to \in Int
    BY StretchFacts
  <2>4. s.from \in Int /\ s.to \in Int
    BY SpanFacts DEF SpanTypes
  <2>5. minute >= u.from /\ minute < u.to
    BY <1>1, <2>1, <2>2, <2>3, <2>4
  <2> QED
    BY <2>5
<1>4. CurrentClose = t.to /\ t \in Range(Stretches) /\ minute >= t.from /\ minute < t.to
  <2>1. t \in here
    BY <1>3
  <2>2. CurrentClose = t.to
    BY <1>3, Zenon DEF CurrentClose
  <2> QED
    BY <2>1, <2>2
<1> HIDE DEF t, here
<1>5. t.from \in Int /\ t.to \in Int
  BY <1>4, StretchFacts
<1>6. \A x \in Nat : minute <= x /\ x < t.to => \E s \in Spans : s.from <= x /\ x < s.to
  <2> TAKE x \in Nat
  <2>1. minute <= x => t.from <= x
    BY <1>1, <1>4, <1>5
  <2> QED
    BY <1>4, <2>1, StretchFacts
<1>7. \A x \in Nat : minute <= x /\ x < t.to => OpenFrom(hours, day, x)
  BY <1>6, CoveredWhenOpen
<1>8. t.to < 2 * MinutesADay
  <2>1. t.to - 1 \in Nat /\ minute <= t.to - 1 /\ t.to - 1 < t.to
    BY <1>1, <1>4, <1>5
  <2>2. PICK s \in Spans : t.to - 1 < s.to
    BY <1>6, <2>1
  <2>3. s.to \in Int /\ s.to < 2 * MinutesADay
    BY <2>1, SpanFacts, CoveredWhenOpen DEF SpanTypes
  <2> QED
    BY <1>1, <1>5, <2>2, <2>3
<1>9. t.to < MinutesADay => ~OpenAt(hours, day, t.to)
  <2>1. t.to \in Nat
    BY <1>1, <1>4, <1>5
  <2>2. \A s \in Spans : ~(s.from <= t.to /\ t.to < s.to)
    BY <1>4, StretchFacts
  <2> QED
    BY <2>1, <2>2, CoveredWhenOpen
<1> DEFINE n == CurrentClose - minute
<1>10. n \in Nat /\ minute + n = t.to
  BY <1>1, <1>4, <1>5
<1>11. CurrentClose >= MinutesADay \/ t.to < MinutesADay
  BY <1>1, <1>4, <1>5
<1>12. \A x \in Int : minute <= x => x \in Nat
  BY <1>1
<1> HIDE DEF n
<1>13. ClosesIn(hours, day, minute, n, CurrentClose >= MinutesADay)
  BY <1>7, <1>8, <1>9, <1>10, <1>11, <1>12 DEF ClosesIn
<1> QED
  BY <1>10, <1>13 DEF n

-----------------------------------------------------------------------------
LEMMA HoursStart == HoursInit => HoursInv
BY HoursAssumption, FS_EmptySet
   DEF HoursInit, HoursInv, HoursTypeOK, DAYS, Minutes, WhatIsSaid, NothingSaid

LEMMA LookKeeps == HoursInv /\ Look => HoursInv'
<1> SUFFICES ASSUME HoursInv, Look PROVE HoursInv'
  OBVIOUS
<1>1. HoursTypeOK /\ UNCHANGED <<hours, day, minute>>
  BY DEF HoursInv, Look
<1>2. CASE said' = NothingSaid
  BY <1>1, <1>2 DEF HoursInv, HoursTypeOK, WhatIsSaid, NothingSaid
<1>3. CASE IsOpen /\ hours # {}
  <2> DEFINE n == CurrentClose - minute
             b == CurrentClose >= MinutesADay
  <2>1. said' = [what |-> "closes", left |-> n, tomorrow |-> b]
    BY <1>3 DEF Look
  <2>2. n \in Nat /\ ClosesIn(hours, day, minute, n, b)
    BY <1>1, <1>3, CurrentCloseCloses
  <2>3. b \in BOOLEAN
    OBVIOUS
  <2> HIDE DEF n, b
  <2>4. said' \in WhatIsSaid /\ said'.what = "closes" /\ said'.left = n /\ said'.tomorrow = b
    BY <2>1, <2>2, <2>3 DEF WhatIsSaid
  <2> QED
    BY <1>1, <1>3, <2>2, <2>4 DEF HoursInv, HoursTypeOK
<1>4. CASE ~IsOpen /\ NextOpening # -1
  <2> DEFINE n == NextOpening
  <2>1. said' = [what |-> "opens", left |-> n]
    BY <1>4 DEF Look
  <2>2. hours # {}
    BY <1>4, OpenNow
  <2>3. n \in Nat /\ OpensIn(hours, day, minute, n)
    BY <1>1, <1>4, <2>2, NextOpeningIsNext
  <2> HIDE DEF n
  <2>4. said' \in WhatIsSaid /\ said'.what = "opens" /\ said'.left = n
    BY <2>1, <2>3 DEF WhatIsSaid
  <2> QED
    BY <1>1, <2>2, <2>3, <2>4 DEF HoursInv, HoursTypeOK
<1> QED
  BY <1>2, <1>3, <1>4 DEF Look

LEMMA TickKeeps == HoursInv /\ Tick => HoursInv'
<1> SUFFICES ASSUME HoursInv, Tick PROVE HoursInv'
  OBVIOUS
<1>1. HoursTypeOK /\ hours' = hours
  BY DEF HoursInv, Tick
<1>2. /\ minute + 1 < MinutesADay => minute' = minute + 1 /\ day' = day
      /\ minute + 1 = MinutesADay => minute' = 0 /\ day' = (day + 1) % 7
      /\ minute + 1 <= MinutesADay /\ minute' \in Minutes /\ day' \in DAYS /\ minute \in Nat
  <2>1. minute \in Minutes /\ day \in DAYS /\ minute \in Nat
    BY <1>1 DEF HoursTypeOK, Minutes
  <2>2. (day + 1) % 7 \in DAYS
    BY <2>1 DEF DAYS
  <2> QED
    BY <2>1, <2>2, NextMinute DEF Tick
<1>3. minute + 1 < MinutesADay \/ minute + 1 = MinutesADay
  BY <1>2, HoursAssumption
<1>4. hours \in SUBSET Windows /\ day \in DAYS /\ minute \in Minutes
  BY <1>1 DEF HoursTypeOK
<1>5. CASE said = NothingSaid \/ said.left = 0
  BY <1>1, <1>2, <1>5 DEF HoursInv, HoursTypeOK, WhatIsSaid, NothingSaid, Tick
<1>6. CASE said # NothingSaid /\ said.left # 0 /\ said.what = "opens"
  <2>1. said \in [what : {"opens"}, left : Nat]
    BY <1>1, <1>6 DEF HoursTypeOK, WhatIsSaid, NothingSaid
  <2>2. said.left \in Nat /\ said.left > 0 /\ said.left - 1 \in Nat
    BY <1>6, <2>1
  <2>3. said' = [said EXCEPT !.left = said.left - 1]
    BY <1>6 DEF Tick
  <2>4. said' \in WhatIsSaid /\ said'.what = "opens" /\ said'.left = said.left - 1
    BY <2>1, <2>2, <2>3 DEF WhatIsSaid
  <2>5. OpensIn(hours, day, minute, said.left) /\ hours # {}
    BY <1>6 DEF HoursInv, NothingSaid
  <2>6. OpensIn(hours, day', minute', said.left - 1)
    BY <1>2, <1>3, <1>4, <2>2, <2>5, OpensSoonerToday, OpensSoonerTomorrow
  <2> QED
    BY <1>1, <1>2, <2>4, <2>5, <2>6 DEF HoursInv, HoursTypeOK
<1>7. CASE said # NothingSaid /\ said.left # 0 /\ said.what = "closes"
  <2>1. said \in [what : {"closes"}, left : Nat, tomorrow : BOOLEAN]
    BY <1>1, <1>7 DEF HoursTypeOK, WhatIsSaid, NothingSaid
  <2>2. said.left \in Nat /\ said.left > 0 /\ said.left - 1 \in Nat /\ said.tomorrow \in BOOLEAN
    BY <1>7, <2>1
  <2>3. said' = [said EXCEPT !.left = said.left - 1]
    BY <1>7 DEF Tick
  <2>4. /\ said' \in WhatIsSaid /\ said'.what = "closes" /\ said'.left = said.left - 1
        /\ said'.tomorrow = said.tomorrow
    BY <2>1, <2>2, <2>3 DEF WhatIsSaid
  <2>5. ClosesIn(hours, day, minute, said.left, said.tomorrow) /\ hours # {}
    BY <1>7 DEF HoursInv, NothingSaid
  <2>6. ClosesIn(hours, day', minute', said.left - 1, said.tomorrow)
    BY <1>2, <1>3, <1>4, <2>2, <2>5, ClosesSoonerToday, ClosesSoonerTomorrow
  <2> QED
    BY <1>1, <1>2, <2>4, <2>5, <2>6 DEF HoursInv, HoursTypeOK
<1> QED
  BY <1>1, <1>5, <1>6, <1>7 DEF HoursTypeOK, WhatIsSaid

LEMMA SetHoursKeeps == ASSUME HoursInv, NEW w \in Windows, SetHours(w) PROVE HoursInv'
<1>1. HoursTypeOK
  BY DEF HoursInv
<1>2. hours' \subseteq Windows /\ IsFiniteSet(hours')
  BY <1>1, FS_AddElement, FS_RemoveElement DEF HoursTypeOK, SetHours
<1> QED
  BY <1>1, <1>2 DEF HoursInv, HoursTypeOK, WhatIsSaid, NothingSaid, SetHours

LEMMA HoursSteps == HoursInv /\ [HoursNext]_hoursVars => HoursInv'
<1> SUFFICES ASSUME HoursInv, [HoursNext]_hoursVars PROVE HoursInv'
  OBVIOUS
<1>1. CASE UNCHANGED hoursVars
  BY <1>1 DEF hoursVars, HoursInv, HoursTypeOK
<1> QED
  BY <1>1, LookKeeps, TickKeeps, SetHoursKeeps DEF HoursNext

(* A schedule is one of windows that parseHours lets through, whatever is  *)
(* written to it, and what the page said counts down to zero and no        *)
(* further.                                                                *)
THEOREM HoursTypes == HoursSpec => []HoursTypeOK
<1>1. HoursInv => HoursTypeOK
  BY DEF HoursInv
<1> QED
  BY <1>1, HoursStart, HoursSteps, PTL DEF HoursSpec

(* The stall as a whole does to its hours what the hours' own              *)
(* specification allows.                                                   *)
THEOREM StallKeepsItsHours == Spec => HoursSpec
<1>1. Init => HoursInit
  BY DEF Init
<1>2. [Next]_vars => [HoursNext]_hoursVars
  BY DEF Next, AtTheTill, AtTheTablet, AtTheDoor, vars, hoursVars
<1> QED
  BY <1>1, <1>2, PTL DEF Spec, HoursSpec

(* isOpenAt, nextOpening and currentClose never contradict each other on   *)
(* the page, however many windows there are and however they overlap: shut *)
(* until the minute it is said to open, open until the one it is said to   *)
(* close, and shut then unless that is tomorrow.                           *)
THEOREM OpensAsSaid == Spec => []OpensWhenSaid
<1>1. HoursSpec => []OpensWhenSaid
  BY HoursStart, HoursSteps, WhatTheInvariantSays, PTL DEF HoursSpec
<1> QED
  BY <1>1, StallKeepsItsHours, PTL
=============================================================================
