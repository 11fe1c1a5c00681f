-------------------------------- MODULE Menu --------------------------------
(***************************************************************************)
(* The menu of one stall, as its tablets edit it (inventory.controller,    *)
(* menu-edit.controller, describe.controller) and as the platform replaces *)
(* it from a spreadsheet (console.controller importMenu, menu-ingest       *)
(* applyMenu).  A request reads and writes on connections of its own; the  *)
(* two that spend from an allowance, the cook's pick and the written       *)
(* description, take the vendor row FOR UPDATE before they count.          *)
(***************************************************************************)
EXTENDS Naturals, Sequences, FiniteSets, SequencesExt

CONSTANTS
  Tablets,       \* requests of the stall's staff that may be open at once
  Names,         \* dish names, trimmed and in lower case
  Ids,           \* external_item_id values a file may carry
  MustTryLimit,  \* MUST_TRY_LIMIT
  Granted,       \* vendor.ai_description_credits
  MaxDishes,     \* bound: menu_item rows
  MaxRequests    \* bound: requests sent in a behaviour

ASSUME MenuAssumption ==
  /\ MustTryLimit \in Nat /\ Granted \in Nat
  /\ MaxDishes \in Nat /\ MaxRequests \in Nat
  /\ "none" \notin Ids /\ "nobody" \notin Tablets

VARIABLES
  dishes,      \* the menu_item rows, oldest first
  generations, \* the outcome column of ai_generation, oldest first
  locker,      \* who holds the vendor row
  tablet,      \* each tablet's open request
  import,      \* the import in its transaction: its file and what it has read
  requests

menuVars == <<dishes, generations, locker, tablet, import, requests>>

Entries == [name : Names, ext : Ids \cup {"none"}]
Availability == {"AVAILABLE", "SOLD_OUT", "TEMPORARILY_UNAVAILABLE"}
Unlocked == "nobody"
Closed == [doing |-> "nothing"]

Dish(entry, availability) ==
  [name |-> entry.name, ext |-> entry.ext, status |-> "ACTIVE",
   availability |-> availability, must_try |-> FALSE]
ByName(n) == [name |-> n, ext |-> "none"]

Picks(i) == {j \in DOMAIN dishes : j # i /\ dishes[j].must_try}
Charged == {g \in DOMAIN generations : generations[g] \in {"OK", "PENDING"}}

MenuInit ==
  /\ \E first \in Names : dishes = <<Dish(ByName(first), "AVAILABLE")>>
  /\ generations = <<>>
  /\ locker = Unlocked
  /\ tablet = [t \in Tablets |-> Closed]
  /\ import = Closed
  /\ requests = 0

-----------------------------------------------------------------------------
(* A request begins.                                                       *)

Send(t, request) ==
  /\ tablet[t] = Closed /\ requests < MaxRequests
  /\ tablet' = [tablet EXCEPT ![t] = request]
  /\ requests' = requests + 1

(* setMustTry, up to its transaction.                                      *)
AskStar(t, i, mustTry) ==
  /\ Send(t, [doing |-> "star", dish |-> i, mustTry |-> mustTry])
  /\ UNCHANGED <<dishes, generations, locker, import>>

(* generate, up to its transaction.                                        *)
AskWords(t) ==
  /\ Send(t, [doing |-> "words"])
  /\ UNCHANGED <<dishes, generations, locker, import>>

(* create: no ACTIVE dish has the name when the request looks.             *)
LookForClash(t, n) ==
  /\ ~\E i \in DOMAIN dishes : dishes[i].name = n /\ dishes[i].status = "ACTIVE"
  /\ Send(t, [doing |-> "add", name |-> n])
  /\ UNCHANGED <<dishes, generations, locker, import>>

-----------------------------------------------------------------------------
(* The allowances.                                                         *)

(* Mutant: the count is taken without waiting for the lock.                *)
LockAndCount_NoLock(t) ==
  /\ tablet[t].doing \in {"star", "words"}
  /\ locker' = t
  /\ tablet' = [tablet EXCEPT ![t] =
       IF @.doing = "star"
       THEN [doing |-> "mark", dish |-> @.dish, mustTry |-> @.mustTry,
             others |-> Cardinality(Picks(@.dish))]
       ELSE [doing |-> "reserve", spent |-> Cardinality(Charged)]]
  /\ UNCHANGED <<dishes, generations, import, requests>>

(* SELECT ... FROM vendor FOR UPDATE, then the count it guards.            *)
LockAndCount(t) ==
  /\ tablet[t].doing \in {"star", "words"} /\ locker = Unlocked
  /\ locker' = t
  /\ tablet' = [tablet EXCEPT ![t] =
       IF @.doing = "star"
       THEN [doing |-> "mark", dish |-> @.dish, mustTry |-> @.mustTry,
             others |-> Cardinality(Picks(@.dish))]
       ELSE [doing |-> "reserve", spent |-> Cardinality(Charged)]]
  /\ UNCHANGED <<dishes, generations, import, requests>>

(* One pick more than the limit is refused; taking one back never is.      *)
Mark(t) ==
  /\ tablet[t].doing = "mark"
  /\ LET r == tablet[t] IN
       dishes' = IF r.mustTry /\ r.others >= MustTryLimit THEN dishes
                 ELSE [dishes EXCEPT ![r.dish].must_try = r.mustTry]
  /\ locker' = Unlocked
  /\ tablet' = [tablet EXCEPT ![t] = Closed]
  /\ UNCHANGED <<generations, import, requests>>

(* The row that holds the credit is there before a provider is called.     *)
Reserve(t) ==
  /\ tablet[t].doing = "reserve"
  /\ locker' = Unlocked
  /\ IF tablet[t].spent >= Granted
     THEN /\ tablet' = [tablet EXCEPT ![t] = Closed]
          /\ UNCHANGED generations
     ELSE /\ tablet' = [tablet EXCEPT ![t] =
               [doing |-> "call", row |-> Len(generations) + 1]]
          /\ generations' = Append(generations, "PENDING")
  /\ UNCHANGED <<dishes, import, requests>>

(* describeDish: one provider answers with a sentence, or all failed.      *)
Described == {"OK", "ALL_PROVIDERS_FAILED"}

Settle(t) ==
  /\ tablet[t].doing = "call"
  /\ \E outcome \in Described :
       generations' = [generations EXCEPT ![tablet[t].row] = outcome]
  /\ tablet' = [tablet EXCEPT ![t] = Closed]
  /\ UNCHANGED <<dishes, locker, import, requests>>

(* The server dies under a request: a transaction is undone with its lock, *)
(* a generation in flight stays PENDING for good.                          *)
Die(t) ==
  /\ tablet[t] # Closed
  /\ tablet' = [tablet EXCEPT ![t] = Closed]
  /\ locker' = IF locker = t THEN Unlocked ELSE locker
  /\ UNCHANGED <<dishes, generations, import, requests>>

-----------------------------------------------------------------------------
(* Editing one dish.  Each is a single UPDATE or INSERT.                   *)

Edit(i, dish) ==
  /\ requests < MaxRequests /\ requests' = requests + 1
  /\ dishes' = [dishes EXCEPT ![i] = dish]
  /\ UNCHANGED <<generations, locker, tablet, import>>

SetAvailability(i, to) == Edit(i, [dishes[i] EXCEPT !.availability = to])

(* update: the new name is not looked up.                                  *)
Rename(i, n) == Edit(i, [dishes[i] EXCEPT !.name = n])

Discontinue(i) == Edit(i, [dishes[i] EXCEPT !.status = "INACTIVE"])

Insert(t) ==
  /\ tablet[t].doing = "add" /\ Len(dishes) < MaxDishes
  /\ dishes' = Append(dishes, Dish(ByName(tablet[t].name), "AVAILABLE"))
  /\ tablet' = [tablet EXCEPT ![t] = Closed]
  /\ UNCHANGED <<generations, locker, import, requests>>

-----------------------------------------------------------------------------
(* The import.  Its first write locks the menu row, so that there is one   *)
(* at a time, and only then it reads the dishes.                           *)

(* assertMenuIsSane: a file of some rows in which an id names one dish.  A *)
(* name repeated without ids is one entry here.                            *)
Sane(file) ==
  /\ file # {} /\ IsFiniteSet(file)
  /\ \A d, e \in file : d.ext = e.ext /\ d.ext # "none" => d = e

(* The columns an import reads.                                            *)
Catalogue(rows) ==
  [i \in DOMAIN rows |->
     [name |-> rows[i].name, ext |-> rows[i].ext, status |-> rows[i].status]]

ReadMenu(file) ==
  /\ import = Closed /\ requests < MaxRequests /\ Sane(file)
  /\ import' = [doing |-> "import", file |-> file, seen |-> Catalogue(dishes)]
  /\ requests' = requests + 1
  /\ UNCHANGED <<dishes, generations, locker, tablet>>

(* keyOf: the id if there is one, else the name.                           *)
KeyOf(d) == IF d.ext = "none" THEN <<"name", d.name>> ELSE <<"ext", d.ext>>
Matches(e) == {i \in DOMAIN import.seen : KeyOf(import.seen[i]) = KeyOf(e)}

(* byKey: of several rows with one key the last that the query returned,   *)
(* in an order it does not ask for.                                        *)
Assignments ==
  {found \in [import.file -> 0..Len(import.seen)] :
     \A e \in import.file :
       IF Matches(e) = {} THEN found[e] = 0 ELSE found[e] \in Matches(e)}

Gone(i) ==
  /\ i \in DOMAIN import.seen /\ import.seen[i].status = "ACTIVE"
  /\ ~\E e \in import.file : KeyOf(e) = KeyOf(import.seen[i])

(* Mutant: a dish that is back in the file stays discontinued.             *)
Updated_StatusKept(dish, e) == [dish EXCEPT !.name = e.name, !.ext = e.ext]

Updated(dish, e) ==
  [dish EXCEPT !.name = e.name, !.ext = e.ext, !.status = "ACTIVE"]

Removed(dish) == [dish EXCEPT !.status = "INACTIVE", !.availability = "AVAILABLE"]

(* The rows that were there, after the loop over the file and the loop     *)
(* over what is gone.                                                      *)
Rewritten(found) ==
  [i \in DOMAIN dishes |->
     IF \E e \in import.file : found[e] = i
     THEN Updated(dishes[i], CHOOSE e \in import.file : found[e] = i)
     ELSE IF Gone(i) THEN Removed(dishes[i]) ELSE dishes[i]]

(* The rows it inserts, on sale or not as the file says.                   *)
Added(found, available) ==
  LET new == SetToSeq({e \in import.file : found[e] = 0})
  IN [k \in DOMAIN new |->
        Dish(new[k], IF new[k] \in available THEN "AVAILABLE" ELSE "TEMPORARILY_UNAVAILABLE")]

ApplyMenu ==
  /\ import # Closed
  /\ \E found \in Assignments, available \in SUBSET import.file :
       /\ dishes' = Rewritten(found) \o Added(found, available)
       /\ Len(dishes') <= MaxDishes
  /\ import' = Closed
  /\ UNCHANGED <<generations, locker, tablet, requests>>

(* A dry run, a file that is refused after all, a server that dies.        *)
RollBack ==
  /\ import # Closed
  /\ import' = Closed
  /\ UNCHANGED <<dishes, generations, locker, tablet, requests>>

MenuNext ==
  \/ \E t \in Tablets :
       \/ \E i \in DOMAIN dishes, mustTry \in BOOLEAN : AskStar(t, i, mustTry)
       \/ AskWords(t)
       \/ \E n \in Names : LookForClash(t, n)
       \/ LockAndCount(t) \/ Mark(t) \/ Reserve(t) \/ Settle(t) \/ Insert(t) \/ Die(t)
  \/ \E i \in DOMAIN dishes :
       \/ \E to \in Availability : SetAvailability(i, to)
       \/ \E n \in Names : Rename(i, n)
       \/ Discontinue(i)
  \/ \E file \in SUBSET Entries : ReadMenu(file)
  \/ ApplyMenu \/ RollBack

MenuSpec == MenuInit /\ [][MenuNext]_menuVars

-----------------------------------------------------------------------------
(* Properties.                                                             *)

(* setMustTry and generate: whichever requests of the stall's tablets      *)
(* overlap, and whatever dies in between, no more dishes are picked than   *)
(* the limit and no more descriptions are charged than were granted.       *)
CapsHold ==
  /\ Cardinality(Picks(0)) <= MustTryLimit
  /\ Cardinality(Charged) <= Granted

(* An import that no edit of the catalogue overtook leaves on sale what    *)
(* its file lists, by name and id: dishes without an id that appear twice, *)
(* dishes discontinued and back included.  A dish that was on sale and     *)
(* still is keeps what the kitchen said of it, even if the kitchen said it *)
(* while the import ran (menu-ingest.ts:12-28).                            *)
ImportIsTheFile ==
  [][ApplyMenu /\ import.seen = Catalogue(dishes) =>
       /\ {[name |-> dishes'[i].name, ext |-> dishes'[i].ext] :
             i \in {i \in DOMAIN dishes' : dishes'[i].status = "ACTIVE"}} = import.file
       /\ \A i \in DOMAIN dishes :
            dishes[i].status = "ACTIVE" /\ dishes'[i].status = "ACTIVE" =>
              /\ dishes'[i].availability = dishes[i].availability
              /\ dishes'[i].must_try = dishes[i].must_try]_menuVars
=============================================================================
