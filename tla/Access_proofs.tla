---------------------------- MODULE Access_proofs ----------------------------
(***************************************************************************)
(* What the row locks of the console and of the sign-in carry, for any     *)
(* number of admins, logins, requests for a code and attempts to use one.  *)
(*                                                                         *)
(* The sign-in rests on the unique index and on the lock of the live row:  *)
(* there is one live code, the newest on record, and while an attempt      *)
(* judges it or a request is about to retire it, nobody else ends it.      *)
(* The console rests on the lock of the vendor row: between the gate and   *)
(* the write, the papers stay what the gate has seen.                      *)
(***************************************************************************)
EXTENDS Access, TLAPS

-----------------------------------------------------------------------------
(* The sign-in.                                                            *)

Rows ==
  [ending : {"none", "superseded", "consumed"}, expired : BOOLEAN,
   sent : {"no", "sent", "failed"}]

Asking ==
  [step : {"new", "retire", "insert", "send", "sent", "failed", "done"},
   retires : Nat, code : Nat]

Trying ==
  [step : {"new", "judge", "refused", "entered"}, typed : Nat, row : Nat]

SignInTypeOK ==
  /\ codes \in Seq(Rows)
  /\ hits \in Nat
  /\ ask \in [Requests -> Asking]
  /\ try \in [Attempts -> Trying]
  /\ locked \in {"none"} \cup Requests \cup Attempts
  /\ inbox \subseteq Nat
  /\ session \in [status : {"none", "live", "expired"}, customer : BOOLEAN]
  /\ sessions \in Nat
  /\ entered \in [1..PerPhone -> Nat]

(* Only the newest code on record can be live.                             *)
NewestIsLive == \A k \in Nat : Live(k) => k = Len(codes)

(* Whoever is between its read and its write of a live row holds the row,  *)
(* and the row is still live.                                              *)
HeldAndLive ==
  /\ \A r \in Requests :
       ask[r].step = "insert" /\ ask[r].retires # None =>
         locked = r /\ Live(ask[r].retires)
  /\ \A t \in Attempts : try[t].step = "judge" => locked = t /\ Live(try[t].row)

(* A code that signed somebody in is used up.                              *)
EnteredIsConsumed ==
  \A k \in 1..PerPhone :
    /\ entered[k] <= 1
    /\ entered[k] # 0 => k \in 1..Len(codes) /\ codes[k].ending = "consumed"

SignInInv == SignInTypeOK /\ NewestIsLive /\ HeldAndLive /\ EnteredIsConsumed

-----------------------------------------------------------------------------
(* The console.                                                            *)

Requested ==
  {Idle}
  \cup [doing : {"court", "lock", "assess", "status"}, to : EntityStatus]
  \cup [doing : {"issue", "unissue", "create"}]
  \cup [doing : {"invite"}, who : Logins]

ConsoleTypeOK ==
  /\ court \in EntityStatus
  /\ qr \in Nat /\ tokens \in Nat
  /\ stall \in EntityStatus \cup {"absent"}
  /\ papers \in BOOLEAN
  /\ login \in [Logins -> {"absent", "ACTIVE", "SUSPENDED"}]
  /\ role \in [Logins -> {"absent", "ACTIVE", "INACTIVE"}]
  /\ desk \in [Admins -> Requested]
  /\ holder \in Admins \cup {Nobody}
  /\ edits \in Nat

(* Past the lock the vendor row is held, and past the gate of an opening   *)
(* its papers are complete.                                                *)
GateHeld ==
  \A a \in Admins :
    /\ desk[a].doing \in {"assess", "status"} => holder = a
    /\ desk[a].doing = "status" /\ desk[a].to = "ACTIVE" => papers

ConsoleInv == ConsoleTypeOK /\ GateHeld

-----------------------------------------------------------------------------
(* What the writes of the sign-in make of the rows.                        *)

LEMMA InsertedRows ==
  ASSUME SignInTypeOK, NEW retired \in Nat
  PROVE  /\ Inserted(retired) \in Seq(Rows)
         /\ Len(Inserted(retired)) = Len(codes) + 1
         /\ \A k \in 1..Len(codes) :
              Inserted(retired)[k].ending =
                IF k = retired THEN "superseded" ELSE codes[k].ending
         /\ Inserted(retired)[Len(codes) + 1].ending = "none"
<1> DEFINE old == [k \in 1..Len(codes) |->
                     IF k = retired THEN [codes[k] EXCEPT !.ending = "superseded"]
                     ELSE codes[k]]
           new == [ending |-> "none", expired |-> FALSE, sent |-> "no"]
<1>1. codes \in Seq(Rows) /\ Len(codes) \in Nat
  BY DEF SignInTypeOK
<1>2. \A k \in 1..Len(codes) : codes[k] \in Rows
  BY <1>1
<1>3. /\ \A k \in 1..Len(codes) : old[k] \in Rows
      /\ \A k \in 1..Len(codes) :
           old[k].ending = IF k = retired THEN "superseded" ELSE codes[k].ending
  BY <1>2 DEF Rows
<1>4. old \in Seq(Rows) /\ Len(old) = Len(codes)
  BY <1>1, <1>3
<1>5. new \in Rows /\ new.ending = "none"
  BY DEF Rows
<1> HIDE DEF old, new
<1>6. Inserted(retired) = Append(old, new)
  BY DEF Inserted, old, new
<1> QED
  BY <1>1, <1>3, <1>4, <1>5, <1>6

LEMMA MarkedRows ==
  ASSUME SignInTypeOK, NEW how \in {"sent", "failed"},
         codes' = [k \in 1..Len(codes) |->
                     IF Live(k) THEN [codes[k] EXCEPT !.sent = how] ELSE codes[k]]
  PROVE  /\ codes' \in Seq(Rows) /\ Len(codes') = Len(codes)
         /\ \A k \in 1..Len(codes) : codes'[k].ending = codes[k].ending
<1>1. Len(codes) \in Nat /\ \A k \in 1..Len(codes) : codes[k] \in Rows
  BY DEF SignInTypeOK
<1>2. \A k \in 1..Len(codes) : codes'[k] \in Rows /\ codes'[k].ending = codes[k].ending
  BY <1>1 DEF Rows
<1> QED
  BY <1>1, <1>2

(* One field of one row written.                                           *)
LEMMA WrittenRow ==
  ASSUME SignInTypeOK, NEW k \in 1..Len(codes), NEW row \in Rows,
         codes' = [codes EXCEPT ![k] = row]
  PROVE  /\ codes' \in Seq(Rows) /\ Len(codes') = Len(codes)
         /\ codes'[k] = row
         /\ \A j \in 1..Len(codes) : j # k => codes'[j] = codes[j]
  BY DEF SignInTypeOK

(* A live code is found among the rows.                                    *)
LEMMA LiveIsARow ==
  ASSUME SignInTypeOK, NEW k, Live(k)
  PROVE  /\ k \in Nat \ {None} /\ k \in 1..Len(codes) /\ codes[k] \in Rows
         /\ codes[k].ending = "none"
  BY DEF SignInTypeOK, Live, None

(* A step that ends no code, and opens none, leaves the rest of the        *)
(* invariant to who holds what.                                            *)
LEMMA SameEndings ==
  ASSUME SignInInv, codes' \in Seq(Rows), Len(codes') = Len(codes),
         \A k \in 1..Len(codes) : codes'[k].ending = codes[k].ending,
         entered' = entered
  PROVE  /\ \A k : Live(k)' <=> Live(k)
         /\ NewestIsLive' /\ EnteredIsConsumed'
<1>1. \A k : Live(k)' <=> Live(k)
  BY DEF Live
<1>2. NewestIsLive'
  BY <1>1 DEF SignInInv, NewestIsLive
<1>3. EnteredIsConsumed'
  BY DEF SignInInv, EnteredIsConsumed
<1> QED
  BY <1>1, <1>2, <1>3

-----------------------------------------------------------------------------
(* The steps of the sign-in.                                               *)

LEMMA SignInStarts == SignInInit => SignInInv
<1> SUFFICES ASSUME SignInInit PROVE SignInInv
  OBVIOUS
<1> USE SignInAssumption DEF SignInInit
<1>1. SignInTypeOK
  BY DEF SignInTypeOK, Asking, Trying, None, WrongCode
<1>2. \A k : ~Live(k)
  BY DEF Live
<1>3. NewestIsLive /\ HeldAndLive
  BY <1>2 DEF NewestIsLive, HeldAndLive, None
<1>4. EnteredIsConsumed
  BY DEF EnteredIsConsumed
<1> QED
  BY <1>1, <1>3, <1>4 DEF SignInInv

(* A request goes on while no code ends and the lock stays where it is.    *)
LEMMA AskGoesOn ==
  ASSUME SignInInv, NEW r \in Requests, ask[r].step # "insert",
         NEW step \in {"retire", "sent", "failed", "done"},
         ask' = [ask EXCEPT ![r].step = step],
         codes' \in Seq(Rows), Len(codes') = Len(codes),
         \A k \in 1..Len(codes) : codes'[k].ending = codes[k].ending,
         hits' \in Nat, inbox' \subseteq Nat,
         UNCHANGED <<try, locked, session, sessions, entered>>
  PROVE  SignInInv'
<1>1. SignInTypeOK'
  BY DEF SignInInv, SignInTypeOK, Asking
<1>2. /\ \A k : Live(k)' <=> Live(k)
      /\ NewestIsLive' /\ EnteredIsConsumed'
  BY SameEndings
<1>3. \A q \in Requests :
        ask'[q].step = "insert" => ask[q].step = "insert" /\ ask'[q] = ask[q]
  BY DEF SignInInv, SignInTypeOK, Asking
<1>4. HeldAndLive'
  BY <1>2, <1>3 DEF SignInInv, HeldAndLive
<1> QED
  BY <1>1, <1>2, <1>4 DEF SignInInv

LEMMA ConsumeKeeps ==
  ASSUME SignInInv, NEW r \in Requests, Consume(r)
  PROVE  SignInInv'
<1>1. PICK step \in {"retire", "done"} : ask' = [ask EXCEPT ![r].step = step]
  BY DEF Consume
<1>2. codes' \in Seq(Rows) /\ inbox' \subseteq Nat /\ hits' \in Nat
  BY DEF Consume, SignInInv, SignInTypeOK
<1> QED
  BY <1>1, <1>2, AskGoesOn DEF Consume

LEMMA RetireKeeps ==
  ASSUME SignInInv, NEW r \in Requests, RetireCode(r)
  PROVE  SignInInv'
<1> DEFINE k == IF LiveCodes = {} THEN None ELSE CHOOSE k \in LiveCodes : TRUE
<1>1. k # None => LiveCodes # {} /\ Live(k)
  BY DEF LiveCodes
<1>2. k \in Nat
  BY DEF SignInInv, SignInTypeOK, LiveCodes, None
<1>3. LiveCodes # {} => k # None
  BY DEF SignInInv, SignInTypeOK, LiveCodes, None
<1>4. /\ ask[r].step = "retire" /\ locked = "none"
      /\ ask' = [ask EXCEPT ![r].step = "insert", ![r].retires = k]
      /\ locked' = IF LiveCodes = {} THEN "none" ELSE r
      /\ UNCHANGED <<codes, hits, try, inbox, session, sessions, entered>>
  BY DEF RetireCode
<1> HIDE DEF k
<1>5. SignInTypeOK'
  <2>1. ask' \in [Requests -> Asking]
    <3>1. ask[r] \in Asking /\ ask \in [Requests -> Asking]
      BY DEF SignInInv, SignInTypeOK
    <3>2. [ask[r] EXCEPT !.step = "insert", !.retires = k] \in Asking
      BY <1>2, <3>1 DEF Asking
    <3>3. ask' = [ask EXCEPT ![r] = [ask[r] EXCEPT !.step = "insert", !.retires = k]]
      BY <1>4, <3>1
    <3> QED
      BY <3>1, <3>2, <3>3
  <2> QED
    BY <1>4, <2>1 DEF SignInInv, SignInTypeOK
<1>6. /\ \A j : Live(j)' <=> Live(j)
      /\ NewestIsLive' /\ EnteredIsConsumed'
  BY <1>4 DEF SignInInv, Live, NewestIsLive, EnteredIsConsumed
<1>7. HeldAndLive'
  <2>1. /\ \A q \in Requests : ~(ask[q].step = "insert" /\ ask[q].retires # None)
        /\ \A t \in Attempts : try[t].step # "judge"
    BY <1>4, SignInAssumption DEF SignInInv, HeldAndLive
  <2>2. \A q \in Requests : q # r => ask'[q] = ask[q]
    BY <1>4 DEF SignInInv, SignInTypeOK
  <2>3. ask'[r].retires = k
    BY <1>4 DEF SignInInv, SignInTypeOK, Asking
  <2> QED
    BY <1>1, <1>3, <1>4, <1>6, <2>1, <2>2, <2>3 DEF HeldAndLive
<1> QED
  BY <1>5, <1>6, <1>7 DEF SignInInv

(* The unique index: with what it retires gone, the new code is alone.     *)
LEMMA InsertKeeps ==
  ASSUME SignInInv, NEW r \in Requests, InsertCode(r)
  PROVE  SignInInv'
<1> DEFINE old == ask[r].retires
<1>1. /\ ask[r].step = "insert" /\ old \in Nat /\ ask[r].code \in Nat
      /\ locked' = IF locked = r THEN "none" ELSE locked
      /\ UNCHANGED <<hits, try, inbox, session, sessions, entered>>
  BY DEF InsertCode, SignInInv, SignInTypeOK, Asking
<1>2. \A q \in Requests : q # r => ask'[q] = ask[q]
  BY DEF InsertCode, SignInInv, SignInTypeOK
<1>3. \A q \in Requests :
        q # r /\ ask[q].step = "insert" /\ ask[q].retires # None => locked # r
  BY DEF SignInInv, HeldAndLive
<1>4. \A t \in Attempts : try[t].step = "judge" => locked = t /\ locked # r
  BY SignInAssumption DEF SignInInv, HeldAndLive
<1>5. locked' \in {"none"} \cup Requests \cup Attempts
  BY <1>1 DEF SignInInv, SignInTypeOK
<1>6. CASE ~(LiveCodes \subseteq {old})
  <2>1. codes' = codes /\ ask' = [ask EXCEPT ![r].step = "done"]
    BY <1>6 DEF InsertCode
  <2>2. SignInTypeOK'
    BY <1>1, <1>5, <2>1 DEF SignInInv, SignInTypeOK, Asking
  <2>3. /\ \A k : Live(k)' <=> Live(k)
        /\ NewestIsLive' /\ EnteredIsConsumed'
    BY <1>1, <2>1 DEF SignInInv, Live, NewestIsLive, EnteredIsConsumed
  <2>4. ask'[r].step = "done"
    BY <2>1 DEF SignInInv, SignInTypeOK, Asking
  <2>5. HeldAndLive'
    BY <1>1, <1>2, <1>3, <1>4, <2>3, <2>4 DEF SignInInv, HeldAndLive
  <2> QED
    BY <2>2, <2>3, <2>5 DEF SignInInv
<1>7. CASE LiveCodes \subseteq {old}
  <2>1. /\ codes' = Inserted(old)
        /\ ask' = [ask EXCEPT ![r].step = "send", ![r].code = Len(codes) + 1]
    BY <1>7 DEF InsertCode
  <2>2. /\ codes' \in Seq(Rows) /\ Len(codes') = Len(codes) + 1
        /\ \A k \in 1..Len(codes) :
             codes'[k].ending = IF k = old THEN "superseded" ELSE codes[k].ending
        /\ codes'[Len(codes) + 1].ending = "none"
    BY <1>1, <2>1, InsertedRows DEF SignInInv
  <2>3. Len(codes) \in Nat
    BY DEF SignInInv, SignInTypeOK
  <2>4. SignInTypeOK'
    <3> DEFINE n == Len(codes) + 1
    <3>1. ask' = [ask EXCEPT ![r].step = "send", ![r].code = n] /\ n \in Nat
      BY <2>1, <2>3
    <3> HIDE DEF n
    <3>2. ask \in [Requests -> Asking]
      BY DEF SignInInv, SignInTypeOK
    <3>3. ask' \in [Requests -> Asking]
      BY <3>1, <3>2 DEF Asking
    <3> QED
      BY <1>1, <1>5, <2>2, <3>3 DEF SignInInv, SignInTypeOK
  <2>5. \A k \in 1..Len(codes) : codes'[k].ending # "none"
    BY <1>7, <2>2 DEF LiveCodes, Live
  <2>6. NewestIsLive'
    BY <2>2, <2>3, <2>5 DEF NewestIsLive, Live
  <2>7. old \in 1..Len(codes) => codes[old].ending # "consumed"
    BY <1>1 DEF SignInInv, HeldAndLive, Live, None
  <2>8. EnteredIsConsumed'
    BY <1>1, <2>2, <2>3, <2>7 DEF SignInInv, EnteredIsConsumed
  <2>9. HeldAndLive'
    <3>1. ask'[r].step = "send"
      BY <2>1 DEF SignInInv, SignInTypeOK, Asking
    <3>2. \A q \in Requests :
            q # r => ~(ask[q].step = "insert" /\ ask[q].retires # None)
      <4> SUFFICES ASSUME NEW q \in Requests, q # r,
                          ask[q].step = "insert", ask[q].retires # None
          PROVE  FALSE
        OBVIOUS
      <4>1. locked = q /\ Live(ask[q].retires)
        BY DEF SignInInv, HeldAndLive
      <4>2. old = None
        BY <1>1, <4>1 DEF SignInInv, HeldAndLive
      <4>3. ask[q].retires \in LiveCodes
        BY <4>1, LiveIsARow DEF SignInInv, LiveCodes
      <4> QED
        BY <1>7, <4>2, <4>3
    <3>3. \A t \in Attempts : try[t].step # "judge"
      <4> SUFFICES ASSUME NEW t \in Attempts, try[t].step = "judge"
          PROVE  FALSE
        OBVIOUS
      <4>1. locked = t /\ locked # r /\ Live(try[t].row)
        BY <1>4 DEF SignInInv, HeldAndLive
      <4>2. old = None
        BY <1>1, <4>1 DEF SignInInv, HeldAndLive
      <4>3. try[t].row \in LiveCodes /\ try[t].row # None
        BY <4>1, LiveIsARow DEF SignInInv, LiveCodes
      <4> QED
        BY <1>7, <4>2, <4>3
    <3> QED
      BY <1>1, <1>2, <3>1, <3>2, <3>3 DEF HeldAndLive
  <2> QED
    BY <2>4, <2>6, <2>8, <2>9 DEF SignInInv
<1> QED
  BY <1>6, <1>7

LEMMA SendKeeps ==
  ASSUME SignInInv, NEW r \in Requests, SendCode(r)
  PROVE  SignInInv'
<1>1. PICK step \in {"sent", "failed"} : ask' = [ask EXCEPT ![r].step = step]
  BY DEF SendCode
<1>2. codes' \in Seq(Rows) /\ inbox' \subseteq Nat /\ hits' \in Nat
  BY DEF SendCode, SignInInv, SignInTypeOK, Asking
<1>3. ask[r].step = "send" /\ codes' = codes
  BY DEF SendCode
<1>4. UNCHANGED <<try, locked, session, sessions, entered>>
  BY DEF SendCode
<1> QED
  BY <1>1, <1>2, <1>3, <1>4, AskGoesOn

LEMMA MarkKeeps ==
  ASSUME SignInInv, NEW r \in Requests, MarkCode(r)
  PROVE  SignInInv'
<1>1. ask[r].step \in {"sent", "failed"} /\ ask' = [ask EXCEPT ![r].step = "done"]
  BY DEF MarkCode
<1>2. /\ codes' \in Seq(Rows) /\ Len(codes') = Len(codes)
      /\ \A k \in 1..Len(codes) : codes'[k].ending = codes[k].ending
  BY <1>1, MarkedRows DEF MarkCode, SignInInv
<1>3. UNCHANGED <<hits, try, inbox, locked, session, sessions, entered>>
  BY DEF MarkCode
<1>4. inbox' \subseteq Nat /\ hits' \in Nat
  BY <1>3 DEF SignInInv, SignInTypeOK
<1> QED
  BY <1>1, <1>2, <1>3, <1>4, AskGoesOn

LEMMA CodeExpiresKeeps ==
  ASSUME SignInInv, NEW j \in 1..PerPhone, CodeExpires(j)
  PROVE  SignInInv'
<1> DEFINE row == [codes[j] EXCEPT !.expired = TRUE]
<1>1. j \in 1..Len(codes) /\ codes[j] \in Rows
  BY LiveIsARow DEF CodeExpires, SignInInv
<1>2. row \in Rows /\ row.ending = codes[j].ending
  BY <1>1 DEF Rows
<1>3. codes' = [codes EXCEPT ![j] = row]
  BY DEF CodeExpires
<1> HIDE DEF row
<1>4. /\ codes' \in Seq(Rows) /\ Len(codes') = Len(codes)
      /\ \A k \in 1..Len(codes) : codes'[k].ending = codes[k].ending
  BY <1>1, <1>2, <1>3, WrittenRow DEF SignInInv
<1>5. UNCHANGED <<hits, ask, try, locked, inbox, session, sessions, entered>>
  BY DEF CodeExpires
<1>6. SignInTypeOK'
  BY <1>4, <1>5 DEF SignInInv, SignInTypeOK
<1>7. /\ \A k : Live(k)' <=> Live(k)
      /\ NewestIsLive' /\ EnteredIsConsumed'
  BY <1>4, <1>5, SameEndings
<1>8. HeldAndLive'
  BY <1>5, <1>7 DEF SignInInv, HeldAndLive
<1> QED
  BY <1>6, <1>7, <1>8 DEF SignInInv

LEMMA ReadKeeps ==
  ASSUME SignInInv, NEW t \in Attempts, NEW typed \in inbox \cup {WrongCode},
         ReadCode(t, typed)
  PROVE  SignInInv'
<1> DEFINE k == IF LiveCodes = {} THEN None ELSE CHOOSE k \in LiveCodes : TRUE
           step == IF LiveCodes = {} THEN "refused" ELSE "judge"
<1>1. /\ LiveCodes # {} => Live(k)
      /\ k \in Nat /\ step \in {"refused", "judge"}
  BY DEF SignInInv, SignInTypeOK, LiveCodes, None
<1>2. /\ locked = "none" /\ try[t].step = "new"
      /\ try' = [try EXCEPT ![t] = [step |-> step, typed |-> typed, row |-> k]]
      /\ locked' = IF LiveCodes = {} THEN "none" ELSE t
      /\ UNCHANGED <<codes, hits, ask, inbox, session, sessions, entered>>
  BY DEF ReadCode
<1>3. step = "judge" => LiveCodes # {}
  OBVIOUS
<1> HIDE DEF k, step
<1>4. typed \in Nat
  BY DEF SignInInv, SignInTypeOK, WrongCode
<1>5. SignInTypeOK'
  BY <1>1, <1>2, <1>4 DEF SignInInv, SignInTypeOK, Trying
<1>6. /\ \A j : Live(j)' <=> Live(j)
      /\ NewestIsLive' /\ EnteredIsConsumed'
  BY <1>2 DEF SignInInv, Live, NewestIsLive, EnteredIsConsumed
<1>7. HeldAndLive'
  <2>1. /\ \A q \in Requests : ~(ask[q].step = "insert" /\ ask[q].retires # None)
        /\ \A u \in Attempts : try[u].step # "judge"
    BY <1>2, SignInAssumption DEF SignInInv, HeldAndLive
  <2>2. /\ \A u \in Attempts : u # t => try'[u] = try[u]
        /\ try'[t].step = step /\ try'[t].row = k
    BY <1>2 DEF SignInInv, SignInTypeOK
  <2> QED
    BY <1>1, <1>2, <1>3, <1>6, <2>1, <2>2 DEF HeldAndLive
<1> QED
  BY <1>5, <1>6, <1>7 DEF SignInInv

(* An attempt that judges a row has it to itself, live and never used.     *)
LEMMA WhatIsJudged ==
  ASSUME SignInInv, NEW t \in Attempts, try[t].step = "judge"
  PROVE  /\ locked = t /\ Live(try[t].row)
         /\ try[t].row = Len(codes) /\ try[t].row \in 1..Len(codes)
         /\ codes[try[t].row] \in Rows
         /\ try[t].row \in 1..PerPhone => entered[try[t].row] = 0
<1>1. locked = t /\ Live(try[t].row)
  BY DEF SignInInv, HeldAndLive
<1>2. /\ try[t].row \in 1..Len(codes) /\ codes[try[t].row] \in Rows
      /\ codes[try[t].row].ending = "none" /\ try[t].row \in Nat
  BY <1>1, LiveIsARow DEF SignInInv
<1>3. try[t].row = Len(codes)
  BY <1>1, <1>2 DEF SignInInv, NewestIsLive
<1>4. try[t].row \in 1..PerPhone => entered[try[t].row] = 0
  BY <1>2 DEF SignInInv, EnteredIsConsumed
<1> QED
  BY <1>1, <1>2, <1>3, <1>4

(* A counter among 1..n that goes up from zero is one, and the others stay *)
(* where they were.                                                        *)
LEMMA CountedUp ==
  ASSUME NEW n \in Nat, NEW f \in [1..n -> Nat], NEW k \in Nat,
         k \in 1..n => f[k] = 0
  PROVE  LET g == [f EXCEPT ![k] = f[k] + 1] IN
           /\ g \in [1..n -> Nat]
           /\ k \in 1..n => g[k] = 1
           /\ \A j \in 1..n : j # k => g[j] = f[j]
<1>1. CASE k \in 1..n
  BY <1>1
<1>2. CASE k \notin 1..n
  BY <1>2
<1> QED
  BY <1>1, <1>2

LEMMA JudgeKeeps ==
  ASSUME SignInInv, NEW t \in Attempts, Judge(t)
  PROVE  SignInInv'
<1>0. PICK k \in Nat : k = try[t].row
  BY DEF SignInInv, SignInTypeOK, Trying
<1> DEFINE row == [codes[k] EXCEPT !.ending = "consumed"]
<1>1. try[t].step = "judge" /\ UNCHANGED <<hits, ask, inbox, sessions>>
  BY DEF Judge
<1>2. /\ locked = t /\ Live(k) /\ k = Len(codes) /\ k \in 1..Len(codes)
      /\ codes[k] \in Rows /\ (k \in 1..PerPhone => entered[k] = 0)
  BY <1>0, <1>1, WhatIsJudged
<1>3. locked' = "none"
  BY <1>2 DEF Judge
<1>4. /\ \A q \in Requests : ~(ask[q].step = "insert" /\ ask[q].retires # None)
      /\ \A u \in Attempts : u # t => try[u].step # "judge"
  BY <1>2, SignInAssumption DEF SignInInv, HeldAndLive
<1>6. /\ try' \in [Attempts -> Trying]
      /\ \A u \in Attempts : try'[u].step # "judge"
  <2>1. PICK end \in {"entered", "refused"} : try' = [try EXCEPT ![t].step = end]
    BY DEF Judge
  <2> QED
    BY <1>4, <2>1 DEF SignInInv, SignInTypeOK, Trying
<1>7. HeldAndLive'
  BY <1>1, <1>4, <1>6 DEF HeldAndLive
<1>8. CASE verifyOtp(k, try[t].typed)
  <2>1. codes' = [codes EXCEPT ![k] = row]
    BY <1>0, <1>8 DEF Judge
  <2>9. entered' = [entered EXCEPT ![k] = entered[k] + 1]
    BY <1>0, <1>8 DEF Judge
  <2>2. row \in Rows /\ row.ending = "consumed"
    BY <1>2 DEF Rows
  <2> HIDE DEF row
  <2>3. /\ codes' \in Seq(Rows) /\ Len(codes') = Len(codes) /\ codes'[k] = row
        /\ \A j \in 1..Len(codes) : j # k => codes'[j] = codes[j]
    BY <1>2, <2>1, <2>2, WrittenRow DEF SignInInv
  <2>4. session' \in [status : {"none", "live", "expired"}, customer : BOOLEAN]
    <3> DEFINE b == session.customer \/ session.status = "live"
    <3>1. session' = [session EXCEPT !.customer = b] /\ b \in BOOLEAN
      BY <1>0, <1>8 DEF Judge
    <3> HIDE DEF b
    <3>2. session \in [status : {"none", "live", "expired"}, customer : BOOLEAN]
      BY DEF SignInInv, SignInTypeOK
    <3> QED
      BY <3>1, <3>2
  <2>10. entered \in [1..PerPhone -> Nat] /\ PerPhone \in Nat
    BY SignInAssumption DEF SignInInv, SignInTypeOK
  <2>11. k \in 1..PerPhone => entered[k] = 0
    BY <1>2
  <2>5. /\ entered' \in [1..PerPhone -> Nat]
        /\ k \in 1..PerPhone => entered'[k] = 1
        /\ \A j \in 1..PerPhone : j # k => entered'[j] = entered[j]
    <3> DEFINE up == [entered EXCEPT ![k] = entered[k] + 1]
    <3>1. /\ up \in [1..PerPhone -> Nat]
          /\ k \in 1..PerPhone => up[k] = 1
          /\ \A j \in 1..PerPhone : j # k => up[j] = entered[j]
      BY <2>10, <2>11, CountedUp
    <3>2. entered' = up
      BY <2>9
    <3> HIDE DEF up
    <3> QED
      BY <3>1, <3>2
  <2>6. SignInTypeOK'
    BY <1>1, <1>3, <1>6, <2>3, <2>4, <2>5 DEF SignInInv, SignInTypeOK
  <2>7. NewestIsLive'
    BY <2>2, <2>3 DEF SignInInv, NewestIsLive, Live
  <2>8. EnteredIsConsumed'
    <3> SUFFICES ASSUME NEW j \in 1..PerPhone
        PROVE  /\ entered'[j] <= 1
               /\ entered'[j] # 0 => j \in 1..Len(codes') /\ codes'[j].ending = "consumed"
      BY DEF EnteredIsConsumed
    <3>1. CASE j = k
      <4>1. k \in 1..PerPhone
        BY <3>1
      <4>3. entered'[j] = 1
        BY <2>5, <3>1, <4>1
      <4>4. k \in 1..Len(codes') /\ codes'[k].ending = "consumed"
        BY <1>2, <2>2, <2>3
      <4> QED
        BY <3>1, <4>3, <4>4
    <3>2. CASE j # k
      <4>1. entered'[j] = entered[j]
        BY <2>5, <3>2
      <4> QED
        BY <2>3, <3>2, <4>1 DEF SignInInv, EnteredIsConsumed
    <3> QED
      BY <3>1, <3>2
  <2> QED
    BY <1>7, <2>6, <2>7, <2>8 DEF SignInInv
<1>9. CASE ~verifyOtp(k, try[t].typed)
  <2>1. UNCHANGED <<codes, entered, session>>
    BY <1>0, <1>9 DEF Judge
  <2>2. SignInTypeOK'
    BY <1>1, <1>3, <1>6, <2>1 DEF SignInInv, SignInTypeOK
  <2>3. NewestIsLive' /\ EnteredIsConsumed'
    BY <2>1 DEF SignInInv, NewestIsLive, EnteredIsConsumed, Live
  <2> QED
    BY <1>7, <2>2, <2>3 DEF SignInInv
<1> QED
  BY <1>8, <1>9

(* Scans and sessions concern no code.                                     *)
LEMMA SessionKeeps ==
  ASSUME SignInInv,
         session' \in [status : {"none", "live", "expired"}, customer : BOOLEAN],
         sessions' \in Nat,
         UNCHANGED <<codes, hits, ask, try, locked, inbox, entered>>
  PROVE  SignInInv'
<1>1. SignInTypeOK'
  BY DEF SignInInv, SignInTypeOK
<1>2. NewestIsLive' /\ EnteredIsConsumed' /\ HeldAndLive'
  BY DEF SignInInv, NewestIsLive, EnteredIsConsumed, HeldAndLive, Live
<1> QED
  BY <1>1, <1>2 DEF SignInInv

LEMMA ScanKeeps == SignInInv /\ Scan => SignInInv'
<1> SUFFICES ASSUME SignInInv, Scan PROVE SignInInv'
  OBVIOUS
<1>1. /\ session' \in [status : {"none", "live", "expired"}, customer : BOOLEAN]
      /\ sessions' \in Nat
  <2>1. /\ session \in [status : {"none", "live", "expired"}, customer : BOOLEAN]
        /\ sessions \in Nat
    BY DEF SignInInv, SignInTypeOK
  <2>2. CASE session.status = "live"
    BY <2>1, <2>2 DEF Scan
  <2>3. CASE session.status # "live"
    <3>1. session' = [status |-> "live", customer |-> FALSE] /\ sessions' = sessions + 1
      BY <2>3 DEF Scan
    <3> QED
      BY <2>1, <3>1
  <2> QED
    BY <2>2, <2>3
<1> QED
  BY <1>1, SessionKeeps DEF Scan

LEMMA ExpiryKeeps == SignInInv /\ SessionExpires => SignInInv'
<1> SUFFICES ASSUME SignInInv, SessionExpires PROVE SignInInv'
  OBVIOUS
<1>1. /\ session' \in [status : {"none", "live", "expired"}, customer : BOOLEAN]
      /\ sessions' \in Nat
  BY DEF SessionExpires, SignInInv, SignInTypeOK
<1> QED
  BY <1>1, SessionKeeps DEF SessionExpires

LEMMA SignInSteps == SignInInv /\ SignInNext => SignInInv'
  BY ExpiryKeeps, ConsumeKeeps, RetireKeeps, InsertKeeps, SendKeeps, MarkKeeps,
     CodeExpiresKeeps, JudgeKeeps, ReadKeeps DEF SignInNext

LEMMA SignInRests == SignInInv /\ UNCHANGED signInVars => SignInInv'
<1> SUFFICES ASSUME SignInInv, UNCHANGED signInVars PROVE SignInInv'
  OBVIOUS
<1>1. /\ session' \in [status : {"none", "live", "expired"}, customer : BOOLEAN]
      /\ sessions' \in Nat
  BY DEF signInVars, SignInInv, SignInTypeOK
<1> QED
  BY <1>1, SessionKeeps DEF signInVars

LEMMA SignInIsSafe == Spec => []SignInInv
<1>1. Init => SignInInv
  BY SignInStarts DEF Init
<1>2. SignInInv /\ [Next]_vars => SignInInv'
  BY SignInSteps, SignInRests, ScanKeeps
  DEF Next, AtTheDesks, OnThePhone, ScanPoster, vars, signInVars
<1> QED
  BY <1>1, <1>2, PTL DEF Spec

-----------------------------------------------------------------------------
(* Every variable of the sign-in keeps its type                            *)
(* (identity/customer-auth.controller.ts).                                 *)
THEOREM SignInTypes == Spec => []SignInTypeOK
<1>1. SignInInv => SignInTypeOK
  BY DEF SignInInv
<1> QED
  BY <1>1, SignInIsSafe, PTL

(* However many attempts submit one code, and whatever is asked for        *)
(* meanwhile, it signs in once (customer-auth.controller.ts verify).       *)
THEOREM EntersOnce == Spec => []CodeEntersOnce
<1>1. SignInInv => CodeEntersOnce
  BY DEF SignInInv, SignInTypeOK, EnteredIsConsumed, CodeEntersOnce
<1> QED
  BY <1>1, SignInIsSafe, PTL

(* Whoever is signed in is signed in by the newest code on record          *)
(* (customer-auth.controller.ts request, verify).                          *)
THEOREM NewestEnters == Spec => OnlyTheNewestEnters
<1>1. SignInInv /\ [Next]_vars =>
        [\A k \in DOMAIN entered : entered'[k] # entered[k] => k = Len(codes)]_signInVars
  <2> SUFFICES ASSUME SignInInv, [Next]_vars, entered' # entered,
                      NEW k \in DOMAIN entered, entered'[k] # entered[k]
      PROVE  k = Len(codes)
    OBVIOUS
  <2>1. PICK t \in Attempts : Judge(t)
    BY DEF Next, AtTheDesks, OnThePhone, ScanPoster, Scan, vars, signInVars, SignInNext,
           SessionExpires, Consume, RetireCode, InsertCode, SendCode, MarkCode,
           CodeExpires, ReadCode
  <2>2. entered' = [entered EXCEPT ![try[t].row] = @ + 1] /\ try[t].step = "judge"
    BY <2>1 DEF Judge
  <2>3. k = try[t].row
    BY <2>2 DEF SignInInv, SignInTypeOK
  <2> QED
    BY <2>2, <2>3, WhatIsJudged
<1> QED
  BY <1>1, SignInIsSafe, PTL DEF Spec, OnlyTheNewestEnters

-----------------------------------------------------------------------------
(* The console, one admin's request at a time.                             *)

Steps == [doing : {"court", "lock", "assess", "status"}, to : EntityStatus]

(* What a request carries once it is known what it is.                     *)
LEMMA DeskOf ==
  ASSUME ConsoleTypeOK, NEW a \in Admins
  PROVE  /\ desk[a] \in Requested
         /\ desk[a].doing \in {"court", "lock", "assess", "status"} => desk[a] \in Steps
         /\ desk[a].doing = "invite" => desk[a].who \in Logins
  BY DEF ConsoleTypeOK, Requested, Idle, Steps

(* A request taken up or laid down touches one desk.                       *)
LEMMA OneDesk ==
  ASSUME ConsoleTypeOK, NEW a \in Admins, NEW request \in Requested,
         desk' = [desk EXCEPT ![a] = request]
  PROVE  /\ desk' \in [Admins -> Requested] /\ desk'[a] = request
         /\ \A b \in Admins : b # a => desk'[b] = desk[b]
  BY DEF ConsoleTypeOK

LEMMA AskTypes ==
  ASSUME ConsoleTypeOK, NEW a \in Admins, NEW request \in Requested, Asks(a, request)
  PROVE  /\ desk' \in [Admins -> Requested] /\ desk'[a] = request /\ edits' \in Nat
         /\ \A b \in Admins : b # a => desk'[b] = desk[b]
  BY OneDesk DEF Asks, ConsoleTypeOK

LEMMA DoneTypes ==
  ASSUME ConsoleTypeOK, NEW a \in Admins, Done(a)
  PROVE  /\ desk' \in [Admins -> Requested] /\ desk'[a] = Idle /\ edits' \in Nat
         /\ \A b \in Admins : b # a => desk'[b] = desk[b]
<1>1. Idle \in Requested
  BY DEF Requested
<1> QED
  BY <1>1, OneDesk DEF Done, ConsoleTypeOK

LEMMA ProceedTypes ==
  ASSUME ConsoleTypeOK, NEW a \in Admins, NEW step \in {"assess", "status"},
         desk[a].doing \in {"lock", "assess"}, Proceeds(a, step)
  PROVE  /\ desk' \in [Admins -> Requested] /\ edits' \in Nat
         /\ desk'[a].doing = step /\ desk'[a].to = desk[a].to
         /\ \A b \in Admins : b # a => desk'[b] = desk[b]
<1> DEFINE next == [desk[a] EXCEPT !.doing = step]
<1>1. desk[a] \in Steps
  BY DeskOf
<1>2. next \in Steps /\ next.doing = step /\ next.to = desk[a].to
  BY <1>1 DEF Steps
<1>3. next \in Requested
  BY <1>2 DEF Requested, Steps
<1>4. desk' = [desk EXCEPT ![a] = next]
  BY DEF Proceeds
<1> HIDE DEF next
<1> QED
  BY <1>2, <1>3, <1>4, OneDesk DEF Proceeds, ConsoleTypeOK

(* A step that leaves the vendor row and its lock alone, and takes nobody  *)
(* past the lock, keeps the invariant.                                     *)
LEMMA ElsewhereKeeps ==
  ASSUME ConsoleInv, NEW a \in Admins,
         court' \in EntityStatus, qr' \in Nat, tokens' \in Nat,
         stall' \in EntityStatus \cup {"absent"},
         login' \in [Logins -> {"absent", "ACTIVE", "SUSPENDED"}],
         role' \in [Logins -> {"absent", "ACTIVE", "INACTIVE"}],
         desk' \in [Admins -> Requested], edits' \in Nat,
         desk'[a].doing \notin {"assess", "status"},
         \A b \in Admins : b # a => desk'[b] = desk[b],
         UNCHANGED <<papers, holder>>
  PROVE  ConsoleInv'
<1>1. ConsoleTypeOK'
  BY DEF ConsoleInv, ConsoleTypeOK
<1>2. GateHeld'
  <2> SUFFICES ASSUME NEW b \in Admins
      PROVE  /\ desk'[b].doing \in {"assess", "status"} => holder' = b
             /\ desk'[b].doing = "status" /\ desk'[b].to = "ACTIVE" => papers'
    BY DEF GateHeld
  <2>1. CASE b = a
    BY <2>1
  <2>2. CASE b # a
    BY <2>2 DEF ConsoleInv, GateHeld
  <2> QED
    BY <2>1, <2>2
<1> QED
  BY <1>1, <1>2 DEF ConsoleInv

LEMMA ConsoleStarts == ConsoleInit => ConsoleInv
<1> SUFFICES ASSUME ConsoleInit PROVE ConsoleInv
  OBVIOUS
<1>1. ConsoleTypeOK
  BY DEF ConsoleInit, ConsoleTypeOK, Requested, EntityStatus
<1>2. GateHeld
  BY DEF ConsoleInit, GateHeld, Idle
<1> QED
  BY <1>1, <1>2 DEF ConsoleInv

(* A request that has only read holds nothing yet.                         *)
LEMMA ReadsKeep ==
  ASSUME ConsoleInv, NEW a \in Admins,
         \/ \E to \in EntityStatus : ReadCourt(a, to) \/ ReadStall(a, to)
         \/ \E replace \in BOOLEAN : ReadQr(a, replace)
         \/ ReadRevokeQr(a) \/ ReadCreate(a) \/ \E u \in Logins : ReadInvite(a, u)
  PROVE  ConsoleInv'
<1>0. ConsoleTypeOK
  BY DEF ConsoleInv
<1>1. PICK request \in Requested :
        Asks(a, request) /\ request.doing \notin {"assess", "status"}
  <2>1. ASSUME NEW to \in EntityStatus, ReadCourt(a, to) \/ ReadStall(a, to)
        PROVE  \E request \in Requested :
                 Asks(a, request) /\ request.doing \notin {"assess", "status"}
    <3>1. /\ [doing |-> "court", to |-> to] \in Requested
          /\ [doing |-> "lock", to |-> to] \in Requested
      BY DEF Requested
    <3> QED
      BY <2>1, <3>1 DEF ReadCourt, ReadStall
  <2>2. ASSUME \/ \E replace \in BOOLEAN : ReadQr(a, replace)
               \/ ReadRevokeQr(a) \/ ReadCreate(a)
        PROVE  \E request \in Requested :
                 Asks(a, request) /\ request.doing \notin {"assess", "status"}
    <3>1. \A d \in {"issue", "unissue", "create"} : [doing |-> d] \in Requested
      BY DEF Requested
    <3> QED
      BY <2>2, <3>1 DEF ReadQr, ReadRevokeQr, ReadCreate
  <2>3. ASSUME NEW u \in Logins, ReadInvite(a, u)
        PROVE  \E request \in Requested :
                 Asks(a, request) /\ request.doing \notin {"assess", "status"}
    <3>1. [doing |-> "invite", who |-> u] \in Requested
      BY DEF Requested
    <3> QED
      BY <2>3, <3>1 DEF ReadInvite
  <2> QED
    BY <2>1, <2>2, <2>3
<1>2. UNCHANGED <<courtVars, stallVars, staffVars>>
  BY DEF ReadCourt, ReadStall, ReadQr, ReadRevokeQr, ReadCreate, ReadInvite
<1>3. /\ desk' \in [Admins -> Requested] /\ edits' \in Nat
      /\ desk'[a].doing \notin {"assess", "status"}
      /\ \A b \in Admins : b # a => desk'[b] = desk[b]
  BY <1>0, <1>1, AskTypes
<1> QED
  BY <1>0, <1>2, <1>3, ElsewhereKeeps
  DEF ConsoleTypeOK, courtVars, stallVars, staffVars

(* What is written without the vendor row's lock: the court, its code, a   *)
(* new stall and a login.                                                  *)
LEMMA WritesKeep ==
  ASSUME ConsoleInv, NEW a \in Admins,
         WriteCourt(a) \/ IssueQr(a) \/ RevokeQr(a) \/ CreateStall(a) \/ Invite(a)
  PROVE  ConsoleInv'
<1>0. ConsoleTypeOK
  BY DEF ConsoleInv
<1>1. Done(a) /\ UNCHANGED <<papers, holder>>
  BY DEF WriteCourt, IssueQr, RevokeQr, CreateStall, Invite, stallVars
<1>2. /\ desk' \in [Admins -> Requested] /\ edits' \in Nat
      /\ desk'[a].doing \notin {"assess", "status"}
      /\ \A b \in Admins : b # a => desk'[b] = desk[b]
  BY <1>0, <1>1, DoneTypes DEF Idle
<1>3. court' \in EntityStatus
  BY <1>0, DeskOf
  DEF WriteCourt, IssueQr, RevokeQr, CreateStall, Invite, courtVars, ConsoleTypeOK, Steps
<1>4. qr' \in Nat /\ tokens' \in Nat
  BY <1>0 DEF WriteCourt, IssueQr, RevokeQr, CreateStall, Invite, courtVars, ConsoleTypeOK
<1>5. stall' \in EntityStatus \cup {"absent"}
  BY <1>0
  DEF WriteCourt, IssueQr, RevokeQr, CreateStall, Invite, stallVars, ConsoleTypeOK, EntityStatus
<1>6. /\ login' \in [Logins -> {"absent", "ACTIVE", "SUSPENDED"}]
      /\ role' \in [Logins -> {"absent", "ACTIVE", "INACTIVE"}]
  <2>1. CASE Invite(a)
    <3>1. desk[a].who \in Logins
      BY <1>0, <2>1, DeskOf DEF Invite
    <3> QED
      BY <1>0, <2>1, <3>1 DEF Invite, staffVars, ConsoleTypeOK
  <2>2. CASE ~Invite(a)
    BY <1>0, <2>2 DEF WriteCourt, IssueQr, RevokeQr, CreateStall, staffVars, ConsoleTypeOK
  <2> QED
    BY <2>1, <2>2
<1> QED
  BY <1>1, <1>2, <1>3, <1>4, <1>5, <1>6, ElsewhereKeeps

LEMMA RevokeKeeps ==
  ASSUME ConsoleInv, NEW a \in Admins, NEW u \in Logins, Revoke(a, u)
  PROVE  ConsoleInv'
<1>0. ConsoleTypeOK
  BY DEF ConsoleInv
<1>1. Idle \in Requested
  BY DEF Requested
<1>2. /\ desk' \in [Admins -> Requested] /\ edits' \in Nat
      /\ desk'[a].doing \notin {"assess", "status"}
      /\ \A b \in Admins : b # a => desk'[b] = desk[b]
  BY <1>0, <1>1, AskTypes DEF Revoke, Idle
<1>3. /\ login' \in [Logins -> {"absent", "ACTIVE", "SUSPENDED"}]
      /\ role' \in [Logins -> {"absent", "ACTIVE", "INACTIVE"}]
  BY <1>0 DEF Revoke, ConsoleTypeOK
<1> QED
  BY <1>0, <1>2, <1>3, ElsewhereKeeps
  DEF Revoke, ConsoleTypeOK, courtVars, stallVars

(* An edit of the papers waits until nobody holds the vendor row, so that  *)
(* no admin is past the lock.                                              *)
LEMMA UpdateKeeps ==
  ASSUME ConsoleInv, NEW a \in Admins, NEW complete \in BOOLEAN, UpdateStall(a, complete)
  PROVE  ConsoleInv'
<1>0. ConsoleTypeOK
  BY DEF ConsoleInv
<1>1. Idle \in Requested
  BY DEF Requested
<1>2. /\ desk' \in [Admins -> Requested] /\ edits' \in Nat /\ desk'[a] = Idle
      /\ \A b \in Admins : b # a => desk'[b] = desk[b]
  BY <1>0, <1>1, AskTypes DEF UpdateStall
<1>3. papers' \in BOOLEAN /\ UNCHANGED <<courtVars, stall, holder, staffVars>>
  BY DEF UpdateStall
<1>4. ConsoleTypeOK'
  BY <1>0, <1>2, <1>3 DEF ConsoleTypeOK, courtVars, staffVars
<1>5. \A b \in Admins : desk[b].doing \notin {"assess", "status"}
  BY ConsoleAssumption DEF UpdateStall, ConsoleInv, GateHeld, Nobody
<1>6. \A b \in Admins : desk'[b].doing \notin {"assess", "status"}
  BY <1>2, <1>5 DEF Idle
<1>7. GateHeld'
  BY <1>6 DEF GateHeld
<1> QED
  BY <1>4, <1>7 DEF ConsoleInv

LEMMA LockKeeps ==
  ASSUME ConsoleInv, NEW a \in Admins, LockStall(a)
  PROVE  ConsoleInv'
<1>0. ConsoleTypeOK
  BY DEF ConsoleInv
<1> DEFINE step == IF desk[a].to = "ACTIVE" THEN "assess" ELSE "status"
<1>1. desk[a].doing = "lock" /\ holder = Nobody /\ holder' = a /\ Proceeds(a, step)
  BY DEF LockStall
<1>2. step \in {"assess", "status"} /\ (step = "status" => desk[a].to # "ACTIVE")
  OBVIOUS
<1> HIDE DEF step
<1>3. /\ desk' \in [Admins -> Requested] /\ edits' \in Nat
      /\ desk'[a].doing = step /\ desk'[a].to = desk[a].to
      /\ \A b \in Admins : b # a => desk'[b] = desk[b]
  BY <1>0, <1>1, <1>2, ProceedTypes
<1>4. ConsoleTypeOK'
  BY <1>0, <1>1, <1>3 DEF LockStall, ConsoleTypeOK, courtVars, staffVars
<1>5. \A b \in Admins : desk[b].doing \notin {"assess", "status"}
  BY <1>1, ConsoleAssumption DEF ConsoleInv, GateHeld, Nobody
<1>6. GateHeld'
  BY <1>1, <1>2, <1>3, <1>5 DEF GateHeld
<1> QED
  BY <1>4, <1>6 DEF ConsoleInv

(* The gate judges the row under the lock.                                 *)
LEMMA AssessKeeps ==
  ASSUME ConsoleInv, NEW a \in Admins, AssessStall(a)
  PROVE  ConsoleInv'
<1>0. ConsoleTypeOK
  BY DEF ConsoleInv
<1>1. desk[a].doing = "assess" /\ UNCHANGED <<courtVars, stall, papers, staffVars>>
  BY DEF AssessStall
<1>2. holder = a /\ \A b \in Admins : b # a => desk[b].doing \notin {"assess", "status"}
  BY <1>1 DEF ConsoleInv, GateHeld
<1>3. CASE canActivate
  <2>1. Proceeds(a, "status") /\ UNCHANGED holder /\ papers
    BY <1>3 DEF AssessStall, canActivate
  <2>2. /\ desk' \in [Admins -> Requested] /\ edits' \in Nat
        /\ desk'[a].doing = "status" /\ desk'[a].to = desk[a].to
        /\ \A b \in Admins : b # a => desk'[b] = desk[b]
    BY <1>0, <1>1, <2>1, ProceedTypes
  <2>3. ConsoleTypeOK'
    BY <1>0, <1>1, <2>1, <2>2 DEF ConsoleTypeOK, courtVars, staffVars
  <2>4. GateHeld'
    BY <1>1, <1>2, <2>1, <2>2 DEF GateHeld
  <2> QED
    BY <2>3, <2>4 DEF ConsoleInv
<1>4. CASE ~canActivate
  <2>1. Done(a) /\ holder' = Nobody
    BY <1>4 DEF AssessStall
  <2>2. /\ desk' \in [Admins -> Requested] /\ edits' \in Nat /\ desk'[a] = Idle
        /\ \A b \in Admins : b # a => desk'[b] = desk[b]
    BY <1>0, <2>1, DoneTypes
  <2>3. ConsoleTypeOK'
    BY <1>0, <1>1, <2>1, <2>2 DEF ConsoleTypeOK, courtVars, staffVars
  <2>4. GateHeld'
    BY <1>2, <2>2 DEF GateHeld, Idle
  <2> QED
    BY <2>3, <2>4 DEF ConsoleInv
<1> QED
  BY <1>3, <1>4

LEMMA WriteKeeps ==
  ASSUME ConsoleInv, NEW a \in Admins, WriteStall(a)
  PROVE  ConsoleInv'
<1>0. ConsoleTypeOK
  BY DEF ConsoleInv
<1>1. /\ desk[a].doing = "status" /\ stall' = desk[a].to /\ holder' = Nobody
      /\ Done(a) /\ UNCHANGED <<courtVars, papers, staffVars>>
  BY DEF WriteStall
<1>2. /\ desk' \in [Admins -> Requested] /\ edits' \in Nat /\ desk'[a] = Idle
      /\ \A b \in Admins : b # a => desk'[b] = desk[b]
  BY <1>0, <1>1, DoneTypes
<1>3. desk[a].to \in EntityStatus
  BY <1>0, <1>1, DeskOf DEF Steps
<1>4. ConsoleTypeOK'
  BY <1>0, <1>1, <1>2, <1>3 DEF ConsoleTypeOK, courtVars, staffVars
<1>5. \A b \in Admins : b # a => desk[b].doing \notin {"assess", "status"}
  BY <1>1 DEF ConsoleInv, GateHeld
<1>6. GateHeld'
  BY <1>2, <1>5 DEF GateHeld, Idle
<1> QED
  BY <1>4, <1>6 DEF ConsoleInv

LEMMA ConsoleSteps == ConsoleInv /\ ConsoleNext => ConsoleInv'
<1> SUFFICES ASSUME ConsoleInv, ConsoleNext PROVE ConsoleInv'
  OBVIOUS
<1> QED
  BY ReadsKeep, WritesKeep, RevokeKeeps, UpdateKeeps, LockKeeps, AssessKeeps, WriteKeeps
  DEF ConsoleNext

LEMMA ConsoleRests == ConsoleInv /\ UNCHANGED consoleVars => ConsoleInv'
<1> SUFFICES ASSUME ConsoleInv, UNCHANGED consoleVars PROVE ConsoleInv'
  OBVIOUS
<1>1. ConsoleTypeOK'
  BY DEF ConsoleInv, ConsoleTypeOK, consoleVars
<1>2. GateHeld'
  BY DEF ConsoleInv, GateHeld, consoleVars
<1> QED
  BY <1>1, <1>2 DEF ConsoleInv

LEMMA ConsoleIsSafe == Spec => []ConsoleInv
<1>1. Init => ConsoleInv
  BY ConsoleStarts DEF Init
<1>2. ConsoleInv /\ [Next]_vars => ConsoleInv'
  BY ConsoleSteps, ConsoleRests DEF Next, AtTheDesks, OnThePhone, ScanPoster, vars
<1> QED
  BY <1>1, <1>2, PTL DEF Spec

(* Every variable of the console keeps its type (console/*.repository.ts). *)
THEOREM ConsoleTypes == Spec => []ConsoleTypeOK
<1>1. ConsoleInv => ConsoleTypeOK
  BY DEF ConsoleInv
<1> QED
  BY <1>1, ConsoleIsSafe, PTL

(* A stall that goes live has its papers complete at that moment, however  *)
(* many admins edit it meanwhile (console/vendor.repository.ts setStatus). *)
THEOREM PapersAtOpening == Spec => OpensWithPapers
<1>1. ConsoleInv /\ [Next]_vars =>
        [stall # "ACTIVE" /\ stall' = "ACTIVE" => papers']_consoleVars
  <2> SUFFICES ASSUME ConsoleInv, [Next]_vars, stall # "ACTIVE", stall' = "ACTIVE"
      PROVE  papers'
    OBVIOUS
  <2>1. ConsoleNext
    BY DEF Next, AtTheDesks, OnThePhone, ScanPoster, vars, consoleVars
  <2>2. PICK a \in Admins : WriteStall(a)
    BY <2>1
    DEF ConsoleNext, ReadCourt, ReadStall, WriteCourt, ReadQr, IssueQr, ReadRevokeQr,
        RevokeQr, ReadCreate, CreateStall, UpdateStall, LockStall, AssessStall,
        ReadInvite, Revoke, Invite, stallVars
  <2> QED
    BY <2>2 DEF WriteStall, ConsoleInv, GateHeld
<1> QED
  BY <1>1, ConsoleIsSafe, PTL DEF Spec, OpensWithPapers
=============================================================================
