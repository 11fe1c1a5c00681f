------------------------------- MODULE SignIn -------------------------------
(***************************************************************************)
(* Scanning a court's code and proving a phone number                      *)
(* (tenancy/discovery.controller.ts scan, identity/customer-auth           *)
(* .controller.ts, identity/otp.ts): one phone, several requests for a     *)
(* code and several attempts to use one under way at once.  A request      *)
(* retires the live code, inserts its own, sends it and marks what is live *)
(* by then; a verification locks the live code, judges it and signs in.    *)
(***************************************************************************)
EXTENDS Naturals, Sequences

CONSTANTS
  Requests,   \* concurrent POST customer-auth/request calls
  Attempts,   \* concurrent POST customer-auth/verify calls
  PerPhone,   \* OTP_SEND_PER_PHONE_PER_HOUR, in one window
  MaxScans    \* bound: sessions a phone opens

ASSUME SignInAssumption ==
  /\ PerPhone \in Nat /\ MaxScans \in Nat
  /\ Requests \cap Attempts = {} /\ "none" \notin Requests \cup Attempts

VARIABLES
  codes,     \* customer_otp rows of the phone, oldest first
  hits,      \* rate_limit_counter of the window
  ask,       \* each request: its step, the code it retires, the code it made
  try,       \* each attempt: its step, the code typed, the code it read
  locked,    \* the transaction holding the live row, "none" for nobody
  inbox,     \* codes the diner has been sent
  session,   \* the app_session the phone holds, and who it belongs to
  sessions,  \* sessions opened
  entered    \* how many times each code signed somebody in

signInVars ==
  <<codes, hits, ask, try, locked, inbox, session, sessions, entered>>

Live(k) == k \in 1..Len(codes) /\ codes[k].ending = "none"
LiveCodes == {k \in 1..Len(codes) : Live(k)}
None == 0
WrongCode == 0

SignInInit ==
  /\ codes = <<>>
  /\ hits = 0
  /\ ask = [r \in Requests |-> [step |-> "new", retires |-> None, code |-> None]]
  /\ try = [t \in Attempts |-> [step |-> "new", typed |-> WrongCode, row |-> None]]
  /\ locked = "none"
  /\ inbox = {}
  /\ session = [status |-> "none", customer |-> FALSE]
  /\ sessions = 0
  /\ entered = [k \in 1..PerPhone |-> 0]

-----------------------------------------------------------------------------
(* Scanning.  A live session of this court is resumed, with whoever it     *)
(* belongs to; otherwise a new one is opened for nobody.                   *)

Scan ==
  /\ IF session.status = "live"
       THEN UNCHANGED <<session, sessions>>
       ELSE /\ sessions < MaxScans
            /\ session' = [status |-> "live", customer |-> FALSE]
            /\ sessions' = sessions + 1
  /\ UNCHANGED <<codes, hits, ask, try, locked, inbox, entered>>

SessionExpires ==
  /\ session.status = "live"
  /\ session' = [session EXCEPT !.status = "expired"]
  /\ UNCHANGED <<codes, hits, ask, try, locked, inbox, sessions, entered>>

-----------------------------------------------------------------------------
(* Asking for a code.                                                      *)

(* enforce: the hit is counted even when it is refused.                    *)
Consume(r) ==
  /\ ask[r].step = "new"
  /\ session.status # "none"
  /\ hits' = hits + 1
  /\ ask' = [ask EXCEPT ![r].step = IF hits < PerPhone THEN "retire" ELSE "done"]
  /\ UNCHANGED <<codes, try, locked, inbox, session, sessions, entered>>

(* The UPDATE that supersedes takes the lock of the row it finds live.     *)
RetireCode(r) ==
  /\ ask[r].step = "retire"
  /\ locked = "none"
  /\ ask' = [ask EXCEPT ![r].step = "insert",
                        ![r].retires = IF LiveCodes = {} THEN None
                                       ELSE CHOOSE k \in LiveCodes : TRUE]
  /\ locked' = IF LiveCodes = {} THEN "none" ELSE r
  /\ UNCHANGED <<codes, hits, try, inbox, session, sessions, entered>>

(* The INSERT fails on customer_otp_one_live_per_phone when another        *)
(* request committed a live code meanwhile.                                *)
Inserted(retired) ==
  Append([k \in 1..Len(codes) |->
            IF k = retired THEN [codes[k] EXCEPT !.ending = "superseded"] ELSE codes[k]],
         [ending |-> "none", expired |-> FALSE, sent |-> "no"])

(* Mutant: nothing keeps a phone from having two live codes.               *)
InsertCode_NoIndex(r) ==
  /\ ask[r].step = "insert"
  /\ locked' = IF locked = r THEN "none" ELSE locked
  /\ codes' = Inserted(ask[r].retires)
  /\ ask' = [ask EXCEPT ![r].step = "send", ![r].code = Len(codes) + 1]
  /\ UNCHANGED <<hits, try, inbox, session, sessions, entered>>

InsertCode(r) ==
  /\ ask[r].step = "insert"
  /\ locked' = IF locked = r THEN "none" ELSE locked
  /\ IF LiveCodes \subseteq {ask[r].retires}
       THEN /\ codes' = Inserted(ask[r].retires)
            /\ ask' = [ask EXCEPT ![r].step = "send", ![r].code = Len(codes) + 1]
       ELSE /\ UNCHANGED codes
            /\ ask' = [ask EXCEPT ![r].step = "done"]
  /\ UNCHANGED <<hits, try, inbox, session, sessions, entered>>

SendCode(r) ==
  /\ ask[r].step = "send"
  /\ \/ /\ inbox' = inbox \union {ask[r].code}
        /\ ask' = [ask EXCEPT ![r].step = "sent"]
     \/ /\ UNCHANGED inbox
        /\ ask' = [ask EXCEPT ![r].step = "failed"]
  /\ UNCHANGED <<codes, hits, try, locked, session, sessions, entered>>

(* dispatched_at or dispatch_error goes to what is live now, by phone.     *)
MarkCode(r) ==
  /\ ask[r].step \in {"sent", "failed"}
  /\ locked = "none"
  /\ codes' = [k \in 1..Len(codes) |->
                 IF Live(k) THEN [codes[k] EXCEPT !.sent = ask[r].step] ELSE codes[k]]
  /\ ask' = [ask EXCEPT ![r].step = "done"]
  /\ UNCHANGED <<hits, try, locked, inbox, session, sessions, entered>>

CodeExpires(k) ==
  /\ Live(k) /\ ~codes[k].expired
  /\ codes' = [codes EXCEPT ![k].expired = TRUE]
  /\ UNCHANGED <<hits, ask, try, locked, inbox, session, sessions, entered>>

-----------------------------------------------------------------------------
(* Using a code.                                                           *)

(* Mutant: the code is read without FOR UPDATE.                            *)
ReadCode_NoLock(t, typed) ==
  /\ try[t].step = "new"
  /\ session.status # "none"
  /\ try' = [try EXCEPT ![t] =
       [step  |-> IF LiveCodes = {} THEN "refused" ELSE "judge",
        typed |-> typed,
        row   |-> IF LiveCodes = {} THEN None ELSE CHOOSE k \in LiveCodes : TRUE]]
  /\ UNCHANGED <<codes, hits, ask, locked, inbox, session, sessions, entered>>

(* SELECT ... FOR UPDATE of the live code.  A row that was retired or used *)
(* while the select waited is no longer one it returns.                    *)
ReadCode(t, typed) ==
  /\ try[t].step = "new"
  /\ session.status # "none"
  /\ locked = "none"
  /\ locked' = IF LiveCodes = {} THEN "none" ELSE t
  /\ try' = [try EXCEPT ![t] =
       [step  |-> IF LiveCodes = {} THEN "refused" ELSE "judge",
        typed |-> typed,
        row   |-> IF LiveCodes = {} THEN None ELSE CHOOSE k \in LiveCodes : TRUE]]
  /\ UNCHANGED <<codes, hits, ask, inbox, session, sessions, entered>>

(* verifyOtp on the row as it was read: USED and SUPERSEDED cannot be of a *)
(* live row, and LOCKED never comes to pass (see Judge).                   *)
verifyOtp(k, typed) == ~codes[k].expired /\ typed = k

(* A refusal throws out of the transaction that counted the attempt, which *)
(* rolls the count back with it.  A success consumes the code and, when it *)
(* has not expired, gives the session to the customer.                     *)
Judge(t) ==
  /\ try[t].step = "judge"
  /\ locked' = IF locked = t THEN "none" ELSE locked
  /\ LET k == try[t].row IN
       IF verifyOtp(k, try[t].typed)
         THEN /\ codes' = [codes EXCEPT ![k].ending = "consumed"]
              /\ entered' = [entered EXCEPT ![k] = @ + 1]
              /\ session' = [session EXCEPT !.customer = @ \/ session.status = "live"]
              /\ try' = [try EXCEPT ![t].step = "entered"]
         ELSE /\ UNCHANGED <<codes, entered, session>>
              /\ try' = [try EXCEPT ![t].step = "refused"]
  /\ UNCHANGED <<hits, ask, inbox, sessions>>

SignInNext ==
  \/ SessionExpires
  \/ \E r \in Requests :
       Consume(r) \/ RetireCode(r) \/ InsertCode(r) \/ SendCode(r) \/ MarkCode(r)
  \/ \E k \in 1..PerPhone : CodeExpires(k)
  \/ \E t \in Attempts :
       Judge(t) \/ \E typed \in inbox \union {WrongCode} : ReadCode(t, typed)

-----------------------------------------------------------------------------
(* A code signs in once, however many times it is submitted and however    *)
(* the submissions overlap (customer-auth.controller verify).              *)
CodeEntersOnce == \A k \in DOMAIN entered : entered[k] <= 1

(* Once a newer code is on record the older ones are dead, also to an      *)
(* attempt that was under way when the newer one was asked for.            *)
OnlyTheNewestEnters ==
  [][\A k \in DOMAIN entered : entered'[k] # entered[k] => k = Len(codes)]_signInVars
=============================================================================
