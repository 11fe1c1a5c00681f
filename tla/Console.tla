------------------------------ MODULE Console ------------------------------
(***************************************************************************)
(* The platform console (src/console): one court with its QR code, one     *)
(* stall from its creation to its closing, and the kitchen logins of that  *)
(* stall.  Several admins work at once.  Every operation reads first, on a *)
(* connection of its own, and writes later in a transaction: what it read  *)
(* may be old by then.                                                     *)
(***************************************************************************)
EXTENDS Naturals

CONSTANTS
  Admins,     \* people with the console open
  Logins,     \* platform_user rows that may come to exist, by email
  MaxTokens,  \* bound: QR tokens ever generated
  MaxEdits    \* bound: requests the admins send in a behaviour

ASSUME ConsoleAssumption ==
  MaxTokens \in Nat /\ MaxEdits \in Nat /\ "nobody" \notin Admins

VARIABLES
  court,    \* food_court.status
  qr,       \* food_court.qr_token: a token, 0 for none
  tokens,   \* tokens generated so far
  stall,    \* vendor.status, "absent" before it is created
  papers,   \* is every field the readiness gate asks of the vendor row there
  login,    \* platform_user.status by email, "absent" before create
  role,     \* user_role_assignment.status by email, "absent" before create
  desk,     \* each admin's request: what it is, and what it read
  holder,   \* who holds the FOR UPDATE lock on the vendor row
  edits     \* requests sent

consoleVars ==
  <<court, qr, tokens, stall, papers, login, role, desk, holder, edits>>

courtVars == <<court, qr, tokens>>
stallVars == <<stall, papers, holder>>
staffVars == <<login, role>>

EntityStatus == {"DRAFT", "ACTIVE", "SUSPENDED", "INACTIVE"}
Idle == [doing |-> "nothing"]
Nobody == "nobody"

(* The ladder is the same for a court and for a stall.                     *)
ALLOWED ==
  [ DRAFT     |-> {"ACTIVE", "INACTIVE"},
    ACTIVE    |-> {"SUSPENDED", "INACTIVE"},
    SUSPENDED |-> {"ACTIVE", "INACTIVE"},
    INACTIVE  |-> {} ]
canTransitionVendor(from, to) == to \in ALLOWED[from]
canTransitionCourt(from, to) == to \in ALLOWED[from]

ConsoleInit ==
  /\ court = "ACTIVE" /\ qr = 0 /\ tokens = 0
  /\ stall = "absent" /\ papers = FALSE /\ holder = Nobody
  /\ login = [u \in Logins |-> "absent"]
  /\ role = [u \in Logins |-> "absent"]
  /\ desk = [a \in Admins |-> Idle]
  /\ edits = 0

Asks(a, request) ==
  /\ desk[a] = Idle
  /\ edits < MaxEdits
  /\ edits' = edits + 1
  /\ desk' = [desk EXCEPT ![a] = request]

Proceeds(a, step) ==
  /\ desk' = [desk EXCEPT ![a].doing = step]
  /\ UNCHANGED edits

Done(a) ==
  /\ desk' = [desk EXCEPT ![a] = Idle]
  /\ UNCHANGED edits

-----------------------------------------------------------------------------
(* Courts and their QR code.                                               *)

ReadCourt(a, to) ==
  /\ canTransitionCourt(court, to)
  /\ Asks(a, [doing |-> "court", to |-> to])
  /\ UNCHANGED <<courtVars, stallVars, staffVars>>

WriteCourt(a) ==
  /\ desk[a].doing = "court"
  /\ court' = desk[a].to
  /\ Done(a)
  /\ UNCHANGED <<qr, tokens, stallVars, staffVars>>

ReadQr(a, replace) ==
  /\ court # "INACTIVE"
  /\ qr = 0 \/ replace
  /\ Asks(a, [doing |-> "issue"])
  /\ UNCHANGED <<courtVars, stallVars, staffVars>>

IssueQr(a) ==
  /\ desk[a].doing = "issue"
  /\ tokens < MaxTokens
  /\ tokens' = tokens + 1
  /\ qr' = tokens + 1
  /\ Done(a)
  /\ UNCHANGED <<court, stallVars, staffVars>>

ReadRevokeQr(a) ==
  /\ qr # 0
  /\ Asks(a, [doing |-> "unissue"])
  /\ UNCHANGED <<courtVars, stallVars, staffVars>>

RevokeQr(a) ==
  /\ desk[a].doing = "unissue"
  /\ qr' = 0
  /\ Done(a)
  /\ UNCHANGED <<court, tokens, stallVars, staffVars>>

-----------------------------------------------------------------------------
(* The stall.                                                              *)

ReadCreate(a) ==
  /\ stall = "absent"
  /\ court # "INACTIVE"
  /\ Asks(a, [doing |-> "create"])
  /\ UNCHANGED <<courtVars, stallVars, staffVars>>

CreateStall(a) ==
  /\ desk[a].doing = "create"
  /\ IF stall = "absent" THEN stall' = "DRAFT" ELSE UNCHANGED stall
  /\ Done(a)
  /\ UNCHANGED <<courtVars, papers, holder, staffVars>>

(* update: a PATCH fills fields in or empties them, whatever the status;   *)
(* the row's lock is the only thing that makes it wait.                    *)
UpdateStall(a, complete) ==
  /\ stall # "absent"
  /\ holder = Nobody
  /\ Asks(a, Idle)
  /\ papers' = complete
  /\ UNCHANGED <<courtVars, stall, holder, staffVars>>

(* setStatus: the ladder is read before the transaction...                 *)
ReadStall(a, to) ==
  /\ stall # "absent"
  /\ canTransitionVendor(stall, to)
  /\ Asks(a, [doing |-> "lock", to |-> to])
  /\ UNCHANGED <<courtVars, stallVars, staffVars>>

(* Mutant: the row is read without FOR UPDATE.                             *)
LockStall_NoLock(a) ==
  /\ desk[a].doing = "lock"
  /\ Proceeds(a, IF desk[a].to = "ACTIVE" THEN "assess" ELSE "status")
  /\ UNCHANGED <<courtVars, stallVars, staffVars>>

LockStall(a) ==
  /\ desk[a].doing = "lock"
  /\ holder = Nobody
  /\ holder' = a
  /\ Proceeds(a, IF desk[a].to = "ACTIVE" THEN "assess" ELSE "status")
  /\ UNCHANGED <<courtVars, stall, papers, staffVars>>

(* ... and the readiness gate inside it, from the row as it is under the   *)
(* lock and from a count of the logins that can work.                      *)
activeStaff == {u \in Logins : role[u] = "ACTIVE" /\ login[u] = "ACTIVE"}
canActivate == papers /\ activeStaff # {}

AssessStall(a) ==
  /\ desk[a].doing = "assess"
  /\ IF canActivate
       THEN Proceeds(a, "status") /\ UNCHANGED holder
       ELSE Done(a) /\ holder' = Nobody
  /\ UNCHANGED <<courtVars, stall, papers, staffVars>>

WriteStall(a) ==
  /\ desk[a].doing = "status"
  /\ stall' = desk[a].to
  /\ holder' = Nobody
  /\ Done(a)
  /\ UNCHANGED <<courtVars, papers, staffVars>>

-----------------------------------------------------------------------------
(* Kitchen logins.                                                         *)

ReadInvite(a, u) ==
  /\ stall \notin {"absent", "INACTIVE"}
  /\ login[u] = "absent"
  /\ Asks(a, [doing |-> "invite", who |-> u])
  /\ UNCHANGED <<courtVars, stallVars, staffVars>>

(* The email is unique: the second of two invitations fails on it.         *)
Invite(a) ==
  /\ desk[a].doing = "invite"
  /\ LET u == desk[a].who IN
       IF login[u] = "absent"
         THEN /\ login' = [login EXCEPT ![u] = "ACTIVE"]
              /\ role' = [role EXCEPT ![u] = "ACTIVE"]
         ELSE UNCHANGED staffVars
  /\ Done(a)
  /\ UNCHANGED <<courtVars, stallVars>>

(* revoke: one transaction; the person goes with the last live role, and a *)
(* login made here holds only the one.                                     *)
Revoke(a, u) ==
  /\ role[u] # "absent"
  /\ Asks(a, Idle)
  /\ role' = [role EXCEPT ![u] = "INACTIVE"]
  /\ login' = [login EXCEPT ![u] = "SUSPENDED"]
  /\ UNCHANGED <<courtVars, stallVars>>

ConsoleNext ==
  \E a \in Admins :
    \/ \E to \in EntityStatus : ReadCourt(a, to) \/ ReadStall(a, to)
    \/ WriteCourt(a)
    \/ \E replace \in BOOLEAN : ReadQr(a, replace)
    \/ IssueQr(a)
    \/ ReadRevokeQr(a)
    \/ RevokeQr(a)
    \/ ReadCreate(a)
    \/ CreateStall(a)
    \/ \E complete \in BOOLEAN : UpdateStall(a, complete)
    \/ LockStall(a)
    \/ AssessStall(a)
    \/ WriteStall(a)
    \/ \E u \in Logins : ReadInvite(a, u) \/ Revoke(a, u)
    \/ Invite(a)

-----------------------------------------------------------------------------
(* A stall goes live with its paperwork complete, whatever the other       *)
(* admins edit meanwhile: the gate is evaluated at the moment of           *)
(* activation, in the transaction that flips the status                    *)
(* (vendor.repository setStatus).                                          *)
OpensWithPapers ==
  [][stall # "ACTIVE" /\ stall' = "ACTIVE" => papers']_consoleVars
=============================================================================
