------------------------------- MODULE Phone --------------------------------
(***************************************************************************)
(* The diner's phone from the QR code to the payment: the persisted basket *)
(* with its idempotency key (apps/pwa/src/lib/cart.ts), the memory-only    *)
(* customer token, the checkout (Checkout.tsx), the payment screen         *)
(* (Pay.tsx), and what the server does with their requests.  The phone can *)
(* be reloaded, passed to another diner or lose an answer at any moment.   *)
(***************************************************************************)
EXTENDS Naturals, Sequences

CONSTANTS
  Diners,       \* verified phone numbers
  Mask,         \* the masked number the phone keeps of a diner
  QrSessions,   \* browse sessions the QR codes of the court open
  Stalls,
  CounterMode,  \* ORDER_IDENTITY_MODE=counter: nobody has to verify
  Impatient,    \* the diner leaves the checkout while a tap is in flight
  MaxOrders,    \* bound: orders
  MaxTaps,      \* bound: taps on Place
  MaxLines,     \* the fifty of one dish a basket takes
  MaxTurns      \* bound: scans and verifications

ASSUME PhoneAssumption ==
  /\ CounterMode \in BOOLEAN /\ Impatient \in BOOLEAN
  /\ MaxOrders \in Nat \ {0} /\ MaxTaps \in Nat /\ MaxLines \in Nat \ {0} /\ MaxTurns \in Nat

VARIABLES
  cart,      \* localStorage: session, key, vendor, lines, customerPhone
  token,     \* the verified diner; in memory only
  screen,    \* the route, the order it names, and where the gate sends back to
  taps,      \* the place mutations: one per tap
  late,      \* placements the phone gave up on and the server has not seen
  app_session,  \* the customer of each session on the server
  orders,    \* the orders of the server, oldest first
  pay,       \* the state of the payment screen
  turn       \* scans and verifications so far

phoneVars == <<cart, token, screen, taps, late, app_session, orders, pay, turn>>

Keys == 1..MaxTaps
Mode(s) == IF CounterMode THEN "counter" ELSE "otp"

NoPay == [intent |-> "none", payment |-> "none", fired |-> FALSE, auto |-> FALSE]
At(route) == [route |-> route, order |-> 0, from |-> "none"]

PhoneInit ==
  /\ cart = [session |-> "none", key |-> 0, vendor |-> "none", lines |-> 0,
             customerPhone |-> "none", identityMode |-> "otp"]
  /\ token = "none"
  /\ screen = At("scan")
  /\ taps = << >>
  /\ late = {}
  /\ app_session = [s \in QrSessions |-> "none"]
  /\ orders = << >>
  /\ pay = NoPay
  /\ turn = 0

-----------------------------------------------------------------------------
(* The basket.                                                             *)

InFlight == \E n \in DOMAIN taps : taps[n].pc # "done"

(* A page load: what partialize keeps survives and the memory is lost; a   *)
(* request already sent may still reach the server.                        *)
Load ==
  /\ token' = "none"
  /\ late' = late \cup {taps[n].call : n \in {m \in DOMAIN taps : taps[m].pc = "placing"}}
  /\ taps' = [n \in DOMAIN taps |-> [taps[n] EXCEPT !.pc = "done"]]
  /\ pay' = NoPay

(* startSession, of a page the camera opened: another session starts with  *)
(* an empty basket.                                                        *)
startSession(s) ==
  /\ turn < MaxTurns
  /\ turn' = turn + 1
  /\ Load
  /\ cart' = IF cart.session = s THEN [cart EXCEPT !.identityMode = Mode(s)]
             ELSE [cart EXCEPT !.session = s, !.identityMode = Mode(s), !.vendor = "none",
                               !.lines = 0, !.key = 0]
  /\ screen' = At("court")
  /\ UNCHANGED <<app_session, orders>>

(* setVendor and add: another stall empties the basket and keeps the key.  *)
PutInBasket(v) ==
  /\ screen.route \in {"court", "order"} /\ cart.session # "none"
  /\ \/ cart.vendor # v /\ cart' = [cart EXCEPT !.vendor = v, !.lines = 1]
     \/ cart.vendor = v /\ cart.lines < MaxLines /\ cart' = [cart EXCEPT !.lines = @ + 1]
  /\ screen' = At("court")
  /\ UNCHANGED <<token, taps, late, app_session, orders, pay, turn>>

(* setQuantity, on the menu and on the checkout.                           *)
TakeOut ==
  /\ screen.route \in {"court", "checkout"} /\ cart.lines > 0
  /\ cart' = [cart EXCEPT !.lines = @ - 1]
  /\ UNCHANGED <<token, screen, taps, late, app_session, orders, pay, turn>>

(* RequireVerified, and the checkout's own way out of an empty basket.     *)
SignedIn == token # "none" \/ cart.identityMode = "counter"
Gated(to, may) == IF may THEN to ELSE [to EXCEPT !.route = "verify", !.from = to.route]

OpenCheckout ==
  /\ screen.route \in {"court", "order"} /\ cart.lines > 0
  /\ screen' = Gated(At("checkout"), SignedIn)
  /\ UNCHANGED <<cart, token, taps, late, app_session, orders, pay, turn>>

Leave ==
  /\ screen.route \in {"checkout", "verify", "pay"}
  /\ Impatient \/ ~InFlight
  /\ screen' = At("court")
  /\ pay' = NoPay
  /\ UNCHANGED <<cart, token, taps, late, app_session, orders, turn>>

EmptyCheckout ==
  /\ screen.route = "checkout" /\ cart.lines = 0
  /\ screen' = At("court")
  /\ UNCHANGED <<cart, token, taps, late, app_session, orders, pay, turn>>

(* verifyOtp moves the session to the verified customer, and the phone     *)
(* drops the key when the masked number is another one.                    *)
KeyFor(masked) ==
  IF cart.customerPhone \notin {"none", masked} THEN 0 ELSE cart.key

(* On the menu, or at the gate on the way to another screen.               *)
Verified ==
  IF screen.route = "court" THEN screen
  ELSE [screen EXCEPT !.route = screen.from, !.from = "none"]

Verify(d) ==
  /\ cart.session # "none" /\ screen.route \in {"verify", "court"} /\ turn < MaxTurns
  /\ turn' = turn + 1
  /\ token' = d
  /\ app_session' = [app_session EXCEPT ![cart.session] = d]
  /\ cart' = [cart EXCEPT !.customerPhone = Mask[d], !.key = KeyFor(Mask[d])]
  /\ screen' = Verified
  /\ UNCHANGED <<taps, late, orders, pay>>

(* A reload; the gate sends a diner whose token is gone to verify first.   *)
Reload ==
  /\ screen.route # "scan"
  /\ Load
  /\ cart' = [cart EXCEPT !.identityMode = "otp"]
  /\ screen' = Gated(screen, screen.route \notin {"checkout", "pay", "order"})
  /\ UNCHANGED <<app_session, orders, turn>>

-----------------------------------------------------------------------------
(* The checkout.                                                           *)

(* Mutant: every tap makes a key of its own.                               *)
beginCheckout_NewKey == Len(taps) + 1

(* One key per checkout, made by its first tap.                            *)
beginCheckout == IF cart.key # 0 THEN cart.key ELSE Len(taps) + 1

(* The button is disabled while its own request is out; a checkout opened  *)
(* again knows nothing of the request of the one before.                   *)
Tap ==
  /\ screen.route = "checkout" /\ SignedIn /\ cart.lines > 0 /\ Len(taps) < MaxTaps
  /\ Impatient \/ ~InFlight
  /\ cart' = [cart EXCEPT !.key = beginCheckout]
  /\ taps' = Append(taps,
       [pc |-> "placing", order |-> 0,
        call |-> [key |-> beginCheckout, vendor |-> cart.vendor, lines |-> cart.lines,
                  session |-> cart.session, customer |-> token, turn |-> turn]])
  /\ UNCHANGED <<token, screen, late, app_session, orders, pay, turn>>

(* sessionForCustomer (an anonymous caller of a verified session reads     *)
(* TOKEN_INVALID) and placeOrder: an existing order of the key is the      *)
(* answer, whatever the lines, when its customer is the session's.         *)
WithKey(k) == {i \in DOMAIN orders : orders[i].key = k}
SessionRefuses(call) == app_session[call.session] \notin {"none", call.customer}
Attached(call) ==
  IF app_session[call.session] = "none" THEN [app_session EXCEPT ![call.session] = call.customer]
  ELSE app_session

Accepts(call) ==
  /\ WithKey(call.key) = {} /\ Len(orders) < MaxOrders
  /\ orders' = Append(orders,
       [key |-> call.key, customer |-> call.customer, vendor |-> call.vendor,
        lines |-> call.lines, turn |-> call.turn, shown |-> FALSE,
        status |-> "CREATED", payment |-> "none", debited |-> FALSE])

ServerPlaces(n) ==
  /\ taps[n].pc = "placing"
  /\ LET call == taps[n].call
     IN \/ /\ SessionRefuses(call)
           /\ taps' = [taps EXCEPT ![n].pc = "SESSION_EXPIRED"]
           /\ UNCHANGED <<orders, app_session>>
        \/ /\ ~SessionRefuses(call)
           /\ app_session' = Attached(call)
           /\ \/ /\ Accepts(call)
                 /\ taps' = [taps EXCEPT ![n].pc = "placed", ![n].order = Len(orders) + 1]
              \/ \E i \in WithKey(call.key) :
                   /\ orders[i].customer = call.customer
                   /\ taps' = [taps EXCEPT ![n].pc = "placed", ![n].order = i]
                   /\ UNCHANGED orders
              \/ \E i \in WithKey(call.key) :
                   /\ orders[i].customer # call.customer
                   /\ taps' = [taps EXCEPT ![n].pc = "TENANT_SCOPE_VIOLATION"]
                   /\ UNCHANGED orders
  /\ UNCHANGED <<cart, token, screen, late, pay, turn>>

(* The same for a request the phone no longer waits for.                   *)
ServerPlacesLate(call) ==
  /\ late' = late \ {call}
  /\ IF SessionRefuses(call) THEN UNCHANGED <<orders, app_session>>
     ELSE /\ app_session' = Attached(call)
          /\ Accepts(call) \/ (WithKey(call.key) # {} /\ UNCHANGED orders)
  /\ UNCHANGED <<cart, token, screen, taps, pay, turn>>

(* createIntent, for the verified customer of the order only: an open row  *)
(* is handed back, and a new one takes an order that waits for money.      *)
Open(i) == orders[i].payment = "CREATED"
Payable(i) == orders[i].status \in {"CREATED", "PAYMENT_PENDING"} /\ orders[i].payment = "none"
IntentAnswer(i) ==
  IF token = "none" THEN "TOKEN_INVALID"
  ELSE IF orders[i].customer # token THEN "TENANT_SCOPE_VIOLATION"
  ELSE IF Open(i) \/ Payable(i) THEN "ready" ELSE "INVALID_TRANSITION"
ServerIntent(i) ==
  orders' = IF IntentAnswer(i) = "ready" /\ Payable(i)
            THEN [orders EXCEPT ![i].status = "PAYMENT_PENDING", ![i].payment = "CREATED"]
            ELSE orders

Intent(n) ==
  /\ taps[n].pc = "placed" /\ ServerIntent(taps[n].order)
  /\ taps' = [taps EXCEPT ![n].pc = IntentAnswer(taps[n].order)]
  /\ UNCHANGED <<cart, token, screen, late, app_session, pay, turn>>

(* onSuccess: the basket and the key go, and the payment screen opens.     *)
onSuccess(n) ==
  /\ taps[n].pc = "ready"
  /\ cart' = [cart EXCEPT !.lines = 0, !.key = 0]
  /\ screen' = [At("pay") EXCEPT !.order = taps[n].order]
  /\ pay' = [NoPay EXCEPT !.auto = TRUE]
  /\ orders' = [orders EXCEPT ![taps[n].order].shown = TRUE]
  /\ taps' = [taps EXCEPT ![n].pc = "done"]
  /\ UNCHANGED <<token, late, app_session, turn>>

(* onError: only a refusal for good drops the key.  Eight seconds without  *)
(* an answer are an error too, whatever the server goes on to do.          *)
Refusals == {"SESSION_EXPIRED", "TENANT_SCOPE_VIOLATION", "TOKEN_INVALID", "INVALID_TRANSITION"}

onError(n) ==
  /\ taps[n].pc \in Refusals
  /\ cart' = IF taps[n].pc = "TENANT_SCOPE_VIOLATION" THEN [cart EXCEPT !.key = 0] ELSE cart
  /\ taps' = [taps EXCEPT ![n].pc = "done"]
  /\ UNCHANGED <<token, screen, late, app_session, orders, pay, turn>>

TimesOut(n) ==
  /\ taps[n].pc # "done"
  /\ late' = IF taps[n].pc = "placing" THEN late \cup {taps[n].call} ELSE late
  /\ taps' = [taps EXCEPT ![n].pc = "done"]
  /\ UNCHANGED <<cart, token, screen, app_session, orders, pay, turn>>

LostInTheNet(call) ==
  /\ late' = late \ {call}
  /\ UNCHANGED <<cart, token, screen, taps, app_session, orders, pay, turn>>

-----------------------------------------------------------------------------
(* The payment screen.                                                     *)

OnPay == screen.route = "pay"
Mine == screen.order
Settled == {"CAPTURED", "FAILED", "EXPIRED"}
Secured == pay.payment = "CAPTURED"
Failed == pay.payment \in {"FAILED", "EXPIRED"}

(* The intent is asked for once; an error is a screen with a retry button. *)
LoadIntent ==
  /\ OnPay /\ pay.intent # "ready"
  /\ \/ /\ ServerIntent(Mine)
        /\ pay' = [pay EXCEPT !.intent = IntentAnswer(Mine)]
     \/ pay' = [pay EXCEPT !.intent = "NETWORK"] /\ UNCHANGED orders
  /\ UNCHANGED <<cart, token, screen, taps, late, app_session, turn>>

(* payNow: by itself once for a diner who just tapped Place, at a tap for  *)
(* anybody else; the fired reference lets no second sheet open.            *)
payNow ==
  /\ OnPay /\ pay.intent = "ready" /\ ~pay.fired /\ ~Secured /\ ~Failed
  /\ pay' = [pay EXCEPT !.fired = TRUE, !.auto = FALSE]
  /\ UNCHANGED <<cart, token, screen, taps, late, app_session, orders, turn>>

(* startCheckout returns or fails; neither says whether money moved.       *)
SheetEnds ==
  /\ OnPay /\ pay.fired
  /\ pay' = [pay EXCEPT !.fired = FALSE]
  /\ UNCHANGED <<cart, token, screen, taps, late, app_session, orders, turn>>

DinerPays ==
  /\ OnPay /\ pay.fired /\ ~orders[Mine].debited
  /\ orders' = [orders EXCEPT ![Mine].debited = TRUE]
  /\ UNCHANGED <<cart, token, screen, taps, late, app_session, pay, turn>>

(* Mutant: one answer ends the poll.                                       *)
PollStatus_UntilFired ==
  /\ OnPay /\ pay.intent = "ready" /\ pay.payment = "none"
  /\ LET now == IF orders[Mine].debited THEN "CAPTURED" ELSE orders[Mine].payment
     IN /\ orders' = [orders EXCEPT ![Mine].payment = now]
        /\ pay' = [pay EXCEPT !.payment = now]
  /\ UNCHANGED <<cart, token, screen, taps, late, app_session, turn>>

(* GET payment: refreshFromProvider writes what the provider says on the   *)
(* row and answers with it; the poll ends at a settled answer.             *)
PollStatus ==
  /\ OnPay /\ pay.intent = "ready" /\ pay.payment \notin Settled
  /\ LET now == IF orders[Mine].debited THEN "CAPTURED" ELSE orders[Mine].payment
     IN /\ orders' = [orders EXCEPT ![Mine].payment = now]
        /\ pay' = [pay EXCEPT !.payment = now]
  /\ UNCHANGED <<cart, token, screen, taps, late, app_session, turn>>

(* The paid screen hands over to the order after two seconds.              *)
HandOver ==
  /\ OnPay /\ Secured
  /\ screen' = [screen EXCEPT !.route = "order"]
  /\ UNCHANGED <<cart, token, taps, late, app_session, orders, pay, turn>>

-----------------------------------------------------------------------------
(* What happens to an order's payment behind the phone's back: the webhook *)
(* confirms, a decline fails it, the worker expires it.                    *)
Webhook(i) ==
  /\ orders[i].status = "PAYMENT_PENDING"
  /\ \/ /\ orders[i].debited
        /\ orders' = [orders EXCEPT ![i].status = "PAYMENT_CONFIRMED", ![i].payment = "CAPTURED"]
     \/ /\ ~orders[i].debited
        /\ \/ orders' = [orders EXCEPT ![i].status = "PAYMENT_FAILED", ![i].payment = "FAILED"]
           \/ orders' = [orders EXCEPT ![i].status = "PAYMENT_EXPIRED", ![i].payment = "EXPIRED"]
  /\ UNCHANGED <<cart, token, screen, taps, late, app_session, pay, turn>>

-----------------------------------------------------------------------------
TapStep(n) == ServerPlaces(n) \/ Intent(n) \/ onSuccess(n) \/ onError(n)
PayStep == LoadIntent \/ PollStatus \/ HandOver

PhoneNext ==
  \/ \E s \in QrSessions : startSession(s)
  \/ \E v \in Stalls : PutInBasket(v)
  \/ TakeOut \/ OpenCheckout \/ Leave \/ EmptyCheckout \/ Reload
  \/ \E d \in Diners : Verify(d)
  \/ Tap
  \/ \E n \in DOMAIN taps : TapStep(n) \/ TimesOut(n)
  \/ \E call \in late : ServerPlacesLate(call) \/ LostInTheNet(call)
  \/ PayStep \/ payNow \/ SheetEnds \/ DinerPays
  \/ \E i \in DOMAIN orders : Webhook(i)

PhoneSpec == PhoneInit /\ [][PhoneNext]_phoneVars

(* Requests are answered or time out, and an open payment screen polls and *)
(* loads; nobody has to tap, to verify or to come back.                    *)
PhoneLiveSpec ==
  /\ PhoneSpec
  /\ \A n \in Keys : WF_phoneVars(n \in DOMAIN taps /\ (TapStep(n) \/ TimesOut(n)))
  /\ SF_phoneVars(OnPay /\ PollStatus) /\ WF_phoneVars(HandOver) /\ WF_phoneVars(LoadIntent)

-----------------------------------------------------------------------------
(* Properties.                                                             *)

(* cart.ts "Generated once when checkout opens and reused for every retry":*)
(* whatever is lost, repeated or reloaded, one diner at one table never    *)
(* has two orders of which the phone showed neither.                       *)
NoSecondOrder ==
  \A i, j \in DOMAIN orders :
    (i < j /\ orders[i].turn = orders[j].turn /\ orders[i].customer = orders[j].customer)
      => orders[i].shown

(* Pay.tsx: the screen of a payment that was captured gives way to the     *)
(* order, unless it already said that the payment failed.                  *)
PaidScreenMovesOn ==
  \A i \in 1..MaxOrders :
    (i \in DOMAIN orders /\ orders[i].payment = "CAPTURED" /\ OnPay /\ Mine = i
       /\ pay.intent = "ready" /\ pay.payment \notin Settled)
      ~> ~(OnPay /\ Mine = i /\ pay.intent = "ready")
=============================================================================
