------------------------------ MODULE Screens -------------------------------
(***************************************************************************)
(* What the screens show of an order: the notification a transition sends  *)
(* (realtime/bus.ts), the listener of the API process, the socket and the  *)
(* cached query of the diner's tracking screen (Track.tsx) and of the      *)
(* kitchen board (apps/kds), and what makes them ring.  Sockets drop, the  *)
(* listener dies, answers are late or lost; a fallback timer asks again.   *)
(***************************************************************************)
EXTENDS Naturals, OrderLifecycle

CONSTANTS
  MaxListeners  \* bound: connections the process listens on, and restarts due

ASSUME ScreensAssumption == MaxListeners \in Nat \ {0}

VARIABLES
  view,      \* which screen: the diner's tracking screen or the board
  order,     \* order.status
  listener,  \* BusSubscriber: its client, clients it forgot, starts due
  socket,    \* is the screen's socket connected
  event,     \* is an order.changed on its way to the screen
  query,     \* the screen's query: its data and its request
  seen,      \* what the notification hook last saw, "none" before any data
  bell,      \* did the board's last data ring
  toast      \* the status the phone last announced

screensVars == <<view, order, listener, socket, event, query, seen, bell, toast>>

Views == {"track", "board"}
TERMINAL == {"COLLECTED", "REJECTED", "CANCELLED", "REFUNDED", "PAYMENT_EXPIRED"}
LIVE == {"PAYMENT_CONFIRMED", "DISPATCHED", "ACKNOWLEDGED", "PREPARING", "READY"}
UNACCEPTED == {"PAYMENT_CONFIRMED", "DISPATCHED"}

(* kds.controller board lists live orders only; an order not listed is the *)
(* absence the board's hook looks for.                                     *)
Answer == IF view = "board" /\ order \notin LIVE THEN "absent" ELSE order

ScreensInit ==
  /\ view \in Views
  /\ order = "PAYMENT_CONFIRMED"
  /\ listener = [client |-> 1, forgotten |-> 0, starts |-> 0]
  /\ socket = FALSE
  /\ event = FALSE
  /\ query = [data |-> "none", fetching |-> TRUE, got |-> "none"]
  /\ seen = "none"
  /\ bell = FALSE
  /\ toast = "none"

-----------------------------------------------------------------------------
(* The server.                                                             *)

Listening == listener.client + listener.forgotten > 0

(* transitionOrder publishes with the commit; whoever listens emits to the *)
(* rooms of the order, and a socket that is down hears nothing.            *)
Transition(to) ==
  /\ CanTransition(order, to)
  /\ order' = to
  /\ event' = (event \/ (Listening /\ socket))
  /\ UNCHANGED <<view, listener, socket, query, seen, bell, toast>>

(* reconnect: ends the client there is and starts after a pause.  A dead   *)
(* connection says error and end, an ended one says end, and each of them  *)
(* asks for a reconnect.                                                   *)
Bounded(l) == l.starts <= MaxListeners /\ l.client + l.forgotten <= MaxListeners
ClientDies ==
  /\ \/ /\ listener.client = 1
        /\ listener' = [listener EXCEPT !.client = 0, !.starts = @ + 2]
     \/ /\ listener.forgotten > 0
        /\ listener' = [client |-> 0, forgotten |-> listener.forgotten - 1,
                        starts |-> listener.starts + 2 + listener.client]
  /\ Bounded(listener')
  /\ UNCHANGED <<view, order, socket, event, query, seen, bell, toast>>

(* start: the new client replaces whatever this.client named.              *)
Start ==
  /\ listener.starts > 0
  /\ \/ listener' = [client |-> 1, forgotten |-> listener.forgotten + listener.client,
                     starts |-> listener.starts - 1]
     \/ listener' = [client |-> 0, forgotten |-> listener.forgotten + listener.client,
                     starts |-> listener.starts + 1]
  /\ Bounded(listener')
  /\ UNCHANGED <<view, order, socket, event, query, seen, bell, toast>>

-----------------------------------------------------------------------------
(* A screen's query, as useQuery runs it.                                  *)

(* A stale query is asked for again, dropping an answer on its way, unless *)
(* the first is still out.                                                 *)
Invalidated(q) ==
  IF q.data = "none" /\ q.fetching THEN q
  ELSE [q EXCEPT !.fetching = TRUE, !.got = "none"]

(* useRealtime: every event, and every connection, invalidates.            *)
SocketConnects ==
  /\ ~socket
  /\ socket' = TRUE
  /\ query' = Invalidated(query)
  /\ UNCHANGED <<view, order, listener, event, seen, bell, toast>>

SocketDrops ==
  /\ socket
  /\ socket' = FALSE
  /\ event' = FALSE
  /\ UNCHANGED <<view, order, listener, query, seen, bell, toast>>

EventArrives ==
  /\ event
  /\ event' = FALSE
  /\ query' = Invalidated(query)
  /\ UNCHANGED <<view, order, listener, socket, seen, bell, toast>>

(* Mutant: a connected socket replaces the timer.                          *)
Polls_WhenDisconnected ==
  /\ ~query.fetching /\ ~socket
  /\ view = "board" \/ query.data \notin TERMINAL
  /\ query' = [query EXCEPT !.fetching = TRUE]
  /\ UNCHANGED <<view, order, listener, socket, event, seen, bell, toast>>

(* refetchInterval: a slow timer while connected, a fast one while not;    *)
(* the tracking screen's stops at a terminal status.                       *)
Polls ==
  /\ ~query.fetching
  /\ view = "board" \/ query.data \notin TERMINAL
  /\ query' = [query EXCEPT !.fetching = TRUE]
  /\ UNCHANGED <<view, order, listener, socket, event, seen, bell, toast>>

ServerAnswers ==
  /\ query.fetching /\ query.got = "none"
  /\ query' = [query EXCEPT !.got = Answer]
  /\ UNCHANGED <<view, order, listener, socket, event, seen, bell, toast>>

FetchFails ==
  /\ query.fetching
  /\ query' = [query EXCEPT !.fetching = FALSE, !.got = "none"]
  /\ UNCHANGED <<view, order, listener, socket, event, seen, bell, toast>>

-----------------------------------------------------------------------------
(* What the data does.                                                     *)

(* messageFor: the statuses a toast exists for.                            *)
Announced == LIVE \cup {"REJECTED", "CANCELLED", "PAYMENT_EXPIRED", "PAYMENT_FAILED", "COLLECTED"}

(* useOrderNotifications: the first data primes, a change is announced.    *)
TrackGets(s) ==
  /\ seen' = s
  /\ toast' = IF seen \notin {"none", s} /\ s \in Announced THEN s ELSE toast
  /\ UNCHANGED bell

(* Mutant: a ticket that left is not forgotten.                            *)
BoardGets_Remembers(s) ==
  /\ seen' = IF s = "absent" THEN seen ELSE s
  /\ bell' = (seen = "none" /\ s \in UNACCEPTED)
  /\ UNCHANGED toast

(* useKitchenNotifications: a ticket that was not there and waits to be    *)
(* accepted rings; one that left is forgotten.  The board passes an empty  *)
(* list before the first data, so nothing is ever primed.                  *)
BoardGets(s) ==
  /\ seen' = IF s = "absent" THEN "none" ELSE s
  /\ bell' = (seen = "none" /\ s \in UNACCEPTED)
  /\ UNCHANGED toast

Received ==
  /\ query.got # "none"
  /\ query' = [data |-> query.got, fetching |-> FALSE, got |-> "none"]
  /\ IF view = "track" THEN TrackGets(query.got) ELSE BoardGets(query.got)
  /\ UNCHANGED <<view, order, listener, socket, event>>

-----------------------------------------------------------------------------
ScreensNext ==
  \/ \E to \in Statuses : Transition(to)
  \/ ClientDies \/ Start
  \/ SocketConnects \/ SocketDrops \/ EventArrives
  \/ Polls \/ ServerAnswers \/ FetchFails \/ Received

ScreensSpec == ScreensInit /\ [][ScreensNext]_screensVars

(* Timers fire and events are handled; a request asked again and again is  *)
(* answered in the end.  No listener and no socket has to come back.       *)
ScreensLiveSpec ==
  /\ ScreensSpec
  /\ WF_screensVars(Polls) /\ WF_screensVars(EventArrives)
  /\ SF_screensVars(ServerAnswers) /\ SF_screensVars(Received)

-----------------------------------------------------------------------------
(* Properties.                                                             *)

(* bus.ts "realtime is an accelerator over polling": with no listener and  *)
(* no socket at all, the tracking screen comes to show the status an order *)
(* rests in, unless it showed one it takes for the last; the board does so *)
(* always, and a ticket that left the kitchen leaves it.                   *)
ScreenCatchesUp ==
  <>[][FALSE]_order
    => <>[](query.data = Answer \/ (view = "track" /\ query.data \in TERMINAL))

(* notify.tsx: a ticket that comes onto a board that has had its data and  *)
(* waits to be accepted rings, also when it was there once before and its  *)
(* dispatch failed.  The first snapshot is left out: it should be silent,  *)
(* says notify.tsx:198-200, and is not (Board.tsx:155).                    *)
NewTicketRings ==
  [][(view = "board" /\ query.data \notin LIVE \cup {"none"} /\ query'.data \in UNACCEPTED)
       => bell']_screensVars
=============================================================================
