------------------------------- MODULE Stall -------------------------------
(***************************************************************************)
(* What a stall does besides cooking: it takes money at the till           *)
(* (Counter), keeps the menu on its tablets (Menu) and has hours that its  *)
(* page announces (Hours).  No two of them read what another writes, so a  *)
(* behaviour follows one.                                                  *)
(***************************************************************************)
EXTENDS Counter, Menu, Hours

vars == <<counterVars, menuVars, hoursVars>>

Init == CounterInit /\ MenuInit /\ HoursInit

AtTheTill == requests = 0 /\ HoursInit /\ CounterNext /\ UNCHANGED <<menuVars, hoursVars>>
AtTheTablet == CounterInit /\ HoursInit /\ MenuNext /\ UNCHANGED <<counterVars, hoursVars>>
AtTheDoor == CounterInit /\ requests = 0 /\ HoursNext /\ UNCHANGED <<counterVars, menuVars>>

Next == AtTheTill \/ AtTheTablet \/ AtTheDoor

Spec == Init /\ [][Next]_vars
LiveSpec == Spec /\ CounterFairness
=============================================================================
