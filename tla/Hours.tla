------------------------------- MODULE Hours -------------------------------
(***************************************************************************)
(* The opening hours of one stall (catalog/opening-hours.ts) and what its  *)
(* page says of them: open now and until when, or shut and until when      *)
(* (tenancy/discovery.controller.ts, menu).  A window that closes before   *)
(* it opens runs into the next day.  All times are the court's wall clock, *)
(* which is taken to run evenly: India has no daylight saving.             *)
(***************************************************************************)
EXTENDS Integers, SequencesExt

CONSTANTS
  MinutesADay, \* 1440
  MaxWindows   \* bound: windows in a schedule

ASSUME HoursAssumption == MinutesADay \in Nat \ {0} /\ MaxWindows \in Nat

VARIABLES
  hours,  \* vendor.operating_hours, as parseHours leaves it
  day,    \* the day of the week
  minute, \* minutes past midnight
  said    \* the last answer about the stall, counting down

hoursVars == <<hours, day, minute, said>>

DAYS == 0..6
Minutes == 0..MinutesADay - 1

(* A window as long as nothing is dropped by parseHours.                   *)
Windows == {w \in [day : DAYS, open : Minutes, close : Minutes] : w.open # w.close}

NothingSaid == [what |-> "nothing"]

On(d) == {w \in hours : w.day = d}
PreviousDay == (day + 6) % 7
PastMidnight(w) == w.close < w.open

-----------------------------------------------------------------------------
(* Mutant: yesterday's late window is forgotten at midnight.               *)
IsOpen_TodayOnly ==
  \/ hours = {}
  \/ \E w \in On(day) : minute >= w.open /\ (PastMidnight(w) \/ minute < w.close)

(* isOpenAt: no schedule at all means open.                                *)
IsOpen ==
  \/ hours = {}
  \/ \E w \in On(day) : minute >= w.open /\ (PastMidnight(w) \/ minute < w.close)
  \/ \E w \in On(PreviousDay) : PastMidnight(w) /\ minute < w.close

(* nextOpening: later today, else the first window of the next six days    *)
(* that has one.  How many minutes ahead, or -1 for null.                  *)
NextOpening ==
  LET laterToday == {w.open : w \in {v \in On(day) : v.open > minute}}
      ahead == {k \in 1..6 : On((day + k) % 7) # {}}
  IN CASE laterToday # {} -> Min(laterToday) - minute
       [] laterToday = {} /\ ahead # {} ->
            LET k == Min(ahead)
            IN k * MinutesADay + Min({w.open : w \in On((day + k) % 7)}) - minute
       [] OTHER -> -1

(* currentClose: yesterday's late windows and today's on one line of       *)
(* minutes from today's midnight, by their beginning ...                   *)
Spans ==
  {[from |-> w.open - MinutesADay, to |-> w.close] : w \in {v \in On(PreviousDay) : PastMidnight(v)}}
  \cup {[from |-> w.open, to |-> IF PastMidnight(w) THEN w.close + MinutesADay ELSE w.close] :
          w \in On(day)}

(* ... those that meet or overlap made into one.                           *)
Merge(merged, s) ==
  IF merged # <<>> /\ s.from <= Last(merged).to
  THEN [merged EXCEPT ![Len(merged)].to = IF s.to > @ THEN s.to ELSE @]
  ELSE Append(merged, s)

SortedSpans ==
  CHOOSE q \in SetToSeqs(Spans) : \A i, j \in DOMAIN q : i < j => q[i].from <= q[j].from

Stretches == FoldLeft(Merge, <<>>, SortedSpans)

(* When the stretch that holds this minute ends.                           *)
CurrentClose ==
  LET here == {s \in Range(Stretches) : minute >= s.from /\ minute < s.to}
  IN IF here = {} THEN -1 ELSE (CHOOSE s \in here : TRUE).to

-----------------------------------------------------------------------------
HoursInit ==
  /\ hours = {}
  /\ day = 0 /\ minute = 0
  /\ said = NothingSaid

(* The page of the stall is asked for.  left is how far ahead the time it  *)
(* names is; tomorrow is the flag of currentClose.                         *)
Look ==
  /\ said' =
       IF IsOpen
       THEN IF hours = {} THEN NothingSaid
            ELSE [what |-> "closes", left |-> CurrentClose - minute,
                  tomorrow |-> CurrentClose >= MinutesADay]
       ELSE IF NextOpening = -1 THEN NothingSaid
            ELSE [what |-> "opens", left |-> NextOpening]
  /\ UNCHANGED <<hours, day, minute>>

Tick ==
  /\ minute' = (minute + 1) % MinutesADay
  /\ day' = IF minute' = 0 THEN (day + 1) % 7 ELSE day
  /\ said' = IF said = NothingSaid \/ said.left = 0
             THEN NothingSaid ELSE [said EXCEPT !.left = @ - 1]
  /\ UNCHANGED hours

(* updateVendor writes the whole schedule; that it differs in one window   *)
(* reaches every schedule.  What was said before is void.                  *)
SetHours(w) ==
  /\ hours' = IF w \in hours THEN hours \ {w} ELSE hours \cup {w}
  /\ Cardinality(hours') <= MaxWindows
  /\ said' = NothingSaid
  /\ UNCHANGED <<day, minute>>

HoursNext == Look \/ Tick \/ \E w \in Windows : SetHours(w)

HoursSpec == HoursInit /\ [][HoursNext]_hoursVars

-----------------------------------------------------------------------------
(* Properties.                                                             *)

(* nextOpening, currentClose and isOpenAt are three computations that the  *)
(* page puts side by side.  As long as nobody changes the hours, a stall   *)
(* said to open at a time is shut until then and open at that minute, and  *)
(* one said to close at a time is open until then.  It is shut at that     *)
(* minute, too, unless the time is tomorrow's: windows of tomorrow are not *)
(* among the spans.                                                        *)
OpensWhenSaid ==
  /\ said.what = "opens" => (IsOpen <=> said.left = 0)
  /\ said.what = "closes" =>
       /\ said.left > 0 => IsOpen
       /\ said.left = 0 => ~IsOpen \/ said.tomorrow
=============================================================================
