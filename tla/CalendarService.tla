-------------------------- MODULE CalendarService ---------------------------
(***************************************************************************)
(* Availability in a provider's calendar on one day:                       *)
(* CalendarService.list_available_slots of src/calendar_service.py.        *)
(*                                                                         *)
(* Time is counted in units from the opening of the day (8:00) to its end  *)
(* (18:00).  Google's free/busy answer is the set of busy periods of the   *)
(* day; two periods that are equal are one.                                *)
(***************************************************************************)
EXTENDS Integers, FiniteSets

CONSTANTS
  DayEnd,  \* the end of the day
  Buffer,  \* buffer_min of the tenant
  Hour     \* how many units an hour has

ASSUME CalendarAssumption == DayEnd \in Nat /\ Buffer \in Nat /\ Hour \in Nat \ {0}

Times   == 0..DayEnd
Periods == {p \in [start : Times, end : Times] : p.start < p.end}

Before(p, q) == p.start < q.start \/ (p.start = q.start /\ p.end <= q.end)
First(busy)  == CHOOSE p \in busy : \A q \in busy : Before(p, q)
Later(s, t)  == IF s < t THEN t ELSE s

\* What the cursor moves up to: the next busy period, or the end of the day.
Limit(todo) == IF todo = {} THEN DayEnd ELSE First(todo).start

\* Slip: a busy period that ends before the cursor moves it back.
AvailableSlotsBack(busy, duration) ==
  LET from[at \in [todo : SUBSET busy, cursor : Nat]] ==
        IF at.cursor + duration <= Limit(at.todo)
        THEN {at.cursor} \cup from[[at EXCEPT !.cursor = @ + duration + Buffer]]
        ELSE IF at.todo = {} THEN {}
        ELSE LET p == First(at.todo) IN
             from[[todo |-> at.todo \ {p}, cursor |-> p.end + Buffer]]
  IN  from[[todo |-> busy, cursor |-> 0]]

\* Slip: a slot must end before the next busy period starts.
AvailableSlotsStrict(busy, duration) ==
  LET from[at \in [todo : SUBSET busy, cursor : Nat]] ==
        IF at.cursor + duration < Limit(at.todo)
        THEN {at.cursor} \cup from[[at EXCEPT !.cursor = @ + duration + Buffer]]
        ELSE IF at.todo = {} THEN {}
        ELSE LET p == First(at.todo) IN
             from[[todo |-> at.todo \ {p}, cursor |-> Later(at.cursor, p.end + Buffer)]]
  IN  from[[todo |-> busy, cursor |-> 0]]

\* list_available_slots: the starts of the slots.  The cursor steps through
\* the free time before each busy period in turn and then up to the day's end.
AvailableSlots(busy, duration) ==
  LET from[at \in [todo : SUBSET busy, cursor : Nat]] ==
        IF at.cursor + duration <= Limit(at.todo)
        THEN {at.cursor} \cup from[[at EXCEPT !.cursor = @ + duration + Buffer]]
        ELSE IF at.todo = {} THEN {}
        ELSE LET p == First(at.todo) IN
             from[[todo |-> at.todo \ {p}, cursor |-> Later(at.cursor, p.end + Buffer)]]
  IN  from[[todo |-> busy, cursor |-> 0]]

\* _format_slot shows the hour of a start and drops its minutes; check_availability
\* offers what is shown.
Display(t) == t \div Hour
Offers(busy, duration) == {Display(t) : t \in AvailableSlots(busy, duration)}

\* What a bookable start is: the appointment lies within the day, disjoint from
\* every busy period, with the buffer after each one that comes before it.
Bookable(busy, duration) ==
  {t \in Times : /\ t + duration <= DayEnd
                 /\ \A p \in busy : t + duration <= p.start \/ p.end + Buffer <= t}
=============================================================================
