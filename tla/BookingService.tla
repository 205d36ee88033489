--------------------------- MODULE BookingService ---------------------------
(***************************************************************************)
(* The booking tools Claude calls during phone calls: BookingService of    *)
(* src/booking_service.py, with the database session each call keeps, and  *)
(* the events CalendarService of src/calendar_service.py makes in the one  *)
(* calendar the calls share.                                               *)
(*                                                                         *)
(* The requests of a call come one after the other.  Google is called      *)
(* synchronously; a request is suspended, and may be cancelled by a        *)
(* barge-in, only in the database: when it looks an appointment up and     *)
(* when it commits.  Names, displays and services are left out, and every  *)
(* appointment lasts Duration.                                             *)
(***************************************************************************)
EXTENDS CalendarService

CONSTANTS
  Calls,
  Duration,     \* of an appointment
  Starts,       \* the starts Claude may ask for, offered or not
  MaxRequests,  \* bound: requests of each call
  External      \* the sets of periods the business may have entered itself

ASSUME BookingAssumption ==
  /\ Duration \in Nat \ {0} /\ Starts \subseteq 0..(DayEnd - Duration)
  /\ MaxRequests \in [Calls -> Nat \ {0}] /\ External \subseteq SUBSET Periods

\* The n-th request of a call names the appointment and the event it creates.
Ids == UNION {{c} \X (1..MaxRequests[c]) : c \in Calls}

VARIABLES
  events,     \* events of the calendar: id -> start, for the ids in its domain
  external,   \* the other busy periods of the calendar
  rows,       \* appointments table: id -> [status, event, start]
  pc,         \* per call: "idle", "called", "lookup" or "commit"
  request,    \* per call: [op, id, start] of its last request
  count,      \* per call: requests so far
  answer,     \* per call: how its last request ended
  session,    \* per call: "usable", or "broken" until a rollback nobody asks for
  blemished   \* ghost: requests that were cut off or in which a call failed

vars == <<events, external, rows, pc, request, count, answer, session, blemished>>

With(e, s) == [x \in DOMAIN events \cup {e} |-> IF x = e THEN s ELSE events[x]]
Without(e) == [x \in DOMAIN events \ {e} |-> events[x]]
Me(c)      == <<c, count[c]>>
Row(c)     == rows[request[c].id]
NoRow      == [status |-> "none", event |-> <<>>, start |-> 0]
Busy       == external \cup {[start |-> events[e], end |-> events[e] + Duration] :
                                e \in DOMAIN events}

Init ==
  /\ events = [e \in {} |-> 0]
  /\ external \in External
  /\ rows = [i \in Ids |-> NoRow]
  /\ pc = [c \in Calls |-> "idle"]
  /\ request = [c \in Calls |-> [op |-> "book", id |-> <<c, 1>>, start |-> 0]]
  /\ count = [c \in Calls |-> 0]
  /\ answer = [c \in Calls |-> "nothing"]
  /\ session = [c \in Calls |-> "usable"]
  /\ blemished = {}
-----------------------------------------------------------------------------
\* handle_tool_call.  An id is one Claude was told, or one it makes up.
HandleToolCall(c) ==
  /\ pc[c] = "idle" /\ count[c] < MaxRequests[c]
  /\ count' = [count EXCEPT ![c] = @ + 1]
  /\ \E s \in Starts :
       \/ /\ request' = [request EXCEPT ![c] =
                           [op |-> "book", id |-> <<c, count[c] + 1>>, start |-> s]]
          /\ pc' = [pc EXCEPT ![c] = "called"]
       \/ /\ \E op \in {"cancel", "reschedule"}, n \in 1..count[c] :
               request' = [request EXCEPT ![c] = [op |-> op, id |-> <<c, n>>, start |-> s]]
          /\ pc' = [pc EXCEPT ![c] = "lookup"]
  /\ UNCHANGED <<events, external, rows, answer, session, blemished>>

\* The request goes on to its commit, or ends.  One that fails or is cut off
\* ends "not done", as does one that is refused.
GoOn(c)    == /\ pc' = [pc EXCEPT ![c] = "commit"]
              /\ UNCHANGED answer
End(c, a)  == /\ pc' = [pc EXCEPT ![c] = "idle"]
              /\ answer' = [answer EXCEPT ![c] = a]
Blemish(c) == blemished' = blemished \cup {Me(c)}

\* create_event at the start the request asks for; an insert that raises may
\* have made the event.
Created(c) == With(Me(c), request[c].start)

\* Slip: the exception of create_event is swallowed.
BookAppointmentSwallows(c) ==
  /\ pc[c] = "called"
  /\ events' \in {events, Created(c)} /\ GoOn(c)
  /\ blemished' \in {blemished, blemished \cup {Me(c)}}
  /\ UNCHANGED <<external, rows, request, count, session>>

\* book_appointment up to its commit.  It refuses a service or a time it cannot
\* read; otherwise it books, without another look at the calendar.
BookAppointment(c) ==
  /\ pc[c] = "called"
  /\ \/ events' = Created(c) /\ GoOn(c) /\ UNCHANGED blemished
     \/ events' \in {events, Created(c)} /\ End(c, "not done") /\ Blemish(c)
     \/ UNCHANGED <<events, blemished>> /\ End(c, "not done")
  /\ UNCHANGED <<external, rows, request, count, session>>

\* _get_appointment finds none, or one that is cancelled already.
Refuse(c) ==
  /\ pc[c] = "lookup" /\ session[c] = "usable"
  /\ Row(c).status # "confirmed"
  /\ End(c, "not done")
  /\ UNCHANGED <<events, external, rows, request, count, session, blemished>>

\* _get_appointment raises or is cancelled.  Unless it failed before it had a
\* connection, the session then needs a rollback.
LookupFails(c) ==
  /\ pc[c] = "lookup"
  /\ End(c, "not done")
  /\ session' \in {session, [session EXCEPT ![c] = "broken"]}
  /\ UNCHANGED <<events, external, rows, request, count, blemished>>

\* cancel_event: deletes the event; or fails, which it only returns, with the
\* event deleted or not.
CancelEvent(c, left) ==
  \/ left = Without(Row(c).event) /\ UNCHANGED blemished
  \/ left \in {events, Without(Row(c).event)} /\ Blemish(c)

\* Slip: the status of the appointment is not looked at.
FoundAny(c, op) == /\ pc[c] = "lookup" /\ session[c] = "usable"
                   /\ request[c].op = op /\ Row(c).status # "none"

Found(c, op) == /\ pc[c] = "lookup" /\ session[c] = "usable"
                /\ request[c].op = op /\ Row(c).status = "confirmed"

\* Slip: the event is left in the calendar.
CancelAppointmentRowOnly(c) ==
  /\ Found(c, "cancel") /\ GoOn(c)
  /\ UNCHANGED <<events, external, rows, request, count, session, blemished>>

\* cancel_appointment up to its commit.  Without credentials cancel_event raises.
CancelAppointment(c) ==
  /\ Found(c, "cancel")
  /\ \/ CancelEvent(c, events') /\ GoOn(c)
     \/ UNCHANGED <<events, blemished>> /\ End(c, "not done")
  /\ UNCHANGED <<external, rows, request, count, session>>

\* Slip: the new date is only parsed once the old event is gone, and is refused.
RescheduleAppointmentParsesLate(c) ==
  /\ Found(c, "reschedule")
  /\ events' = Without(Row(c).event) /\ End(c, "not done")
  /\ UNCHANGED <<external, rows, request, count, session, blemished>>

\* reschedule_appointment up to its commit: the old event goes before the new
\* one is there.
RescheduleAppointment(c) ==
  /\ Found(c, "reschedule")
  /\ \/ \E left \in {events, Without(Row(c).event)} :
          LET both == [x \in DOMAIN left \cup {Me(c)} |->
                         IF x = Me(c) THEN request[c].start ELSE left[x]] IN
          \/ CancelEvent(c, left) /\ events' = both /\ GoOn(c)
          \/ events' \in {left, both} /\ Blemish(c) /\ End(c, "not done")
     \/ UNCHANGED <<events, blemished>> /\ End(c, "not done")
  /\ UNCHANGED <<external, rows, request, count, session>>

\* Slip: a rescheduled appointment keeps the id of its old event.
UpdatedOldEvent(c) ==
  [rows EXCEPT ![request[c].id] =
     CASE request[c].op = "cancel"     -> [@ EXCEPT !.status = "cancelled"]
       [] request[c].op = "reschedule" -> [@ EXCEPT !.start = request[c].start]
       [] OTHER -> [status |-> "confirmed", event |-> Me(c), start |-> request[c].start]]

\* The row the request commits.
Updated(c) ==
  [rows EXCEPT ![request[c].id] =
     IF request[c].op = "cancel" THEN [@ EXCEPT !.status = "cancelled"]
     ELSE [status |-> "confirmed", event |-> Me(c), start |-> request[c].start]]

Commit(c) ==
  /\ pc[c] = "commit" /\ session[c] = "usable"
  /\ rows' = Updated(c)
  /\ End(c, "done")
  /\ UNCHANGED <<events, external, request, count, session, blemished>>

\* The commit raises or is cancelled, with the row written or not.  Nothing rolls
\* the session back, so that no later lookup or commit of the call succeeds.
CommitFails(c) ==
  /\ pc[c] = "commit"
  /\ \/ UNCHANGED rows
     \/ session[c] = "usable" /\ rows' = Updated(c)
  /\ session' = [session EXCEPT ![c] = "broken"]
  /\ End(c, "not done") /\ Blemish(c)
  /\ UNCHANGED <<events, external, request, count>>

Step(c) ==
  \/ BookAppointment(c) \/ Refuse(c) \/ LookupFails(c) \/ CancelAppointment(c)
  \/ RescheduleAppointment(c) \/ Commit(c) \/ CommitFails(c)

Next == \E c \in Calls : HandleToolCall(c) \/ Step(c)

Spec == Init /\ [][Next]_vars

-----------------------------------------------------------------------------
\* The variables have their types, and a call that commits has its event in hand.
TypeOK ==
  /\ DOMAIN events \subseteq Ids /\ events \in [DOMAIN events -> Starts]
  /\ external \in External
  /\ rows \in [Ids -> [status : {"none", "confirmed", "cancelled"},
                       event : Ids \cup {<<>>}, start : Starts \cup {0}]]
  /\ pc \in [Calls -> {"idle", "called", "lookup", "commit"}]
  /\ request \in [Calls -> [op : {"book", "cancel", "reschedule"}, id : Ids,
                            start : Starts \cup {0}]]
  /\ \A c \in Calls : count[c] \in 0..MaxRequests[c]
  /\ answer \in [Calls -> {"nothing", "done", "not done"}]
  /\ session \in [Calls -> {"usable", "broken"}]
  /\ blemished \subseteq Ids
  /\ \A c \in Calls :
       pc[c] = "commit" /\ request[c].op # "cancel" => Me(c) \in DOMAIN events

\* An appointment is held at s: its row says so and the calendar has its event.
Held(i, s) ==
  /\ rows[i].status = "confirmed" /\ rows[i].start = s
  /\ rows[i].event \in DOMAIN events /\ events[rows[i].event] = s

\* What Claude is told to be done is done, whatever requests of this call failed before
\* and whatever other calls do: a booking or a new time in the table and in the
\* calendar; a cancellation in the table, and in the calendar unless Google refused to
\* delete the event, which cancel_appointment does not look at
\* (booking_service.py:161-167, 182-194, 230-236; calendar_service.py:179-185).
DoneMeansDone ==
  \A c \in Calls : pc[c] = "idle" /\ answer[c] = "done" =>
    IF request[c].op = "cancel"
    THEN /\ Row(c).status = "cancelled"
         /\ Row(c).event \in DOMAIN events => Me(c) \in blemished
    ELSE Held(request[c].id, request[c].start)

InProgress == {Me(c) : c \in {d \in Calls : pc[d] = "commit"}}

\* A confirmed appointment is in the calendar at its time, unless a later
\* request of its call was cut off or a call of one failed
\* (booking_service.py:213-235).
AppointmentsAreHeld ==
  \A i \in Ids : rows[i].status = "confirmed" =>
    \/ Held(i, rows[i].start)
    \/ \E n \in 1..MaxRequests[i[1]] : n > i[2] /\ <<i[1], n>> \in blemished \cup InProgress

\* Events nobody has an appointment for do not pile up by themselves: there is at
\* most one for each request that was cut off or in which a call failed
\* (booking_service.py:139-162, 185-192).
StrayEvents ==
  DOMAIN events \ {rows[i].event : i \in {j \in Ids : rows[j].status = "confirmed"}}
OneStrayPerBlemish == Cardinality(StrayEvents) <= Cardinality(blemished \cup InProgress)

\* What check_availability offers is an hour, and in each hour it offers a start can be
\* booked: within the day, clear of every busy period and with the buffer after it.  It
\* need not be the full hour: 9:15 is offered as 9am.  The starts behind the hours leave
\* the buffer between them (calendar_service.py:117-136, 188-195; booking_service.py:99).
OfferedSlotsAreBookable ==
  \A d \in 1..3 :
    /\ \A h \in Offers(Busy, d) : \E t \in Bookable(Busy, d) : Display(t) = h
    /\ \A s, t \in AvailableSlots(Busy, d) : s < t => s + d + Buffer <= t

\* No time is held back: a start that can be booked is found, or a slot that is found
\* and its buffer are in the way (calendar_service.py:120-136).
NothingFreeIsHidden ==
  \A d \in 1..3 : \A t \in Bookable(Busy, d) :
    \E s \in AvailableSlots(Busy, d) : s <= t /\ t < s + d + Buffer

Book == INSTANCE AppointmentBook WITH
  Appointments <- Ids,
  book  <- [i \in Ids |-> [status |-> rows[i].status, start |-> rows[i].start]],
  asked <- request,
  told  <- [c \in Calls |-> IF pc[c] = "idle" THEN answer[c] ELSE "waiting"]

\* The tools keep the promise of AppointmentBook: a request takes effect at most
\* once, is reported done only with its effect, and changes only an appointment
\* that is confirmed.
KeepsTheBook == Book!Spec
=============================================================================
