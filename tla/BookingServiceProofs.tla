------------------------ MODULE BookingServiceProofs ------------------------
(***************************************************************************)
(* The booking tools keep the promise of AppointmentBook and keep calendar *)
(* and table together, for every number of calls and requests, every day   *)
(* and every length of an appointment.                                     *)
(*                                                                         *)
(* A call writes its own appointments and events only, so the invariant    *)
(* is stated call by call: a step of one call disturbs no other (Others),  *)
(* and what it does to its own is shown action by action.                  *)
(***************************************************************************)
EXTENDS BookingService, CalendarServiceProofs

RowType == [status : {"none", "confirmed", "cancelled"},
             event : Ids \cup {<<>>}, start : Starts \cup {0}]
AskType  == [op : {"book", "cancel", "reschedule"}, id : Ids, start : Starts \cup {0}]

TypeData ==
  /\ DOMAIN events \subseteq Ids /\ events \in [DOMAIN events -> Starts]
  /\ external \in External
  /\ rows \in [Ids -> RowType]
  /\ pc \in [Calls -> {"idle", "called", "lookup", "commit"}]
  /\ request \in [Calls -> AskType]
  /\ count \in [Calls -> Nat] /\ \A c \in Calls : count[c] \in 0..MaxRequests[c]
  /\ answer \in [Calls -> {"nothing", "done", "not done"}]
  /\ session \in [Calls -> {"usable", "broken"}]
  /\ blemished \subseteq Ids

LEMMA IdFacts ==
  /\ \A i \in Ids : /\ i[1] \in Calls /\ i[2] \in 1..MaxRequests[i[1]]
                    /\ i[2] \in Nat /\ i = <<i[1], i[2]>>
  /\ \A c \in Calls : \A n \in 1..MaxRequests[c] :
       <<c, n>> \in Ids /\ <<c, n>>[1] = c /\ <<c, n>>[2] = n
  /\ \A c \in Calls : MaxRequests[c] \in Nat \ {0}
<1>1. \A c \in Calls : MaxRequests[c] \in Nat \ {0}
  BY BookingAssumption DEF BookingAssumption
<1>2. ASSUME NEW i \in Ids
      PROVE  /\ i[1] \in Calls /\ i[2] \in 1..MaxRequests[i[1]]
             /\ i[2] \in Nat /\ i = <<i[1], i[2]>>
  <2>1. PICK c \in Calls : i \in {c} \X (1..MaxRequests[c])
    BY DEF Ids
  <2> QED
    BY <1>1, <2>1
<1>3. ASSUME NEW c \in Calls, NEW n \in 1..MaxRequests[c]
      PROVE  <<c, n>> \in Ids /\ <<c, n>>[1] = c /\ <<c, n>>[2] = n
  BY DEF Ids
<1> QED
  BY <1>1, <1>2, <1>3

\* The calendar with an event more, or one fewer.
LEMMA WithFacts ==
  ASSUME DOMAIN events \subseteq Ids, events \in [DOMAIN events -> Starts],
         NEW e \in Ids, NEW s \in Starts
  PROVE  /\ DOMAIN With(e, s) = DOMAIN events \cup {e}
         /\ With(e, s) \in [DOMAIN With(e, s) -> Starts]
         /\ With(e, s)[e] = s
         /\ \A x \in DOMAIN events : x # e => With(e, s)[x] = events[x]
BY DEF With

LEMMA WithoutFacts ==
  ASSUME DOMAIN events \subseteq Ids, events \in [DOMAIN events -> Starts], NEW e
  PROVE  /\ DOMAIN Without(e) = DOMAIN events \ {e}
         /\ Without(e) \in [DOMAIN Without(e) -> Starts]
         /\ \A x \in DOMAIN events : x # e => Without(e)[x] = events[x]
BY DEF Without

-----------------------------------------------------------------------------
\* What a call knows of its own rows, request and events.

\* Rows are made by requests, each with an event that no other row has.
OwnRows(c) ==
  /\ \A i \in Ids : i[1] = c =>
       /\ rows[i].status # "none" =>
            /\ i[2] <= count[c]
            /\ rows[i].event \in Ids /\ rows[i].event[1] = c /\ rows[i].event[2] <= count[c]
            /\ pc[c] # "idle" => rows[i].event # Me(c)
  /\ \A i, j \in Ids :
       i[1] = c /\ j[1] = c /\ rows[i].status # "none" /\ rows[j].status # "none"
       /\ rows[i].event = rows[j].event => i = j

\* A cancelled appointment has no event left unless Google refused to delete it.
Gone(c) == Row(c).event \in DOMAIN events => Me(c) \in blemished

\* A booking makes the row of its own request; the others have found one confirmed.
OwnRequest(c) ==
  /\ request[c].id[1] = c
  /\ pc[c] # "idle" =>
       /\ Me(c) \in Ids /\ request[c].start \in Starts
       /\ IF request[c].op = "book"
          THEN request[c].id = Me(c) /\ rows[Me(c)].status = "none"
          ELSE request[c].id[2] < count[c]
  /\ pc[c] = "called" => request[c].op = "book"
  /\ pc[c] = "lookup" => request[c].op # "book"
  /\ pc[c] = "commit" => /\ request[c].op = "book" \/ Row(c).status = "confirmed"
                         /\ request[c].op # "cancel" =>
                              Me(c) \in DOMAIN events /\ events[Me(c)] = request[c].start
                         /\ request[c].op = "cancel" => Gone(c)

OwnAnswer(c) ==
  pc[c] = "idle" /\ answer[c] = "done" =>
    IF request[c].op = "cancel" THEN Row(c).status = "cancelled" /\ Gone(c)
                                ELSE Held(request[c].id, request[c].start)

\* A confirmed appointment is held, is about to be written, or was hurt by a later
\* request.
Hurt(i)  == \E e \in blemished : e[1] = i[1] /\ e[2] > i[2]
OwnHeld(c) ==
  \A i \in Ids : i[1] = c /\ rows[i].status = "confirmed" =>
    Held(i, rows[i].start) \/ Hurt(i) \/ (pc[c] = "commit" /\ i = request[c].id)

CallInv(c) == OwnRows(c) /\ OwnRequest(c) /\ OwnAnswer(c) /\ OwnHeld(c)

BookInv == TypeData /\ \A c \in Calls : CallInv(c)

-----------------------------------------------------------------------------
\* A step of d leaves the local state, the rows and the events of the other calls
\* as they are.
Undisturbed(d) ==
  /\ \A c \in Calls : c # d => /\ pc'[c] = pc[c] /\ request'[c] = request[c]
                               /\ count'[c] = count[c] /\ answer'[c] = answer[c]
  /\ \A i \in Ids : i[1] # d => rows'[i] = rows[i]
  /\ \A e \in Ids : e[1] # d => /\ e \in DOMAIN events <=> e \in DOMAIN events'
                                /\ e \in DOMAIN events => events'[e] = events[e]
  /\ blemished \subseteq blemished'

LEMMA Others ==
  ASSUME BookInv, NEW d \in Calls, Undisturbed(d), NEW c \in Calls, c # d
  PROVE  CallInv(c)'
<1>1. /\ pc'[c] = pc[c] /\ request'[c] = request[c]
      /\ count'[c] = count[c] /\ answer'[c] = answer[c] /\ Me(c)' = Me(c)
  BY DEF Undisturbed, Me
<1>2. /\ \A i \in Ids : i[1] = c => rows'[i] = rows[i]
      /\ \A e \in Ids : e[1] = c => /\ e \in DOMAIN events <=> e \in DOMAIN events'
                                    /\ e \in DOMAIN events => events'[e] = events[e]
      /\ blemished \subseteq blemished'
  BY DEF Undisturbed
<1>3. CallInv(c) /\ request[c].id \in Ids
  BY DEF BookInv, TypeData, AskType
<1>4. request[c].id[1] = c /\ Row(c)' = Row(c)
  BY <1>1, <1>2, <1>3 DEF CallInv, OwnRequest, Row
<1>5. OwnRows(c)'
  BY <1>1, <1>2, <1>3 DEF CallInv, OwnRows
<1>10. Row(c).status # "none" /\ Gone(c) => Gone(c)'
  <2>1. Row(c).status # "none" => Row(c).event \in Ids /\ Row(c).event[1] = c
    BY <1>3, <1>4 DEF CallInv, OwnRows, Row
  <2> QED
    BY <1>1, <1>2, <1>4, <2>1 DEF Gone
<1>6. OwnRequest(c)'
  <2>1. Me(c) \in Ids => Me(c)[1] = c
    BY IdFacts DEF Me
  <2> QED
    BY <1>1, <1>2, <1>3, <1>4, <1>10, <2>1 DEF CallInv, OwnRequest
<1>7. ASSUME NEW i \in Ids, i[1] = c, NEW s, Held(i, s)
      PROVE  Held(i, s)'
  BY <1>2, <1>3, <1>7 DEF Held, CallInv, OwnRows
<1>8. OwnAnswer(c)'
  BY <1>1, <1>3, <1>4, <1>7, <1>10 DEF CallInv, OwnAnswer
<1>9. OwnHeld(c)'
  BY <1>1, <1>2, <1>3, <1>7 DEF CallInv, OwnHeld, Hurt
<1> QED
  BY <1>5, <1>6, <1>8, <1>9 DEF CallInv

-----------------------------------------------------------------------------
\* What a step of d does to its own state: it keeps the types and the other calls.
LEMMA RowFacts ==
  ASSUME BookInv, NEW d \in Calls, pc[d] # "idle"
  PROVE  /\ request[d].id \in Ids /\ request[d].id[1] = d
         /\ Me(d) \in Ids /\ Me(d)[1] = d /\ Me(d)[2] = count[d]
         /\ request[d].start \in Starts
         /\ Row(d) \in RowType
<1>1. request[d].id \in Ids /\ Row(d) \in RowType /\ CallInv(d)
  BY DEF BookInv, TypeData, AskType, Row
<1> QED
  BY <1>1, IdFacts DEF CallInv, OwnRequest, Me

LEMMA CreatedFacts ==
  ASSUME BookInv, NEW d \in Calls, pc[d] = "called"
  PROVE  /\ DOMAIN Created(d) = DOMAIN events \cup {Me(d)}
         /\ DOMAIN Created(d) \subseteq Ids /\ Created(d) \in [DOMAIN Created(d) -> Starts]
         /\ Created(d)[Me(d)] = request[d].start
         /\ \A x \in DOMAIN events : x # Me(d) => Created(d)[x] = events[x]
<1>1. DOMAIN events \subseteq Ids /\ events \in [DOMAIN events -> Starts]
  BY DEF BookInv, TypeData
<1>2. Me(d) \in Ids /\ request[d].start \in Starts
  BY RowFacts
<1>3. DOMAIN With(Me(d), request[d].start) = DOMAIN events \cup {Me(d)}
      /\ With(Me(d), request[d].start) \in [DOMAIN With(Me(d), request[d].start) -> Starts]
      /\ With(Me(d), request[d].start)[Me(d)] = request[d].start
      /\ \A x \in DOMAIN events :
           x # Me(d) => With(Me(d), request[d].start)[x] = events[x]
  BY <1>1, <1>2, WithFacts
<1> QED
  BY <1>1, <1>2, <1>3 DEF Created

\* What a reschedule leaves: the event of its own request beside those of left.
Both(d, left) == [x \in DOMAIN left \cup {Me(d)} |->
                    IF x = Me(d) THEN request[d].start ELSE left[x]]

LEMMA LeftFacts ==
  ASSUME BookInv, NEW d \in Calls, pc[d] # "idle",
         NEW left \in {events, Without(Row(d).event)}
  PROVE  /\ DOMAIN left \subseteq DOMAIN events /\ DOMAIN left \subseteq Ids
         /\ left \in [DOMAIN left -> Starts]
         /\ \A x \in DOMAIN events : x # Row(d).event => x \in DOMAIN left
         /\ \A x \in DOMAIN left : left[x] = events[x]
         /\ DOMAIN Both(d, left) = DOMAIN left \cup {Me(d)}
         /\ DOMAIN Both(d, left) \subseteq Ids
         /\ Both(d, left) \in [DOMAIN Both(d, left) -> Starts]
         /\ Both(d, left)[Me(d)] = request[d].start
         /\ \A x \in DOMAIN left : x # Me(d) => Both(d, left)[x] = left[x]
<1>1. DOMAIN events \subseteq Ids /\ events \in [DOMAIN events -> Starts]
  BY DEF BookInv, TypeData
<1>2. /\ DOMAIN left \subseteq DOMAIN events /\ left \in [DOMAIN left -> Starts]
      /\ \A x \in DOMAIN events : x # Row(d).event => x \in DOMAIN left
      /\ \A x \in DOMAIN left : left[x] = events[x]
  <2>1. CASE left = events
    BY <1>1, <2>1
  <2>2. CASE left = Without(Row(d).event)
    <3>1. /\ DOMAIN left = DOMAIN events \ {Row(d).event}
          /\ left \in [DOMAIN left -> Starts]
          /\ \A x \in DOMAIN events : x # Row(d).event => left[x] = events[x]
      BY <1>1, <2>2, WithoutFacts
    <3> QED
      BY <3>1
  <2> QED
    BY <2>1, <2>2
<1>3. Me(d) \in Ids /\ request[d].start \in Starts
  BY RowFacts
<1> QED
  BY <1>1, <1>2, <1>3 DEF Both

\* The row that d's request writes, if it ends in a commit.
LEMMA UpdatedFacts ==
  ASSUME BookInv, NEW d \in Calls, pc[d] = "commit"
  PROVE  /\ Updated(d) \in [Ids -> RowType]
         /\ \A i \in Ids : i # request[d].id => Updated(d)[i] = rows[i]
         /\ request[d].op = "cancel" =>
              /\ Updated(d)[request[d].id].status = "cancelled"
              /\ Updated(d)[request[d].id].event = Row(d).event
         /\ request[d].op # "cancel" =>
              /\ Updated(d)[request[d].id].status = "confirmed"
              /\ Updated(d)[request[d].id].event = Me(d)
              /\ Updated(d)[request[d].id].start = request[d].start
<1>1. rows \in [Ids -> RowType] /\ Row(d) = rows[request[d].id]
  BY DEF BookInv, TypeData, Row
<1>2. request[d].id \in Ids /\ Me(d) \in Ids /\ request[d].start \in Starts
  BY RowFacts
<1>3. CASE request[d].op = "cancel"
  <2>1. Updated(d) = [rows EXCEPT ![request[d].id] = [@ EXCEPT !.status = "cancelled"]]
    BY <1>3 DEF Updated
  <2> QED
    BY <1>1, <1>2, <1>3, <2>1 DEF RowType
<1>4. CASE request[d].op # "cancel"
  <2>1. Updated(d) = [rows EXCEPT ![request[d].id] =
                        [status |-> "confirmed", event |-> Me(d), start |-> request[d].start]]
    BY <1>4 DEF Updated
  <2> QED
    BY <1>1, <1>2, <1>4, <2>1 DEF RowType
<1> QED
  BY <1>3, <1>4

-----------------------------------------------------------------------------
\* A row keeps its event, and a held appointment is held, when the step keeps it.
LEMMA HeldKept ==
  ASSUME NEW i \in Ids, NEW s, Held(i, s), rows'[i] = rows[i],
         rows[i].event \in DOMAIN events',
         events'[rows[i].event] = events[rows[i].event]
  PROVE  Held(i, s)'
BY DEF Held

LEMMA HurtKept ==
  ASSUME blemished \subseteq blemished', NEW i
  PROVE  Hurt(i) => Hurt(i)'
BY DEF Hurt

\* The last request, once it is cut off, hurts every earlier row of the call.
LEMMA Blemished ==
  ASSUME BookInv, NEW d \in Calls, pc[d] # "idle", Blemish(d),
         NEW i \in Ids, i[1] = d, i[2] < count[d]
  PROVE  Hurt(i)'
<1>1. Me(d) \in blemished' /\ Me(d)[1] = d /\ Me(d)[2] = count[d]
  BY RowFacts DEF Blemish
<1> QED
  BY <1>1 DEF Hurt

LEMMA HandleToolCallStep ==
  ASSUME BookInv, NEW d \in Calls, HandleToolCall(d)
  PROVE  TypeData' /\ Undisturbed(d) /\ CallInv(d)'
<1>1. TypeData /\ CallInv(d)
  BY DEF BookInv
<1>2. /\ pc[d] = "idle" /\ count[d] < MaxRequests[d] /\ count[d] \in Nat
      /\ count' = [count EXCEPT ![d] = @ + 1]
      /\ UNCHANGED <<events, external, rows, answer, session, blemished>>
  BY <1>1 DEF HandleToolCall, TypeData
<1>3. PICK s \in Starts :
       \/ /\ request' = [request EXCEPT ![d] =
                           [op |-> "book", id |-> <<d, count[d] + 1>>, start |-> s]]
          /\ pc' = [pc EXCEPT ![d] = "called"]
       \/ /\ \E op \in {"cancel", "reschedule"}, n \in 1..count[d] :
               request' = [request EXCEPT ![d] = [op |-> op, id |-> <<d, n>>, start |-> s]]
          /\ pc' = [pc EXCEPT ![d] = "lookup"]
  BY DEF HandleToolCall
<1>4. /\ count'[d] = count[d] + 1 /\ count[d] + 1 \in 1..MaxRequests[d]
      /\ count' \in [Calls -> Nat] /\ \A c \in Calls : count'[c] \in 0..MaxRequests[c]
      /\ \A c \in Calls : c # d => count'[c] = count[c]
      /\ Me(d)' = <<d, count[d] + 1>>
  <2>1. count \in [Calls -> Nat] /\ \A c \in Calls : count[c] \in 0..MaxRequests[c]
    BY <1>1 DEF TypeData
  <2>2. MaxRequests[d] \in Nat
    BY IdFacts
  <2>3. /\ count'[d] = count[d] + 1 /\ \A c \in Calls : c # d => count'[c] = count[c]
        /\ count' \in [Calls -> Nat]
    BY <1>2, <2>1
  <2>4. count[d] + 1 \in 1..MaxRequests[d] /\ count[d] + 1 \in 0..MaxRequests[d]
    BY <1>2, <2>2
  <2>5. \A c \in Calls : count'[c] \in 0..MaxRequests[c]
    BY <2>1, <2>3, <2>4
  <2> QED
    BY <2>3, <2>4, <2>5 DEF Me
<1>5. /\ Me(d)' \in Ids /\ Me(d)'[1] = d /\ Me(d)'[2] = count[d] + 1
      /\ \A n \in 1..count[d] : <<d, n>> \in Ids /\ <<d, n>>[1] = d /\ <<d, n>>[2] = n
  BY <1>2, <1>4, IdFacts
<1>6. /\ request' \in [Calls -> AskType]
      /\ pc' \in [Calls -> {"idle", "called", "lookup", "commit"}]
      /\ \A c \in Calls : c # d => pc'[c] = pc[c] /\ request'[c] = request[c]
      /\ \/ pc'[d] = "called" /\ request'[d].op = "book" /\ request'[d].id = Me(d)'
         \/ pc'[d] = "lookup" /\ request'[d].op # "book" /\ request'[d].id[2] \in 1..count[d]
      /\ request'[d].id[1] = d /\ request'[d].start \in Starts
  <2>1. request \in [Calls -> AskType] /\ pc \in [Calls -> {"idle", "called", "lookup", "commit"}]
    BY <1>1 DEF TypeData
  <2>2. CASE /\ request' = [request EXCEPT ![d] =
                              [op |-> "book", id |-> <<d, count[d] + 1>>, start |-> s]]
             /\ pc' = [pc EXCEPT ![d] = "called"]
    BY <1>4, <1>5, <2>1, <2>2 DEF AskType
  <2>3. ASSUME NEW op \in {"cancel", "reschedule"}, NEW n \in 1..count[d],
               request' = [request EXCEPT ![d] = [op |-> op, id |-> <<d, n>>, start |-> s]],
               pc' = [pc EXCEPT ![d] = "lookup"]
        PROVE  /\ request' \in [Calls -> AskType]
               /\ request'[d].op # "book" /\ request'[d].id[2] \in 1..count[d]
               /\ request'[d].id[1] = d /\ request'[d].start \in Starts
               /\ \A c \in Calls : c # d => request'[c] = request[c]
    BY <1>5, <2>1, <2>3 DEF AskType
  <2> QED
    BY <1>3, <2>1, <2>2, <2>3
<1>7. TypeData'
  BY <1>1, <1>2, <1>4, <1>6 DEF TypeData
<1>8. Undisturbed(d)
  BY <1>2, <1>4, <1>6 DEF Undisturbed
<1>9. OwnRows(d)'
  <2>1. ASSUME NEW i \in Ids, i[1] = d, rows'[i].status # "none"
        PROVE  /\ i[2] <= count'[d]
               /\ rows'[i].event \in Ids /\ rows'[i].event[1] = d
               /\ rows'[i].event[2] <= count'[d] /\ rows'[i].event # Me(d)'
    <3>1. /\ i[2] <= count[d] /\ rows[i].event \in Ids /\ rows[i].event[1] = d
          /\ rows[i].event[2] <= count[d] /\ i[2] \in Nat /\ rows[i].event[2] \in Nat
          /\ rows'[i] = rows[i]
      BY <1>1, <1>2, <2>1, IdFacts DEF CallInv, OwnRows
    <3> QED
      BY <1>2, <1>4, <1>5, <3>1
  <2> QED
    BY <1>1, <1>2, <2>1 DEF CallInv, OwnRows
<1>10. OwnRequest(d)'
  <2>1. rows'[Me(d)'].status = "none"
    BY <1>1, <1>2, <1>5 DEF CallInv, OwnRows
  <2>2. CASE pc'[d] = "called" /\ request'[d].op = "book" /\ request'[d].id = Me(d)'
    BY <1>5, <1>6, <2>1, <2>2 DEF OwnRequest
  <2>3. CASE /\ pc'[d] = "lookup" /\ request'[d].op # "book"
             /\ request'[d].id[2] \in 1..count[d]
    <3>1. request'[d].id[2] < count'[d]
      BY <1>2, <1>4, <2>3
    <3> QED
      BY <1>5, <1>6, <2>3, <3>1 DEF OwnRequest
  <2> QED
    BY <1>6, <2>2, <2>3
<1>11. OwnAnswer(d)'
  BY <1>6 DEF OwnAnswer
<1>12. OwnHeld(d)'
  BY <1>1, <1>2 DEF CallInv, OwnHeld, Held, Hurt
<1> QED
  BY <1>7, <1>8, <1>9, <1>10, <1>11, <1>12 DEF CallInv

-----------------------------------------------------------------------------
\* The steps of d that write no row: they go on to the commit with the event in
\* hand, or end "not done"; they take away no event but the one of the row the
\* request is about, and then go on or leave a blemish.
WritesNoRow(d) ==
  /\ pc[d] # "idle"
  /\ rows' = rows /\ request' = request /\ count' = count /\ external' = external
  /\ blemished' \in {blemished, blemished \cup {Me(d)}}
  /\ session' \in {session, [session EXCEPT ![d] = "broken"]}
  /\ DOMAIN events' \subseteq Ids /\ events' \in [DOMAIN events' -> Starts]
  /\ \A e \in DOMAIN events' : e \in DOMAIN events \/ e = Me(d)
  /\ \A e \in DOMAIN events : e # Me(d) =>
       \/ e \in DOMAIN events' /\ events'[e] = events[e]
       \/ /\ request[d].op # "book" /\ Row(d).status = "confirmed" /\ e = Row(d).event
          /\ GoOn(d) \/ Blemish(d)
  /\ \/ /\ GoOn(d)
        /\ request[d].op = "book" \/ Row(d).status = "confirmed"
        /\ request[d].op # "cancel" =>
             Me(d) \in DOMAIN events' /\ events'[Me(d)] = request[d].start
        /\ request[d].op = "cancel" => (Row(d).event \in DOMAIN events' => Me(d) \in blemished')
     \/ End(d, "not done") /\ (pc[d] = "commit" => Blemish(d))

LEMMA WritesNoRowStep ==
  ASSUME BookInv, NEW d \in Calls, WritesNoRow(d)
  PROVE  TypeData' /\ Undisturbed(d) /\ CallInv(d)'
<1>1. TypeData /\ CallInv(d) /\ pc[d] # "idle"
  BY DEF BookInv, WritesNoRow
<1>2. /\ Me(d) \in Ids /\ Me(d)[1] = d /\ Me(d)[2] = count[d] /\ Me(d)' = Me(d)
      /\ request[d].id \in Ids /\ request[d].id[1] = d /\ Row(d)' = Row(d)
      /\ blemished \subseteq blemished'
  BY <1>1, RowFacts DEF WritesNoRow, Me, Row
<1>3. /\ \/ pc' = [pc EXCEPT ![d] = "commit"] /\ answer' = answer
         \/ pc' = [pc EXCEPT ![d] = "idle"] /\ answer' = [answer EXCEPT ![d] = "not done"]
      /\ pc \in [Calls -> {"idle", "called", "lookup", "commit"}]
      /\ answer \in [Calls -> {"nothing", "done", "not done"}]
  BY <1>1 DEF WritesNoRow, GoOn, End, TypeData
<1>4. /\ pc' \in [Calls -> {"idle", "called", "lookup", "commit"}]
      /\ answer' \in [Calls -> {"nothing", "done", "not done"}]
      /\ \A c \in Calls : c # d => pc'[c] = pc[c] /\ answer'[c] = answer[c]
      /\ pc'[d] \in {"commit", "idle"} /\ (pc'[d] = "idle" => answer'[d] = "not done")
  BY <1>3
<1>5. TypeData'
  <2>1. session' \in [Calls -> {"usable", "broken"}] /\ blemished' \subseteq Ids
    BY <1>1, <1>2 DEF WritesNoRow, TypeData
  <2> QED
    BY <1>1, <1>4, <2>1 DEF WritesNoRow, TypeData
<1>6. Undisturbed(d)
  <2>1. ASSUME NEW e \in Ids, e[1] # d
        PROVE  /\ e \in DOMAIN events <=> e \in DOMAIN events'
               /\ e \in DOMAIN events => events'[e] = events[e]
    <3>1. Row(d).status = "confirmed" => Row(d).event[1] = d
      BY <1>1, <1>2 DEF CallInv, OwnRows, Row
    <3>2. e # Me(d) /\ ~(Row(d).status = "confirmed" /\ e = Row(d).event)
      BY <1>2, <2>1, <3>1
    <3> QED
      BY <3>2 DEF WritesNoRow
  <2> QED
    BY <1>2, <1>4, <2>1 DEF Undisturbed, WritesNoRow
<1>7. OwnRows(d)'
  BY <1>1, <1>2 DEF CallInv, OwnRows, WritesNoRow
<1>8. OwnRequest(d)'
  <2>1. CASE pc'[d] = "idle"
    BY <1>2, <2>1 DEF OwnRequest, WritesNoRow
  <2>2. CASE pc'[d] = "commit"
    <3>1. /\ request[d].op = "book" \/ Row(d).status = "confirmed"
          /\ request[d].op # "cancel" =>
               Me(d) \in DOMAIN events' /\ events'[Me(d)] = request[d].start
          /\ request[d].op = "cancel" => Gone(d)'
      BY <1>2, <1>3, <2>2 DEF WritesNoRow, End, Gone
    <3> QED
      BY <1>1, <1>2, <2>2, <3>1 DEF CallInv, OwnRequest, WritesNoRow
  <2> QED
    BY <1>4, <2>1, <2>2
<1>9. OwnAnswer(d)'
  BY <1>4 DEF OwnAnswer
<1>10. OwnHeld(d)'
  <2> SUFFICES ASSUME NEW i \in Ids, i[1] = d, rows[i].status = "confirmed"
               PROVE  \/ Held(i, rows[i].start)' \/ Hurt(i)'
                      \/ pc'[d] = "commit" /\ i = request[d].id
    BY DEF OwnHeld, WritesNoRow
  <2>1. rows'[i] = rows[i] /\ rows[i].event # Me(d)
    BY <1>1 DEF CallInv, OwnRows, WritesNoRow
  <2>2. i = request[d].id => i[2] < count[d]
    BY <1>1 DEF CallInv, OwnRequest
  <2>3. CASE Hurt(i)
    BY <1>2, <2>3, HurtKept
  <2>4. CASE pc[d] = "commit" /\ i = request[d].id
    <3>1. pc'[d] = "commit" \/ Blemish(d)
      BY <1>1, <1>3, <2>4 DEF WritesNoRow, GoOn
    <3> QED
      BY <1>1, <2>2, <2>4, <3>1, Blemished
  <2>5. CASE Held(i, rows[i].start)
    <3>1. rows[i].event \in DOMAIN events
      BY <2>5 DEF Held
    <3>2. CASE /\ rows[i].event \in DOMAIN events'
               /\ events'[rows[i].event] = events[rows[i].event]
      BY <2>1, <2>5, <3>2, HeldKept
    <3>3. CASE /\ Row(d).status = "confirmed" /\ rows[i].event = Row(d).event
               /\ GoOn(d) \/ Blemish(d)
      <4>1. i = request[d].id
        BY <1>1, <1>2, <3>3 DEF CallInv, OwnRows, Row
      <4>2. pc'[d] = "commit" \/ Blemish(d)
        BY <1>3, <3>3 DEF GoOn
      <4> QED
        BY <1>1, <2>2, <4>1, <4>2, Blemished
    <3> QED
      BY <2>1, <3>1, <3>2, <3>3 DEF WritesNoRow
  <2> QED
    BY <1>1, <2>3, <2>4, <2>5 DEF CallInv, OwnHeld
<1> QED
  BY <1>5, <1>6, <1>7, <1>8, <1>9, <1>10 DEF CallInv

LEMMA BookAppointmentStep ==
  ASSUME BookInv, NEW d \in Calls, BookAppointment(d)
  PROVE  WritesNoRow(d)
<1>1. TypeData /\ pc[d] = "called" /\ request[d].op = "book"
  BY DEF BookInv, CallInv, OwnRequest, BookAppointment
<1>2. /\ DOMAIN Created(d) = DOMAIN events \cup {Me(d)}
      /\ DOMAIN Created(d) \subseteq Ids /\ Created(d) \in [DOMAIN Created(d) -> Starts]
      /\ Created(d)[Me(d)] = request[d].start
      /\ \A x \in DOMAIN events : x # Me(d) => Created(d)[x] = events[x]
  BY <1>1, CreatedFacts
<1> HIDE DEF Created
<1>3. CASE events' = Created(d) /\ GoOn(d) /\ UNCHANGED blemished
  BY <1>1, <1>2, <1>3 DEF BookAppointment, WritesNoRow
<1>4. CASE events' \in {events, Created(d)} /\ End(d, "not done") /\ Blemish(d)
  <2>1. DOMAIN events \subseteq Ids /\ events \in [DOMAIN events -> Starts]
    BY <1>1 DEF TypeData
  <2>2. /\ DOMAIN events' \subseteq Ids /\ events' \in [DOMAIN events' -> Starts]
        /\ \A e \in DOMAIN events' : e \in DOMAIN events \/ e = Me(d)
        /\ \A e \in DOMAIN events : e # Me(d) => e \in DOMAIN events' /\ events'[e] = events[e]
    BY <1>2, <1>4, <2>1
  <2> QED
    BY <1>1, <1>4, <2>2 DEF BookAppointment, WritesNoRow, Blemish
<1>5. CASE UNCHANGED <<events, blemished>> /\ End(d, "not done")
  <2>1. DOMAIN events \subseteq Ids /\ events \in [DOMAIN events -> Starts]
    BY <1>1 DEF TypeData
  <2> QED
    BY <1>1, <1>5, <2>1 DEF BookAppointment, WritesNoRow
<1> QED
  BY <1>3, <1>4, <1>5 DEF BookAppointment

LEMMA LookupStep ==
  ASSUME BookInv, NEW d \in Calls, Refuse(d) \/ LookupFails(d)
  PROVE  WritesNoRow(d)
<1>1. DOMAIN events \subseteq Ids /\ events \in [DOMAIN events -> Starts]
  BY DEF BookInv, TypeData
<1>2. pc[d] = "lookup" /\ End(d, "not done") /\ session' \in {session, [session EXCEPT ![d] = "broken"]}
  BY DEF Refuse, LookupFails
<1> QED
  BY <1>1, <1>2 DEF Refuse, LookupFails, WritesNoRow

LEMMA CancelAppointmentStep ==
  ASSUME BookInv, NEW d \in Calls, CancelAppointment(d)
  PROVE  WritesNoRow(d)
<1>1. /\ pc[d] = "lookup" /\ request[d].op = "cancel" /\ Row(d).status = "confirmed"
      /\ rows' = rows /\ request' = request /\ count' = count /\ external' = external
      /\ session' = session
  BY DEF CancelAppointment, Found
<1>2. events' \in {events, Without(Row(d).event)}
  BY DEF CancelAppointment, CancelEvent
<1>3. /\ DOMAIN events' \subseteq DOMAIN events /\ DOMAIN events' \subseteq Ids
      /\ events' \in [DOMAIN events' -> Starts]
      /\ \A x \in DOMAIN events : x # Row(d).event => x \in DOMAIN events'
      /\ \A x \in DOMAIN events' : events'[x] = events[x]
  BY <1>1, <1>2, LeftFacts
<1>4. CASE CancelEvent(d, events') /\ GoOn(d)
  <2>1. Row(d).event \in DOMAIN events' => Me(d) \in blemished'
    BY <1>4 DEF CancelEvent, Blemish, Without
  <2> QED
    BY <1>1, <1>3, <1>4, <2>1 DEF WritesNoRow, CancelEvent, Blemish
<1>5. CASE UNCHANGED <<events, blemished>> /\ End(d, "not done")
  BY <1>1, <1>3, <1>5 DEF WritesNoRow
<1> QED
  BY <1>4, <1>5 DEF CancelAppointment

LEMMA RescheduleAppointmentStep ==
  ASSUME BookInv, NEW d \in Calls, RescheduleAppointment(d)
  PROVE  WritesNoRow(d)
<1>1. /\ pc[d] = "lookup" /\ request[d].op = "reschedule" /\ Row(d).status = "confirmed"
      /\ rows' = rows /\ request' = request /\ count' = count /\ external' = external
      /\ session' = session
  BY DEF RescheduleAppointment, Found
<1>2. DOMAIN events \subseteq Ids /\ events \in [DOMAIN events -> Starts]
  BY DEF BookInv, TypeData
<1>3. ASSUME NEW left \in {events, Without(Row(d).event)}, NEW after \in {left, Both(d, left)},
             events' = after, blemished' \in {blemished, blemished \cup {Me(d)}},
             \/ GoOn(d) /\ after = Both(d, left)
             \/ Blemish(d) /\ End(d, "not done")
      PROVE  WritesNoRow(d)
  <2>1. /\ DOMAIN left \subseteq DOMAIN events /\ DOMAIN left \subseteq Ids
        /\ left \in [DOMAIN left -> Starts]
        /\ \A x \in DOMAIN events : x # Row(d).event => x \in DOMAIN left
        /\ \A x \in DOMAIN left : left[x] = events[x]
        /\ DOMAIN Both(d, left) = DOMAIN left \cup {Me(d)}
        /\ DOMAIN Both(d, left) \subseteq Ids
        /\ Both(d, left) \in [DOMAIN Both(d, left) -> Starts]
        /\ Both(d, left)[Me(d)] = request[d].start
        /\ \A x \in DOMAIN left : x # Me(d) => Both(d, left)[x] = left[x]
    BY <1>1, LeftFacts
  <2>2. /\ DOMAIN after \subseteq Ids /\ after \in [DOMAIN after -> Starts]
        /\ \A e \in DOMAIN after : e \in DOMAIN events \/ e = Me(d)
        /\ \A e \in DOMAIN events : e # Me(d) =>
             \/ e \in DOMAIN after /\ after[e] = events[e]
             \/ e = Row(d).event
    <3>1. CASE after = left
      BY <2>1, <3>1
    <3>2. CASE after = Both(d, left)
      BY <2>1, <3>2
    <3> QED
      BY <1>3, <3>1, <3>2
  <2>3. GoOn(d) \/ Blemish(d)
    BY <1>3
  <2>4. \/ GoOn(d) /\ Me(d) \in DOMAIN after /\ after[Me(d)] = request[d].start
        \/ End(d, "not done")
    BY <1>3, <2>1
  <2> QED
    BY <1>1, <1>3, <2>2, <2>3, <2>4 DEF WritesNoRow
<1>4. CASE UNCHANGED <<events, blemished>> /\ End(d, "not done")
  BY <1>1, <1>2, <1>4 DEF WritesNoRow
<1>5. CASE \E left \in {events, Without(Row(d).event)} :
             \/ CancelEvent(d, left) /\ events' = Both(d, left) /\ GoOn(d)
             \/ events' \in {left, Both(d, left)} /\ Blemish(d) /\ End(d, "not done")
  <2>1. PICK left \in {events, Without(Row(d).event)} :
             \/ CancelEvent(d, left) /\ events' = Both(d, left) /\ GoOn(d)
             \/ events' \in {left, Both(d, left)} /\ Blemish(d) /\ End(d, "not done")
    BY <1>5
  <2>2. blemished' \in {blemished, blemished \cup {Me(d)}}
    BY <2>1 DEF CancelEvent, Blemish
  <2>3. CASE CancelEvent(d, left) /\ events' = Both(d, left) /\ GoOn(d)
    BY <1>3, <2>2, <2>3
  <2>4. CASE events' \in {left, Both(d, left)} /\ Blemish(d) /\ End(d, "not done")
    BY <1>3, <2>2, <2>4
  <2> QED
    BY <2>1, <2>3, <2>4
<1> QED
  BY <1>4, <1>5 DEF RescheduleAppointment, Both

-----------------------------------------------------------------------------
\* The steps of d that write its row.
WritesRow(d) ==
  /\ pc[d] = "commit"
  /\ rows' = Updated(d)
  /\ UNCHANGED <<events, external, request, count>>
  /\ blemished' \in {blemished, blemished \cup {Me(d)}}
  /\ session' \in {session, [session EXCEPT ![d] = "broken"]}
  /\ End(d, "done") \/ End(d, "not done")

LEMMA WritesRowStep ==
  ASSUME BookInv, NEW d \in Calls, WritesRow(d)
  PROVE  TypeData' /\ Undisturbed(d) /\ CallInv(d)'
<1> DEFINE id == request[d].id
<1>1. TypeData /\ CallInv(d) /\ pc[d] = "commit"
  BY DEF BookInv, WritesRow
<1>2. /\ Me(d) \in Ids /\ Me(d)[1] = d /\ Me(d)[2] = count[d] /\ Me(d)' = Me(d)
      /\ id \in Ids /\ id[1] = d /\ id[2] \in Nat /\ count[d] \in Nat
      /\ blemished \subseteq blemished'
  BY <1>1, RowFacts, IdFacts DEF WritesRow, Me, TypeData
<1>3. /\ rows' \in [Ids -> RowType]
      /\ \A i \in Ids : i # id => rows'[i] = rows[i]
      /\ request[d].op = "cancel" => /\ rows'[id].status = "cancelled"
                                     /\ rows'[id].event = rows[id].event
      /\ request[d].op # "cancel" => /\ rows'[id].status = "confirmed"
                                     /\ rows'[id].event = Me(d)
                                     /\ rows'[id].start = request[d].start
  BY <1>1, UpdatedFacts DEF WritesRow, Row
<1>4. /\ pc' \in [Calls -> {"idle", "called", "lookup", "commit"}]
      /\ answer' \in [Calls -> {"nothing", "done", "not done"}]
      /\ \A c \in Calls : c # d => pc'[c] = pc[c] /\ answer'[c] = answer[c]
      /\ pc'[d] = "idle"
  BY <1>1 DEF WritesRow, End, TypeData
<1>5. TypeData'
  <2>1. session' \in [Calls -> {"usable", "broken"}] /\ blemished' \subseteq Ids
    BY <1>1, <1>2 DEF WritesRow, TypeData
  <2> QED
    BY <1>1, <1>3, <1>4, <2>1 DEF WritesRow, TypeData
<1>6. Undisturbed(d)
  BY <1>2, <1>3, <1>4 DEF Undisturbed, WritesRow
<1>7. /\ request[d].op = "book" => id = Me(d)
      /\ request[d].op # "book" => id[2] < count[d] /\ rows[id].status = "confirmed"
      /\ request[d].op # "cancel" => Me(d) \in DOMAIN events /\ events[Me(d)] = request[d].start
  BY <1>1 DEF CallInv, OwnRequest, Row
<1>8. request' = request /\ count' = count /\ events' = events
  BY DEF WritesRow
<1>9. OwnRows(d)'
  <2>1. ASSUME NEW i \in Ids, i[1] = d, rows'[i].status # "none"
        PROVE  /\ i[2] <= count[d]
               /\ rows'[i].event \in Ids /\ rows'[i].event[1] = d
               /\ rows'[i].event[2] <= count[d]
               /\ \/ i # id /\ rows[i].status # "none" /\ rows'[i].event = rows[i].event
                  \/ i = id /\ rows[i].status # "none" /\ rows'[i].event = rows[i].event
                  \/ i = id /\ rows'[i].event = Me(d)
    <3>1. CASE i # id
      BY <1>1, <1>3, <2>1, <3>1 DEF CallInv, OwnRows
    <3>2. CASE i = id /\ request[d].op = "cancel"
      BY <1>1, <1>2, <1>3, <1>7, <3>2 DEF CallInv, OwnRows
    <3>3. CASE i = id /\ request[d].op # "cancel"
      BY <1>2, <1>3, <1>7, <3>3
    <3> QED
      BY <3>1, <3>2, <3>3
  <2>2. ASSUME NEW i \in Ids, i[1] = d, rows[i].status # "none"
        PROVE  rows[i].event # Me(d)
    BY <1>1, <2>2 DEF CallInv, OwnRows
  <2>3. ASSUME NEW i \in Ids, NEW j \in Ids, i[1] = d, j[1] = d,
               rows[i].status # "none", rows[j].status # "none", rows[i].event = rows[j].event
        PROVE  i = j
    BY <1>1, <2>3 DEF CallInv, OwnRows
  <2>4. ASSUME NEW i \in Ids, NEW j \in Ids, i[1] = d, j[1] = d,
               rows'[i].status # "none", rows'[j].status # "none",
               rows'[i].event = rows'[j].event
        PROVE  i = j
    BY <2>1, <2>2, <2>3, <2>4
  <2> QED
    BY <1>4, <1>8, <2>1, <2>4 DEF OwnRows
<1>10. OwnRequest(d)'
  BY <1>2, <1>4, <1>8 DEF OwnRequest
<1>11. request[d].op # "cancel" => Held(id, request[d].start)'
  BY <1>3, <1>7, <1>8 DEF Held
<1>12. OwnAnswer(d)'
  <2>1. request[d].op = "cancel" => Gone(d)'
    BY <1>1, <1>2, <1>3, <1>8 DEF CallInv, OwnRequest, Gone, Row
  <2> QED
    BY <1>3, <1>8, <1>11, <2>1 DEF OwnAnswer, Row
<1>13. OwnHeld(d)'
  <2> SUFFICES ASSUME NEW i \in Ids, i[1] = d, rows'[i].status = "confirmed"
               PROVE  Held(i, rows[i].start)' \/ Hurt(i)'
    BY DEF OwnHeld
  <2>1. CASE i = id
    BY <1>3, <1>8, <1>11, <2>1 DEF Held
  <2>2. CASE i # id
    <3>1. rows'[i] = rows[i] /\ (Held(i, rows[i].start) \/ Hurt(i))
      BY <1>1, <1>3, <2>2 DEF CallInv, OwnHeld
    <3> QED
      BY <1>2, <1>8, <3>1, HurtKept DEF Held
  <2> QED
    BY <2>1, <2>2
<1> QED
  BY <1>5, <1>6, <1>9, <1>10, <1>12, <1>13 DEF CallInv

-----------------------------------------------------------------------------
\* Every step of a call is one of the three kinds.
LEMMA Kinds ==
  ASSUME BookInv, NEW d \in Calls, Step(d)
  PROVE  WritesNoRow(d) \/ WritesRow(d)
<1>1. CASE BookAppointment(d)
  BY <1>1, BookAppointmentStep
<1>2. CASE Refuse(d) \/ LookupFails(d)
  BY <1>2, LookupStep
<1>3. CASE CancelAppointment(d)
  BY <1>3, CancelAppointmentStep
<1>4. CASE RescheduleAppointment(d)
  BY <1>4, RescheduleAppointmentStep
<1>5. CASE Commit(d)
  BY <1>5 DEF Commit, WritesRow
<1>6. CASE CommitFails(d)
  <2>1. DOMAIN events \subseteq Ids /\ events \in [DOMAIN events -> Starts]
    BY DEF BookInv, TypeData
  <2>2. CASE UNCHANGED rows
    BY <1>6, <2>1, <2>2 DEF CommitFails, WritesNoRow, Blemish
  <2>3. CASE rows' = Updated(d)
    BY <1>6, <2>3 DEF CommitFails, WritesRow, Blemish
  <2> QED
    BY <1>6, <2>2, <2>3 DEF CommitFails
<1> QED
  BY <1>1, <1>2, <1>3, <1>4, <1>5, <1>6 DEF Step

LEMMA BookInvStep == BookInv /\ [Next]_vars => BookInv'
<1> SUFFICES ASSUME BookInv, [Next]_vars
             PROVE  BookInv'
  OBVIOUS
<1>1. ASSUME NEW d \in Calls, HandleToolCall(d) \/ Step(d)
      PROVE  BookInv'
  <2>1. TypeData' /\ Undisturbed(d) /\ CallInv(d)'
    BY <1>1, HandleToolCallStep, Kinds, WritesNoRowStep, WritesRowStep
  <2> QED
    BY <2>1, Others DEF BookInv
<1>2. CASE UNCHANGED vars
  <2>1. TypeData'
    BY <1>2 DEF vars, BookInv, TypeData
  <2>2. ASSUME NEW c \in Calls
        PROVE  CallInv(c)'
    <3>1. CallInv(c)
      BY DEF BookInv
    <3>2. OwnRows(c)'
      BY <1>2, <3>1 DEF vars, CallInv, OwnRows, Me
    <3>3. OwnRequest(c)' /\ OwnAnswer(c)'
      BY <1>2, <3>1 DEF vars, CallInv, OwnRequest, OwnAnswer, Held, Gone, Me, Row
    <3>4. OwnHeld(c)'
      BY <1>2, <3>1 DEF vars, CallInv, OwnHeld, Held, Hurt
    <3> QED
      BY <3>2, <3>3, <3>4 DEF CallInv
  <2> QED
    BY <2>1, <2>2 DEF BookInv
<1> QED
  BY <1>1, <1>2 DEF Next

LEMMA BookInvInit == Init => BookInv
<1> SUFFICES ASSUME Init
             PROVE  BookInv
  OBVIOUS
<1>1. \A c \in Calls : <<c, 1>> \in Ids /\ <<c, 1>>[1] = c
  BY IdFacts
<1>2. TypeData
  <2>1. DOMAIN events = {} /\ events \in [DOMAIN events -> Starts]
    BY DEF Init
  <2>2. request \in [Calls -> AskType]
    BY <1>1 DEF Init, AskType
  <2>3. rows \in [Ids -> RowType]
    BY DEF Init, RowType, NoRow
  <2>4. count \in [Calls -> Nat] /\ \A c \in Calls : count[c] \in 0..MaxRequests[c]
    BY IdFacts DEF Init
  <2> QED
    BY <2>1, <2>2, <2>3, <2>4 DEF Init, TypeData
<1>3. \A i \in Ids : rows[i].status = "none"
  BY DEF Init, NoRow
<1>4. ASSUME NEW c \in Calls
      PROVE  CallInv(c)
  <2>1. pc[c] = "idle" /\ answer[c] = "nothing" /\ request[c].id[1] = c
    BY <1>1 DEF Init
  <2> QED
    BY <1>3, <2>1 DEF CallInv, OwnRows, OwnRequest, OwnAnswer, OwnHeld
<1> QED
  BY <1>2, <1>4 DEF BookInv

LEMMA BookInvariant == Spec => []BookInv
BY BookInvInit, BookInvStep, PTL DEF Spec

\* The variables of BookingService have their types, and a request to book or
\* reschedule that commits has its event in the calendar.
THEOREM TypeCorrect == Spec => []TypeOK
<1>1. BookInv => TypeOK
  BY DEF BookInv, TypeData, TypeOK, CallInv, OwnRequest, RowType, AskType
<1> QED
  BY <1>1, BookInvariant, PTL

\* What Claude is told to be done is done, in the table and in the calendar, whatever
\* failed before and whichever calls run beside it; the event of a cancelled appointment
\* is there only if its deletion failed in that very request (book_appointment,
\* cancel_appointment, reschedule_appointment).
THEOREM DoneIsDone == Spec => []DoneMeansDone
<1>1. BookInv => DoneMeansDone
  BY DEF BookInv, CallInv, OwnAnswer, DoneMeansDone, Gone
<1> QED
  BY <1>1, BookInvariant, PTL

\* A confirmed appointment is in the calendar at its time, unless a later request of
\* its own call was cut off, had a failing call or is about to commit.
THEOREM ConfirmedIsHeld == Spec => []AppointmentsAreHeld
<1>1. BookInv => AppointmentsAreHeld
  <2> SUFFICES ASSUME BookInv, NEW i \in Ids, rows[i].status = "confirmed",
                      ~Held(i, rows[i].start)
               PROVE  \E n \in 1..MaxRequests[i[1]] :
                        n > i[2] /\ <<i[1], n>> \in blemished \cup InProgress
    BY DEF AppointmentsAreHeld
  <2>1. i[1] \in Calls /\ i[2] \in Nat
    BY IdFacts
  <2>2. CallInv(i[1]) /\ TypeData
    BY <2>1 DEF BookInv
  <2>3. CASE Hurt(i)
    <3>1. PICK e \in blemished : e[1] = i[1] /\ e[2] > i[2]
      BY <2>3 DEF Hurt
    <3>2. e \in Ids
      BY <2>2, <3>1 DEF TypeData
    <3>3. e[2] \in 1..MaxRequests[e[1]] /\ e = <<e[1], e[2]>>
      BY <3>2, IdFacts
    <3> QED
      BY <3>1, <3>3
  <2>4. CASE pc[i[1]] = "commit" /\ i = request[i[1]].id
    <3>1. Me(i[1]) \in Ids /\ Me(i[1]) = <<i[1], count[i[1]]>> /\ Me(i[1]) \in InProgress
      BY <2>1, <2>2, <2>4 DEF CallInv, OwnRequest, Me, InProgress
    <3>2. count[i[1]] \in 1..MaxRequests[i[1]]
      BY <2>1, <2>4, RowFacts, IdFacts, <3>1
    <3>3. i[2] < count[i[1]]
      BY <2>2, <2>4 DEF CallInv, OwnRequest, Me
    <3> QED
      BY <2>1, <3>1, <3>2, <3>3
  <2> QED
    BY <2>2, <2>3, <2>4 DEF CallInv, OwnHeld
<1> QED
  BY <1>1, BookInvariant, PTL

-----------------------------------------------------------------------------
\* Stray events.  What the calendar is owed: an event that no confirmed row has, or
\* one that the commit of a cancellation may leave behind.  What it is charged to.
Cancelling == {c \in Calls : pc[c] = "commit" /\ request[c].op = "cancel"}
Owed       == StrayEvents \cup {Me(c) : c \in Cancelling}
Charged    == blemished \cup InProgress

\* A request that has not reached the calendar has no event and no blemish, a
\* cancellation never has an event, and without a blemish the old event is gone.
Fresh(c) ==
  /\ pc[c] \in {"called", "lookup"} => Me(c) \notin DOMAIN events \cup blemished
  /\ pc[c] = "commit" /\ request[c].op = "cancel" => Me(c) \notin DOMAIN events
  /\ pc[c] = "commit" /\ request[c].op # "book" /\ Me(c) \notin blemished =>
       Row(c).event \notin DOMAIN events

PastRequests == \A e \in DOMAIN events \cup blemished : e[2] <= count[e[1]]

StrayInv ==
  /\ IsFiniteSet(Owed) /\ IsFiniteSet(Charged)
  /\ Cardinality(Owed) <= Cardinality(Charged)
  /\ PastRequests
  /\ \A c \in Calls : Fresh(c)

\* One more is owed and one more charged; one is owed instead of another; one is
\* settled and one charge less.
LEMMA OneMore ==
  ASSUME NEW S, NEW T, NEW B, NEW x, NEW y, IsFiniteSet(S), IsFiniteSet(B),
         Cardinality(S) <= Cardinality(B), T \subseteq S \cup {x}, y \notin B
  PROVE  /\ IsFiniteSet(T) /\ IsFiniteSet(B \cup {y})
         /\ Cardinality(T) <= Cardinality(B \cup {y})
<1>1. /\ IsFiniteSet(S \cup {x}) /\ Cardinality(S \cup {x}) <= Cardinality(S) + 1
      /\ Cardinality(S) \in Nat /\ Cardinality(B) \in Nat
  BY FS_AddElement, FS_CardinalityType
<1>2. IsFiniteSet(B \cup {y}) /\ Cardinality(B \cup {y}) = Cardinality(B) + 1
  BY FS_AddElement
<1>3. IsFiniteSet(T) /\ Cardinality(T) <= Cardinality(S \cup {x})
  BY <1>1, FS_Subset
<1> QED
  BY <1>1, <1>2, <1>3, FS_CardinalityType

LEMMA Instead ==
  ASSUME NEW S, NEW T, NEW B, NEW x \in S, NEW y, IsFiniteSet(S), IsFiniteSet(B),
         Cardinality(S) <= Cardinality(B), T \subseteq (S \ {x}) \cup {y}
  PROVE  IsFiniteSet(T) /\ Cardinality(T) <= Cardinality(B)
<1>1. /\ IsFiniteSet(S \ {x}) /\ Cardinality(S \ {x}) = Cardinality(S) - 1
      /\ Cardinality(S) \in Nat /\ Cardinality(B) \in Nat
  BY FS_RemoveElement, FS_CardinalityType
<1>2. /\ IsFiniteSet((S \ {x}) \cup {y})
      /\ Cardinality((S \ {x}) \cup {y}) <= Cardinality(S \ {x}) + 1
  <2> DEFINE R == S \ {x}
  <2>1. IsFiniteSet(R) /\ Cardinality(R) \in Nat
    BY <1>1, FS_CardinalityType
  <2> HIDE DEF R
  <2>2. /\ IsFiniteSet(R \cup {y})
        /\ Cardinality(R \cup {y}) = IF y \in R THEN Cardinality(R) ELSE Cardinality(R) + 1
    BY <2>1, FS_AddElement, Zenon
  <2> QED
    BY <2>1, <2>2 DEF R
<1>3. IsFiniteSet(T) /\ Cardinality(T) <= Cardinality((S \ {x}) \cup {y})
  BY <1>2, FS_Subset
<1> QED
  BY <1>1, <1>2, <1>3, FS_CardinalityType

LEMMA OneLess ==
  ASSUME NEW S, NEW T, NEW x \in S, IsFiniteSet(S), T \subseteq S \ {x}
  PROVE  IsFiniteSet(T) /\ Cardinality(T) <= Cardinality(S) - 1
<1>1. /\ IsFiniteSet(S \ {x}) /\ Cardinality(S \ {x}) = Cardinality(S) - 1
      /\ Cardinality(S) \in Nat
  BY FS_RemoveElement, FS_CardinalityType
<1> QED
  BY <1>1, FS_Subset

LEMMA AtMostOneLess ==
  ASSUME NEW B, NEW C, NEW y, IsFiniteSet(B), B \ {y} \subseteq C, C \subseteq B
  PROVE  IsFiniteSet(C) /\ Cardinality(C) >= Cardinality(B) - 1
<1>1. IsFiniteSet(B \ {y}) /\ Cardinality(B \ {y}) >= Cardinality(B) - 1
  <2>1. /\ IsFiniteSet(B \ {y})
        /\ Cardinality(B \ {y}) = IF y \in B THEN Cardinality(B) - 1 ELSE Cardinality(B)
    BY FS_RemoveElement, Zenon
  <2>2. Cardinality(B) \in Nat
    BY FS_CardinalityType
  <2> QED
    BY <2>1, <2>2
<1>2. IsFiniteSet(C)
  BY FS_Subset
<1>3. Cardinality(B \ {y}) <= Cardinality(C)
  BY <1>2, FS_Subset
<1> QED
  BY <1>1, <1>2, <1>3, FS_CardinalityType

\* What a step that writes no row does to the calendar: it leaves it alone unless it
\* goes on or leaves a blemish, and goes on without one only when the old event is gone.
KeepsCount(d) ==
  /\ \/ GoOn(d) /\ pc[d] # "commit"
     \/ End(d, "not done") /\ Blemish(d)
     \/ End(d, "not done") /\ pc[d] # "commit" /\ events' = events /\ blemished' = blemished
  /\ pc[d] = "commit" => events' = events
  /\ GoOn(d) /\ request[d].op # "book" /\ blemished' = blemished =>
       Row(d).event \notin DOMAIN events'
  /\ request[d].op = "cancel" => DOMAIN events' \subseteq DOMAIN events

LEMMA StrayKinds ==
  ASSUME BookInv, StrayInv, NEW d \in Calls, Step(d)
  PROVE  (WritesNoRow(d) /\ KeepsCount(d)) \/ WritesRow(d)
<1>1. /\ TypeData /\ CallInv(d) /\ Fresh(d)
      /\ DOMAIN events \subseteq Ids /\ events \in [DOMAIN events -> Starts]
  BY DEF BookInv, StrayInv, TypeData
<1>2. CASE BookAppointment(d)
  <2>1. pc[d] = "called" /\ request[d].op = "book"
    BY <1>1, <1>2 DEF BookAppointment, CallInv, OwnRequest
  <2> QED
    BY <1>2, <2>1, BookAppointmentStep DEF BookAppointment, KeepsCount
<1>3. CASE Refuse(d) \/ LookupFails(d)
  <2>1. pc[d] = "lookup" /\ End(d, "not done") /\ events' = events /\ blemished' = blemished
    BY <1>3 DEF Refuse, LookupFails
  <2>2. ~GoOn(d)
    BY <1>1, <2>1 DEF TypeData, GoOn, End
  <2> QED
    BY <1>3, <2>1, <2>2, LookupStep DEF KeepsCount
<1>4. CASE CancelAppointment(d)
  <2>1. pc[d] = "lookup" /\ request[d].op = "cancel" /\ Row(d).status = "confirmed"
    BY <1>4 DEF CancelAppointment, Found
  <2>2. /\ DOMAIN Without(Row(d).event) = DOMAIN events \ {Row(d).event}
    BY <1>1, WithoutFacts
  <2>3. Me(d) \notin blemished
    BY <1>1, <2>1 DEF Fresh
  <2>4. CASE CancelEvent(d, events') /\ GoOn(d)
    BY <1>4, <2>1, <2>2, <2>3, <2>4, CancelAppointmentStep DEF CancelEvent, KeepsCount, Blemish
  <2>5. CASE UNCHANGED <<events, blemished>> /\ End(d, "not done")
    <3>1. ~GoOn(d)
      BY <1>1, <2>1, <2>5 DEF TypeData, GoOn, End
    <3> QED
      BY <1>4, <2>1, <2>5, <3>1, CancelAppointmentStep DEF KeepsCount
  <2> QED
    BY <1>4, <2>4, <2>5 DEF CancelAppointment
<1>5. CASE RescheduleAppointment(d)
  <2>1. pc[d] = "lookup" /\ request[d].op = "reschedule" /\ Row(d).status = "confirmed"
    BY <1>5 DEF RescheduleAppointment, Found
  <2>2. Me(d) \notin blemished
    BY <1>1, <2>1 DEF Fresh
  <2>3. Row(d).event # Me(d)
    BY <1>1, <2>1, RowFacts DEF CallInv, OwnRows, Row
  <2>4. WritesNoRow(d)
    BY <1>5, RescheduleAppointmentStep
  <2>5. CASE UNCHANGED <<events, blemished>> /\ End(d, "not done")
    <3>1. ~GoOn(d)
      BY <1>1, <2>1, <2>5 DEF TypeData, GoOn, End
    <3> QED
      BY <2>1, <2>4, <2>5, <3>1 DEF KeepsCount
  <2>6. ASSUME NEW left \in {events, Without(Row(d).event)},
               \/ CancelEvent(d, left) /\ events' = Both(d, left) /\ GoOn(d)
               \/ events' \in {left, Both(d, left)} /\ Blemish(d) /\ End(d, "not done")
        PROVE  KeepsCount(d)
    <3>1. CASE CancelEvent(d, left) /\ events' = Both(d, left) /\ GoOn(d)
      <4>1. blemished' = blemished => left = Without(Row(d).event)
        BY <2>2, <3>1 DEF CancelEvent, Blemish
      <4>2. DOMAIN Both(d, left) = DOMAIN left \cup {Me(d)}
        BY <2>1, LeftFacts
      <4>3. DOMAIN Without(Row(d).event) = DOMAIN events \ {Row(d).event}
        BY <1>1, WithoutFacts
      <4> QED
        BY <2>1, <2>3, <3>1, <4>1, <4>2, <4>3 DEF KeepsCount
    <3>2. CASE Blemish(d) /\ End(d, "not done")
      <4>1. ~GoOn(d)
        BY <1>1, <2>1, <3>2 DEF TypeData, GoOn, End
      <4> QED
        BY <2>1, <3>2, <4>1 DEF KeepsCount
    <3> QED
      BY <2>6, <3>1, <3>2
  <2> QED
    BY <1>5, <2>4, <2>5, <2>6 DEF RescheduleAppointment, Both
<1>6. CASE Commit(d)
  BY <1>6 DEF Commit, WritesRow
<1>7. CASE CommitFails(d)
  <2>1. CASE UNCHANGED rows
    <3>1. pc[d] = "commit" /\ End(d, "not done") /\ Blemish(d) /\ events' = events
      BY <1>7 DEF CommitFails
    <3>2. ~GoOn(d)
      BY <1>1, <3>1 DEF TypeData, GoOn, End
    <3>3. WritesNoRow(d)
      BY <1>1, <1>7, <2>1 DEF CommitFails, WritesNoRow, Blemish
    <3> QED
      BY <3>1, <3>2, <3>3 DEF KeepsCount
  <2>2. CASE rows' = Updated(d)
    BY <1>7, <2>2 DEF CommitFails, WritesRow, Blemish
  <2> QED
    BY <1>7, <2>1, <2>2 DEF CommitFails
<1> QED
  BY <1>2, <1>3, <1>4, <1>5, <1>6, <1>7 DEF Step

CancelIds == {Me(c) : c \in Cancelling}

\* The requests in progress, after a step of d to p.
LEMMA InProgressAfter ==
  ASSUME pc \in [Calls -> {"idle", "called", "lookup", "commit"}], NEW d \in Calls, NEW p,
         pc' = [pc EXCEPT ![d] = p], count' = count, request' = request
  PROVE  /\ InProgress' = IF p = "commit" THEN InProgress \cup {Me(d)} ELSE InProgress \ {Me(d)}
         /\ CancelIds' = IF p = "commit" /\ request[d].op = "cancel"
                         THEN CancelIds \cup {Me(d)} ELSE CancelIds \ {Me(d)}
         /\ Me(d) \in InProgress <=> pc[d] = "commit"
         /\ Me(d) \in CancelIds <=> pc[d] = "commit" /\ request[d].op = "cancel"
<1>1. \A c \in Calls : Me(c)' = Me(c) /\ (Me(c) = Me(d) => c = d)
  BY DEF Me
<1>2. /\ \A c \in Calls : c # d => pc'[c] = pc[c]
      /\ pc'[d] = p /\ request' = request
  OBVIOUS
<1>3. InProgress = {Me(c) : c \in {b \in Calls : pc[b] = "commit"}}
      /\ InProgress' = {Me(c) : c \in {b \in Calls : pc'[b] = "commit"}}
  BY <1>1 DEF InProgress
<1>4. /\ CancelIds = {Me(c) : c \in {b \in Calls : pc[b] = "commit" /\ request[b].op = "cancel"}}
      /\ CancelIds' = {Me(c) : c \in {b \in Calls : pc'[b] = "commit" /\ request[b].op = "cancel"}}
  BY <1>1, <1>2 DEF CancelIds, Cancelling
<1>5. InProgress' = IF p = "commit" THEN InProgress \cup {Me(d)} ELSE InProgress \ {Me(d)}
  BY <1>1, <1>2, <1>3
<1>6. CancelIds' = IF p = "commit" /\ request[d].op = "cancel"
                   THEN CancelIds \cup {Me(d)} ELSE CancelIds \ {Me(d)}
  BY <1>1, <1>2, <1>4
<1> QED
  BY <1>1, <1>3, <1>4, <1>5, <1>6

LEMMA InProgressEnds ==
  ASSUME pc \in [Calls -> {"idle", "called", "lookup", "commit"}], NEW d \in Calls,
         pc' = [pc EXCEPT ![d] = "idle"], count' = count, request' = request
  PROVE  /\ InProgress' = InProgress \ {Me(d)}
         /\ CancelIds' = CancelIds \ {Me(d)}
         /\ Me(d) \in InProgress <=> pc[d] = "commit"
         /\ Me(d) \in CancelIds <=> pc[d] = "commit" /\ request[d].op = "cancel"
<1> DEFINE p == "idle"
<1>1. p # "commit" /\ pc' = [pc EXCEPT ![d] = p]
  OBVIOUS
<1> HIDE DEF p
<1>2. /\ InProgress' = IF p = "commit" THEN InProgress \cup {Me(d)} ELSE InProgress \ {Me(d)}
      /\ CancelIds' = IF p = "commit" /\ request[d].op = "cancel"
                      THEN CancelIds \cup {Me(d)} ELSE CancelIds \ {Me(d)}
      /\ Me(d) \in InProgress <=> pc[d] = "commit"
      /\ Me(d) \in CancelIds <=> pc[d] = "commit" /\ request[d].op = "cancel"
  BY <1>1, InProgressAfter, Zenon
<1> QED
  BY <1>1, <1>2

\* A step of d leaves the requests of the others as fresh as they were.
LEMMA OthersFresh ==
  ASSUME BookInv, StrayInv, NEW d \in Calls, Undisturbed(d), NEW c \in Calls, c # d,
         \A e \in blemished' : e \in blemished \/ e[1] = d
  PROVE  Fresh(c)'
<1>1. /\ pc'[c] = pc[c] /\ request'[c] = request[c] /\ Me(c)' = Me(c) /\ Fresh(c)
      /\ CallInv(c) /\ TypeData
  BY DEF Undisturbed, Me, StrayInv, BookInv
<1>2. ASSUME pc[c] # "idle"
      PROVE  /\ Me(c) \notin DOMAIN events => Me(c) \notin DOMAIN events'
             /\ Me(c) \notin blemished => Me(c) \notin blemished'
             /\ Me(c) \in blemished => Me(c) \in blemished'
             /\ request[c].id \in Ids /\ request[c].id[1] = c /\ Row(c)' = Row(c)
  <2>1. Me(c) \in Ids /\ Me(c)[1] = c /\ request[c].id \in Ids /\ request[c].id[1] = c
    BY <1>2, RowFacts
  <2> QED
    BY <1>1, <2>1 DEF Undisturbed, Row
<1>3. ASSUME pc[c] = "commit", request[c].op # "book", Row(c).event \notin DOMAIN events
      PROVE  Row(c).event \notin DOMAIN events'
  <2>1. Row(c).status = "confirmed"
    BY <1>1, <1>3 DEF CallInv, OwnRequest
  <2>2. Row(c).event \in Ids /\ Row(c).event[1] = c
    BY <1>1, <1>2, <1>3, <2>1 DEF CallInv, OwnRows, Row
  <2> QED
    BY <1>3, <2>2 DEF Undisturbed
<1> QED
  BY <1>1, <1>2, <1>3 DEF Fresh

LEMMA HandleToolCallStray ==
  ASSUME BookInv, StrayInv, NEW d \in Calls, HandleToolCall(d)
  PROVE  StrayInv'
<1>1. /\ TypeData /\ pc[d] = "idle" /\ events' = events /\ rows' = rows /\ blemished' = blemished
      /\ count' = [count EXCEPT ![d] = @ + 1] /\ Undisturbed(d)
      /\ pc' \in {[pc EXCEPT ![d] = "called"], [pc EXCEPT ![d] = "lookup"]}
  BY HandleToolCallStep DEF HandleToolCall, BookInv
<1>2. /\ \A c \in Calls : c # d => /\ pc'[c] = pc[c] /\ request'[c] = request[c] /\ Me(c)' = Me(c)
                                   /\ count'[c] = count[c]
      /\ pc'[d] \in {"called", "lookup"}
      /\ count[d] \in Nat /\ count'[d] = count[d] + 1 /\ Me(d)' = <<d, count[d] + 1>>
  BY <1>1 DEF TypeData, Undisturbed, Me
<1>3. InProgress' = InProgress
  BY <1>1, <1>2 DEF InProgress
<1>4. {Me(c) : c \in Cancelling}' = {Me(c) : c \in Cancelling}
  BY <1>1, <1>2 DEF Cancelling
<1>5. StrayEvents' = StrayEvents
  BY <1>1 DEF StrayEvents
<1>6. Owed' = Owed /\ Charged' = Charged
  BY <1>1, <1>3, <1>4, <1>5 DEF Owed, Charged
<1>7. \A e \in DOMAIN events \cup blemished : e \in Ids /\ e[2] \in Nat
  BY <1>1, IdFacts DEF TypeData
<1>8. PastRequests'
  <2> SUFFICES ASSUME NEW e \in DOMAIN events \cup blemished
               PROVE  e[2] <= count'[e[1]]
    BY <1>1 DEF PastRequests
  <2>1. e[2] <= count[e[1]] /\ e[1] \in Calls /\ count[e[1]] \in Nat
    BY <1>1, <1>7, IdFacts DEF StrayInv, PastRequests, TypeData
  <2> QED
    BY <1>2, <1>7, <2>1
<1>9. Fresh(d)'
  <2>1. <<d, count[d] + 1>> \notin DOMAIN events \cup blemished
    BY <1>2, <1>7 DEF StrayInv, PastRequests
  <2> QED
    BY <1>1, <1>2, <2>1 DEF Fresh
<1>10. \A c \in Calls : Fresh(c)'
  BY <1>1, <1>9, OthersFresh
<1> QED
  BY <1>6, <1>8, <1>10 DEF StrayInv

LEMMA WritesNoRowStray ==
  ASSUME BookInv, StrayInv, NEW d \in Calls, WritesNoRow(d), KeepsCount(d)
  PROVE  StrayInv'
<1>1. /\ TypeData /\ CallInv(d) /\ Fresh(d) /\ pc[d] # "idle"
      /\ rows' = rows /\ request' = request /\ count' = count
      /\ blemished' \in {blemished, blemished \cup {Me(d)}}
      /\ \A e \in DOMAIN events' : e \in DOMAIN events \/ e = Me(d)
      /\ Undisturbed(d) /\ Me(d)' = Me(d) /\ Row(d)' = Row(d)
      /\ Me(d) \in Ids /\ Me(d)[1] = d /\ Me(d)[2] = count[d]
  BY RowFacts, WritesNoRowStep DEF WritesNoRow, BookInv, StrayInv, Me, Row
<1>2. pc[d] \in {"called", "lookup", "commit"} /\ pc \in [Calls -> {"idle", "called", "lookup", "commit"}]
  BY <1>1 DEF TypeData
<1>3. /\ pc[d] # "commit" => Me(d) \notin blemished \cup InProgress /\ Me(d) \notin CancelIds
      /\ pc[d] = "commit" => Me(d) \in InProgress
      /\ GoOn(d) => /\ InProgress' = InProgress \cup {Me(d)}
                    /\ CancelIds' \subseteq CancelIds \cup {Me(d)}
                    /\ request[d].op # "cancel" => CancelIds' \subseteq CancelIds
      /\ End(d, "not done") => /\ InProgress' = InProgress \ {Me(d)}
                               /\ CancelIds' \subseteq CancelIds
  <2>1. pc[d] # "commit" => Me(d) \notin blemished
    BY <1>1, <1>2 DEF Fresh
  <2>2. CASE pc' = [pc EXCEPT ![d] = "commit"]
    <3>1. ~End(d, "not done")
      BY <1>2, <2>2 DEF End
    <3> QED
      BY <1>1, <1>2, <2>1, <2>2, <3>1, InProgressAfter, Zenon
  <2>3. CASE pc' = [pc EXCEPT ![d] = "idle"]
    <3>1. ~GoOn(d)
      BY <1>2, <2>3 DEF GoOn
    <3> QED
      BY <1>1, <1>2, <2>1, <2>3, <3>1, InProgressEnds
  <2> QED
    BY <2>2, <2>3 DEF KeepsCount, GoOn, End
<1>4. /\ StrayEvents' \subseteq StrayEvents \cup {Me(d)}
      /\ events' = events => StrayEvents' = StrayEvents
  BY <1>1 DEF StrayEvents
<1>5. /\ IsFiniteSet(Owed') /\ IsFiniteSet(Charged')
      /\ Cardinality(Owed') <= Cardinality(Charged')
  <2>1. IsFiniteSet(Owed) /\ IsFiniteSet(Charged) /\ Cardinality(Owed) <= Cardinality(Charged)
    BY DEF StrayInv
  <2>2. ASSUME Owed' \subseteq Owed \cup {Me(d)}, Me(d) \notin Charged, Charged' = Charged \cup {Me(d)}
        PROVE  /\ IsFiniteSet(Owed') /\ IsFiniteSet(Charged')
               /\ Cardinality(Owed') <= Cardinality(Charged')
    <3> DEFINE T == Owed'
               C == Charged'
    <3> HIDE DEF T, C
    <3>1. T \subseteq Owed \cup {Me(d)} /\ C = Charged \cup {Me(d)}
      BY <2>2 DEF T, C
    <3>2. IsFiniteSet(T) /\ IsFiniteSet(C) /\ Cardinality(T) <= Cardinality(C)
      BY <2>1, <2>2, <3>1, OneMore, Zenon
    <3> QED
      BY <3>2 DEF T, C
  <2>3. ASSUME Owed' \subseteq Owed, Charged' = Charged
        PROVE  /\ IsFiniteSet(Owed') /\ IsFiniteSet(Charged')
               /\ Cardinality(Owed') <= Cardinality(Charged')
    <3> DEFINE T == Owed'
    <3> HIDE DEF T
    <3>1. IsFiniteSet(T) /\ Cardinality(T) <= Cardinality(Owed)
      BY <2>1, <2>3, FS_Subset DEF T
    <3>2. Cardinality(Owed) \in Nat /\ Cardinality(Charged) \in Nat /\ Cardinality(T) \in Nat
      BY <2>1, <3>1, FS_CardinalityType
    <3>3. Cardinality(T) <= Cardinality(Charged)
      BY <2>1, <3>1, <3>2
    <3> QED
      BY <2>1, <2>3, <3>1, <3>3 DEF T
  <2>4. /\ Owed = StrayEvents \cup CancelIds /\ Owed' = StrayEvents' \cup CancelIds'
        /\ Charged = blemished \cup InProgress /\ Charged' = blemished' \cup InProgress'
    BY DEF Owed, Charged, CancelIds
  <2>5. CASE GoOn(d) /\ pc[d] # "commit"
    <3>1. Owed' \subseteq Owed \cup {Me(d)}
      BY <1>3, <1>4, <2>4, <2>5
    <3>2. Me(d) \notin Charged /\ Charged' = Charged \cup {Me(d)}
      BY <1>1, <1>3, <2>4, <2>5
    <3> QED
      BY <2>2, <3>1, <3>2
  <2>6. CASE End(d, "not done") /\ Blemish(d) /\ pc[d] # "commit"
    <3>1. Owed' \subseteq Owed \cup {Me(d)}
      BY <1>3, <1>4, <2>4, <2>6
    <3>2. Me(d) \notin Charged /\ Charged' = Charged \cup {Me(d)}
      BY <1>1, <1>3, <2>4, <2>6 DEF Blemish
    <3> QED
      BY <2>2, <3>1, <3>2
  <2>7. CASE End(d, "not done") /\ Blemish(d) /\ pc[d] = "commit"
    <3>1. Owed' \subseteq Owed
      BY <1>3, <1>4, <2>4, <2>7 DEF KeepsCount
    <3>2. Charged' = Charged
      BY <1>1, <1>3, <2>4, <2>7 DEF Blemish
    <3> QED
      BY <2>3, <3>1, <3>2
  <2>8. CASE End(d, "not done") /\ pc[d] # "commit" /\ events' = events /\ blemished' = blemished
    <3>1. Owed' \subseteq Owed /\ Charged' = Charged
      BY <1>1, <1>3, <1>4, <2>4, <2>8
    <3> QED
      BY <2>3, <3>1
  <2> QED
    BY <2>5, <2>6, <2>7, <2>8 DEF KeepsCount
<1>6. PastRequests'
  <2>1. count[d] \in Nat
    BY <1>1 DEF TypeData
  <2> QED
    BY <1>1, <2>1 DEF StrayInv, PastRequests
<1>7. Fresh(d)'
  <2>1. CASE GoOn(d)
    <3>1. pc'[d] = "commit" /\ pc[d] # "commit"
      BY <1>2, <2>1 DEF GoOn, KeepsCount, End
    <3>2. Me(d) \notin DOMAIN events /\ Me(d) \notin blemished
      BY <1>1, <1>2, <3>1 DEF Fresh
    <3> QED
      BY <1>1, <2>1, <3>1, <3>2 DEF Fresh, KeepsCount
  <2>2. CASE End(d, "not done")
    <3>1. pc'[d] = "idle"
      BY <1>2, <2>2 DEF End
    <3> QED
      BY <3>1 DEF Fresh
  <2> QED
    BY <2>1, <2>2 DEF KeepsCount
<1>8. \A c \in Calls : Fresh(c)'
  BY <1>1, <1>7, OthersFresh
<1> QED
  BY <1>5, <1>6, <1>8 DEF StrayInv

LEMMA WritesRowStray ==
  ASSUME BookInv, StrayInv, NEW d \in Calls, WritesRow(d)
  PROVE  StrayInv'
<1> DEFINE id == request[d].id
<1>1. /\ TypeData /\ CallInv(d) /\ Fresh(d) /\ pc[d] = "commit"
      /\ events' = events /\ request' = request /\ count' = count
      /\ blemished' \in {blemished, blemished \cup {Me(d)}}
      /\ Undisturbed(d) /\ Me(d)' = Me(d) /\ pc' = [pc EXCEPT ![d] = "idle"]
      /\ Me(d) \in Ids /\ Me(d)[1] = d /\ Me(d)[2] = count[d]
      /\ pc \in [Calls -> {"idle", "called", "lookup", "commit"}]
  BY RowFacts, WritesRowStep DEF WritesRow, BookInv, StrayInv, Me, End, TypeData
<1>2. /\ id \in Ids /\ id[1] = d
      /\ \A i \in Ids : i # id => rows'[i] = rows[i]
      /\ request[d].op = "cancel" => /\ rows'[id].status = "cancelled"
                                     /\ rows[id].status = "confirmed"
      /\ request[d].op # "cancel" => rows'[id].status = "confirmed" /\ rows'[id].event = Me(d)
      /\ request[d].op = "book" => rows[id].status = "none"
      /\ Row(d) = rows[id]
  <2>1. Row(d) = rows[id] /\ id \in Ids /\ id[1] = d
    BY <1>1, RowFacts DEF Row
  <2> QED
    BY <1>1, <2>1, UpdatedFacts DEF WritesRow, CallInv, OwnRequest
<1>3. /\ InProgress' = InProgress \ {Me(d)} /\ Me(d) \in InProgress
      /\ CancelIds' = CancelIds \ {Me(d)}
      /\ Me(d) \in CancelIds <=> request[d].op = "cancel"
  BY <1>1, InProgressEnds
<1>4. \A i \in Ids : rows[i].status = "confirmed" => rows[i].event # Me(d)
  <2> SUFFICES ASSUME NEW i \in Ids, rows[i].status = "confirmed", rows[i].event = Me(d)
               PROVE  FALSE
    OBVIOUS
  <2>1. i[1] \in Calls /\ CallInv(i[1])
    BY IdFacts DEF BookInv
  <2>2. i[1] = d
    BY <1>1, <2>1 DEF CallInv, OwnRows
  <2> QED
    BY <1>1, <2>2 DEF CallInv, OwnRows
<1>5. Me(d) \in Owed /\ Me(d) \notin Owed'
  <2>1. CASE request[d].op = "cancel"
    <3>1. Me(d) \notin DOMAIN events
      BY <1>1, <2>1 DEF Fresh
    <3> QED
      BY <1>1, <1>3, <2>1, <3>1 DEF Owed, CancelIds, StrayEvents
  <2>2. CASE request[d].op # "cancel"
    <3>1. Me(d) \in StrayEvents
      BY <1>1, <1>4, <2>2 DEF CallInv, OwnRequest, StrayEvents
    <3>2. Me(d) \notin StrayEvents'
      BY <1>2, <2>2 DEF StrayEvents
    <3> QED
      BY <1>3, <3>1, <3>2 DEF Owed, CancelIds
  <2> QED
    BY <2>1, <2>2
<1>6. StrayEvents' \subseteq StrayEvents \cup {Row(d).event}
  <2> SUFFICES ASSUME NEW e \in DOMAIN events, e \notin StrayEvents, e # Row(d).event
               PROVE  e \notin StrayEvents'
    BY <1>1 DEF StrayEvents
  <2>1. PICK i \in Ids : rows[i].status = "confirmed" /\ rows[i].event = e
    BY DEF StrayEvents
  <2>2. i # id /\ rows'[i] = rows[i]
    BY <1>2, <2>1
  <2> QED
    BY <2>1, <2>2 DEF StrayEvents
<1>7. Me(d) \notin blemished => StrayEvents' \subseteq StrayEvents
  <2>1. CASE request[d].op = "book"
    <3> SUFFICES ASSUME NEW e \in DOMAIN events, e \notin StrayEvents
                 PROVE  e \notin StrayEvents'
      BY <1>1 DEF StrayEvents
    <3>1. PICK i \in Ids : rows[i].status = "confirmed" /\ rows[i].event = e
      BY DEF StrayEvents
    <3>2. i # id /\ rows'[i] = rows[i]
      BY <1>2, <2>1, <3>1
    <3> QED
      BY <3>1, <3>2 DEF StrayEvents
  <2>2. CASE request[d].op # "book" /\ Me(d) \notin blemished
    <3>1. Row(d).event \notin DOMAIN events
      BY <1>1, <2>2 DEF Fresh
    <3>2. Row(d).event \notin StrayEvents'
      BY <1>1, <3>1 DEF StrayEvents
    <3> QED
      BY <1>6, <3>2
  <2> QED
    BY <2>1, <2>2
<1>8. /\ IsFiniteSet(Owed') /\ IsFiniteSet(Charged')
      /\ Cardinality(Owed') <= Cardinality(Charged')
  <2> DEFINE T == Owed'
             C == Charged'
  <2>1. IsFiniteSet(Owed) /\ IsFiniteSet(Charged) /\ Cardinality(Owed) <= Cardinality(Charged)
    BY DEF StrayInv
  <2>2. /\ Owed = StrayEvents \cup CancelIds /\ T = StrayEvents' \cup CancelIds'
        /\ Charged = blemished \cup InProgress /\ C = blemished' \cup InProgress'
    BY DEF Owed, Charged, CancelIds
  <2>3. Me(d) \in Owed /\ Me(d) \notin T
    BY <1>5
  <2> HIDE DEF T, C
  <2>4. CASE Me(d) \in blemished
    <3>1. T \subseteq (Owed \ {Me(d)}) \cup {Row(d).event}
      BY <1>3, <1>6, <2>2, <2>3
    <3>2. C = Charged
      BY <1>1, <1>3, <2>2, <2>4
    <3> QED
      BY <2>1, <2>3, <3>1, <3>2, Instead DEF T, C
  <2>5. CASE Me(d) \notin blemished
    <3>1. T \subseteq Owed \ {Me(d)}
      BY <1>3, <1>7, <2>2, <2>3, <2>5
    <3>2. Charged \ {Me(d)} \subseteq C /\ C \subseteq Charged
      BY <1>1, <1>3, <2>2
    <3>3. IsFiniteSet(T) /\ IsFiniteSet(C) /\ Cardinality(T) <= Cardinality(C)
      <4>1. IsFiniteSet(T) /\ Cardinality(T) <= Cardinality(Owed) - 1
        BY <2>1, <2>3, <3>1, OneLess
      <4>2. IsFiniteSet(C) /\ Cardinality(C) >= Cardinality(Charged) - 1
        BY <2>1, <3>2, AtMostOneLess
      <4>3. /\ Cardinality(T) \in Nat /\ Cardinality(Owed) \in Nat
            /\ Cardinality(C) \in Nat /\ Cardinality(Charged) \in Nat
        BY <2>1, <4>1, <4>2, FS_CardinalityType
      <4> QED
        BY <2>1, <4>1, <4>2, <4>3
    <3> QED
      BY <3>3 DEF T, C
  <2> QED
    BY <2>4, <2>5
<1>9. PastRequests'
  <2>1. count[d] \in Nat
    BY <1>1 DEF TypeData
  <2> QED
    BY <1>1, <2>1 DEF StrayInv, PastRequests
<1>10. Fresh(d)'
  <2>1. pc'[d] = "idle"
    BY <1>1
  <2> QED
    BY <2>1 DEF Fresh
<1>11. \A c \in Calls : Fresh(c)'
  BY <1>1, <1>10, OthersFresh
<1> QED
  BY <1>8, <1>9, <1>11 DEF StrayInv

\* There is at most one stray event for each request that was cut off or met a fault,
\* whatever the others do: a stray is never left without somebody to tell
\* (book_appointment, cancel_appointment, reschedule_appointment).
THEOREM StraysAreBounded == Spec => []OneStrayPerBlemish
<1>1. Init => StrayInv
  <2> SUFFICES ASSUME Init
               PROVE  StrayInv
    OBVIOUS
  <2>1. DOMAIN events = {} /\ blemished = {} /\ \A c \in Calls : pc[c] = "idle"
    BY DEF Init
  <2>2. Owed = {} /\ Charged = {}
    BY <2>1 DEF Owed, Charged, StrayEvents, Cancelling, InProgress
  <2> QED
    BY <2>1, <2>2, FS_EmptySet DEF StrayInv, PastRequests, Fresh
<1>2. BookInv /\ StrayInv /\ [Next]_vars => StrayInv'
  <2> SUFFICES ASSUME BookInv, StrayInv, [Next]_vars
               PROVE  StrayInv'
    OBVIOUS
  <2>1. ASSUME NEW d \in Calls, HandleToolCall(d)
        PROVE  StrayInv'
    BY <2>1, HandleToolCallStray
  <2>2. ASSUME NEW d \in Calls, Step(d)
        PROVE  StrayInv'
    BY <2>2, StrayKinds, WritesNoRowStray, WritesRowStray
  <2>3. CASE UNCHANGED vars
    BY <2>3 DEF vars, StrayInv, Owed, Charged, StrayEvents, Cancelling, InProgress, Me,
                PastRequests, Fresh, Row
  <2> QED
    BY <2>1, <2>2, <2>3 DEF Next
<1>3. StrayInv => OneStrayPerBlemish
  <2> SUFFICES ASSUME StrayInv
               PROVE  Cardinality(StrayEvents) <= Cardinality(Charged)
    BY DEF OneStrayPerBlemish, Charged
  <2>1. IsFiniteSet(Owed) /\ StrayEvents \subseteq Owed /\ IsFiniteSet(Charged)
    BY DEF StrayInv, Owed
  <2>2. IsFiniteSet(StrayEvents) /\ Cardinality(StrayEvents) <= Cardinality(Owed)
    BY <2>1, FS_Subset
  <2>3. /\ Cardinality(StrayEvents) \in Nat /\ Cardinality(Owed) \in Nat
        /\ Cardinality(Charged) \in Nat
    BY <2>1, <2>2, FS_CardinalityType
  <2> QED
    BY <2>2, <2>3 DEF StrayInv
<1> QED
  BY <1>1, <1>2, <1>3, BookInvariant, PTL DEF Spec

-----------------------------------------------------------------------------
\* What check_availability offers, on every calendar the tools make.

LEMMA BusyPeriods == BookInv => Busy \in SUBSET Periods
<1> SUFFICES ASSUME BookInv, NEW p \in Busy
             PROVE  p \in Periods
  OBVIOUS
<1>1. CASE p \in external
  BY <1>1, BookingAssumption DEF BookInv, TypeData, BookingAssumption
<1>2. ASSUME NEW e \in DOMAIN events, p = [start |-> events[e], end |-> events[e] + Duration]
      PROVE  p \in Periods
  <2>1. events[e] \in 0..(DayEnd - Duration)
    BY BookingAssumption DEF BookInv, TypeData, BookingAssumption
  <2>2. DayEnd \in Nat /\ Duration \in Nat \ {0}
    BY CalendarAssumption, BookingAssumption DEF CalendarAssumption, BookingAssumption
  <2> QED
    BY <1>2, <2>1, <2>2 DEF Periods, Times
<1> QED
  BY <1>1, <1>2 DEF Busy

\* In each hour that is offered a start can be booked, free and within the day, and the
\* starts behind the offers leave the buffer between them (check_availability,
\* list_available_slots, _format_slot).
THEOREM OffersAreBookable == Spec => []OfferedSlotsAreBookable
<1>1. BookInv => OfferedSlotsAreBookable
  <2> SUFFICES ASSUME BookInv, NEW d \in 1..3
               PROVE  /\ \A h \in Offers(Busy, d) :
                           \E t \in Bookable(Busy, d) : Display(t) = h
                      /\ \A s, t \in AvailableSlots(Busy, d) : s < t => s + d + Buffer <= t
    BY DEF OfferedSlotsAreBookable
  <2>1. Busy \in SUBSET Periods /\ d \in Nat \ {0}
    BY BusyPeriods
  <2>2. /\ AvailableSlots(Busy, d) \subseteq Bookable(Busy, d)
        /\ \A s, t \in AvailableSlots(Busy, d) : s < t => s + d + Buffer <= t
    BY <2>1, SlotsAreBookable
  <2> QED
    BY <2>2 DEF Offers
<1> QED
  BY <1>1, BookInvariant, PTL

\* What can be booked is found, or in the way of a slot that is (list_available_slots).
THEOREM NothingIsHidden == Spec => []NothingFreeIsHidden
<1>1. BookInv => NothingFreeIsHidden
  BY BusyPeriods, SlotsAreAll DEF NothingFreeIsHidden
<1> QED
  BY <1>1, BookInvariant, PTL

-----------------------------------------------------------------------------
\* The refinement.  What AppointmentBook sees of a state:
BookView == [i \in Ids |-> [status |-> rows[i].status, start |-> rows[i].start]]
ToldView == [c \in Calls |-> IF pc[c] = "idle" THEN answer[c] ELSE "waiting"]

\* A request is asked for: HandleToolCall.
LEMMA AskRefines ==
  ASSUME BookInv, BookInv', NEW d \in Calls, HandleToolCall(d)
  PROVE  Book!Next
<1>1. /\ pc[d] = "idle" /\ answer[d] # "waiting" /\ rows' = rows /\ answer' = answer
      /\ pc \in [Calls -> {"idle", "called", "lookup", "commit"}]
      /\ answer \in [Calls -> {"nothing", "done", "not done"}]
      /\ request \in [Calls -> AskType] /\ request' \in [Calls -> AskType]
  BY DEF HandleToolCall, BookInv, TypeData
<1>2. \E r : request' = [request EXCEPT ![d] = r]
  BY DEF HandleToolCall
<1>3. \E w \in {"called", "lookup"} : pc' = [pc EXCEPT ![d] = w]
  BY DEF HandleToolCall
<1>4. PICK r : request' = [request EXCEPT ![d] = r]
  BY <1>2
<1>5. r = request'[d] /\ pc'[d] # "idle"
  BY <1>1, <1>3, <1>4
<1>6. r \in Book!Request
  <2>1. r.start \in Starts
    BY <1>5 DEF BookInv, CallInv, OwnRequest
  <2>2. r \in AskType
    BY <1>1, <1>5
  <2> QED
    BY <2>1, <2>2 DEF AskType, Book!Request, Book!Ops
<1>7. ToldView[d] # "waiting"
  BY <1>1 DEF ToldView
<1>8. ToldView' = [ToldView EXCEPT ![d] = "waiting"]
  BY <1>1, <1>3 DEF ToldView
<1>9. BookView' = BookView
  BY <1>1 DEF BookView
<1>10. Book!Ask(d, r)
  BY <1>4, <1>7, <1>8, <1>9 DEF Book!Ask, BookView, ToldView
<1> QED
  BY <1>6, <1>10 DEF Book!Next

\* A request goes on, which AppointmentBook does not see, or is given up.
LEMMA WritesNoRowRefines ==
  ASSUME BookInv, NEW d \in Calls, WritesNoRow(d)
  PROVE  Book!Next \/ UNCHANGED <<BookView, request, ToldView>>
<1>1. /\ pc \in [Calls -> {"idle", "called", "lookup", "commit"}] /\ pc[d] # "idle"
      /\ answer \in [Calls -> {"nothing", "done", "not done"}]
      /\ request' = request /\ rows' = rows
  BY DEF WritesNoRow, BookInv, TypeData
<1>2. BookView' = BookView
  BY <1>1 DEF BookView
<1>3. CASE GoOn(d)
  <2>1. ToldView' = ToldView
    BY <1>1, <1>3 DEF ToldView, GoOn
  <2> QED
    BY <1>1, <1>2, <2>1
<1>4. CASE End(d, "not done")
  <2>1. ToldView[d] = "waiting" /\ ToldView' = [ToldView EXCEPT ![d] = "not done"]
    BY <1>1, <1>4 DEF ToldView, End
  <2>2. Book!GiveUp(d)
    BY <1>1, <1>2, <2>1 DEF Book!GiveUp, BookView, ToldView
  <2> QED
    BY <2>2 DEF Book!Next
<1> QED
  BY <1>3, <1>4 DEF WritesNoRow

LEMMA Cancelled ==
  ASSUME NEW status, NEW start
  PROVE  [[status |-> status, start |-> start] EXCEPT !.status = "cancelled"]
           = [status |-> "cancelled", start |-> start]
OBVIOUS

\* The commit is the step in which a request takes effect, told done or not.
LEMMA WritesRowRefines ==
  ASSUME BookInv, NEW d \in Calls, WritesRow(d)
  PROVE  Book!Next
<1>1. /\ pc \in [Calls -> {"idle", "called", "lookup", "commit"}] /\ pc[d] = "commit"
      /\ answer \in [Calls -> {"nothing", "done", "not done"}]
      /\ request' = request /\ rows' = Updated(d) /\ rows \in [Ids -> RowType]
      /\ request[d].id \in Ids /\ CallInv(d)
  BY DEF WritesRow, BookInv, TypeData, AskType
<1>2. PICK word \in {"done", "not done"} : End(d, word)
  BY DEF WritesRow
<1>3. ToldView[d] = "waiting" /\ ToldView' = [ToldView EXCEPT ![d] = word]
  BY <1>1, <1>2 DEF ToldView, End
<1>4. BookView[request[d].id].status = IF request[d].op = "book" THEN "none" ELSE "confirmed"
  BY <1>1 DEF BookView, CallInv, OwnRequest, Row
<1>5. BookView' = [BookView EXCEPT ![request[d].id] =
                     IF request[d].op = "cancel" THEN [@ EXCEPT !.status = "cancelled"]
                     ELSE [status |-> "confirmed", start |-> request[d].start]]
  <2> DEFINE id  == request[d].id
             new == IF request[d].op = "cancel" THEN [BookView[id] EXCEPT !.status = "cancelled"]
                    ELSE [status |-> "confirmed", start |-> request[d].start]
  <2>1. /\ BookView[id] = [status |-> rows[id].status, start |-> rows[id].start]
        /\ BookView'[id] = [status |-> rows'[id].status, start |-> rows'[id].start]
        /\ \A i \in Ids : i # id => rows'[i] = rows[i]
    BY <1>1, UpdatedFacts DEF BookView
  <2>2. BookView'[id] = new
    <3>1. CASE request[d].op = "cancel"
      <4>1. rows'[id] = [rows[id] EXCEPT !.status = "cancelled"] /\ rows[id] \in RowType
        BY <1>1, <3>1 DEF Updated
      <4>2. rows'[id].status = "cancelled" /\ rows'[id].start = rows[id].start
        BY <4>1 DEF RowType
      <4>3. new = [[status |-> rows[id].status, start |-> rows[id].start]
                     EXCEPT !.status = "cancelled"]
        BY <2>1, <3>1
      <4> QED
        <5>1. new = [status |-> "cancelled", start |-> rows[id].start]
          BY <4>3, Cancelled
        <5>2. BookView'[id] = [status |-> "cancelled", start |-> rows[id].start]
          BY <2>1, <4>2
        <5> HIDE DEF new
        <5> QED
          BY <5>1, <5>2
    <3>2. CASE request[d].op # "cancel"
      BY <1>1, <2>1, <3>2, UpdatedFacts
    <3> QED
      BY <3>1, <3>2
  <2>3. \A i \in Ids : i # id => BookView'[i] = BookView[i]
    BY <2>1 DEF BookView
  <2>4. BookView' = [i \in Ids |-> BookView'[i]] /\ BookView = [i \in Ids |-> BookView[i]]
    BY DEF BookView
  <2> HIDE DEF new
  <2>5. BookView' = [BookView EXCEPT ![id] = new]
    BY <2>2, <2>3, <2>4
  <2> QED
    BY <2>5 DEF new
<1>6. Book!TakeEffect(d)
  <2>1. Book!Allowed(request[d])
    BY <1>4 DEF Book!Allowed, BookView
  <2>2. BookView' = Book!Effect(request[d])
    BY <1>5 DEF Book!Effect, BookView
  <2> QED
    BY <1>1, <1>3, <2>1, <2>2 DEF Book!TakeEffect, BookView, ToldView
<1> QED
  BY <1>6 DEF Book!Next

\* The booking tools implement AppointmentBook: a request takes effect at most once,
\* is reported done only with its effect, and changes only a confirmed appointment,
\* whatever fails and whichever calls run beside it.
THEOREM ToolsKeepTheBook == Spec => KeepsTheBook
<1>1. Init => Book!Init
  BY DEF Init, Book!Init, NoRow
<1>2. BookInv /\ BookInv' /\ [Next]_vars => [Book!Next]_<<BookView, request, ToldView>>
  <2> SUFFICES ASSUME BookInv, BookInv', [Next]_vars
               PROVE  Book!Next \/ UNCHANGED <<BookView, request, ToldView>>
    OBVIOUS
  <2>1. ASSUME NEW d \in Calls, HandleToolCall(d)
        PROVE  Book!Next
    BY <2>1, AskRefines
  <2>2. ASSUME NEW d \in Calls, Step(d)
        PROVE  Book!Next \/ UNCHANGED <<BookView, request, ToldView>>
    BY <2>2, Kinds, WritesNoRowRefines, WritesRowRefines
  <2>3. CASE UNCHANGED vars
    BY <2>3 DEF vars, BookView, ToldView
  <2> QED
    BY <2>1, <2>2, <2>3 DEF Next
<1>3. BookInv /\ BookInv' /\ [Next]_vars =>
        [Book!Next]_<<[i \in Ids |-> [status |-> rows[i].status, start |-> rows[i].start]],
                      request,
                      [c \in Calls |-> IF pc[c] = "idle" THEN answer[c] ELSE "waiting"]>>
  BY <1>2 DEF BookView, ToldView
<1> QED
  BY <1>1, <1>3, BookInvariant, PTL DEF Spec, KeepsTheBook, Book!Spec
=============================================================================
