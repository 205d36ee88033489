----------------------- MODULE CalendarServiceProofs ------------------------
(***************************************************************************)
(* What list_available_slots computes, for every set of busy periods: the  *)
(* recursion of AvailableSlots is well defined, and what it returns is     *)
(* exactly what can be booked one after the other from the morning on.     *)
(***************************************************************************)
EXTENDS CalendarService, WellFoundedInduction, FiniteSetTheorems, TLAPS

\* A set of natural numbers has a least one: the form of induction used below.
LEMMA LeastNat ==
  ASSUME NEW T \in SUBSET Nat, T # {}
  PROVE  \E n \in T : \A m \in T : n <= m
<1> DEFINE R == {ss \in Nat \X Nat : ss[1] < ss[2]}
<1>1. IsWellFoundedOn(R, Nat)
  BY NatLessThanWellFounded DEF OpToRel
<1> HIDE DEF R
<1>2. PICK n \in T : \A m \in T : ~(<<m, n>> \in R)
  BY <1>1, WFMin
<1>3. \A m \in T : ~(m < n)
  BY <1>2 DEF R
<1> QED
  BY <1>3

\* The first busy period is one of them, and no other starts before it.
LEMMA FirstOfBusy ==
  ASSUME NEW todo \in SUBSET Periods, todo # {}
  PROVE  First(todo) \in todo /\ \A q \in todo : First(todo).start <= q.start
<1> DEFINE starts  == {q.start : q \in todo}
<1>1. \A q \in todo : q.start \in Nat /\ q.end \in Nat
  BY DEF Periods, Times
<1>2. PICK s \in starts : \A m \in starts : s <= m
  BY <1>1, LeastNat
<1> DEFINE ends == {q.end : q \in {r \in todo : r.start = s}}
<1>3. ends \subseteq Nat /\ ends # {}
  BY <1>1, <1>2
<1>4. PICK e \in ends : \A m \in ends : e <= m
  BY <1>3, LeastNat
<1>5. PICK p \in todo : p.start = s /\ p.end = e
  BY <1>4
<1>6. \A q \in todo : Before(p, q)
  BY <1>1, <1>2, <1>4, <1>5 DEF Before
<1>7. First(todo) \in todo /\ \A q \in todo : Before(First(todo), q)
  BY <1>5, <1>6, Zenon DEF First
<1> QED
  BY <1>1, <1>7 DEF Before

-----------------------------------------------------------------------------
\* The loop of list_available_slots: where it is, and what it collects from
\* there on if f is what it collects from the places it goes to.
Loop(busy) == [todo : SUBSET busy, cursor : Nat]
Collects(f, at, duration) ==
  IF at.cursor + duration <= Limit(at.todo)
  THEN {at.cursor} \cup f[[at EXCEPT !.cursor = @ + duration + Buffer]]
  ELSE IF at.todo = {} THEN {}
  ELSE LET p == First(at.todo) IN
       f[[todo |-> at.todo \ {p}, cursor |-> Later(at.cursor, p.end + Buffer)]]

AfterSlot(at, duration) == [at EXCEPT !.cursor = @ + duration + Buffer]
AfterPeriod(at) == [todo   |-> at.todo \ {First(at.todo)},
                    cursor |-> Later(at.cursor, First(at.todo).end + Buffer)]

\* The loop stays in its places.
LEMMA LoopStays ==
  ASSUME NEW busy \in SUBSET Periods, NEW at \in Loop(busy), NEW duration \in Nat
  PROVE  /\ AfterSlot(at, duration) \in Loop(busy)
         /\ AfterSlot(at, duration).todo = at.todo
         /\ AfterSlot(at, duration).cursor = at.cursor + duration + Buffer
         /\ at.todo # {} =>
              /\ AfterPeriod(at) \in Loop(busy)
              /\ First(at.todo) \in busy
              /\ First(at.todo).start \in Nat /\ First(at.todo).end \in Nat
<1>1. Buffer \in Nat /\ at.cursor \in Nat /\ at.todo \in SUBSET busy
  BY CalendarAssumption DEF Loop, CalendarAssumption
<1>2. ASSUME at.todo # {}
      PROVE  First(at.todo) \in busy /\ First(at.todo).start \in Nat /\ First(at.todo).end \in Nat
  BY <1>1, <1>2, FirstOfBusy DEF Periods, Times
<1>3. ASSUME at.todo # {}
      PROVE  AfterPeriod(at) \in Loop(busy)
  BY <1>1, <1>2, <1>3 DEF AfterPeriod, Loop, Later
<1> QED
  BY <1>1, <1>2, <1>3 DEF AfterSlot, Loop

\* It collects no less from a larger f.
LEMMA CollectsMore ==
  ASSUME NEW busy \in SUBSET Periods, NEW at \in Loop(busy), NEW duration \in Nat,
         NEW f \in [Loop(busy) -> SUBSET Nat], NEW g \in [Loop(busy) -> SUBSET Nat],
         \A x \in Loop(busy) : f[x] \subseteq g[x]
  PROVE  /\ Collects(f, at, duration) \subseteq Collects(g, at, duration)
         /\ Collects(f, at, duration) \subseteq Nat
<1>1. /\ AfterSlot(at, duration) \in Loop(busy)
      /\ at.todo # {} => AfterPeriod(at) \in Loop(busy)
      /\ at.cursor \in Nat
  BY LoopStays DEF Loop
<1>2. Collects(f, at, duration) =
        IF at.cursor + duration <= Limit(at.todo)
        THEN {at.cursor} \cup f[AfterSlot(at, duration)]
        ELSE IF at.todo = {} THEN {} ELSE f[AfterPeriod(at)]
  BY DEF Collects, AfterSlot, AfterPeriod
<1>3. Collects(g, at, duration) =
        IF at.cursor + duration <= Limit(at.todo)
        THEN {at.cursor} \cup g[AfterSlot(at, duration)]
        ELSE IF at.todo = {} THEN {} ELSE g[AfterPeriod(at)]
  BY DEF Collects, AfterSlot, AfterPeriod
<1> QED
  BY <1>1, <1>2, <1>3

\* So there is a function that collects what it says, the least of those that
\* collect no more than they say.
LEMMA SlotsExist ==
  ASSUME NEW busy \in SUBSET Periods, NEW duration \in Nat
  PROVE  \E f : f = [at \in Loop(busy) |-> Collects(f, at, duration)]
<1> DEFINE L == Loop(busy)
           F == [L -> SUBSET Nat]
           G == {g \in F : \A x \in L : Collects(g, x, duration) \subseteq g[x]}
           f == [x \in L |-> {c \in Nat : \A g \in G : c \in g[x]}]
           h == [x \in L |-> Collects(f, x, duration)]
<1>1. f \in F
  OBVIOUS
<1>2. \A g \in G : \A x \in L : f[x] \subseteq g[x]
  OBVIOUS
<1>3. \A x \in L : Collects(f, x, duration) \subseteq Nat
  BY <1>1, CollectsMore
<1>4. \A x \in L : Collects(f, x, duration) \subseteq f[x]
  <2> SUFFICES ASSUME NEW x \in L, NEW g \in G
               PROVE  Collects(f, x, duration) \subseteq g[x]
    BY <1>3
  <2>1. g \in F /\ Collects(g, x, duration) \subseteq g[x]
    OBVIOUS
  <2> HIDE DEF G, f
  <2>2. Collects(f, x, duration) \subseteq Collects(g, x, duration)
    BY <1>1, <1>2, <2>1, CollectsMore
  <2> QED
    BY <2>1, <2>2
<1>5. h \in F
  BY <1>3
<1>6. h \in G
  <2> SUFFICES ASSUME NEW x \in L
               PROVE  Collects(h, x, duration) \subseteq h[x]
    BY <1>5
  <2>1. \A y \in L : h[y] \subseteq f[y]
    BY <1>4
  <2>2. h[x] = Collects(f, x, duration)
    OBVIOUS
  <2> HIDE DEF f, h
  <2> QED
    BY <1>1, <1>5, <2>1, <2>2, CollectsMore
<1>7. \A x \in L : f[x] = Collects(f, x, duration)
  <2> SUFFICES ASSUME NEW x \in L
               PROVE  f[x] = Collects(f, x, duration)
    OBVIOUS
  <2>1. f[x] \subseteq h[x]
    BY <1>2, <1>6
  <2>2. h[x] = Collects(f, x, duration)
    OBVIOUS
  <2> QED
    BY <1>4, <2>1, <2>2
<1>8. f = [at \in L |-> Collects(f, at, duration)]
  <2>1. f = [x \in L |-> f[x]]
    OBVIOUS
  <2> HIDE DEF f
  <2> QED
    BY <1>7, <2>1
<1> QED
  BY <1>8

\* What AvailableSlots collects, from each place of the loop.
Slots(busy, duration) ==
  CHOOSE f : f = [at \in Loop(busy) |-> Collects(f, at, duration)]

LEMMA SlotsDef ==
  ASSUME NEW busy \in SUBSET Periods, NEW duration \in Nat
  PROVE  /\ AvailableSlots(busy, duration) =
              Slots(busy, duration)[[todo |-> busy, cursor |-> 0]]
         /\ \A at \in Loop(busy) :
              Slots(busy, duration)[at] =
                IF at.cursor + duration <= Limit(at.todo)
                THEN {at.cursor} \cup Slots(busy, duration)[AfterSlot(at, duration)]
                ELSE IF at.todo = {} THEN {} ELSE Slots(busy, duration)[AfterPeriod(at)]
<1>1. AvailableSlots(busy, duration) = Slots(busy, duration)[[todo |-> busy, cursor |-> 0]]
  BY DEF AvailableSlots, Slots, Loop, Collects
<1> DEFINE f == Slots(busy, duration)
<1>2. f = [at \in Loop(busy) |-> Collects(f, at, duration)]
  BY SlotsExist, Zenon DEF Slots
<1> HIDE DEF f
<1>3. \A at \in Loop(busy) : f[at] = Collects(f, at, duration)
  BY <1>2
<1>4. \A at \in Loop(busy) : f[at] =
                IF at.cursor + duration <= Limit(at.todo)
                THEN {at.cursor} \cup f[AfterSlot(at, duration)]
                ELSE IF at.todo = {} THEN {} ELSE f[AfterPeriod(at)]
  BY <1>3 DEF Collects, AfterSlot, AfterPeriod
<1> QED
  BY <1>1, <1>4 DEF f

-----------------------------------------------------------------------------
\* The loop ends: each round leaves fewer busy periods or less of the day.

LEMMA BusyIsFinite == IsFiniteSet(Periods)
<1> DEFINE f == [p \in Periods |-> <<p.start, p.end>>]
<1>1. IsFiniteSet(Times)
  BY FS_Interval, CalendarAssumption DEF Times, CalendarAssumption
<1>2. IsFiniteSet(Times \X Times)
  BY <1>1, FS_Product
<1>3. f \in Injection(Periods, Times \X Times)
  <2>1. f \in [Periods -> Times \X Times]
    BY DEF Periods
  <2>2. ASSUME NEW p \in Periods, NEW q \in Periods, f[p] = f[q]
        PROVE  p = q
    BY <2>2 DEF Periods
  <2> QED
    BY <2>1, <2>2 DEF Injection, IsInjective
<1> QED
  BY <1>2, <1>3, FS_Injection

Left(at) == Cardinality(at.todo) + (IF at.cursor <= DayEnd THEN DayEnd - at.cursor + 1 ELSE 0)

LEMMA LoopEnds ==
  ASSUME NEW busy \in SUBSET Periods, NEW duration \in Nat \ {0}, NEW at \in Loop(busy)
  PROVE  /\ Left(at) \in Nat
         /\ at.cursor + duration <= Limit(at.todo) => Left(AfterSlot(at, duration)) < Left(at)
         /\ at.todo # {} => Left(AfterPeriod(at)) < Left(at)
<1>1. DayEnd \in Nat /\ Buffer \in Nat /\ at.cursor \in Nat /\ at.todo \in SUBSET Periods
  BY CalendarAssumption DEF CalendarAssumption, Loop
<1>2. IsFiniteSet(at.todo) /\ Cardinality(at.todo) \in Nat
  BY <1>1, BusyIsFinite, FS_Subset, FS_CardinalityType
<1>3. Limit(at.todo) \in Nat /\ Limit(at.todo) <= DayEnd
  BY <1>1, FirstOfBusy DEF Limit, Periods, Times
<1>4. ASSUME at.cursor + duration <= Limit(at.todo)
      PROVE  Left(AfterSlot(at, duration)) < Left(at)
  <2>1. /\ AfterSlot(at, duration).todo = at.todo
        /\ AfterSlot(at, duration).cursor = at.cursor + duration + Buffer
    BY LoopStays
  <2> QED
    BY <1>1, <1>2, <1>3, <1>4, <2>1 DEF Left
<1>5. ASSUME at.todo # {}
      PROVE  Left(AfterPeriod(at)) < Left(at)
  <2>1. First(at.todo) \in at.todo
    BY <1>1, <1>5, FirstOfBusy
  <2>2. Cardinality(at.todo \ {First(at.todo)}) = Cardinality(at.todo) - 1
    BY <1>2, <2>1, FS_RemoveElement
  <2>3. AfterPeriod(at).cursor \in Nat /\ AfterPeriod(at).cursor >= at.cursor
    <3>1. First(at.todo).end \in Nat
      BY <1>5, LoopStays
    <3> QED
      BY <1>1, <3>1 DEF AfterPeriod, Later
  <2>4. AfterPeriod(at).todo = at.todo \ {First(at.todo)}
    BY DEF AfterPeriod
  <2> QED
    BY <1>1, <1>2, <2>2, <2>3, <2>4 DEF Left
<1>6. Left(at) \in Nat
  BY <1>1, <1>2 DEF Left
<1> QED
  BY <1>4, <1>5, <1>6

\* So what holds of a place when it holds of the place after it holds of all.
LEMMA LoopInduction ==
  ASSUME NEW busy \in SUBSET Periods, NEW duration \in Nat \ {0}, NEW P \in SUBSET Loop(busy),
         \A at \in Loop(busy) :
           /\ at.cursor + duration <= Limit(at.todo) => AfterSlot(at, duration) \in P
           /\ at.todo # {} => AfterPeriod(at) \in P
           => at \in P
  PROVE  P = Loop(busy)
<1> DEFINE T == {Left(at) : at \in Loop(busy) \ P}
<1> SUFFICES ASSUME Loop(busy) \ P # {}
             PROVE  FALSE
  OBVIOUS
<1>1. T \subseteq Nat /\ T # {}
  BY LoopEnds
<1>2. PICK n \in T : \A m \in T : n <= m
  BY <1>1, LeastNat
<1>3. PICK at \in Loop(busy) \ P : Left(at) = n
  BY <1>2
<1>4. \A x \in Loop(busy) : Left(x) \in Nat /\ Left(x) < Left(at) => x \in P
  <2> SUFFICES ASSUME NEW x \in Loop(busy), x \notin P, Left(x) \in Nat, Left(x) < Left(at)
               PROVE  FALSE
    OBVIOUS
  <2>1. Left(x) \in T
    OBVIOUS
  <2>2. n \in Nat /\ n <= Left(x)
    BY <1>1, <1>2, <2>1
  <2> QED
    BY <1>3, <2>2
<1>5. at.cursor + duration <= Limit(at.todo) => AfterSlot(at, duration) \in P
  BY <1>3, <1>4, LoopEnds, LoopStays
<1>6. at.todo # {} => AfterPeriod(at) \in P
  BY <1>3, <1>4, LoopEnds, LoopStays
<1> QED
  BY <1>3, <1>5, <1>6

-----------------------------------------------------------------------------
\* The slots found from a place on lie behind the cursor, can be booked beside the
\* busy periods that are left, and leave the buffer between them.
Sound(at, slots, duration) ==
  /\ slots \subseteq Bookable(at.todo, duration)
  /\ \A s \in slots : at.cursor <= s
  /\ \A s, t \in slots : s < t => s + duration + Buffer <= t

LEMMA SlotsAreSound ==
  ASSUME NEW busy \in SUBSET Periods, NEW duration \in Nat \ {0}, NEW at \in Loop(busy)
  PROVE  Sound(at, Slots(busy, duration)[at], duration)
<1> DEFINE f == Slots(busy, duration)
           P == {x \in Loop(busy) : Sound(x, f[x], duration)}
<1>1. \A x \in Loop(busy) : f[x] = IF x.cursor + duration <= Limit(x.todo)
                                    THEN {x.cursor} \cup f[AfterSlot(x, duration)]
                                    ELSE IF x.todo = {} THEN {} ELSE f[AfterPeriod(x)]
  BY SlotsDef
<1> HIDE DEF f
<1>2. ASSUME NEW x \in Loop(busy),
             x.cursor + duration <= Limit(x.todo) => AfterSlot(x, duration) \in P,
             x.todo # {} => AfterPeriod(x) \in P
      PROVE  x \in P
  <2>1. /\ DayEnd \in Nat /\ Buffer \in Nat /\ x.cursor \in Nat /\ x.todo \in SUBSET Periods
        /\ \A p \in x.todo : p.start \in Times /\ p.end \in Times
    BY CalendarAssumption DEF CalendarAssumption, Loop, Periods
  <2>2. CASE x.cursor + duration <= Limit(x.todo)
    <3> DEFINE y == AfterSlot(x, duration)
    <3>1. y.todo = x.todo /\ y.cursor = x.cursor + duration + Buffer
      BY LoopStays
    <3>2. Sound(y, f[y], duration) /\ f[x] = {x.cursor} \cup f[y]
      BY <1>1, <1>2, <2>2
    <3> HIDE DEF y
    <3>3. \A p \in x.todo : Limit(x.todo) <= p.start
      BY <2>1, FirstOfBusy DEF Limit
    <3>4. Limit(x.todo) \in Nat /\ Limit(x.todo) <= DayEnd
      BY <2>1, FirstOfBusy DEF Limit, Times
    <3>5. x.cursor \in Bookable(x.todo, duration)
      BY <2>1, <2>2, <3>3, <3>4 DEF Bookable, Times
    <3>6. \A s \in f[y] : s \in Nat /\ x.cursor + duration + Buffer <= s
      BY <3>1, <3>2 DEF Sound, Bookable, Times
    <3>7. \A s \in f[x] : x.cursor <= s
      BY <2>1, <3>2, <3>6
    <3>8. \A s, t \in f[x] : s < t => s + duration + Buffer <= t
      BY <2>1, <3>2, <3>6 DEF Sound
    <3> QED
      BY <3>1, <3>2, <3>5, <3>7, <3>8 DEF Sound
  <2>3. CASE ~(x.cursor + duration <= Limit(x.todo)) /\ x.todo = {}
    BY <1>1, <2>3 DEF Sound
  <2>4. CASE ~(x.cursor + duration <= Limit(x.todo)) /\ x.todo # {}
    <3> DEFINE y == AfterPeriod(x)
               p == First(x.todo)
    <3>1. y.todo = x.todo \ {p} /\ y.cursor = Later(x.cursor, p.end + Buffer)
      BY DEF AfterPeriod
    <3>2. Sound(y, f[y], duration) /\ f[x] = f[y]
      BY <1>1, <1>2, <2>4
    <3>3. p \in x.todo /\ p.end \in Nat
      BY <2>1, <2>4, FirstOfBusy DEF Times
    <3> HIDE DEF y, p
    <3>4. \A s \in f[y] : s \in Nat /\ x.cursor <= s /\ p.end + Buffer <= s
      BY <2>1, <3>1, <3>2, <3>3 DEF Sound, Bookable, Times, Later
    <3>5. f[y] \subseteq Bookable(x.todo, duration)
      BY <3>1, <3>2, <3>4 DEF Sound, Bookable
    <3> QED
      BY <3>2, <3>4, <3>5 DEF Sound
  <2> QED
    BY <2>2, <2>3, <2>4
<1>3. P = Loop(busy)
  BY <1>2, LoopInduction
<1> QED
  BY <1>3 DEF f

\* A time behind the cursor that can be booked is found, or is taken by a slot that is.
Complete(at, slots, duration) ==
  \A t \in Bookable(at.todo, duration) : at.cursor <= t =>
    \E s \in slots : s <= t /\ t < s + duration + Buffer

LEMMA SlotsAreComplete ==
  ASSUME NEW busy \in SUBSET Periods, NEW duration \in Nat \ {0}, NEW at \in Loop(busy)
  PROVE  Complete(at, Slots(busy, duration)[at], duration)
<1> DEFINE f == Slots(busy, duration)
           P == {x \in Loop(busy) : Complete(x, f[x], duration)}
<1>1. \A x \in Loop(busy) : f[x] = IF x.cursor + duration <= Limit(x.todo)
                                    THEN {x.cursor} \cup f[AfterSlot(x, duration)]
                                    ELSE IF x.todo = {} THEN {} ELSE f[AfterPeriod(x)]
  BY SlotsDef
<1> HIDE DEF f
<1>2. ASSUME NEW x \in Loop(busy),
             x.cursor + duration <= Limit(x.todo) => AfterSlot(x, duration) \in P,
             x.todo # {} => AfterPeriod(x) \in P
      PROVE  x \in P
  <2>1. /\ DayEnd \in Nat /\ Buffer \in Nat /\ x.cursor \in Nat /\ x.todo \in SUBSET Periods
        /\ \A p \in x.todo : p.start \in Times /\ p.end \in Times
    BY CalendarAssumption DEF CalendarAssumption, Loop, Periods
  <2> SUFFICES ASSUME NEW t \in Bookable(x.todo, duration), x.cursor <= t
               PROVE  \E s \in f[x] : s <= t /\ t < s + duration + Buffer
    BY DEF Complete
  <2>2. /\ t \in Nat /\ t + duration <= DayEnd
        /\ \A p \in x.todo : t + duration <= p.start \/ p.end + Buffer <= t
    BY DEF Bookable, Times
  <2>3. CASE x.cursor + duration <= Limit(x.todo)
    <3> DEFINE y == AfterSlot(x, duration)
    <3>1. y.todo = x.todo /\ y.cursor = x.cursor + duration + Buffer
      BY LoopStays
    <3>2. Complete(y, f[y], duration) /\ f[x] = {x.cursor} \cup f[y]
      BY <1>1, <1>2, <2>3
    <3> HIDE DEF y
    <3>3. CASE t < x.cursor + duration + Buffer
      BY <3>2, <3>3
    <3>4. CASE y.cursor <= t
      BY <3>1, <3>2, <3>4 DEF Complete
    <3> QED
      BY <2>1, <2>2, <3>1, <3>3, <3>4
  <2>4. CASE ~(x.cursor + duration <= Limit(x.todo)) /\ x.todo = {}
    BY <2>1, <2>2, <2>4 DEF Limit
  <2>5. CASE ~(x.cursor + duration <= Limit(x.todo)) /\ x.todo # {}
    <3> DEFINE y == AfterPeriod(x)
               p == First(x.todo)
    <3>1. y.todo = x.todo \ {p} /\ y.cursor = Later(x.cursor, p.end + Buffer)
      BY DEF AfterPeriod
    <3>2. Complete(y, f[y], duration) /\ f[x] = f[y]
      BY <1>1, <1>2, <2>5
    <3>3. p \in x.todo /\ p.start \in Nat /\ p.end \in Nat
      BY <2>1, <2>5, FirstOfBusy DEF Times
    <3>4. ~(x.cursor + duration <= p.start)
      BY <2>5 DEF Limit
    <3> HIDE DEF y, p
    <3>5. p.end + Buffer <= t
      BY <2>1, <2>2, <3>3, <3>4
    <3>6. y.cursor <= t /\ t \in Bookable(y.todo, duration)
      BY <2>1, <3>1, <3>5 DEF Later, Bookable
    <3> QED
      BY <3>2, <3>6 DEF Complete
  <2> QED
    BY <2>3, <2>4, <2>5
<1>3. P = Loop(busy)
  BY <1>2, LoopInduction
<1> QED
  BY <1>3 DEF f

\* list_available_slots finds what can be booked, with the buffer between the slots.
THEOREM SlotsAreBookable ==
  ASSUME NEW busy \in SUBSET Periods, NEW duration \in Nat \ {0}
  PROVE  /\ AvailableSlots(busy, duration) \subseteq Bookable(busy, duration)
         /\ \A s, t \in AvailableSlots(busy, duration) :
              s < t => s + duration + Buffer <= t
<1>1. [todo |-> busy, cursor |-> 0] \in Loop(busy)
  BY DEF Loop
<1> QED
  BY <1>1, SlotsAreSound, SlotsDef DEF Sound

\* list_available_slots holds nothing back: what can be booked is found, or is taken
\* by a slot that is found and its buffer.
THEOREM SlotsAreAll ==
  ASSUME NEW busy \in SUBSET Periods, NEW duration \in Nat \ {0},
         NEW t \in Bookable(busy, duration)
  PROVE  \E s \in AvailableSlots(busy, duration) : s <= t /\ t < s + duration + Buffer
<1>1. [todo |-> busy, cursor |-> 0] \in Loop(busy)
  BY DEF Loop
<1>2. t >= 0
  BY DEF Bookable, Times
<1> QED
  BY <1>1, <1>2, SlotsAreComplete, SlotsDef DEF Complete
=============================================================================
