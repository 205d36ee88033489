------------------------ MODULE CircuitBreakerProofs ------------------------
(***************************************************************************)
(* The breaker never stays CLOSED over a full count, for every number of   *)
(* callers, threshold, window, reset timeout and bound.                    *)
(***************************************************************************)
EXTENDS CircuitBreaker, FiniteSetTheorems, TLAPS

\* _prune returns a deque of stamps no longer than the one it was given.
LEMMA PruneShortens ==
  ASSUME NEW s \in Seq(Nat), NEW now \in Nat
  PROVE  Prune(s, now) \in Seq(Nat) /\ Len(Prune(s, now)) <= Len(s)
<1> DEFINE stale == {i \in 1..Len(s) : \A j \in 1..i : ~InWindow(s[j], now)}
<1>1. IsFiniteSet(1..Len(s)) /\ stale \subseteq 1..Len(s)
  BY FS_Interval
<1>2. Cardinality(stale) \in Nat
  BY <1>1, FS_Subset, FS_CardinalityType
<1> HIDE DEF stale
<1>3. SubSeq(s, Cardinality(stale) + 1, Len(s)) \in Seq(Nat)
      /\ Len(SubSeq(s, Cardinality(stale) + 1, Len(s))) <= Len(s)
  BY <1>2
<1> QED
  BY <1>3 DEF Prune, stale

\* A step keeps the types.
LEMMA TypeStep == TypeOK /\ [Next]_vars => TypeOK'
<1> SUFFICES ASSUME TypeOK, [Next]_vars
             PROVE  TypeOK'
  OBVIOUS
<1> USE BreakerAssumption DEF TypeOK
<1>1. CASE Tick
  BY <1>1 DEF Tick
<1>2. ASSUME NEW c \in Callers, ReadClock(c)
      PROVE  TypeOK'
  BY <1>2 DEF ReadClock
<1>3. ASSUME NEW c \in Callers, RecordFailure(c)
      PROVE  TypeOK'
  <2>1. stamp[c] \in Nat /\ Append(failures, stamp[c]) \in Seq(Nat)
    OBVIOUS
  <2>2. failures' \in Seq(Nat)
    BY <1>3, <2>1, PruneShortens DEF RecordFailure
  <2>3. stamp' \in [Callers -> Nat] /\ clock' \in Nat
    BY <1>3, <2>1 DEF RecordFailure, NoStamp
  <2>4. state' \in {"CLOSED", "OPEN", "HALF_OPEN"} /\ opened_at' \in Nat
    BY <1>3, <2>1 DEF RecordFailure
  <2> QED
    BY <2>2, <2>3, <2>4
<1>4. CASE RecordSuccess
  BY <1>4 DEF RecordSuccess
<1>5. CASE ReadState
  BY <1>5 DEF ReadState
<1>6. CASE ForceReset
  BY <1>6 DEF ForceReset
<1>7. CASE Snapshot
  <2>1. failures' \in Seq(Nat)
    BY <1>7, PruneShortens DEF Snapshot
  <2> QED
    BY <1>7, <2>1 DEF Snapshot
<1>8. CASE UNCHANGED vars
  BY <1>8 DEF vars
<1> QED
  BY <1>1, <1>2, <1>3, <1>4, <1>5, <1>6, <1>7, <1>8 DEF Next

\* A step keeps the count of a CLOSED breaker below the threshold.
LEMMA HealthyStep ==
  TypeOK /\ ClosedMeansHealthy /\ [Next]_vars => ClosedMeansHealthy'
<1> SUFFICES ASSUME TypeOK, ClosedMeansHealthy, [Next]_vars, state' = "CLOSED"
             PROVE  Len(failures') < failure_threshold
  BY DEF ClosedMeansHealthy
<1> USE BreakerAssumption DEF TypeOK, ClosedMeansHealthy
<1>1. CASE Tick \/ UNCHANGED vars \/ ReadState
  BY <1>1 DEF Tick, vars, ReadState
<1>2. ASSUME NEW c \in Callers, ReadClock(c)
      PROVE  Len(failures') < failure_threshold
  BY <1>2 DEF ReadClock
<1>3. ASSUME NEW c \in Callers, RecordFailure(c)
      PROVE  Len(failures') < failure_threshold
  <2>1. stamp[c] \in Nat /\ Append(failures, stamp[c]) \in Seq(Nat)
    OBVIOUS
  <2>2. failures' \in Seq(Nat)
    BY <1>3, <2>1, PruneShortens DEF RecordFailure
  <2>3. ~(Len(failures') >= failure_threshold)
    BY <1>3 DEF RecordFailure
  <2> QED
    BY <2>2, <2>3
<1>4. CASE RecordSuccess \/ ForceReset
  BY <1>4 DEF RecordSuccess, ForceReset
<1>5. CASE Snapshot
  <2>1. Len(failures') <= Len(failures) /\ failures' \in Seq(Nat)
    BY <1>5, PruneShortens DEF Snapshot
  <2> QED
    BY <1>5, <2>1 DEF Snapshot
<1> QED
  BY <1>1, <1>2, <1>3, <1>4, <1>5 DEF Next

\* A CLOSED breaker holds fewer failures than trip it: record_failure,
\* record_success and reset of circuit_breaker.py, for any interleaving.
THEOREM ClosedIsHealthy == Spec => []ClosedMeansHealthy
<1>1. Init => TypeOK /\ ClosedMeansHealthy
  BY BreakerAssumption DEF Init, TypeOK, ClosedMeansHealthy, NoStamp
<1>2. TypeOK /\ ClosedMeansHealthy /\ [Next]_vars => (TypeOK /\ ClosedMeansHealthy)'
  BY TypeStep, HealthyStep
<1> QED
  BY <1>1, <1>2, PTL DEF Spec

-----------------------------------------------------------------------------
Stale(s, now) == {i \in 1..Len(s) : \A j \in 1..i : ~InWindow(s[j], now)}

\* The stale stamps at the head are no more than the stamps before a recent one,
\* and the stamp behind them is recent.
LEMMA StaleHead ==
  ASSUME NEW s \in Seq(Nat), NEW now \in Nat
  PROVE  /\ Cardinality(Stale(s, now)) \in 0..Len(s)
         /\ \A i \in 1..Len(s) : InWindow(s[i], now) => Cardinality(Stale(s, now)) < i
         /\ Cardinality(Stale(s, now)) < Len(s) =>
              InWindow(s[Cardinality(Stale(s, now)) + 1], now)
<1> DEFINE k == Cardinality(Stale(s, now))
<1>0. Len(s) \in Nat
  OBVIOUS
<1>1. ASSUME NEW n \in 0..Len(s), Stale(s, now) \subseteq 1..n
      PROVE  k \in Nat /\ k <= n
  <2>1. IsFiniteSet(1..n) /\ Cardinality(1..n) = n
    BY FS_Interval
  <2>2. IsFiniteSet(Stale(s, now)) /\ k <= n
    BY <1>1, <2>1, FS_Subset
  <2> QED
    BY <2>2, FS_CardinalityType
<1>2. k \in 0..Len(s)
  <2>1. Stale(s, now) \subseteq 1..Len(s) /\ Len(s) \in 0..Len(s)
    BY <1>0 DEF Stale
  <2>2. k \in Nat /\ k <= Len(s)
    BY <1>1, <2>1
  <2> HIDE DEF k
  <2> QED
    BY <1>0, <2>2
<1>3. ASSUME NEW i \in 1..Len(s), InWindow(s[i], now)
      PROVE  k < i
  <2>1. i - 1 \in 0..Len(s) /\ Stale(s, now) \subseteq 1..(i - 1)
    BY <1>0, <1>3 DEF Stale
  <2>2. k \in Nat /\ k <= i - 1
    BY <1>1, <2>1
  <2> HIDE DEF k
  <2> QED
    BY <1>0, <2>2
<1>4. ASSUME k < Len(s)
      PROVE  InWindow(s[k + 1], now)
  <2> HIDE DEF k
  <2>1. k \in Nat /\ k + 1 \in 1..Len(s)
    BY <1>0, <1>2, <1>4
  <2>2. CASE k + 1 \in Stale(s, now)
    <3>1. 1..(k + 1) \subseteq Stale(s, now)
      BY <2>1, <2>2, <1>0 DEF Stale
    <3>2. IsFiniteSet(1..Len(s)) /\ Stale(s, now) \subseteq 1..Len(s)
      BY FS_Interval DEF Stale
    <3>3. IsFiniteSet(Stale(s, now))
      BY <3>2, FS_Subset
    <3>4. Cardinality(1..(k + 1)) <= Cardinality(Stale(s, now))
      BY <3>1, <3>3, FS_Subset
    <3>5. Cardinality(1..(k + 1)) = k + 1
      BY <2>1, FS_Interval
    <3>6. k + 1 <= k
      BY <3>4, <3>5 DEF k
    <3> QED
      BY <2>1, <3>6
  <2>3. CASE k + 1 \notin Stale(s, now)
    <3>1. PICK j \in 1..(k + 1) : InWindow(s[j], now)
      BY <2>1, <2>3 DEF Stale
    <3>2. j \in 1..Len(s) /\ k < j
      BY <1>3, <2>1, <3>1, <1>0
    <3>3. j = k + 1
      BY <2>1, <3>1, <3>2
    <3> QED
      BY <3>1, <3>3
  <2> QED
    BY <2>2, <2>3
<1> QED
  BY <1>2, <1>3, <1>4

\* _prune keeps every recent stamp, and what it returns starts with one.
LEMMA PruneKeeps ==
  ASSUME NEW s \in Seq(Nat), NEW now \in Nat
  PROVE  /\ \A i \in 1..Len(s) : InWindow(s[i], now) =>
              \E j \in 1..Len(Prune(s, now)) : Prune(s, now)[j] = s[i]
         /\ Prune(s, now) # <<>> => InWindow(Prune(s, now)[1], now)
<1> DEFINE k == Cardinality(Stale(s, now))
<1>1. /\ k \in 0..Len(s)
      /\ \A i \in 1..Len(s) : InWindow(s[i], now) => k < i
      /\ k < Len(s) => InWindow(s[k + 1], now)
  BY StaleHead
<1>2. Prune(s, now) = SubSeq(s, k + 1, Len(s))
  BY DEF Prune, Stale
<1> HIDE DEF k
<1>3. /\ Len(Prune(s, now)) = Len(s) - k
      /\ \A j \in 1..(Len(s) - k) : Prune(s, now)[j] = s[k + j]
  BY <1>1, <1>2
<1>4. ASSUME NEW i \in 1..Len(s), InWindow(s[i], now)
      PROVE  \E j \in 1..Len(Prune(s, now)) : Prune(s, now)[j] = s[i]
  <2>1. i - k \in 1..(Len(s) - k) /\ k + (i - k) = i
    BY <1>1, <1>4
  <2> QED
    BY <1>3, <2>1
<1>5. ASSUME Prune(s, now) # <<>>
      PROVE  InWindow(Prune(s, now)[1], now)
  <2>1. k < Len(s)
    BY <1>1, <1>2, <1>5
  <2>2. 1 \in 1..(Len(s) - k)
    BY <1>1, <2>1
  <2> QED
    BY <1>1, <1>3, <2>1, <2>2
<1> QED
  BY <1>4, <1>5

\* A waiting stamp was read from the clock.
StampsPast == \A c \in Callers : stamp[c] = NoStamp \/ stamp[c] <= clock

LEMMA StampsStep == TypeOK /\ StampsPast /\ [Next]_vars => StampsPast'
<1> SUFFICES ASSUME TypeOK, StampsPast, [Next]_vars
             PROVE  StampsPast'
  OBVIOUS
<1> USE BreakerAssumption DEF TypeOK, StampsPast, NoStamp
<1>1. CASE Tick
  BY <1>1 DEF Tick
<1>2. ASSUME NEW c \in Callers, ReadClock(c) \/ RecordFailure(c)
      PROVE  StampsPast'
  BY <1>2 DEF ReadClock, RecordFailure
<1>3. CASE UNCHANGED <<clock, stamp>>
  BY <1>3
<1> QED
  BY <1>1, <1>2, <1>3 DEF Next, RecordSuccess, ReadState, ForceReset, Snapshot, vars

\* No failure inside the window is forgotten but by a reset or a good probe,
\* whatever the order in which late stamps arrive (_prune).
THEOREM RecentIsKept == Spec => ForgetsOnlyStale
<1>1. Init => TypeOK /\ StampsPast
  BY BreakerAssumption DEF Init, TypeOK, StampsPast, NoStamp
<1>2. TypeOK /\ StampsPast /\ [Next]_vars =>
        [\A i \in 1..Len(failures) : InWindow(failures[i], clock) =>
           \/ \E j \in 1..Len(failures') : failures'[j] = failures[i]
           \/ state' = "CLOSED" /\ failures' = <<>>]_vars
  <2> SUFFICES ASSUME TypeOK, StampsPast, [Next]_vars,
                      NEW i \in 1..Len(failures), InWindow(failures[i], clock)
               PROVE  \/ \E j \in 1..Len(failures') : failures'[j] = failures[i]
                      \/ state' = "CLOSED" /\ failures' = <<>>
    OBVIOUS
  <2>a. clock \in Nat /\ failures \in Seq(Nat) /\ failures[i] \in Nat /\ Len(failures) \in Nat
    BY DEF TypeOK
  <2>1. CASE UNCHANGED failures
    BY <2>1
  <2>2. ASSUME NEW c \in Callers, RecordFailure(c)
        PROVE  \E j \in 1..Len(failures') : failures'[j] = failures[i]
    <3>1. stamp[c] \in Nat /\ stamp[c] <= clock
      BY <2>2 DEF RecordFailure, TypeOK, StampsPast
    <3>2. InWindow(failures[i], stamp[c])
      BY <2>a, <3>1, BreakerAssumption DEF InWindow, BreakerAssumption
    <3>3. /\ Append(failures, stamp[c]) \in Seq(Nat) /\ i \in 1..Len(Append(failures, stamp[c]))
          /\ Append(failures, stamp[c])[i] = failures[i]
      BY <2>a, <3>1
    <3>4. failures' = Prune(Append(failures, stamp[c]), stamp[c])
      BY <2>2 DEF RecordFailure
    <3> HIDE DEF InWindow
    <3>5. \A m \in 1..Len(Append(failures, stamp[c])) :
            InWindow(Append(failures, stamp[c])[m], stamp[c]) =>
              \E j \in 1..Len(failures') : failures'[j] = Append(failures, stamp[c])[m]
      BY <3>1, <3>3, <3>4, PruneKeeps
    <3> QED
      BY <3>2, <3>3, <3>5
  <2>3. CASE Snapshot
    BY <2>3, <2>a, PruneKeeps DEF Snapshot
  <2>4. CASE RecordSuccess \/ ForceReset
    BY <2>4 DEF RecordSuccess, ForceReset
  <2> QED
    BY <2>1, <2>2, <2>3, <2>4 DEF Next, Tick, ReadClock, ReadState, vars
<1>3. TypeOK /\ StampsPast /\ [Next]_vars => (TypeOK /\ StampsPast)'
  BY TypeStep, StampsStep
<1> QED
  BY <1>1, <1>2, <1>3, PTL DEF Spec, ForgetsOnlyStale

\* What trips the breaker is that many failures inside the window that ends with the
\* last of them, as long as their stamps are in order (record_failure, _prune).
THEOREM RecentTrips == Spec => TripsOnRecentFailures
<1>1. Init => TypeOK
  BY BreakerAssumption DEF Init, TypeOK, NoStamp
<1>2. TypeOK /\ [Next]_vars =>
        [state # "OPEN" /\ state' = "OPEN" /\ InOrder(failures') =>
           Cardinality(Fresh(failures', opened_at')) >= failure_threshold]_vars
  <2> SUFFICES ASSUME TypeOK, [Next]_vars, state # "OPEN", state' = "OPEN", InOrder(failures')
               PROVE  Cardinality(Fresh(failures', opened_at')) >= failure_threshold
    OBVIOUS
  <2>1. PICK c \in Callers : RecordFailure(c)
    BY DEF Next, Tick, ReadClock, RecordSuccess, ReadState, ForceReset, Snapshot, vars
  <2>2. stamp[c] \in Nat /\ Append(failures, stamp[c]) \in Seq(Nat)
    BY DEF TypeOK
  <2>3. /\ failures' = Prune(Append(failures, stamp[c]), stamp[c]) /\ opened_at' = stamp[c]
        /\ Len(failures') >= failure_threshold
    BY <2>1 DEF RecordFailure
  <2>4. failures' \in Seq(Nat)
    BY <2>2, <2>3, PruneShortens
  <2>5. Len(failures') \in Nat /\ Len(failures') >= 1 /\ failures' # <<>>
    BY <2>3, <2>4, BreakerAssumption DEF BreakerAssumption
  <2>6. InWindow(failures'[1], stamp[c])
    BY <2>2, <2>3, <2>5, PruneKeeps
  <2>7. ASSUME NEW i \in 1..Len(failures')
        PROVE  InWindow(failures'[i], stamp[c])
    <3>1. failures'[1] \in Nat /\ failures'[i] \in Nat /\ failures'[1] <= failures'[i]
      BY <2>4, <2>5 DEF InOrder
    <3> QED
      BY <2>2, <2>6, <3>1, BreakerAssumption DEF InWindow, BreakerAssumption
  <2>8. Fresh(failures', opened_at') = 1..Len(failures')
    BY <2>3, <2>7 DEF Fresh
  <2>9. Cardinality(1..Len(failures')) = Len(failures')
    BY <2>5, FS_Interval
  <2> QED
    BY <2>3, <2>8, <2>9
<1> QED
  BY <1>1, <1>2, TypeStep, PTL DEF Spec, TripsOnRecentFailures
=============================================================================
