--------------------------- MODULE CircuitBreaker ---------------------------
(***************************************************************************)
(* CircuitBreaker of src/circuit_breaker.py, shared by threads.            *)
(*                                                                         *)
(* Every method is atomic under the lock but one: record_failure reads the *)
(* clock before it takes the lock, so two callers may append their stamps  *)
(* in the other order.  Time is counted in whole units of the two timeouts.*)
(***************************************************************************)
EXTENDS Naturals, Sequences, FiniteSets

CONSTANTS
  Callers,            \* threads that report to the breaker
  failure_threshold,
  window_sec,
  reset_timeout_sec,
  MaxTime,            \* bound: the clock stops here
  MaxFailures         \* bound: no failure is reported on top of this many

ASSUME BreakerAssumption ==
  /\ failure_threshold \in Nat \ {0}
  /\ window_sec \in Nat
  /\ reset_timeout_sec \in Nat
  /\ MaxTime \in Nat
  /\ MaxFailures \in Nat

VARIABLES
  clock,       \* time.monotonic()
  state,       \* _state
  failures,    \* _failures, the deque of stamps
  opened_at,   \* _opened_at
  stamp        \* the "now" of a record_failure still waiting for the lock

vars == <<clock, state, failures, opened_at, stamp>>

NoStamp == MaxTime + 1

Init ==
  /\ clock = 1
  /\ state = "CLOSED"
  /\ failures = <<>>
  /\ opened_at = 0
  /\ stamp = [c \in Callers |-> NoStamp]

-----------------------------------------------------------------------------
InWindow(t, now) == t + window_sec >= now

\* Slip: pop() for popleft().
PruneNewest(s, now) == IF s # <<>> /\ ~InWindow(s[1], now) THEN <<>> ELSE s

\* Slip: nothing is pruned.
PruneNot(s, now) == s

\* _prune: the stale stamps at the head of the deque go, no other.
Prune(s, now) ==
  LET stale == {i \in 1..Len(s) : \A j \in 1..i : ~InWindow(s[j], now)}
  IN SubSeq(s, Cardinality(stale) + 1, Len(s))

Tick ==
  /\ clock < MaxTime
  /\ clock' = clock + 1
  /\ UNCHANGED <<state, failures, opened_at, stamp>>

\* record_failure up to the lock.
ReadClock(c) ==
  /\ stamp[c] = NoStamp
  /\ Len(failures) < MaxFailures
  /\ stamp' = [stamp EXCEPT ![c] = clock]
  /\ UNCHANGED <<clock, state, failures, opened_at>>

\* record_failure under the lock.
RecordFailure(c) ==
  /\ stamp[c] # NoStamp
  /\ stamp' = [stamp EXCEPT ![c] = NoStamp]
  /\ failures' = Prune(Append(failures, stamp[c]), stamp[c])
  /\ IF Len(failures') >= failure_threshold
     THEN state' = "OPEN" /\ opened_at' = stamp[c]
     ELSE UNCHANGED <<state, opened_at>>
  /\ UNCHANGED clock

\* Slip: the old failures are kept when the breaker closes.
RecordSuccessKeeps ==
  /\ state = "HALF_OPEN"
  /\ state' = "CLOSED"
  /\ UNCHANGED <<clock, failures, opened_at, stamp>>

RecordSuccess ==
  /\ state = "HALF_OPEN"
  /\ state' = "CLOSED"
  /\ failures' = <<>>
  /\ UNCHANGED <<clock, opened_at, stamp>>

\* The state property, read by is_call_allowed.
ReadState ==
  /\ state = "OPEN"
  /\ clock >= opened_at + reset_timeout_sec
  /\ state' = "HALF_OPEN"
  /\ UNCHANGED <<clock, failures, opened_at, stamp>>

ForceReset ==
  /\ state' = "CLOSED"
  /\ failures' = <<>>
  /\ opened_at' = 0
  /\ UNCHANGED <<clock, stamp>>

Snapshot ==
  /\ failures' = Prune(failures, clock)
  /\ UNCHANGED <<clock, state, opened_at, stamp>>

Next ==
  \/ Tick
  \/ \E c \in Callers : ReadClock(c) \/ RecordFailure(c)
  \/ RecordSuccess
  \/ ReadState
  \/ ForceReset
  \/ Snapshot

Spec == Init /\ [][Next]_vars

-----------------------------------------------------------------------------
\* Every variable has its type (circuit_breaker.py:38-41).
TypeOK ==
  /\ clock \in Nat
  /\ state \in {"CLOSED", "OPEN", "HALF_OPEN"}
  /\ failures \in Seq(Nat)
  /\ opened_at \in Nat
  /\ stamp \in [Callers -> Nat]

\* A breaker that lets every call through holds fewer failures than trip it,
\* however prunes, successes, resets and late stamps interleave
\* (circuit_breaker.py:54-61, 65-69).
ClosedMeansHealthy == state = "CLOSED" => Len(failures) < failure_threshold

\* What trips the breaker is that many failures inside the window that ends
\* with the last of them, as long as their stamps are in order: _prune looks
\* no further than the first recent one (circuit_breaker.py:54-61, 94-98).
Fresh(s, now) == {i \in 1..Len(s) : InWindow(s[i], now)}
InOrder(s) == \A i, j \in 1..Len(s) : i <= j => s[i] <= s[j]
TripsOnRecentFailures ==
  [][state # "OPEN" /\ state' = "OPEN" /\ InOrder(failures') =>
       Cardinality(Fresh(failures', opened_at')) >= failure_threshold]_vars

\* No failure inside the window is forgotten but by a reset or a good probe:
\* until then each stamp dropped is stale (circuit_breaker.py:94-98).
ForgetsOnlyStale ==
  [][\A i \in 1..Len(failures) :
       InWindow(failures[i], clock) =>
         \/ \E j \in 1..Len(failures') : failures'[j] = failures[i]
         \/ state' = "CLOSED" /\ failures' = <<>>]_vars

\* test_circuit_breaker.py:57: a probe that fails reopens the breaker.
HalfOpenFailureReopens ==
  [][state = "HALF_OPEN" /\ (\E c \in Callers : RecordFailure(c)) => state' = "OPEN"]_vars
=============================================================================
