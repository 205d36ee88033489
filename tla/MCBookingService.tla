-------------------------- MODULE MCBookingService --------------------------
(***************************************************************************)
(* The instance of BookingService that TLC checks: the days on which the   *)
(* business itself has nothing, one period at an edge of a slot, two that  *)
(* overlap, and two that leave a slot between them; a call that makes      *)
(* three requests and one that books.                                      *)
(***************************************************************************)
EXTENDS BookingService

CONSTANTS k1, k2
TwoCalls == {k1, k2}
Requests == [c \in TwoCalls |-> IF c = k1 THEN 3 ELSE 1]

Period(s, e) == [start |-> s, end |-> e]
BusyDays == {{}, {Period(2, 3)}, {Period(1, 4), Period(2, 3)}, {Period(0, 2), Period(5, 6)}}
=============================================================================
