---------------------------- MODULE MCCallRecords ----------------------------
(***************************************************************************)
(* The instance of CallRecords that TLC checks: calls from one number.     *)
(***************************************************************************)
EXTENDS CallRecords

CONSTANT number
OneCaller == [c \in Calls |-> number]
=============================================================================
