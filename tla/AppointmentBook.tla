--------------------------- MODULE AppointmentBook ---------------------------
(***************************************************************************)
(* What the booking tools promise the model that calls them: a request to  *)
(* book, cancel or reschedule takes effect at most once, it is reported    *)
(* done only when it took effect, and a cancelled appointment stays so.    *)
(* A request that is not reported done may or may not have taken effect.   *)
(***************************************************************************)
EXTENDS Naturals

CONSTANTS Calls, Appointments, Starts

VARIABLES
  book,   \* appointment -> [status, start]
  asked,  \* call -> its last request
  told    \* call -> "nothing" yet, "waiting", "done" or "not done"

Ops     == {"book", "cancel", "reschedule"}
Request == [op : Ops, id : Appointments, start : Starts]

Init ==
  /\ \A i \in Appointments : book[i].status = "none"
  /\ told = [c \in Calls |-> "nothing"]

Ask(c, r) ==
  /\ told[c] # "waiting"
  /\ asked' = [asked EXCEPT ![c] = r]
  /\ told' = [told EXCEPT ![c] = "waiting"]
  /\ UNCHANGED book

Allowed(r) == book[r.id].status = IF r.op = "book" THEN "none" ELSE "confirmed"

Effect(r) ==
  [book EXCEPT ![r.id] =
     IF r.op = "cancel" THEN [@ EXCEPT !.status = "cancelled"]
                        ELSE [status |-> "confirmed", start |-> r.start]]

TakeEffect(c) ==
  /\ told[c] = "waiting" /\ Allowed(asked[c])
  /\ book' = Effect(asked[c])
  /\ told' \in {[told EXCEPT ![c] = word] : word \in {"done", "not done"}}
  /\ UNCHANGED asked

GiveUp(c) ==
  /\ told[c] = "waiting"
  /\ told' = [told EXCEPT ![c] = "not done"]
  /\ UNCHANGED <<book, asked>>

Next == \E c \in Calls :
  (\E r \in Request : Ask(c, r)) \/ TakeEffect(c) \/ GiveUp(c)

Spec == Init /\ [][Next]_<<book, asked, told>>
=============================================================================
