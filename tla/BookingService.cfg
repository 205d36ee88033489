SPECIFICATION Spec
CONSTANTS
  DayEnd = 7
  Buffer = 1
  Hour = 2
  k1 = k1
  k2 = k2
  Calls <- TwoCalls
  Duration = 2
  Starts = {0, 3}
  MaxRequests <- Requests
  External <- BusyDays
INVARIANTS
  TypeOK
  DoneMeansDone
  AppointmentsAreHeld
  OneStrayPerBlemish
  OfferedSlotsAreBookable
  NothingFreeIsHidden
PROPERTIES
  KeepsTheBook
CHECK_DEADLOCK FALSE
