------------------------- MODULE CallRecordsProofs --------------------------
(***************************************************************************)
(* What set-up and post-call processing keep, for every number of calls,   *)
(* numbers, names and faults.                                              *)
(***************************************************************************)
EXTENDS CallRecords, TLAPS

CustomerType == {"no row", "no name"} \cup Names
SetupType    == SetupSteps \cup {"idle", "ready", "failed"}
PostType     == PostSteps \cup {"idle", "nothing", "skipped", "dropped", "no object", "saved", "failed"}

RecordsType ==
  /\ customers \in [Numbers -> CustomerType]
  /\ records \in [Calls -> {"no row", "started", "outcome"}]
  /\ setup \in [Calls -> SetupType]
  /\ llm \in [Calls -> {"nothing", "tools", "warning"}]
  /\ post \in [Calls -> PostType]
  /\ seen \in [Calls -> CustomerType]
  /\ summary \in [Calls -> [name : Names \cup {"no name"}, booked : BOOLEAN]]
  /\ transcripts \subseteq Calls /\ booking \subseteq Calls
  /\ recorded \subseteq Calls /\ faulty \subseteq Calls /\ overlapped \subseteq Numbers

\* A step keeps the types.
LEMMA TypeStep == RecordsType /\ [Next]_vars => RecordsType'
<1> SUFFICES ASSUME RecordsType, [Next]_vars
             PROVE  RecordsType'
  OBVIOUS
<1>a. \A c \in Calls : Caller[c] \in Numbers
  BY RecordsAssumption DEF RecordsAssumption
<1> USE DEF RecordsType, setupVars, postVars, ghosts
<1>1. ASSUME NEW c \in Calls, StreamStarts(c)
      PROVE  RecordsType'
  BY <1>1 DEF StreamStarts, SetupGoes, SetupType, SetupSteps
<1>2. ASSUME NEW c \in Calls, LookupCustomer(c) \/ UpcomingAppointment(c) \/ CloseSession(c)
      PROVE  RecordsType'
  BY <1>2 DEF LookupCustomer, UpcomingAppointment, CloseSession, SetupGoes, SetupType, SetupSteps
<1>3. ASSUME NEW c \in Calls, InsertCustomer(c)
      PROVE  RecordsType'
  BY <1>3, <1>a DEF InsertCustomer, SetupGoes, SetupType, SetupSteps, CustomerType
<1>4. ASSUME NEW c \in Calls, InsertConflicts(c)
      PROVE  RecordsType'
  BY <1>4 DEF InsertConflicts, Warn, SetupType
<1>5. ASSUME NEW c \in Calls, StartCall(c)
      PROVE  RecordsType'
  BY <1>5 DEF StartCall, SetupGoes, SetupType, SetupSteps
<1>6. ASSUME NEW c \in Calls, SetupFails(c)
      PROVE  RecordsType'
  <2>1. customers' \in [Numbers -> CustomerType]
    BY <1>6, <1>a DEF SetupFails, CustomerType
  <2>2. records' \in [Calls -> {"no row", "started", "outcome"}]
    BY <1>6 DEF SetupFails
  <2> QED
    BY <1>6, <2>1, <2>2 DEF SetupFails, Warn, Fault, SetupType
<1>7. ASSUME NEW c \in Calls, HangUp(c)
      PROVE  RecordsType'
  <2>1. PICK next \in {"find", "nothing", "skipped"} : post' = [post EXCEPT ![c] = next]
    BY <1>7 DEF HangUp, PostGoes
  <2>2. next \in PostType
    BY DEF PostType, PostSteps
  <2>3. post' \in [Calls -> PostType]
    BY <2>1, <2>2
  <2> QED
    BY <1>7, <2>3 DEF HangUp
<1>8. ASSUME NEW c \in Calls, FindCall(c) \/ FlushTranscript(c) \/ SendSms(c)
      PROVE  RecordsType'
  BY <1>8 DEF FindCall, FlushTranscript, SendSms, PostGoes, PostType, PostSteps
<1>9. ASSUME NEW c \in Calls, FindCustomer(c)
      PROVE  RecordsType'
  BY <1>9, <1>a DEF FindCustomer, PostGoes, PostType, PostSteps
<1>10. ASSUME NEW c \in Calls, GenerateSummary(c)
       PROVE  RecordsType'
  <2>a. CASE UNCHANGED summary
    BY <1>10, <2>a DEF GenerateSummary, PostGoes, PostType, PostSteps
  <2>b. CASE ~UNCHANGED summary
    <3>1. PICK name \in Names \cup {"no name"}, booked \in BOOLEAN :
            summary' = [summary EXCEPT ![c] = [name |-> name, booked |-> booked]]
      BY <1>10, <2>b DEF GenerateSummary
    <3>2. [name |-> name, booked |-> booked] \in [name : Names \cup {"no name"}, booked : BOOLEAN]
      OBVIOUS
    <3>3. summary' \in [Calls -> [name : Names \cup {"no name"}, booked : BOOLEAN]]
      BY <3>1, <3>2
    <3> QED
      BY <1>10, <3>3 DEF GenerateSummary, PostGoes, PostType, PostSteps
  <2> QED
    BY <2>a, <2>b
<1>11. ASSUME NEW c \in Calls, Stored(c)
       PROVE  /\ customers' \in [Numbers -> CustomerType]
              /\ records' \in [Calls -> {"no row", "started", "outcome"}]
              /\ transcripts' \subseteq Calls
  <2>1. summary[c].name \in Names \cup {"no name"}
    OBVIOUS
  <2> QED
    BY <1>11, <1>a, <2>1 DEF Stored, LearnedName, CustomerType
<1>12. ASSUME NEW c \in Calls, CommitSummary(c)
       PROVE  RecordsType'
  BY <1>11, <1>12 DEF CommitSummary, PostGoes, PostType, PostSteps
<1>13. ASSUME NEW c \in Calls, PostCallFails(c)
       PROVE  RecordsType'
  BY <1>11, <1>13 DEF PostCallFails, Fault, PostType
<1>14. CASE UNCHANGED vars
  BY <1>14 DEF vars
<1> QED
  BY <1>1, <1>2, <1>3, <1>4, <1>5, <1>6, <1>7, <1>8, <1>9, <1>10, <1>12, <1>13, <1>14
     DEF Next, Setup, PostCall

LEMMA TypeInit == Init => RecordsType
<1> SUFFICES ASSUME Init
             PROVE  RecordsType
  OBVIOUS
<1>1. NoSummary \in [name : Names \cup {"no name"}, booked : BOOLEAN]
  BY DEF NoSummary
<1>2. summary \in [Calls -> [name : Names \cup {"no name"}, booked : BOOLEAN]]
  BY <1>1 DEF Init
<1>3. /\ setup \in [Calls -> SetupType] /\ post \in [Calls -> PostType]
      /\ seen \in [Calls -> CustomerType] /\ customers \in [Numbers -> CustomerType]
  BY DEF Init, SetupType, PostType, CustomerType
<1> QED
  BY <1>2, <1>3 DEF Init, RecordsType

LEMMA TypeInvariant == Spec => []RecordsType
BY TypeInit, TypeStep, PTL DEF Spec

-----------------------------------------------------------------------------
Ahead     == {"upcoming", "start_call", "closing", "ready"}
InWindow  == {"flush", "summary", "commit"}

\* A customer that post-call processing may have read without a name has a row.
SeenInv == \A c \in Calls :
  post[c] \in InWindow /\ seen[c] = "no name" => customers[Caller[c]] # "no row"

\* What one step may do to a set-up, to the rows and to the faults.
Moves ==
  /\ faulty \subseteq faulty' /\ overlapped \subseteq overlapped'
  /\ \A c \in Calls : records[c] # "no row" => records'[c] # "no row"
  /\ \A n \in Numbers : customers[n] # "no row" => customers'[n] # "no row"
  /\ \A n \in Numbers : customers[n] = "no row" /\ customers'[n] # "no row" =>
       \E d \in Calls : /\ Caller[d] = n
                        /\ setup'[d] = "upcoming" \/ (setup'[d] = "failed" /\ d \in faulty')
  /\ \A d \in Calls : setup[d] \in Ahead => setup'[d] \in Ahead \/ d \in faulty'
  /\ \A c \in Calls : setup'[c] = "insert" =>
       setup[c] = "insert" \/ customers'[Caller[c]] = "no row"
  /\ \A c \in Calls : setup'[c] = "failed" =>
       \/ setup[c] = "failed" \/ c \in faulty'
       \/ setup[c] = "insert" /\ customers[Caller[c]] # "no row"

LEMMA StoredMoves ==
  ASSUME RecordsType, SeenInv, NEW c \in Calls, post[c] = "commit", Stored(c)
  PROVE  /\ \A d \in Calls : records[d] # "no row" => records'[d] # "no row"
         /\ \A n \in Numbers : customers[n] # "no row" <=> customers'[n] # "no row"
         /\ \A n \in Numbers : customers'[n] # customers[n] =>
              customers[n] # "no row" /\ n = Caller[c] /\ seen[c] = "no name"
<1>1. Caller[c] \in Numbers /\ \A name \in Names : name # "no row"
  BY RecordsAssumption DEF RecordsAssumption
<1>2. \A d \in Calls : records[d] # "no row" => records'[d] # "no row"
  BY DEF RecordsType, Stored
<1>3. CASE ~LearnedName(c)
  BY <1>2, <1>3 DEF Stored
<1>4. CASE LearnedName(c)
  <2>1. summary[c].name \in Names \cup {"no name"} /\ summary[c].name # "no name"
    BY <1>4 DEF RecordsType, LearnedName
  <2>2. customers[Caller[c]] # "no row" /\ seen[c] = "no name"
    BY <1>4 DEF SeenInv, InWindow, LearnedName
  <2>3. customers' = [customers EXCEPT ![Caller[c]] = summary[c].name]
    BY <1>4 DEF Stored
  <2> QED
    BY <1>1, <1>2, <2>1, <2>2, <2>3 DEF RecordsType
<1> QED
  BY <1>3, <1>4

LEMMA StepMoves ==
  ASSUME RecordsType, SeenInv, [Next]_vars
  PROVE  Moves
<1>a. \A c \in Calls : Caller[c] \in Numbers
  BY RecordsAssumption DEF RecordsAssumption
<1>b. /\ customers \in [Numbers -> CustomerType] /\ setup \in [Calls -> SetupType]
      /\ records \in [Calls -> {"no row", "started", "outcome"}]
  BY DEF RecordsType
<1>0. CASE UNCHANGED <<customers, records, setup, faulty, overlapped>>
  BY <1>0 DEF Moves
<1>1. ASSUME NEW c \in Calls, StreamStarts(c)
      PROVE  Moves
  BY <1>1, <1>b DEF StreamStarts, SetupGoes, Moves, Ahead, ghosts
<1>2. ASSUME NEW c \in Calls, LookupCustomer(c)
      PROVE  Moves
  BY <1>2, <1>b DEF LookupCustomer, SetupGoes, Moves, Ahead, ghosts
<1>3. ASSUME NEW c \in Calls, InsertCustomer(c)
      PROVE  Moves
  <2>1. /\ setup[c] = "insert" /\ setup' = [setup EXCEPT ![c] = "upcoming"]
        /\ customers[Caller[c]] = "no row"
        /\ customers' = [customers EXCEPT ![Caller[c]] = "no name"]
        /\ records' = records /\ faulty' = faulty /\ overlapped' = overlapped
    BY <1>3 DEF InsertCustomer, SetupGoes, ghosts
  <2> QED
    BY <2>1, <1>a, <1>b DEF Moves, Ahead
<1>4. ASSUME NEW c \in Calls, InsertConflicts(c)
      PROVE  Moves
  BY <1>4, <1>b DEF InsertConflicts, Warn, Moves, Ahead, ghosts
<1>5. ASSUME NEW c \in Calls, UpcomingAppointment(c) \/ CloseSession(c)
      PROVE  Moves
  BY <1>5, <1>b DEF UpcomingAppointment, CloseSession, SetupGoes, Moves, Ahead, ghosts
<1>6. ASSUME NEW c \in Calls, StartCall(c)
      PROVE  Moves
  BY <1>6, <1>b DEF StartCall, SetupGoes, Moves, Ahead, ghosts
<1>7. ASSUME NEW c \in Calls, SetupFails(c)
      PROVE  Moves
  <2>1. /\ setup' = [setup EXCEPT ![c] = "failed"] /\ faulty' = faulty \cup {c}
        /\ overlapped' = overlapped
    BY <1>7 DEF SetupFails, Warn, Fault
  <2>2. /\ \A n \in Numbers : customers[n] # "no row" => customers'[n] # "no row"
        /\ \A n \in Numbers : customers'[n] # customers[n] => n = Caller[c]
    BY <1>7, <1>a, <1>b DEF SetupFails
  <2>3. \A d \in Calls : records[d] # "no row" => records'[d] # "no row"
    BY <1>7, <1>b DEF SetupFails
  <2> QED
    BY <2>1, <2>2, <2>3, <1>a, <1>b DEF Moves, Ahead
<1>8. ASSUME NEW c \in Calls, HangUp(c) \/ FindCall(c) \/ FlushTranscript(c) \/ SendSms(c)
                              \/ GenerateSummary(c)
      PROVE  Moves
  BY <1>0, <1>8 DEF HangUp, FindCall, FlushTranscript, SendSms, GenerateSummary, setupVars, ghosts
<1>9. ASSUME NEW c \in Calls, FindCustomer(c)
      PROVE  Moves
  BY <1>9 DEF FindCustomer, Moves, setupVars
<1>10. ASSUME NEW c \in Calls, CommitSummary(c)
       PROVE  Moves
  <2>1. post[c] = "commit" /\ Stored(c) /\ UNCHANGED <<setup, faulty, overlapped>>
    BY <1>10 DEF CommitSummary, PostGoes, setupVars, ghosts
  <2> QED
    BY <2>1, StoredMoves DEF Moves
<1>11. ASSUME NEW c \in Calls, PostCallFails(c)
       PROVE  Moves
  <2>1. faulty \subseteq faulty' /\ UNCHANGED <<setup, overlapped>>
    BY <1>11 DEF PostCallFails, Fault, setupVars
  <2>2. CASE UNCHANGED <<customers, records>>
    BY <2>1, <2>2 DEF Moves
  <2>3. CASE post[c] = "commit" /\ Stored(c)
    BY <2>1, <2>3, StoredMoves DEF Moves
  <2> QED
    BY <1>11, <2>2, <2>3 DEF PostCallFails
<1>12. CASE UNCHANGED vars
  BY <1>0, <1>12 DEF vars, setupVars, ghosts
<1> QED
  BY <1>1, <1>2, <1>3, <1>4, <1>5, <1>6, <1>7, <1>8, <1>9, <1>10, <1>11, <1>12
     DEF Next, Setup, PostCall

-----------------------------------------------------------------------------
\* Post-call processing is the only one to move a call out of the window and
\* reads the customer as it enters.
LEMMA PostMoves ==
  ASSUME RecordsType, [Next]_vars, NEW c \in Calls
  PROVE  \/ post'[c] = post[c] /\ seen'[c] = seen[c]
         \/ post'[c] \in InWindow /\ post[c] \in InWindow /\ seen'[c] = seen[c]
         \/ post'[c] \notin InWindow
         \/ FindCustomer(c)
<1>a. post \in [Calls -> PostType] /\ seen \in [Calls -> CustomerType]
  BY DEF RecordsType
<1>1. CASE UNCHANGED <<post, seen>>
  BY <1>1
<1>2. CASE \E d \in Calls : StreamStarts(d) \/ Setup(d)
  BY <1>1, <1>2 DEF StreamStarts, Setup, LookupCustomer, InsertCustomer, InsertConflicts,
     UpcomingAppointment, StartCall, CloseSession, SetupFails, postVars
<1>3. ASSUME NEW d \in Calls, HangUp(d) \/ FindCall(d) \/ FlushTranscript(d) \/ GenerateSummary(d)
                              \/ CommitSummary(d) \/ SendSms(d)
      PROVE  \/ post'[c] = post[c] /\ seen'[c] = seen[c]
             \/ post'[c] \in InWindow /\ post[c] \in InWindow /\ seen'[c] = seen[c]
             \/ post'[c] \notin InWindow
  BY <1>a, <1>3 DEF HangUp, FindCall, FlushTranscript, GenerateSummary, CommitSummary, SendSms,
     PostGoes, InWindow
<1>4. ASSUME NEW d \in Calls, PostCallFails(d)
      PROVE  (post'[c] = post[c] /\ seen'[c] = seen[c]) \/ post'[c] \notin InWindow
  BY <1>a, <1>4 DEF PostCallFails, InWindow
<1>5. ASSUME NEW d \in Calls, FindCustomer(d), d # c
      PROVE  post'[c] = post[c] /\ seen'[c] = seen[c]
  BY <1>a, <1>5 DEF FindCustomer, PostGoes
<1> QED
  BY <1>1, <1>2, <1>3, <1>4, <1>5 DEF Next, PostCall, vars, postVars

\* What post-call processing has read stays true of the row's presence.
LEMMA SeenStep == RecordsType /\ SeenInv /\ [Next]_vars => SeenInv'
<1> SUFFICES ASSUME RecordsType, SeenInv, [Next]_vars, NEW c \in Calls,
                    post'[c] \in InWindow, seen'[c] = "no name"
             PROVE  customers'[Caller[c]] # "no row"
  BY DEF SeenInv
<1>1. Caller[c] \in Numbers
  BY RecordsAssumption DEF RecordsAssumption
<1>2. customers[Caller[c]] # "no row" => customers'[Caller[c]] # "no row"
  BY <1>1, StepMoves DEF Moves
<1>3. CASE FindCustomer(c)
  BY <1>2, <1>3 DEF FindCustomer, RecordsType
<1>4. CASE ~FindCustomer(c)
  <2>1. post[c] \in InWindow /\ seen[c] = "no name"
    BY <1>4, PostMoves
  <2> QED
    BY <2>1, <1>2 DEF SeenInv
<1> QED
  BY <1>3, <1>4

LEMMA SeenInvariant == Spec => [](RecordsType /\ SeenInv)
<1>1. Init => RecordsType /\ SeenInv
  BY TypeInit DEF Init, SeenInv, InWindow
<1> QED
  BY <1>1, TypeStep, SeenStep, PTL DEF Spec

-----------------------------------------------------------------------------
\* The call that c loses the race for its number to.
Winner(c) == \E d \in Calls \ {c} : Caller[d] = Caller[c] /\ (d \in faulty \/ setup[d] \in Ahead)

RaceInv == \A c \in Calls :
  /\ setup[c] = "insert" /\ customers[Caller[c]] # "no row" => Winner(c)
  /\ setup[c] = "failed" /\ c \notin faulty => Winner(c)

LEMMA RaceStep == RecordsType /\ SeenInv /\ RaceInv /\ [Next]_vars => RaceInv'
<1> SUFFICES ASSUME RecordsType, SeenInv, RaceInv, [Next]_vars, NEW c \in Calls
             PROVE  /\ setup'[c] = "insert" /\ customers'[Caller[c]] # "no row" => Winner(c)'
                    /\ setup'[c] = "failed" /\ c \notin faulty' => Winner(c)'
  BY DEF RaceInv
<1>1. Moves /\ Caller[c] \in Numbers
  BY StepMoves, RecordsAssumption DEF RecordsAssumption
<1>2. Winner(c) => Winner(c)'
  BY <1>1 DEF Winner, Moves
<1>3. ASSUME setup'[c] = "insert", customers'[Caller[c]] # "no row"
      PROVE  Winner(c)'
  <2>1. setup[c] = "insert"
    BY <1>1, <1>3 DEF Moves
  <2>2. CASE customers[Caller[c]] # "no row"
    BY <1>2, <2>1, <2>2 DEF RaceInv
  <2>3. CASE customers[Caller[c]] = "no row"
    <3>1. PICK d \in Calls : /\ Caller[d] = Caller[c]
                             /\ setup'[d] = "upcoming" \/ (setup'[d] = "failed" /\ d \in faulty')
      BY <1>1, <1>3, <2>3 DEF Moves
    <3> QED
      BY <3>1, <1>3 DEF Winner, Ahead
  <2> QED
    BY <2>2, <2>3
<1>4. ASSUME setup'[c] = "failed", c \notin faulty'
      PROVE  Winner(c)'
  <2>1. c \notin faulty
    BY <1>1, <1>4 DEF Moves
  <2>2. setup[c] = "failed" \/ (setup[c] = "insert" /\ customers[Caller[c]] # "no row")
    BY <1>1, <1>4 DEF Moves
  <2> QED
    BY <1>2, <2>1, <2>2 DEF RaceInv
<1> QED
  BY <1>3, <1>4

\* Of the calls that a new number makes at once, the set-up fails only for those
\* that lose to another call of the number (customer_service.py:24-37).
THEOREM LoserHasWinner == Spec => []LostRaceHasWinner
<1>1. Init => RaceInv
  BY DEF Init, RaceInv
<1>2. RaceInv => LostRaceHasWinner
  BY DEF RaceInv, LostRaceHasWinner, Winner, Ahead
<1> QED
  BY <1>1, <1>2, RaceStep, SeenInvariant, PTL DEF Spec

-----------------------------------------------------------------------------
KeptInv == \A c \in recorded :
  /\ records[c] # "no row" /\ post[c] \notin {"idle", "dropped"}
  /\ c \notin faulty => /\ post[c] # "failed"
                        /\ post[c] \in {"sms", "saved"} => c \in transcripts

LEMMA KeptStep == RecordsType /\ SeenInv /\ KeptInv /\ [Next]_vars => KeptInv'
<1> SUFFICES ASSUME RecordsType, SeenInv, KeptInv, [Next]_vars
             PROVE  KeptInv'
  OBVIOUS
<1>a. /\ post \in [Calls -> PostType] /\ recorded \subseteq Calls
      /\ transcripts \subseteq Calls /\ faulty \subseteq faulty'
  BY StepMoves DEF RecordsType, Moves
<1>b. \A c \in Calls : records[c] # "no row" => records'[c] # "no row"
  BY StepMoves DEF Moves
<1>1. CASE UNCHANGED <<post, recorded, transcripts>>
  BY <1>1, <1>a, <1>b DEF KeptInv
<1>2. ASSUME NEW c \in Calls, StreamStarts(c) \/ Setup(c)
      PROVE  KeptInv'
  BY <1>1, <1>2 DEF StreamStarts, Setup, LookupCustomer, InsertCustomer, InsertConflicts,
     UpcomingAppointment, StartCall, CloseSession, SetupFails, Fault, postVars, ghosts
<1>3. ASSUME NEW c \in Calls, HangUp(c)
      PROVE  KeptInv'
  <2>1. PICK next \in {"find", "nothing", "skipped"} :
          post[c] = "idle" /\ post' = [post EXCEPT ![c] = next]
    BY <1>3 DEF HangUp, PostGoes
  <2>2. /\ recorded' \subseteq recorded \cup {d \in {c} : records[d] # "no row"}
        /\ transcripts' = transcripts /\ records' = records
    BY <1>3 DEF HangUp
  <2> QED
    BY <2>1, <2>2, <1>a DEF KeptInv
<1>4. ASSUME NEW c \in Calls, FindCall(c)
      PROVE  KeptInv'
  BY <1>4, <1>a, <1>b DEF FindCall, PostGoes, KeptInv, ghosts
<1>5. ASSUME NEW c \in Calls, FindCustomer(c) \/ FlushTranscript(c) \/ GenerateSummary(c)
      PROVE  KeptInv'
  BY <1>5, <1>a, <1>b DEF FindCustomer, FlushTranscript, GenerateSummary, PostGoes, KeptInv, ghosts
<1>6. ASSUME NEW c \in Calls, CommitSummary(c) \/ SendSms(c)
      PROVE  KeptInv'
  <2>1. CASE CommitSummary(c)
    BY <2>1, <1>a, <1>b DEF CommitSummary, Stored, PostGoes, KeptInv, ghosts
  <2>2. CASE SendSms(c)
    BY <2>2, <1>a, <1>b DEF SendSms, PostGoes, KeptInv, ghosts
  <2> QED
    BY <1>6, <2>1, <2>2
<1>7. ASSUME NEW c \in Calls, PostCallFails(c)
      PROVE  KeptInv'
  <2>1. /\ post' = [post EXCEPT ![c] = "failed"] /\ transcripts \subseteq transcripts'
        /\ c \in faulty' /\ recorded' = recorded
    BY <1>7 DEF PostCallFails, Fault, Stored
  <2> QED
    BY <2>1, <1>a, <1>b DEF KeptInv
<1> QED
  BY <1>1, <1>2, <1>3, <1>4, <1>5, <1>6, <1>7 DEF Next, PostCall, vars, postVars, ghosts

\* Once its processing has started, of a call that had its record when it ended, the
\* transcript is stored in the end but for a fault and for a summary that is no object
\* (server.py:1015-1040, post_call_service.py:46-82).
THEOREM TranscriptsAreKept == Spec => []TranscriptIsKept
<1>1. Init => KeptInv
  BY DEF Init, KeptInv
<1>2. RecordsType /\ KeptInv => TranscriptIsKept
  BY DEF RecordsType, PostType, PostSteps, KeptInv, TranscriptIsKept
<1> QED
  BY <1>1, <1>2, KeptStep, SeenInvariant, PTL DEF Spec

-----------------------------------------------------------------------------
BookingInv == \A c \in booking :
  /\ setup[c] \in {"closing", "ready", "failed"} /\ records[c] # "no row"
  /\ setup[c] # "failed" => llm[c] = "tools"
  /\ setup[c] = "failed" => c \in faulty

LEMMA BookingStep == RecordsType /\ SeenInv /\ BookingInv /\ [Next]_vars => BookingInv'
<1> SUFFICES ASSUME RecordsType, SeenInv, BookingInv, [Next]_vars
             PROVE  BookingInv'
  OBVIOUS
<1>a. /\ setup \in [Calls -> SetupType] /\ booking \subseteq Calls
      /\ llm \in [Calls -> {"nothing", "tools", "warning"}]
      /\ records \in [Calls -> {"no row", "started", "outcome"}]
  BY DEF RecordsType
<1>b. /\ \A c \in Calls : records[c] # "no row" => records'[c] # "no row"
      /\ faulty \subseteq faulty'
  BY StepMoves DEF Moves
<1>1. CASE UNCHANGED setupVars
  BY <1>1, <1>a, <1>b DEF BookingInv, setupVars
<1>2. ASSUME NEW c \in Calls, StreamStarts(c) \/ LookupCustomer(c) \/ InsertCustomer(c)
                              \/ UpcomingAppointment(c) \/ CloseSession(c)
      PROVE  BookingInv'
  BY <1>2, <1>a, <1>b DEF StreamStarts, LookupCustomer, InsertCustomer, UpcomingAppointment,
     CloseSession, SetupGoes, BookingInv
<1>3. ASSUME NEW c \in Calls, StartCall(c)
      PROVE  BookingInv'
  BY <1>3, <1>a, <1>b DEF StartCall, SetupGoes, BookingInv
<1>4. ASSUME NEW c \in Calls, InsertConflicts(c) \/ SetupFails(c)
      PROVE  BookingInv'
  <2>1. /\ setup' = [setup EXCEPT ![c] = "failed"] /\ llm' = [llm EXCEPT ![c] = "warning"]
        /\ booking' = booking
    BY <1>4 DEF InsertConflicts, SetupFails, Warn
  <2>2. c \in booking => c \in faulty'
    BY <1>4 DEF InsertConflicts, SetupFails, Fault, BookingInv
  <2> QED
    BY <2>1, <2>2, <1>a, <1>b DEF BookingInv
<1>5. ASSUME NEW c \in Calls, HangUp(c) \/ PostCall(c)
      PROVE  BookingInv'
  BY <1>1, <1>5 DEF HangUp, PostCall, FindCall, FindCustomer, FlushTranscript, GenerateSummary,
     CommitSummary, SendSms, PostCallFails
<1> QED
  BY <1>1, <1>2, <1>3, <1>4, <1>5 DEF Next, Setup, vars

\* Tools come with the record of the call, and a model that has them is told of them
\* unless the set-up met a fault after both (server.py:917, 940-972).
THEOREM ToolsMatchTheWarning == Spec => []WarnedHasNoTools
<1>1. Init => BookingInv
  BY DEF Init, BookingInv
<1>2. BookingInv => WarnedHasNoTools
  BY DEF BookingInv, WarnedHasNoTools
<1> QED
  BY <1>1, <1>2, BookingStep, SeenInvariant, PTL DEF Spec

-----------------------------------------------------------------------------
\* Processings of one number overlap only where the ghost says so, and what one
\* that is alone has read of a nameless customer is still so.
AloneInv ==
  /\ \A c \in Calls : \A d \in Calls \ {c} :
       Caller[c] = Caller[d] /\ post[c] \in InWindow /\ post[d] \in InWindow =>
         Caller[c] \in overlapped
  /\ \A c \in Calls :
       post[c] \in InWindow /\ seen[c] = "no name" /\ Caller[c] \notin overlapped =>
         customers[Caller[c]] = "no name"

\* Only the commit of a call that read no name changes a row that is there.
LEMMA RowChanges ==
  ASSUME RecordsType, SeenInv, [Next]_vars, NEW n \in Numbers,
         customers[n] # "no row", customers'[n] # customers[n]
  PROVE  \E c \in Calls : /\ n = Caller[c] /\ seen[c] = "no name" /\ post[c] = "commit"
                          /\ post'[c] \notin InWindow
<1>a. customers \in [Numbers -> CustomerType] /\ post \in [Calls -> PostType]
  BY DEF RecordsType
<1>1. CASE UNCHANGED customers
  BY <1>1
<1>2. ASSUME NEW c \in Calls, InsertCustomer(c) \/ SetupFails(c)
      PROVE  FALSE
  BY <1>2, <1>a DEF InsertCustomer, SetupFails
<1>3. ASSUME NEW c \in Calls, CommitSummary(c) \/ PostCallFails(c)
      PROVE  /\ n = Caller[c] /\ seen[c] = "no name" /\ post[c] = "commit"
             /\ post'[c] \notin InWindow
  <2>1. post[c] = "commit" /\ Stored(c)
    BY <1>1, <1>3 DEF CommitSummary, PostCallFails, PostGoes
  <2>2. post'[c] \notin InWindow
    BY <1>3, <1>a DEF CommitSummary, PostCallFails, PostGoes, InWindow
  <2> QED
    BY <2>1, <2>2, StoredMoves
<1>4. ASSUME NEW c \in Calls, StreamStarts(c) \/ LookupCustomer(c) \/ InsertConflicts(c)
        \/ UpcomingAppointment(c) \/ StartCall(c) \/ CloseSession(c) \/ HangUp(c) \/ FindCall(c)
        \/ FindCustomer(c) \/ FlushTranscript(c) \/ GenerateSummary(c) \/ SendSms(c)
      PROVE  UNCHANGED customers
  BY <1>4 DEF StreamStarts, LookupCustomer, InsertConflicts, UpcomingAppointment, StartCall,
     CloseSession, HangUp, FindCall, FindCustomer, FlushTranscript, GenerateSummary, SendSms
<1> QED
  BY <1>1, <1>2, <1>3, <1>4 DEF Next, Setup, PostCall, vars

LEMMA AloneStep == RecordsType /\ SeenInv /\ AloneInv /\ [Next]_vars => AloneInv'
<1> SUFFICES ASSUME RecordsType, SeenInv, AloneInv, [Next]_vars
             PROVE  AloneInv'
  OBVIOUS
<1>a. \A c \in Calls : Caller[c] \in Numbers
  BY RecordsAssumption DEF RecordsAssumption
<1>b. overlapped \subseteq overlapped'
  BY StepMoves DEF Moves
<1>c. /\ customers \in [Numbers -> CustomerType] /\ post \in [Calls -> PostType]
      /\ seen \in [Calls -> CustomerType]
  BY DEF RecordsType
<1>1. ASSUME NEW c \in Calls, NEW d \in Calls, FindCustomer(c), d # c, Caller[d] = Caller[c],
             post'[d] \in InWindow
      PROVE  Caller[c] \in overlapped'
  BY <1>1, <1>c DEF FindCustomer, PostGoes, InWindow
<1>2. ASSUME NEW c \in Calls, post'[c] \in InWindow, ~FindCustomer(c)
      PROVE  post[c] \in InWindow /\ seen'[c] = seen[c]
  BY <1>2, PostMoves
<1>3. ASSUME NEW c \in Calls, NEW d \in Calls, c # d, Caller[c] = Caller[d],
             post'[c] \in InWindow, post'[d] \in InWindow
      PROVE  Caller[c] \in overlapped'
  <2>1. CASE FindCustomer(c) \/ FindCustomer(d)
    BY <1>1, <1>3, <2>1
  <2>2. CASE ~FindCustomer(c) /\ ~FindCustomer(d)
    BY <1>2, <1>3, <2>2, <1>b DEF AloneInv
  <2> QED
    BY <2>1, <2>2
<1>4. ASSUME NEW c \in Calls, post'[c] \in InWindow, seen'[c] = "no name",
             Caller[c] \notin overlapped'
      PROVE  customers'[Caller[c]] = "no name"
  <2>1. CASE FindCustomer(c)
    BY <1>4, <1>c, <2>1 DEF FindCustomer
  <2>2. CASE ~FindCustomer(c)
    <3>1. post[c] \in InWindow /\ seen[c] = "no name"
      BY <1>2, <1>4, <2>2
    <3>2. customers[Caller[c]] = "no name" /\ Caller[c] \notin overlapped
      BY <3>1, <1>4, <1>b DEF AloneInv
    <3>3. ASSUME customers'[Caller[c]] # customers[Caller[c]]
          PROVE  FALSE
      <4>1. PICK d \in Calls : /\ Caller[c] = Caller[d] /\ post[d] = "commit"
                               /\ post'[d] \notin InWindow
        BY <3>2, <3>3, <1>a, RowChanges
      <4> QED
        BY <4>1, <3>1, <3>2, <1>4 DEF AloneInv, InWindow
    <3> QED
      BY <3>2, <3>3
  <2> QED
    BY <2>1, <2>2
<1> QED
  BY <1>3, <1>4 DEF AloneInv

\* A name once known is kept, unless two calls of the number are processed at the
\* same time (post_call_service.py:62-64).
THEOREM NamesAreKept == Spec => NameIsKept
<1>1. Init => AloneInv
  BY DEF Init, AloneInv, InWindow
<1>2. RecordsType /\ SeenInv /\ AloneInv /\ [Next]_vars =>
        [\A n \in Numbers \ overlapped : customers[n] \in Names => customers'[n] = customers[n]]_vars
  <2> SUFFICES ASSUME RecordsType, SeenInv, AloneInv, [Next]_vars, NEW n \in Numbers \ overlapped,
                      customers[n] \in Names, customers'[n] # customers[n]
               PROVE  FALSE
    OBVIOUS
  <2>1. customers[n] \notin {"no row", "no name"}
    BY RecordsAssumption DEF RecordsAssumption
  <2>2. PICK c \in Calls : n = Caller[c] /\ seen[c] = "no name" /\ post[c] = "commit"
    BY <2>1, RowChanges
  <2> QED
    BY <2>1, <2>2 DEF AloneInv, InWindow
<1> QED
  BY <1>1, <1>2, AloneStep, SeenInvariant, PTL DEF Spec, NameIsKept
=============================================================================
