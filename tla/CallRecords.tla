----------------------------- MODULE CallRecords -----------------------------
(***************************************************************************)
(* The records of the phone calls of one tenant: the set-up of a session   *)
(* (setup_session in src/server.py, with src/customer_service.py and       *)
(* src/call_service.py) and the processing after the call (_run_post_call  *)
(* in src/server.py and src/post_call_service.py).                         *)
(*                                                                         *)
(* Both run as background tasks, each with a database session of its own;  *)
(* neither waits for the other, nor do those of different calls.  Every    *)
(* database or network call is a suspension and may fail, a commit with or *)
(* without its effect.  Each step below runs up to the answer of one such  *)
(* call; refreshes after a commit are part of it.                          *)
(***************************************************************************)
EXTENDS Naturals, FiniteSets

CONSTANTS
  Calls,
  Numbers,   \* the callers' phone numbers
  Caller,    \* the number of each call
  Names,     \* that a summary may report
  MaxFaulty  \* bound: calls that meet a fault

ASSUME RecordsAssumption ==
  Caller \in [Calls -> Numbers] /\ MaxFaulty \in Nat
  /\ Names \cap {"no row", "no name"} = {}

VARIABLES
  customers,    \* per number: "no row", "no name" or the name of its row
  records,      \* per call: its row in calls: "no row", "started", "outcome"
  transcripts,  \* calls whose transcript is stored
  setup,        \* per call: what setup_session does next
  llm,          \* per call: what the model was told: "nothing", "tools", "warning"
  booking,      \* calls whose booking tools are configured
  post,         \* per call: what post-call processing does next
  seen,         \* per call: the customer as post-call processing read it
  summary,      \* per call: [name, booked] of its summary
  recorded,     \* ghost: calls that had their record when they ended
  faulty,       \* ghost: calls that met a fault
  overlapped    \* ghost: numbers with two post-call processings at a time

setupVars == <<setup, llm, booking>>
postVars  == <<post, seen, summary, transcripts>>
ghosts    == <<recorded, faulty, overlapped>>
vars      == <<customers, records, setupVars, postVars, ghosts>>

SetupSteps == {"lookup", "insert", "upcoming", "start_call", "closing"}
PostSteps  == {"find", "customer", "flush", "summary", "commit", "sms"}
NoSummary  == [name |-> "no name", booked |-> FALSE]

Init ==
  /\ customers \in [Numbers -> {"no row", "no name"} \cup Names]
  /\ records = [c \in Calls |-> "no row"]
  /\ transcripts = {}
  /\ setup = [c \in Calls |-> "idle"]
  /\ llm = [c \in Calls |-> "nothing"]
  /\ booking = {}
  /\ post = [c \in Calls |-> "idle"]
  /\ seen = [c \in Calls |-> "no row"]
  /\ summary = [c \in Calls |-> NoSummary]
  /\ recorded = {} /\ faulty = {} /\ overlapped = {}

SetupGoes(c, from, to) == /\ setup[c] = from
                          /\ setup' = [setup EXCEPT ![c] = to]
PostGoes(c, from, to)  == /\ post[c] = from
                          /\ post' = [post EXCEPT ![c] = to]

-----------------------------------------------------------------------------
\* The stream starts with both numbers, and the called one is the tenant's.
StreamStarts(c) ==
  /\ SetupGoes(c, "idle", "lookup")
  /\ UNCHANGED <<customers, records, llm, booking, postVars, ghosts>>

\* Slip: a customer that is there is inserted again.
LookupCustomerInserts(c) ==
  /\ SetupGoes(c, "lookup", "insert")
  /\ UNCHANGED <<customers, records, llm, booking, postVars, ghosts>>

\* get_or_create: the select.
LookupCustomer(c) ==
  /\ SetupGoes(c, "lookup", IF customers[Caller[c]] = "no row" THEN "insert" ELSE "upcoming")
  /\ UNCHANGED <<customers, records, llm, booking, postVars, ghosts>>

\* get_or_create: the insert, if the number still has no row.
InsertCustomer(c) ==
  /\ customers[Caller[c]] = "no row"
  /\ SetupGoes(c, "insert", "upcoming")
  /\ customers' = [customers EXCEPT ![Caller[c]] = "no name"]
  /\ UNCHANGED <<records, llm, booking, postVars, ghosts>>

\* Slip: the failure is logged and the model is told nothing.
WarnNot(c) == /\ setup' = [setup EXCEPT ![c] = "failed"]
              /\ UNCHANGED <<llm, booking>>

\* The handler of setup_session: the model is told not to book.
Warn(c) == /\ setup' = [setup EXCEPT ![c] = "failed"]
           /\ llm' = [llm EXCEPT ![c] = "warning"]
           /\ UNCHANGED booking

\* The unique constraint on tenant and number.
InsertConflicts(c) ==
  /\ setup[c] = "insert" /\ customers[Caller[c]] # "no row"
  /\ Warn(c)
  /\ UNCHANGED <<customers, records, postVars, ghosts>>

\* Slip: the tools are configured before the call is recorded.
UpcomingAppointmentConfigures(c) ==
  /\ SetupGoes(c, "upcoming", "start_call")
  /\ booking' = booking \cup {c}
  /\ UNCHANGED <<customers, records, llm, postVars, ghosts>>

\* get_upcoming_appointment; then the model gets the customer's context.
UpcomingAppointment(c) ==
  /\ SetupGoes(c, "upcoming", "start_call")
  /\ UNCHANGED <<customers, records, llm, booking, postVars, ghosts>>

\* start_call; then the booking tools are configured without a suspension, and the
\* session of the set-up remains to be closed.
StartCall(c) ==
  /\ SetupGoes(c, "start_call", "closing")
  /\ records' = [records EXCEPT ![c] = "started"]
  /\ booking' = booking \cup {c}
  /\ llm' = [llm EXCEPT ![c] = "tools"]
  /\ UNCHANGED <<customers, postVars, ghosts>>

CloseSession(c) ==
  /\ SetupGoes(c, "closing", "ready")
  /\ UNCHANGED <<customers, records, llm, booking, postVars, ghosts>>

Fault(c) == /\ Cardinality(faulty \cup {c}) <= MaxFaulty
            /\ faulty' = faulty \cup {c}
            /\ UNCHANGED <<recorded, overlapped>>

SetupFails(c) ==
  /\ setup[c] \in SetupSteps /\ Fault(c)
  /\ Warn(c)
  /\ customers' \in {customers} \cup
       {[customers EXCEPT ![n] = "no name"] :
          n \in {m \in {Caller[c]} : setup[c] = "insert" /\ customers[m] = "no row"}}
  /\ records' \in {records} \cup
       {[records EXCEPT ![d] = "started"] : d \in {e \in {c} : setup[c] = "start_call"}}
  /\ UNCHANGED postVars

Setup(c) ==
  \/ LookupCustomer(c) \/ InsertCustomer(c) \/ InsertConflicts(c)
  \/ UpcomingAppointment(c) \/ StartCall(c) \/ CloseSession(c) \/ SetupFails(c)
-----------------------------------------------------------------------------
\* The call ends, at any moment of its set-up.  With nothing said there is no
\* processing; it is skipped too if the clean-up before it raises the exception that
\* ended the worker, or a close, or waits for an event task that has swallowed its
\* cancellation.
HangUp(c) ==
  /\ setup[c] # "idle"
  /\ \E next \in {"find", "nothing", "skipped"} : PostGoes(c, "idle", next)
  /\ recorded' = IF records[c] = "no row" THEN recorded ELSE recorded \cup {c}
  /\ UNCHANGED <<customers, records, setupVars, seen, summary, transcripts, faulty,
                 overlapped>>

\* _run_post_call gives up on a call that has no record yet.
FindCall(c) ==
  /\ PostGoes(c, "find", IF records[c] = "no row" THEN "dropped" ELSE "customer")
  /\ UNCHANGED <<customers, records, setupVars, seen, summary, transcripts, ghosts>>

\* The customer is read here; its name is tested only after the summary.
FindCustomer(c) ==
  /\ PostGoes(c, "customer", "flush")
  /\ seen' = [seen EXCEPT ![c] = customers[Caller[c]]]
  /\ overlapped' =
       IF \E d \in Calls \ {c} : Caller[d] = Caller[c] /\ post[d] \in {"flush", "summary", "commit"}
       THEN overlapped \cup {Caller[c]} ELSE overlapped
  /\ UNCHANGED <<customers, records, setupVars, summary, transcripts, recorded, faulty>>

\* process: the transcript is inserted, not yet committed.
FlushTranscript(c) ==
  /\ PostGoes(c, "flush", "summary")
  /\ UNCHANGED <<customers, records, setupVars, seen, summary, transcripts, ghosts>>

\* Slip: an answer that is no JSON ends the processing.
GenerateSummaryStrict(c) ==
  /\ \/ PostGoes(c, "summary", "failed") /\ UNCHANGED summary
     \/ /\ PostGoes(c, "summary", "commit")
        /\ summary' = [summary EXCEPT ![c] = [name |-> "no name", booked |-> TRUE]]
  /\ UNCHANGED <<customers, records, setupVars, seen, transcripts, ghosts>>

\* _generate_summary; an answer that is no JSON counts as one without details, but
\* one that is JSON and no object has no get: process raises and rolls back.
GenerateSummary(c) ==
  /\ \/ PostGoes(c, "summary", "no object") /\ UNCHANGED summary
     \/ /\ PostGoes(c, "summary", "commit")
        /\ \E name \in Names \cup {"no name"}, booked \in BOOLEAN :
             summary' = [summary EXCEPT ![c] = [name |-> name, booked |-> booked]]
  /\ UNCHANGED <<customers, records, setupVars, seen, transcripts, ghosts>>

\* Slip: a name that is known already is not looked at.
LearnedNameAny(c) == summary[c].name # "no name"

\* The customer is still without a name, as far as this session knows.
LearnedName(c) == summary[c].name # "no name" /\ seen[c] = "no name"

Stored(c) ==
  /\ transcripts' = transcripts \cup {c}
  /\ records' = [records EXCEPT ![c] = "outcome"]
  /\ customers' = IF LearnedName(c) THEN [customers EXCEPT ![Caller[c]] = summary[c].name]
                                    ELSE customers

\* The commit of transcript, outcome and name.
CommitSummary(c) ==
  /\ PostGoes(c, "commit", IF summary[c].booked THEN "sms" ELSE "saved")
  /\ Stored(c)
  /\ UNCHANGED <<setupVars, seen, summary, ghosts>>

\* The customer of a call that booked is told, or Twilio refuses the message.
SendSms(c) ==
  /\ PostGoes(c, "sms", "saved")
  /\ UNCHANGED <<customers, records, setupVars, seen, summary, transcripts, ghosts>>

\* Any of these fails; what was not committed is rolled back.
PostCallFails(c) ==
  /\ post[c] \in PostSteps /\ Fault(c)
  /\ post' = [post EXCEPT ![c] = "failed"]
  /\ \/ UNCHANGED <<customers, records, transcripts>>
     \/ post[c] = "commit" /\ Stored(c)
  /\ UNCHANGED <<setupVars, seen, summary>>

PostCall(c) ==
  \/ FindCall(c) \/ FindCustomer(c) \/ FlushTranscript(c) \/ GenerateSummary(c)
  \/ CommitSummary(c) \/ SendSms(c) \/ PostCallFails(c)

Next == \E c \in Calls : StreamStarts(c) \/ Setup(c) \/ HangUp(c) \/ PostCall(c)

Spec == Init /\ [][Next]_vars

\* A call of the database or the network comes to an end, with success or not.
FairSpec == Spec /\ \A c \in Calls : WF_vars(Setup(c)) /\ WF_vars(PostCall(c))

-----------------------------------------------------------------------------
\* Once the processing of a call has started, of a call that had its record when it
\* ended, the transcript is stored in the end, whatever the set-up and other calls
\* still do, but for a fault and for a summary that is no object
\* (server.py:1015-1040, post_call_service.py:46-82).
TranscriptIsKept ==
  \A c \in recorded \ faulty :
    post[c] \notin PostSteps \cup {"nothing", "skipped", "no object"} => c \in transcripts

\* Of the calls that a new number makes at once, the set-up fails only for those
\* that lose to another one: that one got through, or met a fault of its own
\* (customer_service.py:24-37).
LostRaceHasWinner ==
  \A c \in {e \in Calls \ faulty : setup[e] = "failed"} :
    \E d \in Calls \ {c} : /\ Caller[d] = Caller[c]
                           /\ d \in faulty \/ setup[d] \in {"upcoming", "start_call", "closing", "ready"}

\* Tools come with the record of the call, and a model that has them is told of them;
\* only if the set-up meets a fault after both is it warned not to use what it has
\* (server.py:917, 940-972).
WarnedHasNoTools ==
  \A c \in booking : /\ records[c] # "no row"
                     /\ llm[c] = "tools" \/ (setup[c] = "failed" /\ c \in faulty)

\* A name once known is kept, unless two calls of the number are processed at the
\* same time (post_call_service.py:62-64).
NameIsKept ==
  [][\A n \in Numbers \ overlapped :
        customers[n] \in Names => customers'[n] = customers[n]]_vars

\* A caller is never left with the greeting: the set-up ends with the tools or with
\* the warning, each followed by a question (server.py:959-974).
SetupSpeaks == \A c \in Calls : setup[c] = "lookup" ~> llm[c] # "nothing"
=============================================================================
