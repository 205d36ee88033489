# A TLA+ verification of VoiceBuddy

VoiceBuddy answers calls with a voice bot: speech goes to Deepgram, the
transcript to two LLM calls (a fast filler, Haiku, and the full answer, Sonnet),
the answer through Cartesia back to the caller.  In the browser a Silero VAD
beside Deepgram confirms that a caller talks over the bot (a barge-in); on the
phone the bot also books appointments and keeps records.  This directory holds
TLA+ modules translated from the code in `src/`, TLC configurations that check
them, and theorems proved with TLAPS.  Paths below are relative to the repository.

## 1. Inventory

| Component | State | Operations | Hard behaviour | What makes it correct |
|---|---|---|---|---|
| State machine (`src/state_machine.py`) | `current_state`, `turn_id` | `handle(event)`, reset | a pair outside the table raises; handlers swallow the error half way | the callers never depend on a rejected event |
| Browser pipeline (`src/server.py` 94-642) | two queues, VAD flags, LLM task, cancel flags, silence timer | eight event handlers, TTS worker, silence policy, barge-in, clean-up | four tasks on shared state, awaits inside a barge-in, stale replies, disconnect in every state | cancelled speech is not heard, a reply ends, the user gets the floor, the call is cleaned up |
| Browser page (`src/static/index.html`) | `playbackEnabled`, audio still playing | frames, `tts_start`, `stop_playback` | plays behind the server | audio of the current turn is heard, cancelled audio is not |
| Twilio pipeline (`src/server.py` 645-1024) | as above, stream id, booking session | no VAD, no silence policy; session set-up in the background; marks | worker ended by a failed send; set-up races the first turn and the hang-up | as above, with a clean-up that may be cut short |
| LLM orchestrator (`src/llm_orchestrator.py`) | history, partial text | `process_turn`, tool loop, `mark_interrupted` | cancelled between a tool call and its result | the history stays one Sonnet can be asked to continue |
| VAD (`src/vad_detector.py`) | buffer, `_is_speaking`, two run lengths | `feed`, `reset` | reset while its events wait in a queue | the flag of the call follows the detector |
| Deepgram client (`src/deepgram_client.py`) | frame buffer, turn index, transcript | `send_audio`, `flush_audio`, `_on_message` | a send that fails half way | every byte goes out once; words belong to their turn |
| TTS client | context id | synthesize, cancel | cancel during a stream | at most one stream at a time |
| Booking (`src/booking_service.py`) | appointments, a session per call | book, cancel, reschedule | calendar and database written one after the other; a barge-in or a fault in between; two calls on one calendar | what is reported done is done, and nothing else is left behind |
| Calendar (`src/calendar_service.py`) | Google's events | free slots, create, delete | boundaries of busy periods and buffers; a display without minutes | what is offered can be booked, and no free time is held back |
| Customers, calls, post-call (`src/customer_service.py`, `src/call_service.py`, `src/post_call_service.py`) | customers, calls, transcripts | `get_or_create`, `start_call`, `process` | two first calls of one number; set-up races the post-call | one customer per number; a recorded call keeps its transcript |
| Circuit breaker (`src/circuit_breaker.py`) | state, deque of stamps, `_opened_at` | record failure / success, read, reset, snapshot | clock read outside the lock; windows of different length | trips on recent failures, reopens, recovers after quiet |
| Handoff | none | business hours, Twilio transfer | failed transfer | the caller is told what happened |
| Sentence splitter | buffer | feed, flush, discard | nothing feeds it at present | no text lost or spoken twice |
| HTTP server, audio bridge, tenant config, prompts, logs, audio tools | constant after start-up, or output only | | | |

The parts meet in the call pipelines.  Deepgram, the VAD and the LLM calls push
events into `event_queue` and touch nothing else; `process_events` takes one at
a time, drives the state machine and puts text into `tts_queue`; `tts_worker`
speaks it and reports the first byte and the end of a turn as events; the
silence policy reads the state and puts text into `tts_queue` too.  Booking runs
inside an LLM task; records are written at set-up and after a call, by background
tasks of their own.

`PROJECT.json` lists every component with its status, and under `hazards` what is
hard to test in this code, at its line.

## 2. Modules

| Module | Models | Run as |
|---|---|---|
| **StateMachine** | the transition table as a set of triples, `Handle`, `TryHandle` ("handle, and an `except` that swallows the ValueError"), `Reset`; each call extends it, owning one | - |
| **BrowserCall** | one browser call | itself |
| **TwilioCall** | one phone call | itself |
| **AudioInput** | the caller's audio and words on their way in: VAD, Deepgram client, receiving loop, and as much of the event processor as moves the speech flag | itself |
| **LLMOrchestrator** | the conversation history of one phone call | itself |
| **CalendarService** | `list_available_slots` as a recursive function, and `Bookable`, what it should compute | BookingService |
| **BookingService** | the tools of several phone calls on one calendar and one table | MCBookingService |
| **AppointmentBook** | abstract: what the tools promise | property `KeepsTheBook` |
| **CallRecords** | set-up and post-call processing of several calls | MCCallRecords |
| **CircuitBreaker** | one breaker and its callers | itself |
| **BrowserCallProofs**, **TwilioCallProofs**, **AudioInputProofs**, **LLMOrchestratorProofs**, **CalendarServiceProofs**, **BookingServiceProofs**, **CallRecordsProofs**, **CircuitBreakerProofs** | theorems, each module about the one it is named for | - |

How they fit together: what a call module takes as given of a neighbour is what the
neighbour's module shows.  BrowserCall and TwilioCall let an LLM call settle with or
without a reply (LLMOrchestrator, `TurnEnds`), let Deepgram alternate starts and ends
of turns with the transcript of that turn (AudioInput, `WordsOfTheirTurn`), and let the
VAD push starts and ends (AudioInput).  LLMOrchestrator and BookingService take one turn at a
time of a phone call, cut off only by a barge-in; TwilioCall is where a second one could come
from, and `AnswersAreAccountedFor` bounds the answers under way by the one that is waited for and
the replies that were let through.  TwilioCall treats the set-up as "speaks once or twice"; CallRecords is
its inside, and that of the post-call task TwilioCall's clean-up starts, or skips.

### How the call modules correspond to the code

asyncio runs a task until it awaits something that is not ready.  An action is
therefore what the code does between two awaits that matter:

* `cancel_pipeline` has up to three parts: `BargeIn`, which ends at `await llm_task`
  if one is running; `DrainSpeech`, which ends at Cartesia's `cancel` if a synthesis
  is under way; `StopPlayback` (browser) or `SendClear` (phone), the message and the rest of
  the caller.  `pc` says where it awaits.  A part whose await returns at once goes on
  into the next in the same action.
* A handler whose `handle` raises stops where it raises: what it did before stays
  done (a full reply is queued *before* `LLM_FULL_READY` is handled, a filler *after*).
* `haiku` and `sonnet` are the LLM tasks whose calls are still running; `llm_task` is
  the only one the handler can cancel.
* `worker = "requested"` is the wait for the first chunk.  A cancelled item is noticed
  at its next chunk, as in the code.
* The end of a call.  `socket` is the connection, `loop` the main loop with its `finally`:
  `reading`, `draining` (waiting up to 5 s for the worker), `joining` (waiting for an event task
  that swallowed its cancellation), in the browser `closing` (the services), then `closed`, or
  `aborted` where `finally` itself raised: a service did not close or, on the phone, the worker had
  died of a failed mark.  The browser's main loop ends when the socket is gone *or* when
  `dg.send_audio` or the answer to a ping raises (`MainLoopEnds`).  The socket is then still open,
  and until it has stopped the event task goes on as before: an end of turn that waits is sent, asks
  the LLM and starts the silence timer that `finally` has just cancelled.  The timer may outlive
  the call, and the socket is closed when the handler returns.

Abstractions.  Sends to an open socket neither suspend nor fail, and a message
reaches the page when it is sent; what the page still has to play is not kept.  A send
fails when the socket is down, and what it ends is modelled (`GetTurnEnd`, `FirstChunk`,
`SendClear`).  The 200 ms windows are `GraceEnds`.  Texts, latency markers, logs and
`turn_context_id` are left out; the sentences of a reply count as one item.
`llm_full_token` is never emitted, so the splitter stays empty.  `task`, `own` and `cut` of an
event or an item, and `extra` of TwilioCall, are there for the properties: the code keeps none
of them and no action reads them to decide anything.

### The others

* **LLMOrchestrator** keeps the kind of each message.  A turn is `"calling"` or `"tool"`, the
  two awaits at which a barge-in may cancel it.  `_current_partial_text` is never set in the
  code, so `mark_interrupted` has no partial answer.  A response cut off by `max_tokens`
  after it asked for tools ends the turn with its text.
* **BookingService**: Google is called synchronously, so the calendar steps of a request are
  one action with every outcome (done, failed with and without effect; a failed deletion is only
  returned, and ignored); the commit is another.  `session = "broken"` is SQLAlchemy's session
  after a failed or cancelled flush: nothing in the code rolls it back.  `n` of an id is the
  request that made it; the ids Claude may name are those of its own call's requests, which
  over-approximates those it was told.  Names, services and wording are left out.
* **CalendarService**: `AvailableSlots` are the starts the two loops find, `Offers` what
  `check_availability` makes of them, their `Display`: the hour, without the minutes
  (`Hour` is how many units an hour has).  It only reads, so both are checked against the
  calendar in every reachable state of BookingService.
* **CallRecords**: every database or network call is a step that may fail, a commit with or
  without its effect.  A call ends with something said, with nothing said, or with a clean-up that
  does not get as far as post-call processing (`HangUp`: `"find"`, `"nothing"`, `"skipped"`).  A
  summary may have details, none, or be no object, which makes `process` raise.  `closing` is the exit of `async with async_session()`: the tools are
  configured already, and if it raises the `except` warns the model all the same.
* **AudioInput**: a transcript may come at any time; outside a turn its words are those of the
  next one.  It counts audio in units of 128 bytes, in which all sizes of the code are whole.
* In **CircuitBreaker** time is whole units of the two timeouts.

## 3. What is checked

Deadlock is not checked: a call ends, and within the bounds the user falls silent.

| Run | Bounds | Question |
|---|---|---|
| `BrowserCall` | 2 confirmed turns, 1 VAD start, backlog 1; the socket may go, and the main loop end, between any two steps; fairness | types; no speech from before a barge-in is spoken after it; a speaking bot has its end coming, and BOT_SPEAKING ends; the end of an answer is reported after its words; no silence timer while the user speaks; nothing is queued after the clean-up; a barge-in completes |
| `TwilioCall` | 2 turns, backlog 2, the socket may go at any step, fairness | types; the words of a cut reply are not spoken; every answer under way is accounted for; BOT_SPEAKING has its end coming and ends |
| `AudioInput` | the code's sizes, 32 chunks, 2 turns, 2 waiting events | audio is sent once; the speech flag follows the detector; words of their turn |
| `LLMOrchestrator` | 3 turns, the 5 rounds of the code, 2 tools per response, fairness | a request ends with the user; results follow their use; only a barge-in loses results; a turn ends |
| `BookingService` | a call with 3 requests and one with 1, 7 time units, 4 days of the business's own | done means done; appointments are held; strays are bounded; an hour that is offered holds a start that can be booked; nothing free is hidden; the tools implement AppointmentBook |
| `CallRecords` | 2 calls of one number, one of them with faults, 2 names, fairness | a transcript whose processing starts is kept; who loses a race lost it to somebody; tools come with the record and the model is told; names are kept; the set-up speaks |
| `CircuitBreaker_callers` | 2 callers, 6 time units | a CLOSED breaker is under its threshold; no recent failure is forgotten; stamps in order trip it only inside the window |

The bounds.  `MaxTurns` and `MaxVad` cap the signals of one call, `MaxBacklog` how many
events may wait when the user's next one arrives (the program's own events are never
refused); the code's queue has no such limit.  `FalseTurns` lets Deepgram report turns that the VAD
does not confirm, `Breaks` lets the call end before its time.  Two turns are what every hazard of
the pipelines needs: one to be interrupted, one to be hurt by it; one VAD start confirms any
number of turns while it lasts.  No safety property hangs on these bounds: each one of both
call modules is a theorem for all their values (section 5), false turns and any backlog included.
They keep the runs short, which also check liveness.  With `MaxBacklog = 1` the
user's next event waits for the last one to be taken, also in the middle of a barge-in; what needs
more, an end of turn behind its own start, is in the run of TwilioCall.  With
`FalseTurns = TRUE` the browser call has 9,013,442 states, and TLC finds its safety properties
to hold in them.  `MaxWords` is 1 in the run: a set-up that speaks twice (its session
fails to close) is covered by the theorems of TwilioCallProofs, which hold for every `MaxWords`.
In AudioInput 32 chunks are 20 windows: enough for a speech start (4), its end (10) and another
start, across two barge-ins.  In BookingService a call books, reschedules or cancels, and tries again while another call books
beside it; the days cover a period at the edge of a slot, overlapping ones, and a gap exactly
as long as a slot, and `Hour = 2` puts half of all starts between two full hours.  One faulty
call beside a sound one is what `LostRaceHasWinner` and `NameIsKept` distinguish.  `MaxTime` in the
breaker exceeds window plus reset timeout, so that every prune and every recovery happens;
`MaxFailures` is one above the threshold.

### Refinement

`KeepsTheBook` is `Book!Spec`, where `Book` is AppointmentBook with the table's rows for the
book and "idle" or not for what a call was told.  Each commit is the one step that takes effect,
told done or not; everything else, the calendar included, is a stutter, a request or a refusal.
So a request takes effect at most once, is reported done only with its effect, and a
cancelled appointment stays cancelled, whatever fails and whichever calls run beside it.  The
invariants `DoneMeansDone` and `AppointmentsAreHeld` tie the calendar to that book, with the
exceptions they name.

### Disagreements between code and documents

Each is a run whose one property TLC violates; `PROJECT.json` quotes the lines.

| Run | The code | The text |
|---|---|---|
| `BrowserCall_overlap` | the end of a turn that Deepgram reports during a reply, and that the VAD does not confirm, asks the LLM a second time while the first call runs, out of reach of the barge-in | `src/state_machine.py:84` "Deepgram false speech events during non-listening states — absorb silently" |
| `BrowserCall_muted` | a barge-in between two items of a turn leaves the worker thinking the turn has begun: no `tts_start`, the page drops the next reply | `src/static/index.html:161` "re-enabled by tts_start before each new turn" |
| `BrowserCall_prompt` | the spoken prompt cancels the timer that spoke it | `docs/phase7_summary.md:50` |
| `BrowserCall_hang` | a barge-in swallows the cancellation of its own task; clean-up waits for ever | `server.py:621` |
| `CircuitBreaker_half_open` | a failed probe does not reopen when the window is shorter than the reset timeout (the default) | `test/test_circuit_breaker.py:57` |

### Fairness

Weak fairness of what asyncio runs: `process_events`, the worker, the silence policy, the clean-up
of a call, the steps of a set-up and of a post-call task.  asyncio resumes every ready task, and a
sleep ends; that an LLM, TTS or database request settles, with an answer or an error, is an
assumption about the services.  The receiving loop ends when the socket is down.
Nothing is assumed of the user, the VAD, Deepgram, the 200 ms windows, the start of
calls or the hang-up, nor that anything fails.  An LLM call may settle without a reply, so "every
question is answered" is not a property.

### Mutants

Each property of a passing run has a mutant: an operator whose comment begins with "Slip:",
above the definition it stands in for, with which TLC finds the property violated.

## 4. What the models show beside the properties

Behaviours of the code that a property excepts by name, or that no line of the repository
speaks of:

* In the browser an end of turn accepted in PROCESSING, FILLER_RESPONSE or BOT_SPEAKING starts a
  second LLM task, and the first is out of reach of the barge-in (`server.py:445`, run
  `BrowserCall_overlap`); and the next question clears `llm_cancelled` while a reply of the turn
  before may still arrive (`server.py:444`).  What remains true then, and is proved, is that the end
  of an answer is reported after the last of its own words (`EndFollowsItsWords`); it may well be
  reported during another answer's.
* On the phone, when a start and an end of turn wait together and the reply they interrupt waits
  behind them, the barge-in sets `llm_cancelled` and the end of turn, the next event, clears it
  (`server.py:793`): the interrupted reply is then accepted as if it answered the new question.
  `docs/VoiceBuddy_POC_Build_Plan_0202.md:253` calls stale replies after a barge-in fixed (BF-1) and
  describes the flag, in the browser's pipeline, with its "reset for the fresh turn".
  `AnswersAreAccountedFor` counts these replies (`extra`) and shows that there are no others.
* A browser call whose audio Deepgram refuses is cleaned up with its socket open: an end of turn
  that is handled meanwhile starts the silence timer again, after `finally` has cancelled it
  (`server.py:614-619`).  The timer may outlive the handler.  What keeps it from queueing its prompts
  then is that the state machine is reset; where closing a service raises (`aborted`) the reset is
  skipped, and so is what `QuietAfterCleanUp` says.
* The pending barge-in of the browser that is never confirmed is forgotten with its turn, and
  after a handoff no playback event leaves FILLER_RESPONSE.
* A barge-in during a tool call leaves a `tool_use` without its `tool_result` in the history, and
  every later request of the call carries it (`llm_orchestrator.py:152`); `OnlyBargeInsBreak` says
  that nothing else does.
* `check_availability` returns the displays of its slots, whose minutes `_format_slot` drops
  (`calendar_service.py:190`, `booking_service.py:99`): a slot at 9:15 is offered as 9am, and several
  slots of an hour as the same hour.  That 9:00 itself can be booked is therefore not a property;
  `OfferedSlotsAreBookable` says that some start within the hour can.
* A deletion that Google refuses is logged and ignored (`calendar_service.py:183`): the caller is
  told that the appointment has been cancelled, and its event stays (`DoneMeansDone` excepts it,
  `OneStrayPerBlemish` counts it).
* A commit that fails or is cut off breaks the session for the rest of the call; a booking then
  still creates its event, one stray per attempt (`OneStrayPerBlemish`).
* Booking does not look at the calendar again: two calls may hold one time.
* The end sentinel of the greeting or the set-up may be taken for that of a reply, which ends early
  for the state machine; talking over it is then no barge-in (`server.py:963`).
* A phone call has no silence policy: when Sonnet fails or the transcript is empty it stays in
  PROCESSING until the caller speaks.
* A set-up still running at the hang-up opens its booking session after the clean-up looked for it.
* A barge-in whose `vad.reset()` overtakes a queued speech start leaves `vad_speech_active` set until
  the next speech end (`overtaken` in AudioInput): Deepgram alone then confirms a barge-in, of which
  `docs/phase7_summary.md:16` says "VAD alone (noise) or Deepgram alone (echo/artifact) won't trigger
  it".
* Post-call processing of two calls of one number may overwrite the customer's name
  (`overlapped`), and a call whose set-up has not recorded it yet is not processed (`recorded`).
* Post-call processing is skipped, and the transcript lost, when the clean-up before it raises what
  ended the worker or a close, or waits for ever for its event task (`server.py:995-1008`).  A
  summary that is JSON but no object raises at `post_call_service.py:59` and rolls the transcript
  back.  `TranscriptIsKept` excepts these by name (`"skipped"`, `"no object"`).

## 5. What is proved

For every value of the constants that satisfies the named assumptions of the modules.

* `TypeCorrect` (BrowserCall).  The Boolean variables and the others are separate lemmas.
* `CutSpeechStaysCut`.  "The worker never speaks an item from before the last barge-in
  unless it is cancelled" is not inductive: the danger is the window between the drain and
  `stop_playback`.  `CutInv` adds that an awaiting barge-in is in BARGE_IN_DETECTED, a state in
  which no handler runs and the silence policy queues nothing; that while it awaits Cartesia no
  speech is queued and the synthesis is cancelled; and that queued speech is current.
* `BotSpeakingHasAnEnd`.  BOT_SPEAKING is entered in the action that queues the sentinel; the
  worker turns the sentinel into the event, and only the barge-in, which leaves the state,
  empties the queue.
* `TimerStopsForTheUser`.  Every entry into USER_SPEAKING stops the timer, and only an end of turn,
  which leaves it, starts it.
* `CleanedUpCallIsQuiet`.  After the clean-up the worker and the event task have stopped and the
  machine is IDLE for good (`EndInv`), where a timer that still runs finds nobody waiting.
* `AnswersEndAfterTheirWords` (BrowserCall).  Nothing in the state says which answer a playback event
  belongs to, so `AnswerInv` carries the tasks along: each Sonnet call settles once, so the replies
  that wait are of different tasks, none still running (`OneFull`); until its reply is handled
  nothing of a task is queued or reported; in the queue its sentinel is behind its words (`EndLast`);
  and once it is reported no word of it is queued or spoken.  No assumption on the
  user is needed.
* `ClosedIsHealthy` (CircuitBreaker).  From `PruneShortens`: pruning never lengthens the deque.
* `RecentIsKept`, `RecentTrips` (CircuitBreaker).  What `_prune` drops is the longest stale head of
  the deque.  `StaleHead` gets its length from the cardinality of the set of stale positions,
  without induction: every position of the head is stale with all those before it, and the stamp
  behind is recent.  So pruning keeps every recent stamp, in whatever order late stamps came
  (`PruneKeeps`), and what it leaves in order lies inside one window.  `StampsPast` says that a
  stamp waiting for the lock was read from the clock.
* `CutReplyStaysCut`, `BotSpeakingHasAnEnd` (TwilioCall), along the lines of the browser's.  What is
  new is the set-up, which talks whenever it likes: `CutInv` therefore speaks of replies only
  (while a barge-in awaits Cartesia none waits and the one being spoken is cancelled), and the end
  sentinel of a reply is kept whatever is queued before or behind it.
* `EveryAnswerIsAccountedFor` (TwilioCall) counts.  `AccountInv` says that while a reply is due the
  answers other than that of `llm_task` are at most `extra`, and otherwise all of them are.  It rests
  on the order of the turn signals that wait (`TurnOrder`: they alternate, and an end of turn meets a
  caller who has the floor or waits behind its own start), which is why no turn asks twice, and on each
  task having one reply (`CallsOnce`).  A barge-in takes the running call and, through
  `llm_cancelled`, every reply that waits; the end of turn that clears the flag lets those through
  and is charged for them.  Cardinalities of unions and of sets less one element come from
  FiniteSetTheorems.
* AudioInput.  `EveryUnitIsAccounted` counts units through the chunk, the frame under way and the
  buffer.  `SpeechSetsTheFlag` and `FlagFollowsTheSpeech` are about the *last* speech event that
  waits (`SpeechInv`, `FlagInv`): it carries the flag to where the detector is, except when a
  reset has overtaken a start.  `WordsStayInTheirTurn` adds which turn the client is in and that no
  end of an open turn waits (`WordsInv`).
* LLMOrchestrator.  `HistoryInv` adds to the three properties what the history ends with while tool
  calls run: the response that asked for them.
* BookingService.  `BookInv` is a conjunction over calls, and a step of one call leaves another's
  part alone (`Others`), so the faults of one call never reach another's appointments.
  `OwnRows`: rows belong to requests of their own call and no two share an event; `OwnRequest`: who
  commits a booking holds its event, who commits a change has found its row confirmed; `OwnAnswer`
  is `DoneMeansDone`, in which the event of a cancelled appointment is gone or the request met a
  fault; `OwnHeld`: a confirmed appointment is held, hurt by a later request, or about
  to be written.  `Kinds` sorts the steps into asking, writing no row and writing one, and
  `ToolsKeepTheBook` maps each kind to a step of AppointmentBook or a stutter.
* `StraysAreBounded` (BookingService) counts.  Comparing the two cardinalities is not inductive, since
  a stray need not be of the request that is to blame for it.  `StrayInv` says that what the
  calendar is owed (`Owed`: the strays, and an id for each cancellation that waits for its commit) is
  never more than what can be charged (`Charged`: blemished requests and those in progress),
  and `Fresh` what a request in progress has, or no longer has, in the calendar.  A step that adds to
  the one adds to the other (`KeepsCount`); one that takes from `Charged` takes from `Owed`.
* CalendarService.  `AvailableSlots` is a recursive function over states of two nested loops, and
  neither its existence nor an induction over it can be had from the library here.  `LeastNat` is
  the least-number principle for a set; from it come the first busy period (`FirstOfBusy`) and
  `LoopInduction`: a set of loop states that holds a state when it holds the next one holds them
  all, because `Left`, the periods to do and the time to the end of the day, decreases
  (`LoopEnds`).  `SlotsExist` takes the least collection closed under the loop's equations,
  which exists because they are monotone, as the function.  Then `Sound` and `Complete` are
  shown of every loop state, the latter being what the start of the loop leaves free.
  `OffersAreBookable` and `NothingIsHidden` apply this to the calendars the tools can produce
  (`BusyPeriods`); an offered hour is the display of a start that was found.
* CallRecords.  `Moves` is what one step may do to a set-up, to the rows and to the faults: rows are
  never deleted, which is what makes a reading of another call keep its meaning (`SeenInv`).  On it
  rest `LoserHasWinner` (`RaceInv`: who inserts when a row is there already lost it to a call ahead
  of it), `TranscriptsAreKept` (`KeptInv`), `ToolsMatchTheWarning` (`BookingInv`) and `NamesAreKept`
  (`AloneInv`: a processing that is alone in its window still sees what it read).

Every safety invariant, action property and the refinement that a passing run checks is the
statement of a theorem.  Model-checked only: the liveness properties (`BotSpeakingEnds` of both calls,
`BargeInCompletes`, `TurnEnds`, `SetupSpeaks`), since the prover has neither
fairness nor ENABLED, and the five disagreements of section 3, which TLC refutes.

## 6. Plan

1. **TurnTaking**, the abstract call (who has the floor, what is owed), with BrowserCall and
   TwilioCall shown to implement it under a refinement mapping and, with the invariants above,
   proved to.
2. Business hours of the handoff and, last, the sentence splitter.

### Not modelled

* Audio conversion of the Twilio bridge, the webhook, the HTTP routes and the WebSocket adapter:
  no state that another part reads.
* Prompts, voices, filler texts, confirmations and intent keywords: constant text and pure text
  matching.  Configuration loading: read once at start-up.  Logging, latency markers,
  development tools: no property depends on them.
* The sentence splitter: nothing feeds it since Sonnet is called without streaming.
* `CustomerService.update_profile` and `CallService.end_call`: called by nobody.
* The content of history messages, transcripts and summaries beyond their kind; credentials and
  their refresh, which are a failing calendar call; the wire protocols of the services.
