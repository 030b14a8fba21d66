# TLA+ project for the UniFi Talk alarm add-on

The add-on is one Python service (`unifi_talk_alarm/app/talk_alarm`) on a single
asyncio event loop. It offers an HTTP API with one outbound call slot and drives a
baresip child process that places the SIP call, plays an alarm WAV and hangs up. This
directory models the parts of it whose correctness depends on the order of events,
model-checks them with TLC, and proves the safety properties of all of them with
TLAPS; the liveness properties are model-checked.

## 1. Inventory

| Component | Source | State | Operations |
|---|---|---|---|
| Call manager | `manager.py`, `models.py` | call snapshot, `_sip_call_started`, `_prepared`, `_attempts`, `_operation_lock`, four timer tasks, registration snapshot | `start_call`, `hangup`, `refresh`, `shutdown`, `handle_adapter_event`, four timers |
| SIP adapter: control channel | `adapters.py` 268-316, 347-452, 577-589 | `_command_lock`, `_pending`, `_event_queue`, the connection | `_command`, reader, event worker, `_fail_pending` |
| SIP adapter: process | `adapters.py` 155-201, 235-266, 318-335, 550-583 | `_process`, `_ctrl_writer`, three background tasks, `_lifecycle_lock`, `_stopping` | `start`, `stop`, `refresh`, loss of process or connection |
| SIP adapter: translation | `adapters.py` 458-540 | `_last_failure_reason` | `_parse_ctrl_event`, `_parse_line` |
| Audio preparation | `audio.py` | temporary directories, subprocesses | message, URL or upload to a validated WAV |
| Number policy, options | `config.py` | none after start | `NumberPolicy.allows`, `AppConfig.from_file` |
| HTTP API | `server.py`, `errors.py` | none | authentication, validation, dispatch |
| Entry point | `__main__.py` | none | start order, signals, shutdown order |

How they interact. The API calls the manager's coroutines, one task per request, which
aiohttp does not cancel when a client disconnects. The manager calls the adapter's
commands and awaits their answers; the adapter calls the manager's `handle_adapter_event`
from two tasks of its own, the event worker of the control channel and the reader of
baresip's standard output. Timers are tasks of the manager that call back into it. A
refresh goes past the operation lock straight to the adapter, which may stop and start
baresip and cancels both event tasks wherever they are.

What is hard. A task loses control at every command, at the audio preparation, at a sleep
and at the operation lock; meanwhile other handlers may finish the call, cancel the task,
and give the slot to the next call. Results come late, twice, out of order or never;
commands have uncertain outcomes; the event tasks may be cancelled in the middle. The
`hazards` of `PROJECT.json` list every such place with its line.

What makes each part correct:

* *call manager*: one call at a time; a command concerns the call it was sent for; the
  lock, the timers and the WAV files have owners and are not left behind; every call ends
  without the help of the SIP client; a client sees only sensible changes of the snapshot;
* *control channel*: an answer reaches the command it belongs to; reader, worker and
  commands cannot block one another; no event is lost in silence;
* *process*: one baresip at most, which can always be stopped; nothing of a stopped
  process has an effect later; start, stop and refresh end; the status is honest;
* *translation*: the alarm is heard by somebody who has answered; no SIP call is left to
  itself; a hang-up, which names no call, ends the one it is meant for; an event, and the reason
  of a closed call, are applied to the call they are about (which the code cannot ensure, so
  the other three are asked of the calls for which it happened to be so);
* *audio*: no temporary file or process outlives a failed preparation; limits hold;
* *rate limit*: no window of time holds more attempts than allowed, and none is refused that
  need not be; an attempt is a call that was dialled;
* *policy*: emergency numbers and deny rules win in every spelling of a number;
* *API*: the size limits of bodies and fields agree with each other; checks precede effects.

## 2. Modules

| Module | Contents |
|---|---|
| `CallLifecycle` | abstract: what a client may observe of the slot |
| `CallManager` | the manager: every handler, request and timer, refining `CallLifecycle` |
| `CallManager_proofs`, `CallTimers_proofs`, `CallSupervised_proofs` | theorems about `CallManager` |
| `CallLifecycle_proofs` | `CallManager` implements `CallLifecycle` |
| `CtrlChannel` | commands, responses, events and the two tasks that read them |
| `AdapterLifecycle` | start, stop, refresh, background tasks, registration state |
| `AlarmCall` | `CallManager` composed with the adapter's call commands and events and with an external baresip |
| `RateLimit` | the sliding window with a clock |
| `AudioPrep` | sources, subprocesses and limits of the audio of one request |
| `CallRequest` | `POST /calls` from its checks to the dial; composes `RateLimit` and `AudioPrep` |
| `CtrlChannel_proofs`, `AdapterLifecycle_proofs`, `AlarmCall_proofs` | theorems about the modules of those names |
| `CallRequest_proofs` | theorems about `RateLimit`, `AudioPrep` and `CallRequest` |
| `MCCallManager`, `MCCtrlChannel`, `MCAdapterLifecycle`, `MCAlarmCall`, `MCCallRequest` | instances for TLC |

Operators named after a defect (their comments begin with "Mutant of") are variants of
the operator that follows; no specification uses them. Put in its place, each one makes
TLC refute one property, which shows that the property depends on the code in question.

### CallManager

`call` is the snapshot, `sipCallStarted`, `prepared`, `operationLock` and `attempts` are
the attributes of those names; `wavs` is what is on disk. `timers` holds the timers the
manager refers to, and `task` where each task is: a start request is named by its call, a
hang-up request and an event channel by an element of `Hangups` and `Channels`, timers by
their attribute. A timer that runs without being in `timers` could not be cancelled.

An action is the code between two suspensions. The bodies under `self._lock` contain no
suspension, so that lock is never contended and is left out; for the same reason `_finish`
with everything it calls is one step (`Finish`). An uncontended `asyncio.Lock` is taken
without a suspension; in the model a waiting task takes the lock in a step of its own and
in any order, which includes the real orders. `task.cancel()` takes effect at the task's
suspension: a waiter gives up, an owner leaves the `async with`. If the answer and the
cancellation come in one iteration of the loop, the cancellation wins, so a cancelled task
is simply over.

The adapter is the environment: on each channel any event may come whenever the channel is
free, and every command may succeed or fail. Requests refused without a change of state are
stuttering steps. `AdapterRestart` is the part of a refresh that the manager feels. The
shutdown holds the operation lock through three steps: `StopCancels` cancels the event
tasks, `CancelEnds` is the end of one of them, and `ShutdownDone` needs the end of both, as
the `gather` of `adapter.stop` does. A stop that waited for handlers without cancelling them
would wait for one that waits for the lock; TLC reports that variant as a deadlock.

### CtrlChannel

`command[t]` is where a task's command is (`lock`, `wait`), its token and its last result;
`pending` is `_pending` with the state of each future; `stream` is what baresip has written
and the reader has not read; `queue` is `_event_queue`, whose limit of 256 is the constant
`QueueSize`. Events are numbered, which makes losses and reorderings visible. baresip
answers commands in order, late or never, and sends events at any time. `Cancelled` is what
`CallManager` does to its timers. An answer that has been read when the connection goes is
kept (`AnswersKept`), as `_fail_pending` leaves futures alone that are done. `Restart` is
`stop` and `start` as the channel sees them: with `ConnectionLost` before it, it covers
their intermediate states. A start that replaces a dead process without a stop is not in
this module (section 6).

### AdapterLifecycle

Processes are numbered; `running` and `held` are the background tasks that exist and those
the adapter refers to, which differ when a start replaces a dead process that nobody
stopped. `line` is the first-come-first-served lifecycle lock. `registration` carries the
process that reported it. A refresh decides without the lock; `StopClosed` and `CtrlEnds`
fail the pending `reginfo` of other refreshes, as `_fail_pending` does.

### AlarmCall

`CallManager` takes any event at any time. Here baresip causes the events: `sip` is its one
call (`call_max_calls 1`, `adapters.py:618`). A manager step that brings a task to a command puts
that command on the `wire` (`FirstCommand`); `dial` sends two. baresip executes the wire in order,
also commands whose sender has given up (`LateReply`), and may refuse any of them.

Events reach the manager by two tasks, the two channels of `CallManager`. The *worker* takes
those that the control connection reported (`events`, the adapter's queue); the *reader*
takes the lines of standard output (`lines`), which tell the same events and, besides, the
reason of a failure. An entry remembers in `of` the call it is about, although the code
cannot see it. Nothing orders the two with each other, with the timers or with the next
dial, and the model does not either: an event may wait as long as it likes, in either queue,
while calls end and begin.

Events are therefore applied to calls that they are not about. The history `misled` collects
the calls to which that happened, `sip.kept` says that baresip refused to hang up, and
`busy` is the truth about callees. `MCAlarmCall` adds, for the two runs that show a
violation, a specification with less bad luck (`PromptSpec`): every event is taken as soon
as its task is idle, and no hang-up is refused. It only removes behaviours, so what it
violates, `SystemSpec` violates.

### RateLimit, AudioPrep, CallRequest

`times` are all attempts ever recorded and `first` the index of the first one still in
`_attempts`, so that properties can speak of attempts that were dropped. A WAV is what
`_validate_wav` looks at; the rate is in units of 8 kHz and the header counts as no bytes.
espeak-ng, ffmpeg and the audio server may produce any WAV of `Wavs`, fail or hang.

A request is a record of what the checks look at. The text of an upload has a length of its
own (`chars`): it is that of the Base64 form when the text is strict Base64, and anything
when it holds blanks or garbage, which are counted before they are refused
(`server.py:150`). `rest` is what the body holds beside that text, so that `BodySize` may
exceed what aiohttp reads with an upload or without. `Refusals` are the statuses of the
checks in their order and `Fails` says which of them a request fails; the first one answers.
The manager asks the rate limit before the preparation (`Post`) and again, recording, before
the dial (`DialRecorded`). Requests come one after the other: their concurrency is in
`CallManager`.

## 3. Runs

| Run | Bounds | Result |
|---|---|---|
| `call_manager` | 2 calls, 2 hang-ups, 2 channels, 1 adapter restart, 1 call per window; symmetry | 9 properties hold, 117,503 states |
| `call_ends` | 2 calls, 1 hang-up, 1 channel, no restart | `CallEnds`, `TasksComeToRest` hold, 15,865 states |
| `alarm_call` | 2 calls, 1 hang-up, 1 inbound call at any time; any command late or refused; the end of playback in either queue; symmetry | 4 properties hold, 585,412 states |
| `call_request` | WAVs to 5 bytes at a limit of 4, 3 frames per channel and rate, 2 dials per 3 s, 6 s | 8 properties hold, 202,712 states |
| `ctrl_channel` | 1 sender and the worker, 3 commands, 3 events, queue of 1 | 5 properties hold, 107,356 states |
| `adapter_lifecycle` | 2 refreshes, start, shutdown, 2 processes, 1 queued event | 4 properties hold, 148,984 states |
| `call_supervised`, `reply_is_own_call`, `after_shutdown`, `status_honest`, `alarm_only_after_answer`, `inbound_ends_alone` | as above or smaller | violated: see section 4 |

Why the bounds are enough. Interference in the manager is between the call in the slot and
one that was there before, so two calls; a hang-up can meet another hang-up, so two; there
are exactly two channels in the code. With one call per window the second call exists only
after an attempt has expired, which exercises both checks of the limit. In `CtrlChannel`
three commands allow a late answer, the command it could be mistaken for and one of a
handler; three events allow one in the handler, one queued and one dropped. In
`AdapterLifecycle` two processes give an old and a new one, and two refreshes the overlap of
one's stop and the other's start. In `alarm_call` the second call is the one that events and
hang-ups of the first could hit, the inbound call is there before, between and after the
outbound ones, and its rejection is a second source of hang-ups; that lines tell more than
the end of the playback and the reason of a failure (`LineTypes`) is left to the proof,
which holds for all of them. In `call_request` a limit of 4 bytes is not a multiple of 3, so
Base64 rounds; 5 bytes exceed it; texts with a blank more, and bodies at both sides of each
of their limits, are among the uploads; six seconds hold two whole windows; the requests are
one that passes every check and, for each check, those that differ in it. Symmetry is used
in `call_manager` and `alarm_call`, for sets whose elements no definition distinguishes and
without liveness properties.

Deadlock is checked in every run except those of `AdapterLifecycle`, which does stop, when
every request has returned and baresip is silent.

In `CallManager` the rate limit has no clock: `ExpireAttempt` is the passage of time, possible at
any moment. The boundary of the window is examined in `RateLimit`.

What `alarm_call` does not assume: that an answer is in time, that an event is handled
before the next call begins, that the two event queues keep any order between them, or that
no inbound call meets a dial. With all of that, an event may be applied to a call it is not
about, and nothing in the code can tell. The properties say what remains. The alarm is heard
too early only by the callee of a call that was misled (`AlarmOnlyAfterAnswerUnlessMisled`);
the outbound call of baresip is the slot's or is about to be hung up, unless it was misled
or baresip refused (`SipCallManaged`); `busy` is true of a call that was not misled
(`ReasonIsOwn`); and hang-ups, although they name no call and may come very late, never end
a call in the slot that was not to be ended, misled or not (`HangupsHitTheirCall`): the
commands of the next call are behind them on the same connection. What the documents promise
without a condition is violated, and section 4 says by what.

Fairness. `CallManager`: sleeps, preparations and commands end (`WF`): commands have a
timeout of 5 s, downloads and subprocesses one of their own. `asyncio.Lock` serves waiters
in order, and every owner leaves, so a waiter is not overtaken for ever (`SF` on entering).
A cancelled event task ends, since no handler catches the cancellation (`except Exception`
does not). Nothing is assumed of events. The liveness runs have no adapter restart: with
one, `CallSupervised` fails and so would `CallEnds`. `CtrlChannel`: baresip answers (`WF` on
`Reply`) and tasks run; neither timeouts nor loss of the connection are fair, so that a
command which ends only by its timeout would be a counterexample; this is the claim of
`_queue_event`. `AdapterLifecycle`: the steps of a caller end, connection attempts by their
deadline of 10 s although baresip need not listen, and a terminated process exits (it is
killed after 5 s); no other exit is assumed. `CallRequest`: a download ends by its timeout
of 15 s, a tool by that of 30 s, a killed process exits, and the request's own steps are
taken (`AudioEnds`, `PreparationFailed`, `DialRecorded`); neither tools nor servers are
assumed to finish. `CallEnds` and `TasksComeToRest` are stated as *infinitely often*, which
for calls and requests that occur once is the same as *leads to* and cheaper to check.

## 4. Where the code does not do what its texts say

1. `CallSupervised`. A refresh that restarts the adapter cancels the event handlers; if one
   was waiting for its command, nobody creates the audio deadline or the ending fallback,
   and the call keeps the slot. `CallSupervisedUnlessRestarted` shows this is the only way.
2. `AlarmOnlyAfterAnswer` (`DOCS.md:86`). A hang-up that is answered late frees the slot
   before baresip has executed it. If the callee of that call answers in between, while the
   next call is dialled, the answer is applied to the next call, whose alarm is then
   selected while it rings.
3. `ReplyIsOwnCall`. The reply of `start_call` is read from the slot, not from the call.
4. `NothingRunsAfterShutdown`. A refresh waiting behind the shutdown starts baresip again.
5. `StatusHonest`. A queued registration event overwrites the error published at the end of
   the process. So does the answer to a `reginfo` that was the last thing read before the
   connection ended (`CtrlEnds`).
6. `InboundEndsAlone`. The inbound call's CALL_INCOMING waits in the worker for the
   operation lock of an outbound dial; the inbound call ends by itself, the dial goes
   through, and the queued CALL_CLOSED of the inbound call finishes the outbound one as
   failed.

Also visible in the models, without a text that says otherwise: a refresh during a start
stops the process that has just started; a start that finds a dead process leaves its tasks
running, and the old connection's end drops the new writer (`adapters.py:374`), which is
why `OfCurrentProcess` is conditional on `replaced`;  a call left `ending` cannot be hung up;
the second check of the rate limit can never refuse (`SecondCheckRedundant`); a WAV of 8-bit
samples that is within the size limit may exceed it after the conversion to 16 bits, and is
refused then (`Exits`).

One disagreement more has an action in the models and no run of its own. `src/README.md:108`
calls `terminal_state_seconds` the time a result remains visible before the reset. `_finish`
does not look whether the call already has a result, so a command that fails after
CALL_CLOSED replaces the result on display by `failed` and starts its display again
(`manager.py:190`, `411`). `FailLate` of `CallLifecycle` is that step, the only one but the terminal
timer's by which a published result may change.

## 5. Proofs

`CallManager_proofs` proves, for all finite or infinite sets of calls, requests and channels
and all bounds, from the named assumptions of `CallManager` (the kinds of tasks are
disjoint, `None` is not a task, the limits are naturals):

* `TypeCorrect`: `Spec => []TypeOK`. Inductive as it stands; the lemmas `GotoType`,
  `ReturnType` and `FinishType` state once what the shared steps do to `task`.
* `LockCorrect`: `Spec => []LockOwned`. Inductive with `TypeOK`: an action either takes the free
  lock, leaves it, or moves its task among points of the same kind, and `Finish` releases
  the lock exactly for the tasks it ends.
* `SipCallCorrect`, `CommandsCorrect`, `WavsCorrect`: the three are inductive together with
  the two above, not alone. That a command hits its own call needs the lock (the
  slot's SIP call is replaced only by `Dial`, which needs the lock that the command's task
  holds) and that the SIP call is the slot's; that a WAV has one owner needs both.

`CallTimers_proofs`: `TimersCorrect` and `SecondCheckCorrect`, `Spec => []TimersReferenced` and
`Spec => []SecondCheckRedundant`, each inductive once the types are known: a running timer
stays referenced until it ends, since whoever drops the reference also cancels it.

`CallSupervised_proofs`: `SupervisedCorrect`, `Spec => []CallSupervisedUnlessRestarted`. The
property names the tasks a call relies on in each state; what is inductive (`Watch`) also
says that the task in question *minds* the call (`Minded`) at every point where it may lose
control, and that a terminal timer between its two parts finds the call `ended`
(`ResetInv`), so that it cannot reset a later one. A restart and the shutdown only end the
property's condition.

`CallLifecycle_proofs`: `LifecycleImplemented`, `Spec => ImplementsLifecycle`. Initial
states map to initial states and every action to a step of `CallLifecycle` or a stutter,
from `SlotInv`: an idle slot has no identifier, a task with a command in flight knows its
call, and a ring timeout that hangs up can still be cancelled.

`CtrlChannel_proofs`: `ChannelTypes`, `ChannelOneCommand` and `ChannelAnswers`, from
`ChannelInv`. That an accepted answer is never a late one of an earlier command is not
inductive: it needs that every future, and every response still in the stream, tells the
truth about its token (`TellsTruth`), and for a future to be the right one, that one command
at a time is in flight. `ChannelEvents`, `Spec => []EventsComplete`, is inductive with the
types: the head of the stream must be the event after the last one queued, since otherwise
that event would follow it with a smaller number.

`AdapterLifecycle_proofs`: `LifecycleTypes` and `LifecycleOneProcess`, from `LifecycleInv`.
`LockInv` says that the line holds each waiting caller once and that whoever is past the
lock owns it; with it only the owner creates or terminates processes, and `ProcessInv`
follows: none runs when one is created. `OneProcess` counts processes, which needs the
library's facts on cardinality. `LifecycleCurrent`, `Spec => []OfCurrentProcess`, is from
`CurrentInv`: the property alone says nothing of an adapter without a process, yet a process
may be created only when no task, no queued event and no status of an earlier one is left,
and its tasks only when it has caused none.

`CallRequest_proofs` begins with `RateLimitCorrect`, from `RateInv`: the times are ordered
and what has left the deque is a window old. Both are needed, since the property compares
attempts of which the code has forgotten the older one.

Every step of `RequestSpec` is a step of `RateSpec` or leaves its variables alone
(`RequestsImplementRateLimit`), whence `RequestWindow`; `RequestLeavesNothing`,
`RequestAudioWithinLimits`, `RequestTooLarge`, `RequestAttempts` and `RequestRefusals` from
`RequestInv`. `RequestTooLarge` has two halves: a WAV over the limit never gets past the
checks, in whatever encoding and body; one within the limit, in strict Base64 and a body
with less than the overhead around it, is never answered 413, which is arithmetic on
rounding, proved for every limit. The assumptions are those named in `RateLimit`,
`AudioPrep` and `CallRequest`: limits are naturals, the window and the limit of calls
positive, WAVs have positive widths and rates.

`RequestDialled`, `RequestSpec => []DialledAsDocumented`, needs that the digits the policy
looks at, those of a number already freed of its separators, are the digits of the number as
it was sent (`DigitsOfDialable`), for numbers of any length. That is induction over data.
The induction theorems of the library cannot be used, since they take an operator;
`KeptTwice` and the lemmas before it descend from a shortest counterexample instead
(`LeastNumber`, from the library's `WFMin`), and build the function that `Kept` chooses step
by step (`KeepsExists`). For this `Kept` is a recursive function; the prover does not know
the definition of `SelectSeq`.

`AlarmCall_proofs` is about the composition of manager, adapter and SIP client.
`SystemImplementsManager`, `SystemSpec => Spec`: every step of the composition is a step of
`CallManager` or leaves its variables alone, so all the theorems above hold of it.
`AlarmUnlessMisled`, `NoSipCallIsForgotten`, `HangupsHit` and `BusyIsOwn` prove the four
properties of the run `alarm_call`, for any sets of calls, requests and late commands, any
number of inbound calls and any events told by lines; nothing is assumed of time or order.
They share one invariant, `SystemInv` (`SystemCorrect`), since each of them is about the
same difficulty: commands are executed late and events name no call. Its parts, beside the
manager's types, `LockOwned`, `SipCallOwned` and the rest:

* `ReplyInv`, `HolderInv`: the command that is awaited is the last one sent and that of the
  task that owns the lock; a reply tells what baresip did.
* `WireInv`: a dial on the wire is the next command to be executed, and the source is silent
  until then.
* `MetInv`: a call that baresip has not placed (`Unsent`, or still on the wire) has left no
  trace in baresip, in either queue or with a handler.
* `AudioInv`: the alarm of a call that was not misled is the source, or on its way to be,
  only when no callee is waiting to be answered. "On its way" is on the wire, where an
  `ausrc` may be executed after its sender has gone.
* `EndInv`: a call is reported closed, or awaits the fallback of its hang-up, after its end.
* `CareInv`: a call that baresip has or will get is in the slot or dealt with, and if a
  hang-up is on the wire it is a call that is to be ended. `NoSipCallIsForgotten` and
  `HangupsHit` are its two halves, and neither is inductive without the other.
* `ReasonInv`: a reason that has been read, or is still to be read, is true of its call.

TLC checked these parts as invariants on the instance of `alarm_call`. The proof treats the steps of
the manager by what they do to the channel, of which there are four kinds: they leave it
alone (`Passive`), they hang up (`HangsUp`), they select the alarm (`PlaysAlarm`), or they
dial (`DialKeeps`).

Model-checked only: all liveness, which is beyond TLAPS (fairness and `ENABLED`). Every safety
invariant and every action property of a passing run is proved. Of the runs that show a
violation nothing is proved; `AlarmUnlessMisled` says what remains of the second of them.

## 6. Not modelled

* `AppConfig.from_file`: it runs once before anything else and yields a configuration or
  ends the program; each option is checked by itself. `CallRequest` starts from rules
  already parsed.
* The HTTP handlers other than `create_call`: they keep no state and pass the request on,
  after the same checks, to operations that are modelled.
* A start that replaces a dead process without a stop (`adapters.py:157-174`), in
  `CtrlChannel`: the queue is not discarded and two workers take from it. `AdapterLifecycle`
  has that case (`replaced`), with one registration state instead of commands.
* The exact size at which the library refuses a body: `Fails` takes a body of
  `client_max_size` bytes for admitted, and `TooLargeIsTooLarge` asks nothing of bodies with
  the whole overhead or more.
* The reason `no_answer`, which is handled as `busy` is, and progress events in `AlarmCall`;
  in which words a line of output tells an event.
* TCP flow control on the control connection: commands are far below the buffers' limits.
* Writing baresip's configuration, received audio, logging and packaging: they hold no state
  that the rest depends on.
