----------------------------- MODULE CallManager -----------------------------
(***************************************************************************)
(* The call manager of the alarm add-on (talk_alarm/manager.py): one       *)
(* outbound call slot, driven by HTTP requests, by the events of the SIP   *)
(* adapter and by four timers, all of them tasks of one asyncio loop.      *)
(*                                                                         *)
(* Granularity.  A task runs from one suspension to the next without       *)
(* interruption, so an action is the code between two suspensions.  The    *)
(* bodies of `async with self._lock` never suspend, hence self._lock is    *)
(* never contended and needs no variable; _finish and everything it calls  *)
(* is one step.  The suspensions that remain, and that are the control     *)
(* points `at' of a task, are: waiting for self._operation_lock ("lock",   *)
(* "est_lock", "eof_lock", "inc_lock"), the audio preparation ("prepare"), *)
(* the commands of the adapter ("dial", "hangup", ...) and the sleeps.     *)
(* A task that asks for a free operation lock is given it at once by       *)
(* asyncio; here any waiting task may be the next one, which adds orders   *)
(* and removes none.                                                       *)
(*                                                                         *)
(* The adapter is the environment: it may report any event at any time on  *)
(* each of its channels, and any command may succeed or fail.  Requests    *)
(* refused without a change of state (409, 422, 429) are stuttering steps. *)
(* Timestamps, numbers and error texts of a snapshot are left out.         *)
(***************************************************************************)
EXTENDS Integers, FiniteSets

CONSTANTS
    Calls,              \* call ids; a call also names the task of its start_call
    Hangups,            \* concurrent POST /calls/{id}/hangup requests
    Channels,           \* tasks that deliver events: ctrl_tcp worker, stdout reader
    None,
    MaxCallsPerWindow,  \* config max_calls_per_window
    MaxRestarts         \* bound: stops of the adapter by a refresh

Timers == {"ring", "audio", "ending", "terminal"}
Tasks == Calls \cup Hangups \cup Channels \cup Timers \cup {"shutdown"}

ASSUME TasksAssumption ==
    /\ Calls \cap Hangups = {} /\ Calls \cap Channels = {} /\ Hangups \cap Channels = {}
    /\ (Calls \cup Hangups \cup Channels) \cap (Timers \cup {"shutdown"}) = {}
ASSUME NoneAssumption == None \notin Tasks
ASSUME BoundsAssumption == MaxCallsPerWindow \in Nat \ {0} /\ MaxRestarts \in Nat

Calling == {"dialing", "ringing"}
ActiveWithoutEnding == Calling \cup {"connected"}            \* mutant of Active
Active == Calling \cup {"connected", "ending"}
Terminal == {"ended", "busy", "no_answer", "failed"}

VARIABLES
    call,            \* _call: the public snapshot, [id, state]
    sipCallStarted,  \* _sip_call_started
    prepared,        \* _prepared: the call whose WAV is to be played, or None
    wavs,            \* calls whose temporary WAV directory exists on disk
    attempts,        \* _attempts that are still inside the rate-limit window
    operationLock,   \* _operation_lock: the task that holds it, or None
    timers,          \* the timers _ring_task, ..., _terminal_task refer to
    task,            \* for every task its control point and the call it is about
    restarts         \* stops of the adapter so far

media == <<sipCallStarted, prepared, wavs>>
counts == <<attempts, restarts>>
vars == <<call, media, counts, operationLock, timers, task>>

Idle == [at |-> "idle", id |-> None]
At(t, point) == task[t].at = point
NoCall == [id |-> None, state |-> "idle"]

StartPoints == {"new", "prepare", "lock", "dial", "abort", "idle"}
HangupPoints == {"idle", "lock", "hangup"}
EventPoints == {"idle", "est_lock", "est_audio", "est_abort", "eof_lock",
                "hangup", "inc_lock", "inc_hangup", "cancelled", "stopped"}
TimerPoints == [ring     |-> {"idle", "sleep", "lock", "ring_hangup"},
                audio    |-> {"idle", "sleep", "eof_lock", "hangup"},
                ending   |-> {"idle", "sleep"},
                terminal |-> {"idle", "hold", "reset"}]

\* The control points of each task.
PointsOf(t) ==
    IF t \in Calls THEN StartPoints
    ELSE IF t \in Hangups THEN HangupPoints
    ELSE IF t \in Channels THEN EventPoints
    ELSE IF t \in Timers THEN TimerPoints[t]
    ELSE {"idle", "lock", "stop", "gather", "stopped"}

Points == {"new", "prepare", "lock", "dial", "abort", "idle", "hangup",
           "est_lock", "est_audio", "est_abort", "eof_lock", "inc_lock", "inc_hangup",
           "sleep", "ring_hangup", "hold", "reset", "stop", "gather", "cancelled", "stopped"}

\* The points at which a task owns the operation lock.
Holding == {"dial", "abort", "hangup", "ring_hangup", "est_audio", "est_abort",
            "inc_hangup", "stop", "gather"}

Init ==
    /\ call = NoCall
    /\ sipCallStarted = FALSE
    /\ prepared = None
    /\ wavs = {}
    /\ attempts = 0
    /\ operationLock = None
    /\ timers = {}
    /\ task = [t \in Tasks |-> IF t \in Calls THEN [at |-> "new", id |-> t] ELSE Idle]
    /\ restarts = 0

-----------------------------------------------------------------------------
(* Steps shared by the handlers.                                           *)

IsCurrent(c, states) == call.id = c /\ call.state \in states

\* Task t goes on at a control point; the tasks of the set cancelled are over.
Goto(t, at, c, cancelled) ==
    task' = [p \in Tasks |-> IF p = t THEN [at |-> at, id |-> c]
                             ELSE IF p \in cancelled THEN Idle ELSE task[p]]

NeverReleased(S) == operationLock                            \* mutant of Released
\* The operation lock after the tasks of S have left it.
Released(S) == IF operationLock \in S THEN None ELSE operationLock

\* A step that does nothing but take task t to its next control point.
Move(t, at, c) ==
    /\ Goto(t, at, c, {})
    /\ UNCHANGED <<call, media, counts, operationLock, timers>>

\* Task t returns, releasing the lock if it is inside it.
Return(t) ==
    /\ Goto(t, "idle", None, {})
    /\ operationLock' = Released({t})

\* Task t returns; when its call still needs the timer, it has created it.
ReturnStarting(timer, t, c, needed) ==
    /\ operationLock' = Released({t})
    /\ timers' = IF needed THEN timers \cup {timer} ELSE timers
    /\ task' = [p \in Tasks |-> IF p = t THEN Idle
                               ELSE IF p = timer /\ needed THEN [at |-> "sleep", id |-> c]
                               ELSE task[p]]

\* _cancel_media_timers and _cancel_task: the referenced timers of S, but for
\* the running task itself, are cancelled.
CancelledBy(t, S) == (timers \cap S) \ {t}
MediaTimersWithoutAudio == {"ring"}                          \* mutant of MediaTimers
MediaTimers == {"ring", "audio"}

RateAllowsOneMore == attempts <= MaxCallsPerWindow           \* mutant of RateAllows
\* _check_rate_limit, with the expired attempts already dropped.
RateAllows == attempts < MaxCallsPerWindow

\* _finish(c, state, _) as the last thing task t does; owned are the WAVs that
\* t cleans up itself.  When c is no longer the call of the slot only t ends.
Finish(t, c, state, owned) ==
    IF call.id # c
    THEN /\ Return(t)
         /\ wavs' = wavs \ owned
         /\ UNCHANGED <<call, sipCallStarted, prepared, timers>>
    ELSE LET cancelled == CancelledBy(t, MediaTimers \cup {"ending"}) IN
         /\ call' = [call EXCEPT !.state = state]
         /\ sipCallStarted' = FALSE
         /\ prepared' = None
         /\ wavs' = wavs \ (owned \cup {prepared})
         /\ timers' = {"terminal"}
         /\ operationLock' = Released(cancelled \cup {t})
         /\ task' = [p \in Tasks |->
                       IF p = "terminal" THEN [at |-> "hold", id |-> c]
                       ELSE IF p \in cancelled \cup {t} THEN Idle ELSE task[p]]

-----------------------------------------------------------------------------
(* start_call                                                              *)

\* Mutant of StartCall: the early check of the rate limit is dropped.
StartCallUnlimited(c) ==
    /\ At(c, "new")
    /\ call.state \notin Active
    /\ call' = [id |-> c, state |-> "dialing"]
    /\ sipCallStarted' = FALSE
    /\ timers' = timers \ {"terminal"}
    /\ Goto(c, "prepare", c, CancelledBy(c, {"terminal"}))
    /\ UNCHANGED <<prepared, wavs, counts, operationLock>>

\* The slot is free and the rate limit allows one more call.
StartCall(c) ==
    /\ At(c, "new")
    /\ call.state \notin Active
    /\ RateAllows
    /\ call' = [id |-> c, state |-> "dialing"]
    /\ sipCallStarted' = FALSE
    /\ timers' = timers \ {"terminal"}
    /\ Goto(c, "prepare", c, CancelledBy(c, {"terminal"}))
    /\ UNCHANGED <<prepared, wavs, counts, operationLock>>

AudioPrepared(c) ==
    /\ At(c, "prepare")
    /\ wavs' = wavs \cup {c}
    /\ Goto(c, "lock", c, {})
    /\ UNCHANGED <<call, sipCallStarted, prepared, counts, operationLock, timers>>

AudioFailed(c) ==
    /\ At(c, "prepare")
    /\ Finish(c, c, "failed", {})
    /\ UNCHANGED counts

\* Mutant of DialCancelled: prepared.cleanup() is forgotten.
DialCancelledKeepingWav(c) ==
    /\ At(c, "lock")
    /\ operationLock = None
    /\ ~IsCurrent(c, Calling)
    /\ Return(c)
    /\ UNCHANGED <<call, media, counts, timers>>

\* The WAV is ready but the call has been hung up or replaced: clean up, 409.
DialCancelled(c) ==
    /\ At(c, "lock")
    /\ operationLock = None
    /\ ~IsCurrent(c, Calling)
    /\ Return(c)
    /\ wavs' = wavs \ {c}
    /\ UNCHANGED <<call, sipCallStarted, prepared, counts, timers>>

\* The WAV is ready and the call still owns the slot: dial.
Dial(c) ==
    /\ At(c, "lock")
    /\ operationLock = None
    /\ IsCurrent(c, Calling)
    /\ IF ~RateAllows
       THEN Finish(c, c, "failed", {c}) /\ UNCHANGED attempts
       ELSE /\ attempts' = attempts + 1
            /\ prepared' = c
            /\ sipCallStarted' = TRUE
            /\ operationLock' = c
            /\ Goto(c, "dial", c, {})
            /\ UNCHANGED <<call, wavs, timers>>
    /\ UNCHANGED restarts

\* The dial command was accepted: the ring timer starts and the request returns.
Dialed(c) ==
    /\ At(c, "dial")
    /\ ReturnStarting("ring", c, c, IsCurrent(c, Calling))
    /\ UNCHANGED <<call, media, counts>>

\* The dial command failed or timed out: the result is uncertain, so hang up.
DialFailed(c) ==
    /\ At(c, "dial")
    /\ Move(c, "abort", task[c].id)

\* Mutant of DialAborted: the failed call is not finished.
DialAbortedUnfinished(c) ==
    /\ At(c, "abort")
    /\ Return(c)
    /\ UNCHANGED <<call, media, counts, timers>>

DialAborted(c) ==
    /\ At(c, "abort")
    /\ Finish(c, c, "failed", {})
    /\ UNCHANGED counts

-----------------------------------------------------------------------------
(* hangup, _hangup_after_audio and the fallback of a call that is ending   *)

\* POST /calls/{id}/hangup for a call that was started.
HangupRequest(h, c) ==
    /\ At(h, "idle")
    /\ ~At(c, "new")
    /\ Move(h, "lock", c)

\* Task t marks call c ending and sends the hang-up command.
BeginHangup(t, c) ==
    LET cancelled == CancelledBy(t, MediaTimers) IN
    /\ call' = [call EXCEPT !.state = "ending"]
    /\ timers' = timers \ MediaTimers
    /\ operationLock' = t
    /\ Goto(t, "hangup", c, cancelled)

\* The request has the lock: refuse, end a call that was not dialled, or hang up.
Hangup(h) ==
    LET c == task[h].id IN
    /\ At(h, "lock")
    /\ operationLock = None
    /\ IF ~IsCurrent(c, Active \ {"ending"})
       THEN /\ Return(h)
            /\ UNCHANGED <<call, media, timers>>
       ELSE IF ~sipCallStarted
       THEN Finish(h, c, "ended", {})
       ELSE /\ BeginHangup(h, c)
            /\ UNCHANGED media
    /\ UNCHANGED counts

\* The end-of-audio event, or the audio deadline, ends a connected call.
HangupAfterAudio(t) ==
    LET c == task[t].id IN
    /\ At(t, "eof_lock")
    /\ operationLock = None
    /\ IF ~IsCurrent(c, {"connected"})
       THEN Return(t) /\ UNCHANGED <<call, timers>>
       ELSE BeginHangup(t, c)
    /\ UNCHANGED <<media, counts>>

\* The hang-up command was accepted: if no CALL_CLOSED came, start the fallback.
HangupSent(t) ==
    /\ At(t, "hangup")
    /\ ReturnStarting("ending", t, task[t].id, IsCurrent(task[t].id, {"ending"}))
    /\ UNCHANGED <<call, media, counts>>

HangupFailed(t) ==
    /\ At(t, "hangup")
    /\ Finish(t, task[t].id, "failed", {})
    /\ UNCHANGED counts

\* Mutant of EndingFallback: the call is not finished.
EndingForgotten ==
    /\ At("ending", "sleep")
    /\ Return("ending")
    /\ UNCHANGED <<call, media, counts, timers>>

EndingFallback ==
    /\ At("ending", "sleep")
    /\ Finish("ending", task["ending"].id, "ended", {})
    /\ UNCHANGED counts

-----------------------------------------------------------------------------
(* handle_adapter_event: one event at a time on each channel.  An event    *)
(* that finds no SIP call is dropped, and the others are taken for events  *)
(* of the call in the slot.                                                *)

Receives(ch) == At(ch, "idle") /\ call.id # None /\ sipCallStarted

\* Mutant of CallProgress: _set_call_state does not look at the state.
CallProgressUnchecked(ch, state) ==
    /\ Receives(ch)
    /\ call' = [call EXCEPT !.state = state]
    /\ UNCHANGED <<media, counts, operationLock, timers, task>>

CallProgress(ch, state) ==
    /\ Receives(ch)
    /\ call.state \in Calling
    /\ call' = [call EXCEPT !.state = state]
    /\ UNCHANGED <<media, counts, operationLock, timers, task>>

CallEstablished(ch) ==
    /\ Receives(ch)
    /\ Move(ch, "est_lock", call.id)

AudioEof(ch) ==
    /\ Receives(ch)
    /\ Move(ch, "eof_lock", call.id)

CallClosed(ch, reason) ==
    /\ Receives(ch)
    /\ call.state \notin Terminal
    /\ Finish(ch, call.id,
              IF call.state \in {"ending", "connected"} THEN "ended" ELSE reason, {})
    /\ UNCHANGED counts

CallIncoming(ch) ==
    /\ At(ch, "idle")
    /\ Move(ch, "inc_lock", None)

\* _on_established: the call is answered and the alarm becomes the SIP source.
OnEstablished(ch) ==
    LET c == task[ch].id IN
    /\ At(ch, "est_lock")
    /\ operationLock = None
    /\ IF ~IsCurrent(c, Calling)
       THEN Return(ch) /\ UNCHANGED <<call, timers>>
       ELSE IF prepared = None
       THEN /\ operationLock' = ch
            /\ Goto(ch, "est_abort", c, {})
            /\ UNCHANGED <<call, timers>>
       ELSE /\ operationLock' = ch
            /\ call' = [call EXCEPT !.state = "connected"]
            /\ timers' = timers \ {"ring"}
            /\ Goto(ch, "est_audio", c, CancelledBy(ch, {"ring"}))
    /\ UNCHANGED <<media, counts>>

AudioStarted(ch) ==
    /\ At(ch, "est_audio")
    /\ ReturnStarting("audio", ch, task[ch].id, IsCurrent(task[ch].id, {"connected"}))
    /\ UNCHANGED <<call, media, counts>>

AudioStartFailed(ch) ==
    /\ At(ch, "est_audio")
    /\ Move(ch, "est_abort", task[ch].id)

EstablishedAborted(ch) ==
    /\ At(ch, "est_abort")
    /\ Finish(ch, task[ch].id, "failed", {})
    /\ UNCHANGED counts

\* Mutant of RejectIncoming: it does not look for an outbound call.
RejectAnyIncoming(ch) ==
    /\ At(ch, "inc_lock")
    /\ operationLock = None
    /\ operationLock' = ch
    /\ Goto(ch, "inc_hangup", None, {})
    /\ UNCHANGED <<call, media, counts, timers>>

\* _reject_incoming_call: hang up, unless the slot has an outbound SIP call.
RejectIncoming(ch) ==
    /\ At(ch, "inc_lock")
    /\ operationLock = None
    /\ IF sipCallStarted /\ call.state \in Active
       THEN Return(ch)
       ELSE operationLock' = ch /\ Goto(ch, "inc_hangup", None, {})
    /\ UNCHANGED <<call, media, counts, timers>>

IncomingRejected(ch) ==
    /\ At(ch, "inc_hangup")
    /\ Return(ch)
    /\ UNCHANGED <<call, media, counts, timers>>

-----------------------------------------------------------------------------
(* The timers                                                              *)

RingElapsed ==
    /\ At("ring", "sleep")
    /\ Move("ring", "lock", task["ring"].id)

\* _ring_timeout: nobody answered, so end the call.
RingTimeout ==
    LET c == task["ring"].id IN
    /\ At("ring", "lock")
    /\ operationLock = None
    /\ IF ~IsCurrent(c, Calling)
       THEN Return("ring") /\ UNCHANGED call
       ELSE /\ call' = [call EXCEPT !.state = "ending"]
            /\ operationLock' = "ring"
            /\ Goto("ring", "ring_hangup", c, {})
    /\ UNCHANGED <<media, counts, timers>>

RingHangupDone(state) ==
    /\ At("ring", "ring_hangup")
    /\ Finish("ring", task["ring"].id, state, {})
    /\ UNCHANGED counts

\* _audio_deadline: the WAV's duration and the hang-up buffer are over.
AudioDeadline ==
    /\ At("audio", "sleep")
    /\ Move("audio", "eof_lock", task["audio"].id)

\* _terminal_reset, first part: the result was visible long enough.
TerminalShown ==
    LET c == task["terminal"].id IN
    /\ At("terminal", "hold")
    /\ IF ~IsCurrent(c, Terminal)
       THEN Goto("terminal", "idle", None, {}) /\ UNCHANGED call
       ELSE /\ call' = [call EXCEPT !.state = "ended"]
            /\ Goto("terminal", "reset", c, {})
    /\ UNCHANGED <<media, counts, operationLock, timers>>

\* _terminal_reset, second part: back to idle two seconds later.
TerminalReset ==
    /\ At("terminal", "reset")
    /\ call' = IF IsCurrent(task["terminal"].id, {"ended"}) THEN NoCall ELSE call
    /\ Goto("terminal", "idle", None, {})
    /\ UNCHANGED <<media, counts, operationLock, timers>>

-----------------------------------------------------------------------------
(* Shutdown, the adapter's stop, and time                                  *)

ShutdownRequest ==
    /\ At("shutdown", "idle")
    /\ Move("shutdown", "lock", None)

Shutdown ==
    /\ At("shutdown", "lock")
    /\ operationLock = None
    /\ operationLock' = "shutdown"
    /\ Goto("shutdown", "stop", None, CancelledBy("shutdown", Timers))
    /\ wavs' = wavs \ {prepared}
    /\ prepared' = None
    /\ sipCallStarted' = FALSE
    /\ UNCHANGED <<call, counts, timers>>

\* adapter.stop(), called under the operation lock, cancels the tasks that deliver
\* events wherever they are, and waits for their end.
StopCancels ==
    /\ At("shutdown", "stop")
    /\ task' = [p \in Tasks |-> IF p = "shutdown" THEN [at |-> "gather", id |-> None]
                               ELSE IF p \in Channels THEN [at |-> "cancelled", id |-> None]
                               ELSE task[p]]
    /\ UNCHANGED <<call, media, counts, operationLock, timers>>

CancelEnds(ch) ==
    /\ At(ch, "cancelled")
    /\ Move(ch, "stopped", None)

ShutdownDone ==
    /\ At("shutdown", "gather")
    /\ \A ch \in Channels : At(ch, "stopped")
    /\ Goto("shutdown", "stopped", None, {})
    /\ operationLock' = Released({"shutdown"})
    /\ UNCHANGED <<call, media, counts, timers>>

\* adapter.refresh() found the process gone: stop() cancels the tasks that
\* deliver events wherever they are, and start() creates new ones.  Two stops
\* never overlap (_lifecycle_lock).
AdapterRestart ==
    /\ restarts < MaxRestarts
    /\ ~At("shutdown", "gather")
    /\ restarts' = restarts + 1
    /\ task' = [p \in Tasks |-> IF p \in Channels THEN Idle ELSE task[p]]
    /\ operationLock' = Released(Channels)
    /\ UNCHANGED <<call, media, attempts, timers>>

\* An attempt leaves the rate-limit window.
ExpireAttempt ==
    /\ attempts > 0
    /\ attempts' = attempts - 1
    /\ UNCHANGED <<call, media, operationLock, timers, task, restarts>>

-----------------------------------------------------------------------------
StartStep(c) ==
    \/ StartCall(c) \/ AudioPrepared(c) \/ AudioFailed(c)
    \/ DialCancelled(c) \/ Dial(c) \/ Dialed(c) \/ DialFailed(c) \/ DialAborted(c)

EventStep(ch) ==
    \/ \E state \in Calling : CallProgress(ch, state)
    \/ CallEstablished(ch) \/ AudioEof(ch) \/ CallIncoming(ch)
    \/ \E reason \in {"busy", "no_answer", "failed"} : CallClosed(ch, reason)
    \/ OnEstablished(ch) \/ AudioStarted(ch) \/ AudioStartFailed(ch)
    \/ EstablishedAborted(ch) \/ RejectIncoming(ch) \/ IncomingRejected(ch)

TimerStep ==
    \/ RingElapsed \/ RingTimeout
    \/ \E state \in {"no_answer", "failed"} : RingHangupDone(state)
    \/ AudioDeadline \/ EndingFallback \/ TerminalShown \/ TerminalReset

HangupStep ==
    \/ \E h \in Hangups : Hangup(h) \/ \E c \in Calls : HangupRequest(h, c)
    \/ \E t \in Channels \cup {"audio"} : HangupAfterAudio(t)
    \/ \E t \in Hangups \cup Channels \cup {"audio"} : HangupSent(t) \/ HangupFailed(t)

ServiceStep ==
    \/ ShutdownRequest \/ Shutdown \/ StopCancels \/ ShutdownDone
    \/ \E ch \in Channels : CancelEnds(ch)
    \/ AdapterRestart \/ ExpireAttempt

Next ==
    \/ \E c \in Calls : StartStep(c)
    \/ \E ch \in Channels : EventStep(ch)
    \/ TimerStep \/ HangupStep \/ ServiceStep

Spec == Init /\ [][Next]_vars

-----------------------------------------------------------------------------
(* Safety                                                                  *)

\* Every variable keeps its type, and each task stays at points of its own.
TypeOK ==
    /\ call \in [id : Calls \cup {None}, state : Active \cup Terminal \cup {"idle"}]
    /\ sipCallStarted \in BOOLEAN
    /\ prepared \in Calls \cup {None}
    /\ wavs \subseteq Calls
    /\ attempts \in 0..MaxCallsPerWindow
    /\ operationLock \in Tasks \cup {None}
    /\ timers \subseteq Timers
    /\ task \in [Tasks -> [at : Points, id : Calls \cup {None}]]
    /\ \A t \in Tasks : task[t].at \in PointsOf(t)
    /\ restarts \in 0..MaxRestarts

\* The operation lock belongs to the one task that is inside a section it
\* protects: no cancellation, failed command or _finish leaves it behind or
\* lets a second task in (self._operation_lock, manager.py).
LockOwned == \A t \in Tasks : operationLock = t <=> task[t].at \in Holding

\* A call with a SIP side is the call of the slot, is active, and is the one
\* whose WAV is prepared; every other call has neither (_finish, start_call).
SipCallOwned ==
    /\ sipCallStarted <=> prepared # None
    /\ sipCallStarted => prepared = call.id /\ call.state \in Active

\* A command in flight concerns the SIP call it was sent for and never the call
\* of a later request, although _finish frees the slot while the command is
\* pending; rejecting an inbound call never meets an outbound one.
CommandPoints == {"dial", "abort", "hangup", "ring_hangup", "est_audio", "est_abort"}
CommandsHitOwnCall ==
    \A t \in Tasks :
        /\ task[t].at \in CommandPoints /\ sipCallStarted => call.id = task[t].id
        /\ task[t].at = "inc_hangup" => ~sipCallStarted

\* Each WAV directory on disk has one owner, a request that waits to dial or the
\* dialled call: none is leaked when a call is cancelled, fails or ends, and
\* none is removed while a request still needs it.
WavsOwned ==
    /\ wavs = {c \in Calls : At(c, "lock")} \cup ({prepared} \ {None})
    /\ prepared # None => task[prepared].at \notin {"new", "prepare", "lock"}

\* Timers that are still running are referenced, so that _finish can cancel
\* them, and are about the call in the slot, in a state that needs them.
LiveTimers == {t \in Timers : task[t].at \in {"sleep", "lock", "eof_lock", "hold", "reset"}}
TimersReferenced ==
    /\ LiveTimers \subseteq timers
    /\ \A t \in LiveTimers : task[t].id = call.id
    /\ "ring" \in LiveTimers => call.state \in Calling
    /\ "audio" \in LiveTimers => call.state = "connected"
    /\ "ending" \in LiveTimers => call.state = "ending"
    /\ "terminal" \in LiveTimers => call.state \in Terminal

\* The rate limit is checked again after the preparation (manager.py:133), and
\* only the call in the slot can have been recorded since the first check:
\* the second check never refuses.
SecondCheckRedundant ==
    \A c \in Calls :
        (At(c, "prepare") \/ At(c, "lock")) /\ IsCurrent(c, Calling) => RateAllows

\* Somebody will end the call in the slot: its request, a timer or a handler.
Stopping == task["shutdown"].at # "idle"
On(t, c, points) == task[t].at \in points /\ task[t].id = c
Supervised(c) ==
    CASE call.state \in Calling ->
            \/ task[c].at \in {"prepare", "lock", "dial", "abort"}
            \/ "ring" \in timers /\ On("ring", c, {"sleep", "lock"})
            \/ \E ch \in Channels : On(ch, c, {"est_abort"})
      [] call.state = "connected" ->
            \/ \E ch \in Channels : On(ch, c, {"est_audio", "est_abort"})
            \/ "audio" \in timers /\ On("audio", c, {"sleep", "eof_lock"})
      [] call.state = "ending" ->
            \/ On("ending", c, {"sleep"}) \/ On("ring", c, {"ring_hangup"})
            \/ \E t \in Hangups \cup Channels \cup {"audio"} : On(t, c, {"hangup"})
      [] call.state \in Terminal -> On("terminal", c, {"hold", "reset"})
      [] OTHER -> TRUE

\* DOCS.md: "WAV duration plus hangup_buffer_seconds is the fallback": an
\* active call never depends on an event of the SIP client alone to end.
CallSupervised == ~Stopping => Supervised(call.id)

\* ... which holds as long as no refresh has restarted the adapter.
CallSupervisedUnlessRestarted == restarts = 0 => CallSupervised

-----------------------------------------------------------------------------
(* What a step may never do                                                *)

\* start_call "return[s] the initial call state": the reply to a request that
\* dialled describes the call it placed.
ReplyIsOwnCall ==
    [][\A c \in Calls : At(c, "dial") /\ task'[c].at = "idle" => call'.id = c]_vars

\* The manager implements the published life cycle: no event, timer, failure
\* or cancellation shows a client a change that CallLifecycle does not allow.
Lifecycle == INSTANCE CallLifecycle WITH used <- {c \in Calls : ~At(c, "new")}
ImplementsLifecycle == Lifecycle!Spec

-----------------------------------------------------------------------------
(* Liveness.  Every sleep, preparation and command ends: commands have a   *)
(* timeout of 5 s (adapters.py:288), subprocesses and downloads one of     *)
(* their own (audio.py).  asyncio.Lock serves its waiters in order, so a   *)
(* task that waits for the operation lock is not overtaken for ever.       *)

Enter(t) ==
    \/ t \in Calls /\ (DialCancelled(t) \/ Dial(t))
    \/ t \in Hangups /\ Hangup(t)
    \/ t \in Channels /\ (OnEstablished(t) \/ RejectIncoming(t))
    \/ t \in Channels \cup {"audio"} /\ HangupAfterAudio(t)
    \/ t = "ring" /\ RingTimeout
    \/ t = "shutdown" /\ Shutdown

Resume(t) ==
    \/ t \in Calls /\ (AudioPrepared(t) \/ AudioFailed(t) \/ Dialed(t)
                        \/ DialFailed(t) \/ DialAborted(t))
    \/ t \in Hangups \cup Channels \cup {"audio"} /\ (HangupSent(t) \/ HangupFailed(t))
    \/ t \in Channels /\ (AudioStarted(t) \/ AudioStartFailed(t)
                           \/ EstablishedAborted(t) \/ IncomingRejected(t) \/ CancelEnds(t))
    \/ t = "ring" /\ (RingElapsed \/ RingHangupDone("no_answer") \/ RingHangupDone("failed"))
    \/ t = "audio" /\ AudioDeadline
    \/ t = "ending" /\ EndingFallback
    \/ t = "terminal" /\ (TerminalShown \/ TerminalReset)
    \/ t = "shutdown" /\ (StopCancels \/ ShutdownDone)

Fairness == \A t \in Tasks : SF_vars(Enter(t)) /\ WF_vars(Resume(t))
LiveSpec == Spec /\ Fairness

\* Every call ends and frees the slot, although the SIP client may never report
\* anything: the ring timeout, the audio deadline, the ending fallback and the
\* terminal reset hand the call on until _call is the idle snapshot again (needs
\* an adapter that is not restarted).
CallEnds == []<>(call.id = None \/ Stopping)

\* Nobody waits for ever on the operation lock: each channel takes its next event
\* again and again, and since a request runs only once, there is always a time at
\* which all requests, and the shutdown, have been answered.
AtRest(t) == task[t].at \in {"new", "idle", "stopped"}
TasksComeToRest ==
    /\ \A ch \in Channels : []<>AtRest(ch)
    /\ []<>(\A t \in Calls \cup Hangups \cup {"shutdown"} : AtRest(t))
=============================================================================
