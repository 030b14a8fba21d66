----------------------------- MODULE CtrlChannel -----------------------------
(***************************************************************************)
(* The ctrl_tcp channel of the SIP adapter (talk_alarm/adapters.py).       *)
(*                                                                         *)
(* Commands go out one at a time under _command_lock; each registers a     *)
(* future in _pending under a fresh token and waits at most 5 s for it.    *)
(* One task reads what baresip sends: a response resolves the future of    *)
(* its token, an event goes into a bounded queue.  A second task, the      *)
(* event worker, takes the events in order and runs the manager's handler, *)
(* which may itself send commands.                                         *)
(*                                                                         *)
(* baresip is the environment: it answers commands in order, late or never,*)
(* reports events at any time, and may drop the connection.  Framing, JSON *)
(* and the contents of commands and events are left out: an event is its   *)
(* number, counted from the start of the connection.                       *)
(***************************************************************************)
EXTENDS Integers, Sequences, FiniteSets

CONSTANTS
    Senders,      \* tasks of the manager that send commands
    Worker,       \* the event worker, which sends commands from its handler
    None,
    QueueSize,    \* maxsize of _event_queue (256 in the code)
    MaxTokens,    \* bound: commands sent
    MaxEvents     \* bound: events of one connection

Tasks == Senders \cup {Worker}
Tokens == 1..MaxTokens

ASSUME WorkerAssumption == Worker \notin Senders /\ None \notin Tasks
ASSUME BoundsAssumption ==
    QueueSize \in Nat \ {0} /\ MaxTokens \in Nat /\ MaxEvents \in Nat

VARIABLES
    connected,     \* _ctrl_writer is there and not closing
    commandLock,   \* _command_lock: the task that holds it, or None
    command,       \* for every task where its command is, its token and last result
    pending,       \* _pending: the tokens with a future, and the future's state
    nextToken,     \* the next fresh token
    unanswered,    \* commands baresip has received and not answered, in order
    accepted,      \* tokens of the commands that baresip has accepted
    stream,        \* messages from baresip that the reader has not read, in order
    queue,         \* _event_queue
    sent,          \* events sent by baresip on this connection
    handled,       \* the last event the worker has taken
    handling,      \* the worker is in the manager's handler
    overflowed     \* an event of this connection was dropped

vars == <<connected, commandLock, command, pending, nextToken, unanswered, accepted,
          stream, queue, sent, handled, handling, overflowed>>
toBaresip == <<nextToken, unanswered, accepted>>
events == <<queue, sent, handled, handling, overflowed>>

Response(token, ok) == [kind |-> "response", token |-> token, ok |-> ok]
Event(n) == [kind |-> "event", number |-> n]
Resting(result, token) == [at |-> "idle", token |-> token, result |-> result]

Init ==
    /\ connected = TRUE
    /\ commandLock = None
    /\ command = [t \in Tasks |-> Resting("none", None)]
    /\ pending = <<>>
    /\ nextToken = 1
    /\ unanswered = <<>>
    /\ accepted = {}
    /\ stream = <<>>
    /\ queue = <<>>
    /\ sent = 0
    /\ handled = 0
    /\ handling = FALSE
    /\ overflowed = FALSE

-----------------------------------------------------------------------------
(* _command                                                                *)

\* The commands when _pending is cleared: a future that is already resolved is
\* not failed, and its command still returns the answer.
AnswersKept ==
    [t \in Tasks |->
        IF command[t].at = "wait" /\ command[t].token \in DOMAIN pending
           /\ pending[command[t].token] = "ok"
        THEN [command[t] EXCEPT !.result = "ok"] ELSE command[t]]

Without(token) == [k \in DOMAIN pending \ {token} |-> pending[k]]

\* A task of the manager, or the handler that the worker is in, sends a command.
Request(t) ==
    /\ command[t].at = "idle"
    /\ t = Worker => handling
    /\ command' = [command EXCEPT ![t] = [at |-> "lock", token |-> None, result |-> "none"]]
    /\ UNCHANGED <<connected, commandLock, pending, toBaresip, stream, events>>

\* Without a connection the command fails under the lock, which it leaves at once.
Unavailable(t) ==
    /\ command[t].at = "lock"
    /\ commandLock = None
    /\ ~connected
    /\ command' = [command EXCEPT ![t] = Resting("failed", None)]
    /\ UNCHANGED <<connected, commandLock, pending, toBaresip, stream, events>>

Send(t) ==
    /\ command[t].at = "lock"
    /\ commandLock = None
    /\ connected
    /\ nextToken \in Tokens
    /\ commandLock' = t
    /\ command' = [command EXCEPT ![t] = [at |-> "wait", token |-> nextToken, result |-> "none"]]
    /\ pending' = [k \in DOMAIN pending \cup {nextToken} |->
                     IF k = nextToken THEN "waiting" ELSE pending[k]]
    /\ nextToken' = nextToken + 1
    /\ unanswered' = Append(unanswered, nextToken)
    /\ UNCHANGED <<connected, accepted, stream, events>>

\* Mutant of Finished: the future of a command that failed stays in _pending.
FinishedKeepingFuture(t, result) ==
    /\ command' = [command EXCEPT ![t] = Resting(result, command[t].token)]
    /\ pending' = IF result = "ok" THEN Without(command[t].token) ELSE pending
    /\ commandLock' = None
    /\ UNCHANGED <<connected, toBaresip, stream, events>>

\* The end of a command: its future is forgotten and the lock is free.
Finished(t, result) ==
    /\ command' = [command EXCEPT ![t] = Resting(result, command[t].token)]
    /\ pending' = Without(command[t].token)
    /\ commandLock' = None
    /\ UNCHANGED <<connected, toBaresip, stream, events>>

\* The future is resolved and the task runs again.
Answered(t) ==
    /\ command[t].at = "wait"
    /\ command[t].token \in DOMAIN pending
    /\ pending[command[t].token] # "waiting"
    /\ Finished(t, IF pending[command[t].token] = "ok" THEN "ok" ELSE "failed")

\* _fail_pending has cleared _pending: its exception reaches the command, or the
\* answer that was there before it.
Lost(t) ==
    /\ command[t].at = "wait"
    /\ command[t].token \notin DOMAIN pending
    /\ Finished(t, IF command[t].result = "ok" THEN "ok" ELSE "failed")

\* Five seconds are over; the timeout wins even over a future just resolved.
TimedOut(t) ==
    /\ command[t].at = "wait"
    /\ Finished(t, "failed")

\* A timer of the manager is cancelled while it waits for the lock or the answer.
Cancelled(t) ==
    /\ t \in Senders
    /\ \/ command[t].at = "wait" /\ Finished(t, "failed")
       \/ /\ command[t].at = "lock"
          /\ command' = [command EXCEPT ![t] = Resting("failed", None)]
          /\ UNCHANGED <<connected, commandLock, pending, toBaresip, stream, events>>

-----------------------------------------------------------------------------
(* _read_ctrl_output and _handle_ctrl_message                              *)

\* Mutant of ReadResponse: the response is taken for that of whatever command waits.
ReadAnyResponse ==
    /\ connected /\ stream # <<>> /\ Head(stream).kind = "response"
    /\ pending' = [k \in DOMAIN pending |-> IF Head(stream).ok THEN "ok" ELSE "rejected"]
    /\ stream' = Tail(stream)
    /\ UNCHANGED <<connected, commandLock, command, toBaresip, events>>

\* A response resolves the future of its token; nobody waits for a late one.
ReadResponse ==
    /\ connected /\ stream # <<>> /\ Head(stream).kind = "response"
    /\ pending' = [k \in DOMAIN pending |->
                     IF k = Head(stream).token /\ pending[k] = "waiting"
                     THEN IF Head(stream).ok THEN "ok" ELSE "rejected"
                     ELSE pending[k]]
    /\ stream' = Tail(stream)
    /\ UNCHANGED <<connected, commandLock, command, toBaresip, events>>

\* Mutant of ReadEvent: the reader waits for room in the queue.
ReadEventBlocking ==
    /\ connected /\ stream # <<>> /\ Head(stream).kind = "event"
    /\ Len(queue) < QueueSize
    /\ queue' = Append(queue, Head(stream).number)
    /\ stream' = Tail(stream)
    /\ UNCHANGED <<connected, commandLock, command, pending, toBaresip, sent, handled,
                   handling, overflowed>>

\* Mutant of ReadEvent: an event is dropped from a full queue without a trace.
ReadEventSilently ==
    /\ connected /\ stream # <<>> /\ Head(stream).kind = "event"
    /\ queue' = IF Len(queue) < QueueSize THEN Append(queue, Head(stream).number) ELSE queue
    /\ stream' = Tail(stream)
    /\ UNCHANGED <<connected, commandLock, command, pending, toBaresip, sent, handled,
                   handling, overflowed>>

\* Mutant of ReadEvent: the limit of the queue is off by one.
ReadEventOneMore ==
    /\ connected /\ stream # <<>> /\ Head(stream).kind = "event"
    /\ IF Len(queue) <= QueueSize
       THEN queue' = Append(queue, Head(stream).number) /\ UNCHANGED overflowed
       ELSE overflowed' = TRUE /\ UNCHANGED queue
    /\ stream' = Tail(stream)
    /\ UNCHANGED <<connected, commandLock, command, pending, toBaresip, sent, handled,
                   handling>>

\* _queue_event: the reader never waits; a full queue drops the event and marks
\* the registration unhealthy.
ReadEvent ==
    /\ connected /\ stream # <<>> /\ Head(stream).kind = "event"
    /\ IF Len(queue) < QueueSize
       THEN queue' = Append(queue, Head(stream).number) /\ UNCHANGED overflowed
       ELSE overflowed' = TRUE /\ UNCHANGED queue
    /\ stream' = Tail(stream)
    /\ UNCHANGED <<connected, commandLock, command, pending, toBaresip, sent, handled,
                   handling>>

\* The reader meets the end of the stream: no writer, and every open future fails.
ConnectionLost ==
    /\ connected
    /\ connected' = FALSE
    /\ command' = AnswersKept
    /\ pending' = <<>>
    /\ stream' = <<>>
    /\ unanswered' = <<>>
    /\ UNCHANGED <<commandLock, nextToken, accepted, events>>

-----------------------------------------------------------------------------
(* _event_worker, and the adapter's stop and start                         *)

TakeEvent ==
    /\ ~handling
    /\ queue # <<>>
    /\ handled' = Head(queue)
    /\ queue' = Tail(queue)
    /\ handling' = TRUE
    /\ UNCHANGED <<connected, commandLock, command, pending, toBaresip, stream, sent,
                   overflowed>>

HandlerReturns ==
    /\ handling
    /\ command[Worker].at = "idle"
    /\ handling' = FALSE
    /\ UNCHANGED <<connected, commandLock, command, pending, toBaresip, stream, queue,
                   sent, handled, overflowed>>

\* stop() followed by start(): the worker is cancelled with the command it may
\* have in flight, queued events are discarded, and a new connection begins.
\* (A start() that finds a dead process and no stop before it discards nothing:
\* that is the case `replaced' of AdapterLifecycle, and not one of this module.)
Restart ==
    /\ command' = [AnswersKept EXCEPT ![Worker] = Resting("none", None)]
    /\ commandLock' = IF commandLock = Worker THEN None ELSE commandLock
    /\ pending' = <<>>
    /\ connected' = TRUE
    /\ stream' = <<>> /\ unanswered' = <<>>
    /\ queue' = <<>> /\ sent' = 0 /\ handled' = 0
    /\ handling' = FALSE /\ overflowed' = FALSE
    /\ UNCHANGED <<nextToken, accepted>>

-----------------------------------------------------------------------------
(* baresip                                                                 *)

Reply(ok) ==
    /\ connected
    /\ unanswered # <<>>
    /\ stream' = Append(stream, Response(Head(unanswered), ok))
    /\ unanswered' = Tail(unanswered)
    /\ accepted' = IF ok THEN accepted \cup {Head(unanswered)} ELSE accepted
    /\ UNCHANGED <<connected, commandLock, command, pending, nextToken, events>>

EmitEvent ==
    /\ connected
    /\ sent < MaxEvents
    /\ sent' = sent + 1
    /\ stream' = Append(stream, Event(sent'))
    /\ UNCHANGED <<connected, commandLock, command, pending, toBaresip, queue, handled,
                   handling, overflowed>>

CommandStep(t) ==
    Request(t) \/ Unavailable(t) \/ Send(t) \/ Answered(t) \/ Lost(t) \/ TimedOut(t)
    \/ Cancelled(t)

Next ==
    \/ \E t \in Tasks : CommandStep(t)
    \/ ReadResponse \/ ReadEvent \/ ConnectionLost
    \/ TakeEvent \/ HandlerReturns \/ Restart
    \/ (\E ok \in BOOLEAN : Reply(ok)) \/ EmitEvent

Spec == Init /\ [][Next]_vars

-----------------------------------------------------------------------------
(* Safety                                                                  *)

\* Every variable keeps its type, and the queue its limit.
TypeOK ==
    /\ connected \in BOOLEAN /\ handling \in BOOLEAN /\ overflowed \in BOOLEAN
    /\ commandLock \in Tasks \cup {None}
    /\ command \in [Tasks -> [at : {"idle", "lock", "wait"}, token : Tokens \cup {None},
                              result : {"none", "ok", "failed"}]]
    /\ DOMAIN pending \subseteq Tokens
    /\ \A k \in DOMAIN pending : pending[k] \in {"waiting", "ok", "rejected"}
    /\ nextToken \in 1..MaxTokens + 1
    /\ accepted \subseteq Tokens
    /\ unanswered \in Seq(Tokens)
    /\ queue \in Seq(1..MaxEvents) /\ Len(queue) <= QueueSize
    /\ sent \in 0..MaxEvents /\ handled \in 0..MaxEvents

\* The command lock belongs to the one task that waits for an answer, and only
\* the token of that task has a future: no timeout, lost connection or
\* cancelled handler leaves a future or the lock behind.
OneCommandInFlight ==
    /\ \A t \in Tasks : commandLock = t <=> command[t].at = "wait"
    /\ \A k \in DOMAIN pending : \E t \in Tasks : command[t].at = "wait" /\ command[t].token = k

\* A command reported as accepted was accepted by baresip: the late answer to a
\* command that timed out is never taken for that of the next command.
OkMeansAccepted ==
    \A t \in Tasks : command[t].result = "ok" => command[t].token \in accepted

IsEvent(message) == message.kind = "event"
InTurn(m1, m2) == IsEvent(m1) /\ IsEvent(m2) => m1.number < m2.number

\* Unless an overflow was flagged, the worker sees each event once and in order:
\* what it has not taken yet is in the queue and, behind that, in the stream,
\* without a gap, a repetition or an event out of turn.
EventsComplete ==
    LET queued == handled + Len(queue)
    IN  connected /\ ~overflowed =>
            /\ queued <= sent
            /\ \A i \in 1..Len(queue) : queue[i] = handled + i
            /\ \A n \in queued + 1..sent : \E i \in 1..Len(stream) : stream[i] = Event(n)
            /\ \A i \in 1..Len(stream) :
                IsEvent(stream[i]) => stream[i].number \in queued + 1..sent
            /\ \A i, j \in 1..Len(stream) :
                i < j => InTurn(stream[i], stream[j])

-----------------------------------------------------------------------------
(* Liveness.  While baresip answers, the tasks run and the connection is    *)
(* kept, no command needs its timeout: neither TimedOut, ConnectionLost nor *)
(* Restart is fair, and a command that waits for ever on an answer that the *)
(* reader cannot reach would show.                                          *)

Fairness ==
    /\ WF_vars(\E ok \in BOOLEAN : Reply(ok))
    /\ WF_vars(ReadResponse) /\ WF_vars(ReadEvent)
    /\ WF_vars(TakeEvent) /\ WF_vars(HandlerReturns)
    /\ \A t \in Tasks : WF_vars(Answered(t) \/ Lost(t)) /\ SF_vars(Send(t) \/ Unavailable(t))
LiveSpec == Spec /\ Fairness

\* "Queue events so ctrl_tcp responses can never deadlock behind handlers"
\* (_queue_event): every command ends by its answer, those of handlers included.
CommandsAnswered ==
    \A t \in Tasks : command[t].at = "wait" ~> command[t].at = "idle"
=============================================================================
