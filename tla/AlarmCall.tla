------------------------------ MODULE AlarmCall ------------------------------
(***************************************************************************)
(* An alarm call from end to end: the call manager (CallManager), the call *)
(* side of the SIP adapter (adapters.py: dial, hangup, start_audio and the *)
(* parsing of events) and baresip, the external SIP client.  The manager's *)
(* events are no longer arbitrary: baresip causes them, and two tasks of   *)
(* the adapter hand them over, each from a queue of its own: the worker    *)
(* those of the control connection, the reader those it finds in the lines *)
(* of standard output.  Nothing orders the two, and no event carries the   *)
(* identity of the call it is about.  Commands travel over one connection, *)
(* so baresip executes them in the order sent, also those whose sender has *)
(* given up waiting.                                                       *)
(*                                                                         *)
(* Left out, because other modules have them: progress events, restarts,   *)
(* shutdown and the expiry of attempts.                                    *)
(***************************************************************************)
EXTENDS CallManager, Sequences

CONSTANTS
    Worker, Reader, \* the two tasks that hand events over
    MayTimeOut,     \* the commands that baresip may answer too late
    LineTypes,      \* the events that baresip may (also) print as a line
    MaxInbound      \* bound: inbound calls

ASSUME AlarmAssumption ==
    /\ Channels = {Worker, Reader} /\ Worker # Reader
    /\ MayTimeOut \subseteq {"ausrc", "dial", "hangup"}
    /\ LineTypes \subseteq {"incoming", "established", "eof", "closed", "closed_486"}
    /\ MaxInbound \in Nat
    /\ {"silence", "inbound"} \cap (Tasks \cup {None}) = {}

VARIABLES
    wire,           \* commands sent and not yet executed, [name, arg]
    command,        \* the last command sent, and baresip's reply to it
    events,         \* _event_queue: [type, of]; `of' is not visible to the code
    lines,          \* lines of standard output that have not been read, likewise
    lastFailure,    \* _last_failure_reason is set
    source,         \* the WAV that baresip's audio source names
    sip,            \* baresip's call (call_max_calls 1): [of, answered, kept]
    inbound,        \* inbound calls so far
    busy,           \* history: calls whose callee was busy, in truth
    misled          \* history: calls to which an event of another was applied

baresip == <<source, sip, inbound, busy>>
adapter == <<wire, command, events, lines, lastFailure>>
systemVars == <<vars, adapter, baresip, misled>>

NoSip == [of |-> None, answered |-> FALSE, kept |-> FALSE]
NewSip(of) == [of |-> of, answered |-> FALSE, kept |-> FALSE]
Cmd(name, arg) == [name |-> name, arg |-> arg]

SystemInit ==
    /\ Init
    /\ wire = <<>> /\ command = [name |-> None, arg |-> None, reply |-> "none"]
    /\ events = <<>> /\ lines = <<>> /\ lastFailure = FALSE
    /\ source = "silence" /\ sip = NoSip /\ inbound = 0
    /\ busy = {} /\ misled = {}

-----------------------------------------------------------------------------
(* The adapter's commands                                                  *)

\* Mutants of FirstCommand: dial() forgets the silence; hangup() sends nothing
\* that would end a call.
DialAtOnce(point, c) ==
    CASE point = "dial" -> Cmd("dial", c)
      [] point = "est_audio" -> Cmd("ausrc", c)
      [] OTHER -> Cmd("hangup", None)

NoHangup(point, c) ==
    CASE point = "dial" -> Cmd("ausrc", "silence")
      [] point = "est_audio" -> Cmd("ausrc", c)
      [] OTHER -> Cmd("reginfo", None)

\* What a task sends when it reaches a control point: dial() begins with the
\* silence, start_audio(path) selects the alarm, and hangup() names no call.
FirstCommand(point, c) ==
    CASE point = "dial" -> Cmd("ausrc", "silence")
      [] point = "est_audio" -> Cmd("ausrc", c)
      [] OTHER -> Cmd("hangup", None)

Send(cmd) ==
    /\ wire' = Append(wire, cmd)
    /\ command' = [name |-> cmd.name, arg |-> cmd.arg, reply |-> "none"]

\* A manager step sends the command of the task that has come to wait for one.
Commands == Holding \ {"stop"}
SendsItsCommand ==
    LET senders == {t \in Tasks : task'[t].at \in Commands /\ task'[t] # task[t]}
    IN  IF senders = {} THEN UNCHANGED <<wire, command>>
        ELSE \E t \in senders : Send(FirstCommand(task'[t].at, task'[t].id))

DialKeepsReason(c) == Dial(c) /\ UNCHANGED lastFailure        \* mutant of DialFresh
\* dial() begins by forgetting the reason of an earlier failure.
DialFresh(c) ==
    /\ Dial(c)
    /\ lastFailure' = IF At(c, "lock") /\ task'[c].at = "dial" THEN FALSE ELSE lastFailure

\* dial(), second command: the source is silent, so place the call.
SendDial(c) ==
    /\ At(c, "dial")
    /\ command.name = "ausrc" /\ command.reply = "ok"
    /\ Send(Cmd("dial", c))
    /\ UNCHANGED <<vars, events, lines, lastFailure, baresip, misled>>

-----------------------------------------------------------------------------
(* Steps of the manager                                                    *)

\* Steps that neither take an event, nor dial, nor wait for a reply.
OtherStep ==
    \/ \E c \in Calls : StartCall(c) \/ AudioPrepared(c) \/ AudioFailed(c) \/ DialCancelled(c)
    \/ \E h \in Hangups : Hangup(h) \/ \E c \in Calls : HangupRequest(h, c)
    \/ \E ch \in Channels : OnEstablished(ch) \/ RejectIncoming(ch)
    \/ \E t \in Channels \cup {"audio"} : HangupAfterAudio(t)
    \/ RingElapsed \/ RingTimeout \/ AudioDeadline \/ EndingFallback
    \/ TerminalShown \/ TerminalReset

ManagerStep ==
    /\ \/ OtherStep /\ UNCHANGED lastFailure
       \/ \E c \in Calls : DialFresh(c)
    /\ SendsItsCommand
    /\ UNCHANGED <<events, lines, baresip, misled>>

\* The command was accepted.
Accepted ==
    \/ command.name = "dial" /\ \E c \in Calls : Dialed(c)
    \/ \E t \in Hangups \cup Channels \cup {"audio"} : HangupSent(t)
    \/ \E ch \in Channels : AudioStarted(ch)
    \/ RingHangupDone("no_answer")

\* The command was refused, or its answer came too late.
Refused ==
    \/ \E c \in Calls : DialFailed(c)
    \/ \E t \in Hangups \cup Channels \cup {"audio"} : HangupFailed(t)
    \/ \E ch \in Channels : AudioStartFailed(ch)
    \/ RingHangupDone("failed")

\* Hang-ups whose result is ignored.
EitherWay ==
    \/ \E c \in Calls : DialAborted(c)
    \/ \E ch \in Channels : EstablishedAborted(ch) \/ IncomingRejected(ch)

\* Five seconds are over, whether or not baresip has executed the command.
LateReply == command.name \in MayTimeOut
Reply ==
    /\ \/ command.reply = "ok" /\ (Accepted \/ EitherWay)
       \/ (command.reply = "error" \/ LateReply) /\ (Refused \/ EitherWay)
    /\ SendsItsCommand
    /\ UNCHANGED <<events, lines, lastFailure, baresip, misled>>

\* What waits for the worker and what waits for the reader.
Queue(ch) == IF ch = Worker THEN events ELSE lines
TakesFrom(ch) ==
    /\ Queue(ch) # <<>> /\ At(ch, "idle")
    /\ IF ch = Worker THEN events' = Tail(events) /\ UNCHANGED lines
                      ELSE lines' = Tail(lines) /\ UNCHANGED events

\* The worker takes the next event (_parse_ctrl_event), or the reader the next
\* line (_parse_line), and hands it over (handle_adapter_event).  A line may only
\* tell a reason; the reason of a CALL_CLOSED without a status code is the one
\* that was told last, and every CALL_CLOSED forgets it.
TakeReport(ch) ==
    LET e == Head(Queue(ch)) IN
    /\ TakesFrom(ch)
    /\ \/ e.type = "incoming" /\ CallIncoming(ch)
       \/ e.type = "established" /\ CallEstablished(ch)
       \/ e.type = "eof" /\ AudioEof(ch)
       \/ /\ e.type \in {"closed", "closed_486"}
          /\ CallClosed(ch, IF e.type = "closed_486" \/ lastFailure THEN "busy" ELSE "failed")
       \/ e.type # "incoming" /\ (~Receives(ch) \/ e.type = "busy") /\ UNCHANGED vars
    /\ lastFailure' = (e.type = "busy" \/ (lastFailure /\ e.type \notin {"closed", "closed_486"}))
    /\ misled' = IF sipCallStarted /\ e.type # "incoming" /\ e.of # call.id
                 THEN misled \cup {call.id} ELSE misled
    /\ UNCHANGED <<wire, command, baresip>>

-----------------------------------------------------------------------------
(* baresip: external, as far as src/ relies on it                          *)

\* A report goes into the control connection or is printed behind what has been
\* written, or both.
Emit(type, of, written) ==
    LET report == [type |-> type, of |-> of] IN
    \/ events' = Append(events, report) /\ lines' = written
    \/ /\ type \in LineTypes
       /\ lines' = Append(written, report)
       /\ events' \in {events, Append(events, report)}

\* Whether the head of the wire is the command that somebody waits for.
Awaited == Len(wire) = 1 /\ operationLock # None
Answer(reply) ==
    /\ wire' = Tail(wire)
    /\ command' = IF Awaited THEN [command EXCEPT !.reply = reply] ELSE command
    /\ UNCHANGED <<vars, lastFailure, inbound, busy, misled>>

\* Any command may be refused, and a hang-up without a call accepted.
Execute ==
    LET cmd == Head(wire) IN
    /\ wire # <<>>
    /\ \/ /\ cmd.name = "ausrc"
          /\ source' = cmd.arg
          /\ Answer("ok") /\ UNCHANGED <<sip, events, lines>>
       \/ /\ cmd.name = "dial" /\ sip = NoSip
          /\ sip' = NewSip(cmd.arg)
          /\ Answer("ok") /\ UNCHANGED <<source, events, lines>>
       \/ /\ cmd.name = "hangup" /\ sip # NoSip
          /\ sip' = NoSip /\ Emit("closed", sip.of, lines)
          /\ Answer("ok") /\ UNCHANGED source
       \/ /\ cmd.name = "hangup" /\ sip = NoSip
          /\ Answer("ok") /\ UNCHANGED <<source, sip, events, lines>>
       \/ /\ sip' = [sip EXCEPT !.kept = @ \/ (sip # NoSip /\ cmd.name = "hangup")]
          /\ Answer("error") /\ UNCHANGED <<source, events, lines>>

\* The callee answers.
Answered ==
    /\ sip.of \in Calls /\ ~sip.answered
    /\ sip' = [sip EXCEPT !.answered = TRUE]
    /\ Emit("established", sip.of, lines)
    /\ UNCHANGED <<vars, wire, command, lastFailure, source, inbound, busy, misled>>

\* The alarm has been played to its end.
Played ==
    /\ sip.answered /\ source # "silence"
    /\ \A ch \in Channels : \A i \in DOMAIN Queue(ch) : Queue(ch)[i].type # "eof"
    /\ Emit("eof", sip.of, lines)
    /\ UNCHANGED <<vars, wire, command, lastFailure, baresip, misled>>

\* The other side, or a timeout of baresip, closes the call.
Closed ==
    /\ sip # NoSip
    /\ sip' = NoSip /\ Emit("closed", sip.of, lines)
    /\ UNCHANGED <<vars, wire, command, lastFailure, source, inbound, busy, misled>>

\* The callee is busy: a line of output, and a status code in the event or not.
Busy ==
    /\ sip.of \in Calls /\ ~sip.answered
    /\ sip' = NoSip /\ busy' = busy \cup {sip.of}
    /\ \E type \in {"closed", "closed_486"} :
          Emit(type, sip.of, Append(lines, [type |-> "busy", of |-> sip.of]))
    /\ UNCHANGED <<vars, wire, command, lastFailure, source, inbound, misled>>

Incoming ==
    /\ inbound < MaxInbound /\ sip = NoSip
    /\ inbound' = inbound + 1
    /\ sip' = NewSip("inbound")
    /\ Emit("incoming", "inbound", lines)
    /\ UNCHANGED <<vars, wire, command, lastFailure, source, busy, misled>>

SystemNext ==
    \/ ManagerStep \/ Reply \/ \E c \in Calls : SendDial(c)
    \/ \E ch \in Channels : TakeReport(ch)
    \/ Execute \/ Answered \/ Played \/ Closed \/ Busy \/ Incoming

SystemSpec == SystemInit /\ [][SystemNext]_systemVars

-----------------------------------------------------------------------------
\* DOCS.md: "Alarm audio is never selected as the SIP source before
\* CALL_ESTABLISHED": while a callee has not answered, the source is silent,
\* although ausrc changes a global default that outlives each call.
Plays(c) == sip.of = c /\ ~sip.answered /\ source # "silence"
AlarmOnlyAfterAnswer == \A c \in Calls : ~Plays(c)

\* ... which holds whatever is late or refused (dial, start_audio), as long as no
\* event of another call is applied: an alarm that is heard too early is that of a
\* call to which one was.
AlarmOnlyAfterAnswerUnlessMisled == \A c \in Calls : Plays(c) => source \in misled

\* No SIP call is left to itself, whatever the dial or the audio command came to
\* (start_call, _on_established): the outbound call that baresip has is the one
\* in the slot with its WAV on disk, or a hang-up is on its way, unless baresip
\* has refused one or an event of another call has ended it for the manager.
HangupOnItsWay == \E i \in DOMAIN wire : wire[i].name = "hangup"
InSlot(c) == sipCallStarted /\ call.id = c
SipCallManaged ==
    sip.of \in Calls \ misled =>
        HangupOnItsWay \/ sip.kept \/ (InSlot(sip.of) /\ sip.of \in wavs)

\* A hang-up names no call and may be executed long after its sender has given it
\* up: it never meets an outbound call that the manager has not decided to end
\* (hangup, _reject_incoming_call, start_call).
Aborted(c) == At(c, "abort") \/ \E ch \in Channels : On(ch, c, {"est_abort"})
HangupsHitTheirCall ==
    [][\A c \in Calls :
         /\ wire # <<>> /\ wire' = Tail(wire) /\ Head(wire).name = "hangup"
         /\ sip.of = c /\ InSlot(c)
         => call.state = "ending" \/ Aborted(c)]_systemVars

\* A call is published as busy only when its callee was, although the reason may
\* come from a line of output, read at another time than the event: a reason that
\* was told before the dial is forgotten (_last_failure_reason).
ReasonIsOwn == call.state = "busy" => call.id \in busy \cup misled

\* manager.py: "Reject inbound calls without disrupting an active outbound call":
\* the end of an inbound call never ends the outbound one.
InboundEndsAlone ==
    [][\A ch \in Channels : TakesFrom(ch) /\ Head(Queue(ch)).of = "inbound"
         => call' = call]_systemVars
=============================================================================
