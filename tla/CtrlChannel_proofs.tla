-------------------------- MODULE CtrlChannel_proofs --------------------------
(* Proofs about the control channel, for any number of tasks, tokens and   *)
(* events and any size of the queue.                                       *)
EXTENDS CtrlChannel, TLAPS

Messages ==
    [kind : {"response"}, token : Tokens, ok : BOOLEAN]
    \cup [kind : {"event"}, number : 1..MaxEvents]

\* What every future, and every response that the reader has still to read,
\* says of a command is true of it.
TellsTruth ==
    /\ \A k \in DOMAIN pending : pending[k] = "ok" => k \in accepted
    /\ \A i \in 1..Len(stream) :
        stream[i].kind = "response" /\ stream[i].ok => stream[i].token \in accepted

ChannelInv ==
    /\ TypeOK /\ stream \in Seq(Messages)
    /\ OneCommandInFlight
    /\ TellsTruth
    /\ OkMeansAccepted

LEMMA ChannelInvInit == Init => ChannelInv
<1> SUFFICES ASSUME Init PROVE ChannelInv
  OBVIOUS
<1>1. /\ \A t \in Tasks : command[t] = [at |-> "idle", token |-> None, result |-> "none"]
      /\ DOMAIN pending = {} /\ commandLock = None
      /\ stream = <<>> /\ queue = <<>> /\ unanswered = <<>>
  BY DEF Init, Resting
<1>2. TypeOK
  <2>1. command \in [Tasks -> [at : {"idle", "lock", "wait"}, token : Tokens \cup {None},
                               result : {"none", "ok", "failed"}]]
    BY DEF Init, Resting
  <2>2. unanswered \in Seq(Tokens) /\ queue \in Seq(1..MaxEvents) /\ Len(queue) <= QueueSize
    BY <1>1, BoundsAssumption
  <2>3. nextToken \in 1..MaxTokens + 1 /\ sent \in 0..MaxEvents /\ handled \in 0..MaxEvents
    BY BoundsAssumption DEF Init
  <2>4. \A k \in DOMAIN pending : pending[k] \in {"waiting", "ok", "rejected"}
    BY <1>1
  <2> QED
    BY <1>1, <2>1, <2>2, <2>3, <2>4 DEF Init, TypeOK
<1>3. OneCommandInFlight /\ OkMeansAccepted /\ TellsTruth
  BY <1>1, WorkerAssumption DEF OneCommandInFlight, OkMeansAccepted, TellsTruth
<1> QED
  BY <1>1, <1>2, <1>3 DEF ChannelInv

-----------------------------------------------------------------------------
(* Commands                                                                *)

LEMMA RequestPreserves ==
    ASSUME ChannelInv, NEW t \in Tasks, Request(t)
    PROVE  ChannelInv'
BY DEF Request, ChannelInv, TypeOK, OneCommandInFlight, TellsTruth, OkMeansAccepted,
       toBaresip, events

\* A command that comes to rest without having been sent.
LEMMA UnsentPreserves ==
    ASSUME ChannelInv, NEW t \in Tasks, command[t].at = "lock",
           command' = [command EXCEPT ![t] = Resting("failed", None)],
           UNCHANGED <<connected, commandLock, pending, toBaresip, stream, events>>
    PROVE  ChannelInv'
BY DEF ChannelInv, TypeOK, OneCommandInFlight, TellsTruth, OkMeansAccepted, Resting,
       toBaresip, events

\* The lock is free, so no future is left when a command registers its own.
LEMMA SendPreserves ==
    ASSUME ChannelInv, NEW t \in Tasks, Send(t)
    PROVE  ChannelInv'
<1>1. /\ commandLock = None /\ command[t].at = "lock" /\ nextToken \in Tokens
      /\ \A s \in Tasks : command[s].at # "wait"
      /\ DOMAIN pending = {}
  BY WorkerAssumption DEF Send, ChannelInv, OneCommandInFlight
<1>2. DOMAIN pending' = {nextToken} /\ pending'[nextToken] = "waiting"
  BY <1>1 DEF Send
<1>3. /\ command'[t] = [at |-> "wait", token |-> nextToken, result |-> "none"]
      /\ \A s \in Tasks \ {t} : command'[s] = command[s]
  BY DEF Send, ChannelInv, TypeOK
<1>4. TypeOK'
  <2>1. nextToken' \in 1..MaxTokens + 1
    BY <1>1, BoundsAssumption DEF Send, Tokens, ChannelInv, TypeOK
  <2>2. unanswered' \in Seq(Tokens)
    BY <1>1 DEF Send, ChannelInv, TypeOK
  <2> QED
    BY <1>1, <1>2, <2>1, <2>2 DEF Send, ChannelInv, TypeOK, events
<1>5. OneCommandInFlight'
  BY <1>1, <1>2, <1>3, WorkerAssumption DEF Send, OneCommandInFlight
<1>6. TellsTruth'
  BY <1>2 DEF Send, ChannelInv, TellsTruth
<1>7. OkMeansAccepted'
  BY <1>3 DEF Send, ChannelInv, OkMeansAccepted
<1> QED
  BY <1>4, <1>5, <1>6, <1>7 DEF ChannelInv, Send

\* Only the task that waits has a future, and it takes it away when it ends.
LEMMA FinishedPreserves ==
    ASSUME ChannelInv, NEW t \in Tasks, NEW result \in {"ok", "failed"}, Finished(t, result),
           command[t].at = "wait", result = "ok" => command[t].token \in accepted
    PROVE  ChannelInv'
<1>1. /\ command'[t] = Resting(result, command[t].token)
      /\ \A s \in Tasks \ {t} : command'[s] = command[s]
      /\ commandLock' = None
      /\ UNCHANGED <<connected, toBaresip, stream, events>>
  BY DEF Finished, ChannelInv, TypeOK
<1>2. \A s \in Tasks \ {t} : command[s].at # "wait"
  BY DEF ChannelInv, OneCommandInFlight
<1>3. DOMAIN pending' = {}
  BY <1>2 DEF Finished, Without, ChannelInv, OneCommandInFlight
<1>4. TypeOK'
  BY <1>1, <1>3 DEF Finished, ChannelInv, TypeOK, Resting, toBaresip, events
<1>5. OneCommandInFlight'
  BY <1>1, <1>2, <1>3, WorkerAssumption DEF OneCommandInFlight, Resting
<1>6. TellsTruth'
  BY <1>1, <1>3 DEF ChannelInv, TellsTruth, toBaresip
<1>7. OkMeansAccepted'
  BY <1>1 DEF ChannelInv, OkMeansAccepted, Resting, toBaresip
<1> QED
  BY <1>1, <1>4, <1>5, <1>6, <1>7 DEF ChannelInv

LEMMA CommandPreserves ==
    ASSUME ChannelInv, NEW t \in Tasks, CommandStep(t)
    PROVE  ChannelInv'
<1>1. CASE Request(t)
  BY <1>1, RequestPreserves
<1>2. CASE Unavailable(t)
  BY <1>2, UnsentPreserves DEF Unavailable
<1>3. CASE Send(t)
  BY <1>3, SendPreserves
<1>4. CASE Answered(t)
  BY <1>4, FinishedPreserves DEF Answered, ChannelInv, TellsTruth
<1>5. CASE Lost(t) \/ TimedOut(t)
  BY <1>5, FinishedPreserves DEF Lost, TimedOut, ChannelInv, OkMeansAccepted
<1>6. CASE Cancelled(t)
  BY <1>6, FinishedPreserves, UnsentPreserves DEF Cancelled
<1> QED
  BY <1>1, <1>2, <1>3, <1>4, <1>5, <1>6 DEF CommandStep

-----------------------------------------------------------------------------
(* The reader, the worker and baresip                                      *)

LEMMA ReadResponsePreserves ==
    ASSUME ChannelInv, ReadResponse
    PROVE  ChannelInv'
<1>1. /\ stream \in Seq(Messages) /\ stream # <<>>
      /\ Head(stream) = stream[1] /\ 1 \in 1..Len(stream)
      /\ Head(stream).ok => Head(stream).token \in accepted
      /\ UNCHANGED <<connected, commandLock, command, toBaresip, events>>
  BY DEF ReadResponse, ChannelInv, TellsTruth
<1>2. /\ DOMAIN pending' = DOMAIN pending
      /\ \A k \in DOMAIN pending :
            \/ pending'[k] = pending[k]
            \/ pending'[k] = "rejected"
            \/ pending'[k] = "ok" /\ k \in accepted
  BY <1>1 DEF ReadResponse
<1>3. /\ stream' \in Seq(Messages)
      /\ \A i \in 1..Len(stream') : stream'[i] = stream[i + 1] /\ i + 1 \in 1..Len(stream)
  BY <1>1 DEF ReadResponse
<1>4. TypeOK' /\ OneCommandInFlight' /\ OkMeansAccepted'
  BY <1>1, <1>2 DEF ChannelInv, TypeOK, OneCommandInFlight, OkMeansAccepted, toBaresip, events
<1>5. TellsTruth'
  BY <1>1, <1>2, <1>3 DEF ChannelInv, TellsTruth, toBaresip
<1> QED
  BY <1>3, <1>4, <1>5 DEF ChannelInv

LEMMA ReadEventPreserves ==
    ASSUME ChannelInv, ReadEvent
    PROVE  ChannelInv'
<1>1. /\ stream \in Seq(Messages) /\ stream # <<>> /\ Head(stream) \in Messages
      /\ Head(stream).number \in 1..MaxEvents
  BY DEF ReadEvent, ChannelInv, Messages
<1>2. queue' \in Seq(1..MaxEvents) /\ Len(queue') <= QueueSize
  <2>1. queue \in Seq(1..MaxEvents) /\ QueueSize \in Nat /\ Len(queue) <= QueueSize
    BY BoundsAssumption DEF ChannelInv, TypeOK
  <2>2. CASE Len(queue) < QueueSize
    <3>1. queue' = Append(queue, Head(stream).number) /\ Len(queue) \in Nat
      BY <2>1, <2>2 DEF ReadEvent
    <3>2. Len(queue') = Len(queue) + 1 /\ queue' \in Seq(1..MaxEvents)
      BY <1>1, <2>1, <3>1
    <3> QED
      BY <2>1, <2>2, <3>1, <3>2
  <2>3. CASE ~(Len(queue) < QueueSize)
    BY <2>1, <2>3 DEF ReadEvent
  <2> QED
    BY <2>2, <2>3
<1>3. /\ stream' \in Seq(Messages)
      /\ \A i \in 1..Len(stream') : stream'[i] = stream[i + 1] /\ i + 1 \in 1..Len(stream)
  BY <1>1 DEF ReadEvent
<1>4. TypeOK'
  BY <1>2 DEF ReadEvent, ChannelInv, TypeOK, toBaresip
<1>5. OneCommandInFlight' /\ OkMeansAccepted'
  BY DEF ReadEvent, ChannelInv, OneCommandInFlight, OkMeansAccepted, toBaresip
<1>6. TellsTruth'
  BY <1>3 DEF ReadEvent, ChannelInv, TellsTruth, toBaresip
<1> QED
  BY <1>3, <1>4, <1>5, <1>6 DEF ChannelInv

\* An answer that is kept when _pending is cleared changes nothing but the result
\* of its command, and baresip has accepted that command.
LEMMA AnswersKeptTruthful ==
    ASSUME ChannelInv
    PROVE  /\ AnswersKept \in [Tasks -> [at : {"idle", "lock", "wait"},
                                         token : Tokens \cup {None},
                                         result : {"none", "ok", "failed"}]]
           /\ \A t \in Tasks :
                /\ AnswersKept[t].at = command[t].at /\ AnswersKept[t].token = command[t].token
                /\ AnswersKept[t].result = "ok" => command[t].token \in accepted
<1>1. ASSUME NEW t \in Tasks
      PROVE  \/ AnswersKept[t] = command[t]
             \/ /\ AnswersKept[t] = [command[t] EXCEPT !.result = "ok"]
                /\ command[t].token \in accepted
  BY DEF AnswersKept, ChannelInv, TellsTruth
<1>2. \A t \in Tasks : command[t] \in [at : {"idle", "lock", "wait"},
                                       token : Tokens \cup {None},
                                       result : {"none", "ok", "failed"}]
  BY DEF ChannelInv, TypeOK
<1>3. \A t \in Tasks : command[t].result = "ok" => command[t].token \in accepted
  BY DEF ChannelInv, OkMeansAccepted
<1>4. \A t \in Tasks : /\ AnswersKept[t] \in [at : {"idle", "lock", "wait"},
                                                token : Tokens \cup {None},
                                                result : {"none", "ok", "failed"}]
                       /\ AnswersKept[t].at = command[t].at
                       /\ AnswersKept[t].token = command[t].token
                       /\ AnswersKept[t].result = "ok" => command[t].token \in accepted
  BY <1>1, <1>2, <1>3
<1> QED
  BY <1>4 DEF AnswersKept

LEMMA ConnectionLostPreserves ==
    ASSUME ChannelInv, ConnectionLost
    PROVE  ChannelInv'
<1>1. DOMAIN pending' = {} /\ stream' = <<>> /\ unanswered' = <<>> /\ connected' = FALSE
      /\ command' = AnswersKept
      /\ UNCHANGED <<commandLock, nextToken, accepted, events>>
  BY DEF ConnectionLost
<1>2. TypeOK'
  <2>1. unanswered' \in Seq(Tokens)
    BY <1>1
  <2>2. \A k \in DOMAIN pending' : pending'[k] \in {"waiting", "ok", "rejected"}
    BY <1>1
  <2> QED
    BY <1>1, <2>1, <2>2, AnswersKeptTruthful DEF ChannelInv, TypeOK, events
<1> QED
  BY <1>1, <1>2, AnswersKeptTruthful
  DEF ChannelInv, OneCommandInFlight, TellsTruth, OkMeansAccepted

LEMMA WorkerPreserves ==
    ASSUME ChannelInv, TakeEvent \/ HandlerReturns
    PROVE  ChannelInv'
<1>1. UNCHANGED <<connected, commandLock, command, pending, toBaresip, stream, sent, overflowed>>
  BY DEF TakeEvent, HandlerReturns
<1>2. /\ handling' \in BOOLEAN /\ handled' \in 0..MaxEvents
      /\ queue' \in Seq(1..MaxEvents) /\ Len(queue') <= QueueSize
  <2>1. queue \in Seq(1..MaxEvents) /\ Len(queue) <= QueueSize /\ handled \in 0..MaxEvents
        /\ QueueSize \in Nat /\ MaxEvents \in Nat
    BY BoundsAssumption DEF ChannelInv, TypeOK
  <2>2. CASE TakeEvent
    <3>1. Head(queue) \in 1..MaxEvents /\ Tail(queue) \in Seq(1..MaxEvents)
          /\ Len(Tail(queue)) = Len(queue) - 1 /\ Len(queue) \in Nat
      BY <2>1, <2>2 DEF TakeEvent
    <3> QED
      BY <2>1, <2>2, <3>1 DEF TakeEvent
  <2>3. CASE HandlerReturns
    BY <2>1, <2>3 DEF HandlerReturns
  <2> QED
    BY <2>2, <2>3
<1> QED
  BY <1>1, <1>2 DEF ChannelInv, TypeOK, OneCommandInFlight, TellsTruth, OkMeansAccepted, toBaresip

LEMMA RestartPreserves ==
    ASSUME ChannelInv, Restart
    PROVE  ChannelInv'
<1>1. /\ command'[Worker] = Resting("none", None) /\ Worker \in Tasks
      /\ \A t \in Tasks \ {Worker} : command'[t] = AnswersKept[t]
  BY AnswersKeptTruthful DEF Restart, Tasks
<1>2. TypeOK'
  <2>1. command' \in [Tasks -> [at : {"idle", "lock", "wait"}, token : Tokens \cup {None},
                                result : {"none", "ok", "failed"}]]
    BY AnswersKeptTruthful DEF Restart, Resting
  <2>2. unanswered' = <<>> /\ queue' = <<>> /\ pending' = <<>>
    BY DEF Restart
  <2>3. unanswered' \in Seq(Tokens) /\ queue' \in Seq(1..MaxEvents) /\ Len(queue') <= QueueSize
    BY <2>2, BoundsAssumption
  <2>4. sent' \in 0..MaxEvents /\ handled' \in 0..MaxEvents
    BY BoundsAssumption DEF Restart
  <2>5. DOMAIN pending' = {}
    BY <2>2
  <2>6. commandLock' \in Tasks \cup {None} /\ connected' \in BOOLEAN
        /\ handling' \in BOOLEAN /\ overflowed' \in BOOLEAN
    BY DEF Restart, ChannelInv, TypeOK
  <2>7. UNCHANGED <<nextToken, accepted>>
    BY DEF Restart
  <2> QED
    BY <2>1, <2>3, <2>4, <2>5, <2>6, <2>7 DEF ChannelInv, TypeOK
<1>3. OneCommandInFlight'
  BY <1>1, AnswersKeptTruthful, WorkerAssumption
  DEF Restart, ChannelInv, OneCommandInFlight, Resting
<1>4. TellsTruth' /\ OkMeansAccepted'
  BY <1>1, AnswersKeptTruthful
  DEF Restart, ChannelInv, TellsTruth, OkMeansAccepted, Resting
<1> QED
  BY <1>2, <1>3, <1>4 DEF Restart, ChannelInv

LEMMA ReplyPreserves ==
    ASSUME ChannelInv, NEW ok \in BOOLEAN, Reply(ok)
    PROVE  ChannelInv'
<1> DEFINE token == Head(unanswered)
           message == Response(token, ok)
<1>1. unanswered \in Seq(Tokens) /\ token \in Tokens /\ Tail(unanswered) \in Seq(Tokens)
  BY DEF Reply, ChannelInv, TypeOK
<1>2. /\ message \in Messages
      /\ message.kind = "response" /\ message.token = token /\ message.ok = ok
  BY <1>1 DEF Response, Messages
<1>3. accepted \subseteq accepted' /\ accepted' \subseteq Tokens /\ (ok => token \in accepted')
  BY <1>1 DEF Reply, ChannelInv, TypeOK
<1>4. /\ stream' \in Seq(Messages) /\ Len(stream') = Len(stream) + 1
      /\ stream'[Len(stream) + 1] = message /\ Len(stream) \in Nat
      /\ \A i \in 1..Len(stream) : stream'[i] = stream[i]
  BY <1>2 DEF Reply, ChannelInv
<1>5. TypeOK'
  BY <1>1, <1>3 DEF Reply, ChannelInv, TypeOK, events
<1>6. OneCommandInFlight' /\ OkMeansAccepted'
  BY <1>3 DEF Reply, ChannelInv, OneCommandInFlight, OkMeansAccepted
<1>7. TellsTruth'
  BY <1>2, <1>3, <1>4 DEF Reply, ChannelInv, TellsTruth
<1> QED
  BY <1>4, <1>5, <1>6, <1>7 DEF ChannelInv

LEMMA EmitEventPreserves ==
    ASSUME ChannelInv, EmitEvent
    PROVE  ChannelInv'
<1>1. sent' \in 0..MaxEvents /\ sent' \in 1..MaxEvents
  BY BoundsAssumption DEF EmitEvent, ChannelInv, TypeOK
<1>2. Event(sent') \in Messages /\ Event(sent').kind = "event"
  BY <1>1 DEF Event, Messages
<1>3. /\ stream' \in Seq(Messages) /\ Len(stream') = Len(stream) + 1
      /\ stream'[Len(stream) + 1] = Event(sent') /\ Len(stream) \in Nat
      /\ \A i \in 1..Len(stream) : stream'[i] = stream[i]
  BY <1>2 DEF EmitEvent, ChannelInv
<1>4. TypeOK'
  BY <1>1 DEF EmitEvent, ChannelInv, TypeOK, toBaresip
<1>5. OneCommandInFlight' /\ OkMeansAccepted'
  BY DEF EmitEvent, ChannelInv, OneCommandInFlight, OkMeansAccepted, toBaresip
<1>6. TellsTruth'
  BY <1>2, <1>3 DEF EmitEvent, ChannelInv, TellsTruth, toBaresip
<1> QED
  BY <1>3, <1>4, <1>5, <1>6 DEF ChannelInv

LEMMA ChannelInvNext == ChannelInv /\ [Next]_vars => ChannelInv'
<1> SUFFICES ASSUME ChannelInv, [Next]_vars PROVE ChannelInv'
  OBVIOUS
<1>1. ASSUME NEW t \in Tasks, CommandStep(t) PROVE ChannelInv'
  BY <1>1, CommandPreserves
<1>2. CASE ReadResponse \/ ReadEvent \/ ConnectionLost
  BY <1>2, ReadResponsePreserves, ReadEventPreserves, ConnectionLostPreserves
<1>3. CASE TakeEvent \/ HandlerReturns \/ Restart
  BY <1>3, WorkerPreserves, RestartPreserves
<1>4. CASE (\E ok \in BOOLEAN : Reply(ok)) \/ EmitEvent
  BY <1>4, ReplyPreserves, EmitEventPreserves
<1>5. CASE UNCHANGED vars
  BY <1>5 DEF vars, toBaresip, events, ChannelInv, TypeOK, OneCommandInFlight, TellsTruth,
              OkMeansAccepted
<1> QED
  BY <1>1, <1>2, <1>3, <1>4, <1>5 DEF Next

LEMMA ChannelInvHolds == Spec => []ChannelInv
BY ChannelInvInit, ChannelInvNext, PTL DEF Spec

-----------------------------------------------------------------------------
(* The events.  The reader takes the head of the stream: were it not the   *)
(* event after the last one queued, that event would come later in the     *)
(* stream, with a smaller number.                                          *)

LEMMA ReadEventComplete ==
    ASSUME ChannelInv, EventsComplete, ReadEvent
    PROVE  EventsComplete'
<1> SUFFICES ASSUME ~overflowed' PROVE EventsComplete'
  BY DEF EventsComplete
<1> DEFINE next == handled + Len(queue) + 1
<1>1. /\ handled \in Nat /\ sent \in Nat /\ Len(queue) \in Nat /\ next \in Nat
      /\ queue \in Seq(1..MaxEvents) /\ stream \in Seq(Messages) /\ stream # <<>>
      /\ Len(stream) \in Nat /\ 1 \in 1..Len(stream) /\ Head(stream) = stream[1]
  BY BoundsAssumption DEF ReadEvent, ChannelInv, TypeOK
<1>2. CASE ~(Len(queue) < QueueSize)
  BY <1>2 DEF ReadEvent
<1>3. CASE Len(queue) < QueueSize
  <2>1. /\ connected /\ ~overflowed /\ IsEvent(stream[1])
        /\ queue' = Append(queue, stream[1].number) /\ stream' = Tail(stream)
        /\ UNCHANGED <<sent, handled>>
    BY <1>1, <1>3 DEF ReadEvent, IsEvent
  <2>2. /\ \A i \in 1..Len(queue) : queue[i] = handled + i
        /\ \A n \in next..sent : \E i \in 1..Len(stream) : stream[i] = Event(n)
        /\ \A i \in 1..Len(stream) : IsEvent(stream[i]) => stream[i].number \in next..sent
        /\ \A i, j \in 1..Len(stream) : i < j => InTurn(stream[i], stream[j])
    BY <2>1 DEF EventsComplete
  <2>3. \A n : IsEvent(Event(n)) /\ Event(n).number = n
    BY DEF Event, IsEvent
  <2>4. stream[1].number = next
    <3>1. stream[1].number \in next..sent
      BY <1>1, <2>1, <2>2
    <3>2. PICK i \in 1..Len(stream) : stream[i] = Event(next)
      BY <1>1, <2>2, <3>1
    <3>3. IsEvent(stream[i]) /\ stream[i].number = next
      BY <2>3, <3>2
    <3>4. i # 1 => stream[1].number < next
      BY <1>1, <2>1, <2>2, <3>2, <3>3 DEF InTurn
    <3> QED
      BY <1>1, <3>1, <3>3, <3>4
  <2>5. /\ Len(stream') = Len(stream) - 1
        /\ \A i \in 1..Len(stream') : /\ stream'[i] = stream[i + 1]
                                     /\ i + 1 \in 1..Len(stream)
    BY <1>1, <2>1
  <2>6. /\ Len(queue') = Len(queue) + 1 /\ queue'[Len(queue) + 1] = next
        /\ \A i \in 1..Len(queue) : queue'[i] = queue[i]
    <3>1. stream[1].number \in 1..MaxEvents
      BY <1>1, <2>1 DEF IsEvent, Messages
    <3> QED
      BY <1>1, <2>1, <2>4, <3>1
  <2>7. \A i \in 1..Len(queue') : queue'[i] = handled' + i
    <3> SUFFICES ASSUME NEW i \in 1..Len(queue') PROVE queue'[i] = handled + i
      BY <2>1
    <3>1. CASE i \in 1..Len(queue)
      BY <2>2, <2>6, <3>1
    <3>2. CASE i \notin 1..Len(queue)
      <4>1. i = Len(queue) + 1
        BY <1>1, <2>6, <3>2
      <4> QED
        BY <1>1, <2>6, <4>1
    <3> QED
      BY <3>1, <3>2
  <2>8. handled' + Len(queue') = next /\ sent' = sent /\ next <= sent
    <3>1. stream[1].number \in next..sent
      BY <1>1, <2>1, <2>2
    <3> QED
      BY <1>1, <2>1, <2>6, <3>1
  <2>9. ASSUME NEW n \in next + 1..sent
        PROVE  \E i \in 1..Len(stream') : stream'[i] = Event(n)
    <3>1. PICK i \in 1..Len(stream) : stream[i] = Event(n)
      BY <1>1, <2>2
    <3>2. i # 1
      BY <1>1, <2>3, <2>4, <3>1
    <3>3. i - 1 \in 1..Len(stream') /\ (i - 1) + 1 = i
      BY <1>1, <2>5, <3>2
    <3> QED
      BY <2>5, <3>1, <3>3
  <2>10. ASSUME NEW i \in 1..Len(stream'), IsEvent(stream'[i])
         PROVE  stream'[i].number \in next + 1..sent
    <3>1. i + 1 \in 1..Len(stream) /\ IsEvent(stream[i + 1]) /\ 1 < i + 1
      BY <2>5, <2>10, <1>1
    <3>2. stream[i + 1].number \in next..sent /\ stream[1].number < stream[i + 1].number
      BY <1>1, <2>1, <2>2, <3>1 DEF InTurn
    <3> QED
      BY <1>1, <2>4, <2>5, <3>2
  <2>11. ASSUME NEW i \in 1..Len(stream'), NEW j \in 1..Len(stream'), i < j
         PROVE  InTurn(stream'[i], stream'[j])
    <3>1. i + 1 \in 1..Len(stream) /\ j + 1 \in 1..Len(stream) /\ i + 1 < j + 1
      BY <2>5, <2>11
    <3> QED
      BY <2>2, <2>5, <3>1
  <2> HIDE DEF next
  <2> QED
    BY <2>7, <2>8, <2>9, <2>10, <2>11 DEF EventsComplete
<1> QED
  BY <1>2, <1>3

LEMMA ReadResponseComplete ==
    ASSUME ChannelInv, EventsComplete, ReadResponse
    PROVE  EventsComplete'
<1>1. /\ stream \in Seq(Messages) /\ stream # <<>> /\ Len(stream) \in Nat
      /\ stream' = Tail(stream) /\ stream[1].kind = "response"
      /\ UNCHANGED <<connected, queue, sent, handled, overflowed>>
  BY DEF ReadResponse, ChannelInv, events
<1>2. /\ Len(stream') = Len(stream) - 1
      /\ \A i \in 1..Len(stream') : /\ stream'[i] = stream[i + 1]
                                   /\ i + 1 \in 1..Len(stream)
  BY <1>1
<1>3. ASSUME NEW n, NEW i \in 1..Len(stream), stream[i] = Event(n)
      PROVE  \E j \in 1..Len(stream') : stream'[j] = Event(n)
  <2>1. i # 1
    BY <1>1, <1>3 DEF Event
  <2>2. i - 1 \in 1..Len(stream') /\ (i - 1) + 1 = i
    BY <1>1, <1>2, <2>1
  <2> QED
    BY <1>2, <1>3, <2>2
<1> SUFFICES ASSUME connected, ~overflowed PROVE EventsComplete'
  BY <1>1 DEF EventsComplete
<1> DEFINE later == handled + Len(queue) + 1..sent
<1>4. /\ handled + Len(queue) <= sent
      /\ \A i \in 1..Len(queue) : queue[i] = handled + i
      /\ \A n \in later : \E i \in 1..Len(stream) : stream[i] = Event(n)
      /\ \A i \in 1..Len(stream) : IsEvent(stream[i]) => stream[i].number \in later
      /\ \A i, j \in 1..Len(stream) : i < j => InTurn(stream[i], stream[j])
  BY DEF EventsComplete
<1>5. later' = later
  BY <1>1
<1> HIDE DEF later
<1>6. \A n \in later : \E i \in 1..Len(stream') : stream'[i] = Event(n)
  BY <1>3, <1>4
<1>7. \A i \in 1..Len(stream') : IsEvent(stream'[i]) => stream'[i].number \in later
  BY <1>2, <1>4
<1>8. ASSUME NEW i \in 1..Len(stream'), NEW j \in 1..Len(stream'), i < j
      PROVE  InTurn(stream'[i], stream'[j])
  <2>1. i + 1 < j + 1
    BY <1>8
  <2> QED
    BY <1>2, <1>4, <2>1
<1> QED
  BY <1>1, <1>4, <1>5, <1>6, <1>7, <1>8 DEF EventsComplete, later

LEMMA ReplyComplete ==
    ASSUME ChannelInv, EventsComplete, NEW ok \in BOOLEAN, Reply(ok)
    PROVE  EventsComplete'
<1> DEFINE message == Response(Head(unanswered), ok)
<1>1. /\ stream' = Append(stream, message) /\ message \in Messages
      /\ message.kind = "response" /\ stream \in Seq(Messages) /\ Len(stream) \in Nat
      /\ UNCHANGED <<connected, queue, sent, handled, overflowed>>
  BY DEF Reply, ChannelInv, TypeOK, Response, Messages, events
<1> HIDE DEF message
<1>2. /\ Len(stream') = Len(stream) + 1 /\ stream'[Len(stream) + 1] = message
      /\ \A i \in 1..Len(stream) : stream'[i] = stream[i]
  BY <1>1
<1>3. \A i \in 1..Len(stream') : i \in 1..Len(stream) \/ ~IsEvent(stream'[i])
  BY <1>1, <1>2 DEF IsEvent
<1>4. \A i \in 1..Len(stream) : i \in 1..Len(stream')
  BY <1>1, <1>2
<1> QED
  BY <1>1, <1>2, <1>3, <1>4 DEF EventsComplete, InTurn

LEMMA EmitEventComplete ==
    ASSUME ChannelInv, EventsComplete, EmitEvent
    PROVE  EventsComplete'
<1>1. /\ handled \in Nat /\ sent \in Nat /\ Len(queue) \in Nat /\ Len(stream) \in Nat
      /\ sent' = sent + 1 /\ UNCHANGED <<connected, queue, handled, overflowed>>
  BY BoundsAssumption DEF EmitEvent, ChannelInv, TypeOK
<1> DEFINE last == Len(stream) + 1
<1>2. /\ Event(sent') \in Messages
      /\ Event(sent').kind = "event" /\ Event(sent').number = sent + 1
  BY <1>1, BoundsAssumption DEF EmitEvent, Event, Messages
<1>3. /\ Len(stream') = last /\ stream'[last] = Event(sent + 1)
      /\ \A i \in 1..Len(stream) : stream'[i] = stream[i]
  BY <1>1, <1>2 DEF EmitEvent, ChannelInv
<1>4. \A i \in 1..Len(stream') : i = last \/ i \in 1..Len(stream)
  BY <1>1, <1>3
<1> SUFFICES ASSUME connected, ~overflowed PROVE EventsComplete'
  BY <1>1 DEF EventsComplete
<1> DEFINE queued == handled + Len(queue)
<1>5. /\ queued <= sent
      /\ \A i \in 1..Len(queue) : queue[i] = handled + i
      /\ \A n \in queued + 1..sent : \E i \in 1..Len(stream) : stream[i] = Event(n)
      /\ \A i \in 1..Len(stream) : IsEvent(stream[i]) => stream[i].number \in queued + 1..sent
      /\ \A i, j \in 1..Len(stream) : i < j => InTurn(stream[i], stream[j])
  BY DEF EventsComplete
<1>6. queued <= sent /\ queued \in Nat
  BY <1>1, <1>5
<1>7. ASSUME NEW n \in queued + 1..sent'
      PROVE  \E i \in 1..Len(stream') : stream'[i] = Event(n)
  <2>1. CASE n = sent + 1
    BY <1>1, <1>3, <2>1
  <2>2. CASE n # sent + 1
    <3>1. n \in queued + 1..sent
      BY <1>1, <1>6, <2>2
    <3>2. PICK i \in 1..Len(stream) : stream[i] = Event(n)
      BY <1>5, <3>1
    <3>3. i \in 1..Len(stream') /\ stream'[i] = Event(n)
      BY <1>1, <1>3, <3>2
    <3> QED
      BY <3>3
  <2> QED
    BY <2>1, <2>2
<1>8. ASSUME NEW i \in 1..Len(stream'), IsEvent(stream'[i])
      PROVE  stream'[i].number \in queued + 1..sent'
  <2>1. CASE i = last
    BY <1>1, <1>2, <1>3, <1>6, <2>1
  <2>2. CASE i # last
    BY <1>1, <1>3, <1>4, <1>5, <1>6, <1>8, <2>2
  <2> QED
    BY <2>1, <2>2
<1>9. ASSUME NEW i \in 1..Len(stream'), NEW j \in 1..Len(stream'), i < j
      PROVE  InTurn(stream'[i], stream'[j])
  <2>1. i \in 1..Len(stream) /\ stream'[i] = stream[i]
    BY <1>1, <1>3, <1>4, <1>9
  <2>2. CASE j = last
    <3>1. IsEvent(stream[i]) => stream[i].number \in queued + 1..sent
      BY <1>5, <2>1
    <3>2. stream'[j].number = sent + 1
      BY <1>1, <1>2, <1>3, <2>2
    <3>3. ASSUME NEW n \in queued + 1..sent PROVE n < sent + 1
      BY <1>1, <1>6
    <3>4. IsEvent(stream[i]) => stream[i].number < stream'[j].number
      BY <3>1, <3>2, <3>3
    <3> QED
      BY <2>1, <3>4 DEF InTurn
  <2>3. CASE j # last
    BY <1>3, <1>4, <1>5, <1>9, <2>1, <2>3
  <2> QED
    BY <2>2, <2>3
<1>10. queued' = queued
  BY <1>1
<1>11. queued <= sent'
  BY <1>1, <1>5, <1>6
<1> HIDE DEF queued
<1> QED
  BY <1>1, <1>5, <1>7, <1>8, <1>9, <1>10, <1>11 DEF EventsComplete, queued

LEMMA TakeEventComplete ==
    ASSUME ChannelInv, EventsComplete, TakeEvent
    PROVE  EventsComplete'
<1>1. /\ handled \in Nat /\ Len(queue) \in Nat /\ queue \in Seq(1..MaxEvents)
      /\ queue # <<>> /\ handled' = Head(queue) /\ queue' = Tail(queue)
      /\ UNCHANGED <<connected, stream, sent, overflowed>>
  BY DEF TakeEvent, ChannelInv, TypeOK
<1>2. /\ Len(queue') = Len(queue) - 1 /\ handled' = queue[1] /\ 1 \in 1..Len(queue)
      /\ \A i \in 1..Len(queue') : queue'[i] = queue[i + 1] /\ i + 1 \in 1..Len(queue)
  BY <1>1
<1> SUFFICES ASSUME connected, ~overflowed PROVE EventsComplete'
  BY <1>1 DEF EventsComplete
<1>3. \A i \in 1..Len(queue) : queue[i] = handled + i
  BY DEF EventsComplete
<1>4. handled' = handled + 1 /\ handled' + Len(queue') = handled + Len(queue)
  BY <1>1, <1>2, <1>3
<1>5. \A i \in 1..Len(queue') : queue'[i] = handled' + i
  <2> SUFFICES ASSUME NEW i \in 1..Len(queue') PROVE queue'[i] = handled' + i
    OBVIOUS
  <2>1. queue'[i] = handled + (i + 1)
    BY <1>2, <1>3
  <2> QED
    BY <1>1, <1>4, <2>1
<1> QED
  BY <1>1, <1>4, <1>5 DEF EventsComplete

LEMMA EventsCompleteNext ==
    ASSUME ChannelInv, EventsComplete, [Next]_vars
    PROVE  EventsComplete'
<1>1. CASE UNCHANGED <<connected, stream, queue, sent, handled, overflowed>>
  BY <1>1 DEF EventsComplete
<1>2. ASSUME NEW t \in Tasks, CommandStep(t)
      PROVE  UNCHANGED <<connected, stream, queue, sent, handled, overflowed>>
  BY <1>2 DEF CommandStep, Request, Unavailable, Send, Answered, Lost, TimedOut, Cancelled,
              Finished, events
<1>3. CASE HandlerReturns \/ UNCHANGED vars
  BY <1>1, <1>3 DEF HandlerReturns, vars, events
<1>4. CASE ConnectionLost
  BY <1>4 DEF ConnectionLost, EventsComplete
<1>5. CASE Restart
  BY <1>5 DEF Restart, EventsComplete
<1>6. ASSUME NEW ok \in BOOLEAN, Reply(ok) PROVE EventsComplete'
  BY <1>6, ReplyComplete
<1> QED
  BY <1>1, <1>2, <1>3, <1>4, <1>5, <1>6, ReadResponseComplete, ReadEventComplete,
     TakeEventComplete, EmitEventComplete DEF Next

-----------------------------------------------------------------------------
\* Types, and the limit of the event queue (_queue_event).
THEOREM ChannelTypes == Spec => []TypeOK
<1>1. ChannelInv => TypeOK
  BY DEF ChannelInv
<1> QED
  BY <1>1, ChannelInvHolds, PTL

\* One command at a time, and none leaves its future or the lock behind (_command).
THEOREM ChannelOneCommand == Spec => []OneCommandInFlight
<1>1. ChannelInv => OneCommandInFlight
  BY DEF ChannelInv
<1> QED
  BY <1>1, ChannelInvHolds, PTL

\* No answer is taken for that of another command, however late it comes and
\* however many connections there were (_handle_ctrl_message).
THEOREM ChannelAnswers == Spec => []OkMeansAccepted
<1>1. ChannelInv => OkMeansAccepted
  BY DEF ChannelInv
<1> QED
  BY <1>1, ChannelInvHolds, PTL

\* The worker sees each event once and in order, unless an overflow was flagged,
\* for any size of the queue and any traffic (_queue_event, _event_worker).
THEOREM ChannelEvents == Spec => []EventsComplete
<1>1. Init => EventsComplete
  BY DEF Init, EventsComplete
<1> QED
  BY <1>1, EventsCompleteNext, ChannelInvHolds, PTL DEF Spec
===============================================================================
