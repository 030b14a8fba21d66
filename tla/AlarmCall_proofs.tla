--------------------------- MODULE AlarmCall_proofs ---------------------------
(* Theorems about AlarmCall for any calls, requests and channels, any      *)
(* number of inbound calls and any length of the wire and of the queues,   *)
(* whichever commands are late or refused.                                 *)
EXTENDS AlarmCall, CallLifecycle_proofs

USE DEF media, counts

(***************************************************************************)
(* The composition implements the manager                                  *)
(***************************************************************************)

LEMMA ManagerStepSimulates == ManagerStep => Next
<1>1. ASSUME NEW c \in Calls, StartCall(c) \/ AudioFailed(c) \/ DialCancelled(c)
                              \/ AudioPrepared(c) \/ DialFresh(c)
      PROVE  Next
  BY <1>1 DEF DialFresh, Next, StartStep
<1>2. ASSUME NEW h \in Hangups, Hangup(h) \/ \E c \in Calls : HangupRequest(h, c)
      PROVE  Next
  BY <1>2 DEF Next, HangupStep
<1>3. ASSUME NEW ch \in Channels, OnEstablished(ch) \/ RejectIncoming(ch) PROVE Next
  BY <1>3 DEF Next, EventStep
<1>4. ASSUME NEW t \in Channels \cup {"audio"}, HangupAfterAudio(t) PROVE Next
  BY <1>4 DEF Next, HangupStep
<1>5. CASE RingElapsed \/ RingTimeout \/ AudioDeadline \/ TerminalShown \/ TerminalReset
           \/ EndingFallback
  BY <1>5 DEF Next, TimerStep
<1> QED BY <1>1, <1>2, <1>3, <1>4, <1>5 DEF ManagerStep, OtherStep

LEMMA ReplySimulates == Reply => Next
<1>1. ASSUME NEW c \in Calls, Dialed(c) \/ DialFailed(c) \/ DialAborted(c) PROVE Next
  BY <1>1 DEF Next, StartStep
<1>2. ASSUME NEW t \in Hangups \cup Channels \cup {"audio"}, HangupSent(t) \/ HangupFailed(t)
      PROVE  Next
  BY <1>2 DEF Next, HangupStep
<1>3. ASSUME NEW ch \in Channels, AudioStarted(ch) \/ AudioStartFailed(ch)
                                  \/ EstablishedAborted(ch) \/ IncomingRejected(ch)
      PROVE  Next
  BY <1>3 DEF Next, EventStep
<1>4. CASE RingHangupDone("no_answer") \/ RingHangupDone("failed")
  BY <1>4 DEF Next, TimerStep
<1> QED BY <1>1, <1>2, <1>3, <1>4 DEF Reply, Accepted, Refused, EitherWay

\* What the manager does when an event is handed over.
Takes(ch) ==
    \/ CallIncoming(ch) \/ CallEstablished(ch) \/ AudioEof(ch)
    \/ CallClosed(ch, "busy") \/ CallClosed(ch, "failed") \/ UNCHANGED vars

LEMMA TakeReportSimulates == ASSUME NEW ch \in Channels, TakeReport(ch) PROVE [Next]_vars
<1>1. Takes(ch)
  BY DEF TakeReport, Takes
<1> QED BY <1>1 DEF Takes, Next, EventStep

LEMMA SystemStepSimulates == [SystemNext]_systemVars => [Next]_vars
<1>1. CASE \E c \in Calls : SendDial(c)
  BY <1>1 DEF SendDial
<1>2. CASE Execute \/ Answered \/ Played \/ Closed \/ Busy \/ Incoming
  BY <1>2 DEF Execute, Answer, Answered, Played, Closed, Busy, Incoming
<1>3. CASE UNCHANGED systemVars
  BY <1>3 DEF systemVars
<1> QED BY <1>1, <1>2, <1>3, ManagerStepSimulates, ReplySimulates, TakeReportSimulates
        DEF SystemNext

\* Composed with the adapter and with baresip, the manager is the one whose
\* properties CallManager_proofs establishes for every order of events.
THEOREM SystemImplementsManager == SystemSpec => Spec
<1>1. SystemInit => Init
  BY DEF SystemInit
<1> QED BY <1>1, SystemStepSimulates, PTL DEF SystemSpec, Spec

ManagerInv == TypeOK /\ LockOwned /\ Safe /\ TimersInv /\ SlotInv

LEMMA ManagerInvInit == Init => ManagerInv
BY TypeInit, LockInit, SafeInit, TimersInit, SlotInit DEF ManagerInv

LEMMA ManagerInvStep == ManagerInv /\ [Next]_vars => ManagerInv'
<1>1. ManagerInv => SimInv
  BY DEF ManagerInv, SimInv, Safe
<1> QED BY <1>1, TypeStep, LockStep, SafeStep, TimersStep, Simulates DEF ManagerInv

(***************************************************************************)
(* The invariant of the composition                                        *)
(*                                                                         *)
(* The answer to a command, the events that it causes and the lines that   *)
(* tell of them arrive in orders that neither the manager nor the adapter  *)
(* controls.  Each part of the invariant is about one way in which calls   *)
(* could be confused; `misled' takes the calls out for which they were.    *)
(***************************************************************************)

CommandNames == {"ausrc", "dial", "hangup"}
EventTypes == {"incoming", "established", "eof", "closed", "closed_486", "busy"}
Args == Calls \cup {None, "silence"}
CommandRecords == [name : CommandNames, arg : Args]
Reports == [type : EventTypes, of : Calls \cup {"inbound"}]

SystemTypes ==
    /\ wire \in Seq(CommandRecords)
    /\ events \in Seq(Reports) /\ lines \in Seq(Reports)
    /\ command \in [name : CommandNames \cup {None}, arg : Args, reply : {"none", "ok", "error"}]
    /\ sip \in [of : Calls \cup {None, "inbound"}, answered : BOOLEAN, kept : BOOLEAN]
    /\ sip.of = None => sip = NoSip

Items(q) == {q[i] : i \in DOMAIN q}
Sent == Items(wire)
Reported == Items(events) \cup Items(lines)
DialSent(c) == Cmd("dial", c) \in Sent

\* The last command sent is the one whose reply is awaited, and a reply tells what
\* baresip did: it has that source, or it has no outbound call or has kept it.
ReplyInv ==
    /\ command.reply # "none" => wire = <<>>
    /\ wire # <<>> => wire[Len(wire)] = Cmd(command.name, command.arg)
    /\ command.name = "ausrc" /\ command.reply = "ok" => source = command.arg
    /\ command.name = "hangup" /\ sip.of \in Calls =>
         command.reply # "ok" /\ (command.reply = "error" => sip.kept)

\* The command that is awaited is the one of the task that waits, and a request is
\* about its own call.
HangupPoint == {"abort", "est_abort", "hangup", "ring_hangup", "inc_hangup"}
HolderInv ==
    /\ \A t \in Tasks :
         /\ task[t].at \in Commands /\ command.reply = "none" => wire # <<>>
         /\ At(t, "dial") => command.name \in {"ausrc", "dial"}
         /\ At(t, "dial") /\ command.name = "ausrc" => command.arg = "silence"
         /\ task[t].at \in HangupPoint => command.name = "hangup"
    /\ \A c \in Calls : At(c, "idle") \/ task[c].id = c

\* A dial on the wire is the next command that baresip executes, and until then
\* the source is silent.
WireInv ==
    /\ \A i \in 2..Len(wire) : wire[i].name # "dial"
    /\ \A m \in Sent : m.name = "dial" => m.arg \in Calls /\ source = "silence"

\* A call that baresip has not placed yet has left no trace.  When a call that has
\* is in the slot, no dial is on the wire.
Unsent(c) ==
    \/ task[c].at \in {"new", "prepare", "lock"}
    \/ At(c, "dial") /\ command.name = "ausrc"
NotYet(c) == Unsent(c) \/ DialSent(c)
Told(c) ==
    \/ \E e \in Reported : e.type = "established" /\ e.of = c
    \/ c \notin misled /\ \E ch \in Channels : On(ch, c, {"est_lock"})
Met(c) == sip.of = c \/ (\E e \in Reported : e.of = c) \/ Told(c)
MetInv ==
    \A c \in Calls :
        /\ DialSent(c) => ~Unsent(c)
        /\ Met(c) => ~NotYet(c) /\ (InSlot(c) => \A d \in Calls : ~DialSent(d))

\* The alarm is, or is about to be, the source of a call to which no event of
\* another was applied only when no callee is waiting to be answered.
Attended == sip.of \in Calls => sip.answered
Silent == misled \cup {"silence"}
Loud == source \notin Silent \/ \E m \in Sent : m.name = "ausrc" /\ m.arg \notin Silent
AudioInv ==
    /\ \A c \in Calls : Told(c) /\ InSlot(c) => Attended
    /\ Loud => Attended /\ \A d \in Calls : ~DialSent(d)

\* A call is reported closed, or awaits the fallback of its hang-up, after its end.
Gone(c) == sip.of # c /\ ~NotYet(c)
EndInv ==
    \A c \in Calls :
        /\ \A e \in Reported : e.type \in {"closed", "closed_486"} /\ e.of = c => sip.of # c
        /\ At("ending", "sleep") /\ InSlot(c) => Gone(c)

\* A call of baresip, or one it is about to get or to place, is known to the manager,
\* and a hang-up on the wire is meant for it.
Placed(c) == sip.of = c \/ DialSent(c)
Dealt(c) == HangupOnItsWay \/ (sip.of = c /\ sip.kept)
CareInv ==
    \A c \in Calls :
        /\ At(c, "dial") /\ Unsent(c) => c \in misled \/ InSlot(c)
        /\ Placed(c) =>
             /\ c \in misled \/ Dealt(c) \/ InSlot(c)
             /\ HangupOnItsWay /\ InSlot(c) => call.state = "ending" \/ Aborted(c)

\* A reason that has been read, or is still to be read, is true of its call.
ReasonInv ==
    /\ \A e \in Reported : e.type \in {"busy", "closed_486"} => e.of \in busy
    /\ sipCallStarted /\ lastFailure => call.id \in busy \cup misled
    /\ ReasonIsOwn

AdapterInv ==
    /\ SystemTypes /\ ReplyInv /\ HolderInv /\ WireInv
    /\ MetInv /\ AudioInv /\ EndInv /\ CareInv /\ ReasonInv

SystemInv == ManagerInv /\ AdapterInv

(***************************************************************************)
(* The wire, the queues and the holder of the lock                         *)
(***************************************************************************)

LEMMA TasksApart ==
    /\ \A c \in Calls : c \in Tasks /\ c # None /\ c # "inbound" /\ c # "silence"
    /\ \A c \in Calls : c \notin Channels /\ c \notin Timers /\ c \notin Hangups
    /\ \A ch \in Channels : ch \in Tasks /\ ch \notin Timers /\ ch # None /\ ch \notin Calls
    /\ \A h \in Hangups : h \in Tasks /\ h \notin Timers /\ h \notin Calls /\ h \notin Channels
    /\ \A tm \in Timers : tm \in Tasks /\ tm \notin Calls /\ tm \notin Channels
    /\ {"ring", "audio", "ending", "terminal"} \subseteq Timers
    /\ None # "inbound" /\ None # "silence" /\ None \notin Tasks
BY TasksAssumption, NoneAssumption, AlarmAssumption DEF Tasks, Timers

LEMMA AppendItems ==
    ASSUME NEW S, NEW q \in Seq(S), NEW e \in S
    PROVE  Append(q, e) \in Seq(S) /\ Items(Append(q, e)) = Items(q) \cup {e}
<1> DEFINE p == Append(q, e)
<1>1. /\ p \in Seq(S) /\ Len(q) \in Nat
      /\ p[Len(q) + 1] = e /\ \A i \in 1..Len(q) : p[i] = q[i]
      /\ DOMAIN q = 1..Len(q) /\ DOMAIN p = 1..(Len(q) + 1)
  OBVIOUS
<1> HIDE DEF p
<1>2. Items(p) = Items(q) \cup {e}
  BY <1>1 DEF Items
<1> QED BY <1>1, <1>2 DEF p

LEMMA TailItems ==
    ASSUME NEW S, NEW q \in Seq(S), q # <<>>
    PROVE  /\ Tail(q) \in Seq(S) /\ Head(q) = q[1] /\ q[1] \in S
           /\ Len(Tail(q)) = Len(q) - 1 /\ Len(q) \in Nat \ {0}
           /\ \A i \in 1..(Len(q) - 1) : Tail(q)[i] = q[i + 1]
           /\ Items(q) = Items(Tail(q)) \cup {Head(q)}
           /\ \A m \in Items(Tail(q)) : \E i \in 2..Len(q) : m = q[i]
<1> DEFINE p == Tail(q)
<1>1. /\ p \in Seq(S) /\ Head(q) = q[1] /\ q[1] \in S
      /\ Len(p) = Len(q) - 1 /\ Len(q) \in Nat \ {0}
      /\ \A i \in 1..(Len(q) - 1) : p[i] = q[i + 1]
      /\ DOMAIN q = 1..Len(q) /\ DOMAIN p = 1..(Len(q) - 1)
  OBVIOUS
<1> HIDE DEF p
<1>2. \A m \in Items(p) : \E i \in 2..Len(q) : m = q[i]
  <2> SUFFICES ASSUME NEW j \in 1..(Len(q) - 1)
               PROVE  \E i \in 2..Len(q) : p[j] = q[i]
    BY <1>1 DEF Items
  <2>1. p[j] = q[j + 1] /\ j + 1 \in 2..Len(q)
    BY <1>1
  <2> QED BY <2>1
<1>3. Items(p) \cup {q[1]} \subseteq Items(q)
  <2>1. Items(p) \subseteq Items(q)
    BY <1>1, <1>2 DEF Items
  <2> QED BY <1>1, <2>1 DEF Items
<1>4. Items(q) \subseteq Items(p) \cup {q[1]}
  <2> SUFFICES ASSUME NEW i \in 1..Len(q), i # 1 PROVE q[i] \in Items(p)
    BY <1>1 DEF Items
  <2>1. i - 1 \in 1..(Len(q) - 1) /\ p[i - 1] = q[i]
    BY <1>1
  <2> QED BY <1>1, <2>1 DEF Items
<1> QED BY <1>1, <1>2, <1>3, <1>4 DEF p

LEMMA SentHangup == HangupOnItsWay <=> \E m \in Sent : m.name = "hangup"
BY DEF HangupOnItsWay, Sent, Items

LEMMA SendWire ==
    ASSUME SystemTypes, NEW cmd \in CommandRecords, Send(cmd)
    PROVE  /\ wire' \in Seq(CommandRecords) /\ wire' # <<>>
           /\ Len(wire') = Len(wire) + 1 /\ Len(wire) \in Nat
           /\ wire'[Len(wire')] = cmd /\ \A i \in 1..Len(wire) : wire'[i] = wire[i]
           /\ Sent' = Sent \cup {cmd}
           /\ command'.name = cmd.name /\ command'.arg = cmd.arg /\ command'.reply = "none"
           /\ cmd = Cmd(command'.name, command'.arg)
           /\ command' \in [name : CommandNames \cup {None}, arg : Args,
                             reply : {"none", "ok", "error"}]
<1>1. wire \in Seq(CommandRecords) /\ wire' = Append(wire, cmd)
  BY DEF SystemTypes, Send
<1>2. /\ wire' # <<>>
      /\ Len(wire') = Len(wire) + 1 /\ Len(wire) \in Nat
      /\ wire'[Len(wire')] = cmd /\ \A i \in 1..Len(wire) : wire'[i] = wire[i]
  BY <1>1
<1>3. wire' \in Seq(CommandRecords) /\ Sent' = Sent \cup {cmd}
  BY <1>1, AppendItems DEF Sent
<1> QED BY <1>2, <1>3 DEF Send, CommandRecords, Cmd

\* A dial on the wire is the next command.
LEMMA DialIsNext ==
    ASSUME SystemTypes, WireInv, NEW c \in Calls, DialSent(c)
    PROVE  wire # <<>> /\ wire[1] = Cmd("dial", c) /\ source = "silence"
<1>1. PICK i \in DOMAIN wire : wire[i] = Cmd("dial", c)
  BY DEF DialSent, Sent, Items
<1>2. i \in 1..Len(wire) /\ wire # <<>> /\ Len(wire) \in Nat
  BY <1>1 DEF SystemTypes
<1>3. i \notin 2..Len(wire)
  BY <1>1 DEF WireInv, Cmd
<1> QED BY <1>1, <1>2, <1>3 DEF WireInv, DialSent, Cmd

\* Only the owner of the lock is at a point that needs it.
LEMMA OneHolder ==
    ASSUME LockOwned, NEW t \in Tasks, task[t].at \in Holding
    PROVE  operationLock = t /\ \A p \in Tasks \ {t} : task[p].at \notin Holding
BY DEF LockOwned

(***************************************************************************)
(* Steps of the manager that send no command                               *)
(***************************************************************************)

\* Besides task t, only timers are cancelled or created.
OnlyMoves(t, started) ==
    \A p \in Tasks \ {t} :
        \/ task'[p] = task[p]
        \/ p \in Timers /\ task'[p].at \in {"idle", "hold"}
        \/ p = started /\ task'[p].at = "sleep"

\* Task t goes on without coming to hold the lock.
PassiveTask(t) ==
    /\ task'[t].at \notin Holding
    /\ t \in Calls =>
         \/ At(t, "idle")'
         \/ At(t, "new") /\ At(t, "prepare")' /\ task'[t].id = t
         \/ At(t, "prepare") /\ At(t, "lock")' /\ task'[t].id = t
    /\ t \in Channels /\ At(t, "est_lock")' =>
         \/ task'[t].id \in misled'
         \/ \E e \in Reported : e.type = "established" /\ e.of = task'[t].id
    /\ At("ending", "sleep")' =>
         At("ending", "sleep") \/ \A c \in Calls : InSlot(c) => Gone(c)

\* The slot keeps its call, or gives up one that has been dealt with.
PassiveSlot(t) ==
    /\ \A c \in Calls : InSlot(c)' =>
         /\ InSlot(c)
         /\ call.state = "ending" => call'.state = "ending"
         /\ task[t].at \in {"abort", "est_abort"} => task[t].id # c
    /\ \A c \in Calls : InSlot(c) =>
         /\ Placed(c) => InSlot(c)' \/ c \in misled' \/ Dealt(c)
         /\ At(c, "dial")' /\ Unsent(c) => InSlot(c)' \/ c \in misled'
    /\ call'.state = "busy" => call'.id \in busy \cup misled'

Passive(t, started) ==
    /\ OnlyMoves(t, started) /\ started \in Timers \cup {None}
    /\ PassiveTask(t) /\ PassiveSlot(t)

LEMMA PassiveKeeps ==
    ASSUME ManagerInv, AdapterInv, NEW t \in Tasks, NEW started, Passive(t, started),
           UNCHANGED <<wire, command, baresip>>, misled \subseteq misled',
           events' \in Seq(Reports), lines' \in Seq(Reports), Reported' \subseteq Reported,
           sipCallStarted' /\ lastFailure' => call'.id \in busy \cup misled'
    PROVE  AdapterInv'
<1> USE DEF AdapterInv, At, baresip, Passive
<1>0. /\ UNCHANGED <<wire, command, source, sip, busy>> /\ Sent' = Sent
      /\ HangupOnItsWay' = HangupOnItsWay
      /\ \A c \in Calls : /\ DialSent(c)' = DialSent(c) /\ Placed(c)' = Placed(c)
                          /\ Dealt(c)' = Dealt(c)
  BY DEF Sent, Items, HangupOnItsWay, DialSent, Placed, Dealt
<1>1. \A p \in Tasks \ {t} : task'[p] = task[p] \/ task'[p].at \in {"idle", "hold", "sleep"}
  BY DEF OnlyMoves
<1>2. \A p \in Tasks : task'[p].at \in Holding => p # t /\ task'[p] = task[p]
  BY <1>1 DEF PassiveTask, Holding
<1>3. \A p \in Calls \cup Channels : p # t => task'[p] = task[p]
  BY TasksApart DEF OnlyMoves
<1>4. \A c \in Calls : (Unsent(c)' => Unsent(c)) /\ (NotYet(c)' => NotYet(c))
  BY <1>0, <1>2, <1>3, TasksApart DEF NotYet, Unsent, PassiveTask, Holding
<1>5. SystemTypes' /\ ReplyInv' /\ WireInv'
  BY <1>0 DEF SystemTypes, ReplyInv, WireInv
<1>6. HolderInv'
  <2>1. \A c \in Calls : At(c, "idle")' \/ task'[c].id = c
    BY <1>3, TasksApart DEF HolderInv, PassiveTask
  <2> QED BY <1>0, <1>2, <2>1 DEF HolderInv, HangupPoint, Holding, Commands
<1>7. \A c \in Calls : Told(c)' => Told(c)
  <2> SUFFICES ASSUME NEW c \in Calls, c \notin misled',
                      NEW ch \in Channels, On(ch, c, {"est_lock"})'
               PROVE  Told(c)
    BY DEF Told
  <2>1. CASE ch # t
    BY <1>3, <2>1 DEF On, Told
  <2>2. CASE ch = t
    BY <2>2 DEF On, Told, PassiveTask
  <2> QED BY <2>1, <2>2
<1>8. \A c \in Calls : Met(c)' => Met(c)
  BY <1>0, <1>7 DEF Met
<1>9. \A c \in Calls : InSlot(c)' => InSlot(c)
  BY DEF PassiveSlot
<1>10. MetInv'
  BY <1>0, <1>4, <1>8, <1>9 DEF MetInv
<1>11. AudioInv'
  <2>1. Attended' = Attended /\ (Loud' => Loud)
    BY <1>0 DEF Attended, Loud, Silent
  <2> QED BY <1>0, <1>7, <1>9, <2>1 DEF AudioInv
<1>12. EndInv'
  BY <1>0, <1>4, <1>9 DEF EndInv, Gone, PassiveTask
<1>13. CareInv'
  <2>0. ASSUME NEW c \in Calls, At(c, "dial")', Unsent(c)' PROVE c \in misled' \/ InSlot(c)'
    <3>1. At(c, "dial") /\ Unsent(c)
      BY <1>2, <1>4, <2>0, TasksApart DEF Holding
    <3> QED BY <2>0, <3>1 DEF CareInv, PassiveSlot
  <2> SUFFICES ASSUME NEW c \in Calls, Placed(c)
               PROVE  /\ c \in misled' \/ Dealt(c) \/ InSlot(c)'
                      /\ HangupOnItsWay /\ InSlot(c)' => call'.state = "ending" \/ Aborted(c)'
    BY <1>0, <2>0 DEF CareInv
  <2>1. c \in misled' \/ Dealt(c) \/ InSlot(c)'
    BY DEF CareInv, PassiveSlot
  <2>2. ASSUME InSlot(c)', Aborted(c) PROVE Aborted(c)'
    <3>1. CASE At(c, "abort")
      <4>1. task[c].id = c
        BY <3>1 DEF HolderInv
      <4>2. c # t
        BY <2>2, <3>1, <4>1 DEF PassiveSlot
      <4> QED BY <1>3, <3>1, <4>2 DEF Aborted
    <3>2. ASSUME NEW ch \in Channels, On(ch, c, {"est_abort"}) PROVE Aborted(c)'
      <4>1. ch # t
        BY <2>2, <3>2 DEF PassiveSlot, On
      <4> QED BY <1>3, <3>2, <4>1 DEF Aborted, On
    <3> QED BY <2>2, <3>1, <3>2 DEF Aborted
  <2> QED BY <2>1, <2>2 DEF CareInv, PassiveSlot
<1>14. ReasonInv'
  BY <1>0 DEF ReasonInv, ReasonIsOwn, PassiveSlot
<1> QED BY <1>5, <1>6, <1>10, <1>11, <1>12, <1>13, <1>14

LEMMA SendsNothing ==
    ASSUME SendsItsCommand, NEW t \in Tasks, NEW started, OnlyMoves(t, started),
           task'[t].at \notin Holding
    PROVE  UNCHANGED <<wire, command>>
<1>1. \A p \in Tasks : task'[p].at \in Commands => task'[p] = task[p]
  BY DEF OnlyMoves, Commands, Holding
<1> QED BY <1>1 DEF SendsItsCommand

(***************************************************************************)
(* Steps of the manager that send a command                                *)
(***************************************************************************)

LEMMA SendsFirst ==
    ASSUME SendsItsCommand, NEW t \in Tasks, OnlyMoves(t, None),
           task'[t].at \in Commands, task'[t].at # task[t].at
    PROVE  Send(FirstCommand(task'[t].at, task'[t].id))
<1>1. \A p \in Tasks \ {t} : task'[p].at \in Commands => task'[p] = task[p]
  BY TasksApart DEF OnlyMoves, Commands, Holding
<1>2. {p \in Tasks : task'[p].at \in Commands /\ task'[p] # task[p]} = {t}
  BY <1>1
<1> QED BY <1>2 DEF SendsItsCommand

\* No request goes back to the time before its dial because a task sends a command.
LEMMA UnsentKept ==
    ASSUME ManagerInv', NEW t \in Tasks, OnlyMoves(t, None),
           task'[t].at \in Holding, t \in Calls => At(t, "lock") \/ At(t, "abort")'
    PROVE  \A c \in Calls : Unsent(c)' => Unsent(c)
<1> USE DEF At
<1>1. \A p \in Tasks \ {t} : task'[p].at \notin Holding
  BY OneHolder DEF ManagerInv, LockOwned
<1>2. \A p \in Calls : p # t => task'[p] = task[p]
  BY TasksApart DEF OnlyMoves
<1> SUFFICES ASSUME NEW c \in Calls, Unsent(c)' PROVE Unsent(c)
  OBVIOUS
<1>3. CASE c = t
  BY <1>3 DEF Unsent, Holding
<1>4. CASE c # t
  BY <1>1, <1>2, <1>4, TasksApart DEF Unsent, Holding
<1> QED BY <1>3, <1>4

\* Task t sends a hang-up, on entering the lock or after a command that failed.
HangsUp(t) ==
    /\ OnlyMoves(t, None) /\ task'[t].at \in HangupPoint /\ task'[t].at # task[t].at
    /\ t \in Calls => At(t, "abort")' /\ task'[t].id = t
    /\ t # "ending"
    /\ call'.id = call.id /\ sipCallStarted' = sipCallStarted
    /\ \A c \in Calls : InSlot(c) => call'.state = "ending" \/ Aborted(c)'
    /\ call'.state = "busy" => call.state = "busy"

LEMMA HangsUpKeeps ==
    ASSUME ManagerInv, ManagerInv', AdapterInv, NEW t \in Tasks, HangsUp(t), SendsItsCommand,
           UNCHANGED <<events, lines, lastFailure, baresip, misled>>
    PROVE  AdapterInv'
<1> USE DEF AdapterInv, At, HangsUp
<1> DEFINE cmd == Cmd("hangup", None)
<1>0. UNCHANGED <<source, sip, busy, events, lines, lastFailure>> /\ Reported' = Reported
  BY DEF Reported, Items, baresip
<1>1. Send(cmd) /\ cmd \in CommandRecords /\ cmd.name = "hangup"
  <2>1. task'[t].at \in Commands /\ FirstCommand(task'[t].at, task'[t].id) = cmd
    BY DEF HangupPoint, Commands, Holding, FirstCommand
  <2>2. cmd \in CommandRecords /\ cmd.name = "hangup"
    BY DEF CommandRecords, Cmd, CommandNames, Args
  <2> QED BY <2>1, <2>2, SendsFirst
<1> HIDE DEF cmd
<1>2. /\ wire' \in Seq(CommandRecords) /\ wire' # <<>>
      /\ Len(wire') = Len(wire) + 1 /\ Len(wire) \in Nat
      /\ wire'[Len(wire')] = cmd /\ \A i \in 1..Len(wire) : wire'[i] = wire[i]
      /\ Sent' = Sent \cup {cmd}
      /\ command'.name = "hangup" /\ command'.reply = "none"
      /\ cmd = Cmd(command'.name, command'.arg)
      /\ command' \in [name : CommandNames \cup {None}, arg : Args,
                       reply : {"none", "ok", "error"}]
  BY <1>1, SendWire
<1>3. HangupOnItsWay'
  BY <1>1, <1>2, SentHangup DEF HangupOnItsWay, Sent, Items
<1>4. \A p \in Tasks \ {t} : task'[p].at \notin Holding
  BY DEF ManagerInv, LockOwned, HangupPoint, Holding
<1>5. \A p \in Calls \cup Channels : p # t => task'[p] = task[p]
  BY TasksApart DEF OnlyMoves
<1>6. \A c \in Calls : DialSent(c)' = DialSent(c)
  BY <1>1, <1>2 DEF DialSent, Cmd
<1>7. \A c \in Calls : (Unsent(c)' => Unsent(c)) /\ (NotYet(c)' => NotYet(c))
  <2>1. \A c \in Calls : Unsent(c)' => Unsent(c)
    BY UnsentKept DEF HangupPoint, Holding
  <2> QED BY <1>6, <2>1 DEF NotYet
<1>8. SystemTypes' /\ ReplyInv'
  BY <1>0, <1>2 DEF SystemTypes, ReplyInv
<1>9. HolderInv'
  <2>1. \A c \in Calls : At(c, "idle")' \/ task'[c].id = c
    BY <1>5, TasksApart DEF HolderInv
  <2> QED BY <1>2, <1>4, <2>1 DEF HolderInv, HangupPoint, Holding, Commands
<1>10. WireInv'
  <2>1. \A i \in 2..Len(wire') : i \in 2..Len(wire) \/ wire'[i] = cmd
    BY <1>2
  <2>2. \A i \in 2..Len(wire') : wire'[i].name # "dial"
    BY <1>1, <1>2, <2>1 DEF WireInv
  <2> QED BY <1>0, <1>1, <1>2, <2>2 DEF WireInv
<1>11. \A c \in Calls : InSlot(c)' = InSlot(c)
  BY DEF InSlot
<1>12. \A c \in Calls : (Told(c)' => Told(c)) /\ (Met(c)' => Met(c))
  <2>1. \A ch \in Channels, c \in Calls : On(ch, c, {"est_lock"})' => On(ch, c, {"est_lock"})
    BY <1>5 DEF On, HangupPoint
  <2> QED BY <1>0, <2>1 DEF Told, Met
<1>13. MetInv'
  BY <1>6, <1>7, <1>11, <1>12 DEF MetInv
<1>14. AudioInv'
  <2>1. Attended' = Attended /\ (Loud' => Loud)
    BY <1>0, <1>1, <1>2 DEF Attended, Loud, Silent
  <2> QED BY <1>6, <1>11, <1>12, <2>1 DEF AudioInv
<1>15. EndInv'
  <2>1. At("ending", "sleep")' => At("ending", "sleep")
    BY TasksApart DEF OnlyMoves
  <2> QED BY <1>0, <1>7, <1>11, <2>1 DEF EndInv, Gone
<1>16. CareInv'
  <2>1. \A c \in Calls : ~At(c, "dial")'
    BY <1>4, TasksApart DEF HangupPoint, Holding
  <2> QED BY <1>3, <1>11, <2>1 DEF CareInv, Dealt
<1>17. ReasonInv'
  BY <1>0 DEF ReasonInv, ReasonIsOwn
<1> QED BY <1>8, <1>9, <1>10, <1>13, <1>14, <1>15, <1>16, <1>17

\* A request enters the lock, forgets an old reason and sends the silence.
LEMMA DialKeeps ==
    ASSUME ManagerInv, ManagerInv', AdapterInv, NEW c \in Calls, DialFresh(c), RateAllows,
           SendsItsCommand, UNCHANGED <<events, lines, baresip, misled>>
    PROVE  AdapterInv'
<1> USE DEF AdapterInv, At
<1> DEFINE cmd == Cmd("ausrc", "silence")
<1>0. /\ At(c, "lock") /\ operationLock = None /\ IsCurrent(c, Calling) /\ c \in Tasks
      /\ sipCallStarted' /\ Goto(c, "dial", c, {}) /\ call' = call /\ ~lastFailure'
      /\ UNCHANGED <<source, sip, busy, events, lines>> /\ Reported' = Reported
  <2>1. At(c, "lock") /\ operationLock = None /\ IsCurrent(c, Calling) /\ c \in Tasks
        /\ sipCallStarted' /\ Goto(c, "dial", c, {}) /\ call' = call
    BY TasksApart DEF DialFresh, Dial
  <2>2. task'[c].at = "dial"
    BY <2>1 DEF Goto
  <2> QED BY <2>1, <2>2 DEF DialFresh, Reported, Items, baresip
<1>1. OnlyMoves(c, None) /\ task'[c].at = "dial" /\ task'[c].id = c
  BY <1>0 DEF Goto, OnlyMoves
<1>2. Send(cmd) /\ cmd \in CommandRecords /\ cmd.name = "ausrc" /\ cmd.arg = "silence"
  <2>1. Send(FirstCommand(task'[c].at, task'[c].id))
    BY <1>0, <1>1, SendsFirst DEF Commands, Holding
  <2>2. FirstCommand(task'[c].at, task'[c].id) = cmd
    BY <1>1 DEF FirstCommand
  <2> QED BY <2>1, <2>2 DEF CommandRecords, Cmd, CommandNames, Args
<1> HIDE DEF cmd
<1>3. /\ wire' \in Seq(CommandRecords) /\ wire' # <<>>
      /\ Len(wire') = Len(wire) + 1 /\ Len(wire) \in Nat
      /\ wire'[Len(wire')] = cmd /\ \A i \in 1..Len(wire) : wire'[i] = wire[i]
      /\ Sent' = Sent \cup {cmd}
      /\ command'.name = "ausrc" /\ command'.arg = "silence" /\ command'.reply = "none"
      /\ cmd = Cmd(command'.name, command'.arg)
      /\ command' \in [name : CommandNames \cup {None}, arg : Args,
                       reply : {"none", "ok", "error"}]
  BY <1>2, SendWire
<1>4. \A p \in Tasks \ {c} : task'[p].at \notin Holding
  BY <1>0, <1>1 DEF ManagerInv, LockOwned, Holding
<1>5. \A p \in Calls \cup Channels : p # c => task'[p] = task[p]
  BY <1>1, TasksApart DEF OnlyMoves
<1>6. \A d \in Calls : DialSent(d)' = DialSent(d)
  BY <1>2, <1>3 DEF DialSent, Cmd
<1>7. \A d \in Calls : (Unsent(d)' => Unsent(d)) /\ (NotYet(d)' => NotYet(d))
  <2>1. \A d \in Calls : Unsent(d)' => Unsent(d)
    BY <1>0, <1>1, UnsentKept DEF Holding
  <2> QED BY <1>6, <2>1 DEF NotYet
<1>8. SystemTypes' /\ ReplyInv'
  BY <1>0, <1>2, <1>3 DEF SystemTypes, ReplyInv
<1>9. HolderInv'
  <2>1. \A d \in Calls : At(d, "idle")' \/ task'[d].id = d
    BY <1>1, <1>5, TasksApart DEF HolderInv
  <2> QED BY <1>1, <1>3, <1>4, <2>1 DEF HolderInv, HangupPoint, Holding, Commands
<1>10. WireInv'
  <2>1. \A i \in 2..Len(wire') : i \in 2..Len(wire) \/ wire'[i] = cmd
    BY <1>3
  <2>2. \A i \in 2..Len(wire') : wire'[i].name # "dial"
    BY <1>2, <1>3, <2>1 DEF WireInv
  <2> QED BY <1>0, <1>2, <1>3, <2>2 DEF WireInv
<1>11. ~Met(c) /\ ~Placed(c) /\ \A d \in Calls : (InSlot(d) \/ InSlot(d)') => d = c
  <2>1. Unsent(c)
    BY <1>0 DEF Unsent
  <2>2. ~Met(c) /\ ~DialSent(c)
    BY <2>1 DEF MetInv, NotYet
  <2> QED BY <1>0, <2>2 DEF Met, Placed, InSlot, IsCurrent
<1>12. \A d \in Calls : (Told(d)' => Told(d)) /\ (Met(d)' => Met(d))
  <2>1. \A ch \in Channels, d \in Calls : On(ch, d, {"est_lock"})' => On(ch, d, {"est_lock"})
    BY <1>5, TasksApart DEF On
  <2> QED BY <1>0, <2>1 DEF Told, Met
<1>13. MetInv'
  BY <1>6, <1>7, <1>11, <1>12 DEF MetInv
<1>14. AudioInv'
  <2>1. Attended' = Attended /\ (Loud' => Loud)
    BY <1>0, <1>2, <1>3 DEF Attended, Loud, Silent
  <2> QED BY <1>6, <1>11, <1>12, <2>1 DEF AudioInv, Met
<1>15. EndInv'
  <2>1. ~At("ending", "sleep")'
    BY <1>0, TasksApart DEF ManagerInv, TimersInv, Live, LivePoints, Needing, IsCurrent, Calling
  <2> QED BY <1>0, <2>1 DEF EndInv
<1>16. CareInv'
  <2>1. HangupOnItsWay => HangupOnItsWay'
    BY <1>3, SentHangup DEF HangupOnItsWay, Sent, Items
  <2>2. \A d \in Calls : Placed(d)' = Placed(d) /\ (Dealt(d) => Dealt(d)')
    BY <1>0, <1>6, <2>1 DEF Placed, Dealt
  <2>3. InSlot(c)' /\ \A d \in Calls : At(d, "dial")' => d = c
    BY <1>0, <1>4, TasksApart DEF InSlot, IsCurrent, Holding
  <2> QED BY <1>11, <2>2, <2>3 DEF CareInv
<1>17. ReasonInv'
  BY <1>0 DEF ReasonInv, ReasonIsOwn, IsCurrent, Calling
<1> QED BY <1>8, <1>9, <1>10, <1>13, <1>14, <1>15, <1>16, <1>17

\* An answered call: the alarm becomes the source.
PlaysAlarm(ch) == OnEstablished(ch) /\ IsCurrent(task[ch].id, Calling) /\ prepared # None

LEMMA PlaysAlarmKeeps ==
    ASSUME ManagerInv, ManagerInv', AdapterInv, NEW ch \in Channels, PlaysAlarm(ch),
           SendsItsCommand, UNCHANGED <<events, lines, lastFailure, baresip, misled>>
    PROVE  AdapterInv'
<1> USE DEF AdapterInv, At
<1> DEFINE c == task[ch].id
           cmd == Cmd("ausrc", c)
<1>0. /\ At(ch, "est_lock") /\ operationLock = None /\ IsCurrent(c, Calling) /\ ch \in Tasks
      /\ UNCHANGED sipCallStarted /\ Goto(ch, "est_audio", c, CancelledBy(ch, {"ring"}))
      /\ call' = [call EXCEPT !.state = "connected"]
      /\ UNCHANGED <<source, sip, busy, events, lines>> /\ Reported' = Reported
  BY TasksApart DEF PlaysAlarm, OnEstablished, Reported, Items, baresip
<1>1. c \in Calls /\ c = call.id /\ sipCallStarted /\ InSlot(c)
  BY <1>0, NoneAssumption
     DEF PlaysAlarm, ManagerInv, Safe, SipCallOwned, TypeOK, IsCurrent, InSlot
<1>2. OnlyMoves(ch, None) /\ task'[ch].at = "est_audio" /\ task'[ch].id = c
  <2>1. CancelledBy(ch, {"ring"}) \subseteq Timers
    BY TasksApart DEF CancelledBy
  <2> QED BY <1>0, <2>1 DEF Goto, OnlyMoves, Idle
<1>3. Send(cmd) /\ cmd \in CommandRecords /\ cmd.name = "ausrc" /\ cmd.arg = c
  <2>1. Send(FirstCommand(task'[ch].at, task'[ch].id))
    BY <1>0, <1>2, SendsFirst DEF Commands, Holding
  <2>2. FirstCommand(task'[ch].at, task'[ch].id) = cmd
    BY <1>2 DEF FirstCommand
  <2> QED BY <1>1, <2>1, <2>2 DEF CommandRecords, Cmd, CommandNames, Args
<1> HIDE DEF cmd, c
<1>4. /\ wire' \in Seq(CommandRecords) /\ wire' # <<>>
      /\ Len(wire') = Len(wire) + 1 /\ Len(wire) \in Nat
      /\ wire'[Len(wire')] = cmd /\ \A i \in 1..Len(wire) : wire'[i] = wire[i]
      /\ Sent' = Sent \cup {cmd}
      /\ command'.name = "ausrc" /\ command'.reply = "none"
      /\ cmd = Cmd(command'.name, command'.arg)
      /\ command' \in [name : CommandNames \cup {None}, arg : Args,
                       reply : {"none", "ok", "error"}]
  BY <1>3, SendWire
<1>5. \A p \in Tasks \ {ch} : task'[p].at \notin Holding /\ task[p].at \notin Holding
  BY <1>0, <1>2, NoneAssumption DEF ManagerInv, LockOwned, Holding
<1>6. \A p \in Calls \cup Channels : p # ch => task'[p] = task[p]
  BY <1>2, TasksApart DEF OnlyMoves
<1>7. \A d \in Calls : DialSent(d)' = DialSent(d)
  BY <1>3, <1>4 DEF DialSent, Cmd
<1>8. \A d \in Calls : (Unsent(d)' => Unsent(d)) /\ (NotYet(d)' => NotYet(d))
  <2>1. \A d \in Calls : Unsent(d)' => Unsent(d)
    BY <1>2, UnsentKept, TasksApart DEF Holding
  <2> QED BY <1>7, <2>1 DEF NotYet
<1>9. SystemTypes' /\ ReplyInv'
  BY <1>0, <1>3, <1>4 DEF SystemTypes, ReplyInv
<1>10. HolderInv'
  <2>1. \A d \in Calls : At(d, "idle")' \/ task'[d].id = d
    BY <1>6, TasksApart DEF HolderInv
  <2> QED BY <1>2, <1>4, <1>5, <2>1 DEF HolderInv, HangupPoint, Holding, Commands
<1>11. WireInv'
  <2>1. \A i \in 2..Len(wire') : i \in 2..Len(wire) \/ wire'[i] = cmd
    BY <1>4
  <2>2. \A i \in 2..Len(wire') : wire'[i].name # "dial"
    BY <1>3, <1>4, <2>1 DEF WireInv
  <2> QED BY <1>0, <1>3, <1>4, <2>2 DEF WireInv
<1>12. \A d \in Calls : (Told(d)' => Told(d)) /\ (Met(d)' => Met(d))
  <2>1. \A p \in Channels, d \in Calls : On(p, d, {"est_lock"})' => On(p, d, {"est_lock"})
    BY <1>2, <1>6 DEF On
  <2> QED BY <1>0, <2>1 DEF Told, Met
<1>13. \A d \in Calls : InSlot(d)' = InSlot(d)
  BY <1>0 DEF InSlot, ManagerInv, TypeOK
<1>14. MetInv'
  BY <1>7, <1>8, <1>12, <1>13 DEF MetInv
<1>15. AudioInv'
  <2>1. c \notin misled => Attended /\ \A d \in Calls : ~DialSent(d)
    <3>1. c \notin misled => Told(c)
      BY <1>0 DEF Told, On, c
    <3> QED BY <1>1, <3>1 DEF AudioInv, MetInv, Met
  <2>2. Attended' = Attended /\ (Loud' => Loud \/ c \notin misled)
    BY <1>0, <1>3, <1>4 DEF Attended, Loud, Silent
  <2> QED BY <1>7, <1>12, <1>13, <2>1, <2>2 DEF AudioInv
<1>16. EndInv'
  <2>1. At("ending", "sleep")' => At("ending", "sleep")
    BY <1>2, TasksApart DEF OnlyMoves
  <2> QED BY <1>0, <1>8, <1>13, <2>1 DEF EndInv, Gone
<1>17. CareInv'
  <2>1. HangupOnItsWay' = HangupOnItsWay
    <3>1. (\E m \in Sent' : m.name = "hangup") <=> \E m \in Sent : m.name = "hangup"
      BY <1>3, <1>4
    <3>2. HangupOnItsWay' <=> \E m \in Sent' : m.name = "hangup"
      BY DEF HangupOnItsWay, Sent, Items
    <3> QED BY <3>1, <3>2, SentHangup DEF HangupOnItsWay
  <2>2. \A d \in Calls : Placed(d)' = Placed(d) /\ Dealt(d)' = Dealt(d)
    BY <1>0, <1>7, <2>1 DEF Placed, Dealt
  <2>3. ASSUME NEW d \in Calls, Placed(d), InSlot(d), HangupOnItsWay PROVE FALSE
    <3>1. Aborted(d)
      BY <1>0, <1>1, <2>3 DEF CareInv, InSlot, IsCurrent, Calling
    <3>2. ~Aborted(d)
      BY <1>0, <1>5, TasksApart DEF Aborted, On, Holding
    <3> QED BY <3>1, <3>2
  <2>4. \A d \in Calls : ~At(d, "dial")'
    BY <1>5, TasksApart DEF Holding
  <2> QED BY <1>13, <2>1, <2>2, <2>3, <2>4 DEF CareInv
<1>18. ReasonInv'
  BY <1>0, <1>13 DEF ReasonInv, ReasonIsOwn, ManagerInv, TypeOK
<1> QED BY <1>9, <1>10, <1>11, <1>14, <1>15, <1>16, <1>17, <1>18

\* The request's source is silent, so it sends the dial.
LEMMA SendDialKeeps ==
    ASSUME ManagerInv, AdapterInv, NEW c \in Calls, SendDial(c)
    PROVE  AdapterInv'
<1> USE DEF AdapterInv, At
<1> DEFINE cmd == Cmd("dial", c)
<1>0. /\ At(c, "dial") /\ command.name = "ausrc" /\ command.reply = "ok" /\ Send(cmd)
      /\ UNCHANGED <<call, sipCallStarted, task, operationLock, source, sip, busy, events, lines,
                     lastFailure, misled>>
      /\ Reported' = Reported /\ c \in Tasks
  BY TasksApart DEF SendDial, vars, baresip, Reported, Items
<1>1. cmd \in CommandRecords /\ cmd.name = "dial" /\ cmd.arg = c
  BY DEF cmd, CommandRecords, Cmd, CommandNames, Args
<1> HIDE DEF cmd
<1>2. wire = <<>> /\ Sent = {} /\ source = "silence"
  <2>1. wire = <<>> /\ source = "silence"
    BY <1>0 DEF ReplyInv, HolderInv
  <2> QED BY <2>1 DEF Sent, Items
<1>3. /\ wire' \in Seq(CommandRecords) /\ wire' # <<>> /\ Len(wire') = 1
      /\ wire'[Len(wire')] = cmd /\ Sent' = {cmd}
      /\ command'.name = "dial" /\ command'.reply = "none"
      /\ cmd = Cmd(command'.name, command'.arg)
      /\ command' \in [name : CommandNames \cup {None}, arg : Args,
                       reply : {"none", "ok", "error"}]
  <2>1. Len(wire) = 0
    BY <1>2
  <2> QED BY <1>0, <1>1, <1>2, <2>1, SendWire
<1>4. ~HangupOnItsWay'
  <2>1. \A m \in Sent' : m.name # "hangup"
    BY <1>1, <1>3
  <2> QED BY <2>1 DEF HangupOnItsWay, Sent, Items
<1>5. \A p \in Tasks \ {c} : task[p].at \notin Holding
  BY <1>0 DEF ManagerInv, LockOwned, Holding
<1>6. \A d \in Calls : ~DialSent(d) /\ (DialSent(d)' <=> d = c)
  BY <1>1, <1>2, <1>3 DEF DialSent, Cmd, cmd
<1>7. Unsent(c) /\ ~Unsent(c)' /\ \A d \in Calls : Unsent(d)' => Unsent(d)
  BY <1>0, <1>3 DEF Unsent
<1>8. SystemTypes' /\ ReplyInv'
  BY <1>0, <1>1, <1>3 DEF SystemTypes, ReplyInv
<1>9. HolderInv'
  BY <1>0, <1>3, <1>5 DEF HolderInv, HangupPoint, Holding, Commands
<1>10. WireInv'
  BY <1>0, <1>1, <1>2, <1>3 DEF WireInv
<1>11. \A d \in Calls : InSlot(d)' = InSlot(d) /\ (InSlot(d) => d = c)
  <2>1. sipCallStarted => call.id = c
    <3>1. task[c].id = c
      BY <1>0 DEF HolderInv
    <3> QED BY <1>0, <3>1 DEF ManagerInv, Safe, CommandsHitOwnCall, CommandPoints
  <2> QED BY <1>0, <2>1 DEF InSlot
<1>12. \A d \in Calls : Told(d)' = Told(d) /\ Met(d)' = Met(d) /\ (Met(d) => d # c)
  <2>1. \A d \in Calls : Told(d)' = Told(d)
    BY <1>0 DEF Told, On
  <2> QED BY <1>0, <1>7, <2>1 DEF Met, MetInv, NotYet
<1>13. MetInv'
  BY <1>6, <1>7, <1>11, <1>12 DEF MetInv, NotYet
<1>14. AudioInv'
  <2>1. Attended' = Attended /\ ~Loud'
    BY <1>0, <1>1, <1>2, <1>3 DEF Attended, Loud, Silent
  <2> QED BY <1>11, <1>12, <2>1 DEF AudioInv
<1>15. EndInv'
  <2>1. At("ending", "sleep") => \A d \in Calls : ~InSlot(d)
    BY <1>7, <1>11 DEF EndInv, Gone, NotYet
  <2> QED BY <1>0, <1>11, <2>1 DEF EndInv
<1>16. CareInv'
  <2>1. c \in misled \/ InSlot(c)
    BY <1>0, <1>7 DEF CareInv
  <2>2. \A d \in Calls : Placed(d)' => Placed(d) \/ d = c
    BY <1>0, <1>6 DEF Placed
  <2>3. ~HangupOnItsWay
    BY <1>2 DEF HangupOnItsWay
  <2>4. \A d \in Calls : Dealt(d) => Dealt(d)'
    BY <1>0, <2>3 DEF Dealt
  <2> QED BY <1>0, <1>4, <1>7, <1>11, <2>1, <2>2, <2>4 DEF CareInv
<1>17. ReasonInv'
  BY <1>0 DEF ReasonInv, ReasonIsOwn
<1> QED BY <1>8, <1>9, <1>10, <1>13, <1>14, <1>15, <1>16, <1>17

(***************************************************************************)
(* Steps of baresip                                                        *)
(***************************************************************************)

\* New reports are about baresip's call, or about an inbound one, and true.
News ==
    \A e \in Reported' \ Reported :
        /\ e.of \in Calls => e.of = sip.of
        /\ e.type = "established" => Attended'
        /\ e.type \in {"closed", "closed_486"} => sip'.of \notin Calls
        /\ e.type \in {"busy", "closed_486"} => e.of \in busy'

\* Commands leave the wire, and baresip has no outbound call that it had not.
Obeys ==
    /\ Sent' \subseteq Sent /\ command'.name = command.name
    /\ source' = source \/ Cmd("ausrc", source') \in Sent
    /\ sip'.of \in Calls => sip'.of = sip.of /\ (sip.answered => sip'.answered)
    /\ HangupOnItsWay' => HangupOnItsWay
    /\ \A c \in Calls : Placed(c)' /\ Dealt(c) => Dealt(c)'

LEMMA BaresipKeeps ==
    ASSUME ManagerInv, AdapterInv, UNCHANGED <<vars, lastFailure, misled>>, busy \subseteq busy',
           SystemTypes', ReplyInv', HolderInv', WireInv', News, Obeys
    PROVE  AdapterInv'
<1> USE DEF AdapterInv, At
<1>0. UNCHANGED <<call, sipCallStarted, task, lastFailure, misled>>
  BY DEF vars
<1>1. \A c \in Calls : /\ InSlot(c)' = InSlot(c) /\ Unsent(c)' = Unsent(c)
                       /\ (DialSent(c)' => DialSent(c)) /\ (NotYet(c)' => NotYet(c))
                       /\ Aborted(c)' = Aborted(c)
  BY <1>0 DEF InSlot, Unsent, NotYet, DialSent, Obeys, Aborted, On
<1>2. Attended => Attended'
  BY DEF Attended, Obeys
<1>3. Loud' => Loud
  BY <1>0 DEF Loud, Silent, Obeys, Cmd
<1>4. \A c \in Calls : /\ Told(c)' => Told(c) \/ (Attended' /\ sip.of = c)
                       /\ Met(c)' => Met(c)
  <2> SUFFICES ASSUME NEW c \in Calls
               PROVE  /\ Told(c)' => Told(c) \/ (Attended' /\ sip.of = c)
                      /\ Met(c)' => Met(c)
    OBVIOUS
  <2>1. Told(c)' => Told(c) \/ (Attended' /\ sip.of = c)
    BY <1>0 DEF Told, On, News
  <2> QED BY <2>1 DEF Met, News, Obeys
<1>5. MetInv'
  BY <1>1, <1>4 DEF MetInv
<1>6. AudioInv'
  BY <1>1, <1>2, <1>3, <1>4 DEF AudioInv
<1>7. EndInv'
  <2>1. \A c \in Calls : sip'.of = c => sip.of = c
    BY DEF Obeys
  <2> QED BY <1>0, <1>1, <2>1 DEF EndInv, Gone, News
<1>8. CareInv'
  <2>1. \A c \in Calls : Placed(c)' => Placed(c)
    BY <1>1 DEF Placed, Obeys
  <2> QED BY <1>0, <1>1, <2>1 DEF CareInv, Obeys
<1>9. ReasonInv'
  BY <1>0 DEF ReasonInv, ReasonIsOwn, News
<1> QED BY <1>5, <1>6, <1>7, <1>8, <1>9

LEMMA EmitReports ==
    ASSUME SystemTypes, NEW type \in EventTypes, NEW of \in Calls \cup {"inbound"},
           NEW written \in Seq(Reports), Emit(type, of, written)
    PROVE  /\ events' \in Seq(Reports) /\ lines' \in Seq(Reports)
           /\ Reported' \subseteq Items(events) \cup Items(written) \cup {[type |-> type, of |-> of]}
<1> DEFINE report == [type |-> type, of |-> of]
<1>1. report \in Reports /\ events \in Seq(Reports)
  BY DEF Reports, SystemTypes
<1> HIDE DEF report
<1>2. /\ Append(events, report) \in Seq(Reports) /\ Append(written, report) \in Seq(Reports)
      /\ Items(Append(events, report)) = Items(events) \cup {report}
      /\ Items(Append(written, report)) = Items(written) \cup {report}
  BY <1>1, AppendItems
<1>3. /\ events' \in {events, Append(events, report)}
      /\ lines' \in {written, Append(written, report)}
  BY DEF Emit, report
<1>4. /\ events' \in Seq(Reports) /\ lines' \in Seq(Reports)
      /\ Items(events') \subseteq Items(events) \cup {report}
      /\ Items(lines') \subseteq Items(written) \cup {report}
  BY <1>1, <1>2, <1>3
<1>5. Reported' = Items(events') \cup Items(lines')
  BY DEF Reported, Items
<1> QED BY <1>4, <1>5 DEF report

\* Steps that leave the wire alone.
LEMMA EventKeeps ==
    ASSUME ManagerInv, AdapterInv, Answered \/ Played \/ Closed \/ Busy \/ Incoming
    PROVE  AdapterInv'
<1> USE DEF AdapterInv
<1>0. /\ UNCHANGED <<vars, wire, command, lastFailure, misled, source>> /\ Sent' = Sent
      /\ HangupOnItsWay' = HangupOnItsWay /\ task' = task
      /\ Reported = Items(events) \cup Items(lines) /\ lines \in Seq(Reports)
      /\ \A c \in Calls : DialSent(c)' = DialSent(c)
  BY DEF Answered, Played, Closed, Busy, Incoming, Sent, Items, HangupOnItsWay, baresip, vars,
         Reported, SystemTypes, DialSent
<1>1. ASSUME NEW c \in Calls, DialSent(c) PROVE sip.of # c
  BY <1>1 DEF MetInv, Met, NotYet
<1>2. sip.of \in Calls \cup {None, "inbound"} /\ (sip # NoSip => sip.of # None)
  BY DEF SystemTypes
<1>3. SystemTypes' /\ News /\ busy \subseteq busy'
  <2>1. CASE Answered
    <3>1. /\ sip.of \in Calls /\ sip' = [sip EXCEPT !.answered = TRUE] /\ busy' = busy
          /\ Emit("established", sip.of, lines)
      BY <2>1 DEF Answered
    <3>2. sip'.answered
      BY <3>1 DEF SystemTypes
    <3>3. /\ events' \in Seq(Reports) /\ lines' \in Seq(Reports)
          /\ Reported' \subseteq Reported \cup {[type |-> "established", of |-> sip.of]}
      BY <1>0, <3>1, EmitReports DEF EventTypes
    <3>4. SystemTypes'
      BY <1>0, <3>1, <3>3, TasksApart DEF SystemTypes
    <3> QED BY <3>1, <3>2, <3>3, <3>4 DEF News, Attended
  <2>2. CASE Played
    <3>1. /\ sip.answered /\ UNCHANGED <<sip, busy>> /\ Emit("eof", sip.of, lines)
      BY <2>2 DEF Played, baresip
    <3>2. sip # NoSip
      BY <3>1 DEF NoSip
    <3>3. /\ events' \in Seq(Reports) /\ lines' \in Seq(Reports)
          /\ Reported' \subseteq Reported \cup {[type |-> "eof", of |-> sip.of]}
      BY <1>0, <1>2, <3>1, <3>2, EmitReports DEF EventTypes
    <3> QED BY <1>0, <3>1, <3>3 DEF SystemTypes, News
  <2>3. CASE Closed
    <3>1. sip # NoSip /\ sip' = NoSip /\ busy' = busy /\ Emit("closed", sip.of, lines)
      BY <2>3 DEF Closed
    <3>2. /\ events' \in Seq(Reports) /\ lines' \in Seq(Reports)
          /\ Reported' \subseteq Reported \cup {[type |-> "closed", of |-> sip.of]}
      BY <1>0, <1>2, <3>1, EmitReports DEF EventTypes
    <3> QED BY <1>0, <3>1, <3>2, TasksApart DEF SystemTypes, News, NoSip
  <2>4. CASE Busy
    <3> DEFINE line == [type |-> "busy", of |-> sip.of]
               written == Append(lines, line)
    <3>1. /\ sip.of \in Calls /\ sip' = NoSip /\ busy' = busy \cup {sip.of}
          /\ \E type \in {"closed", "closed_486"} : Emit(type, sip.of, written)
      BY <2>4 DEF Busy
    <3>2. line \in Reports /\ lines \in Seq(Reports)
      BY <1>0, <3>1 DEF Reports, EventTypes
    <3> HIDE DEF line
    <3>3. written \in Seq(Reports) /\ Items(written) = Items(lines) \cup {line}
      BY <3>2, AppendItems
    <3> HIDE DEF written
    <3>4. PICK type \in {"closed", "closed_486"} : Emit(type, sip.of, written)
      BY <3>1
    <3>5. /\ events' \in Seq(Reports) /\ lines' \in Seq(Reports)
          /\ Reported' \subseteq Reported \cup {line, [type |-> type, of |-> sip.of]}
      BY <1>0, <3>1, <3>3, <3>4, EmitReports DEF EventTypes
    <3>6. SystemTypes'
      BY <1>0, <3>1, <3>5, TasksApart DEF SystemTypes, NoSip
    <3>7. News
      BY <3>1, <3>4, <3>5, TasksApart DEF News, NoSip, line
    <3> QED BY <3>1, <3>6, <3>7
  <2>5. CASE Incoming
    <3>1. sip' = NewSip("inbound") /\ busy' = busy /\ Emit("incoming", "inbound", lines)
      BY <2>5 DEF Incoming
    <3>2. /\ events' \in Seq(Reports) /\ lines' \in Seq(Reports)
          /\ Reported' \subseteq Reported \cup {[type |-> "incoming", of |-> "inbound"]}
      BY <1>0, <3>1, EmitReports DEF EventTypes
    <3> QED BY <1>0, <3>1, <3>2, TasksApart DEF SystemTypes, News, NewSip
  <2> QED BY <2>1, <2>2, <2>3, <2>4, <2>5
<1>4. sip'.of \in Calls => sip'.of = sip.of /\ sip'.kept = sip.kept
                           /\ (sip.answered => sip'.answered)
  BY TasksApart DEF Answered, Played, Closed, Busy, Incoming, baresip, NoSip, NewSip, SystemTypes
<1>5. Obeys
  <2>1. ASSUME NEW c \in Calls, Placed(c)', Dealt(c) PROVE Dealt(c)'
    BY <1>0, <1>1, <1>4, <2>1 DEF Placed, Dealt
  <2> QED BY <1>0, <1>4, <2>1 DEF Obeys
<1>6. ReplyInv'
  BY <1>0, <1>4 DEF ReplyInv
<1>7. HolderInv' /\ WireInv'
  BY <1>0 DEF HolderInv, WireInv, At
<1> QED BY <1>0, <1>3, <1>5, <1>6, <1>7, BaresipKeeps

\* A command leaves the wire, and its answer reaches whoever still waits for it.
LEMMA AnswerWire ==
    ASSUME ManagerInv, AdapterInv, wire # <<>>, NEW reply \in {"ok", "error"}, Answer(reply)
    PROVE  /\ wire' \in Seq(CommandRecords) /\ Sent' \subseteq Sent
           /\ Head(wire) \in Sent /\ Head(wire) \in CommandRecords
           /\ command' \in [name : CommandNames \cup {None}, arg : Args,
                             reply : {"none", "ok", "error"}]
           /\ command'.name = command.name /\ command'.arg = command.arg
           /\ command'.reply # "none" =>
                /\ command'.reply = reply /\ wire' = <<>>
                /\ Head(wire) = Cmd(command.name, command.arg)
           /\ wire' # <<>> => wire'[Len(wire')] = Cmd(command.name, command.arg)
           /\ HangupOnItsWay' => HangupOnItsWay
           /\ HangupOnItsWay => HangupOnItsWay' \/ Head(wire).name = "hangup"
           /\ \A c \in Calls : ~DialSent(c)'
           /\ HolderInv' /\ WireInv'
<1> USE DEF AdapterInv, At
<1>0. wire \in Seq(CommandRecords) /\ wire' = Tail(wire) /\ UNCHANGED task /\ task' = task
  BY DEF SystemTypes, Answer, vars
<1>1. /\ wire' \in Seq(CommandRecords) /\ Head(wire) = wire[1] /\ wire[1] \in CommandRecords
      /\ Len(wire') = Len(wire) - 1 /\ Len(wire) \in Nat \ {0}
      /\ \A i \in 1..(Len(wire) - 1) : wire'[i] = wire[i + 1]
      /\ Sent = Sent' \cup {Head(wire)}
      /\ \A m \in Sent' : \E i \in 2..Len(wire) : m = wire[i]
  <2>1. Sent = Items(wire) /\ Sent' = Items(Tail(wire))
    BY <1>0 DEF Sent, Items
  <2> QED BY <1>0, <2>1, TailItems
<1>2. \A m \in Sent' : m.name # "dial"
  BY <1>1 DEF WireInv
<1>3. \A c \in Calls : ~DialSent(c)'
  BY <1>2 DEF DialSent, Cmd
<1>4. WireInv'
  <2>1. \A i \in 2..Len(wire') : wire'[i].name # "dial"
    <3> SUFFICES ASSUME NEW i \in 2..Len(wire') PROVE wire'[i].name # "dial"
      OBVIOUS
    <3>1. wire'[i] = wire[i + 1] /\ i + 1 \in 2..Len(wire)
      BY <1>1
    <3> QED BY <3>1 DEF WireInv
  <2> QED BY <1>2, <2>1 DEF WireInv
<1>5. command' = IF Awaited THEN [command EXCEPT !.reply = reply] ELSE command
  BY DEF Answer
<1>6. /\ command' \in [name : CommandNames \cup {None}, arg : Args,
                        reply : {"none", "ok", "error"}]
      /\ command'.name = command.name /\ command'.arg = command.arg
      /\ command'.reply # "none" => command'.reply = reply /\ Awaited
      /\ command'.reply = "none" => ~Awaited
  BY <1>5 DEF SystemTypes, ReplyInv
<1>7. Awaited => wire' = <<>> /\ Head(wire) = Cmd(command.name, command.arg)
  <2>1. Len(wire) = 1 => Len(wire') = 0 /\ wire[1] = Cmd(command.name, command.arg)
    BY <1>1 DEF ReplyInv
  <2>2. Len(wire') = 0 => wire' = <<>>
    BY <1>1
  <2> QED BY <1>1, <2>1, <2>2 DEF Awaited
<1>8. wire' # <<>> => wire'[Len(wire')] = Cmd(command.name, command.arg)
  <2> SUFFICES ASSUME wire' # <<>> PROVE wire'[Len(wire')] = Cmd(command.name, command.arg)
    OBVIOUS
  <2>1. Len(wire') # 0
    BY <1>1
  <2>2. wire'[Len(wire')] = wire[Len(wire)]
    <3>1. Len(wire) - 1 \in 1..(Len(wire) - 1) /\ (Len(wire) - 1) + 1 = Len(wire)
      BY <1>1, <2>1
    <3> QED BY <1>1, <3>1
  <2> QED BY <2>2 DEF ReplyInv
<1>9. HangupOnItsWay' <=> \E m \in Sent' : m.name = "hangup"
  BY DEF HangupOnItsWay, Sent, Items
<1>10. HolderInv'
  <2>1. ASSUME NEW t \in Tasks, task[t].at \in Commands, command'.reply = "none"
        PROVE  wire' # <<>>
    <3>1. operationLock # None
      BY <2>1, NoneAssumption DEF Commands, ManagerInv, LockOwned
    <3>2. Len(wire) # 1
      BY <1>6, <2>1, <3>1 DEF Awaited
    <3> QED BY <1>1, <3>2
  <2> QED BY <1>0, <1>6, <2>1 DEF HolderInv
<1> QED BY <1>1, <1>3, <1>4, <1>6, <1>7, <1>8, <1>9, <1>10, SentHangup

\* baresip places the call.
LEMMA PlaceKeeps ==
    ASSUME ManagerInv, AdapterInv, wire # <<>>, Head(wire).name = "dial", sip = NoSip,
           sip' = NewSip(Head(wire).arg), Answer("ok"), UNCHANGED <<source, events, lines>>
    PROVE  AdapterInv'
<1> USE DEF AdapterInv, At
<1>0. UNCHANGED <<call, sipCallStarted, task, lastFailure, misled, source, busy>>
      /\ Reported' = Reported
  BY DEF Answer, vars, Reported, Items
<1>1. /\ wire' \in Seq(CommandRecords) /\ Sent' \subseteq Sent
      /\ Head(wire) \in Sent /\ Head(wire) \in CommandRecords
      /\ command' \in [name : CommandNames \cup {None}, arg : Args,
                        reply : {"none", "ok", "error"}]
      /\ command'.name = command.name /\ command'.arg = command.arg
      /\ command'.reply # "none" =>
           /\ command'.reply = "ok" /\ wire' = <<>>
           /\ Head(wire) = Cmd(command.name, command.arg)
      /\ wire' # <<>> => wire'[Len(wire')] = Cmd(command.name, command.arg)
      /\ HangupOnItsWay' => HangupOnItsWay
      /\ HangupOnItsWay => HangupOnItsWay'
      /\ \A d \in Calls : ~DialSent(d)'
      /\ HolderInv' /\ WireInv'
  BY AnswerWire
<1>2. PICK c \in Calls : /\ DialSent(c) /\ sip.of = None
                         /\ sip' = [of |-> c, answered |-> FALSE, kept |-> FALSE]
                         /\ Head(wire) = Cmd("dial", c)
  BY <1>1 DEF WireInv, DialSent, CommandRecords, Cmd, NoSip, NewSip
<1>3. ~Met(c) /\ ~Unsent(c)
  BY <1>2 DEF MetInv, NotYet
<1>4. \A d \in Calls : /\ InSlot(d)' = InSlot(d) /\ Unsent(d)' = Unsent(d)
                       /\ Told(d)' = Told(d) /\ Aborted(d)' = Aborted(d)
                       /\ (Met(d)' => Met(d) \/ d = c) /\ (Placed(d)' => d = c)
  <2>1. \A d \in Calls : /\ InSlot(d)' = InSlot(d) /\ Unsent(d)' = Unsent(d)
                         /\ Told(d)' = Told(d) /\ Aborted(d)' = Aborted(d)
    BY <1>0, <1>1 DEF InSlot, Unsent, Told, On, Aborted
  <2> QED BY <1>0, <1>1, <1>2, <2>1 DEF Met, Placed
<1>5. SystemTypes'
  BY <1>0, <1>1, <1>2, TasksApart DEF SystemTypes, NewSip
<1>6. ReplyInv'
  BY <1>0, <1>1, <1>2 DEF ReplyInv, Cmd
<1>7. MetInv'
  BY <1>1, <1>3, <1>4 DEF MetInv, NotYet
<1>8. AudioInv'
  <2>1. \A d \in Calls : ~(Told(d) /\ InSlot(d))
    BY <1>2 DEF MetInv, Met
  <2>2. ~Loud'
    BY <1>0, <1>1, <1>2 DEF AudioInv, Loud, Silent
  <2> QED BY <1>4, <2>1, <2>2 DEF AudioInv
<1>9. EndInv'
  <2>1. \A e \in Reported : e.of # c
    BY <1>2, <1>3 DEF Met
  <2>2. \A d \in Calls : Gone(d) => Gone(d)'
    BY <1>1, <1>2, <1>4 DEF Gone, NotYet
  <2> QED BY <1>0, <1>2, <1>4, <2>1, <2>2 DEF EndInv
<1>10. CareInv'
  <2>1. Placed(c) /\ (Dealt(c) => Dealt(c)')
    BY <1>1, <1>2, TasksApart DEF Placed, Dealt
  <2>2. \A d \in Calls : At(d, "dial")' /\ Unsent(d)' => d \in misled' \/ InSlot(d)'
    BY <1>0, <1>4 DEF CareInv
  <2>3. c \in misled' \/ Dealt(c)' \/ InSlot(c)'
    BY <1>0, <1>2, <1>4, <2>1 DEF CareInv
  <2>4. HangupOnItsWay' /\ InSlot(c)' => call'.state = "ending" \/ Aborted(c)'
    BY <1>0, <1>1, <1>2, <1>4, <2>1 DEF CareInv
  <2> QED BY <1>4, <2>2, <2>3, <2>4 DEF CareInv
<1>11. ReasonInv'
  BY <1>0 DEF ReasonInv, ReasonIsOwn
<1> QED BY <1>1, <1>5, <1>6, <1>7, <1>8, <1>9, <1>10, <1>11

LEMMA ExecuteKeeps ==
    ASSUME ManagerInv, AdapterInv, Execute
    PROVE  AdapterInv'
<1> USE DEF AdapterInv, At
<1> DEFINE cmd == Head(wire)
<1>1. CASE cmd.name = "dial" /\ sip = NoSip /\ sip' = NewSip(cmd.arg) /\ Answer("ok")
           /\ UNCHANGED <<source, events, lines>>
  BY <1>1, PlaceKeeps DEF Execute
<1>2. ASSUME NEW reply \in {"ok", "error"}, Answer(reply),
             \/ /\ cmd.name = "ausrc" /\ source' = cmd.arg /\ reply = "ok"
                /\ UNCHANGED <<sip, events, lines>>
             \/ /\ cmd.name = "hangup" /\ sip # NoSip /\ sip' = NoSip /\ reply = "ok"
                /\ Emit("closed", sip.of, lines) /\ UNCHANGED source
             \/ /\ cmd.name = "hangup" /\ sip = NoSip /\ reply = "ok"
                /\ UNCHANGED <<source, sip, events, lines>>
             \/ /\ sip' = [sip EXCEPT !.kept = @ \/ (sip # NoSip /\ cmd.name = "hangup")]
                /\ reply = "error" /\ UNCHANGED <<source, events, lines>>
      PROVE  AdapterInv'
  <2>0. /\ wire # <<>> /\ UNCHANGED <<vars, lastFailure, misled, busy>> /\ task' = task
        /\ Reported = Items(events) \cup Items(lines) /\ lines \in Seq(Reports)
    BY <1>2 DEF Execute, Answer, Reported, SystemTypes, vars
  <2>1. /\ wire' \in Seq(CommandRecords) /\ Sent' \subseteq Sent
        /\ Head(wire) \in Sent /\ Head(wire) \in CommandRecords
        /\ command' \in [name : CommandNames \cup {None}, arg : Args,
                          reply : {"none", "ok", "error"}]
        /\ command'.name = command.name /\ command'.arg = command.arg
        /\ command'.reply # "none" =>
             /\ command'.reply = reply /\ wire' = <<>>
             /\ Head(wire) = Cmd(command.name, command.arg)
        /\ wire' # <<>> => wire'[Len(wire')] = Cmd(command.name, command.arg)
        /\ HangupOnItsWay' => HangupOnItsWay
        /\ HangupOnItsWay => HangupOnItsWay' \/ Head(wire).name = "hangup"
        /\ \A c \in Calls : ~DialSent(c)'
        /\ HolderInv' /\ WireInv'
    BY <1>2, <2>0, AnswerWire
  <2> HIDE DEF cmd
  <2>2. /\ sip' \in [of : Calls \cup {None, "inbound"}, answered : BOOLEAN, kept : BOOLEAN]
        /\ sip'.of = None => sip' = NoSip
        /\ sip'.of \in Calls => sip'.of = sip.of /\ (sip.answered => sip'.answered)
                                 /\ (sip.kept => sip'.kept)
        /\ sip'.of \in Calls /\ cmd.name = "hangup" => reply = "error" /\ sip'.kept
    <3>1. CASE sip' = NoSip
      BY <3>1, TasksApart DEF NoSip
    <3>2. CASE sip' = sip /\ cmd.name # "hangup"
      BY <3>2 DEF SystemTypes
    <3>3. CASE sip' = [sip EXCEPT !.kept = @ \/ (sip # NoSip /\ cmd.name = "hangup")]
               /\ reply = "error" /\ sip # NoSip
      <4>1. /\ sip' \in [of : Calls \cup {None, "inbound"}, answered : BOOLEAN, kept : BOOLEAN]
            /\ sip'.of = sip.of /\ sip'.answered = sip.answered /\ (sip.kept => sip'.kept)
            /\ cmd.name = "hangup" => sip'.kept
        BY <3>3 DEF SystemTypes
      <4> QED BY <3>3, <4>1 DEF SystemTypes
    <3>4. CASE sip' = [sip EXCEPT !.kept = @ \/ (sip # NoSip /\ cmd.name = "hangup")]
               /\ sip = NoSip
      <4>1. sip' = NoSip
        BY <3>4 DEF NoSip
      <4> QED BY <3>1, <4>1
    <3> QED BY <1>2, <3>1, <3>2, <3>3, <3>4
  <2>3. /\ events' \in Seq(Reports) /\ lines' \in Seq(Reports)
        /\ \/ Reported' \subseteq Reported
           \/ sip' = NoSip /\ Reported' \subseteq Reported \cup {[type |-> "closed", of |-> sip.of]}
    <3>1. CASE UNCHANGED <<events, lines>>
      BY <3>1 DEF Reported, SystemTypes, Items
    <3>2. CASE sip # NoSip /\ sip' = NoSip /\ Emit("closed", sip.of, lines)
      <4>1. sip.of \in Calls \cup {"inbound"}
        BY <3>2 DEF SystemTypes
      <4> QED BY <2>0, <3>2, <4>1, EmitReports DEF EventTypes
    <3> QED BY <1>2, <3>1, <3>2
  <2>4. SystemTypes'
    BY <2>1, <2>2, <2>3 DEF SystemTypes
  <2>5. ReplyInv'
    <3>1. command.name = "ausrc" /\ command'.reply = "ok" => source' = command.arg
      BY <1>2, <2>1 DEF cmd, Cmd, CommandRecords
    <3>2. command.name = "hangup" /\ sip'.of \in Calls =>
             command'.reply # "ok" /\ (command'.reply = "error" => sip'.kept)
      BY <2>1, <2>2 DEF cmd, Cmd, CommandRecords
    <3> QED BY <2>1, <3>1, <3>2 DEF ReplyInv
  <2>6. News
    BY <2>2, <2>3, TasksApart DEF News, NoSip
  <2>7. Obeys
    <3>1. source' = source \/ Cmd("ausrc", source') \in Sent
      <4>1. cmd.name = "ausrc" /\ source' = cmd.arg => cmd = Cmd("ausrc", source')
        BY <2>1 DEF cmd, Cmd, CommandRecords
      <4> QED BY <1>2, <2>1, <4>1 DEF cmd
    <3>2. ASSUME NEW c \in Calls, Placed(c)', Dealt(c) PROVE Dealt(c)'
      <4>1. sip'.of = c /\ sip.of = c
        BY <2>1, <2>2, <3>2 DEF Placed
      <4> QED BY <2>1, <2>2, <3>2, <4>1 DEF Dealt, cmd
    <3> QED BY <2>1, <2>2, <3>1, <3>2 DEF Obeys
  <2> QED BY <2>0, <2>1, <2>4, <2>5, <2>6, <2>7, BaresipKeeps
<1> QED BY <1>1, <1>2 DEF Execute

(***************************************************************************)
(* What the steps of the manager do to the tasks and to the slot           *)
(***************************************************************************)

LEMMA GotoMoves ==
    ASSUME NEW t \in Tasks, NEW at, NEW c, NEW S \in SUBSET Timers, Goto(t, at, c, S)
    PROVE  OnlyMoves(t, None) /\ task'[t].at = at /\ task'[t].id = c
BY DEF Goto, OnlyMoves, Idle

LEMMA ReturnMoves ==
    ASSUME NEW t \in Tasks, Return(t)
    PROVE  OnlyMoves(t, None) /\ task'[t] = Idle
BY DEF Return, Goto, OnlyMoves, Idle

LEMMA StartingMoves ==
    ASSUME NEW timer \in Timers, NEW t \in Tasks, NEW c, NEW needed,
           ReturnStarting(timer, t, c, needed)
    PROVE  OnlyMoves(t, timer) /\ task'[t] = Idle
BY TasksApart DEF ReturnStarting, OnlyMoves, Idle

LEMMA FinishMoves ==
    ASSUME ManagerInv, NEW t \in Tasks \ {"terminal"}, NEW c, NEW state, NEW owned,
           Finish(t, c, state, owned)
    PROVE  /\ OnlyMoves(t, None) /\ task'[t] = Idle
           /\ call'.id = call.id /\ sipCallStarted' = (sipCallStarted /\ call.id # c)
           /\ call.id # c => call' = call
           /\ call.id = c => call'.state = state
<1>1. CASE call.id # c
  <2>1. Return(t) /\ UNCHANGED <<call, sipCallStarted>>
    BY <1>1 DEF Finish
  <2>2. sipCallStarted \in BOOLEAN
    BY DEF ManagerInv, TypeOK
  <2> QED BY <1>1, <2>1, <2>2, ReturnMoves
<1>2. CASE call.id = c
  <2> DEFINE S == CancelledBy(t, MediaTimers \cup {"ending"})
  <2>1. S \subseteq Timers
    BY DEF CancelledBy, ManagerInv, TypeOK
  <2>2. /\ call' = [call EXCEPT !.state = state] /\ sipCallStarted' = FALSE
        /\ task' = [p \in Tasks |-> IF p = "terminal" THEN [at |-> "hold", id |-> c]
                                    ELSE IF p \in S \cup {t} THEN Idle ELSE task[p]]
    BY <1>2 DEF Finish
  <2> HIDE DEF S
  <2>3. OnlyMoves(t, None) /\ task'[t] = Idle
    BY <2>1, <2>2, TasksApart DEF OnlyMoves, Idle
  <2>4. call'.id = call.id /\ call'.state = state
    BY <2>2 DEF ManagerInv, TypeOK
  <2> QED BY <1>2, <2>2, <2>3, <2>4
<1> QED BY <1>1, <1>2

\* A step that only takes a task to another place where it does not hold the lock.
LEMMA MovesPassive ==
    ASSUME ManagerInv, AdapterInv, NEW t \in Tasks, NEW started \in Timers \cup {None},
           OnlyMoves(t, started), UNCHANGED <<call, sipCallStarted>>, misled \subseteq misled',
           PassiveTask(t), task[t].at \notin {"abort", "est_abort"}
    PROVE  Passive(t, started)
<1>1. \A c \in Calls : InSlot(c)' = InSlot(c)
  BY DEF InSlot
<1> QED BY <1>1 DEF Passive, PassiveSlot, AdapterInv, ReasonInv, ReasonIsOwn

LEMMA ReturnPassive ==
    ASSUME ManagerInv, AdapterInv, NEW t \in Tasks, Return(t),
           UNCHANGED <<call, sipCallStarted>>, misled \subseteq misled',
           task[t].at \notin {"abort", "est_abort"}
    PROVE  Passive(t, None)
<1>1. OnlyMoves(t, None) /\ task'[t] = Idle
  BY ReturnMoves
<1>2. PassiveTask(t)
  BY <1>1, TasksApart DEF PassiveTask, Idle, Holding, OnlyMoves, At
<1> QED BY <1>1, <1>2, MovesPassive

\* _finish, of a call that has been dealt with, that another's event ended, or that
\* has no SIP side.
LEMMA FinishPassive ==
    ASSUME ManagerInv, AdapterInv, NEW t \in Tasks \ {"terminal"}, NEW c, NEW state, NEW owned,
           Finish(t, c, state, owned), misled \subseteq misled',
           state = "busy" => c \in busy \cup misled',
           task[t].at \in {"abort", "est_abort"} => task[t].id = c,
           sipCallStarted /\ call.id = c /\ c \in Calls /\ c \notin misled' =>
             /\ Placed(c) => Dealt(c)
             /\ At(c, "dial") /\ Unsent(c) => c = t
    PROVE  Passive(t, None)
<1>1. /\ OnlyMoves(t, None) /\ task'[t] = Idle
      /\ call'.id = call.id /\ sipCallStarted' = (sipCallStarted /\ call.id # c)
      /\ call.id # c => call' = call
      /\ call.id = c => call'.state = state
  BY FinishMoves
<1>2. PassiveTask(t)
  BY <1>1, TasksApart DEF PassiveTask, Idle, Holding, OnlyMoves, At
<1>3. \A d \in Calls : InSlot(d)' <=> InSlot(d) /\ d # c
  BY <1>1 DEF InSlot
<1>4. \A d \in Calls : InSlot(d) => d = call.id /\ sipCallStarted
  BY DEF InSlot
<1>5. ~At(t, "dial")'
  BY <1>1 DEF At, Idle
<1>6. \A d \in Calls : At(d, "dial")' => At(d, "dial") /\ d # t
  BY <1>1, <1>5, TasksApart DEF At, OnlyMoves
<1>7. call'.state = "busy" => call'.id \in busy \cup misled'
  BY <1>1 DEF AdapterInv, ReasonInv, ReasonIsOwn
<1> QED BY <1>1, <1>2, <1>3, <1>4, <1>6, <1>7 DEF Passive, PassiveSlot

\* Whoever has waited for the reply to a hang-up has dealt with baresip's call.
LEMMA HangupDeals ==
    ASSUME ManagerInv, AdapterInv, NEW t \in Tasks, task[t].at \in HangupPoint
    PROVE  /\ \A c \in Calls : Placed(c) => Dealt(c)
           /\ \A c \in Calls : ~At(c, "dial")
           /\ command.reply = "ok" => \A c \in Calls : ~Placed(c)
<1> USE DEF AdapterInv
<1>1. command.name = "hangup" /\ (command.reply = "none" => wire # <<>>)
  BY DEF HolderInv, HangupPoint, Commands, Holding
<1>2. command.reply = "none" => HangupOnItsWay
  <2> SUFFICES ASSUME wire # <<>> PROVE HangupOnItsWay
    BY <1>1
  <2>1. Len(wire) \in DOMAIN wire
    BY DEF SystemTypes
  <2> QED BY <1>1, <2>1 DEF HangupOnItsWay, ReplyInv, Cmd
<1>3. command.reply # "none" => \A c \in Calls : ~DialSent(c)
  BY DEF ReplyInv, DialSent, Sent, Items
<1>4. \A c \in Calls : ~At(c, "dial")
  BY OneHolder, TasksApart DEF ManagerInv, At, HangupPoint, Holding
<1>5. command.reply \in {"none", "ok", "error"}
  BY DEF SystemTypes
<1> QED BY <1>1, <1>2, <1>3, <1>4, <1>5 DEF ReplyInv, Placed, Dealt

PassiveStep == \E t \in Tasks : \E started \in Timers \cup {None} : Passive(t, started)
Shaped == PassiveStep \/ (\E t \in Tasks : HangsUp(t)) \/ \E ch \in Channels : PlaysAlarm(ch)

LEMMA ShapedKeeps ==
    ASSUME ManagerInv, ManagerInv', AdapterInv, Shaped, SendsItsCommand,
           UNCHANGED <<events, lines, lastFailure, baresip, misled>>
    PROVE  AdapterInv'
<1>1. ASSUME NEW t \in Tasks, NEW started \in Timers \cup {None}, Passive(t, started)
      PROVE  AdapterInv'
  <2>1. UNCHANGED <<wire, command>>
    BY <1>1, SendsNothing DEF Passive, PassiveTask
  <2>2. Reported' = Reported /\ events' \in Seq(Reports) /\ lines' \in Seq(Reports)
    BY DEF Reported, Items, AdapterInv, SystemTypes
  <2>3. sipCallStarted' /\ lastFailure' => call'.id \in busy \cup misled'
    <3>1. sipCallStarted' => \E c \in Calls : call'.id = c /\ InSlot(c)'
      BY NoneAssumption DEF ManagerInv, Safe, SipCallOwned, TypeOK, InSlot
    <3>2. sipCallStarted' => sipCallStarted /\ call.id = call'.id
      BY <1>1, <3>1 DEF Passive, PassiveSlot, InSlot
    <3> QED BY <3>2 DEF AdapterInv, ReasonInv
  <2> QED BY <1>1, <2>1, <2>2, <2>3, PassiveKeeps
<1> QED BY <1>1, HangsUpKeeps, PlaysAlarmKeeps DEF Shaped, PassiveStep

(***************************************************************************)
(* The shape of each step of the manager                                   *)
(***************************************************************************)

\* A call that waits to dial, or whose WAV is being prepared, has no SIP side.
LEMMA WaitingHasNoSip ==
    ASSUME ManagerInv, NEW c \in Calls, task[c].at \in {"new", "prepare", "lock"}, call.id = c
    PROVE  ~sipCallStarted
BY DEF ManagerInv, Safe, SipCallOwned, WavsOwned

\* Task t hangs up the call in the slot.
LEMMA BeginHangupShape ==
    ASSUME ManagerInv, NEW t \in Tasks \ Calls, NEW c, BeginHangup(t, c), UNCHANGED media,
           ~At(t, "hangup"), t # "ending"
    PROVE  HangsUp(t)
<1>1. CancelledBy(t, MediaTimers) \subseteq Timers
  BY DEF CancelledBy, ManagerInv, TypeOK
<1>2. OnlyMoves(t, None) /\ task'[t].at = "hangup"
  BY <1>1, GotoMoves DEF BeginHangup
<1>3. call'.id = call.id /\ call'.state = "ending" /\ sipCallStarted' = sipCallStarted
  BY DEF BeginHangup, ManagerInv, TypeOK
<1> QED BY <1>2, <1>3 DEF HangsUp, HangupPoint, At

LEMMA RequestShape ==
    ASSUME ManagerInv, AdapterInv, NEW c \in Calls, misled' = misled,
           StartCall(c) \/ AudioPrepared(c) \/ AudioFailed(c) \/ DialCancelled(c)
           \/ (Dial(c) /\ ~RateAllows)
    PROVE  Passive(c, None)
<1> USE DEF At
<1>0. c \in Tasks \ {"terminal"} /\ c \notin Channels /\ c \notin Timers /\ c # None
  BY TasksApart
<1>1. CASE StartCall(c)
  <2> DEFINE S == CancelledBy(c, {"terminal"})
  <2>1. /\ task[c].at = "new" /\ call.state \notin Active /\ Goto(c, "prepare", c, S)
        /\ S \in SUBSET Timers /\ call'.state = "dialing" /\ ~sipCallStarted'
    BY <1>1, TasksApart DEF StartCall, CancelledBy
  <2>2. OnlyMoves(c, None) /\ task'[c].at = "prepare" /\ task'[c].id = c
    BY <1>0, <2>1, GotoMoves
  <2>3. ~sipCallStarted
    BY <2>1 DEF ManagerInv, Safe, SipCallOwned
  <2>4. PassiveTask(c)
    BY <1>0, <2>1, <2>2, TasksApart DEF PassiveTask, Holding, OnlyMoves
  <2> QED BY <2>1, <2>2, <2>3, <2>4 DEF Passive, PassiveSlot, InSlot
<1>2. CASE AudioPrepared(c)
  <2>1. /\ task[c].at = "prepare" /\ Goto(c, "lock", c, {})
        /\ UNCHANGED <<call, sipCallStarted>>
    BY <1>2 DEF AudioPrepared
  <2>2. OnlyMoves(c, None) /\ task'[c].at = "lock" /\ task'[c].id = c
    BY <1>0, <2>1, GotoMoves
  <2>3. PassiveTask(c)
    BY <1>0, <2>1, <2>2, TasksApart DEF PassiveTask, Holding, OnlyMoves
  <2> QED BY <1>0, <2>1, <2>2, <2>3, MovesPassive
<1>3. CASE AudioFailed(c) \/ (Dial(c) /\ ~RateAllows)
  <2>1. /\ task[c].at \in {"prepare", "lock"}
        /\ \E owned : Finish(c, c, "failed", owned)
    BY <1>3 DEF AudioFailed, Dial
  <2>2. call.id = c => ~sipCallStarted
    BY <2>1, WaitingHasNoSip
  <2> QED BY <1>0, <2>1, <2>2, FinishPassive
<1>4. CASE DialCancelled(c)
  BY <1>0, <1>4, ReturnPassive DEF DialCancelled
<1> QED BY <1>1, <1>2, <1>3, <1>4

\* A step that only takes a task, which is no request, to wait for the lock.
LEMMA WaitsPassive ==
    ASSUME ManagerInv, AdapterInv, NEW t \in Tasks \ (Calls \cup Channels), misled' = misled,
           NEW at \in {"lock", "eof_lock"}, NEW c, Move(t, at, c),
           task[t].at \notin {"abort", "est_abort"}
    PROVE  Passive(t, None)
<1>1. Goto(t, at, c, {}) /\ UNCHANGED <<call, sipCallStarted>>
  BY DEF Move
<1>2. OnlyMoves(t, None) /\ task'[t].at = at /\ task'[t].id = c
  BY <1>1, GotoMoves
<1>3. PassiveTask(t)
  BY <1>2, TasksApart DEF PassiveTask, Holding, OnlyMoves, At
<1> QED BY <1>1, <1>2, <1>3, MovesPassive

LEMMA HangupShape ==
    ASSUME ManagerInv, AdapterInv, NEW h \in Hangups, misled' = misled,
           Hangup(h) \/ \E c \in Calls : HangupRequest(h, c)
    PROVE  HangsUp(h) \/ Passive(h, None)
<1> USE DEF At
<1>0. h \in Tasks \ {"terminal"} /\ h \notin Calls /\ h \notin Channels /\ h # "ending"
  BY TasksApart
<1>1. CASE \E c \in Calls : HangupRequest(h, c)
  BY <1>0, <1>1, WaitsPassive DEF HangupRequest
<1>2. CASE Hangup(h)
  <2> DEFINE c == task[h].id
  <2>0. task[h].at = "lock"
    BY <1>2 DEF Hangup
  <2>1. CASE ~IsCurrent(c, Active \ {"ending"})
    BY <1>0, <1>2, <2>0, <2>1, ReturnPassive DEF Hangup
  <2>2. CASE IsCurrent(c, Active \ {"ending"}) /\ ~sipCallStarted
    <3>1. Finish(h, c, "ended", {})
      BY <1>2, <2>2 DEF Hangup
    <3> QED BY <1>0, <2>0, <2>2, <3>1, FinishPassive
  <2>3. CASE IsCurrent(c, Active \ {"ending"}) /\ sipCallStarted
    <3>1. BeginHangup(h, c) /\ UNCHANGED media
      BY <1>2, <2>3 DEF Hangup
    <3> QED BY <1>0, <2>0, <3>1, BeginHangupShape
  <2> QED BY <2>1, <2>2, <2>3
<1> QED BY <1>1, <1>2

LEMMA AfterAudioShape ==
    ASSUME ManagerInv, AdapterInv, NEW t \in Channels \cup {"audio"}, misled' = misled,
           HangupAfterAudio(t)
    PROVE  HangsUp(t) \/ Passive(t, None)
<1> USE DEF At
<1> DEFINE c == task[t].id
<1>0. /\ task[t].at = "eof_lock" /\ t \in Tasks /\ t \notin Calls /\ t # "ending"
      /\ UNCHANGED media
  BY TasksApart DEF HangupAfterAudio
<1>1. CASE ~IsCurrent(c, {"connected"})
  BY <1>0, <1>1, ReturnPassive DEF HangupAfterAudio
<1>2. CASE IsCurrent(c, {"connected"})
  <2>1. BeginHangup(t, c)
    BY <1>2 DEF HangupAfterAudio
  <2> QED BY <1>0, <2>1, BeginHangupShape
<1> QED BY <1>1, <1>2

LEMMA ChannelShape ==
    ASSUME ManagerInv, AdapterInv, NEW ch \in Channels, misled' = misled,
           OnEstablished(ch) \/ RejectIncoming(ch)
    PROVE  HangsUp(ch) \/ Passive(ch, None) \/ PlaysAlarm(ch)
<1> USE DEF At
<1> DEFINE c == task[ch].id
<1>0. ch \in Tasks /\ ch \notin Calls /\ ch \notin Timers /\ ch # None
  BY TasksApart
<1>1. CASE OnEstablished(ch) /\ ~IsCurrent(c, Calling)
  BY <1>0, <1>1, ReturnPassive DEF OnEstablished
<1>2. CASE OnEstablished(ch) /\ IsCurrent(c, Calling) /\ prepared = None
  <2>1. /\ task[ch].at = "est_lock" /\ Goto(ch, "est_abort", c, {})
        /\ UNCHANGED <<call, sipCallStarted>> /\ ~sipCallStarted
    BY <1>2 DEF OnEstablished, ManagerInv, Safe, SipCallOwned
  <2>2. OnlyMoves(ch, None) /\ task'[ch].at = "est_abort"
    BY <1>0, <2>1, GotoMoves
  <2> QED BY <1>0, <2>1, <2>2, TasksApart DEF HangsUp, HangupPoint, InSlot
<1>3. CASE OnEstablished(ch) /\ IsCurrent(c, Calling) /\ prepared # None
  BY <1>3 DEF PlaysAlarm
<1>4. CASE RejectIncoming(ch) /\ sipCallStarted /\ call.state \in Active
  BY <1>0, <1>4, ReturnPassive DEF RejectIncoming
<1>5. CASE RejectIncoming(ch) /\ ~(sipCallStarted /\ call.state \in Active)
  <2>1. /\ task[ch].at = "inc_lock" /\ Goto(ch, "inc_hangup", None, {})
        /\ UNCHANGED <<call, sipCallStarted>> /\ ~sipCallStarted
    BY <1>5 DEF RejectIncoming, ManagerInv, Safe, SipCallOwned
  <2>2. OnlyMoves(ch, None) /\ task'[ch].at = "inc_hangup"
    BY <1>0, <2>1, GotoMoves
  <2> QED BY <1>0, <2>1, <2>2, TasksApart DEF HangsUp, HangupPoint, InSlot
<1> QED BY <1>1, <1>2, <1>3, <1>4, <1>5

LEMMA TimerShape ==
    ASSUME ManagerInv, AdapterInv, misled' = misled,
           RingElapsed \/ RingTimeout \/ AudioDeadline \/ EndingFallback
           \/ TerminalShown \/ TerminalReset
    PROVE  Shaped
<1> USE DEF At
<1>0. {"ring", "audio", "ending", "terminal"} \subseteq Tasks \ (Calls \cup Channels)
  BY TasksApart
<1>1. CASE RingElapsed \/ AudioDeadline
  BY <1>0, <1>1, WaitsPassive DEF RingElapsed, AudioDeadline, Shaped, PassiveStep
<1>2. CASE RingTimeout
  <2> DEFINE c == task["ring"].id
  <2>1. CASE ~IsCurrent(c, Calling)
    BY <1>0, <1>2, <2>1, ReturnPassive DEF RingTimeout, Shaped, PassiveStep
  <2>2. CASE IsCurrent(c, Calling)
    <3>1. /\ task["ring"].at = "lock" /\ call' = [call EXCEPT !.state = "ending"]
          /\ Goto("ring", "ring_hangup", c, {}) /\ UNCHANGED sipCallStarted
      BY <1>2, <2>2 DEF RingTimeout
    <3>2. OnlyMoves("ring", None) /\ task'["ring"].at = "ring_hangup"
      BY <1>0, <3>1, GotoMoves
    <3>3. call'.id = call.id /\ call'.state = "ending"
      BY <3>1 DEF ManagerInv, TypeOK
    <3>4. HangsUp("ring")
      BY <1>0, <3>1, <3>2, <3>3 DEF HangsUp, HangupPoint
    <3> QED BY <1>0, <3>4 DEF Shaped
  <2> QED BY <2>1, <2>2
<1>3. CASE EndingFallback
  <2> DEFINE c == task["ending"].id
  <2>1. task["ending"].at = "sleep" /\ Finish("ending", c, "ended", {})
    BY <1>3 DEF EndingFallback
  <2>2. sipCallStarted /\ call.id = c /\ c \in Calls => ~Placed(c) /\ ~Unsent(c)
    BY <2>1 DEF AdapterInv, EndInv, InSlot, Gone, NotYet, Placed
  <2>3. Passive("ending", None)
    BY <1>0, <2>1, <2>2, FinishPassive
  <2> QED BY <1>0, <2>3 DEF Shaped, PassiveStep
<1>4. CASE TerminalShown \/ TerminalReset
  <2>1. \E point \in {"idle", "reset"}, c \in Calls \cup {None} : Goto("terminal", point, c, {})
    BY <1>0, <1>4 DEF TerminalShown, TerminalReset, ManagerInv, TypeOK
  <2>2. OnlyMoves("terminal", None) /\ task'["terminal"].at \in {"idle", "reset"}
    BY <1>0, <2>1, GotoMoves
  <2>3. /\ UNCHANGED sipCallStarted /\ task["terminal"].at \in {"hold", "reset"}
        /\ \/ call' = call
           \/ call.state \in Terminal /\ call'.state \in {"idle", "ended"}
    BY <1>4 DEF TerminalShown, TerminalReset, IsCurrent, Terminal, NoCall, ManagerInv, TypeOK
  <2>4. call.state \in Terminal => ~sipCallStarted
    BY DEF ManagerInv, Safe, SipCallOwned, Active, Calling, Terminal
  <2>5. PassiveTask("terminal")
    BY <1>0, <2>2, TasksApart DEF PassiveTask, Holding, OnlyMoves
  <2>6. PassiveSlot("terminal")
    BY <2>3, <2>4 DEF PassiveSlot, InSlot, AdapterInv, ReasonInv, ReasonIsOwn
  <2> QED BY <1>0, <2>2, <2>5, <2>6 DEF Passive, Shaped, PassiveStep
<1> QED BY <1>1, <1>2, <1>3, <1>4

LEMMA ManagerStepKeeps ==
    ASSUME ManagerInv, ManagerInv', AdapterInv, ManagerStep
    PROVE  AdapterInv'
<1>0. SendsItsCommand /\ misled' = misled /\ UNCHANGED <<events, lines, baresip, misled>>
  BY DEF ManagerStep
<1>1. CASE OtherStep /\ UNCHANGED lastFailure
  <2>1. ASSUME NEW c \in Calls,
               StartCall(c) \/ AudioPrepared(c) \/ AudioFailed(c) \/ DialCancelled(c)
        PROVE  Passive(c, None) /\ c \in Tasks
    BY <1>0, <2>1, RequestShape, TasksApart
  <2>2. ASSUME NEW h \in Hangups, Hangup(h) \/ \E c \in Calls : HangupRequest(h, c)
        PROVE  (HangsUp(h) \/ Passive(h, None)) /\ h \in Tasks
    BY <1>0, <2>2, HangupShape, TasksApart
  <2>3. ASSUME NEW ch \in Channels, OnEstablished(ch) \/ RejectIncoming(ch)
        PROVE  (HangsUp(ch) \/ Passive(ch, None) \/ PlaysAlarm(ch)) /\ ch \in Tasks
    BY <1>0, <2>3, ChannelShape, TasksApart
  <2>4. ASSUME NEW t \in Channels \cup {"audio"}, HangupAfterAudio(t)
        PROVE  (HangsUp(t) \/ Passive(t, None)) /\ t \in Tasks
    BY <1>0, <2>4, AfterAudioShape, TasksApart
  <2>5. ASSUME RingElapsed \/ RingTimeout \/ AudioDeadline \/ EndingFallback
               \/ TerminalShown \/ TerminalReset
        PROVE  Shaped
    BY <1>0, <2>5, TimerShape
  <2>6. Shaped
    BY <1>1, <2>1, <2>2, <2>3, <2>4, <2>5 DEF OtherStep, Shaped, PassiveStep
  <2> QED BY <1>0, <1>1, <2>6, ShapedKeeps
<1>2. ASSUME NEW c \in Calls, DialFresh(c), RateAllows PROVE AdapterInv'
  BY <1>0, <1>2, DialKeeps
<1>3. ASSUME NEW c \in Calls, DialFresh(c), ~RateAllows PROVE AdapterInv'
  <2>1. Passive(c, None) /\ c \in Tasks
    BY <1>0, <1>3, RequestShape, TasksApart DEF DialFresh
  <2>2. lastFailure' = lastFailure
    BY <1>3, <2>1 DEF DialFresh, Passive, PassiveTask, Holding, At
  <2> QED BY <1>0, <2>1, <2>2, ShapedKeeps DEF Shaped, PassiveStep
<1> QED BY <1>1, <1>2, <1>3 DEF ManagerStep

\* The answer to a command.
LEMMA RequestReplyShape ==
    ASSUME ManagerInv, AdapterInv, NEW c \in Calls, misled' = misled,
           Dialed(c) \/ DialFailed(c) \/ DialAborted(c)
    PROVE  Shaped
<1> USE DEF At
<1>0. c \in Tasks \ {"terminal"} /\ c \notin Channels /\ c \notin Timers /\ c # "ending"
  BY TasksApart
<1>1. CASE Dialed(c)
  <2> DEFINE needed == IsCurrent(c, Calling)
  <2>1. /\ task[c].at = "dial" /\ ReturnStarting("ring", c, c, needed)
        /\ UNCHANGED <<call, sipCallStarted>>
    BY <1>1 DEF Dialed
  <2> HIDE DEF needed
  <2>2. OnlyMoves(c, "ring") /\ task'[c] = Idle
    BY <1>0, <2>1, StartingMoves, TasksApart
  <2>3. PassiveTask(c)
    BY <1>0, <2>2, TasksApart DEF PassiveTask, Idle, Holding, OnlyMoves
  <2>4. Passive(c, "ring")
    BY <1>0, <2>1, <2>2, <2>3, MovesPassive, TasksApart
  <2> QED BY <1>0, <2>4, TasksApart DEF Shaped, PassiveStep
<1>2. CASE DialFailed(c)
  <2>1. /\ task[c].at = "dial" /\ task[c].id = c /\ Goto(c, "abort", c, {})
        /\ UNCHANGED <<call, sipCallStarted>>
    BY <1>2 DEF DialFailed, Move, AdapterInv, HolderInv
  <2>2. OnlyMoves(c, None) /\ task'[c].at = "abort" /\ task'[c].id = c
    BY <1>0, <2>1, GotoMoves
  <2>3. \A d \in Calls : InSlot(d) => d = c
    BY <1>0, <2>1 DEF InSlot, ManagerInv, Safe, CommandsHitOwnCall, CommandPoints
  <2>4. HangsUp(c)
    BY <1>0, <2>1, <2>2, <2>3 DEF HangsUp, HangupPoint, Aborted
  <2> QED BY <1>0, <2>4 DEF Shaped
<1>3. CASE DialAborted(c)
  <2>1. task[c].at = "abort" /\ task[c].id = c /\ Finish(c, c, "failed", {})
    BY <1>3 DEF DialAborted, AdapterInv, HolderInv
  <2>2. (\A d \in Calls : Placed(d) => Dealt(d)) /\ \A d \in Calls : ~At(d, "dial")
    BY <1>0, <2>1, HangupDeals DEF HangupPoint
  <2>3. Passive(c, None)
    BY <1>0, <2>1, <2>2, FinishPassive
  <2> QED BY <1>0, <2>3 DEF Shaped, PassiveStep
<1> QED BY <1>1, <1>2, <1>3

\* A hang-up that was accepted: baresip has no outbound call any more.
LEMMA HangupSentShape ==
    ASSUME ManagerInv, AdapterInv, NEW t \in Hangups \cup Channels \cup {"audio"},
           misled' = misled, command.reply = "ok", HangupSent(t)
    PROVE  Shaped
<1> USE DEF At
<1>0. t \in Tasks \ {"terminal", "ending"} /\ t \notin Calls
  BY TasksApart
<1> DEFINE c == task[t].id
           needed == IsCurrent(c, {"ending"})
<1>1. /\ task[t].at = "hangup" /\ ReturnStarting("ending", t, c, needed)
      /\ UNCHANGED <<call, sipCallStarted>>
  BY DEF HangupSent
<1> HIDE DEF needed
<1>2. OnlyMoves(t, "ending") /\ task'[t] = Idle
  BY <1>0, <1>1, StartingMoves, TasksApart
<1>3. (\A d \in Calls : ~Placed(d)) /\ \A d \in Calls : ~At(d, "dial")
  BY <1>0, <1>1, HangupDeals DEF HangupPoint
<1>4. \A d \in Calls : InSlot(d) => Gone(d)
  <2> SUFFICES ASSUME NEW d \in Calls, InSlot(d) PROVE ~Unsent(d)
    BY <1>3 DEF Gone, NotYet, Placed
  <2>1. task[d].at \notin {"new", "prepare", "lock"}
    BY WaitingHasNoSip DEF InSlot
  <2> QED BY <1>3, <2>1 DEF Unsent
<1>5. PassiveTask(t)
  BY <1>0, <1>2, <1>4, TasksApart DEF PassiveTask, Idle, Holding
<1>6. Passive(t, "ending")
  BY <1>0, <1>1, <1>2, <1>5, MovesPassive, TasksApart
<1> QED BY <1>0, <1>6, TasksApart DEF Shaped, PassiveStep

\* A hang-up whose result finishes the call, or that is over.
LEMMA FinishedShape ==
    ASSUME ManagerInv, AdapterInv, NEW t \in Tasks \ {"terminal"}, misled' = misled,
           task[t].at \in HangupPoint,
           NEW state \in {"failed", "no_answer"}, Finish(t, task[t].id, state, {})
    PROVE  Shaped
<1>1. (\A d \in Calls : Placed(d) => Dealt(d)) /\ \A d \in Calls : ~At(d, "dial")
  BY HangupDeals
<1>2. Passive(t, None)
  BY <1>1, FinishPassive
<1> QED BY <1>2 DEF Shaped, PassiveStep

LEMMA ChannelReplyShape ==
    ASSUME ManagerInv, AdapterInv, NEW ch \in Channels, misled' = misled,
           AudioStarted(ch) \/ AudioStartFailed(ch) \/ IncomingRejected(ch)
    PROVE  Shaped
<1> USE DEF At
<1>0. ch \in Tasks \ {"terminal", "ending"} /\ ch \notin Calls
  BY TasksApart
<1> DEFINE c == task[ch].id
<1>1. CASE AudioStarted(ch)
  <2> DEFINE needed == IsCurrent(c, {"connected"})
  <2>1. /\ task[ch].at = "est_audio" /\ ReturnStarting("audio", ch, c, needed)
        /\ UNCHANGED <<call, sipCallStarted>>
    BY <1>1 DEF AudioStarted
  <2> HIDE DEF needed, c
  <2>2. OnlyMoves(ch, "audio") /\ task'[ch] = Idle
    BY <1>0, <2>1, StartingMoves, TasksApart
  <2>3. PassiveTask(ch)
    BY <1>0, <2>2, TasksApart DEF PassiveTask, Idle, Holding, OnlyMoves
  <2>4. Passive(ch, "audio")
    BY <1>0, <2>1, <2>2, <2>3, MovesPassive, TasksApart
  <2> QED BY <1>0, <2>4, TasksApart DEF Shaped, PassiveStep
<1>2. CASE AudioStartFailed(ch)
  <2>1. /\ task[ch].at = "est_audio" /\ Goto(ch, "est_abort", c, {})
        /\ UNCHANGED <<call, sipCallStarted>>
    BY <1>2 DEF AudioStartFailed, Move
  <2>2. OnlyMoves(ch, None) /\ task'[ch].at = "est_abort" /\ task'[ch].id = c
    BY <1>0, <2>1, GotoMoves
  <2>3. \A d \in Calls : InSlot(d) => d = c
    BY <1>0, <2>1 DEF InSlot, ManagerInv, Safe, CommandsHitOwnCall, CommandPoints
  <2>4. HangsUp(ch)
    BY <1>0, <2>1, <2>2, <2>3 DEF HangsUp, HangupPoint, Aborted, On
  <2> QED BY <1>0, <2>4 DEF Shaped
<1>3. CASE IncomingRejected(ch)
  <2>1. Passive(ch, None)
    BY <1>0, <1>3, ReturnPassive DEF IncomingRejected
  <2> QED BY <1>0, <2>1 DEF Shaped, PassiveStep
<1> QED BY <1>1, <1>2, <1>3

LEMMA ReplyKeeps ==
    ASSUME ManagerInv, ManagerInv', AdapterInv, Reply
    PROVE  AdapterInv'
<1>0. SendsItsCommand /\ misled' = misled /\ UNCHANGED <<events, lines, lastFailure, baresip, misled>>
  BY DEF Reply
<1>1. ASSUME NEW c \in Calls, Dialed(c) \/ DialFailed(c) \/ DialAborted(c) PROVE Shaped
  BY <1>0, <1>1, RequestReplyShape
<1>2. ASSUME NEW t \in Hangups \cup Channels \cup {"audio"},
             HangupFailed(t) \/ (HangupSent(t) /\ command.reply = "ok")
      PROVE  Shaped
  <2>1. CASE HangupFailed(t)
    BY <1>0, <2>1, FinishedShape, TasksApart DEF HangupFailed, HangupPoint, At
  <2> QED BY <1>0, <1>2, <2>1, HangupSentShape
<1>3. ASSUME NEW ch \in Channels,
             AudioStarted(ch) \/ AudioStartFailed(ch) \/ IncomingRejected(ch)
             \/ EstablishedAborted(ch)
      PROVE  Shaped
  <2>1. CASE EstablishedAborted(ch)
    BY <1>0, <2>1, FinishedShape, TasksApart DEF EstablishedAborted, HangupPoint, At
  <2> QED BY <1>0, <1>3, <2>1, ChannelReplyShape
<1>4. ASSUME NEW state \in {"failed", "no_answer"}, RingHangupDone(state) PROVE Shaped
  BY <1>0, <1>4, FinishedShape, TasksApart DEF RingHangupDone, HangupPoint, At
<1>5. Shaped
  BY <1>1, <1>2, <1>3, <1>4 DEF Reply, Accepted, Refused, EitherWay
<1> QED BY <1>0, <1>5, ShapedKeeps

(***************************************************************************)
(* Steps that take a report                                                *)
(***************************************************************************)

\* What the manager does with a report, told by the place that it had in the queue.
LEMMA TakenReport ==
    ASSUME AdapterInv, NEW ch \in Channels, TakesFrom(ch)
    PROVE  /\ Head(Queue(ch)) \in Reported /\ Head(Queue(ch)) \in Reports /\ At(ch, "idle")
           /\ events' \in Seq(Reports) /\ lines' \in Seq(Reports) /\ Reported' \subseteq Reported
<1>0. /\ events \in Seq(Reports) /\ lines \in Seq(Reports)
      /\ Reported = Items(events) \cup Items(lines)
      /\ Reported' = Items(events') \cup Items(lines')
  BY DEF AdapterInv, SystemTypes, Reported, Items
<1>1. CASE ch = Worker
  <2>1. events # <<>> /\ events' = Tail(events) /\ lines' = lines /\ Queue(ch) = events
    BY <1>1 DEF TakesFrom, Queue
  <2>2. /\ Tail(events) \in Seq(Reports) /\ Head(events) \in Reports
        /\ Items(events) = Items(Tail(events)) \cup {Head(events)}
    BY <1>0, <2>1, TailItems
  <2> QED BY <1>0, <2>1, <2>2 DEF TakesFrom
<1>2. CASE ch # Worker
  <2>1. lines # <<>> /\ lines' = Tail(lines) /\ events' = events /\ Queue(ch) = lines
    BY <1>2 DEF TakesFrom, Queue
  <2>2. /\ Tail(lines) \in Seq(Reports) /\ Head(lines) \in Reports
        /\ Items(lines) = Items(Tail(lines)) \cup {Head(lines)}
    BY <1>0, <2>1, TailItems
  <2> QED BY <1>0, <2>1, <2>2 DEF TakesFrom
<1> QED BY <1>1, <1>2

LEMMA TakeReportShape ==
    ASSUME ManagerInv, AdapterInv, NEW ch \in Channels, TakeReport(ch)
    PROVE  Passive(ch, None)
<1> USE DEF At
<1>0. PICK e : e = Head(Queue(ch))
  OBVIOUS
<1>1. e \in Reported /\ e \in Reports /\ task[ch].at = "idle"
  BY <1>0, TakenReport DEF TakeReport
<1>2. /\ misled \subseteq misled'
      /\ sipCallStarted /\ e.type # "incoming" /\ e.of # call.id => call.id \in misled'
  BY <1>0 DEF TakeReport
<1>3. ch \in Tasks \ {"terminal"} /\ ch \notin Calls /\ ch \notin Timers /\ ch # "ending"
  BY TasksApart
<1>4. CASE CallIncoming(ch) \/ UNCHANGED vars
  <2>1. /\ OnlyMoves(ch, None) /\ UNCHANGED <<call, sipCallStarted>>
        /\ task'[ch].at \in {"inc_lock", "idle"}
    <3>1. CASE CallIncoming(ch)
      BY <1>3, <3>1, GotoMoves DEF CallIncoming, Move
    <3>2. CASE UNCHANGED vars
      BY <1>1, <3>2 DEF vars, OnlyMoves
    <3> QED BY <1>4, <3>1, <3>2
  <2>2. PassiveTask(ch)
    BY <1>3, <2>1, TasksApart DEF PassiveTask, Holding, OnlyMoves
  <2> QED BY <1>1, <1>2, <1>3, <2>1, <2>2, MovesPassive
<1>5. CASE e.type \in {"established", "eof"} /\ Receives(ch)
           /\ \E at \in {"est_lock", "eof_lock"} :
                 Move(ch, at, call.id) /\ (at = "est_lock" => e.type = "established")
  <2>1. PICK at \in {"est_lock", "eof_lock"} :
           Goto(ch, at, call.id, {}) /\ (at = "est_lock" => e.type = "established")
           /\ UNCHANGED <<call, sipCallStarted>>
    BY <1>5 DEF Move
  <2>2. OnlyMoves(ch, None) /\ task'[ch].at = at /\ task'[ch].id = call.id
    BY <1>3, <2>1, GotoMoves
  <2>3. at = "est_lock" => call.id \in misled' \/ (e.type = "established" /\ e.of = call.id)
    BY <1>2, <1>5, <2>1 DEF Receives
  <2>4. PassiveTask(ch)
    BY <1>1, <1>3, <2>2, <2>3, TasksApart DEF PassiveTask, Holding, OnlyMoves
  <2> QED BY <1>1, <1>2, <1>3, <2>1, <2>2, <2>4, MovesPassive
<1>6. CASE e.type \in {"closed", "closed_486"} /\ Receives(ch)
           /\ \E reason \in {"busy", "failed"} :
                 CallClosed(ch, reason)
                 /\ (reason = "busy" => e.type = "closed_486" \/ lastFailure)
  <2> DEFINE c == call.id
  <2>1. PICK state :
           /\ Finish(ch, c, state, {})
           /\ state = "busy" => e.type = "closed_486" \/ lastFailure
    BY <1>6 DEF CallClosed
  <2>2. c \notin misled' => e.of = c /\ sipCallStarted
    BY <1>2, <1>6 DEF Receives
  <2>3. state = "busy" => c \in busy \cup misled'
    BY <1>1, <1>2, <1>6, <2>1, <2>2 DEF AdapterInv, ReasonInv, Receives
  <2>4. c \in Calls /\ c \notin misled' => ~Placed(c) /\ ~Unsent(c)
    <3> SUFFICES ASSUME c \in Calls, c \notin misled' PROVE ~Placed(c) /\ ~Unsent(c)
      OBVIOUS
    <3>1. Met(c)
      BY <1>1, <2>2 DEF Met
    <3>2. sip.of # c
      BY <1>1, <1>6, <2>2 DEF AdapterInv, EndInv
    <3> QED BY <3>1, <3>2 DEF AdapterInv, MetInv, NotYet, Placed
  <2> HIDE DEF c
  <2>5. task[ch].at \notin {"abort", "est_abort"}
    BY <1>1
  <2> QED BY <1>2, <1>3, <2>1, <2>3, <2>4, <2>5, FinishPassive DEF c
<1>7. \/ e.type = "incoming" /\ CallIncoming(ch)
      \/ e.type = "established" /\ CallEstablished(ch)
      \/ e.type = "eof" /\ AudioEof(ch)
      \/ /\ e.type \in {"closed", "closed_486"}
         /\ CallClosed(ch, IF e.type = "closed_486" \/ lastFailure THEN "busy" ELSE "failed")
      \/ UNCHANGED vars
  BY <1>0 DEF TakeReport
<1>8. CASE e.type = "established" /\ CallEstablished(ch)
  BY <1>5, <1>8 DEF CallEstablished
<1>9. CASE e.type = "eof" /\ AudioEof(ch)
  BY <1>5, <1>9 DEF AudioEof
<1>10. CASE /\ e.type \in {"closed", "closed_486"}
            /\ CallClosed(ch, IF e.type = "closed_486" \/ lastFailure THEN "busy" ELSE "failed")
  BY <1>6, <1>10 DEF CallClosed
<1> QED BY <1>4, <1>7, <1>8, <1>9, <1>10

LEMMA TakeReportKeeps ==
    ASSUME ManagerInv, ManagerInv', AdapterInv, NEW ch \in Channels, TakeReport(ch)
    PROVE  AdapterInv'
<1>0. PICK e : e = Head(Queue(ch))
  OBVIOUS
<1>1. /\ Passive(ch, None) /\ ch \in Tasks /\ e \in Reported
      /\ events' \in Seq(Reports) /\ lines' \in Seq(Reports) /\ Reported' \subseteq Reported
  BY <1>0, TakeReportShape, TakenReport, TasksApart DEF TakeReport
<1>2. /\ UNCHANGED <<wire, command, baresip>> /\ misled \subseteq misled'
      /\ sipCallStarted /\ e.type # "incoming" /\ e.of # call.id => call.id \in misled'
      /\ lastFailure' => e.type = "busy" \/ lastFailure
  BY <1>0 DEF TakeReport
<1>3. sipCallStarted' => sipCallStarted /\ call'.id = call.id
  <2>1. sipCallStarted' => \E c \in Calls : call'.id = c /\ InSlot(c)'
    BY NoneAssumption DEF ManagerInv, Safe, SipCallOwned, TypeOK, InSlot
  <2> QED BY <1>1, <2>1 DEF Passive, PassiveSlot, InSlot
<1>4. sipCallStarted' /\ lastFailure' => call'.id \in busy \cup misled'
  BY <1>1, <1>2, <1>3 DEF AdapterInv, ReasonInv
<1> QED BY <1>1, <1>2, <1>4, PassiveKeeps

(***************************************************************************)
(* The invariant holds                                                     *)
(***************************************************************************)

LEMMA SystemInvInit == SystemInit => SystemInv
<1> SUFFICES ASSUME SystemInit PROVE SystemInv
  OBVIOUS
<1> USE DEF SystemInit, At
<1>1. ManagerInv /\ call.id = None /\ call.state = "idle" /\ ~sipCallStarted
  BY ManagerInvInit DEF Init, NoCall
<1>2. /\ \A t \in Tasks : task[t].at \in {"new", "idle"}
      /\ \A c \in Calls : task[c].at = "new" /\ task[c].id = c
  BY TasksApart DEF Init, Idle
<1>3. Sent = {} /\ Reported = {} /\ ~HangupOnItsWay
  BY DEF Sent, Reported, Items, HangupOnItsWay
<1>4. /\ \A c \in Calls : ~Told(c) /\ ~DialSent(c) /\ ~InSlot(c)
      /\ \A c \in Calls : ~Met(c) /\ ~Placed(c)
  <2>1. \A ch \in Channels, c \in Calls : ~On(ch, c, {"est_lock"})
    BY <1>2, TasksApart DEF On
  <2>2. \A c \in Calls : ~Told(c) /\ ~DialSent(c) /\ ~InSlot(c)
    BY <1>1, <1>3, <2>1 DEF Told, DialSent, InSlot
  <2> QED BY <1>3, <2>2, TasksApart DEF Met, Placed, NoSip
<1>5. SystemTypes
  BY DEF SystemTypes, CommandNames, Args, NoSip
<1>6. ReplyInv /\ WireInv
  BY <1>3, TasksApart DEF ReplyInv, WireInv, CommandNames, NoSip
<1>7. HolderInv
  BY <1>2 DEF HolderInv, Commands, Holding, HangupPoint
<1>8. MetInv /\ AudioInv
  BY <1>2, <1>3, <1>4 DEF MetInv, AudioInv, Loud, Silent, Unsent
<1>9. EndInv /\ CareInv
  BY <1>2, <1>3, <1>4 DEF EndInv, CareInv
<1>10. ReasonInv
  BY <1>1, <1>3 DEF ReasonInv, ReasonIsOwn
<1> QED BY <1>1, <1>5, <1>6, <1>7, <1>8, <1>9, <1>10 DEF SystemInv, AdapterInv

LEMMA SystemInvStep == SystemInv /\ [SystemNext]_systemVars => SystemInv'
<1> SUFFICES ASSUME SystemInv, [SystemNext]_systemVars PROVE SystemInv'
  OBVIOUS
<1>1. ManagerInv /\ ManagerInv' /\ AdapterInv
  BY ManagerInvStep, SystemStepSimulates DEF SystemInv
<1>2. CASE ManagerStep
  BY <1>1, <1>2, ManagerStepKeeps DEF SystemInv
<1>3. CASE Reply
  BY <1>1, <1>3, ReplyKeeps DEF SystemInv
<1>4. CASE \E c \in Calls : SendDial(c)
  BY <1>1, <1>4, SendDialKeeps DEF SystemInv
<1>5. CASE \E ch \in Channels : TakeReport(ch)
  BY <1>1, <1>5, TakeReportKeeps DEF SystemInv
<1>6. CASE Execute
  BY <1>1, <1>6, ExecuteKeeps DEF SystemInv
<1>7. CASE Answered \/ Played \/ Closed \/ Busy \/ Incoming
  BY <1>1, <1>7, EventKeeps DEF SystemInv
<1>8. CASE UNCHANGED systemVars
  <2>1. /\ UNCHANGED <<call, sipCallStarted, task, misled, source, sip, busy, wire, command,
                       events, lines, lastFailure>>
        /\ Reported' = Reported /\ Sent' = Sent /\ HangupOnItsWay' = HangupOnItsWay
    BY <1>8 DEF systemVars, vars, adapter, baresip, Reported, Sent, Items, HangupOnItsWay
  <2>2. SystemTypes' /\ ReplyInv' /\ HolderInv' /\ WireInv' /\ News /\ Obeys
    BY <1>1, <2>1 DEF AdapterInv, SystemTypes, ReplyInv, HolderInv, WireInv, At, News, Obeys,
                      Placed, Dealt, DialSent
  <2> QED BY <1>1, <1>8, <2>1, <2>2, BaresipKeeps DEF SystemInv, systemVars, adapter
<1> QED BY <1>2, <1>3, <1>4, <1>5, <1>6, <1>7, <1>8 DEF SystemNext

\* The invariant of the composition: what is on the wire, in the two queues and in
\* baresip fits the manager's slot (adapters.py:200-235, manager.py:122-160).
THEOREM SystemCorrect == SystemSpec => []SystemInv
BY SystemInvInit, SystemInvStep, PTL DEF SystemSpec

(***************************************************************************)
(* What it means for the callee and for the client                         *)
(***************************************************************************)

\* dial() silences the source before it places a call, and only the answer to that
\* call makes the alarm its source (_on_established): an alarm that is heard before
\* the answer belongs to a call to which an event of another one was applied.
THEOREM AlarmUnlessMisled == SystemSpec => []AlarmOnlyAfterAnswerUnlessMisled
<1>1. SystemInv => AlarmOnlyAfterAnswerUnlessMisled
  BY DEF SystemInv, AdapterInv, AudioInv, Loud, Silent, Attended,
         AlarmOnlyAfterAnswerUnlessMisled, Plays
<1> QED BY <1>1, SystemCorrect, PTL

\* start_call hangs up whatever a failed dial may have left, and _on_established
\* what a failed audio command has: the outbound call of baresip has its slot and
\* its WAV, or a hang-up on its way, unless baresip refused one or an event of
\* another call ended it.
THEOREM NoSipCallIsForgotten == SystemSpec => []SipCallManaged
<1>1. SystemInv => SipCallManaged
  <2> SUFFICES ASSUME SystemInv, NEW c \in Calls \ misled, sip.of = c
               PROVE  HangupOnItsWay \/ sip.kept \/ (InSlot(c) /\ c \in wavs)
    BY DEF SipCallManaged
  <2>1. HangupOnItsWay \/ sip.kept \/ InSlot(c)
    BY DEF SystemInv, AdapterInv, CareInv, Placed, Dealt
  <2>2. InSlot(c) => c \in wavs
    BY TasksApart DEF SystemInv, ManagerInv, Safe, SipCallOwned, WavsOwned, InSlot
  <2> QED BY <2>1, <2>2
<1> QED BY <1>1, SystemCorrect, PTL

\* A hang-up that baresip executes, at once or long after its sender has given it
\* up, is meant for the call that it ends (hangup, _reject_incoming_call).
THEOREM HangupsHit == SystemSpec => HangupsHitTheirCall
<1>1. SystemInv /\ wire # <<>> /\ Head(wire).name = "hangup" => HangupOnItsWay
  <2> SUFFICES ASSUME SystemInv, wire # <<>>, Head(wire).name = "hangup" PROVE HangupOnItsWay
    OBVIOUS
  <2>1. wire \in Seq(CommandRecords)
    BY DEF SystemInv, AdapterInv, SystemTypes
  <2>2. 1 \in DOMAIN wire /\ Head(wire) = wire[1]
    BY <2>1
  <2> QED BY <2>2 DEF HangupOnItsWay
<1>2. SystemInv => \A c \in Calls :
                     wire # <<>> /\ Head(wire).name = "hangup" /\ sip.of = c /\ InSlot(c)
                     => call.state = "ending" \/ Aborted(c)
  BY <1>1 DEF SystemInv, AdapterInv, CareInv, Placed
<1>3. SystemInv => [\A c \in Calls :
                      /\ wire # <<>> /\ wire' = Tail(wire) /\ Head(wire).name = "hangup"
                      /\ sip.of = c /\ InSlot(c)
                      => call.state = "ending" \/ Aborted(c)]_systemVars
  BY <1>2
<1> QED BY <1>3, SystemCorrect, PTL DEF HangupsHitTheirCall

\* A reason read from a line of output outlives neither the next dial nor the next
\* CALL_CLOSED (_last_failure_reason): a call that is shown as busy was busy, or an
\* event of another call was applied to it.
THEOREM BusyIsOwn == SystemSpec => []ReasonIsOwn
<1>1. SystemInv => ReasonIsOwn
  BY DEF SystemInv, AdapterInv, ReasonInv
<1> QED BY <1>1, SystemCorrect, PTL

=============================================================================
