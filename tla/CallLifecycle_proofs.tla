------------------------- MODULE CallLifecycle_proofs -------------------------
(* CallManager implements CallLifecycle, for any calls, requests, channels *)
(* and bounds.                                                             *)
EXTENDS CallTimers_proofs

USE DEF media, counts

(***************************************************************************)
(* What the simulation needs of the slot                                   *)
(***************************************************************************)

NamedPoints == {"hangup", "ring_hangup", "est_audio", "est_abort"}
RingEnds == At("ring", "ring_hangup")

\* The idle slot has no id; a task that has sent a command knows its call; and
\* the ring timeout that is hanging up can be cancelled by _finish.
SlotInv ==
    /\ call.id = None <=> call.state = "idle"
    /\ \A t \in Tasks : task[t].at \in NamedPoints => task[t].id \in Calls
    /\ RingEnds => "ring" \in timers /\ task["ring"].id = call.id /\ call.state = "ending"

LEMMA RingIsTask == "ring" \in Tasks /\ "ring" \in Timers /\ None \notin Calls
BY NoneAssumption DEF Tasks, Timers

LEMMA NobodyRings ==
    ASSUME LockOwned, operationLock = None
    PROVE  ~RingEnds
BY RingIsTask, NoneAssumption DEF LockOwned, RingEnds, At, Holding

\* A current call is not idle, so its id is that of a call.
LEMMA CurrentIsCall ==
    ASSUME TypeOK, SlotInv, NEW c, NEW states, IsCurrent(c, states), "idle" \notin states
    PROVE  c \in Calls /\ call.id # None /\ call.state # "idle"
BY DEF TypeOK, SlotInv, IsCurrent

LEMMA GotoSlot ==
    ASSUME TypeOK, SlotInv, NEW t \in Tasks, NEW at, NEW c, NEW S, Goto(t, at, c, S),
           call'.id = None <=> call'.state = "idle",
           at \in NamedPoints => c \in Calls,
           RingEnds /\ t # "ring" /\ "ring" \notin S => "ring" \in timers' /\ UNCHANGED call,
           t = "ring" /\ at = "ring_hangup" =>
                "ring" \in timers' /\ c = call'.id /\ call'.state = "ending"
    PROVE  SlotInv'
<1>1. ASSUME NEW p \in Tasks, task'[p].at \in NamedPoints PROVE task'[p].id \in Calls
  BY <1>1 DEF Goto, Idle, NamedPoints, SlotInv
<1>2. RingEnds' => "ring" \in timers' /\ task'["ring"].id = call'.id /\ call'.state = "ending"
  <2>1. CASE t = "ring"
    BY <2>1, RingIsTask DEF Goto, RingEnds, At
  <2>2. CASE t # "ring" /\ "ring" \notin S
    BY <2>2, RingIsTask DEF Goto, RingEnds, At, SlotInv
  <2>3. CASE t # "ring" /\ "ring" \in S
    BY <2>3, RingIsTask DEF Goto, RingEnds, At, Idle
  <2> QED BY <2>1, <2>2, <2>3
<1> QED BY <1>1, <1>2 DEF SlotInv

LEMMA MoveSlot ==
    ASSUME TypeOK, SlotInv, NEW t \in Tasks, NEW at, NEW c, NEW S, Goto(t, at, c, S),
           UNCHANGED <<call, timers>>, at \in NamedPoints => c \in Calls,
           t = "ring" => at # "ring_hangup"
    PROVE  SlotInv'
BY GotoSlot DEF SlotInv

LEMMA ReturnSlot ==
    ASSUME TypeOK, SlotInv, NEW t \in Tasks, Return(t), UNCHANGED <<call, timers>>
    PROVE  SlotInv'
BY MoveSlot DEF Return, NamedPoints

LEMMA StartingSlot ==
    ASSUME TypeOK, SlotInv, NEW timer \in Timers, NEW t \in Tasks, NEW c,
           NEW needed \in BOOLEAN, ReturnStarting(timer, t, c, needed), UNCHANGED call
    PROVE  SlotInv'
<1>1. ASSUME NEW p \in Tasks, task'[p].at \in NamedPoints PROVE task'[p].id \in Calls
  BY <1>1 DEF ReturnStarting, Idle, NamedPoints, SlotInv
<1>2. RingEnds' => RingEnds /\ task'["ring"] = task["ring"] /\ timers \subseteq timers'
  BY RingIsTask DEF ReturnStarting, Idle, RingEnds, At
<1> QED BY <1>1, <1>2 DEF SlotInv

LEMMA FinishSlot ==
    ASSUME TypeOK, SlotInv, NEW t \in Tasks, NEW c, NEW state \in Terminal, NEW owned,
           Finish(t, c, state, owned), call.id = c => c \in Calls
    PROVE  SlotInv'
<1>1. CASE call.id # c
  BY <1>1, ReturnSlot DEF Finish
<1>2. CASE call.id = c
  <2>1. call'.id # None /\ call'.state # "idle"
    BY <1>2, RingIsTask DEF Finish, TypeOK, Terminal
  <2>2. ASSUME NEW p \in Tasks, task'[p].at \in NamedPoints PROVE task'[p].id \in Calls
    BY <1>2, <2>2 DEF Finish, Idle, NamedPoints, SlotInv
  <2>3. RingEnds => t = "ring" \/ "ring" \in CancelledBy(t, MediaTimers \cup {"ending"})
    BY DEF SlotInv, CancelledBy, MediaTimers
  <2>4. ~RingEnds'
    BY <1>2, <2>3, RingIsTask DEF Finish, RingEnds, At, Idle
  <2> QED BY <2>1, <2>2, <2>4 DEF SlotInv
<1> QED BY <1>1, <1>2

(***************************************************************************)
(* The simulation of each kind of step                                     *)
(***************************************************************************)

\* The ids that have been given out, and the step relation that a client sees.
Used == {c \in Calls : ~At(c, "new")}
Maps == [Lifecycle!Next]_<<call, Used>>

LEMMA GotoUsed ==
    ASSUME NEW t \in Tasks, NEW at, NEW c, NEW S, Goto(t, at, c, S), S \cap Calls = {},
           t \in Calls => ~At(t, "new") /\ at # "new"
    PROVE  Used' = Used
<1>1. \A p \in Calls : At(p, "new")' <=> At(p, "new")
  BY DEF Goto, At, Tasks
<1> QED BY <1>1 DEF Used

LEMMA ReturnUsed ==
    ASSUME NEW t \in Tasks, Return(t), t \in Calls => ~At(t, "new")
    PROVE  Used' = Used
BY GotoUsed DEF Return

LEMMA StartingUsed ==
    ASSUME NEW timer \in Timers, NEW t \in Tasks, NEW c, NEW needed,
           ReturnStarting(timer, t, c, needed), t \in Calls => ~At(t, "new")
    PROVE  Used' = Used
<1>1. \A p \in Calls : At(p, "new")' <=> At(p, "new")
  BY NoTimers DEF ReturnStarting, At, Idle, Tasks
<1> QED BY <1>1 DEF Used

LEMMA QuietMaps ==
    ASSUME Used' = Used, UNCHANGED call
    PROVE  Maps
BY DEF Maps

\* The states that a step may publish.
Publishes(state) ==
    \/ state \in Calling \cup {"connected"} /\ call.state \in Calling
    \/ state = "ending" /\ call.state \in Calling \cup {"connected"}
    \/ state \in {"ended", "failed"} /\ call.state \in Active \cup Terminal
    \/ state = "busy" /\ call.state \in Calling
    \/ state = "no_answer" /\ call.state \in Calling \cup {"ending"}

LEMMA PublishMaps ==
    ASSUME Used' = Used, NEW state, call' = [call EXCEPT !.state = state], Publishes(state)
    PROVE  Maps
<1>1. Lifecycle!Become(state)
  BY DEF Lifecycle!Become, Used
<1>2. Lifecycle!Next
  BY <1>1 DEF Publishes, Calling, Active, Terminal, Lifecycle!Next, Lifecycle!Progress,
     Lifecycle!Answer, Lifecycle!BeginEnding, Lifecycle!Conclude, Lifecycle!FailLate,
     Lifecycle!Settle, Lifecycle!Calling, Lifecycle!Active, Lifecycle!Terminal
<1> QED BY <1>2 DEF Maps

LEMMA FinishMaps ==
    ASSUME TypeOK, NEW t \in Tasks, t \in Calls => ~At(t, "new"), NEW c, NEW state,
           NEW owned, Finish(t, c, state, owned), call.id = c => Publishes(state)
    PROVE  Maps
<1>1. CASE call.id # c
  BY <1>1, ReturnUsed, QuietMaps DEF Finish
<1>2. CASE call.id = c
  <2>1. \A p \in Calls : At(p, "new")' <=> At(p, "new")
    BY <1>2, NoTimers, CancelledNoCalls DEF Finish, At, Idle, Tasks, Timers
  <2>2. Used' = Used
    BY <2>1 DEF Used
  <2> QED BY <1>2, <2>2, PublishMaps DEF Finish
<1> QED BY <1>1, <1>2

\* A call that is not idle can fail or end at any time.
LEMMA EndMaps ==
    ASSUME TypeOK, SlotInv, NEW t \in Tasks, t \in Calls => ~At(t, "new"), NEW c,
           NEW state \in {"ended", "failed"}, NEW owned, Finish(t, c, state, owned),
           call.id = c => c \in Calls
    PROVE  Maps
<1>1. call.id = c => call.state \in Active \cup Terminal
  BY RingIsTask DEF SlotInv, TypeOK
<1> QED BY <1>1, FinishMaps DEF Publishes

(***************************************************************************)
(* The steps                                                               *)
(***************************************************************************)

SimInv == TypeOK /\ LockOwned /\ SipCallOwned /\ TimersInv /\ SlotInv

\* A step that moves a task and leaves the slot and the timers alone.
LEMMA MoveSimulates ==
    ASSUME SimInv, NEW t \in Tasks, NEW at, NEW c, NEW S, Goto(t, at, c, S), S \cap Calls = {},
           UNCHANGED <<call, timers>>, at \in NamedPoints => c \in Calls,
           t = "ring" => at # "ring_hangup", t \in Calls => ~At(t, "new") /\ at # "new"
    PROVE  SlotInv' /\ Maps
BY MoveSlot, GotoUsed, QuietMaps DEF SimInv

LEMMA ReturnSimulates ==
    ASSUME SimInv, NEW t \in Tasks, Return(t), UNCHANGED <<call, timers>>,
           t \in Calls => ~At(t, "new")
    PROVE  SlotInv' /\ Maps
BY ReturnSlot, ReturnUsed, QuietMaps DEF SimInv

LEMMA EndSimulates ==
    ASSUME SimInv, NEW t \in Tasks, t \in Calls => ~At(t, "new"), NEW c,
           NEW state \in {"ended", "failed"}, NEW owned, Finish(t, c, state, owned),
           call.id = c => c \in Calls
    PROVE  SlotInv' /\ Maps
BY FinishSlot, EndMaps DEF SimInv, Terminal

LEMMA StartSimulates ==
    ASSUME SimInv, NEW c \in Calls, StartStep(c)
    PROVE  SlotInv' /\ Maps
<1>0. c \in Tasks /\ c # "ring" /\ c # None
  BY RingIsTask, NoTimers DEF Tasks
<1>1. CASE StartCall(c)
  <2>1. Goto(c, "prepare", c, CancelledBy(c, {"terminal"})) /\ call' = [id |-> c, state |-> "dialing"]
    BY <1>1 DEF StartCall
  <2>2. ~RingEnds
    BY <1>1 DEF StartCall, SimInv, SlotInv, Active
  <2>3. SlotInv'
    BY <1>0, <2>1, <2>2, GotoSlot DEF SimInv, NamedPoints
  <2>4. c \notin Used /\ Used' = Used \cup {c}
    <3>1. \A p \in Calls : At(p, "new")' <=> At(p, "new") /\ p # c
      BY <1>0, <2>1, CancelledNoCalls DEF Goto, At, Tasks, SimInv
    <3> QED BY <1>1, <3>1 DEF Used, StartCall
  <2>5. Lifecycle!Place(c)
    BY <1>1, <2>1, <2>4
       DEF StartCall, Used, Active, Calling, Lifecycle!Place, Lifecycle!Active, Lifecycle!Calling
  <2> QED BY <2>3, <2>5 DEF Maps, Used, Lifecycle!Next
<1>2. CASE AudioPrepared(c)
  BY <1>0, <1>2, MoveSimulates DEF AudioPrepared, At, NamedPoints
<1>3. CASE AudioFailed(c)
  BY <1>0, <1>3, EndSimulates DEF AudioFailed, At
<1>4. CASE DialCancelled(c)
  BY <1>0, <1>4, ReturnSimulates DEF DialCancelled, At
<1>5. CASE Dial(c)
  <2>1. CASE RateAllows
    BY <1>0, <1>5, <2>1, MoveSimulates DEF Dial, At, NamedPoints
  <2>2. CASE ~RateAllows
    BY <1>0, <1>5, <2>2, EndSimulates DEF Dial, At
  <2> QED BY <2>1, <2>2
<1>6. CASE Dialed(c)
  <2>1. ReturnStarting("ring", c, c, IsCurrent(c, Calling)) /\ ~At(c, "new") /\ UNCHANGED call
    BY <1>6 DEF Dialed, At
  <2> QED BY <1>0, <2>1, RingIsTask, StartingSlot, StartingUsed, QuietMaps DEF SimInv, IsCurrent
<1>7. CASE DialFailed(c)
  BY <1>0, <1>7, MoveSimulates DEF DialFailed, Move, At, NamedPoints
<1>8. CASE DialAborted(c)
  BY <1>0, <1>8, EndSimulates DEF DialAborted, At
<1> QED BY <1>1, <1>2, <1>3, <1>4, <1>5, <1>6, <1>7, <1>8 DEF StartStep

LEMMA BeginHangupSimulates ==
    ASSUME SimInv, NEW t \in Tasks \ (Calls \cup {"ring"}), NEW c, BeginHangup(t, c),
           operationLock = None, IsCurrent(c, Active \ {"ending"})
    PROVE  SlotInv' /\ Maps
<1>1. c \in Calls /\ call.id # None
  BY CurrentIsCall DEF SimInv, Active, Calling
<1>2. call'.id = call.id /\ call'.state = "ending"
  BY DEF BeginHangup, SimInv, TypeOK
<1>3. ~RingEnds
  BY NobodyRings DEF SimInv
<1>4. SlotInv'
  BY <1>1, <1>2, <1>3, GotoSlot DEF BeginHangup, SimInv
<1>5. Used' = Used
  BY GotoUsed, CancelledNoCalls DEF BeginHangup, SimInv
<1>6. Publishes("ending")
  BY DEF IsCurrent, Publishes, Active
<1> QED BY <1>4, <1>5, <1>6, PublishMaps DEF BeginHangup

LEMMA HangupSimulates ==
    ASSUME SimInv, HangupStep
    PROVE  SlotInv' /\ Maps
<1>0. /\ \A t \in Hangups \cup Channels \cup {"audio"} : t \in Tasks \ (Calls \cup {"ring"})
      /\ "ending" \in Timers
  BY TasksAssumption DEF Tasks, Timers
<1>1. ASSUME NEW h \in Hangups, Hangup(h)
      PROVE  SlotInv' /\ Maps
  <2> DEFINE c == task[h].id
  <2>1. CASE ~IsCurrent(c, Active \ {"ending"})
    BY <1>0, <1>1, <2>1, ReturnSimulates DEF Hangup
  <2>2. CASE IsCurrent(c, Active \ {"ending"}) /\ ~sipCallStarted
    <3>1. c \in Calls
      BY <2>2, CurrentIsCall DEF SimInv, Active, Calling
    <3> QED BY <1>0, <1>1, <2>2, <3>1, EndSimulates DEF Hangup
  <2>3. CASE IsCurrent(c, Active \ {"ending"}) /\ sipCallStarted
    BY <1>0, <1>1, <2>3, BeginHangupSimulates DEF Hangup
  <2> QED BY <2>1, <2>2, <2>3
<1>2. ASSUME NEW h \in Hangups, NEW c \in Calls, HangupRequest(h, c)
      PROVE  SlotInv' /\ Maps
  BY <1>0, <1>2, MoveSimulates DEF HangupRequest, Move, NamedPoints
<1>3. ASSUME NEW t \in Channels \cup {"audio"}, HangupAfterAudio(t)
      PROVE  SlotInv' /\ Maps
  <2>1. CASE ~IsCurrent(task[t].id, {"connected"})
    BY <1>0, <1>3, <2>1, ReturnSimulates DEF HangupAfterAudio
  <2>2. CASE IsCurrent(task[t].id, {"connected"})
    <3>1. IsCurrent(task[t].id, Active \ {"ending"})
      BY <2>2 DEF IsCurrent, Active
    <3> QED BY <1>0, <1>3, <2>2, <3>1, BeginHangupSimulates DEF HangupAfterAudio
  <2> QED BY <2>1, <2>2
<1>4. ASSUME NEW t \in Hangups \cup Channels \cup {"audio"}, HangupSent(t)
      PROVE  SlotInv' /\ Maps
  <2> DEFINE c == task[t].id
  <2>1. ReturnStarting("ending", t, c, IsCurrent(c, {"ending"})) /\ UNCHANGED call
    BY <1>4 DEF HangupSent
  <2> QED BY <1>0, <2>1, StartingSlot, StartingUsed, QuietMaps DEF SimInv, IsCurrent
<1>5. ASSUME NEW t \in Hangups \cup Channels \cup {"audio"}, HangupFailed(t)
      PROVE  SlotInv' /\ Maps
  <2>1. task[t].id \in Calls
    BY <1>0, <1>5 DEF HangupFailed, At, SimInv, SlotInv, NamedPoints
  <2> QED BY <1>0, <1>5, <2>1, EndSimulates DEF HangupFailed
<1> QED BY <1>1, <1>2, <1>3, <1>4, <1>5 DEF HangupStep

LEMMA EventSimulates ==
    ASSUME SimInv, NEW ch \in Channels, EventStep(ch)
    PROVE  SlotInv' /\ Maps
<1>0. ch \in Tasks /\ ch \notin Calls /\ ch # "ring" /\ ch \notin Timers /\ "audio" \in Timers
  BY TasksAssumption DEF Tasks, Timers
<1>1. ASSUME NEW state \in Calling, CallProgress(ch, state)
      PROVE  SlotInv' /\ Maps
  <2>1. call' = [call EXCEPT !.state = state] /\ call.state \in Calling /\ UNCHANGED <<task, timers>>
    BY <1>1 DEF CallProgress
  <2>2. call'.id = call.id /\ call'.state = state
    BY <2>1 DEF SimInv, TypeOK
  <2>3. SlotInv'
    BY <2>1, <2>2 DEF SimInv, SlotInv, RingEnds, At, Calling
  <2>4. Used' = Used
    BY <2>1 DEF Used, At
  <2> QED BY <2>1, <2>3, <2>4, PublishMaps DEF Publishes
<1>2. CASE CallEstablished(ch)
  BY <1>0, <1>2, MoveSimulates DEF CallEstablished, Move, NamedPoints
<1>3. CASE AudioEof(ch)
  BY <1>0, <1>3, MoveSimulates DEF AudioEof, Move, NamedPoints
<1>4. CASE CallIncoming(ch)
  BY <1>0, <1>4, MoveSimulates DEF CallIncoming, Move, NamedPoints
<1>5. ASSUME NEW reason \in {"busy", "no_answer", "failed"}, CallClosed(ch, reason)
      PROVE  SlotInv' /\ Maps
  <2> DEFINE state == IF call.state \in {"ending", "connected"} THEN "ended" ELSE reason
  <2>1. Finish(ch, call.id, state, {}) /\ state \in Terminal
    BY <1>5 DEF CallClosed, Terminal
  <2>2. call.id \in Calls /\ call.state \in Active
    BY <1>5 DEF CallClosed, Receives, SimInv, TypeOK, SipCallOwned
  <2>3. Publishes(state)
    BY <2>2 DEF Publishes, Active
  <2> HIDE DEF state
  <2> QED BY <1>0, <2>1, <2>2, <2>3, FinishSlot, FinishMaps DEF SimInv
<1>6. CASE OnEstablished(ch)
  <2> DEFINE c == task[ch].id
  <2>1. CASE ~IsCurrent(c, Calling)
    BY <1>0, <1>6, <2>1, ReturnSimulates DEF OnEstablished
  <2>2. CASE IsCurrent(c, Calling) /\ prepared = None
    <3>1. c \in Calls
      BY <2>2, CurrentIsCall DEF SimInv, Calling
    <3> QED BY <1>0, <1>6, <2>2, <3>1, MoveSimulates DEF OnEstablished
  <2>3. CASE IsCurrent(c, Calling) /\ prepared # None
    <3>1. c \in Calls /\ call.id # None /\ ~RingEnds
      BY <1>6, <2>3, CurrentIsCall, NobodyRings DEF SimInv, Calling, OnEstablished
    <3>2. /\ call' = [call EXCEPT !.state = "connected"]
          /\ Goto(ch, "est_audio", c, CancelledBy(ch, {"ring"}))
      BY <1>6, <2>3 DEF OnEstablished
    <3>3. call'.id = call.id /\ call'.state = "connected"
      BY <3>2 DEF SimInv, TypeOK
    <3>4. SlotInv'
      BY <1>0, <3>1, <3>2, <3>3, GotoSlot DEF SimInv
    <3>5. Used' = Used
      BY <1>0, <3>2, GotoUsed, CancelledNoCalls DEF SimInv
    <3> QED BY <2>3, <3>2, <3>4, <3>5, PublishMaps DEF Publishes, IsCurrent
  <2> QED BY <2>1, <2>2, <2>3
<1>7. CASE AudioStarted(ch)
  <2> DEFINE c == task[ch].id
  <2>1. ReturnStarting("audio", ch, c, IsCurrent(c, {"connected"})) /\ UNCHANGED call
    BY <1>7 DEF AudioStarted
  <2> QED BY <1>0, <2>1, StartingSlot, StartingUsed, QuietMaps DEF SimInv, IsCurrent
<1>8. CASE AudioStartFailed(ch)
  <2>1. task[ch].id \in Calls
    BY <1>0, <1>8 DEF AudioStartFailed, At, SimInv, SlotInv, NamedPoints
  <2> QED BY <1>0, <1>8, <2>1, MoveSimulates DEF AudioStartFailed, Move
<1>9. CASE EstablishedAborted(ch)
  <2>1. task[ch].id \in Calls
    BY <1>0, <1>9 DEF EstablishedAborted, At, SimInv, SlotInv, NamedPoints
  <2> QED BY <1>0, <1>9, <2>1, EndSimulates DEF EstablishedAborted
<1>10. CASE RejectIncoming(ch)
  <2>1. Return(ch) \/ Goto(ch, "inc_hangup", None, {})
    BY <1>10 DEF RejectIncoming
  <2>2. UNCHANGED <<call, timers>>
    BY <1>10 DEF RejectIncoming
  <2> QED BY <1>0, <2>1, <2>2, ReturnSimulates, MoveSimulates DEF NamedPoints
<1>11. CASE IncomingRejected(ch)
  BY <1>0, <1>11, ReturnSimulates DEF IncomingRejected
<1> QED BY <1>1, <1>2, <1>3, <1>4, <1>5, <1>6, <1>7, <1>8, <1>9, <1>10, <1>11 DEF EventStep

LEMMA TimerSimulates ==
    ASSUME SimInv, TimerStep
    PROVE  SlotInv' /\ Maps
<1>0. /\ \A t \in Timers : t \in Tasks /\ t \notin Calls
      /\ Timers = {"ring", "audio", "ending", "terminal"}
  BY NoTimers DEF Timers
<1>1. CASE RingElapsed
  BY <1>0, <1>1, MoveSimulates DEF RingElapsed, Move, NamedPoints
<1>2. CASE RingTimeout
  <2> DEFINE c == task["ring"].id
  <2>1. CASE ~IsCurrent(c, Calling)
    BY <1>0, <1>2, <2>1, ReturnSimulates DEF RingTimeout
  <2>2. CASE IsCurrent(c, Calling)
    <3>1. c \in Calls /\ call.id # None
      BY <2>2, CurrentIsCall DEF SimInv, Calling
    <3>2. "ring" \in timers
      BY <1>0, <1>2 DEF RingTimeout, SimInv, TimersInv, Live, LivePoints, At
    <3>3. /\ call' = [call EXCEPT !.state = "ending"]
          /\ Goto("ring", "ring_hangup", c, {}) /\ UNCHANGED timers
      BY <1>2, <2>2 DEF RingTimeout
    <3>4. call'.id = c /\ call'.id = call.id /\ call'.state = "ending"
      BY <2>2, <3>3 DEF SimInv, TypeOK, IsCurrent
    <3>5. SlotInv'
      BY <1>0, <3>1, <3>2, <3>3, <3>4, GotoSlot DEF SimInv
    <3>6. Used' = Used
      BY <1>0, <3>3, GotoUsed
    <3> QED BY <2>2, <3>3, <3>5, <3>6, PublishMaps DEF Publishes, IsCurrent
  <2> QED BY <2>1, <2>2
<1>3. ASSUME NEW state \in {"no_answer", "failed"}, RingHangupDone(state)
      PROVE  SlotInv' /\ Maps
  <2>1. task["ring"].id = call.id /\ call.state = "ending" /\ task["ring"].id \in Calls
    BY <1>0, <1>3 DEF RingHangupDone, SimInv, SlotInv, RingEnds, At, NamedPoints
  <2>2. Publishes(state) /\ state \in Terminal
    BY <2>1 DEF Publishes, Active, Terminal
  <2> QED BY <1>0, <1>3, <2>1, <2>2, FinishSlot, FinishMaps DEF RingHangupDone, SimInv
<1>4. CASE AudioDeadline
  BY <1>0, <1>4, MoveSimulates DEF AudioDeadline, Move, NamedPoints
<1>5. CASE EndingFallback
  <2>1. task["ending"].id = call.id /\ call.state = "ending"
    BY <1>0, <1>5 DEF EndingFallback, SimInv, TimersInv, Live, LivePoints, At, Needing
  <2>2. call.id \in Calls
    BY <2>1 DEF SimInv, SlotInv, TypeOK
  <2> QED BY <1>0, <1>5, <2>1, <2>2, EndSimulates DEF EndingFallback
<1>6. CASE TerminalShown
  <2> DEFINE c == task["terminal"].id
  <2>1. CASE ~IsCurrent(c, Terminal)
    BY <1>0, <1>6, <2>1, MoveSimulates DEF TerminalShown, NamedPoints
  <2>2. CASE IsCurrent(c, Terminal)
    <3>1. call.id # None /\ ~RingEnds
      BY <2>2, CurrentIsCall DEF SimInv, Terminal, SlotInv, IsCurrent
    <3>2. /\ call' = [call EXCEPT !.state = "ended"]
          /\ Goto("terminal", "reset", c, {}) /\ UNCHANGED timers
      BY <1>6, <2>2 DEF TerminalShown
    <3>3. call'.id = call.id /\ call'.state = "ended"
      BY <3>2 DEF SimInv, TypeOK
    <3>4. SlotInv'
      BY <1>0, <3>1, <3>2, <3>3, GotoSlot DEF SimInv, NamedPoints
    <3>5. Used' = Used
      BY <1>0, <3>2, GotoUsed
    <3> QED BY <2>2, <3>2, <3>4, <3>5, PublishMaps DEF Publishes, IsCurrent
  <2> QED BY <2>1, <2>2
<1>7. CASE TerminalReset
  <2> DEFINE c == task["terminal"].id
  <2>1. CASE ~IsCurrent(c, {"ended"})
    BY <1>0, <1>7, <2>1, MoveSimulates DEF TerminalReset, NamedPoints
  <2>2. CASE IsCurrent(c, {"ended"})
    <3>1. ~RingEnds /\ call' = NoCall /\ call.state = "ended"
      BY <1>7, <2>2 DEF SimInv, SlotInv, IsCurrent, TerminalReset
    <3>2. Goto("terminal", "idle", None, {}) /\ UNCHANGED timers
      BY <1>7 DEF TerminalReset
    <3>3. SlotInv'
      BY <1>0, <3>1, <3>2, GotoSlot DEF SimInv, NamedPoints, NoCall
    <3>4. Used' = Used
      BY <1>0, <3>2, GotoUsed
    <3>5. Lifecycle!Reset
      BY <3>1, <3>4 DEF Lifecycle!Reset, Lifecycle!NoCall, NoCall, Used
    <3> QED BY <3>3, <3>5 DEF Maps, Lifecycle!Next
  <2> QED BY <2>1, <2>2
<1> QED BY <1>1, <1>2, <1>3, <1>4, <1>5, <1>6, <1>7 DEF TimerStep

LEMMA ServiceSimulates ==
    ASSUME SimInv, ServiceStep
    PROVE  SlotInv' /\ Maps
<1>0. /\ "shutdown" \in Tasks /\ "shutdown" \notin Calls /\ "ring" \notin Channels
      /\ Channels \cap Calls = {}
  BY TasksAssumption DEF Tasks, Timers
<1>1. CASE ShutdownRequest
  BY <1>0, <1>1, MoveSimulates DEF ShutdownRequest, Move, NamedPoints
<1>2. CASE Shutdown
  BY <1>0, <1>2, MoveSimulates, CancelledNoCalls DEF Shutdown, NamedPoints, SimInv
<1>3. CASE ShutdownDone
  BY <1>0, <1>3, MoveSimulates DEF ShutdownDone, NamedPoints
<1>4. CASE AdapterRestart
  <2>1. /\ UNCHANGED <<call, timers>>
        /\ task' = [p \in Tasks |-> IF p \in Channels THEN Idle ELSE task[p]]
    BY <1>4 DEF AdapterRestart
  <2>2. \A p \in Calls : At(p, "new")' <=> At(p, "new")
    BY <1>0, <2>1 DEF At, Tasks
  <2>3. Used' = Used
    BY <2>2 DEF Used
  <2>4. \A p \in Tasks : task'[p].at \in NamedPoints => task'[p].id \in Calls
    BY <2>1 DEF Idle, NamedPoints, SimInv, SlotInv
  <2>5. task'["ring"] = task["ring"]
    BY <1>0, <2>1, RingIsTask
  <2>6. SlotInv'
    BY <2>1, <2>4, <2>5 DEF SimInv, SlotInv, RingEnds, At
  <2> QED BY <2>1, <2>3, <2>6, QuietMaps
<1>5. CASE ExpireAttempt
  <2>1. UNCHANGED <<call, timers, task>>
    BY <1>5 DEF ExpireAttempt
  <2> QED BY <2>1, QuietMaps DEF SimInv, SlotInv, RingEnds, At, Used
<1>6. CASE StopCancels
  <2>1. /\ UNCHANGED <<call, timers>>
        /\ task' = [p \in Tasks |->
                      IF p = "shutdown" THEN [at |-> "gather", id |-> None]
                      ELSE IF p \in Channels THEN [at |-> "cancelled", id |-> None]
                      ELSE task[p]]
    BY <1>6 DEF StopCancels
  <2>2. \A p \in Calls : At(p, "new")' <=> At(p, "new")
    BY <1>0, <2>1 DEF At, Tasks
  <2>3. Used' = Used
    BY <2>2 DEF Used
  <2>4. \A p \in Tasks : task'[p].at \in NamedPoints => task'[p].id \in Calls
    BY <2>1 DEF NamedPoints, SimInv, SlotInv
  <2>5. task'["ring"] = task["ring"]
    BY <1>0, <2>1, RingIsTask
  <2>6. SlotInv'
    BY <2>1, <2>4, <2>5 DEF SimInv, SlotInv, RingEnds, At
  <2> QED BY <2>1, <2>3, <2>6, QuietMaps
<1>7. ASSUME NEW ch \in Channels, CancelEnds(ch) PROVE SlotInv' /\ Maps
  BY <1>0, <1>7, MoveSimulates DEF CancelEnds, Move, NamedPoints, Tasks
<1> QED BY <1>1, <1>2, <1>3, <1>4, <1>5, <1>6, <1>7 DEF ServiceStep

LEMMA SlotInit == Init => SlotInv
BY NoTimers, RingIsTask DEF Init, SlotInv, RingEnds, NamedPoints, At, Idle, NoCall

LEMMA Simulates == SimInv /\ [Next]_vars => SlotInv' /\ Maps
<1>1. ASSUME SimInv, UNCHANGED vars PROVE SlotInv' /\ Maps
  BY <1>1, QuietMaps DEF vars, SimInv, SlotInv, RingEnds, At, Used
<1> QED BY <1>1, StartSimulates, EventSimulates, TimerSimulates, HangupSimulates,
           ServiceSimulates DEF Next

\* No event, timer, failure, cancellation or restart of the adapter shows a client
\* a change of the call that the published life cycle does not allow.
THEOREM LifecycleImplemented == Spec => ImplementsLifecycle
<1> DEFINE Inv == TypeOK /\ LockOwned /\ Safe /\ TimersInv /\ SlotInv
<1>1. Init => Inv
  BY TypeInit, LockInit, SafeInit, TimersInit, SlotInit
<1>2. Inv => SimInv
  BY DEF SimInv, Safe
<1>3. Inv /\ [Next]_vars => Inv'
  BY <1>2, TypeStep, LockStep, SafeStep, TimersStep, Simulates
<1>4. Inv /\ [Next]_vars => [Lifecycle!Next]_<<call, Used>>
  BY <1>2, Simulates DEF Maps
<1>5. Init => Lifecycle!Init
  BY NoTimers DEF Init, Lifecycle!Init, Lifecycle!NoCall, NoCall, At, Tasks
<1> QED BY <1>1, <1>3, <1>4, <1>5, PTL DEF Spec, ImplementsLifecycle, Lifecycle!Spec, Used
=============================================================================
