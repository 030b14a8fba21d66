------------------------- MODULE CallSupervised_proofs -------------------------
(* Every call of CallManager is supervised unless the adapter was          *)
(* restarted, for any calls, requests, channels and bounds.                *)
EXTENDS CallTimers_proofs

USE DEF media, counts

(***************************************************************************)
(* Who supervises the call in the slot                                     *)
(***************************************************************************)

\* Task p is one that will end the call, or hand it on.
Minds(p) ==
    \/ /\ call.state \in Calling
       /\ \/ p \in Calls /\ p = call.id /\ task[p].at \in {"prepare", "lock", "dial", "abort"}
          \/ p = "ring" /\ On(p, call.id, {"sleep", "lock"})
          \/ p \in Channels /\ On(p, call.id, {"est_abort"})
    \/ /\ call.state = "connected"
       /\ \/ p \in Channels /\ On(p, call.id, {"est_audio", "est_abort"})
          \/ p = "audio" /\ On(p, call.id, {"sleep", "eof_lock"})
    \/ /\ call.state = "ending"
       /\ \/ p = "ending" /\ On(p, call.id, {"sleep"})
          \/ p = "ring" /\ On(p, call.id, {"ring_hangup"})
          \/ p \in Hangups \cup Channels \cup {"audio"} /\ On(p, call.id, {"hangup"})
    \/ /\ call.state \in Terminal
       /\ p = "terminal" /\ On(p, call.id, {"hold", "reset"})

Minded == call.state # "idle" => \E p \in Tasks : Minds(p)

\* The terminal timer in its second part finds the state its first part published.
ResetInv == At("terminal", "reset") => call.state = "ended"

LEMMA MindedMeaning ==
    ASSUME TypeOK, TimersInv, Minded
    PROVE  Supervised(call.id)
<1>1. CASE call.state = "idle"
  BY <1>1 DEF Supervised, Calling, Terminal
<1>2. CASE call.state # "idle"
  <2>1. PICK p \in Tasks : Minds(p)
    BY <1>2 DEF Minded
  <2>2. CASE call.state \in Calling
    <3>1. p = "ring" /\ On(p, call.id, {"sleep", "lock"}) => "ring" \in timers
      BY DEF TimersInv, Live, LivePoints, Timers, On
    <3> QED BY <2>1, <2>2, <3>1 DEF Minds, Supervised, Calling, Terminal
  <2>3. CASE call.state = "connected"
    <3>1. p = "audio" /\ On(p, call.id, {"sleep", "eof_lock"}) => "audio" \in timers
      BY DEF TimersInv, Live, LivePoints, Timers, On
    <3> QED BY <2>1, <2>3, <3>1 DEF Minds, Supervised, Calling, Terminal
  <2>4. CASE call.state = "ending"
    BY <2>1, <2>4 DEF Minds, Supervised, Calling, Terminal
  <2>5. CASE call.state \in Terminal
    BY <2>1, <2>5 DEF Minds, Supervised, Calling, Terminal
  <2> QED BY <1>2, <2>2, <2>3, <2>4, <2>5 DEF TypeOK, Active
<1> QED BY <1>1, <1>2

\* A task does not supervise the call at the points where it only waits to look.
LEMMA Looking ==
    /\ \A c \in Calls : Minds(c) => IsCurrent(c, Calling)
    /\ \A h \in Hangups : Minds(h) => At(h, "hangup") /\ IsCurrent(task[h].id, {"ending"})
    /\ \A ch \in Channels : Minds(ch) =>
            /\ task[ch].at \in {"est_audio", "est_abort", "hangup"}
            /\ task[ch].id = call.id
            /\ At(ch, "est_audio") => call.state = "connected"
            /\ At(ch, "hangup") => call.state = "ending"
    /\ Minds("ring") => /\ task["ring"].id = call.id
                        /\ At("ring", "lock") => call.state \in Calling
    /\ Minds("audio") => /\ task["audio"].id = call.id
                         /\ At("audio", "eof_lock") => call.state = "connected"
                         /\ At("audio", "hangup") => call.state = "ending"
    /\ Minds("ending") => task["ending"].id = call.id
    /\ Minds("terminal") => IsCurrent(task["terminal"].id, Terminal)
<1>1. /\ \A t \in Calls : t \notin Hangups \cup Channels \cup Timers
      /\ \A t \in Hangups : t \notin Calls \cup Channels \cup Timers
      /\ \A t \in Channels : t \notin Calls \cup Hangups \cup Timers
      /\ \A t \in Timers : t \notin Calls \cup Hangups \cup Channels
      /\ Timers = {"ring", "audio", "ending", "terminal"}
  BY TasksAssumption DEF Timers
<1> QED BY <1>1 DEF Minds, On, At, IsCurrent

\* A step that leaves the slot and every task that minds it alone.
LEMMA KeptMinded ==
    ASSUME Minded, UNCHANGED call, \A p \in Tasks : Minds(p) => task'[p] = task[p]
    PROVE  Minded'
BY DEF Minded, Minds, On

LEMMA GotoMinded ==
    ASSUME Minded, NEW t \in Tasks, NEW at, NEW c, Goto(t, at, c, {}), UNCHANGED call,
           Minds(t) => Minds(t)'
    PROVE  Minded'
<1>1. \A p \in Tasks \ {t} : task'[p] = task[p]
  BY DEF Goto
<1>2. CASE Minds(t)
  BY <1>2 DEF Minded
<1>3. CASE ~Minds(t)
  BY <1>1, <1>3, KeptMinded
<1> QED BY <1>2, <1>3

LEMMA ReturnMinded ==
    ASSUME Minded, NEW t \in Tasks, Return(t), UNCHANGED call, ~Minds(t)
    PROVE  Minded'
BY GotoMinded DEF Return

\* A call that is finished is minded by the terminal timer.
LEMMA FinishMinded ==
    ASSUME TypeOK, Minded, NEW t \in Tasks, NEW c, NEW state \in Terminal, NEW owned,
           Finish(t, c, state, owned), Minds(t) => call.id = c
    PROVE  Minded'
<1>1. CASE call.id # c
  BY <1>1, ReturnMinded DEF Finish
<1>2. CASE call.id = c
  <2>1. call'.id = c /\ call'.state = state
    BY <1>2 DEF Finish, TypeOK
  <2>2. task'["terminal"] = [at |-> "hold", id |-> c] /\ "terminal" \in Tasks
    BY <1>2, NoTimers DEF Finish, Timers
  <2>3. Minds("terminal")'
    BY <2>1, <2>2 DEF Minds, On
  <2> QED BY <2>2, <2>3 DEF Minded
<1> QED BY <1>1, <1>2

\* A timer that is created minds the call; otherwise the task did not.
LEMMA StartingMinded ==
    ASSUME TypeOK, Minded, NEW timer \in Timers, NEW t \in Tasks, NEW c,
           NEW needed, ReturnStarting(timer, t, c, needed), UNCHANGED call, timer # t,
           needed => /\ c = call.id
                     /\ \/ timer = "ring" /\ call.state \in Calling
                        \/ timer = "audio" /\ call.state = "connected"
                        \/ timer = "ending" /\ call.state = "ending",
           ~needed => ~Minds(t)
    PROVE  Minded'
<1>1. CASE needed
  <2>1. task'[timer] = [at |-> "sleep", id |-> c] /\ timer \in Tasks
    BY <1>1, NoTimers DEF ReturnStarting
  <2>2. Minds(timer)'
    BY <1>1, <2>1 DEF Minds, On
  <2> QED BY <2>1, <2>2 DEF Minded
<1>2. CASE ~needed
  BY <1>2, KeptMinded DEF ReturnStarting
<1> QED BY <1>1, <1>2

(***************************************************************************)
(* The steps                                                               *)
(***************************************************************************)

SupInv == TypeOK /\ TimersInv /\ ResetInv

LEMMA StartMinded ==
    ASSUME SupInv, Minded, NEW c \in Calls, StartStep(c)
    PROVE  Minded'
<1>0. /\ c \in Tasks /\ c \notin Timers /\ {"ring", "audio"} \subseteq Timers
      /\ Minds(c) => IsCurrent(c, Calling)
  BY NoTimers, Looking DEF Tasks, Timers
<1>1. CASE StartCall(c)
  <2>1. call'.id = c /\ call'.state \in Calling /\ task'[c].at = "prepare"
    BY <1>0, <1>1 DEF StartCall, Goto, Calling
  <2>2. Minds(c)'
    BY <2>1 DEF Minds
  <2> QED BY <1>0, <2>2 DEF Minded
<1>2. CASE AudioPrepared(c)
  <2>1. Minds(c) => Minds(c)'
    BY <1>0, <1>2 DEF AudioPrepared, Goto, Minds, On, IsCurrent
  <2> QED BY <1>0, <1>2, <2>1, GotoMinded DEF AudioPrepared
<1>3. CASE AudioFailed(c)
  BY <1>0, <1>3, FinishMinded DEF AudioFailed, Terminal, IsCurrent, SupInv
<1>4. CASE DialCancelled(c)
  BY <1>0, <1>4, ReturnMinded DEF DialCancelled
<1>5. CASE Dial(c)
  <2>1. CASE RateAllows
    <3>1. Goto(c, "dial", c, {}) /\ UNCHANGED call
      BY <1>5, <2>1 DEF Dial
    <3>2. Minds(c) => Minds(c)'
      BY <1>0, <3>1 DEF Goto, Minds, On, IsCurrent
    <3> QED BY <1>0, <3>1, <3>2, GotoMinded
  <2>2. CASE ~RateAllows
    BY <1>0, <1>5, <2>2, FinishMinded DEF Dial, Terminal, IsCurrent, SupInv
  <2> QED BY <2>1, <2>2
<1>6. CASE Dialed(c)
  <2> DEFINE needed == IsCurrent(c, Calling)
  <2>1. ReturnStarting("ring", c, c, needed) /\ UNCHANGED call
    BY <1>6 DEF Dialed
  <2>2. needed => c = call.id /\ call.state \in Calling
    BY DEF IsCurrent
  <2> HIDE DEF needed
  <2>3. ~needed => ~Minds(c)
    BY <1>0 DEF needed
  <2> QED BY <1>0, <2>1, <2>2, <2>3, StartingMinded DEF SupInv
<1>7. CASE DialFailed(c)
  <2>1. Goto(c, "abort", task[c].id, {}) /\ UNCHANGED call
    BY <1>7 DEF DialFailed, Move
  <2>2. Minds(c) => Minds(c)'
    BY <1>0, <2>1 DEF Goto, Minds, On, IsCurrent
  <2> QED BY <1>0, <2>1, <2>2, GotoMinded
<1>8. CASE DialAborted(c)
  BY <1>0, <1>8, FinishMinded DEF DialAborted, Terminal, IsCurrent, SupInv
<1> QED BY <1>1, <1>2, <1>3, <1>4, <1>5, <1>6, <1>7, <1>8 DEF StartStep

\* The task that begins a hang-up minds the call from then on.
LEMMA BeginHangupMinded ==
    ASSUME SupInv, NEW t \in Hangups \cup Channels \cup {"audio"}, NEW c,
           BeginHangup(t, c), c = call.id
    PROVE  Minded'
<1>0. t \in Tasks
  BY DEF Tasks, Timers
<1>1. task'[t] = [at |-> "hangup", id |-> c]
  BY <1>0 DEF BeginHangup, Goto
<1>2. call'.id = c /\ call'.state = "ending"
  BY DEF BeginHangup, SupInv, TypeOK
<1>3. Minds(t)'
  BY <1>1, <1>2 DEF Minds, On
<1> QED BY <1>0, <1>3 DEF Minded

LEMMA HangupMinded ==
    ASSUME SupInv, Minded, HangupStep
    PROVE  Minded'
<1>0. /\ \A t \in Hangups \cup Channels \cup {"audio"} : t \in Tasks /\ t # "ending"
      /\ "ending" \in Timers
      /\ \A t \in Hangups \cup Channels \cup {"audio"} :
            Minds(t) => task[t].id = call.id /\ (At(t, "hangup") => call.state = "ending")
  BY TasksAssumption, Looking DEF Tasks, Timers, IsCurrent
<1>1. ASSUME NEW h \in Hangups, Hangup(h)
      PROVE  Minded'
  <2> DEFINE c == task[h].id
  <2>0. ~Minds(h)
    BY <1>1, Looking DEF Hangup, At
  <2>1. CASE ~IsCurrent(c, Active \ {"ending"})
    BY <1>0, <1>1, <2>0, <2>1, ReturnMinded DEF Hangup
  <2>2. CASE IsCurrent(c, Active \ {"ending"}) /\ ~sipCallStarted
    BY <1>0, <1>1, <2>0, <2>2, FinishMinded DEF Hangup, Terminal, SupInv
  <2>3. CASE IsCurrent(c, Active \ {"ending"}) /\ sipCallStarted
    BY <1>1, <2>3, BeginHangupMinded DEF Hangup, IsCurrent
  <2> QED BY <2>1, <2>2, <2>3
<1>2. ASSUME NEW h \in Hangups, NEW c \in Calls, HangupRequest(h, c)
      PROVE  Minded'
  <2>1. ~Minds(h)
    BY <1>2, Looking DEF HangupRequest, At
  <2> QED BY <1>0, <1>2, <2>1, GotoMinded DEF HangupRequest, Move
<1>3. ASSUME NEW t \in Channels \cup {"audio"}, HangupAfterAudio(t)
      PROVE  Minded'
  <2>1. CASE ~IsCurrent(task[t].id, {"connected"})
    <3>1. ~Minds(t)
      BY <1>3, <2>1, Looking DEF HangupAfterAudio, At, IsCurrent
    <3> QED BY <1>0, <1>3, <2>1, <3>1, ReturnMinded DEF HangupAfterAudio
  <2>2. CASE IsCurrent(task[t].id, {"connected"})
    BY <1>3, <2>2, BeginHangupMinded DEF HangupAfterAudio, IsCurrent
  <2> QED BY <2>1, <2>2
<1>4. ASSUME NEW t \in Hangups \cup Channels \cup {"audio"}, HangupSent(t)
      PROVE  Minded'
  <2> DEFINE c == task[t].id
             needed == IsCurrent(c, {"ending"})
  <2>1. ReturnStarting("ending", t, c, needed) /\ UNCHANGED call /\ At(t, "hangup")
    BY <1>4 DEF HangupSent
  <2>2. needed => c = call.id /\ call.state = "ending"
    BY DEF IsCurrent
  <2>3. ~needed => ~Minds(t)
    BY <1>0, <2>1 DEF IsCurrent
  <2> HIDE DEF needed
  <2> QED BY <1>0, <2>1, <2>2, <2>3, StartingMinded DEF SupInv
<1>5. ASSUME NEW t \in Hangups \cup Channels \cup {"audio"}, HangupFailed(t)
      PROVE  Minded'
  BY <1>0, <1>5, FinishMinded DEF HangupFailed, Terminal, SupInv
<1> QED BY <1>1, <1>2, <1>3, <1>4, <1>5 DEF HangupStep

LEMMA EventMinded ==
    ASSUME SupInv, Minded, NEW ch \in Channels, EventStep(ch)
    PROVE  Minded'
<1>0. /\ ch \in Tasks /\ ch # "audio" /\ "audio" \in Timers
      /\ Minds(ch) => /\ task[ch].at \in {"est_audio", "est_abort", "hangup"}
                      /\ task[ch].id = call.id
                      /\ At(ch, "est_audio") => call.state = "connected"
  BY TasksAssumption, Looking DEF Tasks, Timers
<1>1. ASSUME NEW state \in Calling, CallProgress(ch, state)
      PROVE  Minded'
  <2>1. /\ call'.id = call.id /\ call'.state \in Calling /\ call.state \in Calling
        /\ UNCHANGED task
    BY <1>1 DEF CallProgress, SupInv, TypeOK
  <2>2. \A p \in Tasks : Minds(p) => Minds(p)'
    BY <2>1 DEF Minds, On, Calling, Terminal
  <2> QED BY <2>1, <2>2 DEF Minded, Calling
<1>2. ASSUME NEW at, NEW c, Move(ch, at, c), At(ch, "idle")
      PROVE  Minded'
  <2>1. ~Minds(ch)
    BY <1>0, <1>2 DEF At
  <2> QED BY <1>0, <1>2, <2>1, GotoMinded DEF Move
<1>3. CASE CallEstablished(ch) \/ AudioEof(ch) \/ CallIncoming(ch)
  BY <1>2, <1>3 DEF CallEstablished, AudioEof, CallIncoming, Receives
<1>4. ASSUME NEW reason \in {"busy", "no_answer", "failed"}, CallClosed(ch, reason)
      PROVE  Minded'
  <2> DEFINE state == IF call.state \in {"ending", "connected"} THEN "ended" ELSE reason
  <2>1. Finish(ch, call.id, state, {}) /\ state \in Terminal
    BY <1>4 DEF CallClosed, Terminal
  <2> HIDE DEF state
  <2> QED BY <1>0, <2>1, FinishMinded DEF SupInv
<1>5. CASE OnEstablished(ch)
  <2> DEFINE c == task[ch].id
  <2>0. ~Minds(ch)
    BY <1>0, <1>5 DEF OnEstablished, At
  <2>1. CASE ~IsCurrent(c, Calling)
    BY <1>0, <1>5, <2>0, <2>1, ReturnMinded DEF OnEstablished
  <2>2. CASE IsCurrent(c, Calling) /\ prepared = None
    BY <1>0, <1>5, <2>0, <2>2, GotoMinded DEF OnEstablished
  <2>3. CASE IsCurrent(c, Calling) /\ prepared # None
    <3>1. /\ call' = [call EXCEPT !.state = "connected"]
          /\ task'[ch] = [at |-> "est_audio", id |-> c]
      BY <1>0, <1>5, <2>3 DEF OnEstablished, Goto
    <3>2. call'.id = c /\ call'.state = "connected"
      BY <2>3, <3>1 DEF IsCurrent, SupInv, TypeOK
    <3>3. Minds(ch)'
      BY <3>1, <3>2 DEF Minds, On
    <3> QED BY <1>0, <3>3 DEF Minded
  <2> QED BY <2>1, <2>2, <2>3
<1>6. CASE AudioStarted(ch)
  <2> DEFINE c == task[ch].id
             needed == IsCurrent(c, {"connected"})
  <2>1. ReturnStarting("audio", ch, c, needed) /\ UNCHANGED call /\ At(ch, "est_audio")
    BY <1>6 DEF AudioStarted
  <2>2. needed => c = call.id /\ call.state = "connected"
    BY DEF IsCurrent
  <2>3. ~needed => ~Minds(ch)
    BY <1>0, <2>1 DEF IsCurrent
  <2> HIDE DEF needed
  <2> QED BY <1>0, <2>1, <2>2, <2>3, StartingMinded DEF SupInv
<1>7. CASE AudioStartFailed(ch)
  <2>1. Goto(ch, "est_abort", task[ch].id, {}) /\ UNCHANGED call /\ At(ch, "est_audio")
    BY <1>7 DEF AudioStartFailed, Move
  <2>2. Minds(ch) => Minds(ch)'
    BY <1>0, <2>1 DEF Goto, Minds, On
  <2> QED BY <1>0, <2>1, <2>2, GotoMinded
<1>8. CASE EstablishedAborted(ch)
  BY <1>0, <1>8, FinishMinded DEF EstablishedAborted, Terminal, SupInv
<1>9. CASE RejectIncoming(ch)
  <2>1. ~Minds(ch) /\ UNCHANGED call
    BY <1>0, <1>9 DEF RejectIncoming, At
  <2>2. Return(ch) \/ Goto(ch, "inc_hangup", None, {})
    BY <1>9 DEF RejectIncoming
  <2> QED BY <1>0, <2>1, <2>2, ReturnMinded, GotoMinded
<1>10. CASE IncomingRejected(ch)
  <2>1. ~Minds(ch)
    BY <1>0, <1>10 DEF IncomingRejected, At
  <2> QED BY <1>0, <1>10, <2>1, ReturnMinded DEF IncomingRejected
<1> QED BY <1>1, <1>3, <1>4, <1>5, <1>6, <1>7, <1>8, <1>9, <1>10 DEF EventStep

LEMMA TimerMinded ==
    ASSUME SupInv, Minded, TimerStep
    PROVE  Minded'
<1>0. /\ \A t \in Timers : t \in Tasks /\ t \notin Calls \cup Hangups \cup Channels
      /\ Timers = {"ring", "audio", "ending", "terminal"}
  BY TasksAssumption DEF Tasks, Timers
<1>1. CASE RingElapsed
  <2>1. Goto("ring", "lock", task["ring"].id, {}) /\ UNCHANGED call /\ At("ring", "sleep")
    BY <1>1 DEF RingElapsed, Move
  <2>2. Minds("ring") => Minds("ring")'
    BY <1>0, <2>1 DEF Goto, Minds, On, At
  <2> QED BY <1>0, <2>1, <2>2, GotoMinded
<1>2. CASE RingTimeout
  <2> DEFINE c == task["ring"].id
  <2>1. CASE ~IsCurrent(c, Calling)
    <3>1. ~Minds("ring")
      BY <1>2, <2>1, Looking DEF RingTimeout, IsCurrent
    <3> QED BY <1>0, <1>2, <2>1, <3>1, ReturnMinded DEF RingTimeout
  <2>2. CASE IsCurrent(c, Calling)
    <3>1. call'.id = c /\ call'.state = "ending"
      BY <1>2, <2>2 DEF RingTimeout, IsCurrent, SupInv, TypeOK
    <3>2. task'["ring"] = [at |-> "ring_hangup", id |-> c]
      BY <1>0, <1>2, <2>2 DEF RingTimeout, Goto
    <3>3. Minds("ring")'
      BY <3>1, <3>2 DEF Minds, On
    <3> QED BY <1>0, <3>3 DEF Minded
  <2> QED BY <2>1, <2>2
<1>3. ASSUME NEW state \in {"no_answer", "failed"}, RingHangupDone(state)
      PROVE  Minded'
  BY <1>0, <1>3, Looking, FinishMinded DEF RingHangupDone, Terminal, SupInv
<1>4. CASE AudioDeadline
  <2>1. Goto("audio", "eof_lock", task["audio"].id, {}) /\ UNCHANGED call /\ At("audio", "sleep")
    BY <1>4 DEF AudioDeadline, Move
  <2>2. Minds("audio") => Minds("audio")'
    BY <1>0, <2>1 DEF Goto, Minds, On, At
  <2> QED BY <1>0, <2>1, <2>2, GotoMinded
<1>5. CASE EndingFallback
  BY <1>0, <1>5, Looking, FinishMinded DEF EndingFallback, Terminal, SupInv
<1>6. CASE TerminalShown
  <2> DEFINE c == task["terminal"].id
  <2>1. CASE ~IsCurrent(c, Terminal)
    BY <1>0, <1>6, <2>1, Looking, GotoMinded DEF TerminalShown
  <2>2. CASE IsCurrent(c, Terminal)
    <3>1. call'.id = c /\ call'.state = "ended"
      BY <1>6, <2>2 DEF TerminalShown, IsCurrent, SupInv, TypeOK
    <3>2. task'["terminal"] = [at |-> "reset", id |-> c]
      BY <1>0, <1>6, <2>2 DEF TerminalShown, Goto
    <3>3. Minds("terminal")'
      BY <3>1, <3>2 DEF Minds, On, Terminal
    <3> QED BY <1>0, <3>3 DEF Minded
  <2> QED BY <2>1, <2>2
<1>7. CASE TerminalReset
  <2> DEFINE c == task["terminal"].id
  <2>1. CASE ~IsCurrent(c, {"ended"})
    <3>1. ~Minds("terminal")
      BY <1>7, <2>1, Looking DEF TerminalReset, SupInv, ResetInv, IsCurrent
    <3> QED BY <1>0, <1>7, <2>1, <3>1, GotoMinded DEF TerminalReset
  <2>2. CASE IsCurrent(c, {"ended"})
    BY <1>7, <2>2 DEF TerminalReset, NoCall, Minded
  <2> QED BY <2>1, <2>2
<1> QED BY <1>1, <1>2, <1>3, <1>4, <1>5, <1>6, <1>7 DEF TimerStep

(***************************************************************************)
(* The terminal timer between its two parts                                *)
(***************************************************************************)

LEMMA GotoReset ==
    ASSUME SupInv, NEW t, NEW at, NEW c, NEW S, Goto(t, at, c, S),
           t # "terminal" \/ at # "reset", UNCHANGED call \/ call.state # "ended"
    PROVE  ResetInv'
<1>1. At("terminal", "reset")' => At("terminal", "reset")
  BY NoTimers DEF Goto, At, Idle, Timers
<1> QED BY <1>1 DEF SupInv, ResetInv

LEMMA StartingReset ==
    ASSUME SupInv, NEW timer, NEW t, NEW c, NEW needed, ReturnStarting(timer, t, c, needed),
           UNCHANGED call
    PROVE  ResetInv'
<1>1. At("terminal", "reset")' => At("terminal", "reset")
  BY NoTimers DEF ReturnStarting, At, Idle, Timers
<1> QED BY <1>1 DEF SupInv, ResetInv

LEMMA FinishReset ==
    ASSUME SupInv, NEW t, NEW c, NEW state, NEW owned, Finish(t, c, state, owned)
    PROVE  ResetInv'
<1>1. CASE call.id # c
  BY <1>1, GotoReset DEF Finish, Return
<1>2. CASE call.id = c
  BY <1>2, NoTimers DEF Finish, ResetInv, At, Timers
<1> QED BY <1>1, <1>2

LEMMA StartReset ==
    ASSUME SupInv, NEW c \in Calls, StartStep(c)
    PROVE  ResetInv'
<1>1. CASE StartCall(c)
  <2>1. At("terminal", "reset") => "terminal" \in CancelledBy(c, {"terminal"})
    BY NoTimers DEF SupInv, TimersInv, Live, LivePoints, At, CancelledBy, Timers
  <2>2. ~At("terminal", "reset")'
    BY <1>1, <2>1, NoTimers DEF StartCall, Goto, At, Idle, Timers
  <2> QED BY <2>2 DEF ResetInv
<1>2. CASE AudioPrepared(c)
  BY <1>2, GotoReset DEF AudioPrepared
<1>3. CASE AudioFailed(c) \/ DialAborted(c)
  BY <1>3, FinishReset DEF AudioFailed, DialAborted
<1>4. CASE DialCancelled(c)
  BY <1>4, GotoReset DEF DialCancelled, Return
<1>5. CASE Dial(c)
  BY <1>5, FinishReset, GotoReset DEF Dial
<1>6. CASE Dialed(c)
  BY <1>6, StartingReset DEF Dialed
<1>7. CASE DialFailed(c)
  BY <1>7, GotoReset DEF DialFailed, Move
<1> QED BY <1>1, <1>2, <1>3, <1>4, <1>5, <1>6, <1>7 DEF StartStep

LEMMA HangupReset ==
    ASSUME SupInv, HangupStep
    PROVE  ResetInv'
<1>1. ASSUME NEW t, NEW c, BeginHangup(t, c), call.state # "ended"
      PROVE  ResetInv'
  BY <1>1, GotoReset DEF BeginHangup
<1>2. ASSUME NEW h \in Hangups, Hangup(h)
      PROVE  ResetInv'
  BY <1>1, <1>2, FinishReset, GotoReset DEF Hangup, Return, IsCurrent, Active, Calling
<1>3. ASSUME NEW h \in Hangups, NEW c \in Calls, HangupRequest(h, c)
      PROVE  ResetInv'
  BY <1>3, GotoReset DEF HangupRequest, Move
<1>4. ASSUME NEW t \in Channels \cup {"audio"}, HangupAfterAudio(t)
      PROVE  ResetInv'
  BY <1>1, <1>4, GotoReset DEF HangupAfterAudio, Return, IsCurrent
<1>5. ASSUME NEW t \in Hangups \cup Channels \cup {"audio"}, HangupSent(t) \/ HangupFailed(t)
      PROVE  ResetInv'
  BY <1>5, StartingReset, FinishReset DEF HangupSent, HangupFailed
<1> QED BY <1>2, <1>3, <1>4, <1>5 DEF HangupStep

LEMMA EventReset ==
    ASSUME SupInv, NEW ch \in Channels, EventStep(ch)
    PROVE  ResetInv'
<1>1. ASSUME NEW state \in Calling, CallProgress(ch, state)
      PROVE  ResetInv'
  BY <1>1 DEF CallProgress, SupInv, ResetInv, At, Calling
<1>2. CASE CallEstablished(ch) \/ AudioEof(ch) \/ CallIncoming(ch) \/ AudioStartFailed(ch)
  BY <1>2, GotoReset DEF CallEstablished, AudioEof, CallIncoming, AudioStartFailed, Move
<1>3. ASSUME NEW reason \in {"busy", "no_answer", "failed"}, CallClosed(ch, reason)
      PROVE  ResetInv'
  BY <1>3, FinishReset DEF CallClosed
<1>4. CASE OnEstablished(ch)
  BY <1>4, GotoReset DEF OnEstablished, Return, IsCurrent, Calling
<1>5. CASE AudioStarted(ch)
  BY <1>5, StartingReset DEF AudioStarted
<1>6. CASE EstablishedAborted(ch)
  BY <1>6, FinishReset DEF EstablishedAborted
<1>7. CASE RejectIncoming(ch) \/ IncomingRejected(ch)
  BY <1>7, GotoReset DEF RejectIncoming, IncomingRejected, Return
<1> QED BY <1>1, <1>2, <1>3, <1>4, <1>5, <1>6, <1>7 DEF EventStep

LEMMA TimerReset ==
    ASSUME SupInv, TimerStep
    PROVE  ResetInv'
<1>1. CASE RingElapsed \/ AudioDeadline
  BY <1>1, GotoReset DEF RingElapsed, AudioDeadline, Move
<1>2. CASE RingTimeout
  BY <1>2, GotoReset DEF RingTimeout, Return, IsCurrent, Calling
<1>3. ASSUME NEW state \in {"no_answer", "failed"}, RingHangupDone(state)
      PROVE  ResetInv'
  BY <1>3, FinishReset DEF RingHangupDone
<1>4. CASE EndingFallback
  BY <1>4, FinishReset DEF EndingFallback
<1>5. CASE TerminalShown
  <2>1. CASE ~IsCurrent(task["terminal"].id, Terminal)
    BY <1>5, <2>1, GotoReset DEF TerminalShown
  <2>2. CASE IsCurrent(task["terminal"].id, Terminal)
    BY <1>5, <2>2 DEF TerminalShown, ResetInv, SupInv, TypeOK
  <2> QED BY <2>1, <2>2
<1>6. CASE TerminalReset
  <2>1. ~At("terminal", "reset")'
    BY <1>6, NoTimers DEF TerminalReset, Goto, At, Timers
  <2> QED BY <2>1 DEF ResetInv
<1> QED BY <1>1, <1>2, <1>3, <1>4, <1>5, <1>6 DEF TimerStep

LEMMA ServiceReset ==
    ASSUME SupInv, ServiceStep
    PROVE  ResetInv'
<1>1. CASE ShutdownRequest \/ Shutdown \/ ShutdownDone
  BY <1>1, GotoReset DEF ShutdownRequest, Shutdown, ShutdownDone, Move
<1>2. CASE AdapterRestart
  BY <1>2, NoTimers DEF AdapterRestart, SupInv, ResetInv, At, Timers, Idle
<1>3. CASE ExpireAttempt
  BY <1>3 DEF ExpireAttempt, SupInv, ResetInv, At
<1>4. CASE StopCancels
  BY <1>4, NoTimers DEF StopCancels, SupInv, ResetInv, At, Timers
<1>5. ASSUME NEW ch \in Channels, CancelEnds(ch) PROVE ResetInv'
  BY <1>5, GotoReset DEF CancelEnds, Move
<1> QED BY <1>1, <1>2, <1>3, <1>4, <1>5 DEF ServiceStep

LEMMA SupStep == SupInv /\ [Next]_vars => SupInv'
<1>1. ASSUME SupInv, UNCHANGED vars PROVE ResetInv'
  BY <1>1 DEF vars, SupInv, ResetInv, At
<1>2. SupInv /\ [Next]_vars => ResetInv'
  BY <1>1, StartReset, EventReset, TimerReset, HangupReset, ServiceReset DEF Next
<1> QED BY <1>2, TypeStep, TimersStep DEF SupInv

(***************************************************************************)
(* The shutdown and the adapter's restarts are for ever                    *)
(***************************************************************************)

\* The condition under which calls are supervised.
Quiet == restarts = 0 /\ ~Stopping
Watch == Quiet => Minded

LEMMA NotShutdown ==
    /\ "shutdown" \in Tasks
    /\ "shutdown" \notin Calls \cup Hangups \cup Channels \cup Timers
BY TasksAssumption DEF Tasks, Timers

LEMMA CancelledNotShutdown ==
    ASSUME TypeOK, NEW t, NEW S
    PROVE  "shutdown" \notin CancelledBy(t, S)
BY NotShutdown DEF CancelledBy, TypeOK

LEMMA GotoShutdown ==
    ASSUME NEW t, NEW at, NEW c, NEW S, Goto(t, at, c, S), t # "shutdown", "shutdown" \notin S
    PROVE  task'["shutdown"] = task["shutdown"]
BY NotShutdown DEF Goto

LEMMA ReturnShutdown ==
    ASSUME NEW t, Return(t), t # "shutdown"
    PROVE  task'["shutdown"] = task["shutdown"]
BY GotoShutdown DEF Return

LEMMA StartingShutdown ==
    ASSUME NEW timer \in Timers, NEW t, NEW c, NEW needed, ReturnStarting(timer, t, c, needed),
           t # "shutdown"
    PROVE  task'["shutdown"] = task["shutdown"]
BY NotShutdown DEF ReturnStarting

LEMMA FinishShutdown ==
    ASSUME TypeOK, NEW t, NEW c, NEW state, NEW owned, Finish(t, c, state, owned), t # "shutdown"
    PROVE  task'["shutdown"] = task["shutdown"]
<1>1. CASE call.id # c
  BY <1>1, ReturnShutdown DEF Finish
<1>2. CASE call.id = c
  BY <1>2, NotShutdown, CancelledNotShutdown DEF Finish
<1> QED BY <1>1, <1>2

\* Handlers, requests and timers neither begin a shutdown nor restart the adapter.
LEMMA OthersShutdown ==
    ASSUME TypeOK, (\E c \in Calls : StartStep(c)) \/ (\E ch \in Channels : EventStep(ch))
                   \/ TimerStep \/ HangupStep
    PROVE  task'["shutdown"] = task["shutdown"] /\ restarts' = restarts
<1>0. /\ \A t \in Calls \cup Hangups \cup Channels \cup Timers : t # "shutdown"
      /\ Timers = {"ring", "audio", "ending", "terminal"}
  BY NotShutdown DEF Timers
<1> USE GotoShutdown, ReturnShutdown, StartingShutdown, FinishShutdown, CancelledNotShutdown
<1>1. ASSUME NEW c \in Calls, StartStep(c)
      PROVE  task'["shutdown"] = task["shutdown"] /\ restarts' = restarts
  <2>1. CASE StartCall(c) \/ AudioPrepared(c) \/ AudioFailed(c) \/ DialCancelled(c)
    BY <1>0, <2>1 DEF StartCall, AudioPrepared, AudioFailed, DialCancelled
  <2>2. CASE Dial(c)
    BY <1>0, <2>2 DEF Dial
  <2>3. CASE Dialed(c) \/ DialFailed(c) \/ DialAborted(c)
    BY <1>0, <2>3 DEF Dialed, DialFailed, DialAborted, Move
  <2> QED BY <1>1, <2>1, <2>2, <2>3 DEF StartStep
<1>2. ASSUME NEW ch \in Channels, EventStep(ch)
      PROVE  task'["shutdown"] = task["shutdown"] /\ restarts' = restarts
  <2>1. ASSUME NEW state \in Calling, CallProgress(ch, state)
        PROVE  UNCHANGED <<task, restarts>>
    BY <2>1 DEF CallProgress
  <2>2. CASE CallEstablished(ch) \/ AudioEof(ch) \/ CallIncoming(ch) \/ AudioStartFailed(ch)
    BY <1>0, <2>2 DEF CallEstablished, AudioEof, CallIncoming, AudioStartFailed, Move
  <2>3. ASSUME NEW reason \in {"busy", "no_answer", "failed"}, CallClosed(ch, reason)
        PROVE  task'["shutdown"] = task["shutdown"] /\ restarts' = restarts
    BY <1>0, <2>3 DEF CallClosed
  <2>4. CASE OnEstablished(ch)
    BY <1>0, <2>4 DEF OnEstablished
  <2>5. CASE AudioStarted(ch) \/ EstablishedAborted(ch)
    BY <1>0, <2>5 DEF AudioStarted, EstablishedAborted
  <2>6. CASE RejectIncoming(ch) \/ IncomingRejected(ch)
    BY <1>0, <2>6 DEF RejectIncoming, IncomingRejected
  <2> QED BY <1>2, <2>1, <2>2, <2>3, <2>4, <2>5, <2>6 DEF EventStep
<1>3. CASE TimerStep
  <2>1. ASSUME NEW state \in {"no_answer", "failed"}, RingHangupDone(state)
        PROVE  task'["shutdown"] = task["shutdown"] /\ restarts' = restarts
    BY <1>0, <2>1 DEF RingHangupDone
  <2>2. CASE RingElapsed \/ RingTimeout \/ AudioDeadline \/ EndingFallback
    BY <1>0, <2>2 DEF RingElapsed, RingTimeout, AudioDeadline, EndingFallback, Move
  <2>3. CASE TerminalShown \/ TerminalReset
    BY <1>0, <2>3 DEF TerminalShown, TerminalReset
  <2> QED BY <1>3, <2>1, <2>2, <2>3 DEF TimerStep
<1>4. CASE HangupStep
  <2>1. ASSUME NEW h \in Hangups, Hangup(h)
        PROVE  task'["shutdown"] = task["shutdown"] /\ restarts' = restarts
    BY <1>0, <2>1 DEF Hangup, BeginHangup
  <2>2. ASSUME NEW h \in Hangups, NEW c \in Calls, HangupRequest(h, c)
        PROVE  task'["shutdown"] = task["shutdown"] /\ restarts' = restarts
    BY <1>0, <2>2 DEF HangupRequest, Move
  <2>3. ASSUME NEW t \in Channels \cup {"audio"}, HangupAfterAudio(t)
        PROVE  task'["shutdown"] = task["shutdown"] /\ restarts' = restarts
    BY <1>0, <2>3 DEF HangupAfterAudio, BeginHangup
  <2>4. ASSUME NEW t \in Hangups \cup Channels \cup {"audio"}, HangupSent(t) \/ HangupFailed(t)
        PROVE  task'["shutdown"] = task["shutdown"] /\ restarts' = restarts
    BY <1>0, <2>4 DEF HangupSent, HangupFailed
  <2> QED BY <1>4, <2>1, <2>2, <2>3, <2>4 DEF HangupStep
<1> QED BY <1>1, <1>2, <1>3, <1>4

\* A service step either makes the condition false or leaves slot and tasks alone.
LEMMA ServiceWatch ==
    ASSUME TypeOK, Watch, ServiceStep
    PROVE  Watch'
<1>1. CASE ShutdownRequest \/ Shutdown \/ ShutdownDone
  <2>1. task'["shutdown"].at # "idle"
    BY <1>1, NotShutdown DEF ShutdownRequest, Shutdown, ShutdownDone, Move, Goto
  <2> QED BY <2>1 DEF Watch, Quiet, Stopping
<1>2. CASE AdapterRestart
  BY <1>2 DEF AdapterRestart, TypeOK, Watch, Quiet
<1>3. CASE ExpireAttempt
  BY <1>3, KeptMinded DEF ExpireAttempt, Watch, Quiet, Stopping
<1>4. CASE StopCancels
  BY <1>4, NotShutdown DEF StopCancels, Watch, Quiet, Stopping
<1>5. ASSUME NEW ch \in Channels, CancelEnds(ch) PROVE Watch'
  <2>1. ch \in Tasks /\ Goto(ch, "stopped", None, {}) /\ UNCHANGED <<call, restarts>>
    BY <1>5 DEF CancelEnds, Move, Tasks, counts
  <2>2. ~Minds(ch)
    BY <1>5, NoTimers, TasksAssumption DEF CancelEnds, At, Minds, On, Timers, Calling
  <2>3. task'["shutdown"] = task["shutdown"]
    BY <2>1, NotShutdown DEF Goto
  <2> QED BY <2>1, <2>2, <2>3, GotoMinded DEF Watch, Quiet, Stopping
<1> QED BY <1>1, <1>2, <1>3, <1>4, <1>5 DEF ServiceStep

LEMMA WatchStep == SupInv /\ Watch /\ [Next]_vars => Watch'
<1>1. ASSUME SupInv, Watch, UNCHANGED vars PROVE Watch'
  BY <1>1, KeptMinded DEF vars, Watch, Quiet, Stopping
<1>2. ASSUME SupInv, Watch,
             (\E c \in Calls : StartStep(c)) \/ (\E ch \in Channels : EventStep(ch))
             \/ TimerStep \/ HangupStep
      PROVE  Watch'
  <2>1. Quiet' => Quiet
    BY <1>2, OthersShutdown DEF Quiet, Stopping, SupInv
  <2>2. Minded => Minded'
    BY <1>2, StartMinded, EventMinded, TimerMinded, HangupMinded
  <2> QED BY <1>2, <2>1, <2>2 DEF Watch
<1>3. ASSUME SupInv, Watch, ServiceStep PROVE Watch'
  BY <1>3, ServiceWatch DEF SupInv
<1> QED BY <1>1, <1>2, <1>3 DEF Next

LEMMA WatchInit == Init => SupInv /\ Watch
<1>1. Init => ResetInv /\ Watch
  BY NoTimers DEF Init, ResetInv, Watch, Minded, NoCall, At, Idle, Timers
<1> QED BY <1>1, TypeInit, TimersInit DEF SupInv

\* As long as no refresh has restarted the adapter and the service is not stopping,
\* a request, a timer or a handler is there that will end the call in the slot: no
\* cancellation, failed command or late answer leaves the call to itself.
THEOREM SupervisedCorrect == Spec => []CallSupervisedUnlessRestarted
<1>1. SupInv /\ Watch /\ [Next]_vars => (SupInv /\ Watch)'
  BY SupStep, WatchStep
<1>2. SupInv /\ Watch => CallSupervisedUnlessRestarted
  BY MindedMeaning DEF SupInv, Watch, Quiet, CallSupervisedUnlessRestarted, CallSupervised
<1> QED BY <1>1, <1>2, WatchInit, PTL DEF Spec
=============================================================================
