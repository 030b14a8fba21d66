--------------------------- MODULE CallTimers_proofs ---------------------------
(* Theorems about the timers and the rate limit of CallManager, for any    *)
(* calls, requests, channels and bounds.                                   *)
EXTENDS CallManager_proofs

USE DEF media, counts

(***************************************************************************)
(* The timers                                                              *)
(***************************************************************************)

LivePoints == {"sleep", "lock", "eof_lock", "hold", "reset"}
Live(t) == task[t].at \in LivePoints

\* The states of a call that need each timer.
Needing == [ring |-> Calling, audio |-> {"connected"}, ending |-> {"ending"},
            terminal |-> Terminal]

\* TimersReferenced, timer by timer.
TimersInv ==
    \A t \in Timers :
        Live(t) => t \in timers /\ task[t].id = call.id /\ call.state \in Needing[t]

LEMMA TimersInvMeaning == TimersInv <=> TimersReferenced
BY DEF TimersInv, TimersReferenced, LiveTimers, Live, LivePoints, Needing, Timers

\* Each state of a call needs one timer at most.
LEMMA OneTimerNeeded ==
    ASSUME NEW p \in Timers, NEW state
    PROVE  /\ state \in Calling /\ state \in Needing[p] => p = "ring"
           /\ state = "connected" /\ state \in Needing[p] => p = "audio"
           /\ state = "ending" /\ state \in Needing[p] => p = "ending"
           /\ state \in Terminal /\ state \in Needing[p] => p = "terminal"
           /\ state = "idle" => state \notin Needing[p]
BY DEF Needing, Timers, Calling, Terminal

LEMMA NoTimers ==
    /\ \A t \in Calls \cup Hangups \cup Channels \cup {"shutdown"} : t \notin Timers
    /\ Timers \subseteq Tasks
BY TasksAssumption DEF Timers, Tasks

\* A step that takes task t to another point and cancels the tasks of S.
LEMMA GotoTimers ==
    ASSUME TypeOK, TimersInv, NEW t, NEW at, NEW c, NEW S, Goto(t, at, c, S),
           \A p \in Timers : Live(p) /\ p # t /\ p \notin S =>
                p \in timers' /\ call'.id = call.id /\ call'.state \in Needing[p],
           t \in Timers /\ at \in LivePoints =>
                t \in timers' /\ c = call'.id /\ call'.state \in Needing[t]
    PROVE  TimersInv'
<1> SUFFICES ASSUME NEW p \in Timers, Live(p)'
             PROVE  p \in timers' /\ task'[p].id = call'.id /\ call'.state \in Needing[p]
  BY DEF TimersInv
<1>1. CASE p = t
  BY <1>1, NoTimers DEF Goto, Live
<1>2. CASE p # t
  <2>1. p \notin S /\ task'[p] = task[p]
    BY <1>2, NoTimers DEF Goto, Live, Idle, LivePoints
  <2> QED BY <1>2, <2>1 DEF TimersInv, Live
<1> QED BY <1>1, <1>2

\* A task that is not a timer, or a timer that comes to rest, moves.
LEMMA MoveTimers ==
    ASSUME TypeOK, TimersInv, NEW t, NEW at, NEW c, NEW S, Goto(t, at, c, S),
           UNCHANGED <<call, timers>>, t \notin Timers \/ at \notin LivePoints
    PROVE  TimersInv'
<1>1. \A p \in Timers : Live(p) =>
            p \in timers' /\ call'.id = call.id /\ call'.state \in Needing[p]
  BY DEF TimersInv
<1> QED BY <1>1, GotoTimers

LEMMA ReturnTimers ==
    ASSUME TypeOK, TimersInv, NEW t, Return(t), UNCHANGED <<call, timers>>
    PROVE  TimersInv'
BY MoveTimers DEF Return, LivePoints

\* A task returns, and creates a timer if the call in the slot needs it.
LEMMA StartingTimers ==
    ASSUME TypeOK, TimersInv, NEW timer \in Timers, NEW t, NEW c, NEW needed \in BOOLEAN,
           ReturnStarting(timer, t, c, needed), UNCHANGED call,
           needed => c = call.id /\ call.state \in Needing[timer]
    PROVE  TimersInv'
<1> SUFFICES ASSUME NEW p \in Timers, Live(p)'
             PROVE  p \in timers' /\ task'[p].id = call'.id /\ call'.state \in Needing[p]
  BY DEF TimersInv
<1>1. p # t
  BY NoTimers DEF ReturnStarting, Live, LivePoints, Idle
<1>2. CASE p = timer /\ needed
  BY <1>1, <1>2, NoTimers DEF ReturnStarting
<1>3. CASE ~(p = timer /\ needed)
  <2>1. p \in timers => p \in timers'
    BY DEF ReturnStarting
  <2>2. task'[p] = task[p] /\ Live(p)
    BY <1>1, <1>3, NoTimers DEF ReturnStarting, Live
  <2> QED BY <2>1, <2>2 DEF TimersInv
<1> QED BY <1>2, <1>3

\* _finish cancels every timer of the call and starts the terminal one.
LEMMA FinishTimers ==
    ASSUME TypeOK, TimersInv, NEW t, NEW c, NEW state \in Terminal, NEW owned,
           Finish(t, c, state, owned)
    PROVE  TimersInv'
<1>1. CASE call.id # c
  BY <1>1, ReturnTimers DEF Finish
<1>2. CASE call.id = c
  <2> SUFFICES ASSUME NEW p \in Timers, Live(p)'
               PROVE  p \in timers' /\ task'[p].id = call'.id /\ call'.state \in Needing[p]
    BY DEF TimersInv
  <2>1. CASE p = "terminal"
    BY <1>2, <2>1, NoTimers DEF Finish, Needing, TypeOK
  <2>2. CASE p # "terminal"
    <3>1. p \in MediaTimers \cup {"ending"} /\ p \in Tasks
      BY <2>2, NoTimers DEF Timers, MediaTimers
    <3>2. p # t /\ p \notin CancelledBy(t, MediaTimers \cup {"ending"})
      BY <1>2, <2>2, <3>1 DEF Finish, Live, LivePoints, Idle
    <3>3. task'[p] = task[p]
      BY <1>2, <2>2, <3>1, <3>2 DEF Finish
    <3>4. p \in timers
      BY <3>3 DEF TimersInv, Live
    <3> QED BY <3>1, <3>2, <3>4 DEF CancelledBy
  <2> QED BY <2>1, <2>2
<1> QED BY <1>1, <1>2

LEMMA StartTimers ==
    ASSUME TypeOK, TimersInv, NEW c \in Calls, StartStep(c)
    PROVE  TimersInv'
<1>1. CASE StartCall(c)
  <2>1. \A p \in Timers : Live(p) => p \in CancelledBy(c, {"terminal"})
    <3> SUFFICES ASSUME NEW p \in Timers, Live(p) PROVE p \in CancelledBy(c, {"terminal"})
      OBVIOUS
    <3>1. p \in timers /\ call.state \in Needing[p] /\ call.state \notin Active
      BY <1>1 DEF TimersInv, StartCall
    <3>2. p = "terminal"
      BY <3>1 DEF Needing, Timers, Active, Calling
    <3> QED BY <3>1, <3>2, NoTimers DEF CancelledBy
  <2> QED BY <1>1, <2>1, NoTimers, GotoTimers DEF StartCall
<1>2. CASE AudioPrepared(c)
  BY <1>2, NoTimers, MoveTimers DEF AudioPrepared
<1>3. CASE AudioFailed(c)
  BY <1>3, FinishTimers DEF AudioFailed, Terminal
<1>4. CASE DialCancelled(c)
  BY <1>4, ReturnTimers DEF DialCancelled
<1>5. CASE Dial(c)
  <2>1. CASE RateAllows
    BY <1>5, <2>1, NoTimers, MoveTimers DEF Dial
  <2>2. CASE ~RateAllows
    BY <1>5, <2>2, FinishTimers DEF Dial, Terminal
  <2> QED BY <2>1, <2>2
<1>6. CASE Dialed(c)
  BY <1>6, StartingTimers DEF Dialed, IsCurrent, Needing, Timers
<1>7. CASE DialFailed(c)
  BY <1>7, NoTimers, MoveTimers DEF DialFailed, Move
<1>8. CASE DialAborted(c)
  BY <1>8, FinishTimers DEF DialAborted, Terminal
<1> QED BY <1>1, <1>2, <1>3, <1>4, <1>5, <1>6, <1>7, <1>8 DEF StartStep

\* A hang-up cancels the ring timer and the audio deadline.
LEMMA BeginHangupTimers ==
    ASSUME TypeOK, TimersInv, NEW t, NEW c, BeginHangup(t, c), call.state \in Active \ {"ending"}
    PROVE  TimersInv'
<1> SUFFICES \A p \in Timers : Live(p) => p = t \/ p \in CancelledBy(t, MediaTimers)
  BY GotoTimers DEF BeginHangup, LivePoints
<1> TAKE p \in Timers
<1> HAVE Live(p)
<1>1. p \in timers /\ call.state \in Needing[p]
  BY DEF TimersInv
<1>2. p \in MediaTimers
  BY <1>1 DEF Needing, Timers, Active, Calling, Terminal, MediaTimers
<1> QED BY <1>1, <1>2 DEF CancelledBy

LEMMA HangupTimers ==
    ASSUME TypeOK, TimersInv, HangupStep
    PROVE  TimersInv'
<1>1. ASSUME NEW h \in Hangups, Hangup(h)
      PROVE  TimersInv'
  <2> DEFINE c == task[h].id
  <2>1. CASE ~IsCurrent(c, Active \ {"ending"})
    BY <1>1, <2>1, ReturnTimers DEF Hangup
  <2>2. CASE IsCurrent(c, Active \ {"ending"}) /\ ~sipCallStarted
    BY <1>1, <2>2, FinishTimers DEF Hangup, Terminal
  <2>3. CASE IsCurrent(c, Active \ {"ending"}) /\ sipCallStarted
    BY <1>1, <2>3, BeginHangupTimers DEF Hangup, IsCurrent
  <2> QED BY <2>1, <2>2, <2>3
<1>2. ASSUME NEW h \in Hangups, NEW c \in Calls, HangupRequest(h, c)
      PROVE  TimersInv'
  BY <1>2, NoTimers, MoveTimers DEF HangupRequest, Move
<1>3. ASSUME NEW t \in Channels \cup {"audio"}, HangupAfterAudio(t)
      PROVE  TimersInv'
  <2>1. CASE ~IsCurrent(task[t].id, {"connected"})
    BY <1>3, <2>1, ReturnTimers DEF HangupAfterAudio
  <2>2. CASE IsCurrent(task[t].id, {"connected"})
    BY <1>3, <2>2, BeginHangupTimers DEF HangupAfterAudio, IsCurrent, Active
  <2> QED BY <2>1, <2>2
<1>4. ASSUME NEW t \in Hangups \cup Channels \cup {"audio"}, HangupSent(t)
      PROVE  TimersInv'
  BY <1>4, StartingTimers DEF HangupSent, IsCurrent, Needing, Timers
<1>5. ASSUME NEW t \in Hangups \cup Channels \cup {"audio"}, HangupFailed(t)
      PROVE  TimersInv'
  BY <1>5, FinishTimers DEF HangupFailed, Terminal
<1> QED BY <1>1, <1>2, <1>3, <1>4, <1>5 DEF HangupStep

LEMMA EventTimers ==
    ASSUME TypeOK, TimersInv, NEW ch \in Channels, EventStep(ch)
    PROVE  TimersInv'
<1>1. ASSUME NEW state \in Calling, CallProgress(ch, state)
      PROVE  TimersInv'
  <2>1. call'.id = call.id /\ call'.state = state /\ UNCHANGED <<task, timers>>
    BY <1>1 DEF CallProgress, TypeOK
  <2>2. \A p \in Timers : call.state \in Needing[p] => state \in Needing[p]
    BY <1>1 DEF CallProgress, Needing, Timers, Calling, Terminal
  <2> QED BY <2>1, <2>2 DEF TimersInv, Live
<1>2. CASE CallEstablished(ch)
  BY <1>2, NoTimers, MoveTimers DEF CallEstablished, Move
<1>3. CASE AudioEof(ch)
  BY <1>3, NoTimers, MoveTimers DEF AudioEof, Move
<1>4. CASE CallIncoming(ch)
  BY <1>4, NoTimers, MoveTimers DEF CallIncoming, Move
<1>5. ASSUME NEW reason \in {"busy", "no_answer", "failed"}, CallClosed(ch, reason)
      PROVE  TimersInv'
  BY <1>5, FinishTimers DEF CallClosed, Terminal
<1>6. CASE OnEstablished(ch)
  <2> DEFINE c == task[ch].id
  <2>1. CASE ~IsCurrent(c, Calling)
    BY <1>6, <2>1, ReturnTimers DEF OnEstablished
  <2>2. CASE IsCurrent(c, Calling) /\ prepared = None
    BY <1>6, <2>2, NoTimers, MoveTimers DEF OnEstablished
  <2>3. CASE IsCurrent(c, Calling) /\ prepared # None
    <3>1. \A p \in Timers : Live(p) => p \in CancelledBy(ch, {"ring"})
      BY <2>3, NoTimers, OneTimerNeeded DEF TimersInv, IsCurrent, CancelledBy
    <3> QED BY <1>6, <2>3, <3>1, NoTimers, GotoTimers DEF OnEstablished
  <2> QED BY <2>1, <2>2, <2>3
<1>7. CASE AudioStarted(ch)
  BY <1>7, StartingTimers DEF AudioStarted, IsCurrent, Needing, Timers
<1>8. CASE AudioStartFailed(ch)
  BY <1>8, NoTimers, MoveTimers DEF AudioStartFailed, Move
<1>9. CASE EstablishedAborted(ch)
  BY <1>9, FinishTimers DEF EstablishedAborted, Terminal
<1>10. CASE RejectIncoming(ch)
  BY <1>10, NoTimers, ReturnTimers, MoveTimers DEF RejectIncoming
<1>11. CASE IncomingRejected(ch)
  BY <1>11, ReturnTimers DEF IncomingRejected
<1> QED BY <1>1, <1>2, <1>3, <1>4, <1>5, <1>6, <1>7, <1>8, <1>9, <1>10, <1>11
        DEF EventStep

LEMMA TimerTimers ==
    ASSUME TypeOK, TimersInv, TimerStep
    PROVE  TimersInv'
<1>0. {"ring", "audio", "ending", "terminal"} = Timers /\ Timers \subseteq Tasks
  BY NoTimers DEF Timers
<1>1. CASE RingElapsed
  <2>1. Live("ring")
    BY <1>1 DEF RingElapsed, At, Live, LivePoints
  <2> QED BY <1>0, <1>1, <2>1, GotoTimers DEF RingElapsed, Move, TimersInv
<1>2. CASE RingTimeout
  <2>1. CASE ~IsCurrent(task["ring"].id, Calling)
    BY <1>2, <2>1, ReturnTimers DEF RingTimeout
  <2>2. CASE IsCurrent(task["ring"].id, Calling)
    <3>1. \A p \in Timers : Live(p) => p = "ring"
      BY <2>2, OneTimerNeeded DEF TimersInv, IsCurrent
    <3> QED BY <1>2, <2>2, <3>1, GotoTimers DEF RingTimeout, LivePoints
  <2> QED BY <2>1, <2>2
<1>3. ASSUME NEW state \in {"no_answer", "failed"}, RingHangupDone(state)
      PROVE  TimersInv'
  BY <1>3, FinishTimers DEF RingHangupDone, Terminal
<1>4. CASE AudioDeadline
  <2>1. Live("audio")
    BY <1>4 DEF AudioDeadline, At, Live, LivePoints
  <2> QED BY <1>0, <1>4, <2>1, GotoTimers DEF AudioDeadline, Move, TimersInv
<1>5. CASE EndingFallback
  BY <1>5, FinishTimers DEF EndingFallback, Terminal
<1>6. CASE TerminalShown
  <2>1. Live("terminal")
    BY <1>6 DEF TerminalShown, At, Live, LivePoints
  <2>2. CASE ~IsCurrent(task["terminal"].id, Terminal)
    BY <1>6, <2>2, MoveTimers DEF TerminalShown, LivePoints
  <2>3. CASE IsCurrent(task["terminal"].id, Terminal)
    <3>1. \A p \in Timers : Live(p) => p = "terminal"
      BY <2>3, OneTimerNeeded DEF TimersInv, IsCurrent
    <3>2. call'.id = call.id /\ call'.state \in Needing["terminal"]
      BY <1>6, <2>3 DEF TerminalShown, Needing, Terminal, TypeOK
    <3> QED BY <1>0, <1>6, <2>1, <2>3, <3>1, <3>2, GotoTimers DEF TerminalShown, TimersInv
  <2> QED BY <2>2, <2>3
<1>7. CASE TerminalReset
  <2>1. CASE ~IsCurrent(task["terminal"].id, {"ended"})
    BY <1>7, <2>1, MoveTimers DEF TerminalReset, LivePoints
  <2>2. CASE IsCurrent(task["terminal"].id, {"ended"})
    <3>1. \A p \in Timers : Live(p) => p = "terminal"
      BY <2>2, OneTimerNeeded DEF TimersInv, IsCurrent, Terminal
    <3> QED BY <1>7, <2>2, <3>1, GotoTimers DEF TerminalReset, LivePoints
  <2> QED BY <2>1, <2>2
<1> QED BY <1>1, <1>2, <1>3, <1>4, <1>5, <1>6, <1>7 DEF TimerStep

LEMMA ServiceTimers ==
    ASSUME TypeOK, TimersInv, ServiceStep
    PROVE  TimersInv'
<1>1. CASE ShutdownRequest
  BY <1>1, NoTimers, MoveTimers DEF ShutdownRequest, Move
<1>2. CASE Shutdown
  <2>1. \A p \in Timers : Live(p) => p \in CancelledBy("shutdown", Timers)
    BY NoTimers DEF TimersInv, CancelledBy
  <2> QED BY <1>2, <2>1, NoTimers, GotoTimers DEF Shutdown
<1>3. CASE ShutdownDone
  BY <1>3, NoTimers, MoveTimers DEF ShutdownDone
<1>4. CASE AdapterRestart
  <2>1. \A p \in Timers : task'[p] = task[p]
    BY <1>4, NoTimers DEF AdapterRestart
  <2> QED BY <1>4, <2>1 DEF AdapterRestart, TimersInv, Live
<1>5. CASE ExpireAttempt
  BY <1>5 DEF ExpireAttempt, TimersInv, Live
<1>6. CASE StopCancels
  <2>1. \A p \in Timers : task'[p] = task[p]
    BY <1>6, NoTimers DEF StopCancels
  <2> QED BY <1>6, <2>1 DEF StopCancels, TimersInv, Live
<1>7. ASSUME NEW ch \in Channels, CancelEnds(ch) PROVE TimersInv'
  BY <1>7, NoTimers, MoveTimers DEF CancelEnds, Move
<1> QED BY <1>1, <1>2, <1>3, <1>4, <1>5, <1>6, <1>7 DEF ServiceStep

LEMMA TimersStep == TypeOK /\ TimersInv /\ [Next]_vars => TimersInv'
<1>1. ASSUME TimersInv, UNCHANGED vars PROVE TimersInv'
  BY <1>1 DEF vars, TimersInv, Live
<1> QED BY <1>1, StartTimers, EventTimers, TimerTimers, HangupTimers, ServiceTimers DEF Next

LEMMA TimersInit == Init => TimersInv
BY NoTimers DEF Init, TimersInv, Live, LivePoints, Idle

\* A timer that runs is referenced, is about the call in the slot, and is one that
\* its state needs: none of an earlier call runs on, none escapes _finish.
THEOREM TimersCorrect == Spec => []TimersReferenced
<1>1. Init => TypeOK /\ TimersInv
  BY TypeInit, TimersInit
<1>2. TypeOK /\ TimersInv /\ [Next]_vars => (TypeOK /\ TimersInv)'
  BY TypeStep, TimersStep
<1>3. TimersInv => TimersReferenced
  BY TimersInvMeaning
<1> QED BY <1>1, <1>2, <1>3, PTL DEF Spec

(***************************************************************************)
(* The second check of the rate limit                                      *)
(***************************************************************************)

Waiting(c) == task[c].at \in {"prepare", "lock"}

\* A step that neither sends a request to wait nor places a call.
LEMMA CheckKept ==
    ASSUME SecondCheckRedundant, UNCHANGED attempts,
           \A c \in Calls : Waiting(c)' => Waiting(c),
           call'.state \in Calling => call.id = call'.id /\ call.state \in Calling
    PROVE  SecondCheckRedundant'
BY DEF SecondCheckRedundant, Waiting, At, IsCurrent, RateAllows

LEMMA GotoWaits ==
    ASSUME NEW t, NEW at, NEW c, NEW S, Goto(t, at, c, S),
           t \in Calls => at \notin {"prepare", "lock"}
    PROVE  \A p \in Calls : Waiting(p)' => Waiting(p)
BY DEF Goto, Waiting, Idle, Tasks

LEMMA ReturnWaits ==
    ASSUME NEW t, Return(t)
    PROVE  \A p \in Calls : Waiting(p)' => Waiting(p)
BY GotoWaits DEF Return

LEMMA StartingWaits ==
    ASSUME NEW timer \in Timers, NEW t, NEW c, NEW needed, ReturnStarting(timer, t, c, needed)
    PROVE  \A p \in Calls : Waiting(p)' => Waiting(p)
BY NoTimers DEF ReturnStarting, Waiting, Idle, Tasks

LEMMA FinishCheck ==
    ASSUME TypeOK, SecondCheckRedundant, NEW t, NEW c, NEW state \in Terminal, NEW owned,
           Finish(t, c, state, owned), UNCHANGED attempts
    PROVE  SecondCheckRedundant'
<1>1. CASE call.id # c
  BY <1>1, ReturnWaits, CheckKept DEF Finish
<1>2. CASE call.id = c
  <2>1. \A p \in Calls : Waiting(p)' => Waiting(p)
    BY <1>2, NoTimers DEF Finish, Waiting, Idle, Tasks, Timers
  <2>2. call'.state \notin Calling
    BY <1>2 DEF Finish, TypeOK, Terminal, Calling
  <2> QED BY <2>1, <2>2, CheckKept
<1> QED BY <1>1, <1>2

LEMMA StartCheck ==
    ASSUME TypeOK, SecondCheckRedundant, NEW c \in Calls, StartStep(c)
    PROVE  SecondCheckRedundant'
<1>1. CASE StartCall(c)
  <2>1. attempts' < MaxCallsPerWindow
    BY <1>1 DEF StartCall, RateAllows
  <2> QED BY <2>1 DEF SecondCheckRedundant, RateAllows
<1>2. CASE AudioPrepared(c)
  <2>1. \A p \in Calls : Waiting(p)' => Waiting(p)
    BY <1>2 DEF AudioPrepared, Goto, Waiting, At, Tasks
  <2> QED BY <1>2, <2>1, CheckKept DEF AudioPrepared
<1>3. CASE AudioFailed(c)
  BY <1>3, FinishCheck DEF AudioFailed, Terminal
<1>4. CASE DialCancelled(c)
  BY <1>4, ReturnWaits, CheckKept DEF DialCancelled
<1>5. CASE Dial(c)
  <2>1. CASE RateAllows
    <3>1. c \in Tasks /\ call'.id = c /\ task'[c].at = "dial"
      BY <1>5, <2>1 DEF Dial, IsCurrent, Goto, TypeOK, Tasks
    <3>2. \A p \in Calls : ~((At(p, "prepare")' \/ At(p, "lock")') /\ IsCurrent(p, Calling)')
      BY <3>1 DEF At, IsCurrent
    <3> QED BY <3>2 DEF SecondCheckRedundant
  <2>2. CASE ~RateAllows
    BY <1>5, <2>2, FinishCheck DEF Dial, Terminal
  <2> QED BY <2>1, <2>2
<1>6. CASE Dialed(c)
  BY <1>6, StartingWaits, CheckKept DEF Dialed, Timers
<1>7. CASE DialFailed(c)
  BY <1>7, GotoWaits, CheckKept DEF DialFailed, Move
<1>8. CASE DialAborted(c)
  BY <1>8, FinishCheck DEF DialAborted, Terminal
<1> QED BY <1>1, <1>2, <1>3, <1>4, <1>5, <1>6, <1>7, <1>8 DEF StartStep

LEMMA BeginHangupCheck ==
    ASSUME TypeOK, SecondCheckRedundant, NEW t, NEW c, BeginHangup(t, c), UNCHANGED attempts
    PROVE  SecondCheckRedundant'
<1>1. call'.state \notin Calling
  BY DEF BeginHangup, TypeOK, Calling
<1> QED BY <1>1, GotoWaits, CheckKept DEF BeginHangup

LEMMA HangupCheck ==
    ASSUME TypeOK, SecondCheckRedundant, HangupStep
    PROVE  SecondCheckRedundant'
<1>1. ASSUME NEW h \in Hangups, Hangup(h)
      PROVE  SecondCheckRedundant'
  <2> DEFINE c == task[h].id
  <2>1. CASE ~IsCurrent(c, Active \ {"ending"})
    BY <1>1, <2>1, ReturnWaits, CheckKept DEF Hangup
  <2>2. CASE IsCurrent(c, Active \ {"ending"}) /\ ~sipCallStarted
    BY <1>1, <2>2, FinishCheck DEF Hangup, Terminal
  <2>3. CASE IsCurrent(c, Active \ {"ending"}) /\ sipCallStarted
    BY <1>1, <2>3, BeginHangupCheck DEF Hangup
  <2> QED BY <2>1, <2>2, <2>3
<1>2. ASSUME NEW h \in Hangups, NEW c \in Calls, HangupRequest(h, c)
      PROVE  SecondCheckRedundant'
  BY <1>2, TasksAssumption, GotoWaits, CheckKept DEF HangupRequest, Move
<1>3. ASSUME NEW t \in Channels \cup {"audio"}, HangupAfterAudio(t)
      PROVE  SecondCheckRedundant'
  <2>1. CASE ~IsCurrent(task[t].id, {"connected"})
    BY <1>3, <2>1, ReturnWaits, CheckKept DEF HangupAfterAudio
  <2>2. CASE IsCurrent(task[t].id, {"connected"})
    BY <1>3, <2>2, BeginHangupCheck DEF HangupAfterAudio
  <2> QED BY <2>1, <2>2
<1>4. ASSUME NEW t \in Hangups \cup Channels \cup {"audio"}, HangupSent(t)
      PROVE  SecondCheckRedundant'
  BY <1>4, StartingWaits, CheckKept DEF HangupSent, Timers
<1>5. ASSUME NEW t \in Hangups \cup Channels \cup {"audio"}, HangupFailed(t)
      PROVE  SecondCheckRedundant'
  BY <1>5, FinishCheck DEF HangupFailed, Terminal
<1> QED BY <1>1, <1>2, <1>3, <1>4, <1>5 DEF HangupStep

LEMMA EventCheck ==
    ASSUME TypeOK, SecondCheckRedundant, NEW ch \in Channels, EventStep(ch)
    PROVE  SecondCheckRedundant'
<1>0. ch \notin Calls
  BY TasksAssumption
<1>1. ASSUME NEW state \in Calling, CallProgress(ch, state)
      PROVE  SecondCheckRedundant'
  BY <1>1, CheckKept DEF CallProgress, TypeOK, Waiting
<1>2. CASE CallEstablished(ch) \/ AudioEof(ch) \/ CallIncoming(ch)
  BY <1>0, <1>2, GotoWaits, CheckKept DEF CallEstablished, AudioEof, CallIncoming, Move
<1>3. ASSUME NEW reason \in {"busy", "no_answer", "failed"}, CallClosed(ch, reason)
      PROVE  SecondCheckRedundant'
  BY <1>3, FinishCheck DEF CallClosed, Terminal
<1>4. CASE OnEstablished(ch)
  <2>1. \A p \in Calls : Waiting(p)' => Waiting(p)
    BY <1>0, <1>4, ReturnWaits, GotoWaits DEF OnEstablished
  <2>2. call'.state \in Calling => call' = call
    BY <1>4 DEF OnEstablished, TypeOK, Calling
  <2> QED BY <1>4, <2>1, <2>2, CheckKept DEF OnEstablished
<1>5. CASE AudioStarted(ch)
  BY <1>5, StartingWaits, CheckKept DEF AudioStarted, Timers
<1>6. CASE AudioStartFailed(ch)
  BY <1>0, <1>6, GotoWaits, CheckKept DEF AudioStartFailed, Move
<1>7. CASE EstablishedAborted(ch)
  BY <1>7, FinishCheck DEF EstablishedAborted, Terminal
<1>8. CASE RejectIncoming(ch)
  BY <1>0, <1>8, ReturnWaits, GotoWaits, CheckKept DEF RejectIncoming
<1>9. CASE IncomingRejected(ch)
  BY <1>9, ReturnWaits, CheckKept DEF IncomingRejected
<1> QED BY <1>1, <1>2, <1>3, <1>4, <1>5, <1>6, <1>7, <1>8, <1>9 DEF EventStep

LEMMA TimerCheck ==
    ASSUME TypeOK, SecondCheckRedundant, TimerStep
    PROVE  SecondCheckRedundant'
<1>0. \A t \in {"ring", "audio", "ending", "terminal"} : t \notin Calls
  BY NoTimers DEF Timers
<1>1. CASE RingElapsed \/ AudioDeadline
  BY <1>0, <1>1, GotoWaits, CheckKept DEF RingElapsed, AudioDeadline, Move
<1>2. CASE RingTimeout
  <2>1. \A p \in Calls : Waiting(p)' => Waiting(p)
    BY <1>0, <1>2, ReturnWaits, GotoWaits DEF RingTimeout
  <2>2. call'.state \in Calling => call' = call
    BY <1>2 DEF RingTimeout, TypeOK, Calling
  <2> QED BY <1>2, <2>1, <2>2, CheckKept DEF RingTimeout
<1>3. ASSUME NEW state \in {"no_answer", "failed"}, RingHangupDone(state)
      PROVE  SecondCheckRedundant'
  BY <1>3, FinishCheck DEF RingHangupDone, Terminal
<1>4. CASE EndingFallback
  BY <1>4, FinishCheck DEF EndingFallback, Terminal
<1>5. CASE TerminalShown \/ TerminalReset
  <2>1. \A p \in Calls : Waiting(p)' => Waiting(p)
    BY <1>0, <1>5, GotoWaits DEF TerminalShown, TerminalReset
  <2>2. call'.state \in Calling => call' = call
    BY <1>5 DEF TerminalShown, TerminalReset, NoCall, TypeOK, Calling
  <2> QED BY <1>5, <2>1, <2>2, CheckKept DEF TerminalShown, TerminalReset
<1> QED BY <1>1, <1>2, <1>3, <1>4, <1>5 DEF TimerStep

LEMMA ServiceCheck ==
    ASSUME TypeOK, SecondCheckRedundant, ServiceStep
    PROVE  SecondCheckRedundant'
<1>0. "shutdown" \notin Calls
  BY TasksAssumption
<1>1. CASE ShutdownRequest \/ Shutdown \/ ShutdownDone
  BY <1>0, <1>1, GotoWaits, CheckKept DEF ShutdownRequest, Shutdown, ShutdownDone, Move
<1>2. CASE AdapterRestart
  <2>1. \A p \in Calls : Waiting(p)' => Waiting(p)
    BY <1>2 DEF AdapterRestart, Waiting, Idle, Tasks
  <2> QED BY <1>2, <2>1, CheckKept DEF AdapterRestart
<1>3. CASE ExpireAttempt
  BY <1>3, BoundsAssumption
     DEF ExpireAttempt, SecondCheckRedundant, At, IsCurrent, RateAllows, TypeOK
<1>4. CASE StopCancels
  <2>1. \A p \in Calls : Waiting(p)' => Waiting(p)
    BY <1>4 DEF StopCancels, Waiting, Tasks
  <2> QED BY <1>4, <2>1, CheckKept DEF StopCancels
<1>5. ASSUME NEW ch \in Channels, CancelEnds(ch) PROVE SecondCheckRedundant'
  BY <1>5, GotoWaits, CheckKept, TasksAssumption DEF CancelEnds, Move
<1> QED BY <1>1, <1>2, <1>3, <1>4, <1>5 DEF ServiceStep

\* The check that start_call makes after the preparation never refuses: only the
\* call in the slot can have been recorded since the first one.
THEOREM SecondCheckCorrect == Spec => []SecondCheckRedundant
<1>1. Init => TypeOK /\ SecondCheckRedundant
  BY TypeInit, NoneAssumption DEF Init, SecondCheckRedundant, IsCurrent, NoCall, Tasks
<1>2. ASSUME TypeOK, SecondCheckRedundant, [Next]_vars PROVE SecondCheckRedundant'
  <2>1. CASE UNCHANGED vars
    BY <1>2, <2>1 DEF vars, SecondCheckRedundant, At, IsCurrent, RateAllows
  <2>2. CASE Next
    BY <1>2, <2>2, StartCheck, EventCheck, TimerCheck, HangupCheck, ServiceCheck DEF Next
  <2> QED BY <1>2, <2>1, <2>2
<1> QED BY <1>1, <1>2, TypeStep, PTL DEF Spec
=============================================================================
