------------------------- MODULE CallManager_proofs --------------------------
(* Theorems about CallManager for any calls, requests, channels and bounds. *)
EXTENDS CallManager, TLAPS

USE DEF media, counts

(***************************************************************************)
(* The tasks                                                               *)
(***************************************************************************)

\* Which control points each kind of task has, and that any task may be idle.
LEMMA Kinds ==
    /\ \A c \in Calls : PointsOf(c) = StartPoints
    /\ \A h \in Hangups : PointsOf(h) = HangupPoints
    /\ \A ch \in Channels : PointsOf(ch) = EventPoints
    /\ PointsOf("ring") = {"idle", "sleep", "lock", "ring_hangup"}
    /\ PointsOf("audio") = {"idle", "sleep", "eof_lock", "hangup"}
    /\ PointsOf("ending") = {"idle", "sleep"}
    /\ PointsOf("terminal") = {"idle", "hold", "reset"}
    /\ PointsOf("shutdown") = {"idle", "lock", "stop", "gather", "stopped"}
    /\ \A t \in Tasks : "idle" \in PointsOf(t)
<1>1. /\ \A c \in Calls : PointsOf(c) = StartPoints
      /\ \A h \in Hangups : PointsOf(h) = HangupPoints
      /\ \A ch \in Channels : PointsOf(ch) = EventPoints
  BY TasksAssumption DEF PointsOf
<1>2. /\ PointsOf("ring") = {"idle", "sleep", "lock", "ring_hangup"}
      /\ PointsOf("audio") = {"idle", "sleep", "eof_lock", "hangup"}
      /\ PointsOf("ending") = {"idle", "sleep"}
      /\ PointsOf("terminal") = {"idle", "hold", "reset"}
  BY TasksAssumption DEF PointsOf, Timers, TimerPoints
<1>3. PointsOf("shutdown") = {"idle", "lock", "stop", "gather", "stopped"}
  BY TasksAssumption DEF PointsOf, Timers
<1>4. \A t \in Tasks : "idle" \in PointsOf(t)
  BY <1>1, <1>2, <1>3 DEF Tasks, Timers, StartPoints, HangupPoints, EventPoints
<1> QED BY <1>1, <1>2, <1>3, <1>4

TaskTypes ==
    /\ task \in [Tasks -> [at : Points, id : Calls \cup {None}]]
    /\ \A t \in Tasks : task[t].at \in PointsOf(t)

LEMMA GotoType ==
    ASSUME TaskTypes, NEW t \in Tasks, NEW at \in Points, at \in PointsOf(t),
           NEW c \in Calls \cup {None}, NEW cancelled, Goto(t, at, c, cancelled)
    PROVE  TaskTypes'
<1>1. task' \in [Tasks -> [at : Points, id : Calls \cup {None}]]
  BY DEF TaskTypes, Goto, Idle, Points
<1>2. \A p \in Tasks : task'[p].at \in PointsOf(p)
  <2> SUFFICES ASSUME NEW p \in Tasks PROVE task'[p].at \in PointsOf(p)
    OBVIOUS
  <2>1. CASE p = t
    BY <2>1 DEF Goto
  <2>2. CASE p # t /\ p \in cancelled
    BY <2>2, Kinds DEF Goto, Idle
  <2>3. CASE p # t /\ p \notin cancelled
    BY <2>3 DEF Goto, TaskTypes
  <2> QED BY <2>1, <2>2, <2>3
<1> QED BY <1>1, <1>2 DEF TaskTypes

LEMMA ReturnType ==
    ASSUME TypeOK, NEW t \in Tasks, Return(t)
    PROVE  TaskTypes' /\ operationLock' \in Tasks \cup {None}
<1>1. TaskTypes'
  BY GotoType, Kinds DEF Return, TypeOK, TaskTypes, Points
<1> QED BY <1>1 DEF Return, Released, TypeOK

LEMMA FinishType ==
    ASSUME TypeOK, NEW t \in Tasks, NEW c \in Calls \cup {None},
           NEW state \in Active \cup Terminal, NEW owned,
           Finish(t, c, state, owned), UNCHANGED <<attempts, restarts>>
    PROVE  TypeOK'
<1>1. CASE call.id # c
  BY <1>1, ReturnType DEF Finish, TypeOK, TaskTypes
<1>2. CASE call.id = c
  <2>1. TaskTypes'
    <3>1. task' \in [Tasks -> [at : Points, id : Calls \cup {None}]]
      BY <1>2 DEF Finish, TypeOK, Idle, Points
    <3>2. \A p \in Tasks : task'[p].at \in PointsOf(p)
      BY <1>2, Kinds DEF Finish, TypeOK, Idle
    <3> QED BY <3>1, <3>2 DEF TaskTypes
  <2> QED BY <1>2, <2>1 DEF Finish, TypeOK, TaskTypes, Released, Timers, Tasks
<1> QED BY <1>1, <1>2

(***************************************************************************)
(* Type correctness                                                        *)
(***************************************************************************)

LEMMA StartType ==
    ASSUME TypeOK, NEW c \in Calls, StartStep(c)
    PROVE  TypeOK'
<1> USE DEF StartPoints
<1>0. c \in Tasks
  BY DEF Tasks
<1>1. CASE StartCall(c)
  <2>1. TaskTypes'
    BY <1>0, <1>1, GotoType, Kinds DEF StartCall, TypeOK, TaskTypes, Points
  <2> QED BY <1>1, <2>1 DEF StartCall, TypeOK, TaskTypes, Active, Calling
<1>2. CASE AudioPrepared(c)
  BY <1>0, <1>2, GotoType, Kinds DEF AudioPrepared, TypeOK, TaskTypes, Points
<1>3. CASE AudioFailed(c)
  BY <1>0, <1>3, FinishType DEF AudioFailed, Terminal
<1>4. CASE Dial(c)
  <2>1. IsCurrent(c, Calling)
    BY <1>4 DEF Dial
  <2>2. CASE ~RateAllows
    BY <1>0, <1>4, <2>2, FinishType DEF Dial, Terminal
  <2>3. CASE RateAllows
    <3>1. TaskTypes'
      BY <1>0, <1>4, <2>3, GotoType, Kinds DEF Dial, TypeOK, TaskTypes, Points
    <3>2. attempts' \in 0..MaxCallsPerWindow
      BY <1>4, <2>3, BoundsAssumption DEF Dial, RateAllows, TypeOK
    <3> QED BY <1>0, <1>4, <2>3, <3>1, <3>2 DEF Dial, TypeOK, TaskTypes
  <2> QED BY <2>2, <2>3
<1>5. CASE Dialed(c)
  <2>1. task' \in [Tasks -> [at : Points, id : Calls \cup {None}]]
    BY <1>0, <1>5 DEF Dialed, ReturnStarting, TypeOK, Idle, Points
  <2>2. \A p \in Tasks : task'[p].at \in PointsOf(p)
    BY <1>0, <1>5, Kinds DEF Dialed, ReturnStarting, TypeOK, Idle
  <2> QED BY <1>5, <2>1, <2>2 DEF Dialed, ReturnStarting, TypeOK, Released, Timers
<1>6. CASE DialFailed(c)
  <2>1. TaskTypes'
    <3>1. task[c].id \in Calls \cup {None} /\ "abort" \in PointsOf(c)
      BY <1>0, Kinds DEF TypeOK
    <3> QED BY <1>0, <1>6, <3>1, GotoType DEF DialFailed, Move, TypeOK, TaskTypes, Points
  <2> QED BY <1>6, <2>1 DEF DialFailed, Move, TypeOK, TaskTypes
<1>7. CASE DialAborted(c)
  BY <1>0, <1>7, FinishType DEF DialAborted, Terminal
<1>8. CASE DialCancelled(c)
  BY <1>0, <1>8, ReturnType DEF DialCancelled, TypeOK, TaskTypes
<1> QED BY <1>1, <1>2, <1>3, <1>4, <1>5, <1>6, <1>7, <1>8 DEF StartStep

LEMMA BeginHangupType ==
    ASSUME TypeOK, NEW t \in Tasks, NEW c \in Calls \cup {None},
           "hangup" \in PointsOf(t), BeginHangup(t, c)
    PROVE  /\ TaskTypes'
           /\ call' \in [id : Calls \cup {None}, state : Active \cup Terminal \cup {"idle"}]
           /\ timers' \subseteq Timers
           /\ operationLock' \in Tasks \cup {None}
<1>1. TaskTypes'
  BY GotoType DEF BeginHangup, TypeOK, TaskTypes, Points
<1> QED BY <1>1 DEF BeginHangup, TypeOK, Active

LEMMA HangupType ==
    ASSUME TypeOK, HangupStep
    PROVE  TypeOK'
<1>1. ASSUME NEW h \in Hangups, Hangup(h)
      PROVE  TypeOK'
  <2>0. h \in Tasks /\ task[h].id \in Calls \cup {None}
    BY DEF Tasks, TypeOK
  <2>1. CASE ~IsCurrent(task[h].id, Active \ {"ending"})
    BY <1>1, <2>0, <2>1, ReturnType DEF Hangup, TypeOK, TaskTypes
  <2>2. CASE IsCurrent(task[h].id, Active \ {"ending"}) /\ ~sipCallStarted
    BY <1>1, <2>0, <2>2, FinishType DEF Hangup, Terminal
  <2>3. CASE IsCurrent(task[h].id, Active \ {"ending"}) /\ sipCallStarted
    BY <1>1, <2>0, <2>3, BeginHangupType, Kinds DEF Hangup, HangupPoints, TypeOK, TaskTypes
  <2> QED BY <2>1, <2>2, <2>3
<1>2. ASSUME NEW h \in Hangups, NEW c \in Calls, HangupRequest(h, c)
      PROVE  TypeOK'
  <2>0. h \in Tasks
    BY DEF Tasks
  <2> QED BY <1>2, <2>0, GotoType, Kinds DEF HangupRequest, Move, HangupPoints, TypeOK, TaskTypes, Points
<1>3. ASSUME NEW t \in Channels \cup {"audio"}, HangupAfterAudio(t)
      PROVE  TypeOK'
  <2>0. t \in Tasks /\ task[t].id \in Calls \cup {None} /\ "hangup" \in PointsOf(t)
    BY Kinds DEF Tasks, Timers, TypeOK, EventPoints
  <2> QED BY <1>3, <2>0, ReturnType, BeginHangupType DEF HangupAfterAudio, TypeOK, TaskTypes
<1>4. ASSUME NEW t \in Hangups \cup Channels \cup {"audio"}, HangupSent(t)
      PROVE  TypeOK'
  <2>0. t \in Tasks
    BY DEF Tasks, Timers
  <2>1. task' \in [Tasks -> [at : Points, id : Calls \cup {None}]]
    BY <1>4, <2>0 DEF HangupSent, ReturnStarting, TypeOK, Idle, Points
  <2>2. \A p \in Tasks : task'[p].at \in PointsOf(p)
    BY <1>4, Kinds DEF HangupSent, ReturnStarting, TypeOK, Idle
  <2> QED BY <1>4, <2>1, <2>2 DEF HangupSent, ReturnStarting, TypeOK, Released, Timers
<1>5. ASSUME NEW t \in Hangups \cup Channels \cup {"audio"}, HangupFailed(t)
      PROVE  TypeOK'
  BY <1>5, FinishType DEF HangupFailed, TypeOK, Tasks, Timers, Terminal
<1> QED BY <1>1, <1>2, <1>3, <1>4, <1>5 DEF HangupStep

LEMMA EventType ==
    ASSUME TypeOK, NEW ch \in Channels, EventStep(ch)
    PROVE  TypeOK'
<1>0. /\ ch \in Tasks
      /\ task[ch].id \in Calls \cup {None}
      /\ call.id \in Calls \cup {None}
      /\ "est_lock" \in PointsOf(ch) /\ "est_lock" \in Points
      /\ "est_audio" \in PointsOf(ch) /\ "est_audio" \in Points
      /\ "est_abort" \in PointsOf(ch) /\ "est_abort" \in Points
      /\ "eof_lock" \in PointsOf(ch) /\ "eof_lock" \in Points
      /\ "inc_lock" \in PointsOf(ch) /\ "inc_lock" \in Points
      /\ "inc_hangup" \in PointsOf(ch) /\ "inc_hangup" \in Points
  <2>1. PointsOf(ch) = EventPoints
    BY Kinds
  <2> QED BY <2>1 DEF Tasks, TypeOK, EventPoints, Points
<1>1. ASSUME NEW state \in Calling, CallProgress(ch, state)
      PROVE  TypeOK'
  BY <1>1 DEF CallProgress, TypeOK, Active
<1>2. CASE CallEstablished(ch)
  <2>1. TaskTypes'
    BY <1>0, <1>2, GotoType DEF CallEstablished, Move, TypeOK, TaskTypes
  <2> QED BY <1>2, <2>1 DEF CallEstablished, Move, TypeOK, TaskTypes
<1>3. CASE AudioEof(ch)
  <2>1. TaskTypes'
    BY <1>0, <1>3, GotoType DEF AudioEof, Move, TypeOK, TaskTypes
  <2> QED BY <1>3, <2>1 DEF AudioEof, Move, TypeOK, TaskTypes
<1>4. CASE CallIncoming(ch)
  <2>1. TaskTypes'
    BY <1>0, <1>4, GotoType DEF CallIncoming, Move, TypeOK, TaskTypes
  <2> QED BY <1>4, <2>1 DEF CallIncoming, Move, TypeOK, TaskTypes
<1>5. ASSUME NEW reason \in {"busy", "no_answer", "failed"}, CallClosed(ch, reason)
      PROVE  TypeOK'
  BY <1>0, <1>5, FinishType DEF CallClosed, Terminal
<1>6. CASE OnEstablished(ch)
  <2>1. TaskTypes' /\ operationLock' \in Tasks \cup {None}
    <3>1. ASSUME NEW point \in {"est_abort", "est_audio"}, NEW cancelled,
                 operationLock' = ch, Goto(ch, point, task[ch].id, cancelled)
          PROVE  TaskTypes' /\ operationLock' \in Tasks \cup {None}
      BY <1>0, <3>1, GotoType DEF TypeOK, TaskTypes
    <3> QED BY <1>0, <1>6, <3>1, ReturnType DEF OnEstablished
  <2> QED BY <1>6, <2>1 DEF OnEstablished, TypeOK, TaskTypes, Active
<1>7. CASE AudioStarted(ch)
  <2>1. task' \in [Tasks -> [at : Points, id : Calls \cup {None}]]
    BY <1>0, <1>7 DEF AudioStarted, ReturnStarting, TypeOK, Idle, Points
  <2>2. \A p \in Tasks : task'[p].at \in PointsOf(p)
    BY <1>7, Kinds DEF AudioStarted, ReturnStarting, TypeOK, Idle
  <2> QED BY <1>7, <2>1, <2>2 DEF AudioStarted, ReturnStarting, TypeOK, Released, Timers
<1>8. CASE AudioStartFailed(ch)
  <2>1. TaskTypes'
    BY <1>0, <1>8, GotoType DEF AudioStartFailed, Move, TypeOK, TaskTypes
  <2> QED BY <1>8, <2>1 DEF AudioStartFailed, Move, TypeOK, TaskTypes
<1>9. CASE EstablishedAborted(ch)
  BY <1>0, <1>9, FinishType DEF EstablishedAborted, Terminal
<1>10. CASE RejectIncoming(ch)
  <2>1. TaskTypes' /\ operationLock' \in Tasks \cup {None}
    <3>1. ASSUME operationLock' = ch, Goto(ch, "inc_hangup", None, {})
          PROVE  TaskTypes' /\ operationLock' \in Tasks \cup {None}
      BY <1>0, <3>1, GotoType DEF TypeOK, TaskTypes
    <3> QED BY <1>0, <1>10, <3>1, ReturnType DEF RejectIncoming
  <2> QED BY <1>10, <2>1 DEF RejectIncoming, TypeOK, TaskTypes
<1>11. CASE IncomingRejected(ch)
  BY <1>0, <1>11, ReturnType DEF IncomingRejected, TypeOK, TaskTypes
<1> QED BY <1>1, <1>2, <1>3, <1>4, <1>5, <1>6, <1>7, <1>8, <1>9, <1>10, <1>11
        DEF EventStep

LEMMA TimerType ==
    ASSUME TypeOK, TimerStep
    PROVE  TypeOK'
<1>0. /\ Timers \subseteq Tasks
      /\ \A t \in Timers : task[t].id \in Calls \cup {None}
  BY DEF Tasks, TypeOK
<1>1. CASE RingElapsed
  BY <1>0, <1>1, GotoType, Kinds DEF RingElapsed, Move, TypeOK, TaskTypes, Points, Timers
<1>2. CASE RingTimeout
  <2>1. TaskTypes' /\ operationLock' \in Tasks \cup {None}
    <3>1. "ring" \in Tasks /\ "ring_hangup" \in PointsOf("ring") /\ "ring_hangup" \in Points
      BY Kinds DEF Tasks, Timers, Points
    <3>2. CASE Return("ring")
      BY <1>2, <3>1, <3>2, ReturnType DEF RingTimeout
    <3>3. CASE Goto("ring", "ring_hangup", task["ring"].id, {}) /\ operationLock' = "ring"
      BY <1>0, <3>1, <3>3, GotoType DEF TypeOK, TaskTypes, Timers
    <3> QED BY <1>2, <3>2, <3>3 DEF RingTimeout
  <2> QED BY <1>2, <2>1 DEF RingTimeout, TypeOK, TaskTypes, Active
<1>3. ASSUME NEW state \in {"no_answer", "failed"}, RingHangupDone(state)
      PROVE  TypeOK'
  BY <1>0, <1>3, FinishType DEF RingHangupDone, Timers, Terminal
<1>4. CASE AudioDeadline
  BY <1>0, <1>4, GotoType, Kinds DEF AudioDeadline, Move, TypeOK, TaskTypes, Points, Timers
<1>5. CASE EndingFallback
  BY <1>0, <1>5, FinishType DEF EndingFallback, Timers, Terminal
<1>6. CASE TerminalShown
  <2>1. TaskTypes'
    BY <1>0, <1>6, GotoType, Kinds DEF TerminalShown, TypeOK, TaskTypes, Points, Timers
  <2> QED BY <1>6, <2>1 DEF TerminalShown, TypeOK, TaskTypes, Terminal
<1>7. CASE TerminalReset
  <2>1. TaskTypes'
    BY <1>0, <1>7, GotoType, Kinds DEF TerminalReset, TypeOK, TaskTypes, Points, Timers
  <2> QED BY <1>7, <2>1 DEF TerminalReset, TypeOK, TaskTypes, NoCall
<1> QED BY <1>1, <1>2, <1>3, <1>4, <1>5, <1>6, <1>7 DEF TimerStep

LEMMA ServiceType ==
    ASSUME TypeOK, ServiceStep
    PROVE  TypeOK'
<1>0. "shutdown" \in Tasks
  BY DEF Tasks
<1>1. CASE ShutdownRequest
  BY <1>0, <1>1, GotoType, Kinds DEF ShutdownRequest, Move, TypeOK, TaskTypes, Points
<1>2. CASE Shutdown
  <2>1. TaskTypes'
    BY <1>0, <1>2, GotoType, Kinds DEF Shutdown, TypeOK, TaskTypes, Points
  <2> QED BY <1>0, <1>2, <2>1 DEF Shutdown, TypeOK, TaskTypes
<1>3. CASE ShutdownDone
  <2>1. TaskTypes'
    BY <1>0, <1>3, GotoType, Kinds DEF ShutdownDone, TypeOK, TaskTypes, Points
  <2> QED BY <1>3, <2>1 DEF ShutdownDone, Released, TypeOK, TaskTypes
<1>4. CASE AdapterRestart
  <2>1. task' \in [Tasks -> [at : Points, id : Calls \cup {None}]]
    BY <1>4 DEF AdapterRestart, TypeOK, Idle, Points
  <2>2. \A p \in Tasks : task'[p].at \in PointsOf(p)
    BY <1>4, Kinds DEF AdapterRestart, TypeOK, Idle
  <2>3. restarts' \in 0..MaxRestarts
    BY <1>4, BoundsAssumption DEF AdapterRestart, TypeOK
  <2> QED BY <1>4, <2>1, <2>2, <2>3 DEF AdapterRestart, Released, TypeOK
<1>5. CASE ExpireAttempt
  <2>1. attempts' \in 0..MaxCallsPerWindow
    BY <1>5, BoundsAssumption DEF ExpireAttempt, TypeOK
  <2> QED BY <1>5, <2>1 DEF ExpireAttempt, TypeOK
<1>6. CASE StopCancels
  <2>1. TaskTypes'
    BY <1>6, Kinds DEF StopCancels, TypeOK, TaskTypes, EventPoints, Points
  <2> QED BY <1>6, <2>1 DEF StopCancels, TypeOK, TaskTypes
<1>7. ASSUME NEW ch \in Channels, CancelEnds(ch) PROVE TypeOK'
  <2>1. ch \in Tasks /\ "stopped" \in PointsOf(ch)
    BY Kinds DEF Tasks, EventPoints
  <2>2. "stopped" \in Points
    BY DEF Points
  <2>3. Goto(ch, "stopped", None, {}) /\ TaskTypes
    BY <1>7 DEF CancelEnds, Move, TypeOK, TaskTypes
  <2>4. TaskTypes'
    BY <2>1, <2>2, <2>3, GotoType
  <2> QED BY <1>7, <2>4 DEF CancelEnds, Move, TypeOK, TaskTypes
<1> QED BY <1>1, <1>2, <1>3, <1>4, <1>5, <1>6, <1>7 DEF ServiceStep

LEMMA TypeInit == Init => TypeOK
<1> SUFFICES ASSUME Init PROVE TypeOK
  OBVIOUS
<1>1. TaskTypes
  <2>1. task \in [Tasks -> [at : Points, id : Calls \cup {None}]]
    BY DEF Init, Idle, Points
  <2>2. \A p \in Tasks : task[p].at \in PointsOf(p)
    BY Kinds DEF Init, Idle, StartPoints
  <2> QED BY <2>1, <2>2 DEF TaskTypes
<1>2. call \in [id : Calls \cup {None}, state : Active \cup Terminal \cup {"idle"}]
  BY DEF Init, NoCall
<1>3. attempts \in 0..MaxCallsPerWindow /\ restarts \in 0..MaxRestarts
  BY BoundsAssumption DEF Init
<1> QED BY <1>1, <1>2, <1>3 DEF Init, TypeOK, TaskTypes

LEMMA TypeStep == TypeOK /\ [Next]_vars => TypeOK'
<1>1. ASSUME TypeOK, UNCHANGED vars PROVE TypeOK'
  BY <1>1 DEF vars, TypeOK
<1> QED BY <1>1, StartType, EventType, TimerType, HangupType, ServiceType DEF Next

\* Every variable keeps its type, and every task stays at the control points of
\* its kind, whatever calls, requests and channels there are.
THEOREM TypeCorrect == Spec => []TypeOK
BY TypeInit, TypeStep, PTL DEF Spec

(***************************************************************************)
(* The operation lock                                                      *)
(***************************************************************************)

\* A step that only lets tasks of S out of the lock.
LEMMA LockKept ==
    ASSUME TypeOK, LockOwned, NEW S, operationLock' = Released(S),
           \A p \in Tasks \cap S : task'[p].at \notin Holding,
           \A p \in Tasks \ S : task'[p].at \in Holding <=> task[p].at \in Holding
    PROVE  LockOwned'
BY NoneAssumption DEF LockOwned, Released

\* A step in which task t takes the free lock.
LEMMA LockTaken ==
    ASSUME TypeOK, LockOwned, NEW t \in Tasks, operationLock = None, operationLock' = t,
           task'[t].at \in Holding,
           \A p \in Tasks \ {t} : task'[p].at \in Holding => task[p].at \in Holding
    PROVE  LockOwned'
BY NoneAssumption DEF LockOwned

\* A step that leaves the lock and moves tasks that are, and stay, outside it.
LEMMA LockUnused ==
    ASSUME TypeOK, LockOwned, UNCHANGED operationLock,
           \A p \in Tasks : task'[p].at \in Holding <=> task[p].at \in Holding
    PROVE  LockOwned'
BY DEF LockOwned

LEMMA ReturnLock ==
    ASSUME TypeOK, LockOwned, NEW t \in Tasks, Return(t)
    PROVE  LockOwned'
<1>1. \A p \in Tasks \cap {t} : task'[p].at \notin Holding
  BY DEF Return, Goto, Holding
<1>2. \A p \in Tasks \ {t} : task'[p] = task[p]
  BY DEF Return, Goto
<1> QED BY <1>1, <1>2, LockKept DEF Return

LEMMA FinishLock ==
    ASSUME TypeOK, LockOwned, NEW t \in Tasks, NEW c, NEW state, NEW owned,
           Finish(t, c, state, owned)
    PROVE  LockOwned'
<1>1. CASE call.id # c
  BY <1>1, ReturnLock DEF Finish
<1>2. CASE call.id = c
  <2> DEFINE S == CancelledBy(t, MediaTimers \cup {"ending"}) \cup {t}
  <2>1. task["terminal"].at \notin Holding
    BY Kinds DEF TypeOK, Tasks, Timers, Holding
  <2>2. \A p \in Tasks \cap S : task'[p].at \notin Holding
    BY <1>2 DEF Finish, Idle, Holding
  <2>3. \A p \in Tasks \ S : task'[p].at \in Holding <=> task[p].at \in Holding
    BY <1>2, <2>1 DEF Finish, Holding
  <2>4. operationLock' = Released(S)
    BY <1>2 DEF Finish
  <2> HIDE DEF S
  <2> QED BY <2>2, <2>3, <2>4, LockKept
<1> QED BY <1>1, <1>2

\* The point to which a task goes is outside the lock, and so was the task.
LEMMA GotoOutside ==
    ASSUME TypeOK, LockOwned, NEW t \in Tasks, NEW at, NEW c, NEW S,
           Goto(t, at, c, S), UNCHANGED operationLock,
           task[t].at \notin Holding, at \notin Holding,
           \A p \in Tasks \cap S : task[p].at \notin Holding
    PROVE  LockOwned'
<1>1. \A p \in Tasks : task'[p].at \in Holding <=> task[p].at \in Holding
  BY DEF Goto, Idle, Holding
<1> QED BY <1>1, LockUnused

\* Task t takes the lock; the timers it cancels leave it alone.
LEMMA GotoInside ==
    ASSUME TypeOK, LockOwned, NEW t \in Tasks, NEW at \in Holding, NEW c, NEW S,
           Goto(t, at, c, S), operationLock = None, operationLock' = t
    PROVE  LockOwned'
<1>1. task'[t].at \in Holding
  BY DEF Goto
<1>2. \A p \in Tasks \ {t} : task'[p].at \in Holding => task[p].at \in Holding
  BY DEF Goto, Idle, Holding
<1> QED BY <1>1, <1>2, LockTaken

LEMMA StartLock ==
    ASSUME TypeOK, LockOwned, NEW c \in Calls, StartStep(c)
    PROVE  LockOwned'
<1>0. c \in Tasks
  BY DEF Tasks
<1>1. CASE StartCall(c)
  <2>1. \A p \in Tasks \cap CancelledBy(c, {"terminal"}) : task[p].at \notin Holding
    BY Kinds DEF CancelledBy, TypeOK, Holding
  <2> QED BY <1>0, <1>1, <2>1, GotoOutside DEF StartCall, At, Holding
<1>2. CASE AudioPrepared(c)
  BY <1>0, <1>2, GotoOutside DEF AudioPrepared, At, Holding
<1>3. CASE AudioFailed(c)
  BY <1>0, <1>3, FinishLock DEF AudioFailed
<1>4. CASE Dial(c)
  BY <1>0, <1>4, FinishLock, GotoInside DEF Dial, Holding
<1>5. CASE Dialed(c)
  <2>1. task["ring"].at \notin Holding \/ operationLock = "ring"
    BY DEF LockOwned, Tasks, Timers
  <2>2. operationLock = c /\ c # "ring"
    BY <1>0, <1>5, TasksAssumption DEF Dialed, ReturnStarting, At, Holding, LockOwned, Timers
  <2>3. \A p \in Tasks \cap {c} : task'[p].at \notin Holding
    BY <1>5 DEF Dialed, ReturnStarting, Idle, Holding
  <2>4. \A p \in Tasks \ {c} : task'[p].at \in Holding <=> task[p].at \in Holding
    BY <1>5, <2>1, <2>2 DEF Dialed, ReturnStarting, Holding
  <2> QED BY <1>5, <2>3, <2>4, LockKept DEF Dialed, ReturnStarting
<1>6. CASE DialFailed(c)
  <2>1. \A p \in Tasks : task'[p].at \in Holding <=> task[p].at \in Holding
    BY <1>6 DEF DialFailed, Move, At, Goto, Holding
  <2> QED BY <1>6, <2>1, LockUnused DEF DialFailed, Move
<1>7. CASE DialAborted(c)
  BY <1>0, <1>7, FinishLock DEF DialAborted
<1>8. CASE DialCancelled(c)
  BY <1>0, <1>8, ReturnLock DEF DialCancelled
<1> QED BY <1>1, <1>2, <1>3, <1>4, <1>5, <1>6, <1>7, <1>8 DEF StartStep

LEMMA HangupLock ==
    ASSUME TypeOK, LockOwned, HangupStep
    PROVE  LockOwned'
<1>1. ASSUME NEW h \in Hangups, Hangup(h)
      PROVE  LockOwned'
  <2>0. h \in Tasks
    BY DEF Tasks
  <2> QED BY <1>1, <2>0, ReturnLock, FinishLock, GotoInside DEF Hangup, BeginHangup, Holding
<1>2. ASSUME NEW h \in Hangups, NEW c \in Calls, HangupRequest(h, c)
      PROVE  LockOwned'
  <2>0. h \in Tasks
    BY DEF Tasks
  <2> QED BY <1>2, <2>0, GotoOutside DEF HangupRequest, Move, At, Holding
<1>3. ASSUME NEW t \in Channels \cup {"audio"}, HangupAfterAudio(t)
      PROVE  LockOwned'
  <2>0. t \in Tasks
    BY DEF Tasks, Timers
  <2> QED BY <1>3, <2>0, ReturnLock, GotoInside DEF HangupAfterAudio, BeginHangup, Holding
<1>4. ASSUME NEW t \in Hangups \cup Channels \cup {"audio"}, HangupSent(t)
      PROVE  LockOwned'
  <2>0. t \in Tasks /\ t # "ending"
    BY TasksAssumption DEF Tasks, Timers
  <2>1. task["ending"].at \notin Holding
    BY Kinds DEF TypeOK, Tasks, Timers, Holding
  <2>2. \A p \in Tasks \cap {t} : task'[p].at \notin Holding
    BY <1>4 DEF HangupSent, ReturnStarting, Idle, Holding
  <2>3. \A p \in Tasks \ {t} : task'[p].at \in Holding <=> task[p].at \in Holding
    BY <1>4, <2>1 DEF HangupSent, ReturnStarting, Holding
  <2> QED BY <1>4, <2>2, <2>3, LockKept DEF HangupSent, ReturnStarting
<1>5. ASSUME NEW t \in Hangups \cup Channels \cup {"audio"}, HangupFailed(t)
      PROVE  LockOwned'
  BY <1>5, FinishLock DEF HangupFailed, Tasks, Timers
<1> QED BY <1>1, <1>2, <1>3, <1>4, <1>5 DEF HangupStep

LEMMA EventLock ==
    ASSUME TypeOK, LockOwned, NEW ch \in Channels, EventStep(ch)
    PROVE  LockOwned'
<1>0. ch \in Tasks
  BY DEF Tasks
<1>1. ASSUME NEW state \in Calling, CallProgress(ch, state)
      PROVE  LockOwned'
  BY <1>1 DEF CallProgress, LockOwned
<1>2. CASE CallEstablished(ch)
  BY <1>0, <1>2, GotoOutside DEF CallEstablished, Move, Receives, At, Holding
<1>3. CASE AudioEof(ch)
  BY <1>0, <1>3, GotoOutside DEF AudioEof, Move, Receives, At, Holding
<1>4. CASE CallIncoming(ch)
  BY <1>0, <1>4, GotoOutside DEF CallIncoming, Move, At, Holding
<1>5. ASSUME NEW reason \in {"busy", "no_answer", "failed"}, CallClosed(ch, reason)
      PROVE  LockOwned'
  BY <1>0, <1>5, FinishLock DEF CallClosed
<1>6. CASE OnEstablished(ch)
  BY <1>0, <1>6, ReturnLock, GotoInside DEF OnEstablished, Holding
<1>7. CASE AudioStarted(ch)
  <2>1. task["audio"].at \notin Holding \/ operationLock = "audio"
    BY DEF LockOwned, Tasks, Timers
  <2>2. operationLock = ch /\ ch # "audio"
    BY <1>0, <1>7, TasksAssumption DEF AudioStarted, ReturnStarting, At, Holding, LockOwned, Timers
  <2>3. \A p \in Tasks \cap {ch} : task'[p].at \notin Holding
    BY <1>7 DEF AudioStarted, ReturnStarting, Idle, Holding
  <2>4. \A p \in Tasks \ {ch} : task'[p].at \in Holding <=> task[p].at \in Holding
    BY <1>7, <2>1, <2>2 DEF AudioStarted, ReturnStarting, Holding
  <2> QED BY <1>7, <2>3, <2>4, LockKept DEF AudioStarted, ReturnStarting
<1>8. CASE AudioStartFailed(ch)
  <2>1. \A p \in Tasks : task'[p].at \in Holding <=> task[p].at \in Holding
    BY <1>8 DEF AudioStartFailed, Move, At, Goto, Holding
  <2> QED BY <1>8, <2>1, LockUnused DEF AudioStartFailed, Move
<1>9. CASE EstablishedAborted(ch)
  BY <1>0, <1>9, FinishLock DEF EstablishedAborted
<1>10. CASE RejectIncoming(ch)
  BY <1>0, <1>10, ReturnLock, GotoInside DEF RejectIncoming, Holding
<1>11. CASE IncomingRejected(ch)
  BY <1>0, <1>11, ReturnLock DEF IncomingRejected
<1> QED BY <1>1, <1>2, <1>3, <1>4, <1>5, <1>6, <1>7, <1>8, <1>9, <1>10, <1>11
        DEF EventStep

LEMMA TimerLock ==
    ASSUME TypeOK, LockOwned, TimerStep
    PROVE  LockOwned'
<1>0. Timers \subseteq Tasks
  BY DEF Tasks
<1>1. CASE RingElapsed
  BY <1>0, <1>1, GotoOutside DEF RingElapsed, Move, At, Holding, Timers
<1>2. CASE RingTimeout
  BY <1>0, <1>2, ReturnLock, GotoInside DEF RingTimeout, Holding, Timers
<1>3. ASSUME NEW state \in {"no_answer", "failed"}, RingHangupDone(state)
      PROVE  LockOwned'
  BY <1>0, <1>3, FinishLock DEF RingHangupDone, Timers
<1>4. CASE AudioDeadline
  BY <1>0, <1>4, GotoOutside DEF AudioDeadline, Move, At, Holding, Timers
<1>5. CASE EndingFallback
  BY <1>0, <1>5, FinishLock DEF EndingFallback, Timers
<1>6. CASE TerminalShown
  BY <1>0, <1>6, GotoOutside DEF TerminalShown, At, Holding, Timers
<1>7. CASE TerminalReset
  BY <1>0, <1>7, GotoOutside DEF TerminalReset, At, Holding, Timers
<1> QED BY <1>1, <1>2, <1>3, <1>4, <1>5, <1>6, <1>7 DEF TimerStep

LEMMA ServiceLock ==
    ASSUME TypeOK, LockOwned, ServiceStep
    PROVE  LockOwned'
<1>0. "shutdown" \in Tasks
  BY DEF Tasks
<1>1. CASE ShutdownRequest
  BY <1>0, <1>1, GotoOutside DEF ShutdownRequest, Move, At, Holding
<1>2. CASE Shutdown
  BY <1>0, <1>2, GotoInside DEF Shutdown, Holding
<1>3. CASE ShutdownDone
  <2> DEFINE S == {"shutdown"}
  <2>1. \A p \in Tasks \cap S : task'[p].at \notin Holding
    BY <1>3 DEF ShutdownDone, Goto, Idle, Holding
  <2>2. \A p \in Tasks \ S : task'[p].at \in Holding <=> task[p].at \in Holding
    BY <1>3 DEF ShutdownDone, Goto
  <2>3. operationLock' = Released(S)
    BY <1>3 DEF ShutdownDone
  <2> HIDE DEF S
  <2> QED BY <2>1, <2>2, <2>3, LockKept
<1>4. CASE AdapterRestart
  <2>1. \A p \in Tasks \cap Channels : task'[p].at \notin Holding
    BY <1>4 DEF AdapterRestart, Idle, Holding
  <2>2. \A p \in Tasks \ Channels : task'[p].at \in Holding <=> task[p].at \in Holding
    BY <1>4 DEF AdapterRestart
  <2> QED BY <1>4, <2>1, <2>2, LockKept DEF AdapterRestart
<1>5. CASE ExpireAttempt
  BY <1>5 DEF ExpireAttempt, LockOwned
<1>6. CASE StopCancels
  <2>1. operationLock = "shutdown" /\ "shutdown" \notin Channels
    BY <1>0, <1>6, TasksAssumption DEF StopCancels, LockOwned, At, Holding
  <2>2. \A p \in Channels : task[p].at \notin Holding
    BY <2>1 DEF LockOwned, Tasks
  <2>3. \A p \in Tasks : task'[p].at \in Holding <=> task[p].at \in Holding
    BY <1>6, <2>2 DEF StopCancels, At, Holding
  <2> QED BY <1>6, <2>3 DEF StopCancels, LockOwned
<1>7. ASSUME NEW ch \in Channels, CancelEnds(ch) PROVE LockOwned'
  BY <1>7, GotoOutside DEF CancelEnds, Move, At, Holding, Tasks
<1> QED BY <1>1, <1>2, <1>3, <1>4, <1>5, <1>6, <1>7 DEF ServiceStep

LEMMA LockInit == Init => LockOwned
BY NoneAssumption DEF Init, LockOwned, Idle, Holding

LEMMA LockStep == TypeOK /\ LockOwned /\ [Next]_vars => LockOwned'
<1>1. ASSUME LockOwned, UNCHANGED vars PROVE LockOwned'
  BY <1>1 DEF vars, LockOwned
<1> QED BY <1>1, StartLock, EventLock, TimerLock, HangupLock, ServiceLock DEF Next

\* The operation lock is held exactly by the task that is in one of the sections
\* it protects: cancellation and failure always give it back.
THEOREM LockCorrect == Spec => []LockOwned
<1>1. TypeOK /\ LockOwned /\ [Next]_vars => (TypeOK /\ LockOwned)'
  BY TypeStep, LockStep
<1>2. Init => TypeOK /\ LockOwned
  BY TypeInit, LockInit
<1> QED BY <1>1, <1>2, PTL DEF Spec

(***************************************************************************)
(* The SIP call, the commands in flight and the WAV files                  *)
(***************************************************************************)

Safe == SipCallOwned /\ CommandsHitOwnCall /\ WavsOwned

\* A step that moves task t, cancels tasks that place no call, and leaves the
\* SIP call and the files as they are.
LEMMA MoveSafe ==
    ASSUME TypeOK, Safe, NEW t \in Tasks, NEW at, NEW c, NEW S, S \cap Calls = {},
           Goto(t, at, c, S), UNCHANGED <<sipCallStarted, prepared, wavs>>,
           call'.id = call.id, sipCallStarted => call'.state \in Active,
           at \in CommandPoints /\ sipCallStarted => call.id = c,
           at = "inc_hangup" => ~sipCallStarted,
           t \in Calls => task[t].at # "lock" /\ at \notin {"new", "prepare", "lock"}
    PROVE  Safe'
<1>1. SipCallOwned'
  BY DEF Safe, SipCallOwned
<1>2. CommandsHitOwnCall'
  BY DEF Safe, CommandsHitOwnCall, Goto, Idle, CommandPoints
<1>3. WavsOwned'
  <2>1. \A p \in Calls : At(p, "lock")' <=> At(p, "lock")
    BY DEF Goto, At, Tasks
  <2>2. prepared # None => task'[prepared].at \notin {"new", "prepare", "lock"}
    BY DEF Goto, Safe, WavsOwned, TypeOK, Tasks
  <2> QED BY <2>1, <2>2 DEF Safe, WavsOwned
<1> QED BY <1>1, <1>2, <1>3 DEF Safe

LEMMA ReturnSafe ==
    ASSUME TypeOK, Safe, NEW t \in Tasks, Return(t),
           UNCHANGED <<call, sipCallStarted, prepared, wavs>>,
           t \in Calls => task[t].at # "lock"
    PROVE  Safe'
<1>1. sipCallStarted => call'.state \in Active
  BY DEF Safe, SipCallOwned
<1> QED BY <1>1, MoveSafe DEF Return, CommandPoints

LEMMA CancelledNoCalls ==
    ASSUME TypeOK, NEW t, NEW S
    PROVE  CancelledBy(t, S) \cap Calls = {}
BY TasksAssumption DEF CancelledBy, TypeOK

\* _finish by a task that has no WAV of its own, or that cleans it up.
LEMMA FinishSafe ==
    ASSUME TypeOK, Safe, NEW t \in Tasks, NEW c \in Calls \cup {None}, NEW state,
           NEW owned, Finish(t, c, state, owned),
           owned = IF t \in Calls /\ task[t].at = "lock" THEN {t} ELSE {}
    PROVE  Safe'
<1> DEFINE Waiting == {p \in Calls : At(p, "lock")}
<1>0. t \in Calls => task'[t].at = "idle"
  BY TasksAssumption DEF Finish, Return, Goto, Idle, Timers
<1>1. \A p \in Calls : p # t => task'[p] = task[p]
  BY CancelledNoCalls, TasksAssumption DEF Finish, Return, Goto, Tasks, Timers
<1>2. Waiting' = Waiting \ owned
  BY <1>0, <1>1 DEF At
<1>3. wavs = Waiting \cup ({prepared} \ {None}) /\ prepared \notin Waiting
  BY NoneAssumption DEF Safe, WavsOwned, At, TypeOK, Tasks
<1>4. prepared \notin owned
  BY <1>3 DEF At
<1>5. CASE call.id # c
  <2>1. UNCHANGED <<call, sipCallStarted, prepared>> /\ wavs' = wavs \ owned
    BY <1>5 DEF Finish
  <2>2. WavsOwned'
    <3>1. wavs' = Waiting' \cup ({prepared'} \ {None})
      BY <1>2, <1>3, <1>4, <2>1
    <3>2. prepared' # None => task'[prepared'].at \notin {"new", "prepare", "lock"}
      BY <1>0, <1>1, <2>1 DEF Safe, WavsOwned, TypeOK
    <3> QED BY <3>1, <3>2 DEF WavsOwned
  <2>3. CommandsHitOwnCall'
    BY <1>5, <2>1 DEF Finish, Return, Goto, Safe, CommandsHitOwnCall, CommandPoints
  <2> QED BY <2>1, <2>2, <2>3 DEF Safe, SipCallOwned
<1>6. CASE call.id = c
  <2>1. /\ sipCallStarted' = FALSE /\ prepared' = None
        /\ wavs' = wavs \ (owned \cup {prepared})
    BY <1>6 DEF Finish
  <2>2. WavsOwned'
    BY <1>2, <1>3, <2>1, NoneAssumption DEF WavsOwned, Tasks
  <2>3. CommandsHitOwnCall'
    BY <1>6, <2>1 DEF CommandsHitOwnCall, Finish, Idle
  <2> QED BY <2>1, <2>2, <2>3 DEF Safe, SipCallOwned
<1> QED BY <1>5, <1>6

\* No command is in flight while the operation lock is free.
LEMMA NoCommand ==
    ASSUME LockOwned, operationLock = None, NEW t \in Tasks
    PROVE  task[t].at \notin CommandPoints \cup {"inc_hangup"}
BY NoneAssumption DEF LockOwned, Holding, CommandPoints

\* While no SIP call is up, a step that keeps it so cannot break Safe by moving
\* tasks that own no file.
LEMMA StartSafe ==
    ASSUME TypeOK, LockOwned, Safe, NEW c \in Calls, StartStep(c)
    PROVE  Safe'
<1>0. c \in Tasks /\ c # None
  BY NoneAssumption DEF Tasks
<1>1. CASE StartCall(c)
  <2>1. prepared = None /\ prepared' = None /\ sipCallStarted' = FALSE
    BY <1>1 DEF StartCall, Safe, SipCallOwned
  <2>2. CommandsHitOwnCall'
    BY <2>1 DEF CommandsHitOwnCall
  <2>3. \A p \in Calls : At(p, "lock")' <=> At(p, "lock")
    BY <1>0, <1>1, CancelledNoCalls DEF StartCall, Goto, At, Tasks
  <2> QED BY <1>1, <2>1, <2>2, <2>3 DEF StartCall, Safe, SipCallOwned, WavsOwned
<1>2. CASE AudioPrepared(c)
  <2>1. SipCallOwned'
    BY <1>2 DEF AudioPrepared, Safe, SipCallOwned
  <2>2. CommandsHitOwnCall'
    BY <1>0, <1>2 DEF AudioPrepared, Goto, Safe, CommandsHitOwnCall, CommandPoints
  <2>3. prepared # c
    BY <1>0, <1>2 DEF AudioPrepared, At, Safe, WavsOwned
  <2>4. {p \in Calls : At(p, "lock")}' = {p \in Calls : At(p, "lock")} \cup {c}
    BY <1>0, <1>2 DEF AudioPrepared, Goto, At, Tasks
  <2>5. prepared # None => task'[prepared].at \notin {"new", "prepare", "lock"}
    BY <1>2, <2>3 DEF AudioPrepared, Goto, Safe, WavsOwned, TypeOK, Tasks
  <2> QED BY <1>2, <2>1, <2>2, <2>4, <2>5 DEF AudioPrepared, Safe, WavsOwned
<1>3. CASE AudioFailed(c)
  BY <1>0, <1>3, FinishSafe DEF AudioFailed, At
<1>4. CASE Dial(c)
  <2>1. IsCurrent(c, Calling)
    BY <1>4 DEF Dial
  <2>2. CASE ~RateAllows
    BY <1>0, <1>4, <2>2, FinishSafe DEF Dial, At
  <2>3. CASE RateAllows
    <3>1. /\ UNCHANGED <<call, wavs>> /\ prepared' = c /\ sipCallStarted' = TRUE
          /\ Goto(c, "dial", c, {}) /\ operationLock = None
      BY <1>4, <2>3 DEF Dial
    <3>2. SipCallOwned'
      BY <1>0, <2>1, <3>1 DEF SipCallOwned, IsCurrent, Active
    <3>3. CommandsHitOwnCall'
      BY <2>1, <3>1, NoCommand DEF Goto, CommandsHitOwnCall, IsCurrent
    <3>4. prepared = None \/ prepared = c
      BY <2>1 DEF Safe, SipCallOwned, IsCurrent
    <3>5. {p \in Calls : At(p, "lock")}' = {p \in Calls : At(p, "lock")} \ {c}
      BY <1>0, <3>1 DEF Goto, At, Tasks
    <3>6. At(c, "lock") /\ task'[c].at = "dial"
      BY <1>0, <1>4, <3>1 DEF Dial, Goto
    <3> QED BY <1>0, <3>1, <3>2, <3>3, <3>4, <3>5, <3>6 DEF Safe, WavsOwned
  <2> QED BY <2>2, <2>3
<1>5. CASE Dialed(c)
  <2>1. \A p \in Calls : p # c => task'[p] = task[p]
    BY <1>5, TasksAssumption DEF Dialed, ReturnStarting, Tasks, Timers
  <2>2. task[c].at = "dial" /\ task'[c].at = "idle"
    BY <1>0, <1>5 DEF Dialed, ReturnStarting, At, Idle
  <2>3. WavsOwned'
    <3>1. \A p \in Calls : At(p, "lock")' <=> At(p, "lock")
      BY <2>1, <2>2 DEF At
    <3>2. prepared # None => task'[prepared].at \notin {"new", "prepare", "lock"}
      BY <2>1, <2>2 DEF Safe, WavsOwned, TypeOK
    <3> QED BY <1>5, <3>1, <3>2 DEF Dialed, ReturnStarting, Safe, WavsOwned
  <2>4. CommandsHitOwnCall'
    BY <1>5 DEF Dialed, ReturnStarting, Idle, Safe, CommandsHitOwnCall, CommandPoints
  <2> QED BY <1>5, <2>3, <2>4 DEF Dialed, ReturnStarting, Safe, SipCallOwned
<1>6. CASE DialFailed(c)
  <2>1. sipCallStarted => call.state \in Active /\ call.id = task[c].id
    BY <1>0, <1>6 DEF DialFailed, Move, At, Safe, SipCallOwned, WavsOwned, CommandsHitOwnCall,
                      CommandPoints
  <2> QED BY <1>0, <1>6, <2>1, MoveSafe DEF DialFailed, Move, At
<1>7. CASE DialAborted(c)
  BY <1>0, <1>7, FinishSafe DEF DialAborted, At
<1>8. CASE DialCancelled(c)
  <2>1. /\ UNCHANGED <<call, sipCallStarted, prepared>> /\ wavs' = wavs \ {c}
        /\ Goto(c, "idle", None, {})
    BY <1>8 DEF DialCancelled, Return
  <2>2. prepared # c
    BY <1>0, <1>8 DEF DialCancelled, At, Safe, WavsOwned
  <2>3. {p \in Calls : At(p, "lock")}' = {p \in Calls : At(p, "lock")} \ {c}
    BY <1>0, <2>1 DEF Goto, At, Tasks
  <2>4. prepared # None => task'[prepared].at \notin {"new", "prepare", "lock"}
    BY <2>1, <2>2 DEF Goto, Safe, WavsOwned, TypeOK, Tasks
  <2>5. CommandsHitOwnCall'
    BY <2>1 DEF Goto, Safe, CommandsHitOwnCall, CommandPoints
  <2> QED BY <2>1, <2>2, <2>3, <2>4, <2>5 DEF Safe, SipCallOwned, WavsOwned
<1> QED BY <1>1, <1>2, <1>3, <1>4, <1>5, <1>6, <1>7, <1>8 DEF StartStep

LEMMA HangupSafe ==
    ASSUME TypeOK, LockOwned, Safe, HangupStep
    PROVE  Safe'
<1>1. ASSUME NEW h \in Hangups, Hangup(h)
      PROVE  Safe'
  <2>0. h \in Tasks /\ h \notin Calls /\ task[h].id \in Calls \cup {None}
    BY TasksAssumption DEF Tasks, TypeOK
  <2>1. CASE ~IsCurrent(task[h].id, Active \ {"ending"})
    BY <1>1, <2>0, <2>1, ReturnSafe DEF Hangup
  <2>2. CASE IsCurrent(task[h].id, Active \ {"ending"}) /\ ~sipCallStarted
    BY <1>1, <2>0, <2>2, FinishSafe DEF Hangup
  <2>3. CASE IsCurrent(task[h].id, Active \ {"ending"}) /\ sipCallStarted
    <3>1. BeginHangup(h, task[h].id) /\ UNCHANGED <<sipCallStarted, prepared, wavs>>
      BY <1>1, <2>3 DEF Hangup
    <3>2. call'.id = call.id /\ call'.state \in Active /\ call.id = task[h].id
      BY <2>3, <3>1 DEF BeginHangup, IsCurrent, Active, TypeOK
    <3> QED BY <2>0, <3>1, <3>2, MoveSafe, CancelledNoCalls DEF BeginHangup
  <2> QED BY <2>1, <2>2, <2>3
<1>2. ASSUME NEW h \in Hangups, NEW c \in Calls, HangupRequest(h, c)
      PROVE  Safe'
  <2>0. h \in Tasks /\ h \notin Calls
    BY TasksAssumption DEF Tasks
  <2>1. sipCallStarted => call.state \in Active
    BY DEF Safe, SipCallOwned
  <2> QED BY <1>2, <2>0, <2>1, MoveSafe DEF HangupRequest, Move, CommandPoints
<1>3. ASSUME NEW t \in Channels \cup {"audio"}, HangupAfterAudio(t)
      PROVE  Safe'
  <2>0. t \in Tasks /\ t \notin Calls
    BY TasksAssumption DEF Tasks, Timers
  <2>1. CASE ~IsCurrent(task[t].id, {"connected"})
    BY <1>3, <2>0, <2>1, ReturnSafe DEF HangupAfterAudio
  <2>2. CASE IsCurrent(task[t].id, {"connected"})
    <3>1. BeginHangup(t, task[t].id) /\ UNCHANGED <<sipCallStarted, prepared, wavs>>
      BY <1>3, <2>2 DEF HangupAfterAudio
    <3>2. call'.id = call.id /\ call'.state \in Active /\ call.id = task[t].id
      BY <2>2, <3>1 DEF BeginHangup, IsCurrent, Active, TypeOK
    <3> QED BY <2>0, <3>1, <3>2, MoveSafe, CancelledNoCalls DEF BeginHangup
  <2> QED BY <2>1, <2>2
<1>4. ASSUME NEW t \in Hangups \cup Channels \cup {"audio"}, HangupSent(t)
      PROVE  Safe'
  <2>0. \A p \in Calls : task'[p] = task[p]
    BY <1>4, TasksAssumption DEF HangupSent, ReturnStarting, Tasks, Timers
  <2>1. WavsOwned'
    BY <1>4, <2>0 DEF HangupSent, ReturnStarting, At, Safe, WavsOwned, TypeOK
  <2>2. CommandsHitOwnCall'
    BY <1>4 DEF HangupSent, ReturnStarting, Idle, Safe, CommandsHitOwnCall, CommandPoints
  <2> QED BY <1>4, <2>1, <2>2 DEF HangupSent, ReturnStarting, Safe, SipCallOwned
<1>5. ASSUME NEW t \in Hangups \cup Channels \cup {"audio"}, HangupFailed(t)
      PROVE  Safe'
  <2>0. t \in Tasks /\ t \notin Calls /\ task[t].id \in Calls \cup {None}
    BY TasksAssumption DEF Tasks, Timers, TypeOK
  <2> QED BY <1>5, <2>0, FinishSafe DEF HangupFailed
<1> QED BY <1>1, <1>2, <1>3, <1>4, <1>5 DEF HangupStep

LEMMA EventSafe ==
    ASSUME TypeOK, LockOwned, Safe, NEW ch \in Channels, EventStep(ch)
    PROVE  Safe'
<1>0. /\ ch \in Tasks /\ ch \notin Calls /\ task[ch].id \in Calls \cup {None}
      /\ call.id \in Calls \cup {None}
      /\ sipCallStarted => call.state \in Active
  BY TasksAssumption DEF Tasks, TypeOK, Safe, SipCallOwned
<1>1. ASSUME NEW state \in Calling, CallProgress(ch, state)
      PROVE  Safe'
  <2>1. call'.id = call.id /\ call'.state \in Active
    BY <1>1 DEF CallProgress, TypeOK, Active
  <2> QED BY <1>1, <2>1 DEF CallProgress, Safe, SipCallOwned, CommandsHitOwnCall, WavsOwned, At
<1>2. CASE CallEstablished(ch)
  BY <1>0, <1>2, MoveSafe DEF CallEstablished, Move, CommandPoints
<1>3. CASE AudioEof(ch)
  BY <1>0, <1>3, MoveSafe DEF AudioEof, Move, CommandPoints
<1>4. CASE CallIncoming(ch)
  BY <1>0, <1>4, MoveSafe DEF CallIncoming, Move, CommandPoints
<1>5. ASSUME NEW reason \in {"busy", "no_answer", "failed"}, CallClosed(ch, reason)
      PROVE  Safe'
  BY <1>0, <1>5, FinishSafe DEF CallClosed
<1>6. CASE OnEstablished(ch)
  <2>1. CASE ~IsCurrent(task[ch].id, Calling)
    BY <1>0, <1>6, <2>1, ReturnSafe DEF OnEstablished
  <2>2. CASE IsCurrent(task[ch].id, Calling) /\ prepared = None
    BY <1>0, <1>6, <2>2, MoveSafe DEF OnEstablished, IsCurrent
  <2>3. CASE IsCurrent(task[ch].id, Calling) /\ prepared # None
    <3>1. /\ call' = [call EXCEPT !.state = "connected"]
          /\ Goto(ch, "est_audio", task[ch].id, CancelledBy(ch, {"ring"}))
          /\ UNCHANGED <<sipCallStarted, prepared, wavs>>
      BY <1>6, <2>3 DEF OnEstablished
    <3>2. call'.id = call.id /\ call'.state \in Active /\ call.id = task[ch].id
      BY <2>3, <3>1 DEF IsCurrent, Active, TypeOK
    <3> QED BY <1>0, <3>1, <3>2, MoveSafe, CancelledNoCalls
  <2> QED BY <2>1, <2>2, <2>3
<1>7. CASE AudioStarted(ch)
  <2>0. \A p \in Calls : task'[p] = task[p]
    BY <1>7, TasksAssumption DEF AudioStarted, ReturnStarting, Tasks, Timers
  <2>1. WavsOwned'
    BY <1>7, <2>0 DEF AudioStarted, ReturnStarting, At, Safe, WavsOwned, TypeOK
  <2>2. CommandsHitOwnCall'
    BY <1>7 DEF AudioStarted, ReturnStarting, Idle, Safe, CommandsHitOwnCall, CommandPoints
  <2> QED BY <1>7, <2>1, <2>2 DEF AudioStarted, ReturnStarting, Safe, SipCallOwned
<1>8. CASE AudioStartFailed(ch)
  <2>1. sipCallStarted => call.id = task[ch].id
    BY <1>0, <1>8 DEF AudioStartFailed, Move, At, Safe, CommandsHitOwnCall, CommandPoints
  <2> QED BY <1>0, <1>8, <2>1, MoveSafe DEF AudioStartFailed, Move
<1>9. CASE EstablishedAborted(ch)
  BY <1>0, <1>9, FinishSafe DEF EstablishedAborted
<1>10. CASE RejectIncoming(ch)
  <2>1. CASE sipCallStarted
    BY <1>0, <1>10, <2>1, ReturnSafe DEF RejectIncoming
  <2>2. CASE ~sipCallStarted
    BY <1>0, <1>10, <2>2, MoveSafe DEF RejectIncoming
  <2> QED BY <2>1, <2>2
<1>11. CASE IncomingRejected(ch)
  BY <1>0, <1>11, ReturnSafe DEF IncomingRejected
<1> QED BY <1>1, <1>2, <1>3, <1>4, <1>5, <1>6, <1>7, <1>8, <1>9, <1>10, <1>11
        DEF EventStep

LEMMA TimerSafe ==
    ASSUME TypeOK, LockOwned, Safe, TimerStep
    PROVE  Safe'
<1>0. /\ \A t \in Timers : t \in Tasks /\ t \notin Calls /\ task[t].id \in Calls \cup {None}
      /\ sipCallStarted => call.state \in Active
  BY TasksAssumption DEF Tasks, TypeOK, Safe, SipCallOwned
<1>1. CASE RingElapsed
  BY <1>0, <1>1, MoveSafe DEF RingElapsed, Move, CommandPoints, Timers
<1>2. CASE RingTimeout
  <2>1. CASE ~IsCurrent(task["ring"].id, Calling)
    BY <1>0, <1>2, <2>1, ReturnSafe DEF RingTimeout, Timers
  <2>2. CASE IsCurrent(task["ring"].id, Calling)
    <3>1. /\ call' = [call EXCEPT !.state = "ending"]
          /\ Goto("ring", "ring_hangup", task["ring"].id, {})
          /\ UNCHANGED <<sipCallStarted, prepared, wavs>>
      BY <1>2, <2>2 DEF RingTimeout
    <3>2. call'.id = call.id /\ call'.state \in Active /\ call.id = task["ring"].id
      BY <2>2, <3>1 DEF IsCurrent, Active, TypeOK
    <3> QED BY <1>0, <3>1, <3>2, MoveSafe DEF Timers
  <2> QED BY <2>1, <2>2
<1>3. ASSUME NEW state \in {"no_answer", "failed"}, RingHangupDone(state)
      PROVE  Safe'
  BY <1>0, <1>3, FinishSafe DEF RingHangupDone, Timers
<1>4. CASE AudioDeadline
  BY <1>0, <1>4, MoveSafe DEF AudioDeadline, Move, CommandPoints, Timers
<1>5. CASE EndingFallback
  BY <1>0, <1>5, FinishSafe DEF EndingFallback, Timers
<1>6. CASE TerminalShown
  <2>1. CASE ~IsCurrent(task["terminal"].id, Terminal)
    BY <1>0, <1>6, <2>1, MoveSafe DEF TerminalShown, CommandPoints, Timers
  <2>2. CASE IsCurrent(task["terminal"].id, Terminal)
    <3>1. ~sipCallStarted
      BY <1>0, <2>2 DEF IsCurrent, Active, Calling, Terminal
    <3>2. call'.id = call.id
      BY <1>6, <2>2 DEF TerminalShown, TypeOK
    <3> QED BY <1>0, <1>6, <2>2, <3>1, <3>2, MoveSafe DEF TerminalShown, Timers
  <2> QED BY <2>1, <2>2
<1>7. CASE TerminalReset
  <2>1. CASE ~IsCurrent(task["terminal"].id, {"ended"})
    BY <1>0, <1>7, <2>1, MoveSafe DEF TerminalReset, CommandPoints, Timers
  <2>2. CASE IsCurrent(task["terminal"].id, {"ended"})
    <3>1. ~sipCallStarted /\ prepared = None
      BY <1>0, <2>2 DEF IsCurrent, Active, Calling, Safe, SipCallOwned
    <3>2. \A p \in Calls : task'[p] = task[p]
      BY <1>0, <1>7 DEF TerminalReset, Goto, Tasks, Timers
    <3>3. CommandsHitOwnCall' /\ SipCallOwned'
      BY <1>7, <3>1 DEF TerminalReset, CommandsHitOwnCall, SipCallOwned
    <3> QED BY <1>7, <3>1, <3>2, <3>3 DEF TerminalReset, Safe, WavsOwned, At
  <2> QED BY <2>1, <2>2
<1> QED BY <1>1, <1>2, <1>3, <1>4, <1>5, <1>6, <1>7 DEF TimerStep

LEMMA ServiceSafe ==
    ASSUME TypeOK, LockOwned, Safe, ServiceStep
    PROVE  Safe'
<1>0. /\ "shutdown" \in Tasks /\ "shutdown" \notin Calls
      /\ Channels \cap Calls = {}
      /\ sipCallStarted => call.state \in Active
  BY TasksAssumption DEF Tasks, Safe, SipCallOwned
<1>1. CASE ShutdownRequest
  BY <1>0, <1>1, MoveSafe DEF ShutdownRequest, Move, CommandPoints
<1>2. CASE Shutdown
  <2>1. \A p \in Calls : task'[p] = task[p]
    BY <1>0, <1>2, CancelledNoCalls DEF Shutdown, Goto, Tasks
  <2>2. WavsOwned'
    BY <1>2, <2>1, NoneAssumption DEF Shutdown, Safe, WavsOwned, At, Tasks
  <2>3. CommandsHitOwnCall' /\ SipCallOwned'
    BY <1>2 DEF Shutdown, CommandsHitOwnCall, SipCallOwned
  <2> QED BY <2>2, <2>3 DEF Safe
<1>3. CASE ShutdownDone
  BY <1>0, <1>3, MoveSafe DEF ShutdownDone, CommandPoints
<1>4. CASE AdapterRestart
  <2>1. \A p \in Calls : task'[p] = task[p]
    BY <1>0, <1>4 DEF AdapterRestart, Tasks
  <2>2. WavsOwned'
    BY <1>4, <2>1 DEF AdapterRestart, Safe, WavsOwned, At, TypeOK
  <2>3. CommandsHitOwnCall'
    BY <1>4 DEF AdapterRestart, Idle, Safe, CommandsHitOwnCall, CommandPoints
  <2> QED BY <1>4, <2>2, <2>3 DEF AdapterRestart, Safe, SipCallOwned
<1>5. CASE ExpireAttempt
  BY <1>5 DEF ExpireAttempt, Safe, SipCallOwned, CommandsHitOwnCall, WavsOwned, At
<1>6. CASE StopCancels
  <2>1. \A p \in Calls : task'[p] = task[p]
    BY <1>0, <1>6 DEF StopCancels, Tasks
  <2>2. WavsOwned'
    BY <1>6, <2>1 DEF StopCancels, Safe, WavsOwned, At, TypeOK
  <2>3. CommandsHitOwnCall'
    BY <1>6 DEF StopCancels, Safe, CommandsHitOwnCall, CommandPoints
  <2> QED BY <1>6, <2>2, <2>3 DEF StopCancels, Safe, SipCallOwned
<1>7. ASSUME NEW ch \in Channels, CancelEnds(ch) PROVE Safe'
  BY <1>0, <1>7, MoveSafe DEF CancelEnds, Move, CommandPoints, Tasks
<1> QED BY <1>1, <1>2, <1>3, <1>4, <1>5, <1>6, <1>7 DEF ServiceStep

LEMMA SafeInit == Init => Safe
BY NoneAssumption DEF Init, Safe, SipCallOwned, CommandsHitOwnCall, WavsOwned, At, Idle,
                      CommandPoints, Tasks

LEMMA SafeStep == TypeOK /\ LockOwned /\ Safe /\ [Next]_vars => Safe'
<1>1. ASSUME Safe, UNCHANGED vars PROVE Safe'
  BY <1>1 DEF vars, Safe, SipCallOwned, CommandsHitOwnCall, WavsOwned, At
<1> QED BY <1>1, StartSafe, EventSafe, TimerSafe, HangupSafe, ServiceSafe DEF Next

\* The inductive invariant behind the three theorems that follow.
LEMMA SafeCorrect == Spec => [](TypeOK /\ LockOwned /\ Safe)
<1>1. TypeOK /\ LockOwned /\ Safe /\ [Next]_vars => (TypeOK /\ LockOwned /\ Safe)'
  BY TypeStep, LockStep, SafeStep
<1>2. Init => TypeOK /\ LockOwned /\ Safe
  BY TypeInit, LockInit, SafeInit
<1> QED BY <1>1, <1>2, PTL DEF Spec

\* There is a SIP call exactly when a WAV is prepared, and then both belong to
\* the active call of the slot.
THEOREM SipCallCorrect == Spec => []SipCallOwned
BY SafeCorrect, PTL DEF Safe

\* A hang-up, dial or audio command in flight is never about a later call than
\* the one it was sent for, however many calls and requests there are.
THEOREM CommandsCorrect == Spec => []CommandsHitOwnCall
BY SafeCorrect, PTL DEF Safe

\* No WAV directory is leaked or removed too early by start_call and _finish.
THEOREM WavsCorrect == Spec => []WavsOwned
BY SafeCorrect, PTL DEF Safe
=============================================================================
