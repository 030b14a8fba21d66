--------------------------- MODULE AdapterLifecycle ---------------------------
(***************************************************************************)
(* The life of the baresip process behind the SIP adapter                  *)
(* (talk_alarm/adapters.py): start, stop and refresh under the lifecycle   *)
(* lock, the three background tasks, and the registration state that the   *)
(* manager publishes.                                                      *)
(*                                                                         *)
(* Processes, and the tasks created with them, are numbered in the order   *)
(* they are created; 0 is none.  The callers are the service's start and   *)
(* shutdown (__main__.py) and the refresh requests.  asyncio.Lock is first *)
(* come, first served: `line' holds the callers of the lifecycle lock in   *)
(* order, its head being the owner.                                        *)
(*                                                                         *)
(* The environment may end a process, drop its control connection or       *)
(* report on the registration at any time: as an event, queued for the     *)
(* worker, or as a line of standard output, handled at once.  Commands and *)
(* calls are left out (CtrlChannel, CallManager).                          *)
(***************************************************************************)
EXTENDS Integers, Sequences, FiniteSets

CONSTANTS
    Refreshes,       \* POST /refresh requests
    Outcomes,        \* what baresip reports of its registration
    MaxProcesses,    \* bound: processes created
    MaxQueued        \* bound: registration events in _event_queue

Callers == Refreshes \cup {"main", "shutdown"}
Processes == 1..MaxProcesses
Readers == {"stdout", "ctrl", "worker"}

ASSUME CallersAssumption == "main" \notin Refreshes /\ "shutdown" \notin Refreshes
ASSUME OutcomesAssumption == Outcomes \subseteq {"registered", "unregistered", "error"}
ASSUME BoundsAssumption == MaxProcesses \in Nat /\ MaxQueued \in Nat

VARIABLES
    process,        \* _process: the process the adapter refers to, or 0
    alive,          \* processes that run
    created,        \* processes created so far
    writer,         \* _ctrl_writer: the process it is connected to, or 0
    cut,            \* processes whose control connection has been closed
    stopping,       \* _stopping
    line,           \* _lifecycle_lock: its owner and those who wait for it
    caller,         \* the control point of each caller
    running,        \* for each kind of background task, those that run
    held,           \* ... and the one the adapter refers to (_stdout_task, ...)
    queue,          \* the registration events in _event_queue, each [state, by]
    registration,   \* _registration of the manager: a state, and the process that
                    \* reported it, or 0 when the add-on set it
    replaced        \* a start has replaced a process that nobody stopped

handles == <<process, alive, created, writer, cut, stopping>>
tasks == <<running, held, queue>>
vars == <<handles, line, caller, tasks, registration, replaced>>

Status(state) == [state |-> state, by |-> 0]
Reports(p) == [state : Outcomes, by : {p}]
NoTasks == [k \in Readers |-> 0]

Init ==
    /\ process = 0 /\ alive = {} /\ created = 0
    /\ writer = 0 /\ cut = {}
    /\ stopping = FALSE
    /\ line = <<>>
    /\ caller = [a \in Callers |-> "idle"]
    /\ running = [k \in Readers |-> {}]
    /\ held = NoTasks
    /\ queue = <<>>
    /\ registration = Status("registering")
    /\ replaced = FALSE

At(a, point) == caller[a] = point
Goto(a, point) == caller' = [caller EXCEPT ![a] = point]
Owns(a) == line # <<>> /\ Head(line) = a
Alive(p) == p \in alive

\* Caller a asks for the lifecycle lock, to go on at the point once it has it.
Ask(a, point) == line' = Append(line, a) /\ Goto(a, point)
\* The owner leaves the lifecycle lock.
Leave(a, point) == line' = Tail(line) /\ Goto(a, point)

\* The exception of start or reginfo reaches the caller, which publishes an error.
Raise(a) == Leave(a, "done") /\ registration' = Status("error")

\* _fail_pending: the callers that wait for the answer to reginfo.  (One whose future
\* is resolved already is not failed.  In a stop that is Reginfo just before this
\* step, with which it commutes; in CtrlEnds it does not commute.)
Refused(point) == [a \in Callers |-> IF point[a] = "reginfo" THEN "refused" ELSE point[a]]

\* _cancel_background_tasks: the tasks the adapter refers to are over.
CancelTasks ==
    /\ running' = [k \in Readers |-> running[k] \ {held[k]}]
    /\ held' = NoTasks

-----------------------------------------------------------------------------
(* start                                                                   *)

MainStart ==
    /\ At("main", "idle")
    /\ Ask("main", "start")
    /\ UNCHANGED <<handles, tasks, registration, replaced>>

\* Mutant of StartEnter: a process that runs is not noticed.
StartEnterAlways(a) ==
    /\ At(a, "start") /\ Owns(a)
    /\ stopping' = FALSE
    /\ registration' = Status("registering")
    /\ Goto(a, "spawn")
    /\ UNCHANGED <<process, alive, created, writer, cut, line, tasks, replaced>>

\* Nothing to do while a process runs; else configure a new one.
StartEnter(a) ==
    /\ At(a, "start") /\ Owns(a)
    /\ IF Alive(process)
       THEN /\ Leave(a, "done")
            /\ UNCHANGED <<stopping, registration, replaced>>
       ELSE /\ stopping' = FALSE
            /\ registration' = Status("registering")
            /\ Goto(a, "spawn")
            /\ replaced' = (replaced \/ process # 0)
            /\ UNCHANGED line
    /\ UNCHANGED <<process, alive, created, writer, cut, tasks>>

Spawned(a) ==
    LET p == created + 1 IN
    /\ At(a, "spawn")
    /\ p \in Processes
    /\ created' = p
    /\ process' = p
    /\ alive' = alive \cup {p}
    /\ running' = [running EXCEPT !["stdout"] = @ \cup {p}, !["worker"] = @ \cup {p}]
    /\ held' = [held EXCEPT !["stdout"] = p, !["worker"] = p]
    /\ Goto(a, "connect")
    /\ UNCHANGED <<writer, cut, stopping, line, queue, registration, replaced>>

SpawnFailed(a) ==
    /\ At(a, "spawn")
    /\ Raise(a)
    /\ UNCHANGED <<handles, tasks, replaced>>

Connected(a) ==
    /\ At(a, "connect")
    /\ Alive(process)
    /\ writer' = process
    /\ running' = [running EXCEPT !["ctrl"] = @ \cup {process}]
    /\ held' = [held EXCEPT !["ctrl"] = process]
    /\ Leave(a, "done")
    /\ UNCHANGED <<process, alive, created, cut, stopping, queue, registration, replaced>>

\* Mutant of ConnectFailed: without its deadline of 10 s, only an exit is noticed.
ConnectFailedWithoutDeadline(a) ==
    /\ At(a, "connect")
    /\ ~Alive(process)
    /\ process' = 0
    /\ Goto(a, "abandon")
    /\ UNCHANGED <<alive, created, writer, cut, stopping, line, tasks, registration, replaced>>

\* The process has ended, or 10 s have passed; terminate it.
ConnectFailed(a) ==
    /\ At(a, "connect")
    /\ process' = 0
    /\ Goto(a, "abandon")
    /\ UNCHANGED <<alive, created, writer, cut, stopping, line, tasks, registration, replaced>>

\* The process is gone, by SIGTERM or 5 s later by SIGKILL: cancel its tasks, raise.
Abandoned(a) ==
    /\ At(a, "abandon")
    /\ alive = {}
    /\ CancelTasks
    /\ Raise(a)
    /\ UNCHANGED <<handles, queue, replaced>>

-----------------------------------------------------------------------------
(* refresh and stop                                                        *)

\* A refresh looks at the process and the connection without the lock.  Whether a
\* connection dropped by the other side is seen is up to the transport.
Refresh(r) ==
    /\ At(r, "idle")
    /\ \/ /\ Alive(process) /\ writer # 0
          /\ \A a \in Callers : ~At(a, "close")
          /\ Goto(r, "reginfo")
          /\ UNCHANGED line
       \/ /\ ~Alive(process) \/ writer = 0 \/ writer \in cut
          /\ Ask(r, "stop")
    /\ UNCHANGED <<handles, tasks, registration, replaced>>

\* The answer to reginfo is read like a line of standard output.
Reginfo(r) ==
    /\ At(r, "reginfo")
    /\ Goto(r, "done")
    /\ registration' \in Reports(writer) \cup {registration}
    /\ UNCHANGED <<handles, line, tasks, replaced>>

ReginfoFailed(r) ==
    /\ At(r, "reginfo") \/ At(r, "refused")
    /\ Goto(r, "done")
    /\ registration' = Status("error")
    /\ UNCHANGED <<handles, line, tasks, replaced>>

\* The signal handlers are installed when the first start has returned.
ShutdownStop ==
    /\ At("shutdown", "idle")
    /\ At("main", "done")
    /\ Ask("shutdown", "stop")
    /\ UNCHANGED <<handles, tasks, registration, replaced>>

\* Close the connection and wait until it is closed.
StopEnter(a) ==
    /\ At(a, "stop") /\ Owns(a)
    /\ stopping' = TRUE
    /\ cut' = cut \cup ({writer} \ {0})
    /\ Goto(a, "close")
    /\ UNCHANGED <<process, alive, created, writer, line, tasks, registration, replaced>>

\* Give up the connection and the process, which is terminated if it still runs.
StopClosed(a) ==
    /\ At(a, "close")
    /\ writer' = 0
    /\ process' = 0
    /\ caller' = [Refused(caller) EXCEPT ![a] = "cancel"]
    /\ UNCHANGED <<alive, created, cut, stopping, line, tasks, registration, replaced>>

\* Mutant of StopDone: the queue is not emptied.
StopDoneKeepingQueue(a) ==
    /\ At(a, "cancel")
    /\ alive = {}
    /\ CancelTasks
    /\ IF a = "shutdown" THEN Leave(a, "done")
                         ELSE line' = Append(Tail(line), a) /\ Goto(a, "start")
    /\ UNCHANGED <<handles, queue, registration, replaced>>

\* Mutant of StopDone: the refresh asks for the lock before it has left it.
StopDoneHoldingLock(a) ==
    /\ At(a, "cancel")
    /\ alive = {}
    /\ CancelTasks
    /\ queue' = <<>>
    /\ IF a = "shutdown" THEN Leave(a, "done") ELSE Ask(a, "start")
    /\ UNCHANGED <<handles, registration, replaced>>

\* The process is gone: cancel its tasks and discard the events they left.  A
\* refresh goes on with start.
StopDone(a) ==
    /\ At(a, "cancel")
    /\ alive = {}
    /\ CancelTasks
    /\ queue' = <<>>
    /\ IF a = "shutdown" THEN Leave(a, "done")
                         ELSE line' = Append(Tail(line), a) /\ Goto(a, "start")
    /\ UNCHANGED <<handles, registration, replaced>>

-----------------------------------------------------------------------------
(* The background tasks.  Those of a process that was replaced run on until *)
(* its output ends, although the adapter no longer refers to them.          *)

\* A report on the control connection; _queue_event.
CtrlEvent(p) ==
    /\ p \in running["ctrl"]
    /\ Len(queue) < MaxQueued
    /\ \E report \in Reports(p) : queue' = Append(queue, report)
    /\ IF held["worker"] = 0
       THEN /\ running' = [running EXCEPT !["worker"] = @ \cup {p}]
            /\ held' = [held EXCEPT !["worker"] = p]
       ELSE UNCHANGED <<running, held>>
    /\ UNCHANGED <<handles, line, caller, registration, replaced>>

\* The end of the connection: unless it is expected, drop the writer, whichever
\* it is now, and publish an error.  When the answer to reginfo was the last thing
\* read, it is not failed any more, and the caller applies it after that error.
CtrlEnds(p) ==
    /\ p \in running["ctrl"]
    /\ p \in cut \/ ~Alive(p)
    /\ running' = [running EXCEPT !["ctrl"] = @ \ {p}]
    /\ IF stopping
       THEN UNCHANGED <<writer, cut, caller, registration>>
       ELSE /\ writer' = 0
            /\ cut' = cut \cup ({writer} \ {0})
            /\ \/ /\ caller' = Refused(caller)
                  /\ registration' = Status("error")
               \/ \E r \in Refreshes :
                    /\ At(r, "reginfo")
                    /\ caller' = [Refused(caller) EXCEPT ![r] = "done"]
                    /\ registration' \in Reports(p)
    /\ UNCHANGED <<process, alive, created, stopping, line, held, queue, replaced>>

TakeEvent ==
    /\ running["worker"] # {}
    /\ queue # <<>>
    /\ registration' = Head(queue)
    /\ queue' = Tail(queue)
    /\ UNCHANGED <<handles, line, caller, running, held, replaced>>

StdoutLine(p) ==
    /\ p \in running["stdout"]
    /\ registration' \in Reports(p)
    /\ UNCHANGED <<handles, line, caller, tasks, replaced>>

StdoutEnds(p) ==
    /\ p \in running["stdout"]
    /\ ~Alive(p)
    /\ running' = [running EXCEPT !["stdout"] = @ \ {p}]
    /\ registration' = IF stopping THEN registration ELSE Status("error")
    /\ UNCHANGED <<handles, line, caller, held, queue, replaced>>

-----------------------------------------------------------------------------
(* baresip                                                                 *)

Exits(p) ==
    /\ Alive(p)
    /\ alive' = alive \ {p}
    /\ UNCHANGED <<process, created, writer, cut, stopping, line, caller, tasks, registration,
                   replaced>>

ConnectionDrops ==
    /\ writer \notin cut \cup {0}
    /\ cut' = cut \cup {writer}
    /\ UNCHANGED <<process, alive, created, writer, stopping, line, caller, tasks,
                   registration, replaced>>

-----------------------------------------------------------------------------
CallerStep(a) ==
    \/ StartEnter(a) \/ Spawned(a) \/ SpawnFailed(a) \/ Connected(a) \/ ConnectFailed(a)
    \/ Abandoned(a) \/ StopEnter(a) \/ StopClosed(a) \/ StopDone(a)
    \/ Reginfo(a) \/ ReginfoFailed(a)

TaskStep(p) == CtrlEvent(p) \/ CtrlEnds(p) \/ StdoutLine(p) \/ StdoutEnds(p) \/ Exits(p)

Next ==
    \/ MainStart \/ ShutdownStop \/ \E r \in Refreshes : Refresh(r)
    \/ \E a \in Callers : CallerStep(a)
    \/ \E p \in Processes : TaskStep(p)
    \/ TakeEvent \/ ConnectionDrops

Spec == Init /\ [][Next]_vars

-----------------------------------------------------------------------------
(* Safety                                                                  *)

Terminating == {"abandon", "cancel"}

\* Every variable keeps its type, and no caller waits for a lock it has.
TypeOK ==
    /\ {process, created, writer} \subseteq 0..MaxProcesses
    /\ alive \subseteq Processes /\ cut \subseteq Processes
    /\ stopping \in BOOLEAN /\ replaced \in BOOLEAN
    /\ line \in Seq(Callers) /\ \A i, j \in 1..Len(line) : line[i] = line[j] => i = j
    /\ caller \in [Callers -> {"idle", "start", "spawn", "connect", "abandon", "stop", "close",
                               "cancel", "reginfo", "refused", "done"}]
    /\ running \in [Readers -> SUBSET Processes]
    /\ held \in [Readers -> 0..MaxProcesses]
    /\ queue \in Seq(UNION {Reports(p) : p \in Processes}) /\ Len(queue) <= MaxQueued
    /\ registration \in [state : {"unregistered", "registering", "registered", "error"},
                         by : 0..MaxProcesses]

\* At most one baresip runs, the one the adapter refers to or the one that the
\* owner of the lifecycle lock waits for: it can always be stopped, however
\* starts, stops and refreshes overlap.
OneProcess ==
    \/ alive \subseteq {process}
    \/ Cardinality(alive) = 1 /\ line # <<>> /\ caller[Head(line)] \in Terminating

\* Background tasks, queued events and a published registration belong to the
\* process the adapter refers to, and nothing of an earlier one outlives its
\* stop - unless a start has found a dead process that nobody had stopped.
OfCurrentProcess ==
    ~replaced /\ process # 0 =>
        /\ \A k \in Readers : running[k] \subseteq {held[k]} /\ held[k] \in {0, process}
        /\ \A i \in 1..Len(queue) : queue[i].by = process
        /\ registration.by \in {0, process}

\* manager.shutdown: "Stop timers, media and the SIP adapter": when the shutdown
\* has returned, no SIP client runs.
NothingRunsAfterShutdown == At("shutdown", "done") => alive = {}

\* README.md: GET /status is the "SIP registration": once everything reported has
\* been handled, it does not show a registration that no SIP client holds.
Settled ==
    /\ line = <<>> /\ At("shutdown", "idle")
    /\ queue = <<>> /\ running["ctrl"] = {} /\ running["stdout"] = {}
    /\ \A r \in Refreshes : caller[r] \in {"idle", "done"}
StatusHonest == Settled /\ alive = {} => registration.state # "registered"

-----------------------------------------------------------------------------
(* Liveness.  Creating a process, connecting (10 s), closing a connection   *)
(* and a command (5 s) end; a terminated process ends, killed if need be.   *)

AfterSpawn(a) == Spawned(a) \/ SpawnFailed(a)
Fairness ==
    /\ \A a \in Callers :
        /\ WF_vars(StartEnter(a)) /\ WF_vars(AfterSpawn(a))
        /\ WF_vars(ConnectFailed(a)) /\ WF_vars(Abandoned(a))
        /\ WF_vars(StopEnter(a)) /\ WF_vars(StopClosed(a)) /\ WF_vars(StopDone(a))
        /\ WF_vars(ReginfoFailed(a))
    /\ \A p \in Processes : WF_vars(Exits(p) /\ \E a \in Callers : caller[a] \in Terminating)
LiveSpec == Spec /\ Fairness

\* Every start, refresh and shutdown returns, whatever the process does: none
\* waits for ever on the lifecycle lock or on a baresip that does not answer.
CallersReturn == \A a \in Callers : ~At(a, "idle") ~> At(a, "done")
=============================================================================
