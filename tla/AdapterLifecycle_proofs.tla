------------------------ MODULE AdapterLifecycle_proofs ------------------------
(* Proofs about the life of the SIP client, for any number of refreshes,   *)
(* processes and queued events.                                            *)
EXTENDS AdapterLifecycle, FiniteSetTheorems, TLAPS

Points == {"idle", "start", "spawn", "connect", "abandon", "stop", "close", "cancel",
           "reginfo", "refused", "done"}
OwnerPoints == {"spawn", "connect", "abandon", "close", "cancel"}
LockPoints == OwnerPoints \cup {"start", "stop"}

\* The line of the lifecycle lock holds the callers that ask for it or have it,
\* each once, and whoever has passed the lock is its owner.
LockInv ==
    /\ line \in Seq(Callers) /\ \A i, j \in 1..Len(line) : line[i] = line[j] => i = j
    /\ caller \in [Callers -> Points]
    /\ \A a \in Callers : (\E i \in 1..Len(line) : line[i] = a) <=> caller[a] \in LockPoints
    /\ \A a \in Callers : caller[a] \in OwnerPoints => Owns(a)

\* A process that is not the adapter's is being terminated, and none runs when
\* the next is created.
ProcessInv ==
    /\ \E p \in Processes \cup {0} : alive \subseteq {p}
    /\ alive \subseteq {process} \/ \E a \in Callers : caller[a] \in Terminating
    /\ \A a \in Callers : caller[a] = "spawn" => alive = {}

LifecycleInv == TypeOK /\ LockInv /\ ProcessInv

-----------------------------------------------------------------------------
(* The lifecycle lock                                                      *)

\* Nobody enters or leaves the line.
LEMMA LineKept ==
    ASSUME LockInv, line' = line, caller' \in [Callers -> Points],
           \A b \in Callers :
                \/ caller'[b] = caller[b]
                \/ caller[b] \notin LockPoints /\ caller'[b] \notin LockPoints
                \/ Owns(b) /\ caller[b] \in LockPoints /\ caller'[b] \in OwnerPoints
    PROVE  LockInv'
BY DEF LockInv, Owns, LockPoints

\* Who is appended to a line in which he does not stand.
LEMMA AppendDistinct ==
    ASSUME NEW S, NEW s \in Seq(S), NEW a \in S, NEW t, t = Append(s, a),
           \A i, j \in 1..Len(s) : s[i] = s[j] => i = j,
           \A i \in 1..Len(s) : s[i] # a
    PROVE  /\ t \in Seq(S)
           /\ \A i, j \in 1..Len(t) : t[i] = t[j] => i = j
           /\ \A b \in S : (\E i \in 1..Len(t) : t[i] = b)
                                <=> b = a \/ \E i \in 1..Len(s) : s[i] = b
<1>1. /\ t \in Seq(S) /\ Len(t) = Len(s) + 1 /\ Len(s) \in Nat /\ t[Len(s) + 1] = a
      /\ \A i \in 1..Len(s) : t[i] = s[i]
  OBVIOUS
<1>2. ASSUME NEW i \in 1..(Len(s) + 1), NEW j \in 1..(Len(s) + 1), t[i] = t[j]
      PROVE  i = j
  <2>1. CASE i \in 1..Len(s) /\ j \in 1..Len(s)
    BY <1>1, <1>2, <2>1
  <2>2. CASE i = Len(s) + 1 \/ j = Len(s) + 1
    BY <1>1, <1>2, <2>2
  <2> QED
    BY <1>1, <2>1, <2>2
<1>3. ASSUME NEW b \in S
      PROVE  (\E i \in 1..Len(t) : t[i] = b) <=> b = a \/ \E i \in 1..Len(s) : s[i] = b
  BY <1>1
<1> QED
  BY <1>1, <1>2, <1>3

LEMMA AskPreserves ==
    ASSUME LockInv, NEW a \in Callers, caller[a] \notin LockPoints,
           NEW point \in {"start", "stop"}, Ask(a, point)
    PROVE  LockInv'
<1>1. /\ line \in Seq(Callers) /\ line' = Append(line, a)
      /\ \A i, j \in 1..Len(line) : line[i] = line[j] => i = j
      /\ \A i \in 1..Len(line) : line[i] # a
  BY DEF Ask, LockInv
<1>2. /\ caller'[a] = point /\ \A b \in Callers \ {a} : caller'[b] = caller[b]
      /\ caller' \in [Callers -> Points]
  BY DEF Ask, Goto, LockInv, Points
<1>3. /\ line' \in Seq(Callers) /\ \A i, j \in 1..Len(line') : line'[i] = line'[j] => i = j
      /\ \A b \in Callers : (\E i \in 1..Len(line') : line'[i] = b)
                                <=> b = a \/ \E i \in 1..Len(line) : line[i] = b
  BY <1>1, AppendDistinct
<1>4. ASSUME NEW b \in Callers
      PROVE  (\E i \in 1..Len(line') : line'[i] = b) <=> caller'[b] \in LockPoints
  BY <1>2, <1>3 DEF LockInv, LockPoints
<1>5. ASSUME NEW b \in Callers, caller'[b] \in OwnerPoints
      PROVE  Owns(b)'
  <2>1. b # a /\ caller[b] \in OwnerPoints
    BY <1>2, <1>5 DEF OwnerPoints
  <2>2. line # <<>> /\ Head(line) = b
    BY <2>1 DEF LockInv, Owns
  <2> QED
    BY <1>1, <2>2 DEF Owns
<1> QED
  BY <1>2, <1>3, <1>4, <1>5 DEF LockInv

\* What is left of the line when its owner leaves it.
LEMMA LineBehindOwner ==
    ASSUME LockInv, NEW a \in Callers, Owns(a)
    PROVE  /\ Tail(line) \in Seq(Callers) /\ Len(Tail(line)) \in Nat
           /\ \A i, j \in 1..Len(Tail(line)) : Tail(line)[i] = Tail(line)[j] => i = j
           /\ \A b \in Callers :
                (\E i \in 1..Len(Tail(line)) : Tail(line)[i] = b)
                    <=> b # a /\ caller[b] \in LockPoints
           /\ \A b \in Callers : caller[b] \in OwnerPoints => b = a
           /\ caller[a] \in LockPoints
<1>1. /\ line \in Seq(Callers) /\ line # <<>> /\ line[1] = a /\ Len(line) \in Nat
      /\ 1 \in 1..Len(line)
  BY DEF LockInv, Owns
<1>2. /\ Tail(line) \in Seq(Callers) /\ Len(Tail(line)) = Len(line) - 1
      /\ \A i \in 1..Len(Tail(line)) : Tail(line)[i] = line[i + 1] /\ i + 1 \in 1..Len(line)
  BY <1>1
<1>3. \A i, j \in 1..Len(line) : line[i] = line[j] => i = j
  BY DEF LockInv
<1>4. \A i, j \in 1..Len(Tail(line)) : Tail(line)[i] = Tail(line)[j] => i = j
  BY <1>1, <1>2, <1>3
<1>5. ASSUME NEW b \in Callers
      PROVE  (\E i \in 1..Len(Tail(line)) : Tail(line)[i] = b)
                <=> b # a /\ \E i \in 1..Len(line) : line[i] = b
  <2>1. ASSUME NEW i \in 1..Len(Tail(line)), Tail(line)[i] = b
        PROVE  b # a /\ \E j \in 1..Len(line) : line[j] = b
    BY <1>1, <1>2, <1>3, <2>1
  <2>2. ASSUME b # a, NEW j \in 1..Len(line), line[j] = b
        PROVE  \E i \in 1..Len(Tail(line)) : Tail(line)[i] = b
    <3>1. j # 1 /\ j - 1 \in 1..Len(Tail(line)) /\ Tail(line)[j - 1] = line[(j - 1) + 1]
      BY <1>1, <1>2, <2>2
    <3>2. (j - 1) + 1 = j
      OBVIOUS
    <3> QED
      BY <2>2, <3>1, <3>2
  <2> QED
    BY <2>1, <2>2
<1> QED
  BY <1>1, <1>2, <1>4, <1>5 DEF LockInv, Owns

LEMMA LeavePreserves ==
    ASSUME LockInv, NEW a \in Callers, Owns(a), Leave(a, "done")
    PROVE  LockInv'
<1>1. /\ line' = Tail(line) /\ caller' \in [Callers -> Points] /\ caller'[a] = "done"
      /\ \A b \in Callers \ {a} : caller'[b] = caller[b]
  BY DEF Leave, Goto, LockInv, Points
<1>2. \A b \in Callers : caller'[b] \notin OwnerPoints
  BY <1>1, LineBehindOwner DEF OwnerPoints
<1>3. \A b \in Callers :
        (\E i \in 1..Len(line') : line'[i] = b) <=> caller'[b] \in LockPoints
  BY <1>1, LineBehindOwner DEF LockPoints, OwnerPoints
<1> QED
  BY <1>1, <1>2, <1>3, LineBehindOwner DEF LockInv

\* The refresh leaves the lock of its stop and asks for that of its start.
AskAgain(a) == line' = Append(Tail(line), a) /\ Goto(a, "start")

LEMMA AskAgainPreserves ==
    ASSUME LockInv, NEW a \in Callers, Owns(a), AskAgain(a)
    PROVE  LockInv'
<1>1. /\ caller' \in [Callers -> Points] /\ caller'[a] = "start"
      /\ \A b \in Callers \ {a} : caller'[b] = caller[b]
  BY DEF AskAgain, Goto, LockInv, Points
<1>2. PICK rest : rest = Tail(line)
  OBVIOUS
<1>3. /\ rest \in Seq(Callers) /\ line' = Append(rest, a)
      /\ \A i, j \in 1..Len(rest) : rest[i] = rest[j] => i = j
  BY <1>2, LineBehindOwner DEF AskAgain
<1>4. \A b \in Callers :
        (\E i \in 1..Len(rest) : rest[i] = b) <=> b # a /\ caller[b] \in LockPoints
  BY <1>2, LineBehindOwner
<1>5. /\ line' \in Seq(Callers) /\ \A i, j \in 1..Len(line') : line'[i] = line'[j] => i = j
      /\ \A b \in Callers :
            (\E i \in 1..Len(line') : line'[i] = b) <=> caller'[b] \in LockPoints
  <2>1. \A i \in 1..Len(rest) : rest[i] # a
    BY <1>4
  <2>2. /\ line' \in Seq(Callers) /\ \A i, j \in 1..Len(line') : line'[i] = line'[j] => i = j
        /\ \A b \in Callers : (\E i \in 1..Len(line') : line'[i] = b)
                                  <=> b = a \/ \E i \in 1..Len(rest) : rest[i] = b
    BY <1>3, <2>1, AppendDistinct
  <2> QED
    BY <1>1, <1>4, <2>2 DEF LockPoints
<1>6. \A b \in Callers : caller'[b] \notin OwnerPoints
  BY <1>1, LineBehindOwner DEF OwnerPoints
<1> QED
  BY <1>1, <1>5, <1>6 DEF LockInv

-----------------------------------------------------------------------------
(* start                                                                   *)

LEMMA LifecycleInvInit == Init => LifecycleInv
<1> SUFFICES ASSUME Init PROVE LifecycleInv
  OBVIOUS
<1>1. line = <<>> /\ queue = <<>> /\ alive = {} /\ \A a \in Callers : caller[a] = "idle"
  BY DEF Init
<1>2. LockInv
  BY <1>1 DEF Init, LockInv, Points, LockPoints, OwnerPoints
<1>3. ProcessInv
  BY <1>1 DEF ProcessInv
<1>4. TypeOK
  <2>1. /\ line \in Seq(Callers) /\ queue \in Seq(UNION {Reports(p) : p \in Processes})
        /\ Len(queue) <= MaxQueued /\ 0 \in 0..MaxProcesses
    BY <1>1, BoundsAssumption
  <2>2. /\ caller \in [Callers -> Points] /\ running \in [Readers -> SUBSET Processes]
        /\ held \in [Readers -> 0..MaxProcesses]
    BY <2>1 DEF Init, NoTasks, Points
  <2>3. registration \in [state : {"unregistered", "registering", "registered", "error"},
                          by : 0..MaxProcesses]
    BY <2>1 DEF Init, Status
  <2>4. {process, created, writer} \subseteq 0..MaxProcesses /\ cut = {}
        /\ stopping \in BOOLEAN /\ replaced \in BOOLEAN
    BY <2>1 DEF Init
  <2> QED
    BY <1>1, <2>1, <2>2, <2>3, <2>4 DEF TypeOK, Points
<1> QED
  BY <1>2, <1>3, <1>4 DEF LifecycleInv

\* No other caller is past the lock.
LEMMA OwnerAlone ==
    ASSUME LockInv, NEW a \in Callers, Owns(a)
    PROVE  \A b \in Callers \ {a} : caller[b] \notin OwnerPoints
BY DEF LockInv, Owns

\* A step that takes no process up changes nothing about the processes.
LEMMA ProcessesKept ==
    ASSUME ProcessInv, process' = process, alive' \subseteq alive,
           \A a \in Callers :
             /\ caller[a] \in Terminating => caller'[a] = caller[a] \/ alive' = {}
             /\ caller'[a] = "spawn" => caller[a] = "spawn" \/ alive' = {}
    PROVE  ProcessInv'
BY DEF ProcessInv

LEMMA MainStartPreserves ==
    ASSUME LifecycleInv, MainStart
    PROVE  LifecycleInv'
<1>1. LockInv'
  BY AskPreserves DEF MainStart, At, LifecycleInv, LockPoints, OwnerPoints, Callers
<1>2. ProcessInv'
  BY ProcessesKept DEF MainStart, Ask, Goto, At, handles, LifecycleInv, LockInv, Terminating
<1>3. TypeOK'
  BY <1>1 DEF MainStart, handles, tasks, LifecycleInv, TypeOK, LockInv, Points
<1> QED
  BY <1>1, <1>2, <1>3 DEF LifecycleInv

LEMMA StartEnterPreserves ==
    ASSUME LifecycleInv, NEW a \in Callers, StartEnter(a)
    PROVE  LifecycleInv'
<1>1. /\ caller[a] = "start" /\ Owns(a) /\ caller \in [Callers -> Points]
      /\ UNCHANGED <<process, alive, created, writer, cut, tasks>>
  BY DEF StartEnter, At, LifecycleInv, LockInv
<1>2. CASE Alive(process)
  <2>1. Leave(a, "done") /\ UNCHANGED <<stopping, registration, replaced>>
    BY <1>2 DEF StartEnter
  <2>2. LockInv'
    BY <1>1, <2>1, LeavePreserves DEF LifecycleInv
  <2>3. ProcessInv'
    BY <1>1, <2>1, ProcessesKept DEF Leave, Goto, LifecycleInv, Terminating
  <2>4. TypeOK'
    BY <1>1, <2>1, <2>2 DEF tasks, LifecycleInv, TypeOK, LockInv, Points
  <2> QED
    BY <2>2, <2>3, <2>4 DEF LifecycleInv
<1>3. CASE ~Alive(process)
  <2>1. /\ stopping' = FALSE /\ registration' = Status("registering") /\ line' = line
        /\ Goto(a, "spawn") /\ replaced' = (replaced \/ process # 0)
    BY <1>3 DEF StartEnter
  <2>2. caller' \in [Callers -> Points] /\ caller'[a] = "spawn"
        /\ \A b \in Callers \ {a} : caller'[b] = caller[b]
    BY <1>1, <2>1 DEF Goto, Points
  <2>3. LockInv'
    BY <1>1, <2>1, <2>2, LineKept DEF LifecycleInv, LockPoints, OwnerPoints
  <2>4. alive = {}
    <3>1. \A b \in Callers : caller[b] \notin Terminating
      BY <1>1, OwnerAlone DEF LifecycleInv, Terminating, OwnerPoints
    <3> QED
      BY <1>3, <3>1 DEF Alive, LifecycleInv, ProcessInv
  <2>5. ProcessInv'
    BY <1>1, <2>4 DEF ProcessInv, Processes
  <2>6. TypeOK'
    <3>1. registration' \in [state : {"unregistered", "registering", "registered", "error"},
                             by : 0..MaxProcesses]
      BY <2>1, BoundsAssumption DEF Status
    <3>2. replaced' \in BOOLEAN /\ stopping' \in BOOLEAN
      BY <2>1 DEF LifecycleInv, TypeOK
    <3> QED
      BY <1>1, <2>3, <3>1, <3>2 DEF tasks, LifecycleInv, TypeOK, LockInv, Points
  <2> QED
    BY <2>3, <2>5, <2>6 DEF LifecycleInv
<1> QED
  BY <1>2, <1>3

LEMMA SpawnedPreserves ==
    ASSUME LifecycleInv, NEW a \in Callers, Spawned(a)
    PROVE  LifecycleInv'
<1> DEFINE p == created + 1
<1>1. /\ caller[a] = "spawn" /\ p \in Processes /\ process' = p /\ alive = {}
      /\ alive' = {p} /\ line' = line
  BY DEF Spawned, At, LifecycleInv, ProcessInv
<1>2. caller' \in [Callers -> Points] /\ caller'[a] = "connect"
      /\ \A b \in Callers \ {a} : caller'[b] = caller[b]
  BY DEF Spawned, Goto, LifecycleInv, LockInv, Points
<1>3. LockInv'
  BY <1>1, <1>2, LineKept DEF LifecycleInv, LockInv, LockPoints, OwnerPoints
<1>4. ProcessInv'
  <2>1. \A b \in Callers : caller'[b] # "spawn"
    BY <1>1, <1>2, OwnerAlone DEF LifecycleInv, LockInv, OwnerPoints
  <2> QED
    BY <1>1, <2>1 DEF ProcessInv
<1>5. TypeOK'
  <2>1. p \in 0..MaxProcesses
    BY <1>1 DEF Processes
  <2>2. /\ running' \in [Readers -> SUBSET Processes]
        /\ held' \in [Readers -> 0..MaxProcesses]
    BY <1>1, <2>1 DEF Spawned, LifecycleInv, TypeOK, Readers
  <2>3. {process, created, writer}' \subseteq 0..MaxProcesses /\ alive' \subseteq Processes
    BY <1>1, <2>1 DEF Spawned, LifecycleInv, TypeOK
  <2> QED
    BY <1>3, <2>2, <2>3 DEF Spawned, LifecycleInv, TypeOK, LockInv, Points
<1> QED
  BY <1>3, <1>4, <1>5 DEF LifecycleInv

\* Raise: an owner that leaves the lock with an error.
LEMMA RaisePreserves ==
    ASSUME LifecycleInv, NEW a \in Callers, Owns(a), Raise(a), process' = process,
           caller[a] \in Terminating => alive = {}, UNCHANGED <<alive, created, writer, cut>>,
           UNCHANGED <<stopping, queue, replaced>>,
           running' \in [Readers -> SUBSET Processes], held' \in [Readers -> 0..MaxProcesses]
    PROVE  LifecycleInv'
<1>1. Leave(a, "done") /\ registration' = Status("error")
  BY DEF Raise
<1>2. LockInv'
  BY <1>1, LeavePreserves DEF LifecycleInv
<1>3. /\ caller'[a] = "done" /\ \A b \in Callers \ {a} : caller'[b] = caller[b]
  BY <1>1 DEF Leave, Goto, LifecycleInv, LockInv
<1>4. ProcessInv'
  BY <1>3, ProcessesKept DEF LifecycleInv
<1>5. registration' \in [state : {"unregistered", "registering", "registered", "error"},
                         by : 0..MaxProcesses]
  BY <1>1, BoundsAssumption DEF Status
<1>6. TypeOK'
  BY <1>2, <1>5 DEF LifecycleInv, TypeOK, LockInv, Points
<1> QED
  BY <1>2, <1>4, <1>6 DEF LifecycleInv

\* What an adapter that cancels its tasks is left with.
LEMMA CancelTasksTypes ==
    ASSUME TypeOK, CancelTasks
    PROVE  /\ running' \in [Readers -> SUBSET Processes]
           /\ held' \in [Readers -> 0..MaxProcesses]
BY BoundsAssumption DEF TypeOK, CancelTasks, NoTasks

LEMMA SpawnFailedPreserves ==
    ASSUME LifecycleInv, NEW a \in Callers, SpawnFailed(a)
    PROVE  LifecycleInv'
<1>1. Owns(a) /\ caller[a] \notin Terminating
  BY DEF SpawnFailed, At, LifecycleInv, LockInv, OwnerPoints, Terminating
<1>2. /\ running' \in [Readers -> SUBSET Processes] /\ held' \in [Readers -> 0..MaxProcesses]
      /\ UNCHANGED <<process, alive, created, writer, cut, stopping, queue, replaced>>
  BY DEF SpawnFailed, handles, tasks, LifecycleInv, TypeOK
<1> QED
  BY <1>1, <1>2, RaisePreserves DEF SpawnFailed

LEMMA AbandonedPreserves ==
    ASSUME LifecycleInv, NEW a \in Callers, Abandoned(a)
    PROVE  LifecycleInv'
<1>1. Owns(a) /\ alive = {}
  BY DEF Abandoned, At, LifecycleInv, LockInv, OwnerPoints
<1>2. /\ running' \in [Readers -> SUBSET Processes] /\ held' \in [Readers -> 0..MaxProcesses]
      /\ UNCHANGED <<process, alive, created, writer, cut, stopping, queue, replaced>>
  BY CancelTasksTypes DEF Abandoned, handles, LifecycleInv
<1> QED
  BY <1>1, <1>2, RaisePreserves DEF Abandoned

LEMMA ConnectedPreserves ==
    ASSUME LifecycleInv, NEW a \in Callers, Connected(a)
    PROVE  LifecycleInv'
<1>1. Owns(a) /\ caller[a] = "connect" /\ process \in alive /\ Leave(a, "done")
      /\ UNCHANGED <<process, alive, created, cut, stopping, queue, registration, replaced>>
  BY DEF Connected, At, Alive, LifecycleInv, LockInv, OwnerPoints
<1>2. LockInv'
  BY <1>1, LeavePreserves DEF LifecycleInv
<1>3. caller'[a] = "done" /\ \A b \in Callers \ {a} : caller'[b] = caller[b]
  BY <1>1 DEF Leave, Goto, LifecycleInv, LockInv
<1>4. ProcessInv'
  BY <1>1, <1>3, ProcessesKept DEF LifecycleInv, Terminating
<1>5. process \in Processes /\ process \in 0..MaxProcesses
  BY <1>1 DEF LifecycleInv, TypeOK
<1>6. /\ writer' \in 0..MaxProcesses /\ running' \in [Readers -> SUBSET Processes]
      /\ held' \in [Readers -> 0..MaxProcesses]
  BY <1>5 DEF Connected, LifecycleInv, TypeOK, Readers
<1>7. TypeOK'
  BY <1>1, <1>2, <1>6 DEF LifecycleInv, TypeOK, LockInv, Points
<1> QED
  BY <1>2, <1>4, <1>7 DEF LifecycleInv

\* The process that is given up is terminated by the owner of the lock.
LEMMA ConnectFailedPreserves ==
    ASSUME LifecycleInv, NEW a \in Callers, ConnectFailed(a)
    PROVE  LifecycleInv'
<1>1. /\ Owns(a) /\ caller[a] = "connect" /\ process' = 0
      /\ caller'[a] = "abandon" /\ \A b \in Callers \ {a} : caller'[b] = caller[b]
      /\ caller' \in [Callers -> Points]
      /\ UNCHANGED <<alive, created, writer, cut, stopping, line, tasks, registration, replaced>>
  BY DEF ConnectFailed, At, Goto, LifecycleInv, LockInv, OwnerPoints, Points
<1>2. LockInv'
  BY <1>1, LineKept DEF LifecycleInv, LockPoints, OwnerPoints
<1>3. ProcessInv'
  BY <1>1 DEF LifecycleInv, ProcessInv, Terminating
<1>4. TypeOK'
  BY <1>1, <1>2, BoundsAssumption DEF tasks, LifecycleInv, TypeOK, LockInv, Points
<1> QED
  BY <1>2, <1>3, <1>4 DEF LifecycleInv

-----------------------------------------------------------------------------
(* refresh and stop                                                        *)

\* Callers outside the lock that move on and change no process.
LEMMA OutsidePreserves ==
    ASSUME LifecycleInv, UNCHANGED <<handles, line, tasks, replaced>>,
           caller' \in [Callers -> Points],
           registration' \in [state : {"unregistered", "registering", "registered", "error"},
                              by : 0..MaxProcesses],
           \A b \in Callers :
                \/ caller'[b] = caller[b]
                \/ caller[b] \notin LockPoints /\ caller'[b] \notin LockPoints
    PROVE  LifecycleInv'
<1>1. LockInv'
  BY LineKept DEF LifecycleInv
<1>2. ProcessInv'
  BY ProcessesKept DEF LifecycleInv, handles, LockPoints, OwnerPoints, Terminating
<1>3. TypeOK'
  BY <1>1 DEF handles, tasks, LifecycleInv, TypeOK, LockInv, Points
<1> QED
  BY <1>1, <1>2, <1>3 DEF LifecycleInv

LEMMA RefreshPreserves ==
    ASSUME LifecycleInv, NEW r \in Refreshes, Refresh(r)
    PROVE  LifecycleInv'
<1>1. /\ r \in Callers /\ caller[r] = "idle"
      /\ UNCHANGED <<handles, tasks, registration, replaced>>
  BY DEF Refresh, At, Callers
<1>2. CASE Goto(r, "reginfo") /\ UNCHANGED line
  BY <1>1, <1>2, OutsidePreserves
     DEF Goto, LifecycleInv, TypeOK, LockInv, Points, LockPoints, OwnerPoints
<1>3. CASE Ask(r, "stop")
  <2>1. LockInv'
    BY <1>1, <1>3, AskPreserves DEF LifecycleInv, LockPoints, OwnerPoints
  <2>2. ProcessInv'
    BY <1>1, <1>3, ProcessesKept DEF Ask, Goto, handles, LifecycleInv, LockInv, Terminating
  <2>3. TypeOK'
    BY <1>1, <2>1 DEF handles, tasks, LifecycleInv, TypeOK, LockInv, Points
  <2> QED
    BY <2>1, <2>2, <2>3 DEF LifecycleInv
<1> QED
  BY <1>2, <1>3 DEF Refresh

LEMMA ReportsTyped ==
    ASSUME TypeOK, NEW p \in 0..MaxProcesses, NEW report \in Reports(p)
    PROVE  report \in [state : {"unregistered", "registering", "registered", "error"},
                       by : 0..MaxProcesses]
BY OutcomesAssumption DEF Reports

LEMMA ReginfoPreserves ==
    ASSUME LifecycleInv, NEW r \in Callers, Reginfo(r) \/ ReginfoFailed(r)
    PROVE  LifecycleInv'
<1>1. /\ caller[r] \in {"reginfo", "refused"} /\ caller' = [caller EXCEPT ![r] = "done"]
      /\ UNCHANGED <<handles, line, tasks, replaced>>
  BY DEF Reginfo, ReginfoFailed, At, Goto
<1>2. registration' \in [state : {"unregistered", "registering", "registered", "error"},
                         by : 0..MaxProcesses]
  <2>1. CASE registration' \in Reports(writer) \cup {registration}
    BY <2>1, ReportsTyped DEF LifecycleInv, TypeOK
  <2>2. CASE registration' = Status("error")
    BY <2>2, BoundsAssumption DEF Status
  <2> QED
    BY <2>1, <2>2 DEF Reginfo, ReginfoFailed
<1>3. caller' \in [Callers -> Points] /\ \A b \in Callers \ {r} : caller'[b] = caller[b]
      /\ caller'[r] = "done"
  BY <1>1 DEF LifecycleInv, LockInv, Points
<1> QED
  BY <1>1, <1>2, <1>3, OutsidePreserves DEF LockPoints, OwnerPoints

LEMMA ShutdownStopPreserves ==
    ASSUME LifecycleInv, ShutdownStop
    PROVE  LifecycleInv'
<1>1. /\ "shutdown" \in Callers /\ caller["shutdown"] = "idle" /\ Ask("shutdown", "stop")
      /\ UNCHANGED <<handles, tasks, registration, replaced>>
  BY DEF ShutdownStop, At, Callers
<1>2. LockInv'
  BY <1>1, AskPreserves DEF LifecycleInv, LockPoints, OwnerPoints
<1>3. ProcessInv'
  BY <1>1, ProcessesKept DEF Ask, Goto, handles, LifecycleInv, LockInv, Terminating
<1>4. TypeOK'
  BY <1>1, <1>2 DEF handles, tasks, LifecycleInv, TypeOK, LockInv, Points
<1> QED
  BY <1>2, <1>3, <1>4 DEF LifecycleInv

LEMMA StopEnterPreserves ==
    ASSUME LifecycleInv, NEW a \in Callers, StopEnter(a)
    PROVE  LifecycleInv'
<1>1. /\ Owns(a) /\ caller[a] = "stop" /\ stopping' = TRUE
      /\ caller'[a] = "close" /\ \A b \in Callers \ {a} : caller'[b] = caller[b]
      /\ caller' \in [Callers -> Points]
      /\ UNCHANGED <<process, alive, created, writer, line, tasks, registration, replaced>>
  BY DEF StopEnter, At, Goto, LifecycleInv, LockInv, Points
<1>2. LockInv'
  BY <1>1, LineKept DEF LifecycleInv, LockPoints, OwnerPoints
<1>3. ProcessInv'
  BY <1>1, ProcessesKept DEF LifecycleInv, Terminating
<1>4. cut' \subseteq Processes
  <2>1. writer \in 0..MaxProcesses /\ MaxProcesses \in Nat /\ cut \subseteq Processes
    BY BoundsAssumption DEF LifecycleInv, TypeOK
  <2> QED
    BY <2>1 DEF StopEnter, Processes
<1>5. TypeOK'
  BY <1>1, <1>2, <1>4 DEF tasks, LifecycleInv, TypeOK, LockInv, Points
<1> QED
  BY <1>2, <1>3, <1>5 DEF LifecycleInv

LEMMA StopClosedPreserves ==
    ASSUME LifecycleInv, NEW a \in Callers, StopClosed(a)
    PROVE  LifecycleInv'
<1>1. /\ Owns(a) /\ caller[a] = "close" /\ process' = 0 /\ writer' = 0
      /\ caller'[a] = "cancel" /\ caller' \in [Callers -> Points]
      /\ \A b \in Callers \ {a} :
            \/ caller'[b] = caller[b]
            \/ caller[b] = "reginfo" /\ caller'[b] = "refused"
      /\ UNCHANGED <<alive, created, cut, stopping, line, tasks, registration, replaced>>
  BY DEF StopClosed, At, Refused, LifecycleInv, LockInv, OwnerPoints, Points
<1>2. LockInv'
  BY <1>1, LineKept DEF LifecycleInv, LockPoints, OwnerPoints
<1>3. ProcessInv'
  BY <1>1 DEF LifecycleInv, ProcessInv, Terminating
<1>4. TypeOK'
  BY <1>1, <1>2, BoundsAssumption DEF tasks, LifecycleInv, TypeOK, LockInv, Points
<1> QED
  BY <1>2, <1>3, <1>4 DEF LifecycleInv

LEMMA StopDonePreserves ==
    ASSUME LifecycleInv, NEW a \in Callers, StopDone(a)
    PROVE  LifecycleInv'
<1>1. /\ Owns(a) /\ caller[a] = "cancel" /\ alive = {} /\ queue' = <<>> /\ CancelTasks
      /\ UNCHANGED <<handles, registration, replaced>>
  BY DEF StopDone, At, LifecycleInv, LockInv, OwnerPoints
<1>2. LockInv'
  BY <1>1, LeavePreserves, AskAgainPreserves DEF StopDone, AskAgain, LifecycleInv
<1>3. \A b \in Callers \ {a} : caller'[b] = caller[b]
  BY DEF StopDone, Leave, Goto, LifecycleInv, LockInv
<1>4. ProcessInv'
  BY <1>1 DEF handles, LifecycleInv, ProcessInv
<1>5. TypeOK'
  <2>1. queue' \in Seq(UNION {Reports(p) : p \in Processes}) /\ Len(queue') <= MaxQueued
    BY <1>1, BoundsAssumption
  <2>2. /\ running' \in [Readers -> SUBSET Processes]
        /\ held' \in [Readers -> 0..MaxProcesses]
    BY <1>1, CancelTasksTypes DEF LifecycleInv
  <2> QED
    BY <1>1, <1>2, <2>1, <2>2 DEF handles, LifecycleInv, TypeOK, LockInv, Points
<1> QED
  BY <1>2, <1>4, <1>5 DEF LifecycleInv

-----------------------------------------------------------------------------
(* The background tasks and baresip                                        *)

\* What changes neither a caller's place nor a process.
LEMMA TaskPreserves ==
    ASSUME LifecycleInv, UNCHANGED <<process, alive, created, stopping, line, caller, replaced>>,
           writer' \in 0..MaxProcesses, cut' \subseteq Processes,
           running' \in [Readers -> SUBSET Processes], held' \in [Readers -> 0..MaxProcesses],
           queue' \in Seq(UNION {Reports(p) : p \in Processes}), Len(queue') <= MaxQueued,
           registration' \in [state : {"unregistered", "registering", "registered", "error"},
                              by : 0..MaxProcesses]
    PROVE  LifecycleInv'
<1>1. LockInv'
  BY DEF LifecycleInv, LockInv, Owns
<1>2. ProcessInv'
  BY DEF LifecycleInv, ProcessInv
<1>3. TypeOK'
  BY DEF LifecycleInv, TypeOK
<1> QED
  BY <1>1, <1>2, <1>3 DEF LifecycleInv

LEMMA CtrlEventPreserves ==
    ASSUME LifecycleInv, NEW p \in Processes, CtrlEvent(p)
    PROVE  LifecycleInv'
<1>1. /\ queue \in Seq(UNION {Reports(q) : q \in Processes}) /\ Len(queue) < MaxQueued
      /\ MaxQueued \in Nat /\ Len(queue) \in Nat
  BY BoundsAssumption DEF CtrlEvent, LifecycleInv, TypeOK
<1>2. PICK report \in Reports(p) : queue' = Append(queue, report)
  BY DEF CtrlEvent
<1>3. queue' \in Seq(UNION {Reports(q) : q \in Processes}) /\ Len(queue') <= MaxQueued
  BY <1>1, <1>2
<1>4. /\ running' \in [Readers -> SUBSET Processes]
      /\ held' \in [Readers -> 0..MaxProcesses]
  BY DEF CtrlEvent, LifecycleInv, TypeOK, Readers, Processes
<1>5. UNCHANGED <<process, alive, created, stopping, line, caller, replaced, writer, cut,
                  registration>>
  BY DEF CtrlEvent, handles
<1> QED
  BY <1>3, <1>4, <1>5, TaskPreserves DEF LifecycleInv, TypeOK

LEMMA TakeEventPreserves ==
    ASSUME LifecycleInv, TakeEvent
    PROVE  LifecycleInv'
<1>1. queue \in Seq(UNION {Reports(q) : q \in Processes}) /\ queue # <<>>
      /\ Len(queue) <= MaxQueued /\ MaxQueued \in Nat
  BY BoundsAssumption DEF TakeEvent, LifecycleInv, TypeOK
<1>2. /\ Head(queue) \in UNION {Reports(q) : q \in Processes}
      /\ Tail(queue) \in Seq(UNION {Reports(q) : q \in Processes})
      /\ Len(Tail(queue)) <= MaxQueued
  BY <1>1
<1>3. PICK p \in Processes : registration' \in Reports(p)
  BY <1>2 DEF TakeEvent
<1>4. registration' \in [state : {"unregistered", "registering", "registered", "error"},
                         by : 0..MaxProcesses]
  BY <1>3, ReportsTyped DEF LifecycleInv, Processes
<1>5. UNCHANGED <<process, alive, created, stopping, line, caller, replaced, writer, cut,
                  running, held>>
  BY DEF TakeEvent, handles
<1> QED
  BY <1>2, <1>4, <1>5, TaskPreserves DEF TakeEvent, LifecycleInv, TypeOK

\* Whoever waits for the answer to reginfo is refused or, if it was read, done.
LEMMA CtrlEndsCallers ==
    ASSUME caller \in [Callers -> Points], NEW p, CtrlEnds(p), ~stopping
    PROVE  /\ caller' \in [Callers -> Points]
           /\ \A b \in Callers :
                \/ caller[b] # "reginfo" /\ caller'[b] = caller[b]
                \/ caller[b] = "reginfo" /\ caller'[b] \in {"refused", "done"}
<1>1. CASE caller' = Refused(caller)
  BY <1>1 DEF Refused, Points
<1>2. CASE \E r \in Refreshes : At(r, "reginfo") /\ caller' = [Refused(caller) EXCEPT ![r] = "done"]
  BY <1>2 DEF Refused, Points, At, Callers
<1> QED
  BY <1>1, <1>2 DEF CtrlEnds

LEMMA CtrlEndsPreserves ==
    ASSUME LifecycleInv, NEW p \in Processes, CtrlEnds(p)
    PROVE  LifecycleInv'
<1>1. /\ running' \in [Readers -> SUBSET Processes]
      /\ UNCHANGED <<process, alive, created, stopping, line, held, queue, replaced>>
  BY DEF CtrlEnds, LifecycleInv, TypeOK, Readers
<1>2. CASE stopping
  BY <1>1, <1>2, TaskPreserves DEF CtrlEnds, LifecycleInv, TypeOK
<1>3. CASE ~stopping
  <2>1. writer' = 0 /\ cut' = cut \cup ({writer} \ {0})
    BY <1>3 DEF CtrlEnds
  <2>2. /\ caller' \in [Callers -> Points]
        /\ \A b \in Callers :
              \/ caller'[b] = caller[b]
              \/ caller[b] = "reginfo" /\ caller'[b] \in {"refused", "done"}
    BY <1>3, CtrlEndsCallers DEF LifecycleInv, LockInv
  <2>3. LockInv'
    BY <1>1, <2>2, LineKept DEF LifecycleInv, LockPoints, OwnerPoints
  <2>4. ProcessInv'
    BY <1>1, <2>2, ProcessesKept DEF LifecycleInv, Terminating
  <2>5. writer \in 0..MaxProcesses /\ MaxProcesses \in Nat /\ cut \subseteq Processes
    BY BoundsAssumption DEF LifecycleInv, TypeOK
  <2>6. writer' \in 0..MaxProcesses /\ cut' \subseteq Processes
    BY <2>1, <2>5 DEF Processes
  <2>7. registration' \in [state : {"unregistered", "registering", "registered", "error"},
                           by : 0..MaxProcesses]
    <3>1. CASE registration' = Status("error")
      BY <2>5, <3>1 DEF Status
    <3>2. CASE registration' \in Reports(p)
      BY <2>5, <3>2, ReportsTyped DEF LifecycleInv, Processes
    <3> QED
      BY <1>3, <3>1, <3>2 DEF CtrlEnds
  <2>8. TypeOK'
    BY <1>1, <2>3, <2>6, <2>7 DEF LifecycleInv, TypeOK, LockInv, Points
  <2> QED
    BY <2>3, <2>4, <2>8 DEF LifecycleInv
<1> QED
  BY <1>2, <1>3

LEMMA StdoutPreserves ==
    ASSUME LifecycleInv, NEW p \in Processes, StdoutLine(p) \/ StdoutEnds(p)
    PROVE  LifecycleInv'
<1>1. /\ running' \in [Readers -> SUBSET Processes]
      /\ UNCHANGED <<process, alive, created, stopping, line, caller, replaced, writer, cut,
                     held, queue>>
  BY DEF StdoutLine, StdoutEnds, handles, tasks, LifecycleInv, TypeOK, Readers
<1>2. registration' \in [state : {"unregistered", "registering", "registered", "error"},
                         by : 0..MaxProcesses]
  <2>1. CASE StdoutLine(p)
    BY <2>1, ReportsTyped DEF StdoutLine, LifecycleInv, Processes
  <2>2. CASE StdoutEnds(p)
    BY <2>2, BoundsAssumption DEF StdoutEnds, Status, LifecycleInv, TypeOK
  <2> QED
    BY <2>1, <2>2
<1> QED
  BY <1>1, <1>2, TaskPreserves DEF LifecycleInv, TypeOK

LEMMA ExitsPreserves ==
    ASSUME LifecycleInv, NEW p \in Processes, Exits(p)
    PROVE  LifecycleInv'
<1>1. /\ alive' \subseteq alive
      /\ UNCHANGED <<process, created, writer, cut, stopping, line, caller, tasks, registration,
                     replaced>>
  BY DEF Exits
<1>2. LockInv'
  BY <1>1 DEF LifecycleInv, LockInv, Owns
<1>3. ProcessInv'
  BY <1>1, ProcessesKept DEF LifecycleInv
<1>4. TypeOK'
  BY <1>1 DEF tasks, LifecycleInv, TypeOK
<1> QED
  BY <1>2, <1>3, <1>4 DEF LifecycleInv

LEMMA ConnectionDropsPreserves ==
    ASSUME LifecycleInv, ConnectionDrops
    PROVE  LifecycleInv'
<1>1. writer \in 0..MaxProcesses /\ MaxProcesses \in Nat /\ cut \subseteq Processes
  BY BoundsAssumption DEF LifecycleInv, TypeOK
<1>2. /\ cut' \subseteq Processes
      /\ UNCHANGED <<process, alive, created, writer, stopping, line, caller, tasks,
                     registration, replaced>>
  BY <1>1 DEF ConnectionDrops, Processes
<1> QED
  BY <1>2, TaskPreserves DEF tasks, LifecycleInv, TypeOK

-----------------------------------------------------------------------------
LEMMA LifecycleInvNext == LifecycleInv /\ [Next]_vars => LifecycleInv'
<1> SUFFICES ASSUME LifecycleInv, [Next]_vars PROVE LifecycleInv'
  OBVIOUS
<1>1. CASE MainStart \/ ShutdownStop
  BY <1>1, MainStartPreserves, ShutdownStopPreserves
<1>2. ASSUME NEW r \in Refreshes, Refresh(r) PROVE LifecycleInv'
  BY <1>2, RefreshPreserves
<1>3. ASSUME NEW a \in Callers, CallerStep(a) PROVE LifecycleInv'
  <2>1. CASE StartEnter(a) \/ Spawned(a) \/ SpawnFailed(a) \/ Connected(a) \/ ConnectFailed(a)
    BY <2>1, StartEnterPreserves, SpawnedPreserves, SpawnFailedPreserves, ConnectedPreserves,
       ConnectFailedPreserves
  <2>2. CASE Abandoned(a) \/ StopEnter(a) \/ StopClosed(a) \/ StopDone(a)
    BY <2>2, AbandonedPreserves, StopEnterPreserves, StopClosedPreserves, StopDonePreserves
  <2>3. CASE Reginfo(a) \/ ReginfoFailed(a)
    BY <2>3, ReginfoPreserves
  <2> QED
    BY <1>3, <2>1, <2>2, <2>3 DEF CallerStep
<1>4. ASSUME NEW p \in Processes, TaskStep(p) PROVE LifecycleInv'
  BY <1>4, CtrlEventPreserves, CtrlEndsPreserves, StdoutPreserves, ExitsPreserves DEF TaskStep
<1>5. CASE TakeEvent \/ ConnectionDrops
  BY <1>5, TakeEventPreserves, ConnectionDropsPreserves
<1>6. CASE UNCHANGED vars
  BY <1>6, TaskPreserves DEF vars, handles, tasks, LifecycleInv, TypeOK
<1> QED
  BY <1>1, <1>2, <1>3, <1>4, <1>5, <1>6 DEF Next

LEMMA LifecycleInvHolds == Spec => []LifecycleInv
BY LifecycleInvInit, LifecycleInvNext, PTL DEF Spec

\* Types, and no caller twice in the line of the lifecycle lock.
THEOREM LifecycleTypes == Spec => []TypeOK
<1>1. LifecycleInv => TypeOK
  BY DEF LifecycleInv
<1> QED
  BY <1>1, LifecycleInvHolds, PTL

\* Never two SIP clients, and always somebody to stop the one there is, for any
\* number of refreshes that overlap with start and shutdown (start, stop, refresh).
THEOREM LifecycleOneProcess == Spec => []OneProcess
<1>1. LifecycleInv => OneProcess
  <2> SUFFICES ASSUME LifecycleInv, ~(alive \subseteq {process}) PROVE OneProcess
    BY DEF OneProcess
  <2>1. PICK a \in Callers : caller[a] \in Terminating
    BY DEF LifecycleInv, ProcessInv
  <2>2. line # <<>> /\ caller[Head(line)] \in Terminating
    BY <2>1 DEF LifecycleInv, LockInv, OwnerPoints, Terminating, Owns
  <2>3. PICK p : alive = {p}
    BY DEF LifecycleInv, ProcessInv
  <2>4. Cardinality(alive) = 1
    BY <2>3, FS_Singleton
  <2> QED
    BY <2>2, <2>4 DEF OneProcess
<1> QED
  BY <1>1, LifecycleInvHolds, PTL

-----------------------------------------------------------------------------
(* What belongs to which process                                           *)

In(points) == \E a \in Callers : caller[a] \in points
Empty == held = NoTasks /\ queue = <<>>

\* OfCurrentProcess says nothing while the adapter has no process.  Then, unless the
\* last one is still being terminated, there are neither tasks nor events; and a
\* process that has never been connected has caused no events.
CurrentInv ==
    /\ \A k \in Readers : running[k] \subseteq {held[k]}
    /\ writer \in {0, process}
    /\ In({"reginfo"}) => writer # 0
    /\ In({"spawn", "abandon", "cancel"}) => process = 0
    /\ In({"spawn"}) => registration.by = 0
    /\ In({"connect", "abandon"}) => writer = 0 /\ held["ctrl"] = 0 /\ queue = <<>>
    /\ process = 0 => Empty \/ In(Terminating)
    /\ process # 0 =>
         /\ \A k \in Readers : held[k] \in {0, process}
         /\ \A i \in 1..Len(queue) : queue[i].by = process
         /\ registration.by \in {0, process}
Current == ~replaced => CurrentInv

\* While the owner of the lock acts, nobody else is past it.
LEMMA OwnerIn ==
    ASSUME LifecycleInv, NEW a \in Callers, Owns(a),
           \A b \in Callers \ {a} : caller'[b] \in {caller[b], "refused"}
    PROVE  /\ In({"spawn"}) => caller[a] = "spawn"
           /\ In({"spawn", "abandon", "cancel"}) => caller[a] \in {"spawn", "abandon", "cancel"}
           /\ In({"connect", "abandon"}) => caller[a] \in {"connect", "abandon"}
           /\ In(Terminating) => caller[a] \in Terminating
           /\ In({"spawn"})' => caller'[a] = "spawn"
           /\ In({"spawn", "abandon", "cancel"})' => caller'[a] \in {"spawn", "abandon", "cancel"}
           /\ In({"connect", "abandon"})' => caller'[a] \in {"connect", "abandon"}
           /\ In({"reginfo"})' => In({"reginfo"}) \/ caller'[a] = "reginfo"
BY OwnerAlone DEF In, Terminating, OwnerPoints, LifecycleInv

\* A step of somebody who is not past the lock.
SamePlace(b) == {caller[b], caller'[b]} \cap OwnerPoints # {} => caller'[b] = caller[b]

LEMMA OthersIn ==
    ASSUME \A b \in Callers : SamePlace(b)
    PROVE  /\ In({"spawn"})' <=> In({"spawn"})
           /\ In({"spawn", "abandon", "cancel"})' <=> In({"spawn", "abandon", "cancel"})
           /\ In({"connect", "abandon"})' <=> In({"connect", "abandon"})
           /\ In(Terminating)' <=> In(Terminating)
BY DEF SamePlace, In, Terminating, OwnerPoints

\* Without a task that the adapter refers to, none of the kind runs.
LEMMA NoneRuns ==
    ASSUME TypeOK, CurrentInv, NEW k \in Readers, held[k] = 0
    PROVE  running[k] = {}
<1>1. running[k] \subseteq {0} /\ running[k] \subseteq Processes
  BY DEF TypeOK, CurrentInv
<1>2. 0 \notin Processes
  BY BoundsAssumption DEF Processes
<1> QED BY <1>1, <1>2

\* A task that runs is one of the process the adapter has, if it has one.
LEMMA RunsForProcess ==
    ASSUME TypeOK, CurrentInv, NEW k \in Readers, NEW p \in running[k]
    PROVE  /\ p = held[k] /\ held[k] # 0
           /\ process # 0 => p = process
           /\ process = 0 => In(Terminating)
<1>1. p = held[k]
  BY DEF CurrentInv
<1>2. held[k] # 0
  BY NoneRuns
<1>3. process = 0 => In(Terminating)
  BY <1>2 DEF CurrentInv, Empty, NoTasks
<1> QED BY <1>1, <1>2, <1>3 DEF CurrentInv

LEMMA StartEnterCurrent ==
    ASSUME LifecycleInv, Current, NEW a \in Callers, StartEnter(a)
    PROVE  Current'
<1>1. /\ caller[a] = "start" /\ Owns(a) /\ caller \in [Callers -> Points]
      /\ UNCHANGED <<process, alive, created, writer, cut, tasks>>
  BY DEF StartEnter, At, LifecycleInv, LockInv
<1>2. CASE Alive(process)
  <2>1. Leave(a, "done") /\ UNCHANGED <<registration, replaced>>
    BY <1>2 DEF StartEnter
  <2>2. caller'[a] = "done" /\ \A b \in Callers \ {a} : caller'[b] = caller[b]
    BY <1>1, <2>1 DEF Leave, Goto
  <2>3. process # 0
    BY <1>2, BoundsAssumption DEF Alive, LifecycleInv, TypeOK, Processes
  <2> QED BY <1>1, <2>1, <2>2, <2>3, OwnerIn DEF Current, CurrentInv, tasks
<1>3. CASE ~Alive(process)
  <2>1. /\ registration' = Status("registering") /\ Goto(a, "spawn")
        /\ replaced' = (replaced \/ process # 0)
    BY <1>3 DEF StartEnter
  <2>2. caller'[a] = "spawn" /\ \A b \in Callers \ {a} : caller'[b] = caller[b]
    BY <1>1, <2>1 DEF Goto
  <2>3. ~In(Terminating) /\ ~In({"connect", "abandon"})' /\ (In({"reginfo"})' => In({"reginfo"}))
    BY <1>1, <2>2, OwnerIn DEF Terminating
  <2>4. ASSUME ~replaced' PROVE CurrentInv'
    <3>1. ~replaced /\ process = 0 /\ CurrentInv /\ Empty
      BY <2>1, <2>3, <2>4 DEF Current, CurrentInv
    <3> QED BY <1>1, <2>1, <2>3, <3>1 DEF CurrentInv, Empty, tasks, Status
  <2> QED BY <2>4 DEF Current
<1> QED BY <1>2, <1>3

LEMMA SpawnedCurrent ==
    ASSUME LifecycleInv, Current, NEW a \in Callers, Spawned(a)
    PROVE  Current'
<1> DEFINE p == created + 1
<1>1. /\ caller[a] = "spawn" /\ Owns(a) /\ p \in Processes /\ process' = p /\ p # 0
      /\ UNCHANGED <<writer, queue, registration, replaced>>
  BY BoundsAssumption DEF Spawned, At, LifecycleInv, LockInv, OwnerPoints, Processes
<1>2. caller'[a] = "connect" /\ \A b \in Callers \ {a} : caller'[b] = caller[b]
  BY DEF Spawned, Goto, LifecycleInv, LockInv
<1> SUFFICES ASSUME CurrentInv PROVE CurrentInv'
  BY <1>1 DEF Current
<1>3. In({"spawn"}) /\ In({"spawn", "abandon", "cancel"}) /\ ~In(Terminating)
  <2>1. In({"spawn"}) /\ In({"spawn", "abandon", "cancel"})
    BY <1>1 DEF In
  <2>2. ~In(Terminating)
    BY <1>1, <1>2, OwnerIn DEF Terminating
  <2> QED BY <2>1, <2>2
<1>4. process = 0 /\ Empty /\ writer = 0 /\ registration.by = 0
  BY <1>3 DEF CurrentInv
<1>5. \A k \in Readers : running[k] = {}
  BY <1>4, NoneRuns DEF Empty, NoTasks, LifecycleInv
<1>6. held' = [k \in Readers |-> IF k \in {"stdout", "worker"} THEN p ELSE 0]
  BY <1>4 DEF Spawned, Empty, NoTasks, Readers
<1>7. \A k \in Readers : running'[k] \subseteq {held'[k]} /\ held'[k] \in {0, p}
  <2>1. \A k \in Readers : running'[k] = IF k \in {"stdout", "worker"} THEN {p} ELSE {}
    BY <1>5 DEF Spawned, Readers, LifecycleInv, TypeOK
  <2> QED BY <1>6, <2>1
<1>8. \A i \in 1..Len(queue') : queue'[i].by = p
  BY <1>1, <1>4 DEF Empty
<1>9. /\ ~In({"spawn"})' /\ ~In({"spawn", "abandon", "cancel"})'
      /\ In({"reginfo"})' => In({"reginfo"})
  BY <1>1, <1>2, OwnerIn
<1> HIDE DEF p
<1>10. held'["ctrl"] = 0
  BY <1>6 DEF Readers
<1>11. queue' = <<>>
  BY <1>1, <1>4 DEF Empty
<1> QED BY <1>1, <1>4, <1>7, <1>8, <1>9, <1>10, <1>11 DEF CurrentInv

\* The owner leaves the lock with nothing but the registration changed.
LEMMA SpawnFailedCurrent ==
    ASSUME LifecycleInv, Current, NEW a \in Callers, SpawnFailed(a)
    PROVE  Current'
<1>1. /\ caller[a] = "spawn" /\ Owns(a) /\ registration' = Status("error")
      /\ UNCHANGED <<process, writer, running, held, queue, replaced>>
  BY DEF SpawnFailed, At, Raise, handles, tasks, LifecycleInv, LockInv, OwnerPoints
<1>2. caller'[a] = "done" /\ \A b \in Callers \ {a} : caller'[b] = caller[b]
  BY DEF SpawnFailed, Raise, Leave, Goto, LifecycleInv, LockInv
<1> QED BY <1>1, <1>2, OwnerIn DEF Current, CurrentInv, Empty, Terminating, Status

LEMMA ConnectedCurrent ==
    ASSUME LifecycleInv, Current, NEW a \in Callers, Connected(a)
    PROVE  Current'
<1>1. /\ caller[a] = "connect" /\ Owns(a) /\ writer' = process /\ process \in Processes
      /\ UNCHANGED <<process, queue, registration, replaced>>
  BY DEF Connected, At, Alive, LifecycleInv, TypeOK, LockInv, OwnerPoints
<1>2. caller'[a] = "done" /\ \A b \in Callers \ {a} : caller'[b] = caller[b]
  BY DEF Connected, Leave, Goto, LifecycleInv, LockInv
<1> SUFFICES ASSUME CurrentInv PROVE CurrentInv'
  BY <1>1 DEF Current
<1>4. process # 0 /\ held["ctrl"] = 0
  BY <1>1, BoundsAssumption DEF CurrentInv, In, Processes
<1>5. running["ctrl"] = {}
  BY <1>4, NoneRuns DEF LifecycleInv, Readers
<1>6. \A k \in Readers : running'[k] \subseteq {held'[k]} /\ held'[k] \in {0, process}
  BY <1>4, <1>5 DEF Connected, CurrentInv, Readers, LifecycleInv, TypeOK
<1> QED BY <1>1, <1>2, <1>4, <1>6, OwnerIn DEF CurrentInv

LEMMA ConnectFailedCurrent ==
    ASSUME LifecycleInv, Current, NEW a \in Callers, ConnectFailed(a)
    PROVE  Current'
<1>1. /\ caller[a] = "connect" /\ Owns(a) /\ process' = 0
      /\ UNCHANGED <<writer, running, held, queue, registration, replaced>>
  BY DEF ConnectFailed, At, tasks, LifecycleInv, LockInv, OwnerPoints
<1>2. caller'[a] = "abandon" /\ \A b \in Callers \ {a} : caller'[b] = caller[b]
  BY DEF ConnectFailed, Goto, LifecycleInv, LockInv
<1>3. In(Terminating)'
  BY <1>2 DEF In, Terminating
<1>4. In({"connect", "abandon"})
  BY <1>1 DEF In
<1> QED BY <1>1, <1>2, <1>3, <1>4, OwnerIn DEF Current, CurrentInv

\* After the tasks have been cancelled, none runs.
LEMMA CancelledTasks ==
    ASSUME TypeOK, CurrentInv, CancelTasks
    PROVE  held' = NoTasks /\ \A k \in Readers : running'[k] = {}
BY DEF CancelTasks, CurrentInv

LEMMA AbandonedCurrent ==
    ASSUME LifecycleInv, Current, NEW a \in Callers, Abandoned(a)
    PROVE  Current'
<1>1. /\ caller[a] = "abandon" /\ Owns(a) /\ CancelTasks
      /\ UNCHANGED <<process, writer, queue, replaced>>
  BY DEF Abandoned, At, handles, LifecycleInv, LockInv, OwnerPoints
<1>2. caller'[a] = "done" /\ \A b \in Callers \ {a} : caller'[b] = caller[b]
  BY DEF Abandoned, Raise, Leave, Goto, LifecycleInv, LockInv
<1> SUFFICES ASSUME CurrentInv PROVE CurrentInv'
  BY <1>1 DEF Current
<1>4. process = 0 /\ queue = <<>>
  BY <1>1 DEF CurrentInv, In
<1>5. held' = NoTasks /\ \A k \in Readers : running'[k] = {}
  BY <1>1, CancelledTasks DEF LifecycleInv
<1> QED BY <1>1, <1>2, <1>4, <1>5, OwnerIn DEF CurrentInv, Empty

\* Somebody outside the lock moves, and nothing that belongs to a process changes.
LEMMA OutsideCurrent ==
    ASSUME Current, UNCHANGED <<process, writer, running, held, queue, registration, replaced>>,
           \A b \in Callers : SamePlace(b),
           In({"reginfo"})' => In({"reginfo"}) \/ writer # 0
    PROVE  Current'
BY OthersIn DEF Current, CurrentInv, Empty

LEMMA RequestCurrent ==
    ASSUME LifecycleInv, Current, MainStart \/ ShutdownStop \/ \E r \in Refreshes : Refresh(r)
    PROVE  Current'
<1>0. caller \in [Callers -> Points] /\ Refreshes \subseteq Callers
      /\ "main" \in Callers /\ "shutdown" \in Callers
  BY DEF LifecycleInv, LockInv, Callers
<1>1. ASSUME NEW a \in Callers, NEW point \in {"start", "stop"}, At(a, "idle"), Ask(a, point),
             UNCHANGED <<handles, tasks, registration, replaced>>
      PROVE  Current'
  <2>1. caller[a] = "idle" /\ caller'[a] = point /\ \A b \in Callers \ {a} : caller'[b] = caller[b]
    BY <1>0, <1>1 DEF At, Ask, Goto
  <2>2. In({"reginfo"})' => In({"reginfo"})
    BY <2>1 DEF In
  <2>3. /\ \A b \in Callers : SamePlace(b)
        /\ UNCHANGED <<process, writer, running, held, queue, registration, replaced>>
    BY <1>1, <2>1 DEF handles, tasks, OwnerPoints, SamePlace
  <2> QED BY <2>2, <2>3, OutsideCurrent
<1>2. CASE MainStart \/ ShutdownStop
  BY <1>0, <1>1, <1>2 DEF MainStart, ShutdownStop
<1>3. ASSUME NEW r \in Refreshes, Refresh(r)
      PROVE  Current'
  <2>1. CASE Ask(r, "stop")
    BY <1>0, <1>1, <1>3, <2>1 DEF Refresh
  <2>2. CASE writer # 0 /\ Goto(r, "reginfo")
    <3>1. /\ caller[r] = "idle" /\ caller'[r] = "reginfo"
          /\ \A b \in Callers \ {r} : caller'[b] = caller[b]
      BY <1>0, <1>3, <2>2 DEF Refresh, At, Goto
    <3>2. /\ \A b \in Callers : SamePlace(b)
          /\ UNCHANGED <<process, writer, running, held, queue, registration, replaced>>
      BY <1>3, <3>1 DEF Refresh, handles, tasks, OwnerPoints, SamePlace
    <3> QED BY <2>2, <3>2, OutsideCurrent
  <2> QED BY <1>3, <2>1, <2>2 DEF Refresh
<1> QED BY <1>2, <1>3

\* What is published while tasks run is about the process the adapter has.
LEMMA PublishedCurrent ==
    ASSUME Current, UNCHANGED <<process, writer, held, replaced>>,
           \A b \in Callers : SamePlace(b),
           In({"reginfo"})' => In({"reginfo"}),
           CurrentInv => /\ \A k \in Readers : running'[k] \subseteq running[k]
                         /\ queue' = queue \/ (queue' = Tail(queue) /\ queue # <<>>)
                         /\ queue \in Seq(UNION {Reports(p) : p \in Processes})
                         /\ \/ registration'.by \in {0, registration.by}
                            \/ process # 0 /\ registration'.by = process
                            \/ process = 0 /\ ~In({"spawn"})
    PROVE  Current'
<1> SUFFICES ASSUME CurrentInv, ~replaced PROVE CurrentInv'
  BY DEF Current
<1>1. /\ In({"spawn"})' <=> In({"spawn"})
      /\ In({"spawn", "abandon", "cancel"})' <=> In({"spawn", "abandon", "cancel"})
      /\ In({"connect", "abandon"})' <=> In({"connect", "abandon"})
      /\ In(Terminating)' <=> In(Terminating)
  BY OthersIn
<1>2. \A k \in Readers : running'[k] \subseteq {held'[k]}
  BY DEF CurrentInv
<1>3. queue = <<>> => queue' = <<>>
  OBVIOUS
<1>4. process # 0 => \A i \in 1..Len(queue') : queue'[i].by = process
  <2>1. CASE queue' = queue
    BY <2>1 DEF CurrentInv
  <2>2. CASE queue' = Tail(queue) /\ queue # <<>>
    <3> SUFFICES ASSUME process # 0, NEW i \in 1..Len(queue')
                 PROVE  queue'[i].by = process
      OBVIOUS
    <3>1. i + 1 \in 1..Len(queue) /\ queue'[i] = queue[i + 1]
      BY <2>2
    <3> QED BY <3>1 DEF CurrentInv
  <2> QED BY <2>1, <2>2
<1>5. /\ In({"spawn"}) => registration'.by = 0
      /\ process # 0 => registration'.by \in {0, process}
  <2>1. In({"spawn"}) => process = 0
    BY DEF In, CurrentInv
  <2> QED BY <2>1 DEF CurrentInv
<1> QED BY <1>1, <1>2, <1>3, <1>4, <1>5 DEF CurrentInv, Empty

LEMMA ReginfoCurrent ==
    ASSUME LifecycleInv, Current, NEW a \in Callers, Reginfo(a) \/ ReginfoFailed(a)
    PROVE  Current'
<1>1. /\ caller[a] \in {"reginfo", "refused"} /\ caller'[a] = "done"
      /\ \A b \in Callers \ {a} : caller'[b] = caller[b]
      /\ UNCHANGED <<process, writer, running, held, queue, replaced>>
  BY DEF Reginfo, ReginfoFailed, At, Goto, handles, tasks, LifecycleInv, LockInv
<1>2. In({"reginfo"})' => In({"reginfo"})
  BY <1>1 DEF In
<1>3. CurrentInv => registration'.by \in {0, registration.by}
                    \/ (process # 0 /\ registration'.by = process)
  <2>1. CASE Reginfo(a)
    <3>1. In({"reginfo"})
      BY <2>1 DEF Reginfo, At, In
    <3>2. CurrentInv => writer = process /\ process # 0
      BY <3>1 DEF CurrentInv
    <3>3. registration'.by \in {writer, registration.by}
      BY <2>1 DEF Reginfo, Reports
    <3> QED BY <3>2, <3>3
  <2>2. CASE ReginfoFailed(a)
    BY <2>2 DEF ReginfoFailed, Status
  <2> QED BY <2>1, <2>2
<1>4. /\ \A b \in Callers : SamePlace(b)
      /\ queue \in Seq(UNION {Reports(p) : p \in Processes})
  BY <1>1 DEF LifecycleInv, TypeOK, OwnerPoints, SamePlace
<1> QED BY <1>1, <1>2, <1>3, <1>4, PublishedCurrent

LEMMA StopEnterCurrent ==
    ASSUME LifecycleInv, Current, NEW a \in Callers, StopEnter(a)
    PROVE  Current'
<1>1. /\ caller[a] = "stop" /\ Owns(a)
      /\ UNCHANGED <<process, writer, running, held, queue, registration, replaced>>
  BY DEF StopEnter, At, tasks
<1>2. caller'[a] = "close" /\ \A b \in Callers \ {a} : caller'[b] = caller[b]
  BY DEF StopEnter, Goto, LifecycleInv, LockInv
<1> QED BY <1>1, <1>2, OwnerIn DEF Current, CurrentInv, Empty, Terminating

LEMMA StopClosedCurrent ==
    ASSUME LifecycleInv, Current, NEW a \in Callers, StopClosed(a)
    PROVE  Current'
<1>1. /\ Owns(a) /\ process' = 0 /\ writer' = 0 /\ caller'[a] = "cancel"
      /\ \A b \in Callers \ {a} : caller'[b] = IF caller[b] = "reginfo" THEN "refused"
                                                                     ELSE caller[b]
      /\ UNCHANGED <<running, held, queue, registration, replaced>>
  BY DEF StopClosed, At, Refused, tasks, LifecycleInv, LockInv, OwnerPoints
<1>2. In(Terminating)' /\ ~In({"reginfo"})'
  BY <1>1 DEF In, Terminating
<1>3. ~In({"spawn"})' /\ ~In({"connect", "abandon"})'
  BY <1>1, OwnerIn
<1> QED BY <1>1, <1>2, <1>3 DEF Current, CurrentInv

LEMMA StopDoneCurrent ==
    ASSUME LifecycleInv, Current, NEW a \in Callers, StopDone(a)
    PROVE  Current'
<1>1. /\ Owns(a) /\ caller[a] = "cancel" /\ queue' = <<>> /\ CancelTasks
      /\ UNCHANGED <<process, writer, registration, replaced>>
  BY DEF StopDone, At, handles, LifecycleInv, LockInv, OwnerPoints
<1>2. caller'[a] \in {"done", "start"} /\ \A b \in Callers \ {a} : caller'[b] = caller[b]
  BY DEF StopDone, Leave, Goto, LifecycleInv, LockInv
<1> SUFFICES ASSUME CurrentInv PROVE CurrentInv'
  BY <1>1 DEF Current
<1>3. In({"spawn", "abandon", "cancel"})
  BY <1>1 DEF In
<1>4. held' = NoTasks /\ \A k \in Readers : running'[k] = {}
  BY <1>1, CancelledTasks DEF LifecycleInv
<1> QED BY <1>1, <1>2, <1>3, <1>4, OwnerIn DEF CurrentInv, Empty

\* While a process is being terminated, none is being created.
LEMMA TerminatingAlone ==
    ASSUME LifecycleInv, In(Terminating)
    PROVE  ~In({"spawn"})
BY OwnerAlone DEF In, Terminating, OwnerPoints, LifecycleInv, LockInv

LEMMA CtrlEventCurrent ==
    ASSUME LifecycleInv, Current, NEW p \in Processes, CtrlEvent(p)
    PROVE  Current'
<1>1. /\ p \in running["ctrl"]
      /\ UNCHANGED <<process, writer, caller, registration, replaced>>
  BY DEF CtrlEvent, handles
<1> SUFFICES ASSUME CurrentInv PROVE CurrentInv'
  BY <1>1 DEF Current
<1>2. /\ held["ctrl"] # 0 /\ (process # 0 => p = process)
      /\ process = 0 => In(Terminating)
  BY <1>1, RunsForProcess DEF LifecycleInv, Readers
<1>3. ~In({"connect", "abandon"})
  BY <1>2 DEF CurrentInv
<1>4. \A k \in Readers : running'[k] \subseteq {held'[k]} /\ (process # 0 => held'[k] \in {0, process})
  <2>1. CASE held["worker"] = 0
    <3>1. running["worker"] = {}
      BY <2>1, NoneRuns DEF LifecycleInv, Readers
    <3>2. \A k \in Readers : IF k = "worker" THEN running'[k] = {p} /\ held'[k] = p
                            ELSE running'[k] = running[k] /\ held'[k] = held[k]
      BY <2>1, <3>1 DEF CtrlEvent, LifecycleInv, TypeOK, Readers
    <3> QED BY <1>2, <3>2 DEF CurrentInv
  <2>2. CASE held["worker"] # 0
    BY <2>2 DEF CtrlEvent, CurrentInv
  <2> QED BY <2>1, <2>2
<1>5. process # 0 => \A i \in 1..Len(queue') : queue'[i].by = process
  <2> SUFFICES ASSUME process # 0, NEW i \in 1..Len(queue')
               PROVE  queue'[i].by = process
    OBVIOUS
  <2>1. PICK report \in Reports(p) : queue' = Append(queue, report)
    BY DEF CtrlEvent
  <2>2. report.by = process
    BY <1>2 DEF Reports
  <2>3. queue'[i] = report \/ (i \in 1..Len(queue) /\ queue'[i] = queue[i])
    BY <2>1 DEF LifecycleInv, TypeOK
  <2> QED BY <2>2, <2>3 DEF CurrentInv
<1>6. (\A b \in Callers : SamePlace(b)) /\ (In({"reginfo"})' => In({"reginfo"}))
  BY <1>1 DEF SamePlace, In
<1>7. /\ In({"spawn"})' => In({"spawn"})
      /\ In({"spawn", "abandon", "cancel"})' => In({"spawn", "abandon", "cancel"})
      /\ ~In({"connect", "abandon"})'
      /\ In(Terminating) => In(Terminating)'
  BY <1>3, <1>6, OthersIn
<1>8. \A k \in Readers : running'[k] \subseteq {held'[k]}
  BY <1>4
<1>9. process' # 0 => /\ \A k \in Readers : held'[k] \in {0, process'}
                      /\ \A i \in 1..Len(queue') : queue'[i].by = process'
                      /\ registration'.by \in {0, process'}
  BY <1>1, <1>4, <1>5 DEF CurrentInv
<1>10. /\ writer' \in {0, process'}
       /\ In({"reginfo"})' => writer' # 0
       /\ In({"spawn", "abandon", "cancel"})' => process' = 0
       /\ In({"spawn"})' => registration'.by = 0
       /\ process' = 0 => In(Terminating)'
  BY <1>1, <1>2, <1>6, <1>7 DEF CurrentInv
<1> QED BY <1>7, <1>8, <1>9, <1>10 DEF CurrentInv

LEMMA TakeEventCurrent ==
    ASSUME LifecycleInv, Current, TakeEvent
    PROVE  Current'
<1>1. /\ queue # <<>> /\ registration' = Head(queue) /\ queue' = Tail(queue)
      /\ UNCHANGED <<process, writer, running, held, replaced, caller>>
      /\ queue \in Seq(UNION {Reports(p) : p \in Processes})
  BY DEF TakeEvent, handles, LifecycleInv, TypeOK
<1>2. CurrentInv => registration'.by \in {0, registration.by}
                    \/ (process # 0 /\ registration'.by = process)
                    \/ (process = 0 /\ ~In({"spawn"}))
  <2> SUFFICES ASSUME CurrentInv
               PROVE  (process # 0 /\ registration'.by = process)
                      \/ (process = 0 /\ ~In({"spawn"}))
    OBVIOUS
  <2>1. CASE process # 0
    <3>1. Head(queue) = queue[1] /\ 1 \in 1..Len(queue)
      BY <1>1
    <3> QED BY <1>1, <2>1, <3>1 DEF CurrentInv
  <2>2. CASE process = 0
    BY <1>1, <2>2, TerminatingAlone DEF CurrentInv, Empty
  <2> QED BY <2>1, <2>2
<1>3. \A b \in Callers : SamePlace(b)
  BY <1>1 DEF SamePlace
<1>4. In({"reginfo"})' => In({"reginfo"})
  BY <1>1 DEF In
<1> QED BY <1>1, <1>2, <1>3, <1>4, PublishedCurrent

LEMMA CtrlEndsCurrent ==
    ASSUME LifecycleInv, Current, NEW p \in Processes, CtrlEnds(p)
    PROVE  Current'
<1>1. /\ \A k \in Readers : running'[k] \subseteq running[k]
      /\ UNCHANGED <<process, held, queue, replaced>>
      /\ queue \in Seq(UNION {Reports(q) : q \in Processes})
  BY DEF CtrlEnds, LifecycleInv, TypeOK, Readers
<1>2. CASE stopping
  <2>1. UNCHANGED <<writer, caller, registration>>
    BY <1>2 DEF CtrlEnds
  <2>2. (\A b \in Callers : SamePlace(b)) /\ (In({"reginfo"})' => In({"reginfo"}))
    BY <2>1 DEF SamePlace, In
  <2> QED BY <1>1, <2>1, <2>2, PublishedCurrent
<1>3. CASE ~stopping
  <2>1. /\ writer' = 0
        /\ registration' = Status("error") \/ registration' \in Reports(p)
        /\ \A b \in Callers :
             \/ caller[b] # "reginfo" /\ caller'[b] = caller[b]
             \/ caller[b] = "reginfo" /\ caller'[b] \in {"refused", "done"}
    BY <1>3, CtrlEndsCallers DEF CtrlEnds, LifecycleInv, LockInv
  <2>2. ~In({"reginfo"})'
    BY <2>1 DEF In
  <2>3. \A b \in Callers : SamePlace(b)
    BY <2>1 DEF SamePlace, OwnerPoints
  <2>4. CurrentInv => \/ registration'.by = 0
                      \/ process # 0 /\ registration'.by = process
                      \/ process = 0 /\ ~In({"spawn"})
    <3>1. CASE registration' = Status("error")
      BY <3>1 DEF Status
    <3>2. CASE registration' \in Reports(p)
      <4>1. p \in running["ctrl"] /\ "ctrl" \in Readers /\ registration'.by = p
        BY <3>2 DEF CtrlEnds, Readers, Reports
      <4> QED BY <4>1, RunsForProcess, TerminatingAlone DEF LifecycleInv
    <3> QED BY <2>1, <3>1, <3>2
  <2>5. ASSUME CurrentInv, ~replaced PROVE CurrentInv'
    <3>1. /\ In({"spawn"})' <=> In({"spawn"})
          /\ In({"spawn", "abandon", "cancel"})' <=> In({"spawn", "abandon", "cancel"})
          /\ In({"connect", "abandon"})' <=> In({"connect", "abandon"})
          /\ In(Terminating)' <=> In(Terminating)
      BY <2>3, OthersIn
    <3>2. In({"spawn"}) => process = 0 /\ registration'.by = 0
      <4>1. In({"spawn"}) => In({"spawn", "abandon", "cancel"})
        BY DEF In
      <4> QED BY <2>4, <2>5, <4>1 DEF CurrentInv
    <3>3. process # 0 => registration'.by \in {0, process}
      BY <2>4, <2>5
    <3>4. \A k \in Readers : running'[k] \subseteq {held'[k]}
      BY <1>1, <2>5 DEF CurrentInv
    <3> QED BY <1>1, <2>1, <2>2, <2>5, <3>1, <3>2, <3>3, <3>4 DEF CurrentInv, Empty
  <2> QED BY <1>1, <2>5 DEF Current
<1> QED BY <1>2, <1>3

LEMMA StdoutCurrent ==
    ASSUME LifecycleInv, Current, NEW p \in Processes, StdoutLine(p) \/ StdoutEnds(p)
    PROVE  Current'
<1>1. /\ \A k \in Readers : running'[k] \subseteq running[k]
      /\ UNCHANGED <<process, writer, held, queue, replaced, caller>>
      /\ queue \in Seq(UNION {Reports(q) : q \in Processes})
      /\ p \in running["stdout"] /\ registration'.by \in {0, p, registration.by}
  <2>1. CASE StdoutLine(p)
    BY <2>1 DEF StdoutLine, Reports, handles, tasks, LifecycleInv, TypeOK
  <2>2. CASE StdoutEnds(p)
    <3>1. \A k \in Readers : running'[k] \subseteq running[k]
      BY <2>2 DEF StdoutEnds, LifecycleInv, TypeOK, Readers
    <3>2. registration'.by \in {0, registration.by}
      BY <2>2 DEF StdoutEnds, Status
    <3> QED BY <2>2, <3>1, <3>2 DEF StdoutEnds, handles, LifecycleInv, TypeOK
  <2> QED BY <2>1, <2>2
<1>2. CurrentInv => registration'.by \in {0, registration.by}
                    \/ (process # 0 /\ registration'.by = process)
                    \/ (process = 0 /\ ~In({"spawn"}))
  BY <1>1, RunsForProcess, TerminatingAlone DEF LifecycleInv, Readers
<1>3. (\A b \in Callers : SamePlace(b)) /\ (In({"reginfo"})' => In({"reginfo"}))
  BY <1>1 DEF SamePlace, In
<1> QED BY <1>1, <1>2, <1>3, PublishedCurrent

LEMMA StillCurrent ==
    ASSUME Current, UNCHANGED <<process, writer, running, held, queue, registration, replaced, caller>>
    PROVE  Current'
BY OutsideCurrent DEF SamePlace, In

LEMMA CurrentNext == LifecycleInv /\ Current /\ [Next]_vars => Current'
<1> SUFFICES ASSUME LifecycleInv, Current, [Next]_vars PROVE Current'
  OBVIOUS
<1>1. CASE MainStart \/ ShutdownStop \/ \E r \in Refreshes : Refresh(r)
  BY <1>1, RequestCurrent
<1>2. ASSUME NEW a \in Callers, CallerStep(a) PROVE Current'
  <2>1. CASE StartEnter(a) \/ Spawned(a) \/ SpawnFailed(a) \/ Connected(a) \/ ConnectFailed(a)
    BY <2>1, StartEnterCurrent, SpawnedCurrent, SpawnFailedCurrent, ConnectedCurrent,
       ConnectFailedCurrent
  <2>2. CASE Abandoned(a) \/ StopEnter(a) \/ StopClosed(a) \/ StopDone(a)
    BY <2>2, AbandonedCurrent, StopEnterCurrent, StopClosedCurrent, StopDoneCurrent
  <2>3. CASE Reginfo(a) \/ ReginfoFailed(a)
    BY <2>3, ReginfoCurrent
  <2> QED BY <1>2, <2>1, <2>2, <2>3 DEF CallerStep
<1>3. ASSUME NEW p \in Processes, TaskStep(p) PROVE Current'
  <2>1. CASE Exits(p)
    BY <2>1, StillCurrent DEF Exits, tasks
  <2> QED BY <1>3, <2>1, CtrlEventCurrent, CtrlEndsCurrent, StdoutCurrent DEF TaskStep
<1>4. CASE TakeEvent
  BY <1>4, TakeEventCurrent
<1>5. CASE ConnectionDrops
  BY <1>5, StillCurrent DEF ConnectionDrops, tasks
<1>6. CASE UNCHANGED vars
  BY <1>6, StillCurrent DEF vars, handles, tasks
<1> QED BY <1>1, <1>2, <1>3, <1>4, <1>5, <1>6 DEF Next

LEMMA CurrentInit == Init => Current
BY DEF Init, Current, CurrentInv, Empty, NoTasks, In, Status, Readers, Terminating

\* Tasks, queued events and a published registration are those of the process the
\* adapter has, unless a start has replaced a dead one: what _stop_locked and a start
\* that gives up cancel and discard is all that an old process has left.
THEOREM LifecycleCurrent == Spec => []OfCurrentProcess
<1>1. Current => OfCurrentProcess
  BY DEF Current, CurrentInv, OfCurrentProcess
<1>2. LifecycleInv /\ Current /\ [Next]_vars => (LifecycleInv /\ Current)'
  BY LifecycleInvNext, CurrentNext
<1>3. Init => LifecycleInv /\ Current
  BY LifecycleInvInit, CurrentInit
<1> QED BY <1>1, <1>2, <1>3, PTL DEF Spec
===============================================================================
