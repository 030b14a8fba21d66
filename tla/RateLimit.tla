------------------------------ MODULE RateLimit ------------------------------
(***************************************************************************)
(* The sliding rate limit of outbound calls (_check_rate_limit of          *)
(* manager.py).  The deque _attempts is the part of `times' from index     *)
(* `first' on: append adds to times, popleft adds one to first, and the    *)
(* times before first are kept here for the properties only.               *)
(***************************************************************************)
EXTENDS Integers, Sequences

CONSTANTS
    MaxAttempts,    \* config max_calls_per_window
    Window,         \* config rate_limit_window_seconds
    MaxTime         \* bound: the clock stops

ASSUME RateAssumption == MaxAttempts \in Nat \ {0} /\ Window \in Nat \ {0} /\ MaxTime \in Nat

VARIABLES
    now,            \* the monotonic time of the event loop
    times,          \* the times of all attempts recorded so far
    first           \* index of the oldest attempt that is still in the deque

rateVars == <<now, times, first>>

RateInit == now = 0 /\ times = <<>> /\ first = 1

LiveAtCutoff(i) == times[i] >= now - Window                  \* mutant of Live
\* An attempt that is exactly one window old has expired.
Live(i) == times[i] > now - Window

\* Attempts are dropped from the left up to the first one that is live.
Expire ==
    \E i \in first..(Len(times) + 1) :
        /\ \A j \in first..(i - 1) : ~Live(j)
        /\ i <= Len(times) => Live(i)
        /\ first' = i

OverFull == Len(times) + 1 - first' > MaxAttempts            \* mutant of Full
\* What is left in the deque uses up the limit.
Full == Len(times) + 1 - first' >= MaxAttempts

RateRefused == Expire /\ Full /\ UNCHANGED <<now, times>>
RateChecked == Expire /\ ~Full /\ UNCHANGED <<now, times>>
RateRecorded == Expire /\ ~Full /\ times' = Append(times, now) /\ UNCHANGED now

Tick == now < MaxTime /\ now' = now + 1 /\ UNCHANGED <<times, first>>

RateNext == RateRefused \/ RateChecked \/ RateRecorded \/ Tick
RateSpec == RateInit /\ [][RateNext]_rateVars

-----------------------------------------------------------------------------
\* No window of time, wherever it begins, holds more attempts than the limit:
\* an attempt and the MaxAttempts-th one after it are a window apart, although
\* expired attempts leave the deque at checks only.
WindowRespected ==
    \A i \in 1..Len(times) :
        i + MaxAttempts <= Len(times) => times[i + MaxAttempts] - times[i] >= Window
=============================================================================
