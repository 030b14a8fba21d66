---------------------------- MODULE CallLifecycle ----------------------------
(***************************************************************************)
(* What a client of the API may observe of the single call slot: the       *)
(* abstract specification that CallManager implements.  The states are     *)
(* those of CallState (talk_alarm/models.py); the steps are the changes    *)
(* that manager.py can publish, whatever tasks, locks and timers cause     *)
(* them.                                                                   *)
(***************************************************************************)
CONSTANTS Calls, None

VARIABLES
    call,   \* the published snapshot, [id, state]
    used    \* the ids given out so far

Calling == {"dialing", "ringing"}
Active == Calling \cup {"connected", "ending"}
Terminal == {"ended", "busy", "no_answer", "failed"}
NoCall == [id |-> None, state |-> "idle"]

Init == call = NoCall /\ used = {}

Become(state) == call' = [call EXCEPT !.state = state] /\ UNCHANGED used

\* A call takes the slot only when no call is active, under an id never used.
Place(c) ==
    /\ call.state \notin Active
    /\ c \notin used
    /\ call' = [id |-> c, state |-> "dialing"]
    /\ used' = used \cup {c}

\* Provisional states, which an answered call never returns to.
Progress == call.state \in Calling /\ \E state \in Calling : Become(state)

Answer == call.state \in Calling /\ Become("connected")

\* A hang-up begins once.
BeginEnding == call.state \in Calling \cup {"connected"} /\ Become("ending")

\* Results that contradict what the client has seen are not published: a call
\* that was answered is neither busy nor unanswered.
Conclude ==
    \/ call.state \in Active /\ \E state \in {"ended", "failed"} : Become(state)
    \/ call.state \in Calling /\ Become("busy")
    \/ call.state \in Calling \cup {"ending"} /\ Become("no_answer")

\* A command still in flight when its call ended may fail later.
FailLate == call.state \in Terminal /\ Become("failed")

\* The result is shown, then `ended', then the slot is idle again.
Settle == call.state \in Terminal /\ Become("ended")
Reset == call.state = "ended" /\ call' = NoCall /\ UNCHANGED used

Next ==
    \/ \E c \in Calls : Place(c)
    \/ Progress \/ Answer \/ BeginEnding \/ Conclude \/ FailLate \/ Settle \/ Reset

Spec == Init /\ [][Next]_<<call, used>>
=============================================================================
