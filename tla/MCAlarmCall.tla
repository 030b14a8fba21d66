----------------------------- MODULE MCAlarmCall -----------------------------
(* Instances of AlarmCall for TLC.                                         *)
EXTENDS AlarmCall, TLC

CONSTANTS c1, c2, h1, w, r

\* Calls are interchangeable.
Symmetry == Permutations({c1, c2})

\* Behaviours without bad luck of other kinds than the one a run is about: while an
\* event waits for a worker or reader that is idle, nothing else happens than that
\* it is taken; and baresip refuses no hang-up while it has a call.
Waiting == \E ch \in Channels : At(ch, "idle") /\ Queue(ch) # <<>>
PromptNext ==
    /\ SystemNext
    /\ Waiting => \E ch \in Channels : TakesFrom(ch)
    /\ ~sip'.kept
PromptSpec == SystemInit /\ [][PromptNext]_systemVars
=============================================================================
