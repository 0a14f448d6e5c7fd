---------------------------- MODULE FailFastGate ----------------------------
(***************************************************************************)
(* What a circuit breaker promises the callers that share it, free of      *)
(* clocks and flags: a gate that passes calls, or rejects all of them for  *)
(* one fixed reason until it passes again.  Only the end of a call that    *)
(* passed can make it reject, and only for an error that opens it.         *)
(***************************************************************************)
CONSTANTS Callers, OpeningErrors, Nil

VARIABLES
    phase,      \* "passing" or "rejecting"
    reason,     \* the error served while rejecting, else Nil
    busy        \* callers whose target runs or whose result is not recorded yet

vars == <<phase, reason, busy>>

Init == phase = "passing" /\ reason = Nil /\ busy = {}

Enter(c) ==
    /\ phase = "passing"
    /\ c \notin busy
    /\ busy' = busy \cup {c}
    /\ UNCHANGED <<phase, reason>>

\* The result is ignored, or it does not open the gate.
Leave(c) ==
    /\ c \in busy
    /\ busy' = busy \ {c}
    /\ UNCHANGED <<phase, reason>>

LeaveAndReject(c) ==
    /\ phase = "passing"
    /\ c \in busy
    /\ busy' = busy \ {c}
    /\ phase' = "rejecting"
    /\ reason' \in OpeningErrors

\* The blocked period runs out.
Relent ==
    /\ phase = "rejecting"
    /\ phase' = "passing"
    /\ reason' = Nil
    /\ UNCHANGED busy

Next ==
    \/ \E c \in Callers : Enter(c) \/ Leave(c) \/ LeaveAndReject(c)
    \/ Relent

Spec == Init /\ [][Next]_vars
=============================================================================
