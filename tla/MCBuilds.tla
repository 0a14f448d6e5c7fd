------------------------------- MODULE MCBuilds -------------------------------
(***************************************************************************)
(* The circuit breaker with callers of any kind, and the fetch of Jenkins' *)
(* builds through a breaker of its own: a behaviour is one of the two, the *)
(* other rests.                                                            *)
(***************************************************************************)
EXTENDS CircuitBreaker, JenkinsBuilds

VARIABLE program

allVars == <<program, vars, fetchVars>>

ASSUME JenkinsBuildsAssumption

\* What Jenkins has is one thing only while nobody fetches it.
MCInit ==
    /\ program \in {"breaker", "jenkins"}
    /\ Init /\ FetchInit
    /\ program = "breaker" => \A b \in DOMAIN kind : kind[b] = "missing"

OnlyBreaker == program = "breaker" /\ UNCHANGED <<program, fetchVars>>
OnlyJenkins == program = "jenkins" /\ UNCHANGED <<program, vars>>

MCNext ==
    \/ OnlyBreaker /\ Next
    \/ OnlyJenkins /\ FetchNext

\* Go schedules every runnable goroutine, timers fire, and the HTTP client of
\* the Jenkins library answers every call (a hanging one ends as a 504).
MCSpec ==
    /\ MCInit /\ [][MCNext]_allVars
    /\ WF_allVars(OnlyJenkins /\ fetch = "receiving" /\ FetchTick)
    /\ WF_allVars(OnlyJenkins /\ fetch = "receiving" /\ ClosePage)
    /\ \A w \in Workers : WF_allVars(OnlyJenkins /\ fetch = "receiving" /\ Step(w))

-----------------------------------------------------------------------------
\* Whatever Jenkins answers, the fetch ends: no goroutine waits forever on the
\* channel, the WaitGroup or the breaker.
FetchEnds == program = "jenkins" => <>(fetch \in {"fetched", "fatal"})
=============================================================================
