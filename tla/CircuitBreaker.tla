--------------------------- MODULE CircuitBreaker ---------------------------
(***************************************************************************)
(* pkg/circuitbreaker: one CircuitBreaker shared by concurrent callers of  *)
(* the function WrapRetryableFunc returns.  The read-locked check, the     *)
(* call of the target and the write-locked update are separate steps, so   *)
(* targets overlap and their results arrive in any order.                  *)
(***************************************************************************)
EXTENDS Integers

CONSTANTS
    Callers,        \* goroutines sharing the breaker
    Errors,         \* errors a target can return
    OpeningErrors,  \* those for which shouldOpen returns true
    Nil,            \* a target's success
    RetryAfter,     \* length of the blocked period, in ticks
    MaxTime         \* bound on the clock

\* NewCircuitBreaker panics unless retryAfter > 0.
ASSUME RetryAfterAssumption == RetryAfter \in Nat \ {0}
ASSUME MaxTimeAssumption == MaxTime \in Nat
ASSUME ErrorsAssumption == OpeningErrors \subseteq Errors /\ Nil \notin Errors

VARIABLES
    now,            \* time.Now()
    open,
    blockedUntil,   \* 0 is the zero time.Time; the clock starts at 1
    lastErr,
    pc,             \* pc[c]: where caller c is in the wrapped function
    result,         \* result[c]: what its target returned, or what it got back
    startedAt       \* startedAt[c]: when its latest target call began (history)

breaker == <<open, blockedUntil, lastErr>>
vars == <<now, open, blockedUntil, lastErr, pc, result, startedAt>>

Results == Errors \cup {Nil}

TypeOK ==
    /\ now \in Nat
    /\ open \in BOOLEAN
    /\ blockedUntil \in Nat
    /\ lastErr \in Results
    /\ pc \in [Callers -> {"outside", "calling", "updating"}]
    /\ result \in [Callers -> Results]
    /\ startedAt \in [Callers -> Nat]

Init ==
    /\ now = 1
    /\ open = FALSE
    /\ blockedUntil = 0
    /\ lastErr = Nil
    /\ pc = [c \in Callers |-> "outside"]
    /\ result = [c \in Callers |-> Nil]
    /\ startedAt = [c \in Callers |-> 0]

isRetryBlocked == blockedUntil # 0 /\ now <= blockedUntil

isOpenAndNotFeasibleForRetry == open /\ isRetryBlocked

\* The check says stay open: the caller gets the recorded error at once.
FailFast(c) ==
    /\ pc[c] = "outside"
    /\ isOpenAndNotFeasibleForRetry
    /\ result' = [result EXCEPT ![c] = lastErr]
    /\ UNCHANGED <<now, breaker, pc, startedAt>>

\* The check lets the caller through to its target.
StartCall(c) ==
    /\ pc[c] = "outside"
    /\ ~isOpenAndNotFeasibleForRetry
    /\ pc' = [pc EXCEPT ![c] = "calling"]
    /\ startedAt' = [startedAt EXCEPT ![c] = now]
    /\ UNCHANGED <<now, breaker, result>>

\* The target, running outside the lock, returns r.
TargetReturns(c, r) ==
    /\ pc[c] = "calling"
    /\ pc' = [pc EXCEPT ![c] = "updating"]
    /\ result' = [result EXCEPT ![c] = r]
    /\ UNCHANGED <<now, breaker, startedAt>>

\* The fields as updateState(err) leaves them when the retry is not blocked.
Record(err) ==
    /\ lastErr' = err
    /\ IF err \in OpeningErrors
         THEN open' = TRUE /\ blockedUntil' = now + RetryAfter
         ELSE open' = FALSE /\ UNCHANGED blockedUntil

\* --- faulty variants of updateState
updateStateUnguarded(err) == Record(err)

updateStateTakesLateErr(err) ==
    IF isRetryBlocked
      THEN lastErr' = err /\ UNCHANGED <<open, blockedUntil>>
      ELSE Record(err)
\* ---

updateState(err) ==
    IF isRetryBlocked THEN UNCHANGED breaker ELSE Record(err)

UpdateState(c) ==
    /\ pc[c] = "updating"
    /\ updateState(result[c])
    /\ pc' = [pc EXCEPT ![c] = "outside"]
    /\ UNCHANGED <<now, result, startedAt>>

Tick ==
    /\ now < MaxTime
    /\ now' = now + 1
    /\ UNCHANGED <<breaker, pc, result, startedAt>>

Next ==
    \/ Tick
    \/ \E c \in Callers :
         \/ FailFast(c)
         \/ StartCall(c)
         \/ \E r \in Results : TargetReturns(c, r)
         \/ UpdateState(c)

Spec == Init /\ [][Next]_vars

-----------------------------------------------------------------------------
\* While the breaker is open the error it hands out is one that opens it: an
\* error shouldOpen rejects, or a nil, is never served to a caller whose target
\* was not called.
ServesOpeningError == open => lastErr \in OpeningErrors

\* No target call begins inside a blocked period, whatever results of calls
\* that were already in flight arrive while the period runs.
QuietPeriod ==
    \A c \in Callers :
        pc[c] # "outside" =>
            ~(blockedUntil - RetryAfter < startedAt[c] /\ startedAt[c] <= blockedUntil)

\* A period that runs is neither extended, cut short nor given another error by
\* a late result: the fields change only once the period is over.
BlockedPeriodIsFixed == [][isRetryBlocked => UNCHANGED breaker]_vars

-----------------------------------------------------------------------------
\* What a caller may rely on, without the fields that implement it.
phase == IF isOpenAndNotFeasibleForRetry THEN "rejecting" ELSE "passing"
reason == IF isOpenAndNotFeasibleForRetry THEN lastErr ELSE Nil
busy == {c \in Callers : pc[c] # "outside"}

Gate == INSTANCE FailFastGate

\* The breaker implements the fail-fast gate.
RefinesGate == Gate!Spec
=============================================================================
