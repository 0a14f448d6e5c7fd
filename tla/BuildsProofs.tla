---------------------------- MODULE BuildsProofs ----------------------------
(***************************************************************************)
(* What CircuitBreaker and JenkinsBuilds do for any callers, errors, pages,*)
(* attempts, delays and answers of Jenkins.  The fetch has a breaker of its*)
(* own: each module has a specification and an inductive invariant.        *)
(***************************************************************************)
EXTENDS CircuitBreaker, JenkinsBuilds, FiniteSetTheorems, TLAPS

-----------------------------------------------------------------------------
(***************************************************************************)
(* The circuit breaker.                                                    *)
(***************************************************************************)

\* A blocked period is only ever running on an open breaker: what makes the
\* early return of updateState keep the breaker open.
BlockedIsOpen == isRetryBlocked => open

\* Calls in flight did not begin in the future.
StartedInPast == \A c \in Callers : startedAt[c] <= now

\* The period that was set last began no later than now.
PeriodBegan == blockedUntil <= now + RetryAfter

\* The zero time is never the current time.
ClockStarted == now # 0

IInv ==
    /\ TypeOK
    /\ ServesOpeningError
    /\ QuietPeriod
    /\ BlockedIsOpen
    /\ StartedInPast
    /\ PeriodBegan
    /\ ClockStarted

-----------------------------------------------------------------------------
\* updateState leaves the fields alone, or the period was over and they are
\* what Record makes of the result.
LEMMA UpdateStateCases ==
    ASSUME NEW err, updateState(err)
    PROVE  \/ isRetryBlocked /\ UNCHANGED breaker
           \/ ~isRetryBlocked /\ Record(err)
  BY DEF updateState

LEMMA InitIInv == Init => IInv
<1> SUFFICES ASSUME Init
             PROVE  IInv
  OBVIOUS
<1>1. TypeOK
  BY DEF Init, TypeOK, Results
<1>2. ServesOpeningError /\ BlockedIsOpen /\ ClockStarted
  BY DEF Init, ServesOpeningError, BlockedIsOpen, isRetryBlocked, ClockStarted
<1>3. QuietPeriod /\ StartedInPast /\ PeriodBegan
  BY RetryAfterAssumption DEF Init, QuietPeriod, StartedInPast, PeriodBegan
<1> QED  BY <1>1, <1>2, <1>3 DEF IInv

LEMMA NextIInv == IInv /\ [Next]_vars => IInv'
<1> SUFFICES ASSUME IInv, [Next]_vars
             PROVE  IInv'
  OBVIOUS
<1> USE RetryAfterAssumption, ErrorsAssumption
<1>1. CASE Tick
  BY <1>1 DEF Tick, breaker, IInv, TypeOK, ServesOpeningError, QuietPeriod,
              BlockedIsOpen, StartedInPast, PeriodBegan, ClockStarted, isRetryBlocked, Results
<1>2. ASSUME NEW c \in Callers, FailFast(c)
      PROVE  IInv'
  BY <1>2 DEF FailFast, breaker, IInv, TypeOK, ServesOpeningError, QuietPeriod,
              BlockedIsOpen, StartedInPast, PeriodBegan, ClockStarted, isRetryBlocked, Results
<1>3. ASSUME NEW c \in Callers, StartCall(c)
      PROVE  IInv'
  <2>1. TypeOK' /\ ServesOpeningError' /\ BlockedIsOpen' /\ StartedInPast' /\ PeriodBegan' /\ ClockStarted'
    BY <1>3 DEF StartCall, breaker, IInv, TypeOK, ServesOpeningError,
                BlockedIsOpen, StartedInPast, PeriodBegan, ClockStarted, isRetryBlocked, Results
  <2>2. blockedUntil < now
    BY <1>3 DEF StartCall, IInv, TypeOK, BlockedIsOpen, ClockStarted, isRetryBlocked,
                isOpenAndNotFeasibleForRetry
  <2>3. QuietPeriod'
    BY <1>3, <2>2 DEF StartCall, breaker, IInv, TypeOK, QuietPeriod
  <2> QED  BY <2>1, <2>3 DEF IInv
<1>4. ASSUME NEW c \in Callers, NEW r \in Results, TargetReturns(c, r)
      PROVE  IInv'
  BY <1>4 DEF TargetReturns, breaker, IInv, TypeOK, ServesOpeningError, QuietPeriod,
              BlockedIsOpen, StartedInPast, PeriodBegan, ClockStarted, isRetryBlocked, Results
<1>5. ASSUME NEW c \in Callers, UpdateState(c)
      PROVE  IInv'
  <2>1. CASE isRetryBlocked /\ UNCHANGED breaker
    BY <1>5, <2>1 DEF UpdateState, breaker, IInv, TypeOK, ServesOpeningError, QuietPeriod,
              BlockedIsOpen, StartedInPast, PeriodBegan, ClockStarted, isRetryBlocked, Results
  <2>2. CASE ~isRetryBlocked /\ Record(result[c])
    <3>1. TypeOK'
      <4>1. lastErr' \in Results /\ open' \in BOOLEAN /\ blockedUntil' \in Nat
        <5>1. result[c] \in Results /\ now + RetryAfter \in Nat
          BY DEF IInv, TypeOK
        <5> QED  BY <2>2, <5>1, Zenon DEF Record, IInv, TypeOK
      <4>2. pc' \in [Callers -> {"outside", "calling", "updating"}]
        BY <1>5 DEF UpdateState, IInv, TypeOK
      <4> QED  BY <1>5, <4>1, <4>2 DEF UpdateState, IInv, TypeOK
    <3>3. ServesOpeningError' /\ StartedInPast' /\ PeriodBegan' /\ ClockStarted'
      BY <1>5, <2>2 DEF UpdateState, Record, IInv, TypeOK, ServesOpeningError,
                StartedInPast, PeriodBegan, ClockStarted
    <3>4. BlockedIsOpen'
      BY <1>5, <2>2 DEF UpdateState, Record, IInv, TypeOK, BlockedIsOpen, isRetryBlocked
    <3>2. QuietPeriod'
      BY <1>5, <2>2 DEF UpdateState, Record, IInv, TypeOK, QuietPeriod, StartedInPast
    <3> QED  BY <3>1, <3>2, <3>3, <3>4 DEF IInv
  <2> QED  BY <1>5, <2>1, <2>2, UpdateStateCases DEF UpdateState
<1>6. CASE UNCHANGED vars
  BY <1>6 DEF vars, IInv, TypeOK, ServesOpeningError, QuietPeriod,
              BlockedIsOpen, StartedInPast, PeriodBegan, ClockStarted, isRetryBlocked, Results
<1> QED  BY <1>1, <1>2, <1>3, <1>4, <1>5, <1>6 DEF Next

-----------------------------------------------------------------------------
\* The inductive invariant holds in every behaviour of the breaker.
THEOREM Inductive == Spec => []IInv
  BY InitIInv, NextIInv, PTL DEF Spec

\* The fields, the callers' positions and results keep their types.
THEOREM TypeCorrect == Spec => []TypeOK
  BY Inductive, PTL DEF IInv

\* An open breaker never serves a success or an error that would not open it.
THEOREM ServedErrorOpened == Spec => []ServesOpeningError
  BY Inductive, PTL DEF IInv

\* No target call begins inside a blocked period.
THEOREM QuietPeriodHolds == Spec => []QuietPeriod
  BY Inductive, PTL DEF IInv

\* Late results do not touch a running period.
THEOREM PeriodFixed == Spec => BlockedPeriodIsFixed
<1>1. [Next]_vars => [isRetryBlocked => UNCHANGED breaker]_vars
  BY DEF Next, Tick, FailFast, StartCall, TargetReturns, UpdateState, updateState,
         vars, breaker
<1> QED  BY <1>1, PTL DEF Spec, BlockedPeriodIsFixed

-----------------------------------------------------------------------------
LEMMA InitGate == Init => Gate!Init
  BY DEF Init, Gate!Init, phase, reason, busy, isOpenAndNotFeasibleForRetry

\* Every step of the breaker is a step of the gate or leaves the gate alone.
LEMMA StepGate == IInv /\ [Next]_vars => [Gate!Next]_Gate!vars
<1> SUFFICES ASSUME IInv, [Next]_vars
             PROVE  [Gate!Next]_Gate!vars
  OBVIOUS
<1> USE RetryAfterAssumption, ErrorsAssumption
    DEF phase, reason, isOpenAndNotFeasibleForRetry
<1>1. CASE Tick
  <2>1. busy' = busy
    BY <1>1 DEF Tick, busy
  <2>2. isRetryBlocked' => isRetryBlocked
    BY <1>1 DEF Tick, breaker, IInv, TypeOK, isRetryBlocked
  <2> QED  BY <1>1, <2>1, <2>2 DEF Tick, breaker, Gate!Next, Gate!Relent, Gate!vars
<1>2. ASSUME NEW c \in Callers, FailFast(c)
      PROVE  UNCHANGED Gate!vars
  BY <1>2 DEF FailFast, breaker, Gate!vars, busy, isRetryBlocked
<1>3. ASSUME NEW c \in Callers, StartCall(c)
      PROVE  Gate!Enter(c)
  <2>1. c \notin busy /\ busy' = busy \cup {c}
    BY <1>3 DEF StartCall, busy, IInv, TypeOK
  <2> QED  BY <1>3, <2>1 DEF StartCall, breaker, isRetryBlocked, Gate!Enter
<1>4. ASSUME NEW c \in Callers, NEW r \in Results, TargetReturns(c, r)
      PROVE  UNCHANGED Gate!vars
  BY <1>4 DEF TargetReturns, breaker, IInv, TypeOK, Gate!vars, busy, isRetryBlocked
<1>5. ASSUME NEW c \in Callers, UpdateState(c)
      PROVE  Gate!Leave(c) \/ Gate!LeaveAndReject(c)
  <2>1. c \in busy /\ busy' = busy \ {c}
    BY <1>5 DEF UpdateState, busy, IInv, TypeOK
  <2>2. CASE isRetryBlocked /\ UNCHANGED breaker
    BY <1>5, <2>1, <2>2 DEF UpdateState, breaker, isRetryBlocked, Gate!Leave
  <2>3. CASE ~isRetryBlocked /\ Record(result[c])
    <3>1. CASE result[c] \in OpeningErrors
      BY <1>5, <2>1, <2>3, <3>1
         DEF UpdateState, Record, IInv, TypeOK, isRetryBlocked, Gate!LeaveAndReject
    <3>2. CASE result[c] \notin OpeningErrors
      BY <1>5, <2>1, <2>3, <3>2
         DEF UpdateState, Record, IInv, TypeOK, isRetryBlocked, Gate!Leave
    <3> QED  BY <3>1, <3>2
  <2> QED  BY <1>5, <2>2, <2>3, UpdateStateCases DEF UpdateState
<1>6. CASE UNCHANGED vars
  BY <1>6 DEF vars, Gate!vars, busy, isRetryBlocked
<1> QED
  BY <1>1, <1>2, <1>3, <1>4, <1>5, <1>6 DEF Next, Gate!Next

\* The breaker implements the fail-fast gate for every set of callers.
THEOREM Refinement == Spec => RefinesGate
  BY InitGate, StepGate, Inductive, PTL DEF Spec, RefinesGate, Gate!Spec

-----------------------------------------------------------------------------
(***************************************************************************)
(* The fetch returns the builds of its period, each once, and closes no    *)
(* channel early.                                                          *)
(***************************************************************************)

InPeriod(b) == IF kind[b] = "recent" THEN 1 ELSE 0

\* Only a gateway timeout opens the breaker, so that it serves nothing else.
BreakerInv == isOpen => openErr \in GatewayTimeouts

\* A worker is with the breaker while it asks.
PlaceInv ==
    \A w \in Workers :
        /\ worker[w] = "asking" <=> call[w] # "outside"
        /\ call[w] = "updating" => callResult[w] \in Replies(page - w) /\ (build[w] <=> callResult[w] = NoError)

\* What a worker knows of its build is true, and unless the process ends it knows
\* enough to report.
KnownInv ==
    \A w \in Workers :
        /\ build[w] => kind[page - w] # "missing"
        /\ worker[w] \in {"trying", "sleeping"} \/ call[w] = "calling" => ~build[w]
        /\ worker[w] \in {"trying", "sleeping", "asking"} => status[w] # "404"
        /\ worker[w] \in {"sending", "done"} /\ fetch # "fatal" => build[w] \/ kind[page - w] = "missing"

Unfinished == {w \in Workers : worker[w] # "done"}
WaitInv == waiting = Cardinality(Unfinished)

\* The builds after the page are settled, those before it are untouched, and those
\* of the page are what the workers have sent.
PageInv ==
    /\ page \in Nat \ {0}
    /\ kind \in PossibleKinds
    /\ \A b \in BuildNumbers : b > page => completed[b] = InPeriod(b)
    /\ \A b \in BuildNumbers : b <= page - PageSize => completed[b] = 0
    /\ \A w \in Workers :
          completed[page - w] = IF worker[w] = "done" /\ build[w] THEN InPeriod(page - w) ELSE 0
    /\ stop => \E w \in Workers : kind[page - w] = "old"
    /\ fetch = "fetched" => Unfinished = {} /\ (stop \/ NextPage(page) <= 0)

FetchIInv == FetchTypeOK /\ BreakerInv /\ PlaceInv /\ KnownInv /\ WaitInv /\ PageInv

-----------------------------------------------------------------------------
\* The workers of a page are PageSize many, and 0 counts none of them.
LEMMA WorkersCount ==
    ASSUME JenkinsBuildsAssumption
    PROVE  IsFiniteSet(Workers) /\ Cardinality(Workers) = PageSize
<1>1. PageSize \in Nat \ {0}
  BY DEF JenkinsBuildsAssumption
<1> QED  BY <1>1, FS_Interval DEF Workers

LEMMA UnfinishedIsFinite ==
    ASSUME JenkinsBuildsAssumption
    PROVE  IsFiniteSet(Unfinished) /\ Cardinality(Unfinished) \in Nat
<1>1. IsFiniteSet(Unfinished)
  BY WorkersCount, FS_Subset DEF Unfinished
<1> QED  BY <1>1, FS_CardinalityType

\* Nobody is waited for only when every worker has reported.
LEMMA NobodyWaited ==
    ASSUME JenkinsBuildsAssumption, WaitInv, waiting = 0
    PROVE  \A w \in Workers : worker[w] = "done"
<1>1. Unfinished = {}
  BY UnfinishedIsFinite, FS_EmptySet DEF WaitInv
<1> QED  BY <1>1 DEF Unfinished

\* The builds of a page exist, or have the numbers below 1 of the last page.
LEMMA PageIsBuilds ==
    ASSUME JenkinsBuildsAssumption, FetchTypeOK, PageInv
    PROVE  \A w \in Workers : page - w \in BuildNumbers
<1>1. PageSize \in Nat \ {0} /\ LastBuild \in Nat \ {0}
  BY DEF JenkinsBuildsAssumption
<1>2. page \in Nat \ {0} /\ page \in 1 - PageSize..LastBuild
  BY DEF FetchTypeOK, PageInv, BuildNumbers
<1> QED  BY <1>1, <1>2 DEF Workers, BuildNumbers

\* A step that sends nothing leaves the account of the page as it is.
LEMMA PageRests ==
    ASSUME PageInv, WaitInv, kind' = kind, page' = page, completed' = completed,
           stop' = stop, waiting' = waiting, fetch' # "fetched",
           \A v \in Workers : worker'[v] = "done" <=> worker[v] = "done",
           \A v \in Workers : worker[v] = "done" => (build'[v] <=> build[v])
    PROVE  PageInv' /\ WaitInv'
<1>1. Unfinished' = Unfinished
  BY DEF Unfinished
<1>2. WaitInv'
  BY <1>1 DEF WaitInv
<1>3. \A b \in BuildNumbers : InPeriod(b)' = InPeriod(b)
  BY DEF InPeriod
<1>4. \A w \in Workers : InPeriod(page - w)' = InPeriod(page - w)
  BY DEF InPeriod
<1>5. PageInv'
  BY <1>3, <1>4 DEF PageInv
<1> QED  BY <1>2, <1>5

\* What retry.Do makes of an error.
Retried(w, err) ==
    /\ status' = [status EXCEPT ![w] = IF err = NoError THEN @ ELSE err]
    /\ worker' \in {[worker EXCEPT ![w] = "sleeping"], [worker EXCEPT ![w] = "sending"]}
    /\ attempt' \in [Workers -> 0..Attempts - 1]
    /\ wakeAt' \in [Workers -> Nat]
    /\ fetch' \in {fetch, "fatal"}
    /\ worker' = [worker EXCEPT ![w] = "sleeping"] => err = "504" /\ fetch' = fetch
    /\ worker' = [worker EXCEPT ![w] = "sending"] /\ fetch' # "fatal" =>
          build[w] \/ status'[w] = "404"

LEMMA RetryOrSettleRetries ==
    ASSUME JenkinsBuildsAssumption, FetchTypeOK, NEW w \in Workers, NEW err, RetryOrSettle(w, err)
    PROVE  Retried(w, err)
<1>1. Attempts \in Nat \ {0} /\ RetryDelay \in Nat /\ MaxJitter \in Nat
  BY DEF JenkinsBuildsAssumption
<1>2. clock \in Nat /\ attempt[w] \in 0..Attempts - 1
      /\ worker \in [Workers -> {"trying", "asking", "sleeping", "sending", "done"}]
      /\ attempt \in [Workers -> 0..Attempts - 1] /\ wakeAt \in [Workers -> Nat]
  BY DEF FetchTypeOK, Breaker!TypeOK
<1>3. [worker EXCEPT ![w] = "sleeping"] # [worker EXCEPT ![w] = "sending"]
  BY <1>2
<1>4. CASE err = "504" /\ attempt[w] < Attempts - 1
  <2>1. PICK jitter \in 0..MaxJitter : wakeAt' = [wakeAt EXCEPT ![w] = clock + RetryDelay + jitter]
    BY <1>4 DEF RetryOrSettle
  <2>2. clock + RetryDelay + jitter \in Nat
    BY <1>1, <1>2
  <2>3. attempt[w] + 1 \in 0..Attempts - 1
    BY <1>1, <1>2, <1>4
  <2>4. /\ status' = [status EXCEPT ![w] = IF err = NoError THEN @ ELSE err]
        /\ attempt' = [attempt EXCEPT ![w] = @ + 1]
        /\ worker' = [worker EXCEPT ![w] = "sleeping"]
        /\ fetch' = fetch
    BY <1>4 DEF RetryOrSettle
  <2>5. wakeAt' \in [Workers -> Nat] /\ attempt' \in [Workers -> 0..Attempts - 1]
    BY <1>2, <2>1, <2>2, <2>3, <2>4
  <2> QED  BY <1>3, <1>4, <2>4, <2>5, Zenon DEF Retried
<1>5. CASE ~(err = "504" /\ attempt[w] < Attempts - 1)
  <2>1. /\ status' = [status EXCEPT ![w] = IF err = NoError THEN @ ELSE err]
        /\ attempt' = attempt /\ wakeAt' = wakeAt
        /\ worker' = [worker EXCEPT ![w] = "sending"]
        /\ fetch' = IF SettledFatally(w, err) THEN "fatal" ELSE fetch
    BY <1>5 DEF RetryOrSettle
  <2>2. fetch' \in {fetch, "fatal"} /\ (fetch' # "fatal" => build[w] \/ status'[w] = "404")
    BY <2>1 DEF SettledFatally
  <2> QED  BY <1>2, <1>3, <2>1, <2>2, Zenon DEF Retried
<1> QED  BY <1>4, <1>5

-----------------------------------------------------------------------------
LEMMA FetchInitIInv == ASSUME JenkinsBuildsAssumption, FetchInit PROVE FetchIInv
<1>1. PageSize \in Nat \ {0} /\ LastBuild \in Nat \ {0} /\ Attempts \in Nat \ {0}
  BY DEF JenkinsBuildsAssumption
<1>2. Breaker!TypeOK /\ BreakerInv
  BY DEF FetchInit, Breaker!Init, Breaker!TypeOK, Breaker!Results, BreakerInv
<1>3. LastBuild \in BuildNumbers /\ 0 \in 0..Attempts - 1 /\ PageSize \in 0..PageSize
  BY <1>1 DEF BuildNumbers
<1>4. FetchTypeOK
  BY <1>2, <1>3 DEF FetchInit, FetchTypeOK, PossibleKinds
<1>5. PlaceInv /\ KnownInv
  BY DEF FetchInit, Breaker!Init, PlaceInv, KnownInv
<1>6. Unfinished = Workers
  BY DEF FetchInit, Unfinished
<1>7. WaitInv
  BY <1>6, WorkersCount DEF FetchInit, WaitInv
<1>8. PageInv
  <2>1. \A b \in BuildNumbers : b <= LastBuild /\ completed[b] = 0
    BY <1>1 DEF FetchInit, BuildNumbers
  <2>2. \A w \in Workers : page - w \in BuildNumbers /\ worker[w] = "trying"
    BY <1>1 DEF FetchInit, BuildNumbers, Workers
  <2>3. page = LastBuild /\ stop = FALSE /\ fetch = "receiving" /\ kind \in PossibleKinds
    BY DEF FetchInit
  <2>4. \A b \in BuildNumbers : ~(b > page)
    BY <1>1, <2>1, <2>3 DEF BuildNumbers
  <2> QED  BY <1>1, <2>1, <2>2, <2>3, <2>4 DEF PageInv
<1> QED  BY <1>2, <1>4, <1>5, <1>7, <1>8 DEF FetchIInv

LEMMA TickIInv == ASSUME FetchIInv, fetch = "receiving", FetchTick PROVE FetchIInv'
<1>1. /\ clock' = clock + 1 /\ clock \in Nat
      /\ isOpen' = isOpen /\ isBlockedUntil' = isBlockedUntil /\ openErr' = openErr /\ call' = call
      /\ callResult' = callResult /\ calledAt' = calledAt
  BY DEF FetchTick, Breaker!Tick, Breaker!breaker, FetchIInv, FetchTypeOK, Breaker!TypeOK
<1>2. /\ kind' = kind /\ page' = page /\ fetch' = fetch /\ stop' = stop /\ completed' = completed
      /\ waiting' = waiting /\ worker' = worker /\ attempt' = attempt /\ wakeAt' = wakeAt
      /\ build' = build /\ status' = status
  BY DEF FetchTick, pageVars, workerVars
<1>3. FetchTypeOK' /\ BreakerInv'
  BY <1>1, <1>2 DEF FetchIInv, FetchTypeOK, Breaker!TypeOK, BreakerInv
<1>4. PlaceInv' /\ KnownInv'
  BY <1>1, <1>2 DEF FetchIInv, PlaceInv, KnownInv, Replies
<1>5. PageInv' /\ WaitInv'
  BY <1>2, PageRests DEF FetchIInv
<1> QED  BY <1>3, <1>4, <1>5 DEF FetchIInv

LEMMA AskIInv == ASSUME FetchIInv, fetch = "receiving", NEW w \in Workers, Ask(w) PROVE FetchIInv'
<1>1. /\ clock' = clock /\ isOpen' = isOpen /\ isBlockedUntil' = isBlockedUntil /\ openErr' = openErr
      /\ call[w] = "outside" /\ call' = [call EXCEPT ![w] = "calling"]
      /\ callResult' = callResult /\ calledAt' = [calledAt EXCEPT ![w] = clock]
  BY DEF Ask, Breaker!StartCall, Breaker!breaker
<1>2. /\ kind' = kind /\ page' = page /\ fetch' = fetch /\ stop' = stop /\ completed' = completed
      /\ waiting' = waiting /\ attempt' = attempt /\ wakeAt' = wakeAt
      /\ build' = build /\ status' = status
      /\ worker[w] = "trying" /\ worker' = [worker EXCEPT ![w] = "asking"]
  BY DEF Ask, pageVars
<1>3. FetchTypeOK' /\ BreakerInv'
  BY <1>1, <1>2 DEF FetchIInv, FetchTypeOK, Breaker!TypeOK, BreakerInv
<1>4. PlaceInv'
  BY <1>1, <1>2 DEF FetchIInv, FetchTypeOK, Breaker!TypeOK, PlaceInv, Replies
<1>5. KnownInv'
  BY <1>1, <1>2 DEF FetchIInv, FetchTypeOK, Breaker!TypeOK, KnownInv
<1>6. \A v \in Workers : worker'[v] = "done" <=> worker[v] = "done"
  BY <1>2 DEF FetchIInv, FetchTypeOK
<1>7. PageInv' /\ WaitInv'
  BY <1>2, <1>6, PageRests DEF FetchIInv
<1> QED  BY <1>3, <1>4, <1>5, <1>7 DEF FetchIInv

LEMMA WakeIInv == ASSUME FetchIInv, fetch = "receiving", NEW w \in Workers, Wake(w) PROVE FetchIInv'
<1>1. /\ clock' = clock /\ isOpen' = isOpen /\ isBlockedUntil' = isBlockedUntil /\ openErr' = openErr
      /\ call' = call /\ callResult' = callResult /\ calledAt' = calledAt
  BY DEF Wake, breakerVars
<1>2. /\ kind' = kind /\ page' = page /\ fetch' = fetch /\ stop' = stop /\ completed' = completed
      /\ waiting' = waiting /\ attempt' = attempt /\ wakeAt' = wakeAt
      /\ build' = build /\ status' = status
      /\ worker[w] = "sleeping" /\ worker' = [worker EXCEPT ![w] = "trying"]
  BY DEF Wake, pageVars
<1>3. FetchTypeOK' /\ BreakerInv'
  BY <1>1, <1>2 DEF FetchIInv, FetchTypeOK, Breaker!TypeOK, BreakerInv
<1>4. PlaceInv'
  BY <1>1, <1>2 DEF FetchIInv, FetchTypeOK, PlaceInv, Replies
<1>5. KnownInv'
  BY <1>1, <1>2 DEF FetchIInv, FetchTypeOK, KnownInv
<1>6. \A v \in Workers : worker'[v] = "done" <=> worker[v] = "done"
  BY <1>2 DEF FetchIInv, FetchTypeOK
<1>7. PageInv' /\ WaitInv'
  BY <1>2, <1>6, PageRests DEF FetchIInv
<1> QED  BY <1>3, <1>4, <1>5, <1>7 DEF FetchIInv

LEMMA ReplyIInv == ASSUME FetchIInv, fetch = "receiving", NEW w \in Workers, Reply(w) PROVE FetchIInv'
<1>1. PICK r \in Replies(page - w) :
        /\ clock' = clock /\ isOpen' = isOpen /\ isBlockedUntil' = isBlockedUntil /\ openErr' = openErr
        /\ call[w] = "calling" /\ call' = [call EXCEPT ![w] = "updating"]
        /\ callResult' = [callResult EXCEPT ![w] = r] /\ calledAt' = calledAt
        /\ build' = [build EXCEPT ![w] = (r = NoError)]
        /\ kind' = kind /\ UNCHANGED pageVars /\ worker' = worker /\ attempt' = attempt
        /\ wakeAt' = wakeAt /\ status' = status
  BY DEF Reply, Breaker!TargetReturns, Breaker!breaker
<1>2. page' = page /\ fetch' = fetch /\ stop' = stop /\ completed' = completed /\ waiting' = waiting
  BY <1>1 DEF pageVars
<1>3. r \in JenkinsErrors \cup {NoError} /\ (r = NoError => kind[page - w] # "missing")
  BY <1>1 DEF Replies, JenkinsErrors, NoError
<1>4. FetchTypeOK' /\ BreakerInv'
  <2>1. build' \in [Workers -> BOOLEAN]
    BY <1>1 DEF FetchIInv, FetchTypeOK
  <2>2. Breaker!TypeOK' /\ BreakerInv'
    BY <1>1, <1>3 DEF FetchIInv, FetchTypeOK, Breaker!TypeOK, Breaker!Results, BreakerInv
  <2> QED  BY <1>1, <1>2, <2>1, <2>2 DEF FetchIInv, FetchTypeOK
<1>5. build'[w] <=> r = NoError
  BY <1>1 DEF FetchIInv, FetchTypeOK
<1>6. \A v \in Workers : v # w => build'[v] = build[v] /\ callResult'[v] = callResult[v] /\ call'[v] = call[v]
  BY <1>1
<1>7. callResult'[w] = r /\ call'[w] = "updating" /\ worker[w] = "asking"
  BY <1>1 DEF FetchIInv, FetchTypeOK, Breaker!TypeOK, PlaceInv
<1>8. PlaceInv'
  BY <1>1, <1>2, <1>5, <1>6, <1>7 DEF FetchIInv, PlaceInv, Replies
<1>9. KnownInv'
  BY <1>1, <1>2, <1>3, <1>5, <1>6, <1>7 DEF FetchIInv, KnownInv
<1>10. \A v \in Workers : worker[v] = "done" => (build'[v] <=> build[v])
  BY <1>6, <1>7
<1>11. PageInv' /\ WaitInv'
  BY <1>1, <1>2, <1>10, PageRests DEF FetchIInv
<1> QED  BY <1>4, <1>8, <1>9, <1>11 DEF FetchIInv

\* A worker that settles its build or sleeps on it, once the breaker is done with it.
LEMMA SettleIInv ==
    ASSUME JenkinsBuildsAssumption, FetchIInv, fetch = "receiving",
           NEW w \in Workers, NEW err \in Replies(page - w) \cup GatewayTimeouts,
           Retried(w, err), Breaker!TypeOK', BreakerInv',
           worker[w] # "done", build[w] <=> err = NoError,
           call' = [call EXCEPT ![w] = "outside"],
           \A v \in Workers : call[v] = "updating" /\ v # w => callResult'[v] = callResult[v],
           kind' = kind, page' = page, stop' = stop, completed' = completed,
           waiting' = waiting, build' = build
    PROVE  FetchIInv'
<1> USE DEF FetchIInv
<1>1. /\ worker' = [worker EXCEPT ![w] = "sleeping"] \/ worker' = [worker EXCEPT ![w] = "sending"]
      /\ status' = [status EXCEPT ![w] = IF err = NoError THEN @ ELSE err]
      /\ attempt' \in [Workers -> 0..Attempts - 1] /\ wakeAt' \in [Workers -> Nat]
      /\ fetch' \in {fetch, "fatal"}
  BY DEF Retried
<1>2. err \in JenkinsErrors \cup {NoError}
  BY DEF Replies, GatewayTimeouts, JenkinsErrors, NoError
<1>3. worker \in [Workers -> {"trying", "asking", "sleeping", "sending", "done"}]
      /\ status \in [Workers -> {"none"} \cup JenkinsErrors]
      /\ call \in [Workers -> {"outside", "calling", "updating"}]
  BY DEF FetchTypeOK, Breaker!TypeOK
<1>4. worker' \in [Workers -> {"trying", "asking", "sleeping", "sending", "done"}]
      /\ status' \in [Workers -> {"none"} \cup JenkinsErrors]
  BY <1>1, <1>2, <1>3
<1>5. FetchTypeOK'
  BY <1>1, <1>4 DEF FetchTypeOK
<1>6. /\ call'[w] = "outside" /\ worker'[w] \in {"sleeping", "sending"}
      /\ status'[w] = IF err = NoError THEN status[w] ELSE err
      /\ \A v \in Workers : v # w => /\ call'[v] = call[v] /\ worker'[v] = worker[v]
                                     /\ status'[v] = status[v]
  BY <1>1, <1>3
<1>7. PlaceInv'
  BY <1>6 DEF PlaceInv, Replies
<1>8. KnownInv'
  <2>1. CASE worker'[w] = "sleeping"
    <3>1. err = "504"
      BY <1>1, <1>3, <2>1 DEF Retried
    <3>2. ~build[w] /\ status'[w] = "504"
      BY <1>6, <3>1 DEF NoError
    <3> QED  BY <1>1, <1>6, <2>1, <3>2 DEF KnownInv
  <2>2. CASE worker'[w] = "sending"
    <3>1. fetch' # "fatal" => build[w] \/ status'[w] = "404"
      BY <1>1, <1>3, <2>2 DEF Retried
    <3>2. status'[w] = "404" /\ ~build[w] => kind[page - w] = "missing"
      BY <1>6 DEF Replies, GatewayTimeouts, NoError
    <3> QED  BY <1>1, <1>6, <2>2, <3>1, <3>2 DEF KnownInv
  <2> QED  BY <1>6, <2>1, <2>2
<1>9. \A v \in Workers : worker'[v] = "done" <=> worker[v] = "done"
  BY <1>6
<1>10. PageInv' /\ WaitInv'
  BY <1>1, <1>9, PageRests
<1> QED  BY <1>5, <1>7, <1>8, <1>10

LEMMA RejectedIInv ==
    ASSUME JenkinsBuildsAssumption, FetchIInv, fetch = "receiving", NEW w \in Workers, Rejected(w)
    PROVE  FetchIInv'
<1>1. /\ clock' = clock /\ isOpen' = isOpen /\ isBlockedUntil' = isBlockedUntil /\ openErr' = openErr
      /\ call[w] = "outside" /\ call' = call /\ isOpen
      /\ callResult' = [callResult EXCEPT ![w] = openErr] /\ calledAt' = calledAt
      /\ worker[w] = "trying" /\ RetryOrSettle(w, callResult'[w])
      /\ kind' = kind /\ page' = page /\ stop' = stop /\ completed' = completed
      /\ waiting' = waiting /\ build' = build
  BY DEF Rejected, Breaker!FailFast, Breaker!breaker, Breaker!isOpenAndNotFeasibleForRetry
<1>2. /\ call \in [Workers -> {"outside", "calling", "updating"}]
      /\ callResult \in [Workers -> JenkinsErrors \cup {NoError}]
  BY DEF FetchIInv, FetchTypeOK, Breaker!TypeOK, Breaker!Results
<1>3. openErr \in GatewayTimeouts /\ callResult'[w] = openErr
  BY <1>1, <1>2 DEF FetchIInv, BreakerInv
<1>4. Breaker!TypeOK' /\ BreakerInv'
  BY <1>1 DEF FetchIInv, FetchTypeOK, Breaker!TypeOK, BreakerInv
<1>5. Retried(w, openErr)
  BY <1>1, <1>3, RetryOrSettleRetries DEF FetchIInv
<1>6. ~build[w] /\ openErr # NoError
  BY <1>1, <1>3 DEF FetchIInv, KnownInv, GatewayTimeouts, NoError
<1>7. call' = [call EXCEPT ![w] = "outside"]
  BY <1>1, <1>2
<1>8. \A v \in Workers : call[v] = "updating" /\ v # w => callResult'[v] = callResult[v]
  BY <1>1, <1>2
<1> QED  BY <1>1, <1>3, <1>4, <1>5, <1>6, <1>7, <1>8, SettleIInv

LEMMA ConcludeIInv ==
    ASSUME JenkinsBuildsAssumption, FetchIInv, fetch = "receiving", NEW w \in Workers, Conclude(w)
    PROVE  FetchIInv'
<1>1. /\ clock' = clock /\ call[w] = "updating" /\ call' = [call EXCEPT ![w] = "outside"]
      /\ callResult' = callResult /\ calledAt' = calledAt
      /\ Breaker!updateState(callResult[w]) /\ RetryOrSettle(w, callResult[w])
      /\ kind' = kind /\ page' = page /\ stop' = stop /\ completed' = completed
      /\ waiting' = waiting /\ build' = build
  BY DEF Conclude, Breaker!UpdateState
<1>2. callResult[w] \in Replies(page - w) /\ (build[w] <=> callResult[w] = NoError) /\ worker[w] = "asking"
  BY <1>1 DEF FetchIInv, PlaceInv
<1>3. Breaker!TypeOK' /\ BreakerInv'
  <2>1. RetryDelay \in Nat
    BY DEF JenkinsBuildsAssumption
  <2>2. clock + RetryDelay \in Nat /\ callResult[w] \in Breaker!Results
    BY <2>1 DEF FetchIInv, FetchTypeOK, Breaker!TypeOK
  <2>3. call' \in [Workers -> {"outside", "calling", "updating"}]
    BY <1>1 DEF FetchIInv, FetchTypeOK, Breaker!TypeOK
  <2>4. isOpen' \in BOOLEAN /\ isBlockedUntil' \in Nat /\ openErr' \in Breaker!Results /\ BreakerInv'
    <3>1. CASE Breaker!isRetryBlocked
      BY <1>1, <3>1 DEF Breaker!updateState, Breaker!breaker, FetchIInv, FetchTypeOK, Breaker!TypeOK, BreakerInv
    <3>2. CASE ~Breaker!isRetryBlocked
      BY <1>1, <2>2, <3>2, Zenon
         DEF Breaker!updateState, Breaker!Record, FetchIInv, FetchTypeOK, Breaker!TypeOK, BreakerInv
    <3> QED  BY <3>1, <3>2
  <2> QED  BY <1>1, <2>3, <2>4 DEF FetchIInv, FetchTypeOK, Breaker!TypeOK
<1>4. Retried(w, callResult[w])
  BY <1>1, RetryOrSettleRetries DEF FetchIInv
<1>5. \A v \in Workers : call[v] = "updating" /\ v # w => callResult'[v] = callResult[v]
  BY <1>1
<1>6. worker[w] # "done"
  BY <1>2
<1> QED  BY <1>1, <1>2, <1>3, <1>4, <1>5, <1>6, SettleIInv

LEMMA DeliverIInv ==
    ASSUME JenkinsBuildsAssumption, FetchIInv, fetch = "receiving", NEW w \in Workers, Deliver(w)
    PROVE  FetchIInv'
<1> USE DEF FetchIInv
<1>1. /\ clock' = clock /\ isOpen' = isOpen /\ isBlockedUntil' = isBlockedUntil /\ openErr' = openErr
      /\ call' = call /\ callResult' = callResult /\ calledAt' = calledAt
      /\ kind' = kind /\ page' = page /\ fetch' = fetch /\ attempt' = attempt
      /\ wakeAt' = wakeAt /\ build' = build /\ status' = status
  BY DEF Deliver, breakerVars
<1>2. /\ worker[w] = "sending" /\ worker' = [worker EXCEPT ![w] = "done"]
      /\ waiting' = waiting - 1
      /\ completed' = IF build[w] /\ kind[page - w] = "recent"
                        THEN [completed EXCEPT ![page - w] = @ + 1] ELSE completed
      /\ stop' = (stop \/ (build[w] /\ kind[page - w] = "old"))
  BY DEF Deliver
<1>3. Unfinished' = Unfinished \ {w} /\ w \in Unfinished
  BY <1>2 DEF Unfinished, FetchTypeOK
<1>4. Cardinality(Unfinished') = Cardinality(Unfinished) - 1 /\ IsFiniteSet(Unfinished')
  BY <1>3, UnfinishedIsFinite, FS_RemoveElement
<1>5. Cardinality(Unfinished') \in Nat
  BY <1>4, FS_CardinalityType
<1>6. WaitInv'
  BY <1>2, <1>4 DEF WaitInv
<1>7. PageSize \in Nat /\ waiting \in 0..PageSize
  BY DEF JenkinsBuildsAssumption, FetchTypeOK
<1>8. waiting' \in 0..PageSize
  BY <1>5, <1>6, <1>2, <1>7 DEF WaitInv
<1>9. \A v \in Workers : page - v \in BuildNumbers
  BY PageIsBuilds
<1>10. completed' \in [BuildNumbers -> Nat]
  BY <1>2, <1>9 DEF FetchTypeOK
<1>11. FetchTypeOK' /\ BreakerInv'
  <2>1. Breaker!TypeOK' /\ BreakerInv'
    BY <1>1 DEF FetchTypeOK, Breaker!TypeOK, BreakerInv
  <2>2. stop' \in BOOLEAN
    BY <1>2
  <2>3. worker' \in [Workers -> {"trying", "asking", "sleeping", "sending", "done"}]
    BY <1>2 DEF FetchTypeOK
  <2> QED  BY <1>1, <1>8, <1>10, <2>1, <2>2, <2>3 DEF FetchTypeOK
<1>12. /\ worker'[w] = "done"
       /\ \A v \in Workers : v # w => worker'[v] = worker[v]
  BY <1>2 DEF FetchTypeOK
<1>13. PlaceInv'
  BY <1>1, <1>2, <1>12 DEF PlaceInv, Replies
<1>14. KnownInv'
  BY <1>1, <1>2, <1>12 DEF KnownInv
<1>15. PageInv'
  <2>1. page \in Int /\ \A v \in Workers : v \in Int
    BY DEF PageInv, Workers
  <2>2. completed[page - w] = 0 /\ completed[page - w] + 1 = 1
    BY <1>2 DEF PageInv
  <2>3. completed'[page - w] = IF build[w] THEN InPeriod(page - w) ELSE 0
    BY <1>2, <1>9, <2>2 DEF InPeriod, FetchTypeOK
  <2>4. \A b \in BuildNumbers : b # page - w => completed'[b] = completed[b]
    BY <1>2 DEF FetchTypeOK
  <2>5. \A v \in Workers : v # w => page - v # page - w
    BY <2>1
  <2>6. \A v \in Workers :
           completed'[page - v] = IF worker'[v] = "done" /\ build[v] THEN InPeriod(page - v) ELSE 0
    BY <1>9, <1>12, <2>3, <2>4, <2>5 DEF PageInv
  <2>7. page - w <= page /\ page - w > page - PageSize
    BY <1>7, <2>1 DEF Workers
  <2>8. \A b \in BuildNumbers : b \in Int
    BY DEF BuildNumbers
  <2>9. /\ \A b \in BuildNumbers : b > page => completed'[b] = InPeriod(b)
        /\ \A b \in BuildNumbers : b <= page - PageSize => completed'[b] = 0
    BY <1>7, <2>1, <2>4, <2>7, <2>8 DEF PageInv
  <2>10. stop' => \E v \in Workers : kind[page - v] = "old"
    BY <1>2 DEF PageInv
  <2>11. /\ \A b \in BuildNumbers : InPeriod(b)' = InPeriod(b)
         /\ \A v \in Workers : InPeriod(page - v)' = InPeriod(page - v)
    BY <1>1 DEF InPeriod
  <2> QED  BY <1>1, <2>6, <2>9, <2>10, <2>11 DEF PageInv
<1> QED  BY <1>6, <1>11, <1>13, <1>14, <1>15

\* Once all workers of a page have reported, its builds are settled.
LEMMA PageIsSettled ==
    ASSUME JenkinsBuildsAssumption, FetchTypeOK, KnownInv, PageInv, fetch # "fatal",
           \A w \in Workers : worker[w] = "done"
    PROVE  \A b \in BuildNumbers : b > NextPage(page) => completed[b] = InPeriod(b)
<1>1. TAKE b \in BuildNumbers
<1>2. HAVE b > NextPage(page)
<1>3. page \in Int /\ b \in Int /\ PageSize \in Nat
  BY DEF PageInv, BuildNumbers, JenkinsBuildsAssumption
<1>4. CASE b > page
  BY <1>4 DEF PageInv
<1>5. CASE b <= page
  <2>1. page - b \in Workers /\ page - (page - b) = b
    BY <1>2, <1>3, <1>5 DEF Workers, NextPage
  <2>2. completed[b] = IF build[page - b] THEN InPeriod(b) ELSE 0
    BY <2>1 DEF PageInv
  <2>3. build[page - b] \/ kind[b] = "missing"
    BY <2>1 DEF KnownInv
  <2> QED  BY <2>2, <2>3 DEF InPeriod
<1> QED  BY <1>3, <1>4, <1>5

LEMMA ClosePageIInv ==
    ASSUME JenkinsBuildsAssumption, FetchIInv, fetch = "receiving", ClosePage
    PROVE  FetchIInv'
<1> USE DEF FetchIInv
<1>1. /\ clock' = clock /\ isOpen' = isOpen /\ isBlockedUntil' = isBlockedUntil /\ openErr' = openErr
      /\ call' = call /\ callResult' = callResult /\ calledAt' = calledAt
      /\ kind' = kind /\ completed' = completed
  BY DEF ClosePage, breakerVars
<1>2. \A w \in Workers : worker[w] = "done"
  BY NobodyWaited DEF ClosePage
<1>3. \A w \in Workers : call[w] = "outside"
  BY <1>2 DEF PlaceInv
<1>4. Breaker!TypeOK' /\ BreakerInv'
  BY <1>1 DEF FetchTypeOK, Breaker!TypeOK, BreakerInv
<1>5. \A b : InPeriod(b)' = IF kind[b] = "recent" THEN 1 ELSE 0
  BY <1>1 DEF InPeriod
<1>6. CASE stop \/ NextPage(page) <= 0
  <2>1. /\ fetch' = "fetched" /\ page' = page /\ stop' = stop /\ waiting' = waiting
        /\ worker' = worker /\ attempt' = attempt /\ wakeAt' = wakeAt /\ build' = build
        /\ status' = status
    BY <1>6 DEF ClosePage, workerVars
  <2>2. FetchTypeOK' /\ PlaceInv' /\ KnownInv'
    BY <1>1, <1>4, <2>1 DEF FetchTypeOK, PlaceInv, KnownInv, Replies
  <2>3. Unfinished' = Unfinished /\ Unfinished' = {}
    BY <1>2, <2>1 DEF Unfinished
  <2>4. WaitInv'
    BY <2>1, <2>3 DEF WaitInv
  <2>5. PageInv'
    BY <1>1, <1>5, <1>6, <2>1, <2>3 DEF PageInv, InPeriod, NextPage
  <2> QED  BY <1>4, <2>2, <2>4, <2>5
<1>7. CASE ~(stop \/ NextPage(page) <= 0)
  <2>1. /\ fetch' = fetch /\ page' = page - PageSize /\ ~(page - PageSize <= 0)
        /\ stop' = FALSE /\ waiting' = PageSize
        /\ worker' = [w \in Workers |-> "trying"]
        /\ attempt' = [w \in Workers |-> 0]
        /\ wakeAt' = [w \in Workers |-> 0]
        /\ build' = [w \in Workers |-> FALSE]
        /\ status' = [w \in Workers |-> "none"]
    BY <1>7 DEF ClosePage, PageStarts, NextPage
  <2>2. PageSize \in Nat \ {0} /\ LastBuild \in Nat \ {0} /\ Attempts \in Nat \ {0}
    BY DEF JenkinsBuildsAssumption
  <2>3. page \in Nat \ {0} /\ page <= LastBuild /\ page' \in Nat \ {0}
    BY <2>1, <2>2 DEF FetchTypeOK, PageInv, BuildNumbers
  <2>4. page' \in BuildNumbers /\ PageSize \in 0..PageSize /\ 0 \in 0..Attempts - 1
    BY <2>1, <2>2, <2>3 DEF BuildNumbers
  <2>5. FetchTypeOK'
    BY <1>1, <1>4, <2>1, <2>4 DEF FetchTypeOK
  <2>6. PlaceInv' /\ KnownInv'
    BY <1>1, <1>3, <2>1 DEF PlaceInv, KnownInv
  <2>7. Unfinished' = Workers
    BY <2>1 DEF Unfinished
  <2>8. WaitInv'
    BY <2>1, <2>7, WorkersCount DEF WaitInv
  <2>9. \A b \in BuildNumbers : b > page' => completed[b] = InPeriod(b)
    BY <1>2, <2>1, PageIsSettled DEF NextPage
  <2>10. \A b \in BuildNumbers : b <= page' => completed[b] = 0
    BY <2>1 DEF PageInv
  <2>11. \A w \in Workers : page' - w \in BuildNumbers /\ page' - w <= page' /\ worker'[w] = "trying"
    BY <2>1, <2>2, <2>3 DEF Workers, BuildNumbers
  <2>12. \A w \in Workers : completed[page' - w] = 0
    BY <2>10, <2>11
  <2>13. \A b \in BuildNumbers : b <= page' - PageSize => b <= page'
    <3>1. \A p, b \in Int : b <= p - PageSize => b <= p
      BY <2>2
    <3>2. page' \in Int /\ BuildNumbers \subseteq Int
      BY <2>3 DEF BuildNumbers
    <3> QED  BY <3>1, <3>2
  <2>14. \A b \in BuildNumbers : b > page' => completed[b] = InPeriod(b)'
    BY <1>1, <2>9 DEF InPeriod
  <2>15. PageInv'
    BY <1>1, <2>1, <2>3, <2>10, <2>11, <2>12, <2>13, <2>14 DEF PageInv
  <2> QED  BY <1>4, <2>5, <2>6, <2>8, <2>15
<1> QED  BY <1>6, <1>7

LEMMA RestIInv == ASSUME FetchIInv, UNCHANGED fetchVars PROVE FetchIInv'
<1>1. /\ clock' = clock /\ isOpen' = isOpen /\ isBlockedUntil' = isBlockedUntil /\ openErr' = openErr
      /\ call' = call /\ callResult' = callResult /\ calledAt' = calledAt
      /\ kind' = kind /\ page' = page /\ fetch' = fetch /\ stop' = stop /\ completed' = completed
      /\ waiting' = waiting /\ worker' = worker /\ attempt' = attempt /\ wakeAt' = wakeAt
      /\ build' = build /\ status' = status
  BY DEF fetchVars, breakerVars, pageVars, workerVars
<1>2. FetchTypeOK' /\ BreakerInv' /\ PlaceInv' /\ KnownInv'
  BY <1>1 DEF FetchIInv, FetchTypeOK, Breaker!TypeOK, BreakerInv, PlaceInv, KnownInv, Replies
<1>3. Unfinished' = Unfinished
  BY <1>1 DEF Unfinished
<1>4. WaitInv' /\ PageInv'
  BY <1>1, <1>3 DEF FetchIInv, WaitInv, PageInv, InPeriod, NextPage
<1> QED  BY <1>2, <1>4 DEF FetchIInv

LEMMA FetchNextIInv == ASSUME JenkinsBuildsAssumption, FetchIInv, [FetchNext]_fetchVars PROVE FetchIInv'
<1>1. CASE UNCHANGED fetchVars
  BY <1>1, RestIInv
<1>2. CASE FetchNext
  <2>1. fetch = "receiving" /\ (FetchTick \/ ClosePage \/ \E w \in Workers : Step(w))
    BY <1>2 DEF FetchNext
  <2>2. CASE FetchTick
    BY <2>1, <2>2, TickIInv
  <2>3. CASE ClosePage
    BY <2>1, <2>3, ClosePageIInv
  <2>4. ASSUME NEW w \in Workers, Step(w)
        PROVE  FetchIInv'
    BY <2>1, <2>4, RejectedIInv, AskIInv, ReplyIInv, ConcludeIInv, WakeIInv, DeliverIInv DEF Step
  <2> QED  BY <2>1, <2>2, <2>3, <2>4
<1> QED  BY <1>1, <1>2

LEMMA FetchInvariant == ASSUME JenkinsBuildsAssumption PROVE FetchSpec => []FetchIInv
BY FetchInitIInv, FetchNextIInv, PTL DEF FetchSpec

-----------------------------------------------------------------------------
\* getBuildsPaged's goroutines, their retries and the breaker keep to their
\* types; the WaitGroup's counter is never negative, which would panic.
THEOREM Types == ASSUME JenkinsBuildsAssumption PROVE FetchSpec => []FetchTypeOK
<1>1. FetchIInv => FetchTypeOK
  BY DEF FetchIInv
<1> QED  BY <1>1, FetchInvariant, PTL

\* What recent builds there are, the invariant accounts for.
LEMMA FetchedIsPeriod == ASSUME JenkinsBuildsAssumption, FetchIInv PROVE FetchesPeriod
<1> USE DEF FetchIInv
<1>1. SUFFICES ASSUME fetch = "fetched", NEW b \in BuildNumbers
               PROVE  completed[b] = InPeriod(b)
  BY DEF FetchesPeriod, InPeriod
<1>2. PageSize \in Nat /\ page \in Int /\ b \in Int /\ b <= LastBuild /\ LastBuild \in Nat
  BY DEF PageInv, BuildNumbers, JenkinsBuildsAssumption
<1>3. \A w \in Workers : worker[w] = "done"
  BY <1>1 DEF PageInv, Unfinished
<1>4. CASE b > NextPage(page)
  BY <1>1, <1>3, <1>4, PageIsSettled
<1>5. CASE b <= NextPage(page)
  <2>1. completed[b] = 0
    BY <1>5 DEF PageInv, NextPage
  <2>2. ASSUME kind[b] = "recent" PROVE FALSE
    <3>1. ~(b < 1) /\ \A later \in b..LastBuild : kind[later] # "old"
      BY <2>2 DEF PageInv, PossibleKinds
    <3>2. ~(NextPage(page) <= 0)
      BY <1>2, <1>5, <3>1 DEF NextPage
    <3>3. PICK w \in Workers : kind[page - w] = "old"
      BY <1>1, <3>2 DEF PageInv
    <3>4. page - w \in b..LastBuild
      <4>1. page - w \in BuildNumbers
        BY PageIsBuilds
      <4> QED  BY <1>2, <1>5, <4>1 DEF NextPage, Workers, BuildNumbers
    <3> QED  BY <3>1, <3>3, <3>4
  <2> QED  BY <2>1, <2>2 DEF InPeriod
<1> QED  BY <1>2, <1>4, <1>5 DEF NextPage

\* FetchCompletedBuildsForJob returns the completed builds of the report period
\* and each once, for any page size, number of attempts and answers of Jenkins.
THEOREM FetchIsExact == ASSUME JenkinsBuildsAssumption PROVE FetchSpec => []FetchesPeriod
BY FetchedIsPeriod, FetchInvariant, PTL

\* getBuildsPaged closes the page's channel, and the loop goes on to the next
\* page or ends, after every goroutine of the page has sent its result.
THEOREM ClosedAfterReports == ASSUME JenkinsBuildsAssumption PROVE FetchSpec => AllReportBeforeClose
<1> DEFINE Closed == (page' # page \/ (fetch = "receiving" /\ fetch' = "fetched")) =>
                         \A w \in Workers : worker[w] = "done"
<1>1. ASSUME FetchIInv, FetchNext
      PROVE  Closed
  <2>1. CASE ClosePage
    BY <1>1, <2>1, NobodyWaited DEF ClosePage, FetchIInv
  <2>2. CASE FetchTick
    BY <2>2 DEF FetchTick, pageVars
  <2>3. ASSUME NEW w \in Workers, Step(w)
        PROVE  page' = page /\ fetch' \in {fetch, "fatal"}
    BY <2>3 DEF Step, Rejected, Ask, Reply, Conclude, Wake, Deliver, RetryOrSettle, pageVars
  <2> QED  BY <1>1, <2>1, <2>2, <2>3 DEF FetchNext
<1>2. FetchIInv /\ [FetchNext]_fetchVars => [Closed]_fetchVars
  BY <1>1
<1> QED  BY <1>2, FetchInvariant, PTL DEF FetchSpec, AllReportBeforeClose

-----------------------------------------------------------------------------
\* A step of a worker is a step of the breaker's caller, or leaves the breaker alone.
LEMMA StepIsBreakers ==
    ASSUME FetchNext
    PROVE  Breaker!Next \/ UNCHANGED breakerVars
<1>1. ASSUME NEW w \in Workers, Step(w)
      PROVE  Breaker!Next \/ UNCHANGED breakerVars
  <2>1. CASE Rejected(w)
    BY <2>1 DEF Rejected, Breaker!Next
  <2>2. CASE Ask(w)
    BY <2>2 DEF Ask, Breaker!Next
  <2>3. CASE Reply(w)
    <3>1. PICK r \in Replies(page - w) : Breaker!TargetReturns(w, r)
      BY <2>3 DEF Reply
    <3>2. r \in Breaker!Results
      BY DEF Replies, Breaker!Results, JenkinsErrors
    <3> QED  BY <3>1, <3>2 DEF Breaker!Next
  <2>4. CASE Conclude(w)
    BY <2>4 DEF Conclude, Breaker!Next
  <2>5. CASE Wake(w)
    BY <2>5 DEF Wake
  <2>6. CASE Deliver(w)
    BY <2>6 DEF Deliver
  <2> QED  BY <1>1, <2>1, <2>2, <2>3, <2>4, <2>5, <2>6 DEF Step
<1>2. ASSUME FetchTick PROVE Breaker!Next
  BY <1>2 DEF FetchTick, Breaker!Next
<1>3. ASSUME ClosePage PROVE UNCHANGED breakerVars
  BY <1>3 DEF ClosePage
<1> QED  BY <1>1, <1>2, <1>3 DEF FetchNext

\* The fetch implements the breaker: its workers, who try again and settle as builds.go has
\* them do, are callers like any others, and what the breaker promises holds of a fetch.
THEOREM FetchUsesBreaker == FetchSpec => Breaker!Spec
<1>1. FetchInit => Breaker!Init
  BY DEF FetchInit
<1>2. [FetchNext]_fetchVars => [Breaker!Next]_(Breaker!vars)
  <2>1. UNCHANGED fetchVars => UNCHANGED breakerVars
    BY DEF fetchVars
  <2>2. UNCHANGED breakerVars => UNCHANGED (Breaker!vars)
    BY DEF breakerVars, Breaker!vars, Breaker!breaker
  <2> QED  BY <2>1, <2>2, StepIsBreakers
<1> QED  BY <1>1, <1>2, PTL DEF FetchSpec, Breaker!Spec
=============================================================================
