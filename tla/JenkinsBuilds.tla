---------------------------- MODULE JenkinsBuilds ----------------------------
(***************************************************************************)
(* pkg/jenkins/builds.go: FetchCompletedBuildsForJob walks the builds of a *)
(* job backwards in pages.  One goroutine per build of the page fetches it *)
(* through retry.Do and the shared circuit breaker and sends the outcome   *)
(* over the page's channel, which is closed once all have reported.        *)
(***************************************************************************)
EXTENDS Integers, FiniteSets

CONSTANTS
    LastBuild,      \* number of the job's latest build
    PageSize,       \* paginationSize
    Attempts,       \* retry.DefaultAttempts
    RetryDelay,     \* retryDelay, of the retries and of the breaker
    MaxJitter,      \* maxJitter
    MaxFetchTime    \* bound on the clock

\* A job without builds is not asked for; NewCircuitBreaker panics without a delay.
JenkinsBuildsAssumption ==
    /\ {LastBuild, PageSize, Attempts, RetryDelay} \subseteq Nat \ {0}
    /\ {MaxJitter, MaxFetchTime} \subseteq Nat

Workers == 0..PageSize - 1
BuildNumbers == 1 - PageSize..LastBuild

NoError == "nil"
JenkinsErrors == {"504", "404", "500"}   \* 404 also stands for 403
GatewayTimeouts == {"504"} \* openOnStatusGateWayTimeout

VARIABLES
    clock, isOpen, isBlockedUntil, openErr, call, callResult, calledAt,  \* the breaker
    kind,       \* what Jenkins knows of each build
    page,       \* buildNumber of the loop: first build of the page
    fetch,      \* of the fetching goroutine
    stop,       \* a build of this page began before startOfReport
    completed,  \* completed[b]: how often b was appended to completedBuilds
    waiting,    \* the WaitGroup's counter
    worker,     \* worker[w]: what the goroutine of build page - w does
    attempt,    \* attempt[w]: n of retry.Do
    wakeAt,     \* wakeAt[w]: when its retry delay ends
    build,      \* build[w]: the captured variable build is set
    status      \* status[w]: the captured variable statusCode, "none" for 0

breakerVars == <<clock, isOpen, isBlockedUntil, openErr, call, callResult, calledAt>>
pageVars == <<page, fetch, stop, completed, waiting>>
workerVars == <<worker, attempt, wakeAt, build, status>>
fetchVars == <<breakerVars, kind, pageVars, workerVars>>

Breaker == INSTANCE CircuitBreaker WITH
    Callers <- Workers, Errors <- JenkinsErrors, OpeningErrors <- GatewayTimeouts, Nil <- NoError,
    RetryAfter <- RetryDelay, MaxTime <- MaxFetchTime,
    now <- clock, open <- isOpen, blockedUntil <- isBlockedUntil, lastErr <- openErr, pc <- call,
    result <- callResult, startedAt <- calledAt

Kinds == {"recent", "old", "skipped", "missing"}

FetchTypeOK ==
    /\ Breaker!TypeOK
    /\ kind \in [BuildNumbers -> Kinds]
    /\ page \in BuildNumbers
    /\ fetch \in {"receiving", "fetched", "fatal"}
    /\ stop \in BOOLEAN
    /\ completed \in [BuildNumbers -> Nat]
    /\ waiting \in 0..PageSize
    /\ worker \in [Workers -> {"trying", "asking", "sleeping", "sending", "done"}]
    /\ attempt \in [Workers -> 0..Attempts - 1]
    /\ wakeAt \in [Workers -> Nat]
    /\ build \in [Workers -> BOOLEAN]
    /\ status \in [Workers -> {"none"} \cup JenkinsErrors]

\* Build times grow with build numbers; numbers below 1 do not exist.  A build
\* neither SUCCESS nor UNSTABLE is skipped before its time is looked at.
PossibleKinds ==
    {k \in [BuildNumbers -> Kinds] :
        \A b \in BuildNumbers :
            /\ b < 1 => k[b] = "missing"
            /\ k[b] = "recent" => \A later \in b..LastBuild : k[later] # "old"}

\* getBuildsPaged for the page starting at b.
PageStarts(b) ==
    /\ page' = b
    /\ stop' = FALSE
    /\ waiting' = PageSize
    /\ worker' = [w \in Workers |-> "trying"]
    /\ attempt' = [w \in Workers |-> 0]
    /\ wakeAt' = [w \in Workers |-> 0]
    /\ build' = [w \in Workers |-> FALSE]
    /\ status' = [w \in Workers |-> "none"]

FetchInit ==
    /\ Breaker!Init
    /\ kind \in PossibleKinds
    /\ page = LastBuild
    /\ fetch = "receiving"
    /\ stop = FALSE
    /\ completed = [b \in BuildNumbers |-> 0]
    /\ waiting = PageSize
    /\ worker = [w \in Workers |-> "trying"]
    /\ attempt = [w \in Workers |-> 0]
    /\ wakeAt = [w \in Workers |-> 0]
    /\ build = [w \in Workers |-> FALSE]
    /\ status = [w \in Workers |-> "none"]

-----------------------------------------------------------------------------
\* getFilteredBuild ends the process for a build that could not be fetched and
\* is not known to be missing.
SettledFatally(w, err) == ~build[w] /\ status'[w] # "404"

\* The wrapped function gave err to retry.Do: sleep and try again after a
\* gateway timeout while attempts are left, else settle the build.
RetryOrSettle(w, err) ==
    /\ status' = [status EXCEPT ![w] = IF err = NoError THEN @ ELSE err]
    /\ IF err = "504" /\ attempt[w] < Attempts - 1
         THEN /\ \E jitter \in 0..MaxJitter :
                   wakeAt' = [wakeAt EXCEPT ![w] = clock + RetryDelay + jitter]
              /\ attempt' = [attempt EXCEPT ![w] = @ + 1]
              /\ worker' = [worker EXCEPT ![w] = "sleeping"]
              /\ UNCHANGED fetch
         ELSE /\ worker' = [worker EXCEPT ![w] = "sending"]
              /\ fetch' = IF SettledFatally(w, err) THEN "fatal" ELSE fetch
              /\ UNCHANGED <<attempt, wakeAt>>

\* The breaker returns its last error without asking Jenkins.
Rejected(w) ==
    /\ worker[w] = "trying"
    /\ Breaker!FailFast(w)
    /\ RetryOrSettle(w, callResult'[w])
    /\ UNCHANGED <<kind, page, stop, completed, waiting, build>>

Ask(w) ==
    /\ worker[w] = "trying"
    /\ Breaker!StartCall(w)
    /\ worker' = [worker EXCEPT ![w] = "asking"]
    /\ UNCHANGED <<kind, pageVars, attempt, wakeAt, build, status>>

\* Jenkins may time out or fail for any build, else it tells the truth.
Replies(b) == {"504", "500"} \cup {IF kind[b] = "missing" THEN "404" ELSE NoError}

Reply(w) ==
    \E r \in Replies(page - w) :
        /\ Breaker!TargetReturns(w, r)
        /\ build' = [build EXCEPT ![w] = (r = NoError)]
        /\ UNCHANGED <<kind, pageVars, worker, attempt, wakeAt, status>>

Conclude(w) ==
    /\ Breaker!UpdateState(w)
    /\ RetryOrSettle(w, callResult[w])
    /\ UNCHANGED <<kind, page, stop, completed, waiting, build>>

Wake(w) ==
    /\ worker[w] = "sleeping"
    /\ clock >= wakeAt[w]
    /\ worker' = [worker EXCEPT ![w] = "trying"]
    /\ UNCHANGED <<breakerVars, kind, pageVars, attempt, wakeAt, build, status>>

\* --- faulty variant of Deliver
DeliverOnlyBuilds(w) ==
    /\ worker[w] = "sending"
    /\ worker' = [worker EXCEPT ![w] = "done"]
    /\ IF build[w]
         THEN /\ waiting' = waiting - 1
              /\ completed' = IF kind[page - w] = "recent"
                                THEN [completed EXCEPT ![page - w] = @ + 1] ELSE completed
              /\ stop' = (stop \/ kind[page - w] = "old")
         ELSE UNCHANGED <<waiting, completed, stop>>
    /\ UNCHANGED <<breakerVars, kind, page, fetch, attempt, wakeAt, build, status>>
\* ---

\* getFilteredBuild's result travels over the unbuffered channel, then wg.Done.
Deliver(w) ==
    /\ worker[w] = "sending"
    /\ worker' = [worker EXCEPT ![w] = "done"]
    /\ waiting' = waiting - 1
    /\ completed' = IF build[w] /\ kind[page - w] = "recent"
                      THEN [completed EXCEPT ![page - w] = @ + 1]
                      ELSE completed
    /\ stop' = (stop \/ (build[w] /\ kind[page - w] = "old"))
    /\ UNCHANGED <<breakerVars, kind, page, fetch, attempt, wakeAt, build, status>>

\* --- faulty variant of NextPage
NextPageOffByOne(b) == b - PageSize - 1
\* ---

NextPage(b) == b - PageSize

\* --- faulty variant of ClosePage
ClosePageEarly ==
    /\ waiting <= 1
    /\ IF stop \/ NextPage(page) <= 0
         THEN fetch' = "fetched" /\ UNCHANGED <<page, stop, waiting, workerVars>>
         ELSE PageStarts(NextPage(page)) /\ UNCHANGED fetch
    /\ UNCHANGED <<breakerVars, kind, completed>>
\* ---

\* wg.Wait returns, the channel is closed and the loop goes on or ends.
ClosePage ==
    /\ waiting = 0
    /\ IF stop \/ NextPage(page) <= 0
         THEN fetch' = "fetched" /\ UNCHANGED <<page, stop, waiting, workerVars>>
         ELSE PageStarts(NextPage(page)) /\ UNCHANGED fetch
    /\ UNCHANGED <<breakerVars, kind, completed>>

\* Time matters only while a delay or the blocked period runs.
FetchTick ==
    /\ \/ Breaker!isRetryBlocked
       \/ \E w \in Workers : worker[w] = "sleeping" /\ clock < wakeAt[w]
    /\ Breaker!Tick
    /\ UNCHANGED <<kind, pageVars, workerVars>>

Step(w) ==
    \/ Rejected(w)
    \/ Ask(w)
    \/ Reply(w)
    \/ Conclude(w)
    \/ Wake(w)
    \/ Deliver(w)

FetchNext ==
    fetch = "receiving" /\ (FetchTick \/ ClosePage \/ \E w \in Workers : Step(w))

FetchSpec == FetchInit /\ [][FetchNext]_fetchVars

-----------------------------------------------------------------------------
\* The fetch returns exactly the completed builds of the report period, each
\* once: no build is dropped because the breaker, a late result or a retry
\* passed it off as missing, none is fetched twice at a page boundary.
FetchesPeriod ==
    fetch = "fetched" =>
        \A b \in BuildNumbers : completed[b] = (IF kind[b] = "recent" THEN 1 ELSE 0)

\* A page ends, and its channel is closed, after all its builds have reported.
AllReportBeforeClose ==
    [][(page' # page \/ (fetch = "receiving" /\ fetch' = "fetched")) =>
          \A w \in Workers : worker[w] = "done"]_fetchVars
=============================================================================
