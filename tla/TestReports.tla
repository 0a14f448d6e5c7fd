----------------------------- MODULE TestReports -----------------------------
(***************************************************************************)
(* robots/test-report and pkg/test-report: which tests ran on the lanes of *)
(* Jenkins in the last days, which of a version ran nowhere, and which of  *)
(* the tests in quarantine have been stable and may leave it.              *)
(***************************************************************************)
EXTENDS Integers, Sequences, FiniteSets

CONSTANTS
    TestJobs, TestCases,
    RecordIds,          \* ids in the files of tests not to be run
    Matching,           \* pairs of an id and a test whose name has it
    DontRun,            \* the configured files: pairs of jobs and ids, as jobNamePatternsToDontRunFileURLs
    JobsForTestNames,   \* jobs of jobNamePatternForTestNames, all if there is none
    Group, Version, Sig,    \* of a job the groups and the version, of a test the groups by its SIG
    MinimumPassedRuns,  \* --minimum-passed-runs-per-test
    MaxRuns             \* bound on the builds of all jobs

TestReportsAssumption ==
    /\ Matching \subseteq RecordIds \X TestCases
    /\ DontRun \subseteq (SUBSET TestJobs) \X (SUBSET RecordIds)
    /\ JobsForTestNames \subseteq TestJobs
    /\ {MinimumPassedRuns, MaxRuns} \subseteq Nat
    /\ IsFiniteSet(RecordIds)

VARIABLES
    runs,           \* per job the builds in the period of a report, each with the states of cases
    quarantined,    \* the quarantine file
    remaining,      \* the output of the last dequarantine execute, if there is one
    statuses,       \* the JSON of the last execution report
    notRun          \* the files of the last filter of these

testReportVars == <<runs, quarantined, remaining, statuses, notRun>>

NoOutput == {"none"}
NoStatuses == <<>>

TestReportsInit ==
    /\ runs = [j \in TestJobs |-> <<>>]
    /\ \E k \in 1..Cardinality(RecordIds) : quarantined \in [1..k -> RecordIds]
    /\ remaining = NoOutput
    /\ statuses = NoStatuses
    /\ notRun = {}

\* The files of the last execution report are of no use any more.
Outdated ==
    /\ statuses' = NoStatuses /\ notRun' = {}
    /\ UNCHANGED <<quarantined, remaining>>

allRuns == UNION {{<<j, n>> : n \in DOMAIN runs[j]} : j \in TestJobs}

\* A build ends, with some of the cases.  PASSED stands for FIXED and FAILED for REGRESSION, too.
Build(j) ==
    /\ Cardinality(allRuns) < MaxRuns
    /\ \E cases \in SUBSET TestCases \ {{}} : \E states \in [cases -> {"PASSED", "FAILED", "SKIPPED"}] :
          runs' = [runs EXCEPT ![j] = Append(@, states)]
    /\ Outdated

\* The first build has become too old.
Leave(j) ==
    /\ runs[j] # <<>>
    /\ runs' = [runs EXCEPT ![j] = Tail(@)]
    /\ Outdated

-----------------------------------------------------------------------------
\* Dequarantining.

NameMatches(id, t) == <<id, t>> \in Matching
records == {quarantined[k] : k \in DOMAIN quarantined}

\* The results of a test, over all jobs: the builds that have it.
TestResults(t) ==
    {b \in allRuns : t \in DOMAIN runs[b[1]][b[2]]}
result(b, t) == runs[b[1]][b[2]][t]

\* insertTestRunDataIntoTestCases: a test is counted for the first record it matches.
TestsOf(k) ==
    {t \in TestCases :
        /\ TestResults(t) # {} /\ NameMatches(quarantined[k], t)
        /\ \A i \in 1 .. k - 1 : ~NameMatches(quarantined[i], t)}

isTestFailing(state) == state \notin {"PASSED", "SKIPPED"}
isTestPassing(state) == state = "PASSED"
passes(t) == {b \in TestResults(t) : isTestPassing(result(b, t))}

\* --- faulty variant of Stable
StableTogether(k) ==
    /\ \A t \in TestsOf(k) : \A b \in TestResults(t) : ~isTestFailing(result(b, t))
    /\ Cardinality(UNION {passes(t) : t \in TestsOf(k)}) >= MinimumPassedRuns
\* ---

\* filterUnstableTestRecords leaves out the records that have tests, none of which has
\* failed and each of which has passed often enough.
Stable(k) ==
    /\ TestsOf(k) # {}
    /\ \A t \in TestsOf(k) :
          /\ \A b \in TestResults(t) : ~isTestFailing(result(b, t))
          /\ Cardinality(passes(t)) >= MinimumPassedRuns

\* runDequarantineExecution, an error for an empty file.
Execute ==
    /\ quarantined # <<>> /\ remaining = NoOutput
    /\ remaining' = {quarantined[k] : k \in {k \in DOMAIN quarantined : ~Stable(k)}}
    /\ UNCHANGED <<runs, quarantined, statuses, notRun>>

\* What is left of the file, in its order.
Kept(ids) ==
    LET ks == {k \in DOMAIN quarantined : quarantined[k] \in ids}
        place(n) == CHOOSE k \in ks : Cardinality({l \in ks : l < k}) = n - 1
    IN  [n \in 1..Cardinality(ks) |-> quarantined[place(n)]]

\* People replace the file by the output, or throw it away.
Adopt ==
    /\ remaining # NoOutput
    /\ quarantined' \in {quarantined, Kept(remaining)}
    /\ remaining' = NoOutput
    /\ UNCHANGED <<runs, statuses, notRun>>

-----------------------------------------------------------------------------
\* The execution report.

\* A file without entries gives an expression that matches every name.
filters(ids, t) == ids = {} \/ \E id \in ids : NameMatches(id, t)

\* CreateReportData: Unsupported, what was skipped on a job and is filtered there; of
\* several patterns of a job any may be met first.
Reported(t, status) ==
    {states \in [DOMAIN status -> {"Run", "Skipped", "Unsupported"}] :
        \A j \in DOMAIN status :
            LET met == {d \in DontRun : j \in d[1]}
            IN  IF status[j] = "Run" \/ met = {} THEN states[j] = status[j]
                ELSE \E d \in met : states[j] = IF filters(d[2], t) THEN "Unsupported" ELSE "Skipped"}

jobsWith(t) == {j \in TestJobs : \E n \in DOMAIN runs[j] : t \in DOMAIN runs[j][n]}
lookedAt == {t \in TestCases : jobsWith(t) \cap JobsForTestNames # {}}

\* The builds of a job are a map, gone through in any order, the last of which decides.
\* The results of the jobs are sent one by one and do not disturb each other.
executionStatus(t) ==
    {status \in [jobsWith(t) -> {"Run", "Skipped"}] :
        \A j \in jobsWith(t) : \E n \in DOMAIN runs[j] :
            /\ t \in DOMAIN runs[j][n]
            /\ status[j] = IF runs[j][n][t] = "SKIPPED" THEN "Skipped" ELSE "Run"}

ExecutionReport ==
    /\ lookedAt # {}
    /\ \E all \in [lookedAt -> UNION {UNION {Reported(t, s) : s \in executionStatus(t)} : t \in lookedAt}] :
          /\ \A t \in lookedAt : \E s \in executionStatus(t) : all[t] \in Reported(t, s)
          /\ statuses' = all
    /\ notRun' = {}
    /\ UNCHANGED <<runs, quarantined, remaining>>

FilteredTestNames == {t \in DOMAIN statuses : \A j \in DOMAIN statuses[t] : statuses[t][j] = "Unsupported"}
SkippedTests == {t \in DOMAIN statuses : \A j \in DOMAIN statuses[t] : statuses[t][j] # "Run"}

\* runFilter.  The expression for the network has a backslash too many and matches no test.
groupsOf(t) == Sig[t] \ {"network"}

\* --- faulty variant of Filter
FilterTakesUnsupported ==
    /\ statuses # NoStatuses
    /\ LET of(x) == {j \in DOMAIN statuses[x[1]] : x[2] \in Group[j] /\ Version[j] = x[3]}
           versions == {Version[j] : j \in TestJobs}
       IN  notRun' = {x \in UNION {{t} \X groupsOf(t) \X versions : t \in DOMAIN statuses} :
                        of(x) # {} /\ \A j \in of(x) : statuses[x[1]][j] # "Run"}
    /\ UNCHANGED <<runs, quarantined, remaining, statuses>>
\* ---

Filter ==
    /\ statuses # NoStatuses
    /\ LET of(x) == {j \in DOMAIN statuses[x[1]] : x[2] \in Group[j] /\ Version[j] = x[3]}
           versions == {Version[j] : j \in TestJobs}
       IN  notRun' = {x \in UNION {{t} \X groupsOf(t) \X versions : t \in DOMAIN statuses} :
                        of(x) # {} /\ \A j \in of(x) : statuses[x[1]][j] = "Skipped"}
    /\ UNCHANGED <<runs, quarantined, remaining, statuses>>

TestReportsNext ==
    \/ \E j \in TestJobs : Build(j) \/ Leave(j)
    \/ Execute \/ Adopt \/ ExecutionReport \/ Filter

TestReportsSpec == TestReportsInit /\ [][TestReportsNext]_testReportVars

-----------------------------------------------------------------------------
TestReportsTypeOK ==
    /\ Cardinality(allRuns) <= MaxRuns
    /\ records \subseteq RecordIds
    /\ FilteredTestNames \subseteq SkippedTests
    /\ \A x \in notRun : x[1] \in DOMAIN statuses \ FilteredTestNames

\* A test that is covered by the quarantine and has failed in the period, or has not passed
\* often enough while other tests of its record may have, is covered by what remains.
Unstable(t) ==
    Cardinality(passes(t)) < MinimumPassedRuns \/ \E b \in TestResults(t) : isTestFailing(result(b, t))
Covered(t, ids) == \E id \in ids : NameMatches(id, t)
NoUnstableReleased ==
    [][Execute => \A t \in TestCases :
          Covered(t, records) /\ TestResults(t) # {} /\ Unstable(t) => Covered(t, remaining')]_testReportVars

\* test_report.go says of SkippedTests that these have not been run on any lane: no build
\* the report looked at has run them.
SkippedTestsDidNotRun ==
    \A t \in SkippedTests : \A b \in TestResults(t) : result(b, t) = "SKIPPED"
=============================================================================
