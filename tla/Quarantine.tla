------------------------------ MODULE Quarantine ------------------------------
(***************************************************************************)
(* robots/quarantine, pkg/searchci and pkg/ginkgo: from the sums of the    *)
(* flake reports and what search.ci shows of the same builds follows which *)
(* tests fail too often; the label of quarantine is proposed for them and  *)
(* set by people, who also take it away.                                   *)
(***************************************************************************)
EXTENDS FlakeReports

CONSTANTS
    RequiredLanes,      \* required by the job config and matching the lanes of quarantine
    DaysInThePast,
    MaxTestsToQuarantine,
    ClusterSize         \* 5: failures of a build that are more than flakes

QuarantineAssumption ==
    /\ RequiredLanes \subseteq PullLanes
    /\ {DaysInThePast, MaxTestsToQuarantine, ClusterSize} \subseteq Nat

VARIABLE proposal   \* tests labelled in the open pull request

QuarantineInit == proposal = {}

-----------------------------------------------------------------------------
\* search.ci, about the builds of pull requests and batches.

ThreeDays == 6
FourteenDays == 28
age(i) == time - builds[i].finished

\* search.ci shows ages from two days on in whole days, which are taken as the next one.
parseSearchCIAge(halves) == IF halves < 4 THEN halves ELSE 2 * (halves \div 2 + 1)

\* The builds that failed with the test, and its share of all builds, as an impact of a lane.
Impact(t, lane, range) ==
    LET runs == {i \in DOMAIN builds : builds[i].lane = lane /\ builds[i].finished # Unfinished /\ age(i) <= range}
        matching == {i \in runs : builds[i].results[t] = "failed"}
    IN  [lane |-> lane, builds |-> matching,
         percent |-> IF matching = {} THEN 0 ELSE (100 * Cardinality(matching)) \div Cardinality(runs)]

matchingTimeRange(impact, range) == impact.percent >= (IF range = ThreeDays THEN 20 ELSE 5)
ScrapeImpacts(t, range) ==
    {impact \in {Impact(t, lane, range) : lane \in PullLanes} : matchingTimeRange(impact, range)}

recentIntervals(impact) ==
    {<<i, parseSearchCIAge(age(i))>> : i \in {i \in impact.builds : parseSearchCIAge(age(i)) <= ThreeDays}}

\* --- faulty variant of HasMinRecentFailures
HasMinRecentFailuresWithoutInterval(impact) == Cardinality(recentIntervals(impact)) >= 2
\* ---

\* Two failures of at most 72 hours, the first and the last 24 hours apart.
HasMinRecentFailures(impact) ==
    /\ Cardinality(recentIntervals(impact)) >= 2
    /\ \E a, b \in recentIntervals(impact) : a[2] - b[2] >= 2

-----------------------------------------------------------------------------
\* getQuarantineCandidate: lanes the sums have failures of, or ones beginning with the
\* same name, and not all failures in builds with many of them.  Lanes of rehearsals and
\* checks of tests are not among Lanes.

hasNotOnlyClusteredFailures(impact) ==
    \E i \in impact.builds : Cardinality({t \in Tests : builds[i].results[t] = "failed"}) < ClusterSize

candidateImpacts(t, range, days, lanes) ==
    {impact \in ScrapeImpacts(t, range) :
        impact.lane \in FailuresPerLane(t, days, lanes) /\ hasNotOnlyClusteredFailures(impact)}

topXTests(days, lanes) == {t \in Tests : AllFailures(t, days, lanes) > 0}

\* ByName: the dry run has the test under a text the name does not contain once it has
\* the label, as the name was normalised.
GetSpecReportByTestName(t) == t \notin labelled

\* What determineTestsForQuarantine would take a test for.
quarantinable(t) ==
    /\ GetSpecReportByTestName(t)
    /\ \E impact \in candidateImpacts(t, FourteenDays, daysBefore(DaysInThePast), RequiredLanes) :
          impact.lane \in RequiredLanes /\ HasMinRecentFailures(impact)

\* sort.Sort by a Less that does not order the tests: any of them that has no other
\* strictly before it may be the next.
strictlyBefore(i, j) ==
    LET less(a, b) == Less(a, b, DaysInThePast, daysBefore(DaysInThePast), RequiredLanes)
    IN  less(i, j) /\ ~less(j, i)

determineTestsForQuarantine ==
    LET candidates == {t \in topXTests(daysBefore(DaysInThePast), RequiredLanes) : quarantinable(t)}
        n == IF Cardinality(candidates) < MaxTestsToQuarantine THEN Cardinality(candidates) ELSE MaxTestsToQuarantine
    IN  {S \in SUBSET candidates :
            /\ Cardinality(S) = n
            /\ \A t \in S, u \in candidates \ S : ~strictlyBefore(u, t)}

\* AutoQuarantine: without the reports of all days there is no result.  The pull request
\* of the last time is replaced.
AutoQuarantine ==
    /\ Quiet
    /\ AllFetched(DaysInThePast)
    /\ \E S \in determineTestsForQuarantine : S # {} /\ S # proposal /\ proposal' = S
    /\ UNCHANGED flakeVars

\* What MostFlakyTestsReport lists of the days before and of today, if it has a report
\* already: tests, time ranges, and whether they failed recently.
mostFlakyTests ==
    LET days == fetched(DaysInThePast, TRUE)
    IN  {entry \in topXTests(days, PullLanes) \X {ThreeDays, FourteenDays} \X BOOLEAN :
            LET impacts == candidateImpacts(entry[1], entry[2], days, PullLanes)
            IN  impacts # {} /\ entry[3] = (\E impact \in impacts : HasMinRecentFailures(impact))}

-----------------------------------------------------------------------------
\* People.

label == <<time, prs, closed, builds, making, reports, index>>

\* Git refuses what changes the same lines twice.
MergeProposal ==
    /\ Quiet /\ proposal # {} /\ proposal \cap labelled = {}
    /\ labelled' = labelled \cup proposal
    /\ proposal' = {}
    /\ UNCHANGED <<label, disturbances>>

\* QuarantineTest with the name of a test.
QuarantineTest(t) ==
    /\ Quiet /\ GetSpecReportByTestName(t)
    /\ Disturbed
    /\ labelled' = labelled \cup {t}
    /\ UNCHANGED <<label, proposal>>

Dequarantine(t) ==
    /\ Quiet /\ t \in labelled
    /\ Disturbed
    /\ labelled' = labelled \ {t}
    /\ UNCHANGED <<label, proposal>>

QuarantineNext ==
    \/ FlakesNext /\ UNCHANGED proposal
    \/ AutoQuarantine \/ MergeProposal
    \/ \E t \in Tests : QuarantineTest(t) \/ Dequarantine(t)

QuarantineSpec == FlakesInit /\ QuarantineInit /\ [][QuarantineNext]_<<flakeVars, proposal>>

-----------------------------------------------------------------------------
QuarantineTypeOK ==
    /\ proposal \subseteq Tests /\ Cardinality(proposal) <= MaxTestsToQuarantine
    /\ labelled \subseteq Tests

\* A test is proposed for quarantine when it is not there, fails on merged code and has
\* failed at different times within the last three days on a lane that pull requests
\* need; the report of the most flaky tests would show it as one that failed recently.
Justified(t) ==
    /\ t \notin labelled
    /\ \E i \in DOMAIN builds : /\ builds[i].lane \in RequiredLanes /\ OfMergedCode(i)
                                /\ builds[i].results[t] = "failed"
    /\ \E i, j \in DOMAIN builds :
          /\ builds[i].lane \in RequiredLanes /\ builds[i].lane = builds[j].lane
          /\ \A k \in {i, j} : builds[k].results[t] = "failed" /\ age(k) < ThreeDays
          /\ builds[i].finished < builds[j].finished
    /\ <<t, FourteenDays, TRUE>> \in mostFlakyTests
QuarantineIsJustified ==
    [][\A t \in proposal' \ proposal : Justified(t)]_<<flakeVars, proposal>>
=============================================================================
