----------------------------- MODULE FlakeReports -----------------------------
(***************************************************************************)
(* pkg/flakefinder, robots/flakefinder and pkg/flake-stats: reports about  *)
(* the tests that failed in the builds of merged pull requests, of batches *)
(* and of periodic jobs, for days (made again and again while the day      *)
(* lasts) and weeks, and the sums of the days' reports.  Time is counted   *)
(* in half days.                                                           *)
(***************************************************************************)
EXTENDS Integers, Sequences, FiniteSets

CONSTANTS
    Pulls,          \* pull requests
    Tests,          \* names without the label of quarantine
    PullLanes, PeriodicLanes,
    Outcomes,       \* what the tests of a build may end with
    Kinds,          \* reports that are made, of "rolling", "daily", "weekly"
    WeekDays,       \* length of the longer period, in days
    SkipBeforeStart,    \* --skip_results_before_start_of_report
    MaxLinks,       \* MaxNumberOfReportsToLinkTo
    MaxTime, MaxFlakeBuilds, MaxReports,
    MaxDisturbances     \* pushes, late comments, errors and builds without results together

FlakesAssumption ==
    /\ WeekDays # 0 /\ IsFiniteSet(PullLanes \cup PeriodicLanes) /\ IsFiniteSet(Tests)
    /\ {WeekDays, MaxLinks, MaxTime, MaxFlakeBuilds, MaxReports, MaxDisturbances} \subseteq Nat
    /\ 2 * WeekDays - 1 <= MaxTime
    /\ Kinds \subseteq {"rolling", "daily", "weekly"}
    /\ SkipBeforeStart \in BOOLEAN
    /\ Outcomes \subseteq [Tests -> {"passed", "failed", "skipped"}]
    /\ PullLanes \cap PeriodicLanes = {}

VARIABLES
    time,
    prs,            \* per pull request its head, and when it was merged and updated
    closed,         \* GitHub's list of those that are closed, the last updated first
    builds,         \* what is in the bucket, by build number
    labelled,       \* tests that have the label in the source
    making,         \* the report being made, Idle if none
    reports,        \* the files, by last day and length
    index,          \* what the index page links to
    disturbances

flakeVars == <<time, prs, closed, builds, labelled, making, reports, index, disturbances>>

Idle == [kind |-> "none"]
Open == -1
Unfinished == -1

Day(t) == t \div 2
startOfDay(t) == 2 * Day(t)

FlakesInit ==
    /\ time = 2 * WeekDays - 1
    /\ prs = [p \in Pulls |-> [head |-> 1, merged |-> Open, updated |-> 0]]
    /\ closed = <<>>
    /\ builds = <<>>
    /\ labelled = {}
    /\ making = Idle
    /\ reports = <<>>       \* the empty function
    /\ index = {}
    /\ disturbances = 0

-----------------------------------------------------------------------------
\* Development and CI.

bucket == <<builds, making, reports, index>>

\* A report is made within a half day.  Meanwhile the list of closed changes goes on
\* changing between its pages: all else commutes with what the report does, and may as
\* well happen before or after.
Quiet == making = Idle
Listable == ~Quiet => making.kind # "index" /\ making.page > 1

Disturbed == disturbances < MaxDisturbances /\ disturbances' = disturbances + 1

Wait ==
    /\ Quiet /\ time < MaxTime
    /\ time' = time + 1
    /\ UNCHANGED <<prs, closed, bucket, labelled, disturbances>>

\* Of a head without builds, a push is as if there had been none.
Push(p) ==
    /\ Quiet /\ prs[p].merged = Open
    /\ \E i \in DOMAIN builds : <<p, prs[p].head>> \in builds[i].pulls
    /\ Disturbed
    /\ prs' = [prs EXCEPT ![p].head = @ + 1]
    /\ UNCHANGED <<time, closed, bucket, labelled>>

\* GitHub shows what was closed without a merge in the list, too.  What is updated comes
\* first, from its place k or from none, and what was before it moves down.
Updated(p) ==
    \E k \in 1 .. Len(closed) + 1 :
        /\ IF k <= Len(closed) THEN closed[k] = p ELSE \A l \in DOMAIN closed : closed[l] # p
        /\ closed' = [l \in DOMAIN closed \cup {k} |->
                        IF l = 1 THEN p ELSE IF l <= k THEN closed[l - 1] ELSE closed[l]]
Merge(p) ==
    /\ Listable /\ prs[p].merged = Open
    /\ prs' = [prs EXCEPT ![p].merged = time, ![p].updated = time]
    /\ Updated(p)
    /\ UNCHANGED <<time, bucket, labelled, disturbances>>

CommentLate(p) ==
    /\ Listable /\ prs[p].merged # Open
    /\ prs[p].updated # time \/ closed[1] # p
    /\ Disturbed
    /\ prs' = [prs EXCEPT ![p].updated = time]
    /\ Updated(p)
    /\ UNCHANGED <<time, bucket, labelled>>

\* A build has the heads of pull requests: one, more in a batch, none in a periodic job.
Size(i) == Cardinality(builds[i].pulls)
PullsOf(i) == {x[1] : x \in builds[i].pulls}

Start(lane, pulls) ==
    /\ Quiet /\ Len(builds) < MaxFlakeBuilds
    /\ builds' = Append(builds,
          [lane |-> lane, pulls |-> pulls, finished |-> Unfinished,
           labelled |-> labelled, junit |-> FALSE, results |-> [t \in Tests |-> "skipped"]])
    /\ UNCHANGED <<time, prs, closed, labelled, making, reports, index, disturbances>>

StartPull(lane, p) == prs[p].merged = Open /\ Start(lane, {<<p, prs[p].head>>})
\* Tide and horologium start a batch, or a periodic job, when the last has ended.
Alone(lane, n) ==
    \A i \in DOMAIN builds :
        builds[i].lane = lane /\ Size(i) = n => builds[i].finished # Unfinished
StartBatch(lane, p, q) ==
    /\ p # q /\ prs[p].merged = Open /\ prs[q].merged = Open
    /\ Alone(lane, 2)
    /\ Start(lane, {<<p, prs[p].head>>, <<q, prs[q].head>>})
StartPeriodic(lane) == Alone(lane, 0) /\ Start(lane, {})

\* Tests with the label are run by periodic jobs only; without junit.functest.xml
\* the build ended before the tests.
Finish(i) ==
    /\ Quiet /\ builds[i].finished = Unfinished
    /\ \/ /\ UNCHANGED disturbances
          /\ \E o \in Outcomes :
                builds' = [builds EXCEPT ![i].finished = time, ![i].junit = TRUE,
                    ![i].results = [t \in Tests |->
                        IF t \in builds[i].labelled /\ builds[i].lane \in PullLanes THEN "skipped" ELSE o[t]]]
       \/ Disturbed /\ builds' = [builds EXCEPT ![i].finished = time]
    /\ UNCHANGED <<time, prs, closed, labelled, making, reports, index>>

-----------------------------------------------------------------------------
\* GetReportInterval.  Reports of days end with the day before.

firstTime(kind, at) ==
    CASE kind = "rolling" -> startOfDay(at)
      [] kind = "daily" -> startOfDay(at - 2)
      [] kind = "weekly" -> startOfDay(at - 2 * WeekDays)
lastTime(kind, at) == IF kind = "rolling" THEN at ELSE startOfDay(at) - 1

\* The name of a file: the day the report ends with, and the hours.
fileName(kind, at) == <<Day(lastTime(kind, at)), IF kind = "weekly" THEN WeekDays ELSE 1>>

\* GetReportBaseData begins: the query for the merged pull requests.  Reports of days and
\* weeks are made as the day begins, the rolling ones while it lasts.
StartReport(kind) ==
    /\ making = Idle /\ Cardinality(DOMAIN reports \cup {fileName(kind, time)}) <= MaxReports
    /\ kind = "rolling" <=> time # startOfDay(time)
    /\ making' = [kind |-> kind, at |-> time, page |-> 1, changes |-> <<>>]
    /\ UNCHANGED <<time, prs, closed, builds, labelled, reports, index, disturbances>>

asks == making # Idle /\ making.kind # "index"
first == firstTime(making.kind, making.at)
last == lastTime(making.kind, making.at)

QueryEnds == making.page > Len(closed) \/ prs[closed[making.page]].updated < first

\* --- faulty variant of QueryPage
QueryPageStopsAtMerge ==
    /\ asks /\ making.page > 0
    /\ LET p == closed[making.page]
       IN  making' = IF QueryEnds \/ prs[p].merged < first THEN [making EXCEPT !.page = 0]
                     ELSE [making EXCEPT !.page = @ + 1,
                              !.changes = IF prs[p].merged <= last THEN Append(@, p) ELSE @]
    /\ UNCHANGED <<time, prs, closed, builds, labelled, reports, index, disturbances>>
\* ---

\* The next page, of one entry, of a list that goes on changing: what moves down
\* meanwhile is found again.  Page 0 stands for the end of the query.
QueryPage ==
    /\ asks /\ making.page > 0
    /\ LET p == closed[making.page]
       IN  making' = IF QueryEnds THEN [making EXCEPT !.page = 0]
                     ELSE [making EXCEPT !.page = @ + 1,
                              !.changes = IF prs[p].merged \in first..last THEN Append(@, p) ELSE @]
    /\ UNCHANGED <<time, prs, closed, builds, labelled, reports, index, disturbances>>

\* An error of the query ends the process.
QueryFails ==
    /\ asks
    /\ Disturbed
    /\ making' = Idle
    /\ UNCHANGED <<time, prs, closed, builds, labelled, reports, index>>

-----------------------------------------------------------------------------
\* downloader.go

\* The builds of a change: those of the commit that was merged, with results,
\* whenever they ended.
FindUnitTestFiles(p) ==
    {i \in DOMAIN builds :
        /\ builds[i].pulls = {<<p, prs[p].head>>}
        /\ builds[i].finished # Unfinished /\ builds[i].junit
        /\ SkipBeforeStart => builds[i].finished >= first}

\* Going through the builds of a lane from the highest number down, the first that
\* ended before the period ends the search.
ofPeriod(i, n) ==
    /\ Size(i) = n
    /\ builds[i].finished \in first..last
    /\ \A j \in i + 1 .. Len(builds) :
          builds[j].lane = builds[i].lane /\ Size(j) = n /\ builds[j].finished # Unfinished
             => builds[j].finished >= first

FindUnitTestFilesForPeriodicJob(lane) ==
    {i \in DOMAIN builds : builds[i].lane = lane /\ ofPeriod(i, 0) /\ builds[i].junit}

FindUnitTestFilesForBatchJobs(changes) ==
    {i \in DOMAIN builds :
        /\ builds[i].lane \in PullLanes /\ ofPeriod(i, 2) /\ builds[i].junit
        /\ PullsOf(i) \cap changes # {}}

\* All the job results: each under the place of its change in the list, the others
\* under 0.  What cannot be read is left out, by change, for batches and by lane.
JobResults(unread) ==
    LET changes == {making.changes[k] : k \in DOMAIN making.changes}
        ofChanges == UNION {{<<k, i>> : i \in FindUnitTestFiles(making.changes[k])} :
                               k \in {k \in DOMAIN making.changes : making.changes[k] \notin unread}}
        ofBatches == IF "batch" \in unread THEN {} ELSE FindUnitTestFilesForBatchJobs(changes)
        ofPeriodics == IF making.kind = "rolling" THEN {}
                       ELSE UNION {FindUnitTestFilesForPeriodicJob(l) : l \in PeriodicLanes \ unread}
    IN  ofChanges \cup {<<0, i>> : i \in ofBatches \cup ofPeriodics}

Sources == {making.changes[k] : k \in DOMAIN making.changes} \cup {"batch"} \cup PeriodicLanes

-----------------------------------------------------------------------------
\* report_data.go.  A row is a test with its label as the build had it, a column is a
\* lane, and a report has only results of builds with a failure.

Status(i, row) ==
    IF (row[1] \in builds[i].labelled) = row[2] THEN builds[i].results[row[1]] ELSE "none"
BuildFails(i) == \E t \in Tests : builds[i].results[t] = "failed"

With(report, row, lane, status) ==
    {r \in report.results : /\ builds[r[2]].lane = lane /\ Status(r[2], row) = status
                            /\ BuildFails(r[2])}
Failed(report, row, lane) == Cardinality(With(report, row, lane, "failed"))
Succeeded(report, row, lane) == Cardinality(With(report, row, lane, "passed"))

Lanes == PullLanes \cup PeriodicLanes
Rows(report) ==
    {row \in Tests \X BOOLEAN : \E l \in Lanes : Failed(report, row, l) > 0}
Columns(report, row) ==
    {l \in Lanes : \E s \in {"passed", "failed", "skipped"} : With(report, row, l, s) # {}}

\* SetSeverity, from 1 for HeavilyFlaky to 5 for Fine and 6 for Unimportant
Severity(failed, succeeded) ==
    IF succeeded = 0 /\ failed = 0 THEN 6
    ELSE IF succeeded = 0 \/ 2 * failed > succeeded THEN 1
    ELSE IF 5 * failed > succeeded THEN 2
    ELSE IF 10 * failed > succeeded THEN 3
    ELSE IF failed > 0 THEN 4 ELSE 5

\* The weight of a column within its severity, a float cut off.
weight(failed, succeeded) ==
    LET factor == IF failed > 3 * succeeded THEN 7 ELSE IF failed > succeeded THEN 6
                  ELSE IF failed < succeeded THEN 3 ELSE 4
    IN  (factor * failed) \div 4

\* A sum of natural numbers: the size of a union of disjoint sets of these sizes.
SumOf(S, value(_)) == Cardinality(UNION {{e} \X (1..value(e)) : e \in S})

severityOccurrences(report, row) ==
    LET f(l) == Failed(report, row, l)
        s(l) == Succeeded(report, row, l)
    IN  [c \in 1..6 |-> SumOf({l \in Columns(report, row) : Severity(f(l), s(l)) = c},
                              LAMBDA l : weight(f(l), s(l)))]

\* SortTestsByRelevance, up to the names of the tests: the first severity that makes a
\* difference decides.
Before(report, row, other) ==
    LET o == severityOccurrences(report, row)
        p == severityOccurrences(report, other)
    IN  \E c \in 1..6 : o[c] > p[c] /\ \A d \in 1 .. c - 1 : o[d] = p[d]

-----------------------------------------------------------------------------
\* robots/flakefinder

\* WriteReportToBucket: html, csv and json are all written, or none.
WriteReport ==
    /\ asks /\ making.page = 0
    /\ \E unread \in {{}} \cup {{s} : s \in Sources} :
          /\ IF unread = {} THEN UNCHANGED disturbances ELSE Disturbed /\ JobResults(unread) # JobResults({})
          /\ LET name == fileName(making.kind, making.at)
                 report == [kind |-> making.kind, at |-> making.at, changes |-> making.changes,
                            results |-> JobResults(unread),
                            complete |-> unread = {}]
             IN  reports' = [n \in DOMAIN reports \cup {name} |-> IF n = name THEN report ELSE reports[n]]
    /\ making' = [kind |-> "index", written |-> fileName(making.kind, making.at)]
    /\ UNCHANGED <<time, prs, closed, builds, labelled, index>>

\* The last by name.
FilterReportItemsForIndexPage(names) ==
    LET later(n) == {o \in names : o[1] > n[1] \/ (o[1] = n[1] /\ o[2] > n[2])}
    IN  {n \in names : Cardinality(later(n)) < MaxLinks}

CreateReportIndex ==
    /\ making.kind = "index"
    /\ index' = FilterReportItemsForIndexPage(DOMAIN reports)
    /\ making' = Idle
    /\ UNCHANGED <<time, prs, closed, builds, labelled, reports, disturbances>>

-----------------------------------------------------------------------------
\* flake-stats: what AggregateData makes of the reports of some days, and of the one of
\* today if there is one.

dayReport(d) == <<d, 1>>
daysBefore(n) == {Day(time) - k : k \in 1..n}
AllFetched(n) == \A d \in daysBefore(n) : dayReport(d) \in DOMAIN reports
fetched(n, rolling) ==
    daysBefore(n) \cup (IF rolling /\ dayReport(Day(time)) \in DOMAIN reports THEN {Day(time)} ELSE {})

FailuresPerDayAndLane(t, d, lanes) ==
    SumOf({<<t, FALSE>>, <<t, TRUE>>} \X lanes,
          LAMBDA c : Failed(reports[dayReport(d)], c[1], c[2]))
AllFailures(t, days, lanes) == SumOf(days, LAMBDA d : FailuresPerDayAndLane(t, d, lanes))
FailuresPerLane(t, days, lanes) == {l \in lanes : AllFailures(t, days, {l}) > 0}

\* TopXTests.Less: from today back, the days either has failures on.  The first
\* day only one of them has decides; on a day without failures, that i has more
\* so far does, but not that it has less.
Less(i, j, n, days, lanes) ==
    LET of(t, d) == IF d \in days THEN FailuresPerDayAndLane(t, d, lanes) ELSE 0
        now == Day(time)
        soFar(t, k) == SumOf(now - k .. now, LAMBDA d : of(t, d))
        decides(k) == \/ (of(i, now - k) > 0) # (of(j, now - k) > 0)
                      \/ of(i, now - k) = 0 /\ of(j, now - k) = 0 /\ soFar(i, k) > soFar(j, k)
        ks == {k \in 0..n - 1 : decides(k)}
    IN  IF ks = {} THEN AllFailures(i, days, lanes) > AllFailures(j, days, lanes)
        ELSE LET k == CHOOSE k \in ks : \A l \in ks : k <= l
             IN  of(i, now - k) > 0 \/ of(j, now - k) = 0

FlakesNext ==
    \/ Wait
    \/ \E p \in Pulls : Push(p) \/ Merge(p) \/ CommentLate(p)
    \/ \E lane \in PullLanes, p \in Pulls : StartPull(lane, p) \/ \E q \in Pulls : StartBatch(lane, p, q)
    \/ \E lane \in PeriodicLanes : StartPeriodic(lane)
    \/ \E i \in DOMAIN builds : Finish(i)
    \/ \E kind \in Kinds : StartReport(kind)
    \/ QueryPage \/ QueryFails \/ WriteReport \/ CreateReportIndex

-----------------------------------------------------------------------------
FlakesTypeOK ==
    /\ time \in 0..MaxTime
    /\ Len(builds) <= MaxFlakeBuilds
    /\ \A i \in DOMAIN builds :
          /\ builds[i].finished \in {Unfinished} \cup 0..time
          /\ Size(i) = 0 <=> builds[i].lane \in PeriodicLanes
    /\ \A n \in DOMAIN reports :
          /\ n[1] <= Day(time) /\ n[2] \in {1, WeekDays}
          /\ \A r \in reports[n].results : r[1] \in 0..Len(reports[n].changes) /\ r[2] \in DOMAIN builds
    /\ Cardinality(index) <= MaxLinks /\ index \subseteq DOMAIN reports
    /\ disturbances \in 0..MaxDisturbances

\* What a report should have of the time before it was made: failing builds of the commits
\* that were merged in its period, and those of batches with these and of periodic jobs
\* that ended in it.  A pull request updated while the list is read may move to pages that
\* were read, and be missed.
Expected(report) ==
    LET from == firstTime(report.kind, report.at)
        to == IF report.kind = "rolling" THEN report.at - 1 ELSE lastTime(report.kind, report.at)
        mergedIn == {p \in Pulls : prs[p].merged \in from..to /\ prs[p].updated < report.at}
    IN  {i \in DOMAIN builds :
            /\ builds[i].finished \in 0..report.at - 1 /\ BuildFails(i)
            /\ IF Size(i) = 1 THEN /\ \E p \in mergedIn : builds[i].pulls = {<<p, prs[p].head>>}
                                   /\ SkipBeforeStart => builds[i].finished >= from
               ELSE /\ builds[i].finished \in from..to
                    /\ IF Size(i) = 0 THEN report.kind # "rolling"
                       ELSE PullsOf(i) \cap mergedIn # {}}

\* Of the code that was merged, or could have been in a batch.
OfMergedCode(i) ==
    Size(i) = 1 => \A x \in builds[i].pulls : prs[x[1]].head = x[2]

\* A report, when it is written: if it could read everything it has every failure it should; it has
\* none of a commit that was not merged; a row with no fewer failures and no more successes than another
\* on every lane is not behind it.
HasWhatItShould(report) == report.complete => Expected(report) \subseteq {r[2] : r \in report.results}
OnlyMergedCode(report) == \A r \in report.results : OfMergedCode(r[2])
RowsInOrder(report) ==
    \A row, other \in Rows(report) :
        (\A l \in Lanes : /\ Failed(report, row, l) >= Failed(report, other, l)
                          /\ Succeeded(report, row, l) <= Succeeded(report, other, l))
            => ~Before(report, other, row)

ReportsAreExact ==
    making # Idle /\ making.kind = "index" =>
        LET report == reports[making.written]
        IN  HasWhatItShould(report) /\ OnlyMergedCode(report) /\ RowsInOrder(report)
=============================================================================
