------------------------------- MODULE Retester -------------------------------
(***************************************************************************)
(* robots/retester: an hourly job that looks for pull requests that are    *)
(* ready to be merged but for failed tests, and asks for a new run of the  *)
(* required ones, or tells why a new run would not help.  A run comments   *)
(* on few pull requests per query, those without updates for the longest   *)
(* time first, and reads each one anew while people, Prow's tests and the  *)
(* bot's own comments update them.                                         *)
(***************************************************************************)
EXTENDS Integers, Sequences, FiniteSets, SequencesExt

CONSTANTS
    Presubmits,     \* the job configuration, [name, alwaysRun, optional, pathBased, deterministic, lane, version]
    PullRequests,
    Queries,        \* per query, the pull requests with its labels
    Outcomes,       \* the job names and states tests may end with
    Ceiling,        \* zero for none
    MaxUpdates,     \* bound on pushes, comments and holds
    MaxRetestFailures    \* bound on failing calls

RetesterAssumption ==
    /\ Presubmits \subseteq
          [name : STRING, alwaysRun : BOOLEAN, optional : BOOLEAN, pathBased : BOOLEAN,
           deterministic : BOOLEAN, lane : STRING, version : Int]
    /\ IsFiniteSet(PullRequests)
    /\ Queries \in Seq(SUBSET PullRequests) /\ Queries # <<>>
    /\ {Ceiling, MaxUpdates, MaxRetestFailures} \subseteq Nat

VARIABLES
    order,      \* the pull requests, by their last update
    old,        \* how many of them were updated long enough ago
    held,       \* pull requests somebody holds
    statuses,   \* of the head of each: a state per job that reported one
    comments,   \* the last comment of each
    query,      \* the query the run is at, 0 between runs
    todo,       \* what is left of its result, by the place it was found at
    modified, problems,
    updates, retestFailures

retesterVars == <<order, old, held, statuses, comments, query, todo, modified, problems,
                  updates, retestFailures>>
run == <<query, todo, modified, problems>>

RetesterTypeOK ==
    /\ order \in [1..Cardinality(PullRequests) -> PullRequests]
    /\ {order[i] : i \in DOMAIN order} = PullRequests
    /\ old \in 0..Len(order)
    /\ held \subseteq PullRequests
    /\ comments \in [PullRequests -> {"other", "retest", "deterministic", "lane"}]
    /\ \A k \in DOMAIN todo : todo[k] \in PullRequests
    /\ query \in 0..Len(Queries)
    /\ Ceiling > 0 => modified <= Ceiling
    /\ updates \in 0..MaxUpdates /\ retestFailures \in 0..MaxRetestFailures

RetesterInit ==
    /\ order \in {s \in [1..Cardinality(PullRequests) -> PullRequests] :
                     {s[i] : i \in DOMAIN s} = PullRequests}
    /\ old = 0
    /\ held = {}
    /\ statuses \in [PullRequests -> Outcomes]
    /\ comments = [p \in PullRequests |-> "other"]
    /\ query = 0
    /\ todo = <<>>
    /\ modified = 0 /\ problems = 0
    /\ updates = 0 /\ retestFailures = 0

-----------------------------------------------------------------------------
\* Which failures count.

\* initPresubmitRequiredMap
presubmitRequiredMap ==
    {p \in Presubmits : p.alwaysRun /\ ~p.optional /\ ~p.pathBased}

NamesOf(set) == {p.name : p \in set}
Failed(s) == {j \in DOMAIN s : s[j] = "failure"}

failedRequired(s) == {p \in presubmitRequiredMap : p.name \in Failed(s)}

\* The required tests of a lane that are through; all of it fails if they are of
\* two versions or more and none of the versions has only succeeded.
lane(name, s) ==
    {p \in presubmitRequiredMap : p.lane = name /\ p.name \in DOMAIN s /\ s[p.name] # "pending"}
VersionsOf(set) == {p.version : p \in set}
allVersionsFail(name, s) ==
    LET through == lane(name, s)
    IN  /\ Cardinality(VersionsOf(through)) >= 2
        /\ VersionsOf(through) = VersionsOf({p \in through : s[p.name] = "failure"})

notFitForRetest(s) ==
    IF \E p \in failedRequired(s) : p.deterministic THEN "deterministic"
    ELSE IF \E p \in presubmitRequiredMap : p.lane # "" /\ allVersionsFail(p.lane, s) THEN "lane"
    ELSE "retest"

-----------------------------------------------------------------------------
\* Pull requests.

placeOf(p) == CHOOSE i \in DOMAIN order : order[i] = p
isOld(p) == placeOf(p) <= old

\* An update makes a pull request the last in the order.
Touch(p) ==
    /\ order' = Append(RemoveAt(order, placeOf(p)), p)
    /\ old' = IF isOld(p) THEN old - 1 ELSE old

\* Time passes: the next pull request is old enough to be found.
Age ==
    /\ old < Len(order)
    /\ old' = old + 1
    /\ UNCHANGED <<order, held, statuses, comments, run, updates, retestFailures>>

MoreUpdates == updates < MaxUpdates /\ updates' = updates + 1

\* Somebody pushes a head that has no results yet, or comments.
Update(p) ==
    /\ MoreUpdates
    /\ Touch(p)
    /\ comments' = [comments EXCEPT ![p] = "other"]
    /\ statuses' \in {statuses, [statuses EXCEPT ![p] = [j \in DOMAIN @ |-> "pending"]]}
    /\ UNCHANGED <<held, run, retestFailures>>

Hold(p) ==
    /\ MoreUpdates
    /\ Touch(p)
    /\ held' = IF p \in held THEN held \ {p} ELSE held \cup {p}
    /\ comments' = [comments EXCEPT ![p] = "other"]
    /\ UNCHANGED <<statuses, run, retestFailures>>

\* The tests end, and Prow may comment on that.
TestsEnd(p) ==
    /\ \E j \in DOMAIN statuses[p] : statuses[p][j] = "pending"
    /\ \E o \in Outcomes :
          statuses' = [statuses EXCEPT ![p] = [j \in DOMAIN @ |-> IF @[j] = "pending" THEN o[j] ELSE @[j]]]
    /\ \/ Touch(p) /\ comments' = [comments EXCEPT ![p] = "other"]
       \/ UNCHANGED <<order, old, comments>>
    /\ UNCHANGED <<held, run, updates, retestFailures>>

-----------------------------------------------------------------------------
\* The job.

\* GitHub finds what failed in any of its tests.
found(q) ==
    [k \in {k \in 1..old : order[k] \in Queries[q] \ held /\ Failed(statuses[order[k]]) # {}} |-> order[k]]

\* --- faulty variant of FindIssues
FindIssuesNewestFirst(q) ==
    /\ query' = q
    /\ todo' = [k \in {-l : l \in DOMAIN found(q)} |-> found(q)[-k]]
    /\ modified' = 0
    /\ problems' = 0
    /\ UNCHANGED <<order, old, held, statuses, comments, updates, retestFailures>>
\* ---

FindIssues(q) ==
    /\ query' = q
    /\ todo' = found(q)
    /\ modified' = 0
    /\ problems' = 0
    /\ UNCHANGED <<order, old, held, statuses, comments, updates, retestFailures>>

StartRun == query = 0 /\ FindIssues(1)

\* --- faulty variant of Done
DoneOneTooLate == todo = <<>> \/ (Ceiling > 0 /\ modified > Ceiling)
\* ---

Done == todo = <<>> \/ (Ceiling > 0 /\ modified = Ceiling)

EndRun ==
    /\ query' = 0 /\ todo' = <<>> /\ modified' = 0 /\ problems' = 0
    /\ UNCHANGED <<order, old, held, statuses, comments, updates, retestFailures>>

\* A query with problems ends the process, so that the others are not asked.
EndQuery ==
    /\ query # 0 /\ Done
    /\ IF problems = 0 /\ query < Len(Queries) THEN FindIssues(query + 1) ELSE EndRun

\* The place of the next pull request of the result, and what follows it.
next == CHOOSE k \in DOMAIN todo : \A l \in DOMAIN todo : k <= l
rest == [k \in DOMAIN todo \ {next} |-> todo[k]]

Comment(p, text) ==
    /\ Touch(p)
    /\ comments' = [comments EXCEPT ![p] = text]
    /\ statuses' = IF text # "retest" THEN statuses
                   ELSE [statuses EXCEPT ![p] =
                            [j \in DOMAIN @ |-> IF j \in NamesOf(failedRequired(@)) THEN "pending" ELSE @[j]]]
    /\ todo' = rest
    /\ modified' = modified + 1
    /\ UNCHANGED <<held, query, problems, updates, retestFailures>>

Skip(newProblems, newFailures) ==
    /\ todo' = rest
    /\ problems' = problems + newProblems
    /\ retestFailures' = retestFailures + newFailures
    /\ UNCHANGED <<order, old, held, statuses, comments, query, modified, updates>>

\* A reason that is given already is not given again, and does not count.
SkipDuplicate == Skip(0, 0)

\* One pull request of the result, with its statuses as they are now.  If its
\* comments cannot be listed the reason is given again; what cannot be read
\* ends the process (by a nil dereference, or because of the name of a status).
Process ==
    /\ query # 0 /\ ~Done
    /\ LET p == todo[next]
           verdict == notFitForRetest(statuses[p])
           fails == retestFailures < MaxRetestFailures
       IN  IF failedRequired(statuses[p]) = {} THEN Skip(0, 0)
           ELSE \/ IF verdict # "retest" /\ comments[p] = verdict THEN SkipDuplicate
                   ELSE Comment(p, verdict)
                \/ fails /\ Skip(1, 1)
                \/ /\ fails /\ verdict # "retest" /\ comments[p] = verdict
                   /\ Touch(p)
                   /\ retestFailures' = retestFailures + 1
                   /\ todo' = rest /\ modified' = modified + 1
                   /\ UNCHANGED <<held, statuses, comments, query, problems, updates>>

\* The process ends early: FindIssues or GetPullRequest fails, or it is killed.
RunFails ==
    /\ query # 0
    /\ retestFailures < MaxRetestFailures
    /\ retestFailures' = retestFailures + 1
    /\ query' = 0 /\ todo' = <<>> /\ modified' = 0 /\ problems' = 0
    /\ UNCHANGED <<order, old, held, statuses, comments, updates>>

RetesterNext ==
    \/ Age
    \/ \E p \in PullRequests : Update(p) \/ Hold(p) \/ TestsEnd(p)
    \/ StartRun \/ EndQuery \/ Process \/ RunFails

RetesterSpec == RetesterInit /\ [][RetesterNext]_retesterVars

-----------------------------------------------------------------------------
\* A pull request nobody has answered: it is ready but for required tests that
\* failed, nothing has happened to it for long, and its last comment is not the
\* reason why it is not retested.
Unanswered(p) ==
    /\ isOld(p)
    /\ p \notin held /\ \E q \in DOMAIN Queries : p \in Queries[q]
    /\ failedRequired(statuses[p]) # {}
    /\ comments[p] # notFitForRetest(statuses[p]) \/ notFitForRetest(statuses[p]) = "retest"
=============================================================================
