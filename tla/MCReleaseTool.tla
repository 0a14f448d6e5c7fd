---------------------------- MODULE MCReleaseTool ----------------------------
EXTENDS ReleaseTool, TLC

CONSTANTS b1, b2

Request == [auto |-> FALSE, newBranch |-> None, tag |-> None, promoteRC |-> None,
            force |-> FALSE, dryRun |-> FALSE, skipProw |-> FALSE]
Auto == [Request EXCEPT !.auto = TRUE]

MCBlockers == {b1, b2}

\* One blocker of main and one of the release branch, or both of the latter.
OneOfEach == b1 :> Main @@ b2 :> 1
BothOnBranch == b1 :> 1 @@ b2 :> 1

\* The periodic job alone.
Periodic == {Auto}

\* The periodic job, and people who cut a branch and its first candidate and
\* promote that candidate by hand.
WithPeople ==
    {Auto,
     [Request EXCEPT !.newBranch = 1, !.tag = <<1, 0>>],
     [Request EXCEPT !.promoteRC = <<1, 0>>]}

\* The periodic job, also with a candidate to promote, and people who tag x.y.0
\* and x.y.1 directly.
WithDirectTags ==
    {Auto,
     [Auto EXCEPT !.promoteRC = <<1, 0>>],
     [Request EXCEPT !.tag = <<1, Final>>],
     [Request EXCEPT !.tag = <<1, Patch>>]}

\* Forced, dry and prow-less runs beside the periodic job.
WithOptions ==
    {Auto,
     [Auto EXCEPT !.dryRun = TRUE],
     [Request EXCEPT !.newBranch = 1, !.skipProw = TRUE, !.force = TRUE],
     [Request EXCEPT !.tag = <<1, Final>>, !.force = TRUE]}

Of(requests, targetOf) ==
    [requests |-> requests, targetOf |-> targetOf, cleanCache |-> TRUE,
     commitDated |-> TRUE, maxFailures |-> 0]

\* Releases dated like their commits.
CommitDatedSettings ==
    {[Of(Periodic, BothOnBranch) EXCEPT !.maxFailures = 1],
     [Of(WithOptions, OneOfEach) EXCEPT !.cleanCache = FALSE],
     Of(WithPeople, OneOfEach), Of(WithDirectTags, OneOfEach)}

\* Releases dated when CI makes them, the periodic job alone.
PeriodicSettings == {[Of(Periodic, BothOnBranch) EXCEPT !.commitDated = FALSE, !.maxFailures = 1]}
=============================================================================
