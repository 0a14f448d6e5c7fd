------------------------------ MODULE MCPlugins ------------------------------
(***************************************************************************)
(* The plugins that answer webhooks with labels or with Prow jobs: the     *)
(* release-blocker, the phased plugin, and one of those of JobPlugins.     *)
(* None reads what another writes: a behaviour is one of them.             *)
(***************************************************************************)
EXTENDS JobPlugins, ReleaseBlocker, TLC

CONSTANTS main, gone, alice, mallory

VARIABLES
    chosen,
    target, phState, phMergeable, phLabels, phHandlers, request, changes, phFailures

-----------------------------------------------------------------------------
job(name, file, onBase, restricted, repo, hasWorkDir, branches) ==
    [name |-> name, file |-> file, onBase |-> onBase, restricted |-> restricted,
     repo |-> repo, hasWorkDir |-> hasWorkDir, branches |-> branches]

\* One job is changed, one is new, one is restricted.
changedJob == job("a", "a.yaml", "base", FALSE, "other", FALSE, {"main", "release"})
newJob == job("b", "b.yaml", "absent", FALSE, "other", TRUE, {})
restrictedJob == job("r", "a.yaml", "base", TRUE, "own", FALSE, {})
MCPresubmits == {changedJob, newJob, restrictedJob}

content(files, changed) ==
    [files |-> files,
     version |-> [p \in MCPresubmits |-> IF p \in changed THEN "changed" ELSE p.onBase]]

GoOnly == content({"x.go"}, {})

\* The first changes what member may approve, the second more than that, the third
\* Go files only.
MCContents == { content({"a.yaml"}, {changedJob, restrictedJob}),
                content({"a.yaml", "b.yaml", "x.go"}, {changedJob, newJob}),
                GoOnly }

MCLeafApprovers == ("a.yaml" :> {"member"}) @@ ("b.yaml" :> {"top"}) @@ ("x.go" :> {"member", "other"})

comment(command, names, params) == [command |-> command, names |-> names, params |-> params]
MCComments == { comment("rehearse", {"all"}, {}), comment("rehearse", {"b"}, {}),
                comment("rehearse", {"?"}, {}),
                comment("test-subset", {"a"}, {"filter"}), comment("test-subset", {"a"}, {}) }

config(threshold) == [threshold |-> threshold, timeoutMinutes |-> 0]
deployed(plugin, alwaysRun, author, onMain, dryRun, defaults, repo) ==
    [plugin |-> plugin, alwaysRun |-> alwaysRun, author |-> author, onMain |-> onMain,
     dryRun |-> dryRun, defaults |-> config(defaults), repo |-> config(repo)]
CoverageOnly == deployed("coverage", FALSE, "member", TRUE, FALSE, 0, 0)
MCSettings ==
    { deployed("rehearse", TRUE, "member", TRUE, FALSE, 0, 0),
      deployed("rehearse", FALSE, "other", TRUE, FALSE, 0, 0),
      deployed("test-subset", FALSE, "member", TRUE, FALSE, 0, 0),
      deployed("test-subset", FALSE, "member", FALSE, FALSE, 0, 0),
      CoverageOnly,
      deployed("coverage", FALSE, "member", TRUE, FALSE, 50, 80),
      deployed("coverage", FALSE, "member", TRUE, TRUE, 101, 0) }

\* Every single command, and a comment that holds two.
Add(b) == [add |-> TRUE, branch |-> b]
Cancel(b) == [add |-> FALSE, branch |-> b]
MCBlockerComments ==
    {<<c>> : c \in [add : BOOLEAN, branch : {main, gone}]} \cup {<<Add(main), Cancel(main)>>}

\* One presubmit of every kind.
PH == INSTANCE Phased WITH
    Jobs <- [optional : BOOLEAN, alwaysRun : BOOLEAN, pathBased : BOOLEAN],
    ToStates <- {"open", "closed"}, MaxHandlers <- 3, MaxChanges <- 5, MaxFailures <- 1,
    state <- phState, mergeable <- phMergeable, labels <- phLabels, handlers <- phHandlers, failures <- phFailures

-----------------------------------------------------------------------------
phasedVars == <<target, phState, phMergeable, phLabels, phHandlers, request, changes, phFailures>>
allVars == <<chosen, vars, blockerVars, phasedVars>>

ASSUME PluginsAssumption ==
    ReleaseBlockerAssumption /\ PH!PhasedAssumption

\* Only the chosen plugin has more than one initial state.
MCInit ==
    /\ chosen \in {"release-blocker", "phased", "of jobs"}
    /\ Init /\ BlockerInit /\ PH!Init
    /\ chosen # "of jobs" => setting = CoverageOnly /\ heads = <<GoOnly>>
    /\ chosen # "release-blocker" => blockerLabels = {}
    /\ chosen # "phased" => target = "main" /\ phState = "open"

OnlyReleaseBlocker == chosen = "release-blocker" /\ UNCHANGED <<chosen, vars, phasedVars>>
OnlyPhased == chosen = "phased" /\ UNCHANGED <<chosen, vars, blockerVars>>
OnlyOfJobs == chosen = "of jobs" /\ UNCHANGED <<chosen, blockerVars, phasedVars>>

\* A bound: the largest of the deployments has no failures.  They only leave Prow
\* jobs out, and the other properties ask for a run without them.
FailuresAreBounded == failures' > 0 => ~setting.alwaysRun

MCNext ==
    \/ OnlyReleaseBlocker /\ BlockerNext
    \/ OnlyPhased /\ PH!Next
    \/ OnlyOfJobs /\ Next /\ FailuresAreBounded

\* Goroutines are scheduled and GitHub calls return.
MCSpec ==
    /\ MCInit /\ [][MCNext]_allVars
    /\ WF_allVars(OnlyReleaseBlocker /\ HandleSome)
    /\ \A i \in 1..3 : WF_allVars(OnlyPhased /\ PH!Step(i))

-----------------------------------------------------------------------------
TypesOK == TypeOK /\ BlockerTypeOK /\ PH!TypeOK

\* What is reviewed and stays a candidate for merging is asked for its tests.
ReviewedIsTested == PH!ReviewedIsTested
=============================================================================
