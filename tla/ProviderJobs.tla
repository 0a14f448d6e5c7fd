----------------------------- MODULE ProviderJobs -----------------------------
(***************************************************************************)
(* robots/kubevirt (pkg/kubevirt/cmd): the commands that follow Kubernetes *)
(* releases with the e2e jobs of kubevirt/kubevirt.  Periodic jobs run     *)
(* them; hack/git-pr.sh puts what they changed on one branch per command   *)
(* and opens a pull request, which people merge later, after other pull    *)
(* requests, or never.                                                     *)
(*                                                                         *)
(* A presubmit job is named by a minor version and a sig.  The three       *)
(* newest minors are the supported ones.                                   *)
(***************************************************************************)
EXTENDS Integers, FiniteSets, FiniteSetsExt

CONSTANTS
    None,
    Sigs,           \* prowjobconfigs.SigNames
    Serial,         \* sig-compute-serial, which only "require presubmits" knows
    FirstMinor,     \* oldest minor with jobs at the start, two behind the latest
    MaxMinor,       \* bound on the Kubernetes releases
    Patiences,      \* what Kubernetes may wait for: the jobs of its last release
                    \* are "required", or "copied"
    MaxEdits        \* bound on edits by hand

ASSUME BoundsAssumption ==
    /\ FirstMinor \in Nat /\ MaxMinor \in FirstMinor + 2..999
    /\ MaxEdits \in Nat /\ Patiences \subseteq {"required", "copied"}
    /\ Serial \notin Sigs

Minors == FirstMinor..MaxMinor
AllSigs == Sigs \cup {Serial}
Job == [alwaysRun : BOOLEAN, optional : BOOLEAN, runBeforeMerge : BOOLEAN]

\* The presubmits file and, as names only, the periodics file.
Configs == [presubmits : [Minors \X AllSigs -> Job \cup {None}],
            periodics : SUBSET (Minors \X Sigs)]

\* There is a job, or none.
ASSUME NoneAssumption == None \notin Job

Commands == {"copy", "require", "remove"}

VARIABLES
    patience,   \* one of Patiences, for the whole behaviour
    latest,     \* the latest minor of Kubernetes; all down to FirstMinor are listed
    main,       \* the configuration on the main branch
    pr,         \* pr[c]: open pull request of a command: the main it is based on, its result
    edits

vars == <<patience, latest, main, pr, edits>>

Gates(job) == job # None /\ ~job.optional /\ (job.alwaysRun \/ job.runBeforeMerge)

TypeOK ==
    /\ patience \in Patiences
    /\ latest \in Minors
    /\ main \in Configs
    /\ \A c \in Commands : pr[c] = None \/ (pr[c].base \in Configs /\ pr[c].result \in Configs
                                            /\ pr[c].base # pr[c].result)
    /\ edits \in 0..MaxEdits
    /\ \A m \in Minors, s \in AllSigs : m > latest => main.presubmits[m, s] = None

Required == [alwaysRun |-> TRUE, optional |-> FALSE, runBeforeMerge |-> FALSE]
BeforeMerge == [alwaysRun |-> FALSE, optional |-> FALSE, runBeforeMerge |-> TRUE]

Init ==
    /\ patience \in Patiences
    /\ latest = FirstMinor + 2
    /\ main = [presubmits |-> [j \in Minors \X AllSigs |->
                                 IF j[1] = latest THEN Required
                                 ELSE IF j[1] < latest /\ j[2] # Serial THEN BeforeMerge ELSE None],
               periodics |-> (FirstMinor..latest) \X Sigs]
    /\ pr = [c \in Commands |-> None]
    /\ edits = 0

-----------------------------------------------------------------------------
\* Versions are strings: SemVer.Minor is compared digit by digit.
Digits(n) == IF n < 10 THEN 1 ELSE IF n < 100 THEN 2 ELSE 3
Padded(n) == n * 10 ^ (3 - Digits(n))
stringLess(m, n) == Padded(m) < Padded(n) \/ (Padded(m) = Padded(n) /\ Digits(m) < Digits(n))

\* Of the releases in descending order, those that are less than the last one
\* taken, which is the least of all before.
GetLatestMinorReleases ==
    {m \in FirstMinor..latest : \A n \in m + 1..latest : stringLess(m, n)}

\* The n-th of them, counted from 0.
NthLatest(n) == LET minors == GetLatestMinorReleases
                IN  CHOOSE m \in minors : Cardinality({k \in minors : k > m}) = n

\* --- faulty variant of removalTarget
removalTargetOneTooNew == NthLatest(2)
\* ---

fourReleasesExist == Cardinality(GetLatestMinorReleases) >= 4
removalTarget == NthLatest(3)

\* getSourceAndTargetRelease: the newest release whose minor is less.
sourceReleases == {m \in FirstMinor..latest - 1 : stringLess(m, latest)}

-----------------------------------------------------------------------------
\* The commands, as functions of the configuration they read.

\* --- faulty variant of copyPresubmitJobsForNewProvider
copyPresubmitJobsAsTheyAre(presubmits, source) ==
    [j \in DOMAIN presubmits |->
       IF j[1] = latest /\ j[2] \in Sigs /\ presubmits[j] = None THEN presubmits[<<source, j[2]>>]
       ELSE presubmits[j]]
\* ---

\* What the latest minor has not yet, as new jobs that block nothing.
copyPresubmitJobsForNewProvider(presubmits, source) ==
    LET missing == {s \in Sigs : presubmits[latest, s] = None /\ presubmits[source, s] # None}
        new == [alwaysRun |-> FALSE, optional |-> TRUE, runBeforeMerge |-> FALSE]
    IN  [j \in DOMAIN presubmits |->
           IF j[1] = latest /\ j[2] \in missing THEN new ELSE presubmits[j]]

copyPeriodicJobsForNewProvider(periodics, source) ==
    periodics \cup ({latest} \X {s \in Sigs : <<source, s>> \in periodics})

\* copy jobs: both files, from the source release, if there is one.
copyJobs(cfg) ==
    LET source == Max(sourceReleases)
    IN  IF sourceReleases = {} THEN cfg
        ELSE [presubmits |-> copyPresubmitJobsForNewProvider(cfg.presubmits, source),
              periodics |-> copyPeriodicJobsForNewProvider(cfg.periodics, source)]

\* --- faulty variant of setPresubmitsToRunBeforeMergeOnly
setPresubmitsToNotRun(presubmits, minor) ==
    [j \in DOMAIN presubmits |->
       IF j[1] = minor /\ presubmits[j] # None
         THEN [presubmits[j] EXCEPT !.alwaysRun = FALSE] ELSE presubmits[j]]
\* ---

setPresubmitsToRunBeforeMergeOnly(presubmits, minor) ==
    [j \in DOMAIN presubmits |->
       IF j[1] = minor /\ presubmits[j] # None
         THEN [presubmits[j] EXCEPT !.alwaysRun = FALSE, !.runBeforeMerge = TRUE]
         ELSE presubmits[j]]

\* --- faulty variant of requirePresubmits
requirePresubmitsAtOnce(cfg) ==
    { [cfg EXCEPT !.presubmits =
         setPresubmitsToRunBeforeMergeOnly(
           [j \in DOMAIN @ |-> IF j[1] = latest /\ @[j] # None /\ @[j].alwaysRun
                                 THEN [@[j] EXCEPT !.optional = FALSE] ELSE @[j]], latest - 1)] }
\* ---

\* updatePresubmitsAlwaysRunAndOptionalFields, then the previous minor's jobs if
\* the phase is the second.  The phase is that of the last job in the file that
\* was changed, whatever the jobs before it.
requirePresubmits(cfg) ==
    LET old == cfg.presubmits
        jobs == {j \in {latest} \X AllSigs : old[j] # None}
        first == {j \in jobs : ~old[j].alwaysRun}
        second == {j \in jobs : old[j].alwaysRun /\ old[j].optional}
        updated == [j \in DOMAIN old |->
                      IF j \in first THEN [old[j] EXCEPT !.alwaysRun = TRUE]
                      ELSE IF j \in second THEN [old[j] EXCEPT !.optional = FALSE]
                      ELSE old[j]]
    IN  (IF first # {} \/ second = {} THEN {[cfg EXCEPT !.presubmits = updated]} ELSE {})
        \cup (IF second # {}
                THEN {[cfg EXCEPT !.presubmits = setPresubmitsToRunBeforeMergeOnly(updated, latest - 1)]}
                ELSE {})

\* remove always_run, which runs after require in the same pull request:
\* ensureSigJobsDoAlwaysRun, then updatePresubmitsAlwaysRunField.
removeAlwaysRun(cfg) ==
    LET old == cfg.presubmits
        target == removalTarget
        allRun == \A s \in Sigs : old[latest, s] # None /\ old[latest, s].alwaysRun
    IN  IF ~fourReleasesExist \/ ~allRun THEN cfg
        ELSE [cfg EXCEPT !.presubmits = [j \in DOMAIN old |->
                IF j[1] = target /\ j[2] \in Sigs /\ old[j] # None
                  THEN [old[j] EXCEPT !.alwaysRun = FALSE] ELSE old[j]]]

ensureSigJobsAreRequired(presubmits) ==
    \A s \in Sigs : LET job == presubmits[latest, s]
                    IN  job # None /\ job.alwaysRun /\ ~job.optional

ensureSigPresubmitJobsExist(presubmits) ==
    \A n \in 0..2 : LET m == NthLatest(n) IN \A s \in Sigs : presubmits[m, s] # None

\* remove jobs.
removeJobs(cfg) ==
    IF ~(/\ fourReleasesExist
         /\ ensureSigJobsAreRequired(cfg.presubmits)
         /\ ensureSigPresubmitJobsExist(cfg.presubmits))
      THEN cfg
      ELSE LET gone == {removalTarget} \X Sigs
           IN  [presubmits |-> [j \in DOMAIN cfg.presubmits |->
                                  IF j \in gone THEN None ELSE cfg.presubmits[j]],
                periodics |-> cfg.periodics \ gone]

Results(c) ==
    IF c = "copy" THEN {copyJobs(main)}
    ELSE IF c = "require" THEN {removeAlwaysRun(cfg) : cfg \in requirePresubmits(main)}
    ELSE {removeJobs(main)}

-----------------------------------------------------------------------------
\* --- faulty variant of Run
RunAlways(c) ==
    \E result \in Results(c) :
        /\ pr' = [pr EXCEPT ![c] = [base |-> main, result |-> result]]
        /\ UNCHANGED <<patience, latest, main, edits>>
\* ---

Proposed(c) == IF pr[c] = None THEN {} ELSE {pr[c].result}

\* A periodic job runs its command on a checkout of main.  git-pr.sh leaves its
\* branch, and a pull request that is open, alone when the command changed nothing
\* or the branch has that content already; otherwise it overwrites the branch.
Run(c) ==
    \E result \in Results(c) :
        /\ result \notin {main} \cup Proposed(c)
        /\ pr' = [pr EXCEPT ![c] = [base |-> main, result |-> result]]
        /\ UNCHANGED <<patience, latest, main, edits>>

\* git merges job by job, or reports a conflict.
MergeOf(p, m) ==
    [presubmits |-> [j \in DOMAIN m.presubmits |->
                       IF p.result.presubmits[j] # p.base.presubmits[j]
                         THEN p.result.presubmits[j] ELSE m.presubmits[j]],
     periodics |-> (m.periodics \cup (p.result.periodics \ p.base.periodics))
                     \ (p.base.periodics \ p.result.periodics)]
Conflict(p, m) ==
    \E j \in DOMAIN m.presubmits :
        Cardinality({p.base.presubmits[j], p.result.presubmits[j], m.presubmits[j]}) = 3

Merge(c) ==
    /\ pr[c] # None
    /\ ~Conflict(pr[c], main)
    /\ main' = MergeOf(pr[c], main)
    /\ pr' = [pr EXCEPT ![c] = None]
    /\ UNCHANGED <<patience, latest, edits>>

\* Kubernetes releases a minor.
ReleaseKubernetes ==
    /\ latest < MaxMinor
    /\ patience = "required" => ensureSigJobsAreRequired(main.presubmits)
    /\ patience = "copied" => \A s \in Sigs : main.presubmits[latest, s] # None
    /\ latest' = latest + 1
    /\ UNCHANGED <<patience, main, pr, edits>>

Edit == edits < MaxEdits /\ edits' = edits + 1

\* People make a flaky job optional, add a job beside a latest one that exists,
\* or move the serial job to the latest minor.
MakeOptional(s) ==
    /\ Edit
    /\ main.presubmits[latest, s] # None
    /\ main' = [main EXCEPT !.presubmits[<<latest, s>>].optional = TRUE]
    /\ UNCHANGED <<patience, latest, pr>>

MoveSerial(from) ==
    /\ Edit
    /\ from < latest /\ main.presubmits[from, Serial] # None
    /\ main.presubmits[latest, Serial] = None
    /\ main' = [main EXCEPT !.presubmits[<<latest, Serial>>] = main.presubmits[from, Serial],
                            !.presubmits[<<from, Serial>>] = None]
    /\ UNCHANGED <<patience, latest, pr>>

Next ==
    \/ \E c \in Commands : Run(c) \/ Merge(c)
    \/ ReleaseKubernetes
    \/ \E s \in AllSigs : MakeOptional(s)
    \/ \E from \in Minors : MoveSerial(from)

\* The jobs run again and again; what can be merged is merged in the end.
Fairness == \A c \in Commands : WF_vars(Run(c)) /\ SF_vars(Merge(c))

Spec == Init /\ [][Next]_vars /\ Fairness

-----------------------------------------------------------------------------
Merging == \E c \in Commands : Merge(c)

\* If Kubernetes does not release again before the jobs of its last release are
\* required, no merge of the commands' work, however old, leaves a sig without a gate: a job
\* of the sigs that gated merges and does not any more has a gating successor for
\* a newer minor.
GatesHandOver ==
    [][patience = "required" /\ Merging =>
         \A m \in Minors, s \in Sigs :
            Gates(main.presubmits[m, s]) /\ ~Gates(main'.presubmits[m, s])
              => \E n \in Minors : n > m /\ Gates(main'.presubmits[n, s])]_vars

\* However old the pull request that removes jobs, it takes none of the three
\* minors that are supported when it is merged.
SupportedStay ==
    [][\A m \in Minors, s \in Sigs :
         main.presubmits[m, s] # None /\ main'.presubmits[m, s] = None => m <= latest - 3]_vars

\* A job is first run on every pull request without blocking them: none becomes
\* required by a merge that has not been running always before.
TriedBeforeRequired ==
    [][Merging =>
         \A m \in Minors, s \in Sigs :
            Gates(main'.presubmits[m, s]) /\ ~Gates(main.presubmits[m, s])
              => main.presubmits[m, s] # None /\ main.presubmits[m, s].alwaysRun]_vars

\* Whenever Kubernetes stops releasing for long enough, and it waits at least for
\* the copies of the last release, the jobs of its latest minor gate merges in the
\* end, whatever was overwritten, merged late or edited.
LatestGates == []<>(\A s \in Sigs : Gates(main.presubmits[latest, s]))
=============================================================================
