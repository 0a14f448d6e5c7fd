----------------------------- MODULE ReleaseTool -----------------------------
(***************************************************************************)
(* releng/release-tool: one process at a time that cuts the release branch *)
(* of the next minor series, tags release candidates and promotes them.    *)
(* A run reads GitHub step by step, caching what it read, and works in a   *)
(* local clone; every check and every git command is a step of its own at  *)
(* which the run may die (log.Fatal, a crash).  Meanwhile people label,    *)
(* fix, close and unlabel blockers, and the project's CI publishes the     *)
(* GitHub releases of the tags.                                            *)
(*                                                                         *)
(* A commit is the time it was made.  Branch 0 is main, branch s >= 1 the release      *)
(* branch of series s; <<s, n>> is release candidate n of series s,        *)
(* <<s, Final>> its x.y.0 and <<s, Patch>> its x.y.1.                      *)
(***************************************************************************)
EXTENDS Integers, FiniteSets

CONSTANTS
    None,           \* the empty string, a nil pointer, an empty cache
    MaxSeries,      \* bound on the minor series; 0 is released at the start
    MaxRC,          \* bound on the release candidates of a series
    Blockers,       \* issues and pull requests that may carry a blocker label
    Settings,       \* who runs the tool and how, see SettingsAssumption
    PromoteAfter,   \* --auto-promote-after-days, less the tolerance
    Cadence,        \* length of --auto-release-cadance
    MaxTime,        \* bound on the clock
    LastEvent       \* bound on the time of changes to the code

ASSUME BoundsAssumption ==
    /\ {MaxSeries, MaxRC, PromoteAfter} \subseteq Nat
    /\ {Cadence, MaxTime} \subseteq Nat \ {0}
    /\ LastEvent \in 0..MaxTime

Main == 0
Branches == 0..MaxSeries
Series == 1..MaxSeries
Final == -1
Patch == -2
Tags == Branches \X (Patch..MaxRC)
IsRC(t) == t[2] >= 0

Requests == [auto : BOOLEAN, newBranch : Series \cup {None}, tag : Tags \cup {None},
             promoteRC : Tags \cup {None}, force : BOOLEAN, dryRun : BOOLEAN,
             skipProw : BOOLEAN]

ASSUME NoneAssumption ==
    /\ None \notin Branches
    /\ None \notin Tags
    /\ None \notin {"bare", "full", "pushed", "pr", "branchNotFound"}

\* A setting: the command lines the tool is run with, --clean-cache, the branch
\* each blocker is about, whether created_at of a release is the time of its
\* commit or of its making, and a bound on the runs that die of a failing command.
ASSUME SettingsAssumption ==
    \A s \in Settings :
        /\ s.requests \subseteq Requests
        /\ s.cleanCache \in BOOLEAN /\ s.commitDated \in BOOLEAN
        /\ s.targetOf \in [Blockers -> Branches]
        /\ s.maxFailures \in Nat

VARIABLES
    setting,    \* one of Settings, for the whole behaviour
    now,
    head,       \* head[b]: latest commit of branch b on GitHub, 0 if there is none
    tags,       \* tags[t]: commit of tag t on GitHub, 0 if there is none
    released,   \* released[t]: its GitHub release: none, bare (no assets) or full
    createdAt,  \* createdAt[t]: the CreatedAt of tag t's release
    prow,       \* prow[s]: job configs of a branch: none, pushed or pr
    blocker,    \* blocker[b]: label, state and times
    pc,         \* the next step of the run
    run,        \* the run's releaseData
    cache,      \* the run's allReleases, allBranches and blockerListCache
    clone,      \* the local clone, kept between runs unless cleanCache
    failures,   \* runs that died of a failing command
    lateLabels, \* blockers labelled since the run began (history)
    error       \* why the last run stopped at verifyTag (history)

github == <<head, tags, released, createdAt, prow, blocker>>
vars == <<setting, now, github, pc, run, cache, clone, failures, lateLabels, error>>

Idle == [auto |-> FALSE, newBranch |-> None, tag |-> None, promoteRC |-> None,
         force |-> FALSE, dryRun |-> FALSE, skipProw |-> FALSE,
         tagBranch |-> None, now |-> 0]
EmptyCache == [releases |-> None, branches |-> {}, blockers |-> [b \in Branches |-> None]]
NoClone == [present |-> FALSE, main |-> 0, heads |-> [s \in Series |-> 0],
            tags |-> [t \in Tags |-> 0]]

Entries == [open : BOOLEAN, closedAt : 0..MaxTime]

TypeOK ==
    /\ setting \in Settings
    /\ now \in 1..MaxTime
    /\ head \in [Branches -> 0..MaxTime]
    /\ tags \in [Tags -> 0..MaxTime]
    /\ released \in [Tags -> {None, "bare", "full"}]
    /\ createdAt \in [Tags -> 0..MaxTime]
    /\ prow \in [Series -> {None, "pushed", "pr"}]
    /\ blocker \in [Blockers -> [labelled : BOOLEAN, state : {"open", "fixed", "closed"},
                                 fixedAt : 0..MaxTime, closedAt : 0..MaxTime]]
    /\ pc \in {"idle", "detect", "judge", "verifyBranch", "mainBlockers", "forkJobs",
               "createPR", "cloneForBranch", "makeBranch", "pushBranch", "verifyTag",
               "tagBlockers", "cloneForTag", "makeTag", "pushTag"}
    /\ run.newBranch \in Series \cup {None}
    /\ run.tag \in Tags \cup (IF pc \in {"verifyTag", "tagBlockers", "cloneForTag", "makeTag",
                                       "pushTag"} THEN {} ELSE {None})
    /\ run.promoteRC \in Tags \cup {None}
    /\ run.tagBranch \in Branches \cup {None}
    /\ run.now \in 0..MaxTime
    /\ cache.releases = None \/ cache.releases \in [Tags -> {None, "bare", "full"}]
    /\ cache.branches \subseteq Branches
    /\ \A b \in Branches : cache.blockers[b] = None \/ cache.blockers[b] \subseteq Entries
    /\ clone \in [present : BOOLEAN, main : 0..MaxTime, heads : [Series -> 0..MaxTime],
                  tags : [Tags -> 0..MaxTime]]
    /\ failures \in 0..setting.maxFailures
    /\ lateLabels \subseteq Blockers
    /\ error \in {None, "branchNotFound"}

Init ==
    /\ setting \in Settings
    /\ now = 1
    /\ head = [b \in Branches |-> IF b = Main THEN 1 ELSE 0]
    /\ tags = [t \in Tags |-> IF t = <<0, Final>> THEN 1 ELSE 0]
    /\ released = [t \in Tags |-> IF t = <<0, Final>> THEN "full" ELSE None]
    /\ createdAt = [t \in Tags |-> IF t = <<0, Final>> THEN 1 ELSE 0]
    /\ prow = [s \in Series |-> None]
    /\ blocker = [b \in Blockers |-> [labelled |-> FALSE, state |-> "open",
                                      fixedAt |-> 0, closedAt |-> 0]]
    /\ pc = "idle"
    /\ run = Idle
    /\ cache = EmptyCache
    /\ clone = NoClone
    /\ failures = 0
    /\ lateLabels = {}
    /\ error = None

-----------------------------------------------------------------------------
\* What the run reads.

\* getReleases, getBranches and getBlockers ask GitHub only for what is not
\* cached; an empty list counts as not cached.
getReleases == IF cache.releases = None THEN released ELSE cache.releases

getBranches ==
    IF cache.branches = {} THEN {b \in Branches : head[b] # 0} ELSE cache.branches

\* For main only open blockers are listed.
getBlockers(branch) ==
    IF cache.blockers[branch] # None THEN cache.blockers[branch]
    ELSE {[open |-> blocker[b].state # "closed", closedAt |-> blocker[b].closedAt] :
            b \in {b \in Blockers : /\ blocker[b].labelled /\ setting.targetOf[b] = branch
                                    /\ branch = Main => blocker[b].state # "closed"}}

WithBlockers(branch) ==
    [cache EXCEPT !.releases = getReleases, !.blockers[branch] = getBlockers(branch)]

CacheBlockers(branch) == cache' = WithBlockers(branch)

\* isRCInvalid's two results, for a release created at the given time.
blocksNewRC(entries) == \E e \in entries : e.open

\* --- faulty variant of isRCInvalid
isRCInvalidOnlyOpen(entries, created) == blocksNewRC(entries)
\* ---

isRCInvalid(entries, created) ==
    blocksNewRC(entries) \/ \E e \in entries : ~e.open /\ e.closedAt > created

\* --- faulty variant of isBranchBlocked
isBranchBlockedIgnoresIssues(branch) == FALSE
\* ---

\* Open blockers stop the run unless --force is given.
isBranchBlocked(branch) == ~run.force /\ \E e \in getBlockers(branch) : e.open

\* The highest x.y.0 release that is official: published with its assets.
currentMinor(rel) == CHOOSE s \in Branches :
    /\ rel[<<s, Final>>] = "full"
    /\ \A other \in Branches : rel[<<other, Final>>] = "full" => other <= s

\* The most recent release candidate of series s, if s is not released.
rcPromotionCandidate(rel, s) ==
    LET rcs == {n \in 0..MaxRC : rel[<<s, n>>] # None}
    IN  IF rel[<<s, Final>>] # None \/ rcs = {} THEN None
        ELSE <<s, CHOOSE n \in rcs : \A m \in rcs : m <= n>>

\* A new cadence period began since the last minor release, whose successor was
\* not begun: neither its rc.0 nor its final release is there.
shouldMakeNewMinorRelease(rel, s) ==
    /\ run.now \div Cadence > createdAt[<<s, Final>>] \div Cadence
    /\ rel[<<s + 1, 0>>] = None
    /\ rel[<<s + 1, Final>>] = None

\* --- faulty variant of firstCandidate
firstCandidateOne(s) == <<s, 1>>
\* ---

\* The tags of a new series' first candidate and of the one after rc.
firstCandidate(s) == <<s, 0>>
candidateAfter(rc) == <<rc[1], rc[2] + 1>>

-----------------------------------------------------------------------------
\* The run's control.

Stop ==
    /\ pc' = "idle"
    /\ run' = Idle
    /\ cache' = EmptyCache
    /\ lateLabels' = {}

\* main: the branch part, then the tag part, then the end, for the data d.
BranchPart(d) == IF d.newBranch # None THEN "verifyBranch"
                 ELSE IF d.tag # None THEN "verifyTag" ELSE "idle"

\* --- faulty variant of TagPart
TagPartAlways(d) == "verifyTag"
\* ---

TagPart(d) == IF d.tag # None THEN "verifyTag" ELSE "idle"

Continue(next) == IF next = "idle" THEN Stop ELSE pc' = next /\ UNCHANGED <<run, cache,
                                                                            lateLabels>>

\* verifyPromoteRC: a promotion is of a candidate, and finds the tag itself.
Clash(d) == d.promoteRC # None /\ (d.tag # None \/ ~IsRC(d.promoteRC))
Promotion(d) ==
    IF d.promoteRC = None THEN d ELSE [d EXCEPT !.tag = <<d.promoteRC[1], Final>>]

\* verifyPromoteRC and the start of the branch or tag part, with what is cached.
Proceed(d, known) ==
    IF Clash(d) \/ BranchPart(Promotion(d)) = "idle"
      THEN Stop
      ELSE /\ pc' = BranchPart(Promotion(d))
           /\ run' = Promotion(d)
           /\ cache' = known
           /\ UNCHANGED lateLabels

\* --- faulty variant of PreparedClone
PreparedCloneKept == clone
\* ---

\* main removes the clone, unless told not to.
PreparedClone == IF setting.cleanCache THEN NoClone ELSE clone

Start(request) ==
    LET d == [auto |-> request.auto, newBranch |-> request.newBranch, tag |-> request.tag,
              promoteRC |-> request.promoteRC, force |-> request.force,
              dryRun |-> request.dryRun, skipProw |-> request.skipProw,
              tagBranch |-> None, now |-> now]
    IN  /\ pc = "idle"
        /\ request \in setting.requests
        /\ clone' = PreparedClone
        /\ error' = None
        /\ IF request.auto
             THEN pc' = "detect" /\ run' = d /\ UNCHANGED <<cache, lateLabels>>
             ELSE Proceed(d, cache)
        /\ UNCHANGED <<setting, now, github, failures>>

\* autoDetectData reads the releases.
Detect ==
    /\ pc = "detect"
    /\ cache' = [cache EXCEPT !.releases = getReleases]
    /\ pc' = "judge"
    /\ UNCHANGED <<setting, now, github, run, clone, failures, lateLabels, error>>

\* autoDetectData's decision; the blockers are read if there is a candidate.
Judge ==
    LET rel == cache.releases
        s == currentMinor(rel)
        next == s + 1
        rc == rcPromotionCandidate(rel, next)
        entries == getBlockers(next)
        invalid == isRCInvalid(entries, createdAt[rc])
        decided ==
          IF shouldMakeNewMinorRelease(rel, s)
            THEN [run EXCEPT !.tag = firstCandidate(next), !.newBranch = next, !.tagBranch = next]
          ELSE IF rc = None THEN run
          ELSE IF invalid
            THEN IF blocksNewRC(entries) \/ rc[2] >= MaxRC THEN run
                 ELSE [run EXCEPT !.tag = candidateAfter(rc), !.tagBranch = next]
          ELSE IF run.now - createdAt[rc] >= PromoteAfter
            THEN [run EXCEPT !.promoteRC = rc]
          ELSE run
    IN  /\ pc = "judge"
        /\ IF next > MaxSeries THEN Stop
             ELSE Proceed(decided, IF rc = None THEN cache ELSE WithBlockers(next))
        /\ UNCHANGED <<setting, now, github, clone, failures, error>>

VerifyBranch ==
    /\ pc = "verifyBranch"
    /\ cache' = [cache EXCEPT !.branches = getBranches]
    /\ pc' = "mainBlockers"
    /\ UNCHANGED <<setting, now, github, run, clone, failures, lateLabels, error>>

\* --- faulty variant of MainBlockers
MainBlockersBranchFirst ==
    /\ pc = "mainBlockers"
    /\ IF isBranchBlocked(Main)
         THEN Stop
         ELSE /\ CacheBlockers(Main)
              /\ pc' = IF run.newBranch \in cache.branches THEN TagPart(run)
                       ELSE "cloneForBranch"
              /\ UNCHANGED <<run, lateLabels>>
    /\ UNCHANGED <<setting, now, github, clone, failures, error>>
\* ---

\* isBranchBlocked("main"), then cutNewBranch unless the branch exists.
MainBlockers ==
    LET exists == run.newBranch \in cache.branches
        next == IF exists THEN TagPart(run)
                ELSE IF run.skipProw THEN "cloneForBranch" ELSE "forkJobs"
    IN  /\ pc = "mainBlockers"
        /\ IF isBranchBlocked(Main) \/ next = "idle"
             THEN Stop
             ELSE /\ CacheBlockers(Main)
                  /\ pc' = next
                  /\ UNCHANGED <<run, lateLabels>>
        /\ UNCHANGED <<setting, now, github, clone, failures, error>>

\* forkProwJobs pushes the job configs of the branch, once ...
ForkJobs ==
    /\ pc = "forkJobs"
    /\ prow' = IF run.dryRun \/ prow[run.newBranch] # None THEN prow
               ELSE [prow EXCEPT ![run.newBranch] = "pushed"]
    /\ pc' = IF run.dryRun THEN "cloneForBranch" ELSE "createPR"
    /\ UNCHANGED <<setting, now, head, tags, released, createdAt, blocker, run, cache, clone,
                   failures, lateLabels, error>>

\* ... and asks for their merge; an existing pull request is as good.
CreatePR ==
    /\ pc = "createPR"
    /\ prow' = [prow EXCEPT ![run.newBranch] = "pr"]
    /\ pc' = "cloneForBranch"
    /\ UNCHANGED <<setting, now, head, tags, released, createdAt, blocker, run, cache, clone,
                   failures, lateLabels, error>>

\* checkoutUpstream clones, or pulls main, either of which brings the tags.
checkoutUpstream ==
    clone' = [clone EXCEPT !.present = TRUE, !.main = head[Main],
                           !.tags = [t \in Tags |-> IF tags[t] # 0 THEN tags[t] ELSE @[t]]]

CloneForBranch ==
    /\ pc = "cloneForBranch"
    /\ checkoutUpstream
    /\ pc' = "makeBranch"
    /\ UNCHANGED <<setting, now, github, run, cache, failures, lateLabels, error>>

\* git checkout -b, which fails if the clone has the branch.
MakeBranch ==
    /\ pc = "makeBranch"
    /\ IF clone.heads[run.newBranch] # 0
         THEN Stop /\ UNCHANGED clone
         ELSE /\ clone' = [clone EXCEPT !.heads[run.newBranch] = clone.main]
              /\ Continue(IF run.dryRun THEN TagPart(run) ELSE "pushBranch")
    /\ UNCHANGED <<setting, now, github, failures, error>>

\* --- faulty variant of PushBranch
PushBranchKeepsCache ==
    /\ pc = "pushBranch"
    /\ head' = [head EXCEPT ![run.newBranch] = clone.heads[run.newBranch]]
    /\ Continue(TagPart(run))
    /\ UNCHANGED <<setting, now, tags, released, createdAt, prow, blocker, clone, failures,
                   error>>
\* ---

\* git push of the branch; the cached branches are forgotten.
PushBranch ==
    /\ pc = "pushBranch"
    /\ head' = [head EXCEPT ![run.newBranch] = clone.heads[run.newBranch]]
    /\ IF TagPart(run) = "idle" THEN Stop
         ELSE /\ pc' = TagPart(run)
              /\ cache' = [cache EXCEPT !.branches = {}]
              /\ UNCHANGED <<run, lateLabels>>
    /\ UNCHANGED <<setting, now, tags, released, createdAt, prow, blocker, clone, failures,
                   error>>

\* verifyTag: nothing is verified for a tag that is released already; a
\* promotion needs a published candidate that is valid, any other x.y.0 needs
\* --force; the branch is looked up unless it is given.
VerifyTag ==
    LET rel == getReleases
        branch == IF run.tagBranch # None THEN run.tagBranch ELSE run.tag[1]
        promotion == run.promoteRC # None
        ineligible ==
            IF promotion
              THEN \/ rel[run.promoteRC] = None
                   \/ isRCInvalid(getBlockers(branch), createdAt[run.promoteRC])
              ELSE run.tag[2] = Final /\ ~run.force
        notFound == run.tagBranch = None /\ branch \notin getBranches
    IN  /\ pc = "verifyTag"
        /\ IF rel[run.tag] # None
             THEN /\ pc' = "tagBlockers"
                  /\ cache' = [cache EXCEPT !.releases = rel]
                  /\ UNCHANGED <<run, lateLabels, error>>
           ELSE IF ineligible THEN Stop /\ UNCHANGED error
           ELSE IF notFound THEN Stop /\ error' = "branchNotFound"
           ELSE /\ pc' = "tagBlockers"
                /\ run' = [run EXCEPT !.tagBranch = branch]
                /\ cache' = [cache EXCEPT !.releases = rel, !.branches = getBranches,
                                          !.blockers[branch] = IF promotion THEN getBlockers(branch) ELSE @]
                /\ UNCHANGED <<lateLabels, error>>
        /\ UNCHANGED <<setting, now, github, clone, failures>>

\* isBranchBlocked(tagBranch); no label names the empty branch.
TagBlockers ==
    /\ pc = "tagBlockers"
    /\ IF run.tagBranch # None /\ isBranchBlocked(run.tagBranch)
         THEN Stop
         ELSE /\ IF run.tagBranch = None THEN UNCHANGED cache ELSE CacheBlockers(run.tagBranch)
              /\ pc' = "cloneForTag"
              /\ UNCHANGED <<run, lateLabels>>
    /\ UNCHANGED <<setting, now, github, clone, failures, error>>

CloneForTag ==
    /\ pc = "cloneForTag"
    /\ checkoutUpstream
    /\ pc' = "makeTag"
    /\ UNCHANGED <<setting, now, github, run, cache, failures, lateLabels, error>>

\* The commit makeTag checks out: the candidate's, or the branch as pulled.
TaggedCommit ==
    IF run.promoteRC # None THEN clone.tags[run.promoteRC]
    ELSE IF run.tagBranch = None THEN 0 ELSE head[run.tagBranch]

\* makeTag up to git tag, which fails if the clone has the tag.
MakeTag ==
    /\ pc = "makeTag"
    /\ IF TaggedCommit = 0 \/ clone.tags[run.tag] # 0
         THEN Stop /\ UNCHANGED clone
         ELSE /\ clone' = [clone EXCEPT !.tags[run.tag] = TaggedCommit]
              /\ Continue(IF run.dryRun THEN "idle" ELSE "pushTag")
    /\ UNCHANGED <<setting, now, github, failures, error>>

PushTag ==
    /\ pc = "pushTag"
    /\ tags' = [tags EXCEPT ![run.tag] = clone.tags[run.tag]]
    /\ Stop
    /\ UNCHANGED <<setting, now, head, released, createdAt, prow, blocker, clone, failures,
                   error>>

\* A command or a GitHub call fails, or the job is killed, before the step.
Fail ==
    /\ pc # "idle"
    /\ failures < setting.maxFailures
    /\ failures' = failures + 1
    /\ Stop
    /\ UNCHANGED <<setting, now, github, clone, error>>

RunStep ==
    \/ Detect
    \/ Judge
    \/ VerifyBranch
    \/ MainBlockers
    \/ ForkJobs
    \/ CreatePR
    \/ CloneForBranch
    \/ MakeBranch
    \/ PushBranch
    \/ VerifyTag
    \/ TagBlockers
    \/ CloneForTag
    \/ MakeTag
    \/ PushTag

-----------------------------------------------------------------------------
\* The surroundings.

\* A candidate is out and not old enough to be promoted.
CandidateAges ==
    \E t \in Tags : /\ IsRC(t) /\ released[t] # None /\ released[<<t[1], Final>>] = None
                    /\ now - createdAt[t] < PromoteAfter

\* After LastEvent the clock is followed only while something waits for it.
Tick ==
    /\ now < LastEvent \/ (now < MaxTime /\ CandidateAges)
    /\ now' = now + 1
    /\ UNCHANGED <<setting, github, pc, run, cache, clone, failures, lateLabels, error>>

ToolUnchanged == UNCHANGED <<tags, released, createdAt, prow, pc, run, cache, clone, failures,
                             error>>

\* release-blocker puts the label on an open item, or takes it off again.
Label(b) ==
    /\ ~blocker[b].labelled /\ blocker[b].state = "open"
    /\ blocker' = [blocker EXCEPT ![b].labelled = TRUE]
    /\ lateLabels' = IF pc = "idle" THEN {} ELSE lateLabels \cup {b}
    /\ UNCHANGED <<setting, now, head>> /\ ToolUnchanged

Cancel(b) ==
    /\ blocker[b].labelled
    /\ blocker' = [blocker EXCEPT ![b].labelled = FALSE]
    /\ UNCHANGED <<setting, now, head, lateLabels>> /\ ToolUnchanged

\* The fix is merged to the branch, then the item is closed.
Fix(b) ==
    /\ now < LastEvent
    /\ blocker[b].state = "open" /\ head[setting.targetOf[b]] # 0
    /\ now' = now + 1
    /\ head' = [head EXCEPT ![setting.targetOf[b]] = now']
    /\ blocker' = [blocker EXCEPT ![b].state = "fixed", ![b].fixedAt = now']
    /\ UNCHANGED <<setting, lateLabels>> /\ ToolUnchanged

Close(b) ==
    /\ now <= LastEvent /\ now < MaxTime
    /\ blocker[b].state = "fixed"
    /\ now' = now + 1
    /\ blocker' = [blocker EXCEPT ![b].state = "closed", ![b].closedAt = now']
    /\ UNCHANGED <<setting, head, lateLabels>> /\ ToolUnchanged

\* The project's CI makes the GitHub release of a tag, then attaches the assets.
Publish(t) ==
    /\ tags[t] # 0
    /\ released[t] # "full"
    /\ released' = [released EXCEPT ![t] = IF @ = None THEN "bare" ELSE "full"]
    /\ createdAt' = IF released[t] # None THEN createdAt
                    ELSE [createdAt EXCEPT ![t] = IF setting.commitDated THEN tags[t] ELSE now]
    /\ UNCHANGED <<setting, now, head, tags, prow, blocker, pc, run, cache, clone, failures,
                   lateLabels, error>>

Invocations == UNION {s.requests : s \in Settings}

Next ==
    \/ \E request \in Invocations : Start(request)
    \/ RunStep
    \/ Fail
    \/ Tick
    \/ \E b \in Blockers : Label(b) \/ Cancel(b) \/ Fix(b) \/ Close(b)
    \/ \E t \in Tags : Publish(t)

\* The periodic job starts again and again, its commands return, days pass, and
\* CI publishes what is tagged.
Fairness ==
    /\ \A request \in Invocations : request.auto => WF_vars(Start(request))
    /\ WF_vars(RunStep)
    /\ WF_vars(Tick)
    /\ \A t \in Tags : WF_vars(Publish(t))

Spec == Init /\ [][Next]_vars /\ Fairness
-----------------------------------------------------------------------------
BranchPushed(s) == head[s] = 0 /\ head'[s] # 0
TagPushed(t) == tags[t] = 0 /\ tags'[t] # 0

\* A blocker that was on the branch before the run began and still is.
StandingBlocker(b, branch) ==
    blocker[b].labelled /\ setting.targetOf[b] = branch /\ b \notin lateLabels

\* Without --force no branch is cut and no tag made while a blocker of main, or
\* of the tag's branch, that was there when the run began is open, whatever was
\* labelled, closed and cached between the checks and the push.
BlockersHold ==
    [][~run.force =>
        /\ \A s \in Series : BranchPushed(s) =>
              \A b \in Blockers : StandingBlocker(b, Main) => blocker[b].state = "closed"
        /\ \A t \in Tags : TagPushed(t) =>
              \A b \in Blockers : StandingBlocker(b, t[1]) => blocker[b].state = "closed"]_vars

\* A promoted release has the fix of every blocker that was on its branch when
\* the promoting run began, --force or not: a candidate cut before the fix is
\* never promoted, because the blocker was closed after it.
PromotionsHaveFixes ==
    [][\A s \in Series : TagPushed(<<s, Final>>) /\ run.promoteRC # None =>
          \A b \in Blockers : StandingBlocker(b, s) =>
              blocker[b].state = "closed" /\ blocker[b].fixedAt <= tags'[<<s, Final>>]]_vars

\* Candidates are numbered without gaps and never go back to older code, and an
\* official x.y.0 is the very commit of one of them, unless somebody forced it.
CandidatesAdvance ==
    /\ \A s \in Series, n \in 1..MaxRC : tags[<<s, n>>] # 0 =>
          tags[<<s, n - 1>>] # 0 /\ tags[<<s, n - 1>>] <= tags[<<s, n>>]
    /\ (\A request \in setting.requests : ~request.force) =>
          \A s \in Series : tags[<<s, Final>>] # 0 =>
              \E n \in 0..MaxRC : tags[<<s, n>>] = tags[<<s, Final>>]

\* A release branch that the tool pushed has its job configs under review, even
\* if runs die between the two and others take over.
BranchHasJobs ==
    (\A request \in setting.requests : ~request.skipProw) =>
        \A s \in Series : head[s] # 0 => prow[s] = "pr"

\* A run that stops because "release branch [...] not found" is right: the
\* branch it has just cut itself is seen.
BranchReallyMissing ==
    [][error' = "branchNotFound" /\ error = None => head[run.tag[1]] = 0]_vars

\* Once its period has come the next minor series is released in the end, if its
\* blockers are resolved in the end: dying runs, slow CI and invalidated
\* candidates delay it, none of them wedges it.
NextMinorShips ==
    <>[](\A b \in Blockers : blocker[b].labelled => blocker[b].state = "closed")
        => <>(released[<<1, Final>>] = "full")
=============================================================================
