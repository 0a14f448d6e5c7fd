--------------------------- MODULE ReleaseToolProofs ---------------------------
(***************************************************************************)
(* Whatever runs die between their steps, whatever people label, fix, close *)
(* and unlabel meanwhile and however late CI publishes: no branch and no    *)
(* tag over a standing blocker, no promotion without the fixes, no branch   *)
(* without its jobs, and candidates in order.                               *)
(***************************************************************************)
EXTENDS ReleaseTool, FiniteSetTheorems, TLAPS

Requesting == {"detect", "judge"}
Branching == {"forkJobs", "createPR", "cloneForBranch", "makeBranch", "pushBranch"}
Tagging == {"tagBlockers", "cloneForTag", "makeTag", "pushTag"}

Runs == [auto : BOOLEAN, newBranch : Series \cup {None}, tag : Tags \cup {None},
         promoteRC : Tags \cup {None}, force : BOOLEAN, dryRun : BOOLEAN, skipProw : BOOLEAN,
         tagBranch : Branches \cup {None}, now : 0..MaxTime]

Releases == [Tags -> {None, "bare", "full"}]

\* As TypeOK, where the run and its cache are records.
TypeInv ==
    /\ setting \in Settings
    /\ now \in 1..MaxTime
    /\ head \in [Branches -> 0..MaxTime]
    /\ tags \in [Tags -> 0..MaxTime]
    /\ released \in Releases
    /\ createdAt \in [Tags -> 0..MaxTime]
    /\ prow \in [Series -> {None, "pushed", "pr"}]
    /\ blocker \in [Blockers -> [labelled : BOOLEAN, state : {"open", "fixed", "closed"},
                                 fixedAt : 0..MaxTime, closedAt : 0..MaxTime]]
    /\ pc \in {"idle", "verifyBranch", "mainBlockers", "verifyTag"} \cup Requesting \cup Branching \cup Tagging
    /\ run \in Runs
    /\ cache \in [releases : Releases \cup {None}, branches : SUBSET Branches,
                  blockers : [Branches -> (SUBSET Entries) \cup {None}]]
    /\ clone \in [present : BOOLEAN, main : 0..MaxTime, heads : [Series -> 0..MaxTime],
                  tags : [Tags -> 0..MaxTime]]
    /\ failures \in 0..setting.maxFailures
    /\ lateLabels \subseteq Blockers
    /\ error \in {None, "branchNotFound"}

\* What the steps of a run know of its data.
ControlInv ==
    /\ pc = "idle" => cache = EmptyCache /\ lateLabels = {}
    /\ pc \in Requesting => run.tagBranch = None
    /\ pc \in Branching \cup {"verifyBranch", "mainBlockers"} => run.newBranch \in Series
    /\ pc \in Tagging \cup {"verifyTag"} => run.tag \in Tags
    /\ pc \in {"createPR", "pushBranch", "pushTag"} => ~run.dryRun
    /\ pc \notin Requesting /\ run.promoteRC # None =>
          IsRC(run.promoteRC) /\ run.tag = <<run.promoteRC[1], Final>>
    /\ run.tagBranch # None => run.tag \in Tags /\ run.tagBranch = run.tag[1]
    /\ run.force => \E request \in setting.requests : request.force
    /\ run.skipProw => \E request \in setting.requests : request.skipProw

\* Official from the start is the release of series 0; a release has its tag.
GithubInv ==
    /\ head[Main] # 0 /\ \A b \in Branches : head[b] <= now
    /\ released[<<0, Final>>] = "full"
    /\ \A t \in Tags : released[t] # None => tags[t] # 0 /\ (setting.commitDated => createdAt[t] = tags[t])
    /\ \A b \in Blockers : /\ blocker[b].fixedAt <= now
                           /\ blocker[b].state = "closed" => blocker[b].fixedAt <= blocker[b].closedAt

\* Releases that are or were there.
Known(rel, there) ==
    rel \in Releases /\ rel[<<0, Final>>] = "full" /\ \A t \in Tags : rel[t] # None => there[t] # None

\* The blockers standing on a branch, those labelled since the run began aside.
Standing(branch, items, late, targetOf) ==
    {b \in Blockers : items[b].labelled /\ targetOf[b] = branch /\ b \notin late}

\* Entries that say what became of them.
Listed(entries, branch, items, late, targetOf) ==
    \A b \in Standing(branch, items, late, targetOf) :
        \/ \E e \in entries : e.open
        \/ /\ items[b].state = "closed"
           /\ branch # Main => \E e \in entries : ~e.open /\ e.closedAt = items[b].closedAt

\* None of them is left, or all of them were fixed by a commit.
Clear(branch, items, late, targetOf) ==
    \A b \in Standing(branch, items, late, targetOf) : items[b].state = "closed"
FixedBy(branch, commit, items, late, targetOf) ==
    \A b \in Standing(branch, items, late, targetOf) : items[b].state = "closed" /\ items[b].fixedAt <= commit

\* Only the run makes branches, so that what it read of them stays true.
CacheInv ==
    /\ cache.branches = {} \/ cache.branches = {b \in Branches : head[b] # 0}
    /\ pc = "judge" \/ cache.releases # None => Known(cache.releases, released)
    /\ \A b \in Branches : cache.blockers[b] # None =>
          Listed(cache.blockers[b], b, blocker, lateLabels, setting.targetOf)

\* The tags of a kept clone are those on GitHub, or not there.
CloneInv ==
    /\ clone.main <= now /\ \A s \in Series : clone.heads[s] <= now
    /\ \A t \in Tags : clone.tags[t] # 0 /\ tags[t] # 0 => clone.tags[t] = tags[t]
    /\ pc = "makeTag" => \A t \in Tags : tags[t] # 0 => clone.tags[t] = tags[t]
    /\ pc = "pushTag" => clone.tags[run.tag] # 0

\* The way to a branch: not there, not blocked, its jobs under review.
BranchInv ==
    /\ pc = "mainBlockers" => cache.branches # {}
    /\ pc \in Branching => /\ head[run.newBranch] = 0
                           /\ run.force \/ Clear(Main, blocker, lateLabels, setting.targetOf)
    /\ pc \in {"cloneForBranch", "makeBranch", "pushBranch"} /\ ~run.dryRun /\ ~run.skipProw =>
          prow[run.newBranch] = "pr"
    /\ BranchHasJobs

\* The way to a tag: not blocked, a promoted candidate valid.
TagInv ==
    /\ pc \in Tagging => run.tagBranch # None \/ tags[run.tag] # 0
    /\ pc \in Tagging \ {"tagBlockers"} /\ run.tagBranch # None =>
          run.force \/ Clear(run.tag[1], blocker, lateLabels, setting.targetOf)
    /\ pc \in Tagging /\ run.promoteRC # None /\ tags[run.tag] = 0 =>
          /\ tags[run.promoteRC] # 0
          /\ setting.commitDated /\ run.tag[1] # Main =>
                FixedBy(run.tag[1], tags[run.promoteRC], blocker, lateLabels, setting.targetOf)
    /\ pc = "pushTag" /\ run.promoteRC # None => clone.tags[run.tag] = tags[run.promoteRC]

\* People tag no candidates but the first.
FirstByHand == \A request \in setting.requests : request.tag # None => request.tag[2] <= 0

Previous(t) == <<t[1], t[2] - 1>>

\* The way to a candidate: its predecessor is there, with older code.
NumberInv ==
    FirstByHand =>
        /\ CandidatesAdvance
        /\ \A t \in Tags : IsRC(t) => tags[t] <= head[t[1]]
        /\ run.tag # None /\ run.tag[2] >= 1 => tags[Previous(run.tag)] # 0
        /\ pc \in Tagging /\ run.tag[2] = Final /\ tags[run.tag] = 0 => run.promoteRC # None \/ run.force
        /\ pc = "pushTag" /\ IsRC(run.tag) => /\ clone.tags[run.tag] <= head[run.tag[1]]
                                              /\ run.tag[2] >= 1 => tags[Previous(run.tag)] <= clone.tags[run.tag]

IInv == /\ TypeInv /\ ControlInv /\ GithubInv /\ CacheInv
        /\ CloneInv /\ BranchInv /\ TagInv /\ NumberInv

-----------------------------------------------------------------------------
LEMMA ConstantsAre ==
    /\ MaxSeries \in Nat /\ MaxRC \in Nat /\ MaxTime \in Nat /\ MaxTime >= 1 /\ LastEvent \in 0..MaxTime
    /\ Main \in Branches /\ Series \subseteq Branches /\ Main \notin Series
    /\ \A b \in Branches : b \in Nat /\ (b \in Series \/ b = Main)
    /\ \A b \in Branches : <<b, Final>> \in Tags
    /\ \A b \in Branches, n \in 0..MaxRC : <<b, n>> \in Tags /\ IsRC(<<b, n>>)
    /\ \A t \in Tags : t[1] \in Branches /\ t[2] \in Int /\ t = <<t[1], t[2]>> /\ (IsRC(t) => t[2] \in 0..MaxRC)
    /\ ~IsRC(<<0, Final>>) /\ \A s \in Branches : ~IsRC(<<s, Final>>)
    /\ None \notin Branches /\ None \notin Tags /\ None \notin Series
<1>1. /\ MaxSeries \in Nat /\ MaxRC \in Nat /\ MaxTime \in Nat /\ MaxTime >= 1 /\ LastEvent \in 0..MaxTime
  BY BoundsAssumption
<1>2. /\ Main \in Branches /\ Series \subseteq Branches /\ Main \notin Series
      /\ \A b \in Branches : b \in Nat /\ (b \in Series \/ b = Main)
  BY <1>1 DEF Main, Branches, Series
<1>3. /\ \A b \in Branches : <<b, Final>> \in Tags
      /\ \A b \in Branches, n \in 0..MaxRC : <<b, n>> \in Tags /\ IsRC(<<b, n>>)
  BY <1>1 DEF Tags, Final, Patch, IsRC
<1>4. \A t \in Tags : t[1] \in Branches /\ t[2] \in Int /\ t = <<t[1], t[2]>> /\ (IsRC(t) => t[2] \in 0..MaxRC)
  BY <1>1 DEF Tags, Patch, IsRC
<1>5. ~IsRC(<<0, Final>>) /\ \A s \in Branches : ~IsRC(<<s, Final>>)
  BY DEF IsRC, Final
<1>6. None \notin Branches /\ None \notin Tags /\ None \notin Series
  BY <1>2, NoneAssumption
<1>7. QED
  BY <1>1, <1>2, <1>3, <1>4, <1>5, <1>6

LEMMA SettingIs ==
    ASSUME TypeInv
    PROVE  /\ setting.requests \subseteq Requests /\ setting.cleanCache \in BOOLEAN /\ setting.commitDated \in BOOLEAN
           /\ setting.targetOf \in [Blockers -> Branches] /\ setting.maxFailures \in Nat
<1>1. setting \in Settings
  BY DEF TypeInv
<1>2. QED
  BY <1>1, SettingsAssumption

\* A finite set of numbers up to n has a greatest.
LEMMA GreatestExists ==
    ASSUME NEW n \in Nat, NEW T \in SUBSET (0..n), T # {}
    PROVE  \E t \in T : \A u \in T : u <= t
<1> DEFINE Greater(t) == {u \in T : u > t}
           all == {Greater(t) : t \in T}
<1>1. IsFiniteSet(T) /\ \A t \in T : t \in Nat
  <2>1. 0 \in Int /\ n \in Int
    OBVIOUS
  <2>2. IsFiniteSet(0..n)
    BY <2>1, FS_Interval
  <2>3. IsFiniteSet(T)
    BY <2>2, FS_Subset
  <2>4. QED
    BY <2>3
<1>2. \A t \in T : Greater(t) \in SUBSET T /\ IsFiniteSet(Greater(t))
  BY <1>1, FS_Subset
<1>3. all \subseteq FiniteSubsetsOf(T) /\ all # {}
  BY <1>2 DEF FiniteSubsetsOf
<1> HIDE DEF all
<1>4. PICK x \in all : \A y \in all : <<y, x>> \notin StrictSubsetOrdering(T)
  BY <1>1, <1>3, FS_StrictSubsetOrderingWellFounded, WFMin
<1> USE DEF all
<1>5. PICK t \in T : x = Greater(t)
  BY <1>4
<1>6. ASSUME NEW u \in T, u > t
      PROVE  FALSE
  <2>1. ASSUME NEW v \in T, v > u
        PROVE  v > t
    BY <1>1, <1>6, <2>1
  <2>2. Greater(u) \subseteq Greater(t) /\ u \in Greater(t) /\ u \notin Greater(u)
    <3>1. ~(u > u)
      BY <1>1
    <3>2. QED
      BY <1>6, <2>1, <3>1
  <2>3. Greater(u) \in all /\ Greater(u) \in SUBSET T /\ Greater(t) \in SUBSET T
    OBVIOUS
  <2>4. <<Greater(u), x>> \in StrictSubsetOrdering(T)
    BY <1>5, <2>2, <2>3 DEF StrictSubsetOrdering
  <2>5. QED
    BY <1>4, <2>3, <2>4
<1>7. \A u \in T : u <= t
  BY <1>1, <1>6
<1>8. QED
  BY <1>7

-----------------------------------------------------------------------------
\* What a run reads, cached or not, is known, exact and says what became of the blockers.
LEMMA ReleasesRead ==
    ASSUME IInv
    PROVE  Known(getReleases, released) /\ getReleases \in Releases
<1>1. Known(released, released)
  BY DEF IInv, TypeInv, GithubInv, Known
<1>2. QED
  BY <1>1 DEF IInv, CacheInv, getReleases, Known

LEMMA BranchesRead ==
    ASSUME IInv
    PROVE  /\ getBranches = {b \in Branches : head[b] # 0} /\ getBranches # {} /\ getBranches \in SUBSET Branches
<1>1. getBranches = {b \in Branches : head[b] # 0}
  BY DEF IInv, CacheInv, getBranches
<1>2. Main \in Branches /\ head[Main] # 0
  BY ConstantsAre DEF IInv, GithubInv
<1>3. QED
  BY <1>1, <1>2

LEMMA BlockersRead ==
    ASSUME IInv, NEW branch \in Branches
    PROVE  /\ getBlockers(branch) \in SUBSET Entries
           /\ Listed(getBlockers(branch), branch, blocker, lateLabels, setting.targetOf)
<1>1. CASE cache.blockers[branch] # None
  BY <1>1 DEF IInv, TypeInv, CacheInv, getBlockers
<1>2. CASE ~(cache.blockers[branch] # None)
  <2> DEFINE Entry(b) == [open |-> blocker[b].state # "closed", closedAt |-> blocker[b].closedAt]
             shown == {b \in Blockers : /\ blocker[b].labelled /\ setting.targetOf[b] = branch
                                        /\ branch = Main => blocker[b].state # "closed"}
  <2>1. getBlockers(branch) = {Entry(b) : b \in shown}
    BY <1>2 DEF getBlockers
  <2>2. \A b \in Blockers : Entry(b) \in Entries /\ Entry(b).closedAt = blocker[b].closedAt
                            /\ (Entry(b).open <=> blocker[b].state # "closed")
    BY DEF IInv, TypeInv, Entries
  <2>3. ASSUME NEW b \in Standing(branch, blocker, lateLabels, setting.targetOf)
        PROVE  \/ \E e \in getBlockers(branch) : e.open
               \/ /\ blocker[b].state = "closed"
                  /\ branch # Main => \E e \in getBlockers(branch) : ~e.open /\ e.closedAt = blocker[b].closedAt
    <3>1. b \in Blockers /\ blocker[b].labelled /\ setting.targetOf[b] = branch
      BY DEF Standing
    <3>2. CASE blocker[b].state # "closed"
      <4>1. b \in shown
        BY <3>1, <3>2
      <4>2. QED
        BY <2>1, <2>2, <3>2, <4>1
    <3>3. CASE blocker[b].state = "closed" /\ branch # Main
      <4>1. b \in shown
        BY <3>1, <3>3
      <4>2. QED
        BY <2>1, <2>2, <3>3, <4>1
    <3>4. QED
      BY <3>2, <3>3
  <2>4. getBlockers(branch) \in SUBSET Entries
    BY <2>1, <2>2
  <2>5. QED
    BY <2>3, <2>4 DEF Listed
<1>3. QED
  BY <1>1, <1>2

-----------------------------------------------------------------------------
\* The steps that leave GitHub and the clock alone; a clone no step invalidates.
GithubStays ==
    /\ setting' = setting /\ now' = now /\ head' = head /\ tags' = tags
    /\ released' = released /\ createdAt' = createdAt /\ prow' = prow /\ blocker' = blocker

Clones == [present : BOOLEAN, main : 0..MaxTime, heads : [Series -> 0..MaxTime],
           tags : [Tags -> 0..MaxTime]]

Sound(c) ==
    /\ c \in Clones
    /\ c.main <= now /\ \A s \in Series : c.heads[s] <= now
    /\ \A t \in Tags : c.tags[t] # 0 /\ tags[t] # 0 => c.tags[t] = tags[t]

LEMMA IdleIs ==
    /\ Idle \in Runs
    /\ Idle.newBranch = None /\ Idle.tag = None /\ Idle.promoteRC = None /\ Idle.tagBranch = None
    /\ ~Idle.force /\ ~Idle.skipProw /\ ~Idle.dryRun
    /\ EmptyCache \in [releases : Releases \cup {None}, branches : SUBSET Branches,
                       blockers : [Branches -> (SUBSET Entries) \cup {None}]]
    /\ EmptyCache.releases = None /\ EmptyCache.branches = {} /\ \A b \in Branches : EmptyCache.blockers[b] = None
BY ConstantsAre DEF Idle, Runs, EmptyCache

LEMMA CloneIsSound ==
    ASSUME IInv
    PROVE  Sound(clone)
BY DEF IInv, TypeInv, CloneInv, Sound, Clones

LEMMA StopIInv ==
    ASSUME IInv, GithubStays, Stop, Sound(clone'), failures' \in 0..setting.maxFailures,
           error' \in {None, "branchNotFound"}
    PROVE  IInv'
<1> USE IdleIs
<1>1. pc' = "idle" /\ run' = Idle /\ cache' = EmptyCache /\ lateLabels' = {}
  BY DEF Stop
<1>2. TypeInv'
  BY <1>1 DEF IInv, TypeInv, GithubStays, Sound, Clones
<1>3. ControlInv'
  BY <1>1 DEF ControlInv, Requesting, Branching, Tagging
<1>4. GithubInv'
  BY DEF IInv, GithubInv, GithubStays
<1>5. CacheInv'
  BY <1>1 DEF CacheInv
<1>6. CloneInv'
  BY <1>1 DEF CloneInv, GithubStays, Sound
<1>7. BranchInv'
  BY <1>1 DEF IInv, BranchInv, GithubStays, BranchHasJobs, Branching
<1>8. TagInv'
  BY <1>1 DEF TagInv, Tagging
<1>9. NumberInv'
  BY <1>1 DEF IInv, NumberInv, GithubStays, FirstByHand, CandidatesAdvance, Tagging
<1>10. QED
  BY <1>2, <1>3, <1>4, <1>5, <1>6, <1>7, <1>8, <1>9 DEF IInv

LEMMA FailIInv ==
    ASSUME IInv, Fail
    PROVE  IInv'
<1>1. GithubStays /\ clone' = clone /\ error' = error /\ Stop
  BY DEF Fail, github, GithubStays
<1>2. failures' \in 0..setting.maxFailures
  BY SettingIs DEF Fail, IInv, TypeInv
<1>3. error \in {None, "branchNotFound"}
  BY DEF IInv, TypeInv
<1>4. QED
  BY <1>1, <1>2, <1>3, CloneIsSound, StopIInv

LEMMA DetectIInv ==
    ASSUME IInv, Detect
    PROVE  IInv'
<1>1. /\ GithubStays /\ run' = run /\ clone' = clone /\ failures' = failures /\ lateLabels' = lateLabels
      /\ error' = error /\ pc = "detect" /\ pc' = "judge" /\ cache' = [cache EXCEPT !.releases = getReleases]
  BY DEF Detect, github, GithubStays
<1>2. TypeInv'
  BY <1>1, ReleasesRead DEF IInv, TypeInv, GithubStays, Requesting
<1>3. ControlInv'
  BY <1>1 DEF IInv, ControlInv, GithubStays, Requesting, Branching, Tagging
<1>4. GithubInv'
  BY <1>1 DEF IInv, GithubInv, GithubStays
<1>5. CacheInv'
  BY <1>1, ReleasesRead DEF IInv, TypeInv, CacheInv, GithubStays
<1>6. CloneInv'
  BY <1>1 DEF IInv, CloneInv, GithubStays
<1>7. BranchInv'
  BY <1>1 DEF IInv, BranchInv, GithubStays, BranchHasJobs, Branching
<1>8. TagInv'
  BY <1>1 DEF IInv, TagInv, GithubStays, Tagging
<1>9. NumberInv'
  BY <1>1 DEF IInv, NumberInv, GithubStays, FirstByHand, CandidatesAdvance, Tagging
<1>10. QED
  BY <1>2, <1>3, <1>4, <1>5, <1>6, <1>7, <1>8, <1>9 DEF IInv

\* Blockers read now are listed; none open leaves no blocker standing.
LEMMA CacheBlockersInv ==
    ASSUME IInv, GithubStays, lateLabels' = lateLabels, NEW branch \in Branches, CacheBlockers(branch)
    PROVE  /\ cache' \in [releases : Releases \cup {None}, branches : SUBSET Branches,
                          blockers : [Branches -> (SUBSET Entries) \cup {None}]]
           /\ cache'.branches = cache.branches
           /\ CacheInv'
<1>1. cache' = [cache EXCEPT !.releases = getReleases, !.blockers[branch] = getBlockers(branch)]
  BY DEF CacheBlockers, WithBlockers
<1>2. cache \in [releases : Releases \cup {None}, branches : SUBSET Branches,
                 blockers : [Branches -> (SUBSET Entries) \cup {None}]]
  BY DEF IInv, TypeInv
<1>3. /\ cache' \in [releases : Releases \cup {None}, branches : SUBSET Branches,
                     blockers : [Branches -> (SUBSET Entries) \cup {None}]]
      /\ cache'.releases = getReleases /\ cache'.branches = cache.branches
      /\ \A b \in Branches : cache'.blockers[b] = IF b = branch THEN getBlockers(branch) ELSE cache.blockers[b]
  BY <1>1, <1>2, ReleasesRead, BlockersRead
<1>4. CacheInv'
  BY <1>3, ReleasesRead, BlockersRead DEF IInv, CacheInv, GithubStays
<1>5. QED
  BY <1>3, <1>4

LEMMA Unblocked ==
    ASSUME IInv, NEW branch \in Branches, ~isBranchBlocked(branch)
    PROVE  run.force \/ Clear(branch, blocker, lateLabels, setting.targetOf)
BY BlockersRead DEF isBranchBlocked, Listed, Clear

LEMMA VerifyBranchIInv ==
    ASSUME IInv, VerifyBranch
    PROVE  IInv'
<1>1. /\ GithubStays /\ run' = run /\ clone' = clone /\ failures' = failures /\ lateLabels' = lateLabels
      /\ error' = error /\ pc = "verifyBranch" /\ pc' = "mainBlockers" /\ cache' = [cache EXCEPT !.branches = getBranches]
  BY DEF VerifyBranch, github, GithubStays
<1>2. TypeInv'
  BY <1>1, BranchesRead DEF IInv, TypeInv, GithubStays, Requesting
<1>3. ControlInv'
  BY <1>1 DEF IInv, ControlInv, GithubStays, Requesting, Branching, Tagging
<1>4. GithubInv'
  BY <1>1 DEF IInv, GithubInv, GithubStays
<1>5. CacheInv'
  BY <1>1, BranchesRead DEF IInv, TypeInv, CacheInv, GithubStays
<1>6. CloneInv'
  BY <1>1 DEF IInv, CloneInv, GithubStays
<1>7. BranchInv'
  BY <1>1, BranchesRead DEF IInv, TypeInv, BranchInv, GithubStays, BranchHasJobs, Branching
<1>8. TagInv'
  BY <1>1 DEF IInv, TagInv, GithubStays, Tagging
<1>9. NumberInv'
  BY <1>1 DEF IInv, NumberInv, GithubStays, FirstByHand, CandidatesAdvance, Tagging
<1>10. QED
  BY <1>2, <1>3, <1>4, <1>5, <1>6, <1>7, <1>8, <1>9 DEF IInv

LEMMA MainBlockersIInv ==
    ASSUME IInv, MainBlockers
    PROVE  IInv'
<1> DEFINE exists == run.newBranch \in cache.branches
           next == IF exists THEN TagPart(run)
                   ELSE IF run.skipProw THEN "cloneForBranch" ELSE "forkJobs"
<1>1. /\ GithubStays /\ clone' = clone /\ failures' = failures /\ error' = error /\ pc = "mainBlockers"
      /\ IF isBranchBlocked(Main) \/ next = "idle"
           THEN Stop
           ELSE CacheBlockers(Main) /\ pc' = next /\ run' = run /\ lateLabels' = lateLabels
  BY DEF MainBlockers, github, GithubStays
<1>2. failures' \in 0..setting.maxFailures /\ error' \in {None, "branchNotFound"}
  BY <1>1 DEF IInv, TypeInv
<1>3. CASE isBranchBlocked(Main) \/ next = "idle"
  BY <1>1, <1>2, <1>3, CloneIsSound, StopIInv
<1>4. CASE ~(isBranchBlocked(Main) \/ next = "idle")
  <2>1. CacheBlockers(Main) /\ pc' = next /\ run' = run /\ lateLabels' = lateLabels /\ Main \in Branches
    BY <1>1, <1>4, ConstantsAre
  <2>2. /\ cache' \in [releases : Releases \cup {None}, branches : SUBSET Branches,
                       blockers : [Branches -> (SUBSET Entries) \cup {None}]]
        /\ CacheInv'
    BY <1>1, <2>1, CacheBlockersInv
  <2>3. run.newBranch \in Series /\ run.newBranch \in Branches
    BY <1>1, ConstantsAre DEF IInv, ControlInv
  <2>4. /\ pc' \in {"verifyTag", "cloneForBranch", "forkJobs"}
        /\ pc' = "verifyTag" => run.tag # None /\ run.tag \in Tags
        /\ pc' = "cloneForBranch" => run.skipProw
        /\ pc' # "verifyTag" => head[run.newBranch] = 0
    <3>1. ~exists => head[run.newBranch] = 0
      BY <1>1, <2>3 DEF IInv, CacheInv, BranchInv
    <3>2. run.tag # None => run.tag \in Tags
      BY DEF IInv, TypeInv, Runs
    <3>3. QED
      BY <1>4, <2>1, <3>1, <3>2 DEF TagPart
  <2>5. run.force \/ Clear(Main, blocker, lateLabels, setting.targetOf)
    BY <1>4, <2>1, Unblocked
  <2> HIDE DEF exists, next
  <2>6. TypeInv'
    BY <1>1, <1>2, <2>1, <2>2, <2>4 DEF IInv, TypeInv, GithubStays, Branching
  <2>7. ControlInv'
    BY <1>1, <2>1, <2>3, <2>4 DEF IInv, ControlInv, GithubStays, Requesting, Branching, Tagging
  <2>8. GithubInv'
    BY <1>1 DEF IInv, GithubInv, GithubStays
  <2>9. CloneInv'
    BY <1>1, <2>4 DEF IInv, CloneInv, GithubStays
  <2>10. BranchInv'
    BY <1>1, <2>1, <2>4, <2>5 DEF IInv, BranchInv, GithubStays, BranchHasJobs, Branching
  <2>11. TagInv'
    BY <1>1, <2>4 DEF IInv, TagInv, GithubStays, Tagging
  <2>12. NumberInv'
    BY <1>1, <2>1, <2>4 DEF IInv, NumberInv, GithubStays, FirstByHand, CandidatesAdvance, Tagging
  <2>13. QED
    BY <2>2, <2>6, <2>7, <2>8, <2>9, <2>10, <2>11, <2>12 DEF IInv
<1>5. QED
  BY <1>3, <1>4

LEMMA ForkJobsIInv ==
    ASSUME IInv, ForkJobs
    PROVE  IInv'
<1>1. /\ setting' = setting /\ now' = now /\ head' = head /\ tags' = tags /\ released' = released
      /\ createdAt' = createdAt /\ blocker' = blocker /\ run' = run /\ cache' = cache /\ clone' = clone
      /\ failures' = failures /\ lateLabels' = lateLabels /\ error' = error /\ pc = "forkJobs"
      /\ pc' = IF run.dryRun THEN "cloneForBranch" ELSE "createPR"
      /\ prow' = IF run.dryRun \/ prow[run.newBranch] # None THEN prow
                 ELSE [prow EXCEPT ![run.newBranch] = "pushed"]
  BY DEF ForkJobs
<1>2. run.newBranch \in Series /\ head[run.newBranch] = 0
  BY <1>1 DEF IInv, ControlInv, BranchInv, Branching
<1>3. TypeInv'
  BY <1>1, <1>2 DEF IInv, TypeInv, Branching
<1>4. ControlInv'
  BY <1>1, <1>2 DEF IInv, ControlInv, Requesting, Branching, Tagging
<1>5. GithubInv'
  BY <1>1 DEF IInv, GithubInv
<1>6. CacheInv'
  BY <1>1 DEF IInv, CacheInv
<1>7. CloneInv'
  BY <1>1 DEF IInv, CloneInv
<1>8. BranchInv'
  <2>1. \A s \in Series : head[s] # 0 => prow'[s] = prow[s]
    BY <1>1, <1>2 DEF IInv, TypeInv
  <2>2. BranchHasJobs'
    BY <1>1, <2>1 DEF IInv, BranchInv, BranchHasJobs
  <2>3. QED
    BY <1>1, <2>2 DEF IInv, BranchInv, Branching
<1>9. TagInv'
  BY <1>1 DEF IInv, TagInv, Tagging
<1>10. NumberInv'
  BY <1>1 DEF IInv, NumberInv, FirstByHand, CandidatesAdvance, Tagging
<1>11. QED
  BY <1>3, <1>4, <1>5, <1>6, <1>7, <1>8, <1>9, <1>10 DEF IInv

LEMMA CreatePRIInv ==
    ASSUME IInv, CreatePR
    PROVE  IInv'
<1>1. /\ setting' = setting /\ now' = now /\ head' = head /\ tags' = tags /\ released' = released
      /\ createdAt' = createdAt /\ blocker' = blocker /\ run' = run /\ cache' = cache /\ clone' = clone
      /\ failures' = failures /\ lateLabels' = lateLabels /\ error' = error /\ pc = "createPR"
      /\ pc' = "cloneForBranch" /\ prow' = [prow EXCEPT ![run.newBranch] = "pr"]
  BY DEF CreatePR
<1>2. run.newBranch \in Series
  BY <1>1 DEF IInv, ControlInv, Branching
<1>3. TypeInv'
  BY <1>1, <1>2 DEF IInv, TypeInv, Branching
<1>4. ControlInv'
  BY <1>1, <1>2 DEF IInv, ControlInv, Requesting, Branching, Tagging
<1>5. GithubInv'
  BY <1>1 DEF IInv, GithubInv
<1>6. CacheInv'
  BY <1>1 DEF IInv, CacheInv
<1>7. CloneInv'
  BY <1>1 DEF IInv, CloneInv
<1>8. BranchInv'
  <2>1. prow'[run.newBranch] = "pr" /\ \A s \in Series : prow[s] = "pr" => prow'[s] = "pr"
    BY <1>1, <1>2 DEF IInv, TypeInv
  <2>2. BranchHasJobs'
    BY <1>1, <2>1 DEF IInv, BranchInv, BranchHasJobs
  <2>3. QED
    BY <1>1, <2>1, <2>2 DEF IInv, BranchInv, Branching
<1>9. TagInv'
  BY <1>1 DEF IInv, TagInv, Tagging
<1>10. NumberInv'
  BY <1>1 DEF IInv, NumberInv, FirstByHand, CandidatesAdvance, Tagging
<1>11. QED
  BY <1>3, <1>4, <1>5, <1>6, <1>7, <1>8, <1>9, <1>10 DEF IInv

\* A clone that is brought up to date has every tag there is.
LEMMA CheckoutIs ==
    ASSUME IInv, checkoutUpstream
    PROVE  /\ Sound(clone') /\ clone'.main = head[Main] /\ clone'.heads = clone.heads
           /\ \A t \in Tags : tags[t] # 0 => clone'.tags[t] = tags[t]
<1> DEFINE pulled == [t \in Tags |-> IF tags[t] # 0 THEN tags[t] ELSE clone.tags[t]]
<1>1. clone \in Clones
  BY CloneIsSound DEF Sound
<1>2. clone' = [clone EXCEPT !.present = TRUE, !.main = head[Main], !.tags = pulled]
  BY DEF checkoutUpstream
<1>3. pulled \in [Tags -> 0..MaxTime] /\ head[Main] \in 0..MaxTime /\ head[Main] <= now
  BY <1>1, ConstantsAre DEF IInv, TypeInv, GithubInv, Clones
<1> HIDE DEF pulled
<1>4. clone' \in Clones /\ clone'.main = head[Main] /\ clone'.heads = clone.heads /\ clone'.tags = pulled
  BY <1>1, <1>2, <1>3 DEF Clones
<1>5. \A t \in Tags : pulled[t] = IF tags[t] # 0 THEN tags[t] ELSE clone.tags[t]
  BY DEF pulled
<1>6. QED
  BY <1>3, <1>4, <1>5, CloneIsSound DEF Sound

LEMMA CloneForBranchIInv ==
    ASSUME IInv, CloneForBranch
    PROVE  IInv'
<1>1. /\ GithubStays /\ run' = run /\ cache' = cache /\ failures' = failures /\ lateLabels' = lateLabels
      /\ error' = error /\ pc = "cloneForBranch" /\ pc' = "makeBranch" /\ checkoutUpstream
  BY DEF CloneForBranch, github, GithubStays
<1>2. Sound(clone')
  BY <1>1, CheckoutIs
<1>3. TypeInv'
  BY <1>1, <1>2 DEF IInv, TypeInv, GithubStays, Branching, Sound, Clones
<1>4. ControlInv'
  BY <1>1 DEF IInv, ControlInv, GithubStays, Requesting, Branching, Tagging
<1>5. GithubInv'
  BY <1>1 DEF IInv, GithubInv, GithubStays
<1>6. CacheInv'
  BY <1>1 DEF IInv, CacheInv, GithubStays
<1>7. CloneInv'
  BY <1>1, <1>2 DEF CloneInv, GithubStays, Sound
<1>8. BranchInv'
  BY <1>1 DEF IInv, BranchInv, GithubStays, BranchHasJobs, Branching
<1>9. TagInv'
  BY <1>1 DEF IInv, TagInv, GithubStays, Tagging
<1>10. NumberInv'
  BY <1>1 DEF IInv, NumberInv, GithubStays, FirstByHand, CandidatesAdvance, Tagging
<1>11. QED
  BY <1>3, <1>4, <1>5, <1>6, <1>7, <1>8, <1>9, <1>10 DEF IInv

LEMMA TagPartIs ==
    ASSUME IInv
    PROVE  TagPart(run) = "idle" \/ (TagPart(run) = "verifyTag" /\ run.tag # None /\ run.tag \in Tags)
BY DEF IInv, TypeInv, Runs, TagPart

LEMMA MakeBranchIInv ==
    ASSUME IInv, MakeBranch
    PROVE  IInv'
<1> DEFINE next == IF run.dryRun THEN TagPart(run) ELSE "pushBranch"
<1>1. /\ GithubStays /\ failures' = failures /\ error' = error /\ pc = "makeBranch"
      /\ IF clone.heads[run.newBranch] # 0
           THEN Stop /\ clone' = clone
           ELSE clone' = [clone EXCEPT !.heads[run.newBranch] = clone.main] /\ Continue(next)
  BY DEF MakeBranch, github, GithubStays
<1>2. failures' \in 0..setting.maxFailures /\ error' \in {None, "branchNotFound"}
  BY <1>1 DEF IInv, TypeInv
<1>3. run.newBranch \in Series
  BY <1>1 DEF IInv, ControlInv, Branching
<1>4. Sound(clone')
  BY <1>1, <1>3, CloneIsSound DEF Sound, Clones
<1>5. CASE Stop
  BY <1>1, <1>2, <1>4, <1>5, StopIInv
<1>6. CASE ~Stop
  <2>1. /\ pc' = next /\ run' = run /\ cache' = cache /\ lateLabels' = lateLabels
        /\ pc' \in {"verifyTag", "pushBranch"}
        /\ pc' = "verifyTag" => run.tag # None /\ run.tag \in Tags
        /\ pc' = "pushBranch" => ~run.dryRun
    BY <1>1, <1>6, TagPartIs DEF Continue
  <2> HIDE DEF next
  <2>2. TypeInv'
    BY <1>1, <1>2, <1>4, <2>1 DEF IInv, TypeInv, GithubStays, Branching, Sound, Clones
  <2>3. ControlInv'
    BY <1>1, <1>3, <2>1 DEF IInv, ControlInv, GithubStays, Requesting, Branching, Tagging
  <2>4. GithubInv'
    BY <1>1 DEF IInv, GithubInv, GithubStays
  <2>5. CacheInv'
    BY <1>1, <2>1 DEF IInv, CacheInv, GithubStays
  <2>6. CloneInv'
    BY <1>1, <1>4, <2>1 DEF CloneInv, GithubStays, Sound
  <2>7. BranchInv'
    BY <1>1, <2>1 DEF IInv, BranchInv, GithubStays, BranchHasJobs, Branching
  <2>8. TagInv'
    BY <1>1, <2>1 DEF IInv, TagInv, GithubStays, Tagging
  <2>9. NumberInv'
    BY <1>1, <2>1 DEF IInv, NumberInv, GithubStays, FirstByHand, CandidatesAdvance, Tagging
  <2>10. QED
    BY <2>2, <2>3, <2>4, <2>5, <2>6, <2>7, <2>8, <2>9 DEF IInv
<1>7. QED
  BY <1>5, <1>6

\* The branch the run pushes was not there.
LEMMA PushBranchIInv ==
    ASSUME IInv, PushBranch
    PROVE  IInv'
<1>1. /\ setting' = setting /\ now' = now /\ tags' = tags /\ released' = released /\ prow' = prow
      /\ createdAt' = createdAt /\ blocker' = blocker /\ clone' = clone
      /\ failures' = failures /\ error' = error /\ pc = "pushBranch"
      /\ head' = [head EXCEPT ![run.newBranch] = clone.heads[run.newBranch]]
      /\ IF TagPart(run) = "idle" THEN Stop
           ELSE /\ pc' = TagPart(run) /\ cache' = [cache EXCEPT !.branches = {}]
                /\ run' = run /\ lateLabels' = lateLabels
  BY DEF PushBranch
<1>2. run.newBranch \in Series /\ run.newBranch # Main /\ run.newBranch \in Branches /\ Main \in Branches
  BY <1>1, ConstantsAre DEF IInv, ControlInv, Branching
<1>3. /\ head[run.newBranch] = 0
      /\ ~run.skipProw => prow[run.newBranch] = "pr"
  BY <1>1 DEF IInv, ControlInv, BranchInv, Branching
<1>4. /\ head' \in [Branches -> 0..MaxTime] /\ head'[Main] = head[Main]
      /\ head'[run.newBranch] = clone.heads[run.newBranch]
      /\ \A b \in Branches : b # run.newBranch => head'[b] = head[b]
      /\ \A b \in Branches : head[b] # 0 => head'[b] = head[b]
      /\ clone.heads[run.newBranch] \in 0..MaxTime /\ clone.heads[run.newBranch] <= now
  BY <1>1, <1>2, <1>3 DEF IInv, TypeInv, CloneInv
<1>6. /\ pc' \in {"idle", "verifyTag"}
      /\ pc' = "verifyTag" => run.tag # None /\ run.tag \in Tags
      /\ run' \in Runs
      /\ run' = run \/ (pc' = "idle" /\ run' = Idle)
      /\ pc' = "idle" => run' = Idle /\ cache' = EmptyCache /\ lateLabels' = {}
      /\ pc' = "verifyTag" => run' = run /\ cache' = [cache EXCEPT !.branches = {}] /\ lateLabels' = lateLabels
      /\ lateLabels' \subseteq Blockers
  BY <1>1, TagPartIs, IdleIs DEF Stop, IInv, TypeInv
<1>7. /\ cache' \in [releases : Releases \cup {None}, branches : SUBSET Branches,
                     blockers : [Branches -> (SUBSET Entries) \cup {None}]]
      /\ cache'.branches = {}
      /\ cache' = EmptyCache \/ (cache'.releases = cache.releases /\ cache'.blockers = cache.blockers)
  BY <1>6, IdleIs DEF IInv, TypeInv
<1>8. TypeInv'
  BY <1>1, <1>4, <1>6, <1>7 DEF IInv, TypeInv
<1>9. ControlInv'
  BY <1>1, <1>6, IdleIs DEF IInv, ControlInv, Requesting, Branching, Tagging
<1>10. GithubInv'
  BY <1>1, <1>4 DEF IInv, TypeInv, GithubInv
<1>11. CacheInv'
  <2>1. CASE pc' = "idle"
    BY <1>6, <2>1, IdleIs DEF CacheInv
  <2>2. CASE pc' = "verifyTag"
    <3>1. cache'.releases = cache.releases /\ cache'.blockers = cache.blockers
      BY <1>6, <2>2 DEF IInv, TypeInv
    <3>2. QED
      BY <1>1, <1>6, <1>7, <2>2, <3>1 DEF IInv, CacheInv
  <2>3. QED
    BY <1>6, <2>1, <2>2
<1>12. CloneInv'
  BY <1>1, <1>6 DEF IInv, CloneInv
<1>13. BranchInv'
  <2>1. BranchHasJobs'
    <3>1. SUFFICES ASSUME \A request \in setting.requests : ~request.skipProw, NEW s \in Series, head'[s] # 0
                   PROVE  prow[s] = "pr"
      BY <1>1 DEF BranchHasJobs
    <3>2. ~run.skipProw
      BY <3>1 DEF IInv, ControlInv
    <3>3. s \in Branches
      BY ConstantsAre
    <3>4. QED
      BY <1>3, <1>4, <3>1, <3>2, <3>3 DEF IInv, BranchInv, BranchHasJobs
  <2>2. QED
    BY <1>6, <2>1 DEF BranchInv, Branching
<1>14. TagInv'
  BY <1>6 DEF TagInv, Tagging
<1>15. NumberInv'
  <2>1. ASSUME FirstByHand, NEW t \in Tags, IsRC(t)
        PROVE  tags[t] <= head'[t[1]]
    <3>1. tags[t] <= head[t[1]] /\ t[1] \in Branches /\ tags[t] \in Nat /\ head[t[1]] \in Nat /\ head'[t[1]] \in Nat
      BY <1>4, <2>1, ConstantsAre DEF IInv, TypeInv, NumberInv
    <3>2. QED
      BY <1>4, <3>1
  <2>2. FirstByHand' => FirstByHand
    BY <1>1 DEF FirstByHand
  <2>3. CandidatesAdvance => CandidatesAdvance'
    BY <1>1 DEF CandidatesAdvance
  <2>4. run'.tag # None => run' = run
    BY <1>6, IdleIs
  <2>5. QED
    BY <1>1, <1>6, <2>1, <2>2, <2>3, <2>4 DEF IInv, NumberInv, Tagging
<1>16. QED
  BY <1>8, <1>9, <1>10, <1>11, <1>12, <1>13, <1>14, <1>15 DEF IInv

\* A candidate that is valid has every fix of the blockers closed on its branch.
LEMMA ValidIsFixed ==
    ASSUME IInv, NEW branch \in Series, NEW created \in 0..MaxTime, ~isRCInvalid(getBlockers(branch), created)
    PROVE  FixedBy(branch, created, blocker, lateLabels, setting.targetOf)
<1>1. branch \in Branches /\ branch # Main
  BY ConstantsAre
<1>2. SUFFICES ASSUME NEW b \in Standing(branch, blocker, lateLabels, setting.targetOf)
               PROVE  blocker[b].state = "closed" /\ blocker[b].fixedAt <= created
  BY DEF FixedBy
<1>3. b \in Blockers
  BY DEF Standing
<1>4. getBlockers(branch) \in SUBSET Entries /\ Listed(getBlockers(branch), branch, blocker, lateLabels, setting.targetOf)
  BY <1>1, BlockersRead
<1>5. \A e \in getBlockers(branch) : ~e.open /\ ~(~e.open /\ e.closedAt > created)
  BY DEF isRCInvalid, blocksNewRC
<1>6. PICK e \in getBlockers(branch) : blocker[b].state = "closed" /\ e.closedAt = blocker[b].closedAt
  BY <1>1, <1>4, <1>5 DEF Listed
<1>7. blocker[b].fixedAt <= blocker[b].closedAt
  BY <1>3, <1>6 DEF IInv, GithubInv
<1>8. e.closedAt \in Nat /\ blocker[b].fixedAt \in Nat /\ created \in Nat
  BY <1>3, <1>4, <1>6, ConstantsAre DEF IInv, TypeInv, Entries
<1>9. QED
  BY <1>5, <1>6, <1>7, <1>8

LEMMA VerifyTagIInv ==
    ASSUME IInv, VerifyTag
    PROVE  IInv'
<1> DEFINE rel == getReleases
           branch == IF run.tagBranch # None THEN run.tagBranch ELSE run.tag[1]
           promotion == run.promoteRC # None
           ineligible ==
               IF promotion
                 THEN \/ rel[run.promoteRC] = None
                      \/ isRCInvalid(getBlockers(branch), createdAt[run.promoteRC])
                 ELSE run.tag[2] = Final /\ ~run.force
           notFound == run.tagBranch = None /\ branch \notin getBranches
<1>1. /\ GithubStays /\ clone' = clone /\ failures' = failures /\ pc = "verifyTag"
      /\ IF rel[run.tag] # None
           THEN /\ pc' = "tagBlockers" /\ cache' = [cache EXCEPT !.releases = rel]
                /\ run' = run /\ lateLabels' = lateLabels /\ error' = error
         ELSE IF ineligible THEN Stop /\ error' = error
         ELSE IF notFound THEN Stop /\ error' = "branchNotFound"
         ELSE /\ pc' = "tagBlockers" /\ run' = [run EXCEPT !.tagBranch = branch]
              /\ cache' = [cache EXCEPT !.releases = rel, !.branches = getBranches,
                                        !.blockers[branch] = IF promotion THEN getBlockers(branch) ELSE @]
              /\ lateLabels' = lateLabels /\ error' = error
  BY DEF VerifyTag, github, GithubStays
<1>2. failures' \in 0..setting.maxFailures /\ error' \in {None, "branchNotFound"}
  BY <1>1 DEF IInv, TypeInv, Stop
<1>3. run.tag \in Tags /\ branch = run.tag[1] /\ branch \in Branches
  BY <1>1, ConstantsAre DEF IInv, ControlInv, Tagging
<1>4. Known(rel, released) /\ rel \in Releases
  BY ReleasesRead
<1> HIDE DEF rel, branch
<1>5. \A t \in Tags : rel[t] # None => tags[t] # 0
  BY <1>4 DEF Known, IInv, GithubInv
<1>6. CASE rel[run.tag] # None
  <2>1. /\ pc' = "tagBlockers" /\ cache' = [cache EXCEPT !.releases = rel]
        /\ run' = run /\ lateLabels' = lateLabels /\ error' = error /\ tags[run.tag] # 0
    BY <1>1, <1>3, <1>5, <1>6
  <2>2. TypeInv'
    BY <1>1, <1>4, <2>1 DEF IInv, TypeInv, GithubStays, Tagging
  <2>3. ControlInv'
    BY <1>1, <1>3, <2>1 DEF IInv, ControlInv, GithubStays, Requesting, Branching, Tagging
  <2>4. GithubInv'
    BY <1>1 DEF IInv, GithubInv, GithubStays
  <2>5. CacheInv'
    BY <1>1, <1>4, <2>1 DEF IInv, TypeInv, CacheInv, GithubStays
  <2>6. CloneInv'
    BY <1>1, <2>1 DEF IInv, CloneInv, GithubStays
  <2>7. BranchInv'
    BY <1>1, <2>1 DEF IInv, BranchInv, GithubStays, BranchHasJobs, Branching
  <2>8. TagInv'
    BY <1>1, <2>1 DEF TagInv, GithubStays, Tagging
  <2>9. NumberInv'
    BY <1>1, <2>1 DEF IInv, NumberInv, GithubStays, FirstByHand, CandidatesAdvance, Tagging
  <2>10. QED
    BY <2>2, <2>3, <2>4, <2>5, <2>6, <2>7, <2>8, <2>9 DEF IInv
<1>7. CASE rel[run.tag] = None /\ (ineligible \/ notFound)
  <2>1. Stop
    BY <1>1, <1>7
  <2>2. QED
    BY <1>1, <1>2, <2>1, CloneIsSound, StopIInv
<1>8. CASE rel[run.tag] = None /\ ~ineligible /\ ~notFound
  <2>1. /\ pc' = "tagBlockers" /\ run' = [run EXCEPT !.tagBranch = branch]
        /\ cache' = [cache EXCEPT !.releases = rel, !.branches = getBranches,
                                  !.blockers[branch] = IF promotion THEN getBlockers(branch) ELSE @]
        /\ lateLabels' = lateLabels /\ error' = error
    BY <1>1, <1>8
  <2>2. /\ run' \in Runs /\ run'.newBranch = run.newBranch /\ run'.tag = run.tag /\ run'.promoteRC = run.promoteRC
        /\ run'.force = run.force /\ run'.skipProw = run.skipProw /\ run'.dryRun = run.dryRun /\ run'.tagBranch = branch
    BY <1>3, <2>1 DEF IInv, TypeInv, Runs
  <2>3. /\ cache' \in [releases : Releases \cup {None}, branches : SUBSET Branches,
                       blockers : [Branches -> (SUBSET Entries) \cup {None}]]
        /\ cache'.releases = rel /\ cache'.branches = getBranches
        /\ \A b \in Branches : \/ cache'.blockers[b] = cache.blockers[b]
                               \/ b = branch /\ cache'.blockers[b] = getBlockers(branch)
    <3>1. cache \in [releases : Releases \cup {None}, branches : SUBSET Branches,
                     blockers : [Branches -> (SUBSET Entries) \cup {None}]]
      BY DEF IInv, TypeInv
    <3>2. getBlockers(branch) \in SUBSET Entries /\ getBranches \in SUBSET Branches
      BY <1>3, BlockersRead, BranchesRead
    <3>3. QED
      BY <1>3, <1>4, <2>1, <3>1, <3>2
  <2>4. promotion => /\ run.promoteRC \in Tags /\ rel[run.promoteRC] # None
                     /\ ~isRCInvalid(getBlockers(branch), createdAt[run.promoteRC])
    BY <1>8 DEF IInv, TypeInv, Runs
  <2>5. ~promotion => run.tag[2] # Final \/ run.force
    BY <1>8
  <2> HIDE DEF promotion, ineligible, notFound
  <2>6. TypeInv'
    BY <1>1, <2>1, <2>2, <2>3 DEF IInv, TypeInv, GithubStays, Tagging
  <2>7. ControlInv'
    BY <1>1, <1>3, <2>1, <2>2, ConstantsAre DEF IInv, ControlInv, GithubStays, Requesting, Branching, Tagging
  <2>8. GithubInv'
    BY <1>1 DEF IInv, GithubInv, GithubStays
  <2>9. CacheInv'
    <3>1. getBranches = {b \in Branches : head[b] # 0}
      BY BranchesRead
    <3>2. Listed(getBlockers(branch), branch, blocker, lateLabels, setting.targetOf)
      BY <1>3, BlockersRead
    <3>3. \A b \in Branches : cache'.blockers[b] # None =>
             Listed(cache'.blockers[b], b, blocker, lateLabels, setting.targetOf)
      BY <2>3, <3>2 DEF IInv, CacheInv
    <3>4. QED
      BY <1>1, <1>4, <2>1, <2>3, <3>1, <3>3 DEF CacheInv, GithubStays
  <2>10. CloneInv'
    BY <1>1, <2>1 DEF IInv, CloneInv, GithubStays
  <2>11. BranchInv'
    BY <1>1, <2>1 DEF IInv, BranchInv, GithubStays, BranchHasJobs, Branching
  <2>12. promotion => /\ tags[run.promoteRC] # 0
                      /\ setting.commitDated /\ run.tag[1] # Main =>
                            FixedBy(run.tag[1], tags[run.promoteRC], blocker, lateLabels, setting.targetOf)
    <3>1. promotion => tags[run.promoteRC] # 0
      BY <1>5, <2>4
    <3>2. ASSUME promotion, setting.commitDated, run.tag[1] # Main
          PROVE  FixedBy(run.tag[1], tags[run.promoteRC], blocker, lateLabels, setting.targetOf)
      <4>1. released[run.promoteRC] # None
        BY <1>4, <2>4, <3>2 DEF Known
      <4>2. createdAt[run.promoteRC] = tags[run.promoteRC] /\ tags[run.promoteRC] \in 0..MaxTime
        BY <2>4, <3>2, <4>1 DEF IInv, TypeInv, GithubInv
      <4>3. branch \in Series
        BY <1>3, <3>2, ConstantsAre
      <4>4. QED
        BY <1>3, <2>4, <3>2, <4>2, <4>3, ValidIsFixed
    <3>3. QED
      BY <3>1, <3>2
  <2>13. TagInv'
    BY <1>1, <1>3, <2>1, <2>2, <2>12, ConstantsAre DEF TagInv, GithubStays, Tagging, promotion
  <2>14. NumberInv'
    BY <1>1, <2>1, <2>2, <2>5 DEF IInv, NumberInv, GithubStays, FirstByHand, CandidatesAdvance, Tagging, promotion
  <2>15. QED
    BY <2>6, <2>7, <2>8, <2>9, <2>10, <2>11, <2>13, <2>14 DEF IInv
<1>9. QED
  BY <1>6, <1>7, <1>8

LEMMA TagBlockersIInv ==
    ASSUME IInv, TagBlockers
    PROVE  IInv'
<1>1. /\ GithubStays /\ clone' = clone /\ failures' = failures /\ error' = error /\ pc = "tagBlockers"
      /\ IF run.tagBranch # None /\ isBranchBlocked(run.tagBranch)
           THEN Stop
           ELSE /\ IF run.tagBranch = None THEN cache' = cache ELSE CacheBlockers(run.tagBranch)
                /\ pc' = "cloneForTag" /\ run' = run /\ lateLabels' = lateLabels
  BY DEF TagBlockers, github, GithubStays
<1>2. failures' \in 0..setting.maxFailures /\ error' \in {None, "branchNotFound"}
  BY <1>1 DEF IInv, TypeInv
<1>3. CASE run.tagBranch # None /\ isBranchBlocked(run.tagBranch)
  BY <1>1, <1>2, <1>3, CloneIsSound, StopIInv
<1>4. CASE ~(run.tagBranch # None /\ isBranchBlocked(run.tagBranch))
  <2>1. /\ IF run.tagBranch = None THEN cache' = cache ELSE CacheBlockers(run.tagBranch)
        /\ pc' = "cloneForTag" /\ run' = run /\ lateLabels' = lateLabels
    BY <1>1, <1>4
  <2>2. run.tagBranch # None => run.tagBranch \in Branches /\ run.tagBranch = run.tag[1]
    BY DEF IInv, TypeInv, Runs, ControlInv
  <2>3. /\ cache' \in [releases : Releases \cup {None}, branches : SUBSET Branches,
                       blockers : [Branches -> (SUBSET Entries) \cup {None}]]
        /\ CacheInv'
    <3>1. CASE run.tagBranch = None
      BY <1>1, <2>1, <3>1 DEF IInv, TypeInv, CacheInv, GithubStays
    <3>2. CASE run.tagBranch # None
      BY <1>1, <2>1, <2>2, <3>2, CacheBlockersInv
    <3>3. QED
      BY <3>1, <3>2
  <2>4. run.tagBranch # None => run.force \/ Clear(run.tag[1], blocker, lateLabels, setting.targetOf)
    BY <1>4, <2>2, Unblocked
  <2>5. TypeInv'
    BY <1>1, <2>1, <2>3 DEF IInv, TypeInv, GithubStays, Tagging
  <2>6. ControlInv'
    BY <1>1, <2>1 DEF IInv, ControlInv, GithubStays, Requesting, Branching, Tagging
  <2>7. GithubInv'
    BY <1>1 DEF IInv, GithubInv, GithubStays
  <2>8. CloneInv'
    BY <1>1, <2>1 DEF IInv, CloneInv, GithubStays
  <2>9. BranchInv'
    BY <1>1, <2>1 DEF IInv, BranchInv, GithubStays, BranchHasJobs, Branching
  <2>10. TagInv'
    BY <1>1, <2>1, <2>4 DEF IInv, TagInv, GithubStays, Tagging
  <2>11. NumberInv'
    BY <1>1, <2>1 DEF IInv, NumberInv, GithubStays, FirstByHand, CandidatesAdvance, Tagging
  <2>12. QED
    BY <2>3, <2>5, <2>6, <2>7, <2>8, <2>9, <2>10, <2>11 DEF IInv
<1>5. QED
  BY <1>3, <1>4

LEMMA CloneForTagIInv ==
    ASSUME IInv, CloneForTag
    PROVE  IInv'
<1>1. /\ GithubStays /\ run' = run /\ cache' = cache /\ failures' = failures /\ lateLabels' = lateLabels
      /\ error' = error /\ pc = "cloneForTag" /\ pc' = "makeTag" /\ checkoutUpstream
  BY DEF CloneForTag, github, GithubStays
<1>2. Sound(clone') /\ \A t \in Tags : tags[t] # 0 => clone'.tags[t] = tags[t]
  BY <1>1, CheckoutIs
<1>3. TypeInv'
  BY <1>1, <1>2 DEF IInv, TypeInv, GithubStays, Tagging, Sound, Clones
<1>4. ControlInv'
  BY <1>1 DEF IInv, ControlInv, GithubStays, Requesting, Branching, Tagging
<1>5. GithubInv'
  BY <1>1 DEF IInv, GithubInv, GithubStays
<1>6. CacheInv'
  BY <1>1 DEF IInv, CacheInv, GithubStays
<1>7. CloneInv'
  BY <1>1, <1>2 DEF CloneInv, GithubStays, Sound
<1>8. BranchInv'
  BY <1>1 DEF IInv, BranchInv, GithubStays, BranchHasJobs, Branching
<1>9. TagInv'
  BY <1>1 DEF IInv, TagInv, GithubStays, Tagging
<1>10. NumberInv'
  BY <1>1 DEF IInv, NumberInv, GithubStays, FirstByHand, CandidatesAdvance, Tagging
<1>11. QED
  BY <1>3, <1>4, <1>5, <1>6, <1>7, <1>8, <1>9, <1>10 DEF IInv

LEMMA PreviousIs ==
    ASSUME NEW t \in Tags, t[2] >= 1
    PROVE  /\ IsRC(t) /\ t[1] \in Branches /\ t[2] \in 1..MaxRC
           /\ Previous(t) \in Tags /\ IsRC(Previous(t)) /\ Previous(t)[1] = t[1] /\ Previous(t) # t
<1>1. t[2] \in Int /\ t = <<t[1], t[2]>> /\ t[1] \in Branches /\ MaxRC \in Nat
  BY ConstantsAre
<1>2. IsRC(t)
  BY <1>1 DEF IsRC
<1>3. t[2] \in 0..MaxRC /\ t[2] \in 1..MaxRC /\ t[2] - 1 \in 0..MaxRC /\ t[2] - 1 # t[2]
  BY <1>1, <1>2, ConstantsAre
<1>4. Previous(t) \in Tags /\ IsRC(Previous(t))
  BY <1>1, <1>3, ConstantsAre DEF Previous
<1>5. Previous(t)[1] = t[1] /\ Previous(t)[2] = t[2] - 1
  BY DEF Previous
<1>6. QED
  BY <1>1, <1>2, <1>3, <1>4, <1>5

\* The commit that gets the tag: the candidate's, or the newest of the branch.
LEMMA MakeTagIInv ==
    ASSUME IInv, MakeTag
    PROVE  IInv'
<1> DEFINE next == IF run.dryRun THEN "idle" ELSE "pushTag"
<1>1. /\ GithubStays /\ failures' = failures /\ error' = error /\ pc = "makeTag"
      /\ IF TaggedCommit = 0 \/ clone.tags[run.tag] # 0
           THEN Stop /\ clone' = clone
           ELSE clone' = [clone EXCEPT !.tags[run.tag] = TaggedCommit] /\ Continue(next)
  BY DEF MakeTag, github, GithubStays
<1>2. failures' \in 0..setting.maxFailures /\ error' \in {None, "branchNotFound"}
  BY <1>1 DEF IInv, TypeInv
<1>3. run.tag \in Tags
  BY <1>1 DEF IInv, ControlInv, Tagging
<1>4. CASE TaggedCommit = 0 \/ clone.tags[run.tag] # 0
  BY <1>1, <1>2, <1>4, CloneIsSound, StopIInv
<1>5. CASE ~(TaggedCommit = 0 \/ clone.tags[run.tag] # 0)
  <2>1. /\ clone' = [clone EXCEPT !.tags[run.tag] = TaggedCommit] /\ Continue(next)
        /\ TaggedCommit # 0 /\ clone.tags[run.tag] = 0
    BY <1>1, <1>5
  <2>2. TaggedCommit \in 0..MaxTime
    <3>1. run.promoteRC # None => run.promoteRC \in Tags
      BY DEF IInv, TypeInv, Runs
    <3>2. run.tagBranch # None => run.tagBranch \in Branches
      BY DEF IInv, TypeInv, Runs
    <3>3. 0 \in 0..MaxTime
      BY ConstantsAre
    <3>4. QED
      BY <3>1, <3>2, <3>3 DEF IInv, TypeInv, TaggedCommit
  <2>3. /\ clone' \in Clones /\ clone'.main = clone.main /\ clone'.heads = clone.heads
        /\ clone'.tags[run.tag] = TaggedCommit
        /\ \A t \in Tags : t # run.tag => clone'.tags[t] = clone.tags[t]
    BY <1>3, <2>1, <2>2, CloneIsSound DEF Sound, Clones
  <2>4. tags[run.tag] = 0
    BY <1>1, <1>3, <2>1 DEF IInv, CloneInv
  <2>5. Sound(clone')
    BY <2>3, <2>4, CloneIsSound DEF Sound
  <2>6. CASE run.dryRun
    <3>1. Stop
      BY <2>1, <2>6 DEF Continue
    <3>2. QED
      BY <1>1, <1>2, <2>5, <3>1, StopIInv
  <2>7. CASE ~run.dryRun
    <3>1. pc' = "pushTag" /\ run' = run /\ cache' = cache /\ lateLabels' = lateLabels
      BY <2>1, <2>7 DEF Continue
    <3> HIDE DEF next
    <3>2. TypeInv'
      BY <1>1, <1>2, <2>3, <3>1 DEF IInv, TypeInv, GithubStays, Tagging, Clones
    <3>3. ControlInv'
      BY <1>1, <1>3, <2>7, <3>1 DEF IInv, ControlInv, GithubStays, Requesting, Branching, Tagging
    <3>4. GithubInv'
      BY <1>1 DEF IInv, GithubInv, GithubStays
    <3>5. CacheInv'
      BY <1>1, <3>1 DEF IInv, CacheInv, GithubStays
    <3>6. CloneInv'
      BY <1>1, <2>1, <2>3, <2>5, <3>1 DEF CloneInv, GithubStays, Sound
    <3>7. BranchInv'
      BY <1>1, <3>1 DEF IInv, BranchInv, GithubStays, BranchHasJobs, Branching
    <3>8. run.promoteRC # None => clone'.tags[run.tag] = tags[run.promoteRC]
      <4>1. SUFFICES ASSUME run.promoteRC # None
                     PROVE  clone.tags[run.promoteRC] = tags[run.promoteRC] /\ TaggedCommit = clone.tags[run.promoteRC]
        BY <2>3
      <4>2. tags[run.promoteRC] # 0 /\ run.promoteRC \in Tags
        BY <1>1, <2>4, <4>1 DEF IInv, TypeInv, Runs, TagInv, Tagging
      <4>3. QED
        BY <1>1, <4>1, <4>2 DEF IInv, CloneInv, TaggedCommit
    <3>9. TagInv'
      BY <1>1, <3>1, <3>8 DEF IInv, TagInv, GithubStays, Tagging
    <3>10. ASSUME FirstByHand, IsRC(run.tag)
           PROVE  /\ clone'.tags[run.tag] <= head[run.tag[1]]
                  /\ run.tag[2] >= 1 => tags[Previous(run.tag)] <= clone'.tags[run.tag]
      <4>1. run.promoteRC = None
        <5>1. SUFFICES ASSUME run.promoteRC # None
                       PROVE  FALSE
          OBVIOUS
        <5>2. run.promoteRC \in Tags /\ run.tag = <<run.promoteRC[1], Final>>
          BY <1>1, <5>1 DEF IInv, TypeInv, Runs, ControlInv, Requesting
        <5>3. ~IsRC(run.tag)
          BY <5>2 DEF IsRC, Final
        <5>4. QED
          BY <3>10, <5>3
      <4>2. clone'.tags[run.tag] = head[run.tag[1]]
        BY <2>1, <2>3, <4>1 DEF IInv, ControlInv, TaggedCommit
      <4>3. run.tag[1] \in Branches /\ head[run.tag[1]] \in Nat
        BY <1>3, ConstantsAre DEF IInv, TypeInv
      <4>4. ASSUME run.tag[2] >= 1
            PROVE  tags[Previous(run.tag)] <= head[run.tag[1]]
        <5>1. Previous(run.tag) \in Tags /\ IsRC(Previous(run.tag)) /\ Previous(run.tag)[1] = run.tag[1]
          BY <1>3, <4>4, PreviousIs
        <5>2. QED
          BY <3>10, <5>1 DEF IInv, NumberInv
      <4>5. QED
        BY <4>2, <4>3, <4>4
    <3>11. NumberInv'
      BY <1>1, <3>1, <3>10 DEF IInv, NumberInv, GithubStays, FirstByHand, CandidatesAdvance, Tagging
    <3>12. QED
      BY <3>2, <3>3, <3>4, <3>5, <3>6, <3>7, <3>9, <3>11 DEF IInv
  <2>8. QED
    BY <2>6, <2>7
<1>6. QED
  BY <1>4, <1>5

\* A tag is pushed once; a series' release is its candidate's commit.
LEMMA PushTagIInv ==
    ASSUME IInv, PushTag
    PROVE  IInv'
<1> DEFINE pushed == clone.tags[run.tag]
<1>1. /\ setting' = setting /\ now' = now /\ head' = head /\ released' = released /\ prow' = prow
      /\ createdAt' = createdAt /\ blocker' = blocker /\ clone' = clone
      /\ failures' = failures /\ error' = error /\ pc = "pushTag"
      /\ tags' = [tags EXCEPT ![run.tag] = pushed] /\ Stop
  BY DEF PushTag
<1>2. pc' = "idle" /\ run' = Idle /\ cache' = EmptyCache /\ lateLabels' = {}
  BY <1>1 DEF Stop
<1>3. run.tag \in Tags /\ pushed \in 0..MaxTime /\ pushed # 0
  BY <1>1 DEF IInv, ControlInv, Tagging, TypeInv, CloneInv
<1>4. tags[run.tag] # 0 => tags[run.tag] = pushed
  BY <1>3 DEF IInv, CloneInv
<1>5. /\ tags' \in [Tags -> 0..MaxTime] /\ tags'[run.tag] = pushed
      /\ \A t \in Tags : t # run.tag => tags'[t] = tags[t]
      /\ \A t \in Tags : tags[t] # 0 => tags'[t] = tags[t]
  BY <1>1, <1>3, <1>4 DEF IInv, TypeInv
<1>6. TypeInv'
  BY <1>1, <1>2, <1>5, IdleIs DEF IInv, TypeInv
<1>7. ControlInv'
  BY <1>2, IdleIs DEF ControlInv, Requesting, Branching, Tagging
<1>8. GithubInv'
  BY <1>1, <1>5 DEF IInv, GithubInv
<1>9. CacheInv'
  BY <1>2, IdleIs DEF CacheInv
<1>10. CloneInv'
  <2>1. \A t \in Tags : clone.tags[t] # 0 /\ tags'[t] # 0 => clone.tags[t] = tags'[t]
    BY <1>3, <1>5 DEF IInv, CloneInv
  <2>2. QED
    BY <1>1, <1>2, <2>1 DEF IInv, CloneInv
<1>11. BranchInv'
  BY <1>1, <1>2 DEF IInv, BranchInv, BranchHasJobs, Branching
<1>12. TagInv'
  BY <1>2 DEF TagInv, Tagging
<1>13. ASSUME FirstByHand
       PROVE  CandidatesAdvance' /\ \A t \in Tags : IsRC(t) => tags'[t] <= head[t[1]]
  <2>1. \A t \in Tags : IsRC(t) => tags'[t] <= head[t[1]]
    BY <1>1, <1>3, <1>5, <1>13 DEF IInv, NumberInv
  <2>2. ASSUME NEW s \in Series, NEW n \in 1..MaxRC, tags'[<<s, n>>] # 0
        PROVE  tags'[<<s, n - 1>>] # 0 /\ tags'[<<s, n - 1>>] <= tags'[<<s, n>>]
    <3> DEFINE t == <<s, n>>
    <3>1. t \in Tags /\ t[2] >= 1 /\ Previous(t) = <<s, n - 1>> /\ t[1] = s /\ t[2] = n
      <4>1. s \in Branches /\ n \in 0..MaxRC /\ n >= 1
        BY ConstantsAre
      <4>2. QED
        BY <4>1, ConstantsAre DEF Previous
    <3>2. Previous(t) \in Tags /\ IsRC(t) /\ Previous(t) # t
      BY <3>1, PreviousIs
    <3>3. CASE tags[t] # 0
      <4>1. tags[<<s, n - 1>>] # 0 /\ tags[<<s, n - 1>>] <= tags[<<s, n>>]
        BY <1>13, <3>3 DEF IInv, NumberInv, CandidatesAdvance
      <4>2. QED
        BY <1>5, <3>1, <3>2, <3>3, <4>1
    <3>4. CASE tags[t] = 0
      <4>1. t = run.tag
        BY <1>5, <2>2, <3>1, <3>4
      <4>2. tags[Previous(t)] # 0 /\ tags[Previous(t)] <= pushed
        BY <1>1, <1>13, <3>1, <3>2, <4>1, ConstantsAre DEF IInv, NumberInv
      <4>3. QED
        BY <1>5, <3>1, <3>2, <4>1, <4>2
    <3>5. QED
      BY <3>3, <3>4
  <2>3. ASSUME \A request \in setting.requests : ~request.force, NEW s \in Series, tags'[<<s, Final>>] # 0
        PROVE  \E n \in 0..MaxRC : tags'[<<s, n>>] = tags'[<<s, Final>>]
    <3> DEFINE t == <<s, Final>>
    <3>1. t \in Tags /\ s \in Branches /\ \A n \in 0..MaxRC : <<s, n>> \in Tags
      BY ConstantsAre
    <3>2. CASE tags[t] # 0
      <4>1. PICK n \in 0..MaxRC : tags[<<s, n>>] = tags[t]
        BY <1>13, <2>3, <3>2 DEF IInv, NumberInv, CandidatesAdvance
      <4>2. tags'[<<s, n>>] = tags[<<s, n>>] /\ tags'[t] = tags[t]
        BY <1>5, <3>1, <3>2, <4>1
      <4>3. QED
        BY <4>1, <4>2
    <3>3. CASE tags[t] = 0
      <4>1. t = run.tag /\ t[2] = Final /\ t[1] = s
        BY <1>5, <2>3, <3>1, <3>3
      <4>2. run.promoteRC # None
        BY <1>1, <1>13, <2>3, <3>3, <4>1 DEF IInv, NumberInv, ControlInv, Tagging
      <4>3. /\ run.promoteRC \in Tags /\ IsRC(run.promoteRC) /\ t = <<run.promoteRC[1], Final>>
            /\ pushed = tags[run.promoteRC]
        BY <1>1, <4>1, <4>2 DEF IInv, TypeInv, Runs, ControlInv, TagInv, Requesting
      <4>4. run.promoteRC[1] = s /\ run.promoteRC[2] \in 0..MaxRC /\ run.promoteRC = <<s, run.promoteRC[2]>>
        BY <4>3, ConstantsAre
      <4>5. tags'[run.promoteRC] = tags[run.promoteRC] /\ tags'[t] = pushed
        BY <1>3, <1>5, <4>1, <4>3
      <4>6. QED
        BY <4>3, <4>4, <4>5
    <3>4. QED
      BY <3>2, <3>3
  <2>4. QED
    BY <1>1, <2>1, <2>2, <2>3 DEF CandidatesAdvance
<1>14. NumberInv'
  BY <1>1, <1>2, <1>13, IdleIs DEF NumberInv, FirstByHand, Tagging
<1>15. QED
  BY <1>6, <1>7, <1>8, <1>9, <1>10, <1>11, <1>12, <1>14 DEF IInv

-----------------------------------------------------------------------------
\* There is a current minor release, and a promotion candidate is the last one published.
LEMMA CurrentMinorIs ==
    ASSUME NEW rel \in Releases, rel[<<0, Final>>] = "full"
    PROVE  currentMinor(rel) \in Branches
<1> DEFINE minors == {s \in Branches : rel[<<s, Final>>] = "full"}
<1>1. MaxSeries \in Nat /\ 0 \in minors /\ minors \in SUBSET (0..MaxSeries)
  BY ConstantsAre DEF Branches, Main
<1>2. PICK s \in minors : \A other \in minors : other <= s
  BY <1>1, GreatestExists
<1>3. s \in Branches /\ rel[<<s, Final>>] = "full" /\ \A other \in Branches : rel[<<other, Final>>] = "full" => other <= s
  BY <1>2
<1>4. QED
  BY <1>3 DEF currentMinor

LEMMA CandidateIs ==
    ASSUME NEW rel \in Releases, NEW s \in Branches, rcPromotionCandidate(rel, s) # None
    PROVE  LET rc == rcPromotionCandidate(rel, s)
           IN  rc \in Tags /\ IsRC(rc) /\ rc[1] = s /\ rc[2] \in 0..MaxRC /\ rel[rc] # None
<1> DEFINE rcs == {n \in 0..MaxRC : rel[<<s, n>>] # None}
           last == CHOOSE n \in rcs : \A m \in rcs : m <= n
<1>1. rcs # {} /\ rcPromotionCandidate(rel, s) = <<s, last>>
  BY DEF rcPromotionCandidate
<1>2. \E n \in rcs : \A m \in rcs : m <= n
  BY <1>1, ConstantsAre, GreatestExists
<1>3. last \in rcs
  BY <1>2
<1>4. last \in 0..MaxRC /\ rel[<<s, last>>] # None
  BY <1>3
<1> HIDE DEF last
<1>5. <<s, last>> \in Tags /\ IsRC(<<s, last>>) /\ <<s, last>>[1] = s /\ <<s, last>>[2] = last
  BY <1>4, ConstantsAre
<1>6. QED
  BY <1>1, <1>4, <1>5

LEMMA BranchPartIs ==
    ASSUME NEW d \in Runs
    PROVE  \/ BranchPart(d) = "idle"
           \/ BranchPart(d) = "verifyBranch" /\ d.newBranch \in Series
           \/ BranchPart(d) = "verifyTag" /\ d.tag \in Tags
BY DEF Runs, BranchPart

\* verifyPromoteRC leaves the data alone, or sets the tag of a promotion.
Promotes(d, tag) ==
    \/ d.promoteRC = None /\ d.tag = tag
    \/ d.promoteRC # None /\ IsRC(d.promoteRC) /\ d.tag = <<d.promoteRC[1], Final>>

LEMMA PromotionIs ==
    ASSUME NEW d \in Runs, ~Clash(d)
    PROVE  /\ Promotion(d) \in Runs /\ Promotes(Promotion(d), d.tag)
           /\ Promotion(d).force = d.force /\ Promotion(d).skipProw = d.skipProw
           /\ Promotion(d).tagBranch = d.tagBranch /\ Promotion(d).newBranch = d.newBranch
<1>1. CASE d.promoteRC = None
  BY <1>1 DEF Promotion, Promotes
<1>2. CASE d.promoteRC # None
  <2>1. d.promoteRC \in Tags /\ IsRC(d.promoteRC)
    BY <1>2 DEF Clash, Runs
  <2>2. <<d.promoteRC[1], Final>> \in Tags
    BY <2>1, ConstantsAre
  <2>3. Promotion(d) = [d EXCEPT !.tag = <<d.promoteRC[1], Final>>]
    BY <1>2 DEF Promotion
  <2>4. QED
    BY <1>2, <2>1, <2>2, <2>3 DEF Runs, Promotes
<1>3. QED
  BY <1>1, <1>2

\* What the decision may be: nothing, the next series, the next candidate or a promotion.
LEMMA JudgeIInv ==
    ASSUME IInv, Judge
    PROVE  IInv'
<1> DEFINE rel == cache.releases
           s == currentMinor(rel)
           next == s + 1
           rc == rcPromotionCandidate(rel, next)
           entries == getBlockers(next)
           invalid == isRCInvalid(entries, createdAt[rc])
           decided ==
             IF shouldMakeNewMinorRelease(rel, s)
               THEN [run EXCEPT !.tag = firstCandidate(next), !.newBranch = next, !.tagBranch = next]
             ELSE IF rc = None THEN run
             ELSE IF invalid
               THEN IF blocksNewRC(entries) \/ rc[2] >= MaxRC THEN run
                    ELSE [run EXCEPT !.tag = candidateAfter(rc), !.tagBranch = next]
             ELSE IF run.now - createdAt[rc] >= PromoteAfter
               THEN [run EXCEPT !.promoteRC = rc]
             ELSE run
           known == IF rc = None THEN cache ELSE WithBlockers(next)
<1>1. /\ GithubStays /\ clone' = clone /\ failures' = failures /\ error' = error /\ pc = "judge"
      /\ IF next > MaxSeries THEN Stop ELSE Proceed(decided, known)
  BY DEF Judge, github, GithubStays
<1>2. failures' \in 0..setting.maxFailures /\ error' \in {None, "branchNotFound"}
  BY <1>1 DEF IInv, TypeInv
<1>3. CASE Stop
  BY <1>1, <1>2, <1>3, CloneIsSound, StopIInv
<1>4. CASE ~Stop
  <2>1. /\ pc' = BranchPart(Promotion(decided)) /\ run' = Promotion(decided) /\ lateLabels' = lateLabels
        /\ cache' = known /\ ~(next > MaxSeries) /\ ~Clash(decided) /\ BranchPart(Promotion(decided)) # "idle"
    BY <1>1, <1>4 DEF Proceed
  <2>2. rel \in Releases /\ Known(rel, released)
    BY <1>1 DEF IInv, CacheInv, Known
  <2> HIDE DEF rel
  <2>3. s \in Branches
    BY <2>2, CurrentMinorIs DEF Known
  <2> HIDE DEF s
  <2>4. next \in Series /\ next \in Branches
    BY <2>1, <2>3, ConstantsAre DEF Branches, Series
  <2> HIDE DEF next
  <2>5. rc # None => rc \in Tags /\ IsRC(rc) /\ rc[1] = next /\ rc[2] \in 0..MaxRC /\ rel[rc] # None
    BY <2>2, <2>4, CandidateIs
  <2>6. rc # None => tags[rc] # 0
    BY <2>2, <2>5 DEF Known, IInv, GithubInv
  <2> HIDE DEF rc, entries, invalid
  <2>7. run \in Runs /\ run.tagBranch = None
    BY <1>1 DEF IInv, TypeInv, ControlInv, Requesting
  <2>8. /\ decided \in Runs /\ decided.force = run.force /\ decided.skipProw = run.skipProw
        /\ \/ decided.tag = run.tag /\ decided.tagBranch = None
           \/ decided.tag = <<next, 0>> /\ decided.tagBranch = next
           \/ decided.tag = <<next, rc[2] + 1>> /\ decided.tagBranch = next /\ rc # None /\ rc[2] < MaxRC
    <3>1. CASE shouldMakeNewMinorRelease(rel, s)
      <4>1. decided = [run EXCEPT !.tag = <<next, 0>>, !.newBranch = next, !.tagBranch = next]
        BY <3>1 DEF firstCandidate
      <4>2. <<next, 0>> \in Tags
        BY <2>4, ConstantsAre
      <4>3. QED
        BY <2>4, <2>7, <4>1, <4>2 DEF Runs
    <3>2. CASE ~shouldMakeNewMinorRelease(rel, s) /\ decided = run
      BY <2>7, <3>2
    <3>3. CASE /\ ~shouldMakeNewMinorRelease(rel, s) /\ rc # None /\ invalid
               /\ ~(blocksNewRC(entries) \/ rc[2] >= MaxRC)
      <4>1. decided = [run EXCEPT !.tag = <<next, rc[2] + 1>>, !.tagBranch = next]
        BY <2>5, <3>3 DEF candidateAfter
      <4>2. rc[2] < MaxRC /\ rc[2] + 1 \in 0..MaxRC
        BY <2>5, <3>3, ConstantsAre
      <4>3. <<next, rc[2] + 1>> \in Tags
        BY <2>4, <4>2, ConstantsAre
      <4>4. QED
        BY <2>4, <2>7, <3>3, <4>1, <4>2, <4>3 DEF Runs
    <3>4. CASE ~shouldMakeNewMinorRelease(rel, s) /\ rc # None /\ ~invalid /\ decided = [run EXCEPT !.promoteRC = rc]
      BY <2>5, <2>7, <3>4 DEF Runs
    <3>5. QED
      BY <3>1, <3>2, <3>3, <3>4
  <2> HIDE DEF decided
  <2>9. /\ run' \in Runs /\ run'.force = run.force /\ run'.skipProw = run.skipProw
        /\ Promotes(run', decided.tag) /\ run'.tagBranch = decided.tagBranch
        /\ \/ pc' = "verifyTag" /\ run'.tag \in Tags
           \/ pc' = "verifyBranch" /\ run'.newBranch \in Series
    BY <2>1, <2>8, BranchPartIs, PromotionIs
  <2>10. /\ cache' \in [releases : Releases \cup {None}, branches : SUBSET Branches,
                        blockers : [Branches -> (SUBSET Entries) \cup {None}]]
         /\ CacheInv'
    <3>1. CASE rc = None
      BY <1>1, <2>1, <3>1 DEF IInv, TypeInv, CacheInv, GithubStays
    <3>2. CASE rc # None
      BY <1>1, <2>1, <2>4, <3>2, CacheBlockersInv DEF CacheBlockers
    <3>3. QED
      BY <3>1, <3>2
  <2> HIDE DEF known
  <2>11. TypeInv'
    BY <1>1, <1>2, <2>1, <2>9, <2>10 DEF IInv, TypeInv, GithubStays
  <2>12. ControlInv'
    <3>1. pc' \notin Requesting \cup Branching \cup Tagging /\ pc' \notin {"idle", "mainBlockers"}
      BY <2>9 DEF Requesting, Branching, Tagging
    <3>2. run'.tagBranch # None => run'.tag \in Tags /\ run'.tagBranch = run'.tag[1]
      <4>1. SUFFICES ASSUME run'.tagBranch # None
                     PROVE  run'.tag \in Tags /\ run'.tagBranch = run'.tag[1]
        OBVIOUS
      <4>2. decided.tagBranch = next /\ decided.tag # None /\ decided.tag \in Tags /\ decided.tag[1] = next
        <5>1. decided.tag = <<next, 0>> \/ (decided.tag = <<next, rc[2] + 1>> /\ rc # None /\ rc[2] < MaxRC)
          BY <2>8, <2>9, <4>1
        <5>2. decided.tagBranch = next
          BY <2>8, <2>9, <4>1
        <5>3. rc # None /\ rc[2] < MaxRC => rc[2] + 1 \in 0..MaxRC
          BY <2>5, ConstantsAre
        <5>4. 0 \in 0..MaxRC
          BY ConstantsAre
        <5>5. decided.tag \in Tags /\ decided.tag[1] = next
          BY <2>4, <5>1, <5>3, <5>4, ConstantsAre
        <5>6. QED
          BY <5>2, <5>5, ConstantsAre
      <4>3. decided.promoteRC = None
        BY <2>1, <4>2 DEF Clash
      <4>4. run' = decided
        BY <2>1, <4>3 DEF Promotion
      <4>5. QED
        BY <4>2, <4>4
    <3>3. QED
      BY <1>1, <2>9, <3>1, <3>2 DEF IInv, ControlInv, GithubStays, Promotes, Branching
  <2>13. GithubInv'
    BY <1>1 DEF IInv, GithubInv, GithubStays
  <2>14. CloneInv'
    BY <1>1, <2>9 DEF IInv, CloneInv, GithubStays
  <2>15. BranchInv'
    BY <1>1, <2>9 DEF IInv, BranchInv, GithubStays, BranchHasJobs, Branching
  <2>16. TagInv'
    BY <1>1, <2>9 DEF IInv, TagInv, GithubStays, Tagging
  <2>17. NumberInv'
    <3>1. ASSUME FirstByHand, run'.tag # None, run'.tag[2] >= 1
          PROVE  tags[Previous(run'.tag)] # 0
      <4>1. run'.tag = decided.tag
        BY <2>9, <3>1 DEF Promotes, Final
      <4>2. CASE decided.tag = run.tag
        BY <3>1, <4>1, <4>2 DEF IInv, NumberInv
      <4>3. CASE decided.tag # run.tag
        <5>1. run'.tag = <<next, rc[2] + 1>> /\ rc # None
          BY <2>8, <3>1, <4>1, <4>3
        <5>2. rc[2] \in Nat /\ (rc[2] + 1) - 1 = rc[2] /\ rc = <<rc[1], rc[2]>> /\ rc[1] = next
          BY <2>5, <5>1, ConstantsAre
        <5>3. run'.tag[1] = next /\ run'.tag[2] = rc[2] + 1
          BY <5>1
        <5>4. Previous(run'.tag) = rc
          BY <5>2, <5>3 DEF Previous
        <5>5. QED
          BY <2>6, <5>1, <5>4
      <4>4. QED
        BY <4>2, <4>3
    <3>2. QED
      BY <1>1, <2>9, <3>1 DEF IInv, NumberInv, GithubStays, FirstByHand, CandidatesAdvance, Tagging
  <2>18. QED
    BY <2>10, <2>11, <2>12, <2>13, <2>14, <2>15, <2>16, <2>17 DEF IInv
<1>5. QED
  BY <1>3, <1>4

LEMMA StartIInv ==
    ASSUME IInv, NEW request \in setting.requests, Start(request)
    PROVE  IInv'
<1> DEFINE d == [auto |-> request.auto, newBranch |-> request.newBranch, tag |-> request.tag,
                 promoteRC |-> request.promoteRC, force |-> request.force,
                 dryRun |-> request.dryRun, skipProw |-> request.skipProw,
                 tagBranch |-> None, now |-> now]
<1>1. /\ GithubStays /\ failures' = failures /\ error' = None /\ pc = "idle" /\ clone' = PreparedClone
      /\ IF request.auto
           THEN pc' = "detect" /\ run' = d /\ cache' = cache /\ lateLabels' = lateLabels
           ELSE Proceed(d, cache)
  BY DEF Start, github, GithubStays
<1>2. failures' \in 0..setting.maxFailures /\ error' \in {None, "branchNotFound"}
  BY <1>1 DEF IInv, TypeInv
<1>3. Sound(clone')
  <2>1. Sound(NoClone)
    BY ConstantsAre DEF Sound, Clones, NoClone, IInv, TypeInv
  <2>2. QED
    BY <1>1, <2>1, CloneIsSound DEF PreparedClone
<1>4. request \in Requests
  BY SettingIs DEF IInv
<1>5. /\ d \in Runs /\ d.force = request.force /\ d.skipProw = request.skipProw /\ d.tagBranch = None
      /\ d.newBranch = request.newBranch /\ d.tag = request.tag /\ d.promoteRC = request.promoteRC
  BY <1>4, ConstantsAre DEF Runs, Requests, IInv, TypeInv
<1>6. \/ Stop
      \/ /\ cache' = cache /\ lateLabels' = lateLabels
         /\ \/ pc' = "detect" /\ run' = d
            \/ pc' = BranchPart(Promotion(d)) /\ run' = Promotion(d) /\ ~Clash(d) /\ BranchPart(Promotion(d)) # "idle"
  BY <1>1 DEF Proceed
<1> HIDE DEF d
<1>7. ~Clash(d) => /\ Promotion(d) \in Runs /\ Promotion(d).force = request.force
                   /\ Promotion(d).skipProw = request.skipProw /\ Promotion(d).tagBranch = None
                   /\ Promotes(Promotion(d), request.tag)
  BY <1>5, PromotionIs
<1>8. CASE Stop
  BY <1>1, <1>2, <1>3, <1>8, StopIInv
<1>9. CASE ~Stop
  <2>1. /\ cache' = cache /\ lateLabels' = lateLabels /\ cache = EmptyCache /\ lateLabels = {}
        /\ run' \in Runs /\ run'.tagBranch = None /\ run'.force = request.force /\ run'.skipProw = request.skipProw
        /\ pc' \in {"detect", "verifyBranch", "verifyTag"}
    BY <1>1, <1>5, <1>6, <1>7, <1>9, BranchPartIs DEF IInv, ControlInv
  <2>2. /\ pc' = "verifyBranch" => run'.newBranch \in Series
        /\ pc' = "verifyTag" => run'.tag \in Tags
    BY <1>6, <1>7, <1>9, BranchPartIs
  <2>3. IF pc' = "detect" THEN run'.tag = request.tag ELSE Promotes(run', request.tag)
    BY <1>5, <1>6, <1>7, <1>9, BranchPartIs
  <2>4. TypeInv'
    BY <1>1, <1>2, <1>3, <2>1 DEF IInv, TypeInv, GithubStays, Requesting, Sound, Clones
  <2>5. ControlInv'
    BY <1>1, <2>1, <2>2, <2>3 DEF ControlInv, GithubStays, Promotes, Requesting, Branching, Tagging
  <2>6. GithubInv'
    BY <1>1 DEF IInv, GithubInv, GithubStays
  <2>7. CacheInv'
    BY <2>1, IdleIs DEF CacheInv
  <2>8. CloneInv'
    BY <1>1, <1>3, <2>1 DEF CloneInv, GithubStays, Sound
  <2>9. BranchInv'
    BY <1>1, <2>1 DEF IInv, BranchInv, GithubStays, BranchHasJobs, Branching
  <2>10. TagInv'
    BY <2>1 DEF TagInv, Tagging
  <2>11. NumberInv'
    <3>1. ASSUME FirstByHand, run'.tag # None
          PROVE  ~(run'.tag[2] >= 1)
      <4>1. run'.tag \in Tags
        BY <2>1, <3>1 DEF Runs
      <4>2. run'.tag[2] \in Int /\ (run'.tag[2] = Final \/ run'.tag[2] <= 0)
        BY <2>3, <3>1, <4>1, ConstantsAre DEF FirstByHand, Promotes
      <4>3. QED
        BY <4>2 DEF Final
    <3>2. QED
      BY <1>1, <2>1, <3>1 DEF IInv, NumberInv, GithubStays, FirstByHand, CandidatesAdvance, Tagging
  <2>12. QED
    BY <2>4, <2>5, <2>6, <2>7, <2>8, <2>9, <2>10, <2>11 DEF IInv
<1>10. QED
  BY <1>8, <1>9

-----------------------------------------------------------------------------
\* As long as no blocker comes that is not late, and what is closed stays as it
\* is, what the run knows of the blockers stays true.
Shrinks(items, late, items2, late2) ==
    \A b \in Blockers :
        /\ items2[b].labelled /\ b \notin late2 => items[b].labelled /\ b \notin late
        /\ items[b].state = "closed" => /\ items2[b].state = "closed" /\ items2[b].closedAt = items[b].closedAt
                                        /\ items2[b].fixedAt = items[b].fixedAt

LEMMA KnowledgeStays ==
    ASSUME NEW items, NEW late, NEW items2, NEW late2, NEW targetOf, Shrinks(items, late, items2, late2),
           NEW branch
    PROVE  /\ \A entries : Listed(entries, branch, items, late, targetOf) => Listed(entries, branch, items2, late2, targetOf)
           /\ Clear(branch, items, late, targetOf) => Clear(branch, items2, late2, targetOf)
           /\ \A commit : FixedBy(branch, commit, items, late, targetOf) => FixedBy(branch, commit, items2, late2, targetOf)
<1>1. \A b \in Standing(branch, items2, late2, targetOf) : b \in Standing(branch, items, late, targetOf) /\ b \in Blockers
  BY DEF Shrinks, Standing
<1>2. \A b \in Blockers : items[b].state = "closed" =>
         items2[b].state = "closed" /\ items2[b].closedAt = items[b].closedAt /\ items2[b].fixedAt = items[b].fixedAt
  BY DEF Shrinks
<1>3. ASSUME NEW entries, Listed(entries, branch, items, late, targetOf)
      PROVE  Listed(entries, branch, items2, late2, targetOf)
  BY <1>1, <1>2, <1>3 DEF Listed
<1>4. Clear(branch, items, late, targetOf) => Clear(branch, items2, late2, targetOf)
  BY <1>1, <1>2 DEF Clear
<1>5. ASSUME NEW commit, FixedBy(branch, commit, items, late, targetOf)
      PROVE  FixedBy(branch, commit, items2, late2, targetOf)
  BY <1>1, <1>2, <1>5 DEF FixedBy
<1>6. QED
  BY <1>3, <1>4, <1>5

\* What people do while a run goes on or none does: the clock may go on, branches
\* may get commits, blockers may come late, go or be resolved.
PeopleAct ==
    /\ setting' = setting /\ tags' = tags /\ released' = released /\ createdAt' = createdAt /\ prow' = prow
    /\ pc' = pc /\ run' = run /\ cache' = cache /\ clone' = clone /\ failures' = failures /\ error' = error
    /\ now' \in 1..MaxTime /\ now <= now'
    /\ head' \in [Branches -> 0..MaxTime]
    /\ \A b \in Branches : (head[b] = 0 <=> head'[b] = 0) /\ head[b] <= head'[b] /\ head'[b] <= now'
    /\ blocker' \in [Blockers -> [labelled : BOOLEAN, state : {"open", "fixed", "closed"},
                                  fixedAt : 0..MaxTime, closedAt : 0..MaxTime]]
    /\ \A b \in Blockers : /\ blocker'[b].fixedAt <= now'
                           /\ blocker'[b].state = "closed" => blocker'[b].fixedAt <= blocker'[b].closedAt
    /\ lateLabels' \subseteq Blockers
    /\ IF pc = "idle" THEN lateLabels' = {} ELSE Shrinks(blocker, lateLabels, blocker', lateLabels')

LEMMA PeopleIInv ==
    ASSUME IInv, PeopleAct
    PROVE  IInv'
<1>1. TypeInv'
  BY DEF IInv, TypeInv, PeopleAct
<1>2. ControlInv'
  BY DEF IInv, ControlInv, PeopleAct
<1>3. GithubInv'
  BY ConstantsAre DEF IInv, GithubInv, PeopleAct
<1>4. pc # "idle" => Shrinks(blocker, lateLabels, blocker', lateLabels')
  BY DEF PeopleAct
<1>5. CacheInv'
  <2>1. CASE pc = "idle"
    BY <2>1, IdleIs DEF IInv, ControlInv, CacheInv, PeopleAct
  <2>2. CASE pc # "idle"
    <3>1. {b \in Branches : head[b] # 0} = {b \in Branches : head'[b] # 0}
      BY DEF PeopleAct
    <3>2. \A b \in Branches : cache.blockers[b] # None =>
             Listed(cache.blockers[b], b, blocker', lateLabels', setting.targetOf)
      BY <1>4, <2>2, KnowledgeStays DEF IInv, CacheInv
    <3>3. QED
      BY <3>1, <3>2 DEF IInv, CacheInv, PeopleAct
  <2>3. QED
    BY <2>1, <2>2
<1>6. CloneInv'
  <2>1. clone.main <= now' /\ \A s \in Series : clone.heads[s] <= now'
    <3>1. now \in Int /\ now' \in Int /\ now <= now'
      BY DEF IInv, TypeInv, PeopleAct
    <3>2. clone.main \in Int /\ clone.main <= now /\ \A s \in Series : clone.heads[s] \in Int /\ clone.heads[s] <= now
      BY DEF IInv, TypeInv, CloneInv
    <3>3. QED
      BY <3>1, <3>2
  <2>2. QED
    BY <2>1 DEF IInv, CloneInv, PeopleAct
<1>7. BranchInv'
  <2>1. ASSUME pc \in Branching
        PROVE  head'[run.newBranch] = 0 /\ (run.force \/ Clear(Main, blocker', lateLabels', setting.targetOf))
    <3>1. run.newBranch \in Branches /\ pc # "idle"
      BY <2>1, ConstantsAre DEF IInv, ControlInv, Branching
    <3>2. head[run.newBranch] = 0 /\ (run.force \/ Clear(Main, blocker, lateLabels, setting.targetOf))
      BY <2>1 DEF IInv, BranchInv
    <3>3. QED
      BY <1>4, <3>1, <3>2, KnowledgeStays DEF PeopleAct
  <2>2. BranchHasJobs'
    BY ConstantsAre DEF IInv, BranchInv, BranchHasJobs, PeopleAct
  <2>3. QED
    BY <2>1, <2>2 DEF IInv, BranchInv, PeopleAct
<1>8. TagInv'
  <2>1. CASE pc \in Tagging
    <3>1. Shrinks(blocker, lateLabels, blocker', lateLabels')
      BY <1>4, <2>1 DEF Tagging
    <3>2. /\ Clear(run.tag[1], blocker, lateLabels, setting.targetOf) =>
                Clear(run.tag[1], blocker', lateLabels', setting.targetOf)
          /\ FixedBy(run.tag[1], tags[run.promoteRC], blocker, lateLabels, setting.targetOf) =>
                FixedBy(run.tag[1], tags[run.promoteRC], blocker', lateLabels', setting.targetOf)
      BY <3>1, KnowledgeStays
    <3>3. QED
      BY <3>2 DEF IInv, TagInv, PeopleAct
  <2>2. CASE pc \notin Tagging
    BY <2>2 DEF TagInv, Tagging, PeopleAct
  <2>3. QED
    BY <2>1, <2>2
<1>9. NumberInv'
  <2>1. ASSUME FirstByHand, NEW t \in Tags, IsRC(t)
        PROVE  tags[t] <= head'[t[1]]
    <3>1. tags[t] <= head[t[1]] /\ t[1] \in Branches
      BY <2>1, ConstantsAre DEF IInv, NumberInv
    <3>2. tags[t] \in Nat /\ head[t[1]] \in Nat /\ head'[t[1]] \in Nat /\ head[t[1]] <= head'[t[1]]
      BY <3>1, ConstantsAre DEF IInv, TypeInv, PeopleAct
    <3>3. QED
      BY <3>1, <3>2
  <2>2. ASSUME FirstByHand, pc = "pushTag", IsRC(run.tag)
        PROVE  clone.tags[run.tag] <= head'[run.tag[1]]
    <3>1. run.tag \in Tags /\ run.tag[1] \in Branches
      BY <2>2, ConstantsAre DEF IInv, ControlInv, Tagging
    <3>2. clone.tags[run.tag] <= head[run.tag[1]]
      BY <2>2 DEF IInv, NumberInv
    <3>3. clone.tags[run.tag] \in Nat /\ head[run.tag[1]] \in Nat /\ head'[run.tag[1]] \in Nat
          /\ head[run.tag[1]] <= head'[run.tag[1]]
      BY <3>1, ConstantsAre DEF IInv, TypeInv, PeopleAct
    <3>4. QED
      BY <3>2, <3>3
  <2>3. QED
    BY <2>1, <2>2 DEF IInv, NumberInv, FirstByHand, CandidatesAdvance, PeopleAct
<1>10. QED
  BY <1>1, <1>2, <1>3, <1>5, <1>6, <1>7, <1>8, <1>9 DEF IInv

LEMMA TickIInv ==
    ASSUME IInv, Tick
    PROVE  IInv'
<1>1. now \in 1..MaxTime /\ now' = now + 1 /\ now' \in 1..MaxTime /\ now <= now'
  <2>1. now \in 1..MaxTime /\ MaxTime \in Nat /\ LastEvent \in 0..MaxTime
    BY ConstantsAre DEF IInv, TypeInv
  <2>2. now' = now + 1 /\ (now < LastEvent \/ now < MaxTime)
    BY DEF Tick
  <2>3. QED
    BY <2>1, <2>2
<1>2. PeopleAct
  <2>1. \A b \in Branches : head[b] <= head[b] /\ head[b] <= now'
    <3>1. \A b \in Branches : head[b] \in Int /\ head[b] <= now
      BY DEF IInv, TypeInv, GithubInv
    <3>2. QED
      BY <1>1, <3>1
  <2>2. \A b \in Blockers : blocker[b].fixedAt <= now'
    <3>1. \A b \in Blockers : blocker[b].fixedAt \in Int /\ blocker[b].fixedAt <= now
      BY DEF IInv, TypeInv, GithubInv
    <3>2. QED
      BY <1>1, <3>1
  <2>3. QED
    BY <1>1, <2>1, <2>2 DEF Tick, github, PeopleAct, Shrinks, IInv, TypeInv, ControlInv, GithubInv
<1>3. QED
  BY <1>2, PeopleIInv

\* The clock and the branches stay.
LEMMA TimeStays ==
    ASSUME IInv, now' = now, head' = head
    PROVE  /\ now' \in 1..MaxTime /\ now <= now' /\ head' \in [Branches -> 0..MaxTime]
           /\ \A b \in Branches : (head[b] = 0 <=> head'[b] = 0) /\ head[b] <= head'[b] /\ head'[b] <= now'
<1>1. \A b \in Branches : head[b] \in Int /\ head[b] <= head[b]
  BY DEF IInv, TypeInv
<1>2. now \in Int /\ now <= now
  BY DEF IInv, TypeInv
<1>3. QED
  BY <1>1, <1>2 DEF IInv, TypeInv, GithubInv

LEMMA LabelIInv ==
    ASSUME IInv, NEW b \in Blockers, Label(b)
    PROVE  IInv'
<1>1. /\ blocker' = [blocker EXCEPT ![b].labelled = TRUE]
      /\ lateLabels' = IF pc = "idle" THEN {} ELSE lateLabels \cup {b}
      /\ setting' = setting /\ now' = now /\ head' = head /\ ToolUnchanged
  BY DEF Label
<1>2. /\ blocker' \in [Blockers -> [labelled : BOOLEAN, state : {"open", "fixed", "closed"},
                                    fixedAt : 0..MaxTime, closedAt : 0..MaxTime]]
      /\ \A c \in Blockers : /\ blocker'[c].state = blocker[c].state /\ blocker'[c].fixedAt = blocker[c].fixedAt
                             /\ blocker'[c].closedAt = blocker[c].closedAt
                             /\ c # b => blocker'[c] = blocker[c]
  BY <1>1 DEF IInv, TypeInv
<1>3. \A c \in Blockers : /\ blocker'[c].fixedAt <= now'
                          /\ blocker'[c].state = "closed" => blocker'[c].fixedAt <= blocker'[c].closedAt
  BY <1>1, <1>2 DEF IInv, GithubInv
<1>4. IF pc = "idle" THEN lateLabels' = {} ELSE Shrinks(blocker, lateLabels, blocker', lateLabels')
  BY <1>1, <1>2 DEF Shrinks
<1>5. lateLabels' \subseteq Blockers
  BY <1>1 DEF IInv, TypeInv
<1>6. PeopleAct
  BY <1>1, <1>2, <1>3, <1>4, <1>5, TimeStays DEF PeopleAct, ToolUnchanged
<1>7. QED
  BY <1>6, PeopleIInv

LEMMA CancelIInv ==
    ASSUME IInv, NEW b \in Blockers, Cancel(b)
    PROVE  IInv'
<1>1. /\ blocker' = [blocker EXCEPT ![b].labelled = FALSE] /\ lateLabels' = lateLabels
      /\ setting' = setting /\ now' = now /\ head' = head /\ ToolUnchanged
  BY DEF Cancel
<1>2. /\ blocker' \in [Blockers -> [labelled : BOOLEAN, state : {"open", "fixed", "closed"},
                                    fixedAt : 0..MaxTime, closedAt : 0..MaxTime]]
      /\ \A c \in Blockers : /\ blocker'[c].state = blocker[c].state /\ blocker'[c].fixedAt = blocker[c].fixedAt
                             /\ blocker'[c].closedAt = blocker[c].closedAt
                             /\ c # b => blocker'[c] = blocker[c]
                             /\ c = b => ~blocker'[c].labelled
  BY <1>1 DEF IInv, TypeInv
<1>3. \A c \in Blockers : /\ blocker'[c].fixedAt <= now'
                          /\ blocker'[c].state = "closed" => blocker'[c].fixedAt <= blocker'[c].closedAt
  BY <1>1, <1>2 DEF IInv, GithubInv
<1>4. IF pc = "idle" THEN lateLabels' = {} ELSE Shrinks(blocker, lateLabels, blocker', lateLabels')
  BY <1>1, <1>2 DEF Shrinks, IInv, ControlInv
<1>5. lateLabels' \subseteq Blockers
  BY <1>1 DEF IInv, TypeInv
<1>6. PeopleAct
  BY <1>1, <1>2, <1>3, <1>4, <1>5, TimeStays DEF PeopleAct, ToolUnchanged
<1>7. QED
  BY <1>6, PeopleIInv

\* A fix reaches a branch there is; the item is closed after it.
LEMMA FixIInv ==
    ASSUME IInv, NEW b \in Blockers, Fix(b)
    PROVE  IInv'
<1> DEFINE branch == setting.targetOf[b]
<1>1. /\ blocker' = [blocker EXCEPT ![b].state = "fixed", ![b].fixedAt = now'] /\ lateLabels' = lateLabels
      /\ head' = [head EXCEPT ![branch] = now'] /\ head[branch] # 0 /\ blocker[b].state = "open"
      /\ setting' = setting /\ now' = now + 1 /\ now < LastEvent /\ ToolUnchanged
  BY DEF Fix
<1>2. now' \in 1..MaxTime /\ now \in 1..MaxTime /\ now' = now + 1 /\ now <= now' /\ now' # 0
  <2>1. now \in 1..MaxTime /\ MaxTime \in Nat /\ LastEvent \in 0..MaxTime
    BY ConstantsAre DEF IInv, TypeInv
  <2>2. QED
    BY <1>1, <2>1
<1>3. branch \in Branches
  BY SettingIs DEF IInv
<1> HIDE DEF branch
<1>4. /\ head' \in [Branches -> 0..MaxTime]
      /\ \A c \in Branches : (head[c] = 0 <=> head'[c] = 0) /\ head[c] <= head'[c] /\ head'[c] <= now'
  <2>1. head' \in [Branches -> 0..MaxTime] /\ \A c \in Branches : head'[c] = IF c = branch THEN now' ELSE head[c]
    BY <1>1, <1>2, <1>3 DEF IInv, TypeInv
  <2>2. \A c \in Branches : head[c] \in Int /\ head[c] <= now
    BY DEF IInv, TypeInv, GithubInv
  <2>3. QED
    BY <1>1, <1>2, <2>1, <2>2
<1>5. /\ blocker' \in [Blockers -> [labelled : BOOLEAN, state : {"open", "fixed", "closed"},
                                    fixedAt : 0..MaxTime, closedAt : 0..MaxTime]]
      /\ \A c \in Blockers : /\ c # b => blocker'[c] = blocker[c]
                             /\ blocker'[c].labelled = blocker[c].labelled
      /\ blocker'[b].state = "fixed" /\ blocker'[b].fixedAt = now'
  <2> DEFINE item == [blocker[b] EXCEPT !.state = "fixed", !.fixedAt = now']
  <2>1. blocker[b] \in [labelled : BOOLEAN, state : {"open", "fixed", "closed"},
                        fixedAt : 0..MaxTime, closedAt : 0..MaxTime]
    BY DEF IInv, TypeInv
  <2>2. /\ item \in [labelled : BOOLEAN, state : {"open", "fixed", "closed"},
                     fixedAt : 0..MaxTime, closedAt : 0..MaxTime]
        /\ item.labelled = blocker[b].labelled /\ item.state = "fixed" /\ item.fixedAt = now'
    <3>1. now' \in 0..MaxTime
      BY <1>2
    <3>2. QED
      BY <2>1, <3>1
  <2>3. blocker' = [blocker EXCEPT ![b] = item]
    BY <1>1 DEF IInv, TypeInv
  <2> HIDE DEF item
  <2>4. QED
    BY <2>2, <2>3 DEF IInv, TypeInv
<1>6. \A c \in Blockers : /\ blocker'[c].fixedAt <= now'
                          /\ blocker'[c].state = "closed" => blocker'[c].fixedAt <= blocker'[c].closedAt
  <2>1. \A c \in Blockers : /\ blocker[c].fixedAt \in Int /\ blocker[c].fixedAt <= now
                            /\ blocker[c].state = "closed" => blocker[c].fixedAt <= blocker[c].closedAt
    BY DEF IInv, TypeInv, GithubInv
  <2>2. QED
    BY <1>2, <1>5, <2>1
<1>7. IF pc = "idle" THEN lateLabels' = {} ELSE Shrinks(blocker, lateLabels, blocker', lateLabels')
  BY <1>1, <1>5 DEF Shrinks, IInv, ControlInv
<1>8. lateLabels' \subseteq Blockers
  BY <1>1 DEF IInv, TypeInv
<1>9. PeopleAct
  BY <1>1, <1>2, <1>4, <1>5, <1>6, <1>7, <1>8 DEF PeopleAct, ToolUnchanged
<1>10. QED
  BY <1>9, PeopleIInv

LEMMA CloseIInv ==
    ASSUME IInv, NEW b \in Blockers, Close(b)
    PROVE  IInv'
<1>1. /\ blocker' = [blocker EXCEPT ![b].state = "closed", ![b].closedAt = now'] /\ lateLabels' = lateLabels
      /\ head' = head /\ blocker[b].state = "fixed"
      /\ setting' = setting /\ now' = now + 1 /\ now < MaxTime /\ ToolUnchanged
  BY DEF Close
<1>2. now' \in 1..MaxTime /\ now \in 1..MaxTime /\ now' = now + 1 /\ now <= now'
  <2>1. now \in 1..MaxTime /\ MaxTime \in Nat
    BY ConstantsAre DEF IInv, TypeInv
  <2>2. QED
    BY <1>1, <2>1
<1>3. /\ head' \in [Branches -> 0..MaxTime]
      /\ \A c \in Branches : (head[c] = 0 <=> head'[c] = 0) /\ head[c] <= head'[c] /\ head'[c] <= now'
  <2>1. head \in [Branches -> 0..MaxTime] /\ \A c \in Branches : head[c] \in Int /\ head[c] <= now
    BY DEF IInv, TypeInv, GithubInv
  <2>2. QED
    BY <1>1, <1>2, <2>1
<1>4. /\ blocker' \in [Blockers -> [labelled : BOOLEAN, state : {"open", "fixed", "closed"},
                                    fixedAt : 0..MaxTime, closedAt : 0..MaxTime]]
      /\ \A c \in Blockers : /\ c # b => blocker'[c] = blocker[c]
                             /\ blocker'[c].labelled = blocker[c].labelled
      /\ blocker'[b].state = "closed" /\ blocker'[b].closedAt = now' /\ blocker'[b].fixedAt = blocker[b].fixedAt
  <2> DEFINE item == [blocker[b] EXCEPT !.state = "closed", !.closedAt = now']
  <2>1. blocker[b] \in [labelled : BOOLEAN, state : {"open", "fixed", "closed"},
                        fixedAt : 0..MaxTime, closedAt : 0..MaxTime]
    BY DEF IInv, TypeInv
  <2>2. /\ item \in [labelled : BOOLEAN, state : {"open", "fixed", "closed"},
                     fixedAt : 0..MaxTime, closedAt : 0..MaxTime]
        /\ item.labelled = blocker[b].labelled /\ item.state = "closed" /\ item.closedAt = now' /\ item.fixedAt = blocker[b].fixedAt
    <3>1. now' \in 0..MaxTime
      BY <1>2
    <3>2. QED
      BY <2>1, <3>1
  <2>3. blocker' = [blocker EXCEPT ![b] = item]
    BY <1>1 DEF IInv, TypeInv
  <2> HIDE DEF item
  <2>4. QED
    BY <2>2, <2>3 DEF IInv, TypeInv
<1>5. \A c \in Blockers : /\ blocker'[c].fixedAt <= now'
                          /\ blocker'[c].state = "closed" => blocker'[c].fixedAt <= blocker'[c].closedAt
  <2>1. \A c \in Blockers : /\ blocker[c].fixedAt \in Int /\ blocker[c].fixedAt <= now
                            /\ blocker[c].state = "closed" => blocker[c].fixedAt <= blocker[c].closedAt
    BY DEF IInv, TypeInv, GithubInv
  <2>2. QED
    BY <1>2, <1>4, <2>1
<1>6. IF pc = "idle" THEN lateLabels' = {} ELSE Shrinks(blocker, lateLabels, blocker', lateLabels')
  BY <1>1, <1>4 DEF Shrinks, IInv, ControlInv
<1>7. lateLabels' \subseteq Blockers
  BY <1>1 DEF IInv, TypeInv
<1>8. PeopleAct
  BY <1>1, <1>2, <1>3, <1>4, <1>5, <1>6, <1>7 DEF PeopleAct, ToolUnchanged
<1>9. QED
  BY <1>8, PeopleIInv

\* CI publishes tags only, and dates a release once.
LEMMA PublishIInv ==
    ASSUME IInv, NEW t \in Tags, Publish(t)
    PROVE  IInv'
<1>1. /\ released' = [released EXCEPT ![t] = IF @ = None THEN "bare" ELSE "full"]
      /\ createdAt' = IF released[t] # None THEN createdAt
                      ELSE [createdAt EXCEPT ![t] = IF setting.commitDated THEN tags[t] ELSE now]
      /\ tags[t] # 0 /\ released[t] # "full"
      /\ setting' = setting /\ now' = now /\ head' = head /\ tags' = tags /\ prow' = prow /\ blocker' = blocker
      /\ pc' = pc /\ run' = run /\ cache' = cache /\ clone' = clone /\ failures' = failures
      /\ lateLabels' = lateLabels /\ error' = error
  BY DEF Publish
<1>2. /\ released' \in Releases /\ released'[t] \in {"bare", "full"}
      /\ \A u \in Tags : u # t => released'[u] = released[u]
      /\ "bare" # None /\ "full" # None
  BY <1>1, NoneAssumption DEF IInv, TypeInv, Releases
<1>3. /\ createdAt' \in [Tags -> 0..MaxTime]
      /\ \A u \in Tags : released[u] # None => createdAt'[u] = createdAt[u]
      /\ setting.commitDated /\ released[t] = None => createdAt'[t] = tags[t]
  <2>1. now \in 0..MaxTime /\ tags[t] \in 0..MaxTime /\ createdAt \in [Tags -> 0..MaxTime]
    BY DEF IInv, TypeInv
  <2>2. QED
    BY <1>1, <2>1
<1>4. \A u \in Tags : released[u] # None => released'[u] # None
  BY <1>2
<1>5. TypeInv'
  BY <1>1, <1>2, <1>3 DEF IInv, TypeInv
<1>6. ControlInv'
  BY <1>1 DEF IInv, ControlInv
<1>7. GithubInv'
  <2>1. released'[<<0, Final>>] = "full"
    BY <1>1, <1>2, ConstantsAre DEF IInv, GithubInv, Main
  <2>2. \A u \in Tags : released'[u] # None => tags[u] # 0 /\ (setting.commitDated => createdAt'[u] = tags[u])
    BY <1>1, <1>2, <1>3 DEF IInv, GithubInv
  <2>3. QED
    BY <1>1, <2>1, <2>2 DEF IInv, GithubInv
<1>8. CacheInv'
  <2>1. \A rel : Known(rel, released) => Known(rel, released')
    BY <1>4 DEF Known
  <2>2. QED
    BY <1>1, <2>1 DEF IInv, CacheInv
<1>9. CloneInv'
  BY <1>1 DEF IInv, CloneInv
<1>10. BranchInv'
  BY <1>1 DEF IInv, BranchInv, BranchHasJobs
<1>11. TagInv'
  BY <1>1 DEF IInv, TagInv
<1>12. NumberInv'
  BY <1>1 DEF IInv, NumberInv, FirstByHand, CandidatesAdvance
<1>13. QED
  BY <1>5, <1>6, <1>7, <1>8, <1>9, <1>10, <1>11, <1>12 DEF IInv

LEMMA StutterIInv ==
    ASSUME IInv, UNCHANGED vars
    PROVE  IInv'
<1>1. /\ setting' = setting /\ now' = now /\ head' = head /\ tags' = tags /\ released' = released
      /\ createdAt' = createdAt /\ prow' = prow /\ blocker' = blocker
      /\ pc' = pc /\ run' = run /\ cache' = cache /\ clone' = clone /\ failures' = failures
      /\ lateLabels' = lateLabels /\ error' = error
  BY DEF vars, github
<1>2. TypeInv' /\ ControlInv' /\ GithubInv' /\ CacheInv'
  BY <1>1 DEF IInv, TypeInv, ControlInv, GithubInv, CacheInv
<1>3. CloneInv' /\ BranchInv' /\ TagInv'
  BY <1>1 DEF IInv, CloneInv, BranchInv, BranchHasJobs, TagInv
<1>4. NumberInv'
  BY <1>1 DEF IInv, NumberInv, FirstByHand, CandidatesAdvance
<1>5. QED
  BY <1>2, <1>3, <1>4 DEF IInv

-----------------------------------------------------------------------------
LEMMA InitIInv ==
    ASSUME Init
    PROVE  IInv
<1> USE DEF Init
<1>1. /\ Main \in Branches /\ Main \notin Series /\ Series \subseteq Branches /\ <<0, Final>> \in Tags
      /\ 0 \in 0..MaxTime /\ 1 \in 0..MaxTime /\ 1 \in 1..MaxTime
  BY ConstantsAre DEF Main
<1>2. setting.maxFailures \in Nat
  BY SettingsAssumption
<1>3. TypeInv
  <2>1. /\ head \in [Branches -> 0..MaxTime] /\ tags \in [Tags -> 0..MaxTime] /\ released \in Releases
        /\ createdAt \in [Tags -> 0..MaxTime] /\ prow \in [Series -> {None, "pushed", "pr"}]
    BY <1>1 DEF Releases
  <2>2. blocker \in [Blockers -> [labelled : BOOLEAN, state : {"open", "fixed", "closed"},
                                  fixedAt : 0..MaxTime, closedAt : 0..MaxTime]]
    BY <1>1
  <2>3. clone \in [present : BOOLEAN, main : 0..MaxTime, heads : [Series -> 0..MaxTime], tags : [Tags -> 0..MaxTime]]
    BY <1>1 DEF NoClone
  <2>4. QED
    BY <1>1, <1>2, <2>1, <2>2, <2>3, IdleIs DEF TypeInv
<1>4. ControlInv
  BY IdleIs DEF ControlInv, Requesting, Branching, Tagging
<1>5. GithubInv
  <2>1. head[Main] # 0 /\ \A b \in Branches : head[b] <= now
    BY <1>1
  <2>2. released[<<0, Final>>] = "full"
    BY <1>1
  <2>3. \A t \in Tags : released[t] # None => tags[t] # 0 /\ createdAt[t] = tags[t]
    OBVIOUS
  <2>4. \A b \in Blockers : blocker[b].fixedAt <= now /\ blocker[b].state # "closed"
    OBVIOUS
  <2>5. QED
    BY <2>1, <2>2, <2>3, <2>4 DEF GithubInv
<1>6. CacheInv
  BY IdleIs DEF CacheInv
<1>7. CloneInv
  <2>1. clone.main = 0 /\ (\A s \in Series : clone.heads[s] = 0) /\ \A t \in Tags : clone.tags[t] = 0
    BY DEF NoClone
  <2>2. QED
    BY <2>1 DEF CloneInv
<1>8. BranchInv
  <2>1. \A s \in Series : head[s] = 0
    BY <1>1
  <2>2. QED
    BY <2>1 DEF BranchInv, BranchHasJobs, Branching
<1>9. TagInv
  BY DEF TagInv, Tagging
<1>10. NumberInv
  <2>1. ASSUME NEW s \in Series, NEW n \in Patch..MaxRC
        PROVE  tags[<<s, n>>] = 0
    <3>1. <<s, n>> \in Tags /\ <<s, n>> # <<0, Final>>
      BY <1>1 DEF Tags, Main
    <3>2. QED
      BY <3>1
  <2>2. MaxRC \in Nat /\ Final \in Patch..MaxRC /\ 1..MaxRC \subseteq Patch..MaxRC
    BY ConstantsAre DEF Final, Patch
  <2>3. CandidatesAdvance
    BY <2>1, <2>2 DEF CandidatesAdvance
  <2>4. ASSUME NEW t \in Tags, IsRC(t)
        PROVE  tags[t] <= head[t[1]]
    <3>1. t # <<0, Final>> /\ t[1] \in Branches
      BY <2>4, ConstantsAre
    <3>2. tags[t] = 0 /\ head[t[1]] \in {0, 1}
      BY <3>1
    <3>3. QED
      BY <3>2
  <2>5. QED
    BY <2>3, <2>4, IdleIs DEF NumberInv, Tagging
<1>11. QED
  BY <1>3, <1>4, <1>5, <1>6, <1>7, <1>8, <1>9, <1>10 DEF IInv

LEMMA NextIInv ==
    ASSUME IInv, [Next]_vars
    PROVE  IInv'
<1>1. ASSUME NEW request \in Invocations, Start(request)
      PROVE  IInv'
  <2>1. request \in setting.requests
    BY <1>1 DEF Start
  <2>2. QED
    BY <1>1, <2>1, StartIInv
<1>2. CASE RunStep
  BY <1>2, DetectIInv, JudgeIInv, VerifyBranchIInv, MainBlockersIInv, ForkJobsIInv, CreatePRIInv,
     CloneForBranchIInv, MakeBranchIInv, PushBranchIInv, VerifyTagIInv, TagBlockersIInv,
     CloneForTagIInv, MakeTagIInv, PushTagIInv DEF RunStep
<1>3. CASE Fail
  BY <1>3, FailIInv
<1>4. CASE Tick
  BY <1>4, TickIInv
<1>5. ASSUME NEW b \in Blockers, Label(b) \/ Cancel(b) \/ Fix(b) \/ Close(b)
      PROVE  IInv'
  BY <1>5, LabelIInv, CancelIInv, FixIInv, CloseIInv
<1>6. ASSUME NEW t \in Tags, Publish(t)
      PROVE  IInv'
  BY <1>6, PublishIInv
<1>7. CASE UNCHANGED vars
  BY <1>7, StutterIInv
<1>8. QED
  BY <1>1, <1>2, <1>3, <1>4, <1>5, <1>6, <1>7 DEF Next

LEMMA Invariant ==
    Spec => []IInv
BY InitIInv, NextIInv, PTL DEF Spec

\* Only PushBranch makes a branch, only PushTag a tag.
LEMMA OnlyPushes ==
    ASSUME IInv, [Next]_vars
    PROVE  /\ \A s \in Series : BranchPushed(s) => pc = "pushBranch" /\ s = run.newBranch
           /\ \A t \in Tags : TagPushed(t) => pc = "pushTag" /\ t = run.tag /\ tags'[t] = clone.tags[run.tag]
<1>1. CASE PushBranch
  <2>1. pc = "pushBranch" /\ tags' = tags /\ head' = [head EXCEPT ![run.newBranch] = clone.heads[run.newBranch]]
    BY <1>1 DEF PushBranch
  <2>2. \A s \in Series : s # run.newBranch => head'[s] = head[s]
    BY <2>1, ConstantsAre DEF IInv, TypeInv
  <2>3. QED
    BY <2>1, <2>2 DEF BranchPushed, TagPushed
<1>2. CASE PushTag
  <2>1. pc = "pushTag" /\ head' = head /\ tags' = [tags EXCEPT ![run.tag] = clone.tags[run.tag]]
    BY <1>2 DEF PushTag
  <2>2. \A t \in Tags : t # run.tag => tags'[t] = tags[t]
    BY <2>1 DEF IInv, TypeInv
  <2>3. \A t \in Tags : t = run.tag => tags'[t] = clone.tags[run.tag]
    BY <2>1 DEF IInv, TypeInv
  <2>4. QED
    BY <2>1, <2>2, <2>3 DEF BranchPushed, TagPushed
<1>3. ASSUME NEW b \in Blockers, Fix(b)
      PROVE  tags' = tags /\ \A s \in Series : ~BranchPushed(s)
  <2>1. tags' = tags /\ head' = [head EXCEPT ![setting.targetOf[b]] = now'] /\ head[setting.targetOf[b]] # 0
    BY <1>3 DEF Fix, ToolUnchanged
  <2>2. \A s \in Series : s # setting.targetOf[b] => head'[s] = head[s]
    BY <2>1, ConstantsAre DEF IInv, TypeInv
  <2>3. QED
    BY <2>1, <2>2 DEF BranchPushed
<1>4. CASE ~PushBranch /\ ~PushTag /\ ~\E b \in Blockers : Fix(b)
  <2>1. tags' = tags /\ head' = head
    <3>1. ASSUME RunStep
          PROVE  tags' = tags /\ head' = head
      BY <1>4, <3>1 DEF RunStep, Detect, Judge, VerifyBranch, MainBlockers, ForkJobs, CreatePR, CloneForBranch,
         MakeBranch, VerifyTag, TagBlockers, CloneForTag, MakeTag, github
    <3>2. ASSUME NEW b \in Blockers, Label(b) \/ Cancel(b) \/ Close(b)
          PROVE  tags' = tags /\ head' = head
      BY <3>2 DEF Label, Cancel, Close, ToolUnchanged
    <3>3. ASSUME NEW t \in Tags, Publish(t)
          PROVE  tags' = tags /\ head' = head
      BY <3>3 DEF Publish
    <3>4. ASSUME NEW request \in Invocations, Start(request)
          PROVE  tags' = tags /\ head' = head
      BY <3>4 DEF Start, github
    <3>5. ASSUME Fail \/ Tick \/ UNCHANGED vars
          PROVE  tags' = tags /\ head' = head
      BY <3>5 DEF Fail, Tick, vars, github
    <3>6. QED
      BY <1>4, <3>1, <3>2, <3>3, <3>4, <3>5 DEF Next
  <2>2. QED
    BY <2>1 DEF BranchPushed, TagPushed
<1>5. QED
  BY <1>1, <1>2, <1>3, <1>4 DEF TagPushed

LEMMA BlockersHoldStep ==
    ASSUME IInv, [Next]_vars, ~run.force
    PROVE  /\ \A s \in Series : BranchPushed(s) =>
                 \A b \in Blockers : StandingBlocker(b, Main) => blocker[b].state = "closed"
           /\ \A t \in Tags : TagPushed(t) =>
                 \A b \in Blockers : StandingBlocker(b, t[1]) => blocker[b].state = "closed"
<1>1. \A b \in Blockers, branch \in Branches :
         StandingBlocker(b, branch) => b \in Standing(branch, blocker, lateLabels, setting.targetOf)
  BY DEF StandingBlocker, Standing
<1>2. ASSUME NEW s \in Series, BranchPushed(s), NEW b \in Blockers, StandingBlocker(b, Main)
      PROVE  blocker[b].state = "closed"
  <2>1. Clear(Main, blocker, lateLabels, setting.targetOf)
    BY <1>2, OnlyPushes DEF IInv, BranchInv, Branching
  <2>2. QED
    BY <1>1, <1>2, <2>1, ConstantsAre DEF Clear
<1>3. ASSUME NEW t \in Tags, TagPushed(t), NEW b \in Blockers, StandingBlocker(b, t[1])
      PROVE  blocker[b].state = "closed"
  <2>1. pc = "pushTag" /\ t = run.tag /\ tags[run.tag] = 0
    BY <1>3, OnlyPushes DEF TagPushed
  <2>2. Clear(t[1], blocker, lateLabels, setting.targetOf)
    BY <2>1 DEF IInv, TagInv, Tagging
  <2>3. QED
    BY <1>1, <1>3, <2>2, ConstantsAre DEF Clear
<1>4. QED
  BY <1>2, <1>3

LEMMA PromotionsHaveFixesStep ==
    ASSUME IInv, [Next]_vars, setting.commitDated, NEW s \in Series, TagPushed(<<s, Final>>), run.promoteRC # None,
           NEW b \in Blockers, StandingBlocker(b, s)
    PROVE  blocker[b].state = "closed" /\ blocker[b].fixedAt <= tags'[<<s, Final>>]
<1> DEFINE t == <<s, Final>>
<1>1. t \in Tags /\ t[1] = s /\ s # Main
  BY ConstantsAre
<1>2. pc = "pushTag" /\ t = run.tag /\ tags'[t] = clone.tags[run.tag] /\ tags[run.tag] = 0
  BY <1>1, OnlyPushes DEF TagPushed
<1>3. clone.tags[run.tag] = tags[run.promoteRC]
  BY <1>2 DEF IInv, TagInv
<1>4. FixedBy(run.tag[1], tags[run.promoteRC], blocker, lateLabels, setting.targetOf)
  BY <1>1, <1>2 DEF IInv, TagInv, Tagging
<1>5. run.tag[1] = s
  BY <1>1, <1>2
<1>6. b \in Standing(s, blocker, lateLabels, setting.targetOf)
  BY DEF StandingBlocker, Standing
<1>7. QED
  BY <1>2, <1>3, <1>4, <1>5, <1>6 DEF FixedBy

LEMMA BranchReallyMissingStep ==
    ASSUME IInv, [Next]_vars, error' = "branchNotFound", error = None
    PROVE  head[run.tag[1]] = 0
<1>1. "branchNotFound" # None
  BY NoneAssumption
<1>2. VerifyTag
  <2>1. CASE RunStep
    BY <1>1, <2>1 DEF RunStep, Detect, Judge, VerifyBranch, MainBlockers, ForkJobs, CreatePR, CloneForBranch,
       MakeBranch, PushBranch, TagBlockers, CloneForTag, MakeTag, PushTag
  <2>2. ASSUME NEW b \in Blockers, Label(b) \/ Cancel(b) \/ Fix(b) \/ Close(b)
        PROVE  FALSE
    BY <1>1, <2>2 DEF Label, Cancel, Fix, Close, ToolUnchanged
  <2>3. ASSUME NEW t \in Tags, Publish(t)
        PROVE  FALSE
    BY <1>1, <2>3 DEF Publish
  <2>4. ASSUME NEW request \in Invocations, Start(request)
        PROVE  FALSE
    BY <1>1, <2>4 DEF Start
  <2>5. ASSUME Fail \/ Tick \/ UNCHANGED vars
        PROVE  FALSE
    BY <1>1, <2>5 DEF Fail, Tick, vars
  <2>6. QED
    BY <2>1, <2>2, <2>3, <2>4, <2>5 DEF Next
<1>3. run.tag \in Tags /\ run.tag[1] \in Branches
  BY <1>2, ConstantsAre DEF VerifyTag, IInv, ControlInv, Tagging
<1>4. run.tag[1] \notin getBranches
  BY <1>1, <1>2 DEF VerifyTag
<1>5. QED
  BY <1>3, <1>4, BranchesRead

-----------------------------------------------------------------------------
\* Every run keeps its data within its types, however many series, candidates,
\* blockers, command lines and days there are, and has a tag when it tags.
THEOREM Types ==
    Spec => []TypeOK
<1>1. IInv => TypeOK
  BY DEF IInv, TypeInv, ControlInv, TypeOK, Runs, Releases, Requesting, Branching, Tagging
<1>2. QED
  BY <1>1, Invariant, PTL

\* Without --skip-prow no release branch is on GitHub without a pull request for
\* its job configs, whatever runs die between the two and whichever take over.
THEOREM BranchesHaveJobs ==
    Spec => []BranchHasJobs
<1>1. IInv => BranchHasJobs
  BY DEF IInv, BranchInv
<1>2. QED
  BY <1>1, Invariant, PTL

\* "release branch [...] not found" is only said of a branch that is not there:
\* the list of branches a run keeps is exact, its own new branch included.
THEOREM MissingBranches ==
    Spec => BranchReallyMissing
<1>1. IInv /\ [Next]_vars => [error' = "branchNotFound" /\ error = None => head[run.tag[1]] = 0]_vars
  BY BranchReallyMissingStep
<1>2. QED
  BY <1>1, Invariant, PTL DEF Spec, BranchReallyMissing

\* No branch and no tag is pushed over a blocker that stood when the run began
\* and is open, unless the run is forced, whatever happens between its checks and
\* its push.
THEOREM BlockersHeld ==
    Spec => BlockersHold
<1>1. IInv /\ [Next]_vars =>
        [~run.force =>
            /\ \A s \in Series : BranchPushed(s) =>
                  \A b \in Blockers : StandingBlocker(b, Main) => blocker[b].state = "closed"
            /\ \A t \in Tags : TagPushed(t) =>
                  \A b \in Blockers : StandingBlocker(b, t[1]) => blocker[b].state = "closed"]_vars
  BY BlockersHoldStep
<1>2. QED
  BY <1>1, Invariant, PTL DEF Spec, BlockersHold

\* Where releases are dated like their commits, a promoted x.y.0 has the fix of
\* every blocker that stood on its branch when the run began.
THEOREM PromotionsFixed ==
    ASSUME \A s \in Settings : s.commitDated
    PROVE  Spec => PromotionsHaveFixes
<1>1. IInv /\ [Next]_vars =>
        [\A s \in Series : TagPushed(<<s, Final>>) /\ run.promoteRC # None =>
            \A b \in Blockers : StandingBlocker(b, s) =>
                blocker[b].state = "closed" /\ blocker[b].fixedAt <= tags'[<<s, Final>>]]_vars
  <2>1. IInv => setting.commitDated
    BY DEF IInv, TypeInv
  <2>2. QED
    BY <2>1, PromotionsHaveFixesStep
<1>2. QED
  BY <1>1, Invariant, PTL DEF Spec, PromotionsHaveFixes

\* Where people tag no candidate but a series' first, candidates have no gaps
\* and never go back to older code, and without --force an x.y.0 is one of them.
THEOREM CandidatesInOrder ==
    ASSUME \A s \in Settings : \A request \in s.requests : request.tag # None => request.tag[2] <= 0
    PROVE  Spec => []CandidatesAdvance
<1>1. IInv => CandidatesAdvance
  <2>1. IInv => FirstByHand
    BY DEF IInv, TypeInv, FirstByHand
  <2>2. QED
    BY <2>1 DEF IInv, NumberInv
<1>2. QED
  BY <1>1, Invariant, PTL
===============================================================================
