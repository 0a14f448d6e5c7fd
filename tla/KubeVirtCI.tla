------------------------------ MODULE KubeVirtCI ------------------------------
(***************************************************************************)
(* robots/kubevirtci-bumper, -presubmit-creator and -presubmit-remover:    *)
(* the robots that follow the releases of Kubernetes with the cluster      *)
(* providers of kubevirtci and the presubmits that check them.  Periodic   *)
(* jobs run each of them on a checkout of main; hack/git-pr.sh proposes    *)
(* what they changed on a branch per robot, merged later, or never.        *)
(*                                                                         *)
(* Both repositories are one map from files to contents here.  Minors are  *)
(* numbers of as many digits (their order as strings is in ProviderJobs).  *)
(***************************************************************************)
EXTENDS Integers, FiniteSets, FiniteSetsExt

CONSTANTS
    FirstMinor,     \* the oldest minor with a provider at first, two behind the newest,
                    \* which has none yet
    MaxNewMinor,    \* bound on the minors of Kubernetes
    MaxExtras       \* bound on the patches of all minors and the providers of
                    \* pre-releases made by hand, together

KubeVirtCIAssumption ==
    FirstMinor \in 10..95 /\ MaxNewMinor \in FirstMinor + 2..99 /\ MaxExtras \in Nat

KMinors == FirstMinor..MaxNewMinor + 1

\* A directory cluster-provision/k8s/<minor> with its version file, a directory
\* cluster-up/cluster/k8s-<minor>, and a job check-provision-k8s-<minor>.
RepoFiles == {"provider", "cluster-up", "job"} \X KMinors
Absent == -1
PreRelease == -2    \* a version with a suffix

Robots == {"ensure-last-three-minor", "ensure-latest", "ensure-only-latest-three",
           "presubmit-creator", "presubmit-remover"}

VARIABLES
    newest,         \* the newest minor of Kubernetes
    patches,        \* the last patch of each minor that is published
    mainFiles,      \* the content of each file, 0 for a directory or a job that exists
    users,          \* the minors of the jobs of kubevirt/kubevirt, by their names
    proposed,       \* the changes each robot's branch makes: file, from, to
    forced

kubevirtciVars == <<newest, patches, mainFiles, users, proposed, forced>>

KubeVirtCITypeOK ==
    /\ newest \in FirstMinor + 2..MaxNewMinor
    /\ patches \in [KMinors -> 0..MaxExtras]
    /\ mainFiles \in [RepoFiles -> PreRelease..MaxExtras]
    /\ users \subseteq KMinors /\ forced \in 0..MaxExtras
    /\ \A r \in Robots : \A c \in proposed[r] : c.file \in RepoFiles /\ c.from # c.to
    /\ \A m \in KMinors : mainFiles[<<"provider", m>>] = Absent <=> mainFiles[<<"cluster-up", m>>] = Absent

\* Kubernetes has just released a minor.
KubeVirtCIInit ==
    /\ newest = FirstMinor + 2
    /\ patches = [m \in KMinors |-> 0]
    /\ mainFiles = [f \in RepoFiles |-> IF f[2] < newest THEN 0 ELSE Absent]
    /\ users = FirstMinor..FirstMinor + 1
    /\ proposed = [r \in Robots |-> {}]
    /\ forced = 0

-----------------------------------------------------------------------------
\* The releases the robots see: one page of published ones without a suffix.  The
\* supported minors are on it with their last patch, older ones may have left it.
ValidReleases == FirstMinor..newest
LastThreeMinor == newest - 2..newest
LastPatchOf(m) == patches[m]

\* Fails on a version file that holds no version.
providerDirs == {m \in KMinors : mainFiles[<<"provider", m>>] # Absent}
ReadExistingProvidersFails ==
    \E m \in KMinors : mainFiles[<<"provider", m>>] = PreRelease
absentClusterUps == {m \in KMinors : mainFiles[<<"cluster-up", m>>] = Absent}

\* A file written, or removed.
write(file, content) == [file |-> file, from |-> mainFiles[file], to |-> content]

\* --- faulty variants of EnsureProviderExists and cancelRemoval
EnsureProviderExistsOfLastMinor(target, version) ==
    IF ReadExistingProvidersFails \/ target \in providerDirs \/ target - 1 \notin providerDirs THEN {}
    ELSE { write(<<"provider", target>>, version), write(<<"cluster-up", target>>, 0) }
cancelNoRemoval == FALSE
\* ---

\* The providers older than the target, by CompareMajorMinor.
olderThan(target) == {m \in providerDirs : m < target}

\* The nearest older provider is copied to the target, with the version, unless
\* the target exists; then its cluster-up directory, if the target has none.
EnsureProviderExists(target, version) ==
    LET older == olderThan(target)
        source == mainFiles[<<"cluster-up", Max(older)>>]
    IN  IF ReadExistingProvidersFails \/ target \in providerDirs \/ older = {} THEN {}
        ELSE { write(<<"provider", target>>, version) } \cup
             { write(<<"cluster-up", m>>, source) : m \in {target} \cap absentClusterUps }

BumpMinorReleaseOfProvider ==
    { write(<<"provider", m>>, LastPatchOf(m)) : m \in providerDirs \cap LastThreeMinor }

DropUnsupportedProviders ==
    { write(file, Absent) :
        file \in {"provider", "cluster-up"} \X {n \in providerDirs \ LastThreeMinor : n < newest} }

AddNewPresubmitIfNotExists == { write(<<"job", newest>>, 0) }

\* The fourth of the minors is looked up, and the robot crashes if the page lacks it.
deletePresubmitJobForRelease(fourthListed) ==
    { write(<<"job", m>>, Absent) : m \in {n \in ValidReleases : fourthListed /\ n = newest - 3} }

\* The periodic jobs of both removals ask "check providers" first, which fails if
\* a job of kubevirt uses another minor than the last three.
cancelRemoval == ~(users \subseteq LastThreeMinor)

\* What a run of a robot may write.
WritesOf(r) ==
    CASE r = "ensure-latest" -> {EnsureProviderExists(newest, LastPatchOf(newest))}
      [] r = "ensure-last-three-minor" -> {BumpMinorReleaseOfProvider}
      [] r = "presubmit-creator" -> {AddNewPresubmitIfNotExists}
      [] r = "ensure-only-latest-three" -> {DropUnsupportedProviders}
      [] r = "presubmit-remover" -> {deletePresubmitJobForRelease(listed) : listed \in BOOLEAN}

\* The changes of a run overwrite the robot's branch, unless there are none.
RunRobot(r) ==
    /\ r \in {"ensure-only-latest-three", "presubmit-remover"} => ~cancelRemoval
    /\ \E writes \in WritesOf(r) :
          LET changes == {w \in writes : w.from # w.to}
          IN  /\ changes \notin {{}, proposed[r]}
              /\ proposed' = [proposed EXCEPT ![r] = changes]
    /\ UNCHANGED <<newest, patches, mainFiles, users, forced>>

apply(changes) ==
    [f \in RepoFiles |-> IF \E c \in changes : c.file = f
                           THEN (CHOOSE c \in changes : c.file = f).to ELSE mainFiles[f]]

\* git merges the branch unless main has something third in one of its files.
MergeProposed(r) ==
    /\ proposed[r] # {}
    /\ \A c \in proposed[r] : mainFiles[c.file] \in {c.from, c.to}
    /\ mainFiles' = apply(proposed[r])
    /\ proposed' = [proposed EXCEPT ![r] = {}]
    /\ UNCHANGED <<newest, patches, users, forced>>

-----------------------------------------------------------------------------
MoreExtras == forced + MapThenSumSet(LastPatchOf, KMinors) < MaxExtras

\* -force-target-major-minor with -pre-release-version, run by people, who have
\* the provider of the next minor merged at once.
ForceProvider ==
    /\ MoreExtras
    /\ mainFiles' = apply(EnsureProviderExists(newest + 1, PreRelease))
    /\ mainFiles' # mainFiles
    /\ forced' = forced + 1
    /\ UNCHANGED <<newest, patches, users, proposed>>

ReleaseMinor ==
    /\ newest < MaxNewMinor
    /\ newest' = newest + 1
    /\ UNCHANGED <<patches, mainFiles, users, proposed, forced>>

ReleasePatch(m) ==
    /\ m \in LastThreeMinor /\ MoreExtras
    /\ patches' = [patches EXCEPT ![m] = @ + 1]
    /\ UNCHANGED <<newest, mainFiles, users, proposed, forced>>

\* Jobs of kubevirt are added for a provider that is supported or to come, and
\* those of unsupported ones are removed.
StartUsing(m) ==
    /\ m \in providerDirs \ users /\ m > newest - 3
    /\ users' = users \cup {m}
    /\ UNCHANGED <<newest, patches, mainFiles, proposed, forced>>

StopUsing(m) ==
    /\ m \in users \ LastThreeMinor /\ m < newest
    /\ users' = users \ {m}
    /\ UNCHANGED <<newest, patches, mainFiles, proposed, forced>>

KubeVirtCINext ==
    \/ \E r \in Robots : RunRobot(r) \/ MergeProposed(r)
    \/ ForceProvider \/ ReleaseMinor
    \/ \E m \in KMinors : ReleasePatch(m) \/ StartUsing(m) \/ StopUsing(m)

KubeVirtCISpec == KubeVirtCIInit /\ [][KubeVirtCINext]_kubevirtciVars

-----------------------------------------------------------------------------
\* What no step takes away: what belongs to one of the three newest minors or to
\* one to come, and what jobs of kubevirt use, however long ago that was checked.
InUseStay ==
    \A f \in RepoFiles :
        mainFiles[f] # Absent /\ mainFiles'[f] = Absent => f[2] <= newest - 3 /\ f[2] \notin users'

\* The newest minor has all it needs, and providers of supported minors are at
\* their last patch; or a provider made by hand is in the way.
Followed ==
    \/ \E m \in KMinors : m > newest /\ mainFiles[<<"provider", m>>] = PreRelease
    \/ /\ \A kind \in {"provider", "cluster-up", "job"} : mainFiles[<<kind, newest>>] # Absent
       /\ \A m \in LastThreeMinor : mainFiles[<<"provider", m>>] \in {Absent, LastPatchOf(m)}
=============================================================================
