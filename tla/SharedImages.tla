----------------------------- MODULE SharedImages -----------------------------
(***************************************************************************)
(* images/shared-images-controller: a loop on every node that keeps the    *)
(* images of KubeVirtCI pulled for the tag kubevirt's main uses, and       *)
(* removes those of other tags some time after the tag changed, when the   *)
(* tests that run with them have ended.                                    *)
(***************************************************************************)
EXTENDS Integers, FiniteSets

CONSTANTS
    MaxTag,         \* bound on the tags of main, 1, 2, ...; main never goes back
    MaxMinor,       \* bound on the minors of Kubernetes
    CleanupDelay,   \* cleanupDelay, in intervals of checkInterval
    MaxImageFailures

\* Kubernetes has three minors at first.
ImagesAssumption ==
    {MaxTag, MaxMinor, CleanupDelay} \subseteq Nat \ {0} /\ MaxMinor >= 3 /\ MaxImageFailures \in Nat

VARIABLES
    tagOfMain, latestMinor,
    images,         \* the images of the node
    lastTag, tagAge,    \* of the process: 0 if none, and the time since tagChangedAt
    step,           \* "sleep", "pull" or "clean"
    tag,            \* as read for this turn
    outdated,       \* history: the turns since main went on from a tag, the first
                    \* of which may come right after that
    imageFailures

imagesVars == <<tagOfMain, latestMinor, images, lastTag, tagAge, step, tag, outdated, imageFailures>>
node == <<images, lastTag, tagAge, step, tag>>

Registry == <<"registry", 0>>
Names(minors) == {<<"k8s", m>> : m \in minors} \cup {<<"gocli", 0>>}
ImagesOf(t, minors) == {<<n, t>> : n \in Names(minors)}

\* LastThreeMinor of the releases of Kubernetes
lastThreeMinors == {m \in latestMinor - 2 .. latestMinor : m >= 1}

Capped(n) == IF n < CleanupDelay THEN n ELSE CleanupDelay

ImagesTypeOK ==
    /\ tagOfMain \in 1..MaxTag /\ latestMinor \in 1..MaxMinor
    /\ images \subseteq {<<Registry, 0>>} \cup UNION {ImagesOf(t, 1..MaxMinor) : t \in 1..MaxTag}
    /\ {lastTag, tag} \subseteq 0..tagOfMain
    /\ step \in {"sleep", "pull", "clean"}
    /\ tagAge \in 0..CleanupDelay /\ \A t \in 1..MaxTag : outdated[t] \in 0..CleanupDelay + 1
    /\ imageFailures \in 0..MaxImageFailures

ImagesInit ==
    /\ tagOfMain = 1 /\ latestMinor = 3
    /\ images = {}
    /\ lastTag = 0 /\ tagAge = CleanupDelay
    /\ step = "sleep" /\ tag = 0
    /\ outdated = [t \in 1..MaxTag |-> 0]
    /\ imageFailures = 0

Upstream ==
    /\ \/ tagOfMain < MaxTag /\ tagOfMain' = tagOfMain + 1 /\ UNCHANGED latestMinor
       \/ latestMinor < MaxMinor /\ latestMinor' = latestMinor + 1 /\ UNCHANGED tagOfMain
    /\ UNCHANGED <<node, outdated, imageFailures>>

ImageFailure == imageFailures < MaxImageFailures /\ imageFailures' = imageFailures + 1

\* checkInterval passes, then the tag of main is read; without it the loop
\* goes on with the next turn.
GetLatestTag ==
    /\ step = "sleep"
    /\ tagAge' = Capped(tagAge + 1)
    /\ outdated' = [t \in 1..MaxTag |-> IF t < tagOfMain /\ outdated[t] <= CleanupDelay THEN outdated[t] + 1 ELSE outdated[t]]
    /\ \/ tag' = tagOfMain /\ step' = "pull" /\ UNCHANGED imageFailures
       \/ ImageFailure /\ UNCHANGED <<tag, step>>
    /\ UNCHANGED <<tagOfMain, latestMinor, images, lastTag>>

\* The clean-up waits for a while after the process has seen a new tag.
TagChange ==
    /\ lastTag' = tag
    /\ tagAge' = IF tag # lastTag THEN 0 ELSE tagAge

\* An image that cannot be pulled is only reported; the turn ends if releases or
\* images cannot be listed.
PullRequiredImages ==
    /\ step = "pull"
    /\ LET required == ImagesOf(tag, lastThreeMinors) \cup {<<Registry, 0>>}
       IN  \/ images' = images \cup required /\ UNCHANGED imageFailures
           \/ \E missing \in SUBSET (required \ images) :
                 missing # {} /\ images' = images \cup (required \ missing) /\ ImageFailure
    /\ TagChange
    /\ step' = IF tagAge' < CleanupDelay THEN "sleep" ELSE "clean"
    /\ UNCHANGED <<tagOfMain, latestMinor, tag, outdated>>

ListingFails ==
    /\ step \in {"pull", "clean"}
    /\ ImageFailure
    /\ step' = "sleep"
    /\ UNCHANGED <<tagOfMain, latestMinor, images, lastTag, tagAge, tag, outdated>>

\* All but the images with the tag, for whatever minor, and the registry go.
CleanOldImages ==
    /\ step = "clean"
    /\ images' = {i \in images : i[2] = tag \/ i[1] = Registry}
    /\ step' = "sleep"
    /\ UNCHANGED <<tagOfMain, latestMinor, lastTag, tagAge, tag, outdated, imageFailures>>

\* The container is restarted and knows no tag.
RestartController ==
    /\ ImageFailure
    /\ lastTag' = 0 /\ tagAge' = CleanupDelay
    /\ step' = "sleep" /\ tag' = 0
    /\ UNCHANGED <<tagOfMain, latestMinor, images, outdated>>

ImagesNext ==
    \/ Upstream
    \/ GetLatestTag \/ PullRequiredImages \/ ListingFails \/ CleanOldImages
    \/ RestartController

ImagesSpec == ImagesInit /\ [][ImagesNext]_imagesVars

-----------------------------------------------------------------------------
\* The images of a tag are removed only CleanupDelay after main went on from it, when
\* the tests of pull requests made before that have ended.
RemovedLate ==
    \A i \in images \ images' : outdated[i[2]] > CleanupDelay
=============================================================================
