----------------------------- MODULE ImageBumper -----------------------------
(***************************************************************************)
(* robots/image-bumper with pkg/imagebump: a periodic job puts the newest  *)
(* tags of our images into the job configuration, the deployments and the  *)
(* Containerfiles, and proposes that with hack/git-pr.sh, which asks       *)
(* robots/labels-checker first whether its pull request may be touched.    *)
(* Meanwhile images are pushed, and people set tags by hand.               *)
(***************************************************************************)
EXTENDS Integers, Sequences

CONSTANTS
    Repos,          \* images, in the order they are asked for
    Legacy,         \* those jobs keep, bootstrap-legacy
    DatedTags,      \* tags of the pattern, [date, hash]
    MaxPushes,      \* bound on pushed tags
    MaxByHand, MaxBumpFailures

RepoNames == {Repos[k] : k \in DOMAIN Repos}

BumperAssumption ==
    /\ {MaxPushes, MaxByHand, MaxBumpFailures} \subseteq Nat
    /\ Repos \in Seq(RepoNames)
    /\ Legacy \subseteq RepoNames
    /\ DatedTags \subseteq [date : Nat \ {0}, hash : Nat]

VARIABLES
    tags,       \* of each repository, in the order of their creation
    named,      \* main: which of them each kind of file names, 0 for one of before
    bump,       \* the running robot: its checkout, the repositories asked, and the answers
    bumpPR,     \* its branch and pull request
    pushes, byHand, bumpFailures

bumperVars == <<tags, named, bump, bumpPR, pushes, byHand, bumpFailures>>

Kinds == {"jobs", "deployments", "containerfiles"}
NoBump == [asked |-> -1]
NoBumpPR == [labelled |-> FALSE]
Bumping == bump # NoBump
Proposed == bumpPR # NoBumpPR

latest == [date |-> 0, hash |-> 0]      \* a tag that is no date and hash
dated(r) == {i \in DOMAIN tags[r] : tags[r][i] # latest}
DateOf(r, i) == IF i = 0 THEN 0 ELSE tags[r][i].date

BumperTypeOK ==
    /\ \A k \in Kinds, r \in RepoNames : named[k][r] \in 0..Len(tags[r])
    /\ Bumping => bump.asked \in 0..Len(Repos)
    /\ Proposed => bumpPR.result # bumpPR.base
    /\ pushes \in 0..MaxPushes /\ byHand \in 0..MaxByHand /\ bumpFailures \in 0..MaxBumpFailures

BumperInit ==
    /\ tags = [r \in RepoNames |-> <<>>]
    /\ named = [k \in Kinds |-> [r \in RepoNames |-> 0]]
    /\ bump = NoBump
    /\ bumpPR = NoBumpPR
    /\ pushes = 0
    /\ byHand = 0
    /\ bumpFailures = 0

-----------------------------------------------------------------------------
\* The tags of a repository.

ofLastDate(r) == {i \in dated(r) : \A j \in dated(r) : tags[r][j].date <= tags[r][i].date}

\* The tags of the last date are sorted by the time of their creation, but what is
\* returned is an element of the list before that: the first by its hash.
LatestSkopeoTag(r) ==
    CHOOSE i \in ofLastDate(r) : \A j \in ofLastDate(r) : tags[r][i].hash <= tags[r][j].hash

\* Quay's last tag of any form, but for "latest"; 0 for an error.
LatestQuayTag(r) ==
    IF tags[r] = <<>> \/ tags[r][Len(tags[r])] = latest THEN 0 ELSE Len(tags[r])

bumpOneContainerfile(r) ==
    IF LatestQuayTag(r) = 0 THEN bump.base["containerfiles"][r] ELSE LatestQuayTag(r)

-----------------------------------------------------------------------------
\* The robot.

\* labels-checker: the label the pull request is made with is one that must not be there.
checkAnyLabelExists == Proposed /\ bumpPR.labelled

StartBump ==
    /\ ~Bumping /\ ~checkAnyLabelExists
    /\ bump' = [base |-> named, asked |-> 0, tagMap |-> [r \in RepoNames |-> 0]]
    /\ UNCHANGED <<tags, named, bumpPR, pushes, byHand, bumpFailures>>

\* --- faulty variant of ResolveTag
ResolveTagOrEnd ==
    /\ Bumping /\ bump.asked < Len(Repos)
    /\ LET r == Repos[bump.asked + 1]
       IN  bump' = IF dated(r) = {} THEN NoBump
                   ELSE [bump EXCEPT !.asked = @ + 1, !.tagMap[r] = LatestSkopeoTag(r)]
    /\ UNCHANGED <<tags, named, bumpPR, pushes, byHand, bumpFailures>>
\* ---

\* ResolveKubevirtCITagMap, which skips a repository without tags of the pattern.
ResolveTag ==
    /\ Bumping /\ bump.asked < Len(Repos)
    /\ LET r == Repos[bump.asked + 1]
       IN  bump' = IF dated(r) = {} THEN [bump EXCEPT !.asked = @ + 1]
                   ELSE [bump EXCEPT !.asked = @ + 1, !.tagMap[r] = LatestSkopeoTag(r)]
    /\ UNCHANGED <<tags, named, bumpPR, pushes, byHand, bumpFailures>>

ReplaceKubevirtCIImage(k, r) ==
    IF bump.tagMap[r] = 0 THEN bump.base[k][r] ELSE bump.tagMap[r]

BumpJobImages(r) ==
    IF r \in Legacy THEN bump.base["jobs"][r] ELSE ReplaceKubevirtCIImage("jobs", r)
BumpProwDeploymentImages(r) == ReplaceKubevirtCIImage("deployments", r)

Bumped == [k \in Kinds |-> [r \in RepoNames |->
              CASE k = "jobs" -> BumpJobImages(r)
                [] k = "deployments" -> BumpProwDeploymentImages(r)
                [] k = "containerfiles" -> bumpOneContainerfile(r)]]

\* The branch is pushed if there is something new; the pull request gets its label, or
\* the call fails.
FinishBump ==
    /\ Bumping /\ bump.asked = Len(Repos)
    /\ IF Bumped = bump.base \/ (Proposed /\ bumpPR.result = Bumped) THEN UNCHANGED <<bumpPR, bumpFailures>>
       ELSE \/ /\ bumpPR' = [base |-> bump.base, result |-> Bumped, labelled |-> TRUE]
               /\ UNCHANGED bumpFailures
            \/ /\ bumpFailures < MaxBumpFailures /\ bumpFailures' = bumpFailures + 1
               /\ bumpPR' = [base |-> bump.base, result |-> Bumped, labelled |-> FALSE]
    /\ bump' = NoBump
    /\ UNCHANGED <<tags, named, pushes, byHand>>

\* What cannot be listed or inspected ends the process, before anything is written.
BumpFails ==
    /\ Bumping /\ bumpFailures < MaxBumpFailures
    /\ bumpFailures' = bumpFailures + 1
    /\ bump' = NoBump
    /\ UNCHANGED <<tags, named, bumpPR, pushes, byHand>>

-----------------------------------------------------------------------------
\* The pull request: git merges line by line, or finds a conflict.

BumpChanges(k, r) == bumpPR.result[k][r] # bumpPR.base[k][r]
Mergeable ==
    Proposed /\ \A k \in Kinds, r \in RepoNames :
                   BumpChanges(k, r) => named[k][r] \in {bumpPR.base[k][r], bumpPR.result[k][r]}

MergeBump ==
    /\ Mergeable
    /\ named' = [k \in Kinds |-> [r \in RepoNames |->
                    IF BumpChanges(k, r) THEN bumpPR.result[k][r] ELSE named[k][r]]]
    /\ bumpPR' = NoBumpPR
    /\ UNCHANGED <<tags, bump, pushes, byHand, bumpFailures>>

CloseConflicting ==
    /\ Proposed /\ ~Mergeable
    /\ bumpPR' = NoBumpPR
    /\ UNCHANGED <<tags, named, bump, pushes, byHand, bumpFailures>>

-----------------------------------------------------------------------------
\* images/publish_image.sh, and who tags an image "latest".
PushImage(r, tag) ==
    /\ pushes < MaxPushes /\ pushes' = pushes + 1
    /\ \A i \in dated(r) : tag # latest => tags[r][i].date <= tag.date /\ tags[r][i] # tag
    /\ tags' = [tags EXCEPT ![r] = Append(@, tag)]
    /\ UNCHANGED <<named, bump, bumpPR, byHand, bumpFailures>>

\* hack/update-jobs-with-latest-image.sh: the last tag of the list.
UpdateByHand(r) ==
    /\ byHand < MaxByHand /\ dated(r) # {}
    /\ byHand' = byHand + 1
    /\ named' = [named EXCEPT !["jobs"][r] =
                    CHOOSE i \in ofLastDate(r) : \A j \in ofLastDate(r) : tags[r][j].hash <= tags[r][i].hash]
    /\ UNCHANGED <<tags, bump, bumpPR, pushes, bumpFailures>>

BumperStep == StartBump \/ ResolveTag \/ FinishBump \/ BumpFails
BumperNext ==
    \/ StartBump \/ ResolveTag \/ FinishBump \/ BumpFails
    \/ MergeBump \/ CloseConflicting
    \/ \E r \in RepoNames : UpdateByHand(r) \/ \E tag \in DatedTags \cup {latest} : PushImage(r, tag)

BumperSpec == BumperInit /\ [][BumperNext]_bumperVars

-----------------------------------------------------------------------------
\* Jobs and deployments name a tag of the last date.
ImagesFollow ==
    \A r \in RepoNames : dated(r) # {} =>
        /\ named["deployments"][r] \in ofLastDate(r)
        /\ r \notin Legacy => named["jobs"][r] \in ofLastDate(r)

\* Neither a late merge nor a person takes jobs or deployments back to a tag of an earlier
\* date, or a Containerfile back to a tag that was created earlier.
NothingGoesBack ==
    \A r \in RepoNames :
        /\ \A k \in {"jobs", "deployments"} : DateOf(r, named[k][r]) <= DateOf(r, named[k][r])'
        /\ named["containerfiles"][r] <= named'["containerfiles"][r]

\* What the robot takes was created last among the tags of the last date.
NewestIsTaken ==
    Bumping /\ Bumping' =>
        \A r \in RepoNames : bump'.tagMap[r] # bump.tagMap[r] =>
            \A i \in ofLastDate(r) : i <= bump'.tagMap[r]
=============================================================================
