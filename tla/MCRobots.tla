------------------------------- MODULE MCRobots -------------------------------
(***************************************************************************)
(* The robots that have nothing to do with each other, side by side: a     *)
(* behaviour is one of the program chosen at first, the others rest.       *)
(* The uploader is the extended module, of which a theorem is a property.  *)
(***************************************************************************)
EXTENDS Mirror, Sequences, TLC

VARIABLES
    program,
    order, old, held, statuses, comments, query, todo, modified, problems, updates, retestFailures,
    tagOfMain, latestMinor, images, lastTag, tagAge, step, tag, outdated, imageFailures,
    policy, position, answered, billingFailures,
    periodics, spreaded,
    newest, patches, mainFiles, users, proposed, forced,
    tags, named, bump, bumpPR, pushes, byHand, bumpFailures

-----------------------------------------------------------------------------
\* A lane in two versions, a build, and a job that is not required.
presubmit(name, optional, deterministic, lane, version) ==
    [name |-> name, alwaysRun |-> TRUE, optional |-> optional, pathBased |-> FALSE,
     deterministic |-> deterministic, lane |-> lane, version |-> version]
MCPresubmits == { presubmit("build", FALSE, TRUE, "", 0), presubmit("optional", TRUE, FALSE, "", 0),
                  presubmit("e2e-1", FALSE, FALSE, "network", 1), presubmit("e2e-2", FALSE, FALSE, "network", 2) }
outcome(failed) == [j \in {p.name : p \in MCPresubmits} |-> IF j \in failed THEN "failure" ELSE "success"]
RT == INSTANCE Retester WITH
    Presubmits <- MCPresubmits,
    PullRequests <- {"p", "q"},
    Queries <- <<{"p", "q"}, {"q"}>>,
    Outcomes <- {outcome({"optional"}), outcome({"e2e-1"}), outcome({"build"}), outcome({"e2e-1", "e2e-2"})},
    Ceiling <- 1, MaxUpdates <- 2, MaxRetestFailures <- 1

SI == INSTANCE SharedImages WITH
    MaxTag <- 3, MaxMinor <- 4, CleanupDelay <- 4, MaxImageFailures <- 1

LI == INSTANCE Limiter WITH
    Buckets <- {"reports", "images"}, BucketOrder <- <<"reports", "images">>,
    Cut <- {"allUsers", "serviceAccount:a"},
    Policies <- { "viewer" :> <<"allUsers">>,
                  "viewer" :> <<"user:a", "allUsers">>,
                  ("viewer" :> <<"allUsers", "user:a", "serviceAccount:a">>) @@ ("admin" :> <<"user:a">>) },
    MaxBilling <- 1

periodic(name, prefixed, section, version) ==
    [name |-> name, matches |-> TRUE, prefixed |-> prefixed, section |-> section, version |-> version]
hourly(period) == [n \in 1..24 \div period |-> (n - 1) * period]
PJ_None == [minute |-> -1, hours |-> <<>>]
PJ == INSTANCE PeriodicJobs WITH
    Jobs <- { periodic(1, TRUE, "network", "1.34"), periodic(2, TRUE, "network", "1.35"),
              [periodic(3, FALSE, "other", "1.35") EXCEPT !.matches = FALSE] },
    Crons <- { PJ_None, [minute |-> 5, hours |-> <<1>>], [minute |-> 5, hours |-> <<3, 9, 13, 23>>],
               [minute |-> 0, hours |-> hourly(1)], [minute |-> 0, hours |-> <<1, 4, 8, 9, 20>>] },
    MaxPeriodics <- 3

KC == INSTANCE KubeVirtCI WITH FirstMinor <- 33, MaxNewMinor <- 36, MaxExtras <- 1

IB == INSTANCE ImageBumper WITH
    Repos <- <<"bootstrap-legacy", "golang">>, Legacy <- {"bootstrap-legacy"},
    DatedTags <- {[date |-> 1, hash |-> 2], [date |-> 1, hash |-> 1], [date |-> 2, hash |-> 2]},
    MaxPushes <- 2, MaxByHand <- 1, MaxBumpFailures <- 1

-----------------------------------------------------------------------------
retesterVars == <<order, old, held, statuses, comments, query, todo, modified, problems, updates,
                  retestFailures>>
imagesVars == <<tagOfMain, latestMinor, images, lastTag, tagAge, step, tag, outdated, imageFailures>>
limiterVars == <<policy, position, answered, billingFailures>>
periodicsVars == <<periodics, spreaded>>
kubevirtciVars == <<newest, patches, mainFiles, users, proposed, forced>>
bumperVars == <<tags, named, bump, bumpPR, pushes, byHand, bumpFailures>>
vars == <<program, retesterVars, imagesVars, limiterVars, periodicsVars, kubevirtciVars, mirrorVars,
          bumperVars>>

TypeOK ==
    CASE program = "retester" -> RT!RetesterTypeOK
      [] program = "shared-images-controller" -> SI!ImagesTypeOK
      [] program = "limiter" -> LI!LimiterTypeOK
      [] program = "periodic-jobs" -> PJ!PeriodicsTypeOK
      [] program = "kubevirtci" -> KC!KubeVirtCITypeOK
      [] program = "uploader" -> MirrorTypeOK
      [] program = "image-bumper" -> IB!BumperTypeOK

ASSUME RobotsAssumption ==
    /\ RT!RetesterAssumption /\ SI!ImagesAssumption /\ LI!LimiterAssumption /\ PJ!PeriodicsAssumption
    /\ KC!KubeVirtCIAssumption /\ MirrorAssumption /\ IB!BumperAssumption

\* Only the chosen program has more than one initial state; a push and its tests give
\* the pull requests of the retester the outcomes they do not have at first.
Init ==
    /\ program \in {"retester", "shared-images-controller", "limiter", "periodic-jobs", "kubevirtci",
                   "uploader", "image-bumper"}
    /\ RT!RetesterInit /\ SI!ImagesInit /\ LI!LimiterInit /\ PJ!PeriodicsInit /\ KC!KubeVirtCIInit
    /\ MirrorInit /\ IB!BumperInit
    /\ order = <<"p", "q">>
    /\ statuses["q"] = outcome({"build"})
    /\ program # "retester" => statuses["p"] = outcome({"build"})
    /\ program # "limiter" => \A b \in DOMAIN policy : policy[b] = "viewer" :> <<"allUsers">>

OnlyRetester == program = "retester" /\
    UNCHANGED <<program, imagesVars, limiterVars, periodicsVars, kubevirtciVars, mirrorVars, bumperVars>>
OnlyController == program = "shared-images-controller" /\
    UNCHANGED <<program, retesterVars, limiterVars, periodicsVars, kubevirtciVars, mirrorVars, bumperVars>>
OnlyLimiter == program = "limiter" /\
    UNCHANGED <<program, retesterVars, imagesVars, periodicsVars, kubevirtciVars, mirrorVars, bumperVars>>
OnlyPeriodicJobs == program = "periodic-jobs" /\
    UNCHANGED <<program, retesterVars, imagesVars, limiterVars, kubevirtciVars, mirrorVars, bumperVars>>
OnlyKubeVirtCI == program = "kubevirtci" /\
    UNCHANGED <<program, retesterVars, imagesVars, limiterVars, periodicsVars, mirrorVars, bumperVars>>
OnlyUploader == program = "uploader" /\
    UNCHANGED <<program, retesterVars, imagesVars, limiterVars, periodicsVars, kubevirtciVars, bumperVars>>
OnlyBumper == program = "image-bumper" /\
    UNCHANGED <<program, retesterVars, imagesVars, limiterVars, periodicsVars, kubevirtciVars, mirrorVars>>

Next ==
    \/ OnlyRetester /\ RT!RetesterNext
    \/ OnlyController /\ SI!ImagesNext
    \/ OnlyLimiter /\ LI!LimiterNext
    \/ OnlyPeriodicJobs /\ PJ!PeriodicsNext
    \/ OnlyKubeVirtCI /\ KC!KubeVirtCINext
    \/ OnlyUploader /\ MirrorNext
    \/ OnlyBumper /\ IB!BumperNext

\* The retester is run periodically, and time passes.  So are the robots of
\* KubeVirtCI, the uploader and the image bumper; what git can merge again and again is
\* merged in the end, and what it cannot and the robot leaves alone is closed.  As a
\* behaviour is of one program, a condition may be about several of them.
OneRobot == "ensure-latest"
AnotherRobot == "presubmit-creator"
RobotRuns ==
    \/ OnlyRetester /\ (RT!StartRun \/ RT!EndQuery \/ RT!Process)
    \/ OnlyUploader /\ UploaderStep
    \/ OnlyBumper /\ IB!BumperStep
RobotMerges ==
    \/ OnlyUploader /\ MergeMirrorPR
    \/ OnlyBumper /\ IB!MergeBump
Runs(r) ==
    \/ OnlyKubeVirtCI /\ KC!RunRobot(r)
    \/ r = OneRobot /\ RobotRuns
    \/ r = AnotherRobot /\ OnlyRetester /\ RT!Age
Merges(r) ==
    \/ OnlyKubeVirtCI /\ KC!MergeProposed(r)
    \/ r = OneRobot /\ RobotMerges
    \/ r = AnotherRobot /\ OnlyBumper /\ IB!CloseConflicting

Spec ==
    /\ Init /\ [][Next]_vars
    /\ \A r \in KC!Robots : WF_vars(Runs(r)) /\ SF_vars(Merges(r))

-----------------------------------------------------------------------------
\* No pull request is left unanswered for ever by the retester, however few a run
\* may comment on and whatever became of the others.
EveryoneIsAnswered == \A p \in {"p", "q"} : []<>~RT!Unanswered(p)

\* Nothing is removed that is in use.  The controller removes the images of a tag
\* only when the tests of pull requests from before main went on from it have
\* ended, through changes of the tag it has not seen, restarts and failing pulls.
\* The robots of KubeVirtCI never remove what belongs to one of the three newest
\* minors or one to come, or to a job of kubevirt, however old their branch is.  The
\* uploader never takes the last location that works from an artifact.  No image in use
\* is replaced by an older one, however late the bumper's pull request is merged.
InUseStays ==
    [][/\ program = "shared-images-controller" => SI!RemovedLate
       /\ program = "kubevirtci" => KC!InUseStay
       /\ program = "uploader" => StaysFound
       /\ program = "image-bumper" => IB!NothingGoesBack]_vars

\* Whenever sources serve what was taken from them for long enough, everything is
\* mirrored, however many runs ended before at one that did not.
EverythingIsMirrored == program = "uploader" => []<>(Mirrored \/ ~SourcesServe)

\* Whenever no images are pushed for long enough, jobs and deployments name tags of the
\* last date, whatever conflicted or was left alone because of its label.
ImagesFollow == program = "image-bumper" => []<>IB!ImagesFollow

\* skopeo.go says that of tags of one date it compares the time of their creation: the
\* bumper takes the one that was created last.
NewestIsTaken == [][IB!NewestIsTaken]_vars

\* Whenever Kubernetes and people pause for long enough, the newest minor has its
\* provider, its cluster-up directory and its presubmit, and the supported
\* providers are at their last patch, whatever was merged late or conflicted.
ProvidersFollow == program = "kubevirtci" => []<>KC!Followed

\* Spread starts jobs of one frequency one after the other, and runs each as often
\* as before if a day is a multiple of its period, whatever people wrote before.
JobsAreSpread == [][spreaded' /\ ~spreaded => PJ!SpreadWell /\ PJ!ChartIsComplete(periodics')]_vars

\* The README of the limiter says that the connections of the buckets to the outside
\* world are cut on an alert: none of the members to be removed is left in a bucket
\* it has handled.
ConnectionsAreCut == LI!ConnectionsAreCut
=============================================================================
