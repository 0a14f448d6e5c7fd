------------------------------- MODULE Mirror -------------------------------
(***************************************************************************)
(* robots/uploader with pkg/mirror: copies what a WORKSPACE file downloads *)
(* to a bucket and adds the copies to the file as further locations.  A    *)
(* periodic job runs it on a checkout of main and proposes the file with   *)
(* hack/git-pr.sh; with --continue-on-error people run it by hand and      *)
(* propose the file it leaves.  Meanwhile the sources of the downloads     *)
(* come and go, and people bump the artifacts.                             *)
(***************************************************************************)
EXTENDS Integers, FiniteSets

CONSTANTS
    Artifacts,          \* rules of the WORKSPACE file
    OnGoogleStorage,    \* those whose source matches targetMirrorURLPattern itself
    ContinueOnError,
    BumpedArtifacts,    \* those people bump meanwhile
    MaxArtifactVersion, \* bound on the bumps of each
    MaxSourceChanges,   \* bound on changes of the sources
    MaxMirrorFailures   \* bound on failing accesses to the bucket

MirrorAssumption ==
    /\ OnGoogleStorage \subseteq Artifacts /\ BumpedArtifacts \subseteq Artifacts /\ ContinueOnError \in BOOLEAN
    /\ {MaxArtifactVersion, MaxSourceChanges, MaxMirrorFailures} \subseteq Nat

Versions == 0..MaxArtifactVersion
Files == Artifacts \X Versions      \* a version stands for its SHA256
Answers == {"the file", "another", "404"}   \* "another" for any that does not have the sum

VARIABLES
    source,         \* what the source of each file serves
    bucketObjects,  \* what the bucket has under the SHA256 of each file
    workspace,      \* main: the version of each artifact, and where it is found
    upload,         \* the running robot, NoUpload if none
    mirrorPR,       \* its branch: the file it began with, and the one it wrote
    sourceChanges, mirrorFailures

mirrorVars == <<source, bucketObjects, workspace, upload, mirrorPR, sourceChanges, mirrorFailures>>

Rules == [version : Versions, urls : SUBSET {"source", "mirror"}]
Workspaces == [Artifacts -> Rules]
NoUpload == [todo |-> {"none"}]
NoPR == [base |-> <<>>]
Running == upload # NoUpload

MirrorTypeOK ==
    /\ source \in [Files -> Answers]
    /\ bucketObjects \in [Files -> {"nothing", "the file", "another"}]
    /\ workspace \in Workspaces
    /\ Running => /\ upload.base \in Workspaces /\ upload.file \in Workspaces
                  /\ upload.todo \subseteq Artifacts \ OnGoogleStorage
    /\ mirrorPR # NoPR => mirrorPR.base \in Workspaces /\ mirrorPR.result \in Workspaces \ {mirrorPR.base}
    /\ sourceChanges \in 0..MaxSourceChanges /\ mirrorFailures \in 0..MaxMirrorFailures
    /\ \A a \in Artifacts : workspace[a].urls # {}

MirrorInit ==
    /\ source = [f \in Files |-> "the file"]
    /\ bucketObjects = [f \in Files |-> "nothing"]
    /\ workspace = [a \in Artifacts |-> [version |-> 0, urls |-> {"source"}]]
    /\ upload = NoUpload
    /\ mirrorPR = NoPR
    /\ sourceChanges = 0
    /\ mirrorFailures = 0

-----------------------------------------------------------------------------
FileOf(ws, a) == <<a, ws[a].version>>

\* Any location on Google's storage counts as a mirror, also of somebody else.
getMirror(ws, a) == "mirror" \in ws[a].urls \/ a \in OnGoogleStorage
FilterArtifactsWithoutMirror(ws) == {a \in Artifacts : ws[a].urls # {} /\ ~getMirror(ws, a)}

\* The file that is read, and what is left to upload.
StartUpload ==
    /\ ~Running
    /\ upload' = [base |-> workspace, file |-> workspace,
                  todo |-> FilterArtifactsWithoutMirror(workspace)]
    /\ upload'.todo # {} \/ \E a \in Artifacts : source[FileOf(workspace, a)] = "404"
    /\ UNCHANGED <<source, bucketObjects, workspace, mirrorPR, sourceChanges, mirrorFailures>>

Downloadable(a) ==
    "source" \in upload.file[a].urls /\ source[FileOf(upload.file, a)] = "the file"

\* --- faulty variants of Stored
StoredUnchecked(a) ==
    LET f == FileOf(upload.file, a)
    IN  IF bucketObjects[f] # "nothing" THEN bucketObjects[f]
        ELSE IF source[f] \in {"the file", "another"} THEN source[f] ELSE "nothing"
StoredAnew(a) ==
    IF bucketObjects[FileOf(upload.file, a)] = "nothing" /\ Downloadable(a) THEN "the file" ELSE "nothing"
\* ---

\* WriteToBucket: nothing is done for an object that exists, and one is kept only
\* of what has the right sum.
Stored(a) ==
    LET f == FileOf(upload.file, a)
    IN  IF bucketObjects[f] # "nothing" THEN bucketObjects[f]
        ELSE IF Downloadable(a) THEN "the file" ELSE "nothing"

\* AppendURL
WithMirror(a) == [upload EXCEPT !.todo = @ \ {a}, !.file[a].urls = @ \cup {"mirror"}]

UploadOne(a) ==
    /\ Running /\ a \in upload.todo
    /\ Stored(a) # "nothing"
    /\ bucketObjects' = [bucketObjects EXCEPT ![FileOf(upload.file, a)] = Stored(a)]
    /\ upload' = WithMirror(a)
    /\ UNCHANGED <<source, workspace, mirrorPR, sourceChanges, mirrorFailures>>

\* What cannot be uploaded ends the process, or is logged.
UploadFails(a) ==
    /\ Running /\ a \in upload.todo
    /\ \/ Stored(a) = "nothing" /\ UNCHANGED mirrorFailures
       \/ mirrorFailures < MaxMirrorFailures /\ mirrorFailures' = mirrorFailures + 1
    /\ upload' = IF ContinueOnError THEN WithMirror(a) ELSE NoUpload
    /\ UNCHANGED <<source, bucketObjects, workspace, mirrorPR, sourceChanges>>

\* RemoveStaleDownloadURLS, which leaves Google's storage alone.
RemoveStaleDownloadURLS(ws) ==
    [a \in Artifacts |->
       IF a \notin OnGoogleStorage /\ source[FileOf(ws, a)] = "404"
         THEN [ws[a] EXCEPT !.urls = @ \ {"source"}] ELSE ws[a]]

CheckArtifactsHaveURLS(ws) == \A a \in Artifacts : ws[a].urls # {}

\* The file is written, unless an artifact has no location any more, and put on
\* the branch, unless it is as main or that.
FinishUpload ==
    LET written == RemoveStaleDownloadURLS(upload.file)
    IN  /\ Running /\ upload.todo = {}
        /\ mirrorPR' = IF /\ CheckArtifactsHaveURLS(written) /\ written # upload.base
                          /\ mirrorPR = NoPR \/ mirrorPR.result # written
                         THEN [base |-> upload.base, result |-> written] ELSE mirrorPR
        /\ upload' = NoUpload
        /\ UNCHANGED <<source, bucketObjects, workspace, sourceChanges, mirrorFailures>>

\* git merges rule by rule, or reports a conflict.
MergeMirrorPR ==
    LET changed == {a \in Artifacts : mirrorPR.result[a] # mirrorPR.base[a]}
    IN  /\ mirrorPR # NoPR
        /\ \A a \in changed : workspace[a] \in {mirrorPR.base[a], mirrorPR.result[a]}
        /\ workspace' = [a \in Artifacts |-> IF a \in changed THEN mirrorPR.result[a] ELSE workspace[a]]
        /\ mirrorPR' = NoPR
        /\ UNCHANGED <<source, bucketObjects, upload, sourceChanges, mirrorFailures>>

-----------------------------------------------------------------------------
\* People take a new version, from its source.
Bump(a) ==
    /\ a \in BumpedArtifacts /\ workspace[a].version < MaxArtifactVersion
    /\ workspace' = [workspace EXCEPT ![a] = [version |-> @.version + 1, urls |-> {"source"}]]
    /\ UNCHANGED <<source, bucketObjects, upload, mirrorPR, sourceChanges, mirrorFailures>>

ChangeSource(f, to) ==
    /\ sourceChanges < MaxSourceChanges /\ source[f] # to
    /\ f[1] \in BumpedArtifacts \/ f[2] = 0
    /\ sourceChanges' = sourceChanges + 1
    /\ source' = [source EXCEPT ![f] = to]
    /\ UNCHANGED <<bucketObjects, workspace, upload, mirrorPR, mirrorFailures>>

MirrorNext ==
    \/ StartUpload \/ FinishUpload \/ MergeMirrorPR
    \/ \E a \in Artifacts : UploadOne(a) \/ UploadFails(a) \/ Bump(a)
    \/ \E f \in Files, to \in Answers : ChangeSource(f, to)

MirrorSpec == MirrorInit /\ [][MirrorNext]_mirrorVars

UploaderStep == \/ StartUpload \/ FinishUpload
                \/ \E a \in Artifacts : UploadOne(a) \/ UploadFails(a)

-----------------------------------------------------------------------------
\* The uploader "uploads them to the specified GCS bucket and finally adds the upload
\* location" (its README): a copy that main's WORKSPACE names is there, and is the file.
CopiesExist ==
    \A a \in Artifacts : "mirror" \in workspace[a].urls => bucketObjects[FileOf(workspace, a)] = "the file"

\* No merge of the robot's work takes the last working location of an artifact.
Found(ws, objects, a) ==
    \/ "source" \in ws[a].urls /\ source[FileOf(ws, a)] = "the file"
    \/ "mirror" \in ws[a].urls /\ objects[FileOf(ws, a)] = "the file"
StaysFound ==
    \A a \in Artifacts :
        (source' = source /\ workspace'[a].version = workspace[a].version /\ Found(workspace, bucketObjects, a))
            => Found(workspace', bucketObjects', a)

Mirrored == FilterArtifactsWithoutMirror(workspace) = {}
SourcesServe == \A a \in Artifacts : source[FileOf(workspace, a)] = "the file"
=============================================================================
