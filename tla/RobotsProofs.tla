---------------------------- MODULE RobotsProofs ----------------------------
(***************************************************************************)
(* What the robots of Mirror, SharedImages, KubeVirtCI, PeriodicJobs,      *)
(* ImageBumper and Retester never do, for any files, sources, minors, jobs,*)
(* tags, comments, failures and late merges.  They share no state: each    *)
(* part has a specification and an invariant of its own.                   *)
(***************************************************************************)
EXTENDS Mirror, SharedImages, KubeVirtCI, PeriodicJobs, ImageBumper, Retester,
        FiniteSetTheorems, WellFoundedInduction, TLAPS

-----------------------------------------------------------------------------
(***************************************************************************)
(* The uploader.  Without --continue-on-error a WORKSPACE file on main names*)
(* no copy that is not there, and loses no location that works.            *)
(***************************************************************************)

Uploads == [base : Workspaces, file : Workspaces, todo : SUBSET (Artifacts \ OnGoogleStorage)]

\* As MirrorTypeOK, with the whole of the records.
MirrorTypeInv ==
    /\ source \in [Files -> Answers]
    /\ bucketObjects \in [Files -> {"nothing", "the file"}]
    /\ workspace \in Workspaces
    /\ Running => upload \in Uploads
    /\ mirrorPR # NoPR => mirrorPR.base \in Workspaces /\ mirrorPR.result \in Workspaces

Counted == sourceChanges \in 0..MaxSourceChanges /\ mirrorFailures \in 0..MaxMirrorFailures

\* Every copy a file names is in the bucket.
Copied(ws) ==
    \A a \in Artifacts : "mirror" \in ws[a].urls => bucketObjects[FileOf(ws, a)] = "the file"
Located(ws) == \A a \in Artifacts : ws[a].urls # {}

\* The robot's file has the versions it began with, and the copies these had.
Follows(ws, base) ==
    \A a \in Artifacts :
        /\ ws[a].version = base[a].version
        /\ "mirror" \in base[a].urls => "mirror" \in ws[a].urls

MainInv == Copied(workspace) /\ Located(workspace)
UploadInv == Running => Copied(upload.file) /\ Follows(upload.file, upload.base)
PRInv == mirrorPR # NoPR => /\ Copied(mirrorPR.result) /\ Located(mirrorPR.result)
                            /\ Follows(mirrorPR.result, mirrorPR.base)
                            /\ mirrorPR.result # mirrorPR.base

MirrorIInv == MirrorTypeInv /\ Counted /\ MainInv /\ UploadInv /\ PRInv

-----------------------------------------------------------------------------
\* A rule of a file belongs to one of the files.
LEMMA FileOfRule ==
    ASSUME NEW ws \in Workspaces, NEW a \in Artifacts
    PROVE  FileOf(ws, a) \in Files
BY DEF FileOf, Workspaces, Rules, Files

\* RemoveStaleDownloadURLS takes locations away only, and no copies.
LEMMA StaleOnly ==
    ASSUME NEW ws \in Workspaces
    PROVE  /\ RemoveStaleDownloadURLS(ws) \in Workspaces
           /\ \A a \in Artifacts :
                 /\ RemoveStaleDownloadURLS(ws)[a].version = ws[a].version
                 /\ "mirror" \in RemoveStaleDownloadURLS(ws)[a].urls <=> "mirror" \in ws[a].urls
<1> DEFINE New(a) == IF a \notin OnGoogleStorage /\ source[FileOf(ws, a)] = "404"
                       THEN [ws[a] EXCEPT !.urls = @ \ {"source"}] ELSE ws[a]
<1>1. ASSUME NEW a \in Artifacts
      PROVE  /\ New(a) \in Rules
             /\ New(a).version = ws[a].version
             /\ "mirror" \in New(a).urls <=> "mirror" \in ws[a].urls
  <2>1. ws[a] \in Rules
    BY <1>1 DEF Workspaces
  <2>2. QED
    BY <2>1 DEF Rules
<1>2. RemoveStaleDownloadURLS(ws) = [a \in Artifacts |-> New(a)]
  BY DEF RemoveStaleDownloadURLS
<1> HIDE DEF New
<1>3. QED
  BY <1>1, <1>2 DEF Workspaces

\* The bucket keeps what it has, and takes nothing but the file.
LEMMA StoredIsFile ==
    ASSUME MirrorTypeInv, Running, NEW a \in upload.todo, Stored(a) # "nothing"
    PROVE  Stored(a) = "the file"
<1>1. upload.file \in Workspaces /\ a \in Artifacts
  BY DEF MirrorTypeInv, Uploads
<1>2. FileOf(upload.file, a) \in Files
  BY <1>1, FileOfRule
<1>3. QED
  BY <1>2 DEF Stored, MirrorTypeInv

\* The bounds are numbers.
LEMMA MirrorBounds ==
    ASSUME MirrorAssumption
    PROVE  MaxArtifactVersion \in Nat /\ MaxSourceChanges \in Nat /\ MaxMirrorFailures \in Nat
BY Zenon DEF MirrorAssumption

-----------------------------------------------------------------------------
LEMMA MirrorInitIInv == MirrorAssumption /\ MirrorInit => MirrorIInv
<1> SUFFICES ASSUME MirrorAssumption, MirrorInit PROVE MirrorIInv
  OBVIOUS
<1>0. MaxArtifactVersion \in Nat /\ MaxSourceChanges \in Nat /\ MaxMirrorFailures \in Nat
  BY MirrorBounds
<1>1. 0 \in Versions
  BY <1>0 DEF Versions
<1>2. workspace \in Workspaces
  BY <1>1 DEF MirrorInit, Workspaces, Rules
<1>3. MirrorTypeInv
  BY <1>2 DEF MirrorInit, MirrorTypeInv, Answers, Running
<1>4. Counted
  <2>1. sourceChanges = 0 /\ mirrorFailures = 0
    BY DEF MirrorInit
  <2>2. QED
    BY <1>0, <2>1 DEF Counted
<1>5. MainInv
  BY DEF MirrorInit, MainInv, Copied, Located
<1>6. UploadInv /\ PRInv
  BY DEF MirrorInit, UploadInv, PRInv, Running
<1>7. QED
  BY <1>3, <1>4, <1>5, <1>6 DEF MirrorIInv

\* --- the steps

LEMMA StartUploadIInv == MirrorIInv /\ StartUpload => MirrorIInv'
<1> SUFFICES ASSUME MirrorIInv, StartUpload PROVE MirrorIInv'
  OBVIOUS
<1>1. upload' = [base |-> workspace, file |-> workspace, todo |-> FilterArtifactsWithoutMirror(workspace)]
  BY DEF StartUpload
<1>2. FilterArtifactsWithoutMirror(workspace) \subseteq Artifacts \ OnGoogleStorage
  BY DEF FilterArtifactsWithoutMirror, getMirror
<1>3. upload' \in Uploads
  BY <1>1, <1>2 DEF MirrorIInv, MirrorTypeInv, Uploads
<1>4. MirrorTypeInv'
  BY <1>3 DEF StartUpload, MirrorIInv, MirrorTypeInv
<1>5. MainInv' /\ PRInv' /\ Counted'
  BY DEF StartUpload, MirrorIInv, MainInv, PRInv, Counted, Copied, Located, Follows, FileOf
<1>6. Copied(workspace)' /\ upload'.file = workspace' /\ upload'.base = workspace'
  BY <1>1, <1>5 DEF MainInv, StartUpload
<1>7. UploadInv'
  BY <1>6 DEF UploadInv, Copied, Follows, FileOf
<1>8. QED
  BY <1>4, <1>5, <1>7 DEF MirrorIInv

\* What has been copied stays copied when the file of one more artifact is stored.
LEMMA UploadOneIInv == ASSUME NEW a PROVE MirrorIInv /\ UploadOne(a) => MirrorIInv'
<1> SUFFICES ASSUME MirrorIInv, UploadOne(a) PROVE MirrorIInv'
  OBVIOUS
<1> USE DEF UploadOne
<1> DEFINE f == FileOf(upload.file, a)
<1>1. upload \in Uploads /\ a \in Artifacts
  BY DEF MirrorIInv, MirrorTypeInv, Uploads
<1>2. f \in Files
  BY <1>1, FileOfRule DEF Uploads
<1>3. Stored(a) = "the file"
  BY StoredIsFile DEF MirrorIInv
<1>4. bucketObjects' \in [Files -> {"nothing", "the file"}] /\ bucketObjects'[f] = "the file"
  BY <1>2, <1>3 DEF MirrorIInv, MirrorTypeInv
<1>5. \A g \in Files : bucketObjects[g] = "the file" => bucketObjects'[g] = "the file"
  BY <1>2, <1>3 DEF MirrorIInv, MirrorTypeInv
<1>6. /\ upload' \in Uploads /\ upload'.base = upload.base
      /\ \A b \in Artifacts : upload'.file[b].version = upload.file[b].version
      /\ \A b \in Artifacts \ {a} : upload'.file[b].urls = upload.file[b].urls
      /\ upload'.file[a].urls = upload.file[a].urls \cup {"mirror"}
  <2>1. upload.file[a] \in Rules
    BY <1>1 DEF Uploads, Workspaces
  <2> DEFINE rule == [upload.file[a] EXCEPT !.urls = @ \cup {"mirror"}]
             file == [upload.file EXCEPT ![a] = rule]
  <2>2. /\ rule \in Rules /\ rule.version = upload.file[a].version
        /\ rule.urls = upload.file[a].urls \cup {"mirror"}
    BY <2>1 DEF Rules
  <2>3. upload' = [upload EXCEPT !.todo = @ \ {a}, !.file = file]
    BY <1>1 DEF WithMirror, Uploads
  <2> HIDE DEF rule
  <2>4. file \in Workspaces /\ file[a] = rule /\ \A b \in Artifacts \ {a} : file[b] = upload.file[b]
    BY <1>1, <2>2 DEF Uploads, Workspaces
  <2>5. upload'.file = file
    BY <1>1, <2>3 DEF Uploads
  <2> HIDE DEF file
  <2>6. upload' \in Uploads /\ upload'.base = upload.base
    BY <1>1, <2>3, <2>4 DEF Uploads
  <2>7. QED
    BY <1>1, <2>2, <2>4, <2>5, <2>6
<1>7. MirrorTypeInv'
  BY <1>4, <1>6 DEF MirrorIInv, MirrorTypeInv
<1>8. ASSUME NEW ws \in Workspaces, Copied(ws)
      PROVE  \A b \in Artifacts : "mirror" \in ws[b].urls => bucketObjects'[FileOf(ws, b)] = "the file"
  BY <1>5, <1>8, FileOfRule DEF Copied
<1>9. MainInv'
  BY <1>8 DEF MirrorIInv, MirrorTypeInv, MainInv, Copied, Located, FileOf
<1>10. PRInv'
  BY <1>8 DEF MirrorIInv, MirrorTypeInv, PRInv, Copied, Located, Follows, FileOf
<1>11. UploadInv'
  <2>1. Copied(upload.file) /\ Follows(upload.file, upload.base) /\ upload.file \in Workspaces
    BY <1>1 DEF MirrorIInv, UploadInv, Uploads
  <2>2. FileOf(upload'.file, a) = f /\ \A b \in Artifacts : FileOf(upload'.file, b) = FileOf(upload.file, b)
    BY <1>1, <1>6 DEF FileOf
  <2>3. Copied(upload.file)'
    <3> SUFFICES ASSUME NEW b \in Artifacts, "mirror" \in upload'.file[b].urls
                 PROVE  bucketObjects'[FileOf(upload'.file, b)] = "the file"
      BY DEF Copied, FileOf
    <3>1. CASE b = a
      BY <1>4, <2>2, <3>1
    <3>2. CASE b # a
      <4>1. "mirror" \in upload.file[b].urls
        BY <1>6, <3>2
      <4>2. bucketObjects'[FileOf(upload.file, b)] = "the file"
        BY <1>8, <2>1, <4>1
      <4>3. QED
        BY <2>2, <4>2
    <3>3. QED
      BY <3>1, <3>2
  <2>4. Follows(upload.file, upload.base)'
    BY <1>1, <1>6, <2>1 DEF Follows
  <2>5. QED
    BY <2>3, <2>4 DEF UploadInv
<1>12. QED
  BY <1>7, <1>9, <1>10, <1>11 DEF MirrorIInv, Counted

LEMMA UploadFailsIInv ==
    ASSUME NEW a, ~ContinueOnError, MirrorAssumption
    PROVE  MirrorIInv /\ UploadFails(a) => MirrorIInv'
<1> SUFFICES ASSUME MirrorIInv, UploadFails(a) PROVE MirrorIInv'
  OBVIOUS
<1> USE DEF UploadFails
<1>1. upload' = NoUpload
  OBVIOUS
<1>2. MirrorTypeInv' /\ UploadInv'
  BY <1>1 DEF MirrorIInv, MirrorTypeInv, UploadInv, Running
<1>3. MainInv' /\ PRInv'
  BY DEF MirrorIInv, MainInv, PRInv, Copied, Located, Follows, FileOf
<1>4. MaxSourceChanges \in Nat /\ MaxMirrorFailures \in Nat
  BY MirrorBounds
<1>5. Counted'
  BY <1>4 DEF MirrorIInv, Counted
<1>6. QED
  BY <1>2, <1>3, <1>5 DEF MirrorIInv

LEMMA FinishUploadIInv == MirrorIInv /\ FinishUpload => MirrorIInv'
<1> SUFFICES ASSUME MirrorIInv, FinishUpload PROVE MirrorIInv'
  OBVIOUS
<1> USE DEF FinishUpload
<1> DEFINE written == RemoveStaleDownloadURLS(upload.file)
<1>1. upload \in Uploads
  BY DEF MirrorIInv, MirrorTypeInv
<1>2. /\ written \in Workspaces
      /\ \A a \in Artifacts : /\ written[a].version = upload.file[a].version
                              /\ "mirror" \in written[a].urls <=> "mirror" \in upload.file[a].urls
  BY <1>1, StaleOnly DEF Uploads
<1> HIDE DEF written
<1>3. Copied(written) /\ Follows(written, upload.base)
  BY <1>2 DEF MirrorIInv, UploadInv, Copied, Follows, FileOf
<1>4. \/ mirrorPR' = mirrorPR
      \/ /\ mirrorPR' = [base |-> upload.base, result |-> written]
         /\ CheckArtifactsHaveURLS(written) /\ written # upload.base
  BY DEF written
<1>5. upload' = NoUpload
  OBVIOUS
<1>6. MirrorTypeInv' /\ UploadInv'
  BY <1>1, <1>2, <1>4, <1>5 DEF MirrorIInv, MirrorTypeInv, UploadInv, Running, Uploads
<1>7. PRInv'
  BY <1>3, <1>4 DEF MirrorIInv, PRInv, CheckArtifactsHaveURLS, Copied, Located, Follows, FileOf
<1>8. MainInv' /\ Counted'
  BY DEF MirrorIInv, MainInv, Counted, Copied, Located, FileOf
<1>9. QED
  BY <1>6, <1>7, <1>8 DEF MirrorIInv

LEMMA MergeIInv == MirrorIInv /\ MergeMirrorPR => MirrorIInv'
<1> SUFFICES ASSUME MirrorIInv, MergeMirrorPR PROVE MirrorIInv'
  OBVIOUS
<1> USE DEF MergeMirrorPR
<1>1. mirrorPR.result \in Workspaces /\ workspace \in Workspaces
  BY DEF MirrorIInv, MirrorTypeInv
<1>2. /\ workspace' \in Workspaces
      /\ \A a \in Artifacts : workspace'[a] \in {workspace[a], mirrorPR.result[a]}
  BY <1>1 DEF Workspaces
<1>3. MirrorTypeInv'
  BY <1>2 DEF MirrorIInv, MirrorTypeInv, Running
<1>4. MainInv'
  BY <1>2 DEF MirrorIInv, MainInv, PRInv, Copied, Located, FileOf
<1>5. UploadInv' /\ PRInv' /\ Counted'
  BY DEF MirrorIInv, UploadInv, PRInv, Counted, Running, Copied, Follows, FileOf
<1>6. QED
  BY <1>3, <1>4, <1>5 DEF MirrorIInv

LEMMA BumpIInv == ASSUME NEW a PROVE MirrorAssumption /\ MirrorIInv /\ Bump(a) => MirrorIInv'
<1> SUFFICES ASSUME MirrorAssumption, MirrorIInv, Bump(a) PROVE MirrorIInv'
  OBVIOUS
<1> DEFINE rule == [version |-> workspace[a].version + 1, urls |-> {"source"}]
<1>0. MaxArtifactVersion \in Nat
  BY MirrorBounds
<1>1. a \in Artifacts /\ workspace \in Workspaces
  BY DEF Bump, MirrorAssumption, MirrorIInv, MirrorTypeInv
<1>2. rule \in Rules
  <2>1. workspace[a].version \in Versions
    BY <1>1 DEF Workspaces, Rules
  <2>2. workspace[a].version < MaxArtifactVersion
    BY DEF Bump
  <2>3. workspace[a].version + 1 \in Versions
    BY <1>0, <2>1, <2>2 DEF Versions
  <2>4. QED
    BY <2>3 DEF Rules
<1>3. workspace' = [workspace EXCEPT ![a] = rule]
  BY DEF Bump
<1>4. /\ workspace' \in Workspaces /\ workspace'[a].urls = {"source"}
      /\ \A b \in Artifacts \ {a} : workspace'[b] = workspace[b]
  BY <1>1, <1>2, <1>3 DEF Workspaces
<1>5. MirrorTypeInv'
  BY <1>4 DEF Bump, MirrorIInv, MirrorTypeInv, Running
<1>6. ASSUME NEW b \in Artifacts
      PROVE  /\ workspace'[b].urls # {}
             /\ "mirror" \in workspace'[b].urls => bucketObjects'[FileOf(workspace', b)] = "the file"
  <2>1. CASE b = a
    BY <1>4, <2>1
  <2>2. CASE b # a
    <3>1. workspace'[b] = workspace[b] /\ bucketObjects' = bucketObjects
      BY <1>4, <2>2 DEF Bump
    <3>2. /\ workspace[b].urls # {}
          /\ "mirror" \in workspace[b].urls => bucketObjects[FileOf(workspace, b)] = "the file"
      BY DEF MirrorIInv, MainInv, Copied, Located
    <3>3. QED
      BY <3>1, <3>2 DEF FileOf
  <2>3. QED
    BY <2>1, <2>2
<1>7. MainInv'
  BY <1>6 DEF MainInv, Copied, Located, FileOf
<1>8. UploadInv' /\ PRInv' /\ Counted'
  BY DEF Bump, MirrorIInv, UploadInv, PRInv, Counted, Running, Copied, Located, Follows, FileOf
<1>9. QED
  BY <1>5, <1>7, <1>8 DEF MirrorIInv

LEMMA ChangeSourceIInv ==
    ASSUME NEW f \in Files, NEW to \in Answers, MirrorAssumption
    PROVE  MirrorIInv /\ ChangeSource(f, to) => MirrorIInv'
<1> SUFFICES ASSUME MirrorIInv, ChangeSource(f, to) PROVE MirrorIInv'
  OBVIOUS
<1> USE DEF ChangeSource
<1>1. MirrorTypeInv'
  BY DEF MirrorIInv, MirrorTypeInv, Running
<1>2. MainInv' /\ UploadInv' /\ PRInv'
  BY DEF MirrorIInv, MainInv, UploadInv, PRInv, Running, Copied, Located, Follows, FileOf
<1>3. MaxSourceChanges \in Nat /\ MaxMirrorFailures \in Nat
  BY MirrorBounds
<1>4. Counted'
  BY <1>3 DEF MirrorIInv, Counted
<1>5. QED
  BY <1>1, <1>2, <1>4 DEF MirrorIInv

LEMMA MirrorNextIInv ==
    ASSUME MirrorAssumption, ~ContinueOnError, MirrorIInv, [MirrorNext]_mirrorVars
    PROVE  MirrorIInv'
<1>1. CASE StartUpload
  BY <1>1, StartUploadIInv
<1>2. CASE FinishUpload
  BY <1>2, FinishUploadIInv
<1>3. CASE MergeMirrorPR
  BY <1>3, MergeIInv
<1>4. ASSUME NEW a \in Artifacts, UploadOne(a) PROVE MirrorIInv'
  BY <1>4, UploadOneIInv
<1>5. ASSUME NEW a \in Artifacts, UploadFails(a) PROVE MirrorIInv'
  BY <1>5, UploadFailsIInv
<1>6. ASSUME NEW a \in Artifacts, Bump(a) PROVE MirrorIInv'
  BY <1>6, BumpIInv
<1>7. ASSUME NEW f \in Files, NEW to \in Answers, ChangeSource(f, to) PROVE MirrorIInv'
  BY <1>7, ChangeSourceIInv
<1>8. CASE UNCHANGED mirrorVars
  BY <1>8 DEF mirrorVars, MirrorIInv, MirrorTypeInv, Counted, MainInv, UploadInv, PRInv, Running, Copied, Located,
              Follows, FileOf
<1>9. QED
  BY <1>1, <1>2, <1>3, <1>4, <1>5, <1>6, <1>7, <1>8 DEF MirrorNext

LEMMA MirrorInvariant ==
    ASSUME MirrorAssumption, ~ContinueOnError
    PROVE  MirrorSpec => []MirrorIInv
<1>1. MirrorInit => MirrorIInv
  BY MirrorInitIInv
<1>2. MirrorIInv /\ [MirrorNext]_mirrorVars => MirrorIInv'
  BY MirrorNextIInv
<1>3. QED
  BY <1>1, <1>2, PTL DEF MirrorSpec

-----------------------------------------------------------------------------
\* The variables stay in their ranges, the bucket has no object with another sum,
\* and main's file is never without a location for an artifact.
THEOREM MirrorTypeCorrect ==
    ASSUME MirrorAssumption, ~ContinueOnError
    PROVE  MirrorSpec => []MirrorTypeOK
<1>1. MirrorIInv => MirrorTypeOK
  BY DEF MirrorIInv, MirrorTypeInv, Counted, MainInv, PRInv, Located, Uploads, MirrorTypeOK
<1>2. QED
  BY <1>1, MirrorInvariant, PTL

\* A copy that main's WORKSPACE names is in the bucket and is the file, whatever fails
\* and however late the robot's work is merged.
THEOREM CopiesAreThere ==
    ASSUME MirrorAssumption, ~ContinueOnError
    PROVE  MirrorSpec => []CopiesExist
<1>1. MirrorIInv => CopiesExist
  BY DEF MirrorIInv, MainInv, Copied, CopiesExist
<1>2. QED
  BY <1>1, MirrorInvariant, PTL

\* No step but a change of the source itself takes the last working location of an
\* artifact: where the source is taken out, a copy is left.
THEOREM LocationsStay ==
    ASSUME MirrorAssumption, ~ContinueOnError
    PROVE  MirrorSpec => [][StaysFound]_mirrorVars
<1>1. ASSUME MirrorIInv, MirrorIInv', [MirrorNext]_mirrorVars PROVE [StaysFound]_mirrorVars
  <2> SUFFICES ASSUME NEW a \in Artifacts, source' = source,
                      workspace'[a].version = workspace[a].version,
                      Found(workspace, bucketObjects, a)
               PROVE  Found(workspace', bucketObjects', a)
    BY DEF StaysFound
  <2>1. CASE "mirror" \in workspace'[a].urls
    BY <1>1, <2>1 DEF MirrorIInv, MainInv, Copied, Found, FileOf
  <2>2. CASE "mirror" \notin workspace'[a].urls
    <3>1. "source" \in workspace'[a].urls
      <4>1. workspace'[a] \in Rules
        BY <1>1 DEF MirrorIInv, MirrorTypeInv, Workspaces
      <4>2. workspace'[a].urls # {}
        BY <1>1 DEF MirrorIInv, MainInv, Located
      <4>3. QED
        BY <2>2, <4>1, <4>2 DEF Rules
    <3>2. CASE "source" \in workspace[a].urls /\ source[FileOf(workspace, a)] = "the file"
      BY <3>1, <3>2 DEF Found, FileOf
    <3>3. CASE "mirror" \in workspace[a].urls
      <4>1. CASE workspace'[a] = workspace[a]
        BY <2>2, <3>3, <4>1
      <4>2. CASE MergeMirrorPR
        BY <1>1, <2>2, <3>3, <4>2 DEF MergeMirrorPR, MirrorIInv, PRInv, Follows, MirrorTypeInv, Workspaces
      <4>3. ASSUME NEW b \in Artifacts, Bump(b), workspace'[a] # workspace[a] PROVE FALSE
        <5>1. workspace[b] \in Rules /\ workspace \in Workspaces
          BY <1>1 DEF MirrorIInv, MirrorTypeInv, Workspaces
        <5>2. workspace[b].version \in Int
          BY <5>1 DEF Rules, Versions
        <5>3. workspace' = [workspace EXCEPT ![b] = [version |-> workspace[b].version + 1, urls |-> {"source"}]]
          BY <4>3 DEF Bump
        <5>4. a = b /\ workspace'[b].version = workspace[b].version + 1
          BY <4>3, <5>1, <5>3 DEF Workspaces
        <5>5. QED
          BY <5>2, <5>4
      <4>4. workspace' = workspace \/ MergeMirrorPR \/ \E b \in Artifacts : Bump(b)
        BY <1>1 DEF MirrorNext, mirrorVars, StartUpload, FinishUpload, UploadOne, UploadFails, ChangeSource
      <4>5. QED
        BY <4>1, <4>2, <4>3, <4>4
    <3>4. QED
      BY <3>2, <3>3 DEF Found
  <2>3. QED
    BY <2>1, <2>2
<1>2. QED
  BY <1>1, MirrorInvariant, PTL DEF MirrorSpec

-----------------------------------------------------------------------------
(***************************************************************************)
(* The shared-images-controller.  Images of a tag stay until tests with them*)
(* have ended, though the process knows only what it has seen since it began.*)
(***************************************************************************)
\* The clock of the process is behind that of main: since it saw a tag, main went on
\* from each older one; when it cleans up, it has seen the tag of this turn.
AgeInv ==
    /\ \A t \in 1..MaxTag : t < lastTag => outdated[t] > tagAge
    /\ step = "pull" => tag # 0 /\ \A t \in 1..MaxTag : t < tag => outdated[t] > 0
    /\ step = "clean" => lastTag = tag /\ tagAge = CleanupDelay

\* The node has images of tags that main has had, no younger than that of this turn.
NodeInv ==
    \A i \in images : \/ i[1] = Registry
                      \/ i[2] \in 1..tagOfMain /\ (step # "sleep" => i[2] <= tag)

ImagesIInv == ImagesTypeOK /\ AgeInv /\ NodeInv

\* What PullRequiredImages adds is named as images are.
LEMMA RequiredAreImages ==
    ASSUME ImagesAssumption, ImagesTypeOK, NEW t \in 1..MaxTag
    PROVE  /\ \A i \in ImagesOf(t, lastThreeMinors) : i[2] = t
           /\ ImagesOf(t, lastThreeMinors) \subseteq UNION {ImagesOf(u, 1..MaxMinor) : u \in 1..MaxTag}
<1>1. lastThreeMinors \subseteq 1..MaxMinor
  BY DEF ImagesTypeOK, lastThreeMinors, ImagesAssumption
<1>2. Names(lastThreeMinors) \subseteq Names(1..MaxMinor)
  BY <1>1 DEF Names
<1>3. ImagesOf(t, lastThreeMinors) \subseteq ImagesOf(t, 1..MaxMinor)
  BY <1>2 DEF ImagesOf
<1>4. \A i \in ImagesOf(t, lastThreeMinors) : i[2] = t
  BY DEF ImagesOf
<1> QED  BY <1>3, <1>4

LEMMA ImagesInitIInv == ASSUME ImagesAssumption, ImagesInit PROVE ImagesIInv
<1> USE DEF ImagesAssumption, ImagesInit
<1>1. ImagesTypeOK
  BY DEF ImagesTypeOK
<1>2. AgeInv /\ NodeInv
  BY DEF AgeInv, NodeInv
<1> QED  BY <1>1, <1>2 DEF ImagesIInv

LEMMA UpstreamIInv == ASSUME ImagesAssumption, ImagesIInv, Upstream PROVE ImagesIInv'
<1>1. /\ images' = images /\ lastTag' = lastTag /\ tagAge' = tagAge /\ step' = step /\ tag' = tag
      /\ outdated' = outdated /\ imageFailures' = imageFailures
  BY DEF Upstream, node
<1>2. /\ tagOfMain' \in 1..MaxTag /\ tagOfMain' >= tagOfMain /\ latestMinor' \in 1..MaxMinor
  BY DEF Upstream, ImagesIInv, ImagesTypeOK, ImagesAssumption
<1>3. ImagesTypeOK'
  BY <1>1, <1>2 DEF ImagesIInv, ImagesTypeOK
<1>4. AgeInv'
  BY <1>1 DEF ImagesIInv, AgeInv
<1>5. NodeInv'
  BY <1>1, <1>2 DEF ImagesIInv, ImagesTypeOK, NodeInv
<1> QED  BY <1>3, <1>4, <1>5 DEF ImagesIInv

LEMMA GetLatestTagIInv == ASSUME ImagesAssumption, ImagesIInv, GetLatestTag PROVE ImagesIInv'
<1> USE DEF ImagesIInv
<1>1. /\ step = "sleep" /\ tagAge' = Capped(tagAge + 1)
      /\ tagOfMain' = tagOfMain /\ latestMinor' = latestMinor /\ images' = images /\ lastTag' = lastTag
      /\ \/ tag' = tagOfMain /\ step' = "pull" /\ imageFailures' = imageFailures
         \/ ImageFailure /\ tag' = tag /\ step' = step
  BY DEF GetLatestTag
<1>2. \A t \in 1..MaxTag :
         outdated'[t] = IF t < tagOfMain /\ outdated[t] <= CleanupDelay THEN outdated[t] + 1 ELSE outdated[t]
  BY DEF GetLatestTag
<1>3. /\ MaxTag \in Nat /\ CleanupDelay \in Nat \ {0} /\ MaxImageFailures \in Nat
      /\ tagOfMain \in 1..MaxTag /\ tagAge \in 0..CleanupDelay /\ lastTag \in 0..tagOfMain
      /\ \A t \in 1..MaxTag : outdated[t] \in 0..CleanupDelay + 1
  BY DEF ImagesTypeOK, ImagesAssumption
<1>4. /\ tagAge' \in 0..CleanupDelay /\ tagAge' <= tagAge + 1
      /\ \A t \in 1..MaxTag : outdated'[t] \in 0..CleanupDelay + 1
  BY <1>1, <1>2, <1>3 DEF Capped
<1>5. imageFailures' \in 0..MaxImageFailures
  BY <1>1, <1>3 DEF ImagesTypeOK, ImageFailure
<1>6. ImagesTypeOK'
  BY <1>1, <1>3, <1>4, <1>5 DEF ImagesTypeOK
<1>7. \A t \in 1..MaxTag : t < lastTag => outdated'[t] > tagAge'
  BY <1>2, <1>3, <1>4 DEF AgeInv
<1>8. \A t \in 1..MaxTag : t < tagOfMain => outdated'[t] > 0
  BY <1>2, <1>3
<1>9. AgeInv'
  BY <1>1, <1>3, <1>7, <1>8 DEF AgeInv
<1>10. NodeInv'
  BY <1>1, <1>3 DEF NodeInv
<1> QED  BY <1>6, <1>9, <1>10

LEMMA PullIInv == ASSUME ImagesAssumption, ImagesIInv, PullRequiredImages PROVE ImagesIInv'
<1> USE DEF ImagesIInv
<1>1. /\ step = "pull" /\ lastTag' = tag /\ tagAge' = IF tag # lastTag THEN 0 ELSE tagAge
      /\ step' = IF tagAge' < CleanupDelay THEN "sleep" ELSE "clean"
      /\ tagOfMain' = tagOfMain /\ latestMinor' = latestMinor /\ tag' = tag /\ outdated' = outdated
  BY DEF PullRequiredImages, TagChange
<1>2. images \subseteq images' /\ images' \subseteq images \cup ImagesOf(tag, lastThreeMinors) \cup {<<Registry, 0>>}
      /\ (imageFailures' = imageFailures \/ ImageFailure)
  BY DEF PullRequiredImages
<1>3. /\ MaxTag \in Nat /\ CleanupDelay \in Nat \ {0} /\ MaxImageFailures \in Nat
      /\ tagOfMain \in 1..MaxTag /\ tagAge \in 0..CleanupDelay /\ tag \in 0..tagOfMain
  BY DEF ImagesTypeOK, ImagesAssumption
<1>4. images' \subseteq {<<Registry, 0>>} \cup UNION {ImagesOf(t, 1..MaxMinor) : t \in 1..MaxTag}
      /\ \A i \in images' : i \in images \/ i[1] = Registry \/ (i[2] = tag /\ tag \in 1..tagOfMain)
  <2>1. CASE tag # 0
    <3>1. tag \in 1..MaxTag /\ tag \in 1..tagOfMain
      BY <1>3, <2>1
    <3> QED  BY <1>2, <3>1, RequiredAreImages DEF ImagesTypeOK
  <2>2. CASE tag = 0
    BY <1>1, <2>2 DEF AgeInv
  <2> QED  BY <2>1, <2>2
<1>5. imageFailures' \in 0..MaxImageFailures
  BY <1>2, <1>3 DEF ImagesTypeOK, ImageFailure
<1>6. ImagesTypeOK'
  BY <1>1, <1>3, <1>4, <1>5 DEF ImagesTypeOK
<1>7. AgeInv'
  BY <1>1, <1>3 DEF AgeInv, ImagesTypeOK
<1>8. NodeInv'
  BY <1>1, <1>3, <1>4 DEF NodeInv
<1> QED  BY <1>6, <1>7, <1>8

LEMMA ListingFailsIInv == ASSUME ImagesAssumption, ImagesIInv, ListingFails PROVE ImagesIInv'
<1>1. /\ step' = "sleep" /\ ImageFailure
      /\ tagOfMain' = tagOfMain /\ latestMinor' = latestMinor /\ images' = images
      /\ lastTag' = lastTag /\ tagAge' = tagAge /\ tag' = tag /\ outdated' = outdated
  BY DEF ListingFails
<1>2. imageFailures' \in 0..MaxImageFailures
  BY <1>1 DEF ImageFailure, ImagesIInv, ImagesTypeOK, ImagesAssumption
<1>3. ImagesTypeOK'
  BY <1>1, <1>2 DEF ImagesIInv, ImagesTypeOK
<1>4. AgeInv' /\ NodeInv'
  BY <1>1 DEF ImagesIInv, AgeInv, NodeInv
<1> QED  BY <1>3, <1>4 DEF ImagesIInv

LEMMA CleanIInv == ASSUME ImagesAssumption, ImagesIInv, CleanOldImages PROVE ImagesIInv'
<1>1. /\ step' = "sleep" /\ images' \subseteq images
      /\ tagOfMain' = tagOfMain /\ latestMinor' = latestMinor /\ imageFailures' = imageFailures
      /\ lastTag' = lastTag /\ tagAge' = tagAge /\ tag' = tag /\ outdated' = outdated
  BY DEF CleanOldImages
<1>2. ImagesTypeOK'
  BY <1>1 DEF ImagesIInv, ImagesTypeOK
<1>3. AgeInv' /\ NodeInv'
  BY <1>1 DEF ImagesIInv, AgeInv, NodeInv
<1> QED  BY <1>2, <1>3 DEF ImagesIInv

LEMMA RestartIInv == ASSUME ImagesAssumption, ImagesIInv, RestartController PROVE ImagesIInv'
<1>1. /\ ImageFailure /\ lastTag' = 0 /\ tagAge' = CleanupDelay /\ step' = "sleep" /\ tag' = 0
      /\ tagOfMain' = tagOfMain /\ latestMinor' = latestMinor /\ images' = images
      /\ outdated' = outdated
  BY DEF RestartController
<1>2. imageFailures' \in 0..MaxImageFailures /\ CleanupDelay \in Nat /\ tagOfMain \in Nat
  BY <1>1 DEF ImageFailure, ImagesIInv, ImagesTypeOK, ImagesAssumption
<1>3. ImagesTypeOK'
  BY <1>1, <1>2 DEF ImagesIInv, ImagesTypeOK
<1>4. AgeInv' /\ NodeInv'
  BY <1>1 DEF ImagesIInv, AgeInv, NodeInv
<1> QED  BY <1>3, <1>4 DEF ImagesIInv

LEMMA ImagesNextIInv == ASSUME ImagesAssumption, ImagesIInv, [ImagesNext]_imagesVars PROVE ImagesIInv'
<1>1. CASE UNCHANGED imagesVars
  BY <1>1 DEF imagesVars, ImagesIInv, ImagesTypeOK, AgeInv, NodeInv
<1>2. CASE ImagesNext
  BY <1>2, UpstreamIInv, GetLatestTagIInv, PullIInv, ListingFailsIInv, CleanIInv, RestartIInv DEF ImagesNext
<1> QED  BY <1>1, <1>2

LEMMA ImagesInvariant == ASSUME ImagesAssumption PROVE ImagesSpec => []ImagesIInv
BY ImagesInitIInv, ImagesNextIInv, PTL DEF ImagesSpec

\* The variables of the controller keep to their types.
THEOREM ImagesTypes == ASSUME ImagesAssumption PROVE ImagesSpec => []ImagesTypeOK
<1>1. ImagesIInv => ImagesTypeOK
  BY DEF ImagesIInv
<1> QED  BY <1>1, ImagesInvariant, PTL

\* cleanOldImages removes no image of a tag before cleanupDelay has passed since main
\* went on from it, whatever restarts, failing turns and updates of main fall in between.
THEOREM ImagesRemovedLate ==
    ASSUME ImagesAssumption
    PROVE  ImagesSpec => [][RemovedLate]_imagesVars
<1>1. ASSUME ImagesIInv, ImagesNext
      PROVE  RemovedLate
  <2>1. CASE CleanOldImages
    <3>1. step = "clean" /\ images' = {i \in images : i[2] = tag \/ i[1] = Registry}
      BY <2>1 DEF CleanOldImages
    <3>2. \A i \in images \ images' : i[2] \in 1..MaxTag /\ i[2] < lastTag /\ tagAge = CleanupDelay
      BY <1>1, <3>1 DEF ImagesIInv, ImagesTypeOK, AgeInv, NodeInv, ImagesAssumption
    <3> QED  BY <1>1, <3>2 DEF ImagesIInv, AgeInv, RemovedLate
  <2>2. CASE ~CleanOldImages
    <3>1. images \subseteq images'
      BY <1>1, <2>2 DEF ImagesNext, Upstream, GetLatestTag, PullRequiredImages, ListingFails,
                        RestartController, node
    <3> QED  BY <3>1 DEF RemovedLate
  <2> QED  BY <2>1, <2>2
<1>2. ImagesIInv /\ [ImagesNext]_imagesVars => [RemovedLate]_imagesVars
  BY <1>1
<1> QED  BY <1>2, ImagesInvariant, PTL DEF ImagesSpec

-----------------------------------------------------------------------------
(***************************************************************************)
(* The KubeVirtCI robots.  What a late merge removes nobody needs.         *)
(***************************************************************************)

Changes == [file : RepoFiles, from : Int, to : Int]
Pair == {"provider", "cluster-up"}
TwinOf(file) == <<IF file[1] = "provider" THEN "cluster-up" ELSE "provider", file[2]>>

\* A provider has its cluster-up directory, and no other does.
PairInv ==
    \A m \in KMinors : mainFiles[<<"provider", m>>] = Absent <=> mainFiles[<<"cluster-up", m>>] = Absent

KubeVirtCITypes ==
    /\ newest \in FirstMinor + 2..MaxNewMinor
    /\ patches \in [KMinors -> Nat]
    /\ mainFiles \in [RepoFiles -> Int]
    /\ users \subseteq KMinors
    /\ proposed \in [Robots -> SUBSET Changes]

\* Changes of which each file has one, and that add or remove both of a pair.
Legit(changes) ==
    /\ changes \subseteq Changes
    /\ \A c, d \in changes : c.file = d.file => c = d
    /\ \A c \in changes :
          c.file[1] \in Pair =>
             \/ c.file[1] = "provider" /\ Absent \notin {c.from, c.to}
             \/ \E d \in changes : d.file = TwinOf(c.file) /\ (d.to = Absent <=> c.to = Absent)

\* What they remove nobody needs.
Unneeded(changes) ==
    \A c \in changes : c.to = Absent => c.file[2] <= newest - 3 /\ c.file[2] \notin users

KubeVirtCIIInv ==
    /\ KubeVirtCITypes /\ PairInv
    /\ \A r \in Robots : Legit(proposed[r]) /\ Unneeded(proposed[r])

-----------------------------------------------------------------------------
LEMMA KMinorsAre ==
    ASSUME KubeVirtCIAssumption
    PROVE  /\ FirstMinor \in Nat /\ MaxNewMinor \in Nat /\ FirstMinor + 2 <= MaxNewMinor
           /\ KMinors \subseteq Nat /\ IsFiniteSet(KMinors)
<1>1. FirstMinor \in Nat /\ MaxNewMinor \in Nat /\ FirstMinor + 2 <= MaxNewMinor
  BY DEF KubeVirtCIAssumption
<1>2. KMinors \subseteq Nat /\ IsFiniteSet(KMinors)
  BY <1>1, FS_Interval DEF KMinors
<1> QED  BY <1>1, <1>2

\* What Max takes of minors is one of them.
LEMMA MaxIsOne ==
    ASSUME KubeVirtCIAssumption, NEW T \in SUBSET KMinors, T # {}
    PROVE  Max(T) \in T
<1> DEFINE Newer(t) == {u \in T : u > t}
           all == {Newer(t) : t \in T}
<1>1. IsFiniteSet(T) /\ \A t \in T : t \in Nat
  BY KMinorsAre, FS_Subset
<1>2. \A t \in T : Newer(t) \in SUBSET T /\ IsFiniteSet(Newer(t))
  BY <1>1, FS_Subset
<1>3. all \subseteq FiniteSubsetsOf(T) /\ all # {}
  BY <1>2 DEF FiniteSubsetsOf
<1> HIDE DEF all
<1>4. PICK x \in all : \A y \in all : <<y, x>> \notin StrictSubsetOrdering(T)
  BY <1>1, <1>3, FS_StrictSubsetOrderingWellFounded, WFMin
<1> USE DEF all
<1>5. PICK t \in T : x = Newer(t)
  BY <1>4
<1>6. ASSUME NEW u \in T, u > t
      PROVE  FALSE
  <2>1. ASSUME NEW v \in T, v > u
        PROVE  v > t
    BY <1>1, <1>6, <2>1
  <2>2. ~(u > u)
    BY <1>1
  <2>3. Newer(u) \subseteq Newer(t) /\ u \in Newer(t) /\ u \notin Newer(u)
    BY <1>6, <2>1, <2>2
  <2>4. <<Newer(u), x>> \in StrictSubsetOrdering(T) /\ Newer(u) \in all
    BY <1>2, <1>5, <2>3 DEF StrictSubsetOrdering
  <2> QED  BY <1>4, <2>4
<1>7. \A u \in T : t >= u
  BY <1>1, <1>6
<1> QED  BY <1>5, <1>7 DEF Max

-----------------------------------------------------------------------------
\* A file of a merge is as it was or as one of the changes says.
LEMMA Applied ==
    ASSUME NEW C, Legit(C), NEW f \in RepoFiles
    PROVE  /\ \A c \in C : c.file = f => apply(C)[f] = c.to
           /\ (\A c \in C : c.file # f) => apply(C)[f] = mainFiles[f]
BY DEF Legit, apply

\* Changes made to what they were made from keep the pairs.
LEMMA AppliedKeepsPairs ==
    ASSUME KubeVirtCITypes, PairInv, NEW C, Legit(C),
           \A c \in C : mainFiles[c.file] \in {c.from, c.to},
           mainFiles' = apply(C)
    PROVE  mainFiles' \in [RepoFiles -> Int] /\ PairInv'
<1>1. \A c \in C : c.file \in RepoFiles /\ c.to \in Int
  BY DEF Legit, Changes
<1>2. mainFiles' \in [RepoFiles -> Int]
  <2>1. \A f \in RepoFiles : apply(C)[f] \in Int
    BY <1>1, Applied DEF KubeVirtCITypes
  <2> QED  BY <2>1 DEF apply
<1>3. ASSUME NEW m \in KMinors
      PROVE  mainFiles'[<<"provider", m>>] = Absent <=> mainFiles'[<<"cluster-up", m>>] = Absent
  <2> DEFINE p == <<"provider", m>>
             u == <<"cluster-up", m>>
  <2>1. /\ p \in RepoFiles /\ u \in RepoFiles /\ p[1] = "provider" /\ u[1] = "cluster-up"
        /\ p[1] \in Pair /\ u[1] \in Pair /\ TwinOf(p) = u /\ TwinOf(u) = p
    BY DEF RepoFiles, Pair, TwinOf
  <2>2. mainFiles[p] = Absent <=> mainFiles[u] = Absent
    BY DEF PairInv
  <2> HIDE DEF p, u
  <2>3. CASE \E c \in C : c.file = u
    <3>1. PICK c \in C : c.file = u
      BY <2>3
    <3>2. PICK d \in C : d.file = p /\ (d.to = Absent <=> c.to = Absent)
      BY <2>1, <3>1 DEF Legit
    <3> QED  BY <2>1, <3>1, <3>2, Applied DEF p, u
  <2>4. CASE (\A c \in C : c.file # u) /\ \E c \in C : c.file = p
    <3>1. PICK c \in C : c.file = p
      BY <2>4
    <3>2. c.from # Absent /\ c.to # Absent
      BY <2>1, <2>4, <3>1 DEF Legit
    <3>3. mainFiles[p] # Absent
      BY <3>1, <3>2
    <3> QED  BY <2>1, <2>2, <2>4, <3>1, <3>2, <3>3, Applied DEF p, u
  <2>5. CASE \A c \in C : c.file # u /\ c.file # p
    BY <2>1, <2>2, <2>5, Applied DEF p, u
  <2> QED  BY <2>3, <2>4, <2>5
<1> QED  BY <1>2, <1>3 DEF PairInv

\* The changes of EnsureProviderExists: a provider and its directory, or nothing.
LEMMA EnsureIsLegit ==
    ASSUME KubeVirtCIAssumption, KubeVirtCITypes, PairInv,
           NEW target \in KMinors, NEW version \in Int, version # Absent
    PROVE  LET C == EnsureProviderExists(target, version)
           IN  Legit(C) /\ \A c \in C : c.to # Absent /\ c.from = Absent /\ mainFiles[c.file] = c.from
<1> DEFINE C == EnsureProviderExists(target, version)
           older == olderThan(target)
           copied == mainFiles[<<"cluster-up", Max(older)>>]
           p == <<"provider", target>>
           u == <<"cluster-up", target>>
<1>1. CASE ReadExistingProvidersFails \/ target \in providerDirs \/ older = {}
  <2>1. C = {}
    BY <1>1 DEF EnsureProviderExists
  <2> QED  BY <2>1 DEF Legit
<1>2. CASE ~(ReadExistingProvidersFails \/ target \in providerDirs \/ older = {})
  <2>1. Max(older) \in older
    BY <1>2, MaxIsOne DEF olderThan, providerDirs
  <2>2. copied # Absent /\ copied \in Int
    BY <2>1 DEF olderThan, providerDirs, PairInv, KubeVirtCITypes, RepoFiles
  <2>3. mainFiles[p] = Absent /\ mainFiles[u] = Absent /\ {target} \cap absentClusterUps = {target}
    BY <1>2 DEF providerDirs, absentClusterUps, PairInv
  <2>4. C = {write(p, version), write(u, copied)}
    BY <1>2, <2>3 DEF EnsureProviderExists
  <2>5. p \in RepoFiles /\ u \in RepoFiles /\ p # u /\ TwinOf(p) = u /\ TwinOf(u) = p
    BY DEF RepoFiles, TwinOf
  <2>6. Absent \in Int
    BY DEF Absent
  <2> HIDE DEF C, p, u, copied, older
  <2>7. /\ write(p, version) = [file |-> p, from |-> Absent, to |-> version]
        /\ write(u, copied) = [file |-> u, from |-> Absent, to |-> copied]
    BY <2>3 DEF write
  <2>8. Legit(C)
    BY <2>2, <2>4, <2>5, <2>6, <2>7 DEF Legit, Changes
  <2>9. \A c \in C : c.to # Absent /\ c.from = Absent /\ mainFiles[c.file] = c.from
    BY <2>2, <2>3, <2>4, <2>7
  <2> QED  BY <2>8, <2>9 DEF C
<1> QED  BY <1>1, <1>2

\* What a robot proposes.
LEMMA ProposalIsSound ==
    ASSUME KubeVirtCIAssumption, KubeVirtCITypes, PairInv, NEW r \in Robots,
           r \in {"ensure-only-latest-three", "presubmit-remover"} => ~cancelRemoval,
           NEW writes \in WritesOf(r)
    PROVE  LET C == {w \in writes : w.from # w.to} IN Legit(C) /\ Unneeded(C)
<1> DEFINE C == {w \in writes : w.from # w.to}
<1>1. /\ newest \in Nat /\ newest \in KMinors /\ FirstMinor \in Nat /\ newest >= FirstMinor + 2
      /\ LastThreeMinor \subseteq KMinors /\ KMinors \subseteq Nat /\ newest <= MaxNewMinor /\ MaxNewMinor \in Nat
  BY KMinorsAre DEF KubeVirtCITypes, KMinors, LastThreeMinor
<1>2. mainFiles \in [RepoFiles -> Int] /\ patches \in [KMinors -> Nat] /\ 0 # Absent /\ Absent \in Int
  BY DEF KubeVirtCITypes, Absent
<1>3. CASE r = "ensure-latest"
  <2>1. writes = EnsureProviderExists(newest, LastPatchOf(newest))
    BY <1>3 DEF WritesOf
  <2>2. LastPatchOf(newest) \in Int /\ LastPatchOf(newest) # Absent
    BY <1>1, <1>2 DEF LastPatchOf, Absent
  <2>3. Legit(writes) /\ \A c \in writes : c.to # Absent /\ c.from = Absent
    BY <1>1, <2>1, <2>2, EnsureIsLegit
  <2>4. C = writes
    BY <2>3
  <2> QED  BY <2>3, <2>4 DEF Unneeded
<1>4. CASE r = "ensure-last-three-minor"
  <2>1. \A w \in writes : \E m \in providerDirs \cap LastThreeMinor : w = write(<<"provider", m>>, LastPatchOf(m))
    BY <1>4 DEF WritesOf, BumpMinorReleaseOfProvider
  <2>2. \A m \in KMinors : LastPatchOf(m) \in Int /\ LastPatchOf(m) # Absent
    BY <1>2 DEF LastPatchOf, Absent
  <2>3. ASSUME NEW w \in writes
        PROVE  /\ w \in Changes /\ w.file[1] = "provider" /\ w.from # Absent /\ w.to # Absent
               /\ w.to = LastPatchOf(w.file[2]) /\ w.from = mainFiles[w.file]
    <3>1. PICK m \in providerDirs \cap LastThreeMinor : w = write(<<"provider", m>>, LastPatchOf(m))
      BY <2>1
    <3>2. m \in KMinors /\ mainFiles[<<"provider", m>>] # Absent /\ <<"provider", m>> \in RepoFiles
      BY <3>1 DEF providerDirs, RepoFiles
    <3> QED  BY <1>2, <2>2, <3>1, <3>2 DEF write, Changes
  <2>4. \A c, d \in C : c.file = d.file => c = d
    BY <2>3 DEF Changes
  <2> QED  BY <2>3, <2>4 DEF Legit, Unneeded
<1>5. CASE r = "presubmit-creator"
  <2>1. writes = {write(<<"job", newest>>, 0)} /\ <<"job", newest>> \in RepoFiles
    BY <1>1, <1>5 DEF WritesOf, AddNewPresubmitIfNotExists, RepoFiles
  <2>2. \A w \in writes : w \in Changes /\ w.file[1] \notin Pair /\ w.to # Absent
    BY <1>2, <2>1 DEF write, Changes, Pair
  <2>3. \A c, d \in writes : c = d
    BY <2>1
  <2> QED  BY <2>2, <2>3 DEF Legit, Unneeded
<1>6. CASE r = "ensure-only-latest-three"
  <2>1. writes = { write(file, Absent) : file \in Pair \X {n \in providerDirs \ LastThreeMinor : n < newest} }
    BY <1>6 DEF WritesOf, DropUnsupportedProviders, Pair
  <2>2. users \subseteq LastThreeMinor
    BY <1>6 DEF cancelRemoval
  <2>3. ASSUME NEW w \in writes
        PROVE  /\ w \in Changes /\ w.to = Absent /\ w.from # Absent /\ w.from = mainFiles[w.file]
               /\ w.file[2] <= newest - 3 /\ w.file[2] \notin users
               /\ write(TwinOf(w.file), Absent) \in writes
               /\ write(TwinOf(w.file), Absent).file = TwinOf(w.file) /\ write(TwinOf(w.file), Absent).to = Absent
    <3>1. PICK kind \in Pair, m \in {n \in providerDirs \ LastThreeMinor : n < newest} :
             w = write(<<kind, m>>, Absent)
      BY <2>1
    <3>2. m \in KMinors /\ m \in Nat /\ m \notin LastThreeMinor /\ m < newest /\ m \in providerDirs
      BY <1>1, <3>1 DEF providerDirs
    <3>3. m <= newest - 3
      BY <1>1, <3>2 DEF LastThreeMinor
    <3>4. \A k \in Pair : mainFiles[<<k, m>>] # Absent /\ <<k, m>> \in RepoFiles
      BY <3>2 DEF providerDirs, PairInv, Pair, RepoFiles
    <3>5. w = [file |-> <<kind, m>>, from |-> mainFiles[<<kind, m>>], to |-> Absent]
      BY <3>1 DEF write
    <3>6. w.file = <<kind, m>> /\ w.file[2] = m /\ w.to = Absent /\ w.from = mainFiles[<<kind, m>>]
      BY <3>5
    <3>7. w \in Changes
      BY <1>2, <3>4, <3>5 DEF Changes
    <3>8. \E k \in Pair : TwinOf(w.file) = <<k, m>>
      BY <3>6 DEF TwinOf, Pair
    <3>9. write(TwinOf(w.file), Absent) \in writes
      BY <2>1, <3>1, <3>8
    <3>10. write(TwinOf(w.file), Absent).file = TwinOf(w.file) /\ write(TwinOf(w.file), Absent).to = Absent
      BY DEF write
    <3> QED  BY <2>2, <3>2, <3>3, <3>4, <3>6, <3>7, <3>9, <3>10
  <2>4. C = writes
    BY <2>3
  <2>5. \A c, d \in writes : c.file = d.file => c = d
    BY <2>3 DEF Changes
  <2>6. \A c \in writes : \E d \in writes : d.file = TwinOf(c.file) /\ (d.to = Absent <=> c.to = Absent)
    BY <2>3
  <2>7. Legit(writes)
    BY <2>3, <2>5, <2>6 DEF Legit
  <2>8. Unneeded(writes)
    BY <2>3 DEF Unneeded
  <2> QED  BY <2>4, <2>7, <2>8
<1>7. CASE r = "presubmit-remover"
  <2>1. PICK listed \in BOOLEAN : writes = deletePresubmitJobForRelease(listed)
    BY <1>7 DEF WritesOf
  <2>2. users \subseteq LastThreeMinor
    BY <1>7 DEF cancelRemoval
  <2>3. ASSUME NEW w \in writes
        PROVE  w \in Changes /\ w.file = <<"job", newest - 3>> /\ w = write(<<"job", newest - 3>>, Absent)
    <3>1. w = write(<<"job", newest - 3>>, Absent) /\ newest - 3 \in ValidReleases
      BY <2>1 DEF deletePresubmitJobForRelease
    <3>2. newest - 3 \in KMinors
      BY <1>1, <3>1 DEF ValidReleases, KMinors
    <3>3. <<"job", newest - 3>> \in RepoFiles
      BY <3>2 DEF RepoFiles
    <3> QED  BY <1>2, <3>1, <3>3 DEF write, Changes
  <2>4. newest - 3 \notin users
    BY <1>1, <2>2 DEF LastThreeMinor
  <2>5. Legit(C)
    BY <2>3 DEF Legit, Pair
  <2>6. Unneeded(C)
    BY <1>1, <2>3, <2>4 DEF Unneeded
  <2> QED  BY <2>5, <2>6
<1> QED  BY <1>3, <1>4, <1>5, <1>6, <1>7 DEF Robots

-----------------------------------------------------------------------------
LEMMA KubeVirtCIInitIInv == ASSUME KubeVirtCIAssumption, KubeVirtCIInit PROVE KubeVirtCIIInv
<1>1. KubeVirtCITypes
  BY KMinorsAre DEF KubeVirtCIInit, KubeVirtCITypes, KMinors, Absent
<1>2. PairInv
  BY DEF KubeVirtCIInit, PairInv, RepoFiles
<1>3. \A r \in Robots : Legit(proposed[r]) /\ Unneeded(proposed[r])
  BY DEF KubeVirtCIInit, Legit, Unneeded
<1> QED  BY <1>1, <1>2, <1>3 DEF KubeVirtCIIInv

LEMMA RunRobotIInv ==
    ASSUME KubeVirtCIAssumption, KubeVirtCIIInv, NEW r \in Robots, RunRobot(r)
    PROVE  KubeVirtCIIInv'
<1> USE DEF KubeVirtCIIInv
<1>1. /\ newest' = newest /\ patches' = patches /\ mainFiles' = mainFiles /\ users' = users
      /\ r \in {"ensure-only-latest-three", "presubmit-remover"} => ~cancelRemoval
  BY DEF RunRobot
<1>2. PICK writes \in WritesOf(r) : proposed' = [proposed EXCEPT ![r] = {w \in writes : w.from # w.to}]
  BY DEF RunRobot
<1>3. Legit({w \in writes : w.from # w.to}) /\ Unneeded({w \in writes : w.from # w.to})
  BY <1>1, ProposalIsSound
<1>4. /\ proposed' \in [Robots -> SUBSET Changes]
      /\ \A q \in Robots : Legit(proposed'[q]) /\ Unneeded(proposed'[q])
  BY <1>2, <1>3 DEF KubeVirtCITypes, Legit
<1>5. KubeVirtCITypes' /\ PairInv'
  BY <1>1, <1>4 DEF KubeVirtCITypes, PairInv
<1> QED  BY <1>1, <1>4, <1>5 DEF Legit, Unneeded

LEMMA MergeProposedIInv ==
    ASSUME KubeVirtCIAssumption, KubeVirtCIIInv, NEW r \in Robots, MergeProposed(r)
    PROVE  KubeVirtCIIInv'
<1> USE DEF KubeVirtCIIInv
<1>1. /\ newest' = newest /\ patches' = patches /\ users' = users
      /\ mainFiles' = apply(proposed[r]) /\ proposed' = [proposed EXCEPT ![r] = {}]
      /\ \A c \in proposed[r] : mainFiles[c.file] \in {c.from, c.to}
  BY DEF MergeProposed
<1>2. mainFiles' \in [RepoFiles -> Int] /\ PairInv'
  BY <1>1, AppliedKeepsPairs
<1>3. /\ proposed' \in [Robots -> SUBSET Changes]
      /\ \A q \in Robots : Legit(proposed'[q]) /\ Unneeded(proposed'[q])
  BY <1>1 DEF KubeVirtCITypes, Legit, Unneeded
<1> QED  BY <1>1, <1>2, <1>3 DEF KubeVirtCITypes, Legit, Unneeded

LEMMA ForceProviderIInv ==
    ASSUME KubeVirtCIAssumption, KubeVirtCIIInv, ForceProvider
    PROVE  KubeVirtCIIInv'
<1> USE DEF KubeVirtCIIInv
<1> DEFINE C == EnsureProviderExists(newest + 1, PreRelease)
<1>1. /\ newest' = newest /\ patches' = patches /\ users' = users /\ proposed' = proposed
      /\ mainFiles' = apply(C)
  BY DEF ForceProvider
<1>2. newest + 1 \in KMinors /\ PreRelease \in Int /\ PreRelease # Absent
  BY KMinorsAre DEF KubeVirtCITypes, KMinors, PreRelease, Absent
<1>3. Legit(C) /\ \A c \in C : mainFiles[c.file] = c.from
  BY <1>2, EnsureIsLegit
<1> HIDE DEF C
<1>4. mainFiles' \in [RepoFiles -> Int] /\ PairInv'
  BY <1>1, <1>3, AppliedKeepsPairs
<1> QED  BY <1>1, <1>4 DEF KubeVirtCITypes, Legit, Unneeded

\* Kubernetes' releases and new users take nothing from what is proposed.
LEMMA WorldIInv ==
    ASSUME KubeVirtCIAssumption, KubeVirtCIIInv,
           ReleaseMinor \/ \E m \in KMinors : ReleasePatch(m) \/ StartUsing(m) \/ StopUsing(m)
    PROVE  KubeVirtCIIInv'
<1> USE DEF KubeVirtCIIInv
<1>1. mainFiles' = mainFiles /\ proposed' = proposed
  BY DEF ReleaseMinor, ReleasePatch, StartUsing, StopUsing
<1>2. newest \in Int /\ newest' \in FirstMinor + 2..MaxNewMinor /\ newest' >= newest
  BY KMinorsAre DEF ReleaseMinor, ReleasePatch, StartUsing, StopUsing, KubeVirtCITypes
<1>3. patches' \in [KMinors -> Nat]
  BY DEF ReleaseMinor, ReleasePatch, StartUsing, StopUsing, KubeVirtCITypes
<1>4. users' \subseteq KMinors /\ \A m \in users' : m \in users \/ m > newest - 3
  BY DEF ReleaseMinor, ReleasePatch, StartUsing, StopUsing, KubeVirtCITypes
<1>5. newest' = newest \/ users' = users
  BY DEF ReleaseMinor, ReleasePatch, StartUsing, StopUsing
<1>6. ASSUME NEW q \in Robots, NEW c \in proposed[q], c.to = Absent
      PROVE  c.file[2] <= newest' - 3 /\ c.file[2] \notin users'
  <2>1. c.file[2] <= newest - 3 /\ c.file[2] \notin users /\ c \in Changes
    BY <1>6 DEF Unneeded, KubeVirtCITypes
  <2>2. c.file[2] \in Int
    BY <2>1, KMinorsAre DEF Changes, RepoFiles
  <2> QED  BY <1>2, <1>4, <2>1, <2>2, KMinorsAre
<1>7. \A q \in Robots : Unneeded(proposed[q])'
  BY <1>1, <1>6 DEF Unneeded
<1> QED  BY <1>1, <1>2, <1>3, <1>4, <1>7 DEF KubeVirtCITypes, PairInv, Legit

LEMMA KubeVirtCINextIInv ==
    ASSUME KubeVirtCIAssumption, KubeVirtCIIInv, [KubeVirtCINext]_kubevirtciVars
    PROVE  KubeVirtCIIInv'
<1>1. CASE UNCHANGED kubevirtciVars
  BY <1>1 DEF kubevirtciVars, KubeVirtCIIInv, KubeVirtCITypes, PairInv, Legit, Unneeded
<1>2. CASE KubeVirtCINext
  BY <1>2, RunRobotIInv, MergeProposedIInv, ForceProviderIInv, WorldIInv DEF KubeVirtCINext
<1> QED  BY <1>1, <1>2

LEMMA KubeVirtCIInvariant == ASSUME KubeVirtCIAssumption PROVE KubeVirtCISpec => []KubeVirtCIIInv
BY KubeVirtCIInitIInv, KubeVirtCINextIInv, PTL DEF KubeVirtCISpec

\* EnsureProviderExists and DropUnsupportedProviders come and go with both directories
\* of a provider: no merge of an old proposal leaves one without the other.
THEOREM ProvidersAreWhole == ASSUME KubeVirtCIAssumption PROVE KubeVirtCISpec => []PairInv
<1>1. KubeVirtCIIInv => PairInv
  BY DEF KubeVirtCIIInv
<1> QED  BY <1>1, KubeVirtCIInvariant, PTL

\* The removals of kubevirtci-bumper and -presubmit-remover take nothing away that is
\* supported or that jobs of kubevirt use, however late they are merged.
THEOREM ProvidersInUseStay ==
    ASSUME KubeVirtCIAssumption
    PROVE  KubeVirtCISpec => [][InUseStay]_kubevirtciVars
<1>1. ASSUME KubeVirtCIIInv, KubeVirtCINext
      PROVE  InUseStay
  <2>1. SUFFICES ASSUME NEW f \in RepoFiles, mainFiles[f] # Absent, mainFiles'[f] = Absent
                 PROVE  f[2] <= newest - 3 /\ f[2] \notin users'
    BY DEF InUseStay
  <2>2. CASE \E r \in Robots : MergeProposed(r)
    <3>1. PICK r \in Robots : MergeProposed(r)
      BY <2>2
    <3>2. mainFiles' = apply(proposed[r]) /\ users' = users
      BY <3>1 DEF MergeProposed
    <3>3. Legit(proposed[r]) /\ Unneeded(proposed[r])
      BY <1>1 DEF KubeVirtCIIInv
    <3>4. PICK c \in proposed[r] : c.file = f /\ c.to = Absent
      BY <2>1, <3>2, <3>3, Applied
    <3> QED  BY <3>2, <3>3, <3>4 DEF Unneeded
  <2>3. CASE ForceProvider
    <3> DEFINE C == EnsureProviderExists(newest + 1, PreRelease)
    <3>1. newest + 1 \in KMinors /\ PreRelease \in Int /\ PreRelease # Absent
      BY <1>1, KMinorsAre DEF KubeVirtCIIInv, KubeVirtCITypes, KMinors, PreRelease, Absent
    <3>2. Legit(C) /\ \A c \in C : c.to # Absent
      BY <1>1, <3>1, EnsureIsLegit DEF KubeVirtCIIInv
    <3>3. mainFiles' = apply(C)
      BY <2>3 DEF ForceProvider
    <3> HIDE DEF C
    <3> QED  BY <2>1, <3>2, <3>3, Applied
  <2>4. CASE mainFiles' = mainFiles
    BY <2>1, <2>4
  <2> QED
    BY <1>1, <2>2, <2>3, <2>4 DEF KubeVirtCINext, RunRobot, ReleaseMinor, ReleasePatch, StartUsing, StopUsing
<1>2. KubeVirtCIIInv /\ [KubeVirtCINext]_kubevirtciVars => [InUseStay]_kubevirtciVars
  BY <1>1
<1> QED  BY <1>2, KubeVirtCIInvariant, PTL DEF KubeVirtCISpec

-----------------------------------------------------------------------------
(***************************************************************************)
(* The schedules of periodic jobs.                                         *)
(***************************************************************************)

Periodics ==
    [name : Nat, matches : BOOLEAN, prefixed : BOOLEAN, section : {j.section : j \in Jobs},
     version : {j.version : j \in Jobs}, cron : {NoCron} \cup ReadableCrons]

\* A name is there once only.
PeriodicsIInv ==
    /\ periodics \in Seq(Periodics) /\ Len(periodics) <= MaxPeriodics
    /\ \A i, k \in DOMAIN periodics : i # k => periodics[i].name # periodics[k].name

-----------------------------------------------------------------------------
\* The starts of the jobs of a group, each a stagger after the one before, are within
\* the period and differ if there are minutes enough.
LEMMA Stagger ==
    ASSUME NEW freq \in 1..24, NEW n \in Nat, NEW p \in 0 .. n - 1
    PROVE  /\ periodHours(freq) \in 1..24
           /\ p * staggerMinutes(freq, n) \in 0 .. periodHours(freq) * 60 - 1
           /\ \A q \in 0 .. n - 1 : q # p /\ n <= periodHours(freq) * 60 =>
                 p * staggerMinutes(freq, n) # q * staggerMinutes(freq, n)
<1> DEFINE A == periodHours(freq) * 60
           s == staggerMinutes(freq, n)
<1>1. periodHours(freq) \in 1..24
  BY DEF periodHours
<1>2. A \in Nat \ {0}
  BY <1>1
<1>3. n \in Nat \ {0}
  OBVIOUS
<1>4. \A a \in Nat, g \in Nat \ {0} : a \div g \in Nat /\ (a \div g) * g <= a /\ (g <= a => a \div g >= 1)
  OBVIOUS
<1>5. s = A \div n
  BY DEF staggerMinutes
<1> HIDE DEF A, s
<1>6. s \in Nat /\ s * n <= A /\ (n <= A => s # 0)
  BY <1>2, <1>3, <1>4, <1>5
<1>7. p * s \in 0 .. A - 1
  BY <1>2, <1>6
<1>8. \A q \in 0 .. n - 1 : q # p /\ n <= A => p * s # q * s
  BY <1>3, <1>6
<1> QED  BY <1>1, <1>7, <1>8 DEF A, s

\* The hours from a start within the period: as many as the frequency if the day is a
\* multiple of the period, a period apart.
LEMMA HoursFrom ==
    ASSUME NEW period \in 1..24, NEW start \in 0 .. period - 1
    PROVE  LET hours == hoursFrom(start, period)
           IN  /\ hours \in Seq(0..23) \ {<<>>}
               /\ Len(hours) = ((23 - start) \div period) + 1
               /\ \A n \in 2..Len(hours) : hours[n] - hours[n - 1] = period
               /\ \A h \in ToSet(hours) : \E n \in Nat : h = start + n * period
<1> DEFINE len == ((23 - start) \div period) + 1
           hours == hoursFrom(start, period)
<1>1. len \in Nat \ {0} /\ (len - 1) * period <= 23 - start
  <2>1. 23 - start \in Nat /\ period \in Nat \ {0}
    OBVIOUS
  <2>2. \A a \in Nat, g \in Nat \ {0} : a \div g \in Nat /\ (a \div g) * g <= a
    OBVIOUS
  <2> DEFINE q == (23 - start) \div period
  <2>3. q \in Nat /\ q * period <= 23 - start
    BY <2>1, <2>2
  <2>4. len = q + 1
    OBVIOUS
  <2> HIDE DEF q, len
  <2> QED  BY <2>3, <2>4
<1>2. hours = [n \in 1..len |-> start + (n - 1) * period]
  BY DEF hoursFrom
<1> HIDE DEF len, hours
<1>3. \A n \in 1..len : start + (n - 1) * period \in 0..23
  <2> SUFFICES ASSUME NEW n \in 1..len
               PROVE  start + (n - 1) * period \in 0..23
    OBVIOUS
  <2>1. n - 1 \in Nat /\ len - 1 \in Nat /\ n - 1 <= len - 1
    BY <1>1
  <2>2. \A a, b, p \in Nat : a <= b => a * p \in Nat /\ a * p <= b * p
    OBVIOUS
  <2>3. (n - 1) * period \in Nat /\ (n - 1) * period <= (len - 1) * period
    BY <2>1, <2>2
  <2>4. (len - 1) * period \in Nat
    BY <2>1
  <2> QED  BY <1>1, <2>3, <2>4
<1>4. hours \in Seq(0..23) /\ Len(hours) = len /\ hours # <<>>
  BY <1>1, <1>2, <1>3
<1>5. ASSUME NEW n \in 2..len
      PROVE  hours[n] - hours[n - 1] = period
  <2>1. n \in 1..len /\ n - 1 \in 1..len
    BY <1>1
  <2>2. hours[n] = start + (n - 1) * period /\ hours[n - 1] = start + (n - 2) * period
    BY <1>2, <2>1
  <2> QED  BY <2>1, <2>2
<1>6. ASSUME NEW h \in ToSet(hours)
      PROVE  \E n \in Nat : h = start + n * period
  <2>1. PICK n \in 1..len : h = start + (n - 1) * period
    BY <1>2 DEF ToSet
  <2>2. n - 1 \in Nat
    BY <1>1
  <2> QED  BY <2>1, <2>2
<1> QED  BY <1>4, <1>5, <1>6 DEF hours, len

\* Places in a group are in range and differ.
LEMMA Places ==
    ASSUME PeriodicsIInv, NEW i \in findMatchingJobs(periodics)
    PROVE  LET group == groupByFrequency(periodics, frequency(periodics[i].cron))
           IN  /\ Cardinality(group) \in Nat
               /\ place(periodics, i) \in 0 .. Cardinality(group) - 1
               /\ \A k \in group \ {i} : place(periodics, k) # place(periodics, i)
<1> DEFINE group == groupByFrequency(periodics, frequency(periodics[i].cron))
           Earlier(k) == {m \in group : periodics[m].name < periodics[k].name}
<1>1. IsFiniteSet(group)
  <2>1. Len(periodics) \in Nat /\ DOMAIN periodics = 1..Len(periodics)
    BY DEF PeriodicsIInv
  <2>2. IsFiniteSet(1..Len(periodics))
    BY <2>1, FS_Interval
  <2>3. group \in SUBSET (1..Len(periodics))
    BY <2>1 DEF groupByFrequency, findMatchingJobs
  <2> QED  BY <2>2, <2>3, FS_Subset
<1>2. i \in group /\ \A k \in group : frequency(periodics[k].cron) = frequency(periodics[i].cron)
  BY DEF groupByFrequency
<1>3. \A k \in group : place(periodics, k) = Cardinality(Earlier(k))
  BY <1>2 DEF place
<1>4. \A k \in group : periodics[k].name \in Nat
  <2>1. \A k \in group : periodics[k] \in Periodics
    BY DEF groupByFrequency, findMatchingJobs, PeriodicsIInv
  <2> QED  BY <2>1 DEF Periodics
<1>5. \A k, m \in group : k # m => periodics[k].name # periodics[m].name
  BY DEF groupByFrequency, findMatchingJobs, PeriodicsIInv
<1> HIDE DEF group
<1>6. \A k \in group : Earlier(k) \in SUBSET group /\ k \notin Earlier(k)
  BY <1>4
<1>7. \A k \in group : IsFiniteSet(Earlier(k)) /\ Cardinality(Earlier(k)) < Cardinality(group)
                       /\ Cardinality(Earlier(k)) \in Nat
  <2> SUFFICES ASSUME NEW k \in group
               PROVE  IsFiniteSet(Earlier(k)) /\ Cardinality(Earlier(k)) < Cardinality(group)
                      /\ Cardinality(Earlier(k)) \in Nat
    OBVIOUS
  <2>1. Earlier(k) \in SUBSET group /\ Earlier(k) # group
    BY <1>6
  <2> HIDE DEF Earlier
  <2>2. Cardinality(group) \in Nat
    BY <1>1, FS_CardinalityType
  <2>3. IsFiniteSet(Earlier(k)) /\ Cardinality(Earlier(k)) <= Cardinality(group)
        /\ Cardinality(Earlier(k)) # Cardinality(group)
    BY <1>1, <2>1, FS_Subset
  <2>4. Cardinality(Earlier(k)) \in Nat
    BY <2>3, FS_CardinalityType
  <2> QED  BY <2>2, <2>3, <2>4
<1>8. ASSUME NEW k \in group, NEW m \in group, periodics[k].name < periodics[m].name
      PROVE  Cardinality(Earlier(k)) # Cardinality(Earlier(m))
  <2>1. Earlier(k) \in SUBSET Earlier(m)
    BY <1>4, <1>8
  <2>2. k \in Earlier(m) /\ k \notin Earlier(k)
    BY <1>4, <1>8
  <2>3. IsFiniteSet(Earlier(m))
    BY <1>7
  <2> HIDE DEF Earlier
  <2> QED  BY <2>1, <2>2, <2>3, FS_Subset
<1>9. \A k \in group \ {i} : place(periodics, k) # place(periodics, i)
  <2> SUFFICES ASSUME NEW k \in group, k # i
               PROVE  Cardinality(Earlier(k)) # Cardinality(Earlier(i))
    BY <1>2, <1>3
  <2>1. periodics[k].name < periodics[i].name \/ periodics[i].name < periodics[k].name
    BY <1>2, <1>4, <1>5
  <2> HIDE DEF Earlier
  <2> QED  BY <1>2, <1>8, <2>1
<1>10. Cardinality(group) \in Nat
  BY <1>1, FS_CardinalityType
<1>11. place(periodics, i) \in 0 .. Cardinality(group) - 1
  <2>1. place(periodics, i) \in Nat /\ place(periodics, i) < Cardinality(group)
    BY <1>2, <1>3, <1>7
  <2> QED  BY <1>10, <2>1
<1> QED  BY <1>9, <1>10, <1>11 DEF group

\* What spread makes of the schedules.
LEMMA SpreadCrons ==
    ASSUME PeriodicsIInv, Spread, NEW i \in findMatchingJobs(periodics)
    PROVE  LET freq == frequency(periodics[i].cron)
               n == Cardinality(groupByFrequency(periodics, freq))
               offset == place(periodics, i) * staggerMinutes(freq, n)
           IN  /\ freq \in 1..24
               /\ periodics'[i] = [periodics[i] EXCEPT !.cron =
                                       [minute |-> offset % 60, hours |-> hoursFrom(offset \div 60, periodHours(freq))]]
<1>1. i \in DOMAIN periodics /\ periodics[i].cron # NoCron /\ periodics[i] \in Periodics
  BY DEF findMatchingJobs, PeriodicsIInv
<1>2. periodics[i].cron.hours \in Seq(0..23) \ {<<>>}
  BY <1>1 DEF Periodics, ReadableCrons
<1>3. frequency(periodics[i].cron) \in 1..24
  <2>1. frequency(periodics[i].cron) <= 24
    BY DEF Spread
  <2>2. \A s \in Seq(0..23) : s # <<>> => Len(s) \in Nat \ {0}
    OBVIOUS
  <2>3. Len(periodics[i].cron.hours) \in Nat \ {0}
    BY <1>2, <2>2
  <2>4. frequency(periodics[i].cron) = Len(periodics[i].cron.hours)
    BY DEF frequency
  <2>5. \A n \in Nat \ {0} : n <= 24 => n \in 1..24
    OBVIOUS
  <2>6. frequency(periodics[i].cron) \in Nat \ {0}
    BY <2>3, <2>4
  <2> QED  BY <2>1, <2>5, <2>6
<1>4. jobMap(periodics, periodics[i].name) = spreadCron(periodics, i)
  <2>1. \A k \in findMatchingJobs(periodics) : periodics[k].name = periodics[i].name <=> k = i
    BY DEF PeriodicsIInv, findMatchingJobs
  <2>2. (CHOOSE k \in findMatchingJobs(periodics) : periodics[k].name = periodics[i].name) = i
    BY <2>1
  <2> QED  BY <2>2 DEF jobMap
<1>5. periodics'[i] = [periodics[i] EXCEPT !.cron = spreadCron(periodics, i)]
  BY <1>1, <1>4 DEF Spread, updateCronNodes
<1> QED  BY <1>3, <1>5 DEF spreadCron

\* The schedules of one job and of another of its group.
LEMMA SpreadJob ==
    ASSUME PeriodicsIInv, Spread, NEW i \in findMatchingJobs(periodics)
    PROVE  LET freq == frequency(periodics[i].cron)
               group == groupByFrequency(periodics, freq)
               cron == periodics'[i].cron
           IN  /\ periodics'[i] = [periodics[i] EXCEPT !.cron = cron]
               /\ cron \in ReadableCrons
               /\ Divides(freq) => /\ frequency(cron) = freq
                                   /\ \A n \in 2..freq : cron.hours[n] - cron.hours[n - 1] = 24 \div freq
               /\ \E offset \in Nat, start \in 0 .. periodHours(freq) - 1 :
                     /\ offset = place(periodics, i) * staggerMinutes(freq, Cardinality(group))
                     /\ offset = start * 60 + cron.minute
                     /\ \A h \in ToSet(cron.hours) : \E n \in Nat : h = start + n * periodHours(freq)
<1> DEFINE freq == frequency(periodics[i].cron)
           group == groupByFrequency(periodics, freq)
           period == periodHours(freq)
           offset == place(periodics, i) * staggerMinutes(freq, Cardinality(group))
           start == offset \div 60
           minute == offset % 60
           hours == hoursFrom(start, period)
<1>1. freq \in 1..24
  BY SpreadCrons
<1>2. periodics'[i] = [periodics[i] EXCEPT !.cron = [minute |-> minute, hours |-> hours]]
  BY SpreadCrons
<1>3. Cardinality(group) \in Nat /\ place(periodics, i) \in 0 .. Cardinality(group) - 1
  BY Places
<1>4. period \in 1..24 /\ offset \in 0 .. period * 60 - 1
  <2> HIDE DEF freq, group
  <2> QED  BY <1>1, <1>3, Stagger
<1> HIDE DEF offset, period
<1>5. offset \in Nat /\ start \in 0 .. period - 1 /\ minute \in 0..59 /\ offset = start * 60 + minute
  BY <1>4
<1> HIDE DEF start, minute
<1>6. /\ hours \in Seq(0..23) \ {<<>>}
      /\ Len(hours) = ((23 - start) \div period) + 1
      /\ \A n \in 2..Len(hours) : hours[n] - hours[n - 1] = period
      /\ \A h \in ToSet(hours) : \E n \in Nat : h = start + n * period
  BY <1>4, <1>5, HoursFrom
<1> HIDE DEF hours
<1>7. periodics[i] \in Periodics
  BY DEF PeriodicsIInv, findMatchingJobs
<1>8. /\ periodics'[i].cron = [minute |-> minute, hours |-> hours]
      /\ periodics'[i].cron.minute = minute /\ periodics'[i].cron.hours = hours
  BY <1>2, <1>7 DEF Periodics
<1>9. periodics'[i].cron \in ReadableCrons
  BY <1>5, <1>6, <1>8 DEF ReadableCrons
<1>10. ASSUME Divides(freq)
       PROVE  /\ Len(hours) = freq
              /\ \A n \in 2..freq : hours[n] - hours[n - 1] = 24 \div freq
  <2>1. freq \in {1, 2, 3, 4, 6, 8, 12, 24} /\ period = 24 \div freq
    <3> HIDE DEF freq
    <3> QED  BY <1>1, <1>10 DEF Divides, periodHours, period
  <2>2. ((23 - start) \div period) + 1 = freq
    <3> HIDE DEF freq
    <3> QED  BY <1>5, <2>1
  <2> QED  BY <1>6, <2>1, <2>2
<1>11. Divides(freq) => /\ frequency(periodics'[i].cron) = freq
                        /\ \A n \in 2..freq :
                              periodics'[i].cron.hours[n] - periodics'[i].cron.hours[n - 1] = 24 \div freq
  <2> HIDE DEF freq
  <2> QED  BY <1>8, <1>10 DEF frequency
<1>12. \E o \in Nat, s \in 0 .. period - 1 :
          /\ o = place(periodics, i) * staggerMinutes(freq, Cardinality(group))
          /\ o = s * 60 + periodics'[i].cron.minute
          /\ \A h \in ToSet(periodics'[i].cron.hours) : \E n \in Nat : h = s + n * period
  <2>1. offset = place(periodics, i) * staggerMinutes(freq, Cardinality(group))
    BY DEF offset
  <2> HIDE DEF freq, group
  <2> QED  BY <1>5, <1>6, <1>8, <2>1
<1> QED  BY <1>2, <1>8, <1>9, <1>11, <1>12 DEF period

LEMMA SpreadIsWell == ASSUME PeriodicsIInv, Spread PROVE SpreadWell
<1> SUFFICES ASSUME NEW i \in findMatchingJobs(periodics)
             PROVE  LET cron == periodics'[i].cron
                        freq == frequency(periodics[i].cron)
                        group == groupByFrequency(periodics, freq)
                    IN  /\ \A k \in group \ {i} :
                              Cardinality(group) <= periodHours(freq) * 60 =>
                                \/ cron.minute # periodics'[k].cron.minute
                                \/ ToSet(cron.hours) \cap ToSet(periodics'[k].cron.hours) = {}
                        /\ Divides(freq) => /\ frequency(cron) = freq
                                            /\ \A n \in 2..freq : cron.hours[n] - cron.hours[n - 1] = 24 \div freq
  BY DEF SpreadWell
<1> DEFINE freq == frequency(periodics[i].cron)
           group == groupByFrequency(periodics, freq)
           period == periodHours(freq)
<1>1. freq \in 1..24 /\ period \in 1..24
  <2>1. freq \in 1..24
    BY SpreadCrons
  <2> HIDE DEF freq
  <2> QED  BY <2>1 DEF periodHours
<1>2. ASSUME NEW k \in group \ {i}, Cardinality(group) <= period * 60,
             periodics'[i].cron.minute = periodics'[k].cron.minute,
             NEW h \in ToSet(periodics'[i].cron.hours), h \in ToSet(periodics'[k].cron.hours)
      PROVE  FALSE
  <2>1. k \in findMatchingJobs(periodics) /\ frequency(periodics[k].cron) = freq
    BY DEF groupByFrequency
  <2>2. periodics'[i].cron \in ReadableCrons
    BY SpreadJob
  <2>3. PICK offset \in Nat, start \in 0 .. period - 1 :
            /\ offset = place(periodics, i) * staggerMinutes(freq, Cardinality(group))
            /\ offset = start * 60 + periodics'[i].cron.minute
            /\ \A g \in ToSet(periodics'[i].cron.hours) : \E n \in Nat : g = start + n * period
    BY SpreadJob
  <2>10. PICK n \in Nat : h = start + n * period
    BY <1>2, <2>3
  <2>4. PICK other \in Nat, begin \in 0 .. period - 1 :
            /\ other = place(periodics, k) * staggerMinutes(freq, Cardinality(group))
            /\ other = begin * 60 + periodics'[k].cron.minute
            /\ \A g \in ToSet(periodics'[k].cron.hours) : \E r \in Nat : g = begin + r * period
    <3>1. frequency(periodics[k].cron) = freq /\ groupByFrequency(periodics, frequency(periodics[k].cron)) = group
      BY <2>1
    <3> DEFINE itsFreq == frequency(periodics[k].cron)
               itsGroup == groupByFrequency(periodics, itsFreq)
    <3>2. \E other \in Nat, begin \in 0 .. periodHours(itsFreq) - 1 :
            /\ other = place(periodics, k) * staggerMinutes(itsFreq, Cardinality(itsGroup))
            /\ other = begin * 60 + periodics'[k].cron.minute
            /\ \A g \in ToSet(periodics'[k].cron.hours) : \E r \in Nat : g = begin + r * periodHours(itsFreq)
      BY <2>1, SpreadJob
    <3>3. itsFreq = freq /\ itsGroup = group
      BY <3>1
    <3> HIDE DEF freq, group, itsFreq, itsGroup
    <3> QED  BY <3>2, <3>3
  <2>11. PICK m \in Nat : h = begin + m * period
    BY <1>2, <2>4
  <2>5. /\ Cardinality(group) \in Nat /\ place(periodics, i) \in 0 .. Cardinality(group) - 1
        /\ place(periodics, k) # place(periodics, i)
    BY <1>2, Places
  <2>6. place(periodics, k) \in 0 .. Cardinality(group) - 1
    BY <2>1, Places
  <2> HIDE DEF freq, group
  <2>7. offset # other
    BY <1>1, <1>2, <2>3, <2>4, <2>5, <2>6, Stagger
  <2> HIDE DEF period
  <2>8. start = begin
    <3>1. \A p \in 1..24 : \A a, b \in Nat, s, t \in 0 .. p - 1 : s + a * p = t + b * p => s = t
      OBVIOUS
    <3> QED  BY <1>1, <2>10, <2>11, <3>1
  <2>9. periodics'[i].cron.minute \in 0..59
    BY <2>2 DEF ReadableCrons
  <2> QED  BY <1>2, <2>3, <2>4, <2>7, <2>8, <2>9
<1>3. Divides(freq) => /\ frequency(periodics'[i].cron) = freq
                       /\ \A n \in 2..freq :
                             periodics'[i].cron.hours[n] - periodics'[i].cron.hours[n - 1] = 24 \div freq
  BY SpreadJob
<1> QED  BY <1>2, <1>3

-----------------------------------------------------------------------------
LEMMA SpreadIInv == ASSUME PeriodicsIInv, Spread PROVE PeriodicsIInv'
<1>1. /\ periodics' = updateCronNodes(periodics) /\ DOMAIN periodics' = DOMAIN periodics
      /\ \A i \in DOMAIN periodics \ findMatchingJobs(periodics) : periodics'[i] = periodics[i]
  BY DEF Spread, updateCronNodes
<1>2. ASSUME NEW i \in DOMAIN periodics
      PROVE  periodics'[i] \in Periodics /\ periodics'[i].name = periodics[i].name
  <2>1. periodics[i] \in Periodics
    BY DEF PeriodicsIInv
  <2>2. CASE i \in findMatchingJobs(periodics)
    <3> DEFINE cron == periodics'[i].cron
    <3>1. periodics'[i] = [periodics[i] EXCEPT !.cron = cron] /\ cron \in ReadableCrons
      BY <2>2, SpreadJob
    <3> HIDE DEF cron
    <3> QED  BY <2>1, <3>1 DEF Periodics
  <2>3. CASE i \notin findMatchingJobs(periodics)
    BY <1>1, <2>1, <2>3
  <2> QED  BY <2>2, <2>3
<1>3. periodics' \in Seq(Periodics) /\ Len(periodics') = Len(periodics)
  <2>1. DOMAIN periodics' = 1..Len(periodics) /\ Len(periodics) \in Nat
    BY <1>1 DEF PeriodicsIInv
  <2>2. periodics' = [i \in 1..Len(periodics) |-> periodics'[i]]
    BY <1>1, <2>1 DEF updateCronNodes
  <2> QED  BY <1>1, <1>2, <2>1, <2>2
<1> QED  BY <1>1, <1>2, <1>3 DEF PeriodicsIInv

LEMMA AddJobIInv == ASSUME PeriodicsAssumption, PeriodicsIInv, AddJob PROVE PeriodicsIInv'
<1>1. PICK j \in Jobs, c \in Crons :
          /\ \A k \in DOMAIN periodics : periodics[k].name # j.name
          /\ periodics' = Append(periodics, [name |-> j.name, matches |-> j.matches, prefixed |-> j.prefixed,
                                             section |-> j.section, version |-> j.version, cron |-> c])
  BY DEF AddJob
<1> DEFINE new == [name |-> j.name, matches |-> j.matches, prefixed |-> j.prefixed,
                   section |-> j.section, version |-> j.version, cron |-> c]
<1>2. new \in Periodics /\ new.name = j.name
  BY DEF PeriodicsAssumption, Periodics
<1> HIDE DEF new
<1>3. periodics' = Append(periodics, new)
  BY <1>1 DEF new
<1>4. Len(periodics) < MaxPeriodics /\ MaxPeriodics \in Nat
  BY DEF AddJob, PeriodicsAssumption
<1>5. periodics' \in Seq(Periodics) /\ Len(periodics') = Len(periodics) + 1
  BY <1>2, <1>3 DEF PeriodicsIInv
<1>6. Len(periodics') <= MaxPeriodics
  <2>1. Len(periodics) \in Nat
    BY DEF PeriodicsIInv
  <2> QED  BY <1>4, <1>5, <2>1
<1>7. \A i, k \in DOMAIN periodics' : i # k => periodics'[i].name # periodics'[k].name
  BY <1>1, <1>2, <1>3 DEF PeriodicsIInv
<1> QED  BY <1>5, <1>6, <1>7 DEF PeriodicsIInv

LEMMA EditCronIInv == ASSUME PeriodicsAssumption, PeriodicsIInv, EditCron PROVE PeriodicsIInv'
<1>1. PICK i \in DOMAIN periodics, c \in Crons : periodics' = [periodics EXCEPT ![i].cron = c]
  BY DEF EditCron
<1> DEFINE new == [periodics[i] EXCEPT !.cron = c]
<1>2. periodics[i] \in Periodics /\ c \in {NoCron} \cup ReadableCrons
  BY DEF PeriodicsIInv, PeriodicsAssumption
<1>3. new \in Periodics /\ new.name = periodics[i].name
  BY <1>2 DEF Periodics
<1>4. periodics' = [periodics EXCEPT ![i] = new]
  BY <1>1
<1> HIDE DEF new
<1> QED  BY <1>3, <1>4 DEF PeriodicsIInv

LEMMA PeriodicsInvariant ==
    ASSUME PeriodicsAssumption
    PROVE  PeriodicsSpec => []PeriodicsIInv
<1>1. PeriodicsInit => PeriodicsIInv
  BY DEF PeriodicsInit, PeriodicsIInv, PeriodicsAssumption
<1>2. PeriodicsIInv /\ [PeriodicsNext]_periodicsVars => PeriodicsIInv'
  <2> SUFFICES ASSUME PeriodicsIInv, [PeriodicsNext]_periodicsVars
               PROVE  PeriodicsIInv'
    OBVIOUS
  <2>1. CASE UNCHANGED periodicsVars
    BY <2>1 DEF periodicsVars, PeriodicsIInv
  <2> QED  BY <2>1, SpreadIInv, AddJobIInv, EditCronIInv DEF PeriodicsNext
<1> QED  BY <1>1, <1>2, PTL DEF PeriodicsSpec

\* Whatever schedules people write, and however often spread ran before: it starts no two
\* jobs of a frequency at the same minute as long as there are enough of them, and runs a
\* job as often as before, evenly over the day, if the day is a multiple of its period.
THEOREM JobsSpreadWell ==
    ASSUME PeriodicsAssumption
    PROVE  PeriodicsSpec => [][Spread => SpreadWell]_periodicsVars
<1>1. PeriodicsIInv /\ [PeriodicsNext]_periodicsVars => [Spread => SpreadWell]_periodicsVars
  BY SpreadIsWell
<1> QED  BY <1>1, PeriodicsInvariant, PTL DEF PeriodicsSpec

\* What spread writes is a schedule that it, and Prow, can read again: a minute of an hour
\* and at least one hour of a day.
THEOREM PeriodicTypes ==
    ASSUME PeriodicsAssumption
    PROVE  PeriodicsSpec => []PeriodicsTypeOK
<1>1. PeriodicsIInv => PeriodicsTypeOK
  <2> SUFFICES ASSUME PeriodicsIInv, NEW j \in ToSet(periodics)
               PROVE  j.cron \in {NoCron} \cup ReadableCrons
    BY DEF PeriodicsTypeOK, PeriodicsIInv
  <2>1. j \in Periodics
    BY DEF PeriodicsIInv, ToSet
  <2> QED  BY <2>1 DEF Periodics
<1> QED  BY <1>1, PeriodicsInvariant, PTL

-----------------------------------------------------------------------------
(***************************************************************************)
(* The image bumper: what main names never goes back.                      *)
(***************************************************************************)

Tags == DatedTags \cup {latest}
Namings == [Kinds -> [RepoNames -> Nat]]

\* A checkout names tags that are there, and by jobs and deployments only dated ones.
Named(files) ==
    \A k \in Kinds, r \in RepoNames :
        /\ files[k][r] \in 0..Len(tags[r])
        /\ k # "containerfiles" /\ files[k][r] # 0 => files[k][r] \in dated(r)

\* No tag of the one is older than that of the other.
Advances(base, result) ==
    \A r \in RepoNames :
        /\ \A k \in {"jobs", "deployments"} : DateOf(r, base[k][r]) <= DateOf(r, result[k][r])
        /\ base["containerfiles"][r] <= result["containerfiles"][r]

\* An answer is a dated tag, and no older than what the robot found in its checkout.
Answered ==
    \A r \in RepoNames : bump.tagMap[r] # 0 =>
        /\ bump.tagMap[r] \in dated(r)
        /\ \A k \in {"jobs", "deployments"} : DateOf(r, bump.base[k][r]) <= DateOf(r, bump.tagMap[r])

CountersInv ==
    pushes \in 0..MaxPushes /\ byHand \in 0..MaxByHand /\ bumpFailures \in 0..MaxBumpFailures
BumpInv ==
    Bumping =>
        /\ bump \in [base : Namings, asked : 0..Len(Repos), tagMap : [RepoNames -> Nat]]
        /\ Named(bump.base) /\ Answered
BumpPRInv ==
    Proposed =>
        /\ bumpPR.base \in Namings /\ bumpPR.result \in Namings /\ bumpPR.result # bumpPR.base
        /\ Named(bumpPR.base) /\ Named(bumpPR.result)
        /\ Advances(bumpPR.base, bumpPR.result)

BumperIInv ==
    /\ tags \in [RepoNames -> Seq(Tags)]
    /\ named \in Namings /\ Named(named)
    /\ BumpInv /\ BumpPRInv
    /\ CountersInv

\* A number is largest among those of a finite set.
LEMMA SomeIsLargest ==
    ASSUME NEW S, IsFiniteSet(S), S # {}, NEW f, \A s \in S : f[s] \in Int
    PROVE  \E s \in S : \A t \in S : f[t] <= f[s]
<1> DEFINE Above(s) == {t \in S : f[t] > f[s]}
           all == {Above(s) : s \in S}
<1>1. \A s \in S : Above(s) \in SUBSET S /\ IsFiniteSet(Above(s))
  BY FS_Subset
<1>2. all \subseteq FiniteSubsetsOf(S) /\ all # {}
  BY <1>1 DEF FiniteSubsetsOf
<1> HIDE DEF all
<1>3. PICK x \in all : \A y \in all : <<y, x>> \notin StrictSubsetOrdering(S)
  BY <1>2, FS_StrictSubsetOrderingWellFounded, WFMin
<1> USE DEF all
<1>4. PICK s \in S : x = Above(s)
  BY <1>3
<1>5. ASSUME NEW t \in S, f[t] > f[s]
      PROVE  FALSE
  <2>1. Above(t) \subseteq Above(s) /\ t \in Above(s) /\ t \notin Above(t)
    <3>1. \A u \in S : f[u] > f[t] => f[u] > f[s]
      BY <1>5
    <3>2. ~(f[t] > f[t])
      OBVIOUS
    <3> QED  BY <1>5, <3>1, <3>2
  <2>2. <<Above(t), Above(s)>> \in StrictSubsetOrdering(S)
    BY <2>1, <1>1 DEF StrictSubsetOrdering
  <2> QED  BY <1>3, <1>4, <2>2
<1>6. \A t \in S : f[t] <= f[s]
  BY <1>5
<1> QED  BY <1>6

\* What is known of tags.
LEMMA TagTypes ==
    ASSUME BumperAssumption, tags \in [RepoNames -> Seq(Tags)], NEW r \in RepoNames
    PROVE  /\ Len(tags[r]) \in Nat /\ DOMAIN tags[r] = 1..Len(tags[r])
           /\ \A i \in DOMAIN tags[r] : tags[r][i] \in Tags /\ tags[r][i].date \in Nat /\ tags[r][i].hash \in Nat
           /\ \A i \in 0..Len(tags[r]) : DateOf(r, i) \in Nat
           /\ dated(r) \subseteq 1..Len(tags[r]) /\ IsFiniteSet(dated(r))
<1>1. tags[r] \in Seq(Tags)
  OBVIOUS
<1>2. Len(tags[r]) \in Nat /\ DOMAIN tags[r] = 1..Len(tags[r])
  BY <1>1
<1>3. \A t \in Tags : t.date \in Nat /\ t.hash \in Nat
  BY DEF Tags, latest, BumperAssumption
<1>4. \A i \in DOMAIN tags[r] : tags[r][i] \in Tags
  BY <1>1, <1>2
<1>5. \A i \in 0..Len(tags[r]) : i = 0 \/ i \in DOMAIN tags[r]
  BY <1>2
<1>6. \A i \in 0..Len(tags[r]) : DateOf(r, i) \in Nat
  BY <1>3, <1>4, <1>5 DEF DateOf
<1>7. dated(r) \subseteq 1..Len(tags[r]) /\ IsFiniteSet(dated(r))
  <2>1. dated(r) \subseteq 1..Len(tags[r])
    BY <1>2 DEF dated
  <2>2. IsFiniteSet(1..Len(tags[r]))
    BY <1>2, FS_Interval
  <2> QED  BY <2>1, <2>2, FS_Subset
<1> QED  BY <1>2, <1>3, <1>4, <1>6, <1>7

\* A repository with dated tags has one of the last date.
LEMMA LastDateExists ==
    ASSUME BumperAssumption, tags \in [RepoNames -> Seq(Tags)], NEW r \in RepoNames, dated(r) # {}
    PROVE  /\ ofLastDate(r) # {} /\ ofLastDate(r) \subseteq dated(r) /\ IsFiniteSet(ofLastDate(r))
           /\ \A i \in ofLastDate(r) : \A j \in dated(r) : DateOf(r, j) <= DateOf(r, i)
<1> DEFINE f == [i \in dated(r) |-> tags[r][i].date]
<1>1. \A i \in dated(r) : f[i] \in Int /\ DateOf(r, i) = f[i]
  BY TagTypes DEF DateOf
<1>2. PICK i \in dated(r) : \A j \in dated(r) : f[j] <= f[i]
  <2>1. IsFiniteSet(dated(r)) /\ \A s \in dated(r) : f[s] \in Int
    BY TagTypes, <1>1
  <2> HIDE DEF f
  <2> QED  BY <2>1, SomeIsLargest
<1>3. i \in ofLastDate(r) /\ ofLastDate(r) \subseteq dated(r)
  BY <1>2 DEF ofLastDate
<1>4. IsFiniteSet(ofLastDate(r))
  BY <1>3, TagTypes, FS_Subset
<1>5. \A k \in ofLastDate(r) : \A j \in dated(r) : DateOf(r, j) <= DateOf(r, k)
  BY <1>1 DEF ofLastDate
<1> QED  BY <1>3, <1>4, <1>5

\* LatestSkopeoTag and the script by hand both return tags of the last date.
LEMMA TakenIsOfLastDate ==
    ASSUME BumperAssumption, tags \in [RepoNames -> Seq(Tags)], NEW r \in RepoNames, dated(r) # {}
    PROVE  /\ LatestSkopeoTag(r) \in ofLastDate(r)
           /\ (CHOOSE i \in ofLastDate(r) : \A j \in ofLastDate(r) : tags[r][j].hash <= tags[r][i].hash)
                  \in ofLastDate(r)
<1>1. /\ ofLastDate(r) # {} /\ IsFiniteSet(ofLastDate(r))
      /\ \A i \in ofLastDate(r) : tags[r][i].hash \in Nat
  BY LastDateExists, TagTypes
<1>2. \E i \in ofLastDate(r) : \A j \in ofLastDate(r) : tags[r][j].hash <= tags[r][i].hash
  <2> DEFINE f == [i \in ofLastDate(r) |-> tags[r][i].hash]
  <2>1. \A i \in ofLastDate(r) : f[i] \in Int /\ f[i] = tags[r][i].hash
    BY <1>1
  <2> HIDE DEF f
  <2>2. \E i \in ofLastDate(r) : \A j \in ofLastDate(r) : f[j] <= f[i]
    BY <1>1, <2>1, SomeIsLargest
  <2> QED  BY <2>1, <2>2
<1>3. \E i \in ofLastDate(r) : \A j \in ofLastDate(r) : tags[r][i].hash <= tags[r][j].hash
  <2> DEFINE f == [i \in ofLastDate(r) |-> -tags[r][i].hash]
  <2>1. \A i \in ofLastDate(r) : f[i] \in Int /\ f[i] = -tags[r][i].hash
    BY <1>1
  <2> HIDE DEF f
  <2>2. \E i \in ofLastDate(r) : \A j \in ofLastDate(r) : f[j] <= f[i]
    BY <1>1, <2>1, SomeIsLargest
  <2>3. PICK i \in ofLastDate(r) : \A j \in ofLastDate(r) : f[j] <= f[i]
    BY <2>2
  <2>4. ASSUME NEW j \in ofLastDate(r)
        PROVE  tags[r][i].hash <= tags[r][j].hash
    <3>1. tags[r][i].hash \in Nat /\ tags[r][j].hash \in Nat /\ -tags[r][j].hash <= -tags[r][i].hash
      BY <1>1, <2>1, <2>3
    <3> QED  BY <3>1
  <2> QED  BY <2>4
<1> QED  BY <1>2, <1>3 DEF LatestSkopeoTag

\* What a new tag leaves as it was: the tags before it.
LEMMA PushKeeps ==
    ASSUME BumperAssumption, BumperIInv, NEW q \in RepoNames, NEW pushed \in Tags,
           tags' = [tags EXCEPT ![q] = Append(@, pushed)]
    PROVE  /\ tags' \in [RepoNames -> Seq(Tags)]
           /\ \A r \in RepoNames :
                  /\ Len(tags[r]) <= Len(tags'[r]) /\ dated(r) \subseteq dated(r)'
                  /\ \A i \in 0..Len(tags[r]) : DateOf(r, i)' = DateOf(r, i)
<1>1. tags \in [RepoNames -> Seq(Tags)]
  BY DEF BumperIInv
<1>2. tags' \in [RepoNames -> Seq(Tags)]
  BY <1>1
<1>3. ASSUME NEW r \in RepoNames
      PROVE  /\ Len(tags[r]) \in Nat /\ Len(tags[r]) <= Len(tags'[r]) /\ Len(tags'[r]) \in Nat
             /\ \A i \in 1..Len(tags[r]) : tags'[r][i] = tags[r][i]
  <2>1. CASE r = q
    <3>1. tags'[r] = Append(tags[r], pushed) /\ tags[r] \in Seq(Tags)
      BY <1>1, <2>1
    <3> QED  BY <3>1
  <2>2. CASE r # q
    BY <1>1, <2>2
  <2> QED  BY <2>1, <2>2
<1>4. ASSUME NEW r \in RepoNames
      PROVE  /\ dated(r) \subseteq dated(r)'
             /\ \A i \in 0..Len(tags[r]) : DateOf(r, i)' = DateOf(r, i)
  <2>1. DOMAIN tags[r] = 1..Len(tags[r]) /\ DOMAIN tags'[r] = 1..Len(tags'[r])
    BY <1>1, <1>2
  <2>2. dated(r) \subseteq dated(r)'
    BY <1>3, <2>1 DEF dated
  <2>3. \A i \in 0..Len(tags[r]) : DateOf(r, i)' = DateOf(r, i)
    BY <1>3 DEF DateOf
  <2> QED  BY <2>2, <2>3
<1> QED  BY <1>2, <1>3, <1>4

\* Files and what is said of them outlast a new tag.
LEMMA NamedStays ==
    ASSUME BumperAssumption, BumperIInv, NEW q \in RepoNames, NEW pushed \in Tags,
           tags' = [tags EXCEPT ![q] = Append(@, pushed)]
    PROVE  /\ \A f \in Namings : Named(f) => Named(f)'
           /\ \A f, g \in Namings : Named(f) /\ Named(g) /\ Advances(f, g) => Advances(f, g)'
<1>1. \A r \in RepoNames : Len(tags[r]) \in Nat /\ Len(tags'[r]) \in Nat /\ Len(tags[r]) <= Len(tags'[r])
  <2>1. tags \in [RepoNames -> Seq(Tags)] /\ tags' \in [RepoNames -> Seq(Tags)]
    BY PushKeeps DEF BumperIInv
  <2>2. \A r \in RepoNames : Len(tags[r]) \in Nat /\ Len(tags'[r]) \in Nat
    BY <2>1
  <2>3. \A r \in RepoNames : Len(tags[r]) <= Len(tags'[r])
    BY PushKeeps
  <2> QED  BY <2>2, <2>3
<1>2. ASSUME NEW f \in Namings, Named(f)
      PROVE  Named(f)'
  <2> SUFFICES ASSUME NEW k \in Kinds, NEW r \in RepoNames
               PROVE  /\ f[k][r] \in 0..Len(tags'[r])
                      /\ k # "containerfiles" /\ f[k][r] # 0 => f[k][r] \in dated(r)'
    BY DEF Named
  <2>1. f[k][r] \in 0..Len(tags[r]) /\ (k # "containerfiles" /\ f[k][r] # 0 => f[k][r] \in dated(r))
    BY <1>2 DEF Named
  <2>2. dated(r) \subseteq dated(r)'
    BY PushKeeps
  <2> HIDE DEF dated
  <2>3. f[k][r] \in 0..Len(tags'[r])
    BY <1>1, <2>1
  <2> QED  BY <2>1, <2>2, <2>3
<1>3. ASSUME NEW f \in Namings, NEW g \in Namings, Named(f), Named(g), Advances(f, g)
      PROVE  Advances(f, g)'
  <2> SUFFICES ASSUME NEW r \in RepoNames
               PROVE  /\ \A k \in {"jobs", "deployments"} : DateOf(r, f[k][r])' <= DateOf(r, g[k][r])'
                      /\ f["containerfiles"][r] <= g["containerfiles"][r]
    BY DEF Advances
  <2>1. ASSUME NEW k \in {"jobs", "deployments"}
        PROVE  DateOf(r, f[k][r])' <= DateOf(r, g[k][r])'
    <3>1. f[k][r] \in 0..Len(tags[r]) /\ g[k][r] \in 0..Len(tags[r])
      BY <1>3 DEF Named, Kinds
    <3>2. PICK i \in 0..Len(tags[r]), j \in 0..Len(tags[r]) : i = f[k][r] /\ j = g[k][r]
      BY <3>1
    <3>3. DateOf(r, i)' <= DateOf(r, j)'
      <4>1. DateOf(r, i) <= DateOf(r, j)
        BY <1>3, <3>2 DEF Advances
      <4> QED  BY <4>1, PushKeeps
    <3> QED  BY <3>2, <3>3
  <2>2. f["containerfiles"][r] <= g["containerfiles"][r]
    BY <1>3 DEF Advances
  <2> QED  BY <2>1, <2>2
<1> QED  BY <1>2, <1>3

LEMMA PushImageIInv ==
    ASSUME BumperAssumption, BumperIInv, NEW q \in RepoNames, NEW pushed \in Tags, PushImage(q, pushed)
    PROVE  BumperIInv'
<1>1. /\ tags' = [tags EXCEPT ![q] = Append(@, pushed)]
      /\ named' = named /\ bump' = bump /\ bumpPR' = bumpPR
      /\ pushes' = pushes + 1 /\ pushes < MaxPushes /\ byHand' = byHand /\ bumpFailures' = bumpFailures
  BY DEF PushImage
<1>2. CountersInv'
  BY <1>1 DEF BumperIInv, CountersInv, BumperAssumption
<1>3. named' \in Namings /\ Named(named)'
  <2>1. named \in Namings /\ Named(named)
    BY DEF BumperIInv
  <2>2. \A f \in Namings : Named(f) => Named(f)'
    BY <1>1, NamedStays
  <2>3. PICK f \in Namings : f = named
    BY <2>1
  <2>4. Named(f)'
    BY <2>1, <2>2, <2>3
  <2> QED  BY <1>1, <2>1, <2>3, <2>4 DEF Named
<1>4. BumpInv'
  <2> SUFFICES ASSUME Bumping
               PROVE  /\ bump \in [base : Namings, asked : 0..Len(Repos), tagMap : [RepoNames -> Nat]]
                      /\ Named(bump.base)' /\ Answered'
    BY <1>1 DEF BumpInv, Bumping
  <2>1. /\ bump \in [base : Namings, asked : 0..Len(Repos), tagMap : [RepoNames -> Nat]]
        /\ Named(bump.base) /\ Answered
    BY DEF BumperIInv, BumpInv
  <2>2. PICK f \in Namings, m \in [RepoNames -> Nat] : f = bump.base /\ m = bump.tagMap
    BY <2>1
  <2>3. Named(bump.base)'
    <3>1. Named(f)'
      BY <1>1, <2>1, <2>2, NamedStays
    <3> QED  BY <1>1, <2>2, <3>1 DEF Named
  <2>4. ASSUME NEW r \in RepoNames, m[r] # 0
        PROVE  /\ m[r] \in dated(r)'
               /\ \A k \in {"jobs", "deployments"} : DateOf(r, f[k][r])' <= DateOf(r, m[r])'
    <3>1. /\ m[r] \in dated(r)
          /\ \A k \in {"jobs", "deployments"} : DateOf(r, f[k][r]) <= DateOf(r, m[r])
      BY <2>1, <2>2, <2>4 DEF Answered
    <3>2. dated(r) \subseteq 1..Len(tags[r]) /\ Len(tags[r]) \in Nat
      BY TagTypes DEF BumperIInv
    <3>3. \A i \in 0..Len(tags[r]) : DateOf(r, i)' = DateOf(r, i)
      BY <1>1, PushKeeps
    <3>4. dated(r) \subseteq dated(r)'
      BY <1>1, PushKeeps
    <3>5. ASSUME NEW k \in {"jobs", "deployments"}
          PROVE  DateOf(r, f[k][r])' <= DateOf(r, m[r])'
      <4>1. f[k][r] \in 0..Len(tags[r])
        BY <2>1, <2>2 DEF Named, Kinds
      <4>2. m[r] \in 0..Len(tags[r])
        BY <3>1, <3>2
      <4>3. PICK i \in 0..Len(tags[r]), j \in 0..Len(tags[r]) : i = f[k][r] /\ j = m[r]
        BY <4>1, <4>2
      <4>4. DateOf(r, i) <= DateOf(r, j)
        BY <3>1, <4>3
      <4>5. DateOf(r, i)' <= DateOf(r, j)'
        BY <3>3, <4>4
      <4> QED  BY <4>3, <4>5
    <3> QED  BY <3>1, <3>4, <3>5
  <2>5. Answered'
    <3> SUFFICES ASSUME NEW r \in RepoNames, bump.tagMap[r] # 0
                 PROVE  /\ bump.tagMap[r] \in dated(r)'
                        /\ \A k \in {"jobs", "deployments"} :
                               DateOf(r, bump.base[k][r])' <= DateOf(r, bump.tagMap[r])'
      BY <1>1 DEF Answered, DateOf, dated
    <3>1. m[r] # 0
      BY <2>2
    <3>2. /\ m[r] \in dated(r)'
          /\ \A k \in {"jobs", "deployments"} : DateOf(r, f[k][r])' <= DateOf(r, m[r])'
      BY <2>4, <3>1
    <3>3. bump.tagMap[r] \in dated(r)'
      BY <2>2, <3>2 DEF dated
    <3>4. ASSUME NEW k \in {"jobs", "deployments"}
          PROVE  DateOf(r, bump.base[k][r])' <= DateOf(r, bump.tagMap[r])'
      <4>1. DateOf(r, f[k][r])' <= DateOf(r, m[r])'
        BY <3>2
      <4>2. bump'.base = f /\ bump'.tagMap = m
        BY <1>1, <2>2
      <4> QED  BY <4>1, <4>2 DEF DateOf
    <3> QED  BY <3>3, <3>4
  <2> QED  BY <2>1, <2>3, <2>5
<1>5. BumpPRInv'
  <2> SUFFICES ASSUME Proposed
               PROVE  /\ bumpPR.base \in Namings /\ bumpPR.result \in Namings /\ bumpPR.result # bumpPR.base
                      /\ Named(bumpPR.base)' /\ Named(bumpPR.result)' /\ Advances(bumpPR.base, bumpPR.result)'
    BY <1>1 DEF BumpPRInv, Proposed
  <2>1. /\ bumpPR.base \in Namings /\ bumpPR.result \in Namings /\ bumpPR.result # bumpPR.base
        /\ Named(bumpPR.base) /\ Named(bumpPR.result) /\ Advances(bumpPR.base, bumpPR.result)
    BY DEF BumperIInv, BumpPRInv
  <2>2. PICK f \in Namings, g \in Namings : f = bumpPR.base /\ g = bumpPR.result
    BY <2>1
  <2>3. Named(f)' /\ Named(g)' /\ Advances(f, g)'
    BY <1>1, <2>1, <2>2, NamedStays
  <2>4. Named(bumpPR.base)' /\ Named(bumpPR.result)'
    BY <1>1, <2>2, <2>3 DEF Named
  <2>5. Advances(bumpPR.base, bumpPR.result)'
    <3>1. /\ \A r \in RepoNames : \A k \in {"jobs", "deployments"} :
                 DateOf(r, f[k][r])' <= DateOf(r, g[k][r])'
          /\ \A r \in RepoNames : f["containerfiles"][r] <= g["containerfiles"][r]
      BY <2>3 DEF Advances
    <3> SUFFICES ASSUME NEW r \in RepoNames
                 PROVE  /\ \A k \in {"jobs", "deployments"} :
                               DateOf(r, bumpPR.base[k][r])' <= DateOf(r, bumpPR.result[k][r])'
                        /\ bumpPR.base["containerfiles"][r] <= bumpPR.result["containerfiles"][r]
      BY <1>1 DEF Advances
    <3>2. ASSUME NEW k \in {"jobs", "deployments"}
          PROVE  DateOf(r, bumpPR.base[k][r])' <= DateOf(r, bumpPR.result[k][r])'
      <4>1. DateOf(r, f[k][r])' <= DateOf(r, g[k][r])'
        BY <3>1
      <4>2. bumpPR'.base = f /\ bumpPR'.result = g
        BY <1>1, <2>2
      <4> QED  BY <4>1, <4>2 DEF DateOf
    <3> QED  BY <2>2, <3>1, <3>2
  <2> QED  BY <2>1, <2>4, <2>5
<1>6. tags' \in [RepoNames -> Seq(Tags)]
  BY <1>1, PushKeeps
<1> QED  BY <1>2, <1>3, <1>4, <1>5, <1>6 DEF BumperIInv

LEMMA BumperInitIInv == ASSUME BumperAssumption, BumperInit PROVE BumperIInv
<1>1. tags \in [RepoNames -> Seq(Tags)]
  <2>1. << >> \in Seq(Tags)
    OBVIOUS
  <2> QED  BY <2>1 DEF BumperInit
<1>2. named \in Namings
  BY DEF BumperInit, Namings
<1>3. Named(named)
  BY <1>1 DEF BumperInit, Named
<1>4. ~Bumping /\ ~Proposed
  BY DEF BumperInit, Bumping, Proposed
<1>5. CountersInv
  BY DEF BumperInit, CountersInv, BumperAssumption
<1> QED  BY <1>1, <1>2, <1>3, <1>4, <1>5 DEF BumperIInv, BumpInv, BumpPRInv

\* While tags and main stay, what is said of files stays.
LEMMA TagsStay ==
    ASSUME tags' = tags
    PROVE  /\ \A f : Named(f)' <=> Named(f)
           /\ \A f, g : Advances(f, g)' <=> Advances(f, g)
           /\ \A r : dated(r)' = dated(r) /\ ofLastDate(r)' = ofLastDate(r)
           /\ \A r, i : DateOf(r, i)' = DateOf(r, i)
BY DEF Named, Advances, dated, ofLastDate, DateOf

LEMMA StartBumpIInv == ASSUME BumperAssumption, BumperIInv, StartBump PROVE BumperIInv'
<1>1. /\ bump' = [base |-> named, asked |-> 0, tagMap |-> [r \in RepoNames |-> 0]]
      /\ tags' = tags /\ named' = named /\ bumpPR' = bumpPR
      /\ pushes' = pushes /\ byHand' = byHand /\ bumpFailures' = bumpFailures
  BY DEF StartBump
<1>2. named \in Namings /\ Named(named)
  BY DEF BumperIInv
<1>3. BumpInv'
  <2>1. Len(Repos) \in Nat
    BY DEF BumperAssumption
  <2>2. bump' \in [base : Namings, asked : 0..Len(Repos), tagMap : [RepoNames -> Nat]]
    BY <1>1, <1>2, <2>1
  <2>3. Named(bump.base)'
    BY <1>1, <1>2 DEF Named, dated
  <2>4. Answered'
    BY <1>1 DEF Answered
  <2> QED  BY <2>2, <2>3, <2>4 DEF BumpInv
<1>4. BumpPRInv'
  BY <1>1 DEF BumperIInv, BumpPRInv, Proposed, Named, Advances, DateOf, dated
<1>5. Named(named)' /\ CountersInv'
  BY <1>1, <1>2 DEF BumperIInv, CountersInv, Named, dated
<1> QED  BY <1>1, <1>3, <1>4, <1>5 DEF BumperIInv

LEMMA ResolveTagIInv == ASSUME BumperAssumption, BumperIInv, ResolveTag PROVE BumperIInv'
<1>1. PICK r \in RepoNames :
          bump' = IF dated(r) = {} THEN [bump EXCEPT !.asked = @ + 1]
                  ELSE [bump EXCEPT !.asked = @ + 1, !.tagMap[r] = LatestSkopeoTag(r)]
  <2>1. Repos[bump.asked + 1] \in RepoNames
    <3>1. bump.asked \in Nat /\ bump.asked < Len(Repos) /\ DOMAIN Repos = 1..Len(Repos)
      BY DEF BumperAssumption, ResolveTag, BumperIInv, BumpInv
    <3> QED  BY <3>1 DEF RepoNames
  <2> QED  BY <2>1 DEF ResolveTag
<1>2. /\ Bumping /\ tags' = tags /\ named' = named /\ bumpPR' = bumpPR
      /\ pushes' = pushes /\ byHand' = byHand /\ bumpFailures' = bumpFailures
  BY DEF ResolveTag
<1>3. /\ bump \in [base : Namings, asked : 0..Len(Repos), tagMap : [RepoNames -> Nat]]
      /\ Named(bump.base) /\ Answered
  BY <1>2 DEF BumperIInv, BumpInv
<1>4. bump.asked + 1 \in 0..Len(Repos)
  BY <1>3 DEF ResolveTag, BumperAssumption
<1>5. CASE dated(r) = {}
  <2>1. /\ bump' \in [base : Namings, asked : 0..Len(Repos), tagMap : [RepoNames -> Nat]]
        /\ bump'.base = bump.base /\ bump'.tagMap = bump.tagMap
    BY <1>1, <1>3, <1>4, <1>5
  <2>2. BumpInv'
    BY <1>2, <1>3, <2>1 DEF BumpInv, Named, Answered, dated, DateOf
  <2> QED  BY <1>2, <2>2 DEF BumperIInv, CountersInv, BumpPRInv, Proposed, Named, Advances, DateOf, dated
<1>6. CASE dated(r) # {}
  <2>1. LatestSkopeoTag(r) \in ofLastDate(r)
    BY <1>6, TakenIsOfLastDate DEF BumperIInv
  <2>2. PICK t \in ofLastDate(r) : t = LatestSkopeoTag(r)
    BY <2>1
  <2>3. /\ t \in dated(r) /\ t \in Nat
        /\ \A j \in dated(r) : DateOf(r, j) <= DateOf(r, t)
        /\ DateOf(r, t) \in Nat
    BY <1>6, LastDateExists, TagTypes DEF BumperIInv
  <2>4. /\ bump' \in [base : Namings, asked : 0..Len(Repos), tagMap : [RepoNames -> Nat]]
        /\ bump'.base = bump.base /\ bump'.tagMap = [bump.tagMap EXCEPT ![r] = t]
    BY <1>1, <1>3, <1>4, <1>6, <2>2, <2>3
  <2>5. ASSUME NEW q \in RepoNames, bump'.tagMap[q] # 0
        PROVE  /\ bump'.tagMap[q] \in dated(q)
               /\ \A k \in {"jobs", "deployments"} : DateOf(q, bump.base[k][q]) <= DateOf(q, bump'.tagMap[q])
    <3>1. CASE q # r
      <4>1. bump'.tagMap[q] = bump.tagMap[q]
        BY <1>3, <2>4, <3>1
      <4> QED  BY <1>3, <2>5, <4>1 DEF Answered
    <3>2. CASE q = r
      <4>1. bump'.tagMap[q] = t
        BY <1>3, <2>4, <3>2
      <4>2. ASSUME NEW k \in {"jobs", "deployments"}
            PROVE  DateOf(r, bump.base[k][r]) <= DateOf(r, t)
        <5>1. bump.base[k][r] = 0 \/ bump.base[k][r] \in dated(r)
          BY <1>3 DEF Named, Kinds
        <5>2. CASE bump.base[k][r] = 0
          BY <2>3, <5>2 DEF DateOf
        <5> QED  BY <2>3, <5>1, <5>2
      <4> QED  BY <2>3, <3>2, <4>1, <4>2
    <3> QED  BY <3>1, <3>2
  <2>6. BumpInv'
    <3>1. Answered'
      BY <1>2, <2>4, <2>5 DEF Answered, dated, DateOf
    <3>2. Named(bump.base)'
      BY <1>2, <1>3, <2>4 DEF Named, dated
    <3> QED  BY <2>4, <3>1, <3>2 DEF BumpInv
  <2> QED  BY <1>2, <2>6 DEF BumperIInv, CountersInv, BumpPRInv, Proposed, Named, Advances, DateOf, dated
<1> QED  BY <1>5, <1>6

\* What the robot writes is there, and no older than what it read.
LEMMA BumpedAdvances ==
    ASSUME BumperAssumption, BumperIInv, Bumping
    PROVE  Bumped \in Namings /\ Named(Bumped) /\ Advances(bump.base, Bumped)
<1>1. /\ bump.base \in Namings /\ bump.tagMap \in [RepoNames -> Nat]
      /\ Named(bump.base) /\ Answered
  BY DEF BumperIInv, BumpInv
<1>2. ASSUME NEW r \in RepoNames
      PROVE  /\ \A k \in {"jobs", "deployments"} :
                    /\ Bumped[k][r] = bump.base[k][r] \/ (Bumped[k][r] = bump.tagMap[r] /\ bump.tagMap[r] # 0)
             /\ Bumped["containerfiles"][r] = bump.base["containerfiles"][r]
                  \/ Bumped["containerfiles"][r] = Len(tags[r])
  BY DEF Bumped, Kinds, BumpJobImages, BumpProwDeploymentImages, ReplaceKubevirtCIImage, bumpOneContainerfile,
         LatestQuayTag
<1>3. ASSUME NEW r \in RepoNames
      PROVE  /\ \A k \in {"jobs", "deployments"} :
                    /\ Bumped[k][r] \in 0..Len(tags[r])
                    /\ Bumped[k][r] # 0 => Bumped[k][r] \in dated(r)
                    /\ DateOf(r, bump.base[k][r]) <= DateOf(r, Bumped[k][r])
             /\ Bumped["containerfiles"][r] \in 0..Len(tags[r])
             /\ bump.base["containerfiles"][r] <= Bumped["containerfiles"][r]
  <2>1. /\ Len(tags[r]) \in Nat /\ dated(r) \subseteq 1..Len(tags[r])
        /\ \A i \in 0..Len(tags[r]) : DateOf(r, i) \in Nat
    BY TagTypes DEF BumperIInv
  <2>2. ASSUME NEW k \in {"jobs", "deployments"}
        PROVE  /\ Bumped[k][r] \in 0..Len(tags[r])
               /\ Bumped[k][r] # 0 => Bumped[k][r] \in dated(r)
               /\ DateOf(r, bump.base[k][r]) <= DateOf(r, Bumped[k][r])
    <3>1. /\ bump.base[k][r] \in 0..Len(tags[r])
          /\ bump.base[k][r] # 0 => bump.base[k][r] \in dated(r)
      BY <1>1 DEF Named, Kinds
    <3>2. CASE Bumped[k][r] = bump.base[k][r]
      BY <2>1, <3>1, <3>2
    <3>3. CASE Bumped[k][r] = bump.tagMap[r] /\ bump.tagMap[r] # 0
      <4>1. /\ bump.tagMap[r] \in dated(r)
            /\ DateOf(r, bump.base[k][r]) <= DateOf(r, bump.tagMap[r])
        BY <1>1, <3>3 DEF Answered
      <4>2. bump.tagMap[r] \in 0..Len(tags[r])
        BY <2>1, <4>1
      <4> QED  BY <3>3, <4>1, <4>2
    <3> QED  BY <1>2, <3>2, <3>3
  <2>3. bump.base["containerfiles"][r] \in 0..Len(tags[r])
    BY <1>1 DEF Named, Kinds
  <2> QED  BY <1>2, <2>1, <2>2, <2>3
<1>4. \A r \in RepoNames : Len(tags[r]) \in Nat
  BY TagTypes DEF BumperIInv
<1>5. Kinds = {"jobs", "deployments"} \cup {"containerfiles"}
  BY DEF Kinds
<1>6. \A k \in Kinds, r \in RepoNames : Bumped[k][r] \in Nat
  BY <1>3, <1>4, <1>5
<1>7. Bumped \in Namings
  <2> DEFINE v(k, r) == CASE k = "jobs" -> BumpJobImages(r)
                          [] k = "deployments" -> BumpProwDeploymentImages(r)
                          [] k = "containerfiles" -> bumpOneContainerfile(r)
  <2>1. Bumped = [k \in Kinds |-> [r \in RepoNames |-> v(k, r)]]
    BY DEF Bumped
  <2> HIDE DEF v
  <2>2. \A k \in Kinds, r \in RepoNames : v(k, r) \in Nat
    BY <1>6, <2>1
  <2> QED  BY <2>1, <2>2 DEF Namings
<1>8. Named(Bumped)
  <2> SUFFICES ASSUME NEW k \in Kinds, NEW r \in RepoNames
               PROVE  /\ Bumped[k][r] \in 0..Len(tags[r])
                      /\ k # "containerfiles" /\ Bumped[k][r] # 0 => Bumped[k][r] \in dated(r)
    BY DEF Named
  <2> QED  BY <1>3, <1>5
<1>9. Advances(bump.base, Bumped)
  BY <1>3 DEF Advances
<1> QED  BY <1>7, <1>8, <1>9

LEMMA FinishBumpIInv == ASSUME BumperAssumption, BumperIInv, FinishBump PROVE BumperIInv'
<1>1. /\ Bumping /\ bump' = NoBump /\ tags' = tags /\ named' = named
      /\ pushes' = pushes /\ byHand' = byHand
      /\ bumpPR' = bumpPR \/ (Bumped # bump.base /\ \E b \in BOOLEAN :
                                  bumpPR' = [base |-> bump.base, result |-> Bumped, labelled |-> b])
      /\ bumpFailures' = bumpFailures \/ (bumpFailures < MaxBumpFailures /\ bumpFailures' = bumpFailures + 1)
  BY DEF FinishBump
<1>2. CountersInv'
  BY <1>1 DEF BumperIInv, CountersInv, BumperAssumption
<1>3. BumpInv'
  BY <1>1 DEF BumpInv, Bumping
<1>4. BumpPRInv'
  <2>1. CASE bumpPR' = bumpPR
    BY <1>1, <2>1 DEF BumperIInv, BumpPRInv, Proposed, Named, Advances, DateOf, dated
  <2>2. CASE bumpPR' # bumpPR
    <3>1. bump.base \in Namings /\ Named(bump.base)
      BY <1>1 DEF BumperIInv, BumpInv
    <3>2. Bumped \in Namings /\ Named(Bumped) /\ Advances(bump.base, Bumped)
      BY <1>1, BumpedAdvances
    <3>3. PICK f \in Namings, g \in Namings, b \in BOOLEAN :
              f = bump.base /\ g = Bumped /\ f # g /\ bumpPR' = [base |-> f, result |-> g, labelled |-> b]
      BY <1>1, <2>2, <3>1, <3>2
    <3>4. bumpPR'.base = f /\ bumpPR'.result = g
      BY <3>3
    <3>5. Named(f) /\ Named(g) /\ Advances(f, g)
      BY <3>1, <3>2, <3>3
    <3>6. Named(f)' /\ Named(g)' /\ Advances(f, g)'
      BY <1>1, <3>5, TagsStay DEF Named, Advances, DateOf, dated
    <3>7. Named(bumpPR.base)' /\ Named(bumpPR.result)' /\ Advances(bumpPR.base, bumpPR.result)'
      BY <3>4, <3>6 DEF Named, Advances, DateOf, dated
    <3> QED  BY <3>3, <3>4, <3>7 DEF BumpPRInv
  <2> QED  BY <2>1, <2>2
<1>5. Named(named)' /\ named' \in Namings /\ tags' \in [RepoNames -> Seq(Tags)]
  BY <1>1 DEF BumperIInv, Named, dated
<1> QED  BY <1>2, <1>3, <1>4, <1>5 DEF BumperIInv

LEMMA BumpFailsIInv == ASSUME BumperAssumption, BumperIInv, BumpFails PROVE BumperIInv'
<1>1. /\ bump' = NoBump /\ tags' = tags /\ named' = named /\ bumpPR' = bumpPR
      /\ pushes' = pushes /\ byHand' = byHand
      /\ bumpFailures < MaxBumpFailures /\ bumpFailures' = bumpFailures + 1
  BY DEF BumpFails
<1>2. CountersInv'
  BY <1>1 DEF BumperIInv, CountersInv, BumperAssumption
<1>3. BumpInv'
  BY <1>1 DEF BumpInv, Bumping
<1>4. BumpPRInv' /\ Named(named)'
  BY <1>1 DEF BumperIInv, BumpPRInv, Proposed, Named, Advances, DateOf, dated
<1> QED  BY <1>1, <1>2, <1>3, <1>4 DEF BumperIInv

LEMMA CloseConflictingIInv == ASSUME BumperAssumption, BumperIInv, CloseConflicting PROVE BumperIInv'
<1>1. /\ bumpPR' = NoBumpPR /\ tags' = tags /\ named' = named /\ bump' = bump
      /\ pushes' = pushes /\ byHand' = byHand /\ bumpFailures' = bumpFailures
  BY DEF CloseConflicting
<1>2. BumpPRInv'
  BY <1>1 DEF BumpPRInv, Proposed
<1>3. BumpInv' /\ Named(named)' /\ CountersInv'
  BY <1>1 DEF BumperIInv, BumpInv, Bumping, Answered, Named, DateOf, dated, CountersInv
<1> QED  BY <1>1, <1>2, <1>3 DEF BumperIInv

\* A merge puts a line to what the robot wrote or leaves it, and neither is older.
LEMMA MergeIsLineByLine ==
    ASSUME BumperAssumption, BumperIInv, MergeBump
    PROVE  /\ named' \in Namings
           /\ \A k \in Kinds, r \in RepoNames :
                 \/ named'[k][r] = named[k][r]
                 \/ named'[k][r] = bumpPR.result[k][r] /\ named[k][r] = bumpPR.base[k][r]
<1>1. /\ named \in Namings /\ bumpPR.result \in Namings
  BY DEF BumperIInv, BumpPRInv, MergeBump, Mergeable
<1>2. named' = [k \in Kinds |-> [r \in RepoNames |->
                    IF BumpChanges(k, r) THEN bumpPR.result[k][r] ELSE named[k][r]]]
  BY DEF MergeBump
<1>3. ASSUME NEW k \in Kinds, NEW r \in RepoNames
      PROVE  /\ named'[k][r] = IF BumpChanges(k, r) THEN bumpPR.result[k][r] ELSE named[k][r]
             /\ named[k][r] \in Nat /\ bumpPR.result[k][r] \in Nat
  BY <1>1, <1>2 DEF Namings
<1>4. named' \in Namings
  BY <1>1, <1>2, <1>3 DEF Namings
<1>5. ASSUME NEW k \in Kinds, NEW r \in RepoNames, BumpChanges(k, r)
      PROVE  named[k][r] \in {bumpPR.base[k][r], bumpPR.result[k][r]}
  BY <1>5 DEF MergeBump, Mergeable
<1> QED  BY <1>3, <1>4, <1>5

LEMMA MergeBumpIInv == ASSUME BumperAssumption, BumperIInv, MergeBump PROVE BumperIInv'
<1>1. /\ bumpPR' = NoBumpPR /\ tags' = tags /\ bump' = bump /\ Proposed
      /\ pushes' = pushes /\ byHand' = byHand /\ bumpFailures' = bumpFailures
  BY DEF MergeBump, Mergeable
<1>2. BumpPRInv'
  BY <1>1 DEF BumpPRInv, Proposed
<1>3. BumpInv' /\ CountersInv'
  BY <1>1 DEF BumperIInv, BumpInv, Bumping, Answered, Named, DateOf, dated, CountersInv
<1>4. Named(named)'
  <2> SUFFICES ASSUME NEW k \in Kinds, NEW r \in RepoNames
               PROVE  /\ named'[k][r] \in 0..Len(tags[r])
                      /\ k # "containerfiles" /\ named'[k][r] # 0 => named'[k][r] \in dated(r)
    BY <1>1 DEF Named, dated
  <2>1. Named(named) /\ Named(bumpPR.result)
    BY <1>1 DEF BumperIInv, BumpPRInv
  <2>2. named'[k][r] = named[k][r] \/ named'[k][r] = bumpPR.result[k][r]
    BY MergeIsLineByLine
  <2> QED  BY <2>1, <2>2 DEF Named
<1> QED  BY <1>1, <1>2, <1>3, <1>4, MergeIsLineByLine DEF BumperIInv

\* The script by hand puts jobs to a tag of the last date.
LEMMA ByHandIsOfLastDate ==
    ASSUME BumperAssumption, BumperIInv, NEW q \in RepoNames, UpdateByHand(q)
    PROVE  \E t \in ofLastDate(q) :
              /\ t \in dated(q) /\ t \in 0..Len(tags[q]) /\ t \in Nat
              /\ named' \in Namings
              /\ \A k \in Kinds, r \in RepoNames :
                     named'[k][r] = IF k = "jobs" /\ r = q THEN t ELSE named[k][r]
<1>1. dated(q) # {} /\ tags \in [RepoNames -> Seq(Tags)] /\ named \in Namings
  BY DEF UpdateByHand, BumperIInv
<1>2. PICK t \in ofLastDate(q) : named' = [named EXCEPT !["jobs"][q] = t]
  BY <1>1, TakenIsOfLastDate DEF UpdateByHand
<1>3. t \in dated(q) /\ t \in 0..Len(tags[q]) /\ t \in Nat
  BY <1>1, LastDateExists, TagTypes
<1>4. /\ named' \in Namings
      /\ \A k \in Kinds, r \in RepoNames :
             named'[k][r] = IF k = "jobs" /\ r = q THEN t ELSE named[k][r]
  BY <1>1, <1>2, <1>3 DEF Namings
<1> QED  BY <1>3, <1>4

LEMMA UpdateByHandIInv ==
    ASSUME BumperAssumption, BumperIInv, NEW q \in RepoNames, UpdateByHand(q) PROVE BumperIInv'
<1>1. /\ bumpPR' = bumpPR /\ tags' = tags /\ bump' = bump
      /\ pushes' = pushes /\ byHand < MaxByHand /\ byHand' = byHand + 1 /\ bumpFailures' = bumpFailures
  BY DEF UpdateByHand
<1>2. CountersInv'
  BY <1>1 DEF BumperIInv, CountersInv, BumperAssumption
<1>3. BumpInv' /\ BumpPRInv'
  BY <1>1 DEF BumperIInv, BumpInv, Bumping, Answered, Named, DateOf, dated, BumpPRInv, Proposed, Advances
<1>4. Named(named)'
  <2> SUFFICES ASSUME NEW k \in Kinds, NEW r \in RepoNames
               PROVE  /\ named'[k][r] \in 0..Len(tags[r])
                      /\ k # "containerfiles" /\ named'[k][r] # 0 => named'[k][r] \in dated(r)
    BY <1>1 DEF Named, dated
  <2>1. Named(named)
    BY DEF BumperIInv
  <2> QED  BY <2>1, ByHandIsOfLastDate DEF Named
<1> QED  BY <1>1, <1>2, <1>3, <1>4, ByHandIsOfLastDate DEF BumperIInv

LEMMA BumperNextIInv ==
    ASSUME BumperAssumption, BumperIInv, [BumperNext]_bumperVars PROVE BumperIInv'
<1>1. CASE UNCHANGED bumperVars
  BY <1>1 DEF bumperVars, BumperIInv, BumpInv, Bumping, Answered, Named, DateOf, dated, BumpPRInv, Proposed,
              Advances, CountersInv
<1>2. ASSUME NEW r \in RepoNames, NEW pushed \in DatedTags \cup {latest}, PushImage(r, pushed)
      PROVE  BumperIInv'
  BY <1>2, PushImageIInv DEF Tags
<1> QED
  BY <1>1, <1>2, StartBumpIInv, ResolveTagIInv, FinishBumpIInv, BumpFailsIInv, MergeBumpIInv, CloseConflictingIInv,
     UpdateByHandIInv DEF BumperNext

LEMMA BumperInvariant == ASSUME BumperAssumption PROVE BumperSpec => []BumperIInv
  BY BumperInitIInv, BumperNextIInv, PTL DEF BumperSpec

\* The bumper's variables stay in their types, and a pull request always changes something.
THEOREM BumperTypes == ASSUME BumperAssumption PROVE BumperSpec => []BumperTypeOK
<1>1. BumperIInv => BumperTypeOK
  BY DEF BumperIInv, BumpInv, BumpPRInv, Named, CountersInv, BumperTypeOK
<1> QED  BY <1>1, BumperInvariant, PTL

\* No merge of the bumper's pull request and no script of image-bumper's directory takes a
\* file back to an older image, however late the merge is and whatever was pushed, set by
\* hand and failed before.
THEOREM ImagesGoOn == ASSUME BumperAssumption PROVE BumperSpec => [][NothingGoesBack]_bumperVars
<1>1. ASSUME BumperIInv, BumperNext
      PROVE  NothingGoesBack
  <2> SUFFICES ASSUME NEW r \in RepoNames
               PROVE  /\ \A k \in {"jobs", "deployments"} :
                             DateOf(r, named[k][r]) <= DateOf(r, named[k][r])'
                      /\ named["containerfiles"][r] <= named'["containerfiles"][r]
    BY DEF NothingGoesBack
  <2>1. \A k \in Kinds : named[k][r] \in 0..Len(tags[r])
    BY <1>1 DEF BumperIInv, Named
  <2>2. /\ Len(tags[r]) \in Nat
        /\ \A i \in 0..Len(tags[r]) : DateOf(r, i) \in Nat
        /\ \A i \in dated(r) : i \in 0..Len(tags[r])
    BY <1>1, TagTypes DEF BumperIInv
  <2>3. CASE tags' = tags /\ named' = named
    BY <2>1, <2>2, <2>3 DEF Kinds, DateOf
  <2>4. CASE MergeBump
    <3>1. /\ tags' = tags /\ Advances(bumpPR.base, bumpPR.result)
          /\ bumpPR.base \in Namings /\ bumpPR.result \in Namings
      BY <1>1, <2>4 DEF MergeBump, Mergeable, BumperIInv, BumpPRInv
    <3>2. \A k \in Kinds : \/ named'[k][r] = named[k][r]
                           \/ named'[k][r] = bumpPR.result[k][r] /\ named[k][r] = bumpPR.base[k][r]
      BY <1>1, <2>4, MergeIsLineByLine
    <3>3. ASSUME NEW k \in {"jobs", "deployments"}
          PROVE  DateOf(r, named[k][r]) <= DateOf(r, named'[k][r])
      <4>1. k \in Kinds
        BY DEF Kinds
      <4>2. CASE named'[k][r] = named[k][r]
        BY <2>1, <2>2, <4>1, <4>2
      <4>3. CASE named'[k][r] = bumpPR.result[k][r] /\ named[k][r] = bumpPR.base[k][r]
        <5>1. DateOf(r, bumpPR.base[k][r]) <= DateOf(r, bumpPR.result[k][r])
          BY <3>1 DEF Advances
        <5> QED  BY <4>3, <5>1
      <4> QED  BY <3>2, <4>1, <4>2, <4>3
    <3>4. named["containerfiles"][r] <= named'["containerfiles"][r]
      <4>1. "containerfiles" \in Kinds
        BY DEF Kinds
      <4> QED  BY <2>1, <2>2, <3>1, <3>2, <4>1 DEF Advances
    <3> QED  BY <3>1, <3>3, <3>4 DEF DateOf
  <2>5. ASSUME NEW q \in RepoNames, UpdateByHand(q)
        PROVE  /\ \A k \in {"jobs", "deployments"} :
                      DateOf(r, named[k][r]) <= DateOf(r, named[k][r])'
               /\ named["containerfiles"][r] <= named'["containerfiles"][r]
    <3>1. PICK t \in ofLastDate(q) :
              /\ t \in dated(q)
              /\ \A k \in Kinds : named'[k][r] = IF k = "jobs" /\ r = q THEN t ELSE named[k][r]
      BY <1>1, <2>5, ByHandIsOfLastDate
    <3>2. tags' = tags
      BY <2>5 DEF UpdateByHand
    <3>3. ASSUME NEW k \in {"jobs", "deployments"}
          PROVE  DateOf(r, named[k][r]) <= DateOf(r, named'[k][r])
      <4>1. k \in Kinds
        BY DEF Kinds
      <4>2. CASE k = "jobs" /\ r = q
        <5>1. named'[k][r] = t /\ t \in dated(r)
          BY <3>1, <4>1, <4>2
        <5>2. \A j \in dated(r) : DateOf(r, j) <= DateOf(r, t)
          BY <1>1, <3>1, <4>2, LastDateExists DEF BumperIInv
        <5>3. named[k][r] = 0 \/ named[k][r] \in dated(r)
          BY <1>1, <4>1, <4>2 DEF BumperIInv, Named
        <5>4. CASE named[k][r] = 0
          <6>1. DateOf(r, named[k][r]) = 0 /\ DateOf(r, t) \in Nat
            BY <2>2, <5>1, <5>4 DEF DateOf
          <6> QED  BY <5>1, <6>1
        <5> QED  BY <5>1, <5>2, <5>3, <5>4
      <4>3. CASE ~(k = "jobs" /\ r = q)
        BY <2>1, <2>2, <3>1, <4>1, <4>3
      <4> QED  BY <4>2, <4>3
    <3>4. named'["containerfiles"][r] = named["containerfiles"][r]
      BY <3>1 DEF Kinds
    <3>5. named["containerfiles"][r] \in Nat
      BY <2>1, <2>2 DEF Kinds
    <3> QED  BY <3>2, <3>3, <3>4, <3>5 DEF DateOf
  <2>6. ASSUME NEW q \in RepoNames, NEW pushed \in Tags, PushImage(q, pushed)
        PROVE  /\ \A k \in {"jobs", "deployments"} :
                      DateOf(r, named[k][r]) <= DateOf(r, named[k][r])'
               /\ named["containerfiles"][r] <= named'["containerfiles"][r]
    <3>1. tags' = [tags EXCEPT ![q] = Append(@, pushed)] /\ named' = named
      BY <2>6 DEF PushImage
    <3>2. \A i \in 0..Len(tags[r]) : DateOf(r, i)' = DateOf(r, i)
      BY <1>1, <3>1, PushKeeps
    <3>3. ASSUME NEW k \in {"jobs", "deployments"}
          PROVE  DateOf(r, named[k][r]) <= DateOf(r, named[k][r])'
      <4>1. PICK i \in 0..Len(tags[r]) : i = named[k][r]
        BY <2>1 DEF Kinds
      <4>2. DateOf(r, i) <= DateOf(r, i)'
        BY <2>2, <3>2
      <4> QED  BY <3>1, <4>1, <4>2 DEF DateOf
    <3>4. named["containerfiles"][r] \in Nat
      BY <2>1, <2>2 DEF Kinds
    <3> QED  BY <3>1, <3>3, <3>4
  <2> QED
    BY <1>1, <2>3, <2>4, <2>5, <2>6
    DEF BumperNext, StartBump, ResolveTag, FinishBump, BumpFails, CloseConflicting, Tags
<1>2. ASSUME BumperIInv, [BumperNext]_bumperVars
      PROVE  [NothingGoesBack]_bumperVars
  BY <1>1, <1>2
<1> QED  BY <1>2, BumperInvariant, PTL DEF BumperSpec

-----------------------------------------------------------------------------
(***************************************************************************)
(* The retester.  A run goes through what a query found, though meanwhile  *)
(* what it found moves in the order.                                       *)
(***************************************************************************)

CommentKinds == {"other", "retest", "deterministic", "lane"}

RetesterIInv ==
    /\ order \in Seq(PullRequests) /\ Len(order) = Cardinality(PullRequests)
    /\ \A p \in PullRequests : \E i \in DOMAIN order : order[i] = p
    /\ old \in 0..Len(order)
    /\ held \subseteq PullRequests
    /\ comments \in [PullRequests -> CommentKinds]
    /\ query \in 0..Len(Queries)
    /\ DOMAIN todo \subseteq Nat /\ todo \in [DOMAIN todo -> PullRequests]
    /\ modified \in Nat /\ (Ceiling > 0 => modified <= Ceiling)
    /\ updates \in 0..MaxUpdates /\ retestFailures \in 0..MaxRetestFailures

\* An update keeps every pull request in the order.
LEMMA TouchKeepsOrder ==
    ASSUME RetesterAssumption, RetesterIInv, NEW p \in PullRequests, Touch(p)
    PROVE  /\ order' \in Seq(PullRequests) /\ Len(order') = Cardinality(PullRequests)
           /\ \A q \in PullRequests : \E i \in DOMAIN order' : order'[i] = q
           /\ old' \in 0..Len(order')
<1>1. order \in Seq(PullRequests) /\ Len(order) \in Nat /\ DOMAIN order = 1..Len(order)
  BY DEF RetesterIInv
<1>2. placeOf(p) \in DOMAIN order
  BY DEF placeOf, RetesterIInv
<1>3. PICK i \in 1..Len(order) : i = placeOf(p)
  BY <1>1, <1>2
<1> DEFINE s == RemoveAt(order, i)
<1>4. /\ s \in Seq(PullRequests) /\ Len(s) = Len(order) - 1
      /\ \A k \in 1..i - 1 : s[k] = order[k]
      /\ \A k \in i..Len(order) - 1 : s[k] = order[k + 1]
  <2>1. SubSeq(order, 1, i - 1) \in Seq(PullRequests) /\ Len(SubSeq(order, 1, i - 1)) = i - 1
    BY <1>1, <1>3
  <2>2. /\ SubSeq(order, i + 1, Len(order)) \in Seq(PullRequests)
        /\ Len(SubSeq(order, i + 1, Len(order))) = Len(order) - i
    BY <1>1, <1>3
  <2>3. PICK a \in Seq(PullRequests), b \in Seq(PullRequests) :
            /\ a = SubSeq(order, 1, i - 1) /\ b = SubSeq(order, i + 1, Len(order))
            /\ Len(a) = i - 1 /\ Len(b) = Len(order) - i
            /\ \A k \in 1..i - 1 : a[k] = order[k]
            /\ \A k \in 1..Len(order) - i : b[k] = order[i + k]
    <3> DEFINE a == SubSeq(order, 1, i - 1)
               b == SubSeq(order, i + 1, Len(order))
    <3>1. \A k \in 1..i - 1 : a[k] = order[k]
      BY <1>1, <1>3
    <3>2. ASSUME NEW k \in 1..Len(order) - i
          PROVE  b[k] = order[i + k]
      <4>1. b = [n \in 1..Len(order) - i |-> order[i + n]]
        <5>1. Len(order) - (i + 1) + 1 = Len(order) - i /\ \A n \in Nat : n + (i + 1) - 1 = i + n
          BY <1>1, <1>3
        <5>2. b = [n \in 1..Len(order) - (i + 1) + 1 |-> order[n + (i + 1) - 1]]
          BY <1>1, <1>3
        <5> QED  BY <5>1, <5>2
      <4> QED  BY <4>1
    <3> QED  BY <2>1, <2>2, <3>1, <3>2
  <2>4. s = a \o b
    BY <2>3 DEF RemoveAt
  <2> HIDE DEF s
  <2>5. s \in Seq(PullRequests) /\ Len(s) = Len(a) + Len(b)
    BY <2>4
  <2>6. Len(s) = Len(order) - 1
    BY <1>1, <1>3, <2>3, <2>5
  <2>7. \A k \in 1..Len(s) : s[k] = IF k <= Len(a) THEN a[k] ELSE b[k - Len(a)]
    BY <2>4
  <2>8. ASSUME NEW k \in 1..i - 1
        PROVE  s[k] = order[k]
    <3>1. k \in 1..Len(s) /\ k <= Len(a)
      BY <1>1, <1>3, <2>3, <2>6
    <3> QED  BY <2>3, <2>7, <3>1
  <2>9. ASSUME NEW k \in i..Len(order) - 1
        PROVE  s[k] = order[k + 1]
    <3>1. k - (i - 1) \in 1..Len(order) - i /\ i + (k - (i - 1)) = k + 1
      BY <1>1, <1>3
    <3>2. k \in 1..Len(s) /\ ~(k <= Len(a)) /\ k - Len(a) = k - (i - 1)
      BY <1>1, <1>3, <2>3, <2>6
    <3>3. s[k] = b[k - (i - 1)]
      BY <2>7, <3>2
    <3> QED  BY <2>3, <3>1, <3>3
  <2> QED  BY <2>5, <2>6, <2>8, <2>9
<1>5. order' = Append(s, p)
  BY <1>3 DEF Touch
<1> HIDE DEF s
<1>6. order' \in Seq(PullRequests) /\ Len(order') = Len(order)
  <2>1. s \in Seq(PullRequests) /\ Len(s) = Len(order) - 1
    BY <1>4
  <2>2. Append(s, p) \in Seq(PullRequests) /\ Len(Append(s, p)) = Len(s) + 1
    BY <2>1
  <2>3. Len(s) + 1 = Len(order)
    BY <1>1, <2>1
  <2> QED  BY <1>5, <2>2, <2>3
<1>7. ASSUME NEW q \in PullRequests
      PROVE  \E k \in DOMAIN order' : order'[k] = q
  <2>1. PICK k \in 1..Len(order) : order[k] = q
    BY <1>1 DEF RetesterIInv
  <2>2. order'[Len(order)] = p
    BY <1>1, <1>4, <1>5
  <2>3. \A l \in 1..Len(order) - 1 : order'[l] = s[l]
    BY <1>1, <1>4, <1>5
  <2>4. DOMAIN order' = 1..Len(order)
    BY <1>1, <1>6
  <2>5. CASE q = p
    BY <1>3, <2>2, <2>4, <2>5
  <2>6. CASE q # p
    <3>1. k # i
      BY <1>2, <1>3, <2>1, <2>6 DEF placeOf, RetesterIInv
    <3>2. CASE k < i
      BY <1>3, <1>4, <2>1, <2>3, <2>4, <3>2
    <3>3. CASE k > i
      <4>1. k - 1 \in i..Len(order) - 1 /\ (k - 1) + 1 = k
        BY <1>3, <3>3
      <4>2. order'[k - 1] = q
        BY <1>3, <1>4, <2>1, <2>3, <4>1
      <4> QED  BY <1>3, <2>4, <4>1, <4>2
    <3> QED  BY <3>1, <3>2, <3>3
  <2> QED  BY <2>5, <2>6
<1>8. old' \in 0..Len(order)
  BY <1>1, <1>3 DEF Touch, isOld, RetesterIInv
<1> QED  BY <1>6, <1>7, <1>8 DEF RetesterIInv

LEMMA FindIssuesIInv ==
    ASSUME RetesterAssumption, RetesterIInv, NEW q \in 1..Len(Queries), FindIssues(q)
    PROVE  RetesterIInv'
<1>1. DOMAIN found(q) \subseteq Nat /\ found(q) \in [DOMAIN found(q) -> PullRequests]
  <2>1. \A k \in 1..old : order[k] \in PullRequests
    BY DEF RetesterIInv
  <2>2. \A k \in 1..old : k \in Nat
    OBVIOUS
  <2> QED  BY <2>1, <2>2 DEF found
<1>2. todo' = found(q) /\ query' = q /\ modified' = 0
  BY DEF FindIssues
<1>3. UNCHANGED <<order, old, held, comments, updates, retestFailures>>
  BY DEF FindIssues
<1> QED  BY <1>1, <1>2, <1>3 DEF RetesterIInv, RetesterAssumption

LEMMA EndRunIInv ==
    ASSUME RetesterAssumption, RetesterIInv, query' = 0, todo' = <<>>, modified' = 0,
           retestFailures' \in 0..MaxRetestFailures, UNCHANGED <<order, old, held, comments, updates>>
    PROVE  RetesterIInv'
<1>1. DOMAIN todo' = {} /\ todo' \in [DOMAIN todo' -> PullRequests]
  OBVIOUS
<1>2. 0 \in 0..Len(Queries)
  BY DEF RetesterAssumption
<1> QED  BY <1>1, <1>2 DEF RetesterIInv, RetesterAssumption

LEMMA ProcessIInv == ASSUME RetesterAssumption, RetesterIInv, Process PROVE RetesterIInv'
<1>1. query # 0 /\ DOMAIN todo # {} /\ ~(Ceiling > 0 /\ modified = Ceiling)
  <2>1. query # 0 /\ todo # <<>> /\ ~(Ceiling > 0 /\ modified = Ceiling)
    BY DEF Process, Done
  <2>2. todo \in [DOMAIN todo -> PullRequests]
    BY DEF RetesterIInv
  <2>3. DOMAIN todo = {} => todo = <<>>
    BY <2>2
  <2> QED  BY <2>1, <2>3
<1> DEFINE p == todo[next]
           verdict == notFitForRetest(statuses[p])
<1>2. next \in DOMAIN todo
  <2>1. DOMAIN todo \subseteq Nat
    BY DEF RetesterIInv
  <2>2. PICK k \in DOMAIN todo : \A l \in DOMAIN todo : <<l, k>> \notin OpToRel(<, Nat)
    BY <1>1, <2>1, WFMin, NatLessThanWellFounded
  <2>3. \A l \in DOMAIN todo : <<l, k>> \in OpToRel(<, Nat) <=> l < k
    BY <2>1 DEF OpToRel
  <2>4. ASSUME NEW l \in DOMAIN todo
        PROVE  k <= l
    <3>1. ~(l < k) /\ l \in Nat /\ k \in Nat
      BY <2>1, <2>2, <2>3
    <3> QED  BY <3>1
  <2> QED  BY <2>4 DEF next
<1>3. p \in PullRequests /\ verdict \in CommentKinds
  BY <1>2 DEF RetesterIInv, notFitForRetest, CommentKinds
<1>4. DOMAIN rest \subseteq Nat /\ rest \in [DOMAIN rest -> PullRequests]
  BY DEF rest, RetesterIInv
<1>5. modified + 1 \in Nat /\ (Ceiling > 0 => modified + 1 <= Ceiling)
  BY <1>1 DEF RetesterIInv, RetesterAssumption
<1>6. retestFailures < MaxRetestFailures => retestFailures + 1 \in 0..MaxRetestFailures
  BY DEF RetesterIInv, RetesterAssumption
<1>7. \/ Skip(0, 0) \/ Comment(p, verdict)
      \/ retestFailures < MaxRetestFailures /\ Skip(1, 1)
      \/ /\ retestFailures < MaxRetestFailures /\ Touch(p) /\ retestFailures' = retestFailures + 1
         /\ todo' = rest /\ modified' = modified + 1
         /\ UNCHANGED <<held, comments, query, updates>>
  BY DEF Process, SkipDuplicate
<1> HIDE DEF p, verdict
<1>8. ASSUME todo' = rest, modified' = modified, retestFailures' \in 0..MaxRetestFailures,
             UNCHANGED <<order, old, held, comments, query, updates>>
      PROVE  RetesterIInv'
  BY <1>4, <1>8 DEF RetesterIInv
<1>9. ASSUME Touch(p), todo' = rest, modified' = modified + 1, retestFailures' \in 0..MaxRetestFailures,
             comments' \in [PullRequests -> CommentKinds], UNCHANGED <<held, query, updates>>
      PROVE  RetesterIInv'
  <2>1. /\ order' \in Seq(PullRequests) /\ Len(order') = Cardinality(PullRequests)
        /\ \A q \in PullRequests : \E i \in DOMAIN order' : order'[i] = q
        /\ old' \in 0..Len(order')
    BY <1>3, <1>9, TouchKeepsOrder
  <2> QED  BY <1>4, <1>5, <1>9, <2>1 DEF RetesterIInv
<1>10. CASE Skip(0, 0) \/ (retestFailures < MaxRetestFailures /\ Skip(1, 1))
  <2>1. retestFailures' \in 0..MaxRetestFailures
    BY <1>6, <1>10 DEF Skip, RetesterIInv
  <2> QED  BY <1>8, <1>10, <2>1 DEF Skip
<1>11. CASE Comment(p, verdict)
  <2>1. comments' \in [PullRequests -> CommentKinds]
    BY <1>3, <1>11 DEF Comment, RetesterIInv
  <2>2. retestFailures' \in 0..MaxRetestFailures
    BY <1>11 DEF Comment, RetesterIInv
  <2> QED  BY <1>9, <1>11, <2>1, <2>2 DEF Comment
<1>12. CASE /\ retestFailures < MaxRetestFailures /\ Touch(p) /\ retestFailures' = retestFailures + 1
            /\ todo' = rest /\ modified' = modified + 1
            /\ UNCHANGED <<held, comments, query, updates>>
  <2>1. comments' \in [PullRequests -> CommentKinds]
    BY <1>12 DEF RetesterIInv
  <2> QED  BY <1>6, <1>9, <1>12, <2>1
<1> QED  BY <1>7, <1>10, <1>11, <1>12

LEMMA OthersIInv ==
    ASSUME RetesterAssumption, RetesterIInv,
           Age \/ \E p \in PullRequests : Update(p) \/ Hold(p) \/ TestsEnd(p)
    PROVE  RetesterIInv'
<1>1. query' = query /\ todo' = todo /\ modified' = modified /\ retestFailures' = retestFailures
  BY DEF Age, Update, Hold, TestsEnd, run
<1>2. CASE Age
  <2>1. old' = old + 1 /\ old < Len(order) /\ UNCHANGED <<order, held, comments, updates>>
    BY <1>2 DEF Age
  <2>2. old' \in 0..Len(order)
    BY <2>1 DEF RetesterIInv
  <2> QED  BY <1>1, <2>1, <2>2 DEF RetesterIInv
<1>3. ASSUME NEW p \in PullRequests, Update(p) \/ Hold(p) \/ TestsEnd(p)
      PROVE  RetesterIInv'
  <2>1. updates' \in 0..MaxUpdates /\ held' \subseteq PullRequests
    BY <1>3 DEF Update, Hold, TestsEnd, MoreUpdates, RetesterIInv, RetesterAssumption
  <2>2. CASE UNCHANGED <<order, old, comments>>
    BY <1>1, <2>1, <2>2 DEF RetesterIInv
  <2>3. CASE Touch(p) /\ comments' = [comments EXCEPT ![p] = "other"]
    <3>1. /\ order' \in Seq(PullRequests) /\ Len(order') = Cardinality(PullRequests)
          /\ \A q \in PullRequests : \E i \in DOMAIN order' : order'[i] = q
          /\ old' \in 0..Len(order')
      BY <2>3, TouchKeepsOrder
    <3>2. comments' \in [PullRequests -> CommentKinds]
      BY <2>3 DEF RetesterIInv, CommentKinds
    <3> QED  BY <1>1, <2>1, <3>1, <3>2 DEF RetesterIInv
  <2> QED  BY <1>3, <2>2, <2>3 DEF Update, Hold, TestsEnd
<1> QED  BY <1>2, <1>3

\* A run comments on no more pull requests of a query than its ceiling, and only on ones there
\* are, though updates and its own comments change the order it found them in.
THEOREM RetesterTypes ==
    ASSUME RetesterAssumption
    PROVE  RetesterSpec => []RetesterTypeOK
<1>1. RetesterInit => RetesterIInv
  <2> SUFFICES ASSUME RetesterInit
               PROVE  RetesterIInv
    OBVIOUS
  <2>1. Cardinality(PullRequests) \in Nat
    BY FS_CardinalityType DEF RetesterAssumption
  <2>2. order \in [1..Cardinality(PullRequests) -> PullRequests] /\ {order[i] : i \in DOMAIN order} = PullRequests
    BY DEF RetesterInit
  <2>3. order \in Seq(PullRequests) /\ Len(order) = Cardinality(PullRequests)
    BY <2>1, <2>2
  <2>4. \A p \in PullRequests : \E i \in DOMAIN order : order[i] = p
    BY <2>2
  <2>5. DOMAIN todo = {} /\ todo \in [DOMAIN todo -> PullRequests] /\ 0 \in 0..Len(Queries) /\ 0 \in 0..Len(order)
    BY <2>1, <2>3 DEF RetesterInit, RetesterAssumption
  <2>6. comments \in [PullRequests -> CommentKinds]
    BY DEF RetesterInit, CommentKinds
  <2> QED  BY <2>3, <2>4, <2>5, <2>6 DEF RetesterInit, RetesterIInv, RetesterAssumption
<1>2. RetesterIInv /\ [RetesterNext]_retesterVars => RetesterIInv'
  <2> SUFFICES ASSUME RetesterIInv, [RetesterNext]_retesterVars
               PROVE  RetesterIInv'
    OBVIOUS
  <2>1. CASE StartRun
    <3>1. 1 \in 1..Len(Queries)
      BY DEF RetesterAssumption
    <3> QED  BY <2>1, <3>1, FindIssuesIInv DEF StartRun
  <2>2. CASE EndQuery
    <3>1. CASE query < Len(Queries) /\ FindIssues(query + 1)
      <4>1. query + 1 \in 1..Len(Queries)
        BY <3>1 DEF RetesterIInv, RetesterAssumption
      <4> QED  BY <3>1, <4>1, FindIssuesIInv
    <3>2. CASE EndRun
      <4>1. retestFailures' \in 0..MaxRetestFailures
        BY <3>2 DEF EndRun, RetesterIInv
      <4> QED  BY <3>2, <4>1, EndRunIInv DEF EndRun
    <3> QED  BY <2>2, <3>1, <3>2 DEF EndQuery
  <2>3. CASE RunFails
    <3>1. retestFailures' \in 0..MaxRetestFailures
      BY <2>3 DEF RunFails, RetesterIInv, RetesterAssumption
    <3> QED  BY <2>3, <3>1, EndRunIInv DEF RunFails
  <2>4. CASE Process
    BY <2>4, ProcessIInv
  <2>5. CASE Age \/ \E p \in PullRequests : Update(p) \/ Hold(p) \/ TestsEnd(p)
    BY <2>5, OthersIInv
  <2>6. CASE UNCHANGED retesterVars
    BY <2>6 DEF retesterVars, RetesterIInv
  <2> QED  BY <2>1, <2>2, <2>3, <2>4, <2>5, <2>6 DEF RetesterNext
<1>3. RetesterIInv => RetesterTypeOK
  <2> SUFFICES ASSUME RetesterIInv
               PROVE  RetesterTypeOK
    OBVIOUS
  <2>1. order \in Seq(PullRequests) /\ Len(order) = Cardinality(PullRequests) /\ Len(order) \in Nat
    BY DEF RetesterIInv
  <2>2. order \in [1..Cardinality(PullRequests) -> PullRequests]
    BY <2>1
  <2>3. {order[i] : i \in DOMAIN order} = PullRequests
    BY <2>2 DEF RetesterIInv
  <2> QED  BY <2>2, <2>3 DEF RetesterIInv, RetesterTypeOK, CommentKinds
<1> QED  BY <1>1, <1>2, <1>3, PTL DEF RetesterSpec
=============================================================================
