------------------------------ MODULE JobPlugins ------------------------------
(***************************************************************************)
(* The plugins of external-plugins/ that answer webhooks of a pull request *)
(* with Prow jobs: rehearse (the jobs the pull request changes, on demand  *)
(* or always), test-subset (a part of one job, on demand) and coverage     *)
(* (always, if Go files change).  Each webhook is handled in a goroutine   *)
(* that asks GitHub for what the webhook does not say, so that it acts on  *)
(* a mixture of the pull request as it was and as it is.                   *)
(***************************************************************************)
EXTENDS Integers, Sequences, FiniteSets

CONSTANTS
    Presubmits,     \* the jobs configured on main or by the pull request
    ConfigFiles,    \* files below jobsConfigBase
    GoFiles,        \* other files with the suffix .go
    Contents,       \* what a head of the pull request may change
    Comments,       \* what people write
    Users, Members, TopLevel,
    LeafApprovers,  \* the approvers of each file
    Settings,       \* how a plugin is deployed, see SettingsAssumption
    MaxEvents,      \* bound on the webhooks
    MaxLabelChanges,
    MaxFailures     \* bound on failing calls

Plugins == {"rehearse", "test-subset", "coverage"}
Fields == {"threshold", "timeoutMinutes"}
HEAD == "HEAD"      \* the branch of jobs that name none

ASSUME PeopleAssumption == Members \cup TopLevel \subseteq Users
ASSUME FilesAssumption ==
    /\ ConfigFiles \cap GoFiles = {}
    /\ LeafApprovers \in [ConfigFiles \cup GoFiles -> SUBSET Users]
    /\ \A p \in Presubmits : p.file \in ConfigFiles

\* A job is on main or not.  A head changes files, and the jobs in them: "base" is
\* a job as it is on main.
ASSUME ContentsAssumption ==
    /\ \A p \in Presubmits : p.onBase \in {"absent", "base"}
    /\ \A c \in Contents :
        /\ c.files \subseteq ConfigFiles \cup GoFiles
        /\ c.version \in [Presubmits -> {"absent", "base", "changed"}]
        /\ \A p \in Presubmits :
              /\ c.version[p] = "changed" => p.file \in c.files
              /\ c.version[p] = "base" => p.onBase = "base"

ASSUME SettingsAssumption ==
    \A s \in Settings :
        /\ s.plugin \in Plugins /\ s.author \in Users
        /\ {s.alwaysRun, s.onMain, s.dryRun} \subseteq BOOLEAN
        /\ {s.defaults, s.repo} \subseteq [Fields -> Int]
ASSUME BoundsAssumption == MaxEvents \in Nat \ {0} /\ {MaxLabelChanges, MaxFailures} \subseteq Nat

VARIABLES
    setting,
    heads,      \* the contents of the pull request, one per push
    state,      \* "open", "closed" or "merged"
    mergeable,
    consent,    \* the label ok-to-rehearse
    handlers,   \* every webhook so far and how far its goroutine is
    prowjobs,   \* the Prow jobs created
    failures,
    labelChanges,
    labelledAt, \* history: the webhooks that had been when consent was last given
    closedAt    \* history: the webhook of the last closing

vars == <<setting, heads, state, mergeable, consent, handlers, prowjobs, failures,
          labelChanges, labelledAt, closedAt>>
history == <<labelChanges, labelledAt, closedAt>>
pullRequest == <<setting, heads, state, mergeable, consent>>

last == Len(heads)
Done == "done"

TypeOK ==
    /\ setting \in Settings
    /\ heads \in Seq(Contents) /\ Len(heads) \in 1..MaxEvents
    /\ state \in {"open", "closed", "merged"}
    /\ {mergeable, consent} \subseteq BOOLEAN
    /\ Len(handlers) \in 0..MaxEvents
    /\ \A h \in DOMAIN handlers :
          /\ handlers[h].pc \in {"pull", "authorise", "remove", "load", Done}
          /\ handlers[h].head \in 1..last /\ handlers[h].read \in 0..last
          /\ handlers[h].read # 0 => handlers[h].read >= handlers[h].head
    /\ \A j \in prowjobs :
          /\ j.event \in DOMAIN handlers /\ j.head \in 1..last
          /\ j.threshold \in IF setting.plugin = "coverage" THEN 1..100 ELSE {0}
    /\ failures \in 0..MaxFailures /\ labelChanges \in 0..MaxLabelChanges
    /\ {labelledAt, closedAt} \subseteq 0..MaxEvents

-----------------------------------------------------------------------------
\* Configuration of coverage.

\* LoadConfig: what is not set, that is zero, of the defaults is set here; the
\* plugin does not start with thresholds that are no percentage.
Defaulted(defaults) ==
    [f \in Fields |-> IF defaults[f] # 0 THEN defaults[f]
                      ELSE [threshold |-> 70, timeoutMinutes |-> 120][f]]
validConfig(s) ==
    /\ {s.defaults["threshold"], s.repo["threshold"]} \subseteq 0..100
    /\ {s.defaults["timeoutMinutes"], s.repo["timeoutMinutes"]} \subseteq Nat

\* --- faulty variant of RepoConfig
RepoConfigOwn(s) == s.repo
\* ---

\* What a repository does not set it takes from the defaults.
RepoConfig(s) ==
    [f \in Fields |-> IF s.repo[f] # 0 THEN s.repo[f] ELSE Defaulted(s.defaults)[f]]

\* A setting the plugin starts with.
Starts(s) == s.plugin = "coverage" => validConfig(s)

\* A webhook; for a pull request event of the plugin's interest `action` says
\* which, for a comment `comment` what it asks for.
Webhook(action, user, comment, head) ==
    [action |-> action, user |-> user, comment |-> comment, head |-> head, read |-> 0,
     pc |-> "pull", consented |-> consent]
NoComment == [command |-> "none", names |-> {}, params |-> {}]

Init ==
    /\ setting \in {s \in Settings : Starts(s)}
    /\ heads \in {<<c>> : c \in Contents}
    /\ state = "open"
    /\ mergeable = TRUE
    /\ consent = FALSE
    /\ handlers = <<>>
    /\ prowjobs = {}
    /\ failures = 0 /\ labelChanges = 0
    /\ labelledAt = 0 /\ closedAt = 0

-----------------------------------------------------------------------------
\* Who may ask for what.

\* --- faulty variant of canUserRehearse
canUserRehearseSomeFile(user, files, labelled) ==
    \/ user \in TopLevel
    \/ /\ {setting.author, user} \subseteq Members
       /\ labelled \/ \E f \in files : user \in LeafApprovers[f]
\* ---

\* The owners are those of the target branch.
canUserRehearse(user, files, labelled) ==
    \/ user \in TopLevel
    \/ /\ {setting.author, user} \subseteq Members
       /\ labelled \/ \A f \in files : user \in LeafApprovers[f]

canUserTrigger(user) == user \in Members

isOpenUnmerged == state = "open" /\ mergeable

-----------------------------------------------------------------------------
\* Which jobs.

modifiedJobConfigs(content) == content.files \cap ConfigFiles

\* The jobs of files at a commit, as they are there; a file that is missing has none.
loadConfigsAtRef(files, version) ==
    [f \in files |-> {<<p, version[p]>> : p \in {q \in Presubmits : q.file = f /\ version[q] # "absent"}}]

\* Jobs of the changed files that are not the same on main, unless restricted.
generatePresubmits(content) ==
    LET files == modifiedJobConfigs(content)
        headConfigs == loadConfigsAtRef(files, content.version)
        baseConfigs == loadConfigsAtRef(files, [p \in Presubmits |-> p.onBase])
    IN  {p \in Presubmits : ~p.restricted /\ \E f \in files :
            <<p, content.version[p]>> \in headConfigs[f] \ baseConfigs[f]}

\* A job of another repository gets that repository as an extra reference, and works
\* in it unless it works in one already.
makeTargetRepoRefs(p) ==
    [extraRef |-> p.repo = "other", workDir |-> p.repo = "other" /\ ~p.hasWorkDir]

\* One job per branch the job is for; without any it is for the head branch of its
\* repository, or for the target branch if that cannot be asked.
targetsOf(p) ==
    {[name |-> p.name, branch |-> b, refs |-> makeTargetRepoRefs(p)] :
        b \in IF p.branches = {} THEN {HEAD} ELSE p.branches}

\* The lines of a comment name jobs; "all" is none, too.
extractJobNames(comment) == comment.names \ {"all"}

filterProwJobsByJobNames(jobs, names) ==
    IF names = {} THEN jobs ELSE {j \in jobs : j.name \in names}

rehearsals(content, comment) ==
    filterProwJobsByJobNames(UNION {targetsOf(p) : p \in generatePresubmits(content)},
                             extractJobNames(comment))

\* A job for the pull request itself.
own(name) == [name |-> name, branch |-> HEAD, refs |-> [extraRef |-> FALSE, workDir |-> FALSE]]

\* The configuration of main, and of it the jobs of the repository, for main or master only.
loadProwConfig == {p \in Presubmits : p.onBase = "base"}
loadPresubmits == IF setting.onMain THEN loadProwConfig ELSE {}

\* The part of a job a comment asks for, if it says which part.
subset(comment) ==
    {own(p.name) : p \in {q \in loadPresubmits : q.name \in comment.names /\ comment.params # {}}}

coverageAuto == own("coverage-auto")

-----------------------------------------------------------------------------
\* People and GitHub.

Deliver(webhook) == handlers' = Append(handlers, webhook)
Room == Len(handlers) < MaxEvents

\* --- faulty variant of shouldActOnPREvent
shouldActOnPREventOfHeads(action) ==
    /\ setting.plugin = "coverage" \/ (setting.plugin = "rehearse" /\ setting.alwaysRun)
    /\ action \in {"opened", "synchronize"}
\* ---

\* Only these actions interest the plugins, and rehearse only if it always runs.
shouldActOnPREvent(action) ==
    \/ setting.plugin = "rehearse" /\ setting.alwaysRun /\ action \in {"opened", "synchronize", "closed"}
    \/ setting.plugin = "coverage" /\ action \in {"opened", "synchronize"}

Open ==
    /\ handlers = <<>>
    /\ Deliver(IF shouldActOnPREvent("opened") THEN Webhook("opened", setting.author, NoComment, 1)
               ELSE [Webhook("opened", setting.author, NoComment, 1) EXCEPT !.pc = Done])
    /\ UNCHANGED <<pullRequest, prowjobs, failures, history>>

\* A push, by the author, that may make or resolve a conflict.
Push ==
    /\ handlers # <<>> /\ Room
    /\ state # "merged"
    /\ \E c \in Contents : heads' = Append(heads, c)
    /\ mergeable' \in IF setting.plugin = "test-subset" THEN BOOLEAN ELSE {TRUE}
    /\ Deliver(IF shouldActOnPREvent("synchronize")
                 THEN Webhook("synchronize", setting.author, NoComment, last + 1)
                 ELSE [Webhook("synchronize", setting.author, NoComment, last + 1) EXCEPT !.pc = Done])
    /\ UNCHANGED <<setting, state, consent, prowjobs, failures, history>>

\* Closing, merging and reopening; a reopening interests no plugin.
ChangeState(new) ==
    /\ handlers # <<>> /\ Room
    /\ <<state, new>> \in {<<"open", "closed">>, <<"open", "merged">>, <<"closed", "open">>}
    /\ new = "merged" => mergeable
    /\ state' = new
    /\ LET webhook == Webhook("closed", setting.author, NoComment, last)
       IN  Deliver(IF new # "open" /\ shouldActOnPREvent("closed") THEN webhook
                   ELSE [webhook EXCEPT !.pc = Done])
    /\ closedAt' = IF new = "open" THEN closedAt ELSE Len(handlers) + 1
    /\ UNCHANGED <<setting, heads, mergeable, consent, prowjobs, failures, labelChanges, labelledAt>>

\* Comments are acted on while the pull request is open.
Comment(user, comment) ==
    /\ setting.plugin \in {"rehearse", "test-subset"}
    /\ handlers # <<>> /\ Room
    /\ state = "open" /\ comment.command = setting.plugin
    /\ Deliver(Webhook("comment", user, comment, last))
    /\ UNCHANGED <<pullRequest, prowjobs, failures, history>>

\* Somebody who may gives or withdraws ok-to-rehearse.
Label ==
    /\ setting.plugin = "rehearse"
    /\ handlers # <<>>
    /\ labelChanges < MaxLabelChanges
    /\ labelChanges' = labelChanges + 1
    /\ consent' = ~consent
    /\ labelledAt' = IF consent THEN labelledAt ELSE Len(handlers)
    /\ handlers' = [h \in DOMAIN handlers |->
                       [handlers[h] EXCEPT !.consented = @ \/ (consent' /\ handlers[h].pc # Done)]]
    /\ UNCHANGED <<setting, heads, state, mergeable, prowjobs, failures, closedAt>>

-----------------------------------------------------------------------------
\* The goroutine of webhook h.

At(h, plugin, pc) ==
    setting.plugin = plugin /\ h \in DOMAIN handlers /\ handlers[h].pc = pc
GoTo(h, pc) == handlers' = [handlers EXCEPT ![h].pc = pc]
Read(h, pc) == handlers' = [handlers EXCEPT ![h].pc = pc, ![h].read = last]
Quietly == UNCHANGED <<pullRequest, prowjobs, failures, history>>

\* The jobs are created one after the other, in the order of a Go map.  One that
\* cannot be created is only reported and the others are, and a restart leaves
\* the rest out: whatever set is missing.
Create(h, head, targets, threshold) ==
    \E missing \in SUBSET targets :
        /\ missing # {} => failures < MaxFailures
        /\ failures' = IF missing = {} THEN failures ELSE failures + 1
        /\ prowjobs' = prowjobs \cup
              {[event |-> h, head |-> head, target |-> t, threshold |-> threshold] : t \in targets \ missing}
        /\ GoTo(h, Done)
        /\ UNCHANGED <<pullRequest, history>>

\* GetPullRequest, then the merge with the target branch and what it changes.
FetchForRehearsal(h) ==
    /\ At(h, "rehearse", "pull")
    /\ handlers[h].action # "closed"
    /\ Read(h, "authorise")
    /\ Quietly

\* The label and the changed files as read decide about the user.
Authorise(h) ==
    /\ At(h, "rehearse", "authorise")
    /\ LET event == handlers[h]
       IN  GoTo(h, IF canUserRehearse(event.user, heads[event.read].files, consent)
                   THEN "load" ELSE Done)
    /\ Quietly

\* A comment is about the pull request that was read, an update about its own.
subject(event) == IF event.action = "comment" THEN event.read ELSE event.head

\* The configuration is read from git at the subject and on main; a question mark
\* alone is answered with the list of jobs.
Rehearse(h) ==
    /\ At(h, "rehearse", "load")
    /\ LET event == handlers[h]
       IN  IF extractJobNames(event.comment) = {"?"} THEN GoTo(h, Done) /\ Quietly
           ELSE Create(h, subject(event), rehearsals(heads[subject(event)], event.comment), 0)

\* A closed pull request loses the consent to rehearse it.
ReadConsent(h) ==
    /\ At(h, "rehearse", "pull")
    /\ handlers[h].action = "closed"
    /\ GoTo(h, IF consent THEN "remove" ELSE Done)
    /\ Quietly

RemoveConsent(h) ==
    /\ At(h, "rehearse", "remove")
    /\ consent' = FALSE
    /\ GoTo(h, Done)
    /\ UNCHANGED <<setting, heads, state, mergeable, prowjobs, failures, history>>

FetchForSubset(h) ==
    /\ At(h, "test-subset", "pull")
    /\ IF isOpenUnmerged /\ canUserTrigger(handlers[h].user) THEN Read(h, "load") ELSE GoTo(h, Done)
    /\ Quietly

\* The configuration is fetched from main.
TestSubset(h) ==
    /\ At(h, "test-subset", "load")
    /\ Create(h, handlers[h].read, subset(handlers[h].comment), 0)

\* --- faulty variant of changedFiles
changedFilesOfFirst(event) == heads[1].files
\* ---

\* GetPullRequestChanges: those of the pull request as it is, while the job is
\* for the head of the webhook.
changedFiles(event) == heads[last].files

Cover(h) ==
    /\ At(h, "coverage", "pull")
    /\ LET event == handlers[h]
       IN  IF changedFiles(event) \cap GoFiles # {} /\ ~setting.dryRun
           THEN Create(h, event.head, {coverageAuto}, RepoConfig(setting)["threshold"])
           ELSE GoTo(h, Done) /\ Quietly

\* A call of GitHub or git fails, or the plugin is restarted: the event is lost.
Fail(h) ==
    /\ h \in DOMAIN handlers /\ handlers[h].pc # Done
    /\ failures < MaxFailures
    /\ failures' = failures + 1
    /\ GoTo(h, Done)
    /\ UNCHANGED <<pullRequest, prowjobs, history>>

Next ==
    \/ Open \/ Push \/ Label
    \/ \E new \in {"open", "closed", "merged"} : ChangeState(new)
    \/ \E user \in Users, comment \in Comments : Comment(user, comment)
    \/ \E h \in 1..MaxEvents :
          \/ FetchForRehearsal(h) \/ Authorise(h) \/ Rehearse(h)
          \/ ReadConsent(h) \/ RemoveConsent(h)
          \/ FetchForSubset(h) \/ TestSubset(h)
          \/ Cover(h)
          \/ Fail(h)

Spec == Init /\ [][Next]_vars

-----------------------------------------------------------------------------
AtRest == \A h \in DOMAIN handlers : handlers[h].pc = Done

\* Whoever asks for rehearsals by a comment may: of the head that is rehearsed
\* the user approves every file, or the pull request had the label at some time
\* since the comment, or the user is a top-level approver, whatever is pushed,
\* labelled and unlabelled while the comment is handled.
RehearsalsAreEntitled ==
    \A j \in prowjobs :
        LET event == handlers[j.event]
        IN  setting.plugin = "rehearse" /\ event.action = "comment" =>
              \/ event.user \in TopLevel
              \/ /\ {event.user, setting.author} \subseteq Members
                 /\ event.consented \/ heads[j.head].files \subseteq {f \in ConfigFiles \cup GoFiles : event.user \in LeafApprovers[f]}

\* When all is handled and nothing failed, the last head has what it asks for:
\* a coverage job if and only if the pull request changes Go files, and a rehearsal
\* of every job it adds or changes for every branch of the job if rehearsals
\* always run and its author approves all of it; no matter what earlier heads
\* changed and in which order the webhooks were handled.
LastHeadIsTested ==
    LET made == {j.target.name : j \in {k \in prowjobs : k.head = last /\ handlers[k.event].action # "comment"}}
        files == heads[last].files
    IN  AtRest /\ failures = 0 /\ handlers # <<>> =>
          /\ setting.plugin = "coverage" /\ ~setting.dryRun =>
                (made # {} <=> files \cap GoFiles # {})
          /\ setting.plugin = "rehearse" /\ setting.alwaysRun /\
             setting.author \in Members /\ (\A f \in files : setting.author \in LeafApprovers[f]) =>
                made = {p.name : p \in {q \in Presubmits : ~q.restricted /\ heads[last].version[q] = "changed"}}

\* When all is handled and nothing failed, a closed pull request has no consent
\* to rehearse it that is older than its closing.
ConsentEndsWithClose ==
    AtRest /\ failures = 0 /\ setting.plugin = "rehearse" /\ setting.alwaysRun /\ state # "open" =>
        (consent => labelledAt >= closedAt)
=============================================================================
