-------------------------------- MODULE Phased --------------------------------
(***************************************************************************)
(* external-plugins/phased: the plugin that asks for the expensive         *)
(* presubmits of a pull request, by a comment of /test commands, once the  *)
(* pull request is ready to be merged.  Every pull_request webhook is      *)
(* handled in a goroutine that reads the labels, then the pull request,    *)
(* then the job configuration, while people go on.                         *)
(***************************************************************************)
EXTENDS Integers, Sequences, FiniteSets, SequencesExt

CONSTANTS
    Jobs,           \* the presubmits of the repository
    ToStates,       \* states people bring the pull request to
    MaxHandlers,    \* bound on the webhooks handled at a time
    MaxChanges,     \* bound on label changes, pushes and changes of state
    MaxFailures     \* bound on failing reads of GitHub or of the configuration

Labels == {"lgtm", "approved", "skip-review"}
States == {"open", "draft", "closed"}

PhasedAssumption ==
    /\ {MaxHandlers, MaxChanges} \subseteq Nat \ {0}
    /\ MaxFailures \in Nat
    /\ ToStates \subseteq States
    /\ Jobs \subseteq [optional : BOOLEAN, alwaysRun : BOOLEAN, pathBased : BOOLEAN]

VARIABLES
    target,     \* the branch: main (or master) of kubevirt/kubevirt, or another
    state,      \* the pull request: open, draft or closed (merged or not)
    mergeable,  \* FALSE if GitHub found a conflict
    labels,
    handlers,   \* webhooks being handled
    request,    \* history: the tests are due since lgtm and approved came together
                \* on a candidate for merging, or were asked for since they came
    changes, failures

vars == <<target, state, mergeable, labels, handlers, request, changes, failures>>

Handlers == [action : {"labeled", "synchronize"}, label : Labels \cup {""},
             pc : {"labels", "pullRequest", "presubmits", "comment"}]

TypeOK ==
    /\ target \in {"main", "other"}
    /\ state \in States
    /\ mergeable \in BOOLEAN
    /\ labels \subseteq Labels
    /\ handlers \in Seq(Handlers) /\ Len(handlers) <= MaxHandlers
    /\ \A h \in ToSet(handlers) : h.pc \in {"presubmits", "comment"} => target = "main"
    /\ request \in {"none", "due", "made"}
    /\ changes \in 0..MaxChanges /\ failures \in 0..MaxFailures

Init ==
    /\ target \in {"main", "other"}
    /\ state \in {"open", "draft"}
    /\ mergeable = TRUE
    /\ labels = {}
    /\ handlers = <<>>
    /\ request = "none"
    /\ changes = 0 /\ failures = 0

-----------------------------------------------------------------------------
Reviewed(set) == {"lgtm", "approved"} \subseteq set

\* --- faulty variant of shouldRunPhase2
shouldRunPhase2OnLgtmOnly(action, label) ==
    IF action = "synchronize" THEN "skip-review" \in labels
    ELSE (label = "lgtm" /\ "approved" \in labels) \/ label = "skip-review"
\* ---

\* The labels are those of the moment, the label of the event may be gone.
shouldRunPhase2(action, label) ==
    IF action = "synchronize" THEN "skip-review" \in labels
    ELSE \/ label = "lgtm" /\ "approved" \in labels
         \/ label = "approved" /\ "lgtm" \in labels
         \/ label = "skip-review"

\* The required presubmits that run on demand only.
manualRequired == {j \in Jobs : ~j.optional /\ ~j.alwaysRun /\ ~j.pathBased}

\* listRequiredManual lists them, unless the pull request as read is no
\* candidate for merging.
isCandidate == state = "open" /\ mergeable

ReadyAs(st, merges, set) == target = "main" /\ st = "open" /\ merges /\ Reviewed(set)
Ready == ReadyAs(state, mergeable, labels)

-----------------------------------------------------------------------------
Webhook(action, label) ==
    /\ Len(handlers) < MaxHandlers
    /\ handlers' = Append(handlers, [action |-> action, label |-> label, pc |-> "labels"])

Change == changes < MaxChanges /\ changes' = changes + 1

\* Only a pull request that stays ready waits for its tests.
DueWhile(ready) == request' = IF request = "due" /\ ~ready THEN "none" ELSE request

AddLabel(l) ==
    /\ Change
    /\ l \notin labels
    /\ labels' = labels \cup {l}
    /\ request' = IF Reviewed(labels) \/ ~Reviewed(labels') THEN request
                  ELSE IF ReadyAs(state, mergeable, labels') THEN "due" ELSE "none"
    /\ Webhook("labeled", l)
    /\ UNCHANGED <<target, state, mergeable, failures>>

\* By hand, or by Prow, which takes lgtm off after a push.
RemoveLabel(l) ==
    /\ Change
    /\ l \in labels
    /\ labels' = labels \ {l}
    /\ request' = IF Reviewed(labels') THEN request ELSE "none"
    /\ UNCHANGED <<target, state, mergeable, handlers, failures>>

\* A push makes or resolves a conflict.
Push ==
    /\ Change
    /\ state # "closed"
    /\ mergeable' \in BOOLEAN
    /\ Webhook("synchronize", "")
    /\ DueWhile(ReadyAs(state, mergeable', labels))
    /\ UNCHANGED <<target, state, labels, failures>>

\* Drafting, making ready, closing and reopening: webhooks that
\* shouldActOnPREvent drops.
ChangeState(new) ==
    /\ Change
    /\ new # state
    /\ state' = new
    /\ DueWhile(ReadyAs(new, mergeable, labels))
    /\ UNCHANGED <<target, mergeable, labels, handlers, failures>>

-----------------------------------------------------------------------------
At(i, pc) == i \in DOMAIN handlers /\ handlers[i].pc = pc
Done(i) == handlers' = RemoveAt(handlers, i)
GoOn(i, pc) == handlers' = [handlers EXCEPT ![i].pc = pc]

ReadLabels(i) ==
    /\ At(i, "labels")
    /\ IF shouldRunPhase2(handlers[i].action, handlers[i].label)
         THEN GoOn(i, "pullRequest") ELSE Done(i)
    /\ UNCHANGED <<target, state, mergeable, labels, request, changes, failures>>

\* GetPullRequest; what it says decides in loadPresubmits and listRequiredManual.
ReadPullRequest(i) ==
    /\ At(i, "pullRequest")
    /\ IF target = "main" /\ isCandidate THEN GoOn(i, "presubmits") ELSE Done(i)
    /\ UNCHANGED <<target, state, mergeable, labels, request, changes, failures>>

\* loadProwConfig fetches the configuration; testRequested is silent for no jobs.
LoadPresubmits(i) ==
    /\ At(i, "presubmits")
    /\ IF manualRequired # {} THEN GoOn(i, "comment") ELSE Done(i)
    /\ UNCHANGED <<target, state, mergeable, labels, request, changes, failures>>

\* CreateComment.
RequestTests(i) ==
    /\ At(i, "comment")
    /\ request' = IF Reviewed(labels) THEN "made" ELSE "none"
    /\ Done(i)
    /\ UNCHANGED <<target, state, mergeable, labels, changes, failures>>

\* A call fails; the event is logged and forgotten.
Fail(i) ==
    /\ i \in DOMAIN handlers
    /\ failures < MaxFailures
    /\ failures' = failures + 1
    /\ Done(i)
    /\ UNCHANGED <<target, state, mergeable, labels, request, changes>>

Step(i) == ReadLabels(i) \/ ReadPullRequest(i) \/ LoadPresubmits(i) \/ RequestTests(i)

Next ==
    \/ \E l \in Labels : AddLabel(l) \/ RemoveLabel(l)
    \/ Push
    \/ \E new \in ToStates : ChangeState(new)
    \/ \E i \in 1..MaxHandlers : Step(i) \/ Fail(i)

\* Goroutines run on.
Fairness == \A i \in 1..MaxHandlers : WF_vars(Step(i))

Spec == Init /\ [][Next]_vars /\ Fairness

-----------------------------------------------------------------------------
\* However the two label webhooks overtake each other and the labels they are
\* about, a pull request that keeps lgtm and approved is asked for its tests at
\* least once after the later of the two came, if it stays a candidate for merging
\* and no call fails.
ReviewedIsTested ==
    manualRequired # {} => (request = "due" ~> (request # "due" \/ failures > 0))
=============================================================================
