---------------------------- MODULE ReleaseBlocker ----------------------------
(***************************************************************************)
(* external-plugins/release-blocker: the plugin that owns the              *)
(* release-blocker/<branch> labels of an issue or pull request.  Commands  *)
(* in comments set and cancel them, label changes made by hand are undone. *)
(* Each webhook is handled in a goroutine of its own (handleEvent), so the *)
(* GitHub calls of different handlers interleave freely.  Issues and pull  *)
(* requests go through the same code; one item is modelled.                *)
(***************************************************************************)
EXTENDS Integers, Sequences, FiniteSets, Bags

CONSTANTS
    Branches,           \* branches named by labels and commands
    ExistingBranches,   \* those GitHub knows
    People,             \* people, not the bot
    Approvers,          \* members of the organization in the top-level OWNERS
    Bot,
    BlockerComments,    \* comments people write: sequences of Commands
    MaxActions          \* bound on what people do

Commands == [add : BOOLEAN, branch : Branches]

ReleaseBlockerAssumption ==
    /\ ExistingBranches \subseteq Branches
    /\ BlockerComments \subseteq Seq(Commands)
    /\ Approvers \subseteq People /\ Bot \notin People
    /\ MaxActions \in Nat

VARIABLES
    blockerLabels, \* branches with a release-blocker label on the item
    deliveries,    \* bag of the webhooks being delivered or handled
    actions,       \* number of comments and label changes made by people
    failed,        \* a GitHub call failed (history)
    initial,       \* the labels at the start (history)
    asked,         \* commands of approvers (history)
    wanted,        \* the labels these commands leave, in the order given (history)
    touched,       \* branches whose label was changed by hand (history)
    overlapped     \* branches acted on while a webhook about them was under way (history)

blockerHistory == <<initial, asked, wanted, touched, overlapped>>
blockerVars == <<blockerLabels, deliveries, actions, failed, blockerHistory>>

\* handleIssueComment: the webhook of a comment, then its command once the
\* labels have been read.  handleManualLabelling: the webhook of a label
\* change, then the comment that is left to be made.
CommentEvents == [kind : {"comment"}, user : People, body : BlockerComments]
DecidedCommands == [kind : {"decided"}, cmd : Commands, hasLabel : BOOLEAN]
LabelEvents == [kind : {"label"}, sender : People \cup {Bot}, branch : Branches, added : BOOLEAN]
Replies == [kind : {"reply"}, branch : Branches]
Webhooks == CommentEvents \cup DecidedCommands \cup LabelEvents \cup Replies

BlockerTypeOK ==
    /\ blockerLabels \subseteq Branches
    /\ IsABag(deliveries) /\ BagToSet(deliveries) \subseteq Webhooks
    /\ actions \in 0..MaxActions
    /\ failed \in BOOLEAN
    /\ initial \subseteq Branches /\ wanted \subseteq Branches
    /\ asked \subseteq Commands
    /\ touched \subseteq Branches /\ overlapped \subseteq Branches

BlockerInit ==
    /\ blockerLabels \in SUBSET Branches
    /\ deliveries = EmptyBag
    /\ actions = 0
    /\ failed = FALSE
    /\ initial = blockerLabels
    /\ asked = {}
    /\ wanted = blockerLabels
    /\ touched = {}
    /\ overlapped = {}

-----------------------------------------------------------------------------
\* The command handleIssueComment takes from a comment: its only cancel line,
\* else its only command line.  releaseBlockRe matches cancel lines, too.
CommandOf(body) ==
    LET cancels == {i \in DOMAIN body : ~body[i].add}
    IN  IF Cardinality(cancels) = 1 THEN {body[i] : i \in cancels}
        ELSE IF Len(body) = 1 /\ cancels = {} THEN {body[1]}
        ELSE {}

\* --- faulty variant of canLabel
canLabelAnyMember(user) == TRUE
\* ---

canLabel(user) == user \in Approvers

\* The branches a webhook is about.
BranchesOf(h) ==
    CASE h.kind = "comment" -> {h.body[i].branch : i \in DOMAIN h.body}
      [] h.kind = "decided" -> {h.cmd.branch}
      [] OTHER -> {h.branch}

UnderWay == UNION {BranchesOf(h) : h \in BagToSet(deliveries)}

Event(sender, branch, added) ==
    [kind |-> "label", sender |-> sender, branch |-> branch, added |-> added]

\* Somebody comments on the item (issue_comment, created).
CommentOnItem(user, body) ==
    LET event == [kind |-> "comment", user |-> user, body |-> body]
        heeded == IF user \in Approvers THEN CommandOf(body) ELSE {}
    IN  /\ actions < MaxActions
        /\ actions' = actions + 1
        /\ deliveries' = deliveries (+) SetToBag({event})
        /\ asked' = asked \cup heeded
        /\ wanted' = (wanted \cup {c.branch : c \in {c \in heeded :
                                       c.add /\ c.branch \in ExistingBranches}})
                     \ {c.branch : c \in {c \in heeded : ~c.add}}
        /\ overlapped' = overlapped \cup (BranchesOf(event) \cap UnderWay)
        /\ UNCHANGED <<blockerLabels, failed, initial, touched>>

\* Somebody adds or removes the label in GitHub's user interface.
ChangeByHand(user, branch) ==
    /\ actions < MaxActions
    /\ actions' = actions + 1
    /\ blockerLabels' = IF branch \in blockerLabels THEN blockerLabels \ {branch} ELSE blockerLabels \cup {branch}
    /\ deliveries' = deliveries (+) SetToBag({Event(user, branch, branch \notin blockerLabels)})
    /\ touched' = touched \cup {branch}
    /\ overlapped' = overlapped \cup ({branch} \cap UnderWay)
    /\ UNCHANGED <<failed, initial, asked, wanted>>

-----------------------------------------------------------------------------
Ends(h) == deliveries' = deliveries (-) SetToBag({h})

Becomes(h, successors) ==
    deliveries' = (deliveries (-) SetToBag({h})) (+) SetToBag(successors)

\* AddLabel (add) or RemoveLabel by the bot; setting what is set is no error
\* and no event, a change is announced to the plugin like any other.
Write(h, branch, add, successors) ==
    IF (branch \in blockerLabels) = add
      THEN Becomes(h, successors) /\ UNCHANGED blockerLabels
      ELSE /\ blockerLabels' = IF add THEN blockerLabels \cup {branch} ELSE blockerLabels \ {branch}
           /\ Becomes(h, successors \cup {Event(Bot, branch, add)})

\* handleIssueComment up to the reading of the labels; a refusal is a comment.
HandleComment(h) ==
    /\ h.kind = "comment"
    /\ LET cmds == CommandOf(h.body)
       IN  IF cmds = {} \/ ~canLabel(h.user)
             THEN Ends(h)
             ELSE \E cmd \in cmds :
                    Becomes(h, {[kind |-> "decided", cmd |-> cmd,
                                 hasLabel |-> cmd.branch \in blockerLabels]})
    /\ UNCHANGED <<blockerLabels, actions, failed, blockerHistory>>

\* The rest of handleLabel, acting on the labels as they were read; a label for
\* a branch that does not exist is declined with a comment.
handleLabel(h) ==
    /\ h.kind = "decided"
    /\ IF \/ ~h.hasLabel /\ h.cmd.add /\ h.cmd.branch \in ExistingBranches
          \/ h.hasLabel /\ ~h.cmd.add
         THEN Write(h, h.cmd.branch, h.cmd.add, {})
         ELSE Ends(h) /\ UNCHANGED blockerLabels
    /\ UNCHANGED <<actions, failed, blockerHistory>>

\* --- faulty variants of handleManualLabelling
handleManualLabellingOfBotToo(h) ==
    /\ h.kind = "label"
    /\ Write(h, h.branch, ~h.added, {})
    /\ UNCHANGED <<actions, failed, blockerHistory>>

handleManualLabellingOnlyAdded(h) ==
    /\ h.kind = "label"
    /\ IF h.sender = Bot \/ ~h.added
         THEN Ends(h) /\ UNCHANGED blockerLabels
         ELSE Write(h, h.branch, FALSE, {[kind |-> "reply", branch |-> h.branch]})
    /\ UNCHANGED <<actions, failed, blockerHistory>>
\* ---

\* The bot's own changes are ignored, anybody else's are undone.
handleManualLabelling(h) ==
    /\ h.kind = "label"
    /\ IF h.sender = Bot
         THEN Ends(h) /\ UNCHANGED blockerLabels
         ELSE Write(h, h.branch, ~h.added, {[kind |-> "reply", branch |-> h.branch]})
    /\ UNCHANGED <<actions, failed, blockerHistory>>

\* ... and explained in a comment.
Explain(h) ==
    /\ h.kind = "reply"
    /\ Ends(h)
    /\ UNCHANGED <<blockerLabels, actions, failed, blockerHistory>>

\* A GitHub call of the handler fails, or the process is restarted: the handler
\* is not run again.
Abort(h) ==
    /\ Ends(h)
    /\ failed' = TRUE
    /\ UNCHANGED <<blockerLabels, actions, blockerHistory>>

Handle(h) ==
    \/ HandleComment(h)
    \/ handleLabel(h)
    \/ handleManualLabelling(h)
    \/ Explain(h)

HandleSome == \E h \in BagToSet(deliveries) : Handle(h)

BlockerNext ==
    \/ \E user \in People :
         \/ \E body \in BlockerComments : CommentOnItem(user, body)
         \/ \E branch \in Branches : ChangeByHand(user, branch)
    \/ HandleSome
    \/ \E h \in BagToSet(deliveries) : Abort(h)

\* Goroutines are scheduled and GitHub calls return.
BlockerSpec == BlockerInit /\ [][BlockerNext]_blockerVars /\ WF_blockerVars(HandleSome)

-----------------------------------------------------------------------------
BlockerAtRest == deliveries = EmptyBag

\* A label nobody changed by hand is there because it was there at the start or
\* an approver asked for it on an existing branch, and gone only because an
\* approver cancelled it, in every interleaving and with every failing call.
\* Commands that agree are not lost: if approvers only added (only cancelled) it,
\* it is there (gone) when all is handled.
UntouchedLabelsFollowCommands ==
    \A b \in Branches \ touched :
        LET Asked(add) == [add |-> add, branch |-> b] \in asked
        IN  /\ b \in blockerLabels \ initial => b \in ExistingBranches /\ Asked(TRUE)
            /\ b \in initial \ blockerLabels => Asked(FALSE)
            /\ BlockerAtRest /\ ~failed =>
                  /\ Asked(TRUE) /\ ~Asked(FALSE) /\ b \in ExistingBranches => b \in blockerLabels
                  /\ Asked(FALSE) /\ ~Asked(TRUE) => b \notin blockerLabels

\* When people wait for the plugin before they act on a label again, the labels
\* end up as the approvers' commands say, whatever was done by hand and however
\* handlers for different labels interleave.
CommandsPrevail ==
    BlockerAtRest /\ ~failed =>
        \A b \in Branches \ overlapped : b \in blockerLabels <=> b \in wanted

\* Once people stop the plugin comes to rest: it does not answer its own label
\* changes, which come back to it like anybody's.
ComesToRest == <>[]BlockerAtRest
=============================================================================
