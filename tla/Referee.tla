------------------------------- MODULE Referee -------------------------------
(***************************************************************************)
(* external-plugins/referee: the plugin that puts a /hold on a pull        *)
(* request that was retested too often since its last commit, and keeps a  *)
(* gauge of the retests per pull request.                                  *)
(*                                                                         *)
(* One pull request.  Its timeline grows while webhooks are handled, each  *)
(* in a goroutine that reads GitHub step by step.  Prow's hold plugin turns*)
(* hold comments into the label.                                           *)
(***************************************************************************)
EXTENDS Integers, Sequences, FiniteSets, FiniteSetsExt, SequencesExt

CONSTANTS
    None,           \* no gauge for the pull request
    PageSize,       \* items of the timeline a query returns: first:100
    MaxRetests,     \* maxNumberOfAllowedRetestComments
    Settings,       \* what happens to the pull request and the plugin, see SettingsAssumption
    MaxItems,       \* bound on the timeline
    MaxTime         \* bound on the seconds of the timeline

\* What a comment does depends on its text: "retest" begins with /retest,
\* "test" with /test <job>, "embedded" has /retest on a later line.
Kinds == {"retest", "test", "embedded", "hold", "unhold"}

\* The comments people write, the states they bring the pull request to, and
\* bounds on the webhooks handled at a time and on failing queries and restarts.
ASSUME RefereeAssumption ==
    /\ {PageSize, MaxRetests, MaxItems, MaxTime} \subseteq Nat \ {0}
    /\ None \notin 0..MaxItems
    /\ \A s \in Settings :
        /\ s.comments \subseteq Kinds
        /\ s.states \subseteq {"open", "draft", "closed"}
        /\ s.maxHandlers \in Nat \ {0} /\ s.maxFailures \in Nat

Slots == 1..Max({s.maxHandlers : s \in Settings})

VARIABLES
    setting,    \* one of Settings, for the whole behaviour
    state,      \* the pull request: open, draft or closed
    timeline,   \* its commits and comments, as GitHub lists them
    label,      \* do-not-merge/hold is on it
    seenByHold, \* items Prow's hold plugin has handled
    handlers,   \* the webhooks being handled, and the initialisation
    gauge,      \* the pull request's retests_..._pr_since_last_commit
    failures    \* failed queries and restarts

vars == <<setting, state, timeline, label, seenByHold, handlers, gauge, failures>>

\* A bot's hold remembers, for the properties, how much of the timeline the
\* handler had seen that posted it.
Items == [kind : Kinds \cup {"push", "botHold"}, at : 0..MaxTime, seen : 0..MaxItems]

Handlers == [event : {"comment", "update", "remove", "initial"},
             pc : {"timeline", "gauge", "labels", "comment"},
             count : 0..MaxItems, botHeld : BOOLEAN, seen : 0..MaxItems]

TypeOK ==
    /\ setting \in Settings
    /\ state \in {"open", "draft", "closed"}
    /\ timeline \in Seq(Items) /\ Len(timeline) \in 1..MaxItems
    /\ label \in BOOLEAN
    /\ seenByHold \in 0..Len(timeline)
    /\ handlers \in Seq(Handlers) /\ Len(handlers) <= setting.maxHandlers
    /\ \A h \in ToSet(handlers) : h.pc = "comment" => h.count >= MaxRetests /\ ~h.botHeld
    /\ gauge \in 0..MaxItems \cup {None}
    /\ failures \in 0..setting.maxFailures

Webhook(event) == [event |-> event, pc |-> IF event = "remove" THEN "gauge" ELSE "timeline",
                   count |-> 0, botHeld |-> FALSE, seen |-> 0]

Init ==
    /\ setting \in Settings
    /\ state = "open"
    /\ timeline = << [kind |-> "push", at |-> 1, seen |-> 0] >>
    /\ label = FALSE
    /\ seenByHold = 0
    /\ handlers = <<>>
    /\ gauge = None
    /\ failures = 0

-----------------------------------------------------------------------------
\* Reading the timeline.

Latest(times) == CHOOSE t \in times : \A u \in times : u <= t

\* --- faulty variant of determineLastPush
determineLastPushFirst(items) == items[1].at
\* ---

\* The newest date of a commit or force push; a commit may be dated long before
\* it was pushed.
determineLastPush(items) == Latest({i.at : i \in {j \in ToSet(items) : j.kind = "push"}})

AfterLastPush(items, kinds) ==
    {i \in DOMAIN items : items[i].kind \in kinds /\ items[i].at > determineLastPush(items)}

NumberOfRetestComments(items) == Cardinality(AfterLastPush(items, {"retest", "test"}))

\* The bot has commented /hold since the last push.
HeldByBot(items) == AfterLastPush(items, {"botHold"}) # {}

\* The query asks for the first page only.
fetchTimelineItems == SubSeq(timeline, 1, IF Len(timeline) < PageSize THEN Len(timeline) ELSE PageSize)

\* The comments for which handlePullRequestComment goes on.
triggers(kind) == kind \in {"retest", "embedded"}

now == Latest({item.at : item \in ToSet(timeline)})

-----------------------------------------------------------------------------
\* People.

Deliver(event) == handlers' = Append(handlers, Webhook(event))

\* People leave the bounded timeline room for the answers of the handlers.
Room(webhooks) ==
    /\ Len(timeline) + Len(handlers) + webhooks < MaxItems
    /\ Len(handlers) + webhooks <= setting.maxHandlers

\* A comment, in the second of the item before it or in a later one.
Write(kind) ==
    /\ Room(IF triggers(kind) THEN 1 ELSE 0)
    /\ \E at \in now..MaxTime :
          /\ at <= now + 1
          /\ timeline' = Append(timeline, [kind |-> kind, at |-> at, seen |-> 0])
    /\ IF triggers(kind) THEN Deliver("comment") ELSE UNCHANGED handlers
    /\ UNCHANGED <<setting, state, label, seenByHold, gauge, failures>>

\* A push of a commit that was made then or earlier.
Push ==
    /\ state # "closed"
    /\ Room(1)
    /\ \E at \in 1..MaxTime :
          /\ at <= now + 1
          /\ timeline' = Append(timeline, [kind |-> "push", at |-> at, seen |-> 0])
    /\ Deliver("update")
    /\ UNCHANGED <<setting, state, label, seenByHold, gauge, failures>>

\* Closing, drafting, reopening, making ready.
ChangeState(new) ==
    /\ <<state, new>> \in {<<"open", "closed">>, <<"open", "draft">>, <<"draft", "closed">>,
                           <<"draft", "open">>, <<"closed", "open">>}
    /\ Len(handlers) < setting.maxHandlers
    /\ state' = new
    /\ Deliver(IF new = "open" THEN "update" ELSE "remove")
    /\ UNCHANGED <<setting, timeline, label, seenByHold, gauge, failures>>

\* Prow's hold plugin takes up the next comment.
HoldPlugin ==
    /\ seenByHold < Len(timeline)
    /\ seenByHold' = seenByHold + 1
    /\ LET kind == timeline[seenByHold + 1].kind
       IN  label' = (kind \in {"hold", "botHold"} \/ (label /\ kind # "unhold"))
    /\ UNCHANGED <<setting, state, timeline, handlers, gauge, failures>>

-----------------------------------------------------------------------------
\* The handlers.

Done(i) == handlers' = RemoveAt(handlers, i)
At(i, pc) == i \in DOMAIN handlers /\ handlers[i].pc = pc

\* FetchPRTimeLineForLastCommit.
FetchTimeline(i) ==
    LET items == fetchTimelineItems
    IN  /\ At(i, "timeline")
        /\ handlers' = [handlers EXCEPT ![i].pc = "gauge",
                                        ![i].count = NumberOfRetestComments(items),
                                        ![i].botHeld = HeldByBot(items),
                                        ![i].seen = Len(timeline)]
        /\ UNCHANGED <<setting, state, timeline, label, seenByHold, gauge, failures>>

\* --- faulty variants of SetGauge
SetGaugeNeverDeletes(i) ==
    /\ At(i, "gauge")
    /\ gauge' = IF handlers[i].event = "remove" THEN None
                ELSE IF handlers[i].count = 0 THEN gauge ELSE handlers[i].count
    /\ IF handlers[i].event = "comment" /\ handlers[i].count >= MaxRetests
         THEN handlers' = [handlers EXCEPT ![i].pc = "labels"]
         ELSE Done(i)
    /\ UNCHANGED <<setting, state, timeline, label, seenByHold, failures>>

SetGaugeOneTooMany(i) ==
    /\ At(i, "gauge")
    /\ gauge' = IF handlers[i].event = "remove" THEN None ELSE handlers[i].count
    /\ IF handlers[i].event = "comment" /\ handlers[i].count > MaxRetests
         THEN handlers' = [handlers EXCEPT ![i].pc = "labels"]
         ELSE Done(i)
    /\ UNCHANGED <<setting, state, timeline, label, seenByHold, failures>>
\* ---

\* SetForPullRequest or DeleteForPullRequest; a comment's handler goes on when
\* there are too many.
SetGauge(i) ==
    LET h == handlers[i]
    IN  /\ At(i, "gauge")
        /\ gauge' = IF h.event = "remove" \/ (h.event = "update" /\ h.count = 0)
                      THEN None ELSE h.count
        /\ IF h.event = "comment" /\ h.count >= MaxRetests
             THEN handlers' = [handlers EXCEPT ![i].pc = "labels"]
             ELSE Done(i)
        /\ UNCHANGED <<setting, state, timeline, label, seenByHold, failures>>

\* FetchPRLabels; then the bot's earlier hold, as of the timeline read before.
FetchLabels(i) ==
    /\ At(i, "labels")
    /\ IF label \/ handlers[i].botHeld
         THEN Done(i)
         ELSE handlers' = [handlers EXCEPT ![i].pc = "comment"]
    /\ UNCHANGED <<setting, state, timeline, label, seenByHold, gauge, failures>>

\* CreateComment of the /hold.
CreateComment(i) ==
    /\ At(i, "comment")
    /\ Len(timeline) < MaxItems
    /\ \E at \in now..MaxTime :
          /\ at <= now + 1
          /\ timeline' = Append(timeline, [kind |-> "botHold", at |-> at, seen |-> handlers[i].seen])
    /\ Done(i)
    /\ UNCHANGED <<setting, state, label, seenByHold, gauge, failures>>

\* A query or the comment fails: the handler returns the error and is gone.
Fail(i) ==
    /\ i \in DOMAIN handlers /\ handlers[i].pc # "gauge" /\ handlers[i].event # "initial"
    /\ failures < setting.maxFailures
    /\ failures' = failures + 1
    /\ Done(i)
    /\ UNCHANGED <<setting, state, timeline, label, seenByHold, gauge>>

\* The plugin restarts: metrics and handlers are lost, and the open, approved
\* pull requests are looked at anew; a failure there ends the process again.
Restart ==
    /\ failures < setting.maxFailures
    /\ failures' = failures + 1
    /\ gauge' = None
    /\ \/ handlers' = <<>>
       \/ state # "closed" /\ handlers' = <<Webhook("initial")>>
    /\ UNCHANGED <<setting, state, timeline, label, seenByHold>>

Step(i) == FetchTimeline(i) \/ SetGauge(i) \/ FetchLabels(i) \/ CreateComment(i)

Next ==
    \/ \E kind \in setting.comments : Write(kind)
    \/ Push
    \/ \E new \in setting.states : ChangeState(new)
    \/ HoldPlugin
    \/ \E i \in Slots : Step(i) \/ Fail(i)
    \/ Restart

\* Goroutines run on; nothing else has to happen.
Fairness == \A i \in Slots : WF_vars(Step(i))

Spec == Init /\ [][Next]_vars /\ Fairness

-----------------------------------------------------------------------------
Prefix(n) == SubSeq(timeline, 1, n)
IsBotHold(i) == timeline[i].kind = "botHold"
PushedAfter(i) == \E j \in i + 1..Len(timeline) : timeline[j].kind = "push"

\* Whoever is held has at least the allowed number of /test and /retest comments
\* newer than the newest commit that was there when they were counted; and a second
\* hold for the same commit comes only from a handler that read the timeline before
\* the first: whoever is unheld again may retest on.  Provided a page held all of
\* the timeline.
HoldsAreEarned ==
    \A j \in 1..Len(timeline) : IsBotHold(j) /\ timeline[j].seen <= PageSize =>
        LET known == 1..timeline[j].seen
            pushes == {p \in known : timeline[p].kind = "push"}
        IN  /\ MaxRetests <= Cardinality({c \in known : /\ timeline[c].kind \in {"retest", "test"}
                                                        /\ \A p \in pushes : timeline[c].at > timeline[p].at})
            /\ \A i \in 1 .. j - 1 :
                  IsBotHold(i) /\ i \in known => \E p \in pushes : timeline[p].at >= timeline[i].at

Undisturbed == setting.maxHandlers = 1 /\ setting.maxFailures = 0 /\ "test" \notin setting.comments

\* While webhooks are handled one at a time, by a plugin that neither fails nor
\* restarts, and nobody tests single jobs, the gauge of an open pull request is
\* exact, or absent for none: after pushes, when it was made a draft or closed, and
\* when it comes back.  Provided a page holds the timeline.
GaugeIsExact ==
    Undisturbed /\ state = "open" /\ handlers = <<>> /\ Len(timeline) <= PageSize =>
        NumberOfRetestComments(timeline) = IF gauge = None THEN 0 ELSE gauge

\* A retest command that is one too many is answered in the end: it finds the hold
\* label, or a hold of the bot for the commit is there, or a commit is pushed; two
\* handlers that overtake each other do not leave it to one another.
Excessive(i) ==
    /\ i <= Len(timeline)
    /\ NumberOfRetestComments(Prefix(i)) >= MaxRetests
    /\ ~PushedAfter(i)
    /\ \E h \in ToSet(handlers) : h.event = "comment" /\ h.pc = "timeline"
Answered(i) == label \/ HeldByBot(timeline) \/ PushedAfter(i) \/ failures > 0

ExcessIsHeld == \A i \in 1..MaxItems : Excessive(i) ~> Answered(i)
=============================================================================
