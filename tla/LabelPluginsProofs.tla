--------------------------- MODULE LabelPluginsProofs ---------------------------
(***************************************************************************)
(* The plugins about labels.  Those of release-blocker follow the commands *)
(* of approvers, for any branches, people, comments and changes by hand,   *)
(* in every interleaving of the handlers and with every handler that dies. *)
(* What is due for tests by phased's labels is on its way to them, for any *)
(* jobs, pushes and number of handlers.  Each has its own specification.   *)
(***************************************************************************)
EXTENDS ReleaseBlocker, Phased, FiniteSetTheorems, TLAPS

-----------------------------------------------------------------------------
(***************************************************************************)
(* The release-blocker plugin.                                             *)
(***************************************************************************)

Under(kind) == {h \in BagToSet(deliveries) : h.kind = kind}
Sent(add, b) == [add |-> add, branch |-> b]
Asked(add, b) == Sent(add, b) \in asked

\* Handlers act on what approvers asked for, and a label somebody changed is touched.
HandlersInv ==
    /\ \A h \in Under("comment") : h.user \in Approvers => CommandOf(h.body) \subseteq asked
    /\ \A h \in Under("decided") : h.cmd \in asked
    /\ \A h \in Under("label") : h.sender # Bot => h.branch \in touched

\* An approver's command, of which nothing or the reading of the labels is done.
PendingBy(h, add, b) ==
    \/ h.kind = "comment" /\ h.user \in Approvers /\ Sent(add, b) \in CommandOf(h.body)
    \/ h.kind = "decided" /\ h.cmd = Sent(add, b) /\ (h.hasLabel <=> ~add)
Pending(add, b) == \E h \in BagToSet(deliveries) : PendingBy(h, add, b)

\* Labels are changed for commands only; while commands agree, none of them undoes
\* what a handler has read, and each is done or will be.
FollowInv ==
    \A b \in Branches \ touched :
        /\ b \in blockerLabels \ initial => b \in ExistingBranches /\ Asked(TRUE, b)
        /\ b \in initial \ blockerLabels => Asked(FALSE, b)
        /\ ~Asked(FALSE, b) =>
              /\ \A h \in Under("decided") : h.cmd.branch = b /\ h.hasLabel => b \in blockerLabels
              /\ ~failed /\ Asked(TRUE, b) /\ b \in ExistingBranches => b \in blockerLabels \/ Pending(TRUE, b)
        /\ ~Asked(TRUE, b) =>
              /\ \A h \in Under("decided") : h.cmd.branch = b /\ ~h.hasLabel => b \notin blockerLabels
              /\ ~failed /\ Asked(FALSE, b) => b \notin blockerLabels \/ Pending(FALSE, b)

\* A handler that may still change the label of a branch, and whether the label is
\* there when it has done so, for those there are.
Active(h, b) == b \in BranchesOf(h) /\ h.kind # "reply" /\ (h.kind = "label" => h.sender # Bot)
Does(cmd, b) == cmd.branch = b /\ (cmd.add => b \in ExistingBranches)
Leaves(h, b, there) ==
    \/ /\ h.kind = "comment" /\ h.user \in Approvers
       /\ \E cmd \in CommandOf(h.body) : Does(cmd, b) /\ cmd.add
    \/ /\ h.kind = "comment" /\ b \in there
       /\ h.user \in Approvers => \A cmd \in CommandOf(h.body) : ~Does(cmd, b)
    \/ h.kind = "decided" /\ Does(h.cmd, b) /\ h.cmd.add
    \/ h.kind = "decided" /\ ~Does(h.cmd, b) /\ b \in there
    \/ h.kind = "label" /\ ~h.added
Knows(h, b, there) ==
    /\ h.kind = "decided" => (h.hasLabel <=> b \in there)
    /\ h.kind = "label" => (h.added <=> b \in there)

\* One handler at a time, which knows of the label, leaves what is wanted.
PrevailInv ==
    ~failed =>
        \A b \in Branches \ overlapped :
            /\ \A h, g \in BagToSet(deliveries) : Active(h, b) /\ Active(g, b) => h = g
            /\ (\A h \in BagToSet(deliveries) : ~Active(h, b)) => (b \in blockerLabels <=> b \in wanted)
            /\ \A h \in BagToSet(deliveries) : Active(h, b) =>
                  /\ deliveries[h] = 1
                  /\ Leaves(h, b, blockerLabels) <=> b \in wanted
                  /\ Knows(h, b, blockerLabels)

IInv == BlockerTypeOK /\ HandlersInv /\ FollowInv /\ PrevailInv

-----------------------------------------------------------------------------
LEMMA EmptyIs ==
    ASSUME NEW B, IsABag(B)
    PROVE  B = EmptyBag <=> DOMAIN B = {}
BY DEF IsABag, EmptyBag, SetToBag

\* What a bag is once one of its elements is replaced by some.
Replaced(B, h, S, C) ==
    /\ IsABag(C)
    /\ DOMAIN C \subseteq DOMAIN B \cup S
    /\ DOMAIN B \ {h} \subseteq DOMAIN C /\ S \subseteq DOMAIN C
    /\ B[h] = 1 /\ h \notin S => h \notin DOMAIN C
    /\ \A g \in DOMAIN B \ (S \cup {h}) : C[g] = B[g]
    /\ \A g \in S \ DOMAIN B : C[g] = 1

LEMMA BagEnds ==
    ASSUME NEW B, IsABag(B), NEW h \in DOMAIN B
    PROVE  Replaced(B, h, {}, B (-) SetToBag({h}))
<1> DEFINE less == [e \in DOMAIN B |-> IF e \in {h} THEN B[e] - 1 ELSE B[e]]
           C == [e \in {d \in DOMAIN B : less[d] > 0} |-> less[e]]
<1>1. B (-) SetToBag({h}) = C
  BY DEF IsABag, BagToSet, SetToBag, (-)
<1>2. \A e \in DOMAIN B : B[e] \in Nat /\ B[e] > 0
  BY DEF IsABag
<1>3. DOMAIN C = {d \in DOMAIN B : less[d] > 0} /\ \A e \in DOMAIN C : C[e] = less[e]
  OBVIOUS
<1>4. \A e \in DOMAIN B : less[e] = IF e = h THEN B[e] - 1 ELSE B[e]
  OBVIOUS
<1>5. C = [e \in DOMAIN C |-> C[e]]
  OBVIOUS
<1> HIDE DEF C, less
<1>6. \A e \in DOMAIN B : less[e] \in Int /\ (e # h => less[e] = B[e] /\ less[e] > 0)
  BY <1>2, <1>4
<1>7. \A e \in DOMAIN C : C[e] \in Nat /\ C[e] > 0
  BY <1>3, <1>6
<1>8. IsABag(C)
  BY <1>5, <1>7 DEF IsABag
<1>9. B[h] = 1 => h \notin DOMAIN C
  BY <1>3, <1>4
<1>10. QED
  BY <1>1, <1>3, <1>6, <1>8, <1>9 DEF Replaced

\* ... and once some are added.
Added(B, S, C) ==
    /\ IsABag(C) /\ DOMAIN C = DOMAIN B \cup S
    /\ \A g \in DOMAIN B \ S : C[g] = B[g]
    /\ \A g \in S \ DOMAIN B : C[g] = 1

LEMMA BagAdds ==
    ASSUME NEW B, IsABag(B), NEW S
    PROVE  Added(B, S, B (+) SetToBag(S))
<1> DEFINE C == [e \in DOMAIN B \cup S |->
                   (IF e \in DOMAIN B THEN B[e] ELSE 0) + (IF e \in S THEN 1 ELSE 0)]
<1>1. B (+) SetToBag(S) = C
  BY DEF IsABag, BagToSet, SetToBag, (+)
<1>2. \A e \in DOMAIN B : B[e] \in Nat /\ B[e] > 0
  BY DEF IsABag
<1>3. /\ DOMAIN C = DOMAIN B \cup S
      /\ \A e \in DOMAIN C : C[e] = (IF e \in DOMAIN B THEN B[e] ELSE 0) + (IF e \in S THEN 1 ELSE 0)
  OBVIOUS
<1>4. \A e \in DOMAIN C : C[e] \in Nat /\ C[e] > 0
  BY <1>2, <1>3
<1>5. C = [e \in DOMAIN C |-> C[e]]
  OBVIOUS
<1> HIDE DEF C
<1>6. IsABag(C)
  BY <1>4, <1>5 DEF IsABag
<1>7. QED
  BY <1>1, <1>2, <1>3, <1>6 DEF Added

LEMMA BagBecomes ==
    ASSUME NEW B, IsABag(B), NEW h \in DOMAIN B, NEW S
    PROVE  Replaced(B, h, S, (B (-) SetToBag({h})) (+) SetToBag(S))
<1> DEFINE D == B (-) SetToBag({h})
<1>1. Replaced(B, h, {}, D)
  BY BagEnds
<1> HIDE DEF D
<1>2. IsABag(D)
  BY <1>1 DEF Replaced
<1> DEFINE C == D (+) SetToBag(S)
<1>3. Added(D, S, C)
  BY <1>2, BagAdds
<1> HIDE DEF C
<1>4. Replaced(B, h, S, C)
  BY <1>1, <1>3 DEF Replaced, Added
<1>5. QED
  BY <1>4 DEF C, D

\* A comment gives one command at most, one of its own.
LEMMA CommandIs ==
    ASSUME ReleaseBlockerAssumption, NEW body \in BlockerComments
    PROVE  /\ CommandOf(body) \subseteq Commands
           /\ \A c, d \in CommandOf(body) : c = d
           /\ \A c \in CommandOf(body) : \E i \in DOMAIN body : c = body[i]
<1> DEFINE cancels == {i \in DOMAIN body : ~body[i].add}
<1>1. body \in Seq(Commands)
  BY DEF ReleaseBlockerAssumption
<1>2. DOMAIN body = 1..Len(body) /\ Len(body) \in Nat /\ \A i \in DOMAIN body : body[i] \in Commands
  BY <1>1
<1>3. ASSUME Cardinality(cancels) = 1
      PROVE  \E i \in DOMAIN body : {body[k] : k \in cancels} = {body[i]}
  <2>1. IsFiniteSet(DOMAIN body)
    BY <1>2, FS_Interval
  <2>2. IsFiniteSet(cancels)
    BY <2>1, FS_Subset
  <2>3. \E i : cancels = {i}
    BY <1>3, <2>2, FS_Singleton
  <2>4. QED
    BY <2>3
<1>4. ASSUME Len(body) = 1 PROVE 1 \in DOMAIN body
  BY <1>2, <1>4
<1>5. CASE Cardinality(cancels) = 1
  <2>1. CommandOf(body) = {body[i] : i \in cancels}
    BY <1>5 DEF CommandOf
  <2>2. QED
    BY <1>2, <1>3, <1>5, <2>1
<1>6. CASE Cardinality(cancels) # 1 /\ Len(body) = 1 /\ cancels = {}
  <2>1. CommandOf(body) = {body[1]}
    BY <1>6 DEF CommandOf
  <2>2. QED
    BY <1>2, <1>4, <1>6, <2>1
<1>7. CASE Cardinality(cancels) # 1 /\ ~(Len(body) = 1 /\ cancels = {})
  <2>1. CommandOf(body) = {}
    BY <1>7 DEF CommandOf
  <2>2. QED
    BY <2>1
<1>8. QED
  BY <1>5, <1>6, <1>7

\* What a handler is, by its kind.
LEMMA HandlerIs ==
    ASSUME NEW h \in Webhooks
    PROVE  \/ /\ h.kind = "comment" /\ h.user \in People /\ h.body \in BlockerComments
              /\ BranchesOf(h) = {h.body[i].branch : i \in DOMAIN h.body}
           \/ h.kind = "decided" /\ h.cmd \in Commands /\ h.hasLabel \in BOOLEAN /\ BranchesOf(h) = {h.cmd.branch}
           \/ /\ h.kind = "label" /\ h.sender \in People \cup {Bot} /\ h.branch \in Branches /\ h.added \in BOOLEAN
              /\ BranchesOf(h) = {h.branch}
           \/ h.kind = "reply" /\ h.branch \in Branches /\ BranchesOf(h) = {h.branch}
<1>1. CASE h \in CommentEvents
  BY <1>1 DEF CommentEvents, BranchesOf
<1>2. CASE h \in DecidedCommands
  BY <1>2 DEF DecidedCommands, BranchesOf
<1>3. CASE h \in LabelEvents
  BY <1>3 DEF LabelEvents, BranchesOf
<1>4. CASE h \in Replies
  BY <1>4 DEF Replies, BranchesOf
<1>5. QED
  BY <1>1, <1>2, <1>3, <1>4 DEF Webhooks

-----------------------------------------------------------------------------
\* A handler makes way for what is left to do of its command.
GoesOn(h, S) ==
    /\ Replaced(deliveries, h, S, deliveries')
    /\ failed' \in {failed, TRUE} /\ touched' = touched /\ asked' = asked /\ initial' = initial
    /\ \A s \in S : /\ s.kind # "comment"
                    /\ s.kind = "decided" => s.cmd \in asked /\ (s.hasLabel <=> s.cmd.branch \in blockerLabels')
                    /\ s.kind = "label" => s.sender = Bot
    /\ \A b \in Branches \ touched :
          /\ b \in blockerLabels' \ blockerLabels => b \in ExistingBranches /\ Asked(TRUE, b)
          /\ b \in blockerLabels \ blockerLabels' => Asked(FALSE, b)
          /\ ~failed' /\ PendingBy(h, TRUE, b) /\ b \in ExistingBranches =>
                b \in blockerLabels' \/ \E s \in S : PendingBy(s, TRUE, b)
          /\ ~failed' /\ PendingBy(h, FALSE, b) =>
                b \notin blockerLabels' \/ \E s \in S : PendingBy(s, FALSE, b)

LEMMA FollowStep ==
    ASSUME HandlersInv, FollowInv, NEW h \in BagToSet(deliveries), NEW S, GoesOn(h, S)
    PROVE  HandlersInv' /\ FollowInv'
<1>1. /\ DOMAIN deliveries' \subseteq DOMAIN deliveries \cup S
      /\ DOMAIN deliveries \ {h} \subseteq DOMAIN deliveries' /\ S \subseteq DOMAIN deliveries'
  BY DEF GoesOn, Replaced
<1>2. /\ failed' \in {failed, TRUE} /\ touched' = touched /\ asked' = asked /\ initial' = initial
      /\ \A s \in S : /\ s.kind # "comment"
                      /\ s.kind = "decided" => s.cmd \in asked /\ (s.hasLabel <=> s.cmd.branch \in blockerLabels')
                      /\ s.kind = "label" => s.sender = Bot
      /\ \A b \in Branches \ touched :
            /\ b \in blockerLabels' \ blockerLabels => b \in ExistingBranches /\ Asked(TRUE, b)
            /\ b \in blockerLabels \ blockerLabels' => Asked(FALSE, b)
            /\ ~failed' /\ PendingBy(h, TRUE, b) /\ b \in ExistingBranches =>
                  b \in blockerLabels' \/ \E s \in S : PendingBy(s, TRUE, b)
            /\ ~failed' /\ PendingBy(h, FALSE, b) =>
                  b \notin blockerLabels' \/ \E s \in S : PendingBy(s, FALSE, b)
  BY DEF GoesOn
<1>3. HandlersInv'
  BY <1>1, <1>2 DEF HandlersInv, Under, BagToSet
<1>4. ASSUME NEW b \in Branches \ touched, NEW add \in BOOLEAN, Pending(add, b),
             ~failed', add => b \in ExistingBranches
      PROVE  (b \in blockerLabels' <=> add) \/ Pending(add, b)'
  <2>1. PICK g \in DOMAIN deliveries : PendingBy(g, add, b)
    BY <1>4 DEF Pending, BagToSet
  <2>2. CASE g # h
    <3>1. g \in DOMAIN deliveries'
      BY <1>1, <2>2
    <3>2. QED
      BY <2>1, <3>1 DEF Pending, BagToSet
  <2>3. CASE g = h
    <3>1. (b \in blockerLabels' <=> add) \/ \E s \in S : PendingBy(s, add, b)
      BY <1>2, <1>4, <2>1, <2>3
    <3>2. QED
      BY <1>1, <3>1 DEF Pending, BagToSet
  <2>4. QED
    BY <2>2, <2>3
<1>5. ASSUME NEW b \in Branches \ touched
      PROVE  /\ b \in blockerLabels' \ initial => b \in ExistingBranches /\ Asked(TRUE, b)
             /\ b \in initial \ blockerLabels' => Asked(FALSE, b)
  BY <1>2 DEF FollowInv
<1>6. ASSUME NEW b \in Branches \ touched, ~Asked(FALSE, b)
      PROVE  /\ \A g \in Under("decided")' : g.cmd.branch = b /\ g.hasLabel => b \in blockerLabels'
             /\ ~failed' /\ Asked(TRUE, b) /\ b \in ExistingBranches => b \in blockerLabels' \/ Pending(TRUE, b)'
  <2>1. b \in blockerLabels => b \in blockerLabels'
    BY <1>2, <1>6
  <2>2. \A g \in Under("decided") : g.cmd.branch = b /\ g.hasLabel => b \in blockerLabels
    BY <1>6 DEF FollowInv
  <2>3. ASSUME NEW g \in DOMAIN deliveries', g.kind = "decided", g.cmd.branch = b, g.hasLabel
        PROVE  b \in blockerLabels'
    <3>1. CASE g \in S
      BY <1>2, <2>3, <3>1
    <3>2. CASE g \notin S
      BY <1>1, <2>1, <2>2, <2>3, <3>2 DEF Under, BagToSet
    <3>3. QED
      BY <3>1, <3>2
  <2>4. ~failed /\ Asked(TRUE, b) /\ b \in ExistingBranches => b \in blockerLabels \/ Pending(TRUE, b)
    BY <1>6 DEF FollowInv
  <2>5. ~failed' => ~failed
    BY <1>2
  <2>6. ASSUME ~failed', Asked(TRUE, b), b \in ExistingBranches
        PROVE  b \in blockerLabels' \/ Pending(TRUE, b)'
    BY <1>4, <2>1, <2>4, <2>5, <2>6
  <2>7. QED
    BY <2>3, <2>6 DEF Under, BagToSet
<1>7. ASSUME NEW b \in Branches \ touched, ~Asked(TRUE, b)
      PROVE  /\ \A g \in Under("decided")' : g.cmd.branch = b /\ ~g.hasLabel => b \notin blockerLabels'
             /\ ~failed' /\ Asked(FALSE, b) => b \notin blockerLabels' \/ Pending(FALSE, b)'
  <2>1. b \notin blockerLabels => b \notin blockerLabels'
    BY <1>2, <1>7
  <2>2. \A g \in Under("decided") : g.cmd.branch = b /\ ~g.hasLabel => b \notin blockerLabels
    BY <1>7 DEF FollowInv
  <2>3. ASSUME NEW g \in DOMAIN deliveries', g.kind = "decided", g.cmd.branch = b, ~g.hasLabel
        PROVE  b \notin blockerLabels'
    <3>1. CASE g \in S
      BY <1>2, <2>3, <3>1
    <3>2. CASE g \notin S
      BY <1>1, <2>1, <2>2, <2>3, <3>2 DEF Under, BagToSet
    <3>3. QED
      BY <3>1, <3>2
  <2>4. ~failed /\ Asked(FALSE, b) => b \notin blockerLabels \/ Pending(FALSE, b)
    BY <1>7 DEF FollowInv
  <2>5. ~failed' => ~failed
    BY <1>2
  <2>6. ASSUME ~failed', Asked(FALSE, b)
        PROVE  b \notin blockerLabels' \/ Pending(FALSE, b)'
    BY <1>4, <2>1, <2>4, <2>5, <2>6
  <2>7. QED
    BY <2>3, <2>6 DEF Under, BagToSet
<1>8. \A add, b : Asked(add, b)' = Asked(add, b)
  BY <1>2 DEF Asked
<1>9. FollowInv'
  BY <1>2, <1>5, <1>6, <1>7, <1>8 DEF FollowInv
<1>10. QED
  BY <1>3, <1>9

LEMMA PrevailStep ==
    ASSUME PrevailInv, NEW h \in BagToSet(deliveries), NEW S, Replaced(deliveries, h, S, deliveries'),
           failed' = failed, wanted' = wanted, overlapped' = overlapped,
           \A b \in Branches \ overlapped : Active(h, b) /\ Knows(h, b, blockerLabels) =>
              /\ h \notin S
              /\ \A s, t \in S : Active(s, b) /\ Active(t, b) => s = t
              /\ (\A s \in S : ~Active(s, b)) => (b \in blockerLabels' <=> Leaves(h, b, blockerLabels))
              /\ \A s \in S : Active(s, b) => /\ Leaves(s, b, blockerLabels') <=> Leaves(h, b, blockerLabels)
                                              /\ Knows(s, b, blockerLabels'),
           \A b \in Branches \ overlapped : ~Active(h, b) =>
              /\ \A s \in S : ~Active(s, b)
              /\ b \in blockerLabels' <=> b \in blockerLabels
    PROVE  PrevailInv'
<1>1. failed' = failed /\ wanted' = wanted /\ overlapped' = overlapped
  OBVIOUS
<1>2. /\ DOMAIN deliveries' \subseteq DOMAIN deliveries \cup S
      /\ DOMAIN deliveries \ {h} \subseteq DOMAIN deliveries' /\ S \subseteq DOMAIN deliveries'
      /\ deliveries[h] = 1 /\ h \notin S => h \notin DOMAIN deliveries'
      /\ \A g \in DOMAIN deliveries \ (S \cup {h}) : deliveries'[g] = deliveries[g]
      /\ \A g \in S \ DOMAIN deliveries : deliveries'[g] = 1
  BY DEF Replaced
<1>3. ASSUME ~failed, NEW b \in Branches \ overlapped
      PROVE  /\ \A f, g \in DOMAIN deliveries' : Active(f, b) /\ Active(g, b) => f = g
             /\ (\A g \in DOMAIN deliveries' : ~Active(g, b)) => (b \in blockerLabels' <=> b \in wanted)
             /\ \A g \in DOMAIN deliveries' : Active(g, b) =>
                   /\ deliveries'[g] = 1
                   /\ Leaves(g, b, blockerLabels') <=> b \in wanted
                   /\ Knows(g, b, blockerLabels')
  <2>1. /\ \A f, g \in DOMAIN deliveries : Active(f, b) /\ Active(g, b) => f = g
        /\ (\A g \in DOMAIN deliveries : ~Active(g, b)) => (b \in blockerLabels <=> b \in wanted)
        /\ \A g \in DOMAIN deliveries : Active(g, b) =>
              /\ deliveries[g] = 1
              /\ Leaves(g, b, blockerLabels) <=> b \in wanted
              /\ Knows(g, b, blockerLabels)
    BY <1>3 DEF PrevailInv, BagToSet
  <2>2. h \in DOMAIN deliveries
    BY DEF BagToSet
  <2>3. CASE Active(h, b)
    <3>1. /\ h \notin S
          /\ \A s, t \in S : Active(s, b) /\ Active(t, b) => s = t
          /\ (\A s \in S : ~Active(s, b)) => (b \in blockerLabels' <=> Leaves(h, b, blockerLabels))
          /\ \A s \in S : Active(s, b) => /\ Leaves(s, b, blockerLabels') <=> Leaves(h, b, blockerLabels)
                                          /\ Knows(s, b, blockerLabels')
      BY <2>1, <2>2, <2>3
    <3>2. h \notin DOMAIN deliveries'
      BY <1>2, <2>1, <2>2, <2>3, <3>1
    <3>3. \A g \in DOMAIN deliveries' : Active(g, b) => g \in S /\ g \notin DOMAIN deliveries
      BY <1>2, <2>1, <2>2, <2>3, <3>1, <3>2
    <3>4. Leaves(h, b, blockerLabels) <=> b \in wanted
      BY <2>1, <2>2, <2>3
    <3>5. QED
      BY <1>2, <3>1, <3>3, <3>4
  <2>4. CASE ~Active(h, b)
    <3>1. (\A s \in S : ~Active(s, b)) /\ (b \in blockerLabels' <=> b \in blockerLabels)
      BY <2>4
    <3>2. \A g \in DOMAIN deliveries' : Active(g, b) => g \in DOMAIN deliveries /\ g \notin S /\ g # h
      BY <1>2, <2>4, <3>1
    <3>3. \A g \in DOMAIN deliveries : Active(g, b) => g \in DOMAIN deliveries'
      BY <1>2, <2>4
    <3>4. \A g :
              /\ Leaves(g, b, blockerLabels') <=> Leaves(g, b, blockerLabels)
              /\ Knows(g, b, blockerLabels') <=> Knows(g, b, blockerLabels)
      BY <3>1 DEF Leaves, Knows
    <3>5. QED
      BY <1>2, <2>1, <3>1, <3>2, <3>3, <3>4
  <2>5. QED
    BY <2>3, <2>4
<1>4. QED
  BY <1>1, <1>3 DEF PrevailInv, BagToSet

\* A change of the label by the bot, and none where it changes nothing.
LEMMA WriteShape ==
    ASSUME BlockerTypeOK, NEW h \in BagToSet(deliveries), NEW branch \in Branches, NEW add \in BOOLEAN,
           NEW R, Write(h, branch, add, R)
    PROVE  /\ blockerLabels' \subseteq Branches
           /\ \A b \in Branches \ {branch} : b \in blockerLabels' <=> b \in blockerLabels
           /\ branch \in blockerLabels' <=> add
           /\ \E S : /\ Replaced(deliveries, h, S, deliveries')
                     /\ S \subseteq R \cup {Event(Bot, branch, add)} /\ R \subseteq S
<1>1. IsABag(deliveries) /\ h \in DOMAIN deliveries /\ blockerLabels \subseteq Branches
  BY DEF BlockerTypeOK, BagToSet
<1>2. \A S : Becomes(h, S) => Replaced(deliveries, h, S, deliveries')
  <2>1. \A S : Replaced(deliveries, h, S, (deliveries (-) SetToBag({h})) (+) SetToBag(S))
    BY <1>1, BagBecomes
  <2>2. QED
    BY <2>1 DEF Becomes
<1>3. CASE (branch \in blockerLabels) = add
  <2>1. Becomes(h, R) /\ blockerLabels' = blockerLabels
    BY <1>3 DEF Write
  <2>2. QED
    BY <1>1, <1>2, <1>3, <2>1
<1>4. CASE ~((branch \in blockerLabels) = add)
  <2>1. /\ blockerLabels' = IF add THEN blockerLabels \cup {branch} ELSE blockerLabels \ {branch}
        /\ Becomes(h, R \cup {Event(Bot, branch, add)})
    BY <1>4 DEF Write
  <2>2. Replaced(deliveries, h, R \cup {Event(Bot, branch, add)}, deliveries')
    BY <1>2, <2>1
  <2>3. QED
    BY <1>1, <2>1, <2>2
<1>5. QED
  BY <1>3, <1>4

-----------------------------------------------------------------------------
LEMMA ReplacedTypes ==
    ASSUME BlockerTypeOK, NEW h \in BagToSet(deliveries), NEW S \in SUBSET Webhooks,
           Replaced(deliveries, h, S, deliveries'), blockerLabels' \subseteq Branches,
           UNCHANGED <<actions, blockerHistory>>, failed' \in BOOLEAN
    PROVE  BlockerTypeOK'
<1>1. UNCHANGED <<actions, initial, asked, wanted, touched, overlapped>>
  BY DEF blockerHistory
<1>2. IsABag(deliveries') /\ DOMAIN deliveries' \subseteq Webhooks
  BY DEF Replaced, BlockerTypeOK, BagToSet
<1>3. QED
  BY <1>1, <1>2 DEF BlockerTypeOK, BagToSet

\* A handler that ends.
LEMMA EndsShape ==
    ASSUME BlockerTypeOK, NEW h \in BagToSet(deliveries), Ends(h)
    PROVE  Replaced(deliveries, h, {}, deliveries')
<1>1. IsABag(deliveries) /\ h \in DOMAIN deliveries
  BY DEF BlockerTypeOK, BagToSet
<1>2. Replaced(deliveries, h, {}, deliveries (-) SetToBag({h}))
  BY <1>1, BagEnds
<1>3. QED
  BY <1>2 DEF Ends

\* One that is no more to change anything, or makes way for nothing.
LEMMA EndsIInv ==
    ASSUME IInv, NEW h \in BagToSet(deliveries), Ends(h), UNCHANGED <<blockerLabels, actions, failed, blockerHistory>>,
           \A b \in Branches \ touched : /\ b \in ExistingBranches => ~PendingBy(h, TRUE, b)
                                         /\ ~PendingBy(h, FALSE, b),
           \A b \in Branches : Active(h, b) /\ Knows(h, b, blockerLabels) =>
               (b \in blockerLabels <=> Leaves(h, b, blockerLabels))
    PROVE  IInv'
<1>1. BlockerTypeOK /\ HandlersInv /\ FollowInv /\ PrevailInv
  BY DEF IInv
<1>2. Replaced(deliveries, h, {}, deliveries')
  BY <1>1, EndsShape
<1>3. UNCHANGED <<blockerLabels, failed, initial, asked, wanted, touched, overlapped>>
  BY DEF blockerHistory
<1>4. BlockerTypeOK'
  <2>1. blockerLabels' \subseteq Branches /\ failed' \in BOOLEAN /\ {} \in SUBSET Webhooks
    BY <1>1, <1>3 DEF BlockerTypeOK
  <2>2. QED
    BY <1>1, <1>2, <2>1, ReplacedTypes
<1>5. HandlersInv' /\ FollowInv'
  <2>1. \A b \in Branches \ touched :
              /\ b \in blockerLabels' \ blockerLabels => b \in ExistingBranches /\ Asked(TRUE, b)
              /\ b \in blockerLabels \ blockerLabels' => Asked(FALSE, b)
    BY <1>3
  <2>2. \A b \in Branches \ touched :
              /\ ~failed' /\ PendingBy(h, TRUE, b) /\ b \in ExistingBranches =>
                    b \in blockerLabels' \/ \E s \in {} : PendingBy(s, TRUE, b)
              /\ ~failed' /\ PendingBy(h, FALSE, b) =>
                    b \notin blockerLabels' \/ \E s \in {} : PendingBy(s, FALSE, b)
    OBVIOUS
  <2>3. GoesOn(h, {})
    BY <1>2, <1>3, <2>1, <2>2 DEF GoesOn
  <2>4. QED
    BY <1>1, <2>3, FollowStep
<1>6. PrevailInv'
  BY <1>1, <1>2, <1>3, PrevailStep
<1>7. QED
  BY <1>4, <1>5, <1>6 DEF IInv

LEMMA HandleCommentIInv ==
    ASSUME ReleaseBlockerAssumption, IInv, NEW h \in BagToSet(deliveries), HandleComment(h)
    PROVE  IInv'
<1>1. BlockerTypeOK /\ HandlersInv /\ FollowInv /\ PrevailInv
  BY DEF IInv
<1>2. h \in Webhooks /\ h.kind = "comment" /\ UNCHANGED <<blockerLabels, actions, failed, blockerHistory>>
  BY <1>1 DEF BlockerTypeOK, HandleComment
<1>3. h.body \in BlockerComments /\ BranchesOf(h) = {h.body[i].branch : i \in DOMAIN h.body}
  BY <1>2, HandlerIs
<1>4. /\ CommandOf(h.body) \subseteq Commands
      /\ \A c, d \in CommandOf(h.body) : c = d
      /\ \A c \in CommandOf(h.body) : \E i \in DOMAIN h.body : c = h.body[i]
  BY <1>3, CommandIs
<1>5. CASE CommandOf(h.body) = {} \/ ~canLabel(h.user)
  <2>1. Ends(h)
    BY <1>5 DEF HandleComment
  <2>2. \A b, add : ~PendingBy(h, add, b)
    BY <1>2, <1>5 DEF PendingBy, canLabel
  <2>3. \A b : b \in blockerLabels <=> Leaves(h, b, blockerLabels)
    BY <1>2, <1>5 DEF Leaves, canLabel
  <2>4. QED
    BY <1>2, <2>1, <2>2, <2>3, EndsIInv
<1>6. CASE ~(CommandOf(h.body) = {} \/ ~canLabel(h.user))
  <2>1. PICK cmd \in CommandOf(h.body) :
           Becomes(h, {[kind |-> "decided", cmd |-> cmd, hasLabel |-> cmd.branch \in blockerLabels]})
    BY <1>6 DEF HandleComment
  <2> DEFINE d == [kind |-> "decided", cmd |-> cmd, hasLabel |-> cmd.branch \in blockerLabels]
  <2>2. Replaced(deliveries, h, {d}, deliveries')
    <3>1. IsABag(deliveries) /\ h \in DOMAIN deliveries
      BY <1>1 DEF BlockerTypeOK, BagToSet
    <3>2. Replaced(deliveries, h, {d}, (deliveries (-) SetToBag({h})) (+) SetToBag({d}))
      BY <3>1, BagBecomes
    <3>3. QED
      BY <2>1, <3>2 DEF Becomes
  <2>3. h.user \in Approvers /\ cmd \in Commands /\ cmd \in asked /\ CommandOf(h.body) = {cmd}
        /\ cmd.branch \in BranchesOf(h)
    BY <1>1, <1>2, <1>3, <1>4, <1>6 DEF canLabel, HandlersInv, Under
  <2>4. /\ d.kind = "decided" /\ d.cmd = cmd /\ (d.hasLabel <=> cmd.branch \in blockerLabels)
        /\ d \in Webhooks /\ BranchesOf(d) = {cmd.branch} /\ d # h
    <3>1. d \in Webhooks
      BY <2>3 DEF Webhooks, DecidedCommands
    <3>2. BranchesOf(d) = {cmd.branch}
      BY DEF BranchesOf
    <3>3. d.kind = "decided" /\ d.cmd = cmd /\ (d.hasLabel <=> cmd.branch \in blockerLabels)
      BY Zenon
    <3>4. d # h
      BY <1>2, <3>3
    <3>5. QED
      BY <3>1, <3>2, <3>3, <3>4
  <2> HIDE DEF d
  <2>5. UNCHANGED <<blockerLabels, failed, initial, asked, wanted, touched, overlapped>>
    BY <1>2 DEF blockerHistory
  <2>6. BlockerTypeOK'
    <3>1. blockerLabels' \subseteq Branches /\ failed' \in BOOLEAN /\ {d} \in SUBSET Webhooks
      BY <1>1, <2>4, <2>5 DEF BlockerTypeOK
    <3>2. QED
      BY <1>1, <1>2, <2>2, <3>1, ReplacedTypes
  <2>7. HandlersInv' /\ FollowInv'
    <3>1. ASSUME NEW b, NEW add \in BOOLEAN, PendingBy(h, add, b)
          PROVE  (b \in blockerLabels' <=> add) \/ PendingBy(d, add, b)
      <4>1. cmd = Sent(add, b)
        BY <1>2, <2>3, <3>1 DEF PendingBy
      <4>2. cmd.branch = b
        BY <4>1 DEF Sent
      <4>3. d.hasLabel <=> b \in blockerLabels'
        BY <2>4, <2>5, <4>2
      <4>4. QED
        BY <2>4, <4>1, <4>3 DEF PendingBy
    <3>2. \A s \in {d} : /\ s.kind # "comment"
                         /\ s.kind = "decided" => s.cmd \in asked /\ (s.hasLabel <=> s.cmd.branch \in blockerLabels')
                         /\ s.kind = "label" => s.sender = Bot
      BY <2>3, <2>4, <2>5
    <3>3. \A b \in Branches \ touched :
              /\ ~failed' /\ PendingBy(h, TRUE, b) /\ b \in ExistingBranches =>
                    b \in blockerLabels' \/ \E s \in {d} : PendingBy(s, TRUE, b)
              /\ ~failed' /\ PendingBy(h, FALSE, b) =>
                    b \notin blockerLabels' \/ \E s \in {d} : PendingBy(s, FALSE, b)
      BY <3>1
    <3>4. \A b \in Branches \ touched :
              /\ b \in blockerLabels' \ blockerLabels => b \in ExistingBranches /\ Asked(TRUE, b)
              /\ b \in blockerLabels \ blockerLabels' => Asked(FALSE, b)
      BY <2>5
    <3>5. failed' \in {failed, TRUE} /\ touched' = touched /\ asked' = asked /\ initial' = initial
      BY <2>5
    <3>6. GoesOn(h, {d})
      BY <2>2, <3>2, <3>3, <3>4, <3>5 DEF GoesOn
    <3>7. QED
      BY <1>1, <3>6, FollowStep
  <2>8. PrevailInv'
    <3>1. \A b : Active(d, b) <=> b = cmd.branch
      BY <2>4 DEF Active
    <3>2. \A b : Active(h, b) <=> b \in BranchesOf(h)
      BY <1>2 DEF Active
    <3>3. \A b : Leaves(d, b, blockerLabels') <=> Leaves(h, b, blockerLabels)
      BY <1>2, <2>3, <2>4, <2>5 DEF Leaves
    <3>4. \A b : b # cmd.branch => (b \in blockerLabels' <=> Leaves(h, b, blockerLabels))
      BY <1>2, <2>3, <2>5 DEF Leaves, Does
    <3>5. Knows(d, cmd.branch, blockerLabels')
      BY <2>4, <2>5 DEF Knows
    <3>6. QED
      BY <1>1, <2>2, <2>3, <2>4, <2>5, <3>1, <3>2, <3>3, <3>4, <3>5, PrevailStep
  <2>9. QED
    BY <2>6, <2>7, <2>8 DEF IInv
<1>7. QED
  BY <1>5, <1>6

\* A handler that changes a label and leaves nothing to be done.
LEMMA WriteIInv ==
    ASSUME IInv, NEW h \in BagToSet(deliveries), NEW branch \in Branches, NEW add \in BOOLEAN,
           NEW R \in SUBSET Replies, Write(h, branch, add, R), UNCHANGED <<actions, failed, blockerHistory>>,
           h \notin Replies, h # Event(Bot, branch, add),
           \A b : Active(h, b) <=> b = branch,
           Knows(h, branch, blockerLabels) => (add <=> Leaves(h, branch, blockerLabels)),
           \A b \in Branches \ touched : \A value \in BOOLEAN :
               PendingBy(h, value, b) => b = branch /\ value = add,
           branch \notin touched => Asked(add, branch) /\ (add => branch \in ExistingBranches)
    PROVE  IInv'
<1>1. BlockerTypeOK /\ HandlersInv /\ FollowInv /\ PrevailInv
  BY DEF IInv
<1> DEFINE e == Event(Bot, branch, add)
<1>2. PICK S : /\ Replaced(deliveries, h, S, deliveries')
               /\ S \subseteq R \cup {e} /\ R \subseteq S
  BY <1>1, WriteShape
<1>3. /\ blockerLabels' \subseteq Branches
      /\ \A b \in Branches \ {branch} : b \in blockerLabels' <=> b \in blockerLabels
      /\ branch \in blockerLabels' <=> add
  BY <1>1, WriteShape
<1>4. UNCHANGED <<failed, initial, asked, wanted, touched, overlapped>>
  BY DEF blockerHistory
<1>5. e \in Webhooks /\ e.kind = "label" /\ e.sender = Bot
  BY DEF Event, Webhooks, LabelEvents
<1> HIDE DEF e
<1>6. \A s \in S : /\ s \in Webhooks /\ s.kind \in {"reply", "label"}
                   /\ s.kind = "label" => s.sender = Bot
                   /\ \A b : ~Active(s, b)
  <2>1. \A s \in Replies : s \in Webhooks /\ s.kind = "reply"
    BY DEF Replies, Webhooks
  <2>2. QED
    BY <1>2, <1>5, <2>1 DEF Active
<1>7. h \notin S
  BY <1>2 DEF e
<1>8. BlockerTypeOK'
  <2>1. failed' \in BOOLEAN /\ S \in SUBSET Webhooks
    BY <1>1, <1>4, <1>6 DEF BlockerTypeOK
  <2>2. QED
    BY <1>1, <1>2, <1>3, <2>1, ReplacedTypes
<1>9. HandlersInv' /\ FollowInv'
  <2>1. blockerLabels \subseteq Branches
    BY <1>1 DEF BlockerTypeOK
  <2>2. \A b \in Branches \ touched :
              /\ b \in blockerLabels' \ blockerLabels => b \in ExistingBranches /\ Asked(TRUE, b)
              /\ b \in blockerLabels \ blockerLabels' => Asked(FALSE, b)
    BY <1>3
  <2>3. \A b \in Branches \ touched :
           /\ PendingBy(h, TRUE, b) => b \in blockerLabels'
           /\ PendingBy(h, FALSE, b) => b \notin blockerLabels'
    BY <1>3
  <2>4. GoesOn(h, S)
    BY <1>2, <1>4, <1>6, <2>2, <2>3 DEF GoesOn
  <2>5. QED
    BY <1>1, <2>4, FollowStep
<1>10. PrevailInv'
  BY <1>1, <1>2, <1>3, <1>4, <1>6, <1>7, PrevailStep
<1>11. QED
  BY <1>8, <1>9, <1>10 DEF IInv

LEMMA HandleLabelIInv ==
    ASSUME IInv, NEW h \in BagToSet(deliveries), handleLabel(h)
    PROVE  IInv'
<1>1. BlockerTypeOK /\ HandlersInv
  BY DEF IInv
<1>2. h \in Webhooks /\ h.kind = "decided" /\ UNCHANGED <<actions, failed, blockerHistory>>
  BY <1>1 DEF BlockerTypeOK, handleLabel
<1>3. h.cmd \in Commands /\ h.hasLabel \in BOOLEAN /\ BranchesOf(h) = {h.cmd.branch} /\ h.cmd \in asked
  BY <1>1, <1>2, HandlerIs DEF HandlersInv, Under
<1>4. h.cmd.branch \in Branches /\ h.cmd.add \in BOOLEAN /\ h.cmd = Sent(h.cmd.add, h.cmd.branch)
  BY <1>3 DEF Commands, Sent
<1>5. \A b : Active(h, b) <=> b = h.cmd.branch
  BY <1>2, <1>3 DEF Active
<1>6. \A b, add : PendingBy(h, add, b) => h.cmd.add = add /\ h.cmd.branch = b /\ (h.hasLabel <=> ~add)
  BY <1>2 DEF PendingBy, Sent
<1> DEFINE Acts == \/ ~h.hasLabel /\ h.cmd.add /\ h.cmd.branch \in ExistingBranches
                   \/ h.hasLabel /\ ~h.cmd.add
<1>7. CASE Acts
  <2>1. Write(h, h.cmd.branch, h.cmd.add, {})
    BY <1>7 DEF handleLabel
  <2>2. h \notin Replies /\ h # Event(Bot, h.cmd.branch, h.cmd.add)
    BY <1>2 DEF Replies, Event
  <2>3. h.cmd.add <=> Leaves(h, h.cmd.branch, blockerLabels)
    BY <1>2, <1>7 DEF Leaves, Does
  <2>4. Asked(h.cmd.add, h.cmd.branch) /\ (h.cmd.add => h.cmd.branch \in ExistingBranches)
    BY <1>3, <1>4, <1>7 DEF Asked
  <2>5. QED
    BY <1>2, <1>4, <1>5, <1>6, <2>1, <2>2, <2>3, <2>4, WriteIInv
<1>8. CASE ~Acts
  <2>1. Ends(h) /\ blockerLabels' = blockerLabels
    BY <1>8 DEF handleLabel
  <2>2. \A b : /\ b \in ExistingBranches => ~PendingBy(h, TRUE, b)
               /\ ~PendingBy(h, FALSE, b)
    BY <1>6, <1>8
  <2>3. \A b : Active(h, b) /\ Knows(h, b, blockerLabels) => (b \in blockerLabels <=> Leaves(h, b, blockerLabels))
    BY <1>2, <1>5, <1>8 DEF Knows, Leaves, Does
  <2>4. QED
    BY <1>2, <2>1, <2>2, <2>3, EndsIInv
<1>9. QED
  BY <1>7, <1>8

LEMMA HandleManualLabellingIInv ==
    ASSUME ReleaseBlockerAssumption, IInv, NEW h \in BagToSet(deliveries), handleManualLabelling(h)
    PROVE  IInv'
<1>1. BlockerTypeOK /\ HandlersInv
  BY DEF IInv
<1>2. h \in Webhooks /\ h.kind = "label" /\ UNCHANGED <<actions, failed, blockerHistory>>
  BY <1>1 DEF BlockerTypeOK, handleManualLabelling
<1>3. h.branch \in Branches /\ h.added \in BOOLEAN /\ BranchesOf(h) = {h.branch}
  BY <1>2, HandlerIs
<1>4. \A b, add : ~PendingBy(h, add, b)
  BY <1>2 DEF PendingBy
<1>5. CASE h.sender = Bot
  <2>1. Ends(h) /\ blockerLabels' = blockerLabels
    BY <1>5 DEF handleManualLabelling
  <2>2. \A b : ~Active(h, b)
    BY <1>2, <1>5 DEF Active
  <2>3. QED
    BY <1>2, <1>4, <2>1, <2>2, EndsIInv
<1>6. CASE h.sender # Bot
  <2>1. Write(h, h.branch, ~h.added, {[kind |-> "reply", branch |-> h.branch]})
    BY <1>6 DEF handleManualLabelling
  <2>2. {[kind |-> "reply", branch |-> h.branch]} \in SUBSET Replies
    BY <1>3 DEF Replies
  <2>3. h \notin Replies /\ h # Event(Bot, h.branch, ~h.added)
    BY <1>2, <1>6 DEF Replies, Event
  <2>4. h.branch \in touched
    BY <1>1, <1>2, <1>6 DEF HandlersInv, Under
  <2>5. \A b : Active(h, b) <=> b = h.branch
    BY <1>2, <1>3, <1>6 DEF Active
  <2>6. ~h.added <=> Leaves(h, h.branch, blockerLabels)
    BY <1>2 DEF Leaves
  <2>7. QED
    BY <1>2, <1>3, <1>4, <2>1, <2>2, <2>3, <2>4, <2>5, <2>6, WriteIInv
<1>7. QED
  BY <1>5, <1>6

LEMMA ExplainIInv ==
    ASSUME IInv, NEW h \in BagToSet(deliveries), Explain(h)
    PROVE  IInv'
<1>1. h.kind = "reply" /\ Ends(h) /\ UNCHANGED <<blockerLabels, actions, failed, blockerHistory>>
  BY DEF Explain
<1>2. \A b : ~Active(h, b) /\ ~PendingBy(h, TRUE, b) /\ ~PendingBy(h, FALSE, b)
  BY <1>1 DEF Active, PendingBy
<1>3. QED
  BY <1>1, <1>2, EndsIInv

\* After a failure only what was done counts.
LEMMA AbortIInv ==
    ASSUME IInv, NEW h \in BagToSet(deliveries), Abort(h)
    PROVE  IInv'
<1>1. BlockerTypeOK /\ HandlersInv /\ FollowInv
  BY DEF IInv
<1>2. Ends(h) /\ failed' = TRUE /\ UNCHANGED <<blockerLabels, actions, blockerHistory>>
  BY DEF Abort
<1>3. Replaced(deliveries, h, {}, deliveries')
  BY <1>1, <1>2, EndsShape
<1>4. UNCHANGED <<blockerLabels, initial, asked, touched>>
  BY <1>2 DEF blockerHistory
<1>5. BlockerTypeOK'
  <2>1. blockerLabels' \subseteq Branches /\ failed' \in BOOLEAN /\ {} \in SUBSET Webhooks
    BY <1>1, <1>2, <1>4 DEF BlockerTypeOK
  <2>2. QED
    BY <1>1, <1>2, <1>3, <2>1, ReplacedTypes
<1>6. HandlersInv' /\ FollowInv'
  <2>1. \A b \in Branches \ touched :
              /\ b \in blockerLabels' \ blockerLabels => b \in ExistingBranches /\ Asked(TRUE, b)
              /\ b \in blockerLabels \ blockerLabels' => Asked(FALSE, b)
    BY <1>4
  <2>2. \A b \in Branches \ touched :
              /\ ~failed' /\ PendingBy(h, TRUE, b) /\ b \in ExistingBranches =>
                    b \in blockerLabels' \/ \E s \in {} : PendingBy(s, TRUE, b)
              /\ ~failed' /\ PendingBy(h, FALSE, b) =>
                    b \notin blockerLabels' \/ \E s \in {} : PendingBy(s, FALSE, b)
    BY <1>2
  <2>3. GoesOn(h, {})
    BY <1>2, <1>3, <1>4, <2>1, <2>2 DEF GoesOn
  <2>4. QED
    BY <1>1, <2>3, FollowStep
<1>7. PrevailInv'
  BY <1>2 DEF PrevailInv
<1>8. QED
  BY <1>5, <1>6, <1>7 DEF IInv

-----------------------------------------------------------------------------
\* A comment is a handler more: of branches that none is about, or overlapping.
LEMMA CommentIInv ==
    ASSUME ReleaseBlockerAssumption, IInv, NEW user \in People, NEW body \in BlockerComments, CommentOnItem(user, body)
    PROVE  IInv'
<1>1. BlockerTypeOK /\ HandlersInv /\ FollowInv /\ PrevailInv
  BY DEF IInv
<1> DEFINE e == [kind |-> "comment", user |-> user, body |-> body]
           heeded == IF user \in Approvers THEN CommandOf(body) ELSE {}
<1>2. /\ actions < MaxActions /\ actions' = actions + 1
      /\ deliveries' = deliveries (+) SetToBag({e})
      /\ asked' = asked \cup heeded
      /\ wanted' = (wanted \cup {c.branch : c \in {c \in heeded : c.add /\ c.branch \in ExistingBranches}})
                   \ {c.branch : c \in {c \in heeded : ~c.add}}
      /\ overlapped' = overlapped \cup (BranchesOf(e) \cap UnderWay)
      /\ blockerLabels' = blockerLabels /\ failed' = failed /\ initial' = initial /\ touched' = touched
  BY DEF CommentOnItem
<1>3. /\ e \in Webhooks /\ e.kind = "comment" /\ e.user = user /\ e.body = body
      /\ BranchesOf(e) = {body[i].branch : i \in DOMAIN body}
  <2>1. e \in CommentEvents
    BY DEF CommentEvents
  <2>2. e.kind = "comment" /\ e.user = user /\ e.body = body
    OBVIOUS
  <2>3. BranchesOf(e) = {body[i].branch : i \in DOMAIN body}
    BY <2>2 DEF BranchesOf
  <2>4. QED
    BY <2>1, <2>2, <2>3 DEF Webhooks
<1>4. /\ heeded \subseteq Commands
      /\ \A c, d \in heeded : c = d
      /\ \A c \in heeded : c.branch \in BranchesOf(e)
      /\ user \in Approvers => heeded = CommandOf(body)
      /\ user \notin Approvers => heeded = {}
  BY <1>3, CommandIs
<1> HIDE DEF e, heeded
<1>5. /\ IsABag(deliveries') /\ DOMAIN deliveries' = DOMAIN deliveries \cup {e}
      /\ \A g \in DOMAIN deliveries : g # e => deliveries'[g] = deliveries[g]
      /\ e \notin DOMAIN deliveries => deliveries'[e] = 1
  <2>1. IsABag(deliveries)
    BY <1>1 DEF BlockerTypeOK
  <2>2. Added(deliveries, {e}, deliveries')
    BY <1>2, <2>1, BagAdds
  <2>3. QED
    BY <2>2 DEF Added
<1>6. \A b : b \in wanted' <=> /\ \/ b \in wanted
                                  \/ \E c \in heeded : c.branch = b /\ c.add /\ c.branch \in ExistingBranches
                               /\ ~\E c \in heeded : c.branch = b /\ ~c.add
  BY <1>2
<1>7. BlockerTypeOK'
  <2>1. BranchesOf(e) \subseteq Branches
    <3>1. body \in Seq(Commands)
      BY DEF ReleaseBlockerAssumption
    <3>2. \A i \in DOMAIN body : body[i] \in Commands
      BY <3>1
    <3>3. QED
      BY <1>3, <3>2 DEF Commands
  <2>2. wanted' \subseteq Branches
    <3>1. \A c \in heeded : c.branch \in Branches
      BY <1>4 DEF Commands
    <3>2. wanted \subseteq Branches
      BY <1>1 DEF BlockerTypeOK
    <3>3. QED
      BY <1>6, <3>1, <3>2
  <2>3. actions' \in 0..MaxActions
    BY <1>1, <1>2 DEF BlockerTypeOK, ReleaseBlockerAssumption
  <2>4. QED
    BY <1>1, <1>2, <1>3, <1>4, <1>5, <2>1, <2>2, <2>3 DEF BlockerTypeOK, BagToSet
<1>8. HandlersInv'
  BY <1>1, <1>2, <1>3, <1>4, <1>5 DEF HandlersInv, Under, BagToSet
<1>9. ASSUME NEW add \in BOOLEAN, NEW b, Asked(add, b)', ~Asked(add, b)
      PROVE  Pending(add, b)'
  <2>1. Sent(add, b) \in heeded
    BY <1>2, <1>9 DEF Asked
  <2>2. PendingBy(e, add, b)
    BY <1>3, <1>4, <2>1 DEF PendingBy
  <2>3. QED
    BY <1>5, <2>2 DEF Pending, BagToSet
<1>10. \A add, b : Pending(add, b) => Pending(add, b)'
  BY <1>5 DEF Pending, BagToSet
<1>11. \A add, b : Asked(add, b) => Asked(add, b)'
  BY <1>2 DEF Asked
<1>12. FollowInv'
  <2>1. \A h \in Under("decided")' : h \in Under("decided")
    BY <1>3, <1>5 DEF Under, BagToSet
  <2>2. ASSUME NEW b \in Branches \ touched
        PROVE  /\ b \in blockerLabels \ initial => b \in ExistingBranches /\ Asked(TRUE, b)'
               /\ b \in initial \ blockerLabels => Asked(FALSE, b)'
               /\ ~Asked(FALSE, b)' =>
                     /\ \A h \in Under("decided")' : h.cmd.branch = b /\ h.hasLabel => b \in blockerLabels
                     /\ ~failed /\ Asked(TRUE, b)' /\ b \in ExistingBranches => b \in blockerLabels \/ Pending(TRUE, b)'
               /\ ~Asked(TRUE, b)' =>
                     /\ \A h \in Under("decided")' : h.cmd.branch = b /\ ~h.hasLabel => b \notin blockerLabels
                     /\ ~failed /\ Asked(FALSE, b)' => b \notin blockerLabels \/ Pending(FALSE, b)'
    <3>1. /\ b \in blockerLabels \ initial => b \in ExistingBranches /\ Asked(TRUE, b)
          /\ b \in initial \ blockerLabels => Asked(FALSE, b)
          /\ ~Asked(FALSE, b) =>
                /\ \A h \in Under("decided") : h.cmd.branch = b /\ h.hasLabel => b \in blockerLabels
                /\ ~failed /\ Asked(TRUE, b) /\ b \in ExistingBranches => b \in blockerLabels \/ Pending(TRUE, b)
          /\ ~Asked(TRUE, b) =>
                /\ \A h \in Under("decided") : h.cmd.branch = b /\ ~h.hasLabel => b \notin blockerLabels
                /\ ~failed /\ Asked(FALSE, b) => b \notin blockerLabels \/ Pending(FALSE, b)
      BY <1>1 DEF FollowInv
    <3>2. QED
      BY <1>9, <1>10, <1>11, <2>1, <3>1
  <2>3. QED
    BY <1>2, <2>2 DEF FollowInv
<1>13. PrevailInv'
  <2>1. ASSUME ~failed, NEW b \in Branches \ overlapped'
        PROVE  /\ \A h, g \in DOMAIN deliveries' : Active(h, b) /\ Active(g, b) => h = g
               /\ (\A h \in DOMAIN deliveries' : ~Active(h, b)) => (b \in blockerLabels <=> b \in wanted')
               /\ \A h \in DOMAIN deliveries' : Active(h, b) =>
                     /\ deliveries'[h] = 1
                     /\ Leaves(h, b, blockerLabels) <=> b \in wanted'
                     /\ Knows(h, b, blockerLabels)
    <3>1. b \in Branches \ overlapped
      BY <1>2
    <3>2. /\ \A h, g \in DOMAIN deliveries : Active(h, b) /\ Active(g, b) => h = g
          /\ (\A h \in DOMAIN deliveries : ~Active(h, b)) => (b \in blockerLabels <=> b \in wanted)
          /\ \A h \in DOMAIN deliveries : Active(h, b) =>
                /\ deliveries[h] = 1
                /\ Leaves(h, b, blockerLabels) <=> b \in wanted
                /\ Knows(h, b, blockerLabels)
      BY <1>1, <2>1, <3>1 DEF PrevailInv, BagToSet
    <3>3. Active(e, b) <=> b \in BranchesOf(e)
      BY <1>3 DEF Active
    <3>4. CASE b \in BranchesOf(e)
      <4>1. b \notin UnderWay
        BY <1>2, <2>1, <3>4
      <4>2. \A h \in DOMAIN deliveries : b \notin BranchesOf(h)
        BY <4>1 DEF UnderWay, BagToSet
      <4>3. (\A h \in DOMAIN deliveries : ~Active(h, b)) /\ e \notin DOMAIN deliveries
        BY <3>4, <4>2 DEF Active
      <4>4. b \in blockerLabels <=> b \in wanted
        BY <3>2, <4>3
      <4>5. \A c \in heeded : Does(c, b) <=> c.branch = b /\ (c.add => c.branch \in ExistingBranches)
        BY DEF Does
      <4>6. Leaves(e, b, blockerLabels) <=> \/ \E c \in heeded : Does(c, b) /\ c.add
                                            \/ b \in blockerLabels /\ \A c \in heeded : ~Does(c, b)
        BY <1>3, <1>4 DEF Leaves
      <4>7. Leaves(e, b, blockerLabels) <=> b \in wanted'
        BY <1>4, <1>6, <4>4, <4>5, <4>6
      <4>8. Knows(e, b, blockerLabels)
        BY <1>3 DEF Knows
      <4>9. QED
        BY <1>5, <3>3, <3>4, <4>3, <4>7, <4>8
    <3>5. CASE b \notin BranchesOf(e)
      <4>1. b \in wanted' <=> b \in wanted
        BY <1>4, <1>6, <3>5
      <4>2. QED
        BY <1>5, <3>2, <3>3, <3>5, <4>1
    <3>6. QED
      BY <3>4, <3>5
  <2>2. QED
    BY <1>2, <2>1 DEF PrevailInv, BagToSet
<1>14. QED
  BY <1>7, <1>8, <1>12, <1>13 DEF IInv

LEMMA ChangeByHandIInv ==
    ASSUME ReleaseBlockerAssumption, IInv, NEW user \in People, NEW branch \in Branches,
           ChangeByHand(user, branch)
    PROVE  IInv'
<1>1. BlockerTypeOK /\ HandlersInv /\ FollowInv /\ PrevailInv
  BY DEF IInv
<1> DEFINE e == Event(user, branch, branch \notin blockerLabels)
<1>2. /\ actions < MaxActions /\ actions' = actions + 1
      /\ blockerLabels' = IF branch \in blockerLabels THEN blockerLabels \ {branch} ELSE blockerLabels \cup {branch}
      /\ deliveries' = deliveries (+) SetToBag({e})
      /\ touched' = touched \cup {branch}
      /\ overlapped' = overlapped \cup ({branch} \cap UnderWay)
      /\ failed' = failed /\ initial' = initial /\ asked' = asked /\ wanted' = wanted
  BY DEF ChangeByHand
<1>3. /\ e \in Webhooks /\ e.kind = "label" /\ e.sender = user /\ e.branch = branch
      /\ e.added <=> branch \notin blockerLabels
      /\ BranchesOf(e) = {branch}
  <2>1. e \in LabelEvents
    BY DEF Event, LabelEvents
  <2>2. e.kind = "label" /\ e.sender = user /\ e.branch = branch /\ (e.added <=> branch \notin blockerLabels)
    BY Zenon DEF Event
  <2>3. BranchesOf(e) = {branch}
    BY <2>2 DEF BranchesOf
  <2>4. QED
    BY <2>1, <2>2, <2>3 DEF Webhooks
<1> HIDE DEF e
<1>4. /\ IsABag(deliveries') /\ DOMAIN deliveries' = DOMAIN deliveries \cup {e}
      /\ \A g \in DOMAIN deliveries : g # e => deliveries'[g] = deliveries[g]
      /\ e \notin DOMAIN deliveries => deliveries'[e] = 1
  <2>1. IsABag(deliveries)
    BY <1>1 DEF BlockerTypeOK
  <2>2. Added(deliveries, {e}, deliveries')
    BY <1>2, <2>1, BagAdds
  <2>3. QED
    BY <2>2 DEF Added
<1>5. \A b : b # branch => (b \in blockerLabels' <=> b \in blockerLabels)
  BY <1>2
<1>6. branch \in blockerLabels' <=> branch \notin blockerLabels
  BY <1>2
<1>7. BlockerTypeOK'
  <2>1. blockerLabels' \subseteq Branches /\ touched' \subseteq Branches /\ overlapped' \subseteq Branches
    BY <1>1, <1>2 DEF BlockerTypeOK
  <2>2. actions' \in 0..MaxActions
    BY <1>1, <1>2 DEF BlockerTypeOK, ReleaseBlockerAssumption
  <2>3. QED
    BY <1>1, <1>2, <1>3, <1>4, <2>1, <2>2 DEF BlockerTypeOK, BagToSet
<1>8. HandlersInv'
  BY <1>1, <1>2, <1>3, <1>4 DEF HandlersInv, Under, BagToSet
<1>9. FollowInv'
  <2>1. \A h \in Under("decided")' : h \in Under("decided")
    BY <1>3, <1>4 DEF Under, BagToSet
  <2>2. \A add, b : Pending(add, b) => Pending(add, b)'
    BY <1>4 DEF Pending, BagToSet
  <2>3. \A add, b : Asked(add, b)' = Asked(add, b)
    BY <1>2 DEF Asked
  <2>4. ASSUME NEW b \in Branches \ touched'
        PROVE  /\ b \in blockerLabels' \ initial => b \in ExistingBranches /\ Asked(TRUE, b)
               /\ b \in initial \ blockerLabels' => Asked(FALSE, b)
               /\ ~Asked(FALSE, b) =>
                     /\ \A h \in Under("decided")' : h.cmd.branch = b /\ h.hasLabel => b \in blockerLabels'
                     /\ ~failed /\ Asked(TRUE, b) /\ b \in ExistingBranches => b \in blockerLabels' \/ Pending(TRUE, b)'
               /\ ~Asked(TRUE, b) =>
                     /\ \A h \in Under("decided")' : h.cmd.branch = b /\ ~h.hasLabel => b \notin blockerLabels'
                     /\ ~failed /\ Asked(FALSE, b) => b \notin blockerLabels' \/ Pending(FALSE, b)'
    <3>1. b \in Branches \ touched /\ (b \in blockerLabels' <=> b \in blockerLabels)
      BY <1>2, <1>5
    <3>2. /\ b \in blockerLabels \ initial => b \in ExistingBranches /\ Asked(TRUE, b)
          /\ b \in initial \ blockerLabels => Asked(FALSE, b)
          /\ ~Asked(FALSE, b) =>
                /\ \A h \in Under("decided") : h.cmd.branch = b /\ h.hasLabel => b \in blockerLabels
                /\ ~failed /\ Asked(TRUE, b) /\ b \in ExistingBranches => b \in blockerLabels \/ Pending(TRUE, b)
          /\ ~Asked(TRUE, b) =>
                /\ \A h \in Under("decided") : h.cmd.branch = b /\ ~h.hasLabel => b \notin blockerLabels
                /\ ~failed /\ Asked(FALSE, b) => b \notin blockerLabels \/ Pending(FALSE, b)
      BY <1>1, <3>1 DEF FollowInv
    <3>3. QED
      BY <2>1, <2>2, <3>1, <3>2
  <2>5. QED
    BY <1>2, <2>3, <2>4 DEF FollowInv
<1>10. PrevailInv'
  <2>1. ASSUME ~failed, NEW b \in Branches \ overlapped'
        PROVE  /\ \A h, g \in DOMAIN deliveries' : Active(h, b) /\ Active(g, b) => h = g
               /\ (\A h \in DOMAIN deliveries' : ~Active(h, b)) => (b \in blockerLabels' <=> b \in wanted)
               /\ \A h \in DOMAIN deliveries' : Active(h, b) =>
                     /\ deliveries'[h] = 1
                     /\ Leaves(h, b, blockerLabels') <=> b \in wanted
                     /\ Knows(h, b, blockerLabels')
    <3>1. b \in Branches \ overlapped
      BY <1>2
    <3>2. /\ \A h, g \in DOMAIN deliveries : Active(h, b) /\ Active(g, b) => h = g
          /\ (\A h \in DOMAIN deliveries : ~Active(h, b)) => (b \in blockerLabels <=> b \in wanted)
          /\ \A h \in DOMAIN deliveries : Active(h, b) =>
                /\ deliveries[h] = 1
                /\ Leaves(h, b, blockerLabels) <=> b \in wanted
                /\ Knows(h, b, blockerLabels)
      BY <1>1, <2>1, <3>1 DEF PrevailInv, BagToSet
    <3>3. user # Bot
      BY DEF ReleaseBlockerAssumption
    <3>4. Active(e, b) <=> b = branch
      BY <1>3, <3>3 DEF Active
    <3>5. CASE b = branch
      <4>1. b \notin UnderWay
        BY <1>2, <2>1, <3>5
      <4>2. \A h \in DOMAIN deliveries : b \notin BranchesOf(h)
        BY <4>1 DEF UnderWay, BagToSet
      <4>3. (\A h \in DOMAIN deliveries : ~Active(h, b)) /\ e \notin DOMAIN deliveries
        BY <1>3, <3>5, <4>2 DEF Active
      <4>4. Leaves(e, b, blockerLabels') <=> b \in blockerLabels
        BY <1>3, <3>5 DEF Leaves
      <4>5. Knows(e, b, blockerLabels')
        BY <1>3, <1>6, <3>5 DEF Knows
      <4>6. QED
        BY <1>4, <3>2, <3>4, <3>5, <4>3, <4>4, <4>5
    <3>6. CASE b # branch
      <4>1. \A g : (Leaves(g, b, blockerLabels') <=> Leaves(g, b, blockerLabels))
                        /\ (Knows(g, b, blockerLabels') <=> Knows(g, b, blockerLabels))
        BY <1>5, <3>6 DEF Leaves, Knows
      <4>2. QED
        BY <1>4, <1>5, <3>2, <3>4, <3>6, <4>1
    <3>7. QED
      BY <3>5, <3>6
  <2>2. QED
    BY <1>2, <2>1 DEF PrevailInv, BagToSet
<1>11. QED
  BY <1>7, <1>8, <1>9, <1>10 DEF IInv

-----------------------------------------------------------------------------
LEMMA InitIInv == ReleaseBlockerAssumption /\ BlockerInit => IInv
<1> SUFFICES ASSUME ReleaseBlockerAssumption, BlockerInit PROVE IInv
  OBVIOUS
<1>1. IsABag(deliveries) /\ DOMAIN deliveries = {}
  BY DEF BlockerInit, EmptyBag, SetToBag, IsABag
<1>2. 0 \in 0..MaxActions
  BY DEF ReleaseBlockerAssumption
<1>3. BlockerTypeOK
  BY <1>1, <1>2 DEF BlockerInit, BlockerTypeOK, BagToSet
<1>4. HandlersInv /\ FollowInv /\ PrevailInv
  BY <1>1 DEF BlockerInit, HandlersInv, FollowInv, PrevailInv, Under, BagToSet, Asked
<1>5. QED
  BY <1>3, <1>4 DEF IInv

LEMMA NextIInv == ReleaseBlockerAssumption /\ IInv /\ [BlockerNext]_blockerVars => IInv'
<1> SUFFICES ASSUME ReleaseBlockerAssumption, IInv, [BlockerNext]_blockerVars PROVE IInv'
  OBVIOUS
<1>1. ASSUME NEW user \in People, NEW body \in BlockerComments, CommentOnItem(user, body) PROVE IInv'
  BY <1>1, CommentIInv
<1>2. ASSUME NEW user \in People, NEW branch \in Branches, ChangeByHand(user, branch) PROVE IInv'
  BY <1>2, ChangeByHandIInv
<1>3. ASSUME NEW h \in BagToSet(deliveries), Handle(h) PROVE IInv'
  BY <1>3, HandleCommentIInv, HandleLabelIInv, HandleManualLabellingIInv, ExplainIInv DEF Handle
<1>4. ASSUME NEW h \in BagToSet(deliveries), Abort(h) PROVE IInv'
  BY <1>4, AbortIInv
<1>5. CASE UNCHANGED blockerVars
  <2>1. UNCHANGED <<blockerLabels, deliveries, actions, failed, initial, asked, wanted, touched, overlapped>>
    BY <1>5 DEF blockerVars, blockerHistory
  <2>2. BlockerTypeOK'
    BY <2>1 DEF IInv, BlockerTypeOK
  <2>3. HandlersInv' /\ PrevailInv'
    BY <2>1 DEF IInv, HandlersInv, PrevailInv, Under
  <2>4. FollowInv'
    BY <2>1 DEF IInv, FollowInv, Under, Pending, Asked
  <2>5. QED
    BY <2>2, <2>3, <2>4 DEF IInv
<1>6. QED
  BY <1>1, <1>2, <1>3, <1>4, <1>5 DEF BlockerNext, HandleSome

LEMMA Invariant == ASSUME ReleaseBlockerAssumption PROVE BlockerSpec => []IInv
<1>1. BlockerInit => IInv
  BY InitIInv
<1>2. IInv /\ [BlockerNext]_blockerVars => IInv'
  BY NextIInv
<1>3. QED
  BY <1>1, <1>2, PTL DEF BlockerSpec

-----------------------------------------------------------------------------
\* The plugin's handlers are of the kinds of webhooks and steps there are.
THEOREM Types == ASSUME ReleaseBlockerAssumption PROVE BlockerSpec => []BlockerTypeOK
<1>1. IInv => BlockerTypeOK
  BY DEF IInv
<1>2. QED
  BY <1>1, Invariant, PTL

\* A release-blocker label nobody changed by hand appears and goes only as approvers
\* asked, in every interleaving of handleEvent's goroutines and whichever of them die,
\* and commands that agree are not lost.
THEOREM CommandsAreFollowed ==
    ASSUME ReleaseBlockerAssumption
    PROVE  BlockerSpec => []UntouchedLabelsFollowCommands
<1>1. IInv => UntouchedLabelsFollowCommands
  <2> SUFFICES ASSUME IInv, NEW b \in Branches \ touched
               PROVE  /\ b \in blockerLabels \ initial => b \in ExistingBranches /\ Asked(TRUE, b)
                      /\ b \in initial \ blockerLabels => Asked(FALSE, b)
                      /\ BlockerAtRest /\ ~failed =>
                            /\ Asked(TRUE, b) /\ ~Asked(FALSE, b) /\ b \in ExistingBranches => b \in blockerLabels
                            /\ Asked(FALSE, b) /\ ~Asked(TRUE, b) => b \notin blockerLabels
    BY DEF UntouchedLabelsFollowCommands, Asked, Sent
  <2>1. BlockerAtRest => ~Pending(TRUE, b) /\ ~Pending(FALSE, b)
    BY EmptyIs DEF BlockerAtRest, IInv, BlockerTypeOK, Pending, BagToSet
  <2>2. QED
    BY <2>1 DEF IInv, FollowInv
<1>2. QED
  BY <1>1, Invariant, PTL

\* When nobody acts on a label while the plugin is at it, and nothing failed, the
\* labels are as the commands said, whatever was changed by hand.
THEOREM CommandsDoPrevail ==
    ASSUME ReleaseBlockerAssumption
    PROVE  BlockerSpec => []CommandsPrevail
<1>1. IInv => CommandsPrevail
  <2> SUFFICES ASSUME IInv, BlockerAtRest, ~failed, NEW b \in Branches \ overlapped
               PROVE  b \in blockerLabels <=> b \in wanted
    BY DEF CommandsPrevail
  <2>1. DOMAIN deliveries = {}
    BY EmptyIs DEF BlockerAtRest, IInv, BlockerTypeOK
  <2>2. QED
    BY <2>1 DEF IInv, PrevailInv, BagToSet
<1>2. QED
  BY <1>1, Invariant, PTL

-----------------------------------------------------------------------------
\* Comments come before the commands decided on and what people do to labels, and these
\* before replies and the bot's own events.
Rank(h) == CASE h.kind = "comment" -> 3
             [] h.kind = "decided" -> 2
             [] h.kind = "label" /\ h.sender # Bot -> 2
             [] OTHER -> 1

\* A handler puts finitely many webhooks of lower rank, or none, in the place of its own.
HandledForLess(h) ==
    \/ Ends(h)
    \/ \E more \in SUBSET Webhooks :
          IsFiniteSet(more) /\ Becomes(h, more) /\ \A g \in more : Rank(g) < Rank(h)
WorkShrinks == HandleSome => \E h \in BagToSet(deliveries) : HandledForLess(h)

\* A write adds the bot's own event to what is left to do.
LEMMA WriteShrinks ==
    ASSUME NEW h \in Webhooks, NEW b \in Branches, NEW add \in BOOLEAN, Rank(h) = 2,
           NEW successors \in SUBSET Replies, IsFiniteSet(successors), Write(h, b, add, successors)
    PROVE  HandledForLess(h)
<1> DEFINE all == successors \cup {Event(Bot, b, add)}
<1>1. /\ Event(Bot, b, add) \in Webhooks /\ Rank(Event(Bot, b, add)) = 1
      /\ \A r \in Replies : r \in Webhooks /\ Rank(r) = 1
  BY DEF Event, Webhooks, LabelEvents, Replies, Rank
<1>2. IsFiniteSet(all)
  BY FS_AddElement
<1>3. Becomes(h, successors) \/ Becomes(h, all)
  BY DEF Write
<1>4. all \subseteq Webhooks /\ \A g \in all : Rank(g) = 1
  BY <1>1
<1> QED  BY <1>1, <1>2, <1>3, <1>4 DEF HandledForLess

\* The safety half of ComesToRest: every step of a handler leaves less to do, in the order of
\* bags by rank, as the plugin does not answer its own changes; that order is well-founded.
THEOREM WorkEnds ==
    ASSUME ReleaseBlockerAssumption
    PROVE  BlockerSpec => [][WorkShrinks]_blockerVars
<1>1. ASSUME BlockerTypeOK, NEW h \in BagToSet(deliveries), Handle(h)
      PROVE  HandledForLess(h)
  <2>1. h \in Webhooks
    BY <1>1 DEF BlockerTypeOK
  <2>2. CASE HandleComment(h)
    <3>1. h.kind = "comment" /\ h.body \in BlockerComments
      BY <2>1, <2>2, HandlerIs DEF HandleComment
    <3>2. CommandOf(h.body) \subseteq Commands
      BY <3>1, CommandIs
    <3>3. SUFFICES ASSUME NEW cmd \in Commands,
                          Becomes(h, {[kind |-> "decided", cmd |-> cmd, hasLabel |-> cmd.branch \in blockerLabels]})
                   PROVE  HandledForLess(h)
      BY <2>2, <3>2 DEF HandleComment, HandledForLess
    <3> DEFINE d == [kind |-> "decided", cmd |-> cmd, hasLabel |-> cmd.branch \in blockerLabels]
    <3>4. d \in Webhooks /\ Rank(d) = 2 /\ Rank(h) = 3
      BY <3>1 DEF Webhooks, DecidedCommands, Rank
    <3>5. IsFiniteSet({d})
      BY FS_Singleton
    <3> QED  BY <3>3, <3>4, <3>5 DEF HandledForLess
  <2>3. CASE handleLabel(h)
    <3>1. h.kind = "decided" /\ h.cmd \in Commands /\ Rank(h) = 2
      BY <2>1, <2>3, HandlerIs DEF handleLabel, Rank
    <3>2. h.cmd.branch \in Branches /\ h.cmd.add \in BOOLEAN
      BY <3>1 DEF Commands
    <3>3. Ends(h) \/ Write(h, h.cmd.branch, h.cmd.add, {})
      BY <2>3 DEF handleLabel
    <3> QED  BY <2>1, <3>1, <3>2, <3>3, WriteShrinks, FS_EmptySet DEF HandledForLess
  <2>4. CASE handleManualLabelling(h)
    <3>1. h.kind = "label" /\ h.branch \in Branches /\ h.added \in BOOLEAN
      BY <2>1, <2>4, HandlerIs DEF handleManualLabelling
    <3>2. CASE h.sender = Bot
      BY <2>4, <3>2 DEF handleManualLabelling, HandledForLess
    <3>3. CASE h.sender # Bot
      <4> DEFINE r == [kind |-> "reply", branch |-> h.branch]
      <4>1. Write(h, h.branch, ~h.added, {r})
        BY <2>4, <3>3 DEF handleManualLabelling
      <4>2. {r} \in SUBSET Replies /\ IsFiniteSet({r})
        <5>1. r \in Replies
          BY <3>1 DEF Replies
        <5> HIDE DEF r
        <5> QED  BY <5>1, FS_Singleton
      <4>3. Rank(h) = 2
        BY <3>1, <3>3 DEF Rank
      <4> HIDE DEF r
      <4> QED  BY <2>1, <3>1, <4>1, <4>2, <4>3, WriteShrinks
    <3> QED  BY <3>2, <3>3
  <2>5. CASE Explain(h)
    BY <2>5 DEF Explain, HandledForLess
  <2> QED  BY <1>1, <2>2, <2>3, <2>4, <2>5 DEF Handle
<1>2. IInv => BlockerTypeOK
  BY DEF IInv
<1>3. IInv /\ [BlockerNext]_blockerVars => [WorkShrinks]_blockerVars
  BY <1>1, <1>2 DEF WorkShrinks, HandleSome
<1> QED  BY <1>3, Invariant, PTL DEF BlockerSpec

-----------------------------------------------------------------------------
(***************************************************************************)
(* The phased plugin.                                                      *)
(***************************************************************************)

\* Whoever waits for tests is ready, and a webhook that will ask for them is handled: one of
\* the labels that came last, whose handler has not looked at the other one yet, or any
\* that has decided to ask.
DueInv ==
    request = "due" =>
        /\ Ready
        /\ manualRequired # {} /\ failures = 0 =>
              \E h \in ToSet(handlers) :
                 \/ h.pc = "labels" /\ h.action = "labeled" /\ h.label \in {"lgtm", "approved"}
                 \/ h.pc \in {"pullRequest", "presubmits", "comment"}

PhasedIInv == TypeOK /\ DueInv

-----------------------------------------------------------------------------
\* What is left of the webhooks when one is done, or comes.
LEMMA WebhooksLeft ==
    ASSUME NEW s \in Seq(Handlers), NEW i \in DOMAIN s
    PROVE  /\ RemoveAt(s, i) \in Seq(Handlers)
           /\ Len(RemoveAt(s, i)) = Len(s) - 1
           /\ ToSet(RemoveAt(s, i)) \subseteq ToSet(s)
           /\ \A k \in DOMAIN s : k # i => s[k] \in ToSet(RemoveAt(s, i))
<1> DEFINE r == RemoveAt(s, i)
<1>1. r = SubSeq(s, 1, i - 1) \o SubSeq(s, i + 1, Len(s))
  BY DEF RemoveAt
<1>2. r \in Seq(Handlers) /\ Len(r) = Len(s) - 1
  BY <1>1
<1>3. \A k \in 1 .. Len(r) : r[k] = IF k < i THEN s[k] ELSE s[k + 1]
  BY <1>1
<1>4. ToSet(r) \subseteq ToSet(s)
  BY <1>2, <1>3 DEF ToSet
<1>5. ASSUME NEW k \in DOMAIN s, k # i PROVE s[k] \in ToSet(r)
  <2>1. CASE k < i
    BY <2>1, <1>2, <1>3 DEF ToSet
  <2>2. CASE k > i
    <3>1. k - 1 \in 1 .. Len(r) /\ r[k - 1] = s[k]
      BY <2>2, <1>2, <1>3
    <3> QED  BY <3>1, <1>2 DEF ToSet
  <2> QED  BY <1>5, <2>1, <2>2
<1> QED  BY <1>2, <1>4, <1>5

LEMMA WebhookComes ==
    ASSUME NEW s \in Seq(Handlers), NEW h \in Handlers
    PROVE  /\ Append(s, h) \in Seq(Handlers) /\ Len(Append(s, h)) = Len(s) + 1
           /\ ToSet(Append(s, h)) = ToSet(s) \cup {h}
<1> DEFINE r == Append(s, h)
<1>1. r \in Seq(Handlers) /\ Len(r) = Len(s) + 1
  OBVIOUS
<1>2. \A k \in 1 .. Len(s) : r[k] = s[k]
  OBVIOUS
<1>3. r[Len(s) + 1] = h
  OBVIOUS
<1>4. ToSet(r) \subseteq ToSet(s) \cup {h}
  BY <1>1, <1>2, <1>3 DEF ToSet
<1>5. ToSet(s) \subseteq ToSet(r)
  BY <1>1, <1>2 DEF ToSet
<1>6. h \in ToSet(r)
  BY <1>1, <1>3 DEF ToSet
<1> QED  BY <1>1, <1>4, <1>5, <1>6

-----------------------------------------------------------------------------
LEMMA PhasedInitIInv == ASSUME PhasedAssumption, Init PROVE PhasedIInv
<1>1. handlers \in Seq(Handlers) /\ Len(handlers) = 0 /\ DOMAIN handlers = {}
  BY DEF Init
<1>2. ToSet(handlers) = {}
  BY <1>1 DEF ToSet
<1> QED  BY <1>1, <1>2 DEF PhasedAssumption, Init, PhasedIInv, TypeOK, DueInv, States, Labels

LEMMA AddLabelIInv ==
    ASSUME PhasedAssumption, PhasedIInv, NEW l \in Labels, AddLabel(l)
    PROVE  PhasedIInv'
<1> DEFINE new == [action |-> "labeled", label |-> l, pc |-> "labels"]
<1>1. handlers \in Seq(Handlers) /\ handlers' = Append(handlers, new) /\ Len(handlers) < MaxHandlers
  BY DEF PhasedIInv, TypeOK, AddLabel, Webhook
<1>2. new \in Handlers
  BY DEF Handlers
<1>3. /\ handlers' \in Seq(Handlers) /\ Len(handlers') = Len(handlers) + 1
      /\ ToSet(handlers') = ToSet(handlers) \cup {new}
  BY <1>1, <1>2, WebhookComes
<1>4. TypeOK'
  <2>1. Len(handlers') <= MaxHandlers
    BY <1>1, <1>3 DEF PhasedAssumption
  <2>2. \A h \in ToSet(handlers') : h.pc \in {"presubmits", "comment"} => target' = "main"
    BY <1>3 DEF PhasedIInv, TypeOK, AddLabel
  <2> QED  BY <1>3, <2>1, <2>2 DEF PhasedAssumption, PhasedIInv, TypeOK, AddLabel, Change
<1>5. DueInv'
  <2> SUFFICES ASSUME request' = "due" PROVE DueInv'
    BY DEF DueInv
  <2>1. CASE request = "due"
    BY <2>1, <1>3 DEF PhasedIInv, DueInv, AddLabel, Ready, ReadyAs, Reviewed
  <2>2. CASE request # "due"
    <3>1. Ready' /\ l \in {"lgtm", "approved"} /\ new \in ToSet(handlers')
      BY <2>2, <1>3 DEF AddLabel, Ready, ReadyAs, Reviewed
    <3> QED  BY <3>1 DEF DueInv
  <2> QED  BY <2>1, <2>2
<1> QED  BY <1>4, <1>5 DEF PhasedIInv

LEMMA PushIInv ==
    ASSUME PhasedAssumption, PhasedIInv, Push
    PROVE  PhasedIInv'
<1> DEFINE new == [action |-> "synchronize", label |-> "", pc |-> "labels"]
<1>0. /\ Change /\ mergeable' \in BOOLEAN /\ DueWhile(ReadyAs(state, mergeable', labels))
      /\ UNCHANGED <<target, state, labels, failures>>
  BY Zenon DEF Push
<1>1. handlers \in Seq(Handlers) /\ handlers' = Append(handlers, new) /\ Len(handlers) < MaxHandlers
  BY DEF PhasedIInv, TypeOK, Push, Webhook
<1>2. new \in Handlers
  BY DEF Handlers
<1>9. new.pc = "labels"
  OBVIOUS
<1> HIDE DEF new
<1>3. /\ handlers' \in Seq(Handlers) /\ Len(handlers') = Len(handlers) + 1
      /\ ToSet(handlers') = ToSet(handlers) \cup {new}
  BY <1>1, <1>2, WebhookComes
<1>4. TypeOK'
  <2>1. Len(handlers') <= MaxHandlers
    BY <1>1, <1>3 DEF PhasedAssumption
  <2>2. \A h \in ToSet(handlers') : h.pc \in {"presubmits", "comment"} => target' = "main"
    BY <1>0, <1>3, <1>9 DEF PhasedIInv, TypeOK
  <2> QED  BY <1>0, <1>3, <2>1, <2>2 DEF PhasedAssumption, PhasedIInv, TypeOK, Change, DueWhile
<1>5. DueInv'
  BY <1>0, <1>3 DEF PhasedIInv, DueInv, DueWhile, Ready, ReadyAs, manualRequired
<1> QED  BY <1>4, <1>5 DEF PhasedIInv

LEMMA RemoveLabelIInv ==
    ASSUME PhasedAssumption, PhasedIInv, NEW l \in Labels, RemoveLabel(l)
    PROVE  PhasedIInv'
<1>1. TypeOK'
  BY DEF PhasedAssumption, PhasedIInv, TypeOK, RemoveLabel, Change
<1>2. DueInv'
  BY DEF PhasedIInv, DueInv, RemoveLabel, Ready, ReadyAs, Reviewed, manualRequired
<1> QED  BY <1>1, <1>2 DEF PhasedIInv

LEMMA ChangeStateIInv ==
    ASSUME PhasedAssumption, PhasedIInv, NEW new \in ToStates, ChangeState(new)
    PROVE  PhasedIInv'
<1>1. TypeOK'
  BY DEF PhasedAssumption, PhasedIInv, TypeOK, ChangeState, Change, DueWhile
<1>2. DueInv'
  BY DEF PhasedIInv, DueInv, ChangeState, DueWhile, Ready, ReadyAs, manualRequired
<1> QED  BY <1>1, <1>2 DEF PhasedIInv

\* A handler of the phased plugin ends: a webhook that is done asks for nothing more.
LEMMA HandlerEnds ==
    ASSUME PhasedAssumption, PhasedIInv, NEW i \in DOMAIN handlers, Done(i),
           UNCHANGED <<target, state, mergeable, labels, changes>>,
           request' \in {"none", "due", "made"}, failures' \in 0..MaxFailures,
           request' = "due" => request = "due",
           request' = "due" /\ failures' = 0 /\ manualRequired # {} =>
              /\ failures = 0
              /\ ~(/\ handlers[i].pc = "labels" /\ handlers[i].action = "labeled"
                   /\ handlers[i].label \in {"lgtm", "approved"})
              /\ handlers[i].pc \notin {"pullRequest", "presubmits", "comment"}
    PROVE  PhasedIInv'
<1>1. handlers \in Seq(Handlers) /\ handlers' = RemoveAt(handlers, i)
  BY DEF PhasedIInv, TypeOK, Done
<1>2. /\ handlers' \in Seq(Handlers) /\ Len(handlers') = Len(handlers) - 1
      /\ ToSet(handlers') \subseteq ToSet(handlers)
      /\ \A k \in DOMAIN handlers : k # i => handlers[k] \in ToSet(handlers')
  BY <1>1, WebhooksLeft
<1>3. TypeOK'
  <2>1. Len(handlers') <= MaxHandlers
    BY <1>1, <1>2 DEF PhasedAssumption, PhasedIInv, TypeOK
  <2>2. \A h \in ToSet(handlers') : h.pc \in {"presubmits", "comment"} => target' = "main"
    BY <1>2 DEF PhasedIInv, TypeOK
  <2> QED  BY <1>2, <2>1, <2>2 DEF PhasedIInv, TypeOK
<1>4. DueInv'
  <2> SUFFICES ASSUME request' = "due" PROVE DueInv'
    BY DEF DueInv
  <2>1. Ready'
    BY DEF PhasedIInv, DueInv, Ready, ReadyAs, Reviewed
  <2>2. ASSUME manualRequired # {}, failures' = 0
        PROVE  \E h \in ToSet(handlers') :
                  \/ h.pc = "labels" /\ h.action = "labeled" /\ h.label \in {"lgtm", "approved"}
                  \/ h.pc \in {"pullRequest", "presubmits", "comment"}
    <3>1. PICK k \in DOMAIN handlers :
             \/ /\ handlers[k].pc = "labels" /\ handlers[k].action = "labeled"
                /\ handlers[k].label \in {"lgtm", "approved"}
             \/ handlers[k].pc \in {"pullRequest", "presubmits", "comment"}
      BY <2>2 DEF PhasedIInv, DueInv, ToSet
    <3>2. k # i
      BY <2>2, <3>1
    <3> QED  BY <3>1, <3>2, <1>2
  <2> QED  BY <2>1, <2>2 DEF DueInv, manualRequired
<1> QED  BY <1>3, <1>4 DEF PhasedIInv

\* ... or goes on, to ask for tests in the end.
LEMMA HandlerGoesOn ==
    ASSUME PhasedAssumption, PhasedIInv, NEW i \in DOMAIN handlers,
           NEW pc \in {"pullRequest", "presubmits", "comment"}, GoOn(i, pc),
           pc \in {"presubmits", "comment"} => target = "main",
           UNCHANGED <<target, state, mergeable, labels, request, changes, failures>>
    PROVE  PhasedIInv'
<1> DEFINE s == handlers
<1>0. PICK r : r = handlers'
  OBVIOUS
<1>1. s \in Seq(Handlers) /\ r = [s EXCEPT ![i].pc = pc] /\ i \in DOMAIN s
  BY <1>0 DEF PhasedIInv, TypeOK, GoOn
<1>2. /\ r \in Seq(Handlers) /\ Len(r) = Len(s)
      /\ r[i] \in ToSet(r) /\ r[i].pc = pc
      /\ \A h \in ToSet(r) : h \in ToSet(s) \/ h = r[i]
      /\ \A k \in DOMAIN s : k # i => s[k] \in ToSet(r)
  <2> DEFINE g == [s[i] EXCEPT !.pc = pc]
  <2>1. g \in Handlers /\ g.pc = pc
    <3>1. s[i] \in Handlers
      BY <1>1
    <3> QED  BY <3>1 DEF Handlers
  <2>2. r = [s EXCEPT ![i] = g]
    BY <1>1
  <2> HIDE DEF s, g
  <2>3. r \in Seq(Handlers) /\ Len(r) = Len(s) /\ DOMAIN r = DOMAIN s
    BY <1>1, <2>1, <2>2
  <2>4. r[i] = g /\ \A k \in DOMAIN s : k # i => r[k] = s[k]
    BY <1>1, <2>2
  <2>5. \A h \in ToSet(r) : h \in ToSet(s) \/ h = g
    BY <1>1, <2>3, <2>4 DEF ToSet
  <2>6. r[i] \in ToSet(r) /\ \A k \in DOMAIN s : k # i => s[k] \in ToSet(r)
    BY <1>1, <2>3, <2>4 DEF ToSet
  <2> QED  BY <2>1, <2>3, <2>4, <2>5, <2>6
<1>3. TypeOK'
  <2>1. Len(handlers') <= MaxHandlers
    BY <1>0, <1>1, <1>2 DEF PhasedAssumption, PhasedIInv, TypeOK
  <2>2. \A h \in ToSet(r) : h.pc \in {"presubmits", "comment"} => target = "main"
    <3> SUFFICES ASSUME NEW h \in ToSet(r), h.pc \in {"presubmits", "comment"}
                 PROVE  target = "main"
      OBVIOUS
    <3>1. CASE h \in ToSet(s)
      BY <3>1 DEF PhasedIInv, TypeOK
    <3>2. CASE h = r[i]
      BY <3>2, <1>2
    <3> QED  BY <3>1, <3>2, <1>2
  <2> QED  BY <1>0, <1>1, <1>2, <2>1, <2>2 DEF PhasedIInv, TypeOK
<1>4. DueInv'
  BY <1>0, <1>1, <1>2 DEF PhasedIInv, DueInv, Ready, ReadyAs, Reviewed, manualRequired
<1> QED  BY <1>3, <1>4 DEF PhasedIInv

LEMMA StepIInv ==
    ASSUME PhasedAssumption, PhasedIInv, NEW i \in 1..MaxHandlers, Step(i)
    PROVE  PhasedIInv'
<1>1. i \in DOMAIN handlers
  BY DEF Step, ReadLabels, ReadPullRequest, LoadPresubmits, RequestTests, At
<1>2. handlers[i] \in Handlers
  BY <1>1 DEF PhasedIInv, TypeOK
<1>3. /\ request \in {"none", "due", "made"} /\ failures \in 0..MaxFailures
      /\ handlers[i].pc \in {"presubmits", "comment"} => target = "main"
  BY <1>1 DEF PhasedIInv, TypeOK, ToSet
<1>4. CASE ReadLabels(i)
  <2>1. CASE shouldRunPhase2(handlers[i].action, handlers[i].label)
    BY <1>1, <1>4, <2>1, HandlerGoesOn DEF ReadLabels
  <2>2. CASE ~shouldRunPhase2(handlers[i].action, handlers[i].label)
    <3>1. request = "due" => ~(/\ handlers[i].pc = "labels" /\ handlers[i].action = "labeled"
                               /\ handlers[i].label \in {"lgtm", "approved"})
      BY <2>2 DEF PhasedIInv, DueInv, Ready, ReadyAs, Reviewed, shouldRunPhase2
    <3> QED  BY <1>1, <1>3, <1>4, <2>2, <3>1, HandlerEnds DEF ReadLabels, At
  <2> QED  BY <2>1, <2>2
<1>5. CASE ReadPullRequest(i)
  <2>1. CASE target = "main" /\ isCandidate
    BY <1>1, <1>5, <2>1, HandlerGoesOn DEF ReadPullRequest
  <2>2. CASE ~(target = "main" /\ isCandidate)
    <3>1. request # "due"
      BY <2>2 DEF PhasedIInv, DueInv, Ready, ReadyAs, isCandidate
    <3> QED  BY <1>1, <1>3, <1>5, <2>2, <3>1, HandlerEnds DEF ReadPullRequest
  <2> QED  BY <2>1, <2>2
<1>6. CASE LoadPresubmits(i)
  <2>1. CASE manualRequired # {}
    BY <1>1, <1>3, <1>6, <2>1, HandlerGoesOn DEF LoadPresubmits, At
  <2>2. CASE manualRequired = {}
    BY <1>1, <1>3, <1>6, <2>2, HandlerEnds DEF LoadPresubmits
  <2> QED  BY <2>1, <2>2
<1>7. CASE RequestTests(i)
  <2>1. request' \in {"none", "made"}
    BY <1>7 DEF RequestTests
  <2> QED  BY <1>1, <1>3, <1>7, <2>1, HandlerEnds DEF RequestTests
<1> QED  BY <1>4, <1>5, <1>6, <1>7 DEF Step

LEMMA PhasedNextIInv == ASSUME PhasedAssumption, PhasedIInv, [Next]_vars PROVE PhasedIInv'
<1>1. ASSUME NEW i \in 1..MaxHandlers, Fail(i) PROVE PhasedIInv'
  <2>1. failures' \in 0..MaxFailures /\ failures' # 0
    BY <1>1 DEF PhasedAssumption, PhasedIInv, TypeOK, Fail
  <2>2. request \in {"none", "due", "made"}
    BY DEF PhasedIInv, TypeOK
  <2> QED  BY <1>1, <2>1, <2>2, HandlerEnds DEF Fail
<1>2. CASE UNCHANGED vars
  <2>1. UNCHANGED <<target, state, mergeable, labels, handlers, request, changes, failures>>
    BY <1>2 DEF vars
  <2> QED  BY <2>1 DEF PhasedIInv, TypeOK, DueInv, Ready, ReadyAs, Reviewed, manualRequired
<1>3. ASSUME NEW l \in Labels, AddLabel(l) \/ RemoveLabel(l) PROVE PhasedIInv'
  <2>1. CASE AddLabel(l)
    BY <2>1, AddLabelIInv
  <2>2. CASE RemoveLabel(l)
    BY <2>2, RemoveLabelIInv
  <2> QED  BY <1>3, <2>1, <2>2
<1>4. ASSUME NEW new \in ToStates, ChangeState(new) PROVE PhasedIInv'
  BY <1>4, ChangeStateIInv
<1> QED  BY <1>1, <1>2, <1>3, <1>4, PushIInv, StepIInv DEF Next

LEMMA PhasedInvariant == ASSUME PhasedAssumption PROVE Spec => []PhasedIInv
  BY PhasedInitIInv, PhasedNextIInv, PTL DEF Spec

\* The phased plugin's state stays in its type: only handlers of pull requests to main
\* go on to the presubmits.
THEOREM PhasedTypes == ASSUME PhasedAssumption PROVE Spec => []TypeOK
  BY PhasedInvariant, PTL DEF PhasedIInv

\* The safety half of ReviewedIsTested: as long as a pull request waits for its tests and no
\* call failed, a webhook is under way that will ask for them, whichever of the two labels'
\* webhooks overtook the other and whatever is pushed meanwhile.
THEOREM DueIsUnderWay == ASSUME PhasedAssumption PROVE Spec => []DueInv
  BY PhasedInvariant, PTL DEF PhasedIInv
=============================================================================
