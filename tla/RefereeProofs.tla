---------------------------- MODULE RefereeProofs ----------------------------
(***************************************************************************)
(* No pull request is held that was not retested too often, and the gauge  *)
(* is exact while nothing overlaps: for any comments, pushes, dates,       *)
(* overlapping webhooks, failures and restarts.                            *)
(***************************************************************************)
EXTENDS Referee, FiniteSetTheorems, SequenceTheorems, TLAPS

\* As TypeOK; the timeline begins with a commit.
TypeInv ==
    /\ setting \in Settings
    /\ state \in {"open", "draft", "closed"}
    /\ timeline \in Seq(Items) /\ Len(timeline) \in 1..MaxItems /\ timeline[1].kind = "push"
    /\ label \in BOOLEAN
    /\ seenByHold \in 0..Len(timeline)
    /\ handlers \in Seq(Handlers) /\ Len(handlers) <= setting.maxHandlers
    /\ gauge \in 0..MaxItems \cup {None}
    /\ failures \in 0..setting.maxFailures

\* What handler h has counted is what a prefix of the timeline holds; it goes on to
\* hold for a comment, too many retests and no earlier hold.
Counted(h, items) ==
    /\ h.pc # "timeline" /\ h.event # "remove" =>
          /\ h.seen \in 1..Len(items)
          /\ h.seen <= PageSize => /\ h.count = NumberOfRetestComments(SubSeq(items, 1, h.seen))
                                   /\ h.botHeld = HeldByBot(SubSeq(items, 1, h.seen))
    /\ h.pc \in {"labels", "comment"} => h.event = "comment" /\ h.count >= MaxRetests
    /\ h.pc = "comment" => ~h.botHeld

CountInv == \A i \in DOMAIN handlers : Counted(handlers[i], timeline)

\* A hold follows what its handler had seen, and is earned.
Earned(j, items) ==
    items[j].kind = "botHold" =>
        /\ items[j].seen \in 1 .. j - 1
        /\ items[j].seen <= PageSize =>
              LET known == 1..items[j].seen
                  pushes == {p \in known : items[p].kind = "push"}
              IN  /\ MaxRetests <= Cardinality({c \in known : /\ items[c].kind \in {"retest", "test"}
                                                              /\ \A p \in pushes : items[c].at > items[p].at})
                  /\ \A i \in 1 .. j - 1 :
                        items[i].kind = "botHold" /\ i \in known => \E p \in pushes : items[p].at >= items[i].at

HoldInv == \A j \in 1..Len(timeline) : Earned(j, timeline)

Exact(g, items) == NumberOfRetestComments(items) = IF g = None THEN 0 ELSE g

\* Undisturbed, a handler either will count what is there, or has.
Alone(h, g, items) ==
    /\ h.event # "initial"
    /\ h.event = "remove" => state # "open" /\ h.pc = "gauge"
    /\ h.pc = "gauge" /\ h.event # "remove" => h.count = NumberOfRetestComments(items)
    /\ h.pc \in {"labels", "comment"} => Exact(g, items)

GaugeInv ==
    Undisturbed /\ Len(timeline) <= PageSize =>
        /\ state = "open" /\ handlers = <<>> => Exact(gauge, timeline)
        /\ \A i \in DOMAIN handlers : Alone(handlers[i], gauge, timeline)

IInv == TypeInv /\ CountInv /\ HoldInv /\ GaugeInv

-----------------------------------------------------------------------------
\* The latest of some times is one of them and not before any.
LEMMA LatestIs ==
    ASSUME NEW T \in SUBSET (0..MaxTime), T # {}
    PROVE  Latest(T) \in T /\ \A u \in T : u <= Latest(T)
<1> DEFINE Later(t) == {u \in T : u > t}
           all == {Later(t) : t \in T}
<1>1. MaxTime \in Nat
  BY RefereeAssumption
<1>2. IsFiniteSet(T) /\ \A t \in T : t \in Nat
  <2>1. 0 \in Int /\ MaxTime \in Int
    BY <1>1
  <2>2. IsFiniteSet(0..MaxTime)
    BY <2>1, FS_Interval
  <2>3. IsFiniteSet(T)
    BY <2>2, FS_Subset
  <2>4. QED
    BY <1>1, <2>3
<1>3. \A t \in T : Later(t) \in SUBSET T /\ IsFiniteSet(Later(t))
  BY <1>2, FS_Subset
<1>4. all \subseteq FiniteSubsetsOf(T) /\ all # {}
  BY <1>3 DEF FiniteSubsetsOf
<1> HIDE DEF all
<1>5. PICK x \in all : \A y \in all : <<y, x>> \notin StrictSubsetOrdering(T)
  BY <1>4, FS_StrictSubsetOrderingWellFounded, WFMin
<1> USE DEF all
<1>6. PICK t \in T : x = Later(t)
  BY <1>5
<1>7. ASSUME NEW u \in T, u > t
      PROVE  FALSE
  <2>1. ASSUME NEW v \in T, v > u
        PROVE  v > t
    BY <1>2, <1>7, <2>1
  <2>2. Later(u) \subseteq Later(t) /\ u \in Later(t) /\ u \notin Later(u)
    <3>1. ~(u > u)
      BY <1>2
    <3>2. QED
      BY <1>7, <2>1, <3>1
  <2>3. Later(u) \in all /\ Later(u) \in SUBSET T /\ Later(t) \in SUBSET T
    OBVIOUS
  <2>4. <<Later(u), x>> \in StrictSubsetOrdering(T)
    BY <1>6, <2>2, <2>3 DEF StrictSubsetOrdering
  <2>5. QED
    BY <1>5, <2>3, <2>4
<1>8. \A u \in T : u <= t
  BY <1>1, <1>7
<1>9. QED
  BY <1>8 DEF Latest

\* Timelines that begin with a commit.
Timelines == {items \in Seq(Items) : Len(items) >= 1 /\ items[1].kind = "push"}

LEMMA ItemsOf ==
    ASSUME NEW items \in Seq(Items)
    PROVE  /\ DOMAIN items = 1..Len(items) /\ Len(items) \in Nat
           /\ \A i \in 1..Len(items) : items[i] \in Items /\ items[i].at \in 0..MaxTime
           /\ ToSet(items) = {items[i] : i \in 1..Len(items)}
<1>1. DOMAIN items = 1..Len(items) /\ Len(items) \in Nat /\ \A i \in 1..Len(items) : items[i] \in Items
  BY LenProperties, ElementOfSeq
<1>2. QED
  BY <1>1 DEF Items, ToSet

\* determineLastPush is the date of a push, and no push is later.
LEMMA LastPushIs ==
    ASSUME NEW items \in Timelines
    PROVE  /\ \E p \in 1..Len(items) : items[p].kind = "push" /\ items[p].at = determineLastPush(items)
           /\ \A p \in 1..Len(items) : items[p].kind = "push" => items[p].at <= determineLastPush(items)
           /\ determineLastPush(items) \in Nat
<1> DEFINE times == {i.at : i \in {j \in ToSet(items) : j.kind = "push"}}
<1>1. /\ items \in Seq(Items) /\ 1 \in 1..Len(items) /\ items[1].kind = "push"
      /\ \A i \in 1..Len(items) : items[i].at \in 0..MaxTime
      /\ ToSet(items) = {items[i] : i \in 1..Len(items)}
  BY ItemsOf DEF Timelines
<1>2. /\ \A t \in times : \E p \in 1..Len(items) : items[p].kind = "push" /\ items[p].at = t
      /\ \A p \in 1..Len(items) : items[p].kind = "push" => items[p].at \in times
  BY <1>1
<1>3. determineLastPush(items) = Latest(times)
  BY DEF determineLastPush
<1> HIDE DEF times
<1>4. times \in SUBSET (0..MaxTime) /\ times # {}
  BY <1>1, <1>2
<1>5. Latest(times) \in times /\ \A u \in times : u <= Latest(times)
  BY <1>4, LatestIs
<1>6. determineLastPush(items) \in times /\ \A t \in times : t \in Nat /\ t <= determineLastPush(items)
  BY <1>3, <1>4, <1>5, RefereeAssumption
<1>7. QED
  BY <1>2, <1>6

\* The comments after the last push are those after every push.
LEMMA AfterEveryPush ==
    ASSUME NEW items \in Timelines, NEW kinds
    PROVE  AfterLastPush(items, kinds) =
              {c \in 1..Len(items) : /\ items[c].kind \in kinds
                                     /\ \A p \in 1..Len(items) : items[p].kind = "push" => items[c].at > items[p].at}
<1>1. PICK p \in 1..Len(items) : items[p].kind = "push" /\ items[p].at = determineLastPush(items)
  BY LastPushIs
<1>2. /\ \A q \in 1..Len(items) : items[q].kind = "push" => items[q].at <= determineLastPush(items)
      /\ determineLastPush(items) \in Nat
  BY LastPushIs
<1>3. DOMAIN items = 1..Len(items) /\ \A i \in 1..Len(items) : items[i].at \in Int
  BY ItemsOf, RefereeAssumption DEF Timelines
<1>4. QED
  BY <1>1, <1>2, <1>3 DEF AfterLastPush

LEMMA CountIsBounded ==
    ASSUME NEW items \in Seq(Items)
    PROVE  NumberOfRetestComments(items) \in 0..Len(items)
<1>1. DOMAIN items = 1..Len(items) /\ Len(items) \in Nat
  BY ItemsOf
<1>2. AfterLastPush(items, {"retest", "test"}) \in SUBSET (1..Len(items))
  BY <1>1 DEF AfterLastPush
<1>3. IsFiniteSet(1..Len(items)) /\ Cardinality(1..Len(items)) = Len(items)
  BY <1>1, FS_Interval
<1>4. QED
  BY <1>1, <1>2, <1>3, FS_Subset, FS_CardinalityType DEF NumberOfRetestComments

\* Only pushes and commands to test change what is counted.
LEMMA OtherItems ==
    ASSUME NEW items \in Timelines, NEW x \in Items, x.kind \notin {"push", "retest", "test"}
    PROVE  NumberOfRetestComments(Append(items, x)) = NumberOfRetestComments(items)
<1> DEFINE more == Append(items, x)
<1>1. /\ items \in Seq(Items) /\ Len(items) \in Nat \ {0} /\ items[1].kind = "push"
  BY ItemsOf DEF Timelines
<1>2. /\ more \in Seq(Items) /\ Len(more) = Len(items) + 1
      /\ \A i \in 1..Len(items) : more[i] = items[i]
      /\ more[Len(items) + 1] = x
  BY <1>1, AppendProperties
<1> HIDE DEF more
<1>3. more \in Timelines
  BY <1>1, <1>2 DEF Timelines
<1>4. AfterLastPush(more, {"retest", "test"}) = AfterLastPush(items, {"retest", "test"})
  <2>1. AfterLastPush(items, {"retest", "test"}) =
           {c \in 1..Len(items) : /\ items[c].kind \in {"retest", "test"}
                                  /\ \A p \in 1..Len(items) : items[p].kind = "push" => items[c].at > items[p].at}
    BY AfterEveryPush
  <2>2. AfterLastPush(more, {"retest", "test"}) =
           {c \in 1..Len(more) : /\ more[c].kind \in {"retest", "test"}
                                 /\ \A p \in 1..Len(more) : more[p].kind = "push" => more[c].at > more[p].at}
    BY <1>3, AfterEveryPush
  <2>3. 1..Len(more) = (1..Len(items)) \cup {Len(items) + 1}
    BY <1>1, <1>2
  <2>4. more[Len(items) + 1].kind \notin {"push", "retest", "test"}
    BY <1>2
  <2>5. ASSUME NEW c \in 1..Len(items)
        PROVE  c \in AfterLastPush(more, {"retest", "test"}) <=> c \in AfterLastPush(items, {"retest", "test"})
    BY <1>2, <2>1, <2>2, <2>3, <2>4, <2>5
  <2>6. Len(items) + 1 \notin AfterLastPush(more, {"retest", "test"})
    BY <2>2, <2>4
  <2>7. /\ AfterLastPush(more, {"retest", "test"}) \subseteq (1..Len(items)) \cup {Len(items) + 1}
        /\ AfterLastPush(items, {"retest", "test"}) \subseteq 1..Len(items)
    BY <2>1, <2>2, <2>3
  <2>8. QED
    BY <2>5, <2>6, <2>7
<1>5. QED
  BY <1>4 DEF NumberOfRetestComments, more

LEMMA PrefixIs ==
    ASSUME NEW items \in Timelines, NEW n \in 1..Len(items)
    PROVE  /\ SubSeq(items, 1, n) \in Timelines /\ Len(SubSeq(items, 1, n)) = n
           /\ \A i \in 1..n : SubSeq(items, 1, n)[i] = items[i]
<1>1. \A i \in 1..n : items[i] \in Items
  BY ItemsOf DEF Timelines
<1>2. n \in Nat \ {0} /\ 1 \in 1..n
  BY ItemsOf DEF Timelines
<1>3. /\ SubSeq(items, 1, n) \in Seq(Items) /\ Len(SubSeq(items, 1, n)) = n
      /\ \A i \in 1..n : SubSeq(items, 1, n)[i] = items[i]
  <2>1. 1 \in Int /\ n \in Int
    BY <1>2
  <2>2. /\ SubSeq(items, 1, n) \in Seq(Items)
        /\ Len(SubSeq(items, 1, n)) = IF 1 <= n THEN n - 1 + 1 ELSE 0
        /\ \A i \in 1 .. n - 1 + 1 : SubSeq(items, 1, n)[i] = items[1 + i - 1]
    BY <1>1, <2>1, SubSeqProperties
  <2>3. QED
    BY <1>2, <2>2
<1>4. items[1].kind = "push" /\ n >= 1
  BY <1>2 DEF Timelines
<1>5. QED
  BY <1>2, <1>3, <1>4 DEF Timelines

LEMMA PrefixStays ==
    ASSUME NEW items \in Timelines, NEW x \in Items, NEW n \in 1..Len(items)
    PROVE  SubSeq(Append(items, x), 1, n) = SubSeq(items, 1, n)
<1> DEFINE more == Append(items, x)
<1>1. items \in Seq(Items) /\ Len(items) \in Nat /\ Len(items) >= 1 /\ items[1].kind = "push"
  BY ItemsOf DEF Timelines
<1>2. /\ more \in Seq(Items) /\ Len(more) = Len(items) + 1
      /\ \A i \in 1..Len(items) : more[i] = items[i]
  BY <1>1, AppendProperties
<1> HIDE DEF more
<1>3. more \in Timelines /\ n \in 1..Len(more)
  BY <1>1, <1>2 DEF Timelines
<1>4. /\ SubSeq(more, 1, n) \in Seq(Items) /\ SubSeq(items, 1, n) \in Seq(Items)
      /\ Len(SubSeq(more, 1, n)) = n /\ Len(SubSeq(items, 1, n)) = n
      /\ \A i \in 1..n : SubSeq(more, 1, n)[i] = SubSeq(items, 1, n)[i]
  BY <1>1, <1>2, <1>3, PrefixIs DEF Timelines
<1>5. SubSeq(more, 1, n) = SubSeq(items, 1, n)
  BY <1>4, SeqEqual
<1>6. QED
  BY <1>5 DEF more

\* Of the handlers without one, each was there.
LEMMA RemoveAtShape ==
    ASSUME NEW S, NEW s \in Seq(S), NEW i \in DOMAIN s
    PROVE  /\ RemoveAt(s, i) \in Seq(S) /\ Len(RemoveAt(s, i)) = Len(s) - 1
           /\ \A k \in DOMAIN RemoveAt(s, i) : \E m \in DOMAIN s : RemoveAt(s, i)[k] = s[m]
<1> DEFINE before == SubSeq(s, 1, i - 1)
           after == SubSeq(s, i + 1, Len(s))
<1>1. Len(s) \in Nat /\ DOMAIN s = 1..Len(s) /\ i \in 1..Len(s) /\ \A m \in 1..Len(s) : s[m] \in S
  BY LenProperties, ElementOfSeq
<1>2. /\ before \in Seq(S) /\ Len(before) = i - 1
      /\ \A k \in 1 .. i - 1 : before[k] = s[k]
  <2>1. \A m \in 1 .. i - 1 : s[m] \in S
    BY <1>1
  <2>2. 1 \in Int /\ i - 1 \in Int
    BY <1>1
  <2>3. QED
    BY <1>1, <2>1, <2>2, SubSeqProperties
<1>3. /\ after \in Seq(S) /\ Len(after) = Len(s) - i
      /\ \A k \in 1 .. Len(s) - i : after[k] = s[k + i]
  <2>1. \A m \in i + 1 .. Len(s) : s[m] \in S
    BY <1>1
  <2>2. i + 1 \in Int /\ Len(s) \in Int
    BY <1>1
  <2>3. QED
    BY <1>1, <2>1, <2>2, SubSeqProperties
<1>4. RemoveAt(s, i) = before \o after
  BY DEF RemoveAt
<1> HIDE DEF before, after
<1>5. /\ before \o after \in Seq(S) /\ Len(before \o after) = Len(s) - 1
      /\ \A k \in 1 .. Len(s) - 1 :
            (before \o after)[k] = IF k <= i - 1 THEN before[k] ELSE after[k - (i - 1)]
  <2>1. /\ before \o after \in Seq(S) /\ Len(before \o after) = Len(before) + Len(after)
        /\ \A k \in 1 .. Len(before) + Len(after) :
              (before \o after)[k] = IF k <= Len(before) THEN before[k] ELSE after[k - Len(before)]
    BY <1>2, <1>3, ConcatProperties
  <2>2. Len(before) + Len(after) = Len(s) - 1
    BY <1>1, <1>2, <1>3
  <2>3. QED
    BY <1>2, <2>1, <2>2
<1>6. ASSUME NEW k \in 1 .. Len(s) - 1
      PROVE  \E m \in 1..Len(s) : (before \o after)[k] = s[m]
  <2>1. CASE k <= i - 1
    BY <1>1, <1>2, <1>5, <2>1
  <2>2. CASE ~(k <= i - 1)
    <3>1. k - (i - 1) \in 1 .. Len(s) - i /\ k - (i - 1) + i = k + 1 /\ k + 1 \in 1..Len(s)
      BY <1>1, <2>2
    <3>2. (before \o after)[k] = s[k + 1]
      BY <1>3, <1>5, <2>2, <3>1
    <3>3. QED
      BY <3>1, <3>2
  <2>3. QED
    BY <2>1, <2>2
<1>7. DOMAIN (before \o after) = 1 .. Len(s) - 1
  BY <1>5, LenProperties
<1>8. QED
  BY <1>1, <1>4, <1>5, <1>6, <1>7

-----------------------------------------------------------------------------
\* What was counted and what was earned stays so when the timeline grows.
LEMMA CountedStays ==
    ASSUME NEW items \in Timelines, NEW x \in Items, NEW h, Counted(h, items)
    PROVE  Counted(h, Append(items, x))
<1>1. Len(Append(items, x)) = Len(items) + 1 /\ Len(items) \in Nat
  BY AppendProperties, ItemsOf DEF Timelines
<1>2. ASSUME h.seen \in 1..Len(items)
      PROVE  SubSeq(Append(items, x), 1, h.seen) = SubSeq(items, 1, h.seen) /\ h.seen \in 1..Len(Append(items, x))
  BY <1>1, <1>2, PrefixStays
<1>3. QED
  BY <1>2 DEF Counted

LEMMA EarnedStays ==
    ASSUME NEW items \in Timelines, NEW x \in Items, NEW j \in 1..Len(items), Earned(j, items)
    PROVE  Earned(j, Append(items, x))
<1> DEFINE more == Append(items, x)
           seen == items[j].seen
<1>1. /\ \A i \in 1..Len(items) : more[i] = items[i]
      /\ Len(items) \in Nat
  BY AppendProperties, ItemsOf DEF Timelines
<1>2. more[j] = items[j] /\ \A i \in 1 .. j - 1 : more[i] = items[i]
  BY <1>1
<1> HIDE DEF more
<1>3. ASSUME items[j].kind = "botHold"
      PROVE  seen \in 1 .. j - 1 /\ \A i \in 1..seen : more[i] = items[i]
  BY <1>1, <1>2, <1>3 DEF Earned
<1>4. ASSUME items[j].kind = "botHold", seen <= PageSize
      PROVE  LET known == 1..seen
                 pushes == {p \in known : more[p].kind = "push"}
             IN  /\ MaxRetests <= Cardinality({c \in known : /\ more[c].kind \in {"retest", "test"}
                                                             /\ \A p \in pushes : more[c].at > more[p].at})
                 /\ \A i \in 1 .. j - 1 :
                       more[i].kind = "botHold" /\ i \in known => \E p \in pushes : more[p].at >= more[i].at
  <2>1. \A i \in 1..seen : more[i] = items[i]
    BY <1>3, <1>4
  <2> DEFINE pushes == {p \in 1..seen : items[p].kind = "push"}
  <2>2. {p \in 1..seen : more[p].kind = "push"} = pushes
    BY <2>1
  <2>3. {c \in 1..seen : more[c].kind \in {"retest", "test"} /\ \A p \in pushes : more[c].at > more[p].at}
           = {c \in 1..seen : items[c].kind \in {"retest", "test"} /\ \A p \in pushes : items[c].at > items[p].at}
    BY <2>1
  <2>4. /\ MaxRetests <= Cardinality({c \in 1..seen : /\ items[c].kind \in {"retest", "test"}
                                                      /\ \A p \in pushes : items[c].at > items[p].at})
        /\ \A i \in 1 .. j - 1 :
              items[i].kind = "botHold" /\ i \in 1..seen => \E p \in pushes : items[p].at >= items[i].at
    BY <1>4 DEF Earned
  <2>5. ASSUME NEW i \in 1 .. j - 1, more[i].kind = "botHold", i \in 1..seen
        PROVE  \E p \in pushes : more[p].at >= more[i].at
    BY <2>1, <2>4, <2>5
  <2>6. MaxRetests <= Cardinality({c \in 1..seen : /\ more[c].kind \in {"retest", "test"}
                                                  /\ \A p \in pushes : more[c].at > more[p].at})
    BY <2>3, <2>4
  <2> HIDE DEF pushes
  <2>7. QED
    BY <2>2, <2>5, <2>6
<1>5. QED
  BY <1>2, <1>3, <1>4 DEF Earned, more

LEMMA Grown ==
    ASSUME IInv, NEW x \in Items, timeline' = Append(timeline, x), Len(timeline) < MaxItems
    PROVE  /\ timeline \in Timelines /\ timeline' \in Seq(Items) /\ Len(timeline') = Len(timeline) + 1
           /\ Len(timeline') \in 1..MaxItems /\ timeline'[1].kind = "push"
           /\ timeline'[Len(timeline')] = x
           /\ \A i \in DOMAIN handlers : Counted(handlers[i], timeline')
           /\ \A j \in 1..Len(timeline) : Earned(j, timeline')
<1>1. timeline \in Seq(Items) /\ Len(timeline) \in 1..MaxItems /\ timeline[1].kind = "push" /\ MaxItems \in Nat
  BY RefereeAssumption DEF IInv, TypeInv
<1>2. timeline \in Timelines
  BY <1>1 DEF Timelines
<1>3. /\ timeline' \in Seq(Items) /\ Len(timeline') = Len(timeline) + 1
      /\ timeline'[1] = timeline[1] /\ timeline'[Len(timeline) + 1] = x
  BY <1>1, AppendProperties
<1>4. \A i \in DOMAIN handlers : Counted(handlers[i], timeline')
  BY <1>2, CountedStays DEF IInv, CountInv
<1>5. \A j \in 1..Len(timeline) : Earned(j, timeline')
  BY <1>2, EarnedStays DEF IInv, HoldInv
<1>6. QED
  BY <1>1, <1>2, <1>3, <1>4, <1>5

\* An item that is no hold of the bot keeps all holds earned.
LEMMA GrownHolds ==
    ASSUME IInv, NEW x \in Items, timeline' = Append(timeline, x), Len(timeline) < MaxItems, x.kind # "botHold"
    PROVE  HoldInv'
<1>1. /\ Len(timeline') = Len(timeline) + 1 /\ timeline'[Len(timeline')] = x
      /\ \A j \in 1..Len(timeline) : Earned(j, timeline')
      /\ Len(timeline) \in Nat
  BY Grown, RefereeAssumption DEF IInv, TypeInv
<1>2. Earned(Len(timeline'), timeline')
  BY <1>1 DEF Earned
<1>3. \A j \in 1..Len(timeline') : j = Len(timeline') \/ j \in 1..Len(timeline)
  BY <1>1
<1>4. QED
  BY <1>1, <1>2, <1>3 DEF HoldInv

\* A webhook arrives: its handler has counted nothing yet.
LEMMA DeliverShape ==
    ASSUME TypeInv, NEW event \in {"comment", "update", "remove", "initial"}, Deliver(event)
    PROVE  /\ handlers' \in Seq(Handlers) /\ Len(handlers') = Len(handlers) + 1 /\ handlers' # <<>>
           /\ DOMAIN handlers' = 1..Len(handlers') /\ Len(handlers) \in Nat
           /\ \A k \in DOMAIN handlers' : handlers'[k] = Webhook(event) \/ \E m \in DOMAIN handlers : handlers'[k] = handlers[m]
           /\ handlers'[Len(handlers')] = Webhook(event)
<1>1. handlers \in Seq(Handlers) /\ Webhook(event) \in Handlers
  BY RefereeAssumption DEF TypeInv, Webhook, Handlers
<1>2. /\ DOMAIN handlers = 1..Len(handlers) /\ Len(handlers) \in Nat
  BY <1>1, LenProperties
<1>3. /\ handlers' \in Seq(Handlers) /\ Len(handlers') = Len(handlers) + 1 /\ handlers' # <<>>
      /\ \A m \in 1..Len(handlers) : handlers'[m] = handlers[m]
      /\ handlers'[Len(handlers) + 1] = Webhook(event)
  BY <1>1, AppendProperties DEF Deliver
<1>4. DOMAIN handlers' = 1..Len(handlers')
  BY <1>3, LenProperties
<1>5. QED
  BY <1>2, <1>3, <1>4

LEMMA WebhookIsCounted ==
    ASSUME NEW event \in {"comment", "update", "remove", "initial"}, NEW items
    PROVE  Counted(Webhook(event), items)
BY DEF Counted, Webhook

\* A handler ends.
LEMMA DoneShape ==
    ASSUME TypeInv, NEW i \in DOMAIN handlers, Done(i)
    PROVE  /\ handlers' \in Seq(Handlers) /\ Len(handlers') = Len(handlers) - 1
           /\ Len(handlers) \in Nat
           /\ \A k \in DOMAIN handlers' : \E m \in DOMAIN handlers : handlers'[k] = handlers[m]
<1>1. handlers \in Seq(Handlers)
  BY DEF TypeInv
<1>2. QED
  BY <1>1, RemoveAtShape, LenProperties DEF Done

\* A handler goes on.
LEMMA StepShape ==
    ASSUME TypeInv, NEW i \in DOMAIN handlers, NEW h \in Handlers, handlers' = [handlers EXCEPT ![i] = h]
    PROVE  /\ handlers' \in Seq(Handlers) /\ Len(handlers') = Len(handlers) /\ handlers' # <<>>
           /\ DOMAIN handlers' = DOMAIN handlers
           /\ \A k \in DOMAIN handlers : handlers'[k] = IF k = i THEN h ELSE handlers[k]
<1>1. handlers \in Seq(Handlers) /\ DOMAIN handlers = 1..Len(handlers) /\ Len(handlers) \in Nat
  BY LenProperties DEF TypeInv
<1>2. /\ handlers' \in Seq(Handlers) /\ Len(handlers') = Len(handlers)
      /\ \A k \in 1..Len(handlers) : handlers'[k] = IF k = i THEN h ELSE handlers[k]
  BY <1>1, ExceptSeq
<1>3. QED
  BY <1>1, <1>2, LenProperties, EmptySeq

\* Undisturbed, there is no more than one handler.
LEMMA OneHandler ==
    ASSUME TypeInv, Undisturbed, NEW i \in DOMAIN handlers
    PROVE  i = 1 /\ Len(handlers) = 1 /\ DOMAIN handlers = {1}
<1>1. handlers \in Seq(Handlers) /\ Len(handlers) <= 1
  BY DEF TypeInv, Undisturbed
<1>2. DOMAIN handlers = 1..Len(handlers) /\ Len(handlers) \in Nat
  BY <1>1, LenProperties
<1>3. QED
  BY <1>1, <1>2

LEMMA NowIs ==
    ASSUME TypeInv
    PROVE  now \in 0..MaxTime
<1> DEFINE times == {item.at : item \in ToSet(timeline)}
<1>1. /\ timeline \in Seq(Items) /\ 1 \in 1..Len(timeline)
  BY RefereeAssumption DEF TypeInv
<1>2. times \in SUBSET (0..MaxTime) /\ times # {}
  BY <1>1, ItemsOf
<1>3. now = Latest(times)
  BY DEF now
<1> HIDE DEF times
<1>4. QED
  BY <1>2, <1>3, LatestIs

-----------------------------------------------------------------------------
LEMMA WriteIInv ==
    ASSUME IInv, NEW kind \in Kinds, kind \in setting.comments, Write(kind)
    PROVE  IInv'
<1>1. /\ TypeInv /\ Len(timeline) \in 1..MaxItems /\ MaxItems \in Nat /\ MaxTime \in Nat
      /\ Len(handlers) \in Nat /\ setting.maxHandlers \in Nat
  BY RefereeAssumption, LenProperties DEF IInv, TypeInv
<1>2. PICK at \in now..MaxTime : timeline' = Append(timeline, [kind |-> kind, at |-> at, seen |-> 0])
  BY DEF Write
<1> DEFINE x == [kind |-> kind, at |-> at, seen |-> 0]
<1>3. /\ Room(IF triggers(kind) THEN 1 ELSE 0)
      /\ IF triggers(kind) THEN Deliver("comment") ELSE handlers' = handlers
      /\ UNCHANGED <<setting, state, label, seenByHold, gauge, failures>>
  BY DEF Write
<1>4. x \in Items /\ x.kind = kind /\ kind # "botHold" /\ kind # "push"
  BY <1>1, <1>2, NowIs DEF Items, Kinds
<1>5. Len(timeline) < MaxItems
  BY <1>1, <1>3 DEF Room
<1> HIDE DEF x
<1>6. /\ timeline \in Timelines /\ timeline' \in Seq(Items) /\ Len(timeline') = Len(timeline) + 1
      /\ Len(timeline') \in 1..MaxItems /\ timeline'[1].kind = "push"
      /\ \A i \in DOMAIN handlers : Counted(handlers[i], timeline')
      /\ timeline' = Append(timeline, x)
  BY <1>2, <1>4, <1>5, Grown DEF x
<1>7. HoldInv'
  BY <1>4, <1>5, <1>6, GrownHolds
<1>8. CASE triggers(kind)
  <2>1. Deliver("comment") /\ Len(handlers) + 1 <= setting.maxHandlers
    BY <1>1, <1>3, <1>8 DEF Room
  <2>2. /\ handlers' \in Seq(Handlers) /\ Len(handlers') = Len(handlers) + 1 /\ handlers' # <<>>
        /\ DOMAIN handlers' = 1..Len(handlers')
        /\ \A k \in DOMAIN handlers' : handlers'[k] = Webhook("comment") \/ \E m \in DOMAIN handlers : handlers'[k] = handlers[m]
        /\ handlers'[Len(handlers')] = Webhook("comment")
    BY <1>1, <2>1, DeliverShape
  <2>3. TypeInv'
    BY <1>1, <1>3, <1>6, <2>1, <2>2 DEF TypeInv
  <2>4. CountInv'
    BY <1>6, <2>2, WebhookIsCounted DEF CountInv
  <2>5. GaugeInv'
    <3>1. ASSUME Undisturbed, NEW k \in DOMAIN handlers'
          PROVE  handlers'[k] = Webhook("comment")
      BY <1>1, <2>1, <2>2, <3>1 DEF Undisturbed
    <3>2. Alone(Webhook("comment"), gauge, timeline)'
      BY DEF Alone, Webhook
    <3>3. Undisturbed' <=> Undisturbed
      BY <1>3 DEF Undisturbed
    <3>4. QED
      BY <2>2, <3>1, <3>2, <3>3 DEF GaugeInv, Alone, Webhook
  <2>6. QED
    BY <1>7, <2>3, <2>4, <2>5 DEF IInv
<1>9. CASE ~triggers(kind)
  <2>1. handlers' = handlers
    BY <1>3, <1>9
  <2>2. TypeInv'
    BY <1>1, <1>3, <1>6, <2>1 DEF TypeInv
  <2>3. CountInv'
    BY <1>6, <2>1 DEF CountInv
  <2>4. GaugeInv'
    <3>1. Undisturbed' <=> Undisturbed
      BY <1>3 DEF Undisturbed
    <3>2. ASSUME Undisturbed
          PROVE  NumberOfRetestComments(timeline') = NumberOfRetestComments(timeline)
      <4>1. kind \notin {"push", "retest", "test"}
        BY <1>4, <1>9, <3>2 DEF triggers, Undisturbed
      <4>2. QED
        BY <1>4, <1>6, <4>1, OtherItems
    <3>3. Len(timeline') <= PageSize => Len(timeline) <= PageSize
      BY <1>1, <1>6, RefereeAssumption
    <3>4. QED
      BY <1>3, <2>1, <3>1, <3>2, <3>3 DEF IInv, GaugeInv, Alone, Exact
  <2>5. QED
    BY <1>7, <2>2, <2>3, <2>4 DEF IInv
<1>10. QED
  BY <1>8, <1>9

LEMMA PushIInv ==
    ASSUME IInv, Push
    PROVE  IInv'
<1>1. /\ TypeInv /\ Len(timeline) \in 1..MaxItems /\ MaxItems \in Nat /\ MaxTime \in Nat
      /\ Len(handlers) \in Nat /\ setting.maxHandlers \in Nat
  BY RefereeAssumption, LenProperties DEF IInv, TypeInv
<1>2. PICK at \in 1..MaxTime : timeline' = Append(timeline, [kind |-> "push", at |-> at, seen |-> 0])
  BY DEF Push
<1> DEFINE x == [kind |-> "push", at |-> at, seen |-> 0]
<1>3. Room(1) /\ Deliver("update") /\ UNCHANGED <<setting, state, label, seenByHold, gauge, failures>>
  BY DEF Push
<1>4. x \in Items /\ x.kind # "botHold"
  BY <1>1, <1>2 DEF Items
<1>5. Len(timeline) < MaxItems /\ Len(handlers) + 1 <= setting.maxHandlers
  BY <1>1, <1>3 DEF Room
<1> HIDE DEF x
<1>6. /\ timeline' \in Seq(Items) /\ Len(timeline') = Len(timeline) + 1
      /\ Len(timeline') \in 1..MaxItems /\ timeline'[1].kind = "push"
      /\ \A i \in DOMAIN handlers : Counted(handlers[i], timeline')
      /\ timeline' = Append(timeline, x)
  BY <1>2, <1>4, <1>5, Grown DEF x
<1>7. HoldInv'
  BY <1>4, <1>5, <1>6, GrownHolds
<1>8. /\ handlers' \in Seq(Handlers) /\ Len(handlers') = Len(handlers) + 1 /\ handlers' # <<>>
      /\ DOMAIN handlers' = 1..Len(handlers')
      /\ \A k \in DOMAIN handlers' : handlers'[k] = Webhook("update") \/ \E m \in DOMAIN handlers : handlers'[k] = handlers[m]
      /\ handlers'[Len(handlers')] = Webhook("update")
  BY <1>1, <1>3, DeliverShape
<1>9. TypeInv'
  BY <1>1, <1>3, <1>5, <1>6, <1>8 DEF TypeInv
<1>10. CountInv'
  BY <1>6, <1>8, WebhookIsCounted DEF CountInv
<1>11. GaugeInv'
  <2>1. ASSUME Undisturbed, NEW k \in DOMAIN handlers'
        PROVE  handlers'[k] = Webhook("update")
    BY <1>1, <1>5, <1>8, <2>1 DEF Undisturbed
  <2>2. Undisturbed' <=> Undisturbed
    BY <1>3 DEF Undisturbed
  <2>3. QED
    BY <1>8, <2>1, <2>2 DEF GaugeInv, Alone, Webhook
<1>12. QED
  BY <1>7, <1>9, <1>10, <1>11 DEF IInv

LEMMA ChangeStateIInv ==
    ASSUME IInv, NEW new \in {"open", "draft", "closed"}, ChangeState(new)
    PROVE  IInv'
<1> DEFINE event == IF new = "open" THEN "update" ELSE "remove"
<1>1. /\ TypeInv /\ Len(handlers) < setting.maxHandlers /\ Deliver(event) /\ state' = new
      /\ UNCHANGED <<setting, timeline, label, seenByHold, gauge, failures>>
      /\ Len(handlers) \in Nat /\ setting.maxHandlers \in Nat
  BY RefereeAssumption, LenProperties DEF ChangeState, IInv, TypeInv
<1>2. event \in {"update", "remove"} /\ (event = "remove" => new # "open")
  OBVIOUS
<1> HIDE DEF event
<1>3. /\ handlers' \in Seq(Handlers) /\ Len(handlers') = Len(handlers) + 1 /\ handlers' # <<>>
      /\ DOMAIN handlers' = 1..Len(handlers')
      /\ \A k \in DOMAIN handlers' : handlers'[k] = Webhook(event) \/ \E m \in DOMAIN handlers : handlers'[k] = handlers[m]
      /\ handlers'[Len(handlers')] = Webhook(event)
  BY <1>1, <1>2, DeliverShape
<1>4. TypeInv'
  BY <1>1, <1>3 DEF TypeInv
<1>5. CountInv'
  BY <1>1, <1>2, <1>3, WebhookIsCounted DEF CountInv, IInv
<1>6. HoldInv'
  BY <1>1 DEF HoldInv, IInv
<1>7. GaugeInv'
  <2>1. ASSUME Undisturbed, NEW k \in DOMAIN handlers'
        PROVE  handlers'[k] = Webhook(event)
    BY <1>1, <1>3, <2>1 DEF Undisturbed
  <2>2. Undisturbed' <=> Undisturbed
    BY <1>1 DEF Undisturbed
  <2>3. QED
    BY <1>1, <1>2, <1>3, <2>1, <2>2 DEF GaugeInv, Alone, Webhook
<1>8. QED
  BY <1>4, <1>5, <1>6, <1>7 DEF IInv

LEMMA HoldPluginIInv ==
    ASSUME IInv, HoldPlugin
    PROVE  IInv'
<1>1. /\ seenByHold < Len(timeline) /\ seenByHold' = seenByHold + 1 /\ label' \in BOOLEAN
      /\ UNCHANGED <<setting, state, timeline, handlers, gauge, failures>>
  BY DEF HoldPlugin
<1>2. TypeInv'
  BY <1>1, RefereeAssumption DEF TypeInv, IInv
<1>3. CountInv' /\ HoldInv'
  BY <1>1 DEF CountInv, HoldInv, IInv
<1>4. GaugeInv'
  BY <1>1 DEF GaugeInv, IInv, Undisturbed, Alone
<1>5. QED
  BY <1>2, <1>3, <1>4 DEF IInv

\* The page of the timeline that a query returns.
LEMMA PageIs ==
    ASSUME TypeInv
    PROVE  /\ timeline \in Timelines /\ fetchTimelineItems \in Timelines
           /\ Len(timeline) \in 1..MaxItems /\ Len(fetchTimelineItems) \in 1..Len(timeline)
           /\ Len(timeline) <= PageSize => /\ fetchTimelineItems = SubSeq(timeline, 1, Len(timeline))
                                           /\ fetchTimelineItems = timeline
<1> DEFINE n == IF Len(timeline) < PageSize THEN Len(timeline) ELSE PageSize
<1>1. /\ timeline \in Seq(Items) /\ Len(timeline) \in 1..MaxItems /\ timeline[1].kind = "push"
      /\ PageSize \in Nat \ {0} /\ MaxItems \in Nat
  BY RefereeAssumption DEF TypeInv
<1>2. timeline \in Timelines
  BY <1>1 DEF Timelines
<1>3. n \in 1..Len(timeline) /\ (Len(timeline) <= PageSize => n = Len(timeline))
  BY <1>1
<1>4. fetchTimelineItems = SubSeq(timeline, 1, n)
  BY DEF fetchTimelineItems
<1> HIDE DEF n
<1>5. fetchTimelineItems \in Timelines /\ Len(fetchTimelineItems) = n
  BY <1>2, <1>3, <1>4, PrefixIs
<1>6. SubSeq(timeline, 1, Len(timeline)) = timeline
  BY <1>1, SubSeqFull
<1>7. QED
  BY <1>1, <1>2, <1>3, <1>4, <1>5, <1>6

\* A handler ends: the gauge is what it leaves, or found.
LEMMA DoneIInv ==
    ASSUME IInv, NEW i \in DOMAIN handlers, Done(i),
           UNCHANGED <<setting, state, timeline, label, seenByHold>>,
           gauge' \in 0..MaxItems \cup {None}, failures' \in 0..setting.maxFailures,
           Undisturbed /\ Len(timeline) <= PageSize /\ state = "open" => Exact(gauge', timeline)
    PROVE  IInv'
<1>1. /\ TypeInv /\ setting' = setting /\ state' = state /\ timeline' = timeline
      /\ label' = label /\ seenByHold' = seenByHold
  BY DEF IInv
<1>2. /\ handlers' \in Seq(Handlers) /\ Len(handlers') = Len(handlers) - 1
      /\ Len(handlers) \in Nat
      /\ \A k \in DOMAIN handlers' : \E m \in DOMAIN handlers : handlers'[k] = handlers[m]
  BY <1>1, DoneShape
<1>3. TypeInv'
  <2>1. Len(handlers') <= setting.maxHandlers
    BY <1>1, <1>2, RefereeAssumption DEF TypeInv
  <2>2. QED
    BY <1>1, <1>2, <2>1 DEF TypeInv
<1>4. CountInv'
  BY <1>1, <1>2 DEF IInv, CountInv
<1>5. HoldInv'
  BY <1>1 DEF IInv, HoldInv
<1>6. GaugeInv'
  <2>1. Undisturbed' <=> Undisturbed
    BY <1>1 DEF Undisturbed
  <2>2. ASSUME Undisturbed
        PROVE  DOMAIN handlers' = {}
    <3>1. Len(handlers') = 0
      BY <1>1, <1>2, <2>2, OneHandler
    <3>2. QED
      BY <1>2, <3>1, LenProperties
  <2>3. QED
    BY <1>1, <2>1, <2>2 DEF GaugeInv
<1>7. QED
  BY <1>3, <1>4, <1>5, <1>6 DEF IInv

\* A handler goes on: it has counted, and undisturbed it is alone.
LEMMA GoesOnIInv ==
    ASSUME IInv, NEW i \in DOMAIN handlers, NEW h \in Handlers, handlers' = [handlers EXCEPT ![i] = h],
           UNCHANGED <<setting, state, timeline, label, seenByHold, failures>>,
           gauge' \in 0..MaxItems \cup {None},
           Counted(h, timeline),
           Undisturbed /\ Len(timeline) <= PageSize => Alone(h, gauge', timeline)
    PROVE  IInv'
<1>1. /\ TypeInv /\ setting' = setting /\ state' = state /\ timeline' = timeline
      /\ label' = label /\ seenByHold' = seenByHold /\ failures' = failures
  BY DEF IInv
<1>2. /\ handlers' \in Seq(Handlers) /\ Len(handlers') = Len(handlers) /\ handlers' # <<>>
      /\ DOMAIN handlers' = DOMAIN handlers
      /\ \A k \in DOMAIN handlers : handlers'[k] = IF k = i THEN h ELSE handlers[k]
  BY <1>1, StepShape
<1>3. TypeInv'
  BY <1>1, <1>2 DEF TypeInv
<1>4. CountInv'
  BY <1>1, <1>2 DEF IInv, CountInv
<1>5. HoldInv'
  BY <1>1 DEF IInv, HoldInv
<1>6. GaugeInv'
  <2>1. Undisturbed' <=> Undisturbed
    BY <1>1 DEF Undisturbed
  <2>2. ASSUME Undisturbed, Len(timeline) <= PageSize, NEW k \in DOMAIN handlers'
        PROVE  Alone(handlers[k], gauge, timeline)'
    <3>1. handlers'[k] = h
      BY <1>1, <1>2, <2>2, OneHandler
    <3>2. QED
      BY <1>1, <2>2, <3>1 DEF Alone
  <2>3. QED
    BY <1>1, <1>2, <2>1, <2>2 DEF GaugeInv
<1>7. QED
  BY <1>3, <1>4, <1>5, <1>6 DEF IInv

LEMMA FetchTimelineIInv ==
    ASSUME IInv, NEW i, FetchTimeline(i)
    PROVE  IInv'
<1> DEFINE items == fetchTimelineItems
           h == [handlers[i] EXCEPT !.pc = "gauge", !.count = NumberOfRetestComments(items),
                                    !.botHeld = HeldByBot(items), !.seen = Len(timeline)]
<1>1. /\ TypeInv /\ i \in DOMAIN handlers /\ handlers[i].pc = "timeline"
      /\ UNCHANGED <<setting, state, timeline, label, seenByHold, gauge, failures>>
      /\ handlers' = [handlers EXCEPT ![i].pc = "gauge",
                                      ![i].count = NumberOfRetestComments(items),
                                      ![i].botHeld = HeldByBot(items),
                                      ![i].seen = Len(timeline)]
  BY DEF FetchTimeline, At, IInv
<1>2. handlers \in Seq(Handlers) /\ DOMAIN handlers = 1..Len(handlers) /\ handlers[i] \in Handlers
  BY <1>1, LenProperties, ElementOfSeq DEF TypeInv
<1>3. /\ timeline \in Timelines /\ items \in Timelines /\ Len(timeline) \in 1..MaxItems
      /\ Len(items) \in 1..Len(timeline)
      /\ Len(timeline) <= PageSize => items = SubSeq(timeline, 1, Len(timeline)) /\ items = timeline
  BY <1>1, PageIs
<1> HIDE DEF items
<1>4. NumberOfRetestComments(items) \in 0..MaxItems
  BY <1>3, CountIsBounded, RefereeAssumption DEF Timelines
<1>5. HeldByBot(items) \in BOOLEAN
  BY DEF HeldByBot
<1>6. Len(timeline) \in 0..MaxItems
  BY <1>3
<1>7. handlers' = [handlers EXCEPT ![i] = h]
  BY <1>1, <1>2
<1>8. /\ h \in Handlers /\ h.pc = "gauge" /\ h.event = handlers[i].event /\ h.seen = Len(timeline)
      /\ h.count = NumberOfRetestComments(items) /\ h.botHeld = HeldByBot(items)
  BY <1>2, <1>4, <1>5, <1>6 DEF Handlers
<1> HIDE DEF h
<1>9. Counted(h, timeline)
  <2>1. ASSUME h.seen <= PageSize
        PROVE  items = SubSeq(timeline, 1, h.seen)
    BY <1>3, <1>8, <2>1
  <2>2. h.seen \in 1..Len(timeline)
    BY <1>3, <1>8
  <2>3. QED
    BY <1>8, <2>1, <2>2 DEF Counted
<1>10. ASSUME Undisturbed, Len(timeline) <= PageSize
       PROVE  Alone(h, gauge', timeline)
  <2>1. Alone(handlers[i], gauge, timeline)
    BY <1>1, <1>10 DEF IInv, GaugeInv
  <2>2. QED
    BY <1>1, <1>3, <1>8, <1>10, <2>1 DEF Alone
<1>11. gauge' \in 0..MaxItems \cup {None}
  BY <1>1 DEF TypeInv
<1>12. QED
  BY <1>1, <1>7, <1>8, <1>9, <1>10, <1>11, GoesOnIInv

LEMMA SetGaugeIInv ==
    ASSUME IInv, NEW i, SetGauge(i)
    PROVE  IInv'
<1> DEFINE h == handlers[i]
           next == [h EXCEPT !.pc = "labels"]
<1>1. /\ TypeInv /\ i \in DOMAIN handlers /\ h.pc = "gauge"
      /\ UNCHANGED <<setting, state, timeline, label, seenByHold, failures>>
      /\ gauge' = IF h.event = "remove" \/ (h.event = "update" /\ h.count = 0) THEN None ELSE h.count
      /\ IF h.event = "comment" /\ h.count >= MaxRetests
           THEN handlers' = [handlers EXCEPT ![i].pc = "labels"]
           ELSE Done(i)
  BY DEF SetGauge, At, IInv
<1>2. h \in Handlers
  BY <1>1, LenProperties, ElementOfSeq DEF TypeInv
<1>3. h.count \in 0..MaxItems
  BY <1>2 DEF Handlers
<1>4. gauge' \in 0..MaxItems \cup {None}
  BY <1>1, <1>3
<1>5. Counted(h, timeline)
  BY <1>1 DEF IInv, CountInv
<1>6. ASSUME Undisturbed, Len(timeline) <= PageSize
      PROVE  /\ Alone(h, gauge, timeline)
             /\ h.event = "remove" \/ Exact(gauge', timeline)
  <2>1. Alone(h, gauge, timeline)
    BY <1>1, <1>6 DEF IInv, GaugeInv
  <2>2. ASSUME h.event # "remove"
        PROVE  Exact(gauge', timeline)
    <3>1. h.count = NumberOfRetestComments(timeline)
      BY <1>1, <2>1, <2>2 DEF Alone
    <3>2. h.count # None
      BY <1>3, RefereeAssumption
    <3>3. QED
      BY <1>1, <2>2, <3>1, <3>2 DEF Exact
  <2>3. QED
    BY <2>1, <2>2
<1>7. CASE h.event = "comment" /\ h.count >= MaxRetests
  <2>1. handlers' = [handlers EXCEPT ![i] = next]
    BY <1>1, <1>7
  <2>2. /\ next \in Handlers /\ next.pc = "labels" /\ next.event = h.event /\ next.count = h.count
        /\ next.seen = h.seen /\ next.botHeld = h.botHeld
    BY <1>2 DEF Handlers
  <2> HIDE DEF next
  <2>3. Counted(next, timeline)
    BY <1>1, <1>5, <1>7, <2>2 DEF Counted
  <2>4. ASSUME Undisturbed, Len(timeline) <= PageSize
        PROVE  Alone(next, gauge', timeline)
    BY <1>6, <1>7, <2>2, <2>4 DEF Alone
  <2>5. QED
    BY <1>1, <1>4, <2>1, <2>2, <2>3, <2>4, GoesOnIInv
<1>8. CASE ~(h.event = "comment" /\ h.count >= MaxRetests)
  <2>1. Undisturbed /\ Len(timeline) <= PageSize /\ state = "open" => Exact(gauge', timeline)
    BY <1>6 DEF Alone
  <2>2. Done(i) /\ failures' \in 0..setting.maxFailures
    BY <1>1, <1>8 DEF TypeInv
  <2>3. QED
    BY <1>1, <1>4, <2>1, <2>2, DoneIInv
<1>9. QED
  BY <1>7, <1>8

LEMMA FetchLabelsIInv ==
    ASSUME IInv, NEW i, FetchLabels(i)
    PROVE  IInv'
<1> DEFINE h == handlers[i]
           next == [h EXCEPT !.pc = "comment"]
<1>1. /\ TypeInv /\ i \in DOMAIN handlers /\ h.pc = "labels"
      /\ UNCHANGED <<setting, state, timeline, label, seenByHold, gauge, failures>>
      /\ IF label \/ h.botHeld THEN Done(i) ELSE handlers' = [handlers EXCEPT ![i].pc = "comment"]
  BY DEF FetchLabels, At, IInv
<1>2. h \in Handlers
  BY <1>1, LenProperties, ElementOfSeq DEF TypeInv
<1>3. gauge' \in 0..MaxItems \cup {None} /\ failures' \in 0..setting.maxFailures
  BY <1>1 DEF TypeInv
<1>4. Counted(h, timeline)
  BY <1>1 DEF IInv, CountInv
<1>5. ASSUME Undisturbed, Len(timeline) <= PageSize
      PROVE  Alone(h, gauge, timeline) /\ Exact(gauge', timeline)
  <2>1. Alone(h, gauge, timeline)
    BY <1>1, <1>5 DEF IInv, GaugeInv
  <2>2. QED
    BY <1>1, <2>1 DEF Alone
<1>6. CASE label \/ h.botHeld
  BY <1>1, <1>3, <1>5, <1>6, DoneIInv
<1>7. CASE ~(label \/ h.botHeld)
  <2>1. handlers' = [handlers EXCEPT ![i] = next]
    BY <1>1, <1>7
  <2>2. /\ next \in Handlers /\ next.pc = "comment" /\ next.event = h.event /\ next.count = h.count
        /\ next.seen = h.seen /\ next.botHeld = h.botHeld
    BY <1>2 DEF Handlers
  <2> HIDE DEF next
  <2>3. Counted(next, timeline)
    BY <1>1, <1>4, <1>7, <2>2 DEF Counted
  <2>4. ASSUME Undisturbed, Len(timeline) <= PageSize
        PROVE  Alone(next, gauge', timeline)
    BY <1>1, <1>5, <2>2, <2>4 DEF Alone
  <2>5. QED
    BY <1>1, <1>3, <2>1, <2>2, <2>3, <2>4, GoesOnIInv
<1>8. QED
  BY <1>6, <1>7

LEMMA FailIInv ==
    ASSUME IInv, NEW i, Fail(i)
    PROVE  IInv'
<1>1. /\ TypeInv /\ i \in DOMAIN handlers /\ Done(i)
      /\ failures < setting.maxFailures /\ failures' = failures + 1
      /\ UNCHANGED <<setting, state, timeline, label, seenByHold, gauge>>
  BY DEF Fail, IInv
<1>2. gauge' \in 0..MaxItems \cup {None} /\ failures' \in 0..setting.maxFailures /\ failures \in Nat
  BY <1>1, RefereeAssumption DEF TypeInv
<1>3. ~Undisturbed
  BY <1>1, <1>2 DEF Undisturbed
<1>4. QED
  BY <1>1, <1>2, <1>3, DoneIInv

\* The hold of a handler that counted enough and saw no hold is earned.
LEMMA CommentEarned ==
    ASSUME NEW items \in Timelines, NEW x \in Items, NEW h, h.pc = "comment", Counted(h, items), x.seen = h.seen,
           h.count \in Nat
    PROVE  Earned(Len(items) + 1, Append(items, x))
<1> DEFINE more == Append(items, x)
           seen == h.seen
           page == SubSeq(items, 1, seen)
           known == 1..seen
           pushes == {p \in known : more[p].kind = "push"}
           after == {c \in known : /\ more[c].kind \in {"retest", "test"}
                                   /\ \A p \in pushes : more[c].at > more[p].at}
<1>1. /\ Len(items) \in Nat /\ more \in Seq(Items) /\ Len(more) = Len(items) + 1
      /\ \A i \in 1..Len(items) : more[i] = items[i] /\ more[i].at \in Int
      /\ more[Len(items) + 1] = x
  BY AppendProperties, ItemsOf, RefereeAssumption DEF Timelines
<1>2. seen \in 1..Len(items)
  BY DEF Counted
<1>3. /\ page \in Timelines /\ Len(page) = seen
      /\ \A i \in known : page[i] = items[i]
  BY <1>2, PrefixIs
<1> HIDE DEF more, page
<1>4. \A i \in known : page[i] = more[i] /\ more[i].at \in Int
  BY <1>1, <1>2, <1>3
<1>5. ASSUME NEW kinds
      PROVE  AfterLastPush(page, kinds) =
                {c \in known : more[c].kind \in kinds /\ \A p \in pushes : more[c].at > more[p].at}
  <2>1. AfterLastPush(page, kinds) =
           {c \in 1..Len(page) : /\ page[c].kind \in kinds
                                 /\ \A p \in 1..Len(page) : page[p].kind = "push" => page[c].at > page[p].at}
    BY <1>3, AfterEveryPush
  <2>2. QED
    BY <1>3, <1>4, <2>1
<1>6. ASSUME seen <= PageSize
      PROVE  MaxRetests <= Cardinality(after)
  <2>1. h.count = NumberOfRetestComments(page) /\ h.count >= MaxRetests /\ MaxRetests \in Nat
    BY <1>6, RefereeAssumption DEF Counted, page
  <2>2. NumberOfRetestComments(page) = Cardinality(after)
    BY <1>5 DEF NumberOfRetestComments
  <2>3. QED
    BY <2>1, <2>2
<1>7. ASSUME seen <= PageSize, NEW i \in known, more[i].kind = "botHold"
      PROVE  \E p \in pushes : more[p].at >= more[i].at
  <2>1. ~HeldByBot(page)
    BY <1>7 DEF Counted, page
  <2>2. i \notin AfterLastPush(page, {"botHold"})
    BY <2>1 DEF HeldByBot
  <2>3. PICK p \in pushes : ~(more[i].at > more[p].at)
    BY <1>5, <1>7, <2>2
  <2>4. QED
    BY <1>4, <2>3
<1>8. more[Len(items) + 1].seen = seen /\ seen \in 1 .. (Len(items) + 1) - 1
  BY <1>1, <1>2
<1> HIDE DEF seen
<1>9. QED
  BY <1>6, <1>7, <1>8 DEF Earned, more

LEMMA CreateCommentIInv ==
    ASSUME IInv, NEW i, CreateComment(i)
    PROVE  IInv'
<1> DEFINE h == handlers[i]
<1>1. /\ TypeInv /\ i \in DOMAIN handlers /\ h.pc = "comment" /\ Done(i) /\ Len(timeline) < MaxItems
      /\ setting' = setting /\ state' = state /\ label' = label /\ seenByHold' = seenByHold
      /\ gauge' = gauge /\ failures' = failures
  BY DEF CreateComment, At, IInv
<1>2. PICK at \in now..MaxTime : timeline' = Append(timeline, [kind |-> "botHold", at |-> at, seen |-> h.seen])
  BY DEF CreateComment
<1> DEFINE x == [kind |-> "botHold", at |-> at, seen |-> h.seen]
<1>3. h \in Handlers /\ h.seen \in 0..MaxItems /\ h.count \in Nat
  <2>1. h \in Handlers
    BY <1>1, LenProperties, ElementOfSeq DEF TypeInv
  <2>2. QED
    BY <2>1, RefereeAssumption DEF Handlers
<1>4. at \in 0..MaxTime
  BY <1>1, <1>2, NowIs, RefereeAssumption
<1>5. x \in Items /\ x.kind = "botHold" /\ x.seen = h.seen /\ timeline' = Append(timeline, x)
  BY <1>2, <1>3, <1>4 DEF Items
<1> HIDE DEF x
<1>6. /\ timeline \in Timelines /\ timeline' \in Seq(Items) /\ Len(timeline') = Len(timeline) + 1
      /\ Len(timeline') \in 1..MaxItems /\ timeline'[1].kind = "push"
      /\ \A k \in DOMAIN handlers : Counted(handlers[k], timeline')
      /\ \A j \in 1..Len(timeline) : Earned(j, timeline')
  BY <1>1, <1>5, Grown
<1>7. /\ handlers' \in Seq(Handlers) /\ Len(handlers') = Len(handlers) - 1
      /\ Len(handlers) \in Nat
      /\ \A k \in DOMAIN handlers' : \E m \in DOMAIN handlers : handlers'[k] = handlers[m]
  BY <1>1, DoneShape
<1>8. Len(timeline) \in 1..MaxItems /\ MaxItems \in Nat
  BY <1>1, RefereeAssumption DEF TypeInv
<1>9. TypeInv'
  <2>1. Len(handlers') <= setting'.maxHandlers /\ seenByHold' \in 0..Len(timeline')
    BY <1>1, <1>6, <1>7, <1>8, RefereeAssumption DEF TypeInv
  <2>2. QED
    BY <1>1, <1>6, <1>7, <2>1 DEF TypeInv
<1>10. CountInv'
  BY <1>6, <1>7 DEF CountInv
<1>11. HoldInv'
  <2>1. Counted(h, timeline)
    BY <1>1 DEF IInv, CountInv
  <2>2. Earned(Len(timeline'), timeline')
    BY <1>1, <1>3, <1>5, <1>6, <2>1, CommentEarned
  <2>3. \A j \in 1..Len(timeline') : j = Len(timeline') \/ j \in 1..Len(timeline)
    BY <1>6, <1>8
  <2>4. QED
    BY <1>6, <2>2, <2>3 DEF HoldInv
<1>12. GaugeInv'
  <2>1. Undisturbed' <=> Undisturbed
    BY <1>1 DEF Undisturbed
  <2>2. ASSUME Undisturbed
        PROVE  DOMAIN handlers' = {}
    <3>1. Len(handlers') = 0
      BY <1>1, <1>7, <2>2, OneHandler
    <3>2. QED
      BY <1>7, <3>1, LenProperties
  <2>3. ASSUME Undisturbed, Len(timeline') <= PageSize
        PROVE  Exact(gauge', timeline')
    <3>1. Len(timeline) <= PageSize
      BY <1>6, <1>8, <2>3, RefereeAssumption
    <3>2. Exact(gauge, timeline)
      BY <1>1, <2>3, <3>1 DEF IInv, GaugeInv, Alone
    <3>3. NumberOfRetestComments(timeline') = NumberOfRetestComments(timeline)
      BY <1>5, <1>6, OtherItems
    <3>4. QED
      BY <1>1, <3>2, <3>3 DEF Exact
  <2>4. QED
    BY <2>1, <2>2, <2>3 DEF GaugeInv
<1>13. QED
  BY <1>9, <1>10, <1>11, <1>12 DEF IInv

LEMMA RestartIInv ==
    ASSUME IInv, Restart
    PROVE  IInv'
<1>1. /\ TypeInv /\ failures < setting.maxFailures /\ failures' = failures + 1 /\ gauge' = None
      /\ handlers' = <<>> \/ handlers' = <<Webhook("initial")>>
      /\ setting' = setting /\ state' = state /\ timeline' = timeline /\ label' = label
      /\ seenByHold' = seenByHold
  BY DEF Restart, IInv
<1>2. failures' \in 0..setting.maxFailures /\ failures \in Nat
  BY <1>1, RefereeAssumption DEF TypeInv
<1>3. Webhook("initial") \in Handlers
  BY RefereeAssumption DEF Webhook, Handlers
<1>4. /\ handlers' \in Seq(Handlers) /\ Len(handlers') <= 1 /\ DOMAIN handlers' \subseteq {1}
      /\ \A k \in DOMAIN handlers' : handlers'[k] = Webhook("initial")
  <2>1. CASE handlers' = <<>>
    BY <2>1, EmptySeq
  <2>2. CASE handlers' = <<Webhook("initial")>>
    BY <1>3, <2>2
  <2>3. QED
    BY <1>1, <2>1, <2>2
<1>5. TypeInv'
  <2>1. Len(handlers') <= setting'.maxHandlers
    BY <1>1, <1>4, LenProperties, RefereeAssumption DEF TypeInv
  <2>2. QED
    BY <1>1, <1>2, <1>4, <2>1 DEF TypeInv
<1>6. CountInv'
  BY <1>4, WebhookIsCounted DEF CountInv
<1>7. HoldInv'
  BY <1>1 DEF HoldInv, IInv
<1>8. GaugeInv'
  BY <1>1, <1>2 DEF GaugeInv, Undisturbed
<1>9. QED
  BY <1>5, <1>6, <1>7, <1>8 DEF IInv

LEMMA InitIInv ==
    ASSUME Init
    PROVE  IInv
<1> DEFINE first == [kind |-> "push", at |-> 1, seen |-> 0]
<1>1. /\ setting \in Settings /\ state = "open" /\ timeline = <<first>> /\ label = FALSE
      /\ seenByHold = 0 /\ handlers = <<>> /\ gauge = None /\ failures = 0
  BY DEF Init
<1>2. first \in Items /\ first.kind = "push"
  BY RefereeAssumption DEF Items
<1> HIDE DEF first
<1>3. timeline \in Seq(Items) /\ Len(timeline) = 1 /\ timeline[1] = first
  BY <1>1, <1>2
<1>4. handlers \in Seq(Handlers) /\ Len(handlers) = 0 /\ DOMAIN handlers = {}
  BY <1>1, EmptySeq
<1>5. TypeInv
  <2>1. setting.maxHandlers \in Nat /\ 0 \in 0..setting.maxFailures /\ 1 \in 1..MaxItems
    BY <1>1, RefereeAssumption
  <2>2. seenByHold \in 0..Len(timeline) /\ Len(handlers) <= setting.maxHandlers
    BY <1>1, <1>3, <1>4, <2>1
  <2>3. QED
    BY <1>1, <1>2, <1>3, <1>4, <2>1, <2>2 DEF TypeInv
<1>6. CountInv
  BY <1>4 DEF CountInv
<1>7. HoldInv
  BY <1>2, <1>3 DEF HoldInv, Earned
<1>8. GaugeInv
  <2>1. timeline \in Timelines
    BY <1>2, <1>3 DEF Timelines
  <2>2. AfterLastPush(timeline, {"retest", "test"}) = {}
    BY <1>2, <1>3, <2>1, AfterEveryPush
  <2>3. Exact(gauge, timeline)
    BY <1>1, <2>2, FS_EmptySet DEF Exact, NumberOfRetestComments
  <2>4. QED
    BY <1>4, <2>3 DEF GaugeInv
<1>9. QED
  BY <1>5, <1>6, <1>7, <1>8 DEF IInv

LEMMA NextIInv ==
    ASSUME IInv, [Next]_vars
    PROVE  IInv'
<1>1. setting.comments \subseteq Kinds /\ setting.states \subseteq {"open", "draft", "closed"}
  BY RefereeAssumption DEF IInv, TypeInv
<1>2. ASSUME NEW kind \in setting.comments, Write(kind)
      PROVE  IInv'
  BY <1>1, <1>2, WriteIInv
<1>3. CASE Push
  BY <1>3, PushIInv
<1>4. ASSUME NEW new \in setting.states, ChangeState(new)
      PROVE  IInv'
  BY <1>1, <1>4, ChangeStateIInv
<1>5. CASE HoldPlugin
  BY <1>5, HoldPluginIInv
<1>6. ASSUME NEW i \in Slots, Step(i) \/ Fail(i)
      PROVE  IInv'
  BY <1>6, FetchTimelineIInv, SetGaugeIInv, FetchLabelsIInv, CreateCommentIInv, FailIInv DEF Step
<1>7. CASE Restart
  BY <1>7, RestartIInv
<1>8. CASE UNCHANGED vars
  <2>1. /\ setting' = setting /\ state' = state /\ timeline' = timeline /\ label' = label
        /\ seenByHold' = seenByHold /\ handlers' = handlers /\ gauge' = gauge /\ failures' = failures
    BY <1>8 DEF vars
  <2>2. QED
    BY <2>1 DEF IInv, TypeInv, CountInv, HoldInv, GaugeInv, Undisturbed, Alone
<1>9. QED
  BY <1>2, <1>3, <1>4, <1>5, <1>6, <1>7, <1>8 DEF Next

LEMMA Invariant == Spec => []IInv
<1>1. Init => IInv
  BY InitIInv
<1>2. IInv /\ [Next]_vars => IInv'
  BY NextIInv
<1>3. QED
  BY <1>1, <1>2, PTL DEF Spec

-----------------------------------------------------------------------------
\* The state of external-plugins/referee is as its type says, of any setting: a handler
\* that is about to comment has counted enough retests and saw no hold.
THEOREM Types == Spec => []TypeOK
<1>1. IInv => TypeOK
  <2> SUFFICES ASSUME IInv
               PROVE  TypeOK
    OBVIOUS
  <2>1. TypeInv /\ handlers \in Seq(Handlers)
    BY DEF IInv, TypeInv
  <2>2. ToSet(handlers) = {handlers[i] : i \in DOMAIN handlers}
    BY DEF ToSet
  <2>3. \A h \in ToSet(handlers) : h.pc = "comment" => h.count >= MaxRetests /\ ~h.botHeld
    BY <2>2 DEF IInv, CountInv, Counted
  <2>4. QED
    BY <2>1, <2>3 DEF TypeOK, TypeInv
<1>2. QED
  BY <1>1, Invariant, PTL

\* external-plugins/referee holds only whoever retested too often since the newest
\* commit, and again for the same commit only from a reading before the first hold.
THEOREM HoldsEarned == Spec => []HoldsAreEarned
<1>1. IInv => HoldsAreEarned
  <2> SUFFICES ASSUME IInv, NEW j \in 1..Len(timeline), IsBotHold(j), timeline[j].seen <= PageSize
               PROVE  /\ MaxRetests <= Cardinality({c \in 1..timeline[j].seen :
                             /\ timeline[c].kind \in {"retest", "test"}
                             /\ \A p \in {q \in 1..timeline[j].seen : timeline[q].kind = "push"} :
                                   timeline[c].at > timeline[p].at})
                      /\ \A i \in 1 .. j - 1 : IsBotHold(i) /\ i \in 1..timeline[j].seen =>
                            \E p \in {q \in 1..timeline[j].seen : timeline[q].kind = "push"} :
                               timeline[p].at >= timeline[i].at
    BY DEF HoldsAreEarned
  <2>1. Earned(j, timeline)
    BY DEF IInv, HoldInv
  <2>2. QED
    BY <2>1 DEF Earned, IsBotHold
<1>2. QED
  BY <1>1, Invariant, PTL

\* The gauge counts what the timeline holds, while one webhook is handled at a time.
THEOREM GaugeExact == Spec => []GaugeIsExact
<1>1. IInv => GaugeIsExact
  BY DEF IInv, GaugeInv, GaugeIsExact, Exact
<1>2. QED
  BY <1>1, Invariant, PTL
=============================================================================
